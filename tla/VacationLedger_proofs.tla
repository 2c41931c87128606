----------------------- MODULE VacationLedger_proofs -----------------------
(***************************************************************************)
(* Whatever is submitted, reviewed, cancelled, removed, restored, credited *)
(* and rolled back, by any number of concurrent transactions, the ledger   *)
(* tells the story of every request, leaves never overlap, a removed       *)
(* member has no leave ahead, a month that is over keeps its credit, no    *)
(* year's reserve is overdrawn, and it covers all that is held for pending *)
(* requests.                                                               *)
(*                                                                         *)
(* A transaction decides in one step and writes in another, so the         *)
(* properties alone are not inductive.  Inv adds what the lock on the      *)
(* Organization row gives: at most one transaction is open, and what it    *)
(* decided still fits the tables when it commits.                          *)
(*                                                                         *)
(* The last two properties are about sums of money over bags and sets of   *)
(* any size.  Money, the invariant they need, adds that what a transaction *)
(* decided is paid for by the reserve it read.  The library's fold adds    *)
(* the elements of a set one by one, choosing each: the lemmas on sums     *)
(* show, by induction over finite sets, that the sum does not depend on    *)
(* the choice, and what one element more or less does to it.               *)
(***************************************************************************)
EXTENDS VacationLedger, FiniteSetTheorems, WellFoundedInduction, TLAPS

Snapshots == Seq([from : Day, terms : Terms])

NewRows(w, type, of) == {row \in w.rows : row.type = type /\ row.of = of}

(* r is written as another status of itself.                               *)
Rewritten(w, r, from, to) ==
  /\ r \in DOMAIN w.requests
  /\ request[r].status = from
  /\ w.requests[r].status = to
  /\ w.requests[r].first = request[r].first
  /\ w.requests[r].last = request[r].last
  /\ w.requests[r].deduction = request[r].deduction

NoRows(w, r) == NewRows(w, "debit", r) = {} /\ NewRows(w, "refund", r) = {}

Submits(w, r) ==
  /\ DOMAIN w.requests = {r}
  /\ request[r].status = "none"
  /\ w.requests[r].status = "pending"
  /\ member = "active"
  /\ NoRows(w, r)
  /\ \A q \in Request : Live(q) =>
       ~Overlap(w.requests[r].first, w.requests[r].last, request[q].first, request[q].last)

Approves(w, r) ==
  /\ Rewritten(w, r, "pending", "approved")
  /\ NewRows(w, "debit", r) = {Debit(r)}
  /\ NewRows(w, "refund", r) = {}

Closes(w, r) ==
  \/ Rewritten(w, r, "pending", "rejected") /\ NoRows(w, r)
  \/ Rewritten(w, r, "pending", "cancelled") /\ NoRows(w, r)
  \/ /\ Rewritten(w, r, "approved", "cancelled")
     /\ NewRows(w, "debit", r) = {}
     /\ NewRows(w, "refund", r) = {Refund(r)}

(* The ways in which a transaction may leave a request.                    *)
Fits(w, r) ==
  \/ r \notin DOMAIN w.requests /\ NoRows(w, r)
  \/ Submits(w, r)
  \/ Approves(w, r)
  \/ Closes(w, r)

(* A credit is for a month that has none.                                  *)
CreditFits(w, m) ==
  \/ NewRows(w, "credit", m) = {}
  \/ /\ RowsFor("credit", m) = {}
     /\ \E row : NewRows(w, "credit", m) = {row}

(* A removal leaves nothing ahead.                                         *)
RemovalFits(w) ==
  w.removes => \A r \in Request :
    IF r \in DOMAIN w.requests THEN w.requests[r].status = "cancelled"
    ELSE request[r].status # "pending" /\ (request[r].status = "approved" => request[r].first < today)

(* Settings are saved under the day they are saved on.                     *)
TermsFit(w) == w.terms \in Snapshots /\ \A i \in DOMAIN w.terms : w.terms[i].from = today

Dated(q) == q \in Requests /\ q.first <= q.last /\ YearOf[q.first] = YearOf[q.last]

Planned(w) ==
  /\ DOMAIN w.requests \subseteq Request
  /\ \A r \in DOMAIN w.requests : Dated(w.requests[r])
  /\ \A r \in Request : Fits(w, r)
  /\ \A m \in Month : CreditFits(w, m)
  /\ w.removes \in BOOLEAN
  /\ RemovalFits(w)
  /\ TermsFit(w)

OneOpen == \A s, t \in Tx : tx[s].open /\ tx[t].open => s = t

Inv ==
  /\ TypeOK
  /\ LedgerBalanced
  /\ NoOverlap
  /\ RemovedHasNoLeave
  /\ OneOpen
  /\ DOMAIN tx = Tx
  /\ \A t \in Tx : tx[t].open \in BOOLEAN
  /\ \A t \in Tx : tx[t].open => Planned(tx[t])

-----------------------------------------------------------------------------
(* Types of what the operations build.                                     *)
LEMMA YearType == ASSUME NEW d \in Day PROVE YearOf[d] \in Year
BY DEF Year

(* A request of its type, and one that is live again.                      *)
LEMMA AskedType ==
  ASSUME NEW s \in {"none", "pending", "approved", "rejected", "cancelled"},
         NEW f \in Day, NEW l \in Day, NEW d \in Nat,
         NEW a \in Year \cup {NoYear}, NEW b \in Year \cup {NoYear}
  PROVE  /\ Asked(s, f, l, d, a, b) \in Requests
         /\ Asked(s, f, l, d, a, b).status = s
         /\ Asked(s, f, l, d, a, b).first = f
         /\ Asked(s, f, l, d, a, b).last = l
         /\ Asked(s, f, l, d, a, b).deduction = d
         /\ Asked(s, f, l, d, a, b).reviewedIn = b
BY DEF Asked, Requests

(* The fields of a ledger row.                                             *)
LEMMA RowFields ==
  ASSUME NEW type, NEW of, NEW amount
  PROVE  /\ Row(type, of, amount).type = type
         /\ Row(type, of, amount).of = of
         /\ Row(type, of, amount).amount = amount
BY DEF Row

(* Rounding a natural number gives one: the day count of a range, its      *)
(* price in cents.                                                         *)
LEMMA DeductionType ==
  ASSUME NEW f \in Day, NEW l \in Day, NEW salary \in Nat
  PROVE  Deduction(Working(f .. l), salary) \in Nat
<1>0. f \in Int /\ l \in Int
  BY DEF Day
<1>1. IsFiniteSet((f .. l) \ Weekend)
  <2>1. IsFiniteSet(f .. l)
    BY <1>0, FS_Interval
  <2> QED BY <2>1, FS_Difference
<1>2. Working(f .. l) \in Nat
  BY <1>1, FS_CardinalityType DEF Working
<1> DEFINE k == Working(f .. l) * salary
<1>3. k \in Nat
  BY <1>2
<1>4. Working(f .. l) * salary * 12 = k * 12
  OBVIOUS
<1> HIDE DEF k
<1>5. (2 * (k * 12) + 260) \div (2 * 260) \in Nat
  BY <1>3
<1> QED BY <1>4, <1>5 DEF Deduction, Round

-----------------------------------------------------------------------------
(* Each operation decides something that fits the tables it has read.      *)

(* No request and no row is written: the other two parts are up to the     *)
(* operation.                                                              *)
LEMMA NothingWritten ==
  ASSUME NEW w, w.requests = <<>>,
         \A row \in w.rows : row.type = "credit",
         \A m \in Month : CreditFits(w, m),
         w.removes = FALSE, TermsFit(w)
  PROVE  Planned(w)
<1>1. DOMAIN w.requests = {}
  OBVIOUS
<1>2. \A r \in Request : Fits(w, r)
  BY <1>1 DEF Fits, NoRows, NewRows
<1> QED BY <1>1, <1>2 DEF Planned, RemovalFits

(* Writing no settings is writing settings.                                *)
LEMMA NoSnapshot ==
  ASSUME NEW w, w.terms = <<>>
  PROVE  TermsFit(w)
BY DEF TermsFit, Snapshots

(* One request is written, and rows that are its own.                      *)
LEMMA OneWritten ==
  ASSUME NEW w, NEW r \in Request, DOMAIN w.requests = {r}, Dated(w.requests[r]),
         Submits(w, r) \/ Approves(w, r) \/ Closes(w, r),
         \A row \in w.rows : row.type # "credit" /\ row.of = r,
         w.removes = FALSE, w.terms = <<>>
  PROVE  Planned(w)
<1>1. \A q \in Request : Fits(w, q)
  <2> SUFFICES ASSUME NEW q \in Request PROVE Fits(w, q)
    OBVIOUS
  <2>1. CASE q = r
    BY <2>1 DEF Fits
  <2>2. CASE q # r
    BY <2>2 DEF Fits, NoRows, NewRows
  <2> QED BY <2>1, <2>2
<1>2. \A m \in Month : CreditFits(w, m)
  BY DEF CreditFits, NewRows
<1> QED BY <1>1, <1>2, NoSnapshot DEF Planned, RemovalFits

(* What TypeOK says of one request.                                        *)
LEMMA RequestType ==
  ASSUME TypeOK, NEW r \in Request
  PROVE  /\ request[r] \in Requests
         /\ request[r].first \in Day /\ request[r].last \in Day
         /\ request[r].deduction \in Nat
         /\ request[r].status \in {"none", "pending", "approved", "rejected", "cancelled"}
         /\ request[r].requestedIn \in Year \cup {NoYear}
         /\ request[r].reviewedIn \in Year \cup {NoYear}
         /\ request[r].first <= request[r].last
         /\ YearOf[request[r].first] = YearOf[request[r].last]
BY DEF TypeOK, Requests, OneYear

(* A request under another status keeps its dates and its deduction.       *)
LEMMA BecomesType ==
  ASSUME TypeOK, NEW r \in Request,
         NEW s \in {"none", "pending", "approved", "rejected", "cancelled"},
         NEW y \in Year \cup {NoYear}
  PROVE  /\ Dated(Becomes(r, s, y))
         /\ Becomes(r, s, y).status = s
         /\ Becomes(r, s, y).first = request[r].first
         /\ Becomes(r, s, y).last = request[r].last
         /\ Becomes(r, s, y).deduction = request[r].deduction
<1> DEFINE f == request[r].first
           l == request[r].last
           d == request[r].deduction
           a == request[r].requestedIn
<1>1. /\ f \in Day /\ l \in Day /\ d \in Nat /\ a \in Year \cup {NoYear}
      /\ f <= l /\ YearOf[f] = YearOf[l]
  BY RequestType
<1>2. Becomes(r, s, y) = Asked(s, f, l, d, a, y)
  BY DEF Becomes
<1> HIDE DEF f, l, d, a
<1> DEFINE v == Asked(s, f, l, d, a, y)
<1>3. v.status = s /\ v.first = f /\ v.last = l /\ v.deduction = d
  BY DEF Asked
<1>4. v \in Requests
  BY <1>1 DEF Asked, Requests
<1> HIDE DEF v
<1>5. Dated(v)
  BY <1>1, <1>3, <1>4 DEF Dated
<1> QED BY <1>2, <1>3, <1>5 DEF v, f, l, d

(* The last element of a sequence is one of its elements.                  *)
LEMMA LastOfSeq ==
  ASSUME NEW S, NEW s \in Seq(S), s # <<>>
  PROVE  s[Len(s)] \in S
<1>1. Len(s) \in 1 .. Len(s)
  OBVIOUS
<1> QED BY <1>1

(* submit: a new pending request, beside everything live.                  *)
LEMMA SubmitPlanned ==
  ASSUME Inv, NEW r \in Request, NEW first \in Day, NEW last \in Day,
         request[r].status = "none", member = "active", Configured, ValidDates(first, last),
         \A q \in Request : Live(q) => ~Overlap(first, last, request[q].first, request[q].last),
         NEW w,
         w = Writes(Only(r, Asked("pending", first, last,
                                  Deduction(Working(first .. last), Financials.monthlySalary),
                                  YearOf[today], NoYear)),
                    {}, FALSE, <<>>)
  PROVE  Planned(w)
<1> DEFINE d == Deduction(Working(first .. last), Financials.monthlySalary)
           v == Asked("pending", first, last, d, YearOf[today], NoYear)
<1>1. Financials.monthlySalary \in Nat
  <2>1. snapshots \in Snapshots /\ snapshots # <<>>
    BY DEF Inv, TypeOK, Configured, Snapshots
  <2>3. snapshots[Len(snapshots)] \in [from : Day, terms : Terms]
    BY <2>1, LastOfSeq DEF Snapshots
  <2>4. Financials \in Terms
    BY <2>3 DEF Financials
  <2> QED BY <2>4, TermsAssumption DEF Settings
<1>2. d \in Nat
  BY <1>1, DeductionType
<1> HIDE DEF d
<1>3. YearOf[today] \in Year
  BY YearType DEF Inv, TypeOK
<1>4. v \in Requests /\ v.status = "pending" /\ v.first = first /\ v.last = last
  BY <1>2, <1>3, AskedType
<1>5. Dated(v)
  BY <1>4 DEF Dated, ValidDates
<1>6. w = Writes(Only(r, v), {}, FALSE, <<>>)
  BY DEF d
<1> HIDE DEF v
<1>7. /\ w.requests = Only(r, v)
      /\ w.rows = {}
      /\ w.removes = FALSE
      /\ w.terms = <<>>
  BY <1>6 DEF Writes
<1>8. DOMAIN w.requests = {r} /\ w.requests[r] = v
  BY <1>7 DEF Only
<1>9. Submits(w, r)
  BY <1>4, <1>7, <1>8 DEF Submits, NoRows, NewRows
<1> QED BY <1>5, <1>7, <1>8, <1>9, OneWritten

(* What an approval writes in the ledger.                                  *)
LEMMA DebitRow ==
  ASSUME NEW r
  PROVE  Debit(r).type = "debit" /\ Debit(r).of = r /\ Debit(r).amount = -request[r].deduction
BY RowFields DEF Debit

(* What the cancellation of an approval writes in the ledger.              *)
LEMMA RefundRow ==
  ASSUME NEW r
  PROVE  Refund(r).type = "refund" /\ Refund(r).of = r /\ Refund(r).amount = request[r].deduction
BY RowFields DEF Refund

(* review, approving: one debit of the frozen amount.                      *)
LEMMA ApprovePlanned ==
  ASSUME Inv, NEW r \in Request, request[r].status = "pending",
         NEW w, w = Writes(Only(r, Becomes(r, "approved", YearOf[today])), {Debit(r)}, FALSE, <<>>)
  PROVE  Planned(w)
<1> DEFINE v == Becomes(r, "approved", YearOf[today])
<1>1. YearOf[today] \in Year
  BY YearType DEF Inv, TypeOK
<1>2. /\ Dated(v) /\ v.status = "approved" /\ v.first = request[r].first
      /\ v.last = request[r].last /\ v.deduction = request[r].deduction
  BY <1>1, BecomesType DEF Inv
<1> HIDE DEF v
<1>3. w.requests = Only(r, v) /\ w.rows = {Debit(r)} /\ w.removes = FALSE /\ w.terms = <<>>
  BY DEF Writes, v
<1>4. DOMAIN w.requests = {r} /\ w.requests[r] = v
  BY <1>3 DEF Only
<1> DEFINE row == Debit(r)
<1>5. row.type = "debit" /\ row.of = r
  BY DebitRow
<1>6. w.rows = {row}
  BY <1>3
<1>7. row = Debit(r)
  OBVIOUS
<1> HIDE DEF row
<1>8. NewRows(w, "debit", r) = {Debit(r)} /\ NewRows(w, "refund", r) = {}
  BY <1>5, <1>6, <1>7 DEF NewRows
<1>9. Approves(w, r)
  BY <1>2, <1>4, <1>8 DEF Approves, Rewritten
<1>10. \A x \in w.rows : x.type # "credit" /\ x.of = r
  BY <1>5, <1>6
<1> QED BY <1>2, <1>3, <1>4, <1>9, <1>10, OneWritten

(* review, rejecting: no row.                                              *)
LEMMA RejectPlanned ==
  ASSUME Inv, NEW r \in Request, request[r].status = "pending",
         NEW w, w = Writes(Only(r, Becomes(r, "rejected", YearOf[today])), {}, FALSE, <<>>)
  PROVE  Planned(w)
<1> DEFINE v == Becomes(r, "rejected", YearOf[today])
<1>1. YearOf[today] \in Year
  BY YearType DEF Inv, TypeOK
<1>2. /\ Dated(v) /\ v.status = "rejected" /\ v.first = request[r].first
      /\ v.last = request[r].last /\ v.deduction = request[r].deduction
  BY <1>1, BecomesType DEF Inv
<1> HIDE DEF v
<1>3. w.requests = Only(r, v) /\ w.rows = {} /\ w.removes = FALSE /\ w.terms = <<>>
  BY DEF Writes, v
<1>4. DOMAIN w.requests = {r} /\ w.requests[r] = v
  BY <1>3 DEF Only
<1>5. NoRows(w, r)
  BY <1>3 DEF NewRows, NoRows
<1>6. Closes(w, r)
  BY <1>2, <1>4, <1>5 DEF Closes, Rewritten
<1> QED BY <1>2, <1>3, <1>4, <1>6, OneWritten

(* A request cancelled, by hand or by removal.                             *)
LEMMA CancelledType ==
  ASSUME Inv, NEW r \in Request
  PROVE  /\ Dated(Cancelled(r)) /\ Cancelled(r).status = "cancelled"
         /\ Cancelled(r).first = request[r].first
         /\ Cancelled(r).last = request[r].last
         /\ Cancelled(r).deduction = request[r].deduction
<1>1. TypeOK /\ request[r].reviewedIn \in Year \cup {NoYear}
  BY RequestType DEF Inv
<1> QED BY <1>1, BecomesType DEF Cancelled

(* cancel: one refund of an approved request, no row of a pending one.     *)
LEMMA CancelPlanned ==
  ASSUME Inv, NEW r \in Request, Live(r),
         NEW w, w = Writes(Only(r, Cancelled(r)),
                           {Refund(q) : q \in {q \in {r} : request[q].status = "approved"}},
                           FALSE, <<>>)
  PROVE  Planned(w)
<1> DEFINE v == Cancelled(r)
           rows == {Refund(q) : q \in {q \in {r} : request[q].status = "approved"}}
<1>1. /\ Dated(v) /\ v.status = "cancelled" /\ v.first = request[r].first
      /\ v.last = request[r].last /\ v.deduction = request[r].deduction
  BY CancelledType
<1> HIDE DEF v
<1>2. w.requests = Only(r, v) /\ w.rows = rows /\ w.removes = FALSE /\ w.terms = <<>>
  BY DEF Writes, v
<1>3. DOMAIN w.requests = {r} /\ w.requests[r] = v
  BY <1>2 DEF Only
<1> DEFINE row == Refund(r)
<1>4. row.type = "refund" /\ row.of = r
  BY RefundRow
<1>5. /\ request[r].status = "pending" => w.rows = {}
      /\ request[r].status = "approved" => w.rows = {row}
      /\ \A x \in w.rows : x = row
  BY <1>2
<1>6. row = Refund(r)
  OBVIOUS
<1> HIDE DEF row, rows
<1>7. \A x \in w.rows : x.type # "credit" /\ x.of = r
  BY <1>4, <1>5
<1>8. Closes(w, r)
  <2>1. CASE request[r].status = "pending"
    BY <1>1, <1>3, <1>5, <2>1 DEF Closes, Rewritten, NoRows, NewRows
  <2>2. CASE request[r].status = "approved"
    <3>1. NewRows(w, "debit", r) = {} /\ NewRows(w, "refund", r) = {Refund(r)}
      BY <1>4, <1>5, <1>6, <2>2 DEF NewRows
    <3> QED BY <1>1, <1>3, <2>2, <3>1 DEF Closes, Rewritten
  <2> QED BY <2>1, <2>2 DEF Live
<1> QED BY <1>1, <1>2, <1>3, <1>7, <1>8, OneWritten

(* cancelActiveForRemoval: the same, for everything ahead.                 *)
LEMMA RemovePlanned ==
  ASSUME Inv,
         NEW w, w = Writes([r \in {q \in Request : Ahead(q)} |-> Cancelled(r)],
                           {Refund(r) : r \in {q \in Request : Ahead(q) /\ request[q].status = "approved"}},
                           TRUE, <<>>)
  PROVE  Planned(w)
<1>1. /\ DOMAIN w.requests = {q \in Request : Ahead(q)}
      /\ \A r \in DOMAIN w.requests : w.requests[r] = Cancelled(r)
      /\ w.rows = {Refund(r) : r \in {q \in Request : Ahead(q) /\ request[q].status = "approved"}}
      /\ w.removes = TRUE
      /\ w.terms = <<>>
  BY DEF Writes
<1>2. \A r \in DOMAIN w.requests : Dated(w.requests[r])
  BY <1>1, CancelledType
<1>3. \A row \in w.rows : row.type = "refund" /\ row = Refund(row.of)
                            /\ row.of \in Request /\ Ahead(row.of) /\ request[row.of].status = "approved"
  <2> TAKE row \in w.rows
  <2>1. PICK q \in Request : Ahead(q) /\ request[q].status = "approved" /\ row = Refund(q)
    BY <1>1
  <2>2. row.type = "refund" /\ row.of = q
    BY <2>1, RefundRow
  <2> QED BY <2>1, <2>2
<1>4. ASSUME NEW r \in Request, Ahead(r)
      PROVE  /\ r \in DOMAIN w.requests
             /\ w.requests[r].status = "cancelled"
             /\ w.requests[r].first = request[r].first
             /\ w.requests[r].last = request[r].last
             /\ w.requests[r].deduction = request[r].deduction
  <2>1. r \in DOMAIN w.requests /\ w.requests[r] = Cancelled(r)
    BY <1>1, <1>4
  <2> QED BY <2>1, CancelledType
<1>5. ASSUME NEW r \in Request PROVE Fits(w, r)
  <2>1. NewRows(w, "debit", r) = {}
    BY <1>3 DEF NewRows
  <2>2. CASE ~Ahead(r)
    <3>1. NewRows(w, "refund", r) = {}
      BY <1>3, <2>2 DEF NewRows
    <3> QED BY <1>1, <2>1, <2>2, <3>1 DEF Fits, NoRows
  <2>3. CASE request[r].status = "pending"
    <3>1. NewRows(w, "refund", r) = {}
      BY <1>3, <2>3 DEF NewRows
    <3>2. Ahead(r)
      BY <2>3 DEF Ahead
    <3>3. Rewritten(w, r, "pending", "cancelled")
      BY <1>4, <2>3, <3>2 DEF Rewritten
    <3> QED BY <2>1, <3>1, <3>3 DEF Fits, Closes, NoRows
  <2>4. CASE Ahead(r) /\ request[r].status = "approved"
    <3> DEFINE own == Refund(r)
    <3>1. own \in w.rows /\ own.type = "refund" /\ own.of = r /\ own = Refund(r)
      BY <1>1, <2>4, RefundRow
    <3> HIDE DEF own
    <3>2. NewRows(w, "refund", r) = {Refund(r)}
      BY <1>3, <3>1 DEF NewRows
    <3>3. Rewritten(w, r, "approved", "cancelled")
      BY <1>4, <2>4 DEF Rewritten
    <3> QED BY <2>1, <3>2, <3>3 DEF Fits, Closes
  <2> QED BY <2>2, <2>3, <2>4 DEF Ahead
<1>6. \A m \in Month : CreditFits(w, m)
  BY <1>3 DEF CreditFits, NewRows
<1>7. RemovalFits(w)
  <2> SUFFICES ASSUME NEW r \in Request
               PROVE  IF r \in DOMAIN w.requests THEN w.requests[r].status = "cancelled"
                      ELSE request[r].status # "pending"
                           /\ (request[r].status = "approved" => request[r].first < today)
    BY DEF RemovalFits
  <2>1. request[r].first \in Int /\ today \in Int
    BY RequestType DEF Inv, TypeOK, Day
  <2>2. CASE Ahead(r)
    BY <1>4, <2>2
  <2>3. CASE ~Ahead(r)
    <3>1. r \notin DOMAIN w.requests
      BY <1>1, <2>3
    <3>2. request[r].status # "pending" /\ (request[r].status = "approved" => ~(today <= request[r].first))
      BY <2>3 DEF Ahead
    <3> QED BY <2>1, <3>1, <3>2
  <2> QED BY <2>2, <2>3
<1>8. DOMAIN w.requests \subseteq Request
  BY <1>1
<1> QED BY <1>1, <1>2, <1>5, <1>6, <1>7, <1>8, NoSnapshot DEF Planned

(* A sequence of one element.                                              *)
LEMMA OneOfSeq ==
  ASSUME NEW S, NEW s \in S
  PROVE  <<s>> \in Seq(S) /\ \A i \in DOMAIN <<s>> : <<s>>[i] = s
OBVIOUS

(* updateFinancials: one snapshot.                                         *)
LEMMA UpdatePlanned ==
  ASSUME Inv, NEW terms \in Terms,
         NEW w, w = Writes(<<>>, {}, FALSE, <<[from |-> today, terms |-> terms]>>)
  PROVE  Planned(w)
<1>1. w.requests = <<>> /\ w.rows = {} /\ w.removes = FALSE
      /\ w.terms = <<[from |-> today, terms |-> terms]>>
  BY DEF Writes
<1> DEFINE snapshot == [from |-> today, terms |-> terms]
<1>2. snapshot \in [from : Day, terms : Terms]
  BY DEF Inv, TypeOK
<1>3. w.terms = <<snapshot>>
  BY <1>1
<1> HIDE DEF snapshot
<1>4. TermsFit(w)
  <2>1. w.terms \in Snapshots
    BY <1>2, <1>3, OneOfSeq DEF Snapshots
  <2>2. snapshot.from = today
    BY DEF snapshot
  <2>3. \A i \in DOMAIN w.terms : w.terms[i] = snapshot
    BY <1>2, <1>3, OneOfSeq
  <2> QED BY <2>1, <2>2, <2>3 DEF TermsFit
<1>5. \A m \in Month : CreditFits(w, m)
  BY <1>1 DEF CreditFits, NewRows
<1> QED BY <1>1, <1>4, <1>5, NothingWritten

(* runAccrual: one credit, for a month that has none.                      *)
LEMMA AccrualPlanned ==
  ASSUME Inv, NEW m \in Month, NEW amount,
         ~\E row \in BagToSet(ledger) : row.type = "credit" /\ row.of = m,
         NEW w, w = Writes(<<>>, {Row("credit", m, amount)}, FALSE, <<>>)
  PROVE  Planned(w)
<1> DEFINE row == Row("credit", m, amount)
<1>1. row.type = "credit" /\ row.of = m
  BY RowFields
<1> HIDE DEF row
<1>2. w.requests = <<>> /\ w.rows = {row} /\ w.removes = FALSE /\ w.terms = <<>>
  BY DEF Writes, row
<1>3. ASSUME NEW n \in Month PROVE CreditFits(w, n)
  <2>1. CASE n = m
    <3>1. NewRows(w, "credit", n) = {row}
      BY <1>1, <1>2, <2>1 DEF NewRows
    <3>2. RowsFor("credit", n) = {}
      BY <2>1 DEF RowsFor
    <3> QED BY <3>1, <3>2 DEF CreditFits
  <2>2. CASE n # m
    BY <1>1, <1>2, <2>2 DEF CreditFits, NewRows
  <2> QED BY <2>1, <2>2
<1> QED BY <1>1, <1>2, <1>3, NoSnapshot, NothingWritten

-----------------------------------------------------------------------------
(* A decision leaves the tables alone, so it still fits them; a member who *)
(* is restored is one who can be written about.                            *)
LEMMA PlannedKept ==
  ASSUME NEW s \in Tx, NEW w, tx'[s] = w, Planned(w),
         UNCHANGED <<today, snapshots, request, ledger>>, member' = member \/ member' = "active"
  PROVE  Planned(tx[s])'
<1>1. \A r \in Request : Fits(w, r) => Fits(tx[s], r)'
  <2> TAKE r \in Request
  <2>1. NoRows(w, r) => NoRows(tx[s], r)'
    BY DEF NoRows, NewRows
  <2>2. Submits(w, r) => Submits(tx[s], r)'
    BY DEF Submits, NoRows, NewRows, Live
  <2>3. Approves(w, r) => Approves(tx[s], r)'
    BY DEF Approves, Rewritten, NewRows, Debit, Row
  <2>4. Closes(w, r) => Closes(tx[s], r)'
    BY DEF Closes, Rewritten, NoRows, NewRows, Refund, Row
  <2> QED BY <2>1, <2>2, <2>3, <2>4 DEF Fits
<1>2. \A m \in Month : CreditFits(w, m) => CreditFits(tx[s], m)'
  BY DEF CreditFits, NewRows, RowsFor
<1>3. RemovalFits(w) => RemovalFits(tx[s])'
  BY DEF RemovalFits
<1>4. (\A r \in DOMAIN w.requests : Dated(w.requests[r]))
      => (\A r \in DOMAIN tx[s].requests : Dated(tx[s].requests[r]))'
  BY DEF Dated, Requests
<1>5. TermsFit(w) => TermsFit(tx[s])'
  BY DEF TermsFit, Snapshots
<1> QED BY <1>1, <1>2, <1>3, <1>4, <1>5 DEF Planned, Month

(* Tables that do not change go on telling the same story.                 *)
LEMMA SameTables ==
  ASSUME Inv, UNCHANGED <<snapshots, request, ledger>>,
         today' \in Day, member' \in {"active", "removed"}
  PROVE  TypeOK' /\ LedgerBalanced' /\ NoOverlap'
<1>1. UNCHANGED snapshots /\ UNCHANGED request /\ UNCHANGED ledger
  OBVIOUS
<1>2. TypeOK'
  BY <1>1 DEF Inv, TypeOK, Requests, OneYear
<1>3. LedgerBalanced'
  BY <1>1 DEF Inv, LedgerBalanced, Taken, Returned, Untouched, One, RowsFor, Month
<1>4. NoOverlap'
  BY <1>1 DEF Inv, NoOverlap, Live, Overlap
<1> QED BY <1>2, <1>3, <1>4

(* Taking the lock is a step of one transaction, and of no table.          *)
LEMMA DecidePreserves ==
  ASSUME Inv, NEW t \in Tx, NEW w, w.open = TRUE, Planned(w), Decide(t, w)
  PROVE  Inv'
<1>1. UNCHANGED <<today, member, snapshots, request, ledger>>
  BY DEF Decide
<1>2. TypeOK' /\ LedgerBalanced' /\ NoOverlap' /\ RemovedHasNoLeave'
  BY <1>1, SameTables DEF Inv, TypeOK, RemovedHasNoLeave
<1>3. DOMAIN tx' = Tx /\ tx'[t] = w /\ \A s \in Tx : s # t => tx'[s] = tx[s] /\ ~tx'[s].open
  BY DEF Decide, Inv, OrganizationFree
<1>4. OneOpen'
  BY <1>3 DEF OneOpen
<1>5. \A s \in Tx : tx'[s].open \in BOOLEAN
  BY <1>3 DEF Inv
<1>6. (\A s \in Tx : tx[s].open => Planned(tx[s]))'
  BY <1>1, <1>3, PlannedKept
<1> QED BY <1>2, <1>3, <1>4, <1>5, <1>6 DEF Inv

-----------------------------------------------------------------------------
(* What the rows of a commit add to the ledger.                            *)
LEMMA AddRows ==
  ASSUME IsABag(ledger), NEW W, ledger' = ledger (+) SetToBag(W)
  PROVE  /\ IsABag(ledger)'
         /\ BagToSet(ledger)' = BagToSet(ledger) \cup W
         /\ \A row \in BagToSet(ledger) \ W : ledger'[row] = ledger[row]
         /\ \A row \in W \ BagToSet(ledger) : ledger'[row] = 1
<1> DEFINE M == [row \in DOMAIN ledger \cup W |->
                   (IF row \in DOMAIN ledger THEN ledger[row] ELSE 0) + (IF row \in W THEN 1 ELSE 0)]
<1>1. ledger' = M
  BY DEF (+), SetToBag
<1>2. ledger \in [DOMAIN ledger -> Nat \ {0}]
  BY DEF IsABag
<1>3. \A row \in DOMAIN ledger \cup W : M[row] \in Nat \ {0}
  BY <1>2
<1>4. IsABag(ledger')
  BY <1>1, <1>3 DEF IsABag
<1> QED BY <1>1, <1>2, <1>4 DEF BagToSet, IsABag

(* The same, for the rows of one type that belong to one request or month. *)
LEMMA RowsAfter ==
  ASSUME IsABag(ledger), NEW w, ledger' = ledger (+) SetToBag(w.rows), NEW type, NEW of
  PROVE  RowsFor(type, of)' = RowsFor(type, of) \cup NewRows(w, type, of)
BY AddRows DEF RowsFor, NewRows

(* A first row of its type is the only one, and stays the only one while   *)
(* no other is added.                                                      *)
LEMMA FirstRow ==
  ASSUME IsABag(ledger), NEW w, ledger' = ledger (+) SetToBag(w.rows), NEW type, NEW of,
         RowsFor(type, of) = {}, NEW row, NewRows(w, type, of) = {row}
  PROVE  One(type, of, row.amount)'
<1>1. RowsFor(type, of)' = {row}
  BY RowsAfter
<1>2. row \in w.rows \ BagToSet(ledger)
  BY DEF NewRows, RowsFor
<1>3. ledger'[row] = 1
  BY <1>2, AddRows
<1> QED BY <1>1, <1>3 DEF One

(* Rows that are one of a kind stay so while no other is added.            *)
LEMMA SameRows ==
  ASSUME IsABag(ledger), NEW w, ledger' = ledger (+) SetToBag(w.rows), NEW type, NEW of,
         NewRows(w, type, of) = {}, NEW amount, One(type, of, amount)
  PROVE  One(type, of, amount)'
<1>1. RowsFor(type, of)' = RowsFor(type, of)
  BY RowsAfter
<1>2. PICK row \in RowsFor(type, of) : RowsFor(type, of) = {row} /\ ledger[row] = 1 /\ row.amount = amount
  BY DEF One
<1>3. row \in BagToSet(ledger) \ w.rows
  BY <1>2 DEF NewRows, RowsFor
<1>4. ledger'[row] = 1
  BY <1>2, <1>3, AddRows
<1> QED BY <1>1, <1>2, <1>4 DEF One

(* The story of one request, before and after a commit.                    *)
Story(r) ==
  /\ request[r].status = "approved" => Taken(r) /\ RowsFor("refund", r) = {}
  /\ request[r].status = "cancelled" => Untouched(r) \/ (Taken(r) /\ Returned(r))
  /\ request[r].status \in {"none", "pending", "rejected"} => Untouched(r)

(* A commit carries the story of a request on.                             *)
LEMMA CommitStory ==
  ASSUME Inv, NEW w, Planned(w), NEW r \in Request,
         ledger' = ledger (+) SetToBag(w.rows),
         request'[r] = IF r \in DOMAIN w.requests THEN w.requests[r] ELSE request[r]
  PROVE  Story(r)'
<1>1. IsABag(ledger) /\ Story(r) /\ Fits(w, r)
  BY DEF Inv, TypeOK, LedgerBalanced, Story, Planned
<1>0. PICK d : d = request[r].deduction
  OBVIOUS
<1>2. ASSUME NoRows(w, r) PROVE Untouched(r) => Untouched(r)'
  BY <1>1, <1>2, RowsAfter DEF Untouched, NoRows
<1>3. ASSUME NewRows(w, "debit", r) = {}, One("debit", r, -d) PROVE One("debit", r, -d)'
  BY <1>1, <1>3, SameRows
<1>4. ASSUME NewRows(w, "refund", r) = {}, One("refund", r, d) PROVE One("refund", r, d)'
  BY <1>1, <1>4, SameRows
<1>5. CASE r \notin DOMAIN w.requests /\ NoRows(w, r)
  <2>1. request'[r] = request[r]
    BY <1>5
  <2>2. Taken(r) => Taken(r)'
    BY <1>0, <1>3, <1>5, <2>1 DEF Taken, NoRows
  <2>3. Returned(r) => Returned(r)'
    BY <1>0, <1>4, <1>5, <2>1 DEF Returned, NoRows
  <2>4. RowsFor("refund", r) = {} => RowsFor("refund", r)' = {}
    BY <1>1, <1>5, RowsAfter DEF NoRows
  <2> QED BY <1>1, <1>2, <1>5, <2>1, <2>2, <2>3, <2>4 DEF Story
<1>6. CASE Submits(w, r)
  <2>1. request'[r].status = "pending" /\ Untouched(r)'
    BY <1>1, <1>2, <1>6 DEF Submits, Story
  <2> QED BY <2>1 DEF Story
<1>7. CASE Approves(w, r)
  <2>1. request'[r].status = "approved" /\ request'[r].deduction = d
    BY <1>0, <1>7 DEF Approves, Rewritten
  <2>2. Untouched(r)
    BY <1>1, <1>7 DEF Story, Approves, Rewritten
  <2>3. PICK row : row = Debit(r) /\ row.amount = -d
    BY <1>0, DebitRow
  <2>4. NewRows(w, "debit", r) = {row} /\ NewRows(w, "refund", r) = {}
    BY <1>7, <2>3 DEF Approves
  <2>5. One("debit", r, row.amount)'
    BY <1>1, <2>2, <2>4, FirstRow DEF Untouched
  <2>6. Taken(r)'
    BY <2>1, <2>3, <2>5 DEF Taken
  <2>7. RowsFor("refund", r)' = {}
    BY <1>1, <2>2, <2>4, RowsAfter DEF Untouched
  <2> QED BY <2>1, <2>6, <2>7 DEF Story
<1>8. CASE Rewritten(w, r, "pending", "rejected") /\ NoRows(w, r)
  <2>1. request'[r].status = "rejected" /\ Untouched(r)'
    BY <1>1, <1>2, <1>8 DEF Rewritten, Story
  <2> QED BY <2>1 DEF Story
<1>9. CASE Rewritten(w, r, "pending", "cancelled") /\ NoRows(w, r)
  <2>1. request'[r].status = "cancelled" /\ Untouched(r)'
    BY <1>1, <1>2, <1>9 DEF Rewritten, Story
  <2> QED BY <2>1 DEF Story
<1>10. CASE /\ Rewritten(w, r, "approved", "cancelled")
            /\ NewRows(w, "debit", r) = {}
            /\ NewRows(w, "refund", r) = {Refund(r)}
  <2>1. request'[r].status = "cancelled" /\ request'[r].deduction = d
    BY <1>0, <1>10 DEF Rewritten
  <2>2. Taken(r) /\ RowsFor("refund", r) = {}
    BY <1>1, <1>10 DEF Story, Rewritten
  <2>3. PICK row : row = Refund(r) /\ row.amount = d
    BY <1>0, RefundRow
  <2>4. NewRows(w, "refund", r) = {row}
    BY <1>10, <2>3
  <2>5. One("refund", r, row.amount)'
    BY <1>1, <2>2, <2>4, FirstRow
  <2>6. Returned(r)'
    BY <2>1, <2>3, <2>5 DEF Returned
  <2>7. Taken(r)'
    BY <1>0, <1>3, <1>10, <2>1, <2>2 DEF Taken
  <2> QED BY <2>1, <2>6, <2>7 DEF Story
<1> QED BY <1>1, <1>5, <1>6, <1>7, <1>8, <1>9, <1>10 DEF Fits, Closes

(* A commit credits no month twice.                                        *)
LEMMA CommitCredits ==
  ASSUME Inv, NEW w, Planned(w), NEW m \in Month, ledger' = ledger (+) SetToBag(w.rows),
         NEW row \in RowsFor("credit", m)'
  PROVE  One("credit", m, row.amount)'
<1>1. IsABag(ledger) /\ CreditFits(w, m)
  BY DEF Inv, TypeOK, Planned
<1>2. RowsFor("credit", m)' = RowsFor("credit", m) \cup NewRows(w, "credit", m)
  BY <1>1, RowsAfter
<1>3. CASE NewRows(w, "credit", m) = {}
  <2>1. One("credit", m, row.amount)
    BY <1>2, <1>3 DEF Inv, LedgerBalanced
  <2> QED BY <1>1, <1>3, <2>1, SameRows
<1>4. CASE RowsFor("credit", m) = {} /\ \E x : NewRows(w, "credit", m) = {x}
  <2>1. NewRows(w, "credit", m) = {row}
    BY <1>2, <1>4
  <2> QED BY <1>1, <1>4, <2>1, FirstRow
<1> QED BY <1>1, <1>3, <1>4 DEF CreditFits

(* The dates of leave that is live after a commit: as before, or just      *)
(* submitted, and then alone.                                              *)
LEMMA LiveAfter ==
  ASSUME Inv, NEW w, Planned(w), NEW r \in Request,
         request'[r] = IF r \in DOMAIN w.requests THEN w.requests[r] ELSE request[r],
         Live(r)'
  PROVE  \/ Live(r) /\ request'[r].first = request[r].first /\ request'[r].last = request[r].last
         \/ Submits(w, r) /\ request'[r] = w.requests[r]
<1>1. Fits(w, r)
  BY DEF Planned
<1> QED BY <1>1 DEF Fits, Submits, Approves, Closes, Rewritten, Live

(* A commit makes no two leaves overlap.                                   *)
LEMMA CommitOverlap ==
  ASSUME Inv, NEW w, Planned(w),
         \A r \in Request :
           request'[r] = IF r \in DOMAIN w.requests THEN w.requests[r] ELSE request[r]
  PROVE  NoOverlap'
<1> SUFFICES ASSUME NEW q \in Request, NEW r \in Request, q # r, Live(q)', Live(r)'
             PROVE  ~Overlap(request'[q].first, request'[q].last, request'[r].first, request'[r].last)
  BY DEF NoOverlap
<1> DEFINE Same(x) == Live(x) /\ request'[x].first = request[x].first /\ request'[x].last = request[x].last
           New(x) == Submits(w, x) /\ request'[x] = w.requests[x]
<1>1. (Same(q) \/ New(q)) /\ (Same(r) \/ New(r))
  BY LiveAfter
<1>2. CASE Same(q) /\ Same(r)
  BY <1>2 DEF Inv, NoOverlap
<1>3. CASE New(q) /\ Same(r)
  BY <1>3 DEF Submits
<1>4. CASE Same(q) /\ New(r)
  <2>1. ~Overlap(request'[r].first, request'[r].last, request[q].first, request[q].last)
    BY <1>4 DEF Submits
  <2> QED BY <1>4, <2>1 DEF Overlap
<1>5. CASE New(q) /\ New(r)
  BY <1>5 DEF Submits
<1> QED BY <1>1, <1>2, <1>3, <1>4, <1>5

(* A commit that removes the member leaves no leave ahead, and none is     *)
(* brought back afterwards.                                                *)
LEMMA CommitRemoval ==
  ASSUME Inv, NEW w, Planned(w), member' = (IF w.removes THEN "removed" ELSE member), today' = today,
         \A r \in Request :
           request'[r] = IF r \in DOMAIN w.requests THEN w.requests[r] ELSE request[r]
  PROVE  RemovedHasNoLeave'
<1> SUFFICES ASSUME member' = "removed", NEW r \in Request
             PROVE  /\ request'[r].status # "pending"
                    /\ request'[r].status = "approved" => request'[r].first < today
  BY DEF RemovedHasNoLeave
<1>1. w.removes \in BOOLEAN /\ RemovalFits(w) /\ Fits(w, r)
  BY DEF Planned
<1>2. CASE w.removes
  BY <1>1, <1>2 DEF RemovalFits
<1>3. CASE ~w.removes
  <2>1. /\ member = "removed"
        /\ request[r].status # "pending"
        /\ request[r].status = "approved" => request[r].first < today
    BY <1>3 DEF Inv, RemovedHasNoLeave
  <2> QED BY <1>1, <2>1 DEF Fits, Submits, Approves, Closes, Rewritten
<1> QED BY <1>1, <1>2, <1>3

(* A commit keeps the tables' types.                                       *)
LEMMA CommitTypes ==
  ASSUME Inv, NEW w, Planned(w), today' = today,
         request' = [r \in Request |-> IF r \in DOMAIN w.requests THEN w.requests[r] ELSE request[r]],
         ledger' = ledger (+) SetToBag(w.rows),
         member' = (IF w.removes THEN "removed" ELSE member),
         snapshots' = snapshots \o w.terms
  PROVE  TypeOK'
<1>1. TypeOK /\ w.removes \in BOOLEAN
  BY DEF Inv, Planned
<1>2. IsABag(ledger)'
  BY <1>1, AddRows DEF TypeOK
<1>3. (snapshots \in Seq([from : Day, terms : Terms]))'
  BY <1>1 DEF Planned, TermsFit, Snapshots, TypeOK
<1>4. ASSUME NEW r \in Request PROVE Dated(request'[r])
  <2>1. CASE r \in DOMAIN w.requests
    BY <2>1 DEF Planned
  <2>2. CASE r \notin DOMAIN w.requests
    BY <1>1, <2>2, RequestType DEF Dated
  <2> QED BY <2>1, <2>2
<1>5. (request \in [Request -> Requests] /\ \A r \in Request : OneYear(r))'
  <2>1. request' \in [Request -> Requests]
    BY <1>4 DEF Dated
  <2> QED BY <1>4, <2>1 DEF Dated, OneYear, Requests
<1>6. (today \in Day /\ member \in {"active", "removed"})'
  BY <1>1 DEF TypeOK
<1> QED BY <1>2, <1>3, <1>5, <1>6 DEF TypeOK

(* Closing the one open transaction leaves none.                           *)
LEMMA Closing ==
  ASSUME Inv, NEW t \in Tx, tx[t].open, tx' = [tx EXCEPT ![t] = Closed]
  PROVE  /\ OneOpen'
         /\ DOMAIN tx' = Tx
         /\ \A s \in Tx : tx'[s].open = FALSE
<1>1. DOMAIN tx' = Tx /\ tx'[t].open = FALSE /\ \A s \in Tx : s # t => tx'[s] = tx[s]
  BY DEF Inv, Closed
<1>2. \A s \in Tx : tx'[s].open = FALSE
  BY <1>1 DEF Inv, OneOpen
<1> QED BY <1>1, <1>2 DEF OneOpen

(* The writes of a transaction, and its end.                               *)
LEMMA CommitPreserves ==
  ASSUME Inv, NEW t \in Tx, Commit(t)
  PROVE  Inv'
<1>1. PICK w : w = tx[t]
  OBVIOUS
<1>2. Planned(w) /\ tx[t].open
  BY <1>1 DEF Commit, Inv
<1>3. /\ request' = [r \in Request |-> IF r \in DOMAIN w.requests THEN w.requests[r] ELSE request[r]]
      /\ ledger' = ledger (+) SetToBag(w.rows)
      /\ member' = IF w.removes THEN "removed" ELSE member
      /\ snapshots' = snapshots \o w.terms
      /\ tx' = [tx EXCEPT ![t] = Closed]
      /\ today' = today
  BY <1>1 DEF Commit
<1>4. \A r \in Request : request'[r] = IF r \in DOMAIN w.requests THEN w.requests[r] ELSE request[r]
  BY <1>3
<1>5. TypeOK'
  BY <1>2, <1>3, CommitTypes
<1>6. NoOverlap' /\ RemovedHasNoLeave'
  BY <1>2, <1>3, <1>4, CommitOverlap, CommitRemoval
<1>7. LedgerBalanced'
  <2>1. \A r \in Request : Story(r)'
    BY <1>2, <1>3, <1>4, CommitStory
  <2>2. \A m \in Month : \A row \in RowsFor("credit", m)' : One("credit", m, row.amount)'
    BY <1>2, <1>3, CommitCredits
  <2> QED BY <2>1, <2>2 DEF LedgerBalanced, Story, Month
<1>8. OneOpen' /\ DOMAIN tx' = Tx /\ \A s \in Tx : tx'[s].open = FALSE
  BY <1>2, <1>3, Closing
<1> QED BY <1>5, <1>6, <1>7, <1>8 DEF Inv

(* Nothing is left of a transaction that is rolled back.                   *)
LEMMA RollbackPreserves ==
  ASSUME Inv, NEW t \in Tx, Rollback(t)
  PROVE  Inv'
<1>1. UNCHANGED <<today, member, snapshots, request, ledger>>
  BY DEF Rollback
<1>2. TypeOK' /\ LedgerBalanced' /\ NoOverlap' /\ RemovedHasNoLeave'
  BY <1>1, SameTables DEF Inv, TypeOK, RemovedHasNoLeave
<1>3. OneOpen' /\ DOMAIN tx' = Tx /\ \A s \in Tx : tx'[s].open = FALSE
  BY Closing DEF Rollback
<1> QED BY <1>2, <1>3 DEF Inv

(* A member restored is one who may submit again.                          *)
LEMMA RestorePreserves ==
  ASSUME Inv, Restore
  PROVE  Inv'
<1>1. UNCHANGED <<today, snapshots, request, ledger, tx>> /\ member' = "active"
  BY DEF Restore
<1>2. TypeOK' /\ LedgerBalanced' /\ NoOverlap' /\ RemovedHasNoLeave'
  BY <1>1, SameTables DEF Inv, TypeOK, RemovedHasNoLeave
<1>3. OneOpen' /\ DOMAIN tx' = Tx /\ \A s \in Tx : tx'[s].open \in BOOLEAN
  BY <1>1 DEF Inv, OneOpen
<1>4. (\A s \in Tx : tx[s].open => Planned(tx[s]))'
  BY <1>1, PlannedKept DEF Inv
<1> QED BY <1>2, <1>3, <1>4 DEF Inv

(* A day passes.                                                           *)
LEMMA TomorrowPreserves ==
  ASSUME Inv, Tomorrow
  PROVE  Inv'
<1>1. UNCHANGED <<member, snapshots, request, ledger, tx>> /\ today' = today + 1 /\ today < LastDay
  BY DEF Tomorrow
<1>2. today' \in Day
  BY <1>1, CalendarAssumption DEF Inv, TypeOK, Day
<1>3. TypeOK' /\ LedgerBalanced' /\ NoOverlap'
  BY <1>1, <1>2, SameTables DEF Inv, TypeOK
<1>4. RemovedHasNoLeave'
  <2>1. \A r \in Request : request[r].first \in Int /\ today \in Int
    BY RequestType DEF Inv, TypeOK, Day
  <2> QED BY <1>1, <2>1 DEF Inv, RemovedHasNoLeave
<1>5. OneOpen' /\ DOMAIN tx' = Tx /\ \A s \in Tx : tx'[s].open \in BOOLEAN /\ ~tx'[s].open
  BY <1>1 DEF Inv, OneOpen, Tomorrow
<1> QED BY <1>3, <1>4, <1>5 DEF Inv

-----------------------------------------------------------------------------
(* Nothing is stored at first.                                             *)
LEMMA InitInv == Init => Inv
<1> SUFFICES ASSUME Init PROVE Inv
  OBVIOUS
<1>1. today \in Day
  BY CalendarAssumption DEF Init, Day
<1>2. NotSubmitted \in Requests
  BY <1>1, AskedType DEF Init, NotSubmitted
<1>3. BagToSet(ledger) = {} /\ IsABag(ledger)
  BY DEF Init, EmptyBag, SetToBag, BagToSet, IsABag
<1>4. \A r \in Request : request[r] = NotSubmitted /\ request[r].status = "none"
                         /\ request[r].first = 0 /\ request[r].last = 0
  BY DEF Init, NotSubmitted, Asked
<1>5. TypeOK
  BY <1>1, <1>2, <1>3, <1>4 DEF Init, TypeOK, OneYear
<1>6. LedgerBalanced
  BY <1>3, <1>4 DEF LedgerBalanced, RowsFor, Untouched
<1>7. NoOverlap /\ RemovedHasNoLeave
  BY <1>4 DEF Init, NoOverlap, Live, RemovedHasNoLeave
<1>8. OneOpen /\ DOMAIN tx = Tx /\ \A t \in Tx : tx[t].open = FALSE
  BY DEF Init, OneOpen, Closed
<1> QED BY <1>5, <1>6, <1>7, <1>8 DEF Inv

(* Members send days of the calendar.                                      *)
LEMMA PairType ==
  ASSUME NEW p \in DatePairs
  PROVE  p[1] \in Day /\ p[2] \in Day
BY CalendarAssumption

(* What is written is written by an open transaction.                      *)
LEMMA WritesOpen ==
  ASSUME NEW requests, NEW rows, NEW removes, NEW terms
  PROVE  Writes(requests, rows, removes, terms).open = TRUE
BY DEF Writes

(* The operations on one request.                                          *)
LEMMA OperationsPreserve ==
  ASSUME Inv, NEW t \in Tx, NEW r \in Request
  PROVE  /\ \A p \in DatePairs : Submit(t, r, p[1], p[2]) => Inv'
         /\ Review(t, r) => Inv'
         /\ Cancel(t, r) => Inv'
<1>1. ASSUME NEW p \in DatePairs, Submit(t, r, p[1], p[2]) PROVE Inv'
  <2>1. PICK w : w = Writes(Only(r, Asked("pending", p[1], p[2],
                                  Deduction(Working(p[1] .. p[2]), Financials.monthlySalary),
                                  YearOf[today], NoYear)),
                    {}, FALSE, <<>>)
    OBVIOUS
  <2>2. Planned(w) /\ w.open = TRUE
    BY <1>1, <2>1, PairType, SubmitPlanned, WritesOpen DEF Submit
  <2>3. Decide(t, w)
    BY <1>1, <2>1 DEF Submit
  <2> QED BY <2>2, <2>3, DecidePreserves
<1>2. ASSUME Approve(t, r) PROVE Inv'
  <2>1. PICK w : w = Writes(Only(r, Becomes(r, "approved", YearOf[today])), {Debit(r)}, FALSE, <<>>)
    OBVIOUS
  <2>2. Planned(w) /\ w.open = TRUE
    BY <1>2, <2>1, ApprovePlanned, WritesOpen DEF Approve
  <2>3. Decide(t, w)
    BY <1>2, <2>1 DEF Approve
  <2> QED BY <2>2, <2>3, DecidePreserves
<1>3. ASSUME Reject(t, r) PROVE Inv'
  <2>1. PICK w : w = Writes(Only(r, Becomes(r, "rejected", YearOf[today])), {}, FALSE, <<>>)
    OBVIOUS
  <2>2. Planned(w) /\ w.open = TRUE
    BY <1>3, <2>1, RejectPlanned, WritesOpen DEF Reject
  <2>3. Decide(t, w)
    BY <1>3, <2>1 DEF Reject
  <2> QED BY <2>2, <2>3, DecidePreserves
<1>4. ASSUME Cancel(t, r) PROVE Inv'
  <2>1. PICK w : w = Writes(Only(r, Cancelled(r)),
                            {Refund(q) : q \in {q \in {r} : request[q].status = "approved"}},
                            FALSE, <<>>)
    OBVIOUS
  <2>2. Planned(w) /\ w.open = TRUE
    BY <1>4, <2>1, CancelPlanned, WritesOpen DEF Cancel
  <2>3. Decide(t, w)
    BY <1>4, <2>1 DEF Cancel
  <2> QED BY <2>2, <2>3, DecidePreserves
<1> QED BY <1>1, <1>2, <1>3, <1>4 DEF Review

(* Removal, settings and accrual.                                          *)
LEMMA OthersPreserve ==
  ASSUME Inv, NEW t \in Tx
  PROVE  /\ Remove(t) => Inv'
         /\ \A terms \in Terms : UpdateFinancials(t, terms) => Inv'
         /\ \A m \in Month : RunAccrual(t, m) => Inv'
<1>1. ASSUME Remove(t) PROVE Inv'
  <2>1. PICK w : w = Writes([r \in {q \in Request : Ahead(q)} |-> Cancelled(r)],
                            {Refund(r) : r \in {q \in Request : Ahead(q) /\ request[q].status = "approved"}},
                            TRUE, <<>>)
    OBVIOUS
  <2>2. Planned(w) /\ w.open = TRUE
    BY <2>1, RemovePlanned, WritesOpen
  <2>3. Decide(t, w)
    BY <1>1, <2>1 DEF Remove
  <2> QED BY <2>2, <2>3, DecidePreserves
<1>2. ASSUME NEW terms \in Terms, UpdateFinancials(t, terms) PROVE Inv'
  <2>1. PICK w : w = Writes(<<>>, {}, FALSE, <<[from |-> today, terms |-> terms]>>)
    OBVIOUS
  <2>2. Planned(w) /\ w.open = TRUE
    BY <2>1, UpdatePlanned, WritesOpen
  <2>3. Decide(t, w)
    BY <1>2, <2>1 DEF UpdateFinancials
  <2> QED BY <2>2, <2>3, DecidePreserves
<1>3. ASSUME NEW m \in Month, RunAccrual(t, m) PROVE Inv'
  <2>1. PICK amount : amount = MonthlyCredit(m)
    OBVIOUS
  <2>2. PICK w : w = Writes(<<>>, {Row("credit", m, amount)}, FALSE, <<>>)
    OBVIOUS
  <2>3. Planned(w) /\ w.open = TRUE
    BY <1>3, <2>2, AccrualPlanned, WritesOpen DEF RunAccrual
  <2>4. Decide(t, w)
    BY <1>3, <2>1, <2>2 DEF RunAccrual
  <2> QED BY <2>3, <2>4, DecidePreserves
<1> QED BY <1>1, <1>2, <1>3

(* Every step preserves the invariant.                                     *)
LEMMA NextInv == Inv /\ [Next]_vars => Inv'
<1> SUFFICES ASSUME Inv, [Next]_vars PROVE Inv'
  OBVIOUS
<1>1. ASSUME NEW t \in Tx, NEW r \in Request,
             (\E p \in DatePairs : Submit(t, r, p[1], p[2])) \/ Review(t, r) \/ Cancel(t, r)
      PROVE  Inv'
  BY <1>1, OperationsPreserve
<1>2. ASSUME NEW t \in Tx,
             \/ Remove(t)
             \/ \E terms \in Terms : UpdateFinancials(t, terms)
             \/ \E m \in Month : RunAccrual(t, m)
      PROVE  Inv'
  BY <1>2, OthersPreserve
<1>3. ASSUME NEW t \in Tx, Commit(t) PROVE Inv'
  BY <1>3, CommitPreserves
<1>4. ASSUME NEW t \in Tx, Rollback(t) PROVE Inv'
  BY <1>4, RollbackPreserves
<1>5. CASE Restore
  BY <1>5, RestorePreserves
<1>6. CASE Tomorrow
  BY <1>6, TomorrowPreserves
<1>7. CASE UNCHANGED vars
  <2>1. UNCHANGED <<today, member, snapshots, request, ledger, tx>>
    BY <1>7 DEF vars
  <2>2. TypeOK' /\ LedgerBalanced' /\ NoOverlap' /\ RemovedHasNoLeave'
    BY <2>1, SameTables DEF Inv, TypeOK, RemovedHasNoLeave
  <2>3. OneOpen' /\ DOMAIN tx' = Tx /\ \A s \in Tx : tx'[s].open \in BOOLEAN
    BY <2>1 DEF Inv, OneOpen
  <2>4. (\A s \in Tx : tx[s].open => Planned(tx[s]))'
    BY <2>1, PlannedKept DEF Inv
  <2> QED BY <2>2, <2>3, <2>4 DEF Inv
<1> QED BY <1>1, <1>2, <1>3, <1>4, <1>5, <1>6, <1>7 DEF Next

-----------------------------------------------------------------------------
(* The invariant holds in every reachable state, for any number of         *)
(* requests, transactions, days and settings.                              *)
THEOREM Invariant == Spec => []Inv
BY InitInv, NextInv, PTL DEF Spec

(* The tables keep their types, and a request its dates within a year.     *)
THEOREM TypeCorrect == Spec => []TypeOK
<1>1. Inv => TypeOK
  BY DEF Inv
<1> QED BY <1>1, Invariant, PTL

(* Every approval is debited once, every cancelled approval refunded once  *)
(* and for as much, no month credited twice.                               *)
THEOREM Balanced == Spec => []LedgerBalanced
<1>1. Inv => LedgerBalanced
  BY DEF Inv
<1> QED BY <1>1, Invariant, PTL

(* No member is on two leaves on one day.                                  *)
THEOREM LeaveDisjoint == Spec => []NoOverlap
<1>1. Inv => NoOverlap
  BY DEF Inv
<1> QED BY <1>1, Invariant, PTL

(* A removal that races any review or cancellation leaves nothing ahead.   *)
THEOREM RemovedLeaveNothing == Spec => []RemovedHasNoLeave
<1>1. Inv => RemovedHasNoLeave
  BY DEF Inv
<1> QED BY <1>1, Invariant, PTL

-----------------------------------------------------------------------------
(* A statement about natural numbers, by induction.                        *)
LEMMA Induction ==
  ASSUME NEW T, 0 \in T, \A n \in Nat : n \in T => n + 1 \in T
  PROVE  Nat \subseteq T
<1> DEFINE Less == OpToRel(<, Nat)
           B == Nat \ T
<1> SUFFICES ASSUME B # {} PROVE FALSE
  OBVIOUS
<1>1. PICK n \in B : \A m \in B : ~(<<m, n>> \in Less)
  <2>1. IsWellFoundedOn(Less, Nat) /\ B \subseteq Nat
    BY NatLessThanWellFounded
  <2> HIDE DEF Less, B
  <2> QED BY <2>1, WFMin
<1>2. \A m \in B : ~(m < n)
  BY <1>1 DEF OpToRel
<1>3. n # 0 /\ n - 1 \in Nat /\ n - 1 \in T /\ (n - 1) + 1 = n
  BY <1>2
<1> QED BY <1>3

(* What holds of the empty set, and of any other when it holds of that set *)
(* without any one of its elements, holds of every finite set.             *)
LEMMA FiniteInduction ==
  ASSUME NEW S, IsFiniteSet(S), NEW T, {} \in T,
         \A U \in SUBSET S : U # {} /\ (\A x \in U : U \ {x} \in T) => U \in T
  PROVE  SUBSET S \subseteq T
<1> DEFINE N == {n \in Nat : \A U \in SUBSET S : Cardinality(U) = n => U \in T}
<1>1. \A U \in SUBSET S : IsFiniteSet(U) /\ Cardinality(U) \in Nat
  BY FS_Subset, FS_CardinalityType
<1>2. 0 \in N
  BY <1>1, FS_EmptySet
<1>3. ASSUME NEW n \in Nat, n \in N PROVE n + 1 \in N
  <2> SUFFICES ASSUME NEW U \in SUBSET S, Cardinality(U) = n + 1 PROVE U \in T
    OBVIOUS
  <2>1. U # {}
    BY <1>1, FS_EmptySet
  <2>2. ASSUME NEW x \in U PROVE U \ {x} \in T
    <3>1. Cardinality(U \ {x}) = n
      BY <1>1, FS_RemoveElement
    <3> QED BY <1>3, <3>1
  <2> QED BY <2>1, <2>2
<1>4. Nat \subseteq N
  <2> HIDE DEF N
  <2> QED BY <1>2, <1>3, Induction
<1> QED BY <1>1, <1>4

(* A finite set of integers has a greatest element.                        *)
LEMMA Greatest ==
  ASSUME NEW S, IsFiniteSet(S), S # {}, S \subseteq Int
  PROVE  Max(S) \in S /\ \A x \in S : x <= Max(S)
<1> DEFINE T == {U \in SUBSET S : U # {} => \E x \in U : \A y \in U : x >= y}
<1>1. ASSUME NEW U \in SUBSET S, U # {}, \A x \in U : U \ {x} \in T PROVE U \in T
  <2>0. PICK x \in U : U \ {x} \in T
    BY <1>1
  <2>1. CASE U \ {x} = {}
    <3>1. \A y \in U : x >= y
      BY <2>1
    <3> QED BY <3>1
  <2>2. CASE U \ {x} # {}
    <3>1. PICK z \in U \ {x} : \A y \in U \ {x} : z >= y
      BY <2>0, <2>2
    <3>2. \/ \A y \in U : z >= y
          \/ \A y \in U : x >= y
      BY <3>1
    <3> QED BY <3>1, <3>2
  <2> QED BY <2>1, <2>2
<1>2. {} \in T
  OBVIOUS
<1>3. SUBSET S \subseteq T
  <2> HIDE DEF T
  <2> QED BY <1>1, <1>2, FiniteInduction
<1>4. \E x \in S : \A y \in S : x >= y
  BY <1>3
<1>5. Max(S) \in S /\ \A y \in S : Max(S) >= y
  BY <1>4, Zenon DEF Max
<1> QED BY <1>5

(* Settings saved today do not reach back to a month that is over.         *)
LEMMA EffectiveKept ==
  ASSUME Inv, NEW m \in Month, m < MonthOf[today], NEW new \in Snapshots,
         \A i \in DOMAIN new : new[i].from = today, snapshots' = snapshots \o new
  PROVE  /\ Effective(m)' = Effective(m)
         /\ Effective(m) \subseteq DOMAIN snapshots
         /\ \A i \in DOMAIN snapshots : i \in DOMAIN snapshots' /\ snapshots'[i] = snapshots[i]
<1>1. snapshots \in Snapshots /\ today \in Day
  BY DEF Inv, TypeOK, Snapshots
<1>2. /\ \A i \in DOMAIN snapshots : i \in DOMAIN snapshots' /\ snapshots'[i] = snapshots[i]
      /\ \A i \in DOMAIN snapshots' \ DOMAIN snapshots : snapshots'[i].from = today
  BY <1>1 DEF Snapshots
<1>3. \A d \in DaysOf(m) : ~(today <= d)
  BY <1>1, CalendarAssumption DEF DaysOf, Day, Month
<1>4. Effective(m)' = Effective(m)
  BY <1>2, <1>3 DEF Effective
<1> QED BY <1>2, <1>4 DEF Effective

(* A month that is over keeps its credit.                                  *)
LEMMA MonthKept ==
  ASSUME Inv, [Next]_vars, NEW m \in Month, m < MonthOf[today]
  PROVE  CreditOf(m)' = CreditOf(m)
<1>1. \/ snapshots' = snapshots
      \/ \E t \in Tx : Commit(t)
  BY DEF Next, vars, Submit, Review, Approve, Reject, Cancel, Remove, UpdateFinancials, RunAccrual,
         Decide, Rollback, Restore, Tomorrow
<1>2. CASE snapshots' = snapshots
  BY <1>2 DEF CreditOf, MonthlyCredit, Effective
<1>3. ASSUME NEW t \in Tx, Commit(t) PROVE CreditOf(m)' = CreditOf(m)
  <2>1. PICK new : new = tx[t].terms
    OBVIOUS
  <2>2. new \in Snapshots /\ (\A i \in DOMAIN new : new[i].from = today) /\ snapshots' = snapshots \o new
    BY <1>3, <2>1 DEF Inv, Planned, TermsFit, Commit
  <2>3. /\ Effective(m)' = Effective(m)
        /\ Effective(m) \subseteq DOMAIN snapshots
        /\ \A i \in DOMAIN snapshots : i \in DOMAIN snapshots' /\ snapshots'[i] = snapshots[i]
    BY <2>2, EffectiveKept
  <2>4. CASE Effective(m) = {}
    BY <2>3, <2>4 DEF CreditOf
  <2>5. CASE Effective(m) # {}
    <3>1. PICK k : k = Max(Effective(m))
      OBVIOUS
    <3>2. snapshots \in Snapshots
      BY DEF Inv, TypeOK, Snapshots
    <3>3. IsFiniteSet(Effective(m)) /\ Effective(m) \subseteq Int
      <4>1. IsFiniteSet(1 .. Len(snapshots)) /\ DOMAIN snapshots = 1 .. Len(snapshots)
        BY <3>2, FS_Interval DEF Snapshots
      <4> QED BY <2>3, <4>1, FS_Subset
    <3>4. k \in Effective(m)
      BY <2>5, <3>1, <3>3, Greatest
    <3>5. 1 \in DOMAIN snapshots
      BY <2>3, <3>2, <3>4 DEF Snapshots
    <3>6. snapshots'[k] = snapshots[k] /\ snapshots'[1] = snapshots[1] /\ k = Max(Effective(m)')
      BY <2>3, <3>1, <3>4, <3>5
    <3>7. MonthlyCredit(m)' = MonthlyCredit(m)
      BY <3>1, <3>6 DEF MonthlyCredit
    <3> QED BY <2>3, <3>7 DEF CreditOf
  <2> QED BY <2>4, <2>5
<1> QED BY <1>1, <1>2, <1>3

(* What a month is worth does not change once the month is over.           *)
THEOREM SettledMonths == Spec => MonthSettled
<1>1. Inv /\ [Next]_vars => [\A m \in Month : (m < MonthOf[today]) => (CreditOf(m)' = CreditOf(m))]_vars
  BY MonthKept
<1> QED BY <1>1, Invariant, PTL DEF Spec, MonthSettled

-----------------------------------------------------------------------------
(* Sums.  The library's fold takes the elements of a set one by one, each  *)
(* time a chosen one; that the sum does not depend on the choice is what   *)
(* the lemmas below show.                                                  *)
Pick(S) == CHOOSE x \in S : TRUE

(* g is the sum of f over each subset of S.                                *)
Adds(f, S, g) == g = [U \in SUBSET S |-> IF U = {} THEN 0 ELSE f[Pick(U)] + g[U \ {Pick(U)}]]

Sums(f, S) == CHOOSE g : Adds(f, S, g)

Total(f, S) == Sums(f, S)[S]

(* The recursion has a solution.                                           *)
LEMMA SumsAdd ==
  ASSUME NEW f, NEW S, IsFiniteSet(S)
  PROVE  Adds(f, S, Sums(f, S))
<1> DEFINE Small(n) == {U \in SUBSET S : Cardinality(U) <= n}
           On(n, g) == g = [U \in Small(n) |-> IF U = {} THEN 0 ELSE f[Pick(U)] + g[U \ {Pick(U)}]]
           T == {n \in Nat : \E g : On(n, g)}
<1>1. \A U \in SUBSET S : IsFiniteSet(U) /\ Cardinality(U) \in Nat
  BY FS_Subset, FS_CardinalityType
<1>2. \A U \in SUBSET S : U # {} => U \ {Pick(U)} \in SUBSET S
                                    /\ Cardinality(U \ {Pick(U)}) = Cardinality(U) - 1
  <2> SUFFICES ASSUME NEW U \in SUBSET S, U # {}
               PROVE  U \ {Pick(U)} \in SUBSET S /\ Cardinality(U \ {Pick(U)}) = Cardinality(U) - 1
    OBVIOUS
  <2>1. Pick(U) \in U
    BY DEF Pick
  <2> QED BY <1>1, <2>1, FS_RemoveElement
<1>3. \A U \in SUBSET S : Cardinality(U) = 0 <=> U = {}
  BY <1>1, FS_EmptySet
<1>4. 0 \in T
  <2>1. \A U \in Small(0) : U = {}
    BY <1>1, <1>3
  <2>2. On(0, [U \in Small(0) |-> 0])
    BY <2>1
  <2>3. \E g : On(0, g)
    <3> HIDE DEF On
    <3> QED BY <2>2
  <2> HIDE DEF On
  <2> QED BY <2>3
<1>5. ASSUME NEW n \in Nat, n \in T PROVE n + 1 \in T
  <2>1. PICK g : On(n, g)
    BY <1>5
  <2> DEFINE h == [U \in Small(n + 1) |-> IF U = {} THEN 0 ELSE f[Pick(U)] + g[U \ {Pick(U)}]]
  <2>2. ASSUME NEW U \in Small(n + 1), U # {} PROVE h[U \ {Pick(U)}] = g[U \ {Pick(U)}]
    <3>1. PICK V : V = U \ {Pick(U)}
      OBVIOUS
    <3>2. V \in Small(n) /\ V \in Small(n + 1)
      BY <1>1, <1>2, <2>2, <3>1
    <3>3. h[V] = g[V]
      BY <2>1, <3>2
    <3> QED BY <3>1, <3>3
  <2>3. On(n + 1, h)
    <3> HIDE DEF Small
    <3> QED BY <2>2
  <2>4. \E k : On(n + 1, k)
    <3> HIDE DEF On, h
    <3> QED BY <2>3
  <2> HIDE DEF On
  <2> QED BY <2>4
<1>6. Cardinality(S) \in T
  <2> HIDE DEF T
  <2>1. Nat \subseteq T
    BY <1>4, <1>5, Induction
  <2> QED BY <1>1, <2>1
<1>7. PICK g : On(Cardinality(S), g)
  BY <1>6
<1>8. Small(Cardinality(S)) = SUBSET S
  <2>1. \A U \in SUBSET S : Cardinality(U) <= Cardinality(S)
    BY FS_Subset
  <2> QED BY <2>1
<1>9. Adds(f, S, g)
  <2> HIDE DEF Small
  <2> QED BY <1>7, <1>8, Zenon DEF Adds
<1> QED BY <1>9, Zenon DEF Sums

(* It has one only: wherever two are defined, they agree.                  *)
LEMMA OneSum ==
  ASSUME NEW f, NEW S, NEW R, NEW g, NEW h, Adds(f, S, g), Adds(f, R, h),
         NEW U, U \subseteq S, U \subseteq R, IsFiniteSet(U)
  PROVE  g[U] = h[U]
<1> DEFINE T == {V \in SUBSET U : g[V] = h[V]}
<1>1. {} \in T
  BY DEF Adds
<1>2. ASSUME NEW V \in SUBSET U, V # {}, \A x \in V : V \ {x} \in T PROVE V \in T
  <2>1. PICK x \in V : x = Pick(V)
    BY <1>2 DEF Pick
  <2>2. g[V] = f[x] + g[V \ {x}] /\ h[V] = f[x] + h[V \ {x}]
    BY <1>2, <2>1 DEF Adds
  <2> QED BY <1>2, <2>1, <2>2
<1>3. SUBSET U \subseteq T
  <2> HIDE DEF T
  <2> QED BY <1>1, <1>2, FiniteInduction
<1> QED BY <1>3

(* The sum over no element, and the sum by its chosen element.             *)
LEMMA TotalPick ==
  ASSUME NEW f, NEW S, IsFiniteSet(S)
  PROVE  /\ Total(f, {}) = 0
         /\ S # {} => Total(f, S) = f[Pick(S)] + Total(f, S \ {Pick(S)})
<1>1. Total(f, {}) = 0
  <2>1. PICK g : g = Sums(f, {})
    OBVIOUS
  <2>2. Adds(f, {}, g)
    BY <2>1, FS_EmptySet, SumsAdd
  <2>3. g[{}] = 0
    BY <2>2 DEF Adds
  <2> QED BY <2>1, <2>3 DEF Total
<1>2. ASSUME S # {} PROVE Total(f, S) = f[Pick(S)] + Total(f, S \ {Pick(S)})
  <2>1. PICK x \in S : x = Pick(S)
    BY <1>2 DEF Pick
  <2>2. PICK R : R = S \ {x}
    OBVIOUS
  <2>3. IsFiniteSet(R) /\ R \subseteq S
    BY <2>2, FS_Subset
  <2>4. PICK g, h : g = Sums(f, S) /\ h = Sums(f, R)
    OBVIOUS
  <2>5. Adds(f, S, g) /\ Adds(f, R, h)
    BY <2>3, <2>4, SumsAdd
  <2>6. g[R] = h[R]
    BY <2>3, <2>5, OneSum
  <2>7. g[S] = f[x] + g[R]
    BY <1>2, <2>1, <2>2, <2>5 DEF Adds
  <2> QED BY <2>1, <2>2, <2>4, <2>6, <2>7 DEF Total
<1> QED BY <1>1, <1>2

-----------------------------------------------------------------------------
(* The elements of a set have integer worth.                               *)
Counted(f, S) == IsFiniteSet(S) /\ \A x \in S : f[x] \in Int

(* So have those of a part of the set.                                     *)
LEMMA CountedParts ==
  ASSUME NEW f, NEW S, Counted(f, S), NEW U, U \subseteq S
  PROVE  Counted(f, U)
BY FS_Subset DEF Counted

(* The sum of integers is one.                                             *)
LEMMA TotalInt ==
  ASSUME NEW f, NEW S, Counted(f, S)
  PROVE  Total(f, S) \in Int
<1> DEFINE T == {U \in SUBSET S : Total(f, U) \in Int}
<1>1. {} \in T
  <2>1. Total(f, {}) = 0
    BY TotalPick DEF Counted
  <2> QED BY <2>1
<1>2. ASSUME NEW U \in SUBSET S, U # {}, \A x \in U : U \ {x} \in T PROVE U \in T
  <2>1. PICK p \in U : p = Pick(U)
    BY <1>2 DEF Pick
  <2>2. Counted(f, U)
    BY CountedParts
  <2>3. Total(f, U) = f[p] + Total(f, U \ {p})
    BY <1>2, <2>1, <2>2, TotalPick DEF Counted
  <2>4. Total(f, U \ {p}) \in Int /\ f[p] \in Int
    BY <1>2, <2>2 DEF Counted
  <2> QED BY <2>3, <2>4
<1>3. SUBSET S \subseteq T
  <2> HIDE DEF T
  <2> QED BY <1>1, <1>2, FiniteInduction DEF Counted
<1> QED BY <1>3

(* The sum by any of its elements.                                         *)
LEMMA TotalRemove ==
  ASSUME NEW f, NEW S, Counted(f, S), NEW x \in S
  PROVE  Total(f, S) = f[x] + Total(f, S \ {x})
<1> DEFINE T == {U \in SUBSET S : \A z \in U : Total(f, U) = f[z] + Total(f, U \ {z})}
<1>1. {} \in T
  OBVIOUS
<1>2. ASSUME NEW U \in SUBSET S, U # {}, \A z \in U : U \ {z} \in T PROVE U \in T
  <2>1. PICK p \in U : p = Pick(U)
    BY <1>2 DEF Pick
  <2>2. Counted(f, U)
    BY CountedParts
  <2>3. Total(f, U) = f[p] + Total(f, U \ {p})
    BY <1>2, <2>1, <2>2, TotalPick DEF Counted
  <2>5. ASSUME NEW z \in U \ {p} PROVE Total(f, U) = f[z] + Total(f, U \ {z})
    <3>1. PICK V : V = (U \ {p}) \ {z}
      OBVIOUS
    <3>2. V = (U \ {z}) \ {p} /\ z \in U \ {p} /\ p \in U \ {z} /\ V \subseteq U
      BY <2>5, <3>1
    <3>3. Total(f, U \ {p}) = f[z] + Total(f, V)
      BY <1>2, <3>1, <3>2
    <3>4. Total(f, U \ {z}) = f[p] + Total(f, V)
      BY <1>2, <3>1, <3>2
    <3>5. f[z] \in Int /\ f[p] \in Int
      BY <2>2 DEF Counted
    <3>6. Total(f, V) \in Int
      BY <2>2, <3>2, CountedParts, TotalInt
    <3> QED BY <2>3, <3>3, <3>4, <3>5, <3>6
  <2> QED BY <2>3, <2>5
<1>3. SUBSET S \subseteq T
  <2> HIDE DEF T
  <2> QED BY <1>1, <1>2, FiniteInduction DEF Counted
<1> QED BY <1>3

(* No element worth more in f than in g: no sum more.                      *)
LEMMA TotalUp ==
  ASSUME NEW f, NEW g, NEW S, Counted(f, S), Counted(g, S), \A x \in S : f[x] <= g[x]
  PROVE  Total(f, S) <= Total(g, S)
<1> DEFINE T == {U \in SUBSET S : Total(f, U) <= Total(g, U)}
<1>1. {} \in T
  <2>1. Total(f, {}) = 0 /\ Total(g, {}) = 0
    BY TotalPick DEF Counted
  <2> QED BY <2>1
<1>2. ASSUME NEW U \in SUBSET S, U # {}, \A x \in U : U \ {x} \in T PROVE U \in T
  <2>1. PICK p \in U : TRUE
    BY <1>2
  <2>2. Counted(f, U) /\ Counted(g, U)
    BY CountedParts
  <2>3. Total(f, U) = f[p] + Total(f, U \ {p}) /\ Total(g, U) = g[p] + Total(g, U \ {p})
    BY <2>2, TotalRemove
  <2>4. Total(f, U \ {p}) \in Int /\ Total(g, U \ {p}) \in Int
    BY <2>2, CountedParts, TotalInt
  <2>5. f[p] \in Int /\ g[p] \in Int /\ f[p] <= g[p]
    BY <2>2 DEF Counted
  <2>6. Total(f, U \ {p}) <= Total(g, U \ {p})
    BY <1>2
  <2> QED BY <2>3, <2>4, <2>5, <2>6
<1>3. SUBSET S \subseteq T
  <2> HIDE DEF T
  <2> QED BY <1>1, <1>2, FiniteInduction DEF Counted
<1> QED BY <1>3

(* Worth as much in f as in g: the same sum.                               *)
LEMMA TotalSame ==
  ASSUME NEW f, NEW g, NEW S, Counted(f, S), \A x \in S : f[x] = g[x]
  PROVE  Total(f, S) = Total(g, S)
<1>1. Counted(g, S) /\ \A x \in S : f[x] <= g[x] /\ g[x] <= f[x]
  BY DEF Counted
<1>2. Total(f, S) <= Total(g, S) /\ Total(g, S) <= Total(f, S)
  BY <1>1, TotalUp
<1> QED BY <1>1, <1>2, TotalInt

(* Elements that are worth nothing less than 0 lower no sum.               *)
LEMMA TotalMore ==
  ASSUME NEW f, NEW S, NEW R, Counted(f, S), R \subseteq S, \A x \in S \ R : f[x] >= 0
  PROVE  Total(f, R) <= Total(f, S)
<1> DEFINE T == {U \in SUBSET S : R \subseteq U => Total(f, R) <= Total(f, U)}
<1>0. Total(f, R) \in Int
  BY CountedParts, TotalInt
<1>1. {} \in T
  <2>1. R \subseteq {} => R = {}
    OBVIOUS
  <2> QED BY <1>0, <2>1
<1>2. ASSUME NEW U \in SUBSET S, U # {}, \A x \in U : U \ {x} \in T PROVE U \in T
  <2> SUFFICES ASSUME R \subseteq U PROVE Total(f, R) <= Total(f, U)
    OBVIOUS
  <2>1. CASE R = U
    BY <1>0, <2>1
  <2>2. CASE R # U
    <3>1. PICK x \in U \ R : TRUE
      BY <2>2
    <3>2. Total(f, U) = f[x] + Total(f, U \ {x})
      BY CountedParts, TotalRemove
    <3>3. Total(f, R) <= Total(f, U \ {x})
      BY <1>2, <3>1
    <3>4. f[x] \in Int /\ f[x] >= 0
      BY <3>1 DEF Counted
    <3>5. Total(f, U \ {x}) \in Int
      BY CountedParts, TotalInt
    <3> QED BY <1>0, <3>2, <3>3, <3>4, <3>5
  <2> QED BY <2>1, <2>2
<1>3. SUBSET S \subseteq T
  <2> HIDE DEF T
  <2> QED BY <1>1, <1>2, FiniteInduction DEF Counted
<1> QED BY <1>3

-----------------------------------------------------------------------------
(* The sums of the model.                                                  *)

(* A recursion that says the same as that of a sum has the same solution.  *)
LEMMA SumOfSet ==
  ASSUME NEW f, NEW S, IsFiniteSet(S), NEW g, Adds(f, S, g)
  PROVE  g[S] = Total(f, S)
<1>1. PICK h : h = Sums(f, S)
  OBVIOUS
<1>2. Adds(f, S, h)
  BY <1>1, SumsAdd
<1>3. g[S] = h[S]
  BY <1>2, OneSum
<1> QED BY <1>1, <1>3 DEF Total

(* A chosen element of a set that has one is one of its elements.          *)
LEMMA PickType ==
  ASSUME NEW S, S # {}
  PROVE  Pick(S) \in S
BY DEF Pick

(* What a row adds to a reserve.                                           *)
Worth(rows) == [row \in BagToSet(rows) |-> row.amount * rows[row]]

(* The recursions of the library's folds.                                  *)
ReserveAdds(rows, S, g) ==
  g = [U \in SUBSET S |-> IF U = {} THEN 0 ELSE Pick(U).amount * rows[Pick(U)] + g[U \ {Pick(U)}]]

(* sumCurrentYear, as its recursion.                                       *)
LEMMA ReserveFold ==
  ASSUME NEW y
  PROVE  Reserve(y) = (CHOOSE g : ReserveAdds(ledger, RowsOf(y), g))[RowsOf(y)]
BY Zenon DEF Reserve, MapThenSumSet, MapThenFoldSet, ReserveAdds, Pick

(* Its solution is the sum of what the rows are worth.                     *)
LEMMA ReserveSums ==
  ASSUME NEW rows, NEW S, S \subseteq BagToSet(rows), IsFiniteSet(S)
  PROVE  (CHOOSE g : ReserveAdds(rows, S, g))[S] = Total(Worth(rows), S)
<1>1. ASSUME NEW U \in SUBSET S, U # {} PROVE Pick(U).amount * rows[Pick(U)] = Worth(rows)[Pick(U)]
  <2>1. Pick(U) \in BagToSet(rows)
    BY <1>1, PickType
  <2> QED BY <2>1 DEF Worth
<1>2. \A g : ReserveAdds(rows, S, g) <=> Adds(Worth(rows), S, g)
  BY <1>1 DEF ReserveAdds, Adds
<1>3. \E g : Adds(Worth(rows), S, g)
  BY SumsAdd
<1>4. \E g : ReserveAdds(rows, S, g)
  BY <1>2, <1>3
<1>5. PICK g : g = CHOOSE h : ReserveAdds(rows, S, h)
  OBVIOUS
<1>6. ReserveAdds(rows, S, g)
  BY <1>4, <1>5, Zenon
<1>7. Adds(Worth(rows), S, g)
  BY <1>2, <1>6
<1> QED BY <1>5, <1>7, SumOfSet

(* sumCurrentYear sums what its rows are worth.                            *)
LEMMA ReserveIsTotal ==
  \A y : IsFiniteSet(BagToSet(ledger)) => Reserve(y) = Total(Worth(ledger), RowsOf(y))
<1> SUFFICES ASSUME NEW y, IsFiniteSet(BagToSet(ledger))
             PROVE  Reserve(y) = Total(Worth(ledger), RowsOf(y))
  OBVIOUS
<1>1. RowsOf(y) \subseteq BagToSet(ledger)
  BY DEF RowsOf
<1>2. IsFiniteSet(RowsOf(y))
  BY <1>1, FS_Subset
<1> QED BY <1>1, <1>2, ReserveFold, ReserveSums

Deductions(requests) == [r \in Request |-> requests[r].deduction]

HoldAdds(requests, S, g) ==
  g = [U \in SUBSET S |-> IF U = {} THEN 0 ELSE requests[Pick(U)].deduction + g[U \ {Pick(U)}]]

(* sumPendingHold, as its recursion, and its solution.                     *)
LEMMA HoldFold ==
  ASSUME NEW y
  PROVE  PendingHold(y) = (CHOOSE g : HoldAdds(request, Of("pending", y), g))[Of("pending", y)]
BY Zenon DEF PendingHold, MapThenSumSet, MapThenFoldSet, HoldAdds, Pick

LEMMA HoldSums ==
  ASSUME NEW requests, NEW S, S \subseteq Request, IsFiniteSet(S)
  PROVE  (CHOOSE g : HoldAdds(requests, S, g))[S] = Total(Deductions(requests), S)
<1>1. ASSUME NEW U \in SUBSET S, U # {}
      PROVE  requests[Pick(U)].deduction = Deductions(requests)[Pick(U)]
  <2>1. Pick(U) \in Request
    BY <1>1, PickType
  <2> QED BY <2>1 DEF Deductions
<1>2. \A g : HoldAdds(requests, S, g) <=> Adds(Deductions(requests), S, g)
  BY <1>1 DEF HoldAdds, Adds
<1>3. \E g : Adds(Deductions(requests), S, g)
  BY SumsAdd
<1>4. \E g : HoldAdds(requests, S, g)
  BY <1>2, <1>3
<1>5. PICK g : g = CHOOSE h : HoldAdds(requests, S, h)
  OBVIOUS
<1>6. HoldAdds(requests, S, g)
  BY <1>4, <1>5, Zenon
<1>7. Adds(Deductions(requests), S, g)
  BY <1>2, <1>6
<1> QED BY <1>5, <1>7, SumOfSet

(* The money of the year's pending requests.                               *)
LEMMA HoldIsTotal ==
  \A y : IsFiniteSet(Of("pending", y)) => PendingHold(y) = Total(Deductions(request), Of("pending", y))
<1> SUFFICES ASSUME NEW y, IsFiniteSet(Of("pending", y))
             PROVE  PendingHold(y) = Total(Deductions(request), Of("pending", y))
  OBVIOUS
<1>1. Of("pending", y) \subseteq Request
  BY DEF Of
<1> QED BY <1>1, HoldFold, HoldSums

DaysAdd(S, g) ==
  g = [U \in SUBSET S |-> IF U = {} THEN 0 ELSE WorkingDays(Pick(U)) + g[U \ {Pick(U)}]]

(* The days used, as their recursion.                                      *)
LEMMA DaysFold ==
  ASSUME NEW y
  PROVE  UsedDays(y) = (CHOOSE g : DaysAdd(Of("approved", y), g))[Of("approved", y)]
BY Zenon DEF UsedDays, MapThenSumSet, MapThenFoldSet, DaysAdd, Pick

(* The days of the year's approved requests.                               *)
LEMMA UsedDaysType ==
  ASSUME NEW y, IsFiniteSet(Of("approved", y)), \A r \in Request : WorkingDays(r) \in Int
  PROVE  UsedDays(y) \in Int
<1> DEFINE f == [r \in Request |-> WorkingDays(r)]
           S == Of("approved", y)
<1>1. S \subseteq Request
  BY DEF Of
<1>2. ASSUME NEW U \in SUBSET S, U # {} PROVE WorkingDays(Pick(U)) = f[Pick(U)]
  <2>1. Pick(U) \in Request
    BY <1>1, <1>2, PickType
  <2> QED BY <2>1
<1>3. Counted(f, S)
  BY <1>1 DEF Counted
<1>4. UsedDays(y) = (CHOOSE g : DaysAdd(S, g))[S]
  BY DaysFold
<1> HIDE DEF f, S
<1>5. \A g : DaysAdd(S, g) <=> Adds(f, S, g)
  BY <1>2 DEF DaysAdd, Adds
<1>6. \E g : DaysAdd(S, g)
  BY <1>3, <1>5, SumsAdd DEF Counted
<1>7. PICK g : g = CHOOSE h : DaysAdd(S, h)
  OBVIOUS
<1>8. DaysAdd(S, g)
  BY <1>6, <1>7, Zenon
<1>9. g[S] = Total(f, S)
  BY <1>3, <1>5, <1>8, SumOfSet DEF Counted
<1> QED BY <1>3, <1>4, <1>7, <1>9, TotalInt

-----------------------------------------------------------------------------
(* The rows of a ledger are finitely many, of integer amounts.             *)
Booked(rows) == IsABag(rows) /\ IsFiniteSet(BagToSet(rows)) /\ \A row \in BagToSet(rows) : row.amount \in Int

(* The same of the ledger after a step.                                    *)
LEMMA ReserveIsTotalNext ==
  \A y : IsFiniteSet(BagToSet(ledger')) => Reserve(y)' = Total(Worth(ledger'), RowsOf(y)')
<1>1. (\A y : IsFiniteSet(BagToSet(ledger)) => Reserve(y) = Total(Worth(ledger), RowsOf(y)))'
  BY ReserveIsTotal, PTL
<1>2. QED BY <1>1 DEF BagToSet, Worth

(* Such rows can be summed.                                                *)
LEMMA WorthCounted ==
  ASSUME NEW rows, Booked(rows), NEW S, S \subseteq BagToSet(rows)
  PROVE  Counted(Worth(rows), S)
<1>1. \A row \in S : rows[row] \in Nat /\ row.amount \in Int
  BY DEF Booked, IsABag, BagToSet
<1>2. \A row \in S : Worth(rows)[row] = row.amount * rows[row]
  BY DEF Worth
<1> QED BY <1>1, <1>2, FS_Subset DEF Counted, Booked

(* What rows a commit adds, and how often each is in the ledger then.      *)
LEMMA BookedAfter ==
  ASSUME Booked(ledger), NEW W, IsFiniteSet(W), \A row \in W : row.amount \in Int,
         ledger' = ledger (+) SetToBag(W)
  PROVE  /\ Booked(ledger')
         /\ BagToSet(ledger') = BagToSet(ledger) \cup W
         /\ \A row \in BagToSet(ledger) : /\ ledger[row] \in Nat /\ ledger'[row] \in Nat
                                          /\ row \notin W => ledger'[row] = ledger[row]
                                          /\ ledger[row] <= ledger'[row]
         /\ \A row \in W \ BagToSet(ledger) : ledger'[row] = 1
<1> DEFINE M == [row \in DOMAIN ledger \cup W |->
                   (IF row \in DOMAIN ledger THEN ledger[row] ELSE 0) + (IF row \in W THEN 1 ELSE 0)]
<1>1. ledger' = M
  BY DEF (+), SetToBag
<1>2. ledger \in [DOMAIN ledger -> Nat \ {0}]
  BY DEF Booked, IsABag
<1>3. \A row \in DOMAIN ledger \cup W : M[row] \in Nat \ {0}
  BY <1>2
<1>4. IsABag(ledger')
  BY AddRows DEF Booked
<1>5. BagToSet(ledger') = BagToSet(ledger) \cup W
  BY <1>1 DEF BagToSet
<1>6. IsFiniteSet(BagToSet(ledger'))
  BY <1>5, FS_Union DEF Booked
<1>7. Booked(ledger')
  BY <1>4, <1>5, <1>6 DEF Booked
<1>8. \A row \in BagToSet(ledger) : /\ ledger[row] \in Nat /\ ledger'[row] \in Nat
                                    /\ row \notin W => ledger'[row] = ledger[row]
                                    /\ ledger[row] <= ledger'[row]
  BY <1>1, <1>2 DEF BagToSet
<1>9. \A row \in W \ BagToSet(ledger) : ledger'[row] = 1
  BY <1>1 DEF BagToSet
<1> QED BY <1>5, <1>7, <1>8, <1>9

(* Rows that take nothing lower no reserve.                                *)
LEMMA ReserveGrows ==
  ASSUME Booked(ledger), NEW W, IsFiniteSet(W), \A row \in W : row.amount \in Int /\ row.amount >= 0,
         ledger' = ledger (+) SetToBag(W), NEW y
  PROVE  Reserve(y) \in Int /\ Reserve(y)' \in Int /\ Reserve(y) <= Reserve(y)'
<1>1. PICK S, R, L : S = RowsOf(y) /\ R = RowsOf(y)' /\ L = ledger'
  OBVIOUS
<1>2. /\ Booked(L)
      /\ BagToSet(L) = BagToSet(ledger) \cup W
      /\ \A row \in BagToSet(ledger) : /\ ledger[row] \in Nat /\ L[row] \in Nat
                                       /\ row \notin W => L[row] = ledger[row]
                                       /\ ledger[row] <= L[row]
      /\ \A row \in W \ BagToSet(ledger) : L[row] = 1
  BY <1>1, BookedAfter
<1>3. S \subseteq R /\ S \subseteq BagToSet(ledger) /\ R \subseteq BagToSet(L) /\ R \subseteq S \cup W
  BY <1>1, <1>2 DEF RowsOf
<1>4. Counted(Worth(ledger), S) /\ Counted(Worth(L), S) /\ Counted(Worth(L), R)
  BY <1>2, <1>3, WorthCounted
<1>5. Reserve(y) = Total(Worth(ledger), S) /\ Reserve(y)' = Total(Worth(L), R)
  BY <1>1, <1>2, ReserveIsTotal, ReserveIsTotalNext DEF Booked
<1>6. ASSUME NEW row \in S PROVE Worth(ledger)[row] <= Worth(L)[row]
  <2>1. Worth(ledger)[row] = row.amount * ledger[row] /\ Worth(L)[row] = row.amount * L[row]
    BY <1>2, <1>3 DEF Worth
  <2>2. CASE row \notin W
    <3>1. Worth(ledger)[row] \in Int /\ L[row] = ledger[row]
      BY <1>2, <1>3, <1>4, <2>2 DEF Counted
    <3> QED BY <2>1, <3>1
  <2>3. CASE row \in W
    <3>1. PICK a, m, n : a = row.amount /\ m = ledger[row] /\ n = L[row]
      OBVIOUS
    <3>2. a \in Nat /\ m \in Nat /\ n \in Nat /\ m <= n
      BY <1>2, <1>3, <2>3, <3>1
    <3>3. a * m <= a * n
      BY <3>2
    <3> QED BY <2>1, <3>1, <3>3
  <2> QED BY <2>2, <2>3
<1>7. ASSUME NEW row \in R \ S PROVE Worth(L)[row] >= 0
  <2>1. row \in W /\ L[row] \in Nat /\ Worth(L)[row] = row.amount * L[row]
    BY <1>1, <1>2, <1>3 DEF Worth, Booked, IsABag, BagToSet
  <2>2. row.amount \in Nat
    BY <2>1
  <2> QED BY <2>1, <2>2
<1>8. Total(Worth(ledger), S) <= Total(Worth(L), S) /\ Total(Worth(L), S) <= Total(Worth(L), R)
  BY <1>3, <1>4, <1>6, <1>7, TotalUp, TotalMore
<1> QED BY <1>4, <1>5, <1>8, TotalInt

(* A new row adds its amount, to the reserve of its year only.             *)
LEMMA ReserveTaken ==
  ASSUME Booked(ledger), NEW d, d \notin BagToSet(ledger), d.amount \in Int,
         ledger' = ledger (+) SetToBag({d}), NEW y
  PROVE  Reserve(y) \in Int /\ Reserve(y)' = Reserve(y) + (IF d.year = y THEN d.amount ELSE 0)
<1>1. PICK S, R, L : S = RowsOf(y) /\ R = RowsOf(y)' /\ L = ledger'
  OBVIOUS
<1>0. PICK W : W = {d}
  OBVIOUS
<1>00. IsFiniteSet(W) /\ ledger' = ledger (+) SetToBag(W)
  BY <1>0, FS_Singleton
<1>2. /\ Booked(L)
      /\ BagToSet(L) = BagToSet(ledger) \cup W
      /\ \A row \in BagToSet(ledger) : L[row] = ledger[row]
      /\ L[d] = 1
  BY <1>1, <1>0, <1>00, BookedAfter
<1>3. /\ S \subseteq BagToSet(ledger) /\ S \subseteq BagToSet(L) /\ R \subseteq BagToSet(L)
      /\ R = IF d.year = y THEN S \cup {d} ELSE S
  BY <1>0, <1>1, <1>2 DEF RowsOf
<1>4. Counted(Worth(ledger), S) /\ Counted(Worth(L), S) /\ Counted(Worth(L), R)
  BY <1>2, <1>3, WorthCounted
<1>5. Reserve(y) = Total(Worth(ledger), S) /\ Reserve(y)' = Total(Worth(L), R)
  BY <1>1, <1>2, ReserveIsTotal, ReserveIsTotalNext DEF Booked
<1>6. \A row \in S : Worth(ledger)[row] = Worth(L)[row]
  BY <1>2, <1>3 DEF Worth
<1>7. Total(Worth(ledger), S) = Total(Worth(L), S)
  BY <1>4, <1>6, TotalSame
<1>8. CASE d.year = y
  <2>1. R \ {d} = S /\ d \in R
    BY <1>3, <1>8
  <2>2. Total(Worth(L), R) = Worth(L)[d] + Total(Worth(L), S)
    BY <1>4, <2>1, TotalRemove
  <2>3. Worth(L)[d] = d.amount
    BY <1>2, <1>3, <2>1 DEF Worth
  <2> QED BY <1>4, <1>5, <1>7, <1>8, <2>2, <2>3, TotalInt
<1>9. CASE d.year # y
  BY <1>3, <1>4, <1>5, <1>7, <1>9, TotalInt
<1> QED BY <1>8, <1>9

-----------------------------------------------------------------------------
(* The requests there are.                                                 *)
Submitted == {r \in Request : request[r].status # "none"}

(* Those of a status and a year are finitely many.                         *)
LEMMA OfFinite ==
  ASSUME IsFiniteSet(Submitted), NEW status, status # "none", NEW y
  PROVE  IsFiniteSet(Of(status, y))
<1>1. Of(status, y) \subseteq Submitted
  BY DEF Of, Submitted
<1> QED BY <1>1, FS_Subset

(* What is held for after a step.                                          *)
LEMMA HoldIsTotalNext ==
  \A y : IsFiniteSet(Of("pending", y)')
         => PendingHold(y)' = Total(Deductions(request'), Of("pending", y)')
<1>1. (\A y : IsFiniteSet(Of("pending", y))
              => PendingHold(y) = Total(Deductions(request), Of("pending", y)))'
  BY HoldIsTotal, PTL
<1> QED BY <1>1 DEF Deductions

(* Requests of integer deductions.                                         *)
Priceable(requests) == \A r \in Request : requests[r].deduction \in Nat

(* Such requests can be summed.                                            *)
LEMMA DeductionsCounted ==
  ASSUME NEW requests, Priceable(requests), NEW S, S \subseteq Request, IsFiniteSet(S)
  PROVE  Counted(Deductions(requests), S) /\ \A r \in S : Deductions(requests)[r] \in Nat
BY DEF Priceable, Deductions, Counted

(* Requests that are no longer pending are no longer held for.             *)
LEMMA HoldFalls ==
  ASSUME Priceable(request), Priceable(request'), NEW y, IsFiniteSet(Of("pending", y)),
         Of("pending", y)' \subseteq Of("pending", y),
         \A r \in Of("pending", y)' : request'[r].deduction = request[r].deduction
  PROVE  PendingHold(y) \in Int /\ PendingHold(y)' \in Int /\ PendingHold(y)' <= PendingHold(y)
<1>1. PICK S, R : S = Of("pending", y) /\ R = Of("pending", y)'
  OBVIOUS
<1>2. S \subseteq Request /\ R \subseteq S /\ IsFiniteSet(S) /\ IsFiniteSet(R)
  BY <1>1, FS_Subset DEF Of
<1>3. PendingHold(y) = Total(Deductions(request), S) /\ PendingHold(y)' = Total(Deductions(request'), R)
  BY <1>1, <1>2, HoldIsTotal, HoldIsTotalNext
<1>4. /\ Counted(Deductions(request), S) /\ Counted(Deductions(request), R)
      /\ Counted(Deductions(request'), R) /\ \A r \in S : Deductions(request)[r] \in Nat
  BY <1>2, DeductionsCounted
<1>5. \A r \in R : Deductions(request)[r] = Deductions(request')[r]
  BY <1>1, <1>2 DEF Deductions
<1>6. Total(Deductions(request), R) = Total(Deductions(request'), R)
  BY <1>4, <1>5, TotalSame
<1>7. Total(Deductions(request), R) <= Total(Deductions(request), S)
  BY <1>2, <1>4, TotalMore
<1> QED BY <1>3, <1>4, <1>6, <1>7, TotalInt

(* One request less is held for.                                           *)
LEMMA HoldReleased ==
  ASSUME Priceable(request), Priceable(request'), NEW y, IsFiniteSet(Of("pending", y)),
         NEW r \in Of("pending", y), Of("pending", y)' = Of("pending", y) \ {r},
         \A q \in Of("pending", y)' : request'[q].deduction = request[q].deduction
  PROVE  PendingHold(y) \in Int /\ PendingHold(y)' = PendingHold(y) - request[r].deduction
<1>1. PICK S, R : S = Of("pending", y) /\ R = Of("pending", y)'
  OBVIOUS
<1>2. S \subseteq Request /\ R = S \ {r} /\ R \subseteq S /\ IsFiniteSet(S) /\ IsFiniteSet(R) /\ r \in S
  BY <1>1, FS_Subset DEF Of
<1>3. PendingHold(y) = Total(Deductions(request), S) /\ PendingHold(y)' = Total(Deductions(request'), R)
  BY <1>1, <1>2, HoldIsTotal, HoldIsTotalNext
<1>4. /\ Counted(Deductions(request), S) /\ Counted(Deductions(request), R)
      /\ Counted(Deductions(request'), R) /\ Deductions(request)[r] \in Int
  BY <1>2, DeductionsCounted DEF Counted
<1>5. \A q \in R : Deductions(request)[q] = Deductions(request')[q]
  BY <1>1, <1>2 DEF Deductions
<1>6. Total(Deductions(request), R) = Total(Deductions(request'), R)
  BY <1>4, <1>5, TotalSame
<1>7. Total(Deductions(request), S) = Deductions(request)[r] + Total(Deductions(request), R)
  BY <1>2, <1>4, TotalRemove
<1>8. Deductions(request)[r] = request[r].deduction
  BY <1>2 DEF Deductions
<1>9. Total(Deductions(request), S) \in Int /\ Total(Deductions(request), R) \in Int
  BY <1>4, TotalInt
<1> QED BY <1>3, <1>4, <1>6, <1>7, <1>8, <1>9

(* One request more is held for.                                           *)
LEMMA HoldAdded ==
  ASSUME Priceable(request), Priceable(request'), NEW y, IsFiniteSet(Of("pending", y)),
         NEW r \in Request \ Of("pending", y), Of("pending", y)' = Of("pending", y) \cup {r},
         \A q \in Of("pending", y) : request'[q].deduction = request[q].deduction
  PROVE  PendingHold(y) \in Int /\ PendingHold(y)' = PendingHold(y) + request'[r].deduction
<1>1. PICK S, R : S = Of("pending", y) /\ R = Of("pending", y)'
  OBVIOUS
<1>2. S \subseteq Request /\ R \subseteq Request /\ R \ {r} = S /\ r \in R /\ IsFiniteSet(S)
      /\ IsFiniteSet(R)
  BY <1>1, FS_AddElement DEF Of
<1>3. PendingHold(y) = Total(Deductions(request), S) /\ PendingHold(y)' = Total(Deductions(request'), R)
  BY <1>1, <1>2, HoldIsTotal, HoldIsTotalNext
<1>4. /\ Counted(Deductions(request), S) /\ Counted(Deductions(request'), S)
      /\ Counted(Deductions(request'), R) /\ Deductions(request')[r] \in Int
  BY <1>2, DeductionsCounted DEF Counted
<1>5. \A q \in S : Deductions(request)[q] = Deductions(request')[q]
  BY <1>1, <1>2 DEF Deductions
<1>6. Total(Deductions(request), S) = Total(Deductions(request'), S)
  BY <1>4, <1>5, TotalSame
<1>7. Total(Deductions(request'), R) = Deductions(request')[r] + Total(Deductions(request'), S)
  BY <1>2, <1>4, TotalRemove
<1>8. Deductions(request')[r] = request'[r].deduction
  BY DEF Deductions
<1>9. Total(Deductions(request'), S) \in Int
  BY <1>4, TotalInt
<1> QED BY <1>3, <1>4, <1>6, <1>7, <1>8, <1>9

-----------------------------------------------------------------------------
(* A deduction never costs more than the days it was checked as, but for   *)
(* half a cent a day and half a cent more.                                 *)
Owed(days, deduction, reserve) == deduction = 0 \/ 2 * (reserve - deduction) >= -(days + 1)

(* A year of n months' pay, by 260 days: within half a cent of it.         *)
LEMMA Rounded ==
  ASSUME NEW n \in Nat
  PROVE  /\ Round(n * 12, 260) \in Nat
         /\ 520 * Round(n * 12, 260) <= 24 * n + 260
         /\ 520 * Round(n * 12, 260) >= 24 * n - 259
<1>1. PICK q : q = (2 * (n * 12) + 260) \div (2 * 260)
  OBVIOUS
<1>2. q \in Nat /\ 520 * q <= 24 * n + 260 /\ 520 * q >= 24 * n - 259
  BY <1>1
<1> QED BY <1>1, <1>2 DEF Round

(* The days an amount pays for do not cost more than it.                   *)
LEMMA WholeDays ==
  ASSUME NEW a \in Int, NEW b \in Nat \ {0}
  PROVE  a \div b \in Int /\ b * (a \div b) <= a
OBVIOUS

(* What is affordable by the day's pay is owed no more than the rounding.  *)
LEMMA PriceIsCovered ==
  ASSUME NEW days \in Nat, NEW salary \in Nat, NEW current \in Nat, salary <= current,
         NEW reserve \in Int,
         days <= IF DailySalary(current) = 0 THEN 0 ELSE reserve \div DailySalary(current)
  PROVE  Owed(days, Deduction(days, salary), reserve)
<1>1. PICK k, daily, d : k = days * salary /\ daily = DailySalary(current) /\ d = Deduction(days, salary)
  OBVIOUS
<1>2. k \in Nat /\ k <= days * current
  BY <1>1
<1>3. d \in Nat /\ 520 * d <= 24 * k + 260
  BY <1>1, <1>2, Rounded DEF Deduction
<1>4. daily \in Nat /\ 520 * daily >= 24 * current - 259
  BY <1>1, Rounded DEF DailySalary
<1>5. CASE daily = 0
  <2>1. days = 0
    BY <1>1, <1>5
  <2>2. k = 0
    BY <1>1, <2>1
  <2>3. d = 0
    BY <1>3, <2>2
  <2> QED BY <1>1, <2>3 DEF Owed
<1>6. CASE daily # 0
  <2>1. PICK q : q = reserve \div daily
    OBVIOUS
  <2>2. q \in Int /\ daily * q <= reserve /\ days <= q
    BY <1>1, <1>4, <1>6, <2>1, WholeDays
  <2>3. daily * days <= daily * q
    BY <1>4, <2>2
  <2>4. PICK x, z : x = daily * days /\ z = days * current
    OBVIOUS
  <2>5. x \in Int /\ z \in Int /\ x <= reserve
    BY <1>4, <2>2, <2>3, <2>4
  <2>6. 520 * x >= 24 * z - 259 * days
    <3>1. days * (520 * daily) >= days * (24 * current - 259)
      BY <1>4
    <3> QED BY <1>4, <2>4, <3>1
  <2>7. 520 * d <= 24 * z + 260
    BY <1>2, <1>3, <2>4, <2>5
  <2>8. 2 * (reserve - d) >= -(days + 1)
    BY <1>3, <2>5, <2>6, <2>7
  <2> QED BY <1>1, <2>8 DEF Owed
<1> QED BY <1>5, <1>6

(* Working days are counted, those of a request among them.                *)
LEMMA WorkingType ==
  ASSUME NEW f \in Day, NEW l \in Day
  PROVE  Working(f .. l) \in Nat
<1>1. IsFiniteSet(f .. l)
  <2>1. f \in Int /\ l \in Int
    BY DEF Day
  <2> QED BY <2>1, FS_Interval
<1>2. IsFiniteSet((f .. l) \ Weekend)
  BY <1>1, FS_Difference
<1> QED BY <1>2, FS_CardinalityType DEF Working

LEMMA DaysType ==
  ASSUME TypeOK, NEW r \in Request
  PROVE  WorkingDays(r) \in Nat
BY RequestType, WorkingType DEF WorkingDays

(* What rounding may cost.                                                 *)
LEMMA RoundingType ==
  TypeOK /\ IsFiniteSet(Submitted) =>
    /\ TwiceRounding \in Nat
    /\ \A r \in Submitted : WorkingDays(r) + 1 <= TwiceRounding
    /\ TwiceRounding = 0 \/ \E r \in Submitted : TwiceRounding = WorkingDays(r) + 1
<1> SUFFICES ASSUME TypeOK, IsFiniteSet(Submitted)
             PROVE  /\ TwiceRounding \in Nat
                    /\ \A r \in Submitted : WorkingDays(r) + 1 <= TwiceRounding
                    /\ TwiceRounding = 0 \/ \E r \in Submitted : TwiceRounding = WorkingDays(r) + 1
  OBVIOUS
<1> DEFINE E == {WorkingDays(r) + 1 : r \in {q \in Request : request[q].status # "none"}}
           S == {0} \cup E
<1>1. IsFiniteSet(S)
  <2> DEFINE f == [r \in Submitted |-> WorkingDays(r) + 1]
  <2>1. f \in Surjection(Submitted, E)
    BY DEF Submitted, Surjection
  <2>2. IsFiniteSet(E)
    <3> HIDE DEF f, E
    <3> QED BY <2>1, FS_Surjection
  <2> QED BY <2>2, FS_Singleton, FS_Union
<1>2. S \subseteq Nat /\ 0 \in S
  BY DaysType
<1>3. /\ \A r \in Submitted : WorkingDays(r) + 1 \in S
      /\ \A x \in S : x = 0 \/ \E r \in Submitted : x = WorkingDays(r) + 1
  BY DEF Submitted
<1>4. TwiceRounding = Max(S)
  BY DEF TwiceRounding
<1> HIDE DEF S
<1>5. Max(S) \in S /\ \A x \in S : x <= Max(S)
  <2>1. S \subseteq Int /\ S # {}
    BY <1>2
  <2> QED BY <1>1, <2>1, Greatest
<1> QED BY <1>2, <1>3, <1>4, <1>5

(* It never falls: no request is lost, or given other dates.               *)
LEMMA RoundingKept ==
  ASSUME TypeOK, IsFiniteSet(Submitted), TypeOK', IsFiniteSet(Submitted'),
         \A r \in Submitted : /\ r \in Submitted'
                              /\ request'[r].first = request[r].first
                              /\ request'[r].last = request[r].last
  PROVE  /\ TwiceRounding \in Nat /\ TwiceRounding' \in Nat /\ TwiceRounding <= TwiceRounding'
         /\ \A r \in Submitted : WorkingDays(r) + 1 <= TwiceRounding
         /\ \A r \in Submitted' : Working(request'[r].first .. request'[r].last) + 1 <= TwiceRounding'
<1>1. /\ TwiceRounding \in Nat
      /\ \A r \in Submitted : WorkingDays(r) + 1 <= TwiceRounding
      /\ TwiceRounding = 0 \/ \E r \in Submitted : TwiceRounding = WorkingDays(r) + 1
  BY RoundingType
<1>2. (TypeOK /\ IsFiniteSet(Submitted) =>
        /\ TwiceRounding \in Nat
        /\ \A r \in Submitted : WorkingDays(r) + 1 <= TwiceRounding
        /\ TwiceRounding = 0 \/ \E r \in Submitted : TwiceRounding = WorkingDays(r) + 1)'
  BY RoundingType, PTL
<1>3. /\ TwiceRounding' \in Nat
      /\ \A r \in Submitted' : Working(request'[r].first .. request'[r].last) + 1 <= TwiceRounding'
  BY <1>2 DEF WorkingDays
<1>4. TwiceRounding <= TwiceRounding'
  <2>1. \A r \in Submitted : WorkingDays(r) + 1 <= TwiceRounding'
    BY <1>3 DEF WorkingDays
  <2> QED BY <1>1, <1>3, <2>1
<1> QED BY <1>1, <1>3, <1>4

-----------------------------------------------------------------------------
(* What a pending request costs was the price of its days once.            *)
Priced ==
  \A r \in Request : request[r].status = "pending" =>
    \E i \in DOMAIN snapshots :
      request[r].deduction = Deduction(WorkingDays(r), snapshots[i].terms.monthlySalary)

(* No request, and no row, is of a later year than y.                      *)
RowsDated(y) == \A row \in BagToSet(ledger) : row.year \in Nat /\ row.year <= y

(* No request was made later, and none pending was reviewed.               *)
Fresh(y) ==
  \A r \in Submitted : /\ request[r].requestedIn <= y
                       /\ request[r].status = "pending" => request[r].reviewedIn = NoYear

(* Requests are decided in the year they are made.                         *)
OwnYears == \A r \in Request : InItsOwnYear(r)

(* The reserve covers what is held, but for rounding.                      *)
Covered(y) == 2 * (Reserve(y) - PendingHold(y)) >= -TwiceRounding

(* The accounts are sound in the year y.                                   *)
MoneyIn(y) ==
  /\ Booked(ledger)
  /\ IsFiniteSet(Submitted)
  /\ RowsDated(y)
  /\ Fresh(y)
  /\ Priced
  /\ NeverOverdrawn
  /\ OwnYears => Covered(y)

(* What a transaction has decided about money, in the year y: a request    *)
(* that what is not held pays for, the approval of one that the reserve    *)
(* pays for, or what takes nothing.                                        *)
Asks(w, y) ==
  \E r \in Request :
    /\ DOMAIN w.requests = {r}
    /\ w.rows = {}
    /\ request[r].status = "none"
    /\ w.requests[r].status = "pending"
    /\ w.requests[r].requestedIn = y
    /\ w.requests[r].reviewedIn = NoYear
    /\ \E i \in DOMAIN snapshots :
         w.requests[r].deduction = Deduction(Working(w.requests[r].first .. w.requests[r].last),
                                             snapshots[i].terms.monthlySalary)
    /\ OwnYears => Owed(Working(w.requests[r].first .. w.requests[r].last), w.requests[r].deduction,
                        Reserve(y) - PendingHold(y))

Grants(w, y) ==
  \E r \in Request :
    /\ DOMAIN w.requests = {r}
    /\ w.rows = {Debit(r)}
    /\ request[r].status = "pending"
    /\ w.requests[r] = Becomes(r, "approved", y)
    /\ NeverCut => Owed(WorkingDays(r), request[r].deduction, Reserve(y))

Frees(w, y) ==
  /\ \A r \in DOMAIN w.requests :
       \/ request[r].status = "pending" /\ w.requests[r] = Becomes(r, "rejected", y)
       \/ Live(r) /\ w.requests[r] = Cancelled(r)
  /\ \A row \in w.rows : row.amount >= 0

Deals(w, y) ==
  /\ IsFiniteSet(w.rows)
  /\ \A row \in w.rows : row.amount \in Int /\ row.year = y
  /\ Asks(w, y) \/ Grants(w, y) \/ Frees(w, y)

(* The invariant: the accounts are sound, and so is what open transactions *)
(* have decided.                                                           *)
Money ==
  \A y \in Year : y = YearOf[today] =>
    MoneyIn(y) /\ \A t \in Tx : tx[t].open => Deals(tx[t], y)

(* What a commit does to the tables.                                       *)
Carries(w) ==
  /\ request' = [r \in Request |-> IF r \in DOMAIN w.requests THEN w.requests[r] ELSE request[r]]
  /\ ledger' = ledger (+) SetToBag(w.rows)
  /\ snapshots' = snapshots \o w.terms
  /\ today' = today

(* A request that there is stays as it was, but for its status.            *)
LEMMA RequestKept ==
  ASSUME Inv, NEW w, Planned(w), Carries(w), NEW r \in Request
  PROVE  /\ request'[r] = IF r \in DOMAIN w.requests THEN w.requests[r] ELSE request[r]
         /\ request[r].status # "none" =>
              /\ request'[r].status # "none"
              /\ request'[r].first = request[r].first
              /\ request'[r].last = request[r].last
              /\ request'[r].deduction = request[r].deduction
<1>1. request'[r] = IF r \in DOMAIN w.requests THEN w.requests[r] ELSE request[r]
  BY DEF Carries
<1>2. Fits(w, r)
  BY DEF Planned
<1> QED BY <1>1, <1>2 DEF Fits, Submits, Approves, Closes, Rewritten

(* Settings once saved are there for good.                                 *)
LEMMA SnapshotsKept ==
  ASSUME Inv, NEW w, Planned(w), Carries(w)
  PROVE  /\ \A i \in DOMAIN snapshots : i \in DOMAIN snapshots' /\ snapshots'[i] = snapshots[i]
         /\ NeverCut' => NeverCut
<1>1. snapshots \in Snapshots /\ w.terms \in Snapshots /\ snapshots' = snapshots \o w.terms
  BY DEF Inv, TypeOK, Snapshots, Planned, TermsFit, Carries
<1>2. \A i \in DOMAIN snapshots : i \in DOMAIN snapshots' /\ snapshots'[i] = snapshots[i]
  BY <1>1 DEF Snapshots
<1> QED BY <1>2 DEF NeverCut

(* What a commit does to everything but the sums.                          *)
LEMMA CommitBooks ==
  ASSUME Inv, NEW w, Planned(w), Carries(w), NEW y \in Year, MoneyIn(y), Deals(w, y)
  PROVE  Booked(ledger') /\ RowsDated(y)' /\ IsFiniteSet(Submitted') /\ Fresh(y)' /\ Priced'
<1>1. /\ Booked(ledger) /\ IsFiniteSet(w.rows)
      /\ \A row \in w.rows : row.amount \in Int /\ row.year = y
      /\ ledger' = ledger (+) SetToBag(w.rows)
  BY DEF MoneyIn, Deals, Carries
<1>2. Booked(ledger') /\ BagToSet(ledger') = BagToSet(ledger) \cup w.rows
  BY <1>1, BookedAfter
<1>3. y \in Nat
  BY CalendarAssumption DEF Year
<1>4. RowsDated(y)'
  BY <1>1, <1>2, <1>3 DEF MoneyIn, RowsDated
<1>5. ASSUME NEW r \in Request
      PROVE  \/ request'[r] = request[r]
             \/ /\ Asks(w, y) /\ DOMAIN w.requests = {r}
                /\ request'[r] = w.requests[r]
                /\ request'[r].requestedIn = y
                /\ request'[r].reviewedIn = NoYear
                /\ \E i \in DOMAIN snapshots :
                     request'[r].deduction = Deduction(Working(request'[r].first .. request'[r].last),
                                                       snapshots[i].terms.monthlySalary)
             \/ /\ request[r].status # "none"
                /\ request'[r].status \notin {"none", "pending"}
                /\ request'[r].requestedIn = request[r].requestedIn
  <2>1. request'[r] = IF r \in DOMAIN w.requests THEN w.requests[r] ELSE request[r]
    BY RequestKept
  <2>2. CASE r \notin DOMAIN w.requests
    BY <2>1, <2>2
  <2>3. CASE r \in DOMAIN w.requests /\ Asks(w, y)
    BY <2>1, <2>3 DEF Asks
  <2>4. CASE r \in DOMAIN w.requests /\ Grants(w, y)
    <3>1. request[r].status = "pending" /\ request'[r] = Becomes(r, "approved", y)
      BY <2>1, <2>4 DEF Grants
    <3> QED BY <3>1 DEF Becomes, Asked
  <2>5. CASE r \in DOMAIN w.requests /\ Frees(w, y)
    <3>1. \/ request[r].status = "pending" /\ request'[r] = Becomes(r, "rejected", y)
          \/ Live(r) /\ request'[r] = Cancelled(r)
      BY <2>1, <2>5 DEF Frees
    <3> QED BY <3>1 DEF Becomes, Asked, Cancelled, Live
  <2> QED BY <2>2, <2>3, <2>4, <2>5 DEF Deals
<1>6. IsFiniteSet(Submitted')
  <2>1. CASE Asks(w, y)
    <3>1. PICK r \in Request : DOMAIN w.requests = {r}
      BY <2>1 DEF Asks
    <3>2. Submitted' \subseteq Submitted \cup {r}
      BY <3>1, RequestKept DEF Submitted
    <3> QED BY <3>2, FS_Singleton, FS_Union, FS_Subset DEF MoneyIn
  <2>2. CASE ~Asks(w, y)
    <3>1. Submitted' \subseteq Submitted
      BY <1>5, <2>2 DEF Submitted
    <3> QED BY <3>1, FS_Subset DEF MoneyIn
  <2> QED BY <2>1, <2>2
<1>7. Fresh(y)'
  <2> SUFFICES ASSUME NEW r \in Request, request'[r].status # "none"
               PROVE  /\ request'[r].requestedIn <= y
                      /\ request'[r].status = "pending" => request'[r].reviewedIn = NoYear
    BY DEF Fresh, Submitted
  <2> QED BY <1>3, <1>5 DEF MoneyIn, Fresh, Submitted
<1>8. Priced'
  <2> SUFFICES ASSUME NEW r \in Request, request'[r].status = "pending"
               PROVE  \E i \in DOMAIN snapshots' :
                        request'[r].deduction = Deduction(Working(request'[r].first .. request'[r].last),
                                                          snapshots'[i].terms.monthlySalary)
    BY DEF Priced, WorkingDays
  <2>1. PICK i \in DOMAIN snapshots :
          request'[r].deduction = Deduction(Working(request'[r].first .. request'[r].last),
                                            snapshots[i].terms.monthlySalary)
    <3>1. CASE request'[r] = request[r]
      BY <3>1 DEF MoneyIn, Priced, WorkingDays
    <3> QED BY <1>5, <3>1
  <2>2. i \in DOMAIN snapshots' /\ snapshots'[i] = snapshots[i]
    BY SnapshotsKept
  <2> QED BY <2>1, <2>2
<1> QED BY <1>2, <1>4, <1>6, <1>7, <1>8

-----------------------------------------------------------------------------
(* A commit in the year y, of what fits the tables and is paid for.        *)
Committing(w, y) ==
  /\ Inv /\ Inv'
  /\ Planned(w) /\ Carries(w)
  /\ y \in Year
  /\ MoneyIn(y)
  /\ IsFiniteSet(Submitted')
  /\ IsFiniteSet(w.rows) /\ \A row \in w.rows : row.amount \in Int /\ row.year = y

(* It loses no request and cuts no salary that was not cut before.         *)
LEMMA CommitRounding ==
  ASSUME NEW w, NEW y, Committing(w, y)
  PROVE  /\ TwiceRounding \in Nat /\ TwiceRounding' \in Nat /\ TwiceRounding <= TwiceRounding'
         /\ \A r \in Submitted : WorkingDays(r) + 1 <= TwiceRounding
         /\ \A r \in Submitted' : Working(request'[r].first .. request'[r].last) + 1 <= TwiceRounding'
         /\ Priceable(request) /\ Priceable(request')
         /\ NeverCut' => NeverCut
         /\ IsFiniteSet(Of("pending", y))
<1>1. TypeOK /\ TypeOK' /\ IsFiniteSet(Submitted) /\ IsFiniteSet(Submitted')
  BY DEF Committing, Inv, MoneyIn
<1>2. \A r \in Submitted : /\ r \in Submitted'
                           /\ request'[r].first = request[r].first
                           /\ request'[r].last = request[r].last
  BY RequestKept DEF Submitted, Committing
<1>3. Priceable(request) /\ Priceable(request')
  BY <1>1 DEF TypeOK, Requests, Priceable
<1>4. NeverCut' => NeverCut
  BY SnapshotsKept DEF Committing
<1>5. IsFiniteSet(Of("pending", y))
  BY <1>1, OfFinite
<1> QED BY <1>1, <1>2, <1>3, <1>4, <1>5, RoundingKept

(* Who was on time after a commit was before it.                           *)
LEMMA OnTime ==
  ASSUME NEW w, NEW y, Committing(w, y), Deals(w, y)
  PROVE  OwnYears' => OwnYears
<1> SUFFICES ASSUME OwnYears', NEW r \in Request, request[r].status # "none"
             PROVE  /\ request[r].requestedIn = YearOf[request[r].first]
                    /\ request[r].reviewedIn \in {NoYear, YearOf[request[r].first]}
  BY DEF OwnYears, InItsOwnYear
<1>1. /\ request'[r] = IF r \in DOMAIN w.requests THEN w.requests[r] ELSE request[r]
      /\ request'[r].status # "none" /\ request'[r].first = request[r].first
  BY RequestKept DEF Committing
<1>2. /\ request'[r].requestedIn = YearOf[request[r].first]
      /\ request'[r].reviewedIn \in {NoYear, YearOf[request[r].first]}
  BY <1>1 DEF OwnYears, InItsOwnYear
<1>3. request[r].status = "pending" => request[r].reviewedIn = NoYear
  BY DEF Committing, MoneyIn, Fresh, Submitted
<1>4. CASE r \notin DOMAIN w.requests
  BY <1>1, <1>2, <1>4
<1>5. CASE r \in DOMAIN w.requests /\ Asks(w, y)
  BY <1>5 DEF Asks
<1>6. CASE r \in DOMAIN w.requests /\ Grants(w, y)
  <2>1. request[r].status = "pending" /\ request'[r] = Becomes(r, "approved", y)
    BY <1>1, <1>6 DEF Grants
  <2> QED BY <1>2, <1>3, <2>1 DEF Becomes, Asked
<1>7. CASE r \in DOMAIN w.requests /\ Frees(w, y)
  <2>1. \/ request[r].status = "pending" /\ request'[r] = Becomes(r, "rejected", y)
        \/ request'[r] = Cancelled(r)
    BY <1>1, <1>7 DEF Frees
  <2> QED BY <1>2, <1>3, <2>1 DEF Becomes, Asked, Cancelled
<1> QED BY <1>4, <1>5, <1>6, <1>7 DEF Deals

(* What adds to every reserve overdraws none.                              *)
LEMMA StillNotOverdrawn ==
  ASSUME NEW w, NEW y, Committing(w, y), \A row \in w.rows : row.amount >= 0
  PROVE  /\ NeverOverdrawn'
         /\ Reserve(y) \in Int /\ Reserve(y)' \in Int /\ Reserve(y) <= Reserve(y)'
<1>1. \A z \in Year : Reserve(z) \in Int /\ Reserve(z)' \in Int /\ Reserve(z) <= Reserve(z)'
  <2> TAKE z \in Year
  <2>1. PICK W : W = w.rows
    OBVIOUS
  <2>2. /\ Booked(ledger) /\ IsFiniteSet(W) /\ ledger' = ledger (+) SetToBag(W)
        /\ \A row \in W : row.amount \in Int /\ row.amount >= 0
    BY <2>1 DEF Committing, MoneyIn, Carries
  <2> QED BY <2>2, ReserveGrows
<1>2. /\ TwiceRounding \in Nat /\ TwiceRounding' \in Nat /\ TwiceRounding <= TwiceRounding'
      /\ NeverCut' => NeverCut
  BY CommitRounding
<1>3. NeverCut => \A z \in Year : 2 * Reserve(z) >= -TwiceRounding
  BY DEF Committing, MoneyIn, NeverOverdrawn
<1>4. ASSUME NeverCut', NEW z \in Year PROVE 2 * Reserve(z)' >= -TwiceRounding'
  BY <1>1, <1>2, <1>3, <1>4
<1> QED BY <1>1, <1>4 DEF NeverOverdrawn, Committing, Year

(* The commit of a request.                                                *)
LEMMA AskedFor ==
  ASSUME NEW w, NEW y, Committing(w, y), Deals(w, y), Asks(w, y)
  PROVE  NeverOverdrawn' /\ (OwnYears' => Covered(y)')
<1>1. PICK r \in Request :
        /\ DOMAIN w.requests = {r}
        /\ w.rows = {}
        /\ request[r].status = "none"
        /\ w.requests[r].status = "pending"
        /\ w.requests[r].requestedIn = y
        /\ OwnYears => Owed(Working(w.requests[r].first .. w.requests[r].last), w.requests[r].deduction,
                            Reserve(y) - PendingHold(y))
  BY DEF Asks
<1>2. NeverOverdrawn' /\ Reserve(y) \in Int /\ Reserve(y)' \in Int /\ Reserve(y) <= Reserve(y)'
  BY <1>1, StillNotOverdrawn
<1>3. /\ request'[r] = w.requests[r]
      /\ \A q \in Request \ {r} : request'[q] = request[q]
  BY <1>1 DEF Committing, Carries
<1>4. ASSUME OwnYears' PROVE Covered(y)'
  <2>1. YearOf[request'[r].first] = y
    BY <1>1, <1>3, <1>4 DEF OwnYears, InItsOwnYear
  <2>2. r \notin Of("pending", y) /\ Of("pending", y)' = Of("pending", y) \cup {r}
    BY <1>1, <1>3, <2>1 DEF Of
  <2>3. \A q \in Of("pending", y) : request'[q].deduction = request[q].deduction
    BY <1>1, <1>3 DEF Of
  <2>4. /\ Priceable(request) /\ Priceable(request') /\ IsFiniteSet(Of("pending", y))
        /\ TwiceRounding \in Nat /\ TwiceRounding' \in Nat /\ TwiceRounding <= TwiceRounding'
        /\ \A q \in Submitted' : Working(request'[q].first .. request'[q].last) + 1 <= TwiceRounding'
    BY CommitRounding
  <2>5. PendingHold(y) \in Int /\ PendingHold(y)' = PendingHold(y) + request'[r].deduction
    BY <2>2, <2>3, <2>4, HoldAdded
  <2>6. OwnYears /\ 2 * (Reserve(y) - PendingHold(y)) >= -TwiceRounding
    BY <1>4, OnTime DEF Committing, MoneyIn, Covered
  <2>7. PICK days : days = Working(request'[r].first .. request'[r].last)
    OBVIOUS
  <2>8. days + 1 <= TwiceRounding' /\ days \in Nat
    <3>1. r \in Submitted'
      BY <1>1, <1>3 DEF Submitted
    <3>2. request'[r].first \in Day /\ request'[r].last \in Day
      BY DEF Committing, Inv, TypeOK, Requests
    <3> QED BY <2>4, <2>7, <3>1, <3>2, WorkingType
  <2>9. PICK d, h, k, n, m : d = request'[r].deduction /\ h = PendingHold(y) /\ k = Reserve(y)
                             /\ n = Reserve(y)' /\ m = PendingHold(y)'
    OBVIOUS
  <2>10. d = 0 \/ 2 * ((k - h) - d) >= -(days + 1)
    BY <1>1, <1>3, <2>6, <2>7, <2>9 DEF Owed
  <2>11. d \in Nat
    BY <2>4, <2>9 DEF Priceable
  <2>12. 2 * (n - m) >= -TwiceRounding'
    <3>1. k \in Int /\ n \in Int /\ k <= n /\ h \in Int /\ m = h + d
      BY <1>2, <2>5, <2>9
    <3>2. PICK t, u : t = TwiceRounding /\ u = TwiceRounding'
      OBVIOUS
    <3>3. t \in Nat /\ u \in Nat /\ t <= u /\ days + 1 <= u /\ days \in Nat
      BY <2>4, <2>8, <3>2
    <3>4. 2 * (k - h) >= -t
      BY <2>6, <2>9, <3>2
    <3>5. 2 * (n - m) >= -u
      BY <2>10, <2>11, <3>1, <3>3, <3>4
    <3> QED BY <3>2, <3>5
  <2> QED BY <2>9, <2>12 DEF Covered
<1> QED BY <1>2, <1>4

(* The commit of an approval.                                              *)
LEMMA GrantedFor ==
  ASSUME NEW w, NEW y, Committing(w, y), Deals(w, y), Grants(w, y)
  PROVE  NeverOverdrawn' /\ (OwnYears' => Covered(y)')
<1>1. PICK r \in Request :
        /\ DOMAIN w.requests = {r}
        /\ w.rows = {Debit(r)}
        /\ request[r].status = "pending"
        /\ w.requests[r] = Becomes(r, "approved", y)
        /\ NeverCut => Owed(WorkingDays(r), request[r].deduction, Reserve(y))
  BY DEF Grants
<1>2. PICK row, d : row = Debit(r) /\ d = request[r].deduction
  OBVIOUS
<1>3. w.rows = {row} /\ row.amount = -d /\ row.type = "debit" /\ row.of = r /\ row.year = y
  BY <1>1, <1>2, DebitRow DEF Committing
<1>4. row \notin BagToSet(ledger)
  <2>1. Untouched(r)
    BY <1>1 DEF Committing, Inv, LedgerBalanced
  <2> QED BY <1>3, <2>1 DEF Untouched, RowsFor
<1>5. d \in Nat /\ row.amount \in Int
  BY <1>2, <1>3, CommitRounding DEF Priceable
<1>6. \A z \in Year : Reserve(z) \in Int /\ Reserve(z)' = Reserve(z) + (IF z = y THEN -d ELSE 0)
  <2> TAKE z \in Year
  <2>1. Booked(ledger) /\ ledger' = ledger (+) SetToBag({row})
    BY <1>3 DEF Committing, MoneyIn, Carries
  <2>2. Reserve(z) \in Int /\ Reserve(z)' = Reserve(z) + (IF row.year = z THEN row.amount ELSE 0)
    BY <1>4, <1>5, <2>1, ReserveTaken
  <2> QED BY <1>3, <2>2
<1>7. /\ Priceable(request) /\ Priceable(request') /\ IsFiniteSet(Of("pending", y))
      /\ TwiceRounding \in Nat /\ TwiceRounding' \in Nat /\ TwiceRounding <= TwiceRounding'
      /\ \A q \in Submitted : WorkingDays(q) + 1 <= TwiceRounding
      /\ NeverCut' => NeverCut
  BY CommitRounding
<1>8. NeverOverdrawn'
  <2>1. NeverCut => \A z \in Year : 2 * Reserve(z) >= -TwiceRounding
    BY DEF Committing, MoneyIn, NeverOverdrawn
  <2>2. PICK days : days = WorkingDays(r)
    OBVIOUS
  <2>3. days \in Nat /\ days + 1 <= TwiceRounding
    BY <1>1, <1>7, <2>2, DaysType DEF Submitted, Committing, Inv
  <2>4. ASSUME NeverCut', NEW z \in Year PROVE 2 * Reserve(z)' >= -TwiceRounding'
    <3>1. 2 * Reserve(z) >= -TwiceRounding
      BY <1>7, <2>1, <2>4
    <3>2. CASE z # y
      BY <1>6, <1>7, <3>1, <3>2
    <3>3. CASE z = y
      <4>1. Reserve(y)' = Reserve(y) - d /\ Reserve(y) \in Int
        BY <1>5, <1>6, <3>3
      <4>2. d = 0 \/ 2 * (Reserve(y) - d) >= -(days + 1)
        BY <1>1, <1>2, <1>7, <2>2, <2>4 DEF Owed
      <4> QED BY <1>5, <1>7, <2>3, <3>1, <3>3, <4>1, <4>2
    <3> QED BY <3>2, <3>3
  <2> QED BY <2>4 DEF NeverOverdrawn, Committing, Year
<1>9. ASSUME OwnYears' PROVE Covered(y)'
  <2>0. /\ request'[r] = Becomes(r, "approved", y)
        /\ \A q \in Request \ {r} : request'[q] = request[q]
    BY <1>1 DEF Committing, Carries
  <2>1. request'[r].status = "approved" /\ request'[r].reviewedIn = y /\ request'[r].first = request[r].first
    BY <2>0 DEF Becomes, Asked
  <2>2. YearOf[request[r].first] = y
    <3>1. y # NoYear
      BY CalendarAssumption DEF Committing, Year, NoYear
    <3> QED BY <1>9, <2>1, <3>1 DEF OwnYears, InItsOwnYear
  <2>3. r \in Of("pending", y) /\ Of("pending", y)' = Of("pending", y) \ {r}
    BY <1>1, <2>0, <2>1, <2>2 DEF Of
  <2>4. \A q \in Of("pending", y)' : request'[q].deduction = request[q].deduction
    BY <2>0, <2>3 DEF Of
  <2>5. PendingHold(y) \in Int /\ PendingHold(y)' = PendingHold(y) - d
    BY <1>2, <1>7, <2>3, <2>4, HoldReleased
  <2>6. 2 * (Reserve(y) - PendingHold(y)) >= -TwiceRounding
    BY <1>9, OnTime DEF Committing, MoneyIn, Covered
  <2>7. Reserve(y) \in Int /\ Reserve(y)' = Reserve(y) - d
    BY <1>5, <1>6 DEF Committing
  <2>8. 2 * (Reserve(y)' - PendingHold(y)') >= -TwiceRounding'
    BY <1>5, <1>7, <2>5, <2>6, <2>7
  <2> QED BY <2>8 DEF Covered
<1> QED BY <1>8, <1>9

(* The commit of what takes nothing.                                       *)
LEMMA FreedFor ==
  ASSUME NEW w, NEW y, Committing(w, y), Deals(w, y), Frees(w, y)
  PROVE  NeverOverdrawn' /\ (OwnYears' => Covered(y)')
<1>1. NeverOverdrawn' /\ Reserve(y) \in Int /\ Reserve(y)' \in Int /\ Reserve(y) <= Reserve(y)'
  BY StillNotOverdrawn DEF Frees
<1>2. ASSUME NEW q \in Request, request'[q].status = "pending" PROVE request'[q] = request[q]
  <2>1. request'[q] = IF q \in DOMAIN w.requests THEN w.requests[q] ELSE request[q]
    BY DEF Committing, Carries
  <2>2. CASE q \in DOMAIN w.requests
    <3>1. request'[q] = Becomes(q, "rejected", y) \/ request'[q] = Cancelled(q)
      BY <2>1, <2>2 DEF Frees
    <3> QED BY <1>2, <3>1 DEF Becomes, Cancelled, Asked
  <2> QED BY <2>1, <2>2
<1>3. /\ Of("pending", y)' \subseteq Of("pending", y)
      /\ \A q \in Of("pending", y)' : request'[q].deduction = request[q].deduction
  BY <1>2 DEF Of
<1>4. /\ Priceable(request) /\ Priceable(request') /\ IsFiniteSet(Of("pending", y))
      /\ TwiceRounding \in Nat /\ TwiceRounding' \in Nat /\ TwiceRounding <= TwiceRounding'
  BY CommitRounding
<1>5. PendingHold(y) \in Int /\ PendingHold(y)' \in Int /\ PendingHold(y)' <= PendingHold(y)
  BY <1>3, <1>4, HoldFalls
<1>6. ASSUME OwnYears' PROVE Covered(y)'
  <2>1. 2 * (Reserve(y) - PendingHold(y)) >= -TwiceRounding
    BY <1>6, OnTime DEF Committing, MoneyIn, Covered
  <2>2. 2 * (Reserve(y)' - PendingHold(y)') >= -TwiceRounding'
    BY <1>1, <1>4, <1>5, <2>1
  <2> QED BY <2>2 DEF Covered
<1> QED BY <1>1, <1>6

-----------------------------------------------------------------------------
(* Sums of integers are integers.                                          *)
LEMMA SumsType ==
  ASSUME Inv, NEW y, MoneyIn(y), NEW z
  PROVE  Reserve(z) \in Int /\ PendingHold(z) \in Int
<1>1. Reserve(z) \in Int
  <2>1. PICK S : S = RowsOf(z)
    OBVIOUS
  <2>2. S \subseteq BagToSet(ledger) /\ Booked(ledger)
    BY <2>1 DEF RowsOf, MoneyIn
  <2>3. Counted(Worth(ledger), S) /\ Reserve(z) = Total(Worth(ledger), S)
    BY <2>1, <2>2, WorthCounted, ReserveIsTotal DEF Booked
  <2> QED BY <2>3, TotalInt
<1>2. PendingHold(z) \in Int
  <2>1. PICK S : S = Of("pending", z)
    OBVIOUS
  <2>0. IsFiniteSet(Of("pending", z))
    BY OfFinite DEF MoneyIn
  <2>2. S \subseteq Request /\ IsFiniteSet(S)
    BY <2>0, <2>1 DEF Of
  <2>3. Priceable(request)
    BY DEF Inv, TypeOK, Requests, Priceable
  <2>4. Counted(Deductions(request), S) /\ PendingHold(z) = Total(Deductions(request), S)
    BY <2>1, <2>2, <2>3, DeductionsCounted, HoldIsTotal
  <2> QED BY <2>4, TotalInt
<1> QED BY <1>1, <1>2

(* Without rows, or requests, of a year there is nothing in it.            *)
LEMMA EmptyYear ==
  ASSUME Inv, NEW y, MoneyIn(y), NEW z
  PROVE  /\ RowsOf(z) = {} => Reserve(z) = 0
         /\ Of("pending", z) = {} => PendingHold(z) = 0
<1>1. \A f : Total(f, {}) = 0
  BY FS_EmptySet, TotalPick
<1>2. IsFiniteSet(BagToSet(ledger)) /\ IsFiniteSet(Of("pending", z))
  BY OfFinite DEF MoneyIn, Booked
<1>3. Reserve(z) = Total(Worth(ledger), RowsOf(z))
      /\ PendingHold(z) = Total(Deductions(request), Of("pending", z))
  BY <1>2, ReserveIsTotal, HoldIsTotal
<1> QED BY <1>1, <1>3

(* A new year starts with nothing in it and nothing asked for.             *)
LEMMA LaterYear ==
  ASSUME Inv, NEW y \in Year, MoneyIn(y), NEW z \in Year, y <= z
  PROVE  MoneyIn(z)
<1>0. y \in Nat /\ z \in Nat
  BY CalendarAssumption DEF Year
<1>1. CASE y = z
  BY <1>1
<1>2. CASE y # z
  <2>1. RowsDated(z)
    BY <1>0 DEF MoneyIn, RowsDated
  <2>2. \A r \in Submitted : request[r].requestedIn \in Int /\ request[r].requestedIn <= y
    <3>1. \A r \in Request : request[r].requestedIn \in Year \cup {NoYear}
      BY DEF Inv, TypeOK, Requests
    <3>2. Year \cup {NoYear} \subseteq Int
      BY CalendarAssumption DEF Year, NoYear
    <3> QED BY <3>1, <3>2 DEF MoneyIn, Fresh, Submitted
  <2>3. Fresh(z)
    BY <1>0, <2>2 DEF MoneyIn, Fresh
  <2>4. ASSUME OwnYears PROVE Covered(z)
    <3>1. RowsOf(z) = {}
      BY <1>0, <1>2 DEF MoneyIn, RowsDated, RowsOf
    <3>2. Of("pending", z) = {}
      <4> SUFFICES ASSUME NEW r \in Of("pending", z) PROVE FALSE
        OBVIOUS
      <4>1. r \in Submitted /\ request[r].requestedIn = z
        BY <2>4 DEF Of, Submitted, OwnYears, InItsOwnYear
      <4> QED BY <1>0, <1>2, <2>2, <4>1
    <3>3. Reserve(z) = 0 /\ PendingHold(z) = 0
      BY <3>1, <3>2, EmptyYear
    <3>4. TwiceRounding \in Nat
      BY RoundingType DEF Inv, MoneyIn
    <3> QED BY <3>3, <3>4 DEF Covered
  <2> QED BY <2>1, <2>3, <2>4 DEF MoneyIn
<1> QED BY <1>1, <1>2

(* Tables that do not change hold as much.                                 *)
LEMMA SameSums ==
  ASSUME Inv, NEW y, MoneyIn(y), UNCHANGED <<snapshots, request, ledger>>
  PROVE  /\ \A z : Reserve(z)' = Reserve(z) /\ PendingHold(z)' = PendingHold(z)
         /\ \A r : WorkingDays(r)' = WorkingDays(r) /\ InItsOwnYear(r)' = InItsOwnYear(r)
         /\ TwiceRounding' = TwiceRounding
         /\ NeverCut' = NeverCut
         /\ OwnYears' = OwnYears
<1>1. \A z : RowsOf(z)' = RowsOf(z) /\ Of("pending", z)' = Of("pending", z)
  BY DEF RowsOf, Of
<1>2. IsFiniteSet(BagToSet(ledger)) /\ \A z : IsFiniteSet(Of("pending", z))
  BY OfFinite DEF MoneyIn, Booked
<1>3. ASSUME NEW z PROVE Reserve(z)' = Reserve(z)
  <2>1. Reserve(z) = Total(Worth(ledger), RowsOf(z))
    BY <1>2, ReserveIsTotal
  <2>2. Reserve(z)' = Total(Worth(ledger), RowsOf(z))
    BY <1>1, <1>2, ReserveIsTotalNext
  <2> QED BY <2>1, <2>2
<1>4. ASSUME NEW z PROVE PendingHold(z)' = PendingHold(z)
  <2>1. PendingHold(z) = Total(Deductions(request), Of("pending", z))
    BY <1>2, HoldIsTotal
  <2>2. PendingHold(z)' = Total(Deductions(request), Of("pending", z))
    BY <1>1, <1>2, HoldIsTotalNext
  <2> QED BY <2>1, <2>2
<1>5. \A r : WorkingDays(r)' = WorkingDays(r)
  BY DEF WorkingDays
<1>6. TwiceRounding' = TwiceRounding
  BY <1>5 DEF TwiceRounding
<1>7. NeverCut' = NeverCut
  BY DEF NeverCut
<1>8. \A r : InItsOwnYear(r)' = InItsOwnYear(r)
  BY DEF InItsOwnYear
<1>9. OwnYears' = OwnYears
  BY <1>8 DEF OwnYears
<1> QED BY <1>3, <1>4, <1>5, <1>6, <1>7, <1>8, <1>9

(* They are as sound as they were.                                         *)
LEMMA SameMoney ==
  ASSUME Inv, NEW y, MoneyIn(y), UNCHANGED <<snapshots, request, ledger>>
  PROVE  MoneyIn(y)'
<1>1. (Booked(ledger) /\ IsFiniteSet(Submitted) /\ RowsDated(y) /\ Fresh(y))'
  BY DEF MoneyIn, Booked, Submitted, RowsDated, Fresh, BagToSet, IsABag
<1>2. Priced'
  BY SameSums DEF MoneyIn, Priced
<1>3. NeverOverdrawn'
  BY SameSums DEF MoneyIn, NeverOverdrawn, Year
<1>4. OwnYears' => Covered(y)'
  BY SameSums DEF MoneyIn, Covered
<1> QED BY <1>1, <1>2, <1>3, <1>4 DEF MoneyIn

(* What was decided is as sound while the tables do not change.            *)
LEMMA DealsKept ==
  ASSUME Inv, NEW y, MoneyIn(y), NEW s \in Tx, NEW w, tx'[s] = w, Deals(w, y),
         UNCHANGED <<today, snapshots, request, ledger>>
  PROVE  Deals(tx[s], y)'
<1>1. Asks(w, y) => Asks(tx[s], y)'
  <2> SUFFICES ASSUME Asks(w, y) PROVE Asks(tx[s], y)'
    OBVIOUS
  <2>1. Reserve(y)' = Reserve(y) /\ PendingHold(y)' = PendingHold(y) /\ OwnYears' = OwnYears
    BY SameSums
  <2> QED BY <2>1 DEF Asks
<1>2. Grants(w, y) => Grants(tx[s], y)'
  <2> SUFFICES ASSUME Grants(w, y) PROVE Grants(tx[s], y)'
    OBVIOUS
  <2>1. Reserve(y)' = Reserve(y) /\ NeverCut' = NeverCut /\ \A r : WorkingDays(r)' = WorkingDays(r)
    BY SameSums
  <2>2. \A r : Debit(r)' = Debit(r) /\ Becomes(r, "approved", y)' = Becomes(r, "approved", y)
    BY DEF Debit, Row, Becomes
  <2> QED BY <2>1, <2>2 DEF Grants
<1>3. Frees(w, y) => Frees(tx[s], y)'
  <2>1. \A r : /\ Becomes(r, "rejected", y)' = Becomes(r, "rejected", y)
               /\ Cancelled(r)' = Cancelled(r) /\ Live(r)' = Live(r)
    BY DEF Becomes, Cancelled, Live
  <2> QED BY <2>1 DEF Frees
<1>4. (IsFiniteSet(w.rows) /\ \A row \in w.rows : row.amount \in Int /\ row.year = y)
      => (IsFiniteSet(tx[s].rows) /\ \A row \in tx[s].rows : row.amount \in Int /\ row.year = y)'
  OBVIOUS
<1> QED BY <1>1, <1>2, <1>3, <1>4 DEF Deals

-----------------------------------------------------------------------------
(* Min and Max choose one of two.                                          *)
LEMMA ExtremesOfTwo ==
  ASSUME NEW a \in Int, NEW b \in Int
  PROVE  /\ Min({a, b}) \in Int /\ Min({a, b}) <= a
         /\ Max({a, b}) = a \/ Max({a, b}) = b
<1>1. \E x \in {a, b} : \A y \in {a, b} : x <= y
  BY a <= b \/ b <= a
<1>2. \E x \in {a, b} : \A y \in {a, b} : x >= y
  BY a <= b \/ b <= a
<1>3. Min({a, b}) \in {a, b} /\ \A y \in {a, b} : Min({a, b}) <= y
  BY <1>1, Zenon DEF Min
<1>4. Max({a, b}) \in {a, b}
  BY <1>2, Zenon DEF Max
<1> QED BY <1>3, <1>4

LEMMA ElementOfSeq ==
  ASSUME NEW S, NEW s \in Seq(S), NEW i \in DOMAIN s
  PROVE  s[i] \in S
OBVIOUS

(* The settings in force.                                                  *)
LEMMA FinancialsType ==
  ASSUME Inv, Configured
  PROVE  /\ Len(snapshots) \in DOMAIN snapshots
         /\ Financials = snapshots[Len(snapshots)].terms
         /\ Financials.monthlySalary \in Nat \ {0}
         /\ Financials.daysPerYear \in Nat \ {0}
         /\ \A i \in DOMAIN snapshots : snapshots[i].terms.monthlySalary \in Nat
<1>1. snapshots \in Snapshots /\ snapshots # <<>>
  BY DEF Inv, TypeOK, Configured, Snapshots
<1>2. Len(snapshots) \in DOMAIN snapshots
  BY <1>1 DEF Snapshots
<1>3. \A i \in DOMAIN snapshots : snapshots[i].terms \in Settings
  <2>0. PICK S : S = [from : Day, terms : Terms]
    OBVIOUS
  <2>1. \A i \in DOMAIN snapshots : snapshots[i] \in S
    <3>1. snapshots \in Seq(S)
      BY <1>1, <2>0 DEF Snapshots
    <3> QED BY <3>1, ElementOfSeq
  <2> QED BY <2>0, <2>1, TermsAssumption
<1> QED BY <1>2, <1>3 DEF Financials, Settings

(* What a day costs.                                                       *)
LEMMA DailyType ==
  ASSUME NEW n \in Nat
  PROVE  DailySalary(n) \in Nat
BY Rounded DEF DailySalary

(* What a reserve pays for at most.                                        *)
LEMMA AffordableBound ==
  ASSUME Inv, NEW y, MoneyIn(y), Configured, NEW reserve \in Int
  PROVE  /\ Affordable(reserve) \in Int
         /\ Affordable(reserve) <= IF DailySalary(Financials.monthlySalary) = 0 THEN 0
                                   ELSE reserve \div DailySalary(Financials.monthlySalary)
<1>1. PICK daily : daily = DailySalary(Financials.monthlySalary)
  OBVIOUS
<1>2. daily \in Nat
  BY <1>1, FinancialsType, DailyType
<1>3. PICK a : a = IF daily = 0 THEN 0 ELSE reserve \div daily
  OBVIOUS
<1>4. a \in Int
  BY <1>2, <1>3, WholeDays
<1>5. PICK b : b = Financials.daysPerYear - UsedDays(YearOf[today])
  OBVIOUS
<1>6. b \in Int
  <2>1. IsFiniteSet(Of("approved", YearOf[today]))
    BY OfFinite DEF MoneyIn
  <2>2. \A r \in Request : WorkingDays(r) \in Int
    BY DaysType DEF Inv
  <2>3. UsedDays(YearOf[today]) \in Int
    BY <2>1, <2>2, UsedDaysType
  <2> QED BY <1>5, <2>3, FinancialsType
<1>7. Affordable(reserve) = Min({a, b})
  BY <1>1, <1>3, <1>5 DEF Affordable
<1> QED BY <1>1, <1>3, <1>4, <1>6, <1>7, ExtremesOfTwo

(* No days cost nothing.                                                   *)
LEMMA FreeDays ==
  ASSUME NEW salary \in Nat
  PROVE  Deduction(0, salary) = 0
<1>1. 0 * salary * 12 = 0
  OBVIOUS
<1>2. Deduction(0, salary) = Round(0, 260)
  BY <1>1 DEF Deduction
<1> QED BY <1>2 DEF Round

(* submit: what is not held pays for it.                                   *)
LEMMA SubmitDeals ==
  ASSUME Inv, NEW y, y = YearOf[today], MoneyIn(y), NEW t \in Tx, NEW r \in Request,
         NEW first \in Day, NEW last \in Day, Submit(t, r, first, last)
  PROVE  \E w : Decide(t, w) /\ Deals(w, y)
<1>1. PICK days, d, salary : days = Working(first .. last) /\ salary = Financials.monthlySalary
                             /\ d = Deduction(days, salary)
  OBVIOUS
<1>2. PICK v : v = Asked("pending", first, last, d, y, NoYear)
  OBVIOUS
<1>3. PICK w : w = Writes(Only(r, v), {}, FALSE, <<>>)
  OBVIOUS
<1>4. Decide(t, w) /\ Configured /\ request[r].status = "none" /\ days <= AvailableToSubmit
  BY <1>1, <1>2, <1>3 DEF Submit
<1>5. /\ v.status = "pending" /\ v.first = first /\ v.last = last /\ v.deduction = d
      /\ v.requestedIn = y /\ v.reviewedIn = NoYear
  BY <1>2 DEF Asked
<1>6. DOMAIN w.requests = {r} /\ w.requests[r] = v /\ w.rows = {}
  BY <1>3 DEF Writes, Only
<1>7. \E i \in DOMAIN snapshots : d = Deduction(days, snapshots[i].terms.monthlySalary)
  BY <1>1, <1>4, FinancialsType
<1>8. Owed(days, d, Reserve(y) - PendingHold(y))
  <2>1. PICK reserve : reserve = Reserve(y) - PendingHold(y)
    OBVIOUS
  <2>2. reserve \in Int
    BY <2>1, SumsType
  <2>3. days \in Nat /\ salary \in Nat
    BY <1>1, <1>4, WorkingType, FinancialsType
  <2>4. PICK a : a = Affordable(reserve)
    OBVIOUS
  <2>5. /\ a \in Int
        /\ a <= IF DailySalary(salary) = 0 THEN 0 ELSE reserve \div DailySalary(salary)
    BY <1>1, <1>4, <2>2, <2>4, AffordableBound
  <2>6. AvailableToSubmit = Max({0, a})
    BY <2>1, <2>4 DEF AvailableToSubmit
  <2>7. days <= 0 \/ days <= a
    <3>1. PICK none \in Int : none = 0
      OBVIOUS
    <3>2. Max({none, a}) = none \/ Max({none, a}) = a
      BY <2>5, ExtremesOfTwo
    <3> QED BY <1>4, <2>6, <3>1, <3>2
  <2>8. CASE days <= 0
    <3>1. days = 0
      BY <2>3, <2>8
    <3>2. d = 0
      BY <1>1, <2>3, <3>1, FreeDays
    <3> QED BY <3>2 DEF Owed
  <2>9. CASE days <= a
    <3>1. PICK b : b = IF DailySalary(salary) = 0 THEN 0 ELSE reserve \div DailySalary(salary)
      OBVIOUS
    <3>2. b \in Int
      BY <2>2, <2>3, <3>1, DailyType, WholeDays
    <3>3. days <= b
      BY <2>3, <2>5, <2>9, <3>1, <3>2
    <3>4. salary <= salary
      BY <2>3
    <3> QED BY <1>1, <2>1, <2>2, <2>3, <3>1, <3>3, <3>4, PriceIsCovered
  <2> QED BY <2>7, <2>8, <2>9
<1>9. Asks(w, y)
  BY <1>1, <1>4, <1>5, <1>6, <1>7, <1>8 DEF Asks
<1>10. Deals(w, y)
  BY <1>6, <1>9, FS_EmptySet DEF Deals
<1> QED BY <1>4, <1>10

(* review, approving: the reserve pays for it.                             *)
LEMMA ApproveDeals ==
  ASSUME Inv, NEW y, y = YearOf[today], MoneyIn(y), NEW t \in Tx, NEW r \in Request, Approve(t, r)
  PROVE  \E w : Decide(t, w) /\ Deals(w, y)
<1>1. PICK v, row : v = Becomes(r, "approved", y) /\ row = Debit(r)
  OBVIOUS
<1>2. PICK w : w = Writes(Only(r, v), {row}, FALSE, <<>>)
  OBVIOUS
<1>3. Decide(t, w) /\ Configured /\ request[r].status = "pending" /\ WorkingDays(r) <= AvailableToApprove
  BY <1>1, <1>2 DEF Approve
<1>4. DOMAIN w.requests = {r} /\ w.requests[r] = v /\ w.rows = {row}
  BY <1>2 DEF Writes, Only
<1>5. PICK days, d : days = WorkingDays(r) /\ d = request[r].deduction
  OBVIOUS
<1>6. days \in Nat /\ d \in Nat
  BY <1>5, DaysType, RequestType DEF Inv
<1>7. row.amount = -d /\ row.amount \in Int /\ row.year = y
  <2>1. row.amount = -d
    BY <1>1, <1>5, DebitRow
  <2>2. row.year = y
    BY <1>1 DEF Debit, Row
  <2> QED BY <1>6, <2>1, <2>2
<1>8. ASSUME NeverCut PROVE Owed(days, d, Reserve(y))
  <2>1. PICK i \in DOMAIN snapshots : d = Deduction(days, snapshots[i].terms.monthlySalary)
    BY <1>3, <1>5 DEF MoneyIn, Priced
  <2>2. PICK salary, current : salary = snapshots[i].terms.monthlySalary
                               /\ current = Financials.monthlySalary
    OBVIOUS
  <2>3. salary \in Nat /\ current \in Nat
    BY <1>3, <2>2, FinancialsType
  <2>4. salary <= current
    <3>1. /\ snapshots \in Snapshots /\ Len(snapshots) \in DOMAIN snapshots
          /\ current = snapshots[Len(snapshots)].terms.monthlySalary
      BY <1>3, <2>2, FinancialsType DEF Inv, TypeOK, Snapshots
    <3>2. CASE i = Len(snapshots)
      BY <2>2, <2>3, <3>1, <3>2
    <3>3. CASE i # Len(snapshots)
      <4>1. i < Len(snapshots)
        BY <3>1, <3>3 DEF Snapshots
      <4> QED BY <1>8, <2>2, <3>1, <4>1 DEF NeverCut
    <3> QED BY <3>2, <3>3
  <2>5. PICK reserve : reserve = Reserve(y)
    OBVIOUS
  <2>6. reserve \in Int
    BY <2>5, SumsType
  <2>7. /\ Affordable(reserve) \in Int
        /\ Affordable(reserve) <= IF DailySalary(current) = 0 THEN 0 ELSE reserve \div DailySalary(current)
    BY <1>3, <2>2, <2>6, AffordableBound
  <2>8. days <= Affordable(reserve)
    BY <1>3, <1>5, <2>5 DEF AvailableToApprove
  <2>9. PICK b : b = IF DailySalary(current) = 0 THEN 0 ELSE reserve \div DailySalary(current)
    OBVIOUS
  <2>10. b \in Int
    BY <2>3, <2>6, <2>9, DailyType, WholeDays
  <2>11. days <= b
    BY <1>6, <2>7, <2>8, <2>9, <2>10
  <2> QED BY <1>6, <2>1, <2>2, <2>3, <2>4, <2>5, <2>6, <2>9, <2>11, PriceIsCovered
<1>9. Grants(w, y)
  BY <1>1, <1>3, <1>4, <1>5, <1>8 DEF Grants
<1>10. Deals(w, y)
  BY <1>4, <1>7, <1>9, FS_Singleton DEF Deals
<1> QED BY <1>3, <1>10

-----------------------------------------------------------------------------
(* review, rejecting: nothing is taken.                                    *)
LEMMA RejectDeals ==
  ASSUME Inv, NEW y, y = YearOf[today], NEW t \in Tx, NEW r \in Request, Reject(t, r)
  PROVE  \E w : Decide(t, w) /\ Deals(w, y)
<1>1. PICK v, w : v = Becomes(r, "rejected", y) /\ w = Writes(Only(r, v), {}, FALSE, <<>>)
  OBVIOUS
<1>2. Decide(t, w) /\ request[r].status = "pending"
  BY <1>1 DEF Reject
<1>3. DOMAIN w.requests = {r} /\ w.requests[r] = v /\ w.rows = {}
  BY <1>1 DEF Writes, Only
<1>4. Frees(w, y)
  BY <1>1, <1>2, <1>3 DEF Frees
<1> QED BY <1>2, <1>3, <1>4, FS_EmptySet DEF Deals

(* The refunds of some requests take nothing, and are finitely many.       *)
LEMMA Refunds ==
  ASSUME Inv, NEW y, y = YearOf[today], MoneyIn(y), NEW S, S \subseteq Submitted,
         NEW rows, rows = {Refund(r) : r \in S}
  PROVE  /\ IsFiniteSet(rows)
         /\ \A row \in rows : row.amount \in Int /\ row.amount >= 0 /\ row.year = y
<1>1. IsFiniteSet(rows)
  <2> DEFINE f == [r \in S |-> Refund(r)]
  <2>1. f \in Surjection(S, rows)
    BY DEF Surjection
  <2>2. IsFiniteSet(S)
    BY FS_Subset DEF MoneyIn
  <2> HIDE DEF f
  <2> QED BY <2>1, <2>2, FS_Surjection
<1>2. \A row \in rows : row.amount \in Int /\ row.amount >= 0 /\ row.year = y
  <2> TAKE row \in rows
  <2>1. PICK r \in S : row = Refund(r)
    OBVIOUS
  <2>2. row.amount = request[r].deduction
    BY <2>1, RefundRow
  <2>3. request[r].deduction \in Nat
    BY RequestType DEF Submitted, Inv
  <2>4. row.year = y
    BY <2>1 DEF Refund, Row
  <2> QED BY <2>2, <2>3, <2>4
<1> QED BY <1>1, <1>2

(* cancel, and the side effect of removal: what was taken is given back.   *)
LEMMA CancelDeals ==
  ASSUME Inv, NEW y, y = YearOf[today], MoneyIn(y), NEW t \in Tx, NEW r \in Request, Cancel(t, r)
  PROVE  \E w : Decide(t, w) /\ Deals(w, y)
<1>1. PICK v, S : v = Cancelled(r) /\ S = {q \in {r} : request[q].status = "approved"}
  OBVIOUS
<1>2. PICK rows : rows = {Refund(q) : q \in S}
  OBVIOUS
<1>3. PICK w : w = Writes(Only(r, v), rows, FALSE, <<>>)
  OBVIOUS
<1>4. Decide(t, w) /\ Live(r)
  BY <1>1, <1>2, <1>3 DEF Cancel
<1>5. DOMAIN w.requests = {r} /\ w.requests[r] = v /\ w.rows = rows
  BY <1>3 DEF Writes, Only
<1>6. S \subseteq Submitted
  BY <1>1 DEF Submitted
<1>7. /\ IsFiniteSet(rows)
      /\ \A row \in rows : row.amount \in Int /\ row.amount >= 0 /\ row.year = y
  BY <1>2, <1>6, Refunds
<1>8. Frees(w, y)
  BY <1>1, <1>4, <1>5, <1>7 DEF Frees
<1> QED BY <1>4, <1>5, <1>7, <1>8 DEF Deals

(* remove: all that was taken for leave ahead is given back.               *)
LEMMA RemoveDeals ==
  ASSUME Inv, NEW y, y = YearOf[today], MoneyIn(y), NEW t \in Tx, Remove(t)
  PROVE  \E w : Decide(t, w) /\ Deals(w, y)
<1>1. PICK S : S = {q \in Request : Ahead(q) /\ request[q].status = "approved"}
  OBVIOUS
<1>2. PICK rows : rows = {Refund(r) : r \in S}
  OBVIOUS
<1>3. PICK w : w = Writes([r \in {q \in Request : Ahead(q)} |-> Cancelled(r)], rows, TRUE, <<>>)
  OBVIOUS
<1>4. Decide(t, w)
  BY <1>1, <1>2, <1>3 DEF Remove
<1>5. /\ DOMAIN w.requests = {q \in Request : Ahead(q)}
      /\ \A r \in DOMAIN w.requests : w.requests[r] = Cancelled(r)
      /\ w.rows = rows
  BY <1>3 DEF Writes
<1>6. S \subseteq Submitted
  BY <1>1 DEF Submitted
<1>7. /\ IsFiniteSet(rows)
      /\ \A row \in rows : row.amount \in Int /\ row.amount >= 0 /\ row.year = y
  BY <1>2, <1>6, Refunds
<1>8. \A r \in DOMAIN w.requests : Live(r) /\ w.requests[r] = Cancelled(r)
  BY <1>5 DEF Ahead, Live
<1>9. Frees(w, y)
  BY <1>5, <1>7, <1>8 DEF Frees
<1> QED BY <1>4, <1>5, <1>7, <1>9 DEF Deals

(* updateFinancials writes no money.                                       *)
LEMMA UpdateDeals ==
  ASSUME NEW y, NEW t \in Tx, NEW terms \in Terms, UpdateFinancials(t, terms)
  PROVE  \E w : Decide(t, w) /\ Deals(w, y)
<1>1. PICK w : w = Writes(<<>>, {}, FALSE, <<[from |-> today, terms |-> terms]>>)
  OBVIOUS
<1>2. Decide(t, w)
  BY <1>1 DEF UpdateFinancials
<1>3. w.requests = <<>> /\ w.rows = {}
  BY <1>1 DEF Writes
<1>4. DOMAIN w.requests = {}
  BY <1>3
<1>5. Frees(w, y)
  BY <1>3, <1>4 DEF Frees
<1> QED BY <1>2, <1>3, <1>5, FS_EmptySet DEF Deals

(* A month's credit is never negative.                                     *)
LEMMA CreditType ==
  ASSUME Inv, NEW m, Effective(m) # {}
  PROVE  MonthlyCredit(m) \in Nat
<1>1. PICK E, k : E = Effective(m) /\ k = Max(E)
  OBVIOUS
<1>2. snapshots \in Snapshots /\ DOMAIN snapshots = 1 .. Len(snapshots) /\ Len(snapshots) \in Nat
  BY DEF Inv, TypeOK, Snapshots
<1>3. E \subseteq DOMAIN snapshots
  BY <1>1 DEF Effective
<1>4. k \in DOMAIN snapshots
  <2>1. IsFiniteSet(E) /\ E \subseteq Int /\ E # {}
    <3>1. IsFiniteSet(1 .. Len(snapshots))
      BY <1>2, FS_Interval
    <3>2. IsFiniteSet(E)
      BY <1>2, <1>3, <3>1, FS_Subset
    <3> QED BY <1>1, <1>2, <1>3, <3>2
  <2> QED BY <1>1, <1>3, <2>1, Greatest
<1>5. PICK full : full = snapshots[k].terms.monthlyCredit
  OBVIOUS
<1>6. full \in Nat
  <2>1. PICK S : S = [from : Day, terms : Terms]
    OBVIOUS
  <2>2. snapshots \in Seq(S)
    BY <1>2, <2>1 DEF Snapshots
  <2>3. snapshots[k] \in S
    BY <1>4, <2>2, ElementOfSeq
  <2>4. snapshots[k].terms \in Settings
    BY <2>1, <2>3, TermsAssumption
  <2> QED BY <1>5, <2>4 DEF Settings
<1>7. ASSUME NEW D, D \subseteq DaysOf(m) PROVE Working(D) \in Nat
  <2>1. IsFiniteSet(Day)
    BY CalendarAssumption, FS_Interval DEF Day
  <2>2. D \ Weekend \subseteq Day
    BY <1>7 DEF DaysOf
  <2> QED BY <2>1, <2>2, FS_Subset, FS_CardinalityType DEF Working
<1>8. PICK from, workdays, left : /\ from = snapshots[1].from /\ workdays = Working(DaysOf(m))
                                  /\ left = Working({d \in DaysOf(m) : from <= d})
  OBVIOUS
<1>9. workdays \in Nat /\ left \in Nat
  BY <1>7, <1>8
<1>10. MonthlyCredit(m) = IF MonthOf[from] # m THEN full
                          ELSE IF workdays = 0 THEN 0 ELSE Round(full * left, workdays)
  BY <1>1, <1>5, <1>8 DEF MonthlyCredit
<1>11. ASSUME workdays # 0 PROVE Round(full * left, workdays) \in Nat
  <2>1. PICK n, d : n = 2 * (full * left) + workdays /\ d = 2 * workdays
    OBVIOUS
  <2>2. full * left \in Nat
    BY <1>6, <1>9
  <2>3. n \in Nat /\ d \in Nat \ {0}
    BY <1>9, <1>11, <2>1, <2>2
  <2>4. n \div d \in Nat
    BY <2>3
  <2> QED BY <2>1, <2>4 DEF Round
<1> QED BY <1>6, <1>10, <1>11

(* runAccrual only adds.                                                   *)
LEMMA AccrualDeals ==
  ASSUME Inv, NEW y, y = YearOf[today], NEW t \in Tx, NEW m \in Month, RunAccrual(t, m)
  PROVE  \E w : Decide(t, w) /\ Deals(w, y)
<1>1. PICK amount, row : amount = MonthlyCredit(m) /\ row = Row("credit", m, amount)
  OBVIOUS
<1>2. PICK w : w = Writes(<<>>, {row}, FALSE, <<>>)
  OBVIOUS
<1>3. Decide(t, w) /\ Effective(m) # {}
  BY <1>1, <1>2 DEF RunAccrual
<1>4. amount \in Nat
  BY <1>1, <1>3, CreditType
<1>5. row.amount = amount /\ row.year = y
  BY <1>1 DEF Row
<1>6. w.requests = <<>> /\ w.rows = {row}
  BY <1>2 DEF Writes
<1>7. DOMAIN w.requests = {}
  BY <1>6
<1>8. Frees(w, y)
  BY <1>4, <1>5, <1>6, <1>7 DEF Frees
<1>9. IsFiniteSet(w.rows)
  BY <1>6, FS_Singleton
<1>10. \A x \in w.rows : x.amount \in Int /\ x.year = y
  BY <1>4, <1>5, <1>6
<1>11. Deals(w, y)
  BY <1>8, <1>9, <1>10 DEF Deals
<1> QED BY <1>3, <1>11

-----------------------------------------------------------------------------
(* A decision changes no table.                                            *)
LEMMA DecideMoney ==
  ASSUME Inv, Money, NEW t \in Tx, NEW w, Decide(t, w),
         \A y \in Year : y = YearOf[today] => Deals(w, y)
  PROVE  Money'
<1> SUFFICES ASSUME NEW y \in Year, y = YearOf[today']
             PROVE  MoneyIn(y)' /\ \A s \in Tx : tx'[s].open => Deals(tx[s], y)'
  BY DEF Money, Year
<1>1. UNCHANGED <<today, snapshots, request, ledger>> /\ y = YearOf[today]
  BY DEF Decide
<1>2. MoneyIn(y) /\ (\A s \in Tx : tx[s].open => Deals(tx[s], y)) /\ Deals(w, y)
  BY <1>1 DEF Money
<1>3. MoneyIn(y)'
  BY <1>1, <1>2, SameMoney
<1>4. tx'[t] = w /\ \A s \in Tx : s # t => tx'[s] = tx[s]
  BY DEF Decide, Inv
<1>5. ASSUME NEW s \in Tx, tx'[s].open PROVE Deals(tx[s], y)'
  <2>1. PICK v : tx'[s] = v /\ Deals(v, y)
    BY <1>2, <1>4, <1>5
  <2> QED BY <1>1, <1>2, <2>1, DealsKept
<1> QED BY <1>3, <1>5

(* Each operation decides soundly.                                         *)
LEMMA OperationMoney ==
  ASSUME Inv, Money, NEW t \in Tx,
         \/ \E r \in Request : \/ \E p \in DatePairs : Submit(t, r, p[1], p[2])
                               \/ Review(t, r)
                               \/ Cancel(t, r)
         \/ Remove(t)
         \/ \E terms \in Terms : UpdateFinancials(t, terms)
         \/ \E m \in Month : RunAccrual(t, m)
  PROVE  Money'
<1>1. PICK y \in Year : y = YearOf[today]
  BY YearType DEF Inv, TypeOK
<1>2. MoneyIn(y)
  BY <1>1 DEF Money
<1>3. \E w : Decide(t, w) /\ Deals(w, y)
  <2>1. ASSUME NEW r \in Request, NEW p \in DatePairs, Submit(t, r, p[1], p[2])
        PROVE  \E w : Decide(t, w) /\ Deals(w, y)
    BY <1>1, <1>2, <2>1, PairType, SubmitDeals
  <2>2. ASSUME NEW r \in Request, Review(t, r)
        PROVE  \E w : Decide(t, w) /\ Deals(w, y)
    BY <1>1, <1>2, <2>2, ApproveDeals, RejectDeals DEF Review
  <2>3. ASSUME NEW r \in Request, Cancel(t, r)
        PROVE  \E w : Decide(t, w) /\ Deals(w, y)
    BY <1>1, <1>2, <2>3, CancelDeals
  <2>4. ASSUME Remove(t) PROVE \E w : Decide(t, w) /\ Deals(w, y)
    BY <1>1, <1>2, <2>4, RemoveDeals
  <2>5. ASSUME NEW terms \in Terms, UpdateFinancials(t, terms)
        PROVE  \E w : Decide(t, w) /\ Deals(w, y)
    BY <2>5, UpdateDeals
  <2>6. ASSUME NEW m \in Month, RunAccrual(t, m)
        PROVE  \E w : Decide(t, w) /\ Deals(w, y)
    BY <1>1, <2>6, AccrualDeals
  <2> QED BY <2>1, <2>2, <2>3, <2>4, <2>5, <2>6
<1> QED BY <1>1, <1>3, DecideMoney

(* A commit keeps the accounts sound.                                      *)
LEMMA CommitMoney ==
  ASSUME Inv, Inv', Money, NEW t \in Tx, Commit(t)
  PROVE  Money'
<1> SUFFICES ASSUME NEW y \in Year, y = YearOf[today']
             PROVE  MoneyIn(y)' /\ \A s \in Tx : tx'[s].open => Deals(tx[s], y)'
  BY DEF Money, Year
<1>1. PICK w : w = tx[t]
  OBVIOUS
<1>2. Planned(w) /\ Carries(w) /\ y = YearOf[today]
  BY <1>1 DEF Commit, Inv, Carries
<1>3. MoneyIn(y) /\ Deals(w, y)
  BY <1>1, <1>2 DEF Money, Commit
<1>4. Booked(ledger') /\ RowsDated(y)' /\ IsFiniteSet(Submitted') /\ Fresh(y)' /\ Priced'
  BY <1>2, <1>3, CommitBooks
<1>5. Committing(w, y)
  BY <1>2, <1>3, <1>4 DEF Committing, Deals
<1>6. NeverOverdrawn' /\ (OwnYears' => Covered(y)')
  BY <1>3, <1>5, AskedFor, GrantedFor, FreedFor DEF Deals
<1>7. MoneyIn(y)'
  BY <1>4, <1>6 DEF MoneyIn
<1>8. \A s \in Tx : tx'[s].open = FALSE
  BY Closing DEF Commit
<1> QED BY <1>7, <1>8

(* Rollback, restoring and the passing of days touch no account.           *)
LEMMA IdleMoney ==
  ASSUME Inv, Money,
         \/ \E t \in Tx : Rollback(t)
         \/ Restore
         \/ Tomorrow
         \/ UNCHANGED vars
  PROVE  Money'
<1> SUFFICES ASSUME NEW y \in Year, y = YearOf[today']
             PROVE  MoneyIn(y)' /\ \A s \in Tx : tx'[s].open => Deals(tx[s], y)'
  BY DEF Money, Year
<1>1. UNCHANGED <<snapshots, request, ledger>>
  BY DEF Rollback, Restore, Tomorrow, vars
<1>2. PICK x \in Year : x = YearOf[today]
  BY YearType DEF Inv, TypeOK
<1>3. MoneyIn(x) /\ \A s \in Tx : tx[s].open => Deals(tx[s], x)
  BY <1>2 DEF Money
<1>4. CASE Tomorrow
  <2>1. today \in Day /\ today' \in Day /\ today <= today'
    BY <1>4, CalendarAssumption DEF Tomorrow, Inv, TypeOK, Day
  <2>2. x <= y
    BY <1>2, <2>1, CalendarAssumption
  <2>3. MoneyIn(y)
    BY <1>3, <2>2, LaterYear
  <2>4. MoneyIn(y)'
    BY <1>1, <2>3, SameMoney
  <2>5. \A s \in Tx : ~tx'[s].open
    BY <1>4 DEF Tomorrow
  <2> QED BY <2>4, <2>5
<1>5. CASE today' = today /\ \A s \in Tx : tx'[s].open => tx'[s] = tx[s]
  <2>1. x = y
    BY <1>2, <1>5
  <2>2. MoneyIn(y)'
    BY <1>1, <1>3, <2>1, SameMoney
  <2>3. ASSUME NEW s \in Tx, tx'[s].open PROVE Deals(tx[s], y)'
    <3>1. PICK w : w = tx[s] /\ w = tx'[s] /\ Deals(w, y)
      BY <1>3, <1>5, <2>1, <2>3
    <3> QED BY <1>1, <1>3, <1>5, <2>1, <3>1, DealsKept
  <2> QED BY <2>2, <2>3
<1>6. ASSUME NEW t \in Tx, Rollback(t) PROVE today' = today /\ \A s \in Tx : tx'[s].open => tx'[s] = tx[s]
  BY <1>6, Closing DEF Rollback
<1>7. Restore \/ UNCHANGED vars => today' = today /\ tx' = tx
  BY DEF Restore, vars
<1> QED BY <1>4, <1>5, <1>6, <1>7

(* Every step keeps them sound.                                            *)
LEMMA NextMoney == Inv /\ Inv' /\ Money /\ [Next]_vars => Money'
<1> SUFFICES ASSUME Inv, Inv', Money, [Next]_vars PROVE Money'
  OBVIOUS
<1>1. ASSUME NEW t \in Tx, Commit(t) PROVE Money'
  BY <1>1, CommitMoney
<1> QED BY <1>1, OperationMoney, IdleMoney DEF Next

(* Empty accounts are sound.                                               *)
LEMMA InitMoney == Init => Money
<1> SUFFICES ASSUME Init, NEW y \in Year
             PROVE  MoneyIn(y) /\ \A t \in Tx : ~tx[t].open
  BY DEF Money
<1>1. Inv
  BY InitInv
<1>2. BagToSet(ledger) = {} /\ IsABag(ledger)
  BY DEF Init, EmptyBag, SetToBag, BagToSet, IsABag
<1>3. Submitted = {}
  BY DEF Init, Submitted, NotSubmitted, Asked
<1>4. IsFiniteSet(Submitted) /\ IsFiniteSet(BagToSet(ledger))
  BY <1>2, <1>3, FS_EmptySet
<1>5. TwiceRounding \in Nat
  BY <1>1, <1>4, RoundingType DEF Inv
<1>6. \A f : Total(f, {}) = 0
  BY FS_EmptySet, TotalPick
<1>7. \A z : RowsOf(z) = {} /\ Of("pending", z) = {}
  BY <1>2, <1>3 DEF RowsOf, Of, Submitted
<1>8. ASSUME NEW z PROVE Reserve(z) = 0 /\ PendingHold(z) = 0
  <2>1. Reserve(z) = Total(Worth(ledger), {})
    BY <1>4, <1>7, ReserveIsTotal
  <2>2. PendingHold(z) = Total(Deductions(request), {})
    BY <1>7, FS_EmptySet, HoldIsTotal
  <2> QED BY <1>6, <2>1, <2>2
<1>9. NeverOverdrawn /\ Covered(y)
  BY <1>5, <1>8 DEF NeverOverdrawn, Covered
<1>10. Booked(ledger) /\ RowsDated(y)
  BY <1>2, <1>4 DEF Booked, RowsDated
<1>11. Fresh(y) /\ Priced
  BY <1>3 DEF Fresh, Priced, Submitted
<1> QED BY <1>4, <1>9, <1>10, <1>11 DEF MoneyIn, Init, Closed

(* They always are, and that is what the properties say.                   *)
LEMMA AlwaysMoney == Spec => [](Inv /\ Money)
BY InitMoney, NextMoney, Invariant, PTL DEF Spec

LEMMA MoneyTells == Inv /\ Money => NeverOverdrawn /\ HoldsCovered
<1> SUFFICES ASSUME Inv, Money PROVE NeverOverdrawn /\ HoldsCovered
  OBVIOUS
<1>1. PICK y \in Year : y = YearOf[today]
  BY YearType DEF Inv, TypeOK
<1>2. MoneyIn(y)
  BY <1>1 DEF Money
<1> QED BY <1>1, <1>2 DEF MoneyIn, OwnYears, Covered, HoldsCovered

(* No year's reserve is spent below zero by more than the rounding of one  *)
(* request, whoever approves what and in whichever order, while salaries   *)
(* only rise.                                                              *)
THEOREM NoYearOverdrawn == Spec => []NeverOverdrawn
BY AlwaysMoney, MoneyTells, PTL

(* Within a year the reserve covers all that is held for pending requests. *)
THEOREM AllHoldsCovered == Spec => []HoldsCovered
BY AlwaysMoney, MoneyTells, PTL
=============================================================================
