--------------------------- MODULE VacationLedger ---------------------------
(***************************************************************************)
(* The vacation reserve of one member: VacationRequestsService (submit,    *)
(* review, cancel, and the side effect of removal), updateFinancials and   *)
(* AccrualService.runAccrual.                                              *)
(*                                                                         *)
(* Every operation is one READ COMMITTED transaction that first locks the  *)
(* Organization row, so it reads and decides in one step here and writes   *)
(* what it decided in another; other transactions run between the two      *)
(* unless the lock stops them.  The reserve has no field of its own: it is *)
(* the sum of the ledger's rows stamped with the current calendar year.    *)
(*                                                                         *)
(* Money is in cents.  The calendar is any division of days into months    *)
(* and years that follow each other; no day passes while a transaction is  *)
(* open.  Roles decide only whether an operation is refused, never what it *)
(* writes: there is always a manager who may call, and who is not the      *)
(* member.                                                                 *)
(***************************************************************************)
EXTENDS Integers, FiniteSets, Sequences, Bags, FiniteSetsExt

CONSTANTS Request,   \* ids of vacation requests
          Tx,        \* the server's concurrent transactions
          LastDay,   \* bound on the calendar
          YearOf,    \* the calendar year of a day
          MonthOf,   \* the calendar month of a day, numbered across years
          Weekend,   \* Saturdays and Sundays
          DatePairs, \* the (startDate, endDate) pairs members send
          Terms,     \* the financial settings managers save
          MaxTerms   \* bound on the number of saves

Day == 0 .. LastDay
Settings == [monthlySalary : Nat \ {0}, monthlyCredit : Nat, daysPerYear : Nat \ {0}]

ASSUME CalendarAssumption ==
  /\ LastDay \in Nat
  /\ YearOf \in [Day -> Nat]
  /\ MonthOf \in [Day -> Nat]
  /\ \A d, e \in Day : d <= e => YearOf[d] <= YearOf[e] /\ MonthOf[d] <= MonthOf[e]
  /\ DatePairs \subseteq Day \X Day
ASSUME TermsAssumption == Terms \subseteq Settings /\ MaxTerms \in Nat

VARIABLES
  today,
  member,     \* Membership.status
  snapshots,  \* MemberFinancialsSnapshot, oldest first; the last is MemberFinancials
  request,    \* VacationRequest
  ledger,     \* the bag of VacationReserveTransaction rows
  tx          \* what each open transaction has decided to write

vars == <<today, member, snapshots, request, ledger, tx>>

Year == {YearOf[d] : d \in Day}
Month == {MonthOf[d] : d \in Day}
NoYear == -1

(* The years are those of requestedAt and of reviewedAt.                   *)
Asked(status, first, last, deduction, requestedIn, reviewedIn) ==
  [status |-> status, first |-> first, last |-> last, deduction |-> deduction,
   requestedIn |-> requestedIn, reviewedIn |-> reviewedIn]

NotSubmitted == Asked("none", 0, 0, 0, NoYear, NoYear)

(* A ledger row: `of` is the request, or the month a credit pays for;      *)
(* `year` is the year of createdAt.                                        *)
Row(type, of, amount) == [type |-> type, of |-> of, amount |-> amount, year |-> YearOf[today]]

(* What a transaction writes: requests, ledger rows, a removal, settings.  *)
Writes(requests, rows, removes, terms) ==
  [open |-> TRUE, requests |-> requests, rows |-> rows, removes |-> removes, terms |-> terms]

Closed == [open |-> FALSE]

----------------------------------------------------------------------------
(* Math.round(n / d) for n >= 0.                                           *)
Round(n, d) == (2 * n + d) \div (2 * d)

Working(S) == Cardinality(S \ Weekend)
WorkingDays(r) == Working(request[r].first .. request[r].last)

(* The day rate is rounded to cents before it divides the reserve; the     *)
(* deduction is rounded once, at the end.                                  *)
DailySalary(salary) == Round(salary * 12, 260)
Deduction(days, salary) == Round(days * salary * 12, 260)

Configured == snapshots # <<>>
Financials == snapshots[Len(snapshots)].terms

(* sumCurrentYear.                                                         *)
RowsOf(y) == {row \in BagToSet(ledger) : row.year = y}
Reserve(y) == MapThenSumSet(LAMBDA row : row.amount * ledger[row], RowsOf(y))

(* The requests a new one must not overlap.                                *)
Live(r) == request[r].status \in {"pending", "approved"}

Of(status, y) == {r \in Request : request[r].status = status /\ YearOf[request[r].first] = y}
UsedDays(y) == MapThenSumSet(WorkingDays, Of("approved", y))
PendingHold(y) == MapThenSumSet(LAMBDA r : request[r].deduction, Of("pending", y))

(* The whole days `reserve` pays for at today's salary, within what the    *)
(* current year's approved requests leave of the allowance.                *)
Affordable(reserve) ==
  LET daily == DailySalary(Financials.monthlySalary)
      byReserve == IF daily = 0 THEN 0 ELSE reserve \div daily
  IN  Min({byReserve, Financials.daysPerYear - UsedDays(YearOf[today])})

(* Mutant of AvailableToSubmit: spec 08's formula, from before the holds.  *)
WithoutHold == Max({0, Affordable(Reserve(YearOf[today]))})

(* calculateAvailableDays on submission, and review's own formula.         *)
AvailableToSubmit == Max({0, Affordable(Reserve(YearOf[today]) - PendingHold(YearOf[today]))})

(* Mutant of AvailableToApprove: the reserve was checked on submission.    *)
AlreadyChecked == Financials.daysPerYear - UsedDays(YearOf[today])

AvailableToApprove == Affordable(Reserve(YearOf[today]))

(* datesOverlap: inclusive ranges.                                         *)
Overlap(a, b, c, d) == a <= d /\ c <= b

(* validateVacationRequestDates.                                           *)
ValidDates(first, last) == today <= first /\ first <= last /\ YearOf[first] = YearOf[last]

(* Mutant of Effective: a late run credits at the settings of today.       *)
LiveSettings(m) == DOMAIN snapshots

(* The snapshots in force by the last day of month m.                      *)
DaysOf(m) == {d \in Day : MonthOf[d] = m}
Effective(m) == {i \in DOMAIN snapshots : \E d \in DaysOf(m) : snapshots[i].from <= d}

(* What runAccrual credits for month m, pro rata in the month the settings *)
(* were first saved.                                                       *)
MonthlyCredit(m) ==
  LET full == snapshots[Max(Effective(m))].terms.monthlyCredit
      from == snapshots[1].from
      workdays == Working(DaysOf(m))
  IN  IF MonthOf[from] # m THEN full
      ELSE IF workdays = 0 THEN 0
      ELSE Round(full * Working({d \in DaysOf(m) : from <= d}), workdays)

----------------------------------------------------------------------------
Init ==
  /\ today = 0
  /\ member = "active"
  /\ snapshots = <<>>
  /\ request = [r \in Request |-> NotSubmitted]
  /\ ledger = EmptyBag
  /\ tx = [t \in Tx |-> Closed]

(* Mutant of OrganizationFree: nothing is locked.                          *)
Unlocked == TRUE

(* SELECT id FROM "Organization" ... FOR UPDATE.                           *)
OrganizationFree == \A t \in Tx : ~tx[t].open

(* t has the lock, has read, and has decided what to write.                *)
Decide(t, w) ==
  /\ OrganizationFree
  /\ ~tx[t].open
  /\ tx' = [tx EXCEPT ![t] = w]
  /\ UNCHANGED <<today, member, snapshots, request, ledger>>

(* request r with another status, and perhaps a review.                    *)
Becomes(r, status, reviewedIn) ==
  Asked(status, request[r].first, request[r].last, request[r].deduction,
        request[r].requestedIn, reviewedIn)

(* Mutant of Debit: the days are priced again on approval.                 *)
DebitToday(r) == Row("debit", r, -Deduction(WorkingDays(r), Financials.monthlySalary))

(* The rows of an approval, for the amount frozen on submission, and of    *)
(* the refund that takes it back.                                          *)
Debit(r) == Row("debit", r, -request[r].deduction)
Refund(r) == Row("refund", r, request[r].deduction)

Only(r, value) == [q \in {r} |-> value]

Submit(t, r, first, last) ==
  LET days == Working(first .. last)
      deduction == Deduction(days, Financials.monthlySalary)
  IN  /\ request[r].status = "none"
      /\ member = "active"
      /\ Configured
      /\ ValidDates(first, last)
      /\ \A q \in Request : Live(q) => ~Overlap(first, last, request[q].first, request[q].last)
      /\ days <= AvailableToSubmit
      /\ Decide(t, Writes(Only(r, Asked("pending", first, last, deduction, YearOf[today], NoYear)),
                          {}, FALSE, <<>>))

Approve(t, r) ==
  /\ request[r].status = "pending"
  /\ Configured
  /\ WorkingDays(r) <= AvailableToApprove
  /\ Decide(t, Writes(Only(r, Becomes(r, "approved", YearOf[today])), {Debit(r)}, FALSE, <<>>))

Reject(t, r) ==
  /\ request[r].status = "pending"
  /\ Decide(t, Writes(Only(r, Becomes(r, "rejected", YearOf[today])), {}, FALSE, <<>>))

Cancelled(r) == Becomes(r, "cancelled", request[r].reviewedIn)

Cancel(t, r) ==
  /\ Live(r)
  /\ Decide(t, Writes(Only(r, Cancelled(r)),
                      {Refund(q) : q \in {q \in {r} : request[q].status = "approved"}},
                      FALSE, <<>>))

(* Mutant of Ahead: approved leave is left to the calendar.                *)
PendingOnly(r) == request[r].status = "pending"

(* What removal cancels: the pending, and the approved not yet begun.      *)
Ahead(r) ==
  \/ request[r].status = "pending"
  \/ request[r].status = "approved" /\ today <= request[r].first

(* MembersService.remove, with cancelActiveForRemoval on its transaction.  *)
Remove(t) ==
  /\ member = "active"
  /\ Decide(t, Writes([r \in {q \in Request : Ahead(q)} |-> Cancelled(r)],
                      {Refund(r) : r \in {q \in Request : Ahead(q) /\ request[q].status = "approved"}},
                      TRUE, <<>>))

(* MembersService.restore takes no lock.                                   *)
Restore ==
  /\ member = "removed"
  /\ member' = "active"
  /\ UNCHANGED <<today, snapshots, request, ledger, tx>>

(* The upsert of MemberFinancials and its snapshot, effective today.       *)
UpdateFinancials(t, terms) ==
  /\ member # "removed"
  /\ Len(snapshots) < MaxTerms
  /\ Decide(t, Writes(<<>>, {}, FALSE, <<[from |-> today, terms |-> terms]>>))

(* A credit for month m, past or current, unless there is one.             *)
RunAccrual(t, m) ==
  /\ m <= MonthOf[today]
  /\ member = "active"
  /\ Configured
  /\ ~\E row \in BagToSet(ledger) : row.type = "credit" /\ row.of = m
  /\ Effective(m) # {}
  /\ Decide(t, Writes(<<>>, {Row("credit", m, MonthlyCredit(m))}, FALSE, <<>>))

(* The writes, and the end of the transaction.                             *)
Commit(t) ==
  LET w == tx[t]
  IN  /\ w.open
      /\ request' = [r \in Request |-> IF r \in DOMAIN w.requests THEN w.requests[r] ELSE request[r]]
      /\ ledger' = ledger (+) SetToBag(w.rows)
      /\ member' = IF w.removes THEN "removed" ELSE member
      /\ snapshots' = snapshots \o w.terms
      /\ tx' = [tx EXCEPT ![t] = Closed]
      /\ UNCHANGED today

(* An error or a crash before the commit.                                  *)
Rollback(t) ==
  /\ tx[t].open
  /\ tx' = [tx EXCEPT ![t] = Closed]
  /\ UNCHANGED <<today, member, snapshots, request, ledger>>

Tomorrow ==
  /\ today < LastDay
  /\ \A t \in Tx : ~tx[t].open
  /\ today' = today + 1
  /\ UNCHANGED <<member, snapshots, request, ledger, tx>>

Review(t, r) == Approve(t, r) \/ Reject(t, r)

Next ==
  \/ \E t \in Tx, r \in Request :
       \/ \E p \in DatePairs : Submit(t, r, p[1], p[2])
       \/ Review(t, r)
       \/ Cancel(t, r)
  \/ \E t \in Tx :
       \/ Remove(t)
       \/ \E terms \in Terms : UpdateFinancials(t, terms)
       \/ \E m \in Month : RunAccrual(t, m)
       \/ Commit(t)
       \/ Rollback(t)
  \/ Restore
  \/ Tomorrow

Spec == Init /\ [][Next]_vars

----------------------------------------------------------------------------
(* The tables hold what schema.prisma says; a request submitted has its    *)
(* dates in order and in one calendar year.                                *)
Requests == [status : {"none", "pending", "approved", "rejected", "cancelled"},
             first : Day, last : Day, deduction : Nat,
             requestedIn : Year \cup {NoYear}, reviewedIn : Year \cup {NoYear}]

OneYear(r) == request[r].first <= request[r].last /\ YearOf[request[r].first] = YearOf[request[r].last]

TypeOK ==
  /\ today \in Day
  /\ member \in {"active", "removed"}
  /\ snapshots \in Seq([from : Day, terms : Terms])
  /\ request \in [Request -> Requests]
  /\ \A r \in Request : OneYear(r)
  /\ IsABag(ledger)

(* The ledger tells the story of every request: an approval left exactly   *)
(* one debit of the frozen amount, a cancelled approval exactly one refund *)
(* of the same amount, and nothing else touched the reserve; no month was  *)
(* credited twice.  Two reviewers, a review and a cancellation, or a       *)
(* removal and any of them may race for the same request.                  *)
RowsFor(type, of) == {row \in BagToSet(ledger) : row.type = type /\ row.of = of}

One(type, of, amount) ==
  \E row \in RowsFor(type, of) :
    RowsFor(type, of) = {row} /\ ledger[row] = 1 /\ row.amount = amount

Taken(r) == One("debit", r, -request[r].deduction)
Returned(r) == One("refund", r, request[r].deduction)
Untouched(r) == RowsFor("debit", r) = {} /\ RowsFor("refund", r) = {}

LedgerBalanced ==
  /\ \A r \in Request :
       /\ request[r].status = "approved" => Taken(r) /\ RowsFor("refund", r) = {}
       /\ request[r].status = "cancelled" => Untouched(r) \/ (Taken(r) /\ Returned(r))
       /\ request[r].status \in {"none", "pending", "rejected"} => Untouched(r)
  /\ \A m \in Month : \A row \in RowsFor("credit", m) : One("credit", m, row.amount)

(* A member is never on two leaves on one day.                             *)
NoOverlap ==
  \A q, r \in Request :
    q # r /\ Live(q) /\ Live(r) =>
      ~Overlap(request[q].first, request[q].last, request[r].first, request[r].last)

(* A removed member has no leave ahead: nothing to review, and nothing     *)
(* approved but leave that had begun before the removal.                   *)
RemovedHasNoLeave ==
  member = "removed" =>
    \A r \in Request :
      /\ request[r].status # "pending"
      /\ request[r].status = "approved" => request[r].first < today

----------------------------------------------------------------------------
(* The settings only ever rose: without this a frozen deduction may cost   *)
(* more than the days it was checked as.                                   *)
NeverCut ==
  \A i, j \in DOMAIN snapshots :
    i < j => /\ snapshots[i].terms.monthlySalary <= snapshots[j].terms.monthlySalary
             /\ snapshots[i].terms.daysPerYear <= snapshots[j].terms.daysPerYear

(* Twice the cents by which one deduction may exceed the days it was       *)
(* checked as: each day's rate loses at most half a cent, and the          *)
(* deduction itself gains at most half a cent.                             *)
TwiceRounding == Max({0} \cup {WorkingDays(r) + 1 : r \in {q \in Request : request[q].status # "none"}})

(* A year's reserve is never spent below zero by more than the rounding of *)
(* one request, whoever approves what and in whichever order, as long as   *)
(* salaries only rise.                                                     *)
NeverOverdrawn == NeverCut => \A y \in Year : 2 * Reserve(y) >= -TwiceRounding

(* Asked for, and decided, in the year of the leave itself.                *)
InItsOwnYear(r) ==
  request[r].status # "none" =>
    /\ request[r].requestedIn = YearOf[request[r].first]
    /\ request[r].reviewedIn \in {NoYear, YearOf[request[r].first]}

(* The money of a pending request is not promised twice: within a year the *)
(* reserve covers all that is held, so every pending request can still be  *)
(* paid for, as long as leave is asked for and decided in its own year;    *)
(* whatever happens to salaries, for the deduction is frozen.              *)
HoldsCovered ==
  (\A r \in Request : InItsOwnYear(r)) =>
    2 * (Reserve(YearOf[today]) - PendingHold(YearOf[today])) >= -TwiceRounding

(* What a month is worth does not depend on when its accrual runs, once    *)
(* the month is over: no later change of settings reaches back to it.      *)
CreditOf(m) == IF Effective(m) = {} THEN {} ELSE {MonthlyCredit(m)}

MonthSettled == [][\A m \in Month : (m < MonthOf[today]) => (CreditOf(m)' = CreditOf(m))]_vars
=============================================================================
