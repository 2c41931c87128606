-------------------------- MODULE Requests_proofs ---------------------------
(***************************************************************************)
(* However calls cross, what is locked is what was read.  From that: each  *)
(* request keeps to its life, the numbers have no gap, and the notifier is *)
(* given nothing that is not recorded.  From those, by induction over the  *)
(* events of a history: it tells how the request stands, and the parties   *)
(* to it were told.                                                        *)
(***************************************************************************)
EXTENDS Requests, FiniteSetTheorems, WellFoundedInduction, TLAPS

(* What a call that makes a request holds and has read.                    *)
Creating(p) ==
  LET c == call[p] IN
  /\ c.act = "create" /\ c.req = p /\ c.who \in Member /\ c.to \in Person
  /\ orgLock = p /\ c.seen \in Row /\ c.seen.number = next

(* What a call on a request holds and has read.                            *)
Changing(p) ==
  LET c == call[p] IN
  /\ c.act \in Act /\ c.req \in Req /\ c.who \in Person /\ c.to \in Member
  /\ lock[c.req] = p /\ c.seen = row[c.req] /\ row[c.req].status # "none"

Held == \A p \in Process : call[p].pc = "locked" => Creating(p) \/ Changing(p)

(* A request that was made has its parties, one that was not is blank.     *)
Parties ==
  \A r \in Req :
    IF row[r].status = "none"
    THEN row[r].by = None /\ row[r].to = None /\ row[r].closer = None
    ELSE row[r].by \in Member /\ row[r].to \in Person

(* A call makes a request once.                                            *)
NotYet == \A p \in Process : call[p].pc \in {"idle", "locked"} => row[p].status = "none"

(* A call tells of what is recorded, and of one at a time.                 *)
Recorded ==
  /\ GivenIsRecorded
  /\ \A p \in Process :
       /\ call[p].todo \subseteq outbox
       /\ call[p].pc \in {"calling", "accepted", "refused"} =>
            call[p].note \in call[p].todo \cap attempted

Numbered == next \in Nat \ {0} /\ NumbersDense

Inv == TypeOK /\ Held /\ Parties /\ NotYet /\ Recorded /\ Numbered

----------------------------------------------------------------------------

LEMMA InitInv == Init => Inv
<1> SUFFICES ASSUME Init PROVE Inv
  OBVIOUS
<1> DEFINE N == Cardinality(Old)
<1>n. N \in Nat
  BY IdAssumption, FS_CardinalityType
<1>1. PICK n \in Bijection(Old, 1 .. N), by \in [Old -> Member], to \in [Old -> Person] :
        /\ row = [r \in Req |->
                   IF r \in Old
                   THEN [status |-> "open", number |-> n[r], by |-> by[r], to |-> to[r], closer |-> None]
                   ELSE [status |-> "none", number |-> 0, by |-> None, to |-> None, closer |-> None]]
        /\ trail = [r \in Req |->
                     IF r \in Old THEN <<Event("created", by[r], to[r])>> ELSE <<>>]
        /\ outbox = UNION {{<<r, 1, x>> : x \in Recipients(by[r], to[r], by[r])} : r \in Old}
  BY DEF Init
<1>2. /\ next = N + 1
      /\ orgLock = None /\ lock = [r \in Req |-> None]
      /\ call = [p \in Process |-> Idle]
      /\ attempted = outbox /\ handled = outbox /\ given = outbox
      /\ left = {}
  BY DEF Init
<1> HIDE DEF N
<1>3. /\ n \in [Old -> 1 .. N]
      /\ \A q, r \in Old : q # r => n[q] # n[r]
      /\ \A i \in 1 .. N : \E r \in Old : n[r] = i
  BY <1>1 DEF Bijection, Injection, Surjection, IsInjective
<1>4. \A r \in Old : n[r] \in Nat
  BY <1>3, <1>n
<1>5. \A r \in Req : row[r] \in Row
  BY <1>1, <1>4 DEF Row, Person, Terminal
<1>6. \A r \in Old : Event("created", by[r], to[r]) \in Entry
  BY <1>1 DEF Event, Entry, Person
<1>7. trail \in [Req -> Seq(Entry)]
  BY <1>1, <1>6
<1>8. outbox \subseteq Note
  BY <1>1 DEF Note, Recipients, Req, Person
<1>9. Idle \in Call
  BY DEF Idle, Call
<1>10. TypeOK
  BY <1>n, <1>1, <1>2, <1>5, <1>7, <1>8, <1>9 DEF TypeOK
<1>11. Held /\ Parties /\ NotYet
  BY <1>1, <1>2, IdAssumption DEF Held, Parties, NotYet, Idle, Req, Person
<1>12. Recorded
  BY <1>2 DEF Recorded, GivenIsRecorded, Idle
<1>13. {r \in Req : row[r].status # "none"} = Old
  BY <1>1 DEF Req
<1>14. \A r \in Old : row[r].number = n[r]
  BY <1>1 DEF Req
<1>15. {row[r].number : r \in Old} = 1 .. next - 1
  <2>1. next - 1 = N
    BY <1>2, <1>n
  <2> QED BY <1>3, <1>14, <2>1
<1>16. Numbered
  BY <1>n, <1>2, <1>3, <1>13, <1>14, <1>15 DEF Numbered, NumbersDense
<1> QED BY <1>10, <1>11, <1>12, <1>16 DEF Inv

----------------------------------------------------------------------------
(* Calls that only lock and read, or only let go.                          *)

LEMMA BeginCreateInv ==
  ASSUME Inv, NEW p \in Process, BeginCreate(p) PROVE Inv'
<1>1. PICK who \in Member, to \in Person :
        call' = [call EXCEPT ![p] = Asks("create", who, p, to, [row[p] EXCEPT !.number = next])]
  BY DEF BeginCreate
<1>2. /\ call[p].pc = "idle" /\ orgLock = None /\ orgLock' = p
      /\ UNCHANGED <<row, next, trail, lock, outbox, attempted, handled, given, left>>
  BY DEF BeginCreate, notes
<1>t. TypeOK /\ Held /\ Parties /\ NotYet /\ Recorded /\ Numbered
  BY DEF Inv
<1>3. PICK s : s = [row[p] EXCEPT !.number = next]
  OBVIOUS
<1>4. s \in Row /\ s.number = next
  <2>1. row[p] \in Row /\ next \in Nat
    BY <1>t DEF TypeOK, Req
  <2> QED BY <1>3, <2>1 DEF Row
<1>5. PICK c : c = Asks("create", who, p, to, s)
  OBVIOUS
<1>6. /\ c \in Call /\ c.pc = "locked" /\ c.act = "create" /\ c.req = p
      /\ c.who = who /\ c.to = to /\ c.seen = s /\ c.todo = {}
  BY <1>4, <1>5 DEF Asks, Idle, Call, Req, Person
<1>7. /\ call' \in [Process -> Call] /\ call'[p] = c
      /\ \A q \in Process \ {p} : call'[q] = call[q]
  BY <1>1, <1>3, <1>5, <1>6, <1>t DEF TypeOK
<1>8. TypeOK'
  BY <1>2, <1>7, <1>t DEF TypeOK
<1>9. Held'
  <2> SUFFICES ASSUME NEW q \in Process, call'[q].pc = "locked"
               PROVE  Creating(q)' \/ Changing(q)'
    BY DEF Held
  <2>1. CASE q = p
    BY <2>1, <1>2, <1>4, <1>6, <1>7 DEF Creating
  <2>2. CASE q # p
    BY <2>2, <1>2, <1>7, <1>t, IdAssumption DEF Held, Creating, Changing
  <2> QED BY <2>1, <2>2
<1>10. Parties' /\ NotYet'
  BY <1>2, <1>6, <1>7, <1>t DEF Parties, NotYet
<1>11. Recorded'
  BY <1>2, <1>6, <1>7, <1>t DEF Recorded, GivenIsRecorded
<1>12. Numbered'
  BY <1>2, <1>t DEF Numbered, NumbersDense
<1> QED BY <1>8, <1>9, <1>10, <1>11, <1>12 DEF Inv

LEMMA BeginInv ==
  ASSUME Inv, NEW p \in Process, Begin(p) PROVE Inv'
<1>t. TypeOK /\ Held /\ Parties /\ NotYet /\ Recorded /\ Numbered
  BY DEF Inv
<1>1. PICK r \in Req, who \in Person, act \in Act, to \in Member :
        /\ row[r].status # "none" /\ lock[r] = None
        /\ act # "reassign" => to = row[r].by
        /\ who \in Client => act \in {"answer", "grant", "decline", "message"}
        /\ lock' = [lock EXCEPT ![r] = p]
        /\ call' = [call EXCEPT ![p] = Asks(act, who, r, to, row[r])]
  BY DEF Begin
<1>2. /\ call[p].pc = "idle"
      /\ UNCHANGED <<row, next, trail, orgLock, outbox, attempted, handled, given, left>>
  BY DEF Begin, notes
<1>5. PICK c : c = Asks(act, who, r, to, row[r])
  OBVIOUS
<1>6. /\ c \in Call /\ c.pc = "locked" /\ c.act = act /\ c.req = r
      /\ c.who = who /\ c.to = to /\ c.seen = row[r] /\ c.todo = {}
  BY <1>5, <1>t DEF Asks, Idle, Call, Person, TypeOK
<1>7. /\ call' \in [Process -> Call] /\ call'[p] = c
      /\ \A q \in Process \ {p} : call'[q] = call[q]
  BY <1>1, <1>5, <1>6, <1>t DEF TypeOK
<1>s. /\ lock' \in [Req -> Process \cup {None}] /\ lock'[r] = p
      /\ \A q \in Req \ {r} : lock'[q] = lock[q]
  BY <1>1, <1>t DEF TypeOK
<1>8. TypeOK'
  BY <1>2, <1>7, <1>s, <1>t DEF TypeOK
<1>9. Held'
  <2> SUFFICES ASSUME NEW q \in Process, call'[q].pc = "locked"
               PROVE  Creating(q)' \/ Changing(q)'
    BY DEF Held
  <2>1. CASE q = p
    BY <2>1, <1>1, <1>2, <1>6, <1>7, <1>s DEF Changing
  <2>2. CASE q # p
    <3>1. call'[q] = call[q] /\ (Creating(q) \/ Changing(q))
      BY <2>2, <1>7, <1>t DEF Held
    <3>2. CASE Creating(q)
      BY <3>1, <3>2, <1>2 DEF Creating
    <3>3. CASE Changing(q)
      <4>1. call[q].req # r
        BY <3>3, <1>1, IdAssumption DEF Changing
      <4> QED BY <3>1, <3>3, <4>1, <1>2, <1>s DEF Changing
    <3> QED BY <3>1, <3>2, <3>3
  <2> QED BY <2>1, <2>2
<1>10. Parties' /\ NotYet'
  BY <1>2, <1>6, <1>7, <1>t DEF Parties, NotYet
<1>11. Recorded'
  BY <1>2, <1>6, <1>7, <1>t DEF Recorded, GivenIsRecorded
<1>12. Numbered'
  BY <1>2, <1>t DEF Numbered, NumbersDense
<1> QED BY <1>8, <1>9, <1>10, <1>11, <1>12 DEF Inv

(* What the others hold, they hold after a release.                        *)
LEMMA ReleaseKeeps ==
  ASSUME TypeOK, NEW p \in Process, Release(p)
  PROVE  /\ orgLock' \in Process \cup {None} /\ lock' \in [Req -> Process \cup {None}]
         /\ orgLock # p => orgLock' = orgLock
         /\ \A r \in Req : lock[r] # p => lock'[r] = lock[r]
BY DEF Release, TypeOK

LEMMA AbandonInv ==
  ASSUME Inv, NEW p \in Process, Abandon(p) PROVE Inv'
<1>t. TypeOK /\ Held /\ Parties /\ NotYet /\ Recorded /\ Numbered
  BY DEF Inv
<1>2. /\ Release(p) /\ call' = [call EXCEPT ![p] = [Idle EXCEPT !.pc = "done"]]
      /\ UNCHANGED <<row, next, trail, outbox, attempted, handled, given, left>>
  BY DEF Abandon, notes
<1>5. PICK c : c = [Idle EXCEPT !.pc = "done"]
  OBVIOUS
<1>6. c \in Call /\ c.pc = "done" /\ c.todo = {}
  BY <1>5 DEF Idle, Call
<1>7. /\ call' \in [Process -> Call] /\ call'[p] = c
      /\ \A q \in Process \ {p} : call'[q] = call[q]
  BY <1>2, <1>5, <1>6, <1>t DEF TypeOK
<1>s. /\ orgLock' \in Process \cup {None} /\ lock' \in [Req -> Process \cup {None}]
      /\ orgLock # p => orgLock' = orgLock
      /\ \A r \in Req : lock[r] # p => lock'[r] = lock[r]
  BY <1>2, <1>t, ReleaseKeeps
<1>8. TypeOK'
  BY <1>2, <1>7, <1>s, <1>t DEF TypeOK
<1>9. Held'
  <2> SUFFICES ASSUME NEW q \in Process, call'[q].pc = "locked"
               PROVE  Creating(q)' \/ Changing(q)'
    BY DEF Held
  <2>1. q # p /\ call'[q] = call[q]
    BY <1>6, <1>7
  <2> QED BY <2>1, <1>2, <1>s, <1>t DEF Held, Creating, Changing
<1>10. Parties' /\ NotYet'
  BY <1>2, <1>6, <1>7, <1>t DEF Parties, NotYet
<1>11. Recorded'
  BY <1>2, <1>6, <1>7, <1>t DEF Recorded, GivenIsRecorded
<1>12. Numbered'
  BY <1>2, <1>t DEF Numbered, NumbersDense
<1> QED BY <1>8, <1>9, <1>10, <1>11, <1>12 DEF Inv

----------------------------------------------------------------------------
(* Commits. *)

LEMMA EventsTyped ==
  ASSUME NEW act \in Act \cup {"create"}, NEW who \in Person, NEW to \in Person
  PROVE  EventsOf(act, who, to) \in Seq(Entry)
<1>1. \A t \in Transition : To[t] \in {To[a] : a \in Transition}
  OBVIOUS
<1>2. CASE act = "decline"
  <2>1. EventsOf(act, who, to) = <<Event("message_posted", who, None), Event("status_changed", who, "declined")>>
    BY <1>2 DEF EventsOf, Transition
  <2>2. To["decline"] = "declined"
    BY DEF To
  <2>3. /\ Event("message_posted", who, None) \in Entry
        /\ Event("status_changed", who, "declined") \in Entry
    BY <1>1, <2>2 DEF Event, Entry, Transition
  <2> QED BY <2>1, <2>3
<1>3. CASE act \in Transition \ {"decline"}
  <2>1. EventsOf(act, who, to) = <<Event("status_changed", who, To[act])>>
    BY <1>3 DEF EventsOf, Transition
  <2>2. Event("status_changed", who, To[act]) \in Entry
    BY <1>1, <1>3 DEF Event, Entry
  <2> QED BY <2>1, <2>2
<1>4. CASE act \in {"create", "message", "edit", "reassign"}
  <2>1. /\ Event("created", who, to) \in Entry /\ Event("message_posted", who, None) \in Entry
        /\ Event("field_changed", who, None) \in Entry /\ Event("assignee_changed", who, to) \in Entry
    BY DEF Event, Entry
  <2> QED BY <1>4, <2>1 DEF EventsOf, Transition
<1> QED BY <1>2, <1>3, <1>4 DEF Act, Transition

LEMMA RecordKeeps ==
  ASSUME TypeOK, NEW p \in Process, Creating(p) \/ Changing(p),
         NEW by \in Person, NEW to \in Person, Record(p, by, to)
  PROVE  /\ trail' \in [Req -> Seq(Entry)]
         /\ outbox \subseteq outbox' /\ outbox' \subseteq Note
         /\ call' \in [Process -> Call]
         /\ call'[p].pc = "dispatch" /\ call'[p].todo \subseteq outbox'
         /\ \A q \in Process \ {p} : call'[q] = call[q]
         /\ Release(p)
         /\ UNCHANGED <<attempted, handled, given, left>>
<1> DEFINE r == call[p].req
           events == EventsOf(call[p].act, call[p].who, call[p].to)
           rows == {<<r, Len(trail[r]) + i, x>> :
                      i \in {j \in DOMAIN events : events[j].act # "field_changed"},
                      x \in Recipients(by, to, call[p].who)}
<1>1. /\ trail' = [trail EXCEPT ![r] = @ \o events]
      /\ outbox' = outbox \cup rows
      /\ call' = [call EXCEPT ![p] = [Idle EXCEPT !.pc = "dispatch", !.todo = rows]]
      /\ Release(p)
      /\ UNCHANGED <<attempted, handled, given, left>>
  BY DEF Record
<1>2. r \in Req /\ events \in Seq(Entry)
  <2>1. /\ call[p].act \in Act \cup {"create"} /\ call[p].who \in Person /\ call[p].to \in Person
        /\ call[p].req \in Req
    BY DEF Creating, Changing, Person, Req
  <2> QED BY <2>1, EventsTyped
<1> HIDE DEF events
<1>3. trail[r] \in Seq(Entry)
  BY <1>2 DEF TypeOK
<1>4. trail' \in [Req -> Seq(Entry)]
  <2>1. trail[r] \o events \in Seq(Entry)
    BY <1>2, <1>3
  <2> QED BY <1>1, <2>1 DEF TypeOK
<1>5. rows \subseteq Note
  <2>1. Len(trail[r]) \in Nat /\ DOMAIN events \subseteq Nat
    BY <1>2, <1>3
  <2>2. \A j \in DOMAIN events : Len(trail[r]) + j \in Nat
    BY <2>1
  <2>3. Recipients(by, to, call[p].who) \subseteq Person
    BY DEF Recipients
  <2> QED BY <1>2, <2>2, <2>3 DEF Note
<1> HIDE DEF rows, r
<1>6. PICK c : c = [Idle EXCEPT !.pc = "dispatch", !.todo = rows]
  OBVIOUS
<1>7. c \in Call /\ c.pc = "dispatch" /\ c.todo = rows
  BY <1>5, <1>6 DEF Idle, Call
<1>8. /\ call' \in [Process -> Call] /\ call'[p] = c
      /\ \A q \in Process \ {p} : call'[q] = call[q]
  BY <1>1, <1>6, <1>7 DEF TypeOK
<1> QED BY <1>1, <1>4, <1>5, <1>7, <1>8 DEF TypeOK

(* A commit leaves to the others what they hold and have read.             *)
LEMMA OthersHold ==
  ASSUME Inv, NEW p \in Process, call[p].pc = "locked", Creating(p) \/ Changing(p),
         \A r \in Req \ {call[p].req} : row'[r] = row[r],
         Creating(p) \/ next' = next,
         call'[p].pc # "locked",
         \A q \in Process \ {p} : call'[q] = call[q],
         Release(p)
  PROVE  Held'
<1>t. TypeOK /\ Held /\ NotYet
  BY DEF Inv
<1>s. /\ orgLock # p => orgLock' = orgLock
      /\ \A r \in Req : lock[r] # p => lock'[r] = lock[r]
  BY <1>t, ReleaseKeeps
<1> SUFFICES ASSUME NEW q \in Process, call'[q].pc = "locked"
             PROVE  Creating(q)' \/ Changing(q)'
  BY DEF Held
<1>1. q # p /\ call'[q] = call[q] /\ (Creating(q) \/ Changing(q))
  BY <1>t DEF Held
<1>2. CASE Creating(q)
  <2>1. ~Creating(p) /\ orgLock # p
    BY <1>1, <1>2 DEF Creating
  <2> QED BY <1>1, <1>2, <1>s, <2>1 DEF Creating
<1>3. CASE Changing(q)
  <2>1. call[q].req # call[p].req /\ lock[call[q].req] # p
    BY <1>1, <1>3, <1>t DEF Creating, Changing, NotYet
  <2> QED BY <1>1, <1>3, <1>s, <2>1 DEF Changing
<1> QED BY <1>1, <1>2, <1>3

(* A commit that makes no request.                                         *)
LEMMA ChangeInv ==
  ASSUME Inv, NEW p \in Process, call[p].pc = "locked", Changing(p),
         NEW to \in Person, Record(p, call[p].seen.by, to),
         UNCHANGED next, row' \in [Req -> Row],
         \A r \in Req \ {call[p].req} : row'[r] = row[r],
         NEW s, s = row'[call[p].req],
         s.status # "none", s.number = row[call[p].req].number,
         s.by = row[call[p].req].by, s.to \in Person
  PROVE  Inv'
<1>t. TypeOK /\ Held /\ Parties /\ NotYet /\ Recorded /\ Numbered
  BY DEF Inv
<1>r. call[p].req \in Req /\ row[call[p].req].status # "none" /\ call[p].seen = row[call[p].req]
  BY DEF Changing
<1>b. row[call[p].req].by \in Member
  BY <1>t, <1>r DEF Parties
<1>1. /\ trail' \in [Req -> Seq(Entry)]
      /\ outbox \subseteq outbox' /\ outbox' \subseteq Note
      /\ call' \in [Process -> Call]
      /\ call'[p].pc = "dispatch" /\ call'[p].todo \subseteq outbox'
      /\ \A q \in Process \ {p} : call'[q] = call[q]
      /\ Release(p)
      /\ UNCHANGED <<attempted, handled, given, left>>
  BY <1>t, <1>r, <1>b, RecordKeeps DEF Person
<1>s. orgLock' \in Process \cup {None} /\ lock' \in [Req -> Process \cup {None}]
  BY <1>1, <1>t, ReleaseKeeps
<1>2. TypeOK'
  BY <1>1, <1>s, <1>t DEF TypeOK
<1>3. Held'
  BY <1>1, OthersHold
<1>4. Parties'
  BY <1>b, <1>t DEF Parties
<1>5. NotYet'
  BY <1>1, <1>r, <1>t DEF NotYet, Req
<1>6. Recorded'
  BY <1>1, <1>t DEF Recorded, GivenIsRecorded
<1>7. \A r \in Req : (row'[r].status # "none" <=> row[r].status # "none") /\ row'[r].number = row[r].number
  BY <1>r
<1>8. Numbered'
  <2>1. {r \in Req : row'[r].status # "none"} = {r \in Req : row[r].status # "none"}
    BY <1>7
  <2>2. {row'[r].number : r \in {r \in Req : row[r].status # "none"}} =
        {row[r].number : r \in {r \in Req : row[r].status # "none"}}
    BY <1>7
  <2> QED BY <1>7, <1>t, <2>1, <2>2 DEF Numbered, NumbersDense
<1> QED BY <1>2, <1>3, <1>4, <1>5, <1>6, <1>8 DEF Inv

LEMMA CreateInv ==
  ASSUME Inv, NEW p \in Process, CommitCreate(p) PROVE Inv'
<1>t. TypeOK /\ Held /\ Parties /\ NotYet /\ Recorded /\ Numbered
  BY DEF Inv
<1>1. PICK s : s = [status |-> "open", number |-> call[p].seen.number, by |-> call[p].who,
                    to |-> call[p].to, closer |-> None]
  OBVIOUS
<1>2. /\ call[p].pc = "locked" /\ call[p].act = "create"
      /\ row' = [row EXCEPT ![p] = s]
      /\ next' = call[p].seen.number + 1
      /\ Record(p, call[p].who, call[p].to)
  BY <1>1 DEF CommitCreate
<1>3. /\ call[p].req = p /\ call[p].who \in Member /\ call[p].to \in Person
      /\ call[p].seen.number = next /\ row[p].status = "none" /\ Creating(p)
  BY <1>2, <1>t DEF Held, Creating, Changing, NotYet, Act, Transition
<1>4. next \in Nat /\ next' = next + 1
  BY <1>2, <1>3, <1>t DEF TypeOK
<1>5. /\ s \in Row /\ s.status = "open" /\ s.number = next
      /\ s.by \in Member /\ s.to \in Person
  BY <1>1, <1>3, <1>4 DEF Row, Person
<1>6. /\ row' \in [Req -> Row] /\ row'[p] = s
      /\ \A r \in Req \ {p} : row'[r] = row[r]
  BY <1>2, <1>5, <1>t DEF TypeOK, Req
<1>7. /\ trail' \in [Req -> Seq(Entry)]
      /\ outbox \subseteq outbox' /\ outbox' \subseteq Note
      /\ call' \in [Process -> Call]
      /\ call'[p].pc = "dispatch" /\ call'[p].todo \subseteq outbox'
      /\ \A q \in Process \ {p} : call'[q] = call[q]
      /\ Release(p)
      /\ UNCHANGED <<attempted, handled, given, left>>
  BY <1>t, <1>2, <1>3, RecordKeeps DEF Person
<1>s. orgLock' \in Process \cup {None} /\ lock' \in [Req -> Process \cup {None}]
  BY <1>7, <1>t, ReleaseKeeps
<1>8. TypeOK'
  BY <1>4, <1>6, <1>7, <1>s, <1>t DEF TypeOK
<1>9. Held'
  BY <1>2, <1>3, <1>6, <1>7, OthersHold
<1>10. Parties'
  BY <1>5, <1>6, <1>t DEF Parties, Req
<1>11. NotYet'
  BY <1>6, <1>7, <1>t DEF NotYet, Req
<1>12. Recorded'
  BY <1>7, <1>t DEF Recorded, GivenIsRecorded
<1>13. Numbered'
  <2> DEFINE made == {r \in Req : row[r].status # "none"}
             numbers == {row[r].number : r \in made}
  <2>1. numbers = 1 .. next - 1 /\ \A q, r \in made : q # r => row[q].number # row[r].number
    BY <1>t DEF Numbered, NumbersDense
  <2>2. p \notin made /\ p \in Req
    BY <1>3 DEF Req
  <2>3. {r \in Req : row'[r].status # "none"} = made \cup {p}
    BY <1>5, <1>6, <2>2
  <2>4. \A r \in made : row'[r].number = row[r].number
    BY <1>6, <2>2
  <2>5. \A r \in made : row[r].number \in 1 .. next - 1
    BY <2>1
  <2>6. {row'[r].number : r \in made \cup {p}} = numbers \cup {next}
    BY <1>5, <1>6, <2>4
  <2>7. numbers \cup {next} = 1 .. next' - 1
    BY <1>4, <2>1, <1>t DEF Numbered
  <2>8. \A q, r \in made \cup {p} : q # r => row'[q].number # row'[r].number
    <3>1. \A r \in made : row'[r].number # next
      BY <1>4, <2>4, <2>5
    <3> QED BY <1>5, <1>6, <2>1, <2>4, <3>1
  <2> HIDE DEF made, numbers
  <2>9. {row'[r].number : r \in made \cup {p}} = 1 .. next' - 1
    BY <2>6, <2>7
  <2>10. next' \in Nat \ {0}
    BY <1>4
  <2> QED BY <2>3, <2>8, <2>9, <2>10 DEF Numbered, NumbersDense
<1> QED BY <1>8, <1>9, <1>10, <1>11, <1>12, <1>13 DEF Inv

LEMMA CommitInv ==
  ASSUME Inv, NEW p \in Process, Commit(p) PROVE Inv'
<1>t. TypeOK /\ Held /\ Parties /\ NotYet /\ Recorded /\ Numbered
  BY DEF Inv
<1>1. CASE CommitCreate(p)
  BY <1>1, CreateInv
<1>c. ASSUME call[p].pc = "locked", call[p].act # "create"
      PROVE  /\ Changing(p) /\ call[p].req \in Req /\ call[p].seen = row[call[p].req]
             /\ row[call[p].req] \in Row /\ row[call[p].req].status # "none"
             /\ row[call[p].req].to \in Person /\ call[p].to \in Member /\ call[p].who \in Person
  BY <1>c, <1>t DEF Held, Creating, Changing, Parties, TypeOK
<1>2. CASE CommitTransition(p)
  <2>1. /\ call[p].pc = "locked" /\ call[p].act \in Transition
        /\ row' = [row EXCEPT ![call[p].req].status = To[call[p].act],
                              ![call[p].req].closer =
                                 IF To[call[p].act] \in Terminal THEN call[p].who ELSE @]
        /\ Record(p, call[p].seen.by, call[p].seen.to)
        /\ UNCHANGED next
    BY <1>2 DEF CommitTransition
  <2>2. PICK r, t, w : r = call[p].req /\ t = To[call[p].act] /\ w = call[p].who
    OBVIOUS
  <2>3. t \in {"answered"} \cup Terminal
    BY <2>1, <2>2 DEF Transition, To, Terminal
  <2>4. /\ Changing(p) /\ r \in Req /\ call[p].seen = row[r] /\ row[r] \in Row
        /\ row[r].status # "none" /\ row[r].to \in Person /\ w \in Person
    BY <1>c, <2>1, <2>2 DEF Transition
  <2>5. row' = [row EXCEPT ![r].status = t, ![r].closer = IF t \in Terminal THEN w ELSE @]
    BY <2>1, <2>2
  <2>6. PICK s : s = [row[r] EXCEPT !.status = t,
                                    !.closer = IF t \in Terminal THEN w ELSE row[r].closer]
    OBVIOUS
  <2>7. /\ s \in Row /\ s.status = t /\ s.number = row[r].number
        /\ s.by = row[r].by /\ s.to = row[r].to
    BY <2>3, <2>4, <2>6 DEF Row
  <2>8. row' = [row EXCEPT ![r] = s]
    BY <2>4, <2>5, <2>6, <1>t DEF TypeOK, Row
  <2>9. /\ row' \in [Req -> Row] /\ row'[r] = s
        /\ \A q \in Req \ {r} : row'[q] = row[q]
    BY <2>4, <2>7, <2>8, <1>t DEF TypeOK
  <2>10. s.status # "none" /\ s.to \in Person /\ call[p].seen.to \in Person
    BY <2>3, <2>4, <2>7 DEF Terminal
  <2>11. /\ \A q \in Req \ {call[p].req} : row'[q] = row[q]
         /\ s = row'[call[p].req] /\ s.number = row[call[p].req].number
         /\ s.by = row[call[p].req].by
    BY <2>2, <2>7, <2>9
  <2> QED BY <2>1, <2>4, <2>9, <2>10, <2>11, ChangeInv
<1>3. CASE CommitReassign(p)
  <2>1. /\ call[p].pc = "locked" /\ call[p].act = "reassign"
        /\ row' = [row EXCEPT ![call[p].req].to = call[p].to]
        /\ Record(p, call[p].seen.by, call[p].to)
        /\ UNCHANGED next
    BY <1>3 DEF CommitReassign
  <2>2. PICK r, to : r = call[p].req /\ to = call[p].to
    OBVIOUS
  <2>4. /\ Changing(p) /\ r \in Req /\ call[p].seen = row[r] /\ row[r] \in Row
        /\ row[r].status # "none" /\ to \in Person
    BY <1>c, <2>1, <2>2 DEF Person
  <2>6. PICK s : s = [row[r] EXCEPT !.to = to]
    OBVIOUS
  <2>7. /\ s \in Row /\ s.status = row[r].status /\ s.number = row[r].number
        /\ s.by = row[r].by /\ s.to = to
    BY <2>4, <2>6 DEF Row
  <2>8. row' = [row EXCEPT ![r] = s]
    BY <2>1, <2>2, <2>4, <2>6, <1>t DEF TypeOK, Row
  <2>9. /\ row' \in [Req -> Row] /\ row'[r] = s
        /\ \A q \in Req \ {r} : row'[q] = row[q]
    BY <2>4, <2>7, <2>8, <1>t DEF TypeOK
  <2> QED BY <2>1, <2>2, <2>4, <2>7, <2>9, ChangeInv
<1>4. CASE CommitOther(p)
  <2>1. /\ call[p].pc = "locked" /\ call[p].act \in {"message", "edit"}
        /\ Record(p, call[p].seen.by, call[p].seen.to)
        /\ UNCHANGED <<row, next>>
    BY <1>4 DEF CommitOther
  <2>2. PICK s : s = row[call[p].req]
    OBVIOUS
  <2> QED BY <2>1, <2>2, <1>c, <1>t, ChangeInv DEF TypeOK
<1> QED BY <1>1, <1>2, <1>3, <1>4 DEF Commit

----------------------------------------------------------------------------
(* Dispatch, and the invariant. *)

LEMMA AtKeeps ==
  ASSUME TypeOK, NEW p \in Process, NEW pc \in {"dispatch", "done"}, NEW todo \in SUBSET call[p].todo,
         At(p, pc, todo)
  PROVE  /\ call' \in [Process -> Call]
         /\ call'[p].pc = pc /\ call'[p].todo = todo
         /\ \A q \in Process \ {p} : call'[q] = call[q]
<1>1. call[p] \in Call
  BY DEF TypeOK
<1>2. PICK c : c = [call[p] EXCEPT !.pc = pc, !.todo = todo]
  OBVIOUS
<1>3. c \in Call /\ c.pc = pc /\ c.todo = todo
  BY <1>1, <1>2 DEF Call
<1>4. call' = [call EXCEPT ![p] = c]
  BY <1>1, <1>2 DEF At, TypeOK, Call
<1> QED BY <1>3, <1>4 DEF TypeOK

(* A step that moves one call on, past its commit.                         *)
LEMMA AfterInv ==
  ASSUME Inv, NEW p \in Process, call[p].pc \in {"dispatch", "calling", "accepted", "refused"},
         UNCHANGED <<row, next, trail, orgLock, lock, outbox>>,
         call' \in [Process -> Call], \A q \in Process \ {p} : call'[q] = call[q],
         call'[p].pc \in {"dispatch", "calling", "accepted", "refused", "done"},
         call'[p].todo \subseteq call[p].todo,
         call'[p].pc \in {"calling", "accepted", "refused"} =>
           call'[p].note \in call'[p].todo \cap attempted',
         attempted \subseteq attempted', handled' \cup left' \cup attempted' \subseteq Note,
         given' \subseteq given \cup (outbox \cap attempted')
  PROVE  Inv'
<1>t. TypeOK /\ Held /\ Parties /\ NotYet /\ Recorded /\ Numbered
  BY DEF Inv
<1>1. TypeOK'
  BY <1>t DEF TypeOK
<1>2. Held'
  <2> SUFFICES ASSUME NEW q \in Process, call'[q].pc = "locked"
               PROVE  Creating(q)' \/ Changing(q)'
    BY DEF Held
  <2> QED BY <1>t DEF Held, Creating, Changing
<1>3. Parties' /\ NotYet'
  BY <1>t DEF Parties, NotYet
<1>4. Recorded'
  BY <1>t DEF Recorded, GivenIsRecorded
<1>5. Numbered'
  BY <1>t DEF Numbered, NumbersDense
<1> QED BY <1>1, <1>2, <1>3, <1>4, <1>5 DEF Inv

LEMMA DispatchInv ==
  ASSUME Inv, NEW p \in Process, Dispatch(p) \/ Crash(p) PROVE Inv'
<1>t. TypeOK /\ Recorded
  BY DEF Inv
<1>c. call[p] \in Call /\ call[p].todo \subseteq outbox /\ call[p].todo \subseteq Note
      /\ given \subseteq Note /\ given \subseteq attempted /\ given \subseteq outbox
  BY <1>t DEF TypeOK, Recorded, Call, GivenIsRecorded
<1>n. call[p].pc \in {"calling", "accepted", "refused"} =>
        call[p].note \in call[p].todo \cap attempted
  BY <1>t DEF Recorded
<1>o. attempted \subseteq Note /\ handled \subseteq Note /\ left \subseteq Note
  BY <1>t DEF TypeOK
<1>1. ASSUME NEW pc \in {"calling", "accepted", "refused"}, NEW n \in call[p].todo,
             call' = [call EXCEPT ![p].pc = pc, ![p].note = n]
      PROVE  /\ call' \in [Process -> Call]
             /\ call'[p].pc = pc /\ call'[p].todo = call[p].todo /\ call'[p].note = n
             /\ \A q \in Process \ {p} : call'[q] = call[q]
  <2>1. PICK c : c = [call[p] EXCEPT !.pc = pc, !.note = n]
    OBVIOUS
  <2>2. c \in Call /\ c.pc = pc /\ c.todo = call[p].todo /\ c.note = n
    BY <1>c, <2>1 DEF Call
  <2>3. call' = [call EXCEPT ![p] = c]
    BY <1>1, <1>c, <1>t, <2>1 DEF TypeOK, Call
  <2> QED BY <2>2, <2>3, <1>t DEF TypeOK
<1>2. ASSUME NEW pc \in {"calling", "accepted", "refused"},
             call' = [call EXCEPT ![p].pc = pc]
      PROVE  /\ call' \in [Process -> Call]
             /\ call'[p].pc = pc /\ call'[p].todo = call[p].todo /\ call'[p].note = call[p].note
             /\ \A q \in Process \ {p} : call'[q] = call[q]
  <2>1. PICK c : c = [call[p] EXCEPT !.pc = pc]
    OBVIOUS
  <2>2. c \in Call /\ c.pc = pc /\ c.todo = call[p].todo /\ c.note = call[p].note
    BY <1>c, <2>1 DEF Call
  <2>3. call' = [call EXCEPT ![p] = c]
    BY <1>2, <1>c, <1>t, <2>1 DEF TypeOK, Call
  <2> QED BY <2>2, <2>3, <1>t DEF TypeOK
<1>3. ASSUME GiveUp(p)
      PROVE  /\ left' \subseteq Note /\ call' \in [Process -> Call]
             /\ call'[p].pc = "done" /\ call'[p].todo = {}
             /\ \A q \in Process \ {p} : call'[q] = call[q]
  BY <1>3, <1>c, <1>o, <1>t, AtKeeps DEF GiveUp
<1>4. CASE Attempt(p)
  <2>1. /\ call[p].pc = "dispatch"
        /\ UNCHANGED <<row, next, trail, orgLock, lock, outbox, handled, given>>
    BY <1>4 DEF Attempt, locks
  <2>2. CASE \E n \in call[p].todo :
               /\ attempted' = attempted \cup {n}
               /\ call' = [call EXCEPT ![p].pc = "calling", ![p].note = n]
               /\ UNCHANGED left
    <3>1. PICK n \in call[p].todo :
               /\ attempted' = attempted \cup {n}
               /\ call' = [call EXCEPT ![p].pc = "calling", ![p].note = n]
               /\ UNCHANGED left
      BY <2>2
    <3>2. /\ call' \in [Process -> Call]
          /\ call'[p].pc = "calling" /\ call'[p].todo = call[p].todo /\ call'[p].note = n
          /\ \A q \in Process \ {p} : call'[q] = call[q]
      BY <3>1, <1>1
    <3> QED BY <2>1, <3>1, <3>2, <1>c, <1>o, AfterInv
  <2>3. CASE call[p].todo = {} /\ At(p, "done", {}) /\ UNCHANGED <<attempted, left>>
    <3>1. /\ call' \in [Process -> Call]
          /\ call'[p].pc = "done" /\ call'[p].todo = {}
          /\ \A q \in Process \ {p} : call'[q] = call[q]
      BY <2>3, <1>t, AtKeeps
    <3> QED BY <2>1, <2>3, <3>1, <1>c, <1>o, AfterInv
  <2>4. CASE GiveUp(p) /\ UNCHANGED attempted
    BY <2>1, <2>4, <1>3, <1>c, <1>o, AfterInv
  <2> QED BY <1>4, <2>2, <2>3, <2>4 DEF Attempt
<1>5. CASE Deliver(p)
  <2>1. /\ call[p].pc = "calling" /\ given' = given \cup {call[p].note}
        /\ UNCHANGED <<row, next, trail, orgLock, lock, outbox, attempted, handled, left>>
    BY <1>5 DEF Deliver, locks
  <2>2. PICK pc \in {"accepted", "refused"} : call' = [call EXCEPT ![p].pc = pc]
    BY <1>5 DEF Deliver
  <2>3. /\ call' \in [Process -> Call]
        /\ call'[p].pc = pc /\ call'[p].todo = call[p].todo /\ call'[p].note = call[p].note
        /\ \A q \in Process \ {p} : call'[q] = call[q]
    BY <2>2, <1>2
  <2> QED BY <2>1, <2>3, <1>c, <1>n, <1>o, AfterInv
<1>6. CASE MarkOutcome(p)
  <2>1. /\ call[p].pc = "accepted"
        /\ UNCHANGED <<row, next, trail, orgLock, lock, outbox, attempted, given, left>>
    BY <1>6 DEF MarkOutcome, locks
  <2>2. CASE handled' = handled \cup {call[p].note} /\ At(p, "dispatch", call[p].todo \ {call[p].note})
    <3>1. /\ call' \in [Process -> Call]
          /\ call'[p].pc = "dispatch" /\ call'[p].todo = call[p].todo \ {call[p].note}
          /\ \A q \in Process \ {p} : call'[q] = call[q]
      BY <2>2, <1>t, AtKeeps
    <3> QED BY <2>1, <2>2, <3>1, <1>c, <1>n, <1>o, AfterInv
  <2>3. CASE call' = [call EXCEPT ![p].pc = "refused"] /\ UNCHANGED handled
    <3>1. /\ call' \in [Process -> Call]
          /\ call'[p].pc = "refused" /\ call'[p].todo = call[p].todo /\ call'[p].note = call[p].note
          /\ \A q \in Process \ {p} : call'[q] = call[q]
      BY <2>3, <1>2
    <3> QED BY <2>1, <2>3, <3>1, <1>c, <1>n, <1>o, AfterInv
  <2> QED BY <1>6, <2>2, <2>3 DEF MarkOutcome
<1>7. CASE MarkFailed(p)
  <2>1. /\ call[p].pc = "refused"
        /\ UNCHANGED <<row, next, trail, orgLock, lock, outbox, attempted, given>>
    BY <1>7 DEF MarkFailed, locks
  <2>2. CASE /\ handled' = handled \cup {call[p].note}
             /\ At(p, "dispatch", call[p].todo \ {call[p].note}) /\ UNCHANGED left
    <3>1. /\ call' \in [Process -> Call]
          /\ call'[p].pc = "dispatch" /\ call'[p].todo = call[p].todo \ {call[p].note}
          /\ \A q \in Process \ {p} : call'[q] = call[q]
      BY <2>2, <1>t, AtKeeps
    <3> QED BY <2>1, <2>2, <3>1, <1>c, <1>n, <1>o, AfterInv
  <2>3. CASE GiveUp(p) /\ UNCHANGED handled
    BY <2>1, <2>3, <1>3, <1>c, <1>o, AfterInv
  <2> QED BY <1>7, <2>2, <2>3 DEF MarkFailed
<1>8. CASE Crash(p)
  <2>1. /\ call[p].pc \in {"dispatch", "calling", "accepted", "refused"} /\ GiveUp(p)
        /\ UNCHANGED <<row, next, trail, orgLock, lock, outbox, attempted, handled, given>>
    BY <1>8 DEF Crash, locks
  <2> QED BY <2>1, <1>3, <1>c, <1>o, AfterInv
<1> QED BY <1>4, <1>5, <1>6, <1>7, <1>8 DEF Dispatch

LEMMA NextInv == Inv /\ [Next]_vars => Inv'
<1>1. ASSUME Inv, Next PROVE Inv'
  BY <1>1, BeginCreateInv, BeginInv, AbandonInv, CommitInv, DispatchInv DEF Next, Step
<1>2. ASSUME Inv, UNCHANGED vars PROVE Inv'
  <2>1. UNCHANGED <<row, next, trail, orgLock, lock, call, outbox, attempted, handled, given, left>>
    BY <1>2 DEF vars, locks, notes
  <2>2. TypeOK' /\ Parties' /\ NotYet' /\ Recorded'
    BY <1>2, <2>1 DEF Inv, TypeOK, Parties, NotYet, Recorded, GivenIsRecorded
  <2>3. Held'
    BY <1>2, <2>1 DEF Inv, Held, Creating, Changing
  <2>4. Numbered'
    BY <1>2, <2>1 DEF Inv, Numbered, NumbersDense
  <2> QED BY <2>2, <2>3, <2>4 DEF Inv
<1> QED BY <1>1, <1>2

LEMMA Invariant == Spec => []Inv
BY InitInv, NextInv, PTL DEF Spec

(* Every variable has its type.                                            *)
THEOREM TypeCorrect == Spec => []TypeOK
<1>1. Inv => TypeOK
  BY DEF Inv
<1> QED BY <1>1, Invariant, PTL

(* The lock on the organization keeps the numbers without gap and without  *)
(* duplicate, however many create at once.                                 *)
THEOREM NumbersInOrder == Spec => []NumbersDense
<1>1. Inv => NumbersDense
  BY DEF Inv, Numbered
<1> QED BY <1>1, Invariant, PTL

(* Nothing is told that was not committed, nor without a mark.             *)
THEOREM ToldIsRecorded == Spec => []GivenIsRecorded
<1>1. Inv => GivenIsRecorded
  BY DEF Inv, Recorded
<1> QED BY <1>1, Invariant, PTL

----------------------------------------------------------------------------
(* The refinement: only commits touch what a request promises. *)

LEMMA InitLives == Init => Life!Init
<1> SUFFICES ASSUME Init PROVE Life!Init
  OBVIOUS
<1>1. PICK n \in Bijection(Old, 1 .. Cardinality(Old)), by \in [Old -> Member], to \in [Old -> Person] :
        row = [r \in Req |->
                   IF r \in Old
                   THEN [status |-> "open", number |-> n[r], by |-> by[r], to |-> to[r], closer |-> None]
                   ELSE [status |-> "none", number |-> 0, by |-> None, to |-> None, closer |-> None]]
  BY DEF Init
<1>2. \A r \in Req : LifeOf(r) \in Life!Fresh \cup Life!Opened
  <2> SUFFICES ASSUME NEW r \in Req PROVE LifeOf(r) \in Life!Fresh \cup Life!Opened
    OBVIOUS
  <2>1. CASE r \in Old
    <3>1. LifeOf(r) = [status |-> "open", by |-> by[r], to |-> to[r], closer |-> None]
      BY <1>1, <2>1 DEF LifeOf
    <3>2. by[r] \in Member /\ to[r] \in Member \cup Client
      BY <2>1 DEF Person
    <3> QED BY <3>1, <3>2 DEF Life!Opened, Life!Person
  <2>2. CASE r \notin Old
    <3>1. LifeOf(r) = [status |-> "none", by |-> None, to |-> None, closer |-> None]
      BY <1>1, <2>2 DEF LifeOf
    <3> QED BY <3>1 DEF Life!Fresh
  <2> QED BY <2>1, <2>2
<1> QED BY <1>2 DEF Life!Init, Lives

(* One request changes: the rest is as it was.                             *)
LEMMA OneLife ==
  ASSUME NEW r \in Req, NEW x, LifeOf(r)' = x,
         \A q \in Req \ {r} : row'[q] = row[q]
  PROVE  Lives' = [Lives EXCEPT ![r] = x]
<1>1. \A q \in Req \ {r} : LifeOf(q)' = LifeOf(q)
  BY DEF LifeOf
<1> QED BY <1>1 DEF Lives

LEMMA SameLives == UNCHANGED row => [Life!Next]_Lives
BY DEF Lives, LifeOf

LEMMA CreateLives ==
  ASSUME Inv, NEW p \in Process, CommitCreate(p) PROVE [Life!Next]_Lives
<1>1. PICK s : s = [status |-> "open", number |-> call[p].seen.number, by |-> call[p].who,
                    to |-> call[p].to, closer |-> None]
  OBVIOUS
<1>2. /\ call[p].pc = "locked" /\ call[p].act = "create"
      /\ row' = [row EXCEPT ![p] = s]
  BY <1>1 DEF CommitCreate
<1>3. /\ call[p].who \in Member /\ call[p].to \in Person /\ row[p].status = "none"
  BY <1>2 DEF Inv, Held, Creating, Changing, NotYet, Act, Transition
<1>4. PICK by, to : by = call[p].who /\ to = call[p].to
  OBVIOUS
<1>5. /\ p \in Req /\ row'[p] = s /\ \A q \in Req \ {p} : row'[q] = row[q]
  BY <1>2 DEF Inv, TypeOK, Req
<1>6. PICK x : x = [status |-> "open", by |-> by, to |-> to, closer |-> None]
  OBVIOUS
<1>7. LifeOf(p)' = x
  BY <1>1, <1>4, <1>5, <1>6 DEF LifeOf
<1>8. Lives' = [Lives EXCEPT ![p] = x]
  BY <1>5, <1>7, OneLife
<1>9. Lives[p].status = "none"
  BY <1>3, <1>5 DEF Lives, LifeOf
<1>10. Life!Open(p)
  BY <1>3, <1>4, <1>6, <1>8, <1>9 DEF Life!Open, Life!Is, Life!Person, Person
<1> QED BY <1>5, <1>10 DEF Life!Next

LEMMA TransitionLives ==
  ASSUME Inv, NEW p \in Process, CommitTransition(p) PROVE [Life!Next]_Lives
<1>1. /\ call[p].pc = "locked" /\ call[p].act \in Transition
      /\ Allowed(call[p].act, call[p].who, call[p].seen)
      /\ row' = [row EXCEPT ![call[p].req].status = To[call[p].act],
                            ![call[p].req].closer =
                               IF To[call[p].act] \in Terminal THEN call[p].who ELSE @]
  BY DEF CommitTransition
<1>2. PICK r, act, who : r = call[p].req /\ act = call[p].act /\ who = call[p].who
  OBVIOUS
<1>3. /\ r \in Req /\ call[p].seen = row[r] /\ row[r].status # "none" /\ row[r] \in Row
  BY <1>1, <1>2 DEF Inv, Held, Creating, Changing, TypeOK, Transition
<1>4. /\ act \in Transition /\ row[r].status \in {"open", "answered"}
      /\ act = "answer" => row[r].status = "open"
      /\ act = "decline" => who \in {row[r].to} \cup Admin
      /\ act \in {"grant", "cancel"} => who \in {row[r].by} \cup Admin
  BY <1>1, <1>2, <1>3 DEF Allowed, Row, Terminal
<1>5. PICK t : t = To[act]
  OBVIOUS
<1>6. row' = [row EXCEPT ![r].status = t, ![r].closer = IF t \in Terminal THEN who ELSE @]
  BY <1>1, <1>2, <1>5
<1>7. /\ row'[r].status = t /\ row'[r].by = row[r].by /\ row'[r].to = row[r].to
      /\ row'[r].closer = IF t \in Terminal THEN who ELSE row[r].closer
      /\ \A q \in Req \ {r} : row'[q] = row[q]
  BY <1>3, <1>6 DEF Inv, TypeOK, Row
<1>8. Lives[r] = LifeOf(r) /\ Lives \in [Req -> {LifeOf(q) : q \in Req}]
  BY <1>3 DEF Lives
<1>9. CASE act = "answer"
  <2>1. t = "answered"
    BY <1>5, <1>9 DEF To
  <2>2. LifeOf(r)' = [LifeOf(r) EXCEPT !.status = "answered"]
    BY <1>7, <2>1 DEF LifeOf, Terminal
  <2>3. Lives' = [Lives EXCEPT ![r] = [LifeOf(r) EXCEPT !.status = "answered"]]
    BY <1>3, <1>7, <2>2, OneLife
  <2>4. Life!Answer(r)
    BY <1>3, <1>4, <1>8, <1>9, <2>3 DEF Life!Answer, Life!Is, LifeOf
  <2> QED BY <1>3, <2>4 DEF Life!Next
<1>10. CASE act # "answer"
  <2>1. t \in Terminal
    BY <1>4, <1>5, <1>10 DEF To, Terminal, Transition
  <2>2. PICK x : x = [status |-> t, by |-> row[r].by, to |-> row[r].to, closer |-> who]
    OBVIOUS
  <2>a. LifeOf(r)' = x
    BY <1>7, <2>1, <2>2 DEF LifeOf
  <2>3. Lives' = [Lives EXCEPT ![r] = x]
    BY <1>3, <1>7, <2>a, OneLife
  <2>b. Lives[r] = [status |-> row[r].status, by |-> row[r].by, to |-> row[r].to,
                    closer |-> row[r].closer]
    BY <1>8 DEF LifeOf
  <2>c. [status |-> t, by |-> Lives[r].by, to |-> Lives[r].to, closer |-> who] = x
    BY <2>2, <2>b
  <2>d. Life!Is(r, {"open", "answered"})
    BY <1>4, <2>b DEF Life!Is
  <2>4. Life!Close(r, t, who)
    BY <2>3, <2>c, <2>d DEF Life!Close
  <2>5. Lives[r].by = row[r].by /\ Lives[r].to = row[r].to
    BY <1>8 DEF LifeOf
  <2>6. CASE act = "grant"
    <3>1. t = "granted"
      BY <1>5, <2>6 DEF To
    <3> QED BY <1>3, <1>4, <2>4, <2>5, <2>6, <3>1 DEF Life!Next, Life!Grant
  <2>7. CASE act = "decline"
    <3>1. t = "declined"
      BY <1>5, <2>7 DEF To
    <3> QED BY <1>3, <1>4, <2>4, <2>5, <2>7, <3>1 DEF Life!Next, Life!Decline
  <2>8. CASE act = "cancel"
    <3>1. t = "cancelled"
      BY <1>5, <2>8 DEF To
    <3> QED BY <1>3, <1>4, <2>4, <2>5, <2>8, <3>1 DEF Life!Next, Life!Cancel
  <2> QED BY <1>4, <1>10, <2>6, <2>7, <2>8 DEF Transition
<1> QED BY <1>9, <1>10

LEMMA ReassignLives ==
  ASSUME Inv, NEW p \in Process, CommitReassign(p) PROVE [Life!Next]_Lives
<1>1. /\ call[p].pc = "locked" /\ call[p].act = "reassign"
      /\ Allowed("reassign", call[p].who, call[p].seen)
      /\ row' = [row EXCEPT ![call[p].req].to = call[p].to]
  BY DEF CommitReassign
<1>2. PICK r, to : r = call[p].req /\ to = call[p].to
  OBVIOUS
<1>3. /\ r \in Req /\ call[p].seen = row[r] /\ row[r].status # "none" /\ row[r] \in Row
      /\ to \in Member
  BY <1>1, <1>2 DEF Inv, Held, Creating, Changing, TypeOK
<1>4. row[r].status \in {"open", "answered"} /\ row[r].to \notin Client
  BY <1>1, <1>3 DEF Allowed, Row, Terminal
<1>5. /\ row'[r].status = row[r].status /\ row'[r].by = row[r].by /\ row'[r].to = to
      /\ row'[r].closer = row[r].closer
      /\ \A q \in Req \ {r} : row'[q] = row[q]
  BY <1>1, <1>2, <1>3 DEF Inv, TypeOK, Row
<1>6. Lives[r] = LifeOf(r)
  BY <1>3 DEF Lives
<1>7. LifeOf(r)' = [LifeOf(r) EXCEPT !.to = to]
  BY <1>5 DEF LifeOf
<1>8. Lives' = [Lives EXCEPT ![r] = [LifeOf(r) EXCEPT !.to = to]]
  BY <1>3, <1>5, <1>7, OneLife
<1>9. Life!HandOver(r)
  BY <1>3, <1>4, <1>6, <1>8 DEF Life!HandOver, Life!Is, LifeOf, Lives
<1> QED BY <1>3, <1>9 DEF Life!Next

LEMMA NextLives == Inv /\ [Next]_vars => [Life!Next]_Lives
<1>1. ASSUME Inv, Next PROVE [Life!Next]_Lives
  <2>1. PICK p \in Process : Step(p)
    BY <1>1 DEF Next
  <2>2. BeginCreate(p) \/ Begin(p) \/ Abandon(p) \/ CommitOther(p) \/ Dispatch(p) \/ Crash(p)
          => UNCHANGED row
    BY DEF BeginCreate, Begin, Abandon, CommitOther, Dispatch, Attempt, Deliver, MarkOutcome,
           MarkFailed, Crash
  <2> QED BY <1>1, <2>1, <2>2, SameLives, CreateLives, TransitionLives, ReassignLives
          DEF Step, Commit
<1>2. UNCHANGED vars => UNCHANGED row
  BY DEF vars
<1> QED BY <1>1, <1>2, SameLives

(* The calls on a request implement its life, however they cross: each     *)
(* takes effect on what the last one left.                                 *)
THEOREM Implements == Spec => KeepsToLife
<1>1. Spec => [][Life!Next]_Lives
  BY Invariant, NextLives, PTL DEF Spec
<1>2. Init => Life!Init
  BY InitLives
<1> QED BY <1>1, <1>2, PTL DEF KeepsToLife, Life!Spec, Spec, Lives

----------------------------------------------------------------------------
(* What the history of a request tells: Told is a fold over its events.    *)

(* The fold of a history: for each set of its places, what they tell.      *)
Folding(s, f) ==
  [S \in SUBSET DOMAIN s |-> IF S = {} THEN Untold ELSE Retell(f[S \ {Max(S)}], s[Max(S)])]

Fold(s) == CHOOSE f : f = Folding(s, f)

Story(s) == Fold(s)[DOMAIN s]

LEMMA ToldIsStory ==
  ASSUME NEW r, NEW i
  PROVE  Told(r, i) = Story(SubSeq(trail[r], 1, i))
BY Zenon DEF Told, FoldLeft, MapThenFoldSet, Story, Fold, Folding

(* What holds of 0, and of the next when of one, holds of every number.    *)
LEMMA Induction ==
  ASSUME NEW T, 0 \in T, \A n \in Nat : n \in T => n + 1 \in T
  PROVE  Nat \subseteq T
<1> DEFINE R == OpToRel(<, Nat)
           B == Nat \ T
<1> SUFFICES ASSUME B # {} PROVE FALSE
  OBVIOUS
<1>1. IsWellFoundedOn(R, Nat)
  BY NatLessThanWellFounded
<1>2. B \subseteq Nat
  OBVIOUS
<1>3. PICK n \in B : \A m \in B : ~(<<m, n>> \in R)
  <2> HIDE DEF R, B
  <2> QED BY <1>1, <1>2, WFMin
<1>4. \A m \in B : ~(m < n)
  BY <1>3 DEF OpToRel
<1>5. n # 0 /\ n - 1 \in Nat /\ n - 1 \in T /\ (n - 1) + 1 = n
  BY <1>4
<1> QED BY <1>5

LEMMA MaxOfInterval ==
  ASSUME NEW n \in Nat, NEW S \in SUBSET (1 .. n + 1), n + 1 \in S
  PROVE  Max(S) = n + 1
<1>1. \A y \in S : n + 1 >= y
  OBVIOUS
<1>2. \A x \in S : (\A y \in S : x >= y) => x = n + 1
  OBVIOUS
<1>3. Max(S) \in S /\ \A y \in S : Max(S) >= y
  BY <1>1 DEF Max
<1> QED BY <1>2, <1>3

(* The recursion has a solution.                                           *)
LEMMA FoldSolves ==
  ASSUME NEW s \in Seq(Entry)
  PROVE  Fold(s) = Folding(s, Fold(s))
<1> DEFINE On(n, f) ==
             f = [S \in SUBSET (1 .. n) |->
                    IF S = {} THEN Untold ELSE Retell(f[S \ {Max(S)}], s[Max(S)])]
           T == {n \in Nat : \E f : On(n, f)}
<1>1. 0 \in T
  <2>1. On(0, [S \in {{}} |-> Untold])
    <3>1. SUBSET (1 .. 0) = {{}}
      OBVIOUS
    <3> QED BY <3>1
  <2> QED BY <2>1
<1>2. ASSUME NEW n \in Nat, n \in T PROVE n + 1 \in T
  <2>1. PICK f : On(n, f)
    BY <1>2
  <2> DEFINE g == [S \in SUBSET (1 .. n + 1) |->
                     IF S = {} THEN Untold ELSE Retell(f[S \ {Max(S)}], s[Max(S)])]
  <2>2. ASSUME NEW S \in SUBSET (1 .. n + 1), S # {}
        PROVE  g[S \ {Max(S)}] = f[S \ {Max(S)}]
    <3>1. S \ {Max(S)} \in SUBSET (1 .. n)
      <4>0. \A y \in S : y # n + 1 => y \in 1 .. n
        OBVIOUS
      <4>1. CASE n + 1 \in S
        <5>1. Max(S) = n + 1
          BY <4>1, MaxOfInterval
        <5> QED BY <4>0, <5>1
      <4>2. CASE n + 1 \notin S
        BY <4>0, <4>2
      <4> QED BY <4>1, <4>2
    <3>2. PICK U : U = S \ {Max(S)}
      OBVIOUS
    <3>3. U \in SUBSET (1 .. n) /\ U \in SUBSET (1 .. n + 1)
      BY <3>1, <3>2
    <3>4. g[U] = f[U]
      BY <2>1, <3>3
    <3> QED BY <3>2, <3>4
  <2>3. On(n + 1, g)
    BY <2>2
  <2>4. \E h : On(n + 1, h)
    <3> HIDE DEF On, g
    <3> QED BY <2>3
  <2>5. n + 1 \in Nat
    OBVIOUS
  <2> HIDE DEF On
  <2> QED BY <2>4, <2>5
<1>3. Len(s) \in T
  <2> HIDE DEF T
  <2>1. Nat \subseteq T
    BY <1>1, <1>2, Induction
  <2> QED BY <2>1
<1>4. PICK f : On(Len(s), f)
  BY <1>3
<1>5. DOMAIN s = 1 .. Len(s)
  OBVIOUS
<1>6. f = Folding(s, f)
  BY <1>4, <1>5, Zenon DEF Folding
<1>7. \E h : h = Folding(s, h)
  BY <1>6, Zenon
<1> QED BY <1>7, Zenon DEF Fold

(* What the first n events tell.                                           *)
Tale(s, n) == Fold(s)[1 .. n]

LEMMA TaleStart ==
  ASSUME NEW s \in Seq(Entry)
  PROVE  Tale(s, 0) = Untold
<1>1. 1 .. 0 \in SUBSET DOMAIN s /\ 1 .. 0 = {}
  OBVIOUS
<1>2. PICK F : F = Fold(s) /\ F = Folding(s, F)
  BY FoldSolves
<1> QED BY <1>1, <1>2 DEF Folding, Tale

LEMMA TaleStep ==
  ASSUME NEW s \in Seq(Entry), NEW n \in Nat, n + 1 <= Len(s)
  PROVE  Tale(s, n + 1) = Retell(Tale(s, n), s[n + 1])
<1>1. 1 .. n + 1 \in SUBSET DOMAIN s /\ 1 .. n + 1 # {} /\ n + 1 \in 1 .. n + 1
  <2>1. DOMAIN s = 1 .. Len(s) /\ Len(s) \in Nat
    OBVIOUS
  <2>2. \A i \in 1 .. n + 1 : i \in 1 .. Len(s)
    BY <2>1
  <2>3. n + 1 \in 1 .. n + 1
    OBVIOUS
  <2> QED BY <2>1, <2>2, <2>3
<1>2. Max(1 .. n + 1) = n + 1
  BY <1>1, MaxOfInterval
<1>3. (1 .. n + 1) \ {n + 1} = 1 .. n
  OBVIOUS
<1>4. PICK F : F = Fold(s) /\ F = Folding(s, F)
  BY FoldSolves
<1>5. F[1 .. n + 1] = Retell(F[(1 .. n + 1) \ {Max(1 .. n + 1)}], s[Max(1 .. n + 1)])
  BY <1>1, <1>4 DEF Folding
<1> QED BY <1>2, <1>3, <1>4, <1>5 DEF Tale

(* It depends on no other event.                                           *)
LEMMA SameTale ==
  ASSUME NEW s \in Seq(Entry), NEW t \in Seq(Entry),
         NEW n \in Nat, n <= Len(s), n <= Len(t), \A i \in 1 .. n : s[i] = t[i]
  PROVE  Tale(s, n) = Tale(t, n)
<1> DEFINE T == {i \in Nat : i <= n => Tale(s, i) = Tale(t, i)}
<1>1. 0 \in T
  BY TaleStart
<1>2. ASSUME NEW i \in Nat, i \in T PROVE i + 1 \in T
  <2> SUFFICES ASSUME i + 1 <= n PROVE Tale(s, i + 1) = Tale(t, i + 1)
    OBVIOUS
  <2>1. Tale(s, i) = Tale(t, i) /\ s[i + 1] = t[i + 1]
    BY <1>2
  <2>2. i + 1 <= Len(s) /\ i + 1 <= Len(t)
    OBVIOUS
  <2> QED BY <2>1, <2>2, TaleStep
<1>3. n \in T
  <2> HIDE DEF T
  <2> QED BY <1>1, <1>2, Induction
<1> QED BY <1>3

(* So it is what is told after n events.                                   *)
LEMMA TaleOfStart ==
  ASSUME NEW s \in Seq(Entry), NEW n \in 0 .. Len(s)
  PROVE  Story(SubSeq(s, 1, n)) = Tale(s, n)
<1>1. PICK t : t = SubSeq(s, 1, n)
  OBVIOUS
<1>2. t \in Seq(Entry) /\ Len(t) = n /\ DOMAIN t = 1 .. n /\ \A j \in 1 .. n : t[j] = s[j]
  BY <1>1
<1>3. Tale(t, n) = Tale(s, n)
  BY <1>2, SameTale
<1> QED BY <1>1, <1>2, <1>3 DEF Story, Tale

LEMMA ToldIsTale ==
  ASSUME NEW r, trail[r] \in Seq(Entry), NEW n \in 0 .. Len(trail[r])
  PROVE  Told(r, n) = Tale(trail[r], n)
<1>1. PICK s : s = trail[r]
  OBVIOUS
<1>2. Story(SubSeq(s, 1, n)) = Tale(s, n)
  BY <1>1, TaleOfStart
<1> QED BY <1>1, <1>2, ToldIsStory

(* A history s of n events that became t by the events e.                  *)
GoesOn(s, n, e, t) ==
  /\ s \in Seq(Entry) /\ e \in Seq(Entry) /\ t \in Seq(Entry)
  /\ n \in Nat /\ n = Len(s) /\ Len(t) = n + Len(e)
  /\ DOMAIN t = 1 .. n + Len(e) /\ DOMAIN s = 1 .. n
  /\ DOMAIN e = 1 .. Len(e) /\ Len(e) \in Nat
  /\ \A i \in 1 .. n : t[i] = s[i]
  /\ \A j \in 1 .. Len(e) : t[n + j] = e[j]

LEMMA Appended ==
  ASSUME NEW s \in Seq(Entry), NEW e \in Seq(Entry), NEW t, t = s \o e, NEW n, n = Len(s)
  PROVE  GoesOn(s, n, e, t)
BY DEF GoesOn

(* A history that ends as its request stands, and did not end before.      *)
Ends(s, n, life) ==
  /\ Tale(s, n) = life
  /\ \A i \in 1 .. n - 1 : Tale(s, i).status \notin Terminal

(* What a call leaves of a request, by the one or two events it writes.    *)
Leaves(life, e, new) ==
  \/ Len(e) = 1 /\ Retell(life, e[1]) = new
  \/ /\ Len(e) = 2 /\ e[1].act = "message_posted"
     /\ Retell(life, e[2]) = new /\ life.by = new.by /\ life.to = new.to

LEMMA MessageTellsNothing ==
  ASSUME NEW life, NEW e, e.act = "message_posted"
  PROVE  Retell(life, e) = life
BY Zenon DEF Retell

LEMMA OneCallMore ==
  ASSUME NEW s, NEW n, NEW e, NEW t, GoesOn(s, n, e, t),
         NEW life, NEW new, Ends(s, n, life), Leaves(life, e, new), life.status \notin Terminal
  PROVE  /\ \A i \in 0 .. n : Tale(t, i) = Tale(s, i)
         /\ Ends(t, Len(t), new)
         /\ \A j \in 1 .. Len(e) : Tale(t, n + j).by = new.by /\ Tale(t, n + j).to = new.to
<1> /\ s \in Seq(Entry) /\ e \in Seq(Entry) /\ t \in Seq(Entry)
    /\ n \in Nat /\ n = Len(s) /\ Len(t) = n + Len(e) /\ Len(e) \in Nat
    /\ \A i \in 1 .. n : t[i] = s[i]
    /\ \A j \in 1 .. Len(e) : t[n + j] = e[j]
  BY DEF GoesOn
<1>1. ASSUME NEW i \in 0 .. n PROVE Tale(t, i) = Tale(s, i)
  <2>1. i \in Nat /\ i <= Len(t) /\ i <= Len(s) /\ \A j \in 1 .. i : t[j] = s[j]
    OBVIOUS
  <2> QED BY <2>1, SameTale
<1>2. Tale(t, n) = life
  BY <1>1 DEF Ends
<1>3. \A i \in 1 .. n : Tale(t, i).status \notin Terminal
  <2> SUFFICES ASSUME NEW i \in 1 .. n PROVE Tale(t, i).status \notin Terminal
    OBVIOUS
  <2>1. CASE i = n
    BY <1>2, <2>1
  <2>2. CASE i # n
    <3>1. i \in 1 .. n - 1 /\ i \in 0 .. n
      BY <2>2
    <3> QED BY <3>1, <1>1 DEF Ends
  <2> QED BY <2>1, <2>2
<1>4. CASE Len(e) = 1 /\ Retell(life, e[1]) = new
  <2>1. n + 1 <= Len(t) /\ Len(t) = n + 1 /\ t[n + 1] = e[1] /\ Len(t) - 1 = n
    BY <1>4
  <2>2. Tale(t, n + 1) = new
    BY <1>2, <1>4, <2>1, TaleStep
  <2>3. Ends(t, Len(t), new)
    BY <1>3, <2>1, <2>2 DEF Ends
  <2> QED BY <1>1, <1>4, <2>2, <2>3
<1>5. CASE /\ Len(e) = 2 /\ e[1].act = "message_posted"
           /\ Retell(life, e[2]) = new /\ life.by = new.by /\ life.to = new.to
  <2>1. /\ n + 1 <= Len(t) /\ Len(t) = n + 2 /\ t[n + 1] = e[1] /\ t[n + 2] = e[2] /\ Len(t) - 1 = n + 1
        /\ n + 1 \in Nat /\ (n + 1) + 1 <= Len(t) /\ (n + 1) + 1 = n + 2
    BY <1>5
  <2>2. Tale(t, n + 1) = Retell(life, e[1])
    BY <1>2, <2>1, TaleStep
  <2>3. Tale(t, n + 1) = life
    BY <1>5, <2>2, MessageTellsNothing
  <2>4. Tale(t, (n + 1) + 1) = Retell(Tale(t, n + 1), t[(n + 1) + 1])
    BY <2>1, TaleStep
  <2>5. Tale(t, n + 2) = new
    BY <1>5, <2>1, <2>3, <2>4
  <2>6. \A i \in 1 .. n + 1 : i \in 1 .. n \/ i = n + 1
    OBVIOUS
  <2>7. Ends(t, Len(t), new)
    BY <1>3, <2>1, <2>3, <2>5, <2>6 DEF Ends
  <2>8. \A j \in 1 .. Len(e) : j = 1 \/ j = 2
    BY <1>5
  <2> QED BY <1>1, <1>5, <2>3, <2>5, <2>7, <2>8
<1> QED BY <1>4, <1>5 DEF Leaves

----------------------------------------------------------------------------
(* What is told, one event after the other, is how the request stands.     *)

(* No notification is of an event that did not happen.                     *)
OfEvents == \A n \in outbox : n[2] \in 1 .. Len(trail[n[1]])

(* HistoryTells and PartiesTold, of the histories themselves.              *)
EachEnds == \A r \in Req : Ends(trail[r], Len(trail[r]), LifeOf(r))

ToldTo(r, i, x) ==
  <<r, i, x>> \in outbox <=>
    /\ trail[r][i].act # "field_changed"
    /\ x \in Recipients(Tale(trail[r], i).by, Tale(trail[r], i).to, trail[r][i].who)

EachTold == \A r \in Req, x \in Person : \A i \in DOMAIN trail[r] : ToldTo(r, i, x)

Tales == EachEnds /\ EachTold /\ OfEvents

LEMMA TalesTell == TypeOK /\ Tales => HistoryTells /\ PartiesTold
<1> SUFFICES ASSUME TypeOK, Tales PROVE HistoryTells /\ PartiesTold
  OBVIOUS
<1>1. ASSUME NEW r \in Req, NEW i \in 0 .. Len(trail[r]) PROVE Told(r, i) = Tale(trail[r], i)
  BY ToldIsTale DEF TypeOK
<1>2. ASSUME NEW r \in Req
      PROVE  Len(trail[r]) \in Nat /\ DOMAIN trail[r] = 1 .. Len(trail[r])
  BY DEF TypeOK
<1>3. HistoryTells
  <2> SUFFICES ASSUME NEW r \in Req
               PROVE  /\ Told(r, Len(trail[r])) = LifeOf(r)
                      /\ \A i \in 1 .. Len(trail[r]) - 1 : Told(r, i).status \notin Terminal
    BY DEF HistoryTells
  <2>1. Ends(trail[r], Len(trail[r]), LifeOf(r))
    BY DEF Tales, EachEnds
  <2> QED BY <1>1, <1>2, <2>1 DEF Ends
<1>4. PartiesTold
  <2> SUFFICES ASSUME NEW r \in Req, NEW x \in Person
               PROVE  {i \in DOMAIN trail[r] : <<r, i, x>> \in outbox} =
                      {i \in DOMAIN trail[r] :
                         /\ trail[r][i].act # "field_changed"
                         /\ x \in Recipients(Told(r, i).by, Told(r, i).to, trail[r][i].who)}
    BY DEF PartiesTold
  <2>1. ASSUME NEW i \in DOMAIN trail[r]
        PROVE  <<r, i, x>> \in outbox <=>
                 /\ trail[r][i].act # "field_changed"
                 /\ x \in Recipients(Told(r, i).by, Told(r, i).to, trail[r][i].who)
    <3>1. Told(r, i) = Tale(trail[r], i)
      BY <1>1, <1>2
    <3>2. ToldTo(r, i, x)
      BY DEF Tales, EachTold
    <3> QED BY <3>1, <3>2 DEF ToldTo
  <2> QED BY <2>1
<1> QED BY <1>3, <1>4

LEMMA InitTales == Init => Tales
<1> SUFFICES ASSUME Init PROVE Tales
  OBVIOUS
<1>t. Inv
  BY InitInv
<1>1. PICK n \in Bijection(Old, 1 .. Cardinality(Old)), by \in [Old -> Member], to \in [Old -> Person] :
        /\ row = [r \in Req |->
                   IF r \in Old
                   THEN [status |-> "open", number |-> n[r], by |-> by[r], to |-> to[r], closer |-> None]
                   ELSE [status |-> "none", number |-> 0, by |-> None, to |-> None, closer |-> None]]
        /\ trail = [r \in Req |->
                     IF r \in Old THEN <<Event("created", by[r], to[r])>> ELSE <<>>]
        /\ outbox = UNION {{<<r, 1, x>> : x \in Recipients(by[r], to[r], by[r])} : r \in Old}
  BY DEF Init
<1>2. ASSUME NEW r \in Old
      PROVE  /\ Len(trail[r]) = 1 /\ DOMAIN trail[r] = {1} /\ r \in Req
             /\ trail[r][1].act = "created" /\ trail[r][1].who = by[r]
             /\ Tale(trail[r], 1) = LifeOf(r)
             /\ Tale(trail[r], 1).by = by[r] /\ Tale(trail[r], 1).to = to[r]
  <2>1. PICK e : e = Event("created", by[r], to[r])
    OBVIOUS
  <2>2. by[r] \in Member /\ to[r] \in Person /\ r \in Req
    BY DEF Req
  <2>3. e \in Entry /\ e.act = "created" /\ e.who = by[r] /\ e.value = to[r]
    BY <2>1, <2>2 DEF Event, Entry, Person
  <2>4. trail[r] = <<e>>
    BY <1>1, <2>1, <2>2
  <2>5. Tale(trail[r], 1) = Retell(Untold, e)
    <3>1. <<e>> \in Seq(Entry) /\ 0 \in Nat /\ 0 + 1 <= Len(<<e>>) /\ 0 + 1 = 1 /\ <<e>>[1] = e
      BY <2>3
    <3>2. Tale(<<e>>, 0 + 1) = Retell(Tale(<<e>>, 0), <<e>>[0 + 1])
      BY <3>1, TaleStep
    <3> QED BY <2>4, <3>1, <3>2, TaleStart
  <2>6. Retell(Untold, e) = [status |-> "open", by |-> by[r], to |-> to[r], closer |-> None]
    BY <2>3, Zenon DEF Retell
  <2>7. LifeOf(r) = [status |-> "open", by |-> by[r], to |-> to[r], closer |-> None]
    BY <1>1, <2>2 DEF LifeOf
  <2>8. Len(<<e>>) = 1 /\ DOMAIN <<e>> = {1} /\ <<e>>[1] = e
    OBVIOUS
  <2> QED BY <2>2, <2>3, <2>4, <2>5, <2>6, <2>7, <2>8
<1>3. ASSUME NEW r \in Req \ Old
      PROVE  Len(trail[r]) = 0 /\ DOMAIN trail[r] = {} /\ Tale(trail[r], 0) = Untold /\ LifeOf(r) = Untold
  <2>1. trail[r] = <<>>
    BY <1>1
  <2>2. LifeOf(r) = Untold
    BY <1>1 DEF LifeOf, Untold
  <2>3. <<>> \in Seq(Entry) /\ Len(<<>>) = 0 /\ DOMAIN <<>> = {}
    OBVIOUS
  <2> QED BY <2>1, <2>2, <2>3, TaleStart
<1>4. EachEnds
  <2> SUFFICES ASSUME NEW r \in Req PROVE Ends(trail[r], Len(trail[r]), LifeOf(r))
    BY DEF EachEnds
  <2>1. CASE r \in Old
    <3>1. Tale(trail[r], 1) = LifeOf(r) /\ Len(trail[r]) = 1
      BY <1>2, <2>1
    <3>2. \A i \in 1 .. 1 - 1 : FALSE
      OBVIOUS
    <3> QED BY <3>1, <3>2, Zenon DEF Ends
  <2>2. CASE r \notin Old
    BY <1>3, <2>2 DEF Ends
  <2> QED BY <2>1, <2>2
<1>5. EachTold
  <2> SUFFICES ASSUME NEW r \in Req, NEW x \in Person, NEW i \in DOMAIN trail[r] PROVE ToldTo(r, i, x)
    BY DEF EachTold
  <2>1. r \in Old /\ i = 1
    <3>1. CASE r \in Old
      BY <3>1, <1>2
    <3>2. CASE r \notin Old
      BY <3>2, <1>3
    <3> QED BY <3>1, <3>2
  <2>2. /\ trail[r][1].act = "created" /\ trail[r][1].who = by[r]
        /\ Tale(trail[r], 1).by = by[r] /\ Tale(trail[r], 1).to = to[r]
    BY <1>2, <2>1
  <2>3. <<r, 1, x>> \in outbox <=> x \in Recipients(by[r], to[r], by[r])
    BY <1>1, <2>1
  <2> QED BY <2>1, <2>2, <2>3 DEF ToldTo
<1>6. OfEvents
  <2> SUFFICES ASSUME NEW m \in outbox PROVE m[2] \in 1 .. Len(trail[m[1]])
    BY DEF OfEvents
  <2>1. PICK r \in Old : m[1] = r /\ m[2] = 1
    BY <1>1
  <2>2. Len(trail[r]) = 1
    BY <1>2
  <2> QED BY <2>1, <2>2
<1> QED BY <1>4, <1>5, <1>6 DEF Tales

LEMMA SameTales ==
  ASSUME Tales, UNCHANGED <<row, trail, outbox>> PROVE Tales'
BY DEF Tales, EachEnds, EachTold, ToldTo, OfEvents, LifeOf, Recipients

(* A commit that tells what it does, and tells it to the parties.          *)
Commits(p, r, by, to, who, e, life, new) ==
  /\ r = call[p].req /\ who = call[p].who /\ Record(p, by, to)
  /\ e = EventsOf(call[p].act, who, call[p].to)
  /\ \A j \in DOMAIN e : e[j].who = who
  /\ life = LifeOf(r) /\ life.status \notin Terminal
  /\ new = LifeOf(r)' /\ new.by = by /\ new.to = to
  /\ Leaves(life, e, new)
  /\ \A q \in Req \ {r} : row'[q] = row[q]

LEMMA CommitTales ==
  ASSUME Inv, Tales, NEW p, NEW r \in Req, NEW e \in Seq(Entry),
         NEW by, NEW to, NEW who, NEW life, NEW new,
         Commits(p, r, by, to, who, e, life, new)
  PROVE  Tales'
<1>i. /\ EachEnds /\ EachTold /\ OfEvents
      /\ trail \in [Req -> Seq(Entry)] /\ outbox \subseteq Note
  BY DEF Inv, TypeOK, Tales
<1>1. PICK s, t, n : s = trail[r] /\ t = s \o e /\ n = Len(s)
  OBVIOUS
<1>2. s \in Seq(Entry)
  BY <1>i, <1>1
<1>g. GoesOn(s, n, e, t)
  BY <1>1, <1>2, Appended
<1>3. /\ t \in Seq(Entry) /\ n \in Nat /\ Len(t) = n + Len(e)
      /\ DOMAIN t = 1 .. n + Len(e) /\ DOMAIN s = 1 .. n /\ DOMAIN e = 1 .. Len(e) /\ Len(e) \in Nat
      /\ \A i \in 1 .. n : t[i] = s[i]
      /\ \A j \in 1 .. Len(e) : t[n + j] = e[j]
  BY <1>g DEF GoesOn
<1> DEFINE rows == {<<r, n + j, x>> : j \in {k \in DOMAIN e : e[k].act # "field_changed"},
                                      x \in Recipients(by, to, who)}
<1>4. /\ trail' = [trail EXCEPT ![r] = t]
      /\ outbox' = outbox \cup rows
  BY <1>1 DEF Record, Commits
<1>5. /\ \A m \in rows : \E j \in DOMAIN e, x \in Recipients(by, to, who) :
           m = <<r, n + j, x>> /\ e[j].act # "field_changed"
      /\ \A j \in DOMAIN e, x \in Recipients(by, to, who) :
           e[j].act # "field_changed" => <<r, n + j, x>> \in rows
  OBVIOUS
<1> HIDE DEF rows
<1>6. trail'[r] = t /\ \A q \in Req \ {r} : trail'[q] = trail[q]
  BY <1>i, <1>4
<1>7. Ends(s, n, life) /\ life.status \notin Terminal
  BY <1>i, <1>1 DEF EachEnds, Commits
<1>s. /\ \A i \in 0 .. n : Tale(t, i) = Tale(s, i)
      /\ Ends(t, Len(t), new)
      /\ \A j \in 1 .. Len(e) : Tale(t, n + j).by = new.by /\ Tale(t, n + j).to = new.to
  <2>1. Leaves(life, e, new)
    BY DEF Commits
  <2> QED BY <2>1, <1>g, <1>7, OneCallMore
<1>8. /\ \A i \in 0 .. n : Tale(t, i) = Tale(s, i)
      /\ Ends(t, Len(t), new)
      /\ \A j \in 1 .. Len(e) : Tale(t, n + j).by = by /\ Tale(t, n + j).to = to
  BY <1>s DEF Commits
<1>9. EachEnds'
  <2> SUFFICES ASSUME NEW q \in Req PROVE Ends(trail[q], Len(trail[q]), LifeOf(q))'
    BY DEF EachEnds
  <2>1. CASE q = r
    BY <2>1, <1>6, <1>8 DEF Commits
  <2>2. CASE q # r
    <3>1. Ends(trail[q], Len(trail[q]), LifeOf(q))
      BY <1>i DEF EachEnds
    <3>2. LifeOf(q)' = LifeOf(q)
      BY <2>2 DEF LifeOf, Commits
    <3> QED BY <3>1, <3>2, <2>2, <1>6
  <2> QED BY <2>1, <2>2
<1>10. OfEvents'
  <2> SUFFICES ASSUME NEW m \in outbox' PROVE m[2] \in 1 .. Len(trail'[m[1]])
    BY DEF OfEvents
  <2>1. CASE m \in outbox
    <3>1. m[1] \in Req /\ m[2] \in 1 .. Len(trail[m[1]])
      BY <2>1, <1>i DEF OfEvents, Note
    <3>2. CASE m[1] = r
      <4>1. m[2] \in 1 .. n
        BY <3>1, <3>2, <1>1
      <4>2. m[2] \in 1 .. Len(t)
        BY <4>1, <1>3
      <4> QED BY <4>2, <3>2, <1>6
    <3>3. CASE m[1] # r
      BY <3>1, <3>3, <1>6
    <3> QED BY <3>2, <3>3
  <2>2. CASE m \in rows
    <3>1. PICK j \in 1 .. Len(e) : m[1] = r /\ m[2] = n + j
      BY <2>2, <1>3, <1>5
    <3>2. n + j \in 1 .. Len(t)
      BY <1>3
    <3> QED BY <3>1, <3>2, <1>6
  <2> QED BY <2>1, <2>2, <1>4
<1>11. EachTold'
  <2> SUFFICES ASSUME NEW q \in Req, NEW x \in Person, NEW i \in DOMAIN trail'[q]
               PROVE  ToldTo(q, i, x)'
    BY DEF EachTold
  <2>1. CASE q # r
    <3>1. ToldTo(q, i, x)
      BY <2>1, <1>i, <1>6 DEF EachTold
    <3>2. <<q, i, x>> \in outbox' <=> <<q, i, x>> \in outbox
      BY <2>1, <1>4, <1>5
    <3> QED BY <2>1, <3>1, <3>2, <1>6 DEF ToldTo, Recipients
  <2>2. CASE q = r /\ i \in 1 .. n
    <3>1. ToldTo(r, i, x)
      BY <2>2, <1>i, <1>1, <1>3 DEF EachTold
    <3>2. <<r, i, x>> \in outbox' <=> <<r, i, x>> \in outbox
      <4>1. \A j \in DOMAIN e : i # n + j
        BY <2>2, <1>3
      <4> QED BY <4>1, <1>4, <1>5
    <3>3. t[i] = s[i] /\ Tale(t, i) = Tale(s, i)
      <4>1. i \in 0 .. n
        BY <2>2, <1>3
      <4> QED BY <4>1, <2>2, <1>3, <1>8
    <3> QED BY <2>2, <3>1, <3>2, <3>3, <1>1, <1>6 DEF ToldTo, Recipients
  <2>3. CASE q = r /\ i \notin 1 .. n
    <3>1. PICK j \in 1 .. Len(e) : i = n + j
      <4>1. i \in 1 .. n + Len(e)
        BY <2>3, <1>3, <1>6
      <4>2. i - n \in 1 .. Len(e) /\ i = n + (i - n)
        BY <4>1, <2>3, <1>3
      <4> QED BY <4>2
    <3>2. t[i] = e[j] /\ e[j].who = who /\ j \in DOMAIN e
      BY <3>1, <1>3 DEF Commits
    <3>3. <<r, i, x>> \notin outbox
      <4> SUFFICES ASSUME <<r, i, x>> \in outbox PROVE FALSE
        OBVIOUS
      <4>1. <<r, i, x>>[2] \in 1 .. Len(trail[<<r, i, x>>[1]])
        BY <1>i DEF OfEvents
      <4> QED BY <4>1, <2>3, <1>1
    <3>4. ASSUME <<r, i, x>> \in rows
          PROVE  e[j].act # "field_changed" /\ x \in Recipients(by, to, who)
      <4>1. PICK k \in DOMAIN e, y \in Recipients(by, to, who) :
              <<r, i, x>> = <<r, n + k, y>> /\ e[k].act # "field_changed"
        BY <3>4, <1>5
      <4>2. n + k = n + j /\ y = x
        BY <3>1, <4>1
      <4>3. k = j
        BY <4>2, <1>3
      <4> QED BY <4>1, <4>2, <4>3
    <3>5. e[j].act # "field_changed" /\ x \in Recipients(by, to, who) => <<r, i, x>> \in rows
      BY <3>1, <3>2, <1>5
    <3>6. Tale(t, i).by = by /\ Tale(t, i).to = to
      BY <3>1, <1>8
    <3> QED BY <2>3, <3>2, <3>3, <3>4, <3>5, <3>6, <1>4, <1>6 DEF ToldTo, Recipients
  <2> QED BY <2>1, <2>2, <2>3
<1> QED BY <1>9, <1>10, <1>11 DEF Tales

(* Of every call that commits.                                             *)
LEMMA EventsOfEach ==
  ASSUME NEW who, NEW to
  PROVE  /\ EventsOf("create", who, to) = <<Event("created", who, to)>>
         /\ EventsOf("message", who, to) = <<Event("message_posted", who, None)>>
         /\ EventsOf("edit", who, to) = <<Event("field_changed", who, None)>>
         /\ EventsOf("reassign", who, to) = <<Event("assignee_changed", who, to)>>
         /\ EventsOf("decline", who, to) =
              <<Event("message_posted", who, None), Event("status_changed", who, "declined")>>
         /\ \A act \in Transition \ {"decline"} :
              EventsOf(act, who, to) = <<Event("status_changed", who, To[act])>>
BY DEF EventsOf, Transition

LEMMA CreateTales ==
  ASSUME Inv, Tales, NEW p \in Process, CommitCreate(p) PROVE Tales'
<1>1. /\ call[p].pc = "locked" /\ call[p].act = "create"
      /\ row' = [row EXCEPT ![p] = [status |-> "open", number |-> call[p].seen.number, by |-> call[p].who,
                                    to |-> call[p].to, closer |-> None]]
      /\ Record(p, call[p].who, call[p].to)
  BY DEF CommitCreate
<1>2. /\ call[p].req = p /\ call[p].who \in Member /\ call[p].to \in Person /\ row[p].status = "none"
      /\ row \in [Req -> Row] /\ p \in Req
  BY <1>1 DEF Inv, TypeOK, Held, Creating, Changing, NotYet, Act, Transition, Req
<1>3. PICK by, to : by = call[p].who /\ to = call[p].to
  OBVIOUS
<1>4. PICK new : new = LifeOf(p)'
  OBVIOUS
<1>5. /\ new = [status |-> "open", by |-> by, to |-> to, closer |-> None]
      /\ \A q \in Req \ {p} : row'[q] = row[q]
  BY <1>1, <1>2, <1>3, <1>4 DEF LifeOf
<1>6. PICK x : x = Event("created", by, to)
  OBVIOUS
<1>7. x \in Entry /\ x.act = "created" /\ x.who = by /\ x.value = to
  BY <1>2, <1>3, <1>6 DEF Event, Entry, Person
<1>8. PICK e : e = <<x>>
  OBVIOUS
<1>9. e \in Seq(Entry) /\ Len(e) = 1 /\ DOMAIN e = {1} /\ e[1] = x
  BY <1>7, <1>8
<1>10. e = EventsOf("create", by, to)
  BY <1>6, <1>8, EventsOfEach
<1>11. PICK life : life = LifeOf(p)
  OBVIOUS
<1>12. life.status \notin Terminal
  BY <1>2, <1>11 DEF LifeOf, Terminal
<1>13. Retell(life, e[1]) = new
  <2>1. Retell(life, x) = [status |-> "open", by |-> x.who, to |-> x.value, closer |-> None]
    BY <1>7, Zenon DEF Retell
  <2> QED BY <2>1, <1>5, <1>7, <1>9
<1>14. Leaves(life, e, new)
  BY <1>9, <1>13 DEF Leaves
<1>15. new.by = by /\ new.to = to
  BY <1>5
<1>16. Commits(p, p, by, to, by, e, life, new)
  BY <1>1, <1>2, <1>3, <1>4, <1>5, <1>7, <1>9, <1>10, <1>11, <1>12, <1>14, <1>15 DEF Commits
<1> QED BY <1>2, <1>9, <1>16, CommitTales

(* What a call on a request has read is how the request stands.            *)
LEMMA ReadIsRow ==
  ASSUME Inv, NEW p \in Process, call[p].pc = "locked", call[p].act # "create",
         Allowed(call[p].act, call[p].who, call[p].seen)
  PROVE  /\ call[p].req \in Req /\ call[p].who \in Person /\ call[p].to \in Member
         /\ call[p].seen = row[call[p].req] /\ row[call[p].req] \in Row
         /\ row[call[p].req].status \notin Terminal
         /\ row \in [Req -> Row]
BY DEF Inv, TypeOK, Held, Creating, Changing, Allowed

LEMMA TransitionTales ==
  ASSUME Inv, Tales, NEW p \in Process, CommitTransition(p) PROVE Tales'
<1>1. /\ call[p].pc = "locked" /\ call[p].act \in Transition
      /\ Allowed(call[p].act, call[p].who, call[p].seen)
      /\ row' = [row EXCEPT ![call[p].req].status = To[call[p].act],
                            ![call[p].req].closer =
                               IF To[call[p].act] \in Terminal THEN call[p].who ELSE @]
      /\ Record(p, call[p].seen.by, call[p].seen.to)
  BY DEF CommitTransition
<1>2. PICK r, act, who, t, by, to :
        /\ r = call[p].req /\ act = call[p].act /\ who = call[p].who /\ t = To[act]
        /\ by = call[p].seen.by /\ to = call[p].seen.to
  OBVIOUS
<1>3. /\ r \in Req /\ who \in Person /\ by = row[r].by /\ to = row[r].to /\ row[r] \in Row
      /\ row[r].status \notin Terminal /\ row \in [Req -> Row]
  BY <1>1, <1>2, ReadIsRow DEF Transition
<1>4. row' = [row EXCEPT ![r].status = t, ![r].closer = IF t \in Terminal THEN who ELSE @]
  BY <1>1, <1>2
<1>5. /\ row'[r].status = t /\ row'[r].by = by /\ row'[r].to = to
      /\ row'[r].closer = IF t \in Terminal THEN who ELSE row[r].closer
      /\ \A q \in Req \ {r} : row'[q] = row[q]
  BY <1>3, <1>4 DEF Row
<1>6. PICK life, new, closer :
        life = LifeOf(r) /\ new = LifeOf(r)' /\ closer = IF t \in Terminal THEN who ELSE row[r].closer
  OBVIOUS
<1>7. /\ life = [status |-> row[r].status, by |-> by, to |-> to, closer |-> row[r].closer]
      /\ new = [status |-> t, by |-> by, to |-> to, closer |-> closer]
  BY <1>3, <1>5, <1>6 DEF LifeOf
<1>8. PICK x, y : x = Event("status_changed", who, t) /\ y = Event("message_posted", who, None)
  OBVIOUS
<1>9. /\ x \in Entry /\ x.act = "status_changed" /\ x.who = who /\ x.value = t
      /\ y \in Entry /\ y.act = "message_posted" /\ y.who = who
  <2>1. t \in {To[a] : a \in Transition}
    BY <1>1, <1>2
  <2> QED BY <2>1, <1>3, <1>8 DEF Event, Entry
<1>10. Retell(life, x) = new
  <2>1. Retell(life, x) = [life EXCEPT !.status = x.value,
                                       !.closer = IF x.value \in Terminal THEN x.who ELSE life.closer]
    BY <1>9, Zenon DEF Retell
  <2>2. (IF x.value \in Terminal THEN x.who ELSE life.closer) = closer /\ x.value = t
    BY <1>6, <1>7, <1>9
  <2>3. Retell(life, x) = [life EXCEPT !.status = t, !.closer = closer]
    BY <2>1, <2>2, Zenon
  <2> QED BY <2>3, <1>7
<1>11. PICK e : e = EventsOf(act, who, call[p].to)
  OBVIOUS
<1>12. /\ e \in Seq(Entry) /\ \A j \in DOMAIN e : e[j].who = who
       /\ Leaves(life, e, new)
  <2>1. life.by = new.by /\ life.to = new.to
    BY <1>7
  <2>2. CASE act = "decline"
    <3>1. e = <<y, x>>
      <4>1. t = "declined"
        BY <1>2, <2>2 DEF To
      <4> QED BY <4>1, <2>2, <1>8, <1>11, EventsOfEach
    <3>2. e \in Seq(Entry) /\ Len(e) = 2 /\ DOMAIN e = {1, 2} /\ e[1] = y /\ e[2] = x
      BY <3>1, <1>9
    <3> QED BY <3>2, <2>1, <1>9, <1>10 DEF Leaves
  <2>3. CASE act # "decline"
    <3>1. e = <<x>>
      <4>1. act \in Transition \ {"decline"}
        BY <2>3, <1>1, <1>2
      <4> QED BY <4>1, <1>2, <1>8, <1>11, EventsOfEach
    <3>2. e \in Seq(Entry) /\ Len(e) = 1 /\ DOMAIN e = {1} /\ e[1] = x
      BY <3>1, <1>9
    <3> QED BY <3>2, <1>9, <1>10 DEF Leaves
  <2> QED BY <2>2, <2>3
<1>13. life.status \notin Terminal /\ new.by = by /\ new.to = to
  BY <1>3, <1>7
<1>14. Commits(p, r, by, to, who, e, life, new)
  BY <1>1, <1>2, <1>5, <1>6, <1>11, <1>12, <1>13 DEF Commits
<1> QED BY <1>3, <1>12, <1>14, CommitTales

LEMMA ReassignTales ==
  ASSUME Inv, Tales, NEW p \in Process, CommitReassign(p) PROVE Tales'
<1>1. /\ call[p].pc = "locked" /\ call[p].act = "reassign"
      /\ Allowed(call[p].act, call[p].who, call[p].seen)
      /\ row' = [row EXCEPT ![call[p].req].to = call[p].to]
      /\ Record(p, call[p].seen.by, call[p].to)
  BY DEF CommitReassign
<1>2. PICK r, who, by, to :
        r = call[p].req /\ who = call[p].who /\ by = call[p].seen.by /\ to = call[p].to
  OBVIOUS
<1>3. /\ r \in Req /\ who \in Person /\ by = row[r].by /\ to \in Member /\ row[r] \in Row
      /\ row[r].status \notin Terminal /\ row \in [Req -> Row]
  BY <1>1, <1>2, ReadIsRow
<1>4. row' = [row EXCEPT ![r].to = to]
  BY <1>1, <1>2
<1>5. /\ row'[r].status = row[r].status /\ row'[r].by = by /\ row'[r].to = to
      /\ row'[r].closer = row[r].closer
      /\ \A q \in Req \ {r} : row'[q] = row[q]
  BY <1>3, <1>4 DEF Row
<1>6. PICK life, new : life = LifeOf(r) /\ new = LifeOf(r)'
  OBVIOUS
<1>7. /\ life = [status |-> row[r].status, by |-> by, to |-> row[r].to, closer |-> row[r].closer]
      /\ new = [status |-> row[r].status, by |-> by, to |-> to, closer |-> row[r].closer]
  BY <1>3, <1>5, <1>6 DEF LifeOf
<1>8. PICK x : x = Event("assignee_changed", who, to)
  OBVIOUS
<1>9. x \in Entry /\ x.act = "assignee_changed" /\ x.who = who /\ x.value = to
  BY <1>3, <1>8 DEF Event, Entry, Person
<1>10. Retell(life, x) = new
  <2>1. Retell(life, x) = [life EXCEPT !.to = to]
    BY <1>9, Zenon DEF Retell
  <2> QED BY <2>1, <1>7
<1>11. PICK e : e = <<x>>
  OBVIOUS
<1>12. e \in Seq(Entry) /\ Len(e) = 1 /\ DOMAIN e = {1} /\ e[1] = x
  BY <1>9, <1>11
<1>13. e = EventsOf("reassign", who, to)
  BY <1>8, <1>11, EventsOfEach
<1>14. Leaves(life, e, new) /\ life.status \notin Terminal /\ new.by = by /\ new.to = to
  BY <1>3, <1>7, <1>10, <1>12 DEF Leaves
<1>15. Commits(p, r, by, to, who, e, life, new)
  BY <1>1, <1>2, <1>5, <1>6, <1>9, <1>12, <1>13, <1>14 DEF Commits
<1> QED BY <1>3, <1>12, <1>15, CommitTales

LEMMA OtherTales ==
  ASSUME Inv, Tales, NEW p \in Process, CommitOther(p) PROVE Tales'
<1>1. /\ call[p].pc = "locked" /\ call[p].act \in {"message", "edit"}
      /\ Allowed(call[p].act, call[p].who, call[p].seen)
      /\ Record(p, call[p].seen.by, call[p].seen.to)
      /\ UNCHANGED row
  BY DEF CommitOther
<1>2. PICK r, who, by, to, act :
        /\ r = call[p].req /\ who = call[p].who /\ act = call[p].act
        /\ by = call[p].seen.by /\ to = call[p].seen.to
  OBVIOUS
<1>3. /\ r \in Req /\ who \in Person /\ by = row[r].by /\ to = row[r].to
      /\ row[r].status \notin Terminal
  BY <1>1, <1>2, ReadIsRow
<1>4. PICK life : life = LifeOf(r) /\ life = LifeOf(r)'
  BY <1>1 DEF LifeOf
<1>5. life.status \notin Terminal /\ life.by = by /\ life.to = to
  BY <1>3, <1>4 DEF LifeOf
<1>6. PICK x : x = Event(IF act = "message" THEN "message_posted" ELSE "field_changed", who, None)
  OBVIOUS
<1>7. x \in Entry /\ x.act \in {"message_posted", "field_changed"} /\ x.who = who
  BY <1>3, <1>6 DEF Event, Entry
<1>8. Retell(life, x) = life
  BY <1>7, Zenon DEF Retell
<1>9. PICK e : e = <<x>>
  OBVIOUS
<1>10. e \in Seq(Entry) /\ Len(e) = 1 /\ DOMAIN e = {1} /\ e[1] = x
  BY <1>7, <1>9
<1>11. e = EventsOf(act, who, call[p].to)
  <2>1. CASE act = "message"
    BY <2>1, <1>6, <1>9, EventsOfEach
  <2>2. CASE act = "edit"
    BY <2>2, <1>6, <1>9, EventsOfEach
  <2> QED BY <2>1, <2>2, <1>1, <1>2
<1>12. Leaves(life, e, life)
  BY <1>8, <1>10 DEF Leaves
<1>13. Commits(p, r, by, to, who, e, life, life)
  BY <1>1, <1>2, <1>4, <1>5, <1>7, <1>10, <1>11, <1>12 DEF Commits
<1> QED BY <1>3, <1>10, <1>13, CommitTales

LEMMA NextTales == Inv /\ Tales /\ [Next]_vars => Tales'
<1>1. ASSUME Inv, Tales, Next PROVE Tales'
  <2>1. PICK p \in Process : Step(p)
    BY <1>1 DEF Next
  <2>2. BeginCreate(p) \/ Begin(p) \/ Abandon(p) \/ Dispatch(p) \/ Crash(p)
          => UNCHANGED <<row, trail, outbox>>
    BY DEF BeginCreate, Begin, Abandon, Dispatch, Attempt, Deliver, MarkOutcome, MarkFailed, Crash, notes
  <2> QED BY <1>1, <2>1, <2>2, SameTales, CreateTales, TransitionTales, ReassignTales, OtherTales
          DEF Step, Commit
<1>2. UNCHANGED vars => UNCHANGED <<row, trail, outbox>>
  BY DEF vars, notes
<1> QED BY <1>1, <1>2, SameTales

LEMMA AlwaysTales == Spec => [](TypeOK /\ Tales)
<1>1. Inv => TypeOK
  BY DEF Inv
<1> QED BY <1>1, InitTales, NextTales, Invariant, PTL DEF Spec

(* However calls cross, the history of a request tells how it stands, and  *)
(* ends where it was closed.                                               *)
THEOREM HistoryIsTrue == Spec => []HistoryTells
BY AlwaysTales, TalesTell, PTL

(* The outbox names, for each event, who were parties to the request when  *)
(* it happened, and nobody else.                                           *)
THEOREM PartiesAreTold == Spec => []PartiesTold
BY AlwaysTales, TalesTell, PTL
=============================================================================
