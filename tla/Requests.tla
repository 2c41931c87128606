------------------------------ MODULE Requests ------------------------------
(***************************************************************************)
(* Requests between the members of an organization and its client          *)
(* contacts, with the trail of each, and the outbox of notifications.      *)
(*                                                                         *)
(* A call locks the request (or the organization, to number a new one),    *)
(* reads it, and then commits the row, its events and their outbox rows    *)
(* at once, or writes nothing.  After the commit and outside every lock,   *)
(* the same process hands the outbox rows to the notifier.  Each process   *)
(* makes one call.  A request that it creates has its identifier.          *)
(***************************************************************************)
EXTENDS Naturals, FiniteSets, Sequences, SequencesExt

CONSTANTS Old,       \* requests that are open already
          Process,   \* calls to come
          Member,    \* who may create requests
          Client,    \* client contacts
          Overseer,  \* holders of view-all-requests
          Admin,
          None,      \* nobody
          Ops        \* what may go wrong, a subset of OpKind

OpKind == {"abort",    \* a transaction fails
           "refused",  \* the notifier fails or throws
           "mark",     \* an outbox row cannot be written
           "crash"}    \* the process dies after its commit

ASSUME PersonAssumption ==
  /\ Admin \subseteq Overseer /\ Overseer \subseteq Member
  /\ Member \cap Client = {} /\ None \notin Member \cup Client
ASSUME IdAssumption ==
  /\ Old \cap Process = {} /\ None \notin Process
  /\ IsFiniteSet(Old)
ASSUME OpsAssumption == Ops \subseteq OpKind

Person == Member \cup Client
Req == Old \cup Process

VARIABLES
  row,       \* the Request rows
  next,      \* Organization.nextRequestNumber
  trail,     \* the events of each request
  orgLock,   \* who holds the lock on the organization
  lock,      \* who holds the lock on each request
  call,      \* each call: where it is, what it asks, what it has read,
             \* what it has to tell, and which of it is on the way
  outbox,    \* notifications: request, number of the event, recipient
  attempted, \* those with attempts > 0
  handled,   \* those whose outcome is written: delivered, skipped or failed
  given,     \* history: those that the notifier was given
  left       \* history: those that a fault kept from being marked

locks == <<orgLock, lock>>
notes == <<outbox, attempted, handled, given, left>>
vars == <<row, next, trail, locks, call, notes>>

Terminal == {"granted", "declined", "cancelled"}

(* The four transitions, and the other calls on a request. *)
Transition == {"answer", "grant", "decline", "cancel"}
Act == Transition \cup {"message", "edit", "reassign"}
To == [answer |-> "answered", grant |-> "granted",
       decline |-> "declined", cancel |-> "cancelled"]

Idle == [pc |-> "idle", act |-> None, who |-> None, req |-> None, to |-> None,
         seen |-> None, todo |-> {}, note |-> None]

Event(act, who, value) == [act |-> act, who |-> who, value |-> value]

(* The parties of a request, but for whoever acts: recipientsFor. *)
Recipients(by, to, who) == {by, to} \ {who}

Init ==
  /\ \E n \in Bijection(Old, 1 .. Cardinality(Old)), by \in [Old -> Member], to \in [Old -> Person] :
       /\ row = [r \in Req |->
                   IF r \in Old
                   THEN [status |-> "open", number |-> n[r], by |-> by[r], to |-> to[r], closer |-> None]
                   ELSE [status |-> "none", number |-> 0, by |-> None, to |-> None, closer |-> None]]
       /\ trail = [r \in Req |->
                     IF r \in Old THEN <<Event("created", by[r], to[r])>> ELSE <<>>]
       /\ outbox = UNION {{<<r, 1, x>> : x \in Recipients(by[r], to[r], by[r])} : r \in Old}
  /\ next = Cardinality(Old) + 1
  /\ orgLock = None /\ lock = [r \in Req |-> None]
  /\ call = [p \in Process |-> Idle]
  /\ attempted = outbox /\ handled = outbox /\ given = outbox
  /\ left = {}

----------------------------------------------------------------------------
Asks(act, who, r, to, seen) ==
  [Idle EXCEPT !.pc = "locked", !.act = act, !.who = who, !.req = r, !.to = to, !.seen = seen]

(* Mutant of BeginCreate: the number is read, and the row not locked. *)
BeginCreateUnlocked(p) ==
  /\ call[p].pc = "idle"
  /\ \E who \in Member, to \in Person :
       call' = [call EXCEPT ![p] = Asks("create", who, p, to, [row[p] EXCEPT !.number = next])]
  /\ UNCHANGED <<row, next, trail, locks, notes>>

(* createRequest: what is validated does not depend on the other rows. *)
BeginCreate(p) ==
  /\ call[p].pc = "idle" /\ orgLock = None
  /\ orgLock' = p
  /\ \E who \in Member, to \in Person :
       call' = [call EXCEPT ![p] = Asks("create", who, p, to, [row[p] EXCEPT !.number = next])]
  /\ UNCHANGED <<row, next, trail, lock, notes>>

(* Mutant of Begin: the row is read, and not locked. *)
BeginUnlocked(p) ==
  /\ call[p].pc = "idle"
  /\ \E r \in Req, who \in Person, act \in Act, to \in Member :
       /\ row[r].status # "none"
       /\ act # "reassign" => to = row[r].by
       /\ who \in Client => act \in {"answer", "grant", "decline", "message"}
       /\ call' = [call EXCEPT ![p] = Asks(act, who, r, to, row[r])]
  /\ UNCHANGED <<row, next, trail, locks, notes>>

(* lockRequest: the row, locked and read. *)
Begin(p) ==
  /\ call[p].pc = "idle"
  /\ \E r \in Req, who \in Person, act \in Act, to \in Member :
       /\ row[r].status # "none" /\ lock[r] = None
       /\ act # "reassign" => to = row[r].by    \* no matter
       /\ who \in Client => act \in {"answer", "grant", "decline", "message"}
       /\ lock' = [lock EXCEPT ![r] = p]
       /\ call' = [call EXCEPT ![p] = Asks(act, who, r, to, row[r])]
  /\ UNCHANGED <<row, next, trail, orgLock, notes>>

Release(p) ==
  /\ orgLock' = IF orgLock = p THEN None ELSE orgLock
  /\ lock' = [r \in Req |-> IF lock[r] = p THEN None ELSE lock[r]]

(* Mutant of Allowed: a thread stays open when its request is closed. *)
AllowedAfterEnd(act, who, seen) ==
  /\ who \in {seen.by, seen.to} \cup Overseer
  /\ act # "message" => seen.status \notin Terminal
  /\ act = "answer" => seen.status = "open"
  /\ act \in {"answer", "decline"} => who \in {seen.to} \cup Admin
  /\ act \in {"grant", "cancel", "edit"} => who \in {seen.by} \cup Admin
  /\ act = "reassign" => who \in Overseer /\ seen.to \notin Client

(* requireParty, the terminal check, the transition table and the guard of *)
(* each actor, on the row that was read.                                   *)
Allowed(act, who, seen) ==
  /\ who \in {seen.by, seen.to} \cup Overseer
  /\ seen.status \notin Terminal
  /\ act = "answer" => seen.status = "open"
  /\ act \in {"answer", "decline"} => who \in {seen.to} \cup Admin
  /\ act \in {"grant", "cancel", "edit"} => who \in {seen.by} \cup Admin
  /\ act = "reassign" => who \in Overseer /\ seen.to \notin Client

(* 403, 404 or 409, or a transaction that fails: nothing is written. *)
Abandon(p) ==
  LET c == call[p] IN
  /\ c.pc = "locked"
  /\ "abort" \in Ops \/ (c.act # "create" /\ ~Allowed(c.act, c.who, c.seen))
  /\ Release(p)
  /\ call' = [call EXCEPT ![p] = [Idle EXCEPT !.pc = "done"]]
  /\ UNCHANGED <<row, next, trail, notes>>

(* The events of a call; the reason of a decline is a message. *)
EventsOf(act, who, to) ==
  CASE act = "create" -> <<Event("created", who, to)>>
    [] act = "message" -> <<Event("message_posted", who, None)>>
    [] act = "edit" -> <<Event("field_changed", who, None)>>
    [] act = "reassign" -> <<Event("assignee_changed", who, to)>>
    [] act = "decline" -> <<Event("message_posted", who, None),
                            Event("status_changed", who, "declined")>>
    [] act \in Transition \ {"decline"} -> <<Event("status_changed", who, To[act])>>

(* Events, outbox rows and the release, with the row in one transaction. *)
Record(p, by, to) ==
  LET c == call[p]
      r == c.req
      events == EventsOf(c.act, c.who, c.to)
      rows == {<<r, Len(trail[r]) + i, x>> :
                 i \in {j \in DOMAIN events : events[j].act # "field_changed"},
                 x \in Recipients(by, to, c.who)}
  IN /\ trail' = [trail EXCEPT ![r] = @ \o events]
     /\ outbox' = outbox \cup rows
     /\ call' = [call EXCEPT ![p] = [Idle EXCEPT !.pc = "dispatch", !.todo = rows]]
     /\ Release(p)
     /\ UNCHANGED <<attempted, handled, given, left>>

CommitCreate(p) ==
  LET c == call[p] IN
  /\ c.pc = "locked" /\ c.act = "create"
  /\ row' = [row EXCEPT ![p] = [status |-> "open", number |-> c.seen.number, by |-> c.who,
                                to |-> c.to, closer |-> None]]
  /\ next' = c.seen.number + 1
  /\ Record(p, c.who, c.to)

CommitTransition(p) ==
  LET c == call[p] IN
  /\ c.pc = "locked" /\ c.act \in Transition
  /\ Allowed(c.act, c.who, c.seen)
  /\ row' = [row EXCEPT ![c.req].status = To[c.act],
                        ![c.req].closer = IF To[c.act] \in Terminal THEN c.who ELSE @]
  /\ Record(p, c.seen.by, c.seen.to)
  /\ UNCHANGED next

(* Mutant of CommitReassign: the parties that were read are told. *)
ReassignTellsOld(p) ==
  LET c == call[p] IN
  /\ c.pc = "locked" /\ c.act = "reassign"
  /\ Allowed(c.act, c.who, c.seen)
  /\ row' = [row EXCEPT ![c.req].to = c.to]
  /\ Record(p, c.seen.by, c.seen.to)
  /\ UNCHANGED next

(* The incoming addressee is told, and not the outgoing one. *)
CommitReassign(p) ==
  LET c == call[p] IN
  /\ c.pc = "locked" /\ c.act = "reassign"
  /\ Allowed(c.act, c.who, c.seen)
  /\ row' = [row EXCEPT ![c.req].to = c.to]
  /\ Record(p, c.seen.by, c.to)
  /\ UNCHANGED next

(* postMessage and patchRequest: of the row only what is not modelled. *)
CommitOther(p) ==
  LET c == call[p] IN
  /\ c.pc = "locked" /\ c.act \in {"message", "edit"}
  /\ Allowed(c.act, c.who, c.seen)
  /\ Record(p, c.seen.by, c.seen.to)
  /\ UNCHANGED <<row, next>>

Commit(p) ==
  CommitCreate(p) \/ CommitTransition(p) \/ CommitReassign(p) \/ CommitOther(p)

----------------------------------------------------------------------------
(* drain, over the rows of this call. *)

At(p, pc, todo) == call' = [call EXCEPT ![p].pc = pc, ![p].todo = todo]

(* The row cannot be written: this one and the rest are left as they are. *)
GiveUp(p) == left' = left \cup call[p].todo /\ At(p, "done", {})

(* attempts is incremented before the attempt. *)
Attempt(p) ==
  /\ call[p].pc = "dispatch"
  /\ \/ \E n \in call[p].todo :
          /\ attempted' = attempted \cup {n}
          /\ call' = [call EXCEPT ![p].pc = "calling", ![p].note = n]
          /\ UNCHANGED left
     \/ call[p].todo = {} /\ At(p, "done", {}) /\ UNCHANGED <<attempted, left>>
     \/ call[p].todo # {} /\ "mark" \in Ops /\ GiveUp(p) /\ UNCHANGED attempted
  /\ UNCHANGED <<row, next, trail, locks, outbox, handled, given>>

(* The notifier answers, or throws. *)
Deliver(p) ==
  /\ call[p].pc = "calling"
  /\ given' = given \cup {call[p].note}
  /\ \/ call' = [call EXCEPT ![p].pc = "accepted"]
     \/ "refused" \in Ops /\ call' = [call EXCEPT ![p].pc = "refused"]
  /\ UNCHANGED <<row, next, trail, locks, outbox, attempted, handled, left>>

(* Mutant of MarkFailed: a failure ends the dispatch. *)
MarkFailedEnds(p) ==
  /\ call[p].pc = "refused"
  /\ handled' = handled \cup {call[p].note}
  /\ At(p, "done", {})
  /\ UNCHANGED <<row, next, trail, locks, outbox, attempted, given, left>>

(* The outcome is written; if it cannot be, then as a failure. *)
MarkOutcome(p) ==
  LET n == call[p].note IN
  /\ call[p].pc = "accepted"
  /\ \/ handled' = handled \cup {n} /\ At(p, "dispatch", call[p].todo \ {n})
     \/ "mark" \in Ops /\ call' = [call EXCEPT ![p].pc = "refused"] /\ UNCHANGED handled
  /\ UNCHANGED <<row, next, trail, locks, outbox, attempted, given, left>>

MarkFailed(p) ==
  LET n == call[p].note IN
  /\ call[p].pc = "refused"
  /\ \/ handled' = handled \cup {n} /\ At(p, "dispatch", call[p].todo \ {n}) /\ UNCHANGED left
     \/ "mark" \in Ops /\ GiveUp(p) /\ UNCHANGED handled
  /\ UNCHANGED <<row, next, trail, locks, outbox, attempted, given>>

Dispatch(p) == Attempt(p) \/ Deliver(p) \/ MarkOutcome(p) \/ MarkFailed(p)

(* The process dies after its commit. *)
Crash(p) ==
  /\ "crash" \in Ops /\ call[p].pc \in {"dispatch", "calling", "accepted", "refused"}
  /\ GiveUp(p)
  /\ UNCHANGED <<row, next, trail, locks, outbox, attempted, handled, given>>

Step(p) == BeginCreate(p) \/ Begin(p) \/ Abandon(p) \/ Commit(p) \/ Dispatch(p) \/ Crash(p)

Next == \E p \in Process : Step(p)

Spec == Init /\ [][Next]_vars

(* A call that is under way goes on; nobody has to make one. *)
FairSpec == Spec /\ \A p \in Process : WF_vars(Abandon(p) \/ Commit(p) \/ Dispatch(p))

----------------------------------------------------------------------------
Row == [status : {"none", "open", "answered"} \cup Terminal, number : Nat,
        by : Member \cup {None}, to : Person \cup {None}, closer : Person \cup {None}]
Note == Req \X Nat \X Person
Entry == [act : {"created", "status_changed", "assignee_changed", "field_changed", "message_posted"},
          who : Person, value : Person \cup {None} \cup {To[act] : act \in Transition}]
Call == [pc : {"idle", "locked", "dispatch", "calling", "accepted", "refused", "done"},
         act : Act \cup {"create", None}, who : Person \cup {None}, req : Req \cup {None},
         to : Person \cup {None}, seen : Row \cup {None}, todo : SUBSET Note,
         note : Note \cup {None}]

(* Every variable has its type. *)
TypeOK ==
  /\ row \in [Req -> Row]
  /\ next \in Nat
  /\ trail \in [Req -> Seq(Entry)]
  /\ orgLock \in Process \cup {None} /\ lock \in [Req -> Process \cup {None}]
  /\ call \in [Process -> Call]
  /\ outbox \cup attempted \cup handled \cup given \cup left \subseteq Note

LifeOf(r) == [status |-> row[r].status, by |-> row[r].by, to |-> row[r].to, closer |-> row[r].closer]
Lives == [r \in Req |-> LifeOf(r)]

(* However calls on one request cross, each takes effect on what the last  *)
(* one left, or is refused: two people never both close it, and nobody     *)
(* closes it who is not a party to it by then                              *)
(* (requests.service.ts:181-190, 746-880).                                 *)
Life == INSTANCE RequestLife WITH life <- Lives
KeepsToLife == Life!Spec

(* What a reader of the history makes of one more event.                   *)
Retell(t, e) ==
  CASE e.act = "created" -> [status |-> "open", by |-> e.who, to |-> e.value, closer |-> None]
    [] e.act = "status_changed" ->
         [t EXCEPT !.status = e.value,
                   !.closer = IF e.value \in Terminal THEN e.who ELSE @]
    [] e.act = "assignee_changed" -> [t EXCEPT !.to = e.value]
    [] OTHER -> t

Untold == [status |-> "none", by |-> None, to |-> None, closer |-> None]

(* The request after its first i events, as its history tells it.          *)
Told(r, i) == FoldLeft(Retell, Untold, SubSeq(trail[r], 1, i))

(* The history of a request tells how it stands: who has it, whether and   *)
(* by whom it was closed; and it ends there                                *)
(* (request-events.service.ts:36-44).                                      *)
HistoryTells ==
  \A r \in Req :
    /\ Told(r, Len(trail[r])) = LifeOf(r)
    /\ \A i \in 1 .. Len(trail[r]) - 1 : Told(r, i).status \notin Terminal

(* Of every event but an edit, those are told who were parties to the      *)
(* request when it happened, and nobody else; however calls cross          *)
(* (request-notifications.service.ts:68-95, requests.service.ts:1102).     *)
PartiesTold ==
  \A r \in Req, x \in Person :
    {i \in DOMAIN trail[r] : <<r, i, x>> \in outbox} =
    {i \in DOMAIN trail[r] : /\ trail[r][i].act # "field_changed"
                             /\ x \in Recipients(Told(r, i).by, Told(r, i).to, trail[r][i].who)}

(* The numbers of the requests have no gap and no duplicate, whatever      *)
(* transactions fail (requests.service.ts:592-636).                        *)
NumbersDense ==
  LET made == {r \in Req : row[r].status # "none"} IN
  /\ {row[r].number : r \in made} = 1 .. next - 1
  /\ \A q, r \in made : q # r => row[q].number # row[r].number

(* The notifier is given only what was committed, and the row says so by   *)
(* then, even if the process dies in between                               *)
(* (request-notifications.service.ts:135-144, 190-197).                    *)
GivenIsRecorded == given \subseteq outbox /\ given \subseteq attempted

(* One notification that fails keeps no other from its turn: all are       *)
(* handled in the end, but for those of a process that died or could not   *)
(* write (request-notifications.service.ts:180-224).                       *)
AllHandled == (outbox # handled \cup left) ~> (outbox = handled \cup left)
=============================================================================
