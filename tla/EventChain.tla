----------------------------- MODULE EventChain -----------------------------
(***************************************************************************)
(* The audit trail of one envelope: EnvelopeEventsService.record appends a *)
(* hash-linked event inside its caller's transaction, and the audit        *)
(* endpoint recomputes the chain.                                          *)
(*                                                                         *)
(* `record` runs at READ COMMITTED.  It locks the Envelope row, reads the  *)
(* last event it can see (committed, or its own), and inserts one that     *)
(* links to it; the lock is held until the caller's transaction ends.  A   *)
(* caller may record several events in one transaction.  Application       *)
(* servers do not share a clock, so the time a caller asks for is any      *)
(* value.  Event ids are random, so an id may fall anywhere in their order.*)
(*                                                                         *)
(* Corrupt is not code: it is the edited or deleted row that verifyChain   *)
(* exists to report.  The hash is a tuple of what it covers, which makes   *)
(* it injective.                                                           *)
(***************************************************************************)
EXTENDS Integers

CONSTANTS Writer,     \* transactions that record events on the envelope
          NoWriter,   \* the lock's holder when it is free
          Data,       \* (type, actor, metadata) of an event, as one value
          MaxClock,   \* bound on the time a caller asks for, in milliseconds
          MaxEvents   \* bound on the rows ever inserted

ASSUME WriterAssumption == NoWriter \notin Writer
ASSUME BoundAssumption == MaxClock \in Nat /\ MaxEvents \in Nat

Clock == 0 .. MaxClock
Id == 1 .. MaxEvents
NoHash == <<>>
NoPos == <<>>

VARIABLES
  rows,  \* the committed EnvelopeEvent rows
  mine,  \* the rows each open transaction has inserted
  lock,  \* the transaction that holds the Envelope row
  pc,    \* where `record` is in each transaction
  last,  \* the set holding the event it read as the last one; may be empty
  free,  \* the ids not handed out
  hole   \* where the first corrupted row stood, NoPos if none

chainVars == <<rows, mine, lock, pc, last, free, hole>>

----------------------------------------------------------------------------
(* One row; ip address, user agent and signer are outside the hash.         *)
Event(i, t, d, p, h) == [id |-> i, at |-> t, data |-> d, prev |-> p, hash |-> h]

(* The total order `ORDER BY occurredAt, id`. *)
Earlier(x, y) == x.at < y.at \/ (x.at = y.at /\ x.id < y.id)

IsLast(x, S) == x \in S /\ \A y \in S \ {x} : Earlier(y, x)

(* computeEventHash. *)
HashOf(e) == <<e.prev, e.at, e.data>>

(* Mutant of Linked: each row only hashes itself. *)
SelfHashed(S, e) == e \in S

(* The first half of verifyChain's loop: previousEventHash of row i is the *)
(* hash of row i - 1, or empty on the first.                               *)
Linked(S, e) ==
  LET before == {x \in S : Earlier(x, e)}
  IN  IF before = {} THEN e.prev = NoHash
                     ELSE \E x \in before : IsLast(x, before) /\ e.prev = x.hash

Good(S, e) == Linked(S, e) /\ e.hash = HashOf(e)

(* verifyChain, given the rows in order, answers valid. *)
Verifies(S) == \A e \in S : Good(S, e)

(* The row that it reports otherwise: the first divergence. *)
FirstInvalid(S, e) ==
  /\ e \in S
  /\ ~Good(S, e)
  /\ \A x \in S : Earlier(x, e) => Good(S, x)

----------------------------------------------------------------------------
ChainInit ==
  /\ rows = {}
  /\ mine = [w \in Writer |-> {}]
  /\ lock = NoWriter
  /\ pc = [w \in Writer |-> "idle"]
  /\ last = [w \in Writer |-> {}]
  /\ free = Id
  /\ hole = NoPos

(* Mutant of LockEnvelope: `record` without SELECT ... FOR UPDATE. *)
NoLock(w) ==
  /\ pc[w] \in {"idle", "inserted"}
  /\ pc' = [pc EXCEPT ![w] = "locked"]
  /\ UNCHANGED <<rows, mine, lock, last, free, hole>>

(* SELECT ... FOR UPDATE; a second `record` in one transaction re-enters. *)
LockEnvelope(w) ==
  /\ pc[w] \in {"idle", "inserted"}
  /\ lock \in {NoWriter, w}
  /\ lock' = w
  /\ pc' = [pc EXCEPT ![w] = "locked"]
  /\ UNCHANGED <<rows, mine, last, free, hole>>

(* The statement's own snapshot: what is committed, and the writer's own. *)
Visible(w) == rows \cup mine[w]

ReadLast(w) ==
  /\ pc[w] = "locked"
  /\ last' = [last EXCEPT ![w] = {x \in Visible(w) : IsLast(x, Visible(w))}]
  /\ pc' = [pc EXCEPT ![w] = "read"]
  /\ UNCHANGED <<rows, mine, lock, free, hole>>

(* Mutant of OccurredAt: no nudge past the previous event. *)
AsRequested(previous, requested) == requested

(* A time not after the previous event's is moved one millisecond past it. *)
OccurredAt(previous, requested) ==
  IF \E x \in previous : requested <= x.at
  THEN (CHOOSE x \in previous : TRUE).at + 1
  ELSE requested

PreviousHash(previous) ==
  IF previous = {} THEN NoHash ELSE (CHOOSE x \in previous : TRUE).hash

Insert(w) ==
  /\ pc[w] = "read"
  /\ \E requested \in Clock, i \in free, d \in Data :
       LET at == OccurredAt(last[w], requested)
           prev == PreviousHash(last[w])
           e == Event(i, at, d, prev, <<prev, at, d>>)
       IN  /\ mine' = [mine EXCEPT ![w] = @ \cup {e}]
           /\ free' = free \ {i}
  /\ pc' = [pc EXCEPT ![w] = "inserted"]
  /\ UNCHANGED <<rows, lock, last, hole>>

(* Commit and rollback both release the row and forget what was read. *)
EndTransaction(w) ==
  /\ mine' = [mine EXCEPT ![w] = {}]
  /\ pc' = [pc EXCEPT ![w] = "idle"]
  /\ last' = [last EXCEPT ![w] = {}]
  /\ lock' = NoWriter
  /\ UNCHANGED <<free, hole>>

Commit(w) ==
  /\ pc[w] = "inserted"
  /\ rows' = rows \cup mine[w]
  /\ EndTransaction(w)

(* The caller fails, or the process dies: nothing of the transaction stays. *)
Rollback(w) ==
  /\ pc[w] # "idle"
  /\ rows' = rows
  /\ EndTransaction(w)

----------------------------------------------------------------------------
(* One column of one row is edited in the database, or a row that is not   *)
(* the last is deleted, once.                                              *)

Tampered == hole # NoPos

Replace(e, f) ==
  /\ f # e
  /\ rows' = (rows \ {e}) \cup {f}
  /\ hole' = <<IF f.at < e.at THEN f.at ELSE e.at, e.id>>

EditRow ==
  \E e \in rows :
    \/ \E d \in Data : Replace(e, Event(e.id, e.at, d, e.prev, e.hash))
    \/ \E t \in Clock : Replace(e, Event(e.id, t, e.data, e.prev, e.hash))
    \/ \E x \in rows : Replace(e, Event(e.id, e.at, e.data, e.prev, x.hash))
    \/ \E x \in rows : Replace(e, Event(e.id, e.at, e.data, x.hash, e.hash))

DeleteRow ==
  \E e \in rows :
    /\ \E x \in rows : Earlier(e, x)
    /\ rows' = rows \ {e}
    /\ hole' = <<e.at, e.id>>

Corrupt ==
  /\ ~Tampered
  /\ EditRow \/ DeleteRow
  /\ UNCHANGED <<mine, lock, pc, last, free>>

ChainNext ==
  \/ \E w \in Writer :
       LockEnvelope(w) \/ ReadLast(w) \/ Insert(w) \/ Commit(w) \/ Rollback(w)
  \/ Corrupt

ChainSpec == ChainInit /\ [][ChainNext]_chainVars

----------------------------------------------------------------------------
(* Every variable has its type, and a transaction has rows or a last event *)
(* to link to only while it holds the Envelope row.                        *)
ChainTypeOK ==
  /\ \A e \in rows \cup UNION {mine[w] : w \in Writer} :
       e.id \in Id \ free /\ e.at \in Nat /\ e.data \in Data
  /\ lock \in Writer \cup {NoWriter}
  /\ pc \in [Writer -> {"idle", "locked", "read", "inserted"}]
  /\ \A w \in Writer : pc[w] = "idle" => mine[w] = {} /\ last[w] = {}
  /\ \A w \in Writer : pc[w] # "idle" <=> lock = w
  /\ free \subseteq Id

(* The audit endpoint never reports an honest trail as tampered, however   *)
(* the writers of an envelope interleave, whatever their clocks say and    *)
(* whichever of them roll back (envelope-events.service.ts:51-59, 67-71).  *)
ChainVerifies == ~Tampered => Verifies(rows)

(* A corrupted trail never verifies, whatever is recorded after, and the   *)
(* row reported as the first divergence is the edited one, or the one that *)
(* followed the deleted one (envelopes.ts:597-608).                        *)
AtOrAfterHole(e) == e.at > hole[1] \/ (e.at = hole[1] /\ e.id >= hole[2])

TamperLocated ==
  Tampered => \E e \in rows :
                /\ FirstInvalid(rows, e)
                /\ AtOrAfterHole(e)
                /\ \A x \in rows : AtOrAfterHole(x) => ~Earlier(x, e)

(* The order in which the audit shows events is the order in which their   *)
(* transactions committed: an event never appears before one that was      *)
(* already there (envelope-events.service.ts:67-76).                       *)
AuditOrderIsCommitOrder ==
  [][hole' = hole => \A e \in rows' \ rows : \A x \in rows :
       ~Tampered => Earlier(x, e)]_chainVars
=============================================================================
