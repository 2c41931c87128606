--------------------------- MODULE Evidence_proofs ---------------------------
(***************************************************************************)
(* What a completed envelope leaves behind: its audit trail (EventChain)   *)
(* and its signed PDF (FinalDocument).                                     *)
(*                                                                         *)
(* The trail verifies for any set of writers and any bounds.  A writer     *)
(* between its lock and the end of its transaction is the only one, so the *)
(* last event it read stays the last one of what it sees, and an event     *)
(* that is later than the last one breaks no link.  So the order of the    *)
(* trail is also the order of the commits.                                 *)
(*                                                                         *)
(* Once a row is edited or deleted, the first row at the hole does not     *)
(* verify and the rows before it do, for ever: what is recorded later      *)
(* comes after it, or links to the hash that is gone (Located).            *)
(*                                                                         *)
(* However many renders of one envelope run at once, fail or die, the row  *)
(* names stored bytes only, never changes what it names, and is not left   *)
(* pending with nothing at work.  The invariant follows the bytes: what a  *)
(* job has put is in the storage, and a row that names bytes names those   *)
(* of a job that had put them.  One job wins, and it alone notifies.       *)
(***************************************************************************)
EXTENDS EventChain, FinalDocument, FiniteSetTheorems, WellFoundedInduction, TLAPS

(* A chain that verifies and has a last event, if it has any.  That the    *)
(* last event exists is part of the invariant: it spares the proof an      *)
(* induction over finite sets.                                             *)
GoodLog(S) == Verifies(S) /\ (S = {} \/ \E x \in S : IsLast(x, S))

LastOf(S) == {x \in S : IsLast(x, S)}

(* The event `record` inserts.                                             *)
NewEvent(w, requested, i, d) ==
  LET at == OccurredAt(last[w], requested)
      prev == PreviousHash(last[w])
  IN  Event(i, at, d, prev, <<prev, at, d>>)

Row(e) == e.at \in Nat /\ e.id \in Nat

LogInv == ~Tampered => GoodLog(rows) /\ \A w \in Writer : GoodLog(Visible(w))

ReadInv ==
  ~Tampered => \A w \in Writer : pc[w] = "read" => last[w] = LastOf(Visible(w))

MapsOK ==
  /\ DOMAIN mine = Writer /\ DOMAIN last = Writer /\ DOMAIN pc = Writer
  /\ mine = [w \in Writer |-> mine[w]]
  /\ last = [w \in Writer |-> last[w]]
  /\ \A w \in Writer : \A x \in last[w] : x.at \in Nat

ChainInv == ChainTypeOK /\ MapsOK /\ LogInv /\ ReadInv

(* An event later than every other, linked to the last one, keeps a log    *)
(* good, and the log still has a last event.                               *)
LEMMA AppendKeepsGood ==
  ASSUME NEW S, NEW e, \A x \in S : Row(x), Row(e), GoodLog(S),
         e.hash = HashOf(e),
         \/ S = {} /\ e.prev = NoHash
         \/ \E x \in S : IsLast(x, S) /\ e.prev = x.hash /\ x.at < e.at
  PROVE  GoodLog(S \cup {e})
<1> DEFINE T == S \cup {e}
<1>1. \A x \in S : Earlier(x, e) /\ ~Earlier(e, x) /\ x # e
  BY DEF Earlier, IsLast, Row
<1>2. ~Earlier(e, e)
  BY DEF Earlier, Row
<1>3. {x \in T : Earlier(x, e)} = S
  BY <1>1, <1>2
<1>4. Good(T, e)
  BY <1>3 DEF Good, Linked
<1>5. ASSUME NEW x \in S PROVE Good(T, x)
  <2>1. {y \in T : Earlier(y, x)} = {y \in S : Earlier(y, x)}
    BY <1>1
  <2>2. Good(S, x)
    BY DEF GoodLog, Verifies
  <2> QED BY <2>1, <2>2 DEF Good, Linked
<1>6. Verifies(T)
  BY <1>4, <1>5 DEF Verifies
<1>7. IsLast(e, T)
  BY <1>1 DEF IsLast
<1> QED BY <1>6, <1>7 DEF GoodLog

(* The empty log is good. *)
LEMMA EmptyIsGood == GoodLog({})
  BY DEF GoodLog, Verifies

LEMMA ChainInitInv == ChainInit => ChainInv
<1> SUFFICES ASSUME ChainInit PROVE ChainInv
  OBVIOUS
<1> USE WriterAssumption, BoundAssumption DEF ChainInit
<1>1. ChainTypeOK
  BY DEF ChainTypeOK, Id
<1>2. MapsOK
  BY DEF MapsOK
<1>3. \A w \in Writer : Visible(w) = {}
  BY DEF Visible
<1>4. LogInv
  BY <1>3, EmptyIsGood DEF LogInv
<1>5. ReadInv
  BY DEF ReadInv
<1> QED BY <1>1, <1>2, <1>4, <1>5 DEF ChainInv

(* What a transaction sees when it inserts, and what it adds to it. *)
LEMMA InsertKeepsGood ==
  ASSUME ChainInv, ~Tampered, NEW w \in Writer, pc[w] = "read",
         NEW requested \in Clock, NEW i \in free, NEW d \in Data, NEW e,
         e = NewEvent(w, requested, i, d)
  PROVE  e.at \in Nat /\ GoodLog(Visible(w) \cup {e})
<1> DEFINE S == Visible(w)
<1> USE DEF NewEvent, Event
<1>1. \A x \in S : Row(x)
  BY DEF ChainInv, ChainTypeOK, Visible, Row, Id
<1>2. GoodLog(S) /\ last[w] = LastOf(S)
  BY DEF ChainInv, LogInv, ReadInv
<1>3. i \in Nat /\ requested \in Nat
  BY BoundAssumption DEF ChainInv, ChainTypeOK, Id, Clock
<1>4. e.hash = HashOf(e)
  BY DEF HashOf
<1>5. CASE S = {}
  <2>1. last[w] = {}
    BY <1>2, <1>5 DEF LastOf
  <2>2. e.at = requested /\ e.prev = NoHash /\ e.id = i
    BY <2>1 DEF OccurredAt, PreviousHash
  <2>3. Row(e)
    BY <2>2, <1>3 DEF Row
  <2> QED BY <1>1, <1>2, <1>4, <1>5, <2>2, <2>3, AppendKeepsGood DEF Row
<1>6. CASE S # {}
  <2>1. PICK x \in S : IsLast(x, S)
    BY <1>2, <1>6 DEF GoodLog
  <2>2. \A y \in S : IsLast(y, S) => y = x
    BY <2>1, <1>1 DEF IsLast, Earlier, Row
  <2>3. last[w] = {x}
    BY <1>2, <2>1, <2>2 DEF LastOf
  <2>4. (CHOOSE y \in last[w] : TRUE) = x
    BY <2>3
  <2>5. e.at = OccurredAt(last[w], requested) /\ e.prev = x.hash /\ e.id = i
    BY <2>3, <2>4 DEF PreviousHash
  <2>6. e.at \in Nat /\ x.at < e.at
    BY <2>3, <2>4, <2>5, <1>1, <1>3 DEF OccurredAt, Row
  <2>7. Row(e)
    BY <2>5, <2>6, <1>3 DEF Row
  <2> QED BY <1>1, <1>2, <1>4, <2>1, <2>5, <2>6, <2>7, AppendKeepsGood
<1> QED BY <1>5, <1>6

(* Only the writer that holds the row can have rows or be between its read *)
(* and its end.                                                            *)
LEMMA OneHolder ==
  ASSUME ChainTypeOK, NEW w \in Writer, pc[w] # "idle", NEW v \in Writer, v # w
  PROVE  pc[v] = "idle" /\ mine[v] = {} /\ last[v] = {} /\ Visible(v) = rows
  BY DEF ChainTypeOK, Visible

LEMMA ChainStepInv == ChainInv /\ [ChainNext]_chainVars => ChainInv'
<1> SUFFICES ASSUME ChainInv, [ChainNext]_chainVars PROVE ChainInv'
  OBVIOUS
<1> USE WriterAssumption, BoundAssumption
<1>0. ChainTypeOK /\ MapsOK /\ LogInv /\ ReadInv
  BY DEF ChainInv
<1>1. ASSUME NEW w \in Writer, LockEnvelope(w) PROVE ChainInv'
  <2> USE <1>0, <1>1 DEF LockEnvelope
  <2>1. ChainTypeOK'
    BY DEF ChainTypeOK
  <2>2. MapsOK'
    BY DEF MapsOK, ChainTypeOK
  <2>3. LogInv'
    BY DEF LogInv, Tampered, Visible
  <2>4. ReadInv'
    BY DEF ReadInv, Tampered, Visible, ChainTypeOK
  <2> QED BY <2>1, <2>2, <2>3, <2>4 DEF ChainInv
<1>2. ASSUME NEW w \in Writer, ReadLast(w) PROVE ChainInv'
  <2> USE <1>0, <1>2 DEF ReadLast
  <2>1. ChainTypeOK'
    BY DEF ChainTypeOK, MapsOK
  <2>2. MapsOK'
    <3>1. \A x \in Visible(w) : x.at \in Nat
      BY DEF Visible, ChainTypeOK
    <3>2. \A v \in Writer : last'[v] = last[v] \/ last'[v] \subseteq Visible(w)
      BY DEF MapsOK
    <3>3. \A v \in Writer : \A x \in last'[v] : x.at \in Nat
      BY <3>1, <3>2 DEF MapsOK
    <3> QED BY <3>3 DEF MapsOK, ChainTypeOK
  <2>3. LogInv'
    BY DEF LogInv, Tampered, Visible
  <2>4. ReadInv'
    BY DEF ReadInv, Tampered, Visible, ChainTypeOK, LastOf, MapsOK
  <2> QED BY <2>1, <2>2, <2>3, <2>4 DEF ChainInv
<1>3. ASSUME NEW w \in Writer, Insert(w) PROVE ChainInv'
  <2> USE <1>0, <1>3
  <2> USE DEF NewEvent, Event
  <2>a. PICK requested \in Clock, i \in free, d \in Data :
          /\ mine' = [mine EXCEPT ![w] = @ \cup {NewEvent(w, requested, i, d)}]
          /\ free' = free \ {i}
    BY DEF Insert
  <2>b. PICK e : e = NewEvent(w, requested, i, d)
    OBVIOUS
  <2>1. /\ e = NewEvent(w, requested, i, d)
        /\ mine' = [mine EXCEPT ![w] = @ \cup {e}]
        /\ free' = free \ {i}
    BY <2>a, <2>b
  <2>2. pc[w] = "read" /\ pc' = [pc EXCEPT ![w] = "inserted"]
        /\ UNCHANGED <<rows, lock, last, hole>>
    BY DEF Insert
  <2>3. \A v \in Writer \ {w} : Visible(v)' = Visible(v) /\ mine'[v] = mine[v]
    BY <2>1, <2>2 DEF Visible, MapsOK
  <2>4. Visible(w)' = Visible(w) \cup {e} /\ mine'[w] = mine[w] \cup {e}
    BY <2>1, <2>2 DEF Visible, MapsOK
  <2>5. e.id = i /\ e.data = d /\ e.at = OccurredAt(last[w], requested)
    BY <2>1
  <2>6. ChainTypeOK'
    <3>1. e.at \in Nat
      BY <2>5 DEF OccurredAt, MapsOK, Clock
    <3>2. e.id \in Id \ free' /\ e.data \in Data
      BY <2>1, <2>5 DEF ChainTypeOK
    <3>3. \A v \in Writer \ {w} : mine'[v] = mine[v]
      BY <2>3
    <3>4. \A x \in rows' \cup UNION {mine'[v] : v \in Writer} :
            x = e \/ x \in rows \cup UNION {mine[v] : v \in Writer}
      BY <2>2, <2>4, <3>3
    <3>5. \A x \in rows' \cup UNION {mine'[v] : v \in Writer} :
            x.id \in Id \ free' /\ x.at \in Nat /\ x.data \in Data
      BY <2>1, <3>1, <3>2, <3>4 DEF ChainTypeOK
    <3>6. pc'[w] = "inserted" /\ \A v \in Writer \ {w} : pc'[v] = pc[v]
      BY <2>2 DEF MapsOK
    <3>7. /\ \A v \in Writer : pc'[v] = "idle" => mine'[v] = {} /\ last'[v] = {}
          /\ \A v \in Writer : pc'[v] # "idle" <=> lock' = v
      BY <2>2, <3>3, <3>6 DEF ChainTypeOK
    <3>8. pc' \in [Writer -> {"idle", "locked", "read", "inserted"}]
      BY <2>2 DEF ChainTypeOK
    <3>9. free' \subseteq Id /\ lock' \in Writer \cup {NoWriter}
      BY <2>1, <2>2 DEF ChainTypeOK
    <3> QED BY <3>5, <3>7, <3>8, <3>9 DEF ChainTypeOK
  <2>7. MapsOK'
    BY <2>1, <2>2 DEF MapsOK, ChainTypeOK
  <2>8. LogInv'
    <3>1. Tampered' = Tampered
      BY <2>2 DEF Tampered
    <3>2. ~Tampered => GoodLog(Visible(w)')
      BY <2>1, <2>2, <2>4, InsertKeepsGood DEF ChainInv
    <3> QED BY <2>2, <2>3, <3>1, <3>2 DEF LogInv
  <2>9. ReadInv'
    BY <2>2, <2>3 DEF ReadInv, Tampered, ChainTypeOK
  <2> QED BY <2>6, <2>7, <2>8, <2>9 DEF ChainInv
<1>4. ASSUME NEW w \in Writer, rows' \in {rows, Visible(w)}, pc[w] # "idle",
             EndTransaction(w)
      PROVE  ChainInv'
  <2> USE <1>0, <1>4 DEF EndTransaction
  <2>1. /\ mine'[w] = {} /\ last'[w] = {} /\ pc'[w] = "idle"
        /\ \A v \in Writer \ {w} :
             /\ mine'[v] = mine[v] /\ last'[v] = last[v] /\ pc'[v] = pc[v]
             /\ pc[v] = "idle" /\ mine[v] = {} /\ last[v] = {}
    BY OneHolder DEF MapsOK
  <2>2. \A v \in Writer : mine'[v] = {} /\ last'[v] = {} /\ pc'[v] = "idle"
    BY <2>1
  <2>3. ChainTypeOK'
    <3>1. rows' \subseteq rows \cup UNION {mine[v] : v \in Writer}
      BY DEF Visible
    <3>2. \A v \in Writer : lock' # v
      OBVIOUS
    <3>3. pc' \in [Writer -> {"idle", "locked", "read", "inserted"}]
      BY DEF ChainTypeOK
    <3> QED BY <2>2, <3>1, <3>2, <3>3 DEF ChainTypeOK
  <2>4. MapsOK'
    BY <2>2 DEF MapsOK, ChainTypeOK
  <2>5. \A v \in Writer : Visible(v)' = rows'
    BY <2>2 DEF Visible
  <2>6. LogInv'
    BY <2>5 DEF LogInv, Tampered
  <2>7. ReadInv'
    BY <2>2 DEF ReadInv
  <2> QED BY <2>3, <2>4, <2>6, <2>7 DEF ChainInv
<1>5. ASSUME NEW w \in Writer, Commit(w) PROVE ChainInv'
  BY <1>4, <1>5 DEF Commit, Visible
<1>6. ASSUME NEW w \in Writer, Rollback(w) PROVE ChainInv'
  BY <1>4, <1>6 DEF Rollback
<1>7. CASE Corrupt
  <2> USE <1>0, <1>7
  <2>1. Tampered' /\ UNCHANGED <<mine, lock, pc, last, free>>
    <3>1. \E a, b : hole' = <<a, b>>
      BY DEF Corrupt, EditRow, DeleteRow, Replace
    <3> QED BY <3>1 DEF Corrupt, Tampered, NoPos
  <2>2. \A x \in rows' : x.id \in Id \ free /\ x.at \in Nat /\ x.data \in Data
    <3>1. CASE DeleteRow
      BY <3>1 DEF DeleteRow, ChainTypeOK
    <3>2. CASE EditRow
      <4>1. PICK e \in rows : \E t, d, p, h :
              /\ t \in Clock \cup {e.at} /\ d \in Data \cup {e.data}
              /\ Replace(e, Event(e.id, t, d, p, h))
        BY <3>2 DEF EditRow
      <4>2. PICK t, d, p, h :
              /\ t \in Clock \cup {e.at} /\ d \in Data \cup {e.data}
              /\ Replace(e, Event(e.id, t, d, p, h))
        BY <4>1
      <4>3. t \in Nat /\ d \in Data /\ e.id \in Id \ free
        BY <4>2 DEF ChainTypeOK, Clock
      <4> QED BY <4>2, <4>3 DEF Replace, Event, ChainTypeOK
    <3> QED BY <3>1, <3>2 DEF Corrupt
  <2>3. ChainTypeOK'
    BY <2>1, <2>2 DEF ChainTypeOK
  <2>4. MapsOK'
    BY <2>1 DEF MapsOK
  <2> QED BY <2>1, <2>3, <2>4 DEF ChainInv, LogInv, ReadInv
<1>8. CASE UNCHANGED chainVars
  BY <1>0, <1>8 DEF chainVars, ChainInv, ChainTypeOK, MapsOK, LogInv, ReadInv, Tampered, Visible
<1> QED BY <1>1, <1>2, <1>3, <1>5, <1>6, <1>7, <1>8 DEF ChainNext

(* Every reachable state satisfies the inductive invariant.                *)
THEOREM ChainInvHolds == ChainSpec => []ChainInv
  BY ChainInitInv, ChainStepInv, PTL DEF ChainSpec

(* The types hold, and only the holder of the Envelope row has anything    *)
(* uncommitted (envelope-events.service.ts:59).                            *)
THEOREM ChainTypeCorrect == ChainSpec => []ChainTypeOK
<1>1. ChainInv => ChainTypeOK
  BY DEF ChainInv
<1> QED BY <1>1, ChainInvHolds, PTL

(* An honest trail verifies, for any writers, clocks and rollbacks         *)
(* (envelope-events.service.ts:51-76).                                     *)
THEOREM HonestChainVerifies == ChainSpec => []ChainVerifies
<1>1. ChainInv => ChainVerifies
  BY DEF ChainInv, LogInv, GoodLog, ChainVerifies
<1> QED BY <1>1, ChainInvHolds, PTL

----------------------------------------------------------------------------
(* The order of the audit. *)

(* What a transaction has inserted is later than all that is committed.    *)
MineLater ==
  ~Tampered =>
    \A w \in Writer : \A e \in mine[w] : \A x \in rows : Earlier(x, e)

(* The event `record` inserts is later than all its transaction sees.      *)
LEMMA InsertIsLater ==
  ASSUME ChainInv, ~Tampered, NEW w \in Writer, pc[w] = "read",
         NEW requested \in Clock, NEW i \in free, NEW d \in Data, NEW e,
         e = NewEvent(w, requested, i, d)
  PROVE  \A x \in Visible(w) : x.at < e.at /\ Earlier(x, e)
<1> SUFFICES ASSUME NEW y \in Visible(w) PROVE y.at < e.at /\ Earlier(y, e)
  OBVIOUS
<1> DEFINE S == Visible(w)
<1>1. \A x \in S : Row(x)
  BY DEF ChainInv, ChainTypeOK, Visible, Row, Id
<1>2. GoodLog(S) /\ last[w] = LastOf(S)
  BY DEF ChainInv, LogInv, ReadInv
<1>3. PICK x \in S : IsLast(x, S)
  BY <1>2 DEF GoodLog
<1>4. \A z \in S : IsLast(z, S) => z = x
  BY <1>3, <1>1 DEF IsLast, Earlier, Row
<1>5. last[w] = {x}
  BY <1>2, <1>3, <1>4 DEF LastOf
<1>6. (CHOOSE z \in last[w] : TRUE) = x
  BY <1>5
<1>7. e.at = OccurredAt(last[w], requested)
  BY DEF NewEvent, Event
<1>8. requested \in Nat
  BY BoundAssumption DEF Clock
<1>9. x.at < e.at /\ e.at \in Nat
  BY <1>1, <1>5, <1>6, <1>7, <1>8 DEF OccurredAt, Row
<1>10. y.at <= x.at
  BY <1>1, <1>3 DEF IsLast, Earlier, Row
<1> QED BY <1>1, <1>9, <1>10 DEF Earlier, Row

LEMMA MineLaterKept ==
  ASSUME ChainInv, MineLater, [ChainNext]_chainVars PROVE MineLater'
<1> USE WriterAssumption
<1>0. ChainTypeOK /\ MapsOK
  BY DEF ChainInv
<1>1. ASSUME NEW w \in Writer, LockEnvelope(w) \/ ReadLast(w) PROVE MineLater'
  BY <1>1 DEF LockEnvelope, ReadLast, MineLater, Tampered
<1>2. ASSUME NEW w \in Writer, Insert(w) PROVE MineLater'
  <2>1. PICK requested \in Clock, i \in free, d \in Data :
          mine' = [mine EXCEPT ![w] = @ \cup {NewEvent(w, requested, i, d)}]
    BY <1>2 DEF Insert, NewEvent, Event
  <2>2. PICK e : e = NewEvent(w, requested, i, d)
    OBVIOUS
  <2>3. pc[w] = "read" /\ rows' = rows /\ hole' = hole
    BY <1>2 DEF Insert
  <2>4. ~Tampered => \A x \in rows : Earlier(x, e)
    BY <2>2, <2>3, InsertIsLater DEF Visible
  <2>5. mine'[w] = mine[w] \cup {e} /\ \A v \in Writer \ {w} : mine'[v] = mine[v]
    BY <1>0, <2>1, <2>2 DEF MapsOK
  <2> QED BY <2>3, <2>4, <2>5 DEF MineLater, Tampered
<1>3. ASSUME NEW w \in Writer, pc[w] # "idle", EndTransaction(w) PROVE MineLater'
  <2>1. \A v \in Writer : mine'[v] = {}
    BY <1>0, <1>3, OneHolder DEF EndTransaction, MapsOK
  <2> QED BY <2>1 DEF MineLater
<1>4. ASSUME NEW w \in Writer, Commit(w) \/ Rollback(w) PROVE MineLater'
  BY <1>3, <1>4 DEF Commit, Rollback
<1>5. CASE Corrupt
  BY <1>5 DEF Corrupt, EditRow, DeleteRow, Replace, MineLater, Tampered, NoPos
<1>6. CASE UNCHANGED chainVars
  BY <1>6 DEF chainVars, MineLater, Tampered
<1> QED BY <1>1, <1>2, <1>4, <1>5, <1>6 DEF ChainNext

(* An event never appears in the audit before one that was committed       *)
(* earlier, whatever times the callers ask for                             *)
(* (envelope-events.service.ts:67-76).                                     *)
THEOREM AuditInOrder == ChainSpec => AuditOrderIsCommitOrder
<1>1. ChainInit => MineLater
  BY DEF ChainInit, MineLater
<1>2. ChainInv /\ MineLater /\ [ChainNext]_chainVars => MineLater'
  BY MineLaterKept
<1>3. ChainInv /\ MineLater /\ [ChainNext]_chainVars =>
        [hole' = hole => \A e \in rows' \ rows : \A x \in rows :
           ~Tampered => Earlier(x, e)]_chainVars
  <2> SUFFICES ASSUME MineLater, [ChainNext]_chainVars, hole' = hole, ~Tampered,
                      NEW e \in rows' \ rows, NEW x \in rows
               PROVE  Earlier(x, e)
    BY DEF chainVars
  <2>1. PICK w \in Writer : Commit(w)
    BY DEF ChainNext, chainVars, LockEnvelope, ReadLast, Insert, Rollback, Corrupt,
       EditRow, DeleteRow, Replace, Tampered, NoPos
  <2>2. e \in mine[w]
    BY <2>1 DEF Commit
  <2> QED BY <2>2 DEF MineLater
<1> QED BY <1>1, <1>2, <1>3, ChainInvHolds, PTL DEF ChainSpec, AuditOrderIsCommitOrder

----------------------------------------------------------------------------
(* Where a corrupted trail stops verifying. *)

AllRows == rows \cup UNION {mine[w] : w \in Writer}

(* The first of the rows S.                                                *)
IsFirst(m, S) == m \in S /\ \A x \in S : x = m \/ Earlier(m, x)

(* The rows before the hole, and those at it or after it.                  *)
Below == {x \in rows : ~AtOrAfterHole(x)}
AtHole == {x \in rows : AtOrAfterHole(x)}

(* A row of time t that links to hash h either follows a row at the hole,  *)
(* or, if it comes first there, links to nothing that is left before it.   *)
Detached(t, h) ==
  \/ \E a \in AtHole : a.at < t
  \/ h # NoHash /\ \A x \in Below : h # x.hash

(* An id names one row; what a transaction has inserted has a first row;   *)
(* times are bounded, so that there is a last one.                         *)
OneRow ==
  \A x, y \in AllRows : x.id = y.id => x = y

MineHasFirst == \A w \in Writer : mine[w] = {} \/ \E m \in mine[w] : IsFirst(m, mine[w])

Bounded == \E n \in Nat : \A x \in AllRows : x.at <= n

IsRow(x) == x = Event(x.id, x.at, x.data, x.prev, x.hash)

HoleType == hole = NoPos \/ \E t, i \in Nat : hole = <<t, i>>

(* In an honest trail no two events have the same time.                    *)
OneTime ==
  ~Tampered =>
    \A S \in {rows} \cup {Visible(w) : w \in Writer} :
      \A x, y \in S : x.at = y.at => x = y

(* In a corrupted one, the rows before the hole are good, the first at the *)
(* hole is not, and what the open transactions will add or link to comes   *)
(* after it or is detached itself.                                         *)
Located ==
  Tampered =>
    /\ \A x \in Below : Good(rows, x)
    /\ \E e \in AtHole : IsFirst(e, AtHole) /\ ~Good(rows, e)
    /\ \A w \in Writer :
         /\ \A m \in mine[w] :
              m.at > hole[1] /\ (IsFirst(m, mine[w]) => Detached(m.at, m.prev))
         /\ pc[w] = "read" =>
              \E x \in last[w] :
                /\ last[w] = {x} /\ x.at >= hole[1]
                /\ \A m \in mine[w] : m.at <= x.at
                /\ mine[w] = {} => Detached(x.at + 1, x.hash)

Sound ==
  /\ \A x \in AllRows : IsRow(x)
  /\ OneRow /\ MineHasFirst /\ Bounded /\ HoleType /\ OneTime

(* Every nonempty set of naturals has a least element, and a bounded one a *)
(* greatest.                                                               *)
LEMMA Least ==
  ASSUME NEW T \in SUBSET Nat, T # {}
  PROVE  \E n \in T : \A m \in T : n <= m
<1> DEFINE R == OpToRel(<, Nat)
<1>1. IsWellFoundedOn(R, Nat)
  BY NatLessThanWellFounded
<1>2. PICK n \in T : \A m \in T : ~(<<m, n>> \in R)
  <2> HIDE DEF R
  <2> QED BY <1>1, WFMin
<1>3. \A m \in T : ~(m < n)
  BY <1>2 DEF OpToRel
<1> QED BY <1>3

LEMMA Greatest ==
  ASSUME NEW S \in SUBSET Nat, S # {}, NEW b \in Nat, \A s \in S : s <= b
  PROVE  \E n \in S : \A m \in S : m <= n
<1> DEFINE T == {n \in Nat : \A m \in S : m <= n}
<1>1. b \in T
  OBVIOUS
<1>2. PICK n \in T : \A m \in T : n <= m
  BY <1>1, Least
<1>3. n \in S
  <2> SUFFICES ASSUME n \notin S PROVE FALSE
    OBVIOUS
  <2>1. PICK s \in S : TRUE
    OBVIOUS
  <2>2. n > 0 /\ \A m \in S : m <= n - 1
    BY <2>1
  <2>3. n - 1 \in T
    BY <2>2
  <2> QED BY <1>2, <2>3
<1> QED BY <1>3

(* The order of the audit is total and strict.                             *)
LEMMA Order ==
  /\ \A x, y : Row(x) /\ Row(y) /\ x.id # y.id => Earlier(x, y) \/ Earlier(y, x)
  /\ \A x, y : Row(x) /\ Row(y) /\ Earlier(x, y) => ~Earlier(y, x) /\ x.at <= y.at
  /\ \A x, y, z : Row(x) /\ Row(y) /\ Row(z) /\ Earlier(x, y) /\ Earlier(y, z)
       => Earlier(x, z)
  /\ \A x : Row(x) => ~Earlier(x, x)
BY DEF Earlier, Row

LEMMA LastExists ==
  ASSUME NEW S, S # {}, \A x \in S : Row(x) /\ x.id \in Id,
         \A x, y \in S : x.id = y.id => x = y,
         NEW n \in Nat, \A x \in S : x.at <= n
  PROVE  \E x \in S : IsLast(x, S)
<1> DEFINE T == {x.at : x \in S}
<1>1. PICK t \in T : \A s \in T : s <= t
  <2>1. T \in SUBSET Nat /\ T # {} /\ \A s \in T : s <= n
    BY DEF Row
  <2> HIDE DEF T
  <2> QED BY <2>1, Greatest
<1> DEFINE U == {x \in S : x.at = t}
           I == {x.id : x \in U}
<1>2. PICK i \in I : \A k \in I : k <= i
  <2>1. I \in SUBSET Nat /\ I # {} /\ \A s \in I : s <= MaxEvents
    BY DEF Row, Id
  <2>2. MaxEvents \in Nat
    BY BoundAssumption
  <2> HIDE DEF I
  <2> QED BY <2>1, <2>2, Greatest
<1>3. PICK x \in S : x.at = t /\ x.id = i
  OBVIOUS
<1>4. ASSUME NEW y \in S \ {x} PROVE Earlier(y, x)
  <2>1. y.at <= t /\ y.id # i
    BY <1>1, <1>3
  <2>2. y.at = t => y.id <= i
    BY <1>2
  <2> QED BY <1>3, <2>1, <2>2 DEF Earlier, Row
<1> QED BY <1>3, <1>4 DEF IsLast

LEMMA FirstExists ==
  ASSUME NEW S, S # {}, \A x \in S : Row(x),
         \A x, y \in S : x.id = y.id => x = y
  PROVE  \E x \in S : IsFirst(x, S)
<1> DEFINE T == {x.at : x \in S}
<1>1. PICK t \in T : \A s \in T : t <= s
  <2>1. T \in SUBSET Nat /\ T # {}
    BY DEF Row
  <2> HIDE DEF T
  <2> QED BY <2>1, Least
<1> DEFINE U == {x \in S : x.at = t}
           I == {x.id : x \in U}
<1>2. PICK i \in I : \A k \in I : i <= k
  <2>1. I \in SUBSET Nat /\ I # {}
    BY DEF Row
  <2> HIDE DEF I
  <2> QED BY <2>1, Least
<1>3. PICK x \in S : x.at = t /\ x.id = i
  OBVIOUS
<1>4. ASSUME NEW y \in S, y # x PROVE Earlier(x, y)
  <2>1. t <= y.at /\ y.id # i
    BY <1>1, <1>3, <1>4
  <2>2. y.at = t => i <= y.id
    BY <1>2
  <2> QED BY <1>3, <2>1, <2>2 DEF Earlier, Row
<1> QED BY <1>3, <1>4 DEF IsFirst

LEMMA RowTypes ==
  ASSUME ChainTypeOK PROVE \A x \in AllRows : Row(x) /\ x.id \in Id \ free
BY BoundAssumption DEF ChainTypeOK, AllRows, Row, Id

(* What is true of an edited row: it keeps its id, and its hash is stale.  *)
LEMMA EditBreaks ==
  ASSUME ChainTypeOK, \A x \in rows : IsRow(x), Verifies(rows), EditRow
  PROVE  \E e, f : /\ e \in rows /\ Replace(e, f) /\ f.id = e.id /\ f.at \in Nat
                   /\ f.hash # HashOf(f) /\ IsRow(f)
<1>1. \A e \in rows : e.hash = <<e.prev, e.at, e.data>> /\ e.at \in Nat
  BY DEF Verifies, Good, HashOf, ChainTypeOK
<1>2. Clock \subseteq Nat
  BY DEF Clock
<1>3. PICK e \in rows :
        \/ \E d \in Data : Replace(e, Event(e.id, e.at, d, e.prev, e.hash))
        \/ \E t \in Clock : Replace(e, Event(e.id, t, e.data, e.prev, e.hash))
        \/ \E x \in rows : Replace(e, Event(e.id, e.at, e.data, e.prev, x.hash))
        \/ \E x \in rows : Replace(e, Event(e.id, e.at, e.data, x.hash, e.hash))
  BY DEF EditRow
<1>4. PICK t, d, p, h :
        /\ t \in Nat
        /\ Replace(e, Event(e.id, t, d, p, h))
        /\ \/ t = e.at /\ p = e.prev /\ h = e.hash
           \/ d = e.data /\ p = e.prev /\ h = e.hash
           \/ t = e.at /\ d = e.data /\ p = e.prev
           \/ t = e.at /\ d = e.data /\ h = e.hash
  <2>1. CASE \E d \in Data : Replace(e, Event(e.id, e.at, d, e.prev, e.hash))
    BY <1>1, <2>1
  <2>2. CASE \E t \in Clock : Replace(e, Event(e.id, t, e.data, e.prev, e.hash))
    BY <1>2, <2>2
  <2>3. CASE \E x \in rows : Replace(e, Event(e.id, e.at, e.data, e.prev, x.hash))
    BY <1>1, <2>3
  <2>4. CASE \E x \in rows : Replace(e, Event(e.id, e.at, e.data, x.hash, e.hash))
    BY <1>1, <2>4
  <2> QED BY <1>3, <2>1, <2>2, <2>3, <2>4
<1> DEFINE f == Event(e.id, t, d, p, h)
<1>5. f.id = e.id /\ f.at = t /\ f.data = d /\ f.prev = p /\ f.hash = h
  BY DEF Event
<1>6. e = Event(e.id, e.at, e.data, e.prev, e.hash) /\ f # e
  BY <1>4 DEF IsRow, Replace
<1>7. f.hash # HashOf(f)
  <2> SUFFICES ASSUME h = <<p, t, d>> PROVE FALSE
    BY <1>5 DEF HashOf
  <2>1. e.hash = <<e.prev, e.at, e.data>>
    BY <1>1
  <2>2. p = e.prev /\ t = e.at /\ d = e.data /\ h = e.hash
    BY <1>4, <2>1
  <2> QED BY <1>6, <2>2
<1>8. IsRow(f)
  BY <1>5 DEF IsRow
<1> QED BY <1>4, <1>5, <1>7, <1>8

(* The hash of a row of an honest trail is that of no other and not empty. *)
LEMMA HashDistinct ==
  ASSUME ChainTypeOK, OneTime, ~Tampered, Verifies(rows), NEW e \in rows
  PROVE  e.hash # NoHash /\ \A x \in rows \ {e} : x.hash # e.hash
<1>1. \A x \in rows : x.hash = <<x.prev, x.at, x.data>>
  BY DEF Verifies, Good, HashOf
<1>2. \A x \in rows \ {e} : x.at # e.at
  BY DEF OneTime
<1> QED BY <1>1, <1>2 DEF NoHash

(* The row that the tampering leaves first at the hole is not good.        *)
LEMMA EditedIsFirst ==
  ASSUME ChainTypeOK, Sound, Verifies(rows),
         NEW e \in rows, NEW f, Replace(e, f), f.id = e.id, f.at \in Nat,
         f.hash # HashOf(f),
         f.at <= e.at \/ \A y \in rows : Earlier(e, y) => Earlier(f, y)
  PROVE  \E n \in AtHole' : IsFirst(n, AtHole') /\ ~Good(rows', n)
<1>1. /\ rows' = (rows \ {e}) \cup {f}
      /\ hole' = <<IF f.at < e.at THEN f.at ELSE e.at, e.id>>
  BY DEF Replace
<1>2. \A x \in rows : Row(x)
  BY RowTypes DEF AllRows
<1>3. Row(f)
  BY <1>2 DEF Row
<1>4. \A x \in rows \ {e} : x.id # e.id
  BY DEF Sound, OneRow, AllRows
<1>5. f \in AtHole'
  BY <1>1, <1>2, <1>3 DEF AtHole, AtOrAfterHole, Row
<1>6. ASSUME NEW x \in AtHole', x # f PROVE Earlier(f, x)
  <2>1. x \in rows \ {e}
    BY <1>1, <1>6 DEF AtHole
  <2>2. AtOrAfterHole(x)'
    BY <1>6 DEF AtHole
  <2>3. Row(x) /\ Row(e) /\ x.id # e.id
    BY <1>2, <1>4, <2>1
  <2>4. CASE f.at <= e.at
    BY <1>1, <1>3, <2>2, <2>3, <2>4 DEF AtOrAfterHole, Earlier, Row
  <2>5. CASE f.at > e.at
    <3>1. Earlier(e, x)
      BY <1>1, <1>3, <2>2, <2>3, <2>5 DEF AtOrAfterHole, Earlier, Row
    <3> QED BY <1>3, <2>1, <2>3, <2>5, <3>1 DEF Row
  <2> QED BY <1>3, <2>3, <2>4, <2>5 DEF Row
<1>7. ~Good(rows', f)
  BY DEF Good
<1> QED BY <1>5, <1>6, <1>7 DEF IsFirst

LEMMA NextIsFirst ==
  ASSUME ChainTypeOK, Sound, ~Tampered, Verifies(rows),
         NEW e \in rows, hole' = <<e.at, e.id>>, NEW F, rows' = (rows \ {e}) \cup F,
         NEW n, IsFirst(n, {y \in rows : Earlier(e, y)}),
         \A f \in F : Row(f) /\ f.id = e.id /\ Earlier(n, f)
  PROVE  \E m \in AtHole' : IsFirst(m, AtHole') /\ ~Good(rows', m)
<1>1. \A x \in rows : Row(x)
  BY RowTypes DEF AllRows
<1>2. \A x \in rows \ {e} : x.id # e.id
  BY DEF Sound, OneRow, AllRows
<1>3. n \in rows \ {e} /\ Earlier(e, n) /\ Row(n) /\ Row(e)
  BY <1>1, Order DEF IsFirst
<1>4. \A x \in rows \ {e} : AtOrAfterHole(x)' <=> Earlier(e, x)
  BY <1>1, <1>2 DEF AtOrAfterHole, Earlier, Row
<1>5. n \in AtHole'
  BY <1>3, <1>4 DEF AtHole
<1>6. IsFirst(n, AtHole')
  <2>1. \A x \in AtHole' : x = n \/ Earlier(n, x)
    BY <1>4 DEF AtHole, IsFirst
  <2> QED BY <1>5, <2>1 DEF IsFirst
<1> DEFINE before == {x \in rows : Earlier(x, n)}
           left == {x \in rows' : Earlier(x, n)}
<1>7. IsLast(e, before)
  <2>1. e \in before
    BY <1>3
  <2>2. ASSUME NEW y \in before \ {e} PROVE Earlier(y, e)
    <3>1. Row(y) /\ y.id # e.id /\ Earlier(y, n)
      BY <1>1, <1>2
    <3>2. ~Earlier(e, y)
      <4>1. Earlier(e, y) => y = n \/ Earlier(n, y)
        BY DEF IsFirst
      <4> QED BY <1>3, <3>1, <4>1, Order
    <3> QED BY <1>3, <3>1, <3>2, Order
  <2> QED BY <2>1, <2>2 DEF IsLast
<1>8. n.prev = e.hash
  <2>1. Linked(rows, n)
    BY <1>3 DEF Verifies, Good
  <2>2. PICK x \in before : IsLast(x, before) /\ n.prev = x.hash
    BY <1>7, <2>1 DEF Linked, IsLast
  <2>3. x = e
    BY <1>1, <1>7, <2>2, Order DEF IsLast
  <2> QED BY <2>2, <2>3
<1>9. left \subseteq rows \ {e}
  <2>1. \A f \in F : ~Earlier(f, n)
    BY <1>3, Order
  <2> QED BY <2>1
<1>10. ~Linked(rows', n)
  <2>1. e.hash # NoHash /\ \A x \in rows \ {e} : x.hash # e.hash
    BY HashDistinct DEF Sound
  <2> QED BY <1>8, <1>9, <2>1 DEF Linked
<1> QED BY <1>5, <1>6, <1>10 DEF Good

(* Whatever the tampering: what stands before the hole is as it was, and   *)
(* what follows the row it hit is at the hole.                             *)
LEMMA HoleParts ==
  ASSUME ChainTypeOK, Sound, ~Tampered, Verifies(rows), NEW e \in rows,
         NEW t \in Nat, t <= e.at, hole' = <<t, e.id>>,
         NEW F, rows' = (rows \ {e}) \cup F,
         \A f \in F : Row(f) /\ f.id = e.id /\ t <= f.at
  PROVE  /\ \A x \in rows : Earlier(e, x) => x \in AtHole'
         /\ Below' \subseteq rows \ {e}
         /\ \A x \in Below' : Good(rows', x)
<1>1. \A x \in rows : Row(x)
  BY RowTypes DEF AllRows
<1>2. \A x \in rows \ {e} : x.id # e.id
  BY DEF Sound, OneRow, AllRows
<1>3. \A x \in rows : Earlier(e, x) => x \in AtHole'
  BY <1>1 DEF AtHole, AtOrAfterHole, Earlier, Row
<1>4. Below' \subseteq rows \ {e}
  BY DEF Below, AtOrAfterHole, Row
<1>5. ASSUME NEW x \in Below' PROVE Good(rows', x)
  <2>1. Row(x) /\ x.id # e.id /\ x \in rows /\ ~AtOrAfterHole(x)'
    BY <1>1, <1>2, <1>4 DEF Below
  <2>2. ~Earlier(e, x)
    BY <1>1, <2>1 DEF AtOrAfterHole, Earlier, Row
  <2>3. \A f \in F : ~Earlier(f, x)
    BY <2>1 DEF AtOrAfterHole, Earlier, Row
  <2>4. {y \in rows' : Earlier(y, x)} = {y \in rows : Earlier(y, x)}
    BY <2>2, <2>3
  <2>5. Good(rows, x)
    BY <2>1 DEF Verifies
  <2> QED BY <2>4, <2>5 DEF Good, Linked
<1> QED BY <1>3, <1>4, <1>5

(* What the open transactions hold when the trail is corrupted is detached.*)
LEMMA OpenDetached ==
  ASSUME ChainInv, MineLater, Sound, ~Tampered, NEW e \in rows, NEW t \in Nat,
         t <= e.at, hole' = <<t, e.id>>, UNCHANGED <<mine, pc, last>>,
         rows \ {e} \subseteq rows', Below' \subseteq rows \ {e},
         \A x \in rows : Earlier(e, x) => x \in AtHole',
         NEW w \in Writer
  PROVE  /\ \A m \in mine[w] :
              /\ m.at > hole[1]'
              /\ IsFirst(m, mine[w]) => Detached(m.at, m.prev)'
         /\ pc[w] = "read" =>
              \E x \in last[w] :
                /\ last[w] = {x} /\ x.at >= hole[1]'
                /\ \A m \in mine[w] : m.at <= x.at
                /\ mine[w] = {} => Detached(x.at + 1, x.hash)'
<1> DEFINE S == Visible(w)
<1>0. ChainTypeOK /\ Verifies(rows) /\ GoodLog(rows) /\ GoodLog(S) /\ OneTime
  BY DEF ChainInv, LogInv, GoodLog, Sound
<1>1. \A x \in S : Row(x)
  BY <1>0, RowTypes DEF AllRows, Visible
<1>2. rows \subseteq S /\ mine[w] \subseteq S
  BY DEF Visible
<1>3. hole[1]' = t /\ Row(e)
  BY <1>1, <1>2
<1>4. \A x, y \in S : x.at = y.at => x = y
  BY <1>0 DEF OneTime
<1>5. \A x \in rows : \A m \in mine[w] : Earlier(x, m) /\ x.at < m.at
  <2> SUFFICES ASSUME NEW x \in rows, NEW m \in mine[w]
               PROVE  Earlier(x, m) /\ x.at < m.at
    OBVIOUS
  <2>1. Earlier(x, m) /\ Row(x) /\ Row(m)
    BY <1>1, <1>2 DEF MineLater
  <2>2. x.at # m.at
    BY <1>1, <1>2, <1>4, <2>1, Order
  <2> QED BY <2>1, <2>2 DEF Earlier, Row
<1>6. e.hash # NoHash /\ \A x \in rows \ {e} : x.hash # e.hash
  BY <1>0, HashDistinct
<1>7. \A x \in rows, k \in Nat : x.at < k /\ IsLast(x, rows) => Detached(k, x.hash)'
  <2> SUFFICES ASSUME NEW x \in rows, NEW k \in Nat, x.at < k, IsLast(x, rows)
               PROVE  Detached(k, x.hash)'
    OBVIOUS
  <2>1. CASE x = e
    BY <1>6, <2>1 DEF Detached
  <2>2. CASE x # e
    <3>1. Earlier(e, x)
      BY <2>2 DEF IsLast
    <3> QED BY <3>1 DEF Detached
  <2> QED BY <2>1, <2>2
<1>8. ASSUME NEW m \in mine[w]
      PROVE  m.at > hole[1]' /\ (IsFirst(m, mine[w]) => Detached(m.at, m.prev)')
  <2>1. m.at > hole[1]'
    BY <1>1, <1>2, <1>3, <1>5 DEF Row
  <2>2. ASSUME IsFirst(m, mine[w]) PROVE Detached(m.at, m.prev)'
    <3>1. {x \in S : Earlier(x, m)} = rows
      <4>1. \A y \in mine[w] : ~Earlier(y, m)
        BY <1>1, <1>2, <2>2, Order DEF IsFirst
      <4> QED BY <1>2, <1>5, <4>1 DEF Visible
    <3>2. Linked(S, m)
      BY <1>0, <1>2 DEF GoodLog, Verifies, Good
    <3>3. PICK x \in rows : IsLast(x, rows) /\ m.prev = x.hash
      BY <3>1, <3>2 DEF Linked
    <3>4. m.at \in Nat /\ x.at < m.at
      BY <1>1, <1>2, <1>5 DEF Row
    <3> QED BY <1>7, <3>3, <3>4
  <2> QED BY <2>1, <2>2
<1>9. ASSUME pc[w] = "read"
      PROVE  \E x \in last[w] :
                /\ last[w] = {x} /\ x.at >= hole[1]'
                /\ \A m \in mine[w] : m.at <= x.at
                /\ mine[w] = {} => Detached(x.at + 1, x.hash)'
  <2>1. PICK x \in S : IsLast(x, S)
    BY <1>0, <1>2 DEF GoodLog
  <2>2. last[w] = LastOf(S)
    BY <1>9 DEF ChainInv, ReadInv
  <2>3. last[w] = {x}
    BY <1>1, <2>1, <2>2, Order DEF LastOf, IsLast
  <2>4. \A y \in S : y.at <= x.at
    BY <1>1, <2>1, Order DEF IsLast, Row
  <2>5. x.at >= hole[1]'
    BY <1>1, <1>2, <1>3, <2>4 DEF Row
  <2>6. mine[w] = {} => S = rows
    BY DEF Visible
  <2>7. x.at + 1 \in Nat /\ x.at < x.at + 1
    BY <1>1 DEF Row
  <2>8. mine[w] = {} => Detached(x.at + 1, x.hash)'
    BY <1>7, <2>1, <2>6, <2>7
  <2> QED BY <1>2, <2>3, <2>4, <2>5, <2>8
<1> QED BY <1>8, <1>9

LEMMA CorruptLocates ==
  ASSUME ChainInv, MineLater, Sound, Corrupt
  PROVE  Located'
<1>0. /\ ~Tampered /\ ChainTypeOK /\ Verifies(rows)
      /\ UNCHANGED <<mine, lock, pc, last, free>>
  BY DEF Corrupt, ChainInv, LogInv, GoodLog
<1>1. \A x \in rows : Row(x)
  BY <1>0, RowTypes DEF AllRows
<1>2. ASSUME NEW e \in rows, NEW t \in Nat, t <= e.at, hole' = <<t, e.id>>,
             NEW F, rows' = (rows \ {e}) \cup F,
             \A f \in F : Row(f) /\ f.id = e.id /\ t <= f.at,
             \E n \in AtHole' : IsFirst(n, AtHole') /\ ~Good(rows', n)
      PROVE  Located'
  <2>1. /\ \A x \in rows : Earlier(e, x) => x \in AtHole'
        /\ Below' \subseteq rows \ {e}
        /\ \A x \in Below' : Good(rows', x)
    BY <1>0, <1>2, HoleParts
  <2>2. ASSUME NEW w \in Writer
        PROVE  /\ \A m \in mine[w] :
                    /\ m.at > hole[1]'
                    /\ IsFirst(m, mine[w]) => Detached(m.at, m.prev)'
               /\ pc[w] = "read" =>
                    \E x \in last[w] :
                      /\ last[w] = {x} /\ x.at >= hole[1]'
                      /\ \A m \in mine[w] : m.at <= x.at
                      /\ mine[w] = {} => Detached(x.at + 1, x.hash)'
    <3>1. rows \ {e} \subseteq rows'
      BY <1>2
    <3> QED BY <1>0, <1>2, <2>1, <3>1, OpenDetached
  <2> QED BY <1>0, <1>2, <2>1, <2>2 DEF Located
<1>3. CASE EditRow
  <2>1. PICK e, f : /\ e \in rows /\ Replace(e, f) /\ f.id = e.id /\ f.at \in Nat
                    /\ f.hash # HashOf(f)
    BY <1>0, <1>3, EditBreaks DEF Sound, AllRows
  <2>0. PICK F, t : F = {f} /\ t = (IF f.at < e.at THEN f.at ELSE e.at)
    OBVIOUS
  <2> DEFINE N == {y \in rows : Earlier(e, y)}
  <2>2. rows' = (rows \ {e}) \cup F /\ hole' = <<t, e.id>>
    BY <2>0, <2>1 DEF Replace
  <2>3. /\ Row(e) /\ Row(f) /\ t \in Nat /\ t <= e.at /\ t <= f.at
        /\ \A g \in F : Row(g) /\ g.id = e.id /\ t <= g.at
    BY <1>1, <2>0, <2>1 DEF Row
  <2>4. \E n \in AtHole' : IsFirst(n, AtHole') /\ ~Good(rows', n)
    <3>1. CASE f.at <= e.at \/ \A y \in N : Earlier(f, y)
      BY <1>0, <2>1, <3>1, EditedIsFirst
    <3>2. CASE f.at > e.at /\ ~(\A y \in N : Earlier(f, y))
      <4>1. N # {} /\ \A x \in N : Row(x)
        BY <1>1, <3>2
      <4>2. \A x, y \in N : x.id = y.id => x = y
        BY DEF Sound, OneRow, AllRows
      <4>3. PICK n \in N : IsFirst(n, N)
        <5> HIDE DEF N
        <5> QED BY <4>1, <4>2, FirstExists
      <4>4. Row(n) /\ n.id # f.id
        BY <1>1, <2>1, <2>3, <4>3, Order DEF Sound, OneRow, AllRows
      <4>5. ~Earlier(f, n)
        BY <2>3, <3>2, <4>1, <4>3, <4>4, Order DEF IsFirst
      <4>6. Earlier(n, f)
        BY <2>3, <4>4, <4>5, Order
      <4>7. hole' = <<e.at, e.id>>
        BY <2>0, <2>2, <2>3, <3>2 DEF Row
      <4>8. \A g \in F : Row(g) /\ g.id = e.id /\ Earlier(n, g)
        BY <2>0, <2>3, <4>6
      <4>9. IsFirst(n, {y \in rows : Earlier(e, y)})
        BY <4>3
      <4> QED BY <1>0, <2>1, <2>2, <4>7, <4>8, <4>9, NextIsFirst
    <3> QED BY <2>3, <3>1, <3>2 DEF Row
  <2> QED BY <1>2, <2>1, <2>2, <2>3, <2>4
<1>4. CASE DeleteRow
  <2>1. PICK e \in rows : /\ \E x \in rows : Earlier(e, x)
                          /\ rows' = rows \ {e}
                          /\ hole' = <<e.at, e.id>>
    BY <1>4 DEF DeleteRow
  <2> DEFINE N == {y \in rows : Earlier(e, y)}
  <2>2. N # {} /\ (\A x \in N : Row(x)) /\ \A x, y \in N : x.id = y.id => x = y
    BY <1>1, <2>1 DEF Sound, OneRow, AllRows
  <2>3. PICK n \in N : IsFirst(n, N)
    <3> HIDE DEF N
    <3> QED BY <2>2, FirstExists
  <2>0. PICK F : F = {}
    OBVIOUS
  <2>4. /\ rows' = (rows \ {e}) \cup F /\ e.at \in Nat /\ e.at <= e.at
        /\ \A g \in F : Row(g) /\ g.id = e.id /\ e.at <= g.at /\ Earlier(n, g)
    BY <1>1, <2>0, <2>1 DEF Row
  <2>6. IsFirst(n, {y \in rows : Earlier(e, y)})
    BY <2>3
  <2>5. \E m \in AtHole' : IsFirst(m, AtHole') /\ ~Good(rows', m)
    BY <1>0, <2>1, <2>4, <2>6, NextIsFirst
  <2> QED BY <1>2, <2>1, <2>4, <2>5
<1> QED BY <1>3, <1>4 DEF Corrupt

----------------------------------------------------------------------------
(* Every step keeps the two invariants. *)

(* The row an insert adds: new, and later than what its writer sees.       *)
Inserts(w, e) ==
  /\ mine' = [mine EXCEPT ![w] = @ \cup {e}]
  /\ IsRow(e) /\ e.id \in free /\ e.at \in Nat
  /\ \A m \in mine[w] : m.at < e.at
  /\ ~Tampered => \A m \in Visible(w) : m.at < e.at
  /\ Tampered => \A x \in last[w] : e.at > x.at /\ e.prev = x.hash

LEMMA InsertsEvent ==
  ASSUME ChainInv, MineLater, Sound, Located, NEW w \in Writer, Insert(w)
  PROVE  \E e : Inserts(w, e)
<1>0. ChainTypeOK /\ MapsOK
  BY DEF ChainInv
<1>1. PICK requested \in Clock, i \in free, d \in Data :
        mine' = [mine EXCEPT ![w] = @ \cup {NewEvent(w, requested, i, d)}]
  BY DEF Insert, NewEvent, Event
<1>2. PICK e : e = NewEvent(w, requested, i, d)
  OBVIOUS
<1>3. pc[w] = "read" /\ requested \in Nat
  BY BoundAssumption DEF Insert, Clock
<1>4. IsRow(e) /\ e.id = i
  BY <1>2 DEF IsRow, NewEvent, Event
<1>5. e.at = OccurredAt(last[w], requested) /\ e.prev = PreviousHash(last[w])
  BY <1>2 DEF NewEvent, Event
<1>6. CASE ~Tampered
  <2>1. e.at \in Nat /\ \A x \in Visible(w) : x.at < e.at
    BY <1>2, <1>3, <1>6, InsertKeepsGood, InsertIsLater
  <2> QED BY <1>1, <1>2, <1>4, <1>6, <2>1 DEF Inserts, Visible
<1>7. CASE Tampered
  <2>1. PICK x \in last[w] : last[w] = {x} /\ \A m \in mine[w] : m.at <= x.at
    BY <1>3, <1>7 DEF Located
  <2>2. x.at \in Nat
    BY <1>0 DEF MapsOK
  <2>3. (CHOOSE y \in last[w] : TRUE) = x
    BY <2>1
  <2>4. e.prev = x.hash
    BY <1>5, <2>1, <2>3 DEF PreviousHash
  <2>5. e.at \in Nat /\ e.at > x.at
    BY <1>3, <1>5, <2>1, <2>2, <2>3 DEF OccurredAt
  <2>6. \A m \in mine[w] : m.at \in Nat
    BY <1>0 DEF ChainTypeOK
  <2>7. \A m \in mine[w] : m.at < e.at
    BY <2>1, <2>2, <2>5, <2>6
  <2> QED BY <1>1, <1>2, <1>4, <1>7, <2>1, <2>4, <2>5, <2>7 DEF Inserts
<1> QED BY <1>6, <1>7

LEMMA SoundKept ==
  ASSUME ChainInv, MineLater, Sound, Located, [ChainNext]_chainVars PROVE Sound'
<1>0. ChainTypeOK /\ MapsOK
  BY DEF ChainInv
<1>1. CASE UNCHANGED <<rows, mine, hole>>
  BY <1>1 DEF Sound, AllRows, OneRow, MineHasFirst, Bounded, HoleType, OneTime,
              Tampered, Visible
<1>2. ASSUME NEW w \in Writer, Insert(w) PROVE Sound'
  <2>0. PICK e : Inserts(w, e)
    BY <1>2, InsertsEvent
  <2>1. /\ mine' = [mine EXCEPT ![w] = @ \cup {e}]
        /\ IsRow(e) /\ e.id \in free /\ e.at \in Nat
        /\ \A m \in mine[w] : m.at < e.at
        /\ ~Tampered => \A m \in Visible(w) : m.at < e.at
    BY <2>0 DEF Inserts
  <2>2. UNCHANGED <<rows, hole>>
    BY <1>2 DEF Insert
  <2>3. mine'[w] = mine[w] \cup {e} /\ \A v \in Writer \ {w} : mine'[v] = mine[v]
    BY <1>0, <2>1 DEF MapsOK
  <2>4. AllRows' = AllRows \cup {e}
    BY <2>2, <2>3 DEF AllRows
  <2>5. (\A x \in AllRows : IsRow(x))'
    BY <2>1, <2>4 DEF Sound
  <2>6. OneRow'
    <3>1. \A x \in AllRows : x.id # e.id
      BY <1>0, <2>1, RowTypes
    <3> QED BY <2>4, <3>1 DEF Sound, OneRow
  <2>7. MineHasFirst'
    <3>1. \E m \in mine'[w] : IsFirst(m, mine'[w])
      <4>1. CASE mine[w] = {}
        BY <2>3, <4>1 DEF IsFirst
      <4>2. CASE mine[w] # {}
        <5>1. PICK m \in mine[w] : IsFirst(m, mine[w])
          BY <4>2 DEF Sound, MineHasFirst
        <5>2. Earlier(m, e)
          BY <2>1 DEF Earlier
        <5> QED BY <2>3, <5>1, <5>2 DEF IsFirst
      <4> QED BY <4>1, <4>2
    <3> QED BY <2>3, <3>1 DEF Sound, MineHasFirst
  <2>8. Bounded'
    <3>1. PICK n \in Nat : \A x \in AllRows : x.at <= n
      BY DEF Sound, Bounded
    <3>2. \A x \in AllRows : x.at \in Nat
      BY <1>0, RowTypes DEF Row
    <3>3. n + e.at \in Nat /\ \A x \in AllRows \cup {e} : x.at <= n + e.at
      BY <2>1, <3>1, <3>2
    <3> QED BY <2>4, <3>3 DEF Bounded
  <2>9. HoleType' /\ Tampered' = Tampered
    BY <2>2 DEF Sound, HoleType, Tampered
  <2>10. OneTime'
    <3> SUFFICES ASSUME ~Tampered PROVE OneTime'
      BY <2>9 DEF OneTime
    <3>1. Visible(w)' = Visible(w) \cup {e}
      BY <2>2, <2>3 DEF Visible
    <3>2. \A v \in Writer \ {w} : Visible(v)' = Visible(v)
      BY <2>2, <2>3 DEF Visible
    <3>3. \A x, y \in Visible(w) \cup {e} : x.at = y.at => x = y
      <4>1. \A x \in Visible(w) : x.at < e.at /\ x.at \in Nat
        BY <1>0, <2>1, RowTypes DEF Row, Visible, AllRows
      <4>2. \A x \in Visible(w) : x.at # e.at
        BY <2>1, <4>1
      <4> QED BY <4>2 DEF Sound, OneTime
    <3> QED BY <2>2, <3>1, <3>2, <3>3 DEF Sound, OneTime
  <2> QED BY <2>5, <2>6, <2>7, <2>8, <2>9, <2>10 DEF Sound
<1>3. ASSUME NEW w \in Writer, pc[w] # "idle", EndTransaction(w),
             rows' \in {rows, Visible(w)}
      PROVE  Sound'
  <2>1. \A v \in Writer : mine'[v] = {}
    BY <1>0, <1>3, OneHolder DEF EndTransaction, MapsOK
  <2>2. AllRows' \subseteq AllRows
    BY <1>3, <2>1 DEF AllRows, Visible
  <2>3. hole' = hole
    BY <1>3 DEF EndTransaction
  <2>4. (\A x \in AllRows : IsRow(x))' /\ OneRow' /\ Bounded'
    BY <2>2 DEF Sound, OneRow, Bounded
  <2>5. MineHasFirst' /\ HoleType'
    BY <2>1, <2>3 DEF Sound, MineHasFirst, HoleType
  <2>6. \A v \in Writer : Visible(v)' = rows'
    BY <2>1 DEF Visible
  <2>7. OneTime'
    BY <1>3, <2>3, <2>6 DEF Sound, OneTime, Tampered
  <2> QED BY <2>4, <2>5, <2>7 DEF Sound
<1>4. CASE Corrupt
  <2>1. Verifies(rows) /\ mine' = mine
    BY <1>4 DEF Corrupt, ChainInv, LogInv, GoodLog
  <2>2. \E e, F, t :
          /\ e \in rows /\ t \in Nat
          /\ rows' = (rows \ {e}) \cup F /\ hole' = <<t, e.id>>
          /\ \A f, g \in F : f = g /\ f.id = e.id /\ IsRow(f) /\ f.at \in Nat
    <3>1. CASE EditRow
      <4>1. PICK e, f : /\ e \in rows /\ Replace(e, f) /\ f.id = e.id
                        /\ f.at \in Nat /\ IsRow(f)
        BY <1>0, <2>1, <3>1, EditBreaks DEF Sound, AllRows
      <4>2. PICK F, t : F = {f} /\ t = (IF f.at < e.at THEN f.at ELSE e.at)
        OBVIOUS
      <4>3. t \in Nat
        BY <1>0, <4>1, <4>2 DEF ChainTypeOK
      <4>4. rows' = (rows \ {e}) \cup F /\ hole' = <<t, e.id>>
        BY <4>1, <4>2 DEF Replace
      <4>5. \A g, h \in F : g = h /\ g.id = e.id /\ IsRow(g) /\ g.at \in Nat
        BY <4>1, <4>2
      <4> QED BY <4>1, <4>3, <4>4, <4>5
    <3>2. CASE DeleteRow
      <4>1. PICK e \in rows : rows' = rows \ {e} /\ hole' = <<e.at, e.id>>
        BY <3>2 DEF DeleteRow
      <4>2. PICK F, t : F = {} /\ t = e.at
        OBVIOUS
      <4>3. t \in Nat
        BY <1>0, <4>2 DEF ChainTypeOK
      <4>4. rows' = (rows \ {e}) \cup F /\ hole' = <<t, e.id>>
        BY <4>1, <4>2
      <4>5. \A g, h \in F : g = h /\ g.id = e.id /\ IsRow(g) /\ g.at \in Nat
        BY <4>2
      <4> QED BY <4>1, <4>3, <4>4, <4>5
    <3> QED BY <1>4, <3>1, <3>2 DEF Corrupt
  <2>3. PICK e, F, t :
          /\ e \in rows /\ t \in Nat
          /\ rows' = (rows \ {e}) \cup F /\ hole' = <<t, e.id>>
          /\ \A f, g \in F : f = g /\ f.id = e.id /\ IsRow(f) /\ f.at \in Nat
    BY <2>2
  <2>4. e.id \in Nat /\ Tampered'
    BY <1>0, <2>3, RowTypes DEF AllRows, Row, Tampered, NoPos
  <2>5. HoleType' /\ OneTime'
    BY <2>3, <2>4 DEF HoleType, OneTime
  <2>6. MineHasFirst'
    BY <2>1 DEF Sound, MineHasFirst
  <2>7. AllRows' \subseteq AllRows \cup F
    BY <2>1, <2>3 DEF AllRows
  <2>8. (\A x \in AllRows : IsRow(x))'
    BY <2>3, <2>7 DEF Sound
  <2>9. OneRow'
    <3>1. \A x \in rows \ {e} : x.id # e.id
      BY <2>3 DEF Sound, OneRow, AllRows
    <3>2. \A x \in UNION {mine[w] : w \in Writer} : x.id # e.id
      <4>1. \A w \in Writer : e \notin mine[w]
        <5>1. Row(e)
          BY <1>0, <2>3, RowTypes DEF AllRows
        <5> QED BY <1>4, <2>3, <5>1, Order DEF MineLater, Corrupt
      <4> QED BY <2>3, <4>1 DEF Sound, OneRow, AllRows
    <3>3. \A x \in AllRows' : x \in F \/ (x \in AllRows /\ x.id # e.id)
      BY <2>1, <2>3, <3>1, <3>2 DEF AllRows
    <3> QED BY <2>3, <3>3 DEF Sound, OneRow
  <2>10. Bounded'
    <3>1. PICK n \in Nat : \A x \in AllRows : x.at <= n
      BY DEF Sound, Bounded
    <3>2. \A x \in AllRows : x.at \in Nat
      BY <1>0, RowTypes DEF Row
    <3>3. CASE F = {}
      BY <2>7, <3>1, <3>3 DEF Bounded
    <3>4. CASE F # {}
      <4>1. PICK f \in F : TRUE
        BY <3>4
      <4>2. n + f.at \in Nat /\ \A x \in AllRows \cup F : x.at <= n + f.at
        BY <2>3, <3>1, <3>2, <4>1
      <4> QED BY <2>7, <4>2 DEF Bounded
    <3> QED BY <3>3, <3>4
  <2> QED BY <2>5, <2>6, <2>8, <2>9, <2>10 DEF Sound
<1>5. \/ UNCHANGED <<rows, mine, hole>> \/ Corrupt
      \/ \E w \in Writer : Insert(w) \/ Commit(w) \/ Rollback(w)
  BY DEF ChainNext, chainVars, LockEnvelope, ReadLast
<1>6. ASSUME NEW w \in Writer, Commit(w) \/ Rollback(w) PROVE Sound'
  BY <1>3, <1>6 DEF Commit, Rollback, Visible
<1> QED BY <1>1, <1>2, <1>4, <1>5, <1>6

(* Steps that leave the rows alone change the first half of Located not.   *)
LEMMA LocatedInsert ==
  ASSUME ChainInv, MineLater, Sound, Located, Tampered, NEW w \in Writer, Insert(w)
  PROVE  Located'
<1>0. ChainTypeOK /\ MapsOK
  BY DEF ChainInv
<1>1. PICK e : Inserts(w, e)
  BY InsertsEvent
<1>2. /\ UNCHANGED <<rows, last, hole>> /\ pc[w] = "read"
      /\ pc'[w] = "inserted" /\ \A v \in Writer \ {w} : pc'[v] = pc[v]
  BY <1>0 DEF Insert, MapsOK
<1>3. mine'[w] = mine[w] \cup {e} /\ \A v \in Writer \ {w} : mine'[v] = mine[v]
  BY <1>0, <1>1 DEF Inserts, MapsOK
<1>4. AtHole' = AtHole /\ Below' = Below
  BY <1>2 DEF AtHole, Below, AtOrAfterHole
<1>5. \A t, h : Detached(t, h)' <=> Detached(t, h)
  BY <1>4 DEF Detached
<1>6. PICK x \in last[w] :
        /\ last[w] = {x} /\ x.at >= hole[1]
        /\ \A m \in mine[w] : m.at <= x.at
        /\ mine[w] = {} => Detached(x.at + 1, x.hash)
  BY <1>2 DEF Located
<1>7. x.at \in Nat /\ e.at \in Nat /\ e.at > x.at /\ e.prev = x.hash
      /\ hole[1] \in Nat
  BY <1>0, <1>1, <1>6 DEF Inserts, MapsOK, Sound, HoleType, Tampered
<1>8. ASSUME NEW m \in mine'[w]
      PROVE  m.at > hole[1] /\ (IsFirst(m, mine'[w]) => Detached(m.at, m.prev))
  <2>1. CASE m = e
    <3>1. m.at > hole[1]
      BY <1>6, <1>7, <2>1
    <3>2. ASSUME IsFirst(m, mine'[w]) PROVE Detached(m.at, m.prev)
      <4>1. \A k \in mine[w] : k.at < e.at /\ k.at \in Nat
        BY <1>0, <1>1 DEF Inserts, ChainTypeOK
      <4>2. mine[w] = {}
        BY <1>3, <1>7, <2>1, <3>2, <4>1 DEF IsFirst, Earlier
      <4>3. Detached(x.at + 1, x.hash)
        BY <1>6, <4>2
      <4>4. \A a \in AtHole : a.at \in Nat
        BY <1>0 DEF AtHole, ChainTypeOK
      <4> QED BY <1>7, <2>1, <4>3, <4>4 DEF Detached
    <3> QED BY <3>1, <3>2
  <2>2. CASE m # e
    <3>1. m \in mine[w]
      BY <1>3, <2>2
    <3>2. IsFirst(m, mine'[w]) => IsFirst(m, mine[w])
      BY <1>3, <3>1 DEF IsFirst
    <3> QED BY <3>1, <3>2 DEF Located
  <2> QED BY <2>1, <2>2
<1>9. ASSUME NEW v \in Writer
      PROVE  /\ \A m \in mine'[v] :
                  m.at > hole[1] /\ (IsFirst(m, mine'[v]) => Detached(m.at, m.prev))
             /\ pc'[v] = "read" =>
                  \E y \in last[v] :
                    /\ last[v] = {y} /\ y.at >= hole[1]
                    /\ \A m \in mine'[v] : m.at <= y.at
                    /\ mine'[v] = {} => Detached(y.at + 1, y.hash)
  <2>1. CASE v = w
    BY <1>2, <1>8, <2>1
  <2>2. CASE v # w
    BY <1>2, <1>3, <2>2 DEF Located
  <2> QED BY <2>1, <2>2
<1>10. /\ \A y \in Below : Good(rows, y)
       /\ \E y \in AtHole : IsFirst(y, AtHole) /\ ~Good(rows, y)
  BY DEF Located
<1> QED BY <1>2, <1>4, <1>5, <1>9, <1>10 DEF Located

LEMMA LocatedRead ==
  ASSUME ChainInv, Sound, Located, Tampered, NEW w \in Writer, ReadLast(w)
  PROVE  Located'
<1>0. ChainTypeOK /\ MapsOK
  BY DEF ChainInv
<1> DEFINE S == Visible(w)
<1>1. /\ UNCHANGED <<rows, mine, hole>>
      /\ last'[w] = LastOf(S)
      /\ \A v \in Writer \ {w} : pc'[v] = pc[v] /\ last'[v] = last[v]
  BY <1>0 DEF ReadLast, MapsOK, LastOf
<1>2. PICK e \in AtHole : IsFirst(e, AtHole) /\ ~Good(rows, e)
  BY DEF Located
<1>3. \A x \in S : Row(x) /\ x.id \in Id
  BY <1>0, RowTypes DEF AllRows, Visible
<1>4. e \in S /\ \A x, y \in S : x.id = y.id => x = y
  BY DEF AtHole, Visible, Sound, OneRow, AllRows
<1>5. PICK n \in Nat : \A x \in S : x.at <= n
  BY DEF Sound, Bounded, AllRows, Visible
<1>6. PICK x \in S : IsLast(x, S)
  <2> HIDE DEF S
  <2> QED BY <1>3, <1>4, <1>5, LastExists
<1>7. last'[w] = {x}
  BY <1>1, <1>3, <1>6, Order DEF LastOf, IsLast
<1>8. \A y \in S : y.at <= x.at
  BY <1>3, <1>6, Order DEF IsLast, Row
<1>9. hole[1] \in Nat /\ e.at >= hole[1] /\ e.at < x.at + 1 /\ x.at >= hole[1]
  BY <1>3, <1>4, <1>8 DEF Sound, HoleType, Tampered, AtHole, AtOrAfterHole, Row
<1>10. Detached(x.at + 1, x.hash)
  BY <1>9 DEF Detached
<1>11. AtHole' = AtHole /\ Below' = Below
  BY <1>1 DEF AtHole, Below, AtOrAfterHole
<1>12. \A t, h : Detached(t, h)' <=> Detached(t, h)
  BY <1>11 DEF Detached
<1>13. \A m \in mine[w] : m.at <= x.at
  BY <1>8 DEF Visible
<1>14. ASSUME NEW v \in Writer, pc'[v] = "read"
       PROVE  \E y \in last'[v] :
                /\ last'[v] = {y} /\ y.at >= hole[1]
                /\ \A m \in mine[v] : m.at <= y.at
                /\ mine[v] = {} => Detached(y.at + 1, y.hash)
  <2>1. CASE v = w
    BY <1>7, <1>9, <1>10, <1>13, <2>1
  <2>2. CASE v # w
    BY <1>1, <1>14, <2>2 DEF Located
  <2> QED BY <2>1, <2>2
<1>15. /\ \A y \in Below : Good(rows, y)
       /\ \E y \in AtHole : IsFirst(y, AtHole) /\ ~Good(rows, y)
       /\ \A v \in Writer : \A m \in mine[v] :
            m.at > hole[1] /\ (IsFirst(m, mine[v]) => Detached(m.at, m.prev))
  BY DEF Located
<1> QED BY <1>1, <1>11, <1>12, <1>14, <1>15 DEF Located

LEMMA LocatedCommit ==
  ASSUME ChainInv, Sound, Located, Tampered, NEW w \in Writer, Commit(w)
  PROVE  Located'
<1>0. ChainTypeOK /\ MapsOK
  BY DEF ChainInv
<1>1. rows' = rows \cup mine[w] /\ hole' = hole /\ pc[w] = "inserted"
  BY DEF Commit, EndTransaction
<1>2. \A v \in Writer : mine'[v] = {} /\ pc'[v] = "idle"
  BY <1>0, <1>1, OneHolder DEF Commit, EndTransaction, MapsOK
<1>3. PICK e \in AtHole : IsFirst(e, AtHole) /\ ~Good(rows, e)
  BY DEF Located
<1>4. \A x \in rows' : Row(x)
  BY <1>0, <1>1, RowTypes DEF AllRows
<1>5. \A x, y \in rows' : x.id = y.id => x = y
  BY <1>1 DEF Sound, OneRow, AllRows
<1>6. \A m \in mine[w] : AtOrAfterHole(m)
  BY DEF Located, AtOrAfterHole
<1>7. AtHole' = AtHole \cup mine[w] /\ Below' = Below
  BY <1>1, <1>6 DEF AtHole, Below, AtOrAfterHole
<1>8. hole[1] \in Nat /\ hole[2] \in Nat
  BY DEF Sound, HoleType, Tampered
<1>9. \A x \in Below, y \in AtHole' : ~Earlier(y, x)
  BY <1>1, <1>4, <1>7, <1>8, <1>6 DEF Below, AtHole, AtOrAfterHole, Earlier, Row
<1>10. ASSUME NEW x \in Below PROVE Good(rows', x)
  <2>1. {y \in rows' : Earlier(y, x)} = {y \in rows : Earlier(y, x)}
    BY <1>1, <1>7, <1>9
  <2>2. Good(rows, x)
    BY DEF Located
  <2> QED BY <2>1, <2>2 DEF Good, Linked
<1>11. \E y \in AtHole' : IsFirst(y, AtHole') /\ ~Good(rows', y)
  <2>1. CASE \A m \in mine[w] : m = e \/ Earlier(e, m)
    <3>1. IsFirst(e, AtHole')
      BY <1>3, <1>7, <2>1 DEF IsFirst
    <3>2. {y \in rows' : Earlier(y, e)} = {y \in rows : Earlier(y, e)}
      <4>1. \A m \in mine[w] : Earlier(m, e) => m \in rows
        BY <1>1, <1>4, <2>1, Order DEF AtHole
      <4> QED BY <1>1, <4>1
    <3>3. ~Good(rows', e)
      BY <1>3, <3>2 DEF Good, Linked
    <3> QED BY <1>7, <3>1, <3>3
  <2>2. CASE ~(\A m \in mine[w] : m = e \/ Earlier(e, m))
    <3>1. PICK n \in mine[w] : IsFirst(n, mine[w])
      BY <2>2 DEF Sound, MineHasFirst
    <3>2. /\ Row(e) /\ e \in rows' /\ Row(n)
          /\ \A m \in mine[w] : Row(m) /\ m \in rows'
          /\ \A a \in AtHole : Row(a) /\ a \in rows'
      BY <1>1, <1>4, <3>1 DEF AtHole
    <3>3. Earlier(n, e)
      <4>1. PICK m \in mine[w] : m # e /\ ~Earlier(e, m)
        BY <2>2
      <4>2. Earlier(m, e)
        BY <1>5, <3>2, <4>1, Order
      <4> QED BY <3>1, <3>2, <4>1, <4>2, Order DEF IsFirst
    <3>4. \A a \in AtHole : Earlier(n, a)
      BY <1>3, <3>2, <3>3, Order DEF IsFirst
    <3>5. IsFirst(n, AtHole')
      BY <1>7, <3>1, <3>4 DEF IsFirst
    <3>6. n.prev # NoHash /\ \A x \in Below : n.prev # x.hash
      <4>1. Detached(n.at, n.prev)
        BY <3>1 DEF Located
      <4>2. \A a \in AtHole : ~(a.at < n.at)
        BY <3>2, <3>4, Order DEF Row
      <4> QED BY <4>1, <4>2 DEF Detached
    <3>7. \A y \in rows' : Earlier(y, n) => y \in Below
      <4>1. \A y \in AtHole' : ~Earlier(y, n)
        BY <1>1, <1>4, <1>7, <3>2, <3>5, Order DEF IsFirst, AtHole
      <4> QED BY <1>1, <1>7, <4>1 DEF Below, AtHole
    <3>8. ~Linked(rows', n)
      BY <3>6, <3>7 DEF Linked
    <3> QED BY <3>5, <3>8 DEF Good, IsFirst
  <2> QED BY <2>1, <2>2
<1> QED BY <1>2, <1>7, <1>10, <1>11 DEF Located

LEMMA LocatedKept ==
  ASSUME ChainInv, MineLater, Sound, Located, [ChainNext]_chainVars PROVE Located'
<1>1. CASE Corrupt
  BY <1>1, CorruptLocates
<1>2. ASSUME hole' = hole, ~Tampered PROVE Located'
  BY <1>2 DEF Located, Tampered
<1>3. ASSUME NEW w \in Writer, Insert(w) PROVE Located'
  BY <1>2, <1>3, LocatedInsert DEF Insert
<1>4. ASSUME NEW w \in Writer, ReadLast(w) PROVE Located'
  BY <1>2, <1>4, LocatedRead DEF ReadLast
<1>5. ASSUME NEW w \in Writer, Commit(w) PROVE Located'
  BY <1>2, <1>5, LocatedCommit DEF Commit, EndTransaction
<1>6. ASSUME UNCHANGED <<rows, hole>>,
             \A v \in Writer : mine'[v] = mine[v] \/ mine'[v] = {},
             \A v \in Writer : pc'[v] = "read" =>
               pc[v] = "read" /\ last'[v] = last[v] /\ mine'[v] = mine[v]
      PROVE  Located'
  <2>1. AtHole' = AtHole /\ Below' = Below /\ Tampered' = Tampered
    BY <1>6 DEF AtHole, Below, AtOrAfterHole, Tampered
  <2>2. \A t, h : Detached(t, h)' <=> Detached(t, h)
    BY <2>1 DEF Detached
  <2> SUFFICES ASSUME Tampered PROVE Located'
    BY <2>1 DEF Located
  <2>3. /\ \A y \in Below : Good(rows, y)
        /\ \E y \in AtHole : IsFirst(y, AtHole) /\ ~Good(rows, y)
    BY DEF Located
  <2>4. ASSUME NEW v \in Writer
        PROVE  /\ \A m \in mine'[v] :
                    m.at > hole[1] /\ (IsFirst(m, mine'[v]) => Detached(m.at, m.prev))
               /\ pc'[v] = "read" =>
                    \E y \in last'[v] :
                      /\ last'[v] = {y} /\ y.at >= hole[1]
                      /\ \A m \in mine'[v] : m.at <= y.at
                      /\ mine'[v] = {} => Detached(y.at + 1, y.hash)
    BY <1>6 DEF Located
  <2> QED BY <1>6, <2>1, <2>2, <2>3, <2>4 DEF Located
<1>7. ASSUME NEW w \in Writer, LockEnvelope(w) PROVE Located'
  <2>1. /\ UNCHANGED <<rows, mine, last, hole>>
        /\ \A v \in Writer : pc'[v] = "read" => pc[v] = "read"
    BY <1>7 DEF LockEnvelope, ChainInv, MapsOK
  <2> QED BY <1>6, <2>1
<1>8. ASSUME NEW w \in Writer, Rollback(w) PROVE Located'
  <2>1. /\ UNCHANGED <<rows, hole>>
        /\ \A v \in Writer : v # w =>
             mine'[v] = mine[v] /\ last'[v] = last[v] /\ pc'[v] = pc[v]
        /\ mine'[w] = {} /\ pc'[w] = "idle"
    BY <1>8 DEF Rollback, EndTransaction, ChainInv, MapsOK
  <2>2. /\ \A v \in Writer : mine'[v] = mine[v] \/ mine'[v] = {}
        /\ \A v \in Writer : pc'[v] = "read" =>
             pc[v] = "read" /\ last'[v] = last[v] /\ mine'[v] = mine[v]
    BY <2>1
  <2> QED BY <1>6, <2>1, <2>2
<1>9. CASE UNCHANGED chainVars
  BY <1>6, <1>9 DEF chainVars
<1> QED BY <1>1, <1>3, <1>4, <1>5, <1>7, <1>8, <1>9 DEF ChainNext

LEMMA SoundInit == ChainInit => Sound /\ Located
<1> SUFFICES ASSUME ChainInit PROVE Sound /\ Located
  OBVIOUS
<1>1. AllRows = {} /\ ~Tampered
  BY DEF ChainInit, AllRows, Tampered
<1>2. (\A w \in Writer : mine[w] = {} /\ Visible(w) = {}) /\ rows = {}
  BY DEF ChainInit, Visible
<1>3. Bounded
  BY <1>1 DEF Bounded
<1>4. OneTime
  BY <1>2 DEF OneTime
<1>5. MineHasFirst /\ HoleType /\ OneRow
  BY <1>1, <1>2 DEF MineHasFirst, HoleType, ChainInit, OneRow
<1> QED BY <1>1, <1>3, <1>4, <1>5 DEF Sound, Located

(* A corrupted trail never verifies again, whatever is recorded after, and *)
(* the row reported is the one the tampering hit, or the one that it left  *)
(* first in its place (envelopes.ts:597-608).                              *)
THEOREM TamperingIsLocated == ChainSpec => []TamperLocated
<1>1. ChainInit => MineLater
  BY DEF ChainInit, MineLater
<1>2. ChainInit => Sound /\ Located
  BY SoundInit
<1>3. ChainInv /\ MineLater /\ Sound /\ Located /\ [ChainNext]_chainVars =>
        MineLater' /\ Sound' /\ Located'
  BY MineLaterKept, SoundKept, LocatedKept
<1>4. ChainInv /\ Sound /\ Located => TamperLocated
  <2> SUFFICES ASSUME ChainInv, Sound, Located, Tampered
               PROVE  \E e \in rows :
                        /\ FirstInvalid(rows, e)
                        /\ AtOrAfterHole(e)
                        /\ \A x \in rows : AtOrAfterHole(x) => ~Earlier(x, e)
    BY DEF TamperLocated
  <2>1. PICK e \in AtHole : IsFirst(e, AtHole) /\ ~Good(rows, e)
    BY DEF Located
  <2>2. \A x \in rows : Row(x)
    BY RowTypes DEF ChainInv, AllRows
  <2>3. \A x \in AtHole : ~Earlier(x, e)
    BY <2>1, <2>2, Order DEF IsFirst, AtHole
  <2>4. \A x \in rows : Earlier(x, e) => Good(rows, x)
    BY <2>3 DEF Located, Below, AtHole
  <2>5. e \in rows /\ AtOrAfterHole(e)
    BY DEF AtHole
  <2> QED BY <2>1, <2>3, <2>4, <2>5 DEF FirstInvalid, AtHole
<1> QED BY <1>1, <1>2, <1>3, <1>4, ChainInvHolds, PTL DEF ChainSpec

----------------------------------------------------------------------------
(* The signed PDF. *)

(* What a job holds from `put` on is in the storage.                       *)
PutIsStored == \A j \in Job : job[j] \in {"put", "won"} => bytes[j] \in stored

(* The row names only stored bytes; ready, or won by a job, it names some. *)
KeyIsStored ==
  /\ key # NoBytes => key \in stored
  /\ pdf = "ready" => key # NoBytes
  /\ \A j \in Job : job[j] = "won" => key # NoBytes

Inv == TypeOK /\ PutIsStored /\ KeyIsStored /\ PendingIsBeingWorkedOn

LEMMA InitInv == Init => Inv
<1> SUFFICES ASSUME Init PROVE Inv
  OBVIOUS
<1>1. PICK first \in Job :
        job = [j \in Job |-> IF j = first THEN "queued" ELSE "none"]
  BY DEF Init
<1>2. job \in [Job -> JobState] /\ \A j \in Job : job[j] \in {"queued", "none"}
  BY <1>1 DEF JobState
<1>3. TypeOK
  BY <1>2 DEF Init, TypeOK
<1>4. PutIsStored /\ KeyIsStored
  BY <1>2 DEF Init, PutIsStored, KeyIsStored
<1>5. PendingIsBeingWorkedOn
  BY <1>1 DEF PendingIsBeingWorkedOn, Working
<1> QED BY <1>3, <1>4, <1>5 DEF Inv

(* A job that takes a step is in the state it steps to; the others stay.   *)
LEMMA StepJob ==
  ASSUME NEW j \in Job, NEW from, NEW to \in JobState, TypeOK, Step(j, from, to)
  PROVE  /\ job[j] = from
         /\ job' \in [Job -> JobState]
         /\ job'[j] = to
         /\ \A i \in Job : i # j => job'[i] = job[i]
BY DEF Step, TypeOK

(* One step of a job keeps the invariant.                                  *)
LEMMA JobStepInv ==
  ASSUME NEW j \in Job, Inv, JobStep(j) \/ CrashJob(j)
  PROVE  Inv'
<1> USE DEF Inv
<1>1. CASE Load(j)
  <2>1. PICK to \in {"loaded", "done"} :
          Step(j, "queued", to) /\ (to = "done" => key # NoBytes)
    BY <1>1 DEF Load
  <2>2. /\ job[j] = "queued" /\ job' \in [Job -> JobState] /\ job'[j] = to
        /\ \A i \in Job : i # j => job'[i] = job[i]
    BY <2>1, StepJob DEF JobState
  <2>3. UNCHANGED <<pdf, key, stored, bytes, retry, notices, lost>>
    BY <1>1 DEF Load
  <2>4. TypeOK'
    BY <2>2, <2>3 DEF TypeOK
  <2>5. PutIsStored' /\ KeyIsStored'
    BY <2>2, <2>3 DEF PutIsStored, KeyIsStored
  <2>6. PendingIsBeingWorkedOn'
    BY <2>1, <2>2, <2>3 DEF PendingIsBeingWorkedOn, Working
  <2> QED BY <2>4, <2>5, <2>6
<1>2. CASE Assemble(j)
  <2>1. PICK b \in Bytes : bytes' = [bytes EXCEPT ![j] = b]
    BY <1>2 DEF Assemble
  <2>2. /\ job[j] = "loaded" /\ job' \in [Job -> JobState] /\ job'[j] = "assembled"
        /\ \A i \in Job : i # j => job'[i] = job[i]
    BY <1>2, StepJob DEF Assemble, JobState
  <2>3. UNCHANGED <<pdf, key, stored, retry, notices, lost>>
    BY <1>2 DEF Assemble
  <2>4. TypeOK'
    BY <2>1, <2>2, <2>3 DEF TypeOK
  <2>5. PutIsStored' /\ KeyIsStored'
    BY <2>1, <2>2, <2>3 DEF PutIsStored, KeyIsStored, TypeOK
  <2>6. PendingIsBeingWorkedOn'
    BY <2>2, <2>3 DEF PendingIsBeingWorkedOn, Working
  <2> QED BY <2>4, <2>5, <2>6
<1>3. CASE Put(j)
  <2>1. stored' = stored \cup {bytes[j]} /\ bytes[j] \in Bytes
    BY <1>3 DEF Put, Step, TypeOK
  <2>2. /\ job[j] = "assembled" /\ job' \in [Job -> JobState] /\ job'[j] = "put"
        /\ \A i \in Job : i # j => job'[i] = job[i]
    BY <1>3, StepJob DEF Put, JobState
  <2>3. UNCHANGED <<pdf, key, bytes, retry, notices, lost>>
    BY <1>3 DEF Put
  <2>4. TypeOK'
    BY <2>1, <2>2, <2>3 DEF TypeOK
  <2>5. PutIsStored' /\ KeyIsStored'
    BY <2>1, <2>2, <2>3 DEF PutIsStored, KeyIsStored
  <2>6. PendingIsBeingWorkedOn'
    BY <2>2, <2>3 DEF PendingIsBeingWorkedOn, Working
  <2> QED BY <2>4, <2>5, <2>6
<1>4. CASE Claim(j)
  <2>1. CASE key = NoBytes
    <3>1. /\ job[j] = "put" /\ job' \in [Job -> JobState] /\ job'[j] = "won"
          /\ \A i \in Job : i # j => job'[i] = job[i]
      BY <1>4, <2>1, StepJob DEF Claim, JobState
    <3>2. /\ key' = bytes[j] /\ pdf' = "ready"
          /\ UNCHANGED <<stored, bytes, retry, notices, lost>>
      BY <1>4, <2>1 DEF Claim
    <3>3. bytes[j] \in stored /\ bytes[j] \in Bytes
      BY <3>1 DEF PutIsStored, TypeOK
    <3>4. TypeOK'
      BY <3>1, <3>2, <3>3 DEF TypeOK
    <3>5. PutIsStored' /\ KeyIsStored'
      BY <3>1, <3>2, <3>3, BytesAssumption DEF PutIsStored, KeyIsStored
    <3>6. PendingIsBeingWorkedOn'
      BY <3>2 DEF PendingIsBeingWorkedOn
    <3> QED BY <3>4, <3>5, <3>6
  <2>2. CASE key # NoBytes
    <3>1. /\ job[j] = "put" /\ job' \in [Job -> JobState] /\ job'[j] = "done"
          /\ \A i \in Job : i # j => job'[i] = job[i]
      BY <1>4, <2>2, StepJob DEF Claim, JobState
    <3>2. UNCHANGED <<pdf, key, stored, bytes, retry, notices, lost>>
      BY <1>4, <2>2 DEF Claim
    <3>3. TypeOK'
      BY <3>1, <3>2 DEF TypeOK
    <3>4. PutIsStored' /\ KeyIsStored' /\ PendingIsBeingWorkedOn'
      BY <2>2, <3>1, <3>2 DEF PutIsStored, KeyIsStored, PendingIsBeingWorkedOn
    <3> QED BY <3>3, <3>4
  <2> QED BY <2>1, <2>2
<1>5. CASE Notify(j)
  <2>1. /\ job[j] = "won" /\ job' \in [Job -> JobState] /\ job'[j] = "done"
        /\ \A i \in Job : i # j => job'[i] = job[i]
    BY <1>5, StepJob DEF Notify, JobState
  <2>2. notices' = notices + 1 /\ UNCHANGED <<pdf, key, stored, bytes, retry, lost>>
    BY <1>5 DEF Notify
  <2>3. TypeOK'
    BY <2>1, <2>2 DEF TypeOK
  <2>4. PutIsStored' /\ KeyIsStored' /\ PendingIsBeingWorkedOn'
    BY <2>1, <2>2 DEF PutIsStored, KeyIsStored, PendingIsBeingWorkedOn
  <2> QED BY <2>3, <2>4
<1>6. CASE Throw(j)
  <2>1. /\ job[j] \notin {"none", "queued", "won", "done"}
        /\ job' \in [Job -> JobState] /\ job'[j] = "failing"
        /\ \A i \in Job : i # j => job'[i] = job[i]
    BY <1>6, StepJob DEF Throw, JobState
  <2>2. UNCHANGED <<pdf, key, stored, bytes, retry, notices, lost>>
    BY <1>6 DEF Throw
  <2>3. TypeOK'
    BY <2>1, <2>2 DEF TypeOK
  <2>4. PutIsStored' /\ KeyIsStored'
    BY <2>1, <2>2 DEF PutIsStored, KeyIsStored
  <2>5. PendingIsBeingWorkedOn'
    BY <2>1, <2>2 DEF PendingIsBeingWorkedOn, Working
  <2> QED BY <2>3, <2>4, <2>5
<1>7. CASE MarkFailed(j)
  <2>1. /\ job[j] = "failing" /\ job' \in [Job -> JobState] /\ job'[j] = "done"
        /\ \A i \in Job : i # j => job'[i] = job[i]
    BY <1>7, StepJob DEF MarkFailed, JobState
  <2>2. /\ pdf' = "failed" /\ lost' = FALSE
        /\ UNCHANGED <<key, stored, bytes, retry, notices>>
    BY <1>7 DEF MarkFailed
  <2>3. TypeOK'
    BY <2>1, <2>2 DEF TypeOK
  <2>4. PutIsStored' /\ KeyIsStored' /\ PendingIsBeingWorkedOn'
    BY <2>1, <2>2 DEF PutIsStored, KeyIsStored, PendingIsBeingWorkedOn
  <2> QED BY <2>3, <2>4
<1>8. CASE CrashJob(j)
  <2>1. /\ job' = [job EXCEPT ![j] = "done"] /\ lost' = TRUE
        /\ UNCHANGED <<pdf, key, stored, bytes, retry, notices>>
    BY <1>8 DEF CrashJob
  <2>2. TypeOK'
    BY <2>1 DEF TypeOK, JobState
  <2>3. PutIsStored' /\ KeyIsStored' /\ PendingIsBeingWorkedOn'
    BY <2>1 DEF PutIsStored, KeyIsStored, PendingIsBeingWorkedOn, TypeOK
  <2> QED BY <2>2, <2>3
<1>9. CASE LoadThrows(j) \/ MarkFailedThrows(j)
  <2>1. /\ job' = [job EXCEPT ![j] = "done"] /\ lost' = TRUE
        /\ UNCHANGED <<pdf, key, stored, bytes, retry, notices>>
    BY <1>9 DEF LoadThrows, MarkFailedThrows, Step
  <2>2. TypeOK'
    BY <2>1 DEF TypeOK, JobState
  <2>3. PutIsStored' /\ KeyIsStored' /\ PendingIsBeingWorkedOn'
    BY <2>1 DEF PutIsStored, KeyIsStored, PendingIsBeingWorkedOn, TypeOK
  <2> QED BY <2>2, <2>3
<1>10. CASE ClaimUnanswered(j)
  <2>1. /\ job[j] = "put" /\ job' \in [Job -> JobState] /\ job'[j] = "failing"
        /\ \A i \in Job : i # j => job'[i] = job[i]
    BY <1>10, StepJob DEF ClaimUnanswered, JobState
  <2>2. /\ key' = bytes[j] /\ pdf' = "ready"
        /\ UNCHANGED <<stored, bytes, retry, notices, lost>>
    BY <1>10 DEF ClaimUnanswered
  <2>3. bytes[j] \in stored /\ bytes[j] \in Bytes
    BY <2>1 DEF PutIsStored, TypeOK
  <2>4. TypeOK'
    BY <2>1, <2>2, <2>3 DEF TypeOK
  <2>5. PutIsStored' /\ KeyIsStored'
    BY <2>1, <2>2, <2>3, BytesAssumption DEF PutIsStored, KeyIsStored
  <2>6. PendingIsBeingWorkedOn'
    BY <2>2 DEF PendingIsBeingWorkedOn
  <2> QED BY <2>4, <2>5, <2>6
<1> QED
  BY <1>1, <1>2, <1>3, <1>4, <1>5, <1>6, <1>7, <1>8, <1>9, <1>10 DEF JobStep

(* One step of a retryPdf call keeps the invariant.                        *)
LEMMA RetryInv ==
  ASSUME NEW r \in Retry, Inv, RetryLoad(r) \/ RetryStep(r) \/ CrashRetry(r)
  PROVE  Inv'
<1> USE DEF Inv
<1>1. CASE RetryLoad(r)
  <2>1. /\ retry[r] = "idle" /\ retry' \in [Retry -> {"idle", "loaded", "written", "done"}]
        /\ \A q \in Retry : q # r => retry'[q] = retry[q]
        /\ UNCHANGED <<pdf, key, stored, job, bytes, notices, lost>>
    BY <1>1 DEF RetryLoad, TypeOK
  <2>2. TypeOK' /\ PutIsStored' /\ KeyIsStored'
    BY <2>1 DEF TypeOK, PutIsStored, KeyIsStored
  <2>3. PendingIsBeingWorkedOn'
    BY <2>1 DEF PendingIsBeingWorkedOn, Working
  <2> QED BY <2>2, <2>3
<1>2. CASE RetryWrite(r)
  <2>1. /\ retry' = [retry EXCEPT ![r] = "written"] /\ pdf' = "pending"
        /\ UNCHANGED <<key, stored, job, bytes, notices, lost>>
    BY <1>2 DEF RetryWrite
  <2>2. TypeOK' /\ PutIsStored' /\ KeyIsStored'
    BY <2>1 DEF TypeOK, PutIsStored, KeyIsStored
  <2>3. retry'[r] = "written"
    BY <2>1 DEF TypeOK
  <2>4. PendingIsBeingWorkedOn'
    BY <2>3 DEF PendingIsBeingWorkedOn
  <2> QED BY <2>2, <2>4
<1>3. CASE RetryEnqueue(r)
  <2>1. PICK j \in Job : Step(j, "none", "queued")
    BY <1>3 DEF RetryEnqueue
  <2>2. /\ job[j] = "none" /\ job' \in [Job -> JobState] /\ job'[j] = "queued"
        /\ \A i \in Job : i # j => job'[i] = job[i]
    BY <2>1, StepJob DEF JobState
  <2>3. /\ retry' = [retry EXCEPT ![r] = "done"]
        /\ lost' = FALSE /\ UNCHANGED <<pdf, key, stored, bytes, notices>>
    BY <1>3 DEF RetryEnqueue
  <2>4. TypeOK'
    BY <2>2, <2>3 DEF TypeOK
  <2>5. PutIsStored' /\ KeyIsStored'
    BY <2>2, <2>3 DEF PutIsStored, KeyIsStored
  <2>6. PendingIsBeingWorkedOn'
    BY <2>2 DEF PendingIsBeingWorkedOn, Working
  <2> QED BY <2>4, <2>5, <2>6
<1>4. CASE CrashRetry(r)
  <2>1. /\ retry[r] \in {"loaded", "written"} /\ retry' = [retry EXCEPT ![r] = "done"]
        /\ UNCHANGED <<pdf, key, stored, job, bytes, notices>>
    BY <1>4 DEF CrashRetry
  <2>2. lost' \in BOOLEAN /\ (~lost' => ~lost /\ retry[r] = "loaded")
    BY <1>4, <2>1 DEF CrashRetry, TypeOK
  <2>3. TypeOK' /\ PutIsStored' /\ KeyIsStored'
    BY <2>1, <2>2 DEF TypeOK, PutIsStored, KeyIsStored
  <2>4. PendingIsBeingWorkedOn'
    BY <2>1, <2>2 DEF PendingIsBeingWorkedOn, Working, TypeOK
  <2> QED BY <2>3, <2>4
<1>5. CASE RetryThrows(r)
  <2>1. /\ retry[r] = "loaded" /\ retry' = [retry EXCEPT ![r] = "done"]
        /\ UNCHANGED <<key, stored, job, bytes, notices>>
    BY <1>5 DEF RetryThrows
  <2>2. UNCHANGED <<pdf, lost>> \/ (pdf' = "pending" /\ lost' = TRUE)
    BY <1>5 DEF RetryThrows
  <2>3. TypeOK' /\ PutIsStored' /\ KeyIsStored'
    BY <2>1, <2>2 DEF TypeOK, PutIsStored, KeyIsStored
  <2>4. PendingIsBeingWorkedOn'
    BY <2>1, <2>2 DEF PendingIsBeingWorkedOn, Working, TypeOK
  <2> QED BY <2>3, <2>4
<1> QED BY <1>1, <1>2, <1>3, <1>4, <1>5 DEF RetryStep

LEMMA NextInv == Inv /\ [Next]_vars => Inv'
<1> SUFFICES ASSUME Inv, [Next]_vars PROVE Inv'
  OBVIOUS
<1>1. CASE \E j \in Job : JobStep(j) \/ CrashJob(j)
  BY <1>1, JobStepInv
<1>2. CASE \E r \in Retry : RetryLoad(r) \/ RetryStep(r) \/ CrashRetry(r)
  BY <1>2, RetryInv
<1>3. CASE UNCHANGED vars
  BY <1>3 DEF vars, Inv, TypeOK, PutIsStored, KeyIsStored,
              PendingIsBeingWorkedOn, Working
<1> QED BY <1>1, <1>2, <1>3 DEF Next

THEOREM InvHolds == Spec => []Inv
<1>1. Init => Inv
  BY InitInv
<1>2. Inv /\ [Next]_vars => Inv'
  BY NextInv
<1> QED BY <1>1, <1>2, PTL DEF Spec

(* Every job, retry and row value is one the code can write, and a job     *)
(* holds bytes from its assembly on (envelope-completion.ts:65-112).       *)
THEOREM TypeCorrect == Spec => []TypeOK
<1>1. Inv => TypeOK
  BY DEF Inv
<1> QED BY <1>1, InvHolds, PTL

(* A download that is offered has its bytes in the storage, whichever      *)
(* renders race and die (envelope-completion.ts:181-212).                  *)
THEOREM OfferedIsStored == Spec => []ReadyMeansStored
<1>1. Inv => ReadyMeansStored
  BY DEF Inv, KeyIsStored, ReadyMeansStored
<1> QED BY <1>1, InvHolds, PTL

(* A pending document without a job or a retry that will settle it is the  *)
(* work of a death, of a load or a markFailed that threw, or of a retry's  *)
(* lost answer, with no failure on record and no job dispatched since: no  *)
(* other order of renders, failures and retries leaves one                 *)
(* (envelope-completion.ts:66, 107-113, 336-353, job-queue.ts:108-115).    *)
THEOREM NoSilentPending == Spec => []PendingIsBeingWorkedOn
<1>1. Inv => PendingIsBeingWorkedOn
  BY DEF Inv
<1> QED BY <1>1, InvHolds, PTL

(* Who has won, and who has been told: nobody before the row names bytes,  *)
(* one job then, and no job once both parties have been told.              *)
OneWinner ==
  /\ key = NoBytes => notices = 0 /\ \A j \in Job : job[j] # "won"
  /\ notices \in {0, 1}
  /\ notices = 1 => \A j \in Job : job[j] # "won"
  /\ \A i, j \in Job : job[i] = "won" /\ job[j] = "won" => i = j

LEMMA OneWinnerKept ==
  ASSUME TypeOK, KeyIsStored, OneWinner, [Next]_vars PROVE OneWinner'
<1>1. ASSUME NEW j \in Job, NEW to \in JobState \ {"won"}, job' = [job EXCEPT ![j] = to],
             notices' = notices, key' = key
      PROVE  OneWinner'
  BY <1>1 DEF OneWinner, TypeOK
<1>2. ASSUME NEW j \in Job, Load(j) \/ LoadThrows(j) \/ Assemble(j) \/ Put(j) \/ Throw(j)
             \/ MarkFailed(j) \/ MarkFailedThrows(j) \/ CrashJob(j)
      PROVE  OneWinner'
  <2>1. \E to \in JobState \ {"won"} : job' = [job EXCEPT ![j] = to]
    BY <1>2 DEF Load, LoadThrows, Assemble, Put, Throw, MarkFailed,
                MarkFailedThrows, CrashJob, Step, JobState
  <2> QED BY <1>1, <1>2, <2>1 DEF Load, LoadThrows, Assemble, Put, Throw, MarkFailed,
                                  MarkFailedThrows, CrashJob
<1>3. ASSUME NEW j \in Job, Claim(j) PROVE OneWinner'
  <2>1. CASE key = NoBytes
    <3>1. job' = [job EXCEPT ![j] = "won"] /\ key' = bytes[j] /\ job[j] = "put"
      BY <1>3, <2>1 DEF Claim, Step
    <3>2. key' # NoBytes
      BY <3>1, BytesAssumption DEF TypeOK
    <3>3. notices' = 0
      BY <1>3, <2>1 DEF Claim, OneWinner
    <3> QED BY <2>1, <3>1, <3>2, <3>3 DEF OneWinner, TypeOK
  <2>2. CASE key # NoBytes
    <3>1. job' = [job EXCEPT ![j] = "done"] /\ key' = key /\ notices' = notices
      BY <1>3, <2>2 DEF Claim, Step
    <3> QED BY <1>1, <3>1 DEF JobState
  <2> QED BY <2>1, <2>2
<1>4. ASSUME NEW j \in Job, Notify(j) PROVE OneWinner'
  <2>1. /\ job[j] = "won" /\ job' = [job EXCEPT ![j] = "done"]
        /\ notices' = notices + 1 /\ key' = key
    BY <1>4 DEF Notify, Step
  <2>2. notices = 0 /\ key # NoBytes
    BY <2>1 DEF OneWinner
  <2>3. notices' = 1
    BY <2>1, <2>2
  <2>4. \A i \in Job : job'[i] # "won"
    BY <2>1 DEF OneWinner, TypeOK
  <2> QED BY <2>1, <2>2, <2>3, <2>4 DEF OneWinner
<1>5. ASSUME NEW r \in Retry, RetryLoad(r) \/ RetryStep(r) \/ CrashRetry(r)
      PROVE  OneWinner'
  <2>1. job' = job \/ \E j \in Job : job' = [job EXCEPT ![j] = "queued"]
    BY <1>5 DEF RetryLoad, RetryStep, RetryWrite, RetryThrows, RetryEnqueue, CrashRetry, Step
  <2>2. key' = key /\ notices' = notices
    BY <1>5 DEF RetryLoad, RetryStep, RetryWrite, RetryThrows, RetryEnqueue, CrashRetry
  <2>3. CASE job' = job
    BY <2>2, <2>3 DEF OneWinner
  <2> QED BY <1>1, <2>1, <2>2, <2>3 DEF JobState
<1>6. ASSUME NEW j \in Job, ClaimUnanswered(j) PROVE OneWinner'
  <2>1. /\ key = NoBytes /\ job[j] = "put" /\ job' = [job EXCEPT ![j] = "failing"]
        /\ key' = bytes[j] /\ notices' = notices
    BY <1>6 DEF ClaimUnanswered, Step
  <2>2. key' # NoBytes
    BY <2>1, BytesAssumption DEF TypeOK
  <2>3. notices' = 0 /\ \A i \in Job : job'[i] # "won"
    BY <2>1 DEF OneWinner, TypeOK
  <2> QED BY <2>2, <2>3 DEF OneWinner
<1>7. CASE UNCHANGED vars
  BY <1>7 DEF vars, OneWinner
<1> QED BY <1>2, <1>3, <1>4, <1>5, <1>6, <1>7 DEF Next, JobStep

(* Both parties are told once, whichever renders race, fail or die, and    *)
(* only of the document that won (envelope-completion.ts:103-106, 216-219).*)
THEOREM ToldOnce == Spec => []NotifiedOnce
<1>1. Init => OneWinner
  <2> SUFFICES ASSUME Init PROVE OneWinner
    OBVIOUS
  <2>1. \A j \in Job : job[j] # "won"
    BY DEF Init
  <2> QED BY <2>1 DEF Init, OneWinner
<1>2. Inv /\ OneWinner /\ [Next]_vars => OneWinner'
  BY OneWinnerKept DEF Inv
<1>3. OneWinner => NotifiedOnce
  <2> SUFFICES ASSUME OneWinner PROVE NotifiedOnce
    OBVIOUS
  <2> DEFINE W == {j \in Job : job[j] = "won"}
  <2>1. CASE W = {}
    <3>1. Cardinality(W) = 0
      BY <2>1, FS_EmptySet
    <3> QED BY <3>1 DEF NotifiedOnce, OneWinner
  <2>2. CASE W # {}
    <3>1. PICK j \in W : W = {j}
      BY <2>2 DEF OneWinner
    <3>2. Cardinality(W) = 1
      BY <3>1, FS_Singleton
    <3>3. notices = 0 /\ key # NoBytes
      BY <3>1 DEF OneWinner
    <3> QED BY <3>2, <3>3 DEF NotifiedOnce
  <2> QED BY <2>1, <2>2
<1> QED BY <1>1, <1>2, <1>3, InvHolds, PTL DEF Spec

(* The renderer implements the write-once document: only stored bytes are  *)
(* published, once, for ever (envelope-completion.ts:181-216).             *)
THEOREM ImplementsSignedDocument == Spec => WriteOnce
<1>1. Init => Abstract!Init
  BY DEF Init, Abstract!Init
<1>2. Inv /\ [Next]_vars => [Abstract!Next]_<<key, stored>>
  <2> SUFFICES ASSUME Inv, [Next]_vars, ~UNCHANGED <<key, stored>>
               PROVE  Abstract!Next
    OBVIOUS
  <2>1. ASSUME NEW j \in Job, Put(j) PROVE Abstract!Next
    <3>1. bytes[j] \in Bytes /\ Abstract!Store(bytes[j])
      BY <2>1 DEF Put, Step, Inv, TypeOK, Abstract!Store
    <3> QED BY <3>1 DEF Abstract!Next
  <2>2. ASSUME NEW j \in Job, Claim(j) PROVE Abstract!Next
    <3>1. bytes[j] \in Bytes /\ Abstract!Publish(bytes[j])
      BY <2>2 DEF Claim, Step, Inv, TypeOK, PutIsStored, Abstract!Publish
    <3> QED BY <3>1 DEF Abstract!Next
  <2>3. ASSUME NEW j \in Job, ClaimUnanswered(j) PROVE Abstract!Next
    <3>1. bytes[j] \in Bytes /\ Abstract!Publish(bytes[j])
      BY <2>3 DEF ClaimUnanswered, Step, Inv, TypeOK, PutIsStored, Abstract!Publish
    <3> QED BY <3>1 DEF Abstract!Next
  <2>4. ASSUME NEW j \in Job, JobStep(j) \/ CrashJob(j) PROVE Abstract!Next
    BY <2>1, <2>2, <2>3, <2>4 DEF JobStep, Load, LoadThrows, Assemble, Notify, Throw,
                                  MarkFailed, MarkFailedThrows, CrashJob
  <2>5. ~(\E r \in Retry : RetryLoad(r) \/ RetryStep(r) \/ CrashRetry(r))
    BY DEF RetryLoad, RetryStep, RetryWrite, RetryThrows, RetryEnqueue, CrashRetry
  <2> QED BY <2>4, <2>5 DEF Next, vars
<1> QED BY <1>1, <1>2, InvHolds, PTL DEF Spec, WriteOnce, Abstract!Spec
=============================================================================
