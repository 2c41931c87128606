-------------------------- MODULE Autosave_proofs ---------------------------
(***************************************************************************)
(* However keystrokes, presses of Save, timers and answers interleave, the *)
(* loop shows the truth, owes no write it does not intend to make, and     *)
(* makes no more than it was asked for.                                    *)
(***************************************************************************)
EXTENDS Autosave, TLAPS

One(b) == IF b THEN 1 ELSE 0

(* At most one save is in flight, and only behind it may one be queued.    *)
OneInFlight ==
  /\ saving => \E t \in Text : calls = {t}
  /\ ~saving => calls = {} /\ ~queued

(* The loop knows what the server holds, and the screen knows the loop.    *)
Known ==
  /\ server = saved \/ "lost" \in excused
  /\ state \in {"idle", "saved"} => ~dirty
  /\ state = "pending" => dirty

(* Text that is not in flight behind a save is due once more.              *)
Due ==
  /\ timer /\ saving => dirty
  /\ saving /\ current \notin calls => timer \/ queued \/ ~mounted \/ "back" \in excused
  /\ PendingIsDue

(* A save begun, queued, or counted down for, was asked for.               *)
Asked == sent + One(queued) + One(timer) <= keys + presses

Inv == TypeOK /\ OneInFlight /\ Known /\ Due /\ Asked

(* The type invariant, the flags apart from the data.                      *)
Flags ==
  /\ timer \in BOOLEAN /\ wrote \in BOOLEAN /\ saving \in BOOLEAN
  /\ queued \in BOOLEAN /\ mounted \in BOOLEAN

Data ==
  /\ state \in State
  /\ current \in Text /\ saved \in Text /\ server \in Text
  /\ calls \subseteq Text
  /\ keys \in Nat /\ presses \in Nat /\ keys + presses <= MaxMoves
  /\ sent \in Nat
  /\ excused \subseteq {"lost", "back"}

LEMMA Types == TypeOK <=> Flags /\ Data
BY DEF TypeOK, Flags, Data

LEMMA InitInv == Init => Inv
<1> SUFFICES ASSUME Init PROVE Inv
  OBVIOUS
<1>1. Flags
  BY DEF Init, Flags
<1>2. Data
  BY MaxMovesAssumption DEF Init, Data, State, Text
<1>3. OneInFlight /\ Known /\ Due
  BY DEF Init, OneInFlight, Known, Due, PendingIsDue, dirty
<1>4. Asked
  BY DEF Init, Asked, One
<1> QED BY <1>1, <1>2, <1>3, <1>4, Types DEF Inv

LEMMA ChangeInv ==
  ASSUME Inv, change PROVE Inv'
<1> USE DEF Inv
<1>1. PICK t \in Text :
        /\ current' = t
        /\ timer' = (t # saved)
        /\ state' = IF t # saved THEN "pending"
                    ELSE IF saving THEN "saving" ELSE IF wrote THEN "saved" ELSE "idle"
        /\ excused' = (excused \ {"back"}) \cup (IF t = saved /\ saving THEN {"back"} ELSE {})
  BY MaxMovesAssumption DEF change, Text, TypeOK
<1>2. /\ keys + presses < MaxMoves /\ keys' = keys + 1
      /\ UNCHANGED <<saved, wrote, saving, queued, calls, server, mounted, presses, sent>>
  BY DEF change
<1>3. TypeOK'
  BY <1>1, <1>2, MaxMovesAssumption DEF TypeOK, State, Text
<1>4. OneInFlight' /\ Known'
  BY <1>1, <1>2 DEF OneInFlight, Known, dirty
<1>5. Due'
  BY <1>1, <1>2 DEF Due, PendingIsDue, dirty
<1>6. Asked'
  BY <1>1, <1>2 DEF Asked, One, TypeOK
<1> QED BY <1>3, <1>4, <1>5, <1>6

(* A write that comes due is sent, queued, or dropped as needless.         *)
LEMMA WriteInv ==
  ASSUME Inv, flush \/ TimerFires PROVE Inv'
<1> USE DEF Inv
<1>1. write /\ UNCHANGED <<current, saved, wrote, server, mounted, keys>>
  BY DEF flush, TimerFires, member
<1>2. \/ timer /\ UNCHANGED <<presses, excused>>
      \/ dirty /\ presses' = presses + 1 /\ keys + presses < MaxMoves
         /\ excused' = excused \ {"back"}
  BY DEF flush, TimerFires, member
<1>3. timer' = FALSE
  BY <1>1 DEF write
<1>4. CASE dirty /\ ~saving /\ Send /\ UNCHANGED queued
  <2>1. calls' = {current} /\ sent' = sent + 1 /\ saving' = TRUE /\ state' = "saving"
    BY <1>4 DEF Send, OneInFlight
  <2>2. TypeOK'
    <3>1. Flags'
      BY <1>1, <1>3, <1>4, <2>1, Types DEF Flags
    <3>2. Data'
      BY <1>1, <1>2, <2>1, Types, MaxMovesAssumption DEF Data, State
    <3> QED BY <3>1, <3>2 DEF TypeOK, Flags, Data
  <2>3. OneInFlight' /\ Known'
    BY <1>1, <1>2, <1>4, <2>1 DEF OneInFlight, Known, dirty, TypeOK
  <2>4. Due'
    BY <1>1, <1>3, <2>1 DEF Due, PendingIsDue
  <2>5. Asked'
    BY <1>1, <1>2, <1>3, <1>4, <2>1 DEF Asked, One, TypeOK
  <2> QED BY <2>2, <2>3, <2>4, <2>5
<1>5. CASE dirty /\ saving /\ queued' = TRUE /\ UNCHANGED <<calls, sent, saving, state>>
  <2>1. TypeOK'
    <3>1. Flags'
      BY <1>1, <1>3, <1>5, Types DEF Flags
    <3>2. Data'
      BY <1>1, <1>2, <1>5, Types, MaxMovesAssumption DEF Data
    <3> QED BY <3>1, <3>2 DEF TypeOK, Flags, Data
  <2>2. OneInFlight' /\ Known'
    BY <1>1, <1>2, <1>5 DEF OneInFlight, Known, dirty
  <2>3. Due'
    BY <1>1, <1>3, <1>5 DEF Due, PendingIsDue
  <2>4. Asked'
    BY <1>1, <1>2, <1>3, <1>5 DEF Asked, One, TypeOK
  <2> QED BY <2>1, <2>2, <2>3, <2>4
<1>6. CASE ~dirty /\ UNCHANGED <<queued, calls, sent, saving, state>>
  <2>0. timer /\ UNCHANGED <<presses, excused>>
    BY <1>2, <1>6
  <2>1. TypeOK'
    BY <1>1, <1>3, <1>6, <2>0, MaxMovesAssumption DEF TypeOK
  <2>2. OneInFlight' /\ Known'
    BY <1>1, <1>6, <2>0 DEF OneInFlight, Known, dirty
  <2>3. Due'
    BY <1>1, <1>3, <1>6, <2>0 DEF Due, PendingIsDue, Known, dirty
  <2>4. Asked'
    BY <1>1, <1>3, <1>6, <2>0 DEF Asked, One, TypeOK
  <2> QED BY <2>1, <2>2, <2>3, <2>4
<1> QED BY <1>1, <1>4, <1>5, <1>6 DEF write

LEMMA SucceedsInv ==
  ASSUME Inv, NEW t \in Text, SaveSucceeds(t) PROVE Inv'
<1> USE DEF Inv
<1>1. /\ calls = {t} /\ saving
      /\ server' = t /\ saved' = t /\ wrote' = TRUE /\ queued' = FALSE
      /\ excused' = excused \ {"lost"}
      /\ UNCHANGED <<current, mounted, keys, presses>>
  BY DEF SaveSucceeds, OneInFlight, member
<1>2. CASE queued /\ current # t
  <2>1. /\ timer' = FALSE /\ saving' = TRUE /\ state' = "saving"
        /\ calls' = {current} /\ sent' = sent + 1
    BY <1>1, <1>2 DEF SaveSucceeds
  <2>2. TypeOK'
    <3>1. Flags'
      BY <1>1, <2>1, Types DEF Flags
    <3>2. Data'
      BY <1>1, <2>1, Types DEF Data, State
    <3> QED BY <3>1, <3>2 DEF TypeOK, Flags, Data
  <2>3. OneInFlight' /\ Known' /\ Due'
    BY <1>1, <2>1 DEF OneInFlight, Known, Due, PendingIsDue, dirty, TypeOK
  <2>4. Asked'
    BY <1>1, <1>2, <2>1 DEF Asked, One, TypeOK
  <2> QED BY <2>2, <2>3, <2>4
<1>3. CASE ~(queued /\ current # t)
  <2>1. /\ saving' = FALSE /\ state' = IF current # t THEN "pending" ELSE "saved"
        /\ calls' = {} /\ UNCHANGED <<timer, sent>>
    BY <1>1, <1>3 DEF SaveSucceeds
  <2>2. TypeOK'
    BY <1>1, <2>1 DEF TypeOK, State
  <2>3. OneInFlight' /\ Known'
    BY <1>1, <2>1 DEF OneInFlight, Known, dirty
  <2>4. Due'
    BY <1>1, <1>3, <2>1 DEF Due, PendingIsDue, dirty
  <2>5. Asked'
    BY <1>1, <2>1 DEF Asked, One, TypeOK
  <2> QED BY <2>2, <2>3, <2>4, <2>5
<1> QED BY <1>2, <1>3

LEMMA FailsInv ==
  ASSUME Inv, NEW t \in Text, SaveFails(t) PROVE Inv'
<1> USE DEF Inv
<1>1. /\ calls = {t} /\ saving
      /\ \/ UNCHANGED <<server, excused>>
         \/ server' = t /\ excused' = excused \cup {"lost"}
      /\ calls' = {} /\ saving' = FALSE /\ queued' = FALSE /\ state' = "failed"
      /\ UNCHANGED <<timer, current, saved, wrote, mounted, keys, presses, sent>>
  BY DEF SaveFails, OneInFlight, member
<1>2. TypeOK'
  BY <1>1 DEF TypeOK, State
<1>3. OneInFlight' /\ Known' /\ Due'
  BY <1>1 DEF OneInFlight, Known, Due, PendingIsDue, dirty
<1>4. Asked'
  BY <1>1 DEF Asked, One, TypeOK
<1> QED BY <1>2, <1>3, <1>4

LEMMA CancelInv ==
  ASSUME Inv, cancel PROVE Inv'
<1> USE DEF Inv
<1>1. TypeOK'
  BY DEF cancel, TypeOK
<1>2. OneInFlight' /\ Known' /\ Due'
  BY DEF cancel, OneInFlight, Known, Due, PendingIsDue, dirty
<1>3. Asked'
  BY DEF cancel, Asked, One, TypeOK
<1> QED BY <1>1, <1>2, <1>3

LEMMA NextInv == Inv /\ [Next]_vars => Inv'
<1> SUFFICES ASSUME Inv, [Next]_vars PROVE Inv'
  OBVIOUS
<1>1. CASE UNCHANGED vars
  BY <1>1 DEF vars, member, Inv, TypeOK, OneInFlight, Known, Due, PendingIsDue, Asked, One, dirty
<1>2. CASE Next
  BY <1>2, ChangeInv, WriteInv, SucceedsInv, FailsInv, CancelInv DEF Next, Answer
<1> QED BY <1>1, <1>2

LEMMA Invariant == Spec => []Inv
BY InitInv, NextInv, PTL DEF Spec

(* Every variable has its type, for any number of keystrokes.              *)
THEOREM TypeCorrect == Spec => []TypeOK
BY Invariant, PTL DEF Inv

(* The editor never shows that the server holds a text that it does not    *)
(* hold, nor lets the member leave over one, but for a lost answer.        *)
THEOREM Truthful == Spec => []SavedMeansHeld
<1>1. Inv => SavedMeansHeld
  BY DEF Inv, Known, SavedMeansHeld, dirty
<1> QED BY <1>1, Invariant, PTL

(* No burst of keystrokes, presses and failures makes more saves than the  *)
(* member made moves.                                                      *)
THEOREM NoStorm == Spec => []OneSaveToAMove
<1>1. Inv => OneSaveToAMove
  BY DEF Inv, Asked, One, OneSaveToAMove, TypeOK
<1> QED BY <1>1, Invariant, PTL

(* Text that waits is always about to be written, but for the one case in  *)
(* which the loop forgets it.                                              *)
THEOREM NothingForgotten == Spec => []PendingIsDue
<1>1. Inv => PendingIsDue
  BY DEF Inv, Due
<1> QED BY <1>1, Invariant, PTL
=============================================================================
