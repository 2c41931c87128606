----------------------- MODULE ProviderSession_proofs -----------------------
(***************************************************************************)
(* However many senders, editors and deleters work on a draft, whatever    *)
(* fails and whichever documents are adopted, one send wins and what it    *)
(* pinned is never changed.                                                *)
(*                                                                         *)
(* The invariant: an envelope that is still a draft has been sent by       *)
(* nobody, which the winner's look at the status under the row lock makes  *)
(* true; and a send that reaches its transaction holds a document.         *)
(***************************************************************************)
EXTENDS ProviderSession, TLAPS

SendType ==
  [pc : SendState, version : Version, adopt : BOOLEAN, doc : Doc \cup {NoDoc}]

Holding(r) == r.pc \notin {"idle", "prepared"} <=> r.doc # NoDoc

(* The bound on edits is kept: one edit at a time, checked as it starts.   *)
EditFits == editing => content < MaxEdits

Inv == TypeOK /\ OneWinner /\ EditFits

(* A send that goes to a state it may be in leaves all sends well typed.   *)
LEMMA BecomeType ==
  ASSUME NEW p \in Sender, NEW r \in SendType, Holding(r),
         TypeOK, Become(p, r)
  PROVE  /\ snd' \in [Sender -> SendType]
         /\ \A q \in Sender : Holding(snd'[q])
BY DEF TypeOK, Become, SendType, Holding

(* The records that the actions build are well typed and hold a document   *)
(* exactly when they should.                                               *)
LEMMA SendingType ==
  ASSUME NEW pc \in SendState, NEW version \in Version, NEW adopt \in BOOLEAN,
         NEW doc \in Doc \cup {NoDoc}
  PROVE  /\ Sending(pc, version, adopt, doc) \in SendType
         /\ (pc \notin {"idle", "prepared"} <=> doc # NoDoc)
              => Holding(Sending(pc, version, adopt, doc))
BY DEF Sending, SendType, Holding

LEMMA IdleType == IdleSend \in SendType /\ Holding(IdleSend)
BY EditAssumption DEF IdleSend, Sending, SendType, Holding, SendState, Version

(* A send that moves on with the document it holds stays well typed.       *)
LEMMA GotoType ==
  ASSUME NEW p \in Sender, TypeOK, NEW label \in SendState \ {"idle", "prepared"},
         snd[p].pc \notin {"idle", "prepared"}, Goto(p, label)
  PROVE  /\ snd' \in [Sender -> SendType]
         /\ \A q \in Sender : Holding(snd'[q])
<1> DEFINE r == Sending(label, snd[p].version, snd[p].adopt, snd[p].doc)
<1>1. snd[p] \in SendType /\ snd[p].doc # NoDoc
  BY DEF TypeOK, SendType
<1>2. r \in SendType /\ Holding(r)
  BY <1>1, SendingType DEF SendType
<1>3. Become(p, r)
  BY DEF Goto
<1> HIDE DEF r
<1> QED BY <1>2, <1>3, BecomeType

(* A send that opened or adopted document d stays well typed.              *)
LEMMA OpenedType ==
  ASSUME NEW p \in Sender, TypeOK, NEW d \in Doc, Opened(p, d)
  PROVE  /\ snd' \in [Sender -> SendType]
         /\ \A q \in Sender : Holding(snd'[q])
<1> DEFINE r == Sending("opened", snd[p].version, snd[p].adopt, d)
<1>1. snd[p] \in SendType
  BY DEF TypeOK, SendType
<1>2. r \in SendType /\ Holding(r)
  BY <1>1, SendingType, DocAssumption DEF SendType, SendState
<1>3. Become(p, r)
  BY DEF Opened
<1> HIDE DEF r
<1> QED BY <1>2, <1>3, BecomeType

LEMMA IdleAgain ==
  ASSUME NEW p \in Sender, TypeOK, Become(p, IdleSend)
  PROVE  /\ snd' \in [Sender -> SendType]
         /\ \A q \in Sender : Holding(snd'[q])
BY IdleType, BecomeType

SendsTyped ==
  /\ snd' \in [Sender -> SendType]
  /\ \A q \in Sender : Holding(snd'[q])

LEMMA InitInv == Init => Inv
<1> SUFFICES ASSUME Init PROVE Inv
  OBVIOUS
<1>1. 0 \in Version
  BY EditAssumption DEF Version
<1>2. snd \in [Sender -> SendType] /\ \A q \in Sender : Holding(snd[q])
  BY IdleType DEF Init
<1>3. TypeOK
  BY <1>1, <1>2 DEF Init, TypeOK, SendType, Holding
<1>4. OneWinner /\ EditFits
  BY DEF Init, OneWinner, EditFits
<1> QED BY <1>3, <1>4 DEF Inv

(* Whatever a send does, the record it leaves is well typed.               *)
LEMMA SendStepTyped ==
  ASSUME NEW p \in Sender, TypeOK, SendStep(p) \/ CrashSend(p)
  PROVE  SendsTyped
<1>1. CASE Prepare(p)
  <2> DEFINE r == Sending("prepared", content, marker, NoDoc)
  <2>1. r \in SendType /\ Holding(r)
    BY SendingType DEF TypeOK, SendState
  <2>2. Become(p, r)
    BY <1>1 DEF Prepare
  <2> HIDE DEF r
  <2> QED BY <2>1, <2>2, BecomeType DEF SendsTyped
<1>2. CASE Adopt(p)
  BY <1>2, OpenedType DEF Adopt, SendsTyped, TypeOK
<1>3. CASE Create(p)
  BY <1>3, OpenedType DEF Create, SendsTyped
<1>4. CASE CreateUnanswered(p)
  <2>1. docs' \subseteq Doc
    BY <1>4 DEF CreateUnanswered, TypeOK
  <2> QED BY <1>4, <2>1, OpenedType, IdleAgain DEF CreateUnanswered, SendsTyped
<1>5. CASE OpenFails(p)
  BY <1>5, IdleAgain DEF OpenFails, SendsTyped
<1>6. CASE Settle(p)
  BY <1>6, GotoType DEF Settle, At, SendState, SendsTyped
<1>7. CASE NeverParsed(p)
  BY <1>7, IdleAgain DEF NeverParsed, SendsTyped
<1>8. CASE Pin(p)
  BY <1>8, IdleAgain DEF Pin, SendsTyped
<1>9. CASE PinFails(p)
  BY <1>9, GotoType DEF PinFails, At, SendState, SendsTyped
<1>10. CASE AbandonCheck(p)
  BY <1>10, GotoType, IdleAgain DEF AbandonCheck, At, SendState, SendsTyped
<1>11. CASE Cancel(p)
  BY <1>11, GotoType, IdleAgain DEF Cancel, At, SendState, SendsTyped
<1>12. CASE Mark(p)
  BY <1>12, IdleAgain DEF Mark, SendsTyped
<1>13. CASE CrashSend(p)
  BY <1>13, IdleAgain DEF CrashSend, SendsTyped
<1> QED BY <1>1, <1>2, <1>3, <1>4, <1>5, <1>6, <1>7, <1>8, <1>9, <1>10,
          <1>11, <1>12, <1>13 DEF SendStep

(* The rest of the state: every variable but the sends.                    *)
RowsType ==
  /\ status \in {"draft", "sent", "deleted"}
  /\ content \in Version /\ frozen \in Version
  /\ ref \in Doc \cup {NoDoc} /\ marker \in BOOLEAN /\ sends \in Nat
  /\ docs \subseteq Doc /\ made \in [Doc -> Version]
  /\ editing \in BOOLEAN /\ removing \in BOOLEAN /\ leaked \in BOOLEAN

LEMMA TypeParts ==
  /\ TypeOK => RowsType
  /\ RowsType' /\ SendsTyped => TypeOK'
BY DEF TypeOK, RowsType, SendsTyped, SendType, Holding

LEMMA SendStepInv ==
  ASSUME NEW p \in Sender, Inv, SendStep(p) \/ CrashSend(p)
  PROVE  RowsType' /\ OneWinner' /\ EditFits'
<1> USE DEF Inv, OneWinner, RowsType, EditFits
<1>0. RowsType /\ snd[p] \in SendType
  BY TypeParts DEF TypeOK, SendType
<1>1. CASE Prepare(p)
  BY <1>0, <1>1 DEF Prepare, rows
<1>2. CASE Adopt(p)
  BY <1>0, <1>2 DEF Adopt, rows
<1>3. CASE Create(p)
  BY <1>0, <1>3 DEF Create, rows, SendType
<1>4. CASE CreateUnanswered(p)
  BY <1>0, <1>4 DEF CreateUnanswered, rows, SendType
<1>5. CASE OpenFails(p)
  BY <1>0, <1>5 DEF OpenFails, rows
<1>6. CASE Settle(p)
  BY <1>0, <1>6 DEF Settle, rows
<1>7. CASE NeverParsed(p)
  BY <1>0, <1>7 DEF NeverParsed, rows
<1>8. CASE Pin(p)
  <2>1. snd[p].doc \in Doc
    BY <1>0, <1>8 DEF Pin, At, TypeOK, SendType
  <2>2. snd[p].version \in Version
    BY <1>0 DEF SendType
  <2>3. /\ status' = "sent" /\ status = "draft" /\ frozen' = snd[p].version
        /\ ref' = snd[p].doc /\ marker' = FALSE /\ sends' = sends + 1
        /\ UNCHANGED <<content, docs, made, editing, removing, leaked>>
    BY <1>8 DEF Pin, StillDraft
  <2>4. sends = 0
    BY <2>3
  <2>5. RowsType'
    <3>1. status' \in {"draft", "sent", "deleted"}
      BY <2>3
    <3>2. /\ content' \in Version /\ frozen' \in Version
          /\ ref' \in Doc \cup {NoDoc} /\ sends' \in Nat
          /\ docs' \subseteq Doc /\ made' \in [Doc -> Version]
      BY <1>0, <2>1, <2>2, <2>3
    <3>3. /\ marker' \in BOOLEAN /\ editing' \in BOOLEAN
          /\ removing' \in BOOLEAN /\ leaked' \in BOOLEAN
      BY <1>0, <2>3, Zenon
    <3> QED BY <3>1, <3>2, <3>3
  <2>6. OneWinner'
    BY <2>1, <2>3, <2>4, DocAssumption
  <2>7. EditFits'
    BY <2>3
  <2> QED BY <2>5, <2>6, <2>7
<1>9. CASE PinFails(p)
  BY <1>0, <1>9 DEF PinFails, rows
<1>10. CASE AbandonCheck(p)
  BY <1>0, <1>10 DEF AbandonCheck, rows
<1>11. CASE Cancel(p)
  BY <1>0, <1>11 DEF Cancel, rows
<1>12. CASE Mark(p)
  BY <1>0, <1>12 DEF Mark
<1>13. CASE CrashSend(p)
  BY <1>0, <1>13 DEF CrashSend, rows
<1> QED BY <1>1, <1>2, <1>3, <1>4, <1>5, <1>6, <1>7, <1>8, <1>9, <1>10,
          <1>11, <1>12, <1>13 DEF SendStep

LEMMA RowStepInv ==
  ASSUME Inv, RowStep
  PROVE  RowsType' /\ OneWinner' /\ EditFits' /\ snd' = snd
<1> USE TypeParts, EditAssumption DEF Inv, OneWinner, RowsType, EditFits
<1>1. CASE UpdateLoad
  BY <1>1 DEF UpdateLoad, rows
<1>2. CASE UpdateWrite
  <2>1. content < MaxEdits => content + 1 \in Version
    BY DEF Version
  <2> QED BY <1>2, <2>1 DEF UpdateWrite
<1>3. CASE RemoveLoad
  BY <1>3 DEF RemoveLoad, rows
<1>4. CASE RemoveWrite
  BY <1>4 DEF RemoveWrite
<1> QED BY <1>1, <1>2, <1>3, <1>4 DEF RowStep

LEMMA NextInv == Inv /\ [Next]_vars => Inv'
<1> SUFFICES ASSUME Inv, [Next]_vars PROVE Inv'
  OBVIOUS
<1>1. ASSUME NEW p \in Sender, SendStep(p) \/ CrashSend(p) PROVE Inv'
  BY <1>1, SendStepTyped, SendStepInv, TypeParts DEF Inv
<1>2. CASE RowStep
  <2>1. SendsTyped
    BY <1>2, RowStepInv DEF Inv, TypeOK, SendsTyped, SendType, Holding
  <2> QED BY <1>2, <2>1, RowStepInv, TypeParts DEF Inv
<1>3. CASE UNCHANGED vars
  BY <1>3 DEF vars, rows, Inv, TypeOK, OneWinner, EditFits
<1> QED BY <1>1, <1>2, <1>3 DEF Next

THEOREM InvHolds == Spec => []Inv
<1>1. Init => Inv
  BY InitInv
<1>2. Inv /\ [Next]_vars => Inv'
  BY NextInv
<1> QED BY <1>1, <1>2, PTL DEF Spec

(* Every send is in one of its states and holds a document exactly from    *)
(* the moment it opened one to the moment it gives it up                   *)
(* (envelopes.service.ts:843-1064).                                        *)
THEOREM TypeCorrect == Spec => []TypeOK
<1>1. Inv => TypeOK
  BY DEF Inv
<1> QED BY <1>1, InvHolds, PTL

(* However many sends race, whatever fails on the way and whoever edits or *)
(* deletes the row meanwhile, one commits and invites, and the envelope    *)
(* names a document exactly if one did (envelopes.service.ts:867-882).     *)
THEOREM OneSendWins == Spec => []OneWinner
<1>1. Inv => OneWinner
  BY DEF Inv
<1> QED BY <1>1, InvHolds, PTL

(* What the winning send pinned and froze is never changed afterwards      *)
(* (envelopes.service.ts:907-931).                                         *)
THEOREM PinnedStays == Spec => PinnedForever
<1>1. Inv /\ [Next]_vars => [(sends > 0) => (ref' = ref /\ frozen' = frozen)]_vars
  <2> SUFFICES ASSUME Inv, [Next]_vars, sends > 0
               PROVE  ref' = ref /\ frozen' = frozen
    OBVIOUS
  <2>1. status # "draft"
    BY DEF Inv, OneWinner
  <2>2. ASSUME NEW p \in Sender, SendStep(p) \/ CrashSend(p)
        PROVE  ref' = ref /\ frozen' = frozen
    BY <2>1, <2>2 DEF SendStep, CrashSend, Prepare, Adopt, Create, CreateUnanswered,
       OpenFails, Settle, NeverParsed, Pin, StillDraft, PinFails, AbandonCheck,
       Cancel, Mark, rows
  <2>3. CASE RowStep
    BY <2>3 DEF RowStep, UpdateLoad, UpdateWrite, RemoveLoad, RemoveWrite, rows
  <2>4. CASE UNCHANGED vars
    BY <2>4 DEF vars, rows
  <2> QED BY <2>2, <2>3, <2>4 DEF Next
<1> QED BY <1>1, InvHolds, PTL DEF Spec, PinnedForever

----------------------------------------------------------------------------
(* What a failed send leaves at the provider.                              *)

(* A step of one send that opens nothing loses track of nothing, if the    *)
(* send keeps its document or leaves with none that still exists.          *)
LEMMA HeldKept ==
  ASSUME TypeOK, DraftLeftoverRecorded,
         NEW p \in Sender, NEW r, Become(p, r),
         r.doc = snd[p].doc \/ snd[p].doc \notin docs',
         docs' \subseteq docs,
         status' = status, marker' = marker, leaked' = leaked
  PROVE  DraftLeftoverRecorded'
<1> SUFFICES ASSUME status = "draft", ~leaked, ~marker, NEW d \in docs'
             PROVE  \E q \in Sender : snd'[q].doc = d
  BY DEF DraftLeftoverRecorded
<1>1. PICK q \in Sender : snd[q].doc = d
  BY DEF DraftLeftoverRecorded
<1>2. snd' = [snd EXCEPT ![p] = r] /\ snd \in [Sender -> SendType]
  BY DEF Become, TypeOK, SendType
<1>3. CASE q = p
  BY <1>1, <1>2, <1>3
<1>4. CASE q # p
  BY <1>1, <1>2, <1>4
<1> QED BY <1>3, <1>4

(* A send that opens d holds it; it held nothing before.                   *)
LEMMA OpenedHeld ==
  ASSUME TypeOK, DraftLeftoverRecorded,
         NEW p \in Sender, NEW d \in Doc, At(p, "prepared"), Opened(p, d),
         docs' \subseteq docs \cup {d},
         status' = status, marker' = marker, ~leaked' => ~leaked
  PROVE  DraftLeftoverRecorded'
<1> DEFINE r == Sending("opened", snd[p].version, snd[p].adopt, d)
<1>1. r.doc = d
  BY DEF Sending
<1>2. snd' = [snd EXCEPT ![p] = r] /\ snd \in [Sender -> SendType]
  BY DEF Opened, Become, TypeOK, SendType
<1>3. snd[p].doc = NoDoc
  BY DEF TypeOK, At
<1> HIDE DEF r
<1> SUFFICES ASSUME status = "draft", ~leaked, ~marker, NEW e \in docs'
             PROVE  \E q \in Sender : snd'[q].doc = e
  BY DEF DraftLeftoverRecorded
<1>4. CASE e = d
  BY <1>1, <1>2, <1>4
<1>5. CASE e # d
  <2>1. PICK q \in Sender : snd[q].doc = e
    BY <1>5 DEF DraftLeftoverRecorded
  <2>2. q # p
    BY <1>3, <2>1, <1>5, DocAssumption DEF TypeOK
  <2> QED BY <1>2, <2>1, <2>2
<1> QED BY <1>4, <1>5

(* A send that has not opened a document has none to lose.                 *)
LEMMA EmptyHanded ==
  ASSUME TypeOK, NEW p \in Sender, At(p, "idle") \/ At(p, "prepared")
  PROVE  snd[p].doc = NoDoc /\ NoDoc \notin docs
BY DocAssumption DEF TypeOK, At

LEMMA SendKeepsTrack ==
  ASSUME NEW p \in Sender, Inv, DraftLeftoverRecorded,
         SendStep(p) \/ CrashSend(p)
  PROVE  DraftLeftoverRecorded'
<1>0. TypeOK
  BY DEF Inv
<1>1. CASE Prepare(p)
  <2>1. /\ Become(p, Sending("prepared", content, marker, NoDoc))
        /\ docs' = docs /\ status' = status /\ marker' = marker /\ leaked' = leaked
    BY <1>1 DEF Prepare, rows
  <2>2. snd[p].doc \notin docs'
    BY <1>0, <1>1, <2>1, EmptyHanded DEF Prepare
  <2> QED BY <1>0, <2>1, <2>2, HeldKept
<1>2. CASE Adopt(p)
  <2>1. PICK d \in docs : Opened(p, d)
    BY <1>2 DEF Adopt
  <2>2. /\ At(p, "prepared") /\ docs' = docs
        /\ status' = status /\ marker' = marker /\ leaked' = leaked
    BY <1>2 DEF Adopt, rows
  <2>3. d \in Doc
    BY <1>0 DEF TypeOK
  <2> QED BY <1>0, <2>1, <2>2, <2>3, OpenedHeld
<1>3. CASE Create(p)
  <2>1. PICK d \in Doc \ docs : docs' = docs \cup {d} /\ Opened(p, d)
    BY <1>3 DEF Create
  <2>2. At(p, "prepared") /\ status' = status /\ marker' = marker /\ leaked' = leaked
    BY <1>3 DEF Create, Fresh, rows
  <2> QED BY <1>0, <2>1, <2>2, OpenedHeld
<1>4. CASE CreateUnanswered(p)
  <2>1. PICK d \in Doc \ docs : docs' = docs \cup {d}
    BY <1>4 DEF CreateUnanswered
  <2>2. At(p, "prepared") /\ status' = status /\ marker' = marker
    BY <1>4 DEF CreateUnanswered, Fresh, rows
  <2>3. CASE leaked'
    BY <2>3 DEF DraftLeftoverRecorded
  <2>4. CASE ~leaked'
    <3>1. PICK e \in docs' : Opened(p, e) /\ leaked' = (leaked \/ e \in docs)
      BY <1>4, <2>4 DEF CreateUnanswered
    <3>2. e = d /\ ~leaked
      BY <2>1, <2>4, <3>1
    <3> QED BY <1>0, <2>1, <2>2, <3>1, <3>2, OpenedHeld
  <2> QED BY <2>3, <2>4
<1>5. CASE OpenFails(p)
  <2>1. /\ Become(p, IdleSend)
        /\ docs' = docs /\ status' = status /\ marker' = marker /\ leaked' = leaked
    BY <1>5 DEF OpenFails, rows
  <2>2. snd[p].doc \notin docs'
    BY <1>0, <1>5, <2>1, EmptyHanded DEF OpenFails
  <2> QED BY <1>0, <2>1, <2>2, HeldKept
<1>6. CASE Settle(p)
  BY <1>0, <1>6, HeldKept DEF Settle, Goto, Sending, rows
<1>7. CASE NeverParsed(p)
  <2>1. Become(p, IdleSend) /\ status' = status /\ marker' = marker
    BY <1>7 DEF NeverParsed, rows
  <2>2. CASE leaked'
    BY <2>2 DEF DraftLeftoverRecorded
  <2>3. CASE ~leaked'
    <3>1. docs' = docs \ {snd[p].doc} /\ leaked' = leaked
      BY <1>7, <2>3 DEF NeverParsed
    <3> QED BY <1>0, <2>1, <3>1, HeldKept
  <2> QED BY <2>2, <2>3
<1>8. CASE Pin(p)
  BY <1>8 DEF Pin, DraftLeftoverRecorded
<1>9. CASE PinFails(p)
  BY <1>0, <1>9, HeldKept DEF PinFails, Goto, Sending, rows
<1>10. CASE AbandonCheck(p)
  <2>1. docs' = docs /\ status' = status /\ marker' = marker /\ leaked' = leaked
    BY <1>10 DEF AbandonCheck, rows
  <2>2. CASE PinnedByTheWinner(snd[p].doc)
    BY <2>1, <2>2 DEF PinnedByTheWinner, DraftLeftoverRecorded
  <2>3. CASE ~PinnedByTheWinner(snd[p].doc)
    BY <1>0, <1>10, <2>1, <2>3, HeldKept DEF AbandonCheck, Goto, Sending
  <2> QED BY <2>2, <2>3
<1>11. CASE Cancel(p)
  <2>1. status' = status /\ marker' = marker /\ leaked' = leaked
    BY <1>11 DEF Cancel, rows
  <2>2. CASE docs' = docs \ {snd[p].doc} /\ Become(p, IdleSend)
    BY <1>0, <2>1, <2>2, HeldKept
  <2>3. CASE docs' = docs /\ Goto(p, "marking")
    BY <1>0, <2>1, <2>3, HeldKept DEF Goto, Sending
  <2> QED BY <1>11, <2>2, <2>3 DEF Cancel
<1>12. CASE Mark(p)
  BY <1>12 DEF Mark, DraftLeftoverRecorded
<1>13. CASE CrashSend(p)
  BY <1>13 DEF CrashSend, DraftLeftoverRecorded
<1> QED BY <1>1, <1>2, <1>3, <1>4, <1>5, <1>6, <1>7, <1>8, <1>9, <1>10,
          <1>11, <1>12, <1>13 DEF SendStep

(* While the envelope is a draft, no failure but a crash, or an answer     *)
(* lost with the search after it, leaves a document at the provider that   *)
(* no send holds and the marker does not announce                          *)
(* (envelopes.service.ts:1017-1064).                                       *)
THEOREM LeftoverRecorded == Spec => []DraftLeftoverRecorded
<1>1. Init => DraftLeftoverRecorded
  BY DEF Init, DraftLeftoverRecorded
<1>2. Inv /\ DraftLeftoverRecorded /\ [Next]_vars => DraftLeftoverRecorded'
  <2> SUFFICES ASSUME Inv, DraftLeftoverRecorded, [Next]_vars
               PROVE  DraftLeftoverRecorded'
    OBVIOUS
  <2>1. ASSUME NEW p \in Sender, SendStep(p) \/ CrashSend(p)
        PROVE  DraftLeftoverRecorded'
    BY <2>1, SendKeepsTrack
  <2>2. CASE RowStep
    BY <2>2 DEF RowStep, UpdateLoad, UpdateWrite, RemoveLoad, RemoveWrite, rows,
       DraftLeftoverRecorded
  <2>3. CASE UNCHANGED vars
    BY <2>3 DEF vars, rows, DraftLeftoverRecorded
  <2> QED BY <2>1, <2>2, <2>3 DEF Next
<1> QED BY <1>1, <1>2, InvHolds, PTL DEF Spec
=============================================================================
