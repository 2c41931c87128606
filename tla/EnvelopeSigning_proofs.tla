----------------------- MODULE EnvelopeSigning_proofs -----------------------
(***************************************************************************)
(* The invariants of EnvelopeSigning that hold with every operation        *)
(* admitted, proved for any set of tokens and of concurrent requests.      *)
(*                                                                         *)
(* None of them is inductive alone.  What `sign` writes depends on rows it *)
(* read under the token lock and that others have overwritten since, so    *)
(* the strengthening says what such a reading still guarantees: captured   *)
(* signatures are never taken back, and a signer who declined without      *)
(* having signed leaves the envelope terminal.                             *)
(*                                                                         *)
(* Then those that hold as long as nothing replaces a link and nothing     *)
(* writes `viewed`: there is one usable link, and `sign` holds it.         *)
(***************************************************************************)
EXTENDS EnvelopeSigning, TLAPS

(* A request that presents a link speaks for the signer the link is for. *)
LinkHolder ==
  \A p \in Request : op[p] \in {"sign", "decline", "view"} =>
    /\ tok[p] \in Token
    /\ Minted(tok[p])
    /\ who[p] = owner[tok[p]]

(* A link is replaced for a signer whose predecessors have all signed. *)
Reissuer ==
  \A p \in Request : op[p] \in {"resend", "remind"} =>
    /\ who[p] \in Signer
    /\ \A r \in Signer : r < who[p] => r \in captured

(* A stale status that a resend writes back is one of an open signer. *)
SeenOpen == \A p \in Request : seen[p] \notin {"signed", "declined"}

(* The status `signed` is written with the signature. *)
SignedMeansCaptured == \A s \in Signer : sStatus[s] = "signed" => s \in captured

(* A decline without a signature ends the envelope. *)
DeclineEnds ==
  \A s \in Signer : sStatus[s] = "declined" /\ s \notin captured =>
    status \in TerminalStatus

(* Under the token lock: somebody else is next, or all others have signed. *)
NextStands ==
  \A p \in Request : op[p] = "sign" /\ pc[p] = "locked" =>
    /\ next[p] # who[p]
    /\ next[p] = NoSigner => Signer \ {who[p]} \subseteq captured

IdleIsNone == \A p \in Request : pc[p] = "idle" <=> op[p] = "none"

Inv ==
  /\ TypeOK
  /\ IdleIsNone
  /\ LinkHolder
  /\ Reissuer
  /\ SeenOpen
  /\ SignedMeansCaptured
  /\ DeclineEnds
  /\ NextStands
  /\ SequentialLinks
  /\ CompletedMeansAllSigned
  /\ NeverStuck

LEMMA FirstFact ==
  ASSUME NEW S \in SUBSET Signer
  PROVE  /\ S = {} => First(S) = NoSigner
         /\ S # {} => First(S) \in S
<1>1. S # {} => \E s \in S : \A r \in S : s <= r
  <2> SUFFICES ASSUME S # {} PROVE \E s \in S : \A r \in S : s <= r
    OBVIOUS
  <2>1. CASE 1 \in S
    BY <2>1 DEF Signer
  <2>2. CASE 1 \notin S
    <3>1. \A r \in S : r = 2
      BY <2>2 DEF Signer
    <3> QED
      BY <3>1
  <2> QED
    BY <2>1, <2>2
<1> QED
  BY <1>1 DEF First

LEMMA InvInit == Init => Inv
<1> SUFFICES ASSUME Init PROVE Inv
  OBVIOUS
<1> USE DEF Init, Signer, NoSigner
<1>1. TypeOK
  BY TokenAssumption DEF TypeOK, RowsOK, LocalsOK, EnvelopeStatus, SignerStatus, OpKind
<1>2. NeverStuck
  BY DEF NeverStuck, IsCurrent, Open
<1> QED
  BY <1>1, <1>2 DEF Inv, IdleIsNone, LinkHolder, Reissuer, SeenOpen, SignedMeansCaptured,
    DeclineEnds, NextStands, SequentialLinks, CompletedMeansAllSigned, Minted, TerminalStatus

(* Passing a gate reads rows and writes none. *)
LEMMA ResolveStep == ASSUME Inv, NEW p \in Request, Resolve(p) PROVE Inv'
<1> USE DEF Inv, Signer, NoSigner
<1>0. \E kind \in OpKind, t \in Token \cup {NoToken}, s \in Signer :
        /\ Start(p, kind, t, s)
        /\ kind \in {"sign", "decline", "view"} => t \in Token /\ Minted(t) /\ s = owner[t]
        /\ IsCurrent(s)
        /\ Live
        /\ seen' = seen \/ seen' = [seen EXCEPT ![p] = sStatus[s]]
  <2>1. ASSUME NEW t \in Token, Ready(t) PROVE owner[t] \in Signer /\ Live /\ IsCurrent(owner[t])
    BY <2>1 DEF Ready, Minted, TypeOK, RowsOK, LocalsOK
  <2>2. CASE \E t \in Token : SignResolve(p, t)
    BY <2>1, <2>2 DEF SignResolve, Ready, OpKind
  <2>3. CASE \E t \in Token : DeclineResolve(p, t)
    BY <2>1, <2>3 DEF DeclineResolve, Ready, OpKind
  <2>4. CASE \E t \in Token : ViewResolve(p, t)
    BY <2>1, <2>4 DEF ViewResolve, Ready, OpKind
  <2>5. CASE \E s \in Signer : ResendLoad(p, s)
    BY <2>5 DEF ResendLoad, OpKind
  <2>6. CASE \E s \in Signer : RemindLoad(p, s)
    BY <2>6 DEF RemindLoad, OpKind
  <2> QED
    BY <2>2, <2>3, <2>4, <2>5, <2>6 DEF Resolve
<1>1. PICK kind \in OpKind, t \in Token \cup {NoToken}, s \in Signer :
        /\ Start(p, kind, t, s)
        /\ kind \in {"sign", "decline", "view"} => t \in Token /\ Minted(t) /\ s = owner[t]
        /\ IsCurrent(s)
        /\ Live
        /\ seen' = seen \/ seen' = [seen EXCEPT ![p] = sStatus[s]]
  BY <1>0
<1>2. kind # "none" /\ pc[p] = "idle"
  BY <1>1 DEF OpKind, Start
<1>3. TypeOK'
  BY <1>1 DEF TypeOK, RowsOK, LocalsOK, Start, rows
<1>4. IdleIsNone' /\ LinkHolder' /\ SeenOpen' /\ NextStands'
  BY <1>1, <1>2 DEF TypeOK, RowsOK, LocalsOK, Start, rows, IdleIsNone, LinkHolder, SeenOpen, NextStands,
    IsCurrent, Open, Minted
<1>5. \A r \in Signer : r < s => r \in captured
  <2>1. status \notin TerminalStatus
    BY <1>1 DEF Live, EffectiveStatus
  <2> QED
    BY <1>1, <2>1 DEF IsCurrent, Open, SignedMeansCaptured, DeclineEnds
<1>6. Reissuer'
  BY <1>1, <1>5 DEF TypeOK, RowsOK, LocalsOK, Start, rows, Reissuer
<1>7. UNCHANGED rows
  BY <1>1 DEF Start
<1> QED
  BY <1>3, <1>4, <1>6, <1>7 DEF rows, SignedMeansCaptured, DeclineEnds, SequentialLinks,
    CompletedMeansAllSigned, NeverStuck, IsCurrent, Open, Minted

(* Under the token lock the rows are read again, and what they imply about *)
(* the other signer outlives them.                                         *)
LEMMA AdvanceStep == ASSUME Inv, NEW p \in Request, Advance(p) PROVE Inv'
<1> USE DEF Inv, Goto
<1>1. UNCHANGED <<rows, op, tok, who, seen>>
  BY DEF Advance, SignLock, TakeLock, DeclineLock, DeclineMark, ReissueMark
<1>2. pc[p] # "idle" /\ \E l \in {"locked", "marked"} : pc' = [pc EXCEPT ![p] = l]
  BY DEF Advance, SignLock, TakeLock, DeclineLock, DeclineMark, ReissueMark
<1>3. TypeOK'
  <2>1. OthersToSign(who[p]) \in SUBSET Signer
    BY DEF OthersToSign
  <2>2. First(OthersToSign(who[p])) \in Signer \cup {NoSigner}
    BY <2>1, FirstFact
  <2> QED
    BY <1>1, <1>2, <2>2 DEF TypeOK, RowsOK, LocalsOK, rows, Advance, SignLock, TakeLock, DeclineLock, DeclineMark,
      ReissueMark, Outstanding
<1>4. NextStands'
  <2>1. CASE SignLock(p)
    <3> DEFINE rest == OthersToSign(who[p])
    <3>1. next' = [next EXCEPT ![p] = First(rest)] /\ Live /\ op[p] = "sign"
      BY <2>1 DEF SignLock, TakeLock
    <3>2. rest \in SUBSET Signer /\ who[p] \notin rest
      BY DEF OthersToSign
    <3>3. who[p] \in Signer
      BY <3>1 DEF LinkHolder, TypeOK, RowsOK, LocalsOK, Minted
    <3>4. First(rest) # who[p]
      BY <3>2, <3>3, FirstFact DEF Signer, NoSigner
    <3>5. rest = {} => Signer \ {who[p]} \subseteq captured
      BY <3>1 DEF OthersToSign, Open, SignedMeansCaptured, DeclineEnds, Live, EffectiveStatus
    <3>6. First(rest) = NoSigner => rest = {}
      BY <3>2, FirstFact DEF Signer, NoSigner
    <3> QED
      BY <1>1, <1>2, <3>1, <3>4, <3>5, <3>6 DEF NextStands, TypeOK, RowsOK, LocalsOK, rows
  <2>2. CASE DeclineLock(p) \/ DeclineMark(p) \/ ReissueMark(p)
    BY <1>1, <1>2, <2>2 DEF NextStands, TypeOK, RowsOK, LocalsOK, rows, DeclineLock, DeclineMark, ReissueMark
  <2> QED
    BY <2>1, <2>2 DEF Advance
<1> QED
  BY <1>1, <1>2, <1>3, <1>4 DEF rows, TypeOK, RowsOK, LocalsOK, IdleIsNone, LinkHolder, Reissuer, SeenOpen, SignedMeansCaptured,
    DeclineEnds, SequentialLinks, CompletedMeansAllSigned, NeverStuck, IsCurrent, Open, Minted

LEMMA RecordType ==
  ASSUME TypeOK, NEW keys, Record(keys) PROVE trail' \in [EventKey -> Nat]
  BY DEF TypeOK, RowsOK, Record

LEMMA FinishType ==
  ASSUME TypeOK, NEW p \in Request, Finish(p) PROVE LocalsOK'
  BY DEF TypeOK, LocalsOK, Finish, SignerStatus

(* A finished request leaves nothing behind that the invariant speaks of. *)
LEMMA FinishStep ==
  ASSUME Inv, NEW p \in Request, Finish(p), captured \subseteq captured',
         \A t \in Token : Minted(t) => owner'[t] = owner[t]
  PROVE  IdleIsNone' /\ LinkHolder' /\ Reissuer' /\ SeenOpen' /\ NextStands'
  BY DEF Inv, Finish, TypeOK, RowsOK, LocalsOK, IdleIsNone, LinkHolder, Reissuer, SeenOpen, NextStands, Minted, OpKind

LEMMA AbandonStep == ASSUME Inv, NEW p \in Request, Abandon(p) PROVE Inv'
<1>1. TypeOK'
  BY DEF Inv, TypeOK, RowsOK, LocalsOK, Abandon, Finish, rows, SignerStatus
<1> QED
  BY <1>1, FinishStep DEF Abandon, rows, Inv, SignedMeansCaptured, DeclineEnds, SequentialLinks,
    CompletedMeansAllSigned, NeverStuck, IsCurrent, Open, Minted

(* A signature: its signer is captured whatever else was overwritten. *)
LEMMA CaptureFact ==
  ASSUME Inv, NEW p \in Request, Capture(p)
  PROVE  /\ who[p] \in Signer
         /\ tok[p] \in Token
         /\ captured' = captured \cup {who[p]}
         /\ \A r \in Signer : r < who[p] => r \in captured
         /\ next[p] # who[p]
         /\ next[p] = NoSigner => captured' = Signer
         /\ next[p] \in Signer => \A r \in Signer : r < next[p] => r \in captured'
<1> USE DEF Inv, Capture
<1>1. who[p] \in Signer /\ tok[p] \in Token /\ who[p] = owner[tok[p]] /\ Minted(tok[p])
  BY DEF LinkHolder, TypeOK, RowsOK, Minted
<1>2. \A r \in Signer : r < who[p] => r \in captured
  BY <1>1 DEF SequentialLinks
<1>3. next[p] # who[p] /\ (next[p] = NoSigner => captured' = Signer)
  BY <1>1 DEF NextStands, TypeOK, RowsOK
<1>4. next[p] \in Signer => \A r \in Signer : r < next[p] => r \in captured'
  BY <1>1, <1>2, <1>3 DEF Signer
<1> QED
  BY <1>1, <1>2, <1>3, <1>4

LEMMA HandOverStep ==
  ASSUME Inv, NEW p \in Request, NEW t \in Token, SignHandOver(p, t) PROVE Inv'
<1> USE DEF SignHandOver
<1>1. next[p] \in Signer
  BY DEF Inv, TypeOK, RowsOK, LocalsOK
<1>2. TypeOK'
  <2>1. RowsOK'
    BY <1>1, CaptureFact, RecordType DEF Inv, TypeOK, RowsOK, Capture, Mint, EnvelopeStatus, SignerStatus
  <2> QED
    BY <2>1, FinishType DEF Inv, TypeOK, Capture
<1>3. \A u \in Token : Minted(u) => owner'[u] = owner[u]
  BY DEF Inv, TypeOK, RowsOK, LocalsOK, Mint
<1>4. IdleIsNone' /\ LinkHolder' /\ Reissuer' /\ SeenOpen' /\ NextStands'
  BY <1>3, CaptureFact, FinishStep DEF Capture
<1>5. SignedMeansCaptured' /\ DeclineEnds'
  BY <1>1, CaptureFact DEF Inv, TypeOK, RowsOK, LocalsOK, SignedMeansCaptured, DeclineEnds, Signer
<1>6. SequentialLinks'
  BY <1>1, CaptureFact DEF Inv, TypeOK, RowsOK, LocalsOK, SequentialLinks, Minted, Mint
<1>7. PICK n \in Signer : n = next[p]
  BY <1>1
<1>8. NeverStuck'
  <2>1. sStatus'[n] = "notified"
    BY <1>7, CaptureFact DEF Inv, TypeOK, RowsOK
  <2> QED
    BY <2>1 DEF NeverStuck, IsCurrent, Open, Signer
<1> QED
  BY <1>2, <1>4, <1>5, <1>6, <1>8 DEF Inv, CompletedMeansAllSigned

LEMMA CompleteStep == ASSUME Inv, NEW p \in Request, SignComplete(p) PROVE Inv'
<1> USE DEF SignComplete
<1>1. TypeOK'
  <2>1. RowsOK'
    BY CaptureFact, RecordType DEF Inv, TypeOK, RowsOK, Capture, EnvelopeStatus, TerminalStatus, SignerStatus
  <2> QED
    BY <2>1, FinishType DEF Inv, TypeOK, Capture
<1>2. IdleIsNone' /\ LinkHolder' /\ Reissuer' /\ SeenOpen' /\ NextStands'
  BY CaptureFact, FinishStep DEF Capture
<1>3. SignedMeansCaptured' /\ SequentialLinks' /\ CompletedMeansAllSigned'
  BY CaptureFact DEF Inv, TypeOK, RowsOK, LocalsOK, SignedMeansCaptured, SequentialLinks, CompletedMeansAllSigned, Minted
<1>4. DeclineEnds' /\ NeverStuck'
  BY DEF DeclineEnds, NeverStuck, TerminalStatus
<1> QED
  BY <1>1, <1>2, <1>3, <1>4 DEF Inv

LEMMA DeclineStep == ASSUME Inv, NEW p \in Request, DeclineCommit(p) PROVE Inv'
<1> USE DEF DeclineCommit
<1>1. TypeOK'
  <2>1. RowsOK'
    BY RecordType DEF Inv, TypeOK, RowsOK, LocalsOK, EnvelopeStatus, TerminalStatus, SignerStatus
  <2> QED
    BY <2>1, FinishType DEF Inv, TypeOK
<1>2. IdleIsNone' /\ LinkHolder' /\ Reissuer' /\ SeenOpen' /\ NextStands'
  BY FinishStep
<1>3. SignedMeansCaptured' /\ SequentialLinks'
  BY DEF Inv, TypeOK, RowsOK, LocalsOK, SignedMeansCaptured, SequentialLinks, Minted
<1>4. DeclineEnds' /\ NeverStuck' /\ CompletedMeansAllSigned'
  BY DEF DeclineEnds, NeverStuck, CompletedMeansAllSigned, TerminalStatus
<1> QED
  BY <1>1, <1>2, <1>3, <1>4 DEF Inv

(* Writing an open status over a signer's row can only reopen their turn. *)
LEMMA ReopenStep ==
  ASSUME Inv, NEW s \in Signer, NEW st \in SignerStatus, st \notin {"signed", "declined"},
         sStatus' = [sStatus EXCEPT ![s] = st], UNCHANGED <<status, captured>>
  PROVE  SignedMeansCaptured' /\ DeclineEnds' /\ NeverStuck' /\ CompletedMeansAllSigned'
<1>1. SignedMeansCaptured' /\ DeclineEnds' /\ CompletedMeansAllSigned'
  BY DEF Inv, TypeOK, RowsOK, LocalsOK, SignedMeansCaptured, DeclineEnds, CompletedMeansAllSigned
<1>2. Open(s)'
  BY DEF Inv, TypeOK, RowsOK, LocalsOK, Open
<1>3. NeverStuck'
  BY <1>2 DEF NeverStuck, IsCurrent, Signer
<1> QED
  BY <1>1, <1>3

LEMMA ViewStep == ASSUME Inv, NEW p \in Request, ViewCommit(p) PROVE Inv'
<1> USE DEF ViewCommit
<1>1. who[p] \in Signer
  BY DEF Inv, LinkHolder, TypeOK, RowsOK, LocalsOK, Minted
<1>2. TypeOK'
  <2>1. RowsOK'
    BY RecordType DEF Inv, TypeOK, RowsOK, SignerStatus
  <2> QED
    BY <2>1, FinishType DEF Inv, TypeOK
<1>3. IdleIsNone' /\ LinkHolder' /\ Reissuer' /\ SeenOpen' /\ NextStands'
  BY FinishStep
<1>4. SignedMeansCaptured' /\ DeclineEnds' /\ NeverStuck' /\ CompletedMeansAllSigned'
  BY <1>1, ReopenStep DEF SignerStatus
<1> QED
  BY <1>2, <1>3, <1>4 DEF Inv, SequentialLinks, Minted

LEMMA ReissueStep ==
  ASSUME Inv, NEW p \in Request, NEW t \in Token, ResendCommit(p, t) \/ RemindCommit(p, t)
  PROVE  Inv'
<1> USE DEF ResendCommit, RemindCommit, Reissue
<1>1. who[p] \in Signer /\ \A r \in Signer : r < who[p] => r \in captured
  BY DEF Inv, Reissuer
<1>2. TypeOK'
  <2>1. RowsOK'
    BY <1>1, RecordType DEF Inv, TypeOK, RowsOK, LocalsOK, Mint, SignerStatus
  <2> QED
    BY <2>1, FinishType DEF Inv, TypeOK
<1>3. IdleIsNone' /\ LinkHolder' /\ Reissuer' /\ SeenOpen' /\ NextStands'
  BY FinishStep DEF Inv, TypeOK, RowsOK, LocalsOK, Mint
<1>4. SequentialLinks'
  BY <1>1 DEF Inv, TypeOK, RowsOK, LocalsOK, SequentialLinks, Minted, Mint
<1>5. CASE ResendCommit(p, t)
  <2> DEFINE st == IF seen[p] = "pending" THEN "notified" ELSE seen[p]
  <2>1. st \in SignerStatus /\ st \notin {"signed", "declined"}
    BY DEF Inv, TypeOK, RowsOK, LocalsOK, SeenOpen, SignerStatus
  <2>2. SignedMeansCaptured' /\ DeclineEnds' /\ NeverStuck' /\ CompletedMeansAllSigned'
    BY <1>1, <1>5, <2>1, ReopenStep
  <2> QED
    BY <1>2, <1>3, <1>4, <2>2 DEF Inv
<1>6. CASE RemindCommit(p, t)
  BY <1>2, <1>3, <1>4, <1>6 DEF Inv, SignedMeansCaptured, DeclineEnds, NeverStuck, IsCurrent, Open,
    CompletedMeansAllSigned
<1> QED
  BY <1>5, <1>6

(* Void, expiry, the clock and a request for a new link. *)
LEMMA EnvelopeStep ==
  ASSUME Inv, VoidEnvelope \/ MaterializeExpired \/ Tick \/ \E t \in Token : RequestNewLink(t)
  PROVE  Inv'
<1> USE DEF VoidEnvelope, MaterializeExpired, Tick, RequestNewLink, Close, locals
<1>1. TypeOK'
  <2>1. RowsOK'
    BY RecordType DEF Inv, TypeOK, RowsOK, Outstanding, EnvelopeStatus, TerminalStatus
  <2> QED
    BY <2>1 DEF Inv, TypeOK, LocalsOK
<1>2. UNCHANGED <<sStatus, captured, owner, locals>>
  OBVIOUS
<1>3. status' = status \/ status' \in {"voided", "expired"}
  OBVIOUS
<1>4. status \in TerminalStatus => status' = status
  BY DEF Live, EffectiveStatus
<1> QED
  BY <1>1, <1>2, <1>3, <1>4 DEF Inv, IdleIsNone, LinkHolder, Reissuer, SeenOpen, SignedMeansCaptured,
    DeclineEnds, NextStands, SequentialLinks, CompletedMeansAllSigned, NeverStuck, IsCurrent, Open,
    Minted, TerminalStatus

LEMMA InvStep == Inv /\ [Next]_vars => Inv'
<1> SUFFICES ASSUME Inv, [Next]_vars PROVE Inv'
  OBVIOUS
<1>1. ASSUME NEW p \in Request, Resolve(p) \/ Advance(p) \/ Commit(p) \/ Abandon(p) PROVE Inv'
  BY <1>1, ResolveStep, AdvanceStep, AbandonStep, HandOverStep, CompleteStep, DeclineStep,
    ViewStep, ReissueStep DEF Commit
<1>2. CASE UNCHANGED vars
  BY <1>2 DEF vars, rows, locals, Inv, TypeOK, RowsOK, LocalsOK, IdleIsNone, LinkHolder, Reissuer, SeenOpen,
    SignedMeansCaptured, DeclineEnds, NextStands, SequentialLinks, CompletedMeansAllSigned,
    NeverStuck, IsCurrent, Open, Minted
<1> QED
  BY <1>1, <1>2, EnvelopeStep DEF Next

THEOREM InvHolds == Spec => []Inv
  BY InvInit, InvStep, PTL DEF Spec

(* The rows and the requests keep their types. *)
THEOREM TypeCorrect == Spec => []TypeOK
<1>1. Inv => TypeOK
  BY DEF Inv
<1> QED
  BY <1>1, InvHolds, PTL

(* Whatever requests overlap, an envelope is stored as completed only when *)
(* both signatures are stored: `sign` completes by what it read.           *)
THEOREM CompletedSigned == Spec => []CompletedMeansAllSigned
<1>1. Inv => CompletedMeansAllSigned
  BY DEF Inv
<1> QED
  BY <1>1, InvHolds, PTL

(* No link of a signer exists before their predecessor's signature. *)
THEOREM LinksSequential == Spec => []SequentialLinks
<1>1. Inv => SequentialLinks
  BY DEF Inv
<1> QED
  BY <1>1, InvHolds, PTL

(* An envelope stored as in flight always has a signer whose turn it is. *)
THEOREM SomebodyCanAct == Spec => []NeverStuck
<1>1. Inv => NeverStuck
  BY DEF Inv
<1> QED
  BY <1>1, InvHolds, PTL

----------------------------------------------------------------------------
(* An envelope whose links nobody replaces and whose page nobody opens.    *)

Plain == Ops \cap {"view", "resend", "remind"} = {}

(* A signing request between its token lock and its commit.                *)
Signing(p) == op[p] = "sign" /\ pc[p] = "locked"

OnlyAnswers == \A p \in Request : op[p] \in {"none", "sign", "decline"}

(* Each signer is given one link, ever, and the second signer only when    *)
(* the first has answered.                                                 *)
OneToken == \A t, u \in Token : Minted(t) /\ owner[t] = owner[u] => t = u

SecondInTurn ==
  IF \E t \in Token : owner[t] = 2 THEN ~Open(1) ELSE sStatus[2] = "pending"

(* What the row lock on a token gives.                                     *)
Exclusive ==
  \A p, q \in Request : \A t \in Token :
    HoldsToken(p, t) /\ HoldsToken(q, t) => p = q

(* The link of whoever can act is usable, and no other is.                 *)
CurrentHasLink ==
  \A t \in Token :
    Minted(t) /\ status \notin TerminalStatus /\ IsCurrent(owner[t]) => t \in Outstanding

SpentIsMinted == \A t \in invalid \cup used : Minted(t)

OpenIsUnsigned ==
  \A s \in Signer : Open(s) => trail[<<"signed", s>>] = 0

(* What `sign` checked under the lock still holds when it commits.         *)
StillStands ==
  \A p \in Request : Signing(p) =>
    /\ status \notin TerminalStatus
    /\ IsCurrent(who[p])
    /\ tok[p] \in Outstanding
    /\ next[p] = IF who[p] = 1 THEN 2 ELSE NoSigner

(* A decline that has chosen its victims has chosen every usable link.     *)
Marked(p) == op[p] = "decline" /\ pc[p] = "marked"

AllVictims ==
  \A p \in Request : Marked(p) =>
    /\ \A t \in Token : Minted(t) => t \in invalid \cup victims[p]
    /\ \A t \in victims[p] : Minted(t)

PlainInv ==
  /\ OnlyAnswers
  /\ OneToken
  /\ SecondInTurn
  /\ Exclusive
  /\ CurrentHasLink
  /\ SpentIsMinted
  /\ OpenIsUnsigned
  /\ StillStands
  /\ AllVictims
  /\ SignedOnce
  /\ LinkIsForTurn

(* Request p holds and relies on nothing that it did not before.           *)
Calm(p) ==
  /\ op'[p] \in {"none", "sign", "decline"}
  /\ \A t \in Token : HoldsToken(p, t)' => HoldsToken(p, t)
  /\ Signing(p)' => /\ Signing(p)
                    /\ who'[p] = who[p] /\ tok'[p] = tok[p] /\ next'[p] = next[p]
  /\ Marked(p)' => Marked(p) /\ victims'[p] = victims[p]

LEMMA CalmLocals ==
  ASSUME PlainInv, \A p \in Request : Calm(p)
  PROVE  OnlyAnswers' /\ Exclusive'
BY DEF PlainInv, OnlyAnswers, Exclusive, Calm

LEMMA CalmRows ==
  ASSUME PlainInv, \A p \in Request : Calm(p), UNCHANGED rows
  PROVE  PlainInv'
<1>1. OnlyAnswers' /\ Exclusive'
  BY CalmLocals
<1>2. UNCHANGED <<status, due, sStatus, captured, owner, invalid, used, trail>>
  BY DEF rows
<1>3. OneToken' /\ SecondInTurn' /\ SpentIsMinted' /\ OpenIsUnsigned' /\ SignedOnce'
  BY <1>2 DEF PlainInv, OneToken, SecondInTurn, SpentIsMinted, OpenIsUnsigned,
     SignedOnce, Minted, Open
<1>4. Outstanding' = Outstanding
  BY <1>2 DEF Outstanding, Minted
<1>5. CurrentHasLink' /\ LinkIsForTurn'
  BY <1>2, <1>4 DEF PlainInv, CurrentHasLink, LinkIsForTurn, Minted, IsCurrent, Open
<1>6. StillStands'
  <2> SUFFICES ASSUME NEW p \in Request, Signing(p)'
               PROVE  /\ status' \notin TerminalStatus
                      /\ IsCurrent(who[p])'
                      /\ tok'[p] \in Outstanding'
                      /\ next'[p] = IF who'[p] = 1 THEN 2 ELSE NoSigner
    BY DEF StillStands
  <2>1. Signing(p) /\ who'[p] = who[p] /\ tok'[p] = tok[p] /\ next'[p] = next[p]
    BY DEF Calm
  <2> QED BY <1>2, <1>4, <2>1 DEF PlainInv, StillStands, IsCurrent, Open
<1>7. AllVictims'
  BY <1>2 DEF PlainInv, AllVictims, Calm, Marked, Minted
<1> QED BY <1>1, <1>3, <1>5, <1>6, <1>7 DEF PlainInv

(* A request that ends, and one that passes its gate, are calm.            *)
LEMMA FinishCalm ==
  ASSUME Inv, PlainInv, NEW p \in Request, Finish(p)
  PROVE  \A q \in Request : Calm(q)
BY DEF Inv, TypeOK, LocalsOK, PlainInv, OnlyAnswers, Finish, Calm, HoldsToken,
   Signing, Marked

LEMMA ResolveCalm ==
  ASSUME Inv, PlainInv, Plain, NEW p \in Request, Resolve(p)
  PROVE  UNCHANGED rows /\ \A q \in Request : Calm(q)
<1>1. PICK kind \in {"sign", "decline"}, t \in Token : Start(p, kind, t, owner[t])
  BY DEF Plain, Resolve, SignResolve, DeclineResolve, ViewResolve, ResendLoad,
     RemindLoad, Start
<1> QED BY <1>1 DEF Start, Inv, TypeOK, LocalsOK, PlainInv, OnlyAnswers, Calm,
        HoldsToken, Signing, Marked

(* What is known of a request that answers.                                *)
LEMMA Answerer ==
  ASSUME Inv, NEW p \in Request, op[p] \in {"sign", "decline"}
  PROVE  /\ tok[p] \in Token /\ Minted(tok[p])
         /\ who[p] \in Signer /\ owner[tok[p]] = who[p]
BY DEF Inv, LinkHolder, Minted, TypeOK, RowsOK

(* Under the token lock `sign` finds what StillStands says.                *)
LEMMA SignLockStep ==
  ASSUME Inv, PlainInv, NEW p \in Request, SignLock(p)
  PROVE  PlainInv'
<1>0. /\ op[p] = "sign" /\ pc[p] = "resolved" /\ Live /\ IsCurrent(who[p])
      /\ TokenFree(p, tok[p])
      /\ next' = [next EXCEPT ![p] = First(OthersToSign(who[p]))]
      /\ pc' = [pc EXCEPT ![p] = "locked"]
      /\ UNCHANGED <<op, tok, who, seen, victims>>
      /\ UNCHANGED <<status, due, sStatus, captured, owner, invalid, used, trail>>
  BY DEF SignLock, TakeLock, Goto, rows
<1>1. /\ tok[p] \in Token /\ Minted(tok[p])
      /\ who[p] \in Signer /\ owner[tok[p]] = who[p]
  BY <1>0, Answerer
<1>2. /\ pc'[p] = "locked" /\ next'[p] = First(OthersToSign(who[p]))
      /\ \A q \in Request \ {p} : pc'[q] = pc[q] /\ next'[q] = next[q]
  BY <1>0 DEF Inv, TypeOK, LocalsOK
<1>3. OnlyAnswers' /\ OneToken' /\ SecondInTurn' /\ SpentIsMinted' /\ OpenIsUnsigned'
      /\ SignedOnce'
  BY <1>0 DEF PlainInv, OnlyAnswers, OneToken, SecondInTurn, SpentIsMinted,
     OpenIsUnsigned, SignedOnce, Minted, Open
<1>4. Outstanding' = Outstanding
  BY <1>0 DEF Outstanding, Minted
<1>5. CurrentHasLink' /\ LinkIsForTurn'
  BY <1>0, <1>4 DEF PlainInv, CurrentHasLink, LinkIsForTurn, Minted, IsCurrent, Open
<1>6. Exclusive'
  <2> SUFFICES ASSUME NEW q \in Request, NEW r \in Request, NEW t \in Token,
                      HoldsToken(q, t)', HoldsToken(r, t)'
               PROVE  q = r
    BY DEF Exclusive
  <2>1. \A x \in Request \ {p} : HoldsToken(x, t)' => HoldsToken(x, t)
    BY <1>0, <1>2 DEF HoldsToken
  <2>2. \A x \in Request \ {p} : ~HoldsToken(x, tok[p])
    BY <1>0 DEF TokenFree
  <2>3. HoldsToken(p, t)' => t = tok[p]
    BY <1>0 DEF HoldsToken
  <2> QED BY <2>1, <2>2, <2>3 DEF PlainInv, Exclusive
<1>7. AllVictims'
  BY <1>0, <1>2 DEF PlainInv, AllVictims, Marked, Minted
<1>8. StillStands'
  <2>1. status \notin TerminalStatus
    BY <1>0 DEF Live, EffectiveStatus
  <2>2. tok[p] \in Outstanding
    BY <1>0, <1>1, <2>1 DEF PlainInv, CurrentHasLink
  <2>3. OthersToSign(who[p]) = IF who[p] = 1 THEN {2} ELSE {}
    <3>1. CASE who[p] = 1
      <4>1. \A t \in Token : owner[t] # 2
        BY <1>0, <3>1 DEF PlainInv, SecondInTurn, IsCurrent
      <4>2. Open(2)
        BY <4>1 DEF PlainInv, SecondInTurn, Open
      <4> QED BY <3>1, <4>2 DEF OthersToSign, Signer
    <3>2. CASE who[p] = 2
      <4>1. ~Open(1)
        BY <1>0, <3>2 DEF IsCurrent, Signer
      <4> QED BY <3>2, <4>1 DEF OthersToSign, Signer
    <3> QED BY <1>1, <3>1, <3>2 DEF Signer
  <2>4. next'[p] = IF who[p] = 1 THEN 2 ELSE NoSigner
    <3>1. {2} \in SUBSET Signer /\ {} \in SUBSET Signer
      BY DEF Signer
    <3>2. First({2}) = 2 /\ First({}) = NoSigner
      BY <3>1, FirstFact
    <3> QED BY <1>2, <2>3, <3>2
  <2>5. ASSUME NEW q \in Request \ {p}, Signing(q)'
        PROVE  /\ status' \notin TerminalStatus /\ IsCurrent(who[q])'
               /\ tok'[q] \in Outstanding'
               /\ next'[q] = IF who'[q] = 1 THEN 2 ELSE NoSigner
    BY <1>0, <1>2, <1>4, <2>5 DEF PlainInv, StillStands, Signing, IsCurrent, Open
  <2>6. IsCurrent(who[p])' /\ status' \notin TerminalStatus /\ tok'[p] \in Outstanding'
    BY <1>0, <1>4, <2>1, <2>2 DEF IsCurrent, Open
  <2> QED BY <1>0, <2>4, <2>5, <2>6 DEF StillStands
<1> QED BY <1>3, <1>5, <1>6, <1>7, <1>8 DEF PlainInv

LEMMA DeclineLockStep ==
  ASSUME Inv, PlainInv, NEW p \in Request, DeclineLock(p) \/ DeclineMark(p)
  PROVE  PlainInv'
<1>0. /\ op[p] = "decline" /\ pc[p] \in {"resolved", "locked"}
      /\ UNCHANGED <<op, tok, who, next>>
      /\ UNCHANGED <<status, due, sStatus, captured, owner, invalid, used, trail>>
  BY DEF DeclineLock, DeclineMark, rows
<1>1. /\ \/ pc[p] = "resolved" /\ pc'[p] = "locked" /\ TokenFree(p, tok[p])
         \/ /\ pc[p] = "locked" /\ pc'[p] = "marked"
            /\ victims'[p] = {t \in Token : Minted(t)} \ invalid
      /\ \A q \in Request \ {p} : pc'[q] = pc[q] /\ victims'[q] = victims[q]
  BY DEF DeclineLock, DeclineMark, Goto, Inv, TypeOK, LocalsOK
<1>2. OnlyAnswers' /\ OneToken' /\ SecondInTurn' /\ SpentIsMinted' /\ OpenIsUnsigned'
      /\ SignedOnce'
  BY <1>0 DEF PlainInv, OnlyAnswers, OneToken, SecondInTurn, SpentIsMinted,
     OpenIsUnsigned, SignedOnce, Minted, Open
<1>3. Outstanding' = Outstanding
  BY <1>0 DEF Outstanding, Minted
<1>4. CurrentHasLink' /\ LinkIsForTurn'
  BY <1>0, <1>3 DEF PlainInv, CurrentHasLink, LinkIsForTurn, Minted, IsCurrent, Open
<1>5. Exclusive'
  <2> SUFFICES ASSUME NEW q \in Request, NEW r \in Request, NEW t \in Token,
                      HoldsToken(q, t)', HoldsToken(r, t)'
               PROVE  q = r
    BY DEF Exclusive
  <2>1. \A x \in Request \ {p} : HoldsToken(x, t)' => HoldsToken(x, t)
    BY <1>0, <1>1 DEF HoldsToken
  <2>2. \/ \A x \in Request \ {p} : ~HoldsToken(x, tok[p])
        \/ HoldsToken(p, t)' => HoldsToken(p, t)
    BY <1>0, <1>1 DEF TokenFree, HoldsToken
  <2>3. HoldsToken(p, t)' => t = tok[p]
    BY <1>0 DEF HoldsToken
  <2> QED BY <2>1, <2>2, <2>3 DEF PlainInv, Exclusive
<1>6. StillStands'
  <2>1. \A q \in Request : Signing(q)' => Signing(q)
    BY <1>0, <1>1 DEF Signing
  <2> QED BY <1>0, <1>3, <2>1 DEF PlainInv, StillStands, IsCurrent, Open
<1>7. AllVictims'
  BY <1>0, <1>1 DEF PlainInv, AllVictims, Marked, Minted
<1> QED BY <1>2, <1>4, <1>5, <1>6, <1>7 DEF PlainInv

(* Whatever ends the envelope with nobody signing leaves no usable link.   *)
LEMMA EndStep ==
  ASSUME Inv, PlainInv, \A p \in Request : Calm(p),
         \A p \in Request : ~Signing(p)',
         status' \in TerminalStatus,
         UNCHANGED <<owner, used>>,
         invalid \subseteq invalid',
         invalid' \subseteq {t \in Token : Minted(t)},
         Outstanding \subseteq invalid',
         \A s \in Signer : trail'[<<"signed", s>>] = trail[<<"signed", s>>],
         \A s \in Signer :
           \/ sStatus'[s] = sStatus[s]
           \/ sStatus'[s] = "declined" /\ (\E t \in Token : owner[t] = s)
  PROVE  PlainInv'
<1>1. OnlyAnswers' /\ Exclusive'
  BY CalmLocals
<1>2. OneToken' /\ SpentIsMinted' /\ SignedOnce'
  BY DEF PlainInv, OneToken, SpentIsMinted, SignedOnce, Minted
<1>3. \A s \in Signer : Open(s)' => Open(s)
  BY DEF Open
<1>4. OpenIsUnsigned'
  BY <1>3 DEF PlainInv, OpenIsUnsigned
<1>5. SecondInTurn'
  <2>1. CASE \E t \in Token : owner[t] = 2
    BY <1>3, <2>1 DEF PlainInv, SecondInTurn, Signer
  <2>2. CASE ~\E t \in Token : owner[t] = 2
    BY <2>2 DEF PlainInv, SecondInTurn, Signer
  <2> QED BY <2>1, <2>2
<1>6. Outstanding' = {}
  BY DEF Outstanding, Minted
<1>7. CurrentHasLink' /\ LinkIsForTurn' /\ StillStands'
  BY <1>6 DEF CurrentHasLink, LinkIsForTurn, StillStands
<1>8. AllVictims'
  BY DEF PlainInv, AllVictims, Calm, Marked, Minted
<1> QED BY <1>1, <1>2, <1>4, <1>5, <1>7, <1>8 DEF PlainInv

(* A decline waits for every link it has chosen, so nobody is signing.     *)
LEMMA DeclineCommitStep ==
  ASSUME Inv, PlainInv, NEW p \in Request, DeclineCommit(p)
  PROVE  PlainInv'
<1>0. /\ pc[p] = "marked" /\ op[p] = "decline" /\ Finish(p)
      /\ \A t \in victims[p] : TokenFree(p, t)
      /\ sStatus' = [sStatus EXCEPT ![who[p]] = "declined"]
      /\ invalid' = invalid \cup victims[p]
      /\ status' = "declined"
      /\ Record({<<"declined", who[p]>>})
      /\ UNCHANGED <<owner, used>>
  BY DEF DeclineCommit
<1>1. /\ tok[p] \in Token /\ who[p] \in Signer /\ owner[tok[p]] = who[p]
  BY <1>0, Answerer
<1>2. \A q \in Request : Calm(q)
  BY <1>0, FinishCalm
<1>3. ASSUME NEW q \in Request, Signing(q)' PROVE FALSE
  <2>1. Signing(q) /\ op[q] = "sign"
    BY <1>2, <1>3 DEF Calm, Signing
  <2>2. tok[q] \in Outstanding
    BY <2>1 DEF PlainInv, StillStands
  <2>3. tok[q] \in victims[p]
    BY <1>0, <2>2 DEF PlainInv, AllVictims, Marked, Outstanding
  <2>4. HoldsToken(q, tok[q]) /\ q # p
    BY <1>0, <2>1 DEF HoldsToken, Signing
  <2> QED BY <1>0, <2>3, <2>4 DEF TokenFree
<1>4. Outstanding \subseteq invalid'
  BY <1>0 DEF PlainInv, AllVictims, Marked, Outstanding
<1>5. victims[p] \subseteq {t \in Token : Minted(t)}
  BY <1>0 DEF PlainInv, AllVictims, Marked, Inv, TypeOK, LocalsOK
<1>6. \A s \in Signer : trail'[<<"signed", s>>] = trail[<<"signed", s>>]
  BY <1>0 DEF Record, EventKey, SignerEvents
<1>7. \A s \in Signer :
        \/ sStatus'[s] = sStatus[s]
        \/ sStatus'[s] = "declined" /\ (\E t \in Token : owner[t] = s)
  BY <1>0, <1>1 DEF Inv, TypeOK, RowsOK
<1>8. invalid' \subseteq {t \in Token : Minted(t)}
  BY <1>0, <1>5 DEF PlainInv, SpentIsMinted, Inv, TypeOK, RowsOK
<1> QED BY <1>0, <1>2, <1>3, <1>4, <1>6, <1>7, <1>8, EndStep DEF TerminalStatus

(* A void or an expiry waits for the usable links: nobody is signing.      *)
LEMMA CloseStep ==
  ASSUME Inv, PlainInv, NEW final \in {"voided", "expired"}, Close(final)
  PROVE  PlainInv'
<1>0. /\ \A t \in Outstanding, q \in Request : ~HoldsToken(q, t)
      /\ status' = final
      /\ invalid' = invalid \cup Outstanding
      /\ Record({<<final, NoSigner>>})
      /\ UNCHANGED <<sStatus, owner, used>>
      /\ UNCHANGED <<pc, op, tok, who, seen, next, victims>>
  BY DEF Close, locals
<1>1. \A q \in Request : Calm(q)
  BY <1>0 DEF PlainInv, OnlyAnswers, Calm, HoldsToken, Signing, Marked
<1>2. ASSUME NEW q \in Request, Signing(q)' PROVE FALSE
  <2>1. Signing(q)
    BY <1>1, <1>2 DEF Calm
  <2>2. tok[q] \in Outstanding /\ HoldsToken(q, tok[q])
    BY <2>1 DEF PlainInv, StillStands, Signing, HoldsToken
  <2> QED BY <1>0, <2>2
<1>3. \A s \in Signer : trail'[<<"signed", s>>] = trail[<<"signed", s>>]
  BY <1>0 DEF Record, EventKey, SignerEvents
<1>4. invalid' \subseteq {t \in Token : Minted(t)}
  BY <1>0 DEF PlainInv, SpentIsMinted, Outstanding, Inv, TypeOK, RowsOK
<1> QED BY <1>0, <1>1, <1>2, <1>3, <1>4, EndStep DEF TerminalStatus

(* A signing request that commits is the only one, and holds the only      *)
(* usable link.                                                            *)
LEMMA CaptureAlone ==
  ASSUME Inv, PlainInv, NEW p \in Request, Capture(p)
  PROVE  /\ who[p] \in Signer /\ tok[p] \in Token /\ owner[tok[p]] = who[p]
         /\ status \notin TerminalStatus /\ IsCurrent(who[p])
         /\ next[p] = IF who[p] = 1 THEN 2 ELSE NoSigner
         /\ Outstanding = {tok[p]}
         /\ used' = used \cup {tok[p]}
         /\ \A q \in Request : Calm(q) /\ ~Signing(q)'
<1>0. Finish(p) /\ op[p] = "sign" /\ pc[p] = "locked" /\ used' = used \cup {tok[p]}
  BY DEF Capture
<1>1. /\ tok[p] \in Token /\ who[p] \in Signer /\ owner[tok[p]] = who[p]
  BY <1>0, Answerer
<1>2. /\ status \notin TerminalStatus /\ IsCurrent(who[p]) /\ tok[p] \in Outstanding
      /\ next[p] = IF who[p] = 1 THEN 2 ELSE NoSigner
  BY <1>0 DEF PlainInv, StillStands, Signing
<1>3. \A s, r \in Signer : IsCurrent(s) /\ IsCurrent(r) => s = r
  BY DEF IsCurrent, Signer
<1>4. ASSUME NEW t \in Token, Minted(t), IsCurrent(owner[t]) PROVE t = tok[p]
  <2>1. owner[t] \in Signer
    BY <1>4 DEF Minted, Inv, TypeOK, RowsOK
  <2>2. owner[t] = owner[tok[p]]
    BY <1>1, <1>2, <1>3, <1>4, <2>1
  <2> QED BY <1>1, <1>4, <2>2 DEF PlainInv, OneToken
<1>5. Outstanding = {tok[p]}
  BY <1>2, <1>4 DEF PlainInv, LinkIsForTurn, Outstanding
<1>6. \A q \in Request : Calm(q)
  BY <1>0, FinishCalm
<1>7. ASSUME NEW q \in Request, Signing(q)' PROVE FALSE
  <2>1. Signing(q)
    BY <1>6, <1>7 DEF Calm
  <2>2. tok[q] = tok[p]
    BY <1>5, <2>1 DEF PlainInv, StillStands
  <2>3. HoldsToken(q, tok[p]) /\ HoldsToken(p, tok[p])
    BY <1>0, <2>1, <2>2 DEF Signing, HoldsToken
  <2>4. q = p
    BY <1>1, <2>3 DEF PlainInv, Exclusive
  <2> QED BY <1>0, <1>7, <2>4 DEF Finish, Signing, Inv, TypeOK, LocalsOK
<1> QED BY <1>0, <1>1, <1>2, <1>5, <1>6, <1>7

(* The counts of signatures, when signer s has signed.                     *)
LEMMA Counted ==
  ASSUME Inv, PlainInv, NEW s \in Signer, Open(s), NEW keys,
         Record(keys), <<"signed", s>> \in keys,
         \A r \in Signer \ {s} : <<"signed", r>> \notin keys
  PROVE  /\ SignedOnce'
         /\ \A r \in Signer \ {s} : trail'[<<"signed", r>>] = trail[<<"signed", r>>]
<1>1. \A r \in Signer : <<"signed", r>> \in EventKey
  BY DEF EventKey, SignerEvents
<1>2. trail'[<<"signed", s>>] = trail[<<"signed", s>>] + 1
  BY <1>1 DEF Record
<1>3. \A r \in Signer \ {s} : trail'[<<"signed", r>>] = trail[<<"signed", r>>]
  BY <1>1 DEF Record
<1>4. trail[<<"signed", s>>] = 0
  BY DEF PlainInv, OpenIsUnsigned
<1> QED BY <1>2, <1>3, <1>4 DEF PlainInv, SignedOnce

(* The first signer signs and the second gets their link.                  *)
LEMMA PlainHandOver ==
  ASSUME Inv, PlainInv, NEW p \in Request, NEW t \in Token, SignHandOver(p, t)
  PROVE  PlainInv'
<1>0. /\ next[p] # NoSigner /\ Capture(p)
      /\ ~Minted(t) /\ owner' = [owner EXCEPT ![t] = next[p]]
      /\ sStatus' = [sStatus EXCEPT ![who[p]] = "signed", ![next[p]] = "notified"]
      /\ status' = "partially_signed"
      /\ Record({<<"signed", who[p]>>})
      /\ invalid' = invalid
  BY DEF SignHandOver, Mint
<1>1. /\ who[p] = 1 /\ next[p] = 2
      /\ tok[p] \in Token /\ owner[tok[p]] = 1
      /\ IsCurrent(1) /\ Outstanding = {tok[p]}
      /\ used' = used \cup {tok[p]}
      /\ \A q \in Request : Calm(q) /\ ~Signing(q)'
  BY <1>0, CaptureAlone
<1>2. Open(1) /\ 1 \in Signer /\ 2 \in Signer /\ Signer \ {1} = {2}
  BY <1>1 DEF IsCurrent, Signer
<1>3. (\A u \in Token : owner[u] # 2) /\ sStatus[2] = "pending"
  BY <1>2 DEF PlainInv, SecondInTurn
<1>4. sStatus'[1] = "signed" /\ sStatus'[2] = "notified"
  BY <1>0, <1>1, <1>2 DEF Inv, TypeOK, RowsOK
<1>5. owner'[t] = 2 /\ \A u \in Token \ {t} : owner'[u] = owner[u]
  BY <1>0, <1>1 DEF Inv, TypeOK, RowsOK
<1>6. OnlyAnswers' /\ Exclusive'
  BY <1>1, CalmLocals
<1>7. OneToken'
  BY <1>3, <1>5 DEF PlainInv, OneToken, Minted
<1>8. SecondInTurn'
  BY <1>4, <1>5 DEF SecondInTurn, Open
<1>9. SpentIsMinted'
  <2>1. Minted(tok[p]) /\ Minted(t)'
    BY <1>1, <1>5 DEF Minted, NoSigner
  <2> QED BY <1>0, <1>1, <1>5, <2>1 DEF PlainInv, SpentIsMinted, Minted
<1>10. SignedOnce' /\ OpenIsUnsigned'
  <2>1. SignedOnce' /\ trail'[<<"signed", 2>>] = trail[<<"signed", 2>>]
    BY <1>0, <1>1, <1>2, Counted
  <2>2. trail[<<"signed", 2>>] = 0
    BY <1>2, <1>3 DEF PlainInv, OpenIsUnsigned, Open
  <2>3. ~Open(1)'
    BY <1>4 DEF Open
  <2> QED BY <2>1, <2>2, <2>3 DEF OpenIsUnsigned, Signer
<1>11. Outstanding' = {t}
  <2>1. t \notin invalid \cup used /\ t # tok[p]
    BY <1>0, <1>1 DEF PlainInv, SpentIsMinted, Minted, NoSigner
  <2>2. Minted(t)' /\ \A u \in Token \ {t} : Minted(u)' <=> Minted(u)
    BY <1>5 DEF Minted, NoSigner
  <2> QED BY <1>0, <1>1, <2>1, <2>2 DEF Outstanding
<1>12. IsCurrent(owner[t])' /\ \A u \in Token \ {t} : Minted(u)' => ~IsCurrent(owner[u])'
  <2>1. \A u \in Token \ {t} : Minted(u)' => owner'[u] = 1
    BY <1>3, <1>5 DEF Minted, Inv, TypeOK, RowsOK, Signer
  <2> QED BY <1>4, <1>5, <2>1 DEF IsCurrent, Open, Signer
<1>13. CurrentHasLink' /\ LinkIsForTurn'
  BY <1>0, <1>11, <1>12 DEF CurrentHasLink, LinkIsForTurn, TerminalStatus
<1>14. StillStands'
  BY <1>1 DEF StillStands
<1>15. AllVictims'
  <2> SUFFICES ASSUME NEW q \in Request, Marked(q)' PROVE FALSE
    BY DEF AllVictims
  <2>1. Marked(q)
    BY <1>1 DEF Calm
  <2>2. /\ tok[q] \in Token /\ Minted(tok[q]) /\ owner[tok[q]] \in Signer
    BY <2>1, Answerer DEF Marked
  <2>3. tok[q] = tok[p]
    BY <1>1, <1>3, <2>2 DEF PlainInv, OneToken, Signer
  <2>4. HoldsToken(q, tok[p]) /\ HoldsToken(p, tok[p])
    BY <1>0, <2>1, <2>3 DEF Capture, Marked, HoldsToken
  <2>5. q = p
    BY <1>1, <2>4 DEF PlainInv, Exclusive
  <2> QED BY <1>0, <2>1, <2>5 DEF Capture, Marked
<1> QED BY <1>6, <1>7, <1>8, <1>9, <1>10, <1>13, <1>14, <1>15 DEF PlainInv

(* The second signer signs and the envelope completes.                     *)
LEMMA PlainComplete ==
  ASSUME Inv, PlainInv, NEW p \in Request, SignComplete(p)
  PROVE  PlainInv'
<1>0. /\ next[p] = NoSigner /\ Capture(p)
      /\ sStatus' = [sStatus EXCEPT ![who[p]] = "signed"]
      /\ status' = "completed"
      /\ Record({<<"signed", who[p]>>, <<"completed", NoSigner>>})
      /\ owner' = owner /\ invalid' = invalid
  BY DEF SignComplete
<1>1. /\ who[p] \in Signer /\ tok[p] \in Token /\ owner[tok[p]] = who[p]
      /\ next[p] = (IF who[p] = 1 THEN 2 ELSE NoSigner)
      /\ IsCurrent(who[p]) /\ Outstanding = {tok[p]}
      /\ used' = used \cup {tok[p]}
      /\ \A q \in Request : Calm(q) /\ ~Signing(q)'
  BY <1>0, CaptureAlone
<1>2. who[p] = 2 /\ Open(2) /\ Signer \ {2} = {1} /\ 2 \in Signer /\ 1 \in Signer
  BY <1>0, <1>1 DEF IsCurrent, Signer, NoSigner
<1>3. sStatus'[1] = sStatus[1] /\ sStatus'[2] = "signed"
  BY <1>0, <1>2 DEF Inv, TypeOK, RowsOK
<1>4. OnlyAnswers' /\ Exclusive'
  BY <1>1, CalmLocals
<1>5. OneToken' /\ SpentIsMinted' /\ AllVictims'
  <2>1. Minted(tok[p])
    BY <1>1, <1>2 DEF Minted, NoSigner
  <2> QED BY <1>0, <1>1, <2>1 DEF PlainInv, OneToken, SpentIsMinted, AllVictims, Minted,
          Calm
<1>6. SecondInTurn'
  BY <1>0, <1>1, <1>2, <1>3 DEF PlainInv, SecondInTurn, Open
<1>7. SignedOnce' /\ OpenIsUnsigned'
  <2> DEFINE keys == {<<"signed", 2>>, <<"completed", NoSigner>>}
  <2>a. <<"signed", 2>> \in keys /\ \A r \in Signer \ {2} : <<"signed", r>> \notin keys
    OBVIOUS
  <2>b. Record(keys)
    BY <1>0, <1>2
  <2> HIDE DEF keys
  <2>1. SignedOnce' /\ trail'[<<"signed", 1>>] = trail[<<"signed", 1>>]
    BY <1>2, <2>a, <2>b, Counted
  <2>2. ~Open(2)' /\ (Open(1)' => Open(1))
    BY <1>3 DEF Open
  <2> QED BY <2>1, <2>2 DEF PlainInv, OpenIsUnsigned, Signer
<1>8. Outstanding' = {}
  BY <1>0, <1>1 DEF Outstanding, Minted
<1>9. CurrentHasLink' /\ LinkIsForTurn' /\ StillStands'
  BY <1>0, <1>1, <1>8 DEF CurrentHasLink, LinkIsForTurn, StillStands, TerminalStatus
<1> QED BY <1>4, <1>5, <1>6, <1>7, <1>9 DEF PlainInv

(* The clock, and a request for a new link, touch nothing of this.         *)
LEMMA QuietStep ==
  ASSUME PlainInv,
         UNCHANGED <<status, sStatus, captured, owner, invalid, used, locals>>,
         \A s \in Signer : trail'[<<"signed", s>>] = trail[<<"signed", s>>]
  PROVE  PlainInv'
<1>1. UNCHANGED <<pc, op, tok, who, seen, next, victims>>
  BY DEF locals
<1>2. OnlyAnswers' /\ OneToken' /\ SecondInTurn' /\ Exclusive' /\ SpentIsMinted'
  BY <1>1 DEF PlainInv, OnlyAnswers, OneToken, SecondInTurn, Exclusive, SpentIsMinted,
     Minted, Open, HoldsToken
<1>3. SignedOnce' /\ OpenIsUnsigned' /\ AllVictims'
  BY <1>1 DEF PlainInv, SignedOnce, OpenIsUnsigned, AllVictims, Marked, Minted, Open
<1>4. Outstanding' = Outstanding
  BY DEF Outstanding, Minted
<1>5. CurrentHasLink' /\ LinkIsForTurn' /\ StillStands'
  BY <1>1, <1>4 DEF PlainInv, CurrentHasLink, LinkIsForTurn, StillStands, Signing,
     Minted, IsCurrent, Open
<1> QED BY <1>2, <1>3, <1>5 DEF PlainInv

LEMMA PlainInit == Init => PlainInv
<1> SUFFICES ASSUME Init PROVE PlainInv
  OBVIOUS
<1>1. OnlyAnswers /\ Exclusive /\ StillStands /\ AllVictims
  BY DEF Init, OnlyAnswers, Exclusive, HoldsToken, StillStands, Signing, AllVictims,
     Marked
<1>2. PICK t \in Token : owner = [u \in Token |-> IF u = t THEN 1 ELSE NoSigner]
  BY DEF Init
<1>3. OneToken /\ SecondInTurn /\ SpentIsMinted
  BY <1>2 DEF Init, OneToken, SecondInTurn, SpentIsMinted, Minted, NoSigner, Signer
<1>4. \A s \in Signer : trail[<<"signed", s>>] = 0
  BY DEF Init, EventKey, SignerEvents
<1>5. OpenIsUnsigned /\ SignedOnce
  BY <1>4 DEF OpenIsUnsigned, SignedOnce
<1>6. Outstanding = {t} /\ IsCurrent(owner[t])
  <2>1. owner[t] = 1 /\ \A u \in Token \ {t} : owner[u] = NoSigner
    BY <1>2
  <2>2. invalid = {} /\ used = {}
    BY DEF Init
  <2>3. Outstanding = {t}
    BY <2>1, <2>2 DEF Outstanding, Minted, NoSigner
  <2>4. IsCurrent(1)
    BY DEF Init, IsCurrent, Open, Signer
  <2> QED BY <2>1, <2>3, <2>4
<1>7. \A u \in Token : Minted(u) => u = t
  BY <1>2 DEF Minted
<1>8. CurrentHasLink /\ LinkIsForTurn
  BY <1>6, <1>7 DEF Init, CurrentHasLink, LinkIsForTurn, TerminalStatus
<1> QED BY <1>1, <1>3, <1>5, <1>8 DEF PlainInv

LEMMA PlainStep == Plain /\ Inv /\ PlainInv /\ [Next]_vars => PlainInv'
<1> SUFFICES ASSUME Plain, Inv, PlainInv, [Next]_vars PROVE PlainInv'
  OBVIOUS
<1>1. ASSUME NEW p \in Request, Resolve(p) PROVE PlainInv'
  BY <1>1, ResolveCalm, CalmRows
<1>2. ASSUME NEW p \in Request, Advance(p) PROVE PlainInv'
  <2>1. ~ReissueMark(p)
    BY DEF ReissueMark, PlainInv, OnlyAnswers
  <2> QED BY <1>2, <2>1, SignLockStep, DeclineLockStep DEF Advance
<1>3. ASSUME NEW p \in Request, Commit(p) PROVE PlainInv'
  <2>1. ~ViewCommit(p) /\ \A t \in Token : ~ResendCommit(p, t) /\ ~RemindCommit(p, t)
    BY DEF ViewCommit, ResendCommit, RemindCommit, PlainInv, OnlyAnswers
  <2> QED BY <1>3, <2>1, PlainComplete, DeclineCommitStep, PlainHandOver DEF Commit
<1>4. ASSUME NEW p \in Request, Abandon(p) PROVE PlainInv'
  BY <1>4, FinishCalm, CalmRows DEF Abandon
<1>5. CASE VoidEnvelope \/ MaterializeExpired
  BY <1>5, CloseStep DEF VoidEnvelope, MaterializeExpired
<1>6. ASSUME NEW t \in Token, RequestNewLink(t) PROVE PlainInv'
  <2>1. \A s \in Signer : trail'[<<"signed", s>>] = trail[<<"signed", s>>]
    BY <1>6 DEF RequestNewLink, Record, EventKey, SignerEvents
  <2> QED BY <1>6, <2>1, QuietStep DEF RequestNewLink
<1>7. CASE Tick
  BY <1>7, QuietStep DEF Tick
<1>8. CASE UNCHANGED vars
  BY <1>8, QuietStep DEF vars, rows
<1> QED BY <1>1, <1>2, <1>3, <1>4, <1>5, <1>6, <1>7, <1>8 DEF Next

THEOREM PlainHolds == ASSUME Plain PROVE Spec => []PlainInv
<1>1. Init => PlainInv
  BY PlainInit
<1>2. Inv /\ PlainInv /\ [Next]_vars => PlainInv'
  BY PlainStep
<1> QED BY <1>1, <1>2, InvHolds, PTL DEF Spec

(* However often one link is submitted at once, one signature of a signer  *)
(* is recorded, if nobody replaces links or opens the page                 *)
(* (signing.service.ts:362-434).                                           *)
THEOREM OneSignatureEach == ASSUME Plain PROVE Spec => []SignedOnce
<1>1. PlainInv => SignedOnce
  BY DEF PlainInv
<1> QED BY <1>1, PlainHolds, PTL

(* A signer never holds two usable links, unless somebody replaces one.    *)
THEOREM OneLinkEach == ASSUME Plain PROVE Spec => []OneLink
<1>1. PlainInv => OneLink
  BY DEF PlainInv, OneToken, OneLink, Outstanding
<1> QED BY <1>1, PlainHolds, PTL

(* Unless somebody replaces one, a usable link is of the signer whose turn *)
(* it is, in an envelope in flight: ending it leaves none.                 *)
THEOREM LinksForTurn == ASSUME Plain PROVE Spec => []LinkIsForTurn
<1>1. PlainInv => LinkIsForTurn
  BY DEF PlainInv
<1> QED BY <1>1, PlainHolds, PTL

(* What has ended stays as it ended, unless a link is replaced or a        *)
(* decline is under way: a signature holds a usable link until it commits, *)
(* and whatever ends the envelope waits for those.                         *)
THEOREM EndIsFinal == ASSUME Plain PROVE Spec => TerminalIsFinal
<1>1. PlainInv /\ [Next]_vars =>
        [(status \in TerminalStatus /\ ~Declining) => (status' = status)]_vars
  <2> SUFFICES ASSUME PlainInv, Next, status \in TerminalStatus, ~Declining
               PROVE  status' = status
    BY DEF vars, rows
  <2>1. ASSUME NEW p \in Request PROVE ~Signing(p) /\ ~DeclineCommit(p)
    BY DEF PlainInv, StillStands, Declining, DeclineCommit
  <2>2. ASSUME NEW p \in Request, Resolve(p) \/ Advance(p) \/ Abandon(p)
        PROVE  status' = status
    BY <2>2 DEF Resolve, SignResolve, DeclineResolve, ViewResolve, ResendLoad,
       RemindLoad, Start, Advance, SignLock, TakeLock, DeclineLock, DeclineMark,
       ReissueMark, Abandon, rows
  <2>3. ASSUME NEW p \in Request, Commit(p) PROVE status' = status
    BY <2>1, <2>3 DEF Commit, SignComplete, SignHandOver, Capture, Signing, ViewCommit,
       ResendCommit, RemindCommit, Reissue
  <2>4. CASE VoidEnvelope \/ MaterializeExpired \/ Tick
    BY <2>4 DEF VoidEnvelope, MaterializeExpired, Tick, Live, EffectiveStatus
  <2>5. ASSUME NEW t \in Token, RequestNewLink(t) PROVE status' = status
    BY <2>5 DEF RequestNewLink
  <2> QED BY <2>2, <2>3, <2>4, <2>5 DEF Next
<1> QED BY <1>1, PlainHolds, PTL DEF Spec, TerminalIsFinal
=============================================================================
