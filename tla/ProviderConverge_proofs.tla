----------------------- MODULE ProviderConverge_proofs -----------------------
(***************************************************************************)
(* However convergences, completions, page views, voids and expiries       *)
(* interleave and die, and however stale what a convergence applies is:    *)
(* our rows never claim what the provider does not hold, no signature is   *)
(* without its event, and the signed PDF is written once.                  *)
(*                                                                         *)
(* Stale knowledge does no harm because the provider never takes back a    *)
(* signature, a refusal or a completion: what a convergence has fetched of *)
(* these still holds when it is applied (Stands), and a download was one   *)
(* of a completed document (Downloaded).                                   *)
(***************************************************************************)
EXTENDS ProviderConverge, TLAPS

Conv == [pc : {"idle", "loaded", "fetched", "begun"}, status : EnvelopeStatus,
         sig : [Signer -> SignerStatus], got : [Signer -> SignerStatus],
         doc : DocStatus, seen : SUBSET Signer, links : SUBSET Signer]

Comp == [pc : {"idle", "loaded", "downloaded", "put"}, bytes : Bytes \cup {NoBytes}]

Remote == [exists : BOOLEAN, doc : DocStatus, matched : SUBSET Signer,
           sig : [Signer -> SignerStatus]]

(* What the provider has once said of a signature or of the document.      *)
Stands ==
  /\ remote.doc = "completed" => \A s \in Signer : remote.sig[s] = "signed"
  /\ \A w \in Worker : conv[w].pc \in {"fetched", "begun"} =>
       /\ conv[w].doc # "open" => remote.doc = conv[w].doc
       /\ \A s \in Signer :
            conv[w].got[s] \in Finished => remote.sig[s] = conv[w].got[s]

(* A completion holds bytes of a completed document, and has stored them   *)
(* when it claims the row.                                                 *)
Downloaded ==
  \A c \in Completer :
    /\ comp[c].pc \in {"downloaded", "put"} =>
         remote.doc = "completed" /\ comp[c].bytes \in Bytes
    /\ comp[c].pc = "put" => comp[c].bytes \in stored

Inv == TypeOK /\ Stands /\ Downloaded /\ NothingInvented /\ SignatureHasEvent

----------------------------------------------------------------------------
(* Every variable has its type. *)

LEMMA StatusKinds ==
  /\ Finished \subseteq SignerStatus
  /\ {"pending", "notified", "viewed", "signed", "declined"} \subseteq SignerStatus
  /\ {"sent", "partially_signed", "completed", "declined", "voided", "expired"}
       \subseteq EnvelopeStatus
BY DEF Finished, SignerStatus, EnvelopeStatus, TerminalStatus

LEMMA IdleTypes == IdleConv \in Conv /\ IdleComp \in Comp
BY StatusKinds DEF IdleConv, IdleComp, Conv, Comp, DocStatus

LEMMA IncType == \A n \in 0 .. MaxJobs : Inc(n) \in 0 .. MaxJobs
BY JobsAssumption DEF Inc

LEMMA InitType == Init => TypeOK
<1> SUFFICES ASSUME Init PROVE TypeOK
  OBVIOUS
<1>1. sig \in [Signer -> SignerStatus]
  BY StatusKinds DEF Init
<1>2. remote \in Remote
  <2>1. \A m \in Matched : m \subseteq Signer
    BY DEF Matched
  <2>2. [s \in Signer |-> IF s = 1 THEN "notified" ELSE "pending"]
          \in [Signer -> SignerStatus]
    BY StatusKinds
  <2> QED BY <2>1, <2>2 DEF Init, Remote, DocStatus
<1>3. conv \in [Worker -> Conv] /\ comp \in [Completer -> Comp]
  BY IdleTypes DEF Init
<1>4. /\ status \in EnvelopeStatus /\ due \in BOOLEAN
      /\ links \subseteq Signer /\ trail \subseteq EventType \X Signer
  BY StatusKinds DEF Init, Signer
<1>5. jobs \in 0 .. MaxJobs
  BY JobsAssumption DEF Init
<1>6. /\ key \in Bytes \cup {NoBytes} /\ stored \subseteq Bytes
      /\ pdf \in {"not_required", "pending", "ready"}
      /\ page \in {0} \cup Signer /\ voiding \in BOOLEAN
  BY DEF Init
<1> QED BY <1>1, <1>2, <1>3, <1>4, <1>5, <1>6 DEF TypeOK, Conv, Comp, Remote

(* What a convergence applies has the types of our rows.                   *)
LEMMA ApplyType ==
  ASSUME TypeOK, NEW w \in Worker, Apply(w)
  PROVE  TypeOK'
<1> DEFINE c == conv[w]
<1>1. c \in Conv
  BY DEF TypeOK, Conv
<1>2. status' \in EnvelopeStatus
  BY StatusKinds DEF Apply, NewStatus, TypeOK
<1>3. sig' \in [Signer -> SignerStatus]
  <2>1. \A s \in Signer : NewSig(c, s) \in SignerStatus
    BY StatusKinds DEF NewSig, TypeOK
  <2> QED BY <2>1 DEF Apply
<1>4. links' \subseteq Signer
  BY DEF Apply, NewLinks, TypeOK
<1>5. trail' \subseteq EventType \X Signer
  <2>1. \A s \in Signer : SignNow(c, s) \/ DeclineNow(c, s) => c.got[s] \in EventType
    BY DEF SignNow, DeclineNow, EventType
  <2>2. NewEvents(c) \subseteq EventType \X Signer
    BY <2>1 DEF NewEvents, EventType
  <2> QED BY <2>2 DEF Apply, TypeOK
<1>6. jobs' \in 0 .. MaxJobs
  BY IncType DEF Apply, TypeOK
<1>7. conv' \in [Worker -> Conv]
  BY IdleTypes DEF Apply, TypeOK, Conv
<1> QED BY <1>2, <1>3, <1>4, <1>5, <1>6, <1>7 DEF Apply, TypeOK, Conv

(* What a fetch keeps of the provider's answer, and Begin of our counts.   *)
LEMMA FetchWrites ==
  ASSUME TypeOK, NEW w \in Worker, Fetch(w)
  PROVE  \E d \in Conv : /\ d.pc = "fetched" /\ d.got = remote.sig /\ d.doc = remote.doc
                         /\ conv' = [conv EXCEPT ![w] = d]
<1> DEFINE d == [conv[w] EXCEPT !.pc = "fetched", !.got = remote.sig,
                                !.doc = remote.doc]
<1>1. conv[w] \in Conv
  BY DEF TypeOK, Conv
<1>2. d \in Conv /\ d.pc = "fetched" /\ d.got = remote.sig /\ d.doc = remote.doc
  BY <1>1 DEF TypeOK, Conv
<1>3. conv' = [conv EXCEPT ![w] = d]
  BY DEF Fetch, TypeOK
<1> QED BY <1>2, <1>3

LEMMA BeginWrites ==
  ASSUME TypeOK, NEW w \in Worker, Begin(w)
  PROVE  \E d \in Conv : /\ d.pc = "begun" /\ d.got = conv[w].got /\ d.doc = conv[w].doc
                         /\ conv' = [conv EXCEPT ![w] = d]
<1> DEFINE d == [conv[w] EXCEPT !.pc = "begun", !.seen = Viewed, !.links = links]
<1>1. conv[w] \in Conv /\ Viewed \subseteq Signer
  BY DEF TypeOK, Conv, Viewed
<1>2. d \in Conv /\ d.pc = "begun" /\ d.got = conv[w].got /\ d.doc = conv[w].doc
  BY <1>1 DEF TypeOK, Conv
<1>3. conv' = [conv EXCEPT ![w] = d]
  BY DEF Begin, TypeOK
<1> QED BY <1>2, <1>3

LEMMA NextType ==
  ASSUME TypeOK, Downloaded, [Next]_vars PROVE TypeOK'
<1>0. /\ conv \in [Worker -> Conv] /\ comp \in [Completer -> Comp]
      /\ remote \in Remote
  BY DEF TypeOK, Conv, Comp, Remote
<1>1. ASSUME NEW s \in Signer, RemoteAct(s) PROVE TypeOK'
  <2>1. PICK to \in SignerStatus : remote' = [remote EXCEPT !.sig[s] = to]
    BY <1>1, StatusKinds DEF RemoteAct, RemoteSet
  <2>2. remote' \in Remote
    BY <2>1 DEF TypeOK, Remote
  <2> QED BY <1>1, <2>2 DEF RemoteAct, TypeOK, Remote, rows
<1>2. ASSUME NEW s \in Signer, OpenPage(s) PROVE TypeOK'
  BY <1>2 DEF OpenPage, TypeOK, rows
<1>3. CASE RemoteFinalize \/ RemoteCancel
  <2>1. remote' \in Remote
    BY <1>0, <1>3 DEF RemoteFinalize, RemoteCancel, Remote, DocStatus
  <2> QED BY <1>3, <2>1 DEF RemoteFinalize, RemoteCancel, TypeOK, Remote, rows
<1>21. ASSUME NEW s \in Signer, RemoteDecline(s) PROVE TypeOK'
  <2>1. PICK doc \in {remote.doc, "declined"}, to \in {remote.sig[s], "declined"} :
          remote' = [remote EXCEPT !.doc = doc, !.sig[s] = to]
    BY <1>21 DEF RemoteDecline
  <2>2. doc \in DocStatus
    BY <1>0 DEF Remote, DocStatus
  <2>3. to \in SignerStatus
    BY <1>0, StatusKinds DEF Remote
  <2>4. remote' \in Remote
    BY <1>0, <2>1, <2>2, <2>3 DEF Remote
  <2> QED BY <1>21, <2>4 DEF RemoteDecline, TypeOK, Remote, rows
<1>4. ASSUME NEW w \in Worker, Load(w) PROVE TypeOK'
  <2>1. [IdleConv EXCEPT !.pc = "loaded", !.status = status, !.sig = sig] \in Conv
    BY IdleTypes DEF TypeOK, Conv
  <2>2. conv' \in [Worker -> Conv]
    BY <1>0, <1>4, <2>1 DEF Load
  <2> QED BY <1>4, <2>2 DEF Load, TypeOK, Conv, rows
<1>5. ASSUME NEW w \in Worker, Fetch(w) PROVE TypeOK'
  <2>1. conv' \in [Worker -> Conv]
    BY <1>0, <1>5, FetchWrites
  <2> QED BY <1>5, <2>1 DEF Fetch, TypeOK, Conv, rows
<1>6. ASSUME NEW w \in Worker, FetchFails(w) PROVE TypeOK'
  <2>1. conv' \in [Worker -> Conv]
    BY <1>0, <1>6, IdleTypes DEF FetchFails
  <2> QED BY <1>6, <2>1 DEF FetchFails, TypeOK, Conv, rows
<1>7. ASSUME NEW w \in Worker, Begin(w) PROVE TypeOK'
  <2>1. conv' \in [Worker -> Conv]
    BY <1>0, <1>7, BeginWrites
  <2> QED BY <1>7, <2>1 DEF Begin, TypeOK, Conv, rows
<1>8. ASSUME NEW w \in Worker, Apply(w) PROVE TypeOK'
  BY <1>8, ApplyType
<1>9. ASSUME NEW c \in Completer, CompLoad(c) PROVE TypeOK'
  <2>1. comp' \in [Completer -> Comp]
    BY <1>0, <1>9 DEF CompLoad, Comp
  <2>2. jobs' \in 0 .. MaxJobs
    BY <1>9, JobsAssumption DEF CompLoad, TypeOK
  <2> QED BY <1>9, <2>1, <2>2 DEF CompLoad, TypeOK, Comp, rows
<1>10. ASSUME NEW c \in Completer, Download(c) PROVE TypeOK'
  <2>1. comp' \in [Completer -> Comp]
    BY <1>0, <1>10 DEF Download, Comp
  <2> QED BY <1>10, <2>1 DEF Download, TypeOK, Comp, rows
<1>11. ASSUME NEW c \in Completer, Put(c) PROVE TypeOK'
  <2>1. comp' \in [Completer -> Comp]
    BY <1>0, <1>11 DEF Put, Comp
  <2>2. stored' \subseteq Bytes
    BY <1>11 DEF Put, TypeOK, Downloaded
  <2> QED BY <1>11, <2>1, <2>2 DEF Put, TypeOK, Comp
<1>12. ASSUME NEW c \in Completer, Claim(c) PROVE TypeOK'
  <2>1. comp' \in [Completer -> Comp]
    BY <1>0, <1>12, IdleTypes DEF Claim
  <2>2. /\ key' \in Bytes \cup {NoBytes} /\ status' \in EnvelopeStatus
        /\ links' \subseteq Signer /\ pdf' \in {"not_required", "pending", "ready"}
    BY <1>12, StatusKinds DEF Claim, TypeOK
  <2> QED BY <1>12, <2>1, <2>2 DEF Claim, TypeOK, Comp
<1>13. ASSUME NEW c \in Completer, CompFails(c) PROVE TypeOK'
  <2>1. comp' \in [Completer -> Comp]
    BY <1>0, <1>13, IdleTypes DEF CompFails
  <2> QED BY <1>13, <2>1 DEF CompFails, TypeOK, Comp
<1>14. CASE RecordViewed
  <2>1. page \in Signer
    BY <1>14 DEF RecordViewed, TypeOK
  <2>2. sig' \in [Signer -> SignerStatus] /\ trail' \subseteq EventType \X Signer
    BY <1>14, <2>1, StatusKinds DEF RecordViewed, TypeOK, EventType
  <2> QED BY <1>14, <2>2 DEF RecordViewed, TypeOK
<1>15. CASE VoidCancel
  <2>1. remote' \in Remote
    BY <1>15 DEF VoidCancel, TypeOK, Remote
  <2> QED BY <1>15, <2>1 DEF VoidCancel, TypeOK, Remote, rows
<1>16. CASE VoidCommit
  BY <1>16, StatusKinds DEF VoidCommit, End, TypeOK, rows
<1>17. CASE Tick
  BY <1>17 DEF Tick, TypeOK
<1>18. CASE MaterializeExpired
  BY <1>18, StatusKinds DEF MaterializeExpired, End, TypeOK
<1>19. CASE Crash
  <2>1. conv' \in [Worker -> Conv] /\ comp' \in [Completer -> Comp]
    BY <1>0, <1>19, IdleTypes DEF Crash
  <2>2. voiding' \in BOOLEAN /\ (jobs' = jobs \/ (jobs > 0 /\ jobs' = jobs - 1))
    BY <1>19 DEF Crash, TypeOK
  <2>3. jobs' \in 0 .. MaxJobs
    BY <2>2, JobsAssumption DEF TypeOK
  <2> QED BY <1>19, <2>1, <2>2, <2>3 DEF Crash, TypeOK, Conv, Comp, rows
<1>20. CASE UNCHANGED vars
  BY <1>20 DEF vars, rows, TypeOK
<1> QED BY <1>1, <1>2, <1>3, <1>4, <1>5, <1>6, <1>7, <1>8, <1>9, <1>10, <1>11,
           <1>12, <1>13, <1>14, <1>15, <1>16, <1>17, <1>18, <1>19, <1>20, <1>21
        DEF Next, ConvStep, CompStep

----------------------------------------------------------------------------
(* What the provider has said stands. *)

(* The provider's document only moves forward.                             *)
RemoteForward ==
  /\ \A s \in Signer : remote.sig[s] \in Finished => remote'.sig[s] = remote.sig[s]
  /\ remote.doc # "open" => remote'.doc = remote.doc

LEMMA RemoteKept ==
  ASSUME TypeOK, Stands, [Next]_vars
  PROVE  /\ RemoteForward
         /\ remote'.doc = "completed" => \A s \in Signer : remote'.sig[s] = "signed"
<1> DEFINE Goal ==
      /\ RemoteForward
      /\ remote'.doc = "completed" => \A s \in Signer : remote'.sig[s] = "signed"
<1> USE DEF RemoteForward
<1>0. remote \in Remote
  BY DEF TypeOK, Remote
<1>1. ASSUME NEW s \in Signer, RemoteAct(s) PROVE Goal
  <2>1. PICK to : /\ remote.sig[s] \in {"pending", "notified", "viewed"}
                  /\ remote.doc = "open"
                  /\ remote' = [remote EXCEPT !.sig[s] = to]
    BY <1>1 DEF RemoteAct, RemoteSet
  <2>2. remote'.doc = "open" /\ \A r \in Signer \ {s} : remote'.sig[r] = remote.sig[r]
    BY <1>0, <2>1 DEF Remote
  <2>3. remote.sig[s] \notin Finished
    BY <2>1 DEF Finished
  <2> QED BY <2>1, <2>2, <2>3
<1>2. CASE RemoteFinalize
  <2>1. remote'.sig = remote.sig
    BY <1>0, <1>2 DEF RemoteFinalize, Remote
  <2> QED BY <1>2, <2>1 DEF RemoteFinalize
<1>3. CASE VoidCancel
  <2>1. remote'.sig = remote.sig /\ remote'.doc = remote.doc
    BY <1>0, <1>3 DEF VoidCancel, Remote
  <2> QED BY <2>1 DEF Stands
<1>4. CASE remote' = remote
  BY <1>4 DEF Stands
<1>5. ASSUME NEW s \in Signer, RemoteDecline(s) PROVE Goal
  <2>1. PICK doc \in {remote.doc, "declined"}, to \in {remote.sig[s], "declined"} :
          remote' = [remote EXCEPT !.doc = doc, !.sig[s] = to]
    BY <1>5 DEF RemoteDecline
  <2>2. /\ remote.doc \in {"open", "declined"}
        /\ remote.sig[s] \in {"notified", "viewed", "declined"}
    BY <1>5 DEF RemoteDecline
  <2>3. remote'.doc = doc /\ remote'.sig = [remote.sig EXCEPT ![s] = to]
    BY <1>0, <2>1 DEF Remote
  <2>4. remote'.sig[s] = to /\ \A r \in Signer \ {s} : remote'.sig[r] = remote.sig[r]
    BY <1>0, <2>3 DEF Remote
  <2> QED BY <2>2, <2>3, <2>4 DEF Finished
<1>6. CASE RemoteCancel
  <2>1. remote'.sig = remote.sig /\ remote'.doc = "canceled" /\ remote.doc = "open"
    BY <1>0, <1>6 DEF RemoteCancel, Remote
  <2> QED BY <2>1
<1>7. \/ \E s \in Signer : RemoteAct(s) \/ RemoteDecline(s)
      \/ RemoteFinalize \/ RemoteCancel \/ VoidCancel \/ remote' = remote
  BY DEF Next, ConvStep, CompStep, vars, OpenPage, Load, Fetch, FetchFails, Begin,
         Apply, CompLoad, Download, Put, Claim, CompFails, RecordViewed,
         VoidCommit, Tick, MaterializeExpired, Crash
<1> QED BY <1>1, <1>2, <1>3, <1>4, <1>5, <1>6, <1>7

LEMMA StandsKept ==
  ASSUME TypeOK, Stands, [Next]_vars PROVE Stands'
<1>0. conv \in [Worker -> Conv]
  BY DEF TypeOK, Conv
<1>1. /\ RemoteForward
      /\ remote'.doc = "completed" => \A s \in Signer : remote'.sig[s] = "signed"
  BY RemoteKept
<1> DEFINE Kept(w) == /\ conv'[w].pc \in {"fetched", "begun"}
                      /\ conv'[w].got = conv[w].got /\ conv'[w].doc = conv[w].doc
                      /\ conv[w].pc \in {"fetched", "begun"}
           Good(w) == conv'[w].pc \notin {"fetched", "begun"} \/ Kept(w)
                        \/ /\ conv'[w].got = remote.sig /\ conv'[w].doc = remote.doc
                           /\ remote' = remote
<1>2. \A w \in Worker : Good(w)
  <2>1. ASSUME NEW w \in Worker, Fetch(w) PROVE \A v \in Worker : Good(v)
    <3>1. PICK d \in Conv : /\ d.pc = "fetched" /\ d.got = remote.sig /\ d.doc = remote.doc
                            /\ conv' = [conv EXCEPT ![w] = d]
      BY <2>1, FetchWrites
    <3>2. remote' = remote
      BY <2>1 DEF Fetch
    <3>3. \A v \in Worker : conv'[v] = conv[v] \/ conv'[v] = d
      BY <1>0, <3>1
    <3> QED BY <3>1, <3>2, <3>3
  <2>2. ASSUME NEW w \in Worker, Begin(w) PROVE \A v \in Worker : Good(v)
    <3>1. conv[w].pc = "fetched"
      BY <2>2 DEF Begin
    <3>2. PICK d \in Conv : /\ d.pc = "begun" /\ d.got = conv[w].got /\ d.doc = conv[w].doc
                            /\ conv' = [conv EXCEPT ![w] = d]
      BY <2>2, BeginWrites
    <3>3. conv'[w] = d /\ \A v \in Worker \ {w} : conv'[v] = conv[v]
      BY <1>0, <3>2
    <3> QED BY <3>1, <3>2, <3>3
  <2>3. ASSUME NEW w \in Worker, NEW d,
               conv' = [conv EXCEPT ![w] = d], d.pc \in {"idle", "loaded"}
        PROVE  \A v \in Worker : Good(v)
    BY <1>0, <2>3
  <2>4. IdleConv.pc = "idle"
    BY DEF IdleConv
  <2>5. ASSUME NEW w \in Worker, Load(w) PROVE \A v \in Worker : Good(v)
    <3>1. [IdleConv EXCEPT !.pc = "loaded", !.status = status, !.sig = sig].pc = "loaded"
      BY DEF IdleConv
    <3> QED BY <2>3, <2>5, <3>1 DEF Load
  <2>6. ASSUME NEW w \in Worker, FetchFails(w) \/ Apply(w)
        PROVE  \A v \in Worker : Good(v)
    <3>1. conv' = [conv EXCEPT ![w] = IdleConv]
      BY <2>6 DEF FetchFails, Apply
    <3> QED BY <2>3, <2>4, <3>1
  <2>7. CASE Crash
    <3>1. conv' = conv \/ \E w \in Worker : conv' = [conv EXCEPT ![w] = IdleConv]
      BY <2>7 DEF Crash
    <3> QED BY <2>3, <2>4, <3>1
  <2>8. CASE conv' = conv
    BY <2>8
  <2>9. \/ \E w \in Worker : Load(w) \/ ConvStep(w)
        \/ Crash \/ conv' = conv
    BY DEF Next, CompStep, vars, RemoteAct, RemoteDecline, RemoteCancel,
           RemoteFinalize, OpenPage, CompLoad, Download, Put, Claim, CompFails,
           RecordViewed, VoidCancel, VoidCommit, Tick, MaterializeExpired
  <2> QED BY <2>1, <2>2, <2>5, <2>6, <2>7, <2>8, <2>9 DEF ConvStep
<1>3. ASSUME NEW w \in Worker, conv'[w].pc \in {"fetched", "begun"}
      PROVE  /\ conv'[w].doc # "open" => remote'.doc = conv'[w].doc
             /\ \A s \in Signer :
                  conv'[w].got[s] \in Finished => remote'.sig[s] = conv'[w].got[s]
  BY <1>1, <1>2, <1>3 DEF Stands, RemoteForward
<1> QED BY <1>1, <1>3 DEF Stands

(* A completion keeps what it downloaded, and the storage keeps it too.    *)
LEMMA DownloadedKept ==
  ASSUME TypeOK, Stands, Downloaded, [Next]_vars PROVE Downloaded'
<1>0. comp \in [Completer -> Comp]
  BY DEF TypeOK, Comp
<1>1. remote.doc = "completed" => remote'.doc = "completed"
  BY RemoteKept DEF RemoteForward
<1> DEFINE Good(c) ==
      \/ comp'[c].pc \in {"idle", "loaded"}
      \/ comp'[c] = comp[c]
      \/ /\ comp'[c].pc = "downloaded" /\ remote.doc = "completed"
         /\ comp'[c].bytes \in Bytes
      \/ /\ comp[c].pc = "downloaded" /\ comp'[c].pc = "put"
         /\ comp'[c].bytes = comp[c].bytes /\ comp[c].bytes \in stored'
<1>2. \A c \in Completer : Good(c)
  <2>1. ASSUME NEW c \in Completer, NEW d, comp' = [comp EXCEPT ![c] = d],
               d.pc \in {"idle", "loaded"}
        PROVE  \A e \in Completer : Good(e)
    BY <1>0, <2>1
  <2>2. IdleComp.pc = "idle"
    BY DEF IdleComp
  <2>3. ASSUME NEW c \in Completer, CompLoad(c) PROVE \A e \in Completer : Good(e)
    BY <1>0, <2>3 DEF CompLoad, Comp
  <2>4. ASSUME NEW c \in Completer, Download(c) PROVE \A e \in Completer : Good(e)
    BY <1>0, <2>4 DEF Download
  <2>5. ASSUME NEW c \in Completer, Put(c) PROVE \A e \in Completer : Good(e)
    BY <1>0, <2>5 DEF Put, Comp
  <2>6. ASSUME NEW c \in Completer, Claim(c) \/ CompFails(c)
        PROVE  \A e \in Completer : Good(e)
    <3>1. comp' = [comp EXCEPT ![c] = IdleComp]
      BY <2>6 DEF Claim, CompFails
    <3> QED BY <2>1, <2>2, <3>1
  <2>7. CASE Crash
    <3>1. comp' = comp \/ \E c \in Completer : comp' = [comp EXCEPT ![c] = IdleComp]
      BY <2>7 DEF Crash
    <3> QED BY <2>1, <2>2, <3>1
  <2>8. CASE comp' = comp
    BY <2>8
  <2>9. \/ \E c \in Completer : CompLoad(c) \/ CompStep(c)
        \/ Crash \/ comp' = comp
    BY DEF Next, ConvStep, vars, RemoteAct, RemoteDecline, RemoteCancel, RemoteFinalize,
           OpenPage, Load, Fetch, FetchFails, Begin, Apply, RecordViewed, VoidCancel,
           VoidCommit, Tick, MaterializeExpired
  <2> QED BY <2>3, <2>4, <2>5, <2>6, <2>7, <2>8, <2>9 DEF CompStep
<1>3. stored \subseteq stored'
  BY DEF Next, ConvStep, CompStep, vars, rows, RemoteAct, RemoteDecline, RemoteCancel,
         RemoteFinalize, OpenPage, Load, Fetch, FetchFails, Begin, Apply, CompLoad, Download, Put, Claim,
         CompFails, RecordViewed, VoidCancel, VoidCommit, End, Tick,
         MaterializeExpired, Crash
<1> QED BY <1>1, <1>2, <1>3 DEF Downloaded

----------------------------------------------------------------------------
(* Nothing is invented. *)

(* The rows a property speaks of change in four places only.               *)
LEMMA RowsKept ==
  ASSUME [Next]_vars,
         \A w \in Worker : ~Apply(w),
         \A c \in Completer : ~Claim(c),
         ~RecordViewed
  PROVE  /\ sig' = sig /\ trail' = trail
         /\ status' = status \/ status' \in {"voided", "expired"}
BY DEF Next, ConvStep, CompStep, vars, rows, RemoteAct, RemoteDecline, RemoteCancel,
       RemoteFinalize, OpenPage, Load, Fetch, FetchFails, Begin, CompLoad, Download, Put,
       CompFails, VoidCancel, VoidCommit, End, Tick, MaterializeExpired, Crash

LEMMA NothingInventedKept ==
  ASSUME TypeOK, Stands, Downloaded, NothingInvented, [Next]_vars
  PROVE  NothingInvented'
<1>1. RemoteForward
  BY RemoteKept
<1>2. ASSUME NEW w \in Worker, Apply(w) PROVE NothingInvented'
  <2> DEFINE c == conv[w]
  <2>1. /\ c.doc # "open" => remote.doc = c.doc
        /\ \A s \in Signer : c.got[s] \in Finished => remote.sig[s] = c.got[s]
    BY <1>2 DEF Apply, Stands
  <2>2. remote' = remote
    BY <1>2 DEF Apply
  <2>3. ASSUME NEW s \in Signer, sig'[s] \in Finished PROVE remote.sig[s] = sig'[s]
    <3>1. sig'[s] = NewSig(c, s)
      BY <1>2 DEF Apply
    <3>2. DeclineNow(c, s) => remote.sig[s] = "declined"
      BY <2>1 DEF DeclineNow, Finished
    <3>3. SignNow(c, s) => remote.sig[s] = "signed"
      BY <2>1 DEF SignNow, Finished
    <3> QED BY <2>3, <3>1, <3>2, <3>3 DEF NewSig, NothingInvented, Finished
  <2>4. /\ RemoteStatus(c) = "declined" =>
             remote.doc = "declined" \/ \E s \in Signer : remote.sig[s] = "declined"
        /\ RemoteStatus(c) = "partially_signed" => \E s \in Signer : remote.sig[s] = "signed"
    BY <2>1 DEF RemoteStatus, Finished
  <2>5. status' = NewStatus(c)
    BY <1>2 DEF Apply
  <2>6. \/ status' = status
        \/ status' \in {"declined", "partially_signed"} /\ status' = RemoteStatus(c)
    BY <2>5 DEF NewStatus
  <2> QED BY <2>2, <2>3, <2>4, <2>6 DEF NothingInvented
<1>3. ASSUME NEW c \in Completer, Claim(c) PROVE NothingInvented'
  <2>1. \A s \in Signer : remote.sig[s] = "signed"
    BY <1>3 DEF Claim, Downloaded, Stands
  <2>2. remote' = remote /\ sig' = sig /\ (status' = status \/ status' = "completed")
    BY <1>3 DEF Claim
  <2> QED BY <2>1, <2>2 DEF NothingInvented
<1>4. CASE RecordViewed
  <2>1. /\ status' = status /\ remote' = remote
        /\ \A s \in Signer : sig'[s] = sig[s] \/ sig'[s] = "viewed"
    BY <1>4 DEF RecordViewed, TypeOK
  <2> QED BY <2>1 DEF NothingInvented, Finished
<1>5. CASE /\ \A w \in Worker : ~Apply(w)
           /\ \A c \in Completer : ~Claim(c)
           /\ ~RecordViewed
  <2>1. sig' = sig /\ (status' = status \/ status' \in {"voided", "expired"})
    BY <1>5, RowsKept
  <2> QED BY <1>1, <2>1 DEF NothingInvented, RemoteForward, Finished
<1> QED BY <1>2, <1>3, <1>4, <1>5

LEMMA SignatureHasEventKept ==
  ASSUME TypeOK, SignatureHasEvent, [Next]_vars
  PROVE  SignatureHasEvent'
<1>1. ASSUME NEW w \in Worker, Apply(w) PROVE SignatureHasEvent'
  <2> DEFINE c == conv[w]
  <2>1. sig' = [s \in Signer |-> NewSig(c, s)] /\ trail' = trail \cup NewEvents(c)
    BY <1>1 DEF Apply
  <2>2. ASSUME NEW s \in Signer, sig'[s] \in Finished PROVE <<sig'[s], s>> \in trail'
    <3>1. sig'[s] = NewSig(c, s)
      BY <2>1
    <3>2. CASE SignNow(c, s) \/ DeclineNow(c, s)
      <4>1. sig'[s] = c.got[s]
        BY <3>1, <3>2 DEF NewSig, SignNow, DeclineNow
      <4>2. <<c.got[s], s>> \in NewEvents(c)
        BY <3>2 DEF NewEvents
      <4> QED BY <2>1, <4>1, <4>2
    <3>3. CASE ~SignNow(c, s) /\ ~DeclineNow(c, s)
      <4>1. sig'[s] = sig[s]
        BY <2>2, <3>1, <3>3 DEF NewSig, Finished
      <4> QED BY <2>1, <2>2, <4>1 DEF SignatureHasEvent
    <3> QED BY <3>2, <3>3
  <2> QED BY <2>2 DEF SignatureHasEvent
<1>2. CASE RecordViewed
  <2>1. /\ trail \subseteq trail'
        /\ \A s \in Signer : sig'[s] = sig[s] \/ sig'[s] = "viewed"
    BY <1>2 DEF RecordViewed, TypeOK
  <2> QED BY <2>1 DEF SignatureHasEvent, Finished
<1>3. ASSUME NEW c \in Completer, Claim(c) PROVE SignatureHasEvent'
  BY <1>3 DEF Claim, SignatureHasEvent
<1>4. CASE /\ \A w \in Worker : ~Apply(w)
           /\ \A c \in Completer : ~Claim(c)
           /\ ~RecordViewed
  BY <1>4, RowsKept DEF SignatureHasEvent
<1> QED BY <1>1, <1>2, <1>3, <1>4

LEMMA InitInv == Init => Inv
<1> SUFFICES ASSUME Init PROVE Inv
  OBVIOUS
<1>1. \A w \in Worker : conv[w].pc = "idle"
  BY DEF Init, IdleConv
<1>2. \A c \in Completer : comp[c].pc = "idle"
  BY DEF Init, IdleComp
<1>3. remote.doc = "open"
  BY DEF Init
<1>4. Stands /\ Downloaded
  BY <1>1, <1>2, <1>3 DEF Stands, Downloaded
<1>5. \A s \in Signer : sig[s] \notin Finished
  BY DEF Init, Finished
<1>6. NothingInvented /\ SignatureHasEvent
  BY <1>5 DEF Init, NothingInvented, SignatureHasEvent
<1> QED BY <1>4, <1>6, InitType DEF Inv

LEMMA NextInv == Inv /\ [Next]_vars => Inv'
BY NextType, StandsKept, DownloadedKept, NothingInventedKept, SignatureHasEventKept
   DEF Inv

THEOREM InvHolds == Spec => []Inv
  BY InitInv, NextInv, PTL DEF Spec

(* Every variable has its type, among them that a convergence holds one of *)
(* the statuses a row can have (provider-reconciler.service.ts:160-428).   *)
THEOREM TypeCorrect == Spec => []TypeOK
<1>1. Inv => TypeOK
  BY DEF Inv
<1> QED BY <1>1, InvHolds, PTL

(* However stale what it applies is, convergence never writes a signature, *)
(* a refusal or a completion that the provider does not hold               *)
(* (provider-reconciler.service.ts:244-428).                               *)
THEOREM InventsNothing == Spec => []NothingInvented
<1>1. Inv => NothingInvented
  BY DEF Inv
<1> QED BY <1>1, InvHolds, PTL

(* Every signature and refusal of our rows has its event in the trail,     *)
(* with any number of convergences at once                                 *)
(* (provider-reconciler.service.ts:312-332, signing.service.ts:842).       *)
THEOREM SignaturesHaveEvents == Spec => []SignatureHasEvent
<1>1. Inv => SignatureHasEvent
  BY DEF Inv
<1> QED BY <1>1, InvHolds, PTL

----------------------------------------------------------------------------
(* Refinement. *)

(* The download implements the write-once document as the in-house         *)
(* renderer does, with any number of completions at once                   *)
(* (envelope-completion.ts:181-212).                                       *)
THEOREM ImplementsSignedDocument == Spec => WriteOnce
<1>1. Init => Abstract!Init
  BY DEF Init, Abstract!Init
<1>2. Inv /\ [Next]_vars => [Abstract!Next]_<<key, stored>>
  <2> SUFFICES ASSUME Inv, [Next]_vars, ~UNCHANGED <<key, stored>>
               PROVE  Abstract!Next
    OBVIOUS
  <2>1. ASSUME NEW c \in Completer, Put(c) PROVE Abstract!Next
    <3>1. comp[c].bytes \in Bytes /\ Abstract!Store(comp[c].bytes)
      BY <2>1 DEF Put, Inv, Downloaded, Abstract!Store
    <3> QED BY <3>1 DEF Abstract!Next
  <2>2. ASSUME NEW c \in Completer, Claim(c) PROVE Abstract!Next
    <3>1. comp[c].bytes \in Bytes /\ Abstract!Publish(comp[c].bytes)
      BY <2>2 DEF Claim, Unclaimed, Inv, Downloaded, Abstract!Publish
    <3> QED BY <3>1 DEF Abstract!Next
  <2>3. \E c \in Completer : Put(c) \/ Claim(c)
    BY DEF Next, ConvStep, CompStep, vars, rows, RemoteAct, RemoteDecline, RemoteCancel,
           RemoteFinalize, OpenPage, Load, Fetch, FetchFails, Begin, Apply, CompLoad, Download,
           CompFails, RecordViewed, VoidCancel, VoidCommit, End, Tick,
           MaterializeExpired, Crash
  <2> QED BY <2>1, <2>2, <2>3
<1> QED BY <1>1, <1>2, InvHolds, PTL DEF Spec, WriteOnce, Abstract!Spec
=============================================================================
