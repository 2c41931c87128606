-------------------------- MODULE ProviderConverge --------------------------
(***************************************************************************)
(* A sent envelope under a remote provider (SignWell): the provider keeps  *)
(* the signing state, and we converge our rows to it.                      *)
(*                                                                         *)
(* A convergence (webhook job, stale read, sweep: `converge` in all three) *)
(* loads our rows, fetches the provider's state outside any transaction,   *)
(* then applies the difference between the two in one transaction, without *)
(* reading our rows again.  The transaction takes the Envelope lock with   *)
(* its first write (EventChain); what it counts before that write it reads *)
(* unlocked, so `Begin` is a step of its own.  From the lock on nobody     *)
(* else can commit, so the rest is one step, `Apply`.                      *)
(*                                                                         *)
(* A completion (`completeFromProvider`) loads the row, downloads the PDF, *)
(* stores it, then claims the row.  Any process may die between two steps. *)
(***************************************************************************)
EXTENDS Naturals

CONSTANTS Bytes, NoBytes,  \* see SignedDocument
          Worker,          \* convergences in flight at once (a bound)
          Completer,       \* completions in flight at once (a bound)
          MaxJobs,         \* dispatched jobs saturate here (a bound)
          Ops              \* what else may happen, a subset of OpKind

OpKind == {"void", "expire", "page", "decline", "cancel", "mismatch", "outage", "crash"}

ASSUME BytesAssumption == NoBytes \notin Bytes
ASSUME OpsAssumption == Ops \subseteq OpKind
ASSUME JobsAssumption == MaxJobs \in Nat

Signer == {1, 2}
TerminalStatus == {"completed", "declined", "voided", "expired"}
EnvelopeStatus == {"sent", "partially_signed"} \cup TerminalStatus
SignerStatus == {"pending", "notified", "viewed", "signed", "declined"}
Finished == {"signed", "declined"}
Advanced == {"viewed", "signed", "declined"}
DocStatus == {"open", "completed", "declined", "canceled"}
EventType == {"viewed", "signed", "declined"}

Inc(n) == IF n < MaxJobs THEN n + 1 ELSE n

VARIABLES
  status,  \* Envelope.status as stored
  due,     \* Envelope.expiresAt < now
  sig,     \* EnvelopeSigner.status of each signer
  links,   \* the signers with a SigningToken that is not invalidated
  trail,   \* the events in the trail, by type and signer, each at most once
  key, stored, pdf,  \* signedPdfKey, the file storage, pdfStatus
  remote,  \* the provider's document: exists, its status, each recipient's
  jobs,    \* provider-complete jobs dispatched and not started
  conv,    \* each convergence: where it is and what it has read
  comp,    \* each completion: where it is and what it downloaded
  page,    \* the signer whose first page view is being recorded, or 0
  voiding  \* a void has asked the provider and not yet committed

rows == <<status, due, sig, links, trail, key, stored, pdf>>
vars == <<rows, remote, jobs, conv, comp, page, voiding>>

Live == status \notin TerminalStatus /\ ~due

IdleConv == [pc |-> "idle", status |-> "sent",
             sig |-> [s \in Signer |-> "pending"],
             got |-> [s \in Signer |-> "pending"], doc |-> "open",
             seen |-> {}, links |-> {}]
IdleComp == [pc |-> "idle", bytes |-> NoBytes]

(* The signers of ours that the provider's document has as recipients.  If *)
(* it omits one, every fetch finds a signer_mismatch.                      *)
Matched == IF "mismatch" \in Ops THEN SUBSET Signer ELSE {Signer}

(* What the send commits: the first signer is invited on both sides. *)
Init ==
  /\ status = "sent" /\ due = FALSE
  /\ sig = [s \in Signer |-> IF s = 1 THEN "notified" ELSE "pending"]
  /\ links = {1} /\ trail = {}
  /\ key = NoBytes /\ stored = {} /\ pdf = "not_required"
  /\ \E m \in Matched :
       remote = [exists |-> TRUE, doc |-> "open", matched |-> m,
                 sig |-> [s \in Signer |-> IF s = 1 THEN "notified" ELSE "pending"]]
  /\ jobs = 0
  /\ conv = [w \in Worker |-> IdleConv]
  /\ comp = [c \in Completer |-> IdleComp]
  /\ page = 0
  /\ voiding = FALSE

----------------------------------------------------------------------------
(* The provider (external): signers act in order on its surface, a turn    *)
(* opens some time after the one before, the document becomes Completed    *)
(* some time after the last signature, and document and recipient become   *)
(* Declined in any order.  Documents are made with draft: false, so an     *)
(* open one is sent, or about to be.                                       *)

RemoteSet(s, from, to) ==
  /\ remote.exists /\ remote.doc = "open"
  /\ \A r \in Signer : remote.sig[r] # "declined"
  /\ remote.sig[s] \in from
  /\ remote' = [remote EXCEPT !.sig[s] = to]

RemoteAct(s) ==
  /\ \/ RemoteSet(s, {"notified"}, "viewed")
     \/ RemoteSet(s, {"notified", "viewed"}, "signed")
     \/ remote.sig[1] = "signed" /\ s = 2 /\ RemoteSet(s, {"pending"}, "notified")
  /\ UNCHANGED <<rows, jobs, conv, comp, page, voiding>>

RemoteDecline(s) ==
  /\ "decline" \in Ops
  /\ remote.exists /\ remote.doc \in {"open", "declined"}
  /\ remote.sig[s] \in {"notified", "viewed", "declined"}
  /\ \E doc \in {remote.doc, "declined"}, to \in {remote.sig[s], "declined"} :
       remote' = [remote EXCEPT !.doc = doc, !.sig[s] = to]
  /\ UNCHANGED <<rows, jobs, conv, comp, page, voiding>>

(* Somebody cancels or archives the document in the provider's own pages. *)
RemoteCancel ==
  /\ "cancel" \in Ops
  /\ remote.exists /\ remote.doc = "open"
  /\ remote' = [remote EXCEPT !.doc = "canceled"]
  /\ UNCHANGED <<rows, jobs, conv, comp, page, voiding>>

RemoteFinalize ==
  /\ remote.exists /\ remote.doc = "open"
  /\ \A s \in Signer : remote.sig[s] = "signed"
  /\ remote' = [remote EXCEPT !.doc = "completed"]
  /\ UNCHANGED <<rows, jobs, conv, comp, page, voiding>>

----------------------------------------------------------------------------
(* converge: load, the terminal check, fetchState. *)

Load(w) ==
  /\ conv[w].pc = "idle"
  /\ Live
  /\ conv' = [conv EXCEPT ![w] =
                [IdleConv EXCEPT !.pc = "loaded", !.status = status, !.sig = sig]]
  /\ UNCHANGED <<rows, remote, jobs, comp, page, voiding>>

Fetch(w) ==
  /\ conv[w].pc = "loaded"
  /\ remote.exists
  /\ conv' = [conv EXCEPT ![w].pc = "fetched", ![w].got = remote.sig,
                          ![w].doc = remote.doc]
  /\ UNCHANGED <<rows, remote, jobs, comp, page, voiding>>

(* The provider errs, or answers 404: only providerError is written. *)
FetchFails(w) ==
  /\ conv[w].pc = "loaded"
  /\ ~remote.exists \/ "outage" \in Ops
  /\ conv' = [conv EXCEPT ![w] = IdleConv]
  /\ UNCHANGED <<rows, remote, jobs, comp, page, voiding>>

Viewed == {s \in Signer : <<"viewed", s>> \in trail}

(* The counts that applyState reads before its first write. *)
Begin(w) ==
  /\ conv[w].pc = "fetched"
  /\ conv' = [conv EXCEPT ![w].pc = "begun", ![w].seen = Viewed,
                          ![w].links = links]
  /\ UNCHANGED <<rows, remote, jobs, comp, page, voiding>>

----------------------------------------------------------------------------
(* applyState, for what convergence c loaded and fetched. *)

(* Mutant of RemoteStatus: only news of a signature completes. *)
OnLastSignature(c) ==
  IF c.doc = "completed" /\ \E s \in Signer : c.sig[s] # "signed" THEN "completed"
  ELSE IF c.doc = "declined" \/ \E s \in Signer : c.got[s] = "declined" THEN "declined"
  ELSE IF c.doc = "canceled" THEN "canceled"
  ELSE IF \E s \in Signer : c.got[s] = "signed" THEN "partially_signed"
  ELSE "sent"

(* envelopeStatusFrom; a canceled document moves nothing of ours. *)
RemoteStatus(c) ==
  IF c.doc = "completed" THEN "completed"
  ELSE IF c.doc = "declined" \/ \E s \in Signer : c.got[s] = "declined" THEN "declined"
  ELSE IF c.doc = "canceled" THEN "canceled"
  ELSE IF \E s \in Signer : c.got[s] = "signed" THEN "partially_signed"
  ELSE "sent"

Mismatch == remote.matched # Signer

(* Mutant of SignNow: whoever saw the document counts as a signer. *)
SignViewed(c, s) ==
  s \in remote.matched /\ c.got[s] \in {"viewed", "signed"} /\ c.sig[s] # "signed"

SignNow(c, s) ==
  s \in remote.matched /\ c.got[s] = "signed" /\ c.sig[s] # "signed"

DeclineNow(c, s) ==
  s \in remote.matched /\ c.got[s] = "declined" /\ c.sig[s] # "declined"

(* The viewed event is counted unlocked unless an earlier signer of the    *)
(* same transaction was written.                                           *)
ViewNow(c, s) ==
  /\ s \in remote.matched /\ c.got[s] \in Advanced /\ c.sig[s] \notin Advanced
  /\ IF \E r \in Signer : r < s /\ (SignNow(c, r) \/ DeclineNow(c, r))
     THEN s \notin Viewed
     ELSE s \notin c.seen

Writes(c, s) == ViewNow(c, s) \/ SignNow(c, s) \/ DeclineNow(c, s)

NewStatus(c) ==
  IF Mismatch THEN status
  ELSE IF RemoteStatus(c) = "declined" THEN "declined"
  ELSE IF RemoteStatus(c) = "partially_signed" /\ c.status = "sent"
       THEN "partially_signed"
  ELSE status

WritesStatus(c) ==
  /\ ~Mismatch
  /\ \/ RemoteStatus(c) = "declined"
     \/ RemoteStatus(c) = "partially_signed" /\ c.status = "sent"

(* Neither side has s finished, and the provider has opened the turn. *)
TurnOpen(c, s) ==
  s \in remote.matched /\ c.got[s] \in {"notified", "viewed"} /\ c.sig[s] \notin Finished

(* openNextTurn: the first such signer, if no link of theirs is counted. *)
Invites(c, s) ==
  /\ ~Mismatch
  /\ RemoteStatus(c) \in {"sent", "partially_signed"}
  /\ TurnOpen(c, s)
  /\ \A r \in Signer : r < s => ~TurnOpen(c, r)
  /\ IF WritesStatus(c) \/ \E r \in Signer : Writes(c, r)
     THEN s \notin links
     ELSE s \notin c.links

NewSig(c, s) ==
  IF DeclineNow(c, s) THEN "declined"
  ELSE IF SignNow(c, s) THEN "signed"
  ELSE IF Invites(c, s) /\ c.sig[s] = "pending" THEN "notified"
  ELSE IF ViewNow(c, s) THEN "viewed"
  ELSE sig[s]

NewLinks(c) ==
  IF ~Mismatch /\ RemoteStatus(c) = "declined" THEN {}
  ELSE links \cup {s \in Signer : Invites(c, s)}

(* Mutant of NewEvents: one event for each signer and pass, the first that *)
(* applies.                                                                *)
FirstEvent(c) ==
  {<<IF ViewNow(c, s) THEN "viewed" ELSE c.got[s], s>> :
     s \in {r \in Signer : Writes(c, r)}}

NewEvents(c) ==
  {<<"viewed", s>> : s \in {r \in Signer : ViewNow(c, r)}} \cup
  {<<c.got[s], s>> : s \in {r \in Signer : SignNow(c, r) \/ DeclineNow(c, r)}}

Apply(w) ==
  LET c == conv[w] IN
  /\ c.pc = "begun"
  /\ status' = NewStatus(c)
  /\ sig' = [s \in Signer |-> NewSig(c, s)]
  /\ links' = NewLinks(c)
  /\ trail' = trail \cup NewEvents(c)
  /\ jobs' = IF ~Mismatch /\ RemoteStatus(c) = "completed" THEN Inc(jobs) ELSE jobs
  /\ conv' = [conv EXCEPT ![w] = IdleConv]
  /\ UNCHANGED <<due, key, stored, pdf, remote, comp, page, voiding>>

----------------------------------------------------------------------------
(* completeFromProvider, from the job or from the sweep's retry. *)

SweepRetries ==
  status \in {"sent", "partially_signed"} /\ pdf = "pending" /\ key = NoBytes

CompLoad(c) ==
  /\ comp[c].pc = "idle"
  /\ \/ jobs > 0 /\ jobs' = jobs - 1
     \/ SweepRetries /\ jobs' = jobs
  /\ comp' = IF status = "completed" /\ key # NoBytes THEN comp
             ELSE [comp EXCEPT ![c].pc = "loaded"]
  /\ UNCHANGED <<rows, remote, conv, page, voiding>>

Download(c) ==
  /\ comp[c].pc = "loaded"
  /\ remote.exists /\ remote.doc = "completed"
  /\ \E b \in Bytes : comp' = [comp EXCEPT ![c] = [pc |-> "downloaded", bytes |-> b]]
  /\ UNCHANGED <<rows, remote, jobs, conv, page, voiding>>

Put(c) ==
  /\ comp[c].pc = "downloaded"
  /\ comp' = [comp EXCEPT ![c].pc = "put"]
  /\ stored' = stored \cup {comp[c].bytes}
  /\ UNCHANGED <<status, due, sig, links, trail, key, pdf>>
  /\ UNCHANGED <<remote, jobs, conv, page, voiding>>

(* Mutant of Unclaimed: updateMany without signedPdfKey IS NULL. *)
AlwaysClaims(c) == comp[c].pc = "put"

Unclaimed(c) == comp[c].pc = "put" /\ key = NoBytes

(* The claim asks for signedPdfKey IS NULL and for nothing else. *)
Claim(c) ==
  /\ comp[c].pc = "put"
  /\ IF Unclaimed(c)
     THEN /\ key' = comp[c].bytes /\ pdf' = "ready" /\ status' = "completed"
          /\ links' = {}
     ELSE UNCHANGED <<key, pdf, status, links>>
  /\ comp' = [comp EXCEPT ![c] = IdleComp]
  /\ UNCHANGED <<due, sig, trail, stored, remote, jobs, conv, page, voiding>>

(* The download, the storage or the claim fails: left for the sweep. *)
CompFails(c) ==
  /\ comp[c].pc # "idle"
  /\ "outage" \in Ops \/ (comp[c].pc = "loaded" /\ ~remote.exists)
  /\ pdf' = IF status = "completed" THEN pdf ELSE "pending"
  /\ comp' = [comp EXCEPT ![c] = IdleComp]
  /\ UNCHANGED <<status, due, sig, links, trail, key, stored>>
  /\ UNCHANGED <<remote, jobs, conv, page, voiding>>

----------------------------------------------------------------------------
(* The other writers of the envelope. *)

(* recordViewed: the page is ours also when the surface is embedded. *)
OpenPage(s) ==
  /\ "page" \in Ops /\ page = 0
  /\ Live /\ s \in links /\ sig[s] \notin Finished
  /\ \A r \in Signer : r < s => sig[r] \in Finished
  /\ s \notin Viewed
  /\ page' = s
  /\ UNCHANGED <<rows, remote, jobs, conv, comp, voiding>>

RecordViewed ==
  /\ page # 0
  /\ sig' = [sig EXCEPT ![page] = "viewed"]
  /\ trail' = trail \cup {<<"viewed", page>>}
  /\ page' = 0
  /\ UNCHANGED <<status, due, links, key, stored, pdf>>
  /\ UNCHANGED <<remote, jobs, conv, comp, voiding>>

(* voidEnvelope deletes the remote document first, then voids our row. *)
VoidCancel ==
  /\ "void" \in Ops /\ ~voiding /\ Live
  /\ voiding' = TRUE
  /\ \/ remote' = [remote EXCEPT !.exists = FALSE]
     \/ "outage" \in Ops /\ remote' = remote
  /\ UNCHANGED <<rows, jobs, conv, comp, page>>

End(to) ==
  /\ status' = to
  /\ links' = {}
  /\ UNCHANGED <<due, sig, trail, key, stored, pdf>>

VoidCommit ==
  /\ voiding
  /\ voiding' = FALSE
  /\ IF Live THEN End("voided") ELSE UNCHANGED rows
  /\ UNCHANGED <<remote, jobs, conv, comp, page>>

Tick ==
  /\ "expire" \in Ops /\ ~due
  /\ due' = TRUE
  /\ UNCHANGED <<status, sig, links, trail, key, stored, pdf>>
  /\ UNCHANGED <<remote, jobs, conv, comp, page, voiding>>

MaterializeExpired ==
  /\ due /\ status \notin TerminalStatus
  /\ End("expired")
  /\ UNCHANGED <<remote, jobs, conv, comp, page, voiding>>

Crash ==
  /\ "crash" \in Ops
  /\ \/ \E w \in Worker : /\ conv[w].pc # "idle"
                          /\ conv' = [conv EXCEPT ![w] = IdleConv]
                          /\ UNCHANGED <<comp, jobs, voiding>>
     \/ \E c \in Completer : /\ comp[c].pc # "idle"
                             /\ comp' = [comp EXCEPT ![c] = IdleComp]
                             /\ UNCHANGED <<conv, jobs, voiding>>
     \/ jobs > 0 /\ jobs' = jobs - 1 /\ UNCHANGED <<conv, comp, voiding>>
     \/ voiding /\ voiding' = FALSE /\ UNCHANGED <<conv, comp, jobs>>
  /\ UNCHANGED <<rows, remote, page>>

ConvStep(w) == Fetch(w) \/ FetchFails(w) \/ Begin(w) \/ Apply(w)
CompStep(c) == Download(c) \/ Put(c) \/ Claim(c) \/ CompFails(c)

Next ==
  \/ \E s \in Signer : RemoteAct(s) \/ RemoteDecline(s) \/ OpenPage(s)
  \/ RemoteCancel \/ RemoteFinalize
  \/ \E w \in Worker : Load(w) \/ ConvStep(w)
  \/ \E c \in Completer : CompLoad(c) \/ CompStep(c)
  \/ RecordViewed \/ VoidCancel \/ VoidCommit \/ Tick \/ MaterializeExpired
  \/ Crash

Spec == Init /\ [][Next]_vars

(* The hourly sweep converges every live envelope again and again, retries *)
(* downloads and expires what is due, what has begun goes on, and a        *)
(* provider that is out or a process that dies now and then does not do so *)
(* every time.                                                             *)
FairSpec ==
  /\ Spec
  /\ WF_vars(\E w \in Worker : Load(w))
  /\ SF_vars(\E w \in Worker : Fetch(w))
  /\ SF_vars(\E w \in Worker : Begin(w))
  /\ SF_vars(\E w \in Worker : Apply(w))
  /\ SF_vars(\E c \in Completer : CompLoad(c))
  /\ SF_vars(\E c \in Completer : Download(c))
  /\ SF_vars(\E c \in Completer : Put(c))
  /\ SF_vars(\E c \in Completer : Claim(c))
  /\ WF_vars(MaterializeExpired)

----------------------------------------------------------------------------
(* Every variable has its type.                                            *)
TypeOK ==
  /\ status \in EnvelopeStatus /\ due \in BOOLEAN
  /\ sig \in [Signer -> SignerStatus]
  /\ links \subseteq Signer /\ trail \subseteq EventType \X Signer
  /\ jobs \in 0 .. MaxJobs
  /\ key \in Bytes \cup {NoBytes} /\ stored \subseteq Bytes
  /\ pdf \in {"not_required", "pending", "ready"}
  /\ remote \in [exists : BOOLEAN, doc : DocStatus, matched : SUBSET Signer,
                 sig : [Signer -> SignerStatus]]
  /\ conv \in [Worker ->
       [pc : {"idle", "loaded", "fetched", "begun"}, status : EnvelopeStatus,
        sig : [Signer -> SignerStatus], got : [Signer -> SignerStatus],
        doc : DocStatus, seen : SUBSET Signer, links : SUBSET Signer]]
  /\ comp \in [Completer ->
       [pc : {"idle", "loaded", "downloaded", "put"}, bytes : Bytes \cup {NoBytes}]]
  /\ page \in {0} \cup Signer /\ voiding \in BOOLEAN

(* Convergence invents nothing: a signature, a refusal or a completion in  *)
(* our rows is one the provider holds, however stale what a convergence    *)
(* applies is (provider-reconciler.service.ts:244-428).                    *)
NothingInvented ==
  /\ \A s \in Signer : sig[s] \in Finished => remote.sig[s] = sig[s]
  /\ status = "declined" =>
       remote.doc = "declined" \/ \E s \in Signer : remote.sig[s] = "declined"
  /\ status = "completed" => \A s \in Signer : remote.sig[s] = "signed"
  /\ status = "partially_signed" => \E s \in Signer : remote.sig[s] = "signed"

(* No signature without its event in the trail, also when a convergence    *)
(* and the page write the same signer (provider-reconciler.service.ts:     *)
(* 312-332, signing.service.ts:842).                                       *)
SignatureHasEvent ==
  \A s \in Signer : sig[s] \in Finished => <<sig[s], s>> \in trail

(* The signed PDF of a remote envelope keeps the same promise.             *)
Abstract == INSTANCE SignedDocument WITH
  Bytes <- Bytes, NoBytes <- NoBytes, key <- key, stored <- stored
WriteOnce == Abstract!Spec

(* Requirement 24: what the provider has completed we complete, for good   *)
(* and whatever notifications, downloads and processes are lost, with one  *)
(* convergence at a time, unless our envelope ends first: a void reaches   *)
(* our row or the provider, or its date passes before a download is under  *)
(* way.  A document whose recipients are not our signers is never          *)
(* completed; its providerError says so (provider-reconciler.service.ts:   *)
(* 160-211, 273, envelope-sweep.service.ts:39-91).                         *)
CompletionReached ==
  <>[](remote.doc = "completed" =>
         \/ status \in {"completed", "voided", "expired"}
         \/ ~remote.exists
         \/ Mismatch)

(* What provider-reconciler.service.ts:57-58 says: a dropped notification  *)
(* costs timeliness and never correctness; a document completed in time is *)
(* completed here, however late we learn of it.  This does not hold: an    *)
(* envelope that is due counts as terminal, so the sweep skips it and then *)
(* expires it (204-211; see README).                                       *)
CompletedInTime ==
  (remote.doc = "completed" /\ ~due) ~> status = "completed"
=============================================================================
