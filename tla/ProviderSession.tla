--------------------------- MODULE ProviderSession ---------------------------
(***************************************************************************)
(* A draft envelope, and the document that sending it opens at a remote    *)
(* provider.                                                               *)
(*                                                                         *)
(* `send` reads the draft and freezes it in memory, opens the provider's   *)
(* document outside any transaction, and pins it in a transaction that     *)
(* locks the row and looks at its status again; the invitation mail is     *)
(* inside that transaction.  If the transaction fails, `abandonSession`    *)
(* undoes the remote document.  `update` and `remove` look at the status   *)
(* only when they load the row, and write it in a later step.              *)
(*                                                                         *)
(* Several senders, editors and deleters work on the row at once.          *)
(***************************************************************************)
EXTENDS Naturals

CONSTANTS Doc, NoDoc,  \* the provider's documents; providerRef of a draft
          Sender,      \* sends in flight at once (a bound)
          MaxEdits,    \* bound on the edits of the draft
          Ops          \* what else may happen, a subset of OpKind

OpKind == {"edit", "remove", "mailFails", "outage", "lostResponse",
           "scanFails", "unparsed", "crash"}

ASSUME DocAssumption == NoDoc \notin Doc
ASSUME EditAssumption == MaxEdits \in Nat
ASSUME OpsAssumption == Ops \subseteq OpKind

VARIABLES
  status,   \* Envelope.status: draft, sent, or the row is deleted
  content,  \* the title, values and signers of the row, as a version number
  frozen,   \* the version that renderedHtml and documentHash were made of
  ref,      \* Envelope.providerRef
  marker,   \* Envelope.providerError = ORPHANED_SESSION
  sends,    \* how many `sent` events and invitations were committed
  docs,     \* the documents that exist at the provider for this envelope
  made,     \* the version each document was made of
  snd,      \* each send: where it is and what it holds
  editing,  \* an update has passed its status check
  removing, \* a delete has passed its status check
  leaked    \* a send ended where the code records nothing

rows == <<status, content, frozen, ref, marker, sends>>
vars == <<rows, docs, made, snd, editing, removing, leaked>>

Version == 0 .. MaxEdits
SendState == {"idle", "prepared", "opened", "settled", "abandoning",
              "cancelling", "marking"}
Sending(pc, version, adopt, doc) ==
  [pc |-> pc, version |-> version, adopt |-> adopt, doc |-> doc]
IdleSend == Sending("idle", 0, FALSE, NoDoc)

Init ==
  /\ status = "draft" /\ content = 0 /\ frozen = 0
  /\ ref = NoDoc /\ marker = FALSE /\ sends = 0
  /\ docs = {} /\ made = [d \in Doc |-> 0]
  /\ snd = [p \in Sender |-> IdleSend]
  /\ editing = FALSE /\ removing = FALSE /\ leaked = FALSE

Become(p, r) == snd' = [snd EXCEPT ![p] = r]
At(p, label) == snd[p].pc = label
Goto(p, label) ==
  Become(p, Sending(label, snd[p].version, snd[p].adopt, snd[p].doc))

----------------------------------------------------------------------------
(* send, up to the provider's document. *)

(* load, assertDraft, prepareSend: what is sent is what was read here. *)
Prepare(p) ==
  /\ At(p, "idle")
  /\ status = "draft"
  /\ Become(p, Sending("prepared", content, marker, NoDoc))
  /\ UNCHANGED <<rows, docs, made, editing, removing, leaked>>

Opened(p, d) ==
  Become(p, Sending("opened", snd[p].version, snd[p].adopt, d))

(* findOrphan by metadata.envelope_id: any document of this envelope.  The *)
(* search runs first if the marker was read, and after a failed create.    *)
Adopt(p) ==
  /\ At(p, "prepared")
  /\ snd[p].adopt \/ "outage" \in Ops
  /\ \E d \in docs : Opened(p, d)
  /\ UNCHANGED <<rows, docs, made, editing, removing, leaked>>

Fresh(p) ==
  /\ At(p, "prepared")
  /\ snd[p].adopt => docs = {}

Create(p) ==
  /\ Fresh(p)
  /\ \E d \in Doc \ docs :
       /\ d # ref /\ \A q \in Sender : snd[q].doc # d
       /\ docs' = docs \cup {d}
       /\ made' = [made EXCEPT ![d] = snd[p].version]
       /\ Opened(p, d)
  /\ UNCHANGED <<rows, editing, removing, leaked>>

(* The create lands and its response is lost: the client looks for a       *)
(* document of this envelope before it repeats the call, and adopts the    *)
(* first it finds; if the search fails too, the send fails.                *)
CreateUnanswered(p) ==
  /\ "lostResponse" \in Ops
  /\ Fresh(p)
  /\ \E d \in Doc \ docs :
       /\ d # ref /\ \A q \in Sender : snd[q].doc # d
       /\ docs' = docs \cup {d}
       /\ made' = [made EXCEPT ![d] = snd[p].version]
  /\ \/ \E d \in docs' : Opened(p, d) /\ leaked' = (leaked \/ d \in docs)
     \/ "scanFails" \in Ops /\ Become(p, IdleSend) /\ leaked' = TRUE
  /\ UNCHANGED <<rows, editing, removing>>

(* The provider refuses, or the search before a create fails. *)
OpenFails(p) ==
  /\ At(p, "prepared")
  /\ "outage" \in Ops
  /\ Become(p, IdleSend)
  /\ UNCHANGED <<rows, docs, made, editing, removing, leaked>>

(* pollUntilParsed, verifyMaterialized. *)
Settle(p) ==
  /\ At(p, "opened")
  /\ Goto(p, "settled")
  /\ UNCHANGED <<rows, docs, made, editing, removing, leaked>>

(* The document never parses, or lost a field: deleted, quietly. *)
NeverParsed(p) ==
  /\ "unparsed" \in Ops
  /\ At(p, "opened")
  /\ \/ docs' = docs \ {snd[p].doc} /\ UNCHANGED leaked
     \/ "outage" \in Ops /\ docs' = docs /\ leaked' = TRUE
  /\ Become(p, IdleSend)
  /\ UNCHANGED <<rows, made, editing, removing>>

----------------------------------------------------------------------------
(* send: the transaction, and what undoes the document when it fails. *)

(* Mutant of StillDraft: the status is not read again under the lock. *)
NotRechecked == status # "deleted"

StillDraft == status = "draft"

Pin(p) ==
  /\ At(p, "settled") /\ StillDraft
  /\ status' = "sent"
  /\ frozen' = snd[p].version
  /\ ref' = snd[p].doc
  /\ marker' = FALSE
  /\ sends' = sends + 1
  /\ Become(p, IdleSend)
  /\ UNCHANGED <<content, docs, made, editing, removing, leaked>>

(* The envelope is not a draft any more, or the mail transport refuses.    *)
PinFails(p) ==
  /\ At(p, "settled")
  /\ ~StillDraft \/ "mailFails" \in Ops
  /\ Goto(p, "abandoning")
  /\ UNCHANGED <<rows, docs, made, editing, removing, leaked>>

(* The one document that must not be deleted. *)
PinnedByTheWinner(d) == status = "sent" /\ ref = d

AbandonCheck(p) ==
  /\ At(p, "abandoning")
  /\ IF PinnedByTheWinner(snd[p].doc)
     THEN Become(p, IdleSend) ELSE Goto(p, "cancelling")
  /\ UNCHANGED <<rows, docs, made, editing, removing, leaked>>

Cancel(p) ==
  /\ At(p, "cancelling")
  /\ \/ docs' = docs \ {snd[p].doc} /\ Become(p, IdleSend)
     \/ /\ "outage" \in Ops /\ snd[p].doc \in docs
        /\ docs' = docs /\ Goto(p, "marking")
  /\ UNCHANGED <<rows, made, editing, removing, leaked>>

(* Mutant of Mark: the leftover is only logged. *)
LogOnly(p) ==
  /\ At(p, "marking")
  /\ Become(p, IdleSend)
  /\ UNCHANGED <<rows, docs, made, editing, removing, leaked>>

(* updateMany WHERE status = draft. *)
Mark(p) ==
  /\ At(p, "marking")
  /\ marker' = (marker \/ status = "draft")
  /\ Become(p, IdleSend)
  /\ UNCHANGED <<status, content, frozen, ref, sends, docs, made, editing, removing, leaked>>

CrashSend(p) ==
  /\ "crash" \in Ops
  /\ ~At(p, "idle")
  /\ Become(p, IdleSend)
  /\ leaked' = TRUE
  /\ UNCHANGED <<rows, docs, made, editing, removing>>

----------------------------------------------------------------------------
(* update and remove: the status is checked when the row is loaded only. *)

UpdateLoad ==
  /\ "edit" \in Ops /\ ~editing /\ content < MaxEdits
  /\ status = "draft"
  /\ editing' = TRUE
  /\ UNCHANGED <<rows, docs, made, snd, removing, leaked>>

UpdateWrite ==
  /\ editing
  /\ editing' = FALSE
  /\ content' = IF status = "deleted" THEN content ELSE content + 1
  /\ UNCHANGED <<status, frozen, ref, marker, sends, docs, made, snd, removing, leaked>>

RemoveLoad ==
  /\ "remove" \in Ops /\ ~removing
  /\ status = "draft"
  /\ removing' = TRUE
  /\ UNCHANGED <<rows, docs, made, snd, editing, leaked>>

RemoveWrite ==
  /\ removing
  /\ removing' = FALSE
  /\ status' = "deleted"
  /\ UNCHANGED <<content, frozen, ref, marker, sends, docs, made, snd, editing, leaked>>

SendStep(p) ==
  \/ Prepare(p) \/ Adopt(p) \/ Create(p) \/ CreateUnanswered(p)
  \/ OpenFails(p) \/ Settle(p) \/ NeverParsed(p)
  \/ Pin(p) \/ PinFails(p) \/ AbandonCheck(p) \/ Cancel(p) \/ Mark(p)

RowStep == UpdateLoad \/ UpdateWrite \/ RemoveLoad \/ RemoveWrite

Next ==
  \/ \E p \in Sender : SendStep(p) \/ CrashSend(p)
  \/ RowStep

Spec == Init /\ [][Next]_vars

----------------------------------------------------------------------------
(* Every variable has its type, and a send holds a document from the       *)
(* moment it opened one.                                                   *)
TypeOK ==
  /\ status \in {"draft", "sent", "deleted"}
  /\ content \in Version /\ frozen \in Version
  /\ ref \in Doc \cup {NoDoc} /\ marker \in BOOLEAN /\ sends \in Nat
  /\ docs \subseteq Doc /\ made \in [Doc -> Version]
  /\ snd \in [Sender ->
       [pc : SendState, version : Version, adopt : BOOLEAN, doc : Doc \cup {NoDoc}]]
  /\ \A p \in Sender : snd[p].pc \notin {"idle", "prepared"} <=> snd[p].doc # NoDoc
  /\ editing \in BOOLEAN /\ removing \in BOOLEAN /\ leaked \in BOOLEAN

(* Requirement 12: however many sends race, one invites, and the envelope  *)
(* names a document exactly when it was sent (envelopes.service.ts:867-882)*)
OneWinner ==
  /\ sends <= 1
  /\ status = "draft" => sends = 0
  /\ status = "sent" => sends = 1
  /\ (ref # NoDoc) <=> sends = 1

(* Invariant 7: what a send pinned and froze never changes afterwards      *)
(* (envelopes.service.ts:907-931).                                         *)
PinnedForever ==
  [][(sends > 0) => (ref' = ref /\ frozen' = frozen)]_vars

(* While the envelope is a draft, a document left at the provider is held  *)
(* by a send in progress or announced to the next one by the marker        *)
(* (envelopes.service.ts:1017-1064).                                       *)
DraftLeftoverRecorded ==
  status = "draft" /\ ~leaked /\ ~marker =>
    \A d \in docs : \E p \in Sender : snd[p].doc = d

(* What the parties sign is what the envelope froze.  This does not hold:   *)
(* a send adopts what an earlier one left, made before an edit of the draft *)
(* (signwell-signing-provider.ts:335-360; see README).                      *)
SignedIsFrozen == status = "sent" => made[ref] = frozen
=============================================================================
