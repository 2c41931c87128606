-------------------------- MODULE EnvelopeSigning --------------------------
(***************************************************************************)
(* One envelope from the moment it is sent until it reaches a terminal     *)
(* status, under the internal provider.                                    *)
(*                                                                         *)
(* Every HTTP handler and the sweep run against Postgres at READ           *)
(* COMMITTED.  A handler first reads rows outside any transaction (the     *)
(* gate `resolve` or `load`), then opens a transaction.  `sign` and        *)
(* `decline` lock only their own SigningToken row; `resend` and the        *)
(* reminder lock nothing before they write.  A request is therefore a      *)
(* process with a program counter and what it has read:                    *)
(*                                                                         *)
(*   "idle" -> "resolved" (gate passed, nothing locked)                    *)
(*          -> "locked"   (token row held, rows read and checked)          *)
(*          -> "marked"   (the rows its updateMany will invalidate chosen) *)
(*          -> "idle"     (committed, or refused, rolled back, crashed)    *)
(*                                                                         *)
(* A commit is one step: every row it writes stays locked until then, so   *)
(* two commits never interleave.  `voidEnvelope` and the expiry sweep lock *)
(* and re-check the Envelope row before they write, so each is one step.   *)
(***************************************************************************)
EXTENDS Naturals

CONSTANTS Token,       \* the SigningToken rows that can ever be created
          NoToken,     \* what a request that presents no token holds
          Request,     \* the requests in flight at once (a bound)
          Ops,         \* the operations this run admits, a subset of OpKind
          MaxReminded  \* bound on `reminded` events written by requestNewLink

OpKind == {"sign", "decline", "view", "resend", "remind", "newLink",
           "void", "expire"}

ASSUME TokenAssumption == NoToken \notin Token
ASSUME OpsAssumption == Ops \subseteq OpKind
ASSUME BoundAssumption == MaxReminded \in Nat

(* A template defines exactly two signer roles, with orders 1 and 2. *)
Signer == {1, 2}
NoSigner == 0

TerminalStatus == {"completed", "declined", "voided", "expired"}
EnvelopeStatus == {"sent", "partially_signed"} \cup TerminalStatus
SignerStatus == {"pending", "notified", "viewed", "signed", "declined"}

SignerEvents == {"viewed", "signed", "declined", "reminded"}
EnvelopeEvents == {"completed", "voided", "expired"}
EventKey == (SignerEvents \X Signer) \cup (EnvelopeEvents \X {NoSigner})

VARIABLES
  status,    \* Envelope.status as stored
  due,       \* Envelope.expiresAt < now
  sStatus,   \* EnvelopeSigner.status of each signer
  captured,  \* the signers whose signature and signedAt are stored
  owner,     \* SigningToken.envelopeSignerId, NoSigner if not created
  invalid,   \* the tokens with isInvalidated
  used,      \* the tokens with usedAt set
  trail,     \* how many EnvelopeEvents of each type each signer has
  pc, op,    \* where each request is, and which handler it runs
  tok, who,  \* the token it presents and the signer it is about
  seen,      \* the signer status a resend read before its transaction
  next,      \* the next signer as `sign` read it under the token lock
  victims    \* the tokens its updateMany matched

rows == <<status, due, sStatus, captured, owner, invalid, used, trail>>
locals == <<pc, op, tok, who, seen, next, victims>>
vars == <<rows, locals>>

----------------------------------------------------------------------------
(* Reading the rows. *)

EffectiveStatus ==
  IF status \in TerminalStatus \/ ~due THEN status ELSE "expired"

Live == EffectiveStatus \notin TerminalStatus

Open(s) == sStatus[s] \notin {"signed", "declined"}

(* The lowest-ordered signer who has neither signed nor declined. *)
IsCurrent(s) == Open(s) /\ \A r \in Signer : r < s => ~Open(r)

Minted(t) == owner[t] # NoSigner

(* `resolve` answers ready_to_sign.  It does not look at usedAt. *)
Ready(t) == Minted(t) /\ Live /\ t \notin invalid /\ IsCurrent(owner[t])

Outstanding == {t \in Token : Minted(t) /\ t \notin invalid /\ t \notin used}

(* The token row is held FOR UPDATE by a signing or declining request. *)
HoldsToken(q, t) ==
  /\ op[q] \in {"sign", "decline"}
  /\ pc[q] \in {"locked", "marked"}
  /\ tok[q] = t

(* Mutant of TokenFree: no row lock. *)
NoRowLock(p, t) == TRUE

TokenFree(p, t) == \A q \in Request \ {p} : ~HoldsToken(q, t)

(* A decline has written its signer row and not committed yet. *)
SignerRowFree(p, s) ==
  \A q \in Request \ {p} :
    ~(op[q] = "decline" /\ pc[q] = "marked" /\ who[q] = s)

(* The lowest order in a set of signers. *)
First(S) == IF S = {} THEN NoSigner ELSE CHOOSE s \in S : \A r \in S : s <= r

----------------------------------------------------------------------------
(* Writing the rows. *)

Record(keys) ==
  trail' = [k \in EventKey |-> IF k \in keys THEN trail[k] + 1 ELSE trail[k]]

Mint(t, s) ==
  /\ ~Minted(t)
  /\ owner' = [owner EXCEPT ![t] = s]

Goto(p, label) == pc' = [pc EXCEPT ![p] = label]

(* The end of a request, however it ends: what it had read is forgotten. *)
Finish(p) ==
  /\ pc' = [pc EXCEPT ![p] = "idle"]
  /\ op' = [op EXCEPT ![p] = "none"]
  /\ tok' = [tok EXCEPT ![p] = NoToken]
  /\ who' = [who EXCEPT ![p] = NoSigner]
  /\ seen' = [seen EXCEPT ![p] = "pending"]
  /\ next' = [next EXCEPT ![p] = NoSigner]
  /\ victims' = [victims EXCEPT ![p] = {}]

(* Past its gate, outside any transaction. *)
Start(p, kind, t, s) ==
  /\ kind \in Ops
  /\ pc[p] = "idle"
  /\ pc' = [pc EXCEPT ![p] = "resolved"]
  /\ op' = [op EXCEPT ![p] = kind]
  /\ tok' = [tok EXCEPT ![p] = t]
  /\ who' = [who EXCEPT ![p] = s]
  /\ UNCHANGED <<rows, next, victims>>

----------------------------------------------------------------------------
(* The state `send` commits: the first signer holds the only link. *)

Init ==
  /\ status = "sent"
  /\ due = FALSE
  /\ sStatus = [s \in Signer |-> IF s = 1 THEN "notified" ELSE "pending"]
  /\ captured = {}
  /\ \E t \in Token : owner = [u \in Token |-> IF u = t THEN 1 ELSE NoSigner]
  /\ invalid = {}
  /\ used = {}
  /\ trail = [k \in EventKey |-> 0]
  /\ pc = [p \in Request |-> "idle"]
  /\ op = [p \in Request |-> "none"]
  /\ tok = [p \in Request |-> NoToken]
  /\ who = [p \in Request |-> NoSigner]
  /\ seen = [p \in Request |-> "pending"]
  /\ next = [p \in Request |-> NoSigner]
  /\ victims = [p \in Request |-> {}]

----------------------------------------------------------------------------
(* Signing and declining: POST /api/sign/{token}/sign and /decline. *)

SignResolve(p, t) ==
  /\ Ready(t)
  /\ Start(p, "sign", t, owner[t])
  /\ UNCHANGED seen

(* The token row locked, the rows re-read under it. *)
TakeLock(p, remaining) ==
  /\ pc[p] = "resolved" /\ op[p] = "sign"
  /\ TokenFree(p, tok[p])
  /\ Live
  /\ next' = [next EXCEPT ![p] = First(remaining)]
  /\ Goto(p, "locked")
  /\ UNCHANGED <<rows, op, tok, who, seen, victims>>

OthersToSign(s) == {r \in Signer \ {s} : Open(r)}

(* Mutants of SignLock: the remaining signers looked for on the wrong side; *)
(* the turn checked by the gate only.                                       *)
SignLockBackwards(p) ==
  TakeLock(p, {r \in OthersToSign(who[p]) : r < who[p]}) /\ IsCurrent(who[p])
SignLockStaleTurn(p) == TakeLock(p, OthersToSign(who[p]))

(* Signer, status and turn are checked again under the lock, the token's    *)
(* own isInvalidated is not.  Any other answer is a refusal.                *)
SignLock(p) == TakeLock(p, OthersToSign(who[p])) /\ IsCurrent(who[p])

(* Mutant of Capture: the signature stored without spending the token. *)
CaptureUnspent(p) ==
  /\ pc[p] = "locked" /\ op[p] = "sign"
  /\ SignerRowFree(p, who[p])
  /\ captured' = captured \cup {who[p]}
  /\ UNCHANGED used
  /\ Finish(p)

(* What every signature writes. *)
Capture(p) ==
  /\ pc[p] = "locked" /\ op[p] = "sign"
  /\ SignerRowFree(p, who[p])
  /\ captured' = captured \cup {who[p]}
  /\ used' = used \cup {tok[p]}
  /\ Finish(p)

(* Somebody is left to sign: their link comes into existence now. *)
SignHandOver(p, t) ==
  /\ next[p] # NoSigner
  /\ SignerRowFree(p, next[p])
  /\ Capture(p)
  /\ Mint(t, next[p])
  /\ sStatus' = [sStatus EXCEPT ![who[p]] = "signed", ![next[p]] = "notified"]
  /\ status' = "partially_signed"
  /\ Record({<<"signed", who[p]>>})
  /\ UNCHANGED <<due, invalid>>

(* Mutant of SignComplete: the envelope's own status forgotten. *)
SignCompleteSilently(p) ==
  /\ next[p] = NoSigner
  /\ Capture(p)
  /\ sStatus' = [sStatus EXCEPT ![who[p]] = "signed"]
  /\ Record({<<"signed", who[p]>>, <<"completed", NoSigner>>})
  /\ UNCHANGED <<status, due, owner, invalid>>

(* Nobody is left: the envelope completes and its render job is enqueued, *)
(* one job for each `completed` event.                                    *)
SignComplete(p) ==
  /\ next[p] = NoSigner
  /\ Capture(p)
  /\ sStatus' = [sStatus EXCEPT ![who[p]] = "signed"]
  /\ status' = "completed"
  /\ Record({<<"signed", who[p]>>, <<"completed", NoSigner>>})
  /\ UNCHANGED <<due, owner, invalid>>

DeclineResolve(p, t) ==
  /\ Ready(t)
  /\ Start(p, "decline", t, owner[t])
  /\ UNCHANGED seen

(* The token row locked and the envelope re-read; neither the signer's *)
(* status nor the turn is checked again.                               *)
DeclineLock(p) ==
  /\ pc[p] = "resolved" /\ op[p] = "decline"
  /\ TokenFree(p, tok[p])
  /\ Live
  /\ Goto(p, "locked")
  /\ UNCHANGED <<rows, op, tok, who, seen, next, victims>>

(* The signer row written, and the tokens to invalidate matched by the *)
(* updateMany statement, which then waits for their locks.             *)
DeclineMark(p) ==
  /\ pc[p] = "locked" /\ op[p] = "decline"
  /\ SignerRowFree(p, who[p])
  /\ victims' = [victims EXCEPT ![p] = {t \in Token : Minted(t)} \ invalid]
  /\ Goto(p, "marked")
  /\ UNCHANGED <<rows, op, tok, who, seen, next>>

DeclineCommit(p) ==
  /\ pc[p] = "marked" /\ op[p] = "decline"
  /\ \A t \in victims[p] : TokenFree(p, t)
  /\ sStatus' = [sStatus EXCEPT ![who[p]] = "declined"]
  /\ invalid' = invalid \cup victims[p]
  /\ status' = "declined"
  /\ Record({<<"declined", who[p]>>})
  /\ Finish(p)
  /\ UNCHANGED <<due, captured, owner, used>>

----------------------------------------------------------------------------
(* Opening the link: the page load and POST /api/sign/{token}/viewed. *)

ViewResolve(p, t) ==
  /\ Ready(t)
  /\ trail[<<"viewed", owner[t]>>] = 0
  /\ Start(p, "view", t, owner[t])
  /\ UNCHANGED seen

(* The transaction reads nothing: it writes `viewed` whatever is there. *)
ViewCommit(p) ==
  /\ pc[p] = "resolved" /\ op[p] = "view"
  /\ SignerRowFree(p, who[p])
  /\ sStatus' = [sStatus EXCEPT ![who[p]] = "viewed"]
  /\ Record({<<"viewed", who[p]>>})
  /\ Finish(p)
  /\ UNCHANGED <<status, due, captured, owner, invalid, used>>

(* The expiry page asks for a new link: an event, and nothing else. *)
RequestNewLink(t) ==
  /\ "newLink" \in Ops
  /\ Minted(t)
  /\ trail[<<"reminded", owner[t]>>] < MaxReminded
  /\ Record({<<"reminded", owner[t]>>})
  /\ UNCHANGED <<status, due, sStatus, captured, owner, invalid, used, locals>>

----------------------------------------------------------------------------
(* Replacing a link: the sender's resend and the sweep's reminder. *)

(* Mutant of ResendLoad: a link for any signer, not just the current one. *)
ResendToAnyone(p, s) ==
  /\ Live
  /\ Start(p, "resend", NoToken, s)
  /\ seen' = [seen EXCEPT ![p] = sStatus[s]]

ResendLoad(p, s) ==
  /\ Live
  /\ IsCurrent(s)
  /\ Start(p, "resend", NoToken, s)
  /\ seen' = [seen EXCEPT ![p] = sStatus[s]]

RemindLoad(p, s) ==
  /\ Live
  /\ IsCurrent(s)
  /\ sStatus[s] # "pending"
  /\ trail[<<"reminded", s>>] = 0
  /\ Start(p, "remind", NoToken, s)
  /\ UNCHANGED seen

(* The updateMany of the transaction matches the signer's usable tokens. *)
ReissueMark(p) ==
  /\ pc[p] = "resolved" /\ op[p] \in {"resend", "remind"}
  /\ victims' = [victims EXCEPT ![p] = {t \in Outstanding : owner[t] = who[p]}]
  /\ Goto(p, "marked")
  /\ UNCHANGED <<rows, op, tok, who, seen, next>>

(* Once their locks are free it invalidates those still unused, and the *)
(* transaction goes on to create the new link and commit.               *)
Reissue(p, t) ==
  /\ pc[p] = "marked"
  /\ \A u \in victims[p] : TokenFree(p, u)
  /\ invalid' = invalid \cup (victims[p] \ used)
  /\ Mint(t, who[p])
  /\ Record({<<"reminded", who[p]>>})
  /\ Finish(p)
  /\ UNCHANGED <<status, due, captured, used>>

(* A resend also writes back the status it read before the transaction. *)
ResendCommit(p, t) ==
  /\ op[p] = "resend"
  /\ Reissue(p, t)
  /\ SignerRowFree(p, who[p])
  /\ sStatus' = [sStatus EXCEPT ![who[p]] =
                   IF seen[p] = "pending" THEN "notified" ELSE seen[p]]

RemindCommit(p, t) ==
  /\ op[p] = "remind"
  /\ Reissue(p, t)
  /\ UNCHANGED sStatus

----------------------------------------------------------------------------
(* Ending the envelope: the sender's void and the expiry sweep. *)

(* Both hold the Envelope row, re-check it, and wait for the tokens. *)
Close(final) ==
  /\ \A t \in Outstanding, q \in Request : ~HoldsToken(q, t)
  /\ status' = final
  /\ invalid' = invalid \cup Outstanding
  /\ Record({<<final, NoSigner>>})
  /\ UNCHANGED <<due, sStatus, captured, owner, used, locals>>

(* Mutant of VoidEnvelope: the status checked before the transaction and *)
(* not again inside it.                                                  *)
VoidUnchecked == "void" \in Ops /\ Close("voided")

VoidEnvelope ==
  /\ "void" \in Ops
  /\ Live
  /\ Close("voided")

(* Mutant of MaterializeExpired: only `sent` envelopes are due. *)
MaterializeSentOnly ==
  "expire" \in Ops /\ due /\ status = "sent" /\ Close("expired")

MaterializeExpired ==
  /\ "expire" \in Ops
  /\ due
  /\ status \notin TerminalStatus
  /\ Close("expired")

(* The clock passes expiresAt. *)
Tick ==
  /\ "expire" \in Ops
  /\ ~due
  /\ due' = TRUE
  /\ UNCHANGED <<status, sStatus, captured, owner, invalid, used, trail, locals>>

(* A refusal, a rollback (mail rejected, deadlock victim, transaction *)
(* timeout) or a crash: nothing the request wrote survives.           *)
Abandon(p) ==
  /\ pc[p] # "idle"
  /\ Finish(p)
  /\ UNCHANGED rows

----------------------------------------------------------------------------
Resolve(p) ==
  \/ \E t \in Token : SignResolve(p, t) \/ DeclineResolve(p, t) \/ ViewResolve(p, t)
  \/ \E s \in Signer : ResendLoad(p, s) \/ RemindLoad(p, s)

Advance(p) ==
  \/ SignLock(p)
  \/ DeclineLock(p)
  \/ DeclineMark(p)
  \/ ReissueMark(p)

Commit(p) ==
  \/ SignComplete(p)
  \/ DeclineCommit(p)
  \/ ViewCommit(p)
  \/ \E t \in Token : SignHandOver(p, t) \/ ResendCommit(p, t) \/ RemindCommit(p, t)

Next ==
  \/ \E p \in Request : Resolve(p) \/ Advance(p) \/ Commit(p) \/ Abandon(p)
  \/ \E t \in Token : RequestNewLink(t)
  \/ VoidEnvelope
  \/ MaterializeExpired
  \/ Tick

Spec == Init /\ [][Next]_vars

(* A transaction commits or is rolled back within Prisma's timeout, and the *)
(* sweep is scheduled for ever.                                             *)
Fairness ==
  /\ \A p \in Request : WF_vars(Commit(p) \/ Abandon(p))
  /\ WF_vars(MaterializeExpired)

FairSpec == Spec /\ Fairness

----------------------------------------------------------------------------
(* What the stored rows and the requests in flight can hold. *)
RowsOK ==
  /\ status \in EnvelopeStatus
  /\ due \in BOOLEAN
  /\ sStatus \in [Signer -> SignerStatus]
  /\ captured \subseteq Signer
  /\ owner \in [Token -> Signer \cup {NoSigner}]
  /\ invalid \subseteq Token
  /\ used \subseteq Token
  /\ trail \in [EventKey -> Nat]

LocalsOK ==
  /\ pc \in [Request -> {"idle", "resolved", "locked", "marked"}]
  /\ op \in [Request -> OpKind \cup {"none"}]
  /\ tok \in [Request -> Token \cup {NoToken}]
  /\ who \in [Request -> Signer \cup {NoSigner}]
  /\ seen \in [Request -> SignerStatus]
  /\ next \in [Request -> Signer \cup {NoSigner}]
  /\ victims \in [Request -> SUBSET Token]

TypeOK == RowsOK /\ LocalsOK

(* Hold under every interleaving of every operation. *)

(* A completed envelope carries the signature of both parties: whatever      *)
(* `sign` read under the token lock, it never completes a contract that      *)
(* somebody has not signed.                                                  *)
CompletedMeansAllSigned == status = "completed" => captured = Signer

(* A signer's link exists only once everyone before them has signed; neither *)
(* a resend nor a reminder that read stale rows can mint one early.          *)
SequentialLinks ==
  \A t \in Token : Minted(t) => \A r \in Signer : r < owner[t] => r \in captured

(* However requests overwrite each other's rows, an envelope still stored as *)
(* in flight always has a signer whose turn it is: nobody has to act on an   *)
(* envelope on which nobody can.                                             *)
NeverStuck == status \notin TerminalStatus => \E s \in Signer : IsCurrent(s)

(* Once expiresAt has passed, the requests that were in flight drain and the *)
(* sweep leaves a terminal status that nothing overwrites any more.          *)
ExpiredEventuallyFinal == <>[](due => status \in TerminalStatus)

(* Hold as long as nothing replaces a link and nothing writes `viewed`. *)

(* Duplicate submissions of one link record one signature: the token row     *)
(* lock makes the second one see the first.                                  *)
SignedOnce == \A s \in Signer : trail[<<"signed", s>>] <= 1

(* A signer never holds two usable links. *)
OneLink == \A t, u \in Outstanding : owner[t] = owner[u] => t = u

(* A usable link belongs to the signer whose turn it is, in an envelope that *)
(* is in flight: signing spends the link of the one who signed, and whatever *)
(* ends the envelope leaves none, not even one minted in the meantime.       *)
LinkIsForTurn ==
  \A t \in Outstanding : status \notin TerminalStatus /\ IsCurrent(owner[t])

(* A decline past its gate, which checks the envelope but locks one token. *)
Declining == \E p \in Request : op[p] = "decline"

(* completed, declined, voided and expired accept no further transition,     *)
(* unless a decline is under way, which locks nothing the other signer's     *)
(* last signature writes.                                                    *)
TerminalIsFinal ==
  [][(status \in TerminalStatus /\ ~Declining) => (status' = status)]_vars
============================================================================
