# A formal model of Devscribed.Admin

Devscribed.Admin is a NestJS API over Postgres with a React front end: an
organization's members, vacations, time tracking, kanban, hiring, requests and
signed documents. This directory holds TLA+ models of the parts whose
correctness depends on the order in which concurrent requests, background jobs
and remote systems act, the TLC runs that check them, and TLAPS proofs of their
main invariants. Paths are relative to the repository root; `A` stands for
`src/apps/api/src`.

    tlc -workers 2 -config <run>.cfg MC<Module>     # one run
                                                    # (Autosave, Requests: the module itself)
    tlapm <Module>_proofs.tla                       # one proof module

## 1. Inventory

The API process is single-threaded per instance, but every `await` is a
scheduling point, several instances may run, and jobs run inside the API process
(`A/queue/inline-job-queue.ts`; production sets `JOB_QUEUE=inline`,
`infra/terraform/modules/app/api.tf:53`). Everything is kept in Postgres through
Prisma at its default isolation level, READ COMMITTED. A handler typically reads
rows outside any transaction (its *gate*), answers 4xx or goes on, and writes in
a transaction whose statements see whatever was committed by then. What is
correct depends on which rows it locks (`SELECT ... FOR UPDATE`, or the row lock
of an `UPDATE`) and which it reads again.

| Component | State | Operations | What must hold | What is hard |
|---|---|---|---|---|
| Envelope signing, `A/signing/signing.service.ts`, `A/documents/envelopes.service.ts` | Envelope, EnvelopeSigner, SigningToken, EnvelopeEvent | sign, decline, viewed, resend, void, reminder, expiry | nobody is skipped, one signature each, one usable link, ended means ended | sign locks its token only; links replaced while a request holds the old one |
| Event trail, `A/documents/envelope-events.service.ts` | EnvelopeEvent chain | record, verifyChain, audit listing | one chain, tampering located, listed in commit order | two writers of one head; clocks of several hosts |
| Completion, `A/documents/envelope-completion.ts` | signedPdfKey, pdfStatus, storage | render, store, claim, notify, fail, retryPdf | write-once bytes, ready means stored, told once, no silent pending but from the causes named | concurrent renders, retries, crashes, a load or a failure record that throws |
| Provider reconciler, `A/documents/provider-reconciler.service.ts` | the same rows, the remote document | converge, openNextTurn, completeFromProvider, sweep | rows follow the provider, nothing invented, completion reached unless the envelope ends first | stale loads, duplicate webhooks, outages, voids, dates that pass |
| Sending a draft, `envelopes.service.ts`, `A/signature/signwell` | Envelope, remote documents | send, update, remove, abandon | one send wins, the pinned document stays, no leftover forgotten | remote calls between read and lock |
| Templates, `A/documents/document-templates.service.ts` | versions, draft, rowVersion | save, publish, archive | published bodies are validated | validation before the transaction |
| Job queue, webhooks, sweep, storage, mail | in-memory jobs; none; objects | enqueue, notify, sweep, put | a lost completion job is made good by the sweep, a lost render by a retry only | crash loses jobs, duplicates |
| Hiring booking and scheduling, `A/hiring` | applications, calendar events, CV objects | book, reschedule, cancel, replace CV | an event stays until called off, every difference of calendar and rows is accounted for, nothing is orphaned | three stores without a common transaction, nothing locked |
| Hiring board, `A/hiring/board.service.ts` | positions | place | distinct positions | unlocked reads |
| Autosave, `src/packages/validation/src/hiring-autosave.ts` | current and accepted text, countdown, save in flight | type, save, fail, retry, unmount | what is shown as saved is held by the server, the last text is saved, no storm | keystrokes while a save is in flight, lost answers |
| Vacation, accrual, `A/vacation`, `A/accrual` | requests, an append-only ledger whose sum over the year is the reserve, settings with their history | submit, review, cancel, removal of the member, settings, monthly credit | every approval debited once and refunded at most once, the reserve covers what is approved, no overlap | frozen amounts, changing salary, years |
| Time tracking, `A/time-tracking` | running timer, entries | start, stop, edit, discard | at most one timer, no time twice | stop as create plus delete |
| Requests, `A/requests` | requests, their trail, numbers, an outbox of notifications | create, message, answer, grant, decline, cancel, edit, reassign, drain | closed once, by who may; the trail tells the row; the parties of the moment are told | what is decided on is read before it is written; dispatch after commit |
| Kanban, `A/kanban` | columns, tasks | create, move, reorder | numbers and positions distinct | client-sent positions |
| Members, invitations, auth | accounts, memberships, tokens | invite, accept, remove, restore, reset | one live invitation, a last admin | checks before the write |
| Holidays, `A/holidays` | imported holidays | sync | a year is complete | no transaction around the sync |
| Reports, portal, time-off calendar, clients, projects, organizations | none of their own, or one row | reads, CRUD | | |

`PROJECT.json` lists every component with its status, and under `hazards` the
lines where these difficulties bite. A hazard with properties is checked; one
with a note only is not modelled (section 7), or is one that the model reaches
and for which the documented claim does not hold (section 6). Where it has
both, the note says which part of it the properties leave out.

## 2. Modules

| Module | Models | Composed with |
|---|---|---|
| `EnvelopeSigning` | a sent envelope under the internal provider | |
| `EventChain` | the hash chain of one envelope's events | |
| `SignedDocument` | abstract: the signed PDF, a register written once with stored bytes | |
| `FinalDocument` | completion of an internal envelope | implements `SignedDocument` |
| `ProviderConverge` | an envelope and its remote document | implements `SignedDocument` |
| `ProviderSession` | a draft being sent through a remote provider | |
| `VacationLedger` | the vacation reserve of one member: requests, ledger, settings, accrual, removal | |
| `Interview` | abstract: the life of an interview, from its place in the calendar until it is called off | |
| `InterviewBooking` | the interviews with one interviewer: rows, calendar, attachments, stored CVs | implements `Interview` |
| `Autosave` | one text editor with its autosave loop, and the text on the server | |
| `RequestLife` | abstract: what a request promises to its parties | |
| `Requests` | requests with trail, numbers, locks and the outbox | implements `RequestLife` |
| `MC...` | model values and symmetry for TLC | |
| `..._proofs` | theorems | |

### How a request is modelled

A request is a process: a program counter and what it has read. A read outside a
transaction is one step; a `findUnique` with `include` is one read, although
Prisma may issue several statements for it. A transaction that locks what it
reads before it reads it is one step. One that reads or chooses rows before it
owns their lock gets a step for the read and a step for the commit. Commits are
atomic: every row a transaction wrote stays locked until it ends, so a second
writer of the same row waits. `Abandon`, `Crash...` and the like stand for a
refusal, a rollback and a process death alike: nothing uncommitted survives.

`Ops` is not a feature of the code. It names which operations of the environment
a run admits, so that one can say under which of them a property holds.

### EnvelopeSigning

| Code | Action |
|---|---|
| `sign`: gate `resolve`, `lockToken` and re-read, the transaction | `SignResolve`, `SignLock`, `SignHandOver` or `SignComplete` |
| `decline`: the same gate, its two `updateMany` | `DeclineResolve`, `DeclineLock`, `DeclineMark`, `DeclineCommit` |
| `recordViewed`: the count and the write | `ViewResolve`, `ViewCommit` |
| `resend`, the sweep's reminder: load, the tokens matched, the commit | `ResendLoad`, `RemindLoad`, `ReissueMark`, `ResendCommit`, `RemindCommit` |
| the signer's request for a new link | `RequestNewLink` |
| `voidEnvelope`, `materializeExpired` | `VoidEnvelope`, `MaterializeExpired` |

A template defines exactly two signer roles, so there are two signers. Dropped:
field values, consents and their hash (`EventChain`), mail, the token's own
lifetime and the 60 s limit between resends (both only forbid some of the
interleavings the model allows). The event trail is a count per type and signer;
the render job is enqueued once for each `completed` event.

### EventChain

`record` takes the envelope row lock (`LockEnvelope`), reads the last event
(`ReadLast`) and inserts the next one (`Insert`) with the time its caller asks
for, moved one millisecond past the previous event if it is not later; ids are
handed out in no particular order. `Commit` and `Rollback` end the caller's
transaction. `Verifies` is `verifyChain`, over rows in the order of the audit
(`occurredAt`, then `id`). The hash is an injective tuple over the fields the
code hashes: collisions are not considered. A corruption changes or removes a
stored row once. Removing the tail of the trail leaves a valid chain: the code
cannot see it and the model does not claim it.

### FinalDocument and SignedDocument

| Code | Action |
|---|---|
| `run`: load, `completedDocument`, `storage.put`, the claim, `notifyCompletion` | `Load`, `Assemble`, `Put`, `Claim`, `Notify` |
| its catch, and an envelope without a frozen document; `markFailed` | `Throw`, `MarkFailed` |
| the claim commits and its answer is lost | `ClaimUnanswered` |
| what escapes `run`, for `safeDispatch` to log: the load outside the try, `markFailed` in the catch | `LoadThrows`, `MarkFailedThrows` |
| `retryPdf`: load, update (which may throw, with or without effect), enqueue | `RetryLoad`, `RetryWrite`, `RetryThrows`, `RetryEnqueue` |
| the process dies | `CrashJob`, `CrashRetry` |

The history variable `lost` remembers that an outcome went unrecorded: a job or a
retry ended in one of the last three ways, and since then no failure has been
written and no job been dispatched by a retry. A notice that fails is logged and
counts as given. Storage is content addressed, so an object is its bytes.
`SignedDocument` says what the rest of the system may rely on: the row names
nothing, or names stored bytes, and never names anything else afterwards.

### ProviderConverge

The provider is an environment: signers act in order on its document, a turn
opens some time after the one before, the document becomes Completed some time after
the last signature. A refusal shows in the recipient and in the document, in
either order, and somebody may cancel or archive the document there
(`RemoteAct`, `RemoteFinalize`, `RemoteDecline`, `RemoteCancel`). `open` covers
Sent and Created: documents are created with `draft: false`, and for one that is
still Created `applyState` does nothing but what it does when nobody's turn is
new. `Load`, `Fetch`, `Begin`, `Apply` are `converge` and
`applyState`. What applyState counts before its first write it reads unlocked
(`Begin`); its first write takes the row locks, and from then on nobody else can
commit, so the rest is one step (`Apply`). It decides from the rows `Load` read.
`CompLoad` to `CompFails` are `completeFromProvider`, started by a job or by the
sweep. Writing as well: the signer's page, a void, expiry. Webhooks need no
action of their own: all they do is start a convergence, and the model may start
one at any time. `jobs` saturates at `MaxJobs`; links and events are kept as sets,
because the code only asks whether there is one.

### ProviderSession

`send` is prepared from one read, opens or adopts a document at the provider,
waits until it is parsed, and pins it under the row lock; if it fails it
abandons the document, and if that fails it sets a marker that makes the next
send search for it. `update` and `remove` check the status when they load.
`leaked` is a history variable: a send ended at a point where the code has
nowhere to record a leftover (a crash, a lost response followed by a failed
search, a quiet delete that failed).

### VacationLedger

| Code | Action |
|---|---|
| `submit`, `review`, `cancel` | `Submit`, `Approve` or `Reject`, `Cancel` |
| `MembersService.remove` with `cancelActiveForRemoval`, `restore` | `Remove`, `Restore` |
| `updateFinancials`, `runAccrual` | `UpdateFinancials`, `RunAccrual` |
| the end of a transaction | `Commit`, `Rollback` |

Each operation locks the Organization row before it reads, so reading and
deciding is one step (`Decide`, with the decision kept in `tx`) and writing is
another; only the lock keeps other transactions from running in between, and the
mutant that drops it breaks `NoOverlap`. `restore` takes no lock and does run in
between. The state is one member's: the loop of `runAccrual` over the members of
the organization is its body for that member. The ledger is a bag, because two
rows may be equal; the reserve is the sum over the rows created in the current
year (`Reserve`), as in `sumCurrentYear`, not a field. Money is an integer number
of cents: the code computes with floating-point numbers and rounds to cents, and
`Round` is that rounding without the floating-point error. The calendar is any
division of days into months and years that follow each other, with any weekends
(`CalendarAssumption`); a transaction does not span midnight.
Roles and the ban on approving one's own request only refuse an operation, and
are left out: somebody may always do it. `expiry` rows, which the schema allows,
are written nowhere.

### Interview and InterviewBooking

| Code | Action |
|---|---|
| `book`: gate, slot check | `BookLoad`, `BookCheck`, `Refuse` |
| put, `createEvent` and its `attach`, `writeBooking` | `BookStore`, `BookCreate`, `BookAttach`, `BookWrite` |
| `compensate`, and the adapter's own undoing of an event without attachment | `BookCancel`, `BookUnstore` |
| `reschedule`: load, `isFreeExcept`, `holdsExactly`, `updateEvent`, the transaction | `Load`, `MoveCheck`, `MoveBlocked`, `MoveEvent`, `MoveWrite` |
| `cancel`: load, `cancelEvent`, the transaction | `Load`, `CancelEvent`, `CancelWrite` |
| `CvReplacementService.replace` with `replaceAttachment` | `Load`, `CvPut`, `CvList`, `CvAttach`, `CvDetach`, `CvWrite`, `CvUnput` |
| the process dies | `Crash` |

Each call to the calendar or the storage may succeed, fail without effect, or
take effect and lose its answer. No lock is held between steps and no row is
read again, as in the code. A free/busy answer is a set of intervals without
identifiers (`Busy`), so that excluding one's own event means excluding its
interval, as `excludeOwnBooking` does. Two history variables keep score of what
cannot be kept in step: `excused`, the applications that a request changed on
knowledge that had become stale, or whose second half failed (the code logs the
latter), and `stray`, what a failed undoing or a crash left behind.

Left out: the vacancy's gate and the duplicate check, which only refuse; the
window of slots on offer; a vacancy deleted while a booking is under way, so that
the writing of the booking fails only as any other transaction may; meetings made outside the product (the calendar holds
interviews only); the end of an interview, so that all times are in the future;
the schedule log, the e-mail wording and the answer of a database commit that
is lost (`book` would then undo the event and the CV of a booking that exists).

### Autosave

| Code | Action |
|---|---|
| `change`; the hook's `run` with `flush` or `retry` | `change`, `flush` |
| the countdown and `writeQuietly` | `TimerFires` |
| `write`: its guards, the call, its success with the write that follows, its failure | `write` with `Send`, `SaveSucceeds`, `SaveFails` |
| unmount: `cancel` | `cancel` |

`reset` is called once, when the hook creates the loop, and gives `Init`. A text
is the number of the keystroke that produced it; `back` allows typing back to
any earlier one. The server is one register, written when a save takes effect.
What the screen announces, and `explicit`, are left out.

### RequestLife and Requests

| Code | Action |
|---|---|
| `createRequest`: the lock on Organization, the rest of the transaction | `BeginCreate`, `CommitCreate` |
| `lockRequest` of every other call | `Begin` |
| 403, 404, 409, or a transaction that fails | `Abandon` |
| `transition` (answer, grant, decline, cancel) with its guard | `CommitTransition`, `Allowed` |
| `reassignRequest`; `postMessage`, `patchRequest` | `CommitReassign`; `CommitOther` |
| `events.record`, `notifications.record`, in the same transaction | `Record` |
| `dispatch`, `drain`: mark, deliver, mark the outcome, the catch | `Attempt`, `Deliver`, `MarkOutcome`, `MarkFailed`; `GiveUp` where it throws |

Reading under the lock and writing are two steps, so that only the lock keeps two
calls apart; the mutants that read without it break `KeepsToLife` and
`NumbersDense`. A member may be a party, an overseer (`view-all-requests`) or an
admin; a client contact acts only on what is addressed to him. Left out: viewers
and removed members, who are refused before; topics, projects and the validation
of fields, of which the rest does not depend; the values of edited fields; the
listing and the feed of vacation requests. The trail is a sequence and an outbox
row names a position of it: the rows' timestamps are not modelled. `attempted`
stands for `attempts > 0`: no code calls `drain` again for a row, so the bound on
attempts is never reached.

## 3. Runs

| Run | Bounds | Shows |
|---|---|---|
| `signing_all` | 2 requests, 3 tokens, every operation | A completed envelope has both signatures; the second signer has a link only after the first signed; somebody can always act on a live envelope |
| `signing_links` | 3 requests, 3 tokens, no resend, reminder or page view | One signature each, one usable link and only for whose turn it is, none after the end; terminal statuses are final unless a decline is under way; an overdue envelope ends for good |
| `event_chain` | 2 writers, 4 events, 1 corruption | Honest trails verify; a corrupted row is reported where it is; the audit is in commit order |
| `final_document` | 3 jobs, 2 retries, 2 results, crashes | Write-once, told once; a PDF is silently pending only if its load, its failure record, a retry's update or a process was lost, and every other render settles |
| `converge_race` | 2 convergences, 1 completion, page, void, decline, a document canceled or with other recipients | No signature, refusal or completion that the provider does not hold, and none without its event |
| `converge_reached` | 1 convergence, 2 completions, 2 results, outages, crashes, void, expiry, a document with other recipients | Write-once, and what the provider completed becomes and stays completed, unless it is voided or expires first |
| `session_all` | 2 sends, 3 documents, 1 edit, every failure | A pinned document stays pinned, leftovers of a draft are recorded |
| `vacation_all` | 2 requests, 2 transactions, 5 days in 2 years, 5 date pairs, 2 settings saved at most twice | The ledger tells the story of every request, no overlap, no leave ahead of a removed member; the reserve and what is held stay within bounds; a month that is over has one price |
| `interview_all` | 1 booked interview, 1 booking, 2 other requests, 4 times of which neighbours overlap, every failure | Two interviews at one time, or a row that differs from the calendar, are explained by a failure that was told or logged or by requests that crossed; no booked interview without a CV; nothing orphaned but what a failed undoing left; each interview keeps to its abstract life |
| `autosave_all` | 6 keystrokes and presses of Save, failures, lost answers, typing back, unmount | What is shown as saved is held by the server; no more saves than moves; waiting text has something to wait for, and is saved or said to have failed |
| `requests_all` | 1 open request, 2 calls, 3 people, every failure | Trail and row agree; the parties of the moment are told, and nobody else; numbers are dense; a request keeps to its abstract life; every notification gets its turn, unless one before it cannot be marked or the process dies |
| `finding_terminal` | smallest | section 6 |

Why the bounds are enough. The races are between the holder of stale data and
one writer; two processes of each kind show them, and a third one
(`signing_links`, `final_document`) is added where the state space allows.
Three tokens let one signer have two and the other one. Three remote documents
let two sends hold one each beside an orphan. An expiry ends the envelope's row as a void does, so `converge_race` has the
void only; a canceled document is never completed, so `converge_reached` has none. Two possible results of a render
are enough to tell which one was kept. Dispatched jobs saturate at 2 in
`converge_race`, and at 1 in `converge_reached`, where a second completion starts from a
second dispatch or from the sweep. For vacations, two requests give
every overlap, every race for one request and for the money of two; a third
settings save adds no new relation between a frozen price and today's. A year has
a single accrual month there (two years, three and two days), settings may change
within it, and the salaries are chosen so that the day rate is rounded down while
the deduction of two days is rounded up. For interviews, four times of which
neighbours overlap give a slot that is taken exactly, one that is taken in part and one
that is free; two requests beside a booking give every pair of a move, a cancellation, a CV and a
booking, and a loser of each. Six moves of the member admit a failure, a queued
save and typing back in one behaviour. Two calls suffice for requests because a
call ends with its lock: a third can only meet what the second left. Every run ends in states from which
nothing is left to do (an ended envelope, jobs that all ran), hence
`CHECK_DEADLOCK FALSE` there. Symmetry is used in runs without liveness only.

## 4. Fairness

- `EnvelopeSigning`: a request that has started commits or is abandoned (Prisma
  bounds every transaction with a timeout), and the sweep, run every hour,
  materializes expiry. Nobody is obliged to start a request.
- `FinalDocument`: the event loop takes every job and every accepted retry to
  its end, which may be an exception that is only logged, unless the process dies;
  nobody is obliged to retry.
- `Autosave`: a countdown that was set fires, and a call to the server ends, in
  success or failure. The member owes nothing.
- `Requests`: a call that is under way goes on (a transaction is bounded by a
  timeout, the event loop takes the dispatch to its end unless the process dies).
- `ProviderConverge`: the hourly sweep converges live envelopes and retries
  downloads for ever, and materializes expiry (weak fairness of `Load` and of
  `MaterializeExpired`); strong fairness of the other steps says that an outage or a crash does not
  strike every single attempt. Neither signers nor the provider are obliged to
  anything.

## 5. Proofs

What TLAPS proves, for any set of tokens, requests, jobs, workers, documents,
writers, calendars, settings, applications, people and calls, and any number of
keystrokes:

| Module | Theorem | States |
|---|---|---|
| `EnvelopeSigning_proofs` | `CompletedSigned`, `LinksSequential`, `SomebodyCanAct` | `CompletedMeansAllSigned`, `SequentialLinks`, `NeverStuck` |
| the same, for `Plain` | `OneSignatureEach`, `OneLinkEach`, `LinksForTurn`, `EndIsFinal` | `SignedOnce`, `OneLink`, `LinkIsForTurn`, `TerminalIsFinal` |
| `Evidence_proofs`, of `EventChain` | `HonestChainVerifies`, `AuditInOrder`, `TamperingIsLocated` | `ChainVerifies`, `AuditOrderIsCommitOrder`, `TamperLocated` |
| the same, of `FinalDocument` | `OfferedIsStored`, `NoSilentPending`, `ToldOnce`, `ImplementsSignedDocument` | `ReadyMeansStored`, `PendingIsBeingWorkedOn`, `NotifiedOnce`, `WriteOnce` (refinement of `SignedDocument`) |
| `ProviderConverge_proofs` | `InventsNothing`, `SignaturesHaveEvents`, `ImplementsSignedDocument` | `NothingInvented`, `SignatureHasEvent`, `WriteOnce` (refinement of `SignedDocument`) |
| `ProviderSession_proofs` | `OneSendWins`, `PinnedStays`, `LeftoverRecorded` | `OneWinner`, `PinnedForever`, `DraftLeftoverRecorded` |
| `VacationLedger_proofs` | `Balanced`, `LeaveDisjoint`, `RemovedLeaveNothing`, `SettledMonths` | `LedgerBalanced`, `NoOverlap`, `RemovedHasNoLeave`, `MonthSettled` |
| the same, by sums | `NoYearOverdrawn`, `AllHoldsCovered` | `NeverOverdrawn`, `HoldsCovered` |
| `InterviewBooking_proofs` | `Explained`, `AlwaysACv`, `NothingOrphaned`, `Implements` | `CalendarExplained`, `NeverWithoutCv`, `NoOrphan`, `KeepsItsEvent` (refinement of `Interview`) |
| `Autosave_proofs` | `Truthful`, `NoStorm`, `NothingForgotten` | `SavedMeansHeld`, `OneSaveToAMove`, `PendingIsDue` |
| `Requests_proofs` | `NumbersInOrder`, `ToldIsRecorded`, `Implements` | `NumbersDense`, `GivenIsRecorded`, `KeepsToLife` (refinement of `RequestLife`) |
| the same, by induction over a history | `HistoryIsTrue`, `PartiesAreTold` | `HistoryTells`, `PartiesTold` |

So every invariant, action property and refinement that a passing run checks is
proved for every value of the constants (four of them under `Plain`, see below). Each of these modules also proves
`TypeCorrect` (`ChainTypeCorrect` for `EventChain`), that every variable has its
type; no run repeats it, nor `ReadyMeansStored`, `OneWinner` and
`GivenIsRecorded`, which the theorems establish for every instance.

Assumptions: the named ones of the modules (a null value is outside its set,
`Ops` is a set of known operations, a bound is a natural number, the requests
that exist already are finite in number, days are in order within months and
years). Four theorems of `EnvelopeSigning` also
assume `Plain`, that `Ops` holds neither `view` nor `resend` nor `remind`, as
`signing_links` does: with one of these the properties fail (section 6).

None of the invariants is inductive as it stands; each module strengthens it to
an `Inv` with one lemma for `Init`, one for each action, and a temporal step.

- *EnvelopeSigning.* `sign` decides whether it completes the envelope from
  signers it read under its token's lock, and commits later, when others may have
  overwritten them. What makes that sound: a captured signature is never taken
  back, even when a page view paints the signer's row `viewed` again. `Inv` says
  that a row says `signed` only with a captured signature
  (`SignedMeansCaptured`), that a request under the token lock either has
  somebody next or all others captured (`NextStands`), that a link or a reissue
  is for a signer whose predecessors are captured (`LinkHolder`, `Reissuer`), and,
  for `NeverStuck`, that somebody who declined without having signed has ended
  the envelope (`DeclineEnds`) and that a resend never writes back a closed
  status (`SeenOpen`). Under `Plain` each signer gets one link, ever, and the
  second only when the first has answered (`OneToken`, `SecondInTurn`); then what
  `sign` checked under its lock still holds when it commits (`StillStands`),
  because whatever ends the envelope waits for every usable link
  (`CurrentHasLink`, `AllVictims`) and `sign` holds the only one.
- *EventChain.* `ChainInv` says that, until somebody corrupts a row, the committed
  rows and what each writer sees are good chains that have a last event
  (`LogInv`), and that the last event a writer has read is
  still the last (`ReadInv`), which is what the row lock is for. What a writer has
  inserted is then later than all that is committed (`MineLater`). For
  `TamperLocated` the state is split at the hole, the position of the corrupted
  row (`Located`): all rows before it verify; the first row at or after it does
  not; and whatever a writer is about to commit does not close the gap, because it
  comes later than that row, or, if the hole is at the end, links to a hash that no
  row before the hole has (`Detached`). That there is a first row and a last one is
  an induction over the time stamps, which `Sound` keeps bounded; until the
  corruption no two events have one time (`OneTime`), so no two have one hash.
- *FinalDocument.* `Inv` says that what a job has put is stored (`PutIsStored`),
  that a row names stored bytes only and is `ready` only if it names some
  (`KeyIsStored`), and `PendingIsBeingWorkedOn`: each step that ends the last job of
  a pending document sets `lost`, publishes or writes `failed`, and each step that
  resets `lost` settles it or dispatches a job. No job has won while the
  key is unset, at most one has won and not yet told, and none after the telling
  (`OneWinner`), hence `NotifiedOnce`. `ImplementsSignedDocument` maps
  each step to the abstract write or to a stutter.
- *ProviderConverge.* A convergence applies what it fetched before, to rows that
  others have written since. That does no harm because the provider takes nothing
  back (`RemoteForward`): a signature or a refusal that was fetched still holds
  when it is applied (`Stands`), and bytes that are downloaded or stored are those
  of a completed document (`Downloaded`); so does the status of the document, whose
  every end is final. Each row change of a convergence and its
  event are one transaction, so `SignatureHasEvent` needs no more than that
  statuses are overwritten and events are not.
- *ProviderSession.* `Inv` is `OneWinner` with the types, among them that a send
  holds a document exactly from the moment it opened one, and that the bound on
  edits is kept. With that, `DraftLeftoverRecorded` is preserved by every step.
- *VacationLedger.* A commit writes what was decided earlier, so `Inv` must say
  that the decision still fits: at most one transaction is open (`OneOpen`, what
  the lock gives) and what it has decided is `Planned`, that is, for every
  request one of the moves the tables still allow, with the rows that go with
  it (`Fits`), a credit only for a month without one (`CreditFits`), and after a
  removal nothing ahead (`RemovalFits`). One lemma per operation shows that it
  decides something planned, `PlannedKept` that nothing but a commit can disturb
  it (a `Restore` may run in between), and `CommitStory`, `CommitCredits`,
  `CommitOverlap` and `CommitRemoval` carry the properties over a commit. The
  amounts do not matter there. For `MonthSettled`, `Planned` also says that
  settings about to be saved start today (`TermsFit`), so they are not in force
  on any day of a month that is over.
- *VacationLedger, the money.* `Money` says of the current year that rows
  and requests are finitely many and of no later year (`Booked`, `RowsDated`,
  `Fresh`), that a pending request costs what its days cost at some settings once
  saved (`Priced`), that both properties hold (`NeverOverdrawn`, `Covered`), and
  that an open transaction has decided one of three things (`Deals`): a request
  paid for by what is not held (`Asks`), an approval paid for by the reserve it
  read (`Grants`), or what takes nothing (`Frees`). *Paid for* is `Owed`: the days
  were counted at a rounded day rate, so the frozen deduction may exceed them by
  half a cent a day and half a cent (`PriceIsCovered`, from the arithmetic of
  `Round`). A commit then adds its rows to the reserve of its year, and takes a
  request from what is held or adds one (`ReserveTaken`, `ReserveGrows`,
  `HoldReleased`, `HoldAdded`), and the bound itself never falls (`RoundingKept`).
  `Reserve` and `PendingHold` are folds, which take the elements of a set
  in the order of `CHOOSE`; the lemmas on `Total` show, by induction over
  finite sets, that a sum may be taken by any of its elements (`TotalRemove`), and from
  that how it changes. A new year starts with nothing in it (`LaterYear`).
- *InterviewBooking.* Nothing is locked, so `Inv` says what can be told of an
  application from where its requests are: what a booking has done so far
  (`BookShape`; in particular nobody else can touch an application without a
  row), that a move or cancellation holds an application that has one and that
  what was called off is out of the calendar (`MoveShape`), and that a
  cancelled row has no event (`LifeShape`). The refinement maps row and event
  together to `life`; a move is a stutter. The three invariants are strengthened
  in turn. `CvKept`: a CV that is not attached yet is attached and listed nowhere
  (`Fresh`), and every booked interview has a CV that nobody is about to remove
  (`Witness`). `Accounted`: where the event, the CV and the rows of an
  application are can be told from where its request is (`EventShape`,
  `FileShape`, `RowShape`). `Known`: the slot a request found free is free
  (`SlotShape`), and what a move has read of its interview holds (`MoveKnows`),
  unless somebody crossed it, which the model remembers.
- *Autosave.* `Inv` says that at most one text is in flight (`OneInFlight`), what
  the loop and the screen know of the server (`Known`), who owes the next
  save (`Due`), and that a save begun, queued or counted down for was asked
  for (`Asked`).
- *Requests.* `Inv` says that what a call holds locked is what it has read
  (`Held`): the row of its request, or the next number. With `Parties`,
  `NotYet`, `Recorded` and `NumbersDense` a commit is then a step of the
  abstract request, or of the numbering. `HistoryTells` and `PartiesTold` read a
  history from its first event to its last. `Fold` is that reading as a function
  on its prefixes, and exists by induction over the length; that one more
  event takes the reading one step further (`GoesOn`) makes `Tales` inductive: each
  history ends where the request stands (`EachEnds`), and whoever is a party at an
  event was told of it, unless he caused it, and nobody else (`EachTold`).

The induction theorems of the library take an operator as parameter, which the
installed provers cannot instantiate. Where a proof needs induction it states, as
a lemma, that a set of natural numbers that holds 0 and every successor holds all
(`Induction`, or `Least`, from the well-foundedness of `<`), applies it to the set
of lengths, or of cardinalities, for which the claim holds, and goes on from
there.

Checked by TLC only: the liveness properties (`ExpiredEventuallyFinal`,
`RenderSettles`, `CompletionReached`, `EventuallySaved`, `AllHandled`), because the
prover has no rule for fairness; and the findings of section 6.

## 6. Where the code and its documents disagree

One of the disagreements the models reach is recorded as a run,
`finding_terminal` (`A/signing/signing.service.ts:470`): a link is resolved,
superseded by a resend, the envelope is voided (the void waits for usable links
only), then the old link signs, and `partially_signed` overwrites `voided`.
`signing_links` shows the same property to hold where nobody resends.

Four more are stated as properties of their modules, which TLC refutes in a few
steps when asked to check them:

- `NothingLost` of `FinalDocument`, `A/documents/envelope-completion.ts:66`: the
  load of a render is outside its `try`, and `markFailed` (`:336`) is a transaction
  called from the `catch`. What either throws is logged by `A/queue/job-queue.ts:108`
  and not "retried", as the comment at `:103` says: the PDF stays `pending` with no
  job, and with no failure to retry from, although nobody died.
  `PendingIsBeingWorkedOn` and `RenderSettles` excuse this, a retry whose update
  throws after taking effect, a process death, and nothing else (`lost`).
- `ReadyNotTouched` of `FinalDocument`, `A/documents/envelopes.service.ts:1558`: a
  `retryPdf` that read `pending` or `failed` writes `pending` over `ready`, and its
  job stops at `A/documents/envelope-completion.ts:74` because the key is set. The
  download is refused from then on (`A/documents/envelopes.service.ts:496`), and a
  further retry changes nothing. The comment at `:1542` leaves it to the job to
  refuse to touch an envelope that has its PDF; by then it has been touched.
- `CompletedInTime` of `ProviderConverge`,
  `A/documents/provider-reconciler.service.ts:211`: the provider completes a
  document in time and the notification is lost; once the date of the envelope has
  passed its effective status is terminal, the convergence leaves it alone, and the
  sweep stores `expired`. The comment at `:57` says that a dropped notification
  "costs timeliness and never correctness". `CompletionReached` therefore allows
  the envelope to expire first.
- `SignedIsFrozen` of `ProviderSession`,
  `A/signature/signwell/signwell-signing-provider.ts:335`: a send fails and its
  document stays at the provider; the draft is edited; the next send adopts that
  document and freezes the new HTML.

The models reach others, by the same pattern of a check made before the write.
They are stated here and not as runs:

- `A/documents/provider-reconciler.service.ts:378`: two convergences load `sent`;
  one sees the last signature and its completion completes; the other, which
  fetched after the first signature, writes `partially_signed`.
- `A/signing/signing.service.ts:595`: a decline queued behind the signature of
  the same link marks a signer who signed as declined.
- `A/signing/signing.service.ts:836`: two loads of the page, or a load and a
  convergence, each write a `viewed` event; `:842` writes `viewed` over `signed`,
  and the signer can sign again.
- `A/documents/envelopes.service.ts:1476`: two resends leave two usable links;
  `:1475`: a resend that loaded before a void leaves one usable link after it.
- `A/queue/inline-job-queue.ts:23` ignores the group that
  `A/queue/job-queue.ts:23` says keeps renders of one envelope apart.
- `A/documents/envelope-completion.ts:202` completes an envelope voided during
  the download; `A/documents/provider-reconciler.service.ts:378` overwrites a
  void; `:312` writes `signed` events twice when two convergences loaded the
  same rows.
- `A/documents/envelopes.service.ts:768` edits and `:1539` deletes an envelope
  that was sent after the status was checked; `:876` freezes what was read before
  an edit; `:1054` does not record a leftover once another send has won; `:1032`
  looks up the document not to be deleted before it deletes, so of two sends
  that hold one document the first, failing on its mail, may look before the
  second pins it and delete it after.

Of interviews (`excused` in `InterviewBooking` is exactly this list):

- `A/hiring/booking.service.ts:167`: two bookings, or a booking and a move, both
  find a slot free and both take it, although
  `specs/hiring/02-booking-page.md:125` re-validates the slot "to prevent
  double-booking"; a second submission of one form, too, since the duplicate
  check is made as early.
- `A/hiring/interview-scheduling.service.ts:188`: an interview that is not where the row
  says is taken to be on the target already. It may have been moved elsewhere by a
  request still on its way to the row: the second request then writes a row
  that differs from the calendar and answers success. The comment at `:163`
  names only an event deleted by hand.
- `A/hiring/interview-scheduling.service.ts:217`: two moves of one interview may update
  the calendar in one order and the row in the other, and both answer success.
- `src/packages/validation/src/hiring-manage.ts:259` drops an interval and not an event:
  after a double booking on the same boundaries, a move of one of the two is
  not told of the other. The comment above it accepts this, and counts on "the
  submit-time check", which excludes the same interval.

Of the autosave loop:

- `src/packages/validation/src/hiring-autosave.ts:135` says "Still dirty with nothing
  deferred means the member is mid-burst and the countdown is running". It is not
  when the member typed back, during the save, to the text accepted before: the
  countdown was cancelled as nothing was dirty, and the answer makes the text
  dirty again. The editor then shows `pending` for good, until the next
  keystroke or press of Save (`"back"` in `excused`).
- When the answer to a save is lost, typing back to the text accepted before
  shows it as saved, and the server holds the other (`"lost"`).
- `src/apps/web/src/hiring/useAutosave.ts:69` clears `explicit` when a save begins; a
  press of Save that was queued behind a save that fails leaves it set for
  the next automatic save.

Of requests:

- `A/requests/request-notifications.service.ts:206`: an outcome that cannot be
  written makes the catch write `failed` for a notification that was delivered.
- `:217`, `:193`: a mark that throws leaves the remaining rows of the call as they
  are; nothing calls `drain` again for rows that are pending or failed, although
  `:176` describes a retry.

And of vacations, by arithmetic rather than by a race:

- `A/vacation/vacation-requests.service.ts:280`: the days a request may take are
  counted against the approved days of the current year, whichever year the
  request is for. Two requests for next year, approved this year, may together
  exceed what `src/apps/api/prisma/schema.prisma:690` calls "Maximum vacation days
  per calendar year", and are paid from this year's reserve; hence the proviso
  of `HoldsCovered`. A refund of a debit of last year
  likewise raises this year's reserve.
- A request pays the amount frozen on submission, but is checked at today's day
  rate: after a cut of the salary, an approval may take more than the reserve
  has. Hence the proviso `NeverCut`.
- The day rate is rounded before the reserve is divided by it
  (`src/packages/validation/src/index.ts:1728`) and the deduction after the
  multiplication (`:1907`), so that a reserve may be overdrawn by half a cent for
  each day and half a cent more (`TwiceRounding`).
- `A/accrual/accrual.service.ts:79` looks at who is a member when the run
  happens: months of absence are credited after a restore, and the current
  month may be credited before it is over, at settings that still change.

## 7. Not modelled

What is listed in `PROJECT.json` as `not_modelled`, and why; those with an order
that matters first, which is where the development would go on.

- *Document templates*: `publish` validates the draft it read and freezes the row
  by its id, not by the `rowVersion` that `saveDraft` increments
  (`A/documents/document-templates.service.ts:445`): a save in between is
  published without validation. One race between two operations.
- *Accounts and tokens* (invitations, password reset, change of e-mail): a token
  is checked, and the row then updated by its id without a second check
  (`A/auth/password-reset.service.ts:116`, `A/invitations/invitations.service.ts:513`). The
  last-admin guards hold the lock on the organization row. Only `remove` and
  `restore` of a member are in `VacationLedger`.
- *Time tracking*: one timer for each member by a unique index, stop as create and
  delete in one transaction; a stop that loses against a discard fails to delete
  and rolls back.
- *Hiring board and kanban*: positions from unlocked reads
  (`A/hiring/board.service.ts:161`, `A/kanban/board.service.ts:354`). The hiring board
  breaks ties by id and spreads a column again when a gap has closed; kanban's
  unique index refuses the second of two columns at one position. Read, not
  modelled: two deletions of columns may each count two columns
  (`A/kanban/board.service.ts:409`), and two updates of tasks may each check the
  other's old type and parent before they write (`A/kanban/tasks.service.ts:361`).
- *Holidays*: a refresh clears and writes again without a transaction
  (`A/holidays/holiday-sourcing.service.ts:208`); a failure leaves a year incomplete
  until the next sync.
- *Reports, portal, time-off calendar*: read-only projections over rows of the
  other components; they are computations, not behaviours.
- *Projects, clients, organizations, vacancies, candidates, criteria*: one
  transaction for each operation, with no other actor involved.
- *Rendering, PDF layout, text tags, mail, storage drivers, the SignWell client's
  retries, the SQS driver*: I/O or layout. Where their failures matter, they
  are faults of the models.
- *Web application, infrastructure, scripts, end-to-end tests*: no state the server
  depends on; the autosave loop, which has some, is modelled.
