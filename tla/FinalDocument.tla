---------------------------- MODULE FinalDocument ----------------------------
(***************************************************************************)
(* The signed PDF of an envelope that the internal provider completed.     *)
(*                                                                         *)
(* The last signature commits status = completed, pdfStatus = pending and  *)
(* dispatches a pdf-render job; `retryPdf` dispatches another.  The queue  *)
(* in production is the inline driver: a job is a promise in some API      *)
(* process, so jobs of one envelope run concurrently, nothing retries      *)
(* them, what a job throws is logged and no more, and a process that dies  *)
(* takes its jobs with it.  `lost` is a history variable: a job or a retry *)
(* has ended in one of these silent ways, and nothing that the row shows   *)
(* (failed, or a new job dispatched) has come since.                       *)
(*                                                                         *)
(* Each job and each retry is a process that runs once.  Assembling a PDF  *)
(* is not reproducible (it prints times), so a job may produce any bytes.  *)
(***************************************************************************)
EXTENDS FiniteSets, Naturals

CONSTANTS Bytes, NoBytes,  \* see SignedDocument
          Job,             \* the pdf-render jobs ever dispatched (a bound)
          Retry,           \* the calls of retryPdf (a bound)
          MayCrash         \* whether a process may die in this run

ASSUME BytesAssumption == NoBytes \notin Bytes
ASSUME CrashAssumption == MayCrash \in BOOLEAN

VARIABLES
  pdf,      \* Envelope.pdfStatus
  key,      \* Envelope.signedPdfKey, as the bytes it is the hash of
  stored,   \* the objects in the file storage
  job,      \* where each job is in `run`
  bytes,    \* what each job has assembled
  retry,    \* where each retryPdf call is
  notices,  \* how often both parties were sent the completion notice
  lost      \* an outcome has gone unrecorded since the last one recorded

vars == <<pdf, key, stored, job, bytes, retry, notices, lost>>

JobState == {"none", "queued", "loaded", "assembled", "put", "won",
             "failing", "done"}

Init ==
  /\ pdf = "pending"
  /\ key = NoBytes
  /\ stored = {}
  /\ \E first \in Job :
       job = [j \in Job |-> IF j = first THEN "queued" ELSE "none"]
  /\ bytes = [j \in Job |-> NoBytes]
  /\ retry = [r \in Retry |-> "idle"]
  /\ notices = 0
  /\ lost = FALSE

Step(j, from, to) ==
  /\ job[j] = from
  /\ job' = [job EXCEPT ![j] = to]

----------------------------------------------------------------------------
(* EnvelopeCompletionService.run. *)

(* A document that is already there is never rendered again.  An envelope  *)
(* without a frozen document fails at once, as if assembly had thrown.     *)
Load(j) ==
  /\ Step(j, "queued", IF key = NoBytes THEN "loaded" ELSE "done")
  /\ UNCHANGED <<pdf, key, stored, bytes, retry, notices, lost>>

(* The read of the envelope is outside the try: the queue logs the error.  *)
LoadThrows(j) ==
  /\ Step(j, "queued", "done")
  /\ lost' = TRUE
  /\ UNCHANGED <<pdf, key, stored, bytes, retry, notices>>

(* completedDocument, then assertLooksLikePdf. *)
Assemble(j) ==
  /\ Step(j, "loaded", "assembled")
  /\ \E b \in Bytes : bytes' = [bytes EXCEPT ![j] = b]
  /\ UNCHANGED <<pdf, key, stored, retry, notices, lost>>

(* storage.exists, then storage.put: the key is the content's hash. *)
Put(j) ==
  /\ Step(j, "assembled", "put")
  /\ stored' = stored \cup {bytes[j]}
  /\ UNCHANGED <<pdf, key, bytes, retry, notices, lost>>

(* Mutants of Claim: updateMany without signedPdfKey IS NULL; a loser that *)
(* notifies as if it had won.                                              *)
ClaimAlways(j) ==
  /\ Step(j, "put", "won")
  /\ key' = bytes[j]
  /\ pdf' = "ready"
  /\ UNCHANGED <<stored, bytes, retry, notices, lost>>

LoserNotifies(j) ==
  /\ Step(j, "put", "won")
  /\ IF key = NoBytes THEN key' = bytes[j] /\ pdf' = "ready"
                      ELSE UNCHANGED <<key, pdf>>
  /\ UNCHANGED <<stored, bytes, retry, notices, lost>>

(* updateMany WHERE signedPdfKey IS NULL: one job wins, the others stop. *)
Claim(j) ==
  /\ IF key = NoBytes
     THEN Step(j, "put", "won") /\ key' = bytes[j] /\ pdf' = "ready"
     ELSE Step(j, "put", "done") /\ UNCHANGED <<key, pdf>>
  /\ UNCHANGED <<stored, bytes, retry, notices, lost>>

Notify(j) ==
  /\ Step(j, "won", "done")
  /\ notices' = notices + 1
  /\ UNCHANGED <<pdf, key, stored, bytes, retry, lost>>

(* Mutant of Throw: a job that failed is queued again, without a limit. *)
ThrowRequeues(j) ==
  /\ \E from \in {"loaded", "assembled", "put"} : Step(j, from, "queued")
  /\ UNCHANGED <<pdf, key, stored, bytes, retry, notices, lost>>

(* Assembly, the storage or the claiming transaction throws. *)
Throw(j) ==
  /\ \E from \in {"loaded", "assembled", "put"} : Step(j, from, "failing")
  /\ UNCHANGED <<pdf, key, stored, bytes, retry, notices, lost>>

(* The claim commits, and its answer is lost. *)
ClaimUnanswered(j) ==
  /\ key = NoBytes
  /\ Step(j, "put", "failing")
  /\ key' = bytes[j]
  /\ pdf' = "ready"
  /\ UNCHANGED <<stored, bytes, retry, notices, lost>>

(* Mutant of MarkFailed: the failure is only logged. *)
OnlyLogged(j) ==
  /\ Step(j, "failing", "done")
  /\ UNCHANGED <<pdf, key, stored, bytes, retry, notices, lost>>

(* markFailed writes whatever the row holds by now. *)
MarkFailed(j) ==
  /\ Step(j, "failing", "done")
  /\ pdf' = "failed"
  /\ lost' = FALSE
  /\ UNCHANGED <<key, stored, bytes, retry, notices>>

(* Its transaction throws, past the catch it is called from: only logged. *)
MarkFailedThrows(j) ==
  /\ Step(j, "failing", "done")
  /\ lost' = TRUE
  /\ UNCHANGED <<pdf, key, stored, bytes, retry, notices>>

----------------------------------------------------------------------------
(* EnvelopesService.retryPdf. *)

RetryLoad(r) ==
  /\ retry[r] = "idle"
  /\ retry' = [retry EXCEPT ![r] = IF pdf = "ready" THEN "done" ELSE "loaded"]
  /\ UNCHANGED <<pdf, key, stored, job, bytes, notices, lost>>

(* The update does not look at what the row holds by now. *)
RetryWrite(r) ==
  /\ retry[r] = "loaded"
  /\ retry' = [retry EXCEPT ![r] = "written"]
  /\ pdf' = "pending"
  /\ UNCHANGED <<key, stored, job, bytes, notices, lost>>

(* The update throws, with or without having taken effect. *)
RetryThrows(r) ==
  /\ retry[r] = "loaded"
  /\ retry' = [retry EXCEPT ![r] = "done"]
  /\ \/ UNCHANGED <<pdf, lost>>
     \/ pdf' = "pending" /\ lost' = TRUE
  /\ UNCHANGED <<key, stored, job, bytes, notices>>

RetryEnqueue(r) ==
  /\ retry[r] = "written"
  /\ retry' = [retry EXCEPT ![r] = "done"]
  /\ \E j \in Job : Step(j, "none", "queued")
  /\ lost' = FALSE
  /\ UNCHANGED <<pdf, key, stored, bytes, notices>>

----------------------------------------------------------------------------
(* A process dies: the job it ran, or the retry it served, is gone. *)

CrashJob(j) ==
  /\ MayCrash
  /\ job[j] \notin {"none", "done"}
  /\ job' = [job EXCEPT ![j] = "done"]
  /\ lost' = TRUE
  /\ UNCHANGED <<pdf, key, stored, bytes, retry, notices>>

CrashRetry(r) ==
  /\ MayCrash
  /\ retry[r] \in {"loaded", "written"}
  /\ retry' = [retry EXCEPT ![r] = "done"]
  /\ lost' = (lost \/ retry[r] = "written")
  /\ UNCHANGED <<pdf, key, stored, job, bytes, notices>>

JobStep(j) ==
  \/ Load(j) \/ Assemble(j) \/ Put(j) \/ Claim(j) \/ Notify(j)
  \/ LoadThrows(j) \/ Throw(j) \/ ClaimUnanswered(j)
  \/ MarkFailed(j) \/ MarkFailedThrows(j)

RetryStep(r) == RetryWrite(r) \/ RetryThrows(r) \/ RetryEnqueue(r)

Next ==
  \/ \E j \in Job : JobStep(j) \/ CrashJob(j)
  \/ \E r \in Retry : RetryLoad(r) \/ RetryStep(r) \/ CrashRetry(r)

Spec == Init /\ [][Next]_vars

(* The event loop runs every job and every accepted request to its end; no *)
(* user is obliged to retry.                                               *)
FairSpec ==
  /\ Spec
  /\ \A j \in Job : WF_vars(JobStep(j))
  /\ \A r \in Retry : WF_vars(RetryStep(r))

----------------------------------------------------------------------------
TypeOK ==
  /\ pdf \in {"pending", "ready", "failed"}
  /\ key \in Bytes \cup {NoBytes}
  /\ stored \subseteq Bytes
  /\ job \in [Job -> JobState]
  /\ bytes \in [Job -> Bytes \cup {NoBytes}]
  /\ \A j \in Job : job[j] \in {"assembled", "put", "won"} => bytes[j] \in Bytes
  /\ retry \in [Retry -> {"idle", "loaded", "written", "done"}]
  /\ notices \in Nat
  /\ lost \in BOOLEAN

Working(j) == job[j] \notin {"none", "done"}

(* However many jobs run at once, the row names stored bytes only and      *)
(* never changes what it names (envelope-completion.ts:181-212).           *)
Abstract == INSTANCE SignedDocument WITH
  Bytes <- Bytes, NoBytes <- NoBytes, key <- key, stored <- stored
WriteOnce == Abstract!Spec

(* Both parties are told once, and only of the document that won           *)
(* (envelope-completion.ts:103-106, 216-219).                              *)
NotifiedOnce ==
  notices + Cardinality({j \in Job : job[j] = "won"}) <= (IF key = NoBytes THEN 0 ELSE 1)

(* The signer's download is offered only when there is one                 *)
(* (signing.service.ts:898-904).                                           *)
ReadyMeansStored == pdf = "ready" => key \in stored

(* While no document exists, a pending one has a job or a retry that will  *)
(* settle it.  The silent ways out of this are the ones `lost` names, and  *)
(* no other: a process dies, `run` cannot load the envelope, `markFailed`  *)
(* cannot record the failure, the answer to a retry's update is lost; and  *)
(* each is over when a failure is recorded or a retry dispatches a job     *)
(* (envelope-completion.ts:66, 107-113, 336-353, job-queue.ts:108-115,     *)
(* envelopes.service.ts:1558-1562).                                        *)
PendingIsBeingWorkedOn ==
  pdf = "pending" /\ key = NoBytes /\ ~lost =>
    \/ \E j \in Job : Working(j)
    \/ \E r \in Retry : retry[r] = "written"

(* A completed envelope gets its PDF or is marked failed, so that the      *)
(* retry action appears, unless the outcome of the last attempt is lost in *)
(* one of those ways; no render goes on for ever (envelope-completion.ts:  *)
(* 107-113).                                                               *)
RenderSettles == <>[](key # NoBytes \/ pdf = "failed" \/ lost)

(* What job-queue.ts:103-107 says of a job that fails, "logged and         *)
(* retried": as long as no process dies, the envelope ends with its PDF or *)
(* with a failure on record.  This does not hold: nothing retries a job    *)
(* whose load or whose markFailed throws (see README).                     *)
NothingLost == <>[](key # NoBytes \/ pdf = "failed")

(* What envelopes.service.ts:1542-1543 says of a retry: an envelope that   *)
(* already has a PDF is not touched.  This does not hold: retryPdf writes  *)
(* pending over a document that became ready after its read, and the job   *)
(* it enqueues leaves it so (see README).                                  *)
ReadyNotTouched == [][pdf = "ready" => pdf' # "pending"]_vars
=============================================================================
