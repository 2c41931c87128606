------------------------------ MODULE Autosave ------------------------------
(***************************************************************************)
(* A text editor of the candidate card with its autosave loop: the         *)
(* keystrokes of the member, the countdown, the saves in flight, and the   *)
(* text that the server holds.                                             *)
(*                                                                         *)
(* A text is the number of the keystroke that first produced it; 0 is the  *)
(* text that the editor was opened with.                                   *)
(***************************************************************************)
EXTENDS Integers

CONSTANTS MaxMoves,  \* bounds the keystrokes and presses of Save together
          Ops        \* what may happen besides, a subset of OpKind

OpKind == {"fail",     \* a save fails and has had no effect
           "lost",     \* a save takes effect and its answer is lost
           "back",     \* the member types back to an earlier text
           "unmount"}  \* the editor is closed

ASSUME MaxMovesAssumption == MaxMoves \in Nat
ASSUME OpsAssumption == Ops \subseteq OpKind

Text == 0 .. MaxMoves

VARIABLES
  timer,    \* whether the countdown runs
  state,    \* what the screen shows
  current,  \* the text in the editor
  saved,    \* the text that the server is known to have accepted
  wrote,    \* whether this loop has written anything
  saving,   \* whether a save is in flight
  queued,   \* whether another follows it
  calls,    \* the texts in flight
  server,   \* the text that the server holds
  mounted,  \* whether the editor is open
  keys, presses, sent,  \* history: keystrokes, presses of Save, saves begun
  excused   \* history: "lost", an answer was lost and no later save was
            \* answered; "back", the member has typed back during a save

member == <<mounted, keys, presses>>
vars == <<timer, state, current, saved, wrote, saving, queued, calls, server,
          member, sent, excused>>

State == {"idle", "pending", "saving", "saved", "failed"}

Init ==
  /\ timer = FALSE /\ state = "idle"
  /\ current = 0 /\ saved = 0 /\ server = 0
  /\ wrote = FALSE /\ saving = FALSE /\ queued = FALSE
  /\ calls = {}
  /\ mounted = TRUE /\ keys = 0 /\ presses = 0 /\ sent = 0
  /\ excused = {}

dirty == current # saved

----------------------------------------------------------------------------
Send ==
  /\ calls' = calls \cup {current} /\ sent' = sent + 1
  /\ saving' = TRUE /\ state' = "saving"

(* Mutant of write: nothing keeps saves apart. *)
writeAtOnce ==
  /\ timer' = FALSE
  /\ \/ dirty /\ Send
     \/ ~dirty /\ UNCHANGED <<calls, sent, saving, state>>
  /\ UNCHANGED queued

(* write: nothing if nothing is outstanding, queued behind a save in       *)
(* flight, else sent.                                                      *)
write ==
  /\ timer' = FALSE
  /\ \/ dirty /\ ~saving /\ Send /\ UNCHANGED queued
     \/ dirty /\ saving /\ queued' = TRUE /\ UNCHANGED <<calls, sent, saving, state>>
     \/ ~dirty /\ UNCHANGED <<queued, calls, sent, saving, state>>

(* change: a keystroke restarts the countdown, unless it typed back to     *)
(* what the server has accepted.                                           *)
change ==
  /\ mounted /\ keys + presses < MaxMoves
  /\ keys' = keys + 1
  /\ \E t \in {keys + 1} \cup (IF "back" \in Ops THEN 0 .. keys ELSE {}) :
       /\ t # current
       /\ current' = t
       /\ timer' = (t # saved)
       /\ state' = IF t # saved THEN "pending"
                   ELSE IF saving THEN "saving" ELSE IF wrote THEN "saved" ELSE "idle"
       /\ excused' = (excused \ {"back"}) \cup (IF t = saved /\ saving THEN {"back"} ELSE {})
  /\ UNCHANGED <<saved, wrote, saving, queued, calls, server, mounted, presses, sent>>

(* flush and retry, behind the hook's test that something is outstanding. *)
flush ==
  /\ mounted /\ keys + presses < MaxMoves
  /\ presses' = presses + 1
  /\ dirty
  /\ write
  /\ excused' = excused \ {"back"}
  /\ UNCHANGED <<current, saved, wrote, server, mounted, keys>>

TimerFires ==
  /\ timer
  /\ write
  /\ UNCHANGED <<current, saved, wrote, server, member, excused>>

(* Mutant of SaveSucceeds: the text accepted is taken to be the current.   *)
SaveCurrent(t) ==
  /\ t \in calls
  /\ server' = t /\ saved' = current /\ wrote' = TRUE
  /\ calls' = calls \ {t} /\ saving' = FALSE /\ state' = "saved"
  /\ queued' = FALSE
  /\ excused' = excused \ {"lost"}
  /\ UNCHANGED <<timer, current, member, sent>>

(* Mutant of SaveSucceeds: the write that came due meanwhile is forgotten. *)
SaveForgets(t) ==
  /\ t \in calls
  /\ server' = t /\ saved' = t /\ wrote' = TRUE
  /\ calls' = calls \ {t} /\ saving' = FALSE /\ queued' = FALSE
  /\ state' = IF current # t THEN "pending" ELSE "saved"
  /\ excused' = excused \ {"lost"}
  /\ UNCHANGED <<timer, current, member, sent>>

(* The save is answered.  A write that came due meanwhile follows at once. *)
SaveSucceeds(t) ==
  /\ t \in calls
  /\ server' = t /\ saved' = t /\ wrote' = TRUE
  /\ queued' = FALSE
  /\ excused' = excused \ {"lost"}
  /\ \/ /\ queued /\ current # t
        /\ timer' = FALSE
        /\ saving' = TRUE /\ state' = "saving"
        /\ calls' = (calls \ {t}) \cup {current} /\ sent' = sent + 1
     \/ /\ ~(queued /\ current # t)
        /\ saving' = FALSE
        /\ state' = IF current # t THEN "pending" ELSE "saved"
        /\ calls' = calls \ {t}
        /\ UNCHANGED <<timer, sent>>
  /\ UNCHANGED <<current, member>>

(* Mutant of SaveFails: the countdown is armed again. *)
FailRearms(t) ==
  /\ t \in calls
  /\ "fail" \in Ops
  /\ calls' = calls \ {t} /\ saving' = FALSE /\ queued' = FALSE /\ state' = "failed"
  /\ timer' = mounted
  /\ UNCHANGED <<current, saved, wrote, server, member, sent, excused>>

(* The save fails, or its answer is lost: the loop stops. *)
SaveFails(t) ==
  /\ t \in calls
  /\ \/ "fail" \in Ops /\ UNCHANGED <<server, excused>>
     \/ "lost" \in Ops /\ server' = t /\ excused' = excused \cup {"lost"}
  /\ calls' = calls \ {t} /\ saving' = FALSE /\ queued' = FALSE /\ state' = "failed"
  /\ UNCHANGED <<timer, current, saved, wrote, member, sent>>

(* cancel: a save in flight is left to finish. *)
cancel ==
  /\ "unmount" \in Ops /\ mounted
  /\ mounted' = FALSE /\ timer' = FALSE
  /\ UNCHANGED <<state, current, saved, wrote, saving, queued, calls, server,
                 keys, presses, sent, excused>>

Answer == \E t \in Text : SaveSucceeds(t) \/ SaveFails(t)

Next == change \/ flush \/ TimerFires \/ Answer \/ cancel

Spec == Init /\ [][Next]_vars

(* A timer that is set fires, and a call to the server ends.  The member   *)
(* owes nothing.                                                           *)
FairSpec == Spec /\ WF_vars(TimerFires) /\ WF_vars(Answer)

----------------------------------------------------------------------------
(* Every variable has its type. *)
TypeOK ==
  /\ timer \in BOOLEAN /\ wrote \in BOOLEAN /\ saving \in BOOLEAN
  /\ queued \in BOOLEAN /\ mounted \in BOOLEAN
  /\ state \in State
  /\ current \in Text /\ saved \in Text /\ server \in Text
  /\ calls \subseteq Text
  /\ keys \in Nat /\ presses \in Nat /\ keys + presses <= MaxMoves
  /\ sent \in Nat
  /\ excused \subseteq {"lost", "back"}

(* An editor that shows nothing to save, or that lets the member leave     *)
(* without a word, shows the text that the server holds, whatever was      *)
(* typed while it was being saved (hiring-autosave.ts:106-137, 146-155);   *)
(* but for an answer that was lost.                                        *)
SavedMeansHeld ==
  state \in {"idle", "saved"} \/ (~dirty /\ ~saving)
    => server = current \/ "lost" \in excused

(* A failing or slow server is never pressed: however keystrokes, Save and *)
(* failures follow each other, there is no more than one save to each      *)
(* keystroke or press (rules 1 to 4, hiring-autosave.ts:12-20).            *)
OneSaveToAMove == sent <= keys + presses

(* Text that waits for its save has a countdown or a save to wait for      *)
(* (hiring-autosave.ts:135-137); but for text typed back to what was saved *)
(* while a save was in flight, which waits for the next keystroke.         *)
PendingIsDue ==
  state = "pending" /\ mounted => timer \/ saving \/ "back" \in excused

(* What the member has typed reaches the server when the typing stops, or  *)
(* the editor says that it failed (hiring-autosave.ts:94-138).             *)
EventuallySaved ==
  dirty ~> \/ ~dirty \/ state = "failed" \/ ~mounted
           \/ "back" \in excused
=============================================================================
