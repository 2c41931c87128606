-------------------------- MODULE InterviewBooking --------------------------
(***************************************************************************)
(* The interviews with one interviewer: the application rows, the events   *)
(* in the interviewer's calendar, and the stored CVs.                      *)
(*                                                                         *)
(* Every request is a process that runs once.  A booking stores the CV,    *)
(* creates the event, then writes the rows, and undoes what it did if a    *)
(* step fails.  A move, a cancellation and a new CV act on an application  *)
(* they loaded: the calendar first, then the row, and nothing is undone.   *)
(* Nothing holds a lock across these steps.  An application, its event and *)
(* the CV it was booked with share one identifier, and so do a request for *)
(* a new CV and that CV.                                                   *)
(***************************************************************************)
EXTENDS Integers

CONSTANTS Old,       \* the applications that are booked already
          Booker,    \* booking requests, each the application it creates
          Mover,     \* requests to move, cancel, or replace the CV
          Start,     \* the times at which an interview may begin
          Duration,  \* of every interview
          None,      \* no time, no CV
          Ops        \* what may go wrong, a subset of OpKind

OpKind == {"fail",   \* a call fails and has had no effect
           "lost",   \* a call has its effect and its answer is lost
           "crash"}  \* the process dies

ASSUME TimeAssumption == Start \subseteq Int /\ Duration \in Nat \ {0} /\ None \notin Start
ASSUME IdAssumption ==
  /\ Old \cap Booker = {} /\ Old \cap Mover = {} /\ Booker \cap Mover = {}
  /\ None \notin Old \cup Booker \cup Mover
ASSUME OpsAssumption == Ops \subseteq OpKind

App == Old \cup Booker
Request == Booker \cup Mover
Cv == App \cup Mover

BookState == {"loaded", "free", "stored", "created", "attached",
              "uncreate", "undo", "unstore"}
MoveState == {"moving", "blocked", "cleared", "moved"}
CvState == {"replacing", "put", "listed", "swap", "unput"}
InFlight == BookState \cup MoveState \cup CvState \cup {"cancelling", "off"}

VARIABLES
  row,       \* of each application: none, live, or cancelled (isCancelled)
  at,        \* Application.start
  cv,        \* Application.cvKey, the current CV
  versions,  \* the ApplicationCv rows of each application
  event,     \* where the calendar has the event of each application
  attached,  \* the CVs attached to it
  files,     \* the stored CVs
  req,       \* each request: where it is and what it has read
  excused,   \* history: applications the code knows or could know to differ
  stray      \* history: identifiers a failure may have left behind

rows == <<row, at, cv, versions>>
calendar == <<event, attached>>
vars == <<rows, calendar, files, req, excused, stray>>

Overlap(s, t) == s < t + Duration /\ t < s + Duration

(* What a free/busy read answers: intervals, without their events. *)
Busy == {event[a] : a \in App} \ {None}

IsFree(t) == \A s \in Busy : ~Overlap(s, t)

(* Mutant of IsFreeExcept: only the time at which an interview begins.     *)
IsFreeStart(t, own) == t \notin Busy \ {own}

(* isFreeExcept and excludeOwnBooking: the own event is known by its       *)
(* interval, since no identifier comes with a free/busy read.              *)
IsFreeExcept(t, own) == \A s \in Busy \ {own} : ~Overlap(s, t)

HoldsExactly(own) == own \in Busy

Init ==
  /\ row = [a \in App |-> IF a \in Old THEN "live" ELSE "none"]
  /\ at \in [App -> Start \cup {None}]
  /\ \A a \in App : at[a] = None <=> a \notin Old
  /\ \A a, b \in Old : a # b => ~Overlap(at[a], at[b])
  /\ cv = [a \in App |-> IF a \in Old THEN a ELSE None]
  /\ versions = [a \in App |-> IF a \in Old THEN {a} ELSE {}]
  /\ event = at
  /\ attached = versions
  /\ files = Old
  /\ req = [r \in Request |-> [pc |-> "idle", app |-> None, from |-> None,
                               to |-> None, listed |-> {}, stale |-> FALSE]]
  /\ excused = {} /\ stray = {}

----------------------------------------------------------------------------
(* A request goes on.  Where a slot is taken, whoever found a slot free is *)
(* stale; where application a changes, whoever loaded it is, and whoever   *)
(* loads it while it is between the calendar and the row.                  *)

Goto(r, pc) == req' = [req EXCEPT ![r].pc = pc]

Deciding == {"free", "stored", "cleared"}

Notify(r, a, pc, taken) ==
  req' = [x \in Request |->
            IF x = r THEN [req[x] EXCEPT !.pc = pc]
            ELSE [req[x] EXCEPT !.stale =
                    @ \/ (taken /\ req[x].pc \in Deciding)
                      \/ (req[x].pc \in InFlight /\ req[x].app = a)]]

Taken(r, a, pc) == Notify(r, a, pc, TRUE)
Changed(r, a, pc) == Notify(r, a, pc, FALSE)

Excuse(r) == excused' = IF req[r].stale THEN excused \cup {req[r].app} ELSE excused

----------------------------------------------------------------------------
(* BookingService.book. *)

(* The vacancy is open and the candidate has no interview yet. *)
BookLoad(r) ==
  /\ r \in Booker /\ req[r].pc = "idle"
  /\ \E t \in Start :
       req' = [req EXCEPT ![r] = [pc |-> "loaded", app |-> r, from |-> None,
                                  to |-> t, listed |-> {}, stale |-> FALSE]]
  /\ UNCHANGED <<rows, calendar, files, excused, stray>>

BookCheck(r) ==
  /\ req[r].pc = "loaded"
  /\ Goto(r, IF IsFree(req[r].to) THEN "free" ELSE "done")
  /\ UNCHANGED <<rows, calendar, files, excused, stray>>

(* Refused: not offered, or the calendar does not answer. *)
Refuse(r) ==
  /\ req[r].pc \in {"loaded", "moving"}
  /\ "fail" \in Ops
  /\ Goto(r, "done")
  /\ UNCHANGED <<rows, calendar, files, excused, stray>>

BookStore(r) ==
  /\ req[r].pc = "free"
  /\ \/ files' = files \cup {r} /\ Goto(r, "stored") /\ UNCHANGED stray
     \/ "fail" \in Ops /\ Goto(r, "done") /\ UNCHANGED <<files, stray>>
     \/ "lost" \in Ops /\ files' = files \cup {r} /\ Goto(r, "done")
                       /\ stray' = stray \cup {r}
  /\ UNCHANGED <<rows, calendar, excused>>

(* The event, without its attachment yet. *)
BookCreate(r) ==
  /\ req[r].pc = "stored"
  /\ \/ /\ event' = [event EXCEPT ![r] = req[r].to]
        /\ Taken(r, r, "created")
        /\ Excuse(r)
        /\ UNCHANGED stray
     \/ /\ "fail" \in Ops
        /\ Goto(r, "unstore")
        /\ UNCHANGED <<event, excused, stray>>
     \/ /\ "lost" \in Ops
        /\ event' = [event EXCEPT ![r] = req[r].to]
        /\ Taken(r, r, "unstore")
        /\ Excuse(r)
        /\ stray' = stray \cup {r}
  /\ UNCHANGED <<rows, attached, files>>

BookAttach(r) ==
  /\ req[r].pc = "created"
  /\ \/ attached' = [attached EXCEPT ![r] = {r}] /\ Goto(r, "attached")
     \/ "fail" \in Ops /\ Goto(r, "uncreate") /\ UNCHANGED attached
     \/ "lost" \in Ops /\ attached' = [attached EXCEPT ![r] = {r}] /\ Goto(r, "uncreate")
  /\ UNCHANGED <<rows, event, files, excused, stray>>

(* writeBooking: candidate, application, log entry and version one. *)
BookWrite(r) ==
  /\ req[r].pc = "attached"
  /\ \/ /\ row' = [row EXCEPT ![r] = "live"]
        /\ at' = [at EXCEPT ![r] = req[r].to]
        /\ cv' = [cv EXCEPT ![r] = r]
        /\ versions' = [versions EXCEPT ![r] = {r}]
        /\ Goto(r, "done")
     \/ /\ "fail" \in Ops
        /\ Goto(r, "undo")
        /\ UNCHANGED rows
  /\ UNCHANGED <<calendar, files, excused, stray>>

(* Mutant of BookCancel: compensate stops when the event is gone. *)
BookCancelOnly(r) ==
  /\ req[r].pc \in {"uncreate", "undo"}
  /\ event' = [event EXCEPT ![r] = None]
  /\ attached' = [attached EXCEPT ![r] = {}]
  /\ Goto(r, "done")
  /\ UNCHANGED <<rows, files, excused, stray>>

(* The event is cancelled, by the adapter when it could not attach the CV, *)
(* or by compensate.  A failure is logged and no more.                     *)
BookCancel(r) ==
  /\ req[r].pc \in {"uncreate", "undo"}
  /\ \/ event' = [event EXCEPT ![r] = None] /\ attached' = [attached EXCEPT ![r] = {}]
        /\ UNCHANGED stray
     \/ "fail" \in Ops /\ stray' = stray \cup {r} /\ UNCHANGED calendar
  /\ Goto(r, "unstore")
  /\ UNCHANGED <<rows, files, excused>>

(* compensate: the stored CV is deleted. *)
BookUnstore(r) ==
  /\ req[r].pc = "unstore"
  /\ \/ files' = files \ {r} /\ UNCHANGED stray
     \/ "fail" \in Ops /\ stray' = stray \cup {r} /\ UNCHANGED files
  /\ Goto(r, "done")
  /\ UNCHANGED <<rows, calendar, excused>>

----------------------------------------------------------------------------
(* InterviewSchedulingService, for the candidate and for the team. *)

(* isLiveBooking; all times of the model are in the future. *)
LoadsLive(a) == row[a] = "live"

(* A move is under way between the calendar and the row. *)
BeingMoved(a) == \E m \in Mover : req[m].pc = "moved" /\ req[m].app = a

Load(m, pc) ==
  /\ m \in Mover /\ req[m].pc = "idle"
  /\ \E a \in App, t \in Start :
       /\ LoadsLive(a)
       /\ pc = "moving" => t # at[a]
       /\ pc # "moving" => t = at[a]
       /\ req' = [req EXCEPT ![m] = [pc |-> pc, app |-> a, from |-> at[a], to |-> t,
                                     listed |-> {}, stale |-> BeingMoved(a)]]
  /\ UNCHANGED <<rows, calendar, files, excused, stray>>

MoveCheck(m) ==
  /\ req[m].pc = "moving"
  /\ Goto(m, IF IsFreeExcept(req[m].to, req[m].from) THEN "cleared" ELSE "blocked")
  /\ UNCHANGED <<rows, calendar, files, excused, stray>>

(* Not free: slot_taken if the calendar has a block where the row says,    *)
(* else the event is taken to be on its target already.                    *)
MoveBlocked(m) ==
  /\ req[m].pc = "blocked"
  /\ Goto(m, IF HoldsExactly(req[m].from) THEN "done" ELSE "moved")
  /\ UNCHANGED <<rows, calendar, files, excused, stray>>

(* updateEvent: refused by the calendar if the event is gone. *)
MoveEvent(m) ==
  LET a == req[m].app IN
  /\ req[m].pc = "cleared"
  /\ \/ /\ event[a] # None
        /\ event' = [event EXCEPT ![a] = req[m].to]
        /\ Taken(m, a, "moved")
        /\ Excuse(m)
     \/ /\ "fail" \in Ops \/ event[a] = None
        /\ Goto(m, "done")
        /\ UNCHANGED <<event, excused>>
     \/ /\ "lost" \in Ops /\ event[a] # None
        /\ event' = [event EXCEPT ![a] = req[m].to]
        /\ Taken(m, a, "done")
        /\ excused' = excused \cup {a}
  /\ UNCHANGED <<rows, attached, files, stray>>

(* The row follows, whatever became of it since it was loaded.  When it    *)
(* does not, the divergence is logged.                                     *)
MoveWrite(m) ==
  LET a == req[m].app IN
  /\ req[m].pc = "moved"
  /\ \/ /\ at' = [at EXCEPT ![a] = req[m].to]
        /\ Changed(m, a, "done")
        /\ Excuse(m)
     \/ /\ "fail" \in Ops
        /\ Goto(m, "done")
        /\ excused' = excused \cup {a}
        /\ UNCHANGED at
  /\ UNCHANGED <<row, cv, versions, calendar, files, stray>>

(* Mutant of CancelEvent: the calendar's failure is swallowed. *)
CancelAnyway(m) ==
  LET a == req[m].app IN
  /\ req[m].pc = "cancelling"
  /\ \/ /\ event' = [event EXCEPT ![a] = None]
        /\ attached' = [attached EXCEPT ![a] = {}]
     \/ "fail" \in Ops /\ UNCHANGED calendar
  /\ Changed(m, a, "off")
  /\ UNCHANGED <<rows, files, excused, stray>>

(* cancelEvent succeeds when the event is gone already. *)
CancelEvent(m) ==
  LET a == req[m].app IN
  /\ req[m].pc = "cancelling"
  /\ \/ /\ event' = [event EXCEPT ![a] = None]
        /\ attached' = [attached EXCEPT ![a] = {}]
        /\ \/ Changed(m, a, "off")
           \/ "lost" \in Ops /\ Changed(m, a, "done")
     \/ /\ "fail" \in Ops
        /\ Goto(m, "done")
        /\ UNCHANGED calendar
  /\ UNCHANGED <<rows, files, excused, stray>>

CancelWrite(m) ==
  /\ req[m].pc = "off"
  /\ \/ row' = [row EXCEPT ![req[m].app] = "cancelled"]
     \/ "fail" \in Ops /\ UNCHANGED row
  /\ Goto(m, "done")
  /\ UNCHANGED <<at, cv, versions, calendar, files, excused, stray>>

----------------------------------------------------------------------------
(* CvReplacementService.replace. *)

CvPut(m) ==
  /\ req[m].pc = "replacing"
  /\ \/ files' = files \cup {m} /\ Goto(m, "put") /\ UNCHANGED stray
     \/ "fail" \in Ops /\ Goto(m, "done") /\ UNCHANGED <<files, stray>>
     \/ "lost" \in Ops /\ files' = files \cup {m} /\ Goto(m, "done")
                       /\ stray' = stray \cup {m}
  /\ UNCHANGED <<rows, calendar, excused>>

(* replaceAttachment lists what is attached, attaches the new CV, and      *)
(* deletes what it listed.                                                 *)
CvList(m) ==
  /\ req[m].pc = "put"
  /\ \/ /\ event[req[m].app] # None
        /\ req' = [req EXCEPT ![m].pc = "listed", ![m].listed = attached[req[m].app]]
     \/ /\ "fail" \in Ops \/ event[req[m].app] = None
        /\ Goto(m, "unput")
  /\ UNCHANGED <<rows, calendar, files, excused, stray>>

CvAttach(m) ==
  LET a == req[m].app IN
  /\ req[m].pc = "listed"
  /\ \/ /\ event[a] # None
        /\ attached' = [attached EXCEPT ![a] = @ \cup {m}]
        /\ \/ Goto(m, "swap")
           \/ "lost" \in Ops /\ Goto(m, "unput")
     \/ /\ "fail" \in Ops \/ event[a] = None
        /\ Goto(m, "unput")
        /\ UNCHANGED attached
  /\ UNCHANGED <<rows, event, files, excused, stray>>

(* Mutant of CvDetach: whatever is attached by now is deleted. *)
CvDetachAll(m) ==
  /\ req[m].pc = "swap"
  /\ req[m].listed # {}
  /\ attached' = [attached EXCEPT ![req[m].app] = {}]
  /\ req' = [req EXCEPT ![m].listed = {}]
  /\ UNCHANGED <<rows, event, files, excused, stray>>

(* One removal after another; one that fails is logged. *)
CvDetach(m) ==
  LET a == req[m].app IN
  /\ req[m].pc = "swap"
  /\ \E c \in req[m].listed :
       /\ req' = [req EXCEPT ![m].listed = @ \ {c}]
       /\ \/ attached' = [attached EXCEPT ![a] = @ \ {c}]
          \/ "fail" \in Ops /\ UNCHANGED attached
  /\ UNCHANGED <<rows, event, files, excused, stray>>

CvWrite(m) ==
  LET a == req[m].app IN
  /\ req[m].pc = "swap" /\ req[m].listed = {}
  /\ \/ /\ cv' = [cv EXCEPT ![a] = m]
        /\ versions' = [versions EXCEPT ![a] = @ \cup {m}]
        /\ UNCHANGED stray
     \/ /\ "fail" \in Ops
        /\ stray' = stray \cup {m}
        /\ UNCHANGED <<cv, versions>>
  /\ Goto(m, "done")
  /\ UNCHANGED <<row, at, calendar, files, excused>>

CvUnput(m) ==
  /\ req[m].pc = "unput"
  /\ \/ files' = files \ {m} /\ UNCHANGED stray
     \/ "fail" \in Ops /\ stray' = stray \cup {m} /\ UNCHANGED files
  /\ Goto(m, "done")
  /\ UNCHANGED <<rows, calendar, excused>>

----------------------------------------------------------------------------
(* The process dies: nothing is compensated, nothing is logged. *)
Crash(r) ==
  /\ "crash" \in Ops /\ req[r].pc \in InFlight
  /\ Goto(r, "done")
  /\ stray' = stray \cup {r}
  /\ excused' = IF req[r].pc = "moved" THEN excused \cup {req[r].app} ELSE excused
  /\ UNCHANGED <<rows, calendar, files>>

BookStep(r) ==
  \/ BookLoad(r) \/ BookCheck(r) \/ BookStore(r) \/ BookCreate(r) \/ BookAttach(r)
  \/ BookWrite(r) \/ BookCancel(r) \/ BookUnstore(r)

MoveStep(m) ==
  \/ Load(m, "moving") \/ MoveCheck(m) \/ MoveBlocked(m) \/ MoveEvent(m) \/ MoveWrite(m)
  \/ Load(m, "cancelling") \/ CancelEvent(m) \/ CancelWrite(m)

CvStep(m) ==
  \/ Load(m, "replacing") \/ CvPut(m) \/ CvList(m) \/ CvAttach(m) \/ CvDetach(m)
  \/ CvWrite(m) \/ CvUnput(m)

Next ==
  \E r \in Request : BookStep(r) \/ MoveStep(r) \/ CvStep(r) \/ Refuse(r) \/ Crash(r)

Spec == Init /\ [][Next]_vars

----------------------------------------------------------------------------
(* Every variable has its type. *)
TypeOK ==
  /\ row \in [App -> {"none", "live", "cancelled"}]
  /\ at \in [App -> Start \cup {None}]
  /\ cv \in [App -> Cv \cup {None}]
  /\ versions \in [App -> SUBSET Cv]
  /\ event \in [App -> Start \cup {None}]
  /\ attached \in [App -> SUBSET Cv]
  /\ files \subseteq Cv
  /\ req \in [Request ->
       [pc : InFlight \cup {"idle", "done"}, app : App \cup {None},
        from : Start \cup {None}, to : Start \cup {None},
        listed : SUBSET Cv, stale : BOOLEAN]]
  /\ excused \subseteq App /\ stray \subseteq Request

(* What the rows and the calendar say of an application together. *)
LifeOf(a) ==
  CASE row[a] = "none" /\ event[a] = None -> "none"
    [] row[a] = "none" /\ event[a] # None -> "placed"
    [] row[a] = "live" /\ event[a] # None -> "booked"
    [] row[a] = "live" /\ event[a] = None -> "off"
    [] row[a] = "cancelled" /\ event[a] = None -> "cancelled"
    [] OTHER -> "revived"

(* The calendar has every booked interview until it is called off, and an  *)
(* interview that was called off stays off, whatever moves, cancellations  *)
(* and retries cross each other (interview-scheduling.service.ts:74-89).   *)
Lifecycle == INSTANCE Interview WITH
  App <- App, life <- [a \in App |-> LifeOf(a)]
KeepsItsEvent == Lifecycle!Spec

(* Two interviews of the interviewer are at the same time, or a row says   *)
(* another time than the calendar, only if a step that was told or logged  *)
(* to have failed left it so, or if requests crossed each other            *)
(* (booking.service.ts:143-160, interview-scheduling.service.ts:156-244).  *)
CalendarExplained ==
  /\ \A a, b \in App :
       a # b /\ event[a] # None /\ event[b] # None /\ Overlap(event[a], event[b])
         => a \in excused \/ b \in excused
  /\ \A a \in App :
       row[a] = "live" /\ event[a] # None /\ at[a] # event[a]
         => a \in excused \/ BeingMoved(a)

(* The interviewer never finds a booked interview without a CV, also while *)
(* replacements run side by side (graph-calendar.provider.ts:203-240).     *)
NeverWithoutCv ==
  \A a \in App : row[a] # "none" /\ event[a] # None => attached[a] # {}

(* No orphan: an event or a CV without its row belongs to a request in     *)
(* progress, or to one whose undoing failed; and every version that a row  *)
(* names keeps its file (booking.service.ts:438-456,                       *)
(* cv-replacement.service.ts:35-41, 102-113).                              *)
NoOrphan ==
  /\ \A a \in App : row[a] = "none" /\ event[a] # None =>
       a \in stray \/ req[a].pc \in BookState
  /\ \A c \in files : (\A a \in App : c \notin versions[a]) =>
       c \in stray \/ req[c].pc \in InFlight
  /\ \A a \in App : versions[a] \subseteq files /\ (row[a] # "none" => cv[a] \in versions[a])
=============================================================================
