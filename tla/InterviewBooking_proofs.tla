---------------------- MODULE InterviewBooking_proofs -----------------------
(***************************************************************************)
(* Whatever crosses in the hiring calendar, an interview lives the life    *)
(* that Interview describes, has a CV, leaves nothing behind, and is       *)
(* double-booked or misdated only where a failed step said so or requests  *)
(* crossed.                                                                *)
(***************************************************************************)
EXTENDS InterviewBooking, TLAPS

Pc == InFlight \cup {"idle", "done"}

ReqType ==
  [pc : Pc, app : App \cup {None}, from : Start \cup {None}, to : Start \cup {None},
   listed : SUBSET Cv, stale : BOOLEAN]

(* Request r has gone to pc, and nothing else has changed of any request   *)
(* but its staleness, and what r has listed.                               *)
After(r, pc) ==
  /\ req' \in [Request -> ReqType]
  /\ req'[r].pc = pc
  /\ \A x \in Request : /\ x # r => req'[x].pc = req[x].pc
                                     /\ req'[x].listed = req[x].listed
                        /\ req'[x].app = req[x].app /\ req'[x].from = req[x].from
                        /\ req'[x].to = req[x].to

LEMMA GotoAfter ==
  ASSUME TypeOK, NEW r \in Request, NEW pc \in Pc, Goto(r, pc)
  PROVE  /\ After(r, pc)
         /\ \A x \in Request : req'[x].stale = req[x].stale /\ req'[x].listed = req[x].listed
<1>1. req \in [Request -> ReqType]
  BY DEF TypeOK, ReqType, Pc
<1>2. \A x \in Request : req'[x] = IF x = r THEN [req[x] EXCEPT !.pc = pc] ELSE req[x]
  BY <1>1 DEF Goto
<1>3. [req[r] EXCEPT !.pc = pc] \in ReqType
  BY <1>1 DEF ReqType
<1>4. req' \in [Request -> ReqType]
  BY <1>1, <1>3 DEF Goto
<1> QED BY <1>1, <1>2, <1>4 DEF After, ReqType

(* The same when others learn that what they have read is stale.           *)
LEMMA NotifyAfter ==
  ASSUME TypeOK, NEW r \in Request, NEW a \in App, NEW pc \in Pc, NEW taken \in BOOLEAN,
         Notify(r, a, pc, taken)
  PROVE  /\ After(r, pc)
         /\ req'[r].stale = req[r].stale /\ req'[r].listed = req[r].listed
         /\ \A x \in Request : x # r =>
              (req'[x].stale <=> \/ req[x].stale
                                 \/ taken /\ req[x].pc \in Deciding
                                 \/ req[x].pc \in InFlight /\ req[x].app = a)
<1>1. req \in [Request -> ReqType]
  BY DEF TypeOK, ReqType, Pc
<1> DEFINE st(x) == \/ req[x].stale \/ (taken /\ req[x].pc \in Deciding)
                    \/ (req[x].pc \in InFlight /\ req[x].app = a)
           new(x) == IF x = r THEN [req[x] EXCEPT !.pc = pc] ELSE [req[x] EXCEPT !.stale = st(x)]
<1>2. req' = [x \in Request |-> new(x)]
  BY DEF Notify
<1>3. \A x \in Request : st(x) \in BOOLEAN
  OBVIOUS
<1> HIDE DEF st
<1>4. \A x \in Request : new(x) \in ReqType
  BY <1>1, <1>3 DEF ReqType
<1>5. req' \in [Request -> ReqType] /\ \A x \in Request : req'[x] = new(x)
  BY <1>2, <1>4
<1>6. \A x \in Request : x # r => req'[x].stale = st(x)
  BY <1>1, <1>3, <1>5 DEF ReqType
<1>7. After(r, pc) /\ req'[r].stale = req[r].stale /\ req'[r].listed = req[r].listed
  BY <1>1, <1>3, <1>5 DEF After, ReqType
<1> QED BY <1>6, <1>7 DEF st

----------------------------------------------------------------------------
(* What a booking has done so far can be told from where it is. *)
BookShape(b) ==
  /\ req[b].pc \in BookState \cup {"idle", "done"}
  /\ req[b].pc \in BookState => req[b].app = b /\ req[b].to \in Start
  /\ req[b].pc \in BookState \cup {"idle"} => row[b] = "none"
  /\ req[b].pc \in {"idle", "loaded", "free", "stored"} => event[b] = None
  /\ req[b].pc \in {"created", "attached"} => event[b] = req[b].to
  /\ req[b].pc = "attached" => attached[b] = {b}

(* A request on an application has loaded a row, and rows are never lost.  *)
MoveShape(m) ==
  /\ req[m].pc \notin BookState
  /\ req[m].pc \in InFlight =>
       /\ req[m].app \in App /\ req[m].from \in Start /\ req[m].to \in Start
       /\ row[req[m].app] # "none"
  /\ req[m].pc = "off" => event[req[m].app] = None

LifeShape(a) ==
  /\ a \in Old => row[a] # "none"
  /\ row[a] # "none" => at[a] \in Start
  /\ row[a] = "cancelled" => event[a] = None

Shape ==
  /\ \A b \in Booker : BookShape(b)
  /\ \A m \in Mover : MoveShape(m)
  /\ \A a \in App : LifeShape(a)

Inv == TypeOK /\ Shape

LEMMA InitInv == Init => Inv
<1> SUFFICES ASSUME Init PROVE Inv
  OBVIOUS
<1>1. \A r \in Request : req[r] = [pc |-> "idle", app |-> None, from |-> None,
                                   to |-> None, listed |-> {}, stale |-> FALSE]
  BY DEF Init
<1>2. req \in [Request -> ReqType]
  BY DEF Init, ReqType, Pc
<1>3. TypeOK
  BY <1>2 DEF Init, TypeOK, ReqType, Pc, Cv, App, Request
<1>4. \A b \in Booker : BookShape(b)
  BY <1>1, IdAssumption DEF Init, BookShape, BookState, App, Request
<1>5. \A m \in Mover : MoveShape(m)
  BY <1>1 DEF MoveShape, InFlight, BookState, MoveState, CvState, Request
<1>6. \A a \in App : LifeShape(a)
  BY DEF Init, LifeShape
<1> QED BY <1>3, <1>4, <1>5, <1>6 DEF Inv, Shape

(* Nothing another process knows changes with a booking: nobody has        *)
(* loaded the application that it is about to create.                      *)
LEMMA OthersKept ==
  ASSUME Inv, NEW r \in Booker, NEW pc \in Pc, After(r, pc),
         req[r].pc \in BookState,
         \A a \in App \ {r} : /\ row'[a] = row[a] /\ at'[a] = at[a]
                             /\ event'[a] = event[a] /\ attached'[a] = attached[a]
  PROVE  /\ \A b \in Booker \ {r} : BookShape(b)'
         /\ \A m \in Mover : MoveShape(m)'
         /\ \A a \in App \ {r} : LifeShape(a)'
<1>1. r \in Request /\ r \in App /\ row[r] = "none"
  BY DEF Inv, Shape, BookShape, Request, App
<1>2. \A m \in Mover : m # r /\ m \in Request /\ (req[m].pc \in InFlight => req[m].app # r)
  BY <1>1, IdAssumption DEF Inv, Shape, MoveShape, Request
<1>3. \A b \in Booker \ {r} : BookShape(b)'
  BY DEF Inv, Shape, BookShape, After, App, Request
<1>4. \A m \in Mover : MoveShape(m)'
  <2> TAKE m \in Mover
  <2>1. MoveShape(m) /\ req'[m].pc = req[m].pc /\ req'[m].app = req[m].app
        /\ req'[m].from = req[m].from /\ req'[m].to = req[m].to
    BY <1>2 DEF Inv, Shape, After
  <2>2. req[m].pc \in InFlight => row'[req[m].app] = row[req[m].app]
                                 /\ event'[req[m].app] = event[req[m].app]
    BY <1>2, <2>1 DEF MoveShape
  <2>3. "off" \in InFlight
    BY DEF InFlight
  <2> QED BY <2>1, <2>2, <2>3 DEF MoveShape
<1> QED BY <1>3, <1>4 DEF Inv, Shape, LifeShape

(* Every step of a booking keeps the invariant.                            *)
LEMMA BookInv ==
  ASSUME Inv, NEW r \in Request, BookStep(r)
  PROVE  Inv'
<1> USE DEF Inv
<1>1. r \in Booker /\ r \in App
  BY DEF BookStep, BookLoad, BookCheck, BookStore, BookCreate, BookAttach, BookWrite,
         BookCancel, BookUnstore, Shape, MoveShape, BookState, Request, App
<1>2. BookShape(r) /\ LifeShape(r)
  BY <1>1 DEF Shape
<1>3. CASE BookLoad(r)
  <2>1. PICK t \in Start :
          req' = [req EXCEPT ![r] = [pc |-> "loaded", app |-> r, from |-> None,
                                     to |-> t, listed |-> {}, stale |-> FALSE]]
    BY <1>3 DEF BookLoad
  <2>2. TypeOK'
    BY <1>1, <1>3, <2>1 DEF TypeOK, BookLoad, rows, calendar, InFlight, BookState
  <2>3. req'[r].pc = "loaded" /\ req'[r].app = r /\ req'[r].to = t
    BY <2>1 DEF TypeOK
  <2>4. \A x \in Request : x # r => req'[x] = req[x]
    BY <2>1 DEF TypeOK
  <2>5. BookShape(r)'
    BY <1>2, <1>3, <2>3 DEF BookLoad, BookShape, rows, calendar, BookState
  <2>6. \A m \in Mover : m # r
    BY <1>1, IdAssumption
  <2> QED BY <1>3, <2>2, <2>3, <2>4, <2>5, <2>6
          DEF BookLoad, Shape, BookShape, MoveShape, LifeShape, rows, calendar, Request
<1>4. CASE BookCheck(r)
  <2>0. req[r].pc \in BookState
    BY <1>4 DEF BookCheck, BookState
  <2>1. PICK pc \in {"free", "done"} :
          /\ After(r, pc)
          /\ UNCHANGED <<row, at, event, attached>>
    BY <1>1, <1>4, GotoAfter
    DEF BookCheck, rows, calendar, BookState, InFlight, Pc
  <2>2. TypeOK'
    BY <1>1, <1>2, <1>4, <2>0, <2>1
    DEF TypeOK, BookCheck, rows, calendar, After, ReqType, Pc, BookShape, Cv, Request
  <2>3. BookShape(r)' /\ LifeShape(r)'
    BY <1>1, <1>2, <1>4, <2>0, <2>1, TimeAssumption
    DEF BookCheck, BookShape, LifeShape, After, BookState, TypeOK, rows, Request
  <2>4. \A a \in App \ {r} : /\ row'[a] = row[a] /\ at'[a] = at[a]
                             /\ event'[a] = event[a] /\ attached'[a] = attached[a]
    BY <2>1 DEF TypeOK, rows
  <2>5. pc \in Pc
    BY <2>1 DEF Pc, InFlight, BookState
  <2> QED BY <1>1, <2>0, <2>1, <2>2, <2>3, <2>4, <2>5, OthersKept DEF Shape
<1>5. CASE BookStore(r)
  <2>0. req[r].pc \in BookState
    BY <1>5 DEF BookStore, BookState
  <2>1. PICK pc \in {"stored", "done"} :
          /\ After(r, pc)
          /\ UNCHANGED <<row, at, event, attached>>
    BY <1>1, <1>5, GotoAfter
    DEF BookStore, rows, calendar, BookState, InFlight, Pc
  <2>2. TypeOK'
    BY <1>1, <1>2, <1>5, <2>0, <2>1
    DEF TypeOK, BookStore, rows, calendar, After, ReqType, Pc, BookShape, Cv, Request
  <2>3. BookShape(r)' /\ LifeShape(r)'
    BY <1>1, <1>2, <1>5, <2>0, <2>1, TimeAssumption
    DEF BookStore, BookShape, LifeShape, After, BookState, TypeOK, rows, Request
  <2>4. \A a \in App \ {r} : /\ row'[a] = row[a] /\ at'[a] = at[a]
                             /\ event'[a] = event[a] /\ attached'[a] = attached[a]
    BY <2>1 DEF TypeOK, rows
  <2>5. pc \in Pc
    BY <2>1 DEF Pc, InFlight, BookState
  <2> QED BY <1>1, <2>0, <2>1, <2>2, <2>3, <2>4, <2>5, OthersKept DEF Shape
<1>6. CASE BookCreate(r)
  <2>0. req[r].pc \in BookState
    BY <1>6 DEF BookCreate, BookState
  <2>1. PICK pc \in {"created", "unstore"} :
          /\ After(r, pc)
          /\ UNCHANGED <<row, at, attached>>
          /\ event' = [event EXCEPT ![r] = req[r].to] \/ (event' = event /\ pc = "unstore")
    BY <1>1, <1>6, GotoAfter, NotifyAfter
    DEF BookCreate, rows, calendar, Taken, BookState, InFlight, Pc
  <2>2. TypeOK'
    BY <1>1, <1>2, <1>6, <2>0, <2>1
    DEF TypeOK, BookCreate, rows, calendar, After, ReqType, Pc, BookShape, Cv, Request, Excuse
  <2>3. BookShape(r)' /\ LifeShape(r)'
    BY <1>1, <1>2, <1>6, <2>0, <2>1, TimeAssumption
    DEF BookCreate, BookShape, LifeShape, After, BookState, TypeOK, rows, Request
  <2>4. \A a \in App \ {r} : /\ row'[a] = row[a] /\ at'[a] = at[a]
                             /\ event'[a] = event[a] /\ attached'[a] = attached[a]
    BY <2>1 DEF TypeOK, rows
  <2>5. pc \in Pc
    BY <2>1 DEF Pc, InFlight, BookState
  <2> QED BY <1>1, <2>0, <2>1, <2>2, <2>3, <2>4, <2>5, OthersKept DEF Shape
<1>7. CASE BookAttach(r)
  <2>0. req[r].pc \in BookState
    BY <1>7 DEF BookAttach, BookState
  <2>1. PICK pc \in {"attached", "uncreate"} :
          /\ After(r, pc)
          /\ UNCHANGED <<row, at, event>>
          /\ attached' = [attached EXCEPT ![r] = {r}] \/ (attached' = attached /\ pc = "uncreate")
    BY <1>1, <1>7, GotoAfter
    DEF BookAttach, rows, calendar, BookState, InFlight, Pc
  <2>2. TypeOK'
    BY <1>1, <1>2, <1>7, <2>0, <2>1
    DEF TypeOK, BookAttach, rows, calendar, After, ReqType, Pc, BookShape, Cv, Request
  <2>3. BookShape(r)' /\ LifeShape(r)'
    BY <1>1, <1>2, <1>7, <2>0, <2>1, TimeAssumption
    DEF BookAttach, BookShape, LifeShape, After, BookState, TypeOK, rows, Request
  <2>4. \A a \in App \ {r} : /\ row'[a] = row[a] /\ at'[a] = at[a]
                             /\ event'[a] = event[a] /\ attached'[a] = attached[a]
    BY <2>1 DEF TypeOK, rows
  <2>5. pc \in Pc
    BY <2>1 DEF Pc, InFlight, BookState
  <2> QED BY <1>1, <2>0, <2>1, <2>2, <2>3, <2>4, <2>5, OthersKept DEF Shape
<1>8. CASE BookWrite(r)
  <2>0. req[r].pc \in BookState
    BY <1>8 DEF BookWrite, BookState
  <2>1. PICK pc \in {"done", "undo"} :
          /\ After(r, pc)
          /\ UNCHANGED <<event, attached>>
          /\ \/ row' = [row EXCEPT ![r] = "live"] /\ at' = [at EXCEPT ![r] = req[r].to]
                /\ cv' = [cv EXCEPT ![r] = r] /\ versions' = [versions EXCEPT ![r] = {r}]
                /\ pc = "done"
             \/ UNCHANGED rows /\ pc = "undo"
    BY <1>1, <1>8, GotoAfter
    DEF BookWrite, rows, calendar, BookState, InFlight, Pc
  <2>2. TypeOK'
    <3>1. r \in Cv /\ req[r].to \in Start
      BY <1>1, <1>2, <2>0 DEF Cv, BookShape
    <3>2. row' \in [App -> {"none", "live", "cancelled"}] /\ at' \in [App -> Start \cup {None}]
      BY <1>1, <2>1, <3>1 DEF TypeOK, rows
    <3>3. cv' \in [App -> Cv \cup {None}] /\ versions' \in [App -> SUBSET Cv]
      BY <1>1, <2>1, <3>1 DEF TypeOK, rows
    <3> QED BY <1>8, <2>1, <3>2, <3>3 DEF TypeOK, BookWrite, calendar, After, ReqType, Pc
  <2>3. BookShape(r)' /\ LifeShape(r)'
    BY <1>1, <1>2, <1>8, <2>0, <2>1, TimeAssumption
    DEF BookWrite, BookShape, LifeShape, After, BookState, TypeOK, rows, Request
  <2>4. \A a \in App \ {r} : /\ row'[a] = row[a] /\ at'[a] = at[a]
                             /\ event'[a] = event[a] /\ attached'[a] = attached[a]
    BY <2>1 DEF TypeOK, rows
  <2>5. pc \in Pc
    BY <2>1 DEF Pc, InFlight, BookState
  <2> QED BY <1>1, <2>0, <2>1, <2>2, <2>3, <2>4, <2>5, OthersKept DEF Shape
<1>9. CASE BookCancel(r)
  <2>0. req[r].pc \in BookState
    BY <1>9 DEF BookCancel, BookState
  <2>1. PICK pc \in {"unstore"} :
          /\ After(r, pc)
          /\ UNCHANGED <<row, at>>
          /\ \/ event' = [event EXCEPT ![r] = None] /\ attached' = [attached EXCEPT ![r] = {}]
             \/ UNCHANGED <<event, attached>>
    BY <1>1, <1>9, GotoAfter
    DEF BookCancel, rows, calendar, BookState, InFlight, Pc
  <2>2. TypeOK'
    BY <1>1, <1>2, <1>9, <2>0, <2>1
    DEF TypeOK, BookCancel, rows, calendar, After, ReqType, Pc, BookShape, Cv, Request
  <2>3. BookShape(r)' /\ LifeShape(r)'
    BY <1>1, <1>2, <1>9, <2>0, <2>1, TimeAssumption
    DEF BookCancel, BookShape, LifeShape, After, BookState, TypeOK, rows, Request
  <2>4. \A a \in App \ {r} : /\ row'[a] = row[a] /\ at'[a] = at[a]
                             /\ event'[a] = event[a] /\ attached'[a] = attached[a]
    BY <2>1 DEF TypeOK, rows
  <2>5. pc \in Pc
    BY <2>1 DEF Pc, InFlight, BookState
  <2> QED BY <1>1, <2>0, <2>1, <2>2, <2>3, <2>4, <2>5, OthersKept DEF Shape
<1>10. CASE BookUnstore(r)
  <2>0. req[r].pc \in BookState
    BY <1>10 DEF BookUnstore, BookState
  <2>1. PICK pc \in {"done"} :
          /\ After(r, pc)
          /\ UNCHANGED <<row, at, event, attached>>
    BY <1>1, <1>10, GotoAfter
    DEF BookUnstore, rows, calendar, BookState, InFlight, Pc
  <2>2. TypeOK'
    BY <1>1, <1>2, <1>10, <2>0, <2>1
    DEF TypeOK, BookUnstore, rows, calendar, After, ReqType, Pc, BookShape, Cv, Request
  <2>3. BookShape(r)' /\ LifeShape(r)'
    BY <1>1, <1>2, <1>10, <2>0, <2>1, TimeAssumption
    DEF BookUnstore, BookShape, LifeShape, After, BookState, TypeOK, rows, Request
  <2>4. \A a \in App \ {r} : /\ row'[a] = row[a] /\ at'[a] = at[a]
                             /\ event'[a] = event[a] /\ attached'[a] = attached[a]
    BY <2>1 DEF TypeOK, rows
  <2>5. pc \in Pc
    BY <2>1 DEF Pc, InFlight, BookState
  <2> QED BY <1>1, <2>0, <2>1, <2>2, <2>3, <2>4, <2>5, OthersKept DEF Shape
<1> QED BY <1>3, <1>4, <1>5, <1>6, <1>7, <1>8, <1>9, <1>10 DEF BookStep

----------------------------------------------------------------------------
(* A step on an application that has a row: it touches that application    *)
(* only, never removes the row, and never puts an event back.              *)
Touches(m, pc) ==
  LET a == req[m].app IN
  /\ After(m, pc)
  /\ \A b \in App : row'[b] = "none" <=> row[b] = "none"
  /\ \A b \in App \ {a} : /\ row'[b] = row[b] /\ at'[b] = at[b]
                          /\ event'[b] = event[b] /\ attached'[b] = attached[b]
  /\ at'[a] \in Start
  /\ event[a] = None => event'[a] = None
  /\ row'[a] = "cancelled" \/ pc = "off" => event'[a] = None

LEMMA TouchesShape ==
  ASSUME Inv, NEW m \in Mover, NEW pc \in Pc \ BookState, req[m].pc \in InFlight,
         Touches(m, pc)
  PROVE  Shape'
<1> DEFINE a == req[m].app
<1>1. m \in Request /\ MoveShape(m) /\ a \in App /\ row[a] # "none"
  BY DEF Inv, Shape, MoveShape, Request
<1>2. \A b \in Booker : BookShape(b)'
  <2> TAKE b \in Booker
  <2>1. b \in Request /\ b \in App /\ b # m /\ BookShape(b)
    BY IdAssumption DEF Inv, Shape, Request, App
  <2>2. req[b].pc \in BookState \cup {"idle"} => b # a
    BY <1>1, <2>1 DEF BookShape
  <2>3. req'[b].pc = req[b].pc /\ req'[b].app = req[b].app /\ req'[b].to = req[b].to
    BY <2>1 DEF Touches, After
  <2>4. b # a => event'[b] = event[b] /\ attached'[b] = attached[b] /\ row'[b] = row[b]
    BY <2>1 DEF Touches
  <2> HIDE DEF a
  <2> QED BY <2>1, <2>2, <2>3, <2>4 DEF BookShape, BookState
<1>3. \A n \in Mover : MoveShape(n)'
  <2> TAKE n \in Mover
  <2>1. n \in Request /\ MoveShape(n)
    BY DEF Inv, Shape, Request
  <2>2. /\ req'[n].app = req[n].app /\ req'[n].from = req[n].from /\ req'[n].to = req[n].to
        /\ IF n = m THEN req'[n].pc = pc ELSE req'[n].pc = req[n].pc
    BY <2>1 DEF Touches, After
  <2>3. req[n].pc \in InFlight => row'[req[n].app] # "none"
    BY <2>1 DEF MoveShape, Touches
  <2>4. n # m /\ req[n].pc = "off" => event'[req[n].app] = None
    BY <2>1 DEF MoveShape, Touches, InFlight
  <2>5. n = m /\ pc = "off" => event'[req[n].app] = None
    BY DEF Touches
  <2> QED BY <2>1, <2>2, <2>3, <2>4, <2>5 DEF MoveShape
<1>4. \A b \in App : LifeShape(b)'
  BY <1>1 DEF Inv, Shape, LifeShape, Touches
<1> QED BY <1>2, <1>3, <1>4 DEF Shape

(* Loading an application for a move, a cancellation or a new CV.          *)
LEMMA LoadInv ==
  ASSUME Inv, NEW m \in Request, NEW pc \in {"moving", "cancelling", "replacing"}, Load(m, pc)
  PROVE  Inv'
<1> USE DEF Inv
<1>1. m \in Mover /\ req[m].pc = "idle"
  BY DEF Load
<1>2. PICK a \in App, t \in Start :
        /\ row[a] = "live"
        /\ req' = [req EXCEPT ![m] = [pc |-> pc, app |-> a, from |-> at[a], to |-> t,
                                     listed |-> {}, stale |-> BeingMoved(a)]]
  BY DEF Load, LoadsLive
<1>3. at[a] \in Start /\ BeingMoved(a) \in BOOLEAN
  BY <1>2 DEF Shape, LifeShape, BeingMoved
<1>4. UNCHANGED <<rows, calendar, files, excused, stray>>
  BY DEF Load
<1>5. TypeOK'
  BY <1>2, <1>3, <1>4 DEF TypeOK, rows, calendar, InFlight, MoveState, CvState
<1>6. /\ req'[m].pc = pc /\ req'[m].app = a /\ req'[m].to = t /\ req'[m].from = at[a]
      /\ \A x \in Request : x # m => req'[x] = req[x]
  BY <1>2 DEF TypeOK
<1>7. \A b \in Booker : b # m /\ b \in Request
  BY <1>1, IdAssumption DEF Request
<1>8. pc \notin BookState /\ pc # "off"
  BY DEF BookState
<1>9. MoveShape(m)'
  BY <1>2, <1>3, <1>4, <1>6, <1>8 DEF MoveShape, rows
<1> QED BY <1>4, <1>5, <1>6, <1>7, <1>9
        DEF Shape, BookShape, MoveShape, LifeShape, rows, calendar, Request

(* A move.                                                                 *)
LEMMA MoveInv ==
  ASSUME Inv, NEW m \in Request, MoveCheck(m) \/ MoveBlocked(m) \/ MoveEvent(m) \/ MoveWrite(m)
  PROVE  Inv'
<1> USE DEF Inv
<1>1. CASE MoveCheck(m)
  <2>1. m \in Mover /\ req[m].pc \in InFlight /\ MoveShape(m)
    BY <1>1 DEF MoveCheck, Shape, BookShape, BookState, InFlight, MoveState, CvState, Request
  <2>2. req[m].app \in App /\ req[m].to \in Start /\ row[req[m].app] # "none"
        /\ at[req[m].app] \in Start /\ LifeShape(req[m].app)
    BY <2>1 DEF Shape, MoveShape, LifeShape
  <2>3. PICK pc \in {"cleared", "blocked"} : After(m, pc)
    BY <1>1, <2>2, GotoAfter
    DEF MoveCheck, InFlight, BookState, MoveState, CvState, Pc
  <2>4. TypeOK'
    BY <1>1, <2>1, <2>2, <2>3
    DEF TypeOK, MoveCheck, rows, calendar, After, ReqType, Pc, Cv, Request
  <2>5. Touches(m, pc)
    BY <1>1, <2>1, <2>2, <2>3 DEF MoveCheck, Touches, MoveShape, LifeShape, TypeOK, rows, calendar
  <2>6. pc \in Pc \ BookState
    BY <2>3 DEF Pc, InFlight, BookState, MoveState, CvState
  <2> QED BY <2>1, <2>4, <2>5, <2>6, TouchesShape
<1>2. CASE MoveBlocked(m)
  <2>1. m \in Mover /\ req[m].pc \in InFlight /\ MoveShape(m)
    BY <1>2 DEF MoveBlocked, Shape, BookShape, BookState, InFlight, MoveState, CvState, Request
  <2>2. req[m].app \in App /\ req[m].to \in Start /\ row[req[m].app] # "none"
        /\ at[req[m].app] \in Start /\ LifeShape(req[m].app)
    BY <2>1 DEF Shape, MoveShape, LifeShape
  <2>3. PICK pc \in {"done", "moved"} : After(m, pc)
    BY <1>2, <2>2, GotoAfter
    DEF MoveBlocked, InFlight, BookState, MoveState, CvState, Pc
  <2>4. TypeOK'
    BY <1>2, <2>1, <2>2, <2>3
    DEF TypeOK, MoveBlocked, rows, calendar, After, ReqType, Pc, Cv, Request
  <2>5. Touches(m, pc)
    BY <1>2, <2>1, <2>2, <2>3 DEF MoveBlocked, Touches, MoveShape, LifeShape, TypeOK, rows, calendar
  <2>6. pc \in Pc \ BookState
    BY <2>3 DEF Pc, InFlight, BookState, MoveState, CvState
  <2> QED BY <2>1, <2>4, <2>5, <2>6, TouchesShape
<1>3. CASE MoveEvent(m)
  <2>1. m \in Mover /\ req[m].pc \in InFlight /\ MoveShape(m)
    BY <1>3 DEF MoveEvent, Shape, BookShape, BookState, InFlight, MoveState, CvState, Request
  <2>2. req[m].app \in App /\ req[m].to \in Start /\ row[req[m].app] # "none"
        /\ at[req[m].app] \in Start /\ LifeShape(req[m].app)
    BY <2>1 DEF Shape, MoveShape, LifeShape
  <2>3. PICK pc \in {"moved", "done"} : After(m, pc)
    BY <1>3, <2>2, GotoAfter, NotifyAfter
    DEF MoveEvent, InFlight, BookState, MoveState, CvState, Pc, Taken, Changed
  <2>4. TypeOK'
    BY <1>3, <2>1, <2>2, <2>3
    DEF TypeOK, MoveEvent, rows, calendar, After, ReqType, Pc, Cv, Request, Excuse
  <2>5. Touches(m, pc)
    BY <1>3, <2>1, <2>2, <2>3 DEF MoveEvent, Touches, MoveShape, LifeShape, TypeOK, rows, calendar
  <2>6. pc \in Pc \ BookState
    BY <2>3 DEF Pc, InFlight, BookState, MoveState, CvState
  <2> QED BY <2>1, <2>4, <2>5, <2>6, TouchesShape
<1>4. CASE MoveWrite(m)
  <2>1. m \in Mover /\ req[m].pc \in InFlight /\ MoveShape(m)
    BY <1>4 DEF MoveWrite, Shape, BookShape, BookState, InFlight, MoveState, CvState, Request
  <2>2. req[m].app \in App /\ req[m].to \in Start /\ row[req[m].app] # "none"
        /\ at[req[m].app] \in Start /\ LifeShape(req[m].app)
    BY <2>1 DEF Shape, MoveShape, LifeShape
  <2>3. PICK pc \in {"done"} : After(m, pc)
    BY <1>4, <2>2, GotoAfter, NotifyAfter
    DEF MoveWrite, InFlight, BookState, MoveState, CvState, Pc, Taken, Changed
  <2>4. TypeOK'
    BY <1>4, <2>1, <2>2, <2>3
    DEF TypeOK, MoveWrite, rows, calendar, After, ReqType, Pc, Cv, Request, Excuse
  <2>5. Touches(m, pc)
    BY <1>4, <2>1, <2>2, <2>3 DEF MoveWrite, Touches, MoveShape, LifeShape, TypeOK, rows, calendar
  <2>6. pc \in Pc \ BookState
    BY <2>3 DEF Pc, InFlight, BookState, MoveState, CvState
  <2> QED BY <2>1, <2>4, <2>5, <2>6, TouchesShape
<1> QED BY <1>1, <1>2, <1>3, <1>4

(* A cancellation.                                                         *)
LEMMA CancelInv ==
  ASSUME Inv, NEW m \in Request, CancelEvent(m) \/ CancelWrite(m)
  PROVE  Inv'
<1> USE DEF Inv
<1>1. CASE CancelEvent(m)
  <2>1. m \in Mover /\ req[m].pc \in InFlight /\ MoveShape(m)
    BY <1>1 DEF CancelEvent, Shape, BookShape, BookState, InFlight, MoveState, CvState, Request
  <2>2. req[m].app \in App /\ req[m].to \in Start /\ row[req[m].app] # "none"
        /\ at[req[m].app] \in Start /\ LifeShape(req[m].app)
    BY <2>1 DEF Shape, MoveShape, LifeShape
  <2>3. PICK pc \in {"off", "done"} : After(m, pc)
          /\ (pc = "off" => event' = [event EXCEPT ![req[m].app] = None])
    BY <1>1, <2>2, GotoAfter, NotifyAfter
    DEF CancelEvent, InFlight, BookState, MoveState, CvState, Pc, Taken, Changed
  <2>4. TypeOK'
    BY <1>1, <2>1, <2>2, <2>3
    DEF TypeOK, CancelEvent, rows, calendar, After, ReqType, Pc, Cv, Request, Excuse
  <2>5. Touches(m, pc)
    BY <1>1, <2>1, <2>2, <2>3 DEF CancelEvent, Touches, MoveShape, LifeShape, TypeOK, rows, calendar
  <2>6. pc \in Pc \ BookState
    BY <2>3 DEF Pc, InFlight, BookState, MoveState, CvState
  <2> QED BY <2>1, <2>4, <2>5, <2>6, TouchesShape
<1>2. CASE CancelWrite(m)
  <2>1. m \in Mover /\ req[m].pc \in InFlight /\ MoveShape(m)
    BY <1>2 DEF CancelWrite, Shape, BookShape, BookState, InFlight, MoveState, CvState, Request
  <2>2. req[m].app \in App /\ req[m].to \in Start /\ row[req[m].app] # "none"
        /\ at[req[m].app] \in Start /\ LifeShape(req[m].app)
    BY <2>1 DEF Shape, MoveShape, LifeShape
  <2>3. PICK pc \in {"done"} : After(m, pc)
    BY <1>2, <2>2, GotoAfter
    DEF CancelWrite, InFlight, BookState, MoveState, CvState, Pc
  <2>4. TypeOK'
    BY <1>2, <2>1, <2>2, <2>3
    DEF TypeOK, CancelWrite, rows, calendar, After, ReqType, Pc, Cv, Request
  <2>5. Touches(m, pc)
    BY <1>2, <2>1, <2>2, <2>3 DEF CancelWrite, Touches, MoveShape, LifeShape, TypeOK, rows, calendar
  <2>6. pc \in Pc \ BookState
    BY <2>3 DEF Pc, InFlight, BookState, MoveState, CvState
  <2> QED BY <2>1, <2>4, <2>5, <2>6, TouchesShape
<1> QED BY <1>1, <1>2

(* The same when a request lists what is attached, or has removed one.     *)
LEMMA ListedAfter ==
  ASSUME TypeOK, NEW r \in Request, NEW pc \in Pc, NEW l \in SUBSET Cv,
         req' = [req EXCEPT ![r].pc = pc, ![r].listed = l]
  PROVE  After(r, pc) /\ req'[r].listed = l /\ \A x \in Request : req'[x].stale = req[x].stale
<1>1. req \in [Request -> ReqType]
  BY DEF TypeOK, ReqType, Pc
<1>2. \A x \in Request :
        req'[x] = IF x = r THEN [req[x] EXCEPT !.pc = pc, !.listed = l] ELSE req[x]
  BY <1>1
<1>3. [req[r] EXCEPT !.pc = pc, !.listed = l] \in ReqType
  BY <1>1 DEF ReqType
<1>4. req' \in [Request -> ReqType]
  BY <1>1, <1>2, <1>3
<1> QED BY <1>1, <1>2, <1>4 DEF After, ReqType

(* A new CV.                                                               *)
LEMMA CvInv ==
  ASSUME Inv, NEW m \in Request, CvPut(m) \/ CvList(m) \/ CvAttach(m) \/ CvDetach(m) \/ CvWrite(m) \/ CvUnput(m)
  PROVE  Inv'
<1> USE DEF Inv
<1>1. CASE CvPut(m)
  <2>1. m \in Mover /\ req[m].pc \in InFlight /\ MoveShape(m)
    BY <1>1 DEF CvPut, Shape, BookShape, BookState, InFlight, MoveState, CvState, Request
  <2>2. req[m].app \in App /\ req[m].to \in Start /\ row[req[m].app] # "none"
        /\ at[req[m].app] \in Start /\ LifeShape(req[m].app)
    BY <2>1 DEF Shape, MoveShape, LifeShape
  <2>3. PICK pc \in {"put", "done"} : After(m, pc)
    BY <1>1, <2>2, GotoAfter
    DEF CvPut, InFlight, BookState, MoveState, CvState, Pc
  <2>4. TypeOK'
    BY <1>1, <2>1, <2>2, <2>3
    DEF TypeOK, CvPut, rows, calendar, After, ReqType, Pc, Cv, Request
  <2>5. Touches(m, pc)
    BY <1>1, <2>1, <2>2, <2>3 DEF CvPut, Touches, MoveShape, LifeShape, TypeOK, rows, calendar
  <2>6. pc \in Pc \ BookState
    BY <2>3 DEF Pc, InFlight, BookState, MoveState, CvState
  <2> QED BY <2>1, <2>4, <2>5, <2>6, TouchesShape
<1>2. CASE CvList(m)
  <2>1. m \in Mover /\ req[m].pc \in InFlight /\ MoveShape(m)
    BY <1>2 DEF CvList, Shape, BookShape, BookState, InFlight, MoveState, CvState, Request
  <2>2. req[m].app \in App /\ req[m].to \in Start /\ row[req[m].app] # "none"
        /\ at[req[m].app] \in Start /\ LifeShape(req[m].app)
    BY <2>1 DEF Shape, MoveShape, LifeShape
  <2>3. PICK pc \in {"listed", "unput"} : After(m, pc)
    <3>1. "listed" \in Pc /\ "unput" \in Pc /\ attached[req[m].app] \in SUBSET Cv
      BY <2>2 DEF Pc, InFlight, CvState, TypeOK
    <3>2. CASE Goto(m, "unput")
      BY <3>1, <3>2, GotoAfter
    <3>3. CASE req' = [req EXCEPT ![m].pc = "listed", ![m].listed = attached[req[m].app]]
      <4>1. After(m, "listed")
        BY <3>1, <3>3, ListedAfter
      <4> QED BY <4>1
    <3> QED BY <1>2, <3>2, <3>3 DEF CvList
  <2>4. TypeOK'
    BY <1>2, <2>1, <2>2, <2>3
    DEF TypeOK, CvList, rows, calendar, After, ReqType, Pc, Cv, Request
  <2>5. Touches(m, pc)
    BY <1>2, <2>1, <2>2, <2>3 DEF CvList, Touches, MoveShape, LifeShape, TypeOK, rows, calendar
  <2>6. pc \in Pc \ BookState
    BY <2>3 DEF Pc, InFlight, BookState, MoveState, CvState
  <2> QED BY <2>1, <2>4, <2>5, <2>6, TouchesShape
<1>3. CASE CvAttach(m)
  <2>1. m \in Mover /\ req[m].pc \in InFlight /\ MoveShape(m)
    BY <1>3 DEF CvAttach, Shape, BookShape, BookState, InFlight, MoveState, CvState, Request
  <2>2. req[m].app \in App /\ req[m].to \in Start /\ row[req[m].app] # "none"
        /\ at[req[m].app] \in Start /\ LifeShape(req[m].app)
    BY <2>1 DEF Shape, MoveShape, LifeShape
  <2>3. PICK pc \in {"swap", "unput"} : After(m, pc)
    BY <1>3, <2>2, GotoAfter
    DEF CvAttach, InFlight, BookState, MoveState, CvState, Pc
  <2>4. TypeOK'
    BY <1>3, <2>1, <2>2, <2>3
    DEF TypeOK, CvAttach, rows, calendar, After, ReqType, Pc, Cv, Request
  <2>5. Touches(m, pc)
    BY <1>3, <2>1, <2>2, <2>3 DEF CvAttach, Touches, MoveShape, LifeShape, TypeOK, rows, calendar
  <2>6. pc \in Pc \ BookState
    BY <2>3 DEF Pc, InFlight, BookState, MoveState, CvState
  <2> QED BY <2>1, <2>4, <2>5, <2>6, TouchesShape
<1>4. CASE CvDetach(m)
  <2>1. m \in Mover /\ req[m].pc \in InFlight /\ MoveShape(m)
    BY <1>4 DEF CvDetach, Shape, BookShape, BookState, InFlight, MoveState, CvState, Request
  <2>2. req[m].app \in App /\ req[m].to \in Start /\ row[req[m].app] # "none"
        /\ at[req[m].app] \in Start /\ LifeShape(req[m].app)
    BY <2>1 DEF Shape, MoveShape, LifeShape
  <2>3. PICK pc \in {"swap"} : After(m, pc)
    <3>1. req[m].listed \in SUBSET Cv /\ req[m].pc = "swap"
      BY <1>4 DEF CvDetach, TypeOK, Request
    <3>2. PICK c \in req[m].listed : req' = [req EXCEPT ![m].listed = @ \ {c}]
      BY <1>4 DEF CvDetach
    <3>3. req' = [req EXCEPT ![m].pc = "swap", ![m].listed = req[m].listed \ {c}]
      BY <3>1, <3>2 DEF TypeOK
    <3>4. req[m].listed \ {c} \in SUBSET Cv /\ "swap" \in Pc
      BY <3>1 DEF Pc, InFlight, CvState
    <3>5. After(m, "swap")
      BY <3>3, <3>4, ListedAfter
    <3> QED BY <3>5
  <2>4. TypeOK'
    BY <1>4, <2>1, <2>2, <2>3
    DEF TypeOK, CvDetach, rows, calendar, After, ReqType, Pc, Cv, Request
  <2>5. Touches(m, pc)
    BY <1>4, <2>1, <2>2, <2>3 DEF CvDetach, Touches, MoveShape, LifeShape, TypeOK, rows, calendar
  <2>6. pc \in Pc \ BookState
    BY <2>3 DEF Pc, InFlight, BookState, MoveState, CvState
  <2> QED BY <2>1, <2>4, <2>5, <2>6, TouchesShape
<1>5. CASE CvWrite(m)
  <2>1. m \in Mover /\ req[m].pc \in InFlight /\ MoveShape(m)
    BY <1>5 DEF CvWrite, Shape, BookShape, BookState, InFlight, MoveState, CvState, Request
  <2>2. req[m].app \in App /\ req[m].to \in Start /\ row[req[m].app] # "none"
        /\ at[req[m].app] \in Start /\ LifeShape(req[m].app)
    BY <2>1 DEF Shape, MoveShape, LifeShape
  <2>3. PICK pc \in {"done"} : After(m, pc)
    BY <1>5, <2>2, GotoAfter
    DEF CvWrite, InFlight, BookState, MoveState, CvState, Pc
  <2>4. TypeOK'
    <3>1. m \in Cv
      BY <2>1 DEF Cv
    <3>2. cv' \in [App -> Cv \cup {None}]
      BY <1>5, <2>2, <3>1 DEF CvWrite, TypeOK
    <3>3. versions' \in [App -> SUBSET Cv]
      BY <1>5, <2>2, <3>1 DEF CvWrite, TypeOK
    <3>4. stray' \subseteq Request
      BY <1>5 DEF CvWrite, TypeOK
    <3> QED BY <1>5, <2>3, <3>2, <3>3, <3>4
            DEF TypeOK, CvWrite, calendar, After, ReqType, Pc
  <2>5. Touches(m, pc)
    BY <1>5, <2>1, <2>2, <2>3 DEF CvWrite, Touches, MoveShape, LifeShape, TypeOK, rows, calendar
  <2>6. pc \in Pc \ BookState
    BY <2>3 DEF Pc, InFlight, BookState, MoveState, CvState
  <2> QED BY <2>1, <2>4, <2>5, <2>6, TouchesShape
<1>6. CASE CvUnput(m)
  <2>1. m \in Mover /\ req[m].pc \in InFlight /\ MoveShape(m)
    BY <1>6 DEF CvUnput, Shape, BookShape, BookState, InFlight, MoveState, CvState, Request
  <2>2. req[m].app \in App /\ req[m].to \in Start /\ row[req[m].app] # "none"
        /\ at[req[m].app] \in Start /\ LifeShape(req[m].app)
    BY <2>1 DEF Shape, MoveShape, LifeShape
  <2>3. PICK pc \in {"done"} : After(m, pc)
    BY <1>6, <2>2, GotoAfter
    DEF CvUnput, InFlight, BookState, MoveState, CvState, Pc
  <2>4. TypeOK'
    BY <1>6, <2>1, <2>2, <2>3
    DEF TypeOK, CvUnput, rows, calendar, After, ReqType, Pc, Cv, Request
  <2>5. Touches(m, pc)
    BY <1>6, <2>1, <2>2, <2>3 DEF CvUnput, Touches, MoveShape, LifeShape, TypeOK, rows, calendar
  <2>6. pc \in Pc \ BookState
    BY <2>3 DEF Pc, InFlight, BookState, MoveState, CvState
  <2> QED BY <2>1, <2>4, <2>5, <2>6, TouchesShape
<1> QED BY <1>1, <1>2, <1>3, <1>4, <1>5, <1>6

(* A refusal, and a process that dies.                                     *)
LEMMA EndInv ==
  ASSUME Inv, NEW r \in Request, Refuse(r) \/ Crash(r)
  PROVE  Inv'
<1> USE DEF Inv
<1>1. After(r, "done")
  BY GotoAfter DEF Refuse, Crash, Pc
<1>2. UNCHANGED <<row, at, cv, versions, event, attached, files>>
  BY DEF Refuse, Crash, rows, calendar
<1>3. req[r].pc = "moved" => req[r].app \in App
  <2>1. \A b \in Booker : req[b].pc # "moved"
    BY DEF Shape, BookShape, BookState
  <2> QED BY <2>1 DEF Shape, MoveShape, InFlight, MoveState, Request
<1>4. TypeOK'
  BY <1>1, <1>2, <1>3 DEF TypeOK, Refuse, Crash, After, ReqType, Pc
<1>5. \A b \in Booker : BookShape(b)'
  BY <1>1, <1>2 DEF Shape, BookShape, After, BookState, Request
<1>6. \A m \in Mover : MoveShape(m)'
  BY <1>1, <1>2 DEF Shape, MoveShape, After, InFlight, BookState, MoveState, CvState, Request
<1>7. \A a \in App : LifeShape(a)'
  BY <1>2 DEF Shape, LifeShape
<1> QED BY <1>4, <1>5, <1>6, <1>7 DEF Shape

LEMMA StutterInv == Inv /\ UNCHANGED vars => Inv'
BY DEF Inv, TypeOK, Shape, BookShape, MoveShape, LifeShape, vars, rows, calendar

LEMMA NextInv == Inv /\ [Next]_vars => Inv'
<1> SUFFICES ASSUME Inv, Next PROVE Inv'
  BY StutterInv
<1>1. PICK r \in Request : BookStep(r) \/ MoveStep(r) \/ CvStep(r) \/ Refuse(r) \/ Crash(r)
  BY DEF Next
<1> QED BY <1>1, BookInv, LoadInv, MoveInv, CancelInv, CvInv, EndInv DEF MoveStep, CvStep

LEMMA Invariant == Spec => []Inv
<1> QED BY InitInv, NextInv, PTL DEF Spec

(* Every variable has its type, of every calendar.                         *)
THEOREM TypeCorrect == Spec => []TypeOK
BY Invariant, PTL DEF Inv

----------------------------------------------------------------------------
Lives == [a \in App |-> LifeOf(a)]

LEMMA LivesApply == \A a \in App : Lives[a] = LifeOf(a) /\ Lives'[a] = LifeOf(a)'
BY DEF Lives

(* One application goes one step further, or nothing happens.              *)
LEMMA OneLife ==
  ASSUME NEW a \in App,
         \A b \in App \ {a} : row'[b] = row[b] /\ event'[b] = event[b],
         \/ LifeOf(a)' = LifeOf(a)
         \/ LifeOf(a) = "none" /\ LifeOf(a)' = "placed"
         \/ LifeOf(a) = "placed" /\ LifeOf(a)' \in {"none", "booked"}
         \/ LifeOf(a) = "booked" /\ LifeOf(a)' = "off"
         \/ LifeOf(a) = "off" /\ LifeOf(a)' = "cancelled"
  PROVE  [Lifecycle!Next]_Lives
<1>1. \A b \in App \ {a} : LifeOf(b)' = LifeOf(b)
  BY DEF LifeOf
<1>2. Lives' = [Lives EXCEPT ![a] = LifeOf(a)']
  <2> DEFINE next == LifeOf(a)'
  <2>1. Lives' = [b \in App |-> LifeOf(b)'] /\ Lives = [b \in App |-> LifeOf(b)]
    BY DEF Lives
  <2>2. \A b \in App : LifeOf(b)' = IF b = a THEN next ELSE LifeOf(b)
    BY <1>1
  <2> HIDE DEF next
  <2> QED BY <2>1, <2>2 DEF next
<1>3. Lives[a] = LifeOf(a)
  BY LivesApply
<1>4. CASE LifeOf(a)' = LifeOf(a)
  BY <1>2, <1>3, <1>4 DEF Lives
<1>5. CASE LifeOf(a) = "none" /\ LifeOf(a)' = "placed"
  BY <1>2, <1>3, <1>5 DEF Lifecycle!Next, Lifecycle!Place, Lifecycle!Is, Lives
<1>6. CASE LifeOf(a) = "placed" /\ LifeOf(a)' \in {"none", "booked"}
  BY <1>2, <1>3, <1>6
  DEF Lifecycle!Next, Lifecycle!Withdraw, Lifecycle!Book, Lifecycle!Is, Lives
<1>7. CASE LifeOf(a) = "booked" /\ LifeOf(a)' = "off"
  BY <1>2, <1>3, <1>7 DEF Lifecycle!Next, Lifecycle!CallOff, Lifecycle!Is, Lives
<1>8. CASE LifeOf(a) = "off" /\ LifeOf(a)' = "cancelled"
  BY <1>2, <1>3, <1>8 DEF Lifecycle!Next, Lifecycle!Cancel, Lifecycle!Is, Lives
<1> QED BY <1>4, <1>5, <1>6, <1>7, <1>8

LEMMA InitLives == Init => Lifecycle!Init
<1> SUFFICES ASSUME Init PROVE Lives \in [App -> {"none", "booked"}]
  BY DEF Lifecycle!Init, Lives
<1>1. \A a \in App : LifeOf(a) \in {"none", "booked"}
  BY DEF Init, LifeOf
<1> QED BY <1>1 DEF Lives

(* Most steps leave every row's state and every event where they are.      *)
LEMMA SameLives ==
  UNCHANGED <<row, event>> => [Lifecycle!Next]_Lives
BY DEF Lives, LifeOf

LEMMA BookLives ==
  ASSUME Inv, NEW r \in Request, BookStep(r)
  PROVE  [Lifecycle!Next]_Lives
<1>1. r \in App /\ BookShape(r)
  BY DEF BookStep, BookLoad, BookCheck, BookStore, BookCreate, BookAttach, BookWrite,
         BookCancel, BookUnstore, Inv, Shape, MoveShape, BookState, Request, App
<1>2. row \in [App -> {"none", "live", "cancelled"}] /\ event \in [App -> Start \cup {None}]
  BY DEF Inv, TypeOK
<1>3. CASE UNCHANGED <<row, event>>
  BY <1>3, SameLives
<1>4. CASE BookCreate(r) /\ event' # event
  <2>1. row' = row /\ event' = [event EXCEPT ![r] = req[r].to]
    BY <1>4 DEF BookCreate, rows
  <2>2. row[r] = "none" /\ event[r] = None /\ req[r].to \in Start
    BY <1>1, <1>4 DEF BookCreate, BookShape, BookState
  <2>3. LifeOf(r) = "none" /\ LifeOf(r)' = "placed"
    BY <1>1, <1>2, <2>1, <2>2, TimeAssumption DEF LifeOf
  <2> QED BY <1>1, <1>2, <2>1, <2>3, OneLife
<1>5. CASE BookWrite(r) /\ row' # row
  <2>1. event' = event /\ row' = [row EXCEPT ![r] = "live"]
    BY <1>5 DEF BookWrite, rows, calendar
  <2>2. row[r] = "none" /\ event[r] \in Start
    BY <1>1, <1>5 DEF BookWrite, BookShape, BookState
  <2>3. LifeOf(r) = "placed" /\ LifeOf(r)' = "booked"
    BY <1>1, <1>2, <2>1, <2>2, TimeAssumption DEF LifeOf
  <2> QED BY <1>1, <1>2, <2>1, <2>3, OneLife
<1>6. CASE BookCancel(r) /\ event' # event
  <2>1. row' = row /\ event' = [event EXCEPT ![r] = None]
    BY <1>6 DEF BookCancel, rows, calendar
  <2>2. row[r] = "none"
    BY <1>1, <1>6 DEF BookCancel, BookShape, BookState
  <2>3. LifeOf(r) \in {"none", "placed"} /\ LifeOf(r)' = "none"
    BY <1>1, <1>2, <2>1, <2>2 DEF LifeOf
  <2> QED BY <1>1, <1>2, <2>1, <2>3, OneLife
<1>7. UNCHANGED <<row, event>> \/ BookCreate(r) \/ BookWrite(r) \/ BookCancel(r)
  BY DEF BookStep, BookLoad, BookCheck, BookStore, BookAttach, BookUnstore, rows, calendar
<1>8. /\ BookCreate(r) \/ BookCancel(r) => row' = row
      /\ BookWrite(r) => event' = event
  BY DEF BookCreate, BookCancel, BookWrite, rows, calendar
<1> QED BY <1>3, <1>4, <1>5, <1>6, <1>7, <1>8

LEMMA MoveLives ==
  ASSUME Inv, NEW m \in Request, MoveStep(m)
  PROVE  [Lifecycle!Next]_Lives
<1>0. PICK a : a = req[m].app
  OBVIOUS
<1>1. row \in [App -> {"none", "live", "cancelled"}] /\ event \in [App -> Start \cup {None}]
  BY DEF Inv, TypeOK
<1>2. CASE UNCHANGED <<row, event>>
  BY <1>2, SameLives
<1>3. req[m].pc \in {"cleared", "cancelling", "off"} =>
        /\ MoveShape(m) /\ a \in App /\ row[a] # "none" /\ req[m].to \in Start /\ LifeShape(a)
  BY <1>0 DEF Inv, Shape, BookShape, MoveShape, BookState, InFlight, MoveState, Request
<1>4. CASE MoveEvent(m) /\ event' # event
  <2>1. row' = row /\ event[a] # None /\ event' = [event EXCEPT ![a] = req[m].to]
    BY <1>0, <1>4 DEF MoveEvent, rows
  <2>2. a \in App /\ req[m].to \in Start
    BY <1>0, <1>3, <1>4 DEF MoveEvent
  <2>3. LifeOf(a)' = LifeOf(a)
    BY <1>1, <2>1, <2>2, TimeAssumption DEF LifeOf
  <2> QED BY <1>1, <2>1, <2>2, <2>3, OneLife
<1>5. CASE CancelEvent(m) /\ event' # event
  <2>1. row' = row /\ event' = [event EXCEPT ![a] = None]
    BY <1>0, <1>5 DEF CancelEvent, rows, calendar
  <2>2. a \in App /\ row[a] # "none" /\ LifeShape(a)
    BY <1>0, <1>3, <1>5 DEF CancelEvent
  <2>3. LifeOf(a)' = LifeOf(a) \/ (LifeOf(a) = "booked" /\ LifeOf(a)' = "off")
    BY <1>1, <2>1, <2>2 DEF LifeOf, LifeShape
  <2> QED BY <1>1, <2>1, <2>2, <2>3, OneLife
<1>6. CASE CancelWrite(m) /\ row' # row
  <2>1. event' = event /\ row' = [row EXCEPT ![a] = "cancelled"]
    BY <1>0, <1>6 DEF CancelWrite, calendar
  <2>2. a \in App /\ row[a] # "none" /\ event[a] = None
    BY <1>0, <1>3, <1>6 DEF CancelWrite, MoveShape
  <2>3. LifeOf(a)' = LifeOf(a) \/ (LifeOf(a) = "off" /\ LifeOf(a)' = "cancelled")
    BY <1>1, <2>1, <2>2 DEF LifeOf
  <2> QED BY <1>1, <2>1, <2>2, <2>3, OneLife
<1>7. UNCHANGED <<row, event>> \/ MoveEvent(m) \/ CancelEvent(m) \/ CancelWrite(m)
  BY DEF MoveStep, Load, MoveCheck, MoveBlocked, MoveWrite, rows, calendar
<1>8. /\ MoveEvent(m) \/ CancelEvent(m) => row' = row
      /\ CancelWrite(m) => event' = event
  BY DEF MoveEvent, CancelEvent, CancelWrite, rows, calendar
<1> QED BY <1>2, <1>4, <1>5, <1>6, <1>7, <1>8

LEMMA NextLives == Inv /\ [Next]_vars => [Lifecycle!Next]_Lives
<1>1. ASSUME Inv, Next PROVE [Lifecycle!Next]_Lives
  <2>1. PICK r \in Request : BookStep(r) \/ MoveStep(r) \/ CvStep(r) \/ Refuse(r) \/ Crash(r)
    BY <1>1 DEF Next
  <2>2. CvStep(r) \/ Refuse(r) \/ Crash(r) => UNCHANGED <<row, event>>
    BY DEF CvStep, Load, CvPut, CvList, CvAttach, CvDetach, CvWrite, CvUnput, Refuse, Crash,
           rows, calendar
  <2> QED BY <1>1, <2>1, <2>2, BookLives, MoveLives, SameLives
<1>2. UNCHANGED vars => UNCHANGED <<row, event>>
  BY DEF vars, rows, calendar
<1> QED BY <1>1, <1>2, SameLives

(* The calendar implements the life of an interview: a booked one stays    *)
(* until it is called off, and one called off never comes back, however    *)
(* many requests cross each other.                                         *)
THEOREM Implements == Spec => KeepsItsEvent
<1>1. Spec => [][Lifecycle!Next]_Lives
  BY Invariant, NextLives, PTL DEF Spec
<1>2. Init => Lifecycle!Init
  BY InitLives
<1> QED BY <1>1, <1>2, PTL DEF KeepsItsEvent, Lifecycle!Spec, Spec, Lives

----------------------------------------------------------------------------
(* A CV that its request has not attached yet is attached nowhere, and no  *)
(* request has listed it for removal.                                      *)
Fresh(m) ==
  req[m].pc \in {"idle", "replacing", "put", "listed"} =>
    /\ \A a \in App : m \notin attached[a]
    /\ \A n \in Mover : m \notin req[n].listed

(* A booked interview has a CV that no request is about to remove. *)
Witness(a) ==
  row[a] # "none" /\ event[a] # None =>
    \E c \in attached[a] :
      \A m \in Mover : req[m].pc = "swap" /\ req[m].app = a => c \notin req[m].listed

CvKept ==
  /\ \A m \in Mover : Fresh(m)
  /\ \A a \in App : Witness(a)

(* What a step tells of the request that takes it, and of the others.      *)
LEMMA Went ==
  ASSUME TypeOK, NEW r \in Request, NEW a \in App, NEW pc \in Pc,
         Goto(r, pc) \/ Taken(r, a, pc) \/ Changed(r, a, pc)
  PROVE  After(r, pc) /\ \A x \in Request : req'[x].listed = req[x].listed
<1>1. CASE Goto(r, pc)
  BY <1>1, GotoAfter
<1>2. ASSUME NEW taken \in BOOLEAN, Notify(r, a, pc, taken)
      PROVE  After(r, pc) /\ \A x \in Request : req'[x].listed = req[x].listed
  <2>1. After(r, pc) /\ req'[r].listed = req[r].listed
    BY <1>2, NotifyAfter
  <2> QED BY <2>1 DEF After
<1> QED BY <1>1, <1>2 DEF Taken, Changed

(* A fresh CV stays fresh where nothing attaches or lists it.              *)
LEMMA FreshKept ==
  ASSUME NEW m \in Mover, Fresh(m),
         req'[m].pc \in {"idle", "replacing", "put", "listed"} =>
           req[m].pc \in {"idle", "replacing", "put", "listed"},
         \A a \in App : m \in attached'[a] => m \in attached[a],
         \A n \in Mover : m \in req'[n].listed => m \in req[n].listed
  PROVE  Fresh(m)'
BY DEF Fresh

(* A witness stays one where no CV is taken off, no removal is added, and  *)
(* the interview was booked before.                                        *)
LEMMA WitnessKept ==
  ASSUME NEW a \in App, Witness(a),
         row'[a] # "none" /\ event'[a] # None =>
           row[a] # "none" /\ event[a] # None /\ attached[a] \subseteq attached'[a],
         \A m \in Mover : req'[m].pc = "swap" /\ req'[m].app = a =>
           req[m].pc = "swap" /\ req[m].app = a /\ req'[m].listed \subseteq req[m].listed
  PROVE  Witness(a)'
BY DEF Witness

LEMMA InitCv == Init => CvKept
<1> SUFFICES ASSUME Init PROVE CvKept
  OBVIOUS
<1>1. \A r \in Request : req[r].pc = "idle" /\ req[r].listed = {}
  BY DEF Init
<1>2. \A a \in App : attached[a] = IF a \in Old THEN {a} ELSE {}
  BY DEF Init
<1>3. \A a \in App : row[a] # "none" => a \in attached[a]
  BY <1>2 DEF Init
<1>4. \A m \in Mover : m \notin App /\ m \in Request
  BY IdAssumption DEF App, Request
<1> QED BY <1>1, <1>2, <1>3, <1>4 DEF CvKept, Fresh, Witness

(* Most steps attach nothing, take nothing off and list nothing.           *)
LEMMA CvStill ==
  ASSUME Inv, CvKept, NEW r \in Request, NEW pc \in Pc, After(r, pc),
         pc \notin {"idle", "replacing", "put", "listed", "swap"},
         \A x \in Request : req'[x].listed = req[x].listed,
         \A a \in App : /\ row'[a] # "none" /\ event'[a] # None =>
                            row[a] # "none" /\ event[a] # None /\ attached'[a] = attached[a]
                        /\ \A m \in Mover : m \in attached'[a] => m \in attached[a]
  PROVE  CvKept'
<1>1. \A m \in Mover : Fresh(m)'
  <2> TAKE m \in Mover
  <2>1. Fresh(m) /\ m \in Request
    BY DEF CvKept, Request
  <2>2. req'[m].pc = req[m].pc \/ req'[m].pc = pc
    BY <2>1 DEF After
  <2>3. \A n \in Mover : req'[n].listed = req[n].listed
    BY DEF Request
  <2> QED BY <2>1, <2>2, <2>3, FreshKept
<1>2. \A a \in App : Witness(a)'
  <2> TAKE a \in App
  <2>1. Witness(a)
    BY DEF CvKept
  <2>2. \A m \in Mover : req'[m].pc = "swap" /\ req'[m].app = a =>
          req[m].pc = "swap" /\ req[m].app = a /\ req'[m].listed \subseteq req[m].listed
    BY DEF After, Request
  <2> QED BY <2>1, <2>2, WitnessKept
<1> QED BY <1>1, <1>2 DEF CvKept

LEMMA BookCv ==
  ASSUME Inv, CvKept, NEW r \in Request, BookStep(r)
  PROVE  CvKept'
<1>1. r \in Booker /\ r \in App /\ r \notin Mover /\ BookShape(r)
  BY IdAssumption
  DEF BookStep, BookLoad, BookCheck, BookStore, BookCreate, BookAttach, BookWrite,
      BookCancel, BookUnstore, Inv, Shape, MoveShape, BookState, Request, App
<1>2. TypeOK /\ \A m \in Mover : m \in Request /\ m # r /\ MoveShape(m)
  BY <1>1, IdAssumption DEF Inv, Shape, Request
<1>3. CASE BookLoad(r)
  <2>1. \A m \in Mover : req'[m] = req[m]
    BY <1>2, <1>3 DEF BookLoad, TypeOK
  <2> QED BY <1>3, <2>1 DEF BookLoad, CvKept, Fresh, Witness, rows, calendar
<1>4. CASE BookWrite(r) /\ row' # row
  <2>1. /\ row' = [row EXCEPT ![r] = "live"] /\ UNCHANGED <<event, attached>>
        /\ Goto(r, "done") /\ attached[r] = {r} /\ row[r] = "none"
    BY <1>1, <1>4 DEF BookWrite, BookShape, BookState, rows, calendar
  <2>2. /\ After(r, "done")
        /\ \A m \in Mover : /\ req'[m].pc = req[m].pc /\ req'[m].app = req[m].app
                            /\ req'[m].listed = req[m].listed
    BY <1>1, <1>2, <2>1, Went DEF After, Pc
  <2>3. \A m \in Mover : Fresh(m)'
    BY <2>1, <2>2 DEF CvKept, Fresh
  <2>4. \A m \in Mover : ~(req'[m].pc = "swap" /\ req'[m].app = r)
    BY <1>2, <2>1, <2>2 DEF MoveShape, InFlight, CvState
  <2>5. Witness(r)'
    BY <2>1, <2>4 DEF Witness
  <2>6. \A a \in App : a # r => Witness(a)'
    BY <1>2, <2>1, <2>2 DEF CvKept, Witness, TypeOK
  <2> QED BY <2>3, <2>5, <2>6 DEF CvKept
<1>5. CASE ~BookLoad(r) /\ ~(BookWrite(r) /\ row' # row)
  <2>1. PICK pc \in {"free", "done", "stored", "created", "unstore", "attached", "uncreate",
                     "undo"} : Goto(r, pc) \/ Taken(r, r, pc)
    BY <1>5 DEF BookStep, BookCheck, BookStore, BookCreate, BookAttach, BookWrite,
                BookCancel, BookUnstore
  <2>2. pc \in Pc /\ pc \notin {"idle", "replacing", "put", "listed", "swap"}
    BY <2>1 DEF Pc, InFlight, BookState
  <2>3. After(r, pc) /\ \A x \in Request : req'[x].listed = req[x].listed
    BY <1>1, <1>2, <2>1, <2>2, Went
  <2>4. row' = row /\ row[r] = "none"
    BY <1>1, <1>5 DEF BookStep, BookCheck, BookStore, BookCreate, BookAttach, BookWrite,
                BookCancel, BookUnstore, rows, BookShape, BookState
  <2>5. \A a \in App : a # r => event'[a] = event[a] /\ attached'[a] = attached[a]
    BY <1>2, <1>5 DEF BookStep, BookCheck, BookStore, BookCreate, BookAttach, BookWrite,
                BookCancel, BookUnstore, calendar, TypeOK
  <2>6. \A m \in Mover : m \in attached'[r] => m \in attached[r]
    BY <1>1, <1>2, <1>5 DEF BookStep, BookCheck, BookStore, BookCreate, BookAttach, BookWrite,
                BookCancel, BookUnstore, calendar, TypeOK
  <2> QED BY <2>2, <2>3, <2>4, <2>5, <2>6, CvStill
<1> QED BY <1>3, <1>4, <1>5

LEMMA LoadCv ==
  ASSUME Inv, CvKept, NEW m \in Request, NEW pc \in {"moving", "cancelling", "replacing"},
         Load(m, pc)
  PROVE  CvKept'
<1>1. m \in Mover /\ req[m].pc = "idle" /\ UNCHANGED <<row, event, attached>>
  BY DEF Load, rows, calendar
<1>2. PICK a \in App, t \in Start :
        req' = [req EXCEPT ![m] = [pc |-> pc, app |-> a, from |-> at[a], to |-> t,
                                   listed |-> {}, stale |-> BeingMoved(a)]]
  BY DEF Load
<1>3. /\ req'[m].pc = pc /\ req'[m].listed = {}
      /\ \A n \in Mover : n # m => req'[n] = req[n]
  BY <1>2 DEF Inv, TypeOK, Request
<1>4. \A n \in Mover : Fresh(n)'
  <2> TAKE n \in Mover
  <2>1. Fresh(n)
    BY DEF CvKept
  <2>2. \A x \in Mover : n \in req'[x].listed => n \in req[x].listed
    BY <1>3
  <2> QED BY <1>1, <1>3, <2>1, <2>2, FreshKept
<1>5. \A b \in App : Witness(b)'
  <2> TAKE b \in App
  <2>1. Witness(b)
    BY DEF CvKept
  <2> QED BY <1>1, <1>3, <2>1, WitnessKept
<1> QED BY <1>4, <1>5 DEF CvKept

LEMMA MoveCv ==
  ASSUME Inv, CvKept, NEW m \in Request, MoveStep(m)
  PROVE  CvKept'
<1> DEFINE a == req[m].app
<1>1. CASE Load(m, "moving") \/ Load(m, "cancelling")
  BY <1>1, LoadCv
<1>2. CASE \/ MoveCheck(m) \/ MoveBlocked(m) \/ MoveEvent(m) \/ MoveWrite(m)
           \/ CancelEvent(m) \/ CancelWrite(m)
  <2>1. m \in Mover /\ req[m].pc \in InFlight /\ MoveShape(m)
    BY <1>2 DEF MoveCheck, MoveBlocked, MoveEvent, MoveWrite, CancelEvent, CancelWrite, Inv,
                Shape, BookShape, BookState, InFlight, MoveState, Request
  <2>2. a \in App /\ row[a] # "none" /\ TypeOK
    BY <2>1 DEF MoveShape, Inv
  <2>3. PICK pc \in {"cleared", "blocked", "done", "moved", "off"} :
          Goto(m, pc) \/ Taken(m, a, pc) \/ Changed(m, a, pc)
    BY <1>2 DEF MoveCheck, MoveBlocked, MoveEvent, MoveWrite, CancelEvent, CancelWrite
  <2>4. pc \in Pc /\ pc \notin {"idle", "replacing", "put", "listed", "swap"}
    BY <2>3 DEF Pc, InFlight, MoveState
  <2>5. After(m, pc) /\ \A x \in Request : req'[x].listed = req[x].listed
    BY <2>2, <2>3, <2>4, Went
  <2>6. \A b \in App : b # a => /\ row'[b] = row[b] /\ event'[b] = event[b]
                                /\ attached'[b] = attached[b]
    BY <1>2, <2>2 DEF MoveCheck, MoveBlocked, MoveEvent, MoveWrite, CancelEvent, CancelWrite,
                      rows, calendar, TypeOK
  <2>7. event'[a] # None => event[a] # None /\ attached'[a] = attached[a]
    BY <1>2, <2>2 DEF MoveCheck, MoveBlocked, MoveEvent, MoveWrite, CancelEvent, CancelWrite,
                      rows, calendar, TypeOK
  <2>8. \A n \in Mover : n \in attached'[a] => n \in attached[a]
    BY <1>2, <2>2 DEF MoveCheck, MoveBlocked, MoveEvent, MoveWrite, CancelEvent, CancelWrite,
                      rows, calendar, TypeOK
  <2> HIDE DEF a
  <2> QED BY <2>2, <2>4, <2>5, <2>6, <2>7, <2>8, CvStill
<1> QED BY <1>1, <1>2 DEF MoveStep

(* Steps of a replacement that attach nothing and take nothing off. *)
LEMMA CvPutCv ==
  ASSUME Inv, CvKept, NEW m \in Request, CvPut(m)
  PROVE  CvKept'
<1>1. m \in Mover /\ UNCHANGED <<row, event, attached>> /\ TypeOK
  BY DEF CvPut, Inv, Shape, BookShape, BookState, Request, rows, calendar
<1>2. PICK pc \in {"put", "done"} : Goto(m, pc)
  BY DEF CvPut
<1>3. After(m, pc) /\ \A x \in Request : req'[x].listed = req[x].listed
  BY <1>1, <1>2, GotoAfter DEF Pc, InFlight, CvState
<1>4. \A n \in Mover : Fresh(n)'
  BY <1>1, <1>2, <1>3 DEF CvPut, CvKept, Fresh, After, Request
<1>5. \A b \in App : Witness(b)'
  BY <1>1, <1>2, <1>3 DEF CvKept, Witness, After, Request
<1> QED BY <1>4, <1>5 DEF CvKept

(* What is listed is attached, so a fresh CV is not listed.                *)
LEMMA CvListCv ==
  ASSUME Inv, CvKept, NEW m \in Request, CvList(m)
  PROVE  CvKept'
<1>1. m \in Mover /\ UNCHANGED <<row, event, attached>> /\ TypeOK /\ req[m].app \in App
  BY DEF CvList, Inv, Shape, BookShape, MoveShape, BookState, InFlight, CvState, Request,
         rows, calendar
<1>2. PICK pc \in {"listed", "unput"} :
        /\ After(m, pc)
        /\ req'[m].listed = req[m].listed \/ req'[m].listed = attached[req[m].app]
  <2>1. "listed" \in Pc /\ "unput" \in Pc /\ attached[req[m].app] \in SUBSET Cv
    BY <1>1 DEF Pc, InFlight, CvState, TypeOK
  <2>2. CASE Goto(m, "unput")
    BY <1>1, <2>1, <2>2, GotoAfter
  <2>3. CASE req' = [req EXCEPT ![m].pc = "listed", ![m].listed = attached[req[m].app]]
    <3>1. After(m, "listed") /\ req'[m].listed = attached[req[m].app]
      BY <1>1, <2>1, <2>3, ListedAfter
    <3> QED BY <3>1
  <2> QED BY <2>2, <2>3 DEF CvList
<1>3. \A n \in Mover : Fresh(n)'
  <2> TAKE n \in Mover
  <2>1. Fresh(n) /\ n \in Request
    BY DEF CvKept, Request
  <2>2. \A x \in Mover : n \in req'[x].listed =>
          n \in req[x].listed \/ n \in attached[req[m].app]
    BY <1>2 DEF After, Request
  <2>3. req'[n].pc \in {"idle", "replacing", "put", "listed"} =>
          req[n].pc \in {"idle", "replacing", "put", "listed"}
    BY <1>2, <2>1 DEF After, CvList
  <2> QED BY <1>1, <2>1, <2>2, <2>3 DEF Fresh
<1>4. \A b \in App : Witness(b)'
  BY <1>1, <1>2 DEF CvKept, Witness, After, Request
<1> QED BY <1>3, <1>4 DEF CvKept

(* The new CV is the witness: whoever is removing CVs by now has listed    *)
(* them before it was attached.                                            *)
LEMMA CvAttachCv ==
  ASSUME Inv, CvKept, NEW m \in Request, CvAttach(m)
  PROVE  CvKept'
<1> DEFINE a == req[m].app
<1>1. m \in Mover /\ UNCHANGED <<row, event>> /\ TypeOK /\ a \in App
      /\ req[m].pc = "listed"
  BY DEF CvAttach, Inv, Shape, BookShape, MoveShape, BookState, InFlight, CvState, Request, rows
<1>2. PICK pc \in {"swap", "unput"} : Goto(m, pc)
        /\ (pc = "swap" => attached' = [attached EXCEPT ![a] = @ \cup {m}])
  BY DEF CvAttach
<1>3. After(m, pc) /\ \A x \in Request : req'[x].listed = req[x].listed
  BY <1>1, <1>2, GotoAfter DEF Pc, InFlight, CvState
<1>4. attached' = attached \/ attached' = [attached EXCEPT ![a] = @ \cup {m}]
  BY DEF CvAttach
<1>5. \A b \in App : /\ attached[b] \subseteq attached'[b]
                     /\ attached'[b] \subseteq attached[b] \cup {m}
  BY <1>1, <1>4 DEF TypeOK
<1>6. \A n \in Mover : Fresh(n)'
  <2> TAKE n \in Mover
  <2>1. CASE n = m
    BY <1>2, <1>3, <2>1 DEF Fresh, After
  <2>2. CASE n # m
    BY <1>3, <1>5, <2>2 DEF CvKept, Fresh, After, Request
  <2> QED BY <2>1, <2>2
<1>7. \A b \in App : Witness(b)'
  <2> TAKE b \in App
  <2>1. CASE pc = "swap" /\ b = a
    <3>1. m \in attached'[b]
      BY <1>1, <1>2, <2>1 DEF TypeOK
    <3>2. \A n \in Mover : m \notin req'[n].listed
      BY <1>1, <1>3 DEF CvKept, Fresh, Request
    <3> QED BY <3>1, <3>2 DEF Witness
  <2>2. CASE ~(pc = "swap" /\ b = a)
    <3>1. \A n \in Mover : req'[n].pc = "swap" /\ req'[n].app = b =>
            req[n].pc = "swap" /\ req[n].app = b /\ req'[n].listed \subseteq req[n].listed
      BY <1>3, <2>2 DEF After, Request
    <3> QED BY <1>1, <1>5, <3>1, WitnessKept DEF CvKept
  <2> QED BY <2>1, <2>2
<1> QED BY <1>6, <1>7 DEF CvKept

LEMMA CvDetachCv ==
  ASSUME Inv, CvKept, NEW m \in Request, CvDetach(m)
  PROVE  CvKept'
<1> DEFINE a == req[m].app
<1>1. m \in Mover /\ UNCHANGED <<row, event>> /\ TypeOK /\ a \in App
      /\ req[m].pc = "swap"
  BY DEF CvDetach, Inv, Shape, BookShape, MoveShape, BookState, InFlight, CvState, Request, rows
<1>2. PICK c \in req[m].listed :
        /\ req' = [req EXCEPT ![m].listed = @ \ {c}]
        /\ attached' = [attached EXCEPT ![a] = @ \ {c}] \/ attached' = attached
  BY DEF CvDetach
<1>3. \A n \in Mover : /\ req'[n].pc = req[n].pc /\ req'[n].app = req[n].app
                       /\ req'[n].listed \subseteq req[n].listed
  BY <1>1, <1>2 DEF TypeOK, Request
<1>4. \A b \in App : /\ attached'[b] \subseteq attached[b]
                     /\ b # a => attached'[b] = attached[b]
                     /\ attached[b] \ {c} \subseteq attached'[b]
  BY <1>1, <1>2 DEF TypeOK
<1>5. \A n \in Mover : Fresh(n)'
  BY <1>3, <1>4 DEF CvKept, Fresh
<1>6. \A b \in App : Witness(b)'
  <2> TAKE b \in App
  <2> SUFFICES ASSUME row[b] # "none" /\ event[b] # None
               PROVE  \E x \in attached'[b] : \A n \in Mover :
                        req'[n].pc = "swap" /\ req'[n].app = b => x \notin req'[n].listed
    BY <1>1 DEF Witness
  <2>1. PICK x \in attached[b] : \A n \in Mover :
          req[n].pc = "swap" /\ req[n].app = b => x \notin req[n].listed
    BY DEF CvKept, Witness
  <2>2. b = a => x # c
    BY <1>1, <1>2, <2>1
  <2>3. x \in attached'[b]
    BY <1>4, <2>1, <2>2
  <2> QED BY <1>3, <2>1, <2>3
<1> QED BY <1>5, <1>6 DEF CvKept

LEMMA CvEndCv ==
  ASSUME Inv, CvKept, NEW m \in Request,
         CvWrite(m) \/ CvUnput(m) \/ Refuse(m) \/ Crash(m)
  PROVE  CvKept'
<1>1. Goto(m, "done") /\ UNCHANGED <<row, event, attached>> /\ TypeOK
  BY DEF CvWrite, CvUnput, Refuse, Crash, rows, calendar, Inv
<1>2. After(m, "done") /\ \A x \in Request : req'[x].listed = req[x].listed
  BY <1>1, GotoAfter DEF Pc
<1>3. "done" \in Pc
  BY DEF Pc
<1> QED BY <1>1, <1>2, <1>3, CvStill

LEMMA NextCv == Inv /\ CvKept /\ [Next]_vars => CvKept'
<1>1. ASSUME Inv, CvKept, Next PROVE CvKept'
  <2>1. PICK r \in Request : BookStep(r) \/ MoveStep(r) \/ CvStep(r) \/ Refuse(r) \/ Crash(r)
    BY <1>1 DEF Next
  <2> QED BY <1>1, <2>1, BookCv, MoveCv, LoadCv, CvPutCv, CvListCv, CvAttachCv, CvDetachCv,
             CvEndCv DEF CvStep
<1>2. CvKept /\ UNCHANGED vars => CvKept'
  BY DEF CvKept, Fresh, Witness, vars, rows, calendar
<1> QED BY <1>1, <1>2

(* No replacement leaves a booked interview without a CV, whatever other   *)
(* replacements, moves and cancellations run beside it.                    *)
THEOREM AlwaysACv == Spec => []NeverWithoutCv
<1>1. Spec => []CvKept
  BY InitCv, NextCv, Invariant, PTL DEF Spec
<1>2. CvKept => NeverWithoutCv
  BY DEF CvKept, Witness, NeverWithoutCv
<1> QED BY <1>1, <1>2, PTL

----------------------------------------------------------------------------
(* An event without its row is being undone, or the undoing failed. *)
EventShape(b) ==
  /\ req[b].pc = "unstore" => event[b] = None \/ b \in stray
  /\ row[b] = "none" /\ event[b] # None => b \in stray \/ req[b].pc \in BookState

(* Where the CV of a request is can be told from where the request is. *)
FileShape(c) ==
  /\ req[c].pc \in {"idle", "loaded", "free", "replacing", "cancelling", "off"} \cup MoveState
       => c \notin files
  /\ req[c].pc \in {"stored", "created", "attached", "put", "listed", "swap"} => c \in files
  /\ \A a \in App : c \in versions[a] => req[c].pc = "done" /\ c \in files
  /\ c \in files /\ (\A a \in App : c \notin versions[a]) => c \in stray \/ req[c].pc \in InFlight

RowShape(a) ==
  /\ a \in Old => a \in versions[a] /\ a \in files
  /\ row[a] = "none" => versions[a] = {}
  /\ row[a] # "none" => cv[a] \in versions[a]

Accounted ==
  /\ \A b \in Booker : EventShape(b)
  /\ \A c \in Request : FileShape(c)
  /\ \A a \in App : RowShape(a)

LEMMA InitAccounted == Init => Accounted
<1> SUFFICES ASSUME Init PROVE Accounted
  OBVIOUS
<1>1. \A r \in Request : req[r].pc = "idle" /\ r \notin Old
  BY IdAssumption DEF Init, Request
<1>2. \A a \in App : /\ versions[a] = IF a \in Old THEN {a} ELSE {}
                     /\ cv[a] = IF a \in Old THEN a ELSE None
                     /\ row[a] = IF a \in Old THEN "live" ELSE "none"
  BY DEF Init
<1>3. \A b \in Booker : b \in App /\ b \in Request /\ event[b] = None
  BY IdAssumption DEF Init, App, Request
<1>4. \A c \in Request : FileShape(c)
  BY <1>1, <1>2 DEF FileShape, Init
<1>5. \A a \in App : RowShape(a)
  BY <1>2 DEF RowShape, Init
<1>6. \A b \in Booker : EventShape(b)
  BY <1>1, <1>3 DEF EventShape
<1> QED BY <1>4, <1>5, <1>6 DEF Accounted

(* A request creates and removes its own event and its own CV only, so     *)
(* what is known of the others stays.                                      *)
LEMMA OthersAccounted ==
  ASSUME Accounted, NEW r \in Request,
         \A x \in Request : x # r => req'[x].pc = req[x].pc,
         \A c \in Cv : c # r => (c \in files' <=> c \in files),
         \A a \in App, c \in Cv : c # r => (c \in versions'[a] <=> c \in versions[a]),
         stray \subseteq stray',
         \A b \in Booker : b # r =>
           \/ row'[b] = row[b] /\ event'[b] = event[b]
           \/ row'[b] # "none" /\ (req[b].pc = "unstore" => event'[b] = event[b])
  PROVE  /\ \A b \in Booker \ {r} : EventShape(b)'
         /\ \A c \in Request \ {r} : FileShape(c)'
<1>1. \A b \in Booker \ {r} : EventShape(b)'
  BY DEF Accounted, EventShape, Request
<1>2. \A c \in Request \ {r} : FileShape(c)'
  <2> TAKE c \in Request \ {r}
  <2>1. c \in Cv /\ FileShape(c) /\ req'[c].pc = req[c].pc
    BY DEF Accounted, Cv, App, Request
  <2>2. c \in files' <=> c \in files
    BY <2>1
  <2>3. \A a \in App : c \in versions'[a] <=> c \in versions[a]
    BY <2>1
  <2> QED BY <2>1, <2>2, <2>3 DEF FileShape
<1> QED BY <1>1, <1>2

(* Rows that stay as they are, in a step that stores or deletes at most    *)
(* the CV of its own request.                                              *)
LEMMA RowsAccounted ==
  ASSUME Accounted, NEW r \in Request, UNCHANGED <<cv, versions>>,
         \A a \in App : row'[a] = "none" <=> row[a] = "none",
         \A c \in Cv : c # r => (c \in files' <=> c \in files)
  PROVE  \A a \in App : RowShape(a)'
<1> TAKE a \in App
<1>1. RowShape(a)
  BY DEF Accounted
<1>2. a \in Old => a # r /\ a \in Cv
  BY IdAssumption DEF Request, Cv, App
<1> QED BY <1>1, <1>2 DEF RowShape

(* A booking: its event and its CV are undone, or a failure is recorded.   *)
LEMMA BookAccounted ==
  ASSUME Inv, Accounted, NEW r \in Request, BookStep(r)
  PROVE  Accounted'
<1>1. r \in Booker /\ r \in App /\ r \in Cv /\ r \notin Mover /\ BookShape(r)
  BY IdAssumption
  DEF BookStep, BookLoad, BookCheck, BookStore, BookCreate, BookAttach, BookWrite,
      BookCancel, BookUnstore, Inv, Shape, MoveShape, BookState, Request, App, Cv
<1>2. TypeOK /\ EventShape(r) /\ FileShape(r) /\ RowShape(r)
  BY <1>1 DEF Inv, Accounted
<1>3. SUFFICES ASSUME BookStep(r)
               PROVE  /\ \A x \in Request : x # r => req'[x].pc = req[x].pc
                      /\ \A c \in Cv : c # r => (c \in files' <=> c \in files)
                      /\ \A a \in App, c \in Cv : c # r =>
                           (c \in versions'[a] <=> c \in versions[a])
                      /\ stray \subseteq stray'
                      /\ \A a \in App : a # r =>
                           row'[a] = row[a] /\ event'[a] = event[a] /\ cv'[a] = cv[a]
                      /\ EventShape(r)' /\ FileShape(r)' /\ RowShape(r)'
                      /\ \A a \in App : a # r => versions'[a] = versions[a]
  <2>1. \A b \in Booker : b \in App
    BY DEF App
  <2>2. \A b \in Booker \ {r} : EventShape(b)'
    BY <1>3, <2>1, OthersAccounted
  <2>3. \A c \in Request \ {r} : FileShape(c)'
    BY <1>3, <2>1, OthersAccounted
  <2>4. \A a \in App : a # r => RowShape(a)'
    BY <1>3 DEF Accounted, RowShape, Cv
  <2> QED BY <1>3, <2>2, <2>3, <2>4 DEF Accounted
<1>4. CASE BookLoad(r)
  <2>1. /\ req[r].pc = "idle" /\ req'[r].pc = "loaded"
        /\ \A x \in Request : x # r => req'[x].pc = req[x].pc
        /\ UNCHANGED <<row, cv, versions, event, files, stray>>
    BY <1>2, <1>4 DEF BookLoad, TypeOK, rows, calendar
  <2>2. event[r] = None
    BY <1>1, <2>1 DEF BookShape
  <2> QED BY <1>2, <2>1, <2>2
          DEF EventShape, FileShape, RowShape, InFlight, BookState, MoveState
<1>5. CASE BookCheck(r)
  <2>1. PICK pc \in {"free", "done"} : After(r, pc)
    BY <1>2, <1>5, GotoAfter DEF BookCheck, Pc, InFlight, BookState
  <2>2. /\ req[r].pc = "loaded" /\ event[r] = None
        /\ UNCHANGED <<row, cv, versions, event, files, stray>>
    BY <1>1, <1>5 DEF BookCheck, BookShape, rows, calendar
  <2> QED BY <1>2, <2>1, <2>2
          DEF EventShape, FileShape, RowShape, InFlight, BookState, MoveState, After
<1>6. CASE BookStore(r)
  <2>1. PICK pc \in {"stored", "done"} :
          /\ After(r, pc)
          /\ \/ files' = files \cup {r} /\ (pc = "done" => stray' = stray \cup {r})
             \/ files' = files /\ pc = "done"
    BY <1>2, <1>6, GotoAfter DEF BookStore, Pc, InFlight, BookState
  <2>2. /\ req[r].pc = "free" /\ event[r] = None
        /\ UNCHANGED <<row, cv, versions, event>> /\ stray \subseteq stray'
    BY <1>1, <1>6 DEF BookStore, BookShape, rows, calendar
  <2>3. /\ r \notin files /\ \A a \in App : r \notin versions[a]
    BY <1>2, <2>2 DEF FileShape
  <2> QED BY <1>1, <1>2, <2>1, <2>2, <2>3, IdAssumption
          DEF EventShape, FileShape, RowShape, InFlight, BookState, MoveState, After
<1>7. CASE BookCreate(r)
  <2>1. PICK pc \in {"created", "unstore"} :
          /\ After(r, pc)
          /\ pc = "unstore" => stray' = stray \cup {r} \/ event' = event
    BY <1>1, <1>2, <1>7, Went DEF BookCreate, Pc, InFlight, BookState
  <2>2. /\ req[r].pc = "stored" /\ event[r] = None /\ row[r] = "none"
        /\ UNCHANGED <<row, cv, versions, files>> /\ stray \subseteq stray'
        /\ \A a \in App : a # r => event'[a] = event[a]
    BY <1>1, <1>2, <1>7 DEF BookCreate, BookShape, BookState, rows, TypeOK
  <2> QED BY <1>2, <2>1, <2>2
          DEF EventShape, FileShape, RowShape, InFlight, BookState, MoveState, After
<1>8. CASE BookAttach(r)
  <2>1. PICK pc \in {"attached", "uncreate"} : After(r, pc)
    BY <1>2, <1>8, GotoAfter DEF BookAttach, Pc, InFlight, BookState
  <2>2. req[r].pc = "created" /\ UNCHANGED <<row, cv, versions, event, files, stray>>
    BY <1>8 DEF BookAttach, rows
  <2> QED BY <1>2, <2>1, <2>2
          DEF EventShape, FileShape, RowShape, InFlight, BookState, MoveState, After
<1>9. CASE BookWrite(r)
  <2>1. /\ req[r].pc = "attached" /\ row[r] = "none" /\ r \in files /\ versions[r] = {}
        /\ \A a \in App : r \notin versions[a]
        /\ UNCHANGED <<event, files, stray>>
    BY <1>1, <1>2, <1>9 DEF BookWrite, BookShape, BookState, FileShape, RowShape, calendar
  <2>2. CASE UNCHANGED rows /\ Goto(r, "undo")
    <3>1. After(r, "undo")
      BY <1>2, <2>2, GotoAfter DEF Pc, InFlight, BookState
    <3> QED BY <1>2, <2>1, <2>2, <3>1
            DEF EventShape, FileShape, RowShape, InFlight, BookState, MoveState, After, rows
  <2>3. CASE /\ row' = [row EXCEPT ![r] = "live"] /\ cv' = [cv EXCEPT ![r] = r]
             /\ versions' = [versions EXCEPT ![r] = {r}] /\ Goto(r, "done")
    <3>1. After(r, "done")
      BY <1>2, <2>3, GotoAfter DEF Pc
    <3>2. /\ row'[r] = "live" /\ cv'[r] = r /\ versions'[r] = {r}
          /\ \A a \in App : a # r => row'[a] = row[a] /\ cv'[a] = cv[a]
                                     /\ versions'[a] = versions[a]
      BY <1>1, <1>2, <2>3 DEF TypeOK
    <3>3. \A a \in App, c \in Cv : c # r => (c \in versions'[a] <=> c \in versions[a])
      BY <2>1, <3>2
    <3>4. FileShape(r)'
      BY <1>1, <2>1, <3>1, <3>2
      DEF FileShape, InFlight, BookState, MoveState, CvState, After
    <3>5. EventShape(r)' /\ RowShape(r)'
      BY <1>1, <2>1, <3>1, <3>2, IdAssumption DEF EventShape, RowShape, After
    <3> QED BY <2>1, <3>1, <3>2, <3>3, <3>4, <3>5 DEF After
  <2> QED BY <1>9, <2>2, <2>3 DEF BookWrite
<1>10. CASE BookCancel(r)
  <2>1. After(r, "unstore")
    BY <1>2, <1>10, GotoAfter DEF BookCancel, Pc, InFlight, BookState
  <2>2. /\ req[r].pc \in {"uncreate", "undo"} /\ row[r] = "none"
        /\ UNCHANGED <<row, cv, versions, files>> /\ stray \subseteq stray'
        /\ \A a \in App : a # r => event'[a] = event[a]
        /\ event'[r] = None \/ r \in stray'
    BY <1>1, <1>2, <1>10 DEF BookCancel, BookShape, BookState, rows, calendar, TypeOK
  <2> QED BY <1>2, <2>1, <2>2
          DEF EventShape, FileShape, RowShape, InFlight, BookState, MoveState, After
<1>11. CASE BookUnstore(r)
  <2>1. After(r, "done")
    BY <1>2, <1>11, GotoAfter DEF BookUnstore, Pc
  <2>2. /\ req[r].pc = "unstore" /\ row[r] = "none"
        /\ UNCHANGED <<row, cv, versions, event>> /\ stray \subseteq stray'
        /\ files' = files \ {r} \/ (files' = files /\ r \in stray')
    BY <1>1, <1>11 DEF BookUnstore, BookShape, BookState, rows, calendar
  <2>3. \A a \in App : r \notin versions[a]
    BY <1>2, <2>2 DEF FileShape
  <2> QED BY <1>1, <1>2, <2>1, <2>2, <2>3, IdAssumption
          DEF EventShape, FileShape, RowShape, InFlight, BookState, MoveState, After
<1> QED BY <1>4, <1>5, <1>6, <1>7, <1>8, <1>9, <1>10, <1>11 DEF BookStep

(* A request on an application that exists: it leaves every row, it brings *)
(* no event back, and it stores or deletes its own CV at most.             *)
LEMMA MoverAccounted ==
  ASSUME Inv, Accounted, NEW m \in Mover,
         \A x \in Request : x # m => req'[x].pc = req[x].pc,
         \A c \in Cv : c # m => (c \in files' <=> c \in files),
         \A a \in App, c \in Cv : c # m => (c \in versions'[a] <=> c \in versions[a]),
         stray \subseteq stray',
         \A a \in App : \/ row'[a] = row[a] /\ event'[a] = event[a]
                        \/ row[a] # "none" /\ row'[a] # "none",
         FileShape(m)',
         \A a \in App : RowShape(a)'
  PROVE  Accounted'
<1>1. \A b \in Booker : b # m /\ b \in App /\ b \in Request
  BY IdAssumption DEF App, Request
<1>2. m \in Request
  BY DEF Request
<1>3. \A b \in Booker : req[b].pc = "unstore" => row[b] = "none"
  BY DEF Inv, Shape, BookShape, BookState
<1>4. \A b \in Booker : EventShape(b)'
  BY <1>1, <1>2, <1>3, OthersAccounted
<1>5. \A c \in Request : FileShape(c)'
  BY <1>1, <1>2, <1>3, OthersAccounted
<1> QED BY <1>4, <1>5 DEF Accounted

(* Files and rows as they are: only where the request is has changed.      *)
LEMMA PlainAccounted ==
  ASSUME Inv, Accounted, NEW m \in Mover,
         \A x \in Request : x # m => req'[x].pc = req[x].pc,
         UNCHANGED <<cv, versions, files>>, stray \subseteq stray',
         \A a \in App : \/ row'[a] = row[a] /\ event'[a] = event[a]
                        \/ row[a] # "none" /\ row'[a] # "none",
         FileShape(m)'
  PROVE  Accounted'
<1>1. m \in Request
  BY DEF Request
<1>2. \A a \in App : RowShape(a)'
  BY <1>1, RowsAccounted
<1> QED BY <1>2, MoverAccounted

LEMMA LoadAccounted ==
  ASSUME Inv, Accounted, NEW m \in Request, NEW pc \in {"moving", "cancelling", "replacing"},
         Load(m, pc)
  PROVE  Accounted'
<1>1. /\ m \in Mover /\ req[m].pc = "idle"
      /\ UNCHANGED <<row, cv, versions, event, files, stray>>
  BY DEF Load, rows, calendar
<1>2. req'[m].pc = pc /\ \A x \in Request : x # m => req'[x].pc = req[x].pc
  BY DEF Load, Inv, TypeOK
<1>3. FileShape(m)'
  BY <1>1, <1>2 DEF Accounted, FileShape, MoveState, InFlight
<1> QED BY <1>1, <1>2, <1>3, PlainAccounted

LEMMA MoveAccounted ==
  ASSUME Inv, Accounted, NEW m \in Request, MoveStep(m)
  PROVE  Accounted'
<1> DEFINE a == req[m].app
<1>1. CASE Load(m, "moving") \/ Load(m, "cancelling")
  BY <1>1, LoadAccounted
<1>2. CASE \/ MoveCheck(m) \/ MoveBlocked(m) \/ MoveEvent(m) \/ MoveWrite(m)
           \/ CancelEvent(m) \/ CancelWrite(m)
  <2>1. m \in Mover /\ req[m].pc \in MoveState \cup {"cancelling", "off"} /\ MoveShape(m)
    BY <1>2 DEF MoveCheck, MoveBlocked, MoveEvent, MoveWrite, CancelEvent, CancelWrite, Inv,
                Shape, BookShape, BookState, MoveState, Request
  <2>2. a \in App /\ row[a] # "none" /\ TypeOK
    BY <2>1 DEF MoveShape, Inv, InFlight
  <2>3. PICK pc \in {"cleared", "blocked", "done", "moved", "off"} :
          Goto(m, pc) \/ Taken(m, a, pc) \/ Changed(m, a, pc)
    BY <1>2 DEF MoveCheck, MoveBlocked, MoveEvent, MoveWrite, CancelEvent, CancelWrite
  <2>4. After(m, pc)
    BY <2>2, <2>3, Went DEF Pc, InFlight, MoveState
  <2>5. UNCHANGED <<cv, versions, files>> /\ stray' = stray
    BY <1>2 DEF MoveCheck, MoveBlocked, MoveEvent, MoveWrite, CancelEvent, CancelWrite, rows
  <2>6. \A b \in App : b # a => row'[b] = row[b] /\ event'[b] = event[b]
    BY <1>2, <2>2 DEF MoveCheck, MoveBlocked, MoveEvent, MoveWrite, CancelEvent, CancelWrite,
                      rows, calendar, TypeOK
  <2>7. row'[a] # "none"
    BY <1>2, <2>2 DEF MoveCheck, MoveBlocked, MoveEvent, MoveWrite, CancelEvent, CancelWrite,
                      rows, calendar, TypeOK
  <2>8. FileShape(m)'
    BY <2>1, <2>3, <2>4, <2>5 DEF Accounted, FileShape, After, MoveState, InFlight, Request
  <2> HIDE DEF a
  <2> QED BY <2>1, <2>2, <2>4, <2>5, <2>6, <2>7, <2>8, PlainAccounted DEF After
<1> QED BY <1>1, <1>2 DEF MoveStep

(* The steps of a replacement that store or delete the CV.                 *)
LEMMA StoreAccounted ==
  ASSUME Inv, Accounted, NEW m \in Request, CvPut(m) \/ CvUnput(m)
  PROVE  Accounted'
<1>1. /\ m \in Mover /\ m \in Cv /\ TypeOK
      /\ UNCHANGED <<row, cv, versions, event>> /\ stray \subseteq stray'
  BY DEF CvPut, CvUnput, Inv, Shape, BookShape, BookState, Request, Cv, rows, calendar
<1>2. FileShape(m) /\ \A a \in App : m \notin versions[a]
  BY DEF Accounted, FileShape, CvPut, CvUnput
<1>3. PICK pc \in {"put", "done"} : Goto(m, pc)
        /\ \/ files' = files \cup {m} /\ req[m].pc = "replacing" /\ (pc = "done" => m \in stray')
           \/ pc = "done" /\ files' = files /\ (req[m].pc = "replacing" \/ m \in stray')
           \/ pc = "done" /\ files' = files \ {m}
  BY DEF CvPut, CvUnput
<1>4. After(m, pc)
  BY <1>1, <1>3, GotoAfter DEF Pc, InFlight, CvState
<1>5. FileShape(m)'
  BY <1>1, <1>2, <1>3, <1>4 DEF FileShape, After, MoveState, InFlight, CvState
<1>6. \A a \in App : RowShape(a)'
  BY <1>1, <1>3, RowsAccounted
<1> QED BY <1>1, <1>3, <1>4, <1>5, <1>6, MoverAccounted DEF After

(* The steps in between: the CV is stored and no row has it yet.           *)
LEMMA SwapAccounted ==
  ASSUME Inv, Accounted, NEW m \in Request, CvList(m) \/ CvAttach(m) \/ CvDetach(m)
  PROVE  Accounted'
<1>1. /\ m \in Mover /\ TypeOK /\ req[m].app \in App
      /\ UNCHANGED <<row, cv, versions, event, files, stray>>
  BY DEF CvList, CvAttach, CvDetach, Inv, Shape, BookShape, MoveShape, BookState, InFlight,
         CvState, Request, rows, calendar
<1>2. /\ req'[m].pc \in {"listed", "swap", "unput"}
      /\ \A x \in Request : x # m => req'[x].pc = req[x].pc
  <2>1. CASE Goto(m, "swap") \/ Goto(m, "unput")
    BY <1>1, <2>1 DEF Goto, TypeOK
  <2>2. CASE req' = [req EXCEPT ![m].pc = "listed", ![m].listed = attached[req[m].app]]
    <3>1. "listed" \in Pc /\ attached[req[m].app] \in SUBSET Cv
      BY <1>1 DEF Pc, InFlight, CvState, TypeOK
    <3>2. After(m, "listed")
      BY <1>1, <2>2, <3>1, ListedAfter
    <3> QED BY <3>2 DEF After
  <2>3. CASE CvDetach(m)
    BY <1>1, <2>3 DEF CvDetach, TypeOK
  <2> QED BY <2>1, <2>2, <2>3 DEF CvList, CvAttach
<1>3. FileShape(m) /\ req[m].pc \in {"put", "listed", "swap"}
  BY DEF Accounted, CvList, CvAttach, CvDetach
<1>4. FileShape(m)'
  BY <1>1, <1>2, <1>3 DEF FileShape, MoveState, InFlight, CvState
<1> QED BY <1>1, <1>2, <1>4, PlainAccounted

LEMMA CvWriteAccounted ==
  ASSUME Inv, Accounted, NEW m \in Request, CvWrite(m)
  PROVE  Accounted'
<1> DEFINE a == req[m].app
<1>1. /\ m \in Mover /\ m \in Cv /\ TypeOK /\ a \in App /\ row[a] # "none"
      /\ m \notin Old /\ UNCHANGED <<row, event, files>> /\ stray \subseteq stray'
  BY IdAssumption
  DEF CvWrite, Inv, Shape, BookShape, MoveShape, BookState, InFlight, CvState, Request, Cv,
      calendar
<1>2. FileShape(m) /\ m \in files /\ \A b \in App : m \notin versions[b]
  BY DEF Accounted, FileShape, CvWrite
<1>3. After(m, "done")
  BY <1>1, GotoAfter DEF CvWrite, Pc
<1>4. CASE UNCHANGED <<cv, versions>> /\ stray' = stray \cup {m}
  <2>1. FileShape(m)'
    BY <1>1, <1>2, <1>3, <1>4 DEF FileShape, After, MoveState
  <2> QED BY <1>1, <1>3, <1>4, <2>1, PlainAccounted DEF After
<1>5. CASE /\ cv' = [cv EXCEPT ![a] = m]
           /\ versions' = [versions EXCEPT ![a] = @ \cup {m}]
  <2>1. /\ cv'[a] = m /\ versions'[a] = versions[a] \cup {m}
        /\ \A b \in App : b # a => cv'[b] = cv[b] /\ versions'[b] = versions[b]
    BY <1>1, <1>5 DEF TypeOK
  <2>2. FileShape(m)'
    BY <1>1, <1>2, <1>3, <2>1 DEF FileShape, After, MoveState
  <2>3. \A b \in App : RowShape(b)'
    BY <1>1, <2>1 DEF Accounted, RowShape
  <2>4. \A b \in App, c \in Cv : c # m => (c \in versions'[b] <=> c \in versions[b])
    BY <2>1
  <2> QED BY <1>1, <1>3, <2>2, <2>3, <2>4, MoverAccounted DEF After
<1> QED BY <1>4, <1>5 DEF CvWrite

(* A refusal leaves nothing; a process that dies is recorded.              *)
LEMMA EndAccounted ==
  ASSUME Inv, Accounted, NEW r \in Request, Refuse(r) \/ Crash(r)
  PROVE  Accounted'
<1>1. /\ TypeOK /\ r \in Cv /\ FileShape(r)
      /\ UNCHANGED <<row, cv, versions, event, files>> /\ stray \subseteq stray'
  BY DEF Refuse, Crash, rows, calendar, Inv, Accounted, Request, Cv, App
<1>2. After(r, "done")
  BY <1>1, GotoAfter DEF Refuse, Crash, Pc
<1>3. r \in stray' \/ req[r].pc \in {"loaded", "moving"}
  BY DEF Refuse, Crash
<1>4. \A a \in App : r \notin versions[a]
  BY <1>1 DEF FileShape, Refuse, Crash, InFlight, BookState, MoveState, CvState
<1>5. FileShape(r)'
  BY <1>1, <1>2, <1>3, <1>4 DEF FileShape, After, MoveState
<1>6. CASE r \in Mover
  BY <1>1, <1>2, <1>5, <1>6, PlainAccounted DEF After
<1>7. CASE r \in Booker
  <2>1. EventShape(r)'
    BY <1>1, <1>2, <1>3, <1>7
    DEF Accounted, EventShape, After, Inv, Shape, BookShape, BookState
  <2>2. \A b \in Booker : b # r => EventShape(b)'
    BY <1>1, <1>2, OthersAccounted DEF After
  <2>3. \A c \in Request : c # r => FileShape(c)'
    BY <1>1, <1>2, OthersAccounted DEF After
  <2>4. \A a \in App : RowShape(a)'
    BY <1>1, RowsAccounted
  <2> QED BY <1>5, <2>1, <2>2, <2>3, <2>4 DEF Accounted
<1> QED BY <1>6, <1>7 DEF Request

LEMMA NextAccounted == Inv /\ Accounted /\ [Next]_vars => Accounted'
<1>1. ASSUME Inv, Accounted, Next PROVE Accounted'
  <2>1. PICK r \in Request : BookStep(r) \/ MoveStep(r) \/ CvStep(r) \/ Refuse(r) \/ Crash(r)
    BY <1>1 DEF Next
  <2> QED BY <1>1, <2>1, BookAccounted, MoveAccounted, LoadAccounted, StoreAccounted,
             SwapAccounted, CvWriteAccounted, EndAccounted DEF CvStep
<1>2. Accounted /\ UNCHANGED vars => Accounted'
  BY DEF Accounted, EventShape, FileShape, RowShape, vars, rows, calendar
<1> QED BY <1>1, <1>2

(* Every event and every stored CV has its row, is on its way to one, or   *)
(* was left by a failure; and every CV a row names is stored.              *)
THEOREM NothingOrphaned == Spec => []NoOrphan
<1>1. Spec => []Accounted
  BY InitAccounted, NextAccounted, Invariant, PTL DEF Spec
<1>2. Inv /\ Accounted => NoOrphan
  <2> SUFFICES ASSUME Inv, Accounted PROVE NoOrphan
    OBVIOUS
  <2>1. \A a \in App : row[a] = "none" /\ event[a] # None =>
          a \in stray \/ req[a].pc \in BookState
    BY DEF Inv, Shape, LifeShape, Accounted, EventShape, App
  <2>2. \A c \in Cv : c \in Old \/ c \in Request
    BY DEF Cv, App, Request
  <2>3. \A c \in Old : c \in App /\ c \in versions[c] /\ c \in files
    BY DEF Accounted, RowShape, App
  <2>4. \A c \in files : (\A a \in App : c \notin versions[a]) =>
          c \in stray \/ req[c].pc \in InFlight
    BY <2>2, <2>3 DEF Inv, TypeOK, Accounted, FileShape
  <2>5. \A a \in App : versions[a] \subseteq files
    BY <2>2, <2>3 DEF Inv, TypeOK, Accounted, FileShape
  <2> QED BY <2>1, <2>4, <2>5 DEF NoOrphan, Accounted, RowShape
<1> QED BY <1>1, <1>2, Invariant, PTL

----------------------------------------------------------------------------
(* The slot that a booking found free is free, unless it is stale. *)
SlotShape(b) ==
  req[b].pc \in {"free", "stored"} /\ ~req[b].stale =>
    \A a \in App : a # b /\ event[a] # None => ~Overlap(event[a], req[b].to)

(* What a move knows of its interview holds, unless it is stale. *)
MoveKnows(m) ==
  LET a == req[m].app IN
  req[m].pc \in MoveState /\ ~req[m].stale /\ event[a] # None /\ a \notin excused =>
    /\ req[m].pc # "moved" => event[a] = req[m].from
    /\ req[m].pc = "moved" => event[a] = req[m].to
    /\ req[m].pc = "cleared" => \A c \in App :
         c # a /\ event[c] # None /\ Overlap(event[c], req[m].to) => c \in excused

Known ==
  /\ CalendarExplained
  /\ \A b \in Booker : SlotShape(b)
  /\ \A m \in Mover : MoveKnows(m)

(* The other requests stay where they are, and none forgets to be stale.   *)
Others(r) ==
  \A x \in Request : x # r =>
    /\ req'[x].pc = req[x].pc /\ req'[x].app = req[x].app
    /\ req'[x].from = req[x].from /\ req'[x].to = req[x].to
    /\ ~req'[x].stale => ~req[x].stale

LEMMA OthersGo ==
  ASSUME TypeOK, NEW r \in Request, NEW a \in App, NEW pc \in Pc,
         Goto(r, pc) \/ Taken(r, a, pc) \/ Changed(r, a, pc)
  PROVE  /\ After(r, pc) /\ Others(r)
         /\ req'[r].stale = req[r].stale
         /\ Taken(r, a, pc) => \A x \in Request : x # r =>
              (req[x].pc \in Deciding \/ (req[x].pc \in InFlight /\ req[x].app = a)
                 => req'[x].stale)
<1>1. ASSUME Goto(r, pc), ~Taken(r, a, pc)
      PROVE  After(r, pc) /\ Others(r) /\ req'[r].stale = req[r].stale
  BY <1>1, GotoAfter DEF After, Others
<1>2. ASSUME NEW taken \in BOOLEAN, Notify(r, a, pc, taken)
      PROVE  /\ After(r, pc) /\ Others(r) /\ req'[r].stale = req[r].stale
             /\ taken => \A x \in Request : x # r =>
                  (req[x].pc \in Deciding \/ (req[x].pc \in InFlight /\ req[x].app = a)
                    => req'[x].stale)
  <2>1. /\ After(r, pc)
        /\ req'[r].stale = req[r].stale /\ req'[r].listed = req[r].listed
        /\ \A x \in Request : x # r =>
             (req'[x].stale <=> \/ req[x].stale
                                \/ taken /\ req[x].pc \in Deciding
                                \/ req[x].pc \in InFlight /\ req[x].app = a)
    BY <1>2, NotifyAfter
  <2>2. \A x \in Request : x # r /\ ~req'[x].stale => ~req[x].stale
    BY <2>1, Zenon
  <2>3. taken => \A x \in Request : x # r =>
          (req[x].pc \in Deciding \/ (req[x].pc \in InFlight /\ req[x].app = a)
            => req'[x].stale)
    BY <2>1, Zenon
  <2>4. Others(r)
    BY <2>1, <2>2 DEF After, Others
  <2> QED BY <2>1, <2>3, <2>4
<1>3. Taken(r, a, pc) => Notify(r, a, pc, TRUE)
  BY DEF Taken
<1>4. Changed(r, a, pc) => Notify(r, a, pc, FALSE)
  BY DEF Changed
<1>5. TRUE \in BOOLEAN /\ FALSE \in BOOLEAN
  OBVIOUS
<1>6. CASE Taken(r, a, pc)
  BY <1>2, <1>3, <1>5, <1>6
<1>7. CASE Changed(r, a, pc) /\ ~Taken(r, a, pc)
  BY <1>2, <1>4, <1>5, <1>7
<1> QED BY <1>1, <1>6, <1>7

(* A step that places no event.                                            *)
LEMMA QuietKnown ==
  ASSUME Inv, Known, NEW r \in Request, Others(r), excused \subseteq excused',
         \A a \in App : event'[a] = event[a] \/ event'[a] = None,
         \A a \in App : row'[a] = "live" /\ event'[a] # None =>
           \/ row[a] = "live" /\ at'[a] = at[a]
           \/ at'[a] = event'[a] \/ a \in excused',
         req[r].pc = "moved" => LET a == req[r].app IN
           event'[a] \in {None, at'[a]} \/ a \in excused',
         r \in Booker => SlotShape(r)',
         r \in Mover => MoveKnows(r)'
  PROVE  Known'
<1>1. \A a, b \in App :
        a # b /\ event'[a] # None /\ event'[b] # None /\ Overlap(event'[a], event'[b])
          => a \in excused' \/ b \in excused'
  BY DEF Known, CalendarExplained
<1>2. ASSUME NEW a \in App, row'[a] = "live", event'[a] # None, at'[a] # event'[a]
      PROVE  a \in excused' \/ BeingMoved(a)'
  <2>1. CASE a \in excused
    BY <2>1
  <2>2. CASE a \notin excused
    <3>1. a \in excused' \/ BeingMoved(a)
      BY <1>2, <2>2 DEF Known, CalendarExplained
    <3>2. ASSUME NEW m \in Mover, req[m].pc = "moved", req[m].app = a
          PROVE  a \in excused' \/ BeingMoved(a)'
      BY <1>2, <3>2 DEF BeingMoved, Others, Request
    <3> QED BY <3>1, <3>2 DEF BeingMoved
  <2> QED BY <2>1, <2>2
<1>3. \A b \in Booker : SlotShape(b)'
  <2> TAKE b \in Booker
  <2>1. SlotShape(b) /\ b \in Request
    BY DEF Known, Request
  <2> QED BY <2>1 DEF SlotShape, Others
<1>4. \A m \in Mover : MoveKnows(m)'
  <2> TAKE m \in Mover
  <2>1. MoveKnows(m) /\ MoveShape(m) /\ m \in Request
    BY DEF Known, Request, Inv, Shape
  <2>2. req[m].pc \in MoveState => req[m].app \in App
    BY <2>1 DEF MoveShape, InFlight
  <2> QED BY <2>1, <2>2 DEF MoveKnows, Others
<1> QED BY <1>1, <1>2, <1>3, <1>4 DEF Known, CalendarExplained

(* An event is placed: whoever decides by now is stale.                    *)
LEMMA PlacedKnown ==
  ASSUME Inv, Known, NEW r \in Request, NEW a \in App, NEW t \in Start, NEW pc \in Pc,
         Taken(r, a, pc), excused \subseteq excused', UNCHANGED <<row, at>>,
         event'[a] = t, \A c \in App : c # a => event'[c] = event[c],
         \A c \in App : c # a /\ event[c] # None /\ Overlap(event[c], t) =>
           a \in excused' \/ c \in excused',
         row[a] = "live" => \/ a \in excused'
                            \/ r \in Mover /\ pc = "moved" /\ req[r].app = a,
         req[r].pc # "moved",
         r \in Booker => SlotShape(r)',
         r \in Mover => MoveKnows(r)'
  PROVE  Known'
<1>1. TypeOK
  BY DEF Inv
<1>2. /\ After(r, pc) /\ Others(r)
      /\ \A x \in Request : x # r =>
           (req[x].pc \in Deciding \/ (req[x].pc \in InFlight /\ req[x].app = a)
              => req'[x].stale)
  BY <1>1, OthersGo
<1>3. event'[a] = t /\ \A c \in App : c # a => event'[c] = event[c]
  OBVIOUS
<1>4. ASSUME NEW c \in App, NEW b \in App, c # b, event'[c] # None, event'[b] # None,
             Overlap(event'[c], event'[b])
      PROVE  c \in excused' \/ b \in excused'
  <2>1. Overlap(event'[b], event'[c])
    BY <1>4 DEF Overlap
  <2> QED BY <1>3, <1>4, <2>1 DEF Known, CalendarExplained
<1>5. ASSUME NEW c \in App, row'[c] = "live", event'[c] # None, at'[c] # event'[c]
      PROVE  c \in excused' \/ BeingMoved(c)'
  <2>1. CASE c = a
    BY <1>2, <1>5, <2>1 DEF BeingMoved, After
  <2>2. CASE c # a
    <3>1. c \in excused' \/ BeingMoved(c)
      BY <1>3, <1>5, <2>2 DEF Known, CalendarExplained
    <3>2. BeingMoved(c) => BeingMoved(c)'
      BY <1>2 DEF BeingMoved, Others, Request
    <3> QED BY <3>1, <3>2
  <2> QED BY <2>1, <2>2
<1>6. \A b \in Booker : SlotShape(b)'
  <2> TAKE b \in Booker
  <2>1. b # r /\ req'[b].pc \in {"free", "stored"} => req'[b].stale
    BY <1>2 DEF Others, Deciding, Request
  <2> QED BY <2>1 DEF SlotShape
<1>7. \A m \in Mover : MoveKnows(m)'
  <2> TAKE m \in Mover
  <2>1. MoveKnows(m) /\ MoveShape(m) /\ m \in Request
    BY DEF Known, Request, Inv, Shape
  <2>2. req[m].pc \in MoveState => req[m].app \in App /\ req[m].pc \in InFlight
    BY <2>1 DEF MoveShape, InFlight
  <2>3. CASE m # r /\ req[m].pc \in MoveState
    <3>1. req'[m].stale \/ (req[m].pc # "cleared" /\ req[m].app # a)
      BY <1>2, <2>1, <2>2, <2>3 DEF Deciding
    <3>2. CASE req'[m].stale
      BY <3>2 DEF MoveKnows
    <3>3. CASE req[m].pc # "cleared" /\ req[m].app # a
      BY <1>2, <1>3, <2>1, <2>2, <2>3, <3>3 DEF MoveKnows, Others
    <3> QED BY <3>1, <3>2, <3>3
  <2>4. CASE m # r /\ req[m].pc \notin MoveState
    BY <1>2, <2>1, <2>4 DEF MoveKnows, Others
  <2> QED BY <2>3, <2>4
<1> QED BY <1>4, <1>5, <1>6, <1>7 DEF Known, CalendarExplained

LEMMA InitKnown == Init => Known
<1> SUFFICES ASSUME Init PROVE Known
  OBVIOUS
<1>1. \A r \in Request : req[r].pc = "idle"
  BY DEF Init
<1>2. CalendarExplained
  BY DEF Init, CalendarExplained
<1>3. \A b \in Booker : SlotShape(b)
  BY <1>1 DEF SlotShape, Request
<1>4. \A m \in Mover : MoveKnows(m)
  BY <1>1 DEF MoveKnows, MoveState, Request
<1> QED BY <1>2, <1>3, <1>4 DEF Known

(* Steps that leave the calendar and the times alone, and of which the     *)
(* request has nothing to answer for.                                      *)
LEMMA PlainKnown ==
  ASSUME Inv, Known, NEW r \in Request, NEW a \in App, NEW pc \in Pc,
         Goto(r, pc) \/ Changed(r, a, pc),
         pc \notin {"free", "stored"} \cup MoveState, req[r].pc # "moved",
         excused \subseteq excused', at' = at,
         \A c \in App : event'[c] = event[c] \/ event'[c] = None,
         \A c \in App : row'[c] = "live" => row[c] = "live"
  PROVE  Known'
<1>1. TypeOK
  BY DEF Inv
<1>2. After(r, pc) /\ Others(r)
  BY <1>1, OthersGo
<1>3. req'[r].pc = pc
  BY <1>2 DEF After
<1>4. r \in Booker => SlotShape(r)'
  BY <1>3 DEF SlotShape
<1>5. r \in Mover => MoveKnows(r)'
  BY <1>3 DEF MoveKnows
<1> QED BY <1>2, <1>4, <1>5, QuietKnown

LEMMA BookKnown ==
  ASSUME Inv, Known, NEW r \in Request, BookStep(r)
  PROVE  Known'
<1>1. r \in Booker /\ r \in App /\ r \notin Mover /\ BookShape(r) /\ req[r].pc # "moved"
  BY IdAssumption
  DEF BookStep, BookLoad, BookCheck, BookStore, BookCreate, BookAttach, BookWrite,
      BookCancel, BookUnstore, Inv, Shape, MoveShape, BookState, Request, App
<1>2. TypeOK /\ SlotShape(r)
  BY <1>1 DEF Inv, Known
<1>3. CASE BookLoad(r)
  <2>1. /\ req'[r].pc = "loaded" /\ Others(r)
        /\ UNCHANGED <<row, at, event, excused>>
    BY <1>2, <1>3 DEF BookLoad, TypeOK, Others, rows, calendar
  <2>2. SlotShape(r)'
    BY <2>1 DEF SlotShape
  <2> QED BY <1>1, <2>1, <2>2, QuietKnown
<1>4. CASE BookCheck(r)
  <2>1. PICK pc \in {"free", "done"} : Goto(r, pc) /\ (pc = "free" => IsFree(req[r].to))
    BY <1>4 DEF BookCheck
  <2>2. After(r, pc) /\ Others(r)
    BY <1>1, <1>2, <2>1, OthersGo DEF Pc, InFlight, BookState
  <2>3. UNCHANGED <<row, at, event, excused>>
    BY <1>4 DEF BookCheck, rows, calendar
  <2>4. SlotShape(r)'
    <3>1. req'[r].pc = pc /\ req'[r].to = req[r].to
      BY <2>2 DEF After
    <3>2. \A a \in App : event[a] # None /\ pc = "free" => ~Overlap(event[a], req[r].to)
      BY <2>1 DEF IsFree, Busy
    <3> QED BY <2>1, <2>3, <3>1, <3>2 DEF SlotShape, Overlap
  <2> QED BY <1>1, <2>2, <2>3, <2>4, QuietKnown
<1>5. CASE BookStore(r)
  <2>1. PICK pc \in {"stored", "done"} : Goto(r, pc)
    BY <1>5 DEF BookStore
  <2>2. After(r, pc) /\ Others(r) /\ req'[r].stale = req[r].stale
    BY <1>1, <1>2, <2>1, OthersGo DEF Pc, InFlight, BookState
  <2>3. UNCHANGED <<row, at, event, excused>>
    BY <1>5 DEF BookStore, rows, calendar
  <2>4. SlotShape(r)'
    BY <1>2, <1>5, <2>1, <2>2, <2>3 DEF SlotShape, After, BookStore
  <2> QED BY <1>1, <2>2, <2>3, <2>4, QuietKnown
<1>6. CASE BookCreate(r)
  <2>1. CASE Goto(r, "unstore") /\ UNCHANGED <<event, excused>>
    BY <1>1, <1>6, <2>1, PlainKnown DEF BookCreate, rows, Pc, InFlight, BookState, MoveState
  <2>2. CASE /\ event' = [event EXCEPT ![r] = req[r].to] /\ Excuse(r)
             /\ Taken(r, r, "created") \/ Taken(r, r, "unstore")
    <3>1. PICK pc \in {"created", "unstore"} : Taken(r, r, pc)
      BY <2>2
    <3>2. pc \in Pc
      BY <3>1 DEF Pc, InFlight, BookState
    <3>3. /\ req[r].pc = "stored" /\ UNCHANGED <<row, at>>
          /\ req[r].app = r /\ req[r].to \in Start /\ row[r] = "none"
      BY <1>1, <1>6 DEF BookCreate, BookShape, BookState, rows
    <3>4. \A c \in App : c # r /\ event[c] # None /\ Overlap(event[c], req[r].to) =>
            r \in excused'
      BY <1>2, <2>2, <3>3 DEF SlotShape, Excuse
    <3>5. SlotShape(r)'
      <4>1. After(r, pc)
        BY <1>1, <1>2, <3>1, <3>2, OthersGo
      <4> QED BY <3>1, <4>1 DEF SlotShape, After
    <3>6. excused \subseteq excused'
      BY <2>2 DEF Excuse
    <3>7. event'[r] = req[r].to /\ \A c \in App : c # r => event'[c] = event[c]
      BY <1>1, <1>2, <2>2 DEF TypeOK
    <3> QED BY <1>1, <3>1, <3>2, <3>3, <3>4, <3>5, <3>6, <3>7, PlacedKnown
  <2> QED BY <1>6, <2>1, <2>2 DEF BookCreate
<1>7. CASE BookAttach(r)
  <2>1. PICK pc \in {"attached", "uncreate"} : Goto(r, pc)
    BY <1>7 DEF BookAttach
  <2>2. pc \in Pc /\ pc \notin {"free", "stored"} \cup MoveState
    BY <2>1 DEF Pc, InFlight, BookState, MoveState
  <2> QED BY <1>1, <1>7, <2>1, <2>2, PlainKnown DEF BookAttach, rows
<1>8. CASE BookWrite(r)
  <2>1. CASE UNCHANGED rows /\ Goto(r, "undo")
    BY <1>1, <1>8, <2>1, PlainKnown
    DEF BookWrite, rows, calendar, Pc, InFlight, BookState, MoveState
  <2>2. CASE /\ row' = [row EXCEPT ![r] = "live"] /\ at' = [at EXCEPT ![r] = req[r].to]
             /\ Goto(r, "done")
    <3>1. After(r, "done") /\ Others(r)
      BY <1>1, <1>2, <2>2, OthersGo DEF Pc
    <3>2. event' = event /\ excused' = excused /\ event[r] = req[r].to
      BY <1>1, <1>8 DEF BookWrite, BookShape, calendar
    <3>3. /\ at'[r] = event'[r]
          /\ \A a \in App : a # r => at'[a] = at[a] /\ row'[a] = row[a]
      BY <1>1, <1>2, <2>2, <3>2 DEF TypeOK
    <3>4. SlotShape(r)'
      BY <3>1 DEF SlotShape, After
    <3> QED BY <1>1, <3>1, <3>2, <3>3, <3>4, QuietKnown
  <2> QED BY <1>8, <2>1, <2>2 DEF BookWrite
<1>9. CASE BookCancel(r)
  <2>1. \A c \in App : event'[c] = event[c] \/ event'[c] = None
    BY <1>2, <1>9 DEF BookCancel, calendar, TypeOK
  <2> QED BY <1>1, <1>9, <2>1, PlainKnown
          DEF BookCancel, rows, Pc, InFlight, BookState, MoveState
<1>10. CASE BookUnstore(r)
  BY <1>1, <1>10, PlainKnown DEF BookUnstore, rows, calendar, Pc, MoveState
<1> QED BY <1>3, <1>4, <1>5, <1>6, <1>7, <1>8, <1>9, <1>10 DEF BookStep

LEMMA LoadKnown ==
  ASSUME Inv, Known, NEW m \in Request, NEW pc \in {"moving", "cancelling", "replacing"},
         Load(m, pc)
  PROVE  Known'
<1>1. /\ m \in Mover /\ m \notin Booker /\ req[m].pc = "idle"
      /\ UNCHANGED <<row, at, event, excused>>
  BY IdAssumption DEF Load, rows, calendar
<1>2. PICK a \in App, t \in Start :
        /\ row[a] = "live"
        /\ req' = [req EXCEPT ![m] = [pc |-> pc, app |-> a, from |-> at[a], to |-> t,
                                     listed |-> {}, stale |-> BeingMoved(a)]]
  BY DEF Load, LoadsLive
<1>3. /\ req'[m].pc = pc /\ req'[m].app = a /\ req'[m].from = at[a]
      /\ req'[m].stale = BeingMoved(a)
      /\ \A x \in Request : x # m => req'[x] = req[x]
  BY <1>2 DEF Inv, TypeOK
<1>4. Others(m)
  BY <1>3 DEF Others
<1>5. MoveKnows(m)'
  <2>1. ~BeingMoved(a) /\ event[a] # None /\ a \notin excused => event[a] = at[a]
    BY <1>2 DEF Known, CalendarExplained
  <2>2. pc \notin {"moved", "cleared"}
    OBVIOUS
  <2> QED BY <1>1, <1>3, <2>1, <2>2 DEF MoveKnows
<1> QED BY <1>1, <1>4, <1>5, QuietKnown

LEMMA MoveKnown ==
  ASSUME Inv, Known, NEW m \in Request, MoveStep(m)
  PROVE  Known'
<1> DEFINE a == req[m].app
           t == req[m].to
<1>1. CASE Load(m, "moving") \/ Load(m, "cancelling")
  BY <1>1, LoadKnown
<1>2. SUFFICES ASSUME \/ MoveCheck(m) \/ MoveBlocked(m) \/ MoveEvent(m) \/ MoveWrite(m)
                      \/ CancelEvent(m) \/ CancelWrite(m)
               PROVE  Known'
  BY <1>1 DEF MoveStep
<1>3. m \in Mover /\ m \notin Booker /\ MoveShape(m) /\ req[m].pc \in InFlight
  BY <1>2, IdAssumption
  DEF MoveCheck, MoveBlocked, MoveEvent, MoveWrite, CancelEvent, CancelWrite, Inv,
      Shape, BookShape, BookState, MoveState, InFlight, Request
<1>4. a \in App /\ row[a] # "none" /\ t \in Start /\ req[m].from \in Start
  BY <1>3 DEF MoveShape
<1>5. TypeOK /\ MoveKnows(m) /\ CalendarExplained
  BY <1>3 DEF Inv, Known
<1>6. {"cleared", "blocked", "moved", "off", "done"} \subseteq Pc
  BY DEF Pc, InFlight, MoveState
<1>7. CASE MoveCheck(m)
  <2>1. PICK pc \in {"cleared", "blocked"} :
          Goto(m, pc) /\ (pc = "cleared" => IsFreeExcept(t, req[m].from))
    BY <1>7 DEF MoveCheck
  <2>2. After(m, pc) /\ Others(m) /\ req'[m].stale = req[m].stale
    BY <1>4, <1>5, <1>6, <2>1, OthersGo
  <2>3. UNCHANGED <<row, at, event, excused>> /\ req[m].pc = "moving"
    BY <1>7 DEF MoveCheck, rows, calendar
  <2>4. MoveKnows(m)'
    <3>1. /\ req'[m].pc = pc /\ req'[m].app = a /\ req'[m].from = req[m].from
          /\ req'[m].to = t
      BY <2>2 DEF After
    <3>2. SUFFICES ASSUME ~req[m].stale, event[a] # None, a \notin excused
                   PROVE  /\ event[a] = req[m].from
                          /\ pc = "cleared" => \A c \in App :
                               c # a /\ event[c] # None /\ Overlap(event[c], t)
                                 => c \in excused
      BY <2>1, <2>2, <2>3, <3>1 DEF MoveKnows
    <3>3. event[a] = req[m].from
      BY <1>5, <2>3, <3>2 DEF MoveKnows, MoveState
    <3>4. ASSUME NEW c \in App, pc = "cleared", c # a, event[c] # None, Overlap(event[c], t)
          PROVE  c \in excused
      <4>1. event[c] = req[m].from
        BY <2>1, <3>4 DEF IsFreeExcept, Busy
      <4>2. \A s \in Start : Overlap(s, s)
        BY TimeAssumption DEF Overlap
      <4>3. Overlap(event[c], event[a])
        BY <1>4, <3>3, <4>1, <4>2
      <4> QED BY <1>4, <1>5, <3>2, <3>4, <4>3 DEF CalendarExplained
    <3> QED BY <3>3, <3>4
  <2> QED BY <1>3, <2>2, <2>3, <2>4, QuietKnown
<1>8. CASE MoveBlocked(m)
  <2>1. PICK pc \in {"done", "moved"} :
          Goto(m, pc) /\ (pc = "moved" => ~HoldsExactly(req[m].from))
    BY <1>8 DEF MoveBlocked
  <2>2. After(m, pc) /\ Others(m) /\ req'[m].stale = req[m].stale
    BY <1>4, <1>5, <1>6, <2>1, OthersGo
  <2>3. UNCHANGED <<row, at, event, excused>> /\ req[m].pc = "blocked"
    BY <1>8 DEF MoveBlocked, rows, calendar
  <2>4. pc = "moved" => event[a] # req[m].from
    BY <1>4, <2>1, TimeAssumption DEF HoldsExactly, Busy
  <2>5. MoveKnows(m)'
    BY <1>5, <2>1, <2>2, <2>3, <2>4 DEF MoveKnows, MoveState, After
  <2> QED BY <1>3, <2>2, <2>3, <2>5, QuietKnown
<1>9. CASE MoveEvent(m)
  <2>1. req[m].pc = "cleared" /\ UNCHANGED <<row, at>>
    BY <1>9 DEF MoveEvent, rows
  <2>2. CASE Goto(m, "done") /\ UNCHANGED <<event, excused>>
    BY <1>4, <1>6, <2>1, <2>2, PlainKnown DEF MoveState
  <2>3. CASE /\ event[a] # None /\ event' = [event EXCEPT ![a] = t]
             /\ \/ Taken(m, a, "moved") /\ Excuse(m)
                \/ Taken(m, a, "done") /\ excused' = excused \cup {a}
    <3>1. PICK pc \in {"moved", "done"} : Taken(m, a, pc) /\ (pc = "done" => a \in excused')
      BY <2>3
    <3>2. excused \subseteq excused' /\ (req[m].stale => a \in excused')
      BY <2>3 DEF Excuse
    <3>3. \A c \in App : c # a /\ event[c] # None /\ Overlap(event[c], t) =>
            a \in excused' \/ c \in excused'
      BY <1>5, <2>1, <2>3, <3>2 DEF MoveKnows, MoveState
    <3>4. After(m, pc)
      BY <1>4, <1>5, <1>6, <3>1, OthersGo
    <3>5. MoveKnows(m)'
      <4>1. event'[a] = t
        BY <1>4, <1>5, <2>3 DEF TypeOK
      <4> QED BY <3>1, <3>4, <4>1 DEF MoveKnows, MoveState, After
    <3>6. pc \in Pc /\ req[m].app = a /\ (pc = "moved" \/ a \in excused')
      BY <1>6, <3>1
    <3>7. Taken(m, a, pc) /\ req[m].pc # "moved"
      BY <2>1, <3>1
    <3>8. event'[a] = t /\ \A c \in App : c # a => event'[c] = event[c]
      BY <1>4, <1>5, <2>3 DEF TypeOK
    <3> HIDE DEF a, t
    <3> QED BY <1>3, <1>4, <2>1, <3>2, <3>3, <3>5, <3>6, <3>7, <3>8, PlacedKnown
  <2> QED BY <1>9, <2>2, <2>3 DEF MoveEvent
<1>10. CASE MoveWrite(m)
  <2>1. req[m].pc = "moved" /\ UNCHANGED <<row, event>> /\ excused \subseteq excused'
    BY <1>10 DEF MoveWrite, calendar, Excuse
  <2>2. Goto(m, "done") \/ Changed(m, a, "done")
    BY <1>10 DEF MoveWrite
  <2>3. After(m, "done") /\ Others(m)
    BY <1>4, <1>5, <1>6, <2>2, OthersGo
  <2>4. MoveKnows(m)'
    BY <2>3 DEF MoveKnows, MoveState, After
  <2>5. CASE at' = at /\ excused' = excused \cup {a}
    BY <1>3, <2>1, <2>3, <2>4, <2>5, QuietKnown
  <2>6. CASE at' = [at EXCEPT ![a] = t] /\ Excuse(m)
    <3>1. at'[a] = t /\ \A c \in App : c # a => at'[c] = at[c]
      BY <1>4, <1>5, <2>6 DEF TypeOK
    <3>2. req[m].stale => a \in excused'
      BY <2>6 DEF Excuse
    <3>3. event[a] = None \/ event[a] = t \/ a \in excused'
      BY <1>5, <2>1, <3>2 DEF MoveKnows, MoveState
    <3>4. CASE event[a] # None
      BY <1>3, <2>1, <2>3, <2>4, <3>1, <3>3, <3>4, QuietKnown
    <3>5. CASE event[a] = None
      BY <1>3, <2>1, <2>3, <2>4, <3>1, <3>5, QuietKnown
    <3> QED BY <3>4, <3>5
  <2> QED BY <1>10, <2>5, <2>6 DEF MoveWrite
<1>11. CASE CancelEvent(m)
  <2>1. \A c \in App : event'[c] = event[c] \/ event'[c] = None
    BY <1>5, <1>11 DEF CancelEvent, calendar, TypeOK
  <2>2. PICK pc \in {"off", "done"} : Goto(m, pc) \/ Changed(m, a, pc)
    BY <1>11 DEF CancelEvent
  <2> QED BY <1>4, <1>6, <1>11, <2>1, <2>2, PlainKnown DEF CancelEvent, rows, MoveState
<1>12. CASE CancelWrite(m)
  <2>1. \A c \in App : row'[c] = "live" => row[c] = "live"
    BY <1>5, <1>12 DEF CancelWrite, TypeOK
  <2> QED BY <1>4, <1>6, <1>12, <2>1, PlainKnown DEF CancelWrite, calendar, MoveState
<1> QED BY <1>2, <1>7, <1>8, <1>9, <1>10, <1>11, <1>12

LEMMA CvKnown ==
  ASSUME Inv, Known, NEW m \in Request,
         CvPut(m) \/ CvList(m) \/ CvAttach(m) \/ CvDetach(m) \/ CvWrite(m) \/ CvUnput(m)
  PROVE  Known'
<1>1. m \in Mover /\ m \notin Booker /\ MoveShape(m) /\ TypeOK
  BY IdAssumption
  DEF CvPut, CvList, CvAttach, CvDetach, CvWrite, CvUnput, Inv, Shape, BookShape, BookState,
      Request
<1>2. /\ UNCHANGED <<row, at, event, excused>>
      /\ req[m].pc \in CvState
  BY DEF CvPut, CvList, CvAttach, CvDetach, CvWrite, CvUnput, rows, calendar, CvState
<1>3. Others(m) /\ req'[m].pc \in CvState \cup {"done"}
  <2>1. \A x \in Request : x # m => req'[x] = req[x]
    BY <1>1 DEF CvPut, CvList, CvAttach, CvDetach, CvWrite, CvUnput, Goto, TypeOK
  <2>2. CASE req' = [req EXCEPT ![m].pc = "listed", ![m].listed = attached[req[m].app]]
    <3>1. "listed" \in Pc /\ attached[req[m].app] \in SUBSET Cv
      BY <1>1, <1>2 DEF MoveShape, InFlight, CvState, Pc, TypeOK
    <3>2. After(m, "listed")
      BY <1>1, <2>2, <3>1, ListedAfter
    <3> QED BY <2>1, <3>2 DEF Others, After, CvState
  <2>3. CASE CvDetach(m)
    BY <1>1, <2>1, <2>3 DEF CvDetach, Others, TypeOK, CvState
  <2>4. CASE \E pc \in {"put", "unput", "swap", "done"} : Goto(m, pc)
    BY <1>1, <2>1, <2>4 DEF Goto, Others, TypeOK, CvState
  <2> QED BY <2>2, <2>3, <2>4 DEF CvPut, CvList, CvAttach, CvWrite, CvUnput
<1>4. MoveKnows(m)'
  BY <1>3 DEF MoveKnows, MoveState, CvState
<1>5. req[m].pc # "moved"
  BY <1>2 DEF CvState
<1> QED BY <1>1, <1>2, <1>3, <1>4, <1>5, QuietKnown

LEMMA EndKnown ==
  ASSUME Inv, Known, NEW r \in Request, Refuse(r) \/ Crash(r)
  PROVE  Known'
<1>1. Goto(r, "done") /\ UNCHANGED <<row, at, event>> /\ TypeOK
  BY DEF Refuse, Crash, rows, calendar, Inv
<1>2. /\ excused \subseteq excused'
      /\ req[r].pc = "moved" => req[r].app \in excused'
  BY DEF Refuse, Crash
<1>3. After(r, "done") /\ Others(r)
  BY <1>1, GotoAfter DEF Pc, After, Others
<1>4. SlotShape(r)' /\ MoveKnows(r)'
  BY <1>3 DEF SlotShape, MoveKnows, MoveState, After
<1> QED BY <1>1, <1>2, <1>3, <1>4, QuietKnown

LEMMA NextKnown == Inv /\ Known /\ [Next]_vars => Known'
<1>1. ASSUME Inv, Known, Next PROVE Known'
  <2>1. PICK r \in Request : BookStep(r) \/ MoveStep(r) \/ CvStep(r) \/ Refuse(r) \/ Crash(r)
    BY <1>1 DEF Next
  <2> QED BY <1>1, <2>1, BookKnown, MoveKnown, LoadKnown, CvKnown, EndKnown DEF CvStep
<1>2. Known /\ UNCHANGED vars => Known'
  BY DEF Known, CalendarExplained, BeingMoved, SlotShape, MoveKnows, vars, rows, calendar
<1> QED BY <1>1, <1>2

(* Two interviews at one time, or a row that says another time than the    *)
(* calendar, are explained by a failure or by requests that crossed.       *)
THEOREM Explained == Spec => []CalendarExplained
<1>1. Spec => []Known
  BY InitKnown, NextKnown, Invariant, PTL DEF Spec
<1>2. Known => CalendarExplained
  BY DEF Known
<1> QED BY <1>1, <1>2, PTL

=============================================================================
