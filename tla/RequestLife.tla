---------------------------- MODULE RequestLife -----------------------------
(***************************************************************************)
(* What each request promises to its parties: one after another, people    *)
(* open, answer, close and hand it over, and each is told who may.  A      *)
(* closed request never changes again, nor does who closed it.             *)
(* Requests implements this specification.                                 *)
(***************************************************************************)
CONSTANTS Req, Member, Client, Admin, None

VARIABLE life   \* of each request: its state, its parties, who closed it

Person == Member \cup Client

Is(r, status) == life[r].status \in status

Open(r) ==
  \E by \in Member, to \in Person :
    /\ Is(r, {"none"})
    /\ life' = [life EXCEPT ![r] = [status |-> "open", by |-> by, to |-> to, closer |-> None]]

Answer(r) ==
  /\ Is(r, {"open"})
  /\ life' = [life EXCEPT ![r].status = "answered"]

Close(r, status, who) ==
  /\ Is(r, {"open", "answered"})
  /\ life' = [life EXCEPT ![r] = [status |-> status, by |-> @.by, to |-> @.to, closer |-> who]]

(* The requester knows whether it was granted, the addressee whether not. *)
Grant(r) == \E who \in {life[r].by} \cup Admin : Close(r, "granted", who)
Cancel(r) == \E who \in {life[r].by} \cup Admin : Close(r, "cancelled", who)
Decline(r) == \E who \in {life[r].to} \cup Admin : Close(r, "declined", who)

(* From a member to a member. *)
HandOver(r) ==
  \E to \in Member :
    /\ Is(r, {"open", "answered"}) /\ life[r].to \notin Client
    /\ life' = [life EXCEPT ![r].to = to]

Fresh == [status : {"none"}, by : {None}, to : {None}, closer : {None}]
Opened == [status : {"open"}, by : Member, to : Person, closer : {None}]

Init == life \in [Req -> Fresh \cup Opened]

Next ==
  \E r \in Req : Open(r) \/ Answer(r) \/ Grant(r) \/ Cancel(r) \/ Decline(r) \/ HandOver(r)

Spec == Init /\ [][Next]_life
=============================================================================
