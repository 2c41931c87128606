----------------------------- MODULE Interview ------------------------------
(***************************************************************************)
(* What the hiring calendar promises about each application: the interview *)
(* is put into the interviewer's calendar once; from the moment it is      *)
(* booked it stays there until it is called off; and an interview called   *)
(* off never comes back.  A move is a stutter here: it is never a          *)
(* cancellation followed by a fresh booking.                               *)
(* InterviewBooking implements this specification.                         *)
(***************************************************************************)
CONSTANT App   \* the applications

VARIABLE life  \* of each application

Life == {"none", "placed", "booked", "off", "cancelled"}

Is(a, from, to) == life[a] = from /\ life' = [life EXCEPT ![a] = to]

(* In the calendar before the row is written, and out again if it is not. *)
Place(a) == Is(a, "none", "placed")
Withdraw(a) == Is(a, "placed", "none")
Book(a) == Is(a, "placed", "booked")

(* Out of the calendar first, then marked in the row. *)
CallOff(a) == Is(a, "booked", "off")
Cancel(a) == Is(a, "off", "cancelled")

Init == life \in [App -> {"none", "booked"}]

Next == \E a \in App :
          Place(a) \/ Withdraw(a) \/ Book(a) \/ CallOff(a) \/ Cancel(a)

Spec == Init /\ [][Next]_life
=============================================================================
