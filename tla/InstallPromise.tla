----------------------------- MODULE InstallPromise -----------------------------
(***************************************************************************)
(* What the window promises of an install, whatever else is clicked and    *)
(* whichever backends come and go: only an order its user confirmed is     *)
(* sent, one at a time; it is sent once and run once at most, and the      *)
(* window may lose sight of an order that runs, but never starts it again. *)
(* GuiSession implements it.                                               *)
(***************************************************************************)
CONSTANT Order  \* what a user can confirm

VARIABLES
  install,      \* the install in hand, with its order
  running       \* the orders that run on the machine, seen by the window or not

vars == <<install, running>>

None == [phase |-> "none"]
In(phases) == install.phase \in phases
Becomes(phase) == install' = [install EXCEPT !.phase = phase]

Init == install = None /\ running = {}

Confirm ==
  /\ install = None
  /\ install' \in [phase : {"confirmed"}, order : Order]
  /\ UNCHANGED running

Send == In({"confirmed"}) /\ Becomes("sent") /\ UNCHANGED running

Start ==
  /\ In({"sent"}) /\ Becomes("running")
  /\ running' = running \union {install.order}

Finish ==
  /\ In({"running"}) /\ Becomes("finished")
  /\ running' = running \ {install.order}

\* Whether it was never sent, was refused, or runs on: it will not be sent again.
Lose == In({"confirmed", "sent", "running"}) /\ Becomes("lost") /\ UNCHANGED running

End == install # None /\ install' = None /\ UNCHANGED running

\* An order that the window lost sight of comes to its end.
Expire(order) ==
  /\ In({"running"}) => install.order # order
  /\ running' = running \ {order}
  /\ UNCHANGED install

Next ==
  \/ Confirm \/ Send \/ Start \/ Finish \/ Lose \/ End
  \/ \E order \in running : Expire(order)

Spec == Init /\ [][Next]_vars
=============================================================================
