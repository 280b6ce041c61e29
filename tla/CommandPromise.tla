---------------------------- MODULE CommandPromise ----------------------------
(***************************************************************************)
(* What a caller of the command runner is promised, with no threads, queue,*)
(* pipe or clock: at most one process is launched, output is shown only    *)
(* while the call is open, and a verdict about a process is given only     *)
(* when the process is over.  CommandRunner implements it.                 *)
(***************************************************************************)
EXTENDS Sequences

CONSTANT Line

VARIABLES
  child,   \* "none", "alive" or "over"
  shown,   \* what the caller has been shown of the process's output
  verdict  \* "pending", how the call concluded, or "abandoned"

vars == <<child, shown, verdict>>

Init == child = "none" /\ shown = <<>> /\ verdict = "pending"

Launch ==
  /\ child = "none" /\ verdict = "pending"
  /\ child' = "alive"
  /\ UNCHANGED <<shown, verdict>>

Show ==
  /\ child # "none" /\ verdict = "pending"
  /\ \E l \in Line : shown' = Append(shown, l)
  /\ UNCHANGED <<child, verdict>>

ChildOver ==
  /\ child = "alive"
  /\ child' = "over"
  /\ UNCHANGED <<shown, verdict>>

Conclude ==
  /\ verdict = "pending"
  /\ verdict' \in CASE child = "none" -> {"rejected", "dry_run", "os_error"}
                    [] child = "over" -> {"complete", "timeout"}
                    [] child = "alive" -> {}
  /\ UNCHANGED <<child, shown>>

\* The call ends without a result: an exception, or the caller dropped it.
Abandon ==
  /\ verdict = "pending"
  /\ verdict' = "abandoned"
  /\ UNCHANGED <<child, shown>>

Next == Launch \/ Show \/ ChildOver \/ Conclude \/ Abandon

Spec == Init /\ [][Next]_vars
=============================================================================
