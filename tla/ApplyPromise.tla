------------------------------ MODULE ApplyPromise ------------------------------
(***************************************************************************)
(* What one apply may do to the machine, whatever the platform and however *)
(* many commands it takes: it begins each target once and only while it is *)
(* open, updates packages of its scope, and claims success only if no      *)
(* attempt failed.  UpdaterApply implements it.                            *)
(***************************************************************************)
EXTENDS FiniteSets

CONSTANTS
  Package,
  Target      \* what an apply can attempt: a package, or the whole system

VARIABLES
  scope,      \* the packages this apply may touch; fixed when it starts
  updated,    \* the packages it has updated
  begun,      \* the targets whose command has been started
  attempted,  \* the targets concluded: their command is over, or was refused
  failed,     \* those whose command did not succeed
  claim       \* "open", then "success", "failure" or "abandoned"

vars == <<scope, updated, begun, attempted, failed, claim>>

Init ==
  /\ scope \in SUBSET Package
  /\ updated = {} /\ begun = {} /\ attempted = {} /\ failed = {} /\ claim = "open"

\* No command is started twice, after it was concluded, or after the apply is over.
Begin(t) ==
  /\ claim = "open" /\ t \notin begun \union attempted
  /\ begun' = begun \union {t}
  /\ UNCHANGED <<scope, updated, attempted, failed, claim>>

\* What a command has begun may go on in a helper after it was concluded, and even
\* reported; it stays in the reach of a command that was started.
Update(p) ==
  /\ p \in scope /\ (p \in begun \/ begun \ Package # {})
  /\ updated' = updated \union {p}
  /\ UNCHANGED <<scope, begun, attempted, failed, claim>>

Conclude(t, ok) ==
  /\ claim = "open" /\ t \notin attempted
  /\ attempted' = attempted \union {t}
  /\ failed' = IF ok THEN failed ELSE failed \union {t}
  /\ UNCHANGED <<scope, updated, begun, claim>>

Report ==
  /\ claim = "open"
  /\ claim' \in {"success", "failure"}
  /\ claim' = "success" => failed = {}
  /\ UNCHANGED <<scope, updated, begun, attempted, failed>>

Abandon ==
  /\ claim = "open"
  /\ claim' = "abandoned"
  /\ UNCHANGED <<scope, updated, begun, attempted, failed>>

\* The last command of an apply is concluded and reported in one step.
ConcludeAndReport(t, ok) ==
  /\ claim = "open" /\ t \notin attempted
  /\ attempted' = attempted \union {t}
  /\ failed' = IF ok THEN failed ELSE failed \union {t}
  /\ claim' \in {"success", "failure"}
  /\ claim' = "success" => failed' = {}
  /\ UNCHANGED <<scope, updated, begun>>

Next ==
  \/ \E p \in Package : Update(p)
  \/ \E t \in Target : Begin(t)
  \/ \E t \in Target, ok \in BOOLEAN : Conclude(t, ok) \/ ConcludeAndReport(t, ok)
  \/ Report \/ Abandon

Spec == Init /\ [][Next]_vars
=============================================================================
