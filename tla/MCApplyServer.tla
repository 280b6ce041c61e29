----------------------------- MODULE MCApplyServer -----------------------------
(* Instances of ApplyServer for TLC.                                        *)
EXTENDS ApplyServer, TLC

CONSTANTS s1, s2

MCSession == {s1, s2}
Symmetry  == Permutations(MCSession)

Line(method) == [method |-> method, dry |-> TRUE, confirm |-> FALSE, token |-> FALSE,
                 only |-> "unset", skip |-> FALSE]

Real(method, confirm, token, only) ==
  [Line(method) EXCEPT !.dry = FALSE, !.confirm = confirm, !.token = token, !.only = only]

\* One line of each kind, a preview, real applies with and without a confirmation.
MCRequest ==
  { Line(m) : m \in {"blank", "invalid", "too deep", "undecodable", "unhashable", "query",
                     "shutdown", "unknown", "apply_updates_stream"} }
    \union { Real("apply_updates_stream", TRUE, TRUE, "some"),
             Real("apply_updates", TRUE, FALSE, "unset"),
             Real("apply_updates", TRUE, TRUE, "unset") }

\* What two clients may ask at the same time.
MCPair ==
  { Line("shutdown"), Line("too deep"), Real("apply_updates_stream", TRUE, TRUE, "unset") }
=============================================================================
