--------------------------- MODULE MCReleaseConsensus ---------------------------
(* An instance of ReleaseConsensus for TLC: a tree in order, and one or two  *)
(* values of every field that put it out of order.                           *)
EXTENDS ReleaseConsensus

Milestone(criteria) == [dated |-> TRUE, criteria |-> criteria]

MCConsensus ==
  [present |-> TRUE, dated |-> TRUE, version |-> "1.3.0", approved |-> TRUE,
   production_ready |-> TRUE, blockers |-> FALSE, agents |-> Required]

MCFirstTree ==
  [unit |-> [failed |-> 0, runnable |-> 20, skipped |-> 20], integration |-> TRUE,
   compiles |-> TRUE, lint |-> TRUE, findings |-> "LOW",
   policy |-> "dated", gates_doc |-> "dated", registry |-> "dated", agents |-> Agents,
   milestones |-> <<Milestone(5)>>, index |-> TRUE, sessions |-> {0},
   script |-> TRUE, tooltips |-> TRUE, version |-> "1.3.0", consensus |-> MCConsensus]

MCEdits ==
  [unit        |-> {[MCFirstTree.unit EXCEPT !.failed = n] : n \in {2, 3}}
                     \union {[failed |-> 0, runnable |-> 0, skipped |-> 40]},
   integration |-> {FALSE}, compiles |-> {FALSE}, findings |-> {"HIGH"},
   policy      |-> {"undated", "missing"}, registry |-> {"missing"},
   agents      |-> {Agents \ {"code-reviewer"}},
   milestones  |-> {<<Milestone(5), Milestone(n)>> : n \in {4, 7}},
   sessions    |-> {{}, {0}}, script |-> {FALSE}, tooltips |-> {FALSE},
   version     |-> {"1.2.0", "1.3.0"},
   consensus   |-> {[MCConsensus EXCEPT !.approved = FALSE],
                    [MCConsensus EXCEPT !.agents = {"code-reviewer"}],
                    [MCConsensus EXCEPT !.dated = FALSE]}]
=============================================================================
