--------------------------- MODULE ReleaseConsensus ---------------------------
(* How a release comes about: the development-status run that gathers        *)
(* evidence, has the agents report and writes a session record               *)
(* (scripts/run-development-status-consensus.py, whose governance evidence   *)
(* is scripts/check-governance-timestamps.py), and the pipeline that a       *)
(* version tag starts (.github/workflows/release.yml: the consensus file is  *)
(* validated, the quality gates G1 to G5 run, a person approves).  Meanwhile *)
(* people edit and commit: the evidence is of several moments.               *)
EXTENDS Naturals, FiniteSets, Sequences

CONSTANTS
  Versions,    \* version numbers, and "unknown"
  Edits,       \* the fields of the tree that may be edited, each with its values
  FirstTree,   \* the tree at the start, committed
  MaxEdits, MaxRuns  \* bounds

Agents == {"orchestrator", "delegation-manager", "backend-architect", "devops-automator",
           "scheduler", "code-reviewer", "technical-writer", "reality-checker"}

(* What a tree is made of; session record 0 stands for those of earlier days.*)
Field ==
  [unit |-> [failed : Nat, runnable : Nat, skipped : Nat], integration |-> BOOLEAN,
   compiles |-> BOOLEAN, lint |-> BOOLEAN, findings |-> {"LOW", "MEDIUM", "HIGH", "CRITICAL"},
   policy |-> {"dated", "undated", "missing"}, gates_doc |-> {"dated", "undated", "missing"},
   registry |-> {"dated", "undated", "missing"}, agents |-> SUBSET Agents,
   milestones |-> Seq([dated : BOOLEAN, criteria : Nat]), index |-> BOOLEAN,
   sessions |-> SUBSET (0..MaxRuns), script |-> BOOLEAN, tooltips |-> BOOLEAN, version |-> Versions,
   consensus |-> [present : BOOLEAN, dated : BOOLEAN, version : Versions, approved : BOOLEAN,
                  production_ready : BOOLEAN, blockers : BOOLEAN, agents : SUBSET Agents]]

IsTree(t) ==
  /\ t = [f \in DOMAIN Field |-> t[f]]
  /\ \A f \in DOMAIN Field : t[f] \in Field[f]

ASSUME ReleaseAssumption ==
  /\ MaxEdits \in Nat /\ MaxRuns \in Nat /\ "unknown" \in Versions
  /\ IsTree(FirstTree) /\ FirstTree.sessions \subseteq {0}
  /\ DOMAIN Edits \subseteq DOMAIN Field
  /\ \A f \in DOMAIN Edits : Edits[f] \subseteq Field[f]
  /\ "sessions" \in DOMAIN Edits => Edits.sessions \subseteq SUBSET {0}

VARIABLES
  tree,      \* the working tree
  head,      \* the last commit
  edits,     \* edits so far
  git,       \* whether there is a git to ask
  at,        \* the step of the status run: "idle" between runs
  registry,  \* the agents the run has loaded
  evidence,  \* what it has gathered
  moved,     \* the tree or the commit changed since the run began
  runs,      \* runs begun
  bus,       \* stages of the run that are on the bus
  verdict,   \* of the last run that ended: "none", "approved", "not approved", "raised"
  unfiled,   \* a session record was written, and not committed or removed since
  tagged,    \* the commit under the tag, FirstTree before there is one
  pipeline   \* "none", "validate", "gates", "approval", "published" or "stopped"

repo == <<tree, head, edits, git>>
run  == <<at, registry, evidence, moved, runs, bus, verdict>>
ci   == <<tagged, pipeline>>
vars == <<repo, run, unfiled, ci>>

-----------------------------------------------------------------------------
(* What is read off a tree.                                                *)

\* pytest over tests/ exits 0: no failure, and skipped tests are none.
TestsPass(t) == t.unit.failed = 0 /\ t.integration

PolicyOK(t)    == t.policy = "dated" /\ t.gates_doc = "dated"
RegistryOK(t)  == t.registry = "dated" /\ t.agents # {}
MilestonesOK(t) == t.milestones # <<>> /\
  \A i \in DOMAIN t.milestones : t.milestones[i].dated /\ t.milestones[i].criteria > 0
KnowledgeOK(t) == t.index /\ t.sessions # {}
ConsensusDated(t) == t.consensus.present => t.consensus.dated

\* check-governance-timestamps.py: all five checks, and no error from any.
Governance(t) ==
  PolicyOK(t) /\ RegistryOK(t) /\ MilestonesOK(t) /\ KnowledgeOK(t) /\ ConsensusDated(t)

\* The last milestone by name.
ExitCriteria(t) == IF t.milestones = <<>> THEN 0 ELSE t.milestones[Len(t.milestones)].criteria

\* Mutated form: the rate is of all collected tests, the skipped ones too.
UnitGateOfCollected(t) ==
  /\ t.unit.runnable > 0
  /\ (t.unit.runnable - t.unit.failed) * 100 >= 90 * (t.unit.runnable + t.unit.skipped)

(* run-unit-test-gate.py: 90 of a hundred that were not skipped, where       *)
(* QUALITY_GATES.md:36 says of the collected ones; none is too few.          *)
UnitGate(t) == t.unit.runnable > 0 /\ (t.unit.runnable - t.unit.failed) * 100 >= 90 * t.unit.runnable

CompileGate(t) == t.compiles

(* run-static-analysis-gate.py: ruff and mypy have to pass.  Whether bandit  *)
(* was installed and ran nobody asks, and without its report nothing is      *)
(* found: analysed is whether there is one.                                  *)
StaticGate(t, analysed) == t.lint /\ (analysed => t.findings \notin {"HIGH", "CRITICAL"})

QualityGates(t, analysed) ==
  CompileGate(t) /\ UnitGate(t) /\ t.integration /\ StaticGate(t, analysed) /\ Governance(t)

Required == {"devops-automator", "code-reviewer", "reality-checker"}

\* validate-release-consensus.py: who took part is looked at, not what they said.
ValidConsensus(t, version) ==
  /\ t.consensus.present /\ t.consensus.version = version
  /\ t.consensus.approved /\ t.consensus.production_ready /\ ~t.consensus.blockers
  /\ Required \subseteq t.consensus.agents

-----------------------------------------------------------------------------
(* The reports and the consensus, from the evidence.                       *)

Delegation(e) == IF e.policy THEN "ok" ELSE "attention"
Backend(e)    == IF e.script THEN "ok" ELSE "blocked"
Devops(e)     == IF e.tests /\ e.governance THEN "ok" ELSE "blocked"
Reviewer(e)   == IF "blocked" \in {Delegation(e), Backend(e), Devops(e)}
                 THEN "changes_requested" ELSE "approved_with_notes"
Writer(e)     == IF e.version = "1.2.0" /\ e.dirty THEN "attention" ELSE "ok"
Verdicts(e)   == {"ok", Delegation(e), Backend(e), Devops(e), Reviewer(e), Writer(e)}

CriteriaMet(e) ==
  Cardinality({ c \in {"tooltips", "script", "policy", "governance", "tests"} : e[c] })

\* Mutated form: what is uncommitted does not block.
ProductionReadyUncommitted(e) == e.tests /\ e.governance /\ CriteriaMet(e) >= e.criteria

\* _report_reality: no blocker.
ProductionReady(e) == e.tests /\ e.governance /\ ~e.dirty /\ CriteriaMet(e) >= e.criteria

Approved(e) == ProductionReady(e) /\ Verdicts(e) \subseteq {"ok", "approved_with_notes", "approved"}

Evidence ==
  [tests : BOOLEAN, governance : BOOLEAN, dirty : BOOLEAN, policy : BOOLEAN, script : BOOLEAN,
   tooltips : BOOLEAN, criteria : Nat, version : Versions]

NoEvidence ==
  [tests |-> FALSE, governance |-> FALSE, dirty |-> FALSE, policy |-> FALSE, script |-> FALSE,
   tooltips |-> FALSE, criteria |-> 0, version |-> "unknown"]

-----------------------------------------------------------------------------

Init ==
  /\ tree = FirstTree /\ head = FirstTree /\ edits = 0 /\ git \in BOOLEAN
  /\ at = "idle" /\ registry = {} /\ evidence = NoEvidence /\ moved = FALSE
  /\ runs = 0 /\ bus = 0 /\ verdict = "none" /\ unfiled = FALSE
  /\ tagged = FirstTree /\ pipeline = "none"

Edit ==
  /\ edits < MaxEdits /\ edits' = edits + 1
  /\ \E f \in DOMAIN Edits : \E v \in Edits[f] :
       tree' = [tree EXCEPT ![f] = v] /\ unfiled' = (unfiled /\ f # "sessions")
  /\ moved' = TRUE
  /\ UNCHANGED <<head, git, at, registry, evidence, runs, bus, verdict, ci>>

Commit ==
  /\ git /\ tree # head /\ head' = tree /\ unfiled' = FALSE
  /\ moved' = TRUE
  /\ UNCHANGED <<tree, edits, git, at, registry, evidence, runs, bus, verdict, ci>>

LoadRegistry ==
  /\ at = "idle" /\ runs < MaxRuns /\ runs' = runs + 1
  /\ moved' = FALSE /\ evidence' = NoEvidence /\ bus' = 0
  /\ IF tree.registry = "missing"
     THEN verdict' = "raised" /\ UNCHANGED <<at, registry>>
     ELSE at' = "pytest" /\ registry' = tree.agents /\ verdict' = "none"
  /\ UNCHANGED <<repo, unfiled, ci>>

RunPytest ==
  /\ at = "pytest" /\ at' = "governance"
  /\ evidence' = [evidence EXCEPT !.tests = TestsPass(tree)]
  /\ UNCHANGED <<repo, registry, moved, runs, bus, verdict, unfiled, ci>>

CheckGovernance ==
  /\ at = "governance" /\ at' = "survey"
  /\ evidence' = [evidence EXCEPT !.governance = Governance(tree)]
  /\ UNCHANGED <<repo, registry, moved, runs, bus, verdict, unfiled, ci>>

(* git status, the milestone, the files.  Without a git there is no output,  *)
(* and no output is a clean tree.                                            *)
Survey ==
  /\ at = "survey" /\ at' = "report"
  /\ evidence' = [evidence EXCEPT
       !.dirty = git /\ tree # head, !.policy = tree.policy # "missing", !.script = tree.script,
       !.tooltips = tree.tooltips, !.criteria = ExitCriteria(tree), !.version = tree.version]
  /\ UNCHANGED <<repo, registry, moved, runs, bus, verdict, unfiled, ci>>

(* Who must be registered for the messages of each stage.                    *)
Stages == << {"orchestrator"}, {"delegation-manager"},
             {"backend-architect", "devops-automator", "scheduler"},
             {"code-reviewer"}, {"technical-writer"}, {"reality-checker"} >>

\* Mutated form: git ignores the session records.
FileRecordIgnored == UNCHANGED tree /\ unfiled' = TRUE

FileRecord == tree' = [tree EXCEPT !.sessions = @ \union {runs}] /\ unfiled' = TRUE

(* The agents report; one that is not registered raises with the messages    *)
(* before it on the bus and no session record.                               *)
Report ==
  /\ at = "report"
  /\ \/ /\ bus < Len(Stages) /\ Stages[bus + 1] \subseteq registry
        /\ bus' = bus + 1 /\ UNCHANGED <<at, verdict, tree, unfiled>>
     \/ /\ bus < Len(Stages) /\ ~(Stages[bus + 1] \subseteq registry)
        /\ at' = "idle" /\ verdict' = "raised" /\ UNCHANGED <<bus, tree, unfiled>>
     \/ /\ bus = Len(Stages)
        /\ FileRecord
        /\ at' = "idle"
        /\ verdict' = IF Approved(evidence) THEN "approved" ELSE "not approved"
        /\ UNCHANGED bus
  /\ UNCHANGED <<head, edits, git, registry, evidence, moved, runs, ci>>

\* ---------------------------------------------------------------- the pipeline

Tag ==
  /\ pipeline = "none" /\ git /\ tagged' = head /\ pipeline' = "validate"
  /\ UNCHANGED <<repo, run, unfiled>>

\* The tag's version is pyproject's, or the pipeline stops.
Validate(version) ==
  /\ pipeline = "validate"
  /\ pipeline' = IF version = tagged.version /\ ValidConsensus(tagged, version)
                 THEN "gates" ELSE "stopped"
  /\ UNCHANGED <<repo, run, unfiled, tagged>>

RunGates ==
  /\ pipeline = "gates"
  /\ \E analysed \in BOOLEAN :
       pipeline' = IF QualityGates(tagged, analysed) THEN "approval" ELSE "stopped"
  /\ UNCHANGED <<repo, run, unfiled, tagged>>

(* The installer is built, and the release manager approves, or not.         *)
Publish ==
  /\ pipeline = "approval" /\ pipeline' \in {"published", "stopped"}
  /\ UNCHANGED <<repo, run, unfiled, tagged>>

Pipeline == Tag \/ (\E version \in Versions : Validate(version)) \/ RunGates \/ Publish

Next ==
  \/ Edit \/ Commit \/ LoadRegistry \/ RunPytest \/ CheckGovernance \/ Survey \/ Report
  \/ Pipeline

Spec == Init /\ [][Next]_vars

-----------------------------------------------------------------------------
(* Properties.                                                             *)

TypeOK ==
  /\ IsTree(tree) /\ IsTree(head) /\ IsTree(tagged) /\ evidence \in Evidence
  /\ edits \in 0..MaxEdits /\ runs \in 0..MaxRuns
  /\ git \in BOOLEAN /\ moved \in BOOLEAN /\ unfiled \in BOOLEAN
  /\ at \in {"idle", "pytest", "governance", "survey", "report"}
  /\ registry \subseteq Agents /\ bus \in 0..Len(Stages)
  /\ verdict \in {"none", "approved", "not approved", "raised"}
  /\ (verdict \in {"approved", "not approved"}) => (bus = Len(Stages))
  /\ pipeline \in {"none", "validate", "gates", "approval", "published", "stopped"}

Approves == verdict' = "approved" /\ verdict # "approved"

(* The evidence is of three moments of a run that takes minutes.  When       *)
(* nobody edited or committed meanwhile, and there was a git to ask, a run   *)
(* that approves has tested the very commit: the tree is committed, passes   *)
(* its tests and its governance check, and no agent spoke against it.  A     *)
(* milestone with more than the five criteria that the script can verify     *)
(* (v1.3.0-stable has seven) is never approved.                              *)
ApprovedMeansGreen ==
  [][Approves =>
       /\ (git /\ ~moved) => (tree = head /\ TestsPass(head) /\ Governance(head) /\ head.script)
       /\ ~moved => ExitCriteria(tree) <= 5
       /\ Verdicts(evidence) \cap {"attention", "blocked", "changes_requested"} = {}]_vars

(* A run leaves its session record in the tree, uncommitted, approved or     *)
(* not: until somebody commits or removes it no other run approves.          *)
RecordIsCommittedFirst ==
  [][Approves /\ git => ~unfiled]_vars

(* What a published commit has passed, in its own numbers: it compiles and   *)
(* lints, at most a tenth of the unit tests that were not skipped fail, its  *)
(* integration tests pass, its documents are dated, its own version's        *)
(* consensus is approved.  Of bandit's findings nothing follows.             *)
Gated(t) ==
  /\ t.compiles /\ t.lint /\ t.integration
  /\ t.unit.runnable > 0 /\ 10 * t.unit.failed <= t.unit.runnable
  /\ t.policy = "dated" /\ t.gates_doc = "dated" /\ t.registry = "dated"
  /\ t.index /\ t.sessions # {}
  /\ t.consensus.version = t.version /\ t.consensus.dated /\ t.consensus.approved
  /\ t.consensus.production_ready /\ ~t.consensus.blockers
  /\ Required \subseteq t.consensus.agents

\* The last run approved, there was a git to ask, and nothing has moved since it began.
HeadApproved == verdict = "approved" /\ git /\ ~moved

\* What a status run does not look at, or counts otherwise than the gates do.
OnlyTheGatesSee(t) ==
  ~t.compiles \/ ~t.lint \/ t.findings \in {"HIGH", "CRITICAL"} \/ t.unit.runnable = 0

(* The consensus file names a version and no commit, and people go on        *)
(* editing behind the tag: what is published is gated by what the tagged     *)
(* commit itself holds.  And the pipeline agrees with the status run: a tag  *)
(* on the commit that a run has just approved is not stopped by the unit     *)
(* tests, the integration tests or the governance check, which that run has  *)
(* counted by other scripts (it would be under QUALITY_GATES.md:36, that     *)
(* wants 90 of a hundred collected tests, skipped ones too).                 *)
GatesJudgeTheTag ==
  /\ [](pipeline = "published" => Gated(tagged))
  /\ [][pipeline = "gates" /\ pipeline' = "stopped" /\ HeadApproved /\ tagged = head
          => OnlyTheGatesSee(tagged)]_vars

-----------------------------------------------------------------------------
(* The inductive invariant.                                                *)

(* What a run has gathered is still so while nobody edits or commits.        *)
EvidenceInv ==
  ~moved =>
    /\ at \in {"governance", "survey", "report"} => (evidence.tests <=> TestsPass(tree))
    /\ at \in {"survey", "report"} => (evidence.governance <=> Governance(tree))
    /\ at = "report" =>
         /\ evidence.dirty <=> (git /\ tree # head)
         /\ evidence.script <=> tree.script
         /\ evidence.criteria = ExitCriteria(tree)

(* The record of a run is its own; until it is committed the tree differs.   *)
RecordInv ==
  /\ tree.sessions \union head.sessions \subseteq 0..runs
  /\ at # "idle" => runs > 0 /\ runs \notin tree.sessions \union head.sessions
  /\ unfiled => tree.sessions # head.sessions
  /\ at = "report" /\ git /\ unfiled => evidence.dirty

(* What the pipeline has passed, it has found in the tagged commit.          *)
PipelineInv ==
  /\ pipeline \in {"gates", "approval", "published"} => ValidConsensus(tagged, tagged.version)
  /\ pipeline \in {"approval", "published"} => \E analysed \in BOOLEAN : QualityGates(tagged, analysed)

(* The commit that a run approved is green until somebody edits or commits.  *)
ApprovalInv == HeadApproved => TestsPass(head) /\ Governance(head)

Inv == TypeOK /\ EvidenceInv /\ RecordInv /\ PipelineInv /\ ApprovalInv

=============================================================================
