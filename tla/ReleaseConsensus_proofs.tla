------------------------ MODULE ReleaseConsensus_proofs ------------------------
(* Theorems about ReleaseConsensus for every set of edits and any number of  *)
(* them, of commits and of runs.                                             *)
EXTENDS ReleaseConsensus, FiniteSetTheorems, TLAPS

-----------------------------------------------------------------------------
(* Numbers, and trees.                                                       *)

\* The bounds are natural numbers.
LEMMA Bounds == MaxEdits \in Nat /\ MaxRuns \in Nat
BY ReleaseAssumption DEF ReleaseAssumption

\* So is what they bound.
LEMMA Counters ==
  ASSUME TypeOK
  PROVE  /\ edits \in Nat /\ edits <= MaxEdits /\ runs \in Nat /\ runs <= MaxRuns
         /\ bus \in Nat /\ bus <= 6 /\ Len(Stages) = 6
<1>1. edits \in 0..MaxEdits /\ runs \in 0..MaxRuns /\ bus \in 0..Len(Stages)
  BY DEF TypeOK
<1>2. Len(Stages) = 6
  BY DEF Stages
<1> QED BY <1>1, <1>2, Bounds

\* The last element of a sequence is one of its elements.
LEMMA LastElement ==
  ASSUME NEW T, NEW s \in Seq(T), s # <<>>
  PROVE  s[Len(s)] \in T
OBVIOUS

\* The fields a proof asks for, each of its type.
LEMMA TreeTypes ==
  ASSUME NEW t, IsTree(t)
  PROVE  /\ t.unit \in [failed : Nat, runnable : Nat, skipped : Nat]
         /\ t.integration \in BOOLEAN /\ t.script \in BOOLEAN /\ t.tooltips \in BOOLEAN
         /\ t.agents \subseteq Agents /\ t.version \in Versions
         /\ t.milestones \in Seq([dated : BOOLEAN, criteria : Nat])
         /\ t.sessions \subseteq 0..MaxRuns
BY DEF IsTree, Field

\* A tree of which a field is given another value of its type is a tree.
LEMMA TreeEdited ==
  ASSUME NEW t, IsTree(t), NEW f \in DOMAIN Field, NEW v \in Field[f]
  PROVE  IsTree([t EXCEPT ![f] = v])
<1> DEFINE u == [t EXCEPT ![f] = v]
<1>1. t = [g \in DOMAIN Field |-> t[g]] /\ \A g \in DOMAIN Field : t[g] \in Field[g]
  BY DEF IsTree
<1> HIDE DEF Field
<1>2. DOMAIN t = DOMAIN Field
  BY <1>1
<1>3. u = [g \in DOMAIN Field |-> u[g]]
  BY <1>2
<1>4. \A g \in DOMAIN Field : u[g] \in Field[g]
  BY <1>1, <1>2
<1> QED BY <1>3, <1>4 DEF IsTree

\* An edit touches one field.
LEMMA TreeElsewhere ==
  ASSUME NEW t, IsTree(t), NEW f \in DOMAIN Field, NEW v
  PROVE  /\ f # "sessions" => [t EXCEPT ![f] = v].sessions = t.sessions
         /\ f = "sessions" => [t EXCEPT ![f] = v].sessions = v
<1>1. DOMAIN t = DOMAIN Field
  BY DEF IsTree
<1>2. "sessions" \in DOMAIN Field
  BY DEF Field
<1> QED BY <1>1, <1>2

\* Milestones have a natural number of criteria, and there may be none of them.
LEMMA Criteria ==
  ASSUME NEW t, IsTree(t)
  PROVE  ExitCriteria(t) \in Nat
<1>1. t.milestones \in Seq([dated : BOOLEAN, criteria : Nat])
  BY TreeTypes
<1>2. CASE t.milestones = <<>>
  BY <1>2 DEF ExitCriteria
<1>3. CASE t.milestones # <<>>
  <2>1. t.milestones[Len(t.milestones)] \in [dated : BOOLEAN, criteria : Nat]
    BY <1>1, <1>3, LastElement
  <2> QED BY <1>3, <2>1 DEF ExitCriteria
<1> QED BY <1>2, <1>3

\* The script verifies five criteria at most.
LEMMA FiveCriteria ==
  ASSUME NEW e
  PROVE  CriteriaMet(e) \in Nat /\ CriteriaMet(e) <= 5
<1> DEFINE A == {"tooltips"}
           B == A \union {"script"}
           C == B \union {"policy"}
           D == C \union {"governance"}
           F == D \union {"tests"}
           M == { c \in {"tooltips", "script", "policy", "governance", "tests"} : e[c] }
<1>1. IsFiniteSet(A) /\ Cardinality(A) = 1
  BY FS_Singleton
<1>2. IsFiniteSet(B) /\ Cardinality(B) = 2
  <2>1. "script" \notin A
    OBVIOUS
  <2> HIDE DEF A
  <2> QED BY <1>1, <2>1, FS_AddElement
<1>3. IsFiniteSet(C) /\ Cardinality(C) = 3
  <2>1. "policy" \notin B
    OBVIOUS
  <2> HIDE DEF B
  <2> QED BY <1>2, <2>1, FS_AddElement
<1>4. IsFiniteSet(D) /\ Cardinality(D) = 4
  <2>1. "governance" \notin C
    OBVIOUS
  <2> HIDE DEF C
  <2> QED BY <1>3, <2>1, FS_AddElement
<1>5. IsFiniteSet(F) /\ Cardinality(F) = 5
  <2>1. "tests" \notin D
    OBVIOUS
  <2> HIDE DEF D
  <2> QED BY <1>4, <2>1, FS_AddElement
<1>6. M \in SUBSET F
  OBVIOUS
<1>7. IsFiniteSet(M) /\ Cardinality(M) <= Cardinality(F)
  <2> HIDE DEF M, F
  <2> QED BY <1>5, <1>6, FS_Subset
<1>8. Cardinality(M) \in Nat
  <2> HIDE DEF M
  <2> QED BY <1>7, FS_CardinalityType
<1>9. CriteriaMet(e) = Cardinality(M)
  BY DEF CriteriaMet
<1> QED BY <1>5, <1>7, <1>8, <1>9

-----------------------------------------------------------------------------
(* The invariant, one lemma for each part of the system that moves.          *)

LEMMA InitInv ==
  ASSUME Init
  PROVE  Inv
<1>1. TypeOK
  <2>1. IsTree(tree) /\ IsTree(head) /\ IsTree(tagged)
    BY ReleaseAssumption DEF Init, ReleaseAssumption
  <2>2. evidence \in Evidence
    <3>1. "unknown" \in Versions
      BY ReleaseAssumption DEF ReleaseAssumption
    <3> QED BY <3>1 DEF Init, NoEvidence, Evidence
  <2>3. edits \in 0..MaxEdits /\ runs \in 0..MaxRuns /\ bus \in 0..Len(Stages)
    BY Bounds DEF Init, Stages
  <2> QED BY <2>1, <2>2, <2>3 DEF Init, TypeOK
<1>2. EvidenceInv /\ PipelineInv /\ ApprovalInv
  BY DEF Init, EvidenceInv, PipelineInv, ApprovalInv, HeadApproved
<1>3. RecordInv
  BY ReleaseAssumption DEF Init, RecordInv, ReleaseAssumption
<1> QED BY <1>1, <1>2, <1>3 DEF Inv

\* Whoever edits the tree or commits it makes what a run has gathered out of date.
LEMMA PeopleKeep ==
  ASSUME Inv, Edit \/ Commit
  PROVE  Inv'
<1>1. TypeOK /\ RecordInv /\ PipelineInv
  BY DEF Inv
<1>2. /\ UNCHANGED <<git, at, registry, evidence, runs, bus, verdict, tagged, pipeline>>
      /\ moved' = TRUE
  BY DEF Edit, Commit, ci
<1>3. EvidenceInv'
  BY <1>2 DEF EvidenceInv
<1>4. PipelineInv' /\ ApprovalInv'
  BY <1>1, <1>2 DEF PipelineInv, ApprovalInv, HeadApproved
<1>5. CASE Edit
  <2>1. PICK f \in DOMAIN Edits : \E v \in Edits[f] :
          tree' = [tree EXCEPT ![f] = v] /\ unfiled' = (unfiled /\ f # "sessions")
    BY <1>5 DEF Edit
  <2>2. PICK v \in Edits[f] :
          tree' = [tree EXCEPT ![f] = v] /\ unfiled' = (unfiled /\ f # "sessions")
    BY <2>1
  <2>3. f \in DOMAIN Field /\ v \in Field[f] /\ (f = "sessions" => v \subseteq {0})
    BY <2>1, <2>2, ReleaseAssumption DEF ReleaseAssumption
  <2>4. IsTree(tree) /\ head' = head /\ edits < MaxEdits /\ edits' = edits + 1
    BY <1>1, <1>5 DEF TypeOK, Edit
  <2>5. IsTree(tree')
    BY <2>2, <2>3, <2>4, TreeEdited
  <2>6. edits' \in 0..MaxEdits
    BY <1>1, <2>4, Counters, Bounds
  <2>7. TypeOK'
    BY <1>1, <1>2, <2>2, <2>4, <2>5, <2>6 DEF TypeOK
  <2>8. (f # "sessions" => tree'.sessions = tree.sessions) /\ (f = "sessions" => tree'.sessions = v)
    BY <2>2, <2>3, <2>4, TreeElsewhere
  <2>9. RecordInv'
    <3>1. runs \in Nat
      BY <1>1, Counters
    <3>2. CASE f = "sessions"
      <4>1. tree'.sessions \subseteq {0} /\ unfiled' = FALSE /\ head' = head /\ runs' = runs
        BY <1>2, <2>2, <2>3, <2>4, <2>8, <3>2
      <4>2. tree'.sessions \subseteq 0..runs /\ (runs > 0 => runs \notin tree'.sessions)
        BY <3>1, <4>1
      <4> QED BY <1>1, <1>2, <4>1, <4>2 DEF RecordInv
    <3>3. CASE f # "sessions"
      BY <1>1, <1>2, <2>2, <2>4, <2>8, <3>3 DEF RecordInv
    <3> QED BY <3>2, <3>3
  <2> QED BY <1>3, <1>4, <2>7, <2>9 DEF Inv
<1>6. CASE Commit
  <2>1. head' = tree /\ unfiled' = FALSE /\ tree' = tree /\ edits' = edits
    BY <1>6 DEF Commit
  <2>2. TypeOK'
    BY <1>1, <1>2, <2>1 DEF TypeOK
  <2>3. RecordInv'
    BY <1>1, <1>2, <2>1 DEF RecordInv
  <2> QED BY <1>3, <1>4, <2>2, <2>3 DEF Inv
<1> QED BY <1>5, <1>6

\* A step of the run that gathers evidence.
LEMMA GatherKeeps ==
  ASSUME Inv, RunPytest \/ CheckGovernance \/ Survey
  PROVE  Inv'
<1>1. TypeOK /\ EvidenceInv /\ RecordInv /\ PipelineInv /\ ApprovalInv
  BY DEF Inv
<1>2. UNCHANGED <<tree, head, edits, git, registry, moved, runs, bus, verdict, unfiled, tagged, pipeline>>
  BY DEF RunPytest, CheckGovernance, Survey, repo, ci
<1>3. at # "idle" /\ at' \in {"governance", "survey", "report"}
  BY DEF RunPytest, CheckGovernance, Survey
<1>4. evidence \in Evidence /\ IsTree(tree)
  BY <1>1 DEF TypeOK
<1>5. PipelineInv' /\ ApprovalInv'
  <2>1. TestsPass(head') = TestsPass(head) /\ Governance(head') = Governance(head)
    BY <1>2
  <2> QED BY <1>1, <1>2, <2>1 DEF PipelineInv, ApprovalInv, HeadApproved
<1>6. CASE RunPytest
  <2>1. at = "pytest" /\ at' = "governance" /\ evidence' = [evidence EXCEPT !.tests = TestsPass(tree)]
    BY <1>6 DEF RunPytest
  <2>2. TestsPass(tree) \in BOOLEAN
    BY <1>4, TreeTypes DEF TestsPass
  <2>3. evidence' \in Evidence /\ evidence'.tests = TestsPass(tree)
    BY <1>4, <2>1, <2>2 DEF Evidence
  <2>4. TypeOK'
    BY <1>1, <1>2, <1>3, <2>3 DEF TypeOK
  <2>5. EvidenceInv'
    BY <1>2, <2>1, <2>2, <2>3 DEF EvidenceInv, TestsPass
  <2>6. RecordInv'
    BY <1>1, <1>2, <2>1 DEF RecordInv
  <2> QED BY <1>5, <2>4, <2>5, <2>6 DEF Inv
<1>7. CASE CheckGovernance
  <2>1. at = "governance" /\ at' = "survey" /\ evidence' = [evidence EXCEPT !.governance = Governance(tree)]
    BY <1>7 DEF CheckGovernance
  <2>2. Governance(tree) \in BOOLEAN
    BY DEF Governance
  <2>3. evidence' \in Evidence /\ evidence'.governance = Governance(tree) /\ evidence'.tests = evidence.tests
    BY <1>4, <2>1, <2>2 DEF Evidence
  <2>4. TypeOK'
    BY <1>1, <1>2, <1>3, <2>3 DEF TypeOK
  <2>5. TestsPass(tree') = TestsPass(tree) /\ Governance(tree') = Governance(tree)
    BY <1>2
  <2>6. EvidenceInv'
    BY <1>1, <1>2, <2>1, <2>2, <2>3, <2>5 DEF EvidenceInv
  <2>7. RecordInv'
    BY <1>1, <1>2, <2>1 DEF RecordInv
  <2> QED BY <1>5, <2>4, <2>6, <2>7 DEF Inv
<1>8. CASE Survey
  <2> DEFINE d == git /\ tree # head
  <2>1. at = "survey" /\ at' = "report" /\ evidence' = [evidence EXCEPT
          !.dirty = d, !.policy = tree.policy # "missing", !.script = tree.script,
          !.tooltips = tree.tooltips, !.criteria = ExitCriteria(tree), !.version = tree.version]
    BY <1>8 DEF Survey
  <2>2. /\ d \in BOOLEAN /\ (tree.policy # "missing") \in BOOLEAN /\ tree.script \in BOOLEAN
        /\ tree.tooltips \in BOOLEAN /\ ExitCriteria(tree) \in Nat /\ tree.version \in Versions
    BY <1>1, <1>4, TreeTypes, Criteria DEF TypeOK
  <2>3. /\ evidence' \in Evidence /\ evidence'.tests = evidence.tests
        /\ evidence'.governance = evidence.governance /\ evidence'.dirty = d
        /\ evidence'.script = tree.script /\ evidence'.criteria = ExitCriteria(tree)
    BY <1>4, <2>1, <2>2 DEF Evidence
  <2>4. TypeOK'
    BY <1>1, <1>2, <1>3, <2>3 DEF TypeOK
  <2>5. /\ TestsPass(tree') = TestsPass(tree) /\ Governance(tree') = Governance(tree)
        /\ ExitCriteria(tree') = ExitCriteria(tree)
    BY <1>2
  <2>6. EvidenceInv'
    BY <1>1, <1>2, <2>1, <2>2, <2>3, <2>5 DEF EvidenceInv
  <2>7. RecordInv'
    <3>1. unfiled => tree # head
      BY <1>1 DEF RecordInv
    <3> QED BY <1>1, <1>2, <2>1, <2>3, <3>1 DEF RecordInv
  <2> QED BY <1>5, <2>4, <2>6, <2>7 DEF Inv
<1> QED BY <1>6, <1>7, <1>8

\* A run begins, under a number that no record has.
LEMMA LoadKeeps ==
  ASSUME Inv, LoadRegistry
  PROVE  Inv'
<1>1. TypeOK /\ RecordInv /\ PipelineInv
  BY DEF Inv
<1>2. /\ at = "idle" /\ runs < MaxRuns /\ runs' = runs + 1 /\ moved' = FALSE
      /\ evidence' = NoEvidence /\ bus' = 0 /\ at' \in {"idle", "pytest"}
      /\ verdict' \in {"raised", "none"} /\ (registry' = registry \/ registry' = tree.agents)
      /\ UNCHANGED <<tree, head, edits, git, unfiled, tagged, pipeline>>
  BY <1>1 DEF LoadRegistry, repo, ci, TypeOK
<1>3. TypeOK'
  <2>1. runs' \in 0..MaxRuns /\ bus' \in 0..Len(Stages)
    BY <1>1, <1>2, Counters, Bounds
  <2>2. registry' \subseteq Agents
    BY <1>1, <1>2, TreeTypes DEF TypeOK
  <2>3. evidence' \in Evidence
    <3>1. "unknown" \in Versions
      BY ReleaseAssumption DEF ReleaseAssumption
    <3> QED BY <1>2, <3>1 DEF NoEvidence, Evidence
  <2> QED BY <1>1, <1>2, <2>1, <2>2, <2>3 DEF TypeOK
<1>4. EvidenceInv'
  BY <1>2 DEF EvidenceInv
<1>5. RecordInv'
  <2>1. runs \in Nat /\ 0..runs \subseteq 0..runs' /\ runs' > 0 /\ runs' \notin 0..runs
    BY <1>1, <1>2, Counters
  <2> QED BY <1>1, <1>2, <2>1 DEF RecordInv
<1>6. PipelineInv' /\ ApprovalInv'
  BY <1>1, <1>2 DEF PipelineInv, ApprovalInv, HeadApproved
<1> QED BY <1>3, <1>4, <1>5, <1>6 DEF Inv

\* The agents report, and the run leaves its record, or raises.
LEMMA ReportKeeps ==
  ASSUME Inv, Report
  PROVE  Inv'
<1>1. TypeOK /\ EvidenceInv /\ RecordInv /\ PipelineInv /\ ApprovalInv
  BY DEF Inv
<1>2. /\ at = "report"
      /\ UNCHANGED <<head, edits, git, registry, evidence, moved, runs, tagged, pipeline>>
  BY DEF Report, ci
<1>3. PipelineInv'
  BY <1>1, <1>2 DEF PipelineInv
<1>same. TestsPass(head') = TestsPass(head) /\ Governance(head') = Governance(head)
  BY <1>2
<1>4. CASE bus < Len(Stages) /\ bus' = bus + 1 /\ UNCHANGED <<at, verdict, tree, unfiled>>
  <2>1. bus' \in 0..Len(Stages) /\ bus # Len(Stages)
    <3>1. bus \in Nat /\ bus < 6 /\ bus' = bus + 1 /\ Len(Stages) = 6
      BY <1>1, <1>4, Counters
    <3> QED BY <3>1
  <2>2. TypeOK'
    BY <1>1, <1>2, <1>4, <2>1 DEF TypeOK
  <2>3. EvidenceInv' /\ RecordInv' /\ ApprovalInv'
    BY <1>1, <1>2, <1>4, <1>same DEF EvidenceInv, RecordInv, ApprovalInv, HeadApproved
  <2> QED BY <1>3, <2>2, <2>3 DEF Inv
<1>5. CASE at' = "idle" /\ verdict' = "raised" /\ UNCHANGED <<bus, tree, unfiled>>
  <2>1. TypeOK'
    BY <1>1, <1>2, <1>5 DEF TypeOK
  <2>2. EvidenceInv' /\ RecordInv' /\ ApprovalInv'
    BY <1>1, <1>2, <1>5 DEF EvidenceInv, RecordInv, ApprovalInv, HeadApproved
  <2> QED BY <1>3, <2>1, <2>2 DEF Inv
<1>6. CASE /\ bus = Len(Stages) /\ FileRecord /\ at' = "idle" /\ bus' = bus
           /\ verdict' \in {"approved", "not approved"}
           /\ verdict' = "approved" => Approved(evidence)
  <2>1. tree' = [tree EXCEPT !["sessions"] = tree.sessions \union {runs}] /\ unfiled' = TRUE
    BY <1>6 DEF FileRecord
  <2>2. IsTree(tree) /\ runs \in 0..MaxRuns /\ runs > 0
    BY <1>1, <1>2 DEF TypeOK, RecordInv
  <2>3. "sessions" \in DOMAIN Field /\ tree.sessions \union {runs} \in Field["sessions"]
    BY <2>2, TreeTypes DEF Field
  <2>4. IsTree(tree')
    BY <2>1, <2>2, <2>3, TreeEdited
  <2>5. tree'.sessions = tree.sessions \union {runs}
    <3>1. DOMAIN tree = DOMAIN Field
      BY <2>2 DEF IsTree
    <3> QED BY <2>1, <2>3, <3>1
  <2>6. TypeOK'
    BY <1>1, <1>2, <1>6, <2>1, <2>4 DEF TypeOK
  <2>7. EvidenceInv'
    BY <1>6 DEF EvidenceInv
  <2>8. RecordInv'
    <3>1. runs \in 0..runs
      BY <1>1, Counters
    <3> QED BY <1>1, <1>2, <1>6, <2>1, <2>5, <3>1 DEF RecordInv
  <2>9. ApprovalInv'
    <3> SUFFICES ASSUME verdict' = "approved", git, ~moved
                 PROVE  TestsPass(head) /\ Governance(head)
      BY <1>2, <1>same DEF ApprovalInv, HeadApproved
    <3>1. evidence.tests /\ evidence.governance /\ ~evidence.dirty
      BY <1>6 DEF Approved, ProductionReady
    <3>2. TestsPass(tree) /\ Governance(tree) /\ tree = head
      BY <1>1, <1>2, <3>1 DEF EvidenceInv
    <3> QED BY <3>2
  <2> QED BY <1>3, <2>6, <2>7, <2>8, <2>9 DEF Inv
<1> QED BY <1>4, <1>5, <1>6 DEF Report

\* What the pipeline passes it has found in the tagged commit, which stays as it is.
LEMMA PipelineKeeps ==
  ASSUME Inv, Pipeline
  PROVE  Inv'
<1>1. TypeOK /\ EvidenceInv /\ RecordInv /\ PipelineInv /\ ApprovalInv
  BY DEF Inv
<1>2. UNCHANGED <<tree, head, edits, git, at, registry, evidence, moved, runs, bus, verdict, unfiled>>
  BY DEF Pipeline, Tag, Validate, RunGates, Publish, repo, run
<1>3. EvidenceInv' /\ RecordInv' /\ ApprovalInv'
  <2>1. /\ TestsPass(tree') = TestsPass(tree) /\ Governance(tree') = Governance(tree)
        /\ TestsPass(head') = TestsPass(head) /\ Governance(head') = Governance(head)
        /\ ExitCriteria(tree') = ExitCriteria(tree)
    BY <1>2
  <2> QED BY <1>1, <1>2, <2>1 DEF EvidenceInv, RecordInv, ApprovalInv, HeadApproved
<1>4. CASE Tag
  <2>1. tagged' = head /\ pipeline' = "validate"
    BY <1>4 DEF Tag
  <2> QED BY <1>1, <1>2, <1>3, <2>1 DEF Inv, TypeOK, PipelineInv
<1>5. CASE \E version \in Versions : Validate(version)
  <2>1. /\ tagged' = tagged /\ pipeline' \in {"gates", "stopped"}
        /\ pipeline' = "gates" => ValidConsensus(tagged, tagged.version)
    BY <1>5 DEF Validate
  <2>2. TypeOK'
    BY <1>1, <1>2, <2>1 DEF TypeOK
  <2> QED BY <1>1, <1>3, <2>1, <2>2 DEF Inv, PipelineInv
<1>6. CASE RunGates
  <2>1. /\ pipeline = "gates" /\ tagged' = tagged /\ pipeline' \in {"approval", "stopped"}
        /\ pipeline' = "approval" => \E analysed \in BOOLEAN : QualityGates(tagged, analysed)
    BY <1>6 DEF RunGates
  <2>2. TypeOK'
    BY <1>1, <1>2, <2>1 DEF TypeOK
  <2> QED BY <1>1, <1>3, <2>1, <2>2 DEF Inv, PipelineInv
<1>7. CASE Publish
  <2>1. pipeline = "approval" /\ tagged' = tagged /\ pipeline' \in {"published", "stopped"}
    BY <1>7 DEF Publish
  <2>2. TypeOK'
    BY <1>1, <1>2, <2>1 DEF TypeOK
  <2> QED BY <1>1, <1>3, <2>1, <2>2 DEF Inv, PipelineInv
<1> QED BY <1>4, <1>5, <1>6, <1>7 DEF Pipeline

LEMMA NextKeeps ==
  ASSUME Inv, [Next]_vars
  PROVE  Inv'
<1>1. CASE Next
  BY <1>1, PeopleKeep, LoadKeeps, GatherKeeps, ReportKeeps, PipelineKeeps DEF Next
<1>2. CASE UNCHANGED vars
  <2>1. UNCHANGED <<tree, head, edits, git, at, registry, evidence, moved, runs, bus, verdict, unfiled, tagged, pipeline>>
    BY <1>2 DEF vars, repo, run, ci
  <2>2. /\ TestsPass(tree') = TestsPass(tree) /\ Governance(tree') = Governance(tree)
        /\ TestsPass(head') = TestsPass(head) /\ Governance(head') = Governance(head)
        /\ ExitCriteria(tree') = ExitCriteria(tree)
    BY <2>1
  <2>3. TypeOK'
    BY <2>1 DEF Inv, TypeOK
  <2>4. EvidenceInv' /\ RecordInv' /\ ApprovalInv'
    BY <2>1, <2>2 DEF Inv, EvidenceInv, RecordInv, ApprovalInv, HeadApproved
  <2>5. PipelineInv'
    BY <2>1 DEF Inv, PipelineInv
  <2> QED BY <2>3, <2>4, <2>5 DEF Inv
<1> QED BY <1>1, <1>2

-----------------------------------------------------------------------------
(* The theorems.                                                             *)

(* The invariant: what a run has gathered is still so while nobody edits or  *)
(* commits, what it approved is green, its record makes the tree differ from *)
(* the commit, and the pipeline found in the tagged commit what it passed.   *)
THEOREM Invariance == Spec => []Inv
<1>1. Init => Inv
  BY InitInv
<1>2. Inv /\ [Next]_vars => Inv'
  BY NextKeeps
<1> QED BY <1>1, <1>2, PTL DEF Spec

(* The trees, the evidence and the pipeline keep their types, and a run that *)
(* ends has put all its stages on the bus                                    *)
(* (run-development-status-consensus.py:409-510).                            *)
THEOREM TypeCorrect == Spec => []TypeOK
<1>1. Inv => TypeOK
  BY DEF Inv
<1> QED BY <1>1, Invariance, PTL

(* A published commit is gated by its own numbers, and one that a status run *)
(* has approved and nobody has moved is stopped only by what that run does   *)
(* not look at (release.yml:12-120, run-unit-test-gate.py:61-66).            *)
THEOREM TheTagIsJudged == Spec => GatesJudgeTheTag
<1>1. Inv => (pipeline = "published" => Gated(tagged))
  <2> SUFFICES ASSUME Inv, pipeline = "published" PROVE Gated(tagged)
    OBVIOUS
  <2>1. ValidConsensus(tagged, tagged.version) /\ IsTree(tagged)
    BY DEF Inv, PipelineInv, TypeOK
  <2>2. PICK analysed \in BOOLEAN : QualityGates(tagged, analysed)
    BY DEF Inv, PipelineInv
  <2>3. tagged.unit.runnable > 0 /\ 10 * tagged.unit.failed <= tagged.unit.runnable
    BY <2>1, <2>2, TreeTypes DEF QualityGates, UnitGate
  <2> QED BY <2>1, <2>2, <2>3 DEF Gated, ValidConsensus, QualityGates, CompileGate, StaticGate,
       Governance, PolicyOK, RegistryOK, KnowledgeOK, ConsensusDated
<1>2. Inv /\ [Next]_vars =>
        [pipeline = "gates" /\ pipeline' = "stopped" /\ HeadApproved /\ tagged = head
           => OnlyTheGatesSee(tagged)]_vars
  <2> SUFFICES ASSUME Inv, [Next]_vars, pipeline = "gates", pipeline' = "stopped",
                      HeadApproved, tagged = head
               PROVE  OnlyTheGatesSee(tagged)
    OBVIOUS
  <2>1. RunGates
    <3>1. ~(Edit \/ Commit \/ LoadRegistry \/ RunPytest \/ CheckGovernance \/ Survey \/ Report
            \/ UNCHANGED vars)
      BY DEF Edit, Commit, LoadRegistry, RunPytest, CheckGovernance, Survey, Report, ci, vars
    <3>2. ~(Tag \/ Publish \/ \E version \in Versions : Validate(version))
      BY DEF Tag, Publish, Validate
    <3> QED BY <3>1, <3>2 DEF Next, Pipeline
  <2>2. PICK analysed \in BOOLEAN : ~QualityGates(tagged, analysed)
    BY <2>1 DEF RunGates
  <2>3. TestsPass(tagged) /\ Governance(tagged) /\ IsTree(tagged)
    BY DEF Inv, ApprovalInv, TypeOK
  <2>4. tagged.unit.runnable > 0 => UnitGate(tagged)
    <3>1. tagged.unit.failed = 0 /\ tagged.unit.runnable \in Nat
      BY <2>3, TreeTypes DEF TestsPass
    <3> QED BY <3>1 DEF UnitGate
  <2>5. tagged.unit.runnable \in Nat /\ (tagged.unit.runnable = 0 \/ tagged.unit.runnable > 0)
    BY <2>3, TreeTypes
  <2> QED BY <2>2, <2>3, <2>4, <2>5 DEF OnlyTheGatesSee, QualityGates, CompileGate, StaticGate,
       TestsPass
<1> QED BY <1>1, <1>2, Invariance, PTL DEF Spec, GatesJudgeTheTag

\* A step that approves is the last of a run's report.
LEMMA ApprovingReports ==
  ASSUME Inv, [Next]_vars, Approves
  PROVE  at = "report" /\ Approved(evidence)
<1>1. verdict' = "approved" /\ verdict # "approved"
  BY DEF Approves
<1>2. ~(Edit \/ Commit \/ RunPytest \/ CheckGovernance \/ Survey \/ Pipeline \/ UNCHANGED vars)
  BY <1>1 DEF Edit, Commit, RunPytest, CheckGovernance, Survey, Pipeline, Tag, Validate, RunGates,
     Publish, run, vars
<1>3. ~LoadRegistry
  BY <1>1 DEF LoadRegistry
<1>4. Report
  BY <1>2, <1>3 DEF Next
<1> QED BY <1>1, <1>4 DEF Report

(* A run that approves while nobody edits or commits has tested the very     *)
(* commit, no agent spoke against it, and its milestone has at most the five *)
(* criteria the script verifies (run-development-status-consensus.py:330).   *)
THEOREM ApprovalIsGreen == Spec => ApprovedMeansGreen
<1>1. Inv /\ [Next]_vars =>
        [Approves =>
           /\ (git /\ ~moved) => (tree = head /\ TestsPass(head) /\ Governance(head) /\ head.script)
           /\ ~moved => ExitCriteria(tree) <= 5
           /\ Verdicts(evidence) \cap {"attention", "blocked", "changes_requested"} = {}]_vars
  <2> SUFFICES ASSUME Inv, [Next]_vars, Approves
               PROVE  /\ (git /\ ~moved) => (tree = head /\ TestsPass(head) /\ Governance(head) /\ head.script)
                      /\ ~moved => ExitCriteria(tree) <= 5
                      /\ Verdicts(evidence) \cap {"attention", "blocked", "changes_requested"} = {}
    OBVIOUS
  <2>1. at = "report" /\ Approved(evidence)
    BY ApprovingReports
  <2>2. /\ evidence.tests /\ evidence.governance /\ ~evidence.dirty
        /\ CriteriaMet(evidence) >= evidence.criteria
    BY <2>1 DEF Approved, ProductionReady
  <2>3. Verdicts(evidence) \cap {"attention", "blocked", "changes_requested"} = {}
    BY <2>1 DEF Approved
  <2>4. evidence.script
    <3>1. Backend(evidence) # "blocked"
      BY <2>3 DEF Verdicts
    <3> QED BY <3>1 DEF Backend
  <2>5. ASSUME ~moved
        PROVE  /\ TestsPass(tree) /\ Governance(tree) /\ tree.script /\ (git => tree = head)
               /\ evidence.criteria = ExitCriteria(tree)
    <3>1. /\ evidence.tests <=> TestsPass(tree)
          /\ evidence.governance <=> Governance(tree)
          /\ evidence.dirty <=> git /\ tree # head
          /\ evidence.script <=> tree.script
          /\ evidence.criteria = ExitCriteria(tree)
      <4>1. EvidenceInv
        BY DEF Inv
      <4>2. at \in {"governance", "survey", "report"} /\ at \in {"survey", "report"}
        BY <2>1
      <4>3. (evidence.tests <=> TestsPass(tree)) /\ (evidence.governance <=> Governance(tree))
        BY <2>5, <4>1, <4>2 DEF EvidenceInv
      <4>4. /\ evidence.dirty <=> git /\ tree # head
            /\ evidence.script <=> tree.script
            /\ evidence.criteria = ExitCriteria(tree)
        BY <2>1, <2>5, <4>1 DEF EvidenceInv
      <4> QED BY <4>3, <4>4
    <3> QED BY <2>2, <2>4, <3>1
  <2>6. ASSUME ~moved PROVE ExitCriteria(tree) <= 5
    <3>1. ExitCriteria(tree) \in Nat
      BY Criteria DEF Inv, TypeOK
    <3>2. CriteriaMet(evidence) \in Nat /\ CriteriaMet(evidence) <= 5
      BY FiveCriteria
    <3> QED BY <2>2, <2>5, <2>6, <3>1, <3>2
  <2> QED BY <2>3, <2>5, <2>6
<1> QED BY <1>1, Invariance, PTL DEF Spec, ApprovedMeansGreen

(* As long as the record of an earlier run is in the tree and not committed, *)
(* no run approves (run-development-status-consensus.py:512-532).            *)
THEOREM RecordsAreCommittedFirst == Spec => RecordIsCommittedFirst
<1>1. Inv /\ [Next]_vars => [Approves /\ git => ~unfiled]_vars
  <2> SUFFICES ASSUME Inv, [Next]_vars, Approves, git PROVE ~unfiled
    OBVIOUS
  <2>1. at = "report" /\ ~evidence.dirty
    BY ApprovingReports DEF Approved, ProductionReady
  <2> QED BY <2>1 DEF Inv, RecordInv
<1> QED BY <1>1, Invariance, PTL DEF Spec, RecordIsCommittedFirst

=============================================================================
