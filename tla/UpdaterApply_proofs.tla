-------------------------- MODULE UpdaterApply_proofs --------------------------
(***************************************************************************)
(* Proofs about UpdaterApply for every set of packages, every request and  *)
(* every platform.                                                         *)
(***************************************************************************)
EXTENDS UpdaterApply, FiniteSetTheorems, TLAPS

\* A number of packages is a natural number.
LEMMA Counting ==
  ASSUME NEW S, S \subseteq Package
  PROVE  Cardinality(S) \in Nat
BY FS_Subset, FS_CardinalityType, PackageAssumption

\* The arguments fix what a call may touch and has to try.
LEMMA CallFixed ==
  ASSUME UNCHANGED callVars
  PROVE  /\ Scope' = Scope /\ Targets' = Targets /\ Filtered' = Filtered
         /\ Streaming' = Streaming /\ Selected' = Selected
BY DEF callVars, Scope, Targets, Filtered, Windows, Streaming, Selected

\* A selection is one of packages.
LEMMA Selections ==
  ASSUME TypeOK
  PROVE  /\ request.skip \subseteq Package
         /\ request.only # Unset => request.only \subseteq Package /\ Selected \subseteq Package
         /\ request.dry \in BOOLEAN
         /\ Scope \subseteq Package
BY DEF TypeOK, Selected, Scope

\* A report built from counts is a report, and never the missing one.
LEMMA ReportType ==
  ASSUME TypeOK, NEW success \in BOOLEAN, NEW updated \in Nat, NEW skipped \in Nat,
         NEW failed \in Nat, NEW note \in Notes
  PROVE  /\ UpdateReport(success, updated, skipped, failed, note) \in Reports
         /\ UpdateReport(success, updated, skipped, failed, note).success = success
         /\ UpdateReport(success, updated, skipped, failed, note).note = note
         /\ UpdateReport(success, updated, skipped, failed, note) # NoReport
<1>1. request.dry \in BOOLEAN
  BY Selections
<1>2. UpdateReport(success, updated, skipped, failed, note).note # NoReport.note
  BY DEF UpdateReport, NoReport, Notes
<1>3. QED BY <1>1, <1>2 DEF UpdateReport, Reports

\* What a command ends with is an ExecutionResult.
LEMMA CommandOutcome == CommandEnds => \E e \in Executions : Conclude(e)
<1> SUFFICES ASSUME CommandEnds PROVE \E e \in Executions : Conclude(e)
  OBVIOUS
<1>1. CASE Conclude(Execution(FALSE, NoCode, 0, 0))
  <2>1. Execution(FALSE, NoCode, 0, 0) \in Executions
    BY DEF Execution, Executions
  <2>2. QED BY <1>1, <2>1
<1>2. ASSUME NEW code \in ExitCode, NEW ok \in 0 .. Cardinality(gained),
             NEW bad \in 0 .. Cardinality(Reach(command) \ gained),
             Conclude(Execution(code = 0, code, ok, bad))
      PROVE  \E e \in Executions : Conclude(e)
  <2> DEFINE b == (code = 0)
  <2>1. ok \in Nat /\ bad \in Nat
    OBVIOUS
  <2>2. b \in BOOLEAN
    OBVIOUS
  <2>3. Conclude(Execution(b, code, ok, bad))
    BY <1>2
  <2> HIDE DEF b
  <2>4. Execution(b, code, ok, bad) \in Executions
    BY <2>1, <2>2 DEF Executions, Execution
  <2>5. QED BY <2>3, <2>4
<1>3. QED BY <1>1, <1>2 DEF CommandEnds

\* Adding one outcome to the running total keeps its type.
LEMMA TotalType ==
  ASSUME acc \in [success : BOOLEAN, code : ExitCode, ok : Nat, bad : Nat], NEW e \in Executions
  PROVE  /\ Accumulate(e) \in [success : BOOLEAN, code : ExitCode, ok : Nat, bad : Nat]
         /\ Accumulate(e).success <=> (acc.success /\ e.success)
BY DEF Accumulate, Executions

\* Concluding a command adds its outcome to the results and disturbs no other.
LEMMA Recorded ==
  ASSUME NEW e \in Executions, Record(e), results \in [DOMAIN results -> Executions]
  PROVE  /\ DOMAIN results' = DOMAIN results \union {command}
         /\ results' \in [DOMAIN results' -> Executions]
         /\ results'[command] = e
         /\ \A t \in DOMAIN results \ {command} : results'[t] = results[t]
         /\ command' = Unset /\ gained' = {} /\ installed' = installed /\ begun' = begun
BY DEF Record

\* The invariant holds of a call that has not begun.
LEMMA InvInit == Init => Inv
<1> SUFFICES ASSUME Init PROVE Inv
  OBVIOUS
<1>1. TypeOK
  BY CodeAssumption, PackageAssumption DEF Init, TypeOK, Label, Empty, Execution, Executions
<1>2. TargetInv
  BY PackageAssumption DEF Init, TargetInv, Scope
<1>3. ProgressInv /\ OutcomeInv
  BY DEF Init, ProgressInv, OutcomeInv
<1>4. OnlyWhatWasAsked /\ EveryTargetAttempted /\ SuccessIsEarned
  BY DEF Init, OnlyWhatWasAsked, EveryTargetAttempted, SuccessIsEarned
<1>5. QED BY <1>1, <1>2, <1>3, <1>4 DEF Inv

\* What a command that was begun may update lies in the scope.
LEMMA BegunInScope ==
  ASSUME TypeOK, TargetInv, NEW target \in begun, NEW p \in Reach(target)
  PROVE  p \in Scope
BY DEF TypeOK, TargetInv, Reach

-----------------------------------------------------------------------------
(* How a step of each kind preserves the invariant. *)

\* A line is yielded and a report prepared, before anything was tried.
LEMMA TellKeeps ==
  ASSUME Inv, pc \in {"start", "listing"}, NEW r \in Reports, r # NoReport, r.note # "applied",
         Tell(r), UNCHANGED <<callVars, todo, command, results, acc, osVars>>
  PROVE  Inv'
<1>1. Scope' = Scope /\ Targets' = Targets
  BY CallFixed
<1>2. command = Unset /\ DOMAIN results = {} /\ report = NoReport
  BY DEF Inv, TargetInv, OutcomeInv
<1>3. TypeOK'
  BY DEF Inv, TypeOK, Tell, Goto, callVars, osVars, Label
<1>4. TargetInv' /\ ProgressInv'
  BY <1>1, <1>2 DEF Inv, TargetInv, ProgressInv, Tell, Goto, callVars, osVars
<1>5. OutcomeInv'
  BY <1>2 DEF OutcomeInv, Tell, Goto
<1>6. (OnlyWhatWasAsked /\ EveryTargetAttempted /\ SuccessIsEarned)'
  BY <1>1, <1>2 DEF Inv, OnlyWhatWasAsked, EveryTargetAttempted, SuccessIsEarned, Tell, osVars
<1>7. QED BY <1>3, <1>4, <1>5, <1>6 DEF Inv

\* A report is returned when no command runs; it is an earned one.
LEMMA FinishKeeps ==
  ASSUME Inv, command = Unset, NEW r \in Reports, r # NoReport, Finish(r),
         r.success => \A t \in DOMAIN results : results[t].success,
         r.note = "applied" => DOMAIN results = Targets,
         UNCHANGED <<callVars, todo, command, results, acc, osVars>>
  PROVE  Inv'
<1>1. Scope' = Scope /\ Targets' = Targets
  BY CallFixed
<1>2. TypeOK'
  BY DEF Inv, TypeOK, Finish, Goto, callVars, osVars, Label
<1>3. TargetInv' /\ ProgressInv'
  BY <1>1, PackageAssumption DEF Inv, TargetInv, ProgressInv, Finish, Goto, callVars, osVars
<1>4. OutcomeInv'
  BY DEF Inv, OutcomeInv, Finish, Goto
<1>5. (OnlyWhatWasAsked /\ EveryTargetAttempted /\ SuccessIsEarned)'
  BY <1>1 DEF Inv, OnlyWhatWasAsked, EveryTargetAttempted, SuccessIsEarned, Finish, osVars
<1>6. QED BY <1>2, <1>3, <1>4, <1>5 DEF Inv

\* The loop is entered with everything the call has to try.
LEMMA EnterKeeps ==
  ASSUME Inv, pc \in {"start", "listing"}, Targets \subseteq Scope, todo' = Targets,
         pc' \in {"opening", "loop"},
         UNCHANGED <<callVars, command, results, acc, draft, report, osVars>>
  PROVE  Inv'
<1>1. Scope' = Scope /\ Targets' = Targets /\ Scope \subseteq Package
  BY CallFixed, Selections DEF Inv
<1>2. command = Unset /\ DOMAIN results = {} /\ draft = NoReport /\ report = NoReport
  BY DEF Inv, TargetInv, OutcomeInv
<1>3. TypeOK'
  BY <1>1 DEF Inv, TypeOK, callVars, osVars, Label
<1>4. TargetInv'
  BY <1>1, <1>2, PackageAssumption DEF Inv, TargetInv, callVars, osVars
<1>5. ProgressInv'
  BY <1>1, <1>2 DEF ProgressInv
<1>6. OutcomeInv'
  BY <1>2 DEF OutcomeInv
<1>7. (OnlyWhatWasAsked /\ EveryTargetAttempted /\ SuccessIsEarned)'
  BY <1>1, <1>2 DEF Inv, OnlyWhatWasAsked, EveryTargetAttempted, SuccessIsEarned, osVars
<1>8. QED BY <1>3, <1>4, <1>5, <1>6, <1>7 DEF Inv

\* A package is concluded and the loop goes on.
LEMMA RecordKeeps ==
  ASSUME Inv, pc \in {"announced", "running"}, NEW e \in Executions, Record(e),
         acc' = Accumulate(e), pc' = "loop", UNCHANGED <<callVars, todo, draft, report>>
  PROVE  Inv'
<1>1. Scope' = Scope /\ Targets' = Targets
  BY CallFixed
<1>2. command \in Package \union {All} /\ command # Unset /\ command \notin todo
      /\ draft = NoReport /\ report = NoReport /\ results \in [DOMAIN results -> Executions]
  BY DEF Inv, TypeOK, TargetInv, OutcomeInv
<1>3. /\ DOMAIN results' = DOMAIN results \union {command}
      /\ results' \in [DOMAIN results' -> Executions]
      /\ results'[command] = e /\ \A t \in DOMAIN results \ {command} : results'[t] = results[t]
      /\ command' = Unset /\ gained' = {} /\ installed' = installed /\ begun' = begun
  BY <1>2, Recorded
<1>4. /\ acc' \in [success : BOOLEAN, code : ExitCode, ok : Nat, bad : Nat]
      /\ acc'.success <=> (acc.success /\ e.success)
  BY TotalType DEF Inv, TypeOK
<1>5. TypeOK'
  BY <1>2, <1>3, <1>4 DEF Inv, TypeOK, callVars, Label
<1>6. TargetInv'
  BY <1>1, <1>2, <1>3, PackageAssumption DEF Inv, TargetInv, callVars
<1>7. ProgressInv'
  BY <1>1, <1>2, <1>3 DEF Inv, ProgressInv
<1>8. OutcomeInv'
  BY <1>2, <1>3, <1>4 DEF Inv, OutcomeInv
<1>9. (OnlyWhatWasAsked /\ EveryTargetAttempted /\ SuccessIsEarned)'
  BY <1>1, <1>2, <1>3 DEF Inv, OnlyWhatWasAsked, EveryTargetAttempted, SuccessIsEarned
<1>10. QED BY <1>5, <1>6, <1>7, <1>8, <1>9 DEF Inv

\* The one command for the whole system is concluded, and reported.
LEMMA WholeKeeps ==
  ASSUME Inv, At("running"), command = All, NEW e \in Executions, Record(e), acc' = acc,
         NEW r \in Reports, r # NoReport, r.success <=> e.success, Finish(r),
         UNCHANGED <<callVars, todo>>
  PROVE  Inv'
<1>1. Scope' = Scope /\ Targets' = Targets
  BY CallFixed
<1>2. DOMAIN results = {} /\ todo = {} /\ draft = NoReport /\ results \in [DOMAIN results -> Executions]
      /\ Targets = {All}
  BY PackageAssumption DEF Inv, TypeOK, TargetInv, OutcomeInv, ProgressInv, At
<1>3. /\ DOMAIN results' = {All} /\ results' \in [DOMAIN results' -> Executions]
      /\ results'[All] = e
      /\ command' = Unset /\ gained' = {} /\ installed' = installed /\ begun' = begun
  BY <1>2, Recorded
<1>4. TypeOK'
  BY <1>2, <1>3 DEF Inv, TypeOK, Finish, Goto, callVars, Label
<1>5. TargetInv' /\ ProgressInv'
  BY <1>1, <1>2, <1>3, PackageAssumption DEF Inv, TargetInv, ProgressInv, Finish, Goto, callVars
<1>6. OutcomeInv'
  BY <1>2 DEF OutcomeInv, Finish, Goto
<1>7. (OnlyWhatWasAsked /\ EveryTargetAttempted /\ SuccessIsEarned)'
  BY <1>1, <1>2, <1>3 DEF Inv, OnlyWhatWasAsked, EveryTargetAttempted, SuccessIsEarned, Finish
<1>8. QED BY <1>4, <1>5, <1>6, <1>7 DEF Inv

\* Every step of the call, of its consumer and of the machine preserves the invariant.
LEMMA InvStep == Inv /\ [Next]_vars => Inv'
<1> SUFFICES ASSUME Inv, [Next]_vars PROVE Inv'
  OBVIOUS
<1>1. CASE UnknownManager
  <2>1. PICK r : r = UpdateReport(FALSE, 0, 0, 0, "unknown package manager")
    OBVIOUS
  <2>2. r \in Reports /\ r.success = FALSE /\ r.note # "applied" /\ r # NoReport
    BY <2>1, ReportType DEF Inv, Notes
  <2>3. command = Unset /\ DOMAIN results = {}
    BY <1>1 DEF Inv, TargetInv, UnknownManager, At
  <2>4. Finish(r) /\ UNCHANGED <<callVars, todo, command, results, acc, osVars>>
    BY <1>1, <2>1 DEF UnknownManager
  <2>5. QED BY <2>2, <2>3, <2>4, FinishKeeps
<1>2. CASE StartSelected
  <2>1. At("start") /\ Targets = Selected /\ Filtered /\ request.only # Unset
        /\ UNCHANGED <<callVars, command, results, acc, osVars>>
    BY <1>2 DEF StartSelected, Targets
  <2>2. PICK skipped : skipped = Cardinality(request.only \ Selected)
    OBVIOUS
  <2>3. skipped \in Nat
    BY <2>1, <2>2, Counting, Selections DEF Inv
  <2>4. \/ Tell(UpdateReport(TRUE, 0, skipped, 0, "preview")) /\ UNCHANGED todo
        \/ Tell(UpdateReport(FALSE, 0, skipped, 0, "nothing selected")) /\ UNCHANGED todo
        \/ /\ ~request.dry /\ pc' = "opening" /\ todo' = Selected /\ UNCHANGED <<draft, report>>
    BY <1>2, <2>2 DEF StartSelected, Goto
  <2>5. ASSUME NEW success \in BOOLEAN, NEW note \in Notes \ {"applied"},
               Tell(UpdateReport(success, 0, skipped, 0, note)), UNCHANGED todo
        PROVE  Inv'
    BY <2>1, <2>3, <2>5, ReportType, TellKeeps DEF Inv, At
  <2>6. CASE ~request.dry /\ pc' = "opening" /\ todo' = Selected /\ UNCHANGED <<draft, report>>
    <3>1. Targets \subseteq Scope
      BY <2>1, <2>6 DEF Scope
    <3>2. QED BY <2>1, <2>6, <3>1, EnterKeeps DEF At
  <2>7. QED BY <2>4, <2>5, <2>6 DEF Notes
<1>3. CASE StartSkipping
  <2>1. pc = "start" /\ pc' = "listing" /\ UNCHANGED <<callVars, todo, command, results, acc,
  draft, report, osVars>>
    BY <1>3 DEF StartSkipping, At, Goto
  <2>2. Scope' = Scope /\ Targets' = Targets
    BY <2>1, CallFixed
  <2>3. TypeOK'
    BY <2>1 DEF Inv, TypeOK, callVars, osVars, Label
  <2>4. TargetInv' /\ ProgressInv' /\ OutcomeInv'
    BY <1>3, <2>1, <2>2, CallFixed DEF Inv, TargetInv, ProgressInv, OutcomeInv, callVars, osVars,
           StartSkipping
  <2>5. (OnlyWhatWasAsked /\ EveryTargetAttempted /\ SuccessIsEarned)'
    BY <2>1, <2>2 DEF Inv, OnlyWhatWasAsked, EveryTargetAttempted, SuccessIsEarned, osVars
  <2>6. QED BY <2>3, <2>4, <2>5 DEF Inv
<1>4. CASE StartWhole
  <2>1. /\ pc = "start" /\ ~(Filtered /\ (request.only # Unset \/ request.skip # {}))
        /\ UNCHANGED <<callVars, todo, results, acc, installed, gained>>
    BY <1>4 DEF StartWhole, WholeSystem, At
  <2>2. command = Unset /\ DOMAIN results = {} /\ begun = {} /\ todo = {} /\ draft = NoReport /\ report = NoReport
    BY <2>1 DEF Inv, TargetInv, OutcomeInv
  <2>3. Scope' = Scope /\ Targets' = Targets
    BY <2>1, CallFixed
  <2>4. CASE /\ request.dry /\ pc' = "dry_run" /\ UNCHANGED <<command, begun, draft, report>>
    <3>1. TypeOK'
      BY <2>1, <2>4 DEF Inv, TypeOK, callVars, Label
    <3>2. TargetInv' /\ ProgressInv' /\ OutcomeInv'
      BY <2>1, <2>2, <2>3, <2>4 DEF Inv, TargetInv, ProgressInv, OutcomeInv, callVars
    <3>3. (OnlyWhatWasAsked /\ EveryTargetAttempted /\ SuccessIsEarned)'
      BY <2>1, <2>2, <2>3, <2>4 DEF Inv, OnlyWhatWasAsked, EveryTargetAttempted, SuccessIsEarned
    <3>4. QED BY <3>1, <3>2, <3>3 DEF Inv
  <2>5. CASE ~request.dry /\ pc' = "running" /\ command' = All /\ begun' = {All}
             /\ UNCHANGED <<draft, report>>
    <3>1. Scope = Package /\ Targets = {All}
      BY <2>1, <2>5 DEF Scope, Targets
    <3>2. TypeOK'
      BY <2>1, <2>5 DEF Inv, TypeOK, callVars, Label
    <3>3. TargetInv'
      BY <2>1, <2>2, <2>3, <2>5, <3>1, PackageAssumption DEF Inv, TargetInv, callVars
    <3>4. ProgressInv' /\ OutcomeInv'
      BY <2>1, <2>2, <2>3, <2>5, <3>1, PackageAssumption DEF Inv, ProgressInv, OutcomeInv
    <3>5. (OnlyWhatWasAsked /\ EveryTargetAttempted /\ SuccessIsEarned)'
      BY <2>1, <2>2, <2>3, <2>5 DEF Inv, OnlyWhatWasAsked, EveryTargetAttempted, SuccessIsEarned
    <3>6. QED BY <3>2, <3>3, <3>4, <3>5 DEF Inv
  <2>6. CASE Finish(UpdateReport(FALSE, 0, 0, 0, "rejected")) /\ UNCHANGED <<command, begun>>
    <3>1. PICK r : r = UpdateReport(FALSE, 0, 0, 0, "rejected")
      OBVIOUS
    <3>2. r \in Reports /\ r.success = FALSE /\ r.note # "applied" /\ r # NoReport
      BY <3>1, ReportType DEF Inv, Notes
    <3>3. QED BY <2>1, <2>2, <2>6, <3>1, <3>2, FinishKeeps DEF osVars
  <2>7. QED BY <1>4, <2>4, <2>5, <2>6 DEF StartWhole, WholeSystem, Goto
<1>5. CASE ListPackages
  <2>1. At("listing") /\ UNCHANGED <<callVars, command, results, acc, osVars>>
    BY <1>5 DEF ListPackages
  <2>2. PICK skipped : skipped = Cardinality(request.skip)
    OBVIOUS
  <2>3. skipped \in Nat /\ request.dry \in BOOLEAN
    BY <2>2, Counting, Selections DEF Inv
  <2>4. PICK listed \in {{}, available} :
          \/ /\ listed \ request.skip # {} /\ ~request.dry
             /\ pc' \in {"opening", "loop"} /\ todo' = listed \ request.skip
             /\ UNCHANGED <<draft, report>>
          \/ Tell(UpdateReport(TRUE, 0, skipped, 0, "preview")) /\ UNCHANGED todo
          \/ Tell(UpdateReport(request.dry, 0, 1, 0, "only Cursor")) /\ UNCHANGED todo
          \/ Tell(UpdateReport(TRUE, 0, skipped, 0, "all skipped")) /\ UNCHANGED todo
    BY <1>5, <2>2 DEF ListPackages, Goto
  <2>5. ASSUME NEW success \in BOOLEAN, NEW n \in Nat, NEW note \in Notes \ {"applied"},
               Tell(UpdateReport(success, 0, n, 0, note)), UNCHANGED todo
        PROVE  Inv'
    BY <2>1, <2>5, ReportType, TellKeeps DEF Inv, At
  <2>6. CASE /\ listed \ request.skip # {} /\ ~request.dry
             /\ pc' \in {"opening", "loop"} /\ todo' = listed \ request.skip
             /\ UNCHANGED <<draft, report>>
    <3>1. Filtered /\ request.only = Unset /\ request.skip # {}
      BY <2>1 DEF Inv, ProgressInv, At
    <3>2. Targets = available \ request.skip /\ Targets \subseteq Scope
      BY <2>6, <3>1 DEF Targets, Scope, Inv, TypeOK
    <3>3. QED BY <2>1, <2>4, <2>6, <3>2, EnterKeeps DEF At
  <2>7. QED BY <2>3, <2>4, <2>5, <2>6 DEF Notes
<1>6. CASE Opened
  <2>1. pc = "opening" /\ pc' = "loop"
        /\ UNCHANGED <<callVars, todo, command, results, acc, draft, report, osVars>>
    BY <1>6 DEF Opened, At, Goto
  <2>2. Scope' = Scope /\ Targets' = Targets
    BY <2>1, CallFixed
  <2>3. TypeOK'
    BY <2>1 DEF Inv, TypeOK, callVars, osVars, Label
  <2>4. TargetInv'
    BY <2>1, <2>2, PackageAssumption DEF Inv, TypeOK, TargetInv, callVars, osVars
  <2>5. ProgressInv' /\ OutcomeInv'
    BY <2>1, <2>2, PackageAssumption DEF Inv, TypeOK, TargetInv, ProgressInv, OutcomeInv
  <2>6. (OnlyWhatWasAsked /\ EveryTargetAttempted /\ SuccessIsEarned)'
    BY <2>1, <2>2 DEF Inv, OnlyWhatWasAsked, EveryTargetAttempted, SuccessIsEarned, osVars
  <2>7. QED BY <2>3, <2>4, <2>5, <2>6 DEF Inv
<1>7. CASE Pick
  <2>1. /\ pc = "loop" /\ pc' = "announced"
        /\ \E p \in todo : todo' = todo \ {p} /\ command' = p
        /\ UNCHANGED <<callVars, results, acc, draft, report, osVars>>
    BY <1>7 DEF Pick, At, Goto
  <2>2. Scope' = Scope /\ Targets' = Targets
    BY <2>1, CallFixed
  <2>3. TypeOK'
    BY <2>1 DEF Inv, TypeOK, callVars, osVars, Label
  <2>4. TargetInv'
    BY <2>1, <2>2, PackageAssumption DEF Inv, TypeOK, TargetInv, callVars, osVars
  <2>5. ProgressInv' /\ OutcomeInv'
    BY <2>1, <2>2, PackageAssumption DEF Inv, TypeOK, TargetInv, ProgressInv, OutcomeInv
  <2>6. (OnlyWhatWasAsked /\ EveryTargetAttempted /\ SuccessIsEarned)'
    BY <2>1, <2>2 DEF Inv, OnlyWhatWasAsked, EveryTargetAttempted, SuccessIsEarned, osVars
  <2>7. QED BY <2>3, <2>4, <2>5, <2>6 DEF Inv
<1>8. CASE Launch
  <2>1. pc = "announced" /\ pc' = "running" /\ begun' = begun \union {command}
        /\ UNCHANGED <<callVars, todo, command, results, acc, draft, report, installed, gained>>
    BY <1>8 DEF Launch, At, Goto
  <2>2. Scope' = Scope /\ Targets' = Targets
    BY <2>1, CallFixed
  <2>3. TypeOK'
    BY <2>1 DEF Inv, TypeOK, TargetInv, callVars, Label
  <2>4. TargetInv'
    BY <2>1, <2>2, PackageAssumption DEF Inv, TypeOK, TargetInv, callVars
  <2>5. ProgressInv' /\ OutcomeInv'
    BY <2>1, <2>2, PackageAssumption DEF Inv, TypeOK, TargetInv, ProgressInv, OutcomeInv
  <2>6. (OnlyWhatWasAsked /\ EveryTargetAttempted /\ SuccessIsEarned)'
    BY <2>1, <2>2 DEF Inv, OnlyWhatWasAsked, EveryTargetAttempted, SuccessIsEarned
  <2>7. QED BY <2>3, <2>4, <2>5, <2>6 DEF Inv
<1>9. CASE Refused
  <2>1. Execution(FALSE, NoCode, 0, 0) \in Executions
    BY DEF Execution, Executions
  <2>2. QED BY <1>9, <2>1, RecordKeeps DEF Refused, At, Goto
<1>10. CASE Finalize
  <2>1. /\ pc = "loop" /\ todo = {} /\ UNCHANGED <<callVars, todo, command, results, acc, osVars>>
        /\ command = Unset
    BY <1>10 DEF Finalize, At, Inv, TargetInv
  <2>2. PICK skipped : skipped = IF request.only # Unset THEN request.only \ Selected ELSE request.skip
    OBVIOUS
  <2>3. Cardinality(skipped) \in Nat
    BY <2>2, Counting, Selections DEF Inv
  <2>4. PICK r : r = UpdateReport(acc.success, acc.ok, Cardinality(skipped), acc.bad, "applied")
    OBVIOUS
  <2>5. r \in Reports /\ r.success = acc.success /\ r # NoReport
    <3>1. acc.success \in BOOLEAN /\ acc.ok \in Nat /\ acc.bad \in Nat /\ "applied" \in Notes /\ TypeOK
      BY DEF Inv, TypeOK, Notes
    <3>2. r \in Reports /\ r.success = acc.success /\ r.note = "applied"
      BY <2>3, <2>4, <3>1, Selections DEF UpdateReport, Reports
    <3>3. QED BY <3>2 DEF NoReport
  <2>6. Finish(r)
    BY <1>10, <2>2, <2>4 DEF Finalize
  <2>7. (acc.success => \A t \in DOMAIN results : results[t].success) /\ DOMAIN results = Targets
    BY <2>1 DEF Inv, OutcomeInv, ProgressInv
  <2>8. QED BY <2>1, <2>5, <2>6, <2>7, FinishKeeps
<1>11. CASE DryRun
  <2>1. PICK r : r = UpdateReport(TRUE, 0, 0, 0, "preview")
    OBVIOUS
  <2>2. r \in Reports /\ r.note # "applied" /\ r # NoReport
    BY <2>1, ReportType DEF Inv, Notes
  <2>3. command = Unset /\ DOMAIN results = {}
    BY <1>11 DEF Inv, TargetInv, DryRun, At
  <2>4. Finish(r) /\ UNCHANGED <<callVars, todo, command, results, acc, osVars>>
    BY <1>11, <2>1 DEF DryRun
  <2>5. QED BY <2>2, <2>3, <2>4, FinishKeeps
<1>12. CASE Told
  <2>1. command = Unset /\ DOMAIN results = {} /\ draft # NoReport /\ draft.note # "applied"
    BY <1>12 DEF Inv, TargetInv, OutcomeInv, Told, At
  <2>2. draft \in Reports
    BY <2>1 DEF Inv, TypeOK
  <2>3. Finish(draft) /\ UNCHANGED <<callVars, todo, command, results, acc, osVars>>
    BY <1>12 DEF Told
  <2>4. QED BY <2>1, <2>2, <2>3, FinishKeeps
<1>13. CASE Raise
  <2>1. /\ pc \in {"start", "listing", "announced", "running", "dry_run"} /\ pc' = "raised"
        /\ command' = Unset /\ gained' = {}
        /\ UNCHANGED <<callVars, todo, results, acc, draft, report, begun, installed>>
    BY <1>13 DEF Raise, At, Goto
  <2>2. Scope' = Scope /\ Targets' = Targets
    BY <2>1, CallFixed
  <2>3. TypeOK'
    BY <2>1 DEF Inv, TypeOK, callVars, osVars, Label
  <2>4. TargetInv'
    BY <2>1, <2>2, PackageAssumption DEF Inv, TypeOK, TargetInv, callVars, osVars
  <2>5. ProgressInv' /\ OutcomeInv'
    BY <2>1, <2>2, PackageAssumption DEF Inv, TypeOK, TargetInv, ProgressInv, OutcomeInv
  <2>6. (OnlyWhatWasAsked /\ EveryTargetAttempted /\ SuccessIsEarned)'
    BY <2>1, <2>2 DEF Inv, OnlyWhatWasAsked, EveryTargetAttempted, SuccessIsEarned, osVars
  <2>7. QED BY <2>3, <2>4, <2>5, <2>6 DEF Inv
<1>14. CASE Close
  <2>1. /\ pc \in {"telling", "opening", "announced", "running", "dry_run"} /\ pc' = "closed"
        /\ command' = Unset /\ gained' = {}
        /\ UNCHANGED <<callVars, todo, results, acc, draft, report, begun, installed>>
    BY <1>14 DEF Close, At, Goto
  <2>2. Scope' = Scope /\ Targets' = Targets
    BY <2>1, CallFixed
  <2>3. TypeOK'
    BY <2>1 DEF Inv, TypeOK, callVars, osVars, Label
  <2>4. TargetInv'
    BY <2>1, <2>2, PackageAssumption DEF Inv, TypeOK, TargetInv, callVars, osVars
  <2>5. ProgressInv' /\ OutcomeInv'
    BY <2>1, <2>2, PackageAssumption DEF Inv, TypeOK, TargetInv, ProgressInv, OutcomeInv
  <2>6. (OnlyWhatWasAsked /\ EveryTargetAttempted /\ SuccessIsEarned)'
    BY <2>1, <2>2 DEF Inv, OnlyWhatWasAsked, EveryTargetAttempted, SuccessIsEarned, osVars
  <2>7. QED BY <2>3, <2>4, <2>5, <2>6 DEF Inv
<1>15. CASE CommandEnds
  <2>1. PICK e \in Executions : Conclude(e)
    BY <1>15, CommandOutcome
  <2>2. At("running") /\ Record(e) /\ UNCHANGED <<callVars, todo>>
    BY <2>1 DEF Conclude
  <2>3. CASE /\ command = All /\ UNCHANGED acc
             /\ Finish(UpdateReport(e.success, Counted(e.ok), 0, Counted(e.bad), "applied"))
    <3>1. PICK r : r = UpdateReport(e.success, Counted(e.ok), 0, Counted(e.bad), "applied")
      OBVIOUS
    <3>2. /\ e.success \in BOOLEAN /\ Counted(e.ok) \in Nat /\ Counted(e.bad) \in Nat
          /\ "applied" \in Notes /\ TypeOK
      BY DEF Executions, Counted, Notes, Inv
    <3>3. r \in Reports /\ r.success = e.success /\ r # NoReport
      <4>1. r \in Reports /\ r.success = e.success /\ r.note = "applied"
        BY <3>1, <3>2, Selections DEF UpdateReport, Reports
      <4>2. QED BY <4>1 DEF NoReport
    <3>4. QED BY <2>2, <2>3, <3>1, <3>3, WholeKeeps
  <2>4. CASE acc' = Accumulate(e) /\ pc' = "loop" /\ UNCHANGED <<draft, report>>
    BY <2>2, <2>4, RecordKeeps DEF At
  <2>5. QED BY <2>1, <2>3, <2>4 DEF Conclude, Goto
<1>16. ASSUME NEW p \in Package, Install(p) PROVE Inv'
  <2>1. /\ \E target \in begun : p \in Reach(target)
        /\ installed' = installed \union {p} /\ gained' \in {gained, gained \union {p}}
        /\ UNCHANGED <<callVars, pc, todo, command, begun, results, acc, draft, report>>
    BY <1>16 DEF Install
  <2>2. Scope' = Scope /\ Targets' = Targets /\ Filtered' = Filtered
    BY <2>1, CallFixed
  <2>3. p \in Scope
    BY <2>1, BegunInScope DEF Inv
  <2>4. TypeOK'
    BY <2>1 DEF Inv, TypeOK, callVars
  <2>5. TargetInv' /\ ProgressInv' /\ OutcomeInv'
    BY <2>1, <2>2 DEF Inv, TargetInv, ProgressInv, OutcomeInv, callVars
  <2>6. (OnlyWhatWasAsked /\ EveryTargetAttempted /\ SuccessIsEarned)'
    BY <2>1, <2>2, <2>3 DEF Inv, OnlyWhatWasAsked, EveryTargetAttempted, SuccessIsEarned
  <2>7. QED BY <2>4, <2>5, <2>6 DEF Inv
<1>17. CASE UNCHANGED vars
  <2>1. Scope' = Scope /\ Targets' = Targets /\ Filtered' = Filtered
    BY <1>17, CallFixed DEF vars
  <2>2. QED BY <1>17, <2>1 DEF Inv, TypeOK, TargetInv, ProgressInv, OutcomeInv, OnlyWhatWasAsked,
                   EveryTargetAttempted, SuccessIsEarned, vars, callVars, osVars
<1> QED
  BY <1>1, <1>2, <1>3, <1>4, <1>5, <1>6, <1>7, <1>8, <1>9, <1>10, <1>11, <1>12, <1>13, <1>14,
         <1>15, <1>16, <1>17 DEF Next, Call

-----------------------------------------------------------------------------
(* The theorems. *)

\* The inductive invariant: what runs or waits lies in the scope and was not tried
\* before, nothing to try is forgotten, and success speaks for all that was tried.
THEOREM Invariance == Spec => []Inv
<1>1. QED BY InvInit, InvStep, PTL DEF Spec

\* Each variable of an apply keeps its type; exit_code is a number throughout.
THEOREM TypeCorrect == Spec => []TypeOK
<1>1. Inv => TypeOK
  BY DEF Inv
<1>2. QED BY <1>1, Invariance, PTL

\* A dry-run updates nothing, and a skipped or unselected package is never touched on
\* Windows, for any set of packages.
THEOREM OnlyTheScope == Spec => []OnlyWhatWasAsked
<1>1. Inv => OnlyWhatWasAsked
  BY DEF Inv
<1>2. QED BY <1>1, Invariance, PTL

\* An apply that is reported as applied has tried each of its targets, however many
\* failed or were refused on the way.
THEOREM EveryTargetIsAttempted == Spec => []EveryTargetAttempted
<1>1. Inv => EveryTargetAttempted
  BY DEF Inv
<1>2. QED BY <1>1, Invariance, PTL

\* A report of success means that no command of the apply failed, timed out or was
\* refused.
THEOREM SuccessMeansAll == Spec => []SuccessIsEarned
<1>1. Inv => SuccessIsEarned
  BY DEF Inv
<1>2. QED BY <1>1, Invariance, PTL

-----------------------------------------------------------------------------
(* The summary counts. *)

\* The packages of the machine and the targets tried can be counted.
LEMMA Countable ==
  ASSUME TypeOK
  PROVE  /\ \A S : S \subseteq Package => IsFiniteSet(S) /\ Cardinality(S) \in Nat
         /\ IsFiniteSet(DOMAIN results) /\ Cardinality(DOMAIN results) \in Nat
<1>1. IsFiniteSet(Package \union {All})
  BY PackageAssumption, FS_AddElement
<1>2. \A S : S \subseteq Package \union {All} => IsFiniteSet(S) /\ Cardinality(S) \in Nat
  BY <1>1, FS_Subset, FS_CardinalityType
<1>3. DOMAIN results \subseteq Package \union {All}
  BY DEF TypeOK
<1>4. \A S : S \subseteq Package => S \subseteq Package \union {All}
  OBVIOUS
<1>5. QED BY <1>2, <1>3, <1>4

\* The lines counted of one command are about packages in its reach, none twice.
LEMMA EndsCounted ==
  ASSUME TypeOK, CountInv, command # Unset, CommandEnds
  PROVE  \E e \in Executions :
           /\ Conclude(e)
           /\ e.ok <= Cardinality(gained)
           /\ e.ok + e.bad <= Cardinality(Reach(command))
<1> DEFINE reach == Reach(command)
<1>1. reach \subseteq Package /\ gained \subseteq reach
  BY DEF TypeOK, Reach, CountInv
<1>2. /\ IsFiniteSet(reach) /\ IsFiniteSet(gained) /\ IsFiniteSet(reach \ gained)
      /\ Cardinality(reach) \in Nat /\ Cardinality(gained) \in Nat /\ Cardinality(reach \ gained) \in Nat
  <2>1. gained \subseteq Package /\ reach \ gained \subseteq Package
    BY <1>1
  <2>2. QED BY <1>1, <2>1, Countable
<1>3. Cardinality(gained) + Cardinality(reach \ gained) = Cardinality(reach)
  <2>1. reach \intersect gained = gained
    BY <1>1
  <2>2. Cardinality(reach \ gained) = Cardinality(reach) - Cardinality(reach \intersect gained)
    BY <1>2, FS_Difference
  <2>3. QED BY <1>2, <2>1, <2>2
<1>4. CASE Conclude(Execution(FALSE, NoCode, 0, 0))
  <2> DEFINE e == Execution(FALSE, NoCode, 0, 0)
  <2>1. e \in Executions /\ e.ok = 0 /\ e.bad = 0 /\ Conclude(e)
    BY <1>4 DEF Execution, Executions
  <2> HIDE DEF e, reach
  <2>2. e.ok <= Cardinality(gained) /\ e.ok + e.bad <= Cardinality(reach)
    BY <1>2, <2>1
  <2>3. QED BY <2>1, <2>2 DEF reach
<1>5. ASSUME NEW code \in ExitCode, NEW ok \in 0 .. Cardinality(gained),
             NEW bad \in 0 .. Cardinality(reach \ gained),
             Conclude(Execution(code = 0, code, ok, bad))
      PROVE  \E e \in Executions :
               /\ Conclude(e) /\ e.ok <= Cardinality(gained) /\ e.ok + e.bad <= Cardinality(reach)
  <2> DEFINE b == (code = 0)
  <2>1. ok \in Nat /\ bad \in Nat /\ ok <= Cardinality(gained) /\ ok + bad <= Cardinality(reach)
    BY <1>2, <1>3
  <2>2. b \in BOOLEAN
    OBVIOUS
  <2>3. Conclude(Execution(b, code, ok, bad))
    BY <1>5
  <2> HIDE DEF b, reach
  <2>4. /\ Execution(b, code, ok, bad) \in Executions
        /\ Execution(b, code, ok, bad).ok = ok /\ Execution(b, code, ok, bad).bad = bad
    BY <2>1, <2>2 DEF Executions, Execution
  <2>5. QED BY <2>1, <2>3, <2>4
<1>6. QED BY <1>4, <1>5 DEF CommandEnds

\* What the other steps leave alone.
LEMMA QuietSteps ==
  ASSUME Inv, [Next]_vars
  PROVE  \/ CommandEnds \/ Refused \/ Raise \/ \E p \in Package : Install(p)
         \/ /\ UNCHANGED <<callVars, results, acc, installed>>
            /\ \/ gained' = {}
               \/ pc # "running" /\ gained' = gained
               \/ UNCHANGED <<pc, command, gained>>
BY DEF Next, Call, UnknownManager, StartSelected, StartSkipping, StartWhole, WholeSystem,
       ListPackages, Opened, Pick, Launch, Finalize, DryRun, Told, Close, At, Goto, vars, osVars

\* Every step keeps the count of what a summary would tell.
LEMMA CountStep == Inv /\ CountInv /\ [Next]_vars => CountInv'
<1> SUFFICES ASSUME Inv, CountInv, [Next]_vars PROVE CountInv'
  OBVIOUS
<1>1. TypeOK /\ acc.ok \in Nat /\ acc.bad \in Nat
  BY DEF Inv, TypeOK
<1>2. /\ Cardinality(gained) \in Nat /\ Cardinality(installed) \in Nat /\ IsFiniteSet(gained)
      /\ IsFiniteSet(installed) /\ IsFiniteSet(DOMAIN results) /\ Cardinality(DOMAIN results) \in Nat
  BY <1>1, Countable DEF TypeOK
<1>3. Cardinality({}) = 0
  BY FS_EmptySet
<1>4. ASSUME NEW e \in Executions, Record(e), pc \in {"announced", "running"},
             e.ok <= Cardinality(gained),
             \/ acc' = acc
             \/ acc' = Accumulate(e) /\ e.ok + e.bad <= 1
      PROVE  CountInv'
  <2>1. command # Unset /\ command \notin DOMAIN results
    BY <1>4 DEF Inv, TargetInv
  <2>2. /\ DOMAIN results' = DOMAIN results \union {command}
        /\ command' = Unset /\ gained' = {} /\ installed' = installed
    BY <1>1, <1>4, Recorded DEF TypeOK
  <2>3. Cardinality(DOMAIN results') = Cardinality(DOMAIN results) + 1
    BY <1>2, <2>1, <2>2, FS_AddElement
  <2>4. /\ e.ok \in Nat /\ e.bad \in Nat
        /\ Accumulate(e).ok = acc.ok + e.ok /\ Accumulate(e).bad = acc.bad + e.bad
    BY DEF Executions, Accumulate
  <2>5. acc'.ok <= acc.ok + Cardinality(gained)
    BY <1>1, <1>2, <1>4, <2>4
  <2>6. acc'.ok \in Nat /\ acc'.bad \in Nat /\ acc'.ok + acc'.bad <= acc.ok + acc.bad + 1
    BY <1>1, <1>4, <2>4
  <2>7. acc.ok + Cardinality(gained) <= Cardinality(installed)
        /\ acc.ok + acc.bad <= Cardinality(DOMAIN results)
    BY DEF CountInv
  <2>8. acc'.ok + Cardinality(gained') <= Cardinality(installed')
    BY <1>1, <1>2, <1>3, <2>2, <2>5, <2>6, <2>7
  <2>9. acc'.ok + acc'.bad <= Cardinality((DOMAIN results)')
    BY <1>1, <1>2, <2>3, <2>6, <2>7
  <2>10. QED BY <2>2, <2>8, <2>9 DEF CountInv
<1>5. CASE CommandEnds
  <2>1. pc = "running" /\ command # Unset /\ command \in Package \union {All}
    BY <1>5 DEF CommandEnds, Conclude, At, Inv, TypeOK, TargetInv
  <2>2. PICK e \in Executions : /\ Conclude(e) /\ e.ok <= Cardinality(gained)
                                /\ e.ok + e.bad <= Cardinality(Reach(command))
    BY <1>1, <1>5, <2>1, EndsCounted
  <2>3. Record(e) /\ (acc' = acc \/ (command # All /\ acc' = Accumulate(e)))
    BY <2>2 DEF Conclude
  <2>4. CASE command # All
    <3>1. Reach(command) \subseteq {command} /\ IsFiniteSet({command}) /\ Cardinality({command}) = 1
      BY <2>4, FS_Singleton DEF Reach
    <3>2. Cardinality(Reach(command)) \in Nat /\ Cardinality(Reach(command)) <= 1
      BY <3>1, FS_Subset, FS_CardinalityType
    <3>3. e.ok \in Nat /\ e.bad \in Nat
      BY DEF Executions
    <3>4. e.ok + e.bad <= 1
      BY <2>2, <3>2, <3>3
    <3>5. QED BY <1>4, <2>1, <2>2, <2>3, <3>4
  <2>5. CASE command = All
    BY <1>4, <2>1, <2>2, <2>3, <2>5
  <2>6. QED BY <2>4, <2>5
<1>6. CASE Refused
  <2> DEFINE e == Execution(FALSE, NoCode, 0, 0)
  <2>1. e \in Executions /\ e.ok = 0 /\ e.bad = 0
    BY DEF Execution, Executions
  <2>2. Record(e) /\ acc' = Accumulate(e) /\ pc = "announced"
    BY <1>6 DEF Refused, At
  <2> HIDE DEF e
  <2>3. QED BY <1>2, <1>4, <2>1, <2>2
<1>7. CASE Raise
  <2>1. command' = Unset /\ gained' = {} /\ UNCHANGED <<results, acc, installed>>
    BY <1>7 DEF Raise
  <2>2. QED BY <1>1, <1>2, <1>3, <2>1 DEF CountInv
<1>8. ASSUME NEW p \in Package, Install(p) PROVE CountInv'
  <2>1. /\ p \notin installed /\ installed' = installed \union {p}
        /\ \/ gained' = gained
           \/ pc = "running" /\ p \in Reach(command) /\ gained' = gained \union {p}
        /\ UNCHANGED <<callVars, pc, command, results, acc>>
    BY <1>8 DEF Install, At
  <2>2. Cardinality(installed') = Cardinality(installed) + 1
    BY <1>2, <2>1, FS_AddElement
  <2>3. Cardinality(gained') \in {Cardinality(gained), Cardinality(gained) + 1}
    BY <1>2, <2>1, FS_AddElement
  <2>4. Reach(command)' = Reach(command)
    BY <2>1 DEF Reach, callVars
  <2>5. acc'.ok + Cardinality(gained') <= Cardinality(installed')
    BY <1>1, <1>2, <2>1, <2>2, <2>3 DEF CountInv
  <2>6. QED BY <2>1, <2>4, <2>5 DEF CountInv
<1>9. CASE /\ UNCHANGED <<callVars, results, acc, installed>>
           /\ \/ gained' = {}
              \/ pc # "running" /\ gained' = gained
              \/ UNCHANGED <<pc, command, gained>>
  <2>1. gained' = {} \/ UNCHANGED <<pc, command, gained>>
    BY <1>9 DEF CountInv
  <2>2. CASE gained' = {}
    BY <1>1, <1>2, <1>3, <1>9, <2>2 DEF CountInv
  <2>3. CASE UNCHANGED <<pc, command, gained>>
    BY <1>9, <2>3 DEF CountInv, Reach, callVars
  <2>4. QED BY <2>1, <2>2, <2>3
<1>10. QED BY <1>5, <1>6, <1>7, <1>8, <1>9, QuietSteps

\* Nothing but the end of the loop, or of the command for the whole system, reports an
\* apply; after a report only a helper may still go on.
LEMMA ReportSteps ==
  ASSUME Inv, [Next]_vars
  PROVE  \/ CommandEnds \/ Finalize \/ UNCHANGED vars
         \/ \E p \in Package : Install(p)
         \/ report' = NoReport \/ report'.note # "applied"
<1>1. CASE report # NoReport
  <2>1. pc = "reported"
    BY <1>1 DEF Inv, OutcomeInv
  <2>2. QED BY <2>1 DEF Next, Call, CommandEnds, Conclude, UnknownManager, StartSelected,
         StartSkipping,
       StartWhole, ListPackages, Opened, Pick, Launch, Refused, Finalize, DryRun, Told, Raise,
       Close,
       Install, At
<1>2. CASE report = NoReport
  <2>1. ASSUME NEW r, Finish(r), r.note # "applied" PROVE report'.note # "applied"
    BY <2>1 DEF Finish
  <2>2. ASSUME NEW success, NEW updated, NEW skipped, NEW failed, NEW note, note # "applied"
        PROVE  UpdateReport(success, updated, skipped, failed, note).note # "applied"
    BY <2>2 DEF UpdateReport
  <2>3. CASE UnknownManager
    BY <2>1, <2>2, <2>3 DEF UnknownManager
  <2>4. CASE StartWhole
    <3>1. UNCHANGED report \/ Finish(UpdateReport(FALSE, 0, 0, 0, "rejected"))
      BY <2>4 DEF StartWhole, WholeSystem
    <3>2. QED BY <1>2, <2>1, <2>2, <3>1
  <2>5. CASE DryRun
    BY <2>1, <2>2, <2>5 DEF DryRun
  <2>6. CASE Told
    <3>1. draft.note # "applied" /\ Finish(draft)
      BY <2>6 DEF Told, At, Inv, OutcomeInv
    <3>2. QED BY <2>1, <3>1
  <2>7. UnknownManager \/ StartWhole \/ DryRun \/ Told \/ CommandEnds \/ Finalize \/ UNCHANGED report
    BY DEF Next, Call, StartSelected, StartSkipping, ListPackages, Opened, Pick, Launch, Refused,
           Raise, Close, Install, Tell, vars
  <2>8. QED BY <1>2, <2>3, <2>4, <2>5, <2>6, <2>7
<1>3. QED BY <1>1, <1>2

\* What is skipped of a selection and what is left of it make it up.
LEMMA SelectionSplits ==
  ASSUME TypeOK, request.only # Unset
  PROVE  /\ Cardinality(Selected) \in Nat /\ Cardinality(request.only) \in Nat
         /\ Cardinality(request.only \ Selected) \in Nat
         /\ Cardinality(Selected) + Cardinality(request.only \ Selected) = Cardinality(request.only)
<1>1. request.only \subseteq Package /\ Selected \subseteq request.only
  BY DEF TypeOK, Selected
<1>2. request.only \intersect Selected = Selected /\ Selected \subseteq Package
      /\ request.only \ Selected \subseteq Package
  BY <1>1
<1>3. /\ IsFiniteSet(request.only) /\ Cardinality(request.only) \in Nat
      /\ Cardinality(Selected) \in Nat /\ Cardinality(request.only \ Selected) \in Nat
  BY <1>1, <1>2, Countable
<1>4. Cardinality(request.only \ Selected) = Cardinality(request.only) - Cardinality(Selected)
  BY <1>2, <1>3, FS_Difference
<1>5. QED BY <1>3, <1>4

\* The loop's summary adds up.
LEMMA FinalizeCounts ==
  ASSUME Inv, LoopInv, CountInv, Finalize
  PROVE  SummaryAddsUp'
<1> DEFINE ids == request.only
           skipped == IF ids # Unset THEN ids \ Selected ELSE request.skip
<1>1. /\ TypeOK /\ acc.ok \in Nat /\ acc.bad \in Nat /\ gained \subseteq Package
      /\ installed \subseteq Package
  BY DEF Inv, TypeOK
<1>2. /\ report' = UpdateReport(acc.success, acc.ok, Cardinality(skipped), acc.bad, "applied")
      /\ UNCHANGED <<callVars, results, acc, osVars>> /\ pc = "loop" /\ todo = {} /\ command = Unset
  BY DEF Finalize, Finish, At, Inv, TargetInv
<1>3. /\ report'.updated = acc.ok /\ report'.failed = acc.bad
      /\ report'.skipped = Cardinality(skipped)
  BY <1>2 DEF UpdateReport
<1>4. DOMAIN results = Targets
  BY <1>2 DEF Inv, ProgressInv
<1>5. /\ Cardinality(gained) \in Nat /\ Cardinality(installed) \in Nat
      /\ Cardinality(DOMAIN results) \in Nat
  BY <1>1, Countable
<1>6. acc.ok <= Cardinality(installed) /\ acc.ok + acc.bad <= Cardinality(DOMAIN results)
  BY <1>1, <1>5 DEF CountInv
<1>7. Filtered' = Filtered /\ Targets' = Targets /\ request' = request /\ results' = results
      /\ installed' = installed /\ available' = available
  BY <1>2, CallFixed DEF callVars, osVars
<1>8. All \notin DOMAIN results
  BY <1>2, <1>4 DEF LoopInv
<1>9. Filtered /\ ids # Unset =>
        acc.ok + acc.bad + Cardinality(skipped) <= Cardinality(ids)
  <2>1. SUFFICES ASSUME Filtered, ids # Unset
                 PROVE  acc.ok + acc.bad + Cardinality(skipped) <= Cardinality(ids)
    OBVIOUS
  <2>2. DOMAIN results = Selected /\ skipped = ids \ Selected
    BY <1>4, <2>1 DEF Targets
  <2>3. /\ Cardinality(Selected) \in Nat /\ Cardinality(ids) \in Nat
        /\ Cardinality(ids \ Selected) \in Nat
        /\ Cardinality(Selected) + Cardinality(ids \ Selected) = Cardinality(ids)
    BY <1>1, <2>1, SelectionSplits
  <2>4. acc.ok + acc.bad <= Cardinality(Selected)
    BY <1>6, <2>2
  <2>5. Cardinality(skipped) = Cardinality(ids \ Selected)
    BY <2>2
  <2> HIDE DEF ids, skipped
  <2>6. QED BY <1>1, <2>3, <2>4, <2>5
<1> HIDE DEF skipped
<1>10. QED BY <1>3, <1>6, <1>7, <1>8, <1>9 DEF SummaryAddsUp

\* So does the summary of the one command for the whole system.
LEMMA WholeCounts ==
  ASSUME Inv, CountInv, CommandEnds, report' # NoReport
  PROVE  SummaryAddsUp'
<1>1. /\ TypeOK /\ gained \subseteq Package /\ installed \subseteq Package /\ available \subseteq Package
      /\ acc.ok \in Nat
  BY DEF Inv, TypeOK
<1>2. /\ pc = "running" /\ command # Unset /\ report = NoReport
  BY DEF CommandEnds, Conclude, At, Inv, TargetInv, OutcomeInv
<1>3. PICK e \in Executions : /\ Conclude(e) /\ e.ok <= Cardinality(gained)
                              /\ e.ok + e.bad <= Cardinality(Reach(command))
  BY <1>1, <1>2, EndsCounted
<1>4. /\ command = All /\ Record(e) /\ UNCHANGED callVars
      /\ report' = UpdateReport(e.success, Counted(e.ok), 0, Counted(e.bad), "applied")
  BY <1>2, <1>3 DEF Conclude, Finish
<1>5. /\ report'.updated = Counted(e.ok) /\ report'.failed = Counted(e.bad)
  BY <1>4 DEF UpdateReport
<1>6. /\ Cardinality(gained) \in Nat /\ Cardinality(installed) \in Nat /\ Cardinality(available) \in Nat
  BY <1>1, Countable
<1>7. Cardinality(gained) <= Cardinality(installed)
  BY <1>1, <1>6 DEF CountInv
<1>8. e.ok \in Nat /\ e.bad \in Nat /\ e.ok + e.bad <= Cardinality(available)
  BY <1>3, <1>4 DEF Reach, Executions
<1>9. /\ Counted(e.ok) \in Nat /\ Counted(e.bad) \in Nat
      /\ Counted(e.ok) <= Cardinality(installed)
      /\ Counted(e.ok) + Counted(e.bad) <= Cardinality(available)
  BY <1>3, <1>6, <1>7, <1>8 DEF Counted
<1>10. /\ DOMAIN results' = DOMAIN results \union {command} /\ installed' = installed
  BY <1>1, <1>4, Recorded DEF TypeOK
<1>11. All \in (DOMAIN results)' /\ available' = available /\ Filtered' = Filtered /\ request' = request
  BY <1>4, <1>10, CallFixed DEF callVars
<1>12. ~(Filtered /\ request.only # Unset)
  <2>1. All \in Targets
    BY <1>2, <1>4, PackageAssumption DEF Inv, ProgressInv
  <2>2. request.only # Unset => All \notin Selected
    BY <1>1, Selections, PackageAssumption
  <2>3. QED BY <2>1, <2>2 DEF Targets
<1>13. QED BY <1>5, <1>9, <1>10, <1>11, <1>12 DEF SummaryAddsUp

\* Every step keeps the loop to packages.
LEMMA LoopStep == Inv /\ LoopInv /\ [Next]_vars => LoopInv'
<1> SUFFICES ASSUME Inv, LoopInv, [Next]_vars, pc' \in {"opening", "loop", "announced"}
             PROVE  All \notin Targets'
  BY DEF LoopInv
<1>1. UNCHANGED callVars
  BY DEF Next, Call, CommandEnds, Conclude, UnknownManager, StartSelected, StartSkipping,
         StartWhole,
         ListPackages, Opened, Pick, Launch, Refused, Finalize, DryRun, Told, Raise, Close,
         Install, vars
<1>2. Targets' = Targets
  BY <1>1, CallFixed
<1>3. \/ pc \in {"opening", "loop", "announced"}
      \/ pc = "start" /\ Filtered /\ request.only # Unset
      \/ pc = "listing"
      \/ pc = "running" /\ command # All
  BY DEF Next, Call, CommandEnds, Conclude, UnknownManager, StartSelected, StartSkipping,
         StartWhole,
         WholeSystem, ListPackages, Opened, Pick, Launch, Refused, Finalize, DryRun, Told, Raise,
         Close,
         Install, vars, At, Goto, Finish, Tell
<1>4. CASE pc \in {"opening", "loop", "announced"}
  BY <1>2, <1>4 DEF LoopInv
<1>5. CASE pc = "start" /\ Filtered /\ request.only # Unset
  BY <1>2, <1>5, Selections, PackageAssumption DEF Targets, Inv
<1>6. CASE pc = "listing"
  BY <1>2, <1>6, PackageAssumption DEF Targets, Inv, TypeOK, ProgressInv
<1>7. CASE pc = "running" /\ command # All
  <2>1. command \in Targets /\ command \in Package \union {All}
    BY <1>7, PackageAssumption DEF Inv, TypeOK, TargetInv, ProgressInv
  <2>2. All \in Targets => Targets = {All}
    BY Selections, PackageAssumption DEF Targets, Inv, TypeOK
  <2>3. QED BY <1>2, <1>7, <2>1, <2>2
<1>8. QED BY <1>3, <1>4, <1>5, <1>6, <1>7

\* What has been reported stays so; what is reported now adds up.
LEMMA SummaryStep ==
  Inv /\ LoopInv /\ CountInv /\ SummaryAddsUp /\ [Next]_vars => SummaryAddsUp'
<1> SUFFICES ASSUME Inv, LoopInv, CountInv, SummaryAddsUp, [Next]_vars PROVE SummaryAddsUp'
  OBVIOUS
<1>1. CASE CommandEnds
  BY <1>1, WholeCounts DEF SummaryAddsUp
<1>2. CASE Finalize
  BY <1>2, FinalizeCounts
<1>3. CASE UNCHANGED vars
  <2>1. Filtered' = Filtered
    BY <1>3, CallFixed DEF vars
  <2>2. QED BY <1>3, <2>1 DEF SummaryAddsUp, vars, callVars, osVars
<1>4. CASE report' = NoReport \/ report'.note # "applied"
  BY <1>4 DEF SummaryAddsUp
<1>5. ASSUME NEW p \in Package, Install(p) PROVE SummaryAddsUp'
  <2>1. /\ UNCHANGED <<callVars, report, results>> /\ p \notin installed
        /\ installed' = installed \union {p}
    BY <1>5 DEF Install
  <2>2. Filtered' = Filtered
    BY <2>1, CallFixed
  <2>3. IsFiniteSet(installed) /\ Cardinality(installed) \in Nat
    BY Countable DEF Inv, TypeOK
  <2>4. Cardinality(installed') = Cardinality(installed) + 1
    BY <2>1, <2>3, FS_AddElement
  <2>5. SUFFICES ASSUME report # NoReport, report.note = "applied"
                 PROVE  report.updated <= Cardinality(installed')
    BY <2>1, <2>2 DEF SummaryAddsUp, callVars
  <2>6. report.updated \in Nat /\ report.updated <= Cardinality(installed)
    BY <2>5 DEF SummaryAddsUp, Inv, TypeOK, Reports
  <2>7. QED BY <2>3, <2>4, <2>6
<1>6. QED BY <1>1, <1>2, <1>3, <1>4, <1>5, ReportSteps

\* The summary of an apply counts no package twice, and none as updated that was not.
THEOREM SummariesAddUp == Spec => []SummaryAddsUp
<1>1. Init => LoopInv /\ CountInv /\ SummaryAddsUp
  <2> SUFFICES ASSUME Init PROVE LoopInv /\ CountInv /\ SummaryAddsUp
    OBVIOUS
  <2>1. acc.ok = 0 /\ acc.bad = 0 /\ command = Unset /\ pc = "start" /\ report = NoReport
        /\ gained = {} /\ installed = {} /\ DOMAIN results = {}
    BY DEF Init, Empty, Execution
  <2>2. QED BY <2>1, FS_EmptySet DEF LoopInv, CountInv, SummaryAddsUp
<1>2. Inv /\ LoopInv /\ CountInv /\ SummaryAddsUp /\ [Next]_vars
        => (LoopInv /\ CountInv /\ SummaryAddsUp)'
  BY LoopStep, CountStep, SummaryStep
<1>3. QED BY <1>1, <1>2, Invariance, PTL DEF Spec

-----------------------------------------------------------------------------
(* An updater implements ApplyPromise. *)

\* While no package is updated, nothing is concluded and nothing is claimed, the
\* promise stutters.
LEMMA Stutters ==
  ASSUME UNCHANGED <<callVars, begun, installed, results>>, PromiseClaim' = PromiseClaim
  PROVE  [Promise!Next]_(Promise!vars)
<1>1. Scope' = Scope
  BY CallFixed
<1>2. UNCHANGED <<begun, installed, results, PromiseClaim, Scope>>
  BY <1>1
<1>3. QED BY <1>2 DEF Promise!vars

\* A report returned without a command is the promise's Report.
LEMMA FinishReports ==
  ASSUME ~(pc \in {"reported", "raised", "closed"}), NEW r, r.success \in BOOLEAN, Finish(r),
         r.success => \A t \in DOMAIN results : results[t].success,
         UNCHANGED <<callVars, results, begun, installed>>
  PROVE  [Promise!Next]_(Promise!vars)
<1>1. Scope' = Scope
  BY CallFixed
<1>2. PromiseClaim = "open"
  BY DEF PromiseClaim, At
<1>3. PromiseClaim' \in {"success", "failure"} /\ (PromiseClaim' = "success" => r.success)
  BY DEF PromiseClaim, At, Finish, Goto
<1>4. PromiseClaim' = "success" => {t \in DOMAIN results : ~results[t].success} = {}
  BY <1>3
<1>5. Promise!Report
  BY <1>1, <1>2, <1>3, <1>4 DEF Promise!Report
<1>6. QED BY <1>5 DEF Promise!Next

\* A package concluded in the loop is the promise's Conclude.
LEMMA RecordConcludes ==
  ASSUME Inv, pc \in {"announced", "running"}, NEW e \in Executions, Record(e), pc' = "loop",
         UNCHANGED callVars
  PROVE  [Promise!Next]_(Promise!vars)
<1> DEFINE failing == {t \in DOMAIN results : ~results[t].success}
<1>1. Scope' = Scope
  BY CallFixed
<1>2. /\ command \in Package \union {All} /\ command \notin DOMAIN results
      /\ results \in [DOMAIN results -> Executions]
  BY DEF Inv, TypeOK, TargetInv
<1>3. /\ DOMAIN results' = DOMAIN results \union {command}
      /\ results'[command] = e /\ \A t \in DOMAIN results \ {command} : results'[t] = results[t]
      /\ installed' = installed /\ begun' = begun
  BY <1>2, Recorded
<1>4. PromiseClaim = "open" /\ PromiseClaim' = "open"
  BY DEF PromiseClaim, At
<1>5. failing' = IF e.success THEN failing ELSE failing \union {command}
  BY <1>2, <1>3
<1>6. e.success \in BOOLEAN
  BY DEF Executions
<1>7. Promise!Conclude(command, e.success)
  BY <1>1, <1>2, <1>3, <1>4, <1>5 DEF Promise!Conclude
<1>8. QED BY <1>2, <1>6, <1>7 DEF Promise!Next

\* The one command for the whole system is concluded and reported at once.
LEMMA WholeConcludes ==
  ASSUME Inv, At("running"), command = All, NEW e \in Executions, Record(e), NEW r,
         r.success = e.success, Finish(r), UNCHANGED callVars
  PROVE  [Promise!Next]_(Promise!vars)
<1> DEFINE failing == {t \in DOMAIN results : ~results[t].success}
<1>1. Scope' = Scope
  BY CallFixed
<1>2. DOMAIN results = {} /\ results \in [DOMAIN results -> Executions]
  BY PackageAssumption DEF Inv, TypeOK, TargetInv
<1>3. DOMAIN results' = {All} /\ results'[All] = e /\ installed' = installed /\ begun' = begun
  BY <1>2, Recorded
<1>4. PromiseClaim = "open"
  BY DEF PromiseClaim, At
<1>5. PromiseClaim' \in {"success", "failure"} /\ (PromiseClaim' = "success" => e.success)
  BY DEF PromiseClaim, At, Finish, Goto
<1>6. failing = {} /\ failing' = IF e.success THEN {} ELSE {All}
  BY <1>2, <1>3
<1>7. e.success \in BOOLEAN
  BY DEF Executions
<1>8. Promise!ConcludeAndReport(All, e.success)
  BY <1>1, <1>2, <1>3, <1>4, <1>5, <1>6 DEF Promise!ConcludeAndReport
<1>9. QED BY <1>7, <1>8 DEF Promise!Next

\* Every step of an updater is a step of the promise, or changes none of it.
LEMMA PromiseStep == Inv /\ [Next]_vars => [Promise!Next]_(Promise!vars)
<1> SUFFICES ASSUME Inv, [Next]_vars PROVE [Promise!Next]_(Promise!vars)
  OBVIOUS
<1> DEFINE Over == {"reported", "raised", "closed"}
<1>1. CASE UnknownManager
  <2>1. PICK r : r = UpdateReport(FALSE, 0, 0, 0, "unknown package manager")
    OBVIOUS
  <2>2. Finish(r) /\ pc = "start" /\ UNCHANGED <<callVars, results, begun, installed>>
    BY <1>1, <2>1 DEF UnknownManager, At, osVars
  <2>3. ~r.success /\ r.success \in BOOLEAN
    BY <2>1 DEF UpdateReport
  <2>4. QED BY <2>2, <2>3, FinishReports
<1>2. CASE StartSelected
  <2>1. pc = "start" /\ pc' \in {"telling", "opening"} /\ UNCHANGED <<callVars, results, begun, installed>>
    BY <1>2 DEF StartSelected, Tell, At, Goto, osVars
  <2>2. QED BY <2>1, Stutters DEF PromiseClaim, At
<1>3. CASE StartSkipping
  <2>1. pc = "start" /\ pc' = "listing" /\ UNCHANGED <<callVars, results, begun, installed>>
    BY <1>3 DEF StartSkipping, At, Goto, osVars
  <2>2. QED BY <2>1, Stutters DEF PromiseClaim, At
<1>4. CASE StartWhole
  <2>1. pc = "start" /\ UNCHANGED <<callVars, results, installed>>
    BY <1>4 DEF StartWhole, WholeSystem, At
  <2>2. CASE pc' = "dry_run" /\ UNCHANGED begun
    BY <2>1, <2>2, Stutters DEF PromiseClaim, At
  <2>3. CASE pc' = "running" /\ begun' = {All}
    <3>1. begun = {} /\ DOMAIN results = {} /\ Scope' = Scope
      BY <2>1, CallFixed DEF Inv, TargetInv
    <3>2. PromiseClaim = "open" /\ PromiseClaim' = "open"
      BY <2>1, <2>3 DEF PromiseClaim, At
    <3>3. Promise!Begin(All)
      BY <2>1, <2>3, <3>1, <3>2 DEF Promise!Begin
    <3>4. QED BY <3>3 DEF Promise!Next
  <2>4. CASE Finish(UpdateReport(FALSE, 0, 0, 0, "rejected")) /\ UNCHANGED begun
    <3>1. PICK r : r = UpdateReport(FALSE, 0, 0, 0, "rejected")
      OBVIOUS
    <3>2. ~r.success /\ r.success \in BOOLEAN
      BY <3>1 DEF UpdateReport
    <3>3. Finish(r)
      BY <2>4, <3>1
    <3>4. QED BY <2>1, <2>4, <3>2, <3>3, FinishReports
  <2>5. QED BY <1>4, <2>2, <2>3, <2>4 DEF StartWhole, WholeSystem, Goto
<1>5. CASE ListPackages
  <2>1. pc = "listing" /\ pc' \in {"telling", "opening", "loop"} /\ UNCHANGED <<callVars, results, begun, installed>>
    BY <1>5 DEF ListPackages, Tell, At, Goto, osVars
  <2>2. QED BY <2>1, Stutters DEF PromiseClaim, At
<1>6. CASE Opened \/ Pick
  <2>1. /\ pc \in {"opening", "loop"} /\ pc' \in {"loop", "announced"}
        /\ UNCHANGED <<callVars, results, begun, installed>>
    BY <1>6 DEF Opened, Pick, At, Goto, osVars
  <2>2. QED BY <2>1, Stutters DEF PromiseClaim, At
<1>15. CASE Launch
  <2>1. /\ pc = "announced" /\ pc' = "running" /\ begun' = begun \union {command}
        /\ UNCHANGED <<callVars, results, installed>>
    BY <1>15 DEF Launch, At, Goto
  <2>2. /\ command \in Package \union {All} /\ command \notin begun \union DOMAIN results
        /\ Scope' = Scope
    BY <2>1, CallFixed DEF Inv, TypeOK, TargetInv
  <2>3. PromiseClaim = "open" /\ PromiseClaim' = "open"
    BY <2>1 DEF PromiseClaim, At
  <2>4. Promise!Begin(command)
    BY <2>1, <2>2, <2>3 DEF Promise!Begin
  <2>5. QED BY <2>2, <2>4 DEF Promise!Next
<1>7. CASE Refused
  <2>1. Execution(FALSE, NoCode, 0, 0) \in Executions
    BY DEF Execution, Executions
  <2>2. QED BY <1>7, <2>1, RecordConcludes DEF Refused, At, Goto
<1>8. CASE Finalize
  <2>1. PICK n : Finish(UpdateReport(acc.success, acc.ok, n, acc.bad, "applied"))
    BY <1>8 DEF Finalize
  <2>2. /\ UpdateReport(acc.success, acc.ok, n, acc.bad, "applied").success = acc.success
        /\ acc.success \in BOOLEAN
    BY DEF UpdateReport, Inv, TypeOK
  <2>3. pc = "loop" /\ UNCHANGED <<callVars, results, begun, installed>>
    BY <1>8 DEF Finalize, At, osVars
  <2>4. acc.success => \A t \in DOMAIN results : results[t].success
    BY <2>3 DEF Inv, OutcomeInv
  <2>5. QED BY <2>1, <2>2, <2>3, <2>4, FinishReports
<1>9. CASE DryRun
  <2>1. PICK r : r = UpdateReport(TRUE, 0, 0, 0, "preview")
    OBVIOUS
  <2>2. Finish(r) /\ pc = "dry_run" /\ UNCHANGED <<callVars, results, begun, installed>>
    BY <1>9, <2>1 DEF DryRun, At, osVars
  <2>3. DOMAIN results = {} /\ r.success \in BOOLEAN
    BY <2>1, <2>2 DEF Inv, TargetInv, UpdateReport
  <2>4. QED BY <2>2, <2>3, FinishReports
<1>10. CASE Told
  <2>1. Finish(draft) /\ pc = "telling" /\ UNCHANGED <<callVars, results, begun, installed>>
    BY <1>10 DEF Told, At, osVars
  <2>2. DOMAIN results = {} /\ draft.success \in BOOLEAN
    BY <2>1 DEF Inv, TypeOK, TargetInv, OutcomeInv, Reports
  <2>3. QED BY <2>1, <2>2, FinishReports
<1>11. CASE Raise \/ Close
  <2>1. /\ pc \notin Over /\ pc' \in {"raised", "closed"}
        /\ UNCHANGED <<callVars, results, begun, installed>>
    BY <1>11 DEF Raise, Close, At, Goto, osVars
  <2>2. PromiseClaim = "open" /\ PromiseClaim' = "abandoned" /\ Scope' = Scope
    BY <2>1, CallFixed DEF PromiseClaim, At
  <2>3. Promise!Abandon
    BY <2>1, <2>2 DEF Promise!Abandon
  <2>4. QED BY <2>3 DEF Promise!Next
<1>12. CASE CommandEnds
  <2>1. PICK e \in Executions : Conclude(e)
    BY <1>12, CommandOutcome
  <2>2. At("running") /\ Record(e) /\ UNCHANGED callVars
    BY <2>1 DEF Conclude
  <2>3. CASE command = All /\ Finish(UpdateReport(e.success, Counted(e.ok), 0, Counted(e.bad),
  "applied"))
    <3>1. UpdateReport(e.success, Counted(e.ok), 0, Counted(e.bad), "applied").success = e.success
      BY DEF UpdateReport
    <3>2. QED BY <2>2, <2>3, <3>1, WholeConcludes
  <2>4. CASE pc' = "loop"
    BY <2>2, <2>4, RecordConcludes DEF At
  <2>5. QED BY <2>1, <2>3, <2>4 DEF Conclude, Goto
<1>13. ASSUME NEW p \in Package, Install(p) PROVE [Promise!Next]_(Promise!vars)
  <2>1. PICK target \in begun : p \in Reach(target)
    BY <1>13 DEF Install
  <2>2. /\ installed' = installed \union {p}
        /\ UNCHANGED <<callVars, pc, begun, results, report>>
    BY <1>13 DEF Install
  <2>3. p \in Scope /\ Scope' = Scope
    BY <2>1, <2>2, CallFixed, BegunInScope DEF Inv
  <2>4. PromiseClaim' = PromiseClaim
    BY <2>2 DEF PromiseClaim, At
  <2>5. p \in begun \/ begun \ Package # {}
    BY <2>1, PackageAssumption DEF Reach
  <2>6. Promise!Update(p)
    BY <2>2, <2>3, <2>4, <2>5 DEF Promise!Update
  <2>7. QED BY <2>6 DEF Promise!Next
<1>14. CASE UNCHANGED vars
  <2>1. UNCHANGED <<callVars, pc, report, begun, installed, results>>
    BY <1>14 DEF vars, osVars
  <2>2. PromiseClaim' = PromiseClaim
    BY <2>1 DEF PromiseClaim, At
  <2>3. QED BY <2>1, <2>2, Stutters
<1> QED
  BY <1>1, <1>2, <1>3, <1>4, <1>5, <1>6, <1>7, <1>8, <1>9, <1>10, <1>11, <1>12, <1>13, <1>14, <1>15
  DEF Next, Call

\* An updater implements ApplyPromise, for any set of packages: each target is begun
\* once and none after the call is over, success is claimed only without a failure,
\* and what a command or its helper updates, even after the report, is in the scope
\* and in the reach of a target that was begun.
THEOREM UpdaterKeepsPromise == Spec => KeepsPromise
<1>1. Init => Promise!Init
  <2> SUFFICES ASSUME Init PROVE Promise!Init
    OBVIOUS
  <2>1. Scope \in SUBSET Package
    BY InvInit, Selections DEF Inv
  <2>2. PromiseClaim = "open" /\ begun = {} /\ installed = {} /\ DOMAIN results = {}
    BY DEF Init, PromiseClaim, At
  <2>3. {t \in DOMAIN results : ~results[t].success} = {}
    BY <2>2
  <2>4. QED BY <2>1, <2>2, <2>3 DEF Promise!Init
<1>2. Inv /\ [Next]_vars => [Promise!Next]_(Promise!vars)
  BY PromiseStep
<1>3. QED BY <1>1, <1>2, Invariance, PTL DEF Spec, KeepsPromise, Promise!Spec
=============================================================================
