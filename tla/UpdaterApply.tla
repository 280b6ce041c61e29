------------------------------ MODULE UpdaterApply ------------------------------
(***************************************************************************)
(* One call of an updater's apply or apply_streaming                       *)
(* (backend/veripatch/updaters/windows.py, linux.py, macos.py).            *)
(*                                                                         *)
(* Every line apply_streaming yields is a point where its consumer may     *)
(* drop the generator.  The command that runs at that moment goes on       *)
(* installing, and so may a helper of a command that was killed or has     *)
(* ended: CommandRunner shows that nobody ends them.                       *)
(***************************************************************************)
EXTENDS Integers, FiniteSets

CONSTANTS
  Package,       \* the packages of the machine
  Cursor,        \* CURSOR_PACKAGE_ID
  All,           \* the target of "upgrade --all", "apt upgrade", ...
  Unset,         \* package_ids=None
  NoCode,        \* exit_code=None: the command was not run to its end
  ExitCode,      \* exit codes of the update commands; 0 is success
  RunnerDryRun   \* VERIPATCH_DRY_RUN when the updater was made

ASSUME PackageAssumption  ==
  /\ IsFiniteSet(Package) /\ Cursor \in Package
  /\ All \notin Package /\ Unset \notin Package /\ All # Unset
  /\ \A S \in SUBSET Package : Unset # S
ASSUME CodeAssumption     == 0 \in ExitCode /\ ExitCode \subseteq Int /\ NoCode \notin ExitCode
ASSUME ModeAssumption     == RunnerDryRun \in BOOLEAN

VARIABLES
  request,    \* the arguments: method, dry_run, skip_package_ids, package_ids
  machine,    \* what the updater finds: the platform, package manager known, commands approved
  available,  \* the packages with an update waiting when the call starts
  pc,         \* where the call is
  todo,       \* package_ids not yet reached by _apply_selected_packages
  command,    \* the target of the running command, or Unset
  results,    \* the targets concluded, with their ExecutionResult
  acc,        \* success, exit_code and combined_stdout so far
  draft,      \* the UpdateResult to return after the next yield
  report,     \* the UpdateResult returned, or NoReport
  begun,      \* the targets whose command was launched; it or its helpers may run on
  installed,  \* the packages this call has updated
  gained      \* those the running command has updated

osVars   == <<begun, installed, gained>>
callVars == <<request, machine, available>>
vars == <<callVars, pc, todo, command, results, acc, draft, report, osVars>>

NoReport == [note |-> "none"]

\* An ExecutionResult, its output reduced to the lines the summary counts.
Execution(success, code, ok, bad) ==
  [success |-> success, code |-> code, ok |-> ok, bad |-> bad]

Empty == Execution(TRUE, 0, 0, 0)

\* Which updater get_updater returns.
Platforms == {"windows", "macos", "linux"}

Windows   == machine.platform = "windows"
Streaming == request.method = "apply_streaming"

\* The filters count on Windows, in apply_streaming only.
Filtered == Windows /\ Streaming

Selected == request.only \ request.skip

UpdateReport(success, updated, skipped, failed, note) ==
  [success |-> success, dry |-> request.dry, updated |-> updated, skipped |-> skipped,
   failed |-> failed, note |-> note]

Init ==
  /\ request \in [method : {"apply", "apply_streaming"}, dry : BOOLEAN,
                  skip : SUBSET Package, only : {Unset} \union SUBSET Package]
  /\ request.method = "apply" => request.skip = {} /\ request.only = Unset
  /\ machine \in [platform : Platforms, managed : BOOLEAN, approved : BOOLEAN]
  /\ machine.platform # "linux" => machine.managed
  /\ available \in SUBSET Package
  /\ pc = "start" /\ todo = {} /\ command = Unset /\ results = [t \in {} |-> Empty]
  /\ acc = Empty /\ draft = NoReport /\ report = NoReport
  /\ begun = {} /\ installed = {} /\ gained = {}

-----------------------------------------------------------------------------
At(label)   == pc = label
Goto(label) == pc' = label

Finish(r) == Goto("reported") /\ report' = r /\ UNCHANGED draft

\* yield one line, then return r
Tell(r) == Goto("telling") /\ draft' = r /\ UNCHANGED report

\* The --all command is tried: one validation, then the runner.
WholeSystem ==
  /\ \/ /\ machine.approved /\ request.dry
        /\ Goto("dry_run") /\ UNCHANGED <<command, begun, draft, report>>
     \/ /\ machine.approved /\ ~request.dry
        /\ Goto("running") /\ command' = All /\ begun' = {All} /\ UNCHANGED <<draft, report>>
     \/ /\ ~machine.approved
        /\ Finish(UpdateReport(FALSE, 0, 0, 0, "rejected")) /\ UNCHANGED <<command, begun>>
  /\ UNCHANGED <<todo, installed, gained>>

-----------------------------------------------------------------------------
(* Mutated forms of the definitions below.                                  *)

\* The listed packages are applied without looking at dry_run.
ListPackagesUndried ==
  /\ At("listing")
  /\ \E listed \in {{}, available} :
       LET targets == listed \ request.skip
       IN IF targets # {}
            THEN Goto("loop") /\ todo' = targets /\ UNCHANGED <<draft, report>>
            ELSE Tell(UpdateReport(request.dry, 0, 1, 0, "all skipped")) /\ UNCHANGED todo
  /\ UNCHANGED <<callVars, command, results, acc, osVars>>

\* success is that of the last package.
AccumulateLast(e) ==
  [success |-> e.success, code |-> acc.code, ok |-> acc.ok + e.ok, bad |-> acc.bad + e.bad]

\* A failure ends the loop with a report.
FinalizeEarly ==
  /\ At("loop") /\ (todo = {} \/ ~acc.success)
  /\ Finish(UpdateReport(acc.success, acc.ok, Cardinality(request.skip), acc.bad, "applied"))
  /\ UNCHANGED <<callVars, todo, command, results, acc, osVars>>

\* The whole skip list is counted, whatever was selected.
FinalizeMiscounted ==
  /\ At("loop") /\ todo = {}
  /\ Finish(UpdateReport(acc.success, acc.ok, Cardinality(request.skip), acc.bad, "applied"))
  /\ UNCHANGED <<callVars, todo, command, results, acc, osVars>>

-----------------------------------------------------------------------------
(* The entry of the call.                                                  *)

UnknownManager ==
  /\ At("start") /\ ~machine.managed
  /\ Finish(UpdateReport(FALSE, 0, 0, 0, "unknown package manager"))
  /\ UNCHANGED <<callVars, todo, command, results, acc, osVars>>

\* package_ids is given: they are the targets, minus the skipped ones.
StartSelected ==
  /\ At("start") /\ Filtered /\ request.only # Unset
  /\ LET skipped == Cardinality(request.only \ Selected)
     IN \/ /\ request.dry
           /\ Tell(UpdateReport(TRUE, 0, skipped, 0, "preview")) /\ UNCHANGED todo
        \/ /\ ~request.dry /\ Selected = {}
           /\ Tell(UpdateReport(FALSE, 0, skipped, 0, "nothing selected")) /\ UNCHANGED todo
        \/ /\ ~request.dry /\ Selected # {}
           /\ Goto("opening") /\ todo' = Selected /\ UNCHANGED <<draft, report>>
  /\ UNCHANGED <<callVars, command, results, acc, osVars>>

\* Only a skip list: the packages have to be listed first.
StartSkipping ==
  /\ At("start") /\ Filtered /\ request.only = Unset /\ request.skip # {}
  /\ Goto("listing")
  /\ UNCHANGED <<callVars, todo, command, results, acc, draft, report, osVars>>

\* No filter, a platform that ignores filters, or apply.
StartWhole ==
  /\ At("start") /\ machine.managed
  /\ ~(Filtered /\ (request.only # Unset \/ request.skip # {}))
  /\ WholeSystem
  /\ UNCHANGED <<callVars, results, acc>>

\* list_updates: nothing is listed when WinGet is missing, not approved, fails,
\* times out, or is run in the runner's own dry-run; the failure is not looked at.
ListPackages ==
  /\ At("listing")
  /\ \E listed \in {{}, IF RunnerDryRun \/ ~machine.approved THEN {} ELSE available} :
       LET targets == listed \ request.skip
           skipped == Cardinality(request.skip)
       IN \/ /\ targets # {} /\ ~request.dry
             /\ Goto(IF Cursor \in request.skip THEN "opening" ELSE "loop")
             /\ todo' = targets /\ UNCHANGED <<draft, report>>
          \/ /\ targets # {} /\ request.dry
             /\ Tell(UpdateReport(TRUE, 0, skipped, 0, "preview")) /\ UNCHANGED todo
          \/ /\ targets = {} /\ Cursor \in request.skip
             /\ Tell(UpdateReport(request.dry, 0, 1, 0, "only Cursor")) /\ UNCHANGED todo
          \/ /\ targets = {} /\ Cursor \notin request.skip
             /\ Tell(UpdateReport(TRUE, 0, skipped, 0, "all skipped")) /\ UNCHANGED todo
  /\ UNCHANGED <<callVars, command, results, acc, osVars>>

-----------------------------------------------------------------------------
(* _apply_selected_packages, and the single command of the other paths.    *)

\* The line before the loop has been taken.
Opened ==
  /\ At("opening")
  /\ Goto("loop")
  /\ UNCHANGED <<callVars, todo, command, results, acc, draft, report, osVars>>

\* "[VeriPatch] Updating <package>..." is yielded.
Pick ==
  /\ At("loop") /\ todo # {}
  /\ \E p \in todo : todo' = todo \ {p} /\ command' = p
  /\ Goto("announced")
  /\ UNCHANGED <<callVars, results, acc, draft, report, osVars>>

Launch ==
  /\ At("announced") /\ machine.approved
  /\ Goto("running") /\ begun' = begun \union {command}
  /\ UNCHANGED <<callVars, todo, command, results, acc, draft, report, installed, gained>>

\* success of all of them, the last exit code that is not 0, all the output
Accumulate(e) ==
  [success |-> acc.success /\ e.success,
   code    |-> IF e.code \notin {NoCode, 0} THEN e.code ELSE acc.code,
   ok      |-> acc.ok + e.ok,
   bad     |-> acc.bad + e.bad]

Record(e) ==
  /\ results' = [t \in DOMAIN results \union {command} |-> IF t = command THEN e ELSE results[t]]
  /\ command' = Unset /\ gained' = {}
  /\ UNCHANGED <<begun, installed>>

\* Only the Windows updater counts what the output reports.
Counted(n) == IF Windows THEN n ELSE 0

\* Mutated form: a package whose command failed is tried again.
ConcludeRetrying(e) ==
  /\ At("running")
  /\ Record(e)
  /\ \/ /\ command = All
        /\ Finish(UpdateReport(e.success, Counted(e.ok), 0, Counted(e.bad), "applied"))
        /\ UNCHANGED <<acc, todo>>
     \/ /\ command # All
        /\ acc' = IF e.success THEN Accumulate(e) ELSE acc
        /\ todo' = IF e.success THEN todo ELSE todo \union {command}
        /\ Goto("loop") /\ UNCHANGED <<draft, report>>
  /\ UNCHANGED callVars

\* The command is over and its ExecutionResult is e.
Conclude(e) ==
  /\ At("running")
  /\ Record(e)
  /\ \/ /\ command = All
        /\ Finish(UpdateReport(e.success, Counted(e.ok), 0, Counted(e.bad), "applied"))
        /\ UNCHANGED acc
     \/ /\ command # All
        /\ acc' = Accumulate(e)
        /\ Goto("loop") /\ UNCHANGED <<draft, report>>
  /\ UNCHANGED <<callVars, todo>>

\* The validator refuses the package's command; the loop goes on.
Refused ==
  /\ At("announced") /\ ~machine.approved
  /\ Record(Execution(FALSE, NoCode, 0, 0))
  /\ acc' = Accumulate(Execution(FALSE, NoCode, 0, 0))
  /\ Goto("loop")
  /\ UNCHANGED <<callVars, todo, draft, report>>

\* The loop is through: _finalize_apply_result.
Finalize ==
  /\ At("loop") /\ todo = {}
  /\ LET skipped == IF request.only # Unset THEN request.only \ Selected ELSE request.skip
     IN Finish(UpdateReport(acc.success, acc.ok, Cardinality(skipped), acc.bad, "applied"))
  /\ UNCHANGED <<callVars, todo, command, results, acc, osVars>>

\* The runner's dry-run of the --all command.
DryRun ==
  /\ At("dry_run")
  /\ Finish(UpdateReport(TRUE, 0, 0, 0, "preview"))
  /\ UNCHANGED <<callVars, todo, command, results, acc, osVars>>

Told ==
  /\ At("telling")
  /\ Finish(draft)
  /\ UNCHANGED <<callVars, todo, command, results, acc, osVars>>

\* An audit write or the runner raises: no report; a command already launched, or
\* its helper, may go on.
Raise ==
  /\ pc \in {"start", "listing", "announced", "running", "dry_run"}
  /\ Goto("raised")
  /\ command' = Unset /\ gained' = {}
  /\ UNCHANGED <<callVars, todo, results, acc, draft, report, begun, installed>>

\* Mutated form: the announced command is started although the consumer is gone.
CloseStarting ==
  /\ Streaming /\ pc \in {"telling", "opening", "announced", "running", "dry_run"}
  /\ Goto("closed")
  /\ command' = Unset /\ gained' = {}
  /\ begun' = IF At("announced") /\ machine.approved THEN begun \union {command} ELSE begun
  /\ UNCHANGED <<callVars, todo, results, acc, draft, report, installed>>

\* The consumer drops the generator at a yield; a running command runs on.
Close ==
  /\ Streaming /\ pc \in {"telling", "opening", "announced", "running", "dry_run"}
  /\ Goto("closed")
  /\ command' = Unset /\ gained' = {}
  /\ UNCHANGED <<callVars, todo, results, acc, draft, report, begun, installed>>

-----------------------------------------------------------------------------
(* The update commands (external).                                         *)

Reach(target) == IF target = All THEN available ELSE {target} \intersect available

\* A command updates one package, or a helper does that it started: the kill of a
\* timeout takes only the direct child, and an abandoned command is not killed at all.
Install(p) ==
  /\ \E target \in begun : p \in Reach(target) \ installed
  /\ installed' = installed \union {p}
  /\ gained' = IF At("running") /\ p \in Reach(command) THEN gained \union {p} ELSE gained
  /\ UNCHANGED <<callVars, pc, todo, command, begun, results, acc, draft, report>>

\* The running command was not launched or timed out, and then the runner keeps no
\* output; or it ran to its end.  A success line stands for a package it updated (a
\* localised one is not recognised), a failure line for one it did not, and then its
\* exit code is not 0.
CommandEnds ==
  \/ Conclude(Execution(FALSE, NoCode, 0, 0))
  \/ \E code \in ExitCode, ok \in 0 .. Cardinality(gained),
        bad \in 0 .. Cardinality(Reach(command) \ gained) :
       /\ bad > 0 => code # 0
       /\ Conclude(Execution(code = 0, code, ok, bad))

-----------------------------------------------------------------------------
Call ==
  \/ UnknownManager \/ StartSelected \/ StartSkipping \/ StartWhole \/ ListPackages
  \/ Opened \/ Pick \/ Launch \/ Refused \/ Finalize \/ DryRun \/ Told

Next ==
  \/ Call \/ CommandEnds \/ Raise \/ Close
  \/ \E p \in Package : Install(p)

Spec == Init /\ [][Next]_vars

\* The call waits in subprocess.run on Windows, which reads the pipe of a command it
\* has killed without a limit: a helper that holds the pipe holds the call.
Drains ==
  /\ Windows /\ machine.approved
  /\ IF At("listing") THEN ~RunnerDryRun ELSE At("running") /\ ~Streaming

\* The call runs and its consumer pulls; the runner ends every other wait for a
\* command (CommandRunner!EventuallyEnds).
FairSpec == Spec /\ WF_vars(~Drains /\ (Call \/ CommandEnds))
-----------------------------------------------------------------------------
(* Properties.                                                             *)

Label == {"start", "listing", "opening", "loop", "announced", "running", "dry_run", "telling",
          "reported", "raised", "closed"}

Notes == {"rejected", "preview", "nothing selected", "unknown package manager",
          "only Cursor", "all skipped", "applied"}

Executions == [success : BOOLEAN, code : ExitCode \union {NoCode}, ok : Nat, bad : Nat]

Reports == [success : BOOLEAN, dry : BOOLEAN, updated : Nat, skipped : Nat, failed : Nat, note : Notes]

\* Every variable keeps to the values its argument or local can have; exit_code is
\* a number throughout the loop.
TypeOK ==
  /\ request \in [method : {"apply", "apply_streaming"}, dry : BOOLEAN,
                  skip : SUBSET Package, only : {Unset} \union SUBSET Package]
  /\ machine \in [platform : Platforms, managed : BOOLEAN, approved : BOOLEAN]
  /\ available \subseteq Package /\ todo \subseteq Package
  /\ pc \in Label
  /\ command \in Package \union {All, Unset}
  /\ DOMAIN results \subseteq Package \union {All}
  /\ results \in [DOMAIN results -> Executions]
  /\ acc \in [success : BOOLEAN, code : ExitCode, ok : Nat, bad : Nat]
  /\ draft \in Reports \union {NoReport} /\ report \in Reports \union {NoReport}
  /\ begun \subseteq Package \union {All}
  /\ installed \subseteq Package /\ gained \subseteq Package

\* The packages a call may touch: none in dry-run; on Windows the selected ones
\* without the skipped ones, or all but the skipped ones.
Scope ==
  IF request.dry THEN {}
  ELSE IF Filtered /\ request.only # Unset THEN Selected
  ELSE Package \ (IF Filtered THEN request.skip ELSE {})

\* A dry-run updates nothing; on Windows a skipped or unselected package is not
\* touched, whatever failed, was listed late, or runs on after the consumer left.
OnlyWhatWasAsked == installed \subseteq Scope

\* What an apply has to try.
Targets ==
  IF Filtered /\ request.only # Unset THEN Selected
  ELSE IF Filtered /\ request.skip # {} THEN available \ request.skip
  ELSE {All}

\* A report of an apply says "applied" only when each of its targets has been tried:
\* a failure or a refusal in the middle of the list does not end it.
EveryTargetAttempted ==
  report # NoReport /\ report.note = "applied" => DOMAIN results = Targets

\* A report of success of a real apply means that no command of it failed, timed
\* out or was refused, at any place in the list.
SuccessIsEarned ==
  report # NoReport /\ report.success => \A t \in DOMAIN results : results[t].success

\* The summary counts no package twice: updated and failed are packages the call
\* reached, the skipped ones are others, and each one it calls updated was.
SummaryAddsUp ==
  report # NoReport /\ report.note = "applied" =>
    /\ report.updated <= Cardinality(installed)
    /\ report.updated + report.failed <= Cardinality(IF All \in DOMAIN results THEN available
                                                     ELSE DOMAIN results)
    /\ Filtered /\ request.only # Unset =>
         report.updated + report.failed + report.skipped <= Cardinality(request.only)

\* An apply ends, however many of its packages fail, are refused or time out: with a
\* report, an exception, or a consumer that has gone.  The exception is a call that
\* hangs in subprocess.run on Windows.
EventuallyEnds == <>(pc \in {"reported", "raised", "closed"}) \/ <>[]Drains

\* ApplyPromise's claim in terms of the updater.
PromiseClaim ==
  CASE At("reported") -> IF report.success THEN "success" ELSE "failure"
    [] pc \in {"raised", "closed"} -> "abandoned"
    [] OTHER -> "open"

Promise == INSTANCE ApplyPromise WITH
  Target <- Package \union {All}, scope <- Scope, updated <- installed, begun <- begun,
  attempted <- DOMAIN results, failed <- {t \in DOMAIN results : ~results[t].success},
  claim <- PromiseClaim

\* An updater implements ApplyPromise: each target is begun once, and none after the
\* call is over; what a command or its helper updates, at whatever time, is in the
\* scope and in the reach of one begun; success is claimed only without a failure.
KeepsPromise == Promise!Spec

\* gui/app/ui/view_model.lua: "Install only the updates you checked in the list
\* above."
SelectionHonoured == request.only # Unset => installed \subseteq request.only

\* windows.py: message="All available updates were skipped", and "Only Cursor has
\* updates and it was skipped.": neither is said while another update waits.
SkipReportTruthful ==
  report # NoReport /\ report.note \in {"only Cursor", "all skipped"} =>
    available \subseteq request.skip

-----------------------------------------------------------------------------
(* The inductive invariant.                                                *)

\* What runs or waits lies in the scope and has not been tried before.
TargetInv ==
  /\ pc \in {"announced", "running"} => command # Unset
  /\ command # Unset => pc \in {"announced", "running"}
  /\ \A t \in begun : IF t = All THEN Scope = Package ELSE t \in Scope
  /\ pc = "announced" => command \notin begun
  /\ begun \intersect todo = {}
  /\ pc = "running" => command \in begun
  /\ command # Unset => command \notin todo /\ command \notin DOMAIN results
  /\ command \in Package => command \in Scope
  /\ command = All => ~request.dry /\ Scope = Package /\ todo = {} /\ DOMAIN results = {}
  /\ todo \subseteq Scope /\ todo \intersect DOMAIN results = {}
  /\ pc \in {"start", "listing", "dry_run"} => todo = {}
  /\ pc \in {"start", "listing", "dry_run", "telling", "opening"} =>
       DOMAIN results = {} /\ begun = {}

\* Nothing the call has to try is forgotten while it is under way.
ProgressInv ==
  /\ pc \in {"opening", "loop", "announced", "running"} =>
       Targets = todo \union DOMAIN results \union ({command} \ {Unset})
  /\ pc = "listing" => Filtered /\ request.only = Unset /\ request.skip # {}

\* success_so_far speaks for every package tried so far, and a report prepared in
\* advance is none of an apply.
OutcomeInv ==
  /\ pc # "reported" /\ acc.success => \A t \in DOMAIN results : results[t].success
  /\ pc = "reported" <=> report # NoReport
  /\ pc = "telling" => draft # NoReport
  /\ draft # NoReport => pc \in {"telling", "reported", "closed"} /\ draft.note # "applied"

\* The loop is about packages, never about the system as a whole.
LoopInv == pc \in {"opening", "loop", "announced"} => All \notin Targets

\* Each package counted as updated is one of those installed before the running
\* command, and each counted at all is one of those tried.
CountInv ==
  /\ pc # "running" => gained = {}
  /\ command # Unset => gained \subseteq Reach(command)
  /\ acc.ok + Cardinality(gained) <= Cardinality(installed)
  /\ acc.ok + acc.bad <= Cardinality(DOMAIN results)

Inv ==
  /\ TypeOK /\ TargetInv /\ ProgressInv /\ OutcomeInv
  /\ OnlyWhatWasAsked /\ EveryTargetAttempted /\ SuccessIsEarned
=============================================================================
