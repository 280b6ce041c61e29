----------------------------- MODULE CheckUpdates -----------------------------
(* One request for validate_command, or one for check_updates: the system is *)
(* detected (detection/os_detect.py), the updater of that system checks its  *)
(* tool and lists what it announces (check and list_updates of linux.py,     *)
(* macos.py and windows.py), each command validated by the updater and again *)
(* by the runner, and the output is read by the parser of that tool          *)
(* (execution/parsers.py).  The machine may change between two looks at it.  *)
(*                                                                           *)
(* A line of output is the record of what the parsers look at:               *)
(*   starts   how it begins            first    its first word or column     *)
(*   columns  words or columns         has      the marks it contains        *)
(* and of what it means: update, an update is announced; usual, in the form  *)
(* of tests/fixtures.                                                        *)
EXTENDS SourceValidator

CONSTANTS
  Machines,  \* [system, release, dry]: platform.system(), os-release, VERIPATCH_DRY_RUN
  Lines      \* the lines each tool may print

Tools == {"winget", "softwareupdate", "apt", "dnf", "pacman", "zypper"}

\* A value of os-release: its quotes, and its words.
Values == [quote : {"none", "double", "single"}, words : Seq(STRING)]

ASSUME MachinesAssumption ==
  Machines \subseteq [system : STRING, release : [id : Values, like : Values], dry : BOOLEAN]

\* How tests/fixtures print an update.
FixtureRow(tool, line) ==
  CASE tool = "winget" -> /\ line.starts = "" /\ line.columns = 5 /\ "Name" \notin line.has
                          /\ line.first \notin {"name", "available upgrades"}
    [] tool = "softwareupdate" -> line.starts = "*"
    [] tool = "apt"    -> "upgradable" \in line.has /\ line.first \notin {"", "Listing"}
    [] tool = "dnf"    -> line.starts = "" /\ line.columns = 3
    [] tool = "pacman" -> line.columns = 2
    [] tool = "zypper" -> line.starts = "" /\ line.columns = 6 /\ line.first = "number" /\ line.has = {"|"}

ASSUME UsualAssumption ==
  \A tool \in Tools : \A line \in Lines[tool] : line.update /\ line.usual => FixtureRow(tool, line)

VARIABLES
  machine,   \* the machine the request is served on
  at,        \* the next step of the handler
  stage,     \* "check" or "list"
  launched,  \* the commands launched
  checked, listed,  \* the two results
  output,    \* what the tool said while its updates were listed
  blockers   \* what the answer says of Cursor

result == <<checked, listed, output, blockers>>
vars   == <<call, machine, at, stage, launched, result>>

-----------------------------------------------------------------------------
(* Detection.                                                              *)

NormalizeOsName(system) ==
  CASE system = "Windows" -> "windows"
    [] system = "Darwin"  -> "macos"
    [] system = "Linux"   -> "linux"
    [] OTHER -> "unknown"

Distros ==
  [ apt    |-> {"debian", "ubuntu", "linuxmint", "pop"},
    dnf    |-> {"fedora", "rhel", "centos", "rocky", "almalinux"},
    pacman |-> {"arch", "manjaro"},
    zypper |-> {"opensuse", "opensuse-leap", "suse"} ]

DistroPkgMap ==
  [ d \in UNION {Distros[pm] : pm \in DOMAIN Distros} |-> CHOOSE pm \in DOMAIN Distros : d \in Distros[pm] ]

(* Double quotes around a value are taken off, single ones stay on the first *)
(* and the last of its words, which then name no distribution.               *)
ParseOsRelease(value) ==
  [ i \in DOMAIN value.words |->
      IF value.quote = "single" /\ i \in {1, Len(value.words)} THEN "quoted" ELSE value.words[i] ]

\* ID, then the words of ID_LIKE in their order.
ResolvePackageManager(release) ==
  LET names == ParseOsRelease(release.id) \o ParseOsRelease(release.like)
      known == {i \in DOMAIN names : names[i] \in DOMAIN DistroPkgMap}
  IN  IF known = {} THEN "unknown" ELSE DistroPkgMap[names[Min(known)]]

Os == NormalizeOsName(machine.system)
Pm == IF Os = "linux" THEN ResolvePackageManager(machine.release) ELSE "none"

Tool ==
  CASE Os = "windows" -> "winget"
    [] Os = "macos"   -> "softwareupdate"
    [] OTHER -> Pm

ListCommand ==
  [ winget         |-> <<"winget", "upgrade", "--disable-interactivity">>,
    softwareupdate |-> <<"softwareupdate", "--list">>,
    apt            |-> <<"apt", "list", "--upgradable">>,
    dnf            |-> <<"dnf", "check-update">>,
    pacman         |-> <<"pacman", "-Qu">>,
    zypper         |-> <<"zypper", "list-updates">> ]

-----------------------------------------------------------------------------
(* The parsers: which lines become items.                                  *)

Raw == [starts |-> "", first |-> "raw", columns |-> 1, has |-> {}, update |-> FALSE, usual |-> FALSE]

parse_winget_upgrade(lines) ==
  { l \in lines : /\ l.columns >= 2 /\ l.starts # "-" /\ ~({"Name", "Id"} \subseteq l.has)
                  /\ l.first \notin {"name", "available upgrades"} }

\* With no item and no word that there is none, the whole output is one item.
parse_softwareupdate_list(lines) ==
  LET rows == { l \in lines : l.starts \in {"*", "-"} }
  IN  IF rows = {} /\ lines # {} /\ \A l \in lines : "No new software available" \notin l.has
      THEN {Raw} ELSE rows

parse_apt_upgradable(lines) ==
  { l \in lines : "upgradable" \in l.has /\ l.first \notin {"", "Listing"} }

parse_dnf_check_update(lines) ==
  { l \in lines : l.columns >= 2 /\ l.starts \notin {"Last metadata", "="} }

parse_pacman_qu(lines) == { l \in lines : l.columns >= 2 }

parse_zypper_list_updates(lines) ==
  { l \in lines : /\ "|" \in l.has /\ "Repository" \notin l.has /\ l.starts # "---"
                  /\ l.columns >= 3 /\ l.first = "number" }

Parse(lines) ==
  CASE Tool = "winget"         -> parse_winget_upgrade(lines)
    [] Tool = "softwareupdate" -> parse_softwareupdate_list(lines)
    [] Tool = "apt"            -> parse_apt_upgradable(lines)
    [] Tool = "dnf"            -> parse_dnf_check_update(lines)
    [] Tool = "pacman"         -> parse_pacman_qu(lines)
    [] Tool = "zypper"         -> parse_zypper_list_updates(lines)

-----------------------------------------------------------------------------
(* The handler.                                                            *)

Pending == [done |-> FALSE, success |-> FALSE, dry |-> FALSE, items |-> {}]
Result(success, dry, items) == [done |-> TRUE, success |-> success, dry |-> dry, items |-> items]
(* The Windows Update Agent finds updates, or none; a failure reads as none. *)
Wua == [Raw EXCEPT !.first = "wua"]
Found == IF Os = "windows" THEN {{}, {Wua}} ELSE {{}}

Silent == [ran |-> FALSE, ok |-> FALSE, lines |-> {}]

Init ==
  /\ machine \in Machines
  /\ at \in {"validate only", "detect"} /\ stage = "check"
  /\ IF at = "detect" THEN request = [command |-> <<>>, os |-> Os, pm |-> Pm] ELSE request \in Asked
  /\ outcome = "pending" /\ log = <<>> /\ launched = <<>>
  /\ checked = Pending /\ listed = Pending /\ output = Silent /\ blockers = "none"

ValidateOnly ==
  /\ at = "validate only" /\ validate_command
  /\ at' = "over"
  /\ UNCHANGED <<machine, stage, launched, result>>

(* get_updater raises for a system that has none.                            *)
Detect ==
  /\ at = "detect"
  /\ at' = IF Os = "unknown" THEN "over" ELSE "look"
  /\ UNCHANGED <<call, machine, stage, launched, result>>

Ask ==
  /\ request' = [command |-> ListCommand[Tool], os |-> Os, pm |-> Pm]
  /\ outcome' = "pending" /\ UNCHANGED log

\* Mutated form: the result of the check is taken for the list.
ConcludeListed(r) == listed' = r /\ at' = "answer" /\ UNCHANGED <<checked, stage>>

Conclude(r) ==
  IF stage = "check"
  THEN checked' = r /\ stage' = "list" /\ at' = "look" /\ UNCHANGED listed
  ELSE listed' = r /\ at' = "answer" /\ UNCHANGED <<checked, stage>>

LookLinux ==
  /\ at = "look" /\ Os = "linux"
  /\ \/ /\ Pm = "unknown"
        /\ Conclude(Result(FALSE, machine.dry, {})) /\ UNCHANGED call
     \/ /\ Pm # "unknown"
        /\ Ask /\ at' = "ask" /\ UNCHANGED <<stage, checked, listed>>
  /\ UNCHANGED <<machine, launched, output, blockers>>

(* Only check asks whether softwareupdate is there.                          *)
LookMac ==
  /\ at = "look" /\ Os = "macos"
  /\ \/ /\ stage = "check"
        /\ Conclude(Result(FALSE, machine.dry, {})) /\ UNCHANGED call
     \/ Ask /\ at' = "ask" /\ UNCHANGED <<stage, checked, listed>>
  /\ UNCHANGED <<machine, launched, output, blockers>>

CheckWindows ==
  /\ at = "look" /\ Os = "windows" /\ stage = "check"
  /\ \E winget \in BOOLEAN : \E found \in Found :
        Conclude(Result(winget \/ found # {}, machine.dry, {}))
  /\ UNCHANGED <<call, machine, launched, output, blockers>>

\* winget is looked for again.
ListWindows ==
  /\ at = "look" /\ Os = "windows" /\ stage = "list"
  /\ \/ Ask /\ at' = "ask" /\ UNCHANGED <<stage, checked, listed>>
     \/ /\ \E found \in Found : Conclude(Result(TRUE, machine.dry, found))
        /\ UNCHANGED call
  /\ UNCHANGED <<machine, launched, output, blockers>>

(* Updater._validate: a rejection ends the step, on Windows without a word.  *)
UpdaterValidates ==
  /\ at = "ask" /\ validate_command
  /\ IF outcome' = "approved"
     THEN at' = "run" /\ UNCHANGED <<stage, checked, listed>>
     ELSE \E found \in Found : Conclude(Result(Os = "windows", machine.dry, found))
  /\ UNCHANGED <<machine, launched, output, blockers>>

(* CommandRunner.run validates for itself: the same command for the same     *)
(* system, so that it never decides otherwise (CommandRunner has the rest).  *)
RunnerStarts ==
  /\ at = "run" /\ Ask /\ at' = "decide"
  /\ UNCHANGED <<machine, stage, launched, result>>

RunnerValidates ==
  /\ at = "decide" /\ outcome = "pending" /\ validate_command
  /\ UNCHANGED <<machine, at, stage, launched, result>>

Write(entry) == log' = Append(log, entry) /\ UNCHANGED <<request, outcome>>

\* Mutated form: the dry-run flag is not looked at.
LaunchAlways ==
  /\ at = "decide" /\ outcome = "approved"
  /\ Write("command_execute") /\ launched' = Append(launched, request.command)
  /\ at' = "launched"
  /\ UNCHANGED <<machine, stage, result>>

Launch ==
  /\ at = "decide" /\ outcome = "approved" /\ ~machine.dry
  /\ Write("command_execute") /\ launched' = Append(launched, request.command)
  /\ at' = "launched"
  /\ UNCHANGED <<machine, stage, result>>

\* Mutated form: what was printed is listed whatever the exit code, without errors.
ListedWhateverTheExit(ok, lines) == {Result(TRUE, FALSE, Parse(lines))}

\* What list_updates makes of a run; winget's failure is forgiven when the agent lists.
Listed(ok, lines) ==
  IF Os = "windows"
  THEN { Result(ok \/ found # {}, FALSE, found \union (IF ok THEN Parse(lines) ELSE {})) :
           found \in Found }
  ELSE { Result(ok, FALSE, Parse(lines)) }

Finish(ok, lines) ==
  \/ stage = "check" /\ Conclude(Result(ok, FALSE, {})) /\ UNCHANGED output
  \/ /\ stage = "list" /\ \E r \in Listed(ok, lines) : Conclude(r)
     /\ output' = [ran |-> TRUE, ok |-> ok, lines |-> lines]

DryRun ==
  /\ at = "decide" /\ outcome = "approved" /\ machine.dry
  /\ Write("command_dry_run")
  /\ \E found \in Found :
        Conclude(Result(TRUE, TRUE, IF stage = "list" THEN {Raw} \union found ELSE {}))
  /\ UNCHANGED <<machine, launched, output, blockers>>

Completes ==
  /\ at = "launched" /\ Write("command_complete")
  /\ \E ok \in BOOLEAN, lines \in SUBSET Lines[Tool] : Finish(ok, lines)
  /\ UNCHANGED <<machine, launched, blockers>>

(* Timed out, or no such program: nothing it printed is kept.                *)
RunFails ==
  /\ at = "launched" /\ (Write("command_timeout") \/ Write("command_failed"))
  /\ Finish(FALSE, {})
  /\ UNCHANGED <<machine, launched, blockers>>

(* get_apply_blockers looks for Cursor among the items when there are any.   *)
Answer ==
  /\ at = "answer" /\ at' = "over"
  /\ blockers' = CASE Os # "windows" -> "none"
                   [] Os = "windows" /\ listed.items = {} -> "nothing listed"
                   [] Os = "windows" /\ \E l \in listed.items : "Cursor" \in l.has -> "listed"
                   [] OTHER -> "not listed"
  /\ UNCHANGED <<call, machine, stage, launched, checked, listed, output>>

Next ==
  \/ ValidateOnly \/ Detect \/ LookLinux \/ LookMac \/ CheckWindows \/ ListWindows
  \/ UpdaterValidates \/ RunnerStarts \/ RunnerValidates
  \/ Launch \/ DryRun \/ Completes \/ RunFails \/ Answer

Spec == Init /\ [][Next]_vars

-----------------------------------------------------------------------------
(* Properties.                                                             *)

TypeOK ==
  /\ machine \in Machines
  /\ at \in {"validate only", "detect", "look", "ask", "run", "decide", "launched", "answer", "over"}
  /\ stage \in {"check", "list"} /\ outcome \in Reasons
  /\ Os \in OSTypes /\ Pm \in PackageManagers
  /\ checked.done \in BOOLEAN
  /\ listed.done => checked.done
  /\ output.ran => Len(launched) \in 1..2
  /\ blockers \in {"none", "nothing listed", "listed", "not listed"}

Executed == { i \in DOMAIN log : log[i] = "command_execute" }

(* check_updates launches nothing but the listing command of the machine's   *)
(* own tool, at most once to check and once to list, nothing in a dry-run    *)
(* and nothing on a Linux it does not know, though the validator would let   *)
(* every Linux tool pass there; and each launch is written to the audit log  *)
(* right after the two approvals of that same command.                       *)
RunsAreApprovedListings ==
  /\ launched # <<>> => ~machine.dry /\ Tool \in Tools
  /\ \A i \in DOMAIN launched : launched[i] = ListCommand[Tool]
  /\ \A i \in Executed : i > 2 /\ log[i - 1] = "source_approved" /\ log[i - 2] = "source_approved"
  /\ Len(launched) = Cardinality(Executed)
  /\ Len(launched) <= 2

(* An answer that reports success twice and lists nothing is true: the tool  *)
(* was run to list, exited with 0, and printed no update in the form of the  *)
(* tests' fixtures.  The exception is Windows without winget at the time of  *)
(* the listing: then nothing was asked, and the answer is success all the    *)
(* same.                                                                     *)
EmptyAnswerIsTrue ==
  at = "over" /\ checked.success /\ listed.success /\ listed.items = {} =>
    IF output.ran
    THEN output.ok /\ \A l \in output.lines : ~(l.update /\ l.usual)
    ELSE Os = "windows"

-----------------------------------------------------------------------------
(* The inductive invariant.                                                *)

\* From the question to the end of the command the request is the listing command of
\* the machine's tool; what it approves stands at the end of the log until the launch.
PlaceInv ==
  /\ request.os # "linux" => request.pm = "none"
  /\ at = "detect" => log = <<>>
  /\ at \in {"ask", "run", "decide", "launched"} =>
       /\ Tool \in Tools
       /\ request = [command |-> ListCommand[Tool], os |-> Os, pm |-> Pm]
  /\ at \in {"look", "ask"} /\ log # <<>> => Last(log) # "source_approved"
  /\ at = "ask" => outcome = "pending"
  /\ at = "run" => outcome = "approved"
  /\ at = "run" \/ (at = "decide" /\ outcome = "pending") =>
       log # <<>> /\ Last(log) = "source_approved"
  /\ at = "decide" /\ outcome = "approved" =>
       /\ Len(log) >= 2
       /\ log[Len(log)] = "source_approved" /\ log[Len(log) - 1] = "source_approved"

\* The outcome is that of the request, and what was approved, and nothing else, is said
\* to be.
ApprovedInv ==
  /\ request.os \in OSTypes /\ request.pm \in PackageManagers
  /\ outcome # "pending" => outcome = Reason(request.command, request.os, request.pm)
  /\ log # <<>> /\ Last(log) = "source_approved" =>
       Approves(request.command, request.os, request.pm)

Entries == {"source_approved", "source_rejected", "command_dry_run", "command_execute",
            "command_complete", "command_timeout", "command_failed"}

\* One launch for each step of the answer at most.
LaunchInv ==
  /\ log \in Seq(Entries) /\ launched \in Seq({ListCommand[tool] : tool \in Tools})
  /\ stage = "check" /\ at # "launched" => Len(launched) = 0
  /\ stage = "check" \/ at \notin {"launched", "answer", "over"} => Len(launched) <= 1
  /\ at = "launched" => Len(launched) >= 1

\* The two results are concluded in their order, the second together with the output it
\* was read from.
ResultInv ==
  /\ output.ran => listed.done
  /\ listed.done => (checked.done /\ at \in {"answer", "over"})
  /\ stage = "list" => checked.done
  /\ listed.success /\ listed.items = {} =>
       IF output.ran
       THEN output.ok /\ \A l \in output.lines : ~(l.update /\ l.usual)
       ELSE Os = "windows"

Inv ==
  /\ TypeOK /\ PlaceInv /\ ApprovedInv /\ LaunchInv /\ ResultInv
  /\ RunsAreApprovedListings
=============================================================================
