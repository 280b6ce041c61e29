-------------------------- MODULE CheckUpdates_proofs --------------------------
(***************************************************************************)
(* Proofs about CheckUpdates and the validator it goes through, for every  *)
(* command, every machine and everything its tools may print.              *)
(***************************************************************************)
EXTENDS CheckUpdates, FiniteSetTheorems, WellFoundedInduction, TLAPS

-----------------------------------------------------------------------------
(* The validator. *)

\* The outcome of validate_command is one of the reasons.
LEMMA ReasonType ==
  ASSUME NEW command, NEW os, NEW pm
  PROVE  Reason(command, os, pm) \in Reasons \ {"pending"}
BY DEF Reason, Reasons

\* What is approved is the command of a source of that system, of that package manager
\* when it is known, and with an argument of that source.
LEMMA ApprovedIsOfficial ==
  ASSUME NEW command, NEW os, NEW pm, os # "linux" => pm = "none", Approves(command, os, pm)
  PROVE  \E s \in AllSources :
           /\ s.executable = Normalized(command[1]) /\ s.os = os
           /\ pm \in DOMAIN LINUX_SOURCE_BY_PM => s.executable = pm
           /\ s.prefixes # {} /\ Len(command) > 1 => \E p \in s.prefixes : IsPrefix(p, command[2])
<1> DEFINE source == CHOOSE s \in SourcesNamed(command[1]) : TRUE
<1>1. command # <<>> /\ SourcesNamed(command[1]) # {}
  BY DEF Approves, Reason
<1>2. source \in SourcesNamed(command[1])
  BY <1>1
<1> HIDE DEF source
<1>3. source.os = os /\ source \in SourcesForOS(os, pm) /\ ArgumentAllowed(source, command)
  BY <1>1 DEF Approves, Reason, source
<1>4. source \in AllSources /\ source.executable = Normalized(command[1])
  BY <1>2 DEF SourcesNamed
<1>5. source.prefixes # {} /\ Len(command) > 1 =>
        \E p \in source.prefixes : IsPrefix(p, command[2])
  BY <1>3 DEF ArgumentAllowed
<1>6. ASSUME pm \in DOMAIN LINUX_SOURCE_BY_PM PROVE source.executable = pm
  <2>1. pm \in {"apt", "dnf", "pacman", "zypper"}
    BY <1>6 DEF LINUX_SOURCE_BY_PM
  <2>2. os = "linux"
    BY <2>1
  <2>3. SourcesForOS(os, pm) = {LINUX_SOURCE_BY_PM[pm]}
    BY <1>6, <2>2 DEF SourcesForOS
  <2>4. LINUX_SOURCE_BY_PM[pm].executable = pm
    BY <2>1 DEF LINUX_SOURCE_BY_PM, Source
  <2>5. QED BY <1>3, <2>3, <2>4
<1>7. QED BY <1>3, <1>4, <1>5, <1>6

\* What the registry says of a source, by which a command of the updaters is known.
Registers(s, r, command) ==
  /\ s \in AllSources /\ s.os = r.os /\ command # <<>> /\ command[1] = s.executable
  /\ command[2] \in s.prefixes
  /\ r.os \in OSTypes \ {"unknown"} /\ (r.os # "linux" => r.pm = "none")
  /\ r.os = "linux" =>
       r.pm \in DOMAIN LINUX_SOURCE_BY_PM /\ s = LINUX_SOURCE_BY_PM[r.pm]

\* Each command the updaters run or validate is one of a source of the registry.
LEMMA RunsRegistered ==
  ASSUME NEW r \in Runs, NEW command \in {r.command, r.validated}
  PROVE  \E s \in AllSources : Registers(s, r, command)
<1>1. ASSUME r \in LinuxRuns
      PROVE  /\ r.os = "linux" /\ r.pm \in {"apt", "dnf", "pacman", "zypper"} /\ command # <<>>
             /\ command[1] = r.pm /\ command[2] \in LINUX_SOURCE_BY_PM[r.pm].prefixes
  BY <1>1 DEF LinuxRuns, Run, LINUX_SOURCE_BY_PM, Source
<1>2. ASSUME NEW pm \in {"apt", "dnf", "pacman", "zypper"}
      PROVE  /\ LINUX_SOURCE_BY_PM[pm].executable = pm /\ LINUX_SOURCE_BY_PM[pm].os = "linux"
             /\ LINUX_SOURCE_BY_PM[pm] \in AllSources /\ pm \in DOMAIN LINUX_SOURCE_BY_PM
  BY DEF LINUX_SOURCE_BY_PM, Source, AllSources, LINUX_SOURCES
<1>3. CASE r \in LinuxRuns
  BY <1>1, <1>2, <1>3 DEF Registers, OSTypes
<1>4. CASE r \in MacRuns
  <2>1. PICK s \in MACOS_SOURCES : /\ s.os = "macos" /\ s.executable = "softwareupdate"
                                   /\ {"--list", "--install"} \subseteq s.prefixes
    BY DEF MACOS_SOURCES, Source
  <2>2. /\ r.os = "macos" /\ r.pm = "none" /\ command # <<>> /\ command[1] = "softwareupdate"
        /\ command[2] \in {"--list", "--install"}
    BY <1>4 DEF MacRuns, Run
  <2>3. QED BY <2>1, <2>2 DEF Registers, AllSources, OSTypes
<1>5. CASE r \in WindowsRuns
  <2>1. PICK s \in WINDOWS_SOURCES : s.os = "windows" /\ s.executable = "winget" /\ "upgrade" \in s.prefixes
    BY DEF WINDOWS_SOURCES, Source
  <2>2. /\ r.os = "windows" /\ r.pm = "none" /\ command # <<>> /\ command[1] = "winget"
        /\ command[2] = "upgrade"
    BY <1>5 DEF WindowsRuns, Run
  <2>3. QED BY <2>1, <2>2 DEF Registers, AllSources, OSTypes
<1>6. QED BY <1>3, <1>4, <1>5 DEF Runs

\* No two sources of the registry have the same executable.
LEMMA SourcesDiffer ==
  ASSUME NEW s \in AllSources, NEW u \in AllSources, s.executable = u.executable
  PROVE  s = u
BY DEF AllSources, WINDOWS_SOURCES, MACOS_SOURCES, LINUX_SOURCES, LINUX_SOURCE_BY_PM, Source

\* The command is approved where the updater runs it, or where no package manager of
\* the same system was detected.
LEMMA RunsApproved ==
  ASSUME NEW r \in Runs, NEW command \in {r.command, r.validated},
         NEW os \in OSTypes, NEW pm \in PackageManagers, os # "linux" => pm = "none"
  PROVE  Approves(command, os, pm) <=> os = r.os /\ (pm = r.pm \/ pm \in {"unknown", "none"})
<1>1. PICK s \in AllSources : Registers(s, r, command)
  BY RunsRegistered
<1>2. SourcesNamed(command[1]) = {s}
  <2>1. Normalized(command[1]) = s.executable
    BY <1>1, FoldedAssumption DEF Registers, Normalized
  <2>2. QED BY <2>1, SourcesDiffer DEF SourcesNamed
<1>3. (CHOOSE u \in SourcesNamed(command[1]) : TRUE) = s
  BY <1>2
<1>4. ArgumentAllowed(s, command)
  BY <1>1, PrefixAssumption DEF Registers, ArgumentAllowed
<1>5. command # <<>> /\ SourcesNamed(command[1]) # {} /\ s.os = r.os
  BY <1>1, <1>2 DEF Registers
<1>6. Approves(command, os, pm) <=> s.os = os /\ s \in SourcesForOS(os, pm)
  BY <1>3, <1>4, <1>5 DEF Approves, Reason
<1>7. ASSUME os = r.os
      PROVE  s \in SourcesForOS(os, pm) <=> pm = r.pm \/ pm \in {"unknown", "none"}
  <2>1. \A u \in AllSources : u.os = "windows" => u \in WINDOWS_SOURCES
    BY DEF AllSources, MACOS_SOURCES, LINUX_SOURCES, LINUX_SOURCE_BY_PM, Source
  <2>2. \A u \in AllSources : u.os = "macos" => u \in MACOS_SOURCES
    BY DEF AllSources, WINDOWS_SOURCES, LINUX_SOURCES, LINUX_SOURCE_BY_PM, Source
  <2>3. CASE os = "windows"
    BY <1>1, <1>7, <2>1, <2>3 DEF Registers, SourcesForOS
  <2>4. CASE os = "macos"
    BY <1>1, <1>7, <2>2, <2>4 DEF Registers, SourcesForOS
  <2>5. CASE os = "linux"
    <3>1. DOMAIN LINUX_SOURCE_BY_PM = {"apt", "dnf", "pacman", "zypper"}
      BY DEF LINUX_SOURCE_BY_PM
    <3>2. s = LINUX_SOURCE_BY_PM[r.pm] /\ r.pm \in DOMAIN LINUX_SOURCE_BY_PM
      BY <1>1, <1>7, <2>5 DEF Registers
    <3>3. CASE pm \in DOMAIN LINUX_SOURCE_BY_PM
      <4>1. SourcesForOS(os, pm) = {LINUX_SOURCE_BY_PM[pm]}
        BY <2>5, <3>3 DEF SourcesForOS
      <4>2. \A a, b \in DOMAIN LINUX_SOURCE_BY_PM :
              LINUX_SOURCE_BY_PM[a].executable = LINUX_SOURCE_BY_PM[b].executable => a = b
        BY DEF LINUX_SOURCE_BY_PM, Source
      <4>3. QED BY <3>1, <3>2, <3>3, <4>1, <4>2
    <3>4. CASE pm \notin DOMAIN LINUX_SOURCE_BY_PM
      <4>1. SourcesForOS(os, pm) = LINUX_SOURCES
        BY <2>5, <3>4 DEF SourcesForOS
      <4>2. s \in LINUX_SOURCES
        BY <3>2 DEF LINUX_SOURCES
      <4>3. QED BY <3>1, <3>4, <4>1, <4>2 DEF PackageManagers
    <3>5. QED BY <3>3, <3>4
  <2>6. QED BY <1>1, <1>7, <2>3, <2>4, <2>5 DEF Registers, OSTypes
<1>8. QED BY <1>5, <1>6, <1>7

-----------------------------------------------------------------------------
(* Detection. *)

\* The package manager a release resolves to is one of those known, or unknown.
LEMMA PackageManagerType ==
  ASSUME NEW m \in Machines
  PROVE  ResolvePackageManager(m.release) \in {"apt", "dnf", "pacman", "zypper", "unknown"}
<1> DEFINE id   == ParseOsRelease(m.release.id)
           like == ParseOsRelease(m.release.like)
           names == id \o like
           known == {i \in DOMAIN names : names[i] \in DOMAIN DistroPkgMap}
<1>1. m.release.id \in Values /\ m.release.like \in Values
  BY MachinesAssumption
<1> DEFINE Words == STRING \union {"quoted"}
<1>2. ASSUME NEW v \in Values PROVE ParseOsRelease(v) \in Seq(Words)
  <2>1. PICK w \in Seq(STRING) : w = v.words
    BY DEF Values
  <2>2. DOMAIN w = 1 .. Len(w) /\ Len(w) \in Nat /\ \A i \in 1 .. Len(w) : w[i] \in STRING
    OBVIOUS
  <2> DEFINE word(i) == IF v.quote = "single" /\ i \in {1, Len(w)} THEN "quoted" ELSE w[i]
  <2>3. ParseOsRelease(v) = [i \in 1 .. Len(w) |-> word(i)]
    BY <2>1, <2>2 DEF ParseOsRelease
  <2>4. \A i \in 1 .. Len(w) : word(i) \in Words
    BY <2>2
  <2> HIDE DEF word, Words
  <2>5. QED BY <2>2, <2>3, <2>4
<1> HIDE DEF Words
<1>3. id \in Seq(Words) /\ like \in Seq(Words)
  BY <1>1, <1>2
<1> HIDE DEF id, like
<1>4. names \in Seq(Words)
  BY <1>3
<1>5. DOMAIN names \subseteq Nat
  BY <1>4
<1> HIDE DEF names
<1>6. ASSUME known # {} PROVE Min(known) \in known
  <2>1. known \subseteq Nat
    BY <1>5
  <2> HIDE DEF known
  <2>2. \E x \in known : \A y \in known : ~(<<y, x>> \in OpToRel(<, Nat))
    BY <1>6, <2>1, NatLessThanWellFounded, WFMin
  <2>3. PICK x \in known : \A y \in known : ~(y < x)
    BY <2>1, <2>2 DEF OpToRel
  <2>4. \A y \in known : x =< y
    BY <2>1, <2>3
  <2>5. QED BY <2>4 DEF Min
<1>7. \A d \in DOMAIN DistroPkgMap : DistroPkgMap[d] \in DOMAIN Distros
  BY DEF DistroPkgMap
<1>8. DOMAIN Distros = {"apt", "dnf", "pacman", "zypper"}
  BY DEF Distros
<1>9. ResolvePackageManager(m.release) =
        IF known = {} THEN "unknown" ELSE DistroPkgMap[names[Min(known)]]
  BY DEF ResolvePackageManager, known, names, id, like
<1> HIDE DEF known
<1>10. known # {} => names[Min(known)] \in DOMAIN DistroPkgMap
  BY <1>6 DEF known
<1>11. QED BY <1>7, <1>8, <1>9, <1>10

\* The system is one of those named, and only Linux has a package manager.
LEMMA Detected ==
  ASSUME machine \in Machines
  PROVE  /\ Os \in OSTypes /\ Pm \in PackageManagers
         /\ Os # "linux" => Pm = "none"
         /\ Os = "linux" => Pm # "none"
         /\ Os # "unknown" /\ (Os = "linux" => Pm # "unknown") => Tool \in Tools
<1>1. Os \in OSTypes
  BY DEF Os, NormalizeOsName, OSTypes
<1>2. Os = "linux" => Pm \in {"apt", "dnf", "pacman", "zypper", "unknown"}
  BY PackageManagerType DEF Pm
<1>3. Os # "linux" => Pm = "none"
  BY DEF Pm
<1>4. Os = "windows" => Tool = "winget"
  BY DEF Tool
<1>5. Os = "macos" => Tool = "softwareupdate"
  BY DEF Tool
<1>6. Os = "linux" => Tool = Pm
  BY DEF Tool
<1>7. QED BY <1>1, <1>2, <1>3, <1>4, <1>5, <1>6 DEF OSTypes, PackageManagers, Tools

-----------------------------------------------------------------------------
(* What the steps have in common. *)

\* One answer is about one machine.
LEMMA MachineStays ==
  ASSUME [Next]_vars
  PROVE  machine' = machine /\ Os' = Os /\ Pm' = Pm /\ Tool' = Tool
<1>1. machine' = machine
  BY DEF Next, ValidateOnly, Detect, LookLinux, LookMac, CheckWindows, ListWindows, UpdaterValidates,
         RunnerStarts, RunnerValidates, Launch, DryRun, Completes, RunFails, Answer, vars
<1>2. QED BY <1>1 DEF Os, Pm, Tool

\* A result is a result.
LEMMA ResultFields ==
  ASSUME NEW success, NEW dry, NEW items
  PROVE  /\ Result(success, dry, items).done = TRUE
         /\ Result(success, dry, items).success = success
         /\ Result(success, dry, items).items = items
BY DEF Result

\* A look that concludes without a command: no tool, or no winget.
ConcludesUnasked ==
  /\ at = "look" /\ UNCHANGED <<call, machine, launched, output>>
  /\ \E r : /\ Conclude(r) /\ r.done = TRUE
            /\ r.success /\ r.items = {} => Os = "windows"

\* A look that goes on to ask the validator.
Asks ==
  /\ at = "look" /\ Ask /\ at' = "ask" /\ Tool \in Tools
  /\ UNCHANGED <<machine, launched, output, stage, checked, listed>>

\* A look at the machine does one or the other.
LEMMA Looks ==
  ASSUME machine \in Machines, LookLinux \/ LookMac \/ CheckWindows \/ ListWindows
  PROVE  ConcludesUnasked \/ Asks
<1>1. CASE LookLinux
  <2>1. CASE Pm = "unknown"
    <3>1. Conclude(Result(FALSE, machine.dry, {})) /\ UNCHANGED call
      BY <1>1, <2>1 DEF LookLinux
    <3>2. at = "look" /\ UNCHANGED <<machine, launched, output>>
      BY <1>1 DEF LookLinux
    <3>3. QED BY <3>1, <3>2, ResultFields DEF ConcludesUnasked
  <2>2. CASE Pm # "unknown"
    BY <1>1, <2>2, Detected DEF LookLinux, Asks
  <2>3. QED BY <2>1, <2>2
<1>2. CASE LookMac
  <2>1. at = "look" /\ Os = "macos" /\ UNCHANGED <<machine, launched, output>>
    BY <1>2 DEF LookMac
  <2>2. CASE Conclude(Result(FALSE, machine.dry, {})) /\ UNCHANGED call
    BY <2>1, <2>2, ResultFields DEF ConcludesUnasked
  <2>3. CASE Ask /\ at' = "ask" /\ UNCHANGED <<stage, checked, listed>>
    BY <2>1, <2>3, Detected DEF Asks
  <2>4. QED BY <1>2, <2>2, <2>3 DEF LookMac
<1>3. CASE CheckWindows
  <2>1. at = "look" /\ Os = "windows" /\ UNCHANGED <<call, machine, launched, output>>
    BY <1>3 DEF CheckWindows
  <2>2. PICK r : Conclude(r) /\ r.done = TRUE
    BY <1>3, ResultFields DEF CheckWindows
  <2>3. QED BY <2>1, <2>2 DEF ConcludesUnasked
<1>4. CASE ListWindows
  <2>1. at = "look" /\ Os = "windows" /\ UNCHANGED <<machine, launched, output>>
    BY <1>4 DEF ListWindows
  <2>2. CASE Ask /\ at' = "ask" /\ UNCHANGED <<stage, checked, listed>>
    BY <2>1, <2>2, Detected DEF Asks
  <2>3. CASE UNCHANGED call /\ \E found \in Found : Conclude(Result(TRUE, machine.dry, found))
    <3>1. PICK r : Conclude(r) /\ r.done = TRUE
      BY <2>3, ResultFields
    <3>2. QED BY <2>1, <2>3, <3>1 DEF ConcludesUnasked
  <2>4. QED BY <1>4, <2>2, <2>3 DEF ListWindows
<1>5. QED BY <1>1, <1>2, <1>3, <1>4

\* The validator's answer is in its outcome and at the end of the log.
LEMMA Validated ==
  ASSUME validate_command, log \in Seq(Entries)
  PROVE  /\ outcome = "pending" /\ request' = request
         /\ outcome' = Reason(request.command, request.os, request.pm)
         /\ outcome' \in Reasons \ {"pending"}
         /\ log' \in Seq(Entries) /\ Len(log') = Len(log) + 1 /\ log' # <<>>
         /\ \A i \in 1 .. Len(log) : log'[i] = log[i]
         /\ Last(log') = IF outcome' = "approved" THEN "source_approved" ELSE "source_rejected"
<1> DEFINE entry == IF outcome' = "approved" THEN "source_approved" ELSE "source_rejected"
<1>1. entry \in Entries
  BY DEF Entries
<1>2. log' = Append(log, entry)
  BY DEF validate_command
<1>3. /\ outcome = "pending" /\ request' = request
      /\ outcome' = Reason(request.command, request.os, request.pm)
  BY DEF validate_command
<1>4. outcome' \in Reasons \ {"pending"}
  BY <1>3, ReasonType
<1> HIDE DEF entry
<1>5. /\ log' \in Seq(Entries) /\ Len(log') = Len(log) + 1 /\ log' # <<>>
      /\ \A i \in 1 .. Len(log) : log'[i] = log[i]
      /\ log'[Len(log')] = entry
  BY <1>1, <1>2
<1>6. QED BY <1>3, <1>4, <1>5 DEF Last, entry

\* An entry of the runner's goes to the end of the log.
LEMMA Written ==
  ASSUME NEW entry \in Entries, Write(entry), log \in Seq(Entries)
  PROVE  /\ request' = request /\ outcome' = outcome
         /\ log' \in Seq(Entries) /\ Len(log') = Len(log) + 1 /\ log' # <<>>
         /\ \A i \in 1 .. Len(log) : log'[i] = log[i]
         /\ log'[Len(log) + 1] = entry /\ Last(log') = entry
<1>1. log' = Append(log, entry)
  BY DEF Write
<1>2. /\ log' \in Seq(Entries) /\ Len(log') = Len(log) + 1 /\ log' # <<>>
      /\ \A i \in 1 .. Len(log) : log'[i] = log[i]
      /\ log'[Len(log) + 1] = entry
  BY <1>1
<1>3. QED BY <1>2 DEF Write, Last

\* A step concluded is followed by the next one, or by the answer.
LEMMA Concluded ==
  ASSUME NEW r, Conclude(r)
  PROVE  \/ /\ stage = "check" /\ stage' = "list" /\ at' = "look"
            /\ checked' = r /\ listed' = listed
         \/ /\ stage # "check" /\ stage' = stage /\ at' = "answer"
            /\ checked' = checked /\ listed' = r
BY DEF Conclude

-----------------------------------------------------------------------------
(* The parsers. *)

\* An update printed as in the fixtures is an item of its tool's parser.
LEMMA UsualListed ==
  ASSUME Tool \in Tools, NEW lines \in SUBSET Lines[Tool], Parse(lines) = {},
         NEW l \in lines, l.update, l.usual
  PROVE  FALSE
<1>1. FixtureRow(Tool, l)
  BY UsualAssumption
<1>2. CASE Tool = "winget"
  <2>1. l.starts = "" /\ l.columns = 5 /\ "Name" \notin l.has
        /\ l.first \notin {"name", "available upgrades"}
    BY <1>1, <1>2 DEF FixtureRow
  <2>2. l.columns >= 2
    <3>1. 5 >= 2
      OBVIOUS
    <3>2. QED BY <2>1, <3>1, Zenon
  <2>3. l \in parse_winget_upgrade(lines)
    BY <2>1, <2>2 DEF parse_winget_upgrade
  <2>4. QED BY <1>2, <2>3 DEF Parse
<1>3. CASE Tool = "softwareupdate"
  <2>1. l.starts = "*"
    BY <1>1, <1>3 DEF FixtureRow
  <2>2. parse_softwareupdate_list(lines) # {}
    BY <2>1 DEF parse_softwareupdate_list
  <2>3. QED BY <1>3, <2>2 DEF Parse
<1>4. CASE Tool = "apt"
  <2>1. "upgradable" \in l.has /\ l.first \notin {"", "Listing"}
    BY <1>1, <1>4 DEF FixtureRow
  <2>2. l \in parse_apt_upgradable(lines)
    BY <2>1 DEF parse_apt_upgradable
  <2>3. QED BY <1>4, <2>2 DEF Parse
<1>5. CASE Tool = "dnf"
  <2>1. l.starts = "" /\ l.columns = 3
    BY <1>1, <1>5 DEF FixtureRow
  <2>2. l.columns >= 2
    <3>1. 3 >= 2
      OBVIOUS
    <3>2. QED BY <2>1, <3>1, Zenon
  <2>3. l \in parse_dnf_check_update(lines)
    BY <2>1, <2>2 DEF parse_dnf_check_update
  <2>4. QED BY <1>5, <2>3 DEF Parse
<1>6. CASE Tool = "pacman"
  <2>1. l.columns = 2
    BY <1>1, <1>6 DEF FixtureRow
  <2>2. l \in parse_pacman_qu(lines)
    BY <2>1 DEF parse_pacman_qu
  <2>3. QED BY <1>6, <2>2 DEF Parse
<1>7. CASE Tool = "zypper"
  <2>1. l.starts = "" /\ l.columns = 6 /\ l.first = "number" /\ l.has = {"|"}
    BY <1>1, <1>7 DEF FixtureRow
  <2>2. l.columns >= 3
    <3>1. 6 >= 3
      OBVIOUS
    <3>2. QED BY <2>1, <3>1, Zenon
  <2>3. l \in parse_zypper_list_updates(lines)
    BY <2>1, <2>2 DEF parse_zypper_list_updates
  <2>4. QED BY <1>7, <2>3 DEF Parse
<1>8. QED BY <1>2, <1>3, <1>4, <1>5, <1>6, <1>7 DEF Tools

-----------------------------------------------------------------------------
(* The steps by what they do. *)

\* A step of the handler that only goes on, or gives the answer.
Waits ==
  /\ at \in {"detect", "answer"} /\ at' \in {"look", "over"}
  /\ at = "answer" => at' = "over"
  /\ UNCHANGED <<call, launched, output, stage, checked, listed>>

Accepted ==
  /\ at = "ask" /\ validate_command /\ outcome' = "approved" /\ at' = "run"
  /\ UNCHANGED <<launched, output, stage, checked, listed>>

Rejected ==
  /\ at = "ask" /\ validate_command /\ outcome' # "approved" /\ UNCHANGED <<launched, output>>
  /\ \E r : /\ Conclude(r) /\ r.done = TRUE
            /\ r.success /\ r.items = {} => Os = "windows"

\* A dry-run lists the command it did not launch.
Skips ==
  /\ at = "decide" /\ outcome = "approved" /\ Write("command_dry_run")
  /\ UNCHANGED <<launched, output>>
  /\ \E r : /\ Conclude(r) /\ r.done = TRUE
            /\ r.success /\ r.items = {} => stage = "check"

\* The launched command ends.
Ends ==
  /\ at = "launched" /\ launched' = launched
  /\ \E entry \in {"command_complete", "command_timeout", "command_failed"} : Write(entry)
  /\ \E r : /\ Conclude(r) /\ r.done = TRUE
            /\ \/ stage = "check" /\ output' = output
               \/ /\ stage = "list" /\ output'.ran = TRUE
                  /\ r.success /\ r.items = {} =>
                       output'.ok /\ \A l \in output'.lines : ~(l.update /\ l.usual)

\* What a run that listed makes of an empty list.
LEMMA FinishEnds ==
  ASSUME Tool \in Tools, NEW ok \in BOOLEAN, NEW lines \in SUBSET Lines[Tool], Finish(ok, lines)
  PROVE  \E r : /\ Conclude(r) /\ r.done = TRUE
                /\ \/ stage = "check" /\ output' = output
                   \/ /\ stage = "list" /\ output'.ran = TRUE
                      /\ r.success /\ r.items = {} =>
                           output'.ok /\ \A l \in output'.lines : ~(l.update /\ l.usual)
<1>1. CASE stage = "check" /\ Conclude(Result(ok, FALSE, {})) /\ UNCHANGED output
  BY <1>1, ResultFields
<1>2. CASE /\ stage = "list" /\ \E r \in Listed(ok, lines) : Conclude(r)
           /\ output' = [ran |-> TRUE, ok |-> ok, lines |-> lines]
  <2>1. PICK r \in Listed(ok, lines) : Conclude(r)
    BY <1>2
  <2>2. output'.ran = TRUE /\ output'.ok = ok /\ output'.lines = lines
    BY <1>2
  <2>3. r.done = TRUE /\ (r.success /\ r.items = {} => ok /\ Parse(lines) = {})
    <3>1. CASE Os = "windows"
      <4>1. PICK found \in Found :
              r = Result(ok \/ found # {}, FALSE, found \union (IF ok THEN Parse(lines) ELSE {}))
        BY <2>1, <3>1 DEF Listed
      <4>2. /\ r.done = TRUE /\ r.success = (ok \/ found # {})
            /\ r.items = found \union (IF ok THEN Parse(lines) ELSE {})
        BY <4>1 DEF Result
      <4>3. QED BY <4>2
    <3>2. CASE Os # "windows"
      <4>1. r = Result(ok, FALSE, Parse(lines))
        BY <2>1, <3>2 DEF Listed
      <4>2. QED BY <4>1 DEF Result
    <3>3. QED BY <3>1, <3>2
  <2>4. Parse(lines) = {} => \A l \in lines : ~(l.update /\ l.usual)
    BY UsualListed
  <2>5. QED BY <1>2, <2>1, <2>2, <2>3, <2>4
<1>3. QED BY <1>1, <1>2 DEF Finish

\* Every step is one of these.
LEMMA Moves ==
  ASSUME TypeOK, PlaceInv, [Next]_vars
  PROVE  \/ ValidateOnly \/ Waits \/ ConcludesUnasked \/ Asks \/ Accepted \/ Rejected
         \/ RunnerStarts \/ RunnerValidates \/ Launch \/ Skips \/ Ends
         \/ UNCHANGED vars
<1>1. machine \in Machines
  BY DEF TypeOK
<1>2. CASE Detect \/ Answer
  BY <1>2 DEF Detect, Answer, Waits, call, result
<1>3. CASE LookLinux \/ LookMac \/ CheckWindows \/ ListWindows
  BY <1>1, <1>3, Looks
<1>4. CASE UpdaterValidates
  <2>1. at = "ask" /\ validate_command /\ UNCHANGED <<launched, output>>
    BY <1>4 DEF UpdaterValidates
  <2>2. CASE outcome' = "approved"
    BY <1>4, <2>1, <2>2 DEF UpdaterValidates, Accepted
  <2>3. CASE outcome' # "approved"
    <3>1. \E found \in Found : Conclude(Result(Os = "windows", machine.dry, found))
      BY <1>4, <2>3 DEF UpdaterValidates
    <3>2. PICK r : Conclude(r) /\ r.done = TRUE /\ r.success = (Os = "windows")
      BY <3>1 DEF Result
    <3>3. QED BY <2>1, <2>3, <3>2 DEF Rejected
  <2>4. QED BY <2>2, <2>3
<1>5. CASE DryRun
  <2>1. /\ at = "decide" /\ outcome = "approved" /\ Write("command_dry_run")
        /\ UNCHANGED <<launched, output>>
    BY <1>5 DEF DryRun
  <2>2. PICK found \in Found :
          Conclude(Result(TRUE, TRUE, IF stage = "list" THEN {Raw} \union found ELSE {}))
    BY <1>5 DEF DryRun
  <2>3. PICK r : /\ Conclude(r) /\ r.done = TRUE
                 /\ r.items = IF stage = "list" THEN {Raw} \union found ELSE {}
    BY <2>2 DEF Result
  <2>4. r.items = {} => stage # "list"
    BY <2>3
  <2>5. QED BY <2>1, <2>3, <2>4 DEF Skips, TypeOK
<1>6. CASE Completes \/ RunFails
  <2>1. at = "launched" /\ launched' = launched /\ Tool \in Tools
    BY <1>6 DEF Completes, RunFails, PlaceInv
  <2>2. \E entry \in {"command_complete", "command_timeout", "command_failed"} : Write(entry)
    BY <1>6 DEF Completes, RunFails
  <2>3. PICK ok \in BOOLEAN, lines \in SUBSET Lines[Tool] : Finish(ok, lines)
    BY <1>6 DEF Completes, RunFails
  <2>4. QED BY <2>1, <2>2, <2>3, FinishEnds DEF Ends
<1>7. QED BY <1>2, <1>3, <1>4, <1>5, <1>6 DEF Next

-----------------------------------------------------------------------------
(* The invariant, part by part. *)

\* Every step keeps the types.
LEMMA TypeStep == Inv /\ [Next]_vars => TypeOK'
<1> SUFFICES ASSUME Inv, [Next]_vars PROVE TypeOK'
  OBVIOUS
<1> USE DEF call
<1>1. TypeOK /\ PlaceInv /\ LaunchInv /\ ResultInv /\ RunsAreApprovedListings
  BY DEF Inv
<1>2. machine' \in Machines /\ Os' \in OSTypes /\ Pm' \in PackageManagers
  BY <1>1, MachineStays, Detected DEF TypeOK
<1>3. blockers' \in {"none", "nothing listed", "listed", "not listed"}
  <2>1. CASE Answer
    BY <2>1 DEF Answer
  <2>2. CASE ~Answer
    BY <1>1, <2>2 DEF Next, ValidateOnly, Detect, LookLinux, LookMac, CheckWindows, ListWindows,
       UpdaterValidates, RunnerStarts, RunnerValidates, Launch, DryRun, Completes, RunFails, vars,
       result, TypeOK
  <2>3. QED BY <2>1, <2>2
<1> DEFINE Rest ==
      /\ at' \in {"validate only", "detect", "look", "ask", "run", "decide", "launched", "answer", "over"}
      /\ stage' \in {"check", "list"} /\ outcome' \in Reasons
      /\ checked'.done \in BOOLEAN /\ (listed'.done => checked'.done)
      /\ (output'.ran => Len(launched') \in 1..2)
<1>4. /\ at \in {"validate only", "detect", "look", "ask", "run", "decide", "launched", "answer", "over"}
      /\ stage \in {"check", "list"} /\ outcome \in Reasons
      /\ checked.done \in BOOLEAN /\ (listed.done => checked.done)
      /\ (output.ran => Len(launched) \in 1..2)
  BY <1>1 DEF TypeOK
<1>5. stage = "list" => checked.done
  BY <1>1 DEF ResultInv
<1>6. CASE Waits \/ Asks \/ RunnerStarts \/ UNCHANGED vars
  <2>1. "pending" \in Reasons
    BY DEF Reasons
  <2>2. Rest
    BY <1>4, <1>6, <2>1 DEF Waits, Asks, Ask, RunnerStarts, vars, result
  <2>3. QED BY <1>2, <1>3, <2>2 DEF TypeOK
<1>7. CASE ValidateOnly \/ Accepted \/ RunnerValidates
  <2>1. outcome' \in Reasons
    BY <1>1, <1>7, Validated DEF ValidateOnly, Accepted, RunnerValidates, LaunchInv
  <2>2. Rest
    BY <1>4, <1>7, <2>1 DEF ValidateOnly, Accepted, RunnerValidates, result
  <2>3. QED BY <1>2, <1>3, <2>2 DEF TypeOK
<1>8. CASE ConcludesUnasked \/ Rejected \/ Skips \/ Ends
  <2>1. PICK r : Conclude(r) /\ r.done = TRUE
    BY <1>8 DEF ConcludesUnasked, Rejected, Skips, Ends
  <2>2. outcome' \in Reasons
    <3>1. CASE Rejected
      BY <1>1, <3>1, Validated DEF Rejected, LaunchInv
    <3>2. CASE ConcludesUnasked \/ Skips \/ Ends
      BY <1>4, <3>2 DEF ConcludesUnasked, Skips, Ends, Write
    <3>3. QED BY <1>8, <3>1, <3>2
  <2>3. launched' = launched
    BY <1>8 DEF ConcludesUnasked, Rejected, Skips, Ends
  <2>4. output'.ran => Len(launched') \in 1..2
    <3>1. CASE output' = output
      BY <1>4, <2>3, <3>1
    <3>2. CASE Ends
      <4>1. launched \in Seq({ListCommand[tool] : tool \in Tools})
        BY <1>1 DEF LaunchInv
      <4>2. PICK n \in Nat : n = Len(launched)
        BY <4>1
      <4>3. n >= 1
        BY <1>1, <3>2, <4>2 DEF Ends, LaunchInv
      <4>4. n <= 2
        BY <1>1, <4>2 DEF RunsAreApprovedListings
      <4>5. n \in 1..2
        BY <4>3, <4>4
      <4>6. QED BY <2>3, <4>2, <4>5
    <3>3. QED BY <1>8, <3>1, <3>2 DEF ConcludesUnasked, Rejected, Skips
  <2>5. Rest
    BY <1>4, <1>5, <2>1, <2>2, <2>4, Concluded
  <2>6. QED BY <1>2, <1>3, <2>5 DEF TypeOK
<1>9. CASE Launch
  <2>1. at' = "launched" /\ outcome' = outcome /\ UNCHANGED <<stage, checked, listed, output>>
    BY <1>9 DEF Launch, Write, result
  <2>2. ~output.ran
    BY <1>1, <1>9 DEF Launch, ResultInv
  <2>3. Rest
    BY <1>4, <2>1, <2>2
  <2>4. QED BY <1>2, <1>3, <2>3 DEF TypeOK
<1>10. QED BY <1>1, <1>6, <1>7, <1>8, <1>9, Moves

\* Every step keeps the request, and what its place in the handler says of the log.
LEMMA PlaceStep == Inv /\ [Next]_vars => PlaceInv'
<1> SUFFICES ASSUME Inv, [Next]_vars PROVE PlaceInv'
  OBVIOUS
<1> USE DEF call
<1>1. TypeOK /\ PlaceInv /\ log \in Seq(Entries) /\ Len(log) \in Nat
  BY DEF Inv, LaunchInv
<1>2. Os' = Os /\ Pm' = Pm /\ Tool' = Tool /\ (Os # "linux" => Pm = "none")
  BY <1>1, MachineStays, Detected DEF TypeOK
<1>3. CASE Waits \/ UNCHANGED vars
  BY <1>1, <1>2, <1>3 DEF Waits, vars, PlaceInv
<1>4. CASE Asks
  BY <1>1, <1>2, <1>4 DEF Asks, Ask, PlaceInv
<1>5. CASE ValidateOnly
  BY <1>1, <1>5, Validated DEF ValidateOnly, PlaceInv
<1>6. CASE ConcludesUnasked
  <2>1. at = "look" /\ UNCHANGED call /\ at' \in {"look", "answer"}
    BY <1>6, Concluded DEF ConcludesUnasked
  <2>2. QED BY <1>1, <2>1 DEF PlaceInv
<1>7. CASE Accepted
  BY <1>1, <1>2, <1>7, Validated DEF Accepted, PlaceInv
<1>8. CASE Rejected
  <2>1. at' \in {"look", "answer"} /\ request' = request /\ Last(log') # "source_approved"
    BY <1>1, <1>8, Concluded, Validated DEF Rejected
  <2>2. QED BY <1>1, <2>1 DEF PlaceInv
<1>9. CASE RunnerStarts
  BY <1>1, <1>2, <1>9 DEF RunnerStarts, Ask, PlaceInv
<1>10. CASE RunnerValidates
  <2>1. /\ at = "decide" /\ at' = at /\ outcome = "pending" /\ request' = request
        /\ outcome' # "pending" /\ Len(log') = Len(log) + 1
        /\ \A i \in 1 .. Len(log) : log'[i] = log[i]
        /\ Last(log') = IF outcome' = "approved" THEN "source_approved" ELSE "source_rejected"
    BY <1>1, <1>10, Validated DEF RunnerValidates
  <2>2. log # <<>> /\ Last(log) = "source_approved"
    BY <1>1, <2>1 DEF PlaceInv
  <2>3. Len(log) >= 1 /\ log[Len(log)] = "source_approved"
    BY <1>1, <2>2 DEF Last
  <2>4. Len(log') >= 2 /\ log'[Len(log') - 1] = "source_approved"
    BY <1>1, <2>1, <2>3
  <2>5. log'[Len(log')] = Last(log')
    BY DEF Last
  <2>6. QED BY <1>1, <1>2, <2>1, <2>4, <2>5 DEF PlaceInv
<1>11. CASE Launch
  BY <1>1, <1>2, <1>11 DEF Launch, Write, PlaceInv
<1>12. CASE Skips \/ Ends
  <2>1. PICK entry \in {"command_dry_run", "command_complete", "command_timeout", "command_failed"} :
          Write(entry)
    BY <1>12 DEF Skips, Ends
  <2>2. entry \in Entries
    BY DEF Entries
  <2>3. at' \in {"look", "answer"} /\ request' = request /\ Last(log') # "source_approved"
    BY <1>1, <1>12, <2>1, <2>2, Concluded, Written DEF Skips, Ends
  <2>4. QED BY <1>1, <2>3 DEF PlaceInv
<1>13. QED
  BY <1>1, <1>3, <1>4, <1>5, <1>6, <1>7, <1>8, <1>9, <1>10, <1>11, <1>12, Moves

\* Every step keeps to what was approved.
LEMMA ApprovedStep == Inv /\ [Next]_vars => ApprovedInv'
<1> SUFFICES ASSUME Inv, [Next]_vars PROVE ApprovedInv'
  OBVIOUS
<1> USE DEF call
<1>1. TypeOK /\ PlaceInv /\ ApprovedInv /\ log \in Seq(Entries)
  BY DEF Inv, LaunchInv
<1>2. CASE Waits \/ ConcludesUnasked \/ UNCHANGED vars
  BY <1>1, <1>2 DEF Waits, ConcludesUnasked, vars, ApprovedInv
<1>3. CASE Asks
  <2>1. /\ request' = [command |-> ListCommand[Tool], os |-> Os, pm |-> Pm]
        /\ outcome' = "pending" /\ log' = log /\ at = "look"
    BY <1>3 DEF Asks, Ask
  <2>2. Os \in OSTypes /\ Pm \in PackageManagers
    BY <1>1 DEF TypeOK
  <2>3. request'.os \in OSTypes /\ request'.pm \in PackageManagers
    BY <2>1, <2>2
  <2>4. ~(log' # <<>> /\ Last(log') = "source_approved")
    BY <1>1, <2>1 DEF PlaceInv
  <2>5. QED BY <2>1, <2>3, <2>4 DEF ApprovedInv
<1>4. CASE ValidateOnly \/ Accepted \/ Rejected \/ RunnerValidates
  <2>1. validate_command
    BY <1>4 DEF ValidateOnly, Accepted, Rejected, RunnerValidates
  <2>2. QED BY <1>1, <2>1, Validated DEF ApprovedInv, Approves
<1>5. CASE RunnerStarts
  <2>1. request' = request /\ log' = log /\ outcome' = "pending"
    BY <1>1, <1>5 DEF RunnerStarts, Ask, PlaceInv
  <2>2. QED BY <1>1, <2>1 DEF ApprovedInv
<1>6. CASE Launch \/ Skips \/ Ends
  <2>1. PICK entry \in Entries \ {"source_approved", "source_rejected"} : Write(entry)
    BY <1>6 DEF Launch, Skips, Ends, Entries
  <2>2. request' = request /\ outcome' = outcome /\ Last(log') # "source_approved"
    BY <1>1, <2>1, Written
  <2>3. QED BY <1>1, <2>2 DEF ApprovedInv
<1>7. QED BY <1>1, <1>2, <1>3, <1>4, <1>5, <1>6, Moves

\* An entry that is no launch leaves the launches where they are.
LEMMA NoLaunch ==
  ASSUME log \in Seq(Entries), log' \in Seq(Entries), Len(log') = Len(log) + 1,
         \A i \in 1 .. Len(log) : log'[i] = log[i], Last(log') # "command_execute"
  PROVE  Executed' = Executed
<1>1. Len(log) \in Nat /\ DOMAIN log = 1 .. Len(log) /\ DOMAIN log' = 1 .. Len(log) + 1
  OBVIOUS
<1>2. \A i : i \in 1 .. Len(log) + 1 <=> i \in 1 .. Len(log) \/ i = Len(log) + 1
  BY <1>1
<1>3. log'[Len(log) + 1] # "command_execute"
  BY DEF Last
<1>4. Executed' = {i \in DOMAIN log' : log'[i] = "command_execute"}
  BY DEF Executed
<1>5. QED BY <1>1, <1>2, <1>3, <1>4 DEF Executed

\* The launches of the log, each after the two approvals.
ApprovedBefore ==
  /\ \A i \in Executed : i > 2 /\ log[i - 1] = "source_approved" /\ log[i - 2] = "source_approved"
  /\ Len(launched) = Cardinality(Executed)

\* The entries before a launch stay where they are.
LEMMA ApprovalsStay ==
  ASSUME log \in Seq(Entries), \A i \in 1 .. Len(log) : log'[i] = log[i], NEW i \in Executed,
         i > 2 /\ log[i - 1] = "source_approved" /\ log[i - 2] = "source_approved"
  PROVE  i > 2 /\ log'[i - 1] = "source_approved" /\ log'[i - 2] = "source_approved"
<1>1. Len(log) \in Nat /\ i \in 1 .. Len(log)
  BY DEF Executed
<1>2. i - 1 \in 1 .. Len(log) /\ i - 2 \in 1 .. Len(log)
  BY <1>1
<1>3. QED BY <1>2

\* Every step keeps the launches after their approvals.
LEMMA ApprovalStep == Inv /\ [Next]_vars => ApprovedBefore'
<1> SUFFICES ASSUME Inv, [Next]_vars PROVE ApprovedBefore'
  OBVIOUS
<1> USE DEF call
<1>1. /\ TypeOK /\ PlaceInv /\ log \in Seq(Entries) /\ Len(log) \in Nat /\ ApprovedBefore
      /\ DOMAIN log = 1 .. Len(log)
  BY DEF Inv, LaunchInv, RunsAreApprovedListings, ApprovedBefore
<1>2. CASE Waits \/ ConcludesUnasked \/ Asks \/ RunnerStarts \/ UNCHANGED vars
  <2>1. log' = log /\ launched' = launched
    BY <1>2 DEF Waits, ConcludesUnasked, Asks, Ask, RunnerStarts, vars
  <2>2. QED BY <1>1, <2>1 DEF ApprovedBefore, Executed
<1>3. CASE \/ ValidateOnly \/ Accepted \/ Rejected \/ RunnerValidates \/ Skips \/ Ends
  <2>1. launched' = launched
    BY <1>3 DEF ValidateOnly, Accepted, Rejected, RunnerValidates, Skips, Ends
  <2>2. /\ log' \in Seq(Entries) /\ Len(log') = Len(log) + 1 /\ Last(log') # "command_execute"
        /\ \A i \in 1 .. Len(log) : log'[i] = log[i]
    <3>1. CASE validate_command
      BY <1>1, <3>1, Validated
    <3>2. CASE Skips \/ Ends
      <4>1. PICK entry \in Entries \ {"command_execute"} : Write(entry)
        BY <3>2 DEF Skips, Ends, Entries
      <4>2. QED BY <1>1, <4>1, Written
    <3>3. QED BY <1>3, <3>1, <3>2 DEF ValidateOnly, Accepted, Rejected, RunnerValidates
  <2>3. Executed' = Executed
    BY <1>1, <2>2, NoLaunch
  <2>4. \A i \in Executed :
          i > 2 /\ log'[i - 1] = "source_approved" /\ log'[i - 2] = "source_approved"
    BY <1>1, <2>2, ApprovalsStay DEF ApprovedBefore
  <2>5. QED BY <1>1, <2>1, <2>3, <2>4 DEF ApprovedBefore
<1>4. CASE Launch
  <2>1. /\ Write("command_execute") /\ launched' = Append(launched, request.command)
        /\ Len(log) >= 2
        /\ log[Len(log)] = "source_approved" /\ log[Len(log) - 1] = "source_approved"
    BY <1>1, <1>4 DEF Launch, PlaceInv
  <2>2. "command_execute" \in Entries
    BY DEF Entries
  <2>3. PICK n \in Nat : n = Len(log) + 1
    BY <1>1
  <2>4. /\ log' \in Seq(Entries) /\ Len(log') = n /\ log'[n] = "command_execute"
        /\ \A i \in 1 .. Len(log) : log'[i] = log[i]
    BY <1>1, <2>1, <2>2, <2>3, Written
  <2>5. \A i : i \in DOMAIN log' <=> i \in 1 .. Len(log) \/ i = n
    BY <1>1, <2>3, <2>4
  <2>6. Executed' = Executed \union {n} /\ n \notin Executed /\ Executed \subseteq 1 .. Len(log)
    BY <1>1, <2>3, <2>4, <2>5 DEF Executed
  <2>7. Cardinality(Executed \union {n}) = Cardinality(Executed) + 1
    <3>1. IsFiniteSet(1 .. Len(log))
      BY <1>1, FS_Interval
    <3>2. IsFiniteSet(Executed)
      BY <2>6, <3>1, FS_Subset
    <3>3. QED BY <2>6, <3>2, FS_AddElement
  <2>8. Len(launched') = Len(launched) + 1
    <3>1. launched \in Seq({ListCommand[tool] : tool \in Tools})
      BY DEF Inv, LaunchInv
    <3>2. request.command \in {ListCommand[tool] : tool \in Tools}
      BY <1>1, <1>4 DEF Launch, PlaceInv
    <3>3. QED BY <2>1, <3>1, <3>2
  <2>9. n > 2 /\ log'[n - 1] = "source_approved" /\ log'[n - 2] = "source_approved"
    <3>1. n - 1 = Len(log) /\ n - 2 = Len(log) - 1
      BY <1>1, <2>3
    <3>2. n > 2 /\ Len(log) \in 1 .. Len(log) /\ Len(log) - 1 \in 1 .. Len(log)
      BY <1>1, <2>1, <2>3
    <3>3. QED BY <2>1, <2>4, <3>1, <3>2
  <2>10. \A i \in Executed :
           i > 2 /\ log'[i - 1] = "source_approved" /\ log'[i - 2] = "source_approved"
    BY <1>1, <2>4, ApprovalsStay DEF ApprovedBefore
  <2>11. QED BY <1>1, <2>6, <2>7, <2>8, <2>9, <2>10 DEF ApprovedBefore
<1>5. QED BY <1>1, <1>2, <1>3, <1>4, Moves

\* Every step keeps the launches few, and theirs the listing command of the tool.
LEMMA LaunchStep == Inv /\ [Next]_vars => LaunchInv' /\ RunsAreApprovedListings'
<1> SUFFICES ASSUME Inv, [Next]_vars PROVE LaunchInv' /\ RunsAreApprovedListings'
  OBVIOUS
<1> USE DEF call
<1> DEFINE Listing == {ListCommand[tool] : tool \in Tools}
<1>1. /\ TypeOK /\ PlaceInv /\ LaunchInv /\ RunsAreApprovedListings
      /\ log \in Seq(Entries) /\ launched \in Seq(Listing) /\ Len(launched) \in Nat
      /\ stage \in {"check", "list"}
  <2>1. /\ TypeOK /\ PlaceInv /\ LaunchInv /\ RunsAreApprovedListings
        /\ log \in Seq(Entries) /\ launched \in Seq(Listing) /\ stage \in {"check", "list"}
    BY DEF Inv, LaunchInv, TypeOK
  <2> HIDE DEF Listing
  <2>2. Len(launched) \in Nat
    BY <2>1
  <2>3. QED BY <2>1, <2>2
<1>2. machine' = machine /\ Tool' = Tool
  BY MachineStays
<1>3. ApprovedBefore'
  BY ApprovalStep
<1>4. PICK n \in Nat : n = Len(launched)
  BY <1>1
<1>5. /\ stage = "check" /\ at # "launched" => n = 0
      /\ stage = "check" \/ at \notin {"launched", "answer", "over"} => n <= 1
      /\ at = "launched" => n >= 1
      /\ n <= 2
  BY <1>1, <1>4 DEF LaunchInv, RunsAreApprovedListings
<1>6. CASE launched' = launched
  <2>1. log' \in Seq(Entries)
    <3>1. CASE log' = log
      BY <1>1, <3>1
    <3>2. CASE validate_command
      BY <1>1, <3>2, Validated
    <3>3. CASE Skips \/ Ends
      <4>1. PICK entry \in Entries : Write(entry)
        BY <3>3 DEF Skips, Ends, Entries
      <4>2. QED BY <1>1, <4>1, Written
    <3>4. CASE Launch
      <4>1. "command_execute" \in Entries /\ Write("command_execute")
        BY <3>4 DEF Launch, Entries
      <4>2. QED BY <1>1, <4>1, Written
    <3>5. QED
      BY <1>1, <3>1, <3>2, <3>3, <3>4, Moves DEF Waits, ConcludesUnasked, Asks, Ask, Accepted,
         Rejected, RunnerStarts, RunnerValidates, ValidateOnly, vars
  <2>2. /\ at' = "launched" => at = "launched"
        /\ stage' = "check" => stage = "check"
        /\ stage' = "check" /\ at' # "launched" => at # "launched"
        /\ at' \notin {"launched", "answer", "over"} =>
             at \notin {"launched", "answer", "over"} \/ stage = "check"
    <3>1. CASE ConcludesUnasked \/ Rejected \/ Skips \/ Ends
      <4>1. PICK r : Conclude(r)
        BY <3>1 DEF ConcludesUnasked, Rejected, Skips, Ends
      <4>2. QED BY <1>1, <4>1, Concluded
    <3>2. CASE Launch
      <4>1. launched' = Append(launched, request.command) /\ request.command \in Listing
        BY <1>1, <3>2 DEF Launch, PlaceInv
      <4>2. Len(launched') = Len(launched) + 1
        BY <1>1, <4>1
      <4>3. QED BY <1>1, <1>6, <4>2
    <3>3. QED
      BY <1>1, <3>1, <3>2, Moves DEF Waits, Asks, Accepted, RunnerStarts, RunnerValidates,
         ValidateOnly, vars, result
  <2>3. LaunchInv'
    BY <1>1, <1>4, <1>5, <1>6, <2>1, <2>2 DEF LaunchInv
  <2>4. RunsAreApprovedListings'
    BY <1>1, <1>2, <1>3, <1>6 DEF RunsAreApprovedListings, ApprovedBefore
  <2>5. QED BY <2>3, <2>4
<1>7. CASE Launch
  <2>1. /\ at = "decide" /\ ~machine.dry /\ Write("command_execute") /\ stage' = stage
        /\ launched' = Append(launched, request.command) /\ at' = "launched"
    BY <1>7 DEF Launch
  <2>2. Tool \in Tools /\ request.command = ListCommand[Tool]
    BY <1>1, <2>1 DEF PlaceInv
  <2>3. request.command \in Listing
    BY <2>2
  <2> HIDE DEF Listing
  <2>4. /\ launched' \in Seq(Listing) /\ Len(launched') = n + 1 /\ DOMAIN launched' = 1 .. n + 1
        /\ \A i \in 1 .. n : launched'[i] = launched[i]
        /\ launched'[n + 1] = request.command /\ DOMAIN launched = 1 .. n
    BY <1>1, <1>4, <2>1, <2>3
  <2>5. log' \in Seq(Entries)
    <3>1. "command_execute" \in Entries
      BY DEF Entries
    <3>2. QED BY <1>1, <2>1, <3>1, Written
  <2>6. n <= 1 /\ (stage = "check" => n = 0)
    BY <1>5, <2>1
  <2>7. LaunchInv'
    BY <2>1, <2>4, <2>5, <2>6 DEF LaunchInv, Listing
  <2>8. \A i \in 1 .. n + 1 : i \in 1 .. n \/ i = n + 1
    OBVIOUS
  <2>9. \A i \in DOMAIN launched' : launched'[i] = ListCommand[Tool]
    BY <1>1, <2>2, <2>4, <2>8 DEF RunsAreApprovedListings
  <2>10. RunsAreApprovedListings'
    BY <1>2, <1>3, <2>1, <2>2, <2>4, <2>6, <2>9 DEF RunsAreApprovedListings, ApprovedBefore
  <2>11. QED BY <2>7, <2>10
<1>8. launched' = launched \/ Launch
  BY <1>1, Moves DEF Waits, ConcludesUnasked, Asks, Accepted, Rejected, RunnerStarts,
     RunnerValidates, ValidateOnly, Skips, Ends, vars, result
<1>9. QED BY <1>6, <1>7, <1>8

\* Every step keeps the results, and what an empty list means.
LEMMA ResultStep == Inv /\ [Next]_vars => ResultInv'
<1> SUFFICES ASSUME Inv, [Next]_vars PROVE ResultInv'
  OBVIOUS
<1>1. TypeOK /\ PlaceInv /\ ResultInv /\ stage \in {"check", "list"}
  BY DEF Inv, TypeOK
<1>2. Os' = Os
  BY MachineStays
<1>3. /\ output.ran => listed.done
      /\ listed.done => (checked.done /\ at \in {"answer", "over"})
      /\ stage = "list" => checked.done
  BY <1>1 DEF ResultInv
<1>4. CASE Waits \/ ValidateOnly \/ Asks \/ Accepted \/ RunnerStarts \/ RunnerValidates \/ Launch
           \/ UNCHANGED vars
  <2>1. /\ UNCHANGED <<stage, checked, listed, output>>
        /\ at \in {"answer", "over"} => at' \in {"answer", "over"}
    BY <1>4 DEF Waits, ValidateOnly, Asks, Accepted, RunnerStarts, RunnerValidates, Launch, vars,
           result
  <2>2. QED BY <1>1, <1>2, <2>1 DEF ResultInv
<1>5. CASE ConcludesUnasked \/ Rejected \/ Skips
  <2>1. PICK r : /\ Conclude(r) /\ r.done = TRUE
                 /\ r.success /\ r.items = {} => Os = "windows" \/ stage = "check"
    BY <1>5 DEF ConcludesUnasked, Rejected, Skips
  <2>2. output' = output /\ at \in {"look", "ask", "decide"}
    BY <1>5 DEF ConcludesUnasked, Rejected, Skips
  <2>3. ~listed.done /\ ~output.ran
    BY <1>3, <2>2
  <2>4. CASE stage = "check"
    <3>1. stage' = "list" /\ checked' = r /\ listed' = listed
      BY <2>1, <2>4, Concluded
    <3>2. QED BY <1>1, <1>2, <2>1, <2>2, <2>3, <3>1 DEF ResultInv
  <2>5. CASE stage = "list"
    <3>1. stage' = stage /\ at' = "answer" /\ checked' = checked /\ listed' = r
      BY <2>1, <2>5, Concluded
    <3>2. QED BY <1>2, <1>3, <2>1, <2>2, <2>3, <2>5, <3>1 DEF ResultInv
  <2>6. QED BY <1>1, <2>4, <2>5
<1>6. CASE Ends
  <2>1. PICK r : /\ Conclude(r) /\ r.done = TRUE
                 /\ \/ stage = "check" /\ output' = output
                    \/ /\ stage = "list" /\ output'.ran = TRUE
                       /\ r.success /\ r.items = {} =>
                            output'.ok /\ \A l \in output'.lines : ~(l.update /\ l.usual)
    BY <1>6 DEF Ends
  <2>2. ~listed.done /\ ~output.ran
    BY <1>3, <1>6 DEF Ends
  <2>3. CASE stage = "check"
    <3>1. stage' = "list" /\ checked' = r /\ listed' = listed
      BY <2>1, <2>3, Concluded
    <3>2. QED BY <1>1, <1>2, <2>1, <2>2, <2>3, <3>1 DEF ResultInv
  <2>4. CASE stage = "list"
    <3>1. stage' = stage /\ at' = "answer" /\ checked' = checked /\ listed' = r
      BY <2>1, <2>4, Concluded
    <3>2. QED BY <1>2, <1>3, <2>1, <2>4, <3>1 DEF ResultInv
  <2>5. QED BY <1>1, <2>3, <2>4
<1>7. QED BY <1>1, <1>4, <1>5, <1>6, Moves

-----------------------------------------------------------------------------
(* The theorems. *)

\* Before the request is served nothing has been approved, launched or concluded.
LEMMA InvInit == Init => Inv
<1> SUFFICES ASSUME Init PROVE Inv
  OBVIOUS
<1>1. /\ machine \in Machines /\ at \in {"validate only", "detect"} /\ stage = "check"
      /\ outcome = "pending" /\ log = <<>> /\ launched = <<>> /\ blockers = "none"
      /\ checked.done = FALSE /\ listed.done = FALSE /\ listed.success = FALSE
      /\ output.ran = FALSE
  BY DEF Init, Pending, Silent
<1>2. /\ Os \in OSTypes /\ Pm \in PackageManagers
      /\ Os # "linux" => Pm = "none"
  BY <1>1, Detected
<1>3. /\ request.os # "linux" => request.pm = "none"
      /\ request.os \in OSTypes /\ request.pm \in PackageManagers
  <2>1. CASE at = "detect"
    <3>1. request.os = Os /\ request.pm = Pm
      BY <2>1 DEF Init
    <3>2. QED BY <1>2, <3>1
  <2>2. CASE at # "detect"
    BY <1>2, <2>2 DEF Init, Asked
  <2>3. QED BY <2>1, <2>2
<1>4. TypeOK
  BY <1>1, <1>2 DEF TypeOK, Reasons
<1>5. PlaceInv /\ ApprovedInv
  BY <1>1, <1>3 DEF PlaceInv, ApprovedInv
<1>6. LaunchInv
  <2>1. \A S : <<>> \in Seq(S) /\ Len(<<>>) = 0
    OBVIOUS
  <2>2. 0 <= 1
    OBVIOUS
  <2>3. QED BY <1>1, <2>1, <2>2 DEF LaunchInv
<1>7. ResultInv
  BY <1>1 DEF ResultInv
<1>8. RunsAreApprovedListings
  <2>1. DOMAIN <<>> = {} /\ Len(<<>>) = 0 /\ 0 <= 2
    OBVIOUS
  <2>2. Executed = {}
    BY <1>1, <2>1 DEF Executed
  <2>3. Cardinality({}) = 0
    BY FS_EmptySet
  <2>4. QED BY <1>1, <2>1, <2>2, <2>3 DEF RunsAreApprovedListings
<1>9. QED BY <1>4, <1>5, <1>6, <1>7, <1>8 DEF Inv

\* The inductive invariant: what stands at the end of the log for each place of the
\* handler, how many commands were launched, and what the results came from.
THEOREM Invariance == Spec => []Inv
<1>1. Inv /\ [Next]_vars => Inv'
  BY TypeStep, PlaceStep, ApprovedStep, LaunchStep, ResultStep DEF Inv
<1>2. QED BY InvInit, <1>1, PTL DEF Spec

\* Every variable keeps its type, whatever os-release and the tools say.
THEOREM TypeCorrect == Spec => []TypeOK
<1>1. Inv => TypeOK
  BY DEF Inv
<1>2. QED BY <1>1, Invariance, PTL

\* What validate_command approves, and writes down as approved, is the command of an
\* official source of the system and of its package manager.
THEOREM ApprovesOfficialOnly == Spec => []ApprovesOnlyOfficial
<1>1. ASSUME Inv PROVE ApprovesOnlyOfficial
  <2>1. PlaceInv /\ ApprovedInv
    BY <1>1 DEF Inv
  <2>2. ASSUME outcome = "approved" \/ (log # <<>> /\ Last(log) = "source_approved")
        PROVE  Approves(request.command, request.os, request.pm)
    BY <2>1, <2>2 DEF ApprovedInv, Approves
  <2>3. request.os # "linux" => request.pm = "none"
    BY <2>1 DEF PlaceInv
  <2>4. QED BY <2>2, <2>3, ApprovedIsOfficial DEF ApprovesOnlyOfficial
<1>2. QED BY <1>1, Invariance, PTL

\* A command of the updaters, and the shorter one validated in its place, are approved on
\* the system and for the package manager they are meant for, and beyond it only where
\* that system has no known package manager (registry.py:144-147).
THEOREM UpdatersAgree == Spec => []UpdatersAgreeWithRegistry
<1>1. ASSUME Inv PROVE UpdatersAgreeWithRegistry
  <2>1. PlaceInv /\ ApprovedInv
    BY <1>1 DEF Inv
  <2>2. /\ request.os \in OSTypes /\ request.pm \in PackageManagers
        /\ request.os # "linux" => request.pm = "none"
    BY <2>1 DEF PlaceInv, ApprovedInv
  <2>3. outcome # "pending" =>
          ((outcome = "approved") <=> Approves(request.command, request.os, request.pm))
    BY <2>1 DEF ApprovedInv, Approves
  <2>4. QED BY <2>2, <2>3, RunsApproved DEF UpdatersAgreeWithRegistry
<1>2. QED BY <1>1, Invariance, PTL

\* check_updates launches only its tool's listing command, twice at most, not in a
\* dry-run, and each launch is logged after two approvals.
THEOREM RunsApprovedListings == Spec => []RunsAreApprovedListings
<1>1. Inv => RunsAreApprovedListings
  BY DEF Inv
<1>2. QED BY <1>1, Invariance, PTL

\* A successful answer without an item is given after a listing that succeeded and
\* printed no update as the fixtures show it, or on Windows without winget.
THEOREM EmptyAnswersAreTrue == Spec => []EmptyAnswerIsTrue
<1>1. Inv => EmptyAnswerIsTrue
  BY DEF Inv, ResultInv, EmptyAnswerIsTrue
<1>2. QED BY <1>1, Invariance, PTL
=============================================================================
