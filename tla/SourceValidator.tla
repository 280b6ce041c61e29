--------------------------- MODULE SourceValidator ---------------------------
(***************************************************************************)
(* The official source registry (sources/registry.py), the validation of a *)
(* command against it (sources/validator.py), and one call of              *)
(* validate_command with the entry it leaves in the audit log.             *)
(*                                                                         *)
(* A command is a sequence of strings, the executable first.               *)
(***************************************************************************)
EXTENDS Naturals, Sequences, SequencesExt

CONSTANTS
  Commands,  \* the commands that may be validated
  Folded     \* executable.lower().strip(), for the executables that it changes

OSTypes == {"windows", "macos", "linux", "unknown"}

\* PackageManager, and None where detect_os leaves it unset
PackageManagers == {"apt", "dnf", "pacman", "zypper", "unknown", "none"}

Normalized(executable) ==
  IF executable \in DOMAIN Folded THEN Folded[executable] ELSE executable

Source(id, os, executable, prefixes) ==
  [id |-> id, os |-> os, executable |-> executable, prefixes |-> prefixes]

WINDOWS_SOURCES ==
  { Source("windows_update_agent", "windows", "wuapilib", {}),
    Source("winget", "windows", "winget", {"upgrade", "update", "list", "source"}),
    Source("msstore", "windows", "msstore", {}) }

MACOS_SOURCES ==
  { Source("softwareupdate", "macos", "softwareupdate",
           {"--list", "--install", "--download", "--fetch-full-installer", "--schedule"}),
    Source("appstore", "macos", "mas", {}) }

LINUX_SOURCE_BY_PM ==
  [ apt    |-> Source("apt", "linux", "apt", {"update", "upgrade", "list", "show"}),
    dnf    |-> Source("dnf", "linux", "dnf", {"check-update", "upgrade", "info", "list"}),
    pacman |-> Source("pacman", "linux", "pacman", {"-Sy", "-Su", "-Qu", "-Qi"}),
    zypper |-> Source("zypper", "linux", "zypper", {"refresh", "update", "list-updates", "info"}) ]

LINUX_SOURCES == { LINUX_SOURCE_BY_PM[pm] : pm \in DOMAIN LINUX_SOURCE_BY_PM }

AllSources == WINDOWS_SOURCES \union MACOS_SOURCES \union LINUX_SOURCES

\* The registry's own spelling is not changed.
ASSUME FoldedAssumption == \A s \in AllSources : s.executable \notin DOMAIN Folded

\* A fact about strings, which are sequences for TLC and atoms for the provers.
ASSUME PrefixAssumption == \A s \in AllSources : \A p \in s.prefixes : IsPrefix(p, p)

\* Mutated form: the detected package manager is not looked at.
SourcesForAnyPM(os, pm) == { s \in AllSources : s.os = os }

SourcesForOS(os, pm) ==
  CASE os = "windows" -> WINDOWS_SOURCES
    [] os = "macos"   -> MACOS_SOURCES
    [] os = "linux" /\ pm \in DOMAIN LINUX_SOURCE_BY_PM -> {LINUX_SOURCE_BY_PM[pm]}
    [] os = "linux" /\ pm \notin DOMAIN LINUX_SOURCE_BY_PM -> LINUX_SOURCES
    [] OTHER -> {}

SourcesNamed(executable) == { s \in AllSources : s.executable = Normalized(executable) }

\* Mutated form: the comparison turned round.
ArgumentExtended(source, command) ==
  source.prefixes = {} \/ Len(command) = 1 \/ \E p \in source.prefixes : IsPrefix(command[2], p)

\* Only the first argument is compared, and a prefix of it is enough.
ArgumentAllowed(source, command) ==
  source.prefixes = {} \/ Len(command) = 1 \/ \E p \in source.prefixes : IsPrefix(p, command[2])

\* The outcome of validate_command: its reason, in the order it is decided.
Reason(command, os, pm) ==
  IF command = <<>> THEN "empty"
  ELSE IF SourcesNamed(command[1]) = {} THEN "not in the registry"
  ELSE LET source == CHOOSE s \in SourcesNamed(command[1]) : TRUE
       IN CASE source.os # os -> "registered for another system"
            [] source.os = os /\ source \notin SourcesForOS(os, pm) -> "not approved for this configuration"
            [] source \in SourcesForOS(os, pm) /\ ~ArgumentAllowed(source, command) -> "argument"
            [] OTHER -> "approved"

Approves(command, os, pm) == Reason(command, os, pm) = "approved"

-----------------------------------------------------------------------------
(* One call.                                                               *)

VARIABLES
  request,  \* the arguments
  outcome,  \* the reason of the ValidationOutcome, or "pending"
  log       \* the audit entries the call wrote

call == <<request, outcome, log>>

Asked == { r \in [command : Commands, os : OSTypes, pm : PackageManagers] :
             r.os # "linux" => r.pm = "none" }

validate_command ==
  /\ outcome = "pending"
  /\ outcome' = Reason(request.command, request.os, request.pm)
  /\ log' = Append(log, IF outcome' = "approved" THEN "source_approved" ELSE "source_rejected")
  /\ UNCHANGED request

-----------------------------------------------------------------------------
(* The commands the updaters build, and the ones they validate in their    *)
(* place (updaters/linux.py, macos.py, windows.py).                        *)

Run(os, pm, command, validated) ==
  [os |-> os, pm |-> pm, command |-> command, validated |-> validated]

LinuxRuns ==
  { Run("linux", "apt", <<"apt", "list", "--upgradable">>, <<"apt", "list", "--upgradable">>),
    Run("linux", "dnf", <<"dnf", "check-update">>, <<"dnf", "check-update">>),
    Run("linux", "pacman", <<"pacman", "-Qu">>, <<"pacman", "-Qu">>),
    Run("linux", "zypper", <<"zypper", "list-updates">>, <<"zypper", "list-updates">>),
    Run("linux", "apt", <<"apt", "upgrade", "-y">>, <<"apt", "upgrade">>),
    Run("linux", "dnf", <<"dnf", "upgrade", "-y">>, <<"dnf", "upgrade">>),
    Run("linux", "pacman", <<"pacman", "-Su", "--noconfirm">>, <<"pacman", "-Su">>),
    Run("linux", "zypper", <<"zypper", "update", "-y">>, <<"zypper", "update">>) }

MacRuns ==
  { Run("macos", "none", <<"softwareupdate", "--list">>, <<"softwareupdate", "--list">>),
    Run("macos", "none", <<"softwareupdate", "--install", "--all">>, <<"softwareupdate", "--install">>) }

WindowsRuns ==
  { Run("windows", "none", <<"winget", "upgrade", "--disable-interactivity">>,
                           <<"winget", "upgrade", "--disable-interactivity">>),
    Run("windows", "none", <<"winget", "upgrade", "--all", "--disable-interactivity">>,
                           <<"winget", "upgrade", "--all">>),
    Run("windows", "none", <<"winget", "upgrade", "--id", "Anysphere.Cursor">>,
                           <<"winget", "upgrade", "--id">>) }

Runs == LinuxRuns \union MacRuns \union WindowsRuns

-----------------------------------------------------------------------------
(* Properties.                                                             *)

Reasons == {"pending", "empty", "not in the registry", "registered for another system",
            "not approved for this configuration", "argument", "approved"}

\* docs/SOURCE_POLICY.md, rules 1 to 3, stated over the registry and not over the
\* order of validate_command's tests: what is approved is the command of a source
\* of this system and of its package manager, and the audit log says approved for
\* exactly those.  The registry's first match by executable hides no other source.
ApprovesOnlyOfficial ==
  (outcome = "approved" \/ (log # <<>> /\ Last(log) = "source_approved")) =>
    \E s \in AllSources :
      /\ s.executable = Normalized(request.command[1]) /\ s.os = request.os
      /\ request.pm \in DOMAIN LINUX_SOURCE_BY_PM => s.executable = request.pm
      /\ s.prefixes # {} /\ Len(request.command) > 1 =>
           \E p \in s.prefixes : IsPrefix(p, request.command[2])

\* The command an updater runs and the shorter one it validates in its place are
\* both approved where the updater runs, and not on another system or where another
\* package manager was detected: the registry, the command tables and their
\* stand-ins agree.  Where none was detected, every Linux source is approved.
UpdatersAgreeWithRegistry ==
  outcome # "pending" =>
    \A r \in Runs : request.command \in {r.command, r.validated} =>
      ((outcome = "approved") <=>
         /\ request.os = r.os
         /\ request.pm = r.pm \/ request.pm \in {"unknown", "none"})

=============================================================================
