---------------------------- MODULE MCCheckUpdates ----------------------------
(* Instances of CheckUpdates for TLC: every command of the updaters and      *)
(* commands next to them (no argument, a longer or shorter first argument,   *)
(* another spelling, an unofficial tool) for validate_command, and machines  *)
(* and output lines of every kind for check_updates.                         *)
EXTENDS CheckUpdates

MCFolded == [e \in {"WinGet", " apt "} |-> IF e = "WinGet" THEN "winget" ELSE "apt"]

MCNeighbours ==
  { <<>>, <<"choco", "upgrade", "all">>, <<"brew", "upgrade">>,
    <<"winget">>, <<"WinGet", "upgrade">>, <<"winget", "install", "x">>, <<"winget", "up">>,
    <<"winget", "--all", "upgrade">>, <<"wuapilib", "anything">>, <<"msstore">>,
    <<"apt">>, <<" apt ", "update">>, <<"apt", "upgrade-all">>, <<"apt", "install", "x">>,
    <<"dnf", "list">>, <<"pacman", "-Syu">>, <<"pacman", "-S", "x">>, <<"zypper", "list">>,
    <<"mas", "upgrade">>, <<"softwareupdate", "-i">>, <<"softwareupdate", "--schedule", "on">> }

MCCommands == { r.command : r \in Runs } \union { r.validated : r \in Runs } \union MCNeighbours

Value(quote, words) == [quote |-> quote, words |-> words]
Release(id, like)   == [id |-> id, like |-> like]

\* Known by ID, by the first or a later word of ID_LIKE, by neither, and no file.
MCReleases ==
  { Release(Value("none", <<"debian">>), Value("none", <<>>)),
    Release(Value("double", <<"opensuse-leap">>), Value("double", <<"suse", "opensuse">>)),
    Release(Value("single", <<"ubuntu">>), Value("none", <<>>)),
    Release(Value("none", <<"mixed">>), Value("double", <<"arch", "debian">>)),
    Release(Value("none", <<"clone">>), Value("single", <<"rhel", "centos", "fedora">>)),
    Release(Value("none", <<>>), Value("none", <<>>)) }

MCMachines ==
  [system : {"Linux"}, release : MCReleases, dry : BOOLEAN] \union
  [system : {"Windows", "Darwin", "FreeBSD"},
   release : {Release(Value("none", <<>>), Value("none", <<>>))}, dry : BOOLEAN]

Line(starts, first, columns, has) ==
  [starts |-> starts, first |-> first, columns |-> columns, has |-> has,
   update |-> FALSE, usual |-> FALSE]
Row(line)   == [line EXCEPT !.update = TRUE, !.usual = TRUE]
Other(line) == [line EXCEPT !.update = TRUE]

\* Headings, rows as in tests/fixtures, and rows the parsers do not expect.
MCLines ==
  [ winget |->
      { Line("", "name", 5, {"Name", "Id"}), Line("-", "", 1, {}), Line("", "Nome", 5, {}),
        Line("", "count", 1, {}), Row(Line("", "Git", 5, {})), Row(Line("", "Cursor", 5, {"Cursor"})),
        Other(Line("", "NameThat", 5, {"Name", "Id"})) },
    softwareupdate |->
      { Line("", "Finding", 4, {}), Line("", "No", 4, {"No new software available"}),
        Row(Line("*", "Label", 2, {})) },
    apt |->
      { Line("", "Listing", 1, {}), Row(Line("", "curl", 5, {"upgradable"})),
        Other(Line("", "curl", 5, {})) },
    dnf |->
      { Line("Last metadata", "Last", 9, {}), Line("", "", 0, {}), Line("", "Obsoleting", 2, {}),
        Row(Line("", "curl.x86_64", 3, {})) },
    pacman |-> { Row(Line("", "curl", 2, {})), Line("", "linux", 5, {}) },
    zypper |->
      { Line("", "Repository", 5, {"|", "Repository"}), Line("---", "", 5, {"|"}),
        Row(Line("", "number", 6, {"|"})), Other(Line("", "v", 6, {"|"})) } ]
=============================================================================
