---------------------------- MODULE MCUpdaterApply ----------------------------
(* Instances of UpdaterApply for TLC: Cursor and two other packages.        *)
EXTENDS UpdaterApply

CONSTANTS cursor, p1, p2

MCPackage  == {cursor, p1, p2}
MCExitCode == {0, 1}
=============================================================================
