--------------------------- MODULE MCCommandRunner ---------------------------
(* Instances of CommandRunner for TLC.                                      *)
EXTENDS CommandRunner

CONSTANTS official, unofficial, text, blank, eof

MCCommand  == {official, unofficial}
MCApproved == {official}
MCLine     == {text, blank}
MCBlank    == {blank}
MCExitCode == {0, 1}
=============================================================================
