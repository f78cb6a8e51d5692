------------------------------ MODULE MCDaemon ------------------------------
(* Instances of Daemon for TLC. *)
EXTENDS Daemon

CONSTANTS TERM, INT

TermSignals == {TERM, INT}
AllModes    == {"wait", "nowait", "foreground"}
=============================================================================
