----------------------------- MODULE MCLogFile -----------------------------
(***************************************************************************)
(* The instance of LogFile that TLC explores: a "day" of 2 seconds, a file *)
(* of 3 bytes, a look at the clock every 2 lines, a flush when a second    *)
(* has gone by since the last one.                                         *)
(***************************************************************************)
EXTENDS LogFile

Lengths == {1, 2}

WorldSet == {{"death"}, {"clock", "death"}, {"disk"}}
=============================================================================
