--------------------------- MODULE MCFatalLogging ---------------------------
(***************************************************************************)
(* The instance of FatalLogging that TLC explores.                         *)
(***************************************************************************)
EXTENDS FatalLogging

Capacity == 3
Lengths  == {1}
=============================================================================
