----------------------------- MODULE MCLogging -----------------------------
(***************************************************************************)
(* The instance of Logging that TLC explores: a stream of 16 bytes, a      *)
(* number's worth of 4.  An operand of 5 bytes leaves just enough for the  *)
(* trailer, one of 9 too little.                                           *)
(***************************************************************************)
EXTENDS Logging, TLC

Operands == {5, 9}
One      == {1}
Severe   == {INFO, FATAL}

Alike == Permutations(Threads)
=============================================================================
