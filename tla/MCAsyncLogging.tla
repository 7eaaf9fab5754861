--------------------------- MODULE MCAsyncLogging ---------------------------
(***************************************************************************)
(* The instance of AsyncLogging that TLC explores: a buffer of 3 bytes     *)
(* takes two lines of length 1 or one of length 2 (append() wants strictly *)
(* more room than len), and refuses a line of length 3.                    *)
(***************************************************************************)
EXTENDS AsyncLoggingPipe

Capacity == 3
Lengths  == {1, 2, 3}
=============================================================================
