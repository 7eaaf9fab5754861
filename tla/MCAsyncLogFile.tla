--------------------------- MODULE MCAsyncLogFile ---------------------------
(***************************************************************************)
(* The instance of AsyncLogFile that TLC explores: one line fills a buffer,*)
(* a file is rolled after two buffers, and the clock ticks once.           *)
(***************************************************************************)
EXTENDS AsyncLogFile

Lengths == {2}
=============================================================================
