-------------------------- MODULE AsyncLoggingPipe --------------------------
(***************************************************************************)
(* AsyncLogging implements LogPipe.  The lines inside the pipe are those in*)
(* the buffers that can still be written; the lost ones are those dropped  *)
(* on overload and those refused.                                          *)
(***************************************************************************)
EXTENDS AsyncLogging

Pipe == INSTANCE LogPipe WITH
  taken   <- lines,
  pending <- Held,
  given   <- file,
  durable <- flushed,
  lost    <- dropped \cup Refused

(* Every step of the double-buffered logger is a step of the pipe or leaves*)
(* it as it is: the hand-overs between the two threads cannot be seen.     *)
ImplementsPipe == Pipe!Spec
=============================================================================
