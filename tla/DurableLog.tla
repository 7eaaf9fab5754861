----------------------------- MODULE DurableLog -----------------------------
(***************************************************************************)
(* What a log file promises: one stream of lines that grows at its end,    *)
(* line by line.  A crash, and on a disk that fails a write too, takes a   *)
(* tail of it, never what was durable, and leaves no hole.  Nothing else   *)
(* ever takes a line away.                                                 *)
(***************************************************************************)
EXTENDS Integers, Sequences, SequencesExt

VARIABLES
  log,        \* the lines
  durable,    \* how many of them no crash can take
  up,         \* whether the process lives
  flaky       \* whether the disk may fail

logVars == <<log, durable, up, flaky>>

Init == log = << >> /\ durable = 0 /\ up = TRUE /\ flaky \in BOOLEAN

Write ==
  /\ up
  /\ IsPrefix(log, log') /\ Len(log') = Len(log) + 1
  /\ durable' \in durable..Len(log')
  /\ UNCHANGED <<up, flaky>>

Sync ==
  /\ up
  /\ durable' \in durable..Len(log)
  /\ UNCHANGED <<log, up, flaky>>

LoseTail ==
  /\ IsPrefix(log', log) /\ Len(log') >= durable
  /\ UNCHANGED <<durable, flaky>>

Fail == up /\ flaky /\ LoseTail /\ UNCHANGED up

Crash == up /\ up' = FALSE /\ LoseTail

Restart == ~up /\ up' = TRUE /\ UNCHANGED <<log, durable, flaky>>

Next == Write \/ Sync \/ Fail \/ Crash \/ Restart

Spec == Init /\ [][Next]_logVars
=============================================================================
