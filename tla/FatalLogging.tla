---------------------------- MODULE FatalLogging ----------------------------
(***************************************************************************)
(* A FATAL statement of a program that logs through AsyncLogging, set up   *)
(* as tests/test_asynclog.cc does: setOutput() hands lines to append(),    *)
(* and g_flush is still the default, which flushes stdout.  The statement  *)
(* appends its line, flushes stdout and aborts; the front ends, the owner  *)
(* and the back end go on until it does.                                   *)
(***************************************************************************)
EXTENDS AsyncLogging

VARIABLES
  fatal,        \* where the statement is in ~Logger()
  fatalLine     \* its line

fatalVars == <<vars, fatal, fatalLine>>

FatalInit == Init /\ fatal = "none" /\ fatalLine = 0

(* g_output() is AsyncLogging::append().                                   *)
FatalOutput ==
  /\ fatal = "none" /\ owner = "started" /\ fatal' = "flush"
  /\ FrontEnd /\ fatalLine' = lines'

(* g_flush() is defaultFlush(): fflush(stdout).                            *)
FatalFlush ==
  /\ fatal = "flush" /\ fatal' = "abort"
  /\ UNCHANGED <<vars, fatalLine>>

(* abort(): the buffers are gone, what a LogFile has flushed is not.       *)
FatalAbort ==
  /\ fatal = "abort" /\ fatal' = "aborted"
  /\ UNCHANGED <<vars, fatalLine>>

Others == fatal # "aborted" /\ Next /\ UNCHANGED <<fatal, fatalLine>>

FatalNext == FatalOutput \/ FatalFlush \/ FatalAbort \/ Others

FatalSpec == FatalInit /\ [][FatalNext]_fatalVars

(* What the comment at Logging.h:26 says of FATAL: the line is put on disk *)
(* at once, and then the process aborts.                                   *)
FatalLineOnDisk ==
  fatal = "aborted" => fatalLine \in {file[i] : i \in 1..flushed}
=============================================================================
