------------------------------ MODULE LogPipe ------------------------------
(***************************************************************************)
(* What AsyncLogging promises the threads that log and the reader of the   *)
(* file, without buffers, threads or locks: a pipe that takes lines, gives *)
(* them out in the order it took them, and may lose runs of neighbouring   *)
(* lines, each of them once and for ever.                                  *)
(***************************************************************************)
EXTENDS Integers, Sequences, SequencesExt

VARIABLES
  taken,     \* lines taken so far: 1..taken
  pending,   \* those still inside
  given,     \* those given out, in order
  durable,   \* how many of given have been flushed
  lost       \* those that will never come out

pipeVars == <<taken, pending, given, durable, lost>>

Lines == Nat \ {0}

Init ==
  taken = 0 /\ pending = {} /\ given = << >> /\ durable = 0 /\ lost = {}

Elems(s) == {s[i] : i \in DOMAIN s}

Ascending(s) == \A i, j \in DOMAIN s : i < j => s[i] < s[j]

(* D has no hole in S: what lies in S between two of D is in D.            *)
Convex(D, S) == \A a, c \in D, b \in S : a < b /\ b < c => b \in D

Take ==
  /\ taken' = taken + 1
  /\ pending' = pending \cup {taken'}
  /\ UNCHANGED <<given, durable, lost>>

(* A line may be lost at the door.                                         *)
Turn ==
  /\ taken' = taken + 1
  /\ lost' = lost \cup {taken'}
  /\ UNCHANGED <<pending, given, durable>>

(* The oldest lines inside come out, oldest first.                         *)
Give ==
  /\ IsPrefix(given, given')
  /\ LET new == SubSeq(given', Len(given) + 1, Len(given')) IN
       /\ Ascending(new) /\ Elems(new) \subseteq pending
       /\ pending' = pending \ Elems(new)
       /\ \A a \in Elems(new), b \in pending' : a < b
  /\ durable' \in durable..Len(given')
  /\ UNCHANGED <<taken, lost>>

(* A run of neighbours inside is lost.                                     *)
Lose ==
  /\ pending' \subseteq pending
  /\ LET gone == pending \ pending' IN
       Convex(gone, pending) /\ lost' = lost \cup gone
  /\ durable' \in durable..Len(given)
  /\ UNCHANGED <<taken, given>>

(* What came out is flushed, or more of it is.                             *)
Sync ==
  /\ durable' \in durable..Len(given)
  /\ UNCHANGED <<taken, pending, given, lost>>

Next == Take \/ Turn \/ Give \/ Lose \/ Sync

Spec == Init /\ [][Next]_pipeVars
=============================================================================
