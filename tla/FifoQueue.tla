----------------------------- MODULE FifoQueue -----------------------------
(***************************************************************************)
(* What BlockingQueue promises its users: a linearizable first-in first-   *)
(* out queue.  Each put() and each take() happens at one moment between    *)
(* its call and its return, a put() adds its own item there and a take()   *)
(* returns the one that was the oldest then.                               *)
(***************************************************************************)
EXTENDS Integers, Sequences

CONSTANTS Threads, Items

VARIABLES
  queue,      \* the items in it
  op,         \* the call each thread is in: none, put, take; done when it
              \* has happened and is about to return
  item        \* the argument of a put(), the result of a take(); else 0

Init ==
  /\ queue = << >>
  /\ op = [t \in Threads |-> "none"] /\ item = [t \in Threads |-> 0]

Becomes(t, from, to, x) ==
  /\ op[t] = from
  /\ op' = [op EXCEPT ![t] = to] /\ item' = [item EXCEPT ![t] = x]

Call(t) ==
  /\ \/ \E x \in Items : Becomes(t, "none", "put", x)
     \/ Becomes(t, "none", "take", 0)
  /\ UNCHANGED queue

Put(t) ==
  /\ Becomes(t, "put", "done", item[t])
  /\ queue' = Append(queue, item[t])

Take(t) ==
  /\ queue # << >>
  /\ Becomes(t, "take", "done", Head(queue))
  /\ queue' = Tail(queue)

Return(t) == Becomes(t, "done", "none", 0) /\ UNCHANGED queue

Next == \E t \in Threads : Call(t) \/ Put(t) \/ Take(t) \/ Return(t)

Spec == Init /\ [][Next]_<<queue, op, item>>
=============================================================================
