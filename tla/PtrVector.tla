----------------------------- MODULE PtrVector -----------------------------
(***************************************************************************)
(* The owners of heap objects: two ptr_vectors of src/ptr_vector.h, a      *)
(* scoped_ptr of src/scoped_ptr.h and the unique_ptrs that pop_back()      *)
(* returned.  An allocation may fail in the middle of an operation; what   *)
(* has been done until then stays.  Objects are numbered as they are born. *)
(***************************************************************************)
EXTENDS Integers, Sequences, SequencesExt

CONSTANTS
  Vectors,       \* the ptr_vectors
  MaxObjects     \* bound of the model: objects that are ever born

ASSUME PtrVectorAssumption == MaxObjects \in Nat

VARIABLES
  m_vector,      \* of each ptr_vector
  m_ptr,         \* of the scoped_ptr; 0 is null
  unique,        \* the unique_ptrs of the caller
  born,
  deletes        \* every delete, in order

heap == <<m_vector, m_ptr, unique, born, deletes>>

PtrInit ==
  /\ m_vector = [v \in Vectors |-> << >>] /\ m_ptr = 0 /\ unique = {}
  /\ born = 0 /\ deletes = << >>

NewObjects(from, count) == [i \in 1..count |-> from + i]

-----------------------------------------------------------------------------
(* push_back(): tmp owns the object until the vector has it, and releases  *)
(* it then; when the vector throws, tmp deletes it.                        *)
Released_Not(o) == deletes' = Append(deletes, o)     \* mutation: no release()
Released(o) == UNCHANGED deletes

push_back(v, o) ==
  \/ m_vector' = [m_vector EXCEPT ![v] = Append(@, o)] /\ Released(o)
  \/ UNCHANGED m_vector /\ deletes' = Append(deletes, o)

PushNew(v) ==
  /\ born < MaxObjects /\ born' = born + 1
  /\ push_back(v, born + 1)
  /\ UNCHANGED <<m_ptr, unique>>

PushBackAgain(v) ==
  \E o \in unique :
    /\ unique' = unique \ {o} /\ push_back(v, o)
    /\ UNCHANGED <<m_ptr, born>>

pop_back(v) ==
  /\ m_vector[v] # << >>
  /\ unique' = unique \cup {Last(m_vector[v])}
  /\ m_vector' = [m_vector EXCEPT ![v] = Front(@)]
  /\ UNCHANGED <<m_ptr, born, deletes>>

UniqueEnds ==
  \E o \in unique :
    /\ unique' = unique \ {o} /\ deletes' = Append(deletes, o)
    /\ UNCHANGED <<m_vector, m_ptr, born>>

(* clear(), and the destructor.                                            *)
clear(v) ==
  /\ deletes' = deletes \o m_vector[v]
  /\ m_vector' = [m_vector EXCEPT ![v] = << >>]
  /\ UNCHANGED <<m_ptr, unique, born>>

Shrink(v, s) ==
  /\ s < Len(m_vector[v])
  /\ deletes' = deletes \o SubSeq(m_vector[v], s + 1, Len(m_vector[v]))
  /\ m_vector' = [m_vector EXCEPT ![v] = SubSeq(@, 1, s)]
  /\ UNCHANGED <<m_ptr, unique, born>>

(* One object after the other; the one after the last that went in, if any,*)
(* threw: new T left nothing behind, or push_back() deleted it.            *)
Grow(v, s) ==
  \E count \in 0..(s - Len(m_vector[v])) :
    /\ born + count <= MaxObjects
    /\ m_vector' = [m_vector EXCEPT ![v] = @ \o NewObjects(born, count)]
    /\ \/ born' = born + count /\ UNCHANGED deletes
       \/ /\ Len(m_vector[v]) + count < s /\ born + count < MaxObjects
          /\ born' = born + count + 1
          /\ deletes' = Append(deletes, born')
    /\ UNCHANGED <<m_ptr, unique>>

resize(v, s) == Shrink(v, s) \/ Grow(v, s)

swap(v, w) ==
  /\ m_vector' = [m_vector EXCEPT ![v] = m_vector[w], ![w] = m_vector[v]]
  /\ UNCHANGED <<m_ptr, unique, born, deletes>>

-----------------------------------------------------------------------------
(* scoped_ptr.                                                             *)

Delete(o) == IF o = 0 THEN UNCHANGED deletes ELSE deletes' = Append(deletes, o)

reset(p) ==
  /\ IF p # m_ptr THEN Delete(m_ptr) ELSE UNCHANGED deletes
  /\ m_ptr' = p
  /\ UNCHANGED <<m_vector, unique>>

(* reset() to a new object, to nothing, or to the one it has.              *)
Reset ==
  \/ born < MaxObjects /\ born' = born + 1 /\ reset(born + 1)
  \/ \E p \in {0, m_ptr} : reset(p) /\ UNCHANGED born

PtrNext ==
  \/ \E v \in Vectors : PushNew(v) \/ PushBackAgain(v) \/ pop_back(v) \/ clear(v)
  \/ \E v \in Vectors, s \in 0..MaxObjects : resize(v, s)
  \/ \E v, w \in Vectors : swap(v, w)
  \/ UniqueEnds \/ Reset

PtrSpec == PtrInit /\ [][PtrNext]_heap

-----------------------------------------------------------------------------
OwnedTwice ==
  \E v, w \in Vectors :
    \E i \in DOMAIN m_vector[v], j \in DOMAIN m_vector[w] :
      <<v, i>> # <<w, j>> /\ m_vector[v][i] = m_vector[w][j]

InVectors == UNION {Range(m_vector[v]) : v \in Vectors}

(* Whatever fails on the way, an object that was born has one owner or was *)
(* deleted once: nothing leaks, nothing is deleted twice, and no owner     *)
(* holds what is deleted (ptr_vector.h:52-110, scoped_ptr.h:28-58).        *)
OneOwner ==
  /\ IsInjective(deletes) /\ ~OwnedTwice
  /\ InVectors \cap unique = {} /\ m_ptr \notin InVectors \cup unique
  /\ InVectors \cup unique \cup ({m_ptr} \ {0}) = 1..born \ Range(deletes)
=============================================================================
