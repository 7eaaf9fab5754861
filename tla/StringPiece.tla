---------------------------- MODULE StringPiece ----------------------------
(***************************************************************************)
(* src/StringPiece.h: a string is a place in somebody else's memory and a  *)
(* length, may hold 0 bytes, and ends with none.  Two pieces of one memory *)
(* are compared; they may overlap.                                         *)
(***************************************************************************)
EXTENDS Integers, Sequences, SequencesExt

CONSTANTS
  MemoryBytes,    \* what the memory holds; 0 is among them
  MemorySize

ASSUME StringPieceAssumption ==
  MemoryBytes \subseteq 0..255 /\ 0 \in MemoryBytes /\ MemorySize \in Nat \ {0}

VARIABLES
  memory,           \* ends with a 0 byte, as a C string must somewhere
  this, that        \* the pieces

strings == <<memory, this, that>>

Piece(ptr_, length_) == [ptr_ |-> ptr_, length_ |-> length_]

(* The address 0 is NULL; memory begins at 1.                              *)
StringPieceInit ==
  /\ memory \in [1..MemorySize -> MemoryBytes] /\ memory[MemorySize] = 0
  /\ this = Piece(0, 0) /\ that = Piece(0, 0)

strlen(str) == CHOOSE n \in 0..(MemorySize - str) :
                 memory[str + n] = 0 /\ \A i \in 0..(n - 1) : memory[str + i] # 0

-----------------------------------------------------------------------------
(* set(), and the constructors: up to the first 0 byte, or as given.       *)
SetCString(str) == this' = Piece(str, strlen(str))
SetBuffer(buffer, len) == this' = Piece(buffer, len)
Clear == this' = Piece(0, 0)

remove_prefix(n) == this' = Piece(this.ptr_ + n, this.length_ - n)
remove_suffix(n) == this' = [this EXCEPT !.length_ = @ - n]

(* The other piece is handled the same way.                                *)
Swap == this' = that /\ that' = this

SetThis ==
  \/ \E str \in 1..MemorySize : SetCString(str)
  \/ \E buffer \in 1..MemorySize : \E len \in 0..(MemorySize + 1 - buffer) :
       SetBuffer(buffer, len)
  \/ \E n \in 1..this.length_ : remove_prefix(n) \/ remove_suffix(n)
  \/ Clear

StringPieceNext == (SetThis /\ UNCHANGED <<memory, that>>) \/ (Swap /\ UNCHANGED memory)

StringPieceSpec == StringPieceInit /\ [][StringPieceNext]_strings

-----------------------------------------------------------------------------
as_string(p) == [i \in 1..p.length_ |-> memory[p.ptr_ + i - 1]]

(* memcmp(): the first two bytes that differ decide, as unsigned ones.     *)
memcmp(p, q, n) ==
  LET differ == {i \in 0..(n - 1) : memory[p.ptr_ + i] # memory[q.ptr_ + i]}
      first  == CHOOSE i \in differ : \A j \in differ : i <= j
  IN IF differ = {} THEN 0 ELSE memory[p.ptr_ + first] - memory[q.ptr_ + first]

Shorter(p, q) == IF p.length_ < q.length_ THEN p.length_ ELSE q.length_
order == memcmp(this, that, Shorter(this, that))

Equal == this.length_ = that.length_ /\ memcmp(this, that, this.length_) = 0

(* STRINGPIECE_BINARY_PREDICATE.                                           *)
OnTie_Never(lengths) == FALSE        \* mutation: order alone decides
OnTie(lengths) == order = 0 /\ lengths

Under   == order < 0 \/ OnTie(this.length_ < that.length_)
AtMost  == order < 0 \/ OnTie(this.length_ <= that.length_)
AtLeast == order > 0 \/ OnTie(this.length_ >= that.length_)
Above   == order > 0 \/ OnTie(this.length_ > that.length_)

compare ==
  IF order # 0 THEN order
  ELSE IF this.length_ < that.length_ THEN -1
  ELSE IF this.length_ > that.length_ THEN 1 ELSE 0

starts_with == this.length_ >= that.length_ /\ memcmp(this, that, that.length_) = 0

-----------------------------------------------------------------------------
(* The order of words.                                                     *)
Before(a, b) ==
  \E n \in 0..Len(a) :
    /\ n < Len(b) /\ SubSeq(a, 1, n) = SubSeq(b, 1, n)
    /\ n = Len(a) \/ a[n + 1] < b[n + 1]

(* All the comparisons are one order, that of words, in which equal is     *)
(* what has equal bytes: 0 bytes, prefixes, overlapping pieces and the     *)
(* empty piece at NULL included (StringPiece.h:145-183, 196-199).          *)
OneOrder ==
  LET a == as_string(this)  b == as_string(that) IN
  /\ Under = Before(a, b) /\ Above = Before(b, a)
  /\ AtMost = ~Before(b, a) /\ AtLeast = ~Before(a, b)
  /\ Equal = (a = b)
  /\ compare < 0 <=> Under
  /\ compare > 0 <=> Above
  /\ starts_with = IsPrefix(b, a)
=============================================================================
