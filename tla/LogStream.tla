----------------------------- MODULE LogStream -----------------------------
(***************************************************************************)
(* What << does to the FixedBuffer of a LogStream (src/LogStream.{h,cc}).  *)
(* A text is copied whole or not at all; a number is converted in place,   *)
(* without append(), when kMaxNumericSize bytes are free, and otherwise    *)
(* left out.  The conversions write a 0 byte behind the number.            *)
(***************************************************************************)
EXTENDS Integers, Sequences

CONSTANTS
  kSmallBuffer,       \* the capacity (4000)
  kMaxNumericSize     \* 32

ASSUME StreamAssumption ==
  /\ kSmallBuffer \in Nat /\ kMaxNumericSize \in Nat
  /\ 2 < kMaxNumericSize /\ kMaxNumericSize <= kSmallBuffer

Buf == INSTANCE FixedBuffer WITH SIZE <- kSmallBuffer

NoText == Buf!Empty
Free(b) == Buf!avail(b)

Text(b, piece, len) == Buf!append(b, piece, len)

NumberFits_Unchecked(b) == TRUE      \* mutation: no look at what is free
NumberFits_Strict(b) == Buf!avail(b) > kMaxNumericSize     \* mutation: > for >=
NumberFits(b) == Buf!avail(b) >= kMaxNumericSize

(* formatInteger(), and << of a pointer and of a double.                   *)
Number(b, piece, len) ==
  IF NumberFits(b)
    THEN [data |-> Append(b.data, piece), length |-> b.length + len]
    ELSE b
=============================================================================
