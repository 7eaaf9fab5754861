---------------------------- MODULE FixedBuffer ----------------------------
(***************************************************************************)
(* detail::FixedBuffer<SIZE> of src/LogStream.h: a byte array of SIZE      *)
(* bytes and a write cursor.  The bytes are abstracted to the sequence of  *)
(* pieces that were copied in (data) and the cursor's distance from the    *)
(* beginning (length).  A piece is whatever the owner of the buffer        *)
(* appends: a log line for AsyncLogging, one operand of << for LogStream.  *)
(***************************************************************************)
EXTENDS Integers, Sequences

CONSTANT SIZE

(* A buffer after construction or reset(): cur_ = data_.                   *)
Empty == [data |-> << >>, length |-> 0]

Buffer == [data : Seq(Nat), length : Nat]

(* end() - cur_ *)
avail(b) == SIZE - b.length

(* append() copies the whole piece or, when not strictly more than len     *)
(* bytes are free, nothing at all and without telling the caller.          *)
append(b, piece, len) ==
  IF avail(b) > len
    THEN [data |-> Append(b.data, piece), length |-> b.length + len]
    ELSE b

(* cur_ goes back to data_; what was written is out of reach.              *)
reset(b) == Empty
=============================================================================
