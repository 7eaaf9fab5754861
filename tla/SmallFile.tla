----------------------------- MODULE SmallFile -----------------------------
(***************************************************************************)
(* ReadSmallFile of src/FileUtil.{h,cc}: a file that others write to while *)
(* it is read piece by piece, by calls that may fail or give less than was *)
(* asked for.  A byte is its place in the file.                            *)
(***************************************************************************)
EXTENDS Integers, Sequences, SequencesExt

CONSTANTS
  kBufferSize,
  MaxSizes,        \* what callers pass for maxSize
  LargestFile,     \* bound of the model
  MaxReads         \* bound of the model: calls of readToString(), readToBuffer()

ASSUME SmallFileAssumption ==
  /\ kBufferSize \in Nat \ {0} /\ MaxSizes \subseteq Nat
  /\ LargestFile \in Nat /\ MaxReads \in Nat

VARIABLES
  kind, size,      \* the file: regular or a directory, and its length
  rpc,             \* reading, or what was done last
  err_, err,       \* 0 or an errno
  offset,          \* of the open file
  maxSize, content,
  buf_,            \* the bytes that readToBuffer() put there, 0 at their end
  atEnd,           \* the last read() found nothing more
  reads

fileOnDisk == <<kind, size>>
reader == <<rpc, err_, err, offset, maxSize, content, buf_, atEnd, reads>>
readVars == <<fileOnDisk, reader>>

ReadInit ==
  /\ kind \in {"file", "directory"} /\ size \in 0..LargestFile
  /\ rpc = "new" /\ err_ = "0" /\ err = "0" /\ offset = 0
  /\ maxSize = 0 /\ content = << >> /\ buf_ = << >> /\ atEnd = FALSE /\ reads = 0

(* The constructor remembers why open() failed; there is no other fd.      *)
Open ==
  /\ rpc = "new"
  /\ rpc' = "open" /\ err_' \in {"0", "ENOENT"}
  /\ UNCHANGED <<fileOnDisk, err, offset, maxSize, content, buf_, atEnd, reads>>

Idle == rpc # "new" /\ rpc # "reading"
IsOpen == err_ = "0"

Call == Idle /\ reads < MaxReads /\ reads' = reads + 1

(* readToString(): lines 92 to 114.  fstat() is asked only when the caller *)
(* wants the size, and its error does not stop the reading.                *)
ReadToString ==
  /\ Call /\ maxSize' \in MaxSizes
  /\ IF IsOpen
       THEN /\ rpc' = "reading" /\ content' = << >> /\ atEnd' = FALSE
            /\ \/ err' = err_
               \/ kind = "directory" /\ err' = "EISDIR"
               \/ err' = "EIO"
       ELSE rpc' = "string" /\ err' = err_ /\ UNCHANGED <<content, atEnd>>
  /\ UNCHANGED <<fileOnDisk, err_, offset, buf_>>

Smaller(a, b) == IF a < b THEN a ELSE b
ToRead == Smaller(maxSize - Len(content), kBufferSize)
Bytes(from, n) == [i \in 1..n |-> from + i]

GoesOn_Full(n) == n = ToRead           \* mutation: a short read is the end
GoesOn(n) == n > 0

(* read(): some of what there is, at most toRead; nothing at the end.      *)
Read ==
  /\ rpc = "reading" /\ kind = "file" /\ Len(content) < maxSize
  /\ \E n \in 0..ToRead :
       /\ IF n = 0 THEN offset >= size ELSE offset + n <= size
       /\ content' = content \o Bytes(offset, n) /\ offset' = offset + n
       /\ atEnd' = (offset >= size)
       /\ rpc' = IF GoesOn(n) THEN "reading" ELSE "string"
  /\ UNCHANGED <<fileOnDisk, err_, err, maxSize, buf_, reads>>

ReadFails ==
  /\ rpc = "reading" /\ Len(content) < maxSize /\ rpc' = "string"
  /\ err' = IF kind = "directory" THEN "EISDIR" ELSE "EIO"
  /\ UNCHANGED <<fileOnDisk, err_, offset, maxSize, content, buf_, atEnd, reads>>

Enough ==
  /\ rpc = "reading" /\ Len(content) >= maxSize /\ rpc' = "string"
  /\ UNCHANGED <<fileOnDisk, err_, err, offset, maxSize, content, buf_, atEnd, reads>>

(* readToBuffer(): pread() from the beginning, once, with a place left for *)
(* the 0 byte.                                                             *)
Room == kBufferSize - 1

ReadToBuffer ==
  /\ Call /\ rpc' = "buffer"
  /\ IF IsOpen
       THEN \/ /\ kind = "file" /\ err' = err_
               /\ \E n \in 0..Smaller(Room, size) :
                    /\ n = 0 => Smaller(Room, size) = 0
                    /\ buf_' = Append(Bytes(0, n), 0)
            \/ kind = "file" /\ err' = "EIO" /\ UNCHANGED buf_
            \/ kind = "directory" /\ err' = "EISDIR" /\ UNCHANGED buf_
       ELSE err' = err_ /\ UNCHANGED buf_
  /\ UNCHANGED <<fileOnDisk, err_, offset, maxSize, content, atEnd>>

(* Somebody else writes to the file or truncates it.                       *)
FileChanges ==
  /\ kind = "file" /\ size' \in 0..LargestFile
  /\ UNCHANGED <<kind, reader>>

ReadOver == Idle /\ reads = MaxReads /\ UNCHANGED readVars

ReadNext ==
  \/ Open \/ ReadToString \/ Read \/ ReadFails \/ Enough \/ ReadToBuffer
  \/ FileChanges \/ ReadOver

ReadSpec == ReadInit /\ [][ReadNext]_readVars

-----------------------------------------------------------------------------
(* What a caller can rely on: never more than maxSize bytes, of one piece  *)
(* and in order; without an error all there was, up to maxSize, however    *)
(* short the single reads were; and a 0 byte inside the buffer.            *)
ReadWhole ==
  /\ Len(content) <= maxSize
  /\ \A i \in DOMAIN content : content[i] = content[1] + (i - 1)
  /\ rpc = "string" /\ err = "0" => atEnd \/ Len(content) = maxSize
  /\ Len(buf_) <= kBufferSize
=============================================================================
