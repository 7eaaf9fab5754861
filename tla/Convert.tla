------------------------------ MODULE Convert ------------------------------
(***************************************************************************)
(* convert() and convertHex() of src/LogStream.cc: the loop that writes a  *)
(* number's digits backwards, and the reversal.  A digit is its value and  *)
(* the character '-' is Minus.                                             *)
(***************************************************************************)
EXTENDS CInt, Sequences, SequencesExt

CONSTANTS
  Signed, Unsigned      \* the values of T, all of them

ASSUME ConvertAssumption == Signed \subseteq Int /\ Unsigned \subseteq Nat

VARIABLES
  value, base,    \* the arguments: base 16 is convertHex()
  rest, buf,      \* the local i, and what has been written to buf so far
  converted       \* the function returned

call == <<value, base>>
conversion == <<call, rest, buf, converted>>

Minus == -1

ConvertInit ==
  /\ \/ base = 10 /\ value \in Signed \cup Unsigned
     \/ base = 16 /\ value \in Unsigned
  /\ rest = value /\ buf = << >> /\ converted = FALSE

(* The table of digits reads the same in both directions from its zero:    *)
(* what is left of a negative number has remainders -9 to 0.               *)
DigitAt_OneSided(lsd) == IF lsd < 0 THEN 10 + lsd ELSE lsd    \* mutation
DigitAt(lsd) == IF lsd < 0 THEN -lsd ELSE lsd

(* The body of do-while runs for 0 as well, and then only once.            *)
Digit ==
  /\ ~converted /\ (rest # 0 \/ buf = << >>)
  /\ rest' = Quot(rest, base)
  /\ buf' = Append(buf, DigitAt(Rem(rest, base)))
  /\ UNCHANGED <<call, converted>>

(* The sign is looked up in value, for rest has been used up.              *)
ReverseText ==
  /\ ~converted /\ rest = 0 /\ buf # << >> /\ converted' = TRUE
  /\ buf' = Reverse(IF value < 0 THEN Append(buf, Minus) ELSE buf)
  /\ UNCHANGED <<call, rest>>

Converted == converted /\ UNCHANGED conversion

ConvertNext == Digit \/ ReverseText \/ Converted

ConvertSpec == ConvertInit /\ [][ConvertNext]_conversion

-----------------------------------------------------------------------------
(* The number that a text denotes.                                         *)
Horner(digits) ==
  LET horner[n \in 0..Len(digits)] ==
        IF n = 0 THEN 0 ELSE horner[n - 1] * base + digits[n]
  IN  horner[Len(digits)]

Denoted(text) == IF Head(text) = Minus THEN -Horner(Tail(text)) ELSE Horner(text)

(* The text is the number, in digits of its base and without a leading     *)
(* zero, for every value of the type: the smallest one too, which has no   *)
(* positive counterpart (LogStream.cc:48-85).                              *)
ConvertExact ==
  converted =>
    LET digits == IF Head(buf) = Minus THEN Tail(buf) ELSE buf IN
    /\ Denoted(buf) = value /\ Minus \notin Range(digits)
    /\ \A k \in DOMAIN digits : digits[k] \in 0..(base - 1)
    /\ Len(digits) > 1 => digits[1] # 0
=============================================================================
