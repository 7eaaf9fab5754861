------------------------------- MODULE Units -------------------------------
(***************************************************************************)
(* formatSI() and formatIEC() of src/LogStream.cc: a quantity in at most 5 *)
(* or 6 characters.  The arithmetic of double is done exactly, with a      *)
(* significand of Precision bits: a double is [m, k], which stands for     *)
(* m / 2^k.  The units are numbered: 1 is k or Ki, LastUnit E or Ei.       *)
(***************************************************************************)
EXTENDS Integers, FiniteSetsExt

CONSTANTS
  Precision,       \* bits of a double's significand, 53 in the code
  LastUnit,        \* 6 in the code
  Quantities       \* the arguments

(* Powers are recursive functions, as are the bits of a division.          *)
Power(b) == LET power[n \in Nat] == IF n = 0 THEN 1 ELSE b * power[n - 1] IN power

Limit == Power(2)[Precision]

(* No whole number up to which doubles are exact outgrows the last unit.   *)
ASSUME UnitsAssumption ==
  /\ Precision \in Nat \ {0} /\ LastUnit \in Nat \ {0} /\ Quantities \subseteq Nat
  /\ Limit \div Power(1000)[LastUnit - 1] < 9995

VARIABLES
  function,        \* "SI" or "IEC"
  number,          \* its argument
  printed          \* what snprintf() printed

format == <<function, number, printed>>

NotPrinted == [unit |-> -1, decimals |-> 0, digits |-> 0]

UnitsInit == function \in {"SI", "IEC"} /\ number \in Quantities /\ printed = NotPrinted

-----------------------------------------------------------------------------
(* double.                                                                 *)

(* To the nearest, and to the even one of two: n / d is m and a rest.      *)
Nearest(m, rest, d) ==
  IF 2 * rest > d \/ (2 * rest = d /\ m % 2 = 1) THEN m + 1 ELSE m

(* static_cast<double>(n), which is whole again; int64_t has 64 bits.      *)
ToDouble(n) ==
  LET lost == CHOOSE j \in 0..64 : /\ n < Limit * Power(2)[j]
                                   /\ j # 0 => n >= Limit * Power(2)[j - 1]
      ulp == Power(2)[lost]
  IN ulp * Nearest(n \div ulp, n % ulp, ulp)

(* The first bits of n / d, k of them behind the point, and the rest.      *)
Bits(n, d) ==
  LET bits[k \in Nat] ==
        IF k = 0 THEN [m |-> n \div d, rest |-> n % d]
        ELSE LET b == bits[k - 1]
             IN  [m |-> 2 * b.m + (2 * b.rest) \div d, rest |-> (2 * b.rest) % d]
  IN bits

(* As many bits as a significand has.                                      *)
Divide(n, d) ==
  LET bits == Bits(n, d)
      k == CHOOSE k \in 0..(Precision + 10 * LastUnit) :
             2 * bits[k].m >= Limit /\ (k # 0 => 2 * bits[k - 1].m < Limit)
  IN [m |-> Nearest(bits[k].m, bits[k].rest, d), k |-> k]

(* x * 2^shift                                                             *)
Scale(x, shift) ==
  IF shift <= x.k THEN [x EXCEPT !.k = @ - shift]
                  ELSE [m |-> x.m * Power(2)[shift - x.k], k |-> 0]

Less(n, x) == n <= (x.m - 1) \div Power(2)[x.k]

(* printf() rounds what the double is: its decimals as an integer.         *)
Decimal(x, decimals) ==
  LET m == x.m * Power(10)[decimals]
      d == Power(2)[x.k]
  IN Nearest(m \div d, m % d, d)

-----------------------------------------------------------------------------
kilo == 1000
Ki   == 1024
SizeSI(unit)  == Power(kilo)[unit]
SizeIEC(unit) == Power(2)[10 * unit]

AsItIs == [unit |-> 0, decimals |-> 0, digits |-> number]

InUnit(unit, size, decimals) ==
  [unit |-> unit, decimals |-> decimals,
   digits |-> Decimal(Divide(ToDouble(number), size), decimals)]

(* formatSI() compares the integer: with 9995, 99950 and 999500 times the  *)
(* size of the unit before.                                                *)
FirstOfFour_Unrounded == 10000       \* mutation: where %.2f is 10.00
FirstOfFour == 9995

formatSI ==
  LET Under(n, unit) == number < n * SizeSI(unit - 1)
      unit == Min({u \in 1..LastUnit : u = LastUnit \/ Under(999500, u)})
  IN IF number < kilo THEN AsItIs
     ELSE InUnit(unit, SizeSI(unit),
                 IF unit = LastUnit \/ Under(FirstOfFour, unit) THEN 2
                 ELSE IF Under(99950, unit) THEN 1 ELSE 0)

(* formatIEC() compares the double, with products of doubles.              *)
Below(n, perMille, unit) == Less(n, Scale(Divide(perMille, 1000), 10 * unit))

formatIEC ==
  LET n == ToDouble(number)
      unit == Min({u \in 1..LastUnit : u = LastUnit \/ Below(n, 1023500, u)})
  IN IF n < Ki THEN AsItIs
     ELSE InUnit(unit, SizeIEC(unit),
                 IF Below(n, 9995, unit) THEN 2
                 ELSE IF unit = LastUnit \/ Below(n, 99950, unit) THEN 1 ELSE 0)

SI  == function = "SI" /\ printed = NotPrinted /\ printed' = formatSI
IEC == function = "IEC" /\ printed = NotPrinted /\ printed' = formatIEC

Format  == (SI \/ IEC) /\ UNCHANGED <<function, number>>
Printed == printed # NotPrinted /\ UNCHANGED format

UnitsNext == Format \/ Printed

UnitsSpec == UnitsInit /\ [][UnitsNext]_format

-----------------------------------------------------------------------------
(* How many digits an integer of int64_t has.                              *)
DecimalLength(n) ==
  CHOOSE l \in 1..20 : n < Power(10)[l] /\ (l # 1 => n >= Power(10)[l - 1])

Mantissa == DecimalLength(printed.digits) + IF printed.decimals > 0 THEN 1 ELSE 0
Suffix   == IF printed.unit = 0 THEN 0 ELSE IF function = "SI" THEN 1 ELSE 2

Size == IF function = "SI" THEN SizeSI(printed.unit) ELSE SizeIEC(printed.unit)

Distance(a, b) == IF a < b THEN b - a ELSE a - b

(* Of every quantity that a double holds exactly the text is as short as   *)
(* promised (LogStream.h:236-244), its mantissa is in the range that the   *)
(* comments give (LogStream.cc:92-101, 143-149), and no text of as many    *)
(* decimals is nearer to the quantity.                                     *)
UnitsFit ==
  printed # NotPrinted /\ number <= Limit =>
    /\ Mantissa + Suffix <= IF function = "SI" THEN 5 ELSE 6
    /\ printed.unit # 0 => printed.digits >= 100
    /\ function = "SI" \/ printed.decimals # 0 => printed.digits <= 999
    /\ 2 * Distance(printed.digits * Size, number * Power(10)[printed.decimals]) <= Size

(* "The returned string is atmost 5 characters long" (LogStream.h:237).    *)
SIWidth == function = "SI" /\ printed # NotPrinted => Mantissa + Suffix <= 5
=============================================================================
