-------------------------------- MODULE CInt --------------------------------
(* The integers of C++ where they are not TLA+'s.                          *)
EXTENDS Integers

(* / and % round to 0.                                                     *)
Quot(n, d) == IF n >= 0 THEN n \div d ELSE -((-n) \div d)
Rem(n, d)  == n - d * Quot(n, d)
=============================================================================
