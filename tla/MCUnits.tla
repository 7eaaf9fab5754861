------------------------------ MODULE MCUnits ------------------------------
(***************************************************************************)
(* Units with doubles of 13 bits, in which the large numbers of formatSI() *)
(* are no longer exact though its unit is only k: what 53 bits are to P.   *)
(***************************************************************************)
EXTENDS Units

Near(n) == (n - 60)..(n + 60)
BeyondDouble == UNION {Near(n) : n \in {9995, 99950, 999500}}
=============================================================================
