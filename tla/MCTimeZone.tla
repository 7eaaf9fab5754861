----------------------------- MODULE MCTimeZone -----------------------------
(***************************************************************************)
(* The instances of TimeZone that TLC explores: an hour of 4 seconds, a    *)
(* day of 6 hours, at most three changes that are a day apart, between a   *)
(* standard time and its daylight saving time in any order.                *)
(***************************************************************************)
EXTENDS TimeZone

Times24  == -16..80
East     == {-4, 8}
Standard(east) == Localtime(east, FALSE)
Daylight(east) == Localtime(east + Hour, TRUE)

Changing == {<< >>} \cup UNION {
  {[i \in 1..n |-> [at |-> 24 * i - 20, type |-> kinds[i]]] : kinds \in [1..n -> {1, 2}]} : n \in 1..3}

Zones ==
  {[types |-> types, transitions |-> transitions] :
     types \in {<<Standard(e), Daylight(e)>> : e \in East}
               \cup {<<Daylight(e), Standard(e)>> : e \in East}
               \cup {<<Standard(e)>> : e \in East},
     transitions \in Changing}

(* A file names only types that it has.                                    *)
Files == {z \in Zones : \A i \in DOMAIN z.transitions : z.transitions[i].type \in DOMAIN z.types}
=============================================================================
