----------------------------- MODULE MCLibrary -----------------------------
(***************************************************************************)
(* The sequential parts of the library, one at a time: subject says which  *)
(* one a behaviour is about, the others stay where they begin.             *)
(***************************************************************************)
EXTENDS Calendar, MCTimeZone, Convert, Units, TimedWait, PtrVector, SmallFile, StringPiece

VARIABLE subject

Subjects == {"calendar", "zone", "convert", "units", "wait", "pointers", "smallfile",
             "strings"}

(* Numbers of 11 bits.                                                     *)
SignedInts   == -1024..1023
UnsignedInts == 0..2047

(* Around every threshold and every size of a unit, and around the number  *)
(* from which on a double is not exact.                                    *)
Near(n) == (n - 30)..(n + 30)
Edges == UNION {Near(n) : n \in {30, 1000, 1024, 9995, 10235, 99950, 102349,
                                  999500, 1000000, 1048064, 1048576, 9995000,
                                  10480517, 10000000, 2 ^ 24 - 30}}

Waits == {0, 1, 3, 6}
Sizes == {0, 1, 3, 5}
Pair  == {"a", "b"}
Chars == {0, 65, 200}

LibraryInit ==
  /\ subject \in Subjects
  /\ CalendarInit
  /\ ZoneInit    /\ (subject # "zone"      => zoneFile = CHOOSE z \in ZoneFiles : TRUE)
  /\ ConvertInit /\ (subject # "convert"   => value = 0 /\ base = 10)
  /\ UnitsInit   /\ (subject # "units"     => number = 0 /\ function = "SI")
  /\ WaitInit    /\ (subject # "wait"      => wall = 0)
  /\ PtrInit
  /\ ReadInit    /\ (subject # "smallfile" => kind = "file" /\ size = 0)
  /\ StringPieceInit /\ (subject # "strings" => memory = [k \in 1..MemorySize |-> 0])

LibraryNext ==
  /\ UNCHANGED subject
  /\ IF subject = "calendar"  THEN CalendarNext ELSE UNCHANGED calendar
  /\ IF subject = "zone"      THEN ZoneNext     ELSE UNCHANGED zoneVars
  /\ IF subject = "convert"   THEN ConvertNext  ELSE UNCHANGED conversion
  /\ IF subject = "units"     THEN UnitsNext    ELSE UNCHANGED format
  /\ IF subject = "wait"      THEN WaitNext     ELSE UNCHANGED waitVars
  /\ IF subject = "pointers"  THEN PtrNext      ELSE UNCHANGED heap
  /\ IF subject = "smallfile" THEN ReadNext     ELSE UNCHANGED readVars
  /\ IF subject = "strings"   THEN StringPieceNext ELSE UNCHANGED strings

LibrarySpec ==
  LibraryInit /\ [][LibraryNext]_<<subject, calendar, zoneVars, conversion,
                                   format, waitVars, heap, readVars, strings>>
=============================================================================
