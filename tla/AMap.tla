-------------------------------- MODULE AMap --------------------------------
(***************************************************************************)
(* The map from numbers to pointers that consists of several arrays        *)
(* (datas/amap.c).  AMAP_MAX_ARRAY_LENGTH is defined as 1024*8 without     *)
(* parentheses, so that a division by it divides by 1024 and multiplies by *)
(* 8.  Here 1024 is Unit and 8 is Times.                                   *)
(***************************************************************************)
EXTENDS Integers

CONSTANTS Unit, Times

ASSUME UnitAssumption == Unit \in Nat \ {0} /\ Times \in Nat \ {0}

(* The length of an array, where the macro stands alone.                   *)
ArrayLength == Unit * Times

(* _amap_new.  0 is NULL.                                                  *)
RoundUp(size) ==
  IF size % Unit = 0 THEN size ELSE Unit * (1 + (size \div Unit))
NumArrays(size) == (RoundUp(size) \div Unit) * Times
AmapNew(size) ==
  [size |-> RoundUp(size),
   arrays |-> [i \in 0 .. NumArrays(size) - 1 |->
                 [j \in 0 .. ArrayLength - 1 |-> 0]]]

(* Faulty variant: the division goes by the whole length, the remainder    *)
(* does not.                                                               *)
CellHalfCorrected(position) ==
  <<position \div (Unit * Times), (position % Unit) * Times>>

(* The array and the index in it, in every operation.                      *)
Cell(position) == <<(position \div Unit) * Times, (position % Unit) * Times>>

InRange(a, position) == position < a.size

(* amap_set and amap_unset of a position in range, amap_get.               *)
AmapSet(a, position, value) ==
  [a EXCEPT !.arrays[Cell(position)[1]][Cell(position)[2]] = value]
AmapUnset(a, position) == AmapSet(a, position, 0)
AmapGet(a, position) ==
  IF InRange(a, position)
  THEN a.arrays[Cell(position)[1]][Cell(position)[2]]
  ELSE 0
=============================================================================
