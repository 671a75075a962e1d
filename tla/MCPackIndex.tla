------------------------------ MODULE MCPackIndex ------------------------------
(***************************************************************************)
(* PackIndex on four objects, two of which share their first byte, and     *)
(* directories of up to two indexes, intact or cut short.                  *)
(***************************************************************************)
EXTENDS PackIndex, FiniteSets, SequencesExt

CONSTANTS a0, b1, c1, d2

MCSHA1 == {a0, b1, c1, d2}
MCFirstByte == [s \in MCSHA1 |-> CASE s = a0 -> 0 [] s \in {b1, c1} -> 1 [] s = d2 -> 2]

(* The order of the names. *)
Names == <<a0, b1, c1, d2>>

(* The index of the objects of one pack. *)
IndexOf(pack) ==
    [fanout  |-> [b \in 0..Bytes - 1 |-> Cardinality({s \in pack : MCFirstByte[s] <= b})],
     objects |-> SelectSeq(Names, LAMBDA s : s \in pack)]

(* What a broken transfer leaves of it: fewer objects, or not all of the   *)
(* header, which binary.Read then takes for zeros.                         *)
CutShort(ix) ==
    {[ix EXCEPT !.objects = SubSeq(ix.objects, 1, n)] : n \in 0..Len(ix.objects) - 1}
    \cup {[fanout |-> [b \in 0..Bytes - 1 |-> 0], objects |-> <<>>]}

Whole == {IndexOf(pack) : pack \in SUBSET MCSHA1}
Files == Whole \cup UNION {CutShort(ix) : ix \in Whole}

MCDirectories == BoundedSeq(Files, 2)

ASSUME WholeIsIntact == \A ix \in Whole : Intact(ix)
================================================================================
