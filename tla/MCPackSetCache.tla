---------------------------- MODULE MCPackSetCache -----------------------------
(***************************************************************************)
(* PackSetCache on a tree pack set of two indexes, then a blob pack set of *)
(* one index, with two workers.                                            *)
(***************************************************************************)
EXTENDS PackSetCache, TLC

CONSTANTS i1, i2, i3, p1, w1, w2

MCKey == {i1, i2, i3}
MCOther == {p1}
MCPackSets == <<{i1, i2}, {i3}>>
MCClient == {w1, w2}
(* Less, for the temporal properties: one index in each pack set. *)
MCTwoKeys == {i1, i2}
MCTwoIndexes == <<{i1, p1}, {i2}>>

MCSymmetry == Permutations({i1, i2}) \cup Permutations(MCClient)
================================================================================
