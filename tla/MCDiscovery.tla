------------------------------ MODULE MCDiscovery ------------------------------
(***************************************************************************)
(* Discovery on two backup sets with a bucket each.  The bucket of the     *)
(* first may be bad from the start, any file may become so.                *)
(***************************************************************************)
EXTENDS Discovery, TLC

CONSTANTS s1, s2, b1, b2

MCSetOf == (b1 :> s1) @@ (b2 :> s2)
MCDoubtful == {<<b1, "plist">>, <<b1, "head">>}
================================================================================
