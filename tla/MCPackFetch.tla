------------------------------- MODULE MCPackFetch -----------------------------
(***************************************************************************)
(* PackFetch on two trees, one of them in no pack, and two blobs that are  *)
(* in the pack of the other and may also be found on their own.  One key   *)
(* stands for either blob on its own: they are read one after the other,   *)
(* and each finds that file in every state it can be in.                   *)
(***************************************************************************)
EXTENDS PackFetch

CONSTANTS t, u, b, g, kp, kb, c1

MCObject == {t, u, b, g}
MCTree == {t, u}
MCKey == {kp, kb}
MCClient == {c1}
MCPack == [o \in MCObject |-> IF o = u THEN NoPack ELSE kp]
MCSingle == [o \in {b, g} |-> kb]
================================================================================
