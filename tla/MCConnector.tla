------------------------------ MODULE MCConnector ------------------------------
(***************************************************************************)
(* Connection on two keys and two goroutines, every connector, both        *)
(* operating systems.  Below the prefix that is listed are two folders,    *)
(* one with the two keys and one with an object that has a comma in its    *)
(* name, and an object of its own.                                         *)
(***************************************************************************)
EXTENDS Connection, TLC

CONSTANTS c1, c2

MCKey == {2, 3}
MCClient == {c1, c2}
MCSymmetry == Permutations(MCClient)

MCName == {2, 3, 4, 7}
MCEntryOf == [d \in {"/", ","} |-> [n \in MCName |->
    CASE d = "/" /\ n \in {2, 3} -> 1
      [] d = "/" /\ n = 7 -> 5
      [] d = "," /\ n = 7 -> 6
      [] OTHER -> n]]
MCDirectory == << <<"s">>, <<"b">> >>
MCElement == [e \in 1..7 |-> << <<"x">> >>]
MCRemotePaths == { EmptyPath, Slash, << <<>>, <<"a">> >>, << <<"s">>, <<>> >>,
                   << <<".">>, <<"a">> >>, << Dot >> }

(***************************************************************************)
(* A bound of this run alone: TLC follows the lists that begin over a part *)
(* of what downloads leave, without failures on Unix and after a lost      *)
(* connection on Windows, and all downloads.  A list neither reads nor     *)
(* writes what is bounded here (ListingProofs proves it without a bound).  *)
(***************************************************************************)
ListsAreExplored ==
    listing # "pages" /\ listing' = "pages" =>
        /\ \A k \in Key : remote[k] \in {"none", "whole"}
        /\ \/ /\ host = "unix" /\ faults = {}
              /\ \A k \in Key : cache[k] \in {"none", "whole"}
           \/ /\ host = "windows" /\ faults = {"network"}
              /\ cache \in {[k \in Key |-> file] : file \in {"empty", "damaged"}}
================================================================================
