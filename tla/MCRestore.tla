------------------------------- MODULE MCRestore -------------------------------
(***************************************************************************)
(* Restore on a commit of "/u/d" with two directories, one inside the      *)
(* other behind a file of two blobs, with a file of the same name that     *)
(* shares one of them, a directory "u" nobody may write in, and a file of  *)
(* zero bytes at the end.  "/u/ds" and "/u/d." are paths beside the        *)
(* commit's that become those of "s" and of the commit itself when the     *)
(* strings are cut.  One commit is of the whole disk, "/".                 *)
(***************************************************************************)
EXTENDS Restore

CONSTANTS root, sub, locked, f1, f2, f3, empty, b1, b2

MCNode == {root, sub, locked, f1, f2, f3, empty}
MCDirectory == {root, sub, locked}
MCChildren == [d \in MCDirectory |->
    CASE d = root   -> <<f1, sub, locked, empty>>
      [] d = sub    -> <<f2>>
      [] d = locked -> <<f3>>]
MCPath == [n \in MCNode |->
    CASE n = root -> <<root>>
      [] n = f2   -> <<root, sub, f2>>
      [] n = f3   -> <<root, locked, f3>>
      [] OTHER    -> <<root, n>>]
MCName == [n \in MCNode |->
    CASE n = root   -> <<"d">>
      [] n = sub    -> <<"s">>
      [] n = locked -> <<"u">>
      [] n = empty  -> <<"e">>
      [] OTHER      -> <<"f">>]
MCBlob == {b1, b2}
MCBlobsOf == [f \in MCNode \ MCDirectory |->
    CASE f = f1 -> <<b1, b2>>
      [] f = f2 -> <<b2>>
      [] f = f3 -> <<b1>>
      [] f = empty -> <<>>]
MCReadOnly == {locked}

Plain == << <<>>, <<"u">>, <<"d">> >>
Escaped == << <<>>, <<"u">>, <<"d", "%20">> >>
Plus == << <<>>, <<"u">>, <<"d", "+">> >>
Percent == << <<>>, <<"u">>, <<"d", "%">> >>

Backup(commit, of, computer, path) ==
    [commit |-> commit, tree |-> of, location |-> [computer |-> computer, path |-> path]]

(* Between them each version that adds or drops a field. *)
MCBackups == {
    Backup(2, 10, "mac", Plain), Backup(3, 11, "mac", Plain),
    Backup(4, 12, "mac", Plain), Backup(5, 14, "mac", Escaped),
    Backup(7, 16, "mac", Percent), Backup(8, 15, "mac", Plus),
    Backup(9, 17, "", Plain), Backup(10, 18, "mac", Plain),
    Backup(6, 13, "mac", Slash)}

MCBelow == {
    << <<>> >>, << <<>>, <<>> >>, << <<>>, <<"f">> >>, << <<>>, <<"s">> >>,
    << <<>>, <<"s">>, <<>> >>, << <<>>, <<"s">>, <<"f">> >>,
    << <<>>, <<"u">> >>, << <<>>, <<"u">>, <<"f">> >>, << <<>>, <<"e">> >>,
    << <<"s">> >>, << <<".">> >>, << <<>>, <<"x">> >>, << <<>>, <<"f">>, <<"x">> >>,
    << <<>>, <<>>, <<"s">> >>, << <<>>, <<"s">>, <<".", ".">>, <<"f">> >>,
    << <<>>, <<".", ".">> >> }
MCElsewhere == { << <<>>, <<"v">> >>, << <<>>, <<>> >> }
================================================================================
