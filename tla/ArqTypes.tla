-------------------------------- MODULE ArqTypes -------------------------------
(***************************************************************************)
(* The formats of commits and trees, and the parsers that read them        *)
(* (arq/types/*.go).                                                       *)
(*                                                                         *)
(* An object is a sequence of cells, one for each field, with the kind of  *)
(* encoding the field has: fields do not name themselves, so a parser that *)
(* expects another field than was written takes its bytes for something    *)
(* else.  Which fields there are depends on the version in the header.     *)
(* The fixed-width integers between two other fields are one cell "ints".  *)
(***************************************************************************)
EXTENDS Naturals, Sequences, SequencesExt, Paths

CONSTANT Nil       \* the null pointer, and a field that is not present

Cell(kind, val) == [kind |-> kind, val |-> val]

(* Fields that are read, or written, under a condition; and n times. *)
When(condition, fields) == IF condition THEN fields ELSE <<>>
Times(n, fields) == FlattenSeq([j \in 1..n |-> fields])

(***************************************************************************)
(* The bytes.Buffer of a parser: what is left in it, the first error, the  *)
(* first value of the fields read last, and a list that is being built.    *)
(* "misread" is the end of what can be said: the bytes of one field have   *)
(* been taken for another.                                                 *)
(***************************************************************************)
Buffer(cells) == [in |-> cells, err |-> "none", val |-> Nil, list |-> <<>>]

Failed(s, err) == [s EXCEPT !.err = err]

Read(s, kinds) ==
    IF s.err # "none" \/ kinds = <<>> THEN s
    ELSE IF Len(s.in) < Len(kinds) THEN Failed(s, "eof")
    ELSE IF \E j \in DOMAIN kinds : s.in[j].kind # kinds[j] THEN Failed(s, "misread")
    ELSE [s EXCEPT !.in = SubSeq(@, Len(kinds) + 1, Len(@)), !.val = Head(s.in).val]

Commit == "commit"
Tree == "tree"

ReadHeader(s) == Read(s, <<"header">>)

(* What is read before a list: how many elements it has. *)
ReadCount(s) == Read([s EXCEPT !.list = <<>>], <<"count">>)
Count(s) == IF s.err = "none" THEN s.val ELSE 0

(* One more element of a list, of which r has read the others. *)
Listed(r, one) == [one EXCEPT !.list = Append(r.list, one.val)]
--------------------------------------------------------------------------------
(* A mistake to be caught: the gate of commits is used for trees. *)
IsStretchedFromFour(h) == h.version >= 4

(* The version from which on a key says whether it is stretched. *)
IsStretched(h) ==
    \/ h.type = Tree /\ h.version >= 14
    \/ h.type = Commit /\ h.version >= 4

BlobKey(h, readIsCompressed) ==
    <<"string">>
    \o When(IsStretched(h), <<"boolean">>)
    \o When(h.type = Commit /\ h.version >= 8 /\ readIsCompressed, <<"boolean">>)
    \o When(h.type = Tree /\ h.version >= 17, <<"ints", "string", "ints", "date">>)

(* The value is the SHA1. *)
ReadBlobKey(s, h, readIsCompressed) == Read(s, BlobKey(h, readIsCompressed))

(* The loop over the data blob keys, or over the parents of a commit. *)
ReadBlobKeys(s, h) ==
    LET count == ReadCount(s)
        after[n \in 0..Count(count)] ==
            IF n = 0 THEN count
            ELSE Listed(after[n - 1], ReadBlobKey(after[n - 1], h, FALSE))
    IN  after[Count(count)]

(***************************************************************************)
(* A node.  IsTrue is called on DataAreCompressed for each data blob key,  *)
(* and trees before version 12 leave that pointer nil.                     *)
(***************************************************************************)
ReadNode(s, h) ==
    LET name == Read(s, <<"string">>)
        isTree == Read(name, <<"boolean">>)
        flags == Read(isTree, When(h.version >= 18, <<"boolean">>)
                              \o When(h.version >= 12, Times(3, <<"boolean">>)))
        keys == ReadBlobKeys(flags, h)
        end == Read(keys, <<"ints">>
                          \o When(h.version < 18, Times(2, BlobKey(h, FALSE)))
                          \o BlobKey(h, TRUE) \o <<"ints">>
                          \o BlobKey(h, TRUE) \o <<"ints">>
                          \o <<"string", "string", "boolean", "ints">>)
    IN  IF h.version < 12 /\ keys.list # <<>> THEN Failed(s, "panic")
        ELSE [end EXCEPT !.val = [name |-> name.val, isTree |-> isTree.val,
                                  keys |-> keys.list]]

ReadNodes(s, h) ==
    LET count == ReadCount(s)
        after[n \in 0..Count(count)] ==
            IF n = 0 THEN count ELSE Listed(after[n - 1], ReadNode(after[n - 1], h))
    IN  after[Count(count)]

(* The list of the result is that of the nodes. *)
ReadTree(cells) ==
    LET header == ReadHeader(Buffer(cells))
        h == header.val
        front == Read(header, When(h.version >= 12, Times(2, <<"boolean">>))
                              \o BlobKey(h, TRUE) \o <<"ints">>
                              \o BlobKey(h, TRUE) \o <<"ints">>
                              \o When(h.version >= 11 /\ h.version <= 16, <<"ints">>)
                              \o When(h.version >= 15, <<"ints">>))
        missing == IF h.version >= 18 THEN ReadNodes(front, h) ELSE front
    IN  IF header.err # "none" THEN header ELSE ReadNodes(missing, h)
--------------------------------------------------------------------------------
(***************************************************************************)
(* The location of a commit is "file://", a computer and a path.  It is    *)
(* unescaped as if it were the query of a URL, so that a + becomes a space *)
(* too; where a % escapes nothing, it is left as it is.                    *)
(***************************************************************************)
Unescaped(element) == [k \in DOMAIN element |->
    IF element[k] \in {"+", "%20"} THEN " " ELSE element[k]]

(* A mistake to be caught: the location is taken as it was written. *)
NotUnescaped(path) == path

QueryUnescape(path) ==
    IF \E j \in DOMAIN path : "%" \in {path[j][k] : k \in DOMAIN path[j]}
    THEN path
    ELSE [j \in DOMAIN path |-> Unescaped(path[j])]

(***************************************************************************)
(* The result has the path and the SHA1 of the tree, as far as they were   *)
(* read: GetPackFileAsCommit logs an error and returns them all the same.  *)
(* (Arq writes a location in every commit; one without would crash.)       *)
(***************************************************************************)
ReadCommit(cells) ==
    LET header == ReadHeader(Buffer(cells))
        h == header.val
        parents == ReadBlobKeys(Read(header, <<"string", "string">>), h)
        tree == ReadBlobKey(parents, h, TRUE)
        location == Read(tree, <<"string">>)
        err == IF location.err # "none" THEN location.err
               ELSE IF location.val.computer = "" THEN "location"
               ELSE "none"
        date == Read(location, When(h.version < 8, <<"string">>
                                        \o When(h.version >= 4, <<"boolean">>))
                               \o <<"date">>)
        failed == IF h.version >= 3 THEN ReadCount(date) ELSE date
        end == Read(failed, When(h.version >= 3, Times(2 * Count(failed), <<"string">>))
                            \o When(h.version >= 8, <<"boolean">>)
                            \o When(h.version >= 9, <<"boolean">>)
                            \o When(h.version >= 5, <<"data">>))
    IN  [err |-> IF err = "none" THEN end.err ELSE err,
         path |-> IF err = "none" THEN QueryUnescape(location.val.path) ELSE EmptyPath,
         tree |-> tree.val]
--------------------------------------------------------------------------------
(***************************************************************************)
(* What Arq writes: the fields of the structures in the order of their     *)
(* declarations.  Commits, trees and blob keys have each field in the      *)
(* versions the comment at its declaration gives ("Only present for Tree   *)
(* v12 or later").  The declaration of a node says nothing of versions:    *)
(* its fields have those its parser reads them in, so that a node read     *)
(* back says that the parser keeps its place in the tree, and not that it  *)
(* has the right versions.                                                 *)
(***************************************************************************)
Flag == Cell("boolean", TRUE)
Null == Cell("string", Nil)
Ints == Cell("ints", 0)
Date == Cell("date", Nil)

WrittenBlobKey(sha1, h, ofTree) ==
    << Cell("string", sha1) >>
    \o When(h.version >= (IF h.type = Tree THEN 14 ELSE 4), <<Flag>>)
    \o When(h.type = Commit /\ h.version >= 8 /\ ofTree, <<Flag>>)
    \o When(h.type = Tree /\ h.version >= 17, <<Ints, Null, Ints, Date>>)

WrittenBlobKeys(sha1s, h) ==
    << Cell("count", Len(sha1s)) >>
    \o FlattenSeq([j \in DOMAIN sha1s |-> WrittenBlobKey(sha1s[j], h, FALSE)])

WrittenNode(n, h) ==
    LET flags == When(h.version >= 18, <<Flag>>) \o When(h.version >= 12, Times(3, <<Flag>>))
        end == <<Ints>>
               \o When(h.version < 18, Times(2, WrittenBlobKey(Nil, h, FALSE)))
               \o WrittenBlobKey(Nil, h, FALSE) \o <<Ints>>
               \o WrittenBlobKey(Nil, h, FALSE) \o <<Ints>>
               \o <<Null, Null, Flag, Ints>>
    IN  << Cell("string", n.name), Cell("boolean", n.isTree) >>
        \o flags \o WrittenBlobKeys(n.keys, h) \o end

WrittenNodes(nodes, h) ==
    << Cell("count", Len(nodes)) >>
    \o FlattenSeq([j \in DOMAIN nodes |-> WrittenNode(nodes[j], h)])

WrittenTree(version, nodes) ==
    LET h == [type |-> Tree, version |-> version]
        front == When(version >= 12, Times(2, <<Flag>>))
                 \o WrittenBlobKey(Nil, h, FALSE) \o <<Ints>>
                 \o WrittenBlobKey(Nil, h, FALSE) \o <<Ints>>
                 \o When(version \in 11..16, <<Ints>>)
                 \o When(version >= 15, <<Ints>>)
        missing == When(version >= 18, WrittenNodes(<<>>, h))
    IN  << Cell("header", h) >> \o front \o missing \o WrittenNodes(nodes, h)

WrittenCommit(version, parents, tree, location) ==
    LET h == [type |-> Commit, version |-> version]
        date == When(version <= 7, <<Null>>) \o When(version \in 4..7, <<Flag>>) \o <<Date>>
        failed == When(version >= 3, << Cell("count", 1) >>)
        end == When(version >= 3, Times(2, <<Null>>))
               \o When(version >= 8, <<Flag>>)
               \o When(version >= 9, <<Flag>>)
               \o When(version >= 5, << Cell("data", Nil) >>)
    IN  << Cell("header", h) >> \o <<Null, Null>>
        \o WrittenBlobKeys(parents, h) \o WrittenBlobKey(tree, h, TRUE)
        \o << Cell("string", location) >> \o date \o failed \o end
================================================================================
