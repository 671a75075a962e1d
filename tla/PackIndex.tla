------------------------------- MODULE PackIndex -------------------------------
(***************************************************************************)
(* Looking an object up in the cached indexes of a pack set: the loop of   *)
(* GetTreePackFile and GetBlobPackFile (arq/pack_set_index.go), which are  *)
(* the same.                                                               *)
(*                                                                         *)
(* An index holds the SHA1s of the objects of one pack, sorted, behind a   *)
(* fan-out table: for each first byte, how many of them have that byte or  *)
(* a smaller one first.  The loop reads the indexes in the order           *)
(* filepath.Glob gives them, all that are in the cache directory: those    *)
(* cached by an earlier run are among them, and need not be whole.         *)
(***************************************************************************)
EXTENDS Integers, Sequences

CONSTANTS
    SHA1,          \* the names of objects
    Bytes,         \* how many values the first byte of a name has: 256
    FirstByte,     \* the first byte of each name
    Directories,   \* what the cache directory of a pack set may hold
    DiskFails      \* TRUE when reading a cached index may fail

IndexFile == [fanout : [0..Bytes - 1 -> Nat], objects : Seq(SHA1)]

ASSUME PackIndexAssumption ==
    /\ Bytes \in Nat \ {0}
    /\ FirstByte \in [SHA1 -> 0..Bytes - 1]
    /\ Directories \subseteq Seq(IndexFile)
    /\ DiskFails \in BOOLEAN

VARIABLES
    indexes,    \* the index files, in order
    target,     \* the object looked up
    i,          \* the index file the loop is at
    found,      \* packIndexObjectResult and indexResult: where the object is
    status      \* what has become of the lookup

vars == <<indexes, target, i, found, status>>

Nowhere == [index |-> 0, entry |-> 0]

Init ==
    /\ indexes \in Directories
    /\ target \in SHA1
    /\ i = 1
    /\ found = Nowhere
    /\ status = "scanning"
--------------------------------------------------------------------------------
Byte == FirstByte[target]

(* A mistake to be caught: the table is taken one byte too high. *)
NumberOneTooHigh(ix) == ix.fanout[Byte]

(* A byte less one is a byte: 0 - 1 is the last one, not -1. *)
NumberLessThanPrefix(ix) == ix.fanout[(Byte - 1) % Bytes]

(* A mistake to be caught: one entry too many is read. *)
NumberAndOneMore(ix) == ix.fanout[Byte] + 1

NumberEqualAndLessThanPrefix(ix) == ix.fanout[Byte]

(* The entries the inner loop is to read, and those that are there. *)
Window(ix) == NumberLessThanPrefix(ix) + 1 .. NumberEqualAndLessThanPrefix(ix)
Readable(ix) == {e \in Window(ix) : e <= Len(ix.objects)}

Hits(ix) == {e \in Readable(ix) : ix.objects[e] = target}

Scanning == status = "scanning" /\ i <= Len(indexes)

(* A mistake to be caught: both loops count with the same variable. *)
GoesOnTwice ==
    /\ i' = i + 2
    /\ UNCHANGED <<indexes, target, status>>

GoesOn ==
    /\ i' = i + 1
    /\ UNCHANGED <<indexes, target, status>>

(* A mistake to be caught: the first entry of the window is taken. *)
TakeFirst ==
    /\ Scanning
    /\ Hits(indexes[i]) # {}
    /\ found' = [index |-> i, entry |-> NumberLessThanPrefix(indexes[i]) + 1]
    /\ GoesOn

(* A mistake to be caught: the first index that has the object is kept. *)
HitFirstIndex ==
    /\ Scanning
    /\ \E e \in Hits(indexes[i]) :
            /\ \A d \in Hits(indexes[i]) : e <= d
            /\ found' = IF found = Nowhere THEN [index |-> i, entry |-> e] ELSE found
    /\ GoesOn

(* A hit ends the inner loop only: a later index may have the object too. *)
Hit ==
    /\ Scanning
    /\ \E e \in Hits(indexes[i]) :
            /\ \A d \in Hits(indexes[i]) : e <= d
            /\ found' = [index |-> i, entry |-> e]
    /\ GoesOn

Miss ==
    /\ Scanning
    /\ Hits(indexes[i]) = {}
    /\ Window(indexes[i]) = Readable(indexes[i])
    /\ UNCHANGED found
    /\ GoesOn

(* The file ends inside the window: the entry read is nil and dereferenced. *)
RunsOut ==
    /\ Scanning
    /\ Hits(indexes[i]) = {}
    /\ Window(indexes[i]) # Readable(indexes[i])
    /\ status' = "crashed"
    /\ UNCHANGED <<indexes, target, i, found>>

(* log.Panicln: an index that cannot be read. *)
Unreadable ==
    /\ DiskFails
    /\ Scanning
    /\ status' = "panicked"
    /\ UNCHANGED <<indexes, target, i, found>>

(* After the loop: an error, or on to the pack of the index. *)
Finish ==
    /\ status = "scanning"
    /\ i > Len(indexes)
    /\ status' = IF found = Nowhere THEN "missing" ELSE "found"
    /\ UNCHANGED <<indexes, target, i, found>>

Next ==
    \/ Hit
    \/ Miss
    \/ RunsOut
    \/ Unreadable
    \/ Finish

Spec == Init /\ [][Next]_vars
--------------------------------------------------------------------------------
(* What Arq writes: sorted, and the table counts.                          *)
Intact(ix) ==
    \A b \in 0..Bytes - 1 :
        /\ ix.fanout[b] <= Len(ix.objects)
        /\ \A e \in 1..Len(ix.objects) : e <= ix.fanout[b] <=> FirstByte[ix.objects[e]] <= b

AllIntact == \A j \in 1..Len(indexes) : Intact(indexes[j])

Lists(ix, sha) == \E e \in 1..Len(ix.objects) : ix.objects[e] = sha

PackIndexTypeOK ==
    /\ indexes \in Seq(IndexFile)
    /\ target \in SHA1
    /\ i \in 1..Len(indexes) + 1
    /\ found \in [index : 0..Len(indexes), entry : Nat]
    /\ status \in {"scanning", "missing", "found", "crashed", "panicked"}

(***************************************************************************)
(* The entry the pack is then read at is the object's, in whatever state   *)
(* the index files are.                                                    *)
(***************************************************************************)
FoundIsTarget ==
    found # Nowhere =>
        /\ found.index \in 1..Len(indexes)
        /\ found.entry \in 1..Len(indexes[found.index].objects)
        /\ indexes[found.index].objects[found.entry] = target

(***************************************************************************)
(* Of intact indexes, the lookup misses no object whose first byte is not  *)
(* zero, whichever index it is in and however often it is listed.          *)
(***************************************************************************)
NonZeroIsNotMissed ==
    status = "missing" /\ AllIntact /\ Byte > 0 =>
        \A j \in 1..Len(indexes) : ~Lists(indexes[j], target)

(***************************************************************************)
(* An object that several packs have is taken from the last one, in the    *)
(* order of the names of their indexes: one cached by an earlier run hides *)
(* the current one when its name comes later.                              *)
(***************************************************************************)
LastIndexWins ==
    status = "found" /\ AllIntact =>
        \A j \in 1..Len(indexes) : j > found.index => ~Lists(indexes[j], target)

(***************************************************************************)
(* Only an index that is cut short crashes the lookup.                     *)
(***************************************************************************)
IntactNeverCrashes == status = "crashed" => ~AllIntact

(***************************************************************************)
(* numberLessThanPrefix (pack_set_index.go:274) is how many objects have a *)
(* smaller first byte, so the lookup misses no object that is listed.      *)
(***************************************************************************)
NothingIsMissed ==
    status = "missing" /\ AllIntact =>
        \A j \in 1..Len(indexes) : ~Lists(indexes[j], target)
================================================================================
