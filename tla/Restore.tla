-------------------------------- MODULE Restore --------------------------------
(***************************************************************************)
(* The commands that look into a backup, after caching: recover, with the  *)
(* recursion it starts, and list-directory-contents (main.go, DownloadTree *)
(* and DownloadNode in arq/repo.go).                                       *)
(*                                                                         *)
(* DownloadTree makes a directory and, for each of its nodes, calls        *)
(* FindNode, which walks down again from the commit and fetches every tree *)
(* on the way, then downloads what it found.  A node that fails is logged  *)
(* and the next one is tried, but not every failure is an error.           *)
(***************************************************************************)
EXTENDS FindNode

CONSTANTS
    Below,         \* what a path has after that of the backup
    Elsewhere,     \* other paths
    ReadOnly       \* directories whose recorded mode lets nobody write

RestoreAssumption ==
    /\ Below \cup Elsewhere \subseteq Seq(Seq(STRING)) \ {<<>>}
    /\ ReadOnly \subseteq Directory

ASSUME RestoreAssumption

VARIABLES
    command,    \* "recover" or "list"
    source,     \* --source-path or --path
    stack,      \* the calls of DownloadTree: path, directory, nodes to go
    copied,     \* how many blobs of the node DownloadNode has copied
    disk,       \* what is at the destination of each node
    printed     \* what list-directory-contents has printed

vars == <<backup, lost, walkVars, at, accident,
          command, source, stack, copied, disk, printed>>
restoreVars == <<command, source, stack, copied, disk, printed>>

(* The path of the directory that was backed up. *)
RealRoot == [j \in DOMAIN backup.location.path |->
    [k \in DOMAIN backup.location.path[j] |->
        IF backup.location.path[j][k] = "%20" THEN " " ELSE backup.location.path[j][k]]]

Ended == {"done", "failed", "crashed"}

Init ==
    /\ FindNodeInit
    /\ command \in {"recover", "list"}
    /\ source \in {Concat(RealRoot, below) : below \in Below} \cup Elsewhere
    /\ targetPath = source
    /\ stack = <<>>
    /\ copied = 0
    /\ disk = [n \in Node |-> "absent"]
    /\ printed = <<>>
--------------------------------------------------------------------------------
(* A mistake to be caught: the outermost call returns to a loop, too. *)
ReturnToLoop(calls, error) ==
    /\ stack' = calls
    /\ at' = "loop"

(* Returning to the DownloadTree that is at the top of the stack, which    *)
(* logs an error and goes on, or to the command.  ErrorCouldNotRecoverTree *)
(* is no error there.                                                      *)
Return(calls, error) ==
    /\ stack' = calls
    /\ at' = IF calls # <<>> THEN "loop"
             ELSE IF error THEN "failed" ELSE "done"

Pop == Front(stack)
Top == Last(stack)

NamesOf(nodes) == [j \in DOMAIN nodes |-> nodes[j].name]

(* A mistake to be caught: the loop does not move on. *)
SameNode ==
    /\ at = "loop" /\ command = "recover"
    /\ Top.rest # <<>>
    /\ Find(Join(Top.path, Name[Head(Top.rest)]))
    /\ UNCHANGED <<backup, lost, accident, restoreVars>>

(* DownloadTree, at its loop. *)
NextNode ==
    /\ at = "loop" /\ command = "recover"
    /\ Top.rest # <<>>
    /\ stack' = [stack EXCEPT ![Len(stack)].rest = Tail(@)]
    /\ Find(Join(Top.path, Name[Head(Top.rest)]))
    /\ UNCHANGED <<backup, lost, accident, command, source, copied, disk, printed>>

NodesDone ==
    /\ at = "loop"
    /\ Top.rest = <<>>
    /\ Return(Pop, FALSE)
    /\ UNCHANGED <<backup, lost, walkVars, accident, command, source, copied, disk, printed>>

Walk ==
    /\ FindNodeStep
    /\ UNCHANGED <<backup, lost, restoreVars>>

(* FindNode returns an error: DownloadTree returns it at once, without     *)
(* trying the rest of its nodes, and so do the commands.                   *)
Missing ==
    /\ at = "missing"
    /\ Return(IF stack = <<>> THEN <<>> ELSE Pop, TRUE)
    /\ UNCHANGED <<backup, lost, walkVars, accident, command, source, copied, disk, printed>>
--------------------------------------------------------------------------------
(* DownloadTree, up to its loop. *)

(* The destination of the source is in a directory of the user's. *)
CanMake ==
    stack # <<>> => disk[Top.directory] = "directory" /\ Top.directory \notin ReadOnly

FoundDirectory == at = "found" /\ (currentNode # Nil => currentNode.isTree)

(* A mistake to be caught: the lost tree stops the loop it is met in. *)
TreeIsNilStops ==
    /\ FoundDirectory
    /\ tree = Nil
    /\ Return(IF stack = <<>> THEN <<>> ELSE Pop, TRUE)
    /\ UNCHANGED <<backup, lost, walkVars, accident, command, source, copied, disk, printed>>

(* ErrorCouldNotRecoverTree, or the error of list-directory-contents. *)
TreeIsNil ==
    /\ FoundDirectory
    /\ tree = Nil
    /\ Return(stack, command = "list")
    /\ UNCHANGED <<backup, lost, walkVars, accident, command, source, copied, disk, printed>>

Call == [path |-> targetPath, directory |-> FoundNode, rest |-> NamesOf(tree)]

(* An error of os.Mkdir is logged; the nodes are tried all the same. *)
MakeDirectory ==
    /\ FoundDirectory /\ command = "recover"
    /\ tree # Nil
    /\ \/ /\ CanMake
          /\ disk' = [disk EXCEPT ![FoundNode] = "directory"]
          /\ UNCHANGED accident
       \/ /\ ~CanMake \/ Faults
          /\ accident' = (accident \/ CanMake)
          /\ UNCHANGED disk
    /\ stack' = Append(stack, Call)
    /\ at' = "loop"
    /\ UNCHANGED <<backup, lost, walkVars, command, source, copied, printed>>
--------------------------------------------------------------------------------
(* DownloadNode. *)

FoundFile == at = "found" /\ currentNode # Nil /\ ~currentNode.isTree

(* The file is made, at its full size. *)
OpenWriter ==
    /\ FoundFile /\ command = "recover"
    /\ CanMake
    /\ disk' = [disk EXCEPT ![FoundNode] = "partial"]
    /\ copied' = 0
    /\ at' = "copy"
    /\ UNCHANGED <<backup, lost, walkVars, accident, command, source, stack, printed>>

(* The file cannot be made, or not be given its size. *)
OpenFails ==
    /\ FoundFile /\ command = "recover"
    /\ ~CanMake \/ Faults
    /\ accident' = (accident \/ CanMake)
    /\ \E left \in {disk[FoundNode]} \cup (IF CanMake THEN {"partial"} ELSE {}) :
            disk' = [disk EXCEPT ![FoundNode] = left]
    /\ Return(stack, TRUE)
    /\ UNCHANGED <<backup, lost, walkVars, command, source, copied, printed>>

MoreBlobs == copied < Len(currentNode.keys)
NextIsLost == MoreBlobs /\ currentNode.keys[copied + 1] \in lost

(* BlobKeysReader: the blob is in a pack, or among the objects. *)
CopyBlob ==
    /\ at = "copy"
    /\ MoreBlobs /\ ~NextIsLost
    /\ copied' = copied + 1
    /\ UNCHANGED <<backup, lost, walkVars, at, accident, command, source, stack, disk, printed>>

(* Neither, or the write or the last flush fails: the error is dropped. *)
CopyStops ==
    /\ at = "copy"
    /\ NextIsLost \/ Faults
    /\ accident' = (accident \/ ~NextIsLost)
    /\ Return(stack, FALSE)
    /\ UNCHANGED <<backup, lost, walkVars, command, source, copied, disk, printed>>

CopyEnds ==
    /\ at = "copy"
    /\ ~MoreBlobs
    /\ disk' = [disk EXCEPT ![FoundNode] = "complete"]
    /\ Return(stack, FALSE)
    /\ UNCHANGED <<backup, lost, walkVars, accident, command, source, copied, printed>>
--------------------------------------------------------------------------------
(* list-directory-contents. *)

ListDirectory ==
    /\ FoundDirectory /\ command = "list"
    /\ tree # Nil
    /\ stack' = <<Call>>
    /\ at' = "loop"
    /\ UNCHANGED <<backup, lost, walkVars, accident, command, source, copied, disk, printed>>

Line(n, from) == [node |-> n, from |-> from]

(* A mistake to be caught: a directory whose tree is lost is passed over. *)
PrintOrSkip ==
    /\ at = "loop" /\ command = "list"
    /\ Top.rest # <<>>
    /\ printed' = IF Head(Top.rest) \in Directory /\ Outcome(Head(Top.rest)) # "none"
                  THEN printed ELSE Append(printed, Line(Head(Top.rest), "node"))
    /\ stack' = << [Top EXCEPT !.rest = Tail(@)] >>
    /\ UNCHANGED <<backup, lost, walkVars, at, accident, command, source, copied, disk>>

(* A file, or a directory whose tree cannot be had, is printed as its node *)
(* has it, another directory with the mode and the time of its tree.       *)
PrintNode ==
    /\ at = "loop" /\ command = "list"
    /\ Top.rest # <<>>
    /\ \E from \in {"node", "tree"} :
        LET n == Head(Top.rest)
            there == n \in Directory /\ Outcome(n) = "none"
        IN  /\ from = "tree" => there
            /\ from = "node" => ~there \/ Faults
            /\ printed' = Append(printed, Line(n, from))
            /\ accident' = (accident \/ (there /\ from = "node"))
    /\ stack' = << [Top EXCEPT !.rest = Tail(@)] >>
    /\ UNCHANGED <<backup, lost, walkVars, at, command, source, copied, disk>>

ListFile ==
    /\ FoundFile /\ command = "list"
    /\ printed' = << Line(FoundNode, "node") >>
    /\ Return(<<>>, FALSE)
    /\ UNCHANGED <<backup, lost, walkVars, accident, command, source, copied, disk>>

Next ==
    \/ Walk \/ Missing
    \/ NextNode \/ NodesDone \/ TreeIsNil \/ MakeDirectory
    \/ OpenWriter \/ OpenFails \/ CopyBlob \/ CopyStops \/ CopyEnds
    \/ ListDirectory \/ PrintNode \/ ListFile

Spec == Init /\ [][Next]_vars /\ WF_vars(Next)
--------------------------------------------------------------------------------
PathNodes(n) == {Path[n][j] : j \in DOMAIN Path[n]}

(* The path of a node on the computer that was backed up, with or without  *)
(* a slash after it.                                                       *)
NamesTo(n) == [j \in 1..(Len(Path[n]) - 1) |-> Name[Path[n][j + 1]]]
PathOf(n) == IF RealRoot = Slash THEN Rooted(NamesTo(n)) ELSE RealRoot \o NamesTo(n)
IsAt(path, n) == path \in {PathOf(n), Append(PathOf(n), <<>>)}

(* The commit's location has a computer, and nothing in its path that      *)
(* url.QueryUnescape takes for what it is not: it has no +, unless a stray *)
(* % leaves all of it as it is, which then has no space to unescape.       *)
Located ==
    LET path == backup.location.path
        letters == UNION {{path[j][k] : k \in DOMAIN path[j]} : j \in DOMAIN path}
    IN  /\ backup.location.computer # ""
        /\ letters \cap {"%", "+"} # {"+"}
        /\ letters \cap {"%", "%20"} # {"%", "%20"}

(* A path that path.Clean leaves as it is, but for a slash at its end, and *)
(* that does not only share its letters with the path of the backup.       *)
Proper(path) ==
    /\ path \in {Clean(path), Append(Clean(path), <<>>)}
    /\ HasPrefix(path, RealRoot) => RealRoot = Slash \/ IsPrefix(RealRoot, path)

ChildrenOf(d) == {Children[d][j] : j \in DOMAIN Children[d]}

RestoreTypeOK ==
    /\ command \in {"recover", "list"}
    /\ lost \subseteq Directory \cup Blob \cup {Commit}
    /\ \A j \in DOMAIN stack :
            /\ stack[j].directory \in Directory
            /\ \A m \in DOMAIN stack[j].rest : stack[j].rest[m] \in Node
            /\ Located /\ Proper(source) /\ j > 1 =>
                    stack[j].directory \in ChildrenOf(stack[j - 1].directory)
    /\ accident \in BOOLEAN
    /\ currentHash \in Directory \cup Blob \cup {Nil}
    /\ currentNode # Nil => currentNode.keys = KeysOf(currentNode.name)
    /\ at \in {"loop", "commit", "tree", "walk", "found", "missing", "copy"} \cup Ended
    /\ at = "loop" => stack # <<>>
    /\ at = "copy" => copied \in 0..Len(currentNode.keys)
    /\ disk \in [Node -> {"absent", "directory", "partial", "complete"}]

(***************************************************************************)
(* FindNode compares strings and cuts off what it has walked ("Target path *)
(* %s is not located within commit path %s").  What it finds is at the     *)
(* path it was asked for, if that is a proper one.  (From /u/d/.. and from *)
(* /u/d./ it finds /u/d in a backup of that.)                              *)
(***************************************************************************)
FoundIsAtTarget ==
    at = "found" /\ Located /\ Proper(source) => IsAt(targetPath, FoundNode)

(***************************************************************************)
(* "Failed to find target path" is said of nothing that is in the backup,  *)
(* unless the commit was not fetched or its location was not understood:   *)
(* of whatever version commit and trees are, and down through every tree.  *)
(***************************************************************************)
PresentIsFound ==
    at = "missing" /\ Located /\ ~accident /\ Commit \notin lost =>
        \A n \in Node : ~IsAt(targetPath, n)

(* The files that were asked for, and can be had. *)
Asked == {f \in Node \ Directory : \E n \in PathNodes(f) : IsAt(source, n)}
Recoverable == {f \in Asked :
                    /\ (PathNodes(f) \cup {Commit}) \cap lost = {}
                    /\ {BlobsOf[f][j] : j \in DOMAIN BlobsOf[f]} \cap lost = {}
                    /\ \A d \in PathNodes(f) \ {f} :
                            (\E n \in PathNodes(d) : IsAt(source, n)) => d \notin ReadOnly}

(* The nodes the recursion has not been through yet. *)
Pending ==
    (UNION {{stack[j].rest[m] : m \in DOMAIN stack[j].rest} : j \in DOMAIN stack})
    \cup (IF at \in {"loop", "done", "failed"} THEN {}
          ELSE {n \in Node : IsAt(targetPath, n)})

(***************************************************************************)
(* "Warn loudly but don't stop the backup, because there may still be      *)
(* other files we can recover!" (repo.go:102): whatever is lost of the     *)
(* backup, a recovery that met no accident has recovered every file it has *)
(* been through, except those that are lost themselves.                    *)
(***************************************************************************)
OthersAreRecovered ==
    command = "recover" /\ Located /\ ~accident =>
        \A f \in Recoverable : PathNodes(f) \cap Pending = {} => disk[f] = "complete"

(***************************************************************************)
(* What is lost of the backup crashes the program only where FindNode      *)
(* walks through it: above the source.  Otherwise it takes an accident, a  *)
(* file without data blob keys, trees older than version 12, whose parser  *)
(* dereferences a pointer it left nil, or a path of nothing in the backup. *)
(***************************************************************************)
CrashHasCause ==
    at = "crashed" =>
        \/ accident \/ backup.tree < 12
        \/ tree # Nil /\ Keyless
        \/ ~Located \/ \A n \in Node : ~IsAt(source, n)
        \/ stack = <<>> /\ \E n \in Node : IsAt(source, n) /\ (PathNodes(n) \ {n}) \cap lost # {}

(***************************************************************************)
(* A directory whose tree is lost, "has no tree" or cannot be parsed is    *)
(* listed with what its node says: no child is left out of a listing.      *)
(***************************************************************************)
ListingIsWhole ==
    at = "done" /\ command = "list" =>
        LET shown == [j \in DOMAIN printed |-> printed[j].node]
        IN  /\ shown = IF FoundNode \in Directory THEN Children[FoundNode] ELSE <<FoundNode>>
            /\ ~accident => \A j \in DOMAIN printed :
                    printed[j].from = "node" => printed[j].node \notin Directory \ lost

(***************************************************************************)
(* A recovery without an error has every file it made, in full.            *)
(* BlobKeysReader makes an error of a blob it cannot find ("Couldn't find  *)
(* SHA %s in packfile or objects!", repo.go:175), and DownloadNode returns *)
(* an error for its callers to log.                                        *)
(***************************************************************************)
SuccessIsComplete == at = "done" => \A n \in Node : disk[n] # "partial"

(***************************************************************************)
(* The recursion comes to an end, whatever fails on the way.               *)
(***************************************************************************)
RecoveryEnds == <>(at \in Ended)
================================================================================
