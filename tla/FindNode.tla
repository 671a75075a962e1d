-------------------------------- MODULE FindNode -------------------------------
(***************************************************************************)
(* FindNode and the parsing of what it fetches (arq/pack_set_index.go):    *)
(* the walk from the commit down to the node at a path.  Commits and trees *)
(* are what Arq writes in some version and ArqTypes reads; their fetch is  *)
(* only its outcome (PackFetch has its steps).                             *)
(***************************************************************************)
EXTENDS ArqTypes, FiniteSets

CONSTANTS
    Node,          \* the files and directories of the backup
    Directory,     \* those that are directories
    Root,          \* the directory of the commit
    Children,      \* the nodes of each directory, in the order of its tree
    Path,          \* the way from the root to each node
    Name,          \* the name of each node, a sequence of letters
    Blob,          \* pieces of file contents
    BlobsOf,       \* the pieces of each file, in order
    Backups,       \* the versions of commit and trees, and the location
    Faults         \* TRUE when a fetch or a local write may fail by accident

(* A node as a tree has it, of what a parser may make of one. *)
ParsedNode == [name : Node, isTree : BOOLEAN, keys : Seq(Directory \cup Blob)]

(* The nodes are a tree of directories, in each of which every name is     *)
(* there once, and Arq writes where it is as an absolute path.  No blob    *)
(* has the SHA1 of a tree.                                                 *)
FindNodeAssumption ==
    /\ Directory \subseteq Node /\ Root \in Directory /\ Directory \cap Blob = {}
    /\ Children \in [Directory -> Seq(Node)]
    /\ Path \in [Node -> Seq(Node) \ {<<>>}]
    /\ Path[Root] = <<Root>>
    /\ \A d \in Directory : \A j \in DOMAIN Children[d] :
            Path[Children[d][j]] = Append(Path[d], Children[d][j])
    /\ \A n \in Node \ {Root} : \E d \in Directory : \E j \in DOMAIN Children[d] :
            n = Children[d][j]
    /\ Name \in [Node -> Seq(STRING)]
    /\ \A n \in Node \ {Root} : IsPlain(Name[n])
    /\ \A d \in Directory : \A i, j \in DOMAIN Children[d] :
            Name[Children[d][i]] = Name[Children[d][j]] => i = j
    /\ BlobsOf \in [Node \ Directory -> Seq(Blob)]
    /\ \A b \in Backups : b.commit \in Nat /\ b.tree \in Nat
                         /\ b.location \in [computer : STRING, path : Seq(Seq(STRING))]
                         /\ IsAbsolute(b.location.path)
    /\ Nil \notin ParsedNode /\ Nil \notin Seq(ParsedNode)
    /\ Faults \in BOOLEAN

ASSUME FindNodeAssumption

VARIABLES
    backup,         \* the backup that is read, and what is made of its commit
    lost,           \* what cannot be fetched: the commit, trees, blobs
    targetPath,     \* the path of the node that is being looked for
    currentPath,    \* the path walked so far
    nextPathElement,    \* the first element after it; "." at the end
    currentHash,    \* the SHA1 of the next tree
    currentNode,    \* the node walked to; Nil at the commit
    tree,           \* the nodes of the last tree; Nil for a nil pointer
    at,             \* what the program is doing
    accident        \* TRUE once something failed by accident

walkVars == <<targetPath, currentPath, nextPathElement, currentHash, currentNode, tree>>

(* The SHA1 of a tree is its directory here, that of a blob the blob. *)
KeysOf(n) == IF n \in Directory THEN <<n>> ELSE BlobsOf[n]

NodeOf(n) == [name |-> n, isTree |-> n \in Directory, keys |-> KeysOf(n)]
NodesIn(d) == [j \in DOMAIN Children[d] |-> NodeOf(Children[d][j])]

(* What Arq wrote, and what the parsers make of it, for every version. *)
TreesRead ==
    {[version |-> b.tree, hash |-> d, tree |-> ReadTree(WrittenTree(b.tree, NodesIn(d)))] :
        b \in Backups, d \in Directory}

CommitsRead ==
    {[tree |-> b.tree, location |-> b.location,
      commit |-> ReadCommit(WrittenCommit(b.commit, <<Nil>>, Root, b.location))] : b \in Backups}

FindNodeInit ==
    /\ backup \in CommitsRead
    /\ lost \in SUBSET (Directory \cup Blob \cup {Commit})
    /\ currentPath = EmptyPath
    /\ nextPathElement = Dot
    /\ currentHash = Nil
    /\ currentNode = Nil
    /\ tree = Nil
    /\ at = "commit"
    /\ accident = FALSE

(* The call of FindNode. *)
Find(path) ==
    /\ targetPath' = path
    /\ currentPath' = EmptyPath
    /\ nextPathElement' = Dot
    /\ currentHash' = Nil
    /\ currentNode' = Nil
    /\ tree' = Nil
    /\ at' = "commit"
--------------------------------------------------------------------------------
(* A mistake to be caught: a slash after the path of the commit is asked for. *)
WithinWithSlash == HasPrefix(targetPath, Append(backup.commit.path, <<>>))

(* "is not located within commit path" is said of any other. *)
Within == HasPrefix(targetPath, backup.commit.path)

(* A commit that cannot be parsed is an error in the log only: what was    *)
(* read of it is used.                                                     *)
GetCommit ==
    /\ at = "commit"
    /\ Commit \notin lost
    /\ Within
    /\ currentPath' = backup.commit.path
    /\ currentHash' = backup.commit.tree
    /\ at' = "tree"
    /\ UNCHANGED <<targetPath, nextPathElement, currentNode, tree, accident>>

NotWithin ==
    /\ at = "commit"
    /\ Commit \notin lost
    /\ ~Within
    /\ at' = "missing"
    /\ UNCHANGED <<walkVars, accident>>

CommitFails ==
    /\ at = "commit"
    /\ Commit \in lost \/ Faults
    /\ accident' = (accident \/ Commit \notin lost)
    /\ at' = "missing"
    /\ UNCHANGED walkVars
--------------------------------------------------------------------------------
(* The first element of what is left of the path, "." at its end. *)
Element ==
    LET rest == Clean(TrimPrefix(targetPath, currentPath))
    IN  IF rest = Slash THEN Dot ELSE IF rest[1] = <<>> THEN rest[2] ELSE rest[1]

(* GetPackFileAsTree.  The first blob of a file is no tree. *)
TreeAt(hash) == (CHOOSE r \in TreesRead : r.version = backup.tree /\ r.hash = hash).tree
Outcome(hash) == IF hash \in Directory \ lost THEN TreeAt(hash).err ELSE "lost"

TreeArrives ==
    /\ at = "tree"
    /\ Outcome(currentHash) = "none"
    /\ nextPathElement' = Element
    /\ tree' = TreeAt(currentHash).list
    /\ at' = "walk"
    /\ UNCHANGED <<targetPath, currentPath, currentHash, currentNode, accident>>

(* The parser panics. *)
TreeCrashes ==
    /\ at = "tree"
    /\ Outcome(currentHash) = "panic"
    /\ at' = "crashed"
    /\ UNCHANGED <<walkVars, accident>>

(* The error is logged, and the pointer is nil. *)
TreeFails ==
    /\ at = "tree"
    /\ Outcome(currentHash) \notin {"none", "panic"} \/ Faults
    /\ accident' = (accident \/ Outcome(currentHash) \in {"none", "panic"})
    /\ nextPathElement' = Element
    /\ tree' = Nil
    /\ at' = "walk"
    /\ UNCHANGED <<targetPath, currentPath, currentHash, currentNode>>
--------------------------------------------------------------------------------
Found ==
    /\ at = "walk"
    /\ nextPathElement = Dot
    /\ at' = "found"
    /\ UNCHANGED <<walkVars, accident>>

(* The nodes whose name is the next element. *)
Matches == {j \in DOMAIN tree : Name[tree[j].name] = nextPathElement}

(* The first of no keys: a file of zero bytes has none. *)
Keyless == \E j \in Matches : tree[j].keys = <<>>

(* A mistake to be caught: the loop assigns to a currentNode of its own. *)
DescendShadowed ==
    /\ at = "walk"
    /\ nextPathElement # Dot
    /\ tree # Nil /\ Matches # {} /\ ~Keyless
    /\ currentHash' = Head(tree[Max(Matches)].keys)
    /\ currentPath' = Join(currentPath, nextPathElement)
    /\ at' = "tree"
    /\ UNCHANGED <<targetPath, nextPathElement, currentNode, tree, accident>>

(* The last one wins. *)
Descend ==
    /\ at = "walk"
    /\ nextPathElement # Dot
    /\ tree # Nil /\ Matches # {} /\ ~Keyless
    /\ currentNode' = tree[Max(Matches)]
    /\ currentHash' = Head(tree[Max(Matches)].keys)
    /\ currentPath' = Join(currentPath, nextPathElement)
    /\ at' = "tree"
    /\ UNCHANGED <<targetPath, nextPathElement, tree, accident>>

NotFound ==
    /\ at = "walk"
    /\ nextPathElement # Dot
    /\ tree # Nil /\ Matches = {}
    /\ at' = "missing"
    /\ UNCHANGED <<walkVars, accident>>

(* A nil tree is dereferenced, or the first of no keys is taken. *)
WalkCrashes ==
    /\ at = "walk"
    /\ nextPathElement # Dot
    /\ tree # Nil => Keyless
    /\ at' = "crashed"
    /\ UNCHANGED <<walkVars, accident>>

FindNodeStep ==
    \/ GetCommit \/ NotWithin \/ CommitFails
    \/ TreeArrives \/ TreeCrashes \/ TreeFails
    \/ Found \/ Descend \/ NotFound \/ WalkCrashes
--------------------------------------------------------------------------------
(* The node that was found. *)
FoundNode == IF currentNode = Nil THEN Root ELSE currentNode.name
================================================================================
