-------------------------------- MODULE Listing --------------------------------
(***************************************************************************)
(* How the connectors list what is stored (listObjects in connector/s3.go, *)
(* connector/googlecloudstorage.go and connector/sftp.go).  S3 and Google  *)
(* Cloud Storage give the list page by page, each asked for with what the  *)
(* page before ended with; SFTP reads one directory.  Arq may store and    *)
(* delete objects between two pages.                                       *)
(*                                                                         *)
(* Numbers stand for strings, in their order.  An object is listed by its  *)
(* name, or by what its name has up to the delimiter, as one entry with    *)
(* all others that share it (a common prefix, or the folder).              *)
(***************************************************************************)
EXTENDS Naturals, FiniteSets, Paths, Backend

CONSTANTS
    Name,          \* the names below the prefix that is listed
    EntryOf,       \* for each delimiter, the entry of each name
    Directory,     \* the prefix, and
    Element,       \* what each entry has after it, as path elements
    RemotePaths    \* --sftp-remote-path

Delimiter == {"/", ","}

ListingAssumption ==
    /\ Name \subseteq Nat \ {0} /\ IsFiniteSet(Name)
    /\ EntryOf \in [Delimiter -> [Name -> Nat \ {0}]]
    /\ \A d \in Delimiter, n \in Name :
            EntryOf[d][n] # n => EntryOf[d][n] \notin Name
    /\ \A d \in Delimiter, n, m \in Name : n < m => EntryOf[d][n] <= EntryOf[d][m]
    /\ Directory = EmptyPath \/ IsNames(Directory)
    /\ \A n \in Name : IsNames(Element[EntryOf["/"][n]])
    /\ \A r \in RemotePaths : r \in Seq(Seq(STRING)) /\ r # <<>>

ASSUME ListingAssumption

VARIABLES
    remotePath,    \* the directory of the backup on an SFTP server
    stored,        \* the objects in the backup store
    listing,       \* the call: "none", "pages" while it runs, "ok" or "err"
    delimiter,     \* its delimiter
    marker,        \* what the next page comes after: 0 for the first
    objects,       \* the entries collected, and returned
    appended,      \* how many there are, counting what is there twice
    throughout,    \* the objects that were stored since the call
    sometime       \* the objects that were stored at some time since the call

listingVars == <<backend, remotePath, stored, listing, delimiter, marker,
                 objects, appended, throughout, sometime>>

ListingInit ==
    /\ backend \in {"s3", "gcs", "sftp"}
    /\ remotePath \in IF backend = "sftp" THEN RemotePaths ELSE {EmptyPath}
    /\ stored \in SUBSET Name
    /\ listing = "none"
    /\ delimiter = "/"
    /\ marker = 0
    /\ objects = {} /\ appended = 0
    /\ throughout = {} /\ sometime = {}
--------------------------------------------------------------------------------
Entry(n) == EntryOf[delimiter][n]

(* ListObjectsAsFolders has the delimiter "/", ListObjectsAsAll ",". *)
ListObjects(d) ==
    /\ listing # "pages"
    /\ listing' = "pages"
    /\ delimiter' = d
    /\ marker' = 0
    /\ objects' = {} /\ appended' = 0
    /\ throughout' = stored /\ sometime' = stored
    /\ UNCHANGED <<backend, remotePath, stored>>

(* A mistake to be caught: the first page is asked for again. *)
RemainingFromStart == {Entry(n) : n \in stored}

(* The entries the server has after the marker. *)
Remaining == {e \in {Entry(n) : n \in stored} : e > marker}

(* Common prefixes for "/", objects otherwise. *)
Kept(entries) == {e \in entries : delimiter = "/" <=> e \notin Name}

(* A mistake to be caught: the call ends with the first page. *)
CollectFirst(page) ==
    /\ objects' = objects \cup Kept(page)
    /\ appended' = appended + Cardinality(Kept(page))
    /\ listing' = "ok"
    /\ UNCHANGED marker

Collect(page) ==
    /\ objects' = objects \cup Kept(page)
    /\ appended' = appended + Cardinality(Kept(page))
    /\ IF page # Remaining
       THEN /\ \E last \in page : (\A e \in page : e <= last) /\ marker' = last
            /\ UNCHANGED listing
       ELSE /\ listing' = "ok"
            /\ UNCHANGED marker

(* A page ends anywhere; it is truncated when it is not all that remains. *)
ListPage ==
    /\ listing = "pages" /\ backend # "sftp"
    /\ \/ Remaining = {} /\ Collect({})
       \/ \E last \in Remaining : Collect({e \in Remaining : e <= last})
    /\ UNCHANGED <<backend, remotePath, stored, delimiter, throughout, sometime>>

(* S3 returns nil, Google Cloud Storage what it has collected. *)
ListPageFails ==
    /\ listing = "pages" /\ backend # "sftp"
    /\ listing' = "err"
    /\ \/ backend = "s3" /\ objects' = {} /\ appended' = 0
       \/ backend = "gcs" /\ UNCHANGED <<objects, appended>>
    /\ UNCHANGED <<backend, remotePath, stored, delimiter, marker, throughout, sometime>>

(* What SFTP finds in one directory: its files and its folders. *)
ReadDir ==
    /\ listing = "pages" /\ backend = "sftp"
    /\ listing' = "ok"
    /\ objects' = {EntryOf["/"][n] : n \in stored}
    /\ appended' = Cardinality(objects')
    /\ UNCHANGED <<backend, remotePath, stored, delimiter, marker, throughout, sometime>>

ReadDirFails ==
    /\ listing = "pages" /\ backend = "sftp"
    /\ listing' = "err"
    /\ UNCHANGED <<backend, remotePath, stored, delimiter, marker, objects, appended,
                   throughout, sometime>>

(* Arq stores or deletes an object while the call runs. *)
ArqChanges(n) ==
    /\ listing = "pages"
    /\ IF n \in stored
       THEN stored' = stored \ {n} /\ throughout' = throughout \ {n} /\ UNCHANGED sometime
       ELSE stored' = stored \cup {n} /\ sometime' = sometime \cup {n} /\ UNCHANGED throughout
    /\ UNCHANGED <<backend, remotePath, listing, delimiter, marker, objects, appended>>

ListingStep == ListPage \/ ListPageFails \/ ReadDir \/ ReadDirFails

ListingNext ==
    \/ \E d \in Delimiter : ListObjects(d)
    \/ ListingStep
    \/ \E n \in Name : ArqChanges(n)

ListingSpec == ListingInit /\ [][ListingNext]_listingVars
--------------------------------------------------------------------------------
(* The path of an entry from the directory of the backup, and on the server. *)
KeyOf(e) == JoinPaths(Directory, Element[e])
ServerPath(e) == JoinPaths(JoinPaths(remotePath, Directory), Element[e])

(* A mistake to be caught: the slash stays. *)
GetPathSlash(e) == TrimPrefix(ServerPath(e), remotePath)

(* The path SFTP returns for an entry. *)
GetPath(e) ==
    LET cut == TrimPrefix(ServerPath(e), remotePath)
    IN  IF cut # EmptyPath /\ cut[1] = <<>> THEN Tail(cut) ELSE cut

(* With the path ".", a name at the top that begins with a dot loses it. *)
LosesDot(e) == remotePath = <<Dot>> /\ IsPrefix(Dot, KeyOf(e)[1])

(* What a listing has to show of some objects. *)
Shown(names) ==
    IF backend = "sftp" THEN {EntryOf["/"][n] : n \in names}
    ELSE {e \in {Entry(n) : n \in names} : delimiter = "/" <=> e \notin Name}

(***************************************************************************)
(* A list that is returned without an error has everything that was there  *)
(* from the call to the return, though it comes in pages and Arq stores    *)
(* and deletes objects in between.  (What has the delimiter in its name is *)
(* not there for ListObjectsAsAll of S3 and Google Cloud Storage.)         *)
(***************************************************************************)
ListingIsComplete == listing = "ok" => Shown(throughout) \subseteq objects

(***************************************************************************)
(* It has nothing twice, a folder neither whose objects are on two pages,  *)
(* and nothing that was never there; so has what Google Cloud Storage      *)
(* returns with an error.                                                  *)
(***************************************************************************)
ListingIsExact ==
    /\ appended = Cardinality(objects)
    /\ objects \subseteq Shown(sometime)

(***************************************************************************)
(* The path SFTP returns is the one under which the object is asked for    *)
(* again (sftp.go:243) and recognised as a backup set: its path from       *)
(* --sftp-remote-path, with or without a slash after it.  This takes a     *)
(* path that path.Clean leaves as it is.  (The name that loses its dot is  *)
(* none that Arq gives.)                                                   *)
(***************************************************************************)
ListedIsWhereItWas ==
    backend = "sftp" /\ remotePath \in {Clean(remotePath), Append(Clean(remotePath), <<>>), EmptyPath}
        => \A e \in objects : GetPath(e) = KeyOf(e) \/ LosesDot(e)
================================================================================
