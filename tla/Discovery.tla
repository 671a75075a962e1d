------------------------------- MODULE Discovery -------------------------------
(***************************************************************************)
(* How a command finds the backup sets and their buckets (GetArqBackupSets *)
(* and NewArqBackupSet in arq/backup_set.go, NewArqBucket in arq/bucket.go,*)
(* findBucket in main.go): small files are read one after the other, most  *)
(* of them from the cache.  A backup set of which one cannot be read is    *)
(* left out; a head that cannot be read is left at zero.                   *)
(*                                                                         *)
(* Arq may complete a backup, and with it move a head, at any moment.      *)
(***************************************************************************)
EXTENDS Naturals, FiniteSets

CONSTANTS
    BackupSet,    \* the folders that are named like a backup set
    Bucket,       \* the folders that Arq backs up
    SetOf,        \* the backup set of each bucket
    NoBucket,     \* not a bucket: the command lists the backup sets
    Doubtful,     \* the files that may be bad before anything happens
    Accidents     \* TRUE when a listing or a download may fail

(* The files that are read. *)
File == (BackupSet \X {"salt", "computerinfo"}) \cup (Bucket \X {"plist", "head"})

ASSUME DiscoveryAssumption ==
    /\ SetOf \in [Bucket -> BackupSet]
    /\ BackupSet # {} /\ NoBucket \notin Bucket
    /\ Doubtful \subseteq File
    /\ Accidents \in BOOLEAN

VARIABLES
    store,     \* what the backup store holds of each file
    cached,    \* what the cache directory holds: "none" is also zero bytes
    stale,     \* the buckets with an older head in the cache than in the store
    at,        \* what the process is doing, or how it has ended
    todo,      \* the folders not looked at yet
    current,   \* the backup set being read
    left,      \* its buckets not read yet
    bucket,    \* the bucket being read
    salt,      \* the salts that were read
    head,      \* HeadSHA1 of each bucket read: "zero" for twenty zeros
    found,     \* the buckets of each backup set that were read
    listed,    \* the backup sets in the result
    wanted,    \* the bucket the command needed, or NoBucket
    accident   \* whether a listing or a download of this process failed

vars == <<store, cached, stale, at, todo, current, left, bucket, salt, head,
          found, listed, wanted, accident>>

Content == {"none", "damaged", "whole"}
BucketsOf(s) == {b \in Bucket : SetOf[b] = s}

Ended == {"listed", "opened", "missing", "failed", "crashed"}

DiscoveryTypeOK ==
    /\ store \in [File -> Content] /\ cached \in [File -> Content]
    /\ stale \subseteq {b \in Bucket : cached[<<b, "head">>] # "none"}
    /\ at \in Ended \cup {"start", "folders", "salt", "info", "list", "plist",
                          "head"}
    /\ todo \subseteq BackupSet
    /\ current \in BackupSet
    /\ left \subseteq BucketsOf(current) \ {bucket}
    /\ bucket \in Bucket \cup {NoBucket}
    /\ at = "head" => bucket \in BucketsOf(current)
    /\ salt \in [BackupSet -> Content]
    /\ head \in [Bucket -> {"zero", "old", "latest"}]
    /\ found \in [BackupSet -> SUBSET Bucket]
    /\ listed \subseteq BackupSet \ todo
    /\ wanted \in Bucket \cup {NoBucket}
    /\ accident \in BOOLEAN

(* Files that are not doubtful are good in the store and not cached yet. *)
Init ==
    /\ \E bad \in [Doubtful -> Content] :
            store = [f \in File |-> IF f \in Doubtful THEN bad[f] ELSE "whole"]
    /\ \E old \in [Doubtful -> Content] :
            cached = [f \in File |-> IF f \in Doubtful THEN old[f] ELSE "none"]
    /\ stale = {}
    /\ at = "start" /\ todo = {} /\ left = {} /\ listed = {}
    /\ current = CHOOSE s \in BackupSet : TRUE
    /\ bucket = NoBucket /\ wanted = NoBucket
    /\ salt = [s \in BackupSet |-> "none"]
    /\ head = [b \in Bucket |-> "zero"]
    /\ found = [s \in BackupSet |-> {}]
    /\ accident = FALSE
--------------------------------------------------------------------------------
(***************************************************************************)
(* What CachedGet and the reading of the cache file give: "none" for an    *)
(* error or a file of zero bytes, and what is in the cache after it.       *)
(* Module Connector has the steps of a download, here is its outcome: a    *)
(* failure removes the file, leaves the old one (it could not be created)  *)
(* or part of a new one, whose error may go unseen.                        *)
(***************************************************************************)
Outcome(how, read, file) == [how |-> how, read |-> read, file |-> file]

Get(f) ==
    {Outcome("downloaded", store[f], store[f])} \cup
        (IF Accidents THEN {Outcome("failed", "none", "none"),
                            Outcome("failed", "none", cached[f]),
                            Outcome("failed", "none", "damaged"),
                            Outcome("failed", "damaged", "damaged")}
                      ELSE {})

CachedGet(f) ==
    IF cached[f] # "none" THEN {Outcome("hit", cached[f], cached[f])} ELSE Get(f)

Done(f, got) ==
    /\ cached' = [cached EXCEPT ![f] = got.file]
    /\ accident' = (accident \/ got.how = "failed")

(* The file has been read, and the contents are these. *)
Reads(f, contents) ==
    \E got \in CachedGet(f) : got.read = contents /\ Done(f, got)

World == <<store, wanted>>
Results == <<salt, head, found, listed>>
Position == <<todo, current, left, bucket>>

Goes(place) ==
    /\ at' = place
    /\ UNCHANGED World

Accident ==
    /\ Accidents
    /\ accident' = TRUE

(* An error of NewArqBackupSet is only logged. *)
NextFolder == Goes("folders")

(* Folders that are not named like a backup set are passed over. *)
ListFolders ==
    /\ at = "start"
    /\ todo' = BackupSet
    /\ Goes("folders")
    /\ UNCHANGED <<current, left, bucket, cached, stale, Results, accident>>

ListFoldersFails ==
    /\ at = "start"
    /\ Accident
    /\ Goes("failed")
    /\ UNCHANGED <<Position, cached, stale, Results>>

StartSet ==
    /\ at = "folders"
    /\ \E s \in todo :
            /\ todo' = todo \ {s}
            /\ current' = s
    /\ left' = {} /\ bucket' = NoBucket
    /\ Goes("salt")
    /\ UNCHANGED <<cached, stale, Results, accident>>

(* Any bytes will do as a salt. *)
ReadSalt ==
    /\ at = "salt"
    /\ \E contents \in Content \ {"none"} :
            /\ Reads(<<current, "salt">>, contents)
            /\ salt' = [salt EXCEPT ![current] = contents]
    /\ Goes("info")
    /\ UNCHANGED <<Position, stale, head, found, listed>>

(***************************************************************************)
(* The download succeeds, by its result, with a file of zero bytes, which  *)
(* is as good a salt.  (The file counts as none the next time.)            *)
(***************************************************************************)
ReadEmptySalt ==
    /\ at = "salt"
    /\ cached[<<current, "salt">>] = "none"
    /\ Accident
    /\ salt' = [salt EXCEPT ![current] = "damaged"]
    /\ Goes("info")
    /\ UNCHANGED <<Position, cached, stale, head, found, listed>>

ReadSaltFails ==
    /\ at = "salt"
    /\ Reads(<<current, "salt">>, "none")
    /\ NextFolder
    /\ UNCHANGED <<Position, stale, Results>>

ReadComputerInfo ==
    /\ at = "info"
    /\ Reads(<<current, "computerinfo">>, "whole")
    /\ Goes("list")
    /\ UNCHANGED <<Position, stale, Results>>

(* It cannot be read, or what is there is not a property list. *)
ReadComputerInfoFails ==
    /\ at = "info"
    /\ \E contents \in {"none", "damaged"} :
            Reads(<<current, "computerinfo">>, contents)
    /\ NextFolder
    /\ UNCHANGED <<Position, stale, Results>>

(* A mistake to be caught: the listing is not that of the backup set. *)
ListAllBuckets ==
    /\ at = "list"
    /\ left' = Bucket
    /\ Goes("plist")
    /\ UNCHANGED <<todo, current, bucket, cached, stale, Results, accident>>

ListBuckets ==
    /\ at = "list"
    /\ left' = BucketsOf(current)
    /\ Goes("plist")
    /\ UNCHANGED <<todo, current, bucket, cached, stale, Results, accident>>

ListBucketsFails ==
    /\ at = "list"
    /\ Accident
    /\ NextFolder
    /\ UNCHANGED <<Position, cached, stale, Results>>

(* NewArqBucket reads the property list of the bucket first. *)
ReadPlist ==
    /\ at = "plist"
    /\ \E b \in left :
            /\ Reads(<<b, "plist">>, "whole")
            /\ left' = left \ {b}
            /\ bucket' = b
    /\ Goes("head")
    /\ UNCHANGED <<todo, current, stale, Results>>

(* A mistake to be caught: the head is asked for with CachedGet. *)
AsksForCachedHead == CachedGet(<<bucket, "head">>)

(* Get, not CachedGet: the store is asked every time. *)
AsksForHead == Get(<<bucket, "head">>)

(***************************************************************************)
(* An error, or a file that is not that of a head, leaves HeadSHA1 at      *)
(* zero; nobody looks at the error, and the bucket counts as read.         *)
(***************************************************************************)
UpdateHead ==
    /\ at = "head"
    /\ \E got \in AsksForHead :
            /\ Done(<<bucket, "head">>, got)
            /\ head' = [head EXCEPT ![bucket] =
                    IF got.read # "whole" THEN "zero"
                    ELSE IF got.how = "hit" /\ bucket \in stale THEN "old" ELSE "latest"]
            /\ stale' = IF got.how = "hit" THEN stale ELSE stale \ {bucket}
    /\ found' = [found EXCEPT ![current] = @ \cup {bucket}]
    /\ Goes("plist")
    /\ UNCHANGED <<Position, salt, listed>>

(* A mistake to be caught: a bucket that cannot be read is left out. *)
NewBucketSkips ==
    /\ at = "plist"
    /\ \E b \in left, contents \in {"none", "damaged"} :
            /\ Reads(<<b, "plist">>, contents)
            /\ left' = left \ {b}
    /\ Goes("plist")
    /\ UNCHANGED <<todo, current, bucket, stale, Results>>

(* A mistake to be caught: one set that cannot be read ends the listing. *)
NewBucketFailsForAll ==
    /\ at = "plist"
    /\ \E b \in left, contents \in {"none", "damaged"} :
            Reads(<<b, "plist">>, contents)
    /\ todo' = {}
    /\ NextFolder
    /\ UNCHANGED <<current, left, bucket, stale, Results>>

(* It cannot be read, decrypted or parsed: so the backup set cannot be. *)
NewBucketFails ==
    /\ at = "plist"
    /\ \E b \in left, contents \in {"none", "damaged"} :
            Reads(<<b, "plist">>, contents)
    /\ NextFolder
    /\ UNCHANGED <<Position, stale, Results>>

(***************************************************************************)
(* What the property list library makes of a file that was cut off is not  *)
(* known: an error, or a dictionary without the entry that is asked for,   *)
(* which ends the process in a type assertion.                             *)
(***************************************************************************)
Crash ==
    /\ \/ at = "info" /\ Reads(<<current, "computerinfo">>, "damaged")
       \/ at = "plist" /\ \E b \in left : Reads(<<b, "plist">>, "damaged")
    /\ Goes("crashed")
    /\ UNCHANGED <<Position, stale, Results>>

SetIsRead ==
    /\ at = "plist"
    /\ left = {}
    /\ listed' = listed \cup {current}
    /\ NextFolder
    /\ UNCHANGED <<Position, cached, stale, salt, head, found, accident>>

(* A mistake to be caught: a later backup set replaces what was found. *)
FinishWithLastSet ==
    /\ at = "folders"
    /\ todo = {}
    /\ wanted' \in Bucket \cup {NoBucket}
    /\ at' = CASE wanted' = NoBucket -> "listed"
               [] wanted' \in found[current] -> "opened"
               [] OTHER -> "missing"
    /\ UNCHANGED <<Position, store, cached, stale, Results, accident>>

(* findBucket looks for the bucket in the result. *)
Finish ==
    /\ at = "folders"
    /\ todo = {}
    /\ wanted' \in Bucket \cup {NoBucket}
    /\ at' = IF wanted' = NoBucket THEN "listed"
             ELSE IF \E s \in listed : wanted' \in found[s] THEN "opened" ELSE "missing"
    /\ UNCHANGED <<Position, store, cached, stale, Results, accident>>

(* The process has ended or is killed; the next command is given. *)
Rerun ==
    /\ at' = "start" /\ todo' = {} /\ left' = {} /\ listed' = {}
    /\ bucket' = NoBucket /\ wanted' = NoBucket
    /\ salt' = [s \in BackupSet |-> "none"]
    /\ head' = [b \in Bucket |-> "zero"]
    /\ found' = [s \in BackupSet |-> {}]
    /\ accident' = FALSE
    /\ \/ UNCHANGED <<cached, stale>>
       \/ cached' = [f \in File |-> "none"] /\ stale' = {}
    /\ UNCHANGED <<store, current>>

(* Backups are completed: the heads in the store are new ones. *)
ArqBacksUp ==
    /\ stale' = {b \in Bucket : store[<<b, "head">>] = "whole"
                                /\ cached[<<b, "head">>] # "none"}
    /\ stale' # stale
    /\ UNCHANGED <<store, cached, at, todo, current, left, bucket, salt, head,
                   found, listed, wanted, accident>>

Step ==
    \/ ListFolders
    \/ ListFoldersFails
    \/ StartSet
    \/ ReadSalt
    \/ ReadEmptySalt
    \/ ReadSaltFails
    \/ ReadComputerInfo
    \/ ReadComputerInfoFails
    \/ ListBuckets
    \/ ListBucketsFails
    \/ ReadPlist
    \/ UpdateHead
    \/ NewBucketFails
    \/ Crash
    \/ SetIsRead
    \/ Finish

Next == Step \/ Rerun \/ ArqBacksUp

Spec == Init /\ [][Next]_vars
--------------------------------------------------------------------------------
(***************************************************************************)
(* A backup set in the result has all of its buckets, though any of the    *)
(* reads may fail (backup_set.go:262): it is never listed with some of its *)
(* folders missing.                                                        *)
(***************************************************************************)
ListedIsComplete == \A s \in listed : found[s] = BucketsOf(s)

(* The files a backup set needs are good, and none was left damaged. *)
Good(s) ==
    \A f \in File : (f[1] = s \/ f[1] \in BucketsOf(s)) /\ f[2] # "head" =>
        store[f] = "whole" /\ cached[f] # "damaged"

(***************************************************************************)
(* What is wrong with one backup set hides no other: without failures, and *)
(* unless the process crashed, a good backup set is in the result, with    *)
(* the salt it has in the store (backup_set.go:60-68).  So it is after     *)
(* --delete-cache-directory, whatever a process before left behind.        *)
(***************************************************************************)
GoodSetsAreListed ==
    at \in {"listed", "opened", "missing"} /\ ~accident =>
        \A s \in BackupSet : Good(s) => s \in listed /\ salt[s] = "whole"

(***************************************************************************)
(* The head of a bucket in the result is the one the store had when it was *)
(* read, whatever is in the cache directory (Get instead of CachedGet,     *)
(* bucket.go:92), or zero, and that only if the download failed or the     *)
(* store has no good one.                                                  *)
(***************************************************************************)
HeadsAreFresh ==
    \A s \in listed : \A b \in found[s] :
        \/ head[b] = "latest"
        \/ head[b] = "zero" /\ (accident \/ store[<<b, "head">>] # "whole")

(***************************************************************************)
(* A command that does not find its bucket was not given a good one: a     *)
(* file of its backup set is bad, or something failed (main.go:185-206).   *)
(***************************************************************************)
MissingHasCause == at = "missing" /\ ~accident => ~Good(SetOf[wanted])
================================================================================
