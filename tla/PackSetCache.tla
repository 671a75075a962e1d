----------------------------- MODULE PackSetCache ------------------------------
(***************************************************************************)
(* CacheTreePackSets and CacheBlobPackSets (arq/backup_set.go): before a   *)
(* listing or a recovery, the indexes of every pack set of the backup set  *)
(* are brought into the cache.  For one pack set after the other, the main *)
(* goroutine lists it, fills a channel with its objects and waits for      *)
(* 2*GOMAXPROCS workers, which ask the connector for each index, check its *)
(* hash, and delete and ask again, once, when it is not valid.             *)
(*                                                                         *)
(* The process may die at any moment, and is run again over whatever it    *)
(* left in the cache directory, unless --delete-cache-directory is given.  *)
(***************************************************************************)
EXTENDS Connector, Sequences

CONSTANTS
    Other,      \* the objects of pack sets that are not indexes
    PackSets    \* the pack sets in the order they are cached, each a set of objects

Positions == 1..Len(PackSets)

(* Pack sets are directories of their own, and only index objects, whose   *)
(* names end in ".index", are keys the workers ask for.  A backup set whose *)
(* bucket was found has a tree and a blob pack set at least.               *)
ASSUME PackSetAssumption ==
    /\ Key \cap Other = {}
    /\ PackSets \in Seq(SUBSET (Key \cup Other)) \ {<<>>}
    /\ \A i, j \in Positions : i # j => PackSets[i] \cap PackSets[j] = {}

VARIABLES
    phase,      \* what the process is doing
    cur,        \* the pack set the main goroutine is at
    inputs,     \* the objects still in the channel
    pc,         \* where each worker is
    attempt,    \* how often each worker has asked for its key
    crash,      \* whether a worker has panicked: "none" or "coming"
    promised    \* the indexes of the pack sets cachePackSet returned nil for

packVars == <<phase, cur, inputs, pc, attempt, crash, promised>>
vars == <<connectorVars, packVars>>

Ended == {"done", "panicked", "killed"}

Indexes(i) == PackSets[i] \cap Key

(* A worker has panicked, and the process is about to end. *)
Panicking == crash = "coming"

(* A worker is busy with the key it took from the channel. *)
Busy(w) == pc[w] \in {"fetch", "remove"}

PackSetTypeOK ==
    /\ ConnectorTypeOK
    /\ phase \in {"list", "join"} \cup Ended
    /\ cur \in 1..Len(PackSets) + 1
    /\ inputs \subseteq Key \cup Other
    /\ pc \in [Client -> {"exited", "recv", "fetch", "remove"}]
    /\ attempt \in [Client -> 1..2]
    /\ crash \in {"none", "coming"}
    /\ promised \subseteq Key

Init ==
    /\ ConnectorInit
    /\ phase = "list"
    /\ cur = 1
    /\ inputs = {}
    /\ pc = [w \in Client |-> "exited"]
    /\ attempt = [w \in Client |-> 1]
    /\ crash = "none"
    /\ promised = {}
--------------------------------------------------------------------------------
(* The main goroutine. *)

(* ListObjectsAsAll, the channel and the workers. *)
List ==
    /\ phase = "list"
    /\ phase' = "join"
    /\ inputs' = PackSets[cur]
    /\ pc' = [w \in Client |-> "recv"]
    /\ UNCHANGED <<connectorVars, cur, attempt, crash, promised>>

NextPackSet ==
    /\ cur' = cur + 1
    /\ phase' = IF cur = Len(PackSets) THEN "done" ELSE "list"

(* The error comes back to CacheTreePackSets, which does not look at it. *)
ListFails ==
    /\ phase = "list"
    /\ NextPackSet
    /\ faults' = faults \cup {"network"}
    /\ UNCHANGED <<backend, host, remote, cache, at, want, inputs, pc, attempt, crash, promised>>

(* A mistake to be caught: not only the indexes are counted on. *)
JoinPromisingAll ==
    /\ phase = "join"
    /\ \A w \in Client : pc[w] = "exited"
    /\ promised' = promised \cup PackSets[cur]
    /\ NextPackSet
    /\ UNCHANGED <<connectorVars, inputs, pc, attempt, crash>>

(* A mistake to be caught: one worker's 1 is enough. *)
JoinFirst ==
    /\ phase = "join"
    /\ \E w \in Client : pc[w] = "exited"
    /\ promised' = promised \cup Indexes(cur)
    /\ NextPackSet
    /\ UNCHANGED <<connectorVars, inputs, pc, attempt, crash>>

(* Every worker has sent its 1. *)
Join ==
    /\ phase = "join"
    /\ \A w \in Client : pc[w] = "exited"
    /\ promised' = promised \cup Indexes(cur)
    /\ NextPackSet
    /\ UNCHANGED <<connectorVars, inputs, pc, attempt, crash>>

MainStep == List \/ Join
--------------------------------------------------------------------------------
(* A worker. *)

(* A mistake to be caught: every worker ranges over the list itself. *)
ReceiveShared(w) ==
    /\ phase = "join"
    /\ pc[w] = "recv"
    /\ \E k \in inputs \cap Key : StartCachedGet(w, k)
    /\ pc' = [pc EXCEPT ![w] = "fetch"]
    /\ attempt' = [attempt EXCEPT ![w] = 1]
    /\ UNCHANGED <<backend, host, remote, cache, faults, phase, cur, inputs, crash, promised>>

ReceiveIndex(w) ==
    /\ phase = "join"
    /\ pc[w] = "recv"
    /\ \E k \in inputs \cap Key :
            /\ inputs' = inputs \ {k}
            /\ StartCachedGet(w, k)
    /\ pc' = [pc EXCEPT ![w] = "fetch"]
    /\ attempt' = [attempt EXCEPT ![w] = 1]
    /\ UNCHANGED <<backend, host, remote, cache, faults, phase, cur, crash, promised>>

SkipOther(w) ==
    /\ phase = "join"
    /\ pc[w] = "recv"
    /\ \E o \in inputs \ Key : inputs' = inputs \ {o}
    /\ UNCHANGED <<connectorVars, phase, cur, pc, attempt, crash, promised>>

(* A mistake to be caught: the channel is not closed. *)
DrainedOpen(w) ==
    /\ phase = "join"
    /\ pc[w] = "recv"
    /\ inputs = {}
    /\ UNCHANGED vars

Drained(w) ==
    /\ phase = "join"
    /\ pc[w] = "recv"
    /\ inputs = {}
    /\ pc' = [pc EXCEPT ![w] = "exited"]
    /\ UNCHANGED <<connectorVars, phase, cur, inputs, attempt, crash, promised>>

Fetch(w) ==
    /\ phase = "join"
    /\ pc[w] = "fetch"
    /\ ConnectorStep(w)
    /\ UNCHANGED packVars

(* The call is back; its error is logged and IsValidPackFile decides. *)
Checked(w) ==
    /\ phase = "join"
    /\ pc[w] = "fetch"
    /\ Returned(w)
    /\ at' = [at EXCEPT ![w] = "idle"]
    /\ UNCHANGED <<backend, host, remote, cache, want, phase, cur, inputs, attempt, promised>>

(* The SHA1 at the end of the file is that of the rest. *)
IsValidPackFile(file) == file = "whole"

(* A mistake to be caught: what the second call fetched is not checked. *)
FoundUnchecked(w) ==
    /\ Checked(w)
    /\ IsValidPackFile(File(w)) \/ attempt[w] = 2
    /\ pc' = [pc EXCEPT ![w] = "recv"]
    /\ UNCHANGED <<faults, crash>>

FoundValid(w) ==
    /\ Checked(w)
    /\ IsValidPackFile(File(w))
    /\ pc' = [pc EXCEPT ![w] = "recv"]
    /\ UNCHANGED <<faults, crash>>

(* Not valid, or it could not be read to the end. *)
FoundInvalid(w) ==
    /\ Checked(w)
    /\ ~IsValidPackFile(File(w)) \/ LocalFaults
    /\ faults' = faults \cup (IF IsValidPackFile(File(w)) THEN {"disk"} ELSE {})

FirstInvalid(w) ==
    /\ attempt[w] = 1
    /\ FoundInvalid(w)
    /\ pc' = [pc EXCEPT ![w] = "remove"]
    /\ UNCHANGED crash

(***************************************************************************)
(* A panic: the deferred send of the worker's 1 comes first, then the      *)
(* process ends.  Until it does, the others go on, and the main goroutine  *)
(* counts this worker as one that has done its share.                      *)
(***************************************************************************)
Panic(w) ==
    /\ crash' = "coming"
    /\ pc' = [pc EXCEPT ![w] = "exited"]

(* log.Panicln *)
SecondInvalid(w) ==
    /\ attempt[w] = 2
    /\ FoundInvalid(w)
    /\ Panic(w)

(* A mistake to be caught: the second CachedGet without the os.Remove. *)
RetryInPlace(w) ==
    /\ phase = "join"
    /\ pc[w] = "remove"
    /\ StartCachedGet(w, want[w])
    /\ pc' = [pc EXCEPT ![w] = "fetch"]
    /\ attempt' = [attempt EXCEPT ![w] = 2]
    /\ UNCHANGED <<backend, host, remote, cache, faults, phase, cur, inputs, crash, promised>>

(* os.Remove, and the second CachedGet. *)
RemoveInvalid(w) ==
    /\ phase = "join"
    /\ pc[w] = "remove"
    /\ File(w) # "none"
    /\ cache' = [cache EXCEPT ![want[w]] = "none"]
    /\ StartCachedGet(w, want[w])
    /\ pc' = [pc EXCEPT ![w] = "fetch"]
    /\ attempt' = [attempt EXCEPT ![w] = 2]
    /\ UNCHANGED <<backend, host, remote, faults, phase, cur, inputs, crash, promised>>

(* os.Remove fails, on a file that does not exist to begin with: log.Panicf *)
RemoveFails(w) ==
    /\ phase = "join"
    /\ pc[w] = "remove"
    /\ File(w) = "none" \/ LocalFaults
    /\ faults' = faults \cup (IF File(w) = "none" THEN {} ELSE {"disk"})
    /\ Panic(w)
    /\ UNCHANGED <<backend, host, remote, cache, at, want, phase, cur, inputs, attempt, promised>>

WorkerStep(w) ==
    \/ ReceiveIndex(w)
    \/ SkipOther(w)
    \/ Drained(w)
    \/ Fetch(w)
    \/ FoundValid(w)
    \/ FirstInvalid(w)
    \/ SecondInvalid(w)
    \/ RemoveInvalid(w)
    \/ RemoveFails(w)
--------------------------------------------------------------------------------
(* The process dies: interrupted, or log.Fatalf in the keepalive of SFTP. *)
Kill ==
    /\ phase \in {"list", "join"}
    /\ phase' = "killed"
    /\ UNCHANGED <<connectorVars, cur, inputs, pc, attempt, crash, promised>>

(* The panic of a worker ends the process, whatever the others do by then. *)
Crash ==
    /\ Panicking
    /\ phase \in {"list", "join", "done"}
    /\ phase' = "panicked"
    /\ UNCHANGED <<connectorVars, cur, inputs, pc, attempt, crash, promised>>

(* A later run of the program, with or without --delete-cache-directory.   *)
(* (A backup store that Arq changed in the meantime is a case of Init,     *)
(* where cache and remote are not related.)                                *)
Restart ==
    /\ phase \in Ended
    /\ cache' \in {cache, [k \in Key |-> "none"]}
    /\ at' = [w \in Client |-> "idle"]
    /\ want' = [w \in Client |-> NoKey]
    /\ faults' = {}
    /\ UNCHANGED <<backend, host, remote>>
    /\ phase' = "list"
    /\ cur' = 1
    /\ inputs' = {}
    /\ pc' = [w \in Client |-> "exited"]
    /\ attempt' = [w \in Client |-> 1]
    /\ crash' = "none"
    /\ promised' = {}

Next ==
    \/ MainStep
    \/ ListFails
    \/ \E w \in Client : WorkerStep(w)
    \/ Crash
    \/ Kill
    \/ Restart

Fairness == WF_vars(MainStep) /\ \A w \in Client : WF_vars(WorkerStep(w))

Spec == Init /\ [][Next]_vars /\ Fairness
--------------------------------------------------------------------------------
(***************************************************************************)
(* What the index lookup counts on: the indexes of a pack set that was     *)
(* cached are in the cache and valid, and stay so, through the downloads,  *)
(* deletions and panics of the pack sets after it.  A panic is the end of  *)
(* it: the send deferred in backup_set.go:208 may release the main         *)
(* goroutine before the process is gone.                                   *)
(***************************************************************************)
PromiseKept == ~Panicking => \A k \in promised : cache[k] = "whole"

(***************************************************************************)
(* No two workers are ever at the same cache file, one deleting what the   *)
(* other downloads or hashes, and no key a worker is at will come up again.*)
(***************************************************************************)
OneWorkerPerKey ==
    phase = "join" =>
        \A w \in Client : Busy(w) =>
            /\ want[w] \notin inputs
            /\ \A v \in Client \ {w} : Busy(v) => want[v] # want[w]

(***************************************************************************)
(* When nothing fails while the process runs, it panics only over an index *)
(* that is bad in the backup store: whatever an earlier process left in    *)
(* the cache directory, the deletion and the retry repair it.              *)
(***************************************************************************)
LeftoversAreRepaired ==
    Panicking /\ faults = {} =>
        \E k \in Key : remote[k] # "whole"

GivesUp(w) == pc[w] = "fetch" /\ attempt[w] = 2

(***************************************************************************)
(* "invalid pack file first time, will delete and retry"                   *)
(* (backup_set.go:229): when the backup store has every index and the      *)
(* local disk works, no worker panics before it has asked the connector    *)
(* for a file twice.                                                       *)
(***************************************************************************)
PanicsOnlyAfterRetry ==
    [][/\ ~Panicking /\ Panicking' /\ "disk" \notin faults'
       /\ \A k \in Key : remote[k] = "whole"
       => \E w \in Client : GivesUp(w)]_vars

(***************************************************************************)
(* The same where the connector leaves the file of a failed download in    *)
(* place: SFTP, and every connector on Windows.                            *)
(***************************************************************************)
RetriesWhatIsLeft ==
    [][/\ ~Panicking /\ Panicking' /\ "disk" \notin faults'
       /\ backend = "sftp" \/ host = "windows"
       => \E w \in Client : GivesUp(w)]_vars

(***************************************************************************)
(* A valid index is not downloaded again, in this run or in a later one,   *)
(* as long as its file can be read: only --delete-cache-directory and a    *)
(* disk failure lose one.                                                  *)
(***************************************************************************)
ValidIsKept ==
    [][\A k \in Key : cache[k] = "whole" /\ cache'[k] # "whole" =>
            \/ "disk" \in faults
            \/ phase \in Ended /\ \A l \in Key : cache'[l] = "none"]_vars

(***************************************************************************)
(* The join is reached: a run that is not killed finishes or panics, since *)
(* every call of the connector returns and every worker drains its share.  *)
(***************************************************************************)
EveryRunEnds == phase \in {"list", "join"} ~> phase \in Ended
--------------------------------------------------------------------------------
(***************************************************************************)
(* Caching the pack sets implements the contract of the cache: in it, a    *)
(* file is had when it is valid.                                           *)
(***************************************************************************)
Have == {k \in Key : cache[k] = "whole"}
Counted == IF Panicking THEN {} ELSE promised
Mode == IF phase \in Ended THEN "stopped" ELSE IF Panicking THEN "failing" ELSE "caching"

Contract == INSTANCE CacheContract WITH have <- Have, promised <- Counted, mode <- Mode

ImplementsContract == Contract!ContractSpec
================================================================================
