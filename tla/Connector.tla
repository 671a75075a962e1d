------------------------------- MODULE Connector -------------------------------
(***************************************************************************)
(* The download cache kept by the three connectors (connector/s3.go,       *)
(* connector/googlecloudstorage.go, connector/sftp.go): CachedGet answers  *)
(* from the cache directory when the file is there and is not zero bytes   *)
(* long, Get truncates the cache file and copies the remote object to it.  *)
(*                                                                         *)
(* Names stand for contents: a file, remote or cached, is "none" (does not *)
(* exist), "empty" (zero bytes), "damaged" (some bytes, but not those of a *)
(* valid file) or "whole" (what IsValidPackFile accepts).                  *)
(***************************************************************************)
EXTENDS Naturals, Backend

CONSTANTS
    Key,           \* the objects that may be asked for
    NoKey,         \* not a key: nothing asked for yet
    Client,        \* the goroutines that may be inside the connector
    Backends,      \* the connectors considered
    Hosts,         \* the operating systems considered
    LocalFaults    \* TRUE when local disk operations may fail

ASSUME ConnectorAssumption ==
    /\ NoKey \notin Key
    /\ Client # {}
    /\ Backends \subseteq {"s3", "gcs", "sftp"}
    /\ Hosts \subseteq {"unix", "windows"}
    /\ LocalFaults \in BOOLEAN

VARIABLES
    host,          \* the operating system it runs on
    remote,        \* what a download of each key finds in the backup store
    cache,         \* the files of the cache directory
    at,            \* where each client is inside CachedGet or Get
    want,          \* the key each client asked for last
    faults         \* the kinds of failure this process has met so far

connectorVars == <<backend, host, remote, cache, at, want, faults>>

Content == {"none", "empty", "damaged", "whole"}

(* The sizes os.Stat tells apart. *)
NonZero(file) == file \in {"damaged", "whole"}

ConnectorTypeOK ==
    /\ backend \in Backends
    /\ host \in Hosts
    /\ remote \in [Key -> Content]
    /\ cache \in [Key -> Content]
    /\ at \in [Client -> {"idle", "stat", "create", "open", "copy", "ok", "err"}]
    /\ want \in [Client -> Key \cup {NoKey}]
    /\ \A c \in Client : at[c] # "idle" => want[c] \in Key
    /\ faults \subseteq {"network", "disk"}

(* The cache directory may hold anything an earlier process left there. *)
ConnectorInit ==
    /\ backend \in Backends
    /\ host \in Hosts
    /\ remote \in [Key -> Content]
    /\ cache \in [Key -> Content]
    /\ at = [c \in Client |-> "idle"]
    /\ want = [c \in Client |-> NoKey]
    /\ faults = {}
--------------------------------------------------------------------------------
(***************************************************************************)
(* One step of client c inside the connector: where it goes, and what the  *)
(* file it downloads becomes.                                              *)
(***************************************************************************)
Goto(c, place, file) ==
    /\ at' = [at EXCEPT ![c] = place]
    /\ cache' = [cache EXCEPT ![want[c]] = file]
    /\ UNCHANGED <<backend, host, remote, want>>

File(c) == cache[want[c]]
Source(c) == remote[want[c]]

(* A mistake to be caught: the key is not noted. *)
CallUnnoted(c, k, entry) ==
    /\ at[c] = "idle"
    /\ at' = [at EXCEPT ![c] = entry]
    /\ UNCHANGED want

(* CachedGet looks at the file first, Get starts by truncating it. *)
Call(c, k, entry) ==
    /\ at[c] = "idle"
    /\ at' = [at EXCEPT ![c] = entry]
    /\ want' = [want EXCEPT ![c] = k]

StartCachedGet(c, k) == Call(c, k, "stat")
StartGet(c, k) == Call(c, k, "create")

(* The file exists and is not zero bytes: no download, whatever it holds. *)
CacheHit(c) ==
    /\ at[c] = "stat"
    /\ NonZero(File(c))
    /\ Goto(c, "ok", File(c))
    /\ UNCHANGED faults

(* A mistake to be caught: a file that is there is downloaded again. *)
CacheMissAlways(c) ==
    /\ at[c] = "stat"
    /\ Goto(c, "create", File(c))
    /\ UNCHANGED faults

CacheMiss(c) ==
    /\ at[c] = "stat"
    /\ ~NonZero(File(c))
    /\ Goto(c, "create", File(c))
    /\ UNCHANGED faults

(* os.Create truncates whatever was there. *)
Create(c) ==
    /\ at[c] = "create"
    /\ Goto(c, "open", "empty")
    /\ UNCHANGED faults

(* The cache directory or the file cannot be made. *)
CreateFails(c) ==
    /\ LocalFaults
    /\ at[c] = "create"
    /\ Goto(c, "err", File(c))
    /\ faults' = faults \cup {"disk"}

(* A mistake to be caught: no connector removes the file. *)
FailsWithoutRemove(c, files, met) ==
    /\ \E file \in files : Goto(c, "err", file)
    /\ faults' = faults \cup met

(***************************************************************************)
(* Get ends in an error and calls os.Remove on a file that it still has    *)
(* open.  On Windows this always fails, elsewhere when the local disk      *)
(* does; nobody looks at the error, and the file stays with what has       *)
(* reached it.                                                             *)
(***************************************************************************)
FailsRemoving(c, files, met) ==
    \/ /\ host = "unix"
       /\ Goto(c, "err", "none")
       /\ faults' = faults \cup met
    \/ /\ host = "windows" \/ LocalFaults
       /\ \E file \in files : Goto(c, "err", file)
       /\ faults' = faults \cup met \cup (IF host = "windows" THEN {} ELSE {"disk"})

(***************************************************************************)
(* What a copy that stops early may have written.  Nothing more than was   *)
(* there, or some of the object: bytes that are not a valid file.          *)
(***************************************************************************)
Partial(c) == {File(c)} \cup (IF NonZero(Source(c)) THEN {"damaged"} ELSE {})

Open(c) ==
    /\ at[c] = "open"
    /\ Source(c) # "none"
    /\ Goto(c, "copy", File(c))
    /\ UNCHANGED faults

(* No such object, or the request failed. *)
Unserved(c) == IF Source(c) = "none" THEN {} ELSE {"network"}

(* A mistake to be caught: SFTP removes the file as the others do. *)
OpenFailsRemoving(c) ==
    /\ at[c] = "open"
    /\ FailsRemoving(c, {File(c)}, Unserved(c))

(* Only s3 and gcs remove the file. *)
OpenFails(c) ==
    /\ at[c] = "open"
    /\ \/ /\ backend = "sftp"
          /\ Goto(c, "err", File(c))
          /\ faults' = faults \cup Unserved(c)
       \/ /\ backend # "sftp"
          /\ FailsRemoving(c, {File(c)}, Unserved(c))

(* Some bytes have reached the file. *)
CopySome(c) ==
    /\ at[c] = "copy"
    /\ File(c) = "empty"
    /\ NonZero(Source(c))
    /\ Goto(c, "copy", "damaged")
    /\ UNCHANGED faults

CopyEnds(c) ==
    /\ at[c] = "copy"
    /\ Goto(c, "ok", Source(c))
    /\ UNCHANGED faults

(* A mistake to be caught: no connector looks at the error. *)
CopyFailsUnseen(c) ==
    /\ at[c] = "copy"
    /\ \E file \in Partial(c) : Goto(c, "ok", file)
    /\ faults' = faults \cup {"network"}

(* The transfer breaks off.  SFTP does not look at the error of io.Copy. *)
CopyFails(c) ==
    /\ at[c] = "copy"
    /\ \/ /\ backend = "sftp"
          /\ \E file \in Partial(c) : Goto(c, "ok", file)
          /\ faults' = faults \cup {"network"}
       \/ /\ backend # "sftp"
          /\ FailsRemoving(c, Partial(c), {"network"})

(* The deferred bufio Flush fails (disk full): nobody looks at its error. *)
FlushFails(c) ==
    /\ LocalFaults
    /\ backend \in {"gcs", "sftp"}
    /\ at[c] = "copy"
    /\ \E file \in Partial(c) : Goto(c, "ok", file)
    /\ faults' = faults \cup {"disk"}

ConnectorStep(c) ==
    \/ CacheHit(c)
    \/ CacheMiss(c)
    \/ Create(c)
    \/ CreateFails(c)
    \/ Open(c)
    \/ OpenFails(c)
    \/ CopySome(c)
    \/ CopyEnds(c)
    \/ CopyFails(c)
    \/ FlushFails(c)

(* The call of c has come back, with or without an error. *)
Returned(c) == at[c] \in {"ok", "err"}
--------------------------------------------------------------------------------
(***************************************************************************)
(* The connector by itself, under callers that ask for any key that no     *)
(* other goroutine is downloading (cachePackSet hands each key to one      *)
(* worker, every other caller is alone), and that may be killed at any     *)
(* moment and started again over what they left in the cache directory.    *)
(***************************************************************************)
Asks(c, k) ==
    /\ \A d \in Client : at[d] # "idle" => want[d] # k
    /\ StartCachedGet(c, k) \/ StartGet(c, k)
    /\ UNCHANGED <<backend, host, remote, cache, faults>>

Takes(c) ==
    /\ Returned(c)
    /\ at' = [at EXCEPT ![c] = "idle"]
    /\ UNCHANGED <<backend, host, remote, cache, want, faults>>

Dies ==
    /\ \E c \in Client : at[c] # "idle"
    /\ at' = [c \in Client |-> "idle"]
    /\ faults' = {}
    /\ UNCHANGED <<backend, host, remote, cache, want>>

ConnectorNext ==
    \/ \E c \in Client, k \in Key : Asks(c, k)
    \/ \E c \in Client : ConnectorStep(c) \/ Takes(c)
    \/ Dies

ConnectorSpec == ConnectorInit /\ [][ConnectorNext]_connectorVars
--------------------------------------------------------------------------------
Mover(c, from, to) == at[c] = from /\ at'[c] = to

(***************************************************************************)
(* A download that returns no error has put the whole remote object into   *)
(* the cache file, where the code looks at the error of the copy: S3       *)
(* always (s3.go:190), Google Cloud Storage (googlecloudstorage.go:209) as *)
(* long as the local disk does not fail under the deferred Flush.  SFTP    *)
(* drops that error (sftp.go:259) and checks an older one.                 *)
(***************************************************************************)
CheckedDownloadIsComplete ==
    [][\A c \in Client :
            /\ Mover(c, "copy", "ok")
            /\ backend = "s3" \/ (backend = "gcs" /\ "disk" \notin faults')
            => cache'[want[c]] = remote[want[c]]]_connectorVars

(***************************************************************************)
(* On Unix, a call that returns an error leaves nothing that a later       *)
(* CachedGet would take for the object: the next call downloads again.     *)
(* This takes a local disk that has not failed the process: an os.Create   *)
(* that fails leaves the file that was there, and the error of the         *)
(* deferred os.Remove (s3.go:192, googlecloudstorage.go:203, 211) is not   *)
(* looked at.  That the copy of SFTP never returns one is sftp.go:259.     *)
(***************************************************************************)
FailedDownloadIsNotReused ==
    [][\A c \in Client :
            /\ host = "unix" /\ "disk" \notin faults'
            /\ at[c] # "err" /\ at'[c] = "err"
            => ~NonZero(cache'[want[c]])]_connectorVars
================================================================================
