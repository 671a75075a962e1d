# A TLA+ model of arqinator

arqinator lists and recovers backups made by Arq 4 from Amazon S3, Google Cloud
Storage or an SFTP server. This directory holds TLA+ modules translated from its
Go source, TLC configurations that check them on small instances, and proofs of
the central properties for every instance. File names below are relative to
`src/`.

## 1. The system

One process runs one command (`main.go`): `list-backup-sets`,
`list-directory-contents` or `recover`. There is no server and no shared state
between processes except the cache directory, which outlives them.

| component | source | state | operations |
|---|---|---|---|
| Connectors | `connector/*.go` | the cache directory; the connection | `CachedGet`, `Get`, `ListObjectsAsAll`, `ListObjectsAsFolders` |
| SFTP session | `connector/sftp.go` | deadlines, the keepalive goroutine | `DialSSHTimeout`, keepalive, `log.Fatalf` |
| Pack set cache | `arq/backup_set.go`, `arq/pack.go` | a channel of keys, the workers, the cached indexes | `CacheTreePackSets`, `CacheBlobPackSets`, `cachePackSet`, `IsValidPackFile` |
| Pack index lookup | `arq/pack_set_index.go` | the position in the index files | `GetTreePackFile`, `GetBlobPackFile` |
| Pack object fetch | `arq/pack_set_index.go` | cached packs | `GetObjectFromPackFile`, `NewPackFileObject` |
| Single objects | `arq/repo.go` | cached objects | `GetDataBlobKeyContentsFromObjects` |
| Path lookup | `arq/pack_set_index.go` | the path left to walk | `FindNode` |
| Recovery | `arq/repo.go`, `main.go` | the recursion, the destination on disk | `recover`, `DownloadTree`, `DownloadNode`, `BlobKeysReader.Read` |
| Backup set discovery | `arq/backup_set.go`, `arq/bucket.go` | backup sets, their buckets and heads | `GetArqBackupSets`, `NewArqBucket`, `updateHeadSHA1`, `findBucket` |
| Command line session | `main.go` | options, the cache directory | `cliSetup`, the commands |
| Arq data formats | `arq/types/*.go` | none | the parsers and their version gates |
| Crypto | `crypto/crypto.go` | keys | key derivation, decryption, padding |

How they interact: a command builds a connection and asks the discovery for the
backup sets. `recover` and `list-directory-contents` first let the pack set cache
bring every index file into the cache directory: for one pack set after the
other, `2 * GOMAXPROCS` worker goroutines take keys from a channel and call the
connector, and the main goroutine waits for as many messages. From then on only
the main goroutine runs (and the keepalive with SFTP): `FindNode` walks from the
head commit along a path, each tree on it is looked up in the cached indexes,
fetched as a part of a pack, decrypted and parsed; `DownloadTree` repeats that
for every node below.

### What is hard here, and what makes each component correct

* **Connectors.** `Get` truncates the cache file before it has the object,
  and `CachedGet` believes any file that is not empty. So every way a download can
  stop (an error at the open, in the middle of the copy, in the deferred `Flush`, a
  process that dies) decides what *later* calls and *later* processes see. Correct
  means: success puts the whole object there, failure leaves nothing that passes for it.
* **Pack set cache.** Goroutines that truncate, hash and delete files without a
  lock; a retry that deletes first; panics in a worker that take the process down
  while the others are in the middle of a copy, but not before the deferred send
  of the panicking worker has been counted; a next run over the leftovers. Correct
  means: what `cachePackSet` returned `nil` for is valid and stays valid, workers
  never meet at a file, leftovers are repaired, the join is reached.
* **Pack index lookup.** Byte arithmetic in a fan-out table, an inner loop that
  breaks and an outer loop that does not, index files of older runs. Correct means:
  what is found is the object, and what is listed is found.
* **Recovery.** A recursion in which a failure is logged, returned, dropped or
  dereferenced depending on where it happens. Correct means: losing one thing
  does not lose others, and no error means no damage.
* **Pack fetch and single objects.** A pack is checked and asked for again, an
  object on its own is not; decompression has a fallback in one place and not in
  the other. Correct means: an answer is the object or an error, and what was left
  in the cache does not decide which.
* **Discovery.** A dozen small files, any of which may be missing, cut off or old in
  the cache. Correct means: a backup set is there with all its buckets or not at
  all, one hides no other, and a head is the one in the store.
* **Path lookup and formats.** Paths are cut as strings and walked as elements; a
  commit's path is unescaped; fields do not name themselves and depend on versions, so that
  one wrong gate shifts everything behind it. Correct means: what is found is what is at
  the path, and what is there is found, in every version.
* **Listing.** Pages asked for one after the other while Arq stores and deletes. Correct
  means: nothing that stays is missing, nothing is there twice or was never there, and
  a listed path can be asked for.
* **SFTP session.** A read deadline that every answer moves, a keepalive that waits
  without one and ends the process. Correct means: a slow server is not given up, a dead one
  ends the process soon.

What can go wrong at which line is recorded under `hazards` in `PROJECT.json`.

## 2. The modules

| module | what it is |
|---|---|
| `Connector` | `CachedGet` and `Get` of the three connectors as steps of a client |
| `Listing` | `listObjects` of the three connectors over a store that changes |
| `Backend` | the variable the two have in common |
| `Connection` | extends both: one connection that lists and downloads, with deaths |
| `PackSetCache` | extends `Connector` with the main goroutine, the channel and the workers of `cachePackSet`; panics, kills and restarts |
| `CacheContract` | what caching promises: an abstract specification that `PackSetCache` implements |
| `PackIndex` | the loop of `GetTreePackFile` / `GetBlobPackFile` |
| `PackFetch` | extends `Connector` with `GetObjectFromPackFile`, decryption, decompression and the single objects |
| `Discovery` | `GetArqBackupSets`, `NewArqBucket`, `findBucket` over files that cannot be read |
| `Paths` | Go's `strings` and `path` functions on paths |
| `ArqTypes` | the formats of commits and trees in every version, and their parsers |
| `FindNode` | extends both with the walk from the commit to a path |
| `Restore` | extends `FindNode` with `recover`, `DownloadTree`, `DownloadNode` and `list-directory-contents` |
| `Session` | a process, its SFTP session and the keepalive, in seconds |
| `MCConnector`, `MCPackSetCache`, `MCPackIndex`, `MCPackFetch`, `MCDiscovery`, `MCRestore`, `MCSession` | the constants of the small instances |
| `ConnectorProofs`, `ListingProofs`, `PackSetCacheProofs`, `PackIndexProofs`, `PackFetchProofs`, `DiscoveryProofs`, `RestoreProofs`, `SessionProofs` | theorems and their proofs |

Definitions with a comment "A mistake to be caught" are not part of any
specification: each is a definition changed the way a plausible bug would change
it, to see that a property notices (`mutants` in `PROJECT.json`).

### Connector

A file, remote or cached, is one of four contents: `none`, `empty`, `damaged`
(some bytes, not those of a valid file), `whole`. `os.Stat` tells the first two
from the others and `IsValidPackFile` tells `whole` from the rest, and the code
asks nothing else. `at[c]` is where client `c` is:

    stat --CacheHit--> ok          create --CreateFails--> err
    stat --CacheMiss--> create     open   --OpenFails--> err
    create --Create--> open        copy   --CopyEnds--> ok
    open --Open--> copy            copy   --CopyFails--> err (SFTP: ok)
    copy --CopySome--> copy        copy   --FlushFails--> ok (not S3)

The three connectors differ in three places, all modelled: SFTP does not remove
the file when the open fails (`sftp.go:253`) and does not look at the error of
`io.Copy` (`sftp.go:259`); S3 writes through a `WriterAt`, without the deferred
`Flush` that fails unseen. The host matters for one: `os.Remove` of a file still
open removes it on Unix and fails on Windows, where the leftovers stay. Nobody looks at
its error (`s3.go:192`, `googlecloudstorage.go:203` and `211`), so a disk that fails leaves them on Unix,
too (`FailsRemoving`). `FailedDownloadIsNotReused` is about every step that ends a call with an
error, `CreateFails` over an older file included, of a process the disk has not failed:
both that step and a failed removal are failures of the disk.

`faults` records which kinds of failure the process has met, "network" or "disk".
Properties about a process without failures, or without a disk failure, use it;
nothing in the model's control does. `remote` does not change while something is downloaded
or between runs: a store that Arq changed between two runs is an initial state,
because `Init` relates cache and store in no way. `Connection` changes it during listings.

### Listing and Connection

Names are numbers in the order of their strings. Under a delimiter each has an entry:
itself, or the common prefix it shares with others (`EntryOf`). `marker` is what the
next page comes after, a page ends anywhere, and `Collect` keeps common prefixes for
`ListObjectsAsFolders` (delimiter "/") and objects for `ListObjectsAsAll` (","), so an object
with a comma in its name is in neither; Arq writes none. `appended` counts what is
appended, so that an entry collected twice shows. `ArqChanges` stores or deletes an
object between any two pages; `throughout` and `sometime` remember what was there all the time,
and at some time. SFTP reads one directory, and what it lists is given a path by
`Join`, `TrimPrefix` and `TrimPrefix` (`GetPath`), on `Paths`.

`Connection` is the order in which the code uses both: the main goroutine lists, its
goroutines download, and when all are done it lists again, over whatever they left. Lists and
downloads never run beside each other, because `cachePackSet` waits for its workers. The theorems
are about all these orders; TLC is given fewer starts of a list by an action constraint of
`MCConnector` (`ListsAreExplored`): on Unix over caches without leftovers of failures, on Windows over
caches all empty or all damaged.

### PackSetCache

`phase` and `cur` are the main goroutine (`list` a pack set, `join` the workers,
then the next), `inputs` the channel, `pc` and `attempt` the workers. The channel
is a set: it is filled and closed before the workers start, and any worker may
take any next key, so its order is that of the listing, which is arbitrary.
`Fetch(w)` is one step of `Connector`; `IsValidPackFile` is one step because it
only reads a file no other worker is at (`OneWorkerPerKey`). An index that the
local disk cannot read counts as invalid, as in the code.

A panic (`SecondInvalid`, `RemoveFails`) does two things: `defer func() { c <- 1 }()`
(`backup_set.go:208`) sends before the process ends, so `Panic(w)` makes the worker
`exited` and sets `crash`; `Crash` ends the process at any later moment. Until
then the other goroutines go on, and when the panicking worker is the last, the
main goroutine gets past the join and `cachePackSet` returns `nil`. `Kill` is any
other death, `log.Fatalf` of the keepalive included. `Restart` is the next run,
with or without `--delete-cache-directory`.

A listing error is returned by `cachePackSet` and dropped by its callers
(`backup_set.go:168`): `ListFails` goes on to the next pack set.

### CacheContract

`have` (valid files), `promised` (those the program may count on) and `mode`.
Files are gained and lost one at a time, promised ones are never lost, `Fail`
voids the promises for good, the next run starts over. In the refinement `have` is the set of
keys whose file is `whole`, promises are void once a worker has panicked, and
`mode` is "stopped" when the process has ended, "failing" when a panic is on
its way, "caching" otherwise.

### PackIndex

An index is its fan-out table and its objects. `Bytes` stands for 256. The first
byte less one is a byte: `(Byte - 1) % Bytes`, so 0 becomes the last. An index cut
short has fewer objects than its table says (`RunsOut`: `readIntoPackIndexObject`
returns nil, which is dereferenced), or, when the header is cut, a table of
zeros. A hit leaves the inner loop only: the last index with the object wins.

### PackFetch

One goroutine reads one object after the other, so it is the one client of
`Connector`. `stage` is what it is doing: `pack` (inside `CachedGet` for the pack, or
back from it), `remove` (the pack was not valid), `nopack` (no pack gives the
object), `single` (inside `CachedGet` for the object on its own), `done`. Which pack
the lookup names is the constant `Pack`: it may name one that is gone from the store.
`Decrypt` turns a cut-off file into an error or, when the bytes before the cut look like
padding, into the beginning of the contents; `GunzipOrAsIs` is the decompression
of objects in packs, `Gunzip` that of single ones, which has no fallback. `Raw` are
objects that Arq did not compress, `Gzip` those of them that look compressed.
`salt` is what the process read from the cache as its salt, whole or cut off; nobody checks it
(`backup_set.go:126`). With a cut-off one the key is wrong and `Decrypt` gives an error or, when the
padding happens to look right (`crypto.go:80-88`), noise. `Rerun` keeps the cache with its salt or deletes
both.

### Discovery

A sequence of reads: for each folder the salt, the computer info, the listing of
buckets, and for each bucket its property list and its head. `Get` and `CachedGet`
are outcomes here, what is read and what is left in the cache; `Connector` has the
steps. Of a head in the cache only its age matters (`stale`). A salt that was cut
off is as good as any (`ReadSalt`), the buckets are decrypted with a salt of their own, so nothing
is noticed until an object is decrypted. What the property list library makes of a
cut-off file is not known, so `Crash` (a failed type assertion in `parsePlist` or
`getComputerInfo`) may happen beside the error. `Rerun` is the next command or the same one
after a kill. Folders that are not named like a backup set leave no trace and are not in
the model. Folders and buckets are read in any order: that of the listing is the store's.

### Paths, ArqTypes and FindNode

A path is the sequence of what stands between its slashes, each a sequence of letters, so
that `HasPrefix` and `TrimPrefix` can end in the middle of an element as in Go, and `Clean`
and `JoinPaths` work by element. An object is a sequence of cells, one for each field, with
the kind of its encoding and a value; `Written...` are the formats, from the comments at the
declarations ("Only present for Tree v12 or later"), and `Read...` the parsers, from
their code. The declaration of a node (`node.go:34-70`) has no such comments: `WrittenNode` has its versions from
the parser, and what is checked and proved of nodes is that the parser keeps its place among
the fields and the blob keys in them, not that the versions are Arq's. Reading a field of another kind is `misread`, after which
nothing is said of the object: it counts as lost. `ReadNode` panics when a tree older than
version 12 has a node with data blob keys. `FindNode` walks as the code does:
`currentPath` grows by what was matched, `nextPathElement` is cut from the target,
the last node of that name wins, and its first data blob key is the next
tree, be it a file's. A tree that cannot be had, or not be parsed, is logged and leaves
a nil pointer, which is dereferenced when the walk goes on and returned when it is at its end.

### Restore

The recursion is a stack of `DownloadTree` calls with the nodes they have left; `FindNode`
starts from the commit for each. `os.Mkdir` with a recorded mode that forbids writing is
`ReadOnly`, which stands for an unprivileged user on Unix. `lost` is what the
backup does not have or has damaged, chosen once; `accident` is TRUE after a fetch
or a write failed that need not have. The destination does not exist at the start:
`recover` refuses one that does. `list-directory-contents` prints each child with what
its tree says or, where the tree cannot be had, its node (`PrintNode`).

### Session

One step `Second` is a second for everybody. `silence` is how long the SSH library has
waited in `Read`, whose deadline each call moves (`sftp.go:57-63`); when it is `Timeout` the
connection is closed and what waits gets an error. The keepalive sends on a tick and
waits for its answer with no limit of its own; its ticker holds one tick. A link that is cut
delivers nothing more. `Urgent` names what a goroutine does before the next
second; a command that works takes the time it takes. `log.Fatalf` ends the process from any
place, also while the command is past the end of its work and has closed the session: the
goroutine is never stopped.

## 3. The runs

| run | instance | what it shows |
|---|---|---|
| `connector` | 2 keys, 2 clients, 3 connectors, both hosts, every cache and store; 4 names with 2 folders, 6 remote paths | a copy whose error is looked at is complete (`CheckedDownloadIsComplete`); on Unix a call that failed leaves nothing to be served later, unless the disk fails (`FailedDownloadIsNotReused`); lists are right over a changing store (`ListingIsComplete`, `ListingIsExact`), and their paths can be asked for (`ListedIsWhereItWas`) |
| `packset` | 2 workers, pack sets `{i1, i2}` and `{i3}`, Unix, GCS and SFTP, every cache and store | `PromiseKept`, `OneWorkerPerKey`, `LeftoversAreRepaired`, `ValidIsKept` |
| `packset_live` | 2 workers, pack sets `{i1, p1}` and `{i2}` (`p1` is no index), GCS and SFTP, both hosts | `RetriesWhatIsLeft`, `EveryRunEnds`, `ImplementsContract` |
| `packset_retry` | as above, S3 on Unix, no disk failures | **violated**: `PanicsOnlyAfterRetry` |
| `packindex` | 4 objects over 3 byte values, every directory of up to 2 index files, intact or cut short | `FoundIsTarget`, `NonZeroIsNotMissed`, `LastIndexWins`, `IntactNeverCrashes` |
| `packindex_zero` | the same | **violated**: `NothingIsMissed` |
| `restore` | 3 directories, 4 files, 2 blobs, nine pairs of versions, 18 paths, every set of lost things, accidents | `FoundIsAtTarget`, `PresentIsFound`, `OthersAreRecovered`, `CrashHasCause`, `ListingIsWhole`, `RecoveryEnds` |
| `restore_silent` | the same without accidents | **violated**: `SuccessIsComplete` |
| `packfetch` | 2 trees, 2 blobs, a pack, an object on its own; 3 connectors, both hosts, every cache and store, the salt whole or cut off | `NoGarbage`, `ErrorHasCause`, `EveryReadEnds` |
| `packfetch_raw` | the same, a blob that is not compressed, no disk failures | **violated**: `RawIsRead` |
| `discovery` | 2 backup sets with a bucket each, the first bucket bad from the start in every way, any number of commands | `ListedIsComplete`, `GoodSetsAreListed`, `HeadsAreFresh`, `MissingHasCause` |
| `session` | deadline 10, interval 3, answers within 6 seconds; every backup type | `LiveSessionIsKept`, `LossEndsProcess`, `LossIsNoticed` |

Each module's type invariant is checked in one of its runs. Deadlock is checked
except for `PackIndex`, `Restore` and `Session`, which stop when the lookup, the command or
the process is over.

Why the bounds are enough:

* *Two workers.* What two workers can do to each other at a file, at the channel
  and at the join, they do pairwise; the proofs are for any number.
* *Three keys in two pack sets.* Two for two workers in one pack set; one more so
  that a promise is outstanding while another pack set is downloaded. An object
  that is not an index is in `packset_live`. The proofs are for any pack sets.
* *GCS for S3.* In `PackSetCache` S3 is Google Cloud Storage without `FlushFails`:
  its runs are among those checked.
* *Unix only in `packset`.* To the cache, which ignores the error of `CachedGet`, a
  download on Windows that fails and leaves its file is SFTP's, which is there;
  both hosts are in `packset_live`, and the proofs are for both.
* *Three byte values.* One that wraps around, one with two objects, one above.
* *PackFetch.* A tree that a pack may give and one that none can; a blob that
  is compressed and one that only looks so. The two blobs share the key of their
  single objects, because they are never read at the same time. The proof of `NoGarbage` is for any objects.
* *Discovery.* Two sets, so that one can hide the other; every file may become bad
  by an accident of an earlier command, one bucket is so in the store too.
* *Restore.* A directory inside the root, behind a file, so that siblings come
  before and after; a blob shared by two files; a directory that cannot be
  written; a file without data at the end. Names of one letter that occur twice, so that a
  path cut in the middle of a name can be another one. The versions are those
  that add or drop a field, and one before each where it matters. Locations are plain, with an
  escaped space, with a plus sign, with a stray percent sign, one that cannot be parsed, and the
  whole disk, `/`. The proofs are for any backup.
* *Listing.* Two objects in one folder, so that a page can end between them; an object
  of its own; one with a comma. Which caches a list begins over is bounded
  (`ListsAreExplored`), as lists neither read nor write them. The proofs are for any names.
* *Session.* The values of the code; 6 is the slowest server for which the session is safe
  (`Interval + Latency < Timeout`). `cutFor` is bounded because the process ends. The
  invariants are proved for all values.

## 4. Fairness

`PackSetCache`: weak fairness of `MainStep` and of each worker's steps. Goroutines
are scheduled by Go's runtime, so one that can go on does; a call of a connector
comes back, with or without an error: SFTP sets deadlines of 10 s
(`sftp.go:85-98`), S3 and Google Cloud Storage have those of their HTTP clients, which we assume. No
fairness is given to `ListFails`, `Kill`, `Crash` or `Restart`, which need not happen.
Each worker's fairness is for its steps together: which of a success and a failure
happens is never forced. A copy cannot go on for ever because `CopySome` is taken
once: it stands for all the writes after which the file is cut off.

`PackFetch`: weak fairness of `Reading`, the steps of the one goroutine, for the same
reasons. That a new process is started is not required.

`Restore`: weak fairness of `Next`; there is one goroutine, and each of its calls
comes back for the same reasons.

`Session`: weak fairness of `Reply \/ SessionStep \/ Second`: the runtime runs the reader
and the keepalive when they can go on, an answer that came is delivered, and time
passes. The command need not do anything: a loss is noticed while it computes, too.

## 5. What is proved

TLAPS checks every theorem for all values of the constants that satisfy the
assumption of their module (`ConnectorAssumption`, `ListingAssumption`, `ConnectionAssumption`, `PackSetAssumption`,
`PackIndexAssumption`, `PackFetchAssumption`, `DiscoveryAssumption`, `FindNodeAssumption`, `RestoreAssumption`,
`SessionAssumption`): there is a worker, pack sets are disjoint and there is at least one, first bytes
are bytes, entries are in the order of their names. Of a backup: its nodes are a tree of directories, no two
nodes of a directory have one name, no name there or in a store is empty, `.` or `..`, the location is absolute, and
no blob has the SHA1 of a tree.

`ConnectorProofs`: `ConnectorTypeCorrect`, `CheckedIsComplete`, `FailedIsNotReused`, from the
invariant `CInv`: no two goroutines are at one file, and the file of a goroutine that is about to
open is empty. That a step touches one file and one place is
`ConnectorStepIsLocal`, used by all modules that extend `Connector`.

`ListingProofs`:

* `CompleteAlways`, `ExactAlways`. The first needs that while a list is
  being collected, everything up to the marker that stayed is in it (`CollectedToMarker`); the second that nothing
  collected is past the marker, so that no page can append it again (`CollectedOnce`).
* `ListedAlways`: what SFTP lists can be asked for. It rests on what `path.Clean` does to
  names put after a path that it leaves as it is: nothing (`CleanAdds`, `CleanJoins`), so that what
  `TrimPrefix` cuts off is that path (`TrimWhole`, `TrimSlash`).
* `ConnectionInvariant`, `ConnectionLists`, `ConnectionDownloads`: the composition, for lists before and
  after downloads, on any host and whatever fails. Each step of
  `Connection` is one of the lists, which leave the cache alone, or one of the downloads, which leave the
  lists alone; the store that changes under a list is changed for no download on its way.

`PackSetCacheProofs`:

* `TypeCorrect`, `PromisesAreKept`, `WorkersNeverMeet`: from the inductive
  invariant `IInv`. That promises are kept is not inductive by itself. One must
  know that no pack set still to come has a promised key (`PromisesAreBehind`), that
  what is in the channel and in the workers' hands is of the current one
  (`FromThisPackSet`), and, for the step that makes the promise, that every index of
  the pack set is valid, in the channel or held by a worker (`Accounted`) while no
  worker has left with the channel not empty (`LeftWhenDrained`). The last two hold until a
  panic, which is why `PromiseKept` does.
* `CachingImplementsContract`: every step is one of `CacheContract` or none.
* `LeftoversNeverPanic`: from `RInv`, which adds to `IInv` what a worker knows
  at each place while nothing has failed and the store is good (`Repairing`): the file is there to
  be deleted, and none is in the way of the second download.
* `ValidStays`, `LeftFilesAreRetried`: action properties, from `HInv`, which adds
  what a worker holds while the disk has not failed (`Holding`): a file that is not whole
  and, where the connector leaves its files, one that is there to be deleted.

`PackIndexProofs`: `LookupIsSound`, `LookupIsCompleteButForZero`, `LastIndexIsRead`,
`IntactIndexesAreSafe`. Their invariant says of every index already read whether the
target is in it; `WindowOfIntact` says that the window of an intact index is exactly the
entries with the target's first byte, if that is not 0.

`PackFetchProofs`: `ReadsAreSound`, with its exceptions: an object in `Gzip`, and noise from a pack under a salt that
was cut off (`GarbageComes`). The two steps that make an answer are the lemmas: a pack that passed its check has no beginning
that could be taken for an object, a single object that does not decompress is an error.
`ErrorsHaveCauses`, for the right salt: from `FInv`, which follows the file of the pack through both calls: while nothing has failed,
a pack that is whole in the store is whole in the cache after the second call at the latest
(`PackComes`), and only a bad one leads to the single objects (`PacksWereTried`).

`DiscoveryProofs`: `ResultIsComplete`, `ResultIsFresh`, `NothingIsHidden`, `MissingForCause`. The
invariant divides the buckets of the current set into those found and those left
(`FoundSoFar`), says of the found ones that their heads are fresh (`FoundAreFresh`), and, while there was no
accident, that every good set that is not still to come is listed or being read, with
its salt (`NotHidden`).

`SessionProofs`: `LiveIsKept`, `LossEnds`. The first (`SilenceIsBounded`, `ClosedHasCause`) needs how far the silence can have
gone at each place of the keepalive: since the last answer there was at most one
interval until the next request, and its answer comes within the latency. The second (`EndIsNear`) adds up
the silence since the cut and the time to the next tick.

`RestoreProofs`, for any tree of directories in any versions, whatever of it is lost and whatever fails:

* `TreeIsRead`, `CommitIsRead`: the parsers read what Arq writes, in every version: either
  field for field or, before version 12, with a panic. Version gates of writer and
  parser are compared field by field, which says something of the versions where the writer has its own,
  from the declarations (commits, trees, blob keys); nodes come one after the other, so that the rest of
  the buffer after each is the rest of what was written. `TreeArrivesWhole` is that for `GetPackFileAsTree`.
* `FetchInvariant`: the tree `FindNode` holds is that of the node it walked to (`TreeInv`), the hash it asks for
  next is that node's (`HashInv`), and nothing it walked through is lost.
* `PlaceInvariant`: where the program is. The strings and the tree are related here: while
  `FindNode` walks, `currentPath` is the path of its node and what is left of `targetPath` are
  names below it, the first of which is `nextPathElement` (`PathInv`). This takes a location that
  `url.QueryUnescape` reads right: `Located` says which do, by the letters of the location, and
  `LocatedIs` that for these the path of the commit is that of the backup. The calls of `DownloadTree` are
  one below the other from the source (`StackInv`), which is located in the backup (`SourceInv`).
* `FindsTheTarget`, `RestoreIsTyped`, `PresentFound`, `CrashesHaveCause`: from `PlaceInv`. None of the properties is
  inductive: what is found is at the target because the whole path so far was. That
  a node is not missed also takes that names are distinct, so that the last node
  of a name is the only one.
* `ListsAll`: from `ListInv`: what was printed and what is left to print are the nodes of the directory.
* `RecoversTheOthers`: from `DiskInv` (the directories the recursion is in were made) and `RecoveryInv`: a file
  that can be had is complete, or it or a directory above it is still to be gone through (`Pending`).

Induction over numbers is the well-foundedness of `<`, on a set in place of a
predicate (`Induction` in `RestoreProofs` and `ListingProofs`); recursive functions are
unfolded by it (`path.Clean`, the loops of the parsers).

Only model-checked: what is temporal with fairness (`EveryRunEnds`,
`EveryReadEnds`, `RecoveryEnds`, `LossIsNoticed`), which is out of the prover's reach. What could be
proved next are the safety facts behind them: that each step of a recovery, of a read and of a run of
`cachePackSet` makes some measure smaller.

## 6. Where the code and its words disagree

1. `packset_retry`: the announced "will delete and retry" does not happen on Unix
   after a failed download from S3 or Google Cloud Storage: the connector has
   removed the file, `os.Remove` fails, and the worker panics (`backup_set.go:230`).
2. `packindex_zero`: an object whose SHA1 starts with byte 0 is never found: `Fanout[0 - 1]` is
   `Fanout[255]` (`pack_set_index.go:274`, `344`).
3. `restore_silent`: the result of `io.Copy` is dropped in `DownloadNode`
   (`repo.go:92`): a file with a blob that cannot be found stays at full size with
   part of its contents, and no error is reported.
4. `packfetch_raw`: the fallback for contents that are not compressed is announced and
   logged for single objects, but the code returns the error (`repo.go:220-233`).

The passing properties are stated around more of them, at their definitions: SFTP
reports a broken copy as a success (`CheckedDownloadIsComplete` is about the others), and a
dropped listing error lets `recover` log that all pack sets are cached
(`PromiseKept` is about those that were listed), and a compressed file that Arq did not
compress again is decompressed on the way (`NoGarbage` excepts it). A salt that was cut off is cached and used: its backup set is
listed and cannot be read (`GoodSetsAreListed` says nothing of such a set), and what it makes of an object in a pack may be taken
for one that was not compressed (`NoGarbage` excepts it). Three concern paths (`FoundIsAtTarget` and `PresentIsFound` say where they hold):
from `/u/d./` or `/u/d/..` in a backup of `/u/d` the program finds `/u/d` (`pack_set_index.go:78`), a folder with a
plus sign in its path is located with a space instead (`commit.go:123`; `Located` excepts it), and a commit whose location
cannot be parsed is used with an empty path (`pack_set_index.go:134`). Trees older than
version 12 crash the parser (`node.go:159`; `CrashHasCause` excepts them), and a file without data blob keys crashes
the walk (`pack_set_index.go:115`; likewise). A directory that cannot be written by its recorded mode is recovered
empty (`repo.go:110`; `Recoverable` leaves its files out). With `--sftp-remote-path .` a name
that begins with a dot is listed without it (`sftp.go:302`; `LosesDot`): Arq writes no such name. One is in no
property: a failed `GetArqBackupSets` makes `list-backup-sets` print
nothing at all and no error (`main.go:169`).

## 7. Not modelled

* Bytes inside a field: objects that are cut off or damaged are `lost` in `FindNode`, as
  their SHA1 would not match and decryption of most fails; what the parsers make of the rest
  would need the encodings byte by byte.
* An object store as one abstract specification, implemented by `PackFetch` with `PackIndex` in place of the constant
  `Pack`: `Restore` uses its outcome (an object or an error), which
  `NoGarbage` and `ErrorHasCause` justify piece by piece.
* Windows: destination paths (`maybeConvertToWindowsPath`) and the meaning of modes there.
* The chmod of a directory recorded without any mode (`repo.go:113`): such a directory is one that can be written.
* Authentication (`KeyAuth`, the agent), `NewS3Connection` and the contexts of Google Cloud Storage: one step that fails or not.
* Write deadlines of SFTP: a request fits into the kernel's buffers, so only reading
  notices a loss.
* The parallel ranges of the S3 download manager: its `Download` fails or not, and what it
  leaves is the same set of contents.
* `ReadTreeNode` (`tree_node.go`), which nothing calls.
* A connection that the server resets: in `Session` a loss is silence, which is the slower case.
* Key derivation and the ciphers (library code; `PackFetch` has what a wrong key leads to), the wire
  protocols of the stores, option declarations, printing and logging.
