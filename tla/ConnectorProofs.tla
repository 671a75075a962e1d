---------------------------- MODULE ConnectorProofs -----------------------------
(***************************************************************************)
(* What the cached downloads guarantee for any objects and any number of   *)
(* goroutines: their type, that a checked copy is complete, and that what  *)
(* a failed download leaves is not served later.                           *)
(***************************************************************************)
EXTENDS Connector, TLAPS

(***************************************************************************)
(* A step inside the connector touches the place of its client and the     *)
(* file of its key, and nothing else but the failures met.                 *)
(***************************************************************************)
LEMMA ConnectorStepIsLocal ==
    ASSUME ConnectorTypeOK, NEW c \in Client, ConnectorStep(c)
    PROVE  /\ UNCHANGED <<backend, host, remote, want>>
           /\ want[c] \in Key
           /\ \E place \in {"create", "open", "copy", "ok", "err"} :
                    at' = [at EXCEPT ![c] = place]
           /\ \E file \in Content : cache' = [cache EXCEPT ![want[c]] = file]
           /\ faults' \subseteq {"network", "disk"}
<1>1. at[c] # "idle" /\ want[c] \in Key
  BY DEF ConnectorTypeOK, ConnectorStep, CacheHit, CacheMiss, Create, CreateFails, Open,
         OpenFails, CopySome, CopyEnds, CopyFails, FlushFails
<1>2. File(c) \in Content /\ Source(c) \in Content
  BY <1>1 DEF ConnectorTypeOK, File, Source
<1>3. Partial(c) \subseteq Content
  BY <1>2 DEF Partial, Content
<1>4. ASSUME NEW S \in SUBSET Content, NEW met, FailsRemoving(c, S, met)
      PROVE  \E file \in Content : Goto(c, "err", file)
  BY <1>4 DEF FailsRemoving, Content
<1>5. \E place \in {"create", "open", "copy", "ok", "err"}, file \in Content : Goto(c, place, file)
  <2>1. CASE CacheHit(c)
    BY <1>2, <2>1 DEF CacheHit
  <2>2. CASE CacheMiss(c)
    BY <1>2, <2>2 DEF CacheMiss
  <2>3. CASE Create(c)
    BY <2>3 DEF Create, Content
  <2>4. CASE CreateFails(c)
    BY <1>2, <2>4 DEF CreateFails
  <2>5. CASE Open(c)
    BY <1>2, <2>5 DEF Open
  <2>6. CASE OpenFails(c)
    BY <1>2, <1>4, <2>6 DEF OpenFails, Unserved
  <2>7. CASE CopySome(c)
    BY <2>7 DEF CopySome, Content
  <2>8. CASE CopyEnds(c)
    BY <1>2, <2>8 DEF CopyEnds
  <2>9. CASE CopyFails(c)
    BY <1>3, <1>4, <2>9 DEF CopyFails
  <2>10. CASE FlushFails(c)
    BY <1>3, <2>10 DEF FlushFails
  <2> QED
    BY <2>1, <2>2, <2>3, <2>4, <2>5, <2>6, <2>7, <2>8, <2>9, <2>10 DEF ConnectorStep
<1>6. faults' \subseteq {"network", "disk"}
  BY DEF ConnectorTypeOK, ConnectorStep, CacheHit, CacheMiss, Create, CreateFails, Open,
         OpenFails, Unserved, FailsRemoving, CopySome, CopyEnds, CopyFails, FlushFails
<1> QED
  BY <1>1, <1>5, <1>6 DEF Goto
--------------------------------------------------------------------------------
(* No two goroutines are at the file of one key. *)
KeysAreApart ==
    \A c, d \in Client : at[c] # "idle" /\ at[d] # "idle" /\ want[c] = want[d] => c = d

(* A file that was just made stays empty until its copy begins. *)
MadeIsEmpty == \A c \in Client : at[c] = "open" => cache[want[c]] = "empty"

CInv ==
    /\ ConnectorTypeOK
    /\ KeysAreApart
    /\ MadeIsEmpty

(* Only os.Create comes before the request. *)
LEMMA OpensWhatItMade ==
    ASSUME NEW c \in Client, ConnectorTypeOK, ConnectorStep(c), at'[c] = "open"
    PROVE  cache'[want[c]] = "empty" /\ at[c] = "create"
<1>1. c \in DOMAIN at /\ at[c] # "idle" /\ want[c] \in DOMAIN cache
  BY DEF ConnectorTypeOK, ConnectorStep, CacheHit, CacheMiss, Create, CreateFails, Open,
         OpenFails, CopySome, CopyEnds, CopyFails, FlushFails
<1> QED
  BY <1>1 DEF ConnectorStep, CacheHit, CacheMiss, Create, CreateFails, Open, OpenFails,
              FailsRemoving, CopySome, CopyEnds, CopyFails, FlushFails, Goto

LEMMA ConnectorStepPreserves ==
    ASSUME CInv, NEW c \in Client, ConnectorStep(c)
    PROVE  CInv'
<1>1. PICK place \in {"create", "open", "copy", "ok", "err"}, file \in Content :
            /\ at' = [at EXCEPT ![c] = place]
            /\ cache' = [cache EXCEPT ![want[c]] = file]
  BY ConnectorStepIsLocal DEF CInv
<1>2. UNCHANGED <<backend, host, remote, want>> /\ want[c] \in Key
      /\ faults' \subseteq {"network", "disk"} /\ at[c] # "idle"
  BY ConnectorStepIsLocal
     DEF CInv, ConnectorStep, CacheHit, CacheMiss, Create, CreateFails, Open, OpenFails,
         CopySome, CopyEnds, CopyFails, FlushFails
<1>3. ConnectorTypeOK'
  BY <1>1, <1>2 DEF CInv, ConnectorTypeOK
<1>4. KeysAreApart'
  BY <1>1, <1>2 DEF CInv, KeysAreApart, ConnectorTypeOK
<1>5. MadeIsEmpty'
  <2> SUFFICES ASSUME NEW d \in Client, at'[d] = "open" PROVE cache'[want'[d]] = "empty"
    BY DEF MadeIsEmpty
  <2>1. CASE d = c
    BY <2>1, <1>2, OpensWhatItMade DEF CInv
  <2>2. CASE d # c
    <3>1. at[d] = "open" /\ want[d] # want[c] /\ want[d] \in Key
      BY <2>2, <1>1, <1>2 DEF CInv, KeysAreApart, ConnectorTypeOK
    <3> QED
      BY <3>1, <1>1, <1>2 DEF CInv, MadeIsEmpty, ConnectorTypeOK
  <2> QED
    BY <2>1, <2>2
<1> QED
  BY <1>3, <1>4, <1>5 DEF CInv

LEMMA CallerPreserves ==
    ASSUME CInv,
           \/ \E c \in Client, k \in Key : Asks(c, k)
           \/ \E c \in Client : Takes(c)
           \/ Dies
           \/ UNCHANGED connectorVars
    PROVE  CInv'
<1>1. ASSUME NEW c \in Client, NEW k \in Key, Asks(c, k)
      PROVE  CInv'
  BY <1>1 DEF Asks, StartCachedGet, StartGet, Call, CInv, ConnectorTypeOK, KeysAreApart,
              MadeIsEmpty
<1>2. ASSUME NEW c \in Client, Takes(c)
      PROVE  CInv'
  BY <1>2 DEF Takes, CInv, ConnectorTypeOK, KeysAreApart, MadeIsEmpty
<1>3. CASE Dies
  BY <1>3 DEF Dies, CInv, ConnectorTypeOK, KeysAreApart, MadeIsEmpty
<1>4. CASE UNCHANGED connectorVars
  BY <1>4 DEF connectorVars, CInv, ConnectorTypeOK, KeysAreApart, MadeIsEmpty
<1> QED
  BY <1>1, <1>2, <1>3, <1>4

THEOREM SpecKeepsCInv == ConnectorSpec => []CInv
<1>1. ConnectorInit => CInv
  BY DEF ConnectorInit, CInv, ConnectorTypeOK, KeysAreApart, MadeIsEmpty
<1>2. CInv /\ [ConnectorNext]_connectorVars => CInv'
  BY ConnectorStepPreserves, CallerPreserves DEF ConnectorNext
<1> QED
  BY <1>1, <1>2, PTL DEF ConnectorSpec

(***************************************************************************)
(* Every variable of the connector keeps its type.                         *)
(***************************************************************************)
THEOREM ConnectorTypeCorrect == ConnectorSpec => []ConnectorTypeOK
<1>1. CInv => ConnectorTypeOK
  BY DEF CInv
<1> QED
  BY <1>1, SpecKeepsCInv, PTL
--------------------------------------------------------------------------------
(* Who returns in a step has made the step itself. *)
LEMMA MoverMoves ==
    ASSUME CInv, ConnectorNext, NEW c \in Client, at'[c] \in {"ok", "err"}, at'[c] # at[c]
    PROVE  ConnectorStep(c)
<1>1. ASSUME NEW d \in Client, NEW k \in Key, Asks(d, k)
      PROVE  FALSE
  BY <1>1 DEF Asks, StartCachedGet, StartGet, Call, CInv, ConnectorTypeOK
<1>2. ASSUME NEW d \in Client, Takes(d)
      PROVE  FALSE
  BY <1>2 DEF Takes, Returned, CInv, ConnectorTypeOK
<1>3. ~Dies
  BY DEF Dies
<1>4. ASSUME NEW d \in Client, ConnectorStep(d), d # c
      PROVE  FALSE
  BY <1>4, ConnectorStepIsLocal DEF CInv, ConnectorTypeOK
<1> QED
  BY <1>1, <1>2, <1>3, <1>4 DEF ConnectorNext

(* Of the steps that end a copy without an error, only CopyEnds is one     *)
(* that a checked connector takes.                                         *)
LEMMA CheckedCopyIsComplete ==
    ASSUME CInv, ConnectorNext, NEW c \in Client, Mover(c, "copy", "ok"),
           backend = "s3" \/ (backend = "gcs" /\ "disk" \notin faults')
    PROVE  cache'[want[c]] = remote[want[c]]
<1>1. ConnectorStep(c) /\ at[c] = "copy" /\ at'[c] = "ok" /\ c \in DOMAIN at
  BY MoverMoves DEF Mover, CInv, ConnectorTypeOK
<1>2. want[c] \in DOMAIN cache
  BY <1>1 DEF CInv, ConnectorTypeOK
<1>3. ~FlushFails(c) /\ ~CopyFails(c)
  BY <1>1 DEF FlushFails, CopyFails, FailsRemoving, Goto
<1>4. CopyEnds(c)
  BY <1>1, <1>3 DEF ConnectorStep, CacheHit, CacheMiss, Create, CreateFails, Open,
                    OpenFails, FailsRemoving, CopySome, Goto
<1> QED
  BY <1>2, <1>4 DEF CopyEnds, Goto, Source

(* The steps that end in an error on Unix while the disk works: the file   *)
(* is removed, or it is the one os.Create has made.                        *)
LEMMA FailedCopyIsNotReused ==
    ASSUME CInv, ConnectorNext, NEW c \in Client, host = "unix", "disk" \notin faults',
           at[c] # "err", at'[c] = "err"
    PROVE  ~NonZero(cache'[want[c]])
<1>1. ConnectorStep(c) /\ c \in DOMAIN at
  BY MoverMoves DEF CInv, ConnectorTypeOK
<1>2. at[c] # "idle" /\ want[c] \in DOMAIN cache
  BY <1>1 DEF CInv, ConnectorTypeOK, ConnectorStep, CacheHit, CacheMiss, Create, CreateFails,
              Open, OpenFails, CopySome, CopyEnds, CopyFails, FlushFails
<1>3. OpenFails(c) \/ CopyFails(c)
  BY <1>1 DEF ConnectorStep, CacheHit, CacheMiss, Create, CreateFails, Open, CopySome,
              CopyEnds, FlushFails, Goto
<1>4. ASSUME NEW S, NEW met, FailsRemoving(c, S, met)
      PROVE  cache'[want[c]] = "none"
  BY <1>2, <1>4 DEF FailsRemoving, Goto
<1>5. CASE OpenFails(c)
  <2>1. File(c) = "empty"
    BY <1>5 DEF OpenFails, CInv, MadeIsEmpty, File
  <2> QED
    BY <1>2, <1>4, <1>5, <2>1 DEF OpenFails, Goto, NonZero
<1>6. CASE CopyFails(c)
  <2>1. backend # "sftp"
    BY <1>1, <1>6 DEF CopyFails, Goto
  <2> QED
    BY <1>4, <1>6, <2>1 DEF CopyFails, NonZero
<1> QED
  BY <1>3, <1>5, <1>6

(***************************************************************************)
(* For any objects and goroutines, a download whose copy is checked has    *)
(* put the whole object into the cache.                                    *)
(***************************************************************************)
THEOREM CheckedIsComplete == ConnectorSpec => CheckedDownloadIsComplete
<1> DEFINE Step(c) ==
        /\ Mover(c, "copy", "ok")
        /\ backend = "s3" \/ (backend = "gcs" /\ "disk" \notin faults')
        => cache'[want[c]] = remote[want[c]]
<1>1. CInv /\ [ConnectorNext]_connectorVars => [\A c \in Client : Step(c)]_connectorVars
  BY CheckedCopyIsComplete
<1> QED
  BY <1>1, SpecKeepsCInv, PTL DEF ConnectorSpec, CheckedDownloadIsComplete

(***************************************************************************)
(* For any objects and goroutines, on Unix a call that returns an error,   *)
(* wherever it comes from, leaves no file that a later call takes for the  *)
(* object, as long as the disk has not failed the process.                 *)
(***************************************************************************)
THEOREM FailedIsNotReused == ConnectorSpec => FailedDownloadIsNotReused
<1> DEFINE Step(c) ==
        /\ host = "unix" /\ "disk" \notin faults'
        /\ at[c] # "err" /\ at'[c] = "err"
        => ~NonZero(cache'[want[c]])
<1>1. CInv /\ [ConnectorNext]_connectorVars => [\A c \in Client : Step(c)]_connectorVars
  BY FailedCopyIsNotReused
<1> QED
  BY <1>1, SpecKeepsCInv, PTL DEF ConnectorSpec, FailedDownloadIsNotReused
================================================================================
