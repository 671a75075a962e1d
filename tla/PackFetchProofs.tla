---------------------------- MODULE PackFetchProofs ----------------------------
(***************************************************************************)
(* Reads of objects, proved about for any objects, packs and stores: their *)
(* type, that an answer is the object or an error, and that an error has a *)
(* cause.                                                                  *)
(***************************************************************************)
EXTENDS PackFetch, ConnectorProofs, TLAPS

(* What the reader asked the connector for, and when it has no answer yet. *)
AsksForPack ==
    stage \in {"pack", "remove"} => want[Reader] = Pack[object] /\ Pack[object] # NoPack

AsksForSingle == stage = "single" => want[Reader] = Single[object]

AnswersLast == stage # "done" => answer = "none"

Reads == AsksForPack /\ AsksForSingle /\ AnswersLast

PackIsBad == Pack[object] = NoPack \/ remote[Pack[object]] # "whole"

(***************************************************************************)
(* While nothing fails and the store has the pack, there is always a file  *)
(* to delete, and the second call, over a file that was deleted, brings    *)
(* the whole pack.                                                         *)
(***************************************************************************)
PackComes ==
    faults = {} /\ ~PackIsBad =>
        /\ stage = "remove" => File(Reader) # "none"
        /\ stage = "pack" => at[Reader] # "err"
        /\ stage = "pack" /\ at[Reader] = "ok" => NonZero(File(Reader))
        /\ stage = "pack" /\ attempt = 2 /\ at[Reader] = "stat" => ~NonZero(File(Reader))
        /\ stage = "pack" /\ attempt = 2 /\ at[Reader] = "ok" => File(Reader) = "whole"

(* The same of an object on its own, which is not deleted and may be cut off. *)
SingleComes ==
    faults = {} /\ stage = "single" /\ remote[Single[object]] = "whole" =>
        /\ at[Reader] # "err"
        /\ at[Reader] = "ok" => NonZero(File(Reader))

(* Nothing but a bad pack leads past the packs. *)
PacksWereTried == faults = {} /\ stage \in {"nopack", "single"} => PackIsBad

FInv ==
    /\ PackFetchTypeOK
    /\ Reads
    /\ PackComes
    /\ SingleComes
    /\ PacksWereTried
    /\ ErrorHasCause

LEMMA ReaderIsClient == Reader \in Client
BY ConnectorAssumption DEF Reader

(* A step of the connector that is not a failure, at an object that is there. *)
LEMMA QuietStep ==
    ASSUME ConnectorTypeOK, NEW c \in Client, ConnectorStep(c), faults' = {},
           remote[want[c]] = "whole"
    PROVE  /\ faults = {}
           /\ at'[c] \notin {"err", "stat"}
           /\ at'[c] = "ok" => NonZero(cache'[want[c]])
           /\ at'[c] = "ok" => \/ cache'[want[c]] = "whole"
                               \/ at[c] = "stat" /\ NonZero(cache[want[c]])
<1>1. c \in DOMAIN at /\ want[c] \in DOMAIN cache /\ at[c] # "idle"
  BY DEF ConnectorTypeOK, ConnectorStep, CacheHit, CacheMiss, Create, CreateFails, Open,
         OpenFails, CopySome, CopyEnds, CopyFails, FlushFails
<1>2. ~CreateFails(c) /\ ~OpenFails(c) /\ ~CopyFails(c) /\ ~FlushFails(c)
  BY DEF CreateFails, OpenFails, Unserved, CopyFails, FailsRemoving, FlushFails, Source
<1>3. CacheHit(c) \/ CacheMiss(c) \/ Create(c) \/ Open(c) \/ CopySome(c) \/ CopyEnds(c)
  BY <1>2 DEF ConnectorStep
<1>4. ASSUME NEW place, NEW file, Goto(c, place, file)
      PROVE  at'[c] = place /\ cache'[want[c]] = file
  BY <1>1, <1>4 DEF Goto
<1>5. CASE CacheHit(c)
  BY <1>4, <1>5 DEF CacheHit, File
<1>6. CASE CacheMiss(c) \/ Create(c) \/ Open(c) \/ CopySome(c)
  BY <1>4, <1>6 DEF CacheMiss, Create, Open, CopySome
<1>7. CASE CopyEnds(c)
  BY <1>4, <1>7 DEF CopyEnds, Source, NonZero
<1> QED
  BY <1>3, <1>5, <1>6, <1>7

LEMMA ConnectPreserves ==
    ASSUME FInv, Connect
    PROVE  FInv'
<1>1. PICK place \in {"create", "open", "copy", "ok", "err"}, file \in Content :
            /\ at' = [at EXCEPT ![Reader] = place]
            /\ cache' = [cache EXCEPT ![want[Reader]] = file]
  BY ConnectorStepIsLocal, ReaderIsClient DEF FInv, PackFetchTypeOK, Connect
<1>2. /\ UNCHANGED <<backend, host, remote, want>> /\ UNCHANGED fetchVars
      /\ want[Reader] \in Key /\ faults' \subseteq {"network", "disk"}
  BY ConnectorStepIsLocal, ReaderIsClient DEF FInv, PackFetchTypeOK, Connect
<1>3. at[Reader] # "idle" /\ stage \in {"pack", "single"}
  <2>1. at[Reader] # "idle"
    BY DEF Connect, ConnectorStep, CacheHit, CacheMiss, Create, CreateFails, Open, OpenFails,
           CopySome, CopyEnds, CopyFails, FlushFails
  <2> QED
    BY <2>1 DEF FInv, PackFetchTypeOK
<1>4. PackFetchTypeOK'
  BY <1>1, <1>2, <1>3, ReaderIsClient DEF FInv, PackFetchTypeOK, ConnectorTypeOK, fetchVars
<1>5. Reads'
  BY <1>2 DEF FInv, Reads, AsksForPack, AsksForSingle, AnswersLast, fetchVars
<1>6. PackComes'
  <2> SUFFICES ASSUME faults' = {}, ~PackIsBad', stage = "pack"
               PROVE  PackComes'
    BY <1>2, <1>3 DEF PackComes, fetchVars
  <2>1. remote[want[Reader]] = "whole" /\ ~PackIsBad
    BY <1>2 DEF PackIsBad, FInv, Reads, AsksForPack, fetchVars
  <2>2. /\ faults = {} /\ at'[Reader] \notin {"err", "stat"}
        /\ at'[Reader] = "ok" => NonZero(cache'[want[Reader]])
        /\ at'[Reader] = "ok" => \/ cache'[want[Reader]] = "whole"
                                 \/ at[Reader] = "stat" /\ NonZero(cache[want[Reader]])
    BY <2>1, QuietStep, ReaderIsClient DEF FInv, PackFetchTypeOK, Connect
  <2> QED
    BY <1>2, <2>1, <2>2 DEF FInv, PackComes, fetchVars, File
<1>7. SingleComes'
  <2> SUFFICES ASSUME faults' = {}, stage = "single", remote[Single[object]] = "whole"
               PROVE  SingleComes'
    BY <1>2 DEF SingleComes, fetchVars
  <2>1. remote[want[Reader]] = "whole"
    BY DEF FInv, Reads, AsksForSingle
  <2>2. /\ at'[Reader] \notin {"err", "stat"}
        /\ at'[Reader] = "ok" => NonZero(cache'[want[Reader]])
    BY <2>1, QuietStep, ReaderIsClient DEF FInv, PackFetchTypeOK, Connect
  <2> QED
    BY <1>2, <2>2 DEF SingleComes, fetchVars, File
<1>8. PacksWereTried'
  <2> SUFFICES ASSUME faults' = {}, stage = "single" PROVE PackIsBad
    BY <1>2, <1>3 DEF PacksWereTried, PackIsBad, fetchVars
  <2>1. faults = {}
    BY DEF Connect, ConnectorStep, CacheHit, CacheMiss, Create, CreateFails, Open, OpenFails,
           FailsRemoving, CopySome, CopyEnds, CopyFails, FlushFails
  <2> QED
    BY <2>1 DEF FInv, PacksWereTried
<1>9. ErrorHasCause'
  BY <1>2, <1>3 DEF FInv, Reads, AnswersLast, ErrorHasCause, fetchVars
<1> QED
  BY <1>4, <1>5, <1>6, <1>7, <1>8, <1>9 DEF FInv

(* A call that came back is left, and the cache with it. *)
LEMMA BackPreserves ==
    ASSUME FInv, NEW purpose \in {"pack", "single"}, Back(purpose),
           faults' \subseteq {"network", "disk"},
           stage' \in {"remove", "nopack", "done"},
           answer' \in {"none", "object", "error", "garbage"},
           stage' # "done" => answer' = answer,
           stage' = "remove" /\ faults' = {} => faults = {},
           stage' = "remove" => stage = "pack",
           stage' = "nopack" /\ faults' = {} => PackIsBad,
           answer' = "error" => ErrorHasCause'
    PROVE  FInv'
<1>1. PackFetchTypeOK'
  BY ReaderIsClient DEF Back, Unchanged, FInv, PackFetchTypeOK, ConnectorTypeOK
<1>2. Reads'
  BY DEF Back, Unchanged, FInv, Reads, AsksForPack, AsksForSingle, AnswersLast
<1>3. PackComes'
  <2> SUFFICES ASSUME faults' = {}, ~PackIsBad', stage' = "remove"
               PROVE  File(Reader)' # "none"
    BY DEF PackComes
  <2>1. faults = {} /\ stage = "pack" /\ ~PackIsBad
    BY DEF Back, Unchanged, PackIsBad
  <2>2. at[Reader] \in {"ok", "err"}
    BY DEF Back, Returned
  <2> QED
    BY <2>1, <2>2 DEF Back, Unchanged, FInv, PackComes, File, NonZero
<1>4. SingleComes' /\ PacksWereTried'
  BY DEF SingleComes, PacksWereTried, Back, Unchanged, PackIsBad
<1> QED
  BY <1>1, <1>2, <1>3, <1>4 DEF FInv, ErrorHasCause

LEMMA PackBackPreserves ==
    ASSUME FInv, PackGives \/ PackUnreadable \/ PackInvalid
    PROVE  FInv'
<1>1. faults \subseteq {"network", "disk"} /\ stage = "pack" /\ answer = "none"
  BY DEF PackGives, PackUnreadable, PackInvalid, Back, FInv, PackFetchTypeOK, ConnectorTypeOK,
         Reads, AnswersLast
<1>2. CASE PackGives
  <2>1. answer' \in {"object", "error", "garbage"} /\ stage' = "done" /\ UNCHANGED <<faults, salt>>
    BY <1>2 DEF PackGives, Back, Unchanged, Answers, GunzipOrAsIs
  <2>2. answer' = "error" => salt # "whole"
    <3>1. salt = "whole" => Decrypt(File(Reader)) = {"contents"}
      BY <1>2 DEF PackGives, ValidPack, Decrypt
    <3> QED
      BY <1>2, <3>1 DEF PackGives, Answers, GunzipOrAsIs
  <2>3. answer' = "error" => ErrorHasCause'
    BY <2>1, <2>2 DEF ErrorHasCause
  <2> QED
    BY <1>1, <1>2, <2>1, <2>3, BackPreserves DEF PackGives
<1>3. CASE PackUnreadable
  BY <1>1, <1>3, BackPreserves DEF PackUnreadable, Goes, Disk
<1>4. CASE PackInvalid
  <2>1. Back("pack") /\ faults' \subseteq {"network", "disk"} /\ UNCHANGED answer
        /\ stage' = IF attempt = 1 THEN "remove" ELSE "nopack"
    BY <1>1, <1>4 DEF PackInvalid, Goes, Disk
  <2>2. faults' = {} => faults = {} /\ File(Reader) # "whole"
    BY <1>4 DEF PackInvalid, Disk, ValidPack
  <2>3. stage' = "nopack" /\ faults' = {} => PackIsBad
    <3>1. at[Reader] \in {"ok", "err"} /\ attempt \in 1..2
      BY <2>1 DEF Back, Returned, FInv, PackFetchTypeOK
    <3> QED
      BY <1>1, <2>1, <2>2, <3>1 DEF FInv, PackComes
  <2> QED
    BY <1>1, <2>1, <2>2, <2>3, BackPreserves
<1> QED
  BY <1>2, <1>3, <1>4

LEMMA SingleBackPreserves ==
    ASSUME FInv, SingleGives \/ SingleFails
    PROVE  FInv'
<1>1. /\ Back("single") /\ stage' = "done" /\ object \in Object \ Tree
      /\ UNCHANGED <<object, remote, cache, salt>>
      /\ faults' \subseteq {"network", "disk"} /\ (faults' = {} => faults = {})
  BY DEF SingleGives, SingleFails, Back, Unchanged, Answers, Disk, FInv, PackFetchTypeOK,
         ConnectorTypeOK
<1>2. answer' \in {"object", "error", "garbage"}
  BY DEF SingleGives, SingleFails, Answers, Gunzip, GunzipOrAsIs
<1>3. File(Reader) = cache[Single[object]]
  BY <1>1 DEF Back, FInv, Reads, AsksForSingle, File
<1>4. ASSUME answer' = "error", faults' = {}, salt = "whole"
      PROVE  /\ PackIsBad
             /\ \/ object \in Raw
                \/ remote[Single[object]] # "whole"
                \/ cache[Single[object]] = "damaged"
  <2>1. PackIsBad
    BY <1>1, <1>4 DEF FInv, PacksWereTried, Back
  <2>2. SUFFICES ASSUME object \notin Raw, remote[Single[object]] = "whole",
                        cache[Single[object]] # "damaged"
                 PROVE  FALSE
    BY <2>1
  <2>3. at[Reader] # "err" /\ (at[Reader] = "ok" => File(Reader) = "whole")
    BY <1>1, <1>3, <1>4, <2>2 DEF FInv, SingleComes, Back, NonZero
  <2>4. SingleGives /\ File(Reader) = "whole"
    BY <1>4, <2>3 DEF SingleGives, SingleFails, Disk
  <2>5. answer' = Gunzip(object, "contents")
    BY <1>4, <2>4 DEF SingleGives, Decrypt, Answers
  <2> QED
    BY <1>4, <2>2, <2>5, PackFetchAssumption DEF Gunzip, GunzipOrAsIs
<1>5. answer' = "error" => ErrorHasCause'
  BY <1>1, <1>4 DEF ErrorHasCause, PackIsBad
<1> QED
  BY <1>1, <1>2, <1>5, BackPreserves

(* A call is made while nobody is inside the connector. *)
LEMMA CallPreserves ==
    ASSUME FInv, NEW o \in Object, NEW k \in Key, NEW purpose \in {"pack", "single"},
           stage \notin {"pack", "single"}, StartCachedGet(Reader, k),
           UNCHANGED <<backend, host, remote, faults, salt>>,
           stage' = purpose, object' = o, answer' = "none", attempt' \in 1..2,
           cache' \in [Key -> Content],
           IF purpose = "pack" THEN k = Pack[o] /\ k # NoPack
                               ELSE o \notin Tree /\ k = Single[o],
           purpose = "pack" /\ attempt' = 2 => cache'[k] = "none",
           purpose = "single" => o = object /\ stage = "nopack"
    PROVE  FInv'
<1>1. /\ at[Reader] = "idle" /\ at' = [at EXCEPT ![Reader] = "stat"]
      /\ want' = [want EXCEPT ![Reader] = k] /\ Reader \in Client
  BY ReaderIsClient DEF StartCachedGet, Call
<1>2. at'[Reader] = "stat" /\ want'[Reader] = k /\ k # NoKey
  BY <1>1, ConnectorAssumption DEF FInv, PackFetchTypeOK, ConnectorTypeOK
<1>3. PackFetchTypeOK'
  BY <1>1, <1>2 DEF FInv, PackFetchTypeOK, ConnectorTypeOK
<1>4. Reads'
  BY <1>2 DEF Reads, AsksForPack, AsksForSingle, AnswersLast
<1>5. PackComes' /\ SingleComes'
  BY <1>2 DEF PackComes, SingleComes, File, NonZero
<1>6. PacksWereTried'
  BY DEF PacksWereTried, FInv, PackIsBad
<1> QED
  BY <1>3, <1>4, <1>5, <1>6 DEF FInv, ErrorHasCause

LEMMA RestPreserves ==
    ASSUME FInv, [Next]_vars,
           ~Connect, ~PackGives, ~PackUnreadable, ~PackInvalid, ~SingleGives, ~SingleFails
    PROVE  FInv'
<1>1. ASSUME NEW o \in Object, ReadFromPack(o)
      PROVE  FInv'
  <2>1. Pack[o] \in Key /\ Pack[o] # NoPack
    BY <1>1, PackFetchAssumption DEF ReadFromPack
  <2>2. cache' \in [Key -> Content]
    BY <1>1 DEF ReadFromPack, FInv, PackFetchTypeOK, ConnectorTypeOK
  <2> QED
    BY <1>1, <2>1, <2>2, CallPreserves DEF ReadFromPack
<1>2. ASSUME NEW o \in Object, ReadWithoutPack(o)
      PROVE  FInv'
  BY <1>2 DEF ReadWithoutPack, connectorVars, FInv, PackFetchTypeOK, ConnectorTypeOK, Reads,
              AsksForPack, AsksForSingle, AnswersLast, PackComes, SingleComes,
              PacksWereTried, PackIsBad, ErrorHasCause
<1>3. CASE RemoveInvalid
  <2>1. want[Reader] = Pack[object] /\ Pack[object] # NoPack /\ Pack[object] \in Key
        /\ answer = "none" /\ object \in Object /\ cache \in [Key -> Content]
    BY <1>3, PackFetchAssumption
       DEF RemoveInvalid, FInv, Reads, AsksForPack, AnswersLast, PackFetchTypeOK,
           ConnectorTypeOK
  <2>2. cache' \in [Key -> Content] /\ cache'[Pack[object]] = "none"
    BY <1>3, <2>1 DEF RemoveInvalid, Content
  <2>3. StartCachedGet(Reader, Pack[object]) /\ UNCHANGED <<backend, host, remote, faults, salt>>
        /\ stage = "remove" /\ stage' = "pack" /\ object' = object /\ answer' = "none"
        /\ attempt' = 2
    BY <1>3, <2>1 DEF RemoveInvalid, SecondCall, Unchanged
  <2> QED
    BY <2>1, <2>2, <2>3, CallPreserves
<1>4. CASE RemoveFails
  <2>1. PacksWereTried'
    BY <1>4 DEF RemoveFails, Goes, Unchanged, Disk, FInv, PackComes, PacksWereTried, PackIsBad
  <2>2. PackFetchTypeOK'
    BY <1>4 DEF RemoveFails, Goes, Unchanged, Disk, FInv, PackFetchTypeOK, ConnectorTypeOK
  <2> QED
    BY <1>4, <2>1, <2>2
       DEF RemoveFails, Goes, Unchanged, FInv, Reads, AsksForPack, AsksForSingle,
           AnswersLast, PackComes, SingleComes, ErrorHasCause
<1>5. CASE TreeIsLost
  BY <1>5 DEF TreeIsLost, Answers, connectorVars, FInv, PackFetchTypeOK, ConnectorTypeOK,
              Reads, AsksForPack, AsksForSingle, AnswersLast, PackComes, SingleComes,
              PacksWereTried, PackIsBad, ErrorHasCause
<1>6. CASE LookInObjects
  <2>1. Single[object] \in Key /\ object \in Object
    BY <1>6, PackFetchAssumption DEF LookInObjects, FInv, PackFetchTypeOK
  <2> QED
    BY <1>6, <2>1, CallPreserves
       DEF LookInObjects, Goes, FInv, PackFetchTypeOK, ConnectorTypeOK, Reads, AnswersLast
<1>7. CASE Rerun
  BY <1>7, ReaderIsClient
     DEF Rerun, FInv, PackFetchTypeOK, ConnectorTypeOK, Content, Reads, AsksForPack,
         AsksForSingle, AnswersLast, PackComes, SingleComes, PacksWereTried, ErrorHasCause
<1>8. CASE UNCHANGED vars
  BY <1>8 DEF vars, connectorVars, fetchVars, FInv, PackFetchTypeOK, ConnectorTypeOK, Reads,
              AsksForPack, AsksForSingle, AnswersLast, PackComes, SingleComes,
              PacksWereTried, PackIsBad, ErrorHasCause, File
<1> QED
  BY <1>1, <1>2, <1>3, <1>4, <1>5, <1>6, <1>7, <1>8 DEF Next, Reading

THEOREM SpecKeepsFInv == Spec => []FInv
<1>1. Init => FInv
  BY ReaderIsClient
     DEF Init, ConnectorInit, FInv, PackFetchTypeOK, ConnectorTypeOK, Reads, AsksForPack,
         AsksForSingle, AnswersLast, PackComes, SingleComes, PacksWereTried, ErrorHasCause
<1>2. FInv /\ [Next]_vars => FInv'
  BY ConnectPreserves, PackBackPreserves, SingleBackPreserves, RestPreserves
<1> QED
  BY <1>1, <1>2, PTL DEF Spec
--------------------------------------------------------------------------------
(* A read that has no answer yet gets one from a pack, from an object on   *)
(* its own, or an error, and every other answer is gone with its read.     *)
LEMMA GarbageComes ==
    ASSUME FInv, [Next]_vars, answer' = "garbage"
    PROVE  PackGives \/ SingleGives \/ UNCHANGED <<object, answer, salt, want>>
<1>1. ASSUME NEW o \in Object, ReadFromPack(o) \/ ReadWithoutPack(o)
      PROVE  FALSE
  BY <1>1 DEF ReadFromPack, ReadWithoutPack
<1>2. CASE Connect
  <2>1. UNCHANGED <<want>> /\ UNCHANGED fetchVars
    BY <1>2, ConnectorStepIsLocal, ReaderIsClient DEF Connect, FInv, PackFetchTypeOK
  <2> QED
    BY <2>1 DEF fetchVars
<1>3. ASSUME PackUnreadable \/ PackInvalid \/ RemoveInvalid \/ RemoveFails \/ LookInObjects
      PROVE  FALSE
  BY <1>3 DEF PackUnreadable, PackInvalid, RemoveInvalid, RemoveFails, LookInObjects, Back,
              Goes, FInv, Reads, AnswersLast
<1>4. ASSUME TreeIsLost \/ SingleFails \/ Rerun
      PROVE  FALSE
  BY <1>4 DEF TreeIsLost, SingleFails, Rerun, Answers
<1>5. CASE UNCHANGED vars
  BY <1>5 DEF vars, connectorVars, fetchVars
<1> QED
  BY <1>1, <1>2, <1>3, <1>4, <1>5 DEF Next, Reading

(* A pack that passed its check yields no beginning of anything, and noise *)
(* only when the salt is wrong.                                            *)
LEMMA WholePacksAreSound ==
    ASSUME FInv, PackGives
    PROVE  NoGarbage'
<1>1. object' = object /\ salt' = salt /\ want' = want /\ want[Reader] = Pack[object]
  BY DEF PackGives, Back, Unchanged, FInv, Reads, AsksForPack
<1>2. CASE salt = "whole"
  <2>1. Decrypt(File(Reader)) = {"contents"}
    BY <1>2 DEF PackGives, ValidPack, Decrypt
  <2>2. answer' = GunzipOrAsIs(object, "contents")
    BY <2>1 DEF PackGives, Answers
  <2> QED
    BY <1>1, <2>2 DEF GunzipOrAsIs, NoGarbage
<1>3. CASE salt # "whole"
  BY <1>1, <1>3 DEF NoGarbage
<1> QED
  BY <1>2, <1>3

(* What does not decompress is an error, whatever the salt. *)
LEMMA SinglesAreSound ==
    ASSUME SingleGives
    PROVE  NoGarbage'
<1>1. PICK data \in Decrypt(File(Reader)) : answer' = Gunzip(object, data)
  BY DEF SingleGives, Answers
<1>2. object' = object
  BY DEF SingleGives, Back, Unchanged
<1>3. CASE data = "contents" /\ object \notin Raw \ Gzip
  BY <1>1, <1>2, <1>3 DEF Gunzip, GunzipOrAsIs, NoGarbage
<1>4. CASE ~(data = "contents" /\ object \notin Raw \ Gzip)
  BY <1>1, <1>4 DEF Gunzip, NoGarbage
<1> QED
  BY <1>3, <1>4

(***************************************************************************)
(* Whatever the store holds, whatever an earlier process left in the cache *)
(* and whatever fails, an answer is the object or an error, unless the     *)
(* object is a compressed file that Arq did not compress again, or comes   *)
(* from a pack that is deciphered with a wrong salt.                       *)
(***************************************************************************)
THEOREM ReadsAreSound == Spec => []NoGarbage
<1>1. Init => NoGarbage
  BY DEF Init, NoGarbage
<1>2. FInv /\ NoGarbage /\ [Next]_vars => NoGarbage'
  <2> SUFFICES ASSUME FInv, NoGarbage, [Next]_vars, answer' = "garbage" PROVE NoGarbage'
    BY DEF NoGarbage
  <2>1. CASE PackGives
    BY <2>1, WholePacksAreSound
  <2>2. CASE SingleGives
    BY <2>2, SinglesAreSound
  <2>3. CASE UNCHANGED <<object, answer, salt, want>>
    BY <2>3 DEF NoGarbage
  <2> QED
    BY <2>1, <2>2, <2>3, GarbageComes
<1> QED
  BY <1>1, <1>2, SpecKeepsFInv, PTL DEF Spec

(***************************************************************************)
(* Every variable of a read keeps its type, and the reader is inside the   *)
(* connector exactly while it waits for a pack or an object.               *)
(***************************************************************************)
THEOREM TypeCorrect == Spec => []PackFetchTypeOK
<1>1. FInv => PackFetchTypeOK
  BY DEF FInv
<1> QED
  BY <1>1, SpecKeepsFInv, PTL

(***************************************************************************)
(* For any objects, packs and stores: while nothing fails, a read ends in  *)
(* an error only for what the store does not have, or has not compressed,  *)
(* or for what was left in the cache cut off.                              *)
(***************************************************************************)
THEOREM ErrorsHaveCauses == Spec => []ErrorHasCause
<1>1. FInv => ErrorHasCause
  BY DEF FInv
<1> QED
  BY <1>1, SpecKeepsFInv, PTL
================================================================================
