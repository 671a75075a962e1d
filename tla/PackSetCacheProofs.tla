--------------------------- MODULE PackSetCacheProofs ---------------------------
(***************************************************************************)
(* What PackSetCache guarantees for every set of keys, every number of     *)
(* workers and every sequence of pack sets: its type, that no two workers  *)
(* meet at a key, that what was promised stays valid, that it implements   *)
(* CacheContract, and that valid files are kept and bad ones retried.      *)
(***************************************************************************)
EXTENDS PackSetCache, ConnectorProofs, TLAPS

USE DEF Panicking

(* The main goroutine is at a pack set as long as the process caches. *)
AtPackSet == phase \in {"list", "join"} => cur \in Positions

(* Promises are not touched again: no pack set still to come has their key. *)
PromisesAreBehind ==
    \A k \in promised, i \in Positions : i >= cur => k \notin PackSets[i]

(* What is in the channel, and what the workers hold, is of this pack set. *)
FromThisPackSet ==
    phase = "join" =>
        /\ inputs \subseteq PackSets[cur]
        /\ \A w \in Client : Busy(w) => want[w] \in Indexes(cur)

(* Workers leave only when the channel is empty, or by a panic. *)
LeftWhenDrained ==
    phase = "join" /\ ~Panicking => \A w \in Client : pc[w] = "exited" => inputs = {}

(* Every index of the pack set is valid, still to be taken, or held: what  *)
(* the main goroutine counts on, and what a panic breaks.                  *)
Accounted ==
    phase = "join" /\ ~Panicking => \A k \in Indexes(cur) :
        \/ cache[k] = "whole"
        \/ k \in inputs
        \/ \E w \in Client : Busy(w) /\ want[w] = k

(* The inductive invariant. *)
IInv ==
    /\ PackSetTypeOK
    /\ AtPackSet
    /\ PromisesAreBehind
    /\ FromThisPackSet
    /\ LeftWhenDrained
    /\ OneWorkerPerKey
    /\ Accounted
    /\ PromiseKept
--------------------------------------------------------------------------------
THEOREM InitEstablishes == Init => IInv
<1> SUFFICES ASSUME Init PROVE IInv
  OBVIOUS
<1>1. Len(PackSets) \in Nat \ {0}
  BY PackSetAssumption
<1>2. PackSetTypeOK
  BY <1>1 DEF Init, ConnectorInit, PackSetTypeOK, ConnectorTypeOK
<1>3. AtPackSet
  BY <1>1 DEF Init, AtPackSet, Positions
<1>4. PromisesAreBehind /\ PromiseKept
  BY DEF Init, PromisesAreBehind, PromiseKept
<1>5. FromThisPackSet /\ LeftWhenDrained /\ OneWorkerPerKey /\ Accounted
  BY DEF Init, FromThisPackSet, LeftWhenDrained, OneWorkerPerKey, Accounted
<1> QED
  BY <1>2, <1>3, <1>4, <1>5 DEF IInv
--------------------------------------------------------------------------------
(***************************************************************************)
(* Going on to the next pack set, with or without a promise for this one.  *)
(***************************************************************************)
LEMMA NextPackSetIsNext ==
    ASSUME IInv, phase \in {"list", "join"}, NextPackSet
    PROVE  /\ phase' \in {"list", "done"}
           /\ cur' \in 1..Len(PackSets) + 1
           /\ AtPackSet'
           /\ \A i \in Positions : i >= cur' => i >= cur /\ i # cur
<1>1. Len(PackSets) \in Nat /\ cur \in 1..Len(PackSets)
  BY PackSetAssumption DEF IInv, AtPackSet, Positions
<1> QED
  BY <1>1 DEF NextPackSet, AtPackSet, Positions

LEMMA MainPreserves ==
    ASSUME IInv, MainStep \/ ListFails
    PROVE  IInv'
<1>1. CASE List
  <2>1. PackSetTypeOK' /\ AtPackSet'
    <3>1. PackSets[cur] \subseteq Key \cup Other
      BY <1>1, PackSetAssumption DEF List, IInv, AtPackSet, Positions
    <3> QED
      BY <1>1, <3>1 DEF List, IInv, PackSetTypeOK, ConnectorTypeOK, connectorVars, AtPackSet
  <2>2. PromisesAreBehind' /\ PromiseKept'
    BY <1>1 DEF List, IInv, PromisesAreBehind, PromiseKept, connectorVars
  <2>3. \A w \in Client : pc'[w] = "recv"
    BY <1>1 DEF List
  <2>4. FromThisPackSet' /\ LeftWhenDrained' /\ OneWorkerPerKey'
    BY <1>1, <2>3 DEF List, FromThisPackSet, LeftWhenDrained, OneWorkerPerKey, Busy
  <2>5. Accounted'
    BY <1>1 DEF List, Accounted, Indexes
  <2> QED
    BY <2>1, <2>2, <2>4, <2>5 DEF IInv
<1>2. CASE ListFails
  <2>1. /\ phase' # "join" /\ phase' \in {"list", "done"}
        /\ cur' \in 1..Len(PackSets) + 1
        /\ AtPackSet'
        /\ \A i \in Positions : i >= cur' => i >= cur /\ i # cur
    BY <1>2, NextPackSetIsNext DEF ListFails
  <2>2. PackSetTypeOK'
    BY <1>2, <2>1 DEF ListFails, IInv, PackSetTypeOK, ConnectorTypeOK, Ended
  <2>3. PromisesAreBehind' /\ PromiseKept'
    BY <1>2, <2>1 DEF ListFails, IInv, PromisesAreBehind, PromiseKept
  <2> QED
    BY <2>1, <2>2, <2>3 DEF IInv, FromThisPackSet, LeftWhenDrained, OneWorkerPerKey, Accounted
<1>3. CASE Join
  <2>1. /\ phase' # "join" /\ phase' \in {"list", "done"}
        /\ cur' \in 1..Len(PackSets) + 1
        /\ AtPackSet'
        /\ \A i \in Positions : i >= cur' => i >= cur /\ i # cur
    BY <1>3, NextPackSetIsNext DEF Join
  <2>2. PackSetTypeOK'
    BY <1>3, <2>1 DEF Join, IInv, PackSetTypeOK, ConnectorTypeOK, Ended, connectorVars, Indexes
  <2>3. cur \in Positions
    BY <1>3 DEF Join, IInv, AtPackSet
  <2>4. \A k \in Indexes(cur), i \in Positions : i >= cur' => k \notin PackSets[i]
    BY <2>1, <2>3, PackSetAssumption DEF Indexes
  <2>5. PromisesAreBehind'
    BY <1>3, <2>1, <2>4 DEF Join, IInv, PromisesAreBehind
  <2>6. ~Panicking => inputs = {} /\ \A w \in Client : ~Busy(w)
    BY <1>3, ConnectorAssumption DEF Join, IInv, LeftWhenDrained, Busy
  <2>7. ~Panicking => \A k \in Indexes(cur) : cache[k] = "whole"
    BY <1>3, <2>6 DEF Join, IInv, Accounted
  <2>8. PromiseKept'
    BY <1>3, <2>7 DEF Join, IInv, PromiseKept, connectorVars
  <2> QED
    BY <2>1, <2>2, <2>5, <2>8
       DEF IInv, FromThisPackSet, LeftWhenDrained, OneWorkerPerKey, Accounted
<1> QED
  BY <1>1, <1>2, <1>3 DEF MainStep
--------------------------------------------------------------------------------
(***************************************************************************)
(* A worker that is at a key changes no other file, and leaves the channel *)
(* and the other workers alone: what the invariant says of the other keys  *)
(* and of the promises stands.                                             *)
(***************************************************************************)
LEMMA HolderPreserves ==
    ASSUME IInv, NEW w \in Client, phase = "join", Busy(w),
           PackSetTypeOK',
           UNCHANGED <<phase, cur, inputs, crash, promised, want>>,
           \A k \in Key : k # want[w] => cache'[k] = cache[k],
           \A v \in Client : v # w => pc'[v] = pc[v],
           \/ pc'[w] \in {"fetch", "remove"}
           \/ pc'[w] = "recv" /\ cache'[want[w]] = "whole"
    PROVE  IInv'
<1>1. cur \in Positions /\ inputs \subseteq PackSets[cur] /\ want[w] \in Indexes(cur)
  BY DEF IInv, AtPackSet, FromThisPackSet
<1>2. AtPackSet' /\ PromisesAreBehind'
  BY DEF IInv, AtPackSet, PromisesAreBehind
<1>3. \A v \in Client : Busy(v)' => Busy(v)
  BY DEF Busy
<1>4. FromThisPackSet' /\ OneWorkerPerKey'
  BY <1>1, <1>3 DEF IInv, FromThisPackSet, OneWorkerPerKey, Indexes
<1>5. LeftWhenDrained'
  BY DEF IInv, LeftWhenDrained
<1>6. Accounted'
  <2> SUFFICES ASSUME ~Panicking, NEW k \in Indexes(cur)
               PROVE  \/ cache'[k] = "whole"
                      \/ k \in inputs
                      \/ \E v \in Client : Busy(v)' /\ want[v] = k
    BY DEF Accounted, Indexes
  <2>1. CASE k = want[w]
    BY <2>1 DEF Busy
  <2>2. CASE k # want[w]
    <3>1. cache'[k] = cache[k]
      BY <2>2 DEF Indexes
    <3>2. \A v \in Client : Busy(v) /\ want[v] = k => Busy(v)'
      BY <2>2 DEF Busy
    <3> QED
      BY <3>1, <3>2 DEF IInv, Accounted
  <2> QED
    BY <2>1, <2>2
<1>7. PromiseKept'
  <2>1. want[w] \notin promised
    BY <1>1, PackSetAssumption DEF IInv, PromisesAreBehind, Positions, Indexes
  <2> QED
    BY <2>1 DEF IInv, PromiseKept, PackSetTypeOK
<1> QED
  BY <1>2, <1>4, <1>5, <1>6, <1>7 DEF IInv

(***************************************************************************)
(* A panicking worker leaves its key to nobody.                            *)
(***************************************************************************)
LEMMA PanicPreserves ==
    ASSUME IInv, NEW w \in Client, Panic(w), PackSetTypeOK',
           UNCHANGED <<phase, cur, inputs, promised, want>>
    PROVE  IInv'
<1>1. Panicking' /\ \A v \in Client : Busy(v)' => Busy(v)
  BY DEF IInv, PackSetTypeOK, Panic, Busy
<1>2. AtPackSet' /\ PromisesAreBehind'
  BY DEF IInv, AtPackSet, PromisesAreBehind
<1>3. FromThisPackSet' /\ OneWorkerPerKey'
  BY <1>1 DEF IInv, FromThisPackSet, OneWorkerPerKey, Indexes
<1>4. LeftWhenDrained' /\ Accounted' /\ PromiseKept'
  BY <1>1 DEF LeftWhenDrained, Accounted, PromiseKept
<1> QED
  BY <1>2, <1>3, <1>4 DEF IInv

(***************************************************************************)
(* Once the process has ended, nothing is left to preserve but its type    *)
(* and its promises.                                                       *)
(***************************************************************************)
LEMMA EndPreserves ==
    ASSUME IInv, phase' \in Ended, PackSetTypeOK',
           UNCHANGED <<cur, crash, promised, cache>>
    PROVE  IInv'
BY DEF IInv, PackSetTypeOK, Ended, AtPackSet, PromisesAreBehind, FromThisPackSet, LeftWhenDrained,
       OneWorkerPerKey, Accounted, PromiseKept
--------------------------------------------------------------------------------
LEMMA ReceivePreserves ==
    ASSUME IInv, NEW w \in Client, ReceiveIndex(w)
    PROVE  IInv'
<1>1. PICK k \in inputs \cap Key : inputs' = inputs \ {k} /\ StartCachedGet(w, k)
  BY DEF ReceiveIndex
<1>2. /\ at' = [at EXCEPT ![w] = "stat"]
      /\ want' = [want EXCEPT ![w] = k]
      /\ pc' = [pc EXCEPT ![w] = "fetch"]
      /\ attempt' = [attempt EXCEPT ![w] = 1]
      /\ UNCHANGED <<backend, host, remote, cache, faults, phase, cur, crash, promised>>
      /\ phase = "join" /\ pc[w] = "recv"
  BY <1>1 DEF ReceiveIndex, StartCachedGet, Call
<1>3. PackSetTypeOK'
  BY <1>1, <1>2 DEF IInv, PackSetTypeOK, ConnectorTypeOK
<1>4. AtPackSet' /\ PromisesAreBehind' /\ PromiseKept'
  BY <1>2 DEF IInv, AtPackSet, PromisesAreBehind, PromiseKept
<1>5. want \in [Client -> Key \cup {NoKey}] /\ pc \in [Client -> {"exited", "recv", "fetch", "remove"}]
  BY DEF IInv, PackSetTypeOK, ConnectorTypeOK
<1>6. /\ want'[w] = k /\ Busy(w)'
      /\ \A v \in Client \ {w} : want'[v] = want[v] /\ pc'[v] = pc[v]
  BY <1>2, <1>5 DEF Busy
<1>7. k \in Indexes(cur)
  BY <1>1, <1>2 DEF IInv, FromThisPackSet, Indexes
<1>8. \A v \in Client \ {w} : Busy(v)' <=> Busy(v)
  BY <1>6 DEF Busy
<1>9. FromThisPackSet'
  <2>1. inputs' \subseteq PackSets[cur]
    BY <1>1, <1>2 DEF IInv, FromThisPackSet
  <2>2. \A v \in Client : Busy(v)' => want'[v] \in Indexes(cur)
    BY <1>2, <1>6, <1>7, <1>8 DEF IInv, FromThisPackSet
  <2> QED
    BY <1>2, <2>1, <2>2 DEF FromThisPackSet, Indexes
<1>10. LeftWhenDrained'
  BY <1>1, <1>2, <1>6, <1>5 DEF IInv, LeftWhenDrained
<1>11. OneWorkerPerKey'
  <2>1. \A v \in Client \ {w} : Busy(v) => want[v] # k
    BY <1>1, <1>2 DEF IInv, OneWorkerPerKey
  <2> QED
    BY <1>1, <1>2, <1>6, <1>8, <2>1 DEF IInv, OneWorkerPerKey
<1>12. Accounted'
  <2> SUFFICES ASSUME ~Panicking, NEW j \in Indexes(cur)
               PROVE  \/ cache'[j] = "whole"
                      \/ j \in inputs'
                      \/ \E v \in Client : Busy(v)' /\ want'[v] = j
    BY <1>2 DEF Accounted, Indexes
  <2>1. CASE j = k
    BY <1>6, <2>1
  <2>2. CASE j # k
    <3>1. \A v \in Client : Busy(v) /\ want[v] = j => Busy(v)' /\ want'[v] = j
      BY <1>2, <1>6, <1>8 DEF Busy
    <3> QED
      BY <1>1, <1>2, <2>2, <3>1 DEF IInv, Accounted
  <2> QED
    BY <2>1, <2>2
<1> QED
  BY <1>3, <1>4, <1>9, <1>10, <1>11, <1>12 DEF IInv

LEMMA WorkerPreserves ==
    ASSUME IInv, NEW w \in Client, WorkerStep(w)
    PROVE  IInv'
<1>1. /\ want \in [Client -> Key \cup {NoKey}] /\ cache \in [Key -> Content]
      /\ pc \in [Client -> {"exited", "recv", "fetch", "remove"}]
  BY DEF IInv, PackSetTypeOK, ConnectorTypeOK
<1>2. phase = "join" /\ Busy(w) => want[w] \in Key
  BY DEF IInv, FromThisPackSet, Indexes
<1>3. CASE ReceiveIndex(w)
  BY <1>3, ReceivePreserves
<1>4. CASE SkipOther(w)
  <2>1. PICK o \in inputs \ Key : inputs' = inputs \ {o}
    BY <1>4 DEF SkipOther
  <2>2. PackSetTypeOK'
    BY <1>4, <2>1 DEF SkipOther, IInv, PackSetTypeOK, ConnectorTypeOK, connectorVars
  <2>3. AtPackSet' /\ PromisesAreBehind' /\ PromiseKept'
    BY <1>4 DEF SkipOther, IInv, AtPackSet, PromisesAreBehind, PromiseKept, connectorVars
  <2>4. FromThisPackSet' /\ LeftWhenDrained' /\ OneWorkerPerKey'
    BY <1>4, <2>1 DEF SkipOther, IInv, FromThisPackSet, LeftWhenDrained, OneWorkerPerKey,
                      Busy, Indexes, connectorVars
  <2>5. Accounted'
    BY <1>4, <2>1 DEF SkipOther, IInv, Accounted, Busy, Indexes, connectorVars
  <2> QED
    BY <2>2, <2>3, <2>4, <2>5 DEF IInv
<1>5. CASE Drained(w)
  <2>1. PackSetTypeOK'
    BY <1>5 DEF Drained, IInv, PackSetTypeOK, ConnectorTypeOK, connectorVars
  <2>2. AtPackSet' /\ PromisesAreBehind' /\ PromiseKept'
    BY <1>5 DEF Drained, IInv, AtPackSet, PromisesAreBehind, PromiseKept, connectorVars
  <2>3. \A v \in Client : Busy(v)' <=> Busy(v)
    BY <1>1, <1>5 DEF Drained, Busy
  <2>4. FromThisPackSet' /\ LeftWhenDrained' /\ OneWorkerPerKey'
    BY <1>5, <2>3 DEF Drained, IInv, FromThisPackSet, LeftWhenDrained, OneWorkerPerKey,
                      Indexes, connectorVars
  <2>5. Accounted'
    BY <1>5, <2>3 DEF Drained, IInv, Accounted, Indexes, connectorVars
  <2> QED
    BY <2>1, <2>2, <2>4, <2>5 DEF IInv
<1>6. CASE Fetch(w)
  <2>1. ConnectorTypeOK
    BY DEF IInv, PackSetTypeOK
  <2>2. /\ UNCHANGED <<backend, host, remote, want>>
        /\ \E place \in {"create", "open", "copy", "ok", "err"} : at' = [at EXCEPT ![w] = place]
        /\ \E file \in Content : cache' = [cache EXCEPT ![want[w]] = file]
        /\ faults' \subseteq {"network", "disk"}
        /\ want[w] \in Key
    BY <1>6, <2>1, ConnectorStepIsLocal DEF Fetch
  <2>3. ConnectorTypeOK'
    BY <2>1, <2>2 DEF ConnectorTypeOK
  <2>4. UNCHANGED packVars /\ phase = "join" /\ pc[w] = "fetch"
    BY <1>6 DEF Fetch
  <2>5. PackSetTypeOK'
    BY <2>3, <2>4 DEF IInv, PackSetTypeOK, packVars
  <2>6. \A k \in Key : k # want[w] => cache'[k] = cache[k]
    BY <1>1, <2>2
  <2> QED
    BY <2>2, <2>4, <2>5, <2>6, HolderPreserves DEF packVars, Busy
<1>7. CASE FoundValid(w)
  <2>1. PackSetTypeOK'
    BY <1>7 DEF FoundValid, Checked, IInv, PackSetTypeOK, ConnectorTypeOK
  <2> QED
    BY <1>1, <1>7, <2>1, HolderPreserves DEF FoundValid, Checked, IsValidPackFile, File, Busy
<1>8. CASE FirstInvalid(w)
  <2>1. PackSetTypeOK'
    BY <1>8 DEF FirstInvalid, FoundInvalid, Checked, IInv, PackSetTypeOK, ConnectorTypeOK
  <2> QED
    BY <1>1, <1>8, <2>1, HolderPreserves DEF FirstInvalid, FoundInvalid, Checked, Busy
<1>9. CASE SecondInvalid(w)
  <2>1. PackSetTypeOK'
    BY <1>9 DEF SecondInvalid, Panic, FoundInvalid, Checked, IInv, PackSetTypeOK, ConnectorTypeOK
  <2> QED
    BY <1>9, <2>1, PanicPreserves DEF SecondInvalid, FoundInvalid, Checked
<1>10. CASE RemoveInvalid(w)
  <2>1. /\ cache' = [cache EXCEPT ![want[w]] = "none"]
        /\ at' = [at EXCEPT ![w] = "stat"]
        /\ want' = want
        /\ pc' = [pc EXCEPT ![w] = "fetch"]
        /\ attempt' = [attempt EXCEPT ![w] = 2]
        /\ UNCHANGED <<backend, host, remote, faults, phase, cur, inputs, crash, promised>>
        /\ phase = "join" /\ pc[w] = "remove"
    BY <1>1, <1>10 DEF RemoveInvalid, StartCachedGet, Call
  <2>2. want[w] \in Key
    BY <1>2, <2>1 DEF Busy
  <2>3. PackSetTypeOK'
    BY <2>1, <2>2 DEF IInv, PackSetTypeOK, ConnectorTypeOK, Content
  <2> QED
    BY <1>1, <2>1, <2>3, HolderPreserves DEF Busy
<1>11. CASE RemoveFails(w)
  <2>1. PackSetTypeOK'
    BY <1>11 DEF RemoveFails, Panic, IInv, PackSetTypeOK, ConnectorTypeOK
  <2> QED
    BY <1>11, <2>1, PanicPreserves DEF RemoveFails
<1> QED
  BY <1>3, <1>4, <1>5, <1>6, <1>7, <1>8, <1>9, <1>10, <1>11 DEF WorkerStep

LEMMA KillAndRestartPreserve ==
    ASSUME IInv, Crash \/ Kill \/ Restart
    PROVE  IInv'
<1>1. CASE Crash \/ Kill
  <2>1. PackSetTypeOK'
    BY <1>1 DEF Crash, Kill, IInv, PackSetTypeOK, ConnectorTypeOK, connectorVars, Ended
  <2> QED
    BY <1>1, <2>1, EndPreserves DEF Crash, Kill, connectorVars, Ended
<1>2. CASE Restart
  <2>1. Len(PackSets) \in Nat \ {0}
    BY PackSetAssumption
  <2>2. PackSetTypeOK'
    BY <1>2, <2>1 DEF Restart, IInv, PackSetTypeOK, ConnectorTypeOK, Content
  <2> QED
    BY <1>2, <2>1, <2>2 DEF Restart, IInv, AtPackSet, Positions, PromisesAreBehind, PromiseKept,
           FromThisPackSet, LeftWhenDrained, OneWorkerPerKey, Accounted
<1> QED
  BY <1>1, <1>2

THEOREM IInvIsInductive == IInv /\ [Next]_vars => IInv'
<1> SUFFICES ASSUME IInv, [Next]_vars PROVE IInv'
  OBVIOUS
<1>1. CASE MainStep \/ ListFails
  BY <1>1, MainPreserves
<1>2. CASE \E w \in Client : WorkerStep(w)
  BY <1>2, WorkerPreserves
<1>3. CASE Crash \/ Kill \/ Restart
  BY <1>3, KillAndRestartPreserve
<1>4. CASE UNCHANGED vars
  BY <1>4 DEF vars, connectorVars, packVars, IInv, PackSetTypeOK, ConnectorTypeOK, AtPackSet,
         PromisesAreBehind, PromiseKept, FromThisPackSet, LeftWhenDrained, OneWorkerPerKey,
         Accounted, Busy, Indexes
<1> QED
  BY <1>1, <1>2, <1>3, <1>4 DEF Next

THEOREM SpecKeepsIInv == Spec => []IInv
<1>1. Init => IInv
  BY InitEstablishes
<1>2. IInv /\ [Next]_vars => IInv'
  BY IInvIsInductive
<1> QED
  BY <1>1, <1>2, PTL DEF Spec
--------------------------------------------------------------------------------
(***************************************************************************)
(* Every variable keeps its type.                                          *)
(***************************************************************************)
THEOREM TypeCorrect == Spec => []PackSetTypeOK
<1>1. IInv => PackSetTypeOK
  BY DEF IInv
<1> QED
  BY <1>1, SpecKeepsIInv, PTL

(***************************************************************************)
(* The indexes of a pack set that cachePackSet returned nil for are valid  *)
(* in the cache for the rest of the run.                                   *)
(***************************************************************************)
THEOREM PromisesAreKept == Spec => []PromiseKept
<1>1. IInv => PromiseKept
  BY DEF IInv
<1> QED
  BY <1>1, SpecKeepsIInv, PTL

(***************************************************************************)
(* No two workers of cachePackSet are ever at the same cache file.         *)
(***************************************************************************)
THEOREM WorkersNeverMeet == Spec => []OneWorkerPerKey
<1>1. IInv => OneWorkerPerKey
  BY DEF IInv
<1> QED
  BY <1>1, SpecKeepsIInv, PTL
--------------------------------------------------------------------------------
(***************************************************************************)
(* The refinement.  What a worker does to the file of its key is a gain or *)
(* a loss of that key, which nobody was promised.                          *)
(***************************************************************************)
LEMMA HolderRefines ==
    ASSUME IInv, NEW w \in Client, phase = "join", Busy(w),
           UNCHANGED <<phase, crash, promised>>,
           \A k \in Key : k # want[w] => cache'[k] = cache[k]
    PROVE  Contract!ContractNext
<1>1. want[w] \in Key
  BY DEF IInv, FromThisPackSet, Indexes
<1>2. want[w] \notin promised
  BY PackSetAssumption
     DEF IInv, AtPackSet, FromThisPackSet, PromisesAreBehind, Positions, Indexes
<1>3. Mode # "stopped" /\ UNCHANGED <<Counted, Mode>>
  BY DEF Mode, Counted, Ended
<1>4. Have' = Have \cup {want[w]} \/ Have' = Have \ {want[w]}
  <2>1. CASE cache'[want[w]] = "whole"
    BY <1>1, <2>1 DEF Have
  <2>2. CASE cache'[want[w]] # "whole"
    BY <1>1, <2>2 DEF Have
  <2> QED
    BY <2>1, <2>2
<1>5. Contract!Gain(want[w]) \/ Contract!Lose(want[w])
  BY <1>2, <1>3, <1>4 DEF Contract!Gain, Contract!Lose, Counted
<1> QED
  BY <1>1, <1>5 DEF Contract!ContractNext

LEMMA WorkerRefines ==
    ASSUME IInv, NEW w \in Client, WorkerStep(w)
    PROVE  Contract!ContractNext \/ UNCHANGED Contract!contractVars
<1>1. cache \in [Key -> Content] /\ ConnectorTypeOK
  BY DEF IInv, PackSetTypeOK, ConnectorTypeOK
<1>2. CASE ReceiveIndex(w) \/ SkipOther(w) \/ Drained(w)
  <2>1. UNCHANGED <<cache, promised, crash, phase>>
    BY <1>2 DEF ReceiveIndex, SkipOther, Drained, connectorVars
  <2> QED
    BY <2>1 DEF Contract!contractVars, Have, Counted, Mode
<1>3. CASE Fetch(w)
  <2>1. \A k \in Key : k # want[w] => cache'[k] = cache[k]
    BY <1>1, <1>3, ConnectorStepIsLocal DEF Fetch
  <2> QED
    BY <1>3, <2>1, HolderRefines DEF Fetch, packVars, Busy
<1>4. CASE FoundValid(w) \/ FirstInvalid(w)
  <2>1. UNCHANGED <<cache, promised, crash, phase>>
    BY <1>4 DEF FoundValid, FirstInvalid, FoundInvalid, Checked
  <2> QED
    BY <2>1 DEF Contract!contractVars, Have, Counted, Mode
<1>5. CASE SecondInvalid(w) \/ RemoveFails(w)
  <2>1. UNCHANGED <<cache, promised, phase>> /\ phase = "join" /\ crash' = "coming"
    BY <1>5 DEF SecondInvalid, FoundInvalid, Checked, RemoveFails, Panic
  <2>2. CASE Panicking
    BY <2>1, <2>2 DEF Contract!contractVars, Have, Counted, Mode
  <2>3. CASE ~Panicking
    <3>1. Contract!Fail
      BY <2>1, <2>3 DEF Contract!Fail, Have, Counted, Mode, Ended
    <3> QED
      BY <3>1 DEF Contract!ContractNext
  <2> QED
    BY <2>2, <2>3
<1>6. CASE RemoveInvalid(w)
  <2>1. \A k \in Key : k # want[w] => cache'[k] = cache[k]
    BY <1>1, <1>6 DEF RemoveInvalid
  <2> QED
    BY <1>6, <2>1, HolderRefines DEF RemoveInvalid, Busy
<1> QED
  BY <1>2, <1>3, <1>4, <1>5, <1>6 DEF WorkerStep

LEMMA StepRefines ==
    IInv /\ [Next]_vars => [Contract!ContractNext]_(Contract!contractVars)
<1> SUFFICES ASSUME IInv, [Next]_vars
             PROVE  Contract!ContractNext \/ UNCHANGED Contract!contractVars
  OBVIOUS
<1>1. CASE List
  <2>1. UNCHANGED <<cache, promised, crash>> /\ phase = "list" /\ phase' = "join"
    BY <1>1 DEF List, connectorVars
  <2> QED
    BY <2>1 DEF Contract!contractVars, Have, Counted, Mode, Ended
<1>2. CASE ListFails
  <2>1. UNCHANGED <<cache, promised, crash>> /\ phase = "list" /\ phase' \in {"list", "done"}
    BY <1>2 DEF ListFails, NextPackSet
  <2>2. CASE phase' = "list"
    BY <2>1, <2>2 DEF Contract!contractVars, Have, Counted, Mode
  <2>3. CASE phase' = "done"
    <3>1. Contract!Stop
      BY <2>1, <2>3 DEF Contract!Stop, Have, Counted, Mode, Ended
    <3> QED
      BY <3>1 DEF Contract!ContractNext
  <2> QED
    BY <2>1, <2>2, <2>3
<1>3. CASE Join
  <2>1. /\ phase = "join" /\ phase' \in {"list", "done"}
        /\ promised' = promised \cup Indexes(cur)
        /\ UNCHANGED <<cache, crash>>
    BY <1>3 DEF Join, NextPackSet, connectorVars
  <2>2. CASE ~Panicking
    <3>1. IInv'
      BY <1>3, MainPreserves DEF MainStep
    <3>2. Indexes(cur) \subseteq Have /\ Indexes(cur) \in SUBSET Key
      BY <2>1, <2>2, <3>1 DEF IInv, PromiseKept, Have, Indexes
    <3>3. Contract!Promise(Indexes(cur))
      BY <2>1, <2>2, <3>2 DEF Contract!Promise, Have, Counted, Mode, Ended
    <3> QED
      BY <3>2, <3>3 DEF Contract!ContractNext
  <2>3. CASE Panicking /\ phase' = "list"
    BY <2>1, <2>3 DEF Contract!contractVars, Have, Counted, Mode, Ended
  <2>4. CASE Panicking /\ phase' = "done"
    <3>1. Contract!Stop
      BY <2>1, <2>4 DEF Contract!Stop, Have, Counted, Mode, Ended
    <3> QED
      BY <3>1 DEF Contract!ContractNext
  <2> QED
    BY <2>1, <2>2, <2>3, <2>4
<1>4. CASE \E w \in Client : WorkerStep(w)
  BY <1>4, WorkerRefines
<1>5. CASE Crash \/ Kill
  <2>1. UNCHANGED <<cache, promised, crash>> /\ phase' \in Ended
    BY <1>5 DEF Crash, Kill, connectorVars, Ended
  <2>2. CASE phase \in Ended
    BY <2>1, <2>2 DEF Contract!contractVars, Have, Counted, Mode
  <2>3. CASE phase \notin Ended
    <3>1. Contract!Stop
      BY <2>1, <2>3 DEF Contract!Stop, Have, Counted, Mode
    <3> QED
      BY <3>1 DEF Contract!ContractNext
  <2> QED
    BY <2>2, <2>3
<1>6. CASE Restart
  <2>1. phase' = "list" /\ promised' = {} /\ ~Panicking' /\ cache' \in {cache, [k \in Key |-> "none"]}
    BY <1>6 DEF Restart
  <2>2. Have' \in {Have, {}}
    BY <2>1 DEF Have
  <2>3. Contract!Again
    BY <1>6, <2>1, <2>2 DEF Restart, Contract!Again, Counted, Mode, Ended
  <2> QED
    BY <2>3 DEF Contract!ContractNext
<1>7. CASE UNCHANGED vars
  BY <1>7 DEF vars, connectorVars, packVars, Contract!contractVars, Have, Counted, Mode
<1> QED
  BY <1>1, <1>2, <1>3, <1>4, <1>5, <1>6, <1>7 DEF Next, MainStep

(***************************************************************************)
(* Caching the pack sets implements CacheContract.                         *)
(***************************************************************************)
THEOREM CachingImplementsContract == Spec => ImplementsContract
<1>1. Init => Contract!ContractInit
  BY DEF Init, Contract!ContractInit, Have, Counted, Mode, Ended
<1>2. IInv /\ [Next]_vars => [Contract!ContractNext]_(Contract!contractVars)
  BY StepRefines
<1> QED
  BY <1>1, <1>2, SpecKeepsIInv, PTL DEF Spec, ImplementsContract, Contract!ContractSpec
--------------------------------------------------------------------------------
(***************************************************************************)
(* The repair of leftovers.  While nothing fails and the backup store is   *)
(* good, a worker that was not served by the connector has a file to       *)
(* delete, and asks again with no file in the way.                         *)
(***************************************************************************)
StoreIsGood == \A k \in Key : remote[k] = "whole"

Repairing(w) ==
    /\ pc[w] = "fetch" =>
        /\ at[w] # "err"
        /\ at[w] = "ok" => NonZero(File(w))
        /\ attempt[w] = 2 /\ at[w] = "stat" => File(w) = "none"
        /\ attempt[w] = 2 /\ at[w] = "ok" => File(w) = "whole"
    /\ pc[w] = "remove" => File(w) # "none"

RInv ==
    /\ IInv
    /\ phase = "join" /\ faults = {} /\ StoreIsGood => \A w \in Client : Repairing(w)
    /\ LeftoversAreRepaired

LEMMA ConnectorRepairs ==
    ASSUME ConnectorTypeOK, StoreIsGood, NEW w \in Client, pc[w] = "fetch", Repairing(w),
           ConnectorStep(w), faults' = {}, UNCHANGED packVars
    PROVE  Repairing(w)'
<1>1. want' = want /\ want[w] \in Key
  BY ConnectorStepIsLocal
<1>2. Source(w) = "whole"
  BY <1>1 DEF StoreIsGood, Source
<1>3. pc'[w] = "fetch" /\ attempt'[w] = attempt[w]
  BY DEF packVars
<1>4. \A place, file : Goto(w, place, file) => at'[w] = place /\ cache'[want[w]] = file
  BY <1>1 DEF ConnectorTypeOK, Goto
<1>5. CASE CacheHit(w)
  BY <1>1, <1>3, <1>4, <1>5 DEF CacheHit, Repairing, File, NonZero
<1>6. CASE CacheMiss(w)
  BY <1>1, <1>3, <1>4, <1>6 DEF CacheMiss, Repairing, File
<1>7. CASE Create(w)
  BY <1>1, <1>3, <1>4, <1>7 DEF Create, Repairing, File
<1>8. CASE Open(w)
  BY <1>1, <1>3, <1>4, <1>8 DEF Open, Repairing, File
<1>9. CASE CopySome(w)
  BY <1>1, <1>3, <1>4, <1>9 DEF CopySome, Repairing, File
<1>10. CASE CopyEnds(w)
  BY <1>1, <1>2, <1>3, <1>4, <1>10 DEF CopyEnds, Repairing, File, NonZero
<1>11. CASE CreateFails(w) \/ OpenFails(w) \/ CopyFails(w) \/ FlushFails(w)
  BY <1>2, <1>11 DEF CreateFails, OpenFails, Unserved, CopyFails, FailsRemoving, FlushFails
<1> QED
  BY <1>5, <1>6, <1>7, <1>8, <1>9, <1>10, <1>11 DEF ConnectorStep

(* What one worker does leaves the others, and the files they hold, alone. *)
LEMMA OthersAreUndisturbed ==
    ASSUME IInv, NEW w \in Client, NEW v \in Client \ {w}, WorkerStep(w), phase = "join"
    PROVE  /\ pc'[v] = pc[v] /\ at'[v] = at[v] /\ want'[v] = want[v]
           /\ attempt'[v] = attempt[v]
           /\ Busy(v) => cache'[want[v]] = cache[want[v]]
<1>1. ConnectorTypeOK /\ pc \in [Client -> {"exited", "recv", "fetch", "remove"}]
      /\ attempt \in [Client -> 1..2]
  BY DEF IInv, PackSetTypeOK
<1>2. pc'[v] = pc[v] /\ at'[v] = at[v] /\ want'[v] = want[v] /\ attempt'[v] = attempt[v]
  <2>1. CASE Fetch(w)
    BY <1>1, <2>1, ConnectorStepIsLocal DEF Fetch, packVars, ConnectorTypeOK
  <2>2. CASE ~Fetch(w)
    BY <1>1, <2>2 DEF WorkerStep, ReceiveIndex, SkipOther, Drained, FoundValid, FirstInvalid,
           SecondInvalid, FoundInvalid, Checked, RemoveInvalid, RemoveFails, Panic,
           StartCachedGet, Call, connectorVars, ConnectorTypeOK
  <2> QED
    BY <2>1, <2>2
<1>3. ASSUME Busy(v) PROVE cache'[want[v]] = cache[want[v]]
  <2>1. Busy(w) => want[w] # want[v]
    BY <1>3 DEF IInv, OneWorkerPerKey
  <2>2. want[v] \in Key
    BY <1>3 DEF IInv, FromThisPackSet, Indexes
  <2>3. CASE Fetch(w)
    BY <1>1, <2>1, <2>2, <2>3, ConnectorStepIsLocal DEF Fetch, Busy, ConnectorTypeOK
  <2>4. CASE RemoveInvalid(w)
    BY <1>1, <2>1, <2>2, <2>4 DEF RemoveInvalid, Busy, ConnectorTypeOK
  <2>5. CASE ~Fetch(w) /\ ~RemoveInvalid(w)
    BY <2>5 DEF WorkerStep, ReceiveIndex, SkipOther, Drained, FoundValid, FirstInvalid,
           SecondInvalid, FoundInvalid, Checked, RemoveFails, connectorVars
  <2> QED
    BY <2>3, <2>4, <2>5
<1> QED
  BY <1>2, <1>3

LEMMA OthersKeepRepairing ==
    ASSUME IInv, NEW w \in Client, NEW v \in Client \ {w}, WorkerStep(w), phase = "join",
           Repairing(v)
    PROVE  Repairing(v)'
BY OthersAreUndisturbed DEF Repairing, Busy, File, NonZero

LEMMA WorkerRepairs ==
    ASSUME RInv, NEW w \in Client, WorkerStep(w), faults' = {}, StoreIsGood
    PROVE  /\ ~Panicking'
           /\ \A v \in Client : Repairing(v)'
<1>1. /\ phase = "join" /\ faults = {}
      /\ ConnectorTypeOK /\ pc \in [Client -> {"exited", "recv", "fetch", "remove"}]
      /\ attempt \in [Client -> 1..2]
      /\ crash = "none"
  <2>1. phase = "join"
    BY DEF WorkerStep, ReceiveIndex, SkipOther, Drained, Fetch, FoundValid, FirstInvalid,
           SecondInvalid, FoundInvalid, Checked, RemoveInvalid, RemoveFails
  <2>2. faults \subseteq faults'
    BY DEF WorkerStep, ReceiveIndex, SkipOther, Drained, Fetch, FoundValid, FirstInvalid,
           SecondInvalid, FoundInvalid, RemoveInvalid, RemoveFails, connectorVars,
           ConnectorStep, CacheHit, CacheMiss, Create, CreateFails, Open,
           OpenFails, FailsRemoving, CopySome, CopyEnds, CopyFails, FlushFails
  <2> QED
    BY <2>1, <2>2 DEF RInv, IInv, PackSetTypeOK, LeftoversAreRepaired, StoreIsGood
<1>2. \A v \in Client : Repairing(v)
  BY <1>1 DEF RInv
<1>3. \A v \in Client \ {w} : Repairing(v)'
  BY <1>1, <1>2, OthersKeepRepairing DEF RInv
<1>4. Busy(w) => want[w] \in Key
  BY <1>1 DEF RInv, IInv, FromThisPackSet, Indexes
<1>5. ~Panicking' /\ Repairing(w)'
  <2>1. CASE ReceiveIndex(w)
    BY <1>1, <2>1 DEF ReceiveIndex, StartCachedGet, Call, Repairing, ConnectorTypeOK
  <2>2. CASE SkipOther(w) \/ Drained(w)
    BY <1>1, <2>2 DEF SkipOther, Drained, Repairing, connectorVars
  <2>3. CASE Fetch(w)
    BY <1>1, <1>2, <2>3, ConnectorRepairs DEF Fetch, packVars
  <2>4. CASE FoundValid(w)
    BY <1>1, <2>4 DEF FoundValid, Checked, Repairing
  <2>5. CASE FirstInvalid(w)
    <3>1. at[w] = "ok" /\ pc[w] = "fetch" /\ NonZero(File(w))
      BY <1>2, <2>5 DEF FirstInvalid, FoundInvalid, Checked, Returned, Repairing
    <3>2. pc'[w] = "remove" /\ File(w)' = File(w) /\ ~Panicking'
      BY <1>1, <2>5 DEF FirstInvalid, FoundInvalid, Checked, File
    <3> QED
      BY <3>1, <3>2 DEF Repairing, NonZero
  <2>6. CASE SecondInvalid(w)
    <3>1. File(w) = "whole"
      BY <1>2, <2>6 DEF SecondInvalid, FoundInvalid, Checked, Returned, Repairing
    <3> QED
      BY <2>6, <3>1 DEF SecondInvalid, FoundInvalid, IsValidPackFile
  <2>7. CASE RemoveInvalid(w)
    <3>1. /\ cache' = [cache EXCEPT ![want[w]] = "none"]
          /\ at' = [at EXCEPT ![w] = "stat"] /\ want'[w] = want[w]
          /\ pc' = [pc EXCEPT ![w] = "fetch"] /\ ~Panicking'
      BY <1>1, <2>7 DEF RemoveInvalid, StartCachedGet, Call, ConnectorTypeOK
    <3>2. want[w] \in Key
      BY <1>4, <2>7 DEF RemoveInvalid, Busy
    <3> QED
      BY <1>1, <3>1, <3>2 DEF Repairing, File, ConnectorTypeOK
  <2>8. CASE RemoveFails(w)
    <3>1. File(w) # "none"
      BY <1>2, <2>8 DEF RemoveFails, Repairing
    <3> QED
      BY <2>8, <3>1 DEF RemoveFails
  <2> QED
    BY <2>1, <2>2, <2>3, <2>4, <2>5, <2>6, <2>7, <2>8 DEF WorkerStep
<1> QED
  BY <1>3, <1>5

LEMMA RInvIsInductive == RInv /\ [Next]_vars => RInv'
<1> SUFFICES ASSUME RInv, [Next]_vars PROVE RInv'
  OBVIOUS
<1>1. IInv'
  BY IInvIsInductive DEF RInv
<1>2. CASE List
  <2>1. \A w \in Client : Repairing(w)'
    BY <1>2 DEF List, Repairing
  <2> QED
    BY <1>1, <1>2, <2>1 DEF RInv, List, LeftoversAreRepaired, connectorVars, StoreIsGood
<1>3. CASE ListFails \/ Join
  <2>1. /\ phase' \in {"list", "done"} /\ UNCHANGED <<remote, crash>>
        /\ faults' # {} \/ faults' = faults
    BY <1>3 DEF ListFails, Join, NextPackSet, connectorVars
  <2> QED
    BY <1>1, <2>1 DEF RInv, LeftoversAreRepaired
<1>4. ASSUME NEW w \in Client, WorkerStep(w) PROVE RInv'
  <2>1. remote' = remote
    <3>1. CASE Fetch(w)
      BY <3>1, ConnectorStepIsLocal DEF Fetch, RInv, IInv, PackSetTypeOK
    <3>2. CASE ~Fetch(w)
      BY <1>4, <3>2 DEF WorkerStep, ReceiveIndex, SkipOther, Drained, FoundValid, FirstInvalid,
             SecondInvalid, FoundInvalid, Checked, RemoveInvalid, RemoveFails, connectorVars
    <3> QED
      BY <3>1, <3>2
  <2>2. CASE faults' = {} /\ StoreIsGood
    <3>1. ~Panicking' /\ \A v \in Client : Repairing(v)'
      BY <1>4, <2>2, WorkerRepairs
    <3> QED
      BY <1>1, <3>1 DEF RInv, LeftoversAreRepaired
  <2>3. CASE ~(faults' = {} /\ StoreIsGood)
    BY <1>1, <2>1, <2>3 DEF RInv, LeftoversAreRepaired, StoreIsGood
  <2> QED
    BY <2>2, <2>3
<1>5. CASE Crash \/ Kill \/ Restart
  <2>1. /\ phase' # "join"
        /\ ~Panicking' \/ UNCHANGED <<remote, faults, crash>>
    BY <1>5 DEF Crash, Kill, Restart, connectorVars
  <2> QED
    BY <1>1, <2>1 DEF RInv, LeftoversAreRepaired
<1>6. CASE UNCHANGED vars
  BY <1>1, <1>6 DEF RInv, vars, connectorVars, packVars, LeftoversAreRepaired, StoreIsGood,
         Repairing, File
<1> QED
  BY <1>2, <1>3, <1>4, <1>5, <1>6 DEF Next, MainStep

(***************************************************************************)
(* A process that meets no failure panics only over an index that is bad   *)
(* in the backup store: any leftovers of a process that was killed, for    *)
(* which the README has --delete-cache-directory, are repaired.            *)
(***************************************************************************)
THEOREM LeftoversNeverPanic == Spec => []LeftoversAreRepaired
<1>1. Init => RInv
  BY InitEstablishes DEF Init, RInv, LeftoversAreRepaired
<1>2. RInv /\ [Next]_vars => RInv'
  BY RInvIsInductive
<1>3. RInv => LeftoversAreRepaired
  BY DEF RInv
<1> QED
  BY <1>1, <1>2, <1>3, PTL DEF Spec
--------------------------------------------------------------------------------
(***************************************************************************)
(* As long as the disk works, a worker is never past its first look at a   *)
(* valid file, and where the connector leaves the file of a failed         *)
(* download, there is one to delete.                                       *)
(***************************************************************************)
LeavesFiles == backend = "sftp" \/ host = "windows"

Holding(w) ==
    /\ pc[w] = "fetch" /\ at[w] \in {"create", "open", "copy"} => File(w) # "whole"
    /\ pc[w] = "fetch" /\ at[w] = "copy" => Source(w) # "none"
    /\ pc[w] = "fetch" /\ at[w] \in {"open", "copy", "ok", "err"} =>
            (LeavesFiles => File(w) # "none")
    /\ pc[w] = "remove" => File(w) # "whole" /\ (LeavesFiles => File(w) # "none")

HInv ==
    /\ IInv
    /\ phase = "join" /\ "disk" \notin faults => \A w \in Client : Holding(w)

LEMMA ConnectorHolds ==
    ASSUME ConnectorTypeOK, NEW w \in Client, pc[w] = "fetch", Holding(w),
           ConnectorStep(w), "disk" \notin faults', UNCHANGED packVars
    PROVE  /\ Holding(w)'
           /\ File(w) = "whole" => File(w)' = "whole"
<1>1. UNCHANGED <<backend, host, remote, want>> /\ want[w] \in Key
  BY ConnectorStepIsLocal
<1>2. pc'[w] = "fetch" /\ Source(w)' = Source(w) /\ (LeavesFiles' <=> LeavesFiles)
  BY <1>1 DEF packVars, Source, LeavesFiles
<1>3. \A place, file : Goto(w, place, file) => at'[w] = place /\ File(w)' = file
  BY <1>1 DEF ConnectorTypeOK, Goto, File
<1>4. CASE CacheHit(w)
  BY <1>2, <1>3, <1>4 DEF CacheHit, Holding, NonZero
<1>5. CASE CacheMiss(w)
  BY <1>2, <1>3, <1>5 DEF CacheMiss, Holding, NonZero
<1>6. CASE Create(w) \/ Open(w) \/ CopySome(w)
  BY <1>2, <1>3, <1>6 DEF Create, Open, CopySome, Holding
<1>7. CASE OpenFails(w)
  <2>1. LeavesFiles => \E file \in {File(w)} : Goto(w, "err", file)
    BY <1>7 DEF OpenFails, LeavesFiles, FailsRemoving
  <2>2. at[w] = "open" /\ at'[w] = "err"
    BY <1>3, <1>7 DEF OpenFails, FailsRemoving
  <2> QED
    BY <1>2, <1>3, <2>1, <2>2 DEF Holding
<1>8. CASE CopyEnds(w)
  BY <1>2, <1>3, <1>8 DEF CopyEnds, Holding
<1>9. CASE CopyFails(w)
  <2>1. LeavesFiles => \E file \in Partial(w), place \in {"ok", "err"} : Goto(w, place, file)
    BY <1>9 DEF CopyFails, LeavesFiles, FailsRemoving
  <2>2. at[w] = "copy" /\ at'[w] \in {"ok", "err"}
    BY <1>3, <1>9 DEF CopyFails, FailsRemoving
  <2>3. LeavesFiles => \A file \in Partial(w) : file # "none"
    BY <2>2 DEF Holding, Partial
  <2> QED
    BY <1>2, <1>3, <2>1, <2>2, <2>3 DEF Holding
<1>10. CASE CreateFails(w) \/ FlushFails(w)
  BY <1>10 DEF CreateFails, FlushFails
<1> QED
  BY <1>4, <1>5, <1>6, <1>7, <1>8, <1>9, <1>10 DEF ConnectorStep

LEMMA WorkerHolds ==
    ASSUME HInv, NEW w \in Client, WorkerStep(w), "disk" \notin faults'
    PROVE  /\ phase = "join" /\ "disk" \notin faults
           /\ \A v \in Client : Holding(v) /\ Holding(v)'
           /\ \A k \in Key : cache[k] = "whole" => cache'[k] = "whole"
           /\ ~Panicking /\ Panicking' /\ LeavesFiles => pc[w] = "fetch" /\ attempt[w] = 2
<1>1. phase = "join" /\ ConnectorTypeOK /\ pc \in [Client -> {"exited", "recv", "fetch", "remove"}]
  BY DEF HInv, IInv, PackSetTypeOK, WorkerStep, ReceiveIndex, SkipOther, Drained, Fetch,
         FoundValid, FirstInvalid, SecondInvalid, FoundInvalid, Checked, RemoveInvalid,
         RemoveFails
<1>2. "disk" \notin faults
  BY DEF WorkerStep, ReceiveIndex, SkipOther, Drained, Fetch, FoundValid, FirstInvalid,
         SecondInvalid, FoundInvalid, RemoveInvalid, RemoveFails, connectorVars,
         ConnectorStep, CacheHit, CacheMiss, Create, CreateFails, Open, OpenFails,
         FailsRemoving, CopySome, CopyEnds, CopyFails, FlushFails
<1>3. \A v \in Client : Holding(v)
  BY <1>1, <1>2 DEF HInv
<1>4. UNCHANGED <<backend, host, remote>>
  <2>1. CASE Fetch(w)
    BY <1>1, <2>1, ConnectorStepIsLocal DEF Fetch
  <2>2. CASE ~Fetch(w)
    BY <2>2 DEF WorkerStep, ReceiveIndex, SkipOther, Drained, FoundValid, FirstInvalid,
                SecondInvalid, FoundInvalid, Checked, RemoveInvalid, RemoveFails, connectorVars
  <2> QED
    BY <2>1, <2>2
<1>5. ASSUME NEW v \in Client \ {w}
      PROVE  Holding(v)'
  BY <1>1, <1>3, <1>4, OthersAreUndisturbed DEF HInv, Holding, Busy, File, Source, LeavesFiles
<1>6. Busy(w) => want[w] \in Key
  BY <1>1 DEF HInv, IInv, FromThisPackSet, Indexes
<1>7. /\ Holding(w)'
      /\ \A k \in Key : cache[k] = "whole" => cache'[k] = "whole"
      /\ ~Panicking /\ Panicking' /\ LeavesFiles => pc[w] = "fetch" /\ attempt[w] = 2
  <2>1. CASE ReceiveIndex(w)
    BY <1>1, <2>1 DEF ReceiveIndex, StartCachedGet, Call, Holding, ConnectorTypeOK
  <2>2. CASE SkipOther(w) \/ Drained(w)
    BY <1>1, <2>2 DEF SkipOther, Drained, Holding, connectorVars
  <2>3. CASE Fetch(w)
    <3>1. Holding(w)' /\ (File(w) = "whole" => File(w)' = "whole")
      BY <1>1, <1>3, <2>3, ConnectorHolds DEF Fetch
    <3>2. \A k \in Key : k # want[w] => cache'[k] = cache[k]
      BY <1>1, <2>3, ConnectorStepIsLocal DEF Fetch, ConnectorTypeOK
    <3>3. want' = want /\ Panicking' = Panicking
      BY <1>1, <2>3, ConnectorStepIsLocal DEF Fetch, packVars
    <3> QED
      BY <3>1, <3>2, <3>3 DEF File
  <2>4. CASE FoundValid(w)
    BY <1>1, <2>4 DEF FoundValid, Checked, Holding
  <2>5. CASE FirstInvalid(w)
    <3>1. pc[w] = "fetch" /\ at[w] \in {"ok", "err"} /\ File(w) # "whole"
      BY <2>5 DEF FirstInvalid, FoundInvalid, Checked, Returned, IsValidPackFile
    <3>2. pc'[w] = "remove" /\ UNCHANGED <<cache, want, crash>>
      BY <1>1, <2>5 DEF FirstInvalid, FoundInvalid, Checked
    <3> QED
      BY <1>3, <1>4, <3>1, <3>2 DEF Holding, File, LeavesFiles
  <2>6. CASE SecondInvalid(w)
    BY <1>1, <2>6 DEF SecondInvalid, FoundInvalid, Checked, Panic, Holding
  <2>7. CASE RemoveInvalid(w)
    <3>1. /\ cache' = [cache EXCEPT ![want[w]] = "none"] /\ at'[w] = "stat"
          /\ pc[w] = "remove" /\ pc'[w] = "fetch" /\ ~Panicking' = ~Panicking
      BY <1>1, <2>7 DEF RemoveInvalid, StartCachedGet, Call, ConnectorTypeOK
    <3>2. File(w) # "whole"
      BY <1>3, <3>1 DEF Holding
    <3> QED
      BY <1>1, <3>1, <3>2 DEF Holding, File, ConnectorTypeOK
  <2>8. CASE RemoveFails(w)
    <3>1. pc[w] = "remove" /\ pc'[w] = "exited" /\ UNCHANGED cache /\ File(w) = "none"
      BY <1>1, <2>8 DEF RemoveFails, Panic
    <3> QED
      BY <1>3, <3>1 DEF Holding
  <2> QED
    BY <2>1, <2>2, <2>3, <2>4, <2>5, <2>6, <2>7, <2>8 DEF WorkerStep
<1> QED
  BY <1>1, <1>2, <1>3, <1>5, <1>7

LEMMA HInvIsInductive == HInv /\ [Next]_vars => HInv'
<1> SUFFICES ASSUME HInv, [Next]_vars PROVE HInv'
  OBVIOUS
<1>1. IInv'
  BY IInvIsInductive DEF HInv
<1>2. CASE List
  BY <1>1, <1>2 DEF HInv, List, Holding
<1>3. CASE ListFails \/ Join
  BY <1>1, <1>3 DEF HInv, ListFails, Join, NextPackSet
<1>4. ASSUME NEW w \in Client, WorkerStep(w) PROVE HInv'
  BY <1>1, <1>4, WorkerHolds DEF HInv
<1>5. CASE Crash \/ Kill \/ Restart
  BY <1>1, <1>5 DEF HInv, Crash, Kill, Restart
<1>6. CASE UNCHANGED vars
  BY <1>1, <1>6 DEF HInv, vars, connectorVars, packVars, Holding, File, Source, LeavesFiles
<1> QED
  BY <1>2, <1>3, <1>4, <1>5, <1>6 DEF Next, MainStep

LEMMA SpecKeepsHInv == Spec => []HInv
<1>1. Init => HInv
  BY InitEstablishes DEF Init, HInv
<1> QED
  BY <1>1, HInvIsInductive, PTL DEF Spec

(* What is not a worker's step deletes all files or none, and does not panic. *)
LEMMA OthersDoNotPanic ==
    ASSUME [Next]_vars, \A w \in Client : ~WorkerStep(w)
    PROVE  /\ UNCHANGED cache \/ (phase \in Ended /\ \A k \in Key : cache'[k] = "none")
           /\ ~Panicking => ~Panicking'
BY DEF Next, MainStep, List, Join, ListFails, Crash, Kill, Restart, vars, connectorVars, packVars

(* Nor does the step in which the disk fails lose a valid file. *)
LEMMA DiskFailureKeeps ==
    ASSUME HInv, NEW w \in Client, WorkerStep(w), "disk" \notin faults, "disk" \in faults',
           NEW k \in Key, cache[k] = "whole"
    PROVE  cache'[k] = "whole"
<1>1. CASE Fetch(w)
  <2>1. /\ phase = "join" /\ pc[w] = "fetch" /\ ConnectorTypeOK
        /\ ConnectorStep(w) /\ Holding(w)
    BY <1>1 DEF Fetch, HInv, IInv, PackSetTypeOK
  <2>2. \A l \in Key : l # want[w] => cache'[l] = cache[l]
    BY <2>1, ConnectorStepIsLocal DEF ConnectorTypeOK
  <2>3. CreateFails(w) \/ at[w] \in {"open", "copy"}
    BY <2>1 DEF ConnectorStep, CacheHit, CacheMiss, Create, Open, OpenFails, CopySome,
                CopyEnds, CopyFails, FlushFails
  <2>4. CASE CreateFails(w)
    BY <2>1, <2>2, <2>4 DEF CreateFails, Goto, File, ConnectorTypeOK
  <2>5. CASE at[w] \in {"open", "copy"}
    BY <2>1, <2>2, <2>5 DEF Holding, File
  <2> QED
    BY <2>3, <2>4, <2>5
<1>2. CASE ~Fetch(w)
  BY <1>2 DEF WorkerStep, ReceiveIndex, SkipOther, Drained, FoundValid, FirstInvalid,
              SecondInvalid, FoundInvalid, Checked, RemoveInvalid, RemoveFails, connectorVars
<1> QED
  BY <1>1, <1>2

(***************************************************************************)
(* For any keys, workers and pack sets, what is valid in the cache is not  *)
(* downloaded again nor deleted, unless the disk fails.                    *)
(***************************************************************************)
THEOREM ValidStays == Spec => ValidIsKept
<1> DEFINE Kept(k) ==
        cache[k] = "whole" /\ cache'[k] # "whole" =>
            \/ "disk" \in faults
            \/ phase \in Ended /\ \A l \in Key : cache'[l] = "none"
<1>1. HInv /\ [Next]_vars => [\A k \in Key : Kept(k)]_vars
  <2> SUFFICES ASSUME HInv, [Next]_vars, NEW k \in Key, cache[k] = "whole", cache'[k] # "whole",
                      "disk" \notin faults
               PROVE  phase \in Ended /\ \A l \in Key : cache'[l] = "none"
    OBVIOUS
  <2>1. \A w \in Client : ~WorkerStep(w)
    BY WorkerHolds, DiskFailureKeeps
  <2> QED
    BY <2>1, OthersDoNotPanic
<1> QED
  BY <1>1, SpecKeepsHInv, PTL DEF Spec, ValidIsKept

(***************************************************************************)
(* For any keys, workers and pack sets, where a failed download leaves its *)
(* file, and the disk works, no worker panics before it has asked twice.   *)
(***************************************************************************)
THEOREM LeftFilesAreRetried == Spec => RetriesWhatIsLeft
<1> DEFINE Retried ==
        /\ ~Panicking /\ Panicking' /\ "disk" \notin faults'
        /\ backend = "sftp" \/ host = "windows"
        => \E w \in Client : GivesUp(w)
<1>1. HInv /\ [Next]_vars => [Retried]_vars
  <2> SUFFICES ASSUME HInv, [Next]_vars, ~Panicking, Panicking', "disk" \notin faults',
                      LeavesFiles
               PROVE  \E w \in Client : GivesUp(w)
    BY DEF LeavesFiles
  <2>1. PICK w \in Client : WorkerStep(w)
    BY OthersDoNotPanic
  <2> QED
    BY <2>1, WorkerHolds DEF GivesUp
<1> QED
  BY <1>1, SpecKeepsHInv, PTL DEF Spec, RetriesWhatIsLeft
================================================================================
