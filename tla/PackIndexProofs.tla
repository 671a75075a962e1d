---------------------------- MODULE PackIndexProofs ----------------------------
(***************************************************************************)
(* The lookup of PackIndex, for every number of byte values, every set of  *)
(* names and whatever the cache directory holds.                           *)
(***************************************************************************)
EXTENDS PackIndex, TLAPS

(* A byte less one, where it is not zero and where it is. *)
LEMMA ByteLessOne ==
    ASSUME NEW B \in Nat \ {0}, NEW b \in 0..B - 1
    PROVE  (b - 1) % B = IF b = 0 THEN B - 1 ELSE b - 1
<1>1. CASE b = 0
  <2>1. -1 = B * (-1) + (B - 1) /\ B - 1 \in 0..B - 1
    OBVIOUS
  <2> QED
    BY <1>1, <2>1, SMTT(30)
<1>2. CASE b # 0
  BY <1>2, SMTT(30)
<1> QED
  BY <1>1, <1>2

(***************************************************************************)
(* The window of an intact index is in the file, holds every entry of an   *)
(* object whose first byte is not zero, and is empty for byte zero.        *)
(***************************************************************************)
LEMMA WindowOfIntact ==
    ASSUME NEW ix \in IndexFile, Intact(ix), target \in SHA1
    PROVE  /\ Window(ix) = Readable(ix)
           /\ Byte = 0 => Hits(ix) = {}
           /\ Byte > 0 => (Hits(ix) = {} => ~Lists(ix, target))
<1>1. /\ Byte \in 0..Bytes - 1 /\ Bytes \in Nat \ {0}
      /\ \A b \in 0..Bytes - 1 : ix.fanout[b] \in Nat
      /\ Len(ix.objects) \in Nat
      /\ \A e \in 1..Len(ix.objects) : FirstByte[ix.objects[e]] \in 0..Bytes - 1
  BY PackIndexAssumption DEF Byte, IndexFile
<1> DEFINE below == IF Byte = 0 THEN Bytes - 1 ELSE Byte - 1
<1>2. below \in 0..Bytes - 1 /\ NumberLessThanPrefix(ix) = ix.fanout[below]
  <2>1. (Byte - 1) % Bytes = IF Byte = 0 THEN Bytes - 1 ELSE Byte - 1
    BY <1>1, ByteLessOne
  <2>2. below \in 0..Bytes - 1
    BY <1>1
  <2> QED
    BY <2>1, <2>2 DEF NumberLessThanPrefix
<1> HIDE DEF below
<1>3. /\ ix.fanout[Byte] <= Len(ix.objects)
      /\ ix.fanout[below] \in Nat
      /\ \A e \in 1..Len(ix.objects) :
            /\ e <= ix.fanout[Byte] <=> FirstByte[ix.objects[e]] <= Byte
            /\ e <= ix.fanout[below] <=> FirstByte[ix.objects[e]] <= below
  <2>1. ASSUME NEW b \in 0..Bytes - 1
        PROVE  /\ ix.fanout[b] <= Len(ix.objects)
               /\ \A e \in 1..Len(ix.objects) :
                    e <= ix.fanout[b] <=> FirstByte[ix.objects[e]] <= b
    BY DEF Intact
  <2> QED
    BY <1>1, <1>2, <2>1
<1>4. Window(ix) = Readable(ix)
  BY <1>1, <1>2, <1>3 DEF Window, Readable, NumberEqualAndLessThanPrefix
<1>5. ASSUME Byte = 0 PROVE Hits(ix) = {}
  <2>1. ASSUME NEW e \in Window(ix) PROVE FALSE
    <3>1. /\ e \in Int /\ e > ix.fanout[below] /\ e <= ix.fanout[Byte]
          /\ e \in 1..Len(ix.objects)
      BY <1>1, <1>2, <1>3 DEF Window, NumberEqualAndLessThanPrefix
    <3>2. below = Bytes - 1
      BY <1>5 DEF below
    <3> QED
      BY <1>1, <1>3, <3>1, <3>2
  <2> QED
    BY <2>1 DEF Hits, Readable
<1>6. ASSUME Byte > 0, Lists(ix, target) PROVE Hits(ix) # {}
  <2>1. PICK e \in 1..Len(ix.objects) : ix.objects[e] = target
    BY <1>6 DEF Lists
  <2>2. below = Byte - 1
    BY <1>1, <1>6 DEF below
  <2>3. e <= ix.fanout[Byte] /\ ~(e <= ix.fanout[below])
    BY <1>1, <1>3, <2>1, <2>2 DEF Byte
  <2>4. e \in Window(ix)
    BY <1>1, <1>2, <1>3, <2>3 DEF Window, NumberEqualAndLessThanPrefix
  <2> QED
    BY <2>1, <2>4 DEF Hits, Readable
<1> QED
  BY <1>4, <1>5, <1>6
--------------------------------------------------------------------------------
(***************************************************************************)
(* What the loop knows after the indexes before i.                         *)
(***************************************************************************)
FoundTheLastSoFar ==
    AllIntact =>
        /\ Byte = 0 => found = Nowhere
        /\ Byte > 0 => \A j \in 1..Len(indexes) :
                j < i /\ j > found.index => ~Lists(indexes[j], target)

Ends ==
    /\ status \in {"missing", "found"} => i > Len(indexes)
    /\ status = "missing" => found = Nowhere
    /\ status = "found" => found # Nowhere

IInv ==
    /\ PackIndexTypeOK
    /\ FoundIsTarget
    /\ FoundTheLastSoFar
    /\ Ends
    /\ IntactNeverCrashes

LEMMA InitEstablishes == Init => IInv
<1> SUFFICES ASSUME Init PROVE IInv
  OBVIOUS
<1>1. indexes \in Seq(IndexFile) /\ Len(indexes) \in Nat
  BY PackIndexAssumption DEF Init
<1>2. PackIndexTypeOK
  BY <1>1 DEF Init, PackIndexTypeOK, Nowhere
<1> QED
  BY <1>1, <1>2 DEF Init, IInv, FoundIsTarget, FoundTheLastSoFar, Ends, IntactNeverCrashes

(* A scanned index leaves its successor to be scanned, or none. *)
LEMMA ScanGoesOn ==
    ASSUME IInv, Scanning, GoesOn
    PROVE  /\ i \in 1..Len(indexes) /\ i' \in 1..Len(indexes) + 1 /\ i' = i + 1
           /\ indexes[i] \in IndexFile
           /\ UNCHANGED <<indexes, target, status>>
           /\ Ends' /\ IntactNeverCrashes'
<1>1. indexes \in Seq(IndexFile) /\ i \in 1..Len(indexes) + 1 /\ Len(indexes) \in Nat
  BY DEF IInv, PackIndexTypeOK
<1>2. UNCHANGED <<indexes, target, status>> /\ i' = i + 1
  BY DEF GoesOn
<1> QED
  BY <1>1, <1>2 DEF Scanning, Ends, IntactNeverCrashes

LEMMA HitPreserves == IInv /\ Hit => IInv'
<1> SUFFICES ASSUME IInv, Hit PROVE IInv'
  OBVIOUS
<1>1. PICK e \in Hits(indexes[i]) : found' = [index |-> i, entry |-> e]
  BY DEF Hit
<1>2. /\ i \in 1..Len(indexes) /\ i' \in 1..Len(indexes) + 1 /\ i' = i + 1
      /\ indexes[i] \in IndexFile
      /\ UNCHANGED <<indexes, target, status>>
      /\ Ends' /\ IntactNeverCrashes'
  BY ScanGoesOn DEF Hit
<1>3. target \in SHA1 /\ Len(indexes) \in Nat
  BY DEF IInv, PackIndexTypeOK
<1>4. e \in 1..Len(indexes[i].objects) /\ indexes[i].objects[e] = target
  <2>1. NumberLessThanPrefix(indexes[i]) \in Nat
    <3>1. Byte \in 0..Bytes - 1 /\ Bytes \in Nat \ {0}
      BY <1>3, PackIndexAssumption DEF Byte
    <3>2. (Byte - 1) % Bytes \in 0..Bytes - 1
      BY <3>1, ByteLessOne
    <3> QED
      BY <1>2, <3>2 DEF NumberLessThanPrefix, IndexFile
  <2>2. e \in Nat \ {0} /\ e <= Len(indexes[i].objects)
    BY <2>1 DEF Hits, Readable, Window
  <2> QED
    BY <1>2, <2>2 DEF Hits, IndexFile
<1>5. PackIndexTypeOK'
  BY <1>1, <1>2, <1>4 DEF IInv, PackIndexTypeOK
<1>6. FoundIsTarget'
  BY <1>1, <1>2, <1>4 DEF FoundIsTarget
<1>7. FoundTheLastSoFar'
  <2> SUFFICES ASSUME AllIntact
               PROVE  /\ Byte # 0
                      /\ \A j \in 1..Len(indexes) : ~(j < i + 1 /\ j > i)
    BY <1>1, <1>2 DEF FoundTheLastSoFar, AllIntact, Byte
  <2>1. Intact(indexes[i])
    BY <1>2 DEF AllIntact
  <2> QED
    BY <1>1, <1>2, <1>3, <2>1, WindowOfIntact
<1> QED
  BY <1>2, <1>5, <1>6, <1>7 DEF IInv

LEMMA MissPreserves == IInv /\ Miss => IInv'
<1> SUFFICES ASSUME IInv, Miss PROVE IInv'
  OBVIOUS
<1>1. Hits(indexes[i]) = {} /\ found' = found
  BY DEF Miss
<1>2. /\ i \in 1..Len(indexes) /\ i' \in 1..Len(indexes) + 1 /\ i' = i + 1
      /\ indexes[i] \in IndexFile
      /\ UNCHANGED <<indexes, target, status>>
      /\ Ends' /\ IntactNeverCrashes'
  BY ScanGoesOn DEF Miss
<1>3. PackIndexTypeOK' /\ FoundIsTarget'
  BY <1>1, <1>2 DEF IInv, PackIndexTypeOK, FoundIsTarget
<1>4. FoundTheLastSoFar'
  <2> SUFFICES ASSUME AllIntact
               PROVE  /\ Byte = 0 => found = Nowhere
                      /\ Byte > 0 => \A j \in 1..Len(indexes) :
                            j < i + 1 /\ j > found.index => ~Lists(indexes[j], target)
    BY <1>1, <1>2 DEF FoundTheLastSoFar, AllIntact, Byte, Lists
  <2>1. Byte > 0 => ~Lists(indexes[i], target)
    BY <1>1, <1>2, WindowOfIntact DEF AllIntact, IInv, PackIndexTypeOK
  <2> QED
    BY <1>2, <2>1 DEF IInv, FoundTheLastSoFar
<1> QED
  BY <1>2, <1>3, <1>4 DEF IInv

LEMMA RunsOutPreserves == IInv /\ RunsOut => IInv'
<1> SUFFICES ASSUME IInv, RunsOut PROVE IInv'
  OBVIOUS
<1>1. ~AllIntact
  <2>1. i \in 1..Len(indexes) /\ indexes[i] \in IndexFile
    BY DEF IInv, PackIndexTypeOK, RunsOut, Scanning
  <2> QED
    BY <2>1, WindowOfIntact DEF RunsOut, AllIntact, IInv, PackIndexTypeOK
<1> QED
  BY <1>1 DEF RunsOut, IInv, PackIndexTypeOK, FoundIsTarget, FoundTheLastSoFar, Ends,
         IntactNeverCrashes, AllIntact

LEMMA EndPreserves == IInv /\ (Unreadable \/ Finish) => IInv'
<1> SUFFICES ASSUME IInv, Unreadable \/ Finish PROVE IInv'
  OBVIOUS
<1>1. CASE Unreadable
  BY <1>1 DEF Unreadable, IInv, PackIndexTypeOK, FoundIsTarget, FoundTheLastSoFar, Ends,
         IntactNeverCrashes, AllIntact, Byte
<1>2. CASE Finish
  BY <1>2 DEF Finish, IInv, PackIndexTypeOK, FoundIsTarget, FoundTheLastSoFar, Ends,
         IntactNeverCrashes, AllIntact, Byte
<1> QED
  BY <1>1, <1>2

THEOREM SpecKeepsIInv == Spec => []IInv
<1>1. Init => IInv
  BY InitEstablishes
<1>2. IInv /\ [Next]_vars => IInv'
  <2> SUFFICES ASSUME IInv, [Next]_vars PROVE IInv'
    OBVIOUS
  <2>1. CASE UNCHANGED vars
    BY <2>1 DEF vars, IInv, PackIndexTypeOK, FoundIsTarget, FoundTheLastSoFar, Ends,
           IntactNeverCrashes, AllIntact, Byte
  <2> QED
    BY <2>1, HitPreserves, MissPreserves, RunsOutPreserves, EndPreserves DEF Next
<1> QED
  BY <1>1, <1>2, PTL DEF Spec
--------------------------------------------------------------------------------
(***************************************************************************)
(* Every variable keeps its type.                                          *)
(***************************************************************************)
THEOREM TypeCorrect == Spec => []PackIndexTypeOK
<1>1. IInv => PackIndexTypeOK
  BY DEF IInv
<1> QED
  BY <1>1, SpecKeepsIInv, PTL

(***************************************************************************)
(* Whatever the index files hold, the pack is read only at an entry of the *)
(* object looked up.                                                       *)
(***************************************************************************)
THEOREM LookupIsSound == Spec => []FoundIsTarget
<1>1. IInv => FoundIsTarget
  BY DEF IInv
<1> QED
  BY <1>1, SpecKeepsIInv, PTL

(***************************************************************************)
(* Every object of an intact index is found, if its first byte is not 0.   *)
(***************************************************************************)
THEOREM LookupIsCompleteButForZero == Spec => []NonZeroIsNotMissed
<1>1. IInv => NonZeroIsNotMissed
  BY DEF IInv, NonZeroIsNotMissed, FoundTheLastSoFar, Ends, Nowhere, PackIndexTypeOK
<1> QED
  BY <1>1, SpecKeepsIInv, PTL

(***************************************************************************)
(* Of several packs that have the object, the last one is read.            *)
(***************************************************************************)
THEOREM LastIndexIsRead == Spec => []LastIndexWins
<1>1. IInv => LastIndexWins
  <2> SUFFICES ASSUME IInv, status = "found", AllIntact,
                      NEW j \in 1..Len(indexes), j > found.index
               PROVE  ~Lists(indexes[j], target)
    BY DEF LastIndexWins
  <2>1. Byte \in Nat
    BY PackIndexAssumption DEF IInv, PackIndexTypeOK, Byte
  <2>2. Byte > 0 /\ j < i
    BY <2>1 DEF IInv, FoundTheLastSoFar, Ends, PackIndexTypeOK
  <2> QED
    BY <2>2 DEF IInv, FoundTheLastSoFar
<1> QED
  BY <1>1, SpecKeepsIInv, PTL

(***************************************************************************)
(* Intact indexes never crash the lookup, not even for byte 0.             *)
(***************************************************************************)
THEOREM IntactIndexesAreSafe == Spec => []IntactNeverCrashes
<1>1. IInv => IntactNeverCrashes
  BY DEF IInv
<1> QED
  BY <1>1, SpecKeepsIInv, PTL
================================================================================
