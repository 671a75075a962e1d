---------------------------- MODULE DiscoveryProofs ----------------------------
(***************************************************************************)
(* What a command finds, for any backup sets and buckets, any files that   *)
(* are bad from the start and any accidents.                               *)
(***************************************************************************)
EXTENDS Discovery, TLAPS

Reading == {"salt", "info", "list", "plist", "head"}

(* Which files are files. *)
LEMMA Files ==
    /\ \A s \in BackupSet : <<s, "salt">> \in File /\ <<s, "computerinfo">> \in File
    /\ \A b \in Bucket : <<b, "plist">> \in File /\ <<b, "head">> \in File
BY DEF File

(* What one download gives. *)
LEMMA GetGives ==
    ASSUME DiscoveryTypeOK, NEW f \in File, NEW got \in Get(f)
    PROVE  /\ got.read \in Content /\ got.file \in Content
           /\ got.how \in {"downloaded", "failed"}
           /\ got.how # "failed" => got.read = store[f] /\ got.file = store[f]
BY DEF DiscoveryTypeOK, Get, Outcome, Content

(* What one read gives, and what it leaves of the others. *)
LEMMA CachedGetGives ==
    ASSUME DiscoveryTypeOK, NEW f \in File, NEW got \in CachedGet(f)
    PROVE  /\ got.read \in Content /\ got.file \in Content
           /\ cached[f] # "none" => got.read = cached[f] /\ got.file = cached[f]
           /\ cached[f] = "none" /\ got.how # "failed" => got.read = store[f] /\ got.file = store[f]
<1>1. CASE cached[f] # "none"
  BY <1>1 DEF DiscoveryTypeOK, CachedGet, Outcome, Content
<1>2. CASE cached[f] = "none"
  BY <1>2, GetGives DEF CachedGet
<1> QED
  BY <1>1, <1>2

(***************************************************************************)
(* A read without an accident gives what is cached, or else stored.  What  *)
(* is cached stays, and so do the other files.                             *)
(***************************************************************************)
ReadGives(f, contents) ==
    /\ contents \in Content
    /\ cached' \in [File -> Content] /\ accident' \in BOOLEAN
    /\ accident => accident'
    /\ \A g \in File \ {f} : cached'[g] = cached[g]
    /\ cached[f] # "none" => contents = cached[f] /\ cached'[f] = cached[f]
    /\ cached[f] = "none" /\ ~accident' => contents = store[f] /\ cached'[f] = store[f]

LEMMA ReadsGives ==
    ASSUME DiscoveryTypeOK, NEW f \in File, NEW contents, Reads(f, contents)
    PROVE  ReadGives(f, contents)
<1>1. PICK got \in CachedGet(f) : got.read = contents /\ Done(f, got)
  BY DEF Reads
<1>2. /\ got.read \in Content /\ got.file \in Content
      /\ cached[f] # "none" => got.read = cached[f] /\ got.file = cached[f]
      /\ cached[f] = "none" /\ got.how # "failed" => got.read = store[f] /\ got.file = store[f]
  BY CachedGetGives
<1>3. cached' = [cached EXCEPT ![f] = got.file] /\ accident' = (accident \/ got.how = "failed")
  BY <1>1 DEF Done
<1>4. cached \in [File -> Content] /\ accident \in BOOLEAN
  BY DEF DiscoveryTypeOK
<1>5. /\ cached' \in [File -> Content]
      /\ cached'[f] = got.file
      /\ \A g \in File \ {f} : cached'[g] = cached[g]
  BY <1>2, <1>3, <1>4
<1>6. accident' \in BOOLEAN /\ (accident => accident') /\ (~accident' => got.how # "failed")
  BY <1>2, <1>3, <1>4
<1> QED
  BY <1>1, <1>2, <1>5, <1>6 DEF ReadGives
--------------------------------------------------------------------------------
(***************************************************************************)
(* The types rest on the order of things: nothing is in the result before  *)
(* the folders are listed, no bucket is read before they are, and a backup *)
(* set that is being read is none of those to be looked at.                *)
(***************************************************************************)
InOrder ==
    /\ at = "start" => listed = {}
    /\ at \in {"salt", "info", "list"} => bucket = NoBucket
    /\ at \in Reading => current \notin todo

TypeInv == DiscoveryTypeOK /\ InOrder

LEMMA TypeInit == Init => TypeInv
<1> SUFFICES ASSUME Init PROVE TypeInv
  OBVIOUS
<1>1. store \in [File -> Content] /\ cached \in [File -> Content]
  BY DiscoveryAssumption DEF Init, Content
<1>2. current \in BackupSet
  BY DiscoveryAssumption DEF Init
<1> QED
  BY <1>1, <1>2 DEF Init, TypeInv, InOrder, Reading, DiscoveryTypeOK, Content

LEMMA TypeStep == TypeInv /\ [Next]_vars => TypeInv'
<1> SUFFICES ASSUME TypeInv, [Next]_vars PROVE TypeInv'
  OBVIOUS
<1> USE DEF TypeInv, InOrder, Reading, DiscoveryTypeOK, Goes, World, Results, Position, Ended
<1>1. CASE ListFolders
  BY <1>1 DEF ListFolders, BucketsOf
<1>2. CASE ListFoldersFails
  BY <1>2 DEF ListFoldersFails, Accident, BucketsOf
<1>3. CASE StartSet
  BY <1>3 DEF StartSet, BucketsOf
<1>4. CASE ReadSalt
  <2>1. PICK contents \in Content : /\ ReadGives(<<current, "salt">>, contents)
                                    /\ salt' = [salt EXCEPT ![current] = contents]
    BY <1>4, Files, ReadsGives DEF ReadSalt
  <2> QED
    BY <1>4, <2>1, Files DEF ReadSalt, ReadGives, BucketsOf
<1>5. CASE ReadEmptySalt
  BY <1>5 DEF ReadEmptySalt, Accident, Content, BucketsOf
<1>6. CASE ReadSaltFails
  <2>1. ReadGives(<<current, "salt">>, "none")
    BY <1>6, Files, ReadsGives DEF ReadSaltFails
  <2> QED
    BY <1>6, <2>1, Files DEF ReadSaltFails, NextFolder, ReadGives, BucketsOf
<1>7. CASE ReadComputerInfo
  <2>1. ReadGives(<<current, "computerinfo">>, "whole")
    BY <1>7, Files, ReadsGives DEF ReadComputerInfo
  <2> QED
    BY <1>7, <2>1, Files DEF ReadComputerInfo, ReadGives, BucketsOf
<1>8. CASE ReadComputerInfoFails
  <2>1. \E contents : ReadGives(<<current, "computerinfo">>, contents)
    BY <1>8, Files, ReadsGives DEF ReadComputerInfoFails
  <2> QED
    BY <1>8, <2>1, Files DEF ReadComputerInfoFails, NextFolder, ReadGives, BucketsOf
<1>9. CASE ListBuckets
  <2>1. \A s \in BackupSet : BucketsOf(s) \subseteq Bucket
    BY DEF BucketsOf
  <2> QED
    BY <1>9, <2>1, DiscoveryAssumption DEF ListBuckets, BucketsOf, DiscoveryAssumption
<1>10. CASE ListBucketsFails
  BY <1>10 DEF ListBucketsFails, NextFolder, Accident, BucketsOf
<1>11. CASE ReadPlist
  <2>1. PICK b \in left : /\ ReadGives(<<b, "plist">>, "whole")
                          /\ left' = left \ {b} /\ bucket' = b
    <3>1. \A b \in left : b \in Bucket
      BY DEF BucketsOf
    <3> QED
      BY <1>11, <3>1, Files, ReadsGives DEF ReadPlist
  <2> QED
    BY <1>11, <2>1, Files DEF ReadPlist, ReadGives, BucketsOf
<1>12. CASE UpdateHead
  <2>1. bucket \in Bucket
    BY <1>12 DEF UpdateHead, BucketsOf
  <2>2. PICK got \in Get(<<bucket, "head">>) :
            /\ Done(<<bucket, "head">>, got)
            /\ head' = [head EXCEPT ![bucket] =
                    IF got.read # "whole" THEN "zero"
                    ELSE IF got.how = "hit" /\ bucket \in stale THEN "old" ELSE "latest"]
            /\ stale' = IF got.how = "hit" THEN stale ELSE stale \ {bucket}
    BY <1>12 DEF UpdateHead, AsksForHead
  <2>3. got.file \in Content /\ got.how # "hit"
    BY <2>1, <2>2, Files, GetGives
  <2>4. /\ cached' = [cached EXCEPT ![<<bucket, "head">>] = got.file]
        /\ accident' \in BOOLEAN
        /\ stale' = stale \ {bucket}
    BY <2>2, <2>3 DEF Done
  <2>5. /\ cached' \in [File -> Content]
        /\ \A b \in Bucket \ {bucket} : cached'[<<b, "head">>] = cached[<<b, "head">>]
    BY <2>1, <2>3, <2>4, Files
  <2>6. found' \in [BackupSet -> SUBSET Bucket] /\ head' \in [Bucket -> {"zero", "old", "latest"}]
    BY <1>12, <2>1, <2>2 DEF UpdateHead
  <2> QED
    BY <1>12, <2>4, <2>5, <2>6 DEF UpdateHead, BucketsOf
<1>13. CASE NewBucketFails
  <2>1. \E b \in Bucket : \E contents : ReadGives(<<b, "plist">>, contents)
    BY <1>13, Files, ReadsGives DEF NewBucketFails, BucketsOf
  <2> QED
    BY <1>13, <2>1, Files DEF NewBucketFails, NextFolder, ReadGives, BucketsOf
<1>14. CASE Crash
  <2>1. \E f \in File : f \notin {<<b, "head">> : b \in Bucket} /\ ReadGives(f, "damaged")
    <3>1. CASE Reads(<<current, "computerinfo">>, "damaged")
      BY <3>1, Files, ReadsGives
    <3>2. ASSUME NEW b \in left, Reads(<<b, "plist">>, "damaged")
          PROVE  \E f \in File : f \notin {<<c, "head">> : c \in Bucket} /\ ReadGives(f, "damaged")
      <4>1. b \in Bucket
        BY <3>2 DEF BucketsOf
      <4> QED
        BY <3>2, <4>1, Files, ReadsGives
    <3> QED
      BY <1>14, <3>1, <3>2 DEF Crash
  <2> QED
    BY <1>14, <2>1, Files DEF Crash, ReadGives, BucketsOf
<1>15. CASE SetIsRead
  BY <1>15 DEF SetIsRead, NextFolder, BucketsOf
<1>16. CASE Finish
  BY <1>16 DEF Finish, BucketsOf
<1>17. CASE Rerun
  <2>1. cached' \in [File -> Content] /\ stale' \subseteq {b \in Bucket : cached'[<<b, "head">>] # "none"}
    BY <1>17 DEF Rerun, Content
  <2> QED
    BY <1>17, <2>1 DEF Rerun, Content, BucketsOf
<1>18. CASE ArqBacksUp
  BY <1>18 DEF ArqBacksUp, BucketsOf
<1>19. CASE UNCHANGED vars
  BY <1>19 DEF vars, BucketsOf
<1> QED
  BY <1>1, <1>2, <1>3, <1>4, <1>5, <1>6, <1>7, <1>8, <1>9, <1>10, <1>11, <1>12,
     <1>13, <1>14, <1>15, <1>16, <1>17, <1>18, <1>19 DEF Next, Step

(***************************************************************************)
(* Every variable keeps its range: only what is cached is a stale head,    *)
(* and no backup set is in the result before it was looked at.             *)
(***************************************************************************)
THEOREM TypeCorrect == Spec => []DiscoveryTypeOK
BY TypeInit, TypeStep, PTL DEF Spec, TypeInv
--------------------------------------------------------------------------------
(***************************************************************************)
(* The buckets found of the backup set that is being read are those that   *)
(* are not left, so that none is missing when it gets into the result; one *)
(* that is still to be looked at has none from before.                     *)
(***************************************************************************)
FoundSoFar ==
    /\ \A s \in todo : found[s] = {}
    /\ at = "start" => \A s \in BackupSet : found[s] = {}
    /\ at \in {"salt", "info", "list"} => found[current] = {}
    /\ at = "plist" => found[current] = BucketsOf(current) \ left
    /\ at = "head" => found[current] = BucketsOf(current) \ (left \cup {bucket})
    /\ at \in Reading => current \notin listed
    /\ ListedIsComplete

(* Each head that was read is as HeadsAreFresh has it. *)
Fresh(b) ==
    \/ head[b] = "latest"
    \/ head[b] = "zero" /\ (accident \/ store[<<b, "head">>] # "whole")

FoundAreFresh == \A s \in BackupSet : \A b \in found[s] : Fresh(b)

FoundInv == TypeInv /\ FoundSoFar /\ FoundAreFresh

(* A step that finds nothing and only forgets no accident. *)
LEMMA FreshStays ==
    ASSUME FoundAreFresh, UNCHANGED <<store, head, found>>, accident => accident'
    PROVE  FoundAreFresh'
BY DEF FoundAreFresh, Fresh

LEMMA FoundStep == FoundInv /\ [Next]_vars => FoundSoFar' /\ FoundAreFresh'
<1> SUFFICES ASSUME FoundInv, [Next]_vars PROVE FoundSoFar' /\ FoundAreFresh'
  OBVIOUS
<1>a. TypeInv /\ FoundSoFar /\ FoundAreFresh /\ DiscoveryTypeOK
  BY DEF FoundInv, TypeInv
<1> USE DEF FoundSoFar, ListedIsComplete, Reading, Goes, World, Results, Position
<1>1. CASE ListFolders
  BY <1>1, <1>a, FreshStays DEF ListFolders, TypeInv, InOrder
<1>2. CASE ListFoldersFails
  BY <1>2, <1>a, FreshStays DEF ListFoldersFails, Accident
<1>3. CASE StartSet
  BY <1>3, <1>a, FreshStays DEF StartSet, DiscoveryTypeOK
<1>4. CASE ReadSalt
  <2>1. accident => accident'
    BY <1>4, <1>a, Files, ReadsGives DEF ReadSalt, ReadGives, DiscoveryTypeOK
  <2> QED
    BY <1>4, <1>a, <2>1, FreshStays DEF ReadSalt
<1>5. CASE ReadEmptySalt
  BY <1>5, <1>a, FreshStays DEF ReadEmptySalt, Accident
<1>6. CASE ReadSaltFails
  <2>1. accident => accident'
    BY <1>6, <1>a, Files, ReadsGives DEF ReadSaltFails, ReadGives, DiscoveryTypeOK
  <2> QED
    BY <1>6, <1>a, <2>1, FreshStays DEF ReadSaltFails, NextFolder
<1>7. CASE ReadComputerInfo
  <2>1. accident => accident'
    BY <1>7, <1>a, Files, ReadsGives DEF ReadComputerInfo, ReadGives, DiscoveryTypeOK
  <2> QED
    BY <1>7, <1>a, <2>1, FreshStays DEF ReadComputerInfo
<1>8. CASE ReadComputerInfoFails
  <2>1. accident => accident'
    BY <1>8, <1>a, Files, ReadsGives DEF ReadComputerInfoFails, ReadGives, DiscoveryTypeOK
  <2> QED
    BY <1>8, <1>a, <2>1, FreshStays DEF ReadComputerInfoFails, NextFolder
<1>9. CASE ListBuckets
  BY <1>9, <1>a, FreshStays DEF ListBuckets
<1>10. CASE ListBucketsFails
  BY <1>10, <1>a, FreshStays DEF ListBucketsFails, NextFolder, Accident
<1>11. CASE ReadPlist
  <2>1. PICK b \in left : Reads(<<b, "plist">>, "whole") /\ left' = left \ {b} /\ bucket' = b
    BY <1>11 DEF ReadPlist
  <2>2. b \in BucketsOf(current) /\ b \in Bucket
    BY <1>a, <2>1 DEF DiscoveryTypeOK, BucketsOf
  <2>3. accident => accident'
    BY <1>a, <2>1, <2>2, Files, ReadsGives DEF ReadGives
  <2>4. found[current] = BucketsOf(current) \ (left' \cup {bucket'})
    BY <1>11, <1>a, <2>1, <2>2 DEF ReadPlist
  <2>5. BucketsOf(current)' = BucketsOf(current) /\ UNCHANGED current
    BY <1>11 DEF ReadPlist, BucketsOf
  <2> QED
    BY <1>11, <1>a, <2>3, <2>4, <2>5, FreshStays DEF ReadPlist, BucketsOf
<1>12. CASE UpdateHead
  <2>1. bucket \in BucketsOf(current) /\ bucket \in Bucket /\ bucket \notin left
    BY <1>12, <1>a DEF UpdateHead, DiscoveryTypeOK, BucketsOf
  <2>2. /\ current \in BackupSet /\ current \notin todo /\ current \notin listed
        /\ found \in [BackupSet -> SUBSET Bucket] /\ todo \subseteq BackupSet
        /\ listed \subseteq BackupSet
        /\ found[current] = BucketsOf(current) \ (left \cup {bucket})
        /\ head \in [Bucket -> {"zero", "old", "latest"}]
    BY <1>12, <1>a DEF UpdateHead, DiscoveryTypeOK, TypeInv, InOrder
  <2>3. /\ found' = [found EXCEPT ![current] = @ \cup {bucket}]
        /\ UNCHANGED <<todo, current, left, bucket, listed, store>>
        /\ at' = "plist"
    BY <1>12 DEF UpdateHead
  <2>4. found'[current] = BucketsOf(current) \ left
    BY <2>1, <2>2, <2>3
  <2>5. FoundSoFar'
    BY <1>a, <2>2, <2>3, <2>4 DEF BucketsOf
  <2>6. PICK got \in Get(<<bucket, "head">>) :
            /\ Done(<<bucket, "head">>, got)
            /\ head' = [head EXCEPT ![bucket] =
                    IF got.read # "whole" THEN "zero"
                    ELSE IF got.how = "hit" /\ bucket \in stale THEN "old" ELSE "latest"]
    BY <1>12 DEF UpdateHead, AsksForHead
  <2>7. /\ got.how # "hit"
        /\ got.how # "failed" => got.read = store[<<bucket, "head">>]
    BY <1>a, <2>1, <2>6, Files, GetGives
  <2>8. accident' = (accident \/ got.how = "failed")
    BY <2>6 DEF Done
  <2>9. Fresh(bucket)'
    <3>1. head'[bucket] = IF got.read # "whole" THEN "zero" ELSE "latest"
      BY <2>1, <2>2, <2>6, <2>7
    <3> QED
      BY <2>3, <2>7, <2>8, <3>1 DEF Fresh
  <2>10. ASSUME NEW b \in Bucket, b # bucket, Fresh(b)
         PROVE  Fresh(b)'
    BY <2>2, <2>3, <2>6, <2>8, <2>10 DEF Fresh
  <2>11. \A s \in BackupSet : found'[s] \subseteq found[s] \cup {bucket} /\ found[s] \subseteq Bucket
    BY <2>2, <2>3
  <2>12. FoundAreFresh'
    <3> SUFFICES ASSUME NEW s \in BackupSet, NEW b \in found'[s]
                 PROVE  Fresh(b)'
      BY DEF FoundAreFresh
    <3>1. CASE b = bucket
      BY <2>3, <2>9, <3>1 DEF Fresh
    <3>2. CASE b # bucket
      <4>1. b \in found[s] /\ b \in Bucket
        BY <2>1, <2>11, <3>2
      <4>2. Fresh(b)
        BY <1>a, <4>1 DEF FoundAreFresh
      <4> QED
        BY <2>10, <3>2, <4>1, <4>2
    <3> QED
      BY <3>1, <3>2
  <2> QED
    BY <2>5, <2>12
<1>13. CASE NewBucketFails
  <2>1. PICK b \in left, contents \in {"none", "damaged"} : Reads(<<b, "plist">>, contents)
    BY <1>13 DEF NewBucketFails
  <2>2. b \in Bucket
    BY <1>a, <2>1 DEF DiscoveryTypeOK, BucketsOf
  <2>3. accident => accident'
    BY <1>a, <2>1, <2>2, Files, ReadsGives DEF ReadGives
  <2> QED
    BY <1>13, <1>a, <2>3, FreshStays DEF NewBucketFails, NextFolder, BucketsOf
<1>14. CASE Crash
  <2>1. accident => accident'
    <3>1. CASE Reads(<<current, "computerinfo">>, "damaged")
      BY <1>a, <3>1, Files, ReadsGives DEF ReadGives, DiscoveryTypeOK
    <3>2. ASSUME NEW b \in left, Reads(<<b, "plist">>, "damaged")
          PROVE  accident => accident'
      <4>1. b \in Bucket
        BY <1>a, <3>2 DEF DiscoveryTypeOK, BucketsOf
      <4> QED
        BY <1>a, <3>2, <4>1, Files, ReadsGives DEF ReadGives
    <3> QED
      BY <1>14, <3>1, <3>2 DEF Crash
  <2> QED
    BY <1>14, <1>a, <2>1, FreshStays DEF Crash, BucketsOf
<1>15. CASE SetIsRead
  <2>1. found[current] = BucketsOf(current) /\ listed' = listed \cup {current}
    BY <1>15, <1>a DEF SetIsRead
  <2> QED
    BY <1>15, <1>a, <2>1, FreshStays DEF SetIsRead, NextFolder, BucketsOf
<1>16. CASE Finish
  <2>1. at' \in {"listed", "opened", "missing"} /\ UNCHANGED <<Position, Results, store, accident>>
    BY <1>16 DEF Finish
  <2> QED
    BY <1>a, <2>1, FreshStays DEF BucketsOf
<1>17. CASE Rerun
  BY <1>17 DEF Rerun, FoundAreFresh
<1>18. CASE ArqBacksUp
  BY <1>18, <1>a, FreshStays DEF ArqBacksUp, BucketsOf
<1>19. CASE UNCHANGED vars
  BY <1>19, <1>a, FreshStays DEF vars, BucketsOf
<1> QED
  BY <1>1, <1>2, <1>3, <1>4, <1>5, <1>6, <1>7, <1>8, <1>9, <1>10, <1>11, <1>12,
     <1>13, <1>14, <1>15, <1>16, <1>17, <1>18, <1>19 DEF Next, Step

LEMMA SpecKeepsFoundInv == Spec => []FoundInv
<1>1. Init => FoundInv
  <2> SUFFICES ASSUME Init PROVE FoundSoFar /\ FoundAreFresh
    BY TypeInit DEF FoundInv
  <2>1. \A s \in BackupSet : found[s] = {}
    BY DEF Init
  <2> QED
    BY <2>1 DEF Init, FoundSoFar, FoundAreFresh, Reading, ListedIsComplete
<1>2. FoundInv /\ [Next]_vars => FoundInv'
  BY TypeStep, FoundStep DEF FoundInv
<1> QED
  BY <1>1, <1>2, PTL DEF Spec

(***************************************************************************)
(* No backup set gets into the result with a bucket missing, however many  *)
(* there are and whatever fails.                                           *)
(***************************************************************************)
THEOREM ResultIsComplete == Spec => []ListedIsComplete
<1>1. FoundInv => ListedIsComplete
  BY DEF FoundInv, FoundSoFar
<1> QED
  BY <1>1, SpecKeepsFoundInv, PTL

(***************************************************************************)
(* No head in the result is an old one, though Arq completes backups and   *)
(* earlier commands have left theirs in the cache.                         *)
(***************************************************************************)
THEOREM ResultIsFresh == Spec => []HeadsAreFresh
<1>1. FoundInv => HeadsAreFresh
  BY DEF FoundInv, TypeInv, DiscoveryTypeOK, FoundAreFresh, Fresh, HeadsAreFresh
<1> QED
  BY <1>1, SpecKeepsFoundInv, PTL
--------------------------------------------------------------------------------
(***************************************************************************)
(* Without an accident, a good backup set that was looked at is in the     *)
(* result, or being read, with its salt.                                   *)
(***************************************************************************)
Seen(s) ==
    \/ s \in listed /\ salt[s] = "whole"
    \/ s = current /\ at \in Reading /\ (at # "salt" => salt[s] = "whole")

NotHidden ==
    ~accident /\ at \notin {"start", "failed", "crashed"} =>
        \A s \in BackupSet \ todo : Good(s) => Seen(s)

NoneLeft == at \in {"listed", "opened", "missing"} => todo = {}

HiddenInv == FoundInv /\ NotHidden /\ NoneLeft /\ MissingHasCause

(* No read makes a backup set good. *)
LEMMA GoodBefore ==
    ASSUME DiscoveryTypeOK, NEW f \in File, NEW contents, ReadGives(f, contents),
           UNCHANGED store, NEW s \in BackupSet, Good(s)'
    PROVE  Good(s)
<1>1. \A g \in File : cached[g] = "damaged" => cached'[g] = "damaged"
  BY DEF ReadGives, DiscoveryTypeOK
<1> QED
  BY <1>1 DEF Good, BucketsOf

(* Of a good backup set, and without an accident, every read is good. *)
LEMMA GoodIsRead ==
    ASSUME DiscoveryTypeOK, NEW f \in File, NEW contents, ReadGives(f, contents),
           ~accident', NEW s \in BackupSet, Good(s),
           f[1] = s \/ f[1] \in BucketsOf(s), f[2] # "head"
    PROVE  contents = "whole"
<1>1. store[f] = "whole" /\ cached[f] # "damaged" /\ cached[f] \in Content
  BY DEF Good, DiscoveryTypeOK
<1> QED
  BY <1>1 DEF ReadGives, Content

(* The steps that only read, and go on with the same backup set. *)
LEMMA ReadingOn ==
    ASSUME HiddenInv, NEW f \in File, NEW contents, ReadGives(f, contents),
           at \in Reading, at' \in Reading \ {"salt"}, salt[current]' = "whole" \/ ~Good(current),
           UNCHANGED <<store, todo, current, listed>>,
           \A s \in BackupSet \ {current} : salt'[s] = salt[s]
    PROVE  NotHidden' /\ NoneLeft' /\ MissingHasCause'
<1>1. DiscoveryTypeOK
  BY DEF HiddenInv, FoundInv, TypeInv
<1>2. ASSUME ~accident', NEW s \in BackupSet \ todo, Good(s)'
      PROVE  Seen(s)'
  <2>1. Good(s) /\ ~accident
    BY <1>1, <1>2, GoodBefore DEF ReadGives
  <2>2. Seen(s)
    BY <1>2, <2>1 DEF HiddenInv, NotHidden, Reading
  <2>3. s # current => Seen(s)'
    BY <2>2 DEF Seen
  <2>4. s = current => Seen(s)'
    BY <2>1 DEF Seen
  <2> QED
    BY <2>3, <2>4
<1> QED
  BY <1>2 DEF NotHidden, NoneLeft, MissingHasCause, Reading

(* A step that gives a backup set up. *)
LEMMA GivingUp ==
    ASSUME HiddenInv, NEW f \in File, NEW contents, ReadGives(f, contents),
           contents # "whole", f[1] = current \/ f[1] \in BucketsOf(current), f[2] # "head",
           at \in Reading, at' = "folders",
           UNCHANGED <<store, todo, current, listed, salt>>
    PROVE  NotHidden' /\ NoneLeft' /\ MissingHasCause'
<1>1. DiscoveryTypeOK
  BY DEF HiddenInv, FoundInv, TypeInv
<1>2. ASSUME ~accident', NEW s \in BackupSet \ todo, Good(s)'
      PROVE  Seen(s)'
  <2>1. Good(s) /\ ~accident
    BY <1>1, <1>2, GoodBefore DEF ReadGives
  <2>2. Seen(s)
    BY <1>2, <2>1 DEF HiddenInv, NotHidden, Reading
  <2>3. s # current
    BY <1>1, <1>2, <2>1, GoodIsRead
  <2> QED
    BY <2>2, <2>3 DEF Seen
<1> QED
  BY <1>2 DEF NotHidden, NoneLeft, MissingHasCause, Reading

LEMMA HiddenStep ==
    HiddenInv /\ [Next]_vars => NotHidden' /\ NoneLeft' /\ MissingHasCause'
<1> SUFFICES ASSUME HiddenInv, [Next]_vars
             PROVE  NotHidden' /\ NoneLeft' /\ MissingHasCause'
  OBVIOUS
<1>a. /\ TypeInv /\ DiscoveryTypeOK /\ FoundSoFar
      /\ NotHidden /\ NoneLeft /\ MissingHasCause
  BY DEF HiddenInv, FoundInv, TypeInv
<1>b. current \in BackupSet /\ salt \in [BackupSet -> Content]
  BY <1>a DEF DiscoveryTypeOK
<1> USE DEF Goes, World, Results, Position
(* With an accident there is nothing to show. *)
<1>c. ASSUME accident' = TRUE, at' \notin {"listed", "opened", "missing"}
      PROVE  NotHidden' /\ NoneLeft' /\ MissingHasCause'
  BY <1>c DEF NotHidden, NoneLeft, MissingHasCause
<1>1. CASE ListFolders
  BY <1>1 DEF ListFolders, NotHidden, NoneLeft, MissingHasCause
<1>2. CASE ListFoldersFails
  BY <1>2, <1>c DEF ListFoldersFails, Accident
<1>3. CASE StartSet
  <2>1. /\ UNCHANGED <<store, cached, accident, listed, salt>>
        /\ at = "folders" /\ at' = "salt"
        /\ current' \in todo /\ todo' = todo \ {current'}
    BY <1>3 DEF StartSet
  <2>2. ASSUME ~accident', NEW s \in BackupSet \ todo', Good(s)'
        PROVE  Seen(s)'
    <3>1. Good(s) /\ ~accident
      BY <2>1, <2>2 DEF Good, BucketsOf
    <3>2. CASE s \in todo
      BY <2>1, <2>2, <3>2 DEF Seen, Reading
    <3>3. CASE s \notin todo
      BY <1>a, <2>1, <2>2, <3>1, <3>3 DEF NotHidden, Seen, Reading
    <3> QED
      BY <3>2, <3>3
  <2> QED
    BY <2>1, <2>2 DEF NotHidden, NoneLeft, MissingHasCause
<1>4. CASE ReadSalt
  <2>1. PICK contents \in Content : /\ ReadGives(<<current, "salt">>, contents)
                                    /\ salt' = [salt EXCEPT ![current] = contents]
    BY <1>4, <1>a, <1>b, Files, ReadsGives DEF ReadSalt
  <2>2. CASE ~accident' /\ Good(current)
    <3>1. contents = "whole"
      BY <1>a, <1>b, <2>1, <2>2, Files, GoodIsRead
    <3>2. salt'[current] = "whole" /\ \A s \in BackupSet \ {current} : salt'[s] = salt[s]
      BY <1>b, <2>1, <3>1
    <3>3. salt[current]' = "whole"
      BY <1>4, <3>2 DEF ReadSalt
    <3> QED
      BY <1>4, <1>b, <2>1, <3>2, <3>3, Files, ReadingOn DEF ReadSalt, Reading
  <2>3. CASE ~Good(current)
    <3>1. \A s \in BackupSet \ {current} : salt'[s] = salt[s]
      BY <1>b, <2>1
    <3> QED
      BY <1>4, <1>b, <2>1, <2>3, <3>1, Files, ReadingOn DEF ReadSalt, Reading
  <2>4. CASE accident'
    BY <1>4, <2>4 DEF ReadSalt, NotHidden, NoneLeft, MissingHasCause
  <2> QED
    BY <2>2, <2>3, <2>4
<1>5. CASE ReadEmptySalt
  BY <1>5, <1>c DEF ReadEmptySalt, Accident
<1>6. CASE ReadSaltFails
  <2>1. ReadGives(<<current, "salt">>, "none")
    BY <1>6, <1>a, <1>b, Files, ReadsGives DEF ReadSaltFails
  <2> QED
    BY <1>6, <1>b, <2>1, Files, GivingUp DEF ReadSaltFails, NextFolder, Reading
(* What is known of the salt once it was read. *)
<1>d. ASSUME at \in Reading \ {"salt"}, ~accident, Good(current)
      PROVE  salt[current] = "whole"
  <2>1. current \notin todo /\ current \notin listed
    BY <1>a, <1>d DEF TypeInv, InOrder, FoundSoFar
  <2> QED
    BY <1>a, <1>b, <1>d, <2>1 DEF NotHidden, Seen, Reading
<1>7. CASE ReadComputerInfo
  <2>1. ReadGives(<<current, "computerinfo">>, "whole")
    BY <1>7, <1>a, <1>b, Files, ReadsGives DEF ReadComputerInfo
  <2>2. CASE ~accident
    BY <1>7, <1>b, <1>d, <2>1, <2>2, Files, ReadingOn DEF ReadComputerInfo, Reading
  <2>3. CASE accident
    BY <1>7, <2>1, <2>3 DEF ReadComputerInfo, ReadGives, NotHidden, NoneLeft, MissingHasCause
  <2> QED
    BY <2>2, <2>3
<1>8. CASE ReadComputerInfoFails
  <2>1. PICK contents \in {"none", "damaged"} : ReadGives(<<current, "computerinfo">>, contents)
    BY <1>8, <1>a, <1>b, Files, ReadsGives DEF ReadComputerInfoFails
  <2> QED
    BY <1>8, <1>b, <2>1, Files, GivingUp DEF ReadComputerInfoFails, NextFolder, Reading
<1>9. CASE ListBuckets
  <2>1. /\ UNCHANGED <<store, cached, accident, listed, salt, todo, current>>
        /\ at = "list" /\ at' = "plist"
    BY <1>9 DEF ListBuckets
  <2> QED
    BY <1>a, <2>1 DEF NotHidden, NoneLeft, MissingHasCause, Seen, Reading, Good, BucketsOf
<1>10. CASE ListBucketsFails
  BY <1>10, <1>c DEF ListBucketsFails, NextFolder, Accident
<1>11. CASE ReadPlist
  <2>1. PICK b \in left : Reads(<<b, "plist">>, "whole")
    BY <1>11 DEF ReadPlist
  <2>2. b \in Bucket
    BY <1>a, <2>1 DEF DiscoveryTypeOK, BucketsOf
  <2>3. ReadGives(<<b, "plist">>, "whole")
    BY <1>a, <2>1, <2>2, Files, ReadsGives
  <2>4. CASE ~accident
    BY <1>11, <1>b, <1>d, <2>2, <2>3, <2>4, Files, ReadingOn DEF ReadPlist, Reading
  <2>5. CASE accident
    BY <1>11, <2>3, <2>5 DEF ReadPlist, ReadGives, NotHidden, NoneLeft, MissingHasCause
  <2> QED
    BY <2>4, <2>5
<1>12. CASE UpdateHead
  <2>1. bucket \in Bucket
    BY <1>12, <1>a DEF UpdateHead, DiscoveryTypeOK, BucketsOf
  <2>2. PICK got \in Get(<<bucket, "head">>) : Done(<<bucket, "head">>, got)
    BY <1>12 DEF UpdateHead, AsksForHead
  <2>3. \A g \in File : g # <<bucket, "head">> => cached'[g] = cached[g]
    BY <1>a, <2>2 DEF Done, DiscoveryTypeOK
  <2>4. accident => accident'
    BY <2>2 DEF Done
  <2>5. \A s : Good(s)' => Good(s)
    <3>1. \A g \in File : g[2] # "head" => cached'[g] = cached[g]
      BY <2>3
    <3> QED
      BY <1>12, <3>1 DEF UpdateHead, Good, BucketsOf
  <2>6. /\ UNCHANGED <<store, listed, salt, todo, current>>
        /\ at = "head" /\ at' = "plist"
    BY <1>12 DEF UpdateHead
  <2> QED
    BY <1>a, <2>4, <2>5, <2>6 DEF NotHidden, NoneLeft, MissingHasCause, Seen, Reading
<1>13. CASE NewBucketFails
  <2>1. PICK b \in left, contents \in {"none", "damaged"} : Reads(<<b, "plist">>, contents)
    BY <1>13 DEF NewBucketFails
  <2>2. b \in Bucket /\ b \in BucketsOf(current)
    BY <1>a, <2>1 DEF DiscoveryTypeOK, BucketsOf
  <2>3. ReadGives(<<b, "plist">>, contents)
    BY <1>a, <2>1, <2>2, Files, ReadsGives
  <2> QED
    BY <1>13, <2>2, <2>3, Files, GivingUp DEF NewBucketFails, NextFolder, Reading
<1>14. CASE Crash
  BY <1>14 DEF Crash, NotHidden, NoneLeft, MissingHasCause
<1>15. CASE SetIsRead
  <2>1. /\ UNCHANGED <<store, cached, accident, salt, todo, current>>
        /\ listed' = listed \cup {current}
        /\ at = "plist" /\ at' = "folders"
    BY <1>15 DEF SetIsRead, NextFolder
  <2> QED
    BY <1>a, <2>1 DEF NotHidden, NoneLeft, MissingHasCause, Seen, Reading, Good, BucketsOf
<1>16. CASE Finish
  <2>1. /\ UNCHANGED <<store, cached, accident, listed, salt, todo, current, found>>
        /\ at = "folders" /\ at' \in {"listed", "opened", "missing"} /\ todo = {}
        /\ wanted' \in Bucket \cup {NoBucket}
        /\ at' = "missing" => wanted' # NoBucket /\ \A s \in listed : wanted' \notin found[s]
    BY <1>16 DEF Finish
  <2>2. ASSUME ~accident, NEW s \in BackupSet, Good(s)
        PROVE  s \in listed /\ salt[s] = "whole"
    BY <1>a, <2>1, <2>2 DEF NotHidden, Seen, Reading
  <2>3. NotHidden' /\ NoneLeft'
    BY <2>1, <2>2 DEF NotHidden, NoneLeft, Seen, Good, BucketsOf
  <2>4. MissingHasCause'
    <3> SUFFICES ASSUME at' = "missing", ~accident, Good(SetOf[wanted'])
                 PROVE  FALSE
      BY <2>1 DEF MissingHasCause, Good, BucketsOf
    <3>1. wanted' \in Bucket /\ SetOf[wanted'] \in BackupSet
      BY <2>1, DiscoveryAssumption DEF DiscoveryAssumption
    <3>2. SetOf[wanted'] \in listed
      BY <2>2, <3>1
    <3>3. wanted' \in found[SetOf[wanted']]
      BY <1>a, <3>1, <3>2 DEF FoundSoFar, ListedIsComplete, BucketsOf
    <3> QED
      BY <2>1, <3>2, <3>3
  <2> QED
    BY <2>3, <2>4
<1>17. CASE Rerun
  BY <1>17 DEF Rerun, NotHidden, NoneLeft, MissingHasCause
<1>18. CASE ArqBacksUp
  BY <1>18, <1>a DEF ArqBacksUp, NotHidden, NoneLeft, MissingHasCause, Seen, Reading, Good, BucketsOf
<1>19. CASE UNCHANGED vars
  BY <1>19, <1>a DEF vars, NotHidden, NoneLeft, MissingHasCause, Seen, Reading, Good, BucketsOf
<1> QED
  BY <1>1, <1>2, <1>3, <1>4, <1>5, <1>6, <1>7, <1>8, <1>9, <1>10, <1>11, <1>12,
     <1>13, <1>14, <1>15, <1>16, <1>17, <1>18, <1>19 DEF Next, Step

LEMMA SpecKeepsHiddenInv == Spec => []HiddenInv
<1>1. Init => NotHidden /\ NoneLeft /\ MissingHasCause
  BY DEF Init, NotHidden, NoneLeft, MissingHasCause
<1>2. FoundInv' /\ HiddenInv /\ [Next]_vars => HiddenInv'
  BY HiddenStep DEF HiddenInv
<1> QED
  BY <1>1, <1>2, SpecKeepsFoundInv, PTL DEF Spec, HiddenInv

(***************************************************************************)
(* What is wrong with one backup set hides none of the others: every good  *)
(* one is in the result of a command that met no accident.                 *)
(***************************************************************************)
THEOREM NothingIsHidden == Spec => []GoodSetsAreListed
<1>1. HiddenInv => GoodSetsAreListed
  BY DEF HiddenInv, NotHidden, NoneLeft, GoodSetsAreListed, Seen, Reading
<1> QED
  BY <1>1, SpecKeepsHiddenInv, PTL

(***************************************************************************)
(* So a bucket is missing only for a cause of its own.                     *)
(***************************************************************************)
THEOREM MissingForCause == Spec => []MissingHasCause
<1>1. HiddenInv => MissingHasCause
  BY DEF HiddenInv
<1> QED
  BY <1>1, SpecKeepsHiddenInv, PTL
================================================================================
