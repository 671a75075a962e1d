----------------------------- MODULE ListingProofs -----------------------------
(***************************************************************************)
(* What a listing returns, for any objects and any boundaries of pages,    *)
(* and the paths SFTP gives it, for any --sftp-remote-path; and that the   *)
(* lists and downloads of one connection do not disturb each other.        *)
(***************************************************************************)
EXTENDS Connection, ConnectorProofs, FiniteSetTheorems, SequenceTheorems,
        WellFoundedInduction, TLAPS

(* The variables have their types, and what was there throughout is there. *)
ListingTypeOK ==
    /\ backend \in {"s3", "gcs", "sftp"}
    /\ listing \in {"none", "pages", "ok", "err"}
    /\ delimiter \in Delimiter
    /\ marker \in Nat
    /\ stored \subseteq Name
    /\ throughout \subseteq Name /\ sometime \subseteq Name
    /\ listing = "pages" => throughout \subseteq stored /\ stored \subseteq sometime

LEMMA EntryType ==
    ASSUME NEW d \in Delimiter, NEW n \in Name
    PROVE  EntryOf[d][n] \in Nat \ {0}
BY ListingAssumption DEF ListingAssumption

LEMMA TypeStep == ListingTypeOK /\ [ListingNext]_listingVars => ListingTypeOK'
<1> SUFFICES ASSUME ListingTypeOK, [ListingNext]_listingVars
             PROVE  ListingTypeOK'
  OBVIOUS
<1> USE DEF ListingTypeOK
<1>1. ASSUME NEW d \in Delimiter, ListObjects(d)
      PROVE  ListingTypeOK'
  BY <1>1 DEF ListObjects
<1>2. CASE ListPage
  <2>1. ASSUME NEW page, page \subseteq Remaining, Collect(page)
        PROVE  marker' \in Nat /\ listing' \in {"pages", "ok"}
    <3>1. Remaining \subseteq Nat
      BY EntryType DEF Remaining, Entry
    <3> QED
      BY <1>2, <2>1, <3>1 DEF Collect, ListPage
  <2>2. \E page : page \subseteq Remaining /\ Collect(page)
    BY <1>2 DEF ListPage
  <2> QED
    BY <1>2, <2>1, <2>2 DEF ListPage
<1>3. CASE ListPageFails
  BY <1>3 DEF ListPageFails
<1>4. CASE ReadDir
  BY <1>4 DEF ReadDir
<1>5. CASE ReadDirFails
  BY <1>5 DEF ReadDirFails
<1>6. ASSUME NEW n \in Name, ArqChanges(n)
      PROVE  ListingTypeOK'
  BY <1>6 DEF ArqChanges
<1>7. CASE UNCHANGED listingVars
  BY <1>7 DEF listingVars
<1> QED
  BY <1>1, <1>2, <1>3, <1>4, <1>5, <1>6, <1>7 DEF ListingNext, ListingStep

LEMMA TypeCorrect == ListingSpec => []ListingTypeOK
<1>1. ListingInit => ListingTypeOK
  BY DEF ListingInit, ListingTypeOK, Delimiter
<1> QED
  BY <1>1, TypeStep, PTL DEF ListingSpec
--------------------------------------------------------------------------------
IsShown(e) == delimiter = "/" <=> e \notin Name

(***************************************************************************)
(* Between two pages, everything up to the marker that was there           *)
(* throughout has been collected.                                          *)
(***************************************************************************)
CollectedToMarker ==
    listing = "pages" /\ backend # "sftp" =>
        \A n \in throughout : Entry(n) <= marker /\ IsShown(Entry(n)) => Entry(n) \in objects

CompleteInv == CollectedToMarker /\ ListingIsComplete

LEMMA PageIsCollected ==
    ASSUME ListingTypeOK, CompleteInv, ListPage
    PROVE  CompleteInv'
<1> DEFINE Is(page) ==
        /\ page \subseteq Remaining
        /\ \A e \in page, f \in Remaining : f <= e => f \in page
<1>1. PICK page : Is(page) /\ Collect(page)
  <2>1. Remaining \subseteq Nat
    BY EntryType DEF Remaining, Entry, ListingTypeOK
  <2>2. CASE Remaining = {} /\ Collect({})
    BY <2>2
  <2>3. ASSUME NEW last \in Remaining, Collect({e \in Remaining : e <= last})
        PROVE  \E page : Is(page) /\ Collect(page)
    <3> DEFINE upTo == {e \in Remaining : e <= last}
    <3>1. \A e \in upTo, f \in Remaining : f <= e => f \in upTo
      <4> SUFFICES ASSUME NEW e \in upTo, NEW f \in Remaining, f <= e
                   PROVE  f <= last
        OBVIOUS
      <4> QED
        BY <2>1
    <3>2. Is(upTo)
      BY <3>1
    <3> HIDE DEF Is
    <3> QED
      BY <2>3, <3>2
  <2> QED
    BY <2>2, <2>3, ListPage DEF ListPage
<1>2. /\ listing = "pages" /\ backend # "sftp"
      /\ UNCHANGED <<backend, delimiter, throughout>>
  BY ListPage DEF ListPage
<1>3. ASSUME NEW n \in throughout, IsShown(Entry(n)),
             Entry(n) \in page \/ Entry(n) <= marker
      PROVE  Entry(n) \in objects'
  BY <1>1, <1>2, <1>3 DEF Collect, Kept, IsShown, CompleteInv, CollectedToMarker
<1>4. \A n \in throughout : Entry(n) \in Nat /\ (Entry(n) <= marker \/ Entry(n) \in Remaining)
  BY <1>2, EntryType DEF ListingTypeOK, Remaining, Entry
<1>5. CASE page = Remaining
  <2>1. listing' = "ok"
    BY <1>1, <1>5 DEF Collect
  <2>2. \A n \in throughout : IsShown(Entry(n)) => Entry(n) \in objects'
    BY <1>3, <1>4, <1>5
  <2> QED
    BY <1>2, <2>1, <2>2 DEF CompleteInv, CollectedToMarker, ListingIsComplete, Shown,
                            Entry, IsShown
<1>6. CASE page # Remaining
  <2>1. PICK last \in page : marker' = last
    BY <1>1, <1>6 DEF Collect
  <2>2. listing' = "pages"
    BY <1>1, <1>2, <1>6 DEF Collect
  <2>3. ASSUME NEW n \in throughout, Entry(n) <= marker', IsShown(Entry(n))
        PROVE  Entry(n) \in objects'
    BY <1>1, <1>3, <1>4, <2>1, <2>3
  <2> QED
    BY <1>2, <2>2, <2>3 DEF CompleteInv, CollectedToMarker, ListingIsComplete,
                            Entry, IsShown
<1> QED
  BY <1>5, <1>6

LEMMA CompleteStep ==
    ListingTypeOK /\ CompleteInv /\ [ListingNext]_listingVars => CompleteInv'
<1> SUFFICES ASSUME ListingTypeOK, CompleteInv, [ListingNext]_listingVars
             PROVE  CompleteInv'
  OBVIOUS
<1> USE DEF CompleteInv, CollectedToMarker, ListingIsComplete
<1>1. ASSUME NEW d \in Delimiter, ListObjects(d)
      PROVE  CompleteInv'
  <2>1. \A n \in stored : EntryOf[d][n] \in Nat \ {0}
    BY EntryType DEF ListingTypeOK
  <2> QED
    BY <1>1, <2>1 DEF ListObjects, Entry
<1>2. CASE ListPage
  BY <1>2, PageIsCollected
<1>3. CASE ListPageFails
  BY <1>3 DEF ListPageFails
<1>4. CASE ReadDir
  BY <1>4 DEF ReadDir, ListingTypeOK, Shown
<1>5. CASE ReadDirFails
  BY <1>5 DEF ReadDirFails
<1>6. ASSUME NEW n \in Name, ArqChanges(n)
      PROVE  CompleteInv'
  BY <1>6 DEF ArqChanges, Entry, IsShown
<1>7. CASE UNCHANGED listingVars
  BY <1>7 DEF listingVars, Entry, IsShown, Shown
<1> QED
  BY <1>1, <1>2, <1>3, <1>4, <1>5, <1>6, <1>7 DEF ListingNext, ListingStep

(***************************************************************************)
(* Whatever Arq stores and deletes while the pages come, and wherever they *)
(* end, a list returned without an error has all that was there throughout.*)
(***************************************************************************)
THEOREM CompleteAlways == ListingSpec => []ListingIsComplete
<1>1. ListingInit => CompleteInv
  BY DEF ListingInit, CompleteInv, CollectedToMarker, ListingIsComplete
<1> QED
  BY <1>1, TypeCorrect, CompleteStep, PTL DEF ListingSpec, CompleteInv
--------------------------------------------------------------------------------
(* There are finitely many entries. *)
Entries(d) == {EntryOf[d][n] : n \in Name}

LEMMA EntriesAreFinite ==
    ASSUME NEW d \in Delimiter
    PROVE  IsFiniteSet(Entries(d))
<1>1. EntryOf[d] \in [Name -> Nat \ {0}]
  BY ListingAssumption DEF ListingAssumption
<1>2. EntryOf[d] \in Surjection(Name, Entries(d))
  BY <1>1 DEF Surjection, Entries
<1> QED
  BY <1>2, FS_Surjection, ListingAssumption DEF ListingAssumption

(***************************************************************************)
(* What is collected is not after the marker, so the next page has nothing *)
(* of it; and it is counted right.                                         *)
(***************************************************************************)
CollectedOnce ==
    /\ listing \in {"none", "pages"} /\ (backend = "sftp" \/ listing = "none") => objects = {}
    /\ listing = "pages" => \A e \in objects : e \in Nat /\ e <= marker
    /\ \E d \in Delimiter : objects \subseteq Entries(d)

ExactInv == CollectedOnce /\ ListingIsExact

LEMMA PageIsNew ==
    ASSUME ListingTypeOK, ExactInv, ListPage
    PROVE  ExactInv'
<1>1. PICK page : page \subseteq Remaining /\ Collect(page)
  BY ListPage DEF ListPage
<1>2. /\ listing = "pages" /\ backend # "sftp"
      /\ UNCHANGED <<backend, delimiter, sometime>>
  BY ListPage DEF ListPage
<1>3. /\ objects' = objects \cup Kept(page)
      /\ appended' = appended + Cardinality(Kept(page))
      /\ listing' \in {"pages", "ok"}
      /\ listing' = "pages" => marker' \in page /\ \A e \in page : e <= marker'
  BY <1>1, <1>2 DEF Collect
<1>4. Remaining \subseteq {Entry(n) : n \in sometime} /\ \A e \in Remaining : e \in Nat /\ e > marker
  BY <1>2, EntryType DEF Remaining, Entry, ListingTypeOK
<1>5. Kept(page) \subseteq page /\ Kept(page) \subseteq Shown(sometime)
  BY <1>1, <1>2, <1>4 DEF Kept, Shown
<1>6. objects \subseteq Shown(sometime) /\ Shown(sometime) \subseteq Entries(delimiter)
  BY <1>2 DEF ExactInv, ListingIsExact, Shown, Entry, Entries, ListingTypeOK
<1>7. objects' \subseteq Shown(sometime)'
  BY <1>2, <1>3, <1>5, <1>6 DEF Shown, Entry
<1>8. appended' = Cardinality(objects')
  <2>1. IsFiniteSet(objects) /\ IsFiniteSet(Kept(page))
    BY <1>5, <1>6, EntriesAreFinite, FS_Subset DEF ListingTypeOK
  <2>2. objects \cap Kept(page) = {}
    <3>1. \A e \in objects : e \in Nat /\ e <= marker
      BY <1>2 DEF ExactInv, CollectedOnce
    <3>2. \A e \in Kept(page) : e \in Nat /\ e > marker
      BY <1>1, <1>4, <1>5
    <3> QED
      BY <3>1, <3>2 DEF ListingTypeOK
  <2>3. Cardinality(objects \cup Kept(page)) = Cardinality(objects) + Cardinality(Kept(page)) - 0
    BY <2>1, <2>2, FS_Union, FS_EmptySet
  <2>4. Cardinality(objects) \in Nat /\ Cardinality(Kept(page)) \in Nat
    BY <2>1, FS_CardinalityType
  <2> QED
    BY <1>3, <2>3, <2>4 DEF ExactInv, ListingIsExact
<1>9. listing' = "pages" => \A e \in objects' : e \in Nat /\ e <= marker'
  <2> SUFFICES ASSUME listing' = "pages", NEW e \in objects'
               PROVE  e \in Nat /\ e <= marker'
    OBVIOUS
  <2>1. marker' \in Nat /\ marker' > marker
    BY <1>1, <1>3, <1>4
  <2>2. CASE e \in objects
    BY <1>2, <2>1, <2>2 DEF ExactInv, CollectedOnce, ListingTypeOK
  <2>3. CASE e \in Kept(page)
    BY <1>1, <1>3, <1>4, <1>5, <2>3
  <2> QED
    BY <1>3, <2>2, <2>3
<1> QED
  BY <1>2, <1>3, <1>5, <1>6, <1>7, <1>8, <1>9
  DEF ExactInv, ListingIsExact, CollectedOnce, ListingTypeOK

LEMMA ExactStep ==
    ListingTypeOK /\ ExactInv /\ [ListingNext]_listingVars => ExactInv'
<1> SUFFICES ASSUME ListingTypeOK, ExactInv, [ListingNext]_listingVars
             PROVE  ExactInv'
  OBVIOUS
<1> USE DEF ExactInv, CollectedOnce, ListingIsExact
<1>1. ASSUME NEW d \in Delimiter, ListObjects(d)
      PROVE  ExactInv'
  BY <1>1, FS_EmptySet DEF ListObjects
<1>2. CASE ListPage
  BY <1>2, PageIsNew
<1>3. CASE ListPageFails
  BY <1>3, FS_EmptySet DEF ListPageFails, Shown, Entry, Delimiter
<1>4. CASE ReadDir
  <2>1. objects' = {EntryOf["/"][n] : n \in stored} /\ stored \subseteq sometime
    BY <1>4 DEF ReadDir, ListingTypeOK
  <2>2. objects' \subseteq Entries("/") /\ "/" \in Delimiter
    BY <2>1 DEF Entries, Delimiter, ListingTypeOK
  <2>3. objects' \subseteq Shown(sometime)'
    BY <1>4, <2>1 DEF ReadDir, Shown
  <2> QED
    BY <1>4, <2>2, <2>3 DEF ReadDir
<1>5. CASE ReadDirFails
  BY <1>5 DEF ReadDirFails, Shown, Entry
<1>6. ASSUME NEW n \in Name, ArqChanges(n)
      PROVE  ExactInv'
  BY <1>6 DEF ArqChanges, Entry, Shown
<1>7. CASE UNCHANGED listingVars
  BY <1>7 DEF listingVars, Entry, Shown
<1> QED
  BY <1>1, <1>2, <1>3, <1>4, <1>5, <1>6, <1>7 DEF ListingNext, ListingStep

(***************************************************************************)
(* And, with an error too, it has nothing twice and nothing else.          *)
(***************************************************************************)
THEOREM ExactAlways == ListingSpec => []ListingIsExact
<1>1. ListingInit => ExactInv
  BY FS_EmptySet DEF ListingInit, ExactInv, CollectedOnce, ListingIsExact, Delimiter
<1> QED
  BY <1>1, TypeCorrect, ExactStep, PTL DEF ListingSpec, ExactInv
--------------------------------------------------------------------------------
(***************************************************************************)
(* The paths that SFTP returns.  What path.Clean makes of the              *)
(* --sftp-remote-path does not matter, only that it adds plain names to it *)
(* as they are.                                                            *)
(***************************************************************************)

(* A set that has 0 and, with each number, the next has every number. *)
LEMMA Induction ==
    ASSUME NEW T, 0 \in T, \A n \in Nat : n \in T => n + 1 \in T
    PROVE  Nat \subseteq T
<1>1. SUFFICES ASSUME Nat \ T # {} PROVE FALSE
  OBVIOUS
<1> DEFINE Less == OpToRel(<, Nat)
<1>2. IsWellFoundedOn(Less, Nat)
  BY NatLessThanWellFounded
<1>3. \A x, y \in Nat : x < y => <<x, y>> \in Less
  BY DEF OpToRel
<1> HIDE DEF Less
<1>4. PICK n \in Nat \ T : \A m \in Nat \ T : <<m, n>> \notin Less
  BY <1>1, <1>2, WFMin
<1>5. n - 1 \in Nat /\ n - 1 < n /\ (n - 1) + 1 = n
  BY <1>4
<1> QED
  BY <1>3, <1>4, <1>5

(* The same from one number up to another. *)
LEMMA InductionUp ==
    ASSUME NEW a \in Nat, NEW b \in Nat, NEW T, a \in T,
           \A n \in a..(b - 1) : n \in T => n + 1 \in T
    PROVE  a..b \subseteq T
<1> DEFINE U == {n \in Nat : a + n <= b => a + n \in T}
<1>1. 0 \in U
  OBVIOUS
<1>2. ASSUME NEW n \in Nat, n \in U
      PROVE  n + 1 \in U
  <2>1. a + (n + 1) <= b => a + n \in a..(b - 1) /\ (a + n) + 1 = a + (n + 1)
    OBVIOUS
  <2> QED BY <1>2, <2>1
<1>3. Nat \subseteq U
  <2> HIDE DEF U
  <2> QED BY <1>1, <1>2, Induction
<1>4. ASSUME NEW n \in a..b PROVE n \in T
  <2>1. n - a \in Nat /\ a + (n - a) = n
    OBVIOUS
  <2> QED BY <1>3, <2>1
<1> QED
  BY <1>4

(* Concatenation, with a name the provers do not look behind. *)
Cat(s, t) == s \o t

(* What two sequences that are joined have at each place. *)
LEMMA CatProperties ==
    ASSUME NEW S, NEW s \in Seq(S), NEW t \in Seq(S)
    PROVE  /\ Cat(s, t) \in Seq(S) /\ Len(Cat(s, t)) = Len(s) + Len(t)
           /\ \A i \in 1..(Len(s) + Len(t)) :
                  Cat(s, t)[i] = IF i <= Len(s) THEN s[i] ELSE t[i - Len(s)]
BY ConcatProperties DEF Cat

(* It does not matter which two of three sequences are joined first. *)
LEMMA CatAssociates ==
    ASSUME NEW S, NEW s \in Seq(S), NEW t \in Seq(S), NEW u \in Seq(S)
    PROVE  Cat(Cat(s, t), u) = Cat(s, Cat(t, u))
BY SMT DEF Cat

(* The empty sequence adds nothing. *)
LEMMA CatEmpty ==
    ASSUME NEW S, NEW s \in Seq(S)
    PROVE  Cat(s, <<>>) = s /\ Cat(<<>>, s) = s
BY ConcatEmptySeq DEF Cat

(* What names are made of. *)
Letters == STRING \cup {"."}

(* What path.Clean keeps. *)
Kepts == Seq(Letters) \ {<<>>, Dot}

(* Strings are never without an element; those of plain names. *)
Strings == Seq(Seq(Letters)) \ {<<>>}
NamePaths == {path \in Strings : \A j \in 1..Len(path) : IsPlain(path[j])}

(* A path from the root, and what an element ".." leaves of such a path. *)
IsRooted(s) == Len(s) > 1 /\ s[1] = <<>>

UpFrom(s, o) ==
    IF o # <<>> /\ Last(o) # DotDot THEN Front(o)
    ELSE IF IsRooted(s) THEN o ELSE Append(o, DotDot)

(* What path.Clean has put out after each element. *)
CleanSteps(s, out) ==
    /\ out[0] = <<>>
    /\ \A j \in 1..Len(s) :
          out[j] = IF s[j] \in {<<>>, Dot} THEN out[j - 1]
                   ELSE IF s[j] = DotDot THEN UpFrom(s, out[j - 1])
                   ELSE Append(out[j - 1], s[j])
    /\ Clean(s) = IF IsRooted(s) THEN Rooted(out[Len(s)])
                  ELSE IF out[Len(s)] = <<>> THEN <<Dot>> ELSE out[Len(s)]

(* The loop of path.Clean has such states. *)
LEMMA CleanLoop ==
    ASSUME NEW s, Len(s) \in Nat
    PROVE  \E out : CleanSteps(s, out)
<1> DEFINE N == Len(s)
           Is(out, m) == out = [j \in 0..m |->
                IF j = 0 THEN <<>>
                ELSE IF s[j] \in {<<>>, Dot} THEN out[j - 1]
                ELSE IF s[j] = DotDot THEN UpFrom(s, out[j - 1])
                ELSE Append(out[j - 1], s[j])]
           T == {m \in Nat : \E f : Is(f, m)}
           last == (CHOOSE f : Is(f, N))[N]
<1>0. N \in Nat
  OBVIOUS
<1>6. Clean(s) = IF IsRooted(s) THEN Rooted(last) ELSE IF last = <<>> THEN <<Dot>> ELSE last
  BY DEF Clean, UpFrom, IsRooted
<1> HIDE DEF N
<1>1. 0 \in T
  <2>1. Is([i \in 0..0 |-> <<>>], 0)
    OBVIOUS
  <2>2. \E f : Is(f, 0)
    <3> HIDE DEF Is
    <3> QED BY <2>1
  <2> HIDE DEF Is
  <2> QED BY <2>2
<1>2. ASSUME NEW m \in Nat, m \in T PROVE m + 1 \in T
  <2>1. PICK out : Is(out, m)
    BY <1>2
  <2> DEFINE g == [j \in 0..(m + 1) |->
                IF j = 0 THEN <<>>
                ELSE IF s[j] \in {<<>>, Dot} THEN out[j - 1]
                ELSE IF s[j] = DotDot THEN UpFrom(s, out[j - 1])
                ELSE Append(out[j - 1], s[j])]
  <2>2. \A j \in 0..m : out[j] = IF j = 0 THEN <<>>
                ELSE IF s[j] \in {<<>>, Dot} THEN out[j - 1]
                ELSE IF s[j] = DotDot THEN UpFrom(s, out[j - 1])
                ELSE Append(out[j - 1], s[j])
    BY <2>1
  <2>8. \A j \in 0..(m + 1) : g[j] = IF j = 0 THEN <<>>
                ELSE IF s[j] \in {<<>>, Dot} THEN out[j - 1]
                ELSE IF s[j] = DotDot THEN UpFrom(s, out[j - 1])
                ELSE Append(out[j - 1], s[j])
    OBVIOUS
  <2>6. g = [j \in 0..(m + 1) |-> g[j]]
    OBVIOUS
  <2> HIDE DEF g
  <2>5. ASSUME NEW j \in 0..m PROVE g[j] = out[j]
    BY <2>2, <2>8
  <2>3. ASSUME NEW j \in 0..(m + 1)
        PROVE  g[j] = IF j = 0 THEN <<>>
                ELSE IF s[j] \in {<<>>, Dot} THEN g[j - 1]
                ELSE IF s[j] = DotDot THEN UpFrom(s, g[j - 1])
                ELSE Append(g[j - 1], s[j])
    <3>1. j # 0 => j - 1 \in 0..m
      OBVIOUS
    <3>2. j # 0 => g[j - 1] = out[j - 1]
      BY <2>5, <3>1
    <3> QED BY <3>2, <2>8
  <2>4. Is(g, m + 1)
    BY <2>3, <2>6
  <2>7. \E f : Is(f, m + 1)
    <3> HIDE DEF Is
    <3> QED BY <2>4
  <2> HIDE DEF Is
  <2> QED BY <2>7
<1>3. Nat \subseteq T
  <2> HIDE DEF T
  <2> QED BY <1>1, <1>2, Induction
<1>4. \E f : Is(f, N)
  <2> HIDE DEF Is
  <2> QED BY <1>0, <1>3
<1> DEFINE out == CHOOSE f : Is(f, N)
<1>5. Is(out, N)
  BY <1>4, Zenon
<1>7. Clean(s) = IF IsRooted(s) THEN Rooted(out[N]) ELSE IF out[N] = <<>> THEN <<Dot>> ELSE out[N]
  BY <1>6
<1> HIDE DEF out
<1>8. out[0] = <<>>
  <2>1. 0 \in 0..N
    BY <1>0
  <2> QED BY <1>5, <2>1
<1>9. ASSUME NEW j \in 1..N
      PROVE  out[j] = IF s[j] \in {<<>>, Dot} THEN out[j - 1]
                ELSE IF s[j] = DotDot THEN UpFrom(s, out[j - 1])
                ELSE Append(out[j - 1], s[j])
  <2>1. j \in 0..N /\ j # 0
    BY <1>0
  <2> QED BY <1>5, <2>1
<1>10. CleanSteps(s, out)
  BY <1>7, <1>8, <1>9 DEF N, CleanSteps
<1> QED BY <1>10

(* It keeps elements that are neither empty nor ".". *)
LEMMA CleanKeeps ==
    ASSUME NEW s \in Strings, NEW out, CleanSteps(s, out), NEW m \in 0..Len(s)
    PROVE  out[m] \in Seq(Kepts)
<1>1. Len(s) \in Nat /\ \A j \in 1..Len(s) : s[j] \in Seq(Letters)
  BY DEF Strings
<1> DEFINE A == {j \in 0..Len(s) : out[j] \in Seq(Kepts)}
<1>3. 0 \in A
  <2>1. out[0] = <<>> /\ <<>> \in Seq(Kepts)
    BY DEF CleanSteps
  <2>2. 0 \in 0..Len(s)
    BY <1>1
  <2> QED BY <2>1, <2>2
<1>4. ASSUME NEW j \in 0..(Len(s) - 1), j \in A PROVE j + 1 \in A
  <2>1. j + 1 \in 1..Len(s) /\ (j + 1) - 1 = j /\ j + 1 \in 0..Len(s)
    BY <1>1
  <2> DEFINE o == out[j]
             e == s[j + 1]
  <2>2. out[j + 1] = IF e \in {<<>>, Dot} THEN o ELSE IF e = DotDot THEN UpFrom(s, o) ELSE Append(o, e)
    BY <2>1 DEF CleanSteps
  <2>3. o \in Seq(Kepts) /\ e \in Seq(Letters)
    BY <1>1, <1>4, <2>1
  <2>7. DotDot \in Kepts
    BY DEF DotDot, Dot, Kepts, Letters
  <2> HIDE DEF o, e
  <2>4. UpFrom(s, o) \in Seq(Kepts)
    <3>1. o # <<>> => Front(o) \in Seq(Kepts)
      BY <2>3 DEF Front
    <3>2. Append(o, DotDot) \in Seq(Kepts)
      BY <2>3, <2>7
    <3> QED BY <2>3, <3>1, <3>2 DEF UpFrom
  <2>5. e \notin {<<>>, Dot} => Append(o, e) \in Seq(Kepts)
    BY <2>3 DEF Kepts
  <2>6. out[j + 1] \in Seq(Kepts)
    BY <2>2, <2>3, <2>4, <2>5
  <2> QED BY <2>1, <2>6
<1>5. 0..Len(s) \subseteq A
  <2>1. 0 \in Nat
    OBVIOUS
  <2> HIDE DEF A
  <2> QED BY <1>1, <1>3, <1>4, <2>1, InductionUp
<1> QED BY <1>5

(* What it has put out depends only on what it has read. *)
LEMMA CleanSame ==
    ASSUME NEW s, NEW t, Len(s) \in Nat, Len(t) \in Nat, NEW out, NEW other,
           CleanSteps(s, out), CleanSteps(t, other), IsRooted(s) <=> IsRooted(t),
           NEW m \in Nat, m <= Len(s), m <= Len(t), \A j \in 1..m : s[j] = t[j]
    PROVE  out[m] = other[m]
<1> DEFINE A == {j \in 0..m : out[j] = other[j]}
<1>1. 0 \in A
  BY DEF CleanSteps
<1>2. ASSUME NEW j \in 0..(m - 1), j \in A PROVE j + 1 \in A
  <2>1. j + 1 \in 1..Len(s) /\ j + 1 \in 1..Len(t) /\ (j + 1) - 1 = j /\ j + 1 \in 0..m /\ j + 1 \in 1..m
    OBVIOUS
  <2>2. UpFrom(s, out[j]) = UpFrom(t, out[j])
    BY DEF UpFrom
  <2>3. out[j] = other[j] /\ s[j + 1] = t[j + 1]
    BY <1>2, <2>1
  <2>4. out[j + 1] = IF s[j + 1] \in {<<>>, Dot} THEN out[j] ELSE IF s[j + 1] = DotDot THEN UpFrom(s, out[j]) ELSE Append(out[j], s[j + 1])
    BY <2>1 DEF CleanSteps
  <2>5. other[j + 1] = IF t[j + 1] \in {<<>>, Dot} THEN other[j] ELSE IF t[j + 1] = DotDot THEN UpFrom(t, other[j]) ELSE Append(other[j], t[j + 1])
    BY <2>1 DEF CleanSteps
  <2> QED BY <2>1, <2>2, <2>3, <2>4, <2>5
<1>3. 0..m \subseteq A
  <2>1. 0 \in Nat
    OBVIOUS
  <2> HIDE DEF A
  <2> QED BY <1>1, <1>2, <2>1, InductionUp
<1> QED BY <1>3

(* Plain names at the end are added as they are. *)
LEMMA CleanAdds ==
    ASSUME NEW s \in Strings, NEW out, CleanSteps(s, out), NEW k \in Nat, NEW names \in NamePaths,
           Len(s) = k + Len(names), \A j \in 1..Len(names) : s[k + j] = names[j]
    PROVE  out[Len(s)] = Cat(out[k], names)
<1> DEFINE L == Len(names)
           o == out[k]
           B == {j \in 0..L : out[k + j] = Cat(o, SubSeq(names, 1, j))}
<1>1. names \in Seq(Seq(Letters)) /\ L \in Nat /\ \A j \in 1..L : IsPlain(names[j]) /\ names[j] \in Seq(Letters)
  BY DEF NamePaths, Strings
<1>2. o \in Seq(Kepts) /\ o \in Seq(Seq(Letters))
  <2>1. k \in 0..Len(s)
    BY <1>1
  <2>2. o \in Seq(Kepts)
    BY <2>1, CleanKeeps
  <2>3. Kepts \subseteq Seq(Letters)
    BY DEF Kepts
  <2> HIDE DEF o
  <2> QED BY <2>2, <2>3
<1>3. 0 \in B
  <2>1. SubSeq(names, 1, 0) = <<>> /\ 0 \in 0..L /\ k + 0 = k
    BY <1>1
  <2>2. Cat(o, <<>>) = o
    BY <1>2, CatEmpty
  <2> QED BY <2>1, <2>2
<1>4. ASSUME NEW j \in 0..(L - 1), j \in B PROVE j + 1 \in B
  <2>1. /\ k + (j + 1) \in 1..Len(s) /\ (k + (j + 1)) - 1 = k + j /\ j + 1 \in 0..L /\ j + 1 \in 1..L
    BY <1>1
  <2>2. s[k + (j + 1)] = names[j + 1] /\ s[k + (j + 1)] \notin {<<>>, Dot} /\ s[k + (j + 1)] # DotDot
    BY <1>1, <2>1 DEF IsPlain
  <2>3. out[k + (j + 1)] = Append(out[k + j], names[j + 1])
    BY <2>1, <2>2 DEF CleanSteps
  <2> DEFINE u == SubSeq(names, 1, j)
             x == names[j + 1]
  <2>4. u \in Seq(Seq(Letters)) /\ Append(u, x) = SubSeq(names, 1, j + 1) /\ x \in Seq(Letters)
    <3>1. names \in Seq(Seq(Letters)) /\ Len(names) = L /\ L \in Nat /\ j \in 0..(L - 1)
      BY <1>1
    <3>2. u \in Seq(Seq(Letters)) /\ Append(u, x) = SubSeq(names, 1, j + 1)
      BY <3>1
    <3>3. x \in Seq(Letters)
      BY <1>1, <2>1
    <3> QED BY <3>2, <3>3
  <2> HIDE DEF u, x, o
  <2>5. Append(Cat(o, u), x) = Cat(o, Append(u, x))
    <3>1. <<x>> \in Seq(Seq(Letters))
      BY <2>4
    <3>2. Append(u, x) = Cat(u, <<x>>) /\ Append(Cat(o, u), x) = Cat(Cat(o, u), <<x>>)
      BY <1>2, <2>4, <3>1, CatProperties, AppendIsConcat DEF Cat
    <3>3. Cat(Cat(o, u), <<x>>) = Cat(o, Cat(u, <<x>>))
      <4> DEFINE v == <<x>>
      <4>1. v \in Seq(Seq(Letters))
        BY <3>1
      <4> HIDE DEF v
      <4>2. Cat(Cat(o, u), v) = Cat(o, Cat(u, v))
        BY <1>2, <2>4, <4>1, CatAssociates
      <4> QED BY <4>2 DEF v
    <3> QED BY <3>2, <3>3
  <2>6. out[k + j] = Cat(o, u)
    BY <1>4 DEF u
  <2> QED BY <2>1, <2>3, <2>4, <2>5, <2>6 DEF x
<1>5. 0..L \subseteq B
  <2> HIDE DEF B, L
  <2>1. 0 \in Nat
    OBVIOUS
  <2> QED BY <1>1, <1>3, <1>4, <2>1, InductionUp
<1>6. L \in 0..L /\ SubSeq(names, 1, L) = names
  BY <1>1
<1> QED BY <1>5, <1>6

(* A slash before a path. *)
LEMMA CatEmptyPath ==
    ASSUME NEW path \in Seq(Seq(Letters))
    PROVE  /\ Cat(EmptyPath, path) \in Seq(Seq(Letters))
           /\ Len(Cat(EmptyPath, path)) = 1 + Len(path)
           /\ Cat(EmptyPath, path)[1] = <<>>
           /\ \A i \in 1..Len(path) : Cat(EmptyPath, path)[1 + i] = path[i]
<1> DEFINE e == EmptyPath
           s == Cat(e, path)
           L == Len(path)
<1>1. e \in Seq(Seq(Letters)) /\ Len(e) = 1 /\ e[1] = <<>> /\ L \in Nat
  BY DEF EmptyPath
<1> HIDE DEF e
<1>2. /\ s \in Seq(Seq(Letters)) /\ Len(s) = Len(e) + L
      /\ \A i \in 1..(Len(e) + L) : s[i] = IF i <= Len(e) THEN e[i] ELSE path[i - Len(e)]
  BY <1>1, CatProperties
<1> HIDE DEF s, L
<1>3. \A i \in 1..L : 1 + i \in 1..(1 + L) /\ ~(1 + i <= 1) /\ (1 + i) - 1 = i
  BY <1>1
<1>4. 1 \in 1..(1 + L)
  BY <1>1
<1>5. s[1] = <<>>
  BY <1>1, <1>2, <1>4
<1>6. \A i \in 1..L : s[1 + i] = path[i]
  BY <1>1, <1>2, <1>3
<1> QED BY <1>1, <1>2, <1>5, <1>6 DEF s, L, e

(* What stands before the names that are added to a clean path. *)
Before(c) == IF c = Slash THEN EmptyPath ELSE IF c = <<Dot>> THEN <<>> ELSE c

(* path.Clean adds plain names to what it makes of the path before them. *)
LEMMA CleanJoins ==
    ASSUME NEW r \in Strings, r # EmptyPath, NEW names \in NamePaths
    PROVE  /\ Clean(Cat(r, names)) = Cat(Before(Clean(r)), names)
           /\ Clean(r) \in Strings /\ Before(Clean(r)) \in Seq(Seq(Letters))
           /\ Clean(r) # EmptyPath
<1> DEFINE s == Cat(r, names)
           K == Len(r)
           L == Len(names)
           c == Clean(r)
<1>1. /\ r \in Seq(Seq(Letters)) /\ K \in Nat /\ K >= 1
      /\ names \in Seq(Seq(Letters)) /\ L \in Nat /\ L >= 1
  BY DEF NamePaths, Strings
<1>2. /\ s \in Seq(Seq(Letters)) /\ Len(s) = K + L
      /\ \A i \in 1..(K + L) : s[i] = IF i <= K THEN r[i] ELSE names[i - K]
  BY <1>1, CatProperties
<1> HIDE DEF s, K, L
<1>3. /\ Len(s) \in Nat /\ s # <<>> /\ s \in Strings
      /\ \A i \in 1..K : s[i] = r[i]
      /\ \A i \in 1..L : s[K + i] = names[i]
  <2>1. Len(s) \in Nat /\ s # <<>> /\ \A i \in 1..K : s[i] = r[i]
    BY <1>1, <1>2
  <2>2. \A i \in 1..L : K + i \in 1..(K + L) /\ ~(K + i <= K) /\ (K + i) - K = i
    BY <1>1
  <2> QED BY <1>2, <2>1, <2>2 DEF Strings
<1>4. IsRooted(s) <=> IsRooted(r)
  <2>1. s[1] = r[1]
    BY <1>1, <1>3
  <2>2. K = 1 => r[1] # <<>>
    <3>1. K = 1 /\ r[1] = <<>> => r = << <<>> >>
      BY <1>1 DEF K
    <3> QED BY <3>1 DEF EmptyPath
  <2>3. Len(s) > 1 /\ (K > 1 \/ K = 1)
    BY <1>1, <1>2
  <2> QED BY <2>1, <2>2, <2>3 DEF IsRooted, K
<1>5. PICK out : CleanSteps(r, out)
  BY <1>1, CleanLoop DEF K
<1>6. PICK other : CleanSteps(s, other)
  BY <1>3, CleanLoop
<1> DEFINE o == out[K]
<1>7. other[K] = o
  <2>1. K <= Len(r) /\ K <= Len(s) /\ Len(r) \in Nat
    BY <1>1, <1>2 DEF K
  <2>2. \A j \in 1..K : s[j] = r[j]
    BY <1>3
  <2> QED BY <1>1, <1>3, <1>4, <1>5, <1>6, <2>1, <2>2, CleanSame
<1>8. other[Len(s)] = Cat(o, names)
  <2>1. other[Len(s)] = Cat(other[K], names)
    <3>1. K \in Nat /\ Len(s) = K + Len(names) /\ \A j \in 1..Len(names) : s[K + j] = names[j]
      BY <1>1, <1>2, <1>3 DEF L
    <3> QED BY <1>3, <1>6, <3>1, CleanAdds
  <2> QED BY <1>7, <2>1
<1>9. o \in Seq(Kepts) /\ o \in Seq(Seq(Letters))
  <2>1. K \in 0..Len(r)
    BY <1>1 DEF K
  <2>2. o \in Seq(Kepts)
    BY <1>5, <2>1, CleanKeeps
  <2>3. Kepts \subseteq Seq(Letters)
    BY DEF Kepts
  <2> HIDE DEF o
  <2> QED BY <2>2, <2>3
<1>10. /\ Clean(r) = IF IsRooted(r) THEN Rooted(o) ELSE IF o = <<>> THEN <<Dot>> ELSE o
       /\ Clean(s) = IF IsRooted(r) THEN Rooted(Cat(o, names))
                     ELSE IF Cat(o, names) = <<>> THEN <<Dot>> ELSE Cat(o, names)
  BY <1>4, <1>5, <1>6, <1>8 DEF CleanSteps, K
<1> HIDE DEF o
<1>11. /\ Cat(o, names) \in Seq(Seq(Letters)) /\ Cat(o, names) # <<>>
  <2>1. Cat(o, names) \in Seq(Seq(Letters)) /\ Len(Cat(o, names)) = Len(o) + Len(names)
    BY <1>1, <1>9, CatProperties
  <2>3. Len(names) \in Nat /\ Len(names) >= 1
    BY <1>1 DEF L
  <2>4. Len(o) \in Nat
    BY <1>9
  <2>2. Len(Cat(o, names)) # 0
    BY <2>1, <2>3, <2>4
  <2> QED BY <2>1, <2>2
<1>12. <<>> \in Seq(Letters) /\ EmptyPath \in Seq(Seq(Letters)) /\ EmptyPath # <<>> /\ Dot \in Seq(Letters)
  BY DEF EmptyPath, Dot, Letters
<1>13. \A j \in 1..Len(o) : o[j] # <<>> /\ o[j] # Dot
  BY <1>9 DEF Kepts
<1>14. CASE IsRooted(r) /\ o = <<>>
  <2>1. c = Slash /\ Before(c) = EmptyPath
    BY <1>10, <1>14 DEF Rooted, Before
  <2>2. Cat(o, names) = names
    BY <1>1, <1>14, CatEmpty
  <2>3. Clean(s) = Cat(EmptyPath, names)
    BY <1>10, <1>11, <1>14, <2>2 DEF Rooted, EmptyPath, Cat
  <2>4. Slash \in Strings /\ Slash # EmptyPath
    BY <1>12 DEF Slash, EmptyPath, Strings
  <2> QED BY <1>12, <2>1, <2>3, <2>4 DEF s
<1>15. CASE IsRooted(r) /\ o # <<>>
  <2>1. c = Cat(EmptyPath, o)
    BY <1>10, <1>15 DEF Rooted, EmptyPath, Cat
  <2>2. /\ c \in Seq(Seq(Letters)) /\ Len(c) = 1 + Len(o)
        /\ \A i \in 1..Len(o) : c[1 + i] = o[i]
    BY <1>9, <2>1, CatEmptyPath
  <2> HIDE DEF c
  <2>3. Len(o) \in Nat /\ Len(o) >= 1
    BY <1>9, <1>15
  <2>4. c[2] = o[1] /\ o[1] # <<>> /\ Len(c) >= 2
    <3>1. 1 \in 1..Len(o) /\ 1 + 1 = 2
      BY <2>3
    <3>2. c[1 + 1] = o[1]
      BY <2>2, <3>1
    <3> QED BY <1>13, <2>2, <2>3, <3>1, <3>2
  <2>5. c # Slash /\ c # <<Dot>> /\ c # EmptyPath /\ c # <<>>
    <3>1. Slash[2] = <<>> /\ Len(<<Dot>>) = 1 /\ Len(EmptyPath) = 1 /\ Len(<<>>) = 0
      BY DEF Slash, EmptyPath
    <3> QED BY <2>4, <3>1
  <2>6. Clean(s) = Cat(EmptyPath, Cat(o, names))
    BY <1>10, <1>11, <1>15 DEF Rooted, EmptyPath, Cat
  <2>7. Cat(EmptyPath, Cat(o, names)) = Cat(Cat(EmptyPath, o), names)
    BY <1>1, <1>9, <1>12, CatAssociates
  <2>8. Before(c) = c
    BY <2>5 DEF Before
  <2> QED BY <2>1, <2>2, <2>5, <2>6, <2>7, <2>8 DEF c, s, Strings
<1>16. CASE ~IsRooted(r) /\ o = <<>>
  <2>1. c = <<Dot>> /\ <<Dot>> # Slash /\ <<Dot>> # EmptyPath
    <3>1. <<Dot>>[1] = <<".">> /\ EmptyPath[1] = <<>> /\ Slash[1] = <<>>
      BY DEF Slash, EmptyPath, Dot
    <3>2. <<".">> # <<>>
      OBVIOUS
    <3> QED BY <1>10, <1>16, <3>1, <3>2
  <2>2. Before(c) = <<>> /\ <<Dot>> \in Strings
    BY <1>12, <2>1 DEF Before, Strings
  <2>3. Clean(s) = Cat(<<>>, names)
    BY <1>10, <1>11, <1>16
  <2> QED BY <2>1, <2>2, <2>3 DEF s
<1>17. CASE ~IsRooted(r) /\ o # <<>>
  <2>1. c = o
    BY <1>10, <1>17
  <2>2. o[1] # <<>> /\ o[1] # Dot
    <3>1. 1 \in 1..Len(o)
      BY <1>9, <1>17
    <3> QED BY <1>13, <3>1
  <2>3. o # Slash /\ o # <<Dot>> /\ o # EmptyPath
    <3>1. Slash[1] = <<>> /\ EmptyPath[1] = <<>> /\ <<Dot>>[1] = Dot
      BY DEF Slash, EmptyPath
    <3> QED BY <2>2, <3>1
  <2>4. Before(c) = o
    BY <2>1, <2>3 DEF Before
  <2>5. Clean(s) = Cat(o, names)
    BY <1>10, <1>11, <1>17
  <2> QED BY <1>9, <1>17, <2>1, <2>3, <2>4, <2>5 DEF s, Strings
<1> QED BY <1>14, <1>15, <1>16, <1>17

(* It leaves plain names as they are, from the root too. *)
LEMMA CleanPlain ==
    ASSUME NEW names \in NamePaths
    PROVE  Clean(names) = names /\ Clean(Cat(EmptyPath, names)) = Cat(EmptyPath, names)
<1> DEFINE s == Cat(EmptyPath, names)
           L == Len(names)
<1>1. names \in Seq(Seq(Letters)) /\ L \in Nat /\ L >= 1 /\ names \in Strings /\ IsPlain(names[1])
  <2>1. names \in Strings /\ names \in Seq(Seq(Letters)) /\ L \in Nat /\ L >= 1 /\ \A j \in 1..L : IsPlain(names[j])
    BY DEF NamePaths, Strings
  <2> QED BY <2>1
<1>3. /\ s \in Seq(Seq(Letters)) /\ Len(s) = 1 + L /\ s[1] = <<>>
      /\ \A i \in 1..L : s[1 + i] = names[i]
  BY <1>1, CatEmptyPath
<1> HIDE DEF s, L
<1>4. s \in Strings /\ Len(s) \in Nat
  BY <1>1, <1>3 DEF Strings
<1>5. Cat(<<>>, names) = names
  BY <1>1, CatEmpty
<1>6. Clean(names) = names
  <2>1. PICK out : CleanSteps(names, out)
    BY <1>1, CleanLoop DEF L
  <2>2. out[0] = <<>>
    BY <2>1 DEF CleanSteps
  <2>3. out[Len(names)] = Cat(out[0], names)
    <3>1. Len(names) = 0 + Len(names) /\ \A j \in 1..Len(names) : names[0 + j] = names[j]
      BY <1>1 DEF L
    <3> QED BY <1>1, <2>1, <3>1, CleanAdds
  <2>4. ~IsRooted(names) /\ names # <<>>
    BY <1>1 DEF IsRooted, IsPlain, L
  <2> QED BY <1>5, <2>1, <2>2, <2>3, <2>4 DEF CleanSteps
<1>7. Clean(s) = s
  <2>1. PICK out : CleanSteps(s, out)
    BY <1>4, CleanLoop
  <2>2. out[1] = <<>>
    <3>1. 1 \in 1..Len(s) /\ 1 - 1 = 0
      BY <1>1, <1>3
    <3>2. out[1] = out[0]
      BY <1>3, <2>1, <3>1 DEF CleanSteps
    <3> QED BY <2>1, <3>2 DEF CleanSteps
  <2>3. out[Len(s)] = Cat(out[1], names)
    <3> DEFINE k == 1
    <3>1. k \in Nat /\ Len(s) = k + Len(names) /\ \A j \in 1..Len(names) : s[k + j] = names[j]
      BY <1>3 DEF L
    <3> HIDE DEF k
    <3>2. out[Len(s)] = Cat(out[k], names)
      BY <1>4, <2>1, <3>1, CleanAdds
    <3> QED BY <3>2 DEF k
  <2>4. IsRooted(s) /\ names # <<>>
    BY <1>1, <1>3, <1>4 DEF IsRooted, L
  <2>5. Rooted(names) = s
    BY <2>4 DEF Rooted, EmptyPath, Cat, s
  <2> QED BY <1>5, <2>1, <2>2, <2>3, <2>4, <2>5 DEF CleanSteps
<1> QED BY <1>6, <1>7 DEF s

(* A path that path.Clean leaves as it is but for a slash at its end. *)
IsServerPath(r) == r \in {Clean(r), Append(Clean(r), <<>>)}

(* Cleaning once more changes nothing. *)
LEMMA CleanTwice ==
    ASSUME NEW r \in Strings, r # EmptyPath, IsServerPath(r), Clean(r) \in Strings, Clean(r) # EmptyPath
    PROVE  Clean(Clean(r)) = Clean(r)
<1> DEFINE c == Clean(r)
           K == Len(c)
<1>1. CASE r = c
  BY <1>1
<1>2. CASE r = Append(c, <<>>)
  <2>1. c \in Seq(Seq(Letters)) /\ K \in Nat /\ K >= 1
    BY DEF Strings
  <2> HIDE DEF c
  <2>2. /\ Len(r) = K + 1 /\ r[K + 1] = <<>> /\ \A j \in 1..K : r[j] = c[j]
    BY <1>2, <2>1
  <2> HIDE DEF K
  <2>3. K = 1 => c[1] # <<>>
    <3>1. K = 1 /\ c[1] = <<>> => c = << <<>> >>
      BY <2>1 DEF K
    <3> QED BY <3>1 DEF EmptyPath, c
  <2>4. IsRooted(r) <=> IsRooted(c)
    <3>1. Len(r) > 1 /\ (K > 1 \/ K = 1) /\ r[1] = c[1]
      BY <2>1, <2>2
    <3>2. CASE K > 1
      BY <3>1, <3>2 DEF IsRooted, K
    <3>3. CASE K = 1
      <4>1. ~IsRooted(c)
        BY <3>3 DEF IsRooted, K
      <4>2. r[1] # <<>>
        BY <2>3, <3>1, <3>3
      <4> QED BY <4>1, <4>2 DEF IsRooted
    <3> QED BY <3>1, <3>2, <3>3
  <2>5. PICK out : CleanSteps(r, out)
    <3>1. Len(r) \in Nat
      BY <2>1, <2>2
    <3> QED BY <3>1, CleanLoop
  <2>6. PICK other : CleanSteps(c, other)
    BY <2>1, CleanLoop DEF K
  <2>7. out[K] = other[K]
    <3>1. Len(r) \in Nat /\ Len(c) \in Nat /\ K <= Len(r) /\ K <= Len(c)
      BY <2>1, <2>2 DEF K
    <3>2. K \in Nat /\ \A j \in 1..K : r[j] = c[j]
      BY <2>1, <2>2
    <3> QED BY <2>4, <2>5, <2>6, <3>1, <3>2, CleanSame
  <2>8. out[K + 1] = out[K]
    <3>1. K + 1 \in 1..Len(r) /\ (K + 1) - 1 = K
      BY <2>1, <2>2
    <3> QED BY <2>2, <2>5, <3>1 DEF CleanSteps
  <2>9. Clean(r) = Clean(c)
    <3>1. out[Len(r)] = other[Len(c)]
      BY <2>2, <2>7, <2>8 DEF K
    <3> QED BY <2>4, <2>5, <2>6, <3>1 DEF CleanSteps
  <2> QED BY <2>9 DEF c
<1> QED BY <1>1, <1>2 DEF IsServerPath

(* An empty path takes no part in path.Join. *)
LEMMA JoinIs ==
    ASSUME NEW s, NEW t, t # EmptyPath
    PROVE  /\ JoinPaths(EmptyPath, t) = Clean(t)
           /\ s # EmptyPath => JoinPaths(s, t) = Clean(Cat(s, t)) /\ JoinPaths(s, EmptyPath) = Clean(s)
BY DEF JoinPaths, Cat

(* Names are no empty path, nor is anything that ends with them. *)
LEMMA NamesAreNotEmpty ==
    ASSUME NEW names \in NamePaths, NEW s \in Seq(Seq(Letters))
    PROVE  Cat(s, names) # EmptyPath /\ names # EmptyPath
<1>1. /\ names \in Seq(Seq(Letters)) /\ Len(names) \in Nat /\ Len(names) >= 1
      /\ \A j \in 1..Len(names) : names[j] # <<>>
  <2>1. names \in Strings /\ \A j \in 1..Len(names) : names[j] # <<>>
    BY DEF NamePaths, IsPlain
  <2> QED BY <2>1 DEF Strings
<1> DEFINE L == Len(names)
           K == Len(s)
           t == Cat(s, names)
<1>2. K \in Nat /\ L \in Nat /\ L >= 1
  BY <1>1
<1>3. /\ Len(t) = K + L
      /\ \A i \in 1..(K + L) : t[i] = IF i <= K THEN s[i] ELSE names[i - K]
  BY <1>1, CatProperties
<1> HIDE DEF t, K, L
<1>4. t[K + L] = names[L] /\ L \in 1..Len(names)
  <2>1. K + L \in 1..(K + L) /\ ~(K + L <= K) /\ (K + L) - K = L
    BY <1>2
  <2>2. t[K + L] = names[(K + L) - K]
    BY <1>3, <2>1
  <2> QED BY <1>2, <2>1, <2>2 DEF L
<1>5. t[Len(t)] # <<>>
  BY <1>1, <1>3, <1>4
<1>6. EmptyPath[Len(EmptyPath)] = <<>> /\ Len(EmptyPath) = 1 /\ EmptyPath[1] = <<>>
  BY DEF EmptyPath
<1>7. names # EmptyPath
  <2>1. names[L] # <<>> /\ L = Len(names)
    BY <1>1, <1>4 DEF L
  <2> QED BY <1>6, <2>1
<1> QED BY <1>5, <1>6, <1>7 DEF t

(* Of two such paths, one after the other. *)
LEMMA NamesJoined ==
    ASSUME NEW a \in NamePaths, NEW b \in NamePaths
    PROVE  Cat(a, b) \in NamePaths
<1>1. /\ a \in Seq(Seq(Letters)) /\ b \in Seq(Seq(Letters)) /\ Len(a) \in Nat /\ Len(b) \in Nat /\ Len(a) >= 1
      /\ (\A j \in 1..Len(a) : IsPlain(a[j])) /\ (\A j \in 1..Len(b) : IsPlain(b[j]))
  BY DEF NamePaths, Strings
<1> DEFINE t == Cat(a, b)
<1>2. /\ t \in Seq(Seq(Letters)) /\ Len(t) = Len(a) + Len(b)
      /\ \A i \in 1..(Len(a) + Len(b)) : t[i] = IF i <= Len(a) THEN a[i] ELSE b[i - Len(a)]
  BY <1>1, CatProperties
<1> HIDE DEF t
<1>3. ASSUME NEW i \in 1..Len(t) PROVE IsPlain(t[i])
  <2>1. i <= Len(a) => i \in 1..Len(a)
    BY <1>1, <1>2
  <2>2. ~(i <= Len(a)) => i - Len(a) \in 1..Len(b)
    BY <1>1, <1>2
  <2> QED BY <1>1, <1>2, <2>1, <2>2
<1>4. t # <<>>
  BY <1>1, <1>2
<1> QED BY <1>2, <1>3, <1>4 DEF NamePaths, Strings, t

(* What is appended stands at the end. *)
LEMMA Appended ==
    ASSUME NEW a, NEW b, NEW c
    PROVE  Append(<<a>>, b) = <<a, b>> /\ Append(<<a, b>>, c) = <<a, b, c>>
<1> DEFINE T == {a, b, c}
           p == Append(<<a>>, b)
           q == Append(<<a, b>>, c)
<1>1. p = <<a, b>>
  <2>1. <<a>> \in Seq(T) /\ Len(<<a>>) = 1 /\ <<a>>[1] = a /\ b \in T
    OBVIOUS
  <2>2. p \in Seq(T) /\ Len(p) = 2 /\ p[1] = a /\ p[2] = b
    BY <2>1, AppendProperties
  <2> DEFINE t == <<a, b>>
  <2>3. t \in Seq(T) /\ Len(t) = 2 /\ t[1] = a /\ t[2] = b
    OBVIOUS
  <2> HIDE DEF p, t
  <2>4. p = t
    BY <2>2, <2>3, SeqEqual
  <2> QED BY <2>4 DEF t
<1>2. q = <<a, b, c>>
  <2>1. <<a, b>> \in Seq(T) /\ Len(<<a, b>>) = 2 /\ <<a, b>>[1] = a /\ <<a, b>>[2] = b /\ c \in T
    OBVIOUS
  <2>2. q \in Seq(T) /\ Len(q) = 3 /\ q[1] = a /\ q[2] = b /\ q[3] = c
    BY <2>1, AppendProperties
  <2> DEFINE t == <<a, b, c>>
  <2>3. t \in Seq(T) /\ Len(t) = 3 /\ t[1] = a /\ t[2] = b /\ t[3] = c
    OBVIOUS
  <2> HIDE DEF q, t
  <2>4. q = t
    BY <2>2, <2>3, SeqEqual
  <2> QED BY <2>4 DEF t
<1> QED BY <1>1, <1>2 DEF p, q

(* Sequences of some elements are sequences of more. *)
LEMMA SeqsOfMore ==
    ASSUME NEW S, NEW T, S \subseteq T
    PROVE  Seq(S) \subseteq Seq(T)
OBVIOUS

(* The last element of a sequence, and those before it. *)
LEMMA LastOf ==
    ASSUME NEW T, NEW s \in Seq(T), s # <<>>
    PROVE  Len(s) \in Nat \ {0} /\ Last(s) = s[Len(s)] /\ Front(s) = SubSeq(s, 1, Len(s) - 1)
BY DEF Last, Front

(* A string is a prefix of itself, the empty one of every string. *)
LEMMA PrefixOfItself ==
    ASSUME NEW T, NEW s \in Seq(T)
    PROVE  IsPrefix(s, s) /\ IsPrefix(<<>>, s)
<1>1. Len(s) \in Nat /\ SubSeq(<<>>, 1, 0) = <<>> /\ SubSeq(s, 1, 0) = <<>> /\ Len(<<>>) = 0
  OBVIOUS
<1> QED BY <1>1 DEF IsPrefix

(* What a path of names has. *)
LEMMA NamesAre ==
    ASSUME NEW names \in NamePaths
    PROVE  /\ names \in Seq(Seq(Letters)) /\ Len(names) \in Nat /\ Len(names) >= 1
           /\ names[1] \in Seq(Letters) /\ names[1] # <<>> /\ names[1] # Dot
<1>1. /\ names \in Seq(Seq(Letters)) /\ Len(names) \in Nat /\ Len(names) >= 1
      /\ \A j \in 1..Len(names) : IsPlain(names[j])
  BY DEF NamePaths, Strings
<1>2. 1 \in 1..Len(names)
  BY <1>1
<1> QED BY <1>1, <1>2 DEF IsPlain

(* Names after a path, element by element. *)
LEMMA CatNames ==
    ASSUME NEW b \in Seq(Seq(Letters)), NEW names \in NamePaths
    PROVE  /\ Cat(b, names) \in Seq(Seq(Letters)) /\ Len(b) \in Nat
           /\ Len(Cat(b, names)) = Len(b) + Len(names)
           /\ \A i \in 1..Len(b) : Cat(b, names)[i] = b[i]
           /\ \A i \in 1..Len(names) : Cat(b, names)[Len(b) + i] = names[i]
<1> DEFINE t == Cat(b, names)
           K == Len(b)
           L == Len(names)
<1>1. K \in Nat /\ L \in Nat /\ names \in Seq(Seq(Letters))
  BY NamesAre
<1>2. /\ t \in Seq(Seq(Letters)) /\ Len(t) = K + L
      /\ \A i \in 1..(K + L) : t[i] = IF i <= K THEN b[i] ELSE names[i - K]
  BY <1>1, CatProperties
<1> HIDE DEF t, K, L
<1>3. \A i \in 1..K : t[i] = b[i]
  BY <1>1, <1>2
<1>4. \A i \in 1..L : K + i \in 1..(K + L) /\ ~(K + i <= K) /\ (K + i) - K = i
  BY <1>1
<1>5. \A i \in 1..L : t[K + i] = names[i]
  BY <1>2, <1>4
<1> QED BY <1>1, <1>2, <1>3, <1>5 DEF t, K, L

(* Sequences with the same elements are the same. *)
LEMMA SameSeq ==
    ASSUME NEW S, NEW s \in Seq(S), NEW t \in Seq(S), Len(s) = Len(t),
           \A i \in 1..Len(t) : s[i] = t[i]
    PROVE  s = t
OBVIOUS

(* The directory is cut off, the slash after it stays. *)
LEMMA TrimWhole ==
    ASSUME NEW b \in Strings, NEW names \in NamePaths
    PROVE  TrimPrefix(Cat(b, names), b) = Cat(EmptyPath, names)
<1> DEFINE s == Cat(b, names)
           K == Len(b)
           L == Len(names)
<1>1. b \in Seq(Seq(Letters)) /\ b # <<>> /\ K \in Nat /\ K >= 1 /\ K \in 1..K
  BY DEF Strings
<1>2. L \in Nat /\ L >= 1 /\ names \in Seq(Seq(Letters))
  BY NamesAre
<1>3. /\ s \in Seq(Seq(Letters)) /\ Len(s) = K + L
      /\ \A i \in 1..K : s[i] = b[i]
      /\ \A i \in 1..L : s[K + i] = names[i]
  BY <1>1, CatNames
<1>4. Last(b) = b[K] /\ Front(b) = SubSeq(b, 1, K - 1)
  BY <1>1, LastOf
<1>5. b[K] \in Seq(Letters) /\ s[K] = b[K]
  BY <1>1, <1>3
<1> HIDE DEF s, K, L
<1>6. HasPrefix(s, b)
  <2>1. Front(b) = SubSeq(s, 1, K - 1)
    <3>3. K - 1 \in Nat /\ K - 1 <= Len(b) /\ K - 1 <= Len(s)
      <4>1. Len(b) = K
        BY DEF K
      <4> QED BY <1>1, <1>2, <1>3, <4>1
    <3>4. \A i \in 1..(K - 1) : i \in 1..K
      BY <1>1
    <3>1. K - 1 \in Nat /\ K - 1 <= Len(b) /\ K - 1 <= Len(s) /\ \A i \in 1..(K - 1) : b[i] = s[i]
      BY <1>3, <3>3, <3>4
    <3> DEFINE M == K - 1
    <3>2. SubSeq(b, 1, M) = SubSeq(s, 1, M)
      <4>1. M \in Nat /\ M <= Len(b) /\ M <= Len(s) /\ \A i \in 1..M : b[i] = s[i]
        BY <3>1
      <4> HIDE DEF M
      <4> QED BY <1>1, <1>3, <4>1
    <3> QED BY <1>4, <3>2
  <2>2. IsPrefix(Last(b), s[K])
    BY <1>4, <1>5, PrefixOfItself
  <2>3. K <= Len(s)
    BY <1>1, <1>2, <1>3
  <2> QED BY <2>1, <2>2, <2>3 DEF HasPrefix, K
<1>7. SubSeq(s[K], Len(Last(b)) + 1, Len(s[K])) = <<>>
  <2> DEFINE x == b[K]
  <2>1. x \in Seq(Letters) /\ Last(b) = x /\ s[K] = x
    BY <1>4, <1>5
  <2> HIDE DEF x
  <2>2. SubSeq(x, Len(x) + 1, Len(x)) = <<>>
    BY <2>1
  <2> QED BY <2>1, <2>2
<1>8. SubSeq(s, K + 1, Len(s)) = names
  <2> DEFINE u == SubSeq(s, K + 1, K + L)
  <2>1. u \in Seq(Seq(Letters)) /\ Len(u) = L /\ \A i \in 1..L : u[i] = s[K + i]
    BY <1>1, <1>2, <1>3
  <2> HIDE DEF u
  <2>2. u = names
    BY <1>2, <1>3, <2>1, SameSeq DEF L
  <2> QED BY <1>3, <2>2 DEF u
<1> QED BY <1>6, <1>7, <1>8 DEF TrimPrefix, Cat, EmptyPath, K, s

(* With a slash after it, the directory is cut off with the slash. *)
LEMMA TrimSlash ==
    ASSUME NEW b \in Strings, NEW names \in NamePaths
    PROVE  TrimPrefix(Cat(b, names), Append(b, <<>>)) = names
<1> DEFINE s == Cat(b, names)
           p == Append(b, <<>>)
           K == Len(b)
           L == Len(names)
<1>1. b \in Seq(Seq(Letters)) /\ b # <<>> /\ K \in Nat /\ K >= 1
  BY DEF Strings
<1>2. L \in Nat /\ L >= 1 /\ names \in Seq(Seq(Letters)) /\ names[1] \in Seq(Letters)
  BY NamesAre
<1>3. /\ s \in Seq(Seq(Letters)) /\ Len(s) = K + L
      /\ \A i \in 1..K : s[i] = b[i]
      /\ \A i \in 1..L : s[K + i] = names[i]
  BY <1>1, CatNames
<1>4. /\ p \in Seq(Seq(Letters)) /\ Len(p) = K + 1 /\ p[K + 1] = <<>> /\ p # <<>>
      /\ \A i \in 1..K : p[i] = b[i]
  <2>1. <<>> \in Seq(Letters)
    OBVIOUS
  <2>2. p \in Seq(Seq(Letters)) /\ Len(p) = K + 1 /\ p[K + 1] = <<>> /\ \A i \in 1..K : p[i] = b[i]
    BY <1>1, <2>1, AppendProperties
  <2> HIDE DEF p, K
  <2> QED BY <1>1, <2>2
<1> HIDE DEF s, p, K, L
<1>5. s[K + 1] = names[1]
  BY <1>2, <1>3
<1>6. Last(p) = <<>> /\ Front(p) = SubSeq(p, 1, K)
  <2>1. Last(p) = p[Len(p)] /\ Front(p) = SubSeq(p, 1, Len(p) - 1)
    BY <1>4, LastOf
  <2>2. Len(p) - 1 = K
    BY <1>1, <1>4
  <2> QED BY <1>4, <2>1, <2>2
<1>7. HasPrefix(s, p)
  <2>1. SubSeq(p, 1, K) = SubSeq(s, 1, K)
    <3>1. K <= Len(p) /\ K <= Len(s) /\ \A i \in 1..K : p[i] = s[i]
      BY <1>1, <1>2, <1>3, <1>4
    <3> QED BY <1>1, <1>3, <1>4, <3>1
  <2>2. IsPrefix(<<>>, s[K + 1])
    BY <1>2, <1>5, PrefixOfItself
  <2>3. Len(p) <= Len(s) /\ Len(p) - 1 = K
    BY <1>1, <1>2, <1>3, <1>4
  <2> QED BY <1>4, <1>6, <2>1, <2>2, <2>3 DEF HasPrefix
<1>8. SubSeq(s[K + 1], Len(Last(p)) + 1, Len(s[K + 1])) = names[1]
  <2> DEFINE x == names[1]
  <2>1. x \in Seq(Letters) /\ s[K + 1] = x /\ Last(p) = <<>>
    BY <1>2, <1>5, <1>6
  <2> HIDE DEF x
  <2>2. SubSeq(x, 1, Len(x)) = x /\ Len(<<>>) + 1 = 1
    BY <2>1
  <2> QED BY <2>1, <2>2 DEF x
<1> DEFINE more == SubSeq(s, K + 2, K + L)
           x == names[1]
           first == <<x>>
<1>9. more \in Seq(Seq(Letters)) /\ Len(more) = L - 1 /\ \A i \in 1..(L - 1) : more[i] = s[K + (1 + i)]
  BY <1>1, <1>2, <1>3
<1>10. first \in Seq(Seq(Letters)) /\ Len(first) = 1 /\ first[1] = x
  BY <1>2
<1>11. TrimPrefix(s, p) = Cat(first, more)
  <2>1. Len(p) + 1 = K + 2 /\ Len(p) = K + 1 /\ Len(s) = K + L
    BY <1>1, <1>3, <1>4
  <2> QED BY <1>7, <1>8, <2>1 DEF TrimPrefix, Cat
<1> DEFINE t == Cat(first, more)
<1>12. Cat(first, more) = names
  <2> HIDE DEF first, more, x
  <2>1. /\ t \in Seq(Seq(Letters)) /\ Len(t) = 1 + (L - 1)
        /\ \A i \in 1..(1 + (L - 1)) : t[i] = IF i <= 1 THEN first[i] ELSE more[i - 1]
    <3>1. /\ t \in Seq(Seq(Letters)) /\ Len(t) = Len(first) + Len(more)
          /\ \A i \in 1..(Len(first) + Len(more)) : t[i] = IF i <= Len(first) THEN first[i] ELSE more[i - Len(first)]
      BY <1>9, <1>10, CatProperties
    <3> HIDE DEF t
    <3> QED BY <1>9, <1>10, <3>1
  <2> HIDE DEF t
  <2>2. ASSUME NEW i \in 1..L PROVE t[i] = names[i]
    <3>1. i \in 1..(1 + (L - 1)) /\ (i <= 1 => i = 1)
      BY <1>2
    <3>2. CASE i <= 1
      BY <1>10, <2>1, <3>1, <3>2 DEF x
    <3>3. CASE ~(i <= 1)
      <4>1. i - 1 \in 1..(L - 1) /\ 1 + (i - 1) = i
        BY <1>2, <3>3
      <4>2. more[i - 1] = s[K + (1 + (i - 1))]
        BY <1>9, <4>1
      <4> QED BY <1>3, <2>1, <3>1, <3>3, <4>1, <4>2
    <3> QED BY <3>2, <3>3
  <2>3. Len(t) = L
    BY <1>2, <2>1
  <2>4. t = names
    BY <1>2, <2>1, <2>2, <2>3, SameSeq DEF L
  <2> QED BY <2>4 DEF t
<1> QED BY <1>11, <1>12 DEF s, p

(* The path of an entry that SFTP finds: names after what path.Clean makes *)
(* of --sftp-remote-path.                                                  *)
LEMMA ServerPathIs ==
    ASSUME NEW e, NEW below, below = Element[e], below \in NamePaths,
           Directory = EmptyPath \/ Directory \in NamePaths,
           remotePath \in Strings, remotePath = EmptyPath \/ IsServerPath(remotePath)
    PROVE  /\ KeyOf(e) \in NamePaths
           /\ ServerPath(e) = IF remotePath = EmptyPath THEN KeyOf(e)
                              ELSE Cat(Before(Clean(remotePath)), KeyOf(e))
<1> DEFINE names == IF Directory = EmptyPath THEN below ELSE Cat(Directory, below)
           c == Clean(remotePath)
           b == Before(c)
<1>1. names \in NamePaths
  BY NamesJoined
<1>2. below # EmptyPath /\ (Directory \in NamePaths => Directory # EmptyPath)
  <2>1. <<>> \in Seq(Seq(Letters))
    OBVIOUS
  <2> QED BY <2>1, NamesAreNotEmpty
<1>3. KeyOf(e) = names
  <2>1. CASE Directory = EmptyPath
    BY <1>2, <2>1, CleanPlain, JoinIs DEF KeyOf
  <2>2. CASE Directory # EmptyPath
    <3>1. Clean(Cat(Directory, below)) = Cat(Directory, below)
      BY <1>1, <2>2, CleanPlain
    <3> QED BY <1>2, <2>2, <3>1, JoinIs DEF KeyOf
  <2> QED BY <2>1, <2>2
<1>4. ServerPath(e) = JoinPaths(JoinPaths(remotePath, Directory), below)
  BY DEF ServerPath
<1>5. CASE remotePath = EmptyPath
  <2>1. ServerPath(e) = KeyOf(e)
    <3>1. CASE Directory = EmptyPath
      <4>1. JoinPaths(EmptyPath, EmptyPath) = EmptyPath
        BY DEF JoinPaths
      <4> QED BY <1>4, <1>5, <3>1, <4>1 DEF KeyOf
    <3>2. CASE Directory # EmptyPath
      <4>1. JoinPaths(EmptyPath, Directory) = Directory
        BY <3>2, CleanPlain, JoinIs
      <4> QED BY <1>4, <1>5, <4>1 DEF KeyOf
    <3> QED BY <3>1, <3>2
  <2> QED BY <1>1, <1>3, <1>5, <2>1
<1>6. CASE remotePath # EmptyPath
  <2>1. /\ c \in Strings /\ b \in Seq(Seq(Letters)) /\ c # EmptyPath
        /\ Clean(Cat(remotePath, names)) = Cat(b, names)
    BY <1>1, <1>6, CleanJoins
  <2>2. Clean(c) = c
    BY <1>6, <2>1, CleanTwice
  <2>3. \A more \in NamePaths : Clean(Cat(c, more)) = Cat(b, more)
    BY <2>1, <2>2, CleanJoins
  <2>4. \A more \in NamePaths : Clean(Cat(b, more)) = Cat(b, more)
    <3> SUFFICES ASSUME NEW more \in NamePaths PROVE Clean(Cat(b, more)) = Cat(b, more)
      OBVIOUS
    <3>1. CASE c = Slash
      <4>1. b = EmptyPath
        BY <3>1 DEF Before
      <4> HIDE DEF b
      <4> QED BY <4>1, CleanPlain
    <3>2. CASE c # Slash /\ c = <<Dot>>
      <4>1. b = <<>>
        BY <3>2 DEF Before
      <4>2. Cat(<<>>, more) = more
        BY NamesAre, CatEmpty
      <4> HIDE DEF b
      <4> QED BY <4>1, <4>2, CleanPlain
    <3>3. CASE c # Slash /\ c # <<Dot>>
      <4>1. b = c
        BY <3>3 DEF Before
      <4> QED BY <2>3, <4>1
    <3> QED BY <3>1, <3>2, <3>3
  <2> HIDE DEF b, c
  <2>5. CASE Directory = EmptyPath
    <3>1. JoinPaths(remotePath, Directory) = c
      BY <1>2, <1>6, <2>5, JoinIs DEF c
    <3>2. JoinPaths(c, below) = Cat(b, below)
      BY <1>2, <2>1, <2>3, JoinIs
    <3> QED BY <1>1, <1>3, <1>4, <1>6, <2>5, <3>1, <3>2 DEF b, c
  <2>6. CASE Directory # EmptyPath
    <3>1. JoinPaths(remotePath, Directory) = Cat(b, Directory)
      <4>1. Clean(Cat(remotePath, Directory)) = Cat(b, Directory)
        BY <1>6, <2>6, CleanJoins DEF b, c
      <4> QED BY <1>6, <2>6, <4>1, JoinIs
    <3>2. Cat(b, Directory) # EmptyPath
      BY <2>1, <2>6, NamesAreNotEmpty
    <3>3. Cat(Cat(b, Directory), below) = Cat(b, Cat(Directory, below))
      <4>1. Directory \in Seq(Seq(Letters)) /\ below \in Seq(Seq(Letters))
        BY <2>6, NamesAre
      <4> QED BY <2>1, <4>1, CatAssociates
    <3>4. JoinPaths(Cat(b, Directory), below) = Clean(Cat(b, Cat(Directory, below)))
      BY <1>2, <3>2, <3>3, JoinIs
    <3>5. Cat(Directory, below) = names
      BY <2>6
    <3>6. ServerPath(e) = Cat(b, names)
      <4> HIDE DEF names
      <4> QED BY <1>1, <1>4, <2>4, <3>1, <3>4, <3>5
    <3> QED BY <1>1, <1>3, <1>6, <3>6 DEF b, c
  <2> QED BY <2>5, <2>6
<1> QED BY <1>5, <1>6

(* A path has the elements of its prefix, but perhaps the last. *)
LEMMA PrefixAgrees ==
    ASSUME NEW s \in Seq(Seq(Letters)), NEW p \in Seq(Seq(Letters)), p # <<>>, HasPrefix(s, p),
           NEW i \in 1..(Len(p) - 1)
    PROVE  p[i] = s[i]
<1> DEFINE n == Len(p) - 1
<1>1. n \in Nat /\ n <= Len(p) /\ n <= Len(s) /\ i \in 1..n
  <2>1. Len(p) \in Nat /\ Len(p) >= 1 /\ Len(s) \in Nat
    OBVIOUS
  <2>2. Len(p) <= Len(s)
    BY DEF HasPrefix
  <2> QED BY <2>1, <2>2
<1>2. SubSeq(p, 1, n) = SubSeq(s, 1, n)
  BY DEF HasPrefix, Front
<1> HIDE DEF n
<1>3. SubSeq(p, 1, n)[i] = p[i] /\ SubSeq(s, 1, n)[i] = s[i]
  BY <1>1
<1> QED BY <1>2, <1>3

(* A path that does not begin with a slash and not with a longer one. *)
LEMMA TrimNothing ==
    ASSUME NEW names \in NamePaths
    PROVE  /\ TrimPrefix(names, EmptyPath) = names
           /\ TrimPrefix(names, << Dot, <<>> >>) = names
           /\ ~IsPrefix(Dot, names[1]) => TrimPrefix(names, << Dot >>) = names
           /\ TrimPrefix(Cat(EmptyPath, names), << <<>>, <<>>, <<>> >>) = Cat(EmptyPath, names)
<1>1. names \in Seq(Seq(Letters)) /\ Len(names) \in Nat /\ Len(names) >= 1
      /\ names[1] \in Seq(Letters) /\ names[1] # <<>> /\ names[1] # Dot
  BY NamesAre
<1>2. TrimPrefix(names, EmptyPath) = names
  <2> DEFINE x == names[1]
             L == Len(names)
             first == <<x>>
             more == SubSeq(names, 2, L)
  <2>1. Len(EmptyPath) = 1 /\ Last(EmptyPath) = <<>> /\ Len(<<>>) + 1 = 1
    BY DEF EmptyPath, Last
  <2>2. SubSeq(x, 1, Len(x)) = x
    BY <1>1
  <2>3. TrimPrefix(names, EmptyPath) \in {names, Cat(first, more)}
    <3> DEFINE p == EmptyPath
    <3>1. Len(p) = 1 /\ Len(p) + 1 = 2 /\ Len(Last(p)) + 1 = 1
      BY <2>1
    <3> HIDE DEF p
    <3>2. CASE HasPrefix(names, p)
      <4>1. TrimPrefix(names, p) =
              << SubSeq(names[Len(p)], Len(Last(p)) + 1, Len(names[Len(p)])) >> \o SubSeq(names, Len(p) + 1, Len(names))
        BY <3>2 DEF TrimPrefix
      <4>2. names[Len(p)] = x
        BY <3>1
      <4> HIDE DEF x, L
      <4>3. TrimPrefix(names, p) = << SubSeq(x, 1, Len(x)) >> \o SubSeq(names, 2, Len(names))
        BY <3>1, <4>1, <4>2
      <4> QED BY <2>2, <4>3 DEF L, p, Cat
    <3>3. CASE ~HasPrefix(names, p)
      BY <3>3 DEF TrimPrefix, p
    <3> QED BY <3>2, <3>3
  <2> HIDE DEF L
  <2>4. more \in Seq(Seq(Letters)) /\ Len(more) = L - 1 /\ \A i \in 1..(L - 1) : more[i] = names[1 + i]
    <3>1. L \in Nat /\ L >= 1 /\ L = Len(names) /\ names \in Seq(Seq(Letters))
      BY <1>1 DEF L
    <3> QED BY <3>1
  <2>5. first \in Seq(Seq(Letters)) /\ Len(first) = 1 /\ first[1] = x
    BY <1>1
  <2> DEFINE t == Cat(first, more)
  <2> HIDE DEF first, more, L
  <2>6. /\ t \in Seq(Seq(Letters)) /\ Len(t) = Len(first) + Len(more)
        /\ \A i \in 1..(Len(first) + Len(more)) : t[i] = IF i <= Len(first) THEN first[i] ELSE more[i - Len(first)]
    BY <2>4, <2>5, CatProperties
  <2> HIDE DEF t
  <2>7. ASSUME NEW i \in 1..L PROVE t[i] = names[i]
    <3>1. i \in 1..(Len(first) + Len(more)) /\ (i <= 1 => i = 1) /\ L \in Nat
      BY <1>1, <2>4, <2>5 DEF L
    <3>2. CASE i <= 1
      BY <2>5, <2>6, <3>1, <3>2
    <3>3. CASE ~(i <= 1)
      <4>1. i - 1 \in 1..(L - 1) /\ 1 + (i - 1) = i
        BY <3>1, <3>3
      <4> QED BY <2>4, <2>5, <2>6, <3>1, <3>3, <4>1
    <3> QED BY <3>2, <3>3
  <2>8. Len(t) = L
    BY <1>1, <2>4, <2>5, <2>6 DEF L
  <2>9. t = names
    BY <1>1, <2>6, <2>7, <2>8, SameSeq DEF L
  <2> QED BY <2>3, <2>9 DEF t
<1>3. TrimPrefix(names, << Dot, <<>> >>) = names
  <2> DEFINE p == << Dot, <<>> >>
  <2>1. p \in Seq(Seq(Letters)) /\ p # <<>> /\ Len(p) = 2 /\ p[1] = Dot
    BY DEF Dot, Letters
  <2> HIDE DEF p
  <2>2. HasPrefix(names, p) => p[1] = names[1]
    <3>1. 1 \in 1..(Len(p) - 1)
      BY <2>1
    <3> QED BY <1>1, <2>1, <3>1, PrefixAgrees
  <2>3. ~HasPrefix(names, p)
    BY <1>1, <2>1, <2>2
  <2> QED BY <2>3 DEF TrimPrefix, p
<1>4. ASSUME ~IsPrefix(Dot, names[1]) PROVE TrimPrefix(names, << Dot >>) = names
  <2>1. Last(<<Dot>>) = Dot /\ Len(<<Dot>>) = 1
    BY DEF Last
  <2> QED BY <1>4, <2>1 DEF TrimPrefix, HasPrefix
<1>5. TrimPrefix(Cat(EmptyPath, names), << <<>>, <<>>, <<>> >>) = Cat(EmptyPath, names)
  <2> DEFINE p == << <<>>, <<>>, <<>> >>
             s == Cat(EmptyPath, names)
  <2>1. p \in Seq(Seq(Letters)) /\ p # <<>> /\ Len(p) = 3 /\ p[2] = <<>>
    <3>1. <<>> \in Seq(Letters)
      OBVIOUS
    <3> QED BY <3>1
  <2> HIDE DEF p
  <2>2. s \in Seq(Seq(Letters)) /\ s[1 + 1] = names[1]
    <3>1. 1 \in 1..Len(names)
      BY <1>1
    <3> QED BY <1>1, <3>1, CatEmptyPath
  <2> HIDE DEF s
  <2>3. HasPrefix(s, p) => p[2] = s[2]
    <3>1. 2 \in 1..(Len(p) - 1)
      BY <2>1
    <3> QED BY <2>1, <2>2, <3>1, PrefixAgrees
  <2>4. s[2] # <<>>
    BY <1>1, <2>2
  <2>5. ~HasPrefix(s, p)
    BY <2>1, <2>3, <2>4
  <2> QED BY <2>5 DEF TrimPrefix, s, p
<1> QED BY <1>2, <1>3, <1>4, <1>5

(* So the path that is returned is that from the directory of the backup. *)
LEMMA PathIsKey ==
    ASSUME NEW e, Element[e] \in NamePaths, Directory = EmptyPath \/ Directory \in NamePaths,
           remotePath \in Strings, remotePath = EmptyPath \/ IsServerPath(remotePath),
           ~LosesDot(e)
    PROVE  GetPath(e) = KeyOf(e)
<1> DEFINE names == KeyOf(e)
           c == Clean(remotePath)
           b == Before(c)
           cut == TrimPrefix(ServerPath(e), remotePath)
<1>1. /\ names \in NamePaths
      /\ ServerPath(e) = IF remotePath = EmptyPath THEN names ELSE Cat(b, names)
  BY ServerPathIs
<1> HIDE DEF names
<1>2. /\ names[1] # <<>> /\ names # EmptyPath /\ names \in Seq(Seq(Letters)) /\ names # <<>>
      /\ Cat(EmptyPath, names) # EmptyPath /\ Cat(<<>>, names) = names
      /\ Cat(EmptyPath, names)[1] = <<>> /\ Tail(Cat(EmptyPath, names)) = names
  <2>1. names[1] # <<>> /\ names \in Seq(Seq(Letters)) /\ Len(names) >= 1
    BY <1>1, NamesAre
  <2>2. EmptyPath \in Seq(Seq(Letters)) /\ <<>> \in Seq(Seq(Letters))
    BY DEF EmptyPath
  <2>3. names # EmptyPath /\ Cat(EmptyPath, names) # EmptyPath
    BY <1>1, <2>2, NamesAreNotEmpty
  <2> DEFINE t == Cat(EmptyPath, names)
             u == Tail(t)
             L == Len(names)
  <2>4. /\ t \in Seq(Seq(Letters)) /\ Len(t) = 1 + L /\ t[1] = <<>>
        /\ \A i \in 1..L : t[1 + i] = names[i]
    BY <2>1, CatEmptyPath
  <2>5. L \in Nat
    BY <2>1
  <2> HIDE DEF t
  <2>6. u \in Seq(Seq(Letters)) /\ Len(u) = L /\ \A i \in 1..L : u[i] = t[i + 1]
    BY <2>4, <2>5
  <2> HIDE DEF u
  <2>7. \A i \in 1..L : i + 1 = 1 + i
    BY <2>5
  <2>8. u = names
    BY <2>1, <2>4, <2>6, <2>7, SameSeq
  <2> QED BY <2>1, <2>3, <2>4, <2>8, CatEmpty DEF t, u
<1>3. cut = names \/ cut = Cat(EmptyPath, names)
  <2>1. CASE remotePath = EmptyPath
    BY <1>1, <2>1, TrimNothing
  <2>2. CASE remotePath # EmptyPath
    <3>1. c \in Strings /\ c # EmptyPath /\ cut = TrimPrefix(Cat(b, names), remotePath)
      BY <1>1, <2>2, CleanJoins
    <3>2. remotePath = c \/ remotePath = Append(c, <<>>)
      BY <2>2 DEF IsServerPath
    <3> HIDE DEF c, cut
    <3>3. CASE c = Slash
      <4>1. b = EmptyPath /\ c = Append(EmptyPath, <<>>)
            /\ Append(c, <<>>) = << <<>>, <<>>, <<>> >>
        BY <3>3, Appended DEF Before, EmptyPath, Slash
      <4>2. EmptyPath \in Strings
        BY DEF EmptyPath, Strings
      <4>3. TrimPrefix(Cat(EmptyPath, names), c) = names
        BY <1>1, <4>1, <4>2, TrimSlash
      <4>4. TrimPrefix(Cat(EmptyPath, names), Append(c, <<>>)) = Cat(EmptyPath, names)
        BY <1>1, <4>1, TrimNothing
      <4> QED BY <3>1, <3>2, <4>1, <4>3, <4>4
    <3>4. CASE c # Slash /\ c = <<Dot>>
      <4>1. b = <<>> /\ Append(c, <<>>) = << Dot, <<>> >>
        BY <3>4, Appended DEF Before
      <4>2. remotePath = c => TrimPrefix(names, c) = names
        <5>1. remotePath = c => ~IsPrefix(Dot, names[1])
          BY <3>4 DEF LosesDot, names
        <5> QED BY <1>1, <3>4, <5>1, TrimNothing
      <4>3. TrimPrefix(names, Append(c, <<>>)) = names
        BY <1>1, <4>1, TrimNothing
      <4> QED BY <1>2, <3>1, <3>2, <4>1, <4>2, <4>3
    <3>5. CASE c # Slash /\ c # <<Dot>>
      <4>1. b = c
        BY <3>5 DEF Before
      <4>2. TrimPrefix(Cat(c, names), c) = Cat(EmptyPath, names)
        BY <1>1, <3>1, TrimWhole
      <4>3. TrimPrefix(Cat(c, names), Append(c, <<>>)) = names
        BY <1>1, <3>1, TrimSlash
      <4> QED BY <3>1, <3>2, <4>1, <4>2, <4>3
    <3> QED BY <3>3, <3>4, <3>5
  <2> QED BY <2>1, <2>2
<1>4. GetPath(e) = IF cut # EmptyPath /\ cut[1] = <<>> THEN Tail(cut) ELSE cut
  BY DEF GetPath
<1> HIDE DEF cut
<1> QED BY <1>2, <1>3, <1>4 DEF names

(* The entries that SFTP finds are those of names, --sftp-remote-path is   *)
(* that of the start.                                                      *)
PathInv == remotePath \in RemotePaths \cup {EmptyPath}

LEMMA PathStep == PathInv /\ [ListingNext]_listingVars => PathInv'
BY DEF PathInv, ListingNext, ListingStep, ListObjects, ListPage, ListPageFails, ReadDir, ReadDirFails,
       ArqChanges, listingVars

(* Whatever is listed, its path is right. *)
LEMMA PathsAreKeys == ListingTypeOK /\ ExactInv /\ PathInv => ListedIsWhereItWas
<1> SUFFICES ASSUME ListingTypeOK, ExactInv, PathInv, backend = "sftp",
                    remotePath \in {Clean(remotePath), Append(Clean(remotePath), <<>>), EmptyPath},
                    NEW e \in objects
             PROVE  GetPath(e) = KeyOf(e) \/ LosesDot(e)
  BY DEF ListedIsWhereItWas
<1>1. PICK n \in Name : e = EntryOf["/"][n]
  BY DEF ExactInv, ListingIsExact, Shown, ListingTypeOK
<1>2. STRING \subseteq Letters
  BY DEF Letters
<1>3. Seq(Seq(STRING)) \subseteq Seq(Seq(Letters))
  <2>1. Seq(STRING) \subseteq Seq(Letters)
    BY <1>2, SeqsOfMore
  <2> QED BY <2>1, SeqsOfMore
<1>4. \A path : IsNames(path) => path \in NamePaths
  BY <1>3 DEF IsNames, NamePaths, Strings
<1>5. Element[e] \in NamePaths /\ (Directory = EmptyPath \/ Directory \in NamePaths)
  BY <1>1, <1>4, ListingAssumption DEF ListingAssumption
<1>6. remotePath \in Strings
  <2>1. EmptyPath \in Strings
    BY DEF EmptyPath, Strings
  <2> QED BY <1>3, <2>1, ListingAssumption DEF ListingAssumption, PathInv, Strings
<1>7. remotePath = EmptyPath \/ IsServerPath(remotePath)
  BY DEF IsServerPath
<1> QED BY <1>5, <1>6, <1>7, PathIsKey

(***************************************************************************)
(* The path SFTP returns for an entry, of a backup set or of anything in   *)
(* one, is the one it is asked for with, for any --sftp-remote-path that   *)
(* path.Clean leaves as it is.                                             *)
(***************************************************************************)
THEOREM ListedAlways == ListingSpec => []ListedIsWhereItWas
<1>1. ListingInit => ExactInv /\ PathInv
  BY FS_EmptySet DEF ListingInit, ExactInv, CollectedOnce, ListingIsExact, Delimiter, PathInv
<1> QED
  BY <1>1, PathsAreKeys, TypeCorrect, ExactStep, PathStep, PTL DEF ListingSpec
--------------------------------------------------------------------------------
(***************************************************************************)
(* The whole connection: lists and downloads of a store that changes while *)
(* a list is made.  A step of the one leaves the other alone.              *)
(***************************************************************************)

(* What is true of a listing, and of what is known of it. *)
ListingInv == ListingTypeOK /\ CompleteInv /\ ExactInv /\ PathInv

(* What the list says is no more looked at once the downloads begin. *)
LEMMA TakenKeepsListingInv ==
    ASSUME ListingInv, ListIsTaken, UNCHANGED <<backend, remotePath, stored>>
    PROVE  ListingInv'
<1>1. ListingTypeOK'
  BY DEF ListingInv, ListIsTaken, ListingTypeOK, Delimiter
<1>2. CompleteInv'
  BY DEF ListIsTaken, CompleteInv, CollectedToMarker, ListingIsComplete
<1>3. ExactInv'
  <2>1. objects' = {} /\ appended' = 0 /\ listing' = "none"
    BY DEF ListIsTaken
  <2>2. \E d \in Delimiter : objects' \subseteq Entries(d)
    BY <2>1 DEF Delimiter
  <2> QED BY <2>1, <2>2, FS_EmptySet DEF ExactInv, ListingIsExact, CollectedOnce
<1>4. PathInv'
  BY DEF ListingInv, PathInv
<1> QED BY <1>1, <1>2, <1>3, <1>4 DEF ListingInv

(* Every step of the connection is one of the listing, or it takes the     *)
(* list, or it leaves the listing alone.                                   *)
LEMMA ConnectionStepsList ==
    ASSUME [ConnectionNext]_vars
    PROVE  \/ [ListingNext]_listingVars
           \/ ListIsTaken /\ UNCHANGED <<backend, remotePath, stored>>
<1>1. CASE Lists
  BY <1>1 DEF Lists, ListingNext
<1>2. CASE ListGoesOn
  BY <1>2 DEF ListGoesOn, ListingNext
<1>3. ASSUME NEW n \in Name, ArqStores(n) PROVE ListingNext
  BY <1>3 DEF ArqStores, ListingNext
<1>4. CASE Downloads
  BY <1>4 DEF Downloads, Asks
<1>5. CASE DownloadGoesOn
  <2>1. UNCHANGED backend
    BY <1>5 DEF DownloadGoesOn, Takes, ConnectorStep, CacheHit, CacheMiss, Create, CreateFails,
                Open, OpenFails, FailsRemoving, CopySome, CopyEnds, CopyFails, FlushFails,
                Goto
  <2> QED BY <1>5, <2>1 DEF DownloadGoesOn, listVars, listingVars
<1>6. CASE ConnectionDies
  BY <1>6 DEF ConnectionDies, Dies, listVars, listingVars
<1>7. CASE UNCHANGED vars
  BY <1>7 DEF vars, connectorVars, listVars, listingVars
<1> QED BY <1>1, <1>2, <1>3, <1>4, <1>5, <1>6, <1>7 DEF ConnectionNext

(* It is one of the connector, or it changes only what is in the store.    *)
LEMMA ConnectionStepsDownload ==
    ASSUME [ConnectionNext]_vars
    PROVE  \/ [ConnectorNext]_connectorVars
           \/ (\E n \in Name : ArqStores(n)) /\ UNCHANGED <<backend, host, cache, at, want, faults>>
<1>1. CASE Lists
  BY <1>1 DEF Lists
<1>2. CASE ListGoesOn
  BY <1>2 DEF ListGoesOn
<1>3. ASSUME NEW n \in Name, ArqStores(n)
      PROVE  UNCHANGED <<backend, host, cache, at, want, faults>>
  BY <1>3 DEF ArqStores
<1>4. CASE Downloads
  BY <1>4 DEF Downloads, ConnectorNext
<1>5. CASE DownloadGoesOn
  BY <1>5 DEF DownloadGoesOn, ConnectorNext
<1>6. CASE ConnectionDies
  BY <1>6 DEF ConnectionDies, ConnectorNext
<1>7. CASE UNCHANGED vars
  BY <1>7 DEF vars
<1> QED BY <1>1, <1>2, <1>3, <1>4, <1>5, <1>6, <1>7 DEF ConnectionNext

(* The downloads' invariant says nothing of which objects are there. *)
LEMMA StoredKeepsCInv ==
    ASSUME CInv, NEW n \in Name, ArqStores(n)
    PROVE  CInv'
<1>1. remote' \in [Key -> Content] /\ UNCHANGED <<backend, host, cache, at, want, faults>>
  BY DEF CInv, ConnectorTypeOK, ArqStores, Content
<1> QED BY <1>1 DEF CInv, ConnectorTypeOK, KeysAreApart, MadeIsEmpty

(***************************************************************************)
(* A connection that lists and downloads by turns, on any host and with    *)
(* any failures, keeps the invariants of both: a list that begins over     *)
(* whatever downloads have left, and downloads after any list, while Arq   *)
(* changes what is stored.                                                 *)
(***************************************************************************)
THEOREM ConnectionInvariant == ConnectionSpec => [](CInv /\ ListingInv)
<1>1. ConnectionInit => CInv /\ ListingInv
  <2> SUFFICES ASSUME ConnectionInit PROVE CInv /\ ListingInv
    OBVIOUS
  <2>1. CInv
    BY DEF ConnectionInit, ConnectorInit, CInv, ConnectorTypeOK, KeysAreApart, MadeIsEmpty
  <2>2. ListingTypeOK /\ CompleteInv
    BY DEF ConnectionInit, ListingInit, ListingTypeOK, Delimiter, CompleteInv, CollectedToMarker,
           ListingIsComplete
  <2>3. ExactInv /\ PathInv
    BY FS_EmptySet DEF ConnectionInit, ListingInit, ExactInv, CollectedOnce, ListingIsExact,
                       Delimiter, PathInv
  <2> QED BY <2>1, <2>2, <2>3 DEF ListingInv
<1>2. CInv /\ ListingInv /\ [ConnectionNext]_vars => CInv' /\ ListingInv'
  <2> SUFFICES ASSUME CInv, ListingInv, [ConnectionNext]_vars PROVE CInv' /\ ListingInv'
    OBVIOUS
  <2>1. CInv'
    <3>1. CASE [ConnectorNext]_connectorVars
      BY <3>1, ConnectorStepPreserves, CallerPreserves DEF ConnectorNext
    <3>2. ASSUME NEW n \in Name, ArqStores(n) PROVE CInv'
      BY <3>2, StoredKeepsCInv
    <3> QED BY <3>1, <3>2, ConnectionStepsDownload
  <2>2. ListingInv'
    <3>1. CASE [ListingNext]_listingVars
      BY <3>1, TypeStep, CompleteStep, ExactStep, PathStep DEF ListingInv
    <3>2. CASE ListIsTaken /\ UNCHANGED <<backend, remotePath, stored>>
      BY <3>2, TakenKeepsListingInv
    <3> QED BY <3>1, <3>2, ConnectionStepsList
  <2> QED BY <2>1, <2>2
<1> QED
  BY <1>1, <1>2, PTL DEF ConnectionSpec

(***************************************************************************)
(* What a list promises holds for every list of a connection, before and   *)
(* after its downloads.  (None runs beside them: cachePackSet, for one,    *)
(* waits for all its workers before the next list is asked for.)           *)
(***************************************************************************)
THEOREM ConnectionLists ==
    ConnectionSpec => [](ListingIsComplete /\ ListingIsExact /\ ListedIsWhereItWas)
<1>1. CInv /\ ListingInv => ListingIsComplete /\ ListingIsExact /\ ListedIsWhereItWas
  BY PathsAreKeys DEF ListingInv, CompleteInv, ExactInv
<1> QED
  BY <1>1, ConnectionInvariant, PTL

(***************************************************************************)
(* What its downloads promise holds after every list, too, though Arq has  *)
(* stored and deleted objects while the list was made.                     *)
(***************************************************************************)
THEOREM ConnectionDownloads ==
    ConnectionSpec => CheckedDownloadIsComplete /\ FailedDownloadIsNotReused
<1> DEFINE Checked == \A c \in Client :
              /\ Mover(c, "copy", "ok")
              /\ backend = "s3" \/ (backend = "gcs" /\ "disk" \notin faults')
              => cache'[want[c]] = remote[want[c]]
           NotReused == \A c \in Client :
              /\ host = "unix" /\ "disk" \notin faults'
              /\ at[c] # "err" /\ at'[c] = "err"
              => ~NonZero(cache'[want[c]])
<1>1. CInv /\ ListingInv /\ [ConnectionNext]_vars => [Checked]_connectorVars /\ [NotReused]_connectorVars
  <2> SUFFICES ASSUME CInv, [ConnectionNext]_vars
               PROVE  [Checked]_connectorVars /\ [NotReused]_connectorVars
    OBVIOUS
  <2>1. CASE ConnectorNext
    BY <2>1, CheckedCopyIsComplete, FailedCopyIsNotReused
  <2>2. CASE UNCHANGED connectorVars
    BY <2>2
  <2>3. CASE UNCHANGED <<backend, host, cache, at, want, faults>>
    BY <2>3 DEF Mover
  <2> QED BY <2>1, <2>2, <2>3, ConnectionStepsDownload
<1> QED
  BY <1>1, ConnectionInvariant, PTL
     DEF ConnectionSpec, CheckedDownloadIsComplete, FailedDownloadIsNotReused
================================================================================
