------------------------------ MODULE RestoreProofs -----------------------------
(***************************************************************************)
(* What the commands that look into a backup do, for any backup: any tree  *)
(* of directories, any versions of commit and trees, whatever of it is     *)
(* lost and whatever fails.                                                *)
(***************************************************************************)
EXTENDS Restore, SequenceTheorems, WellFoundedInduction, TLAPS

--------------------------------------------------------------------------------
(***************************************************************************)
(* Sequences. The provers join them only under a name, and a number is     *)
(* reached from another by a set that has each next one.                   *)
(***************************************************************************)

(* A set that has 0 and, with each number, the next has every number. *)
LEMMA Induction ==
    ASSUME NEW T, 0 \in T, \A n \in Nat : n \in T => n + 1 \in T
    PROVE  Nat \subseteq T
<1>1. SUFFICES ASSUME Nat \ T # {} PROVE FALSE
  OBVIOUS
<1> DEFINE Less == OpToRel(<, Nat)
<1>2. IsWellFoundedOn(Less, Nat)
  BY NatLessThanWellFounded
<1>3. \A x, y \in Nat : x < y => <<x, y>> \in Less
  BY DEF OpToRel
<1> HIDE DEF Less
<1>4. PICK n \in Nat \ T : \A m \in Nat \ T : <<m, n>> \notin Less
  BY <1>1, <1>2, WFMin
<1>5. n - 1 \in Nat /\ n - 1 < n /\ (n - 1) + 1 = n
  BY <1>4
<1> QED
  BY <1>3, <1>4, <1>5

(* The same from one number up to another. *)
LEMMA InductionUp ==
    ASSUME NEW a \in Nat, NEW b \in Nat, NEW T, a \in T,
           \A n \in a..(b - 1) : n \in T => n + 1 \in T
    PROVE  a..b \subseteq T
<1> DEFINE U == {n \in Nat : a + n <= b => a + n \in T}
<1>1. 0 \in U
  OBVIOUS
<1>2. ASSUME NEW n \in Nat, n \in U
      PROVE  n + 1 \in U
  <2>1. a + (n + 1) <= b => a + n \in a..(b - 1) /\ (a + n) + 1 = a + (n + 1)
    OBVIOUS
  <2> QED BY <1>2, <2>1
<1>3. Nat \subseteq U
  <2> HIDE DEF U
  <2> QED BY <1>1, <1>2, Induction
<1>4. ASSUME NEW n \in a..b PROVE n \in T
  <2>1. n - a \in Nat /\ a + (n - a) = n
    OBVIOUS
  <2> QED BY <1>3, <2>1
<1> QED
  BY <1>4

(* The same from one number down to another. *)
LEMMA InductionDown ==
    ASSUME NEW a \in Nat, NEW b \in Nat, NEW T, b \in T,
           \A n \in a..(b - 1) : n + 1 \in T => n \in T
    PROVE  a..b \subseteq T
<1> DEFINE U == {n \in Nat : a <= b - n => b - n \in T}
<1>1. 0 \in U
  OBVIOUS
<1>2. ASSUME NEW n \in Nat, n \in U
      PROVE  n + 1 \in U
  <2>1. a <= b - (n + 1) => b - (n + 1) \in a..(b - 1) /\ (b - (n + 1)) + 1 = b - n
    OBVIOUS
  <2> QED BY <1>2, <2>1
<1>3. Nat \subseteq U
  <2> HIDE DEF U
  <2> QED BY <1>1, <1>2, Induction
<1>4. ASSUME NEW n \in a..b PROVE n \in T
  <2>1. b - n \in Nat /\ b - (b - n) = n
    OBVIOUS
  <2> QED BY <1>3, <2>1
<1> QED
  BY <1>4
(* Concatenation, with a name the provers do not look behind. *)
Cat(s, t) == s \o t

(* Two sequences of a set make a sequence of it. *)
LEMMA CatIn ==
    ASSUME NEW S, NEW s \in Seq(S), NEW t \in Seq(S)
    PROVE  Cat(s, t) \in Seq(S)
BY ConcatProperties DEF Cat

(* It does not matter which two of three sequences are joined first. *)
LEMMA CatAssociates ==
    ASSUME NEW S, NEW s \in Seq(S), NEW t \in Seq(S), NEW u \in Seq(S)
    PROVE  Cat(Cat(s, t), u) = Cat(s, Cat(t, u))
BY SMT DEF Cat

(* The empty sequence adds nothing. *)
LEMMA CatEmpty ==
    ASSUME NEW S, NEW s \in Seq(S)
    PROVE  Cat(s, <<>>) = s /\ Cat(<<>>, s) = s
BY ConcatEmptySeq DEF Cat

(* FlattenSeq joins the elements one after the other. *)
LEMMA FlattenIsFold ==
    ASSUME NEW s, Len(s) \in Nat \ {0}
    PROVE  \E flat : /\ FlattenSeq(s) = flat[Len(s)]
                     /\ flat = [i \in 1..Len(s) |-> IF i = 1 THEN s[i] ELSE Cat(flat[i - 1], s[i])]
<1> DEFINE Is(f, n) == f = [i \in 1..n |-> IF i = 1 THEN s[i] ELSE Cat(f[i - 1], s[i])]
           T == {n \in Nat : \E f : Is(f, n)}
<1>1. 0 \in T
  <2>1. Is([i \in 1..0 |-> s[i]], 0)
    OBVIOUS
  <2> QED BY <2>1
<1>2. ASSUME NEW n \in Nat, n \in T PROVE n + 1 \in T
  <2>1. PICK f : Is(f, n)
    BY <1>2
  <2> DEFINE g == [i \in 1..(n + 1) |-> IF i = 1 THEN s[i] ELSE Cat(f[i - 1], s[i])]
  <2>2. \A i \in 1..n : f[i] = IF i = 1 THEN s[i] ELSE Cat(f[i - 1], s[i])
    BY <2>1
  <2>5. \A i \in 1..n : g[i] = f[i]
    BY <2>2
  <2>3. ASSUME NEW i \in 1..(n + 1)
        PROVE  g[i] = IF i = 1 THEN s[i] ELSE Cat(g[i - 1], s[i])
    <3>1. i # 1 => i - 1 \in 1..n
      OBVIOUS
    <3>2. i # 1 => g[i - 1] = f[i - 1]
      <4> HIDE DEF g
      <4> QED BY <2>5, <3>1
    <3> QED BY <3>2
  <2>6. g = [i \in 1..(n + 1) |-> g[i]]
    OBVIOUS
  <2> HIDE DEF g
  <2>4. Is(g, n + 1)
    BY <2>3, <2>6
  <2>7. \E h : Is(h, n + 1)
    <3> HIDE DEF Is
    <3> QED BY <2>4
  <2> HIDE DEF Is
  <2> QED BY <2>7
<1>3. Nat \subseteq T
  <2> HIDE DEF T
  <2> QED BY <1>1, <1>2, Induction
<1>4. \E f : Is(f, Len(s))
  BY <1>3
<1> DEFINE flat == CHOOSE f : Is(f, Len(s))
<1>5. Is(flat, Len(s))
  BY <1>4, Zenon
<1>6. FlattenSeq(s) = flat[Len(s)]
  BY DEF FlattenSeq, Cat
<1> QED
  BY <1>5, <1>6

(* What is left of a flattened sequence after each of its elements. *)
Rests(s, rest) ==
    /\ rest[Len(s)] = <<>>
    /\ \A i \in 0..(Len(s) - 1) : rest[i] = Cat(s[i + 1], rest[i + 1])

(* There are such rests of every sequence of sequences. *)
LEMMA RestsExist ==
    ASSUME NEW S, NEW s \in Seq(Seq(S))
    PROVE  \E rest \in [0..Len(s) -> Seq(S)] : Rests(s, rest)
<1> DEFINE L == Len(s)
           Is(r, n) == /\ r[L] = <<>>
                       /\ \A i \in n..(L - 1) : r[i] = Cat(s[i + 1], r[i + 1])
           T == {n \in 0..L : \E r \in [n..L -> Seq(S)] : Is(r, n)}
<1>0. L \in Nat /\ \A i \in 1..L : s[i] \in Seq(S)
  OBVIOUS
<1> HIDE DEF L
<1>1. L \in T
  <2> DEFINE e == [i \in L..L |-> <<>>]
  <2>1. Is(e, L) /\ e \in [L..L -> Seq(S)]
    <3>1. \A i \in L..(L - 1) : FALSE
      BY <1>0
    <3>2. e[L] = <<>> /\ e \in [L..L -> Seq(S)]
      BY <1>0, EmptySeq
    <3> HIDE DEF e
    <3> QED BY <3>2, <3>1
  <2> HIDE DEF e
  <2>2. \E r \in [L..L -> Seq(S)] : Is(r, L)
    <3> HIDE DEF Is
    <3> QED BY <2>1
  <2> HIDE DEF Is
  <2> QED BY <1>0, <2>2
<1>2. ASSUME NEW n \in 0..(L - 1), n + 1 \in T PROVE n \in T
  <2>1. PICK r \in [(n + 1)..L -> Seq(S)] : Is(r, n + 1)
    <3> HIDE DEF Is
    <3> QED BY <1>2
  <2> DEFINE g == [i \in n..L |-> IF i = n THEN Cat(s[n + 1], r[n + 1]) ELSE r[i]]
  <2>2. g \in [n..L -> Seq(S)]
    BY <1>0, CatIn
  <2>3. ASSUME NEW i \in n..(L - 1)
        PROVE  g[i] = Cat(s[i + 1], g[i + 1])
    <3>1. i + 1 \in (n + 1)..L /\ g[i + 1] = r[i + 1]
      BY <1>0
    <3>2. CASE i = n
      <4>1. g[n] = Cat(s[n + 1], r[n + 1])
        <5>1. n \in n..L
          BY <1>0
        <5> QED BY <5>1
      <4> HIDE DEF g
      <4> QED BY <3>1, <3>2, <4>1
    <3>3. CASE i # n
      <4>1. i \in (n + 1)..(L - 1) /\ g[i] = r[i]
        BY <3>3, <1>0
      <4>2. r[i] = Cat(s[i + 1], r[i + 1])
        BY <4>1, <2>1
      <4> HIDE DEF g
      <4> QED BY <4>1, <4>2, <3>1
    <3> QED BY <3>2, <3>3
  <2>4. g[L] = <<>>
    BY <2>1, <1>0
  <2> HIDE DEF g
  <2>5. Is(g, n)
    BY <2>3, <2>4
  <2> HIDE DEF Is
  <2> QED BY <2>2, <2>5, <1>0
<1>3. 0 \in T
  <2>1. 0..L \subseteq T
    <3> HIDE DEF T
    <3> QED BY <1>0, <1>1, <1>2, InductionDown
  <2>2. 0 \in 0..L
    BY <1>0
  <2> HIDE DEF T
  <2> QED BY <2>1, <2>2
<1>4. \E r \in [0..L -> Seq(S)] : Is(r, 0)
  <2> HIDE DEF Is
  <2> QED BY <1>3
<1> QED
  BY <1>4 DEF Rests, L

(* The rest before the first element is the flattened sequence. *)
LEMMA FlattenSeqRests ==
    ASSUME NEW S, NEW s \in Seq(Seq(S))
    PROVE  \E rest \in [0..Len(s) -> Seq(S)] : Rests(s, rest) /\ rest[0] = FlattenSeq(s)
<1> DEFINE L == Len(s)
<1>0. L \in Nat /\ \A i \in 1..L : s[i] \in Seq(S)
  OBVIOUS
<1>1. PICK rest \in [0..L -> Seq(S)] : Rests(s, rest)
  BY RestsExist
<1>2. rest[L] = <<>> /\ \A i \in 0..(L - 1) : rest[i] = Cat(s[i + 1], rest[i + 1])
  BY <1>1 DEF Rests
<1>3. CASE L = 0
  <2>1. s = <<>> /\ FlattenSeq(s) = s
    BY <1>3 DEF FlattenSeq
  <2> QED BY <1>1, <1>2, <1>3, <2>1
<1>4. CASE L # 0
  <2>1. L \in Nat \ {0}
    BY <1>0, <1>4
  <2>2. PICK flat : /\ FlattenSeq(s) = flat[L]
                    /\ flat = [i \in 1..L |-> IF i = 1 THEN s[i] ELSE Cat(flat[i - 1], s[i])]
    BY <2>1, FlattenIsFold
  <2>3. \A i \in 1..L : flat[i] = IF i = 1 THEN s[i] ELSE Cat(flat[i - 1], s[i])
    BY <2>2
  <2> HIDE DEF L
  <2>4. flat[1] = s[1] /\ \A i \in 1..(L - 1) : flat[i + 1] = Cat(flat[i], s[i + 1])
    <3>1. flat[1] = s[1]
      BY <2>1, <2>3
    <3>2. ASSUME NEW i \in 1..(L - 1) PROVE flat[i + 1] = Cat(flat[i], s[i + 1])
      <4>1. i + 1 \in 1..L /\ i + 1 # 1 /\ (i + 1) - 1 = i
        BY <2>1
      <4> QED BY <4>1, <2>3
    <3> QED BY <3>1, <3>2
  <2> DEFINE T == {n \in 1..L : flat[n] \in Seq(S)}
             U == {n \in 1..L : Cat(flat[n], rest[n]) = flat[L]}
  <2>5. 1..L \subseteq T
    <3>1. 1 \in T
      BY <2>1, <2>4, <1>0
    <3>2. ASSUME NEW n \in 1..(L - 1), n \in T PROVE n + 1 \in T
      <4>1. n + 1 \in 1..L
        BY <2>1
      <4>2. s[n + 1] \in Seq(S) /\ flat[n] \in Seq(S)
        BY <1>0, <4>1, <3>2
      <4>3. flat[n + 1] \in Seq(S)
        <5>1. Cat(flat[n], s[n + 1]) \in Seq(S)
          BY <4>2, CatIn
        <5> QED BY <2>4, <5>1
      <4> QED BY <4>1, <4>3
    <3> HIDE DEF T
    <3> QED BY <3>1, <3>2, <2>1, InductionUp
  <2>6. 1..L \subseteq U
    <3>1. L \in U
      <4>1. L \in 1..L /\ flat[L] \in Seq(S)
        BY <2>1, <2>5
      <4>2. Cat(flat[L], <<>>) = flat[L]
        BY <4>1, CatEmpty
      <4> QED BY <4>1, <4>2, <1>2
    <3>2. ASSUME NEW n \in 1..(L - 1), n + 1 \in U PROVE n \in U
      <4>1. n \in 1..L /\ n + 1 \in 1..L /\ n \in 0..(L - 1) /\ n + 1 \in 0..L
        BY <2>1
      <4>2. s[n + 1] \in Seq(S) /\ flat[n] \in Seq(S) /\ rest[n + 1] \in Seq(S)
        BY <1>0, <1>1, <4>1, <2>5
      <4>3. rest[n] = Cat(s[n + 1], rest[n + 1]) /\ flat[n + 1] = Cat(flat[n], s[n + 1])
        BY <1>2, <2>4, <4>1
      <4>4. Cat(flat[n + 1], rest[n + 1]) = flat[L]
        BY <3>2
      <4>5. Cat(Cat(flat[n], s[n + 1]), rest[n + 1]) = Cat(flat[n], Cat(s[n + 1], rest[n + 1]))
        BY <4>2, CatAssociates
      <4> QED BY <4>1, <4>3, <4>4, <4>5
    <3> HIDE DEF U
    <3> QED BY <3>1, <3>2, <2>1, InductionDown
  <2>7. rest[0] = Cat(s[1], rest[1])
    <3>1. 0 \in 0..(L - 1) /\ 0 + 1 = 1
      BY <2>1
    <3> QED BY <1>2, <3>1
  <2>8. Cat(flat[1], rest[1]) = flat[L]
    <3>1. 1 \in 1..L
      BY <2>1
    <3>2. 1 \in U
      BY <3>1, <2>6
    <3> QED BY <3>2
  <2> QED BY <1>1, <2>2, <2>4, <2>7, <2>8 DEF L
<1> QED
  BY <1>3, <1>4

--------------------------------------------------------------------------------
(***************************************************************************)
(* The cells a commit or a tree is written in, and the reading of those    *)
(* whose kinds are expected.                                               *)
(***************************************************************************)

Header == [type : {Commit, Tree}, version : Nat]
Values == Nat \cup BOOLEAN \cup {Nil} \cup Node \cup Directory \cup Blob \cup Header
          \cup {b.location : b \in Backups}
Kinds == {"header", "count", "string", "boolean", "ints", "date", "data"}
Cells == [kind : Kinds, val : Values]

(* Cells of these kinds. *)
Fits(cells, kinds) ==
    /\ cells \in Seq(Cells) /\ kinds \in Seq(Kinds)
    /\ Len(cells) = Len(kinds)
    /\ \A j \in 1..Len(kinds) : cells[j].kind = kinds[j]

(* Cells of some kinds and cells of others are cells of both in order. *)
LEMMA FitsCat ==
    ASSUME NEW c, NEW k, NEW d, NEW m, Fits(c, k), Fits(d, m)
    PROVE  Fits(c \o d, k \o m)
<1>1. /\ c \o d \in Seq(Cells) /\ k \o m \in Seq(Kinds)
      /\ Len(c \o d) = Len(c) + Len(d) /\ Len(k \o m) = Len(k) + Len(m)
  BY ConcatProperties DEF Fits
<1>2. ASSUME NEW j \in 1..Len(k \o m)
      PROVE  (c \o d)[j].kind = (k \o m)[j]
  <2>1. (c \o d)[j] = IF j <= Len(c) THEN c[j] ELSE d[j - Len(c)]
    BY <1>1 DEF Fits
  <2>2. (k \o m)[j] = IF j <= Len(k) THEN k[j] ELSE m[j - Len(k)]
    BY <1>1 DEF Fits
  <2>3. CASE j <= Len(k)
    BY <2>1, <2>2, <2>3, <1>1 DEF Fits
  <2>4. CASE ~(j <= Len(k))
    <3>1. j - Len(k) \in 1..Len(m)
      BY <2>4, <1>1 DEF Fits
    <3> QED BY <2>1, <2>2, <2>4, <3>1 DEF Fits
  <2> QED BY <2>3, <2>4
<1> QED
  BY <1>1, <1>2 DEF Fits

(* No cells are of no kinds. *)
LEMMA FitsEmpty == Fits(<<>>, <<>>)
<1>1. <<>> \in Seq(Cells) /\ <<>> \in Seq(Kinds) /\ Len(<<>>) = 0
  OBVIOUS
<1> QED BY <1>1 DEF Fits

(* A field that only some versions have is of its kind if it is there. *)
LEMMA FitsWhen ==
    ASSUME NEW p, NEW c, NEW k, Fits(c, k)
    PROVE  Fits(When(p, c), When(p, k))
<1>1. <<>> \in Seq(Cells) /\ <<>> \in Seq(Kinds) /\ Len(<<>>) = 0
  OBVIOUS
<1>2. Fits(<<>>, <<>>)
  BY <1>1 DEF Fits
<1>3. CASE p
  BY <1>3 DEF When
<1>4. CASE ~p
  BY <1>2, <1>4 DEF When
<1> QED BY <1>3, <1>4

(* A cell has its kind and its value. *)
LEMMA CellIn ==
    ASSUME NEW kind \in Kinds, NEW v \in Values
    PROVE  Cell(kind, v) \in Cells /\ Cell(kind, v).kind = kind /\ Cell(kind, v).val = v
BY DEF Cell, Cells

(* A cell is one cell of its kind. *)
LEMMA FitsCell ==
    ASSUME NEW kind \in Kinds, NEW v \in Values
    PROVE  Fits(<<Cell(kind, v)>>, <<kind>>)
BY CellIn DEF Fits

(* What two sequences that are joined have at each place. *)
LEMMA CatProperties ==
    ASSUME NEW S, NEW s \in Seq(S), NEW t \in Seq(S)
    PROVE  /\ Cat(s, t) \in Seq(S) /\ Len(Cat(s, t)) = Len(s) + Len(t)
           /\ \A i \in 1..(Len(s) + Len(t)) :
                  Cat(s, t)[i] = IF i <= Len(s) THEN s[i] ELSE t[i - Len(s)]
BY ConcatProperties DEF Cat

(* One more element at the end. *)
LEMMA AppendIs ==
    ASSUME NEW S, NEW s \in Seq(S), NEW x \in S
    PROVE  /\ Append(s, x) \in Seq(S) /\ Len(Append(s, x)) = Len(s) + 1
           /\ Append(s, x)[Len(s) + 1] = x
           /\ \A i \in 1..Len(s) : Append(s, x)[i] = s[i]
OBVIOUS

(* Two single elements, joined. *)
LEMMA Pair ==
    ASSUME NEW a, NEW b
    PROVE  <<a>> \o <<b>> = <<a, b>>
<1> DEFINE s == <<a>>
           t == <<b>>
<1>1. s \in Seq({a, b}) /\ t \in Seq({a, b}) /\ Len(s) = 1 /\ Len(t) = 1 /\ s[1] = a /\ t[1] = b
  OBVIOUS
<1> HIDE DEF s, t
<1>2. /\ Cat(s, t) \in Seq({a, b}) /\ Len(Cat(s, t)) = Len(s) + Len(t)
      /\ \A i \in 1..(Len(s) + Len(t)) :
             Cat(s, t)[i] = IF i <= Len(s) THEN s[i] ELSE t[i - Len(s)]
  BY <1>1, CatProperties
<1>4. Cat(s, t)[1] = a /\ Cat(s, t)[2] = b
  BY <1>1, <1>2
<1>3. Cat(s, t) = <<a, b>>
  BY <1>1, <1>2, <1>4
<1> QED BY <1>3 DEF s, t, Cat

(* The fields whose values do not matter are of their kinds. *)
LEMMA FixedCells ==
    /\ Fits(<<Flag>>, <<"boolean">>)
    /\ Fits(<<Null>>, <<"string">>)
    /\ Fits(<<Ints>>, <<"ints">>)
    /\ Fits(<<Date>>, <<"date">>)
<1>1. TRUE \in Values /\ Nil \in Values /\ 0 \in Values
  BY DEF Values
<1>2. Fits(<<Flag>>, <<"boolean">>)
  <2>1. "boolean" \in Kinds
    BY DEF Kinds
  <2> QED BY <1>1, <2>1, FitsCell, Zenon DEF Flag
<1>3. Fits(<<Null>>, <<"string">>)
  <2>1. "string" \in Kinds
    BY DEF Kinds
  <2> QED BY <1>1, <2>1, FitsCell, Zenon DEF Null
<1>4. Fits(<<Ints>>, <<"ints">>)
  <2>1. "ints" \in Kinds
    BY DEF Kinds
  <2> QED BY <1>1, <2>1, FitsCell, Zenon DEF Ints
<1>5. Fits(<<Date>>, <<"date">>)
  <2>1. "date" \in Kinds
    BY DEF Kinds
  <2> QED BY <1>1, <2>1, FitsCell, Zenon DEF Date
<1> QED BY <1>2, <1>3, <1>4, <1>5

(* n times the same fields. *)
LEMMA TimesTwo ==
    ASSUME NEW S, NEW s \in Seq(S)
    PROVE  Times(2, s) = s \o s
<1> DEFINE ss == [j \in 1..2 |-> s]
<1>1. ss \in Seq(Seq(S)) /\ Len(ss) = 2 /\ ss[1] = s /\ ss[2] = s
  OBVIOUS
<1> HIDE DEF ss
<1>2. PICK rest \in [0..Len(ss) -> Seq(S)] : Rests(ss, rest) /\ rest[0] = FlattenSeq(ss)
  BY <1>1, FlattenSeqRests
<1>3. rest[2] = <<>> /\ rest[1] = Cat(s, rest[2]) /\ rest[0] = Cat(s, rest[1])
  BY <1>1, <1>2 DEF Rests
<1>4. rest[1] = s
  BY <1>3, CatEmpty
<1>5. FlattenSeq(ss) = Cat(s, s)
  BY <1>2, <1>3, <1>4
<1> QED BY <1>5 DEF Times, ss, Cat

(* Three times the same fields. *)
LEMMA TimesThree ==
    ASSUME NEW S, NEW s \in Seq(S)
    PROVE  Times(3, s) = s \o (s \o s)
<1> DEFINE ss == [j \in 1..3 |-> s]
<1>1. ss \in Seq(Seq(S)) /\ Len(ss) = 3 /\ ss[1] = s /\ ss[2] = s /\ ss[3] = s
  OBVIOUS
<1> HIDE DEF ss
<1>2. PICK rest \in [0..Len(ss) -> Seq(S)] : Rests(ss, rest) /\ rest[0] = FlattenSeq(ss)
  BY <1>1, FlattenSeqRests
<1>3. rest[3] = <<>> /\ rest[2] = Cat(s, rest[3]) /\ rest[1] = Cat(s, rest[2]) /\ rest[0] = Cat(s, rest[1])
  BY <1>1, <1>2 DEF Rests
<1>4. rest[2] = s
  BY <1>3, CatEmpty
<1>5. FlattenSeq(ss) = Cat(s, Cat(s, s))
  BY <1>2, <1>3, <1>4
<1> QED BY <1>5 DEF Times, ss, Cat

(* Fields twice are of their kinds twice. *)
LEMMA FitsTwice ==
    ASSUME NEW c, NEW k, Fits(c, k)
    PROVE  Fits(Times(2, c), Times(2, k))
<1>1. Times(2, c) = c \o c /\ Times(2, k) = k \o k
  BY TimesTwo DEF Fits
<1> QED BY <1>1, FitsCat

(* Fields three times are of their kinds three times. *)
LEMMA FitsThrice ==
    ASSUME NEW c, NEW k, Fits(c, k)
    PROVE  Fits(Times(3, c), Times(3, k))
<1>1. Times(3, c) = c \o (c \o c) /\ Times(3, k) = k \o (k \o k)
  BY TimesThree DEF Fits
<1> QED BY <1>1, FitsCat
(* A buffer without an error. *)
Buf(in, val, list) == [in |-> in, err |-> "none", val |-> val, list |-> list]

(* Reading cells of the kinds that are expected takes them off the buffer, *)
(* without an error, and keeps the first value.                            *)
LEMMA ReadFits ==
    ASSUME NEW cells, NEW kinds, Fits(cells, kinds), NEW more \in Seq(Cells), NEW v, NEW l
    PROVE  Read(Buf(Cat(cells, more), v, l), kinds)
           = Buf(more, IF kinds = <<>> THEN v ELSE cells[1].val, l)
<1> DEFINE all == Cat(cells, more)
           s == Buf(all, v, l)
<1>1. /\ all \in Seq(Cells) /\ Len(all) = Len(kinds) + Len(more)
      /\ \A i \in 1..Len(kinds) : all[i] = cells[i]
      /\ SubSeq(all, Len(kinds) + 1, Len(all)) = more
  <2>1. cells \in Seq(Cells) /\ Len(cells) = Len(kinds) /\ Len(kinds) \in Nat
    BY DEF Fits
  <2>2. /\ all \in Seq(Cells) /\ Len(all) = Len(cells) + Len(more)
        /\ \A i \in 1..Len(cells) + Len(more) :
              all[i] = IF i <= Len(cells) THEN cells[i] ELSE more[i - Len(cells)]
    BY <2>1, ConcatProperties DEF Cat
  <2> HIDE DEF all
  <2>3. SubSeq(all, Len(kinds) + 1, Len(all)) = more
    BY <2>1, <2>2
  <2> QED BY <2>1, <2>2, <2>3
<1>2. s.err = "none" /\ s.in = all
  BY DEF Buf
<1> HIDE DEF all
<1>3. ASSUME kinds = <<>> PROVE Read(s, kinds) = Buf(more, v, l)
  <2>1. cells = <<>> /\ all = more
    BY <1>3, CatEmpty DEF Fits, all
  <2>2. Read(s, kinds) = s
    <3> HIDE DEF s
    <3> QED BY <1>3 DEF Read
  <2> QED BY <2>1, <2>2
<1>4. ASSUME kinds # <<>> PROVE Read(s, kinds) = Buf(more, cells[1].val, l)
  <2>1. kinds \in Seq(Kinds) /\ DOMAIN kinds = 1..Len(kinds) /\ Len(kinds) \in Nat \ {0}
    BY <1>4 DEF Fits
  <2>2. ~(Len(all) < Len(kinds))
    BY <1>1, <2>1
  <2>3. ~\E j \in DOMAIN kinds : all[j].kind # kinds[j]
    BY <1>1, <2>1 DEF Fits
  <2>4. Head(all) = cells[1]
    BY <1>1, <2>1
  <2>5. Read(s, kinds) = [s EXCEPT !.in = SubSeq(@, Len(kinds) + 1, Len(@)), !.val = Head(s.in).val]
    <3> HIDE DEF s
    <3> QED BY <1>2, <1>4, <2>2, <2>3 DEF Read
  <2> QED BY <2>5, <2>4, <1>1, <1>2 DEF Buf
<1>5. Read(s, kinds) = Buf(more, IF kinds = <<>> THEN v ELSE cells[1].val, l)
  <2> HIDE DEF s
  <2>1. CASE kinds = <<>>
    BY <1>3, <2>1, Zenon
  <2>2. CASE kinds # <<>>
    BY <1>4, <2>2, Zenon
  <2> QED BY <2>1, <2>2, Zenon
<1> QED BY <1>5, Zenon DEF s, all

--------------------------------------------------------------------------------
(***************************************************************************)
(* The blob keys of a node.                                                *)
(***************************************************************************)

KeysSteps(s, h, after) ==
    /\ ReadBlobKeys(s, h) = after[Count(ReadCount(s))]
    /\ after[0] = ReadCount(s)
    /\ \A n \in 1..Count(ReadCount(s)) : after[n] = Listed(after[n - 1], ReadBlobKey(after[n - 1], h, FALSE))

(* The loop of ReadBlobKeys has such states. *)
LEMMA KeysLoop ==
    ASSUME NEW s, NEW h, Count(ReadCount(s)) \in Nat
    PROVE  \E after : KeysSteps(s, h, after)
<1> DEFINE count == ReadCount(s)
           N == Count(count)
           Is(after, m) == after = [n \in 0..m |->
                IF n = 0 THEN count ELSE Listed(after[n - 1], ReadBlobKey(after[n - 1], h, FALSE))]
           T == {m \in Nat : \E f : Is(f, m)}
<1>0. N \in Nat
  OBVIOUS
<1>6. ReadBlobKeys(s, h) = (CHOOSE f : Is(f, N))[N]
  BY DEF ReadBlobKeys
<1> HIDE DEF N, count
<1>1. 0 \in T
  <2>1. Is([i \in 0..0 |-> count], 0)
    OBVIOUS
  <2>2. \E f : Is(f, 0)
    <3> HIDE DEF Is
    <3> QED BY <2>1
  <2> HIDE DEF Is
  <2> QED BY <2>2
<1>2. ASSUME NEW m \in Nat, m \in T PROVE m + 1 \in T
  <2>1. PICK after : Is(after, m)
    BY <1>2
  <2> DEFINE g == [n \in 0..(m + 1) |->
                IF n = 0 THEN count ELSE Listed(after[n - 1], ReadBlobKey(after[n - 1], h, FALSE))]
  <2>2. \A n \in 0..m : after[n] = IF n = 0 THEN count ELSE Listed(after[n - 1], ReadBlobKey(after[n - 1], h, FALSE))
    BY <2>1
  <2>5. ASSUME NEW n \in 0..m PROVE g[n] = after[n]
    <3>1. n \in 0..(m + 1)
      OBVIOUS
    <3>2. g[n] = IF n = 0 THEN count ELSE Listed(after[n - 1], ReadBlobKey(after[n - 1], h, FALSE))
      BY <3>1
    <3> HIDE DEF g
    <3> QED BY <2>2, <3>2
  <2>3. ASSUME NEW n \in 0..(m + 1)
        PROVE  g[n] = IF n = 0 THEN count ELSE Listed(g[n - 1], ReadBlobKey(g[n - 1], h, FALSE))
    <3>1. n # 0 => n - 1 \in 0..m
      OBVIOUS
    <3>2. n # 0 => g[n - 1] = after[n - 1]
      <4> HIDE DEF g
      <4> QED BY <2>5, <3>1
    <3> QED BY <3>2
  <2>6. g = [n \in 0..(m + 1) |-> g[n]]
    OBVIOUS
  <2> HIDE DEF g
  <2>4. Is(g, m + 1)
    BY <2>3, <2>6
  <2>7. \E f : Is(f, m + 1)
    <3> HIDE DEF Is
    <3> QED BY <2>4
  <2> HIDE DEF Is
  <2> QED BY <2>7
<1>3. Nat \subseteq T
  <2> HIDE DEF T
  <2> QED BY <1>1, <1>2, Induction
<1>4. \E f : Is(f, N)
  <2> HIDE DEF Is
  <2> QED BY <1>0, <1>3
<1> DEFINE after == CHOOSE f : Is(f, N)
<1>5. Is(after, N)
  BY <1>4, Zenon
<1>7. ReadBlobKeys(s, h) = after[N]
  BY <1>6
<1> HIDE DEF after
<1>8. after[0] = count
  <2>1. 0 \in 0..N
    BY <1>0
  <2> QED BY <1>5, <2>1
<1>9. ASSUME NEW n \in 1..N
      PROVE  after[n] = Listed(after[n - 1], ReadBlobKey(after[n - 1], h, FALSE))
  <2>1. n \in 0..N /\ n # 0
    BY <1>0
  <2> QED BY <1>5, <2>1
<1>10. KeysSteps(s, h, after)
  BY <1>7, <1>8, <1>9 DEF N, count, KeysSteps
<1> QED BY <1>10

NodesSteps(s, h, after) ==
    /\ ReadNodes(s, h) = after[Count(ReadCount(s))]
    /\ after[0] = ReadCount(s)
    /\ \A n \in 1..Count(ReadCount(s)) : after[n] = Listed(after[n - 1], ReadNode(after[n - 1], h))

(* The loop of ReadNodes has such states. *)
LEMMA NodesLoop ==
    ASSUME NEW s, NEW h, Count(ReadCount(s)) \in Nat
    PROVE  \E after : NodesSteps(s, h, after)
<1> DEFINE count == ReadCount(s)
           N == Count(count)
           Is(after, m) == after = [n \in 0..m |->
                IF n = 0 THEN count ELSE Listed(after[n - 1], ReadNode(after[n - 1], h))]
           T == {m \in Nat : \E f : Is(f, m)}
<1>0. N \in Nat
  OBVIOUS
<1>6. ReadNodes(s, h) = (CHOOSE f : Is(f, N))[N]
  BY DEF ReadNodes
<1> HIDE DEF N, count
<1>1. 0 \in T
  <2>1. Is([i \in 0..0 |-> count], 0)
    OBVIOUS
  <2>2. \E f : Is(f, 0)
    <3> HIDE DEF Is
    <3> QED BY <2>1
  <2> HIDE DEF Is
  <2> QED BY <2>2
<1>2. ASSUME NEW m \in Nat, m \in T PROVE m + 1 \in T
  <2>1. PICK after : Is(after, m)
    BY <1>2
  <2> DEFINE g == [n \in 0..(m + 1) |->
                IF n = 0 THEN count ELSE Listed(after[n - 1], ReadNode(after[n - 1], h))]
  <2>2. \A n \in 0..m : after[n] = IF n = 0 THEN count ELSE Listed(after[n - 1], ReadNode(after[n - 1], h))
    BY <2>1
  <2>5. ASSUME NEW n \in 0..m PROVE g[n] = after[n]
    <3>1. n \in 0..(m + 1)
      OBVIOUS
    <3>2. g[n] = IF n = 0 THEN count ELSE Listed(after[n - 1], ReadNode(after[n - 1], h))
      BY <3>1
    <3> HIDE DEF g
    <3> QED BY <2>2, <3>2
  <2>3. ASSUME NEW n \in 0..(m + 1)
        PROVE  g[n] = IF n = 0 THEN count ELSE Listed(g[n - 1], ReadNode(g[n - 1], h))
    <3>1. n # 0 => n - 1 \in 0..m
      OBVIOUS
    <3>2. n # 0 => g[n - 1] = after[n - 1]
      <4> HIDE DEF g
      <4> QED BY <2>5, <3>1
    <3> QED BY <3>2
  <2>6. g = [n \in 0..(m + 1) |-> g[n]]
    OBVIOUS
  <2> HIDE DEF g
  <2>4. Is(g, m + 1)
    BY <2>3, <2>6
  <2>7. \E f : Is(f, m + 1)
    <3> HIDE DEF Is
    <3> QED BY <2>4
  <2> HIDE DEF Is
  <2> QED BY <2>7
<1>3. Nat \subseteq T
  <2> HIDE DEF T
  <2> QED BY <1>1, <1>2, Induction
<1>4. \E f : Is(f, N)
  <2> HIDE DEF Is
  <2> QED BY <1>0, <1>3
<1> DEFINE after == CHOOSE f : Is(f, N)
<1>5. Is(after, N)
  BY <1>4, Zenon
<1>7. ReadNodes(s, h) = after[N]
  BY <1>6
<1> HIDE DEF after
<1>8. after[0] = count
  <2>1. 0 \in 0..N
    BY <1>0
  <2> QED BY <1>5, <2>1
<1>9. ASSUME NEW n \in 1..N
      PROVE  after[n] = Listed(after[n - 1], ReadNode(after[n - 1], h))
  <2>1. n \in 0..N /\ n # 0
    BY <1>0
  <2> QED BY <1>5, <2>1
<1>10. NodesSteps(s, h, after)
  BY <1>7, <1>8, <1>9 DEF N, count, NodesSteps
<1> QED BY <1>10

(* Cells of these kinds, the first of them with this value. *)
FitsFirst(cells, kinds, v) ==
    /\ Fits(cells, kinds)
    /\ kinds # <<>>
    /\ cells[1].val = v

(* The first value stays first when cells are put after it. *)
LEMMA FitsFirstCat ==
    ASSUME NEW c, NEW k, NEW d, NEW m, NEW v, FitsFirst(c, k, v), Fits(d, m)
    PROVE  FitsFirst(c \o d, k \o m, v)
<1>1. Fits(c \o d, k \o m)
  BY FitsCat, Zenon DEF FitsFirst
<1>2. /\ c \in Seq(Cells) /\ d \in Seq(Cells) /\ k \in Seq(Kinds) /\ m \in Seq(Kinds)
      /\ Len(k) > 0 /\ Len(c) = Len(k)
  BY DEF FitsFirst, Fits
<1>3. Cat(c, d)[1] = c[1]
  <2>1. 1 \in 1..(Len(c) + Len(d)) /\ 1 <= Len(c)
    BY <1>2
  <2>2. \A i \in 1..(Len(c) + Len(d)) : Cat(c, d)[i] = IF i <= Len(c) THEN c[i] ELSE d[i - Len(c)]
    BY <1>2, CatProperties
  <2> QED BY <2>1, <2>2
<1>4. Len(Cat(k, m)) > 0
  BY <1>2, CatProperties
<1>5. Cat(k, m) # <<>>
  BY <1>4
<1> QED BY <1>1, <1>3, <1>5 DEF FitsFirst, Cat

(* Reading such cells gives the value of the first. *)
LEMMA ReadFirst ==
    ASSUME NEW cells, NEW kinds, NEW val, FitsFirst(cells, kinds, val),
           NEW more \in Seq(Cells), NEW v, NEW l
    PROVE  Read(Buf(Cat(cells, more), v, l), kinds) = Buf(more, val, l)
<1>1. Fits(cells, kinds) /\ kinds # <<>> /\ cells[1].val = val
  BY DEF FitsFirst
<1>2. Read(Buf(Cat(cells, more), v, l), kinds) = Buf(more, IF kinds = <<>> THEN v ELSE cells[1].val, l)
  BY <1>1, ReadFits
<1>3. (IF kinds = <<>> THEN v ELSE cells[1].val) = val
  BY <1>1
<1> QED BY <1>2, <1>3, Zenon

(* Reading one cell gives its value. *)
LEMMA ReadCell ==
    ASSUME NEW kind \in Kinds, NEW val \in Values, NEW more \in Seq(Cells), NEW v, NEW l
    PROVE  Read(Buf(Cat(<<Cell(kind, val)>>, more), v, l), <<kind>>) = Buf(more, val, l)
<1>1. Fits(<<Cell(kind, val)>>, <<kind>>)
  BY FitsCell
<1>2. <<kind>> # <<>> /\ <<Cell(kind, val)>>[1].val = val
  BY CellIn
<1>3. FitsFirst(<<Cell(kind, val)>>, <<kind>>, val)
  BY <1>1, <1>2, Zenon DEF FitsFirst
<1> QED BY <1>3, ReadFirst

(* The state of a buffer. *)
Holds(s, in, val, list) == s = Buf(in, val, list)

(* The buffer after cells were read of which the first matters. *)
LEMMA HoldsFirst ==
    ASSUME NEW s, NEW v, NEW l, NEW cells, NEW kinds, NEW val, NEW more \in Seq(Cells),
           Holds(s, Cat(cells, more), v, l), FitsFirst(cells, kinds, val)
    PROVE  Holds(Read(s, kinds), more, val, l)
BY ReadFirst DEF Holds

(* The buffer after cells were read of which none matters. *)
LEMMA HoldsFits ==
    ASSUME NEW s, NEW v, NEW l, NEW cells, NEW kinds, NEW more \in Seq(Cells),
           Holds(s, Cat(cells, more), v, l), Fits(cells, kinds)
    PROVE  \E w : Holds(Read(s, kinds), more, w, l)
BY ReadFits DEF Holds

(* The buffer after a value was added to the list. *)
LEMMA HoldsListed ==
    ASSUME NEW r, NEW s, NEW in1, NEW v1, NEW l1, NEW in2, NEW v2, NEW l2,
           Holds(r, in1, v1, l1), Holds(s, in2, v2, l2)
    PROVE  Holds(Listed(r, s), in2, v2, Append(l1, v2))
BY DEF Holds, Listed, Buf

(* The buffer, with its cells joined in the other order. *)
LEMMA HoldsCat ==
    ASSUME NEW s, NEW v, NEW l, NEW a \in Seq(Cells), NEW b \in Seq(Cells), NEW c \in Seq(Cells),
           Holds(s, Cat(Cat(a, b), c), v, l)
    PROVE  Holds(s, Cat(a, Cat(b, c)), v, l)
BY CatAssociates DEF Holds

(* Two pairs, joined. *)
LEMMA PairOfPairs ==
    ASSUME NEW a, NEW b, NEW c, NEW d
    PROVE  <<a, b>> \o <<c, d>> = <<a, b, c, d>>
<1> DEFINE s == <<a, b>>
           t == <<c, d>>
           S == {a, b, c, d}
<1>1. s \in Seq(S) /\ t \in Seq(S) /\ Len(s) = 2 /\ Len(t) = 2 /\ s[1] = a /\ s[2] = b /\ t[1] = c /\ t[2] = d
  OBVIOUS
<1> HIDE DEF s, t, S
<1>2. /\ Cat(s, t) \in Seq(S) /\ Len(Cat(s, t)) = Len(s) + Len(t)
      /\ \A i \in 1..(Len(s) + Len(t)) :
             Cat(s, t)[i] = IF i <= Len(s) THEN s[i] ELSE t[i - Len(s)]
  BY <1>1, CatProperties
<1>3. Cat(s, t)[1] = a /\ Cat(s, t)[2] = b /\ Cat(s, t)[3] = c /\ Cat(s, t)[4] = d
  BY <1>1, <1>2
<1>4. Cat(s, t) = <<a, b, c, d>>
  BY <1>1, <1>2, <1>3
<1> QED BY <1>4 DEF s, t, Cat

(* The four fields of a blob key that do not matter. *)
LEMMA FixedFour == Fits(<<Ints, Null, Ints, Date>>, <<"ints", "string", "ints", "date">>)
<1>1. Fits(<<Ints>> \o <<Null>>, <<"ints">> \o <<"string">>)
  BY FixedCells, FitsCat, Zenon
<1>2. Fits(<<Ints>> \o <<Date>>, <<"ints">> \o <<"date">>)
  BY FixedCells, FitsCat, Zenon
<1>3. Fits((<<Ints>> \o <<Null>>) \o (<<Ints>> \o <<Date>>), (<<"ints">> \o <<"string">>) \o (<<"ints">> \o <<"date">>))
  BY <1>1, <1>2, FitsCat, Zenon
<1>4. /\ <<Ints>> \o <<Null>> = <<Ints, Null>> /\ <<"ints">> \o <<"string">> = <<"ints", "string">>
      /\ <<Ints>> \o <<Date>> = <<Ints, Date>> /\ <<"ints">> \o <<"date">> = <<"ints", "date">>
  BY Pair, Zenon
<1>5. Fits(<<Ints, Null>> \o <<Ints, Date>>, <<"ints", "string">> \o <<"ints", "date">>)
  BY <1>3, <1>4, Zenon
<1> QED BY <1>5, PairOfPairs, Zenon

(* A flattened sequence of sequences of a set is a sequence of it. *)
LEMMA FlattenIn ==
    ASSUME NEW S, NEW s \in Seq(Seq(S))
    PROVE  FlattenSeq(s) \in Seq(S)
<1>1. PICK rest \in [0..Len(s) -> Seq(S)] : rest[0] = FlattenSeq(s)
  BY FlattenSeqRests
<1> QED BY <1>1

(* A blob key is written, for each version, as its parser expects it, the  *)
(* SHA1 first.                                                             *)
LEMMA BlobKeyFits ==
    ASSUME NEW h \in Header, NEW sha1 \in Values, NEW c, NEW d,
           c = d \/ h.type = Tree
    PROVE  FitsFirst(WrittenBlobKey(sha1, h, c), BlobKey(h, d), sha1)
<1> DEFINE w1 == <<Cell("string", sha1)>>
           w2 == When(h.version >= (IF h.type = Tree THEN 14 ELSE 4), <<Flag>>)
           w3 == When(h.type = Commit /\ h.version >= 8 /\ c, <<Flag>>)
           w4 == When(h.type = Tree /\ h.version >= 17, <<Ints, Null, Ints, Date>>)
           r1 == <<"string">>
           r2 == When(IsStretched(h), <<"boolean">>)
           r3 == When(h.type = Commit /\ h.version >= 8 /\ d, <<"boolean">>)
           r4 == When(h.type = Tree /\ h.version >= 17, <<"ints", "string", "ints", "date">>)
<1>0. h.type \in {Commit, Tree} /\ h.version \in Nat /\ Commit # Tree
  BY DEF Header, Commit, Tree
<1>1. FitsFirst(w1, r1, sha1)
  <2>1. "string" \in Kinds
    BY DEF Kinds
  <2>2. Fits(w1, r1)
    BY <2>1, FitsCell, Zenon
  <2>3. r1 # <<>> /\ w1[1].val = sha1
    BY <2>1, CellIn
  <2> QED BY <2>2, <2>3, Zenon DEF FitsFirst
<1>2. Fits(w2, r2)
  <2>1. IsStretched(h) <=> h.version >= (IF h.type = Tree THEN 14 ELSE 4)
    BY <1>0 DEF IsStretched
  <2>2. Fits(When(h.version >= (IF h.type = Tree THEN 14 ELSE 4), <<Flag>>),
             When(h.version >= (IF h.type = Tree THEN 14 ELSE 4), <<"boolean">>))
    BY FixedCells, FitsWhen, Zenon
  <2>3. r2 = When(h.version >= (IF h.type = Tree THEN 14 ELSE 4), <<"boolean">>)
    BY <2>1 DEF When
  <2> QED BY <2>2, <2>3, Zenon
<1>3. Fits(w3, r3)
  <2>2. Fits(When(h.type = Commit /\ h.version >= 8 /\ c, <<Flag>>),
             When(h.type = Commit /\ h.version >= 8 /\ c, <<"boolean">>))
    BY FixedCells, FitsWhen, Zenon
  <2>3. r3 = When(h.type = Commit /\ h.version >= 8 /\ c, <<"boolean">>)
    BY <1>0 DEF When
  <2> QED BY <2>2, <2>3, Zenon
<1>4. Fits(w4, r4)
  BY FixedFour, FitsWhen, Zenon
<1>5. FitsFirst(w1 \o w2, r1 \o r2, sha1)
  BY <1>1, <1>2, FitsFirstCat, Zenon
<1>6. FitsFirst((w1 \o w2) \o w3, (r1 \o r2) \o r3, sha1)
  BY <1>3, <1>5, FitsFirstCat, Zenon
<1>7. FitsFirst(((w1 \o w2) \o w3) \o w4, ((r1 \o r2) \o r3) \o r4, sha1)
  BY <1>4, <1>6, FitsFirstCat, Zenon
<1> QED BY <1>7, Zenon DEF WrittenBlobKey, BlobKey

(* A cell is one cell of its kind and its value. *)
LEMMA FitsFirstCell ==
    ASSUME NEW kind \in Kinds, NEW val \in Values
    PROVE  FitsFirst(<<Cell(kind, val)>>, <<kind>>, val)
<1>1. Fits(<<Cell(kind, val)>>, <<kind>>)
  BY FitsCell
<1>2. <<kind>> # <<>> /\ <<Cell(kind, val)>>[1].val = val
  BY CellIn
<1> QED BY <1>1, <1>2, Zenon DEF FitsFirst

(* Blob keys are written as cells. *)
LEMMA KeysWritten ==
    ASSUME NEW h \in Header, NEW sha1s \in Seq(Values)
    PROVE  WrittenBlobKeys(sha1s, h) \in Seq(Cells)
<1> DEFINE L == Len(sha1s)
           D == [j \in DOMAIN sha1s |-> WrittenBlobKey(sha1s[j], h, FALSE)]
           c == <<Cell("count", L)>>
<1>0. L \in Nat /\ DOMAIN sha1s = 1..L /\ \A j \in 1..L : sha1s[j] \in Values
  OBVIOUS
<1>1. D \in Seq(Seq(Cells))
  <2>1. \A j \in 1..L : WrittenBlobKey(sha1s[j], h, FALSE) \in Seq(Cells)
    BY <1>0, BlobKeyFits DEF FitsFirst, Fits
  <2>2. D \in [1..L -> Seq(Cells)]
    BY <1>0, <2>1
  <2> HIDE DEF D
  <2> QED BY <1>0, <2>2
<1>2. c \in Seq(Cells)
  BY <1>0, CellIn DEF Values, Kinds
<1>3. WrittenBlobKeys(sha1s, h) = Cat(c, FlattenSeq(D))
  BY DEF WrittenBlobKeys, Cat
<1> HIDE DEF D, c
<1>4. FlattenSeq(D) \in Seq(Cells)
  BY <1>1, FlattenIn
<1> QED BY <1>2, <1>3, <1>4, CatIn

(* ReadBlobKeys reads the keys that were written, in order, and nothing    *)
(* after them.                                                             *)
LEMMA KeysRead ==
    ASSUME NEW h \in Header, NEW sha1s \in Seq(Values), NEW more \in Seq(Cells), NEW s, NEW v, NEW l,
           Holds(s, Cat(WrittenBlobKeys(sha1s, h), more), v, l)
    PROVE  \E w : Holds(ReadBlobKeys(s, h), more, w, sha1s)
<1> DEFINE L == Len(sha1s)
           D == [j \in DOMAIN sha1s |-> WrittenBlobKey(sha1s[j], h, FALSE)]
<1>0. L \in Nat /\ DOMAIN sha1s = 1..L /\ \A j \in 1..L : sha1s[j] \in Values
  OBVIOUS
<1>13. s = Buf(Cat(WrittenBlobKeys(sha1s, h), more), v, l)
  BY DEF Holds
<1>1. /\ D \in Seq(Seq(Cells)) /\ Len(D) = L
      /\ \A j \in 1..L : FitsFirst(D[j], BlobKey(h, FALSE), sha1s[j])
  <2>1. \A j \in 1..L : FitsFirst(WrittenBlobKey(sha1s[j], h, FALSE), BlobKey(h, FALSE), sha1s[j])
    BY <1>0, BlobKeyFits
  <2>2. \A j \in 1..L : WrittenBlobKey(sha1s[j], h, FALSE) \in Seq(Cells)
    BY <2>1 DEF FitsFirst, Fits
  <2>3. D \in Seq(Seq(Cells)) /\ Len(D) = L
    <3>1. D \in [1..L -> Seq(Cells)]
      BY <1>0, <2>2
    <3>2. DOMAIN D = 1..L
      BY <1>0
    <3> HIDE DEF D
    <3>3. D \in Seq(Seq(Cells))
      BY <1>0, <3>1
    <3> QED BY <1>0, <3>2, <3>3
  <2> QED BY <1>0, <2>1, <2>3
<1>2. WrittenBlobKeys(sha1s, h) = Cat(<<Cell("count", L)>>, FlattenSeq(D))
  BY DEF WrittenBlobKeys, Cat
<1> HIDE DEF D
<1>3. PICK rest \in [0..L -> Seq(Cells)] : Rests(D, rest) /\ rest[0] = FlattenSeq(D)
  BY <1>1, FlattenSeqRests
<1> DEFINE r == [n \in 0..L |-> Cat(rest[n], more)]
<1>4. /\ \A n \in 0..L : r[n] \in Seq(Cells)
      /\ r[L] = more
      /\ \A n \in 0..(L - 1) : r[n] = Cat(D[n + 1], r[n + 1])
  <2>1. \A n \in 0..L : rest[n] \in Seq(Cells) /\ r[n] = Cat(rest[n], more)
    BY <1>3
  <2> HIDE DEF r
  <2>2. \A n \in 0..L : r[n] \in Seq(Cells)
    BY <2>1, CatIn
  <2>3. r[L] = more
    <3>1. rest[L] = <<>> /\ L \in 0..L
      BY <1>0, <1>1, <1>3 DEF Rests
    <3>2. Cat(<<>>, more) = more
      BY CatEmpty
    <3> QED BY <2>1, <3>1, <3>2
  <2>4. ASSUME NEW n \in 0..(L - 1) PROVE r[n] = Cat(D[n + 1], r[n + 1])
    <3>1. n \in 0..L /\ n + 1 \in 0..L /\ n + 1 \in 1..L
      BY <1>0
    <3>2. rest[n] = Cat(D[n + 1], rest[n + 1])
      BY <1>1, <1>3 DEF Rests
    <3>3. D[n + 1] \in Seq(Cells)
      BY <1>1, <3>1 DEF FitsFirst, Fits
    <3>4. Cat(Cat(D[n + 1], rest[n + 1]), more) = Cat(D[n + 1], Cat(rest[n + 1], more))
      BY <2>1, <3>1, <3>3, CatAssociates
    <3> QED BY <2>1, <3>1, <3>2, <3>4
  <2> QED BY <2>2, <2>3, <2>4
<1>5. ReadCount(s) = Buf(r[0], L, <<>>)
  <2>0. 0 \in 0..L
    BY <1>0
  <2>1. <<Cell("count", L)>> \in Seq(Cells) /\ L \in Values /\ "count" \in Kinds
    BY <1>0, CellIn DEF Values, Kinds
  <2>2. Cat(WrittenBlobKeys(sha1s, h), more) = Cat(<<Cell("count", L)>>, r[0])
    <3>1. rest[0] \in Seq(Cells) /\ r[0] = Cat(rest[0], more)
      BY <2>0, <1>3
    <3> DEFINE c == <<Cell("count", L)>>
    <3>2. c \in Seq(Cells)
      BY <2>1
    <3> HIDE DEF c
    <3>3. Cat(Cat(c, rest[0]), more) = Cat(c, Cat(rest[0], more))
      BY <3>1, <3>2, CatAssociates
    <3>4. Cat(Cat(<<Cell("count", L)>>, rest[0]), more) = Cat(<<Cell("count", L)>>, Cat(rest[0], more))
      BY <3>3 DEF c
    <3> HIDE DEF L, r
    <3> QED BY <1>2, <1>3, <3>1, <3>4
  <2>3. [s EXCEPT !.list = <<>>] = Buf(Cat(<<Cell("count", L)>>, r[0]), v, <<>>)
    <3> DEFINE in == Cat(WrittenBlobKeys(sha1s, h), more)
    <3>1. [Buf(in, v, l) EXCEPT !.list = <<>>] = Buf(in, v, <<>>)
      BY DEF Buf
    <3> HIDE DEF r, L
    <3> QED BY <2>2, <3>1, <1>13
  <2>4. r[0] \in Seq(Cells)
    BY <2>0, <1>4
  <2>5. Read(Buf(Cat(<<Cell("count", L)>>, r[0]), v, <<>>), <<"count">>) = Buf(r[0], L, <<>>)
    <3> HIDE DEF r, L
    <3> QED BY <2>1, <2>4, ReadCell
  <2> QED BY <2>3, <2>5 DEF ReadCount
<1>6. Count(ReadCount(s)) = L
  BY <1>5 DEF Count, Buf
<1> HIDE DEF r, L
<1>7. PICK after : /\ ReadBlobKeys(s, h) = after[L]
                   /\ after[0] = Buf(r[0], L, <<>>)
                   /\ \A n \in 1..L : after[n] = Listed(after[n - 1], ReadBlobKey(after[n - 1], h, FALSE))
  <2>1. Count(ReadCount(s)) \in Nat
    BY <1>0, <1>6
  <2>2. PICK after : KeysSteps(s, h, after)
    BY <2>1, KeysLoop
  <2> QED BY <2>2, <1>5, <1>6 DEF KeysSteps
<1> DEFINE T == {n \in 0..L : \E w : Holds(after[n], r[n], w, SubSeq(sha1s, 1, n))}
<1>8. 0..L \subseteq T
  <2>1. 0 \in T
    <3>1. SubSeq(sha1s, 1, 0) = <<>> /\ 0 \in 0..L
      BY <1>0
    <3> QED BY <1>7, <3>1 DEF Holds
  <2>2. ASSUME NEW n \in 0..(L - 1), n \in T PROVE n + 1 \in T
    <3>1. n \in 0..L /\ n + 1 \in 0..L /\ n + 1 \in 1..L /\ (n + 1) - 1 = n
      BY <1>0
    <3>2. PICK w : Holds(after[n], r[n], w, SubSeq(sha1s, 1, n))
      BY <2>2
    <3>3. after[n + 1] = Listed(after[n], ReadBlobKey(after[n], h, FALSE))
      BY <1>7, <3>1
    <3>4. r[n + 1] \in Seq(Cells) /\ r[n] = Cat(D[n + 1], r[n + 1])
      BY <1>4, <3>1
    <3>5. FitsFirst(D[n + 1], BlobKey(h, FALSE), sha1s[n + 1])
      BY <1>1, <3>1
    <3>6. Holds(ReadBlobKey(after[n], h, FALSE), r[n + 1], sha1s[n + 1], SubSeq(sha1s, 1, n))
      <4>1. Holds(after[n], Cat(D[n + 1], r[n + 1]), w, SubSeq(sha1s, 1, n))
        BY <3>2, <3>4 DEF Holds
      <4>2. Holds(Read(after[n], BlobKey(h, FALSE)), r[n + 1], sha1s[n + 1], SubSeq(sha1s, 1, n))
        BY <4>1, <3>4, <3>5, HoldsFirst, Zenon
      <4> QED BY <4>2, Zenon DEF ReadBlobKey
    <3>7. Append(SubSeq(sha1s, 1, n), sha1s[n + 1]) = SubSeq(sha1s, 1, n + 1)
      BY <1>0, <3>1 DEF L
    <3>8. Holds(after[n + 1], r[n + 1], sha1s[n + 1], Append(SubSeq(sha1s, 1, n), sha1s[n + 1]))
      <4>1. Holds(Listed(after[n], ReadBlobKey(after[n], h, FALSE)),
                  r[n + 1], sha1s[n + 1], Append(SubSeq(sha1s, 1, n), sha1s[n + 1]))
        BY <3>2, <3>6, HoldsListed, Zenon
      <4> QED BY <3>3, <4>1, Zenon
    <3> QED BY <3>1, <3>7, <3>8
  <2>3. \A n \in 0..(L - 1) : n \in T => n + 1 \in T
    BY <2>2
  <2> HIDE DEF T
  <2> QED BY <2>1, <2>3, <1>0, InductionUp
<1>9. L \in T
  <2>1. L \in 0..L
    BY <1>0
  <2> HIDE DEF T
  <2> QED BY <2>1, <1>8
<1>10. PICK w : Holds(after[L], r[L], w, SubSeq(sha1s, 1, L))
  BY <1>9
<1>11. SubSeq(sha1s, 1, L) = sha1s
  BY <1>0 DEF L
<1>12. Holds(ReadBlobKeys(s, h), more, w, sha1s)
  BY <1>4, <1>7, <1>10, <1>11
<1> QED BY <1>12

--------------------------------------------------------------------------------
(***************************************************************************)
(* A node.                                                                 *)
(***************************************************************************)

(* The four fields at the end of a node. *)
LEMMA FixedEnd == Fits(<<Null, Null, Flag, Ints>>, <<"string", "string", "boolean", "ints">>)
<1>1. Fits(<<Null>> \o <<Null>>, <<"string">> \o <<"string">>)
  BY FixedCells, FitsCat, Zenon
<1>2. Fits(<<Flag>> \o <<Ints>>, <<"boolean">> \o <<"ints">>)
  BY FixedCells, FitsCat, Zenon
<1>3. Fits((<<Null>> \o <<Null>>) \o (<<Flag>> \o <<Ints>>),
           (<<"string">> \o <<"string">>) \o (<<"boolean">> \o <<"ints">>))
  BY <1>1, <1>2, FitsCat, Zenon
<1>4. /\ <<Null>> \o <<Null>> = <<Null, Null>> /\ <<"string">> \o <<"string">> = <<"string", "string">>
      /\ <<Flag>> \o <<Ints>> = <<Flag, Ints>> /\ <<"boolean">> \o <<"ints">> = <<"boolean", "ints">>
  BY Pair, Zenon
<1>5. Fits(<<Null, Null>> \o <<Flag, Ints>>, <<"string", "string">> \o <<"boolean", "ints">>)
  BY <1>3, <1>4, Zenon
<1> QED BY <1>5, PairOfPairs, Zenon

(* The keys of a tree other than those of data blobs. *)
LEMMA NullKeyFits ==
    ASSUME NEW h \in Header, h.type = Tree, NEW d
    PROVE  Fits(WrittenBlobKey(Nil, h, FALSE), BlobKey(h, d))
<1>1. Nil \in Values
  BY DEF Values
<1> QED BY <1>1, BlobKeyFits, Zenon DEF FitsFirst

(* The end of a node. *)
EndCells(h) ==
    <<Ints>>
    \o When(h.version < 18, Times(2, WrittenBlobKey(Nil, h, FALSE)))
    \o WrittenBlobKey(Nil, h, FALSE) \o <<Ints>>
    \o WrittenBlobKey(Nil, h, FALSE) \o <<Ints>>
    \o <<Null, Null, Flag, Ints>>

EndKinds(h) ==
    <<"ints">>
    \o When(h.version < 18, Times(2, BlobKey(h, FALSE)))
    \o BlobKey(h, TRUE) \o <<"ints">>
    \o BlobKey(h, TRUE) \o <<"ints">>
    \o <<"string", "string", "boolean", "ints">>

FlagCells(h) == When(h.version >= 18, <<Flag>>) \o When(h.version >= 12, Times(3, <<Flag>>))

FlagKinds(h) == When(h.version >= 18, <<"boolean">>) \o When(h.version >= 12, Times(3, <<"boolean">>))

(* The fields of a node that do not matter are written, for each version,  *)
(* as the parser expects them.                                             *)
LEMMA EndFits ==
    ASSUME NEW h \in Header, h.type = Tree
    PROVE  Fits(EndCells(h), EndKinds(h)) /\ Fits(FlagCells(h), FlagKinds(h))
<1> DEFINE w == WrittenBlobKey(Nil, h, FALSE)
           k == BlobKey(h, TRUE)
           w2 == When(h.version < 18, Times(2, WrittenBlobKey(Nil, h, FALSE)))
           k2 == When(h.version < 18, Times(2, BlobKey(h, FALSE)))
<1>1. Fits(w, k)
  BY NullKeyFits, Zenon
<1>2. Fits(w2, k2)
  <2>1. Fits(WrittenBlobKey(Nil, h, FALSE), BlobKey(h, FALSE))
    BY NullKeyFits, Zenon
  <2> QED BY <2>1, FitsTwice, FitsWhen, Zenon
<1>3. Fits(<<Ints>> \o w2, <<"ints">> \o k2)
  BY <1>2, FixedCells, FitsCat, Zenon
<1>4. Fits(<<Ints>> \o w2 \o w, <<"ints">> \o k2 \o k)
  BY <1>1, <1>3, FitsCat, Zenon
<1>5. Fits(<<Ints>> \o w2 \o w \o <<Ints>>, <<"ints">> \o k2 \o k \o <<"ints">>)
  BY <1>4, FixedCells, FitsCat, Zenon
<1>6. Fits(<<Ints>> \o w2 \o w \o <<Ints>> \o w, <<"ints">> \o k2 \o k \o <<"ints">> \o k)
  BY <1>1, <1>5, FitsCat, Zenon
<1>7. Fits(<<Ints>> \o w2 \o w \o <<Ints>> \o w \o <<Ints>>,
           <<"ints">> \o k2 \o k \o <<"ints">> \o k \o <<"ints">>)
  BY <1>6, FixedCells, FitsCat, Zenon
<1>8. Fits(<<Ints>> \o w2 \o w \o <<Ints>> \o w \o <<Ints>> \o <<Null, Null, Flag, Ints>>,
           <<"ints">> \o k2 \o k \o <<"ints">> \o k \o <<"ints">>
           \o <<"string", "string", "boolean", "ints">>)
  BY <1>7, FixedEnd, FitsCat, Zenon
<1>9. Fits(EndCells(h), EndKinds(h))
  BY <1>8, Zenon DEF EndCells, EndKinds
<1>10. Fits(When(h.version >= 18, <<Flag>>), When(h.version >= 18, <<"boolean">>))
  BY FixedCells, FitsWhen, Zenon
<1>11. Fits(When(h.version >= 12, Times(3, <<Flag>>)), When(h.version >= 12, Times(3, <<"boolean">>)))
  BY FixedCells, FitsThrice, FitsWhen, Zenon
<1>12. Fits(FlagCells(h), FlagKinds(h))
  BY <1>10, <1>11, FitsCat, Zenon DEF FlagCells, FlagKinds
<1> QED BY <1>9, <1>12
(* The parser of a node of these keys dereferences a nil pointer. *)
LacksFlags(h, n) == h.version < 12 /\ n.keys # <<>>

WithVal(s, val) == [s EXCEPT !.val = val]

(* The buffer with another value. *)
LEMMA HoldsWithVal ==
    ASSUME NEW s, NEW in, NEW v, NEW l, NEW w, Holds(s, in, v, l)
    PROVE  Holds(WithVal(s, w), in, w, l)
BY DEF Holds, WithVal, Buf

(* The fields of a node are values of cells. *)
LEMMA ValuesOf ==
    ASSUME NEW n \in ParsedNode
    PROVE  n.name \in Values /\ n.isTree \in Values /\ n.keys \in Seq(Values)
BY DEF ParsedNode, Values

(* A node is written as its name, its kind, flags, keys and the rest. *)
LEMMA WrittenNodeParts ==
    ASSUME NEW h \in Header, h.type = Tree, NEW n \in ParsedNode
    PROVE  /\ WrittenNode(n, h) = Cat(Cat(Cat(Cat(<<Cell("string", n.name)>>, <<Cell("boolean", n.isTree)>>),
                                              FlagCells(h)), WrittenBlobKeys(n.keys, h)), EndCells(h))
           /\ <<Cell("string", n.name)>> \in Seq(Cells) /\ <<Cell("boolean", n.isTree)>> \in Seq(Cells)
           /\ FlagCells(h) \in Seq(Cells) /\ WrittenBlobKeys(n.keys, h) \in Seq(Cells)
           /\ EndCells(h) \in Seq(Cells)
<1>1. /\ <<Cell("string", n.name)>> \in Seq(Cells) /\ <<Cell("boolean", n.isTree)>> \in Seq(Cells)
  <2>1. "string" \in Kinds /\ "boolean" \in Kinds
    BY DEF Kinds
  <2> QED BY <2>1, ValuesOf, CellIn
<1>2. FlagCells(h) \in Seq(Cells) /\ EndCells(h) \in Seq(Cells)
  BY EndFits DEF Fits
<1>3. WrittenBlobKeys(n.keys, h) \in Seq(Cells)
  BY ValuesOf, KeysWritten
<1>4. WrittenNode(n, h) = <<Cell("string", n.name), Cell("boolean", n.isTree)>>
                           \o FlagCells(h) \o WrittenBlobKeys(n.keys, h) \o EndCells(h)
  BY Zenon DEF WrittenNode, FlagCells, EndCells
<1>5. <<Cell("string", n.name)>> \o <<Cell("boolean", n.isTree)>> = <<Cell("string", n.name), Cell("boolean", n.isTree)>>
  BY Pair, Zenon
<1>6. WrittenNode(n, h) = <<Cell("string", n.name)>> \o <<Cell("boolean", n.isTree)>>
                           \o FlagCells(h) \o WrittenBlobKeys(n.keys, h) \o EndCells(h)
  BY <1>4, <1>5, Zenon
<1> QED BY <1>1, <1>2, <1>3, <1>6, Zenon DEF Cat

(* ReadNode reads the node that was written and nothing after it, unless   *)
(* it has keys and is older than version 12.                               *)
LEMMA NodeRead ==
    ASSUME NEW h \in Header, h.type = Tree, NEW n \in ParsedNode, NEW more \in Seq(Cells),
           NEW s, NEW v, NEW l, Holds(s, Cat(WrittenNode(n, h), more), v, l)
    PROVE  IF LacksFlags(h, n) THEN ReadNode(s, h) = Failed(s, "panic")
           ELSE Holds(ReadNode(s, h), more, n, n.keys)
<1> DEFINE p1 == <<Cell("string", n.name)>>
           p2 == <<Cell("boolean", n.isTree)>>
           f == FlagCells(h)
           k == WrittenBlobKeys(n.keys, h)
           e == EndCells(h)
           e1 == Cat(e, more)
           k1 == Cat(k, e1)
           f1 == Cat(f, k1)
           p3 == Cat(p2, f1)
<1>1. /\ p1 \in Seq(Cells) /\ p2 \in Seq(Cells) /\ f \in Seq(Cells) /\ k \in Seq(Cells) /\ e \in Seq(Cells)
      /\ Cat(p1, p2) \in Seq(Cells) /\ Cat(Cat(p1, p2), f) \in Seq(Cells)
      /\ Cat(Cat(Cat(p1, p2), f), k) \in Seq(Cells)
      /\ e1 \in Seq(Cells) /\ k1 \in Seq(Cells) /\ f1 \in Seq(Cells) /\ p3 \in Seq(Cells)
  BY WrittenNodeParts, CatIn, Zenon
<1>2. Holds(s, Cat(Cat(Cat(Cat(Cat(p1, p2), f), k), e), more), v, l)
  <2>1. WrittenNode(n, h) = Cat(Cat(Cat(Cat(p1, p2), f), k), e)
    BY WrittenNodeParts, Zenon
  <2> QED BY <2>1, Zenon
<1> HIDE DEF p1, p2, f, k, e
<1>3. Holds(s, Cat(Cat(Cat(Cat(p1, p2), f), k), Cat(e, more)), v, l)
  BY <1>1, <1>2, HoldsCat, Zenon
<1> HIDE DEF e1
<1>4. Holds(s, Cat(Cat(Cat(p1, p2), f), Cat(k, e1)), v, l)
  <2>1. Holds(s, Cat(Cat(Cat(Cat(p1, p2), f), k), e1), v, l)
    BY <1>3, Zenon DEF e1
  <2> QED BY <1>1, <2>1, HoldsCat, Zenon
<1> HIDE DEF k1
<1>5. Holds(s, Cat(Cat(p1, p2), Cat(f, k1)), v, l)
  <2>1. Holds(s, Cat(Cat(Cat(p1, p2), f), k1), v, l)
    BY <1>4, Zenon DEF k1
  <2> QED BY <1>1, <2>1, HoldsCat, Zenon
<1> HIDE DEF f1
<1>6. Holds(s, Cat(p1, Cat(p2, f1)), v, l)
  <2>1. Holds(s, Cat(Cat(p1, p2), f1), v, l)
    BY <1>5, Zenon DEF f1
  <2> QED BY <1>1, <2>1, HoldsCat, Zenon
<1> HIDE DEF p3
<1> DEFINE name == Read(s, <<"string">>)
           isTree == Read(name, <<"boolean">>)
           flags == Read(isTree, FlagKinds(h))
           keys == ReadBlobKeys(flags, h)
           end == Read(keys, EndKinds(h))
<1>7. Holds(name, p3, n.name, l)
  <2>1. FitsFirst(p1, <<"string">>, n.name)
    BY FitsFirstCell, ValuesOf DEF p1, Kinds
  <2>2. Holds(s, Cat(p1, p3), v, l)
    BY <1>6, Zenon DEF p3
  <2> QED BY <1>1, <2>1, <2>2, HoldsFirst, Zenon
<1> HIDE DEF name
<1>8. Holds(isTree, f1, n.isTree, l)
  <2>1. FitsFirst(p2, <<"boolean">>, n.isTree)
    BY FitsFirstCell, ValuesOf DEF p2, Kinds
  <2>2. Holds(name, Cat(p2, f1), n.name, l)
    BY <1>7, Zenon DEF p3
  <2> QED BY <1>1, <2>1, <2>2, HoldsFirst, Zenon
<1> HIDE DEF isTree
<1>9. \E w : Holds(flags, k1, w, l)
  <2>1. Holds(isTree, Cat(f, k1), n.isTree, l)
    BY <1>8, Zenon DEF f1
  <2>2. Fits(f, FlagKinds(h))
    BY EndFits, Zenon DEF f
  <2> QED BY <1>1, <2>1, <2>2, HoldsFits, Zenon
<1> HIDE DEF flags
<1>10. \E w : Holds(keys, e1, w, n.keys)
  <2>1. PICK w : Holds(flags, k1, w, l)
    BY <1>9
  <2>2. Holds(flags, Cat(WrittenBlobKeys(n.keys, h), e1), w, l)
    BY <2>1, Zenon DEF k1, k
  <2>3. n.keys \in Seq(Values)
    BY ValuesOf
  <2> QED BY <1>1, <2>2, <2>3, KeysRead, Zenon
<1> HIDE DEF keys
<1>11. \E w : Holds(end, more, w, n.keys)
  <2>1. PICK w : Holds(keys, e1, w, n.keys)
    BY <1>10
  <2>2. Holds(keys, Cat(e, more), w, n.keys)
    BY <2>1, Zenon DEF e1
  <2>3. Fits(e, EndKinds(h))
    BY EndFits, Zenon DEF e
  <2> QED BY <1>1, <2>2, <2>3, HoldsFits, Zenon
<1> HIDE DEF end
<1>12. ReadNode(s, h) = IF h.version < 12 /\ keys.list # <<>> THEN Failed(s, "panic")
                        ELSE WithVal(end, [name |-> name.val, isTree |-> isTree.val, keys |-> keys.list])
  BY Zenon DEF ReadNode, WithVal, name, isTree, flags, keys, end, FlagKinds, EndKinds
<1>13. name.val = n.name /\ isTree.val = n.isTree /\ keys.list = n.keys
  BY <1>7, <1>8, <1>10 DEF Holds, Buf
<1>14. n = [name |-> n.name, isTree |-> n.isTree, keys |-> n.keys]
  BY DEF ParsedNode
<1>15. CASE LacksFlags(h, n)
  BY <1>12, <1>13, <1>15 DEF LacksFlags
<1>16. CASE ~LacksFlags(h, n)
  <2>1. ReadNode(s, h) = WithVal(end, n)
    BY <1>12, <1>13, <1>14, <1>16 DEF LacksFlags
  <2>2. Holds(WithVal(end, n), more, n, n.keys)
    BY <1>11, HoldsWithVal, Zenon
  <2> QED BY <1>16, <2>1, <2>2, Zenon
<1> QED BY <1>15, <1>16

--------------------------------------------------------------------------------
(***************************************************************************)
(* A tree.                                                                 *)
(***************************************************************************)

(* A parser that has panicked. *)
Panicked(s) == s = [in |-> s.in, err |-> "panic", val |-> s.val, list |-> s.list]

(* A parser that has panicked reads nothing more. *)
LEMMA PanicStaysInRead ==
    ASSUME NEW s, Panicked(s), NEW kinds
    PROVE  Panicked(Read(s, kinds)) /\ Read(s, kinds) = s
BY DEF Panicked, Read

(* Nor does ReadBlobKeys. *)
LEMMA PanicStaysInKeys ==
    ASSUME NEW s, Panicked(s), NEW h
    PROVE  Panicked(ReadBlobKeys(s, h))
<1>1. Panicked([s EXCEPT !.list = <<>>])
  BY DEF Panicked
<1>2. Panicked(ReadCount(s))
  BY <1>1, PanicStaysInRead DEF ReadCount
<1>3. Count(ReadCount(s)) = 0
  <2>1. ReadCount(s).err = "panic"
    BY <1>2 DEF Panicked
  <2> QED BY <2>1 DEF Count
<1>4. PICK after : KeysSteps(s, h, after)
  BY <1>3, KeysLoop
<1>5. ReadBlobKeys(s, h) = ReadCount(s)
  BY <1>3, <1>4 DEF KeysSteps
<1> QED BY <1>2, <1>5

(* Nor does ReadNode. *)
LEMMA PanicStaysInNode ==
    ASSUME NEW s, Panicked(s), NEW h
    PROVE  Panicked(ReadNode(s, h))
<1> DEFINE name == Read(s, <<"string">>)
           isTree == Read(name, <<"boolean">>)
           flags == Read(isTree, FlagKinds(h))
           keys == ReadBlobKeys(flags, h)
           end == Read(keys, EndKinds(h))
<1>1. Panicked(end)
  <2>1. Panicked(name)
    BY PanicStaysInRead, Zenon
  <2>2. Panicked(isTree)
    BY <2>1, PanicStaysInRead, Zenon
  <2>3. Panicked(flags)
    BY <2>2, PanicStaysInRead, Zenon
  <2>4. Panicked(keys)
    BY <2>3, PanicStaysInKeys, Zenon
  <2> QED BY <2>4, PanicStaysInRead, Zenon
<1>2. ReadNode(s, h) = IF h.version < 12 /\ keys.list # <<>> THEN Failed(s, "panic")
                       ELSE WithVal(end, [name |-> name.val, isTree |-> isTree.val, keys |-> keys.list])
  BY Zenon DEF ReadNode, WithVal, FlagKinds, EndKinds
<1>3. Panicked(Failed(s, "panic"))
  BY DEF Panicked, Failed
<1> HIDE DEF end, name, isTree, keys
<1>4. ASSUME NEW w PROVE Panicked(WithVal(end, w))
  BY <1>1 DEF Panicked, WithVal
<1> QED BY <1>2, <1>3, <1>4

(* A nil pointer that is dereferenced is a panic. *)
LEMMA FailedPanics ==
    ASSUME NEW s, NEW in, NEW v, NEW l, Holds(s, in, v, l)
    PROVE  Panicked(Failed(s, "panic"))
BY DEF Holds, Buf, Failed, Panicked

(* A panic on one element is a panic of the list. *)
LEMMA PanicListed ==
    ASSUME NEW r, NEW s, Panicked(s)
    PROVE  Panicked(Listed(r, s))
BY DEF Panicked, Listed

(* A node is written as cells. *)
LEMMA NodeWritten ==
    ASSUME NEW h \in Header, h.type = Tree, NEW n \in ParsedNode
    PROVE  WrittenNode(n, h) \in Seq(Cells)
<1> DEFINE p1 == <<Cell("string", n.name)>>
           p2 == <<Cell("boolean", n.isTree)>>
           f == FlagCells(h)
           k == WrittenBlobKeys(n.keys, h)
           e == EndCells(h)
<1>1. /\ p1 \in Seq(Cells) /\ p2 \in Seq(Cells) /\ f \in Seq(Cells) /\ k \in Seq(Cells) /\ e \in Seq(Cells)
      /\ WrittenNode(n, h) = Cat(Cat(Cat(Cat(p1, p2), f), k), e)
  BY WrittenNodeParts, Zenon
<1> HIDE DEF p1, p2, f, k, e
<1>2. Cat(Cat(Cat(Cat(p1, p2), f), k), e) \in Seq(Cells)
  BY <1>1, CatIn, Zenon
<1> QED BY <1>1, <1>2, Zenon

(* Nodes are written as cells. *)
LEMMA NodesWritten ==
    ASSUME NEW h \in Header, h.type = Tree, NEW nodes \in Seq(ParsedNode)
    PROVE  WrittenNodes(nodes, h) \in Seq(Cells)
<1> DEFINE L == Len(nodes)
           D == [j \in DOMAIN nodes |-> WrittenNode(nodes[j], h)]
           c == <<Cell("count", L)>>
<1>0. L \in Nat /\ DOMAIN nodes = 1..L /\ \A j \in 1..L : nodes[j] \in ParsedNode
  OBVIOUS
<1>1. D \in Seq(Seq(Cells))
  <2>1. \A j \in 1..L : WrittenNode(nodes[j], h) \in Seq(Cells)
    BY <1>0, NodeWritten
  <2>2. D \in [1..L -> Seq(Cells)]
    BY <1>0, <2>1
  <2> HIDE DEF D
  <2> QED BY <1>0, <2>2
<1>2. c \in Seq(Cells)
  BY <1>0, CellIn DEF Values, Kinds
<1>3. WrittenNodes(nodes, h) = Cat(c, FlattenSeq(D))
  BY DEF WrittenNodes, Cat
<1> HIDE DEF D, c
<1>4. FlattenSeq(D) \in Seq(Cells)
  BY <1>1, FlattenIn
<1> QED BY <1>2, <1>3, <1>4, CatIn

(* The nodes before the first that cannot be read are read. *)
LEMMA NodesRead ==
    ASSUME NEW h \in Header, h.type = Tree, NEW nodes \in Seq(ParsedNode),
           NEW more \in Seq(Cells), NEW s, NEW v, NEW l,
           Holds(s, Cat(WrittenNodes(nodes, h), more), v, l)
    PROVE  IF \E j \in DOMAIN nodes : LacksFlags(h, nodes[j])
           THEN Panicked(ReadNodes(s, h))
           ELSE \E w : Holds(ReadNodes(s, h), more, w, nodes)
<1> DEFINE L == Len(nodes)
           D == [j \in DOMAIN nodes |-> WrittenNode(nodes[j], h)]
<1>0. L \in Nat /\ DOMAIN nodes = 1..L /\ \A j \in 1..L : nodes[j] \in ParsedNode
  OBVIOUS
<1>13. s = Buf(Cat(WrittenNodes(nodes, h), more), v, l)
  BY DEF Holds
<1>1. /\ D \in Seq(Seq(Cells)) /\ Len(D) = L
      /\ \A j \in 1..L : D[j] = WrittenNode(nodes[j], h)
  <2>1. \A j \in 1..L : WrittenNode(nodes[j], h) \in Seq(Cells)
    BY <1>0, NodeWritten
  <2>2. D \in [1..L -> Seq(Cells)] /\ DOMAIN D = 1..L
    BY <1>0, <2>1
  <2>3. \A j \in 1..L : D[j] = WrittenNode(nodes[j], h)
    BY <1>0
  <2> HIDE DEF D
  <2>4. D \in Seq(Seq(Cells))
    BY <1>0, <2>2
  <2> QED BY <1>0, <2>2, <2>3, <2>4
<1>2. WrittenNodes(nodes, h) = Cat(<<Cell("count", L)>>, FlattenSeq(D))
  BY DEF WrittenNodes, Cat
<1> HIDE DEF D
<1>3. PICK rest \in [0..L -> Seq(Cells)] : Rests(D, rest) /\ rest[0] = FlattenSeq(D)
  BY <1>1, FlattenSeqRests
<1> DEFINE r == [n \in 0..L |-> Cat(rest[n], more)]
<1>4. /\ \A n \in 0..L : r[n] \in Seq(Cells)
      /\ r[L] = more
      /\ \A n \in 0..(L - 1) : r[n] = Cat(D[n + 1], r[n + 1])
  <2>1. \A n \in 0..L : rest[n] \in Seq(Cells) /\ r[n] = Cat(rest[n], more)
    BY <1>3
  <2> HIDE DEF r
  <2>2. \A n \in 0..L : r[n] \in Seq(Cells)
    BY <2>1, CatIn
  <2>3. r[L] = more
    <3>1. rest[L] = <<>> /\ L \in 0..L
      BY <1>0, <1>1, <1>3 DEF Rests
    <3>2. Cat(<<>>, more) = more
      BY CatEmpty
    <3> QED BY <2>1, <3>1, <3>2
  <2>4. ASSUME NEW n \in 0..(L - 1) PROVE r[n] = Cat(D[n + 1], r[n + 1])
    <3>1. n \in 0..L /\ n + 1 \in 0..L /\ n + 1 \in 1..L
      BY <1>0
    <3>2. rest[n] = Cat(D[n + 1], rest[n + 1])
      BY <1>1, <1>3 DEF Rests
    <3>3. D[n + 1] \in Seq(Cells)
      BY <1>1, <3>1
    <3>4. Cat(Cat(D[n + 1], rest[n + 1]), more) = Cat(D[n + 1], Cat(rest[n + 1], more))
      BY <2>1, <3>1, <3>3, CatAssociates
    <3> QED BY <2>1, <3>1, <3>2, <3>4
  <2> QED BY <2>2, <2>3, <2>4
<1>5. Holds(ReadCount(s), r[0], L, <<>>)
  <2>0. 0 \in 0..L
    BY <1>0
  <2>1. <<Cell("count", L)>> \in Seq(Cells) /\ L \in Values /\ "count" \in Kinds
    BY <1>0, CellIn DEF Values, Kinds
  <2>2. Cat(WrittenNodes(nodes, h), more) = Cat(<<Cell("count", L)>>, r[0])
    <3>1. rest[0] \in Seq(Cells) /\ r[0] = Cat(rest[0], more)
      BY <2>0, <1>3
    <3> DEFINE c == <<Cell("count", L)>>
    <3>2. c \in Seq(Cells)
      BY <2>1
    <3> HIDE DEF c
    <3>3. Cat(Cat(c, rest[0]), more) = Cat(c, Cat(rest[0], more))
      BY <3>1, <3>2, CatAssociates
    <3>4. Cat(Cat(<<Cell("count", L)>>, rest[0]), more) = Cat(<<Cell("count", L)>>, Cat(rest[0], more))
      BY <3>3 DEF c
    <3> HIDE DEF L, r
    <3> QED BY <1>2, <1>3, <3>1, <3>4
  <2>3. Holds([s EXCEPT !.list = <<>>], Cat(<<Cell("count", L)>>, r[0]), v, <<>>)
    <3> DEFINE in == Cat(WrittenNodes(nodes, h), more)
    <3>1. [Buf(in, v, l) EXCEPT !.list = <<>>] = Buf(in, v, <<>>)
      BY DEF Buf
    <3> HIDE DEF r, L
    <3> QED BY <2>2, <3>1, <1>13 DEF Holds
  <2>4. r[0] \in Seq(Cells)
    BY <2>0, <1>4
  <2> HIDE DEF r, L
  <2>5. FitsFirst(<<Cell("count", L)>>, <<"count">>, L)
    BY <2>1, FitsFirstCell, Zenon
  <2> QED BY <2>3, <2>4, <2>5, HoldsFirst, Zenon DEF ReadCount
<1>6. Count(ReadCount(s)) = L
  BY <1>5 DEF Holds, Count, Buf
<1> HIDE DEF r, L
<1>7. PICK after : /\ ReadNodes(s, h) = after[L]
                   /\ after[0] = ReadCount(s)
                   /\ \A n \in 1..L : after[n] = Listed(after[n - 1], ReadNode(after[n - 1], h))
  <2>1. Count(ReadCount(s)) \in Nat
    BY <1>0, <1>6
  <2>2. PICK after : NodesSteps(s, h, after)
    BY <2>1, NodesLoop
  <2> QED BY <2>2, <1>6 DEF NodesSteps
<1> DEFINE Bad(n) == \E j \in 1..n : LacksFlags(h, nodes[j])
           Good(n) == \E w : Holds(after[n], r[n], w, SubSeq(nodes, 1, n))
           T == {n \in 0..L : IF Bad(n) THEN Panicked(after[n]) ELSE Good(n)}
<1>8. 0..L \subseteq T
  <2>1. 0 \in T
    <3>1. SubSeq(nodes, 1, 0) = <<>> /\ 0 \in 0..L
      BY <1>0
    <3>2. Good(0)
      BY <1>5, <1>7, <3>1
    <3>3. ~Bad(0)
      OBVIOUS
    <3> HIDE DEF Bad, Good
    <3> QED BY <3>1, <3>2, <3>3
  <2>2. ASSUME NEW n \in 0..(L - 1), n \in T PROVE n + 1 \in T
    <3>1. n \in 0..L /\ n + 1 \in 0..L /\ n + 1 \in 1..L /\ (n + 1) - 1 = n
      BY <1>0
    <3>2. IF Bad(n) THEN Panicked(after[n]) ELSE Good(n)
      <4> HIDE DEF Bad, Good
      <4> QED BY <2>2
    <3>3. after[n + 1] = Listed(after[n], ReadNode(after[n], h))
      BY <1>7, <3>1
    <3>4. r[n + 1] \in Seq(Cells) /\ r[n] = Cat(D[n + 1], r[n + 1])
      BY <1>4, <3>1
    <3>5. D[n + 1] = WrittenNode(nodes[n + 1], h) /\ nodes[n + 1] \in ParsedNode
      BY <1>0, <1>1, <3>1
    <3>6. Bad(n + 1) <=> Bad(n) \/ LacksFlags(h, nodes[n + 1])
      <4>1. \A j : j \in 1..(n + 1) <=> j \in 1..n \/ j = n + 1
        BY <3>1, <1>0
      <4> QED BY <4>1
    <3>7. CASE Bad(n)
      <4>1. Panicked(after[n])
        <5> HIDE DEF Bad, Good
        <5> QED BY <3>2, <3>7
      <4>2. Panicked(after[n + 1])
        <5>1. Panicked(Listed(after[n], ReadNode(after[n], h)))
          BY <4>1, PanicStaysInNode, PanicListed, Zenon
        <5> QED BY <3>3, <5>1, Zenon
      <4> HIDE DEF Bad, Good
      <4> QED BY <3>1, <3>6, <3>7, <4>2
    <3>8. CASE ~Bad(n)
      <4>1. PICK w : Holds(after[n], r[n], w, SubSeq(nodes, 1, n))
        <5>1. Good(n)
          <6> HIDE DEF Bad, Good
          <6> QED BY <3>2, <3>8
        <5> QED BY <5>1
      <4>2. Holds(after[n], Cat(WrittenNode(nodes[n + 1], h), r[n + 1]), w, SubSeq(nodes, 1, n))
        BY <4>1, <3>4, <3>5, Zenon
      <4>3. IF LacksFlags(h, nodes[n + 1]) THEN ReadNode(after[n], h) = Failed(after[n], "panic")
            ELSE Holds(ReadNode(after[n], h), r[n + 1], nodes[n + 1], nodes[n + 1].keys)
        BY <4>2, <3>4, <3>5, NodeRead, Zenon
      <4>4. CASE LacksFlags(h, nodes[n + 1])
        <5>1. Panicked(ReadNode(after[n], h))
          BY <4>1, <4>3, <4>4, FailedPanics, Zenon
        <5>2. Panicked(after[n + 1])
          BY <5>1, <3>3, PanicListed, Zenon
        <5> HIDE DEF Bad, Good
        <5> QED BY <3>1, <3>6, <4>4, <5>2
      <4>5. CASE ~LacksFlags(h, nodes[n + 1])
        <5>1. Holds(ReadNode(after[n], h), r[n + 1], nodes[n + 1], nodes[n + 1].keys)
          BY <4>3, <4>5, Zenon
        <5>2. Holds(Listed(after[n], ReadNode(after[n], h)),
                    r[n + 1], nodes[n + 1], Append(SubSeq(nodes, 1, n), nodes[n + 1]))
          BY <4>1, <5>1, HoldsListed, Zenon
        <5>3. Append(SubSeq(nodes, 1, n), nodes[n + 1]) = SubSeq(nodes, 1, n + 1)
          BY <1>0, <3>1 DEF L
        <5>4. Good(n + 1)
          BY <3>3, <5>2, <5>3, Zenon
        <5> HIDE DEF Bad, Good
        <5> QED BY <3>1, <3>6, <3>8, <4>5, <5>4
      <4> QED BY <4>4, <4>5, Zenon
    <3> QED BY <3>7, <3>8, Zenon
  <2>3. \A n \in 0..(L - 1) : n \in T => n + 1 \in T
    BY <2>2, Zenon
  <2> HIDE DEF T
  <2> QED BY <2>1, <2>3, <1>0, InductionUp
<1>9. IF Bad(L) THEN Panicked(after[L]) ELSE Good(L)
  <2>1. L \in 0..L
    BY <1>0
  <2>2. L \in T
    <3> HIDE DEF T
    <3> QED BY <2>1, <1>8
  <2> HIDE DEF Bad, Good
  <2> QED BY <2>2
<1>10. Bad(L) <=> \E j \in DOMAIN nodes : LacksFlags(h, nodes[j])
  BY <1>0
<1>11. SubSeq(nodes, 1, L) = nodes
  BY <1>0 DEF L
<1>12. Good(L) => \E w : Holds(ReadNodes(s, h), more, w, nodes)
  BY <1>4, <1>7, <1>11, Zenon
<1>14. Panicked(after[L]) => Panicked(ReadNodes(s, h))
  BY <1>7, Zenon
<1> HIDE DEF Bad, Good
<1> QED BY <1>9, <1>10, <1>12, <1>14, Zenon

(* From version 12 on a tree is read as it was written; before, the parser *)
(* panics if any of its nodes has a key.                                   *)
THEOREM TreeIsRead ==
    ASSUME NEW version \in Nat, NEW nodes \in Seq(ParsedNode)
    PROVE  LET read == ReadTree(WrittenTree(version, nodes))
           IN  IF \E j \in DOMAIN nodes : version < 12 /\ nodes[j].keys # <<>>
               THEN read.err = "panic"
               ELSE read.err = "none" /\ read.list = nodes
<1> DEFINE h == [type |-> Tree, version |-> version]
           key == WrittenBlobKey(Nil, h, FALSE)
           front == When(version >= 12, Times(2, <<Flag>>))
                    \o key \o <<Ints>> \o key \o <<Ints>>
                    \o When(version \in 11..16, <<Ints>>)
                    \o When(version >= 15, <<Ints>>)
           kinds == When(version >= 12, Times(2, <<"boolean">>))
                    \o BlobKey(h, TRUE) \o <<"ints">> \o BlobKey(h, TRUE) \o <<"ints">>
                    \o When(version >= 11 /\ version <= 16, <<"ints">>)
                    \o When(version >= 15, <<"ints">>)
           none == When(version >= 18, WrittenNodes(<<>>, h))
           c == <<Cell("header", h)>>
           w == WrittenNodes(nodes, h)
<1>1. h \in Header /\ h.type = Tree /\ h.version = version
  BY DEF Header
<1>2. FitsFirst(c, <<"header">>, h)
  BY <1>1, FitsFirstCell DEF Values, Kinds
<1> HIDE DEF h
<1>3. Fits(front, kinds)
  <2>1. Fits(key, BlobKey(h, TRUE))
    BY <1>1, NullKeyFits, Zenon
  <2> HIDE DEF key
  <2>2. Fits(When(version >= 12, Times(2, <<Flag>>)), When(version >= 12, Times(2, <<"boolean">>)))
    BY FixedCells, FitsTwice, FitsWhen, Zenon
  <2>3. Fits(When(version \in 11..16, <<Ints>>), When(version >= 11 /\ version <= 16, <<"ints">>))
    <3>1. (version \in 11..16) <=> (version >= 11 /\ version <= 16)
      OBVIOUS
    <3>2. CASE version \in 11..16
      BY <3>1, <3>2, FixedCells DEF When
    <3>3. CASE version \notin 11..16
      BY <3>1, <3>3, FitsEmpty DEF When
    <3> QED BY <3>2, <3>3
  <2>4. Fits(When(version >= 15, <<Ints>>), When(version >= 15, <<"ints">>))
    BY FixedCells, FitsWhen, Zenon
  <2>5. Fits(When(version >= 12, Times(2, <<Flag>>)) \o key,
             When(version >= 12, Times(2, <<"boolean">>)) \o BlobKey(h, TRUE))
    BY <2>1, <2>2, FitsCat, Zenon
  <2>6. Fits(When(version >= 12, Times(2, <<Flag>>)) \o key \o <<Ints>>,
             When(version >= 12, Times(2, <<"boolean">>)) \o BlobKey(h, TRUE) \o <<"ints">>)
    BY <2>5, FixedCells, FitsCat, Zenon
  <2>7. Fits(When(version >= 12, Times(2, <<Flag>>)) \o key \o <<Ints>> \o key,
             When(version >= 12, Times(2, <<"boolean">>)) \o BlobKey(h, TRUE) \o <<"ints">> \o BlobKey(h, TRUE))
    BY <2>1, <2>6, FitsCat, Zenon
  <2>8. Fits(When(version >= 12, Times(2, <<Flag>>)) \o key \o <<Ints>> \o key \o <<Ints>>,
             When(version >= 12, Times(2, <<"boolean">>)) \o BlobKey(h, TRUE) \o <<"ints">> \o BlobKey(h, TRUE) \o <<"ints">>)
    BY <2>7, FixedCells, FitsCat, Zenon
  <2>9. Fits(When(version >= 12, Times(2, <<Flag>>)) \o key \o <<Ints>> \o key \o <<Ints>>
             \o When(version \in 11..16, <<Ints>>),
             When(version >= 12, Times(2, <<"boolean">>)) \o BlobKey(h, TRUE) \o <<"ints">> \o BlobKey(h, TRUE) \o <<"ints">>
             \o When(version >= 11 /\ version <= 16, <<"ints">>))
    BY <2>8, <2>3, FitsCat, Zenon
  <2> QED BY <2>9, <2>4, FitsCat, Zenon
<1>4. none \in Seq(Cells) /\ WrittenNodes(<<>>, h) \in Seq(Cells) /\ w \in Seq(Cells) /\ front \in Seq(Cells) /\ c \in Seq(Cells)
  <2>1. w \in Seq(Cells)
    BY <1>1, NodesWritten, Zenon
  <2>2. WrittenNodes(<<>>, h) \in Seq(Cells)
    <3>1. <<>> \in Seq(ParsedNode)
      OBVIOUS
    <3> QED BY <1>1, <3>1, NodesWritten, Zenon
  <2>3. none \in Seq(Cells)
    <3>1. <<>> \in Seq(Cells)
      OBVIOUS
    <3> QED BY <2>2, <3>1, Zenon DEF When
  <2>4. front \in Seq(Cells) /\ c \in Seq(Cells)
    BY <1>2, <1>3, Zenon DEF FitsFirst, Fits
  <2> QED BY <2>1, <2>2, <2>3, <2>4, Zenon
<1>5. WrittenTree(version, nodes) = Cat(Cat(Cat(c, front), none), w)
  BY Zenon DEF WrittenTree, Cat, h
<1> DEFINE all == Cat(Cat(Cat(c, front), none), w)
           header == ReadHeader(Buffer(all))
           fields == Read(header, kinds)
           missing == IF version >= 18 THEN ReadNodes(fields, h) ELSE fields
<1>6. Holds(header, Cat(front, Cat(none, w)), h, <<>>)
  <2> HIDE DEF c, front, none, w
  <2>1. /\ Cat(c, front) \in Seq(Cells) /\ Cat(none, w) \in Seq(Cells)
        /\ Cat(front, Cat(none, w)) \in Seq(Cells)
    BY <1>4, CatIn, Zenon
  <2>2. Holds(Buffer(all), all, Nil, <<>>)
    BY DEF Holds, Buffer, Buf
  <2>3. Holds(Buffer(all), Cat(Cat(c, front), Cat(none, w)), Nil, <<>>)
    BY <2>1, <2>2, <1>4, HoldsCat, Zenon
  <2>4. Holds(Buffer(all), Cat(c, Cat(front, Cat(none, w))), Nil, <<>>)
    BY <2>1, <2>3, <1>4, HoldsCat, Zenon
  <2>5. Holds(Read(Buffer(all), <<"header">>), Cat(front, Cat(none, w)), h, <<>>)
    BY <2>1, <2>4, <1>2, HoldsFirst, Zenon
  <2> QED BY <2>5, Zenon DEF ReadHeader
<1>7. header.err = "none" /\ header.val = h
  <2> HIDE DEF header
  <2> QED BY <1>6 DEF Holds, Buf
<1>8. ReadTree(all) = ReadNodes(missing, h)
  <2>1. ReadTree(all) = IF header.err # "none" THEN header
        ELSE ReadNodes(IF header.val.version >= 18
                       THEN ReadNodes(Read(header, When(header.val.version >= 12, Times(2, <<"boolean">>))
                              \o BlobKey(header.val, TRUE) \o <<"ints">>
                              \o BlobKey(header.val, TRUE) \o <<"ints">>
                              \o When(header.val.version >= 11 /\ header.val.version <= 16, <<"ints">>)
                              \o When(header.val.version >= 15, <<"ints">>)), header.val)
                       ELSE Read(header, When(header.val.version >= 12, Times(2, <<"boolean">>))
                              \o BlobKey(header.val, TRUE) \o <<"ints">>
                              \o BlobKey(header.val, TRUE) \o <<"ints">>
                              \o When(header.val.version >= 11 /\ header.val.version <= 16, <<"ints">>)
                              \o When(header.val.version >= 15, <<"ints">>)), header.val)
    BY Zenon DEF ReadTree
  <2> HIDE DEF header, all
  <2> QED BY <2>1, <1>7, <1>1, Zenon
<1> HIDE DEF header, front, kinds, c, all
<1>9. \E v : Holds(fields, Cat(none, w), v, <<>>)
  <2> HIDE DEF none, w
  <2>1. Cat(none, w) \in Seq(Cells)
    BY <1>4, CatIn, Zenon
  <2> QED BY <2>1, <1>3, <1>6, HoldsFits, Zenon
<1> HIDE DEF fields
<1>10. \E v, l : Holds(missing, w, v, l)
  <2>1. PICK v : Holds(fields, Cat(none, w), v, <<>>)
    BY <1>9
  <2>2. CASE version >= 18
    <3>1. Holds(fields, Cat(WrittenNodes(<<>>, h), w), v, <<>>)
      BY <2>1, <2>2, Zenon DEF When
    <3>2. <<>> \in Seq(ParsedNode) /\ DOMAIN <<>> = {}
      OBVIOUS
    <3>3. IF \E j \in DOMAIN <<>> : LacksFlags(h, <<>>[j])
          THEN Panicked(ReadNodes(fields, h))
          ELSE \E v2 : Holds(ReadNodes(fields, h), w, v2, <<>>)
      BY <3>1, <3>2, <1>1, <1>4, NodesRead
    <3>4. \E v2 : Holds(ReadNodes(fields, h), w, v2, <<>>)
      BY <3>2, <3>3
    <3> QED BY <3>4, <2>2, Zenon
  <2>3. CASE ~(version >= 18)
    <3>1. none = <<>>
      BY <2>3 DEF When
    <3> HIDE DEF w
    <3>2. Cat(<<>>, w) = w
      BY <1>4, CatEmpty
    <3>3. Holds(fields, w, v, <<>>)
      BY <2>1, <3>1, <3>2, Zenon
    <3> QED BY <3>3, <2>3, Zenon
  <2> QED BY <2>2, <2>3
<1> HIDE DEF missing, none
<1>11. IF \E j \in DOMAIN nodes : LacksFlags(h, nodes[j])
       THEN Panicked(ReadNodes(missing, h))
       ELSE \E v : Holds(ReadNodes(missing, h), <<>>, v, nodes)
  <2>1. PICK v, l : Holds(missing, w, v, l)
    BY <1>10
  <2>2. <<>> \in Seq(Cells)
    OBVIOUS
  <2>3. Holds(missing, Cat(WrittenNodes(nodes, h), <<>>), v, l)
    <3>1. Cat(w, <<>>) = w
      <4> HIDE DEF w
      <4> QED BY <1>4, CatEmpty
    <3> QED BY <2>1, <3>1, Zenon
  <2> QED BY <2>2, <2>3, <1>1, NodesRead, Zenon
<1>12. \A j : LacksFlags(h, nodes[j]) <=> version < 12 /\ nodes[j].keys # <<>>
  BY <1>1 DEF LacksFlags
<1>13. \A s : Panicked(s) => s.err = "panic"
  BY DEF Panicked
<1>14. \A s, in, v, l : Holds(s, in, v, l) => s.err = "none" /\ s.list = l
  BY DEF Holds, Buf
<1> HIDE DEF w
<1>15. ReadTree(WrittenTree(version, nodes)) = ReadNodes(missing, h)
  BY <1>5, <1>8, Zenon DEF all
<1> QED BY <1>11, <1>12, <1>13, <1>14, <1>15, Zenon

--------------------------------------------------------------------------------
(***************************************************************************)
(* A commit.                                                               *)
(***************************************************************************)

(* A count is read as it was written, and the list begins empty. *)
LEMMA HoldsCount ==
    ASSUME NEW s, NEW v, NEW l, NEW n \in Nat, NEW more \in Seq(Cells),
           Holds(s, Cat(<<Cell("count", n)>>, more), v, l)
    PROVE  Holds(ReadCount(s), more, n, <<>>)
<1>1. Holds([s EXCEPT !.list = <<>>], Cat(<<Cell("count", n)>>, more), v, <<>>)
  BY DEF Holds, Buf
<1>2. FitsFirst(<<Cell("count", n)>>, <<"count">>, n)
  BY FitsFirstCell DEF Values, Kinds
<1> QED BY <1>1, <1>2, HoldsFirst, Zenon DEF ReadCount

(* The tree and the location as they were written, but for no computer. *)
ReadAs(read, sha1, location) ==
    /\ read.tree = sha1
    /\ read.err = IF location.computer = "" THEN "location" ELSE "none"
    /\ read.path = IF location.computer = "" THEN EmptyPath
                   ELSE QueryUnescape(location.path)

(* A commit has them wherever its version puts them. *)
LEMMA CommitRead ==
    ASSUME NEW version \in Nat, NEW parents \in Seq(Values), NEW sha1 \in Values,
           NEW location \in Values
    PROVE  ReadAs(ReadCommit(WrittenCommit(version, parents, sha1, location)), sha1, location)
<1> DEFINE h == [type |-> Commit, version |-> version]
           c == <<Cell("header", h)>>
           n == <<Null, Null>>
           p == WrittenBlobKeys(parents, h)
           k == WrittenBlobKey(sha1, h, TRUE)
           o == <<Cell("string", location)>>
           d == When(version <= 7, <<Null>>) \o When(version \in 4..7, <<Flag>>) \o <<Date>>
           f == When(version >= 3, <<Cell("count", 1)>>)
           e == When(version >= 3, Times(2, <<Null>>))
                \o When(version >= 8, <<Flag>>)
                \o When(version >= 9, <<Flag>>)
                \o When(version >= 5, << Cell("data", Nil) >>)
           dKinds == When(version < 8, <<"string">> \o When(version >= 4, <<"boolean">>)) \o <<"date">>
           eKinds(m) == When(version >= 3, Times(2 * m, <<"string">>))
                        \o When(version >= 8, <<"boolean">>)
                        \o When(version >= 9, <<"boolean">>)
                        \o When(version >= 5, <<"data">>)
<1>1. h \in Header /\ h.type = Commit /\ h.version = version
  BY DEF Header
<1>2. FitsFirst(c, <<"header">>, h)
  BY <1>1, FitsFirstCell DEF Values, Kinds
<1>3. WrittenCommit(version, parents, sha1, location)
      = Cat(Cat(Cat(Cat(Cat(Cat(Cat(c, n), p), k), o), d), f), e)
  BY Zenon DEF WrittenCommit, Cat
<1> HIDE DEF h
<1>4. Fits(n, <<"string", "string">>)
  <2>1. Fits(<<Null>> \o <<Null>>, <<"string">> \o <<"string">>)
    BY FixedCells, FitsCat, Zenon
  <2>2. <<Null>> \o <<Null>> = <<Null, Null>> /\ <<"string">> \o <<"string">> = <<"string", "string">>
    BY Pair, Zenon
  <2> QED BY <2>1, <2>2, Zenon
<1>5. FitsFirst(k, BlobKey(h, TRUE), sha1)
  BY <1>1, BlobKeyFits, Zenon
<1>6. FitsFirst(o, <<"string">>, location)
  BY FitsFirstCell DEF Kinds
<1>7. Fits(d, dKinds)
  <2>1. CASE version < 4
    <3>1. d = <<Null>> \o <<>> \o <<Date>> /\ dKinds = (<<"string">> \o <<>>) \o <<"date">>
      <4>1. version <= 7 /\ version \notin 4..7 /\ version < 8 /\ ~(version >= 4)
        BY <2>1
      <4> QED BY <4>1, Zenon DEF When
    <3>2. Fits(<<Null>> \o <<>>, <<"string">> \o <<>>)
      BY FixedCells, FitsEmpty, FitsCat, Zenon
    <3>3. Fits(<<Null>> \o <<>> \o <<Date>>, (<<"string">> \o <<>>) \o <<"date">>)
      BY <3>2, FixedCells, FitsCat, Zenon
    <3> QED BY <3>1, <3>3, Zenon
  <2>2. CASE version \in 4..7
    <3>1. d = <<Null>> \o <<Flag>> \o <<Date>> /\ dKinds = (<<"string">> \o <<"boolean">>) \o <<"date">>
      <4>1. version <= 7 /\ version \in 4..7 /\ version < 8 /\ version >= 4
        BY <2>2
      <4> QED BY <4>1, Zenon DEF When
    <3>2. Fits(<<Null>> \o <<Flag>>, <<"string">> \o <<"boolean">>)
      BY FixedCells, FitsCat, Zenon
    <3>3. Fits(<<Null>> \o <<Flag>> \o <<Date>>, (<<"string">> \o <<"boolean">>) \o <<"date">>)
      BY <3>2, FixedCells, FitsCat, Zenon
    <3> QED BY <3>1, <3>3, Zenon
  <2>3. CASE version > 7
    <3>1. d = <<>> \o <<>> \o <<Date>> /\ dKinds = <<>> \o <<"date">>
      <4>1. ~(version <= 7) /\ version \notin 4..7 /\ ~(version < 8)
        BY <2>3
      <4> QED BY <4>1, Zenon DEF When
    <3>2. <<>> \o <<>> = <<>>
      OBVIOUS
    <3>3. Fits(<<>> \o <<Date>>, <<>> \o <<"date">>)
      BY FixedCells, FitsEmpty, FitsCat, Zenon
    <3> QED BY <3>1, <3>2, <3>3, Zenon
  <2> QED BY <2>1, <2>2, <2>3
<1>8. Fits(e, eKinds(1))
  <2>1. Fits(When(version >= 3, Times(2, <<Null>>)), When(version >= 3, Times(2, <<"string">>)))
    BY FixedCells, FitsTwice, FitsWhen, Zenon
  <2>2. /\ Fits(When(version >= 8, <<Flag>>), When(version >= 8, <<"boolean">>))
        /\ Fits(When(version >= 9, <<Flag>>), When(version >= 9, <<"boolean">>))
    BY FixedCells, FitsWhen, Zenon
  <2>3. Fits(<<Cell("data", Nil)>>, <<"data">>)
    BY FitsCell DEF Values, Kinds
  <2>4. Fits(When(version >= 5, <<Cell("data", Nil)>>), When(version >= 5, <<"data">>))
    BY <2>3, FitsWhen, Zenon
  <2>5. Fits(When(version >= 3, Times(2, <<Null>>)) \o When(version >= 8, <<Flag>>),
             When(version >= 3, Times(2, <<"string">>)) \o When(version >= 8, <<"boolean">>))
    BY <2>1, <2>2, FitsCat, Zenon
  <2>6. Fits(When(version >= 3, Times(2, <<Null>>)) \o When(version >= 8, <<Flag>>) \o When(version >= 9, <<Flag>>),
             When(version >= 3, Times(2, <<"string">>)) \o When(version >= 8, <<"boolean">>) \o When(version >= 9, <<"boolean">>))
    BY <2>5, <2>2, FitsCat, Zenon
  <2>7. 2 * 1 = 2
    OBVIOUS
  <2> QED BY <2>4, <2>6, <2>7, FitsCat, Zenon
<1>9. /\ c \in Seq(Cells) /\ n \in Seq(Cells) /\ p \in Seq(Cells) /\ k \in Seq(Cells)
      /\ o \in Seq(Cells) /\ d \in Seq(Cells) /\ f \in Seq(Cells) /\ e \in Seq(Cells)
  <2>1. p \in Seq(Cells)
    BY <1>1, KeysWritten, Zenon
  <2>2. f \in Seq(Cells)
    <3>1. <<Cell("count", 1)>> \in Seq(Cells) /\ <<>> \in Seq(Cells)
      BY CellIn DEF Values, Kinds
    <3> QED BY <3>1, Zenon DEF When
  <2> HIDE DEF c, n, p, k, o, d, f, e, eKinds, dKinds
  <2> QED BY <2>1, <2>2, <1>2, <1>4, <1>5, <1>6, <1>7, <1>8, Zenon DEF FitsFirst, Fits
<1> HIDE DEF c, n, k, o, d, e, eKinds, dKinds
<1> DEFINE r7 == e
           r6 == Cat(f, r7)
           r5 == Cat(d, r6)
           r4 == Cat(o, r5)
           r3 == Cat(k, r4)
           r2 == Cat(p, r3)
           r1 == Cat(n, r2)
           q1 == c
           q2 == Cat(q1, n)
           q3 == Cat(q2, p)
           q4 == Cat(q3, k)
           q5 == Cat(q4, o)
           q6 == Cat(q5, d)
           q7 == Cat(q6, f)
           all == Cat(q7, r7)
           s == Buffer(all)
<1>10. /\ r7 \in Seq(Cells) /\ r6 \in Seq(Cells) /\ r5 \in Seq(Cells) /\ r4 \in Seq(Cells) /\ r3 \in Seq(Cells) /\ r2 \in Seq(Cells) /\ r1 \in Seq(Cells)
       /\ q1 \in Seq(Cells) /\ q2 \in Seq(Cells) /\ q3 \in Seq(Cells) /\ q4 \in Seq(Cells) /\ q5 \in Seq(Cells) /\ q6 \in Seq(Cells) /\ q7 \in Seq(Cells)
  <2> HIDE DEF p, f
  <2>1. r7 \in Seq(Cells) /\ q1 \in Seq(Cells)
    BY <1>9
  <2> HIDE DEF r7
  <2>2. r6 \in Seq(Cells)
    BY <2>1, <1>9, CatIn, Zenon
  <2> HIDE DEF r6
  <2>3. r5 \in Seq(Cells)
    BY <2>2, <1>9, CatIn, Zenon
  <2> HIDE DEF r5
  <2>4. r4 \in Seq(Cells)
    BY <2>3, <1>9, CatIn, Zenon
  <2> HIDE DEF r4
  <2>5. r3 \in Seq(Cells)
    BY <2>4, <1>9, CatIn, Zenon
  <2> HIDE DEF r3
  <2>6. r2 \in Seq(Cells)
    BY <2>5, <1>9, CatIn, Zenon
  <2> HIDE DEF r2
  <2>7. r1 \in Seq(Cells)
    BY <2>6, <1>9, CatIn, Zenon
  <2> HIDE DEF q1
  <2>8. q2 \in Seq(Cells)
    BY <2>1, <2>7, <1>9, CatIn, Zenon
  <2> HIDE DEF q2
  <2>9. q3 \in Seq(Cells)
    BY <2>1, <2>8, <1>9, CatIn, Zenon
  <2> HIDE DEF q3
  <2>10. q4 \in Seq(Cells)
    BY <2>1, <2>9, <1>9, CatIn, Zenon
  <2> HIDE DEF q4
  <2>11. q5 \in Seq(Cells)
    BY <2>1, <2>10, <1>9, CatIn, Zenon
  <2> HIDE DEF q5
  <2>12. q6 \in Seq(Cells)
    BY <2>1, <2>11, <1>9, CatIn, Zenon
  <2> HIDE DEF q6
  <2>13. q7 \in Seq(Cells)
    BY <2>1, <2>12, <1>9, CatIn, Zenon
  <2> HIDE DEF r1, q7
  <2> QED BY <2>1, <2>2, <2>3, <2>4, <2>5, <2>6, <2>7, <2>8, <2>9, <2>10, <2>11, <2>12, <2>13, Zenon
<1>11. WrittenCommit(version, parents, sha1, location) = all
  BY <1>3, Zenon
<1> HIDE DEF p, f
<1>12. Holds(s, Cat(c, r1), Nil, <<>>)
  <2>7. Holds(s, Cat(q7, r7), Nil, <<>>)
    BY Zenon DEF Holds, Buffer, Buf
  <2>6. Holds(s, Cat(q6, r6), Nil, <<>>)
    <3> HIDE DEF q6, r7, s
    <3>1. Holds(s, Cat(Cat(q6, f), r7), Nil, <<>>)
      BY <2>7, Zenon
    <3> QED BY <3>1, <1>9, <1>10, HoldsCat, Zenon
  <2>5. Holds(s, Cat(q5, r5), Nil, <<>>)
    <3> HIDE DEF q5, r6, s
    <3>1. Holds(s, Cat(Cat(q5, d), r6), Nil, <<>>)
      BY <2>6, Zenon
    <3> QED BY <3>1, <1>9, <1>10, HoldsCat, Zenon
  <2>4. Holds(s, Cat(q4, r4), Nil, <<>>)
    <3> HIDE DEF q4, r5, s
    <3>1. Holds(s, Cat(Cat(q4, o), r5), Nil, <<>>)
      BY <2>5, Zenon
    <3> QED BY <3>1, <1>9, <1>10, HoldsCat, Zenon
  <2>3. Holds(s, Cat(q3, r3), Nil, <<>>)
    <3> HIDE DEF q3, r4, s
    <3>1. Holds(s, Cat(Cat(q3, k), r4), Nil, <<>>)
      BY <2>4, Zenon
    <3> QED BY <3>1, <1>9, <1>10, HoldsCat, Zenon
  <2>2. Holds(s, Cat(q2, r2), Nil, <<>>)
    <3> HIDE DEF q2, r3, s
    <3>1. Holds(s, Cat(Cat(q2, p), r3), Nil, <<>>)
      BY <2>3, Zenon
    <3> QED BY <3>1, <1>9, <1>10, HoldsCat, Zenon
  <2>1. Holds(s, Cat(q1, r1), Nil, <<>>)
    <3> HIDE DEF q1, r2, s
    <3>1. Holds(s, Cat(Cat(q1, n), r2), Nil, <<>>)
      BY <2>2, Zenon
    <3> QED BY <3>1, <1>9, <1>10, HoldsCat, Zenon
  <2> QED BY <2>1, Zenon
<1> HIDE DEF q1, q2, q3, q4, q5, q6, q7, r1, r2, r3, r4, r5, r6, r7, all, s
<1> DEFINE header == ReadHeader(s)
           texts == Read(header, <<"string", "string">>)
           keys == ReadBlobKeys(texts, h)
           tree2 == ReadBlobKey(keys, h, TRUE)
           place == Read(tree2, <<"string">>)
           date == Read(place, dKinds)
           failed == IF version >= 3 THEN ReadCount(date) ELSE date
           end == Read(failed, eKinds(Count(failed)))
<1>13. Holds(header, r1, h, <<>>)
  BY <1>2, <1>10, <1>12, HoldsFirst, Zenon DEF ReadHeader
<1> HIDE DEF header
<1>14. \E v : Holds(texts, r2, v, <<>>)
  <2>1. Holds(header, Cat(n, r2), h, <<>>)
    BY <1>13, Zenon DEF r1
  <2> QED BY <2>1, <1>4, <1>10, HoldsFits, Zenon
<1> HIDE DEF texts
<1>15. \E v : Holds(keys, r3, v, parents)
  <2>1. PICK v : Holds(texts, r2, v, <<>>)
    BY <1>14
  <2>2. Holds(texts, Cat(WrittenBlobKeys(parents, h), r3), v, <<>>)
    BY <2>1, Zenon DEF r2, p
  <2> QED BY <2>2, <1>1, <1>10, KeysRead, Zenon
<1> HIDE DEF keys
<1>16. Holds(tree2, r4, sha1, parents)
  <2>1. PICK v : Holds(keys, r3, v, parents)
    BY <1>15
  <2>2. Holds(keys, Cat(k, r4), v, parents)
    BY <2>1, Zenon DEF r3
  <2> QED BY <2>2, <1>5, <1>10, HoldsFirst, Zenon DEF ReadBlobKey
<1> HIDE DEF tree2
<1>17. Holds(place, r5, location, parents)
  <2>1. Holds(tree2, Cat(o, r5), sha1, parents)
    BY <1>16, Zenon DEF r4
  <2> QED BY <2>1, <1>6, <1>10, HoldsFirst, Zenon
<1> HIDE DEF place
<1>18. \E v : Holds(date, r6, v, parents)
  <2>1. Holds(place, Cat(d, r6), location, parents)
    BY <1>17, Zenon DEF r5
  <2> QED BY <2>1, <1>7, <1>10, HoldsFits, Zenon
<1> HIDE DEF date
<1>19. /\ \E v, l : Holds(failed, r7, v, l)
       /\ version >= 3 => Count(failed) = 1
  <2>1. PICK v : Holds(date, r6, v, parents)
    BY <1>18
  <2>2. CASE version >= 3
    <3>1. f = <<Cell("count", 1)>>
      BY <2>2 DEF f, When
    <3>2. Holds(date, Cat(<<Cell("count", 1)>>, r7), v, parents)
      BY <2>1, <3>1, Zenon DEF r6
    <3>3. 1 \in Nat
      OBVIOUS
    <3>4. Holds(ReadCount(date), r7, 1, <<>>)
      BY <3>2, <3>3, <1>10, HoldsCount, Zenon
    <3>5. failed = ReadCount(date)
      BY <2>2
    <3> HIDE DEF failed
    <3>6. Count(failed) = 1
      BY <3>4, <3>5 DEF Holds, Buf, Count
    <3> QED BY <3>4, <3>5, <3>6, Zenon
  <2>3. CASE ~(version >= 3)
    <3>1. f = <<>>
      BY <2>3 DEF f, When
    <3>2. Cat(<<>>, r7) = r7
      BY <1>10, CatEmpty
    <3>3. Holds(date, r7, v, parents)
      BY <2>1, <3>1, <3>2, Zenon DEF r6
    <3> QED BY <2>3, <3>3, Zenon
  <2> QED BY <2>2, <2>3, Zenon
<1> HIDE DEF failed
<1>20. eKinds(Count(failed)) = eKinds(1)
  <2>1. CASE version >= 3
    BY <2>1, <1>19, Zenon
  <2>2. CASE ~(version >= 3)
    BY <2>2, Zenon DEF eKinds, When
  <2> QED BY <2>1, <2>2, Zenon
<1>21. \E v, l : Holds(end, <<>>, v, l)
  <2>1. PICK v, l : Holds(failed, r7, v, l)
    BY <1>19
  <2>2. Cat(e, <<>>) = e /\ <<>> \in Seq(Cells)
    BY <1>9, CatEmpty
  <2>3. Holds(failed, Cat(e, <<>>), v, l)
    BY <2>1, <2>2, Zenon DEF r7
  <2>4. Fits(e, eKinds(Count(failed)))
    BY <1>8, <1>20, Zenon
  <2> QED BY <2>2, <2>3, <2>4, HoldsFits, Zenon
<1> HIDE DEF end
<1> DEFINE err == IF place.err # "none" THEN place.err
                  ELSE IF place.val.computer = "" THEN "location"
                  ELSE "none"
<1>22. header.val = h
  BY <1>13 DEF Holds, Buf
<1>23. ReadCommit(all) = [err |-> IF err = "none" THEN end.err ELSE err,
                         path |-> IF err = "none" THEN QueryUnescape(place.val.path) ELSE EmptyPath,
                         tree |-> tree2.val]
  <2>1. header.val.version = version
    BY <1>1, <1>22, Zenon
  <2> QED BY <1>22, <2>1, Zenon DEF ReadCommit, header, texts, keys, tree2, place, date, failed, end, s, dKinds, eKinds
<1>24. /\ place.err = "none" /\ place.val = location /\ tree2.val = sha1 /\ end.err = "none"
  <2>1. place.err = "none" /\ place.val = location
    BY <1>17 DEF Holds, Buf
  <2>2. tree2.val = sha1
    BY <1>16 DEF Holds, Buf
  <2>3. end.err = "none"
    BY <1>21 DEF Holds, Buf
  <2> QED BY <2>1, <2>2, <2>3
<1>25. "location" # "none"
  OBVIOUS
<1> DEFINE result == ReadCommit(all)
<1>26. /\ result.tree = sha1
       /\ result.err = IF location.computer = "" THEN "location" ELSE "none"
       /\ result.path = IF location.computer = "" THEN EmptyPath ELSE QueryUnescape(location.path)
  <2>1. CASE location.computer = ""
    <3>1. err = "location"
      BY <1>24, <2>1
    <3> HIDE DEF err
    <3>2. result = [err |-> "location", path |-> EmptyPath, tree |-> sha1]
      BY <1>23, <1>24, <1>25, <3>1, Zenon
    <3> HIDE DEF result
    <3> QED BY <2>1, <3>2
  <2>2. CASE location.computer # ""
    <3>1. err = "none"
      BY <1>24, <2>2
    <3> HIDE DEF err
    <3>2. result = [err |-> "none", path |-> QueryUnescape(location.path), tree |-> sha1]
      BY <1>23, <1>24, <3>1, Zenon
    <3> HIDE DEF result
    <3> QED BY <2>2, <3>2
  <2> QED BY <2>1, <2>2
<1> QED BY <1>11, <1>26, Zenon DEF ReadAs

(* A commit of any version is read as it was written; only one of no       *)
(* computer has an error, after the SHA1 of the tree has been read.        *)
THEOREM CommitIsRead ==
    ASSUME NEW version \in Nat, NEW parents \in Seq(Values), NEW sha1 \in Values,
           NEW location \in Values
    PROVE  LET read == ReadCommit(WrittenCommit(version, parents, sha1, location))
           IN  /\ read.tree = sha1
               /\ read.err = IF location.computer = "" THEN "location" ELSE "none"
               /\ read.path = IF location.computer = "" THEN EmptyPath
                              ELSE QueryUnescape(location.path)
<1>1. ReadAs(ReadCommit(WrittenCommit(version, parents, sha1, location)), sha1, location)
  BY CommitRead, Zenon
<1> QED BY <1>1, Zenon DEF ReadAs

--------------------------------------------------------------------------------
(***************************************************************************)
(* What FindNode fetches, and the directories of the backup.               *)
(***************************************************************************)

(* The letters of a path. *)
Letters == STRING \cup {" ", "."}
Plains == {name \in Seq(Letters) : IsPlain(name)}

(* A tree so old that its parser panics on it. *)
TooOld(version, d) == version < 12 /\ \E j \in DOMAIN Children[d] : KeysOf(Children[d][j]) # <<>>

(* A node as a tree has it: a directory has the SHA1 of its tree as its    *)
(* first key, a file the blobs of its contents, if any.                    *)
LEMMA NodeOfIn ==
    ASSUME NEW n \in Node
    PROVE  /\ NodeOf(n) \in ParsedNode /\ NodeOf(n) # Nil
           /\ NodeOf(n).name = n /\ (NodeOf(n).isTree <=> n \in Directory)
           /\ NodeOf(n).keys = KeysOf(n)
           /\ KeysOf(n) \in Seq(Directory \cup Blob)
           /\ n \in Directory => KeysOf(n) # <<>> /\ Head(KeysOf(n)) = n
           /\ n \notin Directory /\ KeysOf(n) # <<>> => Head(KeysOf(n)) \in Blob
<1>1. /\ Directory \subseteq Node /\ BlobsOf \in [Node \ Directory -> Seq(Blob)]
      /\ Nil \notin ParsedNode
  BY FindNodeAssumption DEF FindNodeAssumption
<1>2. /\ KeysOf(n) \in Seq(Directory \cup Blob)
      /\ n \in Directory => KeysOf(n) # <<>> /\ Head(KeysOf(n)) = n
      /\ n \notin Directory /\ KeysOf(n) # <<>> => Head(KeysOf(n)) \in Blob
  <2>1. CASE n \in Directory
    <3> DEFINE k == <<n>>
    <3>1. k \in Seq(Directory \cup Blob) /\ k # <<>> /\ Head(k) = n
      BY <2>1
    <3>2. KeysOf(n) = k
      BY <2>1 DEF KeysOf
    <3> HIDE DEF k
    <3> QED BY <2>1, <3>1, <3>2
  <2>2. CASE n \notin Directory
    <3>1. KeysOf(n) = BlobsOf[n] /\ BlobsOf[n] \in Seq(Blob)
      BY <1>1, <2>2 DEF KeysOf
    <3> QED BY <2>2, <3>1
  <2> QED BY <2>1, <2>2
<1>3. /\ NodeOf(n).name = n /\ NodeOf(n).keys = KeysOf(n)
      /\ NodeOf(n).isTree = (n \in Directory)
  BY DEF NodeOf
<1>4. NodeOf(n) \in ParsedNode
  <2>1. (n \in Directory) \in BOOLEAN
    OBVIOUS
  <2> QED BY <1>2, <2>1 DEF NodeOf, ParsedNode
<1>5. NodeOf(n) # Nil
  BY <1>1, <1>4
<1>6. NodeOf(n).isTree <=> n \in Directory
  BY <1>3
<1> QED BY <1>2, <1>3, <1>4, <1>5, <1>6

(* The nodes of a directory as its tree has them. *)
LEMMA NodesInSeq ==
    ASSUME NEW d \in Directory
    PROVE  /\ NodesIn(d) \in Seq(ParsedNode) /\ NodesIn(d) # Nil
           /\ Children[d] \in Seq(Node)
           /\ DOMAIN NodesIn(d) = DOMAIN Children[d]
           /\ \A j \in DOMAIN Children[d] : NodesIn(d)[j] = NodeOf(Children[d][j])
<1>1. Children[d] \in Seq(Node) /\ Nil \notin Seq(ParsedNode)
  BY FindNodeAssumption DEF FindNodeAssumption
<1>2. DOMAIN Children[d] = 1..Len(Children[d]) /\ Len(Children[d]) \in Nat
      /\ \A j \in 1..Len(Children[d]) : Children[d][j] \in Node
  BY <1>1
<1>3. \A j \in 1..Len(Children[d]) : NodeOf(Children[d][j]) \in ParsedNode
  BY <1>2, NodeOfIn
<1>4. NodesIn(d) \in [1..Len(Children[d]) -> ParsedNode]
  BY <1>2, <1>3 DEF NodesIn
<1>5. NodesIn(d) \in Seq(ParsedNode)
  BY <1>2, <1>4
<1>6. \A j \in DOMAIN Children[d] : NodesIn(d)[j] = NodeOf(Children[d][j])
  BY DEF NodesIn
<1>7. DOMAIN NodesIn(d) = DOMAIN Children[d]
  BY DEF NodesIn
<1> QED BY <1>1, <1>5, <1>6, <1>7

(* The commit that was read has the root as its tree, and the backup is    *)
(* one of those there are.                                                 *)
LEMMA BackupIs ==
    ASSUME backup \in CommitsRead
    PROVE  /\ backup.commit.tree = Root
           /\ \E b \in Backups : /\ backup.tree = b.tree /\ backup.location = b.location
                                 /\ b.tree \in Nat
<1>1. PICK b \in Backups : backup = [tree |-> b.tree, location |-> b.location,
            commit |-> ReadCommit(WrittenCommit(b.commit, <<Nil>>, Root, b.location))]
  BY DEF CommitsRead
<1>2. b.commit \in Nat /\ b.tree \in Nat /\ Root \in Directory
  BY FindNodeAssumption DEF FindNodeAssumption
<1>3. <<Nil>> \in Seq(Values) /\ Root \in Values /\ b.location \in Values
  <2>1. Nil \in Values /\ Root \in Values /\ b.location \in Values
    BY <1>2 DEF Values
  <2> QED BY <2>1
<1>4. ReadCommit(WrittenCommit(b.commit, <<Nil>>, Root, b.location)).tree = Root
  <2> DEFINE read == ReadCommit(WrittenCommit(b.commit, <<Nil>>, Root, b.location))
  <2> DEFINE parents == <<Nil>>
             location == b.location
  <2>1. parents \in Seq(Values) /\ location \in Values
    BY <1>3
  <2> HIDE DEF parents, location
  <2>3. b.commit \in Nat
    BY <1>2
  <2>4. Root \in Values
    BY <1>3
  <2>2. ReadAs(ReadCommit(WrittenCommit(b.commit, parents, Root, location)), Root, location)
    BY <2>1, <2>3, <2>4, CommitRead, Zenon
  <2> QED BY <2>2, Zenon DEF parents, location, ReadAs
<1> QED BY <1>1, <1>2, <1>4

(* What GetPackFileAsTree makes of a directory. *)
THEOREM TreeArrivesWhole ==
    ASSUME backup \in CommitsRead, NEW d \in Directory
    PROVE  IF TooOld(backup.tree, d) THEN TreeAt(d).err = "panic"
           ELSE TreeAt(d).err = "none" /\ TreeAt(d).list = NodesIn(d)
<1>1. PICK b \in Backups : backup.tree = b.tree /\ b.tree \in Nat
  BY BackupIs
<1> DEFINE Made(v, e) == [version |-> v, hash |-> e, tree |-> ReadTree(WrittenTree(v, NodesIn(e)))]
<1>2. TreesRead = {Made(c.tree, e) : c \in Backups, e \in Directory}
  BY DEF TreesRead
<1>3. \A v, e : Made(v, e).version = v /\ Made(v, e).hash = e
                /\ Made(v, e).tree = ReadTree(WrittenTree(v, NodesIn(e)))
  OBVIOUS
<1> HIDE DEF Made
<1>4. \E r \in TreesRead : r.version = backup.tree /\ r.hash = d
  BY <1>1, <1>2, <1>3
<1>5. \A r \in TreesRead : r.version = backup.tree /\ r.hash = d =>
            r.tree = ReadTree(WrittenTree(backup.tree, NodesIn(d)))
  BY <1>2, <1>3
<1>6. TreeAt(d) = ReadTree(WrittenTree(backup.tree, NodesIn(d)))
  BY <1>4, <1>5 DEF TreeAt
<1>7. backup.tree \in Nat /\ NodesIn(d) \in Seq(ParsedNode)
  BY <1>1, NodesInSeq
<1>8. LET read == ReadTree(WrittenTree(backup.tree, NodesIn(d)))
      IN  IF \E j \in DOMAIN NodesIn(d) : backup.tree < 12 /\ NodesIn(d)[j].keys # <<>>
          THEN read.err = "panic"
          ELSE read.err = "none" /\ read.list = NodesIn(d)
  BY <1>7, TreeIsRead
<1>9. (\E j \in DOMAIN NodesIn(d) : backup.tree < 12 /\ NodesIn(d)[j].keys # <<>>) <=> TooOld(backup.tree, d)
  <2>1. \A j \in DOMAIN Children[d] : NodesIn(d)[j].keys = KeysOf(Children[d][j])
    <3>1. \A j \in DOMAIN Children[d] : Children[d][j] \in Node
      BY NodesInSeq
    <3> QED BY <3>1, NodesInSeq, NodeOfIn
  <2> QED BY <2>1, NodesInSeq DEF TooOld
<1> QED BY <1>6, <1>8, <1>9, Zenon

(* The fetch of a tree is without an error just if the tree is there and   *)
(* not too old.                                                            *)
LEMMA OutcomeIs ==
    ASSUME backup \in CommitsRead, NEW hash
    PROVE  /\ Outcome(hash) = "none" <=> hash \in Directory \ lost /\ ~TooOld(backup.tree, hash)
           /\ Outcome(hash) = "panic" <=> hash \in Directory \ lost /\ TooOld(backup.tree, hash)
<1>1. CASE hash \in Directory \ lost
  <2>1. Outcome(hash) = TreeAt(hash).err
    BY <1>1 DEF Outcome
  <2> QED BY <1>1, <2>1, TreeArrivesWhole
<1>2. CASE hash \notin Directory \ lost
  BY <1>2 DEF Outcome
<1> QED BY <1>1, <1>2
(* The tree of directories. *)

(* The way to a node, as a walk from the root. *)
IsWay(n) ==
    LET p == Path[n]
    IN  /\ p \in Seq(Node) /\ Len(p) >= 1 /\ p[1] = Root /\ p[Len(p)] = n
        /\ \A i \in 1..(Len(p) - 1) : p[i] \in Directory /\ p[i + 1] \in ChildrenOf(p[i])
        /\ \A i \in 1..Len(p) : Path[p[i]] = SubSeq(p, 1, i)

(* The way to a node in a directory is that to the directory and the node. *)
LEMMA ChildPath ==
    ASSUME NEW d \in Directory, NEW n \in ChildrenOf(d)
    PROVE  /\ n \in Node /\ d \in Node /\ Path[d] \in Seq(Node) /\ Len(Path[d]) >= 1
           /\ Path[n] = Append(Path[d], n)
           /\ n # Root /\ Name[n] \in Plains /\ Name[n] \in Seq(Letters)
           /\ Len(Path[n]) = Len(Path[d]) + 1
<1>1. PICK j \in DOMAIN Children[d] : n = Children[d][j]
  BY DEF ChildrenOf
<1>2. d \in Node /\ Children[d] \in Seq(Node) /\ Path \in [Node -> Seq(Node) \ {<<>>}]
      /\ Path[Root] = <<Root>> /\ Path[n] = Append(Path[d], n)
      /\ Name \in [Node -> Seq(STRING)] /\ \A m \in Node \ {Root} : IsPlain(Name[m])
  BY <1>1, FindNodeAssumption DEF FindNodeAssumption
<1>3. n \in Node
  BY <1>1, <1>2
<1>4. Path[d] \in Seq(Node) /\ Len(Path[d]) >= 1 /\ Len(Append(Path[d], n)) = Len(Path[d]) + 1
  BY <1>2, <1>3
<1>5. n # Root
  <2>1. Len(<<Root>>) = 1
    OBVIOUS
  <2>2. Len(Path[n]) = Len(Path[d]) + 1 /\ Path[Root] = <<Root>> /\ Len(Path[d]) \in Nat
    BY <1>2, <1>4
  <2>3. Len(Path[n]) # 1
    BY <1>4, <2>2
  <2>4. n = Root => Len(Path[n]) = 1
    BY <2>1, <2>2, Zenon
  <2> QED BY <2>3, <2>4
<1>6. Name[n] \in Seq(Letters) /\ IsPlain(Name[n])
  <2>1. STRING \subseteq Letters
    BY DEF Letters
  <2>2. Name[n] \in Seq(STRING) /\ IsPlain(Name[n])
    BY <1>2, <1>3, <1>5
  <2> DEFINE w == Name[n]
             N == Len(w)
  <2>3. w \in Seq(STRING)
    BY <2>2
  <2> HIDE DEF w
  <2>4. N \in Nat /\ w = [i \in 1..N |-> w[i]] /\ \A i \in 1..N : w[i] \in STRING
    BY <2>3
  <2> HIDE DEF N
  <2>5. \A i \in 1..N : w[i] \in Letters
    BY <2>1, <2>4
  <2>6. w \in Seq(Letters)
    BY <2>4, <2>5
  <2> QED BY <2>2, <2>6 DEF w
<1>7. Name[n] \in Plains
  BY <1>6 DEF Plains
<1> QED BY <1>2, <1>3, <1>4, <1>5, <1>6, <1>7

(* Every node but the root is in a directory. *)
LEMMA Parent ==
    ASSUME NEW n \in Node, n # Root
    PROVE  \E d \in Directory : n \in ChildrenOf(d)
BY FindNodeAssumption DEF FindNodeAssumption, ChildrenOf

(* The path of every node is a walk from the root. *)
LEMMA PathIsWay ==
    ASSUME NEW n \in Node
    PROVE  IsWay(n)
<1> DEFINE T == {m \in Nat : \A x \in Node : Len(Path[x]) <= m => IsWay(x)}
<1>0. /\ Path \in [Node -> Seq(Node) \ {<<>>}] /\ Root \in Directory /\ Path[Root] = <<Root>>
      /\ Directory \subseteq Node
  BY FindNodeAssumption DEF FindNodeAssumption
<1>1. \A x \in Node : Path[x] \in Seq(Node) /\ Len(Path[x]) \in Nat /\ Len(Path[x]) >= 1
  BY <1>0
<1>2. 0 \in T
  BY <1>1
<1>3. ASSUME NEW m \in Nat, m \in T PROVE m + 1 \in T
  <2>1. SUFFICES ASSUME NEW x \in Node, Len(Path[x]) <= m + 1 PROVE IsWay(x)
    OBVIOUS
  <2>2. CASE x = Root
    <3> DEFINE p == <<Root>>
    <3>1. p \in Seq(Node) /\ Len(p) = 1 /\ p[1] = Root
      BY <1>0
    <3>2. p = Path[Root]
      BY <1>0
    <3> HIDE DEF p
    <3>4. SubSeq(p, 1, 1) = p
      BY <3>1
    <3>3. \A i \in 1..Len(p) : Path[p[i]] = SubSeq(p, 1, i)
      BY <3>1, <3>2, <3>4
    <3>5. \A i \in 1..(Len(p) - 1) : FALSE
      BY <3>1
    <3> QED BY <2>2, <3>1, <3>2, <3>3, <3>5 DEF IsWay
  <2>3. CASE x # Root
    <3>1. PICK d \in Directory : x \in ChildrenOf(d)
      BY <2>3, Parent
    <3>2. /\ Path[x] = Append(Path[d], x) /\ Len(Path[x]) = Len(Path[d]) + 1 /\ d \in Node
      BY <3>1, ChildPath
    <3>3. IsWay(d)
      <4>1. Len(Path[d]) <= m
        BY <1>1, <2>1, <3>2
      <4> QED BY <1>3, <3>2, <4>1
    <3> DEFINE p == Path[x]
               q == Path[d]
               L == Len(q)
    <3>4. /\ q \in Seq(Node) /\ L \in Nat /\ L >= 1 /\ p \in Seq(Node) /\ Len(p) = L + 1
          /\ p[L + 1] = x /\ (\A i \in 1..L : p[i] = q[i])
          /\ (\A i \in 1..L : SubSeq(p, 1, i) = SubSeq(q, 1, i)) /\ SubSeq(p, 1, L + 1) = p
      BY <1>1, <3>2
    <3>5. /\ q[1] = Root /\ q[L] = d
          /\ (\A i \in 1..(L - 1) : q[i] \in Directory /\ q[i + 1] \in ChildrenOf(q[i]))
          /\ (\A i \in 1..L : Path[q[i]] = SubSeq(q, 1, i))
      BY <3>3 DEF IsWay
    <3>6. p = Path[x]
      OBVIOUS
    <3> HIDE DEF p, q, L
    <3>7. p[1] = Root /\ p[Len(p)] = x
      BY <3>4, <3>5
    <3>8. ASSUME NEW i \in 1..(Len(p) - 1) PROVE p[i] \in Directory /\ p[i + 1] \in ChildrenOf(p[i])
      <4>1. CASE i = L
        BY <3>1, <3>4, <3>5, <4>1
      <4>2. CASE i # L
        <5>1. i \in 1..(L - 1) /\ i \in 1..L /\ i + 1 \in 1..L
          BY <3>4, <4>2
        <5> QED BY <3>4, <3>5, <5>1
      <4> QED BY <4>1, <4>2
    <3>9. ASSUME NEW i \in 1..Len(p) PROVE Path[p[i]] = SubSeq(p, 1, i)
      <4>1. CASE i = L + 1
        BY <3>4, <3>6, <4>1
      <4>2. CASE i # L + 1
        <5>1. i \in 1..L
          BY <3>4, <4>2
        <5> QED BY <3>4, <3>5, <5>1
      <4> QED BY <4>1, <4>2
    <3> QED BY <3>4, <3>6, <3>7, <3>8, <3>9 DEF IsWay
  <2> QED BY <2>2, <2>3
<1>4. Nat \subseteq T
  <2> HIDE DEF T
  <2> QED BY <1>2, <1>3, Induction
<1> QED BY <1>1, <1>4

(* Names tell nodes apart. *)
LEMMA NamesToIs ==
    ASSUME NEW n \in Node
    PROVE  /\ NamesTo(n) \in Seq(Seq(Letters)) /\ Len(NamesTo(n)) = Len(Path[n]) - 1
           /\ \A i \in 1..(Len(Path[n]) - 1) : NamesTo(n)[i] = Name[Path[n][i + 1]]
           /\ NamesTo(n) \in Seq(Plains)
<1> DEFINE L == Len(Path[n]) - 1
<1>1. /\ L \in Nat /\ (\A i \in 1..L : Path[n][i] \in Directory /\ Path[n][i + 1] \in ChildrenOf(Path[n][i]))
  BY PathIsWay DEF IsWay
<1> HIDE DEF L
<1>2. \A i \in 1..L : Name[Path[n][i + 1]] \in Plains
  BY <1>1, ChildPath
<1>3. NamesTo(n) = [i \in 1..L |-> Name[Path[n][i + 1]]]
  BY DEF NamesTo, L
<1>4. \A i \in 1..L : Name[Path[n][i + 1]] \in Seq(Letters)
  BY <1>2 DEF Plains
<1>5. NamesTo(n) \in Seq(Seq(Letters)) /\ Len(NamesTo(n)) = L
  BY <1>1, <1>3, <1>4
<1>7. NamesTo(n) \in Seq(Plains)
  BY <1>1, <1>2, <1>3
<1>6. \A i \in 1..L : NamesTo(n)[i] = Name[Path[n][i + 1]]
  BY <1>3
<1> QED BY <1>5, <1>6, <1>7 DEF L

(* The names on the way to a node in a directory. *)
LEMMA NamesToChild ==
    ASSUME NEW d \in Directory, NEW n \in ChildrenOf(d)
    PROVE  NamesTo(n) = Append(NamesTo(d), Name[n])
<1>1. /\ n \in Node /\ d \in Node /\ Path[n] = Append(Path[d], n) /\ Path[d] \in Seq(Node)
      /\ Len(Path[d]) >= 1 /\ Len(Path[n]) = Len(Path[d]) + 1
  BY ChildPath
<1> DEFINE L == Len(Path[d])
           u == NamesTo(d)
           w == NamesTo(n)
           p == Path[d]
           q == Path[n]
<1>2. L \in Nat /\ L >= 1 /\ q[L + 1] = n /\ (\A i \in 1..L : q[i] = p[i]) /\ Len(q) = L + 1
  BY <1>1
<1>9. /\ u \in Seq(Seq(Letters)) /\ Len(u) = Len(p) - 1
      /\ (\A i \in 1..(Len(p) - 1) : u[i] = Name[p[i + 1]])
  BY <1>1, NamesToIs
<1>10. /\ w \in Seq(Seq(Letters)) /\ Len(w) = Len(q) - 1
       /\ (\A i \in 1..(Len(q) - 1) : w[i] = Name[q[i + 1]])
  BY <1>1, NamesToIs
<1>11. L = Len(p)
  OBVIOUS
<1> HIDE DEF L, u, w, p, q
<1>3. /\ u \in Seq(Seq(Letters)) /\ Len(u) = L - 1
      /\ w \in Seq(Seq(Letters)) /\ Len(w) = L
      /\ (\A i \in 1..(L - 1) : u[i] = Name[p[i + 1]])
      /\ (\A i \in 1..L : w[i] = Name[q[i + 1]])
  BY <1>2, <1>9, <1>10, <1>11
<1>4. \A i \in 1..(L - 1) : w[i] = u[i]
  <2>1. \A i \in 1..(L - 1) : i \in 1..L /\ i + 1 \in 1..L
    BY <1>2
  <2> QED BY <1>2, <1>3, <2>1
<1>5. w[L] = Name[n]
  BY <1>2, <1>3
<1>6. Name[n] \in Seq(Letters)
  BY ChildPath
<1> DEFINE a == Append(u, Name[n])
<1>7. /\ a \in Seq(Seq(Letters)) /\ Len(a) = L /\ a[L] = Name[n]
      /\ \A i \in 1..(L - 1) : a[i] = u[i]
  BY <1>2, <1>3, <1>6
<1> HIDE DEF a
<1>8. w = a
  <2>1. \A i \in 1..L : w[i] = a[i]
    <3>1. ASSUME NEW i \in 1..L PROVE w[i] = a[i]
      <4>1. CASE i = L
        BY <1>5, <1>7, <4>1
      <4>2. CASE i # L
        <5>1. i \in 1..(L - 1)
          BY <1>2, <4>2
        <5> QED BY <1>4, <1>7, <5>1
      <4> QED BY <4>1, <4>2
    <3> QED BY <3>1
  <2> QED BY <1>2, <1>3, <1>7, <2>1
<1> QED BY <1>8 DEF a, u, w

(* The names on the way to a node tell it from every other. *)
LEMMA NamesInjective ==
    ASSUME NEW n1 \in Node, NEW n2 \in Node, NamesTo(n1) = NamesTo(n2)
    PROVE  n1 = n2
<1> DEFINE T == {m \in Nat : \A x, y \in Node : Len(Path[x]) <= m /\ NamesTo(x) = NamesTo(y) => x = y}
<1>1. \A x \in Node : Len(Path[x]) \in Nat /\ Len(Path[x]) >= 1 /\ Len(NamesTo(x)) = Len(Path[x]) - 1
  BY PathIsWay, NamesToIs DEF IsWay
<1>2. 0 \in T
  BY <1>1
<1>3. ASSUME NEW m \in Nat, m \in T PROVE m + 1 \in T
  <2>1. SUFFICES ASSUME NEW x \in Node, NEW y \in Node, Len(Path[x]) <= m + 1, NamesTo(x) = NamesTo(y)
                 PROVE x = y
    OBVIOUS
  <2>2. Len(Path[x]) = Len(Path[y])
    BY <1>1, <2>1
  <2>3. Path[Root] = <<Root>> /\ Root \in Directory /\ Len(<<Root>>) = 1 /\ Directory \subseteq Node
    BY FindNodeAssumption DEF FindNodeAssumption
  <2>4. CASE x = Root \/ y = Root
    <3>1. \A z \in Node : z # Root => Len(Path[z]) > 1
      <4>1. ASSUME NEW z \in Node, z # Root PROVE Len(Path[z]) > 1
        <5>1. PICK d \in Directory : z \in ChildrenOf(d)
          BY <4>1, Parent
        <5>2. Len(Path[z]) = Len(Path[d]) + 1 /\ d \in Node
          BY <5>1, ChildPath
        <5> QED BY <5>2, <1>1
      <4> QED BY <4>1
    <3>2. Len(Path[Root]) = 1
      BY <2>3
    <3>3. ASSUME x = Root, y # Root PROVE FALSE
      <4>1. Len(Path[y]) > 1
        BY <3>1, <3>3
      <4>2. Len(Path[y]) = 1
        BY <2>2, <3>2, <3>3, Zenon
      <4> QED BY <4>1, <4>2
    <3>4. ASSUME y = Root, x # Root PROVE FALSE
      <4>1. Len(Path[x]) > 1
        BY <3>1, <3>4
      <4>2. Len(Path[x]) = 1
        BY <2>2, <3>2, <3>4, Zenon
      <4> QED BY <4>1, <4>2
    <3> QED BY <2>4, <3>3, <3>4
  <2>5. CASE x # Root /\ y # Root
    <3>1. PICK d \in Directory : x \in ChildrenOf(d)
      BY <2>5, Parent
    <3>2. PICK e \in Directory : y \in ChildrenOf(e)
      BY <2>5, Parent
    <3>3. Append(NamesTo(d), Name[x]) = Append(NamesTo(e), Name[y])
      BY <2>1, <3>1, <3>2, NamesToChild
    <3>4. NamesTo(d) \in Seq(Seq(Letters)) /\ NamesTo(e) \in Seq(Seq(Letters))
      BY <2>3, NamesToIs
    <3>5. NamesTo(d) = NamesTo(e) /\ Name[x] = Name[y]
      BY <3>3, <3>4, AppendInjective
    <3>6. d = e
      <4>1. Len(Path[x]) = Len(Path[d]) + 1 /\ d \in Node /\ e \in Node
        BY <3>1, ChildPath, <2>3
      <4>2. Len(Path[d]) <= m
        BY <1>1, <2>1, <4>1
      <4> QED BY <1>3, <3>5, <4>1, <4>2
    <3>7. \A i, j \in DOMAIN Children[d] : Name[Children[d][i]] = Name[Children[d][j]] => i = j
      BY FindNodeAssumption DEF FindNodeAssumption
    <3>8. PICK i \in DOMAIN Children[d] : x = Children[d][i]
      BY <3>1 DEF ChildrenOf
    <3>9. PICK j \in DOMAIN Children[d] : y = Children[d][j]
      BY <3>2, <3>6 DEF ChildrenOf
    <3> QED BY <3>5, <3>7, <3>8, <3>9
  <2> QED BY <2>4, <2>5
<1>4. Nat \subseteq T
  <2> HIDE DEF T
  <2> QED BY <1>2, <1>3, Induction
<1>5. Len(Path[n1]) \in T
  BY <1>1, <1>4
<1> QED BY <1>1, <1>5

(* Names that go on after those of a node lead through its children. *)
LEMMA NamesGoOn ==
    ASSUME NEW n \in Node, NEW a \in Node, NEW more \in Seq(Seq(Letters)),
           NamesTo(n) = Cat(NamesTo(a), more), more # <<>>
    PROVE  /\ a \in Directory /\ a \in PathNodes(n) \ {n}
           /\ \E c \in ChildrenOf(a) : Name[c] = more[1] /\ c \in PathNodes(n)
<1> DEFINE p == Path[n]
           k == Len(Path[a])
           u == NamesTo(a)
           w == NamesTo(n)
<1>1. /\ p \in Seq(Node) /\ Len(p) \in Nat /\ Len(p) >= 1
      /\ (\A i \in 1..(Len(p) - 1) : p[i] \in Directory /\ p[i + 1] \in ChildrenOf(p[i]))
      /\ (\A i \in 1..Len(p) : Path[p[i]] = SubSeq(p, 1, i))
      /\ p[Len(p)] = n
  BY PathIsWay DEF IsWay
<1>14. k \in Nat /\ k >= 1
  BY PathIsWay DEF IsWay
<1>15. u \in Seq(Seq(Letters)) /\ Len(u) = k - 1
  BY NamesToIs
<1>2. /\ w \in Seq(Seq(Letters)) /\ Len(w) = Len(p) - 1
      /\ (\A i \in 1..(Len(p) - 1) : w[i] = Name[p[i + 1]])
  BY NamesToIs
<1>16. w = Cat(u, more)
  OBVIOUS
<1> HIDE DEF k, p, u, w
<1>3. Len(more) \in Nat /\ Len(more) >= 1
  OBVIOUS
<1>4. /\ Len(w) = Len(u) + Len(more)
      /\ \A i \in 1..(Len(u) + Len(more)) :
            w[i] = IF i <= Len(u) THEN u[i] ELSE more[i - Len(u)]
  BY <1>15, <1>16, CatProperties
<1>5. k \in 1..(Len(p) - 1) /\ k \in 1..Len(p)
  BY <1>1, <1>2, <1>3, <1>4, <1>14, <1>15
<1>6. w[k] = more[1]
  <2>1. k \in 1..(Len(u) + Len(more)) /\ ~(k <= Len(u)) /\ k - Len(u) = 1
    BY <1>3, <1>14, <1>15
  <2>2. w[k] = more[k - Len(u)]
    BY <1>4, <2>1
  <2> QED BY <2>1, <2>2
<1>7. p[k] \in Node /\ Path[p[k]] = SubSeq(p, 1, k)
  BY <1>1, <1>5
<1>8. NamesTo(p[k]) = u
  <2> DEFINE x == p[k]
             q == Path[x]
             y == NamesTo(x)
  <2>1. Len(q) = k /\ \A i \in 1..k : q[i] = p[i]
    BY <1>1, <1>5, <1>7
  <2>2. y \in Seq(Seq(Letters)) /\ Len(y) = Len(q) - 1 /\ (\A i \in 1..(Len(q) - 1) : y[i] = Name[q[i + 1]])
    <3> HIDE DEF x
    <3>1. x \in Node
      BY <1>7 DEF x
    <3> QED BY <3>1, NamesToIs
  <2> HIDE DEF q, y, x
  <2>5. \A i \in 1..(k - 1) : i + 1 \in 1..k /\ i \in 1..(Len(p) - 1) /\ i \in 1..(Len(u) + Len(more)) /\ i <= Len(u)
    BY <1>3, <1>5, <1>14, <1>15, <1>1
  <2>3. \A i \in 1..(k - 1) : y[i] = Name[p[i + 1]]
    BY <2>1, <2>2, <2>5
  <2>4. \A i \in 1..(k - 1) : u[i] = Name[p[i + 1]]
    BY <1>2, <1>4, <2>5
  <2>6. Len(y) = k - 1
    BY <2>1, <2>2
  <2>7. y = u
    BY <1>14, <1>15, <2>2, <2>3, <2>4, <2>6
  <2> QED BY <2>7 DEF y, x
<1>9. p[k] = a
  BY <1>7, <1>8, NamesInjective DEF u
<1>10. a \in Directory /\ p[k + 1] \in ChildrenOf(a) /\ Name[p[k + 1]] = more[1]
  <2>1. Name[p[k + 1]] = w[k]
    BY <1>2, <1>5
  <2> QED BY <1>1, <1>5, <1>6, <1>9, <2>1
<1>11. DOMAIN p = 1..Len(p) /\ k + 1 \in 1..Len(p)
  BY <1>1, <1>5
<1>12. a \in PathNodes(n) /\ p[k + 1] \in PathNodes(n)
  BY <1>5, <1>9, <1>11 DEF PathNodes, p
<1>13. a # n
  <2>1. k # Len(p)
    BY <1>5, <1>1
  <2>2. n = a => k = Len(p)
    BY DEF k, p
  <2> QED BY <2>1, <2>2
<1> QED BY <1>10, <1>12, <1>13

(* The nodes on the way to a node: those on the way to its directory, all  *)
(* of them directories, and itself.                                        *)
LEMMA PathNodesOf ==
    /\ PathNodes(Root) = {Root}
    /\ \A d \in Directory : \A n \in ChildrenOf(d) : PathNodes(n) = PathNodes(d) \cup {n} /\ n \notin PathNodes(d)
    /\ \A n \in Node : n \in PathNodes(n) /\ PathNodes(n) \subseteq Node
                       /\ PathNodes(n) \ {n} \subseteq Directory
<1>1. PathNodes(Root) = {Root}
  <2>1. Path[Root] = <<Root>>
    BY FindNodeAssumption DEF FindNodeAssumption
  <2>2. DOMAIN <<Root>> = {1} /\ <<Root>>[1] = Root
    OBVIOUS
  <2> QED BY <2>1, <2>2 DEF PathNodes
<1>2. ASSUME NEW d \in Directory, NEW n \in ChildrenOf(d)
      PROVE  PathNodes(n) = PathNodes(d) \cup {n} /\ n \notin PathNodes(d)
  <2>1. /\ n \in Node /\ d \in Node /\ Path[n] = Append(Path[d], n) /\ Path[d] \in Seq(Node)
        /\ Len(Path[n]) = Len(Path[d]) + 1
    BY ChildPath
  <2> DEFINE L == Len(Path[d])
             p == Path[n]
             q == Path[d]
  <2>2. /\ L \in Nat /\ p[L + 1] = n /\ (\A i \in 1..L : p[i] = q[i])
        /\ DOMAIN p = 1..(L + 1) /\ DOMAIN q = 1..L
    BY <2>1
  <2>3. PathNodes(n) = {p[j] : j \in DOMAIN p} /\ PathNodes(d) = {q[j] : j \in DOMAIN q}
    BY DEF PathNodes
  <2>4. \A i \in 1..L : Path[q[i]] = SubSeq(q, 1, i) /\ Len(SubSeq(q, 1, i)) = i
    BY <2>1, PathIsWay DEF IsWay
  <2>6. Len(Path[n]) = L + 1
    BY <2>1
  <2> HIDE DEF L, p, q
  <2>5. n \notin PathNodes(d)
    <3>1. ASSUME NEW i \in 1..L, q[i] = n PROVE FALSE
      <4>1. Len(Path[n]) = i
        BY <3>1, <2>4
      <4> QED BY <4>1, <2>6, <2>2
    <3> QED BY <3>1, <2>2, <2>3
  <2>7. PathNodes(n) = PathNodes(d) \cup {n}
    <3>1. \A j : j \in 1..(L + 1) <=> j \in 1..L \/ j = L + 1
      BY <2>2
    <3> QED BY <3>1, <2>2, <2>3
  <2> QED BY <2>5, <2>7
<1>3. ASSUME NEW n \in Node
      PROVE  n \in PathNodes(n) /\ PathNodes(n) \subseteq Node /\ PathNodes(n) \ {n} \subseteq Directory
  <2> DEFINE p == Path[n]
  <2>1. /\ p \in Seq(Node) /\ Len(p) \in Nat /\ Len(p) >= 1 /\ p[Len(p)] = n /\ DOMAIN p = 1..Len(p)
        /\ (\A i \in 1..(Len(p) - 1) : p[i] \in Directory)
    BY PathIsWay DEF IsWay
  <2>2. PathNodes(n) = {p[j] : j \in DOMAIN p}
    BY DEF PathNodes
  <2> HIDE DEF p
  <2>3. \A j \in 1..Len(p) : p[j] \in Node
    BY <2>1
  <2>4. \A j \in 1..Len(p) : j # Len(p) => j \in 1..(Len(p) - 1)
    <3> DEFINE K == Len(p)
    <3>1. K \in Nat
      BY <2>1
    <3> HIDE DEF K
    <3>2. \A j \in 1..K : j # K => j \in 1..(K - 1)
      BY <3>1
    <3> QED BY <3>2 DEF K
  <2>5. n \in PathNodes(n)
    <3>1. Len(p) \in 1..Len(p)
      BY <2>1
    <3> QED BY <2>1, <2>2, <3>1
  <2>6. PathNodes(n) \subseteq Node
    BY <2>1, <2>2, <2>3
  <2>7. PathNodes(n) \ {n} \subseteq Directory
    BY <2>1, <2>2, <2>4
  <2> QED BY <2>5, <2>6, <2>7
<1> QED BY <1>1, <1>2, <1>3

--------------------------------------------------------------------------------
(***************************************************************************)
(* path.Clean and path.Join on paths of names.                             *)
(***************************************************************************)

(* A plain name is none of those path.Clean takes away. *)
LEMMA PlainIs ==
    ASSUME NEW name \in Plains
    PROVE  name \in Seq(Letters) /\ IsPlain(name) /\ name # <<>> /\ name # Dot /\ name # DotDot
BY DEF Plains, IsPlain

(* The names of a sequence of them. *)
LEMMA PlainsAre ==
    ASSUME NEW names \in Seq(Plains)
    PROVE  /\ names \in Seq(Seq(Letters)) /\ Len(names) \in Nat
           /\ \A j \in 1..Len(names) : names[j] \in Plains
<1>1. Plains \subseteq Seq(Letters)
  BY DEF Plains
<1> QED BY <1>1

IsRooted(s) == Len(s) > 1 /\ s[1] = <<>>

UpFrom(s, o) ==
    IF o # <<>> /\ Last(o) # DotDot THEN Front(o)
    ELSE IF IsRooted(s) THEN o ELSE Append(o, DotDot)

(* What path.Clean has put out after each element. *)
CleanSteps(s, out) ==
    /\ out[0] = <<>>
    /\ \A j \in 1..Len(s) :
          out[j] = IF s[j] \in {<<>>, Dot} THEN out[j - 1]
                   ELSE IF s[j] = DotDot THEN UpFrom(s, out[j - 1])
                   ELSE Append(out[j - 1], s[j])
    /\ Clean(s) = IF IsRooted(s) THEN Rooted(out[Len(s)])
                  ELSE IF out[Len(s)] = <<>> THEN <<Dot>> ELSE out[Len(s)]

(* The loop of path.Clean has such states. *)
LEMMA CleanLoop ==
    ASSUME NEW s, Len(s) \in Nat
    PROVE  \E out : CleanSteps(s, out)
<1> DEFINE N == Len(s)
           Is(out, m) == out = [j \in 0..m |->
                IF j = 0 THEN <<>>
                ELSE IF s[j] \in {<<>>, Dot} THEN out[j - 1]
                ELSE IF s[j] = DotDot THEN UpFrom(s, out[j - 1])
                ELSE Append(out[j - 1], s[j])]
           T == {m \in Nat : \E f : Is(f, m)}
           last == (CHOOSE f : Is(f, N))[N]
<1>0. N \in Nat
  OBVIOUS
<1>6. Clean(s) = IF IsRooted(s) THEN Rooted(last) ELSE IF last = <<>> THEN <<Dot>> ELSE last
  BY DEF Clean, UpFrom, IsRooted
<1> HIDE DEF N
<1>1. 0 \in T
  <2>1. Is([i \in 0..0 |-> <<>>], 0)
    OBVIOUS
  <2>2. \E f : Is(f, 0)
    <3> HIDE DEF Is
    <3> QED BY <2>1
  <2> HIDE DEF Is
  <2> QED BY <2>2
<1>2. ASSUME NEW m \in Nat, m \in T PROVE m + 1 \in T
  <2>1. PICK out : Is(out, m)
    BY <1>2
  <2> DEFINE g == [j \in 0..(m + 1) |->
                IF j = 0 THEN <<>>
                ELSE IF s[j] \in {<<>>, Dot} THEN out[j - 1]
                ELSE IF s[j] = DotDot THEN UpFrom(s, out[j - 1])
                ELSE Append(out[j - 1], s[j])]
  <2>2. \A j \in 0..m : out[j] = IF j = 0 THEN <<>>
                ELSE IF s[j] \in {<<>>, Dot} THEN out[j - 1]
                ELSE IF s[j] = DotDot THEN UpFrom(s, out[j - 1])
                ELSE Append(out[j - 1], s[j])
    BY <2>1
  <2>8. \A j \in 0..(m + 1) : g[j] = IF j = 0 THEN <<>>
                ELSE IF s[j] \in {<<>>, Dot} THEN out[j - 1]
                ELSE IF s[j] = DotDot THEN UpFrom(s, out[j - 1])
                ELSE Append(out[j - 1], s[j])
    OBVIOUS
  <2>6. g = [j \in 0..(m + 1) |-> g[j]]
    OBVIOUS
  <2> HIDE DEF g
  <2>5. ASSUME NEW j \in 0..m PROVE g[j] = out[j]
    BY <2>2, <2>8
  <2>3. ASSUME NEW j \in 0..(m + 1)
        PROVE  g[j] = IF j = 0 THEN <<>>
                ELSE IF s[j] \in {<<>>, Dot} THEN g[j - 1]
                ELSE IF s[j] = DotDot THEN UpFrom(s, g[j - 1])
                ELSE Append(g[j - 1], s[j])
    <3>1. j # 0 => j - 1 \in 0..m
      OBVIOUS
    <3>2. j # 0 => g[j - 1] = out[j - 1]
      BY <2>5, <3>1
    <3> QED BY <3>2, <2>8
  <2>4. Is(g, m + 1)
    BY <2>3, <2>6
  <2>7. \E f : Is(f, m + 1)
    <3> HIDE DEF Is
    <3> QED BY <2>4
  <2> HIDE DEF Is
  <2> QED BY <2>7
<1>3. Nat \subseteq T
  <2> HIDE DEF T
  <2> QED BY <1>1, <1>2, Induction
<1>4. \E f : Is(f, N)
  <2> HIDE DEF Is
  <2> QED BY <1>0, <1>3
<1> DEFINE out == CHOOSE f : Is(f, N)
<1>5. Is(out, N)
  BY <1>4, Zenon
<1>7. Clean(s) = IF IsRooted(s) THEN Rooted(out[N]) ELSE IF out[N] = <<>> THEN <<Dot>> ELSE out[N]
  BY <1>6
<1> HIDE DEF out
<1>8. out[0] = <<>>
  <2>1. 0 \in 0..N
    BY <1>0
  <2> QED BY <1>5, <2>1
<1>9. ASSUME NEW j \in 1..N
      PROVE  out[j] = IF s[j] \in {<<>>, Dot} THEN out[j - 1]
                ELSE IF s[j] = DotDot THEN UpFrom(s, out[j - 1])
                ELSE Append(out[j - 1], s[j])
  <2>1. j \in 0..N /\ j # 0
    BY <1>0
  <2> QED BY <1>5, <2>1
<1>10. CleanSteps(s, out)
  BY <1>7, <1>8, <1>9 DEF N, CleanSteps
<1> QED BY <1>10

(* These names, between k and g empty elements. *)
Amid(s, k, names, g) ==
    /\ k \in Nat /\ g \in Nat
    /\ \A j \in 1..k : s[j] = <<>>
    /\ \A j \in 1..Len(names) : s[k + j] = names[j]
    /\ \A j \in 1..g : s[k + Len(names) + j] = <<>>

(* Empty elements leave no trace in what path.Clean puts out. *)
LEMMA CleanOut ==
    ASSUME NEW s, NEW out, CleanSteps(s, out), Len(s) \in Nat, NEW names \in Seq(Plains),
           NEW k, NEW g, Amid(s, k, names, g), NEW m \in 0..Len(s), m = k + Len(names) + g
    PROVE  out[m] = names
<1> DEFINE L == Len(names)
<1>0. L \in Nat /\ (\A j \in 1..L : names[j] \in Plains) /\ names \in Seq(Seq(Letters))
  BY PlainsAre
<1>6. /\ k \in Nat /\ g \in Nat
      /\ \A j \in 1..k : s[j] = <<>>
      /\ \A j \in 1..L : s[k + j] = names[j]
      /\ \A j \in 1..g : s[k + L + j] = <<>>
  BY DEF Amid
<1>7. k + L + g = m /\ k + L + g <= Len(s) /\ m \in Nat
  BY <1>6, <1>0
<1> HIDE DEF L
<1>1. \A j \in 1..Len(s) : s[j] = <<>> => out[j] = out[j - 1]
  BY DEF CleanSteps
<1>2. ASSUME NEW j \in 1..Len(s), NEW name \in Plains, s[j] = name PROVE out[j] = Append(out[j - 1], name)
  <2>1. s[j] \notin {<<>>, Dot} /\ s[j] # DotDot
    BY <1>2, PlainIs
  <2> QED BY <1>2, <2>1 DEF CleanSteps
<1> DEFINE A == {j \in 0..k : out[j] = <<>>}
           B == {j \in 0..L : out[k + j] = SubSeq(names, 1, j)}
           C == {j \in 0..g : out[k + L + j] = names}
<1>3. out[k] = <<>>
  <2>1. 0 \in A
    BY <1>6 DEF CleanSteps
  <2>2. ASSUME NEW j \in 0..(k - 1), j \in A PROVE j + 1 \in A
    <3>1. j + 1 \in 1..k /\ j + 1 \in 1..Len(s) /\ (j + 1) - 1 = j /\ j + 1 \in 0..k
      BY <1>0, <1>6, <1>7
    <3> QED BY <1>1, <1>6, <2>2, <3>1
  <2>3. 0..k \subseteq A
    <3> HIDE DEF A
    <3> QED BY <1>6, <2>1, <2>2, InductionUp
  <2>4. k \in 0..k
    BY <1>6
  <2> QED BY <2>3, <2>4
<1>4. out[k + L] = names
  <2>1. 0 \in B
    <3>1. SubSeq(names, 1, 0) = <<>> /\ 0 \in 0..L /\ k + 0 = k
      BY <1>0, <1>6
    <3> QED BY <1>3, <3>1
  <2>2. ASSUME NEW j \in 0..(L - 1), j \in B PROVE j + 1 \in B
    <3>1. /\ k + (j + 1) \in 1..Len(s) /\ (k + (j + 1)) - 1 = k + j /\ j + 1 \in 0..L
          /\ j + 1 \in 1..L
      BY <1>0, <1>6, <1>7
    <3>2. s[k + (j + 1)] = names[j + 1] /\ names[j + 1] \in Plains
      BY <1>0, <1>6, <3>1
    <3>3. out[k + (j + 1)] = Append(out[k + j], names[j + 1])
      BY <1>2, <3>1, <3>2
    <3>4. Append(SubSeq(names, 1, j), names[j + 1]) = SubSeq(names, 1, j + 1)
      <4>1. names \in Seq(Seq(Letters)) /\ Len(names) = L /\ L \in Nat /\ j \in 0..(L - 1)
        BY <1>0 DEF L
      <4> QED BY <4>1
    <3> QED BY <2>2, <3>1, <3>3, <3>4
  <2>3. 0..L \subseteq B
    <3> HIDE DEF B
    <3> QED BY <1>0, <2>1, <2>2, InductionUp
  <2>4. L \in 0..L /\ SubSeq(names, 1, L) = names
    BY <1>0 DEF L
  <2> QED BY <2>3, <2>4
<1>5. out[k + L + g] = names
  <2>1. 0 \in C
    <3>1. 0 \in 0..g /\ k + L + 0 = k + L
      BY <1>0, <1>6
    <3> QED BY <1>4, <3>1
  <2>2. ASSUME NEW j \in 0..(g - 1), j \in C PROVE j + 1 \in C
    <3>1. /\ k + L + (j + 1) \in 1..Len(s) /\ (k + L + (j + 1)) - 1 = k + L + j /\ j + 1 \in 0..g
          /\ j + 1 \in 1..g
      BY <1>0, <1>6, <1>7
    <3>2. s[k + L + (j + 1)] = <<>>
      BY <1>6, <3>1
    <3> QED BY <1>1, <2>2, <3>1, <3>2
  <2>3. 0..g \subseteq C
    <3> HIDE DEF C
    <3> QED BY <1>6, <2>1, <2>2, InductionUp
  <2>4. g \in 0..g
    BY <1>6
  <2> QED BY <2>3, <2>4
<1> QED BY <1>5, <1>7

(* path.Clean makes names of names, whatever slashes are before and after. *)
LEMMA CleanNames ==
    ASSUME NEW s, NEW names \in Seq(Plains), NEW k, NEW g, Amid(s, k, names, g),
           Len(s) = k + Len(names) + g
    PROVE  Clean(s) = IF IsRooted(s) THEN Rooted(names)
                      ELSE IF names = <<>> THEN <<Dot>> ELSE names
<1>1. Len(s) \in Nat
  BY PlainsAre DEF Amid
<1>2. PICK out : CleanSteps(s, out)
  BY <1>1, CleanLoop
<1>3. Len(s) \in 0..Len(s)
  BY <1>1
<1>4. out[Len(s)] = names
  BY <1>1, <1>2, <1>3, CleanOut
<1> QED BY <1>2, <1>4 DEF CleanSteps

(* A slash between the names and one more goes, too. *)
LEMMA CleanName ==
    ASSUME NEW s, NEW names \in Seq(Plains), NEW k, NEW g, Amid(s, k, names, g),
           NEW name \in Plains, s[Len(s)] = name,
           Len(s) = k + Len(names) + g + 1, IsRooted(s)
    PROVE  Clean(s) = Rooted(Append(names, name))
<1>0. Len(names) \in Nat /\ k \in Nat /\ g \in Nat
  BY PlainsAre DEF Amid
<1>1. Len(s) \in Nat /\ Len(s) \in 1..Len(s) /\ Len(s) - 1 = k + Len(names) + g /\ k + Len(names) + g <= Len(s)
  BY <1>0
<1>2. PICK out : CleanSteps(s, out)
  BY <1>1, CleanLoop
<1> DEFINE m == Len(s) - 1
<1>3. m \in 0..Len(s) /\ m = k + Len(names) + g /\ Len(s) \in Nat
  BY <1>1
<1> HIDE DEF m
<1>4. out[m] = names
  BY <1>2, <1>3, CleanOut
<1>5. s[Len(s)] \notin {<<>>, Dot} /\ s[Len(s)] # DotDot
  BY PlainIs
<1>6. out[Len(s)] = Append(names, name)
  BY <1>1, <1>2, <1>4, <1>5 DEF CleanSteps, m
<1> QED BY <1>2, <1>6 DEF CleanSteps

(* Clean leaves nothing but names under the root. *)
LEMMA CleanRooted ==
    ASSUME NEW s \in Seq(Seq(Letters)), IsRooted(s)
    PROVE  \E names \in Seq(Plains) : Clean(s) = Rooted(names)
<1>1. Len(s) \in Nat /\ \A j \in 1..Len(s) : s[j] \in Seq(Letters)
  OBVIOUS
<1>2. PICK out : CleanSteps(s, out)
  BY <1>1, CleanLoop
<1> DEFINE A == {j \in 0..Len(s) : out[j] \in Seq(Plains)}
<1>3. 0 \in A
  <2>1. out[0] = <<>> /\ <<>> \in Seq(Plains)
    BY <1>2 DEF CleanSteps
  <2>2. 0 \in 0..Len(s)
    BY <1>1
  <2> QED BY <2>1, <2>2
<1>4. ASSUME NEW j \in 0..(Len(s) - 1), j \in A PROVE j + 1 \in A
  <2>1. j + 1 \in 1..Len(s) /\ (j + 1) - 1 = j /\ j + 1 \in 0..Len(s)
    BY <1>1
  <2> DEFINE o == out[j]
             e == s[j + 1]
  <2>2. out[j + 1] = IF e \in {<<>>, Dot} THEN o ELSE IF e = DotDot THEN UpFrom(s, o) ELSE Append(o, e)
    BY <1>2, <2>1 DEF CleanSteps
  <2>3. o \in Seq(Plains) /\ e \in Seq(Letters)
    BY <1>1, <1>4, <2>1
  <2> HIDE DEF o, e
  <2>4. UpFrom(s, o) \in Seq(Plains)
    BY <2>3 DEF UpFrom, Front
  <2>5. e \notin {<<>>, Dot} /\ e # DotDot => Append(o, e) \in Seq(Plains)
    BY <2>3 DEF Plains, IsPlain
  <2>6. out[j + 1] \in Seq(Plains)
    BY <2>2, <2>3, <2>4, <2>5
  <2> QED BY <2>1, <2>6
<1>5. 0..Len(s) \subseteq A
  <2>1. 0 \in Nat
    OBVIOUS
  <2> HIDE DEF A
  <2> QED BY <1>1, <1>3, <1>4, <2>1, InductionUp
<1>6. Len(s) \in 0..Len(s)
  BY <1>1
<1>7. out[Len(s)] \in Seq(Plains)
  BY <1>5, <1>6
<1> QED BY <1>2, <1>7 DEF CleanSteps
(* A path of these names from the root, with or without a slash after it. *)
AtNames(path, names) == path \in {Rooted(names), Append(Rooted(names), <<>>)}

(* What a path from the root has at each place. *)
LEMMA RootedShape ==
    ASSUME NEW names \in Seq(Plains)
    PROVE  /\ Rooted(names) \in Seq(Seq(Letters))
           /\ Len(Rooted(names)) = IF names = <<>> THEN 2 ELSE Len(names) + 1
           /\ Rooted(names)[1] = <<>>
           /\ names = <<>> => Rooted(names)[2] = <<>>
           /\ \A j \in 1..Len(names) : Rooted(names)[j + 1] = names[j]
           /\ Rooted(names) = Slash <=> names = <<>>
<1>1. <<>> \in Seq(Letters) /\ names \in Seq(Seq(Letters)) /\ Len(names) \in Nat
  BY PlainsAre
<1>2. CASE names = <<>>
  <2> DEFINE t == << <<>>, <<>> >>
  <2>1. t \in Seq(Seq(Letters)) /\ Len(t) = 2 /\ t[1] = <<>> /\ t[2] = <<>>
    BY <1>1
  <2>2. Rooted(names) = t /\ Slash = t
    BY <1>2 DEF Rooted, Slash
  <2> HIDE DEF t
  <2>3. \A j \in 1..Len(names) : FALSE
    BY <1>2
  <2> QED BY <1>2, <2>1, <2>2, <2>3
<1>3. CASE names # <<>>
  <2> DEFINE a == << <<>> >>
  <2>1. a \in Seq(Seq(Letters)) /\ Len(a) = 1 /\ a[1] = <<>>
    BY <1>1
  <2>2. Rooted(names) = Cat(a, names)
    BY <1>3 DEF Rooted, Cat
  <2> HIDE DEF a
  <2>3. /\ Cat(a, names) \in Seq(Seq(Letters)) /\ Len(Cat(a, names)) = Len(a) + Len(names)
        /\ \A i \in 1..(Len(a) + Len(names)) :
               Cat(a, names)[i] = IF i <= Len(a) THEN a[i] ELSE names[i - Len(a)]
    BY <1>1, <2>1, CatProperties
  <2>4. Cat(a, names)[1] = <<>> /\ \A j \in 1..Len(names) : Cat(a, names)[j + 1] = names[j]
    <3>1. Len(names) \in Nat /\ 1 \in 1..(Len(a) + Len(names)) /\ 1 <= Len(a)
      BY <1>1, <2>1
    <3>2. \A j \in 1..Len(names) : j + 1 \in 1..(Len(a) + Len(names)) /\ ~(j + 1 <= Len(a)) /\ j + 1 - Len(a) = j
      BY <2>1, <3>1
    <3>3. Cat(a, names)[1] = <<>>
      BY <2>1, <2>3, <3>1
    <3>4. ASSUME NEW j \in 1..Len(names) PROVE Cat(a, names)[j + 1] = names[j]
      <4> DEFINE i == j + 1
      <4>1. i \in 1..(Len(a) + Len(names)) /\ ~(i <= Len(a)) /\ i - Len(a) = j
        BY <3>2
      <4> HIDE DEF i
      <4>2. Cat(a, names)[i] = names[j]
        BY <2>3, <4>1
      <4> QED BY <4>2 DEF i
    <3> QED BY <3>3, <3>4
  <2>5. Rooted(names) # Slash
    <3>1. 1 \in 1..Len(names) /\ Slash[2] = <<>>
      BY <1>1, <1>3 DEF Slash
    <3>2. names[1] # <<>>
      BY <3>1, PlainsAre, PlainIs
    <3>3. Cat(a, names)[1 + 1] = names[1]
      BY <2>4, <3>1
    <3> QED BY <2>2, <3>1, <3>2, <3>3
  <2> QED BY <1>1, <1>3, <2>1, <2>2, <2>3, <2>4, <2>5
<1> QED BY <1>2, <1>3

(* The same with or without a slash after it. *)
LEMMA AtShape ==
    ASSUME NEW names \in Seq(Plains), NEW path, AtNames(path, names)
    PROVE  \E g \in 0..2 :
                /\ path \in Seq(Seq(Letters)) /\ Len(path) = 1 + Len(names) + g /\ path[1] = <<>>
                /\ names = <<>> => g \in 1..2
                /\ names # <<>> => g \in 0..1
                /\ \A j \in 1..Len(names) : path[1 + j] = names[j]
                /\ \A j \in 1..g : path[1 + Len(names) + j] = <<>>
<1> DEFINE r == Rooted(names)
           L == Len(names)
           e == IF names = <<>> THEN 1 ELSE 0
<1>1. /\ r \in Seq(Seq(Letters)) /\ Len(r) = 1 + L + e /\ r[1] = <<>> /\ L \in Nat
      /\ \A j \in 1..L : r[1 + j] = names[j]
      /\ \A j \in 1..e : r[1 + L + j] = <<>>
  <2>1. L \in Nat
    BY PlainsAre
  <2>2. CASE names = <<>>
    <3>1. L = 0
      BY <2>2
    <3>2. r \in Seq(Seq(Letters)) /\ Len(r) = 2 /\ r[1] = <<>> /\ r[2] = <<>>
      BY <2>2, RootedShape
    <3> HIDE DEF r, L
    <3> QED BY <2>2, <3>1, <3>2
  <2>3. CASE names # <<>>
    <3>1. r \in Seq(Seq(Letters)) /\ Len(r) = L + 1 /\ r[1] = <<>> /\ \A j \in 1..L : r[j + 1] = names[j]
      BY <2>3, RootedShape
    <3> HIDE DEF r, L
    <3>2. \A j \in 1..L : r[1 + j] = r[j + 1]
      OBVIOUS
    <3> QED BY <2>1, <2>3, <3>1, <3>2
  <2> QED BY <2>2, <2>3
<1>4. path \in {r, Append(r, <<>>)}
  BY DEF AtNames
<1> HIDE DEF r, L
<1>2. CASE path = r
  <2>1. e \in 0..2 /\ (names = <<>> => e \in 1..2) /\ (names # <<>> => e \in 0..1)
    OBVIOUS
  <2> HIDE DEF e
  <2> QED BY <1>1, <1>2, <2>1 DEF L
<1>3. CASE path = Append(r, <<>>)
  <2> DEFINE g == e + 1
  <2>1. g \in 0..2 /\ (names = <<>> => g \in 1..2) /\ (names # <<>> => g \in 0..1) /\ e \in Nat
    OBVIOUS
  <2> HIDE DEF e
  <2>2. /\ path \in Seq(Seq(Letters)) /\ Len(path) = 1 + L + e + 1
        /\ path[1 + L + e + 1] = <<>> /\ \A i \in 1..(1 + L + e) : path[i] = r[i]
    <3>1. <<>> \in Seq(Letters)
      OBVIOUS
    <3>2. /\ path \in Seq(Seq(Letters)) /\ Len(path) = Len(r) + 1
          /\ path[Len(r) + 1] = <<>> /\ \A i \in 1..Len(r) : path[i] = r[i]
      <4>1. r \in Seq(Seq(Letters))
        BY <1>1
      <4> QED BY <1>3, <3>1, <4>1, AppendIs
    <3> QED BY <1>1, <3>2, Zenon
  <2>3. \A j \in 1..L : path[1 + j] = names[j]
    <3>1. \A j \in 1..L : 1 + j \in 1..(1 + L + e)
      BY <1>1, <2>1
    <3> QED BY <1>1, <2>2, <3>1
  <2>4. \A j \in 1..g : path[1 + L + j] = <<>>
    <3>1. ASSUME NEW j \in 1..g PROVE path[1 + L + j] = <<>>
      <4>1. CASE j = e + 1
        <5>1. 1 + L + j = 1 + L + e + 1
          <6>1. L \in Nat /\ e \in Nat
            BY <1>1, <2>1
          <6> QED BY <4>1, <6>1
        <5> QED BY <2>2, <5>1
      <4>2. CASE j # e + 1
        <5>1. j \in 1..e /\ 1 + L + j \in 1..(1 + L + e)
          BY <1>1, <2>1, <4>2
        <5> QED BY <1>1, <2>2, <5>1
      <4> QED BY <4>1, <4>2
    <3> QED BY <3>1
  <2>5. path[1] = <<>>
    <3>1. 1 \in 1..(1 + L + e)
      BY <1>1, <2>1
    <3> QED BY <1>1, <2>2, <3>1
  <2>6. Len(path) = 1 + L + g
    BY <1>1, <2>1, <2>2
  <2> HIDE DEF g
  <2> QED BY <2>1, <2>2, <2>3, <2>4, <2>5, <2>6 DEF L
<1> QED BY <1>2, <1>3, <1>4

(* A path is that of one sequence of names only. *)
LEMMA AtInjective ==
    ASSUME NEW a \in Seq(Plains), NEW b \in Seq(Plains), NEW path, AtNames(path, a), AtNames(path, b)
    PROVE  a = b
<1>1. PICK g \in 0..2 :
                /\ path \in Seq(Seq(Letters)) /\ Len(path) = 1 + Len(a) + g
                /\ \A j \in 1..Len(a) : path[1 + j] = a[j]
                /\ \A j \in 1..g : path[1 + Len(a) + j] = <<>>
  BY AtShape
<1>2. PICK h \in 0..2 :
                /\ Len(path) = 1 + Len(b) + h
                /\ \A j \in 1..Len(b) : path[1 + j] = b[j]
                /\ \A j \in 1..h : path[1 + Len(b) + j] = <<>>
  BY AtShape
<1>3. /\ Len(a) \in Nat /\ Len(b) \in Nat
      /\ (\A j \in 1..Len(a) : a[j] # <<>>) /\ (\A j \in 1..Len(b) : b[j] # <<>>)
  BY PlainsAre, PlainIs
<1>4. ~(Len(a) < Len(b))
  <2>1. SUFFICES ASSUME Len(a) < Len(b) PROVE FALSE
    OBVIOUS
  <2>2. Len(a) + 1 \in 1..Len(b) /\ 1 \in 1..g /\ 1 + (Len(a) + 1) = 1 + Len(a) + 1
    BY <1>1, <1>2, <1>3, <2>1
  <2>3. path[1 + Len(a) + 1] = <<>>
    BY <1>1, <2>2
  <2>4. path[1 + (Len(a) + 1)] = b[Len(a) + 1]
    BY <1>2, <2>2
  <2> QED BY <1>3, <2>2, <2>3, <2>4
<1>5. ~(Len(b) < Len(a))
  <2>1. SUFFICES ASSUME Len(b) < Len(a) PROVE FALSE
    OBVIOUS
  <2>2. Len(b) + 1 \in 1..Len(a) /\ 1 \in 1..h /\ 1 + (Len(b) + 1) = 1 + Len(b) + 1
    BY <1>1, <1>2, <1>3, <2>1
  <2>3. path[1 + Len(b) + 1] = <<>>
    BY <1>2, <2>2
  <2>4. path[1 + (Len(b) + 1)] = a[Len(b) + 1]
    BY <1>1, <2>2
  <2> QED BY <1>3, <2>2, <2>3, <2>4
<1>6. Len(a) = Len(b)
  BY <1>3, <1>4, <1>5
<1>7. \A j \in 1..Len(a) : a[j] = b[j]
  BY <1>1, <1>2, <1>6
<1> QED BY <1>6, <1>7

(* path.Join puts a name after a path, whether or not a slash is there. *)
LEMMA JoinAt ==
    ASSUME NEW names \in Seq(Plains), NEW path, AtNames(path, names), NEW name \in Plains
    PROVE  Join(path, name) = Rooted(Append(names, name))
<1> DEFINE t == <<name>>
           s == Cat(path, t)
           L == Len(names)
<1>1. PICK g \in 0..2 :
                /\ path \in Seq(Seq(Letters)) /\ Len(path) = 1 + L + g /\ path[1] = <<>>
                /\ names = <<>> => g \in 1..2
                /\ \A j \in 1..L : path[1 + j] = names[j]
                /\ \A j \in 1..g : path[1 + L + j] = <<>>
  BY AtShape
<1>2. L \in Nat /\ (names # <<>> => L > 0) /\ (names = <<>> => L = 0)
  BY PlainsAre
<1>3. t \in Seq(Seq(Letters)) /\ Len(t) = 1 /\ t[1] = name /\ t # EmptyPath
  <2>1. name \in Seq(Letters) /\ name # <<>>
    BY PlainIs
  <2> QED BY <2>1 DEF EmptyPath
<1>4. Len(path) > 1
  BY <1>1, <1>2
<1>5. path # EmptyPath
  <2> DEFINE empty == EmptyPath
  <2>1. ~(Len(empty) > 1)
    BY DEF EmptyPath
  <2> HIDE DEF empty
  <2>2. path # empty
    BY <1>4, <2>1
  <2> QED BY <2>2 DEF empty
<1>6. Join(path, name) = Clean(s)
  BY <1>3, <1>5 DEF Join, JoinPaths, Cat
<1> HIDE DEF t, L
<1>7. /\ Len(s) = Len(path) + 1 /\ (\A i \in 1..Len(path) : s[i] = path[i]) /\ s[Len(path) + 1] = name
  <2>1. /\ s \in Seq(Seq(Letters)) /\ Len(s) = Len(path) + Len(t)
        /\ \A i \in 1..(Len(path) + Len(t)) : s[i] = IF i <= Len(path) THEN path[i] ELSE t[i - Len(path)]
    BY <1>1, <1>3, CatProperties
  <2> HIDE DEF s
  <2>2. Len(path) \in Nat
    BY <1>1
  <2>3. s[Len(path) + 1] = name
    BY <1>3, <2>1, <2>2
  <2> QED BY <1>3, <2>1, <2>2, <2>3
<1> HIDE DEF s
<1>8. IsRooted(s)
  <2>1. 1 \in 1..Len(path)
    BY <1>1, <1>2
  <2> QED BY <1>1, <1>4, <1>7, <2>1 DEF IsRooted
<1>9. Len(s) = 1 + L + g + 1
  BY <1>1, <1>7
<1>10. \A j \in 1..1 : s[j] = <<>>
  BY <1>8 DEF IsRooted
<1>11. \A j \in 1..L : s[1 + j] = names[j]
  <2>1. \A j \in 1..L : 1 + j \in 1..Len(path)
    BY <1>1, <1>2
  <2> QED BY <1>1, <1>7, <2>1
<1>12. \A j \in 1..g : s[1 + L + j] = <<>>
  <2>1. \A j \in 1..g : 1 + L + j \in 1..Len(path)
    BY <1>1, <1>2
  <2> QED BY <1>1, <1>7, <2>1
<1>13. s[Len(s)] = name
  BY <1>7
<1>14. Amid(s, 1, names, g)
  BY <1>10, <1>11, <1>12 DEF Amid, L
<1>15. Clean(s) = Rooted(Append(names, name))
  BY <1>8, <1>9, <1>13, <1>14, CleanName DEF L
<1> QED BY <1>6, <1>15

--------------------------------------------------------------------------------
(***************************************************************************)
(* strings.HasPrefix and strings.TrimPrefix on them, and the next element. *)
(***************************************************************************)

(* The last element of a sequence, and those before it. *)
LEMMA LastOf ==
    ASSUME NEW T, NEW s \in Seq(T), s # <<>>
    PROVE  Len(s) \in Nat \ {0} /\ Last(s) = s[Len(s)] /\ Front(s) = SubSeq(s, 1, Len(s) - 1)
BY DEF Last, Front

(* A sequence is a prefix of itself, and the empty one is of every         *)
(* sequence.                                                               *)
LEMMA PrefixOfItself ==
    ASSUME NEW T, NEW s \in Seq(T)
    PROVE  IsPrefix(s, s) /\ IsPrefix(<<>>, s)
<1>1. Len(s) \in Nat /\ SubSeq(<<>>, 1, 0) = <<>> /\ SubSeq(s, 1, 0) = <<>> /\ Len(<<>>) = 0
  OBVIOUS
<1> QED BY <1>1 DEF IsPrefix

(* What two sequences of names that are joined have at each place. *)
LEMMA CatPlains ==
    ASSUME NEW a \in Seq(Plains), NEW b \in Seq(Plains)
    PROVE  /\ Cat(a, b) \in Seq(Plains) /\ Len(Cat(a, b)) = Len(a) + Len(b)
           /\ Len(a) \in Nat /\ Len(b) \in Nat
           /\ \A j \in 1..Len(a) : Cat(a, b)[j] = a[j]
           /\ \A j \in 1..Len(b) : Cat(a, b)[Len(a) + j] = b[j]
<1>1. Len(a) \in Nat /\ Len(b) \in Nat
  OBVIOUS
<1>2. /\ Cat(a, b) \in Seq(Plains) /\ Len(Cat(a, b)) = Len(a) + Len(b)
      /\ \A i \in 1..(Len(a) + Len(b)) :
             Cat(a, b)[i] = IF i <= Len(a) THEN a[i] ELSE b[i - Len(a)]
  BY CatProperties, CatIn
<1> DEFINE c == Cat(a, b)
           K == Len(a)
           L == Len(b)
<1> HIDE DEF c, K, L
<1>3. \A i \in 1..(K + L) : c[i] = IF i <= K THEN a[i] ELSE b[i - K]
  BY <1>2 DEF c, K, L
<1>4. K \in Nat /\ L \in Nat
  BY <1>1 DEF K, L
<1>5. ASSUME NEW j \in 1..K PROVE c[j] = a[j]
  <2>1. j \in 1..(K + L) /\ j <= K
    BY <1>4
  <2> QED BY <1>3, <2>1
<1>6. ASSUME NEW j \in 1..L PROVE c[K + j] = b[j]
  <2>1. K + j \in 1..(K + L) /\ ~(K + j <= K) /\ (K + j) - K = j
    BY <1>4
  <2> QED BY <1>3, <2>1
<1> QED BY <1>1, <1>2, <1>5, <1>6 DEF c, K, L

(* What AtNames says of the elements of a path that goes on from a directory. *)
LEMMA BelowShape ==
    ASSUME NEW names \in Seq(Plains), NEW rest \in Seq(Plains), NEW path, AtNames(path, Cat(names, rest))
    PROVE  \E g \in 0..2 :
                /\ path \in Seq(Seq(Letters)) /\ Len(path) = 1 + Len(names) + Len(rest) + g
                /\ path[1] = <<>>
                /\ names = <<>> /\ rest = <<>> => g \in 1..2
                /\ names # <<>> \/ rest # <<>> => g \in 0..1
                /\ \A j \in 1..Len(names) : path[1 + j] = names[j]
                /\ \A j \in 1..Len(rest) : path[1 + Len(names) + j] = rest[j]
                /\ \A j \in 1..g : path[1 + Len(names) + Len(rest) + j] = <<>>
<1> DEFINE c == Cat(names, rest)
           K == Len(names)
           L == Len(rest)
<1>1. /\ c \in Seq(Plains) /\ Len(c) = K + L /\ K \in Nat /\ L \in Nat
      /\ \A j \in 1..K : c[j] = names[j]
      /\ \A j \in 1..L : c[K + j] = rest[j]
  BY CatPlains
<1>2. c = <<>> <=> names = <<>> /\ rest = <<>>
  BY <1>1
<1>3. AtNames(path, c)
  OBVIOUS
<1> HIDE DEF c, K, L
<1>4. PICK g \in 0..2 :
                /\ path \in Seq(Seq(Letters)) /\ Len(path) = 1 + Len(c) + g /\ path[1] = <<>>
                /\ c = <<>> => g \in 1..2
                /\ c # <<>> => g \in 0..1
                /\ \A j \in 1..Len(c) : path[1 + j] = c[j]
                /\ \A j \in 1..g : path[1 + Len(c) + j] = <<>>
  <2>1. c \in Seq(Plains)
    BY <1>1
  <2> QED BY <1>3, <2>1, AtShape
<1>5. Len(path) = 1 + K + L + g
  BY <1>1, <1>4
<1>6. ASSUME NEW j \in 1..K PROVE path[1 + j] = names[j]
  <2>1. j \in 1..Len(c)
    BY <1>1
  <2> QED BY <1>1, <1>4, <2>1
<1>7. ASSUME NEW j \in 1..L PROVE path[1 + K + j] = rest[j]
  <2>1. K + j \in 1..Len(c) /\ 1 + (K + j) = 1 + K + j
    BY <1>1
  <2>2. path[1 + (K + j)] = c[K + j]
    BY <1>4, <2>1
  <2> QED BY <1>1, <2>1, <2>2
<1>8. ASSUME NEW j \in 1..g PROVE path[1 + K + L + j] = <<>>
  <2>1. 1 + Len(c) + j = 1 + K + L + j
    BY <1>1
  <2>2. path[1 + Len(c) + j] = <<>>
    BY <1>4
  <2> QED BY <2>1, <2>2
<1> QED BY <1>2, <1>4, <1>5, <1>6, <1>7, <1>8 DEF K, L

(* The path of a directory is a prefix of that of what is below it, and    *)
(* what is left of the one without the other is the names below it.        *)
LEMMA Trimmed ==
    ASSUME NEW names \in Seq(Plains), NEW rest \in Seq(Plains), NEW path, AtNames(path, Cat(names, rest))
    PROVE  /\ HasPrefix(path, Rooted(names))
           /\ LET s == TrimPrefix(path, Rooted(names))
              IN  \E k \in 0..1, g \in 0..2 :
                    /\ Amid(s, k, rest, g) /\ Len(s) = k + Len(rest) + g
                    /\ Len(s) > 0
                    /\ k = 1 => s[1] = <<>>
<1> DEFINE r == Rooted(names)
           K == Len(names)
           L == Len(rest)
<1>1. PICK g \in 0..2 :
                /\ path \in Seq(Seq(Letters)) /\ Len(path) = 1 + K + L + g
                /\ path[1] = <<>>
                /\ names = <<>> /\ rest = <<>> => g \in 1..2
                /\ names # <<>> \/ rest # <<>> => g \in 0..1
                /\ \A j \in 1..K : path[1 + j] = names[j]
                /\ \A j \in 1..L : path[1 + K + j] = rest[j]
                /\ \A j \in 1..g : path[1 + K + L + j] = <<>>
  BY BelowShape
<1>2. /\ K \in Nat /\ L \in Nat /\ (names = <<>> <=> K = 0) /\ (rest = <<>> <=> L = 0)
      /\ \A j \in 1..K : names[j] \in Seq(Letters)
      /\ \A j \in 1..L : rest[j] \in Seq(Letters)
  <2>1. K \in Nat /\ L \in Nat /\ (names = <<>> <=> K = 0) /\ (rest = <<>> <=> L = 0)
    OBVIOUS
  <2>2. (\A j \in 1..K : names[j] \in Seq(Letters)) /\ \A j \in 1..L : rest[j] \in Seq(Letters)
    BY PlainsAre, PlainIs
  <2> QED BY <2>1, <2>2
<1>3. /\ r \in Seq(Seq(Letters)) /\ Len(r) = (IF K = 0 THEN 2 ELSE K + 1) /\ r[1] = <<>>
      /\ K = 0 => r[2] = <<>>
      /\ \A j \in 1..K : r[j + 1] = names[j]
  BY <1>2, RootedShape
<1> DEFINE N == Len(r)
           left == SubSeq(path[N], Len(Last(r)) + 1, Len(path[N]))
           t == << left >>
           more == SubSeq(path, N + 1, Len(path))
           s == Cat(t, more)
<1>4. r # <<>> /\ N \in Nat /\ N > 0
  BY <1>2, <1>3
<1>5. Last(r) = r[N] /\ Front(r) = SubSeq(r, 1, N - 1)
  BY <1>3, <1>4, LastOf
<1> HIDE DEF r, K, L
<1>6. N <= Len(path) /\ N - 1 <= K + 1 /\ N - 1 \in Nat /\ N \in 1..Len(path)
  <2>1. N = (IF K = 0 THEN 2 ELSE K + 1) /\ (K = 0 /\ L = 0 => g > 0) /\ g \in Nat
    BY <1>1, <1>2, <1>3
  <2>2. Len(path) = 1 + K + L + g
    BY <1>1
  <2> HIDE DEF N
  <2>3. CASE K = 0
    BY <1>2, <2>1, <2>2, <2>3
  <2>4. CASE K # 0
    BY <1>2, <2>1, <2>2, <2>4
  <2> QED BY <2>3, <2>4
<1>7. \A j \in 1..(N - 1) : r[j] = path[j]
  <2>1. ASSUME NEW j \in 1..(N - 1) PROVE r[j] = path[j]
    <3>1. CASE j = 1
      BY <1>1, <1>3, <3>1
    <3>2. CASE j # 1
      <4>1. j - 1 \in 1..K /\ (j - 1) + 1 = j /\ 1 + (j - 1) = j
        BY <1>2, <1>3, <3>2
      <4>2. r[(j - 1) + 1] = names[j - 1] /\ path[1 + (j - 1)] = names[j - 1]
        BY <1>1, <1>3, <4>1
      <4> QED BY <4>1, <4>2
    <3> QED BY <3>1, <3>2
  <2> QED BY <2>1
<1>8. SubSeq(r, 1, N - 1) = SubSeq(path, 1, N - 1)
  <2> DEFINE M == N - 1
  <2>1. M \in Nat /\ M <= Len(r) /\ M <= Len(path) /\ \A j \in 1..M : r[j] = path[j]
    BY <1>3, <1>4, <1>6, <1>7
  <2> HIDE DEF M
  <2>2. SubSeq(r, 1, M) = SubSeq(path, 1, M)
    BY <1>1, <1>3, <2>1
  <2> QED BY <2>2 DEF M
<1>9. r[N] \in Seq(Letters) /\ path[N] \in Seq(Letters) /\ IsPrefix(r[N], path[N])
      /\ (K = 0 => r[N] = <<>>) /\ (K # 0 => r[N] = path[N])
  <2>4. r[N] \in Seq(Letters)
    BY <1>3, <1>4
  <2>5. path[N] \in Seq(Letters)
    BY <1>1, <1>6
  <2>1. r[N] \in Seq(Letters) /\ path[N] \in Seq(Letters)
    BY <2>4, <2>5
  <2>2. CASE K = 0
    <3>1. r[N] = <<>>
      BY <1>3, <2>2
    <3> QED BY <2>1, <2>2, <3>1, PrefixOfItself
  <2>3. CASE K # 0
    <3>1. K \in 1..K /\ N = K + 1 /\ N = 1 + K
      BY <1>2, <1>3, <2>3
    <3>2. r[K + 1] = names[K] /\ path[1 + K] = names[K]
      BY <1>1, <1>3, <3>1
    <3>3. r[N] = path[N]
      BY <3>1, <3>2
    <3> QED BY <2>1, <2>3, <3>3, PrefixOfItself
  <2> QED BY <2>2, <2>3
<1>10. HasPrefix(path, r)
  BY <1>5, <1>6, <1>8, <1>9 DEF HasPrefix
<1>11. TrimPrefix(path, r) = s
  BY <1>10 DEF TrimPrefix, Cat
<1>12. /\ left \in Seq(Letters)
       /\ K # 0 => left = <<>>
       /\ K = 0 => left = path[2]
  <2> DEFINE x == path[N]
             y == r[N]
  <2>1. x \in Seq(Letters) /\ y \in Seq(Letters) /\ left = SubSeq(x, Len(y) + 1, Len(x))
    BY <1>5, <1>9
  <2> HIDE DEF x, y, left
  <2>2. left \in Seq(Letters)
    BY <2>1
  <2>3. K # 0 => left = <<>>
    <3>1. Len(x) \in Nat /\ SubSeq(x, Len(x) + 1, Len(x)) = <<>>
      BY <2>1
    <3>2. K # 0 => y = x
      BY <1>9 DEF x, y
    <3> QED BY <2>1, <3>1, <3>2
  <2>4. K = 0 => left = path[2]
    <3>1. y = <<>> => left = x
      BY <2>1
    <3> QED BY <1>3, <1>9, <3>1 DEF x, y
  <2> QED BY <2>2, <2>3, <2>4
<1> HIDE DEF left
<1>13. /\ t \in Seq(Seq(Letters)) /\ Len(t) = 1 /\ t[1] = left
       /\ more \in Seq(Seq(Letters)) /\ Len(more) = Len(path) - N
       /\ \A j \in 1..(Len(path) - N) : more[j] = path[N + j]
  <2>1. path \in Seq(Seq(Letters)) /\ N \in 1..Len(path) /\ Len(path) \in Nat
    BY <1>1, <1>6
  <2> HIDE DEF N
  <2>2. /\ more \in Seq(Seq(Letters)) /\ Len(more) = Len(path) - N
        /\ \A j \in 1..(Len(path) - N) : more[j] = path[N + j]
    BY <2>1
  <2> QED BY <1>12, <2>2
<1> HIDE DEF t, more
<1>14. /\ s \in Seq(Seq(Letters)) /\ Len(s) = 1 + (Len(path) - N)
       /\ s[1] = left
       /\ \A j \in 1..(Len(path) - N) : s[1 + j] = path[N + j]
  <2> DEFINE D == Len(path) - N
  <2>1. D \in Nat /\ Len(more) = D
    BY <1>1, <1>6, <1>13
  <2>2. /\ s \in Seq(Seq(Letters)) /\ Len(s) = Len(t) + Len(more)
        /\ \A i \in 1..(Len(t) + Len(more)) : s[i] = IF i <= Len(t) THEN t[i] ELSE more[i - Len(t)]
    BY <1>13, CatProperties
  <2>6. \A j \in 1..D : more[j] = path[N + j]
    BY <1>13
  <2> HIDE DEF s, D, N
  <2>3. s[1] = left
    BY <1>13, <2>1, <2>2
  <2>4. ASSUME NEW j \in 1..D PROVE s[1 + j] = path[N + j]
    <3>1. 1 + j \in 1..(Len(t) + Len(more)) /\ ~(1 + j <= Len(t)) /\ (1 + j) - Len(t) = j
      BY <1>13, <2>1
    <3> QED BY <2>2, <2>6, <3>1
  <2>5. Len(s) = 1 + D
    BY <1>13, <2>1, <2>2
  <2> QED BY <2>2, <2>3, <2>4, <2>5 DEF D
<1> HIDE DEF s
<1>15. CASE K # 0
  <2>1. N = K + 1 /\ Len(path) - N = L + g /\ Len(s) = 1 + L + g /\ Len(s) > 0
    BY <1>1, <1>2, <1>3, <1>14, <1>15
  <2> HIDE DEF N
  <2>2. s[1] = <<>> /\ \A j \in 1..1 : s[j] = <<>>
    BY <1>12, <1>14, <1>15
  <2>3. ASSUME NEW j \in 1..L PROVE s[1 + j] = rest[j]
    <3>1. j \in 1..(Len(path) - N) /\ N + j = 1 + K + j
      BY <1>2, <2>1
    <3> QED BY <1>1, <1>14, <3>1
  <2>4. ASSUME NEW j \in 1..g PROVE s[1 + L + j] = <<>>
    <3>1. L + j \in 1..(Len(path) - N) /\ N + (L + j) = 1 + K + L + j /\ 1 + (L + j) = 1 + L + j
      BY <1>2, <2>1
    <3>2. s[1 + (L + j)] = path[N + (L + j)]
      BY <1>14, <3>1
    <3> QED BY <1>1, <3>1, <3>2
  <2>5. 1 \in Nat /\ g \in Nat /\ 1 \in 0..1
    OBVIOUS
  <2>6. Amid(s, 1, rest, g)
    BY <2>2, <2>3, <2>4, <2>5 DEF Amid, L
  <2> QED BY <1>10, <1>11, <2>1, <2>2, <2>5, <2>6 DEF r, L
<1>16. CASE K = 0
  <2>8. N = 2
    BY <1>3, <1>16
  <2>9. L + g > 0 /\ g \in Nat
    <3>1. CASE L = 0
      <4>1. g \in 1..2
        BY <1>1, <1>2, <1>16, <3>1
      <4> QED BY <1>2, <4>1
    <3>2. CASE L # 0
      BY <1>2, <3>2
    <3> QED BY <3>1, <3>2
  <2>1. N = 2 /\ Len(s) = 0 + L + g /\ Len(s) > 0 /\ L + g > 0
    <3>1. Len(s) = 1 + (Len(path) - 2) /\ Len(path) = 1 + K + L + g
      BY <1>1, <1>14, <2>8
    <3> QED BY <1>2, <1>16, <2>8, <2>9, <3>1
  <2> HIDE DEF N
  <2>2. \A j \in 1..0 : s[j] = <<>>
    OBVIOUS
  <2>7. \A i \in 1..(L + g) : s[i] = path[1 + i]
    <3>1. ASSUME NEW i \in 1..(L + g) PROVE s[i] = path[1 + i]
      <4>1. CASE i = 1
        <5>1. 1 + i = 2
          BY <4>1
        <5> QED BY <1>12, <1>14, <1>16, <4>1, <5>1
      <4>2. CASE i # 1
        <5>1. i - 1 \in 1..(Len(path) - N) /\ 1 + (i - 1) = i /\ N + (i - 1) = 1 + i
          BY <1>1, <1>2, <1>16, <2>1, <4>2
        <5>2. s[1 + (i - 1)] = path[N + (i - 1)]
          BY <1>14, <5>1
        <5> QED BY <5>1, <5>2
      <4> QED BY <4>1, <4>2
    <3> QED BY <3>1
  <2>3. ASSUME NEW j \in 1..L PROVE s[0 + j] = rest[j]
    <3>1. j \in 1..(L + g) /\ 1 + j = 1 + K + j /\ 0 + j = j
      BY <1>2, <1>16
    <3> QED BY <1>1, <2>7, <3>1
  <2>4. ASSUME NEW j \in 1..g PROVE s[0 + L + j] = <<>>
    <3>1. L + j \in 1..(L + g) /\ 1 + (L + j) = 1 + K + L + j /\ 0 + L + j = L + j
      BY <1>2, <1>16
    <3> QED BY <1>1, <2>7, <3>1
  <2>5. 0 \in Nat /\ g \in Nat /\ 0 \in 0..1 /\ ~(0 = 1)
    OBVIOUS
  <2>6. Amid(s, 0, rest, g)
    BY <2>2, <2>3, <2>4, <2>5 DEF Amid, L
  <2> QED BY <1>10, <1>11, <2>1, <2>2, <2>5, <2>6 DEF r, L
<1> QED BY <1>15, <1>16

(* The next path element is the first name below what was walked, "." if   *)
(* there is none.                                                          *)
LEMMA ElementIs ==
    ASSUME NEW names \in Seq(Plains), NEW rest \in Seq(Plains),
           AtNames(targetPath, Cat(names, rest)), currentPath = Rooted(names)
    PROVE  Element = IF rest = <<>> THEN Dot ELSE rest[1]
<1> DEFINE s == TrimPrefix(targetPath, currentPath)
           c == Clean(s)
           L == Len(rest)
<1>1. PICK k \in 0..1, g \in 0..2 :
                    /\ Amid(s, k, rest, g) /\ Len(s) = k + L + g
                    /\ Len(s) > 0
                    /\ k = 1 => s[1] = <<>>
  BY Trimmed
<1>2. c = IF IsRooted(s) THEN Rooted(rest) ELSE IF rest = <<>> THEN <<Dot>> ELSE rest
  BY <1>1, CleanNames
<1>3. Element = IF c = Slash THEN Dot ELSE IF c[1] = <<>> THEN c[2] ELSE c[1]
  BY DEF Element
<1>4. Dot # <<>> /\ Slash[1] = <<>> /\ <<Dot>>[1] = Dot
  BY DEF Dot, Slash
<1>10. /\ \A j \in 1..L : s[k + j] = rest[j]
       /\ \A j \in 1..L : rest[j] # <<>>
       /\ L \in Nat /\ (rest = <<>> <=> L = 0)
  BY <1>1, PlainsAre, PlainIs DEF Amid
<1> HIDE DEF s, c
<1>5. CASE rest = <<>> /\ IsRooted(s)
  <2>1. c = Slash
    BY <1>2, <1>5 DEF Rooted
  <2> QED BY <1>3, <1>5, <2>1
<1>6. CASE rest = <<>> /\ ~IsRooted(s)
  <2>1. c = <<Dot>>
    BY <1>2, <1>6
  <2>2. c # Slash /\ c[1] = Dot
    BY <1>4, <2>1
  <2> QED BY <1>3, <1>4, <1>6, <2>2
<1>7. CASE rest # <<>> /\ IsRooted(s)
  <2>0. 1 \in 1..L
    BY <1>7, <1>10
  <2>1. c = Rooted(rest)
    BY <1>2, <1>7
  <2>2. c # Slash /\ c[1] = <<>> /\ c[1 + 1] = rest[1]
    BY <1>7, <2>0, <2>1, RootedShape DEF L
  <2> QED BY <1>3, <1>7, <2>2
<1>8. CASE rest # <<>> /\ ~IsRooted(s)
  <2>0. 1 \in 1..L
    BY <1>8, <1>10
  <2>1. c = rest
    BY <1>2, <1>8
  <2>2. c[1] # <<>> /\ c # Slash
    BY <1>4, <1>10, <2>0, <2>1
  <2> QED BY <1>3, <1>8, <2>1, <2>2
<1> QED BY <1>5, <1>6, <1>7, <1>8

--------------------------------------------------------------------------------
(***************************************************************************)
(* The paths of the nodes.                                                 *)
(***************************************************************************)

PathSet == Seq(Seq(Letters))

(* Sequences of a set are sequences of every larger one. *)
LEMMA SeqGrows ==
    ASSUME NEW A, NEW B, A \subseteq B
    PROVE  Seq(A) \subseteq Seq(B)
<1> SUFFICES ASSUME NEW w \in Seq(A) PROVE w \in Seq(B)
  OBVIOUS
<1> DEFINE N == Len(w)
<1>1. N \in Nat /\ w = [i \in 1..N |-> w[i]] /\ \A i \in 1..N : w[i] \in A
  OBVIOUS
<1> HIDE DEF N
<1>2. \A i \in 1..N : w[i] \in B
  BY <1>1
<1> QED BY <1>1, <1>2

(* A function on the numbers from 1 is a sequence. *)
LEMMA SeqIs ==
    ASSUME NEW S, NEW n \in Nat, NEW f, f = [i \in 1..n |-> f[i]], \A i \in 1..n : f[i] \in S
    PROVE  f \in Seq(S) /\ Len(f) = n
OBVIOUS

(* Two sequences of the same length and elements are the same. *)
LEMMA SeqSame ==
    ASSUME NEW S, NEW s \in Seq(S), NEW t \in Seq(S), Len(s) = Len(t),
           \A i \in 1..Len(s) : s[i] = t[i]
    PROVE  s = t
OBVIOUS

(* What a sequence has after its first element. *)
LEMMA TailIs ==
    ASSUME NEW S, NEW s \in Seq(S), s # <<>>
    PROVE  /\ Len(Tail(s)) = Len(s) - 1 /\ Len(s) - 1 \in Nat
           /\ Tail(s) = [j \in 1..(Len(s) - 1) |-> Tail(s)[j]]
           /\ \A j \in 1..(Len(s) - 1) : Tail(s)[j] = s[j + 1]
           /\ s = << s[1] >> \o Tail(s)
<1>1. Len(s) - 1 \in Nat /\ Len(s) \in Nat \ {0} /\ s[1] \in S
  OBVIOUS
<1>2. /\ Tail(s) \in Seq(S) /\ Len(Tail(s)) = Len(s) - 1
      /\ \A j \in 1..(Len(s) - 1) : Tail(s)[j] = s[j + 1]
  BY <1>1, HeadTailProperties
<1>3. Tail(s) = [j \in 1..(Len(s) - 1) |-> Tail(s)[j]]
  <2> DEFINE t == Tail(s)
             N == Len(s) - 1
  <2>1. t \in Seq(S) /\ Len(t) = N
    BY <1>2
  <2> HIDE DEF t, N
  <2>2. t = [j \in 1..N |-> t[j]]
    BY <2>1
  <2> QED BY <2>2 DEF t, N
<1>4. s = << s[1] >> \o Tail(s)
  OBVIOUS
<1> QED BY <1>1, <1>2, <1>3, <1>4

(* The paths the code writes out are paths. *)
LEMMA PathsAre ==
    /\ Seq(Seq(STRING)) \subseteq PathSet
    /\ Seq(Plains) \subseteq PathSet
    /\ Dot \in Seq(Letters) /\ DotDot \in Seq(Letters)
    /\ EmptyPath \in PathSet /\ Slash \in PathSet
<1>1. Seq(STRING) \subseteq Seq(Letters)
  <2>1. STRING \subseteq Letters
    BY DEF Letters
  <2> QED BY <2>1, SeqGrows
<1>2. Plains \subseteq Seq(Letters)
  BY DEF Plains
<1>3. EmptyPath \in PathSet /\ Slash \in PathSet
  <2>1. <<>> \in Seq(Letters)
    OBVIOUS
  <2> QED BY <2>1 DEF EmptyPath, Slash, PathSet
<1>4. Dot \in Seq(Letters) /\ DotDot \in Seq(Letters)
  <2>1. "." \in Letters
    BY DEF Letters
  <2> QED BY <2>1 DEF Dot, DotDot
<1> QED BY <1>1, <1>2, <1>3, <1>4, SeqGrows DEF PathSet

(* What Clean returns is a path again. *)
LEMMA CleanIn ==
    ASSUME NEW s \in PathSet
    PROVE  Clean(s) \in PathSet
<1>1. Len(s) \in Nat /\ \A j \in 1..Len(s) : s[j] \in Seq(Letters)
  BY DEF PathSet
<1>2. PICK out : CleanSteps(s, out)
  BY <1>1, CleanLoop
<1> DEFINE A == {j \in 0..Len(s) : out[j] \in PathSet}
<1>3. 0 \in A
  <2>1. out[0] = <<>> /\ <<>> \in PathSet
    BY <1>2 DEF CleanSteps, PathSet
  <2>2. 0 \in 0..Len(s)
    BY <1>1
  <2> QED BY <2>1, <2>2
<1>4. ASSUME NEW j \in 0..(Len(s) - 1), j \in A PROVE j + 1 \in A
  <2>1. j + 1 \in 1..Len(s) /\ (j + 1) - 1 = j /\ j + 1 \in 0..Len(s)
    BY <1>1
  <2> DEFINE o == out[j]
             e == s[j + 1]
  <2>2. out[j + 1] = IF e \in {<<>>, Dot} THEN o ELSE IF e = DotDot THEN UpFrom(s, o) ELSE Append(o, e)
    BY <1>2, <2>1 DEF CleanSteps
  <2>3. o \in PathSet /\ e \in Seq(Letters)
    BY <1>1, <1>4, <2>1
  <2> HIDE DEF o, e
  <2>4. UpFrom(s, o) \in PathSet
    <3>1. Append(o, DotDot) \in PathSet
      BY <2>3, PathsAre DEF PathSet
    <3>2. o # <<>> => Front(o) \in PathSet
      BY <2>3 DEF Front, PathSet
    <3> QED BY <2>3, <3>1, <3>2 DEF UpFrom
  <2>5. Append(o, e) \in PathSet
    BY <2>3 DEF PathSet
  <2>6. out[j + 1] \in PathSet
    BY <2>2, <2>3, <2>4, <2>5
  <2> QED BY <2>1, <2>6
<1>5. 0..Len(s) \subseteq A
  <2>1. 0 \in Nat
    OBVIOUS
  <2> HIDE DEF A
  <2> QED BY <1>1, <1>3, <1>4, <2>1, InductionUp
<1>6. Len(s) \in 0..Len(s)
  BY <1>1
<1> DEFINE x == out[Len(s)]
<1>7. x \in PathSet
  BY <1>5, <1>6
<1>8. Clean(s) = IF IsRooted(s) THEN Rooted(x) ELSE IF x = <<>> THEN <<Dot>> ELSE x
  BY <1>2 DEF CleanSteps
<1> HIDE DEF x
<1>9. Rooted(x) \in PathSet
  <2>1. << <<>> >> \in PathSet
    BY PathsAre DEF EmptyPath
  <2>2. Cat(<< <<>> >>, x) \in PathSet
    BY <1>7, <2>1, CatIn DEF PathSet
  <2> QED BY <2>2, PathsAre DEF Rooted, Cat
<1>10. <<Dot>> \in PathSet
  BY PathsAre DEF PathSet
<1> QED BY <1>7, <1>8, <1>9, <1>10

(* What path.Join returns is a path. *)
LEMMA JoinIn ==
    ASSUME NEW path \in PathSet, NEW name \in Seq(Letters)
    PROVE  Join(path, name) \in PathSet
<1> DEFINE t == <<name>>
<1>1. t \in PathSet
  BY DEF PathSet
<1> HIDE DEF t
<1>2. Cat(path, t) \in PathSet
  BY <1>1, CatIn DEF PathSet
<1>3. Clean(path) \in PathSet /\ Clean(t) \in PathSet /\ Clean(Cat(path, t)) \in PathSet
  BY <1>1, <1>2, CleanIn
<1> QED BY <1>3, PathsAre DEF Join, JoinPaths, Cat, t

(* Names that make the same path after the same names are the same. *)
LEMMA CatCancels ==
    ASSUME NEW a \in Seq(Plains), NEW b \in Seq(Plains), NEW c \in Seq(Plains), Cat(a, b) = Cat(a, c)
    PROVE  b = c
<1> DEFINE K == Len(a)
           x == Cat(a, b)
           y == Cat(a, c)
<1>1. /\ Len(x) = K + Len(b) /\ K \in Nat /\ Len(b) \in Nat
      /\ \A j \in 1..Len(b) : x[K + j] = b[j]
  BY CatPlains
<1>2. /\ Len(y) = K + Len(c) /\ Len(c) \in Nat
      /\ \A j \in 1..Len(c) : y[K + j] = c[j]
  BY CatPlains
<1>3. x = y
  OBVIOUS
<1> HIDE DEF K, x, y
<1>4. Len(b) = Len(c)
  BY <1>1, <1>2, <1>3
<1>5. \A j \in 1..Len(b) : b[j] = c[j]
  BY <1>1, <1>2, <1>3, <1>4
<1> QED BY <1>4, <1>5

(* One name goes over from what is left of the path to what was walked. *)
LEMMA CatMoves ==
    ASSUME NEW S, NEW a \in Seq(S), NEW rest \in Seq(S), rest # <<>>
    PROVE  /\ rest[1] \in S /\ Tail(rest) \in Seq(S)
           /\ Cat(Append(a, rest[1]), Tail(rest)) = Cat(a, rest)
<1> DEFINE t == <<rest[1]>>
           r == Tail(rest)
<1>1. rest[1] \in S /\ r \in Seq(S) /\ t \in Seq(S)
  OBVIOUS
<1>2. Cat(t, r) = rest
  <2>1. rest = t \o r
    OBVIOUS
  <2> QED BY <2>1 DEF Cat
<1>3. Append(a, rest[1]) = Cat(a, t)
  <2>1. Append(a, rest[1]) = a \o t
    OBVIOUS
  <2> QED BY <2>1 DEF Cat
<1> HIDE DEF t, r
<1>4. Cat(Cat(a, t), r) = Cat(a, Cat(t, r))
  BY <1>1, CatAssociates
<1>5. Cat(Append(a, rest[1]), r) = Cat(a, rest)
  BY <1>2, <1>3, <1>4
<1> QED BY <1>1, <1>5 DEF r
(* The names of the directories that lead to the one that was backed up. *)
RootNames == IF RealRoot = Slash THEN <<>> ELSE Tail(RealRoot)

(* The path of the backup, with its "%20" read as spaces, is one of names  *)
(* from the root.                                                          *)
LEMMA RootIs ==
    ASSUME backup \in CommitsRead
    PROVE  RealRoot \in PathSet /\ RootNames \in Seq(Plains) /\ RealRoot = Rooted(RootNames)
<1> DEFINE p == backup.location.path
           R == RealRoot
           N == Len(p)
           Is(j) == [k \in DOMAIN p[j] |-> IF p[j][k] = "%20" THEN " " ELSE p[j][k]]
<1>1. p \in Seq(Seq(STRING)) /\ IsAbsolute(p)
  <2>1. PICK b \in Backups : backup.location = b.location
    BY DEF CommitsRead
  <2>2. b.location \in [computer : STRING, path : Seq(Seq(STRING))] /\ IsAbsolute(b.location.path)
    BY FindNodeAssumption DEF FindNodeAssumption
  <2> QED BY <2>1, <2>2
<1>2. R = [j \in DOMAIN p |-> Is(j)]
  BY DEF RealRoot
<1>3. N \in Nat /\ N > 1 /\ p[1] = <<>> /\ DOMAIN p = 1..N /\ (\A j \in 1..N : p[j] \in Seq(STRING))
      /\ (p = Slash \/ \A j \in 2..N : IsPlain(p[j]))
  BY <1>1 DEF IsAbsolute
<1> HIDE DEF p, R, N
<1>4. ASSUME NEW w \in Seq(STRING), NEW v, v = [k \in DOMAIN w |-> IF w[k] = "%20" THEN " " ELSE w[k]]
      PROVE  v \in Seq(Letters) /\ (w = <<>> => v = <<>>) /\ (IsPlain(w) => IsPlain(v))
  <2> DEFINE M == Len(w)
  <2>1. M \in Nat /\ DOMAIN w = 1..M /\ (\A k \in 1..M : w[k] \in STRING) /\ w = [k \in 1..M |-> w[k]]
    OBVIOUS
  <2>0. (w = <<>> <=> M = 0) /\ (w = Dot <=> M = 1 /\ w[1] = ".") /\ (w = DotDot <=> M = 2 /\ w[1] = "." /\ w[2] = ".")
    BY DEF Dot, DotDot
  <2> HIDE DEF M
  <2>2. \A k \in 1..M : v[k] = (IF w[k] = "%20" THEN " " ELSE w[k]) /\ v[k] \in Letters
    BY <1>4, <2>1 DEF Letters
  <2>3. v = [k \in 1..M |-> v[k]]
    BY <1>4, <2>1
  <2>4. v \in Seq(Letters) /\ Len(v) = M
    BY <2>1, <2>2, <2>3, SeqIs
  <2>5. w = <<>> => v = <<>>
    BY <2>0, <2>4
  <2>6. v = <<>> => w = <<>>
    BY <2>0, <2>4
  <2>7. v = Dot => w = Dot
    <3>1. SUFFICES ASSUME v = Dot PROVE w = Dot
      OBVIOUS
    <3>2. Len(v) = 1 /\ v[1] = "."
      BY <3>1 DEF Dot
    <3>3. 1 \in 1..M
      BY <2>4, <3>2
    <3>4. v[1] # " "
      BY <3>2
    <3> QED BY <2>0, <2>2, <2>4, <3>2, <3>3, <3>4
  <2>8. v = DotDot => w = DotDot
    <3>1. SUFFICES ASSUME v = DotDot PROVE w = DotDot
      OBVIOUS
    <3>2. Len(v) = 2 /\ v[1] = "." /\ v[2] = "."
      BY <3>1 DEF DotDot
    <3>3. 1 \in 1..M /\ 2 \in 1..M
      BY <2>4, <3>2
    <3>4. v[1] # " " /\ v[2] # " "
      BY <3>2
    <3> QED BY <2>0, <2>2, <2>4, <3>2, <3>3, <3>4
  <2> QED BY <2>4, <2>5, <2>6, <2>7, <2>8 DEF IsPlain
<1>5. \A j \in 1..N : R[j] = Is(j)
  BY <1>2, <1>3
<1> HIDE DEF Is
<1>6. \A j \in 1..N : /\ R[j] \in Seq(Letters)
                      /\ p[j] = <<>> => R[j] = <<>>
                      /\ IsPlain(p[j]) => IsPlain(R[j])
  BY <1>3, <1>4, <1>5 DEF Is
<1>7. R \in PathSet /\ Len(R) = N
  <2>1. R = [j \in 1..N |-> R[j]]
    BY <1>2, <1>3
  <2> QED BY <1>3, <1>6, <2>1 DEF PathSet
<1>8. R[1] = <<>>
  BY <1>3, <1>6
<1>9. CASE p = Slash
  <2>1. N = 2 /\ p[2] = <<>>
    BY <1>9 DEF Slash, N
  <2>2. R[2] = <<>> /\ Len(R) = 2
    BY <1>6, <1>7, <2>1
  <2>3. R = Slash
    <3> DEFINE z == Slash
    <3>1. z \in PathSet /\ Len(z) = 2 /\ z[1] = <<>> /\ z[2] = <<>>
      <4>1. z \in PathSet
        BY PathsAre
      <4>2. Len(z) = 2 /\ z[1] = <<>> /\ z[2] = <<>>
        BY DEF Slash
      <4> QED BY <4>1, <4>2
    <3> HIDE DEF z
    <3>2. \A j \in 1..2 : R[j] = z[j]
      BY <1>8, <2>2, <3>1
    <3>3. R = z
      BY <1>7, <2>2, <3>1, <3>2, SeqSame DEF PathSet
    <3> QED BY <3>3 DEF z
  <2>4. RootNames = <<>> /\ Rooted(<<>>) = Slash /\ <<>> \in Seq(Plains)
    BY <2>3 DEF RootNames, R, Rooted
  <2> QED BY <1>7, <2>3, <2>4 DEF R
<1>10. CASE p # Slash
  <2>1. \A j \in 2..N : R[j] \in Plains
    BY <1>3, <1>6, <1>10 DEF Plains
  <2>2. R # Slash
    <3>1. 2 \in 2..N /\ Slash[2] = <<>>
      BY <1>3 DEF Slash
    <3>2. R[2] # <<>>
      BY <2>1, <3>1, PlainIs
    <3> QED BY <3>1, <3>2
  <2> DEFINE q == Tail(R)
  <2>3. q \in Seq(Plains) /\ q # <<>> /\ R = << <<>> >> \o q
    <3>5. R # <<>>
      BY <1>3, <1>7
    <3>1. Len(q) = N - 1 /\ N - 1 \in Nat /\ q = [j \in 1..(N - 1) |-> q[j]]
          /\ \A j \in 1..(N - 1) : q[j] = R[j + 1]
      BY <1>7, <3>5, TailIs DEF PathSet
    <3>2. R = << R[1] >> \o q
      BY <1>7, <3>5, TailIs DEF PathSet
    <3> HIDE DEF q
    <3>3. \A j \in 1..(N - 1) : q[j] \in Plains
      <4>1. \A j \in 1..(N - 1) : j + 1 \in 2..N
        BY <1>3
      <4> QED BY <2>1, <3>1, <4>1
    <3>6. q \in Seq(Plains)
      BY <3>1, <3>3, SeqIs
    <3>4. q \in Seq(Plains) /\ q # <<>>
      BY <1>3, <3>1, <3>6
    <3> QED BY <1>8, <3>2, <3>4
  <2>4. RootNames = q
    BY <2>2 DEF RootNames, R
  <2> HIDE DEF q
  <2> QED BY <1>7, <2>3, <2>4 DEF R, Rooted
<1> QED BY <1>9, <1>10

(* The names on the path of a node. *)
NamesAt(root, n) == Cat(root, NamesTo(n))

(* The path of a node is that of the backup and the names on its way. *)
LEMMA NodePath ==
    ASSUME backup \in CommitsRead, NEW n \in Node
    PROVE  /\ NamesAt(RootNames, n) \in Seq(Plains) /\ PathOf(n) = Rooted(NamesAt(RootNames, n))
           /\ NamesTo(n) \in Seq(Plains) /\ RootNames \in Seq(Plains)
<1>1. RootNames \in Seq(Plains) /\ NamesTo(n) \in Seq(Plains)
  BY RootIs, NamesToIs
<1>2. NamesAt(RootNames, n) \in Seq(Plains)
  BY <1>1, CatIn DEF NamesAt
<1>3. CASE RealRoot = Slash
  <2>1. RootNames = <<>> /\ PathOf(n) = Rooted(NamesTo(n))
    BY <1>3 DEF RootNames, PathOf
  <2>2. NamesAt(RootNames, n) = NamesTo(n)
    BY <1>1, <2>1, CatEmpty DEF NamesAt
  <2> QED BY <1>1, <1>2, <2>1, <2>2
<1>4. CASE RealRoot # Slash
  <2>1. RealRoot = Rooted(RootNames)
    BY RootIs
  <2>2. RootNames # <<>>
    BY <1>4, <2>1 DEF Rooted
  <2> DEFINE a == << <<>> >>
             r == RootNames
             m == NamesTo(n)
             c == NamesAt(RootNames, n)
  <2>3. a \in PathSet /\ r \in PathSet /\ m \in PathSet
    BY <1>1, PathsAre DEF EmptyPath
  <2>4. PathOf(n) = Cat(Cat(a, r), m)
    BY <1>4, <2>1, <2>2 DEF PathOf, Rooted, Cat
  <2>5. c = Cat(r, m)
    BY DEF NamesAt
  <2> HIDE DEF a, r, m, c
  <2>6. Cat(Cat(a, r), m) = Cat(a, c)
    BY <2>3, <2>5, CatAssociates DEF PathSet
  <2>7. c # <<>>
    <3>1. Len(c) = Len(r) + Len(m) /\ Len(r) \in Nat \ {0} /\ Len(m) \in Nat
      BY <1>1, <2>2, <2>5, CatPlains DEF r, m
    <3> QED BY <3>1
  <2>8. Rooted(c) = Cat(a, c)
    BY <2>7 DEF Rooted, Cat, a
  <2> QED BY <1>1, <1>2, <2>4, <2>6, <2>8 DEF c
<1> QED BY <1>3, <1>4

(* To be at the path of a node is to have these names. *)
LEMMA AtNode ==
    ASSUME backup \in CommitsRead, NEW n \in Node, NEW path
    PROVE  IsAt(path, n) <=> AtNames(path, NamesAt(RootNames, n))
BY NodePath DEF IsAt, AtNames

(* No two nodes are at one path. *)
LEMMA NodeAt ==
    ASSUME backup \in CommitsRead, NEW n \in Node, NEW m \in Node, NEW path,
           AtNames(path, NamesAt(RootNames, n)), AtNames(path, NamesAt(RootNames, m))
    PROVE  n = m
<1>1. NamesAt(RootNames, n) = NamesAt(RootNames, m)
  BY NodePath, AtInjective
<1>2. NamesTo(n) = NamesTo(m)
  BY <1>1, NodePath, CatCancels DEF NamesAt
<1> QED BY <1>2, NamesInjective

(* The path of the root is that of the backup. *)
LEMMA RootAt ==
    ASSUME backup \in CommitsRead
    PROVE  NamesAt(RootNames, Root) = RootNames /\ Root \in Directory /\ Root \in Node /\ PathNodes(Root) = {Root}
<1>1. Root \in Directory /\ Root \in Node /\ Path[Root] = <<Root>>
  BY FindNodeAssumption DEF FindNodeAssumption
<1>2. NamesTo(Root) \in Seq(Plains) /\ Len(NamesTo(Root)) = Len(Path[Root]) - 1
  BY <1>1, NamesToIs
<1>3. Len(<<Root>>) = 1
  OBVIOUS
<1>4. Len(NamesTo(Root)) = 0
  BY <1>1, <1>2, <1>3
<1>5. NamesTo(Root) = <<>>
  BY <1>2, <1>4
<1> QED BY <1>1, <1>5, RootIs, CatEmpty, PathNodesOf DEF NamesAt

(* To append an element is to join a sequence of it. *)
LEMMA AppendCat ==
    ASSUME NEW S, NEW s \in Seq(S), NEW x \in S
    PROVE  Append(s, x) = Cat(s, <<x>>)
BY AppendIsConcat DEF Cat

(* The names on the path of a node in a directory. *)
LEMMA ChildAt ==
    ASSUME backup \in CommitsRead, NEW d \in Directory, NEW n \in ChildrenOf(d)
    PROVE  NamesAt(RootNames, n) = Append(NamesAt(RootNames, d), Name[n]) /\ Name[n] \in Plains
<1>1. /\ n \in Node /\ d \in Node /\ Name[n] \in Plains /\ NamesTo(n) = Append(NamesTo(d), Name[n])
  BY ChildPath, NamesToChild
<1>2. RootNames \in Seq(Plains) /\ NamesTo(d) \in Seq(Plains)
  BY <1>1, NodePath
<1> DEFINE r == RootNames
           u == NamesTo(d)
           t == << Name[n] >>
<1>3. t \in Seq(Plains)
  BY <1>1
<1>4. Append(u, Name[n]) = Cat(u, t) /\ Append(Cat(r, u), Name[n]) = Cat(Cat(r, u), t)
  <2>1. Cat(r, u) \in Seq(Plains)
    BY <1>2, CatIn
  <2> QED BY <1>1, <1>2, <2>1, AppendCat
<1> HIDE DEF t, u, r
<1>5. Cat(Cat(r, u), t) = Cat(r, Cat(u, t))
  BY <1>2, <1>3, CatAssociates DEF r, u
<1> QED BY <1>1, <1>4, <1>5 DEF NamesAt, r, u

(* DownloadTree asks for each node of a directory under the path of that   *)
(* node.                                                                   *)
LEMMA JoinChild ==
    ASSUME backup \in CommitsRead, NEW d \in Directory, NEW n \in ChildrenOf(d),
           NEW path, AtNames(path, NamesAt(RootNames, d))
    PROVE  Join(path, Name[n]) = Rooted(NamesAt(RootNames, n))
<1>1. NamesAt(RootNames, d) \in Seq(Plains)
  BY ChildPath, NodePath
<1>2. Name[n] \in Plains /\ NamesAt(RootNames, n) = Append(NamesAt(RootNames, d), Name[n])
  BY ChildAt
<1>3. Join(path, Name[n]) = Rooted(Append(NamesAt(RootNames, d), Name[n]))
  BY <1>1, <1>2, JoinAt
<1> QED BY <1>2, <1>3

(* A path under the directory that was backed up, of names. *)
OnPath(root, path) == \E rest \in Seq(Plains) : AtNames(path, Cat(root, rest))

(* The path of a node is under that of the backup. *)
LEMMA NodeOn ==
    ASSUME backup \in CommitsRead, NEW n \in Node, NEW path, AtNames(path, NamesAt(RootNames, n))
    PROVE  OnPath(RootNames, path)
BY NodePath DEF OnPath, NamesAt

(* Every path under that of the backup has it as a prefix, as FindNode     *)
(* demands.                                                                *)
LEMMA PrefixOn ==
    ASSUME backup \in CommitsRead, NEW path, OnPath(RootNames, path)
    PROVE  HasPrefix(path, RealRoot)
<1>1. PICK rest \in Seq(Plains) : AtNames(path, Cat(RootNames, rest))
  BY DEF OnPath
<1>2. RootNames \in Seq(Plains) /\ RealRoot = Rooted(RootNames)
  BY RootIs
<1> QED BY <1>1, <1>2, Trimmed

(* Where a node at a path is, seen from another on the way there. *)
LEMMA WayOn ==
    ASSUME backup \in CommitsRead, NEW n \in Node, NEW a \in Node, NEW rest \in Seq(Plains), NEW path,
           AtNames(path, NamesAt(RootNames, n)), AtNames(path, Cat(NamesAt(RootNames, a), rest))
    PROVE  /\ rest = <<>> => n = a
           /\ rest # <<>> => /\ a \in Directory /\ a \in PathNodes(n) \ {n}
                             /\ \E c \in ChildrenOf(a) : Name[c] = rest[1] /\ c \in PathNodes(n)
<1>1. /\ NamesAt(RootNames, a) \in Seq(Plains) /\ NamesAt(RootNames, n) \in Seq(Plains) /\ NamesTo(a) \in Seq(Plains)
      /\ NamesTo(n) \in Seq(Plains) /\ RootNames \in Seq(Plains)
  BY NodePath
<1>2. Cat(NamesAt(RootNames, a), rest) \in Seq(Plains)
  BY <1>1, CatIn
<1>3. NamesAt(RootNames, n) = Cat(NamesAt(RootNames, a), rest)
  BY <1>1, <1>2, AtInjective
<1>4. Cat(NamesAt(RootNames, a), rest) = Cat(RootNames, Cat(NamesTo(a), rest))
  BY <1>1, CatAssociates DEF NamesAt
<1>5. Cat(NamesTo(a), rest) \in Seq(Plains)
  BY <1>1, CatIn
<1>6. NamesTo(n) = Cat(NamesTo(a), rest)
  BY <1>1, <1>3, <1>4, <1>5, CatCancels DEF NamesAt
<1>7. rest = <<>> => n = a
  BY <1>1, <1>6, CatEmpty, NamesInjective
<1>8. rest \in Seq(Seq(Letters))
  BY PathsAre DEF PathSet
<1> QED BY <1>6, <1>7, <1>8, NamesGoOn

(* A path that path.Clean leaves as it is, and that is within the path of  *)
(* the backup, is one of names under it.                                   *)
LEMMA ProperOn ==
    ASSUME backup \in CommitsRead, NEW path \in PathSet, Proper(path), HasPrefix(path, RealRoot)
    PROVE  OnPath(RootNames, path)
<1> DEFINE r == RootNames
           R == RealRoot
           K == Len(r)
<1>1. R \in PathSet /\ r \in Seq(Plains) /\ R = Rooted(r) /\ (R = Slash <=> r = <<>>)
  BY RootIs, RootedShape
<1>2. /\ Len(R) = (IF r = <<>> THEN 2 ELSE K + 1) /\ R[1] = <<>> /\ K \in Nat
      /\ \A j \in 1..K : R[j + 1] = r[j]
  BY <1>1, RootedShape
<1>3. R = Slash \/ IsPrefix(R, path)
  BY DEF Proper
<1>4. HasPrefix(path, R)
  OBVIOUS
<1>14. path \in {Clean(path), Append(Clean(path), <<>>)}
  BY DEF Proper
<1> HIDE DEF r, R, K
<1>5. Len(path) \in Nat /\ Len(R) \in Nat /\ Len(R) > 1 /\ Len(R) <= Len(path)
  <2>1. Len(R) <= Len(path)
    BY <1>4 DEF HasPrefix
  <2>2. r # <<>> => K # 0
    BY <1>1 DEF K
  <2> QED BY <1>2, <2>1, <2>2 DEF PathSet
<1>6. path[1] = <<>>
  <2>1. CASE R = Slash
    <3> DEFINE e == <<>>
    <3>5. Len(Slash) = 2 /\ Front(Slash) = SubSeq(<<e, e>>, 1, 1)
      BY DEF Slash, Front
    <3> HIDE DEF e
    <3>6. SubSeq(<<e, e>>, 1, 1) = <<e>>
      <4> DEFINE z == <<e, e>>
      <4>1. z \in Seq({e}) /\ Len(z) = 2 /\ z[1] = e
        OBVIOUS
      <4> HIDE DEF z
      <4>2. SubSeq(z, 1, 1) \in Seq({e}) /\ Len(SubSeq(z, 1, 1)) = 1 /\ SubSeq(z, 1, 1)[1] = e
        BY <4>1
      <4> DEFINE y == SubSeq(z, 1, 1)
      <4> HIDE DEF y
      <4> DEFINE x == <<e>>
      <4>4. x \in Seq({e}) /\ Len(x) = 1 /\ x[1] = e
        OBVIOUS
      <4> HIDE DEF x
      <4>5. \A i \in 1..1 : y[i] = x[i]
        BY <4>2, <4>4 DEF y
      <4>3. y = <<e>>
        BY <4>2, <4>4, <4>5, SeqSame DEF y, x
      <4> QED BY <4>3 DEF y, z
    <3>1. Len(Slash) = 2 /\ Front(Slash) = << <<>> >>
      BY <3>5, <3>6 DEF e
    <3>2. << <<>> >> = SubSeq(path, 1, 2 - 1)
      BY <1>4, <2>1, <3>1 DEF HasPrefix
    <3>3. SubSeq(path, 1, 1)[1] = path[1]
      BY <1>5 DEF PathSet
    <3>4. << <<>> >>[1] = <<>>
      OBVIOUS
    <3> QED BY <3>2, <3>3, <3>4
  <2>2. CASE IsPrefix(R, path)
    <3>1. SubSeq(R, 1, Len(R)) = SubSeq(path, 1, Len(R))
      BY <2>2 DEF IsPrefix
    <3>2. SubSeq(R, 1, Len(R))[1] = R[1] /\ SubSeq(path, 1, Len(R))[1] = path[1]
      BY <1>1, <1>5 DEF PathSet
    <3> QED BY <1>2, <3>1, <3>2
  <2> QED BY <1>3, <2>1, <2>2
<1>7. IsRooted(path)
  BY <1>5, <1>6 DEF IsRooted
<1>8. PICK names \in Seq(Plains) : Clean(path) = Rooted(names)
  BY <1>7, CleanRooted DEF PathSet
<1>9. AtNames(path, names)
  BY <1>8, <1>14 DEF AtNames
<1> DEFINE L == Len(names)
<1>10. PICK g \in 0..2 :
                /\ path \in Seq(Seq(Letters)) /\ Len(path) = 1 + L + g
                /\ \A j \in 1..L : path[1 + j] = names[j]
                /\ \A j \in 1..g : path[1 + L + j] = <<>>
  BY <1>9, AtShape
<1>11. CASE R = Slash
  <2>1. r = <<>>
    BY <1>1, <1>11
  <2>2. Cat(r, names) = names
    BY <2>1, CatEmpty
  <2> QED BY <1>9, <2>2 DEF OnPath, r
<1>12. CASE R # Slash
  <2>1. L \in Nat /\ K > 0 /\ Len(R) = K + 1
    BY <1>1, <1>2, <1>12 DEF K
  <2> HIDE DEF L
  <2>2. \A j \in 1..K : path[j + 1] = r[j]
    <3>1. SubSeq(R, 1, K + 1) = SubSeq(path, 1, K + 1)
      BY <1>3, <1>12, <2>1 DEF IsPrefix
    <3>2. ASSUME NEW j \in 1..K PROVE path[j + 1] = r[j]
      <4>1. j + 1 \in 1..(K + 1) /\ K + 1 \in Nat
        BY <1>2
      <4> DEFINE M == K + 1
                 i == j + 1
      <4>2. i \in 1..M /\ M \in Nat /\ M = Len(R) /\ M <= Len(path)
        BY <1>5, <2>1, <4>1
      <4> HIDE DEF M, i
      <4>3. SubSeq(R, 1, M)[i] = R[i]
        BY <1>1, <4>2 DEF PathSet
      <4>4. SubSeq(path, 1, M)[i] = path[i]
        BY <1>5, <4>2 DEF PathSet
      <4>5. path[i] = R[i]
        BY <3>1, <4>3, <4>4 DEF M
      <4> QED BY <1>2, <4>5 DEF i
    <3> QED BY <3>2
  <2>3. ~(K > L)
    <3>1. SUFFICES ASSUME K > L PROVE FALSE
      OBVIOUS
    <3>8. Len(path) = 1 + L + g /\ g \in Nat
      BY <1>10
    <3>9. K \in Nat /\ K + 1 <= Len(path)
      BY <1>2, <1>5, <2>1
    <3>7. Len(path) = 1 + L + g /\ g \in Nat /\ K \in Nat /\ K + 1 <= Len(path)
      BY <3>8, <3>9
    <3>2. L + 1 \in 1..K /\ 1 \in 1..g /\ (L + 1) + 1 = 1 + L + 1
      BY <2>1, <3>1, <3>7
    <3>3. path[1 + L + 1] = <<>>
      BY <1>10, <3>2
    <3>4. path[(L + 1) + 1] = r[L + 1]
      BY <2>2, <3>2
    <3>5. r[L + 1] \in Plains
      BY <1>1, <3>2, PlainsAre DEF K
    <3>6. r[L + 1] = <<>>
      BY <3>2, <3>3, <3>4
    <3> QED BY <3>5, <3>6, PlainIs
  <2>4. \A j \in 1..K : names[j] = r[j]
    <3>1. ASSUME NEW j \in 1..K PROVE names[j] = r[j]
      <4>1. j \in 1..L /\ 1 + j = j + 1
        BY <1>2, <2>1, <2>3
      <4> QED BY <1>10, <2>2, <4>1
    <3> QED BY <3>1
  <2> DEFINE rest == SubSeq(names, K + 1, L)
  <2>5. rest \in Seq(Plains) /\ Len(rest) = L - K /\ \A j \in 1..(L - K) : rest[j] = names[K + j]
    <3>1. names \in Seq(Plains) /\ Len(names) = L /\ K <= L /\ K \in Nat /\ L \in Nat
      BY <1>2, <2>1, <2>3 DEF L
    <3> QED BY <3>1
  <2> HIDE DEF rest
  <2>6. Cat(r, rest) = names
    <3> DEFINE c == Cat(r, rest)
    <3>1. /\ c \in Seq(Plains) /\ Len(c) = K + Len(rest)
          /\ \A j \in 1..K : c[j] = r[j]
          /\ \A j \in 1..Len(rest) : c[K + j] = rest[j]
      BY <1>1, <2>5, CatPlains DEF K
    <3> HIDE DEF c
    <3>2. Len(c) = L
      BY <1>2, <2>1, <2>3, <2>5, <3>1
    <3>3. ASSUME NEW i \in 1..L PROVE c[i] = names[i]
      <4>1. CASE i <= K
        <5>1. i \in 1..K
          BY <1>2, <4>1
        <5> QED BY <2>4, <3>1, <5>1
      <4>2. CASE ~(i <= K)
        <5>1. i - K \in 1..(L - K) /\ K + (i - K) = i
          BY <1>2, <2>1, <4>2
        <5>2. c[K + (i - K)] = rest[i - K] /\ rest[i - K] = names[K + (i - K)]
          BY <2>5, <3>1, <5>1
        <5> QED BY <5>1, <5>2
      <4> QED BY <4>1, <4>2
    <3>4. c = names
      BY <3>1, <3>2, <3>3, SeqSame DEF L
    <3> QED BY <3>4 DEF c
  <2> QED BY <1>9, <2>5, <2>6 DEF OnPath, r
<1> QED BY <1>11, <1>12

--------------------------------------------------------------------------------
(***************************************************************************)
(* What FindNode holds: the types, the node, its hash and its tree. The    *)
(* last three keep each other.                                             *)
(***************************************************************************)

(* Calls of DownloadTree, each on a directory that FindNode could walk to. *)
CallsOver(gone) ==
    {c \in [path : PathSet, directory : Directory, rest : Seq(Node)] :
        /\ PathNodes(c.directory) \cap gone = {}
        /\ \A m \in DOMAIN c.rest : c.rest[m] \in ChildrenOf(c.directory)}

Walking == {"tree", "walk", "found", "copy"}

TypeInv ==
    /\ backup \in CommitsRead /\ lost \subseteq Directory \cup Blob \cup {Commit}
    /\ command \in {"recover", "list"} /\ source \in PathSet /\ targetPath \in PathSet
    /\ accident \in BOOLEAN /\ copied \in Nat
    /\ disk \in [Node -> {"absent", "directory", "partial", "complete"}]
    /\ at \in {"loop", "commit", "tree", "walk", "found", "missing", "copy"} \cup Ended
    /\ stack \in Seq(CallsOver(lost))
    /\ at = "loop" => stack # <<>>

NodeInv ==
    /\ currentNode = Nil \/ \E n \in Node : currentNode = NodeOf(n)
    /\ at = "commit" => currentNode = Nil

HashInv ==
    /\ currentHash \in Directory \cup Blob \cup {Nil}
    /\ at \in Walking =>
            /\ IF FoundNode \in Directory THEN currentHash = FoundNode ELSE currentHash \in Blob
            /\ (PathNodes(FoundNode) \ {FoundNode}) \cap lost = {}

TreeInv ==
    /\ at \in {"walk", "found", "copy"} /\ tree # Nil =>
            /\ FoundNode \in Directory \ lost
            /\ tree = NodesIn(FoundNode)
            /\ ~TooOld(backup.tree, FoundNode)
    /\ at \in {"walk", "found"} /\ tree = Nil /\ ~accident => FoundNode \notin Directory \ lost
    /\ at = "copy" =>
            /\ FoundNode \notin Directory /\ currentNode # Nil
            /\ copied \in 0..Len(currentNode.keys) /\ command = "recover"

FetchInv == TypeInv /\ NodeInv /\ HashInv /\ TreeInv

(* The node FindNode is at, and what currentNode says of it. *)
LEMMA FoundIs ==
    ASSUME NodeInv
    PROVE  /\ FoundNode \in Node
           /\ currentNode = Nil => FoundNode = Root
           /\ currentNode # Nil => /\ currentNode = NodeOf(FoundNode)
                                   /\ currentNode.isTree <=> FoundNode \in Directory
                                   /\ currentNode.keys = KeysOf(FoundNode)
                                   /\ currentNode.name = FoundNode
<1>1. CASE currentNode = Nil
  <2>1. Root \in Node
    BY FindNodeAssumption DEF FindNodeAssumption
  <2> QED BY <1>1, <2>1 DEF FoundNode
<1>2. CASE currentNode # Nil
  <2>1. PICK n \in Node : currentNode = NodeOf(n)
    BY <1>2 DEF NodeInv
  <2>2. currentNode.name = n /\ (currentNode.isTree <=> n \in Directory) /\ currentNode.keys = KeysOf(n)
    BY <2>1 DEF NodeOf
  <2>3. FoundNode = n
    BY <1>2, <2>2 DEF FoundNode
  <2> QED BY <1>2, <2>1, <2>2, <2>3
<1> QED BY <1>1, <1>2

(* What DownloadTree and the listing take for a directory is one. *)
LEMMA FoundDirectoryIs ==
    ASSUME NodeInv, FoundDirectory
    PROVE  at = "found" /\ FoundNode \in Directory
<1>1. Root \in Directory
  BY FindNodeAssumption DEF FindNodeAssumption
<1> QED BY <1>1, FoundIs DEF FoundDirectory

(* What DownloadNode and the listing take for a file is one, and its keys  *)
(* are its blobs.                                                          *)
LEMMA FoundFileIs ==
    ASSUME NodeInv, FoundFile
    PROVE  /\ at = "found" /\ currentNode # Nil /\ FoundNode \in Node \ Directory
           /\ currentNode.keys = BlobsOf[FoundNode]
BY FoundIs DEF FoundFile, KeysOf

(* The nodes of a directory, and the one of each name. *)
LEMMA ChildrenAre ==
    ASSUME NEW d \in Directory
    PROVE  /\ Children[d] \in Seq(Node)
           /\ NamesOf(NodesIn(d)) = Children[d]
           /\ DOMAIN NodesIn(d) = DOMAIN Children[d]
           /\ \A j \in DOMAIN Children[d] : /\ NodesIn(d)[j] = NodeOf(Children[d][j])
                                            /\ NodesIn(d)[j].name = Children[d][j]
                                            /\ Children[d][j] \in ChildrenOf(d)
           /\ \A n \in ChildrenOf(d) : \E j \in DOMAIN Children[d] : n = Children[d][j]
<1>1. Children[d] \in Seq(Node)
  BY FindNodeAssumption DEF FindNodeAssumption
<1> DEFINE s == Children[d]
           N == Len(s)
           t == NodesIn(d)
<1>2. N \in Nat /\ DOMAIN s = 1..N /\ s = [j \in 1..N |-> s[j]]
  BY <1>1
<1>3. t = [j \in DOMAIN s |-> NodeOf(s[j])]
  BY DEF NodesIn
<1>4. \A n \in Node : NodeOf(n).name = n
  BY DEF NodeOf
<1>5. \A n \in ChildrenOf(d) : \E j \in DOMAIN Children[d] : n = Children[d][j]
  BY DEF ChildrenOf
<1>6. \A j \in DOMAIN s : s[j] \in ChildrenOf(d) /\ s[j] \in Node
  BY <1>1 DEF ChildrenOf
<1> HIDE DEF s, N, t
<1>7. DOMAIN t = DOMAIN s /\ \A j \in DOMAIN s : t[j] = NodeOf(s[j]) /\ t[j].name = s[j]
  BY <1>3, <1>4, <1>6
<1>8. NamesOf(t) = s
  <2>1. NamesOf(t) = [j \in DOMAIN s |-> t[j].name]
    BY <1>7 DEF NamesOf
  <2> QED BY <1>2, <1>7, <2>1
<1> QED BY <1>1, <1>5, <1>6, <1>7, <1>8 DEF s, t

(* The node of the next name is among the nodes of the tree, and only that *)
(* one.                                                                    *)
LEMMA MatchesAre ==
    ASSUME tree = NodesIn(FoundNode), FoundNode \in Directory
    PROVE  /\ \A c \in ChildrenOf(FoundNode) : Name[c] = nextPathElement => Matches # {}
           /\ Matches # {} => \E c \in ChildrenOf(FoundNode) :
                    tree[Max(Matches)] = NodeOf(c) /\ Name[c] = nextPathElement /\ Max(Matches) \in Matches
<1> DEFINE d == FoundNode
           s == Children[d]
<1>1. /\ DOMAIN tree = DOMAIN s
      /\ \A j \in DOMAIN s : tree[j] = NodeOf(s[j]) /\ tree[j].name = s[j] /\ s[j] \in ChildrenOf(d)
      /\ \A n \in ChildrenOf(d) : \E j \in DOMAIN s : n = s[j]
  BY ChildrenAre
<1>2. \A i, j \in DOMAIN s : Name[s[i]] = Name[s[j]] => i = j
  BY FindNodeAssumption DEF FindNodeAssumption
<1>3. DOMAIN s \subseteq Nat
  BY ChildrenAre
<1> HIDE DEF s, d
<1>4. \A j : j \in Matches <=> j \in DOMAIN s /\ Name[s[j]] = nextPathElement
  BY <1>1 DEF Matches
<1>5. ASSUME NEW c \in ChildrenOf(d), Name[c] = nextPathElement PROVE Matches # {}
  BY <1>1, <1>4, <1>5
<1>6. ASSUME Matches # {}
      PROVE  \E c \in ChildrenOf(d) :
                    tree[Max(Matches)] = NodeOf(c) /\ Name[c] = nextPathElement /\ Max(Matches) \in Matches
  <2>1. PICK m : m \in Matches
    BY <1>6
  <2>2. \A x \in Matches : x = m
    BY <1>2, <1>4, <2>1
  <2>3. m \in Nat
    BY <1>3, <1>4, <2>1
  <2>4. \A y \in Matches : m >= y
    BY <2>2, <2>3
  <2>5. Max(Matches) \in Matches
    BY <2>1, <2>4 DEF Max
  <2> DEFINE x == Max(Matches)
  <2> HIDE DEF x
  <2>6. x \in DOMAIN s /\ Name[s[x]] = nextPathElement
    BY <1>4, <2>5 DEF x
  <2>7. tree[x] = NodeOf(s[x]) /\ s[x] \in ChildrenOf(d)
    BY <1>1, <2>6
  <2> QED BY <2>5, <2>6, <2>7 DEF x
<1> QED BY <1>5, <1>6 DEF d

(* FindNode goes down to the child that has the next name. *)
LEMMA DescendsTo ==
    ASSUME TreeInv, Descend
    PROVE  /\ FoundNode \in Directory \ lost
           /\ \E c \in ChildrenOf(FoundNode) :
                    /\ currentNode' = NodeOf(c) /\ Name[c] = nextPathElement
                    /\ FoundNode' = c
                    /\ IF c \in Directory THEN currentHash' = c ELSE currentHash' \in Blob
<1>1. tree = NodesIn(FoundNode) /\ FoundNode \in Directory \ lost
  BY DEF TreeInv, Descend
<1>2. Matches # {} /\ ~Keyless /\ currentNode' = tree[Max(Matches)]
      /\ currentHash' = Head(tree[Max(Matches)].keys)
  BY DEF Descend
<1>3. PICK c \in ChildrenOf(FoundNode) :
          tree[Max(Matches)] = NodeOf(c) /\ Name[c] = nextPathElement /\ Max(Matches) \in Matches
  BY <1>1, <1>2, MatchesAre
<1>4. c \in Node /\ NodeOf(c) # Nil
  BY <1>1, <1>3, ChildPath, NodeOfIn
<1>5. NodeOf(c).name = c /\ NodeOf(c).keys = KeysOf(c)
  BY DEF NodeOf
<1>6. FoundNode' = c
  BY <1>2, <1>3, <1>4, <1>5 DEF FoundNode
<1>7. KeysOf(c) # <<>>
  BY <1>2, <1>3, <1>5 DEF Keyless
<1>8. IF c \in Directory THEN Head(KeysOf(c)) = c ELSE Head(KeysOf(c)) \in Blob
  <2>1. CASE c \in Directory
    BY <2>1 DEF KeysOf
  <2>2. CASE c \notin Directory
    <3>1. KeysOf(c) \in Seq(Blob)
      BY <1>4, <2>2, FindNodeAssumption DEF FindNodeAssumption, KeysOf
    <3> QED BY <1>7, <2>2, <3>1
  <2> QED BY <2>1, <2>2
<1> QED BY <1>1, <1>2, <1>3, <1>5, <1>6, <1>8

(* A step of FindNode leaves everything of the commands alone. *)
LEMMA WalkIs ==
    ASSUME TypeInv, Walk
    PROVE  /\ UNCHANGED <<backup, lost, command, source, stack, copied, disk, printed, targetPath>>
           /\ at \in {"commit", "tree", "walk"}
           /\ at' \in {"tree", "walk", "found", "missing", "crashed"}
           /\ accident' \in BOOLEAN /\ (accident => accident')
<1> USE DEF Walk, restoreVars, walkVars
<1>1. UNCHANGED <<backup, lost, command, source, stack, copied, disk, printed>> /\ accident \in BOOLEAN
  BY DEF TypeInv
<1>2. CASE GetCommit
  BY <1>1, <1>2 DEF GetCommit
<1>3. CASE NotWithin
  BY <1>1, <1>3 DEF NotWithin
<1>4. CASE CommitFails
  BY <1>1, <1>4 DEF CommitFails
<1>5. CASE TreeArrives
  BY <1>1, <1>5 DEF TreeArrives
<1>6. CASE TreeCrashes
  BY <1>1, <1>6 DEF TreeCrashes
<1>7. CASE TreeFails
  BY <1>1, <1>7 DEF TreeFails
<1>8. CASE Found
  BY <1>1, <1>8 DEF Found
<1>9. CASE Descend
  BY <1>1, <1>9 DEF Descend
<1>10. CASE NotFound
  BY <1>1, <1>10 DEF NotFound
<1>11. CASE WalkCrashes
  BY <1>1, <1>11 DEF WalkCrashes
<1> QED BY <1>2, <1>3, <1>4, <1>5, <1>6, <1>7, <1>8, <1>9, <1>10, <1>11 DEF FindNodeStep

(* What is at the top of the stack, and what is under it. *)
LEMMA FrontIs ==
    ASSUME NEW S, NEW s \in Seq(S), s # <<>>
    PROVE  /\ Front(s) \in Seq(S) /\ Len(Front(s)) = Len(s) - 1
           /\ \A j \in 1..(Len(s) - 1) : Front(s)[j] = s[j]
<1> DEFINE N == Len(s) - 1
<1>1. N \in Nat /\ N <= Len(s) /\ Front(s) = SubSeq(s, 1, N)
  BY LastOf
<1> HIDE DEF N
<1>2. /\ SubSeq(s, 1, N) \in Seq(S) /\ Len(SubSeq(s, 1, N)) = N
      /\ \A j \in 1..N : SubSeq(s, 1, N)[j] = s[j]
  BY <1>1
<1> QED BY <1>1, <1>2 DEF N

(* A call with another rest. *)
LEMMA RestExcept ==
    ASSUME NEW P, NEW D, NEW R, NEW c \in [path : P, directory : D, rest : R]
    PROVE  [c EXCEPT !.rest = Tail(@)] = [path |-> c.path, directory |-> c.directory, rest |-> Tail(c.rest)]
<1> DEFINE x == Tail(c.rest)
<1>1. [c EXCEPT !.rest = Tail(@)] = [c EXCEPT !.rest = x]
  BY Zenon
<1> HIDE DEF x
<1>2. [c EXCEPT !.rest = x] = [path |-> c.path, directory |-> c.directory, rest |-> x]
  OBVIOUS
<1>3. [c EXCEPT !.rest = x] = [path |-> c.path, directory |-> c.directory, rest |-> Tail(c.rest)]
  BY <1>2 DEF x
<1> QED BY <1>1, <1>3, Zenon

(* The call at the top of the stack and those under it. *)
LEMMA StackIs ==
    ASSUME TypeInv, stack # <<>>
    PROVE  /\ Len(stack) \in Nat \ {0} /\ Top = stack[Len(stack)] /\ Top \in CallsOver(lost)
           /\ Pop \in Seq(CallsOver(lost)) /\ Len(Pop) = Len(stack) - 1
           /\ \A j \in 1..(Len(stack) - 1) : Pop[j] = stack[j]
<1>1. stack \in Seq(CallsOver(lost))
  BY DEF TypeInv
<1> DEFINE S == CallsOver(lost)
<1> HIDE DEF S
<1>2. stack \in Seq(S)
  BY <1>1 DEF S
<1>3. Len(stack) \in Nat \ {0} /\ Last(stack) = stack[Len(stack)] /\ Front(stack) = SubSeq(stack, 1, Len(stack) - 1)
  BY <1>2, LastOf
<1>4. stack[Len(stack)] \in S
  BY <1>2, <1>3
<1>5. /\ Front(stack) \in Seq(S) /\ Len(Front(stack)) = Len(stack) - 1
      /\ \A j \in 1..(Len(stack) - 1) : Front(stack)[j] = stack[j]
  BY <1>2, FrontIs
<1> QED BY <1>3, <1>4, <1>5 DEF S, Top, Pop

(* What is known of a call. *)
LEMMA CallIs ==
    ASSUME NEW c \in CallsOver(lost)
    PROVE  /\ c \in [path : PathSet, directory : Directory, rest : Seq(Node)]
           /\ c.path \in PathSet /\ c.directory \in Directory /\ c.rest \in Seq(Node)
           /\ PathNodes(c.directory) \cap lost = {}
           /\ \A m \in DOMAIN c.rest : c.rest[m] \in ChildrenOf(c.directory)
BY DEF CallsOver

(* A call that has one node less to go. *)
Onwards(c) == [path |-> c.path, directory |-> c.directory, rest |-> Tail(c.rest)]

(* A call that goes on is a call, with the nodes after the first. *)
LEMMA OnwardsIs ==
    ASSUME NEW c \in CallsOver(lost), c.rest # <<>>
    PROVE  /\ Onwards(c) \in CallsOver(lost)
           /\ [c EXCEPT !.rest = Tail(@)] = Onwards(c)
           /\ Head(c.rest) \in ChildrenOf(c.directory)
           /\ Tail(c.rest) \in Seq(Node)
           /\ \A m \in DOMAIN c.rest \ {1} : c.rest[m] = Tail(c.rest)[m - 1] /\ m - 1 \in DOMAIN Tail(c.rest)
           /\ \A m \in DOMAIN Tail(c.rest) : Tail(c.rest)[m] = c.rest[m + 1] /\ m + 1 \in DOMAIN c.rest
<1>1. /\ c \in [path : PathSet, directory : Directory, rest : Seq(Node)]
      /\ c.path \in PathSet /\ c.directory \in Directory /\ c.rest \in Seq(Node)
      /\ PathNodes(c.directory) \cap lost = {}
      /\ \A m \in DOMAIN c.rest : c.rest[m] \in ChildrenOf(c.directory)
  BY CallIs
<1> DEFINE r == c.rest
           t == Tail(r)
<1>2. r \in Seq(Node) /\ r # <<>>
  BY <1>1
<1> HIDE DEF r
<1>3. Len(t) = Len(r) - 1 /\ t \in Seq(Node) /\ Len(r) \in Nat \ {0} /\ \A j \in 1..(Len(r) - 1) : t[j] = r[j + 1]
  BY <1>2, HeadTailProperties
<1> HIDE DEF t
<1>4. DOMAIN t = 1..(Len(r) - 1) /\ DOMAIN r = 1..Len(r)
  BY <1>2, <1>3
<1>5. \A m \in DOMAIN r \ {1} : r[m] = t[m - 1] /\ m - 1 \in DOMAIN t
  <2>1. ASSUME NEW m \in DOMAIN r, m # 1 PROVE r[m] = t[m - 1] /\ m - 1 \in DOMAIN t
    <3>1. m - 1 \in 1..(Len(r) - 1) /\ (m - 1) + 1 = m
      BY <1>3, <1>4, <2>1
    <3>2. t[m - 1] = r[(m - 1) + 1]
      BY <1>3, <3>1
    <3> QED BY <1>4, <3>1, <3>2
  <2> QED BY <2>1
<1>6. \A m \in DOMAIN t : t[m] = r[m + 1] /\ m + 1 \in DOMAIN r
  BY <1>3, <1>4
<1>7. Head(r) \in ChildrenOf(c.directory)
  <2>1. 1 \in DOMAIN r /\ Head(r) = r[1]
    BY <1>2, <1>3, <1>4
  <2> QED BY <1>1, <2>1 DEF r
<1>8. Onwards(c) \in CallsOver(lost)
  <2> DEFINE o == Onwards(c)
  <2>1. o = [path |-> c.path, directory |-> c.directory, rest |-> t]
    BY DEF Onwards, t, r
  <2>2. o.path = c.path /\ o.directory = c.directory /\ o.rest = t
    BY <2>1
  <2>3. o \in [path : PathSet, directory : Directory, rest : Seq(Node)]
    BY <1>1, <1>3, <2>1
  <2>4. \A m \in DOMAIN t : t[m] \in ChildrenOf(c.directory)
    BY <1>1, <1>6 DEF r
  <2> HIDE DEF o
  <2> QED BY <1>1, <2>2, <2>3, <2>4 DEF CallsOver, o
<1>9. [c EXCEPT !.rest = Tail(@)] = Onwards(c)
  BY <1>1, RestExcept DEF Onwards
<1> QED BY <1>3, <1>5, <1>6, <1>7, <1>8, <1>9 DEF t, r

(* What DownloadTree goes on with after a directory was found. *)
LEMMA CallOf ==
    ASSUME TypeInv, NodeInv, HashInv, TreeInv, FoundDirectory, tree # Nil
    PROVE  /\ Call \in CallsOver(lost)
           /\ Call.path = targetPath /\ Call.directory = FoundNode /\ Call.rest = Children[FoundNode]
           /\ FoundNode \in Directory /\ ~TooOld(backup.tree, FoundNode)
<1>1. at = "found" /\ FoundNode \in Directory
  BY FoundDirectoryIs
<1>2. tree = NodesIn(FoundNode) /\ FoundNode \notin lost /\ ~TooOld(backup.tree, FoundNode)
  BY <1>1 DEF TreeInv
<1>3. /\ Children[FoundNode] \in Seq(Node) /\ NamesOf(tree) = Children[FoundNode]
      /\ \A j \in DOMAIN Children[FoundNode] : Children[FoundNode][j] \in ChildrenOf(FoundNode)
  BY <1>1, <1>2, ChildrenAre
<1>4. PathNodes(FoundNode) \cap lost = {}
  <2>1. (PathNodes(FoundNode) \ {FoundNode}) \cap lost = {}
    BY <1>1 DEF HashInv, Walking
  <2> QED BY <1>2, <2>1
<1>5. Call.path = targetPath /\ Call.directory = FoundNode /\ Call.rest = Children[FoundNode]
  BY <1>3 DEF Call
<1>6. Call \in [path : PathSet, directory : Directory, rest : Seq(Node)]
  BY <1>1, <1>3 DEF Call, TypeInv
<1>7. Call \in CallsOver(lost)
  BY <1>3, <1>4, <1>5, <1>6 DEF CallsOver
<1> QED BY <1>1, <1>2, <1>5, <1>7

(* A sequence with another last element. *)
LEMMA SeqExcept ==
    ASSUME NEW S, NEW s \in Seq(S), s # <<>>, NEW x \in S
    PROVE  LET t == [s EXCEPT ![Len(s)] = x]
           IN  /\ t \in Seq(S) /\ Len(t) = Len(s) /\ t[Len(s)] = x /\ t # <<>>
               /\ \A j \in 1..(Len(s) - 1) : t[j] = s[j]
<1> DEFINE N == Len(s)
           t == [s EXCEPT ![N] = x]
<1>1. N \in Nat \ {0} /\ DOMAIN s = 1..N /\ N \in 1..N /\ \A j \in 1..N : s[j] \in S
  OBVIOUS
<1> HIDE DEF N
<1>2. DOMAIN t = 1..N /\ t = [j \in 1..N |-> t[j]] /\ t[N] = x /\ \A j \in 1..N : j # N => t[j] = s[j]
  BY <1>1
<1> HIDE DEF t
<1>3. \A j \in 1..N : t[j] \in S
  BY <1>1, <1>2
<1>4. t \in Seq(S) /\ Len(t) = N
  BY <1>1, <1>2, <1>3, SeqIs
<1>5. \A j \in 1..(N - 1) : t[j] = s[j]
  BY <1>1, <1>2
<1>6. t # <<>>
  BY <1>1, <1>4
<1> QED BY <1>1, <1>2, <1>4, <1>5, <1>6 DEF t, N

(* What DownloadTree does at its loop. *)
LEMMA NextNodeIs ==
    ASSUME TypeInv, NextNode
    PROVE  /\ stack # <<>> /\ Top.rest # <<>> /\ Head(Top.rest) \in ChildrenOf(Top.directory)
           /\ Len(stack') = Len(stack) /\ stack'[Len(stack)] = Onwards(Top) /\ stack' # <<>>
           /\ \A j \in 1..(Len(stack) - 1) : stack'[j] = stack[j]
           /\ stack' \in Seq(CallsOver(lost))
           /\ targetPath' = Join(Top.path, Name[Head(Top.rest)])
           /\ at = "loop" /\ command = "recover" /\ at' = "commit"
           /\ currentNode' = Nil /\ currentHash' = Nil /\ tree' = Nil
           /\ UNCHANGED <<backup, lost, accident, command, source, copied, disk, printed>>
<1>1. at = "loop" /\ Top.rest # <<>> /\ stack # <<>>
  BY DEF NextNode, TypeInv
<1>2. /\ Len(stack) \in Nat \ {0} /\ Top = stack[Len(stack)] /\ Top \in CallsOver(lost)
  BY <1>1, StackIs
<1>3. /\ [Top EXCEPT !.rest = Tail(@)] = Onwards(Top) /\ Onwards(Top) \in CallsOver(lost)
      /\ Head(Top.rest) \in ChildrenOf(Top.directory)
  BY <1>1, <1>2, OnwardsIs
<1>4. stack' = [stack EXCEPT ![Len(stack)] = Onwards(Top)]
  <2>1. stack' = [stack EXCEPT ![Len(stack)].rest = Tail(@)]
    BY DEF NextNode
  <2>2. stack' = [stack EXCEPT ![Len(stack)] = [Top EXCEPT !.rest = Tail(@)]]
    BY <1>2, <2>1
  <2> QED BY <1>3, <2>2
<1>5. stack \in Seq(CallsOver(lost))
  BY DEF TypeInv
<1>6. /\ stack' \in Seq(CallsOver(lost))
      /\ Len(stack') = Len(stack) /\ stack'[Len(stack)] = Onwards(Top) /\ stack' # <<>>
      /\ \A j \in 1..(Len(stack) - 1) : stack'[j] = stack[j]
  BY <1>1, <1>3, <1>4, <1>5, SeqExcept
<1> QED BY <1>1, <1>3, <1>6 DEF NextNode, Find

(* Every step keeps the types, and the calls of DownloadTree on            *)
(* directories that are not lost.                                          *)
LEMMA TypeStep ==
    ASSUME TypeInv, NodeInv, HashInv, TreeInv, [Next]_vars
    PROVE  TypeInv'
<1>1. /\ backup \in CommitsRead /\ lost \subseteq Directory \cup Blob \cup {Commit}
      /\ command \in {"recover", "list"} /\ source \in PathSet /\ targetPath \in PathSet
      /\ accident \in BOOLEAN /\ copied \in Nat
      /\ disk \in [Node -> {"absent", "directory", "partial", "complete"}]
      /\ at \in {"loop", "commit", "tree", "walk", "found", "missing", "copy"} \cup Ended
      /\ stack \in Seq(CallsOver(lost))
      /\ at = "loop" => stack # <<>>
  BY DEF TypeInv
<1>2. FoundNode \in Node
  BY FoundIs
<1> DEFINE S == CallsOver(lost)
<1> HIDE DEF S
<1>3. stack \in Seq(S) /\ <<>> \in Seq(S) /\ (stack # <<>> => Pop \in Seq(S))
  BY <1>1, StackIs DEF S
<1>4. ASSUME S = CallsOver(lost)', stack' \in Seq(S), UNCHANGED <<backup, lost, command, source>>, targetPath' \in PathSet,
             accident' \in BOOLEAN, copied' \in Nat,
             disk' \in [Node -> {"absent", "directory", "partial", "complete"}],
             at' \in {"loop", "commit", "tree", "walk", "found", "missing", "copy"} \cup Ended,
             at' = "loop" => stack' # <<>>
      PROVE  TypeInv'
  <2>1. CommitsRead' = CommitsRead
    BY DEF CommitsRead
  <2> QED BY <1>1, <1>4, <2>1 DEF TypeInv
<1>5. lost' = lost => S = CallsOver(lost)'
  BY DEF S, CallsOver
<1>6. ASSUME NEW calls, NEW error, Return(calls, error), calls \in Seq(S)
      PROVE  /\ stack' = calls /\ stack' \in Seq(S) /\ (at' = "loop" => stack' # <<>>)
             /\ at' \in {"loop", "commit", "tree", "walk", "found", "missing", "copy"} \cup Ended
  BY <1>6 DEF Return, Ended
<1>7. ASSUME NEW x \in {"absent", "directory", "partial", "complete"}
      PROVE  [disk EXCEPT ![FoundNode] = x] \in [Node -> {"absent", "directory", "partial", "complete"}]
  BY <1>1, <1>2
<1>8. CASE Walk
  BY <1>1, <1>3, <1>4, <1>5, <1>8, WalkIs DEF Ended
<1>9. CASE Missing
  BY <1>1, <1>3, <1>4, <1>5, <1>6, <1>9 DEF Missing, walkVars
<1>10. CASE NextNode
  <2>1. Join(Top.path, Name[Head(Top.rest)]) \in PathSet
    <3>1. Top \in CallsOver(lost) /\ Head(Top.rest) \in ChildrenOf(Top.directory)
      BY <1>10, NextNodeIs, StackIs
    <3>2. Top.path \in PathSet /\ Top.directory \in Directory
      BY <3>1, CallIs
    <3>3. Name[Head(Top.rest)] \in Seq(Letters)
      BY <3>1, <3>2, ChildPath
    <3> QED BY <3>2, <3>3, JoinIn
  <2> QED BY <1>1, <1>4, <1>5, <1>10, <2>1, NextNodeIs DEF S
<1>11. CASE NodesDone
  BY <1>1, <1>3, <1>4, <1>5, <1>6, <1>11 DEF NodesDone, walkVars
<1>12. CASE TreeIsNil
  BY <1>1, <1>3, <1>4, <1>5, <1>6, <1>12 DEF TreeIsNil, walkVars
<1>13. CASE MakeDirectory
  <2>1. Call \in S
    BY <1>13, CallOf DEF MakeDirectory, S
  <2>2. stack' \in Seq(S) /\ stack' # <<>>
    BY <1>3, <1>13, <2>1, AppendProperties DEF MakeDirectory
  <2>3. disk' \in [Node -> {"absent", "directory", "partial", "complete"}] /\ accident' \in BOOLEAN
    BY <1>1, <1>7, <1>13 DEF MakeDirectory
  <2> QED BY <1>1, <1>4, <1>5, <1>13, <2>2, <2>3 DEF MakeDirectory, walkVars
<1>14. CASE OpenWriter
  BY <1>1, <1>3, <1>4, <1>5, <1>7, <1>14 DEF OpenWriter, walkVars
<1>15. CASE OpenFails
  <2>1. PICK left \in {disk[FoundNode]} \cup (IF CanMake THEN {"partial"} ELSE {}) :
            disk' = [disk EXCEPT ![FoundNode] = left]
    BY <1>15 DEF OpenFails
  <2>2. left \in {"absent", "directory", "partial", "complete"}
    BY <1>1, <1>2, <2>1
  <2>3. disk' \in [Node -> {"absent", "directory", "partial", "complete"}]
    BY <1>7, <2>1, <2>2
  <2>4. accident' \in BOOLEAN /\ Return(stack, TRUE)
    BY <1>1, <1>15 DEF OpenFails
  <2> QED BY <1>1, <1>3, <1>4, <1>5, <1>6, <1>15, <2>3, <2>4 DEF OpenFails, walkVars
<1>16. CASE CopyBlob
  BY <1>1, <1>3, <1>4, <1>5, <1>16 DEF CopyBlob, walkVars
<1>17. CASE CopyStops
  <2>1. accident' \in BOOLEAN /\ Return(stack, FALSE)
    BY <1>1, <1>17 DEF CopyStops
  <2> QED BY <1>1, <1>3, <1>4, <1>5, <1>6, <1>17, <2>1 DEF CopyStops, walkVars
<1>18. CASE CopyEnds
  BY <1>1, <1>3, <1>4, <1>5, <1>6, <1>7, <1>18 DEF CopyEnds, walkVars
<1>19. CASE ListDirectory
  <2>1. Call \in S
    BY <1>19, CallOf DEF ListDirectory, S
  <2>2. stack' \in Seq(S) /\ stack' # <<>>
    BY <1>19, <2>1 DEF ListDirectory
  <2> QED BY <1>1, <1>4, <1>5, <1>19, <2>2 DEF ListDirectory, walkVars
<1>20. CASE PrintNode
  <2>1. Onwards(Top) \in S /\ [Top EXCEPT !.rest = Tail(@)] = Onwards(Top)
    <3>1. Top \in CallsOver(lost) /\ Top.rest # <<>>
      BY <1>1, <1>20, StackIs DEF PrintNode
    <3> QED BY <3>1, OnwardsIs DEF S
  <2>2. stack' = << Onwards(Top) >>
    BY <1>20, <2>1 DEF PrintNode
  <2>3. stack' \in Seq(S) /\ stack' # <<>>
    BY <2>1, <2>2
  <2>4. accident' \in BOOLEAN
    BY <1>1, <1>20 DEF PrintNode
  <2> QED BY <1>1, <1>4, <1>5, <1>20, <2>3, <2>4 DEF PrintNode, walkVars
<1>21. CASE ListFile
  BY <1>1, <1>3, <1>4, <1>5, <1>6, <1>21 DEF ListFile, walkVars
<1>22. CASE UNCHANGED vars
  BY <1>1, <1>3, <1>4, <1>5, <1>22 DEF vars, walkVars
<1> QED BY <1>8, <1>9, <1>10, <1>11, <1>12, <1>13, <1>14, <1>15, <1>16, <1>17, <1>18, <1>19, <1>20, <1>21, <1>22 DEF Next

(* What the steps of the commands do to what FindNode has found: nothing. *)
LEMMA CommandIs ==
    ASSUME TypeInv, NodeInv, [Next]_vars
    PROVE  \/ Walk
           \/ NextNode
           \/ /\ UNCHANGED <<backup, lost, walkVars, command, source>>
              /\ accident' \in BOOLEAN /\ (accident => accident')
              /\ at' \in {"loop", "done", "failed"} \/ OpenWriter \/ CopyBlob \/ UNCHANGED <<at, copied>>
<1> USE DEF walkVars, Return
<1>0. accident \in BOOLEAN
  BY DEF TypeInv
<1>9. CASE Missing
  BY <1>0, <1>9 DEF Missing
<1>11. CASE NodesDone
  BY <1>0, <1>11 DEF NodesDone
<1>12. CASE TreeIsNil
  BY <1>0, <1>12 DEF TreeIsNil
<1>13. CASE MakeDirectory
  BY <1>0, <1>13 DEF MakeDirectory
<1>14. CASE OpenWriter
  BY <1>0, <1>14 DEF OpenWriter
<1>15. CASE OpenFails
  BY <1>0, <1>15 DEF OpenFails
<1>16. CASE CopyBlob
  BY <1>0, <1>16 DEF CopyBlob
<1>17. CASE CopyStops
  BY <1>0, <1>17 DEF CopyStops
<1>18. CASE CopyEnds
  BY <1>0, <1>18 DEF CopyEnds
<1>19. CASE ListDirectory
  BY <1>0, <1>19 DEF ListDirectory
<1>20. CASE PrintNode
  BY <1>0, <1>20 DEF PrintNode
<1>21. CASE ListFile
  BY <1>0, <1>21 DEF ListFile
<1>22. CASE UNCHANGED vars
  BY <1>0, <1>22 DEF vars
<1> QED BY <1>9, <1>11, <1>12, <1>13, <1>14, <1>15, <1>16, <1>17, <1>18, <1>19, <1>20, <1>21, <1>22 DEF Next

(* Every step keeps currentNode a node as a tree has it. *)
LEMMA NodeStep ==
    ASSUME TypeInv, NodeInv, HashInv, TreeInv, [Next]_vars
    PROVE  NodeInv'
<1>1. CASE Walk
  <2>1. CASE Descend
    <3>1. at' = "tree" /\ FoundNode \in Directory
      BY <2>1, DescendsTo DEF Descend
    <3>2. PICK c \in ChildrenOf(FoundNode) : currentNode' = NodeOf(c)
      BY <2>1, DescendsTo
    <3>3. c \in Node
      BY <3>1, <3>2, ChildPath
    <3> QED BY <3>1, <3>2, <3>3 DEF NodeInv
  <2>2. CASE ~Descend
    <3>1. currentNode' = currentNode /\ at' # "commit"
      BY <1>1, <2>2 DEF Walk, FindNodeStep, GetCommit, NotWithin, CommitFails, TreeArrives, TreeCrashes,
                        TreeFails, Found, NotFound, WalkCrashes, walkVars
    <3> QED BY <3>1 DEF NodeInv
  <2> QED BY <2>1, <2>2
<1>2. CASE NextNode
  BY <1>2, NextNodeIs DEF NodeInv
<1>3. CASE /\ UNCHANGED <<backup, lost, walkVars, command, source>>
           /\ at' \in {"loop", "done", "failed"} \/ OpenWriter \/ CopyBlob \/ UNCHANGED <<at, copied>>
  <2>1. currentNode' = currentNode /\ (at' = "commit" => at = "commit")
    BY <1>3 DEF walkVars, OpenWriter, CopyBlob
  <2> QED BY <2>1 DEF NodeInv
<1> QED BY <1>1, <1>2, <1>3, CommandIs

(* Every step keeps currentHash that of the tree of the node FindNode is   *)
(* at.                                                                     *)
LEMMA HashStep ==
    ASSUME TypeInv, NodeInv, HashInv, TreeInv, [Next]_vars
    PROVE  HashInv'
<1>1. CASE Walk
  <2>0. lost' = lost /\ at' \in {"tree", "walk", "found", "missing", "crashed"}
    BY <1>1, WalkIs
  <2>1. CASE Descend
    <3>1. FoundNode \in Directory \ lost /\ at = "walk"
      BY <2>1, DescendsTo DEF Descend
    <3>2. PICK c \in ChildrenOf(FoundNode) :
                  FoundNode' = c /\ IF c \in Directory THEN currentHash' = c ELSE currentHash' \in Blob
      BY <2>1, DescendsTo
    <3>3. PathNodes(c) = PathNodes(FoundNode) \cup {c}
      BY <3>1, <3>2, PathNodesOf
    <3>4. (PathNodes(FoundNode) \ {FoundNode}) \cap lost = {}
      BY <3>1 DEF HashInv, Walking
    <3>5. (PathNodes(c) \ {c}) \cap lost = {}
      BY <3>1, <3>3, <3>4
    <3> QED BY <2>0, <3>2, <3>5 DEF HashInv
  <2>2. CASE GetCommit
    <3>1. currentHash' = Root /\ currentNode' = Nil
      BY <2>2, BackupIs DEF GetCommit, NodeInv, TypeInv
    <3>2. FoundNode' = Root
      BY <3>1 DEF FoundNode
    <3>3. Root \in Directory /\ PathNodes(Root) = {Root}
      BY RootAt DEF TypeInv
    <3>4. (PathNodes(Root) \ {Root}) \cap lost = {}
      BY <3>3
    <3> QED BY <2>0, <3>1, <3>2, <3>3, <3>4 DEF HashInv
  <2>3. CASE ~Descend /\ ~GetCommit
    <3>1. UNCHANGED <<currentNode, currentHash>> /\ (at' \in Walking => at \in Walking)
      BY <1>1, <2>3 DEF Walk, FindNodeStep, NotWithin, CommitFails, TreeArrives, TreeCrashes,
                        TreeFails, Found, NotFound, WalkCrashes, walkVars, Walking
    <3>2. FoundNode' = FoundNode
      BY <3>1 DEF FoundNode
    <3> QED BY <2>0, <3>1, <3>2 DEF HashInv
  <2> QED BY <2>1, <2>2, <2>3
<1>2. CASE NextNode
  BY <1>2, NextNodeIs DEF HashInv, Walking
<1>3. CASE /\ UNCHANGED <<backup, lost, walkVars, command, source>>
           /\ at' \in {"loop", "done", "failed"} \/ OpenWriter \/ CopyBlob \/ UNCHANGED <<at, copied>>
  <2>1. UNCHANGED <<lost, currentNode, currentHash>> /\ (at' \in Walking => at \in Walking)
    BY <1>3 DEF walkVars, OpenWriter, CopyBlob, FoundFile, Walking
  <2>2. FoundNode' = FoundNode
    BY <2>1 DEF FoundNode
  <2> QED BY <2>1, <2>2 DEF HashInv
<1> QED BY <1>1, <1>2, <1>3, CommandIs

(* Every step keeps the tree that of the node FindNode is at, or nil       *)
(* because it is lost, too old or failed.                                  *)
LEMMA TreeStep ==
    ASSUME TypeInv, NodeInv, HashInv, TreeInv, [Next]_vars
    PROVE  TreeInv'
<1>1. CASE Walk
  <2>0. UNCHANGED <<backup, lost>> /\ at' \in {"tree", "walk", "found", "missing", "crashed"}
    BY <1>1, WalkIs
  <2>6. Directory \cap Blob = {} /\ backup \in CommitsRead
    BY FindNodeAssumption DEF FindNodeAssumption, TypeInv
  <2>1. CASE TreeArrives
    <3>1. Outcome(currentHash) = "none" /\ at = "tree" /\ tree' = TreeAt(currentHash).list
          /\ currentNode' = currentNode
      BY <2>1 DEF TreeArrives
    <3>2. currentHash \in Directory \ lost /\ ~TooOld(backup.tree, currentHash)
      BY <2>6, <3>1, OutcomeIs
    <3>3. FoundNode = currentHash
      BY <2>6, <3>1, <3>2 DEF HashInv, Walking
    <3>4. tree' = NodesIn(FoundNode)
      BY <2>6, <3>1, <3>2, <3>3, TreeArrivesWhole
    <3>5. tree' # Nil
      BY <3>2, <3>3, <3>4, NodesInSeq
    <3>6. FoundNode' = FoundNode
      BY <3>1 DEF FoundNode
    <3>7. at' = "walk"
      BY <2>1 DEF TreeArrives
    <3> QED BY <2>0, <3>2, <3>3, <3>4, <3>5, <3>6, <3>7 DEF TreeInv
  <2>2. CASE TreeFails
    <3>1. /\ at = "tree" /\ at' = "walk" /\ tree' = Nil /\ currentNode' = currentNode
          /\ ~accident' => Outcome(currentHash) \notin {"none", "panic"}
      BY <2>2 DEF TreeFails
    <3>2. ~accident' => currentHash \notin Directory \ lost
      BY <2>6, <3>1, OutcomeIs
    <3>3. ~accident' => FoundNode \notin Directory \ lost
      BY <3>1, <3>2 DEF HashInv, Walking
    <3>4. FoundNode' = FoundNode
      BY <3>1 DEF FoundNode
    <3> QED BY <2>0, <3>1, <3>3, <3>4 DEF TreeInv
  <2>3. CASE Found
    <3>1. at = "walk" /\ at' = "found" /\ UNCHANGED <<currentNode, tree, accident>>
      BY <2>3 DEF Found, walkVars
    <3>2. FoundNode' = FoundNode
      BY <3>1 DEF FoundNode
    <3> QED BY <2>0, <3>1, <3>2 DEF TreeInv
  <2>4. CASE ~TreeArrives /\ ~TreeFails /\ ~Found
    <3>1. at' \notin {"walk", "found", "copy"}
      BY <1>1, <2>4 DEF Walk, FindNodeStep, GetCommit, NotWithin, CommitFails, TreeCrashes, Descend, NotFound, WalkCrashes
    <3> QED BY <3>1 DEF TreeInv
  <2> QED BY <2>1, <2>2, <2>3, <2>4
<1>2. CASE NextNode
  BY <1>2, NextNodeIs DEF TreeInv
<1>3. CASE /\ UNCHANGED <<backup, lost, walkVars, command, source>>
           /\ accident => accident'
           /\ at' \in {"loop", "done", "failed"} \/ OpenWriter \/ CopyBlob \/ UNCHANGED <<at, copied>>
  <2>1. UNCHANGED <<backup, lost, command, currentNode, tree>>
    BY <1>3 DEF walkVars
  <2>2. FoundNode' = FoundNode
    BY <2>1 DEF FoundNode
  <2>3. CASE at' \in {"loop", "done", "failed"}
    BY <2>3 DEF TreeInv
  <2>4. CASE OpenWriter
    <3>1. FoundFile /\ at = "found" /\ at' = "copy" /\ copied' = 0 /\ command = "recover" /\ currentNode # Nil
      BY <2>4 DEF OpenWriter, FoundFile
    <3>2. FoundNode \in Node \ Directory /\ currentNode.keys = BlobsOf[FoundNode]
      BY <3>1, FoundFileIs
    <3>3. BlobsOf[FoundNode] \in Seq(Blob)
      BY <3>2, FindNodeAssumption DEF FindNodeAssumption
    <3>4. 0 \in 0..Len(currentNode.keys)
      BY <3>2, <3>3
    <3> QED BY <2>1, <2>2, <3>1, <3>2, <3>4 DEF TreeInv
  <2>5. CASE CopyBlob
    <3>1. at = "copy" /\ at' = "copy" /\ copied < Len(currentNode.keys) /\ copied' = copied + 1
      BY <2>5 DEF CopyBlob, MoreBlobs
    <3>2. FoundNode \notin Directory /\ currentNode # Nil /\ copied \in 0..Len(currentNode.keys) /\ command = "recover"
      BY <3>1 DEF TreeInv
    <3>3. FoundNode \in Node /\ currentNode.keys = BlobsOf[FoundNode]
      BY <3>2, FoundIs DEF KeysOf
    <3>4. Len(currentNode.keys) \in Nat
      BY <3>2, <3>3, FindNodeAssumption DEF FindNodeAssumption
    <3>5. copied' \in 0..Len(currentNode.keys)
      BY <3>1, <3>2, <3>4
    <3> QED BY <2>1, <2>2, <3>1, <3>2, <3>5 DEF TreeInv
  <2>6. CASE UNCHANGED <<at, copied>>
    BY <1>3, <2>1, <2>2, <2>6 DEF TreeInv
  <2> QED BY <1>3, <2>3, <2>4, <2>5, <2>6
<1> QED BY <1>1, <1>2, <1>3, CommandIs

(* The path of the backup and what is after it are a path. *)
LEMMA ConcatIn ==
    ASSUME NEW s \in PathSet, NEW t \in PathSet, s # <<>>, t # <<>>
    PROVE  Concat(s, t) \in PathSet
<1> DEFINE W == Seq(Letters)
<1>1. s \in Seq(W) /\ t \in Seq(W)
  BY DEF PathSet
<1> DEFINE S == W
<1>2. Front(s) \in Seq(W) /\ Last(s) \in W
  <2>1. Len(s) \in Nat \ {0} /\ Last(s) = s[Len(s)] /\ s[Len(s)] \in Seq(Letters)
    BY <1>1, LastOf
  <2> QED BY <1>1, <2>1, FrontIs
<1>3. Head(t) \in W /\ Tail(t) \in Seq(W)
  BY <1>1, HeadTailProperties
<1>4. Cat(Last(s), Head(t)) \in W
  BY <1>2, <1>3, CatIn
<1> HIDE DEF W
<1> DEFINE y == << Cat(Last(s), Head(t)) >>
<1>5. y \in Seq(W)
  BY <1>4
<1>6. Cat(Cat(Front(s), y), Tail(t)) \in Seq(W)
  BY <1>2, <1>3, <1>5, CatIn
<1>7. Concat(s, t) = Cat(Cat(Front(s), y), Tail(t))
  BY DEF Concat, Cat
<1> QED BY <1>6, <1>7 DEF W, PathSet

(* It holds when a command begins. *)
LEMMA FetchInit ==
    ASSUME Init
    PROVE  FetchInv
<1> USE DEF Init, FindNodeInit
<1>1. TypeInv
  <2>1. backup \in CommitsRead
    OBVIOUS
  <2>2. RealRoot \in PathSet /\ RealRoot # <<>>
    <3>1. RealRoot \in PathSet /\ RootNames \in Seq(Plains) /\ RealRoot = Rooted(RootNames)
      BY <2>1, RootIs
    <3>2. Len(RealRoot) = (IF RootNames = <<>> THEN 2 ELSE Len(RootNames) + 1) /\ Len(RootNames) \in Nat
      BY <3>1, RootedShape
    <3>3. Len(RealRoot) > 0
      BY <3>2
    <3>4. Len(<<>>) = 0
      OBVIOUS
    <3>5. RealRoot # <<>>
      BY <3>3, <3>4
    <3> QED BY <3>1, <3>5
  <2>3. Below \subseteq PathSet \ {<<>>} /\ Elsewhere \subseteq PathSet
    BY RestoreAssumption, PathsAre DEF RestoreAssumption
  <2>4. source \in PathSet
    BY <2>2, <2>3, ConcatIn
  <2>5. <<>> \in Seq(CallsOver(lost))
    OBVIOUS
  <2> QED BY <2>1, <2>4, <2>5 DEF TypeInv
<1>2. NodeInv
  BY DEF NodeInv
<1>3. HashInv
  BY DEF HashInv, Walking
<1>4. TreeInv
  BY DEF TreeInv
<1> QED BY <1>1, <1>2, <1>3, <1>4 DEF FetchInv

(* What FindNode holds is what it fetched: a tree is that of the node it   *)
(* walked to, and nothing it walked through is lost.                       *)
THEOREM FetchInvariant == Spec => []FetchInv
<1>1. FetchInv /\ [Next]_vars => FetchInv'
  BY TypeStep, NodeStep, HashStep, TreeStep DEF FetchInv
<1> QED BY <1>1, FetchInit, PTL DEF Spec

--------------------------------------------------------------------------------
(***************************************************************************)
(* Where the program is: the source, the path that is walked and the calls *)
(* of DownloadTree.                                                        *)
(***************************************************************************)

SourceInv ==
    /\ stack # <<>> \/ at \in Walking => HasPrefix(source, backup.commit.path)
    /\ stack = <<>> /\ at \notin Ended => targetPath = source
    /\ command = "list" /\ stack # <<>> => at = "loop" /\ Len(stack) = 1

(* Nothing is lost of a path that is located when its commit is read.      *)
LEMMA LocatedIs ==
    ASSUME backup \in CommitsRead, Located
    PROVE  backup.commit.path = RealRoot
<1> DEFINE p == backup.location.path
           Is(j) == [k \in DOMAIN p[j] |-> IF p[j][k] = "%20" THEN " " ELSE p[j][k]]
<1>1. PICK b \in Backups : backup = [tree |-> b.tree, location |-> b.location,
            commit |-> ReadCommit(WrittenCommit(b.commit, <<Nil>>, Root, b.location))]
  BY DEF CommitsRead
<1>2. b.commit \in Nat /\ Root \in Directory /\ p \in Seq(Seq(STRING)) /\ b.location = backup.location
  BY <1>1, FindNodeAssumption DEF FindNodeAssumption
<1>3. <<Nil>> \in Seq(Values) /\ Root \in Values /\ b.location \in Values
  <2>1. Nil \in Values /\ Root \in Values /\ b.location \in Values
    BY <1>2 DEF Values
  <2> QED BY <2>1
<1>4. backup.commit.path = QueryUnescape(p)
  <2>1. backup.commit = ReadCommit(WrittenCommit(b.commit, <<Nil>>, Root, b.location))
    BY <1>1
  <2>2. b.location.computer # ""
    BY <1>2 DEF Located
  <2>3. ReadAs(backup.commit, Root, b.location)
    BY <1>2, <1>3, <2>1, CommitRead
  <2> QED BY <1>2, <2>2, <2>3 DEF ReadAs
<1>5. RealRoot = [j \in DOMAIN p |-> Is(j)]
  BY DEF RealRoot
<1>6. ASSUME NEW j \in DOMAIN p, NEW k \in DOMAIN p[j]
      PROVE  p[j][k] \in UNION {{p[i][l] : l \in DOMAIN p[i]} : i \in DOMAIN p}
  OBVIOUS
<1>7. CASE \E j \in DOMAIN p : "%" \in {p[j][k] : k \in DOMAIN p[j]}
  <2>1. \A j \in DOMAIN p : \A k \in DOMAIN p[j] : p[j][k] # "%20"
    BY <1>6, <1>7 DEF Located
  <2>2. ASSUME NEW j \in DOMAIN p PROVE Is(j) = p[j]
    <3>1. p[j] = [k \in DOMAIN p[j] |-> p[j][k]]
      BY <1>2
    <3> QED BY <2>1, <3>1
  <2>3. p = [j \in DOMAIN p |-> p[j]]
    BY <1>2
  <2>4. QueryUnescape(p) = p
    BY <1>7 DEF QueryUnescape
  <2> QED BY <1>4, <1>5, <2>2, <2>3, <2>4
<1>8. CASE ~ \E j \in DOMAIN p : "%" \in {p[j][k] : k \in DOMAIN p[j]}
  <2> DEFINE letters == UNION {{p[i][l] : l \in DOMAIN p[i]} : i \in DOMAIN p}
  <2>0. "%" \notin letters /\ "+" \notin letters
    <3>1. "%" \notin letters
      BY <1>8
    <3>2. letters \cap {"%", "+"} # {"+"}
      BY DEF Located
    <3> HIDE DEF letters
    <3> QED BY <3>1, <3>2
  <2>1. \A j \in DOMAIN p : \A k \in DOMAIN p[j] : p[j][k] # "+"
    BY <1>6, <2>0
  <2>2. ASSUME NEW j \in DOMAIN p PROVE Is(j) = Unescaped(p[j])
    BY <2>1 DEF Unescaped
  <2>3. QueryUnescape(p) = [j \in DOMAIN p |-> Unescaped(p[j])]
    BY <1>8 DEF QueryUnescape
  <2> QED BY <1>4, <1>5, <2>2, <2>3
<1> QED BY <1>7, <1>8

(* The path of the backup is the same while the backup is. *)
LEMMA SameRoot ==
    ASSUME UNCHANGED backup
    PROVE  RealRoot' = RealRoot /\ RootNames' = RootNames /\ Located' = Located
<1>1. RealRoot' = RealRoot
  BY DEF RealRoot
<1> QED BY <1>1 DEF RootNames, Located

(* A step takes a node from the top of the stack, or a call, or puts one there. *)
Shifted ==
    /\ stack # <<>> /\ Top.rest # <<>> /\ stack' # <<>>
    /\ Len(stack') = Len(stack) /\ stack'[Len(stack)] = Onwards(Top)
    /\ \A j \in 1..(Len(stack) - 1) : stack'[j] = stack[j]
    /\ at = "loop"

Popped ==
    /\ stack # <<>> /\ stack' = Pop /\ at' \in {"loop", "done", "failed"}
    /\ Top.rest = <<>> \/ Missing

Pushed == FoundDirectory /\ tree # Nil /\ stack' = Append(stack, Call) /\ at' = "loop"

(* Every step does at most one of these to the stack. *)
LEMMA StackMoves ==
    ASSUME TypeInv, NodeInv, HashInv, TreeInv, SourceInv, [Next]_vars
    PROVE  stack' = stack \/ Popped \/ Pushed \/ Shifted
<1> USE DEF Return, Ended
<1>1. CASE Walk
  BY <1>1, WalkIs
<1>2. CASE NextNode
  BY <1>2, NextNodeIs DEF Shifted
<1>9. CASE Missing
  BY <1>9 DEF Missing, Popped
<1>11. CASE NodesDone
  BY <1>11 DEF NodesDone, Popped, TypeInv
<1>12. CASE TreeIsNil
  BY <1>12 DEF TreeIsNil
<1>13. CASE MakeDirectory
  BY <1>13 DEF MakeDirectory, Pushed
<1>14. CASE OpenWriter
  BY <1>14 DEF OpenWriter
<1>15. CASE OpenFails
  BY <1>15 DEF OpenFails
<1>16. CASE CopyBlob
  BY <1>16 DEF CopyBlob
<1>17. CASE CopyStops
  BY <1>17 DEF CopyStops
<1>18. CASE CopyEnds
  BY <1>18 DEF CopyEnds
<1>19. CASE ListDirectory
  <2>1. stack = <<>> /\ stack' = <<Call>> /\ FoundDirectory /\ tree # Nil /\ at' = "loop"
    BY <1>19 DEF ListDirectory, SourceInv, FoundDirectory
  <2>2. <<Call>> = Append(<<>>, Call)
    OBVIOUS
  <2> QED BY <2>1, <2>2 DEF Pushed
<1>20. CASE PrintNode
  <2>1. stack # <<>> /\ Len(stack) = 1 /\ Top.rest # <<>> /\ stack' = << [Top EXCEPT !.rest = Tail(@)] >> /\ at = "loop"
    BY <1>20 DEF PrintNode, SourceInv, TypeInv
  <2>2. Top \in CallsOver(lost) /\ [Top EXCEPT !.rest = Tail(@)] = Onwards(Top)
    BY <2>1, StackIs, OnwardsIs
  <2> DEFINE o == Onwards(Top)
  <2>3. stack' = << o >>
    BY <2>1, <2>2
  <2> HIDE DEF o
  <2>4. Len(stack') = 1 /\ stack'[1] = o /\ stack' # <<>>
    BY <2>3
  <2>5. \A j \in 1..(1 - 1) : stack'[j] = stack[j]
    OBVIOUS
  <2> QED BY <2>1, <2>4, <2>5 DEF Shifted, o
<1>21. CASE ListFile
  <2>1. stack = <<>> /\ stack' = <<>>
    BY <1>21 DEF ListFile, SourceInv, FoundFile
  <2> QED BY <2>1
<1>22. CASE UNCHANGED vars
  BY <1>22 DEF vars
<1> QED BY <1>1, <1>2, <1>9, <1>11, <1>12, <1>13, <1>14, <1>15, <1>16, <1>17, <1>18, <1>19, <1>20, <1>21, <1>22 DEF Next

(* Every step keeps the source within the path of the commit, once         *)
(* FindNode was past that.                                                 *)
LEMMA SourceStep ==
    ASSUME TypeInv, NodeInv, HashInv, TreeInv, SourceInv, [Next]_vars
    PROVE  SourceInv'
<1> USE DEF Return, Ended, walkVars
<1>0. at = "loop" => stack # <<>>
  BY DEF TypeInv
<1>5. stack # <<>> => /\ Len(Pop) = Len(stack) - 1 /\ Len(stack) \in Nat \ {0}
                      /\ (Pop # <<>> => Len(Pop) # 0)
  <2>1. SUFFICES ASSUME stack # <<>> PROVE Len(Pop) = Len(stack) - 1 /\ Len(stack) \in Nat \ {0} /\ (Pop # <<>> => Len(Pop) # 0)
    OBVIOUS
  <2>2. Pop \in Seq(CallsOver(lost))
    BY <2>1, StackIs
  <2> QED BY <2>1, <2>2, StackIs
<1>1. CASE Walk
  <2>1. /\ UNCHANGED <<backup, command, source, stack, targetPath>>
        /\ at \in {"commit", "tree", "walk"}
        /\ at' \in {"tree", "walk", "found", "missing", "crashed"}
    BY <1>1, WalkIs
  <2>2. stack = <<>> => targetPath = source
    BY <2>1 DEF SourceInv
  <2>3. CASE GetCommit
    <3>1. HasPrefix(targetPath, backup.commit.path)
      BY <2>3 DEF GetCommit, Within
    <3>2. HasPrefix(source, backup.commit.path)
      BY <2>2, <3>1 DEF SourceInv
    <3>3. command = "list" => stack = <<>>
      BY <2>1 DEF SourceInv
    <3> QED BY <2>1, <2>2, <3>2, <3>3 DEF SourceInv
  <2>4. CASE ~GetCommit
    <3>1. at' \in Walking => at \in Walking
      BY <1>1, <2>4 DEF Walk, FindNodeStep, NotWithin, CommitFails, TreeArrives, TreeCrashes,
                        TreeFails, Found, Descend, NotFound, WalkCrashes, Walking
    <3> QED BY <2>1, <2>2, <3>1 DEF SourceInv
  <2> QED BY <2>3, <2>4
<1>2. CASE NextNode
  BY <1>2, NextNodeIs DEF SourceInv
<1>9. CASE Missing
  BY <1>5, <1>9 DEF Missing, SourceInv, Walking
<1>11. CASE NodesDone
  <2>1. /\ at = "loop" /\ stack # <<>> /\ stack' = Pop /\ UNCHANGED <<backup, command, source, targetPath>>
        /\ at' = IF Pop # <<>> THEN "loop" ELSE "done"
    BY <1>0, <1>11 DEF NodesDone
  <2>2. CASE Pop = <<>>
    BY <2>1, <2>2 DEF SourceInv, Walking
  <2>3. CASE Pop # <<>>
    <3>1. command # "list"
      <4>1. command = "list" => Len(stack) = 1
        BY <2>1 DEF SourceInv
      <4> QED BY <1>5, <2>1, <2>3, <4>1
    <3> QED BY <2>1, <2>3, <3>1 DEF SourceInv, Walking
  <2> QED BY <2>2, <2>3
<1>12. CASE TreeIsNil
  BY <1>12 DEF TreeIsNil, SourceInv, Walking, FoundDirectory
<1>13. CASE MakeDirectory
  <2>1. stack' # <<>>
    <3>1. Append(stack, Call) # <<>>
      BY AppendProperties DEF TypeInv
    <3> QED BY <1>13, <3>1 DEF MakeDirectory
  <2>2. at = "found" /\ at' = "loop" /\ command = "recover" /\ UNCHANGED <<backup, command, source, targetPath>>
    BY <1>13 DEF MakeDirectory, FoundDirectory
  <2> QED BY <2>1, <2>2 DEF SourceInv, Walking
<1>14. CASE OpenWriter
  BY <1>14 DEF OpenWriter, SourceInv, Walking, FoundFile
<1>15. CASE OpenFails
  BY <1>15 DEF OpenFails, SourceInv, Walking, FoundFile
<1>16. CASE CopyBlob
  BY <1>16 DEF CopyBlob, SourceInv, Walking
<1>17. CASE CopyStops
  <2>1. at = "copy" /\ Return(stack, FALSE) /\ UNCHANGED <<backup, command, source, targetPath>>
    BY <1>17 DEF CopyStops
  <2> QED BY <2>1 DEF SourceInv, Walking
<1>18. CASE CopyEnds
  <2>1. at = "copy" /\ Return(stack, FALSE) /\ UNCHANGED <<backup, command, source, targetPath>>
    BY <1>18 DEF CopyEnds
  <2> QED BY <2>1 DEF SourceInv, Walking
<1>19. CASE ListDirectory
  <2>1. stack' # <<>> /\ Len(stack') = 1
    BY <1>19 DEF ListDirectory
  <2> QED BY <1>19, <2>1 DEF ListDirectory, SourceInv, Walking, FoundDirectory
<1>20. CASE PrintNode
  <2>1. stack' # <<>> /\ Len(stack') = 1
    BY <1>20 DEF PrintNode
  <2> QED BY <1>0, <1>20, <2>1 DEF PrintNode, SourceInv, Walking
<1>21. CASE ListFile
  BY <1>21 DEF ListFile, SourceInv, Walking
<1>22. CASE UNCHANGED vars
  BY <1>22 DEF vars, SourceInv
<1> QED BY <1>1, <1>2, <1>9, <1>11, <1>12, <1>13, <1>14, <1>15, <1>16, <1>17, <1>18, <1>19, <1>20, <1>21, <1>22 DEF Next

PathInv ==
    Located /\ OnPath(RootNames, targetPath) /\ at \in Walking =>
        /\ currentPath = Rooted(NamesAt(RootNames, FoundNode))
        /\ \E rest \in Seq(Plains) :
              /\ AtNames(targetPath, Cat(NamesAt(RootNames, FoundNode), rest))
              /\ at = "walk" => nextPathElement = IF rest = <<>> THEN Dot ELSE rest[1]
              /\ at \in {"found", "copy"} => rest = <<>>

StackInv ==
    Located /\ OnPath(RootNames, source) =>
        /\ \A j \in DOMAIN stack :
              /\ AtNames(stack[j].path, NamesAt(RootNames, stack[j].directory))
              /\ j > 1 => stack[j].directory \in ChildrenOf(stack[j - 1].directory)
        /\ stack # <<>> => AtNames(source, NamesAt(RootNames, stack[1].directory))
        /\ stack # <<>> /\ at \notin {"loop"} \cup Ended =>
              \E c \in ChildrenOf(stack[Len(stack)].directory) : targetPath = Rooted(NamesAt(RootNames, c))

(* Every step keeps currentPath the path of the node FindNode is at, and   *)
(* what is left of targetPath the names below it.                          *)
LEMMA PathStep ==
    ASSUME TypeInv, NodeInv, HashInv, TreeInv, PathInv, [Next]_vars
    PROVE  PathInv'
<1>1. SUFFICES ASSUME Located', OnPath(RootNames', targetPath'), at' \in Walking
               PROVE  /\ currentPath' = Rooted(NamesAt(RootNames', FoundNode'))
                      /\ \E rest \in Seq(Plains) :
                            /\ AtNames(targetPath', Cat(NamesAt(RootNames', FoundNode'), rest))
                            /\ at' = "walk" => nextPathElement' = IF rest = <<>> THEN Dot ELSE rest[1]
                            /\ at' \in {"found", "copy"} => rest = <<>>
  BY DEF PathInv
<1>2. backup \in CommitsRead /\ FoundNode \in Node /\ NamesAt(RootNames, FoundNode) \in Seq(Plains)
  BY FoundIs, NodePath DEF TypeInv
<1>3. CASE Walk
  <2>1. UNCHANGED <<backup, targetPath>>
    BY <1>3, WalkIs
  <2>2. Located /\ OnPath(RootNames, targetPath) /\ RootNames' = RootNames
    BY <1>1, <2>1, SameRoot
  <2>3. CASE GetCommit
    <3>1. currentPath' = RealRoot /\ currentNode' = Nil /\ at' = "tree"
      BY <1>2, <2>2, <2>3, LocatedIs DEF GetCommit, NodeInv
    <3>2. FoundNode' = Root
      BY <3>1 DEF FoundNode
    <3>3. NamesAt(RootNames, Root) = RootNames /\ RealRoot = Rooted(RootNames)
      BY <1>2, RootAt, RootIs
    <3>4. PICK rest \in Seq(Plains) : AtNames(targetPath, Cat(RootNames, rest))
      BY <2>2 DEF OnPath
    <3>5. currentPath' = Rooted(NamesAt(RootNames', FoundNode'))
      BY <2>2, <3>1, <3>2, <3>3
    <3>6. AtNames(targetPath', Cat(NamesAt(RootNames', FoundNode'), rest))
      BY <2>1, <2>2, <3>2, <3>3, <3>4
    <3> QED BY <3>1, <3>5, <3>6
  <2>4. CASE Descend
    <3>1. FoundNode \in Directory /\ at = "walk" /\ at' = "tree" /\ nextPathElement # Dot
          /\ currentPath' = Join(currentPath, nextPathElement)
      BY <2>4, DescendsTo DEF Descend
    <3>2. PICK c \in ChildrenOf(FoundNode) : Name[c] = nextPathElement /\ FoundNode' = c
      BY <2>4, DescendsTo
    <3>3. PICK rest \in Seq(Plains) :
              /\ AtNames(targetPath, Cat(NamesAt(RootNames, FoundNode), rest))
              /\ nextPathElement = IF rest = <<>> THEN Dot ELSE rest[1]
      BY <2>2, <3>1 DEF PathInv, Walking
    <3>4. rest # <<>> /\ rest[1] = Name[c]
      BY <3>1, <3>2, <3>3
    <3>5. currentPath = Rooted(NamesAt(RootNames, FoundNode))
      BY <2>2, <3>1 DEF PathInv, Walking
    <3>6. AtNames(currentPath, NamesAt(RootNames, FoundNode))
      BY <3>5 DEF AtNames
    <3>7. Join(currentPath, Name[c]) = Rooted(NamesAt(RootNames, c))
      BY <1>2, <3>1, <3>2, <3>6, JoinChild
    <3>8. NamesAt(RootNames, c) = Append(NamesAt(RootNames, FoundNode), rest[1])
      BY <1>2, <3>1, <3>2, <3>4, ChildAt
    <3>9. /\ Tail(rest) \in Seq(Plains)
          /\ Cat(Append(NamesAt(RootNames, FoundNode), rest[1]), Tail(rest)) = Cat(NamesAt(RootNames, FoundNode), rest)
      BY <1>2, <3>4, CatMoves
    <3>10. AtNames(targetPath, Cat(NamesAt(RootNames, c), Tail(rest)))
      BY <3>3, <3>8, <3>9
    <3>11. currentPath' = Rooted(NamesAt(RootNames', FoundNode'))
      BY <2>2, <3>1, <3>2, <3>7
    <3>12. AtNames(targetPath', Cat(NamesAt(RootNames', FoundNode'), Tail(rest)))
      BY <2>1, <2>2, <3>2, <3>10
    <3> QED BY <3>1, <3>9, <3>11, <3>12
  <2>5. CASE TreeArrives \/ TreeFails
    <3>1. /\ at = "tree" /\ at' = "walk" /\ nextPathElement' = Element
          /\ UNCHANGED <<currentPath, currentNode>>
      BY <2>5 DEF TreeArrives, TreeFails
    <3>2. FoundNode' = FoundNode
      BY <3>1 DEF FoundNode
    <3>3. currentPath = Rooted(NamesAt(RootNames, FoundNode))
      BY <2>2, <3>1 DEF PathInv, Walking
    <3>4. PICK rest \in Seq(Plains) : AtNames(targetPath, Cat(NamesAt(RootNames, FoundNode), rest))
      BY <2>2, <3>1 DEF PathInv, Walking
    <3>5. Element = IF rest = <<>> THEN Dot ELSE rest[1]
      BY <1>2, <3>3, <3>4, ElementIs
    <3>6. AtNames(targetPath', Cat(NamesAt(RootNames', FoundNode'), rest))
      BY <2>1, <2>2, <3>2, <3>4
    <3>7. currentPath' = Rooted(NamesAt(RootNames', FoundNode'))
      BY <2>2, <3>1, <3>2, <3>3
    <3> QED BY <3>1, <3>5, <3>6, <3>7
  <2>6. CASE Found
    <3>1. at = "walk" /\ at' = "found" /\ nextPathElement = Dot /\ UNCHANGED <<currentPath, currentNode>>
      BY <2>6 DEF Found, walkVars
    <3>2. FoundNode' = FoundNode
      BY <3>1 DEF FoundNode
    <3>3. currentPath = Rooted(NamesAt(RootNames, FoundNode))
      BY <2>2, <3>1 DEF PathInv, Walking
    <3>4. PICK rest \in Seq(Plains) :
              /\ AtNames(targetPath, Cat(NamesAt(RootNames, FoundNode), rest))
              /\ nextPathElement = IF rest = <<>> THEN Dot ELSE rest[1]
      BY <2>2, <3>1 DEF PathInv, Walking
    <3>5. rest = <<>>
      <4>1. rest # <<>> => rest[1] \in Plains
        OBVIOUS
      <4>2. rest # <<>> => rest[1] # Dot
        BY <4>1, PlainIs
      <4> QED BY <3>1, <3>4, <4>2
    <3>6. AtNames(targetPath', Cat(NamesAt(RootNames', FoundNode'), rest))
      BY <2>1, <2>2, <3>2, <3>4
    <3>7. currentPath' = Rooted(NamesAt(RootNames', FoundNode'))
      BY <2>2, <3>1, <3>2, <3>3
    <3> QED BY <3>1, <3>5, <3>6, <3>7
  <2>7. CASE ~GetCommit /\ ~Descend /\ ~TreeArrives /\ ~TreeFails /\ ~Found
    <3>1. at' \notin Walking
      BY <1>3, <2>7 DEF Walk, FindNodeStep, NotWithin, CommitFails, TreeCrashes, NotFound, WalkCrashes, Walking
    <3> QED BY <1>1, <3>1
  <2> QED BY <2>3, <2>4, <2>5, <2>6, <2>7
<1>4. CASE NextNode
  BY <1>1, <1>4, NextNodeIs DEF Walking
<1>5. CASE /\ UNCHANGED <<backup, lost, walkVars, command, source>>
           /\ at' \in {"loop", "done", "failed"} \/ OpenWriter \/ CopyBlob \/ UNCHANGED <<at, copied>>
  <2>1. UNCHANGED <<backup, targetPath, currentPath, nextPathElement, currentNode>>
    BY <1>5 DEF walkVars
  <2>2. Located /\ OnPath(RootNames, targetPath) /\ RootNames' = RootNames
    BY <1>1, <2>1, SameRoot
  <2>3. FoundNode' = FoundNode
    BY <2>1 DEF FoundNode
  <2>4. \/ at' = at /\ at \in Walking
        \/ at \in {"found", "copy"} /\ at' = "copy"
    BY <1>1, <1>5 DEF OpenWriter, FoundFile, CopyBlob, Walking
  <2>5. at \in Walking /\ (at' = "walk" => at = "walk") /\ (at' \in {"found", "copy"} => at \in {"found", "copy"})
    BY <2>4 DEF Walking
  <2> QED BY <2>1, <2>2, <2>3, <2>5 DEF PathInv
<1> QED BY <1>3, <1>4, <1>5, CommandIs

(* A recovery that goes on from a node below the source looks for a node. *)
LEMMA TargetOn ==
    ASSUME TypeInv, SourceInv, StackInv, Located, OnPath(RootNames, source), at \notin {"loop"} \cup Ended
    PROVE  OnPath(RootNames, targetPath)
<1>1. CASE stack = <<>>
  BY <1>1 DEF SourceInv
<1>2. CASE stack # <<>>
  <2>1. PICK c \in ChildrenOf(stack[Len(stack)].directory) : targetPath = Rooted(NamesAt(RootNames, c))
    BY <1>2 DEF StackInv
  <2>2. stack[Len(stack)] \in CallsOver(lost)
    BY <1>2, StackIs
  <2>3. c \in Node /\ backup \in CommitsRead
    BY <2>1, <2>2, CallIs, ChildPath DEF TypeInv
  <2>4. AtNames(targetPath, NamesAt(RootNames, c))
    BY <2>1 DEF AtNames
  <2> QED BY <2>3, <2>4, NodeOn
<1> QED BY <1>1, <1>2

(* What was found is where it was looked for. *)
LEMMA FoundAt ==
    ASSUME TypeInv, NodeInv, PathInv, Located, OnPath(RootNames, targetPath), at \in {"found", "copy"}
    PROVE  AtNames(targetPath, NamesAt(RootNames, FoundNode))
<1>1. PICK rest \in Seq(Plains) : AtNames(targetPath, Cat(NamesAt(RootNames, FoundNode), rest)) /\ rest = <<>>
  BY DEF PathInv, Walking
<1>2. NamesAt(RootNames, FoundNode) \in Seq(Plains)
  BY FoundIs, NodePath DEF TypeInv
<1>3. Cat(NamesAt(RootNames, FoundNode), rest) = NamesAt(RootNames, FoundNode)
  BY <1>1, <1>2, CatEmpty
<1> QED BY <1>1, <1>3

(* Every step keeps each call on a node of the directory of the call       *)
(* before, at its path.                                                    *)
LEMMA StackStep ==
    ASSUME TypeInv, NodeInv, HashInv, TreeInv, SourceInv, PathInv, StackInv, [Next]_vars
    PROVE  StackInv'
<1>0. UNCHANGED <<backup, source>>
  BY CommandIs, WalkIs, NextNodeIs
<1>1. SUFFICES ASSUME Located, OnPath(RootNames, source)
               PROVE  /\ \A j \in DOMAIN stack' :
                            /\ AtNames(stack'[j].path, NamesAt(RootNames, stack'[j].directory))
                            /\ j > 1 => stack'[j].directory \in ChildrenOf(stack'[j - 1].directory)
                      /\ stack' # <<>> => AtNames(source, NamesAt(RootNames, stack'[1].directory))
                      /\ stack' # <<>> /\ at' \notin {"loop"} \cup Ended =>
                            \E c \in ChildrenOf(stack'[Len(stack')].directory) : targetPath' = Rooted(NamesAt(RootNames, c))
  BY <1>0, SameRoot DEF StackInv
<1> DEFINE N == Len(stack)
<1>2. N \in Nat /\ DOMAIN stack = 1..N /\ stack \in Seq(CallsOver(lost)) /\ backup \in CommitsRead
      /\ (stack = <<>> <=> N = 0)
  BY DEF TypeInv
<1>3. ASSUME NEW j \in 1..N
      PROVE  /\ AtNames(stack[j].path, NamesAt(RootNames, stack[j].directory))
             /\ j > 1 => stack[j].directory \in ChildrenOf(stack[j - 1].directory)
  BY <1>1, <1>2 DEF StackInv
<1>4. stack # <<>> => AtNames(source, NamesAt(RootNames, stack[1].directory))
  BY <1>1 DEF StackInv
<1>5. stack # <<>> /\ at \notin {"loop"} \cup Ended =>
              \E c \in ChildrenOf(stack[Len(stack)].directory) : targetPath = Rooted(NamesAt(RootNames, c))
  BY <1>1 DEF StackInv
<1>6. CASE stack' = stack
  <2>1. at' \notin {"loop"} \cup Ended => at \notin {"loop"} \cup Ended /\ targetPath' = targetPath
    <3>1. CASE Walk
      BY <3>1, WalkIs DEF Ended
    <3>2. CASE NextNode
      <4>1. stack' # stack
        <5>1. stack # <<>> /\ Top.rest # <<>> /\ stack'[N] = Onwards(Top) /\ stack[N] = Top /\ Top \in CallsOver(lost)
          BY <3>2, NextNodeIs, StackIs
        <5>2. Top.rest \in Seq(Node) /\ Onwards(Top).rest = Tail(Top.rest)
          BY <5>1, CallIs DEF Onwards
        <5>3. Tail(Top.rest) # Top.rest
          <6> DEFINE r == Top.rest
          <6>1. r \in Seq(Node) /\ r # <<>>
            BY <5>1, <5>2
          <6> HIDE DEF r
          <6>2. Len(Tail(r)) = Len(r) - 1 /\ Len(r) \in Nat
            BY <6>1, HeadTailProperties
          <6>3. Tail(r) # r
            BY <6>2
          <6> QED BY <6>3 DEF r
        <5> QED BY <5>1, <5>2, <5>3
      <4> QED BY <1>6, <4>1
    <3>3. CASE /\ UNCHANGED <<backup, lost, walkVars, command, source>>
               /\ at' \in {"loop", "done", "failed"} \/ OpenWriter \/ CopyBlob \/ UNCHANGED <<at, copied>>
      BY <3>3 DEF walkVars, OpenWriter, FoundFile, CopyBlob, Ended
    <3> QED BY <3>1, <3>2, <3>3, CommandIs
  <2> QED BY <1>2, <1>3, <1>4, <1>5, <1>6, <2>1
<1>7. CASE Popped
  <2>1. stack # <<>> /\ stack' = Pop /\ at' \in {"loop"} \cup Ended
    BY <1>7 DEF Popped, Ended
  <2>2. /\ N \in Nat \ {0} /\ Pop \in Seq(CallsOver(lost)) /\ Len(Pop) = N - 1
        /\ \A j \in 1..(N - 1) : Pop[j] = stack[j]
    BY <2>1, StackIs
  <2> HIDE DEF N
  <2>3. DOMAIN Pop = 1..(N - 1)
    BY <2>2
  <2>4. ASSUME NEW j \in 1..(N - 1)
        PROVE  /\ AtNames(Pop[j].path, NamesAt(RootNames, Pop[j].directory))
               /\ j > 1 => Pop[j].directory \in ChildrenOf(Pop[j - 1].directory)
    <3>1. j \in 1..N /\ Pop[j] = stack[j] /\ (j > 1 => j - 1 \in 1..(N - 1))
      BY <2>2
    <3>2. j > 1 => Pop[j - 1] = stack[j - 1]
      BY <2>2, <3>1
    <3> QED BY <1>3, <3>1, <3>2
  <2>5. Pop # <<>> => AtNames(source, NamesAt(RootNames, Pop[1].directory))
    <3>1. Pop # <<>> => 1 \in 1..(N - 1)
      BY <2>2
    <3> QED BY <1>4, <2>1, <2>2, <3>1
  <2> QED BY <2>1, <2>3, <2>4, <2>5
<1>8. CASE Pushed
  <2>1. FoundDirectory /\ tree # Nil /\ stack' = Append(stack, Call) /\ at' = "loop"
    BY <1>8 DEF Pushed
  <2>2. Call \in CallsOver(lost) /\ Call.path = targetPath /\ Call.directory = FoundNode
    BY <2>1, CallOf
  <2>3. at = "found" /\ FoundNode \in Node
    BY <2>1, FoundIs DEF FoundDirectory
  <2>4. OnPath(RootNames, targetPath)
    BY <1>1, <2>3, TargetOn DEF Ended
  <2>5. AtNames(targetPath, NamesAt(RootNames, FoundNode))
    BY <1>1, <2>3, <2>4, FoundAt
  <2>6. stack # <<>> => FoundNode \in ChildrenOf(stack[N].directory)
    <3>1. SUFFICES ASSUME stack # <<>> PROVE FoundNode \in ChildrenOf(stack[N].directory)
      OBVIOUS
    <3>2. PICK c \in ChildrenOf(stack[N].directory) : targetPath = Rooted(NamesAt(RootNames, c))
      BY <1>5, <2>3, <3>1 DEF Ended
    <3>3. AtNames(targetPath, NamesAt(RootNames, c))
      BY <3>2 DEF AtNames
    <3>4. c \in Node
      BY <3>1, <3>2, StackIs, CallIs, ChildPath
    <3>5. c = FoundNode
      BY <1>2, <2>3, <2>5, <3>3, <3>4, NodeAt
    <3> QED BY <3>2, <3>5
  <2> DEFINE call == Call
  <2>7. /\ stack' # <<>> /\ Len(stack') = N + 1 /\ DOMAIN stack' = 1..(N + 1) /\ stack'[N + 1] = call
        /\ \A j \in 1..N : stack'[j] = stack[j]
    <3>1. stack' = Append(stack, call) /\ call \in CallsOver(lost)
      BY <2>1, <2>2
    <3> HIDE DEF call
    <3> QED BY <1>2, <3>1, AppendProperties
  <2>8. call.path = targetPath /\ call.directory = FoundNode
    BY <2>2
  <2> HIDE DEF N, call
  <2>9. ASSUME NEW j \in 1..(N + 1)
        PROVE  /\ AtNames(stack'[j].path, NamesAt(RootNames, stack'[j].directory))
               /\ j > 1 => stack'[j].directory \in ChildrenOf(stack'[j - 1].directory)
    <3>1. CASE j = N + 1
      <4>1. j > 1 => stack # <<>> /\ N \in 1..N /\ j - 1 = N
        BY <1>2, <3>1
      <4>2. j > 1 => stack'[j - 1] = stack[N]
        BY <2>7, <4>1
      <4> QED BY <2>5, <2>6, <2>7, <2>8, <3>1, <4>1, <4>2
    <3>2. CASE j # N + 1
      <4>1. j \in 1..N /\ (j > 1 => j - 1 \in 1..N)
        BY <1>2, <3>2
      <4> QED BY <1>3, <2>7, <4>1
    <3> QED BY <3>1, <3>2
  <2>10. AtNames(source, NamesAt(RootNames, stack'[1].directory))
    <3>1. CASE stack = <<>>
      <4>1. stack'[1] = call
        <5>1. N + 1 = 1
          BY <1>2, <3>1
        <5> QED BY <2>7, <5>1
      <4>2. targetPath = source
        BY <2>3, <3>1 DEF SourceInv, Ended
      <4> QED BY <2>5, <2>8, <4>1, <4>2
    <3>2. CASE stack # <<>>
      <4>1. 1 \in 1..N
        BY <1>2, <3>2
      <4> QED BY <1>4, <2>7, <3>2, <4>1
    <3> QED BY <3>1, <3>2
  <2> QED BY <2>1, <2>7, <2>9, <2>10
<1>9. CASE Shifted
  <2>1. /\ stack # <<>> /\ Len(stack') = N /\ stack'[N] = Onwards(Top) /\ stack[N] = Top
        /\ \A j \in 1..(N - 1) : stack'[j] = stack[j]
    BY <1>9, StackIs DEF Shifted
  <2>2. DOMAIN stack' = 1..N
    <3>1. stack' \in Seq(CallsOver(lost'))
      <4>1. TypeInv'
        BY TypeStep
      <4>2. CallsOver(lost)' = CallsOver(lost')
        BY DEF CallsOver
      <4> QED BY <4>1, <4>2 DEF TypeInv
    <3> QED BY <2>1, <3>1
  <2>3. Onwards(Top).path = Top.path /\ Onwards(Top).directory = Top.directory
    BY DEF Onwards
  <2>4. N \in 1..N
    BY <1>2, <2>1
  <2> HIDE DEF N
  <2>5. ASSUME NEW j \in 1..N PROVE stack'[j].path = stack[j].path /\ stack'[j].directory = stack[j].directory
    <3>1. CASE j = N
      BY <2>1, <2>3, <3>1
    <3>2. CASE j # N
      <4>1. j \in 1..(N - 1)
        BY <1>2, <3>2
      <4> QED BY <2>1, <4>1
    <3> QED BY <3>1, <3>2
  <2>6. ASSUME NEW j \in 1..N
        PROVE  /\ AtNames(stack'[j].path, NamesAt(RootNames, stack'[j].directory))
               /\ j > 1 => stack'[j].directory \in ChildrenOf(stack'[j - 1].directory)
    <3>1. j > 1 => j - 1 \in 1..N
      BY <1>2
    <3> QED BY <1>3, <2>5, <3>1
  <2>7. AtNames(source, NamesAt(RootNames, stack'[1].directory))
    <3>1. 1 \in 1..N
      BY <1>2, <2>1
    <3> QED BY <1>4, <2>1, <2>5, <3>1
  <2>8. at' \notin {"loop"} \cup Ended =>
            \E c \in ChildrenOf(stack'[N].directory) : targetPath' = Rooted(NamesAt(RootNames, c))
    <3>1. CASE NextNode
      <4>1. /\ Head(Top.rest) \in ChildrenOf(Top.directory) /\ targetPath' = Join(Top.path, Name[Head(Top.rest)])
        BY <3>1, NextNodeIs
      <4>2. AtNames(Top.path, NamesAt(RootNames, Top.directory)) /\ Top.directory \in Directory
        BY <1>3, <2>1, <2>4, StackIs, CallIs
      <4>3. targetPath' = Rooted(NamesAt(RootNames, Head(Top.rest)))
        BY <1>2, <4>1, <4>2, JoinChild
      <4> QED BY <2>1, <2>3, <4>1, <4>3
    <3>2. CASE ~NextNode
      <4>1. at = "loop"
        BY <1>9 DEF Shifted
      <4>2. at' \in {"loop"} \cup Ended
        BY <3>2, <4>1, CommandIs, WalkIs DEF OpenWriter, FoundFile, CopyBlob, Ended
      <4> QED BY <4>2
    <3> QED BY <3>1, <3>2
  <2> QED BY <2>1, <2>2, <2>6, <2>7, <2>8
<1> QED BY <1>6, <1>7, <1>8, <1>9, StackMoves

--------------------------------------------------------------------------------
(***************************************************************************)
(* What follows for the path that was asked for.                           *)
(***************************************************************************)

PlaceInv == FetchInv /\ SourceInv /\ PathInv /\ StackInv

(* It holds when a command begins. *)
LEMMA PlaceInit ==
    ASSUME Init
    PROVE  PlaceInv
<1>1. FetchInv
  BY FetchInit
<1>2. stack = <<>> /\ at = "commit" /\ targetPath = source
  BY DEF Init, FindNodeInit
<1>3. SourceInv
  BY <1>2 DEF SourceInv, Walking
<1>4. PathInv
  BY <1>2 DEF PathInv, Walking
<1>5. StackInv
  BY <1>2 DEF StackInv
<1> QED BY <1>1, <1>3, <1>4, <1>5 DEF PlaceInv

(* Every step keeps it. *)
LEMMA PlaceStep ==
    ASSUME PlaceInv, [Next]_vars
    PROVE  PlaceInv'
<1>1. TypeInv /\ NodeInv /\ HashInv /\ TreeInv /\ SourceInv /\ PathInv /\ StackInv
  BY DEF PlaceInv, FetchInv
<1>2. TypeInv' /\ NodeInv' /\ HashInv' /\ TreeInv'
  BY <1>1, TypeStep, NodeStep, HashStep, TreeStep
<1>3. SourceInv' /\ PathInv' /\ StackInv'
  BY <1>1, SourceStep, PathStep, StackStep
<1> QED BY <1>2, <1>3 DEF PlaceInv, FetchInv

(* Where the program is in the backup: FindNode on the way to the path it  *)
(* was called with, the calls of DownloadTree one below the other from the *)
(* source.                                                                 *)
THEOREM PlaceInvariant == Spec => []PlaceInv
BY PlaceInit, PlaceStep, PTL DEF Spec

(* A proper source is a path of names under that of the backup. *)
LEMMA SourceOn ==
    ASSUME TypeInv, SourceInv, Located, Proper(source), stack # <<>> \/ at \in Walking
    PROVE  OnPath(RootNames, source)
<1>1. HasPrefix(source, RealRoot)
  BY LocatedIs DEF SourceInv, TypeInv
<1> QED BY <1>1, ProperOn DEF TypeInv

(* FindNode ends at the names it was called with, once nothing is left of  *)
(* them.                                                                   *)
LEMMA FoundIsAtTargetIn ==
    ASSUME PlaceInv
    PROVE  FoundIsAtTarget
<1>1. TypeInv /\ NodeInv /\ SourceInv /\ PathInv /\ StackInv
  BY DEF PlaceInv, FetchInv
<1>2. SUFFICES ASSUME at = "found", Located, Proper(source)
               PROVE  IsAt(targetPath, FoundNode)
  BY DEF FoundIsAtTarget
<1>3. OnPath(RootNames, source)
  BY <1>1, <1>2, SourceOn DEF Walking
<1>4. OnPath(RootNames, targetPath)
  BY <1>1, <1>2, <1>3, TargetOn DEF Ended
<1>5. AtNames(targetPath, NamesAt(RootNames, FoundNode))
  BY <1>1, <1>2, <1>4, FoundAt
<1> QED BY <1>1, <1>5, FoundIs, AtNode DEF TypeInv

(* What FindNode finds is at the path it was asked for: for every backup,  *)
(* every version of it, whatever is lost of it and whatever fails.         *)
THEOREM FindsTheTarget == Spec => []FoundIsAtTarget
BY PlaceInvariant, FoundIsAtTargetIn, PTL

(* The types, from the invariants above. *)
LEMMA RestoreTypeOKIn ==
    ASSUME PlaceInv
    PROVE  RestoreTypeOK
<1>1. TypeInv /\ NodeInv /\ HashInv /\ TreeInv /\ SourceInv /\ StackInv
  BY DEF PlaceInv, FetchInv
<1>2. ASSUME NEW j \in DOMAIN stack
      PROVE  /\ stack[j].directory \in Directory
             /\ \A m \in DOMAIN stack[j].rest : stack[j].rest[m] \in Node
             /\ Located /\ Proper(source) /\ j > 1 =>
                    stack[j].directory \in ChildrenOf(stack[j - 1].directory)
  <2>1. stack[j] \in CallsOver(lost)
    BY <1>1 DEF TypeInv
  <2>2. stack[j].directory \in Directory /\ stack[j].rest \in Seq(Node)
    BY <2>1, CallIs
  <2>3. ASSUME Located, Proper(source), j > 1
        PROVE  stack[j].directory \in ChildrenOf(stack[j - 1].directory)
    <3>1. stack # <<>>
      BY DEF TypeInv
    <3>2. OnPath(RootNames, source)
      BY <1>1, <2>3, <3>1, SourceOn
    <3> QED BY <1>1, <2>3, <3>2 DEF StackInv
  <2>4. \A m \in DOMAIN stack[j].rest : stack[j].rest[m] \in Node
    BY <2>2
  <2> QED BY <2>2, <2>3, <2>4
<1>3. currentNode # Nil => currentNode.keys = KeysOf(currentNode.name)
  BY <1>1, FoundIs
<1>4. at = "copy" => copied \in 0..Len(currentNode.keys)
  BY <1>1 DEF TreeInv
<1> QED BY <1>1, <1>2, <1>3, <1>4 DEF TypeInv, HashInv, RestoreTypeOK

(* The variables have their types, and every call of DownloadTree is on a  *)
(* node of the directory of the call before.                               *)
THEOREM RestoreIsTyped == Spec => []RestoreTypeOK
BY PlaceInvariant, RestoreTypeOKIn, PTL

(* What is there is not missed. *)
LEMMA MissStep ==
    ASSUME PlaceInv, PresentIsFound, [Next]_vars
    PROVE  PresentIsFound'
<1>1. TypeInv /\ NodeInv /\ TreeInv /\ PathInv /\ backup \in CommitsRead
  BY DEF PlaceInv, FetchInv, TypeInv
<1>2. UNCHANGED <<backup, lost>> /\ (accident => accident')
  BY <1>1, CommandIs, WalkIs, NextNodeIs
<1>3. SUFFICES ASSUME at' = "missing", Located, ~accident', Commit \notin lost,
                      NEW n \in Node, IsAt(targetPath, n)', targetPath' = targetPath
               PROVE  FALSE
  <2>1. Located' = Located
    BY <1>2, SameRoot
  <2>2. at' = "missing" => targetPath' = targetPath
    BY <1>1, CommandIs, WalkIs, NextNodeIs DEF walkVars
  <2> QED BY <1>2, <1>3, <2>1, <2>2 DEF PresentIsFound
<1>4. IsAt(targetPath, n)
  BY <1>2, <1>3, SameRoot DEF IsAt, PathOf
<1>5. AtNames(targetPath, NamesAt(RootNames, n))
  BY <1>1, <1>4, AtNode
<1>6. OnPath(RootNames, targetPath)
  BY <1>1, <1>5, NodeOn
<1>7. CASE at = "missing"
  BY <1>2, <1>3, <1>4, <1>7 DEF PresentIsFound
<1>8. CASE NotWithin
  BY <1>1, <1>3, <1>6, <1>8, PrefixOn, LocatedIs DEF NotWithin, Within
<1>9. CASE CommitFails
  BY <1>3, <1>9 DEF CommitFails
<1>10. CASE NotFound
  <2>1. at = "walk" /\ nextPathElement # Dot /\ tree # Nil /\ Matches = {}
    BY <1>10 DEF NotFound
  <2>2. FoundNode \in Directory /\ FoundNode \in Node /\ tree = NodesIn(FoundNode)
    BY <1>1, <2>1, FoundIs DEF TreeInv
  <2>3. PICK rest \in Seq(Plains) :
            /\ AtNames(targetPath, Cat(NamesAt(RootNames, FoundNode), rest))
            /\ nextPathElement = IF rest = <<>> THEN Dot ELSE rest[1]
    BY <1>1, <1>3, <1>6, <2>1 DEF PathInv, Walking
  <2>4. rest # <<>> /\ nextPathElement = rest[1]
    BY <2>1, <2>3
  <2>5. PICK c \in ChildrenOf(FoundNode) : Name[c] = rest[1]
    BY <1>1, <1>5, <2>2, <2>3, <2>4, WayOn
  <2> QED BY <2>1, <2>2, <2>4, <2>5, MatchesAre
<1>11. at = "missing" \/ NotWithin \/ CommitFails \/ NotFound
  <2>1. CASE Walk
    BY <1>3, <2>1 DEF Walk, FindNodeStep, GetCommit, TreeArrives, TreeCrashes, TreeFails, Found, Descend, WalkCrashes
  <2>2. CASE NextNode
    BY <1>1, <1>3, <2>2, NextNodeIs
  <2>3. CASE at' \in {"loop", "done", "failed"} \/ OpenWriter \/ CopyBlob \/ UNCHANGED <<at, copied>>
    BY <1>3, <2>3 DEF OpenWriter, CopyBlob
  <2> QED BY <1>1, <2>1, <2>2, <2>3, CommandIs
<1> QED BY <1>7, <1>8, <1>9, <1>10, <1>11

(* "Failed to find target path" is said of nothing that is in the backup,  *)
(* unless the commit was not fetched or not understood.                    *)
THEOREM PresentFound == Spec => []PresentIsFound
<1>1. Init => PresentIsFound
  BY DEF Init, FindNodeInit, PresentIsFound
<1>2. PlaceInv /\ PresentIsFound /\ [Next]_vars => PresentIsFound'
  BY MissStep
<1> QED BY <1>1, <1>2, PlaceInvariant, PTL DEF Spec

--------------------------------------------------------------------------------
(***************************************************************************)
(* What crashes the program.                                               *)
(***************************************************************************)

(* Every step keeps it: FindNode dereferences a nil tree only above the    *)
(* source.                                                                 *)
LEMMA CrashStep ==
    ASSUME PlaceInv, CrashHasCause, [Next]_vars
    PROVE  CrashHasCause'
<1>1. TypeInv /\ NodeInv /\ HashInv /\ TreeInv /\ SourceInv /\ PathInv /\ StackInv /\ backup \in CommitsRead
  BY DEF PlaceInv, FetchInv, TypeInv
<1>2. UNCHANGED <<backup, lost, source>> /\ (accident => accident')
  BY <1>1, CommandIs, WalkIs, NextNodeIs
<1>3. RealRoot' = RealRoot /\ Located' = Located
  BY <1>2, SameRoot
<1>4. \A n \in Node : IsAt(source, n)' = IsAt(source, n)
  BY <1>2, <1>3 DEF IsAt, PathOf
<1> DEFINE Cause(stk) ==
        \/ ~Located \/ \A n \in Node : ~IsAt(source, n)
        \/ stk = <<>> /\ \E n \in Node : IsAt(source, n) /\ (PathNodes(n) \ {n}) \cap lost # {}
<1>5. ASSUME accident' \/ backup.tree < 12 \/ (tree' # Nil /\ Keyless') \/ Cause(stack') PROVE CrashHasCause'
  BY <1>2, <1>3, <1>4, <1>5 DEF CrashHasCause
<1>6. CASE at' # "crashed"
  BY <1>6 DEF CrashHasCause
<1>7. CASE TreeCrashes
  <2>1. TooOld(backup.tree, currentHash)
    BY <1>1, <1>7, OutcomeIs DEF TreeCrashes
  <2> QED BY <1>5, <2>1 DEF TooOld
<1>8. CASE WalkCrashes
  <2>1. at = "walk" /\ nextPathElement # Dot /\ (tree # Nil => Keyless) /\ UNCHANGED walkVars
    BY <1>8 DEF WalkCrashes
  <2>2. stack' = stack
    <3>1. Walk \/ ~Walk
      OBVIOUS
    <3>2. Walk => stack' = stack
      BY <1>1, WalkIs
    <3>3. at' = "crashed"
      BY <1>8 DEF WalkCrashes
    <3>4. stack' = stack \/ Shifted
      BY <1>1, <3>3, StackMoves DEF Popped, Pushed
    <3> QED BY <2>1, <3>4 DEF Shifted
  <2>3. CASE tree # Nil
    <3>1. Keyless' /\ tree' = tree
      BY <2>1, <2>3 DEF walkVars, Keyless, Matches
    <3> QED BY <1>5, <2>3, <3>1
  <2>4. CASE accident
    BY <1>2, <1>5, <2>4
  <2>5. CASE tree = Nil /\ ~accident
    <3>1. FoundNode \notin Directory \ lost /\ FoundNode \in Node
      BY <1>1, <2>1, <2>5, FoundIs DEF TreeInv
    <3>2. SUFFICES ASSUME Located, NEW n \in Node, IsAt(source, n)
                   PROVE  Cause(stack)
      BY <1>5, <2>2
    <3>3. AtNames(source, NamesAt(RootNames, n)) /\ OnPath(RootNames, source)
      BY <1>1, <3>2, AtNode, NodeOn
    <3>4. OnPath(RootNames, targetPath)
      BY <1>1, <2>1, <3>2, <3>3, TargetOn DEF Ended
    <3>5. PICK rest \in Seq(Plains) :
              /\ AtNames(targetPath, Cat(NamesAt(RootNames, FoundNode), rest))
              /\ nextPathElement = IF rest = <<>> THEN Dot ELSE rest[1]
      BY <1>1, <2>1, <3>2, <3>4 DEF PathInv, Walking
    <3>6. rest # <<>>
      BY <2>1, <3>5
    <3>7. CASE stack = <<>>
      <4>1. targetPath = source
        BY <1>1, <2>1, <3>7 DEF SourceInv, Ended
      <4>2. FoundNode \in Directory /\ FoundNode \in PathNodes(n) \ {n}
        BY <1>1, <3>1, <3>3, <3>5, <3>6, <4>1, WayOn
      <4>3. (PathNodes(n) \ {n}) \cap lost # {}
        BY <3>1, <4>2
      <4> QED BY <3>2, <3>7, <4>3
    <3>8. CASE stack # <<>>
      <4>1. PICK c \in ChildrenOf(stack[Len(stack)].directory) : targetPath = Rooted(NamesAt(RootNames, c))
        BY <1>1, <2>1, <3>2, <3>3, <3>8 DEF StackInv, Ended
      <4>2. stack[Len(stack)] \in CallsOver(lost)
        BY <1>1, <3>8, StackIs
      <4> DEFINE d == stack[Len(stack)].directory
      <4>3. d \in Directory /\ PathNodes(d) \cap lost = {}
        BY <4>2, CallIs
      <4>4. c \in Node /\ PathNodes(c) = PathNodes(d) \cup {c}
        BY <4>1, <4>3, ChildPath, PathNodesOf
      <4>5. AtNames(targetPath, NamesAt(RootNames, c))
        BY <4>1 DEF AtNames
      <4>6. FoundNode \in Directory /\ FoundNode \in PathNodes(c) \ {c}
        BY <1>1, <3>1, <3>5, <3>6, <4>4, <4>5, WayOn
      <4>7. FoundNode \notin lost
        BY <4>3, <4>4, <4>6
      <4> QED BY <3>1, <4>6, <4>7
    <3> QED BY <3>7, <3>8
  <2> QED BY <2>3, <2>4, <2>5
<1>9. CASE at' = "crashed" /\ at = "crashed"
  <2>1. UNCHANGED walkVars
    BY <1>1, <1>9, CommandIs, WalkIs, NextNodeIs
  <2>2. stack' = stack
    BY <1>1, <1>9, StackMoves DEF Popped, Pushed, Shifted
  <2>3. tree' = tree /\ Keyless' = Keyless
    BY <2>1 DEF walkVars, Keyless, Matches
  <2>4. accident \/ backup.tree < 12 \/ (tree # Nil /\ Keyless) \/ Cause(stack)
    BY <1>9 DEF CrashHasCause
  <2> HIDE DEF Cause
  <2> QED BY <1>2, <1>5, <2>2, <2>3, <2>4
<1>10. at' # "crashed" \/ TreeCrashes \/ WalkCrashes \/ at = "crashed"
  <2>1. CASE Walk
    BY <2>1 DEF Walk, FindNodeStep, GetCommit, NotWithin, CommitFails, TreeArrives, TreeFails, Found, Descend, NotFound
  <2>2. CASE NextNode
    BY <1>1, <2>2, NextNodeIs
  <2>3. CASE at' \in {"loop", "done", "failed"} \/ OpenWriter \/ CopyBlob \/ UNCHANGED <<at, copied>>
    BY <2>3 DEF OpenWriter, CopyBlob
  <2> QED BY <1>1, <2>1, <2>2, <2>3, CommandIs
<1> QED BY <1>6, <1>7, <1>8, <1>9, <1>10

(* What is lost of the backup crashes the program only where FindNode      *)
(* walks through it above the source.                                      *)
THEOREM CrashesHaveCause == Spec => []CrashHasCause
<1>1. Init => CrashHasCause
  BY DEF Init, FindNodeInit, CrashHasCause
<1>2. PlaceInv /\ CrashHasCause /\ [Next]_vars => CrashHasCause'
  BY CrashStep
<1> QED BY <1>1, <1>2, PlaceInvariant, PTL DEF Spec

--------------------------------------------------------------------------------
(***************************************************************************)
(* What is made on the disk.                                               *)
(***************************************************************************)

(* The directories the recursion is in were made, unless one above them    *)
(* could not be written to.                                                *)
DiskInv ==
    command = "recover" /\ ~accident =>
        \A j \in DOMAIN stack :
            (\A i \in 1..(j - 1) : stack[i].directory \notin ReadOnly) => disk[stack[j].directory] = "directory"

(* A call that recover makes goes with a directory on the disk, or an      *)
(* error.                                                                  *)
LEMMA PushedIs ==
    ASSUME TypeInv, NodeInv, Pushed, command = "recover", [Next]_vars
    PROVE  MakeDirectory
<1>1. at = "found" /\ FoundDirectory /\ tree # Nil /\ at' = "loop"
  BY DEF Pushed, FoundDirectory
<1>2. ~FoundFile
  BY <1>1 DEF FoundDirectory, FoundFile
<1>3. ~Walk /\ ~NextNode
  BY <1>1, WalkIs, NextNodeIs
<1> QED BY <1>1, <1>2, <1>3 DEF Next, Missing, NodesDone, TreeIsNil, OpenWriter, OpenFails, CopyBlob,
            CopyStops, CopyEnds, ListDirectory, PrintNode, ListFile, vars

(* What is written where. *)
LEMMA DiskIs ==
    ASSUME TypeInv, NodeInv, TreeInv, [Next]_vars
    PROVE  \A n \in Node :
              \/ disk'[n] = disk[n]
              \/ n \in Directory /\ n = FoundNode /\ disk'[n] = "directory"
              \/ n \notin Directory /\ n = FoundNode /\ OpenWriter
              \/ n \notin Directory /\ n = FoundNode /\ OpenFails
              \/ n \notin Directory /\ n = FoundNode /\ disk'[n] = "complete"
<1>1. disk \in [Node -> {"absent", "directory", "partial", "complete"}] /\ FoundNode \in Node
  BY FoundIs DEF TypeInv
<1>2. CASE Walk
  BY <1>2, WalkIs
<1>3. CASE NextNode
  BY <1>3, NextNodeIs
<1>4. CASE MakeDirectory
  <2>1. FoundNode \in Directory
    BY <1>4, FoundDirectoryIs DEF MakeDirectory
  <2> QED BY <1>1, <1>4, <2>1 DEF MakeDirectory
<1>5. CASE OpenWriter
  <2>1. FoundNode \notin Directory
    BY <1>5, FoundFileIs DEF OpenWriter
  <2> QED BY <1>1, <1>5, <2>1 DEF OpenWriter
<1>6. CASE OpenFails
  <2>1. FoundNode \notin Directory
    BY <1>6, FoundFileIs DEF OpenFails
  <2> QED BY <1>1, <1>6, <2>1 DEF OpenFails
<1>7. CASE CopyEnds
  <2>1. FoundNode \notin Directory
    BY <1>7 DEF CopyEnds, TreeInv
  <2> QED BY <1>1, <1>7, <2>1 DEF CopyEnds
<1>8. CASE ~Walk /\ ~NextNode /\ ~MakeDirectory /\ ~OpenWriter /\ ~OpenFails /\ ~CopyEnds
  <2>1. disk' = disk
    BY <1>8 DEF Next, Missing, NodesDone, TreeIsNil, CopyBlob,
            CopyStops, ListDirectory, PrintNode, ListFile, vars
  <2> QED BY <2>1
<1> QED BY <1>2, <1>3, <1>4, <1>5, <1>6, <1>7, <1>8

(* Every step keeps it: an error of os.Mkdir is an accident, or due to a   *)
(* directory above.                                                        *)
LEMMA DiskStep ==
    ASSUME PlaceInv, DiskInv, [Next]_vars
    PROVE  DiskInv'
<1>1. TypeInv /\ NodeInv /\ HashInv /\ TreeInv /\ SourceInv
  BY DEF PlaceInv, FetchInv
<1>2. command' = command /\ lost' = lost /\ (accident => accident')
  BY <1>1, CommandIs, WalkIs, NextNodeIs
<1>3. SUFFICES ASSUME command = "recover", ~accident'
               PROVE  \A j \in DOMAIN stack' :
                        (\A i \in 1..(j - 1) : stack'[i].directory \notin ReadOnly) => disk'[stack'[j].directory] = "directory"
  BY <1>2 DEF DiskInv
<1> DEFINE N == Len(stack)
<1>4. N \in Nat /\ DOMAIN stack = 1..N /\ stack \in Seq(CallsOver(lost)) /\ (stack = <<>> <=> N = 0)
  BY <1>1 DEF TypeInv
<1>5. stack' \in Seq(CallsOver(lost))
  <2>1. TypeInv'
    BY <1>1, TypeStep
  <2>2. CallsOver(lost)' = CallsOver(lost')
    BY DEF CallsOver
  <2> QED BY <1>2, <2>1, <2>2 DEF TypeInv
<1>6. \A j \in 1..N : stack[j].directory \in Directory /\ stack[j].directory \in Node
  <2>1. Directory \subseteq Node
    BY FindNodeAssumption DEF FindNodeAssumption
  <2> QED BY <1>4, <2>1, CallIs
<1>7. \A d \in Directory : disk[d] = "directory" => disk'[d] = "directory"
  <2>1. Directory \subseteq Node
    BY FindNodeAssumption DEF FindNodeAssumption
  <2> QED BY <1>1, <2>1, DiskIs
<1>8. ASSUME NEW j \in 1..N, \A i \in 1..(j - 1) : stack[i].directory \notin ReadOnly
      PROVE  disk[stack[j].directory] = "directory" /\ disk'[stack[j].directory] = "directory"
  BY <1>2, <1>3, <1>4, <1>6, <1>7, <1>8 DEF DiskInv
<1> HIDE DEF N
<1>9. ASSUME NEW M \in Nat, DOMAIN stack' = 1..M, M <= N,
             \A j \in 1..M : stack'[j].directory = stack[j].directory
      PROVE  \A j \in DOMAIN stack' :
                (\A i \in 1..(j - 1) : stack'[i].directory \notin ReadOnly) => disk'[stack'[j].directory] = "directory"
  <2>1. SUFFICES ASSUME NEW j \in 1..M, \A i \in 1..(j - 1) : stack'[i].directory \notin ReadOnly
                 PROVE  disk'[stack'[j].directory] = "directory"
    BY <1>9
  <2>2. j \in 1..N /\ \A i \in 1..(j - 1) : i \in 1..M
    BY <1>4, <1>9
  <2>3. \A i \in 1..(j - 1) : stack[i].directory \notin ReadOnly
    BY <1>9, <2>1, <2>2
  <2> QED BY <1>8, <1>9, <2>2, <2>3
<1>10. CASE stack' = stack
  <2>1. DOMAIN stack' = 1..N /\ N <= N /\ \A j \in 1..N : stack'[j].directory = stack[j].directory
    BY <1>4, <1>10
  <2> QED BY <1>4, <1>9, <2>1
<1>11. CASE Popped
  <2>1. /\ N \in Nat \ {0} /\ stack' = Pop /\ Len(Pop) = N - 1
        /\ \A j \in 1..(N - 1) : Pop[j] = stack[j]
    BY <1>1, <1>11, StackIs DEF Popped, N
  <2>2. DOMAIN stack' = 1..(N - 1) /\ N - 1 \in Nat /\ N - 1 <= N
    BY <1>5, <2>1
  <2> QED BY <1>9, <2>1, <2>2
<1>12. CASE Shifted
  <2>1. /\ stack # <<>> /\ Len(stack') = N /\ stack'[N] = Onwards(Top) /\ stack[N] = Top
        /\ \A j \in 1..(N - 1) : stack'[j] = stack[j]
    BY <1>1, <1>12, StackIs DEF Shifted, N
  <2>2. DOMAIN stack' = 1..N
    BY <1>5, <2>1
  <2>3. ASSUME NEW j \in 1..N PROVE stack'[j].directory = stack[j].directory
    <3>1. CASE j = N
      BY <2>1, <3>1 DEF Onwards
    <3>2. CASE j # N
      <4>1. j \in 1..(N - 1)
        BY <1>4, <3>2
      <4> QED BY <2>1, <4>1
    <3> QED BY <3>1, <3>2
  <2>4. N <= N
    BY <1>4
  <2> QED BY <1>4, <1>9, <2>2, <2>3, <2>4
<1>13. CASE Pushed
  <2>1. MakeDirectory /\ stack' = Append(stack, Call)
    BY <1>1, <1>3, <1>13, PushedIs DEF Pushed
  <2>2. Call \in CallsOver(lost) /\ Call.directory = FoundNode /\ FoundNode \in Directory
    BY <1>1, <2>1, CallOf DEF MakeDirectory
  <2> DEFINE call == Call
  <2>3. /\ DOMAIN stack' = 1..(N + 1) /\ stack'[N + 1] = call
        /\ \A j \in 1..N : stack'[j] = stack[j]
    <3>1. stack' = Append(stack, call) /\ call \in CallsOver(lost)
      BY <2>1, <2>2
    <3> HIDE DEF call
    <3> QED BY <1>4, <1>5, <3>1, AppendProperties DEF N
  <2>4. call.directory = FoundNode
    BY <2>2
  <2> HIDE DEF call
  <2>5. SUFFICES ASSUME NEW j \in 1..(N + 1), \A i \in 1..(j - 1) : stack'[i].directory \notin ReadOnly
                 PROVE  disk'[stack'[j].directory] = "directory"
    BY <2>3
  <2>6. \A i \in 1..(j - 1) : i \in 1..N
    BY <1>4
  <2>7. \A i \in 1..(j - 1) : stack[i].directory \notin ReadOnly
    BY <2>3, <2>5, <2>6
  <2>8. CASE j \in 1..N
    BY <1>8, <2>3, <2>7, <2>8
  <2>9. CASE j = N + 1
    <3>1. CanMake
      <4>1. SUFFICES ASSUME stack # <<>> PROVE disk[Top.directory] = "directory" /\ Top.directory \notin ReadOnly
        BY DEF CanMake
      <4>2. N \in 1..N /\ Top = stack[N] /\ N \in 1..(j - 1) /\ \A i \in 1..(N - 1) : i \in 1..(j - 1)
        BY <1>1, <1>4, <2>9, <4>1, StackIs DEF N
      <4> QED BY <1>8, <2>7, <4>2
    <3>2. disk' = [disk EXCEPT ![FoundNode] = "directory"]
      BY <1>3, <2>1, <3>1 DEF MakeDirectory
    <3>3. disk'[FoundNode] = "directory"
      BY <1>1, <3>2, FoundIs DEF TypeInv
    <3> QED BY <2>3, <2>4, <2>9, <3>3
  <2>10. j \in 1..N \/ j = N + 1
    BY <1>4
  <2> QED BY <2>8, <2>9, <2>10
<1> QED BY <1>1, <1>10, <1>11, <1>12, <1>13, StackMoves

(* The directories the recursion is in were made. *)
THEOREM DiskInvariant == Spec => []DiskInv
<1>1. Init => DiskInv
  BY DEF Init, DiskInv
<1>2. PlaceInv /\ DiskInv /\ [Next]_vars => DiskInv'
  BY DiskStep
<1> QED BY <1>1, <1>2, PlaceInvariant, PTL DEF Spec

--------------------------------------------------------------------------------
(***************************************************************************)
(* What is listed.                                                         *)
(***************************************************************************)

Lines == [node : Node, from : {"node", "tree"}]
Shown(lines) == [j \in DOMAIN lines |-> lines[j].node]

(* The nodes that were listed and those still to be are the directory's. *)
ListInv ==
    /\ printed \in Seq(Lines)
    /\ command = "list" =>
        /\ at = "loop" =>
                /\ FoundNode \in Directory /\ ~TooOld(backup.tree, FoundNode)
                /\ Top.directory = FoundNode
                /\ Cat(Shown(printed), Top.rest) = Children[FoundNode]
        /\ at \notin {"loop", "done"} => printed = <<>>
        /\ at = "done" => Shown(printed) = IF FoundNode \in Directory THEN Children[FoundNode] ELSE <<FoundNode>>
        /\ ~accident => \A j \in DOMAIN printed :
                printed[j].from = "node" => printed[j].node \notin Directory \ lost

(* The nodes of the lines that were printed. *)
LEMMA ShownIs ==
    ASSUME NEW lines \in Seq(Lines)
    PROVE  Shown(lines) \in Seq(Node) /\ Len(Shown(lines)) = Len(lines)
           /\ \A j \in 1..Len(lines) : Shown(lines)[j] = lines[j].node
<1> DEFINE N == Len(lines)
           f == Shown(lines)
<1>1. N \in Nat /\ DOMAIN lines = 1..N /\ \A j \in 1..N : lines[j].node \in Node
  <2>1. N \in Nat /\ DOMAIN lines = 1..N /\ \A j \in 1..N : lines[j] \in Lines
    OBVIOUS
  <2>2. \A line \in Lines : line.node \in Node
    BY DEF Lines
  <2> QED BY <2>1, <2>2
<1>2. f = [j \in 1..N |-> lines[j].node]
  BY <1>1 DEF Shown
<1> HIDE DEF N, f
<1>3. f \in Seq(Node) /\ Len(f) = N
  BY <1>1, <1>2
<1> QED BY <1>2, <1>3 DEF N, f

(* The nodes after one more line. *)
LEMMA ShownMore ==
    ASSUME NEW lines \in Seq(Lines), NEW line \in Lines
    PROVE  Append(lines, line) \in Seq(Lines)
           /\ Shown(Append(lines, line)) = Append(Shown(lines), line.node)
<1> DEFINE N == Len(lines)
           more == Append(lines, line)
           s == Shown(lines)
           t == Shown(more)
           n == line.node
           u == Append(s, n)
<1>1. N \in Nat /\ s \in Seq(Node) /\ Len(s) = N /\ \A j \in 1..N : s[j] = lines[j].node
  BY ShownIs
<1>2. more \in Seq(Lines) /\ Len(more) = N + 1 /\ more[N + 1] = line /\ \A j \in 1..N : more[j] = lines[j]
  BY AppendProperties
<1> HIDE DEF more
<1>3. t \in Seq(Node) /\ Len(t) = N + 1 /\ \A j \in 1..(N + 1) : t[j] = more[j].node
  BY <1>2, ShownIs
<1>4. n \in Node
  BY DEF Lines
<1> HIDE DEF N, s, t, n
<1>5. u \in Seq(Node) /\ Len(u) = N + 1 /\ u[N + 1] = n /\ \A j \in 1..N : u[j] = s[j]
  BY <1>1, <1>4, AppendProperties
<1> HIDE DEF u
<1>6. ASSUME NEW j \in 1..(N + 1) PROVE t[j] = u[j]
  <2>1. CASE j = N + 1
    BY <1>2, <1>3, <1>5, <2>1 DEF n
  <2>2. CASE j # N + 1
    <3>1. j \in 1..N
      BY <1>1, <2>2
    <3> QED BY <1>1, <1>2, <1>3, <1>5, <3>1
  <2> QED BY <2>1, <2>2
<1>7. t = u
  BY <1>3, <1>5, <1>6, SeqSame
<1> QED BY <1>2, <1>7 DEF t, u, s, n, more

(* The node of a single line. *)
LEMMA ShownOne ==
    ASSUME NEW n \in Node, NEW from
    PROVE  Shown(<<Line(n, from)>>) = <<n>> /\ (from \in {"node", "tree"} => Line(n, from) \in Lines)
<1>1. Line(n, from).node = n /\ (from \in {"node", "tree"} => Line(n, from) \in Lines)
  BY DEF Line, Lines
<1> DEFINE l == Line(n, from)
<1> HIDE DEF l
<1>2. DOMAIN <<l>> = 1..1 /\ <<l>>[1] = l
  OBVIOUS
<1>3. Shown(<<l>>) = [j \in 1..1 |-> <<l>>[j].node]
  BY <1>2 DEF Shown
<1>4. [j \in 1..1 |-> <<l>>[j].node] = [j \in 1..1 |-> l.node]
  BY <1>2
<1>5. [j \in 1..1 |-> l.node] = <<l.node>>
  OBVIOUS
<1> QED BY <1>1, <1>3, <1>4, <1>5 DEF l

(* Every step keeps it: a line is printed for each node, in order. *)
LEMMA ListStep ==
    ASSUME FetchInv, SourceInv, ListInv, [Next]_vars
    PROVE  ListInv'
<1>1. TypeInv /\ NodeInv /\ HashInv /\ TreeInv /\ backup \in CommitsRead
  BY DEF FetchInv, TypeInv
<1>2. UNCHANGED <<backup, lost, command>> /\ (accident => accident') /\ printed \in Seq(Lines)
      /\ FoundNode \in Node
  BY <1>1, CommandIs, WalkIs, NextNodeIs, FoundIs DEF ListInv
<1>3. SUFFICES ASSUME command = "list"
               PROVE  /\ printed' \in Seq(Lines)
                      /\ at' = "loop" =>
                            /\ FoundNode' \in Directory /\ ~TooOld(backup.tree, FoundNode')
                            /\ Top'.directory = FoundNode'
                            /\ Cat(Shown(printed'), Top'.rest) = Children[FoundNode']
                      /\ at' \notin {"loop", "done"} => printed' = <<>>
                      /\ at' = "done" =>
                            Shown(printed') = IF FoundNode' \in Directory THEN Children[FoundNode'] ELSE <<FoundNode'>>
                      /\ ~accident' => \A j \in DOMAIN printed' :
                            printed'[j].from = "node" => printed'[j].node \notin Directory \ lost
  <2>1. CASE command # "list"
    <3>1. printed' = printed
      <4>1. CASE Walk
        BY <1>1, <4>1, WalkIs
      <4>2. CASE ~Walk
        BY <2>1, <4>2 DEF Next, NextNode, Missing, NodesDone, TreeIsNil, MakeDirectory, OpenWriter, OpenFails,
                          CopyBlob, CopyStops, CopyEnds, ListDirectory, PrintNode, ListFile, vars
      <4> QED BY <4>1, <4>2
    <3> QED BY <1>2, <2>1, <3>1 DEF ListInv
  <2> QED BY <1>2, <1>3, <2>1 DEF ListInv
<1>4. /\ stack # <<>> => at = "loop" /\ Len(stack) = 1
      /\ at = "loop" => stack # <<>>
      /\ at # "copy"
  BY <1>1, <1>3 DEF SourceInv, TypeInv, TreeInv
<1>5. ASSUME at' \notin {"loop", "done"}, at \notin {"loop", "done"}, printed' = printed
      PROVE  printed' = <<>> /\ printed' \in Seq(Lines)
  BY <1>2, <1>3, <1>5 DEF ListInv
<1>6. \A j \in DOMAIN <<>> : FALSE
  OBVIOUS
<1>7. CASE Walk
  BY <1>1, <1>5, <1>6, <1>7, WalkIs
<1>8. CASE Missing
  <2>1. at = "missing" /\ at' = "failed" /\ printed' = printed
    BY <1>4, <1>8 DEF Missing, Return
  <2> QED BY <1>5, <1>6, <2>1
<1>9. CASE TreeIsNil
  <2>1. at = "found" /\ at' = "failed" /\ printed' = printed
    BY <1>3, <1>4, <1>9 DEF TreeIsNil, FoundDirectory, Return
  <2> QED BY <1>5, <1>6, <2>1
<1>10. CASE NodesDone
  <2>1. at = "loop" /\ Top.rest = <<>> /\ stack # <<>> /\ Len(stack) = 1
    BY <1>4, <1>10 DEF NodesDone
  <2>2. Pop = <<>>
    <3>1. Pop \in Seq(CallsOver(lost)) /\ Len(Pop) = 0
      BY <1>1, <2>1, StackIs
    <3> QED BY <3>1
  <2>3. at' = "done" /\ UNCHANGED <<printed, accident, currentNode>>
    BY <1>10, <2>2 DEF NodesDone, Return, walkVars
  <2>4. FoundNode' = FoundNode
    BY <2>3 DEF FoundNode
  <2>5. FoundNode \in Directory /\ Cat(Shown(printed), <<>>) = Children[FoundNode]
    BY <1>3, <2>1 DEF ListInv
  <2>6. Shown(printed) = Children[FoundNode]
    BY <1>2, <2>5, ShownIs, CatEmpty
  <2>7. ~accident => \A j \in DOMAIN printed : printed[j].from = "node" => printed[j].node \notin Directory \ lost
    BY <1>3 DEF ListInv
  <2> QED BY <1>2, <2>3, <2>4, <2>5, <2>6, <2>7
<1>11. CASE ListDirectory
  <2>1. at = "found" /\ FoundDirectory /\ tree # Nil /\ stack' = <<Call>> /\ at' = "loop"
        /\ UNCHANGED <<printed, accident, currentNode>>
    BY <1>11 DEF ListDirectory, FoundDirectory, walkVars
  <2>2. Call.directory = FoundNode /\ Call.rest = Children[FoundNode] /\ FoundNode \in Directory
        /\ ~TooOld(backup.tree, FoundNode) /\ Call \in CallsOver(lost)
    BY <1>1, <2>1, CallOf
  <2>3. Top' = Call
    <3> DEFINE call == Call
    <3>1. stack' = <<call>>
      BY <2>1
    <3> HIDE DEF call
    <3>2. Len(stack') = 1 /\ stack'[1] = call
      BY <3>1
    <3>3. Top' = stack'[Len(stack')]
      BY DEF Top, Last
    <3> QED BY <3>2, <3>3 DEF call
  <2>4. FoundNode' = FoundNode
    BY <2>1 DEF FoundNode
  <2>5. printed = <<>>
    BY <1>3, <2>1 DEF ListInv
  <2>6. Shown(<<>>) = <<>>
    BY DEF Shown
  <2>7. Cat(<<>>, Children[FoundNode]) = Children[FoundNode]
    <3>1. Children[FoundNode] \in Seq(Node)
      BY <2>2, ChildrenAre
    <3> QED BY <3>1, CatEmpty
  <2> QED BY <1>2, <1>6, <2>1, <2>2, <2>3, <2>4, <2>5, <2>6, <2>7
<1>12. CASE PrintNode
  <2>1. /\ at = "loop" /\ stack # <<>> /\ Top.rest # <<>> /\ at' = "loop"
        /\ stack' = << [Top EXCEPT !.rest = Tail(@)] >> /\ currentNode' = currentNode
    BY <1>4, <1>12 DEF PrintNode, walkVars
  <2>2. Top \in CallsOver(lost)
    BY <1>1, <2>1, StackIs
  <2> DEFINE n == Head(Top.rest)
  <2>3. n \in ChildrenOf(Top.directory) /\ [Top EXCEPT !.rest = Tail(@)] = Onwards(Top)
    BY <2>1, <2>2, OnwardsIs
  <2>4. /\ FoundNode \in Directory /\ ~TooOld(backup.tree, FoundNode) /\ Top.directory = FoundNode
        /\ Cat(Shown(printed), Top.rest) = Children[FoundNode]
    BY <1>3, <2>1 DEF ListInv
  <2>5. Top' = Onwards(Top)
    <3> DEFINE o == Onwards(Top)
    <3>1. stack' = <<o>>
      BY <2>1, <2>3
    <3> HIDE DEF o
    <3>2. Len(stack') = 1 /\ stack'[1] = o
      BY <3>1
    <3>3. Top' = stack'[Len(stack')]
      BY DEF Top, Last
    <3> QED BY <3>2, <3>3 DEF o
  <2>6. FoundNode' = FoundNode
    BY <2>1 DEF FoundNode
  <2>7. PICK from \in {"node", "tree"} :
            LET there == n \in Directory /\ Outcome(n) = "none"
            IN  /\ from = "tree" => there
                /\ from = "node" => ~there \/ Faults
                /\ printed' = Append(printed, Line(n, from))
                /\ accident' = (accident \/ (there /\ from = "node"))
    BY <1>12 DEF PrintNode
  <2>8. n \in Node /\ Line(n, from) \in Lines /\ Line(n, from).node = n /\ Line(n, from).from = from
    BY <2>3, <2>4, ChildPath DEF Line, Lines
  <2> HIDE DEF n
  <2>9. printed' \in Seq(Lines) /\ Shown(printed') = Append(Shown(printed), n)
    BY <1>2, <2>7, <2>8, ShownMore
  <2>10. Cat(Shown(printed'), Top'.rest) = Children[FoundNode]
    <3> DEFINE r == Top.rest
               a == Shown(printed)
    <3>1. r \in Seq(Node) /\ r # <<>> /\ a \in Seq(Node)
      BY <1>2, <2>1, <2>2, CallIs, ShownIs
    <3>2. n = r[1]
      BY <3>1 DEF n
    <3>3. Top'.rest = Tail(r)
      BY <2>5 DEF Onwards
    <3> HIDE DEF r, a
    <3>4. Cat(Append(a, r[1]), Tail(r)) = Cat(a, r)
      BY <3>1, CatMoves
    <3> QED BY <2>4, <2>9, <3>2, <3>3, <3>4 DEF a, r
  <2>11. Top'.directory = FoundNode
    BY <2>4, <2>5 DEF Onwards
  <2>12. ~accident' /\ from = "node" => n \notin Directory \ lost
    <3>1. SUFFICES ASSUME ~accident', from = "node", n \in Directory \ lost PROVE FALSE
      OBVIOUS
    <3>2. Outcome(n) # "none"
      BY <2>7, <3>1
    <3>3. TooOld(backup.tree, n)
      BY <1>1, <3>1, <3>2, OutcomeIs
    <3>4. KeysOf(n) # <<>>
      BY <2>8, <3>1, NodeOfIn
    <3>5. \E j \in DOMAIN Children[FoundNode] : Children[FoundNode][j] = n
      BY <2>3, <2>4, ChildrenAre
    <3>6. TooOld(backup.tree, FoundNode)
      BY <3>3, <3>4, <3>5 DEF TooOld
    <3> QED BY <2>4, <3>6
  <2>13. ~accident' => \A j \in DOMAIN printed' : printed'[j].from = "node" => printed'[j].node \notin Directory \ lost
    <3> DEFINE N == Len(printed)
               line == Line(n, from)
    <3>1. /\ N \in Nat /\ DOMAIN printed = 1..N /\ DOMAIN printed' = 1..(N + 1) /\ printed'[N + 1] = line
          /\ \A j \in 1..N : printed'[j] = printed[j]
      <4>1. printed' = Append(printed, line) /\ line \in Lines
        BY <2>7, <2>8
      <4> HIDE DEF line
      <4>2. Append(printed, line) \in Seq(Lines) /\ Len(Append(printed, line)) = N + 1
            /\ Append(printed, line)[N + 1] = line /\ \A j \in 1..N : Append(printed, line)[j] = printed[j]
        BY <1>2, <4>1, AppendProperties
      <4> QED BY <1>2, <4>1, <4>2
    <3>2. line.node = n /\ line.from = from
      BY <2>8
    <3> HIDE DEF N, line
    <3>3. ASSUME ~accident', NEW j \in 1..(N + 1), printed'[j].from = "node" PROVE printed'[j].node \notin Directory \ lost
      <4>1. CASE j = N + 1
        BY <2>12, <3>1, <3>2, <3>3, <4>1
      <4>2. CASE j # N + 1
        <5>1. j \in 1..N
          BY <3>1, <4>2
        <5>2. ~accident
          BY <1>2, <3>3
        <5> QED BY <1>3, <3>1, <3>3, <5>1, <5>2 DEF ListInv
      <4> QED BY <4>1, <4>2
    <3> QED BY <3>1, <3>3
  <2> QED BY <2>1, <2>4, <2>6, <2>9, <2>10, <2>11, <2>13
<1>13. CASE ListFile
  <2>1. FoundFile /\ at' = "done" /\ printed' = << Line(FoundNode, "node") >> /\ currentNode' = currentNode
    BY <1>13 DEF ListFile, Return, walkVars
  <2>2. FoundNode \in Node \ Directory
    BY <1>1, <2>1, FoundFileIs
  <2>3. FoundNode' = FoundNode
    BY <2>1 DEF FoundNode
  <2> DEFINE line == Line(FoundNode, "node")
  <2>4. line \in Lines /\ line.node = FoundNode /\ Shown(<<line>>) = <<FoundNode>>
    BY <1>2, ShownOne DEF Line
  <2>6. printed' = <<line>>
    BY <2>1
  <2> HIDE DEF line
  <2>5. printed' \in Seq(Lines) /\ DOMAIN printed' = 1..1 /\ printed'[1] = line
    BY <2>4, <2>6
  <2>7. \A j \in DOMAIN printed' : printed'[j].node \notin Directory
    BY <2>2, <2>4, <2>5
  <2> QED BY <2>1, <2>2, <2>3, <2>4, <2>5, <2>6, <2>7
<1>14. CASE UNCHANGED vars
  <2>1. UNCHANGED <<at, printed, accident, stack, currentNode>>
    BY <1>14 DEF vars, walkVars
  <2>2. FoundNode' = FoundNode /\ Top' = Top
    BY <2>1 DEF FoundNode, Top
  <2> QED BY <1>2, <1>3, <2>1, <2>2 DEF ListInv
<1> QED BY <1>3, <1>4, <1>7, <1>8, <1>9, <1>10, <1>11, <1>12, <1>13, <1>14
        DEF Next, NextNode, MakeDirectory, OpenWriter, OpenFails, CopyBlob, CopyStops, CopyEnds

(* What was listed and what is still to be are the nodes of the directory. *)
THEOREM ListInvariant == Spec => []ListInv
<1>1. Init => ListInv
  <2>1. SUFFICES ASSUME Init PROVE ListInv
    OBVIOUS
  <2>2. printed = <<>> /\ at = "commit"
    BY <2>1 DEF Init, FindNodeInit
  <2>3. <<>> \in Seq(Lines) /\ \A j \in DOMAIN <<>> : FALSE
    OBVIOUS
  <2> QED BY <2>2, <2>3 DEF ListInv
<1>2. PlaceInv /\ ListInv /\ [Next]_vars => ListInv'
  BY ListStep DEF PlaceInv
<1> QED BY <1>1, <1>2, PlaceInvariant, PTL DEF Spec

(* No child is left out of a listing, and without an accident only the     *)
(* lost directories are listed as their nodes have them.                   *)
THEOREM ListsAll == Spec => []ListingIsWhole
<1>1. ListInv => ListingIsWhole
  BY DEF ListInv, ListingIsWhole, Shown
<1> QED BY <1>1, ListInvariant, PTL

--------------------------------------------------------------------------------
(***************************************************************************)
(* What is recovered.                                                      *)
(***************************************************************************)

InRest(calls, p) == \E j \in DOMAIN calls : \E m \in DOMAIN calls[j].rest : p = calls[j].rest[m]

RestsOf(calls) == UNION {{calls[j].rest[m] : m \in DOMAIN calls[j].rest} : j \in DOMAIN calls}

(* The nodes to go, as a set. *)
LEMMA InRests ==
    ASSUME NEW calls, NEW p
    PROVE  p \in RestsOf(calls) <=> InRest(calls, p)
<1> DEFINE R(j) == {calls[j].rest[m] : m \in DOMAIN calls[j].rest}
           U == UNION {R(j) : j \in DOMAIN calls}
<1>1. \A j : p \in R(j) <=> \E m \in DOMAIN calls[j].rest : p = calls[j].rest[m]
  OBVIOUS
<1>2. RestsOf(calls) = U
  BY DEF RestsOf
<1> HIDE DEF R
<1>3. p \in U <=> \E j \in DOMAIN calls : p \in R(j)
  OBVIOUS
<1> QED BY <1>1, <1>2, <1>3 DEF InRest

(* A node is pending that is to go in a call, or looked for. *)
LEMMA PendingIs ==
    ASSUME NEW p \in Node
    PROVE  p \in Pending <=> \/ InRest(stack, p)
                             \/ at \notin {"loop", "done", "failed"} /\ IsAt(targetPath, p)
<1>1. Pending = RestsOf(stack) \cup (IF at \in {"loop", "done", "failed"} THEN {}
                                     ELSE {n \in Node : IsAt(targetPath, n)})
  BY DEF Pending, RestsOf
<1> QED BY <1>1, InRests

(* The same after a step. *)
LEMMA PendingWillBe ==
    ASSUME NEW p \in Node
    PROVE  p \in Pending' <=> \/ InRest(stack', p)
                              \/ at' \notin {"loop", "done", "failed"} /\ IsAt(targetPath, p)'
<1>1. Pending' = RestsOf(stack') \cup (IF at' \in {"loop", "done", "failed"} THEN {}
                                       ELSE {n \in Node : IsAt(targetPath, n)'})
  BY DEF Pending, RestsOf
<1> QED BY <1>1, InRests

(* On the way to a node every directory has the next one. *)
LEMMA WayGoesOn ==
    ASSUME NEW n \in Node, NEW d \in PathNodes(n), d # n
    PROVE  \E c \in ChildrenOf(d) : c \in PathNodes(n)
<1>1. PICK i \in DOMAIN Path[n] : d = Path[n][i]
  BY DEF PathNodes
<1> DEFINE p == Path[n]
           L == Len(p)
<1>2. /\ p \in Seq(Node) /\ p[L] = n
      /\ \A j \in 1..(L - 1) : p[j + 1] \in ChildrenOf(p[j])
  BY PathIsWay DEF IsWay
<1>3. L \in Nat /\ DOMAIN p = 1..L
  BY <1>2
<1>4. d = p[i] /\ i \in DOMAIN p
  BY <1>1
<1>5. \A j \in DOMAIN p : p[j] \in PathNodes(n)
  BY DEF PathNodes
<1> HIDE DEF p, L
<1>6. i \in 1..(L - 1) /\ i + 1 \in 1..L
  BY <1>2, <1>3, <1>4
<1> QED BY <1>2, <1>3, <1>4, <1>5, <1>6

(* The calls of DownloadTree are on the way from the source. *)
LEMMA CallsAreOnTheWay ==
    ASSUME TypeInv, StackInv, Located, OnPath(RootNames, source)
    PROVE  \A j \in DOMAIN stack : \A i \in 1..j : stack[i].directory \in PathNodes(stack[j].directory)
<1> DEFINE N == Len(stack)
           d(j) == stack[j].directory
           T == {k \in Nat : k \in 1..N => \A i \in 1..k : d(i) \in PathNodes(d(k))}
<1>1. /\ N \in Nat /\ DOMAIN stack = 1..N
      /\ \A j \in 1..N : stack[j] \in CallsOver(lost)
  BY DEF TypeInv
<1>2. \A j \in 1..N : d(j) \in Directory
  BY <1>1, CallIs
<1>3. \A j \in 1..N : j > 1 => d(j) \in ChildrenOf(d(j - 1))
  BY <1>1 DEF StackInv
<1>4. \A j \in 1..N : d(j) \in PathNodes(d(j))
  <2>1. Directory \subseteq Node
    BY FindNodeAssumption DEF FindNodeAssumption
  <2> QED BY <1>2, <2>1, PathNodesOf
<1> HIDE DEF N, d
<1>5. 0 \in T
  OBVIOUS
<1>6. ASSUME NEW k \in Nat, k \in T PROVE k + 1 \in T
  <2>1. SUFFICES ASSUME k + 1 \in 1..N, NEW i \in 1..(k + 1) PROVE d(i) \in PathNodes(d(k + 1))
    OBVIOUS
  <2>2. CASE i = k + 1
    BY <1>4, <2>1, <2>2
  <2>3. CASE i # k + 1
    <3>1. i \in 1..k /\ k \in 1..N /\ k + 1 > 1 /\ (k + 1) - 1 = k
      BY <1>1, <2>1, <2>3
    <3>2. d(k + 1) \in ChildrenOf(d(k)) /\ d(k) \in Directory
      BY <1>2, <1>3, <2>1, <3>1
    <3>3. PathNodes(d(k + 1)) = PathNodes(d(k)) \cup {d(k + 1)}
      BY <3>2, PathNodesOf
    <3>4. d(i) \in PathNodes(d(k))
      BY <1>6, <3>1
    <3> QED BY <3>3, <3>4
  <2> QED BY <2>2, <2>3
<1>7. Nat \subseteq T
  <2> HIDE DEF T
  <2> QED BY <1>5, <1>6, Induction
<1>8. \A j \in 1..N : \A i \in 1..j : d(i) \in PathNodes(d(j))
  <2>1. \A j \in 1..N : j \in Nat
    BY <1>1
  <2> QED BY <1>7, <2>1
<1> QED BY <1>1, <1>8 DEF d

(* What is known of a file that can be had. *)
Reached(f) ==
    /\ f \in Node \ Directory
    /\ (PathNodes(f) \cup {Commit}) \cap lost = {}
    /\ BlobsOf[f] \in Seq(Blob) /\ \A j \in DOMAIN BlobsOf[f] : BlobsOf[f][j] \notin lost
    /\ \A d \in PathNodes(f) \ {f} :
            (\E n \in PathNodes(d) : AtNames(source, NamesAt(RootNames, n))) => d \notin ReadOnly
    /\ \E n \in PathNodes(f) : IsAt(source, n)
    /\ OnPath(RootNames, source)

(* What follows for a file that can be had. *)
LEMMA RecoverableIs ==
    ASSUME backup \in CommitsRead, NEW f \in Recoverable
    PROVE  Reached(f)
<1>1. /\ f \in Node \ Directory
      /\ \E n \in PathNodes(f) : IsAt(source, n)
      /\ (PathNodes(f) \cup {Commit}) \cap lost = {}
      /\ {BlobsOf[f][j] : j \in DOMAIN BlobsOf[f]} \cap lost = {}
      /\ \A d \in PathNodes(f) \ {f} :
              (\E n \in PathNodes(d) : IsAt(source, n)) => d \notin ReadOnly
  BY DEF Recoverable, Asked
<1>2. BlobsOf[f] \in Seq(Blob)
  BY <1>1, FindNodeAssumption DEF FindNodeAssumption
<1>3. PathNodes(f) \subseteq Node /\ PathNodes(f) \ {f} \subseteq Directory /\ Directory \subseteq Node
  BY <1>1, PathNodesOf, FindNodeAssumption DEF FindNodeAssumption
<1>4. OnPath(RootNames, source)
  BY <1>1, <1>3, AtNode, NodeOn
<1>5. \A d \in PathNodes(f) \ {f} :
              (\E n \in PathNodes(d) : AtNames(source, NamesAt(RootNames, n))) => d \notin ReadOnly
  <2>1. SUFFICES ASSUME NEW d \in PathNodes(f) \ {f}, NEW n \in PathNodes(d), AtNames(source, NamesAt(RootNames, n))
                 PROVE  d \notin ReadOnly
    OBVIOUS
  <2>2. n \in Node
    BY <1>3, <2>1, PathNodesOf
  <2>3. IsAt(source, n)
    BY <2>1, <2>2, AtNode
  <2> QED BY <1>1, <2>3
<1>6. \A j \in DOMAIN BlobsOf[f] : BlobsOf[f][j] \notin lost
  BY <1>1
<1> QED BY <1>1, <1>2, <1>4, <1>5, <1>6 DEF Reached

(* A file that can be had can be made. *)
LEMMA ReachedIsMade ==
    ASSUME PlaceInv, DiskInv, command = "recover", Located, ~accident, at \in {"found", "copy"},
           Reached(FoundNode)
    PROVE  CanMake
<1>1. TypeInv /\ NodeInv /\ SourceInv /\ PathInv /\ StackInv /\ backup \in CommitsRead
  BY DEF PlaceInv, FetchInv, TypeInv
<1>2. SUFFICES ASSUME stack # <<>> PROVE disk[Top.directory] = "directory" /\ Top.directory \notin ReadOnly
  BY DEF CanMake
<1> DEFINE N == Len(stack)
           f == FoundNode
<1>3. N \in 1..N /\ Top = stack[N] /\ DOMAIN stack = 1..N /\ \A j \in 1..N : stack[j] \in CallsOver(lost)
  BY <1>1, <1>2, StackIs DEF TypeInv
<1>4. OnPath(RootNames, source) /\ f \in Node \ Directory
  BY DEF Reached
<1>5. AtNames(targetPath, NamesAt(RootNames, f))
  BY <1>1, <1>4, TargetOn, FoundAt DEF Ended
<1>6. PICK c \in ChildrenOf(stack[N].directory) : targetPath = Rooted(NamesAt(RootNames, c))
  BY <1>1, <1>2, <1>4 DEF StackInv, Ended
<1>7. stack[N].directory \in Directory
  BY <1>3, CallIs
<1>8. c = f
  <2>1. c \in Node /\ AtNames(targetPath, NamesAt(RootNames, c))
    BY <1>6, <1>7, ChildPath DEF AtNames
  <2> QED BY <1>1, <1>4, <1>5, <2>1, NodeAt
<1>9. PathNodes(f) = PathNodes(stack[N].directory) \cup {f}
  BY <1>6, <1>7, <1>8, PathNodesOf
<1>10. AtNames(source, NamesAt(RootNames, stack[1].directory))
  BY <1>1, <1>2, <1>4 DEF StackInv
<1> HIDE DEF N, f
<1>11. ASSUME NEW i \in 1..N PROVE stack[i].directory \notin ReadOnly
  <2>1. stack[i].directory \in Directory
    BY <1>3, CallIs
  <2>2. stack[i].directory \in PathNodes(f) \ {f}
    <3>1. stack[i].directory \in PathNodes(stack[N].directory)
      BY <1>1, <1>3, <1>4, CallsAreOnTheWay
    <3> QED BY <1>4, <1>9, <2>1, <3>1
  <2>3. stack[1].directory \in PathNodes(stack[i].directory)
    <3>1. 1 \in 1..i
      BY <1>3
    <3> QED BY <1>1, <1>3, <1>4, <3>1, CallsAreOnTheWay
  <2> QED BY <1>10, <2>2, <2>3 DEF Reached, f
<1>12. disk[stack[N].directory] = "directory"
  <2>1. \A i \in 1..(N - 1) : i \in 1..N
    BY <1>3
  <2> QED BY <1>3, <1>11, <2>1 DEF DiskInv
<1> QED BY <1>3, <1>11, <1>12

(* A file that can be had is there, or something on the way to it is still *)
(* to be gone through.                                                     *)
RecoveryInv ==
    command = "recover" /\ Located /\ ~accident =>
        \A f \in Recoverable : disk[f] = "complete" \/ \E p \in PathNodes(f) : p \in Pending

(* A file that can be had can be had later. *)
LEMMA RecoverableStays ==
    ASSUME UNCHANGED <<backup, lost, source>>
    PROVE  Recoverable' = Recoverable
<1>1. RealRoot' = RealRoot
  BY SameRoot
<1>2. \A n \in Node : IsAt(source, n)' <=> IsAt(source, n)
  BY <1>1 DEF IsAt, PathOf
<1>3. Asked' = Asked
  <2>1. \A f \in Node : PathNodes(f) \subseteq Node
    BY PathNodesOf
  <2> QED BY <1>2, <2>1 DEF Asked
<1>4. \A f \in Asked : f \in Node /\ \A d \in PathNodes(f) : PathNodes(d) \subseteq Node
  BY PathNodesOf DEF Asked
<1> DEFINE P(f) == /\ (PathNodes(f) \cup {Commit}) \cap lost = {}
                   /\ {BlobsOf[f][j] : j \in DOMAIN BlobsOf[f]} \cap lost = {}
           Q(f) == \A d \in PathNodes(f) \ {f} : (\E n \in PathNodes(d) : IsAt(source, n)) => d \notin ReadOnly
<1>5. \A f \in Asked : Q(f)' <=> Q(f)
  BY <1>2, <1>4
<1>6. \A f : P(f)' <=> P(f)
  OBVIOUS
<1>7. Recoverable = {f \in Asked : P(f) /\ Q(f)} /\ Recoverable' = {f \in Asked' : P(f)' /\ Q(f)'}
  BY DEF Recoverable
<1> HIDE DEF P, Q
<1> QED BY <1>3, <1>5, <1>6, <1>7

(* FindNode does not miss what is on the way to a file that can be had. *)
LEMMA ReachedIsFound ==
    ASSUME PlaceInv, PresentIsFound, Located, ~accident, NEW f, Reached(f)
    PROVE  at # "missing"
<1>1. SUFFICES ASSUME at = "missing" PROVE FALSE
  OBVIOUS
<1>2. TypeInv /\ SourceInv /\ StackInv /\ backup \in CommitsRead
  BY DEF PlaceInv, FetchInv, TypeInv
<1>3. OnPath(RootNames, source) /\ Commit \notin lost /\ f \in Node /\ PathNodes(f) \subseteq Node
  BY PathNodesOf DEF Reached
<1>4. \A n \in Node : ~IsAt(targetPath, n)
  BY <1>1, <1>3 DEF PresentIsFound
<1>5. CASE stack = <<>>
  <2>1. targetPath = source
    BY <1>1, <1>2, <1>5 DEF SourceInv, Ended
  <2> QED BY <1>3, <1>4, <2>1 DEF Reached
<1>6. CASE stack # <<>>
  <2>1. PICK c \in ChildrenOf(stack[Len(stack)].directory) : targetPath = Rooted(NamesAt(RootNames, c))
    BY <1>1, <1>2, <1>3, <1>6 DEF StackInv, Ended
  <2>2. stack[Len(stack)].directory \in Directory
    BY <1>2, <1>6, StackIs, CallIs
  <2>3. c \in Node /\ AtNames(targetPath, NamesAt(RootNames, c))
    BY <2>1, <2>2, ChildPath DEF AtNames
  <2> QED BY <1>2, <1>4, <2>3, AtNode
<1> QED BY <1>5, <1>6

(* The nodes to go through, but for one that the step takes up. *)
LEMMA RestMoves ==
    ASSUME TypeInv, NodeInv, HashInv, TreeInv, SourceInv, [Next]_vars, NEW p, InRest(stack, p), ~Missing
    PROVE  InRest(stack', p) \/ (Shifted /\ p = Head(Top.rest))
<1> DEFINE N == Len(stack)
<1>1. PICK j \in DOMAIN stack : \E m \in DOMAIN stack[j].rest : p = stack[j].rest[m]
  BY DEF InRest
<1>2. PICK m \in DOMAIN stack[j].rest : p = stack[j].rest[m]
  BY <1>1
<1>3. N \in Nat \ {0} /\ DOMAIN stack = 1..N /\ stack # <<>> /\ Top = stack[N] /\ Top \in CallsOver(lost)
  <2>1. stack # <<>>
    BY DEF TypeInv
  <2> QED BY <2>1, StackIs DEF TypeInv
<1>4. stack' \in Seq(CallsOver(lost))
  <2>1. TypeInv' /\ lost' = lost
    BY TypeStep, CommandIs, WalkIs, NextNodeIs
  <2>2. CallsOver(lost)' = CallsOver(lost')
    BY DEF CallsOver
  <2> QED BY <2>1, <2>2 DEF TypeInv
<1> HIDE DEF N
<1>5. ASSUME j \in DOMAIN stack', stack'[j] = stack[j] PROVE InRest(stack', p)
  BY <1>2, <1>5 DEF InRest
<1>6. CASE stack' = stack
  BY <1>5, <1>6
<1>7. CASE Popped
  <2>1. Top.rest = <<>>
    BY <1>7 DEF Popped
  <2>2. j # N
    BY <1>2, <1>3, <2>1
  <2>3. stack' = Pop /\ Len(Pop) = N - 1 /\ \A i \in 1..(N - 1) : Pop[i] = stack[i]
    BY <1>3, <1>7, StackIs DEF Popped, N
  <2>4. j \in 1..(N - 1)
    BY <1>3, <2>2
  <2> QED BY <1>4, <1>5, <2>3, <2>4
<1>8. CASE Pushed
  <2> DEFINE call == Call
  <2>1. stack' = Append(stack, call) /\ call \in CallsOver(lost)
    BY <1>8, CallOf DEF Pushed
  <2> HIDE DEF call
  <2>2. Len(stack') = N + 1 /\ \A i \in 1..N : stack'[i] = stack[i]
    BY <2>1, AppendProperties DEF TypeInv, N
  <2>3. j \in 1..(N + 1)
    BY <1>3
  <2> QED BY <1>3, <1>4, <1>5, <2>2, <2>3
<1>9. CASE Shifted
  <2>1. /\ Len(stack') = N /\ stack'[N] = Onwards(Top) /\ Top.rest # <<>>
        /\ \A i \in 1..(N - 1) : stack'[i] = stack[i]
    BY <1>9 DEF Shifted, N
  <2>2. DOMAIN stack' = 1..N
    BY <1>4, <2>1
  <2>3. CASE j # N
    <3>1. j \in 1..(N - 1)
      BY <1>3, <2>3
    <3> QED BY <1>3, <1>5, <2>1, <2>2, <3>1
  <2>4. CASE j = N /\ m = 1
    <3>1. Top.rest \in Seq(Node)
      BY <1>3, CallIs
    <3>2. p = Head(Top.rest)
      BY <1>2, <1>3, <2>1, <2>4, <3>1
    <3> QED BY <1>9, <3>2
  <2>5. CASE j = N /\ m # 1
    <3>1. m \in DOMAIN Top.rest \ {1}
      BY <1>2, <1>3, <2>5
    <3>2. p = Tail(Top.rest)[m - 1] /\ m - 1 \in DOMAIN Tail(Top.rest)
      BY <1>2, <1>3, <2>1, <2>5, <3>1, OnwardsIs
    <3>3. N \in DOMAIN stack' /\ stack'[N].rest = Tail(Top.rest)
      BY <1>3, <2>1, <2>2 DEF Onwards
    <3> QED BY <3>2, <3>3 DEF InRest
  <2> QED BY <2>3, <2>4, <2>5
<1> QED BY <1>6, <1>7, <1>8, <1>9, StackMoves

(* A node that is looked for and found is the one that was found. *)
LEMMA FoundIsIt ==
    ASSUME PlaceInv, Located, OnPath(RootNames, source), at \in {"found", "copy"},
           NEW p \in Node, IsAt(targetPath, p)
    PROVE  p = FoundNode
<1>1. TypeInv /\ NodeInv /\ SourceInv /\ PathInv /\ StackInv /\ backup \in CommitsRead
  BY DEF PlaceInv, FetchInv, TypeInv
<1>2. AtNames(targetPath, NamesAt(RootNames, FoundNode))
  BY <1>1, TargetOn, FoundAt DEF Ended
<1>3. AtNames(targetPath, NamesAt(RootNames, p))
  BY <1>1, AtNode
<1> QED BY <1>1, <1>2, <1>3, NodeAt, FoundIs

(* Every step keeps it: a file is taken off the list with the node on its  *)
(* way that is looked for next, which is found, made and gone into.        *)
LEMMA RecoveryStep ==
    ASSUME PlaceInv, DiskInv, PresentIsFound, RecoveryInv, [Next]_vars
    PROVE  RecoveryInv'
<1>1. TypeInv /\ NodeInv /\ HashInv /\ TreeInv /\ SourceInv /\ PathInv /\ StackInv /\ backup \in CommitsRead
  BY DEF PlaceInv, FetchInv, TypeInv
<1>2. UNCHANGED <<backup, lost, command, source>> /\ (accident => accident')
  BY <1>1, CommandIs, WalkIs, NextNodeIs
<1>3. Located' = Located /\ RealRoot' = RealRoot
  BY <1>2, SameRoot
<1>4. SUFFICES ASSUME command = "recover", Located, ~accident', NEW f \in Recoverable
               PROVE  disk'[f] = "complete" \/ \E p \in PathNodes(f) : p \in Pending'
  BY <1>2, <1>3, RecoverableStays DEF RecoveryInv
<1>5. Reached(f) /\ ~accident
  BY <1>1, <1>2, <1>4, RecoverableIs
<1>6. /\ f \in Node /\ f \notin Directory /\ OnPath(RootNames, source)
      /\ PathNodes(f) \subseteq Node /\ PathNodes(f) \ {f} \subseteq Directory /\ f \in PathNodes(f)
      /\ PathNodes(f) \cap lost = {}
  BY <1>5, PathNodesOf DEF Reached
<1>7. ~Missing
  BY <1>4, <1>5, ReachedIsFound DEF Missing
<1>8. ASSUME NEW p \in PathNodes(f), IsAt(targetPath, p), targetPath' = targetPath,
             at' \notin {"loop", "done", "failed"}
      PROVE  p \in Pending'
  <2>1. IsAt(targetPath, p)'
    BY <1>3, <1>8 DEF IsAt, PathOf
  <2> QED BY <1>6, <1>8, <2>1, PendingWillBe
<1>9. ~(OpenFails /\ FoundNode = f)
  <2>1. SUFFICES ASSUME OpenFails, FoundNode = f PROVE FALSE
    OBVIOUS
  <2>2. at = "found" /\ ~CanMake
    BY <1>4, <2>1 DEF OpenFails, FoundFile
  <2> QED BY <1>4, <1>5, <2>1, <2>2, ReachedIsMade
<1>10. CASE disk[f] = "complete"
  <2>1. CASE OpenWriter /\ f = FoundNode
    <3>1. at = "found" /\ at' = "copy" /\ targetPath' = targetPath
      BY <2>1 DEF OpenWriter, FoundFile, walkVars
    <3>2. AtNames(targetPath, NamesAt(RootNames, f))
      BY <1>1, <1>4, <1>6, <2>1, <3>1, TargetOn, FoundAt DEF Ended
    <3>3. IsAt(targetPath, f)
      BY <1>1, <1>6, <3>2, AtNode
    <3> QED BY <1>6, <1>8, <3>1, <3>3
  <2>2. CASE ~(OpenWriter /\ f = FoundNode)
    BY <1>1, <1>6, <1>9, <1>10, <2>2, DiskIs
  <2> QED BY <2>1, <2>2
<1>11. CASE disk[f] # "complete"
  <2>1. PICK p \in PathNodes(f) : p \in Pending
    BY <1>4, <1>5, <1>11 DEF RecoveryInv
  <2>2. p \in Node /\ (p \in Directory \/ p = f) /\ p \notin lost
    BY <1>6, <2>1
  <2>3. CASE InRest(stack, p)
    <3>1. CASE InRest(stack', p)
      BY <2>1, <2>2, <3>1, PendingWillBe
    <3>2. CASE Shifted /\ p = Head(Top.rest)
      <4>1. NextNode
        <5>1. at = "loop" /\ Top.rest # <<>> /\ stack # <<>> /\ stack' # stack
          <6>1. stack # <<>> /\ Top.rest # <<>> /\ stack'[Len(stack)] = Onwards(Top)
            BY <3>2 DEF Shifted
          <6>2. Top \in CallsOver(lost) /\ stack[Len(stack)] = Top
            BY <1>1, <6>1, StackIs
          <6>3. Top.rest \in Seq(Node) /\ Onwards(Top).rest = Tail(Top.rest)
            BY <6>2, CallIs DEF Onwards
          <6>4. Tail(Top.rest) # Top.rest
            <7> DEFINE r == Top.rest
            <7>1. r \in Seq(Node) /\ r # <<>>
              BY <6>1, <6>3
            <7> HIDE DEF r
            <7>2. Len(Tail(r)) = Len(r) - 1 /\ Len(r) \in Nat
              BY <7>1, HeadTailProperties
            <7>3. Tail(r) # r
              BY <7>2
            <7> QED BY <7>3 DEF r
          <6> QED BY <3>2, <6>1, <6>2, <6>3, <6>4 DEF Shifted
        <5>2. ~Walk
          BY <1>1, <5>1, WalkIs
        <5> QED BY <1>4, <5>1, <5>2 DEF Next, Missing, NodesDone, TreeIsNil, MakeDirectory, FoundDirectory, OpenWriter,
                FoundFile, OpenFails, CopyBlob, CopyStops, CopyEnds, ListDirectory, PrintNode, ListFile, vars
      <4>2. /\ stack # <<>> /\ Head(Top.rest) \in ChildrenOf(Top.directory)
            /\ targetPath' = Join(Top.path, Name[p]) /\ at' = "commit"
        BY <1>1, <3>2, <4>1, NextNodeIs
      <4>3. Top = stack[Len(stack)] /\ Len(stack) \in DOMAIN stack /\ Top \in CallsOver(lost)
        BY <1>1, <4>2, StackIs DEF TypeInv
      <4>4. AtNames(Top.path, NamesAt(RootNames, Top.directory)) /\ Top.directory \in Directory
        BY <1>1, <1>4, <1>6, <4>3, CallIs DEF StackInv
      <4>5. targetPath' = Rooted(NamesAt(RootNames, p))
        BY <1>1, <3>2, <4>2, <4>4, JoinChild
      <4>6. AtNames(targetPath', NamesAt(RootNames, p))
        BY <4>5 DEF AtNames
      <4>7. IsAt(targetPath', p)
        BY <1>1, <2>2, <4>6, AtNode
      <4>8. IsAt(targetPath, p)'
        BY <1>3, <4>7 DEF IsAt, PathOf
      <4> QED BY <2>1, <2>2, <4>2, <4>8, PendingWillBe
    <3> QED BY <1>1, <1>7, <2>3, <3>1, <3>2, RestMoves
  <2>4. CASE at \notin {"loop", "done", "failed"} /\ IsAt(targetPath, p)
    <3>1. CASE at' \notin {"loop", "done", "failed"}
      <4>1. targetPath' = targetPath
        BY <1>1, <2>4, CommandIs, WalkIs, NextNodeIs DEF walkVars
      <4> QED BY <1>8, <2>1, <2>4, <3>1, <4>1
    <3>2. CASE MakeDirectory
      <4>1. at = "found" /\ FoundDirectory /\ tree # Nil /\ stack' = Append(stack, Call)
        BY <3>2 DEF MakeDirectory, FoundDirectory
      <4>2. FoundNode \in Directory /\ Call \in CallsOver(lost) /\ Call.rest = Children[FoundNode]
        BY <1>1, <4>1, CallOf
      <4>3. p = FoundNode
        BY <1>4, <1>6, <2>2, <2>4, <4>1, FoundIsIt
      <4>4. PICK c \in ChildrenOf(p) : c \in PathNodes(f)
        BY <1>6, <2>1, <4>2, <4>3, WayGoesOn
      <4>5. \E m \in DOMAIN Children[p] : c = Children[p][m]
        BY <4>4 DEF ChildrenOf
      <4>6. InRest(stack', c)
        <5> DEFINE call == Call
        <5>1. stack' = Append(stack, call) /\ call \in CallsOver(lost) /\ call.rest = Children[p]
          BY <4>1, <4>2, <4>3
        <5> HIDE DEF call
        <5>2. stack \in Seq(CallsOver(lost))
          BY <1>1 DEF TypeInv
        <5>3. Len(stack) + 1 \in DOMAIN stack' /\ stack'[Len(stack) + 1] = call
          BY <5>1, <5>2, AppendProperties
        <5> QED BY <4>5, <5>1, <5>3 DEF InRest
      <4> QED BY <1>6, <4>4, <4>6, PendingWillBe
    <3>3. CASE TreeIsNil
      <4>1. at = "found" /\ FoundDirectory /\ tree = Nil
        BY <3>3 DEF TreeIsNil, FoundDirectory
      <4>2. FoundNode \in Directory
        BY <1>1, <4>1, FoundDirectoryIs
      <4>3. FoundNode \in lost
        BY <1>1, <1>5, <4>1, <4>2 DEF TreeInv
      <4>4. p = FoundNode
        BY <1>4, <1>6, <2>2, <2>4, <4>1, FoundIsIt
      <4> QED BY <2>2, <4>3, <4>4
    <3>4. CASE OpenFails
      <4>1. at = "found" /\ FoundNode \notin Directory
        BY <1>1, <3>4, FoundFileIs DEF OpenFails
      <4>2. p = FoundNode
        BY <1>4, <1>6, <2>2, <2>4, <4>1, FoundIsIt
      <4> QED BY <1>9, <2>2, <3>4, <4>1, <4>2
    <3>5. CASE CopyStops
      <4>1. at = "copy" /\ NextIsLost
        BY <1>4, <3>5 DEF CopyStops
      <4>2. FoundNode \notin Directory /\ currentNode # Nil /\ copied \in Nat
        BY <1>1, <4>1 DEF TreeInv, TypeInv
      <4>3. p = FoundNode
        BY <1>4, <1>6, <2>2, <2>4, <4>1, FoundIsIt
      <4>4. f = FoundNode
        BY <2>2, <4>2, <4>3
      <4>5. currentNode.keys = BlobsOf[f]
        BY <1>1, <4>2, <4>4, FoundIs DEF KeysOf
      <4>6. copied < Len(BlobsOf[f]) /\ BlobsOf[f][copied + 1] \in lost
        BY <4>1, <4>5 DEF NextIsLost, MoreBlobs
      <4>7. copied + 1 \in DOMAIN BlobsOf[f]
        BY <1>5, <4>2, <4>6 DEF Reached
      <4> QED BY <1>5, <4>6, <4>7 DEF Reached
    <3>6. CASE CopyEnds
      <4>1. at = "copy" /\ disk' = [disk EXCEPT ![FoundNode] = "complete"]
        BY <3>6 DEF CopyEnds
      <4>2. FoundNode \notin Directory
        BY <1>1, <4>1 DEF TreeInv
      <4>3. p = FoundNode
        BY <1>4, <1>6, <2>2, <2>4, <4>1, FoundIsIt
      <4> QED BY <1>1, <1>6, <2>2, <4>1, <4>2, <4>3 DEF TypeInv
    <3>7. at' \notin {"loop", "done", "failed"} \/ MakeDirectory \/ TreeIsNil \/ OpenFails \/ CopyStops \/ CopyEnds
      <4>1. CASE Walk
        BY <1>1, <4>1, WalkIs
      <4>2. CASE ~Walk
        BY <1>4, <1>7, <2>4, <4>2 DEF Next, NextNode, NodesDone, OpenWriter, CopyBlob, ListDirectory, PrintNode,
                ListFile, vars
      <4> QED BY <4>1, <4>2
    <3> QED BY <3>1, <3>2, <3>3, <3>4, <3>5, <3>6, <3>7
  <2> QED BY <2>1, <2>2, <2>3, <2>4, PendingIs
<1> QED BY <1>10, <1>11

(* The source is looked for when a command begins. *)
LEMMA RecoveryInit ==
    ASSUME Init
    PROVE  RecoveryInv
<1>1. at = "commit" /\ targetPath = source
  BY DEF Init, FindNodeInit
<1>2. SUFFICES ASSUME NEW f \in Recoverable PROVE \E p \in PathNodes(f) : p \in Pending
  BY DEF RecoveryInv
<1>3. f \in Node /\ \E n \in PathNodes(f) : IsAt(source, n)
  BY <1>2 DEF Recoverable, Asked
<1>4. PathNodes(f) \subseteq Node
  BY <1>3, PathNodesOf
<1> QED BY <1>1, <1>3, <1>4, PendingIs

(* A file that can be had is there, or something on the way to it is still *)
(* to be gone through.                                                     *)
THEOREM RecoveryInvariant == Spec => []RecoveryInv
<1>1. PlaceInv /\ DiskInv /\ PresentIsFound /\ RecoveryInv /\ [Next]_vars => RecoveryInv'
  BY RecoveryStep
<1> QED BY <1>1, RecoveryInit, PlaceInvariant, DiskInvariant, PresentFound, PTL DEF Spec

(* Whatever is lost of the backup, a recovery that met no accident has     *)
(* every file it has been through that can be had.                         *)
THEOREM RecoversTheOthers == Spec => []OthersAreRecovered
<1>1. RecoveryInv => OthersAreRecovered
  <2>1. \A f \in Recoverable : (\E p \in PathNodes(f) : p \in Pending) => PathNodes(f) \cap Pending # {}
    OBVIOUS
  <2> QED BY <2>1 DEF RecoveryInv, OthersAreRecovered
<1> QED BY <1>1, RecoveryInvariant, PTL
================================================================================
