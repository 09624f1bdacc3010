---------------------------- MODULE ClientProofs ----------------------------
(***************************************************************************)
(* Proofs about Client: provided nobody writes to the client before it has *)
(* its login result (Quiet) and one recv() brings all of that              *)
(* (InOnePiece), it stays in step with the stream, never fails by the      *)
(* limit on its buffer, never leaves more replies unread than fit under    *)
(* way, and its verdicts are true, whatever the frames, the chunks, the    *)
(* replies dropped, the frames nobody asked for and the moments at which   *)
(* the server closes.                                                      *)
(*                                                                         *)
(* The stream is the frames strung together (FlattenSeq), and what the     *)
(* client does with it is defined by recursion (drained), so facts about   *)
(* all lengths are needed first.  The provers cannot apply the library's   *)
(* rules of induction, whose parameter is an operator.  Here the parameter *)
(* is a set: the numbers for which the fact holds (SetInduction), from the *)
(* library's theorem that a well-founded relation has minimal elements.    *)
(***************************************************************************)
EXTENDS Client, SequenceTheorems, WellFoundedInduction, TLAPS

-----------------------------------------------------------------------------
(* Induction *)

(* A set of natural numbers that is not empty has a least member. *)
LEMMA LeastNumber ==
    ASSUME NEW T \in SUBSET Nat, T # {}
    PROVE  \E x \in T : \A y \in T : x <= y
<1> DEFINE R == OpToRel(<, Nat)
<1>1. IsWellFoundedOn(R, Nat)
  BY NatLessThanWellFounded
<1> HIDE DEF R
<1>2. PICK x \in T : \A y \in T : ~ (<<y, x>> \in R)
  BY <1>1, WFMin
<1>3. \A y \in T : ~ (y < x)
  BY <1>2 DEF OpToRel, R
<1> QED
  BY <1>3

(* What holds of 0, and of n + 1 where it holds of n, holds of all n. *)
LEMMA SetInduction ==
    ASSUME NEW T, 0 \in T, \A n \in T \cap Nat : n + 1 \in T
    PROVE  Nat \subseteq T
<1> SUFFICES ASSUME Nat \ T # {} PROVE FALSE
  OBVIOUS
<1>1. PICK x \in Nat \ T : \A y \in Nat \ T : x <= y
  BY LeastNumber
<1>2. x # 0 /\ x - 1 \in Nat
  BY <1>1
<1>3. x - 1 \in T
  BY <1>1, <1>2
<1>4. (x - 1) + 1 = x
  BY <1>1
<1>5. (x - 1) + 1 \in T
  BY <1>2, <1>3
<1> QED
  BY <1>1, <1>4, <1>5

-----------------------------------------------------------------------------
(* Sequences *)

(* s \o t.  Its definition stays hidden: the provers unfold \o wherever    *)
(* they see it, and lose the law they were to apply.                       *)
Cat(s, t) == s \o t

(* Length and elements. *)
LEMMA CatIs ==
    ASSUME NEW S, NEW s, NEW t, s \in Seq(S), t \in Seq(S)
    PROVE  /\ Cat(s, t) \in Seq(S) /\ Len(Cat(s, t)) = Len(s) + Len(t)
           /\ Len(s) \in Nat /\ Len(t) \in Nat
           /\ \A i \in 1..Len(s) : Cat(s, t)[i] = s[i]
           /\ \A i \in 1..Len(t) : Cat(s, t)[Len(s) + i] = t[i]
<1>1. /\ Cat(s, t) \in Seq(S) /\ Len(Cat(s, t)) = Len(s) + Len(t)
      /\ \A i \in 1..Len(s) + Len(t) : Cat(s, t)[i] = IF i <= Len(s) THEN s[i] ELSE t[i - Len(s)]
  BY ConcatProperties DEF Cat
<1>2. Len(s) \in Nat /\ Len(t) \in Nat
  OBVIOUS
<1>3. ASSUME NEW i \in 1..Len(t) PROVE Cat(s, t)[Len(s) + i] = t[i]
  <2>1. Len(s) + i \in 1..Len(s) + Len(t) /\ ~ (Len(s) + i <= Len(s)) /\ (Len(s) + i) - Len(s) = i
    BY <1>2
  <2> QED
    BY <1>1, <2>1
<1> QED
  BY <1>1, <1>2, <1>3

LEMMA CatEmpty ==
    ASSUME NEW S, NEW s, s \in Seq(S)
    PROVE  Cat(s, <<>>) = s /\ Cat(<<>>, s) = s
BY ConcatEmptySeq DEF Cat

LEMMA Regroup ==
    ASSUME NEW S, NEW s, NEW t, NEW u, s \in Seq(S), t \in Seq(S), u \in Seq(S)
    PROVE  Cat(Cat(s, t), u) = Cat(s, Cat(t, u))
BY ConcatAssociative DEF Cat

(* A sequence cut in two. *)
LEMMA Cut ==
    ASSUME NEW S, NEW s, s \in Seq(S), NEW n \in 0..Len(s)
    PROVE  /\ SubSeq(s, 1, n) \in Seq(S) /\ Len(SubSeq(s, 1, n)) = n
           /\ SubSeq(s, n + 1, Len(s)) \in Seq(S)
           /\ Len(SubSeq(s, n + 1, Len(s))) = Len(s) - n
           /\ \A i \in 1..n : SubSeq(s, 1, n)[i] = s[i]
           /\ \A i \in 1..Len(s) - n : SubSeq(s, n + 1, Len(s))[i] = s[n + i]
           /\ s = Cat(SubSeq(s, 1, n), SubSeq(s, n + 1, Len(s)))
<1>0. /\ Len(s) \in Nat /\ n \in Nat /\ n <= Len(s)
      /\ \A i \in 1..Len(s) : s[i] \in S
  OBVIOUS
<1>1. /\ SubSeq(s, 1, n) \in Seq(S) /\ Len(SubSeq(s, 1, n)) = n
      /\ \A i \in 1..n : SubSeq(s, 1, n)[i] = s[i]
  <2>1. \A i \in 1..n : s[i] \in S
    BY <1>0
  <2>2. SubSeq(s, 1, n) \in Seq(S)
    BY <2>1, <1>0, SubSeqProperties
  <2>3. Len(SubSeq(s, 1, n)) = n
    BY <2>1, <1>0, SubSeqProperties
  <2>4. \A i \in 1..n - 1 + 1 : SubSeq(s, 1, n)[i] = s[1 + i - 1]
    BY <2>1, <1>0, SubSeqProperties
  <2> QED
    BY <1>0, <2>2, <2>3, <2>4
<1>2. /\ SubSeq(s, n + 1, Len(s)) \in Seq(S)
      /\ Len(SubSeq(s, n + 1, Len(s))) = Len(s) - n
      /\ \A i \in 1..Len(s) - n : SubSeq(s, n + 1, Len(s))[i] = s[n + i]
  <2>1. \A i \in n + 1..Len(s) : s[i] \in S
    BY <1>0
  <2>2. SubSeq(s, n + 1, Len(s)) \in Seq(S)
    BY <2>1, <1>0, SubSeqProperties
  <2>3. Len(SubSeq(s, n + 1, Len(s))) = Len(s) - n
    BY <2>1, <1>0, SubSeqProperties
  <2>4. \A i \in 1..Len(s) - (n + 1) + 1 : SubSeq(s, n + 1, Len(s))[i] = s[(n + 1) + i - 1]
    BY <2>1, <1>0, SubSeqProperties
  <2> QED
    BY <1>0, <2>2, <2>3, <2>4
<1>3. s = Cat(SubSeq(s, 1, n), SubSeq(s, n + 1, Len(s)))
  <2>1. 1 \in 1..Len(s) + 1 /\ n \in 1 - 1..Len(s) /\ Len(s) \in n..Len(s)
    BY <1>0
  <2> QED
    BY <2>1, ConcatAdjacentSubSeq, SubSeqFull DEF Cat
<1> QED
  BY <1>1, <1>2, <1>3

(* Where two ways to cut one sequence agree on the place, they agree. *)
LEMMA SameCut ==
    ASSUME NEW S, NEW a, NEW b, NEW c, NEW d,
           a \in Seq(S), b \in Seq(S), c \in Seq(S), d \in Seq(S),
           Cat(a, b) = Cat(c, d), Len(a) = Len(c)
    PROVE  a = c /\ b = d
<1>1. a = c
  <2>1. \A i \in 1..Len(a) : a[i] = c[i]
    BY CatIs
  <2> QED
    BY <2>1, SeqEqual
<1>2. b = d
  <2>1. Len(b) = Len(d)
    BY CatIs
  <2>2. ASSUME NEW i \in 1..Len(b) PROVE b[i] = d[i]
    <3>1. Cat(a, b)[Len(a) + i] = b[i]
      BY CatIs
    <3>2. Cat(c, d)[Len(c) + i] = d[i]
      BY <2>1, CatIs
    <3> QED
      BY <3>1, <3>2
  <2> QED
    BY <2>1, <2>2, SeqEqual
<1> QED
  BY <1>1, <1>2

(* The longer of two beginnings of one sequence continues the shorter. *)
LEMMA Continues ==
    ASSUME NEW S, NEW a, NEW b, NEW c, NEW d,
           a \in Seq(S), b \in Seq(S), c \in Seq(S), d \in Seq(S),
           Cat(a, b) = Cat(c, d), Len(c) <= Len(a)
    PROVE  /\ a = Cat(c, SubSeq(a, Len(c) + 1, Len(a)))
           /\ SubSeq(a, Len(c) + 1, Len(a)) \in Seq(S)
           /\ Cat(SubSeq(a, Len(c) + 1, Len(a)), b) = d
<1> DEFINE n == Len(c)
           h == SubSeq(a, 1, n)
           r == SubSeq(a, n + 1, Len(a))
<1>1. n \in 0..Len(a)
  OBVIOUS
<1>2. h \in Seq(S) /\ Len(h) = n /\ r \in Seq(S) /\ a = Cat(h, r)
  BY <1>1, Cut
<1> HIDE DEF h, r
<1>3. Cat(h, Cat(r, b)) = Cat(c, d) /\ Cat(r, b) \in Seq(S)
  BY <1>2, Regroup, CatIs
<1>4. h = c /\ Cat(r, b) = d
  BY <1>2, <1>3, SameCut
<1> QED
  BY <1>2, <1>4 DEF r

-----------------------------------------------------------------------------
(* Frames strung together *)

(* What FlattenSeq(q) defines recursively, up to the k-th sequence. *)
IsFlatten(g, q, k) ==
    g = [i \in 1..k |-> IF i = 1 THEN q[i] ELSE Cat(g[i - 1], q[i])]

(* The sequence of partial results exists: induction on their number. *)
LEMMA FlattenExists ==
    ASSUME NEW q, NEW k \in Nat
    PROVE  \E g : IsFlatten(g, q, k)
<1> DEFINE T == {n \in Nat : \E g : IsFlatten(g, q, n)}
<1>1. 0 \in T
  <2>1. IsFlatten([i \in 1..0 |-> <<>>], q, 0)
    BY DEF IsFlatten
  <2> QED
    BY <2>1
<1>2. ASSUME NEW n \in T PROVE n + 1 \in T
  <2>1. PICK g : IsFlatten(g, q, n)
    OBVIOUS
  <2> DEFINE h == [i \in 1..n + 1 |->
                     IF i <= n THEN g[i] ELSE IF i = 1 THEN q[i] ELSE Cat(g[i - 1], q[i])]
  <2>2. ASSUME NEW i \in 1..n + 1
        PROVE  h[i] = IF i = 1 THEN q[i] ELSE Cat(h[i - 1], q[i])
    <3>1. CASE i <= n
      <4>1. i \in 1..n /\ (i # 1 => i - 1 \in 1..n)
        BY <3>1
      <4>2. g[i] = IF i = 1 THEN q[i] ELSE Cat(g[i - 1], q[i])
        BY <2>1, <4>1 DEF IsFlatten
      <4> QED
        BY <3>1, <4>1, <4>2
    <3>2. CASE ~ (i <= n)
      <4>1. i # 1 => i - 1 \in 1..n
        BY <3>2
      <4> QED
        BY <3>2, <4>1
    <3> QED
      BY <3>1, <3>2
  <2>3. h = [i \in 1..n + 1 |-> h[i]]
    OBVIOUS
  <2> HIDE DEF h
  <2>4. IsFlatten(h, q, n + 1)
    BY <2>2, <2>3 DEF IsFlatten
  <2> QED
    BY <2>4
<1> HIDE DEF T
<1>3. Nat \subseteq T
  BY <1>1, <1>2, SetInduction
<1> QED
  BY <1>3 DEF T

(* The prefixes of q, strung together. *)
Flattened(q) == CHOOSE g : IsFlatten(g, q, Len(q))

(* FlattenSeq is the last of its partial results, each the one before and  *)
(* one frame more.                                                         *)
LEMMA FlattenedIs ==
    ASSUME NEW q, Len(q) \in Nat
    PROVE  /\ Len(q) # 0 => FlattenSeq(q) = Flattened(q)[Len(q)]
           /\ \A i \in 1..Len(q) :
                 Flattened(q)[i] = IF i = 1 THEN q[i] ELSE Cat(Flattened(q)[i - 1], q[i])
<1>1. Len(q) # 0 => FlattenSeq(q) = Flattened(q)[Len(q)]
  BY DEF FlattenSeq, Flattened, IsFlatten, Cat
<1>2. IsFlatten(Flattened(q), q, Len(q))
  BY FlattenExists DEF Flattened
<1> DEFINE g == Flattened(q)
<1> HIDE DEF g
<1>3. \A i \in 1..Len(q) : g[i] = IF i = 1 THEN q[i] ELSE Cat(g[i - 1], q[i])
  BY <1>2 DEF IsFlatten, g
<1> QED
  BY <1>1, <1>3 DEF g

(* Two sequences that begin alike are strung together alike so far. *)
LEMMA FlattenedAlike ==
    ASSUME NEW q, NEW r, Len(q) \in Nat, Len(r) \in Nat,
           NEW k \in Nat, k <= Len(q), k <= Len(r), \A i \in 1..k : q[i] = r[i]
    PROVE  \A i \in 1..k : Flattened(q)[i] = Flattened(r)[i]
<1> DEFINE T == {n \in Nat : n \in 1..k => Flattened(q)[n] = Flattened(r)[n]}
<1>1. 0 \in T
  OBVIOUS
<1>2. ASSUME NEW n \in T PROVE n + 1 \in T
  <2> SUFFICES ASSUME n + 1 \in 1..k PROVE Flattened(q)[n + 1] = Flattened(r)[n + 1]
    OBVIOUS
  <2>1. n + 1 \in 1..Len(q) /\ n + 1 \in 1..Len(r) /\ (n + 1) - 1 = n
    OBVIOUS
  <2>2. q[n + 1] = r[n + 1]
    OBVIOUS
  <2>3. n + 1 # 1 => Flattened(q)[n] = Flattened(r)[n]
    OBVIOUS
  <2>4. Flattened(q)[n + 1] = IF n + 1 = 1 THEN q[n + 1] ELSE Cat(Flattened(q)[n], q[n + 1])
    BY <2>1, FlattenedIs
  <2>5. Flattened(r)[n + 1] = IF n + 1 = 1 THEN r[n + 1] ELSE Cat(Flattened(r)[n], r[n + 1])
    BY <2>1, FlattenedIs
  <2> QED
    BY <2>2, <2>3, <2>4, <2>5
<1> HIDE DEF T
<1>3. Nat \subseteq T
  BY <1>1, <1>2, SetInduction
<1> QED
  BY <1>3 DEF T

(* The partial results are sequences of bytes. *)
LEMMA FlattenedType ==
    ASSUME NEW S, NEW q \in Seq(Seq(S))
    PROVE  \A i \in 1..Len(q) : Flattened(q)[i] \in Seq(S)
<1> DEFINE T == {n \in Nat : n \in 1..Len(q) => Flattened(q)[n] \in Seq(S)}
<1>1. 0 \in T
  OBVIOUS
<1>2. ASSUME NEW n \in T PROVE n + 1 \in T
  <2> SUFFICES ASSUME n + 1 \in 1..Len(q) PROVE Flattened(q)[n + 1] \in Seq(S)
    OBVIOUS
  <2>1. (n + 1) - 1 = n /\ Len(q) \in Nat /\ q[n + 1] \in Seq(S)
    OBVIOUS
  <2>2. n + 1 # 1 => Flattened(q)[n] \in Seq(S)
    OBVIOUS
  <2>3. Flattened(q)[n + 1] = IF n + 1 = 1 THEN q[n + 1] ELSE Cat(Flattened(q)[n], q[n + 1])
    BY <2>1, FlattenedIs
  <2> QED
    BY <2>1, <2>2, <2>3, CatIs
<1> HIDE DEF T
<1>3. Nat \subseteq T
  BY <1>1, <1>2, SetInduction
<1> QED
  BY <1>3 DEF T

LEMMA FlattenNone == FlattenSeq(<<>>) = <<>>
BY DEF FlattenSeq

(* Frames strung together are bytes. *)
LEMMA FlattenType ==
    ASSUME NEW S, NEW q \in Seq(Seq(S))
    PROVE  FlattenSeq(q) \in Seq(S)
<1>1. CASE Len(q) = 0
  <2>1. q = <<>>
    BY <1>1, EmptySeq
  <2>2. FlattenSeq(q) = <<>>
    BY <2>1, FlattenNone
  <2> QED
    BY <2>2, EmptySeq
<1>2. CASE Len(q) # 0
  <2>1. Len(q) \in 1..Len(q) /\ Len(q) \in Nat
    BY <1>2
  <2> QED
    BY <1>2, <2>1, FlattenedIs, FlattenedType
<1> QED
  BY <1>1, <1>2

(* One frame more at the end. *)
LEMMA FlattenAppend ==
    ASSUME NEW S, NEW q \in Seq(Seq(S)), NEW f \in Seq(S)
    PROVE  FlattenSeq(Append(q, f)) = Cat(FlattenSeq(q), f)
<1> DEFINE r == Append(q, f)
           n == Len(q)
<1>1. /\ r \in Seq(Seq(S)) /\ Len(r) = n + 1 /\ n \in Nat
      /\ r[n + 1] = f /\ \A i \in 1..n : r[i] = q[i]
  BY AppendProperties
<1> HIDE DEF r
<1>2. /\ FlattenSeq(r) = Flattened(r)[n + 1]
      /\ Flattened(r)[n + 1] = IF n + 1 = 1 THEN f ELSE Cat(Flattened(r)[n], f)
  <2>1. n + 1 \in 1..Len(r) /\ Len(r) # 0 /\ (n + 1) - 1 = n
    BY <1>1
  <2> QED
    BY <1>1, <2>1, FlattenedIs
<1>3. CASE n = 0
  <2>1. FlattenSeq(q) = <<>>
    BY <1>3, FlattenNone, EmptySeq
  <2>2. Cat(FlattenSeq(q), f) = f
    BY <2>1, CatEmpty
  <2>3. FlattenSeq(r) = f
    BY <1>1, <1>2, <1>3
  <2> QED
    BY <2>2, <2>3 DEF r
<1>4. CASE n # 0
  <2>1. n \in 1..n
    BY <1>1, <1>4
  <2>2. \A i \in 1..n : Flattened(q)[i] = Flattened(r)[i]
    <3>1. Len(q) \in Nat /\ Len(r) \in Nat /\ n <= Len(q) /\ n <= Len(r)
      BY <1>1
    <3>2. \A i \in 1..n : q[i] = r[i]
      BY <1>1
    <3> QED
      BY <1>1, <3>1, <3>2, FlattenedAlike
  <2>3. FlattenSeq(q) = Flattened(q)[n]
    BY <1>1, <1>4, FlattenedIs
  <2>4. FlattenSeq(r) = Cat(Flattened(r)[n], f)
    BY <1>1, <1>2, <1>4
  <2>5. Flattened(r)[n] = FlattenSeq(q)
    BY <2>1, <2>2, <2>3
  <2> QED
    BY <2>4, <2>5 DEF r
<1> QED
  BY <1>3, <1>4

(* The first frame stands in front of the others. *)
LEMMA FlattenHead ==
    ASSUME NEW S, NEW q \in Seq(Seq(S)), q # <<>>
    PROVE  /\ Head(q) \in Seq(S) /\ FlattenSeq(Tail(q)) \in Seq(S)
           /\ FlattenSeq(q) = Cat(Head(q), FlattenSeq(Tail(q)))
<1> DEFINE f == Head(q)
           r == Tail(q)
<1>1. /\ f \in Seq(S) /\ r \in Seq(Seq(S)) /\ Len(r) = Len(q) - 1 /\ Len(q) \in Nat \ {0}
      /\ f = q[1] /\ \A i \in 1..Len(r) : r[i] = q[i + 1]
  BY HeadTailProperties, EmptySeq
<1>2. FlattenSeq(r) \in Seq(S)
  BY <1>1, FlattenType
<1> DEFINE u == Flattened(q)
           v == Flattened(r)
<1>3. /\ FlattenSeq(q) = u[Len(q)] /\ u[1] = f
      /\ \A i \in 1..Len(r) : u[i + 1] = Cat(u[i], r[i])
  <2>1. \A i \in 1..Len(q) : u[i] = IF i = 1 THEN q[i] ELSE Cat(u[i - 1], q[i])
    BY <1>1, FlattenedIs
  <2>2. FlattenSeq(q) = u[Len(q)]
    BY <1>1, FlattenedIs
  <2> HIDE DEF u, f, r
  <2>3. ASSUME NEW i \in 1..Len(r) PROVE u[i + 1] = Cat(u[i], r[i])
    <3>1. i + 1 \in 1..Len(q) /\ i + 1 # 1 /\ (i + 1) - 1 = i
      BY <1>1
    <3>2. u[i + 1] = Cat(u[(i + 1) - 1], q[i + 1])
      BY <2>1, <3>1
    <3> QED
      BY <1>1, <3>1, <3>2
  <2>4. u[1] = f
    <3>1. 1 \in 1..Len(q)
      BY <1>1
    <3> QED
      BY <1>1, <2>1, <3>1
  <2> QED
    BY <2>2, <2>3, <2>4 DEF u
<1>4. /\ Len(r) # 0 => FlattenSeq(r) = v[Len(r)]
      /\ \A i \in 1..Len(r) : v[i] = IF i = 1 THEN r[i] ELSE Cat(v[i - 1], r[i])
      /\ \A i \in 1..Len(r) : v[i] \in Seq(S) /\ r[i] \in Seq(S)
  <2>1. Len(r) \in Nat
    BY <1>1
  <2>2. Len(r) # 0 => FlattenSeq(r) = v[Len(r)]
    BY <2>1, FlattenedIs
  <2>3. \A i \in 1..Len(r) : v[i] = IF i = 1 THEN r[i] ELSE Cat(v[i - 1], r[i])
    BY <2>1, FlattenedIs
  <2>4. \A i \in 1..Len(r) : v[i] \in Seq(S)
    BY <1>1, FlattenedType
  <2>5. \A i \in 1..Len(r) : r[i] \in Seq(S)
    BY <1>1
  <2> QED
    BY <2>2, <2>3, <2>4, <2>5
<1> HIDE DEF f, r, u, v
<1> DEFINE T == {n \in Nat : n \in 1..Len(r) => u[n + 1] = Cat(f, v[n])}
<1>5. 0 \in T
  OBVIOUS
<1>6. ASSUME NEW n \in T PROVE n + 1 \in T
  <2> SUFFICES ASSUME n + 1 \in 1..Len(r) PROVE u[(n + 1) + 1] = Cat(f, v[n + 1])
    OBVIOUS
  <2>1. u[(n + 1) + 1] = Cat(u[n + 1], r[n + 1])
    BY <1>3
  <2>2. CASE n = 0
    <3>1. v[n + 1] = r[n + 1] /\ u[n + 1] = f
      BY <1>3, <1>4, <2>2
    <3> QED
      BY <2>1, <3>1
  <2>3. CASE n # 0
    <3>1. n \in 1..Len(r)
      BY <1>1, <2>3
    <3>2. u[n + 1] = Cat(f, v[n])
      BY <3>1
    <3>3. v[n + 1] = Cat(v[n], r[n + 1])
      <4>1. n + 1 # 1 /\ (n + 1) - 1 = n
        BY <3>1
      <4> QED
        BY <1>4, <4>1
    <3>4. v[n] \in Seq(S) /\ r[n + 1] \in Seq(S)
      BY <1>4, <3>1
    <3>5. Cat(Cat(f, v[n]), r[n + 1]) = Cat(f, Cat(v[n], r[n + 1]))
      <4>1. f \in Seq(S)
        BY <1>1
      <4> HIDE DEF T
      <4> QED
        BY <3>4, <4>1, Regroup
    <3> QED
      BY <2>1, <3>2, <3>3, <3>5
  <2> QED
    BY <2>2, <2>3
<1> HIDE DEF T
<1>7. Nat \subseteq T
  BY <1>5, <1>6, SetInduction
<1>8. CASE Len(r) = 0
  <2>1. r = <<>> /\ Len(q) = 1
    BY <1>1, <1>8, EmptySeq
  <2>2. FlattenSeq(q) = f
    BY <1>3, <2>1
  <2>3. Cat(f, FlattenSeq(r)) = f
    BY <1>1, <2>1, FlattenNone, CatEmpty
  <2> QED
    BY <1>1, <1>2, <2>2, <2>3 DEF f, r
<1>9. CASE Len(r) # 0
  <2>1. Len(r) \in 1..Len(r) /\ Len(r) + 1 = Len(q) /\ Len(r) \in Nat
    BY <1>1, <1>9
  <2>2. u[Len(r) + 1] = Cat(f, v[Len(r)])
    BY <1>7, <2>1 DEF T
  <2>3. FlattenSeq(q) = Cat(f, FlattenSeq(r))
    BY <1>3, <1>4, <1>9, <2>1, <2>2
  <2> QED
    BY <1>1, <1>2, <2>3 DEF f, r
<1> QED
  BY <1>8, <1>9

-----------------------------------------------------------------------------
(* Frames at the beginning of a stream *)

(* Where a buffer holds a header, the header is its first bytes. *)
LEMMA HeaderLen ==
    ASSUME NEW b, b \in Seq(Byte), Len(b) >= WireSize
    PROVE  Header(b) \in [1..WireSize -> Byte] /\ BodyLen(Header(b)) \in Nat
<1>1. WireSize \in Nat \ {0} /\ WireSize \in 0..Len(b)
  BY SizesAssumption
<1>2. Header(b) \in Seq(Byte) /\ Len(Header(b)) = WireSize
  BY <1>1, Cut DEF Header
<1>3. Header(b) \in [1..WireSize -> Byte]
  BY <1>2, LenProperties
<1> QED
  BY <1>3, FramesAssumption

(* A frame is never empty. *)
LEMMA FrameLenType ==
    ASSUME NEW b, b \in Seq(Byte), Complete(b)
    PROVE  FrameLen(b) \in WireSize..Len(b) /\ FrameLen(b) \in Nat \ {0}
<1>1. Len(b) >= WireSize /\ Len(b) >= FrameLen(b) /\ Len(b) \in Nat /\ WireSize \in Nat \ {0}
  BY SizesAssumption DEF Complete
<1>2. BodyLen(Header(b)) \in Nat
  BY <1>1, HeaderLen
<1> QED
  BY <1>1, <1>2 DEF FrameLen

(* What is left behind a frame is shorter by its length. *)
LEMMA BehindType ==
    ASSUME NEW b, b \in Seq(Byte), Complete(b)
    PROVE  Behind(b) \in Seq(Byte) /\ Len(Behind(b)) = Len(b) - FrameLen(b)
<1>1. FrameLen(b) \in 0..Len(b)
  BY FrameLenType, SizesAssumption
<1> QED
  BY <1>1, Cut DEF Behind

(* The headers of two streams that agree so far. *)
LEMMA SameHeader ==
    ASSUME NEW b, NEW c, NEW u, NEW v,
           b \in Seq(Byte), c \in Seq(Byte), u \in Seq(Byte), v \in Seq(Byte),
           Cat(b, u) = Cat(c, v), Len(b) >= WireSize, Len(c) >= WireSize
    PROVE  Header(b) = Header(c)
<1>1. WireSize \in Nat /\ WireSize \in 0..Len(b) /\ WireSize \in 0..Len(c)
  BY SizesAssumption
<1>2. ASSUME NEW i \in 1..WireSize PROVE b[i] = c[i]
  <2>1. i \in 1..Len(b) /\ i \in 1..Len(c)
    BY <1>1
  <2>2. Cat(b, u)[i] = b[i]
    BY <2>1, CatIs
  <2>3. Cat(c, v)[i] = c[i]
    BY <2>1, CatIs
  <2> QED
    BY <2>2, <2>3
<1>3. /\ Header(b) \in Seq(Byte) /\ Len(Header(b)) = WireSize
      /\ Header(c) \in Seq(Byte) /\ Len(Header(c)) = WireSize
      /\ \A i \in 1..WireSize : Header(b)[i] = b[i]
      /\ \A i \in 1..WireSize : Header(c)[i] = c[i]
  BY <1>1, Cut DEF Header
<1>4. \A i \in 1..Len(Header(b)) : Header(b)[i] = Header(c)[i]
  BY <1>2, <1>3
<1> HIDE DEF Header
<1> QED
  BY <1>3, <1>4, SeqEqual

(* Frames as the server sends them. *)
LEMMA AFrame ==
    ASSUME NEW f \in Reply
    PROVE  /\ f \in Seq(Byte) /\ Len(f) >= WireSize /\ Len(f) = FrameLen(f)
           /\ Len(f) \in Nat \ {0}
BY FramesAssumption, SizesAssumption DEF FrameLen, Header

(* A stream of such frames, cut anywhere: what is complete at its front is *)
(* the first of them.                                                      *)
LEMMA FirstFrame ==
    ASSUME NEW b, NEW u, NEW q, b \in Seq(Byte), u \in Seq(Byte), q \in Seq(Reply),
           Cat(b, u) = FlattenSeq(q), Complete(b)
    PROVE  /\ q # <<>> /\ Tail(q) \in Seq(Reply) /\ Len(Tail(q)) = Len(q) - 1
           /\ Cat(Behind(b), u) = FlattenSeq(Tail(q))
<1>1. q # <<>>
  <2> SUFFICES ASSUME q = <<>> PROVE FALSE
    OBVIOUS
  <2>1. Len(Cat(b, u)) = 0
    BY FlattenNone
  <2>2. Len(b) = 0
    BY <2>1, CatIs
  <2> QED
    BY <2>2, SizesAssumption DEF Complete
<1>2. Head(q) \in Reply /\ Tail(q) \in Seq(Reply) /\ Len(Tail(q)) = Len(q) - 1
  BY <1>1, HeadTailProperties
<1>3. q \in Seq(Seq(Byte))
  <2>1. Reply \subseteq Seq(Byte)
    BY FramesAssumption
  <2> QED
    BY <2>1, SeqMonotonic
<1>4. /\ Head(q) \in Seq(Byte) /\ FlattenSeq(Tail(q)) \in Seq(Byte)
      /\ FlattenSeq(q) = Cat(Head(q), FlattenSeq(Tail(q)))
  BY <1>1, <1>3, FlattenHead
<1> DEFINE f == Head(q)
           r == FlattenSeq(Tail(q))
<1> HIDE DEF f, r
<1>5. f \in Seq(Byte) /\ Len(f) >= WireSize /\ Len(f) = FrameLen(f)
  BY <1>2, AFrame DEF f
<1>6. r \in Seq(Byte) /\ Cat(b, u) = Cat(f, r)
  BY <1>4 DEF f, r
<1>7. Len(b) >= WireSize /\ Len(b) >= FrameLen(b)
  BY DEF Complete
<1>8. Header(b) = Header(f)
  BY <1>5, <1>6, <1>7, SameHeader
<1>9. FrameLen(b) = Len(f)
  BY <1>5, <1>8 DEF FrameLen
<1>10. Cat(SubSeq(b, Len(f) + 1, Len(b)), u) = r
  BY <1>5, <1>6, <1>7, <1>9, Continues
<1> QED
  BY <1>1, <1>2, <1>9, <1>10 DEF Behind, r

(* A frame that has come whole is complete. *)
LEMMA WholeFrame ==
    ASSUME NEW b, NEW u, NEW q, b \in Seq(Byte), u \in Seq(Byte), q \in Seq(Reply), q # <<>>,
           Cat(b, u) = FlattenSeq(q), ~ Complete(b)
    PROVE  Len(b) < Len(Head(q)) /\ Head(q) \in Reply
<1>2. Head(q) \in Reply /\ Tail(q) \in Seq(Reply)
  BY HeadTailProperties
<1>3. q \in Seq(Seq(Byte))
  <2>1. Reply \subseteq Seq(Byte)
    BY FramesAssumption
  <2> QED
    BY <2>1, SeqMonotonic
<1>4. /\ Head(q) \in Seq(Byte) /\ FlattenSeq(Tail(q)) \in Seq(Byte)
      /\ FlattenSeq(q) = Cat(Head(q), FlattenSeq(Tail(q)))
  BY <1>3, FlattenHead
<1> DEFINE f == Head(q)
           r == FlattenSeq(Tail(q))
<1> HIDE DEF f, r
<1>5. f \in Seq(Byte) /\ Len(f) >= WireSize /\ Len(f) = FrameLen(f) /\ Len(f) \in Nat
  BY <1>2, AFrame DEF f
<1>6. r \in Seq(Byte) /\ Cat(b, u) = Cat(f, r)
  BY <1>4 DEF f, r
<1>7. ASSUME Len(b) >= Len(f) PROVE FALSE
  <2>1. Len(b) >= WireSize
    BY <1>5, <1>7, SizesAssumption
  <2>2. Header(b) = Header(f)
    BY <1>5, <1>6, <2>1, SameHeader
  <2>3. FrameLen(b) = Len(f)
    BY <1>5, <2>2 DEF FrameLen
  <2> QED
    BY <1>7, <2>1, <2>3 DEF Complete
<1>8. Len(b) < Len(f)
  BY <1>5, <1>7
<1> QED
  BY <1>2, <1>8 DEF f

-----------------------------------------------------------------------------
(* drained, which is defined recursively, satisfies its equation *)

(* What g is on buffers of at most k bytes. *)
Drains(g, k) ==
    g = [b \in {c \in Seq(Byte) : Len(c) <= k} |->
           IF Complete(b)
           THEN LET d == g[Behind(b)] IN [n |-> d.n + 1, rest |-> d.rest]
           ELSE [n |-> 0, rest |-> b]]

(* What such a g does with one buffer. *)
LEMMA DrainsAt ==
    ASSUME NEW g, NEW k \in Nat, Drains(g, k), NEW b, b \in Seq(Byte), Len(b) <= k
    PROVE  g[b] = IF Complete(b)
                  THEN [n |-> g[Behind(b)].n + 1, rest |-> g[Behind(b)].rest]
                  ELSE [n |-> 0, rest |-> b]
BY DEF Drains

(* There is such a g for every length: induction on it. *)
LEMMA DrainsExists ==
    ASSUME NEW k \in Nat
    PROVE  \E g : Drains(g, k)
<1> DEFINE T == {n \in Nat : \E g : Drains(g, n)}
           Upto(n) == {c \in Seq(Byte) : Len(c) <= n}
<1>1. 0 \in T
  <2> DEFINE g == [b \in Upto(0) |-> [n |-> 0, rest |-> b]]
  <2>1. ASSUME NEW b \in Upto(0) PROVE ~ Complete(b)
    <3>1. Len(b) <= 0 /\ WireSize \in Nat \ {0} /\ Len(b) \in Nat
      BY SizesAssumption
    <3> QED
      BY <3>1 DEF Complete
  <2> DEFINE V(b) == IF Complete(b)
                     THEN LET d == g[Behind(b)] IN [n |-> d.n + 1, rest |-> d.rest]
                     ELSE [n |-> 0, rest |-> b]
  <2>2. \A b \in Upto(0) : g[b] = V(b)
    BY <2>1
  <2>3. g = [b \in Upto(0) |-> g[b]]
    OBVIOUS
  <2> HIDE DEF g
  <2>4. g = [b \in Upto(0) |-> V(b)]
    BY <2>2, <2>3
  <2>5. Drains(g, 0)
    BY <2>4 DEF Drains
  <2> QED
    BY <2>5
<1>2. ASSUME NEW n \in T PROVE n + 1 \in T
  <2>1. PICK g : Drains(g, n)
    OBVIOUS
  <2> DEFINE Next1(b) == [n |-> g[Behind(b)].n + 1, rest |-> g[Behind(b)].rest]
             h == [b \in Upto(n + 1) |->
                     IF Complete(b) THEN Next1(b) ELSE [n |-> 0, rest |-> b]]
             V(b) == IF Complete(b)
                     THEN LET d == h[Behind(b)] IN [n |-> d.n + 1, rest |-> d.rest]
                     ELSE [n |-> 0, rest |-> b]
  <2>2. ASSUME NEW b \in Upto(n) PROVE h[b] = g[b]
    <3>1. b \in Upto(n + 1) /\ b \in Seq(Byte) /\ Len(b) <= n
      OBVIOUS
    <3>2. h[b] = IF Complete(b) THEN Next1(b) ELSE [n |-> 0, rest |-> b]
      BY <3>1
    <3> QED
      BY <2>1, <3>1, <3>2, DrainsAt
  <2>3. ASSUME NEW b \in Upto(n + 1) PROVE h[b] = V(b)
    <3>1. CASE Complete(b)
      <4>1. Behind(b) \in Seq(Byte) /\ Len(Behind(b)) = Len(b) - FrameLen(b)
        BY <3>1, BehindType
      <4>2. FrameLen(b) \in Nat \ {0} /\ Len(b) \in Nat /\ Len(b) <= n + 1 /\ n \in Nat
        BY <3>1, FrameLenType
      <4>3. Behind(b) \in Upto(n)
        BY <4>1, <4>2
      <4>4. h[Behind(b)] = g[Behind(b)]
        BY <2>2, <4>3
      <4>5. h[b] = Next1(b)
        BY <3>1
      <4> HIDE DEF h
      <4> QED
        BY <3>1, <4>4, <4>5
    <3>2. CASE ~ Complete(b)
      BY <3>2
    <3> QED
      BY <3>1, <3>2
  <2>4. h = [b \in Upto(n + 1) |-> h[b]]
    OBVIOUS
  <2> HIDE DEF h
  <2>5. h = [b \in Upto(n + 1) |-> V(b)]
    BY <2>3, <2>4
  <2>6. Drains(h, n + 1)
    BY <2>5 DEF Drains
  <2> QED
    BY <2>6
<1> HIDE DEF T
<1>3. Nat \subseteq T
  BY <1>1, <1>2, SetInduction
<1> QED
  BY <1>3 DEF T

(* Two such functions agree wherever both are defined: induction on the    *)
(* length.                                                                 *)
LEMMA DrainsAlike ==
    ASSUME NEW g, NEW h, NEW k \in Nat, NEW j \in Nat, Drains(g, k), Drains(h, j), j <= k
    PROVE  \A b \in Seq(Byte) : Len(b) <= j => g[b] = h[b]
<1> DEFINE T == {n \in Nat : \A b \in Seq(Byte) : Len(b) <= j /\ Len(b) <= n => g[b] = h[b]}
<1>0. ASSUME NEW b \in Seq(Byte), Len(b) <= j
      PROVE  /\ ~ Complete(b) => g[b] = h[b]
             /\ Complete(b) /\ g[Behind(b)] = h[Behind(b)] => g[b] = h[b]
  <2>1. g[b] = IF Complete(b) THEN [n |-> g[Behind(b)].n + 1, rest |-> g[Behind(b)].rest]
               ELSE [n |-> 0, rest |-> b]
    <3>1. Len(b) <= k
      BY <1>0
    <3> QED
      BY <3>1, DrainsAt
  <2>2. h[b] = IF Complete(b) THEN [n |-> h[Behind(b)].n + 1, rest |-> h[Behind(b)].rest]
               ELSE [n |-> 0, rest |-> b]
    BY <1>0, DrainsAt
  <2> QED
    BY <2>1, <2>2
<1>1. 0 \in T
  <2> SUFFICES ASSUME NEW b \in Seq(Byte), Len(b) <= j, Len(b) <= 0 PROVE g[b] = h[b]
    OBVIOUS
  <2>1. ~ Complete(b)
    BY SizesAssumption DEF Complete
  <2> QED
    BY <1>0, <2>1
<1>2. ASSUME NEW n \in T PROVE n + 1 \in T
  <2> SUFFICES ASSUME NEW b \in Seq(Byte), Len(b) <= j, Len(b) <= n + 1 PROVE g[b] = h[b]
    OBVIOUS
  <2>1. CASE ~ Complete(b)
    BY <1>0, <2>1
  <2>2. CASE Complete(b)
    <3>1. Behind(b) \in Seq(Byte) /\ Len(Behind(b)) = Len(b) - FrameLen(b)
      BY <2>2, BehindType
    <3>2. FrameLen(b) \in Nat \ {0} /\ Len(b) \in Nat
      BY <2>2, FrameLenType
    <3>3. Len(Behind(b)) <= j /\ Len(Behind(b)) <= n
      BY <3>1, <3>2
    <3>4. g[Behind(b)] = h[Behind(b)]
      BY <3>1, <3>3
    <3> QED
      BY <1>0, <2>2, <3>4
  <2> QED
    BY <2>1, <2>2
<1> HIDE DEF T
<1>3. Nat \subseteq T
  BY <1>1, <1>2, SetInduction
<1> SUFFICES ASSUME NEW b \in Seq(Byte), Len(b) <= j PROVE g[b] = h[b]
  OBVIOUS
<1>4. Len(b) \in T
  BY <1>3
<1> QED
  BY <1>4 DEF T

(* The definition of drained holds, recursion and all. *)
LEMMA DrainedIs ==
    ASSUME NEW b, b \in Seq(Byte)
    PROVE  drained[b] = IF Complete(b)
                        THEN [n |-> drained[Behind(b)].n + 1, rest |-> drained[Behind(b)].rest]
                        ELSE [n |-> 0, rest |-> b]
<1> DEFINE G(k) == CHOOSE g : Drains(g, k)
           F == [c \in Seq(Byte) |-> G(Len(c))[c]]
           V(c) == IF Complete(c)
                   THEN LET d == F[Behind(c)] IN [n |-> d.n + 1, rest |-> d.rest]
                   ELSE [n |-> 0, rest |-> c]
<1>1. ASSUME NEW k \in Nat PROVE Drains(G(k), k)
  BY DrainsExists
<1> HIDE DEF G
<1>2. ASSUME NEW c \in Seq(Byte) PROVE F[c] = V(c)
  <2>0. Len(c) \in Nat
    OBVIOUS
  <2>1. F[c] = G(Len(c))[c]
    OBVIOUS
  <2>2. G(Len(c))[c] = IF Complete(c)
                       THEN [n |-> G(Len(c))[Behind(c)].n + 1, rest |-> G(Len(c))[Behind(c)].rest]
                       ELSE [n |-> 0, rest |-> c]
    BY <1>1, <2>0, DrainsAt
  <2>3. CASE Complete(c)
    <3>1. Behind(c) \in Seq(Byte) /\ Len(Behind(c)) = Len(c) - FrameLen(c)
      BY <2>3, BehindType
    <3>2. FrameLen(c) \in Nat \ {0} /\ Len(Behind(c)) \in Nat
      BY <2>3, <3>1, FrameLenType
    <3>3. Len(Behind(c)) <= Len(c)
      BY <2>0, <3>1, <3>2
    <3>4. G(Len(c))[Behind(c)] = G(Len(Behind(c)))[Behind(c)]
      BY <1>1, <2>0, <3>1, <3>2, <3>3, DrainsAlike
    <3>5. F[Behind(c)] = G(Len(c))[Behind(c)]
      BY <3>1, <3>4
    <3> QED
      BY <2>1, <2>2, <2>3, <3>5
  <2>4. CASE ~ Complete(c)
    BY <2>1, <2>2, <2>4
  <2> QED
    BY <2>3, <2>4
<1>3. F = [c \in Seq(Byte) |-> F[c]]
  OBVIOUS
<1> HIDE DEF F
<1>4. F = [c \in Seq(Byte) |-> V(c)]
  BY <1>2, <1>3
<1>5. drained = [c \in Seq(Byte) |->
                   IF Complete(c)
                   THEN LET d == drained[Behind(c)] IN [n |-> d.n + 1, rest |-> d.rest]
                   ELSE [n |-> 0, rest |-> c]]
  BY <1>4 DEF drained
<1> QED
  BY <1>5

(* Behind the first m + 1 elements is what is behind m elements of the     *)
(* tail.                                                                   *)
LEMMA RestOfTail ==
    ASSUME NEW S, NEW p, p \in Seq(S), p # <<>>, NEW m \in 0..Len(p) - 1
    PROVE  SubSeq(p, (m + 1) + 1, Len(p)) = SubSeq(Tail(p), m + 1, Len(Tail(p)))
<1> DEFINE r == Tail(p)
           k == m + 1
<1>1. /\ r \in Seq(S) /\ Len(r) = Len(p) - 1 /\ Len(p) \in Nat
      /\ \A i \in 1..Len(r) : r[i] = p[i + 1]
  BY HeadTailProperties
<1> HIDE DEF r
<1>2. k \in 0..Len(p) /\ m \in 0..Len(r) /\ Len(p) - k = Len(r) - m /\ k = m + 1
  BY <1>1
<1> HIDE DEF k
<1>3. /\ SubSeq(p, k + 1, Len(p)) \in Seq(S)
      /\ Len(SubSeq(p, k + 1, Len(p))) = Len(p) - k
      /\ \A i \in 1..Len(p) - k : SubSeq(p, k + 1, Len(p))[i] = p[k + i]
  BY <1>2, Cut, SMTT(20)
<1>4. /\ SubSeq(r, m + 1, Len(r)) \in Seq(S)
      /\ Len(SubSeq(r, m + 1, Len(r))) = Len(r) - m
      /\ \A i \in 1..Len(r) - m : SubSeq(r, m + 1, Len(r))[i] = r[m + i]
  BY <1>1, <1>2, Cut
<1>5. ASSUME NEW i \in 1..Len(r) - m PROVE r[m + i] = p[k + i]
  <2>1. m + i \in 1..Len(r) /\ (m + i) + 1 = k + i
    BY <1>1, <1>2
  <2> QED
    BY <1>1, <2>1
<1> DEFINE a == SubSeq(p, k + 1, Len(p))
           b == SubSeq(r, m + 1, Len(r))
<1>6. a \in Seq(S) /\ b \in Seq(S) /\ Len(a) = Len(b) /\ \A i \in 1..Len(a) : a[i] = b[i]
  BY <1>2, <1>3, <1>4, <1>5
<1> HIDE DEF a, b
<1>7. a = b
  BY <1>6, SeqEqual
<1> QED
  BY <1>7 DEF a, b, k, r

-----------------------------------------------------------------------------
(* drain_frames *)

(* Out of a stream of frames it takes frames, in order, and stops only     *)
(* where one is not there yet.                                             *)
LEMMA DrainFrames ==
    ASSUME NEW b, NEW u, NEW q, b \in Seq(Byte), u \in Seq(Byte), q \in Seq(Reply),
           Cat(b, u) = FlattenSeq(q)
    PROVE  LET d == drain_frames(b) IN
           /\ d.n \in 0..Len(q) /\ d.rest \in Seq(Byte) /\ ~ Complete(d.rest)
           /\ SubSeq(q, d.n + 1, Len(q)) \in Seq(Reply)
           /\ Len(SubSeq(q, d.n + 1, Len(q))) = Len(q) - d.n
           /\ Cat(d.rest, u) = FlattenSeq(SubSeq(q, d.n + 1, Len(q)))
<1> DEFINE Good(c, p) ==
             /\ drained[c].n \in 0..Len(p) /\ drained[c].rest \in Seq(Byte)
             /\ ~ Complete(drained[c].rest)
             /\ Cat(drained[c].rest, u) = FlattenSeq(SubSeq(p, drained[c].n + 1, Len(p)))
           T == {n \in Nat : \A p \in Seq(Reply) : \A c \in Seq(Byte) :
                    Len(p) = n /\ Cat(c, u) = FlattenSeq(p) => Good(c, p)}
<1>1. ASSUME NEW p \in Seq(Reply), NEW c \in Seq(Byte), Cat(c, u) = FlattenSeq(p), ~ Complete(c)
      PROVE  Good(c, p)
  <2>1. drained[c] = [n |-> 0, rest |-> c]
    BY <1>1, DrainedIs
  <2>2. drained[c].n = 0 /\ drained[c].rest = c
    BY <2>1
  <2>3. SubSeq(p, 1, Len(p)) = p
    BY SubSeqFull
  <2>4. drained[c].n + 1 = 1
    BY <2>2
  <2>5. SubSeq(p, drained[c].n + 1, Len(p)) = p
    BY <2>3, <2>4
  <2>6. Cat(drained[c].rest, u) = FlattenSeq(SubSeq(p, drained[c].n + 1, Len(p)))
    BY <1>1, <2>2, <2>5
  <2>7. drained[c].n \in 0..Len(p) /\ drained[c].rest \in Seq(Byte) /\ ~ Complete(drained[c].rest)
    BY <1>1, <2>2
  <2> QED
    BY <2>6, <2>7
<1>2. 0 \in T
  <2> SUFFICES ASSUME NEW p \in Seq(Reply), NEW c \in Seq(Byte), Len(p) = 0, Cat(c, u) = FlattenSeq(p)
               PROVE  Good(c, p)
    OBVIOUS
  <2>1. ~ Complete(c)
    <3> SUFFICES ASSUME Complete(c) PROVE FALSE
      OBVIOUS
    <3>1. p # <<>>
      BY FirstFrame
    <3> QED
      BY <3>1, EmptySeq
  <2> HIDE DEF Good
  <2> QED
    BY <1>1, <2>1
<1>3. ASSUME NEW n \in T PROVE n + 1 \in T
  <2> SUFFICES ASSUME NEW p \in Seq(Reply), NEW c \in Seq(Byte), Len(p) = n + 1, Cat(c, u) = FlattenSeq(p)
               PROVE  Good(c, p)
    OBVIOUS
  <2>1. CASE ~ Complete(c)
    <3> HIDE DEF Good
    <3> QED
      BY <1>1, <2>1
  <2>2. CASE Complete(c)
    <3> DEFINE r == Tail(p)
               e == Behind(c)
               m == drained[e].n
    <3>1. /\ p # <<>> /\ r \in Seq(Reply) /\ Len(r) = n /\ n \in Nat
          /\ Cat(e, u) = FlattenSeq(r)
      BY <2>2, FirstFrame
    <3>2. e \in Seq(Byte)
      BY <2>2, BehindType
    <3>3. Good(e, r)
      BY <3>1, <3>2
    <3>4. drained[c] = [n |-> m + 1, rest |-> drained[e].rest]
      BY <2>2, DrainedIs
    <3>5. SubSeq(p, (m + 1) + 1, Len(p)) = SubSeq(r, m + 1, Len(r))
      <4>1. m \in 0..Len(p) - 1
        BY <3>1, <3>3
      <4> QED
        BY <3>1, <4>1, RestOfTail
    <3>6. drained[c].n = m + 1 /\ drained[c].rest = drained[e].rest
      BY <3>4
    <3>7. m + 1 \in 0..Len(p)
      BY <3>1, <3>3
    <3> HIDE DEF m, r, e
    <3> QED
      BY <3>3, <3>5, <3>6, <3>7 DEF m
  <2> QED
    BY <2>1, <2>2
<1> HIDE DEF T
<1>4. Nat \subseteq T
  BY <1>2, <1>3, SetInduction
<1>5. Good(b, q)
  <2>1. Len(q) \in T
    BY <1>4
  <2> QED
    BY <2>1 DEF T
<1>6. /\ SubSeq(q, drained[b].n + 1, Len(q)) \in Seq(Reply)
      /\ Len(SubSeq(q, drained[b].n + 1, Len(q))) = Len(q) - drained[b].n
  BY <1>5, Cut
<1> QED
  BY <1>5, <1>6 DEF drain_frames

-----------------------------------------------------------------------------
(* Bytes of n requests *)

Req(n) == ReqLen * n

(* Bytes are counted in requests: no nonlinear arithmetic behind this      *)
(* lemma.                                                                  *)
LEMMA Reqs ==
    /\ Req(0) = 0
    /\ \A m \in Int : Req(m) \in Int /\ Req(m + 1) = Req(m) + ReqLen /\ Req(m - 1) = Req(m) - ReqLen
    /\ \A m, n \in Int : m <= n => Req(m) <= Req(n)
    /\ \A m, n \in Int : m < n => Req(m) + ReqLen <= Req(n)
    /\ \A m, n \in Int : Req(m + n) = Req(m) + Req(n)
<1>0. ReqLen \in Nat \ {0}
  BY SizesAssumption
<1>1. Req(0) = 0
  BY <1>0 DEF Req
<1>2. \A m, n \in Int : Req(m) \in Int /\ Req(m + n) = Req(m) + Req(n)
  BY <1>0 DEF Req
<1>3. Req(1) = ReqLen /\ Req(-1) = - ReqLen
  BY <1>0 DEF Req
<1>4. \A k \in Nat : Req(k) >= 0
  BY <1>0 DEF Req
<1>5. ASSUME NEW m \in Int PROVE Req(m + 1) = Req(m) + ReqLen /\ Req(m - 1) = Req(m) - ReqLen
  <2>1. Req(m + 1) = Req(m) + Req(1) /\ Req(m + (-1)) = Req(m) + Req(-1)
    BY <1>2
  <2>2. m + (-1) = m - 1
    OBVIOUS
  <2> QED
    BY <1>0, <1>2, <1>3, <2>1, <2>2
<1>6. ASSUME NEW m \in Int, NEW n \in Int, m <= n PROVE Req(m) <= Req(n)
  <2>1. n - m \in Nat /\ n = m + (n - m)
    BY <1>6
  <2>2. Req(n - m) >= 0 /\ Req(n) = Req(m) + Req(n - m)
    BY <1>2, <1>4, <2>1
  <2>3. Req(m) \in Int /\ Req(n - m) \in Int
    BY <1>2, <2>1
  <2> QED
    BY <2>2, <2>3
<1>7. ASSUME NEW m \in Int, NEW n \in Int, m < n PROVE Req(m) + ReqLen <= Req(n)
  <2>1. m + 1 <= n /\ m + 1 \in Int
    BY <1>7
  <2> QED
    BY <1>5, <1>6, <2>1
<1> QED
  BY <1>1, <1>2, <1>5, <1>6, <1>7

(* x bytes are so many whole requests and a part of one. *)
LEMMA Whole ==
    ASSUME NEW x \in Nat
    PROVE  /\ x \div ReqLen \in Nat /\ x % ReqLen \in 0..ReqLen - 1
           /\ x = Req(x \div ReqLen) + (x % ReqLen)
<1>1. ReqLen \in Nat \ {0}
  BY SizesAssumption
<1>2. x = ReqLen * (x \div ReqLen) + (x % ReqLen)
  BY <1>1
<1>3. x % ReqLen \in 0..ReqLen - 1
  BY <1>1
<1>4. x \div ReqLen \in Nat
  BY <1>1
<1> QED
  BY <1>2, <1>3, <1>4 DEF Req

(* There is only one way to split x so. *)
LEMMA WholeIs ==
    ASSUME NEW x \in Nat, NEW k \in Int, NEW r \in 0..ReqLen - 1, x = Req(k) + r
    PROVE  x \div ReqLen = k /\ x % ReqLen = r
<1> DEFINE d == x \div ReqLen
           m == x % ReqLen
<1>1. d \in Nat /\ m \in 0..ReqLen - 1 /\ x = Req(d) + m /\ ReqLen \in Nat \ {0}
  BY Whole, SizesAssumption
<1> HIDE DEF d, m
<1>5. Req(d) \in Int /\ Req(k) \in Int
  BY <1>1, Reqs
<1>2. ~ (d < k)
  <2>1. d < k => Req(d) + ReqLen <= Req(k)
    BY <1>1, Reqs
  <2> QED
    BY <1>1, <1>5, <2>1
<1>3. ~ (k < d)
  <2>1. k < d => Req(k) + ReqLen <= Req(d)
    BY <1>1, Reqs
  <2> QED
    BY <1>1, <1>5, <2>1
<1>4. d = k
  BY <1>1, <1>2, <1>3
<1>6. m = r
  BY <1>1, <1>4, <1>5
<1> QED
  BY <1>4, <1>6 DEF d, m

(* Min of FiniteSetsExt is a CHOOSE; of two numbers it is the smaller. *)
LEMMA MinOfTwo ==
    ASSUME NEW a \in Int, NEW b \in Int
    PROVE  Min({a, b}) \in Int /\ Min({a, b}) <= a /\ Min({a, b}) <= b /\ Min({a, b}) \in {a, b}
<1>1. \E x \in {a, b} : \A y \in {a, b} : x <= y
  <2>1. CASE a <= b
    BY <2>1
  <2>2. CASE b <= a
    BY <2>2
  <2> QED
    BY <2>1, <2>2
<1>2. Min({a, b}) \in {a, b} /\ \A y \in {a, b} : Min({a, b}) <= y
  BY <1>1 DEF Min
<1> QED
  BY <1>2

-----------------------------------------------------------------------------
(* The inductive invariant *)

ClientTypes ==
    /\ mode \in Modes
    /\ pc \in {"login", "send", "pump", "recv", "expect", "hold", "done"}
    /\ acc \in Seq(Byte) /\ down \in Seq(Byte) /\ missed \in Seq(Reply)
    /\ count \in Nat /\ sent \in Nat /\ off \in Nat
    /\ up \in 0..UpCap /\ forwards \in 0..MaxForwards
    /\ result \in {"none", "pass", "fail", "overflow"} /\ (result = "none" <=> pc # "done")
    /\ srv \in {"login", "open", "closed"}
    /\ answer \in LoginResult \cup {<<>>}

(* Which loop belongs to which scenario. *)
Where ==
    /\ pc = "send" => mode \in {"echo", "single", "refused", "sender"}
    /\ pc = "pump" => mode = "sender"
    /\ pc = "recv" => mode \in {"echo", "single"}
    /\ pc = "expect" => mode = "refused"
    /\ pc = "hold" => mode \in {"receiver", "stalled", "sender"}

(* Until it has its result, nothing but the result is on its way. *)
LoggingIn ==
    /\ srv = "login" => down = <<>> /\ answer = <<>>
    /\ pc = "login" =>
          /\ acc = <<>> /\ missed = <<>> /\ count = 0 /\ off = 0 /\ up = 0
          /\ forwards = MaxForwards
          /\ \E cut \in Seq(Byte) : Cat(down, cut) = answer

LoggedIn ==
    pc # "login" /\ result \in {"none", "pass"} =>
        srv # "login" /\ (LooksAtStatus => StatusOk(Header(answer)))

(* What is held and under way are the frames not counted, and the buffer   *)
(* holds less than one.                                                    *)
InStream ==
    /\ pc = "login" \/ mode = "refused" => acc = <<>>
    /\ pc \notin {"login", "done"} /\ mode # "refused" =>
          /\ \E cut \in Seq(Byte) :
                /\ srv # "closed" => cut = <<>>
                /\ Cat(Cat(acc, down), cut) = FlattenSeq(missed)
          /\ ~ Complete(acc)

(* The client's count is the number of frames that have come. *)
Counted == sent = count + Len(missed)

(* The sender's requests that are under way or unread.  It begins a frame  *)
(* only when nothing is unread.                                            *)
Unread ==
    mode = "sender" /\ pc # "done" =>
        up + Req(Len(missed) - (MaxForwards - forwards))
          <= UpCap + (IF pc = "send" THEN off % ReqLen ELSE ReqLen)

AllSent ==
    pc \in {"recv", "expect"} \/ (mode = "sender" /\ pc = "hold") => off = Total

IInv == /\ ClientTypes /\ Where /\ LoggingIn /\ LoggedIn /\ InStream
        /\ Counted /\ Unread /\ AllSent /\ PassIsTrue /\ LimitNeverStrikes

-----------------------------------------------------------------------------
(* What the steps do to the stream *)

(* One recv takes between one byte and what is there. *)
LEMMA RecvSize ==
    ASSUME ClientTypes, NEW n \in RecvSizes
    PROVE  n \in 0..Len(down)
<1>1. Chunk \in Int /\ Len(down) \in Int
  BY SizesAssumption DEF ClientTypes
<1>2. Min({Chunk, Len(down)}) \in Int /\ Min({Chunk, Len(down)}) <= Len(down)
  BY <1>1, MinOfTwo
<1>3. n \in 1..Min({Chunk, Len(down)})
  BY DEF RecvSizes
<1> DEFINE m == Min({Chunk, Len(down)})
<1> HIDE DEF m
<1>4. n \in 1..m /\ m \in Int /\ m <= Len(down)
  BY <1>2, <1>3 DEF m
<1> QED
  BY <1>1, <1>4

LEMMA Regroup4 ==
    ASSUME NEW S, NEW s, NEW t, NEW u, NEW v,
           s \in Seq(S), t \in Seq(S), u \in Seq(S), v \in Seq(S)
    PROVE  Cat(Cat(s, Cat(t, u)), v) = Cat(Cat(s, t), Cat(u, v))
<1>1. Cat(s, Cat(t, u)) = Cat(Cat(s, t), u)
  BY Regroup
<1>2. Cat(s, t) \in Seq(S)
  BY CatIs
<1>3. Cat(Cat(Cat(s, t), u), v) = Cat(Cat(s, t), Cat(u, v))
  BY <1>2, Regroup
<1> QED
  BY <1>1, <1>3

(* recv() and drain_frames(), in step. *)
LEMMA Received ==
    ASSUME ClientTypes, InStream, pc \notin {"login", "done"}, mode # "refused",
           NEW n \in RecvSizes, Receive(n)
    PROVE  /\ acc' \in Seq(Byte) /\ down' \in Seq(Byte) /\ missed' \in Seq(Reply) /\ count' \in Nat
           /\ ~ Complete(acc')
           /\ \E cut \in Seq(Byte) :
                 /\ srv # "closed" => cut = <<>>
                 /\ Cat(Cat(acc', down'), cut) = FlattenSeq(missed')
           /\ count' + Len(missed') = count + Len(missed)
           /\ Len(missed') \in Nat /\ Len(missed') <= Len(missed)
<1> DEFINE a == SubSeq(down, 1, n)
           r == SubSeq(down, n + 1, Len(down))
<1>0. acc \in Seq(Byte) /\ down \in Seq(Byte) /\ missed \in Seq(Reply) /\ count \in Nat
  BY DEF ClientTypes
<1>1. a \in Seq(Byte) /\ r \in Seq(Byte) /\ down = Cat(a, r)
  BY <1>0, RecvSize, Cut
<1>2. PICK cut \in Seq(Byte) : /\ srv # "closed" => cut = <<>>
                               /\ Cat(Cat(acc, down), cut) = FlattenSeq(missed)
  BY DEF InStream
<1> DEFINE b == Cat(acc, a)
           d == drain_frames(b)
<1>3. acc' = d.rest /\ count' = count + d.n /\ missed' = SubSeq(missed, d.n + 1, Len(missed)) /\ down' = r
  BY DEF Receive, Cat
<1> HIDE DEF a, r
<1>4. b \in Seq(Byte) /\ Cat(r, cut) \in Seq(Byte)
  BY <1>0, <1>1, CatIs
<1>5. Cat(b, Cat(r, cut)) = FlattenSeq(missed)
  BY <1>0, <1>1, <1>2, Regroup4
<1> HIDE DEF b
<1>6. /\ d.n \in 0..Len(missed) /\ d.rest \in Seq(Byte) /\ ~ Complete(d.rest)
      /\ missed' \in Seq(Reply) /\ Len(missed') = Len(missed) - d.n
      /\ Cat(d.rest, Cat(r, cut)) = FlattenSeq(missed')
  BY <1>0, <1>3, <1>4, <1>5, DrainFrames
<1> HIDE DEF d
<1>7. Cat(Cat(d.rest, r), cut) = Cat(d.rest, Cat(r, cut))
  BY <1>1, <1>6, Regroup
<1>8. Len(missed) \in Nat /\ d.n \in Nat
  BY <1>0, <1>6
<1>9. Cat(Cat(acc', down'), cut) = FlattenSeq(missed')
  BY <1>3, <1>6, <1>7
<1> DEFINE k == d.n
<1>11. /\ k \in Nat /\ Len(missed) \in Nat /\ k <= Len(missed) /\ count \in Nat
       /\ count' = count + k /\ Len(missed') = Len(missed) - k
  BY <1>0, <1>3, <1>6, <1>8
<1> HIDE DEF k
<1>10. /\ count' + Len(missed') = count + Len(missed)
       /\ Len(missed') \in Nat /\ Len(missed') <= Len(missed) /\ count' \in Nat
  BY <1>11
<1> QED
  BY <1>1, <1>2, <1>3, <1>6, <1>9, <1>10

(* A stream that was read to its end, with the server open. *)
LEMMA NothingMissed ==
    ASSUME ClientTypes, InStream, pc \notin {"login", "done"}, mode # "refused",
           down = <<>>, srv # "closed"
    PROVE  missed = <<>>
<1>0. acc \in Seq(Byte) /\ missed \in Seq(Reply) /\ <<>> \in Seq(Byte)
  BY EmptySeq DEF ClientTypes
<1>1. Cat(acc, <<>>) = FlattenSeq(missed) /\ FlattenSeq(missed) = acc /\ ~ Complete(acc)
  BY <1>0, CatEmpty DEF InStream
<1> SUFFICES ASSUME missed # <<>> PROVE FALSE
  OBVIOUS
<1>2. Len(acc) < Len(Head(missed))
  BY <1>0, <1>1, WholeFrame
<1>3. missed \in Seq(Seq(Byte))
  <2>1. Reply \subseteq Seq(Byte)
    BY FramesAssumption
  <2> QED
    BY <1>0, <2>1, SeqMonotonic
<1>4. /\ Head(missed) \in Seq(Byte) /\ FlattenSeq(Tail(missed)) \in Seq(Byte)
      /\ acc = Cat(Head(missed), FlattenSeq(Tail(missed)))
  BY <1>1, <1>3, FlattenHead
<1>5. Len(acc) = Len(Head(missed)) + Len(FlattenSeq(Tail(missed)))
  BY <1>4, CatIs
<1>6. Len(Head(missed)) \in Nat /\ Len(FlattenSeq(Tail(missed))) \in Nat
  BY <1>4
<1> QED
  BY <1>2, <1>5, <1>6

(* The recv() of the login takes all there is. *)
LEMMA AnswerTaken ==
    ASSUME ClientTypes, LoggingIn, InOnePiece, NEW n \in AnswerSizes, TakeAnswer(n)
    PROVE  /\ down' = <<>> /\ srv # "login" /\ n = Len(down) /\ Len(down) \in Nat
           /\ Len(down) >= WireSize => Header(down) = Header(answer)
<1>0. down \in Seq(Byte) /\ answer \in Seq(Byte) /\ Len(answer) <= Chunk /\ down # <<>>
  <2>1. \A f \in LoginResult : f \in Seq(Byte) /\ Len(f) <= Chunk
    BY FramesAssumption
  <2>2. <<>> \in Seq(Byte) /\ Len(<<>>) <= Chunk
    BY SizesAssumption
  <2> QED
    BY <2>1, <2>2 DEF ClientTypes, TakeAnswer
<1>1. PICK cut \in Seq(Byte) : Cat(down, cut) = answer
  BY DEF LoggingIn, TakeAnswer
<1>2. Len(down) \in Nat /\ Len(cut) \in Nat /\ Len(answer) = Len(down) + Len(cut)
  BY <1>0, <1>1, CatIs
<1>3. Len(down) <= Chunk
  BY <1>0, <1>2, SizesAssumption
<1>4. n = Len(down)
  <2>1. Chunk \in Int /\ Len(down) \in Int
    BY <1>2, SizesAssumption
  <2>2. /\ Min({Chunk, Len(down)}) \in Int /\ Min({Chunk, Len(down)}) <= Len(down)
        /\ Min({Chunk, Len(down)}) = Chunk \/ Min({Chunk, Len(down)}) = Len(down)
    BY <2>1, MinOfTwo
  <2>3. n = Min({Chunk, Len(down)})
    BY DEF AnswerSizes
  <2>4. n \in Int /\ n <= Len(down) /\ (n = Chunk \/ n = Len(down))
    BY <2>2, <2>3
  <2> QED
    BY <1>3, <2>1, <2>4
<1>5. down' = <<>>
  <2>1. down' = SubSeq(down, Len(down) + 1, Len(down))
    BY <1>4 DEF TakeAnswer
  <2> QED
    BY <1>2, <2>1, SubSeqEmpty
<1>6. srv # "login"
  BY <1>0 DEF LoggingIn
<1>7. ASSUME Len(down) >= WireSize PROVE Header(down) = Header(answer)
  <2>1. Len(answer) >= WireSize
    BY <1>2, <1>7, SizesAssumption
  <2>2. <<>> \in Seq(Byte) /\ Cat(down, cut) = Cat(answer, <<>>)
    BY <1>0, <1>1, CatEmpty, EmptySeq
  <2> QED
    BY <1>0, <1>7, <2>1, <2>2, SameHeader
<1> QED
  BY <1>2, <1>4, <1>5, <1>6, <1>7

(* One frame more from the server. *)
LEMMA FrameAdded ==
    ASSUME IInv, NEW f \in Reply, ServerSends(f), Open, pc # "login",
           UNCHANGED <<mode, pc, acc, count, srv>>
    PROVE  /\ down' \in Seq(Byte) /\ missed' \in Seq(Reply) /\ sent' \in Nat
           /\ Len(missed') = Len(missed) + 1
           /\ InStream' /\ Counted'
<1>0. /\ acc \in Seq(Byte) /\ down \in Seq(Byte) /\ missed \in Seq(Reply) /\ f \in Seq(Byte)
      /\ Reply \subseteq Seq(Byte) /\ <<>> \in Seq(Byte)
  BY FramesAssumption, EmptySeq DEF IInv, ClientTypes
<1>1. down' = Cat(down, f) /\ missed' = Append(missed, f) /\ sent' = sent + 1
  BY DEF ServerSends, Cat
<1>2. down' \in Seq(Byte) /\ Cat(acc, down') = Cat(Cat(acc, down), f)
  BY <1>0, <1>1, CatIs, Regroup
<1>3. missed' \in Seq(Reply) /\ Len(missed') = Len(missed) + 1
  BY <1>0, <1>1, AppendProperties
<1>4. missed \in Seq(Seq(Byte))
  BY <1>0, SeqMonotonic
<1>5. FlattenSeq(missed') = Cat(FlattenSeq(missed), f)
  BY <1>0, <1>1, <1>4, FlattenAppend
<1>6. InStream'
  <2> SUFFICES ASSUME pc # "done", mode # "refused" PROVE InStream'
    BY DEF IInv, InStream
  <2>1. ~ Complete(acc) /\ Cat(Cat(acc, down), <<>>) = FlattenSeq(missed)
    BY DEF IInv, InStream, Open
  <2>2. Cat(acc, down) \in Seq(Byte) /\ Cat(acc, down') \in Seq(Byte)
    BY <1>0, <1>2, CatIs
  <2>3. Cat(acc, down') = FlattenSeq(missed')
    BY <1>2, <1>5, <2>1, <2>2, CatEmpty
  <2>4. Cat(Cat(acc, down'), <<>>) = FlattenSeq(missed')
    BY <2>2, <2>3, CatEmpty
  <2> QED
    BY <1>0, <2>1, <2>4 DEF InStream
<1>7. Counted'
  <2>1. Len(missed) \in Nat /\ count \in Nat /\ sent = count + Len(missed)
    BY DEF IInv, ClientTypes, Counted
  <2> QED
    BY <1>1, <1>3, <2>1 DEF Counted
<1> QED
  BY <1>1, <1>2, <1>3, <1>6, <1>7 DEF IInv, ClientTypes

(* The beginning of a sequence is a prefix of it. *)
LEMMA PrefixOf ==
    ASSUME NEW S, NEW s, NEW c, s \in Seq(S), c \in Seq(S)
    PROVE  IsPrefix(s, Cat(s, c))
<1> DEFINE t == Cat(s, c)
           n == Len(s)
<1>1. t \in Seq(S) /\ n \in Nat /\ n \in 0..Len(t) /\ n \in 0..Len(s) /\ \A i \in 1..n : t[i] = s[i]
  BY CatIs
<1> HIDE DEF t
<1>2. /\ SubSeq(s, 1, n) \in Seq(S) /\ Len(SubSeq(s, 1, n)) = n
      /\ \A i \in 1..n : SubSeq(s, 1, n)[i] = s[i]
  BY <1>1, Cut
<1>3. /\ SubSeq(t, 1, n) \in Seq(S) /\ Len(SubSeq(t, 1, n)) = n
      /\ \A i \in 1..n : SubSeq(t, 1, n)[i] = t[i]
  BY <1>1, Cut
<1> DEFINE a == SubSeq(s, 1, n)
           b == SubSeq(t, 1, n)
<1>4. a \in Seq(S) /\ b \in Seq(S) /\ Len(a) = Len(b) /\ \A i \in 1..Len(a) : a[i] = b[i]
  BY <1>1, <1>2, <1>3
<1> HIDE DEF a, b
<1>5. a = b
  BY <1>4, SeqEqual
<1> QED
  BY <1>1, <1>5 DEF IsPrefix, a, b, t

(* No bytes, and any buffer without a complete frame, are less than one. *)
LEMMA NoBytesAreLess == \E f \in Reply : Len(<<>>) < Len(f)
<1>1. PICK f \in Reply : TRUE
  BY FramesAssumption
<1>2. Len(f) \in Nat \ {0}
  BY AFrame
<1> QED
  BY <1>2

(* A buffer without a complete frame, at the head of the stream, is        *)
(* shorter than a frame.                                                   *)
LEMMA LessThanAFrame ==
    ASSUME NEW a, NEW b, NEW q, a \in Seq(Byte), b \in Seq(Byte), q \in Seq(Reply),
           Cat(a, b) = FlattenSeq(q), ~ Complete(a)
    PROVE  \E f \in Reply : Len(a) < Len(f)
<1>1. CASE q # <<>>
  BY <1>1, WholeFrame
<1>2. CASE q = <<>>
  <2>1. Len(a) + Len(b) = 0
    BY <1>2, CatIs, FlattenNone
  <2>2. Len(a) = 0
    BY <2>1
  <2>3. a = <<>>
    BY <2>2, EmptySeq
  <2> QED
    BY <2>3, NoBytesAreLess
<1> QED
  BY <1>1, <1>2

(* What drain_frames() leaves is less than one frame. *)
AccBounded == pc # "done" => \E f \in Reply : Len(acc) < Len(f)

LEMMA InvMeansBounded == IInv => AccBounded
<1>1. ASSUME IInv PROVE AccBounded
  <2> SUFFICES ASSUME pc # "done" PROVE \E f \in Reply : Len(acc) < Len(f)
    BY DEF AccBounded
  <2>1. acc = <<>> => \E f \in Reply : Len(acc) < Len(f)
    BY NoBytesAreLess
  <2>2. CASE pc = "login" \/ mode = "refused"
    BY <1>1, <2>1, <2>2 DEF IInv, InStream
  <2>3. CASE ~ (pc = "login" \/ mode = "refused")
    <3>1. acc \in Seq(Byte) /\ down \in Seq(Byte) /\ missed \in Seq(Reply)
      BY <1>1 DEF IInv, ClientTypes
    <3>2. PICK cut \in Seq(Byte) : Cat(Cat(acc, down), cut) = FlattenSeq(missed)
      BY <1>1, <2>3 DEF IInv, InStream
    <3>3. ~ Complete(acc)
      BY <1>1, <2>3 DEF IInv, InStream
    <3>4. Cat(down, cut) \in Seq(Byte) /\ Cat(acc, Cat(down, cut)) = FlattenSeq(missed)
      BY <3>1, <3>2, CatIs, Regroup
    <3> QED
      BY <3>1, <3>3, <3>4, LessThanAFrame
  <2> QED
    BY <2>2, <2>3
<1> QED
  BY <1>1

(* Both ways of looking at the limit leave room for what a recv brings. *)
LEMMA RoomForAll ==
    ASSUME IInv, NEW n \in RecvSizes, Receive(n), pc \notin {"login", "done"}, mode # "refused"
    PROVE  Len(acc') <= MaxAcc /\ Len(acc) + n <= MaxAcc
<1>0. n \in 1..Chunk /\ Chunk \in Nat /\ MaxAcc \in Nat
  <2>1. Chunk \in Int /\ Len(down) \in Int
    BY SizesAssumption DEF IInv, ClientTypes
  <2> DEFINE m == Min({Chunk, Len(down)})
  <2>2. m \in Int /\ m <= Chunk
    BY <2>1, MinOfTwo
  <2>3. n \in 1..m
    BY DEF RecvSizes
  <2> HIDE DEF m
  <2> QED
    BY <2>2, <2>3, SizesAssumption
<1>1. \A f \in Reply : Len(f) \in Nat /\ Len(f) - 1 + Chunk <= MaxAcc
  BY AFrame, FramesAssumption
<1>2. \E f \in Reply : Len(acc') < Len(f)
  <2>1. /\ acc' \in Seq(Byte) /\ down' \in Seq(Byte) /\ missed' \in Seq(Reply) /\ ~ Complete(acc')
        /\ \E cut \in Seq(Byte) : Cat(Cat(acc', down'), cut) = FlattenSeq(missed')
    BY Received DEF IInv
  <2>2. PICK cut \in Seq(Byte) : Cat(Cat(acc', down'), cut) = FlattenSeq(missed')
    BY <2>1
  <2>3. Cat(down', cut) \in Seq(Byte) /\ Cat(acc', Cat(down', cut)) = FlattenSeq(missed')
    BY <2>1, <2>2, CatIs, Regroup
  <2> QED
    BY <2>1, <2>3, LessThanAFrame
<1>3. \E f \in Reply : Len(acc) < Len(f)
  BY InvMeansBounded DEF AccBounded
<1>4. Len(acc) \in Nat /\ Len(acc') \in Nat
  <2>1. acc' \in Seq(Byte)
    BY Received DEF IInv
  <2> QED
    BY <2>1 DEF IInv, ClientTypes
<1>5. Len(acc') <= MaxAcc
  BY <1>0, <1>1, <1>2, <1>4
<1>6. Len(acc) + n <= MaxAcc
  BY <1>0, <1>1, <1>3, <1>4
<1> QED
  BY <1>5, <1>6

(* A connection that is closed: what was under way is cut somewhere. *)
LEMMA CutOff ==
    ASSUME ClientTypes, Close
    PROVE  /\ down' \in Seq(Byte) /\ (down = <<>> => down' = <<>>)
           /\ \E cut \in Seq(Byte) : down = Cat(down', cut)
<1>1. PICK n \in 0..Len(down) : down' = SubSeq(down, 1, n)
  BY DEF Close
<1>2. /\ down' \in Seq(Byte) /\ Len(down') = n /\ SubSeq(down, n + 1, Len(down)) \in Seq(Byte)
      /\ down = Cat(down', SubSeq(down, n + 1, Len(down)))
  BY <1>1, Cut DEF ClientTypes
<1>3. down = <<>> => down' = <<>>
  BY <1>1, <1>2, EmptySeq
<1> QED
  BY <1>2, <1>3

-----------------------------------------------------------------------------
(* Every step keeps the invariant: first the shapes that several steps     *)
(* share, then the steps.                                                  *)

(* A verdict, and nothing else changes. *)
LEMMA VerdictKeeps ==
    ASSUME IInv, pc # "done", NEW r \in {"pass", "fail"}, Finish(r),
           r = "pass" => pc # "login" /\ PassIsTrue',
           UNCHANGED <<mode, acc, count, off, env>>
    PROVE  IInv'
<1>11. ClientTypes'
  BY DEF IInv, ClientTypes, Finish, env
<1>12. Where'
  BY DEF IInv, ClientTypes, Where, Finish, env
<1>13. LoggingIn'
  BY DEF IInv, ClientTypes, LoggingIn, Finish, env
<1>14. LoggedIn'
  BY DEF IInv, ClientTypes, LoggedIn, LooksAtStatus, Finish, env
<1>15. InStream'
  BY DEF IInv, ClientTypes, InStream, Finish, env
<1>16. Counted'
  BY DEF IInv, ClientTypes, Counted, Finish, env
<1>17. Unread'
  BY DEF IInv, ClientTypes, Unread, Finish, env
<1>18. AllSent'
  BY DEF IInv, ClientTypes, AllSent, Total, Frames, Finish, env
<1>19. PassIsTrue' /\ LimitNeverStrikes'
  <2>1. LimitNeverStrikes'
    BY DEF LimitNeverStrikes, Finish
  <2>2. PassIsTrue'
    BY DEF PassIsTrue, Finish
  <2> QED
    BY <2>1, <2>2
<1> QED
  BY <1>11, <1>12, <1>13, <1>14, <1>15, <1>16, <1>17, <1>18, <1>19 DEF IInv

LEMMA PreLoginFailsKeeps ==
    ASSUME IInv, PreLoginFails
    PROVE  IInv'
  BY VerdictKeeps DEF PreLoginFails

LEMMA SendFailsKeeps ==
    ASSUME IInv, SendFails
    PROVE  IInv'
  BY VerdictKeeps DEF SendFails

LEMMA PumpFailsKeeps ==
    ASSUME IInv, PumpFails
    PROVE  IInv'
  BY VerdictKeeps DEF PumpFails

LEMMA SendPollFailsKeeps ==
    ASSUME IInv, SendPollFails
    PROVE  IInv'
  BY VerdictKeeps DEF SendPollFails

LEMMA RecvFramesFailsKeeps ==
    ASSUME IInv, RecvFramesFails
    PROVE  IInv'
  BY VerdictKeeps DEF RecvFramesFails

LEMMA HoldFailsKeeps ==
    ASSUME IInv, HoldFails
    PROVE  IInv'
  BY VerdictKeeps DEF HoldFails

LEMMA HoldPollFailsKeeps ==
    ASSUME IInv, HoldPollFails
    PROVE  IInv'
  BY VerdictKeeps DEF HoldPollFails

LEMMA ExpectCloseEndsKeeps ==
    ASSUME IInv, ExpectCloseEnds
    PROVE  IInv'
<1>1. PICK r \in {"pass", "fail"} : Finish(r) /\ (r = "pass" => srv = "closed")
  BY DEF ExpectCloseEnds, CloseVerdict
<1>2. UNCHANGED <<mode, acc, count, off, env>> /\ pc = "expect"
  BY DEF ExpectCloseEnds
<1>3. mode = "refused" /\ off = Total
  BY <1>2 DEF IInv, Where, AllSent
<1>4. r = "pass" => PassIsTrue'
  BY <1>1, <1>2, <1>3 DEF PassIsTrue, LooksAtStatus, Total, Frames, env
<1> QED
  BY <1>1, <1>2, <1>4, VerdictKeeps

LEMMA SenderDeadlineKeeps ==
    ASSUME IInv, SenderDeadline
    PROVE  IInv'
<1>1. Finish("pass") /\ UNCHANGED <<mode, acc, count, off, env>> /\ pc = "hold" /\ mode = "sender"
  BY DEF SenderDeadline
<1>2. off = Total /\ result = "none" /\ StatusOk(Header(answer))
  BY <1>1 DEF IInv, ClientTypes, AllSent, LoggedIn, LooksAtStatus
<1>3. PassIsTrue'
  BY <1>1, <1>2 DEF PassIsTrue, LooksAtStatus, Total, Frames, Header, env
<1> QED
  BY <1>1, <1>3, VerdictKeeps

LEMMA ReceiverDeadlineKeeps ==
    ASSUME IInv, ReceiverDeadline
    PROVE  IInv'
<1>1. PICK r \in {"pass", "fail"} : Finish(r) /\ (r = "pass" => ~ (mode = "receiver" /\ count = 0))
  BY DEF ReceiverDeadline
<1>2. UNCHANGED <<mode, acc, count, off, env>> /\ pc = "hold" /\ mode \in {"receiver", "stalled"}
  BY DEF ReceiverDeadline, IInv, Where
<1>3. StatusOk(Header(answer))
  BY <1>2 DEF IInv, ClientTypes, LoggedIn, LooksAtStatus
<1>4. r = "pass" /\ mode = "receiver" => sent > Len(missed)
  BY <1>1 DEF IInv, ClientTypes, Counted
<1>5. r = "pass" => PassIsTrue'
  BY <1>1, <1>2, <1>3, <1>4 DEF PassIsTrue, LooksAtStatus, Header, env
<1> QED
  BY <1>1, <1>2, <1>5, VerdictKeeps

LEMMA SendBlockedKeeps ==
    ASSUME IInv, SendBlocked
    PROVE  IInv'
<1>1. off % ReqLen \in 0..ReqLen - 1 /\ ReqLen \in Nat /\ UpCap \in Nat
  BY Whole, SizesAssumption DEF IInv, ClientTypes
<1>2. Req(Len(missed) - (MaxForwards - forwards)) \in Int
  BY Reqs, SizesAssumption DEF IInv, ClientTypes
<1>11. ClientTypes'
  BY DEF IInv, ClientTypes, SendBlocked, env
<1>12. Where'
  BY DEF IInv, ClientTypes, Where, SendBlocked, env
<1>13. LoggingIn'
  BY DEF IInv, ClientTypes, LoggingIn, SendBlocked, env
<1>14. LoggedIn'
  BY DEF IInv, ClientTypes, LoggedIn, LooksAtStatus, SendBlocked, env
<1>15. InStream'
  BY DEF IInv, ClientTypes, InStream, SendBlocked, env
<1>16. Counted'
  BY DEF IInv, ClientTypes, Counted, SendBlocked, env
<1>17. Unread'
  BY <1>1, <1>2 DEF IInv, ClientTypes, Unread, SendBlocked, env
<1>18. AllSent'
  BY DEF IInv, ClientTypes, AllSent, Total, Frames, SendBlocked, env
<1>19. PassIsTrue' /\ LimitNeverStrikes'
  BY DEF IInv, ClientTypes, PassIsTrue, LimitNeverStrikes, SendBlocked, env
<1> QED
  BY <1>11, <1>12, <1>13, <1>14, <1>15, <1>16, <1>17, <1>18, <1>19 DEF IInv

LEMMA PumpEndsKeeps ==
    ASSUME IInv, PumpEnds
    PROVE  IInv'
<1>1. missed = <<>>
  BY NothingMissed DEF IInv, Where, PumpEnds, PumpedDry
<1>11. ClientTypes'
  BY DEF IInv, ClientTypes, PumpEnds, PumpedDry, env
<1>12. Where'
  BY DEF IInv, ClientTypes, Where, PumpEnds, PumpedDry, env
<1>13. LoggingIn'
  BY DEF IInv, ClientTypes, LoggingIn, PumpEnds, PumpedDry, env
<1>14. LoggedIn'
  BY DEF IInv, ClientTypes, LoggedIn, LooksAtStatus, PumpEnds, PumpedDry, env
<1>15. InStream'
  BY DEF IInv, ClientTypes, InStream, PumpEnds, PumpedDry, env
<1>16. Counted'
  BY DEF IInv, ClientTypes, Counted, PumpEnds, PumpedDry, env
<1>17. Unread'
  <2>1. off % ReqLen \in 0..ReqLen - 1 /\ ReqLen \in Nat /\ UpCap \in Nat
    BY Whole, SizesAssumption DEF IInv, ClientTypes
  <2>2. Len(missed) = 0
    BY <1>1, EmptySeq
  <2>3. Req(Len(missed) - (MaxForwards - forwards)) \in Int /\ Req(Len(missed) - (MaxForwards - forwards)) <= 0
    <3>1. /\ Len(missed) - (MaxForwards - forwards) \in Int
          /\ Len(missed) - (MaxForwards - forwards) <= 0
      BY <2>2, SizesAssumption DEF IInv, ClientTypes
    <3> QED
      BY <3>1, Reqs
  <2> QED
    BY <2>1, <2>3 DEF IInv, ClientTypes, Unread, PumpEnds, env
<1>18. AllSent'
  BY DEF IInv, ClientTypes, AllSent, Total, Frames, PumpEnds, PumpedDry, env
<1>19. PassIsTrue' /\ LimitNeverStrikes'
  BY DEF IInv, ClientTypes, PassIsTrue, LimitNeverStrikes, PumpEnds, PumpedDry, env
<1> QED
  BY <1>11, <1>12, <1>13, <1>14, <1>15, <1>16, <1>17, <1>18, <1>19 DEF IInv

LEMMA ExpectCloseDropsKeeps ==
    ASSUME IInv, ExpectCloseDrops
    PROVE  IInv'
<1>1. down' \in Seq(Byte)
  <2>1. PICK n \in RecvSizes : down' = SubSeq(down, n + 1, Len(down))
    BY DEF ExpectCloseDrops
  <2>2. n \in 0..Len(down) /\ down \in Seq(Byte)
    BY RecvSize DEF IInv, ClientTypes
  <2> QED
    BY <2>1, <2>2, Cut
<1>11. ClientTypes'
  BY <1>1 DEF IInv, ClientTypes, ExpectCloseDrops
<1>12. Where'
  BY DEF IInv, ClientTypes, Where, ExpectCloseDrops
<1>13. LoggingIn'
  BY DEF IInv, ClientTypes, LoggingIn, ExpectCloseDrops
<1>14. LoggedIn'
  BY DEF IInv, ClientTypes, LoggedIn, LooksAtStatus, ExpectCloseDrops
<1>15. InStream'
  BY DEF IInv, ClientTypes, InStream, Where, ExpectCloseDrops
<1>16. Counted'
  BY DEF IInv, ClientTypes, Counted, ExpectCloseDrops
<1>17. Unread'
  BY DEF IInv, ClientTypes, Unread, ExpectCloseDrops
<1>18. AllSent'
  BY DEF IInv, ClientTypes, AllSent, Total, Frames, ExpectCloseDrops
<1>19. PassIsTrue' /\ LimitNeverStrikes'
  BY DEF IInv, ClientTypes, PassIsTrue, LimitNeverStrikes, ExpectCloseDrops
<1> QED
  BY <1>11, <1>12, <1>13, <1>14, <1>15, <1>16, <1>17, <1>18, <1>19 DEF IInv

LEMMA HoldPumpsKeeps ==
    ASSUME IInv, HoldPumps
    PROVE  IInv'
<1>11. ClientTypes'
  BY DEF IInv, ClientTypes, HoldPumps, env
<1>12. Where'
  BY DEF IInv, ClientTypes, Where, HoldPumps, env
<1>13. LoggingIn'
  BY DEF IInv, ClientTypes, LoggingIn, HoldPumps, env
<1>14. LoggedIn'
  BY DEF IInv, ClientTypes, LoggedIn, LooksAtStatus, HoldPumps, env
<1>15. InStream'
  BY DEF IInv, ClientTypes, InStream, HoldPumps, env
<1>16. Counted'
  BY DEF IInv, ClientTypes, Counted, HoldPumps, env
<1>17. Unread'
  BY DEF IInv, ClientTypes, Unread, HoldPumps, env
<1>18. AllSent'
  BY DEF IInv, ClientTypes, AllSent, Total, Frames, HoldPumps, env
<1>19. PassIsTrue' /\ LimitNeverStrikes'
  BY DEF IInv, ClientTypes, PassIsTrue, LimitNeverStrikes, HoldPumps, env
<1> QED
  BY <1>11, <1>12, <1>13, <1>14, <1>15, <1>16, <1>17, <1>18, <1>19 DEF IInv

LEMMA LoginOnlyKeeps ==
    ASSUME IInv, InOnePiece, LoginOnly
    PROVE  IInv'
<1>0. PICK n \in AnswerSizes :
          /\ TakeAnswer(n)
          /\ Finish(IF n >= WireSize /\ StatusOk(Header(down)) THEN "pass" ELSE "fail")
  BY DEF LoginOnly
<1>1. /\ down' = <<>> /\ srv # "login" /\ n = Len(down) /\ Len(down) \in Nat
      /\ Len(down) >= WireSize => Header(down) = Header(answer)
  BY <1>0, AnswerTaken DEF IInv
<1>2. <<>> \in Seq(Byte) /\ WireSize \in Nat
  BY EmptySeq, SizesAssumption
<1>3. pc = "login" /\ result = "none"
  BY <1>0 DEF TakeAnswer, IInv, ClientTypes
<1>4. mode = "login"
  BY DEF LoginOnly
<1>11. ClientTypes'
  BY <1>0, <1>1, <1>2, <1>3, <1>4 DEF IInv, ClientTypes, LoginOnly, TakeAnswer, Finish
<1>12. Where'
  BY <1>0, <1>1, <1>2, <1>3, <1>4 DEF IInv, ClientTypes, Where, LoginOnly, TakeAnswer, Finish
<1>13. LoggingIn'
  BY <1>0, <1>1, <1>2, <1>3, <1>4 DEF IInv, ClientTypes, LoggingIn, LoginOnly, TakeAnswer, Finish
<1>14. LoggedIn'
  BY <1>0, <1>1, <1>2, <1>3, <1>4 DEF IInv, ClientTypes, LoggedIn, LooksAtStatus, LoginOnly, TakeAnswer, Finish
<1>15. InStream'
  BY <1>0, <1>1, <1>2, <1>3, <1>4 DEF IInv, ClientTypes, InStream, LoginOnly, TakeAnswer, Finish
<1>16. Counted'
  BY <1>0, <1>1, <1>2, <1>3, <1>4 DEF IInv, ClientTypes, Counted, LoginOnly, TakeAnswer, Finish
<1>17. Unread'
  BY <1>0, <1>1, <1>2, <1>3, <1>4 DEF IInv, ClientTypes, Unread, LoginOnly, TakeAnswer, Finish
<1>18. AllSent'
  BY <1>0, <1>1, <1>2, <1>3, <1>4 DEF IInv, ClientTypes, AllSent, Total, Frames, LoginOnly, TakeAnswer, Finish
<1>19. PassIsTrue' /\ LimitNeverStrikes'
  BY <1>0, <1>1, <1>2, <1>3, <1>4
     DEF PassIsTrue, LimitNeverStrikes, LooksAtStatus, TakeAnswer, Finish, Header
<1> QED
  BY <1>11, <1>12, <1>13, <1>14, <1>15, <1>16, <1>17, <1>18, <1>19 DEF IInv

LEMMA PreLoginKeeps ==
    ASSUME IInv, InOnePiece, PreLogin
    PROVE  IInv'
<1>0. PICK n \in AnswerSizes :
          /\ TakeAnswer(n)
          /\ IF n < WireSize \/ (LooksAtStatus /\ ~ StatusOk(Header(down)))
             THEN Finish("fail")
             ELSE /\ pc' = IF mode \in {"receiver", "stalled"} THEN "hold" ELSE "send"
                  /\ UNCHANGED result
  BY DEF PreLogin
<1>1. /\ down' = <<>> /\ srv # "login" /\ n = Len(down) /\ Len(down) \in Nat
      /\ Len(down) >= WireSize => Header(down) = Header(answer)
  BY <1>0, AnswerTaken DEF IInv
<1>2. <<>> \in Seq(Byte) /\ WireSize \in Nat
  BY EmptySeq, SizesAssumption
<1>3. pc = "login" /\ result = "none"
  BY <1>0 DEF TakeAnswer, IInv, ClientTypes
<1>4. mode # "login"
  BY DEF PreLogin
<1>11. ClientTypes'
  BY <1>0, <1>1, <1>2, <1>3, <1>4, SizesAssumption DEF IInv, ClientTypes, TakeAnswer, Finish
<1>12. Where'
  BY <1>0, <1>1, <1>2, <1>3, <1>4, SizesAssumption DEF IInv, ClientTypes, Where, TakeAnswer, Finish
<1>13. LoggingIn'
  BY <1>0, <1>1, <1>2, <1>3, <1>4, SizesAssumption DEF IInv, ClientTypes, LoggingIn, TakeAnswer, Finish
<1>14. LoggedIn'
  BY <1>0, <1>1, <1>2, <1>3, <1>4, SizesAssumption DEF IInv, ClientTypes, LoggedIn, LooksAtStatus, TakeAnswer, Finish
<1>15. InStream'
  <2>1. Cat(Cat(<<>>, <<>>), <<>>) = <<>> /\ FlattenSeq(<<>>) = <<>>
    BY <1>2, CatEmpty, FlattenNone
  <2>2. acc' = <<>> /\ missed' = <<>> /\ down' = <<>>
    BY <1>0, <1>1, <1>3 DEF IInv, LoggingIn, TakeAnswer
  <2>3. ~ Complete(<<>>)
    BY SizesAssumption DEF Complete
  <2> QED
    BY <1>2, <2>1, <2>2, <2>3 DEF InStream
<1>16. Counted'
  BY <1>0, <1>1, <1>2, <1>3, <1>4, SizesAssumption DEF IInv, ClientTypes, Counted, TakeAnswer, Finish
<1>17. Unread'
  <2>1. missed = <<>> /\ forwards = MaxForwards /\ up = 0 /\ off = 0
    BY <1>3 DEF IInv, LoggingIn
  <2>2. Len(missed) - (MaxForwards - forwards) = 0
    BY <2>1, SizesAssumption
  <2>3. off % ReqLen \in 0..ReqLen - 1 /\ ReqLen \in Nat /\ UpCap \in Nat /\ 0 <= UpCap
    BY <2>1, Whole, SizesAssumption
  <2>4. Req(Len(missed) - (MaxForwards - forwards)) = 0
    BY <2>2, Reqs
  <2> QED
    BY <1>0, <2>1, <2>3, <2>4 DEF Unread, TakeAnswer
<1>18. AllSent'
  BY <1>0, <1>1, <1>2, <1>3, <1>4, SizesAssumption DEF IInv, ClientTypes, AllSent, Total, Frames, TakeAnswer, Finish
<1>19. PassIsTrue' /\ LimitNeverStrikes'
  BY <1>0, <1>3 DEF PassIsTrue, LimitNeverStrikes, TakeAnswer, Finish
<1> QED
  BY <1>11, <1>12, <1>13, <1>14, <1>15, <1>16, <1>17, <1>18, <1>19 DEF IInv

LEMMA SendAllKeeps ==
    ASSUME IInv, SendAll
    PROVE  IInv'
<1>0. PICK n \in 1..Min({UpCap - up, Total - off}) : Sent(n)
  BY DEF SendAll
<1>1. /\ n \in Nat \ {0} /\ up' = up + n /\ up' \in 0..UpCap /\ off' = off + n /\ off' \in Nat
      /\ off' <= Total /\ off \in Nat /\ up \in Nat /\ up' \in Nat
  <2>1. off \in Nat /\ up \in 0..UpCap /\ UpCap \in Nat
    BY SizesAssumption DEF IInv, ClientTypes
  <2>2. Total \in Int
    BY SizesAssumption DEF Total, Frames
  <2>3. UpCap - up \in Int /\ Total - off \in Int
    BY <2>1, <2>2
  <2> DEFINE m == Min({UpCap - up, Total - off})
  <2>4. m \in Int /\ m <= UpCap - up /\ m <= Total - off
    BY <2>3, MinOfTwo
  <2>5. n \in 1..m
    OBVIOUS
  <2>6. off' = off + n /\ up' = up + n
    BY <1>0 DEF Sent
  <2> HIDE DEF m, Total
  <2> QED
    BY <2>1, <2>2, <2>4, <2>5, <2>6
<1>2. /\ pc = "send" /\ mode # "sender" /\ result = "none"
      /\ pc' = IF off' < Total THEN "send" ELSE IF mode = "refused" THEN "expect" ELSE "recv"
  BY DEF SendAll, IInv, ClientTypes
<1>3. Total \in Int
  BY SizesAssumption DEF Total, Frames
<1>11. ClientTypes'
  BY <1>0, <1>1, <1>2 DEF IInv, ClientTypes, Sent
<1>12. Where'
  BY <1>0, <1>1, <1>2 DEF IInv, ClientTypes, Where, Sent
<1>13. LoggingIn'
  BY <1>0, <1>1, <1>2 DEF IInv, ClientTypes, LoggingIn, Sent
<1>14. LoggedIn'
  BY <1>0, <1>1, <1>2 DEF IInv, ClientTypes, LoggedIn, LooksAtStatus, Sent
<1>15. InStream'
  BY <1>0, <1>1, <1>2 DEF IInv, ClientTypes, InStream, Sent
<1>16. Counted'
  BY <1>0, <1>1, <1>2 DEF IInv, ClientTypes, Counted, Sent
<1>17. Unread'
  BY <1>0, <1>1, <1>2 DEF IInv, ClientTypes, Unread, Sent
<1>18. AllSent'
  <2>1. mode' = mode /\ Total' = Total
    BY <1>0 DEF Sent, Total, Frames
  <2>2. pc' \in {"recv", "expect"} => ~ (off' < Total)
    BY <1>2
  <2>3. pc' \in {"recv", "expect"} => off' = Total
    <3> HIDE DEF Total
    <3> QED
      BY <1>1, <1>3, <2>2
  <2> QED
    BY <1>2, <2>1, <2>3 DEF AllSent
<1>19. PassIsTrue' /\ LimitNeverStrikes'
  BY <1>0, <1>1, <1>2 DEF IInv, ClientTypes, PassIsTrue, LimitNeverStrikes, Sent
<1> QED
  BY <1>11, <1>12, <1>13, <1>14, <1>15, <1>16, <1>17, <1>18, <1>19 DEF IInv

LEMMA SendSomeKeeps ==
    ASSUME IInv, SendSome
    PROVE  IInv'
<1>0. PICK n \in 1..Min({UpCap - up, SendEnd - off}) : Sent(n)
  BY DEF SendSome
<1>1. /\ n \in Nat \ {0} /\ up' = up + n /\ up' \in 0..UpCap /\ off' = off + n /\ off' \in Nat
      /\ off' <= SendEnd /\ off \in Nat /\ up \in Nat /\ up' \in Nat
  <2>1. off \in Nat /\ up \in 0..UpCap /\ UpCap \in Nat
    BY SizesAssumption DEF IInv, ClientTypes
  <2>2. SendEnd \in Int
    <3>1. off \div ReqLen \in Nat /\ ReqLen \in Nat
      BY <2>1, Whole, SizesAssumption
    <3> QED
      BY <3>1 DEF SendEnd
  <2>3. UpCap - up \in Int /\ SendEnd - off \in Int
    BY <2>1, <2>2
  <2> DEFINE m == Min({UpCap - up, SendEnd - off})
  <2>4. m \in Int /\ m <= UpCap - up /\ m <= SendEnd - off
    BY <2>3, MinOfTwo
  <2>5. n \in 1..m
    OBVIOUS
  <2>6. off' = off + n /\ up' = up + n
    BY <1>0 DEF Sent
  <2> HIDE DEF m, SendEnd
  <2> QED
    BY <2>1, <2>2, <2>4, <2>5, <2>6
<1>2. /\ pc = "send" /\ mode = "sender" /\ result = "none"
      /\ pc' = IF off' % ReqLen = 0 THEN "pump" ELSE "send"
  BY DEF SendSome, IInv, ClientTypes
<1>11. ClientTypes'
  BY <1>0, <1>1, <1>2 DEF IInv, ClientTypes, Sent
<1>12. Where'
  BY <1>0, <1>1, <1>2 DEF IInv, ClientTypes, Where, Sent
<1>13. LoggingIn'
  BY <1>0, <1>1, <1>2 DEF IInv, ClientTypes, LoggingIn, Sent
<1>14. LoggedIn'
  BY <1>0, <1>1, <1>2 DEF IInv, ClientTypes, LoggedIn, LooksAtStatus, Sent
<1>15. InStream'
  BY <1>0, <1>1, <1>2 DEF IInv, ClientTypes, InStream, Sent
<1>16. Counted'
  BY <1>0, <1>1, <1>2 DEF IInv, ClientTypes, Counted, Sent
<1>17. Unread'
  <2> SUFFICES ASSUME mode = "sender", pc' # "done"
               PROVE  up' + Req(Len(missed) - (MaxForwards - forwards))
                        <= UpCap + (IF pc' = "send" THEN off' % ReqLen ELSE ReqLen)
    BY <1>0 DEF Unread, Sent
  <2> DEFINE v == Req(Len(missed) - (MaxForwards - forwards))
             r == off % ReqLen
             k == off \div ReqLen
  <2>0. off \in Nat /\ Len(missed) - (MaxForwards - forwards) \in Int
    BY SizesAssumption DEF IInv, ClientTypes
  <2>1. v \in Int /\ r \in 0..ReqLen - 1 /\ k \in Nat /\ off = Req(k) + r
    <3>1. v \in Int
      BY <2>0, Reqs
    <3>2. r \in 0..ReqLen - 1 /\ k \in Nat /\ off = Req(k) + r
      BY <2>0, Whole
    <3> QED
      BY <3>1, <3>2
  <2>2. up + v <= UpCap + r
    BY DEF IInv, Unread, SendSome
  <2>3. SendEnd = Req(k + 1)
    <3>1. SendEnd = (k + 1) * ReqLen /\ ReqLen \in Nat
      BY SizesAssumption DEF SendEnd
    <3> QED
      BY <2>1, <3>1 DEF Req
  <2>4. SendEnd = Req(k) + ReqLen /\ Req(k) \in Int /\ ReqLen \in Nat \ {0} /\ UpCap \in Nat
    <3>1. k \in Int
      BY <2>1
    <3>2. Req(k) \in Int /\ Req(k + 1) = Req(k) + ReqLen
      BY <3>1, Reqs
    <3> QED
      BY <2>3, <3>2, SizesAssumption
  <2> HIDE DEF v, r, k
  <2>5. r + n <= ReqLen /\ up' + v <= UpCap + r + n
    BY <1>1, <2>1, <2>2, <2>4
  <2>6. CASE r + n = ReqLen
    <3>1. off' = Req(k + 1) + 0 /\ k + 1 \in Int /\ 0 \in 0..ReqLen - 1 /\ off' \in Nat
      BY <1>1, <2>1, <2>3, <2>4, <2>6
    <3>2. off' % ReqLen = 0
      BY <3>1, WholeIs
    <3>3. pc' = "pump"
      BY <3>2 DEF SendSome
    <3>4. up' + v <= UpCap + ReqLen
      BY <1>1, <2>1, <2>4, <2>5, <2>6
    <3> QED
      BY <3>3, <3>4 DEF v
  <2>7. CASE r + n < ReqLen
    <3>1. off' = Req(k) + (r + n) /\ r + n \in 0..ReqLen - 1 /\ off' \in Nat
      BY <1>1, <2>1, <2>4, <2>7
    <3>2. off' % ReqLen = r + n
      BY <2>1, <3>1, WholeIs
    <3>3. up' + v <= UpCap + (r + n) /\ up' + v <= UpCap + ReqLen
      BY <1>1, <2>1, <2>4, <2>5, <2>7
    <3> QED
      BY <3>2, <3>3 DEF v
  <2>8. r + n = ReqLen \/ r + n < ReqLen
    BY <1>1, <2>1, <2>4, <2>5
  <2> QED
    BY <2>6, <2>7, <2>8
<1>18. AllSent'
  BY <1>0, <1>1, <1>2 DEF IInv, ClientTypes, AllSent, Total, Frames, Sent
<1>19. PassIsTrue' /\ LimitNeverStrikes'
  BY <1>0, <1>1, <1>2 DEF IInv, ClientTypes, PassIsTrue, LimitNeverStrikes, Sent
<1> QED
  BY <1>11, <1>12, <1>13, <1>14, <1>15, <1>16, <1>17, <1>18, <1>19 DEF IInv

LEMMA PumpSomeKeeps ==
    ASSUME IInv, PumpSome
    PROVE  IInv'
<1>0. /\ pc \notin {"login", "done"} /\ mode # "refused" /\ result = "none"
      /\ UNCHANGED <<mode, off, up, srv, answer, sent, forwards>>
  BY DEF IInv, ClientTypes, Where, PumpSome
<1>1. PICK n \in RecvSizes : Receive(n)
  BY DEF PumpSome
<1>2. /\ acc' \in Seq(Byte) /\ down' \in Seq(Byte) /\ missed' \in Seq(Reply) /\ count' \in Nat
      /\ ~ Complete(acc')
      /\ \E cut \in Seq(Byte) :
            /\ srv # "closed" => cut = <<>>
            /\ Cat(Cat(acc', down'), cut) = FlattenSeq(missed')
      /\ count' + Len(missed') = count + Len(missed)
      /\ Len(missed') \in Nat /\ Len(missed') <= Len(missed)
  BY <1>0, <1>1, Received DEF IInv
<1>3. Len(acc') <= MaxAcc /\ Len(acc) + n <= MaxAcc
  BY <1>0, <1>1, RoomForAll
<1>4. mode = "sender" /\ pc = "pump" /\ pc' = pc /\ result' = result
  <2>1. ~ (Len(acc') > MaxAcc)
    <3>1. Len(acc') \in Nat /\ MaxAcc \in Nat
      BY <1>2, SizesAssumption
    <3> QED
      BY <1>3, <3>1
  <2> QED
    BY <2>1 DEF PumpSome, IInv, Where
<1>11. ClientTypes'
  BY <1>0, <1>2, <1>4 DEF IInv, ClientTypes
<1>12. Where'
  BY <1>0, <1>4 DEF IInv, Where
<1>13. LoggingIn'
  BY <1>0, <1>2, <1>4 DEF IInv, LoggingIn, LoggedIn
<1>14. LoggedIn'
  BY <1>0, <1>4 DEF IInv, LoggedIn, LooksAtStatus
<1>15. InStream'
  BY <1>0, <1>2, <1>4 DEF InStream
<1>16. Counted'
  BY <1>0, <1>2 DEF IInv, Counted
<1>17. Unread'
  <2>1. Len(missed) \in Nat /\ MaxForwards - forwards \in Nat
    BY SizesAssumption DEF IInv, ClientTypes
  <2> DEFINE x == Len(missed) - (MaxForwards - forwards)
             y == Len(missed') - (MaxForwards - forwards)
  <2>2. x \in Int /\ y \in Int /\ y <= x
    BY <1>2, <2>1
  <2>3. Req(x) \in Int /\ Req(y) \in Int /\ Req(y) <= Req(x)
    BY <2>2, Reqs
  <2>4. up + Req(x) <= UpCap + ReqLen
    BY <1>0, <1>4 DEF IInv, Where, Unread
  <2>5. up \in Nat /\ UpCap \in Nat /\ ReqLen \in Nat
    BY SizesAssumption DEF IInv, ClientTypes
  <2>6. up + Req(y) <= UpCap + ReqLen
    BY <2>3, <2>4, <2>5
  <2>7. pc' # "send" /\ up' = up /\ forwards' = forwards
    BY <1>0, <1>4
  <2> QED
    BY <2>6, <2>7 DEF Unread
<1>18. AllSent'
  BY <1>0, <1>4 DEF IInv, AllSent, Total, Frames
<1>19. PassIsTrue' /\ LimitNeverStrikes'
  BY <1>0, <1>4 DEF PassIsTrue, LimitNeverStrikes
<1> QED
  BY <1>11, <1>12, <1>13, <1>14, <1>15, <1>16, <1>17, <1>18, <1>19 DEF IInv

LEMMA HoldReadsKeeps ==
    ASSUME IInv, HoldReads
    PROVE  IInv'
<1>0. /\ pc \notin {"login", "done"} /\ mode # "refused" /\ result = "none"
      /\ UNCHANGED <<mode, off, up, srv, answer, sent, forwards>>
  BY DEF IInv, ClientTypes, Where, HoldReads
<1>1. PICK n \in RecvSizes : Receive(n)
  BY DEF HoldReads
<1>2. /\ acc' \in Seq(Byte) /\ down' \in Seq(Byte) /\ missed' \in Seq(Reply) /\ count' \in Nat
      /\ ~ Complete(acc')
      /\ \E cut \in Seq(Byte) :
            /\ srv # "closed" => cut = <<>>
            /\ Cat(Cat(acc', down'), cut) = FlattenSeq(missed')
      /\ count' + Len(missed') = count + Len(missed)
      /\ Len(missed') \in Nat /\ Len(missed') <= Len(missed)
  BY <1>0, <1>1, Received DEF IInv
<1>3. Len(acc') <= MaxAcc /\ Len(acc) + n <= MaxAcc
  BY <1>0, <1>1, RoomForAll
<1>4. mode = "receiver" /\ pc = "hold" /\ pc' = pc /\ result' = result
  <2>1. ~ (Len(acc') > MaxAcc)
    <3>1. Len(acc') \in Nat /\ MaxAcc \in Nat
      BY <1>2, SizesAssumption
    <3> QED
      BY <1>3, <3>1
  <2> QED
    BY <2>1 DEF HoldReads, IInv, Where
<1>11. ClientTypes'
  BY <1>0, <1>2, <1>4 DEF IInv, ClientTypes
<1>12. Where'
  BY <1>0, <1>4 DEF IInv, Where
<1>13. LoggingIn'
  BY <1>0, <1>2, <1>4 DEF IInv, LoggingIn, LoggedIn
<1>14. LoggedIn'
  BY <1>0, <1>4 DEF IInv, LoggedIn, LooksAtStatus
<1>15. InStream'
  BY <1>0, <1>2, <1>4 DEF InStream
<1>16. Counted'
  BY <1>0, <1>2 DEF IInv, Counted
<1>17. Unread'
  BY <1>0, <1>4 DEF Unread
<1>18. AllSent'
  BY <1>0, <1>4 DEF IInv, AllSent, Total, Frames
<1>19. PassIsTrue' /\ LimitNeverStrikes'
  BY <1>0, <1>4 DEF PassIsTrue, LimitNeverStrikes
<1> QED
  BY <1>11, <1>12, <1>13, <1>14, <1>15, <1>16, <1>17, <1>18, <1>19 DEF IInv

LEMMA RecvFramesKeeps ==
    ASSUME IInv, RecvFrames
    PROVE  IInv'
<1>0. /\ pc \notin {"login", "done"} /\ mode # "refused" /\ result = "none"
      /\ UNCHANGED <<mode, off, up, srv, answer, sent, forwards>>
  BY DEF IInv, ClientTypes, Where, RecvFrames
<1>1. PICK n \in RecvSizes : Receive(n)
          /\ IF Len(acc) + n > MaxAcc THEN Finish("overflow")
             ELSE IF count' < Frames THEN UNCHANGED <<pc, result>>
             ELSE Finish(IF RecvPasses THEN "pass" ELSE "fail")
  BY DEF RecvFrames
<1>2. /\ acc' \in Seq(Byte) /\ down' \in Seq(Byte) /\ missed' \in Seq(Reply) /\ count' \in Nat
      /\ ~ Complete(acc')
      /\ \E cut \in Seq(Byte) :
            /\ srv # "closed" => cut = <<>>
            /\ Cat(Cat(acc', down'), cut) = FlattenSeq(missed')
      /\ count' + Len(missed') = count + Len(missed)
      /\ Len(missed') \in Nat /\ Len(missed') <= Len(missed)
  BY <1>0, <1>1, Received DEF IInv
<1>3. Len(acc') <= MaxAcc /\ Len(acc) + n <= MaxAcc
  BY <1>0, <1>1, RoomForAll
<1>4. /\ pc = "recv" /\ mode \in {"echo", "single"}
      /\ \/ pc' = pc /\ result' = "none"
         \/ pc' = "done" /\ result' = "fail"
         \/ pc' = "done" /\ result' = "pass" /\ RecvPasses
  <2>1. ~ (Len(acc) + n > MaxAcc)
    <3>1. Len(acc) \in Nat /\ n \in Nat /\ MaxAcc \in Nat
      BY RecvSize, SizesAssumption DEF IInv, ClientTypes
    <3> QED
      BY <1>3, <3>1
  <2> QED
    BY <1>0, <1>1, <2>1 DEF Finish, RecvFrames, IInv, Where
<1>11. ClientTypes'
  BY <1>0, <1>2, <1>4 DEF IInv, ClientTypes
<1>12. Where'
  BY <1>0, <1>4 DEF IInv, Where
<1>13. LoggingIn'
  BY <1>0, <1>2, <1>4 DEF IInv, LoggingIn, LoggedIn
<1>14. LoggedIn'
  BY <1>0, <1>4 DEF IInv, LoggedIn, LooksAtStatus
<1>15. InStream'
  BY <1>0, <1>2, <1>4 DEF InStream
<1>16. Counted'
  BY <1>0, <1>2 DEF IInv, Counted
<1>17. Unread'
  BY <1>0, <1>4 DEF Unread
<1>18. AllSent'
  BY <1>0, <1>4 DEF IInv, AllSent, Total, Frames
<1>19. PassIsTrue' /\ LimitNeverStrikes'
  <2>1. LimitNeverStrikes'
    BY <1>4 DEF LimitNeverStrikes
  <2> SUFFICES ASSUME result' = "pass" PROVE PassIsTrue'
    BY <2>1 DEF PassIsTrue
  <2>2. count' = Frames /\ (mode = "single" \/ acc' = <<>>)
    BY <1>4 DEF RecvPasses
  <2>3. sent' - Len(missed') = Frames
    <3>1. sent = count + Len(missed) /\ Len(missed) \in Nat /\ count \in Nat
      BY DEF IInv, ClientTypes, Counted
    <3> QED
      BY <1>0, <1>2, <2>2, <3>1
  <2>4. off' = Total' /\ Frames' = Frames
    BY <1>0, <1>4 DEF IInv, AllSent, Total, Frames
  <2>5. mode = "echo" => Aligned(down)'
    <3> SUFFICES ASSUME mode = "echo" PROVE Aligned(down)'
      OBVIOUS
    <3>1. PICK cut \in Seq(Byte) : /\ srv # "closed" => cut = <<>>
                                   /\ Cat(Cat(acc', down'), cut) = FlattenSeq(missed')
      BY <1>2
    <3>2. acc' = <<>>
      BY <2>2
    <3>3. Cat(acc', down') = down'
      BY <1>2, <3>2, CatEmpty
    <3>4. IsPrefix(down', FlattenSeq(missed'))
      BY <1>2, <3>1, <3>3, PrefixOf
    <3>5. srv # "closed" => down' = FlattenSeq(missed')
      BY <1>2, <3>1, <3>3, CatEmpty
    <3> QED
      BY <1>0, <3>4, <3>5 DEF Aligned
  <2> QED
    BY <1>0, <1>4, <2>3, <2>4, <2>5 DEF PassIsTrue, LooksAtStatus
<1> QED
  BY <1>11, <1>12, <1>13, <1>14, <1>15, <1>16, <1>17, <1>18, <1>19 DEF IInv

LEMMA ServerAnswersLoginKeeps ==
    ASSUME IInv, ServerAnswersLogin
    PROVE  IInv'
<1>1. /\ answer' \in LoginResult /\ down' \in Seq(Byte)
      /\ pc = "login" => \E cut \in Seq(Byte) : Cat(down', cut) = answer'
  <2>1. answer' \in LoginResult /\ down' = Cat(<<>>, answer')
    BY DEF IInv, LoggingIn, ServerAnswersLogin, Cat
  <2>2. answer' \in Seq(Byte) /\ <<>> \in Seq(Byte)
    BY <2>1, FramesAssumption, EmptySeq
  <2>3. down' = answer' /\ Cat(down', <<>>) = answer'
    BY <2>1, <2>2, CatEmpty
  <2> QED
    BY <2>1, <2>2, <2>3
<1>11. ClientTypes'
  BY <1>1 DEF IInv, ClientTypes, ServerAnswersLogin
<1>12. Where'
  BY DEF IInv, ClientTypes, Where, ServerAnswersLogin
<1>13. LoggingIn'
  BY <1>1 DEF IInv, ClientTypes, LoggingIn, ServerAnswersLogin
<1>14. LoggedIn'
  BY DEF IInv, ClientTypes, LoggedIn, LooksAtStatus, ServerAnswersLogin
<1>15. InStream'
  BY DEF IInv, ClientTypes, InStream, LoggedIn, ServerAnswersLogin
<1>16. Counted'
  BY DEF IInv, ClientTypes, Counted, ServerAnswersLogin
<1>17. Unread'
  BY DEF IInv, ClientTypes, Unread, ServerAnswersLogin
<1>18. AllSent'
  BY DEF IInv, ClientTypes, AllSent, Total, Frames, ServerAnswersLogin
<1>19. PassIsTrue' /\ LimitNeverStrikes'
  BY DEF IInv, ClientTypes, PassIsTrue, LimitNeverStrikes, ServerAnswersLogin
<1> QED
  BY <1>11, <1>12, <1>13, <1>14, <1>15, <1>16, <1>17, <1>18, <1>19 DEF IInv

LEMMA ServerRepliesKeeps ==
    ASSUME IInv, ServerReplies
    PROVE  IInv'
<1>0. PICK f \in Reply : ServerSends(f)
  BY DEF ServerReplies
<1>1. srv = "open" /\ pc \notin {"login", "done"} /\ result = "none"
  BY SizesAssumption DEF IInv, ClientTypes, LoggingIn, Open, ServerReplies
<1>2. /\ down' \in Seq(Byte) /\ missed' \in Seq(Reply) /\ sent' \in Nat
      /\ Len(missed') = Len(missed) + 1
      /\ InStream' /\ Counted'
  BY <1>0, <1>1, FrameAdded DEF ServerReplies
<1>3. Len(missed) \in Nat /\ up \in Nat /\ ReqLen \in Nat \ {0} /\ forwards \in Int /\ MaxForwards \in Int
  BY SizesAssumption DEF IInv, ClientTypes
<1>11. ClientTypes'
  BY <1>2, <1>3, SizesAssumption DEF IInv, ClientTypes, ServerReplies
<1>12. Where'
  BY DEF IInv, ClientTypes, Where, ServerReplies
<1>13. LoggingIn'
  BY <1>1 DEF IInv, ClientTypes, LoggingIn, ServerReplies
<1>14. LoggedIn'
  BY DEF IInv, ClientTypes, LoggedIn, LooksAtStatus, ServerReplies
<1>15. InStream'
  BY <1>2
<1>16. Counted'
  BY <1>2
<1>17. Unread'
  <2> DEFINE x == Len(missed) - (MaxForwards - forwards)
  <2>1. x \in Int /\ Len(missed') - (MaxForwards - forwards) = x + 1
    BY <1>2, <1>3
  <2>2. Req(x) \in Int /\ Req(x + 1) = Req(x) + ReqLen
    BY <2>1, Reqs
  <2>3. up' = up - ReqLen /\ up' + Req(x + 1) = up + Req(x)
    BY <1>3, <2>2 DEF ServerReplies
  <2>4. up' + Req(Len(missed') - (MaxForwards - forwards)) = up + Req(x)
    BY <2>1, <2>3
  <2>5. mode = "sender" /\ pc # "done" =>
          up + Req(x) <= UpCap + (IF pc = "send" THEN off % ReqLen ELSE ReqLen)
    BY DEF IInv, Unread
  <2>6. mode' = mode /\ pc' = pc /\ off' = off /\ forwards' = forwards
    BY DEF ServerReplies
  <2> QED
    BY <2>4, <2>5, <2>6 DEF Unread
<1>18. AllSent'
  BY DEF IInv, ClientTypes, AllSent, Total, Frames, ServerReplies
<1>19. PassIsTrue' /\ LimitNeverStrikes'
  BY <1>1 DEF IInv, ClientTypes, PassIsTrue, LimitNeverStrikes, ServerReplies
<1> QED
  BY <1>11, <1>12, <1>13, <1>14, <1>15, <1>16, <1>17, <1>18, <1>19 DEF IInv

LEMMA ServerForwardsKeeps ==
    ASSUME IInv, Quiet, ServerForwards
    PROVE  IInv'
<1>0. PICK f \in Reply : ServerSends(f)
  BY DEF ServerForwards
<1>1. srv = "open" /\ pc \notin {"login", "done"} /\ result = "none"
  BY Quiet DEF IInv, ClientTypes, LoggingIn, Open, ServerForwards
<1>2. /\ down' \in Seq(Byte) /\ missed' \in Seq(Reply) /\ sent' \in Nat
      /\ Len(missed') = Len(missed) + 1
      /\ InStream' /\ Counted'
  BY <1>0, <1>1, FrameAdded DEF ServerForwards
<1>3. Len(missed) \in Nat /\ up \in Nat /\ ReqLen \in Nat \ {0} /\ forwards \in Int /\ MaxForwards \in Int
  BY SizesAssumption DEF IInv, ClientTypes
<1>11. ClientTypes'
  BY <1>2, <1>3, SizesAssumption DEF IInv, ClientTypes, ServerForwards
<1>12. Where'
  BY DEF IInv, ClientTypes, Where, ServerForwards
<1>13. LoggingIn'
  BY <1>1 DEF IInv, ClientTypes, LoggingIn, ServerForwards
<1>14. LoggedIn'
  BY DEF IInv, ClientTypes, LoggedIn, LooksAtStatus, ServerForwards
<1>15. InStream'
  BY <1>2
<1>16. Counted'
  BY <1>2
<1>17. Unread'
  <2>1. Len(missed') - (MaxForwards - forwards') = Len(missed) - (MaxForwards - forwards)
    BY <1>2, <1>3 DEF ServerForwards
  <2>2. mode' = mode /\ pc' = pc /\ off' = off /\ up' = up
    BY DEF ServerForwards
  <2> QED
    BY <2>1, <2>2 DEF IInv, Unread
<1>18. AllSent'
  BY DEF IInv, ClientTypes, AllSent, Total, Frames, ServerForwards
<1>19. PassIsTrue' /\ LimitNeverStrikes'
  BY <1>1 DEF IInv, ClientTypes, PassIsTrue, LimitNeverStrikes, ServerForwards
<1> QED
  BY <1>11, <1>12, <1>13, <1>14, <1>15, <1>16, <1>17, <1>18, <1>19 DEF IInv

LEMMA ServerSwallowsKeeps ==
    ASSUME IInv, ServerSwallows
    PROVE  IInv'
<1>1. srv = "open" /\ pc \notin {"login", "done"} /\ result = "none"
  BY SizesAssumption DEF IInv, ClientTypes, LoggingIn, Open, ServerSwallows
<1>2. up' = up - ReqLen /\ up' \in 0..UpCap /\ up \in Nat /\ up' <= up
  BY SizesAssumption DEF IInv, ClientTypes, ServerSwallows
<1>11. ClientTypes'
  BY <1>2 DEF IInv, ClientTypes, ServerSwallows
<1>12. Where'
  BY DEF IInv, ClientTypes, Where, ServerSwallows
<1>13. LoggingIn'
  BY <1>1 DEF IInv, ClientTypes, LoggingIn, ServerSwallows
<1>14. LoggedIn'
  BY DEF IInv, ClientTypes, LoggedIn, LooksAtStatus, ServerSwallows
<1>15. InStream'
  BY DEF IInv, ClientTypes, InStream, ServerSwallows
<1>16. Counted'
  BY DEF IInv, ClientTypes, Counted, ServerSwallows
<1>17. Unread'
  <2>1. Req(Len(missed) - (MaxForwards - forwards)) \in Int
    BY Reqs, SizesAssumption DEF IInv, ClientTypes
  <2>2. off % ReqLen \in 0..ReqLen - 1 /\ ReqLen \in Nat /\ UpCap \in Nat
    BY Whole, SizesAssumption DEF IInv, ClientTypes
  <2> DEFINE x == Req(Len(missed) - (MaxForwards - forwards))
             y == UpCap + (IF pc = "send" THEN off % ReqLen ELSE ReqLen)
  <2>3. y \in Int /\ x \in Int
    BY <2>1, <2>2
  <2>4. mode = "sender" => up + x <= y
    BY <1>1 DEF IInv, Unread
  <2> HIDE DEF x, y
  <2>5. mode = "sender" => up' + x <= y
    BY <1>2, <2>3, <2>4
  <2> QED
    BY <2>5 DEF Unread, ServerSwallows, x, y
<1>18. AllSent'
  BY DEF IInv, ClientTypes, AllSent, Total, Frames, ServerSwallows
<1>19. PassIsTrue' /\ LimitNeverStrikes'
  BY <1>1 DEF IInv, ClientTypes, PassIsTrue, LimitNeverStrikes, ServerSwallows
<1> QED
  BY <1>11, <1>12, <1>13, <1>14, <1>15, <1>16, <1>17, <1>18, <1>19 DEF IInv

(* The server closes, whatever for. *)
LEMMA CloseKeeps ==
    ASSUME IInv, pc # "done", Close
    PROVE  IInv'
<1>1. down' \in Seq(Byte) /\ (down = <<>> => down' = <<>>)
  BY CutOff DEF IInv
<1>2. PICK cut \in Seq(Byte) : down = Cat(down', cut)
  BY CutOff DEF IInv
<1>11. ClientTypes'
  BY <1>1 DEF IInv, ClientTypes, Close
<1>12. Where'
  BY DEF IInv, ClientTypes, Where, Close
<1>13. LoggingIn'
  <2>1. CASE pc # "login"
    BY <2>1 DEF IInv, LoggingIn, Close
  <2>2. CASE pc = "login"
    <3>1. PICK rest \in Seq(Byte) : Cat(down, rest) = answer
      BY <2>2 DEF IInv, LoggingIn
    <3>2. Cat(cut, rest) \in Seq(Byte) /\ Cat(down', Cat(cut, rest)) = answer
      BY <1>1, <1>2, <3>1, CatIs, Regroup
    <3> QED
      BY <2>2, <3>2 DEF IInv, LoggingIn, Close
  <2> QED
    BY <2>1, <2>2
<1>14. LoggedIn'
  BY DEF IInv, ClientTypes, LoggedIn, LooksAtStatus, Close
<1>15. InStream'
  <2> SUFFICES ASSUME pc \notin {"login", "done"}, mode # "refused" PROVE InStream'
    BY DEF IInv, InStream, Close
  <2>1. PICK rest \in Seq(Byte) : Cat(Cat(acc, down), rest) = FlattenSeq(missed)
    BY DEF IInv, InStream
  <2>2. acc \in Seq(Byte) /\ Cat(cut, rest) \in Seq(Byte)
    BY CatIs DEF IInv, ClientTypes
  <2>3. Cat(Cat(acc, down'), Cat(cut, rest)) = FlattenSeq(missed)
    BY <1>1, <1>2, <2>1, <2>2, Regroup4
  <2>4. ~ Complete(acc) /\ acc' = acc /\ missed' = missed /\ pc' = pc /\ mode' = mode /\ srv' = "closed"
    BY DEF IInv, InStream, Close
  <2> QED
    BY <2>2, <2>3, <2>4 DEF InStream
<1>16. Counted'
  BY DEF IInv, ClientTypes, Counted, Close
<1>17. Unread'
  BY DEF IInv, ClientTypes, Unread, Close
<1>18. AllSent'
  BY DEF IInv, ClientTypes, AllSent, Total, Frames, Close
<1>19. PassIsTrue' /\ LimitNeverStrikes'
  BY DEF IInv, ClientTypes, PassIsTrue, LimitNeverStrikes, Close
<1> QED
  BY <1>11, <1>12, <1>13, <1>14, <1>15, <1>16, <1>17, <1>18, <1>19 DEF IInv

-----------------------------------------------------------------------------
(* The theorems *)

(* The initial states. *)
LEMMA InvInit == Init => IInv
<1> SUFFICES ASSUME Init PROVE IInv
  OBVIOUS
<1>1. <<>> \in Seq(Byte) /\ <<>> \in Seq(Reply) /\ Cat(<<>>, <<>>) = <<>>
  BY EmptySeq, CatEmpty
<1>2. ClientTypes
  BY <1>1, SizesAssumption DEF ClientTypes, Init
<1>3. LoggingIn
  BY <1>1 DEF LoggingIn, Init
<1>4. Where /\ LoggedIn /\ InStream /\ AllSent /\ PassIsTrue /\ LimitNeverStrikes
  BY DEF Where, LoggedIn, InStream, AllSent, PassIsTrue, LimitNeverStrikes, Init
<1>5. Counted
  BY DEF Counted, Init
<1>6. Unread
  <2>1. Len(missed) - (MaxForwards - forwards) = 0 /\ pc = "login" /\ up = 0
    BY SizesAssumption DEF Init
  <2>2. Req(Len(missed) - (MaxForwards - forwards)) = 0
    BY <2>1, Reqs
  <2> QED
    BY <2>1, <2>2, SizesAssumption DEF Unread
<1> QED
  BY <1>2, <1>3, <1>4, <1>5, <1>6 DEF IInv

(* All steps; only ServerForwards needs Quiet, and only the login needs    *)
(* InOnePiece.                                                             *)
LEMMA InvStep == Quiet /\ InOnePiece /\ IInv /\ [Next]_vars => IInv'
<1> SUFFICES ASSUME Quiet, InOnePiece, IInv, [Next]_vars PROVE IInv'
  OBVIOUS
<1>1. CASE ClientStep
  BY <1>1, PreLoginKeeps, LoginOnlyKeeps, PreLoginFailsKeeps, SendAllKeeps, SendSomeKeeps,
     SendBlockedKeeps, SendFailsKeeps, PumpSomeKeeps, PumpEndsKeeps, SendPollFailsKeeps,
     PumpFailsKeeps, RecvFramesKeeps, RecvFramesFailsKeeps, ExpectCloseDropsKeeps,
     ExpectCloseEndsKeeps, HoldReadsKeeps, HoldFailsKeeps, HoldPumpsKeeps,
     ReceiverDeadlineKeeps, SenderDeadlineKeeps, HoldPollFailsKeeps DEF ClientStep
<1>2. CASE ServerAnswersLogin \/ ServerReplies \/ ServerSwallows \/ ServerForwards
  BY <1>2, ServerAnswersLoginKeeps, ServerRepliesKeeps, ServerSwallowsKeeps,
     ServerForwardsKeeps
<1>3. CASE ServerRefuses \/ ServerCloses
  BY <1>3, CloseKeeps DEF ServerRefuses, ServerCloses, Open
<1>4. CASE UNCHANGED vars
  <2>1. /\ ClientTypes' /\ Where' /\ LoggingIn' /\ LoggedIn' /\ AllSent' /\ Unread'
    BY <1>4 DEF IInv, ClientTypes, Where, LoggingIn, LoggedIn, LooksAtStatus, AllSent, Total,
                Frames, Unread, vars, env
  <2>2. InStream' /\ Counted' /\ LimitNeverStrikes'
    BY <1>4 DEF IInv, InStream, Counted, LimitNeverStrikes, vars, env
  <2>3. PassIsTrue'
    BY <1>4 DEF IInv, PassIsTrue, LooksAtStatus, Aligned, Total, Frames, vars, env
  <2> QED
    BY <2>1, <2>2, <2>3 DEF IInv
<1> QED
  BY <1>1, <1>2, <1>3, <1>4 DEF Next

(* The invariant holds of every client whose login result comes alone and  *)
(* in one piece.                                                           *)
THEOREM ClientInv == ASSUME Quiet, InOnePiece PROVE Spec => []IInv
<1>1. IInv /\ [Next]_vars => IInv'
  BY InvStep
<1> QED
  BY <1>1, InvInit, PTL DEF Spec

(* InStep: from the login on, what the client holds and what is under way  *)
(* are the frames it has not counted, however they are cut into chunks.    *)
THEOREM StaysInStep == ASSUME Quiet, InOnePiece PROVE Spec => []InStep
<1>1. ASSUME IInv PROVE InStep
  <2> SUFFICES ASSUME pc \notin {"login", "done"}, mode # "refused"
               PROVE  Aligned(acc \o down)
    BY DEF InStep
  <2>1. acc \in Seq(Byte) /\ down \in Seq(Byte)
    BY <1>1 DEF IInv, ClientTypes
  <2>2. PICK cut \in Seq(Byte) : /\ srv # "closed" => cut = <<>>
                                 /\ Cat(Cat(acc, down), cut) = FlattenSeq(missed)
    BY <1>1 DEF IInv, InStream
  <2>3. Cat(acc, down) \in Seq(Byte)
    BY <2>1, CatIs
  <2>4. IsPrefix(Cat(acc, down), FlattenSeq(missed))
    BY <2>2, <2>3, PrefixOf
  <2>5. srv # "closed" => Cat(acc, down) = FlattenSeq(missed)
    BY <2>2, <2>3, CatEmpty
  <2>6. Cat(acc, down) = acc \o down
    BY DEF Cat
  <2> QED
    BY <2>4, <2>5, <2>6 DEF Aligned
<1> QED
  BY <1>1, ClientInv, PTL

(* LimitNeverStrikes: no loop ever fails for kMaxAccBytes; the limit is    *)
(* there for headers no server of this program writes.                     *)
THEOREM LimitUnused == ASSUME Quiet, InOnePiece PROVE Spec => []LimitNeverStrikes
<1>1. IInv => LimitNeverStrikes
  BY DEF IInv
<1> QED
  BY <1>1, ClientInv, PTL

(* PassIsTrue: a PASS is right about what was sent and what has come.      *)
THEOREM PassMeansIt == ASSUME Quiet, InOnePiece PROVE Spec => []PassIsTrue
<1>1. IInv => PassIsTrue
  BY DEF IInv
<1> QED
  BY <1>1, ClientInv, PTL

(* UnreadBounded: before it begins a frame the sender has read every       *)
(* reply, so that no more are unread than requests fit under way, and one. *)
THEOREM FewUnread == ASSUME Quiet, InOnePiece PROVE Spec => []UnreadBounded
<1>1. ASSUME IInv PROVE UnreadBounded
  <2> SUFFICES ASSUME mode = "sender", pc # "done"
               PROVE  Len(missed) <= UpCap \div ReqLen + 1 + (MaxForwards - forwards)
    BY DEF UnreadBounded
  <2> DEFINE x == Len(missed) - (MaxForwards - forwards)
             k == UpCap \div ReqLen
             r == UpCap % ReqLen
  <2>1. /\ Len(missed) \in Nat /\ MaxForwards \in Int /\ forwards \in Int /\ x \in Int
        /\ up \in Nat /\ off \in Nat /\ UpCap \in Nat /\ ReqLen \in Nat \ {0}
    BY <1>1, SizesAssumption DEF IInv, ClientTypes
  <2>2. off % ReqLen \in 0..ReqLen - 1
    BY <2>1, Whole
  <2>3. k \in Nat /\ r \in 0..ReqLen - 1 /\ UpCap = Req(k) + r
    BY <2>1, Whole
  <2>4. up + Req(x) <= UpCap + (IF pc = "send" THEN off % ReqLen ELSE ReqLen)
    BY <1>1 DEF IInv, Unread
  <2>5. Req(x) \in Int /\ Req(k) \in Int /\ Req(k + 1) \in Int
    <3>1. k + 1 \in Int /\ k \in Int
      BY <2>3
    <3> QED
      BY <2>1, <3>1, Reqs
  <2>6. Req(x) <= UpCap + ReqLen
    <3> HIDE DEF x
    <3> QED
      BY <2>1, <2>2, <2>4, <2>5
  <2>7. Req(k + 1) = Req(k) + ReqLen
    BY <2>3, Reqs
  <2>8. k + 1 < x => Req(k + 1) + ReqLen <= Req(x)
    <3>1. k + 1 \in Int
      BY <2>3
    <3> QED
      BY <2>1, <3>1, Reqs
  <2>9. ~ (k + 1 < x)
    <3> HIDE DEF x, k, r
    <3> QED
      BY <2>1, <2>3, <2>5, <2>6, <2>7, <2>8
  <2>10. x <= k + 1
    <3> HIDE DEF x, k
    <3> QED
      BY <2>1, <2>3, <2>9
  <2> HIDE DEF k
  <2>11. Len(missed) <= k + 1 + (MaxForwards - forwards)
    BY <2>1, <2>3, <2>10
  <2> QED
    BY <2>11 DEF k
<1> QED
  BY <1>1, ClientInv, PTL
=============================================================================
