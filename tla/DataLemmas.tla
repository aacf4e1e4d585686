------------------------------ MODULE DataLemmas ------------------------------
(***************************************************************************)
(* Facts about data that the proofs of several components need: the least   *)
(* number of a set, functions defined by recursion, flattened sequences.    *)
(* Induction is by the least number for which a claim fails.                *)
(***************************************************************************)
EXTENDS SequencesExt, SequenceTheorems, WellFoundedInduction, FiniteSetTheorems, TLAPS

\* Every set of naturals has a least number: the form of induction used below.
LEMMA LeastNumber ==
  ASSUME NEW T, T \subseteq Nat, T # {}
  PROVE  \E n \in T : \A m \in T : n <= m
<1>1. PICK n \in T : \A m \in T : ~(<<m, n>> \in OpToRel(<, Nat))
  BY NatLessThanWellFounded, WFMin, Zenon
<1>2. \A m \in T : n <= m
  <2> TAKE m \in T
  <2>1. n \in Nat /\ m \in Nat
    OBVIOUS
  <2>2. ~(<<m, n>> \in {ss \in Nat \X Nat : ss[1] < ss[2]})
    BY <1>1, Zenon DEF OpToRel
  <2> QED
    BY <2>1, <2>2
<1> QED
  BY <1>2

\* Induction along an interval, for the set of the numbers a claim holds of.
Inductive(G, a, b) == a \in G /\ \A k \in a + 1 .. b : k - 1 \in G => k \in G

LEMMA IntervalInduction ==
  ASSUME NEW a \in Nat, NEW b \in Int, NEW G, Inductive(G, a, b)
  PROVE  \A k \in a .. b : k \in G
<1> USE DEF Inductive
<1> DEFINE T == (a .. b) \ G
<1> SUFFICES ASSUME T # {} PROVE FALSE
  OBVIOUS
<1>1. T \subseteq Nat
  OBVIOUS
<1> HIDE DEF T
<1>2. PICK k \in T : \A m \in T : k <= m
  BY <1>1, LeastNumber
<1> USE DEF T
<1>3. k \in a + 1 .. b /\ k - 1 \in G
  BY <1>2
<1> QED
  BY <1>3

\* A function on 0 .. n that is given by its first value and the step to each next one.
Recurrence(f, n, S, base, step) ==
  /\ f \in [0 .. n -> S] /\ f[0] = base
  /\ \A i \in 1 .. n : f[i] = step[<<i, f[i - 1]>>]

LEMMA RecursionExists ==
  ASSUME NEW n \in Nat, NEW S, NEW base \in S, NEW step \in [(1 .. n) \X S -> S]
  PROVE  \E f : Recurrence(f, n, S, base, step)
<1> USE DEF Recurrence
<1> DEFINE Good(k) == \E f : Recurrence(f, k, S, base, step)
<1>1. Good(0)
  <2> DEFINE f == [i \in 0 .. 0 |-> base]
  <2>1. f \in [0 .. 0 -> S] /\ f[0] = base
    OBVIOUS
  <2>2. \A i \in 1 .. 0 : f[i] = step[<<i, f[i - 1]>>]
    OBVIOUS
  <2> QED
    BY <2>1, <2>2
<1>2. ASSUME NEW k \in 1 .. n, Good(k - 1) PROVE Good(k)
  <2>1. PICK g \in [0 .. k - 1 -> S] :
          g[0] = base /\ \A i \in 1 .. k - 1 : g[i] = step[<<i, g[i - 1]>>]
    BY <1>2
  <2> DEFINE f == [i \in 0 .. k |-> IF i = k THEN step[<<k, g[k - 1]>>] ELSE g[i]]
  <2>2. step[<<k, g[k - 1]>>] \in S
    OBVIOUS
  <2>3. f \in [0 .. k -> S]
    BY <2>2
  <2>4. f[0] = base
    BY <2>1
  <2>5. ASSUME NEW i \in 1 .. k PROVE f[i] = step[<<i, f[i - 1]>>]
    <3>1. f[i - 1] = g[i - 1]
      OBVIOUS
    <3>2. f[i] = step[<<i, g[i - 1]>>]
      BY <2>1
    <3> QED
      BY <3>1, <3>2
  <2> QED
    BY <2>3, <2>4, <2>5
<1> HIDE DEF Good
<1> DEFINE G == {k \in 0 .. n : Good(k)}
<1>4. Inductive(G, 0, n)
  BY <1>1, <1>2 DEF Inductive
<1> HIDE DEF G
<1>5. \A k \in 0 .. n : k \in G
  BY <1>4, IntervalInduction
<1>6. Good(n)
  BY <1>5 DEF G
<1> QED
  BY <1>6 DEF Good

\* Two functions that begin alike and go on alike are the same on 0 .. n.
GoAlike(f, g, n) == f[0] = g[0] /\ \A i \in 1 .. n : f[i - 1] = g[i - 1] => f[i] = g[i]
Alike(f, g, n) == \A i \in 0 .. n : f[i] = g[i]

LEMMA SameByRecursion ==
  ASSUME NEW n \in Nat, NEW f, NEW g, GoAlike(f, g, n)
  PROVE  Alike(f, g, n)
<1> USE DEF GoAlike, Alike
<1> DEFINE G == {i \in 0 .. n : f[i] = g[i]}
<1>1. Inductive(G, 0, n)
  BY DEF Inductive
<1> HIDE DEF G
<1>2. \A i \in 0 .. n : i \in G
  BY <1>1, IntervalInduction
<1> QED
  BY <1>2 DEF G

-----------------------------------------------------------------------------
(* FlattenSeq.                                                              *)

\* The sequences one after the other: f[i] is the first i of them.
LEMMA FlattenByPrefix ==
  ASSUME NEW S, NEW seqs \in Seq(Seq(S))
  PROVE  \E f \in [0 .. Len(seqs) -> Seq(S)] :
           /\ f[0] = <<>> /\ FlattenSeq(seqs) = f[Len(seqs)]
           /\ \A i \in 1 .. Len(seqs) : f[i] = f[i - 1] \o seqs[i]
<1> DEFINE n == Len(seqs)
           step == [p \in (1 .. n) \X Seq(S) |-> p[2] \o seqs[p[1]]]
<1>1. n \in Nat /\ \A i \in 1 .. n : seqs[i] \in Seq(S)
  BY LenProperties, ElementOfSeq
<1>2. step \in [(1 .. n) \X Seq(S) -> Seq(S)]
  BY <1>1, ConcatProperties
<1>3. <<>> \in Seq(S)
  OBVIOUS
<1>4. \A i \in 1 .. n, s \in Seq(S) : step[<<i, s>>] = s \o seqs[i]
  OBVIOUS
<1> HIDE DEF step, n
<1>5. PICK f \in [0 .. n -> Seq(S)] :
        f[0] = <<>> /\ \A i \in 1 .. n : f[i] = step[<<i, f[i - 1]>>]
  <2>1. \E f : Recurrence(f, n, Seq(S), <<>>, step)
    BY <1>1, <1>2, <1>3, RecursionExists
  <2> QED
    BY <2>1 DEF Recurrence
<1>6. ASSUME NEW i \in 1 .. n PROVE f[i] = f[i - 1] \o seqs[i]
  <2>1. f[i - 1] \in Seq(S)
    BY <1>1
  <2> QED
    BY <1>4, <1>5, <2>1
<1>7. CASE n = 0
  <2>1. seqs = <<>>
    BY <1>7 DEF n
  <2>2. FlattenSeq(seqs) = <<>>
    BY <2>1, <1>7 DEF FlattenSeq, n
  <2> QED
    BY <1>5, <1>6, <1>7, <2>2 DEF n
<1>8. CASE n # 0
  <2> DEFINE Flat(h) == h = [i \in 1 .. n |-> IF i = 1 THEN seqs[i] ELSE h[i - 1] \o seqs[i]]
             g == [i \in 1 .. n |-> f[i]]
             h == CHOOSE h : Flat(h)
  <2>1. f[1] = seqs[1]
    <3>1. 1 \in 1 .. n
      BY <1>1, <1>8
    <3>2. ASSUME NEW i \in 1 .. n, i = 1 PROVE f[i] = f[0] \o seqs[i]
      <4>1. i - 1 = 0
        BY <3>2
      <4> QED
        BY <1>6, <4>1
    <3> QED
      BY <1>1, <1>5, <3>1, <3>2, ConcatEmptySeq
  <2>2. ASSUME NEW i \in 1 .. n
        PROVE  g[i] = IF i = 1 THEN seqs[i] ELSE g[i - 1] \o seqs[i]
    <3>1. CASE i = 1
      BY <2>1, <3>1
    <3>2. CASE i # 1
      <4>1. i - 1 \in 1 .. n
        BY <1>1, <3>2
      <4>2. g[i - 1] = f[i - 1] /\ g[i] = f[i]
        BY <4>1
      <4> QED
        BY <1>6, <3>2, <4>2
    <3> QED
      BY <3>1, <3>2
  <2>3. Flat(g)
    BY <2>2
  <2>4. Flat(h)
    BY <2>3
  <2>5. FlattenSeq(seqs) = h[n]
    BY <1>8 DEF FlattenSeq, n
  <2> HIDE DEF h
  <2>6. \A i \in 1 .. n : h[i] = IF i = 1 THEN seqs[i] ELSE h[i - 1] \o seqs[i]
    BY <2>4
  <2> DEFINE k == [i \in 0 .. n |-> IF i = 0 THEN <<>> ELSE h[i]]
  <2>7. ASSUME NEW i \in 1 .. n, k[i - 1] = f[i - 1] PROVE k[i] = f[i]
    <3>1. k[i] = h[i]
      BY <1>1
    <3>2. CASE i = 1
      BY <2>1, <2>6, <3>1, <3>2
    <3>3. CASE i # 1
      <4>1. k[i - 1] = h[i - 1]
        BY <1>1, <3>3
      <4> QED
        BY <1>6, <2>6, <2>7, <3>1, <3>3, <4>1
    <3> QED
      BY <3>2, <3>3
  <2>8. k[0] = f[0]
    BY <1>1, <1>5
  <2>9. k[n] = h[n]
    BY <1>1, <1>8
  <2> HIDE DEF k
  <2>10. k[n] = f[n]
    <3>1. GoAlike(k, f, n)
      BY <2>7, <2>8 DEF GoAlike
    <3>2. Alike(k, f, n)
      BY <1>1, <3>1, SameByRecursion
    <3> QED
      BY <1>1, <3>2 DEF Alike
  <2> QED
    BY <1>5, <1>6, <2>5, <2>9, <2>10 DEF n
<1> QED
  BY <1>7, <1>8

LEMMA ConcatAt ==
  ASSUME NEW S, NEW s \in Seq(S), NEW t \in Seq(S)
  PROVE  /\ Len(s) \in Nat /\ Len(t) \in Nat /\ Len(s \o t) = Len(s) + Len(t)
         /\ \A i \in 1 .. Len(s) : (s \o t)[i] = s[i]
         /\ \A j \in 1 .. Len(t) : (s \o t)[Len(s) + j] = t[j]
<1>1. Len(s) \in Nat /\ Len(t) \in Nat
  BY LenProperties
<1>2. /\ Len(s \o t) = Len(s) + Len(t)
      /\ \A i \in 1 .. Len(s) + Len(t) :
           (s \o t)[i] = IF i <= Len(s) THEN s[i] ELSE t[i - Len(s)]
  BY ConcatProperties
<1>3. ASSUME NEW j \in 1 .. Len(t) PROVE (s \o t)[Len(s) + j] = t[j]
  <2>1. Len(s) + j \in 1 .. Len(s) + Len(t) /\ ~(Len(s) + j <= Len(s)) /\ Len(s) + j - Len(s) = j
    BY <1>1
  <2> QED
    BY <1>2, <2>1
<1>4. ASSUME NEW i \in 1 .. Len(s) PROVE (s \o t)[i] = s[i]
  <2>1. i \in 1 .. Len(s) + Len(t) /\ i <= Len(s)
    BY <1>1
  <2> QED
    BY <1>2, <2>1
<1> QED
  BY <1>1, <1>2, <1>3, <1>4

\* Where each sequence begins in the flattened one: off[i] elements come before the next.
Laid(seqs, off) ==
  /\ off \in [0 .. Len(seqs) -> Nat] /\ off[0] = 0
  /\ \A i \in 1 .. Len(seqs) : off[i] = off[i - 1] + Len(seqs[i])

LaidOut(seqs, flat, off) ==
  /\ Laid(seqs, off) /\ Len(flat) = off[Len(seqs)]
  /\ \A i \in 1 .. Len(seqs) : \A j \in 1 .. Len(seqs[i]) : flat[off[i - 1] + j] = seqs[i][j]

LEMMA OffsetsGrow ==
  ASSUME NEW S, NEW seqs \in Seq(Seq(S)), NEW off, Laid(seqs, off),
         NEW i \in 0 .. Len(seqs), NEW k \in i .. Len(seqs)
  PROVE  off[i] <= off[k]
<1> DEFINE n == Len(seqs)
           G == {m \in i .. n : off[i] <= off[m]}
<1>1. n \in Nat /\ i \in Nat /\ i <= n
  BY LenProperties
<1>2. \A m \in 0 .. n : off[m] \in Nat
  BY DEF Laid
<1>3. Inductive(G, i, n)
  <2>1. i \in G
    BY <1>1, <1>2
  <2>2. ASSUME NEW m \in i + 1 .. n, m - 1 \in G PROVE m \in G
    <3>1. m \in 1 .. n /\ m \in 0 .. n /\ m - 1 \in 0 .. n /\ m \in i .. n
      BY <1>1
    <3>2. seqs[m] \in Seq(S) /\ Len(seqs[m]) \in Nat
      BY <3>1, ElementOfSeq, LenProperties
    <3>3. off[m] = off[m - 1] + Len(seqs[m])
      BY <3>1 DEF Laid
    <3>4. off[i] <= off[m - 1]
      BY <2>2
    <3>5. off[m] \in Nat /\ off[m - 1] \in Nat /\ off[i] \in Nat
      BY <1>1, <1>2, <3>1
    <3>6. off[i] <= off[m]
      BY <3>2, <3>3, <3>4, <3>5
    <3> QED
      BY <3>1, <3>6
  <2> QED
    BY <2>1, <2>2 DEF Inductive
<1> HIDE DEF G
<1>4. \A m \in i .. n : m \in G
  BY <1>1, <1>3, IntervalInduction
<1> QED
  BY <1>1, <1>4 DEF G

LEMMA FlattenLaidOut ==
  ASSUME NEW S, NEW seqs \in Seq(Seq(S))
  PROVE  FlattenSeq(seqs) \in Seq(S) /\ \E off : LaidOut(seqs, FlattenSeq(seqs), off)
<1> DEFINE n == Len(seqs)
<1>1. n \in Nat /\ \A i \in 1 .. n : seqs[i] \in Seq(S)
  BY LenProperties, ElementOfSeq
<1>2. PICK f \in [0 .. n -> Seq(S)] :
        /\ f[0] = <<>> /\ FlattenSeq(seqs) = f[n]
        /\ \A i \in 1 .. n : f[i] = f[i - 1] \o seqs[i]
  BY FlattenByPrefix
<1> HIDE DEF n
<1> DEFINE off == [i \in 0 .. n |-> Len(f[i])]
<1>3. \A i \in 0 .. n : f[i] \in Seq(S) /\ Len(f[i]) \in Nat
  BY <1>1, LenProperties
<1>4. ASSUME NEW i \in 1 .. n PROVE off[i] = off[i - 1] + Len(seqs[i])
  <2>1. i \in 0 .. n /\ i - 1 \in 0 .. n
    BY <1>1
  <2>2. f[i] = f[i - 1] \o seqs[i] /\ f[i - 1] \in Seq(S) /\ seqs[i] \in Seq(S)
    BY <1>1, <1>2, <1>3, <2>1
  <2>3. Len(f[i]) = Len(f[i - 1]) + Len(seqs[i])
    BY <2>2, ConcatAt
  <2> QED
    BY <2>1, <2>3
<1>5. Laid(seqs, off)
  <2>1. off[0] = 0
    BY <1>1, <1>2
  <2>2. off \in [0 .. n -> Nat]
    BY <1>3
  <2> QED
    BY <1>4, <2>1, <2>2 DEF Laid, n
<1>6. Len(FlattenSeq(seqs)) = off[n]
  BY <1>1, <1>2
<1>7. ASSUME NEW i \in 1 .. n, NEW j \in 1 .. Len(seqs[i])
      PROVE  FlattenSeq(seqs)[off[i - 1] + j] = seqs[i][j]
  <2> DEFINE k == Len(f[i - 1]) + j
             G == {m \in i .. n : f[m][k] = seqs[i][j]}
  <2>1. i \in 0 .. n /\ i - 1 \in 0 .. n /\ i \in Nat /\ i <= n
    BY <1>1
  <2>2. /\ f[i] = f[i - 1] \o seqs[i] /\ f[i - 1] \in Seq(S) /\ seqs[i] \in Seq(S)
    BY <1>1, <1>2, <1>3, <2>1
  <2>3. Len(f[i - 1]) \in Nat /\ Len(seqs[i]) \in Nat
    BY <2>2, LenProperties
  <2>4. k \in 1 .. Len(f[i])
    <3>1. Len(f[i]) = Len(f[i - 1]) + Len(seqs[i])
      BY <2>2, ConcatAt
    <3> QED
      BY <1>1, <2>1, <2>3, <3>1
  <2>9. i \in G
    <3>1. /\ k \in 1 .. Len(f[i - 1]) + Len(seqs[i])
          /\ ~(k <= Len(f[i - 1])) /\ k - Len(f[i - 1]) = j
      BY <1>1, <2>1, <2>3, SMTT(30)
    <3> HIDE DEF k
    <3>2. f[i][k] = seqs[i][j]
      BY <2>2, <3>1, ConcatProperties, SMTT(30)
    <3> QED
      BY <2>1, <3>2
  <2> HIDE DEF k
  <2>5. ASSUME NEW m \in i + 1 .. n, m - 1 \in G PROVE m \in G
    <3>1. m \in 1 .. n /\ m - 1 \in 0 .. n /\ m - 1 \in i .. n /\ m \in i .. n
      BY <1>1, <2>1
    <3>2. f[m] = f[m - 1] \o seqs[m] /\ f[m - 1] \in Seq(S) /\ seqs[m] \in Seq(S)
      BY <1>1, <1>2, <1>3, <3>1
    <3>3. off[i] <= off[m - 1]
      <4>1. i \in 0 .. Len(seqs) /\ m - 1 \in i .. Len(seqs)
        BY <2>1, <3>1 DEF n
      <4> HIDE DEF off
      <4> QED
        BY <1>5, <4>1, OffsetsGrow
    <3>4. off[i] = Len(f[i]) /\ off[m - 1] = Len(f[m - 1])
      BY <2>1, <3>1
    <3>5. Len(f[i]) \in Nat /\ Len(f[m - 1]) \in Nat
      BY <1>3, <2>1, <3>1
    <3>6. k \in 1 .. Len(f[m - 1])
      BY <2>4, <3>3, <3>4, <3>5
    <3>7. f[m][k] = f[m - 1][k]
      <4>1. \A x \in 1 .. Len(f[m - 1]) : (f[m - 1] \o seqs[m])[x] = f[m - 1][x]
        BY <3>2, ConcatAt, Zenon
      <4> QED
        BY <3>2, <3>6, <4>1
    <3> QED
      BY <2>5, <3>1, <3>7
  <2>6. Inductive(G, i, n)
    BY <2>5, <2>9 DEF Inductive
  <2>7. off[i - 1] = Len(f[i - 1])
    BY <2>1
  <2> HIDE DEF G
  <2>8. n \in G
    BY <1>1, <2>1, <2>6, IntervalInduction
  <2>10. f[n][k] = seqs[i][j]
    BY <2>8 DEF G
  <2> QED
    BY <1>2, <2>7, <2>10 DEF k
<1>8. FlattenSeq(seqs) \in Seq(S)
  BY <1>1, <1>2
<1> HIDE DEF off
<1>9. LaidOut(seqs, FlattenSeq(seqs), off)
  BY <1>5, <1>6, <1>7 DEF LaidOut, n
<1> QED
  BY <1>8, <1>9

\* The length of the first k sequences, flattened, is where the next one begins.
LEMMA PrefixLengths ==
  ASSUME NEW S, NEW seqs \in Seq(Seq(S)), NEW off, Laid(seqs, off),
         NEW k \in 0 .. Len(seqs)
  PROVE  Len(FlattenSeq(SubSeq(seqs, 1, k))) = off[k]
<1> DEFINE first == SubSeq(seqs, 1, k)
<1>1. Len(seqs) \in Nat /\ k \in Nat /\ k <= Len(seqs)
  BY LenProperties
<1>2. first \in Seq(Seq(S)) /\ Len(first) = k /\ \A i \in 1 .. k : first[i] = seqs[i]
  BY <1>1, SubSeqProperties
<1> HIDE DEF first
<1>3. PICK own : LaidOut(first, FlattenSeq(first), own)
  BY <1>2, FlattenLaidOut
<1>4. Len(FlattenSeq(first)) = own[k] /\ Laid(first, own)
  BY <1>2, <1>3 DEF LaidOut
<1>5. GoAlike(own, off, k)
  <2>1. own[0] = off[0]
    BY <1>4 DEF Laid
  <2>2. ASSUME NEW i \in 1 .. k, own[i - 1] = off[i - 1] PROVE own[i] = off[i]
    <3>1. own[i] = own[i - 1] + Len(first[i])
      BY <1>2, <1>4 DEF Laid
    <3>2. i \in 1 .. Len(seqs) /\ first[i] = seqs[i]
      BY <1>1, <1>2
    <3>3. off[i] = off[i - 1] + Len(seqs[i])
      BY <3>2 DEF Laid
    <3> QED
      BY <2>2, <3>1, <3>2, <3>3
  <2> QED
    BY <2>1, <2>2 DEF GoAlike
<1>6. own[k] = off[k]
  <2>1. Alike(own, off, k)
    BY <1>1, <1>5, SameByRecursion
  <2> QED
    BY <1>1, <2>1 DEF Alike
<1> QED
  BY <1>4, <1>6 DEF first

\* Every element of the flattened sequence is one of some sequence.
LEMMA FlattenOnto ==
  ASSUME NEW S, NEW seqs \in Seq(Seq(S)), NEW off, Laid(seqs, off),
         NEW k \in 1 .. off[Len(seqs)]
  PROVE  \E i \in 1 .. Len(seqs) : \E j \in 1 .. Len(seqs[i]) : k = off[i - 1] + j
<1> DEFINE n == Len(seqs)
           T == {i \in 0 .. n : k <= off[i]}
<1>1. n \in Nat /\ \A i \in 0 .. n : off[i] \in Nat
  BY LenProperties DEF Laid
<1>2. T \subseteq Nat /\ n \in T
  BY <1>1
<1> HIDE DEF T
<1>3. PICK i \in T : \A m \in T : i <= m
  BY <1>2, LeastNumber
<1> USE DEF T
<1>4. i # 0
  BY <1>1 DEF Laid
<1>5. i \in 1 .. n /\ i - 1 \in 0 .. n /\ i - 1 \notin T
  BY <1>1, <1>3, <1>4
<1>6. off[i - 1] < k /\ k <= off[i] /\ off[i] = off[i - 1] + Len(seqs[i])
  BY <1>1, <1>5 DEF Laid
<1>7. Len(seqs[i]) \in Nat
  BY <1>5, ElementOfSeq, LenProperties
<1>8. k - off[i - 1] \in 1 .. Len(seqs[i]) /\ k = off[i - 1] + (k - off[i - 1])
  BY <1>1, <1>5, <1>6, <1>7, SMTT(30)
<1> QED
  BY <1>5, <1>8

\* Sequences that have no element in common, and none twice.
Scattered(seqs) ==
  \A i, k \in 1 .. Len(seqs) : \A a \in 1 .. Len(seqs[i]), b \in 1 .. Len(seqs[k]) :
    seqs[i][a] = seqs[k][b] => i = k /\ a = b

\* The flattened sequence has the elements of all, and none twice if they have not.
LEMMA FlattenElements ==
  ASSUME NEW S, NEW seqs \in Seq(Seq(S)), NEW flat, flat = FlattenSeq(seqs)
  PROVE  /\ flat \in Seq(S) /\ Len(flat) \in Nat
         /\ \A p \in 1 .. Len(flat) :
              \E i \in 1 .. Len(seqs) : \E a \in 1 .. Len(seqs[i]) : flat[p] = seqs[i][a]
         /\ Scattered(seqs) =>
              \A p, q \in 1 .. Len(flat) : flat[p] = flat[q] => p = q
<1>1. flat \in Seq(S) /\ Len(flat) \in Nat /\ seqs \in Seq(Seq(S))
  BY FlattenLaidOut, LenProperties
<1>2. PICK off : LaidOut(seqs, flat, off)
  BY FlattenLaidOut
<1>3. ASSUME NEW p \in 1 .. Len(flat)
      PROVE  \E i \in 1 .. Len(seqs) : \E a \in 1 .. Len(seqs[i]) :
               p = off[i - 1] + a /\ flat[p] = seqs[i][a]
  <2>1. p \in 1 .. off[Len(seqs)] /\ Laid(seqs, off)
    BY <1>2 DEF LaidOut
  <2>2. PICK i \in 1 .. Len(seqs) : \E a \in 1 .. Len(seqs[i]) : p = off[i - 1] + a
    BY <1>1, <2>1, FlattenOnto, SMTT(30)
  <2> QED
    BY <1>2, <2>2 DEF LaidOut
<1>4. ASSUME Scattered(seqs), NEW p \in 1 .. Len(flat), NEW q \in 1 .. Len(flat), flat[p] = flat[q]
      PROVE  p = q
  <2>1. PICK i \in 1 .. Len(seqs) : \E a \in 1 .. Len(seqs[i]) :
               p = off[i - 1] + a /\ flat[p] = seqs[i][a]
    BY <1>3
  <2>2. PICK k \in 1 .. Len(seqs) : \E b \in 1 .. Len(seqs[k]) :
               q = off[k - 1] + b /\ flat[q] = seqs[k][b]
    BY <1>3
  <2>3. PICK a \in 1 .. Len(seqs[i]) : p = off[i - 1] + a /\ flat[p] = seqs[i][a]
    BY <2>1
  <2>4. PICK b \in 1 .. Len(seqs[k]) : q = off[k - 1] + b /\ flat[q] = seqs[k][b]
    BY <2>2
  <2>5. i = k /\ a = b
    <3>1. seqs[i][a] = seqs[k][b]
      BY <1>4, <2>3, <2>4
    <3>2. Scattered(seqs)
      BY <1>4
    <3> QED
      BY <3>1, <3>2 DEF Scattered
  <2> QED
    BY <2>3, <2>4, <2>5
<1> QED
  BY <1>1, <1>3, <1>4
=============================================================================
