----------------------------- MODULE ChunkingProofs -----------------------------
(***************************************************************************)
(* Proofs about Chunking, for any tokenizer, document, limit and overlap.  *)
(*                                                                         *)
(* The first part is about its operators: Total is a recursive function,   *)
(* and what it computes is shown by induction.  A principle of induction   *)
(* over a set of numbers is derived from the well-foundedness of <.        *)
(***************************************************************************)
EXTENDS Chunking, SequenceTheorems, WellFoundedInduction, TLAPS

-----------------------------------------------------------------------------
(* Induction *)

\* A non-empty set of naturals has a least element.
LEMMA Least ==
    ASSUME NEW T, T \subseteq Nat, T # {}
    PROVE  \E m \in T : \A k \in T : m <= k
<1>1. PICK m \in T : \A k \in T : ~(<<k, m>> \in OpToRel(<, Nat))
    BY NatLessThanWellFounded, WFMin
<1>2. \A k \in T : m <= k
    <2> SUFFICES ASSUME NEW k \in T, k < m PROVE FALSE
        BY SMT
    <2>1. <<k, m>> \in OpToRel(<, Nat)
        BY DEF OpToRel
    <2> QED
        BY <2>1, <1>1
<1> QED
    BY <1>2

\* A set of naturals with 0 that is closed under successor has them all.
LEMMA Induction ==
    ASSUME NEW T, 0 \in T, \A n \in Nat : n \in T => n + 1 \in T
    PROVE  Nat \subseteq T
<1> SUFFICES ASSUME Nat \ T # {} PROVE FALSE
    OBVIOUS
<1>1. PICK m \in Nat \ T : \A k \in Nat \ T : m <= k
    BY Least
<1>2. m # 0 /\ m - 1 \in Nat
    BY <1>1
<1>3. m - 1 \in T
    BY <1>1, <1>2
<1>4. (m - 1) + 1 = m
    BY <1>1
<1> QED
    BY <1>1, <1>2, <1>3, <1>4

\* A non-empty set of naturals with a bound has a greatest element.
LEMMA Greatest ==
    ASSUME NEW n \in Nat, NEW T \in SUBSET (0..n), T # {}
    PROVE  /\ Max(T) \in T
           /\ \A k \in T : k <= Max(T)
<1> DEFINE U == {k \in Nat : n - k \in T}
<1>1. U # {}
    <2>1. PICK k \in T : TRUE
        OBVIOUS
    <2>2. n - k \in Nat /\ n - (n - k) \in T
        BY <2>1, SMT
    <2> QED
        BY <2>2
<1>2. PICK m \in U : \A k \in U : m <= k
    BY <1>1, Least
<1>3. n - m \in T
    BY <1>2
<1>4. \A k \in T : k <= n - m
    <2> TAKE k \in T
    <2>1. n - k \in Nat /\ n - (n - k) = k
        OBVIOUS
    <2>2. n - k \in U
        BY <2>1
    <2>3. m <= n - k
        BY <2>2, <1>2
    <2> QED
        BY <2>3, <1>2, SMT
<1>5. \E x \in T : \A y \in T : x >= y
    BY <1>3, <1>4, SMT
<1>6. Max(T) \in T /\ \A y \in T : Max(T) >= y
    BY <1>5 DEF Max
<1> QED
    BY <1>6, SMT

-----------------------------------------------------------------------------
(* Total *)

\* The function of which Total(s) is the last value: the sums of the prefixes.
Sums(s) ==
    CHOOSE total : total = [i \in 0..Len(s) |-> IF i = 0 THEN 0 ELSE total[i - 1] + s[i]]

\* Sums(s) satisfies its recursive definition, and its values are naturals.
LEMMA SumsDef ==
    ASSUME NEW s \in Seq(Nat)
    PROVE  /\ Sums(s)[0] = 0
           /\ \A i \in 1..Len(s) : Sums(s)[i] = Sums(s)[i - 1] + s[i]
           /\ \A i \in 0..Len(s) : Sums(s)[i] \in Nat
           /\ Total(s) = Sums(s)[Len(s)]
<1> DEFINE Eqn(g, n) == g = [i \in 0..n |-> IF i = 0 THEN 0 ELSE g[i - 1] + s[i]]
           T == {n \in Nat : n <= Len(s) => \E g : Eqn(g, n)}
<1>1. Len(s) \in Nat /\ \A i \in 1..Len(s) : s[i] \in Nat
    BY LenProperties
<1>2. 0 \in T
    <2>1. Eqn([i \in 0..0 |-> 0], 0)
        OBVIOUS
    <2> QED
        BY <2>1
<1>3. \A n \in Nat : n \in T => n + 1 \in T
    <2> SUFFICES ASSUME NEW n \in Nat, n \in T, n + 1 <= Len(s)
                 PROVE  \E g : Eqn(g, n + 1)
        <3> HIDE DEF Eqn
        <3> QED
            OBVIOUS
    <2>1. PICK g : Eqn(g, n)
        BY <1>1, SMT
    <2> DEFINE h == [i \in 0..(n + 1) |-> IF i = n + 1 THEN g[n] + s[n + 1] ELSE g[i]]
    <2>2. \A i \in 0..(n + 1) : h[i] = IF i = 0 THEN 0 ELSE h[i - 1] + s[i]
        <3> SUFFICES ASSUME NEW i \in 0..(n + 1)
                     PROVE  h[i] = IF i = 0 THEN 0 ELSE h[i - 1] + s[i]
            OBVIOUS
        <3>1. CASE i = n + 1
            BY <3>1, SMT
        <3>2. CASE i \in 0..n
            BY <3>2, <2>1, SMT
        <3> QED
            BY <3>1, <3>2, SMT
    <2>3. Eqn(h, n + 1)
        BY <2>2
    <2> QED
        BY <2>3
<1>4. \E g : Eqn(g, Len(s))
    <2> HIDE DEF T
    <2>1. Nat \subseteq T
        BY <1>2, <1>3, Induction
    <2> QED
        BY <2>1, <1>1, SMT DEF T
<1>5. Eqn(Sums(s), Len(s))
    BY <1>4 DEF Sums
<1>6. /\ Sums(s)[0] = 0
      /\ \A i \in 1..Len(s) : Sums(s)[i] = Sums(s)[i - 1] + s[i]
    BY <1>5, <1>1, SMT
<1>7. \A i \in 0..Len(s) : Sums(s)[i] \in Nat
    <2> DEFINE U == {n \in Nat : n <= Len(s) => Sums(s)[n] \in Nat}
    <2>1. 0 \in U
        BY <1>6
    <2>2. \A n \in Nat : n \in U => n + 1 \in U
        <3> SUFFICES ASSUME NEW n \in Nat, n \in U, n + 1 <= Len(s)
                     PROVE  Sums(s)[n + 1] \in Nat
            OBVIOUS
        <3>1. Sums(s)[n] \in Nat /\ s[n + 1] \in Nat
            BY <1>1, SMT
        <3>2. Sums(s)[n + 1] = Sums(s)[n] + s[n + 1]
            BY <1>6, <1>1, SMT
        <3> QED
            BY <3>1, <3>2
    <2>3. Nat \subseteq U
        <3> HIDE DEF U
        <3> QED
            BY <2>1, <2>2, Induction
    <2> QED
        BY <2>3, <1>1, SMT
<1>8. Total(s) = Sums(s)[Len(s)]
    BY DEF Total, Sums
<1> QED
    BY <1>6, <1>7, <1>8

\* The sums of the prefixes grow.
LEMMA SumsGrow ==
    ASSUME NEW s \in Seq(Nat), NEW j \in 0..Len(s), NEW i \in 0..j
    PROVE  Sums(s)[i] <= Sums(s)[j]
<1> DEFINE T == {n \in Nat : i + n <= Len(s) => Sums(s)[i] <= Sums(s)[i + n]}
<1>1. Len(s) \in Nat /\ \A k \in 1..Len(s) : s[k] \in Nat
    BY LenProperties
<1>2. 0 \in T
    BY SumsDef, <1>1, SMT
<1>3. \A n \in Nat : n \in T => n + 1 \in T
    <2> SUFFICES ASSUME NEW n \in Nat, n \in T, i + (n + 1) <= Len(s)
                 PROVE  Sums(s)[i] <= Sums(s)[i + (n + 1)]
        OBVIOUS
    <2>1. i + n <= Len(s) /\ i + n \in 0..Len(s) /\ i + (n + 1) \in 1..Len(s)
        BY <1>1, SMT
    <2>2. Sums(s)[i + (n + 1)] = Sums(s)[i + n] + s[i + (n + 1)]
        <3>1. (i + (n + 1)) - 1 = i + n
            OBVIOUS
        <3> QED
            BY <2>1, <3>1, SumsDef
    <2>3. Sums(s)[i] \in Nat /\ Sums(s)[i + n] \in Nat /\ s[i + (n + 1)] \in Nat
        BY <2>1, <1>1, SumsDef, SMT
    <2> QED
        BY <2>1, <2>2, <2>3
<1>4. j - i \in Nat /\ i + (j - i) = j
    BY <1>1, SMT
<1>5. Nat \subseteq T
    <2> HIDE DEF T
    <2> QED
        BY <1>2, <1>3, Induction
<1>6. j - i \in T
    BY <1>4, <1>5
<1> QED
    BY <1>4, <1>6, <1>1, SMT

\* The total of a part of a sequence is a difference of two prefixes.
LEMMA TotalSubSeq ==
    ASSUME NEW s \in Seq(Nat), NEW b \in 0..Len(s), NEW a \in 1..(b + 1)
    PROVE  /\ SubSeq(s, a, b) \in Seq(Nat)
           /\ Total(SubSeq(s, a, b)) = Sums(s)[b] - Sums(s)[a - 1]
<1> DEFINE t == SubSeq(s, a, b)
           T == {n \in Nat : n <= Len(t) => Sums(t)[n] = Sums(s)[a - 1 + n] - Sums(s)[a - 1]}
<1>1. Len(s) \in Nat
    BY LenProperties
<1>2. /\ t \in Seq(Nat)
      /\ Len(t) = b - a + 1
      /\ \A i \in 1..Len(t) : t[i] = s[a - 1 + i]
    <2>1. \A i \in a..b : s[i] \in Nat
        BY <1>1, ElementOfSeq, SMT
    <2>2. Len(t) = IF a <= b THEN b - a + 1 ELSE 0
        BY <2>1, <1>1, SubSeqProperties
    <2>3. Len(t) = b - a + 1
        BY <2>2, <1>1, SMT
    <2>4. \A i \in 1..(b - a + 1) : t[i] = s[a + i - 1]
        BY <2>1, <1>1, SubSeqProperties
    <2>5. \A i \in 1..(b - a + 1) : a + i - 1 = a - 1 + i
        BY <1>1, SMT
    <2>6. t \in Seq(Nat)
        BY <2>1, <1>1, SubSeqProperties
    <2> QED
        BY <2>3, <2>4, <2>5, <2>6
<1> HIDE DEF t
<1>3. Sums(s)[a - 1] \in Nat
    BY SumsDef, <1>1, SMT
<1>4. 0 \in T
    BY <1>1, <1>2, <1>3, SumsDef, SMT
<1>5. \A n \in Nat : n \in T => n + 1 \in T
    <2> SUFFICES ASSUME NEW n \in Nat, n \in T, n + 1 <= Len(t)
                 PROVE  Sums(t)[n + 1] = Sums(s)[a - 1 + (n + 1)] - Sums(s)[a - 1]
        OBVIOUS
    <2>1. /\ n + 1 \in 1..Len(t) /\ n <= Len(t) /\ (n + 1) - 1 = n
          /\ a - 1 + (n + 1) \in 1..Len(s) /\ (a - 1 + (n + 1)) - 1 = a - 1 + n
          /\ a - 1 + n \in 0..Len(s)
        <3>1. Len(t) = b - a + 1
            BY <1>2
        <3>2. n + 1 \in 1..(b - a + 1) /\ n <= b - a + 1 /\ (n + 1) - 1 = n
            BY <3>1, <1>1, SMT
        <3>3. a - 1 + (n + 1) \in 1..Len(s) /\ (a - 1 + (n + 1)) - 1 = a - 1 + n
            BY <3>2, <1>1, SMT
        <3>4. a - 1 + n \in 0..Len(s)
            BY <3>2, <1>1, SMT
        <3> QED
            BY <3>1, <3>2, <3>3, <3>4
    <2>2. Sums(t)[n + 1] = Sums(t)[n] + t[n + 1]
        BY <2>1, <1>2, SumsDef
    <2>3. Sums(s)[a - 1 + (n + 1)] = Sums(s)[a - 1 + n] + s[a - 1 + (n + 1)]
        BY <2>1, SumsDef
    <2>4. t[n + 1] = s[a - 1 + (n + 1)]
        BY <2>1, <1>2
    <2>5. Sums(t)[n] = Sums(s)[a - 1 + n] - Sums(s)[a - 1]
        BY <2>1
    <2>6. Sums(s)[a - 1 + n] \in Nat
        BY <2>1, SumsDef
    <2>7. s[a - 1 + (n + 1)] \in Nat
        <3>1. \A i \in 1..Len(s) : s[i] \in Nat
            BY ElementOfSeq
        <3> QED
            BY <2>1, <3>1
    <2> QED
        <3>1. Sums(t)[n + 1] = (Sums(s)[a - 1 + n] - Sums(s)[a - 1]) + s[a - 1 + (n + 1)]
            BY <2>2, <2>4, <2>5
        <3>2. \A x, y, z \in Nat : (x - y) + z = (x + z) - y
            BY SMT
        <3>3. (Sums(s)[a - 1 + n] - Sums(s)[a - 1]) + s[a - 1 + (n + 1)]
                 = (Sums(s)[a - 1 + n] + s[a - 1 + (n + 1)]) - Sums(s)[a - 1]
            BY <2>6, <2>7, <1>3, <3>2
        <3> QED
            BY <3>1, <3>3, <2>3
<1>6. Nat \subseteq T
    <2> HIDE DEF T
    <2> QED
        BY <1>4, <1>5, Induction
<1>7. Len(t) \in Nat /\ a - 1 + Len(t) = b
    BY <1>1, <1>2, SMT
<1>8. Len(t) \in T
    BY <1>6, <1>7
<1>9. Sums(t)[Len(t)] = Sums(s)[b] - Sums(s)[a - 1]
    <2>1. Len(t) <= Len(t)
        BY <1>7
    <2>2. Sums(t)[Len(t)] = Sums(s)[a - 1 + Len(t)] - Sums(s)[a - 1]
        BY <1>8, <2>1
    <2> QED
        BY <1>7, <2>2
<1>10. Total(t) = Sums(s)[b] - Sums(s)[a - 1]
    BY <1>9, <1>2, SumsDef
<1> QED
    BY <1>2, <1>10 DEF t

\* A part of a sequence has no more than all of it.
LEMMA TotalPart ==
    ASSUME NEW s \in Seq(Nat), NEW b \in 0..Len(s), NEW a \in 1..(b + 1)
    PROVE  /\ Total(SubSeq(s, a, b)) \in Nat
           /\ Total(SubSeq(s, a, b)) <= Total(s)
           /\ a <= b => Total(SubSeq(s, a, b)) >= s[b]
<1>1. Len(s) \in Nat /\ Len(s) \in 0..Len(s) /\ b \in 0..Len(s) /\ a - 1 \in 0..b /\ 0 \in 0..(a - 1)
    BY LenProperties, SMT
<1>2. /\ Sums(s)[a - 1] \in Nat /\ Sums(s)[b] \in Nat /\ Sums(s)[Len(s)] \in Nat
    BY <1>1, SumsDef, SMT
<1>3. Sums(s)[a - 1] <= Sums(s)[b]
    BY <1>1, SumsGrow
<1>4. Sums(s)[b] <= Sums(s)[Len(s)]
    BY <1>1, SumsGrow
<1>5. Total(SubSeq(s, a, b)) = Sums(s)[b] - Sums(s)[a - 1]
    BY TotalSubSeq
<1>6. Total(s) = Sums(s)[Len(s)]
    BY SumsDef
<1>7. ASSUME a <= b PROVE Total(SubSeq(s, a, b)) >= s[b]
    <2>1. b \in 1..Len(s) /\ b - 1 \in 0..Len(s) /\ a - 1 \in 0..(b - 1)
        BY <1>1, <1>7, SMT
    <2>2. Sums(s)[b] = Sums(s)[b - 1] + s[b]
        BY <2>1, SumsDef
    <2>3. Sums(s)[a - 1] <= Sums(s)[b - 1]
        BY <2>1, SumsGrow
    <2>4. Sums(s)[b - 1] \in Nat
        BY <2>1, SumsDef
    <2>5. s[b] \in Nat
        <3>1. \A i \in 1..Len(s) : s[i] \in Nat
            BY ElementOfSeq
        <3> QED
            BY <2>1, <3>1
    <2> QED
        <3>1. \A x, y, z \in Nat : y <= x => (x + z) - y >= z
            BY SMT
        <3>2. (Sums(s)[b - 1] + s[b]) - Sums(s)[a - 1] >= s[b]
            BY <2>3, <2>4, <2>5, <1>2, <3>1
        <3> QED
            BY <2>2, <3>2, <1>5
<1> QED
    BY <1>2, <1>3, <1>4, <1>5, <1>6, <1>7, SMT

\* A sum of naturals is a natural.
LEMMA TotalNat ==
    ASSUME NEW s \in Seq(Nat)
    PROVE  Total(s) \in Nat
<1>1. Len(s) \in Nat
    BY LenProperties
<1> QED
    BY <1>1, SumsDef, SMT

\* The empty sum.
LEMMA TotalEmpty == Total(<<>>) = 0
<1>1. <<>> \in Seq(Nat) /\ Len(<<>>) = 0
    OBVIOUS
<1> QED
    BY <1>1, SumsDef

\* One more element adds itself to the sum.
LEMMA TotalAppend ==
    ASSUME NEW s \in Seq(Nat), NEW x \in Nat
    PROVE  Total(Append(s, x)) = Total(s) + x
<1> DEFINE t == Append(s, x)
<1>1. /\ t \in Seq(Nat) /\ Len(s) \in Nat /\ Len(t) = Len(s) + 1 /\ t[Len(s) + 1] = x
      /\ \A i \in 1..Len(s) : t[i] = s[i]
    BY AppendProperties, LenProperties
<1> HIDE DEF t
<1>2. SubSeq(t, 1, Len(s)) = s
    <2>1. \A i \in 1..Len(s) : t[i] \in Nat
        BY <1>1, ElementOfSeq, SMT
    <2>2. /\ SubSeq(t, 1, Len(s)) \in Seq(Nat)
          /\ Len(SubSeq(t, 1, Len(s))) = IF 1 <= Len(s) THEN Len(s) - 1 + 1 ELSE 0
          /\ \A i \in 1..(Len(s) - 1 + 1) : SubSeq(t, 1, Len(s))[i] = t[1 + i - 1]
        BY <1>1, <2>1, SubSeqProperties, 1 \in Int
    <2>3. Len(SubSeq(t, 1, Len(s))) = Len(s)
        BY <1>1, <2>2, SMT
    <2>4. \A i \in 1..Len(s) : SubSeq(t, 1, Len(s))[i] = s[i]
        BY <1>1, <2>2, SMT
    <2> QED
        BY <2>2, <2>3, <2>4, SeqEqual
<1>3. Len(s) \in 0..Len(t) /\ 1 \in 1..(Len(s) + 1) /\ Len(t) \in 1..Len(t)
    BY <1>1, SMT
<1>4. Total(s) = Sums(t)[Len(s)] - Sums(t)[1 - 1]
    BY <1>1, <1>2, <1>3, TotalSubSeq
<1>5. Sums(t)[Len(t)] = Sums(t)[Len(t) - 1] + t[Len(t)]
    BY <1>1, <1>3, SumsDef
<1>6. Sums(t)[0] = 0 /\ Total(t) = Sums(t)[Len(t)] /\ Sums(t)[Len(s)] \in Nat
    BY <1>1, <1>3, SumsDef
<1>7. Total(t) = Total(s) + x
    BY <1>1, <1>4, <1>5, <1>6, SMT
<1> QED
    BY <1>7 DEF t

\* The sum of a sequence is its first element and the sum of the others.
LEMMA TotalHeadTail ==
    ASSUME NEW s \in Seq(Nat), s # <<>>
    PROVE  /\ Head(s) \in Nat /\ Tail(s) \in Seq(Nat)
           /\ Total(s) = Head(s) + Total(Tail(s))
<1>1. Len(s) \in Nat /\ Len(s) # 0
    BY LenProperties, EmptySeq
<1>2. Head(s) = s[1] /\ Head(s) \in Nat /\ Tail(s) \in Seq(Nat)
    BY HeadTailProperties, <1>1, ElementOfSeq, SMT
<1>3. Tail(s) = SubSeq(s, 2, Len(s))
    BY TailIsSubSeq
<1>4. Len(s) \in 0..Len(s) /\ 2 \in 1..(Len(s) + 1) /\ 1 \in 1..Len(s) /\ 1 \in 0..Len(s)
    BY <1>1, SMT
<1>5. Total(SubSeq(s, 2, Len(s))) = Sums(s)[Len(s)] - Sums(s)[2 - 1]
    BY <1>4, TotalSubSeq
<1>6. Sums(s)[1] = Sums(s)[1 - 1] + s[1] /\ Sums(s)[0] = 0 /\ Total(s) = Sums(s)[Len(s)]
    BY <1>4, SumsDef
<1>7. Sums(s)[1] \in Nat /\ Sums(s)[Len(s)] \in Nat
    BY <1>4, SumsDef
<1>8. Total(SubSeq(s, 2, Len(s))) = Sums(s)[Len(s)] - Sums(s)[1]
    <2>1. 2 - 1 = 1
        OBVIOUS
    <2> QED
        BY <1>5, <2>1
<1>9. Total(Tail(s)) = Sums(s)[Len(s)] - Sums(s)[1]
    BY <1>8, <1>3
<1>10. Sums(s)[1] = Head(s)
    <2>1. 1 - 1 = 0 /\ 0 + s[1] = s[1]
        BY <1>2
    <2> QED
        BY <2>1, <1>6, <1>2
<1> QED
    BY <1>2, <1>6, <1>7, <1>9, <1>10

\* An element put in front adds itself to the sum.
LEMMA TotalCons ==
    ASSUME NEW s \in Seq(Nat), NEW x \in Nat
    PROVE  Total(<<x>> \o s) = x + Total(s)
<1> DEFINE t == <<x>> \o s
<1>1. <<x>> \in Seq(Nat) /\ Len(<<x>>) = 1 /\ Len(s) \in Nat /\ <<x>>[1] = x
    BY LenProperties
<1>2. /\ t \in Seq(Nat) /\ Len(t) = 1 + Len(s) /\ t[1] = x
      /\ \A i \in 2..(1 + Len(s)) : t[i] = s[i - 1]
    BY <1>1, ConcatProperties, SMT
<1> HIDE DEF t
<1>3. t # <<>>
    BY <1>2, <1>1, EmptySeq, SMT
<1>4. Head(t) = x /\ Tail(t) \in Seq(Nat) /\ Len(Tail(t)) = Len(s)
    BY <1>1, <1>2, <1>3, HeadTailProperties, SMT
<1>5. \A i \in 1..Len(Tail(t)) : Tail(t)[i] = s[i]
    <2>1. \A i \in 1..Len(Tail(t)) : Tail(t)[i] = t[i + 1]
        BY <1>2, <1>3, HeadTailProperties
    <2> TAKE i \in 1..Len(Tail(t))
    <2>2. i + 1 \in 2..(1 + Len(s)) /\ (i + 1) - 1 = i
        BY <1>1, <1>4
    <2>3. t[i + 1] = s[(i + 1) - 1]
        BY <1>2, <2>2
    <2> QED
        BY <2>1, <2>2, <2>3
<1>6. Tail(t) = s
    BY <1>4, <1>5, SeqEqual
<1>7. Total(t) = Head(t) + Total(Tail(t))
    BY <1>2, <1>3, TotalHeadTail
<1>8. Total(t) = x + Total(s)
    BY <1>4, <1>6, <1>7
<1> QED
    BY <1>8 DEF t

-----------------------------------------------------------------------------
(* The inductive invariant *)

\* Every unit fits in a chunk, and the units are no more than the document.
UnitsInv ==
    /\ Total(units) + Total(rest) <= MaxChars
    /\ \A i \in 1..Len(units) : tokens[units[i]] <= limit
    /\ phase = "split" => units # <<>> \/ rest # <<>>
    /\ phase \in {"pack", "done"} => units # <<>>

\* What is collected so far ends before the unit the loop is at, fits, and goes
\* on from the last chunk.
CurrentInv ==
    /\ phase # "pack" => current = <<>>
    /\ phase = "pack" /\ next = 1 => current = <<>> /\ drafts = <<>>
    /\ phase = "pack" /\ next # 1 =>
         /\ \E a \in 1..(next - 1) : current = Run(a, next - 1)
         /\ Count(current) <= limit
         /\ IF drafts = <<>> THEN current[1] = 1 ELSE Follows(Last(drafts), current)

DraftsInv ==
    /\ phase \in {"split", "failed", "stored"} => next = 1 /\ drafts = <<>>
    /\ \A k \in 1..Len(drafts) : Count(drafts[k]) <= limit
    /\ \A k \in 1..Len(drafts) : \E a, b \in 1..Len(units) : a <= b /\ drafts[k] = Run(a, b)
    /\ \A k \in 1..(Len(drafts) - 1) : Follows(drafts[k], drafts[k + 1])
    /\ drafts # <<>> => drafts[1][1] = 1
    /\ phase = "done" => drafts # <<>> /\ Last(Last(drafts)) = Len(units)

ChunkingIInv == ChunkingTypeOK /\ UnitsInv /\ CurrentInv /\ DraftsInv

-----------------------------------------------------------------------------
(* Runs of units *)

\* A run is a sequence of consecutive numbers.
LEMMA RunProperties ==
    ASSUME NEW n \in Nat, NEW b \in 0..n, NEW a \in 1..(b + 1)
    PROVE  /\ Run(a, b) \in Seq(1..n)
           /\ Len(Run(a, b)) = b - a + 1
           /\ \A i \in 1..(b - a + 1) : Run(a, b)[i] = a + i - 1
           /\ Run(a, b) = <<>> <=> a = b + 1
           /\ a <= b => Run(a, b)[1] = a /\ Last(Run(a, b)) = b
<1>1. b - a + 1 \in Nat /\ \A i \in 1..(b - a + 1) : a + i - 1 \in 1..n
    BY SMT
<1>2. Run(a, b) \in [1..(b - a + 1) -> 1..n]
    BY <1>1 DEF Run
<1>3. Run(a, b) \in Seq(1..n) /\ Len(Run(a, b)) = b - a + 1
    BY <1>1, <1>2, SMT
<1>4. \A i \in 1..(b - a + 1) : Run(a, b)[i] = a + i - 1
    BY DEF Run
<1>5. Run(a, b) = <<>> <=> a = b + 1
    BY <1>3, EmptySeq, SMT
<1>6. ASSUME a <= b PROVE Run(a, b)[1] = a /\ Last(Run(a, b)) = b
    <2>1. 1 \in 1..(b - a + 1) /\ b - a + 1 \in 1..(b - a + 1)
          /\ a + 1 - 1 = a /\ a + (b - a + 1) - 1 = b
        BY <1>6, SMT
    <2> QED
        BY <1>3, <1>4, <2>1 DEF Last
<1> QED
    BY <1>3, <1>4, <1>5, <1>6

\* The next unit makes a run longer.
LEMMA RunAppend ==
    ASSUME NEW b \in Nat, NEW a \in 1..(b + 1)
    PROVE  Append(Run(a, b), b + 1) = Run(a, b + 1)
<1>1. /\ Run(a, b) \in Seq(1..(b + 1)) /\ Len(Run(a, b)) = b - a + 1
      /\ \A i \in 1..(b - a + 1) : Run(a, b)[i] = a + i - 1
    <2>1. b \in 0..(b + 1)
        BY SMT
    <2> QED
        BY <2>1, RunProperties
<1>2. /\ Run(a, b + 1) \in Seq(1..(b + 1)) /\ Len(Run(a, b + 1)) = (b + 1) - a + 1
      /\ \A i \in 1..((b + 1) - a + 1) : Run(a, b + 1)[i] = a + i - 1
    <2>1. b + 1 \in 0..(b + 1) /\ a \in 1..((b + 1) + 1)
        BY SMT
    <2> QED
        BY <2>1, RunProperties
<1> DEFINE r == Run(a, b)
           q == Run(a, b + 1)
           t == Append(r, b + 1)
<1>3. /\ t \in Seq(1..(b + 1)) /\ Len(t) = Len(r) + 1 /\ t[Len(r) + 1] = b + 1
      /\ \A i \in 1..Len(r) : t[i] = r[i]
    <2>1. b + 1 \in 1..(b + 1)
        BY SMT
    <2>2. r \in Seq(1..(b + 1))
        BY <1>1
    <2> HIDE DEF r
    <2> QED
        BY <2>1, <2>2, AppendProperties
<1> HIDE DEF r, q, t
<1>4. Len(t) = Len(q)
    BY <1>1, <1>2, <1>3, SMT DEF r, q
<1>5. \A i \in 1..Len(q) : t[i] = q[i]
    <2> SUFFICES ASSUME NEW i \in 1..((b + 1) - a + 1)
                 PROVE  t[i] = q[i]
        BY <1>2 DEF q
    <2>1. q[i] = a + i - 1
        BY <1>2 DEF q
    <2>2. CASE i = b - a + 2
        <3>1. t[i] = b + 1
            BY <2>2, <1>1, <1>3, SMT DEF r
        <3> QED
            BY <2>1, <2>2, <3>1, SMT
    <2>3. CASE i \in 1..(b - a + 1)
        BY <2>1, <2>3, <1>1, <1>3 DEF r
    <2> QED
        BY <2>2, <2>3, SMT
<1>6. t = q
    BY <1>2, <1>3, <1>4, <1>5, SeqEqual DEF q
<1> QED
    BY <1>6 DEF r, q, t

\* The end of a run is a run.
LEMMA RunLast ==
    ASSUME NEW b \in Nat, NEW a \in 1..(b + 1), NEW k \in 0..(b - a + 1)
    PROVE  LastUnits(Run(a, b), k) = Run(b - k + 1, b)
<1>1. b \in 0..b
    BY SMT
<1>2. /\ Run(a, b) \in Seq(1..b) /\ Len(Run(a, b)) = b - a + 1
      /\ \A i \in 1..(b - a + 1) : Run(a, b)[i] = a + i - 1
    BY <1>1, RunProperties
<1>3. LastUnits(Run(a, b), k) = SubSeq(Run(a, b), b - a + 1 - k + 1, b - a + 1)
    BY <1>2 DEF LastUnits
<1>4. /\ Run(b - k + 1, b) \in Seq(1..b) /\ Len(Run(b - k + 1, b)) = b - (b - k + 1) + 1
      /\ \A i \in 1..(b - (b - k + 1) + 1) : Run(b - k + 1, b)[i] = (b - k + 1) + i - 1
    <2>1. b - k + 1 \in 1..(b + 1)
        BY SMT
    <2> QED
        BY <1>1, <2>1, RunProperties
<1> DEFINE lo == b - a + 1 - k + 1
           hi == b - a + 1
           t == SubSeq(Run(a, b), lo, hi)
<1>5. lo \in Int /\ hi \in Int /\ \A i \in lo..hi : Run(a, b)[i] \in 1..b
    BY <1>2, SMT
<1>6. /\ t \in Seq(1..b)
      /\ Len(t) = IF lo <= hi THEN hi - lo + 1 ELSE 0
      /\ \A i \in 1..(hi - lo + 1) : t[i] = Run(a, b)[lo + i - 1]
    <2> HIDE DEF lo, hi
    <2> QED
        BY <1>5, SubSeqProperties
<1> HIDE DEF t
<1>7. Len(t) = Len(Run(b - k + 1, b))
    BY <1>4, <1>6, SMT
<1>8. \A i \in 1..Len(Run(b - k + 1, b)) : t[i] = Run(b - k + 1, b)[i]
    <2> TAKE i \in 1..Len(Run(b - k + 1, b))
    <2>1. i \in 1..(hi - lo + 1) /\ i \in 1..(b - (b - k + 1) + 1) /\ lo + i - 1 \in 1..(b - a + 1)
        BY <1>4, SMT
    <2>2. t[i] = Run(a, b)[lo + i - 1]
        BY <2>1, <1>6
    <2>3. Run(a, b)[lo + i - 1] = a + (lo + i - 1) - 1
        BY <2>1, <1>2
    <2>4. a + (lo + i - 1) - 1 = (b - k + 1) + i - 1
        BY <2>1, SMT
    <2> QED
        BY <2>1, <2>2, <2>3, <2>4, <1>4
<1>9. t = Run(b - k + 1, b)
    BY <1>4, <1>6, <1>7, <1>8, SeqEqual
<1> QED
    BY <1>3, <1>9 DEF t

-----------------------------------------------------------------------------
(* Counts of runs *)

\* The units of a run as a part of the list of units.
LEMMA RunOfUnits ==
    ASSUME ChunkingTypeOK, NEW b \in 1..Len(units), NEW a \in 1..b
    PROVE  [i \in 1..Len(Run(a, b)) |-> units[Run(a, b)[i]]] = SubSeq(units, a, b)
<1>1. units \in Seq(1..MaxChars) /\ Len(units) \in Nat
    BY LenProperties DEF ChunkingTypeOK
<1>2. b \in 0..Len(units) /\ a \in 1..(b + 1)
    BY <1>1, SMT
<1>3. /\ Len(Run(a, b)) = b - a + 1
      /\ \A i \in 1..(b - a + 1) : Run(a, b)[i] = a + i - 1
    BY <1>1, <1>2, RunProperties
<1>4. SubSeq(units, a, b) = [i \in 1..(b - a + 1) |-> units[a + i - 1]]
    BY <1>1, <1>2, SMT
<1> QED
    BY <1>3, <1>4

\* Counts of runs are naturals: the tokenizer is asked about a text of the document.
LEMMA CountNat ==
    ASSUME ChunkingTypeOK, UnitsInv, NEW b \in 1..Len(units), NEW a \in 1..b
    PROVE  Count(Run(a, b)) \in Nat
<1>1. units \in Seq(1..MaxChars) /\ Len(units) \in Nat /\ MaxChars \in Nat
    BY LenProperties, ChunkingAssumption DEF ChunkingTypeOK
<1>2. units \in Seq(Nat) /\ rest \in Seq(Nat)
    BY <1>1, SeqMonotonic, 1..MaxChars \subseteq Nat DEF ChunkingTypeOK
<1>3. b \in 0..Len(units) /\ a \in 1..(b + 1) /\ a <= b /\ units[b] \in 1..MaxChars
    BY <1>1, SMT
<1>4. Total(SubSeq(units, a, b)) \in Nat /\ Total(SubSeq(units, a, b)) <= Total(units)
      /\ Total(SubSeq(units, a, b)) >= units[b]
    BY <1>2, <1>3, TotalPart
<1>5. Total(units) \in Nat /\ Total(rest) \in Nat
    BY <1>2, TotalNat
<1>6. Total(SubSeq(units, a, b)) \in 1..MaxChars
    BY <1>1, <1>3, <1>4, <1>5, SMT DEF UnitsInv
<1>7. tokens[Total(SubSeq(units, a, b))] \in Nat
    <2>1. tokens \in [1..MaxChars -> 1..MaxCount]
        BY DEF ChunkingTypeOK
    <2> QED
        BY <1>6, <2>1
<1>8. Len(Run(a, b)) - 1 \in Nat
    <2>1. Len(Run(a, b)) = b - a + 1
        BY <1>1, <1>3, RunProperties
    <2> QED
        BY <2>1, <1>1, SMT
<1>9. gap * (Len(Run(a, b)) - 1) \in Nat
    <2>1. gap \in Nat
        BY ChunkingAssumption DEF ChunkingTypeOK
    <2> QED
        BY <2>1, <1>8, SMT
<1>10. Count(Run(a, b)) = tokens[Total(SubSeq(units, a, b))] + gap * (Len(Run(a, b)) - 1)
    BY RunOfUnits DEF Count
<1> QED
    BY <1>7, <1>9, <1>10, SMT

\* A chunk of one unit fits.
LEMMA CountOne ==
    ASSUME ChunkingTypeOK, UnitsInv, NEW u \in 1..Len(units)
    PROVE  Count(Run(u, u)) <= limit
<1>1. units \in Seq(1..MaxChars) /\ Len(units) \in Nat /\ MaxChars \in Nat
    BY LenProperties, ChunkingAssumption DEF ChunkingTypeOK
<1>2. units[u] \in 1..MaxChars /\ u \in 0..Len(units) /\ u \in 1..(u + 1) /\ u \in 1..u
    BY <1>1, SMT
<1>3. units \in Seq(Nat)
    BY <1>1, SeqMonotonic, 1..MaxChars \subseteq Nat
<1>4. Total(SubSeq(units, u, u)) = units[u]
    <2>1. Total(SubSeq(units, u, u)) = Sums(units)[u] - Sums(units)[u - 1]
        BY <1>2, <1>3, TotalSubSeq
    <2>2. Sums(units)[u] = Sums(units)[u - 1] + units[u]
        BY <1>3, SumsDef
    <2>3. u - 1 \in 0..Len(units)
        BY <1>1, SMT
    <2>4. Sums(units)[u - 1] \in Nat
        BY <1>3, <2>3, SumsDef
    <2> QED
        BY <2>1, <2>2, <2>4, <1>2
<1>5. Len(Run(u, u)) = 1
    <2>1. Len(Run(u, u)) = u - u + 1
        BY <1>1, <1>2, RunProperties
    <2> QED
        BY <2>1, <1>2, SMT
<1>6. Count(Run(u, u)) = tokens[units[u]] + gap * (1 - 1)
    <2>1. Count(Run(u, u)) = tokens[Total(SubSeq(units, u, u))] + gap * (Len(Run(u, u)) - 1)
        BY <1>2, RunOfUnits DEF Count
    <2> QED
        BY <2>1, <1>4, <1>5
<1>7. tokens[units[u]] \in Nat /\ gap \in Nat
    <2>1. tokens \in [1..MaxChars -> 1..MaxCount] /\ gap \in 0..MaxGap
        BY DEF ChunkingTypeOK
    <2>2. gap \in Nat
        BY <2>1, ChunkingAssumption
    <2>3. tokens[units[u]] \in 1..MaxCount
        BY <2>1, <1>2
    <2> QED
        BY <2>2, <2>3
<1>8. Count(Run(u, u)) = tokens[units[u]]
    BY <1>6, <1>7, SMT
<1> QED
    BY <1>8 DEF UnitsInv

\* What the next chunk repeats: nothing, or an end of this one that is within the
\* overlap and leaves room for the next unit.
LEMMA OverlapProperties ==
    ASSUME NEW us, Len(us) \in Nat, NEW u
    PROVE  \E k \in 0..Len(us) :
              /\ Overlap(us, u) = LastUnits(us, k)
              /\ k > 0 => /\ Count(LastUnits(us, k)) <= overlap
                          /\ Count(Append(LastUnits(us, k), u)) <= limit
<1> DEFINE Fits(i) == /\ Count(LastUnits(us, i)) <= overlap
                      /\ Count(Append(LastUnits(us, i), u)) <= limit
           K == {0} \cup {k \in 1..Len(us) : \A i \in 1..k : Fits(i)}
<1>1. K \in SUBSET (0..Len(us)) /\ K # {}
    <2> HIDE DEF Fits
    <2> QED
        BY SMT
<1>2. Max(K) \in K
    <2> HIDE DEF K
    <2> QED
        BY <1>1, Greatest
<1>3. Overlap(us, u) = LastUnits(us, Max(K))
    BY DEF Overlap
<1> DEFINE m == Max(K)
<1>4. m \in 0..Len(us)
    BY <1>1, <1>2
<1>5. m > 0 => Fits(m)
    <2> SUFFICES ASSUME m > 0 PROVE Fits(m)
        OBVIOUS
    <2>1. m \in {k \in 1..Len(us) : \A i \in 1..k : Fits(i)}
        BY <1>2, <1>4
    <2>2. m \in 1..m
        BY <1>4, SMT
    <2> QED
        BY <2>1, <2>2
<1> HIDE DEF m
<1> QED
    BY <1>3, <1>4, <1>5 DEF m

\* The prefix that is cut off fits.
LEMMA FittingPrefixProperties ==
    ASSUME NEW n \in Nat
    PROVE  /\ FittingPrefix(n) \in 0..n
           /\ FittingPrefix(n) > 0 => tokens[FittingPrefix(n)] <= limit
<1> DEFINE K == {0} \cup {k \in 1..n : \A i \in 1..k : tokens[i] <= limit}
<1>1. K \in SUBSET (0..n) /\ K # {}
    BY SMT
<1>2. Max(K) \in K
    <2> HIDE DEF K
    <2> QED
        BY <1>1, Greatest
<1>3. FittingPrefix(n) = Max(K)
    BY DEF FittingPrefix
<1> DEFINE m == Max(K)
<1>4. m \in 0..n
    BY <1>1, <1>2
<1>5. m > 0 => tokens[m] <= limit
    <2> SUFFICES ASSUME m > 0 PROVE tokens[m] <= limit
        OBVIOUS
    <2>1. m \in {k \in 1..n : \A i \in 1..k : tokens[i] <= limit}
        BY <1>2, <1>4
    <2>2. m \in 1..m
        BY <1>4, SMT
    <2> QED
        BY <2>1, <2>2
<1> HIDE DEF m
<1> QED
    BY <1>3, <1>4, <1>5 DEF m

-----------------------------------------------------------------------------
(* The steps *)

\* The count of a list of units depends on the configuration and the units only.
LEMMA CountUnchanged ==
    ASSUME UNCHANGED <<config, units>>
    PROVE  \A us : Count(us)' = Count(us)
BY DEF Count, config

\* A document that is not yet cut satisfies the invariant.
LEMMA ChunkingInitIInv == ChunkingInit => ChunkingIInv
<1> SUFFICES ASSUME ChunkingInit PROVE ChunkingIInv
    OBVIOUS
<1>1. PICK n \in 1..MaxChars : rest \in [1..n -> 1..MaxChars] /\ Total(rest) <= MaxChars
    BY DEF ChunkingInit, Documents
<1>2. n \in Nat /\ n # 0 /\ MaxChars \in Nat /\ MaxLimit \in Nat
    BY ChunkingAssumption, SMT
<1>3. rest \in Seq(1..MaxChars) /\ Len(rest) = n
    BY <1>1, <1>2, SMT
<1>4. rest # <<>>
    BY <1>2, <1>3, EmptySeq
<1>5. ChunkingTypeOK
    <2>1. units = <<>> /\ current = <<>> /\ drafts = <<>> /\ next = 1
        BY DEF ChunkingInit
    <2>2. units \in Seq(1..MaxChars) /\ current \in Seq(1..Len(units))
          /\ drafts \in Seq(Seq(1..Len(units))) /\ next \in 1..(Len(units) + 1)
        BY <2>1, SMT
    <2> QED
        BY <1>3, <2>2 DEF ChunkingInit, ChunkingTypeOK
<1>6. UnitsInv
    <2>1. Total(rest) \in Nat
        BY <1>3, TotalNat, SeqMonotonic, 1..MaxChars \subseteq Nat
    <2>2. units = <<>> /\ Len(units) = 0 /\ phase = "split"
        BY DEF ChunkingInit
    <2>3. Total(units) + Total(rest) <= MaxChars
        BY <1>1, <2>1, <2>2, TotalEmpty, SMT
    <2> QED
        BY <2>2, <2>3, <1>4 DEF UnitsInv
<1>7. CurrentInv
    BY DEF ChunkingInit, CurrentInv
<1>8. DraftsInv
    <2>1. drafts = <<>> /\ Len(drafts) = 0 /\ phase = "split" /\ next = 1
        BY DEF ChunkingInit
    <2> QED
        BY <2>1, SMT DEF DraftsInv
<1> QED
    BY <1>5, <1>6, <1>7, <1>8 DEF ChunkingIInv

\* A step of the split phase: a unit that fits leaves the rest of the document.
LEMMA SplitStep ==
    ASSUME ChunkingIInv, phase = "split", UNCHANGED <<config, next, current, drafts, phase>>,
           NEW k \in 1..MaxChars, tokens[k] <= limit,
           units' = Append(units, k), rest' \in Seq(1..MaxChars), cutting' \in BOOLEAN,
           k + Total(rest') = Total(rest)
    PROVE  ChunkingIInv'
<1>1. /\ units \in Seq(1..MaxChars) /\ MaxChars \in Nat /\ k \in Nat
      /\ 1..MaxChars \subseteq Nat /\ rest \in Seq(1..MaxChars)
    BY ChunkingAssumption, SMT DEF ChunkingIInv, ChunkingTypeOK
<1>2. units \in Seq(Nat) /\ rest \in Seq(Nat) /\ rest' \in Seq(Nat)
    BY <1>1, SeqMonotonic
<1>3. drafts = <<>> /\ current = <<>> /\ next = 1
    BY DEF ChunkingIInv, CurrentInv, DraftsInv
<1>4. /\ units' \in Seq(1..MaxChars) /\ units' # <<>> /\ Len(units') = Len(units) + 1
      /\ \A i \in 1..Len(units) : units'[i] = units[i]
      /\ units'[Len(units) + 1] = k /\ Len(units) \in Nat
    <2>1. Len(units) \in Nat
        BY <1>1, LenProperties
    <2>2. /\ Append(units, k) \in Seq(1..MaxChars) /\ Append(units, k) # <<>>
          /\ Len(Append(units, k)) = Len(units) + 1
          /\ \A i \in 1..Len(units) : Append(units, k)[i] = units[i]
          /\ Append(units, k)[Len(units) + 1] = k
        <3> DEFINE S == 1..MaxChars
        <3>1. units \in Seq(S) /\ k \in S
            BY <1>1
        <3> HIDE DEF S
        <3>2. /\ Append(units, k) \in Seq(S) /\ Append(units, k) # <<>>
              /\ Len(Append(units, k)) = Len(units) + 1
              /\ \A i \in 1..Len(units) : Append(units, k)[i] = units[i]
              /\ Append(units, k)[Len(units) + 1] = k
            BY <3>1, AppendProperties
        <3> QED
            BY <3>2 DEF S
    <2> QED
        BY <2>1, <2>2, Zenon
<1>5. ChunkingTypeOK'
    <2>1. /\ tokens' \in [1..MaxChars -> 1..MaxCount] /\ gap' \in 0..MaxGap
          /\ limit' \in 1..MaxLimit /\ overlap' \in 0..(limit' - 1)
        BY DEF ChunkingIInv, ChunkingTypeOK, config
    <2>2. /\ next' \in 1..(Len(units') + 1) /\ current' \in Seq(1..Len(units'))
          /\ drafts' \in Seq(Seq(1..Len(units')))
        BY <1>3, <1>4, SMT
    <2> QED
        BY <2>1, <2>2, <1>4 DEF ChunkingTypeOK
<1>6. UnitsInv'
    <2>1. Total(units') = Total(units) + k
        BY <1>1, <1>2, TotalAppend
    <2>2. Total(units) \in Nat /\ Total(rest) \in Nat /\ Total(rest') \in Nat
        BY <1>2, TotalNat
    <2>3. Total(units') + Total(rest') <= MaxChars
        BY <1>1, <2>1, <2>2, SMT DEF ChunkingIInv, UnitsInv
    <2>4. \A i \in 1..Len(units') : tokens'[units'[i]] <= limit'
        <3> SUFFICES ASSUME NEW i \in 1..Len(units') PROVE tokens[units'[i]] <= limit
            BY DEF config
        <3>1. CASE i = Len(units) + 1
            BY <3>1, <1>4
        <3>2. CASE i \in 1..Len(units)
            BY <3>2, <1>4 DEF ChunkingIInv, UnitsInv
        <3> QED
            BY <3>1, <3>2, <1>4, SMT
    <2> QED
        BY <2>3, <2>4, <1>4 DEF UnitsInv
<1>7. CurrentInv'
    BY <1>3 DEF CurrentInv
<1>8. DraftsInv'
    <2>1. drafts' = <<>> /\ Len(drafts') = 0 /\ phase' = "split" /\ next' = 1
        BY <1>3
    <2> QED
        BY <2>1, SMT DEF DraftsInv
<1> QED
    BY <1>5, <1>6, <1>7, <1>8 DEF ChunkingIInv

\* Text that is left becomes one more unit, of a length within the limit.
OneMoreUnit ==
    /\ phase = "split" /\ UNCHANGED <<config, next, current, drafts, phase>>
    /\ cutting' \in BOOLEAN
    /\ rest' \in Seq(1..MaxChars)
    /\ \E k \in 1..MaxChars :
          /\ tokens[k] <= limit
          /\ units' = Append(units, k)
          /\ k + Total(rest') = Total(rest)

\* A sentence that fits becomes a unit.
LEMMA KeepSentenceUnit == ChunkingIInv /\ KeepSentence => OneMoreUnit
<1> SUFFICES ASSUME ChunkingIInv, KeepSentence PROVE OneMoreUnit
    OBVIOUS
<1>1. rest \in Seq(1..MaxChars) /\ rest # <<>> /\ 1..MaxChars \subseteq Nat
    BY ChunkingAssumption, SMT DEF ChunkingIInv, ChunkingTypeOK, KeepSentence
<1>2. Head(rest) \in 1..MaxChars /\ Tail(rest) \in Seq(1..MaxChars)
    BY <1>1, HeadTailProperties
<1>3. rest \in Seq(Nat)
    BY <1>1, SeqMonotonic
<1>4. Head(rest) + Total(Tail(rest)) = Total(rest)
    BY <1>1, <1>3, TotalHeadTail
<1>5. /\ phase = "split" /\ UNCHANGED <<config, next, current, drafts, phase>>
      /\ tokens[Head(rest)] <= limit /\ units' = Append(units, Head(rest))
      /\ rest' = Tail(rest) /\ cutting' = cutting
    BY DEF KeepSentence
<1>6. cutting' \in BOOLEAN
    BY <1>5 DEF ChunkingIInv, ChunkingTypeOK
<1> QED
    BY <1>2, <1>4, <1>5, <1>6 DEF OneMoreUnit

\* The longest fitting prefix of a sentence is a unit within the limit.
LEMMA CutSentenceUnit == ChunkingIInv /\ CutSentence => OneMoreUnit
<1> SUFFICES ASSUME ChunkingIInv, CutSentence PROVE OneMoreUnit
    OBVIOUS
<1>1. rest \in Seq(1..MaxChars) /\ rest # <<>> /\ 1..MaxChars \subseteq Nat
    BY ChunkingAssumption, SMT DEF ChunkingIInv, ChunkingTypeOK, CutSentence
<1>2. Head(rest) \in 1..MaxChars /\ Tail(rest) \in Seq(1..MaxChars)
    BY <1>1, HeadTailProperties
<1>3. rest \in Seq(Nat) /\ Tail(rest) \in Seq(Nat)
    BY <1>1, <1>2, SeqMonotonic
<1>4. Head(rest) + Total(Tail(rest)) = Total(rest) /\ Total(Tail(rest)) \in Nat
    BY <1>1, <1>3, TotalHeadTail, TotalNat
<1> DEFINE n == Head(rest)
           k == FittingPrefix(n)
<1>5. /\ phase = "split" /\ UNCHANGED <<config, next, current, drafts, phase>>
      /\ k > 0 /\ units' = Append(units, k)
      /\ rest' = IF k = n THEN Tail(rest) ELSE <<n - k>> \o Tail(rest)
      /\ cutting' = (k < n)
    BY DEF CutSentence
<1>6. n \in Nat
    BY <1>1, <1>2
<1>7. k \in 0..n /\ tokens[k] <= limit
    BY <1>5, <1>6, FittingPrefixProperties
<1> HIDE DEF k, n
<1>8. k \in 1..MaxChars /\ n \in 1..MaxChars /\ n \in Nat
    BY <1>2, <1>5, <1>6, <1>7, ChunkingAssumption, SMT DEF n
<1>9. rest' \in Seq(1..MaxChars) /\ k + Total(rest') = Total(rest)
    <2>1. CASE k = n
        BY <2>1, <1>2, <1>4, <1>5 DEF n
    <2>2. CASE k # n
        <3>1. n - k \in 1..MaxChars /\ n - k \in Nat
            BY <2>2, <1>7, <1>8, ChunkingAssumption, SMT
        <3>2. <<n - k>> \in Seq(1..MaxChars)
            BY <3>1
        <3>3. <<n - k>> \o Tail(rest) \in Seq(1..MaxChars)
            BY <3>2, <1>2, ConcatProperties
        <3>4. Total(<<n - k>> \o Tail(rest)) = (n - k) + Total(Tail(rest))
            BY <3>1, <1>3, TotalCons
        <3>5. rest' = <<n - k>> \o Tail(rest)
            BY <2>2, <1>5
        <3>6. n + Total(Tail(rest)) = Total(rest)
            BY <1>4 DEF n
        <3>7. k + ((n - k) + Total(Tail(rest))) = n + Total(Tail(rest))
            BY <1>4, <1>8, <1>7, SMT
        <3> QED
            BY <3>3, <3>4, <3>5, <3>6, <3>7
    <2> QED
        BY <2>1, <2>2
<1>10. cutting' \in BOOLEAN
    BY <1>5
<1> QED
    BY <1>5, <1>7, <1>8, <1>9, <1>10 DEF OneMoreUnit

\* One more unit keeps the invariant.
LEMMA OneMoreUnitIInv == ChunkingIInv /\ OneMoreUnit => ChunkingIInv'
BY SplitStep DEF OneMoreUnit

\* Giving up changes nothing the invariant is about.
LEMMA CutFailsIInv == ChunkingIInv /\ CutFails => ChunkingIInv'
<1> SUFFICES ASSUME ChunkingIInv, CutFails PROVE ChunkingIInv'
    OBVIOUS
<1>1. /\ phase = "split" /\ phase' = "failed"
      /\ UNCHANGED <<config, rest, cutting, units, next, current, drafts>>
    BY DEF CutFails
<1>2. drafts = <<>> /\ current = <<>> /\ next = 1
    BY <1>1 DEF ChunkingIInv, CurrentInv, DraftsInv
<1>3. ChunkingTypeOK' /\ UnitsInv'
    BY <1>1 DEF ChunkingIInv, ChunkingTypeOK, UnitsInv, config
<1>4. CurrentInv'
    BY <1>1, <1>2 DEF CurrentInv
<1>5. DraftsInv'
    <2>1. drafts' = <<>> /\ Len(drafts') = 0 /\ phase' = "failed" /\ next' = 1
        BY <1>1, <1>2
    <2> QED
        BY <2>1, SMT DEF DraftsInv
<1> QED
    BY <1>3, <1>4, <1>5 DEF ChunkingIInv

\* Packing starts with all text in units.
LEMMA SplitDoneIInv == ChunkingIInv /\ SplitDone => ChunkingIInv'
<1> SUFFICES ASSUME ChunkingIInv, SplitDone PROVE ChunkingIInv'
    OBVIOUS
<1>1. /\ phase = "split" /\ phase' = "pack" /\ rest = <<>>
      /\ UNCHANGED <<config, rest, cutting, units, next, current, drafts>>
    BY DEF SplitDone
<1>2. drafts = <<>> /\ current = <<>> /\ next = 1
    BY <1>1 DEF ChunkingIInv, CurrentInv, DraftsInv
<1>3. ChunkingTypeOK' /\ UnitsInv'
    BY <1>1 DEF ChunkingIInv, ChunkingTypeOK, UnitsInv, config
<1>4. CurrentInv'
    BY <1>1, <1>2 DEF CurrentInv
<1>5. DraftsInv'
    <2>1. drafts' = <<>> /\ Len(drafts') = 0 /\ phase' = "pack" /\ next' = 1
        BY <1>1, <1>2
    <2> QED
        BY <2>1, SMT DEF DraftsInv
<1> QED
    BY <1>3, <1>4, <1>5 DEF ChunkingIInv

\* A chunk that is put away is the next of the chunks.
LEMMA DraftStep ==
    ASSUME ChunkingIInv, phase = "pack", next # 1, UNCHANGED <<config, units>>,
           drafts' = Append(drafts, current)
    PROVE  /\ drafts' \in Seq(Seq(1..Len(units'))) /\ drafts' # <<>> /\ Last(drafts') = current
           /\ (\A k \in 1..Len(drafts) : Count(drafts[k]) <= limit)'
           /\ \A k \in 1..Len(drafts') : \E a, b \in 1..Len(units') :
                  a <= b /\ drafts'[k] = Run(a, b)
           /\ (\A k \in 1..(Len(drafts) - 1) : Follows(drafts[k], drafts[k + 1]))'
           /\ drafts'[1][1] = 1
<1> DEFINE R == Seq(1..Len(units))
<1>1. drafts \in Seq(R) /\ current \in R /\ Len(units) \in Nat /\ next \in 1..(Len(units) + 1)
    BY LenProperties DEF ChunkingIInv, ChunkingTypeOK
<1> HIDE DEF R
<1>2. /\ Append(drafts, current) \in Seq(R) /\ Append(drafts, current) # <<>>
      /\ Len(Append(drafts, current)) = Len(drafts) + 1
      /\ \A i \in 1..Len(drafts) : Append(drafts, current)[i] = drafts[i]
      /\ Append(drafts, current)[Len(drafts) + 1] = current
    BY <1>1, AppendProperties
<1>3. /\ drafts' \in Seq(R) /\ drafts' # <<>> /\ Len(drafts') = Len(drafts) + 1
      /\ \A i \in 1..Len(drafts) : drafts'[i] = drafts[i]
      /\ drafts'[Len(drafts) + 1] = current /\ Len(drafts) \in Nat
    BY <1>2, <1>1, LenProperties, Zenon
<1>4. PICK a \in 1..(next - 1) :
         /\ current = Run(a, next - 1)
         /\ Count(current) <= limit
         /\ IF drafts = <<>> THEN current[1] = 1 ELSE Follows(Last(drafts), current)
    BY DEF ChunkingIInv, CurrentInv
<1>5. \A us : Count(us)' = Count(us)
    BY CountUnchanged
<1>6. limit' = limit /\ overlap' = overlap /\ units' = units
    BY DEF config
<1>7. (\A k \in 1..Len(drafts) : Count(drafts[k]) <= limit)'
    <2> SUFFICES ASSUME NEW k \in 1..Len(drafts') PROVE Count(drafts'[k]) <= limit
        BY <1>5, <1>6
    <2>1. CASE k = Len(drafts) + 1
        BY <2>1, <1>3, <1>4
    <2>2. CASE k \in 1..Len(drafts)
        BY <2>2, <1>3 DEF ChunkingIInv, DraftsInv
    <2> QED
        BY <2>1, <2>2, <1>3, SMT
<1>8. \A k \in 1..Len(drafts') : \E c, b \in 1..Len(units') : c <= b /\ drafts'[k] = Run(c, b)
    <2> SUFFICES ASSUME NEW k \in 1..Len(drafts')
                 PROVE  \E c, b \in 1..Len(units) : c <= b /\ drafts'[k] = Run(c, b)
        BY <1>6
    <2>1. CASE k = Len(drafts) + 1
        <3>1. a \in 1..Len(units) /\ next - 1 \in 1..Len(units) /\ a <= next - 1
            BY <1>1, SMT
        <3> QED
            BY <2>1, <3>1, <1>3, <1>4
    <2>2. CASE k \in 1..Len(drafts)
        BY <2>2, <1>3 DEF ChunkingIInv, DraftsInv
    <2> QED
        BY <2>1, <2>2, <1>3, SMT
<1>9. \A left, right : Follows(left, right)' = Follows(left, right)
    BY <1>5, <1>6 DEF Follows, LastUnits
<1>10. (\A k \in 1..(Len(drafts) - 1) : Follows(drafts[k], drafts[k + 1]))'
    <2> SUFFICES ASSUME NEW k \in 1..(Len(drafts') - 1)
                 PROVE  Follows(drafts'[k], drafts'[k + 1])
        BY <1>9
    <2>1. CASE k = Len(drafts)
        <3>1. drafts # <<>> /\ k \in 1..Len(drafts)
            BY <2>1, <1>3, EmptySeq, SMT
        <3>2. drafts'[k] = Last(drafts)
            BY <2>1, <3>1, <1>3 DEF Last
        <3> QED
            BY <3>1, <3>2, <2>1, <1>3, <1>4
    <2>2. CASE k \in 1..(Len(drafts) - 1)
        <3>1. k \in 1..Len(drafts) /\ k + 1 \in 1..Len(drafts)
            BY <2>2, <1>3, SMT
        <3> QED
            BY <2>2, <3>1, <1>3 DEF ChunkingIInv, DraftsInv
    <2> QED
        BY <2>1, <2>2, <1>3, SMT
<1>11. drafts'[1][1] = 1
    <2>1. CASE drafts = <<>>
        BY <2>1, <1>3, <1>4
    <2>2. CASE drafts # <<>>
        <3>1. 1 \in 1..Len(drafts)
            BY <2>2, <1>1, <1>3, EmptySeq, SMT
        <3> QED
            BY <2>2, <3>1, <1>3 DEF ChunkingIInv, DraftsInv
    <2> QED
        BY <2>1, <2>2
<1>12. Last(drafts') = current
    BY <1>3 DEF Last
<1> QED
    BY <1>3, <1>6, <1>7, <1>8, <1>10, <1>11, <1>12 DEF R

\* The overlap with the chunk before and the next unit make a run that follows it.
LEMMA OverlapFollows ==
    ASSUME ChunkingIInv, NEW b \in 1..(Len(units) - 1), NEW a \in 1..b
    PROVE  \E c \in 1..(b + 1) :
              /\ Append(Overlap(Run(a, b), b + 1), b + 1) = Run(c, b + 1)
              /\ Count(Run(c, b + 1)) <= limit
              /\ Follows(Run(a, b), Run(c, b + 1))
<1>1. Len(units) \in Nat
    BY LenProperties DEF ChunkingIInv, ChunkingTypeOK
<1>2. /\ b \in Nat /\ b + 1 \in 1..Len(units) /\ b \in 1..Len(units)
      /\ b \in 0..Len(units) /\ a \in 1..(b + 1) /\ a <= b /\ b - a + 1 \in Nat
    BY <1>1, SMT
<1>3. Len(Run(a, b)) = b - a + 1 /\ Run(a, b)[1] = a /\ Last(Run(a, b)) = b
    BY <1>1, <1>2, RunProperties
<1>4. PICK k \in 0..(b - a + 1) :
         /\ Overlap(Run(a, b), b + 1) = LastUnits(Run(a, b), k)
         /\ k > 0 => /\ Count(LastUnits(Run(a, b), k)) <= overlap
                     /\ Count(Append(LastUnits(Run(a, b), k), b + 1)) <= limit
    BY <1>2, <1>3, OverlapProperties
<1> DEFINE c == b - k + 1
<1>5. c \in 1..(b + 1) /\ (k = 0 => c = b + 1) /\ (k > 0 => c <= b) /\ a <= c /\ b - c + 1 = k
    BY <1>2, SMT
<1> HIDE DEF c
<1>6. LastUnits(Run(a, b), k) = Run(c, b)
    BY <1>2, RunLast DEF c
<1>7. Append(Run(c, b), b + 1) = Run(c, b + 1)
    BY <1>2, <1>5, RunAppend
<1>8. Append(Overlap(Run(a, b), b + 1), b + 1) = Run(c, b + 1)
    BY <1>4, <1>6, <1>7
<1>9. Count(Run(c, b + 1)) <= limit
    <2>1. CASE k = 0
        BY <2>1, <1>2, <1>5, CountOne DEF ChunkingIInv
    <2>2. CASE k > 0
        BY <2>2, <1>4, <1>6, <1>7
    <2> QED
        BY <2>1, <2>2, SMT
<1>10. Run(c, b + 1)[1] = c /\ Last(Run(c, b + 1)) = b + 1
    <2>1. b + 1 \in 0..Len(units) /\ c \in 1..(b + 1 + 1) /\ c <= b + 1
        BY <1>2, <1>5, SMT
    <2> QED
        BY <2>1, <1>1, RunProperties
<1>11. Follows(Run(a, b), Run(c, b + 1))
    <2>1. Last(Run(a, b)) - Run(c, b + 1)[1] + 1 = k
        BY <1>3, <1>5, <1>10
    <2>2. a <= c /\ b < b + 1 /\ k >= 0
        BY <1>2, <1>5, SMT
    <2> QED
        BY <2>1, <2>2, <1>3, <1>4, <1>10 DEF Follows
<1> QED
    BY <1>5, <1>8, <1>9, <1>11

\* One more unit: it is added to the current chunk, or starts a new one behind an
\* overlap that leaves room for it.
LEMMA AddUnitIInv == ChunkingIInv /\ AddUnit => ChunkingIInv'
<1> SUFFICES ASSUME ChunkingIInv, AddUnit PROVE ChunkingIInv'
    OBVIOUS
<1>1. /\ phase = "pack" /\ next <= Len(units) /\ next' = next + 1
      /\ UNCHANGED <<config, rest, cutting, units, phase>>
    BY DEF AddUnit
<1>2. /\ Len(units) \in Nat /\ next \in 1..Len(units) /\ limit \in Nat
      /\ current \in Seq(1..Len(units)) /\ drafts \in Seq(Seq(1..Len(units)))
    BY <1>1, LenProperties, ChunkingAssumption, SMT DEF ChunkingIInv, ChunkingTypeOK
<1>3. \A us : Count(us)' = Count(us)
    BY <1>1, CountUnchanged
<1>4. limit' = limit /\ overlap' = overlap /\ units' = units
    BY <1>1 DEF config
<1>5. \A left, right : Follows(left, right)' = Follows(left, right)
    BY <1>3, <1>4 DEF Follows, LastUnits
<1>6. UnitsInv'
    BY <1>1 DEF ChunkingIInv, UnitsInv, config
<1>7. next' # 1 /\ next' - 1 = next /\ phase' = "pack" /\ next' \in 1..(Len(units') + 1)
    BY <1>1, <1>2, <1>4, SMT
\* It is enough to know the new list, and the new chunks.
<1>8. SUFFICES /\ \E a \in 1..next : current' = Run(a, next)
               /\ Count(current)' <= limit
               /\ IF drafts' = <<>> THEN (current[1])' = 1 ELSE Follows(Last(drafts), current)'
               /\ drafts' \in Seq(Seq(1..Len(units)))
               /\ (\A k \in 1..Len(drafts) : Count(drafts[k]) <= limit)'
               /\ \A k \in 1..Len(drafts') : \E a, b \in 1..Len(units) :
                      a <= b /\ drafts'[k] = Run(a, b)
               /\ (\A k \in 1..(Len(drafts) - 1) : Follows(drafts[k], drafts[k + 1]))'
               /\ drafts' # <<>> => drafts'[1][1] = 1
    <2>1. CurrentInv'
        BY <1>4, <1>7, <1>8 DEF CurrentInv
    <2>2. DraftsInv'
        BY <1>4, <1>7, <1>8 DEF DraftsInv
    <2>3. ChunkingTypeOK'
        <3>1. current' \in Seq(1..Len(units))
            <4>1. PICK a \in 1..next : current' = Run(a, next)
                BY <1>8
            <4>2. next \in 0..Len(units) /\ a \in 1..(next + 1)
                BY <1>2, SMT
            <4> QED
                BY <4>1, <4>2, <1>2, RunProperties
        <3>2. drafts' \in Seq(Seq(1..Len(units)))
            BY <1>8
        <3> QED
            BY <3>1, <3>2, <1>1, <1>7 DEF ChunkingIInv, ChunkingTypeOK, config
    <2> QED
        BY <1>6, <2>1, <2>2, <2>3 DEF ChunkingIInv
<1>9. CASE next = 1
    <2>1. current = <<>> /\ drafts = <<>>
        BY <1>1, <1>9 DEF ChunkingIInv, CurrentInv
    <2>2. current' = Append(<<>>, 1) /\ drafts' = <<>>
        BY <1>9, <2>1 DEF AddUnit
    <2>3. current' = Run(1, 1) /\ Run(1, 1)[1] = 1
        <3>1. 0 \in 0..1 /\ 1 \in 1..(0 + 1) /\ 1 \in 0..1 /\ 1 \in 1..(1 + 1) /\ 0 + 1 = 1
            BY SMT
        <3>2. Run(1, 0) = <<>>
            BY <3>1, RunProperties
        <3>3. Append(Run(1, 0), 0 + 1) = Run(1, 0 + 1)
            BY <3>1, RunAppend
        <3>4. Run(1, 1)[1] = 1
            BY <3>1, RunProperties, 1 <= 1
        <3> QED
            BY <2>2, <3>1, <3>2, <3>3, <3>4
    <2>4. Count(Run(1, 1)) <= limit
        BY <1>2, <1>9, CountOne DEF ChunkingIInv
    <2>5. Count(current)' <= limit
        BY <2>3, <2>4, <1>3
    <2>6. Len(drafts') = 0
        BY <2>2
    <2>7. \E a \in 1..next : current' = Run(a, next)
        BY <1>9, <2>3
    <2> QED
        BY <2>2, <2>3, <2>5, <2>6, <2>7, SMT
<1>10. CASE next # 1
    <2>1. PICK a \in 1..(next - 1) :
            /\ current = Run(a, next - 1)
            /\ Count(current) <= limit
            /\ IF drafts = <<>> THEN current[1] = 1 ELSE Follows(Last(drafts), current)
        BY <1>1, <1>10 DEF ChunkingIInv, CurrentInv
    <2> DEFINE b == next - 1
    <2>2. /\ b \in 1..(Len(units) - 1) /\ a \in 1..b /\ b + 1 = next /\ a \in 1..(b + 1)
          /\ b \in Nat /\ b \in 0..Len(units) /\ a \in 1..next /\ a <= b
        BY <1>2, <1>10, SMT
    <2>3. current = Run(a, b)
        BY <2>1
    <2> HIDE DEF b
    <2>4. Run(a, b)[1] = a /\ Last(Run(a, b)) = b /\ Run(a, b) # <<>>
        <3>1. a # b + 1
            BY <2>2, SMT
        <3> QED
            BY <3>1, <1>2, <2>2, RunProperties
    <2>5. CASE Count(Append(current, next)) > limit
        <3>1. drafts' = Append(drafts, current) /\ current' = Append(Overlap(current, next), next)
            BY <2>3, <2>4, <2>5 DEF AddUnit
        <3>2. PICK c \in 1..(b + 1) :
                /\ Append(Overlap(Run(a, b), b + 1), b + 1) = Run(c, b + 1)
                /\ Count(Run(c, b + 1)) <= limit
                /\ Follows(Run(a, b), Run(c, b + 1))
            BY <2>2, OverlapFollows
        <3>3. current' = Run(c, next) /\ c \in 1..next
            BY <3>1, <3>2, <2>2, <2>3
        <3>4. Count(current)' <= limit
            BY <3>2, <3>3, <2>2, <1>3
        <3>5. /\ drafts' \in Seq(Seq(1..Len(units'))) /\ drafts' # <<>> /\ Last(drafts') = current
              /\ (\A k \in 1..Len(drafts) : Count(drafts[k]) <= limit)'
              /\ \A k \in 1..Len(drafts') : \E d, e \in 1..Len(units') :
                     d <= e /\ drafts'[k] = Run(d, e)
              /\ (\A k \in 1..(Len(drafts) - 1) : Follows(drafts[k], drafts[k + 1]))'
              /\ drafts'[1][1] = 1
            BY <1>1, <1>10, <3>1, DraftStep
        <3>6. Follows(Last(drafts), current)'
            BY <3>2, <3>3, <3>5, <2>2, <2>3, <1>5
        <3> QED
            BY <3>3, <3>4, <3>5, <3>6, <1>4
    <2>6. CASE ~(Count(Append(current, next)) > limit)
        <3>1. drafts' = drafts /\ current' = Append(current, next)
            BY <2>6 DEF AddUnit
        <3>2. current' = Run(a, next)
            BY <3>1, <2>2, <2>3, RunAppend
        <3>3. Count(Run(a, next)) \in Nat
            BY <1>2, <2>2, CountNat DEF ChunkingIInv
        <3>4. Count(Run(a, next)) <= limit
            BY <3>1, <3>2, <3>3, <2>6, <1>2
        <3>5. Count(current)' <= limit
            BY <3>2, <3>4, <1>3
        <3>6. Run(a, next)[1] = a /\ Last(Run(a, next)) = next
            <4>1. next \in 0..Len(units) /\ a \in 1..(next + 1) /\ a <= next /\ Len(units) \in Nat
                BY <1>2, <2>2, SMT
            <4> QED
                BY <4>1, RunProperties
        <3>7. drafts # <<>> => Follows(Last(drafts), Run(a, next))
            <4> SUFFICES ASSUME drafts # <<>> PROVE Follows(Last(drafts), Run(a, next))
                OBVIOUS
            <4> DEFINE left == Last(drafts)
            <4>1. Follows(left, Run(a, b))
                BY <2>1, <2>3
            <4>2. Last(left) < b
                BY <4>1, <2>4 DEF Follows
            <4>3. Last(left) \in Int
                <5>1. Len(drafts) \in Nat /\ Len(drafts) \in 1..Len(drafts)
                    BY <1>2, LenProperties, EmptySeq, SMT
                <5>2. PICK d, e \in 1..Len(units) : d <= e /\ drafts[Len(drafts)] = Run(d, e)
                    BY <5>1 DEF ChunkingIInv, DraftsInv
                <5>3. e \in 0..Len(units) /\ d \in 1..(e + 1)
                    BY <1>2, <5>2, SMT
                <5>4. Last(Run(d, e)) = e
                    BY <1>2, <5>2, <5>3, RunProperties
                <5> QED
                    BY <5>2, <5>4 DEF Last
            <4> HIDE DEF left
            <4>4. Last(left) < next
                BY <4>2, <4>3, <2>2, <1>2
            <4> QED
                BY <4>1, <4>4, <3>6, <2>4 DEF Follows, left
        <3>8. drafts # <<>> => Follows(Last(drafts), current)'
            BY <3>1, <3>2, <3>7, <1>5
        <3>9. drafts = <<>> => (current[1])' = 1
            BY <3>2, <3>6, <2>1, <2>3, <2>4
        <3>10. (\A k \in 1..Len(drafts) : Count(drafts[k]) <= limit)'
            BY <3>1, <1>3, <1>4 DEF ChunkingIInv, DraftsInv
        <3>11. (\A k \in 1..(Len(drafts) - 1) : Follows(drafts[k], drafts[k + 1]))'
            BY <3>1, <1>5 DEF ChunkingIInv, DraftsInv
        <3>12. /\ \A k \in 1..Len(drafts') : \E d, e \in 1..Len(units) :
                      d <= e /\ drafts'[k] = Run(d, e)
               /\ drafts' # <<>> => drafts'[1][1] = 1
            BY <3>1 DEF ChunkingIInv, DraftsInv
        <3> QED
            BY <3>1, <3>2, <3>5, <3>8, <3>9, <3>10, <3>11, <3>12, <2>2, <1>2
    <2> QED
        BY <2>5, <2>6
<1> QED
    BY <1>9, <1>10

\* The last chunk ends with the last unit.
LEMMA FinishIInv == ChunkingIInv /\ Finish => ChunkingIInv'
<1> SUFFICES ASSUME ChunkingIInv, Finish PROVE ChunkingIInv'
    OBVIOUS
<1>1. /\ phase = "pack" /\ next = Len(units) + 1 /\ drafts' = Append(drafts, current)
      /\ current' = <<>> /\ phase' = "done"
      /\ UNCHANGED <<config, rest, cutting, units, next>>
    BY DEF Finish
<1>2. Len(units) \in Nat /\ Len(units) # 0
    <2>1. units # <<>> /\ units \in Seq(1..MaxChars)
        BY <1>1 DEF ChunkingIInv, UnitsInv, ChunkingTypeOK
    <2> QED
        BY <2>1, LenProperties, EmptySeq
<1>3. next # 1 /\ next - 1 = Len(units)
    BY <1>1, <1>2, SMT
<1>4. /\ drafts' \in Seq(Seq(1..Len(units'))) /\ drafts' # <<>> /\ Last(drafts') = current
      /\ (\A k \in 1..Len(drafts) : Count(drafts[k]) <= limit)'
      /\ \A k \in 1..Len(drafts') : \E a, b \in 1..Len(units') :
             a <= b /\ drafts'[k] = Run(a, b)
      /\ (\A k \in 1..(Len(drafts) - 1) : Follows(drafts[k], drafts[k + 1]))'
      /\ drafts'[1][1] = 1
    BY <1>1, <1>3, DraftStep
<1>5. Last(current) = Len(units)
    <2>1. PICK a \in 1..(next - 1) : current = Run(a, next - 1)
        BY <1>1, <1>3 DEF ChunkingIInv, CurrentInv
    <2>2. Len(units) \in 0..Len(units) /\ a \in 1..(Len(units) + 1) /\ a <= Len(units)
        BY <1>2, <1>3, SMT
    <2>3. Last(Run(a, Len(units))) = Len(units)
        BY <1>2, <2>2, RunProperties
    <2> QED
        BY <2>1, <2>3, <1>3
<1>6. ChunkingTypeOK'
    <2>1. current' \in Seq(1..Len(units'))
        BY <1>1
    <2> QED
        BY <1>1, <1>4, <2>1 DEF ChunkingIInv, ChunkingTypeOK, config
<1>7. UnitsInv'
    BY <1>1 DEF ChunkingIInv, UnitsInv, config
<1>8. CurrentInv'
    BY <1>1 DEF CurrentInv
<1>9. DraftsInv'
    <2>1. (Last(Last(drafts)))' = Len(units')
        BY <1>1, <1>4, <1>5 DEF Last
    <2> QED
        BY <1>1, <1>4, <2>1 DEF DraftsInv
<1> QED
    BY <1>6, <1>7, <1>8, <1>9 DEF ChunkingIInv

\* The invariant is inductive.
LEMMA ChunkingStep == ChunkingIInv /\ [ChunkingNext]_chunker => ChunkingIInv'
<1> SUFFICES ASSUME ChunkingIInv, [ChunkingNext]_chunker PROVE ChunkingIInv'
    OBVIOUS
<1>1. CASE UNCHANGED chunker
    <2>1. UNCHANGED <<config, units>>
        BY <1>1 DEF chunker
    <2>2. \A us : Count(us)' = Count(us)
        BY <2>1, CountUnchanged
    <2>3. /\ UNCHANGED <<tokens, gap, limit, overlap>>
          /\ UNCHANGED <<rest, cutting, units, next, current, drafts, phase>>
        BY <1>1 DEF chunker, config
    <2>4. \A left, right : Follows(left, right)' = Follows(left, right)
        BY <2>2, <2>3 DEF Follows, LastUnits
    <2>5. ChunkingTypeOK' /\ UnitsInv'
        BY <2>3 DEF ChunkingIInv, ChunkingTypeOK, UnitsInv
    <2>6. CurrentInv'
        BY <2>2, <2>3, <2>4 DEF ChunkingIInv, CurrentInv
    <2>7. DraftsInv'
        BY <2>2, <2>3, <2>4 DEF ChunkingIInv, DraftsInv
    <2> QED
        BY <2>5, <2>6, <2>7 DEF ChunkingIInv
<1>2. CASE ChunkingNext
    BY <1>2, KeepSentenceUnit, CutSentenceUnit, OneMoreUnitIInv, CutFailsIInv, SplitDoneIInv,
       AddUnitIInv, FinishIInv DEF ChunkingNext
<1> QED
    BY <1>1, <1>2

\* What the invariant is for.
LEMMA ChunkingIInvImplies == ChunkingIInv => ChunkingTypeOK /\ ChunksFit /\ ChunksCover
<1> SUFFICES ASSUME ChunkingIInv PROVE ChunkingTypeOK /\ ChunksFit /\ ChunksCover
    OBVIOUS
<1>1. ChunkingTypeOK /\ ChunksFit
    BY DEF ChunkingIInv, DraftsInv, ChunksFit
<1>2. ChunksCover
    BY DEF ChunkingIInv, DraftsInv, ChunksCover
<1> QED
    BY <1>1, <1>2

-----------------------------------------------------------------------------
(* Progress *)

\* What is left to do: characters to be cut, units to be packed, phases to come.
\* A character counts twice, for it may become a unit of its own.
WorkLeft ==
    2 * Total(rest) + (Len(units) + 1 - next)
        + (IF phase = "split" THEN 2 ELSE IF phase = "pack" THEN 1 ELSE 0)

\* A step of the chunker leaves less to do, and takes no character away.
Advances ==
    /\ WorkLeft' < WorkLeft
    /\ Total(units)' + Total(rest)' = Total(units) + Total(rest)

\* Each unit has a character, so there are no more units than characters in them.
LEMMA UnitsCounted ==
    ASSUME NEW s \in Seq(Nat), \A i \in 1..Len(s) : s[i] # 0
    PROVE  Len(s) <= Total(s)
<1>1. Len(s) \in Nat
    BY LenProperties
<1> DEFINE T == {n \in Nat : n <= Len(s) => n <= Sums(s)[n]}
<1>2. 0 \in T
    BY SumsDef
<1>3. \A n \in Nat : n \in T => n + 1 \in T
    <2> SUFFICES ASSUME NEW n \in Nat, n \in T, n + 1 <= Len(s)
                 PROVE  n + 1 <= Sums(s)[n + 1]
        OBVIOUS
    <2>1. n <= Len(s) /\ n \in 0..Len(s) /\ n + 1 \in 1..Len(s) /\ (n + 1) - 1 = n
        BY <1>1, SMT
    <2>2. n <= Sums(s)[n]
        BY <2>1
    <2>3. Sums(s)[n + 1] = Sums(s)[n] + s[n + 1]
        BY <2>1, SumsDef
    <2>4. Sums(s)[n] \in Nat
        BY <2>1, SumsDef
    <2>5. s[n + 1] \in Nat /\ s[n + 1] # 0
        BY <2>1, ElementOfSeq
    <2> QED
        BY <2>2, <2>3, <2>4, <2>5, SMT
<1>4. Nat \subseteq T
    <2> HIDE DEF T
    <2> QED
        BY <1>2, <1>3, Induction
<1>5. Len(s) <= Sums(s)[Len(s)]
    BY <1>1, <1>4
<1> QED
    BY <1>5, SumsDef

\* The parts of the measure are numbers.
LEMMA WorkNumbers ==
    ASSUME ChunkingIInv
    PROVE  /\ Total(rest) \in Nat /\ Total(units) \in Nat
           /\ Len(units) \in Nat /\ next \in 1..(Len(units) + 1)
           /\ Total(rest) <= MaxChars
           /\ units \in Seq(Nat)
<1>1. /\ rest \in Seq(1..MaxChars) /\ units \in Seq(1..MaxChars) /\ 1..MaxChars \subseteq Nat
      /\ next \in 1..(Len(units) + 1)
    BY ChunkingAssumption, SMT DEF ChunkingIInv, ChunkingTypeOK
<1>2. rest \in Seq(Nat) /\ units \in Seq(Nat)
    BY <1>1, SeqMonotonic
<1>3. Total(rest) \in Nat /\ Total(units) \in Nat /\ Len(units) \in Nat
    BY <1>2, TotalNat, LenProperties
<1>4. Total(units) + Total(rest) <= MaxChars
    BY DEF ChunkingIInv, UnitsInv
<1>5. Total(rest) <= MaxChars
    BY <1>3, <1>4, ChunkingAssumption, SMT
<1> QED
    BY <1>1, <1>2, <1>3, <1>5

\* There is never more left to do than two steps for each character and three.
LEMMA WorkBounded == ChunkingIInv => WorkLeft \in 0..(2 * MaxChars + 3)
<1> SUFFICES ASSUME ChunkingIInv PROVE WorkLeft \in 0..(2 * MaxChars + 3)
    OBVIOUS
<1> DEFINE later == IF phase = "split" THEN 2 ELSE IF phase = "pack" THEN 1 ELSE 0
<1>1. /\ Total(rest) \in Nat /\ Total(rest) <= MaxChars
      /\ Len(units) \in Nat /\ next \in 1..(Len(units) + 1)
    BY WorkNumbers
<1>2. 2 * Total(rest) + (Len(units) + 1 - next) <= 2 * MaxChars + 1
    <2>1. Total(units) + Total(rest) <= MaxChars /\ Total(units) \in Nat
        BY WorkNumbers DEF ChunkingIInv, UnitsInv
    <2>2. Len(units) <= Total(units)
        <3>1. units \in Seq(Nat) /\ units \in Seq(1..MaxChars)
            BY WorkNumbers DEF ChunkingIInv, ChunkingTypeOK
        <3>2. \A i \in 1..Len(units) : units[i] \in 1..MaxChars
            BY <3>1, ElementOfSeq
        <3>3. \A i \in 1..Len(units) : units[i] # 0
            BY <3>2
        <3> QED
            BY <3>1, <3>3, UnitsCounted
    <2> QED
        BY <1>1, <2>1, <2>2, ChunkingAssumption, SMT
<1>3. later \in 0..2
    OBVIOUS
<1> HIDE DEF later
<1>4. WorkLeft = 2 * Total(rest) + (Len(units) + 1 - next) + later
    BY DEF WorkLeft, later
<1> QED
    BY <1>1, <1>2, <1>3, <1>4, ChunkingAssumption, SMT

\* One more unit leaves at least one character less, and one unit more.
LEMMA OneMoreUnitAdvances == ChunkingIInv /\ OneMoreUnit => Advances
<1> SUFFICES ASSUME ChunkingIInv, OneMoreUnit PROVE Advances
    OBVIOUS
<1>1. PICK k \in 1..MaxChars : units' = Append(units, k) /\ k + Total(rest') = Total(rest)
    BY DEF OneMoreUnit
<1>2. /\ Total(rest) \in Nat /\ Total(units) \in Nat /\ units \in Seq(Nat)
      /\ Len(units) \in Nat /\ next \in 1..(Len(units) + 1)
    BY WorkNumbers
<1>3. k \in Nat /\ k >= 1
    BY ChunkingAssumption, SMT
<1>4. Total(units') = Total(units) + k
    BY <1>1, <1>2, <1>3, TotalAppend
<1>5. Len(units') = Len(units) + 1
    BY <1>1, <1>2, <1>3, AppendProperties
<1>6. next' = next /\ phase' = phase
    BY DEF OneMoreUnit
<1> DEFINE later == IF phase = "split" THEN 2 ELSE IF phase = "pack" THEN 1 ELSE 0
<1>7. later \in Int
    OBVIOUS
<1> HIDE DEF later
<1>8. /\ WorkLeft = 2 * Total(rest) + (Len(units) + 1 - next) + later
      /\ WorkLeft' = 2 * Total(rest') + (Len(units') + 1 - next) + later
    BY <1>6 DEF WorkLeft, later
<1>9. Total(rest') = Total(rest) - k
    <2>1. rest' \in Seq(1..MaxChars) /\ 1..MaxChars \subseteq Nat
        BY ChunkingAssumption, SMT DEF OneMoreUnit
    <2>2. rest' \in Seq(Nat)
        BY <2>1, SeqMonotonic
    <2>3. Total(rest') \in Nat
        BY <2>2, TotalNat
    <2> QED
        BY <1>1, <1>2, <1>3, <2>3, SMT
<1>10. WorkLeft' < WorkLeft
    <2>1. \A t, l, x, p \in Int : 2 * (t - k) + ((l + 1) + 1 - x) + p < 2 * t + (l + 1 - x) + p
        BY <1>3, SMT
    <2>2. next \in Int /\ Len(units) \in Int /\ Total(rest) \in Int
        BY <1>2
    <2> QED
        BY <2>1, <2>2, <1>5, <1>7, <1>8, <1>9
<1>11. Total(units') + Total(rest') = Total(units) + Total(rest)
    BY <1>2, <1>3, <1>4, <1>9, SMT
<1> QED
    BY <1>10, <1>11 DEF Advances

\* The other steps finish a phase, or pack a unit.
LEMMA PhaseAdvances ==
    ASSUME ChunkingIInv, CutFails \/ SplitDone \/ AddUnit \/ Finish
    PROVE  Advances
<1>1. /\ Total(rest) \in Nat /\ Len(units) \in Nat /\ next \in 1..(Len(units) + 1)
    BY WorkNumbers
<1>2. rest' = rest /\ units' = units
    BY DEF CutFails, SplitDone, AddUnit, Finish
<1> DEFINE later(p) == IF p = "split" THEN 2 ELSE IF p = "pack" THEN 1 ELSE 0
<1>3. /\ WorkLeft = 2 * Total(rest) + (Len(units) + 1 - next) + later(phase)
      /\ WorkLeft' = 2 * Total(rest) + (Len(units) + 1 - next') + later(phase')
    BY <1>2 DEF WorkLeft
<1>4. \/ next' = next /\ later(phase') < later(phase)
      \/ next' = next + 1 /\ later(phase') = later(phase)
    BY DEF CutFails, SplitDone, AddUnit, Finish
<1>5. \A p : later(p) \in Int
    OBVIOUS
<1> HIDE DEF later
<1>6. WorkLeft' < WorkLeft
    <2>1. \A t, l, x, p, q \in Int :
             /\ q < p => 2 * t + (l + 1 - x) + q < 2 * t + (l + 1 - x) + p
             /\ 2 * t + (l + 1 - (x + 1)) + p < 2 * t + (l + 1 - x) + p
        BY SMT
    <2>2. next \in Int /\ Len(units) \in Int /\ Total(rest) \in Int
        BY <1>1
    <2>3. CASE next' = next /\ later(phase') < later(phase)
        BY <2>1, <2>2, <2>3, <1>3, <1>5
    <2>4. CASE next' = next + 1 /\ later(phase') = later(phase)
        BY <2>1, <2>2, <2>4, <1>3, <1>5
    <2> QED
        BY <2>3, <2>4, <1>4
<1> QED
    BY <1>2, <1>6 DEF Advances

\* Every step of the chunker advances.
LEMMA StepAdvances == ChunkingIInv /\ ChunkingNext => Advances
BY KeepSentenceUnit, CutSentenceUnit, OneMoreUnitAdvances, PhaseAdvances DEF ChunkingNext

-----------------------------------------------------------------------------
(* Theorems *)

\* The invariant always holds (StructureAwareChunker.chunk).
THEOREM ChunkingInvariant == ChunkingSpec => []ChunkingIInv
BY ChunkingInitIInv, ChunkingStep, PTL DEF ChunkingSpec

\* No chunk has more tokens than the limit, whatever the tokenizer counts for the
\* parts of a text: a chunk is counted as a whole, its repeated units included
\* (chunk, _overlap_for_next_chunk).
THEOREM NoChunkTooLong == ChunkingSpec => []ChunksFit
BY ChunkingInvariant, ChunkingIInvImplies, PTL

\* The chunks cover the document in order, each goes further than the one before,
\* and neighbours share at most the overlap (chunk).
THEOREM NothingLost == ChunkingSpec => []ChunksCover
BY ChunkingInvariant, ChunkingIInvImplies, PTL

\* The loops of the chunker end, whatever the tokenizer counts: every step leaves
\* less to do, of at most 2 * MaxChars + 3, and cutting neither loses nor repeats a
\* character (_units_for_block, _split_oversized_unit, chunk).
THEOREM ChunkerTerminates ==
    ChunkingSpec => [](WorkLeft \in 0..(2 * MaxChars + 3)) /\ [][Advances]_chunker
<1>1. ChunkingIInv /\ [ChunkingNext]_chunker => [Advances]_chunker
    BY StepAdvances
<1> QED
    BY <1>1, WorkBounded, ChunkingInvariant, PTL DEF ChunkingSpec

================================================================================
