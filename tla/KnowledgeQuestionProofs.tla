------------------------- MODULE KnowledgeQuestionProofs -------------------------
(***************************************************************************)
(* Proofs about KnowledgeQuestion, for any index, order of Qdrant, budget  *)
(* and sizes.  The first part is about its operators; Kept is a recursive  *)
(* function, and the facts about it are shown by induction.                *)
(***************************************************************************)
EXTENDS KnowledgeQuestion, ChunkingProofs, FiniteSetTheorems

Distinct(s) == \A i, j \in 1..Len(s) : s[i] = s[j] => i = j

-----------------------------------------------------------------------------
(* Kept *)

\* The function of which Kept(s, S) is the last value: what the prefixes keep.
Keeps(s, S) ==
    CHOOSE kept : kept = [i \in 0..Len(s) |->
        IF i = 0 THEN <<>>
        ELSE IF s[i] \in S THEN Append(kept[i - 1], s[i]) ELSE kept[i - 1]]

\* Keeps(s, S) satisfies its recursive definition.
LEMMA KeepsDef ==
    ASSUME NEW s, Len(s) \in Nat, NEW S
    PROVE  /\ Keeps(s, S)[0] = <<>>
           /\ \A i \in 1..Len(s) : Keeps(s, S)[i] =
                 IF s[i] \in S THEN Append(Keeps(s, S)[i - 1], s[i]) ELSE Keeps(s, S)[i - 1]
           /\ Kept(s, S) = Keeps(s, S)[Len(s)]
<1> DEFINE Longer(r, i) == IF s[i] \in S THEN Append(r, s[i]) ELSE r
           Eqn(g, n) == g = [i \in 0..n |-> IF i = 0 THEN <<>> ELSE Longer(g[i - 1], i)]
           T == {n \in Nat : n <= Len(s) => \E g : Eqn(g, n)}
<1> HIDE DEF Longer
<1>1. 0 \in T
    <2>1. Eqn([i \in 0..0 |-> <<>>], 0)
        OBVIOUS
    <2> QED
        BY <2>1
<1>2. \A n \in Nat : n \in T => n + 1 \in T
    <2> SUFFICES ASSUME NEW n \in Nat, n \in T, n + 1 <= Len(s)
                 PROVE  \E g : Eqn(g, n + 1)
        <3> HIDE DEF Eqn
        <3> QED
            OBVIOUS
    <2>1. PICK g : Eqn(g, n)
        BY SMT
    <2> DEFINE h == [i \in 0..(n + 1) |-> IF i = n + 1 THEN Longer(g[n], n + 1) ELSE g[i]]
    <2>2. \A i \in 0..(n + 1) : h[i] = IF i = 0 THEN <<>> ELSE Longer(h[i - 1], i)
        <3> SUFFICES ASSUME NEW i \in 0..(n + 1)
                     PROVE  h[i] = IF i = 0 THEN <<>> ELSE Longer(h[i - 1], i)
            OBVIOUS
        <3>1. CASE i = n + 1
            BY <3>1, SMT
        <3>2. CASE i \in 0..n
            BY <3>2, <2>1, SMT
        <3> QED
            BY <3>1, <3>2, SMT
    <2>3. Eqn(h, n + 1)
        BY <2>2
    <2> QED
        BY <2>3
<1>3. \E g : Eqn(g, Len(s))
    <2> HIDE DEF T
    <2>1. Nat \subseteq T
        BY <1>1, <1>2, Induction
    <2> QED
        BY <2>1, SMT DEF T
<1>4. Eqn(Keeps(s, S), Len(s))
    BY <1>3 DEF Keeps, Longer
<1>5. /\ Keeps(s, S)[0] = <<>>
      /\ \A i \in 1..Len(s) : Keeps(s, S)[i] = Longer(Keeps(s, S)[i - 1], i)
    BY <1>4, SMT
<1>6. Kept(s, S) = Keeps(s, S)[Len(s)]
    BY DEF Kept, Keeps
<1> QED
    BY <1>5, <1>6 DEF Longer

\* What is kept are elements of s that are in S, no more than s has.
LEMMA KeepsType ==
    ASSUME NEW A, NEW s \in Seq(A), NEW S, NEW n \in 0..Len(s)
    PROVE  /\ Keeps(s, S)[n] \in Seq({s[i] : i \in 1..n} \cap S)
           /\ Keeps(s, S)[n] \in Seq(A)
           /\ Len(Keeps(s, S)[n]) \in 0..n
<1> DEFINE E(k) == {s[i] : i \in 1..k} \cap S
           P(k) == Keeps(s, S)[k] \in Seq(E(k)) /\ Len(Keeps(s, S)[k]) \in 0..k
           T == {k \in Nat : k <= Len(s) => P(k)}
<1>1. Len(s) \in Nat
    BY LenProperties
<1>2. 0 \in T
    <2>1. Keeps(s, S)[0] = <<>>
        BY <1>1, KeepsDef
    <2>2. P(0)
        BY <2>1
    <2> QED
        BY <2>2
<1>3. \A k \in Nat : k \in T => k + 1 \in T
    <2> SUFFICES ASSUME NEW k \in Nat, k + 1 <= Len(s), P(k)
                 PROVE  P(k + 1)
        <3>1. \A k \in Nat : k + 1 <= Len(s) => k <= Len(s)
            BY <1>1, SMT
        <3> HIDE DEF P
        <3> QED
            BY <3>1
    <2> DEFINE r == Keeps(s, S)[k]
    <2>1. k + 1 \in 1..Len(s) /\ (k + 1) - 1 = k /\ 1..k \subseteq 1..(k + 1) /\ k + 1 \in 1..(k + 1)
        BY <1>1, SMT
    <2>2. Keeps(s, S)[k + 1] = IF s[k + 1] \in S THEN Append(r, s[k + 1]) ELSE r
        BY <2>1, <1>1, KeepsDef
    <2>3. E(k) \subseteq E(k + 1)
        BY <2>1
    <2>4. r \in Seq(E(k + 1)) /\ Len(r) \in 0..k
        <3> HIDE DEF E, r
        <3> QED
            BY <2>3, SeqMonotonic DEF P, r
    <2>5. CASE s[k + 1] \in S
        <3>1. s[k + 1] \in E(k + 1)
            BY <2>1, <2>5
        <3> HIDE DEF E, r
        <3>2. Append(r, s[k + 1]) \in Seq(E(k + 1)) /\ Len(Append(r, s[k + 1])) = Len(r) + 1
            BY <2>4, <3>1, AppendProperties
        <3>3. Len(r) + 1 \in 0..(k + 1)
            BY <2>4, SMT
        <3> QED
            BY <2>2, <2>5, <3>2, <3>3
    <2>6. CASE s[k + 1] \notin S
        <3> HIDE DEF E, r
        <3>1. Len(r) \in 0..(k + 1)
            BY <2>4, SMT
        <3> QED
            BY <2>2, <2>4, <2>6, <3>1
    <2> QED
        BY <2>5, <2>6
<1>4. Nat \subseteq T
    <2> HIDE DEF T
    <2> QED
        BY <1>2, <1>3, Induction
<1>5. P(n)
    <2> HIDE DEF P
    <2>1. n \in Nat /\ n <= Len(s)
        BY <1>1, SMT
    <2> QED
        BY <1>4, <2>1
<1>6. E(n) \subseteq A
    BY <1>1, ElementOfSeq, SMT
<1>7. Keeps(s, S)[n] \in Seq(A)
    BY <1>5, <1>6, SeqMonotonic
<1> QED
    BY <1>5, <1>7

\* What a prefix keeps depends on its elements and their tests only.
LEMMA KeepsSame ==
    ASSUME NEW s, NEW t, Len(s) \in Nat, Len(t) \in Nat, NEW S, NEW T,
           NEW n \in Nat, n <= Len(s), n <= Len(t),
           \A i \in 1..n : s[i] = t[i] /\ (s[i] \in S <=> t[i] \in T)
    PROVE  Keeps(s, S)[n] = Keeps(t, T)[n]
<1> DEFINE U == {k \in Nat : k <= n => Keeps(s, S)[k] = Keeps(t, T)[k]}
<1>1. 0 \in U
    BY KeepsDef
<1>2. \A k \in Nat : k \in U => k + 1 \in U
    <2> SUFFICES ASSUME NEW k \in Nat, k \in U, k + 1 <= n
                 PROVE  Keeps(s, S)[k + 1] = Keeps(t, T)[k + 1]
        OBVIOUS
    <2>1. /\ k + 1 \in 1..n /\ k + 1 \in 1..Len(s) /\ k + 1 \in 1..Len(t)
          /\ (k + 1) - 1 = k /\ k <= n
        BY SMT
    <2>2. Keeps(s, S)[k + 1] =
             IF s[k + 1] \in S THEN Append(Keeps(s, S)[k], s[k + 1]) ELSE Keeps(s, S)[k]
        BY <2>1, KeepsDef
    <2>3. Keeps(t, T)[k + 1] =
             IF t[k + 1] \in T THEN Append(Keeps(t, T)[k], t[k + 1]) ELSE Keeps(t, T)[k]
        BY <2>1, KeepsDef
    <2>4. Keeps(s, S)[k] = Keeps(t, T)[k]
        BY <2>1
    <2> QED
        BY <2>1, <2>2, <2>3, <2>4, Zenon
<1>3. Nat \subseteq U
    <2> HIDE DEF U
    <2> QED
        BY <1>1, <1>2, Induction
<1> QED
    BY <1>3, SMT

\* Two sets that hold the same elements of s keep the same.
LEMMA KeepsAgree ==
    ASSUME NEW s, Len(s) \in Nat, NEW S, NEW R, NEW n \in 0..Len(s),
           \A i \in 1..n : s[i] \in S <=> s[i] \in R
    PROVE  \A k \in 0..n : Keeps(s, S)[k] = Keeps(s, R)[k]
<1> DEFINE U == {k \in Nat : k <= n => Keeps(s, S)[k] = Keeps(s, R)[k]}
<1>1. 0 \in U
    BY KeepsDef
<1>2. \A k \in Nat : k \in U => k + 1 \in U
    <2> SUFFICES ASSUME NEW k \in Nat, k \in U, k + 1 <= n
                 PROVE  Keeps(s, S)[k + 1] = Keeps(s, R)[k + 1]
        OBVIOUS
    <2>1. k + 1 \in 1..n /\ k + 1 \in 1..Len(s) /\ (k + 1) - 1 = k /\ k <= n
        BY SMT
    <2>2. Keeps(s, S)[k + 1] =
             IF s[k + 1] \in S THEN Append(Keeps(s, S)[k], s[k + 1]) ELSE Keeps(s, S)[k]
        BY <2>1, KeepsDef
    <2>3. Keeps(s, R)[k + 1] =
             IF s[k + 1] \in R THEN Append(Keeps(s, R)[k], s[k + 1]) ELSE Keeps(s, R)[k]
        BY <2>1, KeepsDef
    <2>4. Keeps(s, S)[k] = Keeps(s, R)[k]
        BY <2>1
    <2> QED
        BY <2>1, <2>2, <2>3, <2>4, Zenon
<1>3. Nat \subseteq U
    <2> HIDE DEF U
    <2> QED
        BY <1>1, <1>2, Induction
<1> QED
    BY <1>3, SMT

\* A longer prefix keeps what a shorter one keeps, in the same places, and leaves
\* out no less.
LEMMA KeepsGrow ==
    ASSUME NEW A, NEW s \in Seq(A), NEW S, NEW m \in 0..Len(s), NEW n \in 0..m
    PROVE  /\ Len(Keeps(s, S)[n]) <= Len(Keeps(s, S)[m])
           /\ \A i \in 1..Len(Keeps(s, S)[n]) : Keeps(s, S)[m][i] = Keeps(s, S)[n][i]
           /\ n - Len(Keeps(s, S)[n]) <= m - Len(Keeps(s, S)[m])
<1> DEFINE K(k) == Keeps(s, S)[k]
           P(k) == /\ Len(K(n)) <= Len(K(n + k))
                   /\ \A i \in 1..Len(K(n)) : K(n + k)[i] = K(n)[i]
                   /\ n - Len(K(n)) <= n + k - Len(K(n + k))
           T == {k \in Nat : n + k <= Len(s) => P(k)}
<1>1. Len(s) \in Nat
    BY LenProperties
<1>2. \A k \in 0..Len(s) : K(k) \in Seq(A) /\ Len(K(k)) \in Nat
    <2> TAKE k \in 0..Len(s)
    <2>1. K(k) \in Seq(A)
        BY KeepsType
    <2> HIDE DEF K
    <2> QED
        BY <2>1, LenProperties
<1>3. n \in 0..Len(s) /\ m - n \in Nat /\ n + (m - n) = m
    BY <1>1, SMT
<1>4. \A k \in 1..Len(s) : K(k) = IF s[k] \in S THEN Append(K(k - 1), s[k]) ELSE K(k - 1)
    BY <1>1, KeepsDef
<1> HIDE DEF K
<1>5. 0 \in T
    <2>1. n + 0 = n /\ Len(K(n)) \in Nat
        BY <1>2, <1>3, SMT
    <2>2. P(0)
        BY <2>1, <1>3, SMT
    <2> QED
        BY <2>2
<1>6. \A k \in Nat : k \in T => k + 1 \in T
    <2> SUFFICES ASSUME NEW k \in Nat, n + (k + 1) <= Len(s), P(k)
                 PROVE  P(k + 1)
        <3>1. \A j \in Nat : n + (j + 1) <= Len(s) => n + j <= Len(s)
            BY <1>1, <1>3, SMT
        <3> HIDE DEF P
        <3> QED
            BY <3>1
    <2>1. /\ n + (k + 1) \in 1..Len(s) /\ (n + (k + 1)) - 1 = n + k
          /\ n + k \in 0..Len(s) /\ n + (k + 1) \in 0..Len(s)
        BY <1>1, <1>3, SMT
    <2> DEFINE r == K(n + k)
               q == K(n + (k + 1))
               x == s[n + (k + 1)]
    <2>2. q = IF x \in S THEN Append(r, x) ELSE r
        BY <2>1, <1>4
    <2>3. r \in Seq(A) /\ x \in A /\ Len(r) \in Nat /\ Len(K(n)) \in Nat
        BY <2>1, <1>2, <1>3, ElementOfSeq
    <2> HIDE DEF r, q, x
    <2>4. /\ Len(K(n)) <= Len(r)
          /\ \A i \in 1..Len(K(n)) : r[i] = K(n)[i]
          /\ n - Len(K(n)) <= n + k - Len(r)
        BY DEF P, r
    <2>5. CASE x \in S
        <3>1. /\ Len(Append(r, x)) = Len(r) + 1
              /\ \A i \in 1..Len(r) : Append(r, x)[i] = r[i]
            BY <2>3, AppendProperties
        <3>2. Len(q) = Len(r) + 1 /\ \A i \in 1..Len(r) : q[i] = r[i]
            BY <3>1, <2>2, <2>5, Zenon
        <3>3. \A i \in 1..Len(K(n)) : i \in 1..Len(r)
            BY <2>3, <2>4, SMT
        <3>4. \A i \in 1..Len(K(n)) : q[i] = K(n)[i]
            BY <3>2, <3>3, <2>4
        <3>5. Len(K(n)) <= Len(q) /\ n - Len(K(n)) <= n + (k + 1) - Len(q)
            BY <3>2, <2>3, <2>4, <1>3, SMT
        <3> QED
            BY <3>4, <3>5 DEF P, q
    <2>6. CASE x \notin S
        <3>1. q = r
            BY <2>2, <2>6
        <3>2. n - Len(K(n)) <= n + (k + 1) - Len(r)
            <4>1. Len(r) \in Nat /\ Len(K(n)) \in Nat /\ n - Len(K(n)) <= n + k - Len(r)
                BY <2>3, <2>4
            <4> QED
                BY <4>1, <1>3, SMT
        <3> QED
            BY <3>1, <3>2, <2>4 DEF P, q
    <2> QED
        BY <2>5, <2>6
<1>7. Nat \subseteq T
    <2> HIDE DEF T
    <2> QED
        BY <1>5, <1>6, Induction
<1>8. P(m - n)
    <2> HIDE DEF P
    <2>1. m - n \in T /\ n + (m - n) <= Len(s)
        BY <1>1, <1>3, <1>7, SMT
    <2> QED
        BY <2>1
<1>9. /\ Len(K(n)) <= Len(K(m))
      /\ \A i \in 1..Len(K(n)) : K(m)[i] = K(n)[i]
      /\ n - Len(K(n)) <= m - Len(K(m))
    BY <1>3, <1>8
<1> QED
    BY <1>9 DEF K

\* Nothing is kept twice.
LEMMA KeepsDistinct ==
    ASSUME NEW A, NEW s \in Seq(A), Distinct(s), NEW S, NEW n \in 0..Len(s)
    PROVE  Distinct(Keeps(s, S)[n])
<1> DEFINE K(k) == Keeps(s, S)[k]
           T == {k \in Nat : k <= Len(s) => Distinct(K(k))}
<1>1. Len(s) \in Nat
    BY LenProperties
<1>2. \A k \in 0..Len(s) : K(k) \in Seq({s[i] : i \in 1..k} \cap S) /\ Len(K(k)) \in Nat
    <2> TAKE k \in 0..Len(s)
    <2>1. K(k) \in Seq({s[i] : i \in 1..k} \cap S) /\ Len(K(k)) \in 0..k
        BY KeepsType
    <2> HIDE DEF K
    <2> QED
        BY <2>1, LenProperties
<1>3. \A k \in 1..Len(s) : K(k) = IF s[k] \in S THEN Append(K(k - 1), s[k]) ELSE K(k - 1)
    BY <1>1, KeepsDef
<1>4. K(0) = <<>>
    BY <1>1, KeepsDef
<1> HIDE DEF K
<1>5. 0 \in T
    BY <1>4 DEF Distinct
<1>6. \A k \in Nat : k \in T => k + 1 \in T
    <2> SUFFICES ASSUME NEW k \in Nat, k + 1 <= Len(s), Distinct(K(k))
                 PROVE  Distinct(K(k + 1))
        <3>1. \A j \in Nat : j + 1 <= Len(s) => j <= Len(s)
            BY <1>1, SMT
        <3> QED
            BY <3>1
    <2>1. /\ k + 1 \in 1..Len(s) /\ (k + 1) - 1 = k /\ k \in 0..Len(s)
        BY <1>1, SMT
    <2> DEFINE r == K(k)
               q == K(k + 1)
               x == s[k + 1]
    <2>2. q = IF x \in S THEN Append(r, x) ELSE r
        BY <2>1, <1>3
    <2>3. r \in Seq({s[i] : i \in 1..k} \cap S) /\ Len(r) \in Nat
        BY <2>1, <1>2
    <2>4. Distinct(r)
        OBVIOUS
    <2>5. \A i \in 1..Len(r) : r[i] # x
        <3> SUFFICES ASSUME NEW i \in 1..Len(r), r[i] = x PROVE FALSE
            OBVIOUS
        <3>1. PICK j \in 1..k : r[i] = s[j]
            <4> DEFINE B == {s[j] : j \in 1..k} \cap S
            <4>1. r \in Seq(B)
                BY <2>3
            <4> HIDE DEF B, r
            <4>2. r[i] \in B
                BY <4>1, ElementOfSeq
            <4> QED
                BY <4>2 DEF B
        <3>2. j \in 1..Len(s) /\ j # k + 1
            BY <2>1, SMT
        <3> QED
            BY <3>1, <3>2, <2>1 DEF Distinct
    <2> HIDE DEF r, q, x
    <2>6. CASE x \in S
        <3>1. /\ Len(Append(r, x)) = Len(r) + 1
              /\ \A i \in 1..Len(r) : Append(r, x)[i] = r[i]
              /\ Append(r, x)[Len(r) + 1] = x
            <4> DEFINE B == ({s[i] : i \in 1..k} \cap S) \cup {x}
            <4>1. x \in B /\ r \in Seq(B)
                BY <2>3, SeqMonotonic
            <4> HIDE DEF B
            <4> QED
                BY <4>1, AppendProperties
        <3>2. Len(q) = Len(r) + 1 /\ (\A i \in 1..Len(r) : q[i] = r[i]) /\ q[Len(r) + 1] = x
            BY <3>1, <2>2, <2>6, Zenon
        <3>3. \A i, j \in 1..Len(q) : q[i] = q[j] => i = j
            <4> SUFFICES ASSUME NEW i \in 1..(Len(r) + 1), NEW j \in 1..(Len(r) + 1), q[i] = q[j]
                         PROVE  i = j
                BY <3>2
            <4>1. CASE i \in 1..Len(r) /\ j \in 1..Len(r)
                BY <4>1, <3>2, <2>4 DEF Distinct
            <4>2. CASE i = Len(r) + 1 /\ j \in 1..Len(r)
                BY <4>2, <3>2, <2>5
            <4>3. CASE i \in 1..Len(r) /\ j = Len(r) + 1
                BY <4>3, <3>2, <2>5
            <4>4. (i \in 1..Len(r) \/ i = Len(r) + 1) /\ (j \in 1..Len(r) \/ j = Len(r) + 1)
                BY <2>3, SMT
            <4> QED
                BY <4>1, <4>2, <4>3, <4>4
        <3> QED
            BY <3>3 DEF Distinct, q
    <2>7. CASE x \notin S
        BY <2>2, <2>4, <2>7 DEF q
    <2> QED
        BY <2>6, <2>7
<1>7. Nat \subseteq T
    <2> HIDE DEF T
    <2> QED
        BY <1>5, <1>6, Induction
<1>8. Distinct(K(n))
    BY <1>1, <1>7, SMT
<1> QED
    BY <1>8 DEF K

\* A prefix of a sequence: its type, length and elements.
LEMMA Prefix ==
    ASSUME NEW A, NEW s \in Seq(A), NEW m \in 0..Len(s)
    PROVE  /\ SubSeq(s, 1, m) \in Seq(A)
           /\ Len(SubSeq(s, 1, m)) = m
           /\ \A i \in 1..m : SubSeq(s, 1, m)[i] = s[i]
<1>1. Len(s) \in Nat /\ 1 \in Int /\ m \in Int /\ 1..m \subseteq 1..Len(s)
    BY LenProperties, SMT
<1>2. \A i \in 1..m : s[i] \in A
    BY <1>1, ElementOfSeq
<1>3. /\ SubSeq(s, 1, m) \in Seq(A)
      /\ Len(SubSeq(s, 1, m)) = IF 1 <= m THEN m - 1 + 1 ELSE 0
      /\ \A i \in 1..(m - 1 + 1) : SubSeq(s, 1, m)[i] = s[1 + i - 1]
    BY <1>1, <1>2, SubSeqProperties
<1>4. (IF 1 <= m THEN m - 1 + 1 ELSE 0) = m /\ m - 1 + 1 = m
    BY <1>1, SMT
<1>5. \A i \in 1..m : 1 + i - 1 = i
    BY <1>1, SMT
<1> QED
    BY <1>3, <1>4, <1>5

\* What a prefix keeps.
LEMMA KeptPrefix ==
    ASSUME NEW A, NEW s \in Seq(A), NEW m \in 0..Len(s), NEW S
    PROVE  Kept(SubSeq(s, 1, m), S) = Keeps(s, S)[m]
<1> DEFINE t == SubSeq(s, 1, m)
<1>1. Len(s) \in Nat /\ m \in Nat /\ m <= Len(s)
    BY LenProperties, SMT
<1>2. Len(t) = m /\ \A i \in 1..m : t[i] = s[i]
    BY Prefix
<1> HIDE DEF t
<1>3. Kept(t, S) = Keeps(t, S)[m]
    BY <1>1, <1>2, KeepsDef
<1>4. Keeps(t, S)[m] = Keeps(s, S)[m]
    <2>1. Len(t) \in Nat /\ m <= Len(t)
        BY <1>1, <1>2
    <2> QED
        BY <2>1, <1>1, <1>2, KeepsSame
<1> QED
    BY <1>3, <1>4 DEF t

\* The smaller of two numbers.
LEMMA MinTwo ==
    ASSUME NEW a \in Nat, NEW b \in Nat
    PROVE  Min({a, b}) = IF a <= b THEN a ELSE b
<1>1. \E x \in {a, b} : \A y \in {a, b} : x <= y
    BY SMT
<1>2. Min({a, b}) \in {a, b} /\ \A y \in {a, b} : Min({a, b}) <= y
    BY <1>1 DEF Min
<1> QED
    BY <1>2, SMT

-----------------------------------------------------------------------------
(* The inductive invariant *)

\* The active version never goes back and a deleted file does not come back, so
\* what MySQL says in Backfill is at least as new as the question.
WorldInv ==
    /\ asked.active <= active
    /\ ready => asked.ready

\* Nothing is found twice, and nothing is built before the index is read.
HitsInv ==
    /\ Distinct(found)
    /\ Distinct(hits)
    /\ hits # <<>> => size \in [ToSet(hits) -> Sizes]
    /\ stage \in {"idle", "search", "backfill", "rejected"} =>
         hits = <<>> /\ citations = <<>> /\ tried = 0

\* After tried hits the citations are those of them that fitted, and the others
\* did not fit behind the citations before them.
CitationsInv ==
    /\ stage \notin {"idle", "rejected"} =>
         Available(query) > 0 /\ Tokens(citations) <= Available(query)
    /\ ToSet(citations) \subseteq {hits[i] : i \in 1..tried}
    /\ citations = Kept(SubSeq(hits, 1, tried), ToSet(citations))
    /\ \A i \in 1..tried : hits[i] \notin ToSet(citations) =>
         Tokens(Append(Kept(SubSeq(hits, 1, i - 1), ToSet(citations)), hits[i]))
            > Available(query)
    /\ stage \in {"check", "accepted"} => tried = Len(hits)

IInv ==
    /\ TypeOK
    /\ ChunkingIInv
    /\ WorldInv
    /\ HitsInv
    /\ CitationsInv
    /\ NeverStale
    /\ NoHoles

-----------------------------------------------------------------------------
(* Tokens *)

\* The tokens of a context are a natural number.
LEMMA TokensNat ==
    ASSUME NEW D, size \in [D -> Sizes], NEW cs \in Seq(D)
    PROVE  Tokens(cs) \in Nat
<1>1. Len(cs) \in Nat /\ \A i \in 1..Len(cs) : cs[i] \in D
    BY LenProperties, ElementOfSeq
<1>2. /\ Label \in Nat /\ Separator \in Nat /\ \A x \in Sizes : x \in Nat
    BY QuestionAssumption
<1> DEFINE t == [i \in 1..Len(cs) |-> size[cs[i]] + Label]
<1>3. t \in Seq(Nat)
    <2>1. \A i \in 1..Len(cs) : size[cs[i]] + Label \in Nat
        BY <1>1, <1>2
    <2>2. t \in [1..Len(cs) -> Nat]
        BY <2>1
    <2> QED
        BY <2>2, <1>1
<1>4. Total(t) \in Nat
    BY <1>3, TotalNat
<1>5. (IF cs = <<>> THEN 0 ELSE Separator * (Len(cs) - 1)) \in Nat
    <2>1. CASE cs = <<>>
        BY <2>1
    <2>2. CASE cs # <<>>
        <3>1. Len(cs) - 1 \in Nat
            BY <2>2, <1>1, EmptySeq, SMT
        <3>2. Separator * (Len(cs) - 1) \in Nat
            BY <3>1, <1>2, SMT
        <3> QED
            BY <2>2, <3>2
    <2> QED
        BY <2>1, <2>2
<1> HIDE DEF t
<1>6. Tokens(cs) = Total(t) + (IF cs = <<>> THEN 0 ELSE Separator * (Len(cs) - 1))
    BY DEF Tokens, t
<1> QED
    BY <1>4, <1>5, <1>6, SMT

\* An empty context has no tokens.
LEMMA TokensEmpty == Tokens(<<>>) = 0
<1>1. [i \in 1..Len(<<>>) |-> size[<<>>[i]] + Label] = <<>>
    OBVIOUS
<1> QED
    BY <1>1, TotalEmpty DEF Tokens

\* The texts of the hits do not change once they were read.
LEMMA TokensUnchanged ==
    ASSUME UNCHANGED size
    PROVE  \A cs : Tokens(cs)' = Tokens(cs)
BY DEF Tokens

-----------------------------------------------------------------------------
(* Backfill *)

\* The answer of Qdrant is a sequence of distinct chunks.
LEMMA SearchFound ==
    ASSUME NEW S \in SUBSET Chunks, NEW f \in SetToSeqs(S)
    PROVE  f \in Seq(Chunks) /\ Distinct(f)
<1>1. IsFiniteSet(Chunks)
    <2>1. 1 \in Int /\ MaxVersion \in Int /\ MaxChunks \in Int
        BY QuestionAssumption
    <2>2. IsFiniteSet(1..MaxVersion) /\ IsFiniteSet(1..MaxChunks)
        BY <2>1, FS_Interval
    <2> QED
        BY <2>2, FS_Product DEF Chunks, Versions
<1>2. IsFiniteSet(S)
    BY <1>1, FS_Subset
<1>3. Cardinality(S) \in Nat
    BY <1>2, FS_CardinalityType
<1> DEFINE n == Cardinality(S)
<1>4. f \in [1..n -> S] /\ \A i, j \in 1..n : i # j => f[i] # f[j]
    BY DEF SetToSeqs
<1> HIDE DEF n
<1>5. f \in Seq(S) /\ Len(f) = n
    BY <1>3, <1>4, SMT DEF n
<1>6. f \in Seq(Chunks)
    BY <1>5, SeqMonotonic
<1>7. Distinct(f)
    BY <1>4, <1>5 DEF Distinct
<1> QED
    BY <1>6, <1>7

\* The candidates are a prefix of what was found.
LEMMA CandidatesPrefix ==
    ASSUME found \in Seq(Chunks)
    PROVE  \E m \in 0..Len(found) :
              /\ Candidates = SubSeq(found, 1, m)
              /\ m = Len(found) \/ m = TopK * Multiplier
<1> DEFINE p == TopK * Multiplier
<1>1. p \in Nat /\ Len(found) \in Nat
    <2>1. TopK \in Nat /\ Multiplier \in Nat
        BY QuestionAssumption
    <2> QED
        BY <2>1, LenProperties, SMT
<1> HIDE DEF p
<1>2. Min({Len(found), p}) = IF Len(found) <= p THEN Len(found) ELSE p
    BY <1>1, MinTwo
<1>3. Min({Len(found), p}) \in 0..Len(found)
      /\ (Min({Len(found), p}) = Len(found) \/ Min({Len(found), p}) = p)
    BY <1>1, <1>2, SMT
<1>4. Candidates = SubSeq(found, 1, Min({Len(found), p}))
    BY DEF Candidates, p
<1> QED
    BY <1>3, <1>4 DEF p

\* What Backfill returns: distinct chunks of the active version, at most TopK.
LEMMA BackfillHits ==
    ASSUME found \in Seq(Chunks), Distinct(found), Backfill
    PROVE  /\ hits' \in Seq(Chunks) /\ Len(hits') \in 0..TopK /\ Distinct(hits')
           /\ \A i \in 1..Len(hits') : hits'[i] \in ActiveChunks
<1>1. PICK m \in 0..Len(found) : Candidates = SubSeq(found, 1, m)
    BY CandidatesPrefix
<1> DEFINE valid == Keeps(found, ActiveChunks)[m]
           E == {found[i] : i \in 1..m} \cap ActiveChunks
<1>2. Kept(Candidates, ActiveChunks) = valid
    BY <1>1, KeptPrefix
<1>3. valid \in Seq(E) /\ Distinct(valid)
    BY KeepsType, KeepsDistinct
<1>4. hits' = SubSeq(valid, 1, Min({Len(valid), TopK}))
    <2> HIDE DEF valid
    <2> QED
        BY <1>2 DEF Backfill
<1>5. E \subseteq ActiveChunks /\ ActiveChunks \subseteq Chunks
    BY DEF ActiveChunks
<1> HIDE DEF valid, E
<1> DEFINE k == Min({Len(valid), TopK})
<1>6. k \in 0..Len(valid) /\ k \in 0..TopK /\ Len(valid) \in Nat
    <2>1. Len(valid) \in Nat /\ TopK \in Nat
        BY <1>3, LenProperties, QuestionAssumption
    <2>2. k = IF Len(valid) <= TopK THEN Len(valid) ELSE TopK
        BY <2>1, MinTwo
    <2> HIDE DEF k
    <2> QED
        BY <2>1, <2>2, SMT
<1>7. hits' = SubSeq(valid, 1, k)
    BY <1>4
<1> HIDE DEF k
<1>8. hits' \in Seq(E) /\ Len(hits') = k /\ \A i \in 1..k : hits'[i] = valid[i]
    <2>1. /\ SubSeq(valid, 1, k) \in Seq(E) /\ Len(SubSeq(valid, 1, k)) = k
          /\ \A i \in 1..k : SubSeq(valid, 1, k)[i] = valid[i]
        BY <1>3, <1>6, Prefix
    <2> QED
        BY <2>1, <1>7, Zenon
<1>9. hits' \in Seq(Chunks)
    BY <1>5, <1>8, SeqMonotonic
<1>10. Distinct(hits')
    <2>1. 1..k \subseteq 1..Len(valid)
        BY <1>6, SMT
    <2> QED
        BY <2>1, <1>3, <1>8 DEF Distinct
<1>11. \A i \in 1..Len(hits') : hits'[i] \in ActiveChunks
    <2> TAKE i \in 1..Len(hits')
    <2>1. hits'[i] \in E
        BY <1>8, ElementOfSeq
    <2> QED
        BY <2>1, <1>5
<1> QED
    BY <1>6, <1>8, <1>9, <1>10, <1>11

\* With few enough stale points Backfill returns the first chunks of the version
\* among everything found: what was not fetched, or fetched in vain, is made up
\* for by the candidates beyond TopK.
LEMMA BackfillNoHoles ==
    ASSUME found \in Seq(Chunks), Distinct(found), Backfill,
           asked \in [active : 0..MaxVersion, ready : BOOLEAN, read : 0..MaxVersion]
    PROVE  NoHoles'
<1> SUFFICES ASSUME NEW v, v = IF ready THEN active ELSE 0,
                    NEW mine, mine = Kept(found, {c \in Chunks : VersionOf(c) = v}),
                    Len(found) - Len(mine) <= TopK * (Multiplier - 1)
             PROVE  hits' = SubSeq(mine, 1, Min({Len(mine), TopK}))
    <2>1. found' = found /\ asked'.read = IF ready THEN active ELSE 0
        BY DEF Backfill, Reads
    <2> QED
        BY <2>1 DEF NoHoles
<1>1. PICK m \in 0..Len(found) : /\ Candidates = SubSeq(found, 1, m)
                                 /\ m = Len(found) \/ m = TopK * Multiplier
    BY CandidatesPrefix
<1>2. Len(found) \in Nat /\ TopK \in Nat \ {0} /\ Multiplier \in Nat \ {0} /\ Len(found) \in 0..Len(found)
    BY LenProperties, QuestionAssumption
<1> DEFINE K(j) == Keeps(found, ActiveChunks)[j]
           valid == K(m)
<1>3. hits' = SubSeq(valid, 1, Min({Len(valid), TopK}))
    <2>1. Kept(Candidates, ActiveChunks) = valid
        BY <1>1, KeptPrefix
    <2> HIDE DEF valid
    <2> QED
        BY <2>1 DEF Backfill
<1>4. \A c \in Chunks : VersionOf(c) = v <=> c \in ActiveChunks
    <2>1. \A c \in Chunks : VersionOf(c) # 0
        BY DEF Chunks, Versions, VersionOf
    <2> QED
        BY <2>1 DEF ActiveChunks
<1>5. mine = K(Len(found))
    <2> DEFINE V == {c \in Chunks : VersionOf(c) = v}
    <2>1. \A i \in 1..Len(found) : found[i] \in V <=> found[i] \in ActiveChunks
        <3>1. \A i \in 1..Len(found) : found[i] \in Chunks
            BY ElementOfSeq
        <3> QED
            BY <3>1, <1>4
    <2> HIDE DEF V
    <2>2. Keeps(found, V)[Len(found)] = Keeps(found, ActiveChunks)[Len(found)]
        BY <1>2, <2>1, KeepsAgree
    <2>3. Kept(found, V) = Keeps(found, V)[Len(found)]
        BY <1>2, KeepsDef
    <2> QED
        BY <2>2, <2>3 DEF V
<1>6. /\ valid \in Seq(Chunks) /\ mine \in Seq(Chunks)
      /\ Len(valid) \in Nat /\ Len(mine) \in Nat
    <2>1. valid \in Seq(Chunks) /\ K(Len(found)) \in Seq(Chunks)
        <3>1. m \in 0..Len(found) /\ Len(found) \in 0..Len(found)
            BY <1>2
        <3> QED
            BY <3>1, KeepsType
    <2>2. mine \in Seq(Chunks)
        BY <2>1, <1>5
    <2> HIDE DEF valid
    <2> QED
        BY <2>1, <2>2, LenProperties
<1>7. /\ Len(valid) <= Len(mine)
      /\ \A i \in 1..Len(valid) : mine[i] = valid[i]
      /\ m - Len(valid) <= Len(found) - Len(mine)
    <2> DEFINE n == Len(found)
    <2>1. n \in 0..Len(found) /\ m \in 0..n
        BY <1>2
    <2> HIDE DEF n
    <2>2. /\ Len(K(m)) <= Len(K(n))
          /\ \A i \in 1..Len(K(m)) : K(n)[i] = K(m)[i]
          /\ m - Len(K(m)) <= n - Len(K(n))
        BY <2>1, KeepsGrow
    <2>3. mine = K(n)
        BY <1>5 DEF n
    <2> HIDE DEF K
    <2> QED
        BY <2>2, <2>3 DEF n
<1>8. CASE m = Len(found)
    <2>1. valid = mine
        BY <1>5, <1>8
    <2> QED
        BY <2>1, <1>3
<1>9. CASE m = TopK * Multiplier
    <2> HIDE DEF valid
    <2>1. TopK * Multiplier = TopK * (Multiplier - 1) + TopK /\ TopK * (Multiplier - 1) \in Int
        BY <1>2, SMT
    <2>2. TopK <= Len(valid)
        BY <1>2, <1>6, <1>7, <1>9, <2>1, SMT
    <2>3. TopK <= Len(mine)
        BY <1>2, <1>6, <1>7, <2>2, SMT
    <2>4. /\ Min({Len(valid), TopK}) = IF Len(valid) <= TopK THEN Len(valid) ELSE TopK
          /\ Min({Len(mine), TopK}) = IF Len(mine) <= TopK THEN Len(mine) ELSE TopK
        BY <1>2, <1>6, MinTwo
    <2>5. Min({Len(valid), TopK}) = TopK /\ Min({Len(mine), TopK}) = TopK
        BY <1>2, <1>6, <2>2, <2>3, <2>4, SMT
    <2>6. TopK \in 0..Len(valid) /\ TopK \in 0..Len(mine) /\ 1..TopK \subseteq 1..Len(valid)
        BY <1>2, <1>6, <2>2, <2>3, SMT
    <2>7. /\ SubSeq(valid, 1, TopK) \in Seq(Chunks) /\ Len(SubSeq(valid, 1, TopK)) = TopK
          /\ \A i \in 1..TopK : SubSeq(valid, 1, TopK)[i] = valid[i]
        BY <1>6, <2>6, Prefix
    <2>8. /\ SubSeq(mine, 1, TopK) \in Seq(Chunks) /\ Len(SubSeq(mine, 1, TopK)) = TopK
          /\ \A i \in 1..TopK : SubSeq(mine, 1, TopK)[i] = mine[i]
        BY <1>6, <2>6, Prefix
    <2> DEFINE p == SubSeq(valid, 1, TopK)
               q == SubSeq(mine, 1, TopK)
    <2>9. \A i \in 1..TopK : p[i] = q[i]
        BY <1>7, <2>6, <2>7, <2>8
    <2>10. p \in Seq(Chunks) /\ q \in Seq(Chunks) /\ Len(p) = Len(q) /\ Len(p) = TopK
        BY <2>7, <2>8
    <2> HIDE DEF p, q
    <2>11. p = q
        BY <2>9, <2>10, SeqEqual
    <2> QED
        BY <1>3, <2>5, <2>11 DEF p, q
<1> QED
    BY <1>1, <1>8, <1>9

-----------------------------------------------------------------------------
(* The steps: what they leave alone *)

WorldTypeOK ==
    /\ served \subseteq Versions
    /\ active \in 0..MaxVersion
    /\ chunks \in [Versions -> 0..MaxChunks]
    /\ points \in [Versions -> 0..MaxChunks]
    /\ ready \in BOOLEAN

QuestionTypeOK ==
    /\ stage \in Stages
    /\ query \in [tokens : Queries \cup {0}, output : Outputs \cup {0}, width : Widths \cup {1}]
    /\ asked \in [active : 0..MaxVersion, ready : BOOLEAN, read : 0..MaxVersion]
    /\ found \in Seq(Chunks)
    /\ hits \in Seq(Chunks) /\ Len(hits) <= TopK
    /\ DOMAIN size \subseteq Chunks
    /\ citations \in Seq(Chunks)
    /\ tried \in 0..Len(hits)

\* The type invariant in three parts.
LEMMA TypeParts == TypeOK <=> ChunkingTypeOK /\ WorldTypeOK /\ QuestionTypeOK
BY DEF TypeOK, WorldTypeOK, QuestionTypeOK

\* The invariant after a step from the parts the step has to show.
LEMMA Assemble ==
    ASSUME ChunkingIInv', WorldTypeOK', QuestionTypeOK', WorldInv', HitsInv', CitationsInv',
           NeverStale', NoHoles'
    PROVE  IInv'
<1>1. TypeOK'
    <2>1. ChunkingTypeOK'
        BY DEF ChunkingIInv
    <2> QED
        BY <2>1 DEF TypeOK, WorldTypeOK, QuestionTypeOK
<1> QED
    BY <1>1 DEF IInv

\* The index does not touch the question.
LEMMA QuestionUnchanged ==
    ASSUME IInv, UNCHANGED question
    PROVE  QuestionTypeOK' /\ HitsInv' /\ CitationsInv' /\ NeverStale' /\ NoHoles'
<1>1. UNCHANGED <<stage, query, asked, found, hits, size, citations, tried>>
    BY DEF question
<1>2. \A cs : Tokens(cs)' = Tokens(cs)
    BY <1>1, TokensUnchanged
<1>3. QuestionTypeOK'
    BY <1>1, TypeParts DEF IInv, QuestionTypeOK
<1>4. HitsInv'
    BY <1>1 DEF IInv, HitsInv
<1>5. CitationsInv'
    BY <1>1, <1>2 DEF IInv, CitationsInv, Available
<1>6. NeverStale' /\ NoHoles'
    BY <1>1 DEF IInv, NeverStale, NoHoles
<1> QED
    BY <1>3, <1>4, <1>5, <1>6

\* The question does not touch the index.
LEMMA WorldUnchanged ==
    ASSUME IInv, UNCHANGED <<chunker, world>>
    PROVE  ChunkingIInv' /\ WorldTypeOK'
<1>1. ChunkingIInv'
    BY ChunkingStep DEF IInv
<1>2. WorldTypeOK'
    BY TypeParts DEF IInv, WorldTypeOK, world
<1> QED
    BY <1>1, <1>2

\* A step that only moves on in the stages after the hits are known.
LEMMA StageStep ==
    ASSUME IInv, UNCHANGED <<chunker, world, query, asked, found, hits, size, citations, tried>>,
           stage' \in Stages, stage' \notin {"idle", "search", "backfill", "rejected", "build"},
           stage \notin {"idle", "rejected"},
           stage' \in {"check", "accepted"} => tried = Len(hits)
    PROVE  IInv'
<1>1. \A cs : Tokens(cs)' = Tokens(cs)
    BY TokensUnchanged
<1>2. ChunkingIInv' /\ WorldTypeOK'
    BY WorldUnchanged
<1>3. QuestionTypeOK'
    BY TypeParts DEF IInv, QuestionTypeOK
<1>4. WorldInv'
    BY DEF IInv, WorldInv, world
<1>5. HitsInv'
    BY DEF IInv, HitsInv
<1>6. CitationsInv'
    BY <1>1 DEF IInv, CitationsInv, Available
<1>7. NeverStale'
    BY DEF IInv, NeverStale
<1>8. NoHoles'
    BY DEF NoHoles
<1> QED
    BY <1>2, <1>3, <1>4, <1>5, <1>6, <1>7, <1>8, Assemble

-----------------------------------------------------------------------------
(* The steps *)

\* The invariant holds at the start.
LEMMA InitIInv == Init => IInv
<1> SUFFICES ASSUME Init PROVE IInv
    OBVIOUS
<1>1. ChunkingIInv
    BY ChunkingInitIInv DEF Init
<1>2. /\ stage = "idle" /\ found = <<>> /\ hits = <<>> /\ citations = <<>> /\ tried = 0
      /\ served = {} /\ active = 0 /\ ready = TRUE /\ size = <<>> /\ query = NoQuery
      /\ asked = [active |-> 0, ready |-> TRUE, read |-> 0]
    BY DEF Init, Published!Init
<1>3. MaxVersion \in Nat /\ MaxChunks \in Nat /\ TopK \in Nat
    BY QuestionAssumption
<1>4. TypeOK
    <2>1. WorldTypeOK
        BY <1>2, <1>3 DEF Init, WorldTypeOK
    <2>2. QuestionTypeOK
        <3>1. query \in [tokens : Queries \cup {0}, output : Outputs \cup {0}, width : Widths \cup {1}]
            BY <1>2 DEF NoQuery
        <3>2. asked \in [active : 0..MaxVersion, ready : BOOLEAN, read : 0..MaxVersion]
            BY <1>2, <1>3
        <3>3. DOMAIN size = {}
            BY <1>2
        <3>4. found \in Seq(Chunks) /\ hits \in Seq(Chunks) /\ citations \in Seq(Chunks) /\ Len(hits) = 0
            BY <1>2
        <3> QED
            BY <1>2, <1>3, <3>1, <3>2, <3>3, <3>4 DEF QuestionTypeOK, Stages
    <2> QED
        BY <1>1, <2>1, <2>2, TypeParts DEF ChunkingIInv
<1>5. WorldInv
    BY <1>2 DEF WorldInv
<1>6. HitsInv
    BY <1>2 DEF HitsInv, Distinct
<1>7. CitationsInv
    <2>1. Kept(SubSeq(<<>>, 1, 0), {}) = <<>>
        <3>1. SubSeq(<<>>, 1, 0) = <<>>
            BY SubSeqEmpty
        <3> DEFINE e == <<>>
        <3>2. Len(e) = 0
            OBVIOUS
        <3> HIDE DEF e
        <3>3. Kept(e, {}) = Keeps(e, {})[0] /\ Keeps(e, {})[0] = <<>>
            BY <3>2, KeepsDef
        <3> QED
            BY <3>1, <3>3 DEF e
    <2>2. ToSet(<<>>) = {}
        BY DEF ToSet
    <2>3. CitationsInv!1 /\ CitationsInv!5
        BY <1>2 DEF CitationsInv
    <2>4. CitationsInv!2 /\ CitationsInv!3
        BY <1>2, <2>1, <2>2 DEF CitationsInv
    <2>5. CitationsInv!4
        BY <1>2 DEF CitationsInv
    <2> QED
        BY <2>3, <2>4, <2>5 DEF CitationsInv
<1>8. NeverStale /\ NoHoles
    BY <1>2 DEF NeverStale, NoHoles
<1> QED
    BY <1>1, <1>4, <1>5, <1>6, <1>7, <1>8 DEF IInv

\* The drafts are stored and the chunker forgets everything.
LEMMA StoreChunksIInv == IInv /\ StoreChunks => IInv'
<1> SUFFICES ASSUME IInv, StoreChunks PROVE IInv'
    OBVIOUS
<1>1. UNCHANGED question /\ UNCHANGED <<rest, cutting, current, served, active, points, ready>>
    BY DEF StoreChunks
<1>2. QuestionTypeOK' /\ HitsInv' /\ CitationsInv' /\ NeverStale' /\ NoHoles'
    BY <1>1, QuestionUnchanged
<1>3. WorldInv'
    BY <1>1 DEF IInv, WorldInv, question
<1>4. ChunkingIInv'
    <2>1. /\ phase = "done" /\ phase' = "stored" /\ tokens' = [n \in 1..MaxChars |-> 1]
          /\ gap' = 0 /\ limit' = 1 /\ overlap' = 0
          /\ units' = <<>> /\ next' = 1 /\ drafts' = <<>>
        BY DEF StoreChunks
    <2>2. current = <<>> /\ rest \in Seq(1..MaxChars) /\ cutting \in BOOLEAN
        BY <2>1 DEF IInv, ChunkingIInv, CurrentInv, ChunkingTypeOK
    <2>3. ChunkingTypeOK'
        <3>1. /\ units' \in Seq(1..MaxChars) /\ Len(units') = 0
              /\ drafts' \in Seq(Seq(1..Len(units'))) /\ current' \in Seq(1..Len(units'))
            BY <1>1, <2>1, <2>2
        <3>2. /\ tokens' \in [1..MaxChars -> 1..MaxCount] /\ gap' \in 0..MaxGap
              /\ limit' \in 1..MaxLimit /\ overlap' \in 0..(limit' - 1)
            BY <2>1, ChunkingAssumption
        <3> QED
            BY <1>1, <2>1, <2>2, <3>1, <3>2 DEF ChunkingTypeOK
    <2>4. UnitsInv'
        <3>1. units \in Seq(Nat) /\ rest \in Seq(Nat)
            <4>1. 1..MaxChars \subseteq Nat /\ units \in Seq(1..MaxChars)
                BY DEF IInv, ChunkingIInv, ChunkingTypeOK
            <4> QED
                BY <4>1, <2>2, SeqMonotonic
        <3>2. Total(units) \in Nat /\ Total(rest) \in Nat /\ Total(units) + Total(rest) <= MaxChars
            BY <3>1, TotalNat DEF IInv, ChunkingIInv, UnitsInv
        <3>3. Total(units') = 0
            BY <2>1, TotalEmpty
        <3>4. rest' = rest /\ Len(units') = 0
            BY <1>1, <2>1
        <3>5. Total(units') + Total(rest') <= MaxChars
            BY <3>2, <3>3, <3>4, ChunkingAssumption
        <3> QED
            BY <2>1, <3>4, <3>5, SMT DEF UnitsInv
    <2>5. CurrentInv'
        BY <1>1, <2>1, <2>2 DEF CurrentInv
    <2>6. DraftsInv'
        <3>1. Len(drafts') = 0
            BY <2>1
        <3> QED
            BY <2>1, <3>1, SMT DEF DraftsInv
    <2> QED
        BY <2>3, <2>4, <2>5, <2>6 DEF ChunkingIInv
<1>5. WorldTypeOK'
    <2>1. PICK f \in [Versions -> OldChunks \cup {Len(drafts)}] : chunks' = f
        BY DEF StoreChunks
    <2>2. Len(drafts) \in 0..MaxChunks
        <3>1. drafts \in Seq(Seq(1..Len(units))) /\ Len(drafts) <= MaxChunks
            BY DEF IInv, ChunkingIInv, ChunkingTypeOK, StoreChunks
        <3> QED
            BY <3>1, LenProperties, QuestionAssumption, SMT
    <2>3. OldChunks \cup {Len(drafts)} \subseteq 0..MaxChunks
        <3>1. OldChunks \subseteq 1..MaxChunks /\ MaxChunks \in Nat
            BY QuestionAssumption
        <3>2. OldChunks \subseteq 0..MaxChunks
            BY <3>1, SMT
        <3> QED
            BY <2>2, <3>2, Zenon
    <2>4. chunks' \in [Versions -> 0..MaxChunks]
        BY <2>1, <2>3
    <2> QED
        BY <1>1, <2>4, TypeParts DEF IInv, WorldTypeOK
<1> QED
    BY <1>2, <1>3, <1>4, <1>5, Assemble

\* A step of the index that leaves the chunker alone and takes no version back.
LEMMA WorldStep ==
    ASSUME IInv, UNCHANGED <<chunker, question>>, WorldTypeOK',
           active <= active', ready' => ready
    PROVE  IInv'
<1>1. QuestionTypeOK' /\ HitsInv' /\ CitationsInv' /\ NeverStale' /\ NoHoles'
    BY QuestionUnchanged
<1>2. ChunkingIInv'
    BY ChunkingStep DEF IInv
<1>3. WorldInv'
    <2>1. asked' = asked /\ asked.active <= active /\ (ready => asked.ready)
        BY DEF IInv, WorldInv, question
    <2>2. asked.active \in Int /\ active \in Int /\ active' \in Int
        BY TypeParts DEF IInv, QuestionTypeOK, WorldTypeOK
    <2> QED
        BY <2>1, <2>2 DEF WorldInv
<1> QED
    BY <1>1, <1>2, <1>3, Assemble

\* No step of the index breaks it, whatever the question is at.
LEMMA IndexIInv == IInv /\ Index => IInv'
<1> SUFFICES ASSUME IInv, Index PROVE IInv'
    OBVIOUS
<1>1. /\ served \subseteq Versions /\ active \in 0..MaxVersion
      /\ chunks \in [Versions -> 0..MaxChunks] /\ points \in [Versions -> 0..MaxChunks]
      /\ ready \in BOOLEAN /\ MaxChunks \in Nat /\ MaxVersion \in Nat
    BY TypeParts, QuestionAssumption DEF IInv, WorldTypeOK
<1>2. CASE Cut
    <2>1. UNCHANGED question /\ UNCHANGED world /\ ChunkingNext
        BY <1>2 DEF Cut
    <2>2. ChunkingIInv'
        BY <2>1, ChunkingStep DEF IInv
    <2>3. QuestionTypeOK' /\ HitsInv' /\ CitationsInv' /\ NeverStale' /\ NoHoles'
        BY <2>1, QuestionUnchanged
    <2>4. WorldTypeOK' /\ WorldInv'
        BY <2>1, <1>1 DEF WorldTypeOK, WorldInv, IInv, world, question
    <2> QED
        BY <2>2, <2>3, <2>4, Assemble
<1>3. CASE StoreChunks
    BY <1>3, StoreChunksIInv
<1>4. ASSUME NEW v \in Versions, Upsert(v) PROVE IInv'
    <2>1. /\ points[v] < chunks[v] /\ points' = [points EXCEPT ![v] = @ + 1]
          /\ UNCHANGED <<chunker, question>> /\ UNCHANGED <<served, active, chunks, ready>>
        BY <1>4 DEF Upsert
    <2>2. points[v] + 1 \in 0..MaxChunks
        BY <1>1, <2>1, SMT
    <2>3. WorldTypeOK'
        BY <1>1, <2>1, <2>2 DEF WorldTypeOK
    <2> QED
        BY <1>1, <2>1, <2>3, WorldStep
<1>5. ASSUME NEW v \in Versions, Discard(v) PROVE IInv'
    <2>1. /\ points' = [points EXCEPT ![v] = 0]
          /\ UNCHANGED <<chunker, question>> /\ UNCHANGED <<served, active, chunks, ready>>
        BY <1>5 DEF Discard
    <2>2. WorldTypeOK'
        BY <1>1, <2>1 DEF WorldTypeOK
    <2> QED
        BY <1>1, <2>1, <2>2, WorldStep
<1>6. ASSUME NEW v \in Versions, Publish(v) PROVE IInv'
    <2>1. /\ served' = served \cup {v} /\ active' = IF v > active THEN v ELSE active
          /\ UNCHANGED <<chunker, question>> /\ UNCHANGED <<chunks, points, ready>>
        BY <1>6 DEF Publish, Published!Publish
    <2>2. active' \in 0..MaxVersion /\ active <= active'
        BY <1>1, <2>1, SMT DEF Versions
    <2>3. WorldTypeOK'
        BY <1>1, <2>1, <2>2 DEF WorldTypeOK
    <2> QED
        BY <2>1, <2>2, <2>3, WorldStep
<1>7. CASE DeleteFile
    <2>1. /\ ready /\ ready' = FALSE
          /\ UNCHANGED <<chunker, question>> /\ UNCHANGED <<served, active, chunks, points>>
        BY <1>7 DEF DeleteFile
    <2>2. WorldTypeOK'
        BY <1>1, <2>1 DEF WorldTypeOK
    <2> QED
        BY <1>1, <2>1, <2>2, WorldStep
<1> QED
    BY <1>2, <1>3, <1>4, <1>5, <1>6, <1>7 DEF Index

\* A question starts a search only if the budget leaves room for a context.
LEMMA AskIInv ==
    ASSUME IInv, NEW t \in Queries, NEW o \in Outputs, NEW w \in Widths,
           Ask([tokens |-> t, output |-> o, width |-> w])
    PROVE  IInv'
<1> DEFINE q == [tokens |-> t, output |-> o, width |-> w]
<1>1. /\ stage = "idle" /\ query' = q /\ asked' = [active |-> active, ready |-> ready, read |-> 0]
      /\ stage' \in {"search", "rejected"} /\ (stage' = "search" => Available(q) > 0)
      /\ UNCHANGED <<chunker, world>> /\ UNCHANGED <<found, hits, size, citations, tried>>
    BY DEF Ask, Go
<1>2. hits = <<>> /\ citations = <<>> /\ tried = 0
    BY <1>1 DEF IInv, HitsInv
<1>3. ChunkingIInv' /\ WorldTypeOK'
    BY <1>1, WorldUnchanged
<1>4. QuestionTypeOK'
    <2>1. query' \in [tokens : Queries \cup {0}, output : Outputs \cup {0}, width : Widths \cup {1}]
        BY <1>1
    <2>2. asked' \in [active : 0..MaxVersion, ready : BOOLEAN, read : 0..MaxVersion]
        <3>1. active \in 0..MaxVersion /\ ready \in BOOLEAN
            BY TypeParts DEF IInv, WorldTypeOK
        <3>2. 0 \in 0..MaxVersion
            BY QuestionAssumption
        <3> QED
            BY <1>1, <3>1, <3>2
    <2>3. stage' \in Stages
        BY <1>1 DEF Stages
    <2> QED
        BY <1>1, <2>1, <2>2, <2>3, TypeParts DEF IInv, QuestionTypeOK
<1>5. WorldInv'
    <2>1. active' = active /\ ready' = ready /\ active \in Int
        BY <1>1, TypeParts DEF IInv, WorldTypeOK, world
    <2> QED
        BY <1>1, <2>1 DEF WorldInv
<1>6. HitsInv'
    BY <1>1, <1>2 DEF IInv, HitsInv
<1>7. CitationsInv'
    <2>1. \A cs : Tokens(cs)' = Tokens(cs)
        BY <1>1, TokensUnchanged
    <2>2. Tokens(citations)' = 0
        BY <1>1, <1>2, <2>1, TokensEmpty
    <2>3. Available(query)' = Available(q)
        BY <1>1 DEF Available
    <2>4. stage' \notin {"idle", "rejected"} =>
             Available(query)' > 0 /\ Tokens(citations)' <= Available(query)'
        <3>1. Available(q) \in Int
            BY QuestionAssumption DEF Available
        <3> HIDE DEF q
        <3> QED
            BY <1>1, <2>2, <2>3, <3>1
    <2>5. /\ ToSet(citations) \subseteq {hits[i] : i \in 1..tried}
          /\ citations = Kept(SubSeq(hits, 1, tried), ToSet(citations))
        BY DEF IInv, CitationsInv
    <2>6. \A i \in 1..tried' : FALSE
        BY <1>1, <1>2
    <2> QED
        BY <1>1, <2>4, <2>5, <2>6 DEF CitationsInv
<1>8. NeverStale'
    BY <1>1, <1>2 DEF NeverStale
<1>9. NoHoles'
    BY <1>1 DEF NoHoles
<1> QED
    BY <1>3, <1>4, <1>5, <1>6, <1>7, <1>8, <1>9, Assemble

\* Whatever Qdrant answers, it names no point twice.
LEMMA SearchIInv == IInv /\ Search => IInv'
<1> SUFFICES ASSUME IInv, Search PROVE IInv'
    OBVIOUS
<1>1. /\ stage = "search" /\ stage' = "backfill"
      /\ UNCHANGED <<chunker, world>> /\ UNCHANGED <<query, asked, hits, size, citations, tried>>
    BY DEF Search, Go
<1>2. found' \in Seq(Chunks) /\ Distinct(found')
    <2>1. PICK S \in SUBSET InQdrant : found' \in SetToSeqs(S)
        BY DEF Search
    <2>2. S \in SUBSET Chunks
        BY DEF InQdrant
    <2> QED
        BY <2>1, <2>2, SearchFound
<1>3. ChunkingIInv' /\ WorldTypeOK'
    BY <1>1, WorldUnchanged
<1>4. QuestionTypeOK'
    BY <1>1, <1>2, TypeParts DEF IInv, QuestionTypeOK, Stages
<1>5. WorldInv'
    BY <1>1 DEF IInv, WorldInv, world
<1>6. HitsInv'
    BY <1>1, <1>2 DEF IInv, HitsInv
<1>7. CitationsInv'
    <2>1. \A cs : Tokens(cs)' = Tokens(cs)
        BY <1>1, TokensUnchanged
    <2> QED
        BY <1>1, <2>1 DEF IInv, CitationsInv, Available
<1>8. NeverStale'
    BY <1>1 DEF IInv, NeverStale
<1>9. NoHoles'
    BY <1>1 DEF NoHoles
<1> QED
    BY <1>3, <1>4, <1>5, <1>6, <1>7, <1>8, <1>9, Assemble

\* The hits are of the version active at this moment, and the file is there.
LEMMA BackfillIInv == IInv /\ Backfill => IInv'
<1> SUFFICES ASSUME IInv, Backfill PROVE IInv'
    OBVIOUS
<1>1. /\ stage = "backfill" /\ stage' = "build" /\ size' \in [ToSet(hits') -> Sizes]
      /\ UNCHANGED <<chunker, world>> /\ UNCHANGED <<query, found, citations, tried>>
      /\ asked' = [asked EXCEPT !.read = IF ready THEN active ELSE 0]
    BY DEF Backfill, Reads, Go
<1>2. hits = <<>> /\ citations = <<>> /\ tried = 0 /\ found \in Seq(Chunks) /\ Distinct(found)
    BY <1>1, TypeParts DEF IInv, HitsInv, QuestionTypeOK
<1>3. /\ hits' \in Seq(Chunks) /\ Len(hits') \in 0..TopK /\ Distinct(hits')
      /\ \A i \in 1..Len(hits') : hits'[i] \in ActiveChunks
    BY <1>2, BackfillHits
<1>4. ChunkingIInv' /\ WorldTypeOK'
    BY <1>1, WorldUnchanged
<1>5. QuestionTypeOK'
    <2>1. DOMAIN size' \subseteq Chunks
        <3>1. ToSet(hits') \subseteq Chunks
            BY <1>3, ElementOfSeq DEF ToSet
        <3> QED
            BY <1>1, <3>1
    <2>2. Len(hits') <= TopK /\ 0 \in 0..Len(hits')
        BY <1>3, QuestionAssumption, SMT
    <2>3. /\ citations \in Seq(Chunks)
          /\ query \in [tokens : Queries \cup {0}, output : Outputs \cup {0}, width : Widths \cup {1}]
          /\ asked \in [active : 0..MaxVersion, ready : BOOLEAN, read : 0..MaxVersion]
        BY TypeParts DEF IInv, QuestionTypeOK
    <2>4. asked' \in [active : 0..MaxVersion, ready : BOOLEAN, read : 0..MaxVersion]
        <3>1. active \in 0..MaxVersion /\ 0 \in 0..MaxVersion
            BY QuestionAssumption, TypeParts DEF IInv, WorldTypeOK
        <3> QED
            BY <1>1, <2>3, <3>1
    <2> QED
        BY <1>1, <1>2, <1>3, <2>1, <2>2, <2>3, <2>4 DEF QuestionTypeOK, Stages
<1>6. WorldInv'
    BY <1>1 DEF IInv, WorldInv, world
<1>7. HitsInv'
    BY <1>1, <1>2, <1>3 DEF IInv, HitsInv
<1>8. CitationsInv'
    <2>1. Tokens(citations)' = 0 /\ Tokens(citations) = 0
        <3>1. Tokens(<<>>)' = 0
            <4>1. [i \in 1..Len(<<>>) |-> size'[<<>>[i]] + Label] = <<>>
                OBVIOUS
            <4> QED
                BY <4>1, TotalEmpty DEF Tokens
        <3> QED
            BY <1>1, <1>2, <3>1, TokensEmpty DEF Tokens
    <2>2. Available(query)' = Available(query) /\ Available(query) > 0 /\ Tokens(citations) <= Available(query)
        BY <1>1 DEF IInv, CitationsInv, Available
    <2>3. \A i \in 1..tried' : FALSE
        BY <1>1, <1>2
    <2>4. ToSet(citations') = {}
        BY <1>1, <1>2 DEF ToSet
    <2>5. Kept(SubSeq(hits', 1, tried'), ToSet(citations')) = <<>>
        <3>1. 0 \in 0..Len(hits')
            BY <1>3, SMT
        <3>2. Kept(SubSeq(hits', 1, 0), {}) = Keeps(hits', {})[0]
            BY <1>3, <3>1, KeptPrefix
        <3>3. Keeps(hits', {})[0] = <<>>
            BY <1>3, LenProperties, KeepsDef
        <3> QED
            BY <3>2, <3>3, <1>1, <1>2, <2>4
    <2> QED
        BY <1>1, <1>2, <2>1, <2>2, <2>3, <2>4, <2>5 DEF CitationsInv
<1>9. NeverStale'
    <2> SUFFICES ASSUME NEW i \in 1..Len(hits')
                 PROVE  /\ asked.ready /\ VersionOf(hits'[i]) >= asked.active
                        /\ VersionOf(hits'[i]) = VersionOf(hits'[1])
        BY <1>1 DEF NeverStale
    <2>1. 1 \in 1..Len(hits')
        BY <1>3, SMT
    <2>2. /\ ready /\ VersionOf(hits'[i]) = active /\ VersionOf(hits'[1]) = active
        BY <1>3, <2>1 DEF ActiveChunks
    <2>3. asked.active <= active /\ (ready => asked.ready)
        BY DEF IInv, WorldInv
    <2>4. asked.active \in Int /\ active \in Int
        BY TypeParts DEF IInv, QuestionTypeOK, WorldTypeOK
    <2> QED
        BY <2>2, <2>3, <2>4
<1>10. NoHoles'
    BY <1>2, TypeParts, BackfillNoHoles DEF IInv, QuestionTypeOK
<1> QED
    BY <1>4, <1>5, <1>6, <1>7, <1>8, <1>9, <1>10, Assemble

\* What the citations S of the first n elements of s become with the next one: cited
\* or not.
NextKept(s, n, S) ==
    /\ s[n + 1] \notin S
    /\ Kept(SubSeq(s, 1, n + 1), S) = Kept(SubSeq(s, 1, n), S)
    /\ Kept(SubSeq(s, 1, n + 1), S \cup {s[n + 1]}) = Append(Kept(SubSeq(s, 1, n), S), s[n + 1])
    /\ \A i \in 1..n : /\ s[i] # s[n + 1]
                       /\ Kept(SubSeq(s, 1, i - 1), S \cup {s[n + 1]})
                             = Kept(SubSeq(s, 1, i - 1), S)

\* The elements of a sequence without repetition are kept one after the other.
LEMMA KeptNext ==
    ASSUME NEW A, NEW s \in Seq(A), Distinct(s), NEW n \in 0..(Len(s) - 1),
           NEW S, \A y \in S : \E i \in 1..n : y = s[i]
    PROVE  NextKept(s, n, S)
<1>1. Len(s) \in Nat /\ n \in Nat /\ n \in 0..Len(s) /\ n + 1 \in 0..Len(s) /\ n + 1 \in 1..Len(s)
      /\ (n + 1) - 1 = n
    BY LenProperties, SMT
<1> DEFINE x == s[n + 1]
           R == S \cup {x}
<1>2. \A i \in 1..n : s[i] # x
    <2> TAKE i \in 1..n
    <2>1. i \in 1..Len(s) /\ i # n + 1
        BY <1>1, SMT
    <2> QED
        BY <2>1, <1>1 DEF Distinct
<1>3. x \notin S
    BY <1>2
<1>4. x \in R /\ \A i \in 1..n : s[i] \in S <=> s[i] \in R
    BY <1>2
<1> HIDE DEF x, R
<1>5. \A k \in 0..n : Keeps(s, S)[k] = Keeps(s, R)[k]
    BY <1>1, <1>4, KeepsAgree
<1>6. Keeps(s, S)[n + 1] = Keeps(s, S)[n]
    <2>1. Keeps(s, S)[n + 1] =
             IF s[n + 1] \in S THEN Append(Keeps(s, S)[(n + 1) - 1], s[n + 1])
             ELSE Keeps(s, S)[(n + 1) - 1]
        BY <1>1, KeepsDef
    <2> QED
        BY <2>1, <1>1, <1>3 DEF x
<1>7. Keeps(s, R)[n + 1] = Append(Keeps(s, R)[n], x)
    <2>1. Keeps(s, R)[n + 1] =
             IF s[n + 1] \in R THEN Append(Keeps(s, R)[(n + 1) - 1], s[n + 1])
             ELSE Keeps(s, R)[(n + 1) - 1]
        BY <1>1, KeepsDef
    <2> QED
        BY <2>1, <1>1, <1>4 DEF x
<1>8. /\ Kept(SubSeq(s, 1, n + 1), S) = Keeps(s, S)[n + 1]
      /\ Kept(SubSeq(s, 1, n), S) = Keeps(s, S)[n]
      /\ Kept(SubSeq(s, 1, n + 1), R) = Keeps(s, R)[n + 1]
    BY <1>1, KeptPrefix
<1>9. n \in 0..n
    BY <1>1, SMT
<1>10. Kept(SubSeq(s, 1, n + 1), R) = Append(Kept(SubSeq(s, 1, n), S), x)
    BY <1>5, <1>7, <1>8, <1>9, Zenon
<1>11. \A i \in 1..n : Kept(SubSeq(s, 1, i - 1), R) = Kept(SubSeq(s, 1, i - 1), S)
    <2> TAKE i \in 1..n
    <2> DEFINE k == i - 1
    <2>1. k \in 0..n /\ k \in 0..Len(s)
        BY <1>1, SMT
    <2> HIDE DEF k
    <2>2. Kept(SubSeq(s, 1, k), R) = Keeps(s, R)[k] /\ Kept(SubSeq(s, 1, k), S) = Keeps(s, S)[k]
        BY <2>1, KeptPrefix
    <2>3. Kept(SubSeq(s, 1, k), R) = Kept(SubSeq(s, 1, k), S)
        BY <2>1, <2>2, <1>5, Zenon
    <2> QED
        BY <2>3 DEF k
<1> QED
    BY <1>2, <1>3, <1>6, <1>8, <1>10, <1>11 DEF x, R, NextKept

\* The numbers of a query are integers.
LEMMA QueryInts == QuestionTypeOK => query.tokens \in Int /\ query.output \in Int
<1> SUFFICES ASSUME QuestionTypeOK PROVE query.tokens \in Int /\ query.output \in Int
    OBVIOUS
<1>1. query.tokens \in Queries \cup {0} /\ query.output \in Outputs \cup {0}
    BY DEF QuestionTypeOK
<1>2. Queries \cup {0} \subseteq Int /\ Outputs \cup {0} \subseteq Int
    BY QuestionAssumption
<1> QED
    BY <1>1, <1>2

\* One more hit is looked at: it is cited, or does not fit behind those cited.
LEMMA ConsiderIInv == IInv /\ Consider => IInv'
<1> SUFFICES ASSUME IInv, Consider PROVE IInv'
    OBVIOUS
<1> DEFINE h == hits[tried + 1]
           C == ToSet(citations)
           longer == Append(citations, h)
<1>1. /\ stage = "build" /\ tried < Len(hits) /\ tried' = tried + 1
      /\ citations' = IF Tokens(longer) > Available(query) THEN citations ELSE longer
      /\ UNCHANGED <<chunker, world>> /\ UNCHANGED <<stage, query, asked, found, hits, size>>
    BY DEF Consider
<1>2. /\ hits \in Seq(Chunks) /\ Len(hits) \in Nat /\ tried \in 0..(Len(hits) - 1) /\ Distinct(hits)
      /\ citations \in Seq(Chunks) /\ tried + 1 \in 1..Len(hits)
    <2>1. hits \in Seq(Chunks) /\ tried \in 0..Len(hits) /\ Distinct(hits) /\ citations \in Seq(Chunks)
        BY TypeParts DEF IInv, QuestionTypeOK, HitsInv
    <2> QED
        BY <2>1, <1>1, LenProperties, SMT
<1>3. size \in [ToSet(hits) -> Sizes]
    <2>1. hits # <<>>
        BY <1>2, EmptySeq, SMT
    <2> QED
        BY <2>1 DEF IInv, HitsInv
<1>4. \A cs : Tokens(cs)' = Tokens(cs)
    BY <1>1, TokensUnchanged
<1>5. Available(query)' = Available(query) /\ Available(query) \in Int
    <2>1. query.tokens \in Int /\ query.output \in Int
        BY TypeParts, QueryInts DEF IInv
    <2> QED
        BY <2>1, <1>1, QuestionAssumption DEF Available
<1>6. /\ C \subseteq {hits[i] : i \in 1..tried}
      /\ citations = Kept(SubSeq(hits, 1, tried), C)
      /\ \A i \in 1..tried : hits[i] \notin C =>
           Tokens(Append(Kept(SubSeq(hits, 1, i - 1), C), hits[i])) > Available(query)
      /\ Available(query) > 0 /\ Tokens(citations) <= Available(query)
    BY <1>1 DEF IInv, CitationsInv
<1>7. /\ h \notin C
      /\ Kept(SubSeq(hits, 1, tried + 1), C) = citations
      /\ Kept(SubSeq(hits, 1, tried + 1), C \cup {h}) = longer
      /\ \A i \in 1..tried : /\ hits[i] # h
                             /\ Kept(SubSeq(hits, 1, i - 1), C \cup {h}) = Kept(SubSeq(hits, 1, i - 1), C)
    <2> HIDE DEF C
    <2>1. Len(hits) \in Nat /\ tried \in 0..(Len(hits) - 1) /\ \A y \in C : \E i \in 1..tried : y = hits[i]
        BY <1>2, <1>6
    <2>2. NextKept(hits, tried, C)
        BY <1>2, <2>1, KeptNext
    <2>3. citations = Kept(SubSeq(hits, 1, tried), C)
        BY <1>6
    <2> QED
        BY <2>2, <2>3 DEF NextKept
<1>8. h \in Chunks /\ h \in ToSet(hits) /\ citations \in Seq(ToSet(hits))
    <2>1. h \in Chunks
        BY <1>2, ElementOfSeq
    <2>2. h \in ToSet(hits)
        BY <1>2 DEF ToSet
    <2>3. C \subseteq ToSet(hits)
        <3>1. 1..tried \subseteq 1..Len(hits)
            BY <1>2, SMT
        <3>2. \A i \in 1..Len(hits) : hits[i] \in ToSet(hits)
            BY <1>2, LenProperties DEF ToSet
        <3> HIDE DEF C
        <3> QED
            BY <1>6, <3>1, <3>2
    <2>4. citations \in Seq(ToSet(hits))
        <3>1. \A i \in 1..Len(citations) : citations[i] \in C
            BY <1>2, LenProperties DEF ToSet
        <3>2. \A i \in 1..Len(citations) : citations[i] \in ToSet(hits)
            BY <2>3, <3>1
        <3> QED
            BY <1>2, <3>2
    <2> QED
        BY <2>1, <2>2, <2>4
<1>9. longer \in Seq(Chunks) /\ longer \in Seq(ToSet(hits)) /\ ToSet(longer) = C \cup {h}
    <2> HIDE DEF h
    <2>1. longer \in Seq(Chunks) /\ longer \in Seq(ToSet(hits))
        BY <1>2, <1>8, AppendProperties
    <2>2. /\ Len(longer) = Len(citations) + 1
          /\ \A i \in 1..Len(citations) : longer[i] = citations[i]
          /\ longer[Len(citations) + 1] = h
        BY <1>2, <1>8, AppendProperties
    <2>3. Len(citations) \in Nat
        BY <1>2, LenProperties
    <2> HIDE DEF longer
    <2>4. DOMAIN longer = 1..(Len(citations) + 1) /\ DOMAIN citations = 1..Len(citations)
        BY <2>1, <2>2, <1>2, LenProperties
    <2>5. 1..(Len(citations) + 1) = 1..Len(citations) \cup {Len(citations) + 1}
        BY <2>3, SMT
    <2> QED
        BY <2>1, <2>2, <2>4, <2>5 DEF ToSet
<1> HIDE DEF longer, h, C
<1>10. citations' \in Seq(Chunks) /\ tried' \in 0..Len(hits)
    BY <1>1, <1>2, <1>9, SMT
<1>11. ChunkingIInv' /\ WorldTypeOK'
    BY <1>1, WorldUnchanged
<1>12. QuestionTypeOK'
    BY <1>1, <1>10, TypeParts DEF IInv, QuestionTypeOK
<1>13. WorldInv' /\ NeverStale'
    BY <1>1 DEF IInv, WorldInv, NeverStale, world
<1>14. NoHoles'
    BY <1>1 DEF IInv, NoHoles
<1>15. HitsInv'
    BY <1>1 DEF IInv, HitsInv
\* It is enough to know the citations and the set D of them.
<1>16. ASSUME NEW D, ToSet(citations') = D,
              D \subseteq {hits[i] : i \in 1..(tried + 1)},
              citations' = Kept(SubSeq(hits, 1, tried + 1), D),
              Tokens(citations') <= Available(query),
              \A i \in 1..(tried + 1) : hits[i] \notin D =>
                 Tokens(Append(Kept(SubSeq(hits, 1, i - 1), D), hits[i])) > Available(query)
       PROVE  CitationsInv'
    BY <1>1, <1>4, <1>5, <1>6, <1>16 DEF CitationsInv
<1>17. \A i \in 1..(tried + 1) : i \in 1..tried \/ i = tried + 1
    BY <1>2, SMT
<1>18. /\ {hits[i] : i \in 1..tried} \subseteq {hits[i] : i \in 1..(tried + 1)}
       /\ h \in {hits[i] : i \in 1..(tried + 1)}
    <2>1. 1..tried \subseteq 1..(tried + 1) /\ tried + 1 \in 1..(tried + 1)
        BY <1>2, SMT
    <2> QED
        BY <2>1 DEF h
<1>19. CASE Tokens(longer) > Available(query)
    <2>1. citations' = citations
        BY <1>1, <1>19
    <2>2. \A i \in 1..(tried + 1) : hits[i] \notin C =>
             Tokens(Append(Kept(SubSeq(hits, 1, i - 1), C), hits[i])) > Available(query)
        <3> TAKE i \in 1..(tried + 1)
        <3>1. CASE i \in 1..tried
            BY <3>1, <1>6
        <3>2. CASE i = tried + 1
            <4>1. i - 1 = tried
                BY <3>2, <1>2
            <4>2. Append(Kept(SubSeq(hits, 1, i - 1), C), hits[i]) = longer
                BY <4>1, <3>2, <1>6 DEF longer, h
            <4> QED
                BY <4>2, <1>19
        <3> QED
            BY <3>1, <3>2, <1>17
    <2>3. ToSet(citations') = C
        BY <2>1 DEF C
    <2>4. C \subseteq {hits[i] : i \in 1..(tried + 1)}
        BY <1>6, <1>18
    <2>5. CitationsInv'
        BY <2>1, <2>2, <2>3, <2>4, <1>6, <1>7, <1>16
    <2> QED
        BY <2>5, <1>11, <1>12, <1>13, <1>14, <1>15, Assemble
<1>20. CASE ~(Tokens(longer) > Available(query))
    <2>1. citations' = longer
        BY <1>1, <1>20
    <2>2. Tokens(longer) <= Available(query)
        <3>1. Tokens(longer) \in Nat
            BY <1>3, <1>9, TokensNat
        <3> QED
            BY <3>1, <1>5, <1>20
    <2> DEFINE D == C \cup {h}
    <2>3. ToSet(citations') = D
        BY <2>1, <1>9
    <2>4. D \subseteq {hits[i] : i \in 1..(tried + 1)}
        BY <1>6, <1>18
    <2>5. \A i \in 1..(tried + 1) : hits[i] \notin D =>
             Tokens(Append(Kept(SubSeq(hits, 1, i - 1), D), hits[i])) > Available(query)
        <3> TAKE i \in 1..(tried + 1)
        <3>1. CASE i \in 1..tried
            BY <3>1, <1>6, <1>7
        <3>2. CASE i = tried + 1
            BY <3>2 DEF h
        <3> QED
            BY <3>1, <3>2, <1>17
    <2>6. citations' = Kept(SubSeq(hits, 1, tried + 1), D) /\ Tokens(citations') <= Available(query)
        BY <2>1, <2>2, <1>7
    <2> HIDE DEF D
    <2>7. CitationsInv'
        BY <2>3, <2>4, <2>5, <2>6, <1>16
    <2> QED
        BY <2>7, <1>11, <1>12, <1>13, <1>14, <1>15, Assemble
<1> QED
    BY <1>19, <1>20

\* No step of the question breaks the invariant.
LEMMA QuestionIInv == IInv /\ Question => IInv'
<1> SUFFICES ASSUME IInv, Question PROVE IInv'
    OBVIOUS
<1>1. ASSUME NEW t \in Queries, NEW o \in Outputs, NEW w \in Widths,
             Ask([tokens |-> t, output |-> o, width |-> w])
      PROVE  IInv'
    BY <1>1, AskIInv
<1>2. CASE Break
    <2>1. /\ stage \in {"search", "backfill", "check"} /\ stage' = "failed"
          /\ UNCHANGED <<chunker, world>>
          /\ UNCHANGED <<query, asked, found, hits, size, citations, tried>>
        BY <1>2 DEF Break, Go
    <2> QED
        BY <2>1, StageStep DEF Stages
<1>3. CASE BuildDone
    <2>1. /\ stage = "build" /\ stage' = "check" /\ tried = Len(hits)
          /\ UNCHANGED <<chunker, world>>
          /\ UNCHANGED <<query, asked, found, hits, size, citations, tried>>
        BY <1>3 DEF BuildDone, Go
    <2> QED
        BY <2>1, StageStep DEF Stages
<1>4. CASE Check
    <2>1. /\ stage = "check" /\ stage' \in {"refused", "accepted"}
          /\ UNCHANGED <<chunker, world>>
          /\ UNCHANGED <<query, asked, found, hits, size, citations, tried>>
        BY <1>4 DEF Check, Go
    <2>2. tried = Len(hits)
        BY <2>1 DEF IInv, CitationsInv
    <2> QED
        BY <2>1, <2>2, StageStep DEF Stages
<1> QED
    BY <1>1, <1>2, <1>3, <1>4, SearchIInv, BackfillIInv, ConsiderIInv DEF Question

\* The invariant is inductive.
LEMMA StepIInv == IInv /\ [Next]_vars => IInv'
<1> SUFFICES ASSUME IInv, [Next]_vars PROVE IInv'
    OBVIOUS
<1>1. CASE Next
    BY <1>1, IndexIInv, QuestionIInv DEF Next
<1>2. CASE UNCHANGED vars
    <2>1. UNCHANGED <<chunker, question>> /\ UNCHANGED <<served, active, chunks, points, ready>>
        BY <1>2 DEF vars, world
    <2>2. WorldTypeOK' /\ active <= active'
        BY <2>1, TypeParts, QuestionAssumption DEF IInv, WorldTypeOK
    <2> QED
        BY <2>1, <2>2, WorldStep
<1> QED
    BY <1>1, <1>2

\* From the budget on, what is cited fits the window with all the rest.
LEMMA WithinBudget ==
    ASSUME IInv, stage \notin {"idle", "rejected"}
    PROVE  /\ Tokens(citations) \in Nat /\ query.tokens \in Int /\ query.output \in Int
           /\ Prompt + Tokens(citations) + query.tokens + query.output + Margin <= Window
<1>1. QuestionTypeOK
    BY TypeParts DEF IInv
<1>2. query.tokens \in Int /\ query.output \in Int
    BY <1>1, QueryInts
<1>3. hits \in Seq(Chunks) /\ citations \in Seq(Chunks) /\ tried \in 0..Len(hits)
    BY <1>1 DEF QuestionTypeOK
<1>4. /\ Len(hits) \in Nat /\ DOMAIN hits = 1..Len(hits)
      /\ Len(citations) \in Nat /\ DOMAIN citations = 1..Len(citations)
    BY <1>3, LenProperties
<1>5. \A i \in 1..Len(citations) : citations[i] \in ToSet(citations)
    BY <1>4 DEF ToSet
<1>6. ToSet(citations) \subseteq ToSet(hits)
    <2>1. ToSet(citations) \subseteq {hits[i] : i \in 1..tried}
        BY DEF IInv, CitationsInv
    <2>2. 1..tried \subseteq 1..Len(hits)
        BY <1>3, <1>4, SMT
    <2>3. \A i \in 1..Len(hits) : hits[i] \in ToSet(hits)
        BY <1>4 DEF ToSet
    <2> QED
        BY <2>1, <2>2, <2>3
<1>7. Tokens(citations) \in Nat
    <2>1. CASE hits = <<>>
        <3>1. ToSet(hits) = {}
            BY <2>1 DEF ToSet
        <3>2. Len(citations) = 0
            BY <3>1, <1>4, <1>5, <1>6, SMT
        <3>3. citations = <<>>
            BY <3>2, <1>3, EmptySeq
        <3> QED
            BY <3>3, TokensEmpty
    <2>2. CASE hits # <<>>
        <3>1. size \in [ToSet(hits) -> Sizes]
            BY <2>2 DEF IInv, HitsInv
        <3>2. \A i \in 1..Len(citations) : citations[i] \in ToSet(hits)
            BY <1>5, <1>6
        <3>3. citations \in Seq(ToSet(hits))
            BY <1>3, <3>2
        <3> QED
            BY <3>1, <3>3, TokensNat
    <2> QED
        BY <2>1, <2>2
<1>8. Tokens(citations) <= Window - (Prompt + query.tokens) - query.output - Margin
    <2>1. Tokens(citations) <= Available(query)
        BY DEF IInv, CitationsInv
    <2> QED
        BY <2>1 DEF Available
<1>9. Prompt \in Int /\ Margin \in Int /\ Window \in Int
    BY QuestionAssumption
<1>10. Prompt + Tokens(citations) + query.tokens + query.output + Margin <= Window
    BY <1>2, <1>7, <1>8, <1>9, SMT
<1> QED
    BY <1>2, <1>7, <1>10

\* A context that is built fits, and leaves nothing out that would have fitted.
LEMMA IInvContextFits == IInv => ContextFits
<1> SUFFICES ASSUME IInv, stage \in {"check", "accepted"}
             PROVE  /\ Prompt + Tokens(citations) + query.tokens + query.output + Margin <= Window
                    /\ \A i \in 1..Len(hits) : hits[i] \notin ToSet(citations) =>
                          Tokens(Append(Kept(SubSeq(hits, 1, i - 1), ToSet(citations)), hits[i]))
                             > Available(query)
    BY DEF ContextFits
<1>1. /\ tried = Len(hits)
      /\ \A i \in 1..tried : hits[i] \notin ToSet(citations) =>
           Tokens(Append(Kept(SubSeq(hits, 1, i - 1), ToSet(citations)), hits[i])) > Available(query)
    BY DEF IInv, CitationsInv
<1> QED
    BY <1>1, WithinBudget

-----------------------------------------------------------------------------
(* Progress and refusal *)

\* At most so many steps of the question are left.
StepsLeft ==
    CASE stage = "idle"     -> TopK + 5
      [] stage = "search"   -> TopK + 4
      [] stage = "backfill" -> TopK + 3
      [] stage = "build"    -> Len(hits) - tried + 2
      [] stage = "check"    -> 1
      [] OTHER              -> 0

QuestionAdvances == StepsLeft' < StepsLeft

\* The bytes a text has beyond one for each of its tokens, as the gateway sees it.
ExtraBytes == (query.width - 1) * (Prompt + Tokens(citations) + query.tokens)

\* 20 are what the gateway adds for the messages, their roles and the reply.
RefusedBeyondMargin == stage = "refused" => Margin < 20 + ExtraBytes

RefusedInv == stage = "refused" => Estimate + query.output > Window

\* The steps of the index are none of the question, and the other way round.
LEMMA IndexApart == Index => UNCHANGED question
BY DEF Index, Cut, StoreChunks, Upsert, Discard, Publish, DeleteFile

\* Every step of a question leaves fewer of them.
LEMMA QuestionStepAdvances == IInv /\ Question => QuestionAdvances
<1> SUFFICES ASSUME IInv, Question PROVE QuestionAdvances
    OBVIOUS
<1>1. /\ TopK \in Nat \ {0} /\ Len(hits) \in Nat /\ Len(hits) <= TopK /\ tried \in 0..Len(hits)
      /\ found \in Seq(Chunks) /\ Distinct(found)
    <2>1. QuestionTypeOK
        BY TypeParts DEF IInv
    <2>2. /\ hits \in Seq(Chunks) /\ Len(hits) <= TopK /\ tried \in 0..Len(hits)
          /\ found \in Seq(Chunks)
        BY <2>1 DEF QuestionTypeOK
    <2>3. Len(hits) \in Nat
        BY <2>2, LenProperties
    <2> QED
        BY <2>2, <2>3, QuestionAssumption DEF IInv, HitsInv
<1>2. CASE \E t \in Queries, o \in Outputs, w \in Widths :
              Ask([tokens |-> t, output |-> o, width |-> w])
    <2>1. stage = "idle" /\ stage' \in {"search", "rejected"}
        BY <1>2 DEF Ask, Go
    <2>2. StepsLeft = TopK + 5
        BY <2>1 DEF StepsLeft
    <2>3. StepsLeft' \in {TopK + 4, 0}
        BY <2>1 DEF StepsLeft
    <2> QED
        BY <1>1, <2>2, <2>3 DEF QuestionAdvances
<1>3. CASE Break
    <2>1. stage \in {"search", "backfill", "check"} /\ stage' = "failed"
        BY <1>3 DEF Break, Go
    <2>2. StepsLeft \in {TopK + 4, TopK + 3, 1}
        BY <2>1 DEF StepsLeft
    <2>3. StepsLeft' = 0
        BY <2>1 DEF StepsLeft
    <2> QED
        BY <1>1, <2>2, <2>3 DEF QuestionAdvances
<1>4. CASE Search
    <2>1. stage = "search" /\ stage' = "backfill"
        BY <1>4 DEF Search, Go
    <2>2. StepsLeft = TopK + 4 /\ StepsLeft' = TopK + 3
        BY <2>1 DEF StepsLeft
    <2> QED
        BY <1>1, <2>2 DEF QuestionAdvances
<1>5. CASE Backfill
    <2>1. stage = "backfill" /\ stage' = "build" /\ tried' = tried
        BY <1>5 DEF Backfill, Go
    <2>2. tried = 0
        BY <2>1 DEF IInv, HitsInv
    <2>3. Len(hits') \in 0..TopK
        BY <1>1, <1>5, BackfillHits
    <2>4. StepsLeft = TopK + 3 /\ StepsLeft' = Len(hits') - tried' + 2
        BY <2>1 DEF StepsLeft
    <2> QED
        BY <1>1, <2>1, <2>2, <2>3, <2>4 DEF QuestionAdvances
<1>6. CASE Consider
    <2>1. /\ stage = "build" /\ stage' = "build" /\ tried' = tried + 1 /\ hits' = hits
        BY <1>6 DEF Consider
    <2>2. StepsLeft = Len(hits) - tried + 2 /\ StepsLeft' = Len(hits) - (tried + 1) + 2
        BY <2>1 DEF StepsLeft
    <2> QED
        BY <1>1, <2>2 DEF QuestionAdvances
<1>7. CASE BuildDone
    <2>1. stage = "build" /\ stage' = "check" /\ tried = Len(hits)
        BY <1>7 DEF BuildDone, Go
    <2>2. StepsLeft = Len(hits) - tried + 2 /\ StepsLeft' = 1
        BY <2>1 DEF StepsLeft
    <2> QED
        BY <1>1, <2>1, <2>2 DEF QuestionAdvances
<1>8. CASE Check
    <2>1. stage = "check" /\ stage' \in {"refused", "accepted"}
        BY <1>8 DEF Check, Go
    <2>2. StepsLeft = 1 /\ StepsLeft' = 0
        BY <2>1 DEF StepsLeft
    <2> QED
        BY <2>2 DEF QuestionAdvances
<1> QED
    BY <1>2, <1>3, <1>4, <1>5, <1>6, <1>7, <1>8 DEF Question

\* A question never has more steps before it than it may have hits, and five.
LEMMA StepsBounded == IInv => StepsLeft \in 0..(TopK + 5)
<1> SUFFICES ASSUME IInv PROVE StepsLeft \in 0..(TopK + 5)
    OBVIOUS
<1>1. QuestionTypeOK
    BY TypeParts DEF IInv
<1>2. hits \in Seq(Chunks) /\ Len(hits) <= TopK /\ tried \in 0..Len(hits)
    BY <1>1 DEF QuestionTypeOK
<1>3. Len(hits) \in Nat /\ TopK \in Nat \ {0}
    BY <1>2, LenProperties, QuestionAssumption
<1>4. StepsLeft \in {TopK + 5, TopK + 4, TopK + 3, Len(hits) - tried + 2, 1, 0}
    BY DEF StepsLeft
<1> QED
    BY <1>2, <1>3, <1>4, SMT

\* Only Check refuses, and what it refused stays as it was.
LEMMA RefusedStep == IInv /\ RefusedInv /\ [Next]_vars => RefusedInv'
<1> SUFFICES ASSUME RefusedInv, [Next]_vars, stage' = "refused"
             PROVE  (Estimate + query.output > Window)'
    BY DEF RefusedInv
<1>1. CASE UNCHANGED question
    <2>1. stage = "refused" /\ UNCHANGED <<query, size, citations>>
        BY <1>1 DEF question
    <2>2. Tokens(citations)' = Tokens(citations)
        BY <2>1, TokensUnchanged
    <2> QED
        BY <2>1, <2>2 DEF RefusedInv, Estimate
<1>2. CASE Question
    <2>1. Check
        BY <1>2 DEF Question, Ask, Break, Search, Backfill, Consider, BuildDone, Go
    <2>2. Estimate + query.output > Window /\ UNCHANGED <<query, size, citations>>
        BY <2>1 DEF Check, Go
    <2>3. Tokens(citations)' = Tokens(citations)
        BY <2>2, TokensUnchanged
    <2> QED
        BY <2>2, <2>3 DEF Estimate
<1> QED
    BY <1>1, <1>2, IndexApart DEF Next, vars

\* What is refused although it is within the budget has more bytes than the margin
\* makes up for.
LEMMA RefusedBytes == IInv /\ RefusedInv => RefusedBeyondMargin
<1> SUFFICES ASSUME IInv, RefusedInv, stage = "refused" PROVE Margin < 20 + ExtraBytes
    BY DEF RefusedBeyondMargin
<1> DEFINE input == Prompt + Tokens(citations) + query.tokens
           w == query.width
<1>1. /\ Tokens(citations) \in Nat /\ query.tokens \in Int /\ query.output \in Int
      /\ input + query.output + Margin <= Window
    BY WithinBudget
<1>2. w \in Int
    <2>1. query.width \in Widths \cup {1}
        BY TypeParts DEF IInv, QuestionTypeOK
    <2>2. Widths \cup {1} \subseteq Int
        BY QuestionAssumption
    <2> QED
        BY <2>1, <2>2
<1>3. Prompt \in Int /\ Margin \in Int /\ Window \in Int
    BY QuestionAssumption
<1>4. input \in Int
    BY <1>1, <1>3
<1>5. Estimate = 20 + w * input /\ ExtraBytes = (w - 1) * input
    BY <1>4, <1>2 DEF Estimate, ExtraBytes
<1>6. Estimate + query.output > Window
    BY DEF RefusedInv
<1> HIDE DEF input, w
<1>7. (w - 1) * input = w * input - input
    BY <1>2, <1>4, SMT
<1> QED
    BY <1>1, <1>2, <1>3, <1>4, <1>5, <1>6, <1>7, SMT

-----------------------------------------------------------------------------
(* Theorems *)

\* The invariant always holds.
THEOREM Invariant == Spec => []IInv
BY InitIInv, StepIInv, PTL DEF Spec

\* Every variable keeps its type: in particular the answer has at most top_k hits
\* and the chunks stay within their bound.
THEOREM TypeCorrect == Spec => []TypeOK
<1>1. IInv => TypeOK
    BY DEF IInv
<1> QED
    BY <1>1, Invariant, PTL

\* No chunk of the newest version exceeds the limit (ChunksFit), and the chunks
\* cover the document (ChunksCover), when the chunker is a part of the system and
\* forgets its work once the chunks are stored.
THEOREM ChunksOfTheIndex == Spec => [](ChunksFit /\ ChunksCover)
<1>1. IInv => ChunksFit /\ ChunksCover
    BY ChunkingIInvImplies DEF IInv
<1> QED
    BY <1>1, Invariant, PTL

\* Whatever Qdrant still holds and whatever is published or deleted meanwhile, the
\* hits are of one version that is not older than the one active at the question,
\* of a file that was there (search_knowledge, list_active_chunks_by_ids).
THEOREM AnswerNeverStale == Spec => []NeverStale
<1>1. IInv => NeverStale
    BY DEF IInv
<1> QED
    BY <1>1, Invariant, PTL

\* At most TopK * (Multiplier - 1) stale points push no current chunk out of the
\* hits, for any answer of Qdrant (candidate_limit, search_knowledge).
THEOREM AnswerHasNoHoles == Spec => []NoHoles
<1>1. IInv => NoHoles
    BY DEF IInv
<1> QED
    BY <1>1, Invariant, PTL

\* The context fits the window with the question, the output limit and the margin,
\* and a hit is left out only when it did not fit behind those before it
\* (RAGTokenBudgetCalculator.calculate, ContextBuilder.build).
THEOREM ContextWithinBudget == Spec => []ContextFits
BY IInvContextFits, Invariant, PTL

\* A question ends: each of its steps leaves fewer, of at most TopK + 5, whatever is
\* published, discarded or deleted in between (search_knowledge, ContextBuilder.build).
THEOREM QuestionTerminates ==
    Spec => [](StepsLeft \in 0..(TopK + 5)) /\ [][QuestionAdvances]_question
<1>1. IInv /\ [Next]_vars => [QuestionAdvances]_question
    BY IndexApart, QuestionStepAdvances DEF Next, vars
<1> QED
    BY <1>1, StepsBounded, Invariant, PTL DEF Spec

\* The gateway refuses a context made to fit only if its bytes exceed its tokens by
\* so much that the margin does not make up for it: with one byte for each token and
\* a margin of at least 20 it never does (_estimate_input_tokens_conservatively).
THEOREM RefusalExplained == Spec => []RefusedBeyondMargin
<1>1. Init => RefusedInv
    BY DEF Init, RefusedInv
<1> QED
    BY <1>1, RefusedStep, RefusedBytes, Invariant, PTL DEF Spec

================================================================================
