--------------------------- MODULE QueueTheorems ---------------------------
(* What Append and Remove do to a queue: the proofs about the kernel's       *)
(* queues know no more about sequences than this.  And that a search for the *)
(* first free number finds one.                                              *)
EXTENDS Queues, SequenceTheorems, WellFoundedInduction, TLAPS

(* List::Append puts an element that is not there into a queue without       *)
(* repetitions; the rest stays.                                              *)
LEMMA QueueAppend ==
    ASSUME NEW S, NEW q \in Seq(S), NEW t \in S
    PROVE  /\ Append(q, t) \in Seq(S)
           /\ Append(q, t) # << >>
           /\ \A u \in S : Queued(Append(q, t), u) <=> Queued(q, u) \/ u = t
           /\ Distinct(q) /\ ~Queued(q, t) => Distinct(Append(q, t))
  <1> USE DEF Queued, Distinct
  <1>1. /\ Append(q, t) \in Seq(S)
        /\ Len(Append(q, t)) = Len(q) + 1
        /\ \A i \in 1..Len(q) : Append(q, t)[i] = q[i]
        /\ Append(q, t)[Len(q) + 1] = t
    OBVIOUS
  <1>2. Len(q) \in Nat
    OBVIOUS
  <1> QED
    BY <1>1, <1>2

(* List::Remove takes the head out, and only the head. *)
LEMMA QueueTail ==
    ASSUME NEW S, NEW q \in Seq(S), q # << >>, Distinct(q)
    PROVE  /\ Head(q) \in S
           /\ Tail(q) \in Seq(S)
           /\ Queued(q, Head(q))
           /\ Distinct(Tail(q))
           /\ \A u \in S : Queued(Tail(q), u) <=> Queued(q, u) /\ u # Head(q)
  <1> USE DEF Queued, Distinct
  <1>1. /\ Tail(q) \in Seq(S)
        /\ Len(Tail(q)) = Len(q) - 1
        /\ \A i \in 1..Len(Tail(q)) : Tail(q)[i] = q[i + 1]
        /\ Head(q) = q[1]
        /\ Len(q) \in Nat /\ Len(q) >= 1
    OBVIOUS
  <1>2. Head(q) \in S /\ Queued(q, Head(q))
    BY <1>1
  <1>3. Distinct(Tail(q))
    BY <1>1
  <1>4. ASSUME NEW u \in S
        PROVE  Queued(Tail(q), u) <=> Queued(q, u) /\ u # Head(q)
    <2>1. ASSUME Queued(Tail(q), u)
          PROVE  Queued(q, u) /\ u # Head(q)
      <3>1. PICK i \in 1..Len(Tail(q)) : Tail(q)[i] = u
        BY <2>1
      <3>2. i + 1 \in 1..Len(q) /\ q[i + 1] = u /\ i + 1 # 1
        BY <1>1, <3>1
      <3> QED
        BY <1>1, <3>2
    <2>2. ASSUME Queued(q, u), u # Head(q)
          PROVE  Queued(Tail(q), u)
      <3>1. PICK i \in 1..Len(q) : q[i] = u
        BY <2>2
      <3>2. i - 1 \in 1..Len(Tail(q)) /\ Tail(q)[i - 1] = u
        BY <1>1, <2>2, <3>1
      <3> QED
        BY <3>2
    <2> QED
      BY <2>1, <2>2
  <1> QED
    BY <1>1, <1>2, <1>3, <1>4

(* Nobody is in an empty queue, and a queue with nobody in it is empty. *)
LEMMA QueueEmpty ==
    ASSUME NEW S, NEW q \in Seq(S)
    PROVE  /\ q = << >> <=> \A u \in S : ~Queued(q, u)
           /\ q = << >> => Distinct(q)
  <1> USE DEF Queued, Distinct
  <1>1. Len(q) \in Nat /\ (q = << >> <=> Len(q) = 0)
    OBVIOUS
  <1>2. ASSUME q # << >> PROVE \E u \in S : Queued(q, u)
    <2>1. q[1] \in S /\ 1 \in 1..Len(q)
      BY <1>1, <1>2
    <2> QED
      BY <2>1
  <1> QED
    BY <1>1, <1>2

(* The brackets of a concatenation can be moved. *)
LEMMA Joined ==
    \A S : \A x, y, z \in Seq(S) : x \o (y \o z) = (x \o y) \o z
  <1> TAKE S
  <1> TAKE x, y, z \in Seq(S)
  <1>1. (x \o y) \o z = x \o (y \o z)
    BY ConcatAssociative
  <1> QED
    BY <1>1

(* A set of numbers that is not empty has a least one. *)
LEMMA SmallestMember ==
    ASSUME NEW S \in SUBSET Nat, S # {}
    PROVE  \E x \in S : \A y \in S : x <= y
  <1> DEFINE Less == {p \in Nat \X Nat : p[1] < p[2]}
  <1>1. IsWellFoundedOn(Less, Nat)
    BY NatLessThanWellFounded DEF OpToRel
  <1>2. \A x, y \in Nat : <<y, x>> \in Less <=> y < x
    OBVIOUS
  <1> HIDE DEF Less
  <1>3. \E x \in S : \A y \in S : ~(<<y, x>> \in Less)
    BY <1>1, WFMin
  <1>4. \E x \in S : \A y \in S : x <= y
    <2>1. PICK x \in S : \A y \in S : ~(<<y, x>> \in Less)
      BY <1>3
    <2>2. \A y \in S : ~(y < x) /\ x \in Nat /\ y \in Nat
      BY <1>2, <2>1
    <2>3. \A y \in S : x <= y
      BY <2>2
    <2> QED
      BY <2>3
  <1> QED
    BY <1>4

(* Induction on the natural numbers, for a set. *)
LEMMA SetInduction ==
    ASSUME NEW S \in SUBSET Nat, 0 \in S, \A n \in S : n + 1 \in S
    PROVE  S = Nat
  <1> SUFFICES ASSUME Nat \ S # {} PROVE FALSE
    OBVIOUS
  <1>1. PICK x \in Nat \ S : \A y \in Nat \ S : x <= y
    BY SmallestMember
  <1>2. x # 0 /\ x - 1 \in Nat /\ x - 1 \in S
    BY <1>1
  <1>3. (x - 1) + 1 \in S
    BY <1>2
  <1> QED
    BY <1>1, <1>3

(* The recursion of Filter. *)
Chosen(q, S, g, i) ==
    IF i = 0 THEN << >> ELSE IF q[i] \in S THEN Append(g[i - 1], q[i]) ELSE g[i - 1]

(* The filters of the first elements of q, up to n. *)
IsFilter(q, S, n, g) == g = [i \in 0..n |-> Chosen(q, S, g, i)]

LEMMA FilterExists ==
    ASSUME NEW q, NEW S, NEW n \in Nat
    PROVE  \E g : IsFilter(q, S, n, g)
  <1> DEFINE T == {k \in Nat : \E g : IsFilter(q, S, k, g)}
  <1>1. 0 \in T
    <2>1. IsFilter(q, S, 0, [i \in 0..0 |-> << >>])
      BY DEF IsFilter, Chosen
    <2> QED
      BY <2>1
  <1>2. ASSUME NEW k \in T PROVE k + 1 \in T
    <2>1. PICK g : IsFilter(q, S, k, g)
      OBVIOUS
    <2> DEFINE h == [i \in 0..(k + 1) |-> IF i = k + 1 THEN Chosen(q, S, g, i) ELSE g[i]]
    <2>2. k \in Nat /\ \A i \in 0..k : g[i] = Chosen(q, S, g, i)
      BY <2>1 DEF IsFilter
    <2>3. \A i \in 0..(k + 1) : Chosen(q, S, h, i) = Chosen(q, S, g, i)
      <3>1. \A i \in 0..(k + 1) : i # 0 => h[i - 1] = g[i - 1]
        BY <2>2
      <3> HIDE DEF h
      <3> QED
        BY <3>1 DEF Chosen
    <2>4. \A i \in 0..(k + 1) : h[i] = Chosen(q, S, h, i)
      <3>1. \A i \in 0..(k + 1) : h[i] = Chosen(q, S, g, i)
        <4>1. \A i \in 0..(k + 1) : i = k + 1 \/ i \in 0..k
          BY <2>2
        <4> QED
          BY <2>2, <4>1
      <3> QED
        BY <2>3, <3>1
    <2>5. h = [i \in 0..(k + 1) |-> h[i]]
      OBVIOUS
    <2> HIDE DEF h
    <2>6. IsFilter(q, S, k + 1, h)
      BY <2>4, <2>5 DEF IsFilter
    <2> QED
      BY <2>2, <2>6
  <1> HIDE DEF T
  <1>3. T = Nat
    <2>1. T \in SUBSET Nat
      BY DEF T
    <2> QED
      BY <1>1, <1>2, <2>1, SetInduction
  <1> QED
    BY <1>3 DEF T

(* Two sequences that begin alike have the same filter so far. *)
LEMMA FilterAgrees ==
    ASSUME NEW S, NEW q, NEW r, NEW m \in Nat, NEW n \in Nat, m <= n, NEW g, NEW h,
           IsFilter(q, S, m, g), IsFilter(r, S, n, h),
           \A i \in 1..m : q[i] = r[i]
    PROVE  \A i \in 0..m : g[i] = h[i]
  <1> DEFINE T == {k \in Nat : k <= m => g[k] = h[k]}
  <1>1. /\ \A i \in 0..m : g[i] = Chosen(q, S, g, i)
        /\ \A i \in 0..n : h[i] = Chosen(r, S, h, i)
    BY DEF IsFilter
  <1>2. 0 \in T
    BY <1>1 DEF Chosen
  <1>3. ASSUME NEW k \in T PROVE k + 1 \in T
    <2>1. CASE k + 1 <= m
      <3>1. g[k] = h[k] /\ q[k + 1] = r[k + 1] /\ (k + 1) - 1 = k /\ k + 1 # 0
        BY <2>1
      <3>2. /\ g[k + 1] = Chosen(q, S, g, k + 1)
            /\ h[k + 1] = Chosen(r, S, h, k + 1)
        BY <1>1, <2>1
      <3> QED
        BY <3>1, <3>2 DEF Chosen
    <2>2. CASE ~(k + 1 <= m)
      BY <2>2
    <2> QED
      BY <2>1, <2>2
  <1> HIDE DEF T
  <1>4. T = Nat
    <2>1. T \in SUBSET Nat
      BY DEF T
    <2> QED
      BY <1>2, <1>3, <2>1, SetInduction
  <1> QED
    BY <1>4 DEF T

(* What Filter computes. *)
LEMMA FilterIs ==
    ASSUME NEW A, NEW q \in Seq(A), NEW S
    PROVE  \E g : IsFilter(q, S, Len(q), g) /\ Filter(q, S) = g[Len(q)]
  <1> DEFINE f == CHOOSE g : IsFilter(q, S, Len(q), g)
  <1>1. IsFilter(q, S, Len(q), f)
    BY FilterExists
  <1>2. Filter(q, S) = f[Len(q)]
    BY DEF Filter, IsFilter, Chosen
  <1> QED
    BY <1>1, <1>2

LEMMA FilterEmpty == \A S : Filter(<< >>, S) = << >>
  <1> TAKE S
  <1>1. PICK g : IsFilter(<< >>, S, Len(<< >>), g) /\ Filter(<< >>, S) = g[Len(<< >>)]
    <2>1. << >> \in Seq({})
      OBVIOUS
    <2> QED
      BY <2>1, FilterIs
  <1> QED
    BY <1>1 DEF IsFilter, Chosen

(* What is appended is chosen, or not. *)
LEMMA FilterAppend ==
    ASSUME NEW A, NEW q \in Seq(A), NEW x \in A, NEW S
    PROVE  Filter(Append(q, x), S) = IF x \in S THEN Append(Filter(q, S), x) ELSE Filter(q, S)
  <1> DEFINE r == Append(q, x)
             n == Len(q)
  <1>1. /\ r \in Seq(A) /\ Len(r) = n + 1 /\ r[n + 1] = x /\ n \in Nat
        /\ \A i \in 1..n : q[i] = r[i]
    OBVIOUS
  <1> HIDE DEF r
  <1>2. PICK g : IsFilter(q, S, n, g) /\ Filter(q, S) = g[n]
    BY FilterIs
  <1>3. PICK h : IsFilter(r, S, n + 1, h) /\ Filter(r, S) = h[n + 1]
    BY <1>1, FilterIs
  <1>4. g[n] = h[n]
    <2>1. n <= n + 1 /\ n + 1 \in Nat /\ n \in 0..n
      BY <1>1
    <2>2. \A i \in 0..n : g[i] = h[i]
      BY <1>1, <1>2, <1>3, <2>1, FilterAgrees
    <2> QED
      BY <2>1, <2>2
  <1>5. h[n + 1] = Chosen(r, S, h, n + 1) /\ n + 1 # 0 /\ (n + 1) - 1 = n
    BY <1>1, <1>3 DEF IsFilter
  <1>6. Filter(r, S) = IF x \in S THEN Append(h[n], x) ELSE h[n]
    BY <1>1, <1>3, <1>5 DEF Chosen
  <1> QED
    BY <1>2, <1>4, <1>6 DEF r

LEMMA FilterTyped ==
    ASSUME NEW A, NEW q \in Seq(A), NEW S, NEW g, IsFilter(q, S, Len(q), g)
    PROVE  \A i \in 0..Len(q) : g[i] \in Seq(A)
  <1> DEFINE T == {k \in Nat : k <= Len(q) => g[k] \in Seq(A)}
  <1>1. \A i \in 0..Len(q) : g[i] = Chosen(q, S, g, i)
    BY DEF IsFilter
  <1>2. 0 \in T
    <2>1. 0 \in 0..Len(q) /\ << >> \in Seq(A)
      OBVIOUS
    <2>2. g[0] = << >>
      BY <1>1, <2>1 DEF Chosen
    <2> QED
      BY <2>1, <2>2
  <1>3. ASSUME NEW k \in T PROVE k + 1 \in T
    <2>1. CASE k + 1 <= Len(q)
      <3>1. g[k] \in Seq(A) /\ q[k + 1] \in A /\ (k + 1) - 1 = k /\ k + 1 # 0
        BY <2>1
      <3>2. g[k + 1] = Chosen(q, S, g, k + 1)
        BY <1>1, <2>1
      <3>3. Append(g[k], q[k + 1]) \in Seq(A)
        BY <3>1
      <3>4. g[k + 1] \in Seq(A)
        BY <3>1, <3>2, <3>3 DEF Chosen
      <3> QED
        BY <3>4
    <2>2. CASE ~(k + 1 <= Len(q))
      BY <2>2
    <2> QED
      BY <2>1, <2>2
  <1> HIDE DEF T
  <1>4. T = Nat
    <2>1. T \in SUBSET Nat
      BY DEF T
    <2> QED
      BY <1>2, <1>3, <2>1, SetInduction
  <1> QED
    BY <1>4 DEF T

LEMMA FilterSeq ==
    ASSUME NEW A, NEW q \in Seq(A), NEW S
    PROVE  Filter(q, S) \in Seq(A)
  <1>1. PICK g : IsFilter(q, S, Len(q), g) /\ Filter(q, S) = g[Len(q)]
    BY FilterIs
  <1>2. Len(q) \in 0..Len(q)
    OBVIOUS
  <1>3. \A i \in 0..Len(q) : g[i] \in Seq(A)
    BY <1>1, FilterTyped
  <1> QED
    BY <1>1, <1>2, <1>3

(* The first element is chosen, or not. *)
LEMMA FilterHead ==
    ASSUME NEW A, NEW q \in Seq(A), q # << >>, NEW S
    PROVE  Filter(q, S) = (IF Head(q) \in S THEN <<Head(q)>> ELSE << >>) \o Filter(Tail(q), S)
  <1> DEFINE r   == Tail(q)
             n   == Len(r)
             pre == IF Head(q) \in S THEN <<Head(q)>> ELSE << >>
  <1>1. /\ r \in Seq(A) /\ Len(q) = n + 1 /\ n \in Nat /\ Head(q) = q[1] /\ Head(q) \in A
        /\ \A i \in 1..n : r[i] = q[i + 1]
    OBVIOUS
  <1>2. pre \in Seq(A)
    BY <1>1
  <1>3. pre = IF q[1] \in S THEN <<q[1]>> ELSE << >>
    BY <1>1
  <1> HIDE DEF r, pre
  <1>4. PICK g : IsFilter(q, S, n + 1, g) /\ Filter(q, S) = g[n + 1]
    BY <1>1, FilterIs
  <1>5. PICK h : IsFilter(r, S, n, h) /\ Filter(r, S) = h[n]
    BY <1>1, FilterIs
  <1>6. \A i \in 0..n : h[i] \in Seq(A)
    BY <1>1, <1>5, FilterTyped
  <1>7. /\ \A i \in 0..(n + 1) : g[i] = Chosen(q, S, g, i)
        /\ \A i \in 0..n : h[i] = Chosen(r, S, h, i)
    BY <1>4, <1>5 DEF IsFilter
  <1> DEFINE T == {k \in Nat : k <= n => g[k + 1] = pre \o h[k]}
  <1>8. 0 \in T
    <2>1. h[0] = << >> /\ g[0] = << >>
      BY <1>1, <1>7 DEF Chosen
    <2>2. g[1] = Chosen(q, S, g, 1) /\ 1 # 0 /\ 1 - 1 = 0
      BY <1>1, <1>7
    <2>3. g[1] = IF q[1] \in S THEN Append(<< >>, q[1]) ELSE << >>
      BY <2>1, <2>2 DEF Chosen
    <2>4. g[1] = pre
      BY <1>3, <2>3
    <2>5. pre \o << >> = pre
      BY <1>2
    <2>6. g[0 + 1] = pre \o h[0]
      BY <2>1, <2>4, <2>5
    <2> QED
      BY <2>6
  <1>9. \A s \in Seq(A), x \in A : Append(pre \o s, x) = pre \o Append(s, x)
    <2> TAKE s \in Seq(A), x \in A
    <2> QED
      BY <1>2
  <1>10. ASSUME NEW k \in T PROVE k + 1 \in T
    <2>1. CASE k + 1 <= n
      <3>1. /\ g[k + 1] = pre \o h[k] /\ r[k + 1] = q[(k + 1) + 1] /\ r[k + 1] \in A
            /\ h[k] \in Seq(A)
        BY <1>1, <1>6, <2>1
      <3>2. (k + 1) - 1 = k /\ k + 1 # 0 /\ ((k + 1) + 1) - 1 = k + 1 /\ (k + 1) + 1 # 0
        OBVIOUS
      <3>3. /\ h[k + 1] = Chosen(r, S, h, k + 1)
            /\ g[(k + 1) + 1] = Chosen(q, S, g, (k + 1) + 1)
        BY <1>1, <1>7, <2>1
      <3>4. Append(pre \o h[k], r[k + 1]) = pre \o Append(h[k], r[k + 1])
        BY <1>9, <3>1
      <3>5. g[(k + 1) + 1] = pre \o h[k + 1]
        <4>1. h[k + 1] = IF r[k + 1] \in S THEN Append(h[k], r[k + 1]) ELSE h[k]
          BY <3>2, <3>3 DEF Chosen
        <4>2. g[(k + 1) + 1] = IF r[k + 1] \in S THEN Append(g[k + 1], r[k + 1]) ELSE g[k + 1]
          BY <3>1, <3>2, <3>3 DEF Chosen
        <4> QED
          BY <3>1, <3>4, <4>1, <4>2
      <3> QED
        BY <3>5
    <2>2. CASE ~(k + 1 <= n)
      BY <2>2
    <2> QED
      BY <2>1, <2>2
  <1> HIDE DEF T
  <1>11. T = Nat
    <2>1. T \in SUBSET Nat
      BY DEF T
    <2> QED
      BY <1>8, <1>10, <2>1, SetInduction
  <1>12. g[n + 1] = pre \o h[n]
    <2>1. n \in T /\ n <= n
      BY <1>1, <1>11
    <2> QED
      BY <2>1 DEF T
  <1> QED
    BY <1>4, <1>5, <1>12 DEF r, pre

=============================================================================
