-------------------------- MODULE SourceReadingProofs --------------------------
(***************************************************************************)
(* Proofs about SourceReading, for every set of sources, of policies and   *)
(* every value of the bounds.  The recursive definitions of the stages are *)
(* reasoned about by what they unfold to, and induction is done by the     *)
(* least number for which a claim fails.  First the invariant AInv, which  *)
(* holds whatever the stages compute; then what the adapters, the groups,  *)
(* the hierarchy, the spans, the parts and the annotators compute; and     *)
(* with each the property of the reading that rests on it.                 *)
(***************************************************************************)
EXTENDS SourceReading, FiniteSetTheorems, SequenceTheorems, WellFoundedInduction, TLAPS

-----------------------------------------------------------------------------
(* Numbers, recursion and sequences.                                       *)

\* Every set of natural numbers has a least one: what induction is done with here.
LEMMA LeastNumber ==
  ASSUME NEW T \in SUBSET Nat, T # {}
  PROVE  \E x \in T : \A y \in T : x <= y
<1>1. PICK x \in T : \A y \in T : ~ (<<y, x>> \in OpToRel(<, Nat))
  BY NatLessThanWellFounded, WFMin, Zenon
<1>2. \A y \in T : ~(y < x)
  BY <1>1 DEF OpToRel
<1> QED BY <1>2

\* Induction over the rank of what S holds.
Inherited(S, rank, G) == \A x \in S : (\A y \in S : rank[y] < rank[x] => y \in G) => x \in G

\* What is inherited from all of a lower rank holds of all.
LEMMA RankInduction ==
  ASSUME NEW S, NEW rank \in [S -> Nat], NEW G, Inherited(S, rank, G)
  PROVE  S \subseteq G
<1> DEFINE T == {rank[x] : x \in S \ G}
<1> SUFFICES ASSUME T # {} PROVE FALSE
  OBVIOUS
<1>1. T \in SUBSET Nat
  OBVIOUS
<1>2. PICK x \in S \ G : \A y \in T : rank[x] <= y
  <2> HIDE DEF T
  <2>1. PICK t \in T : \A y \in T : t <= y
    BY <1>1, LeastNumber
  <2> QED BY <2>1 DEF T
<1>3. \A y \in S : rank[y] < rank[x] => y \in G
  <2> SUFFICES ASSUME NEW y \in S, rank[y] < rank[x], y \notin G PROVE FALSE
    OBVIOUS
  <2>1. rank[x] <= rank[y]
    BY <1>2
  <2> QED BY <2>1
<1> QED BY <1>2, <1>3 DEF Inherited

\* f does what step says, as far as the elements of a rank below n.
Follows(S, rank, step, f, n) == \A x \in S : rank[x] < n => f[x] = step[<<x, f>>]

\* What step makes of an element depends on the elements of a lower rank only.
LooksDown(S, V, rank, step) ==
  \A x \in S : \A g, h \in [S -> V] :
    (\A y \in S : rank[y] < rank[x] => g[y] = h[y]) => step[<<x, g>>] = step[<<x, h>>]

\* Two functions that do what step says agree.
LEMMA FollowersAgree ==
  ASSUME NEW S, NEW V, NEW rank \in [S -> Nat], NEW step, LooksDown(S, V, rank, step), NEW n \in Nat,
         NEW f \in [S -> V], Follows(S, rank, step, f, n), NEW g \in [S -> V], Follows(S, rank, step, g, n)
  PROVE  \A x \in S : rank[x] < n => f[x] = g[x]
<1> DEFINE T == {rank[x] : x \in {y \in S : rank[y] < n /\ f[y] # g[y]}}
<1> SUFFICES ASSUME T # {} PROVE FALSE
  OBVIOUS
<1>1. T \in SUBSET Nat
  OBVIOUS
<1>2. PICK x \in S : rank[x] < n /\ f[x] # g[x] /\ \A y \in T : rank[x] <= y
  <2> HIDE DEF T
  <2>1. PICK t \in T : \A y \in T : t <= y
    BY <1>1, LeastNumber
  <2> QED BY <2>1 DEF T
<1>3. \A y \in S : rank[y] < rank[x] => f[y] = g[y]
  BY <1>2
<1>4. step[<<x, f>>] = step[<<x, g>>]
  BY <1>2, <1>3 DEF LooksDown
<1> QED BY <1>2, <1>4 DEF Follows

\* For the elements of a rank below n there is a function that does what step says.
LEMMA FollowerExists ==
  ASSUME NEW S, NEW V, V # {}, NEW rank \in [S -> Nat], NEW step \in [S \X [S -> V] -> V],
         LooksDown(S, V, rank, step), NEW n \in Nat
  PROVE  \E f \in [S -> V] : Follows(S, rank, step, f, n)
<1> DEFINE T == {m \in Nat : ~\E f \in [S -> V] : Follows(S, rank, step, f, m)}
<1> SUFFICES ASSUME T # {} PROVE FALSE
  OBVIOUS
<1>1. PICK m \in T : \A y \in T : m <= y
  <2>1. T \in SUBSET Nat
    OBVIOUS
  <2> HIDE DEF T
  <2> QED BY <2>1, LeastNumber
<1>2. m # 0
  <2> SUFFICES ASSUME m = 0 PROVE FALSE
    OBVIOUS
  <2>1. PICK v \in V : TRUE
    OBVIOUS
  <2>2. Follows(S, rank, step, [x \in S |-> v], 0)
    BY DEF Follows
  <2>3. [x \in S |-> v] \in [S -> V]
    BY <2>1
  <2> QED BY <2>2, <2>3
<1>3. m \in Nat /\ m - 1 \in Nat /\ m - 1 \notin T
  BY <1>1, <1>2
<1>4. PICK f \in [S -> V] : Follows(S, rank, step, f, m - 1)
  BY <1>3
<1> DEFINE g == [x \in S |-> IF rank[x] = m - 1 THEN step[<<x, f>>] ELSE f[x]]
<1>5. g \in [S -> V]
  OBVIOUS
<1>6. Follows(S, rank, step, g, m)
  <2> SUFFICES ASSUME NEW x \in S, rank[x] < m PROVE g[x] = step[<<x, g>>]
    BY DEF Follows
  <2>1. \A y \in S : rank[y] < rank[x] => g[y] = f[y]
    BY <1>3
  <2>2. step[<<x, g>>] = step[<<x, f>>]
    BY <1>5, <2>1 DEF LooksDown
  <2> QED BY <1>3, <1>4, <2>2 DEF Follows
<1> QED BY <1>1, <1>5, <1>6

IsRecursion(S, V, rank, step) ==
  V # {} /\ rank \in [S -> Nat] /\ step \in [S \X [S -> V] -> V] /\ LooksDown(S, V, rank, step)

\* A recursive definition that looks down has a solution.
LEMMA RecursionHasSolution ==
  ASSUME NEW S, NEW V, NEW rank, NEW step, IsRecursion(S, V, rank, step)
  PROVE  \E f \in [S -> V] : \A x \in S : f[x] = step[<<x, f>>]
<1>0. V # {} /\ rank \in [S -> Nat] /\ step \in [S \X [S -> V] -> V] /\ LooksDown(S, V, rank, step)
  BY DEF IsRecursion
<1> DEFINE upTo == [n \in Nat |-> CHOOSE f \in [S -> V] : Follows(S, rank, step, f, n)]
           f == [x \in S |-> upTo[rank[x] + 1][x]]
<1>1. \A n \in Nat : upTo[n] \in [S -> V] /\ Follows(S, rank, step, upTo[n], n)
  BY <1>0, FollowerExists
<1> HIDE DEF upTo
<1>2. f \in [S -> V]
  BY <1>0, <1>1
<1>3. \A x \in S, n \in Nat : rank[x] < n => upTo[n][x] = f[x]
  <2> SUFFICES ASSUME NEW x \in S, NEW n \in Nat, rank[x] < n PROVE upTo[n][x] = f[x]
    OBVIOUS
  <2>1. rank[x] + 1 \in Nat /\ rank[x] + 1 <= n
    BY <1>0
  <2>2. Follows(S, rank, step, upTo[n], rank[x] + 1)
    <3> SUFFICES ASSUME NEW y \in S, rank[y] < rank[x] + 1 PROVE upTo[n][y] = step[<<y, upTo[n]>>]
      BY DEF Follows
    <3>1. rank[y] < n
      BY <1>0, <2>1
    <3> QED BY <1>1, <3>1 DEF Follows
  <2>3. upTo[n] \in [S -> V] /\ upTo[rank[x] + 1] \in [S -> V] /\ Follows(S, rank, step, upTo[rank[x] + 1], rank[x] + 1)
    BY <1>1, <2>1
  <2>4. \A y \in S : rank[y] < rank[x] + 1 => upTo[n][y] = upTo[rank[x] + 1][y]
    BY <1>0, <2>1, <2>2, <2>3, FollowersAgree
  <2> QED BY <1>0, <2>1, <2>4
<1>4. ASSUME NEW x \in S PROVE f[x] = step[<<x, f>>]
  <2>1. rank[x] + 1 \in Nat /\ rank[x] < rank[x] + 1
    BY <1>0
  <2>2. upTo[rank[x] + 1][x] = step[<<x, upTo[rank[x] + 1]>>]
    BY <1>1, <2>1 DEF Follows
  <2>3. \A y \in S : rank[y] < rank[x] => upTo[rank[x] + 1][y] = f[y]
    BY <1>0, <1>3, <2>1
  <2>4. step[<<x, upTo[rank[x] + 1]>>] = step[<<x, f>>]
    <3> HIDE DEF f
    <3> QED BY <1>0, <1>1, <1>2, <2>1, <2>3 DEF LooksDown
  <2> QED BY <2>2, <2>4
<1> QED BY <1>2, <1>4

-----------------------------------------------------------------------------

\* Max of a bounded set of numbers is the greatest of them.
LEMMA GreatestNumber ==
  ASSUME NEW T \in SUBSET Int, T # {}, NEW u \in Int, \A x \in T : x <= u
  PROVE  Max(T) \in T /\ \A y \in T : y <= Max(T)
<1> DEFINE R == {u - x : x \in T}
<1>1. R \in SUBSET Nat /\ R # {}
  <2>1. \A x \in T : u - x \in Nat
    OBVIOUS
  <2> QED BY <2>1
<1>2. PICK r \in R : \A y \in R : r <= y
  <2> HIDE DEF R
  <2> QED BY <1>1, LeastNumber
<1>3. PICK x \in T : r = u - x
  BY <1>2
<1>4. \A y \in T : x >= y
  <2> SUFFICES ASSUME NEW y \in T PROVE x >= y
    OBVIOUS
  <2>1. u - y \in R
    OBVIOUS
  <2>2. r <= u - y
    BY <1>2, <2>1
  <2> QED BY <1>3, <2>2
<1>5. Max(T) \in T /\ \A y \in T : Max(T) >= y
  BY <1>4 DEF Max
<1> QED BY <1>5

\* Min of a bounded set of numbers is the smallest of them.
LEMMA SmallestNumber ==
  ASSUME NEW T \in SUBSET Int, T # {}, NEW u \in Int, \A x \in T : u <= x
  PROVE  Min(T) \in T /\ \A y \in T : Min(T) <= y
<1> DEFINE R == {x - u : x \in T}
<1>1. R \in SUBSET Nat /\ R # {}
  OBVIOUS
<1>2. PICK r \in R : \A y \in R : r <= y
  <2> HIDE DEF R
  <2> QED BY <1>1, LeastNumber
<1>3. PICK x \in T : r = x - u
  BY <1>2
<1>4. \A y \in T : x <= y
  <2> SUFFICES ASSUME NEW y \in T PROVE x <= y
    OBVIOUS
  <2>1. y - u \in R
    OBVIOUS
  <2>2. r <= y - u
    BY <1>2, <2>1
  <2> QED BY <1>3, <2>2
<1>5. Min(T) \in T /\ \A y \in T : Min(T) <= y
  BY <1>4 DEF Min
<1> QED BY <1>5

Inductive(m, n, G) == (m <= n => m \in G) /\ \A i \in m..(n - 1) : i \in G => i + 1 \in G

\* Induction over the numbers of an interval.
LEMMA UpTo ==
  ASSUME NEW m \in Int, NEW n \in Int, NEW G, Inductive(m, n, G)
  PROVE  \A i \in m..n : i \in G
<1> DEFINE T == {k \in Nat : m + k <= n /\ m + k \notin G}
<1> SUFFICES ASSUME T # {} PROVE FALSE
  <2> SUFFICES ASSUME NEW i \in m..n, i \notin G PROVE T # {}
    OBVIOUS
  <2>1. i - m \in T
    <3>1. i - m \in Nat /\ m + (i - m) = i
      OBVIOUS
    <3> QED BY <3>1
  <2> QED BY <2>1
<1>1. PICK k \in T : \A j \in T : k <= j
  <2>1. T \in SUBSET Nat
    OBVIOUS
  <2> HIDE DEF T
  <2> QED BY <2>1, LeastNumber
<1>2. k # 0
  BY <1>1 DEF Inductive
<1>3. k - 1 \in Nat /\ m + (k - 1) <= n /\ k - 1 \notin T
  BY <1>1, <1>2
<1>4. m + (k - 1) \in G /\ m + (k - 1) \in m..(n - 1) /\ m <= n
  BY <1>3
<1>5. (m + (k - 1)) + 1 \in G
  BY <1>4 DEF Inductive
<1>6. (m + (k - 1)) + 1 = m + k
  BY <1>3
<1> QED BY <1>1, <1>5, <1>6

-----------------------------------------------------------------------------

\* FlattenSeq unfolded: the sequences are appended one after the other.
LEMMA Flattening ==
  ASSUME NEW E, NEW seqs \in Seq(Seq(E)), Len(seqs) # 0
  PROVE  \E flat \in [1..Len(seqs) -> Seq(E)] :
           /\ \A i \in 1..Len(seqs) : flat[i] = IF i = 1 THEN seqs[i] ELSE flat[i - 1] \o seqs[i]
           /\ FlattenSeq(seqs) = flat[Len(seqs)]
<1> DEFINE n == Len(seqs)
           S == 1..n
           V == Seq(E)
           rank == [i \in S |-> i]
           step == [p \in S \X [S -> V] |-> IF p[1] = 1 THEN seqs[p[1]] ELSE p[2][p[1] - 1] \o seqs[p[1]]]
<1>0. n \in Nat \ {0}
  OBVIOUS
<1>1. \A i \in S : seqs[i] \in V
  OBVIOUS
<1>2. rank \in [S -> Nat] /\ V # {}
  BY <1>0, <1>1
<1>3. ASSUME NEW i \in S, NEW g \in [S -> V]
      PROVE  /\ step[<<i, g>>] = IF i = 1 THEN seqs[i] ELSE g[i - 1] \o seqs[i]
             /\ step[<<i, g>>] \in V
  <2>1. <<i, g>> \in S \X [S -> V]
    OBVIOUS
  <2>2. i # 1 => i - 1 \in S
    BY <1>0
  <2>3. i # 1 => g[i - 1] \o seqs[i] \in V
    <3> SUFFICES ASSUME i # 1 PROVE g[i - 1] \o seqs[i] \in Seq(E)
      OBVIOUS
    <3>1. g[i - 1] \in Seq(E) /\ seqs[i] \in Seq(E)
      BY <1>1, <2>2
    <3> QED BY <3>1, ConcatProperties
  <2> QED BY <1>1, <2>1, <2>3
<1>4. step \in [S \X [S -> V] -> V]
  <2>1. \A p \in S \X [S -> V] : step[p] \in V
    <3> SUFFICES ASSUME NEW i \in S, NEW g \in [S -> V] PROVE step[<<i, g>>] \in V
      OBVIOUS
    <3> QED BY <1>3
  <2> QED BY <2>1
<1>5. LooksDown(S, V, rank, step)
  <2> SUFFICES ASSUME NEW i \in S, NEW g \in [S -> V], NEW h \in [S -> V],
                      \A j \in S : rank[j] < rank[i] => g[j] = h[j]
               PROVE  step[<<i, g>>] = step[<<i, h>>]
    BY DEF LooksDown
  <2>1. i # 1 => i - 1 \in S /\ rank[i - 1] < rank[i]
    BY <1>0
  <2> QED BY <1>3, <2>1
<1> HIDE DEF step, rank, V, S
<1>6. PICK f \in [S -> V] : \A i \in S : f[i] = step[<<i, f>>]
  <2>1. IsRecursion(S, V, rank, step)
    BY <1>2, <1>4, <1>5 DEF IsRecursion
  <2> QED BY <2>1, RecursionHasSolution
<1>7. \A i \in S : f[i] = IF i = 1 THEN seqs[i] ELSE f[i - 1] \o seqs[i]
  BY <1>3, <1>6
<1> USE DEF S
<1>8. f = [i \in S |-> IF i = 1 THEN seqs[i] ELSE f[i - 1] \o seqs[i]]
  BY <1>7
<1> DEFINE F == CHOOSE flatten : flatten = [i \in 1..Len(seqs) |-> IF i = 1 THEN seqs[i] ELSE flatten[i - 1] \o seqs[i]]
<1>9. F = [i \in S |-> IF i = 1 THEN seqs[i] ELSE F[i - 1] \o seqs[i]]
  BY <1>8
<1>10. FlattenSeq(seqs) = F[n]
  BY DEF FlattenSeq
<1> HIDE DEF F, n
<1>11. \A i \in S : F[i] = IF i = 1 THEN seqs[i] ELSE F[i - 1] \o seqs[i]
  BY <1>9
<1>12. \A i \in S : F[i] \in V
  <2> DEFINE G == {i \in S : F[i] \in V}
  <2>1. 1 \in G
    BY <1>0, <1>1, <1>11
  <2>2. ASSUME NEW i \in 1..(n - 1), i \in G PROVE i + 1 \in G
    <3>1. i + 1 \in S /\ i + 1 # 1 /\ (i + 1) - 1 = i
      BY <1>0
    <3>2. F[i + 1] = F[i] \o seqs[i + 1]
      BY <1>11, <3>1
    <3>3. F[i] \in Seq(E) /\ seqs[i + 1] \in Seq(E)
      BY <1>1, <2>2, <3>1 DEF V
    <3>4. F[i] \o seqs[i + 1] \in Seq(E)
      BY <3>3, ConcatProperties
    <3> QED BY <3>1, <3>2, <3>4 DEF V
  <2> HIDE DEF G
  <2>3. Inductive(1, n, G)
    BY <2>1, <2>2 DEF Inductive
  <2>4. \A i \in 1..n : i \in G
    BY <1>0, <2>3, UpTo
  <2> QED BY <2>4 DEF G
<1>13. F \in [S -> V]
  BY <1>9, <1>12
<1> QED BY <1>10, <1>11, <1>13 DEF n, V

\* What is in two sequences put together is in one of them.
LEMMA ConcatSet ==
  ASSUME NEW E, NEW s \in Seq(E), NEW t \in Seq(E)
  PROVE  ToSet(s \o t) = ToSet(s) \cup ToSet(t)
<1>1. /\ DOMAIN (s \o t) = 1..(Len(s) + Len(t)) /\ DOMAIN s = 1..Len(s) /\ DOMAIN t = 1..Len(t)
      /\ Len(s) \in Nat /\ Len(t) \in Nat
  OBVIOUS
<1>2. \A i \in 1..Len(s) : (s \o t)[i] = s[i]
  OBVIOUS
<1>3. \A i \in 1..Len(t) : (s \o t)[Len(s) + i] = t[i] /\ Len(s) + i \in 1..(Len(s) + Len(t))
  OBVIOUS
<1>4. \A i \in 1..(Len(s) + Len(t)) : i \in 1..Len(s) \/ (i - Len(s) \in 1..Len(t) /\ i = Len(s) + (i - Len(s)))
  BY <1>1
<1>5. ToSet(s) \cup ToSet(t) \subseteq ToSet(s \o t)
  <2>1. ASSUME NEW i \in 1..Len(s) PROVE s[i] \in ToSet(s \o t)
    <3>1. i \in 1..(Len(s) + Len(t)) /\ (s \o t)[i] = s[i]
      BY <1>1, <1>2
    <3> QED BY <1>1, <3>1 DEF ToSet
  <2>2. ASSUME NEW i \in 1..Len(t) PROVE t[i] \in ToSet(s \o t)
    BY <1>1, <1>3 DEF ToSet
  <2> QED BY <1>1, <2>1, <2>2 DEF ToSet
<1>6. ToSet(s \o t) \subseteq ToSet(s) \cup ToSet(t)
  <2> SUFFICES ASSUME NEW i \in 1..(Len(s) + Len(t)) PROVE (s \o t)[i] \in ToSet(s) \cup ToSet(t)
    BY <1>1 DEF ToSet
  <2>1. CASE i \in 1..Len(s)
    BY <1>1, <1>2, <2>1 DEF ToSet
  <2>2. CASE i - Len(s) \in 1..Len(t) /\ i = Len(s) + (i - Len(s))
    BY <1>1, <1>3, <2>2 DEF ToSet
  <2> QED BY <1>4, <2>1, <2>2
<1> QED BY <1>5, <1>6

\* FlattenSeq gives a sequence of what the sequences hold.
LEMMA FlattenedSeq ==
  ASSUME NEW E, NEW seqs \in Seq(Seq(E))
  PROVE  /\ FlattenSeq(seqs) \in Seq(E)
         /\ ToSet(FlattenSeq(seqs)) = UNION {ToSet(seqs[i]) : i \in DOMAIN seqs}
<1>1. CASE Len(seqs) = 0
  BY <1>1 DEF FlattenSeq, ToSet
<1>2. CASE Len(seqs) # 0
  <2>0. Len(seqs) \in Nat \ {0} /\ \A i \in 1..Len(seqs) : seqs[i] \in Seq(E)
    BY <1>2
  <2>1. PICK flat \in [1..Len(seqs) -> Seq(E)] :
          /\ \A i \in 1..Len(seqs) : flat[i] = IF i = 1 THEN seqs[i] ELSE flat[i - 1] \o seqs[i]
          /\ FlattenSeq(seqs) = flat[Len(seqs)]
    BY <1>2, Flattening
  <2> DEFINE So(i) == UNION {ToSet(seqs[j]) : j \in 1..i}
             G == {i \in 1..Len(seqs) : ToSet(flat[i]) = So(i)}
  <2>2. \A i \in 1..Len(seqs) : i \in G
    <3>1. 1 \in G
      <4>1. 1 \in 1..Len(seqs) /\ 1..1 = {1}
        BY <2>0
      <4>2. flat[1] = seqs[1]
        BY <2>1, <4>1
      <4> QED BY <4>1, <4>2
    <3>2. ASSUME NEW i \in 1..(Len(seqs) - 1), i \in G PROVE i + 1 \in G
      <4>1. i + 1 \in 1..Len(seqs) /\ i + 1 # 1 /\ (i + 1) - 1 = i /\ i \in 1..Len(seqs)
        OBVIOUS
      <4>2. flat[i] \in Seq(E) /\ seqs[i + 1] \in Seq(E) /\ flat[i + 1] = flat[i] \o seqs[i + 1]
        BY <2>0, <2>1, <4>1
      <4>3. ToSet(flat[i + 1]) = ToSet(flat[i]) \cup ToSet(seqs[i + 1])
        BY <4>2, ConcatSet
      <4>4. 1..(i + 1) = (1..i) \cup {i + 1}
        OBVIOUS
      <4>5. So(i + 1) = So(i) \cup ToSet(seqs[i + 1])
        BY <4>4
      <4> QED BY <3>2, <4>1, <4>3, <4>5
    <3> HIDE DEF G
    <3>3. Inductive(1, Len(seqs), G)
      BY <3>1, <3>2 DEF Inductive
    <3> QED BY <2>0, <3>3, UpTo
  <2>3. Len(seqs) \in 1..Len(seqs) /\ DOMAIN seqs = 1..Len(seqs)
    BY <1>2
  <2>4. ToSet(FlattenSeq(seqs)) = So(Len(seqs))
    BY <2>1, <2>2, <2>3
  <2> QED BY <2>1, <2>3, <2>4
<1> QED BY <1>1, <1>2

-----------------------------------------------------------------------------
(* The stages of the understanding, and what is known after each of them.  *)

AfterAssembly ==
  {"semantics", "completion", "done", "audited", "reannotated", "projected", "refused", "enriched", "unenriched"}
AfterRelations == AfterAssembly \cup {"quality", "assembly"}
AfterIntegration == AfterRelations \cup {"relations"}
AfterRegions == AfterIntegration \cup {"integration"}
AfterHierarchy == AfterRegions \cup {"regions"}
AfterIntegrity == AfterHierarchy \cup {"hierarchy"}
AfterGrouping == AfterIntegrity \cup {"integrity"}
AfterScoring == AfterGrouping \cup {"grouping"}
AfterSignals == AfterScoring \cup {"boundaries"}
AfterNormalising == AfterSignals \cup {"profiling", "signals"}
Stages == AfterNormalising \cup {"adapting", "normalising", "failed"}
AfterProjection == {"projected", "enriched", "unenriched"}

\* Where the whole was failed, what was found is given up.
Given ==
  /\ source \in Sources
  /\ stage = "adapting" => raw = <<>>
  /\ stage \in {"adapting", "normalising"} => result = Nothing
  /\ stage = "failed" => \E name \in Stages : result = [Nothing EXCEPT !.error = name]

\* Normalised elements are what every stage after works on.
Normal ==
  /\ input.doc = Normalised(raw) /\ input.annotator = source.annotator
  /\ input.regions = source.regions /\ input.extra = source.extra

Grouped == Group(doc, b)

\* What is found stays as it was found.
Found ==
  /\ DOMAIN result = DOMAIN Nothing
  /\ stage \in AfterNormalising => Normal
  /\ stage \in AfterSignals => result.outline = Outline(doc)
  /\ stage \in AfterScoring => b = Boundaries(doc)
  /\ stage \in AfterGrouping => result.subdocuments = Subdocuments(doc, b)
  /\ stage = "integrity" => units = Grouped
  /\ stage \in AfterIntegrity => CrossesNoUnit(Grouped, Spans(doc, b)) /\ SoundGroups(doc, b) /\ units = Consolidate(Grouped, Spans(doc, b))
  /\ hierarchy = IF stage \in AfterHierarchy THEN Hierarchy(doc, result.outline) ELSE None
  /\ stage \in AfterIntegration => result.stored = Integrated(units, hierarchy.paths, result.regions)
  /\ result.relations = IF stage \in AfterRelations THEN Relations(doc, units, result.subdocuments) ELSE {}

\* The document is the one that was assembled, but for what annotators have added.
Kept ==
  stage \in AfterAssembly => result.structural = Assembled /\ KeepsStructure(result.document)

IInv == stage \in Stages /\ Given /\ Found /\ Kept

Indexed ==
  /\ stage \notin AfterProjection => projection = None
  /\ stage \in AfterProjection =>
       /\ Projectable(result.document)
       /\ \E policy \in Policies :
            projection = [Projection(result.document, policy) EXCEPT !.enriched = projection.enriched]
  /\ stage = "enriched" =>
       /\ source.report # None /\ Enrichable
       /\ projection.enriched = Enrichment(source.report, result.document, projection.units)

AInv == IInv /\ Indexed

-----------------------------------------------------------------------------
(* The invariant holds.                                                    *)

\* What the stages are is needed everywhere.
LEMMA StageSets ==
  /\ "failed" \notin AfterNormalising /\ {"adapting", "normalising"} \cap AfterNormalising = {}
  /\ AfterNormalising \subseteq Stages /\ AfterProjection \subseteq AfterAssembly
BY DEF Stages, AfterNormalising, AfterSignals, AfterScoring, AfterGrouping, AfterIntegrity,
       AfterHierarchy, AfterRegions, AfterIntegration, AfterRelations, AfterAssembly, AfterProjection

\* The invariant holds at the beginning.
LEMMA InitInv == ASSUME Init PROVE AInv
BY DEF Init, AInv, IInv, Stages, AfterNormalising, AfterSignals, AfterScoring, AfterGrouping, AfterIntegrity,
       AfterHierarchy, AfterRegions, AfterIntegration, AfterRelations, AfterAssembly, AfterProjection,
       Given, Found, Kept, Indexed, Nothing, b, units, hierarchy

\* To give two fields the values they have changes nothing.
LEMMA SameAgain ==
  ASSUME NEW f, NEW x, NEW y, f = [z \in DOMAIN f |-> f[z]]
  PROVE  [f EXCEPT ![x] = f[x], ![y] = f[y]] = f
OBVIOUS

\* The document is a record.
LEMMA AssembledIsFunction == Assembled = [z \in DOMAIN Assembled |-> Assembled[z]]
BY DEF Assembled

\* A step of a stage: it has found something, or fails.
LEMMA StageKeeps ==
  ASSUME AInv, UNCHANGED <<source, raw, projection>>,
         \/ ProfileContent \/ ExtractSignals \/ ScoreBoundaries \/ BuildGroups \/ ConsolidateIntegrity
         \/ BuildHierarchy \/ FindRegions \/ IntegrateContext \/ BuildRelations \/ EstimateQuality
         \/ AssembleDocument \/ ReportCompletion
  PROVE  AInv'
<1> USE DEF AInv, IInv, Stages, AfterNormalising, AfterSignals, AfterScoring, AfterGrouping, AfterIntegrity,
            AfterHierarchy, AfterRegions, AfterIntegration, AfterRelations, AfterAssembly, AfterProjection, At, Advance
<1>1. ASSUME ProfileContent PROVE AInv'
  BY <1>1 DEF ProfileContent, Given, Found, Kept, Indexed, Nothing, b, units, hierarchy, doc, Normal
<1>12. ASSUME ExtractSignals PROVE AInv'
  BY <1>12 DEF ExtractSignals, Given, Found, Kept, Indexed, Nothing, b, units, hierarchy, doc, Normal
<1>2. ASSUME ScoreBoundaries PROVE AInv'
  BY <1>2 DEF ScoreBoundaries, Given, Found, Kept, Indexed, Nothing, b, units, hierarchy, doc, Normal
<1>3. ASSUME BuildGroups PROVE AInv'
  BY <1>3 DEF BuildGroups, Given, Found, Kept, Indexed, Nothing, b, units, hierarchy, doc, Normal, Grouped
<1>4. ASSUME ConsolidateIntegrity PROVE AInv'
  BY <1>4 DEF ConsolidateIntegrity, Consolidable, Given, Found, Kept, Indexed, Nothing, b, units, hierarchy, doc, Normal, Grouped
<1>5. ASSUME BuildHierarchy PROVE AInv'
  BY <1>5 DEF BuildHierarchy, Given, Found, Kept, Indexed, Nothing, b, units, hierarchy, doc, Normal, Grouped
<1>6. ASSUME FindRegions PROVE AInv'
  BY <1>6 DEF FindRegions, Given, Found, Kept, Indexed, Nothing, b, units, hierarchy, doc, Normal, Grouped
<1>7. ASSUME IntegrateContext PROVE AInv'
  BY <1>7 DEF IntegrateContext, Given, Found, Kept, Indexed, Nothing, b, units, hierarchy, doc, Normal, Grouped
<1>8. ASSUME BuildRelations PROVE AInv'
  BY <1>8 DEF BuildRelations, Given, Found, Kept, Indexed, Nothing, b, units, hierarchy, doc, Normal, Grouped
<1>9. ASSUME EstimateQuality PROVE AInv'
  BY <1>9 DEF EstimateQuality, Given, Found, Kept, Indexed, Nothing, b, units, hierarchy, doc, Normal, Grouped
<1>10. ASSUME AssembleDocument PROVE AInv'
  <2>1. Given' /\ Found' /\ Indexed' /\ stage' \in Stages
    BY <1>10 DEF AssembleDocument, Given, Found, Kept, Indexed, Nothing, b, units, hierarchy, doc, Normal, Grouped
  <2>2. result'.structural = Assembled /\ result'.document = Assembled /\ UNCHANGED Assembled
    BY <1>10 DEF AssembleDocument, Found, Nothing, Assembled, doc, hierarchy
  <2>3. [Assembled EXCEPT !.annotations = <<>>, !.manifest = None] = Assembled
    <3>1. Assembled.annotations = <<>> /\ Assembled.manifest = None
      BY DEF Assembled
    <3>2. [Assembled EXCEPT !["annotations"] = Assembled["annotations"], !["manifest"] = Assembled["manifest"]] = Assembled
      BY SameAgain, AssembledIsFunction, Zenon
    <3> QED BY <3>1, <3>2
  <2>4. Kept'
    BY <2>2, <2>3 DEF Kept, KeepsStructure
  <2> QED BY <2>1, <2>4
<1>11. ASSUME ReportCompletion PROVE AInv'
  <2>1. Given' /\ Found' /\ Indexed' /\ stage' \in Stages
    BY <1>11 DEF ReportCompletion, Given, Found, Kept, Indexed, Nothing, b, units, hierarchy, doc, Normal, Grouped
  <2>2. Kept'
    BY <1>11 DEF ReportCompletion, Found, Nothing, Kept, KeepsStructure, Assembled, doc, hierarchy
  <2> QED BY <2>1, <2>2
<1> QED BY <1>1, <1>2, <1>3, <1>4, <1>5, <1>6, <1>7, <1>8, <1>9, <1>10, <1>11, <1>12

\* An annotator that raises or comes back with a document keeps the invariant.
LEMMA AnnotateKeeps == ASSUME AInv, UNCHANGED <<source, raw, projection>>, Annotate \/ AnnotateFails PROVE AInv'
<1> USE DEF AInv, IInv, Stages, AfterNormalising, AfterSignals, AfterScoring, AfterGrouping, AfterIntegrity,
            AfterHierarchy, AfterRegions, AfterIntegration, AfterRelations, AfterAssembly, AfterProjection, At, Advance
<1>1. CASE Annotate
  <2>1. PICK d : KeepsStructure(d) /\ Advance("completion", [result EXCEPT !.document = d, !.semantic = "COMPLETED"])
    BY <1>1 DEF Annotate
  <2>2. Given' /\ Found' /\ Indexed' /\ stage' \in Stages
    BY <1>1, <2>1 DEF Annotate, Given, Found, Kept, Indexed, Nothing, b, units, hierarchy, doc, Normal, Grouped
  <2>3. Kept'
    BY <1>1, <2>1 DEF Annotate, Found, Nothing, Kept, KeepsStructure, Assembled, doc, hierarchy
  <2> QED BY <2>2, <2>3
<1>2. CASE AnnotateFails /\ input.raise
  <2>1. stage = "semantics" /\ stage' = "failed" /\ result' = [Nothing EXCEPT !.error = "semantics"] /\ UNCHANGED input
    BY <1>2 DEF AnnotateFails
  <2>2. Given' /\ Indexed' /\ Kept' /\ stage' \in Stages
    BY <2>1 DEF Given, Kept, Indexed
  <2>3. Found'
    BY <2>1 DEF Found, Nothing, hierarchy
  <2> QED BY <2>2, <2>3
<1>3. CASE AnnotateFails /\ ~input.raise
  <2>1. Given' /\ Found' /\ Indexed' /\ stage' \in Stages
    BY <1>3 DEF AnnotateFails, Given, Found, Kept, Indexed, Nothing, b, units, hierarchy, doc, Normal, Grouped
  <2>2. Kept'
    BY <1>3 DEF AnnotateFails, Found, Nothing, Kept, KeepsStructure, Assembled, doc, hierarchy
  <2> QED BY <2>1, <2>2
<1> QED BY <1>1, <1>2, <1>3

\* A stage that refuses what it is given keeps the invariant.
LEMMA StageFailsKeeps == ASSUME AInv, UNCHANGED <<source, raw, projection>>, StageFails PROVE AInv'
<1>1. /\ stage \in Stages \ {"failed"} /\ stage' = "failed" /\ result' = [Nothing EXCEPT !.error = stage] /\ UNCHANGED input
      /\ projection = None
  <2>1. stage \notin AfterProjection
    BY DEF StageFails, Accepts, At, AfterProjection
  <2> QED BY <2>1 DEF StageFails, Advance, AInv, IInv, Indexed
<1> USE DEF Stages, AfterNormalising, AfterSignals, AfterScoring, AfterGrouping, AfterIntegrity,
            AfterHierarchy, AfterRegions, AfterIntegration, AfterRelations, AfterAssembly, AfterProjection
<1>2. Given' /\ Indexed' /\ Kept' /\ stage' \in Stages
  BY <1>1 DEF Given, Kept, Indexed, AInv, IInv
<1>3. Found'
  BY <1>1 DEF Found, Nothing, hierarchy
<1> QED BY <1>2, <1>3 DEF AInv, IInv

\* An adapter keeps the invariant.
LEMMA AdaptKeeps == ASSUME AInv, Adapt \/ AdapterFails PROVE AInv'
<1> USE DEF AInv, IInv, Stages, AfterNormalising, AfterSignals, AfterScoring, AfterGrouping, AfterIntegrity,
            AfterHierarchy, AfterRegions, AfterIntegration, AfterRelations, AfterAssembly, AfterProjection
<1>1. CASE Adapt
  BY <1>1 DEF Adapt, Given, Found, Kept, Indexed, Nothing, b, units, hierarchy
<1>2. CASE AdapterFails
  BY <1>2 DEF AdapterFails, Given, Found, Kept, Indexed, Nothing, b, units, hierarchy
<1> QED BY <1>1, <1>2

\* The normaliser keeps the invariant.
LEMMA NormaliseKeeps == ASSUME AInv, Normalise PROVE AInv'
<1> USE DEF AInv, IInv, Stages, AfterNormalising, AfterSignals, AfterScoring, AfterGrouping, AfterIntegrity,
            AfterHierarchy, AfterRegions, AfterIntegration, AfterRelations, AfterAssembly, AfterProjection
<1>1. Given' /\ Kept' /\ Indexed' /\ stage' \in Stages
  BY DEF Normalise, Given, Kept, Indexed
<1>2. Found'
  <2>1. Normal'
    BY DEF Normalise, Normal, Normalised
  <2> QED BY <2>1 DEF Normalise, Given, Found, Nothing, b, units, hierarchy
<1> QED BY <1>1, <1>2

\* After the pipeline has ended nothing that it found is changed.
LEMMA LaterKeeps ==
  ASSUME AInv, UNCHANGED <<source, raw, input>>, stage \in AfterAssembly \ {"semantics", "completion"}, stage' \in AfterAssembly,
         \E d : result' = [result EXCEPT !.document = d] /\ KeepsStructure(d)
  PROVE  Given' /\ Found' /\ Kept' /\ stage' \in Stages
<1> USE DEF AInv, IInv, Stages, AfterNormalising, AfterSignals, AfterScoring, AfterGrouping, AfterIntegrity,
            AfterHierarchy, AfterRegions, AfterIntegration, AfterRelations, AfterAssembly, AfterProjection
<1>1. PICK d : result' = [result EXCEPT !.document = d] /\ KeepsStructure(d)
  OBVIOUS
<1>2. Found' /\ Given'
  BY <1>1 DEF Given, Found, Nothing, b, units, hierarchy, doc, Normal, Grouped
<1>3. Kept'
  BY <1>1 DEF Found, Nothing, Kept, KeepsStructure, Assembled, doc, hierarchy
<1> QED BY <1>2, <1>3

\* The steps after the pipeline keep the invariant.
LEMMA ReadingKeeps ==
  ASSUME AInv, AuditPreservation \/ Reannotate \/ ProjectUnits \/ ProjectionFails \/ EnrichUnits \/ EnrichmentFails
  PROVE  AInv'
<1>0. /\ stage \in AfterAssembly \ {"semantics", "completion"} /\ stage' \in AfterAssembly /\ UNCHANGED <<source, raw, input>>
  BY DEF AuditPreservation, Reannotate, ToProject, ProjectUnits, ProjectionFails, EnrichUnits, EnrichmentFails, AfterAssembly
<1>1. KeepsStructure(result.document) /\ DOMAIN result = DOMAIN Nothing /\ source \in Sources
  BY <1>0 DEF AInv, IInv, Kept, Found, Given
<1>2. CASE Reannotate
  <2>1. PICK d \in {result.document} \cup Returned(result.document, source.again) : result' = [result EXCEPT !.document = d]
    BY <1>2 DEF Reannotate
  <2>2. KeepsStructure(d)
    <3>1. CASE d = result.document
      BY <1>1, <3>1
    <3>2. CASE d \in Returned(result.document, source.again)
      <4>1. PICK answer : d = Annotated(result.document, source.again, answer)
        BY <1>1, <1>2, <3>2, SourcesAssumption DEF Returned, Reannotate
      <4> QED BY <1>1, <4>1 DEF Annotated, KeepsStructure
    <3> QED BY <2>1, <3>1, <3>2
  <2>3. Given' /\ Found' /\ Kept' /\ stage' \in Stages
    BY <1>0, <2>1, <2>2, LaterKeeps
  <2>4. Indexed'
    BY <1>2 DEF Reannotate, AInv, Indexed, AfterProjection
  <2> QED BY <2>3, <2>4 DEF AInv, IInv
<1>3. CASE AuditPreservation \/ ProjectUnits \/ ProjectionFails \/ EnrichUnits \/ EnrichmentFails
  <2>1. result' = result
    BY <1>3 DEF AuditPreservation, ProjectUnits, ProjectionFails, EnrichUnits, EnrichmentFails
  <2>2. Given' /\ Found' /\ Kept' /\ stage' \in Stages
    <3> USE DEF Stages, AfterNormalising, AfterSignals, AfterScoring, AfterGrouping, AfterIntegrity,
                AfterHierarchy, AfterRegions, AfterIntegration, AfterRelations, AfterAssembly
    <3>1. Given' /\ Found'
      BY <1>0, <2>1 DEF AInv, IInv, Given, Found, b, units, hierarchy, doc, Normal, Grouped
    <3>2. Kept'
      BY <1>0, <2>1 DEF AInv, IInv, Kept, KeepsStructure, Assembled, doc, hierarchy
    <3> QED BY <1>0, <3>1, <3>2
  <2>3. Indexed'
    <3>1. CASE AuditPreservation \/ ProjectionFails
      BY <3>1 DEF AuditPreservation, ProjectionFails, ToProject, AInv, Indexed, AfterProjection
    <3>2. CASE ProjectUnits
      <4>1. PICK policy \in Policies : projection' = Projection(result.document, policy)
        BY <3>2 DEF ProjectUnits
      <4>2. projection' = [Projection(result.document, policy) EXCEPT !.enriched = projection'.enriched]
        BY <4>1 DEF Projection
      <4> QED BY <2>1, <3>2, <4>2 DEF ProjectUnits, Indexed, AfterProjection
    <3>3. CASE EnrichUnits
      <4>1. /\ stage = "projected" /\ stage' = "enriched" /\ source.report # None /\ Enrichable
            /\ projection' = [projection EXCEPT !.enriched = Enrichment(source.report, result.document, projection.units)]
        BY <3>3 DEF EnrichUnits
      <4>2. PICK policy \in Policies : projection = [Projection(result.document, policy) EXCEPT !.enriched = projection.enriched]
        BY <4>1 DEF AInv, Indexed, AfterProjection
      <4>3. DOMAIN projection = {"units", "excluded", "unresolved", "blank", "enriched"}
        BY <4>2 DEF Projection
      <4>4. /\ projection'.enriched = Enrichment(source.report, result.document, projection.units)
            /\ projection'.units = projection.units
        BY <4>1, <4>3
      <4>5. projection' = [Projection(result.document, policy) EXCEPT !.enriched = projection'.enriched]
        BY <4>1, <4>2, <4>4
      <4>6. Projectable(result.document) /\ Enrichable'
        BY <1>0, <2>1, <4>1 DEF AInv, Indexed, AfterProjection, Enrichable
      <4> QED BY <1>0, <2>1, <4>1, <4>4, <4>5, <4>6 DEF Indexed, AfterProjection
    <3>4. CASE EnrichmentFails
      BY <2>1, <3>4 DEF EnrichmentFails, AInv, Indexed, AfterProjection
    <3> QED BY <1>3, <3>1, <3>2, <3>3, <3>4
  <2> QED BY <2>2, <2>3 DEF AInv, IInv
<1> QED BY <1>2, <1>3

\* Every step keeps the invariant.
LEMMA NextKeeps == ASSUME AInv, [Next]_readingVars PROVE AInv'
<1>1. ASSUME Understand PROVE AInv'
  BY <1>1, StageKeeps, StageFailsKeeps, AnnotateKeeps DEF Understand, UnderstandElements
<1>2. ASSUME Settled \/ UNCHANGED readingVars PROVE AInv'
  <2>1. UNCHANGED <<source, raw, projection, input, stage, result>>
    BY <1>2 DEF Settled, readingVars
  <2>2. Given' /\ stage' \in Stages
    BY <2>1 DEF AInv, IInv, Given
  <2>3. Found'
    BY <2>1 DEF AInv, IInv, Found, Normal, Grouped, doc, b, units, hierarchy
  <2>4. Kept'
    BY <2>1 DEF AInv, IInv, Kept, KeepsStructure, Assembled, doc, hierarchy
  <2>5. Indexed'
    BY <2>1 DEF AInv, Indexed, Enrichable
  <2> QED BY <2>2, <2>3, <2>4, <2>5 DEF AInv, IInv
<1> QED BY <1>1, <1>2, AdaptKeeps, NormaliseKeeps, ReadingKeeps DEF Next

\* What each stage has found is what its definition says of what the stages before
\* it had found, the document is the one that was assembled but for annotations, and
\* the retrieval units are those of the document: until the reading ends, whatever
\* fails and whoever annotates.
THEOREM Invariance == Spec => []AInv
<1>1. AInv /\ [Next]_readingVars => AInv'
  BY NextKeeps
<1>2. Init => AInv
  BY InitInv
<1> QED BY <1>1, <1>2, PTL DEF Spec

-----------------------------------------------------------------------------
(* What the adapters make are elements.                                    *)

Fields == DOMAIN Plain

\* The fields of an element.
LEMMA PlainFields ==
  Fields = {"type", "source", "blank", "marks", "marker", "level", "style", "seq", "depth", "format", "group",
            "parent", "zone", "part", "sectionBreak", "anchor", "refs", "evidence"}
BY DEF Fields, Plain

\* What an adapter starts from is an element.
LEMMA PlainIsElement == IsElement(Plain)
<1>1. Plain = [f \in DOMAIN Plain |-> Plain[f]]
  BY DEF Plain
<1>2. {Plain.level, Plain.marker} \subseteq Nat /\ Plain.evidence = None
  BY DEF Plain
<1> QED BY <1>1, <1>2 DEF IsElement

\* An element in which a field without a number is changed is an element.
LEMMA FieldChanged ==
  ASSUME NEW e, IsElement(e), NEW f \in Fields \ {"level", "marker", "evidence"}, NEW v
  PROVE  IsElement([e EXCEPT ![f] = v])
BY PlainFields DEF IsElement, Fields

\* An element in which a number is changed to another is an element.
LEMMA NumberChanged ==
  ASSUME NEW e, IsElement(e), NEW f \in {"level", "marker"}, NEW v \in Nat
  PROVE  IsElement([e EXCEPT ![f] = v])
BY PlainFields DEF IsElement, Fields

\* A sequence of elements.
AreElements(elements) == IsSequence(elements) /\ \A e \in ToSet(elements) : IsElement(e)

\* The positions of a sequence.
LEMMA SequenceDomain ==
  ASSUME NEW s, IsSequence(s)
  PROVE  /\ Len(s) \in Nat /\ DOMAIN s = 1..Len(s)
         /\ s = [i \in 1..Len(s) |-> s[i]] /\ \A i \in 1..Len(s) : s[i] \in ToSet(s)
BY DEF IsSequence

\* A sequence of members of E is one.
LEMMA IsSequenceOf == ASSUME NEW E, NEW s \in Seq(E) PROVE IsSequence(s) /\ ToSet(s) \subseteq E
<1>1. Len(s) \in Nat /\ DOMAIN s = 1..Len(s) /\ \A i \in 1..Len(s) : s[i] \in E
  OBVIOUS
<1>2. ToSet(s) = {s[i] : i \in 1..Len(s)}
  BY <1>1 DEF ToSet
<1>3. s \in [1..Len(s) -> ToSet(s)]
  BY <1>1, <1>2
<1>4. s \in Seq(ToSet(s))
  BY <1>1, <1>3
<1> QED BY <1>1, <1>2, <1>4 DEF IsSequence

\* A function from 1 to n is a sequence.
LEMMA IsSequenceTo ==
  ASSUME NEW n \in Nat, NEW s, s = [i \in 1..n |-> s[i]]
  PROVE  IsSequence(s) /\ Len(s) = n /\ ToSet(s) = {s[i] : i \in 1..n}
<1>1. DOMAIN s = 1..n
  BY DEF ToSet
<1>2. ToSet(s) = {s[i] : i \in 1..n}
  BY <1>1 DEF ToSet
<1>3. s \in [1..n -> ToSet(s)]
  BY <1>2
<1> QED BY <1>1, <1>2, <1>3 DEF IsSequence

\* The entries at some positions are a sequence of what stands there.
LEMMA EntriesAreSeq ==
  ASSUME NEW E, NEW s \in Seq(E), NEW T
  PROVE  /\ Entries(s, T) \in Seq(E)
         /\ ToSet(Entries(s, T)) = {s[i] : i \in T \cap DOMAIN s}
<1> DEFINE seqs == [i \in DOMAIN s |-> IF i \in T THEN <<s[i]>> ELSE <<>>]
<1>1. DOMAIN s = 1..Len(s) /\ Len(s) \in Nat /\ \A i \in 1..Len(s) : s[i] \in E
  OBVIOUS
<1>2. \A i \in 1..Len(s) : seqs[i] \in Seq(E) /\ ToSet(seqs[i]) = IF i \in T THEN {s[i]} ELSE {}
  BY <1>1 DEF ToSet
<1>3. seqs \in [1..Len(s) -> Seq(E)]
  BY <1>1, <1>2
<1>4. seqs \in Seq(Seq(E)) /\ DOMAIN seqs = 1..Len(s)
  BY <1>1, <1>3
<1>5. Entries(s, T) = FlattenSeq(seqs)
  BY DEF Entries
<1> HIDE DEF seqs
<1>6. FlattenSeq(seqs) \in Seq(E) /\ ToSet(FlattenSeq(seqs)) = UNION {ToSet(seqs[i]) : i \in DOMAIN seqs}
  BY <1>4, FlattenedSeq
<1>7. UNION {ToSet(seqs[i]) : i \in DOMAIN seqs} = {s[i] : i \in T \cap DOMAIN s}
  BY <1>1, <1>2, <1>4
<1> QED BY <1>5, <1>6, <1>7

-----------------------------------------------------------------------------
(* Text and Markdown.                                                      *)

AreLines(lines) == IsSequence(lines) /\ \A line \in ToSet(lines) : IsLine(line)

\* Each line is one.
LEMMA LineNumbers ==
  ASSUME NEW lines, AreLines(lines), NEW i \in 1..Len(lines)
  PROVE  IsLine(lines[i])
BY SequenceDomain DEF AreLines

\* The body of a text, and what separates its parts, are elements.
LEMMA BodyIsElement == IsElement(BodyElement) /\ \A blank : IsElement(Separator(blank))
<1>1. IsElement(BodyElement)
  <2>1. IsElement([Plain EXCEPT !["zone"] = "body"])
    BY PlainIsElement, PlainFields, FieldChanged
  <2> QED BY <2>1 DEF BodyElement
<1>2. ASSUME NEW blank PROVE IsElement(Separator(blank))
  <2>1. IsElement([BodyElement EXCEPT !["type"] = "SEPARATOR"])
    BY <1>1, PlainFields, FieldChanged
  <2>2. IsElement([[BodyElement EXCEPT !["type"] = "SEPARATOR"] EXCEPT !["blank"] = blank])
    BY <2>1, PlainFields, FieldChanged
  <2> QED BY <2>2 DEF Separator
<1> QED BY <1>1, <1>2

\* A paragraph of lines is an element.
LEMMA TextIsElement ==
  ASSUME NEW lines, AreLines(lines), NEW first \in 1..Len(lines), NEW last
  PROVE  IsElement(InText(lines, first, last))
<1> DEFINE marks == (lines[first].marks \ {"colon"}) \cup (lines[last].marks \cap {"colon"})
           e == [BodyElement EXCEPT !["marker"] = lines[first].marker]
<1>1. IsElement(e)
  <2>1. lines[first].marker \in Nat
    BY LineNumbers DEF IsLine
  <2> QED BY <2>1, BodyIsElement, NumberChanged
<1>2. IsElement([e EXCEPT !["marks"] = marks])
  BY <1>1, PlainFields, FieldChanged
<1> QED BY <1>2 DEF InText

\* The adapter of plain text makes elements.
LEMMA PlainTextAreElements ==
  ASSUME NEW lines, AreLines(lines)
  PROVE  AreElements(PlainTextElements(lines))
<1> DEFINE starts == BlockStarts(lines)
           elements == PlainTextElements(lines)
<1>1. starts \in Seq(1..Len(lines))
  <2> DEFINE numbers == [i \in DOMAIN lines |-> i]
  <2>1. numbers \in Seq(1..Len(lines))
    BY SequenceDomain DEF AreLines
  <2> HIDE DEF numbers
  <2>2. \A T : Entries(numbers, T) \in Seq(1..Len(lines))
    BY <2>1, EntriesAreSeq
  <2> QED BY <2>2 DEF BlockStarts, numbers
<1>2. Len(starts) \in Nat /\ DOMAIN starts = 1..Len(starts) /\ \A k \in 1..Len(starts) : starts[k] \in 1..Len(lines)
  BY <1>1
<1> HIDE DEF starts
<1>3. elements = [k \in 1..Len(starts) |-> elements[k]]
  BY <1>2 DEF PlainTextElements, starts
<1>4. ASSUME NEW k \in 1..Len(starts) PROVE IsElement(elements[k])
  <2>1. \A last : IsElement(InText(lines, starts[k], last))
    BY <1>2, TextIsElement
  <2>2. \E last : elements[k] = IF IsBlankLine(lines[starts[k]]) THEN Separator(TRUE) ELSE InText(lines, starts[k], last)
    BY <1>2 DEF PlainTextElements, starts
  <2> QED BY <2>1, <2>2, BodyIsElement
<1> HIDE DEF elements
<1> QED BY <1>2, <1>3, <1>4, IsSequenceTo DEF AreElements, elements

Kinds == {"blank", "fence", "atx", "break", "item", "quote", "text"}

\* The kinds of lines.
LEMMA KindIsKind == ASSUME NEW line, IsLine(line), NEW list PROVE Kind(line, list) \in Kinds
<1> DEFINE T == {k \in DOMAIN Precedence : Precedence[k] \in line.is}
<1>1. DOMAIN Precedence = 1..6 /\ \A k \in 1..6 : Precedence[k] \in Kinds
  BY DEF Precedence, Kinds
<1>2. CASE line.is # {}
  <2>1. T # {} /\ T \in SUBSET Int /\ \A k \in T : 1 <= k
    BY <1>1, <1>2 DEF IsLine, Precedence
  <2> HIDE DEF T
  <2>2. Min(T) \in T
    BY <2>1, SmallestNumber
  <2>3. Precedence[Min(T)] \in Kinds
    BY <1>1, <2>2 DEF T
  <2> QED BY <1>2, <2>3 DEF Kind, T, Kinds
<1>3. CASE line.is = {}
  BY <1>3 DEF Kind, Kinds
<1> QED BY <1>2, <1>3

\* The extremes of a set in an interval are in it.
LEMMA ExtremeOfInterval ==
  ASSUME NEW i \in Int, NEW n \in Int, NEW T \in SUBSET (i..n), T # {}
  PROVE  Max(T) \in T /\ Min(T) \in T /\ \A k \in T : Min(T) <= k /\ k <= Max(T)
<1>1. T \in SUBSET Int /\ (\A k \in T : k <= n) /\ (\A k \in T : i <= k)
  OBVIOUS
<1> QED BY <1>1, GreatestNumber, SmallestNumber

\* A block of Markdown ends where it begins or later, inside the text.
LEMMA LastLineIsLater ==
  ASSUME NEW lines, AreLines(lines), NEW i \in 1..Len(lines), NEW kind \in Kinds
  PROVE  LastLine(lines, i, kind) \in i..Len(lines)
<1> DEFINE n == Len(lines)
<1>0. n \in Nat /\ i \in 1..n /\ i \in Int
  BY SequenceDomain DEF AreLines
<1> HIDE DEF n
<1>1. ASSUME NEW T \in SUBSET (i..n), T # {} PROVE Max(T) \in i..n /\ Min(T) \in i..n
  <2>1. n \in Int
    BY <1>0
  <2> QED BY <1>0, <1>1, <2>1, ExtremeOfInterval
<1>2. ASSUME NEW T PROVE Max({j \in i..n : \A k \in (i + 1)..j : k \in T}) \in i..n
  <2>1. i \in {j \in i..n : \A k \in (i + 1)..j : k \in T}
    BY <1>0
  <2> QED BY <1>1, <2>1
<1>3. CASE kind = "blank"
  <2>1. LastLine(lines, i, kind) = Max({j \in i..n : \A k \in (i + 1)..j : k \in {l \in (i + 1)..n : IsBlankLine(lines[l])}})
    <3>1. {j \in i..n : \A k \in (i + 1)..j : k \in {l \in (i + 1)..n : IsBlankLine(lines[l])}}
            = {j \in i..n : \A k \in (i + 1)..j : IsBlankLine(lines[k])}
      BY <1>0
    <3> QED BY <1>3, <3>1 DEF LastLine, Through, n
  <2> QED BY <1>2, <2>1 DEF n
<1>4. CASE kind = "item" \/ (kind = "text" /\ Underlines(lines, i) = {})
  <2>1. LastLine(lines, i, kind) = Max({j \in i..n : \A k \in (i + 1)..j : k \in {l \in (i + 1)..n : lines[l].is = {}}})
    <3>1. {j \in i..n : \A k \in (i + 1)..j : k \in {l \in (i + 1)..n : lines[l].is = {}}}
            = {j \in i..n : \A k \in (i + 1)..j : lines[k].is = {}}
      BY <1>0
    <3> QED BY <1>4, <3>1 DEF LastLine, Through, n
  <2> QED BY <1>2, <2>1 DEF n
<1>5. CASE kind = "quote"
  <2>1. LastLine(lines, i, kind) = Max({j \in i..n : \A k \in (i + 1)..j : k \in {l \in (i + 1)..n : "quote" \in lines[l].is}})
    <3>1. {j \in i..n : \A k \in (i + 1)..j : k \in {l \in (i + 1)..n : "quote" \in lines[l].is}}
            = {j \in i..n : \A k \in (i + 1)..j : "quote" \in lines[k].is}
      BY <1>0
    <3> QED BY <1>5, <3>1 DEF LastLine, Through, n
  <2> QED BY <1>2, <2>1 DEF n
<1>6. CASE kind \in {"atx", "break"}
  BY <1>0, <1>6 DEF LastLine, n
<1>7. CASE kind = "fence"
  <2> DEFINE closing == {j \in (i + 1)..n : Closes(lines[j], lines[i])}
  <2>1. LastLine(lines, i, kind) = IF closing = {} THEN n ELSE Min(closing)
    BY <1>7 DEF LastLine, n
  <2>2. closing \in SUBSET (i..n)
    BY <1>0
  <2> HIDE DEF closing
  <2> QED BY <1>0, <1>1, <2>1, <2>2 DEF n
<1>8. CASE kind = "text" /\ Underlines(lines, i) # {}
  <2>1. Underlines(lines, i) \in SUBSET (i..n)
    BY <1>0 DEF Underlines, n
  <2>2. LastLine(lines, i, kind) = Min(Underlines(lines, i))
    BY <1>8 DEF LastLine
  <2> QED BY <1>1, <1>8, <2>1, <2>2 DEF n
<1> QED BY <1>3, <1>4, <1>5, <1>6, <1>7, <1>8 DEF Kinds

BlockSet(n) == [first : 1..n, last : 1..n, kind : Kinds, list : 0..n]

\* The blocks of Markdown are ranges of lines.
LEMMA BlocksAreBlocks ==
  ASSUME NEW lines, AreLines(lines)
  PROVE  MarkdownBlocks(lines) \in Seq(BlockSet(Len(lines)))
<1> DEFINE n == Len(lines)
           S == (1..(n + 1)) \X (0..n)
           V == Seq(BlockSet(n))
           kind(at) == Kind(lines[at[1]], at[2])
           start(at) == IF kind(at) # "item" THEN 0 ELSE IF at[2] # 0 THEN at[2] ELSE at[1]
           last(at) == LastLine(lines, at[1], kind(at))
           Ranged(at) == <<[first |-> at[1], last |-> last(at), kind |-> kind(at), list |-> start(at)]>>
           After(at) == <<last(at) + 1, start(at)>>
           rank == [at \in S |-> n + 1 - at[1]]
           step == [p \in S \X [S -> V] |-> IF p[1][1] > n THEN <<>> ELSE Ranged(p[1]) \o p[2][After(p[1])]]
<1>0. n \in Nat
  BY SequenceDomain DEF AreLines
<1>1. ASSUME NEW at \in S, ~(at[1] > n)
      PROVE  Ranged(at) \in V /\ After(at) \in S /\ rank[After(at)] < rank[at]
  <2>0. at[1] \in 1..n /\ at[2] \in 0..n
    BY <1>0, <1>1
  <2>1. kind(at) \in Kinds
    BY <2>0, KindIsKind, LineNumbers
  <2>2. last(at) \in at[1]..n
    BY <2>0, <2>1, LastLineIsLater
  <2>3. start(at) \in 0..n
    BY <1>0, <2>0
  <2> HIDE DEF last, start, kind
  <2>4. [first |-> at[1], last |-> last(at), kind |-> kind(at), list |-> start(at)] \in BlockSet(n)
    BY <1>0, <2>0, <2>1, <2>2, <2>3 DEF BlockSet
  <2> QED BY <1>0, <2>0, <2>2, <2>3, <2>4
<1>2. rank \in [S -> Nat] /\ V # {}
  <2>1. <<>> \in V
    OBVIOUS
  <2>2. \A at \in S : n + 1 - at[1] \in Nat
    BY <1>0
  <2> QED BY <2>1, <2>2
<1> HIDE DEF n, S, rank, Ranged, After
<1>3. ASSUME NEW at \in S, NEW g \in [S -> V]
      PROVE  /\ step[<<at, g>>] = IF at[1] > n THEN <<>> ELSE Ranged(at) \o g[After(at)]
             /\ step[<<at, g>>] \in V
  <2>1. step[<<at, g>>] = IF at[1] > n THEN <<>> ELSE Ranged(at) \o g[After(at)]
    OBVIOUS
  <2>2. CASE at[1] > n
    BY <2>1, <2>2
  <2>3. CASE ~(at[1] > n)
    <3>1. Ranged(at) \in Seq(BlockSet(n)) /\ g[After(at)] \in Seq(BlockSet(n))
      BY <1>1, <2>3
    <3>2. Ranged(at) \o g[After(at)] \in Seq(BlockSet(n))
      BY <3>1, ConcatProperties
    <3> QED BY <2>1, <2>3, <3>2
  <2> QED BY <2>1, <2>2, <2>3
<1>4. step \in [S \X [S -> V] -> V]
  <2>1. \A p \in S \X [S -> V] : step[p] \in V
    <3> SUFFICES ASSUME NEW at \in S, NEW g \in [S -> V] PROVE step[<<at, g>>] \in V
      OBVIOUS
    <3> QED BY <1>3
  <2> QED BY <2>1
<1> HIDE DEF step
<1>5. LooksDown(S, V, rank, step)
  <2> SUFFICES ASSUME NEW at \in S, NEW g \in [S -> V], NEW h \in [S -> V],
                      \A y \in S : rank[y] < rank[at] => g[y] = h[y]
               PROVE  step[<<at, g>>] = step[<<at, h>>]
    BY DEF LooksDown
  <2>1. ~(at[1] > n) => g[After(at)] = h[After(at)]
    BY <1>1
  <2> QED BY <1>3, <2>1
<1>6. PICK f \in [S -> V] : \A x \in S : f[x] = step[<<x, f>>]
  <2>1. IsRecursion(S, V, rank, step)
    BY <1>2, <1>4, <1>5 DEF IsRecursion
  <2> HIDE DEF V
  <2> QED BY <2>1, RecursionHasSolution
<1> DEFINE Unfolds(F) == F = [at \in S |-> IF at[1] > n THEN <<>> ELSE Ranged(at) \o F[After(at)]]
           From == CHOOSE F : Unfolds(F)
<1>7. Unfolds(f)
  <2>1. f = [at \in S |-> f[at]]
    BY <1>6
  <2>2. \A at \in S : f[at] = IF at[1] > n THEN <<>> ELSE Ranged(at) \o f[After(at)]
    BY <1>3, <1>6
  <2> QED BY <2>1, <2>2
<1>8. Unfolds(From)
  BY <1>7
<1>9. MarkdownBlocks(lines) = From[<<1, 0>>]
  BY DEF MarkdownBlocks, n, S, Ranged, After
<1> HIDE DEF From, Unfolds
<1>10. \A at \in S : From[at] = IF at[1] > n THEN <<>> ELSE Ranged(at) \o From[After(at)]
  BY <1>8 DEF Unfolds
<1> DEFINE G == {at \in S : From[at] \in V}
<1>11. Inherited(S, rank, G)
  <2> SUFFICES ASSUME NEW at \in S, \A y \in S : rank[y] < rank[at] => y \in G PROVE From[at] \in V
    BY DEF Inherited
  <2>1. CASE at[1] > n
    <3>1. From[at] = <<>>
      BY <1>10, <2>1
    <3> QED BY <3>1
  <2>2. CASE ~(at[1] > n)
    <3>1. Ranged(at) \in Seq(BlockSet(n)) /\ From[After(at)] \in Seq(BlockSet(n))
      BY <1>1, <2>2
    <3>2. Ranged(at) \o From[After(at)] \in Seq(BlockSet(n))
      BY <3>1, ConcatProperties
    <3> QED BY <1>10, <2>2, <3>2
  <2> QED BY <2>1, <2>2
<1>12. <<1, 0>> \in S
  BY <1>0 DEF S
<1> HIDE DEF G
<1>13. <<1, 0>> \in G
  BY <1>2, <1>11, <1>12, RankInduction
<1> QED BY <1>9, <1>13 DEF G, n

\* The adapter of Markdown makes elements.
LEMMA MarkdownAreElements ==
  ASSUME NEW lines, AreLines(lines)
  PROVE  AreElements(MarkdownElements(lines))
<1> DEFINE blocks == MarkdownBlocks(lines)
           elements == MarkdownElements(lines)
<1>1. Len(blocks) \in Nat /\ DOMAIN blocks = 1..Len(blocks) /\ \A k \in 1..Len(blocks) : blocks[k] \in BlockSet(Len(lines))
  <2>1. blocks \in Seq(BlockSet(Len(lines)))
    BY BlocksAreBlocks
  <2> HIDE DEF blocks
  <2> QED BY <2>1
<1>2. elements = [k \in 1..Len(blocks) |-> FromMarkdown(lines, blocks[k])]
  BY <1>1 DEF MarkdownElements
<1> HIDE DEF blocks, elements
<1>3. ASSUME NEW block \in BlockSet(Len(lines)) PROVE IsElement(FromMarkdown(lines, block))
  <2> DEFINE line == lines[block.first]
             text == InText(lines, block.first, block.last)
             underlines == Underlines(lines, block.first)
  <2>1. block.first \in 1..Len(lines) /\ block.kind \in Kinds
    BY DEF BlockSet
  <2>2. IsElement(text) /\ IsLine(line)
    BY <2>1, TextIsElement, LineNumbers
  <2>3. ASSUME NEW e, IsElement(e), NEW level \in Nat PROVE IsElement([e EXCEPT !["type"] = "HEADING", !["level"] = level])
    <3>1. IsElement([e EXCEPT !["type"] = "HEADING"])
      BY <2>3, PlainFields, FieldChanged
    <3>2. IsElement([[e EXCEPT !["type"] = "HEADING"] EXCEPT !["level"] = level])
      BY <3>1, NumberChanged
    <3> QED BY <3>2
  <2> HIDE DEF text, line, underlines
  <2>4. CASE block.kind \in {"blank", "break", "quote"}
    BY <2>4, BodyIsElement DEF FromMarkdown
  <2>5. CASE block.kind = "fence"
    <3>1. IsElement([BodyElement EXCEPT !["type"] = "CODE"])
      BY BodyIsElement, PlainFields, FieldChanged
    <3> QED BY <2>5, <3>1 DEF FromMarkdown
  <2>6. CASE block.kind = "atx"
    <3>1. IsElement([BodyElement EXCEPT !["type"] = "HEADING", !["level"] = line.level])
      BY <2>2, <2>3, BodyIsElement DEF IsLine
    <3> QED BY <2>6, <3>1 DEF FromMarkdown, line
  <2>7. CASE block.kind = "item"
    <3>1. IsElement([text EXCEPT !["type"] = "LIST_ITEM"])
      BY <2>2, PlainFields, FieldChanged
    <3>2. IsElement([[text EXCEPT !["type"] = "LIST_ITEM"] EXCEPT !["group"] = <<"list", block.list>>])
      BY <3>1, PlainFields, FieldChanged
    <3> QED BY <2>7, <3>2 DEF FromMarkdown, text
  <2>8. CASE block.kind = "text" /\ underlines = {}
    BY <2>2, <2>8 DEF FromMarkdown, text, underlines
  <2>9. CASE block.kind = "text" /\ underlines # {}
    <3>1. Min(underlines) \in underlines /\ underlines \subseteq 1..Len(lines)
      <4>1. underlines \in SUBSET ((block.first + 1)..Len(lines)) /\ Len(lines) \in Nat
        BY SequenceDomain DEF underlines, Underlines, AreLines
      <4>2. block.first + 1 \in Int /\ Len(lines) \in Int /\ (block.first + 1)..Len(lines) \subseteq 1..Len(lines)
        BY <2>1, <4>1
      <4> QED BY <2>9, <4>1, <4>2, ExtremeOfInterval
    <3>2. lines[Min(underlines)].setext \in Nat
      BY <3>1, LineNumbers DEF IsLine
    <3>3. IsElement([text EXCEPT !["type"] = "HEADING", !["level"] = lines[Min(underlines)].setext])
      BY <2>2, <2>3, <3>2
    <3> QED BY <2>9, <3>3 DEF FromMarkdown, text, underlines
  <2> QED BY <2>1, <2>4, <2>5, <2>6, <2>7, <2>8, <2>9 DEF Kinds
<1>4. \A k \in 1..Len(blocks) : IsElement(elements[k])
  BY <1>1, <1>2, <1>3
<1> QED BY <1>1, <1>2, <1>4, IsSequenceTo DEF AreElements, elements

-----------------------------------------------------------------------------
(* Recursions that go up one by one.                                       *)

IsIteration(n, V, base, step) == n \in Nat /\ base \in V /\ step \in [(1..n) \X V -> V]

\* A recursion that goes up one by one has a solution.
LEMMA IterationExists ==
  ASSUME NEW n, NEW V, NEW base, NEW step, IsIteration(n, V, base, step)
  PROVE  \E f \in [0..n -> V] : f[0] = base /\ \A k \in 1..n : f[k] = step[<<k, f[k - 1]>>]
<1> DEFINE S == 0..n
           rank == [k \in S |-> k]
           all == [p \in S \X [S -> V] |-> IF p[1] = 0 THEN base ELSE step[<<p[1], p[2][p[1] - 1]>>]]
<1>0. n \in Nat /\ base \in V /\ step \in [(1..n) \X V -> V]
  BY DEF IsIteration
<1>1. ASSUME NEW k \in S, NEW g \in [S -> V]
      PROVE  all[<<k, g>>] = (IF k = 0 THEN base ELSE step[<<k, g[k - 1]>>]) /\ all[<<k, g>>] \in V
  <2>1. k # 0 => k \in 1..n /\ k - 1 \in S
    BY <1>0
  <2>2. k # 0 => step[<<k, g[k - 1]>>] \in V
    BY <1>0, <2>1
  <2> QED BY <1>0, <2>2
<1>2. all \in [S \X [S -> V] -> V]
  <2>1. \A p \in S \X [S -> V] : all[p] \in V
    <3> SUFFICES ASSUME NEW k \in S, NEW g \in [S -> V] PROVE all[<<k, g>>] \in V
      OBVIOUS
    <3> QED BY <1>1
  <2> QED BY <2>1
<1> HIDE DEF all
<1>3. LooksDown(S, V, rank, all)
  <2> SUFFICES ASSUME NEW k \in S, NEW g \in [S -> V], NEW h \in [S -> V],
                      \A y \in S : rank[y] < rank[k] => g[y] = h[y]
               PROVE  all[<<k, g>>] = all[<<k, h>>]
    BY DEF LooksDown
  <2>1. CASE k = 0
    BY <1>1, <2>1
  <2>2. CASE k # 0
    <3>1. k - 1 \in S /\ rank[k - 1] < rank[k]
      BY <1>0, <2>2
    <3>2. g[k - 1] = h[k - 1]
      BY <3>1
    <3>3. all[<<k, g>>] = step[<<k, g[k - 1]>>] /\ all[<<k, h>>] = step[<<k, h[k - 1]>>]
      BY <1>1, <2>2
    <3> QED BY <3>2, <3>3
  <2> QED BY <2>1, <2>2
<1>4. rank \in [S -> Nat]
  BY <1>0
<1> HIDE DEF rank, S
<1>5. PICK f \in [S -> V] : \A k \in S : f[k] = all[<<k, f>>]
  <2>1. IsRecursion(S, V, rank, all)
    BY <1>0, <1>2, <1>3, <1>4 DEF IsRecursion
  <2> QED BY <2>1, RecursionHasSolution
<1>6. f[0] = base /\ \A k \in 1..n : f[k] = step[<<k, f[k - 1]>>]
  <2>1. 0 \in S /\ \A k \in 1..n : k \in S /\ k # 0
    BY <1>0 DEF S
  <2>2. \A k \in S : all[<<k, f>>] = IF k = 0 THEN base ELSE step[<<k, f[k - 1]>>]
    BY <1>1
  <2> QED BY <1>5, <2>1, <2>2
<1> QED BY <1>5, <1>6 DEF S

-----------------------------------------------------------------------------
(* Word documents.                                                         *)

\* A style that is resolved has numbers.
IsResolved(style) ==
  /\ style.outline \in Nat \cup {None}
  /\ Heads(style.name) => style.name[2] \in Nat

AreStyles(styles) ==
  /\ IsSequence(styles)
  /\ \A style \in ToSet(styles) : IsResolved(style)

\* The styles a style is based on are numbered by their distance.
LEMMA LineageDomain ==
  ASSUME NEW styles, AreStyles(styles), NEW id
  PROVE  DOMAIN Lineage(styles, id) \subseteq Nat
<1> DEFINE ids == StyleIds(styles)
           n == Cardinality(ids)
           V == {id, None} \cup {Merged(styles, i).base : i \in ids}
           step == [p \in (1..n) \X V |-> IF p[2] \notin ids THEN None ELSE Merged(styles, p[2]).base]
           Unfolds(F) == F = [k \in 0..n |-> IF k = 0 THEN id ELSE IF F[k - 1] \notin ids THEN None ELSE Merged(styles, F[k - 1]).base]
<1>1. n \in Nat
  <2>1. IsFiniteSet(DOMAIN styles)
    <3>1. Len(styles) \in Nat /\ DOMAIN styles = 1..Len(styles)
      BY SequenceDomain DEF AreStyles
    <3>2. 1 \in Int /\ Len(styles) \in Int
      BY <3>1
    <3> HIDE DEF AreStyles
    <3> QED BY <3>1, <3>2, FS_Interval
  <2>2. IsFiniteSet({styles[i].id : i \in DOMAIN styles})
    <3> DEFINE of == [i \in DOMAIN styles |-> styles[i].id]
               said == {styles[i].id : i \in DOMAIN styles}
    <3>1. of \in Surjection(DOMAIN styles, said)
      BY DEF Surjection
    <3> HIDE DEF of, said
    <3>2. IsFiniteSet(said)
      BY <2>1, <3>1, FS_Surjection
    <3> QED BY <3>2 DEF said
  <2> QED BY <2>2, FS_CardinalityType DEF StyleIds
<1> HIDE DEF ids, n
<1>2. step \in [(1..n) \X V -> V] /\ id \in V
  OBVIOUS
<1>3. PICK f \in [0..n -> V] : f[0] = id /\ \A k \in 1..n : f[k] = step[<<k, f[k - 1]>>]
  <2>1. IsIteration(n, V, id, step)
    BY <1>1, <1>2 DEF IsIteration
  <2> HIDE DEF step, V
  <2>2. \E g \in [0..n -> V] : g[0] = id /\ \A k \in 1..n : g[k] = step[<<k, g[k - 1]>>]
    BY <2>1, IterationExists
  <2> QED BY <2>2
<1>4. Unfolds(f)
  <2>1. ASSUME NEW k \in 1..n PROVE f[k] = IF f[k - 1] \notin ids THEN None ELSE Merged(styles, f[k - 1]).base
    <3>1. f[k - 1] \in V
      BY <1>1, <1>3
    <3> HIDE DEF V
    <3> QED BY <1>3, <3>1
  <2>2. f = [k \in 0..n |-> f[k]]
    BY <1>3
  <2>3. \A k \in 0..n : k = 0 \/ k \in 1..n
    BY <1>1
  <2> HIDE DEF step, V
  <2> QED BY <1>3, <2>1, <2>2, <2>3
<1> DEFINE Next0 == CHOOSE F : Unfolds(F)
<1>5. Unfolds(Next0)
  BY <1>4
<1>6. Lineage(styles, id) = Next0
  BY DEF Lineage, n, ids
<1> HIDE DEF Next0
<1>7. DOMAIN Next0 = 0..n
  BY <1>5
<1> QED BY <1>1, <1>6, <1>7

\* A style resolved along what it is based on has numbers, also when styles are based on
\* each other in a circle.
LEMMA StylesResolve ==
  ASSUME NEW styles, AreStyles(styles), NEW id
  PROVE  IsResolved(Resolve(styles, id))
<1>1. ASSUME NEW i \in DOMAIN styles
      PROVE  styles[i].outline \in Nat \cup {None} /\ (Heads(styles[i].name) => styles[i].name[2] \in Nat)
  BY SequenceDomain DEF AreStyles, IsResolved
<1>2. ASSUME NEW i
      PROVE  /\ Merged(styles, i).outline \in Nat \cup {None}
             /\ Heads(Merged(styles, i).name) => Merged(styles, i).name[2] \in Nat
  <2>1. \A v \in Said(styles, i, "outline") : v \in Nat \cup {None}
    BY <1>1 DEF Said
  <2>2. The(Said(styles, i, "outline")) \in Nat \cup {None}
    BY <2>1 DEF The, Held
  <2> DEFINE named == {j \in DOMAIN styles : styles[j].id = i /\ styles[j].name # None}
  <2>3. ASSUME named # {} PROVE Max(named) \in DOMAIN styles
    <3>1. named \in SUBSET (1..Len(styles)) /\ Len(styles) \in Int /\ 1 \in Int
      BY SequenceDomain DEF AreStyles
    <3> HIDE DEF named
    <3>2. Max(named) \in named
      BY <2>3, <3>1, ExtremeOfInterval
    <3> QED BY <3>2 DEF named
  <2>4. Merged(styles, i).name = IF named = {} THEN None ELSE styles[Max(named)].name
    BY DEF Merged
  <2>5. Merged(styles, i).outline = The(Said(styles, i, "outline"))
    BY DEF Merged
  <2> HIDE DEF named
  <2> QED BY <1>1, <2>2, <2>3, <2>4, <2>5 DEF Heads
<1> DEFINE lineage == Lineage(styles, id)
           chain == [k \in {j \in DOMAIN lineage : lineage[j] \in StyleIds(styles)} |-> Merged(styles, lineage[k])]
           Saying(of) == {k \in DOMAIN chain : chain[k][of] # None}
<1>3. ASSUME NEW of, Saying(of) # {} PROVE Min(Saying(of)) \in DOMAIN chain
  <2>1. Saying(of) \in SUBSET Int /\ \A k \in Saying(of) : 0 <= k
    BY LineageDomain
  <2>2. Min(Saying(of)) \in Saying(of)
    <3> HIDE DEF Saying
    <3> QED BY <1>3, <2>1, SmallestNumber
  <2> QED BY <2>2
<1>4. /\ Resolve(styles, id).name = IF Saying("name") = {} THEN None ELSE chain[Min(Saying("name"))]["name"]
      /\ Resolve(styles, id).outline = IF Saying("outline") = {} THEN None ELSE chain[Min(Saying("outline"))]["outline"]
  BY DEF Resolve
<1>5. \A k \in DOMAIN chain : chain[k] = Merged(styles, lineage[k])
  OBVIOUS
<1> HIDE DEF chain, Saying, lineage
<1> QED BY <1>2, <1>3, <1>4, <1>5 DEF IsResolved, Heads

\* No element, and one.
LEMMA NoneOrOne == AreElements(<<>>) /\ \A e : IsElement(e) => AreElements(<<e>>)
BY DEF AreElements, IsSequence, ToSet

\* Elements, and elements after them, are elements.
LEMMA Joining ==
  ASSUME NEW s, AreElements(s), NEW t, AreElements(t)
  PROVE  AreElements(s \o t)
<1> DEFINE E == ToSet(s) \cup ToSet(t)
<1>1. s \in Seq(E) /\ t \in Seq(E) /\ \A e \in E : IsElement(e)
  BY DEF AreElements, IsSequence
<1> HIDE DEF E
<1>2. s \o t \in Seq(E)
  BY <1>1
<1> QED BY <1>1, <1>2, IsSequenceOf DEF AreElements

\* Elements laid one after the other are elements.
LEMMA Laying ==
  ASSUME NEW n \in Nat, NEW seqs, seqs = [i \in 1..n |-> seqs[i]], \A i \in 1..n : AreElements(seqs[i])
  PROVE  AreElements(FlattenSeq(seqs))
<1> DEFINE E == UNION {ToSet(seqs[i]) : i \in 1..n}
<1>1. \A i \in 1..n : seqs[i] \in Seq(E)
  <2> SUFFICES ASSUME NEW i \in 1..n PROVE seqs[i] \in Seq(E)
    OBVIOUS
  <2>1. seqs[i] \in Seq(ToSet(seqs[i])) /\ ToSet(seqs[i]) \subseteq E
    BY DEF AreElements, IsSequence
  <2> HIDE DEF E
  <2> QED BY <2>1
<1>2. \A e \in E : IsElement(e)
  BY DEF AreElements
<1> HIDE DEF E
<1>3. seqs \in Seq(Seq(E))
  BY <1>1
<1>4. FlattenSeq(seqs) \in Seq(E)
  BY <1>3, FlattenedSeq
<1> QED BY <1>2, <1>4, IsSequenceOf DEF AreElements

\* What stands for a place in a part is an element.
LEMMA ZonedAreElements ==
  ASSUME NEW part
  PROVE  /\ IsElement(InPart(part)) /\ InPart(part) = [f \in Fields |-> InPart(part)[f]]
         /\ InPart(part).level = 0 /\ InPart(part).marker = 0 /\ InPart(part).evidence = None
         /\ InPart(part).type = "PARAGRAPH"
         /\ \A type : IsElement(Silent(part, type))
         /\ IsElement(SectionSeparator(part))
<1>1. IsElement(InPart(part)) /\ InPart(part).level = 0 /\ InPart(part).marker = 0 /\ InPart(part).evidence = None
      /\ InPart(part).type = "PARAGRAPH"
  <2>1. IsElement([[Plain EXCEPT !["zone"] = part.zone] EXCEPT !["part"] = part.name])
    <3>1. IsElement([Plain EXCEPT !["zone"] = part.zone])
      BY PlainIsElement, PlainFields, FieldChanged
    <3> QED BY <3>1, PlainFields, FieldChanged
  <2>2. InPart(part).level = 0 /\ InPart(part).marker = 0 /\ InPart(part).evidence = None /\ InPart(part).type = "PARAGRAPH"
    BY DEF InPart, Plain
  <2> QED BY <2>1, <2>2 DEF InPart
<1>2. ASSUME NEW type PROVE IsElement(Silent(part, type))
  <2>1. IsElement([InPart(part) EXCEPT !["type"] = type])
    BY <1>1, PlainFields, FieldChanged
  <2>2. IsElement([[InPart(part) EXCEPT !["type"] = type] EXCEPT !["blank"] = TRUE])
    BY <2>1, PlainFields, FieldChanged
  <2> QED BY <2>2 DEF Silent
<1>3. IsElement(SectionSeparator(part))
  <2>1. IsElement([Silent(part, "SEPARATOR") EXCEPT !["sectionBreak"] = TRUE])
    BY <1>2, PlainFields, FieldChanged
  <2> QED BY <2>1 DEF SectionSeparator
<1> QED BY <1>1, <1>2, <1>3 DEF IsElement, Fields

\* What stands in a table is an element.
LEMMA InTableIsElement ==
  ASSUME NEW nodes, NEW part, NEW t, NEW n, NEW type
  PROVE  IsElement(InTable(nodes, part, t, n, type))
<1> DEFINE zoned == InPart(part)
           e == InTable(nodes, part, t, n, type)
<1>1. zoned = [f \in Fields |-> zoned[f]] /\ zoned.level = 0 /\ zoned.marker = 0 /\ zoned.evidence = None
  BY ZonedAreElements
<1>2. PICK g, p, bl, ma : e = [zoned EXCEPT !.type = type, !.group = g, !.parent = p, !.blank = bl, !.marks = ma]
  BY DEF InTable
<1> HIDE DEF zoned, e
<1>3. e = [f \in Fields |-> e[f]] /\ e.level = zoned.level /\ e.marker = zoned.marker /\ e.evidence = zoned.evidence
  BY <1>1, <1>2, PlainFields
<1>4. IsElement(e)
  BY <1>1, <1>3 DEF IsElement, Fields
<1> QED BY <1>4 DEF e

\* A paragraph of Word is an element, whatever its style.
LEMMA ParagraphIsElement ==
  ASSUME NEW package, NEW part, NEW style, IsResolved(style),
         NEW p, p.outline \in Nat \cup {None}, p.marker \in Nat
  PROVE  IsElement(Paragraph(package, part, style, p))
<1> DEFINE level == HeadingLevel(style, p)
           numbering == EffectiveNumbering(style, p)
           zoned == InPart(part)
           text == [zoned EXCEPT !.blank = p.blank, !.marks = p.marks, !.marker = p.marker,
                                 !.style = p.look, !.refs = p.refs]
           observed == WithNumbering(text, package.lists, numbering)
           formed == Formed(package, part, style, p)
<1>1. level \in Nat
  BY DEF HeadingLevel, IsResolved
<1>2. zoned = [f \in Fields |-> zoned[f]] /\ zoned.level = 0 /\ zoned.marker = 0 /\ zoned.evidence = None
  BY ZonedAreElements
<1> HIDE DEF zoned, level
<1>3. IsElement(text) /\ text.level = 0
  <2>1. text = [f \in Fields |-> text[f]] /\ text.level = 0 /\ text.marker = p.marker /\ text.evidence = None
    BY <1>2, PlainFields
  <2> QED BY <2>1 DEF IsElement, Fields
<1> HIDE DEF text
<1>4. IsElement(observed)
  <2>1. ASSUME NEW f, NEW g, NEW h
        PROVE  IsElement([text EXCEPT !.seq = f, !.depth = g, !.format = h])
    <3> DEFINE e == [text EXCEPT !.seq = f, !.depth = g, !.format = h]
    <3>1. text = [x \in Fields |-> text[x]] /\ {text.level, text.marker} \subseteq Nat /\ (text.evidence # None => text.evidence.page \in Nat)
      BY <1>3 DEF IsElement, Fields
    <3>2. e = [x \in Fields |-> e[x]] /\ e.level = text.level /\ e.marker = text.marker /\ e.evidence = text.evidence
      BY <3>1, PlainFields
    <3> HIDE DEF e
    <3>3. IsElement(e)
      BY <3>1, <3>2 DEF IsElement, Fields
    <3> QED BY <3>3 DEF e
  <2> HIDE DEF numbering
  <2> QED BY <1>3, <2>1 DEF WithNumbering
<1> HIDE DEF observed
<1>5. \A type : IsElement([observed EXCEPT !.type = type])
  <2> SUFFICES ASSUME NEW type PROVE IsElement([observed EXCEPT !["type"] = type])
    OBVIOUS
  <2> QED BY <1>4, PlainFields, FieldChanged
<1>6. IsElement([observed EXCEPT !.type = "HEADING", !.level = level])
  <2>1. IsElement([[observed EXCEPT !["type"] = "HEADING"] EXCEPT !["level"] = level])
    <3>1. IsElement([observed EXCEPT !["type"] = "HEADING"])
      BY <1>5
    <3> QED BY <1>1, <3>1, NumberChanged
  <2> QED BY <2>1
<1>7. IsElement(formed)
  <2>1. \/ formed = [observed EXCEPT !.type = "HEADING", !.level = level]
        \/ formed = observed
        \/ formed = [observed EXCEPT !.type = "LIST_ITEM"] \/ formed = [observed EXCEPT !.type = "FORMULA"]
    BY DEF Formed, observed, text, level, numbering, zoned
  <2> QED BY <1>4, <1>5, <1>6, <2>1
<1> HIDE DEF formed
<1>8. IsElement([formed EXCEPT !.type = "PARAGRAPH", !.level = 0])
  <2>1. IsElement([[formed EXCEPT !["type"] = "PARAGRAPH"] EXCEPT !["level"] = 0])
    <3>1. IsElement([formed EXCEPT !["type"] = "PARAGRAPH"])
      BY <1>7, PlainFields, FieldChanged
    <3> QED BY <3>1, NumberChanged
  <2> QED BY <2>1
<1>9. \A bl : IsElement([formed EXCEPT !.blank = bl])
  <2> SUFFICES ASSUME NEW bl PROVE IsElement([formed EXCEPT !["blank"] = bl])
    OBVIOUS
  <2> QED BY <1>7, PlainFields, FieldChanged
<1>10. Paragraph(package, part, style, p) \in {formed, [formed EXCEPT !.type = "PARAGRAPH", !.level = 0], [formed EXCEPT !.blank = (p.math = "empty")]}
  BY DEF Paragraph, formed
<1> QED BY <1>7, <1>8, <1>9, <1>10

\* The nodes of a part: each stands in one before it.
AreNodes(nodes) == IsSequence(nodes) /\ \A n \in DOMAIN nodes : nodes[n].up \in 0..(n - 1)

\* The nodes around a node are the one it stands in, and those around that.
LEMMA AroundUnfolds ==
  ASSUME NEW nodes, AreNodes(nodes)
  PROVE  /\ Around(nodes) \in [0..Len(nodes) -> SUBSET (0..Len(nodes))]
         /\ Around(nodes)[0] = {}
         /\ \A n \in 1..Len(nodes) : Around(nodes)[n] = {nodes[n].up} \cup Around(nodes)[nodes[n].up]
<1> DEFINE N == Len(nodes)
           S == 0..N
           V == SUBSET S
           rank == [n \in S |-> n]
           step == [p \in S \X [S -> V] |-> IF p[1] = 0 THEN {} ELSE {nodes[p[1]].up} \cup p[2][nodes[p[1]].up]]
           Unfolds(F) == F = [n \in 0..Len(nodes) |-> IF n = 0 THEN {} ELSE {nodes[n].up} \cup F[nodes[n].up]]
<1>1. N \in Nat /\ \A n \in 1..N : nodes[n].up \in S /\ nodes[n].up < n
  <2>1. N \in Nat /\ DOMAIN nodes = 1..N
    BY SequenceDomain DEF AreNodes
  <2> QED BY <2>1 DEF AreNodes
<1> HIDE DEF N
<1>2. ASSUME NEW n \in S, NEW g \in [S -> V]
      PROVE  step[<<n, g>>] = (IF n = 0 THEN {} ELSE {nodes[n].up} \cup g[nodes[n].up]) /\ step[<<n, g>>] \in V
  <2>1. step[<<n, g>>] = (IF n = 0 THEN {} ELSE {nodes[n].up} \cup g[nodes[n].up])
    OBVIOUS
  <2>2. n # 0 => nodes[n].up \in S
    BY <1>1
  <2> HIDE DEF step
  <2> QED BY <2>1, <2>2
<1>3. step \in [S \X [S -> V] -> V]
  <2>1. \A p \in S \X [S -> V] : step[p] \in V
    <3> SUFFICES ASSUME NEW n \in S, NEW g \in [S -> V] PROVE step[<<n, g>>] \in V
      OBVIOUS
    <3> QED BY <1>2
  <2> QED BY <2>1
<1> HIDE DEF step
<1>4. LooksDown(S, V, rank, step)
  <2> SUFFICES ASSUME NEW n \in S, NEW g \in [S -> V], NEW h \in [S -> V],
                      \A y \in S : rank[y] < rank[n] => g[y] = h[y]
               PROVE  step[<<n, g>>] = step[<<n, h>>]
    BY DEF LooksDown
  <2>1. CASE n = 0
    BY <1>2, <2>1
  <2>2. CASE n # 0
    <3>1. g[nodes[n].up] = h[nodes[n].up]
      BY <1>1, <2>2
    <3>2. /\ step[<<n, g>>] = {nodes[n].up} \cup g[nodes[n].up]
          /\ step[<<n, h>>] = {nodes[n].up} \cup h[nodes[n].up]
      BY <1>2, <2>2
    <3> QED BY <3>1, <3>2
  <2> QED BY <2>1, <2>2
<1>5. rank \in [S -> Nat] /\ V # {}
  <2>1. \A n \in S : n \in Nat
    BY <1>1
  <2>2. {} \in V
    OBVIOUS
  <2> HIDE DEF V, S
  <2> QED BY <2>1, <2>2
<1> HIDE DEF rank, S
<1>6. PICK f \in [S -> V] : \A n \in S : f[n] = step[<<n, f>>]
  <2> HIDE DEF V
  <2>1. IsRecursion(S, V, rank, step)
    BY <1>3, <1>4, <1>5 DEF IsRecursion
  <2> QED BY <2>1, RecursionHasSolution
<1>7. Unfolds(f)
  <2>1. \A n \in S : f[n] = IF n = 0 THEN {} ELSE {nodes[n].up} \cup f[nodes[n].up]
    BY <1>2, <1>6
  <2>2. f = [n \in S |-> f[n]]
    BY <1>6
  <2> QED BY <2>1, <2>2 DEF S, N
<1>8. ASSUME NEW F, Unfolds(F)
      PROVE  /\ F \in [S -> V] /\ F[0] = {} /\ \A n \in 1..N : F[n] = {nodes[n].up} \cup F[nodes[n].up]
  <2>1. DOMAIN F = S /\ \A n \in S : F[n] = IF n = 0 THEN {} ELSE {nodes[n].up} \cup F[nodes[n].up]
    BY <1>8 DEF S, N
  <2> DEFINE G == {n \in S : F[n] \in V}
  <2>2. Inherited(S, rank, G)
    <3> SUFFICES ASSUME NEW n \in S, \A y \in S : rank[y] < rank[n] => y \in G PROVE n \in G
      BY DEF Inherited
    <3>1. CASE n = 0
      BY <2>1, <3>1
    <3>2. CASE n # 0
      <4>1. nodes[n].up \in S /\ rank[nodes[n].up] < rank[n]
        BY <1>1, <3>2 DEF S, rank
      <4> QED BY <2>1, <3>2, <4>1
    <3> QED BY <3>1, <3>2
  <2>3. S \subseteq G
    <3> HIDE DEF G
    <3> QED BY <1>5, <2>2, RankInduction
  <2>4. F = [n \in S |-> F[n]]
    BY <1>8, <2>1 DEF S, N
  <2>5. 0 \in S /\ \A n \in 1..N : n \in S /\ n # 0
    BY <1>1 DEF S
  <2>6. F \in [S -> V]
    <3>1. \A n \in S : F[n] \in V
      BY <2>3
    <3> HIDE DEF V
    <3> QED BY <2>4, <3>1
  <2> QED BY <2>1, <2>5, <2>6
<1> DEFINE Of == CHOOSE F : Unfolds(F)
<1>9. Unfolds(Of)
  BY <1>7
<1>10. Around(nodes) = Of
  BY DEF Around
<1> HIDE DEF Of, Unfolds
<1> QED BY <1>8, <1>9, <1>10 DEF S, N

\* The nodes around a node stand before it.
LEMMA AroundBefore ==
  ASSUME NEW nodes, AreNodes(nodes)
  PROVE  \A n \in 0..Len(nodes) : \A k \in Around(nodes)[n] : k \in 0..(n - 1)
<1> DEFINE N == Len(nodes)
           S == 0..N
           A == Around(nodes)
           rank == [n \in S |-> n]
           G == {n \in S : \A k \in A[n] : k \in 0..(n - 1)}
<1>1. N \in Nat /\ \A n \in 1..N : nodes[n].up \in 0..(n - 1)
  BY SequenceDomain DEF AreNodes
<1>2. A[0] = {} /\ \A n \in 1..N : A[n] = {nodes[n].up} \cup A[nodes[n].up]
  BY AroundUnfolds
<1> HIDE DEF A, N
<1>3. Inherited(S, rank, G)
  <2> SUFFICES ASSUME NEW n \in S, \A y \in S : rank[y] < rank[n] => y \in G PROVE n \in G
    BY DEF Inherited
  <2>1. CASE n = 0
    BY <1>2, <2>1
  <2>2. CASE n # 0
    <3>1. nodes[n].up \in G /\ nodes[n].up \in 0..(n - 1) /\ n \in 1..N
      BY <1>1, <2>2
    <3> QED BY <1>2, <2>2, <3>1
  <2> QED BY <2>1, <2>2
<1>4. rank \in [S -> Nat]
  BY <1>1
<1>5. S \subseteq G
  <2> HIDE DEF S, G, rank
  <2> QED BY <1>3, <1>4, RankInduction
<1> QED BY <1>5 DEF A, N

\* What stands in a table stands after it.
LEMMA WithinTables ==
  ASSUME NEW nodes, AreNodes(nodes), NEW view, NEW t \in DOMAIN nodes
  PROVE  /\ \A n, name : Wrapped(nodes, view, n, name) \subseteq DOMAIN nodes
         /\ CellsOf(nodes, view, t) \subseteq {c \in DOMAIN nodes : t < c}
         /\ NestedIn(nodes, view, t) \subseteq {m \in DOMAIN nodes : t < m}
         /\ \A c \in CellsOf(nodes, view, t) : Boxed(nodes, view, c) \subseteq {m \in DOMAIN nodes : t < m}
<1>1. DOMAIN nodes = 1..Len(nodes) /\ Len(nodes) \in Nat
  BY SequenceDomain DEF AreNodes
<1>2. \A n, name : \A m \in Wrapped(nodes, view, n, name) : m \in DOMAIN nodes /\ n \in 0..(m - 1)
  BY <1>1, AroundBefore DEF Wrapped
<1>3. \A c \in CellsOf(nodes, view, t) : c \in DOMAIN nodes /\ t < c
  <2> SUFFICES ASSUME NEW c \in CellsOf(nodes, view, t) PROVE c \in DOMAIN nodes /\ t < c
    OBVIOUS
  <2>1. PICK r \in Wrapped(nodes, view, t, "tr") : c \in Wrapped(nodes, view, r, "tc")
    BY DEF CellsOf
  <2> QED BY <1>1, <1>2, <2>1
<1>4. \A m \in NestedIn(nodes, view, t) : m \in DOMAIN nodes /\ t < m
  <2> SUFFICES ASSUME NEW m \in NestedIn(nodes, view, t) PROVE m \in DOMAIN nodes /\ t < m
    OBVIOUS
  <2>1. PICK c \in CellsOf(nodes, view, t) : m \in Wrapped(nodes, view, c, "tbl")
    BY DEF NestedIn
  <2> QED BY <1>1, <1>2, <1>3, <2>1
<1>5. ASSUME NEW c \in CellsOf(nodes, view, t) PROVE Boxed(nodes, view, c) \subseteq {m \in DOMAIN nodes : t < m}
  <2>1. \A m \in Boxed(nodes, view, c) : m \in DOMAIN nodes /\ c \in 0..(m - 1)
    BY <1>1, AroundBefore DEF Boxed
  <2> QED BY <1>1, <1>3, <2>1
<1> QED BY <1>2, <1>3, <1>4, <1>5

\* What is read of a table, of what is read of those in it.
Laid(nodes, T, read) == FlattenSeq([n \in DOMAIN nodes |-> IF n \in T THEN read[n] ELSE <<>>])
DirectIn(nodes, view, t) == {m \in NestedIn(nodes, view, t) : nodes[m].up \in CellsOf(nodes, view, t)}
BoxedIn(nodes, view, t) == UNION {Boxed(nodes, view, c) : c \in CellsOf(nodes, view, t)}

CellRead(view, part, t, read) ==
  [c \in DOMAIN part.nodes |->
     <<InTable(part.nodes, part, t, c, "TABLE_CELL")>>
     \o Laid(part.nodes, {m \in DirectIn(part.nodes, view, t) : part.nodes[m].up = c}, read)]
RowRead(view, part, t, read) ==
  [r \in DOMAIN part.nodes |->
     <<InTable(part.nodes, part, t, r, "TABLE_ROW")>>
     \o Laid(part.nodes, Wrapped(part.nodes, view, r, "tc"), CellRead(view, part, t, read))]
TableRead(view, part, t, read) ==
  <<InTable(part.nodes, part, t, t, "TABLE")>>
  \o Laid(part.nodes, Wrapped(part.nodes, view, t, "tr"), RowRead(view, part, t, read))
  \o Laid(part.nodes, NestedIn(part.nodes, view, t) \ DirectIn(part.nodes, view, t), read)
  \o Laid(part.nodes, BoxedIn(part.nodes, view, t), read)

\* What is laid depends only on what is read of the nodes that are laid.
LEMMA LaidAlike ==
  ASSUME NEW nodes, NEW T, NEW f, NEW g, \A n \in T \cap DOMAIN nodes : f[n] = g[n]
  PROVE  Laid(nodes, T, f) = Laid(nodes, T, g)
<1>1. [n \in DOMAIN nodes |-> IF n \in T THEN f[n] ELSE <<>>] = [n \in DOMAIN nodes |-> IF n \in T THEN g[n] ELSE <<>>]
  OBVIOUS
<1> QED BY <1>1 DEF Laid

\* What is laid is a sequence of what is read.
LEMMA LaidIsSeq ==
  ASSUME NEW nodes, IsSequence(nodes), NEW T, NEW E, NEW f, \A n \in T \cap DOMAIN nodes : f[n] \in Seq(E)
  PROVE  /\ Laid(nodes, T, f) \in Seq(E)
         /\ ToSet(Laid(nodes, T, f)) = UNION {ToSet(f[n]) : n \in T \cap DOMAIN nodes}
<1> DEFINE seqs == [n \in DOMAIN nodes |-> IF n \in T THEN f[n] ELSE <<>>]
<1>1. DOMAIN nodes = 1..Len(nodes) /\ Len(nodes) \in Nat
  BY SequenceDomain
<1>2. seqs \in [1..Len(nodes) -> Seq(E)] /\ \A n \in 1..Len(nodes) : seqs[n] = IF n \in T THEN f[n] ELSE <<>>
  <2>1. <<>> \in Seq(E)
    OBVIOUS
  <2> QED BY <1>1, <2>1
<1>3. Laid(nodes, T, f) = FlattenSeq(seqs)
  BY DEF Laid
<1> HIDE DEF seqs
<1>4. seqs \in Seq(Seq(E)) /\ DOMAIN seqs = 1..Len(nodes)
  BY <1>1, <1>2
<1>5. FlattenSeq(seqs) \in Seq(E) /\ ToSet(FlattenSeq(seqs)) = UNION {ToSet(seqs[i]) : i \in DOMAIN seqs}
  BY <1>4, FlattenedSeq
<1>6. UNION {ToSet(seqs[i]) : i \in DOMAIN seqs} = UNION {ToSet(f[n]) : n \in T \cap DOMAIN nodes}
  <2>1. ToSet(<<>>) = {}
    BY DEF ToSet
  <2> QED BY <1>1, <1>2, <1>4, <2>1
<1> QED BY <1>3, <1>5, <1>6

\* What is read of a table depends only on what is read of the nodes after it.
LEMMA TableReadAlike ==
  ASSUME NEW view, NEW part, AreNodes(part.nodes), NEW t \in DOMAIN part.nodes,
         NEW f, NEW g, \A m \in DOMAIN part.nodes : t < m => f[m] = g[m]
  PROVE  TableRead(view, part, t, f) = TableRead(view, part, t, g)
<1> DEFINE nodes == part.nodes
           cells(read) == CellRead(view, part, t, read)
           rows(read) == RowRead(view, part, t, read)
<1>1. /\ NestedIn(nodes, view, t) \subseteq {m \in DOMAIN nodes : t < m}
      /\ BoxedIn(nodes, view, t) \subseteq {m \in DOMAIN nodes : t < m}
      /\ DirectIn(nodes, view, t) \subseteq {m \in DOMAIN nodes : t < m}
  BY WithinTables DEF BoxedIn, DirectIn
<1>2. \A T \in SUBSET {m \in DOMAIN nodes : t < m} : Laid(nodes, T, f) = Laid(nodes, T, g)
  BY LaidAlike
<1>3. cells(f) = cells(g)
  <2>1. \A c \in DOMAIN nodes : {m \in DirectIn(nodes, view, t) : nodes[m].up = c} \in SUBSET {m \in DOMAIN nodes : t < m}
    BY <1>1
  <2>2. \A c \in DOMAIN nodes : Laid(nodes, {m \in DirectIn(nodes, view, t) : nodes[m].up = c}, f)
                                = Laid(nodes, {m \in DirectIn(nodes, view, t) : nodes[m].up = c}, g)
    BY <1>2, <2>1
  <2> QED BY <2>2 DEF CellRead
<1>4. rows(f) = rows(g)
  BY <1>3 DEF RowRead
<1> HIDE DEF cells, rows
<1>5. Laid(nodes, NestedIn(nodes, view, t) \ DirectIn(nodes, view, t), f) = Laid(nodes, NestedIn(nodes, view, t) \ DirectIn(nodes, view, t), g)
  BY <1>1, <1>2
<1>6. Laid(nodes, BoxedIn(nodes, view, t), f) = Laid(nodes, BoxedIn(nodes, view, t), g)
  BY <1>1, <1>2
<1> QED BY <1>4, <1>5, <1>6 DEF TableRead, rows

TableParts(part) ==
  UNION {UNION {{InTable(part.nodes, part, t, n, type) : type \in {"TABLE", "TABLE_ROW", "TABLE_CELL"}} :
                  n \in DOMAIN part.nodes} : t \in DOMAIN part.nodes}

\* What is read of a table are its parts, if this is so of the tables in it.
LEMMA TableReadIsSeq ==
  ASSUME NEW view, NEW part, AreNodes(part.nodes), NEW t \in DOMAIN part.nodes,
         NEW f, \A m \in DOMAIN part.nodes : t < m => f[m] \in Seq(TableParts(part))
  PROVE  TableRead(view, part, t, f) \in Seq(TableParts(part))
<1> DEFINE nodes == part.nodes
           E == TableParts(part)
           cells == CellRead(view, part, t, f)
           rows == RowRead(view, part, t, f)
<1>0. IsSequence(nodes)
  BY DEF AreNodes
<1>1. /\ NestedIn(nodes, view, t) \subseteq {m \in DOMAIN nodes : t < m}
      /\ BoxedIn(nodes, view, t) \subseteq {m \in DOMAIN nodes : t < m}
      /\ DirectIn(nodes, view, t) \subseteq {m \in DOMAIN nodes : t < m}
  BY WithinTables DEF BoxedIn, DirectIn
<1>2. \A n \in DOMAIN nodes : \A type \in {"TABLE", "TABLE_ROW", "TABLE_CELL"} : <<InTable(nodes, part, t, n, type)>> \in Seq(E)
  <2> SUFFICES ASSUME NEW n \in DOMAIN nodes, NEW type \in {"TABLE", "TABLE_ROW", "TABLE_CELL"}
               PROVE  InTable(nodes, part, t, n, type) \in E
    OBVIOUS
  <2> QED BY DEF TableParts
<1> HIDE DEF E, nodes
<1>3. \A T \in SUBSET {m \in DOMAIN nodes : t < m} : Laid(nodes, T, f) \in Seq(E)
  <2> SUFFICES ASSUME NEW T \in SUBSET {m \in DOMAIN nodes : t < m} PROVE Laid(nodes, T, f) \in Seq(E)
    OBVIOUS
  <2>1. \A n \in T \cap DOMAIN nodes : f[n] \in Seq(E)
    BY DEF nodes, E
  <2> QED BY <1>0, <2>1, LaidIsSeq DEF nodes
<1>4. \A c \in DOMAIN nodes : cells[c] \in Seq(E)
  <2> SUFFICES ASSUME NEW c \in DOMAIN nodes PROVE cells[c] \in Seq(E)
    OBVIOUS
  <2>1. Laid(nodes, {m \in DirectIn(nodes, view, t) : nodes[m].up = c}, f) \in Seq(E)
    BY <1>1, <1>3 DEF nodes
  <2>2. <<InTable(nodes, part, t, c, "TABLE_CELL")>> \in Seq(E)
    BY <1>2 DEF nodes
  <2>3. <<InTable(nodes, part, t, c, "TABLE_CELL")>> \o Laid(nodes, {m \in DirectIn(nodes, view, t) : nodes[m].up = c}, f) \in Seq(E)
    BY <2>1, <2>2
  <2> QED BY <2>3 DEF CellRead, nodes
<1> HIDE DEF cells
<1>5. \A r \in DOMAIN nodes : rows[r] \in Seq(E)
  <2> SUFFICES ASSUME NEW r \in DOMAIN nodes PROVE rows[r] \in Seq(E)
    OBVIOUS
  <2>1. Laid(nodes, Wrapped(nodes, view, r, "tc"), cells) \in Seq(E)
    BY <1>0, <1>4, LaidIsSeq DEF nodes
  <2>2. <<InTable(nodes, part, t, r, "TABLE_ROW")>> \in Seq(E)
    BY <1>2 DEF nodes
  <2>3. <<InTable(nodes, part, t, r, "TABLE_ROW")>> \o Laid(nodes, Wrapped(nodes, view, r, "tc"), cells) \in Seq(E)
    BY <2>1, <2>2
  <2> QED BY <2>3 DEF RowRead, nodes, cells
<1> HIDE DEF rows
<1>6. Laid(nodes, Wrapped(nodes, view, t, "tr"), rows) \in Seq(E)
  BY <1>0, <1>5, LaidIsSeq DEF nodes
<1>7. /\ Laid(nodes, NestedIn(nodes, view, t) \ DirectIn(nodes, view, t), f) \in Seq(E)
      /\ Laid(nodes, BoxedIn(nodes, view, t), f) \in Seq(E)
  BY <1>1, <1>3 DEF nodes
<1>8. <<InTable(nodes, part, t, t, "TABLE")>> \in Seq(E)
  BY <1>2 DEF nodes
<1>9. TableRead(view, part, t, f)
      = <<InTable(nodes, part, t, t, "TABLE")>> \o Laid(nodes, Wrapped(nodes, view, t, "tr"), rows)
        \o Laid(nodes, NestedIn(nodes, view, t) \ DirectIn(nodes, view, t), f) \o Laid(nodes, BoxedIn(nodes, view, t), f)
  BY DEF TableRead, nodes, rows
<1> QED BY <1>6, <1>7, <1>8, <1>9 DEF E

\* The recursion over tables in tables and text boxes has a solution: it looks at nodes
\* that stand later.
LEMMA TablesAreRead ==
  ASSUME NEW view, NEW part, AreNodes(part.nodes), NEW t \in DOMAIN part.nodes
  PROVE  /\ TableElements(view, part, t) \in Seq(TableParts(part))
         /\ TableElements(view, part, t) = TableRead(view, part, t, [m \in DOMAIN part.nodes |-> TableElements(view, part, m)])
<1> DEFINE nodes == part.nodes
           S == DOMAIN nodes
           E == TableParts(part)
           V == Seq(E)
           rank == [m \in S |-> Len(nodes) - m]
           step == [p \in S \X [S -> V] |-> TableRead(view, part, p[1], p[2])]
           Unfolds(Emit) == Emit = [m \in DOMAIN nodes |->
             LET cells == CellsOf(nodes, view, m)
                 nested == NestedIn(nodes, view, m)
                 direct == {k \in nested : nodes[k].up \in cells}
                 Of(n) == Emit[n]
                 Cell(c) == <<InTable(nodes, part, m, c, "TABLE_CELL")>>
                            \o InDocumentOrder(nodes, {k \in direct : nodes[k].up = c}, Of)
                 Row(r) == <<InTable(nodes, part, m, r, "TABLE_ROW")>>
                           \o InDocumentOrder(nodes, Wrapped(nodes, view, r, "tc"), Cell)
             IN <<InTable(nodes, part, m, m, "TABLE")>>
                \o InDocumentOrder(nodes, Wrapped(nodes, view, m, "tr"), Row)
                \o InDocumentOrder(nodes, nested \ direct, Of)
                \o InDocumentOrder(nodes, UNION {Boxed(nodes, view, c) : c \in cells}, Of)]
<1>1. S = 1..Len(nodes) /\ Len(nodes) \in Nat
  BY SequenceDomain DEF AreNodes
<1>2. rank \in [S -> Nat] /\ \A m, k \in S : rank[k] < rank[m] <=> m < k
  BY <1>1
<1>3. ASSUME NEW F PROVE Unfolds(F) <=> F = [m \in S |-> TableRead(view, part, m, F)]
  <2> DEFINE one == [m \in S |->
             LET cells == CellsOf(nodes, view, m)
                 nested == NestedIn(nodes, view, m)
                 direct == {k \in nested : nodes[k].up \in cells}
                 Of(n) == F[n]
                 Cell(c) == <<InTable(nodes, part, m, c, "TABLE_CELL")>>
                            \o InDocumentOrder(nodes, {k \in direct : nodes[k].up = c}, Of)
                 Row(r) == <<InTable(nodes, part, m, r, "TABLE_ROW")>>
                           \o InDocumentOrder(nodes, Wrapped(nodes, view, r, "tc"), Cell)
             IN <<InTable(nodes, part, m, m, "TABLE")>>
                \o InDocumentOrder(nodes, Wrapped(nodes, view, m, "tr"), Row)
                \o InDocumentOrder(nodes, nested \ direct, Of)
                \o InDocumentOrder(nodes, UNION {Boxed(nodes, view, c) : c \in cells}, Of)]
             other == [m \in S |-> TableRead(view, part, m, F)]
  <2>1. ASSUME NEW m \in S PROVE one[m] = other[m]
    <3> DEFINE cellOf == CellRead(view, part, m, F)
               direct == {k \in NestedIn(nodes, view, m) : nodes[k].up \in CellsOf(nodes, view, m)}
               Cell0(c) == <<InTable(nodes, part, m, c, "TABLE_CELL")>> \o Laid(nodes, {k \in direct : nodes[k].up = c}, F)
               Row0(r) == <<InTable(nodes, part, m, r, "TABLE_ROW")>>
                          \o FlattenSeq([n \in DOMAIN nodes |-> IF n \in Wrapped(nodes, view, r, "tc") THEN Cell0(n) ELSE <<>>])
    <3>1. \A c \in DOMAIN nodes : cellOf[c] = Cell0(c)
      BY DEF CellRead, DirectIn
    <3>2. \A r : Laid(nodes, Wrapped(nodes, view, r, "tc"), cellOf)
                 = FlattenSeq([n \in DOMAIN nodes |-> IF n \in Wrapped(nodes, view, r, "tc") THEN Cell0(n) ELSE <<>>])
      <4> SUFFICES ASSUME NEW r PROVE
                 [n \in DOMAIN nodes |-> IF n \in Wrapped(nodes, view, r, "tc") THEN cellOf[n] ELSE <<>>]
                 = [n \in DOMAIN nodes |-> IF n \in Wrapped(nodes, view, r, "tc") THEN Cell0(n) ELSE <<>>]
        BY DEF Laid
      <4> HIDE DEF cellOf, Cell0
      <4> QED BY <3>1
    <3>3. \A r \in DOMAIN nodes : RowRead(view, part, m, F)[r] = Row0(r)
      <4> HIDE DEF Cell0
      <4> QED BY <3>2 DEF RowRead
    <3>4. Laid(nodes, Wrapped(nodes, view, m, "tr"), RowRead(view, part, m, F))
          = FlattenSeq([n \in DOMAIN nodes |-> IF n \in Wrapped(nodes, view, m, "tr") THEN Row0(n) ELSE <<>>])
      <4> HIDE DEF Row0
      <4> QED BY <3>3 DEF Laid
    <3>5. one[m] = <<InTable(nodes, part, m, m, "TABLE")>>
                   \o FlattenSeq([n \in DOMAIN nodes |-> IF n \in Wrapped(nodes, view, m, "tr") THEN Row0(n) ELSE <<>>])
                   \o Laid(nodes, NestedIn(nodes, view, m) \ direct, F) \o Laid(nodes, BoxedIn(nodes, view, m), F)
      BY DEF InDocumentOrder, Laid, BoxedIn
    <3>6. other[m] = TableRead(view, part, m, F)
      OBVIOUS
    <3> HIDE DEF one, other, Row0, Cell0
    <3> QED BY <3>4, <3>5, <3>6 DEF TableRead, DirectIn, direct
  <2>2. one = other
    BY <2>1
  <2>3. Unfolds(F) <=> F = one
    OBVIOUS
  <2> HIDE DEF one
  <2> QED BY <2>2, <2>3
<1> HIDE DEF Unfolds
<1>4. ASSUME NEW F, F = [m \in S |-> TableRead(view, part, m, F)]
      PROVE  F \in [S -> V]
  <2> DEFINE G == {m \in S : F[m] \in V}
  <2>1. Inherited(S, rank, G)
    <3> SUFFICES ASSUME NEW m \in S, \A y \in S : rank[y] < rank[m] => y \in G PROVE m \in G
      BY DEF Inherited
    <3>1. \A k \in S : m < k => F[k] \in V
      BY <1>2
    <3>2. TableRead(view, part, m, F) \in V
      BY <3>1, TableReadIsSeq
    <3>3. F[m] = TableRead(view, part, m, F)
      BY <1>4
    <3> QED BY <3>2, <3>3
  <2>2. S \subseteq G
    <3> HIDE DEF G, S, rank
    <3> QED BY <1>2, <2>1, RankInduction
  <2>3. F = [m \in S |-> F[m]] /\ \A m \in S : F[m] \in V
    BY <1>4, <2>2
  <2> HIDE DEF V, S
  <2> QED BY <2>3
<1>5. \E f : f = [m \in S |-> TableRead(view, part, m, f)]
  <2>1. ASSUME NEW m \in S, NEW g \in [S -> V]
        PROVE  step[<<m, g>>] = TableRead(view, part, m, g) /\ step[<<m, g>>] \in V
    <3>1. step[<<m, g>>] = TableRead(view, part, m, g)
      OBVIOUS
    <3>2. \A k \in DOMAIN part.nodes : m < k => g[k] \in Seq(TableParts(part))
      OBVIOUS
    <3>3. TableRead(view, part, m, g) \in V
      BY <3>2, TableReadIsSeq
    <3> QED BY <3>1, <3>3
  <2>2. step \in [S \X [S -> V] -> V]
    <3>1. \A p \in S \X [S -> V] : step[p] \in V
      <4> SUFFICES ASSUME NEW m \in S, NEW g \in [S -> V] PROVE step[<<m, g>>] \in V
        OBVIOUS
      <4> QED BY <2>1
    <3> QED BY <3>1
  <2> HIDE DEF step
  <2>3. LooksDown(S, V, rank, step)
    <3> SUFFICES ASSUME NEW m \in S, NEW g \in [S -> V], NEW h \in [S -> V],
                        \A y \in S : rank[y] < rank[m] => g[y] = h[y]
                 PROVE  step[<<m, g>>] = step[<<m, h>>]
      BY DEF LooksDown
    <3>1. \A k \in S : m < k => g[k] = h[k]
      BY <1>2
    <3>2. TableRead(view, part, m, g) = TableRead(view, part, m, h)
      BY <3>1, TableReadAlike
    <3> QED BY <2>1, <3>2
  <2>4. V # {}
    <3>1. <<>> \in V
      OBVIOUS
    <3> QED BY <3>1
  <2>5. IsRecursion(S, V, rank, step)
    <3> HIDE DEF S, V, rank
    <3> QED BY <1>2, <2>2, <2>3, <2>4 DEF IsRecursion
  <2>6. PICK f \in [S -> V] : \A m \in S : f[m] = step[<<m, f>>]
    <3> HIDE DEF S, V, rank
    <3> QED BY <2>5, RecursionHasSolution
  <2>7. f = [m \in S |-> TableRead(view, part, m, f)]
    <3>1. f = [m \in S |-> f[m]]
      OBVIOUS
    <3>2. \A m \in S : f[m] = TableRead(view, part, m, f)
      BY <2>1, <2>6
    <3> HIDE DEF S
    <3> QED BY <3>1, <3>2
  <2> QED BY <2>7
<1> DEFINE Emit == CHOOSE F : Unfolds(F)
<1>6. Unfolds(Emit)
  BY <1>3, <1>5
<1>7. \A m : TableElements(view, part, m) = Emit[m]
  BY DEF TableElements, Unfolds
<1> HIDE DEF Emit
<1>8. Emit = [m \in S |-> TableRead(view, part, m, Emit)]
  BY <1>3, <1>6
<1>9. Emit \in [S -> V]
  BY <1>4, <1>8
<1>10. [m \in DOMAIN part.nodes |-> TableElements(view, part, m)] = Emit
  BY <1>7, <1>9
<1>11. TableElements(view, part, t) = TableRead(view, part, t, Emit)
  BY <1>7, <1>8
<1> QED BY <1>7, <1>9, <1>10, <1>11

\* What is read of a table are elements.
LEMMA TableElementsAreElements ==
  ASSUME NEW view, NEW part, AreNodes(part.nodes), NEW t \in DOMAIN part.nodes
  PROVE  AreElements(TableElements(view, part, t))
<1>1. TableElements(view, part, t) \in Seq(TableParts(part))
  BY TablesAreRead
<1>2. \A e \in TableParts(part) : IsElement(e)
  <2> SUFFICES ASSUME NEW m \in DOMAIN part.nodes, NEW n \in DOMAIN part.nodes, NEW type
               PROVE  IsElement(InTable(part.nodes, part, m, n, type))
    BY DEF TableParts
  <2> QED BY InTableIsElement
<1> QED BY <1>1, <1>2, IsSequenceOf DEF AreElements

\* A block that cannot be read is an element.
LEMMA OpaqueIsElement == ASSUME NEW part, NEW node, node.name # "altChunk" => node.marker \in Nat PROVE IsElement(Opaque(part, node))
<1>1. CASE node.name = "altChunk"
  BY <1>1, ZonedAreElements DEF Opaque
<1>2. CASE node.name # "altChunk"
  <2> DEFINE zoned == InPart(part)
             e == [zoned EXCEPT !.type = "UNKNOWN", !.blank = node.blank, !.marks = node.marks,
                                !.marker = node.marker, !.refs = node.refs]
  <2>1. zoned = [f \in Fields |-> zoned[f]] /\ zoned.level = 0 /\ zoned.marker = 0 /\ zoned.evidence = None
    BY ZonedAreElements
  <2> HIDE DEF zoned
  <2>2. e = [f \in Fields |-> e[f]] /\ e.level = 0 /\ e.marker = node.marker /\ e.evidence = None
    BY <2>1, PlainFields
  <2>3. Opaque(part, node) = e
    BY <1>2 DEF Opaque, zoned
  <2> HIDE DEF e
  <2> QED BY <1>2, <2>2, <2>3 DEF IsElement, Fields
<1> QED BY <1>1, <1>2

\* What is read of a block are elements.
LEMMA BlockAreElements ==
  ASSUME NEW package, IsPackage(package), NEW part, IsTree(part.nodes, package.policy.view),
         NEW n \in Blocks(part.nodes, package.policy.view)
  PROVE  AreElements(BlockElements(package, part, n))
<1> DEFINE nodes == part.nodes
           view == package.policy.view
           node == nodes[n]
<1>1. AreNodes(nodes) /\ n \in DOMAIN nodes /\ nodes = [m \in 1..Len(nodes) |-> nodes[m]] /\ Len(nodes) \in Nat /\ DOMAIN nodes = 1..Len(nodes)
  <2>1. AreNodes(nodes)
    BY DEF IsTree, AreNodes
  <2> QED BY <2>1, SequenceDomain DEF AreNodes, Blocks
<1>2. CASE node.name = "p"
  <2> DEFINE head == <<Paragraph(package, part, Resolve(package.styles, node.style), node)>>
             boxed == Boxed(nodes, view, n)
             seqs == [m \in DOMAIN nodes |-> IF m \in boxed THEN TableElements(view, part, m) ELSE <<>>]
             tail == IF node.section = None THEN <<>> ELSE <<SectionSeparator(part)>>
  <2>1. AreElements(head)
    <3>1. node.outline \in Nat \cup {None} /\ node.marker \in Nat
      BY <1>1, <1>2 DEF IsTree
    <3>2. IsResolved(Resolve(package.styles, node.style))
      <4>1. AreStyles(package.styles)
        BY DEF IsPackage, AreStyles, IsResolved
      <4> QED BY <4>1, StylesResolve
    <3> HIDE DEF node
    <3>3. IsElement(Paragraph(package, part, Resolve(package.styles, node.style), node))
      BY <3>1, <3>2, ParagraphIsElement
    <3> QED BY <3>3, NoneOrOne
  <2>2. AreElements(tail)
    BY NoneOrOne, ZonedAreElements
  <2>3. AreElements(FlattenSeq(seqs))
    <3>1. seqs = [m \in 1..Len(nodes) |-> seqs[m]]
      BY <1>1
    <3>2. \A m \in 1..Len(nodes) : AreElements(seqs[m])
      BY <1>1, NoneOrOne, TableElementsAreElements
    <3> HIDE DEF seqs
    <3> QED BY <1>1, <3>1, <3>2, Laying
  <2>4. BlockElements(package, part, n) = head \o FlattenSeq(seqs) \o tail
    <3>1. BlockElements(package, part, n) = ParagraphElements(package, part, n)
      BY <1>2 DEF BlockElements, IsOpaque, Wrappers, Unseen, Revisions
    <3> QED BY <3>1 DEF ParagraphElements, InDocumentOrder
  <2> HIDE DEF head, seqs, tail
  <2>5. AreElements(head \o FlattenSeq(seqs))
    BY <2>1, <2>3, Joining
  <2> QED BY <2>2, <2>4, <2>5, Joining
<1>3. CASE node.name = "tbl"
  <2>1. BlockElements(package, part, n) = TableElements(view, part, n)
    BY <1>3 DEF BlockElements, IsOpaque, Wrappers, Unseen, Revisions
  <2> QED BY <1>1, <2>1, TableElementsAreElements
<1>4. CASE node.name = "sectPr"
  <2>1. BlockElements(package, part, n) = <<SectionSeparator(part)>>
    BY <1>4 DEF BlockElements, IsOpaque, Wrappers, Unseen, Revisions
  <2> QED BY <2>1, NoneOrOne, ZonedAreElements
<1>5. CASE node.name \in Wrappers \cup Unseen
  <2>1. BlockElements(package, part, n) = <<>>
    BY <1>5 DEF BlockElements, IsOpaque, Wrappers, Unseen, Revisions
  <2> QED BY <2>1, NoneOrOne
<1>6. CASE IsOpaque(node)
  <2>1. node.name # "altChunk" => node.marker \in Nat
    BY <1>6 DEF IsTree
  <2>2. BlockElements(package, part, n) = <<Opaque(part, node)>>
    BY <1>6 DEF BlockElements, IsOpaque, Wrappers, Unseen, Revisions
  <2> HIDE DEF node
  <2> QED BY <2>1, <2>2, OpaqueIsElement, NoneOrOne
<1> QED BY <1>2, <1>3, <1>4, <1>5, <1>6 DEF IsOpaque

\* What is read of a part of the package are elements.
LEMMA PartAreElements ==
  ASSUME NEW package, IsPackage(package), NEW part, IsTree(part.nodes, package.policy.view)
  PROVE  AreElements(PartElements(package, part))
<1> DEFINE nodes == part.nodes
           blocks == Blocks(nodes, package.policy.view)
           seqs == [n \in DOMAIN nodes |-> IF n \in blocks THEN BlockElements(package, part, n) ELSE <<>>]
<1>1. Len(nodes) \in Nat /\ DOMAIN nodes = 1..Len(nodes)
  BY SequenceDomain DEF IsTree
<1>2. seqs = [n \in 1..Len(nodes) |-> seqs[n]]
  BY <1>1
<1>3. \A n \in 1..Len(nodes) : AreElements(seqs[n])
  BY <1>1, NoneOrOne, BlockAreElements
<1>4. PartElements(package, part) = FlattenSeq(seqs)
  BY DEF PartElements, InDocumentOrder
<1> HIDE DEF seqs
<1> QED BY <1>1, <1>2, <1>3, <1>4, Laying

\* The entries at some positions are a sequence of entries.
LEMMA EntriesAreEntries ==
  ASSUME NEW s, IsSequence(s), NEW T
  PROVE  IsSequence(Entries(s, T)) /\ ToSet(Entries(s, T)) \subseteq ToSet(s)
<1>1. s \in Seq(ToSet(s))
  BY DEF IsSequence
<1>2. Entries(s, T) \in Seq(ToSet(s))
  BY <1>1, EntriesAreSeq
<1> QED BY <1>2, IsSequenceOf

\* The adapter of Word documents makes elements.
LEMMA DocxAreElements ==
  ASSUME NEW package, IsPackage(package)
  PROVE  AreElements(DocxElements(package))
<1> DEFINE notes == NotesRead(package)
           noted == [k \in DOMAIN notes |-> NoteElement(notes[k])]
           parts == <<BodyPart(package)>> \o HeadersRead(package)
           seqs == [i \in DOMAIN parts |->
                      (IF i = 1 THEN <<>> ELSE <<Silent(parts[i], "SEPARATOR")>>)
                      \o PartElements(package, parts[i])
                      \o (IF i = 1 THEN noted ELSE <<>>)]
           all == FlattenSeq(seqs)
<1>1. AreElements(noted)
  <2>1. IsSequence(notes)
    BY EntriesAreEntries DEF IsPackage, NotesRead
  <2>2. Len(notes) \in Nat /\ DOMAIN notes = 1..Len(notes)
    BY <2>1, SequenceDomain
  <2> HIDE DEF notes
  <2>3. \A note : IsElement(NoteElement(note))
    <3> SUFFICES ASSUME NEW note PROVE IsElement(NoteElement(note))
      OBVIOUS
    <3> DEFINE zoned == InPart([name |-> note.kind, zone |-> note.kind])
               e == [zoned EXCEPT !.type = "FOOTNOTE", !.anchor = <<note.kind, note.id>>, !.blank = note.blank]
    <3>1. zoned = [f \in Fields |-> zoned[f]] /\ zoned.level = 0 /\ zoned.marker = 0 /\ zoned.evidence = None
      BY ZonedAreElements
    <3> HIDE DEF zoned
    <3>2. e = [f \in Fields |-> e[f]] /\ e.level = 0 /\ e.marker = 0 /\ e.evidence = None
      BY <3>1, PlainFields
    <3>3. NoteElement(note) = e
      BY DEF NoteElement, zoned
    <3> HIDE DEF e
    <3> QED BY <3>2, <3>3 DEF IsElement, Fields
  <2>4. noted = [k \in 1..Len(notes) |-> noted[k]]
    BY <2>2
  <2>5. \A k \in 1..Len(notes) : IsElement(noted[k])
    BY <2>2, <2>3
  <2> HIDE DEF noted
  <2> QED BY <2>2, <2>4, <2>5, IsSequenceTo DEF AreElements
<1>2. IsSequence(parts) /\ \A i \in DOMAIN parts : IsTree(parts[i].nodes, package.policy.view)
  <2> DEFINE body == BodyPart(package)
             headers == HeadersRead(package)
             E == {body} \cup ToSet(package.headers)
  <2>1. IsSequence(headers) /\ ToSet(headers) \subseteq ToSet(package.headers)
    BY EntriesAreEntries DEF IsPackage, HeadersRead
  <2>2. \A part \in E : IsTree(part.nodes, package.policy.view)
    BY DEF IsPackage, BodyPart
  <2>3. headers \in Seq(ToSet(headers)) /\ ToSet(headers) \subseteq E
    BY <2>1 DEF IsSequence
  <2>4. headers \in Seq(E) /\ <<body>> \in Seq(E)
    <3>1. body \in E
      OBVIOUS
    <3> HIDE DEF E, headers, body
    <3> QED BY <2>3, <3>1
  <2> HIDE DEF E, headers, body
  <2>5. parts \in Seq(E)
    BY <2>4 DEF headers, body
  <2> HIDE DEF parts
  <2> QED BY <2>2, <2>5, IsSequenceOf
<1>3. Len(parts) \in Nat /\ DOMAIN parts = 1..Len(parts)
  BY <1>2, SequenceDomain
<1> HIDE DEF parts, noted
<1>4. \A i \in 1..Len(parts) : AreElements(seqs[i])
  <2> SUFFICES ASSUME NEW i \in 1..Len(parts) PROVE AreElements(seqs[i])
    OBVIOUS
  <2> DEFINE head == IF i = 1 THEN <<>> ELSE <<Silent(parts[i], "SEPARATOR")>>
             tail == IF i = 1 THEN noted ELSE <<>>
  <2>1. AreElements(head)
    BY NoneOrOne, ZonedAreElements
  <2>2. AreElements(tail)
    BY <1>1, NoneOrOne
  <2>3. AreElements(PartElements(package, parts[i]))
    BY <1>2, <1>3, PartAreElements
  <2>4. seqs[i] = head \o PartElements(package, parts[i]) \o tail
    BY <1>3
  <2> HIDE DEF head, tail, seqs
  <2>5. AreElements(head \o PartElements(package, parts[i]))
    BY <2>1, <2>3, Joining
  <2> QED BY <2>2, <2>4, <2>5, Joining
<1>5. AreElements(all)
  <2>1. seqs = [i \in 1..Len(parts) |-> seqs[i]]
    BY <1>3
  <2> HIDE DEF seqs
  <2> QED BY <1>3, <1>4, <2>1, Laying
<1>6. DocxElements(package) = ListIntegrity(all)
  BY DEF DocxElements, parts, noted
<1> HIDE DEF all
<1> DEFINE listed == ListIntegrity(all)
<1>7. Len(all) \in Nat /\ DOMAIN all = 1..Len(all) /\ \A i \in 1..Len(all) : IsElement(all[i])
  BY <1>5, SequenceDomain DEF AreElements
<1>8. DOMAIN listed = 1..Len(all) /\ listed = [i \in 1..Len(all) |-> listed[i]]
  BY <1>7 DEF ListIntegrity
<1>9. \A i \in 1..Len(all) : \E g : listed[i] = all[i] \/ listed[i] = [all[i] EXCEPT !["group"] = g]
  BY <1>7 DEF ListIntegrity
<1> HIDE DEF listed
<1>10. \A i \in 1..Len(all) : IsElement(listed[i])
  <2> SUFFICES ASSUME NEW i \in 1..Len(all) PROVE IsElement(listed[i])
    OBVIOUS
  <2>1. \A g : IsElement([all[i] EXCEPT !["group"] = g])
    BY <1>7, PlainFields, FieldChanged
  <2> QED BY <1>7, <1>9, <2>1
<1>11. AreElements(listed)
  BY <1>7, <1>8, <1>10, IsSequenceTo DEF AreElements
<1> QED BY <1>6, <1>11 DEF listed

-----------------------------------------------------------------------------
(* What is observed.                                                       *)

\* Whatever an adapter makes of a source are elements, in a sequence, with
\* numbers where numbers stand.
LEMMA AdaptedAreElements == ASSUME source \in Sources, Adaptable PROVE AreElements(Observed)
<1>1. CASE source.format \in {"text", "markdown"}
  <2>1. AreLines(Lines(source.bytes, source.encoding))
    BY <1>1, SourcesAssumption DEF Adaptable, Decodable, Lines, AreLines
  <2> QED BY <1>1, <2>1, PlainTextAreElements, MarkdownAreElements DEF Observed
<1>2. CASE source.format = "docx"
  <2>1. IsPackage(source.package)
    BY <1>2, SourcesAssumption
  <2> QED BY <1>2, <2>1, DocxAreElements DEF Observed
<1>3. CASE source.format \notin {"text", "markdown", "docx"}
  BY <1>3, SourcesAssumption DEF Observed, AreElements
<1> QED BY <1>1, <1>2, <1>3

\* What adapters observe are elements, with numbers where numbers stand: of text, of
\* Markdown and of Word documents whatever their lines, styles, tables and boxes are.
THEOREM ElementsAlways == Spec => []AreElements(raw)
<1>1. Init => AreElements(raw)
  BY NoneOrOne DEF Init
<1>2. AInv /\ AreElements(raw) /\ [Next]_readingVars => AreElements(raw)'
  <2> SUFFICES ASSUME AInv, AreElements(raw), [Next]_readingVars PROVE AreElements(raw')
    BY DEF AreElements, IsSequence
  <2>1. CASE Adapt
    <3>1. Adaptable /\ raw' = Observed
      BY <2>1 DEF Adapt, Extracted
    <3> QED BY <3>1, AdaptedAreElements DEF AInv, IInv, Given
  <2>2. CASE ~Adapt
    <3>1. raw' = raw
      BY <2>2 DEF Next, readingVars, AdapterFails, Normalise, Understand, AuditPreservation, Reannotate,
                  ProjectUnits, ProjectionFails, EnrichUnits, EnrichmentFails, Settled
    <3> QED BY <3>1
  <2> QED BY <2>1, <2>2
<1> QED BY <1>1, <1>2, Invariance, PTL DEF Spec

\* The elements of the document are the normalised ones, as many as were observed.
LEMMA DocumentElements ==
  ASSUME AInv, AreElements(raw), stage \in AfterAssembly
  PROVE  /\ result.document.elements = Normalised(raw)
         /\ DOMAIN Normalised(raw) = DOMAIN raw /\ DOMAIN raw = 1..Len(raw)
         /\ Len(raw) \in Nat /\ Len(Normalised(raw)) = Len(raw)
<1>1. [result.document EXCEPT !.annotations = <<>>, !.manifest = None] = Assembled
  BY DEF AInv, IInv, Kept, KeepsStructure
<1>2. result.document.elements = Assembled.elements
  BY <1>1 DEF Assembled
<1>3. Assembled.elements = Normalised(raw)
  BY StageSets DEF Assembled, doc, AInv, IInv, Found, Normal, AfterNormalising, AfterSignals, AfterScoring, AfterGrouping, AfterIntegrity,
            AfterHierarchy, AfterRegions, AfterIntegration, AfterRelations, AfterAssembly
<1>4. DOMAIN raw = 1..Len(raw) /\ Len(raw) \in Nat
  BY SequenceDomain DEF AreElements
<1>5. DOMAIN Normalised(raw) = DOMAIN raw
  BY DEF Normalised
<1>6. Normalised(raw) \in Seq({Normalised(raw)[i] : i \in 1..Len(raw)})
  <2>1. Normalised(raw) = [i \in 1..Len(raw) |-> Normalised(raw)[i]]
    BY <1>4 DEF Normalised
  <2> QED BY <1>4, <2>1
<1>7. Len(Normalised(raw)) = Len(raw)
  BY <1>4, <1>5, <1>6
<1> QED BY <1>2, <1>3, <1>4, <1>5, <1>7

\* What the adapter observed is in the document that comes out as it was: the
\* normaliser changes nothing but types, and no stage and no annotator changes
\* an element.
THEOREM ObservationsAreKeptAlways == Spec => []ObservationsAreKept
<1>1. AInv /\ AreElements(raw) => ObservationsAreKept
  <2> SUFFICES ASSUME AInv, AreElements(raw),
                      stage \in {"done", "audited", "reannotated", "projected", "refused", "enriched", "unenriched"}
               PROVE  Preserved(raw, result.document.elements)
    BY DEF ObservationsAreKept
  <2>1. /\ result.document.elements = Normalised(raw)
        /\ DOMAIN raw = 1..Len(raw) /\ Len(Normalised(raw)) = Len(raw)
    BY DocumentElements DEF AfterAssembly
  <2>2. \A i \in DOMAIN raw : [Normalised(raw)[i] EXCEPT !.type = raw[i].type] = raw[i]
    <3> SUFFICES ASSUME NEW i \in DOMAIN raw PROVE [Normalised(raw)[i] EXCEPT !.type = raw[i].type] = raw[i]
      OBVIOUS
    <3> DEFINE e == raw[i]
    <3>1. e = [f \in Fields |-> e[f]]
      BY <2>1, SequenceDomain DEF AreElements, IsElement, Fields
    <3>2. Normalised(raw)[i] = [e EXCEPT !.type = Resolved(e.type)]
      BY DEF Normalised
    <3> HIDE DEF e
    <3>3. [[e EXCEPT !.type = Resolved(e.type)] EXCEPT !.type = e.type] = e
      BY <3>1
    <3> QED BY <3>2, <3>3 DEF e
  <2> QED BY <2>1, <2>2 DEF Preserved
<1> QED BY <1>1, Invariance, ElementsAlways, PTL

-----------------------------------------------------------------------------
(* Units are sets of elements.                                             *)

\* A range up to the greatest of a set.
LEMMA Reaching ==
  ASSUME NEW n \in Nat, NEW i \in 1..n, NEW T \in SUBSET (i..n), T # {}
  PROVE  Max(T) \in T /\ Max(T) \in i..n /\ (\A k \in T : k <= Max(T)) /\ i..Max(T) \subseteq 1..n
<1>1. i \in Int /\ n \in Int
  OBVIOUS
<1>2. Max(T) \in T /\ \A k \in T : k <= Max(T)
  BY <1>1, ExtremeOfInterval
<1> DEFINE m == Max(T)
<1> HIDE DEF m
<1>3. m \in i..n
  BY <1>2 DEF m
<1>4. i..m \subseteq 1..n
  BY <1>3
<1> QED BY <1>2, <1>3, <1>4 DEF m

\* A run is of elements of the document.
LEMMA RunsWithin ==
  ASSUME NEW d, NEW bb, Len(d) \in Nat, NEW type, NEW minimum
  PROVE  RunsOf(d, bb, type, minimum) \subseteq SUBSET (1..Len(d))
<1> SUFFICES ASSUME NEW run \in RunsOf(d, bb, type, minimum) PROVE run \subseteq 1..Len(d)
  OBVIOUS
<1> DEFINE n == Len(d)
           T(i) == {j \in i..n : \A k \in i..j : d[k].type = type /\ (k = i \/ ~Cuts(bb, k))}
<1>1. PICK i \in 1..n : d[i].type = type /\ run = i..Max(T(i))
  BY DEF RunsOf, Runs
<1>2. i \in T(i) /\ T(i) \in SUBSET (i..n)
  BY <1>1
<1> HIDE DEF T
<1> QED BY <1>1, <1>2, Reaching

\* Blocks of text are of elements of the document.
LEMMA TextBlocksWithin ==
  ASSUME NEW d, NEW bb, Len(d) \in Nat, NEW taken
  PROVE  TextBlocks(d, bb, taken) \subseteq SUBSET (1..Len(d))
<1> SUFFICES ASSUME NEW run \in TextBlocks(d, bb, taken) PROVE run \subseteq 1..Len(d)
  OBVIOUS
<1> DEFINE n == Len(d)
           Fits(i) == i \notin taken /\ d[i].type \in FallbackTypes
           T(i) == {j \in i..n : \A k \in i..j : Fits(k) /\ (k = i \/ ~Cuts(bb, k))}
<1>1. PICK i \in 1..n : Fits(i) /\ run = i..Max(T(i))
  BY DEF TextBlocks, Runs
<1>2. i \in T(i) /\ T(i) \in SUBSET (i..n)
  BY <1>1
<1> HIDE DEF T
<1> QED BY <1>1, <1>2, Reaching

\* Questions with their answers are elements of the document.
LEMMA PairsWithin ==
  ASSUME NEW d, NEW bb, Len(d) \in Nat
  PROVE  QAPairs(d, bb) \subseteq SUBSET (1..Len(d))
<1> DEFINE n == Len(d)
           IsPair(i) == bb[i].guard = "QA_PAIR"
           V == SUBSET SUBSET (1..n)
           Made(i, before) == IF i < n /\ IsPair(i) /\ {i - 1, i} \notin before THEN before \cup {{i, i + 1}} ELSE before
           step == [p \in (1..n) \X V |-> Made(p[1], p[2])]
           Unfolds(F) == F = [i \in 0..n |->
             IF i = 0 THEN {} ELSE IF i < n /\ IsPair(i) /\ {i - 1, i} \notin F[i - 1]
                                   THEN F[i - 1] \cup {{i, i + 1}} ELSE F[i - 1]]
<1>1. ASSUME NEW i \in 1..n, NEW before \in V PROVE Made(i, before) \in V
  <2>1. i < n => {i, i + 1} \subseteq 1..n
    OBVIOUS
  <2> QED BY <2>1
<1>2. IsIteration(n, V, {}, step)
  <2>1. \A p \in (1..n) \X V : step[p] \in V
    <3> SUFFICES ASSUME NEW i \in 1..n, NEW before \in V PROVE step[<<i, before>>] \in V
      OBVIOUS
    <3>1. step[<<i, before>>] = Made(i, before)
      OBVIOUS
    <3> QED BY <1>1, <3>1
  <2>2. {} \in V
    OBVIOUS
  <2>3. step \in [(1..n) \X V -> V]
    <3> HIDE DEF V, Made
    <3> QED BY <2>1
  <2> HIDE DEF V, step
  <2> QED BY <2>2, <2>3 DEF IsIteration
<1>3. PICK f \in [0..n -> V] : f[0] = {} /\ \A i \in 1..n : f[i] = step[<<i, f[i - 1]>>]
  <2> HIDE DEF V, step
  <2> QED BY <1>2, IterationExists
<1>4. Unfolds(f)
  <2>1. ASSUME NEW i \in 1..n PROVE f[i] = Made(i, f[i - 1])
    <3>1. f[i - 1] \in V
      OBVIOUS
    <3> HIDE DEF V, Made
    <3> QED BY <1>3, <3>1
  <2>2. f = [i \in 0..n |-> f[i]]
    OBVIOUS
  <2>3. \A i \in 0..n : i = 0 \/ i \in 1..n
    OBVIOUS
  <2>4. \A i \in 0..n : f[i] = IF i = 0 THEN {} ELSE Made(i, f[i - 1])
    <3> HIDE DEF V, Made
    <3> QED BY <1>3, <2>1, <2>3
  <2> HIDE DEF step, V
  <2> QED BY <2>2, <2>4
<1>5. ASSUME NEW F, Unfolds(F) PROVE \A i \in 0..n : F[i] \in V
  <2> DEFINE G == {i \in 0..n : F[i] \in V}
  <2>0. 0 \in 0..n /\ \A i \in 1..n : i \in 0..n /\ i # 0
    OBVIOUS
  <2>1. F[0] = {} /\ \A i \in 1..n : F[i] = Made(i, F[i - 1])
    BY <1>5, <2>0
  <2>2. Inductive(0, n, G)
    <3>1. 0 \in G
      BY <2>1
    <3>2. ASSUME NEW i \in 0..(n - 1), i \in G PROVE i + 1 \in G
      <4>1. i + 1 \in 1..n /\ (i + 1) - 1 = i
        OBVIOUS
      <4>2. F[i + 1] = Made(i + 1, F[i]) /\ F[i] \in V
        BY <2>1, <3>2, <4>1
      <4>3. F[i + 1] \in V
        <5> HIDE DEF V, Made
        <5> QED BY <1>1, <4>1, <4>2
      <4> QED BY <4>1, <4>3
    <3> QED BY <3>1, <3>2 DEF Inductive
  <2> HIDE DEF G
  <2>3. \A i \in 0..n : i \in G
    BY <2>2, UpTo
  <2> QED BY <2>3 DEF G
<1> DEFINE paired == CHOOSE F : Unfolds(F)
<1>6. Unfolds(paired)
  BY <1>4
<1>7. QAPairs(d, bb) = paired[n]
  BY DEF QAPairs
<1> HIDE DEF Unfolds, paired
<1>8. paired[n] \in V
  BY <1>5, <1>6
<1> QED BY <1>7, <1>8

BeginsList(d, bb, taken, i) ==
  /\ i \notin taken /\ IsMarker(d[i])
  /\ "parenthesized" \in d[i].marks \/ IsIntroduced(d, i)
  /\ Cardinality({k \in LexicalList(d, bb, taken, i) : IsMarker(d[k])}) >= MinListMarkers

\* A list that begins with a paragraph is of elements of the document.
LEMMA LexicalListWithin ==
  ASSUME NEW d, NEW bb, Len(d) \in Nat, NEW taken, NEW i \in 1..Len(d), BeginsList(d, bb, taken, i)
  PROVE  LexicalList(d, bb, taken, i) \subseteq 1..Len(d) /\ Max(LexicalList(d, bb, taken, i)) \in i..Len(d)
<1> DEFINE n == Len(d)
           Free(k) == k \notin taken /\ (IsMarker(d[k]) \/ IsBlankParagraph(d[k]))
           Reaches(m) ==
             /\ IsMarker(d[m])
             /\ \A k \in i..m : Free(k) /\ (k = i \/ ~Cuts(bb, k))
             /\ \A k \in i..(m - MaxBlanks) : \E j \in k..(k + MaxBlanks) : IsMarker(d[j])
           T == {m \in i..n : Reaches(m)}
           last == Max(T)
<1>1. Reaches(i)
  <2>1. IsMarker(d[i]) /\ i \notin taken
    BY DEF BeginsList
  <2>2. MaxBlanks \in Nat
    BY GroupingAssumption
  <2>3. \A k \in i..i : k = i
    OBVIOUS
  <2>4. \A k \in i..(i - MaxBlanks) : k = i /\ i \in k..(k + MaxBlanks)
    BY <2>2
  <2> QED BY <2>1, <2>3, <2>4
<1>2. i \in T /\ T \in SUBSET (i..n)
  <2> HIDE DEF Reaches
  <2> QED BY <1>1
<1>3. LexicalList(d, bb, taken, i) = i..last
  BY DEF LexicalList
<1> HIDE DEF T
<1>4. last \in i..n /\ i..last \subseteq 1..n
  BY <1>2, Reaching
<1> HIDE DEF last
<1>5. Max(i..last) \in i..last
  <2> DEFINE R == i..last
  <2>1. R # {} /\ R \in SUBSET (i..last) /\ i \in Int /\ last \in Int
    BY <1>4
  <2> HIDE DEF R
  <2>2. Max(R) \in R
    BY <2>1, ExtremeOfInterval
  <2> QED BY <2>2 DEF R
<1> QED BY <1>3, <1>4, <1>5

\* Lists are of elements of the document.
LEMMA ListsWithin ==
  ASSUME NEW d, NEW bb, Len(d) \in Nat, NEW taken
  PROVE  LexicalLists(d, bb, taken) \subseteq SUBSET (1..Len(d))
<1> DEFINE n == Len(d)
           S == 1..(n + 1)
           V == SUBSET SUBSET (1..n)
           rank == [i \in S |-> n + 1 - i]
           Begins(i) == BeginsList(d, bb, taken, i)
           List(i) == LexicalList(d, bb, taken, i)
           Made(i, f) == IF i > n THEN {} ELSE IF Begins(i) THEN {List(i)} \cup f[Max(List(i)) + 1] ELSE f[i + 1]
           step == [p \in S \X [S -> V] |-> Made(p[1], p[2])]
           Unfolds(from) == from = [i \in S |->
             IF i > n THEN {}
             ELSE IF Begins(i)
                  THEN {LexicalList(d, bb, taken, i)} \cup from[Max(LexicalList(d, bb, taken, i)) + 1]
                  ELSE from[i + 1]]
<1>1. ASSUME NEW i \in S, ~(i > n)
      PROVE  /\ i \in 1..n /\ i + 1 \in S /\ rank[i + 1] < rank[i]
             /\ Begins(i) => List(i) \in SUBSET (1..n) /\ Max(List(i)) + 1 \in S /\ rank[Max(List(i)) + 1] < rank[i]
  <2>1. i \in 1..n
    BY <1>1
  <2>2. ASSUME Begins(i) PROVE List(i) \in SUBSET (1..n) /\ Max(List(i)) \in i..n
    BY <2>1, <2>2, LexicalListWithin
  <2> HIDE DEF Begins, List
  <2> QED BY <2>1, <2>2
<1> HIDE DEF Begins, List
<1>2. \A i \in S : \A f : (\A y \in S : rank[y] < rank[i] => f[y] \in V) => Made(i, f) \in V
  <2> SUFFICES ASSUME NEW i \in S, NEW f, \A y \in S : rank[y] < rank[i] => f[y] \in V PROVE Made(i, f) \in V
    OBVIOUS
  <2> HIDE DEF S, rank
  <2> QED BY <1>1
<1>3. \A i \in S : \A g, h : (\A y \in S : rank[y] < rank[i] => g[y] = h[y]) => Made(i, g) = Made(i, h)
  <2> SUFFICES ASSUME NEW i \in S, NEW g, NEW h, \A y \in S : rank[y] < rank[i] => g[y] = h[y] PROVE Made(i, g) = Made(i, h)
    OBVIOUS
  <2> HIDE DEF S, rank
  <2> QED BY <1>1
<1>4. rank \in [S -> Nat]
  OBVIOUS
<1>5. \A i \in S : \A g \in [S -> V] : step[<<i, g>>] = Made(i, g)
  OBVIOUS
<1>6. \A F : Unfolds(F) <=> F = [i \in S |-> Made(i, F)]
  BY DEF List
<1> HIDE DEF Made, Unfolds, rank
<1>7. \E f : Unfolds(f)
  <2>1. V # {}
    <3>1. {} \in V
      OBVIOUS
    <3> QED BY <3>1
  <2>2. step \in [S \X [S -> V] -> V]
    <3>1. \A p \in S \X [S -> V] : Made(p[1], p[2]) \in V
      <4> SUFFICES ASSUME NEW i \in S, NEW g \in [S -> V] PROVE Made(i, g) \in V
        OBVIOUS
      <4>1. \A y \in S : g[y] \in V
        OBVIOUS
      <4> HIDE DEF S, V
      <4> QED BY <1>2, <4>1
    <3> HIDE DEF S, V
    <3> QED BY <3>1
  <2> HIDE DEF step, S, V
  <2>3. LooksDown(S, V, rank, step)
    BY <1>3, <1>5 DEF LooksDown
  <2>4. IsRecursion(S, V, rank, step)
    BY <1>4, <2>1, <2>2, <2>3 DEF IsRecursion
  <2>5. PICK f \in [S -> V] : \A i \in S : f[i] = step[<<i, f>>]
    BY <2>4, RecursionHasSolution
  <2>6. f = [i \in S |-> Made(i, f)]
    BY <1>5, <2>5
  <2> QED BY <1>6, <2>6
<1>8. ASSUME NEW F, Unfolds(F) PROVE \A i \in S : F[i] \in V
  <2> DEFINE G == {i \in S : F[i] \in V}
  <2> HIDE DEF S, V
  <2>1. \A i \in S : F[i] = Made(i, F)
    BY <1>6, <1>8
  <2>2. Inherited(S, rank, G)
    BY <1>2, <2>1 DEF Inherited
  <2>3. S \subseteq G
    <3> HIDE DEF G
    <3> QED BY <1>4, <2>2, RankInduction
  <2> QED BY <2>3
<1> DEFINE from == CHOOSE F : Unfolds(F)
<1>9. Unfolds(from)
  BY <1>7
<1>10. LexicalLists(d, bb, taken) = from[1]
  BY DEF LexicalLists, Unfolds, BeginsList, Begins
<1> HIDE DEF from
<1>11. from[1] \in V
  <2>1. 1 \in S
    OBVIOUS
  <2> HIDE DEF S, V
  <2> QED BY <1>8, <1>9, <2>1
<1> QED BY <1>10, <1>11

-----------------------------------------------------------------------------
(* What must stay together is in one span.                                 *)

\* The families of the types.
LEMMA FamilyNames == \A type : Family(type) \in Families \cup {None}
BY DEF Family, Families

\* The spans over d of elements of one family.
SpanSet(d) ==
  {s \in [family : Families, members : SUBSET DOMAIN d, groups : SUBSET NativeGroups(d),
          parent : (UNION {ParentsOf(d, g) : g \in NativeGroups(d)}) \cup {None}] :
     s.members # {} /\ \A i \in s.members : Family(d[i].type) = s.family}

\* A document, and groups in it that each are of one family.
IsGrouped(d) ==
  /\ Len(d) \in Nat /\ DOMAIN d = 1..Len(d)
  /\ \A g \in NativeGroups(d) :
       /\ Cardinality({Family(d[i].type) : i \in GroupMembers(d, g)}) = 1
       /\ Cardinality(ParentsOf(d, g)) = 1

\* A native group has members, and a first one.
LEMMA GroupsHaveMembers ==
  ASSUME NEW d, Len(d) \in Nat, DOMAIN d = 1..Len(d), NEW g \in NativeGroups(d)
  PROVE  /\ GroupMembers(d, g) # {} /\ GroupMembers(d, g) \subseteq Keyed(d) /\ Keyed(d) \subseteq 1..Len(d)
         /\ Min(GroupMembers(d, g)) \in GroupMembers(d, g)
         /\ \A i \in GroupMembers(d, g) : d[i].group = g /\ Min(GroupMembers(d, g)) <= i
<1> DEFINE members == GroupMembers(d, g)
<1>1. members # {} /\ members \subseteq Keyed(d) /\ Keyed(d) \subseteq 1..Len(d) /\ \A i \in members : d[i].group = g
  BY DEF NativeGroups, GroupMembers, Keyed
<1> HIDE DEF members
<1>2. members \in SUBSET (1..Len(d)) /\ 1 \in Int /\ Len(d) \in Int
  BY <1>1
<1>3. Min(members) \in members /\ \A i \in members : Min(members) <= i
  BY <1>1, <1>2, ExtremeOfInterval
<1> QED BY <1>1, <1>3 DEF members

\* The span of a native group has its members.
LEMMA SpansOfGroups ==
  ASSUME NEW d, IsGrouped(d), NEW g \in NativeGroups(d)
  PROVE  Span(d, g) \in SpanSet(d) /\ Span(d, g).members = GroupMembers(d, g)
<1> DEFINE members == GroupMembers(d, g)
           first == Min(members)
           families == {Family(d[i].type) : i \in members}
<1>1. /\ members # {} /\ members \subseteq Keyed(d) /\ Keyed(d) \subseteq DOMAIN d /\ first \in members
      /\ DOMAIN d = 1..Len(d) /\ Len(d) \in Nat
  BY GroupsHaveMembers DEF IsGrouped
<1> HIDE DEF first
<1>2. \A i \in members : Family(d[i].type) = Family(d[first].type)
  <2>1. IsFiniteSet(families)
    <3> DEFINE of == [i \in members |-> Family(d[i].type)]
    <3>1. of \in Surjection(members, families)
      BY DEF Surjection
    <3>2. IsFiniteSet(members)
      <4>1. IsFiniteSet(1..Len(d))
        BY <1>1, FS_Interval
      <4> HIDE DEF members
      <4> QED BY <1>1, <4>1, FS_Subset
    <3> HIDE DEF of, members, families
    <3> QED BY <3>1, <3>2, FS_Surjection
  <2>2. Cardinality(families) = 1
    BY DEF IsGrouped
  <2>3. PICK x : families = {x}
    <3> HIDE DEF families
    <3> QED BY <2>1, <2>2, FS_Singleton
  <2>4. \A i \in members : Family(d[i].type) \in families
    OBVIOUS
  <2> HIDE DEF families
  <2> QED BY <1>1, <2>3, <2>4
<1>3. Family(d[first].type) \in Families
  BY <1>1, FamilyNames DEF Keyed
<1>4. (CHOOSE p \in ParentsOf(d, g) : TRUE) \in ParentsOf(d, g)
  <2>1. d[first].parent \in ParentsOf(d, g)
    BY <1>1 DEF ParentsOf
  <2> QED BY <2>1
<1>5. Span(d, g) = [family |-> Family(d[first].type), members |-> members, groups |-> {g},
                    parent |-> CHOOSE p \in ParentsOf(d, g) : TRUE]
  BY DEF Span, first
<1> DEFINE r == [family |-> Family(d[first].type), members |-> members, groups |-> {g},
                 parent |-> CHOOSE p \in ParentsOf(d, g) : TRUE]
<1> HIDE DEF members
<1>6. members \in SUBSET DOMAIN d /\ {g} \in SUBSET NativeGroups(d)
  BY <1>1
<1>7. r.parent \in (UNION {ParentsOf(d, h) : h \in NativeGroups(d)}) \cup {None}
  BY <1>4
<1>8. /\ r \in [family : Families, members : SUBSET DOMAIN d, groups : SUBSET NativeGroups(d),
                 parent : (UNION {ParentsOf(d, h) : h \in NativeGroups(d)}) \cup {None}]
      /\ r.members = members /\ r.family = Family(d[first].type)
  BY <1>3, <1>6, <1>7
<1> HIDE DEF r
<1>9. r \in SpanSet(d)
  BY <1>1, <1>2, <1>8 DEF SpanSet
<1> QED BY <1>5, <1>8, <1>9 DEF members, r

Added(d, bb, spans, t) ==
  IF spans # <<>> /\ Continues(d, bb, spans[Len(spans)], t)
  THEN [spans EXCEPT ![Len(spans)] = Joined(@, t)]
  ELSE Append(spans, t)

\* Two spans joined, field by field.
LEMMA JoinedFields ==
  ASSUME NEW family, NEW members, NEW groups, NEW parent, NEW s, NEW t,
         s = [family |-> family, members |-> members, groups |-> groups, parent |-> parent]
  PROVE  Joined(s, t) = [family |-> family, members |-> members \cup t.members, groups |-> groups \cup t.groups,
                         parent |-> IF parent = t.parent THEN parent ELSE None]
<1> DEFINE j == Joined(s, t)
           Names == {"family", "members", "groups", "parent"}
           one == IF parent = t.parent THEN parent ELSE None
<1>1. j = [name \in Names |-> j[name]]
  BY DEF Joined
<1>2. j.family = family /\ j.members = members \cup t.members /\ j.groups = groups \cup t.groups
  BY DEF Joined
<1>3. j.parent = one
  <2>1. DOMAIN s = Names /\ s.parent = parent
    OBVIOUS
  <2> HIDE DEF Names
  <2> QED BY <2>1 DEF Joined, Names
<1> HIDE DEF one
<1>4. j = [family |-> family, members |-> members \cup t.members, groups |-> groups \cup t.groups, parent |-> one]
  <2> HIDE DEF j
  <2> QED BY <1>1, <1>2, <1>3
<1> QED BY <1>4 DEF one

AreKept(spans, t, added) == \A s \in ToSet(spans) \cup {t} : \E r \in ToSet(added) : s.members \subseteq r.members

\* A span that is added to others is in one of them, and each of them still is.
LEMMA SpansAreAdded ==
  ASSUME NEW d, NEW bb, NEW spans \in Seq(SpanSet(d)), NEW t \in SpanSet(d)
  PROVE  /\ Added(d, bb, spans, t) \in Seq(SpanSet(d))
         /\ AreKept(spans, t, Added(d, bb, spans, t))
<1> DEFINE n == Len(spans)
           added == Added(d, bb, spans, t)
           SS == SpanSet(d)
<1>0. n \in Nat /\ DOMAIN spans = 1..n /\ \A k \in 1..n : spans[k] \in SS
  OBVIOUS
<1>1. CASE spans # <<>> /\ Continues(d, bb, spans[n], t)
  <2> DEFINE s == spans[n]
             joined == Joined(s, t)
  <2>1. n \in 1..n /\ s \in SS
    BY <1>1
  <2>2. s.family = "list" /\ t.family = "list"
    BY <1>1 DEF Continues
  <2> HIDE DEF s
  <2>3. joined \in SS /\ joined.members = s.members \cup t.members
    <3> DEFINE Shape == [family : Families, members : SUBSET DOMAIN d, groups : SUBSET NativeGroups(d),
                         parent : (UNION {ParentsOf(d, g) : g \in NativeGroups(d)}) \cup {None}]
    <3>1. s \in Shape /\ t \in Shape
      BY <2>1 DEF SpanSet
    <3> DEFINE Parents == (UNION {ParentsOf(d, g) : g \in NativeGroups(d)}) \cup {None}
    <3>2. None \in Parents
      OBVIOUS
    <3> HIDE DEF Parents
    <3>3. joined = [family |-> s.family, members |-> s.members \cup t.members, groups |-> s.groups \cup t.groups,
                    parent |-> IF s.parent = t.parent THEN s.parent ELSE None]
      <4>1. s = [family |-> s.family, members |-> s.members, groups |-> s.groups, parent |-> s.parent]
        BY <3>1
      <4> QED BY <4>1, JoinedFields
    <3>4. joined \in Shape /\ joined.members = s.members \cup t.members /\ joined.family = s.family
      BY <3>1, <3>2, <3>3 DEF Parents
    <3>5. \A i \in joined.members : Family(d[i].type) = joined.family
      BY <2>1, <2>2, <3>4 DEF SpanSet
    <3>6. joined.members # {}
      BY <2>1, <3>4 DEF SpanSet
    <3> HIDE DEF Shape
    <3> QED BY <3>4, <3>5, <3>6 DEF SpanSet, Shape
  <2>4. added = [spans EXCEPT ![n] = joined]
    BY <1>1 DEF Added, s
  <2> HIDE DEF joined, added, SS
  <2>5. added \in Seq(SS) /\ Len(added) = n /\ DOMAIN added = 1..n /\ added[n] = joined /\ \A k \in 1..n : k # n => added[k] = spans[k]
    <3>1. spans \in [1..n -> SS]
      BY <1>0 DEF SS
    <3> HIDE DEF n
    <3>2. added \in [1..n -> SS] /\ added[n] = joined /\ \A k \in 1..n : k # n => added[k] = spans[k]
      BY <2>1, <2>3, <2>4, <3>1 DEF n
    <3>3. n \in Nat
      BY <1>0
    <3>4. added \in Seq(SS) /\ DOMAIN added = 1..n
      BY <3>2, <3>3
    <3>5. Len(added) = n
      BY <3>3, <3>4
    <3> QED BY <3>2, <3>4, <3>5
  <2>6. ASSUME NEW r \in ToSet(spans) \cup {t} PROVE \E q \in ToSet(added) : r.members \subseteq q.members
    <3>1. CASE r = t
      BY <2>1, <2>3, <2>5, <3>1 DEF ToSet
    <3>2. CASE r \in ToSet(spans)
      <4>1. PICK k \in 1..n : r = spans[k]
        BY <1>0, <3>2 DEF ToSet
      <4>2. CASE k = n
        BY <2>1, <2>3, <2>5, <4>1, <4>2 DEF ToSet, s
      <4>3. CASE k # n
        BY <2>5, <4>1, <4>3 DEF ToSet
      <4> QED BY <4>2, <4>3
    <3> QED BY <3>1, <3>2
  <2> QED BY <2>5, <2>6 DEF added, SS, AreKept
<1>2. CASE ~(spans # <<>> /\ Continues(d, bb, spans[n], t))
  <2>1. added = Append(spans, t)
    BY <1>2 DEF Added
  <2> HIDE DEF added, SS
  <2>2. added \in Seq(SS) /\ DOMAIN added = 1..(n + 1) /\ added[n + 1] = t /\ \A k \in 1..n : added[k] = spans[k]
    BY <1>0, <2>1 DEF SS
  <2>3. ASSUME NEW r \in ToSet(spans) \cup {t} PROVE r \in ToSet(added)
    BY <1>0, <2>2 DEF ToSet
  <2> QED BY <2>2, <2>3 DEF added, SS, AreKept
<1> QED BY <1>1, <1>2

-----------------------------------------------------------------------------
(* The paths of the hierarchy.                                             *)

\* Candidates for headings have levels, and are elements.
AreLevels(levels, n) == n \in Nat /\ DOMAIN levels \subseteq 1..n /\ \A i \in DOMAIN levels : levels[i] \in Int

\* The stack after i elements: the headings that are open, in order.
IsOpenPath(levels, path, i) ==
  /\ path \in Seq(Nat)
  /\ ToSet(path) = OpenAt(levels, i)
  /\ \A k, l \in DOMAIN path : k < l => path[k] < path[l] /\ levels[path[k]] < levels[path[l]]

\* What is left of a stack are the headings below the first that is closed.
LEMMA PopIsPrefix ==
  ASSUME NEW stack \in Seq(Nat), NEW levels, NEW level
  PROVE  \E last \in 0..Len(stack) :
           /\ Pop(stack, levels, level) \in Seq(Nat)
           /\ Pop(stack, levels, level) = [k \in 1..last |-> stack[k]]
           /\ last # 0 => levels[stack[last]] < level
           /\ \A k \in 1..Len(stack) : levels[stack[k]] < level => k <= last
<1> DEFINE T == {0} \cup {k \in DOMAIN stack : levels[stack[k]] < level}
           last == Max(T)
<1>1. DOMAIN stack = 1..Len(stack) /\ Len(stack) \in Nat
  OBVIOUS
<1>2. T \in SUBSET Int /\ T # {} /\ Len(stack) \in Int /\ \A k \in T : k <= Len(stack)
  BY <1>1
<1>3. last \in T /\ \A k \in T : k <= last
  <2> HIDE DEF T
  <2> QED BY <1>2, GreatestNumber
<1>4. last \in 0..Len(stack) /\ (last # 0 => levels[stack[last]] < level)
  <2> HIDE DEF last
  <2> QED BY <1>1, <1>3
<1>5. Pop(stack, levels, level) = SubSeq(stack, 1, last)
  BY DEF Pop
<1> HIDE DEF last
<1>6. SubSeq(stack, 1, last) = [k \in 1..last |-> stack[k]] /\ SubSeq(stack, 1, last) \in Seq(Nat)
  BY <1>1, <1>4
<1> QED BY <1>1, <1>3, <1>4, <1>5, <1>6

\* A heading closes those of its level and below, and is open itself.
LEMMA PathGrows ==
  ASSUME NEW levels, NEW n, AreLevels(levels, n), NEW i \in DOMAIN levels, NEW stack, IsOpenPath(levels, stack, i - 1)
  PROVE  IsOpenPath(levels, Append(Pop(stack, levels, levels[i]), i), i)
<1> DEFINE popped == Pop(stack, levels, levels[i])
           path == Append(popped, i)
<1>0. /\ stack \in Seq(Nat) /\ Len(stack) \in Nat /\ i \in 1..n /\ levels[i] \in Int /\ i \in Nat
      /\ DOMAIN levels \subseteq 1..n /\ n \in Nat /\ DOMAIN stack = 1..Len(stack)
      /\ \A k, l \in 1..Len(stack) : k < l => stack[k] < stack[l] /\ levels[stack[k]] < levels[stack[l]]
      /\ \A k \in DOMAIN levels : levels[k] \in Int
  BY DEF IsOpenPath, AreLevels
<1>1. PICK last \in 0..Len(stack) :
        /\ popped \in Seq(Nat)
        /\ popped = [k \in 1..last |-> stack[k]]
        /\ last # 0 => levels[stack[last]] < levels[i]
        /\ \A k \in 1..Len(stack) : levels[stack[k]] < levels[i] => k <= last
  BY <1>0, PopIsPrefix
<1> HIDE DEF popped
<1>2. last \in Nat /\ Len(popped) = last
  BY <1>0, <1>1
<1>3. /\ path \in Seq(Nat) /\ DOMAIN path = 1..(last + 1) /\ path[last + 1] = i
      /\ \A k \in 1..last : path[k] = stack[k] /\ k \in 1..Len(stack)
  BY <1>0, <1>1, <1>2
<1> HIDE DEF path
<1>4. \A h : h \in OpenAt(levels, i - 1) <=> \E k \in 1..Len(stack) : h = stack[k]
  BY <1>0 DEF IsOpenPath, ToSet
<1>5. \A k \in 1..Len(stack) : stack[k] \in DOMAIN levels /\ stack[k] <= i - 1 /\ levels[stack[k]] \in Int
  BY <1>0, <1>4 DEF OpenAt
<1>6. \A k \in 1..last : levels[stack[k]] < levels[i]
  <2> SUFFICES ASSUME NEW k \in 1..last PROVE levels[stack[k]] < levels[i]
    OBVIOUS
  <2>1. last # 0 /\ last \in 1..Len(stack) /\ k \in 1..Len(stack)
    BY <1>0, <1>2
  <2>2. k < last => levels[stack[k]] < levels[stack[last]]
    BY <1>0, <2>1
  <2>3. levels[stack[k]] \in Int /\ levels[stack[last]] \in Int /\ levels[i] \in Int
    BY <1>0, <1>5, <2>1
  <2>4. levels[stack[last]] < levels[i]
    BY <1>1, <2>1
  <2>5. k < last \/ k = last
    BY <1>2
  <2> QED BY <2>2, <2>3, <2>4, <2>5
<1>7. \A k, l \in DOMAIN path : k < l => path[k] < path[l] /\ levels[path[k]] < levels[path[l]]
  <2> SUFFICES ASSUME NEW k \in 1..(last + 1), NEW l \in 1..(last + 1), k < l
               PROVE  path[k] < path[l] /\ levels[path[k]] < levels[path[l]]
    BY <1>3
  <2>1. k \in 1..last /\ (l = last + 1 \/ l \in 1..last)
    BY <1>2
  <2>2. path[k] = stack[k] /\ k \in 1..Len(stack) /\ stack[k] <= i - 1 /\ stack[k] \in Int
    BY <1>0, <1>3, <1>5, <2>1
  <2>3. CASE l = last + 1
    BY <1>0, <1>3, <1>6, <2>1, <2>2, <2>3
  <2>4. CASE l \in 1..last
    BY <1>0, <1>3, <2>1, <2>2, <2>4
  <2> QED BY <2>1, <2>3, <2>4
<1>8. ASSUME NEW h PROVE h \in OpenAt(levels, i) <=> h = i \/ (h \in OpenAt(levels, i - 1) /\ levels[h] < levels[i])
  <2>1. h \in DOMAIN levels => h \in Int
    BY <1>0
  <2>2. h \in OpenAt(levels, i) => h = i \/ (h \in OpenAt(levels, i - 1) /\ levels[h] < levels[i])
    BY <1>0, <2>1 DEF OpenAt
  <2>3. i \in OpenAt(levels, i)
    BY <1>0 DEF OpenAt
  <2>4. ASSUME h \in OpenAt(levels, i - 1), levels[h] < levels[i] PROVE h \in OpenAt(levels, i)
    <3>1. h \in DOMAIN levels /\ h \in Int /\ h <= i - 1 /\ \A k \in DOMAIN levels : h < k /\ k <= i - 1 => levels[k] > levels[h]
      BY <2>1, <2>4 DEF OpenAt
    <3>2. ASSUME NEW k \in DOMAIN levels, h < k, k <= i PROVE levels[k] > levels[h]
      <4>1. k = i \/ k <= i - 1
        BY <1>0, <3>2
      <4> QED BY <1>0, <2>4, <3>1, <3>2, <4>1
    <3> QED BY <1>0, <3>1, <3>2 DEF OpenAt
  <2> QED BY <2>2, <2>3, <2>4
<1>9. ToSet(path) = OpenAt(levels, i)
  <2>1. ASSUME NEW h \in ToSet(path) PROVE h \in OpenAt(levels, i)
    <3>1. PICK k \in 1..(last + 1) : h = path[k]
      BY <1>3 DEF ToSet
    <3>2. k = last + 1 \/ k \in 1..last
      BY <1>2
    <3> QED BY <1>3, <1>4, <1>6, <1>8, <3>1, <3>2
  <2>2. ASSUME NEW h \in OpenAt(levels, i) PROVE h \in ToSet(path)
    <3>1. CASE h = i
      <4>1. last + 1 \in DOMAIN path
        BY <1>2, <1>3
      <4> QED BY <1>3, <3>1, <4>1 DEF ToSet
    <3>2. CASE h # i
      <4>1. PICK k \in 1..Len(stack) : h = stack[k] /\ levels[h] < levels[i]
        BY <1>4, <1>8, <2>2, <3>2
      <4>2. k \in 1..last /\ k \in DOMAIN path
        BY <1>1, <1>2, <1>3, <4>1
      <4> QED BY <1>3, <4>1, <4>2 DEF ToSet
    <3> QED BY <3>1, <3>2
  <2> QED BY <2>1, <2>2
<1> QED BY <1>3, <1>7, <1>9 DEF IsOpenPath, path, popped

\* Other elements close nothing.
LEMMA PathStays ==
  ASSUME NEW levels, NEW n, AreLevels(levels, n), NEW i \in 1..n, i \notin DOMAIN levels, NEW stack, IsOpenPath(levels, stack, i - 1)
  PROVE  IsOpenPath(levels, stack, i)
<1>1. \A h \in DOMAIN levels : h \in Int /\ (h <= i <=> h <= i - 1)
  BY DEF AreLevels
<1>2. OpenAt(levels, i) = OpenAt(levels, i - 1)
  BY <1>1 DEF OpenAt
<1> QED BY <1>2 DEF IsOpenPath

\* The path at each element is the stack there.
LEMMA PathsAreOpen ==
  ASSUME NEW d, NEW levels, AreLevels(levels, Len(d)), DOMAIN d = 1..Len(d)
  PROVE  /\ DOMAIN Paths(d, levels) = DOMAIN d
         /\ \A i \in DOMAIN d : IsOpenPath(levels, Paths(d, levels)[i], i)
<1> DEFINE n == Len(d)
           V == Seq(Nat)
           Made(i, before) == IF i \in DOMAIN levels THEN Append(Pop(before, levels, levels[i]), i) ELSE before
           step == [p \in (1..n) \X V |-> Made(p[1], p[2])]
           Unfolds(F) == F = [i \in 0..n |->
             IF i = 0 THEN <<>>
             ELSE IF i \in DOMAIN levels THEN Append(Pop(F[i - 1], levels, levels[i]), i) ELSE F[i - 1]]
<1>0. n \in Nat /\ DOMAIN levels \subseteq 1..n
  BY DEF AreLevels
<1>1. ASSUME NEW i \in 1..n, NEW before \in V PROVE Made(i, before) \in V
  <2>1. Pop(before, levels, levels[i]) \in Seq(Nat)
    BY PopIsPrefix
  <2> QED BY <1>0, <2>1
<1>2. IsIteration(n, V, <<>>, step)
  <2>1. \A p \in (1..n) \X V : step[p] \in V
    <3> SUFFICES ASSUME NEW i \in 1..n, NEW before \in V PROVE step[<<i, before>>] \in V
      OBVIOUS
    <3>1. step[<<i, before>>] = Made(i, before)
      OBVIOUS
    <3> QED BY <1>1, <3>1
  <2>2. <<>> \in V
    OBVIOUS
  <2>3. step \in [(1..n) \X V -> V]
    <3> HIDE DEF V, Made
    <3> QED BY <2>1
  <2> HIDE DEF V, step
  <2> QED BY <1>0, <2>2, <2>3 DEF IsIteration
<1>3. PICK f \in [0..n -> V] : f[0] = <<>> /\ \A i \in 1..n : f[i] = step[<<i, f[i - 1]>>]
  <2> HIDE DEF V, step
  <2> QED BY <1>2, IterationExists
<1>4. Unfolds(f)
  <2>1. ASSUME NEW i \in 1..n PROVE f[i] = Made(i, f[i - 1])
    <3>1. f[i - 1] \in V
      BY <1>0
    <3> HIDE DEF V, Made
    <3> QED BY <1>3, <3>1
  <2>2. f = [i \in 0..n |-> f[i]]
    OBVIOUS
  <2>3. \A i \in 0..n : i = 0 \/ i \in 1..n
    BY <1>0
  <2>4. \A i \in 0..n : f[i] = IF i = 0 THEN <<>> ELSE Made(i, f[i - 1])
    <3> HIDE DEF V, Made
    <3> QED BY <1>3, <2>1, <2>3
  <2> HIDE DEF step, V
  <2> QED BY <2>2, <2>4
<1>5. ASSUME NEW F, Unfolds(F) PROVE \A i \in 0..n : IsOpenPath(levels, F[i], i)
  <2> DEFINE G == {i \in 0..n : IsOpenPath(levels, F[i], i)}
  <2>0. 0 \in 0..n /\ \A i \in 1..n : i \in 0..n /\ i # 0
    BY <1>0
  <2>1. F[0] = <<>> /\ \A i \in 1..n : F[i] = Made(i, F[i - 1])
    BY <1>5, <2>0
  <2>2. Inductive(0, n, G)
    <3>1. 0 \in G
      <4>1. OpenAt(levels, 0) = {}
        BY <1>0 DEF OpenAt
      <4>2. <<>> \in Seq(Nat) /\ DOMAIN <<>> = {}
        OBVIOUS
      <4>3. ToSet(<<>>) = {}
        BY <4>2 DEF ToSet
      <4>4. IsOpenPath(levels, <<>>, 0)
        BY <4>1, <4>2, <4>3 DEF IsOpenPath
      <4> QED BY <2>0, <2>1, <4>4
    <3>2. ASSUME NEW i \in 0..(n - 1), i \in G PROVE i + 1 \in G
      <4>1. i + 1 \in 1..n /\ (i + 1) - 1 = i /\ i + 1 \in 0..n
        BY <1>0
      <4>2. F[i + 1] = Made(i + 1, F[i]) /\ IsOpenPath(levels, F[i], (i + 1) - 1)
        BY <2>1, <3>2, <4>1
      <4> DEFINE k == i + 1
      <4>3. IsOpenPath(levels, F[k], k)
        <5> HIDE DEF k
        <5>1. CASE k \in DOMAIN levels
          BY <4>1, <4>2, <5>1, PathGrows DEF k
        <5>2. CASE k \notin DOMAIN levels
          BY <4>1, <4>2, <5>2, PathStays DEF k
        <5> QED BY <5>1, <5>2
      <4> QED BY <4>1, <4>3
    <3> QED BY <3>1, <3>2 DEF Inductive
  <2> HIDE DEF G
  <2>3. \A i \in 0..n : i \in G
    BY <1>0, <2>2, UpTo
  <2> QED BY <2>3 DEF G
<1> DEFINE path == CHOOSE F : Unfolds(F)
<1>6. Unfolds(path)
  BY <1>4
<1>7. Paths(d, levels) = [i \in DOMAIN d |-> path[i]]
  BY DEF Paths
<1> HIDE DEF Unfolds, path
<1>8. \A i \in 1..n : i \in 0..n
  BY <1>0
<1> QED BY <1>5, <1>6, <1>7, <1>8

\* The elements of a document, and its inferred sections, have levels.
LEMMA OutlineHasLevels ==
  ASSUME NEW d, NEW o \in Outline(d)
  PROVE  o.level \in {0, 1, 2}
<1>1. \A positions, level, role : \A p \in Outlined(positions, level, role) : p.level = level
  BY DEF Outlined
<1>2. o \in DocumentOutline(d) \/ o \in PrefaceOutline(d)
  BY DEF Outline
<1>3. CASE o \in DocumentOutline(d)
  BY <1>1, <1>3 DEF DocumentOutline
<1>4. CASE o \in PrefaceOutline(d)
  BY <1>1, <1>4 DEF PrefaceOutline
<1> QED BY <1>2, <1>3, <1>4

\* The levels are numbers, also those that were calibrated.
LEMMA LevelsOfHierarchy ==
  ASSUME NEW d, Len(d) \in Nat, DOMAIN d = 1..Len(d), \A i \in DOMAIN d : {d[i].level, d[i].marker} \subseteq Nat
  PROVE  AreLevels(Calibrated(d, Candidates(d, Outline(d))), Len(d))
<1> DEFINE candidates == Candidates(d, Outline(d))
           levels == Calibrated(d, candidates)
<1>1. DOMAIN candidates \subseteq 1..Len(d)
  BY DEF Candidates
<1>2. ASSUME NEW i \in DOMAIN candidates PROVE candidates[i] \in Int
  <2>1. candidates[i] = ClaimedLevel(d[i], Inferred(Outline(d), i)) /\ d[i].level \in Int /\ d[i].marker \in Int
    BY <1>1 DEF Candidates
  <2>2. \A o \in Inferred(Outline(d), i) : o.level \in Int
    BY OutlineHasLevels DEF Inferred
  <2> DEFINE inferred == Inferred(Outline(d), i)
  <2>3. inferred # {} => (CHOOSE o \in inferred : TRUE) \in inferred
    OBVIOUS
  <2> HIDE DEF inferred
  <2>4. ClaimedLevel(d[i], inferred) \in Int
    BY <2>1, <2>2, <2>3 DEF ClaimedLevel, inferred
  <2> QED BY <2>1, <2>4 DEF inferred
<1> HIDE DEF candidates
<1>3. \A i \in 1..Len(d) : NativeLevel(d[i]) \in Int
  BY DEF NativeLevel
<1>4. DOMAIN levels = DOMAIN candidates /\ \A i \in DOMAIN levels : levels[i] \in Int
  <2> DEFINE headings == {i \in DOMAIN candidates : d[i].type = "HEADING"}
             first == Min(headings)
             second == Min(headings \ {first})
             entries == {i \in (first + 1)..(second - 1) : "navigation" \in d[i].marks}
             subtitled == /\ second = first + 1 /\ Cardinality(headings) >= 4
                          /\ d[first].level > 0 /\ d[first].level = d[second].level
             sections == headings \ ({first} \cup (IF subtitled THEN {second} ELSE {}))
             native == {i \in sections : NativeLevel(d[i]) > 0}
             baseline == NativeLevel(d[Min(native)])
             Relative(i) == IF NativeLevel(d[i]) <= baseline THEN 1 ELSE 1 + NativeLevel(d[i]) - baseline
             HasRoot == /\ 0 \notin {candidates[i] : i \in DOMAIN candidates}
                        /\ Cardinality(headings) >= MinRootHeadings
                        /\ Order(first) = 0 /\ ~HasNumber(d[first])
                        /\ subtitled \/ Cardinality(entries) >= MinRootNavigation
             calibrated == [i \in DOMAIN candidates |->
                              CASE i = first -> 0
                                [] subtitled /\ i = second -> 1
                                [] i \in native /\ ~HasNumber(d[i]) -> Relative(i)
                                [] OTHER -> candidates[i]]
  <2>1. levels = IF ~HasRoot THEN candidates ELSE calibrated
    BY DEF Calibrated
  <2>2. native \subseteq DOMAIN candidates
    OBVIOUS
  <2> HIDE DEF HasRoot, native, subtitled, first, second, candidates
  <2>3. ASSUME NEW i \in native PROVE Relative(i) \in Int
    <3>1. native \in SUBSET (1..Len(d)) /\ native # {} /\ 1 \in Int /\ Len(d) \in Int
      BY <1>1, <2>2, <2>3
    <3>2. Min(native) \in native
      BY <3>1, ExtremeOfInterval
    <3>3. baseline \in Int /\ NativeLevel(d[i]) \in Int
      BY <1>3, <3>1, <3>2
    <3> HIDE DEF baseline
    <3> QED BY <3>3
  <2> HIDE DEF Relative
  <2>4. \A i \in DOMAIN candidates : calibrated[i] \in Int
    BY <1>2, <2>3
  <2>5. DOMAIN calibrated = DOMAIN candidates
    OBVIOUS
  <2> HIDE DEF calibrated
  <2> QED BY <1>2, <2>1, <2>4, <2>5
<1> HIDE DEF levels
<1>5. AreLevels(levels, Len(d))
  BY <1>1, <1>4 DEF AreLevels
<1> QED BY <1>5 DEF levels, candidates

\* The document that the stages work on.
LEMMA StagesReadElements ==
  ASSUME AInv, AreElements(raw), stage \in AfterNormalising
  PROVE  /\ doc = Normalised(raw) /\ DOMAIN doc = 1..Len(raw) /\ DOMAIN raw = 1..Len(raw)
         /\ Len(raw) \in Nat /\ Len(doc) = Len(raw)
         /\ \A i \in 1..Len(raw) :
              /\ doc[i] = [raw[i] EXCEPT !.type = Resolved(@)]
              /\ IsElement(raw[i]) /\ raw[i] = [f \in Fields |-> raw[i][f]]
              /\ {doc[i].level, doc[i].marker} \subseteq Nat
<1>1. doc = Normalised(raw)
  BY DEF doc, AInv, IInv, Found, Normal
<1>2. DOMAIN raw = 1..Len(raw) /\ Len(raw) \in Nat /\ \A i \in 1..Len(raw) : IsElement(raw[i])
  BY SequenceDomain DEF AreElements
<1>3. Normalised(raw) \in Seq({Normalised(raw)[i] : i \in 1..Len(raw)}) /\ DOMAIN Normalised(raw) = DOMAIN raw
  <2>1. Normalised(raw) = [i \in 1..Len(raw) |-> Normalised(raw)[i]]
    BY <1>2 DEF Normalised
  <2> QED BY <1>2, <2>1
<1>4. Len(Normalised(raw)) = Len(raw)
  BY <1>2, <1>3
<1>5. ASSUME NEW i \in 1..Len(raw)
      PROVE  /\ doc[i] = [raw[i] EXCEPT !.type = Resolved(@)]
             /\ raw[i] = [f \in Fields |-> raw[i][f]]
             /\ {doc[i].level, doc[i].marker} \subseteq Nat
  <2> DEFINE e == raw[i]
  <2>1. doc[i] = [e EXCEPT !.type = Resolved(@)]
    BY <1>1, <1>2 DEF Normalised
  <2>2. e = [f \in Fields |-> e[f]] /\ {e.level, e.marker} \subseteq Nat
    BY <1>2 DEF IsElement, Fields
  <2> HIDE DEF e
  <2>3. doc[i].level = e.level /\ doc[i].marker = e.marker
    BY <2>1, <2>2 DEF Fields
  <2> QED BY <2>1, <2>2, <2>3 DEF e
<1> QED BY <1>1, <1>2, <1>3, <1>4, <1>5

\* The path of an element is made of the headings that are open there: a heading
\* closes those of its own level and below, whatever levels were inferred,
\* claimed and calibrated.
THEOREM PathsAreOpenHeadingsAlways == Spec => []PathsAreOpenHeadings
<1>1. AInv /\ AreElements(raw) => PathsAreOpenHeadings
  <2> SUFFICES ASSUME AInv, AreElements(raw), hierarchy # None,
                      NEW i \in DOMAIN hierarchy.paths
               PROVE  LET path == hierarchy.paths[i]
                      IN /\ ToSet(path) = OpenAt(hierarchy.levels, i)
                         /\ \A k \in 1..(Len(path) - 1) :
                              path[k] < path[k + 1] /\ hierarchy.levels[path[k]] < hierarchy.levels[path[k + 1]]
    BY DEF PathsAreOpenHeadings
  <2>1. stage \in AfterHierarchy /\ hierarchy = Hierarchy(doc, result.outline)
    BY DEF AInv, IInv, Found
  <2>2. stage \in AfterNormalising /\ stage \in AfterSignals
    BY <2>1 DEF AfterNormalising, AfterSignals, AfterScoring, AfterGrouping, AfterIntegrity
  <2>3. result.outline = Outline(doc)
    BY <2>2 DEF AInv, IInv, Found
  <2>4. Len(doc) \in Nat /\ DOMAIN doc = 1..Len(doc) /\ \A k \in DOMAIN doc : {doc[k].level, doc[k].marker} \subseteq Nat
    BY <2>2, StagesReadElements
  <2> DEFINE levels == Calibrated(doc, Candidates(doc, Outline(doc)))
  <2>5. hierarchy.levels = levels /\ hierarchy.paths = Paths(doc, levels)
    BY <2>1, <2>3 DEF Hierarchy
  <2>6. AreLevels(levels, Len(doc))
    BY <2>4, LevelsOfHierarchy
  <2> HIDE DEF levels
  <2> DEFINE path == Paths(doc, levels)[i]
  <2>7. IsOpenPath(levels, path, i)
    BY <2>4, <2>5, <2>6, PathsAreOpen
  <2> HIDE DEF path
  <2>8. \A k \in 1..(Len(path) - 1) : k \in DOMAIN path /\ k + 1 \in DOMAIN path /\ k < k + 1
    BY <2>7 DEF IsOpenPath
  <2>9. \A k \in 1..(Len(path) - 1) : path[k] < path[k + 1] /\ levels[path[k]] < levels[path[k + 1]]
    BY <2>7, <2>8 DEF IsOpenPath
  <2> QED BY <2>5, <2>7, <2>9 DEF IsOpenPath, path
<1> QED BY <1>1, Invariance, ElementsAlways, PTL

-----------------------------------------------------------------------------
(* Every element of a family is in a span of it.                           *)

\* What is read of a native span.
IsCovering(d, spans, i) ==
  /\ spans \in Seq(SpanSet(d))
  /\ \A g \in NativeGroups(d) :
       Min(GroupMembers(d, g)) <= i => \E s \in ToSet(spans) : GroupMembers(d, g) \subseteq s.members

\* The first element of a group adds its span to those so far.
LEMMA CoveringGrows ==
  ASSUME NEW d, NEW bb, IsGrouped(d), NEW i \in 1..Len(d), NEW spans, IsCovering(d, spans, i - 1)
  PROVE  LET firsts == {Min(GroupMembers(d, g)) : g \in NativeGroups(d)}
         IN IsCovering(d, IF i \in firsts THEN Added(d, bb, spans, Span(d, d[i].group)) ELSE spans, i)
<1> DEFINE First(g) == Min(GroupMembers(d, g))
           firsts == {First(g) : g \in NativeGroups(d)}
<1>1. /\ spans \in Seq(SpanSet(d))
      /\ \A g \in NativeGroups(d) : First(g) <= i - 1 => \E s \in ToSet(spans) : GroupMembers(d, g) \subseteq s.members
  BY DEF IsCovering
<1>2. \A g \in NativeGroups(d) :
        /\ First(g) \in GroupMembers(d, g) /\ First(g) \in 1..Len(d)
        /\ \A j \in GroupMembers(d, g) : d[j].group = g
  BY GroupsHaveMembers DEF IsGrouped
<1>3. Len(d) \in Nat
  BY DEF IsGrouped
<1> HIDE DEF First
<1>4. CASE i \in firsts
  <2>1. PICK g \in NativeGroups(d) : i = First(g)
    BY <1>4
  <2>2. d[i].group = g
    BY <1>2, <2>1
  <2> DEFINE t == Span(d, g)
             added == Added(d, bb, spans, t)
  <2>3. t \in SpanSet(d) /\ t.members = GroupMembers(d, g)
    BY SpansOfGroups
  <2> HIDE DEF t
  <2>4. /\ added \in Seq(SpanSet(d))
        /\ \A s \in ToSet(spans) \cup {t} : \E r \in ToSet(added) : s.members \subseteq r.members
    <3>1. spans \in Seq(SpanSet(d)) /\ t \in SpanSet(d)
      BY <1>1, <2>3
    <3>2. added \in Seq(SpanSet(d))
      BY <3>1, SpansAreAdded
    <3>3. AreKept(spans, t, added)
      BY <3>1, SpansAreAdded
    <3> QED BY <3>2, <3>3 DEF AreKept
  <2> HIDE DEF added
  <2>5. ASSUME NEW h \in NativeGroups(d), First(h) <= i PROVE \E s \in ToSet(added) : GroupMembers(d, h) \subseteq s.members
    <3>1. CASE First(h) = i
      <4>1. h = g
        BY <1>2, <2>2, <3>1
      <4> QED BY <2>3, <2>4, <4>1
    <3>2. CASE First(h) <= i - 1
      <4>1. PICK s \in ToSet(spans) : GroupMembers(d, h) \subseteq s.members
        BY <1>1, <3>2
      <4>2. PICK r \in ToSet(added) : s.members \subseteq r.members
        BY <2>4
      <4> QED BY <4>1, <4>2
    <3>3. First(h) = i \/ First(h) <= i - 1
      BY <1>2, <1>3, <2>5
    <3> QED BY <3>1, <3>2, <3>3
  <2>6. IsCovering(d, added, i)
    BY <2>4, <2>5 DEF IsCovering, First
  <2> QED BY <1>4, <2>2, <2>6 DEF added, t, First
<1>5. CASE i \notin firsts
  <2>1. \A g \in NativeGroups(d) : First(g) <= i => First(g) <= i - 1
    BY <1>2, <1>3, <1>5
  <2>2. IsCovering(d, spans, i)
    BY <1>1, <2>1 DEF IsCovering, First
  <2> QED BY <1>5, <2>2 DEF First
<1> QED BY <1>4, <1>5

\* Each native group is in a span.
LEMMA NativeSpansCover ==
  ASSUME NEW d, NEW bb, IsGrouped(d)
  PROVE  /\ NativeSpans(d, bb) \subseteq SpanSet(d)
         /\ \A g \in NativeGroups(d) : \E s \in NativeSpans(d, bb) : GroupMembers(d, g) \subseteq s.members
<1> DEFINE n == Len(d)
           V == Seq(SpanSet(d))
           firsts == {Min(GroupMembers(d, g)) : g \in NativeGroups(d)}
           Made(i, before) == IF i \in firsts THEN Added(d, bb, before, Span(d, d[i].group)) ELSE before
           step == [p \in (1..n) \X V |-> Made(p[1], p[2])]
           Add(spans, t) ==
             IF spans # <<>> /\ Continues(d, bb, spans[Len(spans)], t)
             THEN [spans EXCEPT ![Len(spans)] = Joined(@, t)]
             ELSE Append(spans, t)
           Unfolds(F) == F = [i \in 0..n |->
             IF i = 0 THEN <<>>
             ELSE IF i \in firsts THEN Add(F[i - 1], Span(d, d[i].group)) ELSE F[i - 1]]
<1>0. n \in Nat
  BY DEF IsGrouped
<1>1. ASSUME NEW i \in 1..n, NEW before \in V PROVE Made(i, before) \in V
  <2>1. CASE i \in firsts
    <3>1. PICK g \in NativeGroups(d) : i = Min(GroupMembers(d, g))
      BY <2>1
    <3>2. i \in GroupMembers(d, g) /\ d[i].group = g
      <4>1. /\ Min(GroupMembers(d, g)) \in GroupMembers(d, g)
            /\ \A j \in GroupMembers(d, g) : d[j].group = g
        BY GroupsHaveMembers DEF IsGrouped
      <4> QED BY <3>1, <4>1
    <3>3. Span(d, d[i].group) \in SpanSet(d)
      BY <3>2, SpansOfGroups
    <3> QED BY <2>1, <3>3, SpansAreAdded
  <2>2. CASE i \notin firsts
    BY <2>2
  <2> QED BY <2>1, <2>2
<1> HIDE DEF firsts
<1>2. IsIteration(n, V, <<>>, step)
  <2>1. \A p \in (1..n) \X V : step[p] \in V
    <3> SUFFICES ASSUME NEW i \in 1..n, NEW before \in V PROVE step[<<i, before>>] \in V
      OBVIOUS
    <3>1. step[<<i, before>>] = Made(i, before)
      OBVIOUS
    <3> QED BY <1>1, <3>1
  <2>2. <<>> \in V
    OBVIOUS
  <2>3. step \in [(1..n) \X V -> V]
    <3> HIDE DEF V, Made
    <3> QED BY <2>1
  <2> HIDE DEF V, step
  <2> QED BY <1>0, <2>2, <2>3 DEF IsIteration
<1>3. PICK f \in [0..n -> V] : f[0] = <<>> /\ \A i \in 1..n : f[i] = step[<<i, f[i - 1]>>]
  <2> HIDE DEF V, step
  <2> QED BY <1>2, IterationExists
<1>4. Unfolds(f)
  <2>1. ASSUME NEW i \in 1..n PROVE f[i] = Made(i, f[i - 1])
    <3>1. f[i - 1] \in V
      BY <1>0
    <3> HIDE DEF V, Made
    <3> QED BY <1>3, <3>1
  <2>2. f = [i \in 0..n |-> f[i]]
    OBVIOUS
  <2>3. \A i \in 0..n : i = 0 \/ i \in 1..n
    BY <1>0
  <2>4. \A i \in 0..n : f[i] = IF i = 0 THEN <<>> ELSE Made(i, f[i - 1])
    <3> HIDE DEF V, Made
    <3> QED BY <1>3, <2>1, <2>3
  <2> HIDE DEF step, V
  <2> QED BY <2>2, <2>4 DEF Added
<1>5. ASSUME NEW F, Unfolds(F) PROVE IsCovering(d, F[n], n)
  <2> DEFINE G == {i \in 0..n : IsCovering(d, F[i], i)}
  <2>0. 0 \in 0..n /\ \A i \in 1..n : i \in 0..n /\ i # 0
    BY <1>0
  <2>1. F[0] = <<>> /\ \A i \in 1..n : F[i] = Made(i, F[i - 1])
    BY <1>5, <2>0 DEF Added
  <2>2. Inductive(0, n, G)
    <3>1. 0 \in G
      <4>1. \A g \in NativeGroups(d) : ~(Min(GroupMembers(d, g)) <= 0)
        <5> SUFFICES ASSUME NEW g \in NativeGroups(d) PROVE ~(Min(GroupMembers(d, g)) <= 0)
          OBVIOUS
        <5>1. Min(GroupMembers(d, g)) \in 1..Len(d)
          BY GroupsHaveMembers DEF IsGrouped
        <5> QED BY <5>1
      <4>2. <<>> \in Seq(SpanSet(d))
        OBVIOUS
      <4>3. IsCovering(d, <<>>, 0)
        BY <4>1, <4>2 DEF IsCovering
      <4> QED BY <2>0, <2>1, <4>3
    <3>2. ASSUME NEW i \in 0..(n - 1), i \in G PROVE i + 1 \in G
      <4>1. i + 1 \in 1..n /\ (i + 1) - 1 = i /\ i + 1 \in 0..n
        BY <1>0
      <4>2. F[i + 1] = Made(i + 1, F[i]) /\ IsCovering(d, F[i], (i + 1) - 1)
        BY <2>1, <3>2, <4>1
      <4> DEFINE k == i + 1
      <4>3. IsCovering(d, Made(k, F[i]), k)
        <5> HIDE DEF k, n
        <5> QED BY <4>1, <4>2, CoveringGrows DEF k, n, firsts
      <4> QED BY <4>1, <4>2, <4>3
    <3> QED BY <3>1, <3>2 DEF Inductive
  <2> HIDE DEF G
  <2>3. \A i \in 0..n : i \in G
    BY <1>0, <2>2, UpTo
  <2>4. n \in 0..n
    BY <1>0
  <2> QED BY <2>3, <2>4 DEF G
<1> DEFINE spans == CHOOSE F : Unfolds(F)
<1>6. Unfolds(spans)
  BY <1>4
<1>7. NativeSpans(d, bb) = ToSet(spans[n])
  BY DEF NativeSpans, firsts
<1> HIDE DEF Unfolds, spans
<1>8. IsCovering(d, spans[n], n)
  BY <1>5, <1>6
<1>9. \A g \in NativeGroups(d) : Min(GroupMembers(d, g)) <= n
  <2> SUFFICES ASSUME NEW g \in NativeGroups(d) PROVE Min(GroupMembers(d, g)) <= n
    OBVIOUS
  <2>1. Min(GroupMembers(d, g)) \in 1..Len(d)
    BY GroupsHaveMembers DEF IsGrouped
  <2> QED BY <2>1
<1>10. ToSet(spans[n]) \subseteq SpanSet(d)
  <2> DEFINE last == spans[n]
  <2>1. last \in Seq(SpanSet(d))
    BY <1>8 DEF IsCovering
  <2> HIDE DEF last
  <2>2. ToSet(last) \subseteq SpanSet(d)
    BY <2>1 DEF ToSet
  <2> QED BY <2>2 DEF last
<1> QED BY <1>7, <1>8, <1>9, <1>10 DEF IsCovering

\* A span of one family, around its elements.
IsSpan(d, s) ==
  /\ s.family \in Families /\ s.members # {} /\ s.members \subseteq DOMAIN d
  /\ \A i \in s.members : Family(d[i].type) = s.family

\* The runs of one family.
FamilyRuns(d, bb, family) ==
  LET Fits(i) == i \notin Keyed(d) /\ Family(d[i].type) = family
      Breaks(p) == bb[p - 1].class = "HARD"
  IN Runs(Len(d), Fits, Breaks)

\* Each element of a family that no group names is in a run of the family.
LEMMA RunsCover ==
  ASSUME NEW d, NEW bb, Len(d) \in Nat, NEW family \in Families
  PROVE  /\ \A run \in FamilyRuns(d, bb, family) :
              /\ \E i \in 1..Len(d), j \in 1..Len(d) : i <= j /\ run = i..j
              /\ \A i \in run : Family(d[i].type) = family
         /\ \A i \in 1..Len(d) :
              i \notin Keyed(d) /\ Family(d[i].type) = family => \E run \in FamilyRuns(d, bb, family) : i \in run
<1> DEFINE n == Len(d)
           Fits(i) == i \notin Keyed(d) /\ Family(d[i].type) = family
           Breaks(p) == bb[p - 1].class = "HARD"
           starts == {i \in 1..n : Fits(i) /\ (i = 1 \/ ~Fits(i - 1) \/ Breaks(i))}
           T(i) == {j \in i..n : \A k \in i..j : Fits(k) /\ (k = i \/ ~Breaks(k))}
<1>1. FamilyRuns(d, bb, family) = {i..Max(T(i)) : i \in starts}
  BY DEF FamilyRuns, Runs
<1>2. ASSUME NEW i \in starts
      PROVE  i \in 1..n /\ Max(T(i)) \in i..n /\ (\A k \in T(i) : k <= Max(T(i))) /\ \A k \in i..Max(T(i)) : Fits(k)
  <2>1. i \in T(i) /\ T(i) \in SUBSET (i..n) /\ i \in 1..n
    OBVIOUS
  <2> DEFINE R == T(i)
  <2> HIDE DEF R
  <2>2. Max(R) \in R /\ Max(R) \in i..n /\ \A k \in R : k <= Max(R)
    BY <2>1, Reaching DEF R
  <2> DEFINE last == Max(R)
  <2> HIDE DEF last
  <2>3. last \in i..n /\ \A k \in i..last : Fits(k)
    BY <2>2 DEF R, last
  <2> QED BY <2>1, <2>2, <2>3 DEF R, last
<1>3. ASSUME NEW i \in 1..n, Fits(i) PROVE \E s \in starts : i \in T(s) /\ s <= i
  <2> DEFINE K == {k \in 1..i : \A j \in k..i : Fits(j) /\ (j = k \/ ~Breaks(j))}
             s == Min(K)
  <2>1. i \in K /\ K \in SUBSET (1..i) /\ 1 \in Int /\ i \in Int
    BY <1>3
  <2> HIDE DEF Fits, Breaks
  <2>2. s \in K /\ \A k \in K : s <= k
    <3> HIDE DEF K
    <3> QED BY <2>1, ExtremeOfInterval
  <2> HIDE DEF s
  <2>3. s \in 1..n /\ s <= i /\ s \in 1..i /\ Fits(s)
    BY <2>1, <2>2
  <2>4. ASSUME s # 1, Fits(s - 1), ~Breaks(s) PROVE FALSE
    <3>1. s - 1 \in 1..i /\ ~(s <= s - 1)
      BY <2>3, <2>4
    <3>2. ASSUME NEW j \in (s - 1)..i PROVE Fits(j) /\ (j = s - 1 \/ ~Breaks(j))
      <4>1. j = s - 1 \/ j = s \/ j \in s..i
        BY <2>3
      <4> QED BY <2>2, <2>3, <2>4, <4>1
    <3>3. s - 1 \in K
      BY <3>1, <3>2
    <3> QED BY <2>2, <3>1, <3>3
  <2>5. s \in starts
    BY <2>3, <2>4
  <2>6. i \in T(s)
    BY <2>2, <2>3
  <2> QED BY <2>3, <2>5, <2>6
<1> HIDE DEF starts, T
<1>4. ASSUME NEW run \in FamilyRuns(d, bb, family)
      PROVE  /\ \E i \in 1..n, j \in 1..n : i <= j /\ run = i..j
             /\ \A i \in run : Family(d[i].type) = family
  <2>1. PICK i \in starts : run = i..Max(T(i))
    BY <1>1, <1>4
  <2> DEFINE last == Max(T(i))
  <2>2. i \in 1..n /\ last \in i..n /\ \A k \in i..last : Fits(k)
    BY <1>2
  <2> HIDE DEF last
  <2>3. last \in 1..n /\ i <= last
    BY <2>2
  <2> QED BY <2>1, <2>2, <2>3 DEF last
<1>5. ASSUME NEW i \in 1..n, Fits(i) PROVE \E run \in FamilyRuns(d, bb, family) : i \in run
  <2>1. PICK s \in starts : i \in T(s) /\ s <= i
    BY <1>3, <1>5
  <2> DEFINE last == Max(T(s))
  <2>2. last \in s..n /\ i <= last /\ s \in 1..n
    BY <1>2, <2>1
  <2> HIDE DEF last
  <2>3. i \in s..last
    BY <2>1, <2>2
  <2> QED BY <1>1, <2>3 DEF last
<1> QED BY <1>4, <1>5

\* A run that is split at its containers is still covered.
LEMMA SplitCovers ==
  ASSUME NEW d, NEW i \in Nat \ {0}, NEW j \in Nat, i <= j
  PROVE  /\ \A m \in SplitAtContainers(d, i..j) : m # {} /\ m \subseteq i..j /\ Min(m) \in m
         /\ \A k \in i..j : \E m \in SplitAtContainers(d, i..j) : k \in m
<1> DEFINE run == i..j
           containers == {k \in run : IsContainer(d[k])}
           starts == {Min(run)} \cup (containers \ {k \in containers : \A l \in containers : k <= l})
           Ends(s) == {t - 1 : t \in {u \in starts : u > s}} \cup {Max(run)}
<1>1. SplitAtContainers(d, run) = {s..Min(Ends(s)) : s \in starts}
  BY DEF SplitAtContainers
<1>2. Min(run) = i /\ Max(run) = j
  <2>1. run # {} /\ run \in SUBSET (i..j) /\ i \in Int /\ j \in Int /\ i \in run /\ j \in run
    OBVIOUS
  <2> HIDE DEF run
  <2>2. Min(run) \in run /\ Max(run) \in run /\ \A x \in run : Min(run) <= x /\ x <= Max(run)
    BY <2>1, ExtremeOfInterval
  <2>3. Min(run) \in i..j /\ Max(run) \in i..j /\ Min(run) <= i /\ j <= Max(run)
    BY <2>1, <2>2
  <2> DEFINE a == Min(run)
             z == Max(run)
  <2> HIDE DEF a, z
  <2>4. a \in i..j /\ z \in i..j /\ a <= i /\ j <= z
    BY <2>3 DEF a, z
  <2>5. a = i /\ z = j
    BY <2>4
  <2> QED BY <2>5 DEF a, z
<1>3. starts \in SUBSET (i..j) /\ i \in starts
  BY <1>2
<1> HIDE DEF starts
<1>4. ASSUME NEW s \in starts PROVE Min(Ends(s)) \in s..j /\ \A x \in Ends(s) : Min(Ends(s)) <= x
  <2> DEFINE E == Ends(s)
  <2>1. E \in SUBSET (s..j) /\ E # {} /\ s \in Int /\ j \in Int
    BY <1>2, <1>3
  <2> HIDE DEF E
  <2>2. Min(E) \in E /\ \A x \in E : Min(E) <= x
    BY <2>1, ExtremeOfInterval
  <2> QED BY <2>1, <2>2 DEF E
<1>5. ASSUME NEW m \in SplitAtContainers(d, run) PROVE m # {} /\ m \subseteq run /\ Min(m) \in m
  <2>1. PICK s \in starts : m = s..Min(Ends(s))
    BY <1>1, <1>5
  <2> DEFINE e == Min(Ends(s))
  <2>2. e \in s..j /\ s \in i..j
    BY <1>3, <1>4
  <2> HIDE DEF e
  <2>3. m # {} /\ m \in SUBSET (s..j) /\ m \subseteq run /\ s \in Int /\ j \in Int
    <3>1. m = s..e
      BY <2>1 DEF e
    <3> QED BY <2>2, <3>1
  <2>4. Min(m) \in m
    BY <2>3, ExtremeOfInterval
  <2> QED BY <2>3, <2>4
<1>6. ASSUME NEW k \in run PROVE \E m \in SplitAtContainers(d, run) : k \in m
  <2> DEFINE K == {t \in starts : t <= k}
             s == Max(K)
  <2>0. i \in Int /\ j \in Int /\ k \in Int /\ i <= k
    OBVIOUS
  <2>1. i \in K /\ K \in SUBSET (i..j) /\ i \in Int /\ j \in Int
    <3> HIDE DEF run
    <3> QED BY <1>3, <2>0
  <2>2. s \in K /\ \A t \in K : t <= s
    <3> HIDE DEF K
    <3> QED BY <2>1, ExtremeOfInterval
  <2> HIDE DEF s
  <2>3. s \in starts /\ s <= k /\ s \in i..j /\ \A t \in starts : t > s => t > k
    BY <1>3, <2>2
  <2>4. \A x \in Ends(s) : k <= x
    <3>1. \A t \in starts : t > s => k <= t - 1
      BY <1>3, <2>3
    <3> QED BY <1>2, <3>1
  <2> DEFINE e == Min(Ends(s))
  <2>5. e \in s..j /\ e \in Ends(s)
    <3> DEFINE E == Ends(s)
    <3>1. E \in SUBSET (s..j) /\ E # {} /\ s \in Int /\ j \in Int
      BY <1>2, <1>3, <2>3
    <3> HIDE DEF E
    <3>2. Min(E) \in E
      BY <3>1, ExtremeOfInterval
    <3> QED BY <3>1, <3>2 DEF E
  <2>6. k <= e
    BY <2>4, <2>5
  <2> HIDE DEF e, Ends
  <2>7. k \in s..e
    BY <2>3, <2>5, <2>6
  <2> QED BY <1>1, <2>3, <2>7 DEF e
<1> QED BY <1>5, <1>6

\* Each element of a family that no group names is in a heuristic span.
LEMMA HeuristicSpansCover ==
  ASSUME NEW d, NEW bb, Len(d) \in Nat, DOMAIN d = 1..Len(d)
  PROVE  /\ \A s \in HeuristicSpans(d, bb) : IsSpan(d, s)
         /\ \A i \in DOMAIN d : i \notin Keyed(d) /\ Family(d[i].type) # None => \E s \in HeuristicSpans(d, bb) : i \in s.members
<1> DEFINE parts == UNION {SplitAtContainers(d, run) : run \in HeuristicRuns(d, bb)}
           AsSpan(m) == [family |-> Family(d[Min(m)].type), members |-> m, groups |-> {}, parent |-> None]
<1>1. HeuristicRuns(d, bb) = UNION {FamilyRuns(d, bb, family) : family \in Families}
  BY DEF HeuristicRuns, FamilyRuns, Families
<1>2. HeuristicSpans(d, bb) = {AsSpan(m) : m \in parts}
  BY DEF HeuristicSpans
<1>3. \A family \in Families :
        /\ \A run \in FamilyRuns(d, bb, family) :
             /\ \E i \in 1..Len(d), j \in 1..Len(d) : i <= j /\ run = i..j
             /\ \A i \in run : Family(d[i].type) = family
        /\ \A i \in 1..Len(d) : i \notin Keyed(d) /\ Family(d[i].type) = family => \E run \in FamilyRuns(d, bb, family) : i \in run
  BY RunsCover
<1>4. ASSUME NEW m \in parts PROVE IsSpan(d, AsSpan(m)) /\ AsSpan(m).members = m
  <2>1. PICK family \in Families : \E run \in FamilyRuns(d, bb, family) : m \in SplitAtContainers(d, run)
    BY <1>1
  <2>2. PICK run \in FamilyRuns(d, bb, family) : m \in SplitAtContainers(d, run)
    BY <2>1
  <2>3. PICK i \in 1..Len(d), j \in 1..Len(d) : i <= j /\ run = i..j
    BY <1>3
  <2>4. \A k \in run : Family(d[k].type) = family
    BY <1>3
  <2>5. m # {} /\ m \subseteq i..j /\ Min(m) \in m
    <3>1. i \in Nat \ {0} /\ j \in Nat
      OBVIOUS
    <3> QED BY <2>2, <2>3, <3>1, SplitCovers
  <2>6. m \subseteq 1..Len(d) /\ Family(d[Min(m)].type) = family
    <3>1. i..j \subseteq 1..Len(d)
      OBVIOUS
    <3>2. m \subseteq run /\ Min(m) \in run
      BY <2>3, <2>5
    <3> QED BY <2>3, <2>4, <3>1, <3>2
  <2> QED BY <2>3, <2>4, <2>5, <2>6 DEF IsSpan
<1>5. ASSUME NEW i \in DOMAIN d, i \notin Keyed(d), Family(d[i].type) # None PROVE \E m \in parts : i \in m
  <2>1. Family(d[i].type) \in Families
    BY <1>5, FamilyNames
  <2> DEFINE family == Family(d[i].type)
  <2>2. PICK run \in FamilyRuns(d, bb, family) : i \in run
    BY <1>3, <1>5, <2>1
  <2>3. PICK k \in 1..Len(d), j \in 1..Len(d) : k <= j /\ run = k..j
    BY <1>3, <2>1
  <2>4. PICK m \in SplitAtContainers(d, run) : i \in m
    <3>1. k \in Nat \ {0} /\ j \in Nat
      OBVIOUS
    <3> QED BY <2>2, <2>3, <3>1, SplitCovers
  <2>5. run \in HeuristicRuns(d, bb)
    BY <1>1, <2>1
  <2> QED BY <2>4, <2>5
<1> HIDE DEF parts
<1> QED BY <1>2, <1>4, <1>5

\* What must stay together is in one span.
LEMMA SpansCover ==
  ASSUME NEW d, NEW bb, IsGrouped(d)
  PROVE  /\ \A s \in Spans(d, bb) : IsSpan(d, s)
         /\ \A g \in NativeGroups(d) : \E s \in Spans(d, bb) : GroupMembers(d, g) \subseteq s.members
         /\ \A i \in DOMAIN d : Family(d[i].type) # None => \E s \in Spans(d, bb) : i \in s.members
<1>1. \A s \in SpanSet(d) : IsSpan(d, s)
  BY DEF SpanSet, IsSpan
<1>2. Len(d) \in Nat /\ DOMAIN d = 1..Len(d)
  BY DEF IsGrouped
<1>3. \A i \in Keyed(d) : d[i].group \in NativeGroups(d) /\ i \in GroupMembers(d, d[i].group)
  BY DEF NativeGroups, GroupMembers
<1>4. \A g \in NativeGroups(d) : \E s \in Spans(d, bb) : GroupMembers(d, g) \subseteq s.members
  BY NativeSpansCover DEF Spans
<1>5. \A s \in Spans(d, bb) : IsSpan(d, s)
  BY <1>1, <1>2, NativeSpansCover, HeuristicSpansCover DEF Spans
<1>6. ASSUME NEW i \in DOMAIN d, Family(d[i].type) # None PROVE \E s \in Spans(d, bb) : i \in s.members
  <2>1. CASE i \in Keyed(d)
    BY <1>3, <1>4, <2>1
  <2>2. CASE i \notin Keyed(d)
    BY <1>2, <1>6, <2>2, HeuristicSpansCover DEF Spans
  <2> QED BY <2>1, <2>2
<1> QED BY <1>4, <1>5, <1>6

-----------------------------------------------------------------------------
(* The units, when they are consolidated.                                  *)

\* Units are of the elements that their sets are of.
LEMMA UnitsOfSets ==
  ASSUME NEW S, NEW type, NEW sets \in SUBSET SUBSET S
  PROVE  \A u \in Units(type, sets) : u.members \subseteq S
BY DEF Units, Unit

\* What is grouped are elements of the document.
LEMMA GroupWithin ==
  ASSUME NEW d, NEW bb, Len(d) \in Nat, DOMAIN d = 1..Len(d)
  PROVE  \A u \in Group(d, bb) : u.members \subseteq DOMAIN d
<1> DEFINE S == 1..Len(d)
           Within(set) == \A u \in set : u.members \subseteq S
           qa == Units("QA_PAIR", QAPairs(d, bb))
           turns == Units("DIALOGUE_SEGMENT", RunsOf(d, bb, "DIALOGUE_TURN", MinTurns))
           entries == Units("LOG_WINDOW", RunsOf(d, bb, "LOG_ENTRY", MinEntries))
           dialogues == Take(qa, turns)
           logs == Take(dialogues, entries)
           marked == Units("LIST_GROUP", LexicalLists(d, bb, MembersOf(logs)))
           lists == logs \cup marked
           single == {Unit(AtomicUnit(d[i].type), {i}) : i \in {j \in DOMAIN d : AtomicUnit(d[j].type) # None}}
           atoms == Take(lists, single)
           blocks == Units("TEXT_BLOCK", TextBlocks(d, bb, MembersOf(atoms)))
           texts == atoms \cup blocks
           unknown == {Unit("UNKNOWN_GROUP", {i}) : i \in {j \in DOMAIN d : d[j].type = "UNKNOWN"}}
<1>1. Group(d, bb) = Take(texts, unknown)
  BY DEF Group
<1>2. Within(qa)
  <2>1. QAPairs(d, bb) \in SUBSET SUBSET S
    BY PairsWithin
  <2> HIDE DEF S
  <2> QED BY <2>1, UnitsOfSets
<1>3. Within(turns)
  <2>1. RunsOf(d, bb, "DIALOGUE_TURN", MinTurns) \in SUBSET SUBSET S
    BY RunsWithin
  <2> HIDE DEF S
  <2> QED BY <2>1, UnitsOfSets
<1>4. Within(entries)
  <2>1. RunsOf(d, bb, "LOG_ENTRY", MinEntries) \in SUBSET SUBSET S
    BY RunsWithin
  <2> HIDE DEF S
  <2> QED BY <2>1, UnitsOfSets
<1>5. Within(marked)
  <2> DEFINE taken == MembersOf(logs)
  <2> HIDE DEF taken
  <2>1. LexicalLists(d, bb, taken) \in SUBSET SUBSET S
    BY ListsWithin
  <2> HIDE DEF S
  <2>2. Within(Units("LIST_GROUP", LexicalLists(d, bb, taken)))
    BY <2>1, UnitsOfSets
  <2> QED BY <2>2 DEF taken
<1>6. Within(blocks)
  <2> DEFINE taken == MembersOf(atoms)
  <2> HIDE DEF taken
  <2>1. TextBlocks(d, bb, taken) \in SUBSET SUBSET S
    BY TextBlocksWithin
  <2> HIDE DEF S
  <2>2. Within(Units("TEXT_BLOCK", TextBlocks(d, bb, taken)))
    BY <2>1, UnitsOfSets
  <2> QED BY <2>2 DEF taken
<1>7. Within(single) /\ Within(unknown)
  BY DEF Unit
<1> HIDE DEF qa, turns, entries, marked, single, blocks, unknown, S
<1>8. Within(logs)
  BY <1>2, <1>3, <1>4 DEF Take
<1> HIDE DEF logs
<1>9. Within(atoms)
  BY <1>5, <1>7, <1>8 DEF Take
<1> HIDE DEF atoms
<1>10. Within(Take(texts, unknown))
  BY <1>6, <1>7, <1>9 DEF Take
<1> QED BY <1>1, <1>10 DEF S

\* The groups that are sound, and the elements that carry them, are the same
\* before and after the normaliser.
LEMMA ResolvedFamily == \A hint : Family(Resolved(hint)) = Family(hint)
<1>1. ASSUME NEW hint PROVE Family(Resolved(hint)) = Family(hint)
  <2>1. CASE hint \in ElementTypes
    BY <2>1 DEF Resolved
  <2>2. CASE hint \notin ElementTypes
    <3>1. hint \notin TableTypes \cup ListTypes \cup {"CODE", "FORMULA", "KEY_VALUE"}
      BY <2>2 DEF ElementTypes, IntegritySensitive
    <3>2. Family(hint) = None
      BY <3>1 DEF Family, TableTypes, ListTypes
    <3>3. Family("UNKNOWN") = None
      BY DEF Family, TableTypes, ListTypes
    <3> QED BY <2>2, <3>2, <3>3 DEF Resolved
  <2> QED BY <2>1, <2>2
<1> QED BY <1>1

\* The normaliser changes no family and no group.
LEMMA ElementsKeepFamilies ==
  ASSUME AInv, AreElements(raw), stage \in AfterNormalising
  PROVE  /\ \A i \in 1..Len(raw) :
              /\ Family(doc[i].type) = Family(raw[i].type)
              /\ doc[i].group = raw[i].group /\ doc[i].blank = raw[i].blank /\ doc[i].type = Resolved(raw[i].type)
              /\ doc[i].evidence = raw[i].evidence
         /\ Keyed(doc) = Keyed(raw) /\ NativeGroups(doc) = NativeGroups(raw)
         /\ \A g : GroupMembers(doc, g) = GroupMembers(raw, g)
<1>0. /\ DOMAIN doc = 1..Len(raw) /\ DOMAIN raw = 1..Len(raw)
      /\ \A i \in 1..Len(raw) : doc[i] = [raw[i] EXCEPT !.type = Resolved(@)] /\ raw[i] = [f \in Fields |-> raw[i][f]]
  BY StagesReadElements
<1>1. ASSUME NEW i \in 1..Len(raw)
      PROVE  /\ doc[i].type = Resolved(raw[i].type) /\ doc[i].group = raw[i].group
             /\ doc[i].blank = raw[i].blank /\ doc[i].evidence = raw[i].evidence
  <2> DEFINE e == raw[i]
  <2>1. doc[i] = [e EXCEPT !.type = Resolved(e.type)] /\ e = [f \in Fields |-> e[f]]
    BY <1>0
  <2> HIDE DEF e
  <2>2. doc[i].type = Resolved(e.type) /\ doc[i].group = e.group /\ doc[i].blank = e.blank /\ doc[i].evidence = e.evidence
    BY <2>1 DEF Fields
  <2> QED BY <2>2 DEF e
<1>2. \A i \in 1..Len(raw) : Family(doc[i].type) = Family(raw[i].type)
  BY <1>1, ResolvedFamily
<1>3. Keyed(doc) = Keyed(raw)
  BY <1>0, <1>1, <1>2 DEF Keyed
<1>4. Keyed(raw) \subseteq 1..Len(raw)
  BY <1>0 DEF Keyed
<1>5. NativeGroups(doc) = NativeGroups(raw)
  BY <1>1, <1>3, <1>4 DEF NativeGroups
<1>6. \A g : GroupMembers(doc, g) = GroupMembers(raw, g)
  BY <1>1, <1>3, <1>4 DEF GroupMembers
<1> QED BY <1>1, <1>2, <1>3, <1>5, <1>6

\* The units are sets of elements, and each span is one of them.
LEMMA UnitsAreConsolidated ==
  ASSUME AInv, AreElements(raw), stage \in AfterIntegrity
  PROVE  /\ stage \in AfterNormalising
         /\ IsGrouped(doc)
         /\ \A u \in units : u.members \subseteq DOMAIN doc
         /\ \A s \in Spans(doc, b) : \E u \in units : u.members = s.members /\ u.type = FamilyUnit(s.family)
<1>1. stage \in AfterNormalising
  BY DEF AfterNormalising, AfterSignals, AfterScoring, AfterGrouping
<1>2. SoundGroups(doc, b) /\ units = Consolidate(Grouped, Spans(doc, b))
  BY DEF AInv, IInv, Found
<1>3. DOMAIN doc = 1..Len(doc) /\ Len(doc) \in Nat
  BY <1>1, StagesReadElements
<1>4. IsGrouped(doc)
  BY <1>2, <1>3 DEF IsGrouped, SoundGroups, SoundGroup
<1>5. \A u \in Grouped : u.members \subseteq DOMAIN doc
  BY <1>3, GroupWithin DEF Grouped
<1>6. \A s \in Spans(doc, b) : s.members \subseteq DOMAIN doc
  BY <1>4, SpansCover DEF IsSpan
<1> DEFINE AsUnit(s) == [type |-> FamilyUnit(s.family), members |-> s.members, groups |-> s.groups, parent |-> s.parent]
<1>7. \A s \in Spans(doc, b) : AsUnit(s) \in units
  BY <1>2 DEF Consolidate
<1>8. \A u \in units : u \in Grouped \/ \E s \in Spans(doc, b) : u = AsUnit(s)
  BY <1>2 DEF Consolidate
<1>9. \A u \in units : u.members \subseteq DOMAIN doc
  BY <1>5, <1>6, <1>8
<1>10. \A s \in Spans(doc, b) : \E u \in units : u.members = s.members /\ u.type = FamilyUnit(s.family)
  BY <1>7
<1> QED BY <1>1, <1>4, <1>9, <1>10

-----------------------------------------------------------------------------
(* A unit is cut into parts that partition it.                             *)

\* What has been cut off the members of a unit, and the part that is filled.
Cuttings(n) == [parts : SUBSET SUBSET (1..n), current : SUBSET (1..n)]

Partitions(sets, all) == (UNION sets) = all /\ Disjoint(sets)

IsCut(members, acc, i) ==
  /\ (UNION acc.parts) \cap acc.current = {}
  /\ Disjoint(acc.parts)
  /\ (UNION acc.parts) \cup acc.current = {j \in members : j <= i}

\* The part that is filled, field by field.
LEMMA FilledPart ==
  ASSUME NEW parts, NEW current, NEW filled, NEW acc, acc = [parts |-> parts, current |-> current]
  PROVE  [acc EXCEPT !.current = filled] = [parts |-> parts, current |-> filled]
OBVIOUS

\* The parts of a unit are a partition of it, whatever the budget.
LEMMA PartsPartition ==
  ASSUME NEW document, NEW s, NEW policy, Len(document.elements) \in Nat, s.unit.members \subseteq 1..Len(document.elements)
  PROVE  Partitions(Parts(document, s, policy), s.unit.members)
<1> DEFINE n == Len(document.elements)
           members == s.unit.members
           V == Cuttings(n)
           base == [parts |-> {}, current |-> {}]
           Overflows(current, candidate) ==
             Readable(document, current) # {} /\ Exceeds(Tokens(document, s.path, Readable(document, candidate)), policy)
           Made(i, acc) ==
             CASE i \notin members -> acc
               [] i \in members /\ Overflows(acc.current, acc.current \cup {i}) ->
                    [parts |-> acc.parts \cup {acc.current}, current |-> {i}]
               [] i \in members /\ ~Overflows(acc.current, acc.current \cup {i}) ->
                    [parts |-> acc.parts, current |-> acc.current \cup {i}]
           step == [p \in (1..n) \X V |-> Made(p[1], p[2])]
           Extend(acc, i) ==
             LET candidate == acc.current \cup {i}
             IN CASE i \notin s.unit.members -> acc
                  [] i \in s.unit.members /\ Overflows(acc.current, candidate) -> [parts |-> acc.parts \cup {acc.current}, current |-> {i}]
                  [] OTHER -> [acc EXCEPT !.current = candidate]
           Unfolds(F) == F = [i \in 0..n |-> IF i = 0 THEN base ELSE Extend(F[i - 1], i)]
<1>0. n \in Nat /\ members \subseteq 1..n
  OBVIOUS
<1> HIDE DEF Overflows, n, members
<1>1. ASSUME NEW i \in 1..n, NEW acc \in V PROVE Made(i, acc) \in V
  <2>1. acc.parts \in SUBSET SUBSET (1..n) /\ acc.current \in SUBSET (1..n) /\ {i} \in SUBSET (1..n)
    BY DEF Cuttings
  <2> QED BY <2>1 DEF Cuttings
<1>2. base \in V
  BY DEF Cuttings
<1>3. \A acc \in V : acc = [parts |-> acc.parts, current |-> acc.current]
  BY DEF Cuttings
<1>4. \A acc \in V : \A i : Extend(acc, i) = Made(i, acc)
  <2> SUFFICES ASSUME NEW acc \in V, NEW i PROVE Extend(acc, i) = Made(i, acc)
    OBVIOUS
  <2>1. [acc EXCEPT !.current = acc.current \cup {i}] = [parts |-> acc.parts, current |-> acc.current \cup {i}]
    <3> DEFINE filled == acc.current \cup {i}
               parts == acc.parts
               current == acc.current
    <3>1. acc = [parts |-> parts, current |-> current]
      BY <1>3
    <3> HIDE DEF filled, parts, current
    <3>2. [acc EXCEPT !.current = filled] = [parts |-> parts, current |-> filled]
      BY <3>1, FilledPart
    <3> QED BY <3>2 DEF filled, parts, current
  <2> QED BY <2>1 DEF members
<1> HIDE DEF V, base, Extend
<1>5. IsIteration(n, V, base, step)
  <2>1. \A p \in (1..n) \X V : step[p] \in V
    <3> SUFFICES ASSUME NEW i \in 1..n, NEW acc \in V PROVE step[<<i, acc>>] \in V
      OBVIOUS
    <3>1. step[<<i, acc>>] = Made(i, acc)
      OBVIOUS
    <3> QED BY <1>1, <3>1
  <2>2. step \in [(1..n) \X V -> V]
    <3> HIDE DEF Made
    <3> QED BY <2>1
  <2> HIDE DEF step
  <2> QED BY <1>0, <1>2, <2>2 DEF IsIteration
<1>6. PICK f \in [0..n -> V] : f[0] = base /\ \A i \in 1..n : f[i] = step[<<i, f[i - 1]>>]
  <2> HIDE DEF step
  <2> QED BY <1>5, IterationExists
<1>7. Unfolds(f)
  <2>1. ASSUME NEW i \in 1..n PROVE f[i] = Extend(f[i - 1], i)
    <3>1. f[i - 1] \in V
      BY <1>0
    <3>2. f[i] = Made(i, f[i - 1])
      <4> HIDE DEF Made
      <4> QED BY <1>6, <3>1
    <3> QED BY <1>4, <3>1, <3>2
  <2>2. f = [i \in 0..n |-> f[i]]
    OBVIOUS
  <2>3. \A i \in 0..n : i = 0 \/ i \in 1..n
    BY <1>0
  <2>4. \A i \in 0..n : f[i] = IF i = 0 THEN base ELSE Extend(f[i - 1], i)
    BY <1>6, <2>1, <2>3
  <2> HIDE DEF step
  <2> QED BY <2>2, <2>4
<1>8. ASSUME NEW i \in 1..n, NEW acc \in V, IsCut(members, acc, i - 1) PROVE IsCut(members, Made(i, acc), i)
  <2> DEFINE old == {j \in members : j <= i - 1}
             new == {j \in members : j <= i}
             parts == acc.parts
             current == acc.current
  <2>0. i \in Int /\ members \subseteq Int
    BY <1>0
  <2>1. new = old \cup (members \cap {i}) /\ i \notin old
    <3>1. i \notin old
      BY <2>0
    <3>2. \A j \in members : j <= i <=> (j <= i - 1 \/ j = i)
      BY <2>0
    <3> QED BY <3>1, <3>2
  <2>2. (UNION parts) \cap current = {} /\ Disjoint(parts) /\ (UNION parts) \cup current = old
    BY <1>8 DEF IsCut
  <2> HIDE DEF new, old, parts, current
  <2>3. CASE i \notin members
    BY <2>1, <2>2, <2>3 DEF IsCut, parts, current, new
  <2>4. CASE i \in members /\ Overflows(acc.current, acc.current \cup {i})
    <3>1. Made(i, acc) = [parts |-> parts \cup {current}, current |-> {i}]
      BY <2>4 DEF parts, current
    <3>2. (UNION (parts \cup {current})) = old
      BY <2>2
    <3>3. Disjoint(parts \cup {current})
      BY <2>2 DEF Disjoint
    <3> HIDE DEF Made
    <3> QED BY <2>1, <2>4, <3>1, <3>2, <3>3 DEF IsCut, new
  <2>5. CASE i \in members /\ ~Overflows(acc.current, acc.current \cup {i})
    BY <2>1, <2>2, <2>5 DEF IsCut, parts, current, new, Disjoint
  <2> QED BY <2>3, <2>4, <2>5
<1> HIDE DEF Made
<1>9. ASSUME NEW F, Unfolds(F) PROVE F[n] \in V /\ IsCut(members, F[n], n)
  <2> DEFINE G == {i \in 0..n : F[i] \in V /\ IsCut(members, F[i], i)}
  <2>0. 0 \in 0..n /\ n \in 0..n /\ \A i \in 1..n : i \in 0..n /\ i # 0
    BY <1>0
  <2>1. F[0] = base /\ \A i \in 1..n : F[i] = Extend(F[i - 1], i)
    BY <1>9, <2>0
  <2>2. Inductive(0, n, G)
    <3>1. 0 \in G
      <4>1. {j \in members : j <= 0} = {}
        <5>1. \A j \in members : j \in 1..n
          BY <1>0
        <5> QED BY <5>1
      <4>2. IsCut(members, base, 0)
        BY <4>1 DEF IsCut, base, Disjoint
      <4> QED BY <1>2, <2>0, <2>1, <4>2
    <3>2. ASSUME NEW i \in 0..(n - 1), i \in G PROVE i + 1 \in G
      <4>1. i + 1 \in 1..n /\ (i + 1) - 1 = i /\ i + 1 \in 0..n
        BY <1>0
      <4>2. F[i + 1] = Extend(F[i], i + 1) /\ F[i] \in V /\ IsCut(members, F[i], (i + 1) - 1)
        BY <2>1, <3>2, <4>1
      <4>3. F[i + 1] = Made(i + 1, F[i])
        BY <1>4, <4>2
      <4>4. F[i + 1] \in V /\ IsCut(members, F[i + 1], i + 1)
        BY <1>1, <1>8, <4>1, <4>2, <4>3
      <4> QED BY <4>1, <4>4
    <3> QED BY <3>1, <3>2 DEF Inductive
  <2> HIDE DEF G
  <2>3. \A i \in 0..n : i \in G
    BY <1>0, <2>2, UpTo
  <2> QED BY <2>0, <2>3 DEF G
<1> DEFINE upTo == CHOOSE F : Unfolds(F)
           last == upTo[n]
<1>10. Unfolds(upTo)
  BY <1>7
<1>11. Parts(document, s, policy) = IF policy.budget = None \/ ~policy.adaptive \/ s.unit.type # "TEXT_BLOCK"
                                   THEN {members} ELSE last.parts \cup {last.current}
  BY DEF Parts, members, n, Extend, Overflows, base
<1> HIDE DEF Unfolds, upTo
<1>12. IsCut(members, last, n)
  BY <1>9, <1>10
<1> HIDE DEF last
<1>13. {j \in members : j <= n} = members
  BY <1>0
<1>14. Partitions({members}, members)
  BY DEF Partitions, Disjoint
<1>15. Partitions(last.parts \cup {last.current}, members)
  <2>1. UNION (last.parts \cup {last.current}) = members
    BY <1>12, <1>13 DEF IsCut
  <2>2. Disjoint(last.parts \cup {last.current})
    BY <1>12 DEF IsCut, Disjoint
  <2> QED BY <2>1, <2>2 DEF Partitions
<1>16. Partitions(Parts(document, s, policy), members)
  BY <1>11, <1>14, <1>15
<1> QED BY <1>16 DEF members

-----------------------------------------------------------------------------
(* The projection, and what becomes of each element.                       *)

Retrieved(d) == {s \in d.units : s.unit.members \cap ExcludedOf(d) = {}}
OfUnits(d, policy) == UNION {FromUnit(d, s, policy) : s \in Retrieved(d)}
SilentOf(d, policy) == UNION {s.unit.members : s \in {s \in Retrieved(d) : FromUnit(d, s, policy) = {}}}
AloneOf(d, policy) == DOMAIN d.elements \ (ExcludedOf(d) \cup SilentOf(d, policy) \cup MembersOf(OfUnits(d, policy)))
UnsafeOf(d, policy) == {i \in AloneOf(d, policy) : d.elements[i].type \in UnsafeSingletons}
SafeOf(d, policy) == AloneOf(d, policy) \ UnsafeOf(d, policy)
OfElements(d, policy) == {FromElement(d, i, policy) : i \in Readable(d, SafeOf(d, policy))}

\* The projection by the fates of elements.
LEMMA ProjectionOf ==
  ASSUME NEW d, NEW policy
  PROVE  Projection(d, policy) =
           [units |-> OfUnits(d, policy) \cup OfElements(d, policy),
            excluded |-> ExcludedOf(d),
            unresolved |-> UnsafeOf(d, policy),
            blank |-> SilentOf(d, policy) \cup {i \in SafeOf(d, policy) : d.elements[i].blank},
            enriched |-> {}]
BY DEF Projection, Retrieved, OfUnits, SilentOf, AloneOf, UnsafeOf, SafeOf, OfElements

\* A document that can be projected, and whose units are of its elements.
IsProjected(d) ==
  /\ Len(d.elements) \in Nat /\ DOMAIN d.elements = 1..Len(d.elements)
  /\ \A s \in d.units : s.unit.members \subseteq DOMAIN d.elements
  /\ Projectable(d)

\* Of each part that has text there is a retrieval unit.
LEMMA FromUnits ==
  ASSUME NEW d, NEW policy, NEW s
  PROVE  /\ \A u \in FromUnit(d, s, policy) : u.members \in Parts(d, s, policy) /\ Readable(d, u.members) # {}
         /\ \A part \in Parts(d, s, policy) :
              Readable(d, part) # {} => \E u \in FromUnit(d, s, policy) : u.members = part
<1> DEFINE P(part) == Projected(d, s.unit, s.path, View(d, s.unit.type, part), part, policy)
<1>1. \A part : P(part).members = part
  BY DEF Projected
<1>2. FromUnit(d, s, policy) = {P(part) : part \in {part \in Parts(d, s, policy) : Readable(d, part) # {}}}
  BY DEF FromUnit
<1> HIDE DEF P
<1> QED BY <1>1, <1>2

\* A retrieval unit of one element is of one that is alone and safe and has text.
LEMMA UnitsOfElements ==
  ASSUME NEW d, NEW policy, NEW u \in OfElements(d, policy)
  PROVE  \E i \in Readable(d, SafeOf(d, policy)) : u.members = {i}
<1>1. PICK i \in Readable(d, SafeOf(d, policy)) : u = FromElement(d, i, policy)
  BY DEF OfElements
<1>2. u.members = {i}
  BY <1>1 DEF FromElement, Projected
<1> QED BY <1>2

\* There is a retrieval unit of each of them.
LEMMA UnitOfElement ==
  ASSUME NEW d, NEW policy, NEW i \in Readable(d, SafeOf(d, policy))
  PROVE  \E u \in OfElements(d, policy) : u.members = {i}
<1>1. FromElement(d, i, policy) \in OfElements(d, policy)
  BY DEF OfElements
<1>2. FromElement(d, i, policy).members = {i}
  BY DEF FromElement, Projected
<1> QED BY <1>1, <1>2

\* What is known of the sets that the fates are.
LEMMA FatesOf ==
  ASSUME NEW d, NEW policy, IsProjected(d)
  PROVE  /\ \A u \in OfUnits(d, policy) : \E s \in Retrieved(d) : u \in FromUnit(d, s, policy) /\ u.members \in Parts(d, s, policy)
                                                                 /\ u.members \subseteq s.unit.members
         /\ \A s \in Retrieved(d) : Partitions(Parts(d, s, policy), s.unit.members)
         /\ \A s, t \in Retrieved(d) : s # t => s.unit.members \cap t.unit.members = {}
         /\ \A s \in Retrieved(d) : s.unit.members \cap ExcludedOf(d) = {} /\ s.unit.members \subseteq DOMAIN d.elements
         /\ SilentOf(d, policy) \cap ExcludedOf(d) = {} /\ SilentOf(d, policy) \subseteq DOMAIN d.elements
         /\ ExcludedOf(d) \subseteq DOMAIN d.elements
         /\ \A u \in OfUnits(d, policy) : u.members \cap SilentOf(d, policy) = {}
<1>1. \A s \in Retrieved(d) : s \in d.units /\ s.unit.members \cap ExcludedOf(d) = {} /\ s.unit.members \subseteq DOMAIN d.elements
  BY DEF Retrieved, IsProjected
<1>2. \A s \in Retrieved(d) : Partitions(Parts(d, s, policy), s.unit.members)
  BY <1>1, PartsPartition DEF IsProjected
<1>3. \A s, t \in Retrieved(d) : s # t => s.unit.members \cap t.unit.members = {}
  BY <1>1 DEF IsProjected, Projectable
<1>4. \A u \in OfUnits(d, policy) : \E s \in Retrieved(d) : u \in FromUnit(d, s, policy)
  BY DEF OfUnits
<1>5. ASSUME NEW s \in Retrieved(d), NEW u \in FromUnit(d, s, policy)
      PROVE  u.members \in Parts(d, s, policy) /\ u.members \subseteq s.unit.members
  <2>1. u.members \in Parts(d, s, policy)
    BY FromUnits
  <2> QED BY <1>2, <2>1 DEF Partitions
<1>6. SilentOf(d, policy) \cap ExcludedOf(d) = {} /\ SilentOf(d, policy) \subseteq DOMAIN d.elements
  BY <1>1 DEF SilentOf
<1>7. ASSUME NEW u \in OfUnits(d, policy) PROVE u.members \cap SilentOf(d, policy) = {}
  <2>1. PICK s \in Retrieved(d) : u \in FromUnit(d, s, policy) /\ u.members \subseteq s.unit.members
    BY <1>4, <1>5
  <2>2. \A t \in Retrieved(d) : FromUnit(d, t, policy) = {} => s.unit.members \cap t.unit.members = {}
    BY <1>3, <2>1
  <2> QED BY <2>1, <2>2 DEF SilentOf
<1>8. ExcludedOf(d) \subseteq DOMAIN d.elements
  BY DEF ExcludedOf
<1> QED BY <1>1, <1>2, <1>3, <1>4, <1>5, <1>6, <1>7, <1>8

\* The fates of the elements are a partition of them.
LEMMA FatesArePartition ==
  ASSUME NEW d, NEW policy, IsProjected(d)
  PROVE  LET blank == SilentOf(d, policy) \cup {i \in SafeOf(d, policy) : d.elements[i].blank}
             fates == {u.members : u \in OfUnits(d, policy) \cup OfElements(d, policy)}
                      \cup ({ExcludedOf(d), UnsafeOf(d, policy), blank} \ {{}})
         IN /\ UNION fates = DOMAIN d.elements /\ Disjoint(fates)
            /\ ExcludedOf(d) \cap UnsafeOf(d, policy) = {}
            /\ ExcludedOf(d) \cap blank = {} /\ UnsafeOf(d, policy) \cap blank = {}
<1>0. /\ \A u \in OfElements(d, policy) : \E i \in Readable(d, SafeOf(d, policy)) : u.members = {i}
      /\ \A i \in Readable(d, SafeOf(d, policy)) : \E u \in OfElements(d, policy) : u.members = {i}
  <2>1. ASSUME NEW u \in OfElements(d, policy) PROVE \E i \in Readable(d, SafeOf(d, policy)) : u.members = {i}
    BY UnitsOfElements
  <2>2. ASSUME NEW i \in Readable(d, SafeOf(d, policy)) PROVE \E u \in OfElements(d, policy) : u.members = {i}
    BY UnitOfElement
  <2> QED BY <2>1, <2>2
<1> DEFINE all == DOMAIN d.elements
           whole == OfUnits(d, policy)
           single == OfElements(d, policy)
           excluded == ExcludedOf(d)
           silent == SilentOf(d, policy)
           alone == AloneOf(d, policy)
           unsafe == UnsafeOf(d, policy)
           safe == SafeOf(d, policy)
           unread == {i \in safe : d.elements[i].blank}
           blank == silent \cup unread
           skipped == {excluded, unsafe, blank}
           fates == {u.members : u \in whole \cup single} \cup (skipped \ {{}})
<1>1. /\ \A i \in all : i \in excluded \/ i \in silent \/ i \in alone \/ \E u \in whole : i \in u.members
      /\ alone \subseteq all /\ alone \cap excluded = {} /\ alone \cap silent = {}
      /\ \A u \in whole : u.members \cap alone = {}
  BY DEF AloneOf, MembersOf
<1>2. safe \subseteq alone /\ unsafe \subseteq alone /\ safe \cap unsafe = {} /\ alone = safe \cup unsafe
  BY DEF SafeOf, UnsafeOf
<1>3. /\ \A u \in single : \E i \in safe : ~d.elements[i].blank /\ u.members = {i}
      /\ \A i \in safe : ~d.elements[i].blank => \E u \in single : u.members = {i}
  BY <1>0 DEF Readable
<1>4. /\ \A u \in whole : u.members \cap excluded = {} /\ u.members \cap silent = {} /\ u.members \subseteq all
      /\ silent \cap excluded = {} /\ silent \subseteq all /\ excluded \subseteq all
  BY FatesOf
<1>5. ASSUME NEW u \in whole, NEW v \in whole, u.members # v.members PROVE u.members \cap v.members = {}
  <2>1. PICK s \in Retrieved(d) : u.members \in Parts(d, s, policy) /\ u.members \subseteq s.unit.members
    BY FatesOf
  <2>2. PICK t \in Retrieved(d) : v.members \in Parts(d, t, policy) /\ v.members \subseteq t.unit.members
    BY FatesOf
  <2>3. CASE s = t
    <3>1. Disjoint(Parts(d, s, policy))
      BY FatesOf DEF Partitions
    <3> QED BY <1>5, <2>1, <2>2, <2>3, <3>1 DEF Disjoint
  <2>4. CASE s # t
    <3>1. s.unit.members \cap t.unit.members = {}
      BY <2>4, FatesOf
    <3> QED BY <2>1, <2>2, <3>1
  <2> QED BY <2>3, <2>4
<1> HIDE DEF all, whole, single, excluded, silent, alone, unsafe, safe
<1>6. excluded \cap unsafe = {} /\ excluded \cap blank = {} /\ unsafe \cap blank = {}
  BY <1>1, <1>2, <1>4
<1>7. \A u \in whole : u.members \cap blank = {} /\ u.members \cap unsafe = {} /\ u.members \cap excluded = {}
  BY <1>1, <1>2, <1>4
<1>8. \A u \in single : u.members \cap blank = {} /\ u.members \cap unsafe = {} /\ u.members \cap excluded = {}
  <2> SUFFICES ASSUME NEW u \in single PROVE u.members \cap blank = {} /\ u.members \cap unsafe = {} /\ u.members \cap excluded = {}
    OBVIOUS
  <2>1. PICK i \in safe : ~d.elements[i].blank /\ u.members = {i}
    BY <1>3
  <2>2. i \notin unread /\ i \notin unsafe /\ i \notin excluded /\ i \notin silent
    BY <1>1, <1>2, <2>1
  <2> QED BY <2>1, <2>2
<1>9. \A u \in whole, v \in single : u.members \cap v.members = {}
  BY <1>1, <1>2, <1>3
<1>10. \A u, v \in single : u.members # v.members => u.members \cap v.members = {}
  BY <1>3
<1> HIDE DEF blank
<1>11. \A u, v \in whole \cup single : u.members # v.members => u.members \cap v.members = {}
  BY <1>5, <1>9, <1>10
<1>12. \A u \in whole \cup single, set \in skipped : u.members \cap set = {}
  BY <1>7, <1>8
<1>13. \A p, q \in skipped : p # q => p \cap q = {}
  BY <1>6
<1> HIDE DEF skipped
<1>14. Disjoint(fates)
  BY <1>11, <1>12, <1>13 DEF Disjoint
<1>15. UNION fates = all
  <2>1. UNION fates = (UNION {u.members : u \in whole \cup single}) \cup UNION skipped
    OBVIOUS
  <2>2. UNION skipped = excluded \cup unsafe \cup blank
    BY DEF skipped
  <2>3. UNION {u.members : u \in whole \cup single} \subseteq all
    BY <1>1, <1>2, <1>3, <1>4
  <2>4. blank \subseteq all
    BY <1>1, <1>2, <1>4 DEF blank
  <2>5. ASSUME NEW i \in all PROVE i \in excluded \cup unsafe \cup blank \/ \E u \in whole \cup single : i \in u.members
    <3>1. CASE i \in alone
      <4>1. CASE i \in safe /\ ~d.elements[i].blank
        BY <1>3, <4>1
      <4>2. CASE i \in safe /\ d.elements[i].blank
        BY <4>2 DEF blank
      <4> QED BY <1>2, <3>1, <4>1, <4>2
    <3> QED BY <1>1, <3>1 DEF blank
  <2>6. all \subseteq (UNION {u.members : u \in whole \cup single}) \cup (excluded \cup unsafe \cup blank)
    BY <2>5
  <2> QED BY <1>1, <1>2, <1>4, <2>1, <2>2, <2>3, <2>4, <2>6
<1> QED BY <1>6, <1>14, <1>15 DEF all, whole, single, excluded, silent, unsafe, safe, blank, skipped

-----------------------------------------------------------------------------
(* The properties of the projection.                                       *)

\* The units of the document are those of the stages.
LEMMA DocumentOfStages ==
  ASSUME AInv, AreElements(raw), stage \in AfterAssembly
  PROVE  /\ result.document.elements = doc /\ stage \in AfterIntegrity
         /\ \A s \in result.document.units : s.unit \in units
         /\ \A u \in units : \E s \in result.document.units : s.unit = u
<1>1. [result.document EXCEPT !.annotations = <<>>, !.manifest = None] = Assembled
  BY DEF AInv, IInv, Kept, KeepsStructure
<1>2. result.document.elements = Assembled.elements /\ result.document.units = Assembled.units
  BY <1>1 DEF Assembled
<1>3. stage \in AfterIntegrity /\ stage \in AfterIntegration
  BY DEF AfterIntegrity, AfterHierarchy, AfterRegions, AfterIntegration, AfterRelations
<1>4. result.stored = Integrated(units, hierarchy.paths, result.regions)
  BY <1>3 DEF AInv, IInv, Found
<1>5. result.document.units = Integrated(units, hierarchy.paths, result.regions) /\ result.document.elements = doc
  BY <1>2, <1>4 DEF Assembled
<1> DEFINE Stored(u) == [unit |-> u, path |-> CommonPath(hierarchy.paths, u.members), region |-> RegionOf(u, result.regions)]
<1>6. \A u : Stored(u).unit = u
  OBVIOUS
<1>7. result.document.units = {Stored(u) : u \in units}
  BY <1>5 DEF Integrated
<1> HIDE DEF Stored
<1> QED BY <1>3, <1>5, <1>6, <1>7

\* What the projection is taken from, and what it is.
LEMMA WhatIsProjected ==
  ASSUME AInv, AreElements(raw), projection # None \/ stage \in AfterProjection
  PROVE  /\ stage \in AfterIntegrity /\ stage \in AfterNormalising
         /\ IsProjected(result.document)
         /\ result.document.elements = doc /\ DOMAIN doc = DOMAIN raw /\ DOMAIN raw = 1..Len(raw)
         /\ \A s \in result.document.units : s.unit \in units
         /\ \A u \in units : \E s \in result.document.units : s.unit = u
         /\ \E policy \in Policies :
              /\ projection.units = OfUnits(result.document, policy) \cup OfElements(result.document, policy)
              /\ projection.excluded = ExcludedOf(result.document)
              /\ projection.unresolved = UnsafeOf(result.document, policy)
              /\ projection.blank = SilentOf(result.document, policy)
                                    \cup {i \in SafeOf(result.document, policy) : result.document.elements[i].blank}
<1>1. stage \in AfterProjection /\ stage \in AfterAssembly
  BY StageSets DEF AInv, Indexed
<1>2. stage \in AfterIntegrity /\ stage \in AfterNormalising
  BY <1>1 DEF AfterNormalising, AfterSignals, AfterScoring, AfterGrouping, AfterIntegrity,
              AfterHierarchy, AfterRegions, AfterIntegration, AfterRelations
<1>3. /\ result.document.elements = doc
      /\ \A s \in result.document.units : s.unit \in units
      /\ \A u \in units : \E s \in result.document.units : s.unit = u
  BY <1>1, DocumentOfStages
<1>4. DOMAIN doc = 1..Len(raw) /\ DOMAIN raw = 1..Len(raw) /\ Len(raw) \in Nat /\ Len(doc) = Len(raw)
  BY <1>2, StagesReadElements
<1>5. \A u \in units : u.members \subseteq DOMAIN doc
  BY <1>2, UnitsAreConsolidated
<1>6. Projectable(result.document)
  BY <1>1 DEF AInv, Indexed
<1>7. IsProjected(result.document)
  BY <1>3, <1>4, <1>5, <1>6 DEF IsProjected
<1>8. PICK policy \in Policies :
        projection = [Projection(result.document, policy) EXCEPT !.enriched = projection.enriched]
  BY <1>1 DEF AInv, Indexed
<1> DEFINE p == Projection(result.document, policy)
<1>9. /\ projection.units = p.units /\ projection.excluded = p.excluded
      /\ projection.unresolved = p.unresolved /\ projection.blank = p.blank
  <2>1. DOMAIN p = {"units", "excluded", "unresolved", "blank", "enriched"}
    BY ProjectionOf
  <2>2. projection = [p EXCEPT !.enriched = projection.enriched]
    BY <1>8
  <2> HIDE DEF p
  <2> QED BY <2>1, <2>2
<1>10. /\ p.units = OfUnits(result.document, policy) \cup OfElements(result.document, policy)
       /\ p.excluded = ExcludedOf(result.document)
       /\ p.unresolved = UnsafeOf(result.document, policy)
       /\ p.blank = SilentOf(result.document, policy)
                    \cup {i \in SafeOf(result.document, policy) : result.document.elements[i].blank}
  BY ProjectionOf
<1> HIDE DEF p
<1> QED BY <1>2, <1>3, <1>4, <1>7, <1>9, <1>10

\* An element that belongs to a family is in a unit of that family, and what is
\* one native group is in one unit.
LEMMA FamiliesAreUnits ==
  ASSUME AInv, AreElements(raw), projection # None
  PROVE  /\ \A i \in DOMAIN raw : Family(raw[i].type) # None =>
              \E s \in result.document.units : i \in s.unit.members /\ s.unit.type = FamilyUnit(Family(raw[i].type))
         /\ \A g \in NativeGroups(raw) :
              /\ Min(GroupMembers(raw, g)) \in GroupMembers(raw, g)
              /\ \E s \in result.document.units :
                   /\ GroupMembers(raw, g) \subseteq s.unit.members
                   /\ s.unit.type = FamilyUnit(Family(raw[Min(GroupMembers(raw, g))].type))
<1>1. /\ stage \in AfterIntegrity /\ stage \in AfterNormalising
      /\ DOMAIN doc = DOMAIN raw /\ DOMAIN raw = 1..Len(raw)
      /\ \A u \in units : \E s \in result.document.units : s.unit = u
  BY WhatIsProjected
<1>2. /\ IsGrouped(doc)
      /\ \A s \in Spans(doc, b) : \E u \in units : u.members = s.members /\ u.type = FamilyUnit(s.family)
  BY <1>1, UnitsAreConsolidated
<1>3. /\ \A i \in 1..Len(raw) : Family(doc[i].type) = Family(raw[i].type)
      /\ NativeGroups(doc) = NativeGroups(raw) /\ \A g : GroupMembers(doc, g) = GroupMembers(raw, g)
  BY <1>1, ElementsKeepFamilies
<1>4. \A s \in Spans(doc, b) : \E stored \in result.document.units :
        stored.unit.members = s.members /\ stored.unit.type = FamilyUnit(s.family)
  BY <1>1, <1>2
<1>5. /\ \A s \in Spans(doc, b) : s.members \subseteq DOMAIN doc /\ \A i \in s.members : Family(doc[i].type) = s.family
      /\ \A g \in NativeGroups(doc) : \E s \in Spans(doc, b) : GroupMembers(doc, g) \subseteq s.members
      /\ \A i \in DOMAIN doc : Family(doc[i].type) # None => \E s \in Spans(doc, b) : i \in s.members
  BY <1>2, SpansCover DEF IsSpan
<1>6. ASSUME NEW i \in DOMAIN raw, Family(raw[i].type) # None
      PROVE  \E s \in result.document.units : i \in s.unit.members /\ s.unit.type = FamilyUnit(Family(raw[i].type))
  <2>1. PICK s \in Spans(doc, b) : i \in s.members
    BY <1>1, <1>3, <1>5, <1>6
  <2>2. s.family = Family(raw[i].type)
    BY <1>1, <1>3, <1>5, <2>1
  <2> QED BY <1>4, <2>1, <2>2
<1>7. ASSUME NEW g \in NativeGroups(raw)
      PROVE  /\ Min(GroupMembers(raw, g)) \in GroupMembers(raw, g)
             /\ \E s \in result.document.units :
                  /\ GroupMembers(raw, g) \subseteq s.unit.members
                  /\ s.unit.type = FamilyUnit(Family(raw[Min(GroupMembers(raw, g))].type))
  <2> DEFINE first == Min(GroupMembers(raw, g))
  <2>1. first \in GroupMembers(raw, g)
    <3>1. Min(GroupMembers(doc, g)) \in GroupMembers(doc, g)
      BY <1>2, <1>3, GroupsHaveMembers DEF IsGrouped
    <3> QED BY <1>3, <3>1
  <2> HIDE DEF first
  <2>2. PICK s \in Spans(doc, b) : GroupMembers(raw, g) \subseteq s.members
    BY <1>3, <1>5
  <2>3. s.family = Family(raw[first].type)
    BY <1>1, <1>3, <1>5, <2>1, <2>2
  <2> QED BY <1>4, <2>1, <2>2, <2>3 DEF first
<1> QED BY <1>6, <1>7

\* A part that is the whole of a unit: no unit but a block of text is cut.
LEMMA WholeUnits ==
  ASSUME NEW d, NEW policy, NEW s, s.unit.type # "TEXT_BLOCK"
  PROVE  Parts(d, s, policy) = {s.unit.members}
BY DEF Parts

\* Only formulas become a block of text.
LEMMA OnlyFormulasAreText == \A family \in Families : FamilyUnit(family) = "TEXT_BLOCK" => family = "formula"
BY DEF Families, FamilyUnit

\* A unit of a family but formulas is retrieved as a whole or not at all.
LEMMA RetrievedWhole ==
  ASSUME NEW d, NEW policy, IsProjected(d), NEW s \in d.units, s.unit.type # "TEXT_BLOCK"
  PROVE  \/ \E u \in OfUnits(d, policy) : u.members = s.unit.members
         \/ s.unit.members \subseteq ExcludedOf(d) \/ s.unit.members \subseteq SilentOf(d, policy)
<1>1. CASE s \in Retrieved(d) /\ FromUnit(d, s, policy) # {}
  <2>1. PICK u \in FromUnit(d, s, policy) : TRUE
    BY <1>1
  <2>2. u.members = s.unit.members
    BY FromUnits, WholeUnits
  <2> QED BY <1>1, <2>2 DEF OfUnits
<1>2. CASE s \in Retrieved(d) /\ FromUnit(d, s, policy) = {}
  BY <1>2 DEF SilentOf
<1>3. CASE s \notin Retrieved(d)
  BY <1>3 DEF Retrieved, IsProjected, Projectable
<1> QED BY <1>1, <1>2, <1>3

\* What the source names as one group is retrieved as a whole or not at all,
\* whatever the budget: it is in one span, the span is one unit, and only a
\* block of text or formulas is cut.
THEOREM GroupsAreRetrievedWholeAlways == Spec => []GroupsAreRetrievedWhole
<1>1. AInv /\ AreElements(raw) => GroupsAreRetrievedWhole
  <2> SUFFICES ASSUME AInv, AreElements(raw), projection # None, NEW g \in NativeGroups(raw),
                      Family(raw[Min(GroupMembers(raw, g))].type) # "formula"
               PROVE  \/ \E u \in projection.units : GroupMembers(raw, g) \subseteq u.members
                      \/ GroupMembers(raw, g) \cap MembersOf(projection.units) = {}
    BY DEF GroupsAreRetrievedWhole
  <2> DEFINE d == result.document
             members == GroupMembers(raw, g)
             family == Family(raw[Min(members)].type)
  <2>1. IsProjected(d)
    BY WhatIsProjected
  <2>2. PICK policy \in Policies : projection.units = OfUnits(d, policy) \cup OfElements(d, policy)
    BY WhatIsProjected
  <2>3. PICK s \in d.units : members \subseteq s.unit.members /\ s.unit.type = FamilyUnit(family)
    BY FamiliesAreUnits
  <2>4. s.unit.type # "TEXT_BLOCK"
    <3>1. Min(members) \in Keyed(raw)
      BY FamiliesAreUnits DEF GroupMembers
    <3>2. family \in Families
      BY <3>1, FamilyNames DEF Keyed
    <3> HIDE DEF family
    <3> QED BY <2>3, <3>2, OnlyFormulasAreText DEF family
  <2> HIDE DEF members, d
  <2>5. CASE \E u \in OfUnits(d, policy) : u.members = s.unit.members
    BY <2>2, <2>3, <2>5 DEF members
  <2>6. CASE s.unit.members \subseteq ExcludedOf(d) \cup SilentOf(d, policy)
    <3>1. \A u \in OfUnits(d, policy) : u.members \cap (ExcludedOf(d) \cup SilentOf(d, policy)) = {}
      BY <2>1, FatesOf
    <3>2. \A u \in OfElements(d, policy) : u.members \cap (ExcludedOf(d) \cup SilentOf(d, policy)) = {}
      <4>1. Readable(d, SafeOf(d, policy)) \cap (ExcludedOf(d) \cup SilentOf(d, policy)) = {}
        BY DEF Readable, SafeOf, AloneOf
      <4>2. ASSUME NEW u \in OfElements(d, policy) PROVE \E i \in Readable(d, SafeOf(d, policy)) : u.members = {i}
        BY UnitsOfElements
      <4> QED BY <4>1, <4>2
    <3> QED BY <2>2, <2>3, <2>6, <3>1, <3>2 DEF MembersOf, members
  <2> QED BY <2>1, <2>4, <2>5, <2>6, RetrievedWhole
<1> QED BY <1>1, Invariance, ElementsAlways, PTL

\* No part of a table, a list, code or a formula is left outside of a unit: what
\* is alone and is not safe are figures, charts, and formulas without text.
THEOREM OnlyFiguresAreUnplacedAlways == Spec => []OnlyFiguresAreUnplaced
<1>1. AInv /\ AreElements(raw) => OnlyFiguresAreUnplaced
  <2> SUFFICES ASSUME AInv, AreElements(raw), projection # None, NEW i \in projection.unresolved,
                      raw[i].type \notin {"FIGURE", "CHART"}
               PROVE  raw[i].type = "FORMULA" /\ raw[i].blank
    BY DEF OnlyFiguresAreUnplaced
  <2> DEFINE d == result.document
             family == Family(raw[i].type)
  <2>1. IsProjected(d) /\ d.elements = doc /\ stage \in AfterNormalising /\ DOMAIN raw = 1..Len(raw) /\ DOMAIN doc = DOMAIN raw
    BY WhatIsProjected
  <2>2. PICK policy \in Policies : projection.unresolved = UnsafeOf(d, policy)
    BY WhatIsProjected
  <2>3. i \in AloneOf(d, policy) /\ i \in DOMAIN raw /\ doc[i].type \in UnsafeSingletons
    BY <2>1, <2>2 DEF UnsafeOf, AloneOf
  <2>4. doc[i].type = Resolved(raw[i].type) /\ doc[i].blank = raw[i].blank /\ Family(doc[i].type) = family
    BY <2>1, <2>3, ElementsKeepFamilies
  <2>5. doc[i].type = raw[i].type
    BY <2>3, <2>4 DEF Resolved, UnsafeSingletons
  <2>6. family \in Families /\ (family = "formula" => raw[i].type = "FORMULA")
    BY <2>3, <2>5 DEF Family, Families, UnsafeSingletons, TableTypes, ListTypes
  <2>7. PICK s \in d.units : i \in s.unit.members /\ s.unit.type = FamilyUnit(family)
    <3> HIDE DEF family
    <3>1. family # None
      BY <2>6, NoneAssumption
    <3> QED BY <2>3, <3>1, FamiliesAreUnits DEF family
  <2> HIDE DEF d, family
  <2>8. i \notin ExcludedOf(d) /\ i \notin SilentOf(d, policy) /\ \A u \in OfUnits(d, policy) : i \notin u.members
    BY <2>3 DEF AloneOf, MembersOf
  <2>9. s \in Retrieved(d)
    BY <2>1, <2>7, <2>8 DEF Retrieved, IsProjected, Projectable
  <2>10. s.unit.type = "TEXT_BLOCK"
    BY <2>1, <2>7, <2>8, RetrievedWhole
  <2>11. raw[i].type = "FORMULA"
    BY <2>6, <2>7, <2>10, OnlyFormulasAreText
  <2>12. PICK part \in Parts(d, s, policy) : i \in part
    <3>1. Partitions(Parts(d, s, policy), s.unit.members)
      BY <2>1, <2>9, FatesOf
    <3> QED BY <2>7, <3>1 DEF Partitions
  <2>13. Readable(d, part) = {}
    <3> SUFFICES ASSUME Readable(d, part) # {} PROVE FALSE
      OBVIOUS
    <3>1. PICK u \in FromUnit(d, s, policy) : u.members = part
      BY <2>12, FromUnits
    <3> QED BY <2>8, <2>9, <2>12, <3>1 DEF OfUnits
  <2>14. raw[i].blank
    BY <2>1, <2>4, <2>12, <2>13 DEF Readable
  <2> QED BY <2>11, <2>14
<1> QED BY <1>1, Invariance, ElementsAlways, PTL

-----------------------------------------------------------------------------
(* Every element is accounted for once.                                    *)

\* Each element of a source is in one retrieval unit or is named as left out:
\* units do not overlap, the parts of one that is cut are a partition of it,
\* and what is in no unit is alone.
THEOREM EveryElementIsAccountedOnceAlways == Spec => []EveryElementIsAccountedOnce
<1>1. AInv /\ AreElements(raw) => EveryElementIsAccountedOnce
  <2> SUFFICES ASSUME AInv, AreElements(raw), projection # None PROVE EveryElementIsAccountedOnce
    BY DEF EveryElementIsAccountedOnce
  <2> DEFINE d == result.document
  <2>1. IsProjected(d) /\ d.elements = doc /\ DOMAIN doc = DOMAIN raw
    BY WhatIsProjected
  <2>2. PICK policy \in Policies :
          /\ projection.units = OfUnits(d, policy) \cup OfElements(d, policy)
          /\ projection.excluded = ExcludedOf(d)
          /\ projection.unresolved = UnsafeOf(d, policy)
          /\ projection.blank = SilentOf(d, policy) \cup {i \in SafeOf(d, policy) : d.elements[i].blank}
    BY WhatIsProjected
  <2> HIDE DEF d
  <2> DEFINE skipped == <<projection.excluded, projection.unresolved, projection.blank>>
             fates == {u.members : u \in projection.units}
                      \cup ({projection.excluded, projection.unresolved, projection.blank} \ {{}})
  <2>3. UNION fates = DOMAIN d.elements /\ Disjoint(fates)
    BY <2>1, <2>2, FatesArePartition
  <2>4. /\ projection.excluded \cap projection.unresolved = {}
        /\ projection.excluded \cap projection.blank = {} /\ projection.unresolved \cap projection.blank = {}
    BY <2>1, <2>2, FatesArePartition
  <2>5. \A k, l \in DOMAIN skipped : k # l => skipped[k] \cap skipped[l] = {}
    <3> SUFFICES ASSUME NEW k \in 1..3, NEW l \in 1..3, k # l PROVE skipped[k] \cap skipped[l] = {}
      OBVIOUS
    <3>1. skipped[1] = projection.excluded /\ skipped[2] = projection.unresolved /\ skipped[3] = projection.blank
      OBVIOUS
    <3>2. k = 1 \/ k = 2 \/ k = 3
      OBVIOUS
    <3>3. l = 1 \/ l = 2 \/ l = 3
      OBVIOUS
    <3> HIDE DEF skipped
    <3> QED BY <2>4, <3>1, <3>2, <3>3
  <2> QED BY <2>1, <2>3, <2>5 DEF EveryElementIsAccountedOnce
<1> QED BY <1>1, Invariance, ElementsAlways, PTL

-----------------------------------------------------------------------------
(* Tables that go on over pages.                                           *)

\* Each continuation is the one pair of fragments that fits on its pages.
LEMMA ContinuationsOf ==
  ASSUME NEW d, NEW us, NEW r \in TableContinuations(d, us)
  PROVE  \E u, v \in Fragments(d, us) :
           /\ r = Relation("CONTINUES", UnitEnd(u), UnitEnd(v))
           /\ Evidence(d, v).page = Evidence(d, u).page + 1
           /\ CompatibleTables(Evidence(d, u), Evidence(d, v))
           /\ \A x, y \in Fragments(d, us) :
                /\ Evidence(d, x).page = Evidence(d, u).page /\ Evidence(d, y).page = Evidence(d, u).page + 1
                /\ CompatibleTables(Evidence(d, x), Evidence(d, y))
                => x = u /\ y = v
<1> DEFINE fragments == Fragments(d, us)
           Page(u) == Evidence(d, u).page
           Fit(pair) == CompatibleTables(Evidence(d, pair[1]), Evidence(d, pair[2]))
           Pairs(p) == {pair \in {u \in fragments : Page(u) = p} \X {u \in fragments : Page(u) = p + 1} : Fit(pair)}
           Of(pair) == Relation("CONTINUES", UnitEnd(pair[1]), UnitEnd(pair[2]))
           accepted == {p \in {Page(u) : u \in fragments} : \E pair \in Pairs(p) : Pairs(p) = {pair}}
<1>1. TableContinuations(d, us) = UNION {{Of(pair) : pair \in Pairs(p)} : p \in accepted}
  BY DEF TableContinuations
<1>0. PICK p \in accepted : \E pair \in Pairs(p) : r = Of(pair)
  BY <1>1
<1>2. PICK pair \in Pairs(p) : r = Of(pair)
  BY <1>0
<1>3. Pairs(p) = {pair}
  BY <1>2
<1>4. \A x, y \in fragments : Page(x) = p /\ Page(y) = p + 1 /\ Fit(<<x, y>>) => <<x, y>> \in Pairs(p)
  OBVIOUS
<1>5. pair = <<pair[1], pair[2]>> /\ pair[1] \in fragments /\ pair[2] \in fragments
      /\ Page(pair[1]) = p /\ Page(pair[2]) = p + 1 /\ Fit(pair)
  BY <1>2
<1>6. \A x, y \in fragments : Page(x) = p /\ Page(y) = p + 1 /\ CompatibleTables(Evidence(d, x), Evidence(d, y))
        => x = pair[1] /\ y = pair[2]
  <2> SUFFICES ASSUME NEW x \in fragments, NEW y \in fragments, Page(x) = p, Page(y) = p + 1,
                      CompatibleTables(Evidence(d, x), Evidence(d, y))
               PROVE  x = pair[1] /\ y = pair[2]
    OBVIOUS
  <2>1. Fit(<<x, y>>)
    OBVIOUS
  <2> HIDE DEF Fit, fragments, Page
  <2>2. <<x, y>> \in Pairs(p)
    BY <1>4, <2>1
  <2> HIDE DEF Pairs
  <2>3. <<x, y>> = pair
    BY <1>3, <2>2
  <2> QED BY <2>3
<1> QED BY <1>2, <1>5, <1>6

\* An end names its members, and they have the evidence.
LEMMA EndsHaveEvidence ==
  ASSUME NEW d, NEW u, NEW v, UnitEnd(u) = UnitEnd(v)
  PROVE  Evidence(d, u) = Evidence(d, v)
BY DEF UnitEnd, Evidence, TablesOf

\* A fragment of a table has a page.
LEMMA FragmentsHavePages ==
  ASSUME NEW d, NEW us, NEW u \in Fragments(d, us), u.members \subseteq DOMAIN d,
         \A i \in DOMAIN d : d[i].evidence # None => d[i].evidence.page \in Nat
  PROVE  Evidence(d, u).page \in Nat
<1>1. Cardinality(TablesOf(d, u)) = 1 /\ Evidence(d, u) # None
  BY DEF Fragments
<1>2. TablesOf(d, u) # {}
  BY <1>1, FS_EmptySet
<1>3. \E i \in TablesOf(d, u) : Evidence(d, u) = d[i].evidence
  BY <1>2 DEF Evidence
<1> QED BY <1>1, <1>3 DEF TablesOf

\* No other relation is a continuation.
LEMMA OnlyTablesContinue ==
  ASSUME NEW d, NEW us, NEW parts, NEW r \in Relations(d, us, parts), r.type = "CONTINUES"
  PROVE  r \in TableContinuations(d, us)
<1>1. \A q \in Neighbours(d) : q.type = "NEXT"
  BY DEF Neighbours, Relation
<1>2. \A q \in Memberships(us) \cup Nestings(us) \cup SubdocumentMemberships(us, parts) : q.type = "PART_OF"
  BY DEF Memberships, Nestings, SubdocumentMemberships, Relation
<1>3. \A q \in Notes(d) : q.type = "FOOTNOTE_OF"
  BY DEF Notes, Relation
<1>4. \A q \in QuestionAnswers(us) : q.type = "QUESTION_ANSWER"
  BY DEF QuestionAnswers, Relation
<1> QED BY <1>1, <1>2, <1>3, <1>4 DEF Relations

\* Continuations are chains: what is at either end of one is at that end of no
\* other, since the end has the page, and the page has one pair.
THEOREM ContinuationsAreChainsAlways == Spec => []ContinuationsAreChains
<1>1. AInv /\ AreElements(raw) => ContinuationsAreChains
  <2> SUFFICES ASSUME AInv, AreElements(raw),
                      NEW r \in result.relations, r.type = "CONTINUES",
                      NEW s \in result.relations, s.type = "CONTINUES"
               PROVE  (r.source = s.source) = (r.target = s.target)
    BY DEF ContinuationsAreChains
  <2>1. stage \in AfterRelations /\ result.relations = Relations(doc, units, result.subdocuments)
    BY DEF AInv, IInv, Found
  <2>2. stage \in AfterIntegrity /\ stage \in AfterNormalising
    BY <2>1, UnitsAreConsolidated DEF AfterIntegrity, AfterHierarchy, AfterRegions, AfterIntegration
  <2>3. \A u \in units : u.members \subseteq DOMAIN doc
    BY <2>2, UnitsAreConsolidated
  <2>4. \A i \in DOMAIN doc : doc[i].evidence # None => doc[i].evidence.page \in Nat
    <3>1. DOMAIN doc = 1..Len(raw) /\ DOMAIN raw = 1..Len(raw)
      BY <2>2, StagesReadElements
    <3>2. \A i \in 1..Len(raw) : doc[i].evidence = raw[i].evidence
      BY <2>2, ElementsKeepFamilies
    <3>3. \A i \in 1..Len(raw) : IsElement(raw[i])
      BY SequenceDomain DEF AreElements
    <3> QED BY <3>1, <3>2, <3>3 DEF IsElement
  <2> DEFINE fragments == Fragments(doc, units)
             Page(u) == Evidence(doc, u).page
             Fit(u, v) == CompatibleTables(Evidence(doc, u), Evidence(doc, v))
             End(u) == UnitEnd(u)
  <2>5. \A u \in fragments : Page(u) \in Nat
    BY <2>3, <2>4, FragmentsHavePages DEF Fragments
  <2>6. \A u, v : End(u) = End(v) => Page(u) = Page(v)
    BY EndsHaveEvidence
  <2>7. r \in TableContinuations(doc, units) /\ s \in TableContinuations(doc, units)
    BY <2>1, OnlyTablesContinue
  <2>8. PICK u \in fragments, v \in fragments :
          /\ r = Relation("CONTINUES", End(u), End(v)) /\ Page(v) = Page(u) + 1 /\ Fit(u, v)
          /\ \A x, y \in fragments : Page(x) = Page(u) /\ Page(y) = Page(u) + 1 /\ Fit(x, y) => x = u /\ y = v
    BY <2>7, ContinuationsOf
  <2>9. PICK x \in fragments, y \in fragments :
          s = Relation("CONTINUES", End(x), End(y)) /\ Page(y) = Page(x) + 1 /\ Fit(x, y)
    BY <2>7, ContinuationsOf
  <2>10. r.source = End(u) /\ r.target = End(v) /\ s.source = End(x) /\ s.target = End(y)
    BY <2>8, <2>9 DEF Relation
  <2> HIDE DEF fragments, Page, Fit, End
  <2>11. Page(x) = Page(u) => x = u /\ y = v
    BY <2>8, <2>9
  <2>12. r.source = s.source => r.target = s.target
    BY <2>6, <2>10, <2>11
  <2>13. r.target = s.target => r.source = s.source
    <3> SUFFICES ASSUME r.target = s.target PROVE r.source = s.source
      OBVIOUS
    <3>1. Page(y) = Page(v)
      BY <2>6, <2>10
    <3>2. Page(x) = Page(u)
      BY <2>5, <2>8, <2>9, <3>1
    <3> QED BY <2>10, <2>11, <3>2
  <2> QED BY <2>12, <2>13
<1> QED BY <1>1, Invariance, ElementsAlways, PTL

-----------------------------------------------------------------------------
(* What is put in order.                                                   *)

\* A strict and total order of S.
Orders(R, S) ==
  /\ \A i \in S : <<i, i>> \notin R
  /\ \A i, j, k \in S : <<i, j>> \in R /\ <<j, k>> \in R => <<i, k>> \in R
  /\ \A i, j \in S : i # j => <<i, j>> \in R \/ <<j, i>> \in R

Earlier(R, S, i) == {j \in S : <<j, i>> \in R}

\* Each rank is that of a member.
LEMMA RanksAreTaken ==
  ASSUME NEW S, IsFiniteSet(S), NEW R, Orders(R, S), NEW k \in 1..Cardinality(S)
  PROVE  \E i \in S : Cardinality(Earlier(R, S, i)) = k - 1
<1> DEFINE n == Cardinality(S)
           rank == [i \in S |-> Cardinality(Earlier(R, S, i))]
           free == (0..(n - 1)) \ {k - 1}
<1> SUFFICES ASSUME \A i \in S : rank[i] # k - 1 PROVE FALSE
  OBVIOUS
<1>1. n \in Nat
  BY FS_CardinalityType
<1>2. ASSUME NEW i \in S
      PROVE  IsFiniteSet(Earlier(R, S, i)) /\ rank[i] \in 0..(n - 1)
  <2>1. Earlier(R, S, i) \in SUBSET S /\ i \notin Earlier(R, S, i)
    BY DEF Earlier, Orders
  <2>2. IsFiniteSet(Earlier(R, S, i)) /\ Cardinality(Earlier(R, S, i)) <= n /\ Cardinality(Earlier(R, S, i)) # n
    BY <2>1, FS_Subset
  <2>3. Cardinality(Earlier(R, S, i)) \in Nat
    BY <2>2, FS_CardinalityType
  <2> HIDE DEF n
  <2> QED BY <1>1, <2>2, <2>3
<1>3. rank \in [S -> free]
  BY <1>2
<1>4. IsFiniteSet(free) /\ Cardinality(free) < n
  <2>1. 0 \in Int /\ n - 1 \in Int /\ k - 1 \in 0..(n - 1)
    BY <1>1
  <2>2. IsFiniteSet(0..(n - 1)) /\ Cardinality(0..(n - 1)) = n
    <3>1. IsFiniteSet(0..(n - 1)) /\ Cardinality(0..(n - 1)) = IF 0 > n - 1 THEN 0 ELSE (n - 1) - 0 + 1
      BY <2>1, FS_Interval
    <3> QED BY <1>1, <2>1, <3>1
  <2> DEFINE all == 0..(n - 1)
             gap == k - 1
  <2>3. IsFiniteSet(all) /\ Cardinality(all) = n /\ gap \in all
    BY <2>1, <2>2
  <2> HIDE DEF all, gap, n
  <2>4. IsFiniteSet(all \ {gap}) /\ Cardinality(all \ {gap}) = n - 1
    BY <2>3, FS_RemoveElement
  <2> QED BY <1>1, <2>4 DEF all, gap
<1> HIDE DEF free, rank
<1>5. PICK i, j \in S : i # j /\ rank[i] = rank[j]
  BY <1>3, <1>4, FS_PigeonHole
<1>6. ASSUME NEW x \in S, NEW y \in S, <<x, y>> \in R PROVE rank[x] # rank[y]
  <2>1. Earlier(R, S, x) \in SUBSET Earlier(R, S, y) /\ x \in Earlier(R, S, y) /\ x \notin Earlier(R, S, x)
    BY <1>6 DEF Earlier, Orders
  <2>2. Cardinality(Earlier(R, S, x)) # Cardinality(Earlier(R, S, y))
    BY <1>2, <2>1, FS_Subset
  <2> QED BY <2>2 DEF rank
<1> QED BY <1>5, <1>6 DEF Orders

\* The members of a set that are put in order are members of it.
IsRanked(S, R, ordered) ==
  /\ IsFiniteSet(S) /\ Orders(R, S) /\ DOMAIN ordered = 1..Cardinality(S)
  /\ \A k \in 1..Cardinality(S) : ordered[k] = CHOOSE i \in S : Cardinality(Earlier(R, S, i)) = k - 1

\* The members of a set that are put in order are members of it.
LEMMA RankedAreMembers ==
  ASSUME NEW S, NEW R, NEW ordered, IsRanked(S, R, ordered)
  PROVE  \A k \in DOMAIN ordered : ordered[k] \in S
<1> SUFFICES ASSUME NEW k \in 1..Cardinality(S) PROVE ordered[k] \in S
  BY DEF IsRanked
<1>1. \E i \in S : Cardinality(Earlier(R, S, i)) = k - 1
  BY RanksAreTaken DEF IsRanked
<1>2. ordered[k] = CHOOSE i \in S : Cardinality(Earlier(R, S, i)) = k - 1
  BY DEF IsRanked
<1> QED BY <1>1, <1>2

-----------------------------------------------------------------------------
(* What annotators say.                                                    *)

\* The segments of a request are of its members.
LEMMA SegmentsWithin ==
  ASSUME NEW d, Len(d) \in Nat, NEW members
  PROVE  \A s \in Segments(d, members) : s.element \in members
<1> DEFINE n == Len(d)
           V == [taken : SUBSET [element : members, words : Int], used : Int, full : BOOLEAN]
           base == [taken |-> {}, used |-> 0, full |-> FALSE]
           Fill(acc, i) ==
             LET words == Words(d[i])
                 room == MaxRequest - acc.used
             IN IF i \notin members \/ words = 0 \/ acc.full THEN acc
                ELSE IF words <= room
                     THEN [taken |-> acc.taken \cup {[element |-> i, words |-> words]}, used |-> acc.used + words, full |-> FALSE]
                ELSE IF acc.used = 0 THEN [taken |-> {[element |-> i, words |-> room]}, used |-> room, full |-> TRUE]
                ELSE [acc EXCEPT !.full = TRUE]
           Unfolds(F) == F = [i \in 0..n |-> IF i = 0 THEN base ELSE Fill(F[i - 1], i)]
           step == [p \in (1..n) \X V |-> Fill(p[2], p[1])]
<1>0. n \in Nat /\ MaxRequest \in Nat
  BY RequestAssumption
<1>1. ASSUME NEW acc \in V, NEW i PROVE Fill(acc, i) \in V
  <2>1. Words(d[i]) \in Int
    BY DEF Words
  <2> DEFINE words == Words(d[i])
             room == MaxRequest - acc.used
  <2>2. room \in Int /\ words \in Int /\ acc.used \in Int /\ acc.taken \in SUBSET [element : members, words : Int]
    BY <1>0, <2>1
  <2>3. acc = [taken |-> acc.taken, used |-> acc.used, full |-> acc.full]
    OBVIOUS
  <2> HIDE DEF words, room
  <2>4. CASE i \notin members \/ words = 0 \/ acc.full
    BY <2>4 DEF words
  <2>5. CASE i \in members /\ words # 0 /\ ~acc.full /\ words <= room
    <3>1. Fill(acc, i) = [taken |-> acc.taken \cup {[element |-> i, words |-> words]}, used |-> acc.used + words, full |-> FALSE]
      BY <2>5 DEF words, room
    <3> HIDE DEF Fill
    <3> QED BY <2>2, <2>5, <3>1
  <2>6. CASE i \in members /\ words # 0 /\ ~acc.full /\ ~(words <= room) /\ acc.used = 0
    <3>1. Fill(acc, i) = [taken |-> {[element |-> i, words |-> room]}, used |-> room, full |-> TRUE]
      BY <2>6 DEF words, room
    <3> HIDE DEF Fill
    <3> QED BY <2>2, <2>6, <3>1
  <2>7. CASE i \in members /\ words # 0 /\ ~acc.full /\ ~(words <= room) /\ acc.used # 0
    <3>1. Fill(acc, i) = [acc EXCEPT !.full = TRUE]
      BY <2>7 DEF words, room
    <3> HIDE DEF Fill
    <3> QED BY <2>2, <2>7, <3>1
  <2> QED BY <2>4, <2>5, <2>6, <2>7
<1>2. base \in V
  OBVIOUS
<1> HIDE DEF V, base, Fill
<1>3. IsIteration(n, V, base, step)
  <2>1. step \in [(1..n) \X V -> V]
    BY <1>1
  <2> HIDE DEF step
  <2> QED BY <1>0, <1>2, <2>1 DEF IsIteration
<1>4. PICK f \in [0..n -> V] : f[0] = base /\ \A i \in 1..n : f[i] = step[<<i, f[i - 1]>>]
  <2> HIDE DEF step
  <2> QED BY <1>3, IterationExists
<1>5. Unfolds(f)
  <2>1. ASSUME NEW i \in 1..n PROVE f[i] = Fill(f[i - 1], i)
    <3>1. f[i - 1] \in V
      BY <1>0
    <3> QED BY <1>4, <3>1
  <2>2. f = [i \in 0..n |-> f[i]]
    OBVIOUS
  <2>3. \A i \in 0..n : i = 0 \/ i \in 1..n
    BY <1>0
  <2>4. \A i \in 0..n : f[i] = IF i = 0 THEN base ELSE Fill(f[i - 1], i)
    BY <1>4, <2>1, <2>3
  <2> HIDE DEF step
  <2> QED BY <2>2, <2>4
<1>6. ASSUME NEW F, Unfolds(F) PROVE F[n] \in V
  <2> DEFINE G == {i \in 0..n : F[i] \in V}
  <2>0. 0 \in 0..n /\ n \in 0..n /\ 0 \in Int /\ n \in Int /\ \A i \in 1..n : i \in 0..n /\ i # 0
    BY <1>0
  <2>1. F[0] = base /\ \A i \in 1..n : F[i] = Fill(F[i - 1], i)
    BY <1>6, <2>0
  <2>2. Inductive(0, n, G)
    <3>1. 0 \in G
      BY <1>2, <2>0, <2>1
    <3>2. ASSUME NEW i \in 0..(n - 1), i \in G PROVE i + 1 \in G
      <4>1. i + 1 \in 1..n /\ (i + 1) - 1 = i /\ i + 1 \in 0..n
        BY <1>0
      <4>2. F[i + 1] = Fill(F[i], i + 1) /\ F[i] \in V
        BY <2>1, <3>2, <4>1
      <4> QED BY <1>1, <4>1, <4>2
    <3> QED BY <3>1, <3>2 DEF Inductive
  <2> HIDE DEF G
  <2>3. \A i \in 0..n : i \in G
    BY <2>0, <2>2, UpTo
  <2> QED BY <2>0, <2>3 DEF G
<1> DEFINE upTo == CHOOSE F : Unfolds(F)
<1>7. Unfolds(upTo)
  BY <1>5
<1>8. Segments(d, members) = upTo[n].taken
  BY DEF Segments, n, base, Fill
<1> HIDE DEF Unfolds, upTo
<1>9. upTo[n] \in V
  BY <1>6, <1>7
<1>10. upTo[n].taken \subseteq [element : members, words : Int]
  BY <1>9 DEF V
<1> QED BY <1>8, <1>10

\* The end of a relation is an element, or a unit with what is in it.
Inside(end, x) == (\A i : end = ElementEnd(i) => x = i) /\ (\A u : end = UnitEnd(u) => x \in u.members)

IsRequest(r) == \A s \in r.segments : Inside(r.target, s.element)

\* A request for an element or a unit shows what is inside of it.
LEMMA RequestsAreInside ==
  ASSUME NEW d, Len(d) \in Nat
  PROVE  /\ \A kind, i : IsRequest(Request(d, ElementEnd(i), kind, {i}))
         /\ \A kind, u : IsRequest(Request(d, UnitEnd(u), kind, u.members))
<1>1. ASSUME NEW kind, NEW i PROVE IsRequest(Request(d, ElementEnd(i), kind, {i}))
  <2> DEFINE r == Request(d, ElementEnd(i), kind, {i})
  <2>1. r.target = ElementEnd(i) /\ r.segments = Segments(d, {i})
    BY DEF Request
  <2>2. \A s \in r.segments : s.element = i
    BY <2>1, SegmentsWithin
  <2> HIDE DEF r
  <2>3. ASSUME NEW j, ElementEnd(i) = ElementEnd(j) PROVE i = j
    BY <2>3 DEF ElementEnd
  <2>4. ASSUME NEW u PROVE ElementEnd(i) # UnitEnd(u)
    BY DEF ElementEnd, UnitEnd
  <2>5. Inside(ElementEnd(i), i)
    BY <2>3, <2>4 DEF Inside
  <2> QED BY <2>1, <2>2, <2>5 DEF IsRequest, r
<1>2. ASSUME NEW kind, NEW u PROVE IsRequest(Request(d, UnitEnd(u), kind, u.members))
  <2> DEFINE r == Request(d, UnitEnd(u), kind, u.members)
  <2>1. r.target = UnitEnd(u) /\ r.segments = Segments(d, u.members)
    BY DEF Request
  <2>2. \A s \in r.segments : s.element \in u.members
    BY <2>1, SegmentsWithin
  <2> HIDE DEF r
  <2>3. ASSUME NEW v, UnitEnd(u) = UnitEnd(v) PROVE u.members = v.members
    BY <2>3 DEF UnitEnd
  <2>4. ASSUME NEW i PROVE UnitEnd(u) # ElementEnd(i)
    BY DEF ElementEnd, UnitEnd
  <2>5. ASSUME NEW x \in u.members PROVE Inside(UnitEnd(u), x)
    BY <2>3, <2>4 DEF Inside
  <2> QED BY <2>1, <2>2, <2>5 DEF IsRequest, r
<1> QED BY <1>1, <1>2

\* All requests are so.
LEMMA RequestsAre ==
  ASSUME NEW d, Len(d.elements) \in Nat, DOMAIN d.elements = 1..Len(d.elements), NEW n
  PROVE  IsSequence(Requests(d, n)) /\ \A r \in ToSet(Requests(d, n)) : IsRequest(r)
<1> DEFINE Single(i) == Request(d.elements, ElementEnd(i), "ELEMENT", {i})
           Whole(s) == Request(d.elements, UnitEnd(s.unit), "LOGICAL_UNIT", s.unit.members)
           E == {Single(i) : i \in DOMAIN d.elements} \cup {Whole(s) : s \in d.units}
           Starting(i) == {s \in d.units : Min(s.unit.members) = i}
           OfUnit(i) == LET u == (CHOOSE s \in Starting(i) : TRUE).unit
                        IN IF Starting(i) = {} THEN <<>> ELSE <<Request(d.elements, UnitEnd(u), "LOGICAL_UNIT", u.members)>>
           ofUnits == [i \in DOMAIN d.elements |-> OfUnit(i)]
           whole == IF n.policy.units THEN FlattenSeq(ofUnits) ELSE <<>>
           single == IF n.policy.elements THEN [i \in DOMAIN d.elements |-> Single(i)] ELSE <<>>
           all == whole \o single
           asked == {i \in DOMAIN all : all[i].segments # {} /\ \E k \in n.capabilities : all[i].kind \in k.kinds}
<1>1. Requests(d, n) = Entries(all, asked)
  BY DEF Requests
<1>2. \A r \in E : IsRequest(r)
  BY RequestsAreInside
<1>3. whole \in Seq(E)
  <2>1. ASSUME NEW i PROVE OfUnit(i) \in Seq(E)
    <3> DEFINE first == CHOOSE s \in Starting(i) : TRUE
    <3>1. CASE Starting(i) = {}
      BY <3>1
    <3>2. CASE Starting(i) # {}
      <4>1. first \in d.units
        BY <3>2
      <4>2. OfUnit(i) = <<Whole(first)>>
        BY <3>2
      <4>3. Whole(first) \in E
        BY <4>1
      <4> HIDE DEF E, Whole, first, OfUnit
      <4> QED BY <4>2, <4>3
    <3> QED BY <3>1, <3>2
  <2> HIDE DEF E, OfUnit
  <2>2. ofUnits \in Seq(Seq(E))
    BY <2>1
  <2> HIDE DEF ofUnits
  <2>3. FlattenSeq(ofUnits) \in Seq(E)
    BY <2>2, FlattenedSeq
  <2> QED BY <2>3
<1>4. single \in Seq(E)
  <2>1. \A i \in DOMAIN d.elements : Single(i) \in E
    OBVIOUS
  <2> HIDE DEF E, Single
  <2> QED BY <2>1
<1> HIDE DEF whole, single, E
<1>5. all \in Seq(E)
  BY <1>3, <1>4
<1> HIDE DEF all, asked
<1>6. IsSequence(Entries(all, asked)) /\ ToSet(Entries(all, asked)) \subseteq E
  <2>1. Entries(all, asked) \in Seq(E)
    BY <1>5, EntriesAreSeq
  <2> QED BY <2>1, IsSequenceOf
<1> QED BY <1>1, <1>2, <1>6

\* Min of two numbers.
LEMMA SmallerOfTwo == ASSUME NEW x \in Int, NEW y \in Int PROVE Min({x, y}) \in {x, y} /\ Min({x, y}) <= x /\ Min({x, y}) <= y
<1>1. \E l \in Int : l <= x /\ l <= y
  <2>1. CASE x <= y
    BY <2>1
  <2>2. CASE y <= x
    BY <2>2
  <2> QED BY <2>1, <2>2
<1>2. PICK l \in Int : l <= x /\ l <= y
  BY <1>1
<1> DEFINE T == {x, y}
<1>3. T \in SUBSET Int /\ T # {} /\ \A z \in T : l <= z
  BY <1>2
<1> HIDE DEF T
<1>4. Min(T) \in T /\ \A z \in T : Min(T) <= z
  BY <1>2, <1>3, SmallestNumber
<1> QED BY <1>4 DEF T

\* What is selected for a target are candidates for it.
LEMMA SelectedAre ==
  ASSUME NEW n, NEW candidates, IsSequence(candidates),
         \A i \in DOMAIN candidates : candidates[i].confidence \in Int, NEW target
  PROVE  /\ \E m \in Nat : DOMAIN Selected(n, candidates, target) = 1..m
         /\ \A k \in DOMAIN Selected(n, candidates, target) :
              \E i \in DOMAIN candidates :
                Selected(n, candidates, target)[k] = candidates[i] /\ candidates[i].target = target
<1> DEFINE kept == {i \in DOMAIN candidates : /\ candidates[i].target = target
                                              /\ candidates[i].confidence >= MinConfidence
                                              /\ candidates[i].type \in n.policy.types}
           Key(i) == <<candidates[i].type, candidates[i].ontology, candidates[i].value>>
           Surer(i, j) == \/ candidates[i].confidence > candidates[j].confidence
                          \/ candidates[i].confidence = candidates[j].confidence /\ i < j
           best == {i \in kept : \A j \in kept : Key(i) = Key(j) => i = j \/ Surer(i, j)}
           R == {p \in best \X best : Surer(p[1], p[2])}
           ranked == [k \in 1..Cardinality(best) |-> CHOOSE i \in best : Cardinality({j \in best : Surer(j, i)}) = k - 1]
           m == Min({Len(ranked), MaxPerTarget})
<1>1. Selected(n, candidates, target) = [k \in 1..m |-> candidates[ranked[k]]]
  BY DEF Selected, InOrder
<1>2. DOMAIN candidates = 1..Len(candidates) /\ Len(candidates) \in Nat
  BY SequenceDomain
<1>3. best \in SUBSET kept /\ kept \in SUBSET DOMAIN candidates
  OBVIOUS
<1>4. IsFiniteSet(best) /\ Cardinality(best) \in Nat
  <2>1. 1 \in Int /\ Len(candidates) \in Int
    BY <1>2
  <2>2. IsFiniteSet(1..Len(candidates))
    BY <2>1, FS_Interval
  <2> HIDE DEF best, kept
  <2>3. best \in SUBSET (1..Len(candidates))
    BY <1>2, <1>3
  <2> QED BY <2>2, <2>3, FS_Subset, FS_CardinalityType
<1>5. \A i, j \in best : <<i, j>> \in R <=> Surer(i, j)
  OBVIOUS
<1>6. \A i \in best : i \in Int /\ candidates[i].confidence \in Int
  BY <1>2, <1>3
<1> HIDE DEF best, kept, Key
<1>7. Orders(R, best)
  <2>1. \A i \in best : ~Surer(i, i)
    BY <1>6
  <2>2. \A i, j, k \in best : Surer(i, j) /\ Surer(j, k) => Surer(i, k)
    BY <1>6
  <2>3. \A i, j \in best : i # j => Surer(i, j) \/ Surer(j, i)
    BY <1>6
  <2> HIDE DEF R, Surer
  <2> QED BY <1>5, <2>1, <2>2, <2>3 DEF Orders
<1>8. \A i \in best : {j \in best : Surer(j, i)} = Earlier(R, best, i)
  <2> HIDE DEF R, Surer
  <2> QED BY <1>5 DEF Earlier
<1>9. \A k \in 1..Cardinality(best) : ranked[k] = CHOOSE i \in best : Cardinality(Earlier(R, best, i)) = k - 1
  <2> SUFFICES ASSUME NEW k \in 1..Cardinality(best)
               PROVE  (CHOOSE i \in best : Cardinality({j \in best : Surer(j, i)}) = k - 1)
                      = (CHOOSE i \in best : Cardinality(Earlier(R, best, i)) = k - 1)
    OBVIOUS
  <2> HIDE DEF R, Surer
  <2> QED BY <1>8
<1> HIDE DEF R, Surer
<1>10. \A k \in DOMAIN ranked : ranked[k] \in best
  <2>1. DOMAIN ranked = 1..Cardinality(best)
    OBVIOUS
  <2> HIDE DEF ranked
  <2>2. IsRanked(best, R, ranked)
    BY <1>4, <1>7, <1>9, <2>1 DEF IsRanked
  <2> QED BY <2>2, RankedAreMembers
<1>11. DOMAIN ranked = 1..Len(ranked) /\ Len(ranked) \in Nat
  BY <1>4
<1> HIDE DEF ranked
<1>12. m \in Nat /\ m <= Len(ranked)
  <2>1. Len(ranked) \in Int /\ MaxPerTarget \in Int /\ MaxPerTarget \in Nat
    BY <1>11, RequestAssumption
  <2> QED BY <1>11, <2>1, SmallerOfTwo
<1> HIDE DEF m
<1>13. ASSUME NEW k \in 1..m PROVE ranked[k] \in DOMAIN candidates /\ candidates[ranked[k]].target = target
  <2>1. k \in DOMAIN ranked
    BY <1>11, <1>12
  <2>2. ranked[k] \in kept
    BY <1>3, <1>10, <2>1
  <2> QED BY <2>2 DEF kept
<1> QED BY <1>1, <1>12, <1>13

\* What is generated are annotations of candidates.
LEMMA GeneratedAre ==
  ASSUME NEW n, NEW requests, IsSequence(requests), NEW candidates, IsSequence(candidates),
         \A i \in DOMAIN candidates : candidates[i].confidence \in Int
  PROVE  /\ IsSequence(Generated(n, requests, candidates))
         /\ \A a \in ToSet(Generated(n, requests, candidates)) :
              \E k \in DOMAIN requests, i \in DOMAIN candidates : a = Annotation(n, requests[k].kind, candidates[i])
<1> DEFINE Of(k) == {Annotation(n, requests[k].kind, candidates[i]) : i \in DOMAIN candidates}
           E == UNION {Of(k) : k \in DOMAIN requests}
           chosen(k) == Selected(n, candidates, requests[k].target)
           made(k) == [i \in DOMAIN chosen(k) |-> Annotation(n, requests[k].kind, chosen(k)[i])]
           seqs == [k \in DOMAIN requests |-> made(k)]
<1>1. Generated(n, requests, candidates) = FlattenSeq(seqs)
  BY DEF Generated
<1>2. ASSUME NEW k \in DOMAIN requests PROVE made(k) \in Seq(E)
  <2> DEFINE picked == chosen(k)
  <2>1. PICK m \in Nat : DOMAIN picked = 1..m
    BY SelectedAre
  <2>2. \A i \in 1..m : \E j \in DOMAIN candidates : picked[i] = candidates[j]
    BY <2>1, SelectedAre
  <2>3. ASSUME NEW j \in DOMAIN candidates PROVE Annotation(n, requests[k].kind, candidates[j]) \in E
    OBVIOUS
  <2> HIDE DEF picked, E
  <2>4. \A i \in 1..m : Annotation(n, requests[k].kind, picked[i]) \in E
    BY <2>2, <2>3
  <2>5. [i \in 1..m |-> Annotation(n, requests[k].kind, picked[i])] \in Seq(E)
    BY <2>4
  <2>6. made(k) = [i \in 1..m |-> Annotation(n, requests[k].kind, picked[i])]
    BY <2>1 DEF picked
  <2> HIDE DEF made
  <2> QED BY <2>5, <2>6
<1>3. DOMAIN requests = 1..Len(requests) /\ Len(requests) \in Nat
  BY SequenceDomain
<1>4. \A a \in E : \E k \in DOMAIN requests, i \in DOMAIN candidates : a = Annotation(n, requests[k].kind, candidates[i])
  OBVIOUS
<1> HIDE DEF made, E
<1>5. seqs \in Seq(Seq(E))
  BY <1>2, <1>3
<1> HIDE DEF seqs
<1>6. FlattenSeq(seqs) \in Seq(E)
  BY <1>5, FlattenedSeq
<1>7. IsSequence(FlattenSeq(seqs)) /\ ToSet(FlattenSeq(seqs)) \subseteq E
  BY <1>6, IsSequenceOf
<1> QED BY <1>1, <1>4, <1>7

IsAnswer(answer) ==
  /\ IsSequence(answer) /\ \A batch \in ToSet(answer) : IsSequence(batch)
  /\ \A batch \in ToSet(answer) : \A c \in ToSet(batch) : c.confidence \in 0..100

\* The candidates of all batches are a sequence, and their confidence is a number.
LEMMA CandidatesAre ==
  ASSUME NEW answer, IsAnswer(answer)
  PROVE  /\ IsSequence(FlattenSeq(answer))
         /\ \A i \in DOMAIN FlattenSeq(answer) :
              FlattenSeq(answer)[i] \in ToSet(FlattenSeq(answer)) /\ FlattenSeq(answer)[i].confidence \in Int
<1> DEFINE E == UNION {ToSet(batch) : batch \in ToSet(answer)}
           flat == FlattenSeq(answer)
<1>1. Len(answer) \in Nat /\ answer = [k \in 1..Len(answer) |-> answer[k]] /\ \A k \in 1..Len(answer) : answer[k] \in ToSet(answer)
  BY SequenceDomain DEF IsAnswer
<1>2. \A batch \in ToSet(answer) : batch \in Seq(E)
  <2> SUFFICES ASSUME NEW batch \in ToSet(answer) PROVE batch \in Seq(E)
    OBVIOUS
  <2>1. /\ Len(batch) \in Nat /\ batch = [i \in 1..Len(batch) |-> batch[i]]
        /\ \A i \in 1..Len(batch) : batch[i] \in ToSet(batch)
    BY SequenceDomain DEF IsAnswer
  <2>2. \A i \in 1..Len(batch) : batch[i] \in E
    BY <2>1
  <2> HIDE DEF E
  <2> QED BY <2>1, <2>2
<1>3. \A c \in E : c.confidence \in Int
  BY DEF IsAnswer
<1> HIDE DEF E
<1>4. answer \in Seq(Seq(E))
  BY <1>1, <1>2
<1>5. flat \in Seq(E)
  BY <1>4, FlattenedSeq
<1> HIDE DEF flat
<1>6. IsSequence(flat) /\ ToSet(flat) \subseteq E
  BY <1>5, IsSequenceOf
<1>7. DOMAIN flat = 1..Len(flat) /\ \A i \in 1..Len(flat) : flat[i] \in ToSet(flat)
  BY <1>6, SequenceDomain
<1> QED BY <1>3, <1>6, <1>7 DEF flat

\* An annotation names the annotator exactly, and quotes what it is about.
IsSaid(a, n) ==
  /\ <<a.provider, a.version, a.configuration, a.policy>> = <<n.name, n.version, n.configuration, n.policy>>
  /\ a.confidence \in Int
  /\ a.type \in ExtractiveTypes => \E w \in a.evidence : w.quote = a.value /\ Inside(a.target, w.element)

\* An annotation of a candidate that was admitted is said by who was asked.
LEMMA CandidatesAreSaid ==
  ASSUME NEW n, NEW requests, NEW c, NEW r \in ToSet(requests), IsRequest(r), r.target = c.target,
         \A e \in c.evidence : Grounded(r, e), IsCandidate(c), c.confidence \in Int, NEW kind
  PROVE  IsSaid(Annotation(n, kind, c), n)
<1> DEFINE a == Annotation(n, kind, c)
<1>1. /\ a.provider = n.name /\ a.version = n.version /\ a.configuration = n.configuration /\ a.policy = n.policy
      /\ a.confidence = c.confidence /\ a.type = c.type /\ a.evidence = c.evidence /\ a.value = c.value /\ a.target = c.target
  BY DEF Annotation
<1> HIDE DEF a
<1>2. ASSUME NEW w \in c.evidence PROVE Inside(a.target, w.element)
  <2>1. PICK s \in r.segments : s.element = w.element
    BY DEF Grounded
  <2> QED BY <1>1, <2>1 DEF IsRequest
<1>3. a.type \in ExtractiveTypes => \E w \in a.evidence : w.quote = a.value
  BY <1>1 DEF IsCandidate
<1> QED BY <1>1, <1>2, <1>3 DEF IsSaid, a

\* Whatever is generated from an answer that was admitted is said by who was asked.
LEMMA GeneratedIsSaid ==
  ASSUME NEW d, Len(d.elements) \in Nat, DOMAIN d.elements = 1..Len(d.elements), NEW n, NEW answer, IsAnswer(answer),
         Admissible(n, Requests(d, n), answer)
  PROVE  /\ IsSequence(Generated(n, Requests(d, n), FlattenSeq(answer)))
         /\ \A a \in ToSet(Generated(n, Requests(d, n), FlattenSeq(answer))) : IsSaid(a, n)
<1> DEFINE requests == Requests(d, n)
           candidates == FlattenSeq(answer)
           made == Generated(n, requests, candidates)
<1>1. IsSequence(candidates) /\ \A i \in DOMAIN candidates : candidates[i] \in ToSet(candidates) /\ candidates[i].confidence \in Int
  BY CandidatesAre
<1>2. IsSequence(requests) /\ \A r \in ToSet(requests) : IsRequest(r)
  BY RequestsAre
<1>3. \A c \in ToSet(candidates) :
        IsCandidate(c) /\ \E r \in ToSet(requests) : r.target = c.target /\ \A e \in c.evidence : Grounded(r, e)
  BY DEF Admissible
<1> HIDE DEF requests, candidates
<1>4. IsSequence(made) /\ \A a \in ToSet(made) :
        \E k \in DOMAIN requests, i \in DOMAIN candidates : a = Annotation(n, requests[k].kind, candidates[i])
  <2>1. \A i \in DOMAIN candidates : candidates[i].confidence \in Int
    BY <1>1
  <2> QED BY <1>1, <1>2, <2>1, GeneratedAre
<1>5. ASSUME NEW c \in ToSet(candidates), c.confidence \in Int, NEW kind PROVE IsSaid(Annotation(n, kind, c), n)
  <2>1. PICK r \in ToSet(requests) : r.target = c.target /\ \A e \in c.evidence : Grounded(r, e)
    BY <1>3
  <2> QED BY <1>2, <1>3, <1>5, <2>1, CandidatesAreSaid
<1> HIDE DEF made
<1>6. \A a \in ToSet(made) : IsSaid(a, n)
  BY <1>1, <1>4, <1>5
<1> QED BY <1>4, <1>6 DEF made, requests, candidates

-----------------------------------------------------------------------------
(* The annotations of the document.                                        *)

\* Those who are asked to annotate.
Annotators == {source.annotator, source.again} \ {None}

\* An annotation names who made it, or, if it names nobody, was not made by
\* an annotator of this repository.
AreSaid(annotations) ==
  /\ IsSequence(annotations)
  /\ \A a \in ToSet(annotations) : a.provider = None \/ \E n \in Annotators : IsSaid(a, n)

AllAreSaid == stage \in AfterAssembly => AreSaid(result.document.annotations)

\* A sequence is one of members of any set that has its entries.
LEMMA SequenceOver ==
  ASSUME NEW E, NEW s, IsSequence(s), ToSet(s) \subseteq E
  PROVE  s \in Seq(E)
<1>1. Len(s) \in Nat /\ s = [i \in 1..Len(s) |-> s[i]] /\ \A i \in 1..Len(s) : s[i] \in E
  BY SequenceDomain
<1> QED BY <1>1

\* What has no annotations, and what a rogue leaves, is fine.
LEMMA NothingIsSaid == AreSaid(<<>>) /\ AreSaid(<<[provider |-> None]>>)
<1>1. <<>> \in Seq({}) /\ ToSet(<<>>) = {}
  BY DEF ToSet
<1> DEFINE a == [provider |-> None]
           s == <<a>>
<1>2. a.provider = None
  OBVIOUS
<1> HIDE DEF a
<1>3. s \in Seq({a})
  OBVIOUS
<1> HIDE DEF s
<1>4. IsSequence(s) /\ ToSet(s) \subseteq {a}
  BY <1>3, IsSequenceOf
<1>5. AreSaid(s)
  BY <1>2, <1>4 DEF AreSaid
<1>6. IsSequence(<<>>)
  BY <1>1 DEF IsSequence
<1> QED BY <1>1, <1>5, <1>6 DEF AreSaid, s, a

\* Whoever annotates keeps what was said, or drops it, and adds what it says.
LEMMA AnnotatedIsSaid ==
  ASSUME NEW d, Len(d.elements) \in Nat, DOMAIN d.elements = 1..Len(d.elements), AreSaid(d.annotations),
         NEW n \in Annotators, NEW answer, IsAnswer(answer), Annotable(d, n, answer),
         DOMAIN d = DOMAIN Assembled
  PROVE  AreSaid(Annotated(d, n, answer).annotations)
<1>1. CASE ~n.policy.enabled
  BY <1>1 DEF Annotated
<1>2. CASE n.policy.enabled
  <2> DEFINE generated == Generated(n, Requests(d, n), FlattenSeq(answer))
             retained == Retained(n, d.annotations)
             all == retained \o generated
             Fine == {a \in ToSet(d.annotations) \cup ToSet(generated) : a.provider = None \/ \E m \in Annotators : IsSaid(a, m)}
  <2>1. Admissible(n, Requests(d, n), answer)
    BY <1>2 DEF Annotable
  <2>2. IsSequence(generated) /\ \A a \in ToSet(generated) : IsSaid(a, n)
    BY <2>1, GeneratedIsSaid
  <2>3. Annotated(d, n, answer).annotations = all
    <3> DEFINE made == Manifest(n, d.manifest, all)
    <3>1. Annotated(d, n, answer) = [d EXCEPT !.annotations = all, !.manifest = made]
      BY <1>2 DEF Annotated
    <3>2. DOMAIN d = DOMAIN Assembled /\ "annotations" \in DOMAIN d
      BY DEF Assembled
    <3> HIDE DEF made, all
    <3> QED BY <3>1, <3>2
  <2> HIDE DEF generated
  <2>4. IsSequence(d.annotations) /\ ToSet(d.annotations) \subseteq Fine /\ ToSet(generated) \subseteq Fine
    BY <2>2 DEF AreSaid
  <2>5. \A a \in Fine : a.provider = None \/ \E m \in Annotators : IsSaid(a, m)
    OBVIOUS
  <2> HIDE DEF Fine
  <2>6. generated \in Seq(Fine) /\ d.annotations \in Seq(Fine)
    BY <2>2, <2>4, SequenceOver
  <2>7. retained \in Seq(Fine)
    BY <2>6, EntriesAreSeq DEF Retained
  <2> HIDE DEF retained
  <2>8. all \in Seq(Fine)
    BY <2>6, <2>7
  <2> HIDE DEF all
  <2>9. IsSequence(all) /\ ToSet(all) \subseteq Fine
    BY <2>8, IsSequenceOf
  <2> QED BY <2>3, <2>5, <2>9 DEF AreSaid
<1> QED BY <1>1, <1>2

\* A document that comes back from an annotator.
LEMMA ReturnedIsSaid ==
  ASSUME NEW d, Len(d.elements) \in Nat, DOMAIN d.elements = 1..Len(d.elements), AreSaid(d.annotations),
         DOMAIN d = DOMAIN Assembled, NEW n \in Annotators, source \in Sources, NEW e \in Returned(d, n)
  PROVE  AreSaid(e.annotations)
<1>0. IsAnnotator(n)
  BY SourcesAssumption DEF Annotators
<1>1. CASE n.rogue
  <2> DEFINE nobody == <<[provider |-> None]>>
  <2>1. "annotations" \in DOMAIN d
    BY DEF Assembled
  <2>2. AreSaid(nobody)
    BY NothingIsSaid
  <2> HIDE DEF nobody
  <2>3. e.annotations = d.annotations \/ e.annotations = nobody
    <3>1. e \in {d, [d EXCEPT !.annotations = nobody], [[d EXCEPT !.annotations = nobody] EXCEPT !.mode = "MIXED"],
                 [[d EXCEPT !.annotations = nobody] EXCEPT !.relations = {}],
                 [[d EXCEPT !.annotations = nobody] EXCEPT !.elements = SubSeq(@, 2, Len(@))]}
      BY <1>1 DEF Returned, nobody
    <3> DEFINE annotated == [d EXCEPT !.annotations = nobody]
    <3>2. annotated.annotations = nobody
      BY <2>1
    <3>3. /\ [annotated EXCEPT !.mode = "MIXED"].annotations = nobody
          /\ [annotated EXCEPT !.relations = {}].annotations = nobody
          /\ [annotated EXCEPT !.elements = SubSeq(@, 2, Len(@))].annotations = nobody
      BY <2>1
    <3> QED BY <3>1, <3>2, <3>3
  <2> QED BY <2>2, <2>3
<1>2. CASE ~n.rogue
  <2>1. PICK answer \in n.answers : Annotable(d, n, answer) /\ e = Annotated(d, n, answer)
    BY <1>2 DEF Returned
  <2>2. IsAnswer(answer)
    BY <1>0, <1>2 DEF IsAnnotator, IsAnswer
  <2> QED BY <2>1, <2>2, AnnotatedIsSaid
<1> QED BY <1>1, <1>2

\* The document has the fields of one that was assembled.
LEMMA DocumentFields ==
  ASSUME AInv, AreElements(raw), stage \in AfterAssembly
  PROVE  /\ result.structural = Assembled /\ DOMAIN result.document = DOMAIN Assembled /\ DOMAIN Assembled.elements = 1..Len(raw)
         /\ Assembled.elements = Normalised(raw) /\ result.document.elements = Normalised(raw)
         /\ DOMAIN Normalised(raw) = 1..Len(Normalised(raw)) /\ Len(Normalised(raw)) \in Nat
         /\ input.annotator = source.annotator /\ source \in Sources
<1>1. result.structural = Assembled /\ [result.document EXCEPT !.annotations = <<>>, !.manifest = None] = Assembled
  BY DEF AInv, IInv, Kept, KeepsStructure
<1>2. DOMAIN result.document = DOMAIN Assembled
  <2> HIDE DEF Assembled
  <2> QED BY <1>1
<1>3. result.document.elements = Assembled.elements
  BY <1>1 DEF Assembled
<1>4. /\ result.document.elements = Normalised(raw) /\ DOMAIN Normalised(raw) = 1..Len(Normalised(raw))
      /\ Len(Normalised(raw)) \in Nat /\ Len(Normalised(raw)) = Len(raw)
  BY DocumentElements
<1>5. Normal /\ source \in Sources
  BY StageSets DEF AInv, IInv, Found, Given, AfterNormalising, AfterSignals, AfterScoring, AfterGrouping, AfterIntegrity,
            AfterHierarchy, AfterRegions, AfterIntegration, AfterRelations
<1> QED BY <1>1, <1>2, <1>3, <1>4, <1>5 DEF Normal

\* The semantic stage is entered if there is whom to ask.
Asked == stage = "semantics" => input.annotator # None

\* The semantic stage is entered if there is whom to ask.
LEMMA AskedAlways == Spec => []Asked
<1>1. Init => Asked
  BY DEF Init, Asked
<1>2. Asked /\ [Next]_readingVars => Asked'
  BY DEF Asked, Next, readingVars, Adapt, AdapterFails, Normalise, AuditPreservation, Reannotate, ToProject, ProjectUnits,
         ProjectionFails, EnrichUnits, EnrichmentFails, Settled, Understand, UnderstandElements, ProfileContent, ExtractSignals,
         ScoreBoundaries, BuildGroups, ConsolidateIntegrity, BuildHierarchy, FindRegions, IntegrateContext, BuildRelations,
         EstimateQuality, AssembleDocument, StageFails, Annotate, AnnotateFails, ReportCompletion, Advance
<1> QED BY <1>1, <1>2, PTL DEF Spec

\* The steps that change the document.
LEMMA SemanticsKeepSaid ==
  ASSUME AInv, AreElements(raw), AllAreSaid, Asked, UNCHANGED <<source, raw>>, AssembleDocument \/ Annotate \/ AnnotateFails
  PROVE  stage' \in AfterAssembly => AreSaid(result'.document.annotations)
<1>0. DOMAIN result = DOMAIN Nothing /\ "document" \in DOMAIN result
  BY DEF AInv, IInv, Found, Nothing
<1>1. CASE AssembleDocument
  <2>1. result' = [result EXCEPT !.structural = Assembled, !.document = Assembled]
    BY <1>1 DEF AssembleDocument, Advance
  <2>2. result'.document.annotations = <<>>
    <3>1. result'.document = Assembled
      BY <1>0, <2>1
    <3> QED BY <3>1 DEF Assembled
  <2> QED BY <2>2, NothingIsSaid
<1>2. CASE Annotate
  <2>0. stage = "semantics" /\ stage \in AfterAssembly /\ input.annotator # None
    BY <1>2 DEF Annotate, At, AfterAssembly, Asked
  <2>1. PICK e \in Returned(result.structural, input.annotator) : result' = [result EXCEPT !.document = e, !.semantic = "COMPLETED"]
    BY <1>2 DEF Annotate, Advance
  <2>2. result'.document = e
    BY <1>0, <2>1
  <2>3. /\ result.structural = Assembled /\ Assembled.elements = Normalised(raw)
        /\ DOMAIN Normalised(raw) = 1..Len(Normalised(raw)) /\ Len(Normalised(raw)) \in Nat
        /\ input.annotator = source.annotator /\ source \in Sources
    BY <2>0, DocumentFields
  <2>4. Assembled.annotations = <<>>
    BY DEF Assembled
  <2>5. input.annotator \in Annotators
    BY <2>0, <2>3 DEF Annotators
  <2>6. AreSaid(Assembled.annotations)
    BY <2>4, NothingIsSaid
  <2> HIDE DEF Assembled
  <2>7. AreSaid(e.annotations)
    BY <2>1, <2>3, <2>5, <2>6, ReturnedIsSaid
  <2> QED BY <2>2, <2>7
<1>3. CASE AnnotateFails
  <2>0. stage = "semantics" /\ stage \in AfterAssembly
    BY <1>3 DEF AnnotateFails, At, AfterAssembly
  <2>1. stage' = "failed" \/ result' = [result EXCEPT !.semantic = "FAILED_OPTIONAL"]
    BY <1>3 DEF AnnotateFails, Advance
  <2>2. "failed" \notin AfterAssembly
    BY DEF AfterAssembly
  <2> QED BY <1>0, <2>0, <2>1, <2>2 DEF AllAreSaid
<1> QED BY <1>1, <1>2, <1>3

\* So does the annotator that is asked again.
LEMMA ReannotateKeepsSaid ==
  ASSUME AInv, AreElements(raw), AllAreSaid, Reannotate
  PROVE  AreSaid(result'.document.annotations)
<1>0. DOMAIN result = DOMAIN Nothing /\ "document" \in DOMAIN result /\ stage \in AfterAssembly /\ source.again # None
  BY DEF AInv, IInv, Found, Nothing, Reannotate, AfterAssembly
<1>1. PICK e \in {result.document} \cup Returned(result.document, source.again) : result' = [result EXCEPT !.document = e]
  BY DEF Reannotate
<1>2. result'.document = e
  BY <1>0, <1>1
<1>3. CASE e = result.document
  BY <1>0, <1>2, <1>3 DEF AllAreSaid
<1>4. CASE e \in Returned(result.document, source.again)
  <2>1. /\ DOMAIN result.document = DOMAIN Assembled /\ result.document.elements = Normalised(raw)
        /\ DOMAIN Normalised(raw) = 1..Len(Normalised(raw)) /\ Len(Normalised(raw)) \in Nat
        /\ source \in Sources
    BY <1>0, DocumentFields
  <2>2. source.again \in Annotators
    BY <1>0 DEF Annotators
  <2>3. AreSaid(result.document.annotations)
    BY <1>0 DEF AllAreSaid
  <2>4. AreSaid(e.annotations)
    BY <1>4, <2>1, <2>2, <2>3, ReturnedIsSaid
  <2> QED BY <1>2, <2>4
<1> QED BY <1>1, <1>3, <1>4

\* Whatever the annotators answer, and however often they are asked, each
\* annotation that names its maker is as that annotator is (its version, its
\* configuration, its policy), and what it says is extracted is quoted from
\* what it is about.
THEOREM SaidAlways == Spec => []AllAreSaid
<1>1. Init => AllAreSaid
  BY DEF Init, AllAreSaid, AfterAssembly
<1>2. AInv /\ AreElements(raw) /\ Asked /\ AllAreSaid /\ [Next]_readingVars => AllAreSaid'
  <2> SUFFICES ASSUME AInv, AreElements(raw), Asked, AllAreSaid, [Next]_readingVars, stage' \in AfterAssembly PROVE AllAreSaid'
    BY DEF AllAreSaid
  <2>0. "failed" \notin AfterAssembly
    BY DEF AfterAssembly
  <2>1. CASE Understand /\ (AssembleDocument \/ Annotate \/ AnnotateFails)
    <3>1. AreSaid(result'.document.annotations) /\ source' = source
      BY <2>1, SemanticsKeepSaid DEF Understand
    <3> QED BY <3>1 DEF AllAreSaid, AreSaid, Annotators
  <2>2. CASE Reannotate
    <3>1. AreSaid(result'.document.annotations) /\ source' = source
      BY <2>2, ReannotateKeepsSaid DEF Reannotate
    <3> QED BY <3>1 DEF AllAreSaid, AreSaid, Annotators
  <2>3. CASE ~(Understand /\ (AssembleDocument \/ Annotate \/ AnnotateFails)) /\ ~Reannotate
    <3>1. stage \in AfterAssembly /\ result'.document = result.document /\ source' = source
      <4>0. DOMAIN result = DOMAIN Nothing /\ "document" \in DOMAIN result
        BY DEF AInv, IInv, Found, Nothing
      <4>1. CASE ReportCompletion /\ Understand
        BY <4>0, <4>1 DEF ReportCompletion, Advance, At, AfterAssembly, Understand
      <4>2. CASE StageFails
        BY <2>0, <4>2 DEF StageFails, Advance
      <4>3. CASE Understand /\ ~ReportCompletion /\ ~StageFails
        <5>1. stage' \in {"signals", "boundaries", "grouping", "integrity", "hierarchy", "regions", "integration",
                          "relations", "quality", "assembly"}
          BY <2>3, <4>3 DEF Understand, UnderstandElements, ProfileContent, ExtractSignals, ScoreBoundaries, BuildGroups,
             ConsolidateIntegrity, BuildHierarchy, FindRegions, IntegrateContext, BuildRelations, EstimateQuality, Advance
        <5> QED BY <5>1 DEF AfterAssembly
      <4>4. CASE ~Understand
        BY <2>3, <4>4 DEF Next, readingVars, Adapt, AdapterFails, Normalise, AuditPreservation, ToProject,
                  ProjectUnits, ProjectionFails, EnrichUnits, EnrichmentFails, Settled, AfterAssembly
      <4> QED BY <4>1, <4>2, <4>3, <4>4
    <3> QED BY <3>1 DEF AllAreSaid, AreSaid, Annotators
  <2> QED BY <2>1, <2>2, <2>3
<1> QED BY <1>1, <1>2, Invariance, ElementsAlways, AskedAlways, PTL DEF Spec

-----------------------------------------------------------------------------
(* What is shown with a unit.                                              *)

\* By the first of four numbers in which they differ.
Lexicographic(O, i, j) == \E k \in 1..4 : O[i][k] < O[j][k] /\ \A l \in 1..(k - 1) : O[i][l] = O[j][l]

\* The first number in which they differ puts in order all that differ in the last.
LEMMA LexicographicOrders ==
  ASSUME NEW S, NEW O \in [S -> [1..4 -> Int]], \A i, j \in S : i # j => O[i][4] # O[j][4]
  PROVE  Orders({p \in S \X S : Lexicographic(O, p[1], p[2])}, S)
<1> DEFINE L(x, y) == \/ x[1] < y[1]
                      \/ x[1] = y[1] /\ x[2] < y[2]
                      \/ x[1] = y[1] /\ x[2] = y[2] /\ x[3] < y[3]
                      \/ x[1] = y[1] /\ x[2] = y[2] /\ x[3] = y[3] /\ x[4] < y[4]
           R == {p \in S \X S : Lexicographic(O, p[1], p[2])}
<1>0. /\ 1..4 = {1, 2, 3, 4} /\ 1..(1 - 1) = {} /\ 1..(2 - 1) = {1} /\ 1..(3 - 1) = {1, 2} /\ 1..(4 - 1) = {1, 2, 3}
  OBVIOUS
<1>1. ASSUME NEW i \in S, NEW j \in S PROVE Lexicographic(O, i, j) <=> L(O[i], O[j])
  <2> DEFINE Differ(k) == O[i][k] < O[j][k] /\ \A l \in 1..(k - 1) : O[i][l] = O[j][l]
  <2>1. Lexicographic(O, i, j) <=> Differ(1) \/ Differ(2) \/ Differ(3) \/ Differ(4)
    BY <1>0 DEF Lexicographic
  <2>2. /\ Differ(1) <=> O[i][1] < O[j][1]
        /\ Differ(2) <=> O[i][1] = O[j][1] /\ O[i][2] < O[j][2]
        /\ Differ(3) <=> O[i][1] = O[j][1] /\ O[i][2] = O[j][2] /\ O[i][3] < O[j][3]
        /\ Differ(4) <=> O[i][1] = O[j][1] /\ O[i][2] = O[j][2] /\ O[i][3] = O[j][3] /\ O[i][4] < O[j][4]
    BY <1>0
  <2> HIDE DEF Differ
  <2> QED BY <2>1, <2>2
<1>2. ASSUME NEW x \in [1..4 -> Int], NEW y \in [1..4 -> Int], NEW z \in [1..4 -> Int]
      PROVE  /\ ~L(x, x) /\ (L(x, y) /\ L(y, z) => L(x, z))
             /\ x[4] # y[4] => L(x, y) \/ L(y, x)
  <2>1. /\ x[1] \in Int /\ x[2] \in Int /\ x[3] \in Int /\ x[4] \in Int
        /\ y[1] \in Int /\ y[2] \in Int /\ y[3] \in Int /\ y[4] \in Int
        /\ z[1] \in Int /\ z[2] \in Int /\ z[3] \in Int /\ z[4] \in Int
    OBVIOUS
  <2> QED BY <2>1
<1>3. \A i, j \in S : <<i, j>> \in R <=> L(O[i], O[j])
  BY <1>1
<1>4. \A i \in S : O[i] \in [1..4 -> Int]
  OBVIOUS
<1> HIDE DEF L, R
<1>5. Orders(R, S)
  BY <1>2, <1>3, <1>4 DEF Orders
<1> QED BY <1>5 DEF R

\* What may be attached to a unit is eligible.
LEMMA AttachableAre ==
  ASSUME NEW report, NEW d, NEW unit, IsSequence(d.annotations),
         \A i \in Eligible(report, d, unit) : d.annotations[i].confidence \in Int
  PROVE  /\ Len(Attachable(report, d, unit)) \in Nat
         /\ DOMAIN Attachable(report, d, unit) = 1..Len(Attachable(report, d, unit))
         /\ \A k \in DOMAIN Attachable(report, d, unit) : Attachable(report, d, unit)[k] \in Eligible(report, d, unit)
<1> DEFINE eligible == Eligible(report, d, unit)
           a == d.annotations
           Order4(i) == <<Scope(unit, a[i]), -a[i].confidence, Rank(a[i].type), i>>
           Before(i, j) == \E k \in 1..4 : Order4(i)[k] < Order4(j)[k] /\ \A l \in 1..(k - 1) : Order4(i)[l] = Order4(j)[l]
           first == {i \in eligible : \A j \in eligible :
                       a[i].type = a[j].type /\ a[i].value = a[j].value => i = j \/ Before(i, j)}
           ordered == [k \in 1..Cardinality(first) |-> CHOOSE i \in first : Cardinality({j \in first : Before(j, i)}) = k - 1]
           m == Min({Len(ordered), MaxPerUnit})
           O == [i \in first |-> Order4(i)]
           R == {p \in first \X first : Lexicographic(O, p[1], p[2])}
<1>1. Attachable(report, d, unit) = SubSeq(ordered, 1, m)
  BY DEF Attachable, InOrder
<1>2. DOMAIN a = 1..Len(a) /\ Len(a) \in Nat
  BY SequenceDomain
<1>3. eligible \subseteq 1..Len(a) /\ \A i \in eligible : Scope(unit, a[i]) # None /\ a[i].type \in ToSet(AllowedTypes)
  BY <1>2 DEF Eligible
<1>4. ASSUME NEW i \in eligible
      PROVE  Scope(unit, a[i]) \in Int /\ -a[i].confidence \in Int /\ Rank(a[i].type) \in Int /\ i \in Int
  <2>1. Scope(unit, a[i]) \in Int
    BY <1>3 DEF Scope
  <2>2. -a[i].confidence \in Int
    OBVIOUS
  <2>3. DOMAIN AllowedTypes = 1..Len(AllowedTypes) /\ Len(AllowedTypes) \in Nat
    BY GateAssumption, SequenceDomain
  <2>4. \E k \in DOMAIN AllowedTypes : AllowedTypes[k] = a[i].type
    BY <1>3 DEF ToSet
  <2>5. Rank(a[i].type) \in DOMAIN AllowedTypes
    BY <2>4 DEF Rank
  <2> QED BY <1>2, <1>3, <2>1, <2>2, <2>3, <2>5
<1>5. first \in SUBSET eligible
  OBVIOUS
<1>6. ASSUME NEW i \in eligible PROVE Order4(i) \in [1..4 -> Int] /\ Order4(i)[4] = i
  BY <1>4
<1> HIDE DEF Order4
<1>7. \A i, j \in first : Before(i, j) <=> Lexicographic(O, i, j)
  BY DEF Lexicographic
<1> HIDE DEF Before, first, eligible
<1>8. O \in [first -> [1..4 -> Int]] /\ \A i, j \in first : i # j => O[i][4] # O[j][4]
  BY <1>5, <1>6
<1> HIDE DEF O
<1>9. Orders(R, first)
  BY <1>8, LexicographicOrders
<1>10. IsFiniteSet(first) /\ Cardinality(first) \in Nat
  <2>1. 1 \in Int /\ Len(a) \in Int
    BY <1>2
  <2>2. IsFiniteSet(1..Len(a))
    BY <2>1, FS_Interval
  <2>3. first \in SUBSET (1..Len(a))
    BY <1>3, <1>5
  <2> HIDE DEF a
  <2> QED BY <2>2, <2>3, FS_Subset, FS_CardinalityType
<1>11. \A i, j \in first : <<j, i>> \in R <=> Before(j, i)
  BY <1>7
<1> HIDE DEF R
<1>12. \A i \in first : {j \in first : Before(j, i)} = Earlier(R, first, i)
  BY <1>11 DEF Earlier
<1>13. \A k \in 1..Cardinality(first) : ordered[k] = CHOOSE i \in first : Cardinality(Earlier(R, first, i)) = k - 1
  <2> SUFFICES ASSUME NEW k \in 1..Cardinality(first)
               PROVE  (CHOOSE i \in first : Cardinality({j \in first : Before(j, i)}) = k - 1)
                      = (CHOOSE i \in first : Cardinality(Earlier(R, first, i)) = k - 1)
    OBVIOUS
  <2> QED BY <1>12
<1>14. DOMAIN ordered = 1..Cardinality(first) /\ ordered = [k \in 1..Cardinality(first) |-> ordered[k]]
  <2> DEFINE F(k) == CHOOSE i \in first : Cardinality({j \in first : Before(j, i)}) = k - 1
  <2>1. ordered = [k \in 1..Cardinality(first) |-> F(k)]
    OBVIOUS
  <2> HIDE DEF F, ordered
  <2> QED BY <2>1
<1> HIDE DEF ordered
<1>15. \A k \in DOMAIN ordered : ordered[k] \in first
  <2>1. IsRanked(first, R, ordered)
    BY <1>9, <1>10, <1>13, <1>14 DEF IsRanked
  <2> QED BY <2>1, RankedAreMembers
<1>16. ordered \in Seq(first) /\ Len(ordered) = Cardinality(first)
  <2> QED BY <1>10, <1>14, <1>15
<1>17. m \in Nat /\ m <= Len(ordered)
  <2>1. Len(ordered) \in Int /\ MaxPerUnit \in Int /\ MaxPerUnit \in Nat /\ Len(ordered) \in Nat
    BY <1>10, <1>16, GateAssumption
  <2> QED BY <2>1, SmallerOfTwo
<1> HIDE DEF m
<1> DEFINE s == SubSeq(ordered, 1, m)
<1>18. s \in Seq(first)
  BY <1>16, <1>17
<1>19. Len(s) \in Nat /\ DOMAIN s = 1..Len(s) /\ \A k \in DOMAIN s : s[k] \in first
  BY <1>18
<1> HIDE DEF s
<1>20. \A i \in first : i \in eligible
  BY <1>5
<1> QED BY <1>1, <1>19, <1>20 DEF s, eligible

Fits(d, unit, chosen) ==
  LET block == Block(d, chosen)
  IN ~(block > MaxSemanticTokens \/ Exceeds(block + unit.tokens, [budget |-> unit.limit]))

\* What is rendered is eligible, and fits if it is anything.
LEMMA EnrichedFits ==
  ASSUME NEW report, NEW d, NEW unit, IsSequence(d.annotations),
         \A i \in Eligible(report, d, unit) : d.annotations[i].confidence \in Int
  PROVE  /\ Enriched(report, d, unit).unit = unit
         /\ Enriched(report, d, unit).rendered \subseteq Eligible(report, d, unit)
         /\ Enriched(report, d, unit).rendered = {} \/ Fits(d, unit, Enriched(report, d, unit).rendered)
<1> DEFINE attached == Attachable(report, d, unit)
           n == Len(attached)
           V == {c \in SUBSET Eligible(report, d, unit) : c = {} \/ Fits(d, unit, c)}
           Render(chosen, i) ==
             LET block == Block(d, chosen \cup {i})
             IN IF block > MaxSemanticTokens \/ Exceeds(block + unit.tokens, [budget |-> unit.limit])
                THEN chosen ELSE chosen \cup {i}
           Unfolds(F) == F = [k \in 0..n |-> IF k = 0 THEN {} ELSE Render(F[k - 1], attached[k])]
           step == [p \in (1..n) \X V |-> Render(p[2], attached[p[1]])]
<1>0. n \in Nat /\ \A k \in 1..n : attached[k] \in Eligible(report, d, unit)
  BY AttachableAre
<1>1. ASSUME NEW c \in V, NEW k \in 1..n PROVE Render(c, attached[k]) \in V
  <2> DEFINE i == attached[k]
  <2>1. Render(c, i) = IF Fits(d, unit, c \cup {i}) THEN c \cup {i} ELSE c
    BY DEF Fits
  <2>2. c \cup {i} \in SUBSET Eligible(report, d, unit)
    BY <1>0
  <2> HIDE DEF Render, i
  <2> QED BY <2>1, <2>2 DEF i
<1>2. {} \in V
  OBVIOUS
<1> HIDE DEF V, Render, attached, n
<1>3. IsIteration(n, V, {}, step)
  <2>1. step \in [(1..n) \X V -> V]
    BY <1>1
  <2> HIDE DEF step
  <2> QED BY <1>0, <1>2, <2>1 DEF IsIteration
<1>4. PICK f \in [0..n -> V] : f[0] = {} /\ \A i \in 1..n : f[i] = step[<<i, f[i - 1]>>]
  <2> HIDE DEF step
  <2> QED BY <1>3, IterationExists
<1>5. Unfolds(f)
  <2>1. ASSUME NEW i \in 1..n PROVE f[i] = Render(f[i - 1], attached[i])
    <3>1. f[i - 1] \in V
      BY <1>0
    <3> QED BY <1>4, <3>1
  <2>2. f = [i \in 0..n |-> f[i]]
    OBVIOUS
  <2>3. \A i \in 0..n : i = 0 \/ i \in 1..n
    BY <1>0
  <2>4. \A i \in 0..n : f[i] = IF i = 0 THEN {} ELSE Render(f[i - 1], attached[i])
    BY <1>4, <2>1, <2>3
  <2> HIDE DEF step
  <2> QED BY <2>2, <2>4
<1>6. ASSUME NEW F, Unfolds(F) PROVE F[n] \in V
  <2> DEFINE G == {i \in 0..n : F[i] \in V}
  <2>0. 0 \in 0..n /\ n \in 0..n /\ 0 \in Int /\ n \in Int /\ \A i \in 1..n : i \in 0..n /\ i # 0
    BY <1>0
  <2>1. F[0] = {} /\ \A i \in 1..n : F[i] = Render(F[i - 1], attached[i])
    BY <1>6, <2>0
  <2>2. Inductive(0, n, G)
    <3>1. 0 \in G
      BY <1>2, <2>0, <2>1
    <3>2. ASSUME NEW i \in 0..(n - 1), i \in G PROVE i + 1 \in G
      <4>1. i + 1 \in 1..n /\ (i + 1) - 1 = i /\ i + 1 \in 0..n
        BY <1>0
      <4>2. F[i + 1] = Render(F[i], attached[i + 1]) /\ F[i] \in V
        BY <2>1, <3>2, <4>1
      <4> QED BY <1>1, <4>1, <4>2
    <3> QED BY <3>1, <3>2 DEF Inductive
  <2> HIDE DEF G
  <2>3. \A i \in 0..n : i \in G
    BY <2>0, <2>2, UpTo
  <2> QED BY <2>0, <2>3 DEF G
<1> DEFINE rendered == CHOOSE F : Unfolds(F)
<1>7. Unfolds(rendered)
  BY <1>5
<1>8. Enriched(report, d, unit) = [unit |-> unit, attached |-> ToSet(attached), rendered |-> rendered[n]]
  BY DEF Enriched, n, attached, Render
<1> HIDE DEF Unfolds, rendered
<1>9. rendered[n] \in V
  BY <1>6, <1>7
<1> QED BY <1>8, <1>9 DEF V

\* A unit is taken from what it is a part of, and its tokens are counted.
LEMMA UnitsAreTaken ==
  ASSUME NEW d, NEW policy \in Policies, IsProjected(d), NEW u \in OfUnits(d, policy) \cup OfElements(d, policy)
  PROVE  /\ u.owner = None \/ u.members \subseteq u.owner.members
         /\ u.tokens \in Nat /\ u.limit \in Nat \cup {None}
<1>0. DOMAIN d.elements = 1..Len(d.elements) /\ IsFiniteSet(1..Len(d.elements))
  <2>1. 1 \in Int /\ Len(d.elements) \in Int
    BY DEF IsProjected
  <2> QED BY <2>1, FS_Interval DEF IsProjected
<1>1. ASSUME NEW path, NEW view \in SUBSET DOMAIN d.elements PROVE Tokens(d, path, view) \in Nat
  <2> DEFINE long == {i \in view : "long" \in d.elements[i].marks}
  <2>1. IsFiniteSet(view) /\ long \in SUBSET view
    BY <1>0, FS_Subset
  <2> HIDE DEF long
  <2>2. Cardinality(view) \in Nat /\ Cardinality(long) \in Nat
    BY <2>1, FS_Subset, FS_CardinalityType
  <2>3. Tokens(d, path, view) = Cardinality(view) + Cardinality(long) + (IF path = <<>> THEN 0 ELSE 1)
    BY DEF Tokens, long
  <2>4. (IF path = <<>> THEN 0 ELSE 1) \in Nat
    OBVIOUS
  <2> QED BY <2>2, <2>3, <2>4
<1>2. ASSUME NEW type, NEW members PROVE View(d, type, members) \subseteq Readable(d, members)
  <2> DEFINE Of(t) == {i \in Readable(d, members) : d.elements[i].type = t}
  <2>1. View(d, type, members) \in {Of("TABLE_CELL"), Of("TABLE_ROW"), Readable(d, members)}
    BY DEF View
  <2> QED BY <2>1
<1>3. ASSUME NEW owner, NEW path, NEW view \in SUBSET DOMAIN d.elements, NEW members
      PROVE  LET p == Projected(d, owner, path, view, members, policy)
             IN p.owner = owner /\ p.members = members /\ p.tokens \in Nat /\ p.limit \in Nat \cup {None}
  BY <1>1, PoliciesAssumption DEF Projected
<1>4. CASE u \in OfUnits(d, policy)
  <2>1. PICK s \in Retrieved(d) : u \in FromUnit(d, s, policy) /\ u.members \subseteq s.unit.members
    BY <1>4, FatesOf
  <2>2. s.unit.members \subseteq DOMAIN d.elements
    BY DEF Retrieved, IsProjected
  <2>3. PICK part : u = Projected(d, s.unit, s.path, View(d, s.unit.type, part), part, policy)
    BY <2>1 DEF FromUnit
  <2>4. u.members = part
    BY <2>3 DEF Projected
  <2>5. View(d, s.unit.type, part) \subseteq DOMAIN d.elements
    BY <1>2, <2>1, <2>2, <2>4 DEF Readable
  <2>6. u.owner = s.unit /\ u.tokens \in Nat /\ u.limit \in Nat \cup {None}
    BY <1>3, <2>3, <2>5
  <2> QED BY <2>1, <2>6
<1>5. CASE u \in OfElements(d, policy)
  <2>1. PICK i \in Readable(d, SafeOf(d, policy)) : u = FromElement(d, i, policy)
    BY <1>5 DEF OfElements
  <2>2. {i} \subseteq DOMAIN d.elements
    BY DEF Readable, SafeOf, AloneOf
  <2>3. PICK path : u = Projected(d, None, path, {i}, {i}, policy)
    BY <2>1 DEF FromElement
  <2> QED BY <1>3, <2>2, <2>3
<1> QED BY <1>4, <1>5

\* A slice that nothing speaks against passes what it is held to.
LEMMA NoReasonsPass ==
  ASSUME NEW s, s.support \in Nat,
         {s.f1, s.supported, s.unsupported, s.value, s.span} \subseteq 0..100 \cup {None}, Reasons(s) = {}
  PROVE  PassesMeasures(s)
<1> DEFINE kinds == {"support", "f1", "supported", "unsupported", "value", "span", "mode", "generative", "custom"}
           Speaks(r) == CASE r = "support" -> s.support = 0
                          [] r = "f1" -> Below(s.f1, MinRoleF1)
                          [] r = "supported" -> Below(s.supported, MinSupported)
                          [] r = "unsupported" -> s.unsupported = None \/ s.unsupported > MaxUnsupported
                          [] r = "value" -> s.type \in ExtractiveTypes /\ Below(s.value, MinValueF1)
                          [] r = "span" -> s.type \in ExtractiveTypes /\ Below(s.span, MinSpanF1)
                          [] r = "mode" -> s.type \in ExtractiveTypes /\ s.mode # "EXTRACTIVE"
                          [] r = "generative" -> s.mode = "GENERATIVE"
                          [] r = "custom" -> s.type = "CUSTOM"
<1>1. \A r \in kinds : ~Speaks(r)
  BY DEF Reasons
<1>2. /\ Speaks("support") <=> s.support = 0
      /\ Speaks("f1") <=> Below(s.f1, MinRoleF1)
      /\ Speaks("supported") <=> Below(s.supported, MinSupported)
      /\ Speaks("unsupported") <=> (s.unsupported = None \/ s.unsupported > MaxUnsupported)
      /\ Speaks("value") <=> (s.type \in ExtractiveTypes /\ Below(s.value, MinValueF1))
      /\ Speaks("span") <=> (s.type \in ExtractiveTypes /\ Below(s.span, MinSpanF1))
  OBVIOUS
<1> HIDE DEF Speaks
<1>3. /\ s.support # 0 /\ ~Below(s.f1, MinRoleF1) /\ ~Below(s.supported, MinSupported)
      /\ s.unsupported # None /\ ~(s.unsupported > MaxUnsupported)
      /\ s.type \in ExtractiveTypes => ~Below(s.value, MinValueF1) /\ ~Below(s.span, MinSpanF1)
  BY <1>1, <1>2
<1>4. {MinRoleF1, MinSupported, MaxUnsupported, MinValueF1, MinSpanF1} \subseteq Int
  BY GateAssumption
<1>5. ASSUME NEW x \in 0..100 \cup {None}, NEW y \in Int, ~Below(x, y) PROVE x >= y
  BY <1>5 DEF Below
<1>6. s.f1 >= MinRoleF1 /\ s.supported >= MinSupported
  BY <1>3, <1>4, <1>5
<1>7. s.type \in ExtractiveTypes => s.value >= MinValueF1 /\ s.span >= MinSpanF1
  BY <1>3, <1>4, <1>5
<1>8. s.unsupported <= MaxUnsupported
  BY <1>3, <1>4
<1> QED BY <1>3, <1>6, <1>7, <1>8 DEF PassesMeasures

\* An annotation that was evaluated was made by who was measured.
LEMMA EvaluatedIsMeasured ==
  ASSUME source \in Sources, source.report # None, NEW annotations, AreSaid(annotations),
         NEW a \in ToSet(annotations), Evaluated(source.report, a)
  PROVE  /\ SaidByTheMeasured(a) /\ a.confidence \in Int
         /\ a.type \in ExtractiveTypes => \E w \in a.evidence : w.quote = a.value /\ Inside(a.target, w.element)
<1>1. IsReport(source.report)
  BY SourcesAssumption
<1>2. a.provider # None
  BY <1>1 DEF Evaluated, IsReport
<1>3. PICK n \in Annotators : IsSaid(a, n)
  BY <1>2 DEF AreSaid
<1>4. /\ a.provider = n.name /\ a.version = n.version /\ a.configuration = n.configuration /\ a.policy = n.policy
      /\ <<a.provider, a.version, a.configuration, a.policy>> = <<n.name, n.version, n.configuration, n.policy>>
  BY <1>3 DEF IsSaid
<1>5. /\ source.report.attested[n.name].version = n.version
      /\ source.report.attested[n.name].configuration = n.configuration
      /\ source.report.attested[n.name].policy = n.policy
  BY <1>4 DEF Evaluated
<1>6. <<n.name, a.capability, a.type, a.kind>> \in Approved(source.report)
  BY <1>4 DEF Evaluated
<1>7. PICK s \in source.report.slices : Reasons(s) = {} /\ SliceKey(s) = <<n.name, a.capability, a.type, a.kind>>
  BY <1>6 DEF Approved, Measured
<1>8. PassesMeasures(s)
  BY <1>1, <1>7, NoReasonsPass DEF IsReport
<1>9. SaidByTheMeasured(a)
  BY <1>4, <1>5, <1>7, <1>8 DEF SaidByTheMeasured, Annotators
<1> QED BY <1>3, <1>9 DEF IsSaid

\* What is inside the target of an annotation close to a unit is what the unit
\* was taken from.
LEMMA CloseIsTaken ==
  ASSUME NEW u, u.owner = None \/ u.members \subseteq u.owner.members, NEW a, Scope(u, a) # None,
         NEW x, Inside(a.target, x)
  PROVE  x \in IF u.owner = None THEN u.members ELSE u.owner.members
<1>1. CASE a.target \in {ElementEnd(i) : i \in u.members}
  <2>1. PICK i \in u.members : a.target = ElementEnd(i)
    BY <1>1
  <2> QED BY <2>1 DEF Inside
<1>2. CASE a.target \notin {ElementEnd(i) : i \in u.members}
  <2>1. u.owner # None /\ a.target = UnitEnd(u.owner)
    BY <1>2 DEF Scope
  <2> QED BY <2>1 DEF Inside
<1> QED BY <1>1, <1>2

\* What fits is within both budgets.
LEMMA FitsBudgets ==
  ASSUME NEW d, DOMAIN d.annotations = 1..Len(d.annotations), Len(d.annotations) \in Nat,
         NEW u, u.tokens \in Nat, u.limit \in Nat \cup {None},
         NEW chosen \in SUBSET DOMAIN d.annotations, Fits(d, u, chosen)
  PROVE  /\ Block(d, chosen) <= MaxSemanticTokens
         /\ u.limit # None => Block(d, chosen) + u.tokens <= u.limit
<1> DEFINE extracted == {i \in chosen : d.annotations[i].mode = "EXTRACTIVE"}
<1>1. IsFiniteSet(chosen) /\ extracted \in SUBSET chosen
  <2>1. 1 \in Int /\ Len(d.annotations) \in Int
    OBVIOUS
  <2> QED BY <2>1, FS_Interval, FS_Subset
<1>2. Block(d, chosen) = 1 + Cardinality(chosen) + Cardinality(extracted)
  BY DEF Block
<1> HIDE DEF extracted
<1>3. Cardinality(chosen) \in Nat /\ Cardinality(extracted) \in Nat
  BY <1>1, FS_Subset, FS_CardinalityType
<1>4. Block(d, chosen) \in Nat
  BY <1>2, <1>3
<1>5. ~(Block(d, chosen) > MaxSemanticTokens) /\ ~Exceeds(Block(d, chosen) + u.tokens, [budget |-> u.limit])
  BY DEF Fits
<1>6. u.limit # None => ~(Block(d, chosen) + u.tokens > u.limit)
  BY <1>5 DEF Exceeds
<1>7. MaxSemanticTokens \in Nat
  BY GateAssumption
<1> QED BY <1>4, <1>5, <1>6, <1>7

\* What stands before the text of a unit was said by exactly the annotator that
\* was measured: an annotation carries the identity of its maker, and the gate
\* compares it, not the manifest. A concept, an entity or a keyword quotes what is
\* inside of its target, the target is close to the unit, and each that is
\* rendered was found to fit. Of other types nothing is said of what they quote.
THEOREM OnlyMeasuredIsShownAlways == Spec => []OnlyMeasuredIsShown
<1>1. AInv /\ AreElements(raw) /\ AllAreSaid => OnlyMeasuredIsShown
  <2> SUFFICES ASSUME AInv, AreElements(raw), AllAreSaid, stage = "enriched", NEW e \in projection.enriched
               PROVE  LET shown == {result.document.annotations[i] : i \in e.rendered}
                      IN /\ \A a \in shown : SaidByTheMeasured(a) /\ (a.type \in ExtractiveTypes => QuotesWhatWasTaken(e, a))
                         /\ e.rendered # {} =>
                              /\ Block(result.document, e.rendered) <= MaxSemanticTokens
                              /\ e.unit.limit # None => Block(result.document, e.rendered) + e.unit.tokens <= e.unit.limit
    BY DEF OnlyMeasuredIsShown
  <2> DEFINE d == result.document
             report == source.report
  <2>1. /\ stage \in AfterProjection /\ stage \in AfterAssembly /\ report # None /\ source \in Sources
        /\ projection.enriched = Enrichment(report, d, projection.units)
    BY DEF AInv, IInv, Given, Indexed, AfterProjection, AfterAssembly
  <2>2. AreSaid(d.annotations)
    BY <2>1 DEF AllAreSaid
  <2>3. PICK u \in projection.units : e = Enriched(report, d, u)
    BY <2>1 DEF Enrichment
  <2>4. /\ u.owner = None \/ u.members \subseteq u.owner.members
        /\ u.tokens \in Nat /\ u.limit \in Nat \cup {None}
    <3>1. IsProjected(d) /\ \E policy \in Policies : projection.units = OfUnits(d, policy) \cup OfElements(d, policy)
      BY <2>1, WhatIsProjected
    <3> HIDE DEF d
    <3> QED BY <2>3, <3>1, UnitsAreTaken
  <2> HIDE DEF d
  <2>5. /\ IsSequence(d.annotations) /\ DOMAIN d.annotations = 1..Len(d.annotations) /\ Len(d.annotations) \in Nat
        /\ \A i \in DOMAIN d.annotations : d.annotations[i] \in ToSet(d.annotations)
    BY <2>2, SequenceDomain DEF AreSaid
  <2>6. ASSUME NEW i \in Eligible(report, d, u)
        PROVE  /\ i \in DOMAIN d.annotations /\ Scope(u, d.annotations[i]) # None
               /\ SaidByTheMeasured(d.annotations[i]) /\ d.annotations[i].confidence \in Int
               /\ d.annotations[i].type \in ExtractiveTypes =>
                    \E w \in d.annotations[i].evidence : w.quote = d.annotations[i].value /\ Inside(d.annotations[i].target, w.element)
    <3>1. i \in DOMAIN d.annotations /\ Scope(u, d.annotations[i]) # None /\ Evaluated(report, d.annotations[i])
      BY DEF Eligible
    <3> QED BY <2>1, <2>2, <2>5, <3>1, EvaluatedIsMeasured
  <2>7. /\ e.unit = u /\ e.rendered \subseteq Eligible(report, d, u)
        /\ e.rendered = {} \/ Fits(d, u, e.rendered)
    BY <2>3, <2>5, <2>6, EnrichedFits
  <2> DEFINE taken == IF u.owner = None THEN u.members ELSE u.owner.members
  <2>8. ASSUME NEW i \in e.rendered
        PROVE  /\ SaidByTheMeasured(d.annotations[i])
               /\ d.annotations[i].type \in ExtractiveTypes =>
                    \E w \in d.annotations[i].evidence : w.quote = d.annotations[i].value /\ w.element \in taken
    <3>1. i \in Eligible(report, d, u)
      BY <2>7
    <3> DEFINE a == d.annotations[i]
    <3>2. Scope(u, a) # None
      BY <2>6, <3>1
    <3>3. \A x : Inside(a.target, x) => x \in taken
      BY <2>4, <3>2, CloseIsTaken
    <3>4. a.type \in ExtractiveTypes => \E w \in a.evidence : w.quote = a.value /\ Inside(a.target, w.element)
      BY <2>6, <3>1
    <3> HIDE DEF a, taken
    <3>5. a.type \in ExtractiveTypes => \E w \in a.evidence : w.quote = a.value /\ w.element \in taken
      BY <3>3, <3>4
    <3> QED BY <2>6, <3>1, <3>5 DEF a
  <2>9. ASSUME e.rendered # {}
         PROVE  /\ Block(d, e.rendered) <= MaxSemanticTokens
                /\ u.limit # None => Block(d, e.rendered) + u.tokens <= u.limit
    <3>1. Fits(d, u, e.rendered) /\ e.rendered \in SUBSET DOMAIN d.annotations
      BY <2>6, <2>7, <2>9
    <3> QED BY <2>4, <2>5, <3>1, FitsBudgets
  <2>10. \A a : QuotesWhatWasTaken(e, a) <=> \E w \in a.evidence : w.quote = a.value /\ w.element \in taken
    BY <2>7 DEF QuotesWhatWasTaken
  <2> HIDE DEF taken
  <2> QED BY <2>7, <2>8, <2>9, <2>10 DEF d
<1> QED BY <1>1, Invariance, ElementsAlways, SaidAlways, PTL
===============================================================================
