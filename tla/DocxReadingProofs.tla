-------------------------- MODULE DocxReadingProofs ---------------------------
(***************************************************************************)
(* Word documents are orderly: the third part of the proofs about          *)
(* SourceReading.  What is read of a table (IsWhole) is of it and of the   *)
(* tables inside of it, each of which is read once; so is what a block     *)
(* reads of its tables, and what a part reads of its blocks, since no two  *)
(* of them hold the same table.  The parts of a package have different     *)
(* names, its notes different anchors, and a separator stands before each  *)
(* margin; and to put items into lists changes nothing of this.            *)
(***************************************************************************)
EXTENDS OrderlyReadingProofs

-----------------------------------------------------------------------------
(* What is read is sound: tables are nested and read once.                 *)

Tabled(e) == e.type \in TableTypes
GroupsIn(s) == {e.group : e \in {x \in ToSet(s) : Tabled(x)}}
HeadsIn(s) == {e.group : e \in {x \in ToSet(s) : x.type = "TABLE"}}
AnchorsIn(s) == {e.anchor : e \in ToSet(s)} \ {None}

\* Between two elements of a table, but for the open ones, are only elements of
\* tables inside of it, and each table and each anchor is there once.
Sound(s, inside, open) ==
  /\ IsSequence(s)
  /\ \A i, k \in DOMAIN s :
       Tabled(s[i]) /\ Tabled(s[k]) /\ s[i].group = s[k].group /\ s[i].group \notin open =>
         \A j \in i..k : Tabled(s[j]) /\ <<s[i].group, s[j].group>> \in inside
  /\ \A i, k \in DOMAIN s : i # k /\ s[i].type = "TABLE" /\ s[k].type = "TABLE" => s[i].group # s[k].group
  /\ \A i, k \in DOMAIN s : i # k /\ s[i].anchor # None => s[i].anchor # s[k].anchor

Unshared(s, t, open) ==
  /\ GroupsIn(s) \cap GroupsIn(t) \subseteq open
  /\ HeadsIn(s) \cap HeadsIn(t) = {} /\ AnchorsIn(s) \cap AnchorsIn(t) = {}

\* The positions of two sequences that are joined.
LEMMA JoinedPositions ==
  ASSUME NEW s, IsSequence(s), NEW t, IsSequence(t)
  PROVE  /\ IsSequence(s \o t) /\ ToSet(s \o t) = ToSet(s) \cup ToSet(t)
         /\ Len(s) \in Nat /\ Len(t) \in Nat /\ Len(s \o t) = Len(s) + Len(t)
         /\ DOMAIN s = 1..Len(s) /\ DOMAIN t = 1..Len(t) /\ DOMAIN (s \o t) = 1..(Len(s) + Len(t))
         /\ \A i \in 1..Len(s) : (s \o t)[i] = s[i]
         /\ \A i \in (Len(s) + 1)..(Len(s) + Len(t)) : i - Len(s) \in 1..Len(t) /\ (s \o t)[i] = t[i - Len(s)]
<1> DEFINE E == ToSet(s) \cup ToSet(t)
<1>1. s \in Seq(E) /\ t \in Seq(E)
  BY DEF IsSequence
<1> HIDE DEF E
<1>2. s \o t \in Seq(E) /\ ToSet(s \o t) = ToSet(s) \cup ToSet(t)
  BY <1>1, ConcatSet
<1>3. /\ Len(s \o t) = Len(s) + Len(t) /\ Len(s) \in Nat /\ Len(t) \in Nat
      /\ \A i \in 1..Len(s \o t) : (s \o t)[i] = IF i <= Len(s) THEN s[i] ELSE t[i - Len(s)]
  BY <1>1, ConcatProperties
<1>4. IsSequence(s \o t)
  BY <1>2, IsSequenceOf
<1>5. DOMAIN s = 1..Len(s) /\ DOMAIN t = 1..Len(t) /\ DOMAIN (s \o t) = 1..Len(s \o t)
  BY <1>4, SequenceDomain
<1>6. \A i \in 1..Len(s) : (s \o t)[i] = s[i]
  BY <1>3
<1>7. \A i \in (Len(s) + 1)..(Len(s) + Len(t)) : i - Len(s) \in 1..Len(t) /\ (s \o t)[i] = t[i - Len(s)]
  BY <1>3
<1> QED BY <1>2, <1>3, <1>4, <1>5, <1>6, <1>7

\* What stands in a sequence is counted there.
LEMMA CountedIn ==
  ASSUME NEW s, NEW i \in DOMAIN s
  PROVE  /\ Tabled(s[i]) => s[i].group \in GroupsIn(s)
         /\ s[i].type = "TABLE" => s[i].group \in HeadsIn(s)
         /\ s[i].anchor # None => s[i].anchor \in AnchorsIn(s)
<1>1. s[i] \in ToSet(s)
  BY DEF ToSet
<1> QED BY <1>1 DEF GroupsIn, HeadsIn, AnchorsIn

\* Two sequences that share open tables only are sound if each is.
LEMMA JoinedIsSound ==
  ASSUME NEW inside, NEW open, NEW s, Sound(s, inside, open), NEW t, Sound(t, inside, open), Unshared(s, t, open)
  PROVE  Sound(s \o t, inside, open)
<1> DEFINE all == s \o t
           n == Len(s)
           Old(i) == i \in 1..n
           New(i) == i \in (n + 1)..(n + Len(t))
<1>1. /\ IsSequence(all) /\ n \in Nat /\ Len(t) \in Nat /\ DOMAIN s = 1..n /\ DOMAIN t = 1..Len(t)
      /\ DOMAIN all = 1..(n + Len(t))
      /\ \A i : Old(i) => all[i] = s[i]
      /\ \A i : New(i) => i - n \in 1..Len(t) /\ all[i] = t[i - n]
  <2>1. IsSequence(s) /\ IsSequence(t)
    BY DEF Sound
  <2> QED BY <2>1, JoinedPositions
<1>2. \A i \in DOMAIN all : (Old(i) \/ New(i)) /\ i \in Int
  BY <1>1
<1> HIDE DEF all, n
<1>3. ASSUME NEW i \in DOMAIN all, NEW k \in DOMAIN all, Old(i), New(k)
      PROVE  /\ Tabled(all[i]) /\ Tabled(all[k]) /\ all[i].group = all[k].group => all[i].group \in open
             /\ ~(all[i].type = "TABLE" /\ all[k].type = "TABLE" /\ all[i].group = all[k].group)
             /\ all[i].anchor # None => all[i].anchor # all[k].anchor
  <2> DEFINE l == k - n
  <2>1. i \in DOMAIN s /\ l \in DOMAIN t /\ all[i] = s[i] /\ all[k] = t[l]
    BY <1>1, <1>3
  <2> HIDE DEF l
  <2> QED BY <2>1, CountedIn DEF Unshared
<1>4. ASSUME NEW i \in DOMAIN all, NEW k \in DOMAIN all,
             Tabled(all[i]), Tabled(all[k]), all[i].group = all[k].group, all[i].group \notin open, NEW j \in i..k
      PROVE  Tabled(all[j]) /\ <<all[i].group, all[j].group>> \in inside
  <2>1. CASE Old(i) /\ Old(k)
    <3>1. Old(j)
      BY <1>1, <2>1
    <3> QED BY <1>1, <1>4, <2>1, <3>1 DEF Sound
  <2>2. CASE New(i) /\ New(k)
    <3> DEFINE p == i - n
               q == k - n
               r == j - n
    <3>1. New(j) /\ r \in p..q
      BY <1>1, <1>2, <2>2
    <3>2. p \in DOMAIN t /\ q \in DOMAIN t /\ all[i] = t[p] /\ all[k] = t[q] /\ all[j] = t[r]
      BY <1>1, <2>2, <3>1
    <3> HIDE DEF p, q, r
    <3> QED BY <1>4, <3>1, <3>2 DEF Sound
  <2>3. CASE (Old(i) /\ New(k)) \/ (New(i) /\ Old(k))
    BY <1>3, <1>4, <2>3
  <2> QED BY <1>2, <2>1, <2>2, <2>3
<1>5. ASSUME NEW i \in DOMAIN all, NEW k \in DOMAIN all, i # k
      PROVE  /\ ~(all[i].type = "TABLE" /\ all[k].type = "TABLE" /\ all[i].group = all[k].group)
             /\ all[i].anchor # None => all[i].anchor # all[k].anchor
  <2>1. CASE Old(i) /\ Old(k)
    BY <1>1, <1>5, <2>1 DEF Sound
  <2>2. CASE New(i) /\ New(k)
    <3> DEFINE p == i - n
               q == k - n
    <3>1. p # q
      BY <1>1, <1>2, <1>5
    <3>2. p \in DOMAIN t /\ q \in DOMAIN t /\ all[i] = t[p] /\ all[k] = t[q]
      BY <1>1, <2>2
    <3> HIDE DEF p, q
    <3> QED BY <3>1, <3>2 DEF Sound
  <2>3. CASE Old(i) /\ New(k)
    BY <1>3, <2>3
  <2>4. CASE New(i) /\ Old(k)
    BY <1>3, <2>4
  <2> QED BY <1>2, <2>1, <2>2, <2>3, <2>4
<1> QED BY <1>1, <1>4, <1>5 DEF Sound, all

\* What is in two sequences that are joined is in one of them.
LEMMA JoinedHold ==
  ASSUME NEW s, IsSequence(s), NEW t, IsSequence(t)
  PROVE  /\ GroupsIn(s \o t) = GroupsIn(s) \cup GroupsIn(t) /\ HeadsIn(s \o t) = HeadsIn(s) \cup HeadsIn(t)
         /\ AnchorsIn(s \o t) = AnchorsIn(s) \cup AnchorsIn(t)
<1>1. ToSet(s \o t) = ToSet(s) \cup ToSet(t)
  BY JoinedPositions
<1> HIDE DEF Tabled
<1> QED BY <1>1 DEF GroupsIn, HeadsIn, AnchorsIn

\* The empty sequence is sound.
LEMMA NothingIsSound ==
  ASSUME NEW inside, NEW open
  PROVE  Sound(<<>>, inside, open) /\ GroupsIn(<<>>) = {} /\ HeadsIn(<<>>) = {} /\ AnchorsIn(<<>>) = {} /\ ToSet(<<>>) = {}
<1>1. ToSet(<<>>) = {} /\ DOMAIN <<>> = {}
  BY DEF ToSet
<1>2. IsSequence(<<>>)
  BY DEF IsSequence
<1> QED BY <1>1, <1>2 DEF Sound, GroupsIn, HeadsIn, AnchorsIn

\* One element is sound, if what is of its own table is inside of it.
LEMMA OneIsSound ==
  ASSUME NEW e, NEW inside, NEW open, Tabled(e) => e.group \in open \/ <<e.group, e.group>> \in inside
  PROVE  Sound(<<e>>, inside, open) /\ ToSet(<<e>>) = {e}
<1>1. DOMAIN <<e>> = {1} /\ <<e>>[1] = e
  OBVIOUS
<1>2. ToSet(<<e>>) = {e}
  BY <1>1 DEF ToSet
<1>3. IsSequence(<<e>>)
  BY <1>2 DEF IsSequence
<1> DEFINE s == <<e>>
<1>4. \A i \in DOMAIN s : i = 1 /\ s[i] = e /\ \A k \in DOMAIN s : \A j \in i..k : j = 1
  BY <1>1
<1> HIDE DEF s
<1>5. Sound(s, inside, open)
  <2>1. IsSequence(s)
    BY <1>3 DEF s
  <2>2. \A i, k \in DOMAIN s : \A j \in i..k : s[j] = e /\ s[i] = e /\ i = k
    BY <1>4, <1>1 DEF s
  <2>3. \A i, k \in DOMAIN s : i = k
    BY <1>4
  <2> QED BY <2>1, <2>2, <2>3 DEF Sound
<1> QED BY <1>2, <1>5 DEF s

\* So are many sequences one after the other.
LEMMA LaidIsSound ==
  ASSUME NEW inside, NEW open, NEW n \in Nat, NEW seqs, seqs = [i \in 1..n |-> seqs[i]],
         \A i \in 1..n : Sound(seqs[i], inside, open),
         \A i, j \in 1..n : i # j => Unshared(seqs[i], seqs[j], open)
  PROVE  /\ Sound(FlattenSeq(seqs), inside, open)
         /\ \A e : e \in ToSet(FlattenSeq(seqs)) <=> \E i \in 1..n : e \in ToSet(seqs[i])
<1> DEFINE E == UNION {ToSet(seqs[i]) : i \in 1..n}
<1>1. \A i \in 1..n : seqs[i] \in Seq(E)
  <2> SUFFICES ASSUME NEW i \in 1..n PROVE seqs[i] \in Seq(E)
    OBVIOUS
  <2>1. seqs[i] \in Seq(ToSet(seqs[i])) /\ ToSet(seqs[i]) \subseteq E
    BY DEF Sound, IsSequence
  <2> HIDE DEF E
  <2> QED BY <2>1
<1>2. seqs \in Seq(Seq(E)) /\ Len(seqs) = n /\ DOMAIN seqs = 1..n
  <2> HIDE DEF E
  <2> QED BY <1>1
<1>3. \A e : e \in ToSet(FlattenSeq(seqs)) <=> \E i \in 1..n : e \in ToSet(seqs[i])
  <2>1. ToSet(FlattenSeq(seqs)) = UNION {ToSet(seqs[i]) : i \in 1..n}
    BY <1>2, FlattenedSeq
  <2> QED BY <2>1
<1> HIDE DEF E
<1>4. CASE n = 0
  BY <1>2, <1>4, NothingIsSound DEF FlattenSeq
<1>5. CASE n # 0
  <2>1. PICK flat \in [1..n -> Seq(E)] :
          /\ \A i \in 1..n : flat[i] = IF i = 1 THEN seqs[i] ELSE flat[i - 1] \o seqs[i]
          /\ FlattenSeq(seqs) = flat[n]
    <3>1. seqs \in Seq(Seq(E)) /\ Len(seqs) # 0
      BY <1>2, <1>5
    <3>2. \E flat \in [1..Len(seqs) -> Seq(E)] :
            /\ \A i \in 1..Len(seqs) : flat[i] = IF i = 1 THEN seqs[i] ELSE flat[i - 1] \o seqs[i]
            /\ FlattenSeq(seqs) = flat[Len(seqs)]
      BY <3>1, Flattening
    <3> QED BY <1>2, <3>2
  <2> DEFINE Groups(i) == UNION {GroupsIn(seqs[j]) : j \in 1..i}
             Heads0(i) == UNION {HeadsIn(seqs[j]) : j \in 1..i}
             Anchors0(i) == UNION {AnchorsIn(seqs[j]) : j \in 1..i}
             G == {i \in 1..n : /\ Sound(flat[i], inside, open) /\ GroupsIn(flat[i]) = Groups(i)
                                /\ HeadsIn(flat[i]) = Heads0(i) /\ AnchorsIn(flat[i]) = Anchors0(i)}
  <2>2. 1 \in G
    <3>1. 1 \in 1..n /\ 1..1 = {1} /\ flat[1] = seqs[1]
      BY <1>5, <2>1
    <3> QED BY <3>1
  <2>3. ASSUME NEW i \in 1..(n - 1), i \in G PROVE i + 1 \in G
    <3>1. i + 1 \in 1..n /\ i + 1 # 1 /\ (i + 1) - 1 = i /\ i \in 1..n /\ 1..(i + 1) = (1..i) \cup {i + 1} /\ \A j \in 1..i : j # i + 1 /\ j \in 1..n
      OBVIOUS
    <3>2. flat[i + 1] = flat[i] \o seqs[i + 1]
      BY <2>1, <3>1
    <3>3. Sound(flat[i], inside, open) /\ Sound(seqs[i + 1], inside, open)
      BY <2>3, <3>1
    <3>4. \A j \in 1..i : Unshared(seqs[j], seqs[i + 1], open)
      BY <3>1
    <3>5. Unshared(flat[i], seqs[i + 1], open)
      <4>1. GroupsIn(flat[i]) = Groups(i) /\ HeadsIn(flat[i]) = Heads0(i) /\ AnchorsIn(flat[i]) = Anchors0(i)
        BY <2>3
      <4>2. /\ \A j \in 1..i : GroupsIn(seqs[j]) \cap GroupsIn(seqs[i + 1]) \subseteq open
            /\ \A j \in 1..i : HeadsIn(seqs[j]) \cap HeadsIn(seqs[i + 1]) = {}
            /\ \A j \in 1..i : AnchorsIn(seqs[j]) \cap AnchorsIn(seqs[i + 1]) = {}
        BY <3>4 DEF Unshared
      <4>3. Groups(i) \cap GroupsIn(seqs[i + 1]) \subseteq open
        BY <4>2
      <4>4. Heads0(i) \cap HeadsIn(seqs[i + 1]) = {}
        BY <4>2
      <4>5. Anchors0(i) \cap AnchorsIn(seqs[i + 1]) = {}
        BY <4>2
      <4> HIDE DEF Groups, Heads0, Anchors0
      <4> QED BY <4>1, <4>3, <4>4, <4>5 DEF Unshared
    <3>6. Sound(flat[i + 1], inside, open)
      BY <3>2, <3>3, <3>5, JoinedIsSound
    <3>7. /\ GroupsIn(flat[i + 1]) = GroupsIn(flat[i]) \cup GroupsIn(seqs[i + 1])
          /\ HeadsIn(flat[i + 1]) = HeadsIn(flat[i]) \cup HeadsIn(seqs[i + 1])
          /\ AnchorsIn(flat[i + 1]) = AnchorsIn(flat[i]) \cup AnchorsIn(seqs[i + 1])
      BY <3>2, <3>3, JoinedHold DEF Sound
    <3>8. /\ Groups(i + 1) = Groups(i) \cup GroupsIn(seqs[i + 1])
          /\ Heads0(i + 1) = Heads0(i) \cup HeadsIn(seqs[i + 1])
          /\ Anchors0(i + 1) = Anchors0(i) \cup AnchorsIn(seqs[i + 1])
      <4>1. 1..(i + 1) = (1..i) \cup {i + 1}
        BY <3>1
      <4>2. Groups(i + 1) = Groups(i) \cup GroupsIn(seqs[i + 1])
        BY <4>1
      <4>3. Heads0(i + 1) = Heads0(i) \cup HeadsIn(seqs[i + 1])
        BY <4>1
      <4>4. Anchors0(i + 1) = Anchors0(i) \cup AnchorsIn(seqs[i + 1])
        BY <4>1
      <4> QED BY <4>2, <4>3, <4>4
    <3> QED BY <2>3, <3>1, <3>6, <3>7, <3>8
  <2> HIDE DEF G
  <2>4. Inductive(1, n, G)
    BY <2>2, <2>3 DEF Inductive
  <2>5. \A i \in 1..n : i \in G
    <3>1. 1 \in Int /\ n \in Int
      OBVIOUS
    <3> QED BY <3>1, <2>4, UpTo
  <2>6. n \in 1..n
    BY <1>5
  <2> QED BY <1>3, <2>1, <2>5, <2>6 DEF G
<1> QED BY <1>4, <1>5

-----------------------------------------------------------------------------
(* Tables inside of tables.                                                *)

\* The nodes around a node are around each other.
LEMMA AroundIsChain ==
  ASSUME NEW nodes, AreNodes(nodes)
  PROVE  /\ \A x \in 0..Len(nodes) : \A n, k \in Around(nodes)[x] : n < k => n \in Around(nodes)[k]
         /\ \A x \in 0..Len(nodes) : \A k \in Around(nodes)[x] : Around(nodes)[k] \subseteq Around(nodes)[x]
<1> DEFINE N == Len(nodes)
           S == 0..N
           A == Around(nodes)
           rank == [x \in S |-> x]
           G == {x \in S : /\ \A n, k \in A[x] : n < k => n \in A[k]
                           /\ \A k \in A[x] : A[k] \subseteq A[x]}
<1>1. N \in Nat /\ \A n \in 1..N : nodes[n].up \in 0..(n - 1)
  BY SequenceDomain DEF AreNodes
<1>2. A[0] = {} /\ \A n \in 1..N : A[n] = {nodes[n].up} \cup A[nodes[n].up]
  BY AroundUnfolds
<1>3. \A n \in S : \A k \in A[n] : k \in 0..(n - 1)
  BY AroundBefore
<1> HIDE DEF A, N
<1>4. Inherited(S, rank, G)
  <2> SUFFICES ASSUME NEW x \in S, \A y \in S : rank[y] < rank[x] => y \in G PROVE x \in G
    BY DEF Inherited
  <2>1. CASE x = 0
    BY <1>2, <2>1
  <2>2. CASE x # 0
    <3> DEFINE u == nodes[x].up
    <3>1. x \in 1..N /\ u \in 0..(x - 1) /\ u \in S
      BY <1>1, <2>2
    <3>2. u \in G
      BY <3>1
    <3>3. A[x] = {u} \cup A[u] /\ \A k \in A[u] : k \in 0..(u - 1)
      BY <1>2, <1>3, <3>1
    <3> HIDE DEF u, S, rank
    <3>4. ASSUME NEW n \in A[x], NEW k \in A[x], n < k PROVE n \in A[k]
      <4>1. CASE k = u
        <5>1. n # u
          BY <3>1, <3>4, <4>1
        <5> QED BY <3>3, <4>1, <5>1
      <4>2. CASE k \in A[u]
        <5>1. n # u
          <6>1. k \in 0..(u - 1)
            BY <3>3, <4>2
          <6> QED BY <3>1, <3>4, <6>1
        <5> QED BY <3>2, <3>3, <3>4, <4>2, <5>1
      <4> QED BY <3>3, <4>1, <4>2
    <3>5. \A k \in A[x] : A[k] \subseteq A[x]
      BY <3>2, <3>3
    <3> QED BY <3>4, <3>5
  <2> QED BY <2>1, <2>2
<1>5. rank \in [S -> Nat]
  BY <1>1
<1>6. S \subseteq G
  <2> HIDE DEF S, G, rank
  <2> QED BY <1>4, <1>5, RankInduction
<1> QED BY <1>6 DEF A, N

EnclosingOf(nodes, t) == {k \in Around(nodes)[t] \ {0} : nodes[k].name = "tbl"}
Under(nodes, t) == {m \in DOMAIN nodes : m = t \/ t \in Around(nodes)[m]}
InnerTables(nodes, view, t) == NestedIn(nodes, view, t) \cup BoxedIn(nodes, view, t)

\* What is opened is no table, row, cell or paragraph.
LEMMA OpensWrappers == \A view, node : Opens(view, node) => node.name \notin {"tbl", "tr", "tc", "p"}
BY DEF Opens, Wrappers, Revisions

\* What holds a node: those around it that are not it, in the part.
LEMMA AroundIn ==
  ASSUME NEW nodes, AreNodes(nodes), NEW m \in DOMAIN nodes
  PROVE  /\ DOMAIN nodes = 1..Len(nodes) /\ Len(nodes) \in Nat /\ m \in 0..Len(nodes) /\ m \in Int /\ m > 0
         /\ \A k \in Around(nodes)[m] : k \in 0..Len(nodes) /\ k \in Int /\ k < m /\ (k # 0 => k \in DOMAIN nodes)
         /\ \A n, k \in Around(nodes)[m] : n < k => n \in Around(nodes)[k]
         /\ \A k \in Around(nodes)[m] : Around(nodes)[k] \subseteq Around(nodes)[m]
<1>1. DOMAIN nodes = 1..Len(nodes) /\ Len(nodes) \in Nat /\ m \in 0..Len(nodes)
  BY SequenceDomain DEF AreNodes
<1>2. \A k \in Around(nodes)[m] : k \in 0..(m - 1)
  BY <1>1, AroundBefore
<1>3. \A k \in Around(nodes)[m] : k \in 0..Len(nodes) /\ k \in Int /\ k < m /\ (k # 0 => k \in DOMAIN nodes)
  BY <1>1, <1>2
<1>4. /\ \A n, k \in Around(nodes)[m] : n < k => n \in Around(nodes)[k]
      /\ \A k \in Around(nodes)[m] : Around(nodes)[k] \subseteq Around(nodes)[m]
  BY <1>1, AroundIsChain
<1>5. m \in Int /\ m > 0
  BY <1>1
<1> QED BY <1>1, <1>3, <1>4, <1>5

\* Between a table and what stands in its cells is no other table.
LEMMA NoTableBetween ==
  ASSUME NEW nodes, AreNodes(nodes), NEW view, NEW t \in DOMAIN nodes, nodes[t].name = "tbl",
         NEW c \in CellsOf(nodes, view, t), NEW m \in DOMAIN nodes, c \in Around(nodes)[m],
         \A k \in Between(nodes, c, m) : nodes[k].name # "tbl"
  PROVE  t \in Around(nodes)[m] /\ \A k \in EnclosingOf(nodes, m) : k <= t
<1> DEFINE A == Around(nodes)
<1>1. PICK r \in Wrapped(nodes, view, t, "tr") : c \in Wrapped(nodes, view, r, "tc")
  BY DEF CellsOf
<1>2. /\ r \in DOMAIN nodes /\ nodes[r].name = "tr" /\ t \in A[r]
      /\ \A k : k \in A[r] /\ t \in A[k] => nodes[k].name # "tbl"
  BY <1>1, OpensWrappers DEF Wrapped, Between
<1>3. /\ c \in DOMAIN nodes /\ nodes[c].name = "tc" /\ r \in A[c]
      /\ \A k : k \in A[c] /\ r \in A[k] => nodes[k].name # "tbl"
  BY <1>1, OpensWrappers DEF Wrapped, Between
<1>4. c \in A[m] /\ \A k : k \in A[m] /\ c \in A[k] => nodes[k].name # "tbl"
  BY DEF Between
<1>5. t \in A[m]
  BY <1>2, <1>3, <1>4, AroundIn
<1> SUFFICES ASSUME NEW k \in A[m] \ {0}, nodes[k].name = "tbl", ~(k <= t) PROVE FALSE
  BY <1>5 DEF EnclosingOf
<1>6. k \in Int /\ t \in Int /\ t < k
  BY AroundIn
<1>7. t \in A[k]
  BY <1>5, <1>6, AroundIn
<1>8. c \in Int /\ r \in Int
  BY <1>2, <1>3, AroundIn
<1>9. CASE k > c
  <2>1. c \in A[k]
    BY <1>4, <1>6, <1>8, <1>9, AroundIn
  <2> QED BY <1>4, <2>1
<1>10. CASE k < c
  <2>1. k \in A[c]
    BY <1>4, <1>6, <1>8, <1>10, AroundIn
  <2>2. CASE k > r
    <3>1. r \in A[k]
      BY <1>3, <1>6, <1>8, <2>1, <2>2, AroundIn
    <3> QED BY <1>3, <2>1, <3>1
  <2>3. CASE k < r
    <3>1. k \in A[r]
      BY <1>3, <1>6, <1>8, <2>1, <2>3, AroundIn
    <3> QED BY <1>2, <1>7, <3>1
  <2>4. CASE k = r
    BY <1>2, <2>4
  <2> QED BY <1>6, <1>8, <2>2, <2>3, <2>4
<1>11. CASE k = c
  BY <1>3, <1>11
<1> QED BY <1>6, <1>8, <1>9, <1>10, <1>11

\* A table inside of another one has this as the innermost table around it.
LEMMA InsideIs ==
  ASSUME NEW nodes, AreNodes(nodes), NEW view, NEW t \in DOMAIN nodes, nodes[t].name = "tbl", NEW m \in InnerTables(nodes, view, t)
  PROVE  /\ m \in DOMAIN nodes /\ nodes[m].name = "tbl" /\ t \in Around(nodes)[m] /\ t < m
         /\ t \in EnclosingOf(nodes, m) /\ Max(EnclosingOf(nodes, m)) = t
<1>1. PICK c \in CellsOf(nodes, view, t) : m \in Wrapped(nodes, view, c, "tbl") \/ m \in Boxed(nodes, view, c)
  BY DEF InnerTables, NestedIn, BoxedIn
<1>2. m \in DOMAIN nodes /\ nodes[m].name = "tbl" /\ c \in Around(nodes)[m] /\ \A k \in Between(nodes, c, m) : nodes[k].name # "tbl"
  BY <1>1, OpensWrappers DEF Wrapped, Boxed
<1>3. t \in Around(nodes)[m] /\ \A k \in EnclosingOf(nodes, m) : k <= t
  BY <1>2, NoTableBetween
<1>4. t < m /\ t # 0 /\ EnclosingOf(nodes, m) \subseteq Int /\ t \in Int
  BY <1>2, <1>3, AroundIn DEF EnclosingOf
<1>5. t \in EnclosingOf(nodes, m)
  BY <1>3, <1>4 DEF EnclosingOf
<1> DEFINE T == EnclosingOf(nodes, m)
<1> HIDE DEF T
<1>6. T \subseteq Int /\ t \in T /\ \A k \in T : k <= t
  BY <1>3, <1>4, <1>5 DEF T
<1>7. Max(T) = t
  <2>1. Max(T) \in T /\ \A k \in T : k <= Max(T)
    BY <1>4, <1>6, GreatestNumber
  <2> QED BY <1>6, <2>1
<1> QED BY <1>2, <1>3, <1>4, <1>5, <1>7 DEF T

\* Of two nodes with something under both, one is under the other.
LEMMA UnderBoth ==
  ASSUME NEW nodes, AreNodes(nodes), NEW m \in DOMAIN nodes, NEW k \in DOMAIN nodes, m # k,
         NEW x \in Under(nodes, m) \cap Under(nodes, k)
  PROVE  m \in Around(nodes)[k] \/ k \in Around(nodes)[m]
<1>1. x \in DOMAIN nodes /\ (m = x \/ m \in Around(nodes)[x]) /\ (k = x \/ k \in Around(nodes)[x])
  BY DEF Under
<1>2. m \in Int /\ k \in Int
  BY AroundIn
<1>3. CASE m < k
  <2>1. m \in Around(nodes)[k]
    BY <1>1, <1>2, <1>3, AroundIn
  <2> QED BY <2>1
<1>4. CASE k < m
  <2>1. k \in Around(nodes)[m]
    BY <1>1, <1>2, <1>4, AroundIn
  <2> QED BY <2>1
<1> QED BY <1>2, <1>3, <1>4

\* Tables inside of a table have nothing in common, and the table is not in them.
LEMMA InsideApart ==
  ASSUME NEW nodes, AreNodes(nodes), NEW view, NEW t \in DOMAIN nodes, nodes[t].name = "tbl"
  PROVE  /\ \A m \in InnerTables(nodes, view, t) : Under(nodes, m) \subseteq Under(nodes, t) \ {t}
         /\ \A m, k \in InnerTables(nodes, view, t) : m # k => Under(nodes, m) \cap Under(nodes, k) = {}
<1>1. ASSUME NEW m \in InnerTables(nodes, view, t) PROVE Under(nodes, m) \subseteq Under(nodes, t) \ {t}
  <2> SUFFICES ASSUME NEW x \in Under(nodes, m) PROVE x \in Under(nodes, t) \ {t}
    OBVIOUS
  <2>1. m \in DOMAIN nodes /\ t \in Around(nodes)[m] /\ x \in DOMAIN nodes /\ (x = m \/ m \in Around(nodes)[x])
    BY InsideIs DEF Under
  <2>2. t \in Around(nodes)[x]
    BY <2>1, AroundIn
  <2>3. t # x
    BY <2>1, <2>2, AroundIn
  <2> QED BY <2>1, <2>2, <2>3 DEF Under
<1>2. ASSUME NEW m \in InnerTables(nodes, view, t), NEW k \in InnerTables(nodes, view, t), m # k, NEW x \in Under(nodes, m) \cap Under(nodes, k)
      PROVE  FALSE
  <2>1. ASSUME NEW x0 \in InnerTables(nodes, view, t), NEW y \in InnerTables(nodes, view, t), x0 \in Around(nodes)[y] PROVE FALSE
    <3>1. /\ x0 \in DOMAIN nodes /\ nodes[x0].name = "tbl" /\ t < x0 /\ y \in DOMAIN nodes
          /\ \A n \in EnclosingOf(nodes, y) : n <= t
      <4>1. PICK c \in CellsOf(nodes, view, t) : y \in Wrapped(nodes, view, c, "tbl") \/ y \in Boxed(nodes, view, c)
        BY DEF InnerTables, NestedIn, BoxedIn
      <4>2. y \in DOMAIN nodes /\ c \in Around(nodes)[y] /\ \A n \in Between(nodes, c, y) : nodes[n].name # "tbl"
        BY <4>1, OpensWrappers DEF Wrapped, Boxed
      <4>3. \A n \in EnclosingOf(nodes, y) : n <= t
        BY <4>2, NoTableBetween
      <4> QED BY <4>2, <4>3, InsideIs
    <3>2. x0 # 0 /\ x0 \in Int /\ t \in Int
      BY <3>1, AroundIn
    <3>3. x0 \in EnclosingOf(nodes, y)
      BY <2>1, <3>1, <3>2 DEF EnclosingOf
    <3> QED BY <3>1, <3>2, <3>3
  <2>2. m \in DOMAIN nodes /\ k \in DOMAIN nodes
    BY InsideIs
  <2>3. m \in Around(nodes)[k] \/ k \in Around(nodes)[m]
    BY <1>2, <2>2, UnderBoth
  <2> QED BY <2>1, <2>3
<1> QED BY <1>1, <1>2

-----------------------------------------------------------------------------
(* Portions: what is read of some tables.                                  *)

GroupOf(part, m) == <<"table", part.name, m>>
ParentOf(part, m) ==
  IF EnclosingOf(part.nodes, m) = {} THEN None ELSE GroupOf(part, Max(EnclosingOf(part.nodes, m)))

\* The pairs of a table and one that is it or is inside of it.
InsideOf(part) ==
  {<<GroupOf(part, p[1]), GroupOf(part, p[2])>> :
     p \in {q \in (DOMAIN part.nodes) \X (DOMAIN part.nodes) : q[2] \in Under(part.nodes, q[1])}}

\* The tables of a part have groups of their own.
LEMMA GroupIsOne == \A part, m, k : GroupOf(part, m) = GroupOf(part, k) => m = k
BY DEF GroupOf

\* The pair of a table and what is under it.
LEMMA InsideOfIs ==
  ASSUME NEW part, NEW m \in DOMAIN part.nodes, NEW k \in Under(part.nodes, m)
  PROVE  <<GroupOf(part, m), GroupOf(part, k)>> \in InsideOf(part)
<1>1. k \in DOMAIN part.nodes
  BY DEF Under
<1> DEFINE p == <<m, k>>
<1>2. p \in {q \in (DOMAIN part.nodes) \X (DOMAIN part.nodes) : q[2] \in Under(part.nodes, q[1])} /\ p[1] = m /\ p[2] = k
  BY <1>1
<1> HIDE DEF p
<1> QED BY <1>2 DEF InsideOf

\* What stands for a table, a row or a cell.
IsOfTable(part, t, type, e) ==
  /\ e.type = type /\ e.group = GroupOf(part, t) /\ e.parent = ParentOf(part, t) /\ e.zone = part.zone
  /\ e.source = "EXPLICIT" /\ e.evidence = None /\ e.anchor = None /\ e.refs = {}

\* What stands for a table has no anchor and refers to nothing.
LEMMA InTableFields ==
  ASSUME NEW part, NEW t, NEW n, NEW type \in TableTypes
  PROVE  IsOfTable(part, t, type, InTable(part.nodes, part, t, n, type))
<1> DEFINE zoned == InPart(part)
           e == InTable(part.nodes, part, t, n, type)
<1>1. /\ DOMAIN zoned = DOMAIN Plain /\ zoned.zone = part.zone /\ zoned.source = "EXPLICIT" /\ zoned.evidence = None
      /\ zoned.anchor = None /\ zoned.refs = {}
  BY DEF InPart, Plain
<1>2. {"type", "group", "parent", "blank", "marks", "zone", "source", "evidence", "anchor", "refs"} \subseteq DOMAIN Plain
  BY DEF Plain
<1>3. PICK bl, ma : e = [zoned EXCEPT !.type = type, !.group = GroupOf(part, t), !.parent = ParentOf(part, t), !.blank = bl, !.marks = ma]
  BY DEF InTable, GroupOf, ParentOf, EnclosingOf
<1> HIDE DEF zoned, e
<1>4. /\ e.type = type /\ e.group = GroupOf(part, t) /\ e.parent = ParentOf(part, t) /\ e.zone = part.zone
      /\ e.source = "EXPLICIT" /\ e.evidence = None /\ e.anchor = None /\ e.refs = {}
  BY <1>1, <1>2, <1>3
<1> QED BY <1>4 DEF e, IsOfTable

\* A portion is sound, but for the open groups, and reads the tables in T.
Portion(inside, open, f, T, s) ==
  /\ Sound(s, inside, open)
  /\ HeadsIn(s) = UNION {HeadsIn(f[m]) : m \in T}
  /\ GroupsIn(s) \subseteq open \cup UNION {GroupsIn(f[m]) : m \in T}
  /\ UNION {GroupsIn(f[m]) : m \in T} \subseteq GroupsIn(s)
  /\ AnchorsIn(s) = {}

\* The tables in R are read each on its own.
AreRead(inside, open, f, R) ==
  /\ \A m \in R : /\ Sound(f[m], inside, {}) /\ HeadsIn(f[m]) = GroupsIn(f[m])
                  /\ AnchorsIn(f[m]) = {} /\ GroupsIn(f[m]) \cap open = {}
  /\ \A m, k \in R : m # k => GroupsIn(f[m]) \cap GroupsIn(f[k]) = {}

\* Portions that read different tables share the open groups only.
LEMMA PortionsApart ==
  ASSUME NEW inside, NEW open, NEW f, NEW R, AreRead(inside, open, f, R),
         NEW T \in SUBSET R, NEW U \in SUBSET R, T \cap U = {},
         NEW s, Portion(inside, open, f, T, s), NEW r, Portion(inside, open, f, U, r)
  PROVE  Unshared(s, r, open)
<1>1. ASSUME NEW m \in T, NEW k \in U PROVE GroupsIn(f[m]) \cap GroupsIn(f[k]) = {}
  BY DEF AreRead
<1>2. ASSUME NEW m \in T, NEW k \in U PROVE HeadsIn(f[m]) \cap HeadsIn(f[k]) = {}
  BY <1>1 DEF AreRead
<1>3. GroupsIn(s) \cap GroupsIn(r) \subseteq open
  <2>1. GroupsIn(s) \subseteq open \cup UNION {GroupsIn(f[m]) : m \in T}
    BY DEF Portion
  <2>2. GroupsIn(r) \subseteq open \cup UNION {GroupsIn(f[m]) : m \in U}
    BY DEF Portion
  <2>3. (UNION {GroupsIn(f[m]) : m \in T}) \cap (UNION {GroupsIn(f[m]) : m \in U}) = {}
    BY <1>1
  <2> QED BY <2>1, <2>2, <2>3
<1>4. HeadsIn(s) \cap HeadsIn(r) = {}
  BY <1>2 DEF Portion
<1>5. AnchorsIn(s) \cap AnchorsIn(r) = {}
  BY DEF Portion
<1> QED BY <1>3, <1>4, <1>5 DEF Unshared

\* Two portions, one after the other.
LEMMA PortionsJoin ==
  ASSUME NEW inside, NEW open, NEW f, NEW R, AreRead(inside, open, f, R),
         NEW T \in SUBSET R, NEW U \in SUBSET R, T \cap U = {},
         NEW s, Portion(inside, open, f, T, s), NEW r, Portion(inside, open, f, U, r)
  PROVE  Portion(inside, open, f, T \cup U, s \o r)
<1>1. Unshared(s, r, open)
  BY PortionsApart
<1>2. Sound(s, inside, open) /\ Sound(r, inside, open)
  BY DEF Portion
<1>3. Sound(s \o r, inside, open)
  BY <1>1, <1>2, JoinedIsSound
<1>4. /\ GroupsIn(s \o r) = GroupsIn(s) \cup GroupsIn(r) /\ HeadsIn(s \o r) = HeadsIn(s) \cup HeadsIn(r)
      /\ AnchorsIn(s \o r) = AnchorsIn(s) \cup AnchorsIn(r)
  BY <1>2, JoinedHold DEF Sound
<1>5. UNION {GroupsIn(f[m]) : m \in T \cup U} = (UNION {GroupsIn(f[m]) : m \in T}) \cup UNION {GroupsIn(f[m]) : m \in U}
  OBVIOUS
<1>6. UNION {HeadsIn(f[m]) : m \in T \cup U} = (UNION {HeadsIn(f[m]) : m \in T}) \cup UNION {HeadsIn(f[m]) : m \in U}
  OBVIOUS
<1> DEFINE ofT == UNION {GroupsIn(f[m]) : m \in T}
           ofU == UNION {GroupsIn(f[m]) : m \in U}
<1>7. /\ GroupsIn(s) \subseteq open \cup ofT /\ ofT \subseteq GroupsIn(s)
      /\ GroupsIn(r) \subseteq open \cup ofU /\ ofU \subseteq GroupsIn(r)
  BY DEF Portion
<1>8. HeadsIn(s \o r) = UNION {HeadsIn(f[m]) : m \in T \cup U}
  BY <1>4, <1>6 DEF Portion
<1>9. AnchorsIn(s \o r) = {}
  BY <1>4 DEF Portion
<1> HIDE DEF ofT, ofU
<1>10. GroupsIn(s \o r) \subseteq open \cup (ofT \cup ofU) /\ ofT \cup ofU \subseteq GroupsIn(s \o r)
  BY <1>4, <1>7
<1> QED BY <1>3, <1>5, <1>8, <1>9, <1>10 DEF Portion, ofT, ofU

\* The empty sequence is a portion that reads no table.
LEMMA NoPortion == ASSUME NEW inside, NEW open, NEW f PROVE Portion(inside, open, f, {}, <<>>)
BY NothingIsSound DEF Portion

\* So is an element that is no table.
LEMMA OneIsPortion ==
  ASSUME NEW inside, NEW open, NEW f, NEW e, e.type # "TABLE", Tabled(e) => e.group \in open, e.anchor = None
  PROVE  Portion(inside, open, f, {}, <<e>>)
<1>1. Sound(<<e>>, inside, open) /\ ToSet(<<e>>) = {e}
  BY OneIsSound
<1>2. GroupsIn(<<e>>) \subseteq open /\ HeadsIn(<<e>>) = {} /\ AnchorsIn(<<e>>) = {}
  BY <1>1 DEF GroupsIn, HeadsIn, AnchorsIn
<1> QED BY <1>1, <1>2 DEF Portion

\* What is read of a table is a portion that reads it.
LEMMA ReadIsPortion ==
  ASSUME NEW inside, NEW open, NEW f, NEW R, AreRead(inside, open, f, R), NEW m \in R
  PROVE  Portion(inside, open, f, {m}, f[m])
<1>1. Sound(f[m], inside, {}) /\ AnchorsIn(f[m]) = {}
  BY DEF AreRead
<1>2. Sound(f[m], inside, open)
  BY <1>1 DEF Sound
<1> QED BY <1>1, <1>2 DEF Portion

\* Portions that are laid out in the order of the nodes.
ArePortions(inside, open, f, R, N, read, Of) ==
  /\ \A n \in N : Of[n] \subseteq R /\ Portion(inside, open, f, Of[n], read[n])
  /\ \A n, k \in N : n # k => Of[n] \cap Of[k] = {}

AreOf(T, N, Of) == \A m : m \in T <=> \E n \in N : m \in Of[n]

\* What is laid out in the order of the nodes is the portion of all that the nodes read.
LEMMA PortionsLaid ==
  ASSUME NEW nodes, AreNodes(nodes), NEW inside, NEW open, NEW f, NEW R, AreRead(inside, open, f, R),
         NEW N \in SUBSET DOMAIN nodes, NEW read, NEW Of, ArePortions(inside, open, f, R, N, read, Of),
         NEW T, AreOf(T, N, Of)
  PROVE  Portion(inside, open, f, T, Laid(nodes, N, read))
<1> DEFINE In(n) == IF n \in N THEN Of[n] ELSE {}
           seqs == [n \in DOMAIN nodes |-> IF n \in N THEN read[n] ELSE <<>>]
           all == Laid(nodes, N, read)
<1>1. DOMAIN nodes = 1..Len(nodes) /\ Len(nodes) \in Nat
  BY SequenceDomain DEF AreNodes
<1>2. all = FlattenSeq(seqs)
  BY DEF Laid
<1>3. \A n \in 1..Len(nodes) : In(n) \subseteq R /\ Portion(inside, open, f, In(n), seqs[n])
  BY <1>1, NoPortion DEF ArePortions
<1>4. \A n, k \in 1..Len(nodes) : n # k => In(n) \cap In(k) = {}
  BY DEF ArePortions
<1>5. seqs = [n \in 1..Len(nodes) |-> seqs[n]]
  BY <1>1
<1> HIDE DEF seqs, In, all
<1>6. \A n \in 1..Len(nodes) : Sound(seqs[n], inside, open)
  BY <1>3 DEF Portion
<1>7. \A n, k \in 1..Len(nodes) : n # k => Unshared(seqs[n], seqs[k], open)
  BY <1>3, <1>4, PortionsApart
<1>8. Sound(all, inside, open) /\ \A e : e \in ToSet(all) <=> \E n \in 1..Len(nodes) : e \in ToSet(seqs[n])
  <2> DEFINE len == Len(nodes)
  <2>1. len \in Nat /\ seqs = [n \in 1..len |-> seqs[n]] /\ (\A n \in 1..len : Sound(seqs[n], inside, open))
        /\ \A n, k \in 1..len : n # k => Unshared(seqs[n], seqs[k], open)
    BY <1>1, <1>5, <1>6, <1>7
  <2> HIDE DEF len
  <2>2. Sound(FlattenSeq(seqs), inside, open) /\ \A e : e \in ToSet(FlattenSeq(seqs)) <=> \E n \in 1..len : e \in ToSet(seqs[n])
    BY <2>1, LaidIsSound
  <2> QED BY <1>2, <2>2 DEF len
<1>9. /\ \A g : g \in GroupsIn(all) <=> \E n \in 1..Len(nodes) : g \in GroupsIn(seqs[n])
      /\ \A g : g \in HeadsIn(all) <=> \E n \in 1..Len(nodes) : g \in HeadsIn(seqs[n])
      /\ \A g : g \in AnchorsIn(all) <=> \E n \in 1..Len(nodes) : g \in AnchorsIn(seqs[n])
  <2> HIDE DEF Tabled
  <2>1. \A g : g \in GroupsIn(all) <=> \E n \in 1..Len(nodes) : g \in GroupsIn(seqs[n])
    BY <1>8 DEF GroupsIn
  <2>2. \A g : g \in HeadsIn(all) <=> \E n \in 1..Len(nodes) : g \in HeadsIn(seqs[n])
    BY <1>8 DEF HeadsIn
  <2>3. \A g : g \in AnchorsIn(all) <=> \E n \in 1..Len(nodes) : g \in AnchorsIn(seqs[n])
    BY <1>8 DEF AnchorsIn
  <2> QED BY <2>1, <2>2, <2>3
<1>10. \A m : m \in T <=> \E n \in 1..Len(nodes) : m \in In(n)
  BY <1>1 DEF In, AreOf
<1>11. GroupsIn(all) \subseteq open \cup UNION {GroupsIn(f[m]) : m \in T}
  <2> SUFFICES ASSUME NEW n \in 1..Len(nodes), NEW g \in GroupsIn(seqs[n]), g \notin open PROVE \E m \in T : g \in GroupsIn(f[m])
    BY <1>9
  <2>1. \E m \in In(n) : g \in GroupsIn(f[m])
    BY <1>3 DEF Portion
  <2> QED BY <1>10, <2>1
<1>12. UNION {GroupsIn(f[m]) : m \in T} \subseteq GroupsIn(all)
  <2> SUFFICES ASSUME NEW m \in T, NEW g \in GroupsIn(f[m]) PROVE \E n \in 1..Len(nodes) : g \in GroupsIn(seqs[n])
    BY <1>9
  <2>1. PICK n \in 1..Len(nodes) : m \in In(n)
    BY <1>10
  <2> QED BY <1>3, <2>1 DEF Portion
<1>13. HeadsIn(all) = UNION {HeadsIn(f[m]) : m \in T}
  <2>1. ASSUME NEW n \in 1..Len(nodes), NEW g \in HeadsIn(seqs[n]) PROVE \E m \in T : g \in HeadsIn(f[m])
    <3>1. \E m \in In(n) : g \in HeadsIn(f[m])
      BY <1>3 DEF Portion
    <3> QED BY <1>10, <3>1
  <2>2. ASSUME NEW m \in T, NEW g \in HeadsIn(f[m]) PROVE \E n \in 1..Len(nodes) : g \in HeadsIn(seqs[n])
    <3>1. PICK n \in 1..Len(nodes) : m \in In(n)
      BY <1>10
    <3> QED BY <1>3, <3>1 DEF Portion
  <2>3. HeadsIn(all) \subseteq UNION {HeadsIn(f[m]) : m \in T}
    BY <1>9, <2>1
  <2>4. UNION {HeadsIn(f[m]) : m \in T} \subseteq HeadsIn(all)
    BY <1>9, <2>2
  <2> QED BY <2>3, <2>4
<1>14. AnchorsIn(all) = {}
  BY <1>3, <1>9 DEF Portion
<1> QED BY <1>8, <1>11, <1>12, <1>13, <1>14 DEF Portion, all

\* Tables that are laid out in the order of the nodes.
LEMMA TablesLaid ==
  ASSUME NEW nodes, AreNodes(nodes), NEW inside, NEW open, NEW f, NEW R, AreRead(inside, open, f, R),
         R \subseteq DOMAIN nodes, NEW T \in SUBSET R
  PROVE  Portion(inside, open, f, T, Laid(nodes, T, f))
<1> DEFINE One == [m \in DOMAIN nodes |-> {m}]
<1>1. T \in SUBSET DOMAIN nodes /\ \A m \in T : One[m] = {m}
  OBVIOUS
<1> HIDE DEF One
<1>2. ArePortions(inside, open, f, R, T, f, One)
  <2>1. \A m \in T : Portion(inside, open, f, {m}, f[m])
    BY ReadIsPortion
  <2>2. \A m \in T : One[m] \subseteq R /\ Portion(inside, open, f, One[m], f[m])
    <3> SUFFICES ASSUME NEW m \in T PROVE One[m] \subseteq R /\ Portion(inside, open, f, One[m], f[m])
      OBVIOUS
    <3>1. One[m] = {m} /\ m \in R
      BY <1>1
    <3> QED BY <2>1, <3>1
  <2>3. \A m, k \in T : m # k => One[m] \cap One[k] = {}
    BY <1>1
  <2> QED BY <2>2, <2>3 DEF ArePortions
<1>3. AreOf(T, T, One)
  BY <1>1 DEF AreOf
<1> QED BY <1>1, <1>2, <1>3, PortionsLaid

RowTables(nodes, view, t, r) == {m \in DirectIn(nodes, view, t) : nodes[m].up \in Wrapped(nodes, view, r, "tc")}

\* Rows have no cell in common, cells are not inside of each other, and what stands
\* in a text box of a cell does not stand in a cell itself.
LEMMA CellsApart ==
  ASSUME NEW nodes, AreNodes(nodes), NEW view, NEW t \in DOMAIN nodes
  PROVE  /\ \A r, k \in Wrapped(nodes, view, t, "tr") : r # k => Wrapped(nodes, view, r, "tc") \cap Wrapped(nodes, view, k, "tc") = {}
         /\ \A c, k \in CellsOf(nodes, view, t) : c \notin Around(nodes)[k]
         /\ NestedIn(nodes, view, t) \cap BoxedIn(nodes, view, t) = {}
<1> DEFINE A == Around(nodes)
<1>1. \A n : \A r \in Wrapped(nodes, view, n, "tr") :
        /\ r \in DOMAIN nodes /\ nodes[r].name = "tr" /\ n \in A[r]
        /\ \A k : k \in A[r] /\ n \in A[k] => nodes[k].name \notin {"tc", "tr"}
  BY OpensWrappers DEF Wrapped, Between
<1>2. \A r : \A c \in Wrapped(nodes, view, r, "tc") :
        /\ c \in DOMAIN nodes /\ nodes[c].name = "tc" /\ r \in A[c]
        /\ \A k : k \in A[c] /\ r \in A[k] => nodes[k].name \notin {"tc", "tr"}
  BY OpensWrappers DEF Wrapped, Between
<1>3. ASSUME NEW r \in Wrapped(nodes, view, t, "tr"), NEW k \in Wrapped(nodes, view, t, "tr"), NEW c, r # k,
             c \in Wrapped(nodes, view, r, "tc"), c \in Wrapped(nodes, view, k, "tc")
      PROVE  FALSE
  <2>1. r \in A[c] /\ k \in A[c] /\ c \in DOMAIN nodes /\ nodes[r].name = "tr" /\ nodes[k].name = "tr"
    BY <1>1, <1>2, <1>3
  <2>2. r \in Int /\ k \in Int
    BY <2>1, AroundIn
  <2>3. r < k => r \in A[k]
    BY <2>1, AroundIn
  <2>4. k < r => k \in A[r]
    BY <2>1, AroundIn
  <2>5. ~(r \in A[k])
    BY <1>2, <1>3, <2>1
  <2>6. ~(k \in A[r])
    BY <1>2, <1>3, <2>1
  <2> QED BY <1>3, <2>2, <2>3, <2>4, <2>5, <2>6
<1>4. ASSUME NEW c \in CellsOf(nodes, view, t), NEW k \in CellsOf(nodes, view, t), c \in A[k] PROVE FALSE
  <2>1. PICK r \in Wrapped(nodes, view, t, "tr") : k \in Wrapped(nodes, view, r, "tc")
    BY DEF CellsOf
  <2>2. PICK q \in Wrapped(nodes, view, t, "tr") : c \in Wrapped(nodes, view, q, "tc")
    BY DEF CellsOf
  <2>3. /\ r \in A[k] /\ c \in A[k] /\ k \in DOMAIN nodes /\ c \in DOMAIN nodes /\ nodes[r].name = "tr" /\ nodes[c].name = "tc"
        /\ r \in DOMAIN nodes /\ q \in A[c] /\ t \in A[q]
    BY <1>1, <1>2, <1>4, <2>1, <2>2
  <2>4. c \in Int /\ r \in Int /\ t \in A[c]
    BY <2>3, AroundIn
  <2>5. r < c => r \in A[c]
    BY <2>3, AroundIn
  <2>6. c < r => c \in A[r]
    BY <2>3, AroundIn
  <2>7. ~(r \in A[c])
    BY <1>2, <2>1, <2>3
  <2>8. ~(c \in A[r])
    BY <1>1, <2>1, <2>3, <2>4
  <2>9. c # r
    BY <2>3
  <2> QED BY <2>4, <2>5, <2>6, <2>7, <2>8, <2>9
<1>5. ASSUME NEW m \in NestedIn(nodes, view, t), m \in BoxedIn(nodes, view, t) PROVE FALSE
  <2>1. PICK c \in CellsOf(nodes, view, t) : m \in Wrapped(nodes, view, c, "tbl")
    BY DEF NestedIn
  <2>2. PICK k \in CellsOf(nodes, view, t) : m \in Boxed(nodes, view, k)
    BY <1>5 DEF BoxedIn
  <2>3. m \in DOMAIN nodes /\ c \in A[m] /\ k \in A[m]
    BY <2>1, <2>2 DEF Wrapped, Boxed
  <2>4. c = k
    <3>1. c \in Int /\ k \in Int
      BY <2>3, AroundIn
    <3>2. c < k => c \in A[k]
      BY <2>3, AroundIn
    <3>3. k < c => k \in A[c]
      BY <2>3, AroundIn
    <3> QED BY <1>4, <3>1, <3>2, <3>3
  <2>5. PICK x \in Between(nodes, c, m) : nodes[x].name = "txbxContent"
    BY <2>2, <2>4 DEF Boxed
  <2>6. Opens(view, nodes[x])
    BY <2>1, <2>5 DEF Wrapped
  <2> QED BY <2>5, <2>6 DEF Opens, Wrappers, Revisions
<1> QED BY <1>3, <1>4, <1>5

\* Joining is associative.
LEMMA JoinedInTurn ==
  ASSUME NEW p, IsSequence(p), NEW q, IsSequence(q), NEW r, IsSequence(r)
  PROVE  p \o q \o r = p \o (q \o r)
BY ConcatAssociative DEF IsSequence

\* The tables in a cell, in a row, and in a table, are each in one of them.
LEMMA RowTablesAre ==
  ASSUME NEW nodes, AreNodes(nodes), NEW view, NEW t \in DOMAIN nodes, NEW InCell, NEW InRow,
         InCell = [c \in DOMAIN nodes |-> {m \in DirectIn(nodes, view, t) : nodes[m].up = c}],
         InRow = [r \in DOMAIN nodes |-> RowTables(nodes, view, t, r)]
  PROVE  /\ \A r \in DOMAIN nodes :
              /\ AreOf(InRow[r], Wrapped(nodes, view, r, "tc"), InCell)
              /\ \A c, k \in Wrapped(nodes, view, r, "tc") : c # k => InCell[c] \cap InCell[k] = {}
         /\ AreOf(DirectIn(nodes, view, t), Wrapped(nodes, view, t, "tr"), InRow)
         /\ \A r, k \in Wrapped(nodes, view, t, "tr") : r # k => InRow[r] \cap InRow[k] = {}
<1>1. \A n, name : Wrapped(nodes, view, n, name) \subseteq DOMAIN nodes
  BY DEF Wrapped
<1>2. \A c \in DOMAIN nodes : InCell[c] = {m \in DirectIn(nodes, view, t) : nodes[m].up = c}
  OBVIOUS
<1>3. \A r \in DOMAIN nodes : InRow[r] = RowTables(nodes, view, t, r)
  OBVIOUS
<1>4. ASSUME NEW r \in DOMAIN nodes PROVE AreOf(InRow[r], Wrapped(nodes, view, r, "tc"), InCell)
  <2> SUFFICES ASSUME NEW m PROVE m \in InRow[r] <=> \E c \in Wrapped(nodes, view, r, "tc") : m \in InCell[c]
    BY DEF AreOf
  <2>1. m \in InRow[r] <=> m \in DirectIn(nodes, view, t) /\ nodes[m].up \in Wrapped(nodes, view, r, "tc")
    BY <1>3 DEF RowTables
  <2>2. \A c \in Wrapped(nodes, view, r, "tc") : m \in InCell[c] <=> m \in DirectIn(nodes, view, t) /\ nodes[m].up = c
    BY <1>1, <1>2
  <2> QED BY <2>1, <2>2
<1>5. \A c, k \in DOMAIN nodes : c # k => InCell[c] \cap InCell[k] = {}
  BY <1>2
<1>6. AreOf(DirectIn(nodes, view, t), Wrapped(nodes, view, t, "tr"), InRow)
  <2> SUFFICES ASSUME NEW m PROVE m \in DirectIn(nodes, view, t) <=> \E r \in Wrapped(nodes, view, t, "tr") : m \in InRow[r]
    BY DEF AreOf
  <2>1. \A r \in Wrapped(nodes, view, t, "tr") : m \in InRow[r] <=> m \in DirectIn(nodes, view, t) /\ nodes[m].up \in Wrapped(nodes, view, r, "tc")
    BY <1>1, <1>3 DEF RowTables
  <2>2. m \in DirectIn(nodes, view, t) => \E r \in Wrapped(nodes, view, t, "tr") : nodes[m].up \in Wrapped(nodes, view, r, "tc")
    BY DEF DirectIn, CellsOf
  <2> QED BY <2>1, <2>2
<1>7. ASSUME NEW r \in Wrapped(nodes, view, t, "tr"), NEW k \in Wrapped(nodes, view, t, "tr"), r # k, NEW m \in InRow[r] \cap InRow[k] PROVE FALSE
  <2>1. nodes[m].up \in Wrapped(nodes, view, r, "tc") /\ nodes[m].up \in Wrapped(nodes, view, k, "tc")
    BY <1>1, <1>3, <1>7 DEF RowTables
  <2> QED BY <1>7, <2>1, CellsApart
<1> QED BY <1>1, <1>4, <1>5, <1>6, <1>7

\* The rows of a table, and the tables in it, as they are read.
LEMMA RowsArePortions ==
  ASSUME NEW view, NEW part, NEW nodes, nodes = part.nodes, AreNodes(nodes), NEW t \in DOMAIN nodes, NEW f, NEW inside, NEW R,
         NEW open, open = {GroupOf(part, t)}, AreRead(inside, open, f, R), DirectIn(nodes, view, t) \subseteq R, R \subseteq DOMAIN nodes
  PROVE  Portion(inside, open, f, DirectIn(nodes, view, t), Laid(nodes, Wrapped(nodes, view, t, "tr"), RowRead(view, part, t, f)))
<1> DEFINE direct == DirectIn(nodes, view, t)
           cellOf == CellRead(view, part, t, f)
           rowOf == RowRead(view, part, t, f)
<1>1. PICK InCell, InRow :
        /\ InCell = [c \in DOMAIN nodes |-> {m \in DirectIn(nodes, view, t) : nodes[m].up = c}]
        /\ InRow = [r \in DOMAIN nodes |-> RowTables(nodes, view, t, r)]
  OBVIOUS
<1>2. \A n, name : Wrapped(nodes, view, n, name) \in SUBSET DOMAIN nodes
  BY DEF Wrapped
<1>3. /\ \A r \in DOMAIN nodes :
           /\ AreOf(InRow[r], Wrapped(nodes, view, r, "tc"), InCell)
           /\ \A c, k \in Wrapped(nodes, view, r, "tc") : c # k => InCell[c] \cap InCell[k] = {}
      /\ AreOf(direct, Wrapped(nodes, view, t, "tr"), InRow)
      /\ \A r, k \in Wrapped(nodes, view, t, "tr") : r # k => InRow[r] \cap InRow[k] = {}
  BY <1>1, RowTablesAre
<1>4. \A c \in DOMAIN nodes : InCell[c] = {m \in direct : nodes[m].up = c} /\ InCell[c] \in SUBSET R
  BY <1>1
<1>5. \A r \in DOMAIN nodes : InRow[r] \in SUBSET R
  BY <1>1 DEF RowTables
<1>6. \A n, type : type \in TableTypes /\ type # "TABLE" => Portion(inside, open, f, {}, <<InTable(nodes, part, t, n, type)>>)
  <2> SUFFICES ASSUME NEW n, NEW type \in TableTypes, type # "TABLE" PROVE Portion(inside, open, f, {}, <<InTable(nodes, part, t, n, type)>>)
    OBVIOUS
  <2> DEFINE e == InTable(nodes, part, t, n, type)
  <2>1. IsOfTable(part, t, type, e)
    BY InTableFields
  <2>2. e.type = type /\ e.group \in open /\ e.anchor = None
    BY <2>1 DEF IsOfTable
  <2> HIDE DEF e
  <2>3. Portion(inside, open, f, {}, <<e>>)
    BY <2>2, OneIsPortion
  <2> QED BY <2>3 DEF e
<1>7. \A c \in DOMAIN nodes : cellOf[c] = <<InTable(nodes, part, t, c, "TABLE_CELL")>> \o Laid(nodes, InCell[c], f)
  BY <1>4 DEF CellRead
<1>8. \A r \in DOMAIN nodes : rowOf[r] = <<InTable(nodes, part, t, r, "TABLE_ROW")>> \o Laid(nodes, Wrapped(nodes, view, r, "tc"), cellOf)
  BY DEF RowRead
<1>9. {} \in SUBSET R /\ "TABLE_CELL" \in TableTypes /\ "TABLE_ROW" \in TableTypes
  BY DEF TableTypes
<1> HIDE DEF direct, cellOf, rowOf
<1>10. \A T \in SUBSET R : Portion(inside, open, f, T, Laid(nodes, T, f))
  BY TablesLaid
<1>11. \A c \in DOMAIN nodes : Portion(inside, open, f, InCell[c], cellOf[c])
  <2> SUFFICES ASSUME NEW c \in DOMAIN nodes PROVE Portion(inside, open, f, InCell[c], cellOf[c])
    OBVIOUS
  <2> DEFINE own == <<InTable(nodes, part, t, c, "TABLE_CELL")>>
             rest == Laid(nodes, InCell[c], f)
  <2>1. Portion(inside, open, f, {}, own) /\ Portion(inside, open, f, InCell[c], rest)
    BY <1>4, <1>6, <1>9, <1>10
  <2>2. cellOf[c] = own \o rest /\ {} \cap InCell[c] = {} /\ {} \cup InCell[c] = InCell[c]
    BY <1>7
  <2> HIDE DEF own, rest
  <2> QED BY <1>4, <1>9, <2>1, <2>2, PortionsJoin
<1>12. \A r \in DOMAIN nodes : Portion(inside, open, f, InRow[r], rowOf[r])
  <2> SUFFICES ASSUME NEW r \in DOMAIN nodes PROVE Portion(inside, open, f, InRow[r], rowOf[r])
    OBVIOUS
  <2> DEFINE cells == Wrapped(nodes, view, r, "tc")
             own == <<InTable(nodes, part, t, r, "TABLE_ROW")>>
             rest == Laid(nodes, cells, cellOf)
  <2>1. cells \in SUBSET DOMAIN nodes
    BY <1>2
  <2>2. ArePortions(inside, open, f, R, cells, cellOf, InCell)
    BY <1>3, <1>4, <1>11, <2>1 DEF ArePortions
  <2>3. AreOf(InRow[r], cells, InCell)
    BY <1>3
  <2>4. Portion(inside, open, f, {}, own)
    BY <1>6, <1>9
  <2>5. rowOf[r] = own \o rest /\ {} \cap InRow[r] = {} /\ {} \cup InRow[r] = InRow[r]
    BY <1>8
  <2> HIDE DEF own, cells
  <2>6. Portion(inside, open, f, InRow[r], rest)
    BY <2>1, <2>2, <2>3, PortionsLaid
  <2> HIDE DEF rest
  <2> QED BY <1>5, <1>9, <2>4, <2>5, <2>6, PortionsJoin
<1> DEFINE rows == Wrapped(nodes, view, t, "tr")
<1>13. ArePortions(inside, open, f, R, rows, rowOf, InRow)
  BY <1>2, <1>3, <1>5, <1>12 DEF ArePortions
<1>14. rows \in SUBSET DOMAIN nodes /\ AreOf(direct, rows, InRow)
  BY <1>2, <1>3
<1> HIDE DEF rows
<1>15. Portion(inside, open, f, direct, Laid(nodes, rows, rowOf))
  BY <1>13, <1>14, PortionsLaid
<1> QED BY <1>15 DEF rows, direct, rowOf

-----------------------------------------------------------------------------
(* What is read of a table is whole.                                       *)

\* What is read of a table is of it and of tables inside of it, and sound.
IsWhole(part, t, s) ==
  /\ Sound(s, InsideOf(part), {}) /\ HeadsIn(s) = GroupsIn(s) /\ AnchorsIn(s) = {}
  /\ GroupsIn(s) \subseteq {GroupOf(part, x) : x \in Under(part.nodes, t)}

\* The tables that are read in a table are read each on its own.
LEMMA WholeAreRead ==
  ASSUME NEW view, NEW part, NEW nodes, nodes = part.nodes, AreNodes(nodes), NEW t \in DOMAIN nodes, nodes[t].name = "tbl",
         NEW f, \A m \in InnerTables(nodes, view, t) : IsWhole(part, m, f[m])
  PROVE  AreRead(InsideOf(part), {GroupOf(part, t)}, f, InnerTables(nodes, view, t))
<1>1. ASSUME NEW m \in InnerTables(nodes, view, t), NEW k \in InnerTables(nodes, view, t), m # k,
             NEW g \in GroupsIn(f[m]) \cap GroupsIn(f[k])
      PROVE  FALSE
  <2>1. PICK x \in Under(nodes, m) : g = GroupOf(part, x)
    BY <1>1 DEF IsWhole
  <2>2. PICK y \in Under(nodes, k) : g = GroupOf(part, y)
    BY <1>1 DEF IsWhole
  <2>3. x = y
    BY <2>1, <2>2, GroupIsOne
  <2> QED BY <1>1, <2>1, <2>2, <2>3, InsideApart
<1>2. ASSUME NEW m \in InnerTables(nodes, view, t), GroupOf(part, t) \in GroupsIn(f[m]) PROVE FALSE
  <2>1. PICK x \in Under(nodes, m) : GroupOf(part, t) = GroupOf(part, x)
    BY <1>2 DEF IsWhole
  <2>2. x = t
    BY <2>1, GroupIsOne
  <2> QED BY <1>2, <2>1, <2>2, InsideApart
<1>3. ASSUME NEW m \in InnerTables(nodes, view, t)
      PROVE  /\ Sound(f[m], InsideOf(part), {}) /\ HeadsIn(f[m]) = GroupsIn(f[m])
             /\ AnchorsIn(f[m]) = {} /\ GroupsIn(f[m]) \cap {GroupOf(part, t)} = {}
  BY <1>2 DEF IsWhole
<1> QED BY <1>1, <1>3 DEF AreRead

\* Elements of tables only, of t and of tables inside of it.
LEMMA ClosedIsSound ==
  ASSUME NEW part, NEW t \in DOMAIN part.nodes, NEW s, Sound(s, InsideOf(part), {GroupOf(part, t)}),
         \A e \in ToSet(s) : Tabled(e), GroupsIn(s) \subseteq {GroupOf(part, x) : x \in Under(part.nodes, t)}
  PROVE  Sound(s, InsideOf(part), {})
<1>1. \A j \in DOMAIN s : Tabled(s[j]) /\ <<GroupOf(part, t), s[j].group>> \in InsideOf(part)
  <2> SUFFICES ASSUME NEW j \in DOMAIN s PROVE Tabled(s[j]) /\ <<GroupOf(part, t), s[j].group>> \in InsideOf(part)
    OBVIOUS
  <2>1. Tabled(s[j])
    BY DEF ToSet
  <2>2. s[j].group \in GroupsIn(s)
    BY <2>1, CountedIn
  <2>3. PICK x \in Under(part.nodes, t) : s[j].group = GroupOf(part, x)
    BY <2>2
  <2> QED BY <2>1, <2>3, InsideOfIs
<1>2. ASSUME NEW i \in DOMAIN s, NEW k \in DOMAIN s, Tabled(s[i]), Tabled(s[k]), s[i].group = s[k].group
      PROVE  \A j \in i..k : Tabled(s[j]) /\ <<s[i].group, s[j].group>> \in InsideOf(part)
  <2>1. CASE s[i].group \in {GroupOf(part, t)}
    <3>1. IsSequence(s)
      BY DEF Sound
    <3>2. DOMAIN s = 1..Len(s) /\ Len(s) \in Nat
      BY <3>1, SequenceDomain
    <3>3. i..k \subseteq DOMAIN s
      BY <3>2
    <3> QED BY <1>1, <2>1, <3>3
  <2>2. CASE s[i].group \notin {GroupOf(part, t)}
    BY <1>2, <2>2 DEF Sound
  <2> QED BY <2>1, <2>2
<1> QED BY <1>2 DEF Sound

\* What is read of a table is whole, if this is so of the tables in it.
LEMMA TableIsWhole ==
  ASSUME NEW view, NEW part, NEW nodes, nodes = part.nodes, AreNodes(nodes), NEW t \in DOMAIN nodes, nodes[t].name = "tbl",
         NEW f, \A m \in InnerTables(nodes, view, t) : IsWhole(part, m, f[m]),
         NEW s, s = TableRead(view, part, t, f), \A e \in ToSet(s) : Tabled(e)
  PROVE  /\ IsWhole(part, t, s)
         /\ GroupsIn(s) = {GroupOf(part, t)} \cup UNION {GroupsIn(f[m]) : m \in InnerTables(nodes, view, t)}
<1> DEFINE inside == InsideOf(part)
           g == GroupOf(part, t)
           open == {g}
           R == InnerTables(nodes, view, t)
           direct == DirectIn(nodes, view, t)
           rest == NestedIn(nodes, view, t) \ direct
           boxed == BoxedIn(nodes, view, t)
           head == <<InTable(nodes, part, t, t, "TABLE")>>
           rows == Laid(nodes, Wrapped(nodes, view, t, "tr"), RowRead(view, part, t, f))
           others == Laid(nodes, rest, f)
           inBoxes == Laid(nodes, boxed, f)
<1>1. AreRead(inside, open, f, R)
  BY WholeAreRead
<1>2. direct \in SUBSET R /\ rest \in SUBSET R /\ boxed \in SUBSET R /\ R \subseteq DOMAIN nodes
      /\ direct \cap rest = {} /\ (direct \cup rest) \cap boxed = {} /\ (direct \cup rest) \cup boxed = R
  <2>1. NestedIn(nodes, view, t) \cap BoxedIn(nodes, view, t) = {}
    BY CellsApart
  <2>2. \A m \in R : m \in DOMAIN nodes
    BY InsideIs
  <2>3. direct \subseteq NestedIn(nodes, view, t) /\ R = NestedIn(nodes, view, t) \cup boxed
    BY DEF DirectIn, InnerTables
  <2> HIDE DEF R, direct, boxed
  <2> QED BY <2>1, <2>2, <2>3 DEF boxed
<1>3. s = head \o rows \o others \o inBoxes
  BY DEF TableRead
<1> HIDE DEF open, inside, R
<1>4. Portion(inside, open, f, direct, rows)
  BY <1>1, <1>2, RowsArePortions DEF open
<1>5. Portion(inside, open, f, rest, others) /\ Portion(inside, open, f, boxed, inBoxes)
  BY <1>1, <1>2, TablesLaid
<1> HIDE DEF direct, rest, boxed, rows, others, inBoxes
<1>6. Portion(inside, open, f, direct \cup rest, rows \o others)
  BY <1>1, <1>2, <1>4, <1>5, PortionsJoin
<1>7. Portion(inside, open, f, R, rows \o others \o inBoxes)
  <2>1. direct \cup rest \in SUBSET R
    BY <1>2
  <2>2. Portion(inside, open, f, (direct \cup rest) \cup boxed, rows \o others \o inBoxes)
    BY <1>1, <1>2, <1>5, <1>6, <2>1, PortionsJoin
  <2> QED BY <1>2, <2>2
<1> DEFINE tail == rows \o others \o inBoxes
           e0 == InTable(nodes, part, t, t, "TABLE")
<1>8. e0.type = "TABLE" /\ Tabled(e0) /\ e0.group = g /\ e0.anchor = None
  <2>1. "TABLE" \in TableTypes
    BY DEF TableTypes
  <2>2. IsOfTable(part, t, "TABLE", e0)
    BY <2>1, InTableFields
  <2> QED BY <2>1, <2>2 DEF IsOfTable, Tabled
<1> HIDE DEF e0
<1>9. Sound(head, inside, open) /\ ToSet(head) = {e0} /\ IsSequence(head)
  <2>1. Sound(<<e0>>, inside, open) /\ ToSet(<<e0>>) = {e0}
    BY <1>8, OneIsSound DEF open
  <2> QED BY <2>1 DEF e0, Sound
<1> HIDE DEF head, g
<1>10. GroupsIn(head) = {g} /\ HeadsIn(head) = {g} /\ AnchorsIn(head) = {}
  BY <1>8, <1>9 DEF GroupsIn, HeadsIn, AnchorsIn
<1>11. s = head \o tail
  <2>1. IsSequence(head) /\ IsSequence(rows) /\ IsSequence(others) /\ IsSequence(inBoxes)
    BY <1>4, <1>5, <1>9 DEF Portion, Sound
  <2> DEFINE most == rows \o others
  <2>2. IsSequence(most)
    BY <2>1, JoinedPositions
  <2>3. head \o rows \o others = head \o most
    BY <2>1, JoinedInTurn
  <2> HIDE DEF most
  <2>4. head \o most \o inBoxes = head \o (most \o inBoxes)
    <3>1. IsSequence(head) /\ IsSequence(most) /\ IsSequence(inBoxes)
      BY <2>1, <2>2
    <3> QED BY ONLY <3>1, JoinedInTurn
  <2> QED BY <1>3, <2>3, <2>4 DEF most, tail
<1> HIDE DEF tail
<1>12. /\ Sound(tail, inside, open) /\ AnchorsIn(tail) = {}
       /\ HeadsIn(tail) = UNION {HeadsIn(f[m]) : m \in R}
       /\ GroupsIn(tail) \subseteq open \cup UNION {GroupsIn(f[m]) : m \in R}
       /\ UNION {GroupsIn(f[m]) : m \in R} \subseteq GroupsIn(tail)
  BY <1>7 DEF Portion, tail
<1>13. \A m \in R : HeadsIn(f[m]) = GroupsIn(f[m]) /\ g \notin GroupsIn(f[m])
  BY <1>1 DEF AreRead, open
<1>14. UNION {HeadsIn(f[m]) : m \in R} = UNION {GroupsIn(f[m]) : m \in R} /\ g \notin UNION {GroupsIn(f[m]) : m \in R}
  BY <1>13
<1>15. Unshared(head, tail, open)
  BY <1>10, <1>12, <1>14 DEF Unshared, open
<1>16. Sound(s, inside, open)
  BY <1>9, <1>11, <1>12, <1>15, JoinedIsSound
<1>17. /\ GroupsIn(s) = GroupsIn(head) \cup GroupsIn(tail) /\ HeadsIn(s) = HeadsIn(head) \cup HeadsIn(tail)
       /\ AnchorsIn(s) = AnchorsIn(head) \cup AnchorsIn(tail)
  <2>1. IsSequence(tail)
    BY <1>12 DEF Sound
  <2> QED BY <1>9, <1>11, <2>1, JoinedHold
<1> DEFINE all == UNION {GroupsIn(f[m]) : m \in R}
<1>18. GroupsIn(s) = {g} \cup all /\ HeadsIn(s) = {g} \cup all /\ AnchorsIn(s) = {}
  <2>1. GroupsIn(tail) \subseteq {g} \cup all /\ all \subseteq GroupsIn(tail) /\ HeadsIn(tail) = all
    BY <1>12, <1>14 DEF open
  <2> HIDE DEF all
  <2> QED BY <1>10, <1>12, <1>17, <2>1
<1>19. GroupsIn(s) \subseteq {GroupOf(part, x) : x \in Under(nodes, t)}
  <2>1. t \in Under(nodes, t)
    BY DEF Under
  <2>2. ASSUME NEW m \in R, NEW h \in GroupsIn(f[m]) PROVE \E x \in Under(nodes, t) : h = GroupOf(part, x)
    <3>1. PICK x \in Under(nodes, m) : h = GroupOf(part, x)
      BY <2>2 DEF IsWhole, R
    <3>2. x \in Under(nodes, t)
      BY <3>1, InsideApart DEF R
    <3> QED BY <3>1, <3>2
  <2> QED BY <1>18, <2>1, <2>2 DEF g
<1>20. Sound(s, inside, {})
  BY <1>16, <1>19, ClosedIsSound DEF inside, open, g
<1>21. HeadsIn(s) = GroupsIn(s) /\ AnchorsIn(s) = {}
  BY <1>18
<1>22. IsWhole(part, t, s)
  BY <1>19, <1>20, <1>21 DEF IsWhole, inside
<1> QED BY <1>18, <1>22 DEF g, R

\* What the elements of a table are.
LEMMA ElementsOfTables ==
  ASSUME NEW view, NEW part, AreNodes(part.nodes), NEW t \in DOMAIN part.nodes, NEW e \in ToSet(TableElements(view, part, t))
  PROVE  Tabled(e) /\ \E m \in DOMAIN part.nodes, type \in TableTypes : IsOfTable(part, m, type, e)
<1>1. TableElements(view, part, t) \in Seq(TableParts(part))
  BY TablesAreRead
<1>2. e \in TableParts(part)
  BY <1>1, IsSequenceOf
<1>3. PICK m \in DOMAIN part.nodes, n \in DOMAIN part.nodes, type \in {"TABLE", "TABLE_ROW", "TABLE_CELL"} :
        e = InTable(part.nodes, part, m, n, type)
  BY <1>2 DEF TableParts
<1>4. type \in TableTypes
  BY DEF TableTypes
<1>5. IsOfTable(part, m, type, e)
  BY <1>3, <1>4, InTableFields
<1> QED BY <1>4, <1>5 DEF Tabled, IsOfTable

\* Each table is read whole, with the tables in it.
LEMMA TablesAreWhole ==
  ASSUME NEW view, NEW part, NEW nodes, nodes = part.nodes, AreNodes(nodes)
  PROVE  \A t \in DOMAIN nodes :
           nodes[t].name = "tbl" =>
             /\ IsWhole(part, t, TableElements(view, part, t))
             /\ GroupsIn(TableElements(view, part, t))
                = {GroupOf(part, t)} \cup UNION {GroupsIn(TableElements(view, part, m)) : m \in InnerTables(nodes, view, t)}
<1> DEFINE S == {t \in DOMAIN nodes : nodes[t].name = "tbl"}
           rank == [t \in S |-> Len(nodes) - t]
           f == [m \in DOMAIN nodes |-> TableElements(view, part, m)]
           G == {t \in S : IsWhole(part, t, f[t])}
<1>1. DOMAIN nodes = 1..Len(nodes) /\ Len(nodes) \in Nat
  BY SequenceDomain DEF AreNodes
<1>2. ASSUME NEW t \in S, \A m \in InnerTables(nodes, view, t) : IsWhole(part, m, f[m])
      PROVE  /\ IsWhole(part, t, f[t])
             /\ GroupsIn(f[t]) = {GroupOf(part, t)} \cup UNION {GroupsIn(f[m]) : m \in InnerTables(nodes, view, t)}
  <2>1. f[t] = TableRead(view, part, t, f)
    BY TablesAreRead
  <2>2. \A e \in ToSet(f[t]) : Tabled(e)
    BY ElementsOfTables
  <2> HIDE DEF f
  <2> QED BY <1>2, <2>1, <2>2, TableIsWhole
<1>3. \A t \in S : \A m \in InnerTables(nodes, view, t) : m \in S /\ t < m
  BY InsideIs
<1>4. Inherited(S, rank, G)
  <2> SUFFICES ASSUME NEW t \in S, \A m \in S : rank[m] < rank[t] => m \in G PROVE t \in G
    BY DEF Inherited
  <2>1. \A m \in InnerTables(nodes, view, t) : m \in G
    <3> SUFFICES ASSUME NEW m \in InnerTables(nodes, view, t) PROVE m \in G
      OBVIOUS
    <3>1. m \in S /\ t < m /\ m \in 1..Len(nodes) /\ t \in 1..Len(nodes)
      BY <1>1, <1>3
    <3>2. rank[m] = Len(nodes) - m /\ rank[t] = Len(nodes) - t
      BY <3>1
    <3>3. rank[m] < rank[t]
      BY <1>1, <3>1, <3>2
    <3> QED BY <3>1, <3>3
  <2> HIDE DEF f
  <2> QED BY <1>2, <2>1
<1>5. rank \in [S -> Nat]
  BY <1>1
<1>6. S \subseteq G
  <2> HIDE DEF S, rank, G
  <2> QED BY <1>4, <1>5, RankInduction
<1>7. ASSUME NEW t \in S
      PROVE  /\ IsWhole(part, t, f[t])
             /\ GroupsIn(f[t]) = {GroupOf(part, t)} \cup UNION {GroupsIn(f[m]) : m \in InnerTables(nodes, view, t)}
  <2>1. \A m \in InnerTables(nodes, view, t) : IsWhole(part, m, f[m])
    BY <1>3, <1>6
  <2> HIDE DEF f
  <2> QED BY <1>2, <2>1
<1>8. ASSUME NEW t \in S
      PROVE  /\ IsWhole(part, t, TableElements(view, part, t))
             /\ GroupsIn(TableElements(view, part, t))
                = {GroupOf(part, t)} \cup UNION {GroupsIn(TableElements(view, part, m)) : m \in InnerTables(nodes, view, t)}
  <2>1. f[t] = TableElements(view, part, t)
    OBVIOUS
  <2>2. \A m \in InnerTables(nodes, view, t) : f[m] = TableElements(view, part, m)
    BY <1>3
  <2>3. UNION {GroupsIn(f[m]) : m \in InnerTables(nodes, view, t)}
        = UNION {GroupsIn(TableElements(view, part, m)) : m \in InnerTables(nodes, view, t)}
    BY <2>2
  <2> HIDE DEF f, S
  <2> QED BY <1>7, <2>1, <2>3
<1> QED BY <1>8

\* The tables that are read when table t is.
Reads(view, part, t) == {m \in DOMAIN part.nodes : GroupOf(part, m) \in GroupsIn(TableElements(view, part, t))}

\* With a table the tables in it are read, and but for t itself the one that it is in.
IsReading(view, part, t) ==
  /\ t \in Reads(view, part, t)
  /\ \A m \in Reads(view, part, t) :
       /\ m \in Under(part.nodes, t) /\ part.nodes[m].name = "tbl"
       /\ InnerTables(part.nodes, view, m) \subseteq Reads(view, part, t)
       /\ m # t => EnclosingOf(part.nodes, m) # {} /\ Max(EnclosingOf(part.nodes, m)) \in Reads(view, part, t)

\* With each table those in it are read, and no others.
LEMMA ReadingsAre ==
  ASSUME NEW view, NEW part, NEW nodes, nodes = part.nodes, AreNodes(nodes)
  PROVE  \A t \in DOMAIN nodes : nodes[t].name = "tbl" => IsReading(view, part, t)
<1> DEFINE S == {t \in DOMAIN nodes : nodes[t].name = "tbl"}
           rank == [t \in S |-> Len(nodes) - t]
           G == {t \in S : IsReading(view, part, t)}
<1>1. DOMAIN nodes = 1..Len(nodes) /\ Len(nodes) \in Nat
  BY SequenceDomain DEF AreNodes
<1>2. \A t \in S : \A m \in InnerTables(nodes, view, t) :
        m \in S /\ t < m /\ t \in EnclosingOf(nodes, m) /\ Max(EnclosingOf(nodes, m)) = t
  BY InsideIs
<1>3. \A t \in S : \A m : m \in Reads(view, part, t) <=> m = t \/ \E k \in InnerTables(nodes, view, t) : m \in Reads(view, part, k)
  <2> SUFFICES ASSUME NEW t \in S, NEW m PROVE m \in Reads(view, part, t) <=> m = t \/ \E k \in InnerTables(nodes, view, t) : m \in Reads(view, part, k)
    OBVIOUS
  <2> DEFINE own == GroupsIn(TableElements(view, part, t))
  <2>1. own = {GroupOf(part, t)} \cup UNION {GroupsIn(TableElements(view, part, k)) : k \in InnerTables(nodes, view, t)}
    BY TablesAreWhole
  <2>2. \A h : h \in own <=> h = GroupOf(part, t) \/ \E k \in InnerTables(nodes, view, t) : h \in GroupsIn(TableElements(view, part, k))
    <3> HIDE DEF own
    <3> QED BY <2>1
  <2>3. GroupOf(part, m) = GroupOf(part, t) <=> m = t
    BY GroupIsOne
  <2>4. m \in Reads(view, part, t) <=> m \in DOMAIN nodes /\ GroupOf(part, m) \in own
    BY DEF Reads
  <2>5. \A k : m \in Reads(view, part, k) <=> m \in DOMAIN nodes /\ GroupOf(part, m) \in GroupsIn(TableElements(view, part, k))
    BY DEF Reads
  <2> HIDE DEF own
  <2> QED BY <2>2, <2>3, <2>4, <2>5
<1>4. \A t \in S : \A k \in InnerTables(nodes, view, t) : Under(nodes, k) \subseteq Under(nodes, t)
  BY InsideApart
<1>5. ASSUME NEW t \in S, \A k \in InnerTables(nodes, view, t) : IsReading(view, part, k)
      PROVE  IsReading(view, part, t)
  <2>1. t \in Reads(view, part, t)
    BY <1>3
  <2>2. \A k \in InnerTables(nodes, view, t) : k \in Reads(view, part, k) /\ Reads(view, part, k) \subseteq Reads(view, part, t)
    BY <1>3, <1>5 DEF IsReading
  <2>3. InnerTables(nodes, view, t) \subseteq Reads(view, part, t)
    BY <2>2
  <2> SUFFICES ASSUME NEW m \in Reads(view, part, t)
               PROVE  /\ m \in Under(nodes, t) /\ nodes[m].name = "tbl"
                      /\ InnerTables(nodes, view, m) \subseteq Reads(view, part, t)
                      /\ m # t => EnclosingOf(nodes, m) # {} /\ Max(EnclosingOf(nodes, m)) \in Reads(view, part, t)
    BY <2>1 DEF IsReading
  <2>4. CASE m = t
    <3>1. t \in Under(nodes, t)
      BY DEF Under
    <3> QED BY <2>3, <2>4, <3>1
  <2>5. CASE m # t
    <3>1. PICK k \in InnerTables(nodes, view, t) : m \in Reads(view, part, k)
      BY <1>3, <2>5
    <3>2. /\ m \in Under(nodes, k) /\ nodes[m].name = "tbl"
          /\ InnerTables(nodes, view, m) \subseteq Reads(view, part, k)
          /\ m # k => EnclosingOf(nodes, m) # {} /\ Max(EnclosingOf(nodes, m)) \in Reads(view, part, k)
      BY <1>5, <3>1 DEF IsReading
    <3>3. m = k => EnclosingOf(nodes, m) # {} /\ Max(EnclosingOf(nodes, m)) \in Reads(view, part, t)
      BY <1>2, <2>1, <3>1
    <3>4. m \in Under(nodes, t)
      BY <1>4, <3>1, <3>2
    <3> QED BY <2>2, <3>1, <3>2, <3>3, <3>4
  <2> QED BY <2>4, <2>5
<1>6. Inherited(S, rank, G)
  <2> SUFFICES ASSUME NEW t \in S, \A m \in S : rank[m] < rank[t] => m \in G PROVE t \in G
    BY DEF Inherited
  <2>1. \A m \in InnerTables(nodes, view, t) : m \in G
    <3> SUFFICES ASSUME NEW m \in InnerTables(nodes, view, t) PROVE m \in G
      OBVIOUS
    <3>1. m \in S /\ t < m /\ m \in 1..Len(nodes) /\ t \in 1..Len(nodes)
      BY <1>1, <1>2
    <3>2. rank[m] = Len(nodes) - m /\ rank[t] = Len(nodes) - t
      BY <3>1
    <3>3. rank[m] < rank[t]
      BY <1>1, <3>1, <3>2
    <3> QED BY <3>1, <3>3
  <2> QED BY <1>5, <2>1
<1>7. rank \in [S -> Nat]
  BY <1>1
<1>8. S \subseteq G
  <2> HIDE DEF S, rank, G
  <2> QED BY <1>6, <1>7, RankInduction
<1> QED BY <1>8

-----------------------------------------------------------------------------
(* The tables that blocks read on their own.                               *)

\* The tables that a block reads on its own.
RootsOf(nodes, view, n) ==
  IF nodes[n].name = "p" THEN Boxed(nodes, view, n) ELSE IF nodes[n].name = "tbl" THEN {n} ELSE {}
Roots(nodes, view) == UNION {RootsOf(nodes, view, n) : n \in Blocks(nodes, view)}

\* Around a block there is no table, row, cell or paragraph.
LEMMA AroundBlocks ==
  ASSUME NEW nodes, NEW view, NEW n \in Blocks(nodes, view)
  PROVE  /\ n \in DOMAIN nodes /\ EnclosingOf(nodes, n) = {}
         /\ \A k \in Around(nodes)[n] \ {0} : nodes[k].name \notin {"tbl", "tr", "tc", "p"}
<1>1. n \in DOMAIN nodes /\ \A k \in Around(nodes)[n] \ {0} : Opens(view, nodes[k])
  BY DEF Blocks
<1>2. \A k \in Around(nodes)[n] \ {0} : nodes[k].name \notin {"tbl", "tr", "tc", "p"}
  BY <1>1, OpensWrappers
<1> QED BY <1>1, <1>2 DEF EnclosingOf

\* The tables of a block are in no table, and in no other block.
LEMMA RootsAre ==
  ASSUME NEW nodes, AreNodes(nodes), NEW view, NEW n \in Blocks(nodes, view), NEW m \in RootsOf(nodes, view, n)
  PROVE  /\ m \in DOMAIN nodes /\ nodes[m].name = "tbl" /\ EnclosingOf(nodes, m) = {}
         /\ m = n \/ (nodes[n].name = "p" /\ n \in Around(nodes)[m])
<1>1. CASE nodes[n].name = "p"
  <2>1. /\ m \in DOMAIN nodes /\ nodes[m].name = "tbl" /\ n \in Around(nodes)[m]
        /\ \A k \in Between(nodes, n, m) : nodes[k].name # "tbl"
    BY <1>1 DEF RootsOf, Boxed
  <2>2. ASSUME NEW k \in Around(nodes)[m] \ {0}, nodes[k].name = "tbl" PROVE FALSE
    <3>1. n \in Int /\ k \in Int
      BY <2>1, AroundIn
    <3>2. CASE n < k
      <4>1. n \in Around(nodes)[k]
        BY <2>1, <3>2, AroundIn
      <4> QED BY <2>1, <2>2, <4>1 DEF Between
    <3>3. CASE k < n
      <4>1. k \in Around(nodes)[n]
        BY <2>1, <3>3, AroundIn
      <4> QED BY <2>2, <4>1, AroundBlocks
    <3>4. CASE k = n
      BY <1>1, <2>2, <3>4
    <3> QED BY <3>1, <3>2, <3>3, <3>4
  <2>3. EnclosingOf(nodes, m) = {}
    BY <2>2 DEF EnclosingOf
  <2> QED BY <1>1, <2>1, <2>3
<1>2. CASE nodes[n].name # "p"
  <2>1. nodes[n].name = "tbl" /\ m = n
    BY <1>2 DEF RootsOf
  <2> QED BY <2>1, AroundBlocks
<1> QED BY <1>1, <1>2

\* No two blocks read one table, and nothing is under two tables that they read.
LEMMA RootsApart ==
  ASSUME NEW nodes, AreNodes(nodes), NEW view
  PROVE  /\ \A n, k \in Blocks(nodes, view) : n # k => RootsOf(nodes, view, n) \cap RootsOf(nodes, view, k) = {}
         /\ \A m, k \in Roots(nodes, view) : m # k => Under(nodes, m) \cap Under(nodes, k) = {}
<1>1. ASSUME NEW n \in Blocks(nodes, view), NEW k \in Blocks(nodes, view), n # k,
             NEW m \in RootsOf(nodes, view, n), m \in RootsOf(nodes, view, k)
      PROVE  FALSE
  <2>1. /\ m \in DOMAIN nodes /\ (m = n \/ (nodes[n].name = "p" /\ n \in Around(nodes)[m]))
        /\ m = k \/ (nodes[k].name = "p" /\ k \in Around(nodes)[m])
    BY <1>1, RootsAre
  <2>2. n \in DOMAIN nodes /\ k \in DOMAIN nodes /\ n # 0 /\ k # 0
    <3>1. n \in DOMAIN nodes /\ k \in DOMAIN nodes
      BY DEF Blocks
    <3> QED BY <3>1, AroundIn
  <2>3. ~(nodes[k].name = "p" /\ k \in Around(nodes)[n]) /\ ~(nodes[n].name = "p" /\ n \in Around(nodes)[k])
    BY <2>2, AroundBlocks
  <2>4. CASE m = n
    BY <1>1, <2>1, <2>3, <2>4
  <2>5. CASE m = k
    BY <1>1, <2>1, <2>3, <2>5
  <2>6. CASE m # n /\ m # k
    <3>1. n \in Around(nodes)[m] /\ k \in Around(nodes)[m] /\ nodes[n].name = "p" /\ nodes[k].name = "p"
      BY <2>1, <2>6
    <3>2. n \in Int /\ k \in Int
      BY <2>1, <3>1, AroundIn
    <3>3. n < k => n \in Around(nodes)[k]
      BY <2>1, <3>1, AroundIn
    <3>4. k < n => k \in Around(nodes)[n]
      BY <2>1, <3>1, AroundIn
    <3> QED BY <1>1, <2>3, <3>1, <3>2, <3>3, <3>4
  <2> QED BY <2>4, <2>5, <2>6
<1>2. ASSUME NEW m \in Roots(nodes, view), NEW k \in Roots(nodes, view), m # k, NEW x \in Under(nodes, m) \cap Under(nodes, k)
      PROVE  FALSE
  <2>1. \A j \in Roots(nodes, view) : j \in DOMAIN nodes /\ nodes[j].name = "tbl" /\ EnclosingOf(nodes, j) = {}
    BY RootsAre DEF Roots
  <2>2. m \in Around(nodes)[k] \/ k \in Around(nodes)[m]
    BY <1>2, <2>1, UnderBoth
  <2>3. m # 0 /\ k # 0
    BY <2>1, AroundIn
  <2> QED BY <2>1, <2>2, <2>3 DEF EnclosingOf
<1> QED BY <1>1, <1>2

\* The tables of the blocks are read each on its own.
LEMMA RootsAreRead ==
  ASSUME NEW view, NEW part, NEW nodes, nodes = part.nodes, AreNodes(nodes), NEW f, f = [m \in DOMAIN nodes |-> TableElements(view, part, m)]
  PROVE  AreRead(InsideOf(part), {}, f, Roots(nodes, view))
<1>1. \A m \in Roots(nodes, view) : m \in DOMAIN nodes /\ nodes[m].name = "tbl"
  BY RootsAre DEF Roots
<1>2. \A m \in Roots(nodes, view) : IsWhole(part, m, f[m])
  <2> SUFFICES ASSUME NEW m \in Roots(nodes, view) PROVE IsWhole(part, m, f[m])
    OBVIOUS
  <2>1. IsWhole(part, m, TableElements(view, part, m))
    BY <1>1, TablesAreWhole
  <2>2. f[m] = TableElements(view, part, m)
    BY <1>1
  <2> QED BY <2>1, <2>2
<1>3. ASSUME NEW m \in Roots(nodes, view), NEW k \in Roots(nodes, view), m # k, NEW g \in GroupsIn(f[m]) \cap GroupsIn(f[k])
      PROVE  FALSE
  <2>1. PICK x \in Under(nodes, m) : g = GroupOf(part, x)
    BY <1>2, <1>3 DEF IsWhole
  <2>2. PICK y \in Under(nodes, k) : g = GroupOf(part, y)
    BY <1>2, <1>3 DEF IsWhole
  <2>3. x = y
    BY <2>1, <2>2, GroupIsOne
  <2> QED BY <1>3, <2>1, <2>2, <2>3, RootsApart
<1>4. \A m \in Roots(nodes, view) : /\ Sound(f[m], InsideOf(part), {}) /\ HeadsIn(f[m]) = GroupsIn(f[m])
                                    /\ AnchorsIn(f[m]) = {} /\ GroupsIn(f[m]) \cap {} = {}
  BY <1>2 DEF IsWhole
<1> QED BY <1>3, <1>4 DEF AreRead

-----------------------------------------------------------------------------
(* Blocks and parts.                                                       *)

\* What is read of a block besides its tables: an element of no group.
IsText(zone, e) ==
  /\ e = [f \in Fields |-> e[f]] /\ e.zone = zone /\ e.source = "EXPLICIT" /\ e.evidence = None /\ e.anchor = None
  /\ e.group = None /\ e.parent = None /\ None \notin e.refs /\ e.type \in OrderlyTypes \ (TableTypes \cup {"FOOTNOTE"})

\* It stays one if its type, or what it says, is changed.
LEMMA TextChanged ==
  ASSUME NEW zone, NEW e, IsText(zone, e)
  PROVE  /\ \A f \in {"blank", "marks", "marker", "style", "level", "seq", "depth", "format", "sectionBreak"} : \A v : IsText(zone, [e EXCEPT ![f] = v])
         /\ \A v : None \notin v => IsText(zone, [e EXCEPT !["refs"] = v])
         /\ \A v \in OrderlyTypes \ (TableTypes \cup {"FOOTNOTE"}) : IsText(zone, [e EXCEPT !["type"] = v])
<1>0. e = [f \in Fields |-> e[f]]
  BY DEF IsText
<1>1. ASSUME NEW f \in {"blank", "marks", "marker", "style", "level", "seq", "depth", "format", "sectionBreak"}, NEW v
      PROVE  IsText(zone, [e EXCEPT ![f] = v])
  <2> DEFINE g == [e EXCEPT ![f] = v]
  <2>1. /\ g = [x \in Fields |-> g[x]] /\ g.zone = e.zone /\ g.source = e.source /\ g.evidence = e.evidence /\ g.anchor = e.anchor
        /\ g.group = e.group /\ g.parent = e.parent /\ g.refs = e.refs /\ g.type = e.type
    BY <1>0, PlainFields
  <2> HIDE DEF g
  <2>2. IsText(zone, g)
    BY <2>1 DEF IsText
  <2> QED BY <2>2 DEF g
<1>2. ASSUME NEW v, None \notin v PROVE IsText(zone, [e EXCEPT !["refs"] = v])
  <2> DEFINE g == [e EXCEPT !["refs"] = v]
  <2>1. /\ g = [x \in Fields |-> g[x]] /\ g.zone = e.zone /\ g.source = e.source /\ g.evidence = e.evidence /\ g.anchor = e.anchor
        /\ g.group = e.group /\ g.parent = e.parent /\ g.refs = v /\ g.type = e.type
    BY <1>0, PlainFields
  <2> HIDE DEF g
  <2>2. IsText(zone, g)
    BY <1>2, <2>1 DEF IsText
  <2> QED BY <2>2 DEF g
<1>3. ASSUME NEW v \in OrderlyTypes \ (TableTypes \cup {"FOOTNOTE"}) PROVE IsText(zone, [e EXCEPT !["type"] = v])
  <2> DEFINE g == [e EXCEPT !["type"] = v]
  <2>1. /\ g = [x \in Fields |-> g[x]] /\ g.zone = e.zone /\ g.source = e.source /\ g.evidence = e.evidence /\ g.anchor = e.anchor
        /\ g.group = e.group /\ g.parent = e.parent /\ g.refs = e.refs /\ g.type = v
    BY <1>0, PlainFields
  <2> HIDE DEF g
  <2>2. IsText(zone, g)
    BY <2>1 DEF IsText
  <2> QED BY <2>2 DEF g
<1> QED BY <1>1, <1>2, <1>3

\* What stands in a zone, separators, and what is not understood.
LEMMA ZonedIsText ==
  ASSUME NEW part
  PROVE  /\ IsText(part.zone, InPart(part))
         /\ \A type \in {"SEPARATOR", "UNKNOWN"} : IsText(part.zone, Silent(part, type))
         /\ IsText(part.zone, SectionSeparator(part))
         /\ \A node : (node.name # "altChunk" => None \notin node.refs) => IsText(part.zone, Opaque(part, node))
<1> DEFINE Types == OrderlyTypes \ (TableTypes \cup {"FOOTNOTE"})
<1>0. {"SEPARATOR", "UNKNOWN", "PARAGRAPH"} \subseteq Types
  BY DEF OrderlyTypes, TableTypes
<1>1. IsText(part.zone, InPart(part))
  <2> DEFINE e == InPart(part)
  <2>1. /\ e = [f \in Fields |-> e[f]] /\ e.zone = part.zone /\ e.source = "EXPLICIT" /\ e.evidence = None /\ e.anchor = None
        /\ e.group = None /\ e.parent = None /\ e.refs = {} /\ e.type = "PARAGRAPH"
    BY PlainFields DEF InPart, Plain
  <2> HIDE DEF e
  <2>2. IsText(part.zone, e)
    BY <1>0, <2>1 DEF IsText
  <2> QED BY <2>2 DEF e
<1>2. ASSUME NEW type \in {"SEPARATOR", "UNKNOWN"} PROVE IsText(part.zone, Silent(part, type))
  <2>1. IsText(part.zone, [InPart(part) EXCEPT !["type"] = type])
    BY <1>0, <1>1, TextChanged
  <2>2. IsText(part.zone, [[InPart(part) EXCEPT !["type"] = type] EXCEPT !["blank"] = TRUE])
    BY <2>1, TextChanged
  <2> QED BY <2>2 DEF Silent
<1>3. IsText(part.zone, SectionSeparator(part))
  <2>1. IsText(part.zone, [Silent(part, "SEPARATOR") EXCEPT !["sectionBreak"] = TRUE])
    BY <1>2, TextChanged
  <2> QED BY <2>1 DEF SectionSeparator
<1>4. ASSUME NEW node, node.name # "altChunk" => None \notin node.refs PROVE IsText(part.zone, Opaque(part, node))
  <2>1. CASE node.name = "altChunk"
    BY <1>2, <2>1 DEF Opaque
  <2>2. CASE node.name # "altChunk"
    <3>1. IsText(part.zone, [InPart(part) EXCEPT !["type"] = "UNKNOWN"])
      BY <1>0, <1>1, TextChanged
    <3>2. IsText(part.zone, [[InPart(part) EXCEPT !["type"] = "UNKNOWN"] EXCEPT !["blank"] = node.blank])
      BY <3>1, TextChanged
    <3>3. IsText(part.zone, [[[InPart(part) EXCEPT !["type"] = "UNKNOWN"] EXCEPT !["blank"] = node.blank] EXCEPT !["marks"] = node.marks])
      BY <3>2, TextChanged
    <3>4. IsText(part.zone, [[[[InPart(part) EXCEPT !["type"] = "UNKNOWN"] EXCEPT !["blank"] = node.blank] EXCEPT !["marks"] = node.marks]
                          EXCEPT !["marker"] = node.marker])
      BY <3>3, TextChanged
    <3>5. IsText(part.zone, [[[[[InPart(part) EXCEPT !["type"] = "UNKNOWN"] EXCEPT !["blank"] = node.blank] EXCEPT !["marks"] = node.marks]
                          EXCEPT !["marker"] = node.marker] EXCEPT !["refs"] = node.refs])
      BY <1>4, <2>2, <3>4, TextChanged
    <3> QED BY <2>2, <3>5 DEF Opaque
  <2> QED BY <2>1, <2>2
<1> QED BY <1>1, <1>2, <1>3, <1>4

\* A paragraph, whatever its style.
LEMMA ParagraphIsText ==
  ASSUME NEW package, NEW part, NEW style, NEW p, None \notin p.refs
  PROVE  IsText(part.zone, Paragraph(package, part, style, p))
<1> DEFINE level == HeadingLevel(style, p)
           numbering == EffectiveNumbering(style, p)
           zoned == InPart(part)
           text == [zoned EXCEPT !.blank = p.blank, !.marks = p.marks, !.marker = p.marker,
                                 !.style = p.look, !.refs = p.refs]
           observed == WithNumbering(text, package.lists, numbering)
           formed == Formed(package, part, style, p)
<1>0. {"PARAGRAPH", "HEADING", "LIST_ITEM", "FORMULA"} \subseteq OrderlyTypes \ (TableTypes \cup {"FOOTNOTE"})
  BY DEF OrderlyTypes, TableTypes
<1>1. IsText(part.zone, zoned)
  BY ZonedIsText
<1> HIDE DEF zoned, level
<1>2. IsText(part.zone, text)
  <2>1. IsText(part.zone, [zoned EXCEPT !["blank"] = p.blank])
    BY <1>1, TextChanged
  <2>2. IsText(part.zone, [[zoned EXCEPT !["blank"] = p.blank] EXCEPT !["marks"] = p.marks])
    BY <2>1, TextChanged
  <2>3. IsText(part.zone, [[[zoned EXCEPT !["blank"] = p.blank] EXCEPT !["marks"] = p.marks] EXCEPT !["marker"] = p.marker])
    BY <2>2, TextChanged
  <2>4. IsText(part.zone, [[[[zoned EXCEPT !["blank"] = p.blank] EXCEPT !["marks"] = p.marks] EXCEPT !["marker"] = p.marker] EXCEPT !["style"] = p.look])
    BY <2>3, TextChanged
  <2>5. IsText(part.zone, [[[[[zoned EXCEPT !["blank"] = p.blank] EXCEPT !["marks"] = p.marks] EXCEPT !["marker"] = p.marker] EXCEPT !["style"] = p.look]
                        EXCEPT !["refs"] = p.refs])
    BY <2>4, TextChanged
  <2> QED BY <2>5
<1> HIDE DEF text
<1>3. IsText(part.zone, observed)
  <2>1. ASSUME NEW f, NEW g, NEW h PROVE IsText(part.zone, [text EXCEPT !.seq = f, !.depth = g, !.format = h])
    <3>1. IsText(part.zone, [text EXCEPT !["seq"] = f])
      BY <1>2, TextChanged
    <3>2. IsText(part.zone, [[text EXCEPT !["seq"] = f] EXCEPT !["depth"] = g])
      BY <3>1, TextChanged
    <3>3. IsText(part.zone, [[[text EXCEPT !["seq"] = f] EXCEPT !["depth"] = g] EXCEPT !["format"] = h])
      BY <3>2, TextChanged
    <3> QED BY <3>3
  <2> HIDE DEF numbering
  <2> QED BY <1>2, <2>1 DEF WithNumbering
<1> HIDE DEF observed
<1>4. \A type \in {"PARAGRAPH", "HEADING", "LIST_ITEM", "FORMULA"} : IsText(part.zone, [observed EXCEPT !["type"] = type])
  BY <1>0, <1>3, TextChanged
<1>5. IsText(part.zone, [observed EXCEPT !.type = "HEADING", !.level = level])
  <2>1. IsText(part.zone, [[observed EXCEPT !["type"] = "HEADING"] EXCEPT !["level"] = level])
    <3>1. IsText(part.zone, [observed EXCEPT !["type"] = "HEADING"])
      BY <1>4
    <3> QED BY <3>1, TextChanged
  <2> QED BY <2>1
<1>6. IsText(part.zone, formed)
  <2>1. \/ formed = [observed EXCEPT !.type = "HEADING", !.level = level]
        \/ formed = observed
        \/ formed = [observed EXCEPT !["type"] = "LIST_ITEM"] \/ formed = [observed EXCEPT !["type"] = "FORMULA"]
    BY DEF Formed, observed, text, level, numbering, zoned
  <2>2. IsText(part.zone, [observed EXCEPT !["type"] = "LIST_ITEM"]) /\ IsText(part.zone, [observed EXCEPT !["type"] = "FORMULA"])
    BY <1>4
  <2> QED BY <1>3, <1>5, <2>1, <2>2
<1> HIDE DEF formed
<1>7. IsText(part.zone, [formed EXCEPT !.type = "PARAGRAPH", !.level = 0])
  <2>1. IsText(part.zone, [formed EXCEPT !["type"] = "PARAGRAPH"])
    BY <1>0, <1>6, TextChanged
  <2>2. IsText(part.zone, [[formed EXCEPT !["type"] = "PARAGRAPH"] EXCEPT !["level"] = 0])
    BY <2>1, TextChanged
  <2> QED BY <2>2
<1>8. IsText(part.zone, [formed EXCEPT !["blank"] = (p.math = "empty")])
  BY <1>6, TextChanged
<1>9. \/ Paragraph(package, part, style, p) = formed
      \/ Paragraph(package, part, style, p) = [formed EXCEPT !.type = "PARAGRAPH", !.level = 0]
      \/ Paragraph(package, part, style, p) = [formed EXCEPT !["blank"] = (p.math = "empty")]
  BY DEF Paragraph, formed
<1> QED BY <1>6, <1>7, <1>8, <1>9

\* What is read of a part: text, and elements of its tables.
IsPartElement(part, e) ==
  IsText(part.zone, e) \/ \E m \in DOMAIN part.nodes, type \in TableTypes : IsOfTable(part, m, type, e)

\* Text is no part of a table.
LEMMA TextIsPortion ==
  ASSUME NEW inside, NEW f, NEW zone, NEW e, IsText(zone, e)
  PROVE  Portion(inside, {}, f, {}, <<e>>)
<1>1. e.type # "TABLE" /\ ~Tabled(e) /\ e.anchor = None
  BY DEF IsText, Tabled, TableTypes
<1> QED BY <1>1, OneIsPortion

\* A block reads its tables, and none twice.
LEMMA BlockIsPortion ==
  ASSUME NEW package, NEW part, NEW nodes, nodes = part.nodes, NEW view, view = package.policy.view, IsTree(nodes, view),
         NEW n \in Blocks(nodes, view), NEW f, f = [m \in DOMAIN nodes |-> TableElements(view, part, m)]
  PROVE  /\ Portion(InsideOf(part), {}, f, RootsOf(nodes, view, n), BlockElements(package, part, n))
         /\ \A e \in ToSet(BlockElements(package, part, n)) : IsPartElement(part, e)
<1> DEFINE inside == InsideOf(part)
           R == Roots(nodes, view)
           own == RootsOf(nodes, view, n)
           node == nodes[n]
           zone == part.zone
           elements == BlockElements(package, part, n)
<1>1. AreNodes(nodes) /\ n \in DOMAIN nodes
  BY DEF IsTree, AreNodes, Blocks
<1>2. AreRead(inside, {}, f, R) /\ R \subseteq DOMAIN nodes
  <2>1. R \subseteq DOMAIN nodes
    BY <1>1, RootsAre DEF Roots
  <2> QED BY <1>1, <2>1, RootsAreRead
<1>3. \A e : IsText(zone, e) => Portion(inside, {}, f, {}, <<e>>) /\ \A x \in ToSet(<<e>>) : IsPartElement(part, x)
  <2> SUFFICES ASSUME NEW e, IsText(zone, e) PROVE Portion(inside, {}, f, {}, <<e>>) /\ \A x \in ToSet(<<e>>) : IsPartElement(part, x)
    OBVIOUS
  <2>1. ToSet(<<e>>) = {e}
    BY OneIsSound DEF Tabled
  <2> QED BY <2>1, TextIsPortion DEF IsPartElement
<1>4. own \in SUBSET R
  BY DEF Roots
<1>5. CASE node.name = "p"
  <2> DEFINE para == Paragraph(package, part, Resolve(package.styles, node.style), node)
             head == <<para>>
             tables == Laid(nodes, own, f)
             tail == IF node.section = None THEN <<>> ELSE <<SectionSeparator(part)>>
  <2>1. IsText(zone, para)
    <3>1. None \notin node.refs
      BY <1>5 DEF IsTree
    <3> HIDE DEF node
    <3> QED BY <3>1, ParagraphIsText
  <2>2. Portion(inside, {}, f, {}, head) /\ \A x \in ToSet(head) : IsPartElement(part, x)
    <3> HIDE DEF para
    <3> QED BY <1>3, <2>1
  <2>3. Portion(inside, {}, f, {}, tail) /\ \A x \in ToSet(tail) : IsPartElement(part, x)
    <3>1. CASE node.section = None
      BY <3>1, NoPortion, NothingIsSound
    <3>2. CASE node.section # None
      <4>1. IsText(zone, SectionSeparator(part))
        BY ZonedIsText
      <4> QED BY <1>3, <3>2, <4>1
    <3> QED BY <3>1, <3>2
  <2>4. Portion(inside, {}, f, own, tables)
    BY <1>1, <1>2, <1>4, TablesLaid
  <2>5. \A x \in ToSet(tables) : IsPartElement(part, x)
    <3> SUFFICES ASSUME NEW x \in ToSet(tables) PROVE IsPartElement(part, x)
      OBVIOUS
    <3>1. \A m \in DOMAIN nodes : f[m] \in Seq(TableParts(part))
      BY <1>1, TablesAreRead
    <3>2. ToSet(tables) = UNION {ToSet(f[m]) : m \in own \cap DOMAIN nodes}
      <4>1. IsSequence(nodes) /\ \A m \in own \cap DOMAIN nodes : f[m] \in Seq(TableParts(part))
        BY <1>1, <3>1 DEF AreNodes
      <4> DEFINE parts == TableParts(part)
      <4> HIDE DEF own, parts
      <4>2. IsSequence(nodes) /\ \A m \in own \cap DOMAIN nodes : f[m] \in Seq(parts)
        BY <4>1 DEF parts
      <4>3. ToSet(Laid(nodes, own, f)) = UNION {ToSet(f[m]) : m \in own \cap DOMAIN nodes}
        <5>1. IsSequence(nodes)
          BY <4>2
        <5>2. \A m \in own \cap DOMAIN nodes : f[m] \in Seq(parts)
          BY <4>2
        <5> QED BY ONLY <5>1, <5>2, LaidIsSeq
      <4> QED BY <4>3
    <3>3. PICK m \in DOMAIN nodes : x \in ToSet(f[m])
      BY <3>2
    <3>4. x \in ToSet(TableElements(view, part, m))
      BY <3>3
    <3> QED BY <1>1, <3>4, ElementsOfTables DEF IsPartElement
  <2>6. elements = head \o tables \o tail
    <3>1. elements = ParagraphElements(package, part, n)
      BY <1>5 DEF BlockElements, IsOpaque, Wrappers, Unseen, Revisions
    <3>2. InDocumentOrder(nodes, own, LAMBDA t : TableElements(view, part, t)) = tables
      <4>1. [m \in DOMAIN nodes |-> IF m \in own THEN TableElements(view, part, m) ELSE <<>>]
            = [m \in DOMAIN nodes |-> IF m \in own THEN f[m] ELSE <<>>]
        BY <1>1
      <4> HIDE DEF own
      <4> QED BY <4>1 DEF InDocumentOrder, Laid
    <3>3. own = Boxed(nodes, view, n)
      BY <1>5 DEF RootsOf
    <3>4. ParagraphElements(package, part, n) = head \o InDocumentOrder(nodes, Boxed(nodes, view, n), LAMBDA t : TableElements(view, part, t)) \o tail
      BY DEF ParagraphElements, InDocumentOrder
    <3> HIDE DEF own, head, tail, tables, elements
    <3> QED BY <3>1, <3>2, <3>3, <3>4
  <2> HIDE DEF own, head, tail, tables, inside, R, elements
  <2>7. {} \in SUBSET R /\ {} \cap own = {} /\ {} \cup own = own /\ own \cap {} = {} /\ own \cup {} = own
    OBVIOUS
  <2>8. Portion(inside, {}, f, own, head \o tables)
    BY <1>2, <1>4, <2>2, <2>4, <2>7, PortionsJoin
  <2>9. Portion(inside, {}, f, own, head \o tables \o tail)
    BY <1>2, <1>4, <2>3, <2>7, <2>8, PortionsJoin
  <2>10. \A x \in ToSet(head \o tables \o tail) : IsPartElement(part, x)
    <3>1. IsSequence(head) /\ IsSequence(tables) /\ IsSequence(tail)
      BY <2>2, <2>3, <2>4 DEF Portion, Sound
    <3>2. IsSequence(head \o tables) /\ ToSet(head \o tables) = ToSet(head) \cup ToSet(tables)
      BY <3>1, JoinedPositions
    <3> DEFINE most == head \o tables
    <3>3. ToSet(most \o tail) = ToSet(most) \cup ToSet(tail)
      <4>1. IsSequence(most)
        BY <3>2
      <4> HIDE DEF most
      <4> QED BY <3>1, <4>1, JoinedPositions
    <3> QED BY <2>2, <2>3, <2>5, <3>2, <3>3
  <2> QED BY <2>6, <2>9, <2>10 DEF own, inside, elements
<1>6. CASE node.name = "tbl"
  <2>1. elements = TableElements(view, part, n) /\ own = {n}
    BY <1>6 DEF BlockElements, RootsOf, IsOpaque, Wrappers, Unseen, Revisions
  <2>2. elements = f[n] /\ n \in R
    BY <1>1, <1>4, <2>1
  <2>3. Portion(inside, {}, f, {n}, f[n])
    <3> HIDE DEF R, inside
    <3> QED BY <1>2, <2>2, ReadIsPortion
  <2>4. \A x \in ToSet(elements) : IsPartElement(part, x)
    <3> HIDE DEF elements
    <3> QED BY <1>1, <2>1, ElementsOfTables DEF IsPartElement
  <2> QED BY <2>1, <2>2, <2>3, <2>4
<1>7. CASE node.name = "sectPr"
  <2>1. elements = <<SectionSeparator(part)>> /\ own = {}
    BY <1>7 DEF BlockElements, RootsOf, IsOpaque, Wrappers, Unseen, Revisions
  <2>2. IsText(zone, SectionSeparator(part))
    BY ZonedIsText
  <2> QED BY <1>3, <2>1, <2>2
<1>8. CASE node.name \in Wrappers \cup Unseen
  <2>1. elements = <<>> /\ own = {}
    BY <1>8 DEF BlockElements, RootsOf, IsOpaque, Wrappers, Unseen, Revisions
  <2> QED BY <2>1, NoPortion, NothingIsSound
<1>9. CASE IsOpaque(node)
  <2>1. elements = <<Opaque(part, node)>> /\ own = {}
    BY <1>9 DEF BlockElements, RootsOf, IsOpaque, Wrappers, Unseen, Revisions
  <2>2. IsText(zone, Opaque(part, node))
    <3>1. node.name # "altChunk" => None \notin node.refs
      BY <1>9 DEF IsTree
    <3> HIDE DEF node
    <3> QED BY <3>1, ZonedIsText
  <2> QED BY <1>3, <2>1, <2>2
<1> QED BY <1>5, <1>6, <1>7, <1>8, <1>9 DEF IsOpaque

\* What is read of a part of a package: no table is read twice, and only what is
\* inside of a table stands between its parts.
LEMMA PartIsSound ==
  ASSUME NEW package, NEW part, NEW nodes, nodes = part.nodes, NEW view, view = package.policy.view, IsTree(nodes, view),
         NEW s, s = PartElements(package, part)
  PROVE  /\ Sound(s, InsideOf(part), {}) /\ HeadsIn(s) = GroupsIn(s) /\ AnchorsIn(s) = {}
         /\ \A e \in ToSet(s) : IsPartElement(part, e)
         /\ \A g : g \in GroupsIn(s) <=> \E m \in Roots(nodes, view) : g \in GroupsIn(TableElements(view, part, m))
<1> DEFINE inside == InsideOf(part)
           R == Roots(nodes, view)
           N == Blocks(nodes, view)
           f == [m \in DOMAIN nodes |-> TableElements(view, part, m)]
           read == [n \in DOMAIN nodes |-> BlockElements(package, part, n)]
           Of == [n \in DOMAIN nodes |-> RootsOf(nodes, view, n)]
<1>1. AreNodes(nodes) /\ IsSequence(nodes) /\ N \subseteq DOMAIN nodes /\ R \subseteq DOMAIN nodes
  <2>1. AreNodes(nodes) /\ IsSequence(nodes) /\ N \subseteq DOMAIN nodes
    BY DEF IsTree, AreNodes, Blocks
  <2> QED BY <2>1, RootsAre DEF Roots
<1>2. AreRead(inside, {}, f, R)
  BY <1>1, RootsAreRead
<1>3. \A n \in N : Portion(inside, {}, f, Of[n], read[n]) /\ \A e \in ToSet(read[n]) : IsPartElement(part, e)
  <2> SUFFICES ASSUME NEW n \in N PROVE Portion(inside, {}, f, Of[n], read[n]) /\ \A e \in ToSet(read[n]) : IsPartElement(part, e)
    OBVIOUS
  <2>1. Of[n] = RootsOf(nodes, view, n) /\ read[n] = BlockElements(package, part, n)
    BY <1>1
  <2> HIDE DEF f, Of, read
  <2>2. f = [m \in DOMAIN nodes |-> TableElements(view, part, m)]
    BY DEF f
  <2> QED BY <2>1, <2>2, BlockIsPortion
<1>4. ArePortions(inside, {}, f, R, N, read, Of) /\ AreOf(R, N, Of)
  <2>1. \A n \in N : Of[n] = RootsOf(nodes, view, n)
    BY <1>1
  <2>2. \A n \in N : Of[n] \subseteq R
    BY <2>1 DEF Roots
  <2>3. \A n, k \in N : n # k => Of[n] \cap Of[k] = {}
    BY <1>1, <2>1, RootsApart
  <2>4. \A m : m \in R <=> \E n \in N : m \in Of[n]
    BY <2>1 DEF Roots
  <2> HIDE DEF f, Of, read, R, N, inside
  <2>5. ArePortions(inside, {}, f, R, N, read, Of)
    BY <1>3, <2>2, <2>3 DEF ArePortions
  <2>6. AreOf(R, N, Of)
    BY <2>4 DEF AreOf
  <2> QED BY <2>5, <2>6
<1>5. s = Laid(nodes, N, read)
  <2>1. [n \in DOMAIN nodes |-> IF n \in N THEN BlockElements(package, part, n) ELSE <<>>]
        = [n \in DOMAIN nodes |-> IF n \in N THEN read[n] ELSE <<>>]
    OBVIOUS
  <2> HIDE DEF N, read
  <2>2. Laid(nodes, N, read) = FlattenSeq([n \in DOMAIN nodes |-> IF n \in N THEN BlockElements(package, part, n) ELSE <<>>])
    BY <2>1 DEF Laid
  <2> QED BY <2>2 DEF PartElements, InDocumentOrder, N
<1>6. Portion(inside, {}, f, R, s)
  <2> HIDE DEF f, Of, read, R, N, inside
  <2>1. N \in SUBSET DOMAIN nodes
    BY <1>1
  <2>2. Portion(inside, {}, f, R, Laid(nodes, N, read))
    BY ONLY <1>1, <1>2, <1>4, <2>1, PortionsLaid
  <2> QED BY <1>5, <2>2
<1>7. \A e \in ToSet(s) : IsPartElement(part, e)
  <2> DEFINE E == {e \in UNION {ToSet(read[n]) : n \in N} : TRUE}
  <2>1. \A n \in N \cap DOMAIN nodes : read[n] \in Seq(E)
    <3> SUFFICES ASSUME NEW n \in N PROVE read[n] \in Seq(E)
      OBVIOUS
    <3>1. IsSequence(read[n])
      BY <1>3 DEF Portion, Sound
    <3>2. ToSet(read[n]) \subseteq E
      OBVIOUS
    <3> HIDE DEF E, read
    <3> QED BY <3>1, <3>2, SequenceOver
  <2> HIDE DEF E, read, N
  <2>2. ToSet(Laid(nodes, N, read)) = UNION {ToSet(read[n]) : n \in N \cap DOMAIN nodes}
    BY ONLY <1>1, <2>1, LaidIsSeq
  <2>3. \A n \in N : \A e \in ToSet(read[n]) : IsPartElement(part, e)
    BY <1>3
  <2> QED BY ONLY <1>5, <2>2, <2>3
<1>8. \A m \in R : f[m] = TableElements(view, part, m) /\ HeadsIn(f[m]) = GroupsIn(f[m])
  <2>1. \A m \in R : f[m] = TableElements(view, part, m)
    BY <1>1
  <2> HIDE DEF f, R, inside
  <2> QED BY <1>2, <2>1 DEF AreRead
<1>9. \A g : g \in GroupsIn(s) <=> \E m \in R : g \in GroupsIn(f[m])
  <2> HIDE DEF f, R, inside
  <2>1. /\ GroupsIn(s) \subseteq {} \cup UNION {GroupsIn(f[m]) : m \in R}
        /\ UNION {GroupsIn(f[m]) : m \in R} \subseteq GroupsIn(s)
    BY <1>6 DEF Portion
  <2> QED BY <2>1
<1>10. \A g : g \in HeadsIn(s) <=> \E m \in R : g \in HeadsIn(f[m])
  <2> HIDE DEF f, R, inside
  <2>1. HeadsIn(s) = UNION {HeadsIn(f[m]) : m \in R}
    BY <1>6 DEF Portion
  <2> QED BY <2>1
<1>11. HeadsIn(s) = GroupsIn(s)
  <2> HIDE DEF f, R, inside
  <2>1. \A g : g \in HeadsIn(s) <=> g \in GroupsIn(s)
    BY <1>8, <1>9, <1>10
  <2> QED BY <2>1
<1>12. Sound(s, inside, {}) /\ AnchorsIn(s) = {}
  BY <1>6 DEF Portion
<1> HIDE DEF f
<1> QED BY <1>7, <1>8, <1>9, <1>11, <1>12

-----------------------------------------------------------------------------
(* Margins, parts and notes.                                               *)

\* Where a margin begins or ends, something new begins.
Bordered(s) ==
  /\ IsSequence(s)
  /\ \A i \in DOMAIN s \ {1} : Marginal(s[i - 1]) # Marginal(s[i]) => s[i].type = "SEPARATOR" /\ ~s[i].sectionBreak

BeginsAnew(s) == s # <<>> => s[1].type = "SEPARATOR" /\ ~s[1].sectionBreak

\* So it is if what follows begins with something new.
LEMMA JoinedIsBordered ==
  ASSUME NEW s, Bordered(s), NEW t, Bordered(t), BeginsAnew(t)
  PROVE  Bordered(s \o t)
<1> DEFINE m == Len(s)
           n == Len(t)
           st == s \o t
<1>1. IsSequence(s) /\ IsSequence(t)
  BY DEF Bordered
<1>2. /\ IsSequence(st) /\ m \in Nat /\ n \in Nat /\ DOMAIN s = 1..m /\ DOMAIN t = 1..n /\ DOMAIN st = 1..(m + n)
      /\ \A i \in 1..m : st[i] = s[i]
      /\ \A i \in (m + 1)..(m + n) : i - m \in 1..n /\ st[i] = t[i - m]
  BY <1>1, JoinedPositions
<1> HIDE DEF m, n, st
<1>3. ASSUME NEW i \in DOMAIN st \ {1}, Marginal(st[i - 1]) # Marginal(st[i])
      PROVE  st[i].type = "SEPARATOR" /\ ~st[i].sectionBreak
  <2>1. i \in 1..(m + n) /\ i # 1
    BY <1>2
  <2>2. CASE i <= m
    <3>1. i \in 1..m /\ i - 1 \in 1..m
      BY <1>2, <2>1, <2>2
    <3>2. st[i] = s[i] /\ st[i - 1] = s[i - 1]
      BY <1>2, <3>1
    <3> QED BY <1>2, <1>3, <2>1, <3>1, <3>2 DEF Bordered
  <2>3. CASE i = m + 1
    <3>1. i \in (m + 1)..(m + n) /\ i - m = 1 /\ 1 \in 1..n
      BY <1>2, <2>1, <2>3
    <3>2. st[i] = t[1] /\ t # <<>>
      BY <1>2, <3>1
    <3> QED BY <3>2 DEF BeginsAnew
  <2>4. CASE i > m + 1
    <3>1. i \in (m + 1)..(m + n) /\ i - 1 \in (m + 1)..(m + n) /\ (i - 1) - m = (i - m) - 1 /\ i - m # 1
      BY <1>2, <2>1, <2>4
    <3>2. st[i] = t[i - m] /\ st[i - 1] = t[(i - m) - 1] /\ i - m \in 1..n
      BY <1>2, <3>1
    <3> QED BY <1>2, <1>3, <3>1, <3>2 DEF Bordered
  <2> QED BY <1>2, <2>1, <2>2, <2>3, <2>4
<1>4. Bordered(st)
  BY <1>2, <1>3 DEF Bordered
<1> QED BY <1>4 DEF st

\* And if each of many sequences begins with something new.
LEMMA LaidIsBordered ==
  ASSUME NEW n \in Nat, NEW seqs, seqs = [i \in 1..n |-> seqs[i]],
         \A i \in 1..n : Bordered(seqs[i]), \A i \in 2..n : BeginsAnew(seqs[i])
  PROVE  Bordered(FlattenSeq(seqs))
<1> DEFINE E == UNION {ToSet(seqs[i]) : i \in 1..n}
<1>1. \A i \in 1..n : seqs[i] \in Seq(E)
  <2> SUFFICES ASSUME NEW i \in 1..n PROVE seqs[i] \in Seq(E)
    OBVIOUS
  <2>1. IsSequence(seqs[i]) /\ ToSet(seqs[i]) \subseteq E
    BY DEF Bordered
  <2> HIDE DEF E
  <2> QED BY <2>1, SequenceOver
<1>2. seqs \in Seq(Seq(E)) /\ Len(seqs) = n
  <2> HIDE DEF E
  <2> QED BY <1>1
<1> HIDE DEF E
<1>3. CASE n = 0
  <2>1. FlattenSeq(seqs) = <<>>
    BY <1>2, <1>3 DEF FlattenSeq
  <2> QED BY <2>1, NothingIsSound DEF Bordered, Sound
<1>4. CASE n # 0
  <2>1. PICK flat \in [1..n -> Seq(E)] :
          /\ \A i \in 1..n : flat[i] = IF i = 1 THEN seqs[i] ELSE flat[i - 1] \o seqs[i]
          /\ FlattenSeq(seqs) = flat[n]
    <3>1. seqs \in Seq(Seq(E)) /\ Len(seqs) # 0
      BY <1>2, <1>4
    <3>2. \E flat \in [1..Len(seqs) -> Seq(E)] :
            /\ \A i \in 1..Len(seqs) : flat[i] = IF i = 1 THEN seqs[i] ELSE flat[i - 1] \o seqs[i]
            /\ FlattenSeq(seqs) = flat[Len(seqs)]
      BY <3>1, Flattening
    <3> QED BY <1>2, <3>2
  <2> DEFINE G == {i \in 1..n : Bordered(flat[i])}
  <2>2. 1 \in G
    <3>1. 1 \in 1..n /\ flat[1] = seqs[1]
      BY <1>4, <2>1
    <3> QED BY <3>1
  <2>3. ASSUME NEW i \in 1..(n - 1), i \in G PROVE i + 1 \in G
    <3>1. i + 1 \in 1..n /\ i + 1 \in 2..n /\ i + 1 # 1 /\ (i + 1) - 1 = i
      OBVIOUS
    <3>2. flat[i + 1] = flat[i] \o seqs[i + 1]
      BY <2>1, <3>1
    <3>3. Bordered(flat[i]) /\ Bordered(seqs[i + 1]) /\ BeginsAnew(seqs[i + 1])
      BY <2>3, <3>1
    <3>4. Bordered(flat[i + 1])
      BY <3>2, <3>3, JoinedIsBordered
    <3> QED BY <3>1, <3>4
  <2> HIDE DEF G
  <2>4. Inductive(1, n, G)
    BY <2>2, <2>3 DEF Inductive
  <2>5. \A i \in 1..n : i \in G
    <3>1. 1 \in Int /\ n \in Int
      OBVIOUS
    <3> QED BY <3>1, <2>4, UpTo
  <2>6. n \in 1..n
    BY <1>4
  <2> QED BY <2>1, <2>5, <2>6 DEF G
<1> QED BY <1>3, <1>4

\* Entries that have different names still have in what is taken of them.
Named(s, name) == IsSequence(s) /\ \A i, j \in DOMAIN s : i # j => name[s[i]] # name[s[j]]

\* What is taken of named entries is named.
LEMMA EntriesAreNamed ==
  ASSUME NEW s, NEW name, Named(s, name), NEW T
  PROVE  Named(Entries(s, T), name)
<1> DEFINE n == Len(s)
           E == ToSet(s)
           seqs == [i \in DOMAIN s |-> IF i \in T THEN <<s[i]>> ELSE <<>>]
<1>1. IsSequence(s) /\ n \in Nat /\ DOMAIN s = 1..n /\ \A i \in 1..n : s[i] \in E
  BY SequenceDomain DEF Named
<1>2. seqs \in Seq(Seq(E)) /\ Len(seqs) = n /\ \A i \in 1..n : seqs[i] = IF i \in T THEN <<s[i]>> ELSE <<>>
  <2>1. \A i \in 1..n : seqs[i] = (IF i \in T THEN <<s[i]>> ELSE <<>>) /\ seqs[i] \in Seq(E)
    <3> HIDE DEF E
    <3> QED BY <1>1
  <2>2. seqs = [i \in 1..n |-> seqs[i]]
    BY <1>1
  <2> HIDE DEF seqs, E
  <2> QED BY <1>1, <2>1, <2>2
<1>3. Entries(s, T) = FlattenSeq(seqs)
  BY DEF Entries
<1> HIDE DEF seqs, E, n
<1>4. CASE n = 0
  <2>1. FlattenSeq(seqs) = <<>>
    BY <1>2, <1>4 DEF FlattenSeq
  <2>2. IsSequence(<<>>) /\ DOMAIN <<>> = {}
    BY NothingIsSound DEF Sound
  <2> QED BY <1>3, <2>1, <2>2 DEF Named
<1>5. CASE n # 0
  <2>1. PICK flat \in [1..n -> Seq(E)] :
          /\ \A i \in 1..n : flat[i] = IF i = 1 THEN seqs[i] ELSE flat[i - 1] \o seqs[i]
          /\ FlattenSeq(seqs) = flat[n]
    <3>1. seqs \in Seq(Seq(E)) /\ Len(seqs) # 0
      BY <1>2, <1>5
    <3>2. \E flat \in [1..Len(seqs) -> Seq(E)] :
            /\ \A i \in 1..Len(seqs) : flat[i] = IF i = 1 THEN seqs[i] ELSE flat[i - 1] \o seqs[i]
            /\ FlattenSeq(seqs) = flat[Len(seqs)]
      BY <3>1, Flattening
    <3> QED BY <1>2, <3>2
  <2> DEFINE Taken(i) == \A x \in DOMAIN flat[i] : \E j \in 1..i : flat[i][x] = s[j]
             G == {i \in 1..n : Named(flat[i], name) /\ Taken(i)}
  <2>2. \A i \in 1..n : Named(seqs[i], name) /\ \A x \in DOMAIN seqs[i] : seqs[i][x] = s[i]
    <3> SUFFICES ASSUME NEW i \in 1..n PROVE Named(seqs[i], name) /\ \A x \in DOMAIN seqs[i] : seqs[i][x] = s[i]
      OBVIOUS
    <3>1. CASE i \in T
      <4>1. seqs[i] = <<s[i]>> /\ DOMAIN <<s[i]>> = {1} /\ <<s[i]>>[1] = s[i]
        BY <1>2, <3>1
      <4>2. IsSequence(<<s[i]>>)
        <5>1. <<s[i]>> = [k \in 1..1 |-> s[i]]
          OBVIOUS
        <5> QED BY <5>1, IsSequenceTo
      <4> QED BY <4>1, <4>2 DEF Named
    <3>2. CASE i \notin T
      <4>1. seqs[i] = <<>> /\ DOMAIN <<>> = {} /\ IsSequence(<<>>)
        BY <1>2, <3>2, NothingIsSound DEF Sound
      <4> QED BY <4>1 DEF Named
    <3> QED BY <3>1, <3>2
  <2>3. 1 \in G
    <3>1. 1 \in 1..n
      BY <1>1, <1>5
    <3>2. 1 \in 1..1
      OBVIOUS
    <3>3. flat[1] = IF 1 = 1 THEN seqs[1] ELSE flat[1 - 1] \o seqs[1]
      BY <2>1, <3>1
    <3>4. flat[1] = seqs[1]
      BY <3>3
    <3> QED BY <2>2, <3>1, <3>2, <3>4
  <2>4. ASSUME NEW i \in 1..(n - 1), i \in G PROVE i + 1 \in G
    <3> DEFINE a == flat[i]
               more == seqs[i + 1]
               ab == a \o more
    <3>1. i + 1 \in 1..n /\ i + 1 # 1 /\ (i + 1) - 1 = i /\ i \in 1..n
      BY <1>1
    <3>2. flat[i + 1] = ab
      BY <2>1, <3>1
    <3>3. Named(a, name) /\ Named(more, name) /\ Taken(i) /\ \A x \in DOMAIN more : more[x] = s[i + 1]
      BY <2>2, <2>4, <3>1
    <3>4. /\ IsSequence(ab) /\ Len(a) \in Nat /\ Len(more) \in Nat /\ DOMAIN a = 1..Len(a) /\ DOMAIN more = 1..Len(more)
          /\ DOMAIN ab = 1..(Len(a) + Len(more)) /\ \A x \in 1..Len(a) : ab[x] = a[x]
          /\ \A x \in (Len(a) + 1)..(Len(a) + Len(more)) : x - Len(a) \in 1..Len(more) /\ ab[x] = more[x - Len(a)]
      <4>1. IsSequence(a) /\ IsSequence(more)
        BY <3>3 DEF Named
      <4> HIDE DEF a, more
      <4> QED BY <4>1, JoinedPositions
    <3>5. \A x \in 1..Len(a) : \E j \in 1..i : ab[x] = s[j]
      BY <3>3, <3>4
    <3> HIDE DEF a, more, ab
    <3>6. \A x \in (Len(a) + 1)..(Len(a) + Len(more)) : ab[x] = s[i + 1]
      BY <3>3, <3>4
    <3>7. \A x \in DOMAIN ab : x \in 1..Len(a) \/ x \in (Len(a) + 1)..(Len(a) + Len(more))
      BY <3>4
    <3>8. \A x \in DOMAIN ab : \E j \in 1..(i + 1) : ab[x] = s[j]
      <4> SUFFICES ASSUME NEW x \in DOMAIN ab PROVE \E j \in 1..(i + 1) : ab[x] = s[j]
        OBVIOUS
      <4>1. 1..i \subseteq 1..(i + 1) /\ i + 1 \in 1..(i + 1)
        BY <1>1
      <4> QED BY <3>5, <3>6, <3>7, <4>1
    <3>9. ASSUME NEW x \in DOMAIN ab, NEW y \in DOMAIN ab, x < y PROVE name[ab[x]] # name[ab[y]]
      <4>1. CASE x \in 1..Len(a) /\ y \in 1..Len(a)
        <5>1. x # y /\ ab[x] = a[x] /\ ab[y] = a[y]
          BY <3>4, <3>9, <4>1
        <5> QED BY <3>3, <3>4, <4>1, <5>1 DEF Named
      <4>2. CASE x \in 1..Len(a) /\ y \in (Len(a) + 1)..(Len(a) + Len(more))
        <5>1. PICK j \in 1..i : ab[x] = s[j]
          BY <3>5, <4>2
        <5>2. ab[y] = s[i + 1] /\ j # i + 1 /\ j \in DOMAIN s /\ i + 1 \in DOMAIN s
          BY <1>1, <3>1, <3>6, <4>2
        <5> QED BY <5>1, <5>2 DEF Named
      <4>3. CASE x \in (Len(a) + 1)..(Len(a) + Len(more)) /\ y \in (Len(a) + 1)..(Len(a) + Len(more))
        <5>1. x - Len(a) \in 1..Len(more) /\ y - Len(a) \in 1..Len(more) /\ x - Len(a) # y - Len(a)
          BY <3>4, <3>9, <4>3
        <5>2. ab[x] = more[x - Len(a)] /\ ab[y] = more[y - Len(a)]
          BY <3>4, <4>3
        <5> QED BY <3>3, <3>4, <5>1, <5>2 DEF Named
      <4>4. ~(x \in (Len(a) + 1)..(Len(a) + Len(more)) /\ y \in 1..Len(a))
        BY <3>4, <3>9
      <4> QED BY <3>7, <4>1, <4>2, <4>3, <4>4
    <3>10. Named(ab, name)
      <4>1. \A x, y \in DOMAIN ab : x # y => x < y \/ y < x
        BY <3>4
      <4> QED BY <3>4, <3>9, <4>1 DEF Named
    <3> QED BY <3>1, <3>2, <3>8, <3>10
  <2> HIDE DEF G
  <2>5. Inductive(1, n, G)
    BY <2>3, <2>4 DEF Inductive
  <2>6. \A i \in 1..n : i \in G
    <3>1. 1 \in Int /\ n \in Int
      BY <1>1
    <3> QED BY <3>1, <2>5, UpTo
  <2>7. n \in 1..n
    BY <1>1, <1>5
  <2> QED BY <1>3, <2>1, <2>6, <2>7 DEF G
<1> QED BY <1>4, <1>5

\* The parts that are read of a package, its notes, and what it makes of each part.
PartsOf(package) == <<BodyPart(package)>> \o HeadersRead(package)

NotesOf(package) ==
  LET notes == NotesRead(package)
  IN [k \in DOMAIN notes |-> NoteElement(notes[k])]

Piece(package, i) ==
  (IF i = 1 THEN <<>> ELSE <<Silent(PartsOf(package)[i], "SEPARATOR")>>)
  \o PartElements(package, PartsOf(package)[i])
  \o (IF i = 1 THEN NotesOf(package) ELSE <<>>)

InsideParts(package) == UNION {InsideOf(PartsOf(package)[i]) : i \in DOMAIN PartsOf(package)}

IsNote(e) ==
  /\ e = [f \in Fields |-> e[f]] /\ e.type = "FOOTNOTE" /\ e.source = "EXPLICIT" /\ e.evidence = None
  /\ e.group = None /\ e.parent = None /\ e.refs = {} /\ e.zone \notin {"header", "footer"}

\* The parts are trees that have different names, the body is the first of them, and
\* the others stand in margins.
LEMMA PartsAre ==
  ASSUME NEW package, IsPackage(package), NEW parts, parts = PartsOf(package)
  PROVE  /\ IsSequence(parts) /\ Len(parts) \in Nat /\ 1 \in 1..Len(parts) /\ DOMAIN parts = 1..Len(parts)
         /\ parts[1] = BodyPart(package)
         /\ \A i \in 1..Len(parts) :
              /\ IsTree(parts[i].nodes, package.policy.view) /\ parts[i].name \in {"document"} \cup STRING
              /\ i = 1 <=> ~(parts[i].zone \in {"header", "footer"})
         /\ \A i, j \in 1..Len(parts) : i # j => parts[i].name # parts[j].name
<1> DEFINE body == BodyPart(package)
           headers == HeadersRead(package)
           H == ToSet(package.headers)
           name == [h \in H |-> h.name]
<1>1. IsSequence(headers) /\ ToSet(headers) \subseteq H
  BY EntriesAreEntries DEF IsPackage, HeadersRead
<1>2. Named(headers, name)
  <2>1. Named(package.headers, name)
    <3>1. IsSequence(package.headers)
      BY DEF IsPackage
    <3>2. \A i \in DOMAIN package.headers : package.headers[i] \in H
      BY <3>1, SequenceDomain
    <3>3. \A i \in DOMAIN package.headers : name[package.headers[i]] = package.headers[i].name
      BY <3>2
    <3>4. \A i, j \in DOMAIN package.headers : i # j => package.headers[i].name # package.headers[j].name
      BY DEF IsPackage
    <3> HIDE DEF name
    <3> QED BY <3>1, <3>3, <3>4 DEF Named
  <2> HIDE DEF name
  <2> QED BY <2>1, EntriesAreNamed DEF HeadersRead
<1>3. \A h \in H : /\ IsTree(h.nodes, package.policy.view) /\ h.name \in STRING /\ h.name # body.name
                   /\ h.zone \in {"header", "footer"}
  BY DEF IsPackage
<1>4. IsTree(body.nodes, package.policy.view) /\ body.name = "document" /\ body.zone = "body"
  BY DEF IsPackage, BodyPart
<1>5. \A i \in DOMAIN headers : headers[i] \in H /\ name[headers[i]] = headers[i].name
  <2>1. \A i \in DOMAIN headers : headers[i] \in H
    BY <1>1, SequenceDomain
  <2> HIDE DEF H, headers
  <2> QED BY <2>1
<1>6. IsSequence(<<body>>) /\ Len(<<body>>) = 1 /\ <<body>>[1] = body
  <2> HIDE DEF body
  <2>1. <<body>> = [k \in 1..1 |-> body]
    OBVIOUS
  <2> QED BY <2>1, IsSequenceTo
<1> HIDE DEF body, headers, H, name
<1>7. /\ IsSequence(parts) /\ Len(headers) \in Nat /\ Len(parts) = 1 + Len(headers) /\ DOMAIN headers = 1..Len(headers)
      /\ DOMAIN parts = 1..(1 + Len(headers)) /\ parts[1] = body
      /\ \A i \in 2..(1 + Len(headers)) : i - 1 \in 1..Len(headers) /\ parts[i] = headers[i - 1]
  <2> DEFINE first == <<body>>
             m == Len(headers)
  <2>1. parts = first \o headers
    BY DEF PartsOf, body, headers
  <2>2. IsSequence(first) /\ Len(first) = 1 /\ first[1] = body
    BY <1>6
  <2> HIDE DEF first
  <2>3. /\ IsSequence(first \o headers) /\ Len(headers) \in Nat /\ Len(first \o headers) = Len(first) + Len(headers)
        /\ DOMAIN headers = 1..Len(headers) /\ DOMAIN (first \o headers) = 1..(Len(first) + Len(headers))
        /\ \A i \in 1..Len(first) : (first \o headers)[i] = first[i]
        /\ \A i \in (Len(first) + 1)..(Len(first) + Len(headers)) :
             i - Len(first) \in 1..Len(headers) /\ (first \o headers)[i] = headers[i - Len(first)]
    BY ONLY <1>1, <2>2, JoinedPositions
  <2>4. /\ IsSequence(parts) /\ m \in Nat /\ Len(parts) = 1 + m
        /\ DOMAIN headers = 1..m /\ DOMAIN parts = 1..(1 + m)
        /\ \A i \in 1..1 : parts[i] = first[i]
        /\ \A i \in (1 + 1)..(1 + m) : i - 1 \in 1..m /\ parts[i] = headers[i - 1]
    BY <2>1, <2>2, <2>3
  <2> HIDE DEF m
  <2>5. 1 \in 1..1 /\ 1 + 1 = 2
    OBVIOUS
  <2>6. parts[1] = body
    BY <2>2, <2>4, <2>5
  <2> QED BY <2>4, <2>5, <2>6 DEF m
<1>8. \A i \in 1..Len(parts) : i = 1 \/ i \in 2..(1 + Len(headers))
  BY <1>7
<1>9. \A i \in 2..(1 + Len(headers)) : parts[i] \in H /\ name[parts[i]] = parts[i].name
  BY <1>5, <1>7
<1>10. ASSUME NEW i \in 1..Len(parts)
       PROVE  /\ IsTree(parts[i].nodes, package.policy.view) /\ parts[i].name \in {"document"} \cup STRING
              /\ i = 1 <=> ~(parts[i].zone \in {"header", "footer"})
  <2>1. CASE i = 1
    BY <1>4, <1>7, <2>1
  <2>2. CASE i \in 2..(1 + Len(headers))
    <3>1. parts[i] \in H /\ i # 1
      BY <1>7, <1>9, <2>2
    <3> QED BY <1>3, <3>1
  <2> QED BY <1>8, <2>1, <2>2
<1>11. ASSUME NEW i \in 1..Len(parts), NEW j \in 1..Len(parts), i # j PROVE parts[i].name # parts[j].name
  <2>1. CASE i = 1 /\ j \in 2..(1 + Len(headers))
    BY <1>3, <1>7, <1>9, <2>1
  <2>2. CASE j = 1 /\ i \in 2..(1 + Len(headers))
    BY <1>3, <1>7, <1>9, <2>2
  <2>3. CASE i \in 2..(1 + Len(headers)) /\ j \in 2..(1 + Len(headers))
    <3>1. /\ i - 1 \in DOMAIN headers /\ j - 1 \in DOMAIN headers /\ i - 1 # j - 1
          /\ parts[i] = headers[i - 1] /\ parts[j] = headers[j - 1]
      BY <1>7, <1>11, <2>3
    <3>2. name[headers[i - 1]] # name[headers[j - 1]]
      BY <1>2, <3>1 DEF Named
    <3> QED BY <1>9, <2>3, <3>1, <3>2
  <2> QED BY <1>8, <1>11, <2>1, <2>2, <2>3
<1>12. Len(parts) \in Nat /\ 1 \in 1..Len(parts)
  BY <1>7
<1> QED BY <1>7, <1>10, <1>11, <1>12 DEF body

\* No note is read twice, and notes are no parts of tables.
LEMMA NotesAre ==
  ASSUME NEW package, IsPackage(package), ~RepeatsNote(package), NEW inside, NEW open, NEW s, s = NotesOf(package)
  PROVE  /\ Sound(s, inside, open) /\ GroupsIn(s) = {} /\ HeadsIn(s) = {}
         /\ \A e \in ToSet(s) : IsNote(e)
<1> DEFINE notes == NotesRead(package)
<1>1. IsSequence(notes) /\ ToSet(notes) \subseteq ToSet(package.notes)
  BY EntriesAreEntries DEF IsPackage, NotesRead
<1>2. Len(notes) \in Nat /\ DOMAIN notes = 1..Len(notes) /\ \A k \in 1..Len(notes) : notes[k] \in ToSet(package.notes)
  BY <1>1, SequenceDomain
<1>3. \A i, j \in 1..Len(notes) : i # j => <<notes[i].kind, notes[i].id>> # <<notes[j].kind, notes[j].id>>
  BY <1>2 DEF RepeatsNote
<1>4. \A note \in ToSet(package.notes) : note.kind \in {"footnote", "endnote", "comment"}
  BY DEF IsPackage, PageNotes
<1> HIDE DEF notes
<1>5. s = [k \in 1..Len(notes) |-> NoteElement(notes[k])]
  BY <1>2 DEF NotesOf, notes
<1>6. IsSequence(s) /\ Len(s) = Len(notes) /\ DOMAIN s = 1..Len(notes) /\ ToSet(s) = {s[k] : k \in 1..Len(notes)}
  <2>1. s = [k \in 1..Len(notes) |-> s[k]]
    BY <1>5
  <2> QED BY <1>2, <2>1, IsSequenceTo
<1>7. \A note : note.kind \in {"footnote", "endnote", "comment"} =>
        IsNote(NoteElement(note)) /\ NoteElement(note).anchor = <<note.kind, note.id>>
  <2> SUFFICES ASSUME NEW note, note.kind \in {"footnote", "endnote", "comment"}
               PROVE  IsNote(NoteElement(note)) /\ NoteElement(note).anchor = <<note.kind, note.id>>
    OBVIOUS
  <2> DEFINE zoned == InPart([name |-> note.kind, zone |-> note.kind])
             e == [zoned EXCEPT !.type = "FOOTNOTE", !.anchor = <<note.kind, note.id>>, !.blank = note.blank]
  <2>1. /\ zoned = [f \in Fields |-> zoned[f]] /\ zoned.evidence = None /\ zoned.source = "EXPLICIT"
        /\ zoned.group = None /\ zoned.parent = None /\ zoned.refs = {} /\ zoned.zone = note.kind
    <3>1. zoned = [f \in Fields |-> zoned[f]] /\ zoned.evidence = None
      BY ZonedAreElements
    <3>2. /\ zoned.source = "EXPLICIT" /\ zoned.group = None /\ zoned.parent = None /\ zoned.refs = {}
          /\ zoned.zone = note.kind
      BY DEF InPart, Plain
    <3> QED BY <3>1, <3>2
  <2> HIDE DEF zoned
  <2>2. /\ e = [f \in Fields |-> e[f]] /\ e.type = "FOOTNOTE" /\ e.source = "EXPLICIT" /\ e.evidence = None
        /\ e.group = None /\ e.parent = None /\ e.refs = {} /\ e.zone = note.kind /\ e.anchor = <<note.kind, note.id>>
    BY <2>1, PlainFields
  <2>3. NoteElement(note) = e
    BY DEF NoteElement, zoned
  <2> HIDE DEF e
  <2> QED BY <2>2, <2>3 DEF IsNote
<1>8. \A k \in 1..Len(notes) : IsNote(s[k]) /\ s[k].anchor = <<notes[k].kind, notes[k].id>> /\ ~Tabled(s[k]) /\ s[k].type # "TABLE"
  <2> SUFFICES ASSUME NEW k \in 1..Len(notes)
               PROVE  IsNote(s[k]) /\ s[k].anchor = <<notes[k].kind, notes[k].id>> /\ ~Tabled(s[k]) /\ s[k].type # "TABLE"
    OBVIOUS
  <2>1. s[k] = NoteElement(notes[k]) /\ notes[k].kind \in {"footnote", "endnote", "comment"}
    BY <1>2, <1>4, <1>5
  <2>2. IsNote(s[k]) /\ s[k].anchor = <<notes[k].kind, notes[k].id>>
    BY <1>7, <2>1
  <2> QED BY <2>2 DEF IsNote, Tabled, TableTypes
<1>9. \A e \in ToSet(s) : IsNote(e) /\ ~Tabled(e) /\ e.type # "TABLE"
  BY <1>6, <1>8
<1>10. GroupsIn(s) = {} /\ HeadsIn(s) = {}
  BY <1>9 DEF GroupsIn, HeadsIn
<1>11. \A i, k \in DOMAIN s : i # k => s[i].anchor # s[k].anchor
  BY <1>3, <1>6, <1>8
<1>12. Sound(s, inside, open)
  BY <1>6, <1>8, <1>11 DEF Sound
<1> QED BY <1>9, <1>10, <1>12

\* What is sound stays so if more is inside of tables.
LEMMA SoundInMore ==
  ASSUME NEW s, NEW inside, NEW open, Sound(s, inside, open), NEW more, inside \subseteq more
  PROVE  Sound(s, more, open)
BY DEF Sound

\* The groups of a part are those of its tables.
LEMMA GroupsOfPart ==
  ASSUME NEW part, NEW s, \A e \in ToSet(s) : IsPartElement(part, e), NEW g \in GroupsIn(s)
  PROVE  g[2] = part.name /\ \E m \in DOMAIN part.nodes : g = GroupOf(part, m)
<1>1. PICK e \in ToSet(s) : Tabled(e) /\ g = e.group
  BY DEF GroupsIn
<1>2. ~IsText(part.zone, e)
  BY <1>1 DEF IsText, Tabled
<1>3. PICK m \in DOMAIN part.nodes, type \in TableTypes : IsOfTable(part, m, type, e)
  BY <1>1, <1>2 DEF IsPartElement
<1>4. g = GroupOf(part, m)
  BY <1>1, <1>3 DEF IsOfTable
<1> QED BY <1>4 DEF GroupOf

\* What a part of the package becomes: its blocks, after a separator if it is a
\* margin and before the notes if it is the body.
LEMMA PieceIs ==
  ASSUME NEW package, IsPackage(package), ~RepeatsNote(package), NEW parts, parts = PartsOf(package),
         NEW i \in 1..Len(parts), NEW s, s = Piece(package, i), NEW p, p = PartElements(package, parts[i])
  PROVE  /\ Sound(s, InsideParts(package), {}) /\ GroupsIn(s) = GroupsIn(p) /\ HeadsIn(s) = GroupsIn(p)
         /\ i # 1 => AnchorsIn(s) = {} /\ BeginsAnew(s)
         /\ \A e \in ToSet(s) : IsPartElement(parts[i], e) \/ IsNote(e)
         /\ Bordered(s)
<1> DEFINE inside == InsideParts(package)
           part == parts[i]
           zone == part.zone
           mark == Silent(part, "SEPARATOR")
           head == IF i = 1 THEN <<>> ELSE <<mark>>
           tail == IF i = 1 THEN NotesOf(package) ELSE <<>>
           Q(t) == Sound(t, inside, {}) /\ HeadsIn(t) = GroupsIn(t)
           In(t) == \A e \in ToSet(t) : IF i = 1 THEN ~Marginal(e) ELSE Marginal(e)
           Of(t) == \A e \in ToSet(t) : IsPartElement(part, e) \/ IsNote(e)
<1>1. /\ Len(parts) \in Nat /\ DOMAIN parts = 1..Len(parts) /\ IsTree(part.nodes, package.policy.view)
      /\ i = 1 <=> ~(zone \in {"header", "footer"})
  BY PartsAre
<1>2. InsideOf(part) \subseteq inside
  BY <1>1 DEF InsideParts
<1>3. /\ Sound(p, InsideOf(part), {}) /\ HeadsIn(p) = GroupsIn(p) /\ AnchorsIn(p) = {}
      /\ \A e \in ToSet(p) : IsPartElement(part, e)
  BY <1>1, PartIsSound
<1>4. Q(p) /\ Of(p)
  BY <1>2, <1>3, SoundInMore
<1>5. \A e : IsText(zone, e) => Sound(<<e>>, inside, {}) /\ ToSet(<<e>>) = {e} /\ GroupsIn(<<e>>) = {} /\ HeadsIn(<<e>>) = {} /\ AnchorsIn(<<e>>) = {}
  <2> SUFFICES ASSUME NEW e, IsText(zone, e)
               PROVE  Sound(<<e>>, inside, {}) /\ ToSet(<<e>>) = {e} /\ GroupsIn(<<e>>) = {} /\ HeadsIn(<<e>>) = {} /\ AnchorsIn(<<e>>) = {}
    OBVIOUS
  <2>1. ~Tabled(e) /\ e.type # "TABLE" /\ e.anchor = None
    BY DEF IsText, Tabled, TableTypes
  <2>2. Sound(<<e>>, inside, {}) /\ ToSet(<<e>>) = {e}
    BY <2>1, OneIsSound
  <2> HIDE DEF inside
  <2> QED BY <2>1, <2>2 DEF GroupsIn, HeadsIn, AnchorsIn
<1>6. IsText(zone, mark) /\ mark.type = "SEPARATOR" /\ ~mark.sectionBreak
  <2>1. IsText(zone, mark)
    BY ZonedIsText
  <2>2. mark.type = "SEPARATOR" /\ mark.sectionBreak = FALSE
    BY DEF Silent, InPart, Plain
  <2> QED BY <2>1, <2>2
<1>7. Q(head) /\ GroupsIn(head) = {} /\ AnchorsIn(head) = {} /\ Of(head) /\ (i # 1 => head = <<mark>>)
  <2>1. CASE i = 1
    BY <2>1, NothingIsSound
  <2>2. CASE i # 1
    <3>1. head = <<mark>> /\ IsText(zone, mark)
      BY <1>6, <2>2
    <3> HIDE DEF head, mark, inside
    <3>2. Of(head)
      BY <1>5, <3>1 DEF IsPartElement
    <3> QED BY <1>5, <3>1, <3>2
  <2> QED BY <2>1, <2>2
<1>8. Q(tail) /\ GroupsIn(tail) = {} /\ Of(tail) /\ (i # 1 => tail = <<>> /\ AnchorsIn(tail) = {})
  <2>1. CASE i = 1
    <3>1. tail = NotesOf(package)
      BY <2>1
    <3>2. Sound(tail, inside, {}) /\ GroupsIn(tail) = {} /\ HeadsIn(tail) = {} /\ \A e \in ToSet(tail) : IsNote(e)
      BY <3>1, NotesAre
    <3> HIDE DEF tail, inside
    <3> QED BY <2>1, <3>2
  <2>2. CASE i # 1
    BY <2>2, NothingIsSound
  <2> QED BY <2>1, <2>2
<1>9. s = head \o p \o tail
  BY DEF Piece
<1> HIDE DEF head, tail, mark, inside, part, zone
<1> DEFINE most == head \o p
<1>10. /\ Q(most) /\ GroupsIn(most) = GroupsIn(p) /\ AnchorsIn(most) = {} /\ Of(most)
       /\ IsSequence(head) /\ IsSequence(p) /\ IsSequence(most)
  <2>1. IsSequence(head) /\ IsSequence(p)
    BY <1>4, <1>7 DEF Sound
  <2>2. Unshared(head, p, {})
    BY <1>7 DEF Unshared
  <2>3. Sound(most, inside, {})
    BY <1>4, <1>7, <2>2, JoinedIsSound
  <2>4. /\ GroupsIn(most) = GroupsIn(head) \cup GroupsIn(p) /\ HeadsIn(most) = HeadsIn(head) \cup HeadsIn(p)
        /\ AnchorsIn(most) = AnchorsIn(head) \cup AnchorsIn(p)
    BY <2>1, JoinedHold
  <2>5. IsSequence(most) /\ ToSet(most) = ToSet(head) \cup ToSet(p)
    BY <2>1, JoinedPositions
  <2> HIDE DEF most
  <2> QED BY <1>3, <1>4, <1>7, <2>1, <2>3, <2>4, <2>5
<1> HIDE DEF most
<1>11. /\ Q(s) /\ GroupsIn(s) = GroupsIn(p) /\ Of(s) /\ (i # 1 => AnchorsIn(s) = {}) /\ IsSequence(s)
  <2>1. IsSequence(tail) /\ s = most \o tail
    BY <1>8, <1>9 DEF Sound, most
  <2>2. Unshared(most, tail, {})
    <3>1. AnchorsIn(most) = {} /\ GroupsIn(tail) = {} /\ HeadsIn(tail) = {}
      BY <1>8, <1>10
    <3> QED BY <3>1 DEF Unshared
  <2>3. Sound(s, inside, {})
    BY <1>8, <1>10, <2>1, <2>2, JoinedIsSound
  <2>4. /\ GroupsIn(s) = GroupsIn(most) \cup GroupsIn(tail) /\ HeadsIn(s) = HeadsIn(most) \cup HeadsIn(tail)
        /\ AnchorsIn(s) = AnchorsIn(most) \cup AnchorsIn(tail)
    <3>1. IsSequence(most)
      BY <1>10
    <3>2. /\ GroupsIn(most \o tail) = GroupsIn(most) \cup GroupsIn(tail) /\ HeadsIn(most \o tail) = HeadsIn(most) \cup HeadsIn(tail)
          /\ AnchorsIn(most \o tail) = AnchorsIn(most) \cup AnchorsIn(tail)
      BY ONLY <2>1, <3>1, JoinedHold
    <3> QED BY <2>1, <3>2
  <2>5. IsSequence(s) /\ ToSet(s) = ToSet(most) \cup ToSet(tail)
    BY <1>10, <2>1, JoinedPositions
  <2> QED BY <1>8, <1>10, <2>3, <2>4, <2>5
<1>12. i # 1 => BeginsAnew(s)
  <2> SUFFICES ASSUME i # 1 PROVE s[1].type = "SEPARATOR" /\ ~s[1].sectionBreak
    BY DEF BeginsAnew
  <2>1. head = <<mark>> /\ Len(head) = 1 /\ head[1] = mark
    BY <1>7
  <2>2. most[1] = head[1] /\ Len(most) \in Nat /\ 1 \in 1..Len(most)
    <3>1. /\ Len(head) \in Nat /\ Len(p) \in Nat /\ Len(most) = Len(head) + Len(p)
          /\ \A k \in 1..Len(head) : most[k] = head[k]
      BY <1>10, JoinedPositions DEF most
    <3>2. 1 \in 1..Len(head)
      BY <2>1
    <3> QED BY <2>1, <3>1, <3>2
  <2>3. s[1] = most[1]
    <3>1. s = most \o tail /\ IsSequence(most) /\ IsSequence(tail)
      BY <1>8, <1>9, <1>10 DEF Sound, most
    <3>2. \A k \in 1..Len(most) : s[k] = most[k]
      BY <3>1, JoinedPositions
    <3> QED BY <2>2, <3>2
  <2> QED BY <1>6, <2>1, <2>2, <2>3
<1>13. In(s)
  <2> SUFFICES ASSUME NEW e \in ToSet(s) PROVE IF i = 1 THEN ~Marginal(e) ELSE Marginal(e)
    OBVIOUS
  <2>1. IsPartElement(part, e) => e.zone = zone
    BY DEF IsPartElement, IsText, IsOfTable, zone
  <2>2. IsNote(e) => ~Marginal(e) /\ i = 1
    <3>1. IsNote(e) => ~Marginal(e)
      BY DEF IsNote, Marginal
    <3>2. i # 1 => ~IsNote(e)
      <4> SUFFICES ASSUME i # 1, IsNote(e) PROVE FALSE
        OBVIOUS
      <4>1. ToSet(s) = ToSet(most) \cup ToSet(<<>>)
        <5>1. IsSequence(tail) /\ s = most \o tail /\ tail = <<>> /\ IsSequence(most)
          BY <1>8, <1>9, <1>10 DEF Sound, most
        <5>2. ToSet(most \o tail) = ToSet(most) \cup ToSet(tail)
          BY <5>1, JoinedPositions
        <5> QED BY <5>1, <5>2
      <4>2. ToSet(most) = ToSet(head) \cup ToSet(p) /\ head = <<mark>>
        BY <1>7, <1>10, JoinedPositions DEF most
      <4>3. ToSet(<<>>) = {} /\ ToSet(<<mark>>) = {mark}
        BY <1>5, <1>6, NothingIsSound
      <4>4. e = mark \/ e \in ToSet(p)
        BY <4>1, <4>2, <4>3
      <4>5. \A x : IsPartElement(part, x) => x.type # "FOOTNOTE"
        BY DEF IsPartElement, IsText, IsOfTable, TableTypes
      <4> QED BY <1>3, <1>6, <4>4, <4>5 DEF IsNote, part
    <3> QED BY <3>1, <3>2
  <2>3. IsPartElement(part, e) \/ IsNote(e)
    BY <1>11
  <2> QED BY <1>1, <2>1, <2>2, <2>3 DEF Marginal, zone, part
<1>14. Bordered(s)
  <2>1. Len(s) \in Nat /\ DOMAIN s = 1..Len(s) /\ \A k \in 1..Len(s) : s[k] \in ToSet(s)
    BY <1>11, SequenceDomain
  <2>2. \A k \in DOMAIN s \ {1} : k \in 1..Len(s) /\ k - 1 \in 1..Len(s)
    BY <2>1
  <2>3. \A k \in DOMAIN s \ {1} : Marginal(s[k - 1]) = Marginal(s[k])
    <3> SUFFICES ASSUME NEW k \in DOMAIN s \ {1} PROVE Marginal(s[k - 1]) = Marginal(s[k])
      OBVIOUS
    <3>1. s[k - 1] \in ToSet(s) /\ s[k] \in ToSet(s)
      BY <2>1, <2>2
    <3>2. Marginal(s[k]) \in BOOLEAN /\ Marginal(s[k - 1]) \in BOOLEAN
      BY DEF Marginal
    <3>3. IF i = 1 THEN ~Marginal(s[k]) /\ ~Marginal(s[k - 1]) ELSE Marginal(s[k]) /\ Marginal(s[k - 1])
      BY <1>13, <3>1
    <3> HIDE DEF In
    <3> QED BY <3>2, <3>3
  <2> QED BY <1>11, <2>3 DEF Bordered
<1>15. Sound(s, inside, {}) /\ GroupsIn(s) = GroupsIn(p) /\ HeadsIn(s) = GroupsIn(p) /\ Of(s)
  BY <1>11
<1> QED BY <1>11, <1>12, <1>14, <1>15 DEF inside, part

\* What is read of a package, before its lists are put together.
Observations(package) == FlattenSeq([i \in DOMAIN PartsOf(package) |-> Piece(package, i)])

\* The parts' names tell their tables apart.
LEMMA PartsApart ==
  ASSUME NEW package, IsPackage(package), NEW parts, parts = PartsOf(package),
         NEW i \in 1..Len(parts), NEW j \in 1..Len(parts), NEW m, NEW k, GroupOf(parts[i], m) = GroupOf(parts[j], k)
  PROVE  i = j /\ m = k
<1>1. parts[i].name = parts[j].name /\ m = k
  BY DEF GroupOf
<1> QED BY <1>1, PartsAre

\* No table is read twice, no two notes have the same anchor, and margins are apart.
LEMMA ObservationsAre ==
  ASSUME NEW package, IsPackage(package), ~RepeatsNote(package), NEW parts, parts = PartsOf(package),
         NEW u, u = Observations(package)
  PROVE  /\ Sound(u, InsideParts(package), {}) /\ Bordered(u)
         /\ \A e : e \in ToSet(u) <=> \E i \in 1..Len(parts) : e \in ToSet(Piece(package, i))
<1> DEFINE seqs == [i \in DOMAIN parts |-> Piece(package, i)]
           inside == InsideParts(package)
           n == Len(parts)
<1>1. n \in Nat /\ DOMAIN parts = 1..n
  BY PartsAre
<1>2. u = FlattenSeq(seqs) /\ seqs = [i \in 1..n |-> seqs[i]] /\ \A i \in 1..n : seqs[i] = Piece(package, i)
  BY <1>1 DEF Observations
<1>3. \A i \in 1..n : /\ Sound(Piece(package, i), inside, {}) /\ Bordered(Piece(package, i))
                      /\ HeadsIn(Piece(package, i)) = GroupsIn(Piece(package, i))
                      /\ i # 1 => AnchorsIn(Piece(package, i)) = {} /\ BeginsAnew(Piece(package, i))
                      /\ \A g \in GroupsIn(Piece(package, i)) : g[2] = parts[i].name
  <2> SUFFICES ASSUME NEW i \in 1..n
               PROVE  /\ Sound(Piece(package, i), inside, {}) /\ Bordered(Piece(package, i))
                      /\ HeadsIn(Piece(package, i)) = GroupsIn(Piece(package, i))
                      /\ i # 1 => AnchorsIn(Piece(package, i)) = {} /\ BeginsAnew(Piece(package, i))
                      /\ \A g \in GroupsIn(Piece(package, i)) : g[2] = parts[i].name
    OBVIOUS
  <2> DEFINE p == PartElements(package, parts[i])
             s == Piece(package, i)
  <2>1. /\ Sound(s, inside, {}) /\ GroupsIn(s) = GroupsIn(p) /\ HeadsIn(s) = GroupsIn(p)
        /\ i # 1 => AnchorsIn(s) = {} /\ BeginsAnew(s)
        /\ Bordered(s)
    BY PieceIs
  <2>2. \A e \in ToSet(p) : IsPartElement(parts[i], e)
    <3>1. IsTree(parts[i].nodes, package.policy.view)
      BY PartsAre
    <3> QED BY <3>1, PartIsSound
  <2>3. \A g \in GroupsIn(p) : g[2] = parts[i].name
    BY <2>2, GroupsOfPart
  <2> HIDE DEF p, s, inside
  <2>4. \A g \in GroupsIn(s) : g[2] = parts[i].name
    BY <2>1, <2>3
  <2> QED BY <2>1, <2>4 DEF s
<1>4. \A i, j \in 1..n : i # j => Unshared(Piece(package, i), Piece(package, j), {})
  <2> SUFFICES ASSUME NEW i \in 1..n, NEW j \in 1..n, i # j PROVE Unshared(Piece(package, i), Piece(package, j), {})
    OBVIOUS
  <2> DEFINE s == Piece(package, i)
             t == Piece(package, j)
  <2>1. parts[i].name # parts[j].name
    BY PartsAre
  <2>2. GroupsIn(s) \cap GroupsIn(t) = {}
    BY <1>3, <2>1
  <2>3. AnchorsIn(s) = {} \/ AnchorsIn(t) = {}
    BY <1>3
  <2>4. HeadsIn(s) = GroupsIn(s) /\ HeadsIn(t) = GroupsIn(t)
    BY <1>3
  <2> HIDE DEF s, t
  <2>5. Unshared(s, t, {})
    BY <2>2, <2>3, <2>4 DEF Unshared
  <2> QED BY <2>5 DEF s, t
<1> HIDE DEF seqs, inside, n
<1>5. \A i \in 1..n : Sound(seqs[i], inside, {}) /\ Bordered(seqs[i])
  BY <1>2, <1>3
<1>6. \A i, j \in 1..n : i # j => Unshared(seqs[i], seqs[j], {})
  BY <1>2, <1>4
<1>7. /\ Sound(FlattenSeq(seqs), inside, {})
      /\ \A e : e \in ToSet(FlattenSeq(seqs)) <=> \E i \in 1..n : e \in ToSet(seqs[i])
  BY ONLY <1>1, <1>2, <1>5, <1>6, LaidIsSound
<1>8. Bordered(FlattenSeq(seqs))
  <2>1. \A i \in 1..n : Bordered(seqs[i])
    BY <1>5
  <2>2. \A i \in 2..n : BeginsAnew(seqs[i])
    <3> SUFFICES ASSUME NEW i \in 2..n PROVE BeginsAnew(seqs[i])
      OBVIOUS
    <3>1. i \in 1..n /\ i # 1
      BY <1>1
    <3> QED BY <1>2, <1>3, <3>1
  <2>3. seqs = [i \in 1..n |-> seqs[i]]
    BY <1>2
  <2> QED BY ONLY <1>1, <2>1, <2>2, <2>3, LaidIsBordered
<1>9. \A e : e \in ToSet(u) <=> \E i \in 1..n : e \in ToSet(Piece(package, i))
  BY <1>2, <1>7
<1> QED BY <1>2, <1>7, <1>8, <1>9 DEF inside, n

\* What is observed is text, parts of tables and notes.
LEMMA ObservedIs ==
  ASSUME NEW package, IsPackage(package), ~RepeatsNote(package), NEW parts, parts = PartsOf(package),
         NEW u, u = Observations(package), NEW e \in ToSet(u)
  PROVE  \E i \in 1..Len(parts) : e \in ToSet(Piece(package, i)) /\ (IsPartElement(parts[i], e) \/ IsNote(e))
<1>1. PICK i \in 1..Len(parts) : e \in ToSet(Piece(package, i))
  BY ObservationsAre
<1>2. \A x \in ToSet(Piece(package, i)) : IsPartElement(parts[i], x) \/ IsNote(x)
  BY PieceIs
<1> QED BY <1>1, <1>2

\* Each table that is read is one, and so is the table that it stands in.
LEMMA TablesObserved ==
  ASSUME NEW package, IsPackage(package), ~RepeatsNote(package), NEW parts, parts = PartsOf(package),
         NEW u, u = Observations(package), NEW g \in GroupsIn(u)
  PROVE  \E i \in 1..Len(parts) : \E m \in DOMAIN parts[i].nodes :
           /\ g = GroupOf(parts[i], m) /\ parts[i].nodes[m].name = "tbl" /\ AreNodes(parts[i].nodes)
           /\ ParentOf(parts[i], m) # None => ParentOf(parts[i], m) \in GroupsIn(u)
<1>1. PICK e \in ToSet(u) : Tabled(e) /\ g = e.group
  BY DEF GroupsIn
<1>2. PICK i \in 1..Len(parts) : e \in ToSet(Piece(package, i))
  BY ObservationsAre
<1> DEFINE part == parts[i]
           nodes == part.nodes
           view == package.policy.view
           p == PartElements(package, part)
           s == Piece(package, i)
<1>3. IsTree(nodes, view) /\ AreNodes(nodes)
  <2>1. IsTree(nodes, view)
    BY PartsAre
  <2> QED BY <2>1 DEF IsTree, AreNodes
<1>4. GroupsIn(s) = GroupsIn(p)
  BY PieceIs
<1>5. /\ \A x \in ToSet(p) : IsPartElement(part, x)
      /\ \A h : h \in GroupsIn(p) <=> \E m \in Roots(nodes, view) : h \in GroupsIn(TableElements(view, part, m))
  <2>1. p = PartElements(package, part) /\ nodes = part.nodes /\ view = package.policy.view
    OBVIOUS
  <2> HIDE DEF p, part, nodes, view
  <2>2. IsTree(nodes, view)
    BY <1>3
  <2>3. \A x \in ToSet(p) : IsPartElement(part, x)
    BY ONLY <2>1, <2>2, PartIsSound
  <2>4. ASSUME NEW h PROVE h \in GroupsIn(p) <=> \E m \in Roots(nodes, view) : h \in GroupsIn(TableElements(view, part, m))
    BY ONLY <2>1, <2>2, PartIsSound
  <2> QED BY <2>3, <2>4
<1>6. \A h \in GroupsIn(s) : h \in GroupsIn(u)
  <2> SUFFICES ASSUME NEW h \in GroupsIn(s) PROVE h \in GroupsIn(u)
    OBVIOUS
  <2>1. PICK x \in ToSet(s) : Tabled(x) /\ h = x.group
    BY DEF GroupsIn
  <2>2. x \in ToSet(u)
    BY <2>1, ObservationsAre
  <2> QED BY <2>1, <2>2 DEF GroupsIn
<1>7. g \in GroupsIn(p)
  <2>1. g \in GroupsIn(s)
    BY <1>1, <1>2 DEF GroupsIn
  <2> QED BY <1>4, <2>1
<1>8. PICK r \in Roots(nodes, view) : g \in GroupsIn(TableElements(view, part, r))
  BY <1>5, <1>7
<1>9. r \in DOMAIN nodes /\ nodes[r].name = "tbl" /\ EnclosingOf(nodes, r) = {}
  <2>1. PICK n \in Blocks(nodes, view) : r \in RootsOf(nodes, view, n)
    BY DEF Roots
  <2> HIDE DEF nodes
  <2> QED BY <1>3, <2>1, RootsAre
<1>10. PICK m \in DOMAIN nodes : g = GroupOf(part, m)
  BY <1>5, <1>7, GroupsOfPart
<1>11. m \in Reads(view, part, r)
  BY <1>8, <1>10 DEF Reads
<1>12. IsReading(view, part, r)
  BY <1>3, <1>9, ReadingsAre
<1>13. nodes[m].name = "tbl"
  BY <1>11, <1>12 DEF IsReading
<1>14. ASSUME ParentOf(part, m) # None PROVE ParentOf(part, m) \in GroupsIn(u)
  <2>1. EnclosingOf(nodes, m) # {} /\ m # r
    BY <1>9, <1>14 DEF ParentOf
  <2>2. Max(EnclosingOf(nodes, m)) \in Reads(view, part, r)
    BY <1>11, <1>12, <2>1 DEF IsReading
  <2>3. ParentOf(part, m) = GroupOf(part, Max(EnclosingOf(nodes, m)))
    BY <2>1 DEF ParentOf
  <2>4. ParentOf(part, m) \in GroupsIn(TableElements(view, part, r))
    BY <2>2, <2>3 DEF Reads
  <2> QED BY <1>4, <1>5, <1>6, <2>4
<1> QED BY <1>3, <1>10, <1>13, <1>14

-----------------------------------------------------------------------------
(* Lists.                                                                  *)

\* Where the lists of a document begin, by the numbers in B: each item follows the one
\* before it, or begins a list.
BeginLists(n, items, B) ==
  /\ n \in Nat /\ items \subseteq 1..n /\ B \subseteq items
  /\ \A i \in items \ B : i > 1 /\ i - 1 \in items

FirstOf(B, i) == Max({j \in 1..i : j \in B})

\* Each item belongs to a list, and so does what stands between it and the first of the list.
LEMMA ItemsOfLists ==
  ASSUME NEW n, NEW items, NEW B, BeginLists(n, items, B), NEW k \in items
  PROVE  /\ FirstOf(B, k) \in B /\ FirstOf(B, k) \in 1..k
         /\ \A j \in FirstOf(B, k)..k : j \in items /\ FirstOf(B, j) = FirstOf(B, k)
<1> DEFINE T(j) == {x \in 1..j : x \in B}
           f == FirstOf(B, k)
<1>1. n \in Nat /\ k \in 1..n /\ \A i \in items \ B : i > 1 /\ i - 1 \in items
  BY DEF BeginLists
<1>2. T(k) # {}
  <2> SUFFICES ASSUME T(k) = {} PROVE FALSE
    OBVIOUS
  <2> DEFINE G == {x \in 1..k : (k + 1) - x \in items}
  <2>1. 1 \in G
    <3>1. 1 \in 1..k /\ (k + 1) - 1 = k
      BY <1>1
    <3> QED BY <3>1
  <2>2. ASSUME NEW x \in 1..(k - 1), x \in G PROVE x + 1 \in G
    <3>1. (k + 1) - x \in items /\ (k + 1) - x \in 1..k /\ (k + 1) - (x + 1) = ((k + 1) - x) - 1 /\ x + 1 \in 1..k
      BY <1>1, <2>2
    <3>2. (k + 1) - x \notin B
      BY <3>1
    <3> QED BY <1>1, <3>1, <3>2
  <2> HIDE DEF G
  <2>3. Inductive(1, k, G)
    BY <2>1, <2>2 DEF Inductive
  <2>4. \A x \in 1..k : x \in G
    <3>1. 1 \in Int /\ k \in Int
      BY <1>1
    <3> QED BY <2>3, <3>1, UpTo
  <2>5. k \in G
    BY <1>1, <2>4
  <2>6. 1 \in items
    <3>1. (k + 1) - k = 1
      BY <1>1
    <3> QED BY <2>5, <3>1 DEF G
  <2>7. 1 \notin B
    BY <1>1
  <2> QED BY <1>1, <2>6, <2>7
<1>3. \A j \in 1..n : T(j) # {} => Max(T(j)) \in T(j) /\ \A y \in T(j) : y <= Max(T(j))
  <2> SUFFICES ASSUME NEW j \in 1..n, T(j) # {} PROVE Max(T(j)) \in T(j) /\ \A y \in T(j) : y <= Max(T(j))
    OBVIOUS
  <2>1. T(j) \in SUBSET Int /\ j \in Int /\ \A x \in T(j) : x <= j
    BY <1>1
  <2> HIDE DEF T
  <2> QED BY <2>1, GreatestNumber
<1>4. \A j : FirstOf(B, j) = Max(T(j))
  BY DEF FirstOf
<1>5. f \in T(k) /\ \A y \in T(k) : y <= f
  BY <1>1, <1>2, <1>3, <1>4
<1>6. f \in B /\ f \in 1..k
  BY <1>5
<1> HIDE DEF f, T
<1>7. \A j \in f..k : j \in items
  <2> DEFINE m == (k - f) + 1
             G == {x \in 1..m : (k + 1) - x \in items}
  <2>1. 1 \in G /\ m \in Nat
    <3>1. 1 \in 1..m /\ (k + 1) - 1 = k /\ m \in Nat
      BY <1>1, <1>6
    <3> QED BY <3>1
  <2>2. ASSUME NEW x \in 1..(m - 1), x \in G PROVE x + 1 \in G
    <3>1. (k + 1) - x \in items /\ (k + 1) - x \in 1..k /\ (k + 1) - (x + 1) = ((k + 1) - x) - 1 /\ x + 1 \in 1..m /\ (k + 1) - x > f
      BY <1>1, <1>6, <2>2
    <3>2. (k + 1) - x \notin B
      <4> SUFFICES ASSUME (k + 1) - x \in B PROVE FALSE
        OBVIOUS
      <4>1. (k + 1) - x \in T(k)
        BY <3>1 DEF T
      <4>2. (k + 1) - x <= f
        BY <1>5, <4>1
      <4> QED BY <1>1, <1>6, <3>1, <4>2
    <3> QED BY <1>1, <3>1, <3>2
  <2> HIDE DEF G
  <2>3. Inductive(1, m, G)
    BY <2>1, <2>2 DEF Inductive
  <2>4. \A x \in 1..m : x \in G
    <3>1. 1 \in Int /\ m \in Int
      BY <2>1
    <3> HIDE DEF m
    <3> QED BY <2>3, <3>1, UpTo
  <2> TAKE j \in f..k
  <2>5. (k + 1) - j \in 1..m /\ (k + 1) - ((k + 1) - j) = j
    BY <1>1, <1>6
  <2>6. (k + 1) - j \in G
    BY <2>4, <2>5
  <2> QED BY <2>5, <2>6 DEF G
<1>8. \A j \in f..k : FirstOf(B, j) = f
  <2> SUFFICES ASSUME NEW j \in f..k PROVE FirstOf(B, j) = f
    OBVIOUS
  <2>1. j \in 1..n /\ f \in T(j) /\ T(j) \subseteq T(k) /\ f \in Int
    BY <1>1, <1>6 DEF T
  <2>2. Max(T(j)) \in T(j) /\ \A y \in T(j) : y <= Max(T(j))
    BY <1>3, <2>1
  <2>3. Max(T(j)) <= f /\ f <= Max(T(j)) /\ Max(T(j)) \in Int
    <3>1. Max(T(j)) \in T(k)
      BY <2>1, <2>2
    <3>2. Max(T(j)) \in Int
      BY <1>1, <3>1 DEF T
    <3> QED BY <1>5, <2>1, <2>2, <3>1, <3>2
  <2> QED BY <1>4, <2>1, <2>3
<1> QED BY <1>6, <1>7, <1>8 DEF f

\* The items of a list stand together, and nothing else changes.
LEMMA ListsAreTogether ==
  ASSUME NEW u, IsSequence(u), \A i \in DOMAIN u : u[i].type = "LIST_ITEM" => u[i] = [f \in Fields |-> u[i][f]],
         NEW d, d = ListIntegrity(u)
  PROVE  /\ Len(u) \in Nat /\ DOMAIN u = 1..Len(u) /\ IsSequence(d) /\ Len(d) = Len(u) /\ DOMAIN d = 1..Len(u)
         /\ \A i \in 1..Len(u) :
              /\ u[i].type # "LIST_ITEM" => d[i] = u[i]
              /\ \A f \in Fields \ {"group"} : u[i].type = "LIST_ITEM" => d[i][f] = u[i][f]
              /\ u[i].type = "LIST_ITEM" => IsListGroup(d[i].group)
         /\ \A i, k \in 1..Len(u) : u[i].type = "LIST_ITEM" /\ u[k].type = "LIST_ITEM" /\ d[i].group = d[k].group =>
              \A j \in i..k : u[j].type = "LIST_ITEM" /\ d[j].group = d[i].group
<1> DEFINE n == Len(u)
           IsItem(i) == u[i].type = "LIST_ITEM"
           GoesOn(i) == i > 1 /\ IsItem(i - 1) /\ u[i].zone = u[i - 1].zone /\ u[i].part = u[i - 1].part /\ Compatible(u[i - 1], u[i])
           items == {i \in 1..n : IsItem(i)}
           B == {i \in items : ~GoesOn(i)}
<1>1. n \in Nat /\ DOMAIN u = 1..n
  BY SequenceDomain
<1>2. BeginLists(n, items, B)
  <2>1. \A i \in items \ B : i > 1 /\ i - 1 \in items
    BY <1>1
  <2> HIDE DEF B
  <2>2. B \subseteq items
    BY DEF B
  <2> HIDE DEF items
  <2>3. items \subseteq 1..n
    BY DEF items
  <2> QED BY <1>1, <2>1, <2>2, <2>3 DEF BeginLists
<1>3. \A i \in items : FirstOf(B, i) = Max({j \in 1..i : IsItem(j) /\ ~GoesOn(j)})
  <2> SUFFICES ASSUME NEW i \in items PROVE FirstOf(B, i) = Max({j \in 1..i : IsItem(j) /\ ~GoesOn(j)})
    OBVIOUS
  <2>1. {j \in 1..i : j \in B} = {j \in 1..i : IsItem(j) /\ ~GoesOn(j)}
    <3>1. 1..i \subseteq 1..n
      BY <1>1
    <3> HIDE DEF GoesOn, IsItem
    <3> QED BY <3>1
  <2> QED BY <2>1 DEF FirstOf
<1>4. d = [i \in 1..n |-> IF IsItem(i) THEN [u[i] EXCEPT !["group"] = <<"list", Max({j \in 1..i : IsItem(j) /\ ~GoesOn(j)})>>] ELSE u[i]]
  BY <1>1 DEF ListIntegrity
<1>5. \A i \in items : d[i] = [u[i] EXCEPT !["group"] = <<"list", FirstOf(B, i)>>]
  <2> HIDE DEF GoesOn
  <2> QED BY <1>3, <1>4
<1>6. \A i \in 1..n : i \notin items => d[i] = u[i]
  <2> HIDE DEF GoesOn
  <2> QED BY <1>4
<1>7. IsSequence(d) /\ Len(d) = n /\ DOMAIN d = 1..n
  <2> HIDE DEF GoesOn, IsItem
  <2>1. d = [i \in 1..n |-> d[i]]
    BY <1>4
  <2> QED BY <1>1, <2>1, IsSequenceTo
<1>8. \A i \in items : u[i] = [f \in Fields |-> u[i][f]] /\ i \in 1..n
  BY <1>1
<1>9. \A i \in 1..n : i \in items <=> u[i].type = "LIST_ITEM"
  OBVIOUS
<1> HIDE DEF items, B, n
<1>10. \A i \in items : d[i].group = <<"list", FirstOf(B, i)>> /\ \A f \in Fields \ {"group"} : d[i][f] = u[i][f]
  BY <1>5, <1>8, PlainFields
<1>11. \A i \in items : FirstOf(B, i) \in B /\ FirstOf(B, i) \in 1..i /\ \A j \in FirstOf(B, i)..i : j \in items /\ FirstOf(B, j) = FirstOf(B, i)
  BY <1>2, ItemsOfLists
<1>12. \A i \in items : IsListGroup(d[i].group)
  <2> SUFFICES ASSUME NEW i \in items PROVE IsListGroup(d[i].group)
    OBVIOUS
  <2>1. FirstOf(B, i) \in Nat
    BY <1>1, <1>8, <1>11
  <2>2. <<"list", FirstOf(B, i)>> \in {"list"} \X Nat
    BY ONLY <2>1
  <2>3. d[i].group = <<"list", FirstOf(B, i)>>
    BY ONLY <1>10
  <2>4. d[i].group \in {"list"} \X Nat
    BY ONLY <2>2, <2>3
  <2> QED BY ONLY <2>4 DEF IsListGroup
<1>13. ASSUME NEW i \in items, NEW k \in items, d[i].group = d[k].group, NEW j \in i..k
       PROVE  j \in items /\ d[j].group = d[i].group
  <2>1. FirstOf(B, i) = FirstOf(B, k)
    <3>1. <<"list", FirstOf(B, i)>> = <<"list", FirstOf(B, k)>>
      BY <1>10, <1>13
    <3> QED BY <3>1
  <2>2. j \in FirstOf(B, k)..k
    <3>1. i \in Int /\ k \in Int
      <4>1. i \in 1..n /\ k \in 1..n
        BY <1>8
      <4> QED BY ONLY <4>1, <1>1
    <3>2. FirstOf(B, i) \in 1..i
      BY <1>11
    <3>3. FirstOf(B, i) \in Int /\ FirstOf(B, i) <= i
      BY <3>1, <3>2
    <3>4. j \in FirstOf(B, i)..k
      BY <3>1, <3>3
    <3> QED BY <2>1, <3>4
  <2>3. j \in items /\ FirstOf(B, j) = FirstOf(B, k)
    BY <1>11, <2>2
  <2> QED BY <1>10, <2>1, <2>3
<1>14. \A i, k \in 1..n : u[i].type = "LIST_ITEM" /\ u[k].type = "LIST_ITEM" /\ d[i].group = d[k].group =>
         \A j \in i..k : u[j].type = "LIST_ITEM" /\ d[j].group = d[i].group
  <2> SUFFICES ASSUME NEW i \in 1..n, NEW k \in 1..n, u[i].type = "LIST_ITEM", u[k].type = "LIST_ITEM", d[i].group = d[k].group, NEW j \in i..k
               PROVE  u[j].type = "LIST_ITEM" /\ d[j].group = d[i].group
    OBVIOUS
  <2>1. i \in items /\ k \in items
    BY <1>9
  <2>2. j \in items /\ d[j].group = d[i].group
    BY <1>13, <2>1
  <2>3. j \in 1..n
    BY <1>1
  <2> QED BY <1>9, <2>2, <2>3
<1>15. \A i \in 1..n :
              /\ u[i].type # "LIST_ITEM" => d[i] = u[i]
              /\ \A f \in Fields \ {"group"} : u[i].type = "LIST_ITEM" => d[i][f] = u[i][f]
              /\ u[i].type = "LIST_ITEM" => IsListGroup(d[i].group)
  BY <1>6, <1>9, <1>10, <1>12
<1> QED BY <1>1, <1>7, <1>14, <1>15 DEF n

-----------------------------------------------------------------------------
(* Word documents are orderly.                                             *)

\* The table that a table stands in is one of its part, and comes before it.
LEMMA ParentIs ==
  ASSUME NEW part, AreNodes(part.nodes), NEW m \in DOMAIN part.nodes, ParentOf(part, m) # None
  PROVE  \E y \in EnclosingOf(part.nodes, m) :
           /\ y = Max(EnclosingOf(part.nodes, m)) /\ \A x \in EnclosingOf(part.nodes, m) : x <= y
           /\ y \in DOMAIN part.nodes /\ y \in Int /\ y < m /\ ParentOf(part, m) = GroupOf(part, y)
<1> DEFINE E == EnclosingOf(part.nodes, m)
<1>1. E # {} /\ ParentOf(part, m) = GroupOf(part, Max(E))
  BY DEF ParentOf
<1>2. m \in Int /\ \A x \in E : x \in Around(part.nodes)[m] /\ x \in Int /\ x < m /\ x \in DOMAIN part.nodes
  BY AroundIn DEF EnclosingOf
<1> HIDE DEF E
<1>3. Max(E) \in E /\ \A x \in E : x <= Max(E)
  <2>1. E \in SUBSET Int /\ \A x \in E : x <= m
    BY <1>2
  <2> QED BY <1>1, <1>2, <2>1, GreatestNumber
<1> QED BY <1>1, <1>2, <1>3 DEF E

\* What is read of a table is orderly.
LEMMA TableIsOrderly ==
  ASSUME NEW part, AreNodes(part.nodes), part.name \in {"document"} \cup STRING,
         NEW m \in DOMAIN part.nodes, NEW type \in TableTypes, NEW e, IsOfTable(part, m, type, e)
  PROVE  OrderlyElement(e) /\ Tabled(e) /\ IsTableGroup(e.group)
<1>1. /\ e.type = type /\ e.group = GroupOf(part, m) /\ e.parent = ParentOf(part, m)
      /\ e.source = "EXPLICIT" /\ e.evidence = None /\ e.anchor = None /\ e.refs = {}
  BY DEF IsOfTable
<1>2. \A k \in DOMAIN part.nodes : IsTableGroup(GroupOf(part, k)) /\ GroupOf(part, k)[3] = k
  <2> SUFFICES ASSUME NEW k \in DOMAIN part.nodes PROVE IsTableGroup(GroupOf(part, k)) /\ GroupOf(part, k)[3] = k
    OBVIOUS
  <2>1. k \in Nat
    BY AroundIn
  <2> QED BY <2>1 DEF GroupOf, IsTableGroup
<1>3. e.parent # None => IsTableGroup(e.parent) /\ e.parent[3] < e.group[3]
  <2> SUFFICES ASSUME e.parent # None PROVE IsTableGroup(e.parent) /\ e.parent[3] < e.group[3]
    OBVIOUS
  <2>1. ParentOf(part, m) # None
    BY <1>1
  <2>2. PICK y \in EnclosingOf(part.nodes, m) : y \in DOMAIN part.nodes /\ y < m /\ ParentOf(part, m) = GroupOf(part, y)
    BY <2>1, ParentIs
  <2> QED BY <1>1, <1>2, <2>2
<1>4. type # "LIST_ITEM" /\ type # "FOOTNOTE" /\ type \in OrderlyTypes
  BY DEF TableTypes, OrderlyTypes
<1>5. IsTableGroup(e.group)
  BY <1>1, <1>2
<1> QED BY <1>1, <1>3, <1>4, <1>5 DEF OrderlyElement, Tabled

\* Text and notes are orderly, once an item has its list.
LEMMA TextIsOrderly ==
  ASSUME NEW e, IsText(e.zone, e) \/ IsNote(e)
  PROVE  /\ e.type # "LIST_ITEM" => OrderlyElement(e)
         /\ ~Tabled(e) /\ e = [f \in Fields |-> e[f]] /\ e.group = None /\ e.parent = None
         /\ e.type = "LIST_ITEM" => e.source = "EXPLICIT" /\ e.evidence = None /\ e.anchor = None /\ None \notin e.refs
<1>1. "FOOTNOTE" \notin TableTypes /\ "FOOTNOTE" # "LIST_ITEM" /\ "FOOTNOTE" \in OrderlyTypes
  BY DEF TableTypes, OrderlyTypes
<1> QED BY <1>1 DEF IsText, IsNote, OrderlyElement, Tabled

\* What is observed of a package is of a table, or text, or a note.
LEMMA ElementsObserved ==
  ASSUME NEW package, IsPackage(package), ~RepeatsNote(package), NEW parts, parts = PartsOf(package),
         NEW u, u = Observations(package), NEW e \in ToSet(u)
  PROVE  \/ /\ OrderlyElement(e) /\ Tabled(e) /\ IsTableGroup(e.group)
            /\ \E i \in 1..Len(parts) : \E m \in DOMAIN parts[i].nodes :
                 e.group = GroupOf(parts[i], m) /\ e.parent = ParentOf(parts[i], m)
         \/ IsText(e.zone, e) \/ IsNote(e)
<1>1. PICK i \in 1..Len(parts) : IsPartElement(parts[i], e) \/ IsNote(e)
  BY ObservedIs
<1>2. CASE IsText(parts[i].zone, e)
  <2>1. e.zone = parts[i].zone
    BY <1>2 DEF IsText
  <2> QED BY <1>2, <2>1
<1>3. CASE \E m \in DOMAIN parts[i].nodes, type \in TableTypes : IsOfTable(parts[i], m, type, e)
  <2>1. PICK m \in DOMAIN parts[i].nodes, type \in TableTypes : IsOfTable(parts[i], m, type, e)
    BY <1>3
  <2>2. AreNodes(parts[i].nodes) /\ parts[i].name \in {"document"} \cup STRING
    <3>1. IsTree(parts[i].nodes, package.policy.view) /\ parts[i].name \in {"document"} \cup STRING
      BY PartsAre
    <3> QED BY <3>1 DEF IsTree, AreNodes
  <2>3. OrderlyElement(e) /\ Tabled(e) /\ IsTableGroup(e.group)
    BY <2>1, <2>2, TableIsOrderly
  <2>4. e.group = GroupOf(parts[i], m) /\ e.parent = ParentOf(parts[i], m)
    BY <2>1 DEF IsOfTable
  <2> QED BY <2>3, <2>4
<1> QED BY <1>1, <1>2, <1>3 DEF IsPartElement

\* What an adapter of Word documents gives is what it observes, with its lists.
LEMMA DocxIs ==
  ASSUME NEW package
  PROVE  DocxElements(package) = ListIntegrity(Observations(package))
BY DEF DocxElements, Observations, PartsOf, Piece, NotesOf

\* What is inside of one of two tables has its parent there, unless it is the table.
LEMMA InsideHoldsParents ==
  ASSUME NEW package, IsPackage(package), ~RepeatsNote(package), NEW parts, parts = PartsOf(package),
         NEW u, u = Observations(package), NEW g \in GroupsIn(u), NEW h, <<g, h>> \in InsideParts(package), h # g,
         NEW i \in 1..Len(parts), NEW m \in DOMAIN parts[i].nodes, h = GroupOf(parts[i], m)
  PROVE  ParentOf(parts[i], m) # None /\ <<g, ParentOf(parts[i], m)>> \in InsideParts(package)
<1>1. DOMAIN parts = 1..Len(parts)
  BY PartsAre
<1>12. \A a, s \in 1..Len(parts) : \A c, d : GroupOf(parts[a], c) = GroupOf(parts[s], d) => a = s /\ c = d
  BY PartsApart
<1>2. PICK j \in 1..Len(parts) : <<g, h>> \in InsideOf(parts[j])
  BY <1>1 DEF InsideParts
<1>3. PICK x \in DOMAIN parts[j].nodes, k \in DOMAIN parts[j].nodes :
        k \in Under(parts[j].nodes, x) /\ g = GroupOf(parts[j], x) /\ h = GroupOf(parts[j], k)
  BY <1>2 DEF InsideOf
<1>4. i = j /\ m = k
  <2>1. GroupOf(parts[i], m) = GroupOf(parts[j], k)
    BY <1>3
  <2> QED BY <1>12, <2>1
<1> DEFINE part == parts[i]
           nodes == part.nodes
<1>5. AreNodes(nodes) /\ nodes[x].name = "tbl"
  <2>1. PICK p \in 1..Len(parts) : \E q \in DOMAIN parts[p].nodes : g = GroupOf(parts[p], q) /\ parts[p].nodes[q].name = "tbl" /\ AreNodes(parts[p].nodes)
    BY TablesObserved
  <2>2. PICK q \in DOMAIN parts[p].nodes : g = GroupOf(parts[p], q) /\ parts[p].nodes[q].name = "tbl" /\ AreNodes(parts[p].nodes)
    BY <2>1
  <2>3. p = j /\ q = x
    <3>1. GroupOf(parts[p], q) = GroupOf(parts[j], x)
      BY <1>3, <2>2
    <3>2. p \in 1..Len(parts) /\ j \in 1..Len(parts)
      OBVIOUS
    <3> QED BY ONLY <1>12, <3>1, <3>2
  <2> QED BY <1>4, <2>2, <2>3
<1>6. x \in DOMAIN nodes /\ m \in Under(nodes, x) /\ g = GroupOf(part, x) /\ h = GroupOf(part, m)
  BY <1>3, <1>4
<1> HIDE DEF nodes
<1>7. x \in EnclosingOf(nodes, m)
  <2>1. m # x
    BY <1>6
  <2>2. x \in Around(nodes)[m]
    BY <1>6, <2>1 DEF Under
  <2>3. x # 0
    BY <1>5, <1>6, AroundIn
  <2> QED BY <1>5, <2>2, <2>3 DEF EnclosingOf
<1>8. ParentOf(part, m) # None
  <2>1. ParentOf(part, m) = GroupOf(part, Max(EnclosingOf(nodes, m)))
    BY <1>7 DEF ParentOf, nodes
  <2>2. \A k2 : <<"table", part.name, k2>>[1] = "table"
    OBVIOUS
  <2>3. Max(EnclosingOf(nodes, m)) \in Nat /\ part.name \in {"document"} \cup STRING
    <3>1. \A y \in EnclosingOf(nodes, m) : y \in Int /\ y < m /\ y \in DOMAIN nodes /\ m \in Int
      BY <1>5, AroundIn DEF EnclosingOf, nodes
    <3>2. EnclosingOf(nodes, m) \in SUBSET Int /\ m \in Int /\ \A y \in EnclosingOf(nodes, m) : y <= m
      BY <1>7, <3>1
    <3>3. Max(EnclosingOf(nodes, m)) \in EnclosingOf(nodes, m)
      BY <1>7, <3>2, GreatestNumber
    <3>4. Max(EnclosingOf(nodes, m)) \in Nat
      BY <1>5, <3>1, <3>3, AroundIn
    <3> QED BY <3>4, PartsAre
  <2> QED BY <2>1, <2>3, NoneAssumption DEF GroupOf
<1>9. PICK y \in EnclosingOf(nodes, m) :
        (\A z \in EnclosingOf(nodes, m) : z <= y) /\ y \in DOMAIN nodes /\ y \in Int /\ y < m /\ ParentOf(part, m) = GroupOf(part, y)
  BY <1>5, <1>8, ParentIs DEF nodes
<1>10. y \in Under(nodes, x)
  <2>1. x \in Around(nodes)[m] /\ y \in Around(nodes)[m] /\ x <= y
    BY <1>7, <1>9 DEF EnclosingOf
  <2>2. x \in Int /\ m \in DOMAIN nodes
    BY <1>5, <1>6, AroundIn DEF nodes
  <2>3. x < y => x \in Around(nodes)[y]
    BY <1>5, <2>1, <2>2, AroundIn
  <2> QED BY <1>9, <2>1, <2>2, <2>3 DEF Under
<1>11. <<g, GroupOf(part, y)>> \in InsideOf(part)
  BY <1>6, <1>10, InsideOfIs DEF nodes
<1> QED BY <1>1, <1>8, <1>9, <1>11 DEF InsideParts

\* An item that has its list is orderly.
LEMMA ItemIsOrderly ==
  ASSUME NEW e, IsText(e.zone, e), e.type = "LIST_ITEM", NEW l,
         \A f \in Fields \ {"group"} : l[f] = e[f], IsListGroup(l.group)
  PROVE  OrderlyElement(l)
<1>1. {"type", "source", "evidence", "parent", "anchor", "refs"} \subseteq Fields \ {"group"}
  BY PlainFields
<1>2. /\ l.type = "LIST_ITEM" /\ l.source = "EXPLICIT" /\ l.evidence = None /\ l.parent = None /\ l.anchor = None /\ l.refs = e.refs
      /\ None \notin l.refs
  BY <1>1 DEF IsText
<1>3. "LIST_ITEM" \in OrderlyTypes /\ "LIST_ITEM" \notin TableTypes
  BY DEF OrderlyTypes, TableTypes
<1> QED BY <1>2, <1>3 DEF OrderlyElement

\* A package, its parts, what is observed of it, and the elements that are made of that.
DocxOf(package, parts, u, d) ==
  /\ IsPackage(package) /\ ~RepeatsNote(package) /\ parts = PartsOf(package) /\ u = Observations(package)
  /\ d = DocxElements(package)

\* Its lists are put together, and nothing else of what is observed changes.
LEMMA ListsOfDocx ==
  ASSUME NEW package, NEW parts, NEW u, NEW d, DocxOf(package, parts, u, d)
  PROVE  /\ Len(u) \in Nat /\ DOMAIN u = 1..Len(u) /\ IsSequence(d) /\ Len(d) = Len(u) /\ DOMAIN d = 1..Len(u)
         /\ \A i \in 1..Len(u) :
              /\ u[i].type # "LIST_ITEM" => d[i] = u[i]
              /\ \A f \in Fields \ {"group"} : d[i][f] = u[i][f]
              /\ u[i].type = "LIST_ITEM" => IsListGroup(d[i].group)
         /\ \A i, k \in 1..Len(u) : u[i].type = "LIST_ITEM" /\ u[k].type = "LIST_ITEM" /\ d[i].group = d[k].group =>
              \A j \in i..k : u[j].type = "LIST_ITEM" /\ d[j].group = d[i].group
<1>1. IsPackage(package) /\ ~RepeatsNote(package) /\ parts = PartsOf(package) /\ u = Observations(package) /\ d = ListIntegrity(u)
  BY DocxIs DEF DocxOf
<1>2. IsSequence(u)
  <2>1. Sound(u, InsideParts(package), {})
    BY <1>1, ObservationsAre
  <2> QED BY <2>1 DEF Sound
<1>3. ASSUME NEW i \in DOMAIN u, u[i].type = "LIST_ITEM" PROVE u[i] = [f \in Fields |-> u[i][f]]
  <2>1. u[i] \in ToSet(u)
    BY <1>2, SequenceDomain
  <2>2. ~Tabled(u[i])
    BY <1>3 DEF Tabled, TableTypes
  <2>3. IsText(u[i].zone, u[i]) \/ IsNote(u[i])
    BY <1>1, <2>1, <2>2, ElementsObserved
  <2> QED BY <2>3, TextIsOrderly
<1>4. /\ Len(u) \in Nat /\ DOMAIN u = 1..Len(u) /\ IsSequence(d) /\ Len(d) = Len(u) /\ DOMAIN d = 1..Len(u)
      /\ \A i \in 1..Len(u) :
           /\ u[i].type # "LIST_ITEM" => d[i] = u[i]
           /\ \A f \in Fields \ {"group"} : u[i].type = "LIST_ITEM" => d[i][f] = u[i][f]
           /\ u[i].type = "LIST_ITEM" => IsListGroup(d[i].group)
      /\ \A i, k \in 1..Len(u) : u[i].type = "LIST_ITEM" /\ u[k].type = "LIST_ITEM" /\ d[i].group = d[k].group =>
           \A j \in i..k : u[j].type = "LIST_ITEM" /\ d[j].group = d[i].group
  BY <1>1, <1>2, <1>3, ListsAreTogether
<1>5. ASSUME NEW i \in 1..Len(u), NEW f \in Fields \ {"group"} PROVE d[i][f] = u[i][f]
  BY <1>4
<1> QED BY <1>4, <1>5

\* Each of them is orderly, and those of a table name the table and what it stands in.
LEMMA ElementsOfDocx ==
  ASSUME NEW package, NEW parts, NEW u, NEW d, DocxOf(package, parts, u, d), NEW i \in 1..Len(u)
  PROVE  /\ OrderlyElement(d[i]) /\ u[i] \in ToSet(u)
         /\ d[i].type = u[i].type /\ d[i].anchor = u[i].anchor /\ d[i].zone = u[i].zone /\ d[i].sectionBreak = u[i].sectionBreak
         /\ Tabled(d[i]) => /\ d[i] = u[i] /\ Tabled(u[i]) /\ u[i].group \in GroupsIn(u) /\ IsTableGroup(d[i].group)
                            /\ \E p \in 1..Len(parts) : \E m \in DOMAIN parts[p].nodes :
                                 d[i].group = GroupOf(parts[p], m) /\ d[i].parent = ParentOf(parts[p], m)
<1>1. IsPackage(package) /\ ~RepeatsNote(package) /\ parts = PartsOf(package) /\ u = Observations(package)
  BY DEF DocxOf
<1>2. /\ u[i].type # "LIST_ITEM" => d[i] = u[i]
      /\ \A f \in Fields \ {"group"} : d[i][f] = u[i][f]
      /\ u[i].type = "LIST_ITEM" => IsListGroup(d[i].group)
      /\ DOMAIN u = 1..Len(u)
  BY ListsOfDocx
<1>3. u[i] \in ToSet(u)
  <2>1. Sound(u, InsideParts(package), {})
    BY <1>1, ObservationsAre
  <2>2. IsSequence(u)
    BY <2>1 DEF Sound
  <2> QED BY <2>2, SequenceDomain
<1>4. d[i].type = u[i].type /\ d[i].anchor = u[i].anchor /\ d[i].zone = u[i].zone /\ d[i].sectionBreak = u[i].sectionBreak
  <2>1. {"type", "anchor", "zone", "sectionBreak"} \subseteq Fields \ {"group"}
    BY PlainFields
  <2> QED BY <1>2, <2>1
<1>5. Tabled(d[i]) => d[i] = u[i] /\ Tabled(u[i]) /\ u[i].group \in GroupsIn(u)
  <2> SUFFICES ASSUME Tabled(d[i]) PROVE d[i] = u[i] /\ Tabled(u[i]) /\ u[i].group \in GroupsIn(u)
    OBVIOUS
  <2>1. u[i].type # "LIST_ITEM" /\ Tabled(u[i])
    BY <1>4 DEF Tabled, TableTypes
  <2> QED BY <1>2, <1>3, <2>1 DEF GroupsIn
<1>6. CASE /\ OrderlyElement(u[i]) /\ Tabled(u[i]) /\ IsTableGroup(u[i].group)
           /\ \E p \in 1..Len(parts) : \E m \in DOMAIN parts[p].nodes :
                u[i].group = GroupOf(parts[p], m) /\ u[i].parent = ParentOf(parts[p], m)
  <2>1. Tabled(d[i])
    BY <1>4, <1>6 DEF Tabled
  <2>2. d[i] = u[i]
    BY <1>5, <2>1
  <2> QED BY <1>3, <1>4, <1>5, <1>6, <2>2
<1>7. CASE IsText(u[i].zone, u[i]) \/ IsNote(u[i])
  <2>1. ~Tabled(u[i]) /\ (u[i].type # "LIST_ITEM" => OrderlyElement(u[i]))
    BY <1>7, TextIsOrderly
  <2>2. ~Tabled(d[i])
    BY <1>4, <2>1 DEF Tabled
  <2>3. CASE u[i].type # "LIST_ITEM"
    BY <1>2, <1>3, <1>4, <2>1, <2>2, <2>3
  <2>4. CASE u[i].type = "LIST_ITEM"
    <3>1. IsText(u[i].zone, u[i])
      BY <1>7, <2>4 DEF IsNote
    <3>2. OrderlyElement(d[i])
      BY <1>2, <2>4, <3>1, ItemIsOrderly
    <3> QED BY <1>3, <1>4, <2>2, <3>2
  <2> QED BY <2>3, <2>4
<1> QED BY <1>1, <1>3, <1>6, <1>7, ElementsObserved

\* What is observed stands at some position of the document.
LEMMA GroupsOfDocx ==
  ASSUME NEW package, NEW parts, NEW u, NEW d, DocxOf(package, parts, u, d), NEW g \in GroupsIn(u)
  PROVE  \E j \in 1..Len(u) : Tabled(d[j]) /\ d[j].group = g
<1>1. PICK e \in ToSet(u) : Tabled(e) /\ g = e.group
  BY DEF GroupsIn
<1>2. Sound(u, InsideParts(package), {})
  BY ObservationsAre DEF DocxOf
<1>3. PICK j \in 1..Len(u) : u[j] = e
  <2>1. IsSequence(u)
    BY <1>2 DEF Sound
  <2>2. ToSet(u) = {u[k] : k \in 1..Len(u)}
    BY <2>1, SequenceDomain DEF ToSet
  <2> QED BY <2>2
<1>4. u[j].type # "LIST_ITEM"
  BY <1>1, <1>3 DEF Tabled, TableTypes
<1>5. d[j] = u[j]
  BY <1>4, ListsOfDocx
<1> QED BY <1>1, <1>3, <1>5

\* A table that another stands in is observed too.
LEMMA ParentsOfDocx ==
  ASSUME NEW package, NEW parts, NEW u, NEW d, DocxOf(package, parts, u, d), NEW i \in 1..Len(u),
         Tabled(d[i]), d[i].parent # None
  PROVE  d[i].parent \in GroupsIn(u)
<1>1. IsPackage(package) /\ ~RepeatsNote(package) /\ parts = PartsOf(package) /\ u = Observations(package)
  BY DEF DocxOf
<1>2. PICK p \in 1..Len(parts) : \E m \in DOMAIN parts[p].nodes : d[i].group = GroupOf(parts[p], m) /\ d[i].parent = ParentOf(parts[p], m)
  BY ElementsOfDocx
<1>3. PICK m \in DOMAIN parts[p].nodes : d[i].group = GroupOf(parts[p], m) /\ d[i].parent = ParentOf(parts[p], m)
  BY <1>2
<1>4. d[i].group \in GroupsIn(u)
  <2>1. d[i] = u[i] /\ u[i].group \in GroupsIn(u)
    BY ElementsOfDocx
  <2> QED BY <2>1
<1>5. PICK q \in 1..Len(parts) : \E k \in DOMAIN parts[q].nodes :
        d[i].group = GroupOf(parts[q], k) /\ (ParentOf(parts[q], k) # None => ParentOf(parts[q], k) \in GroupsIn(u))
  BY <1>1, <1>4, TablesObserved
<1>6. PICK k \in DOMAIN parts[q].nodes :
        d[i].group = GroupOf(parts[q], k) /\ (ParentOf(parts[q], k) # None => ParentOf(parts[q], k) \in GroupsIn(u))
  BY <1>5
<1>7. p = q /\ m = k
  <2>1. \A a, s \in 1..Len(parts) : \A c, e : GroupOf(parts[a], c) = GroupOf(parts[s], e) => a = s /\ c = e
    BY <1>1, PartsApart
  <2>2. GroupOf(parts[p], m) = GroupOf(parts[q], k)
    BY <1>3, <1>6
  <2>3. p \in 1..Len(parts) /\ q \in 1..Len(parts)
    OBVIOUS
  <2> QED BY ONLY <2>1, <2>2, <2>3
<1> QED BY <1>3, <1>6, <1>7

\* Tables of one group stand in the same table.
LEMMA GroupsHaveParents ==
  ASSUME NEW package, NEW parts, NEW u, NEW d, DocxOf(package, parts, u, d), NEW i \in 1..Len(u), NEW j \in 1..Len(u),
         d[i].group # None, d[i].group = d[j].group
  PROVE  d[i].parent = d[j].parent
<1>1. IsPackage(package) /\ ~RepeatsNote(package) /\ parts = PartsOf(package) /\ u = Observations(package)
  BY DEF DocxOf
<1>7. \A a, s \in 1..Len(parts) : \A c, e : GroupOf(parts[a], c) = GroupOf(parts[s], e) => a = s /\ c = e
  BY ONLY <1>1, PartsApart
<1>2. OrderlyElement(d[i]) /\ OrderlyElement(d[j])
  BY ElementsOfDocx
<1>3. \A g : IsTableGroup(g) => g[1] = "table"
  BY DEF IsTableGroup
<1>4. \A g : IsListGroup(g) => g[1] = "list"
  BY DEF IsListGroup
<1>5. CASE d[i].type \in TableTypes
  <2>1. Tabled(d[i]) /\ Tabled(d[j])
    <3>1. IsTableGroup(d[i].group)
      BY <1>2, <1>5 DEF OrderlyElement
    <3>2. d[j].type # "LIST_ITEM"
      BY <1>2, <1>3, <1>4, <3>1 DEF OrderlyElement
    <3>3. d[j].type \in TableTypes
      BY <1>2, <3>2 DEF OrderlyElement
    <3> QED BY <1>5, <3>3 DEF Tabled
  <2>2. PICK p \in 1..Len(parts) : \E m \in DOMAIN parts[p].nodes : d[i].group = GroupOf(parts[p], m) /\ d[i].parent = ParentOf(parts[p], m)
    BY <2>1, ElementsOfDocx
  <2>3. PICK m \in DOMAIN parts[p].nodes : d[i].group = GroupOf(parts[p], m) /\ d[i].parent = ParentOf(parts[p], m)
    BY <2>2
  <2>4. PICK q \in 1..Len(parts) : \E k \in DOMAIN parts[q].nodes : d[j].group = GroupOf(parts[q], k) /\ d[j].parent = ParentOf(parts[q], k)
    BY <2>1, ElementsOfDocx
  <2>5. PICK k \in DOMAIN parts[q].nodes : d[j].group = GroupOf(parts[q], k) /\ d[j].parent = ParentOf(parts[q], k)
    BY <2>4
  <2>6. p = q /\ m = k
    <3>2. GroupOf(parts[p], m) = GroupOf(parts[q], k)
      BY <2>3, <2>5
    <3>3. p \in 1..Len(parts) /\ q \in 1..Len(parts)
      OBVIOUS
    <3> QED BY ONLY <1>7, <3>2, <3>3
  <2> QED BY <2>3, <2>5, <2>6
<1>6. CASE d[i].type \notin TableTypes
  <2>1. d[i].type = "LIST_ITEM" /\ IsListGroup(d[i].group) /\ d[i].parent = None
    BY <1>2, <1>6 DEF OrderlyElement
  <2>2. d[j].type \notin TableTypes
    <3>1. ~IsTableGroup(d[j].group)
      BY <1>3, <1>4, <2>1
    <3> QED BY <1>2, <3>1 DEF OrderlyElement
  <2>3. d[j].parent = None
    BY <1>2, <2>2 DEF OrderlyElement
  <2> QED BY <2>1, <2>3
<1> QED BY <1>5, <1>6

\* Between two elements of a table are only such of tables inside of it.
LEMMA InnerOfDocx ==
  ASSUME NEW package, NEW parts, NEW u, NEW d, DocxOf(package, parts, u, d)
  PROVE  \E inner : IsInner(d, inner)
<1> DEFINE n == Len(u)
           inside == InsideParts(package)
           G == GroupsIn(u)
           inner == [g \in G \cup NativeGroups(d) |-> {h \in G : g \in G /\ <<g, h>> \in inside}]
<1>1. IsPackage(package) /\ ~RepeatsNote(package) /\ parts = PartsOf(package) /\ u = Observations(package)
  BY DEF DocxOf
<1>2. n \in Nat /\ DOMAIN d = 1..n /\ DOMAIN u = 1..n
  BY ListsOfDocx
<1>3. \A i \in 1..n : Tabled(d[i]) => d[i] = u[i] /\ Tabled(u[i]) /\ d[i].group \in G
  <2> SUFFICES ASSUME NEW i \in 1..n, Tabled(d[i]) PROVE d[i] = u[i] /\ Tabled(u[i]) /\ d[i].group \in G
    OBVIOUS
  <2>1. d[i] = u[i] /\ Tabled(u[i]) /\ u[i].group \in G
    BY ElementsOfDocx
  <2> QED BY <2>1
<1>4. \A i \in 1..n : Tabled(u[i]) => d[i] = u[i]
  <2> SUFFICES ASSUME NEW i \in 1..n, Tabled(u[i]) PROVE d[i] = u[i]
    OBVIOUS
  <2>1. u[i].type # "LIST_ITEM"
    BY DEF Tabled, TableTypes
  <2> QED BY <2>1, ListsOfDocx
<1>5. \A i, k \in 1..n : Tabled(u[i]) /\ Tabled(u[k]) /\ u[i].group = u[k].group =>
        \A j \in i..k : Tabled(u[j]) /\ <<u[i].group, u[j].group>> \in inside
  <2>1. Sound(u, inside, {})
    BY <1>1, ObservationsAre
  <2> HIDE DEF inside
  <2> QED BY <1>2, <2>1 DEF Sound
<1> HIDE DEF inside, G, n
<1>6. ASSUME NEW i \in 1..n, NEW k \in 1..n, d[i].type \in TableTypes, d[i].group = d[k].group, NEW j \in i..k
      PROVE  d[j].type \in TableTypes /\ d[j].group \in inner[d[i].group]
  <2>1. OrderlyElement(d[i]) /\ OrderlyElement(d[k])
    BY ElementsOfDocx DEF n
  <2>2. IsTableGroup(d[i].group) /\ d[i].group # None
    <3>1. IsTableGroup(d[i].group)
      BY <1>6, <2>1 DEF OrderlyElement
    <3> QED BY <3>1, NoneAssumption DEF IsTableGroup
  <2>3. d[k].type \in TableTypes
    <3>1. ~IsListGroup(d[k].group)
      BY <1>6, <2>2 DEF IsTableGroup, IsListGroup
    <3> QED BY <1>6, <2>1, <2>2, <3>1 DEF OrderlyElement
  <2>4. d[i] = u[i] /\ d[k] = u[k] /\ Tabled(u[i]) /\ Tabled(u[k]) /\ d[i].group \in G
    <3>1. Tabled(d[i]) /\ Tabled(d[k])
      BY <1>6, <2>3 DEF Tabled
    <3> QED BY <1>3, <3>1
  <2>5. j \in 1..n
    <3>1. i \in Int /\ k \in Int /\ 1 <= i /\ k <= n
      BY ONLY <1>2, i \in 1..n, k \in 1..n
    <3> QED BY <1>2, <3>1
  <2>6. Tabled(u[j]) /\ <<u[i].group, u[j].group>> \in inside
    <3>1. u[i].group = u[k].group
      BY <1>6, <2>4
    <3> QED BY <1>5, <2>4, <3>1
  <2>7. d[j] = u[j]
    BY <1>4, <2>5, <2>6
  <2>8. Tabled(d[j]) /\ d[j].group \in G
    BY <1>3, <2>5, <2>6, <2>7
  <2>9. <<d[i].group, d[j].group>> \in inside
    BY <2>4, <2>6, <2>7
  <2> QED BY <2>4, <2>8, <2>9 DEF Tabled
<1>7. ASSUME NEW g \in NativeGroups(d), NEW j \in 1..n, d[j].type \in TableTypes, d[j].group \in inner[g] \ {g}
      PROVE  d[j].parent # None /\ d[j].parent \in inner[g]
  <2> DEFINE h == d[j].group
  <2>1. Tabled(d[j]) /\ h \in G /\ IsTableGroup(h)
    <3>1. Tabled(d[j])
      BY <1>7 DEF Tabled
    <3>2. OrderlyElement(d[j])
      BY ElementsOfDocx DEF n
    <3> QED BY <1>3, <1>7, <3>1, <3>2 DEF OrderlyElement
  <2>2. g \in G
    BY <1>7
  <2>3. h # g /\ <<g, h>> \in inside
    BY <1>7, <2>2
  <2>4. PICK p \in 1..Len(parts) : \E m \in DOMAIN parts[p].nodes : h = GroupOf(parts[p], m) /\ d[j].parent = ParentOf(parts[p], m)
    BY <2>1, ElementsOfDocx DEF n
  <2>5. PICK m \in DOMAIN parts[p].nodes : h = GroupOf(parts[p], m) /\ d[j].parent = ParentOf(parts[p], m)
    BY <2>4
  <2> HIDE DEF h
  <2>6. ParentOf(parts[p], m) # None /\ <<g, ParentOf(parts[p], m)>> \in inside
    BY <1>1, <2>2, <2>3, <2>5, InsideHoldsParents DEF inside, G
  <2>7. d[j].parent \in G
    BY <2>1, <2>5, <2>6, ParentsOfDocx DEF n, G
  <2> QED BY <2>2, <2>5, <2>6, <2>7
<1>8. IsInner(d, inner)
  <2> HIDE DEF inner
  <2>1. \A i, k \in DOMAIN d : d[i].type \in TableTypes /\ d[i].group = d[k].group =>
          \A j \in i..k : d[j].type \in TableTypes /\ d[j].group \in inner[d[i].group]
    BY <1>2, <1>6
  <2>2. \A g \in NativeGroups(d) : \A j \in DOMAIN d :
          d[j].type \in TableTypes /\ d[j].group \in inner[g] \ {g} => d[j].parent # None /\ d[j].parent \in inner[g]
    BY <1>2, <1>7
  <2> QED BY <2>1, <2>2 DEF IsInner
<1> QED BY <1>8

\* The lists, anchors and margins of a Word document.
LEMMA OrderOfDocx ==
  ASSUME NEW package, NEW parts, NEW u, NEW d, DocxOf(package, parts, u, d)
  PROVE  /\ \A i, k \in 1..Len(u) : d[i].type = "LIST_ITEM" /\ d[i].group = d[k].group => \A j \in i..k : d[j].group = d[i].group
         /\ \A i, j \in 1..Len(u) : i # j /\ d[i].anchor # None => d[i].anchor # d[j].anchor
         /\ \A i \in (1..Len(u)) \ {1} : Marginal(d[i - 1]) # Marginal(d[i]) => d[i].type = "SEPARATOR" /\ ~d[i].sectionBreak
<1> DEFINE n == Len(u)
<1>1. n \in Nat /\ DOMAIN u = 1..n
  BY ListsOfDocx
<1>2. \A i \in 1..n : /\ OrderlyElement(d[i]) /\ d[i].type = u[i].type /\ d[i].anchor = u[i].anchor /\ d[i].zone = u[i].zone
                      /\ d[i].sectionBreak = u[i].sectionBreak
  BY ElementsOfDocx
<1>3. Sound(u, InsideParts(package), {}) /\ Bordered(u)
  BY ObservationsAre DEF DocxOf
<1>4. \A i, k \in 1..n : u[i].type = "LIST_ITEM" /\ u[k].type = "LIST_ITEM" /\ d[i].group = d[k].group =>
        \A j \in i..k : u[j].type = "LIST_ITEM" /\ d[j].group = d[i].group
  BY ListsOfDocx
<1> HIDE DEF n
<1>5. ASSUME NEW i \in 1..n, NEW k \in 1..n, d[i].type = "LIST_ITEM", d[i].group = d[k].group
      PROVE  \A j \in i..k : d[j].group = d[i].group
  <2>1. OrderlyElement(d[i]) /\ OrderlyElement(d[k])
    BY <1>2
  <2>2. IsListGroup(d[k].group)
    BY <1>5, <2>1 DEF OrderlyElement
  <2>3. d[k].group # None /\ ~IsTableGroup(d[k].group)
    BY <2>2, NoneAssumption DEF IsListGroup, IsTableGroup
  <2>4. d[k].type = "LIST_ITEM"
    BY <2>1, <2>3 DEF OrderlyElement
  <2>5. u[i].type = "LIST_ITEM" /\ u[k].type = "LIST_ITEM"
    BY <1>2, <1>5, <2>4
  <2> QED BY <1>4, <1>5, <2>5
<1>6. ASSUME NEW i \in 1..n, NEW j \in 1..n, i # j, d[i].anchor # None
      PROVE  d[i].anchor # d[j].anchor
  <2>1. u[i].anchor # None => u[i].anchor # u[j].anchor
    BY <1>1, <1>3, <1>6 DEF Sound
  <2> QED BY <1>2, <1>6, <2>1
<1>7. ASSUME NEW i \in (1..n) \ {1}, Marginal(d[i - 1]) # Marginal(d[i])
      PROVE  d[i].type = "SEPARATOR" /\ ~d[i].sectionBreak
  <2>1. i \in DOMAIN u \ {1} /\ i \in 1..n /\ i - 1 \in 1..n
    BY <1>1
  <2>2. Marginal(u[i - 1]) # Marginal(u[i])
    BY <1>2, <1>7, <2>1 DEF Marginal
  <2>3. u[i].type = "SEPARATOR" /\ ~u[i].sectionBreak
    BY <1>3, <2>1, <2>2 DEF Bordered
  <2> QED BY <1>2, <2>1, <2>3
<1>8. \A i, k \in 1..n : d[i].type = "LIST_ITEM" /\ d[i].group = d[k].group => \A j \in i..k : d[j].group = d[i].group
  BY <1>5
<1>9. \A i, j \in 1..n : i # j /\ d[i].anchor # None => d[i].anchor # d[j].anchor
  BY <1>6
<1>10. \A i \in (1..n) \ {1} : Marginal(d[i - 1]) # Marginal(d[i]) => d[i].type = "SEPARATOR" /\ ~d[i].sectionBreak
  BY <1>7
<1> QED BY <1>8, <1>9, <1>10 DEF n

\* What the adapter of Word documents gives is orderly.
LEMMA DocxIsOrderly ==
  ASSUME NEW package, IsPackage(package), ~RepeatsNote(package)
  PROVE  Orderly(Normalised(DocxElements(package)))
<1> DEFINE parts == PartsOf(package)
           u == Observations(package)
           d == DocxElements(package)
           n == Len(u)
<1>1. DocxOf(package, parts, u, d)
  BY DEF DocxOf
<1> HIDE DEF parts, u, d
<1>2. n \in Nat /\ Len(d) = n /\ DOMAIN d = 1..n
  BY <1>1, ListsOfDocx
<1>3. \A i \in 1..n : OrderlyElement(d[i])
  BY <1>1, ElementsOfDocx
<1>4. \A i, j \in 1..n : d[i].group # None /\ d[i].group = d[j].group => d[i].parent = d[j].parent
  BY <1>1, GroupsHaveParents
<1>5. \A i \in 1..n : d[i].parent # None => \E j \in 1..n : d[j].group = d[i].parent
  <2> SUFFICES ASSUME NEW i \in 1..n, d[i].parent # None PROVE \E j \in 1..n : d[j].group = d[i].parent
    OBVIOUS
  <2>1. Tabled(d[i])
    BY <1>3 DEF OrderlyElement, Tabled
  <2>2. d[i].parent \in GroupsIn(u)
    BY <1>1, <2>1, ParentsOfDocx
  <2> QED BY <1>1, <2>2, GroupsOfDocx
<1>6. \E inner : IsInner(d, inner)
  BY <1>1, InnerOfDocx
<1>7. \A i, k \in 1..n : d[i].type = "LIST_ITEM" /\ d[i].group = d[k].group => \A j \in i..k : d[j].group = d[i].group
  BY <1>1, OrderOfDocx
<1>8. \A i, j \in 1..n : i # j /\ d[i].anchor # None => d[i].anchor # d[j].anchor
  BY <1>1, OrderOfDocx
<1>9. \A i \in (1..n) \ {1} : Marginal(d[i - 1]) # Marginal(d[i]) => d[i].type = "SEPARATOR" /\ ~d[i].sectionBreak
  BY <1>1, OrderOfDocx
<1>10. Orderly(d)
  <2> HIDE DEF n
  <2> QED BY <1>2, <1>3, <1>4, <1>5, <1>6, <1>7, <1>8, <1>9 DEF Orderly
<1>11. Normalised(d) = d
  <2>1. AreElements(d)
    BY DocxAreElements DEF d
  <2>2. \A i \in 1..Len(d) : d[i].type \in OrderlyTypes
    BY <1>2, <1>3 DEF OrderlyElement
  <2> QED BY <2>1, <2>2, NormalisedIsSame
<1> QED BY <1>10, <1>11 DEF d

-----------------------------------------------------------------------------
(* Shown tables are read once.                                             *)

\* What holds a node of what is not opened: the last of these is what it is within.
Holders(nodes, view, k) == {j \in Around(nodes)[k] \ {0} : ~Opens(view, nodes[j])}

IsNestedNode(nodes, view, k) ==
  \/ Opens(view, nodes[k])
  \/ <<nodes[k].name, IF Holders(nodes, view, k) = {} THEN "body" ELSE nodes[Max(Holders(nodes, view, k))].name>>
       \in {<<"tbl", "body">>, <<"tbl", "tc">>, <<"tc", "tr">>, <<"tr", "tbl">>}

\* Each node around a shown table, and the table, stands as Word has it.
LEMMA ShownIsNested ==
  ASSUME NEW nodes, NEW view, NEW t
  PROVE  IsShown(nodes, view, t) <=> \A k \in (Around(nodes)[t] \ {0}) \cup {t} : IsNestedNode(nodes, view, k)
BY DEF IsShown, IsNestedNode, Holders

\* Of what a node is within it is a direct part.
LEMMA HolderIs ==
  ASSUME NEW nodes, AreNodes(nodes), NEW view, NEW k \in DOMAIN nodes, Holders(nodes, view, k) # {},
         NEW h, h = Max(Holders(nodes, view, k))
  PROVE  /\ h \in DOMAIN nodes /\ h \in Around(nodes)[k] /\ h < k /\ ~Opens(view, nodes[h])
         /\ k \in Wrapped(nodes, view, h, nodes[k].name)
<1> DEFINE H == Holders(nodes, view, k)
<1>1. k \in Int /\ \A x \in Around(nodes)[k] : x \in 0..Len(nodes) /\ x \in Int /\ x < k /\ (x # 0 => x \in DOMAIN nodes)
  BY AroundIn
<1>2. h \in H /\ \A x \in H : x <= h
  <2>1. H \in SUBSET Int /\ \A x \in H : x <= k
    BY <1>1 DEF Holders
  <2> HIDE DEF H
  <2> QED BY <1>1, <2>1, GreatestNumber DEF H
<1>3. h \in DOMAIN nodes /\ h \in Around(nodes)[k] /\ h < k /\ ~Opens(view, nodes[h]) /\ h \in Int
  BY <1>1, <1>2 DEF Holders
<1>4. ASSUME NEW x \in Between(nodes, h, k) PROVE Opens(view, nodes[x])
  <2>1. x \in Around(nodes)[k] /\ h \in Around(nodes)[x]
    BY <1>4 DEF Between
  <2>2. x # 0
    <3>1. Around(nodes)[0] = {}
      BY AroundUnfolds
    <3> QED BY <2>1, <3>1
  <2>3. x \in DOMAIN nodes
    BY <1>1, <2>1, <2>2
  <2>4. h < x /\ x \in Int
    BY <2>1, <2>3, AroundIn
  <2>5. ~(x <= h)
    BY <1>3, <2>4
  <2>6. x \notin H
    BY <1>2, <2>5
  <2> QED BY <2>1, <2>2, <2>6 DEF Holders
<1> QED BY <1>3, <1>4 DEF Wrapped

\* A shown table is a block, or stands in a cell of a shown table.
LEMMA ShownStands ==
  ASSUME NEW nodes, AreNodes(nodes), NEW view, NEW t \in DOMAIN nodes, nodes[t].name = "tbl", IsShown(nodes, view, t)
  PROVE  \/ t \in Blocks(nodes, view)
         \/ \E m \in DOMAIN nodes : m < t /\ nodes[m].name = "tbl" /\ IsShown(nodes, view, m) /\ t \in InnerTables(nodes, view, m)
<1>1. \A k \in (Around(nodes)[t] \ {0}) \cup {t} : IsNestedNode(nodes, view, k)
  BY ShownIsNested
<1>2. ASSUME NEW k \in (Around(nodes)[t] \ {0}) \cup {t}, nodes[k].name \in {"tbl", "tr", "tc"},
             NEW h, h = Max(Holders(nodes, view, k)), Holders(nodes, view, k) # {}
      PROVE  /\ h \in DOMAIN nodes /\ h < t /\ h \in Around(nodes)[t] \ {0} /\ k \in Wrapped(nodes, view, h, nodes[k].name)
             /\ <<nodes[k].name, nodes[h].name>> \in {<<"tbl", "tc">>, <<"tc", "tr">>, <<"tr", "tbl">>}
  <2>1. k \in DOMAIN nodes /\ k \in Int /\ t \in Int /\ k <= t /\ (k # t => k \in Around(nodes)[t])
    BY AroundIn
  <2>2. /\ h \in DOMAIN nodes /\ h \in Around(nodes)[k] /\ h < k /\ ~Opens(view, nodes[h])
        /\ k \in Wrapped(nodes, view, h, nodes[k].name)
    BY <1>2, <2>1, HolderIs
  <2>3. h \in Int /\ h # 0
    BY <2>2, AroundIn
  <2>4. h \in Around(nodes)[t]
    <3>1. k # t => Around(nodes)[k] \subseteq Around(nodes)[t]
      BY <2>1, AroundIn
    <3> QED BY <2>2, <3>1
  <2>5. ~Opens(view, nodes[k])
    BY <1>2, OpensWrappers
  <2>6. <<nodes[k].name, nodes[h].name>> \in {<<"tbl", "body">>, <<"tbl", "tc">>, <<"tc", "tr">>, <<"tr", "tbl">>}
    BY <1>1, <1>2, <2>5 DEF IsNestedNode
  <2>7. nodes[h].name # "body"
    <3>1. IsNestedNode(nodes, view, h)
      BY <1>1, <2>3, <2>4
    <3>2. nodes[h].name \in {"tbl", "tc", "tr"}
      BY <2>2, <3>1 DEF IsNestedNode
    <3> QED BY <3>2
  <2>8. h < t
    BY <2>1, <2>2, <2>3
  <2> QED BY <2>2, <2>3, <2>4, <2>6, <2>7, <2>8
<1>3. CASE Holders(nodes, view, t) = {}
  BY <1>3 DEF Holders, Blocks
<1>4. CASE Holders(nodes, view, t) # {}
  <2> DEFINE c == Max(Holders(nodes, view, t))
             r == Max(Holders(nodes, view, c))
             m == Max(Holders(nodes, view, r))
  <2>1. c \in Around(nodes)[t] \ {0} /\ nodes[c].name = "tc" /\ t \in Wrapped(nodes, view, c, "tbl")
    BY <1>2, <1>4
  <2> HIDE DEF c
  <2>2. ~Opens(view, nodes[c]) /\ IsNestedNode(nodes, view, c)
    BY <1>1, <2>1, OpensWrappers
  <2>3. Holders(nodes, view, c) # {}
    BY <2>1, <2>2 DEF IsNestedNode
  <2>4. r \in Around(nodes)[t] \ {0} /\ nodes[r].name = "tr" /\ c \in Wrapped(nodes, view, r, "tc")
    BY <1>2, <2>1, <2>3
  <2> HIDE DEF r
  <2>5. ~Opens(view, nodes[r]) /\ IsNestedNode(nodes, view, r)
    BY <1>1, <2>4, OpensWrappers
  <2>6. Holders(nodes, view, r) # {}
    BY <2>4, <2>5 DEF IsNestedNode
  <2>7. m \in DOMAIN nodes /\ m < t /\ m \in Around(nodes)[t] \ {0} /\ nodes[m].name = "tbl" /\ r \in Wrapped(nodes, view, m, "tr")
    BY <1>2, <2>4, <2>6
  <2> HIDE DEF m
  <2>8. t \in InnerTables(nodes, view, m)
    BY <2>1, <2>4, <2>7 DEF InnerTables, NestedIn, CellsOf
  <2>9. IsShown(nodes, view, m)
    <3>1. Around(nodes)[m] \subseteq Around(nodes)[t]
      BY <2>7, AroundIn
    <3> QED BY <1>1, <2>7, <3>1, ShownIsNested
  <2> QED BY <2>7, <2>8, <2>9
<1> QED BY <1>3, <1>4

\* Each shown table is read with a table that a block reads on its own.
LEMMA ShownIsRead ==
  ASSUME NEW view, NEW part, NEW nodes, nodes = part.nodes, AreNodes(nodes)
  PROVE  \A t \in DOMAIN nodes : nodes[t].name = "tbl" /\ IsShown(nodes, view, t) => \E r \in Roots(nodes, view) : t \in Reads(view, part, r)
<1> DEFINE N == Len(nodes)
           IsRead(t) == nodes[t].name = "tbl" /\ IsShown(nodes, view, t) => \E r \in Roots(nodes, view) : t \in Reads(view, part, r)
           G == {x \in 1..N : \A t \in 1..x : IsRead(t)}
<1>1. N \in Nat /\ DOMAIN nodes = 1..N
  BY SequenceDomain DEF AreNodes
<1>2. ASSUME NEW t \in 1..N, \A m \in 1..N : m < t => IsRead(m) PROVE IsRead(t)
  <2> SUFFICES ASSUME nodes[t].name = "tbl", IsShown(nodes, view, t) PROVE \E r \in Roots(nodes, view) : t \in Reads(view, part, r)
    OBVIOUS
  <2>1. CASE t \in Blocks(nodes, view)
    <3>1. t \in Roots(nodes, view)
      BY <2>1 DEF Roots, RootsOf
    <3>2. IsReading(view, part, t)
      BY <1>1, ReadingsAre
    <3> QED BY <3>1, <3>2 DEF IsReading
  <2>2. CASE \E m \in DOMAIN nodes : m < t /\ nodes[m].name = "tbl" /\ IsShown(nodes, view, m) /\ t \in InnerTables(nodes, view, m)
    <3>1. PICK m \in 1..N : m < t /\ nodes[m].name = "tbl" /\ IsShown(nodes, view, m) /\ t \in InnerTables(nodes, view, m)
      BY <1>1, <2>2
    <3>2. PICK r \in Roots(nodes, view) : m \in Reads(view, part, r)
      BY <1>2, <3>1
    <3>3. r \in DOMAIN nodes /\ nodes[r].name = "tbl"
      <4>1. PICK n \in Blocks(nodes, view) : r \in RootsOf(nodes, view, n)
        BY DEF Roots
      <4> QED BY <4>1, RootsAre
    <3>4. IsReading(view, part, r)
      BY <3>3, ReadingsAre
    <3>5. InnerTables(nodes, view, m) \subseteq Reads(view, part, r)
      BY <3>2, <3>4 DEF IsReading
    <3> QED BY <3>1, <3>5
  <2> QED BY <1>1, <2>1, <2>2, ShownStands
<1> HIDE DEF IsRead, N
<1>3. Inductive(1, N, G)
  <2>1. 1 <= N => 1 \in G
    <3> SUFFICES ASSUME 1 <= N PROVE 1 \in G
      OBVIOUS
    <3>1. 1 \in 1..N /\ \A m \in 1..N : ~(m < 1)
      BY <1>1
    <3>2. IsRead(1)
      BY <1>2, <3>1
    <3>3. \A t \in 1..1 : t = 1
      OBVIOUS
    <3> QED BY <3>1, <3>2, <3>3
  <2>2. ASSUME NEW x \in 1..(N - 1), x \in G PROVE x + 1 \in G
    <3>1. x + 1 \in 1..N /\ \A m \in 1..N : m < x + 1 => m \in 1..x
      BY <1>1
    <3>2. IsRead(x + 1)
      <4>1. \A m \in 1..N : m < x + 1 => IsRead(m)
        BY <2>2, <3>1
      <4> QED BY ONLY <1>2, <3>1, <4>1
    <3>3. \A t \in 1..(x + 1) : t \in 1..x \/ t = x + 1
      BY <1>1
    <3> QED BY <2>2, <3>1, <3>2, <3>3
  <2> HIDE DEF G
  <2> QED BY <2>1, <2>2 DEF Inductive
<1>4. \A x \in 1..N : x \in G
  <2> HIDE DEF G
  <2>1. 1 \in Int /\ N \in Int
    BY <1>1
  <2> QED BY <1>3, <2>1, UpTo
<1>5. \A t \in 1..N : IsRead(t)
  <2> SUFFICES ASSUME NEW t \in 1..N PROVE IsRead(t)
    OBVIOUS
  <2>1. t \in G /\ t \in 1..t
    BY <1>1, <1>4
  <2> QED BY <2>1
<1> QED BY <1>1, <1>5 DEF IsRead

\* No two elements of type TABLE stand for one table.
LEMMA ReadAtMostOnce ==
  ASSUME NEW package, NEW parts, NEW u, NEW d, DocxOf(package, parts, u, d), NEW i \in 1..Len(u), NEW k \in 1..Len(u),
         d[i].type = "TABLE", d[k].type = "TABLE", d[i].group = d[k].group
  PROVE  i = k
<1>1. DOMAIN u = 1..Len(u)
  BY ListsOfDocx
<1>2. Tabled(d[i]) /\ Tabled(d[k])
  BY DEF Tabled, TableTypes
<1>3. d[i] = u[i] /\ d[k] = u[k]
  BY <1>2, ElementsOfDocx
<1>4. Sound(u, InsideParts(package), {})
  BY ObservationsAre DEF DocxOf
<1> QED BY <1>1, <1>3, <1>4 DEF Sound

\* What stands for the table of the body at node t.
StandsFor(d, t) == \E j \in DOMAIN d : d[j].type = "TABLE" /\ d[j].group = <<"table", "document", t>>

\* A table that the body shows is read.
LEMMA ShownIsObserved ==
  ASSUME NEW package, NEW parts, NEW u, NEW d, DocxOf(package, parts, u, d)
  PROVE  \A t \in DOMAIN package.body :
           package.body[t].name = "tbl" /\ IsShown(package.body, package.policy.view, t) => StandsFor(d, t)
<1> SUFFICES ASSUME NEW t \in DOMAIN package.body, package.body[t].name = "tbl", IsShown(package.body, package.policy.view, t)
             PROVE  StandsFor(d, t)
  OBVIOUS
<1> DEFINE part == parts[1]
           nodes == package.body
           view == package.policy.view
           p == PartElements(package, part)
           s == Piece(package, 1)
<1>1. IsPackage(package) /\ ~RepeatsNote(package) /\ parts = PartsOf(package) /\ u = Observations(package)
  BY DEF DocxOf
<1>2. 1 \in 1..Len(parts) /\ part = BodyPart(package) /\ IsTree(part.nodes, view)
  BY <1>1, PartsAre
<1>15. t \in DOMAIN nodes /\ nodes[t].name = "tbl" /\ IsShown(nodes, view, t)
  OBVIOUS
<1>3. part.nodes = nodes /\ part.name = "document"
  BY <1>2 DEF BodyPart
<1>4. IsTree(nodes, view) /\ AreNodes(nodes)
  BY <1>2, <1>3 DEF IsTree, AreNodes
<1>5. PICK r \in Roots(nodes, view) : t \in Reads(view, part, r)
  BY <1>3, <1>4, <1>15, ShownIsRead
<1>6. GroupOf(part, t) \in GroupsIn(TableElements(view, part, r))
  BY <1>5 DEF Reads
<1>7. GroupOf(part, t) \in GroupsIn(p)
  <2>1. ASSUME NEW h PROVE h \in GroupsIn(p) <=> \E m \in Roots(nodes, view) : h \in GroupsIn(TableElements(view, part, m))
    <3>1. nodes = part.nodes /\ view = package.policy.view /\ p = PartElements(package, part)
      BY <1>3
    <3> HIDE DEF nodes, part, view, p
    <3> QED BY ONLY <1>4, <3>1, PartIsSound
  <2> HIDE DEF p, part, view, nodes
  <2> QED BY <1>5, <1>6, <2>1
<1>8. GroupOf(part, t) \in HeadsIn(s)
  <2>1. HeadsIn(s) = GroupsIn(p)
    BY <1>1, <1>2, PieceIs
  <2> QED BY <1>7, <2>1
<1>9. PICK e \in ToSet(s) : e.type = "TABLE" /\ e.group = GroupOf(part, t)
  BY <1>8 DEF HeadsIn
<1>10. e \in ToSet(u)
  BY <1>1, <1>2, <1>9, ObservationsAre
<1>11. IsSequence(u)
  <2>1. Sound(u, InsideParts(package), {})
    BY <1>1, ObservationsAre
  <2> QED BY <2>1 DEF Sound
<1>12. PICK j \in 1..Len(u) : u[j] = e
  <2>1. ToSet(u) = {u[k] : k \in 1..Len(u)}
    BY <1>11, SequenceDomain DEF ToSet
  <2> QED BY <1>10, <2>1
<1>13. d[j] = u[j]
  <2>1. u[j].type # "LIST_ITEM"
    BY <1>9, <1>12
  <2> QED BY <2>1, ListsOfDocx
<1>14. GroupOf(part, t) = <<"table", "document", t>>
  BY <1>3 DEF GroupOf
<1>16. DOMAIN d = 1..Len(u)
  BY ListsOfDocx
<1> QED BY <1>9, <1>12, <1>13, <1>14, <1>16 DEF StandsFor

\* Of the body of a Word document each table is read at most once, and each shown one is.
LEMMA DocxIsReadOnce ==
  ASSUME NEW package, NEW parts, NEW u, DocxOf(package, parts, u, raw)
  PROVE  TablesAreReadOnce(package.body, package.policy.view)
<1> DEFINE readings(t) == {i \in DOMAIN raw : raw[i].type = "TABLE" /\ raw[i].group = <<"table", "document", t>>}
<1>1. DOMAIN raw = 1..Len(u)
  BY ListsOfDocx
<1>2. \A i, k \in 1..Len(u) : raw[i].type = "TABLE" /\ raw[k].type = "TABLE" /\ raw[i].group = raw[k].group => i = k
  BY ReadAtMostOnce
<1>3. \A t \in DOMAIN package.body :
        package.body[t].name = "tbl" /\ IsShown(package.body, package.policy.view, t) => StandsFor(raw, t)
  BY ShownIsObserved
<1>4. ASSUME NEW t PROVE Cardinality(readings(t)) <= 1
  <2>1. \A i, k \in readings(t) : i = k
    BY <1>1, <1>2
  <2> HIDE DEF readings
  <2>2. CASE readings(t) = {}
    BY <2>2, FS_EmptySet
  <2>3. CASE readings(t) # {}
    <3>1. PICK i \in readings(t) : readings(t) = {i}
      BY <2>1, <2>3
    <3>2. Cardinality({i}) = 1
      BY FS_Singleton
    <3> QED BY <3>1, <3>2
  <2> QED BY <2>2, <2>3
<1>5. ASSUME NEW t \in DOMAIN package.body, package.body[t].name = "tbl", IsShown(package.body, package.policy.view, t)
      PROVE  readings(t) # {}
  <2>1. StandsFor(raw, t)
    BY <1>3, <1>5
  <2> QED BY <2>1 DEF StandsFor
<1> HIDE DEF readings
<1>6. \A t \in {n \in DOMAIN package.body : package.body[n].name = "tbl"} :
        Cardinality(readings(t)) <= 1 /\ (IsShown(package.body, package.policy.view, t) => readings(t) # {})
  BY <1>4, <1>5
<1> QED BY <1>6 DEF TablesAreReadOnce, readings

\* What is observed of a Word document is orderly, and of its body every shown table
\* is read once.
LEMMA ObservedDocxIsOrderly ==
  ASSUME source \in Sources, IsObserved, source.format = "docx"
  PROVE  /\ Orderly(Normalised(raw))
         /\ raw # <<>> => TablesAreReadOnce(source.package.body, source.package.policy.view)
<1>1. CASE raw = <<>>
  BY <1>1, NothingIsOrderly
<1>2. CASE raw # <<>>
  <2>1. raw = DocxElements(source.package) /\ ~RepeatsNote(source.package)
    BY <1>2 DEF IsObserved, Adaptable, Observed, DocxReadable
  <2>2. IsPackage(source.package)
    BY SourcesAssumption
  <2>3. DocxOf(source.package, PartsOf(source.package), Observations(source.package), raw)
    BY <2>1, <2>2 DEF DocxOf
  <2>4. Orderly(Normalised(raw))
    BY <2>1, <2>2, DocxIsOrderly
  <2> QED BY <2>3, <2>4, DocxIsReadOnce
<1> QED BY <1>1, <1>2

\* Each source that can be decoded or opened is understood and projected, and each
\* table that a Word document shows is read once.
THEOREM TextIsUnderstoodAlways == Spec => []TextIsUnderstood
<1>1. source \in Sources /\ IsObserved /\ (IsOrderlyReading => IsUnderstood) => TextIsUnderstood
  <2> SUFFICES ASSUME source \in Sources, IsObserved, IsOrderlyReading => IsUnderstood, source.format \in {"text", "markdown", "docx"}
               PROVE  /\ AddsNothing /\ ReadsPlainly => IsUnderstood
                      /\ source.format = "docx" /\ raw # <<>> => TablesAreReadOnce(source.package.body, source.package.policy.view)
    BY DEF TextIsUnderstood, AddsNothing, IsUnderstood
  <2>1. Orderly(Normalised(raw))
    BY ObservedLinesAreOrderly, ObservedDocxIsOrderly
  <2>2. source.format = "docx" /\ raw # <<>> => TablesAreReadOnce(source.package.body, source.package.policy.view)
    BY ObservedDocxIsOrderly
  <2> QED BY <2>1, <2>2 DEF IsOrderlyReading
<1> QED BY <1>1, ObservedAlways, OrderlyIsAlwaysUnderstood, PTL
===============================================================================
