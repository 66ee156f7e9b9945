------------------------- MODULE OrderlyReadingProofs -------------------------
(***************************************************************************)
(* Orderly documents are understood: the second part of the proofs about   *)
(* SourceReading.  An orderly document (Orderly) is what the adapters of   *)
(* text make: the items of a list stand together, between two elements of  *)
(* a table are only those of tables inside of it, and margins are set off  *)
(* by something new.  Of such a document the guard of each stage           *)
(* is shown to accept what the stages before it have made: spans, units,   *)
(* regions, outline, relations, hierarchy and the assembled document.      *)
(* Text and Markdown are orderly, so they are always understood.           *)
(***************************************************************************)
EXTENDS SourceReadingProofs

-----------------------------------------------------------------------------
(* The runs and the units of an orderly document.                          *)

\* The runs of the positions in F, broken before those in B.
RunsIn(n, F, B) ==
  LET Starts == {i \in 1..n : i \in F /\ (i = 1 \/ i - 1 \notin F \/ i \in B)}
      End(i) == Max({j \in i..n : \A k \in i..j : k \in F /\ (k = i \/ k \notin B)})
  IN {i..End(i) : i \in Starts}

\* Runs are intervals, and no two of them meet.
LEMMA RunsAreApart ==
  ASSUME NEW n \in Nat, NEW F, NEW B
  PROVE  /\ \A run \in RunsIn(n, F, B) :
              \E i, e \in 1..n : /\ i <= e /\ run = i..e /\ run \subseteq F
                                 /\ \A k \in (i + 1)..e : k \notin B
         /\ Disjoint(RunsIn(n, F, B))
<1> DEFINE Reach(i) == {j \in i..n : \A k \in i..j : k \in F /\ (k = i \/ k \notin B)}
           IsStart(i) == i \in F /\ (i = 1 \/ i - 1 \notin F \/ i \in B)
<1>1. ASSUME NEW i \in 1..n, IsStart(i) PROVE Max(Reach(i)) \in Reach(i)
  <2>1. i \in Reach(i) /\ Reach(i) \in SUBSET (i..n)
    BY <1>1
  <2> HIDE DEF Reach
  <2> QED BY <2>1, Reaching
<1>2. \A run \in RunsIn(n, F, B) : \E i \in 1..n : IsStart(i) /\ run = i..Max(Reach(i))
  BY DEF RunsIn
<1>3. ASSUME NEW run \in RunsIn(n, F, B)
      PROVE  \E i, e \in 1..n : /\ i <= e /\ run = i..e /\ run \subseteq F /\ IsStart(i)
                                /\ \A k \in (i + 1)..e : k \notin B
  <2>1. PICK i \in 1..n : IsStart(i) /\ run = i..Max(Reach(i))
    BY <1>2
  <2> DEFINE e == Max(Reach(i))
  <2>2. e \in Reach(i)
    BY <1>1, <2>1
  <2>3. run = i..e
    BY <2>1
  <2> HIDE DEF e
  <2>4. e \in i..n /\ \A k \in i..e : k \in F /\ (k = i \/ k \notin B)
    BY <2>2
  <2>5. i \in 1..n /\ e \in 1..n /\ i <= e /\ run \subseteq F /\ \A k \in (i + 1)..e : k \notin B
    BY <2>3, <2>4
  <2> HIDE DEF Reach
  <2> QED BY <2>1, <2>3, <2>5
<1> HIDE DEF Reach
<1>4. ASSUME NEW i \in 1..n, NEW e \in 1..n, NEW j \in 1..n, NEW f \in 1..n, IsStart(j),
             i..e \subseteq F, \A k \in (i + 1)..e : k \notin B, i < j
      PROVE  (i..e) \cap (j..f) = {}
  <2> SUFFICES ASSUME j <= e PROVE FALSE
    OBVIOUS
  <2>1. j \in (i + 1)..e /\ j - 1 \in i..e
    BY <1>4
  <2> QED BY <1>4, <2>1
<1>5. ASSUME NEW r \in RunsIn(n, F, B), NEW s \in RunsIn(n, F, B), r # s PROVE r \cap s = {}
  <2>1. PICK i \in 1..n, e \in 1..n : r = i..e /\ r \subseteq F /\ IsStart(i) /\ (\A k \in (i + 1)..e : k \notin B) /\ r = i..Max(Reach(i))
    <3>1. PICK i \in 1..n : IsStart(i) /\ r = i..Max(Reach(i))
      BY <1>2
    <3>2. Max(Reach(i)) \in Reach(i)
      BY <1>1, <3>1
    <3> DEFINE e == Max(Reach(i))
    <3> HIDE DEF e
    <3>3. e \in 1..n /\ \A k \in i..e : k \in F /\ (k = i \/ k \notin B)
      BY <3>2 DEF e, Reach
    <3> QED BY <3>1, <3>3 DEF e
  <2>2. PICK j \in 1..n, f \in 1..n : s = j..f /\ s \subseteq F /\ IsStart(j) /\ (\A k \in (j + 1)..f : k \notin B) /\ s = j..Max(Reach(j))
    <3>1. PICK j \in 1..n : IsStart(j) /\ s = j..Max(Reach(j))
      BY <1>2
    <3>2. Max(Reach(j)) \in Reach(j)
      BY <1>1, <3>1
    <3> DEFINE last == Max(Reach(j))
    <3> HIDE DEF last
    <3>3. last \in 1..n /\ \A k \in j..last : k \in F /\ (k = j \/ k \notin B)
      BY <3>2 DEF last, Reach
    <3> QED BY <3>1, <3>3 DEF last
  <2>3. i # j
    BY <1>5, <2>1, <2>2
  <2>4. CASE i < j
    BY <1>4, <2>1, <2>2, <2>4
  <2>5. CASE j < i
    <3>1. (j..f) \cap (i..e) = {}
      BY <1>4, <2>1, <2>2, <2>5
    <3> QED BY <2>1, <2>2, <3>1
  <2> QED BY <2>3, <2>4, <2>5
<1>6. Disjoint(RunsIn(n, F, B))
  BY <1>5 DEF Disjoint
<1> QED BY <1>3, <1>6

\* A block of text is an interval of free elements of text types, and no two meet.
LEMMA TextBlocksAre ==
  ASSUME NEW d, NEW bb, Len(d) \in Nat, NEW taken
  PROVE  /\ \A s \in TextBlocks(d, bb, taken) :
              \E i, e \in 1..Len(d) :
                i <= e /\ s = i..e /\ \A k \in s : k \notin taken /\ d[k].type \in FallbackTypes
         /\ Disjoint(TextBlocks(d, bb, taken))
<1> DEFINE n == Len(d)
           F == {i \in 1..n : i \notin taken /\ d[i].type \in FallbackTypes}
           B == {i \in 1..n : Cuts(bb, i)}
<1>1. TextBlocks(d, bb, taken) = RunsIn(n, F, B)
  <2> DEFINE Suits(i) == i \notin taken /\ d[i].type \in FallbackTypes
             Starts == {i \in 1..n : Suits(i) /\ (i = 1 \/ ~Suits(i - 1) \/ Cuts(bb, i))}
             StartsIn == {i \in 1..n : i \in F /\ (i = 1 \/ i - 1 \notin F \/ i \in B)}
             R(i) == {j \in i..n : \A k \in i..j : Suits(k) /\ (k = i \/ ~Cuts(bb, k))}
             S(i) == {j \in i..n : \A k \in i..j : k \in F /\ (k = i \/ k \notin B)}
  <2>1. ASSUME NEW i \in 1..n PROVE R(i) = S(i) /\ (i \in Starts <=> i \in StartsIn)
    <3>1. \A k \in 1..n : (k \in F <=> Suits(k)) /\ (k \in B <=> Cuts(bb, k))
      OBVIOUS
    <3>2. i - 1 \in 1..n \/ i = 1
      OBVIOUS
    <3> HIDE DEF F, B, Suits
    <3>3. \A j \in i..n : \A k \in i..j : k \in 1..n
      OBVIOUS
    <3> QED BY <3>1, <3>2, <3>3
  <2>2. TextBlocks(d, bb, taken) = {i..Max(R(i)) : i \in Starts}
    BY DEF TextBlocks, Runs
  <2>3. RunsIn(n, F, B) = {i..Max(S(i)) : i \in StartsIn}
    BY DEF RunsIn
  <2> HIDE DEF R, S
  <2>4. Starts \subseteq 1..n /\ StartsIn \subseteq 1..n
    OBVIOUS
  <2> HIDE DEF Starts, StartsIn
  <2> QED BY <2>1, <2>2, <2>3, <2>4
<1>2. \A k \in F : k \notin taken /\ d[k].type \in FallbackTypes
  OBVIOUS
<1> HIDE DEF F, B
<1>3. /\ \A run \in RunsIn(n, F, B) : \E i, e \in 1..n : i <= e /\ run = i..e /\ run \subseteq F
      /\ Disjoint(RunsIn(n, F, B))
  BY RunsAreApart
<1> QED BY <1>1, <1>2, <1>3

\* The runs of one family are intervals of it, and no two meet.
LEMMA FamilyRunsAre ==
  ASSUME NEW d, NEW bb, Len(d) \in Nat, NEW family
  PROVE  /\ \A s \in FamilyRuns(d, bb, family) :
              \E i, e \in 1..Len(d) :
                i <= e /\ s = i..e /\ \A k \in s : k \notin Keyed(d) /\ Family(d[k].type) = family
         /\ Disjoint(FamilyRuns(d, bb, family))
<1> DEFINE n == Len(d)
           F == {i \in 1..n : i \notin Keyed(d) /\ Family(d[i].type) = family}
           B == {i \in 1..n : bb[i - 1].class = "HARD"}
<1>1. FamilyRuns(d, bb, family) = RunsIn(n, F, B)
  <2> DEFINE Suits(i) == i \notin Keyed(d) /\ Family(d[i].type) = family
             Breaks(i) == bb[i - 1].class = "HARD"
             Starts == {i \in 1..n : Suits(i) /\ (i = 1 \/ ~Suits(i - 1) \/ Breaks(i))}
             StartsIn == {i \in 1..n : i \in F /\ (i = 1 \/ i - 1 \notin F \/ i \in B)}
             R(i) == {j \in i..n : \A k \in i..j : Suits(k) /\ (k = i \/ ~Breaks(k))}
             S(i) == {j \in i..n : \A k \in i..j : k \in F /\ (k = i \/ k \notin B)}
  <2>1. ASSUME NEW i \in 1..n PROVE R(i) = S(i) /\ (i \in Starts <=> i \in StartsIn)
    <3>1. \A k \in 1..n : (k \in F <=> Suits(k)) /\ (k \in B <=> Breaks(k))
      OBVIOUS
    <3>2. i - 1 \in 1..n \/ i = 1
      OBVIOUS
    <3> HIDE DEF F, B, Suits, Breaks
    <3>3. \A j \in i..n : \A k \in i..j : k \in 1..n
      OBVIOUS
    <3> QED BY <3>1, <3>2, <3>3
  <2>2. FamilyRuns(d, bb, family) = {i..Max(R(i)) : i \in Starts}
    BY DEF FamilyRuns, Runs
  <2>3. RunsIn(n, F, B) = {i..Max(S(i)) : i \in StartsIn}
    BY DEF RunsIn
  <2> HIDE DEF R, S
  <2>4. Starts \subseteq 1..n /\ StartsIn \subseteq 1..n
    OBVIOUS
  <2> HIDE DEF Starts, StartsIn
  <2> QED BY <2>1, <2>2, <2>3, <2>4
<1>2. \A k \in F : k \notin Keyed(d) /\ Family(d[k].type) = family
  OBVIOUS
<1> HIDE DEF F, B
<1>3. /\ \A run \in RunsIn(n, F, B) : \E i, e \in 1..n : i <= e /\ run = i..e /\ run \subseteq F
      /\ Disjoint(RunsIn(n, F, B))
  BY RunsAreApart
<1> QED BY <1>1, <1>2, <1>3

ArePaired(d, bb, paired) ==
  /\ QAPairs(d, bb) = paired[Len(d)] /\ paired[0] = {}
  /\ \A i \in 1..Len(d) :
       paired[i] = IF i < Len(d) /\ bb[i].guard = "QA_PAIR" /\ {i - 1, i} \notin paired[i - 1]
                   THEN paired[i - 1] \cup {{i, i + 1}} ELSE paired[i - 1]

IsListFrom(d, bb, taken, i, last) ==
  /\ LexicalList(d, bb, taken, i) = i..last /\ Max(LexicalList(d, bb, taken, i)) = last
  /\ \A k \in i..last : k \notin taken /\ d[k].type = "PARAGRAPH"

AreListedFrom(d, bb, taken, from) ==
  /\ LexicalLists(d, bb, taken) = from[1]
  /\ \A i \in 1..(Len(d) + 1) : from[i] =
       IF i > Len(d) THEN {}
       ELSE IF BeginsList(d, bb, taken, i)
            THEN {LexicalList(d, bb, taken, i)} \cup from[Max(LexicalList(d, bb, taken, i)) + 1]
            ELSE from[i + 1]

\* The pairs of question and answer unfolded: one element after the other.
LEMMA PairsUnfold ==
  ASSUME NEW d, NEW bb, Len(d) \in Nat
  PROVE  \E paired : ArePaired(d, bb, paired)
<1> DEFINE n == Len(d)
           IsPair(i) == bb[i].guard = "QA_PAIR"
           V == SUBSET SUBSET (1..n)
           Made(i, before) == IF i < n /\ IsPair(i) /\ {i - 1, i} \notin before THEN before \cup {{i, i + 1}} ELSE before
           step == [p \in (1..n) \X V |-> Made(p[1], p[2])]
           Unfolds(F) == F = [i \in 0..n |->
             IF i = 0 THEN {} ELSE IF i < n /\ IsPair(i) /\ {i - 1, i} \notin F[i - 1]
                                   THEN F[i - 1] \cup {{i, i + 1}} ELSE F[i - 1]]
<1>1. ASSUME NEW i \in 1..n, NEW before \in V PROVE Made(i, before) \in V
  <2>1. i < n => {i, i + 1} \subseteq 1..n
    OBVIOUS
  <2> QED BY <2>1
<1>2. IsIteration(n, V, {}, step)
  <2>1. \A p \in (1..n) \X V : step[p] \in V
    <3> SUFFICES ASSUME NEW i \in 1..n, NEW before \in V PROVE step[<<i, before>>] \in V
      OBVIOUS
    <3>1. step[<<i, before>>] = Made(i, before)
      OBVIOUS
    <3> QED BY <1>1, <3>1
  <2>2. {} \in V
    OBVIOUS
  <2>3. step \in [(1..n) \X V -> V]
    <3> HIDE DEF V, Made
    <3> QED BY <2>1
  <2> HIDE DEF V, step
  <2> QED BY <2>2, <2>3 DEF IsIteration
<1>3. PICK f \in [0..n -> V] : f[0] = {} /\ \A i \in 1..n : f[i] = step[<<i, f[i - 1]>>]
  <2> HIDE DEF V, step
  <2> QED BY <1>2, IterationExists
<1>4. Unfolds(f)
  <2>1. ASSUME NEW i \in 1..n PROVE f[i] = Made(i, f[i - 1])
    <3>1. f[i - 1] \in V
      OBVIOUS
    <3> HIDE DEF V, Made
    <3> QED BY <1>3, <3>1
  <2>2. f = [i \in 0..n |-> f[i]]
    OBVIOUS
  <2>3. \A i \in 0..n : i = 0 \/ i \in 1..n
    OBVIOUS
  <2>4. \A i \in 0..n : f[i] = IF i = 0 THEN {} ELSE Made(i, f[i - 1])
    <3> HIDE DEF V, Made
    <3> QED BY <1>3, <2>1, <2>3
  <2> HIDE DEF step, V
  <2> QED BY <2>2, <2>4
<1> DEFINE paired == CHOOSE F : Unfolds(F)
<1>5. Unfolds(paired)
  BY <1>4
<1>6. QAPairs(d, bb) = paired[n]
  BY DEF QAPairs
<1> HIDE DEF paired
<1>7. 0 \in 0..n /\ \A i \in 1..n : i \in 0..n /\ i # 0
  OBVIOUS
<1>8. paired[0] = {} /\ \A i \in 1..n : paired[i] = Made(i, paired[i - 1])
  BY <1>5, <1>7
<1> QED BY <1>6, <1>8 DEF ArePaired

\* Questions with their answers are pairs of neighbours, and no two of them meet.
LEMMA PairsAre ==
  ASSUME NEW d, NEW bb, Len(d) \in Nat
  PROVE  /\ \A s \in QAPairs(d, bb) : \E i \in 1..(Len(d) - 1) : s = {i, i + 1} /\ bb[i].guard = "QA_PAIR"
         /\ Disjoint(QAPairs(d, bb))
<1> DEFINE n == Len(d)
           Fine(i, set) == /\ \A s \in set : \E k \in 1..i : k < n /\ s = {k, k + 1} /\ bb[k].guard = "QA_PAIR"
                           /\ Disjoint(set)
<1>0. PICK paired : ArePaired(d, bb, paired)
  BY PairsUnfold
<1>1. /\ QAPairs(d, bb) = paired[n] /\ paired[0] = {}
     /\ \A i \in 1..n :
          paired[i] = IF i < n /\ bb[i].guard = "QA_PAIR" /\ {i - 1, i} \notin paired[i - 1]
                      THEN paired[i - 1] \cup {{i, i + 1}} ELSE paired[i - 1]
  BY <1>0 DEF ArePaired
<1> DEFINE G == {i \in 0..n : Fine(i, paired[i])}
<1>2. ASSUME NEW i \in 0..(n - 1), Fine(i, paired[i]) PROVE Fine(i + 1, paired[i + 1])
  <2>1. i + 1 \in 1..n /\ (i + 1) - 1 = i
    OBVIOUS
  <2>2. paired[i + 1] = IF i + 1 < n /\ bb[i + 1].guard = "QA_PAIR" /\ {i, i + 1} \notin paired[i]
                        THEN paired[i] \cup {{i + 1, (i + 1) + 1}} ELSE paired[i]
    BY <1>1, <2>1
  <2>3. \A k \in 1..i : k \in 1..(i + 1)
    OBVIOUS
  <2>4. CASE paired[i + 1] = paired[i]
    BY <1>2, <2>3, <2>4
  <2>5. CASE i + 1 < n /\ bb[i + 1].guard = "QA_PAIR" /\ {i, i + 1} \notin paired[i] /\ paired[i + 1] = paired[i] \cup {{i + 1, (i + 1) + 1}}
    <3>1. ASSUME NEW s \in paired[i] PROVE s \cap {i + 1, (i + 1) + 1} = {}
      <4>1. PICK k \in 1..i : s = {k, k + 1}
        BY <1>2
      <4>2. k # i
        BY <2>5, <4>1
      <4> QED BY <4>1, <4>2
    <3>2. Disjoint(paired[i + 1])
      BY <1>2, <2>5, <3>1 DEF Disjoint
    <3>3. \A s \in paired[i + 1] : \E k \in 1..(i + 1) : k < n /\ s = {k, k + 1} /\ bb[k].guard = "QA_PAIR"
      BY <1>2, <2>1, <2>3, <2>5
    <3> QED BY <3>2, <3>3
  <2> QED BY <2>2, <2>4, <2>5
<1>3. Inductive(0, n, G)
  <2>1. Fine(0, paired[0])
    BY <1>1 DEF Disjoint
  <2>2. 0 \in 0..n /\ \A i \in 0..(n - 1) : i + 1 \in 0..n
    OBVIOUS
  <2> HIDE DEF Fine
  <2> QED BY <1>2, <2>1, <2>2 DEF Inductive
<1> HIDE DEF G, Fine
<1>4. n \in G
  <2>1. n \in 0..n
    OBVIOUS
  <2> QED BY <1>3, <2>1, UpTo
<1>5. Fine(n, paired[n])
  BY <1>4 DEF G
<1> QED BY <1>1, <1>5 DEF Fine

\* A list without markup goes from where it begins to its last paragraph.
LEMMA LexicalListIs ==
  ASSUME NEW d, NEW bb, Len(d) \in Nat, NEW taken, NEW i \in 1..Len(d), BeginsList(d, bb, taken, i)
  PROVE  \E last \in i..Len(d) : IsListFrom(d, bb, taken, i, last)
<1> DEFINE n == Len(d)
           Free(k) == k \notin taken /\ (IsMarker(d[k]) \/ IsBlankParagraph(d[k]))
           Reaches(m) ==
             /\ IsMarker(d[m])
             /\ \A k \in i..m : Free(k) /\ (k = i \/ ~Cuts(bb, k))
             /\ \A k \in i..(m - MaxBlanks) : \E j \in k..(k + MaxBlanks) : IsMarker(d[j])
           T == {m \in i..n : Reaches(m)}
           last == Max(T)
<1>1. Reaches(i)
  <2>1. IsMarker(d[i]) /\ i \notin taken
    BY DEF BeginsList
  <2>2. MaxBlanks \in Nat
    BY GroupingAssumption
  <2>3. \A k \in i..i : k = i
    OBVIOUS
  <2>4. \A k \in i..(i - MaxBlanks) : k = i /\ i \in k..(k + MaxBlanks)
    BY <2>2
  <2> QED BY <2>1, <2>3, <2>4
<1>2. i \in T /\ T \in SUBSET (i..n)
  <2> HIDE DEF Reaches
  <2> QED BY <1>1
<1>3. LexicalList(d, bb, taken, i) = i..last
  BY DEF LexicalList
<1> HIDE DEF T
<1>4. last \in i..n /\ last \in T
  BY <1>2, Reaching
<1> HIDE DEF last
<1>5. Max(i..last) = last
  <2> DEFINE R == i..last
  <2>0. i <= last /\ i \in Int /\ last \in Int
    BY <1>4
  <2>1. R # {} /\ R \in SUBSET (i..last) /\ last \in R /\ \A k \in R : k <= last
    BY <2>0
  <2> HIDE DEF R
  <2>2. Max(R) \in R /\ \A k \in R : k <= Max(R)
    BY <2>0, <2>1, ExtremeOfInterval
  <2>3. R \subseteq Int
    BY <2>0 DEF R
  <2>4. Max(R) \in Int /\ last <= Max(R) /\ Max(R) <= last
    BY <2>1, <2>2, <2>3
  <2>5. Max(R) = last
    BY <2>0, <2>4
  <2> QED BY <2>5 DEF R
<1>6. \A k \in i..last : Free(k)
  BY <1>4 DEF T
<1>7. \A k : Free(k) => k \notin taken /\ d[k].type = "PARAGRAPH"
  BY DEF IsMarker, IsBlankParagraph
<1> HIDE DEF Free, Reaches
<1> QED BY <1>3, <1>4, <1>5, <1>6, <1>7 DEF IsListFrom

\* The lists without markup unfolded: what is known from each element on.
LEMMA ListsUnfold ==
  ASSUME NEW d, NEW bb, Len(d) \in Nat, NEW taken
  PROVE  \E from : AreListedFrom(d, bb, taken, from)
<1> DEFINE n == Len(d)
           S == 1..(n + 1)
           V == SUBSET SUBSET (1..n)
           rank == [i \in S |-> n + 1 - i]
           Begins(i) == BeginsList(d, bb, taken, i)
           List(i) == LexicalList(d, bb, taken, i)
           Made(i, f) == IF i > n THEN {} ELSE IF Begins(i) THEN {List(i)} \cup f[Max(List(i)) + 1] ELSE f[i + 1]
           step == [p \in S \X [S -> V] |-> Made(p[1], p[2])]
           Unfolds(from) == from = [i \in S |->
             IF i > n THEN {}
             ELSE IF Begins(i)
                  THEN {LexicalList(d, bb, taken, i)} \cup from[Max(LexicalList(d, bb, taken, i)) + 1]
                  ELSE from[i + 1]]
<1>1. ASSUME NEW i \in S, ~(i > n)
      PROVE  /\ i \in 1..n /\ i + 1 \in S /\ rank[i + 1] < rank[i]
             /\ Begins(i) => List(i) \in SUBSET (1..n) /\ Max(List(i)) + 1 \in S /\ rank[Max(List(i)) + 1] < rank[i]
  <2>1. i \in 1..n
    BY <1>1
  <2>2. ASSUME Begins(i) PROVE List(i) \in SUBSET (1..n) /\ Max(List(i)) \in i..n
    <3>0. PICK last \in i..Len(d) : IsListFrom(d, bb, taken, i, last)
      BY <2>1, <2>2, LexicalListIs
    <3>1. last \in i..n /\ List(i) = i..last /\ Max(List(i)) = last
      BY <3>0 DEF IsListFrom
    <3> QED BY <3>1
  <2> HIDE DEF Begins, List
  <2> QED BY <2>1, <2>2
<1> HIDE DEF Begins, List
<1>2. \A i \in S : \A f : (\A y \in S : rank[y] < rank[i] => f[y] \in V) => Made(i, f) \in V
  <2> SUFFICES ASSUME NEW i \in S, NEW f, \A y \in S : rank[y] < rank[i] => f[y] \in V PROVE Made(i, f) \in V
    OBVIOUS
  <2> HIDE DEF S, rank
  <2> QED BY <1>1
<1>3. \A i \in S : \A g, h : (\A y \in S : rank[y] < rank[i] => g[y] = h[y]) => Made(i, g) = Made(i, h)
  <2> SUFFICES ASSUME NEW i \in S, NEW g, NEW h, \A y \in S : rank[y] < rank[i] => g[y] = h[y] PROVE Made(i, g) = Made(i, h)
    OBVIOUS
  <2> HIDE DEF S, rank
  <2> QED BY <1>1
<1>4. rank \in [S -> Nat]
  OBVIOUS
<1>5. \A i \in S : \A g \in [S -> V] : step[<<i, g>>] = Made(i, g)
  OBVIOUS
<1>6. \A F : Unfolds(F) <=> F = [i \in S |-> Made(i, F)]
  BY DEF List
<1> HIDE DEF Made, Unfolds, rank
<1>7. \E f : Unfolds(f)
  <2>1. V # {}
    <3>1. {} \in V
      OBVIOUS
    <3> QED BY <3>1
  <2>2. step \in [S \X [S -> V] -> V]
    <3>1. \A p \in S \X [S -> V] : Made(p[1], p[2]) \in V
      <4> SUFFICES ASSUME NEW i \in S, NEW g \in [S -> V] PROVE Made(i, g) \in V
        OBVIOUS
      <4>1. \A y \in S : g[y] \in V
        OBVIOUS
      <4> HIDE DEF S, V
      <4> QED BY <1>2, <4>1
    <3> HIDE DEF S, V
    <3> QED BY <3>1
  <2> HIDE DEF step, S, V
  <2>3. LooksDown(S, V, rank, step)
    BY <1>3, <1>5 DEF LooksDown
  <2>4. IsRecursion(S, V, rank, step)
    BY <1>4, <2>1, <2>2, <2>3 DEF IsRecursion
  <2>5. PICK f \in [S -> V] : \A i \in S : f[i] = step[<<i, f>>]
    BY <2>4, RecursionHasSolution
  <2>6. f = [i \in S |-> Made(i, f)]
    BY <1>5, <2>5
  <2> QED BY <1>6, <2>6
<1> DEFINE from == CHOOSE F : Unfolds(F)
<1>8. Unfolds(from)
  BY <1>7
<1>9. LexicalLists(d, bb, taken) = from[1]
  BY DEF LexicalLists, Unfolds, BeginsList, Begins
<1> HIDE DEF from
<1>10. \A i \in S : from[i] = Made(i, from)
  BY <1>6, <1>8
<1> QED BY <1>9, <1>10 DEF Made, Begins, List, AreListedFrom

\* Lists that are only marked by their text are intervals of free paragraphs, and
\* no two of them meet.
LEMMA ListsAre ==
  ASSUME NEW d, NEW bb, Len(d) \in Nat, NEW taken
  PROVE  /\ \A s \in LexicalLists(d, bb, taken) :
              \E i, e \in 1..Len(d) :
                i <= e /\ s = i..e /\ \A k \in s : k \notin taken /\ d[k].type = "PARAGRAPH"
         /\ Disjoint(LexicalLists(d, bb, taken))
<1> DEFINE n == Len(d)
           S == 1..(n + 1)
           rank == [i \in S |-> n + 1 - i]
           Fine(i, set) == /\ \A s \in set :
                                \E a, e \in i..n : a <= e /\ s = a..e /\ \A k \in s : k \notin taken /\ d[k].type = "PARAGRAPH"
                           /\ Disjoint(set)
           List(i) == LexicalList(d, bb, taken, i)
<1>0. PICK from : AreListedFrom(d, bb, taken, from)
  BY ListsUnfold
<1>1. /\ LexicalLists(d, bb, taken) = from[1]
                  /\ \A i \in S : from[i] =
                        IF i > n THEN {}
                        ELSE IF BeginsList(d, bb, taken, i) THEN {List(i)} \cup from[Max(List(i)) + 1]
                             ELSE from[i + 1]
  BY <1>0 DEF AreListedFrom
<1> DEFINE G == {i \in S : Fine(i, from[i])}
<1>2. ASSUME NEW i \in S, \A j \in S : j > i => Fine(j, from[j]) PROVE Fine(i, from[i])
  <2>1. CASE i > n
    <3>1. from[i] = {}
      BY <1>1, <2>1
    <3> QED BY <3>1 DEF Disjoint
  <2>2. CASE ~(i > n) /\ ~BeginsList(d, bb, taken, i)
    <3>0. i + 1 \in S /\ i + 1 > i
      BY <2>2
    <3>1. from[i] = from[i + 1]
      BY <1>1, <2>2, Zenon
    <3>2. Fine(i + 1, from[i])
      BY <1>2, <3>0, <3>1
    <3>3. (i + 1)..n \subseteq i..n
      OBVIOUS
    <3> QED BY <3>2, <3>3
  <2>3. CASE ~(i > n) /\ BeginsList(d, bb, taken, i)
    <3>0. i \in 1..n
      BY <2>3
    <3>a. PICK last \in i..Len(d) : IsListFrom(d, bb, taken, i, last)
      BY <2>3, <3>0, LexicalListIs
    <3>1. /\ last \in i..n /\ List(i) = i..last /\ Max(List(i)) = last
          /\ \A k \in i..last : k \notin taken /\ d[k].type = "PARAGRAPH"
      BY <3>a DEF IsListFrom
    <3>2. from[i] = {i..last} \cup from[last + 1]
      BY <1>1, <2>3, <3>1
    <3>3. last + 1 \in S /\ last + 1 > i
      BY <3>0
    <3>4. Fine(last + 1, from[last + 1])
      BY <1>2, <3>3
    <3>5. \A s \in from[last + 1] : s \cap (i..last) = {}
      <4> SUFFICES ASSUME NEW s \in from[last + 1] PROVE s \cap (i..last) = {}
        OBVIOUS
      <4>1. PICK a \in (last + 1)..n, e \in (last + 1)..n : s = a..e
        BY <3>4
      <4> QED BY <4>1
    <3>6. Disjoint(from[i])
      BY <3>2, <3>4, <3>5 DEF Disjoint
    <3>7. \A a \in (last + 1)..n : a \in i..n
      BY <3>0
    <3>8. i \in i..n /\ i <= last
      BY <3>0
    <3>9. \A s \in from[i] :
             \E a, e \in i..n : a <= e /\ s = a..e /\ \A k \in s : k \notin taken /\ d[k].type = "PARAGRAPH"
      BY <3>1, <3>2, <3>4, <3>7, <3>8
    <3> QED BY <3>6, <3>9
  <2> QED BY <2>1, <2>2, <2>3
<1>3. Inherited(S, rank, G)
  <2> SUFFICES ASSUME NEW i \in S, \A j \in S : rank[j] < rank[i] => j \in G PROVE Fine(i, from[i])
    BY DEF Inherited
  <2>1. \A j \in S : j > i => rank[j] < rank[i]
    OBVIOUS
  <2> HIDE DEF Fine, rank
  <2> QED BY <1>2, <2>1
<1>4. rank \in [S -> Nat] /\ 1 \in S
  OBVIOUS
<1> HIDE DEF Fine, rank, G, S
<1>5. 1 \in G
  BY <1>3, <1>4, RankInduction
<1>6. Fine(1, from[1])
  BY <1>5 DEF G
<1> QED BY <1>1, <1>6 DEF Fine

\* The ends of an interval.
LEMMA IntervalEnds ==
  ASSUME NEW i \in Int, NEW e \in Int, i <= e
  PROVE  Min(i..e) = i /\ Max(i..e) = e
<1> DEFINE R == i..e
<1>1. R \in SUBSET (i..e) /\ R # {} /\ i \in R /\ e \in R /\ R \subseteq Int
  OBVIOUS
<1>2. \A k \in R : i <= k /\ k <= e
  OBVIOUS
<1> HIDE DEF R
<1>3. Max(R) \in R /\ Min(R) \in R /\ \A k \in R : Min(R) <= k /\ k <= Max(R)
  BY <1>1, ExtremeOfInterval
<1>4. Min(R) \in Int /\ Max(R) \in Int
  BY <1>1, <1>3
<1>5. Min(R) <= i /\ i <= Min(R) /\ Max(R) <= e /\ e <= Max(R)
  BY <1>1, <1>2, <1>3
<1>6. Min(R) = i /\ Max(R) = e
  BY <1>4, <1>5
<1> QED BY <1>6 DEF R

\* The types of elements that adapters of texts and Word documents give.
OrderlyTypes ==
  TableTypes \cup {"PARAGRAPH", "SEPARATOR", "HEADING", "CODE", "FORMULA", "FOOTNOTE", "UNKNOWN", "LIST_ITEM"}

Apart(set) == \A u, v \in set : u # v => u.members \cap v.members = {}

\* What is taken is apart from what was taken before.
LEMMA TakenApart ==
  ASSUME NEW us, Apart(us), NEW vs, Apart(vs)
  PROVE  Apart(Take(us, vs))
<1> SUFFICES ASSUME NEW u \in Take(us, vs), NEW v \in Take(us, vs), u # v PROVE u.members \cap v.members = {}
  BY DEF Apart
<1>1. \A x \in us : x.members \subseteq MembersOf(us)
  BY DEF MembersOf
<1>2. u \in us \/ (u \in vs /\ u.members \cap MembersOf(us) = {})
  BY DEF Take
<1>3. v \in us \/ (v \in vs /\ v.members \cap MembersOf(us) = {})
  BY DEF Take
<1> QED BY <1>1, <1>2, <1>3 DEF Apart

\* So is what is added, if it has nothing in common with what is there.
LEMMA AddedApart ==
  ASSUME NEW us, Apart(us), NEW vs, Apart(vs), \A v \in vs : v.members \cap MembersOf(us) = {}
  PROVE  Apart(us \cup vs)
<1>1. \A x \in us : x.members \subseteq MembersOf(us)
  BY DEF MembersOf
<1> QED BY <1>1 DEF Apart

\* Units of sets that have nothing in common.
LEMMA UnitsApart ==
  ASSUME NEW type, NEW sets, Disjoint(sets)
  PROVE  Apart(Units(type, sets))
<1> SUFFICES ASSUME NEW u \in Units(type, sets), NEW v \in Units(type, sets), u # v PROVE u.members \cap v.members = {}
  BY DEF Apart
<1>1. PICK s \in sets : u = Unit(type, s)
  BY DEF Units
<1>2. PICK t \in sets : v = Unit(type, t)
  BY DEF Units
<1>3. u.members = s /\ v.members = t
  BY <1>1, <1>2 DEF Unit
<1>4. s # t
  BY <1>1, <1>2
<1> QED BY <1>3, <1>4 DEF Disjoint

\* A pair, an interval of text, or a single element.
IsGroupedUnit(d, bb, u) ==
  /\ u.groups = {} /\ u.parent = None /\ u.members # {} /\ u.members \subseteq 1..Len(d)
  /\ \/ u.type = "QA_PAIR" /\ \E i \in 1..(Len(d) - 1) : u.members = {i, i + 1} /\ bb[i].guard = "QA_PAIR"
     \/ /\ Interaction(u) = None
        /\ \/ \E i, e \in 1..Len(d) : i <= e /\ u.members = i..e /\ \A k \in u.members : d[k].type \in FallbackTypes
           \/ \E i \in 1..Len(d) : u.members = {i}

\* A type that no element has, has no runs.
LEMMA NoRuns ==
  ASSUME NEW d, NEW bb, Len(d) \in Nat, NEW type, NEW minimum, \A i \in 1..Len(d) : d[i].type # type
  PROVE  RunsOf(d, bb, type, minimum) = {}
<1> DEFINE n == Len(d)
           Suits(i) == d[i].type = type
           Breaks(p) == Cuts(bb, p)
<1>1. \A run \in RunsOf(d, bb, type, minimum) : \E i \in 1..n : d[i].type = type
  BY DEF RunsOf, Runs
<1> QED BY <1>1

\* Units that are intervals of text.
LEMMA IntervalUnits ==
  ASSUME NEW d, NEW bb, Len(d) \in Nat, NEW type \in {"TEXT_BLOCK", "LIST_GROUP"}, NEW sets,
         \A s \in sets : \E i, e \in 1..Len(d) : i <= e /\ s = i..e /\ \A k \in s : d[k].type \in FallbackTypes
  PROVE  \A u \in Units(type, sets) : IsGroupedUnit(d, bb, u) /\ u.members \in sets
<1> SUFFICES ASSUME NEW u \in Units(type, sets) PROVE IsGroupedUnit(d, bb, u) /\ u.members \in sets
  OBVIOUS
<1>1. PICK s \in sets : u = Unit(type, s)
  BY DEF Units
<1>2. u.members = s /\ u.groups = {} /\ u.parent = None /\ u.type = type
  BY <1>1 DEF Unit
<1>3. PICK i \in 1..Len(d), e \in 1..Len(d) : i <= e /\ s = i..e /\ \A k \in s : d[k].type \in FallbackTypes
  OBVIOUS
<1>4. i \in s /\ s \subseteq 1..Len(d)
  BY <1>3
<1>5. Interaction(u) = None
  BY <1>2 DEF Interaction
<1>6. \E a, c \in 1..Len(d) : a <= c /\ u.members = a..c /\ \A k \in u.members : d[k].type \in FallbackTypes
  BY <1>2, <1>3
<1>7. u.members # {} /\ u.members \subseteq 1..Len(d)
  BY <1>2, <1>4
<1> QED BY <1>2, <1>5, <1>6, <1>7 DEF IsGroupedUnit

\* Units of one element.
LEMMA SingleUnits ==
  ASSUME NEW d, NEW bb, Len(d) \in Nat, NEW i \in 1..Len(d), NEW type \in {"TABLE_BLOCK", "CODE_BLOCK", "LIST_GROUP", "TEXT_BLOCK", "UNKNOWN_GROUP"}
  PROVE  IsGroupedUnit(d, bb, Unit(type, {i})) /\ Unit(type, {i}).members = {i}
<1> DEFINE u == Unit(type, {i})
<1>1. u.members = {i} /\ u.groups = {} /\ u.parent = None /\ u.type = type
  BY DEF Unit
<1>2. Interaction(u) = None
  BY <1>1 DEF Interaction
<1> HIDE DEF u
<1>3. IsGroupedUnit(d, bb, u)
  BY <1>1, <1>2 DEF IsGroupedUnit
<1> QED BY <1>1, <1>3 DEF u

\* The units before they are consolidated have no element in common.
LEMMA GroupedUnits ==
  ASSUME NEW d, NEW bb, Len(d) \in Nat, DOMAIN d = 1..Len(d), \A i \in 1..Len(d) : d[i].type \in OrderlyTypes
  PROVE  Apart(Group(d, bb)) /\ \A u \in Group(d, bb) : IsGroupedUnit(d, bb, u)
<1> DEFINE qa == Units("QA_PAIR", QAPairs(d, bb))
           turns == Units("DIALOGUE_SEGMENT", RunsOf(d, bb, "DIALOGUE_TURN", MinTurns))
           entries == Units("LOG_WINDOW", RunsOf(d, bb, "LOG_ENTRY", MinEntries))
           dialogues == Take(qa, turns)
           logs == Take(dialogues, entries)
           marked == Units("LIST_GROUP", LexicalLists(d, bb, MembersOf(logs)))
           lists == logs \cup marked
           single == {Unit(AtomicUnit(d[i].type), {i}) : i \in {j \in DOMAIN d : AtomicUnit(d[j].type) # None}}
           atoms == Take(lists, single)
           blocks == Units("TEXT_BLOCK", TextBlocks(d, bb, MembersOf(atoms)))
           texts == atoms \cup blocks
           unknown == {Unit("UNKNOWN_GROUP", {i}) : i \in {j \in DOMAIN d : d[j].type = "UNKNOWN"}}
           Fine(set) == \A u \in set : IsGroupedUnit(d, bb, u)
<1>1. Group(d, bb) = Take(texts, unknown)
  BY DEF Group
<1>2. Fine(qa) /\ Apart(qa)
  <2>1. Apart(qa)
    BY PairsAre, UnitsApart
  <2>2. ASSUME NEW u \in qa PROVE IsGroupedUnit(d, bb, u)
    <3>1. PICK s \in QAPairs(d, bb) : u = Unit("QA_PAIR", s)
      BY DEF Units
    <3>2. PICK i \in 1..(Len(d) - 1) : s = {i, i + 1} /\ bb[i].guard = "QA_PAIR"
      BY PairsAre
    <3>3. u.members = s /\ u.groups = {} /\ u.parent = None /\ u.type = "QA_PAIR"
      BY <3>1 DEF Unit
    <3>4. s # {} /\ s \subseteq 1..Len(d)
      BY <3>2
    <3> QED BY <3>2, <3>3, <3>4 DEF IsGroupedUnit
  <2> QED BY <2>1, <2>2
<1>3. turns = {} /\ entries = {}
  <2>1. "DIALOGUE_TURN" \notin OrderlyTypes /\ "LOG_ENTRY" \notin OrderlyTypes
    BY DEF OrderlyTypes, TableTypes
  <2>2. \A i \in 1..Len(d) : d[i].type # "DIALOGUE_TURN" /\ d[i].type # "LOG_ENTRY"
    BY <2>1
  <2>3. RunsOf(d, bb, "DIALOGUE_TURN", MinTurns) = {}
    BY <2>2, NoRuns
  <2>4. RunsOf(d, bb, "LOG_ENTRY", MinEntries) = {}
    BY <2>2, NoRuns
  <2> QED BY <2>3, <2>4 DEF Units
<1>4. Fine(marked) /\ Apart(marked) /\ \A u \in marked : u.members \cap MembersOf(logs) = {}
  <2> DEFINE taken == MembersOf(logs)
             sets == LexicalLists(d, bb, taken)
  <2> HIDE DEF taken
  <2>1. Disjoint(sets) /\ \A s \in sets : \E i, e \in 1..Len(d) : i <= e /\ s = i..e /\ \A k \in s : k \notin taken /\ d[k].type = "PARAGRAPH"
    BY ListsAre
  <2> HIDE DEF sets
  <2>2. \A s \in sets : s \cap taken = {}
    BY <2>1
  <2>3. \A s \in sets : \E i, e \in 1..Len(d) : i <= e /\ s = i..e /\ \A k \in s : d[k].type \in FallbackTypes
    BY <2>1 DEF FallbackTypes
  <2>4. \A u \in Units("LIST_GROUP", sets) : IsGroupedUnit(d, bb, u) /\ u.members \in sets
    BY <2>3, IntervalUnits
  <2>5. Apart(Units("LIST_GROUP", sets))
    BY <2>1, UnitsApart
  <2> QED BY <2>2, <2>4, <2>5 DEF taken, sets
<1>5. Fine(blocks) /\ Apart(blocks) /\ \A u \in blocks : u.members \cap MembersOf(atoms) = {}
  <2> DEFINE taken == MembersOf(atoms)
             sets == TextBlocks(d, bb, taken)
  <2> HIDE DEF taken
  <2>1. Disjoint(sets) /\ \A s \in sets : \E i, e \in 1..Len(d) : i <= e /\ s = i..e /\ \A k \in s : k \notin taken /\ d[k].type \in FallbackTypes
    BY TextBlocksAre
  <2> HIDE DEF sets
  <2>2. \A s \in sets : s \cap taken = {}
    BY <2>1
  <2>3. \A s \in sets : \E i, e \in 1..Len(d) : i <= e /\ s = i..e /\ \A k \in s : d[k].type \in FallbackTypes
    BY <2>1
  <2>4. \A u \in Units("TEXT_BLOCK", sets) : IsGroupedUnit(d, bb, u) /\ u.members \in sets
    BY <2>3, IntervalUnits
  <2>5. Apart(Units("TEXT_BLOCK", sets))
    BY <2>1, UnitsApart
  <2> QED BY <2>2, <2>4, <2>5 DEF taken, sets
<1>6. Fine(single) /\ Apart(single)
  <2>1. ASSUME NEW u \in single PROVE \E i \in 1..Len(d) : u.members = {i} /\ u = Unit(AtomicUnit(d[i].type), {i}) /\ IsGroupedUnit(d, bb, u)
    <3>1. PICK i \in 1..Len(d) : AtomicUnit(d[i].type) # None /\ u = Unit(AtomicUnit(d[i].type), {i})
      OBVIOUS
    <3>2. AtomicUnit(d[i].type) \in {"TABLE_BLOCK", "CODE_BLOCK", "LIST_GROUP", "TEXT_BLOCK", "UNKNOWN_GROUP"}
      BY <3>1 DEF AtomicUnit, OrderlyTypes, TableTypes
    <3> QED BY <3>1, <3>2, SingleUnits
  <2> HIDE DEF single
  <2>2. Fine(single)
    BY <2>1
  <2>3. Apart(single)
    <3> SUFFICES ASSUME NEW u \in single, NEW v \in single, u # v PROVE u.members \cap v.members = {}
      BY DEF Apart
    <3>1. PICK i \in 1..Len(d) : u.members = {i} /\ u = Unit(AtomicUnit(d[i].type), {i})
      BY <2>1
    <3>2. PICK j \in 1..Len(d) : v.members = {j} /\ v = Unit(AtomicUnit(d[j].type), {j})
      BY <2>1
    <3>3. i # j
      BY <3>1, <3>2
    <3> QED BY <3>1, <3>2, <3>3
  <2> QED BY <2>2, <2>3
<1>7. Fine(unknown) /\ Apart(unknown)
  <2>1. ASSUME NEW u \in unknown PROVE \E i \in 1..Len(d) : u.members = {i} /\ u = Unit("UNKNOWN_GROUP", {i}) /\ IsGroupedUnit(d, bb, u)
    <3>1. PICK i \in 1..Len(d) : u = Unit("UNKNOWN_GROUP", {i})
      OBVIOUS
    <3> QED BY <3>1, SingleUnits
  <2> HIDE DEF unknown
  <2>2. Fine(unknown)
    BY <2>1
  <2>3. Apart(unknown)
    <3> SUFFICES ASSUME NEW u \in unknown, NEW v \in unknown, u # v PROVE u.members \cap v.members = {}
      BY DEF Apart
    <3>1. PICK i \in 1..Len(d) : u.members = {i} /\ u = Unit("UNKNOWN_GROUP", {i})
      BY <2>1
    <3>2. PICK j \in 1..Len(d) : v.members = {j} /\ v = Unit("UNKNOWN_GROUP", {j})
      BY <2>1
    <3>3. i # j
      BY <3>1, <3>2
    <3> QED BY <3>1, <3>2, <3>3
  <2> QED BY <2>2, <2>3
<1>8. logs = qa
  BY <1>3 DEF Take
<1> HIDE DEF qa, turns, entries, marked, single, blocks, unknown
<1>9. Fine(lists) /\ Apart(lists)
  BY <1>2, <1>4, <1>8, AddedApart
<1> HIDE DEF logs, lists
<1>10. Fine(atoms) /\ Apart(atoms)
  <2>1. Apart(atoms)
    BY <1>6, <1>9, TakenApart
  <2> QED BY <1>6, <1>9, <2>1 DEF Take
<1> HIDE DEF atoms
<1>11. Fine(texts) /\ Apart(texts)
  BY <1>5, <1>10, AddedApart
<1> HIDE DEF texts
<1>12. Apart(Take(texts, unknown)) /\ Fine(Take(texts, unknown))
  <2>1. Apart(Take(texts, unknown))
    BY <1>7, <1>11, TakenApart
  <2> QED BY <1>7, <1>11, <2>1 DEF Take
<1> QED BY <1>1, <1>12

-----------------------------------------------------------------------------
(* Tables inside of tables.                                                *)

\* What bounds a search upwards: the groups whose parents are groups.
IsNested(d) ==
  /\ Len(d) \in Nat /\ DOMAIN d = 1..Len(d)
  /\ \A g \in NativeGroups(d) : ParentsOf(d, g) \subseteq NativeGroups(d) \cup {None}

ParentsIn(d, S) == (UNION {ParentsOf(d, h) : h \in S}) \ {None}

\* A document names finitely many groups.
LEMMA GroupsAreFinite ==
  ASSUME NEW d, Len(d) \in Nat, DOMAIN d = 1..Len(d)
  PROVE  IsFiniteSet(NativeGroups(d)) /\ Cardinality(NativeGroups(d)) \in Nat /\ None \notin NativeGroups(d)
<1>1. IsFiniteSet(Keyed(d))
  <2>1. IsFiniteSet(1..Len(d))
    BY FS_Interval
  <2>2. Keyed(d) \subseteq 1..Len(d)
    BY DEF Keyed
  <2> QED BY <2>1, <2>2, FS_Subset
<1>2. IsFiniteSet(NativeGroups(d))
  <2> DEFINE f == [i \in Keyed(d) |-> d[i].group]
  <2>1. f \in Surjection(Keyed(d), NativeGroups(d))
    BY DEF Surjection, NativeGroups
  <2> QED BY <1>1, <2>1, FS_Surjection
<1>3. None \notin NativeGroups(d)
  BY DEF NativeGroups, Keyed
<1> QED BY <1>2, <1>3, FS_CardinalityType

\* The groups above another are those that its parents lead to.
AboveIs(d, g, A) ==
  /\ A \subseteq NativeGroups(d)
  /\ ParentsOf(d, g) \ {None} \subseteq A /\ ParentsIn(d, A) \subseteq A
  /\ \A S : ParentsOf(d, g) \ {None} \subseteq S /\ ParentsIn(d, S) \subseteq S => A \subseteq S

\* The groups above a group unfolded: their parents are added level by level.
LEMMA AboveUnfolds ==
  ASSUME NEW d, IsNested(d), NEW g \in NativeGroups(d)
  PROVE  \E up : LET n == Cardinality(NativeGroups(d))
                 IN /\ up \in [0..n -> SUBSET NativeGroups(d)] /\ Above(d, g) = up[n]
                    /\ up[0] = ParentsOf(d, g) \ {None}
                    /\ \A k \in 1..n : up[k] = up[k - 1] \cup ParentsIn(d, up[k - 1])
<1> DEFINE N == NativeGroups(d)
           n == Cardinality(N)
           V == SUBSET N
           base == ParentsOf(d, g) \ {None}
           Step(S) == S \cup ((UNION {ParentsOf(d, h) : h \in S}) \ {None})
           step == [p \in (1..n) \X V |-> Step(p[2])]
           Unfolds(F) == F = [k \in 0..n |-> IF k = 0 THEN base ELSE Step(F[k - 1])]
<1>0. n \in Nat
  BY GroupsAreFinite DEF IsNested
<1>1. \A S \in V : Step(S) \in V
  BY DEF IsNested
<1>2. base \in V
  BY DEF IsNested
<1> HIDE DEF base, n
<1>3. IsIteration(n, V, base, step)
  <2>1. step \in [(1..n) \X V -> V]
    <3> HIDE DEF V, Step
    <3> QED BY <1>1
  <2> HIDE DEF V, step
  <2> QED BY <1>0, <1>2, <2>1 DEF IsIteration
<1>4. PICK f \in [0..n -> V] : f[0] = base /\ \A k \in 1..n : f[k] = step[<<k, f[k - 1]>>]
  <2> HIDE DEF V, step
  <2> QED BY <1>3, IterationExists
<1>5. \A k \in 1..n : f[k] = Step(f[k - 1])
  <2> SUFFICES ASSUME NEW k \in 1..n PROVE f[k] = Step(f[k - 1])
    OBVIOUS
  <2>1. k - 1 \in 0..n
    BY <1>0
  <2>2. f[k - 1] \in V
    BY <2>1
  <2> HIDE DEF V, Step
  <2>3. step[<<k, f[k - 1]>>] = Step(f[k - 1])
    BY <2>2
  <2> QED BY <1>4, <2>3
<1>6. Unfolds(f)
  <2>1. \A k \in 0..n : k = 0 \/ k \in 1..n
    BY <1>0
  <2>2. f = [k \in 0..n |-> f[k]]
    OBVIOUS
  <2> HIDE DEF Step, V
  <2>3. \A k \in 0..n : f[k] = IF k = 0 THEN base ELSE Step(f[k - 1])
    BY <1>4, <1>5, <2>1
  <2> QED BY <2>2, <2>3
<1> DEFINE up == CHOOSE F : Unfolds(F)
<1>7. Unfolds(up)
  BY <1>6
<1>8. Above(d, g) = up[n]
  BY DEF Above, n, base
<1> HIDE DEF up
<1>9. /\ up[0] = base /\ \A k \in 1..n : up[k] = Step(up[k - 1])
      /\ up = [k \in 0..n |-> up[k]]
  <2>1. 0 \in 0..n /\ \A k \in 1..n : k \in 0..n /\ k # 0
    BY <1>0
  <2> HIDE DEF Step
  <2> QED BY <1>7, <2>1
<1>10. \A k \in 0..n : up[k] \in V
  <2> DEFINE G == {k \in 0..n : up[k] \in V}
  <2>1. Inductive(0, n, G)
    <3>1. up[0] \in V /\ 0 \in 0..n
      BY <1>0, <1>2, <1>9
    <3>2. ASSUME NEW k \in 0..(n - 1), up[k] \in V PROVE up[k + 1] \in V /\ k + 1 \in 0..n
      <4>1. k + 1 \in 1..n /\ (k + 1) - 1 = k /\ k + 1 \in 0..n
        BY <1>0
      <4>2. up[k + 1] = Step(up[k])
        BY <1>9, <4>1
      <4> HIDE DEF V, Step
      <4> QED BY <1>1, <3>2, <4>1, <4>2
    <3> HIDE DEF V
    <3> QED BY <3>1, <3>2 DEF Inductive
  <2> HIDE DEF G
  <2>2. \A k \in 0..n : k \in G
    BY <1>0, <2>1, UpTo
  <2> QED BY <2>2 DEF G
<1>11. up \in [0..n -> V]
  <2> HIDE DEF V
  <2> QED BY <1>9, <1>10
<1>12. \A k \in 1..n : up[k] = up[k - 1] \cup ParentsIn(d, up[k - 1])
  BY <1>9 DEF ParentsIn
<1> QED BY <1>8, <1>9, <1>11, <1>12 DEF n, base

\* As many steps as there are groups are enough to find all.
LEMMA AboveIsClosed ==
  ASSUME NEW d, IsNested(d), NEW g \in NativeGroups(d)
  PROVE  AboveIs(d, g, Above(d, g))
<1> DEFINE N == NativeGroups(d)
           n == Cardinality(N)
           base == ParentsOf(d, g) \ {None}
           Step(S) == S \cup ParentsIn(d, S)
<1>0. n \in Nat /\ IsFiniteSet(N)
  BY GroupsAreFinite DEF IsNested
<1>1. PICK up : /\ up \in [0..n -> SUBSET N] /\ Above(d, g) = up[n]
                /\ up[0] = base /\ \A k \in 1..n : up[k] = Step(up[k - 1])
  BY AboveUnfolds
<1>2. \A S \in SUBSET N : ParentsIn(d, S) \subseteq N
  BY DEF IsNested, ParentsIn
<1> HIDE DEF n, base, N
<1>3. \A k \in 0..n : up[k] \in SUBSET N
  BY <1>1
<1>4. \A k \in 0..(n - 1) : up[k + 1] = Step(up[k]) /\ k + 1 \in 0..n
  <2> SUFFICES ASSUME NEW k \in 0..(n - 1) PROVE up[k + 1] = Step(up[k]) /\ k + 1 \in 0..n
    OBVIOUS
  <2>1. k + 1 \in 1..n /\ (k + 1) - 1 = k
    BY <1>0
  <2> HIDE DEF Step
  <2>2. up[k + 1] = Step(up[(k + 1) - 1])
    BY <1>1, <2>1
  <2> QED BY <2>1, <2>2
<1> HIDE DEF Step
<1>5. base \subseteq up[n]
  <2> DEFINE G == {k \in 0..n : base \subseteq up[k]}
  <2>1. Inductive(0, n, G)
    BY <1>0, <1>1, <1>4 DEF Inductive, Step
  <2> HIDE DEF G
  <2>2. n \in G
    BY <1>0, <2>1, UpTo
  <2> QED BY <2>2 DEF G
<1>6. ASSUME NEW S, base \subseteq S, ParentsIn(d, S) \subseteq S PROVE up[n] \subseteq S
  <2> DEFINE G == {k \in 0..n : up[k] \subseteq S}
  <2>1. \A X : X \subseteq S => ParentsIn(d, X) \subseteq S
    BY <1>6 DEF ParentsIn
  <2>2. Inductive(0, n, G)
    BY <1>0, <1>1, <1>4, <1>6, <2>1 DEF Inductive, Step
  <2> HIDE DEF G
  <2>3. n \in G
    BY <1>0, <2>2, UpTo
  <2> QED BY <2>3 DEF G
<1>7. Step(up[n]) = up[n]
  <2> SUFFICES ASSUME Step(up[n]) # up[n] PROVE FALSE
    OBVIOUS
  <2>1. ASSUME NEW m \in 0..n, Step(up[m]) = up[m] PROVE FALSE
    <3> DEFINE G == {k \in 0..n : up[k] = up[m]}
    <3>1. Inductive(m, n, G)
      BY <1>0, <1>4, <2>1 DEF Inductive
    <3> HIDE DEF G
    <3>2. n \in G
      BY <1>0, <3>1, UpTo
    <3>3. up[n] = up[m]
      BY <3>2 DEF G
    <3> QED BY <2>1, <3>3
  <2>2. \A k \in 0..n : IsFiniteSet(up[k]) /\ Cardinality(up[k]) \in Nat /\ Cardinality(up[k]) <= n
    BY <1>0, <1>3, FS_Subset, FS_CardinalityType DEF n
  <2>3. \A k \in 0..(n - 1) : Cardinality(up[k]) < Cardinality(up[k + 1])
    <3> SUFFICES ASSUME NEW k \in 0..(n - 1) PROVE Cardinality(up[k]) < Cardinality(up[k + 1])
      OBVIOUS
    <3>1. k \in 0..n /\ k + 1 \in 0..n /\ up[k + 1] = Step(up[k])
      BY <1>0, <1>4
    <3>2. up[k] \subseteq up[k + 1] /\ up[k] # up[k + 1]
      BY <2>1, <3>1 DEF Step
    <3>3. IsFiniteSet(up[k + 1]) /\ Cardinality(up[k]) \in Nat /\ Cardinality(up[k + 1]) \in Nat
      BY <2>2, <3>1
    <3>4. Cardinality(up[k]) <= Cardinality(up[k + 1]) /\ (Cardinality(up[k]) = Cardinality(up[k + 1]) => up[k] = up[k + 1])
      BY <3>2, <3>3, FS_Subset
    <3> QED BY <3>2, <3>3, <3>4
  <2>4. \A k \in 0..n : Cardinality(up[k]) >= k
    <3> DEFINE G == {k \in 0..n : Cardinality(up[k]) >= k}
    <3>1. Inductive(0, n, G)
      BY <1>0, <1>4, <2>2, <2>3 DEF Inductive
    <3> HIDE DEF G
    <3>2. \A k \in 0..n : k \in G
      BY <1>0, <3>1, UpTo
    <3> QED BY <3>2 DEF G
  <2>5. up[n] = N
    <3>1. up[n] \subseteq N /\ Cardinality(up[n]) = n
      BY <1>0, <1>3, <2>2, <2>4
    <3> QED BY <1>0, <3>1, FS_Subset DEF n
  <2>6. Step(up[n]) = N
    BY <1>2, <2>5 DEF Step
  <2> QED BY <2>5, <2>6
<1>8. up[n] \subseteq N /\ ParentsIn(d, up[n]) \subseteq up[n]
  BY <1>0, <1>3, <1>7 DEF Step
<1> QED BY <1>1, <1>5, <1>6, <1>8 DEF AboveIs, base, N

-----------------------------------------------------------------------------
(* An orderly document: what the adapters make of what they read.          *)

Marginal(e) == e.zone \in {"header", "footer"}

IsTableGroup(g) == g \in {"table"} \X ({"document"} \cup STRING) \X Nat
IsListGroup(g) == g \in {"list"} \X Nat

\* An element of a table names it, an item its list, and no other element has a group.
OrderlyElement(e) ==
  /\ e.type \in OrderlyTypes /\ e.source = "EXPLICIT" /\ e.evidence = None
  /\ e.type \in TableTypes =>
       IsTableGroup(e.group) /\ (e.parent # None => IsTableGroup(e.parent) /\ e.parent[3] < e.group[3])
  /\ e.type = "LIST_ITEM" => IsListGroup(e.group) /\ e.parent = None
  /\ e.type \notin TableTypes \cup {"LIST_ITEM"} => e.group = None /\ e.parent = None
  /\ e.anchor # None => e.type = "FOOTNOTE"
  /\ e.type = "FOOTNOTE" => e.refs = {}
  /\ None \notin e.refs

\* What is inside of each table: between two elements of a table are only such of
\* tables inside of it, and what is inside of another table has its parent there.
IsInner(d, inner) ==
  /\ \A i, k \in DOMAIN d : d[i].type \in TableTypes /\ d[i].group = d[k].group =>
       \A j \in i..k : d[j].type \in TableTypes /\ d[j].group \in inner[d[i].group]
  /\ \A g \in NativeGroups(d) : \A j \in DOMAIN d :
       d[j].type \in TableTypes /\ d[j].group \in inner[g] \ {g} => d[j].parent # None /\ d[j].parent \in inner[g]

Orderly(d) ==
  /\ Len(d) \in Nat /\ DOMAIN d = 1..Len(d) /\ \A i \in DOMAIN d : OrderlyElement(d[i])
  /\ \A i, j \in DOMAIN d : d[i].group # None /\ d[i].group = d[j].group => d[i].parent = d[j].parent
  /\ \A i \in DOMAIN d : d[i].parent # None => \E j \in DOMAIN d : d[j].group = d[i].parent
  /\ \E inner : IsInner(d, inner)
  /\ \A i, k \in DOMAIN d : d[i].type = "LIST_ITEM" /\ d[i].group = d[k].group => \A j \in i..k : d[j].group = d[i].group
  /\ \A i, j \in DOMAIN d : i # j /\ d[i].anchor # None => d[i].anchor # d[j].anchor
  /\ \A i \in DOMAIN d \ {1} : Marginal(d[i - 1]) # Marginal(d[i]) => d[i].type = "SEPARATOR" /\ ~d[i].sectionBreak

\* The family of the parts of a table.
LEMMA FamilyOfTables == ASSUME NEW type \in TableTypes PROVE Family(type) = "table"
<1>1. type \in {"TABLE", "TABLE_CELL", "TABLE_ROW"}
  BY DEF TableTypes
<1> QED BY <1>1 DEF Family, TableTypes, ListTypes

\* In an orderly document the parts of tables and the items have groups, and no others.
LEMMA OrderlyGroups ==
  ASSUME NEW d, Orderly(d)
  PROVE  /\ Keyed(d) = {i \in 1..Len(d) : d[i].type \in TableTypes \cup {"LIST_ITEM"}}
         /\ Keyed(d) = {i \in 1..Len(d) : d[i].group # None}
         /\ \A i \in 1..Len(d) :
              /\ d[i].type \in TableTypes <=> IsTableGroup(d[i].group)
              /\ d[i].type = "LIST_ITEM" <=> IsListGroup(d[i].group)
              /\ d[i].type \in TableTypes => Family(d[i].type) = "table"
              /\ d[i].type = "LIST_ITEM" => Family(d[i].type) = "list"
              /\ d[i].type \notin TableTypes \cup {"LIST_ITEM"} => d[i].group = None /\ d[i].parent = None
         /\ \A g : ~(IsTableGroup(g) /\ IsListGroup(g))
<1>1. \A g : IsTableGroup(g) => g # None /\ g[1] = "table"
  BY NoneAssumption DEF IsTableGroup
<1>2. \A g : IsListGroup(g) => g # None /\ g[1] = "list"
  BY NoneAssumption DEF IsListGroup
<1>3. ASSUME NEW i \in 1..Len(d)
      PROVE  /\ d[i].type \in TableTypes <=> IsTableGroup(d[i].group)
             /\ d[i].type = "LIST_ITEM" <=> IsListGroup(d[i].group)
             /\ d[i].type \in TableTypes => Family(d[i].type) = "table"
             /\ d[i].type = "LIST_ITEM" => Family(d[i].type) = "list"
             /\ d[i].type \notin TableTypes \cup {"LIST_ITEM"} => d[i].group = None /\ d[i].parent = None
             /\ d[i].group # None <=> d[i].type \in TableTypes \cup {"LIST_ITEM"}
  <2>1. OrderlyElement(d[i])
    BY DEF Orderly
  <2>2. "LIST_ITEM" \notin TableTypes
    BY DEF TableTypes
  <2>3. d[i].type \in TableTypes => Family(d[i].type) = "table"
    BY FamilyOfTables
  <2>4. d[i].type = "LIST_ITEM" => Family(d[i].type) = "list"
    BY DEF Family, TableTypes, ListTypes
  <2> QED BY <1>1, <1>2, <2>1, <2>2, <2>3, <2>4 DEF OrderlyElement
<1>4. DOMAIN d = 1..Len(d)
  BY DEF Orderly
<1>5. None # "table" /\ None # "list"
  BY NoneAssumption DEF Families
<1>6. Keyed(d) = {i \in 1..Len(d) : d[i].type \in TableTypes \cup {"LIST_ITEM"}}
  BY <1>3, <1>4, <1>5 DEF Keyed
<1>7. Keyed(d) = {i \in 1..Len(d) : d[i].group # None}
  BY <1>3, <1>6
<1>8. \A g : ~(IsTableGroup(g) /\ IsListGroup(g))
  BY <1>1, <1>2
<1> QED BY <1>3, <1>6, <1>7, <1>8

\* A group is one table, inside at most one other that precedes it, or one list.
LEMMA MembersOfGroup ==
  ASSUME NEW d, Orderly(d), NEW g \in NativeGroups(d)
  PROVE  /\ GroupMembers(d, g) = {i \in 1..Len(d) : d[i].group = g} /\ GroupMembers(d, g) # {} /\ g # None
         /\ \E p : ParentsOf(d, g) = {p} /\ \A i \in GroupMembers(d, g) : d[i].parent = p
         /\ ParentsOf(d, g) \subseteq NativeGroups(d) \cup {None}
         /\ \/ IsTableGroup(g) /\ (\A i \in GroupMembers(d, g) : d[i].type \in TableTypes)
               /\ \A p \in ParentsOf(d, g) \ {None} : IsTableGroup(p) /\ p[3] < g[3]
            \/ IsListGroup(g) /\ (\A i \in GroupMembers(d, g) : d[i].type = "LIST_ITEM") /\ ParentsOf(d, g) = {None}
<1> DEFINE members == GroupMembers(d, g)
<1>1. Len(d) \in Nat /\ DOMAIN d = 1..Len(d)
  BY DEF Orderly
<1>2. PICK k \in Keyed(d) : d[k].group = g
  BY DEF NativeGroups
<1>3. g # None /\ members = {i \in 1..Len(d) : d[i].group = g} /\ k \in members /\ k \in 1..Len(d)
  BY <1>1, <1>2, OrderlyGroups DEF GroupMembers, Keyed
<1>4. \A i \in members : i \in 1..Len(d) /\ d[i].group = g /\ OrderlyElement(d[i])
  BY <1>1, <1>3 DEF Orderly
<1>5. \A i \in members : d[i].parent = d[k].parent
  BY <1>1, <1>3, <1>4 DEF Orderly
<1>6. ParentsOf(d, g) = {d[k].parent}
  BY <1>3, <1>5 DEF ParentsOf
<1>7. d[k].parent # None => d[k].parent \in NativeGroups(d)
  <2> SUFFICES ASSUME d[k].parent # None PROVE d[k].parent \in NativeGroups(d)
    OBVIOUS
  <2>1. PICK j \in 1..Len(d) : d[j].group = d[k].parent
    BY <1>1, <1>3 DEF Orderly
  <2>2. j \in Keyed(d)
    BY <2>1, OrderlyGroups
  <2> QED BY <2>1, <2>2 DEF NativeGroups
<1>8. d[k].type \in TableTypes \/ d[k].type = "LIST_ITEM"
  BY <1>3, OrderlyGroups
<1> HIDE DEF members
<1>9. CASE d[k].type \in TableTypes
  <2>1. IsTableGroup(g)
    BY <1>3, <1>4, <1>9 DEF OrderlyElement
  <2>2. \A i \in members : d[i].type \in TableTypes
    BY <1>4, <2>1, OrderlyGroups
  <2>3. d[k].parent # None => IsTableGroup(d[k].parent) /\ d[k].parent[3] < g[3]
    BY <1>3, <1>4, <1>9 DEF OrderlyElement
  <2> QED BY <1>3, <1>5, <1>6, <1>7, <2>1, <2>2, <2>3 DEF members
<1>10. CASE d[k].type = "LIST_ITEM"
  <2>1. IsListGroup(g) /\ d[k].parent = None
    BY <1>3, <1>4, <1>10 DEF OrderlyElement
  <2>2. \A i \in members : d[i].type = "LIST_ITEM"
    BY <1>4, <2>1, OrderlyGroups
  <2> QED BY <1>3, <1>5, <1>6, <2>1, <2>2 DEF members
<1> QED BY <1>8, <1>9, <1>10

\* In an orderly document parents are groups.
LEMMA OrderlyIsNested == ASSUME NEW d, Orderly(d) PROVE IsNested(d)
BY MembersOfGroup DEF IsNested, Orderly

\* No table is inside of itself.
LEMMA NotAboveItself ==
  ASSUME NEW d, Orderly(d), NEW g \in NativeGroups(d)
  PROVE  g \notin Above(d, g)
<1> DEFINE S == {h \in NativeGroups(d) : IsTableGroup(h) /\ IsTableGroup(g) /\ h[3] < g[3]}
<1>1. \A h : IsTableGroup(h) => h[3] \in Nat
  BY DEF IsTableGroup
<1>2. ParentsOf(d, g) \ {None} \subseteq S
  BY MembersOfGroup
<1>3. \A h \in S : ParentsOf(d, h) \ {None} \subseteq S
  <2> SUFFICES ASSUME NEW h \in S, NEW p \in ParentsOf(d, h) \ {None} PROVE p \in S
    OBVIOUS
  <2>1. p \in NativeGroups(d) /\ IsTableGroup(p) /\ p[3] < h[3]
    BY MembersOfGroup, OrderlyGroups
  <2> QED BY <1>1, <2>1
<1>4. ParentsIn(d, S) \subseteq S
  <2> HIDE DEF S
  <2> QED BY <1>3 DEF ParentsIn
<1>5. Above(d, g) \subseteq S
  BY <1>2, <1>4, OrderlyIsNested, AboveIsClosed DEF AboveIs
<1>6. g \notin S
  BY <1>1
<1> QED BY <1>5, <1>6

\* A table is above those that are inside of it.
LEMMA AboveWhatIsInside ==
  ASSUME NEW d, Orderly(d), NEW inner, IsInner(d, inner), NEW g \in NativeGroups(d), NEW j \in 1..Len(d),
         d[j].type \in TableTypes, d[j].group \in inner[g] \ {g}
  PROVE  g \in Above(d, d[j].group)
<1> DEFINE S == {i \in 1..Len(d) : d[i].type \in TableTypes}
           rank == [i \in S |-> d[i].group[3]]
           G == {i \in S : d[i].group \in inner[g] \ {g} => g \in Above(d, d[i].group)}
<1>0. Len(d) \in Nat /\ DOMAIN d = 1..Len(d)
  BY DEF Orderly
<1>1. \A i \in S : IsTableGroup(d[i].group) /\ d[i].group[3] \in Nat
  BY OrderlyGroups DEF IsTableGroup
<1>2. Inherited(S, rank, G)
  <2> SUFFICES ASSUME NEW i \in S, \A l \in S : rank[l] < rank[i] => l \in G,
                      d[i].group \in inner[g] \ {g}
               PROVE  g \in Above(d, d[i].group)
    BY DEF Inherited
  <2> DEFINE h == d[i].group
             p == d[i].parent
  <2>1. p # None /\ p \in inner[g]
    BY <1>0 DEF IsInner
  <2>2. PICK l \in 1..Len(d) : d[l].group = p
    BY <1>0, <2>1 DEF Orderly
  <2>3. OrderlyElement(d[i])
    BY <1>0 DEF Orderly
  <2>4. IsTableGroup(p) /\ p[3] < h[3]
    BY <2>1, <2>3 DEF OrderlyElement
  <2>5. d[l].type \in TableTypes
    BY <2>2, <2>4, OrderlyGroups
  <2>6. l \in S /\ rank[l] < rank[i]
    BY <2>2, <2>4, <2>5
  <2>7. i \in Keyed(d) /\ l \in Keyed(d)
    BY <2>5, OrderlyGroups
  <2>8. h \in NativeGroups(d) /\ p \in NativeGroups(d)
    BY <2>2, <2>7 DEF NativeGroups
  <2>9. p \in ParentsOf(d, h)
    BY <2>7 DEF ParentsOf, GroupMembers
  <2> HIDE DEF h, p, S, rank
  <2>10. p \in Above(d, h)
    BY <2>1, <2>8, <2>9, OrderlyIsNested, AboveIsClosed DEF AboveIs
  <2>11. CASE p # g
    <3>1. g \in Above(d, p)
      BY <2>1, <2>2, <2>6, <2>11
    <3>2. ParentsOf(d, p) \ {None} \subseteq Above(d, h)
      BY <2>8, <2>10, OrderlyIsNested, AboveIsClosed DEF AboveIs, ParentsIn
    <3>3. Above(d, p) \subseteq Above(d, h)
      BY <2>8, <3>2, OrderlyIsNested, AboveIsClosed DEF AboveIs
    <3> QED BY <3>1, <3>3 DEF h
  <2> QED BY <2>10, <2>11 DEF h
<1>3. rank \in [S -> Nat]
  BY <1>1
<1>4. j \in S
  OBVIOUS
<1> HIDE DEF S, rank, G
<1>5. j \in G
  BY <1>2, <1>3, <1>4, RankInduction
<1> QED BY <1>5 DEF G

\* What a boundary says.
LEMMA BoundaryOf ==
  ASSUME NEW d, Len(d) \in Nat, NEW i \in 1..(Len(d) - 1)
  PROVE  /\ Boundaries(d)[i].class = Classify(d[i], d[i + 1])
         /\ Boundaries(d)[i].guard = Guard(d[i], d[i + 1])
         /\ Boundaries(d)[i].explicit = ExplicitStart(d[i + 1])
BY DEF Boundaries

\* Between two elements of one group is no boundary.
LEMMA InsideOfGroup ==
  ASSUME NEW d, Len(d) \in Nat, NEW i \in 1..(Len(d) - 1), d[i].group # None, d[i].group = d[i + 1].group
  PROVE  Boundaries(d)[i].class = "NONE"
<1>1. None \notin {d[i].group, d[i + 1].group}
  OBVIOUS
<1>2. NativeRelation(d[i], d[i + 1]) = "SAME"
  BY <1>1 DEF NativeRelation
<1>3. Guard(d[i], d[i + 1]) = "NATIVE_INTEGRITY_GROUP"
  BY <1>2 DEF Guard
<1>4. None # "NATIVE_INTEGRITY_GROUP"
  BY GuardAssumption
<1> QED BY <1>3, <1>4, BoundaryOf DEF Classify

\* What adapters read in an orderly way is not refused for its groups.
LEMMA GroupsAreSound == ASSUME NEW d, Orderly(d) PROVE SoundGroups(d, Boundaries(d))
<1> SUFFICES ASSUME NEW g \in NativeGroups(d) PROVE SoundGroup(d, Boundaries(d), g)
  BY DEF SoundGroups
<1> DEFINE members == GroupMembers(d, g)
<1>1. Len(d) \in Nat /\ DOMAIN d = 1..Len(d)
  BY DEF Orderly
<1>2. members = {i \in 1..Len(d) : d[i].group = g} /\ members # {} /\ g # None
  BY MembersOfGroup
<1>3. members \in SUBSET (1..Len(d)) /\ Min(members) \in members /\ Max(members) \in members
      /\ \A k \in members : Min(members) <= k /\ k <= Max(members)
  <2>1. members \in SUBSET (1..Len(d)) /\ members # {} /\ 1 \in Int /\ Len(d) \in Int
    BY <1>1, <1>2
  <2> HIDE DEF members
  <2> QED BY <2>1, ExtremeOfInterval
<1>4. Cardinality({Family(d[i].type) : i \in members}) = 1
  <2>1. \E f : {Family(d[i].type) : i \in members} = {f}
    <3>1. CASE \A i \in members : d[i].type \in TableTypes
      <4>1. \A i \in members : Family(d[i].type) = "table"
        BY <3>1, FamilyOfTables
      <4> QED BY <1>2, <4>1
    <3>2. CASE \A i \in members : d[i].type = "LIST_ITEM"
      <4>1. \A i \in members : Family(d[i].type) = Family("LIST_ITEM")
        BY <3>2
      <4> QED BY <1>2, <4>1
    <3> QED BY <3>1, <3>2, MembersOfGroup
  <2> HIDE DEF members
  <2> QED BY <2>1, FS_Singleton
<1>5. Cardinality(ParentsOf(d, g)) = 1
  <2>1. PICK p : ParentsOf(d, g) = {p}
    BY MembersOfGroup
  <2> QED BY <2>1, FS_Singleton
<1>6. ParentsOf(d, g) \subseteq NativeGroups(d) \cup {None} /\ g \notin Above(d, g)
  BY MembersOfGroup, NotAboveItself
<1>7. ASSUME NEW i \in Min(members)..Max(members) \ members
      PROVE  d[i].group \in NativeGroups(d) /\ g \in Above(d, d[i].group)
  <2> DEFINE lo == Min(members)
             hi == Max(members)
  <2>1. lo \in 1..Len(d) /\ hi \in 1..Len(d) /\ d[lo].group = g /\ d[hi].group = g /\ i \in lo..hi /\ i \in 1..Len(d)
    <3>1. lo \in members /\ hi \in members
      BY <1>3
    <3>2. lo \in 1..Len(d) /\ hi \in 1..Len(d) /\ d[lo].group = g /\ d[hi].group = g
      BY <1>2, <3>1
    <3> QED BY <1>1, <3>2
  <2> HIDE DEF lo, hi
  <2>2. CASE d[lo].type = "LIST_ITEM"
    <3>1. d[i].group = g
      BY <1>1, <2>1, <2>2 DEF Orderly
    <3> QED BY <1>2, <2>1, <3>1
  <2>3. CASE d[lo].type \in TableTypes
    <3>1. PICK inner : IsInner(d, inner)
      BY DEF Orderly
    <3>2. d[i].type \in TableTypes /\ d[i].group \in inner[g]
      BY <1>1, <2>1, <2>3, <3>1 DEF IsInner
    <3>3. d[i].group # g
      BY <1>2, <2>1
    <3>4. i \in Keyed(d)
      BY <2>1, <3>2, OrderlyGroups
    <3> QED BY <2>1, <3>1, <3>2, <3>3, <3>4, AboveWhatIsInside DEF NativeGroups
  <2> QED BY <1>2, <2>1, <2>2, <2>3, OrderlyGroups
<1>8. ASSUME NEW i \in members, i + 1 \in members
      PROVE  Boundaries(d)[i].class # "HARD"
  <2>1. i \in 1..(Len(d) - 1) /\ d[i].group = g /\ d[i + 1].group = g
    BY <1>1, <1>2, <1>8
  <2> QED BY <1>1, <1>2, <2>1, InsideOfGroup
<1> QED BY <1>4, <1>5, <1>6, <1>7, <1>8 DEF SoundGroup

-----------------------------------------------------------------------------
(* The spans that the source names.                                        *)

FirstsOf(d) == {Min(GroupMembers(d, g)) : g \in NativeGroups(d)}

AreSpansTo(d, bb, spans) ==
  /\ NativeSpans(d, bb) = ToSet(spans[Len(d)])
  /\ spans \in [0..Len(d) -> Seq(SpanSet(d))] /\ spans[0] = <<>>
  /\ \A i \in 1..Len(d) :
       spans[i] = IF i \in FirstsOf(d) THEN Added(d, bb, spans[i - 1], Span(d, d[i].group)) ELSE spans[i - 1]

\* The spans so far, element by element.
LEMMA NativeSpansUnfold ==
  ASSUME NEW d, NEW bb, IsGrouped(d)
  PROVE  \E spans : AreSpansTo(d, bb, spans)
<1> DEFINE n == Len(d)
           V == Seq(SpanSet(d))
           firsts == {Min(GroupMembers(d, g)) : g \in NativeGroups(d)}
           Made(i, before) == IF i \in firsts THEN Added(d, bb, before, Span(d, d[i].group)) ELSE before
           step == [p \in (1..n) \X V |-> Made(p[1], p[2])]
           Add(spans, t) ==
             IF spans # <<>> /\ Continues(d, bb, spans[Len(spans)], t)
             THEN [spans EXCEPT ![Len(spans)] = Joined(@, t)]
             ELSE Append(spans, t)
           Unfolds(F) == F = [i \in 0..n |->
             IF i = 0 THEN <<>>
             ELSE IF i \in firsts THEN Add(F[i - 1], Span(d, d[i].group)) ELSE F[i - 1]]
<1>0. n \in Nat
  BY DEF IsGrouped
<1>1. ASSUME NEW i \in 1..n, NEW before \in V PROVE Made(i, before) \in V
  <2>1. CASE i \in firsts
    <3>1. PICK g \in NativeGroups(d) : i = Min(GroupMembers(d, g))
      BY <2>1
    <3>2. i \in GroupMembers(d, g) /\ d[i].group = g
      <4>1. /\ Min(GroupMembers(d, g)) \in GroupMembers(d, g)
            /\ \A j \in GroupMembers(d, g) : d[j].group = g
        BY GroupsHaveMembers DEF IsGrouped
      <4> QED BY <3>1, <4>1
    <3>3. Span(d, d[i].group) \in SpanSet(d)
      BY <3>2, SpansOfGroups
    <3> QED BY <2>1, <3>3, SpansAreAdded
  <2>2. CASE i \notin firsts
    BY <2>2
  <2> QED BY <2>1, <2>2
<1> HIDE DEF firsts
<1>2. IsIteration(n, V, <<>>, step)
  <2>1. \A p \in (1..n) \X V : step[p] \in V
    <3> SUFFICES ASSUME NEW i \in 1..n, NEW before \in V PROVE step[<<i, before>>] \in V
      OBVIOUS
    <3>1. step[<<i, before>>] = Made(i, before)
      OBVIOUS
    <3> QED BY <1>1, <3>1
  <2>2. <<>> \in V
    OBVIOUS
  <2>3. step \in [(1..n) \X V -> V]
    <3> HIDE DEF V, Made
    <3> QED BY <2>1
  <2> HIDE DEF V, step
  <2> QED BY <1>0, <2>2, <2>3 DEF IsIteration
<1>3. PICK f \in [0..n -> V] : f[0] = <<>> /\ \A i \in 1..n : f[i] = step[<<i, f[i - 1]>>]
  <2> HIDE DEF V, step
  <2> QED BY <1>2, IterationExists
<1>4. Unfolds(f)
  <2>1. ASSUME NEW i \in 1..n PROVE f[i] = Made(i, f[i - 1])
    <3>1. f[i - 1] \in V
      BY <1>0
    <3> HIDE DEF V, Made
    <3> QED BY <1>3, <3>1
  <2>2. f = [i \in 0..n |-> f[i]]
    OBVIOUS
  <2>3. \A i \in 0..n : i = 0 \/ i \in 1..n
    BY <1>0
  <2>4. \A i \in 0..n : f[i] = IF i = 0 THEN <<>> ELSE Made(i, f[i - 1])
    <3> HIDE DEF V, Made
    <3> QED BY <1>3, <2>1, <2>3
  <2> HIDE DEF step, V
  <2> QED BY <2>2, <2>4 DEF Added
<1> DEFINE spans == CHOOSE F : Unfolds(F)
<1>6. Unfolds(spans)
  BY <1>4
<1>7. NativeSpans(d, bb) = ToSet(spans[n])
  BY DEF NativeSpans, firsts
<1> HIDE DEF spans
<1>8. 0 \in 0..n /\ (\A i \in 1..n : i \in 0..n /\ i # 0 /\ i - 1 \in 0..n) /\ \A i \in 0..n : i = 0 \/ i \in 1..n
  BY <1>0
<1>9. spans[0] = <<>> /\ \A i \in 1..n : spans[i] = Made(i, spans[i - 1])
  BY <1>6, <1>8 DEF Added
<1>10. DOMAIN spans = 0..n /\ spans = [i \in 0..n |-> spans[i]]
  BY <1>6
<1> HIDE DEF Unfolds, Made, V
<1>11. \A i \in 0..n : spans[i] \in V
  <2> DEFINE G == {i \in 0..n : spans[i] \in V}
  <2>1. 0 \in G
    <3>1. <<>> \in V
      BY DEF V
    <3> QED BY <1>8, <1>9, <3>1
  <2>2. ASSUME NEW i \in 0..(n - 1), i \in G PROVE i + 1 \in G
    <3>1. i + 1 \in 1..n /\ (i + 1) - 1 = i /\ i + 1 \in 0..n
      BY <1>0
    <3>2. spans[i + 1] = Made(i + 1, spans[i]) /\ spans[i] \in V
      BY <1>9, <2>2, <3>1
    <3> DEFINE k == i + 1
    <3> HIDE DEF k
    <3>3. Made(k, spans[i]) \in V
      BY <1>1, <3>1, <3>2 DEF k
    <3> QED BY <3>1, <3>2, <3>3 DEF k
  <2>3. Inductive(0, n, G)
    BY <2>1, <2>2 DEF Inductive
  <2> HIDE DEF G
  <2>4. \A i \in 0..n : i \in G
    BY <1>0, <2>3, UpTo
  <2> QED BY <2>4 DEF G
<1> QED BY <1>7, <1>9, <1>10, <1>11 DEF AreSpansTo, FirstsOf, firsts, Made, V

IsAdded(d, bb, spans, t, added) ==
  LET n == Len(spans)
  IN \/ /\ n # 0 /\ Continues(d, bb, spans[n], t) /\ DOMAIN added = 1..n
        /\ added[n] = Joined(spans[n], t) /\ \A k \in 1..n : k # n => added[k] = spans[k]
     \/ DOMAIN added = 1..(n + 1) /\ added[n + 1] = t /\ \A k \in 1..n : added[k] = spans[k]

\* What the last span was joined to, or the spans it came after.
LEMMA AddedIs ==
  ASSUME NEW d, NEW bb, NEW spans \in Seq(SpanSet(d)), NEW t \in SpanSet(d)
  PROVE  IsAdded(d, bb, spans, t, Added(d, bb, spans, t))
<1> DEFINE n == Len(spans)
           added == Added(d, bb, spans, t)
           SS == SpanSet(d)
<1>0. n \in Nat /\ DOMAIN spans = 1..n
  OBVIOUS
<1>1. CASE spans # <<>> /\ Continues(d, bb, spans[n], t)
  <2>1. added = [spans EXCEPT ![n] = Joined(spans[n], t)] /\ n # 0 /\ n \in 1..n
    BY <1>1 DEF Added
  <2> QED BY <1>0, <1>1, <2>1 DEF IsAdded
<1>2. CASE ~(spans # <<>> /\ Continues(d, bb, spans[n], t))
  <2>1. added = Append(spans, t)
    BY <1>2 DEF Added
  <2> HIDE DEF added, SS
  <2>2. DOMAIN added = 1..(n + 1) /\ added[n + 1] = t /\ \A k \in 1..n : added[k] = spans[k]
    BY <1>0, <2>1 DEF SS
  <2> QED BY <2>2 DEF added, IsAdded
<1> QED BY <1>1, <1>2 DEF IsAdded

\* What a text must not say to be understood, as in ReadsPlainly.
PlainlyRead(d) ==
  \A i \in DOMAIN d :
    /\ d[i].type = "HEADING" => "answer" \notin d[i].marks
    /\ i > 1 /\ Marginal(d[i]) => ~("question" \in d[i - 1].marks /\ "answer" \in d[i].marks)
    /\ \A j \in (i + 2)..Len(d) :
         Marginal(d[i]) /\ {d[i].type, d[j].type} = {"LIST_ITEM"} =>
           \E k \in (i + 1)..(j - 1) : ~IsBlankParagraph(d[k])

\* A list, which may go on over separators and blank paragraphs.
IsListSpan(d, s) ==
  /\ s.family = "list" /\ s.parent = None
  /\ \A i \in s.members : i \in 1..Len(d) /\ d[i].type = "LIST_ITEM"
  /\ \A i, k \in s.members : Marginal(d[i]) = Marginal(d[k])
  /\ \E a, e \in s.members :
       /\ s.members \subseteq a..e
       /\ \A k \in a..e : \/ k \in s.members \/ d[k].type = "SEPARATOR"
                          \/ IsBlankParagraph(d[k]) /\ ~Marginal(d[k]) /\ ~Marginal(d[a])

\* The ends of a set are those of an interval that it spans.
LEMMA HullEnds ==
  ASSUME NEW S, NEW a \in Int, NEW e \in Int, a \in S, e \in S, S \subseteq a..e
  PROVE  Min(S) = a /\ Max(S) = e /\ a <= e
<1>1. S \in SUBSET (a..e) /\ S # {}
  OBVIOUS
<1>2. Max(S) \in S /\ Min(S) \in S /\ \A k \in S : Min(S) <= k /\ k <= Max(S)
  BY <1>1, ExtremeOfInterval
<1> DEFINE lo == Min(S)
           hi == Max(S)
<1>3. lo \in a..e /\ hi \in a..e /\ lo <= a /\ e <= hi
  BY <1>1, <1>2
<1> HIDE DEF lo, hi
<1>4. lo = a /\ hi = e /\ a <= e
  BY <1>3
<1> QED BY <1>4 DEF lo, hi

\* The margin is left and entered at separators only.
LEMMA MarginsAreApart ==
  ASSUME NEW d, Orderly(d), NEW a \in 1..Len(d), NEW e \in 1..Len(d), \A k \in (a + 1)..e : d[k].type # "SEPARATOR"
  PROVE  \A k \in a..e : Marginal(d[k]) = Marginal(d[a])
<1> DEFINE G == {k \in a..e : Marginal(d[k]) = Marginal(d[a])}
<1>1. Len(d) \in Nat /\ DOMAIN d = 1..Len(d)
      /\ \A i \in DOMAIN d \ {1} : Marginal(d[i - 1]) # Marginal(d[i]) => d[i].type = "SEPARATOR"
  BY DEF Orderly
<1>2. CASE a <= e
  <2>1. a \in G
    BY <1>2
  <2>2. ASSUME NEW k \in a..(e - 1), k \in G PROVE k + 1 \in G
    <3>1. k + 1 \in DOMAIN d \ {1} /\ (k + 1) - 1 = k /\ k + 1 \in (a + 1)..e /\ k + 1 \in a..e
      BY <1>1, <1>2
    <3> DEFINE j == k + 1
    <3>2. j \in DOMAIN d \ {1} /\ j - 1 = k /\ j \in (a + 1)..e /\ j \in a..e
      BY <3>1
    <3> HIDE DEF j
    <3>3. d[j].type # "SEPARATOR"
      BY <3>2
    <3>4. Marginal(d[k]) = Marginal(d[j])
      BY <1>1, <3>2, <3>3
    <3>5. Marginal(d[j]) = Marginal(d[a])
      BY <2>2, <3>4
    <3>6. j \in G
      BY <3>2, <3>5
    <3> QED BY <3>6 DEF j
  <2>3. Inductive(a, e, G)
    BY <2>1, <2>2 DEF Inductive
  <2> HIDE DEF G
  <2>4. \A k \in a..e : k \in G
    BY <1>2, <2>3, UpTo
  <2> QED BY <2>4 DEF G
<1>3. CASE ~(a <= e)
  BY <1>1, <1>3
<1> QED BY <1>2, <1>3

\* A list that goes on is a list.
LEMMA ListsContinue ==
  ASSUME NEW d, Orderly(d), PlainlyRead(d), NEW s \in SpanSet(d), NEW t \in SpanSet(d),
         IsListSpan(d, s), IsListSpan(d, t), NEW bb, Continues(d, bb, s, t)
  PROVE  /\ IsListSpan(d, Joined(s, t))
         /\ Joined(s, t).members = s.members \cup t.members /\ Joined(s, t).groups = s.groups \cup t.groups
<1> DEFINE J == Joined(s, t)
<1>0. Len(d) \in Nat /\ DOMAIN d = 1..Len(d)
  BY DEF Orderly
<1>1. J.members = s.members \cup t.members /\ J.groups = s.groups \cup t.groups /\ J.family = "list" /\ J.parent = None
  <2>1. s = [family |-> s.family, members |-> s.members, groups |-> s.groups, parent |-> s.parent]
    BY DEF SpanSet
  <2>2. J = [family |-> s.family, members |-> s.members \cup t.members, groups |-> s.groups \cup t.groups,
             parent |-> IF s.parent = t.parent THEN s.parent ELSE None]
    BY <2>1, JoinedFields
  <2> HIDE DEF J
  <2> QED BY <2>2 DEF IsListSpan
<1> HIDE DEF J
<1>2. PICK a, l \in s.members :
        /\ s.members \subseteq a..l
        /\ \A k \in a..l : \/ k \in s.members \/ d[k].type = "SEPARATOR"
                           \/ IsBlankParagraph(d[k]) /\ ~Marginal(d[k]) /\ ~Marginal(d[a])
  BY DEF IsListSpan
<1>3. PICK r, e \in t.members :
        /\ t.members \subseteq r..e
        /\ \A k \in r..e : \/ k \in t.members \/ d[k].type = "SEPARATOR"
                           \/ IsBlankParagraph(d[k]) /\ ~Marginal(d[k]) /\ ~Marginal(d[r])
  BY DEF IsListSpan
<1>4. /\ \A i \in s.members : i \in 1..Len(d) /\ d[i].type = "LIST_ITEM" /\ Marginal(d[i]) = Marginal(d[l])
      /\ \A i \in t.members : i \in 1..Len(d) /\ d[i].type = "LIST_ITEM" /\ Marginal(d[i]) = Marginal(d[r])
  BY DEF IsListSpan
<1>5. a \in 1..Len(d) /\ l \in 1..Len(d) /\ r \in 1..Len(d) /\ e \in 1..Len(d)
  BY <1>4
<1>6. Max(s.members) = l /\ Min(t.members) = r /\ a <= l /\ r <= e
  BY <1>2, <1>3, <1>5, HullEnds
<1>7. l < r /\ d[l].zone = d[r].zone
  BY <1>6 DEF Continues, SameStory
<1>8. Marginal(d[l]) = Marginal(d[r])
  BY <1>7 DEF Marginal
<1>9. ASSUME NEW k \in (l + 1)..(r - 1)
      PROVE  d[k].type = "SEPARATOR" \/ (IsBlankParagraph(d[k]) /\ ~Marginal(d[k]) /\ ~Marginal(d[a]))
  <2>1. CASE r = l + 2 /\ IsSectionBreak(d[l + 1], d[l], d[r])
    BY <1>5, <1>9, <2>1 DEF IsSectionBreak
  <2>2. CASE \A i \in (l + 1)..(r - 1) : IsBlankParagraph(d[i])
    <3>1. r \in (l + 2)..Len(d) /\ l \in DOMAIN d
      BY <1>0, <1>5, <1>9
    <3>2. {d[l].type, d[r].type} = {"LIST_ITEM"}
      BY <1>2, <1>3, <1>4
    <3>3. ~Marginal(d[l])
      BY <2>2, <3>1, <3>2 DEF PlainlyRead
    <3>4. k \in l..(r - 1) /\ r - 1 \in 1..Len(d)
      BY <1>0, <1>5, <1>9
    <3>5. \A i \in (l + 1)..(r - 1) : d[i].type # "SEPARATOR"
      BY <2>2 DEF IsBlankParagraph
    <3>6. Marginal(d[k]) = Marginal(d[l])
      BY <1>5, <3>4, <3>5, MarginsAreApart
    <3> QED BY <1>2, <1>4, <1>9, <2>2, <3>3, <3>6
  <2>3. (l + 1)..(r - 1) # {}
    OBVIOUS
  <2> QED BY <1>6, <2>1, <2>2, <2>3 DEF Continues
<1>10. J.members \subseteq a..e
  BY <1>1, <1>2, <1>3, <1>5, <1>6, <1>7
<1>11. \A k \in a..e : k \in a..l \/ k \in (l + 1)..(r - 1) \/ k \in r..e
  BY <1>5
<1>12. \A k \in a..e : \/ k \in J.members \/ d[k].type = "SEPARATOR"
                       \/ IsBlankParagraph(d[k]) /\ ~Marginal(d[k]) /\ ~Marginal(d[a])
  <2>1. Marginal(d[a]) = Marginal(d[r])
    BY <1>2, <1>4, <1>8
  <2> QED BY <1>1, <1>2, <1>3, <1>9, <1>11, <2>1
<1>13. \A i \in J.members : i \in 1..Len(d) /\ d[i].type = "LIST_ITEM" /\ Marginal(d[i]) = Marginal(d[l])
  BY <1>1, <1>4, <1>8
<1>14. a \in J.members /\ e \in J.members
  BY <1>1, <1>2, <1>3
<1>15. IsListSpan(d, J)
  BY <1>1, <1>10, <1>12, <1>13, <1>14 DEF IsListSpan
<1> QED BY <1>1, <1>15 DEF J

\* The groups of an orderly document are not cut.
LEMMA OrderlyIsGrouped == ASSUME NEW d, Orderly(d) PROVE IsGrouped(d)
<1>1. \A g \in NativeGroups(d) : SoundGroup(d, Boundaries(d), g)
  BY GroupsAreSound DEF SoundGroups
<1> QED BY <1>1 DEF IsGrouped, Orderly, SoundGroup

\* A list that the source names, or several that go on, or a table.
IsNativeSpan(d, s) ==
  /\ s.groups # {} /\ s.groups \subseteq NativeGroups(d)
  /\ s.members = {i \in 1..Len(d) : d[i].group \in s.groups}
  /\ \/ s.family = "table" /\ \E g : IsTableGroup(g) /\ s.groups = {g} /\ ParentsOf(d, g) = {s.parent}
     \/ IsListSpan(d, s) /\ \A g \in s.groups : IsListGroup(g)

\* The span of a group is made of its elements.
LEMMA SpansOfGroupsAre ==
  ASSUME NEW d, Orderly(d), NEW g \in NativeGroups(d)
  PROVE  Span(d, g) \in SpanSet(d) /\ IsNativeSpan(d, Span(d, g)) /\ Span(d, g).groups = {g}
<1> DEFINE t == Span(d, g)
           members == GroupMembers(d, g)
<1>0. Len(d) \in Nat /\ DOMAIN d = 1..Len(d) /\ IsGrouped(d)
  BY OrderlyIsGrouped DEF Orderly
<1>1. t \in SpanSet(d) /\ t.members = members
  BY <1>0, SpansOfGroups
<1>2. /\ members = {i \in 1..Len(d) : d[i].group = g} /\ members # {} /\ g # None
      /\ \E p : ParentsOf(d, g) = {p}
      /\ \/ IsTableGroup(g) /\ (\A i \in members : d[i].type \in TableTypes)
         \/ IsListGroup(g) /\ (\A i \in members : d[i].type = "LIST_ITEM") /\ ParentsOf(d, g) = {None}
  <2>1. members = {i \in 1..Len(d) : d[i].group = g} /\ members # {} /\ g # None
    BY MembersOfGroup
  <2>2. \E p : ParentsOf(d, g) = {p}
    BY MembersOfGroup
  <2>3. \/ IsTableGroup(g) /\ (\A i \in members : d[i].type \in TableTypes)
        \/ IsListGroup(g) /\ (\A i \in members : d[i].type = "LIST_ITEM") /\ ParentsOf(d, g) = {None}
    BY Zenon, MembersOfGroup
  <2> QED BY <2>1, <2>2, <2>3
<1>3. members \in SUBSET (1..Len(d)) /\ Min(members) \in members /\ Max(members) \in members
      /\ \A k \in members : Min(members) <= k /\ k <= Max(members)
  <2>1. members \in SUBSET (1..Len(d)) /\ members # {} /\ 1 \in Int /\ Len(d) \in Int
    BY <1>0, <1>2
  <2> HIDE DEF members
  <2> QED BY <2>1, ExtremeOfInterval
<1>4. t.groups = {g} /\ t.family = Family(d[Min(members)].type) /\ ParentsOf(d, g) = {t.parent}
  BY <1>2 DEF Span
<1> HIDE DEF t, members
<1>5. t.members = {i \in 1..Len(d) : d[i].group \in t.groups}
  BY <1>1, <1>2, <1>4
<1>6. CASE IsTableGroup(g) /\ (\A i \in members : d[i].type \in TableTypes)
  <2>1. t.family = "table"
    BY <1>3, <1>4, <1>6, FamilyOfTables
  <2>2. IsNativeSpan(d, t)
    BY <1>4, <1>5, <1>6, <2>1 DEF IsNativeSpan
  <2> QED BY <1>1, <1>4, <2>2 DEF t
<1>7. CASE IsListGroup(g) /\ (\A i \in members : d[i].type = "LIST_ITEM") /\ ParentsOf(d, g) = {None}
  <2>1. t.family = "list" /\ t.parent = None
    <3>1. d[Min(members)].type = "LIST_ITEM" /\ Min(members) \in 1..Len(d)
      BY <1>3, <1>7
    <3> QED BY <1>4, <1>7, <3>1, OrderlyGroups
  <2> DEFINE a == Min(members)
             e == Max(members)
  <2>2. a \in members /\ e \in members /\ members \subseteq a..e /\ a \in 1..Len(d) /\ e \in 1..Len(d)
    <3>1. a \in members /\ e \in members /\ members \in SUBSET (1..Len(d)) /\ \A k \in members : a <= k /\ k <= e
      BY <1>3
    <3> HIDE DEF a, e
    <3>2. a \in 1..Len(d) /\ e \in 1..Len(d)
      BY <3>1
    <3>3. \A k \in members : k \in Int
      BY <1>0, <3>1
    <3>4. members \subseteq a..e
      BY <3>1, <3>2, <3>3
    <3> QED BY <3>1, <3>2, <3>4
  <2> HIDE DEF a, e
  <2>3. \A k \in a..e : d[k].group = g /\ k \in 1..Len(d)
    <3>1. d[a].type = "LIST_ITEM" /\ d[a].group = g /\ d[e].group = g
      BY <1>2, <1>7, <2>2
    <3>2. \A k \in a..e : d[k].group = g
      BY <1>0, <2>2, <3>1 DEF Orderly
    <3> QED BY <1>0, <2>2, <3>2
  <2>4. \A k \in a..e : k \in members
    BY <1>2, <2>3
  <2>5. \A k \in (a + 1)..e : d[k].type # "SEPARATOR"
    <3> SUFFICES ASSUME NEW k \in (a + 1)..e PROVE d[k].type # "SEPARATOR"
      OBVIOUS
    <3>1. k \in a..e
      BY <2>2
    <3> QED BY <1>7, <2>4, <3>1
  <2>6. \A k \in a..e : Marginal(d[k]) = Marginal(d[a])
    BY <2>2, <2>5, MarginsAreApart
  <2>7. \A i, k \in members : Marginal(d[i]) = Marginal(d[k])
    BY <2>2, <2>6
  <2>8. IsListSpan(d, t)
    BY <1>1, <1>2, <1>7, <2>1, <2>2, <2>4, <2>7 DEF IsListSpan
  <2>9. IsNativeSpan(d, t)
    BY <1>4, <1>5, <1>7, <2>8 DEF IsNativeSpan
  <2> QED BY <1>1, <1>4, <2>9 DEF t
<1> QED BY <1>2, <1>6, <1>7

\* The spans so far are of groups that have begun, each of its own.
AreNative(d, spans, i) ==
  /\ spans \in Seq(SpanSet(d))
  /\ \A k \in 1..Len(spans) :
       IsNativeSpan(d, spans[k]) /\ \A g \in spans[k].groups : Min(GroupMembers(d, g)) <= i
  /\ \A k, l \in 1..Len(spans) : k # l => spans[k].groups \cap spans[l].groups = {}

\* What is added for the next group leaves the spans of the groups as they should be.
LEMMA NativeGrow ==
  ASSUME NEW d, Orderly(d), PlainlyRead(d), NEW bb, NEW i \in 1..Len(d), NEW spans, AreNative(d, spans, i - 1)
  PROVE  AreNative(d, IF i \in FirstsOf(d) THEN Added(d, bb, spans, Span(d, d[i].group)) ELSE spans, i)
<1> DEFINE First(g) == Min(GroupMembers(d, g))
           n == Len(spans)
<1>0. Len(d) \in Nat /\ DOMAIN d = 1..Len(d) /\ IsGrouped(d)
  BY OrderlyIsGrouped DEF Orderly
<1>1. \A g \in NativeGroups(d) :
        First(g) \in 1..Len(d) /\ d[First(g)].group = g
  <2> SUFFICES ASSUME NEW g \in NativeGroups(d) PROVE First(g) \in 1..Len(d) /\ d[First(g)].group = g
    OBVIOUS
  <2>1. /\ First(g) \in GroupMembers(d, g) /\ GroupMembers(d, g) \subseteq Keyed(d) /\ Keyed(d) \subseteq 1..Len(d)
        /\ \A j \in GroupMembers(d, g) : d[j].group = g
    BY <1>0, GroupsHaveMembers
  <2> QED BY <2>1
<1>2. n \in Nat /\ DOMAIN spans = 1..n /\ spans \in Seq(SpanSet(d)) /\ \A k \in 1..n : spans[k] \in SpanSet(d)
  BY DEF AreNative
<1> HIDE DEF First
<1>3. \A k \in 1..n : \A g \in spans[k].groups : g \in NativeGroups(d) /\ First(g) <= i - 1 /\ First(g) <= i /\ First(g) # i
  <2> SUFFICES ASSUME NEW k \in 1..n, NEW g \in spans[k].groups
               PROVE  g \in NativeGroups(d) /\ First(g) <= i - 1 /\ First(g) <= i /\ First(g) # i
    OBVIOUS
  <2>1. g \in NativeGroups(d) /\ First(g) <= i - 1
    BY DEF AreNative, IsNativeSpan, First
  <2> QED BY <1>1, <2>1
<1>4. CASE i \notin FirstsOf(d)
  <2>1. AreNative(d, spans, i)
    BY <1>3 DEF AreNative, First
  <2> QED BY <1>4, <2>1
<1>5. CASE i \in FirstsOf(d)
  <2>1. PICK g \in NativeGroups(d) : i = First(g)
    BY <1>5 DEF FirstsOf, First
  <2>2. d[i].group = g
    BY <1>1, <2>1
  <2> DEFINE t == Span(d, g)
             added == Added(d, bb, spans, t)
  <2>3. t \in SpanSet(d) /\ IsNativeSpan(d, t) /\ t.groups = {g}
    BY SpansOfGroupsAre
  <2> HIDE DEF t
  <2>4. \A k \in 1..n : g \notin spans[k].groups
    BY <1>3, <2>1
  <2>5. added \in Seq(SpanSet(d))
    BY <1>2, <2>3, SpansAreAdded
  <2>6. CASE /\ n # 0 /\ Continues(d, bb, spans[n], t) /\ DOMAIN added = 1..n
             /\ added[n] = Joined(spans[n], t) /\ \A k \in 1..n : k # n => added[k] = spans[k]
    <3> DEFINE s == spans[n]
    <3>1. n \in 1..n /\ s \in SpanSet(d) /\ IsNativeSpan(d, s)
      <4>1. n \in 1..n
        BY <1>2, <2>6
      <4> QED BY <1>2, <4>1 DEF AreNative
    <3>2. s.family = "list" /\ t.family = "list" /\ Continues(d, bb, s, t) /\ added[n] = Joined(s, t)
      BY <2>6 DEF Continues
    <3> HIDE DEF s, added
    <3>3. IsListSpan(d, s) /\ IsListSpan(d, t) /\ \A h \in s.groups \cup t.groups : IsListGroup(h)
      BY <2>3, <3>1, <3>2 DEF IsNativeSpan
    <3>4. /\ IsListSpan(d, added[n]) /\ added[n].members = s.members \cup t.members
          /\ added[n].groups = s.groups \cup t.groups
      BY <2>3, <3>1, <3>2, <3>3, ListsContinue
    <3>5. IsNativeSpan(d, added[n])
      <4>1. added[n].members = {j \in 1..Len(d) : d[j].group \in added[n].groups}
        BY <2>3, <3>1, <3>4 DEF IsNativeSpan
      <4>2. added[n].groups # {} /\ added[n].groups \subseteq NativeGroups(d)
        BY <2>3, <3>1, <3>4 DEF IsNativeSpan
      <4> QED BY <3>3, <3>4, <4>1, <4>2 DEF IsNativeSpan
    <3>6. Len(added) = n
      BY <1>2, <2>5, <2>6
    <3>7. \A k \in 1..n : IsNativeSpan(d, added[k]) /\ \A h \in added[k].groups : First(h) <= i
      <4> SUFFICES ASSUME NEW k \in 1..n PROVE IsNativeSpan(d, added[k]) /\ \A h \in added[k].groups : First(h) <= i
        OBVIOUS
      <4>1. CASE k = n
        <5>1. \A h \in s.groups : First(h) <= i
          BY <1>3, <3>1 DEF s
        <5>2. First(g) <= i
          BY <2>1
        <5> QED BY <2>3, <3>4, <3>5, <4>1, <5>1, <5>2
      <4>2. CASE k # n
        BY <1>3, <2>6, <4>2 DEF AreNative
      <4> QED BY <4>1, <4>2
    <3>8. \A k, l \in 1..n : k # l => added[k].groups \cap added[l].groups = {}
      <4> SUFFICES ASSUME NEW k \in 1..n, NEW l \in 1..n, k # l PROVE added[k].groups \cap added[l].groups = {}
        OBVIOUS
      <4>1. spans[k].groups \cap spans[l].groups = {} /\ g \notin spans[k].groups /\ g \notin spans[l].groups
        BY <2>4 DEF AreNative
      <4>2. \A x \in 1..n : added[x].groups = spans[x].groups \/ (x = n /\ added[x].groups = spans[x].groups \cup {g})
        BY <2>3, <2>6, <3>4 DEF s
      <4> QED BY <4>1, <4>2
    <3>9. AreNative(d, added, i)
      BY <2>5, <3>6, <3>7, <3>8 DEF AreNative, First
    <3> QED BY <1>5, <2>2, <3>9 DEF added, t
  <2>7. CASE DOMAIN added = 1..(n + 1) /\ added[n + 1] = t /\ \A k \in 1..n : added[k] = spans[k]
    <3> HIDE DEF added
    <3>1. Len(added) = n + 1
      BY <1>2, <2>5, <2>7
    <3>2. \A k \in 1..(n + 1) : k \in 1..n \/ k = n + 1
      BY <1>2
    <3>3. First(g) <= i
      BY <2>1
    <3>4. \A k \in 1..(n + 1) : IsNativeSpan(d, added[k]) /\ \A h \in added[k].groups : First(h) <= i
      <4> SUFFICES ASSUME NEW k \in 1..(n + 1) PROVE IsNativeSpan(d, added[k]) /\ \A h \in added[k].groups : First(h) <= i
        OBVIOUS
      <4>1. CASE k = n + 1
        BY <2>3, <2>7, <3>3, <4>1
      <4>2. CASE k \in 1..n
        BY <1>3, <2>7, <4>2 DEF AreNative
      <4> QED BY <3>2, <4>1, <4>2
    <3>5. \A k, l \in 1..(n + 1) : k # l => added[k].groups \cap added[l].groups = {}
      <4> SUFFICES ASSUME NEW k \in 1..(n + 1), NEW l \in 1..(n + 1), k # l PROVE added[k].groups \cap added[l].groups = {}
        OBVIOUS
      <4>1. CASE k \in 1..n /\ l \in 1..n
        BY <2>7, <4>1 DEF AreNative
      <4>2. CASE k = n + 1 \/ l = n + 1
        BY <2>3, <2>4, <2>7, <3>2, <4>2
      <4> QED BY <3>2, <4>1, <4>2
    <3>6. AreNative(d, added, i)
      BY <2>5, <3>1, <3>4, <3>5 DEF AreNative, First
    <3> QED BY <1>5, <2>2, <3>6 DEF added, t
  <2>8. \/ /\ n # 0 /\ Continues(d, bb, spans[n], t) /\ DOMAIN added = 1..n
           /\ added[n] = Joined(spans[n], t) /\ \A k \in 1..n : k # n => added[k] = spans[k]
        \/ DOMAIN added = 1..(n + 1) /\ added[n + 1] = t /\ \A k \in 1..n : added[k] = spans[k]
    <3>1. IsAdded(d, bb, spans, t, added)
      BY <1>2, <2>3, AddedIs
    <3> HIDE DEF added
    <3> QED BY <3>1 DEF IsAdded
  <2> HIDE DEF added
  <2> QED BY <2>6, <2>7, <2>8
<1> QED BY <1>4, <1>5

\* Each native span is a table or a list, and no two share a group.
LEMMA NativeSpansAre ==
  ASSUME NEW d, Orderly(d), PlainlyRead(d), NEW bb
  PROVE  /\ \A s \in NativeSpans(d, bb) : s \in SpanSet(d) /\ IsNativeSpan(d, s)
         /\ \A s, t \in NativeSpans(d, bb) : s # t => s.groups \cap t.groups = {}
<1> DEFINE n == Len(d)
<1>0. n \in Nat /\ DOMAIN d = 1..n /\ IsGrouped(d)
  BY OrderlyIsGrouped DEF Orderly
<1>1. PICK spans : AreSpansTo(d, bb, spans)
  BY <1>0, NativeSpansUnfold
<1> DEFINE G == {i \in 0..n : AreNative(d, spans[i], i)}
<1>2. 0 \in G
  <2>1. <<>> \in Seq(SpanSet(d)) /\ Len(<<>>) = 0
    OBVIOUS
  <2>2. AreNative(d, <<>>, 0)
    BY <2>1 DEF AreNative
  <2> QED BY <1>0, <1>1, <2>2 DEF AreSpansTo
<1>3. ASSUME NEW i \in 0..(n - 1), i \in G PROVE i + 1 \in G
  <2> DEFINE k == i + 1
  <2>1. k \in 1..n /\ k - 1 = i /\ k \in 0..n
    BY <1>0
  <2> HIDE DEF k
  <2>2. spans[k] = IF k \in FirstsOf(d) THEN Added(d, bb, spans[k - 1], Span(d, d[k].group)) ELSE spans[k - 1]
    BY <1>1, <2>1 DEF AreSpansTo
  <2>3. AreNative(d, spans[k - 1], k - 1)
    BY <1>3, <2>1
  <2>4. AreNative(d, spans[k], k)
    BY <2>1, <2>2, <2>3, NativeGrow
  <2> QED BY <2>1, <2>4 DEF k
<1>4. Inductive(0, n, G)
  BY <1>2, <1>3 DEF Inductive
<1> HIDE DEF G
<1>5. \A i \in 0..n : i \in G
  BY <1>0, <1>4, UpTo
<1> DEFINE last == spans[n]
<1>6. AreNative(d, last, n) /\ NativeSpans(d, bb) = ToSet(last)
  BY <1>0, <1>1, <1>5 DEF G, AreSpansTo
<1> HIDE DEF last
<1>7. DOMAIN last = 1..Len(last) /\ \A k \in 1..Len(last) : last[k] \in SpanSet(d)
  BY <1>6 DEF AreNative
<1>8. NativeSpans(d, bb) = {last[k] : k \in 1..Len(last)}
  BY <1>6, <1>7 DEF ToSet
<1> QED BY <1>6, <1>7, <1>8 DEF AreNative

-----------------------------------------------------------------------------
(* No unit is crossed.                                                     *)

\* What holds no second table or list is not cut.
LEMMA NotSplit ==
  ASSUME NEW d, NEW i \in Int, NEW e \in Int, i <= e, \A k \in i..e : ~IsContainer(d[k])
  PROVE  SplitAtContainers(d, i..e) = {i..e}
<1> DEFINE run == i..e
           containers == {k \in run : IsContainer(d[k])}
           starts == {Min(run)} \cup (containers \ {k \in containers : \A j \in containers : k <= j})
           End(s) == Min({t - 1 : t \in {u \in starts : u > s}} \cup {Max(run)})
<1>1. Min(run) = i /\ Max(run) = e
  BY IntervalEnds
<1>2. containers = {}
  OBVIOUS
<1>3. starts = {i}
  BY <1>1, <1>2
<1>4. {t - 1 : t \in {u \in starts : u > i}} \cup {Max(run)} = {e}
  BY <1>1, <1>3
<1>5. Min({e}) = e
  <2>1. {e} = e..e
    OBVIOUS
  <2> QED BY <2>1, IntervalEnds
<1>6. End(i) = e
  BY <1>4, <1>5
<1>7. SplitAtContainers(d, run) = {s..End(s) : s \in starts}
  BY DEF SplitAtContainers
<1> HIDE DEF End, starts
<1> QED BY <1>3, <1>6, <1>7

\* A run of code or of formulas.
IsFreeSpan(d, s) ==
  /\ s.groups = {} /\ s.parent = None /\ s.family \in {"code", "formula"}
  /\ \E i, e \in 1..Len(d) : i <= e /\ s.members = i..e
  /\ \A k \in s.members : k \notin Keyed(d) /\ Family(d[k].type) = s.family

\* What has a family and no group is code or a formula.
LEMMA FreeTypes ==
  ASSUME NEW d, Orderly(d), NEW k \in 1..Len(d), k \notin Keyed(d), Family(d[k].type) # None
  PROVE  /\ \/ d[k].type = "CODE" /\ Family(d[k].type) = "code"
            \/ d[k].type = "FORMULA" /\ Family(d[k].type) = "formula"
         /\ ~IsContainer(d[k])
<1>1. d[k].type \in OrderlyTypes
  BY DEF Orderly, OrderlyElement
<1>2. d[k].type \notin TableTypes \cup {"LIST_ITEM"}
  BY OrderlyGroups
<1>3. d[k].type \in {"PARAGRAPH", "SEPARATOR", "HEADING", "CODE", "FORMULA", "FOOTNOTE", "UNKNOWN"}
  BY <1>1, <1>2 DEF OrderlyTypes
<1>4. Family("PARAGRAPH") = None /\ Family("SEPARATOR") = None /\ Family("HEADING") = None
      /\ Family("FOOTNOTE") = None /\ Family("UNKNOWN") = None /\ Family("CODE") = "code" /\ Family("FORMULA") = "formula"
  BY DEF Family, TableTypes, ListTypes
<1>5. d[k].type \in {"CODE", "FORMULA"}
  BY <1>3, <1>4, Zenon
<1>6. CASE d[k].type = "CODE"
  <2>1. Family(d[k].type) = "code"
    BY <1>4, <1>6
  <2>2. ~IsContainer(d[k])
    BY <1>6 DEF IsContainer
  <2> QED BY <1>6, <2>1, <2>2
<1>7. CASE d[k].type = "FORMULA"
  <2>1. Family(d[k].type) = "formula"
    BY <1>4, <1>7
  <2>2. ~IsContainer(d[k])
    BY <1>7 DEF IsContainer
  <2> QED BY <1>7, <2>1, <2>2
<1> QED BY <1>5, <1>6, <1>7

\* The spans that no group names are of code or formulas, and apart.
LEMMA HeuristicSpansAre ==
  ASSUME NEW d, Orderly(d), NEW bb
  PROVE  /\ \A s \in HeuristicSpans(d, bb) : IsFreeSpan(d, s)
         /\ Apart(HeuristicSpans(d, bb))
<1> DEFINE parts == UNION {SplitAtContainers(d, run) : run \in HeuristicRuns(d, bb)}
           AsSpan(m) == [family |-> Family(d[Min(m)].type), members |-> m, groups |-> {}, parent |-> None]
<1>0. Len(d) \in Nat /\ DOMAIN d = 1..Len(d)
  BY DEF Orderly
<1>1. HeuristicRuns(d, bb) = UNION {FamilyRuns(d, bb, family) : family \in Families}
  BY DEF HeuristicRuns, FamilyRuns, Families
<1>2. HeuristicSpans(d, bb) = {AsSpan(m) : m \in parts}
  BY DEF HeuristicSpans
<1>3. ASSUME NEW run \in HeuristicRuns(d, bb)
      PROVE  /\ SplitAtContainers(d, run) = {run} /\ Min(run) \in run
             /\ \E i, e \in 1..Len(d) : i <= e /\ run = i..e
             /\ \E family \in Families : run \in FamilyRuns(d, bb, family) /\ \A k \in run : k \notin Keyed(d) /\ Family(d[k].type) = family
  <2>1. PICK family \in Families : run \in FamilyRuns(d, bb, family)
    BY <1>1
  <2>2. PICK i \in 1..Len(d), e \in 1..Len(d) :
          i <= e /\ run = i..e /\ \A k \in run : k \notin Keyed(d) /\ Family(d[k].type) = family
    BY <1>0, <2>1, FamilyRunsAre
  <2>3. family # None
    BY NoneAssumption
  <2>4. \A k \in i..e : k \in 1..Len(d) /\ ~IsContainer(d[k])
    <3> SUFFICES ASSUME NEW k \in i..e PROVE k \in 1..Len(d) /\ ~IsContainer(d[k])
      OBVIOUS
    <3>1. k \in 1..Len(d)
      BY <1>0
    <3> QED BY <2>2, <2>3, <3>1, FreeTypes
  <2>5. SplitAtContainers(d, run) = {run}
    BY <2>2, <2>4, NotSplit
  <2>6. Min(run) = i /\ i \in run
    BY <2>2, IntervalEnds
  <2> QED BY <2>1, <2>2, <2>5, <2>6
<1>4. parts = HeuristicRuns(d, bb)
  BY <1>3
<1> HIDE DEF parts
<1>5. ASSUME NEW m \in parts
      PROVE  /\ AsSpan(m).members = m /\ IsFreeSpan(d, AsSpan(m))
             /\ \E family \in Families : family = AsSpan(m).family /\ m \in FamilyRuns(d, bb, family)
  <2>1. PICK family \in Families : m \in FamilyRuns(d, bb, family) /\ \A k \in m : k \notin Keyed(d) /\ Family(d[k].type) = family
    BY <1>3, <1>4
  <2>2. Min(m) \in m /\ m \subseteq 1..Len(d)
    BY <1>0, <1>3, <1>4
  <2>3. AsSpan(m).family = family
    BY <2>1, <2>2
  <2>4. family \in {"code", "formula"}
    <3>1. family # None
      BY NoneAssumption
    <3> QED BY <2>1, <2>2, <3>1, FreeTypes
  <2>5. IsFreeSpan(d, AsSpan(m))
    BY <1>3, <1>4, <2>1, <2>3, <2>4 DEF IsFreeSpan
  <2> QED BY <2>1, <2>3, <2>5
<1>6. ASSUME NEW m \in parts, NEW l \in parts, AsSpan(m) # AsSpan(l) PROVE m \cap l = {}
  <2> SUFFICES ASSUME NEW k \in m \cap l PROVE FALSE
    OBVIOUS
  <2>1. m # l
    BY <1>6
  <2>2. PICK f \in Families : f = AsSpan(m).family /\ m \in FamilyRuns(d, bb, f)
    BY <1>5
  <2>3. PICK g \in Families : g = AsSpan(l).family /\ l \in FamilyRuns(d, bb, g)
    BY <1>5
  <2>4. Family(d[k].type) = f /\ Family(d[k].type) = g
    <3>1. IsFreeSpan(d, AsSpan(m)) /\ IsFreeSpan(d, AsSpan(l)) /\ AsSpan(m).members = m /\ AsSpan(l).members = l
      BY <1>5
    <3> HIDE DEF AsSpan
    <3> QED BY <2>2, <2>3, <3>1 DEF IsFreeSpan
  <2>5. Disjoint(FamilyRuns(d, bb, f))
    BY <1>0, FamilyRunsAre
  <2> QED BY <2>1, <2>2, <2>3, <2>4, <2>5 DEF Disjoint
<1> HIDE DEF AsSpan
<1>7. Apart(HeuristicSpans(d, bb))
  BY <1>2, <1>5, <1>6 DEF Apart
<1> QED BY <1>2, <1>5, <1>7

\* The spans of a document lie apart.
LEMMA SpansAreApart ==
  ASSUME NEW d, Orderly(d), PlainlyRead(d), NEW bb
  PROVE  /\ Apart(Spans(d, bb))
         /\ \A s \in Spans(d, bb) : IsNativeSpan(d, s) \/ IsFreeSpan(d, s)
         /\ \A s, t \in Spans(d, bb) : s # t => s.groups \cap t.groups = {}
         /\ \A s \in Spans(d, bb) : \A k \in s.members : Family(d[k].type) # None
<1>1. \A s \in NativeSpans(d, bb) : IsNativeSpan(d, s)
  BY NativeSpansAre
<1>2. \A s, t \in NativeSpans(d, bb) : s # t => s.groups \cap t.groups = {}
  BY NativeSpansAre
<1>3. (\A s \in HeuristicSpans(d, bb) : IsFreeSpan(d, s)) /\ Apart(HeuristicSpans(d, bb))
  BY HeuristicSpansAre
<1>4. Spans(d, bb) = NativeSpans(d, bb) \cup HeuristicSpans(d, bb)
  BY DEF Spans
<1>5. \A s \in HeuristicSpans(d, bb) : s.groups = {} /\ \A k \in s.members : k \notin Keyed(d)
  BY <1>3 DEF IsFreeSpan
<1>6. \A s \in NativeSpans(d, bb) : \A k \in s.members : k \in Keyed(d) /\ d[k].group \in s.groups
  <2> SUFFICES ASSUME NEW s \in NativeSpans(d, bb), NEW k \in s.members PROVE k \in Keyed(d) /\ d[k].group \in s.groups
    OBVIOUS
  <2>1. k \in 1..Len(d) /\ d[k].group \in s.groups /\ s.groups \subseteq NativeGroups(d)
    BY <1>1 DEF IsNativeSpan
  <2>2. d[k].group # None
    BY <2>1 DEF NativeGroups, Keyed
  <2> QED BY <2>1, <2>2, OrderlyGroups
<1>7. Apart(Spans(d, bb))
  <2> SUFFICES ASSUME NEW s \in Spans(d, bb), NEW t \in Spans(d, bb), s # t, NEW k \in s.members \cap t.members PROVE FALSE
    BY DEF Apart
  <2>1. CASE s \in NativeSpans(d, bb) /\ t \in NativeSpans(d, bb)
    BY <1>2, <1>6, <2>1
  <2>2. CASE s \in HeuristicSpans(d, bb) /\ t \in HeuristicSpans(d, bb)
    BY <1>3, <2>2 DEF Apart
  <2> QED BY <1>4, <1>5, <1>6, <2>1, <2>2
<1>8. \A s \in Spans(d, bb) : \A k \in s.members : Family(d[k].type) # None
  <2> SUFFICES ASSUME NEW s \in Spans(d, bb), NEW k \in s.members PROVE Family(d[k].type) # None
    OBVIOUS
  <2>1. IsSpan(d, s)
    BY OrderlyIsGrouped, SpansCover
  <2> QED BY <2>1, NoneAssumption DEF IsSpan
<1>9. \A s, t \in Spans(d, bb) : s # t => s.groups \cap t.groups = {}
  BY <1>2, <1>4, <1>5
<1> QED BY <1>1, <1>3, <1>4, <1>7, <1>8, <1>9

\* A question and its answer.
LEMMA PairsAreText ==
  ASSUME NEW d, Orderly(d), PlainlyRead(d), NEW i \in 1..(Len(d) - 1), Boundaries(d)[i].guard = "QA_PAIR"
  PROVE  /\ "question" \in d[i].marks /\ "answer" \in d[i + 1].marks
         /\ d[i].type \in {"HEADING", "PARAGRAPH", "UNKNOWN"} /\ d[i + 1].type \in {"PARAGRAPH", "UNKNOWN"}
         /\ ~d[i].blank /\ ~d[i + 1].blank
         /\ ~Marginal(d[i + 1])
<1> DEFINE l == d[i]
           r == d[i + 1]
<1>0. Len(d) \in Nat /\ DOMAIN d = 1..Len(d) /\ i \in DOMAIN d /\ i + 1 \in DOMAIN d
  BY DEF Orderly
<1>1. l.type \in OrderlyTypes /\ r.type \in OrderlyTypes
  BY <1>0 DEF Orderly, OrderlyElement
<1>2. Guard(l, r) = "QA_PAIR"
  BY <1>0, BoundaryOf
<1> HIDE DEF l, r
<1>3. "question" \in Signals(l) /\ "answer" \in Signals(r)
  <2>1. l.type # "QUESTION"
    BY <1>1 DEF OrderlyTypes, TableTypes
  <2>2. "NATIVE_INTEGRITY_GROUP" # "QA_PAIR" /\ None # "QA_PAIR"
    BY GuardAssumption
  <2> QED BY <1>2, <2>1, <2>2 DEF Guard
<1>4. "question" # "numbering" /\ "question" # "speaker" /\ "answer" # "numbering" /\ "answer" # "speaker"
  OBVIOUS
<1>5. ~l.blank /\ ~r.blank /\ l.type \in LexicalTypes /\ r.type \in LexicalTypes /\ "question" \in l.marks /\ "answer" \in r.marks
  BY <1>3, <1>4 DEF Signals
<1>6. LexicalTypes \cap OrderlyTypes = {"HEADING", "PARAGRAPH", "UNKNOWN"}
  BY DEF LexicalTypes, HeadingTypes, OrderlyTypes, TableTypes
<1>7. r.type # "HEADING"
  BY <1>0, <1>5 DEF PlainlyRead, r
<1>8. ~Marginal(r)
  <2> DEFINE j == i + 1
  <2>1. j \in DOMAIN d /\ j > 1 /\ j - 1 = i
    BY <1>0
  <2> HIDE DEF j
  <2>2. Marginal(d[j]) => ~("question" \in d[j - 1].marks /\ "answer" \in d[j].marks)
    BY <2>1 DEF PlainlyRead
  <2> QED BY <1>5, <2>1, <2>2 DEF l, r, j
<1> QED BY <1>1, <1>5, <1>6, <1>7, <1>8 DEF l, r

\* Text belongs to no family.
LEMMA TextHasNoFamily ==
  /\ \A type \in FallbackTypes \cup {"HEADING", "PARAGRAPH", "UNKNOWN"} : Family(type) = None
<1> SUFFICES ASSUME NEW type \in FallbackTypes \cup {"HEADING", "PARAGRAPH", "UNKNOWN"} PROVE Family(type) = None
  OBVIOUS
<1>1. type \in {"PARAGRAPH", "SENTENCE", "LINE", "CAPTION", "FOOTNOTE", "HEADING", "UNKNOWN"}
  BY DEF FallbackTypes
<1> QED BY <1>1 DEF Family, TableTypes, ListTypes

\* No unit is cut by what must stay together.
LEMMA NoUnitIsCrossed ==
  ASSUME NEW d, Orderly(d), PlainlyRead(d)
  PROVE  CrossesNoUnit(Group(d, Boundaries(d)), Spans(d, Boundaries(d)))
<1> DEFINE bb == Boundaries(d)
<1> SUFFICES ASSUME NEW u \in Group(d, bb), NEW s \in Spans(d, bb), u.members \cap s.members # {}
             PROVE  u.members \subseteq s.members
  BY DEF CrossesNoUnit
<1>0. Len(d) \in Nat /\ DOMAIN d = 1..Len(d) /\ \A i \in 1..Len(d) : d[i].type \in OrderlyTypes
  BY DEF Orderly, OrderlyElement
<1>1. \A k \in s.members : Family(d[k].type) # None
  BY SpansAreApart
<1>2. IsGroupedUnit(d, bb, u)
  BY <1>0, GroupedUnits
<1>3. CASE \E i \in 1..(Len(d) - 1) : u.members = {i, i + 1} /\ bb[i].guard = "QA_PAIR"
  <2>1. PICK i \in 1..(Len(d) - 1) : u.members = {i, i + 1} /\ bb[i].guard = "QA_PAIR"
    BY <1>3
  <2>2. d[i].type \in {"HEADING", "PARAGRAPH", "UNKNOWN"} /\ d[i + 1].type \in {"PARAGRAPH", "UNKNOWN"}
    BY <2>1, PairsAreText
  <2>3. \A k \in u.members : Family(d[k].type) = None
    BY <2>1, <2>2, TextHasNoFamily
  <2> QED BY <1>1, <2>3
<1>4. CASE \A k \in u.members : d[k].type \in FallbackTypes
  <2>1. \A k \in u.members : Family(d[k].type) = None
    BY <1>4, TextHasNoFamily
  <2> QED BY <1>1, <2>1
<1>5. CASE \E i \in 1..Len(d) : u.members = {i}
  BY <1>5
<1> QED BY <1>2, <1>3, <1>4, <1>5 DEF IsGroupedUnit

UnitOfSpan(s) == [type |-> FamilyUnit(s.family), members |-> s.members, groups |-> s.groups, parent |-> s.parent]

\* The units of an orderly document as the hierarchy and the relations find them.
UnitsOf(d) == Consolidate(Group(d, Boundaries(d)), Spans(d, Boundaries(d)))

IsPairUnit(d, u) ==
  /\ u.type = "QA_PAIR" /\ u.groups = {} /\ u.parent = None
  /\ \E i \in 1..(Len(d) - 1) : u.members = {i, i + 1} /\ Boundaries(d)[i].guard = "QA_PAIR"

IsTextUnit(d, u) ==
  /\ Interaction(u) = None /\ u.groups = {} /\ u.parent = None
  /\ \/ \E i, e \in 1..Len(d) : i <= e /\ u.members = i..e /\ \A k \in u.members : d[k].type \in FallbackTypes
     \/ \E i \in 1..Len(d) : u.members = {i}

IsSpanUnit(d, u) == \E s \in Spans(d, Boundaries(d)) : u = UnitOfSpan(s)

\* A unit of an orderly document is a pair, a text or a span.
LEMMA UnitsOfAre ==
  ASSUME NEW d, Orderly(d), PlainlyRead(d)
  PROVE  \A u \in UnitsOf(d) : IsPairUnit(d, u) \/ IsTextUnit(d, u) \/ IsSpanUnit(d, u)
<1> DEFINE bb == Boundaries(d)
<1>0. Len(d) \in Nat /\ DOMAIN d = 1..Len(d) /\ \A i \in 1..Len(d) : d[i].type \in OrderlyTypes
  BY DEF Orderly, OrderlyElement
<1> SUFFICES ASSUME NEW u \in UnitsOf(d) PROVE IsPairUnit(d, u) \/ IsTextUnit(d, u) \/ IsSpanUnit(d, u)
  OBVIOUS
<1>1. CASE u \in Group(d, bb)
  <2>1. IsGroupedUnit(d, bb, u)
    BY <1>0, <1>1, GroupedUnits
  <2> QED BY <2>1 DEF IsGroupedUnit, IsPairUnit, IsTextUnit
<1>2. CASE u \notin Group(d, bb)
  BY <1>2 DEF UnitsOf, Consolidate, IsSpanUnit, UnitOfSpan
<1> QED BY <1>1, <1>2

\* The units of an orderly document have no element in common.
LEMMA UnitsOfAreApart ==
  ASSUME NEW d, Orderly(d), PlainlyRead(d)
  PROVE  Apart(UnitsOf(d))
<1> DEFINE bb == Boundaries(d)
           gs == Group(d, bb)
           spans == Spans(d, bb)
<1>0. Len(d) \in Nat /\ DOMAIN d = 1..Len(d) /\ \A i \in 1..Len(d) : d[i].type \in OrderlyTypes
  BY DEF Orderly, OrderlyElement
<1>1. Apart(gs)
  BY <1>0, GroupedUnits
<1>2. Apart(spans)
  BY SpansAreApart
<1> DEFINE kept == {u \in gs : \A s \in spans : u.members \cap s.members = {}}
           put == {UnitOfSpan(s) : s \in spans}
<1>3. UnitsOf(d) = kept \cup put
  BY DEF UnitsOf, Consolidate, UnitOfSpan
<1>4. \A s : UnitOfSpan(s).members = s.members
  BY DEF UnitOfSpan
<1> HIDE DEF gs, spans
<1>5. ASSUME NEW u \in put, NEW v \in put, u # v PROVE u.members \cap v.members = {}
  BY <1>2, <1>4, <1>5 DEF Apart
<1>6. ASSUME NEW u \in kept, NEW v \in put PROVE u.members \cap v.members = {}
  BY <1>4
<1>7. ASSUME NEW u \in kept, NEW v \in kept, u # v PROVE u.members \cap v.members = {}
  BY <1>1, <1>7 DEF Apart
<1> HIDE DEF kept, put
<1> QED BY <1>3, <1>5, <1>6, <1>7 DEF Apart

\* What a unit of a span is, by the kind of the span.
LEMMA SpanUnitsAre ==
  ASSUME NEW d, Orderly(d), PlainlyRead(d), NEW s \in Spans(d, Boundaries(d)), NEW u, u = UnitOfSpan(s)
  PROVE  /\ u.members = s.members /\ u.groups = s.groups /\ u.parent = s.parent
         /\ Interaction(u) = None /\ u.type # "QA_PAIR"
         /\ u.type = "LIST_GROUP" <=> s.family = "list"
         /\ \/ IsNativeSpan(d, s) /\ s.family = "table" /\ s.family # "list"
            \/ IsNativeSpan(d, s) /\ s.family = "list" /\ IsListSpan(d, s)
            \/ IsFreeSpan(d, s)
<1>1. IsNativeSpan(d, s) \/ IsFreeSpan(d, s)
  BY SpansAreApart
<1>2. s.family \in {"table", "list", "code", "formula"}
  BY <1>1 DEF IsNativeSpan, IsListSpan, IsFreeSpan
<1>3. u.members = s.members /\ u.groups = s.groups /\ u.parent = s.parent /\ u.type = FamilyUnit(s.family)
  BY DEF UnitOfSpan
<1>4. FamilyUnit("table") = "TABLE_BLOCK" /\ FamilyUnit("list") = "LIST_GROUP"
      /\ FamilyUnit("code") = "CODE_BLOCK" /\ FamilyUnit("formula") = "TEXT_BLOCK"
  BY DEF FamilyUnit
<1>5. u.type \in {"TABLE_BLOCK", "LIST_GROUP", "CODE_BLOCK", "TEXT_BLOCK"} /\ (u.type = "LIST_GROUP" <=> s.family = "list")
  BY <1>2, <1>3, <1>4
<1>6. Interaction(u) = None /\ u.type # "QA_PAIR"
  BY <1>5 DEF Interaction
<1>7. \/ IsNativeSpan(d, s) /\ s.family = "table" /\ s.family # "list"
      \/ IsNativeSpan(d, s) /\ s.family = "list" /\ IsListSpan(d, s)
      \/ IsFreeSpan(d, s)
  BY <1>1 DEF IsNativeSpan, IsListSpan
<1> QED BY <1>3, <1>5, <1>6, <1>7

\* They have elements of the document.
LEMMA UnitsOfWithin ==
  ASSUME NEW d, Orderly(d), PlainlyRead(d), NEW u \in UnitsOf(d)
  PROVE  /\ u.members # {} /\ u.members \in SUBSET (1..Len(d))
         /\ Min(u.members) \in u.members /\ Max(u.members) \in u.members
         /\ \A k \in u.members : Min(u.members) <= k /\ k <= Max(u.members)
<1>0. Len(d) \in Nat /\ DOMAIN d = 1..Len(d)
  BY DEF Orderly
<1>1. u.members # {} /\ u.members \subseteq 1..Len(d)
  <2>1. CASE IsPairUnit(d, u)
    BY <1>0, <2>1 DEF IsPairUnit
  <2>2. CASE IsTextUnit(d, u)
    <3>1. CASE \E i, e \in 1..Len(d) : i <= e /\ u.members = i..e
      <4>1. PICK i \in 1..Len(d), e \in 1..Len(d) : i <= e /\ u.members = i..e
        BY <3>1
      <4>2. i \in u.members /\ i..e \subseteq 1..Len(d)
        BY <1>0, <4>1
      <4> QED BY <4>1, <4>2
    <3>2. CASE \E i \in 1..Len(d) : u.members = {i}
      BY <3>2
    <3> QED BY <2>2, <3>1, <3>2 DEF IsTextUnit
  <2>3. CASE IsSpanUnit(d, u)
    <3>1. PICK s \in Spans(d, Boundaries(d)) : u = UnitOfSpan(s)
      BY <2>3 DEF IsSpanUnit
    <3>2. u.members = s.members /\ (IsNativeSpan(d, s) \/ IsFreeSpan(d, s))
      BY <3>1, SpansAreApart DEF UnitOfSpan
    <3>3. CASE IsNativeSpan(d, s)
      <4>1. PICK g \in s.groups : TRUE
        BY <3>3 DEF IsNativeSpan
      <4>2. g \in NativeGroups(d)
        BY <3>3, <4>1 DEF IsNativeSpan
      <4>3. GroupMembers(d, g) # {} /\ GroupMembers(d, g) = {i \in 1..Len(d) : d[i].group = g}
        BY <4>2, MembersOfGroup
      <4>4. s.members = {i \in 1..Len(d) : d[i].group \in s.groups}
        BY <3>3 DEF IsNativeSpan
      <4> QED BY <3>2, <4>1, <4>3, <4>4
    <3>4. CASE IsFreeSpan(d, s)
      <4>1. PICK i \in 1..Len(d), e \in 1..Len(d) : i <= e /\ s.members = i..e
        BY <3>4 DEF IsFreeSpan
      <4>2. i \in s.members /\ i..e \subseteq 1..Len(d)
        BY <1>0, <4>1
      <4> QED BY <3>2, <4>1, <4>2
    <3> QED BY <3>2, <3>3, <3>4
  <2> QED BY <2>1, <2>2, <2>3, UnitsOfAre
<1> DEFINE S == u.members
<1>2. S \in SUBSET (1..Len(d)) /\ S # {} /\ 1 \in Int /\ Len(d) \in Int
  BY <1>0, <1>1
<1> HIDE DEF S
<1>3. Max(S) \in S /\ Min(S) \in S /\ \A k \in S : Min(S) <= k /\ k <= Max(S)
  BY <1>2, ExtremeOfInterval
<1> QED BY <1>2, <1>3 DEF S

-----------------------------------------------------------------------------
(* The material of each element.                                           *)

\* The category of an element: its type says it, unless it stands in the margin.
LEMMA CategoriesAre ==
  ASSUME NEW e
  PROVE  /\ Marginal(e) => Category(e) = "BOILERPLATE"
         /\ ~Marginal(e) => Category(e) = TypeCategory(e.type)
         /\ e.type \in FallbackTypes \cup {"HEADING"} => TypeCategory(e.type) = "NARRATIVE"
         /\ e.type \in TableTypes => TypeCategory(e.type) = "TABLE"
         /\ e.type = "LIST_ITEM" => TypeCategory(e.type) = "LIST"
         /\ e.type \in {"CODE", "FORMULA", "SEPARATOR", "UNKNOWN"} => TypeCategory(e.type) = e.type
<1>1. Marginal(e) => Category(e) = "BOILERPLATE"
  BY DEF Marginal, Category
<1>2. ~Marginal(e) => Category(e) = TypeCategory(e.type)
  BY DEF Marginal, Category
<1>3. e.type \in FallbackTypes \cup {"HEADING"} => TypeCategory(e.type) = "NARRATIVE"
  BY DEF FallbackTypes, TypeCategory, HeadingTypes, ListTypes, TableTypes
<1>4. e.type \in TableTypes => TypeCategory(e.type) = "TABLE"
  BY DEF TypeCategory, HeadingTypes, ListTypes, TableTypes
<1>5. e.type = "LIST_ITEM" => TypeCategory(e.type) = "LIST"
  BY DEF TypeCategory, HeadingTypes, ListTypes, TableTypes
<1>6. e.type \in {"CODE", "FORMULA", "SEPARATOR", "UNKNOWN"} => TypeCategory(e.type) = e.type
  BY DEF TypeCategory, HeadingTypes, ListTypes, TableTypes
<1> QED BY <1>1, <1>2, <1>3, <1>4, <1>5, <1>6

IsInPair(d, i) == \E u \in UnitsOf(d) : u.type = "QA_PAIR" /\ i \in u.members

\* Pairs, and no other units, are questions with their answers.
LEMMA PairUnitsAre ==
  ASSUME NEW d, Orderly(d), PlainlyRead(d), NEW u \in UnitsOf(d)
  PROVE  /\ u.type = "QA_PAIR" <=> IsPairUnit(d, u)
         /\ Interaction(u) = IF u.type = "QA_PAIR" THEN "QA" ELSE None
<1>1. u.type = "QA_PAIR" => Interaction(u) = "QA"
  BY DEF Interaction
<1>2. None # "QA"
  BY RegionAssumption DEF Interactions
<1>3. CASE IsPairUnit(d, u)
  BY <1>1, <1>3 DEF IsPairUnit
<1>4. CASE IsTextUnit(d, u)
  BY <1>1, <1>2, <1>4 DEF IsTextUnit, IsPairUnit
<1>5. CASE IsSpanUnit(d, u)
  <2>1. PICK s \in Spans(d, Boundaries(d)) : u = UnitOfSpan(s)
    BY <1>5 DEF IsSpanUnit
  <2>2. Interaction(u) = None /\ u.type # "QA_PAIR"
    BY <2>1, SpanUnitsAre
  <2> QED BY <2>2 DEF IsPairUnit
<1> QED BY <1>3, <1>4, <1>5, UnitsOfAre

\* The members of a pair are text that is read.
LEMMA PairsAreRead ==
  ASSUME NEW d, Orderly(d), PlainlyRead(d), NEW u \in UnitsOf(d), u.type = "QA_PAIR"
  PROVE  /\ \E i \in 1..(Len(d) - 1) : u.members = {i, i + 1}
         /\ \A k \in u.members : /\ k \in 1..Len(d) /\ ~d[k].blank /\ ~Marginal(d[k])
                                 /\ d[k].type \in {"HEADING", "PARAGRAPH", "UNKNOWN"}
                                 /\ Category(d[k]) \in Blendable
<1>0. Len(d) \in Nat /\ DOMAIN d = 1..Len(d)
  BY DEF Orderly
<1>1. PICK i \in 1..(Len(d) - 1) : u.members = {i, i + 1} /\ Boundaries(d)[i].guard = "QA_PAIR"
  BY PairUnitsAre DEF IsPairUnit
<1>2. i \in 1..Len(d) /\ i + 1 \in 1..Len(d)
  BY <1>0
<1>3. /\ d[i].type \in {"HEADING", "PARAGRAPH", "UNKNOWN"} /\ d[i + 1].type \in {"PARAGRAPH", "UNKNOWN"}
      /\ ~d[i].blank /\ ~d[i + 1].blank /\ ~Marginal(d[i + 1])
  BY <1>1, PairsAreText
<1>4. ~Marginal(d[i])
  <2>1. \A k \in (i + 1)..(i + 1) : d[k].type # "SEPARATOR"
    BY <1>3
  <2>2. \A k \in i..(i + 1) : Marginal(d[k]) = Marginal(d[i])
    BY <1>2, <2>1, MarginsAreApart
  <2> QED BY <1>2, <1>3, <2>2
<1>5. \A e : ~Marginal(e) /\ e.type \in {"HEADING", "PARAGRAPH", "UNKNOWN"} => Category(e) \in Blendable
  <2> SUFFICES ASSUME NEW e, ~Marginal(e), e.type \in {"HEADING", "PARAGRAPH", "UNKNOWN"} PROVE Category(e) \in Blendable
    OBVIOUS
  <2>1. e.type \in {"HEADING", "PARAGRAPH"} => e.type \in FallbackTypes \cup {"HEADING"}
    BY DEF FallbackTypes
  <2>2. Category(e) \in {"NARRATIVE", "UNKNOWN"}
    BY <2>1, CategoriesAre
  <2> QED BY <2>2 DEF Blendable
<1> QED BY <1>1, <1>2, <1>3, <1>4, <1>5

\* The members of pairs are refined to QA, and nothing else is refined.
LEMMA RefinedIs ==
  ASSUME NEW d, Orderly(d), PlainlyRead(d), NEW i \in 1..Len(d)
  PROVE  Refined(d, UnitsOf(d))[i] = IF IsInPair(d, i) THEN "QA" ELSE Category(d[i])
<1> DEFINE owners == {u \in OwnerOf(UnitsOf(d), i) : Interaction(u) # None}
<1>1. None # "QA"
  BY RegionAssumption DEF Interactions
<1>2. \A u \in UnitsOf(d) : Interaction(u) = IF u.type = "QA_PAIR" THEN "QA" ELSE None
  BY PairUnitsAre
<1>3. owners = {u \in UnitsOf(d) : u.type = "QA_PAIR" /\ i \in u.members}
  BY <1>1, <1>2 DEF OwnerOf
<1>4. DOMAIN d = 1..Len(d)
  BY DEF Orderly
<1>5. Refined(d, UnitsOf(d))[i] = IF owners = {} THEN Category(d[i]) ELSE Interaction(CHOOSE u \in owners : TRUE)
  BY <1>4 DEF Refined
<1>6. IsInPair(d, i) <=> owners # {}
  BY <1>3 DEF IsInPair
<1>7. owners # {} => Interaction(CHOOSE u \in owners : TRUE) = "QA"
  <2> SUFFICES ASSUME owners # {} PROVE Interaction(CHOOSE u \in owners : TRUE) = "QA"
    OBVIOUS
  <2>1. (CHOOSE u \in owners : TRUE) \in owners
    OBVIOUS
  <2> QED BY <1>2, <1>3, <2>1
<1> HIDE DEF owners
<1> QED BY <1>5, <1>6, <1>7

\* A list that goes on over something is made of more than one.
LEMMA MergedListsAre ==
  ASSUME NEW d, Orderly(d), PlainlyRead(d), NEW u \in UnitsOf(d)
  PROVE  /\ u.type = "LIST_GROUP" /\ Cardinality(u.groups) > 1 =>
              \E s \in Spans(d, Boundaries(d)) : u = UnitOfSpan(s) /\ IsListSpan(d, s)
         /\ \A s \in Spans(d, Boundaries(d)) :
              /\ u = UnitOfSpan(s) /\ IsNativeSpan(d, s) /\ IsListSpan(d, s) /\ s.family = "list"
              /\ \E i \in Min(u.members)..Max(u.members) : i \notin u.members
              => u.type = "LIST_GROUP" /\ Cardinality(u.groups) > 1
<1>0. Len(d) \in Nat /\ DOMAIN d = 1..Len(d)
  BY DEF Orderly
<1>1. Cardinality({}) = 0 /\ \A g : Cardinality({g}) = 1
  BY FS_EmptySet, FS_Singleton
<1>2. ASSUME u.type = "LIST_GROUP", Cardinality(u.groups) > 1
      PROVE  \E s \in Spans(d, Boundaries(d)) : u = UnitOfSpan(s) /\ IsListSpan(d, s)
  <2>1. u.groups # {}
    BY <1>1, <1>2
  <2>2. IsSpanUnit(d, u)
    BY <2>1, UnitsOfAre DEF IsPairUnit, IsTextUnit
  <2>3. PICK s \in Spans(d, Boundaries(d)) : u = UnitOfSpan(s)
    BY <2>2 DEF IsSpanUnit
  <2>4. s.family = "list" /\ u.groups = s.groups
    BY <1>2, <2>3, SpanUnitsAre
  <2>5. IsListSpan(d, s)
    BY <2>1, <2>3, <2>4, SpanUnitsAre DEF IsFreeSpan
  <2> QED BY <2>3, <2>5
<1>3. ASSUME NEW s \in Spans(d, Boundaries(d)), u = UnitOfSpan(s), IsNativeSpan(d, s), IsListSpan(d, s), s.family = "list",
             NEW i \in Min(u.members)..Max(u.members), i \notin u.members
      PROVE  u.type = "LIST_GROUP" /\ Cardinality(u.groups) > 1
  <2>1. u.type = "LIST_GROUP" /\ u.members = s.members /\ u.groups = s.groups
    BY <1>3, SpanUnitsAre
  <2>2. Min(u.members) \in u.members /\ Max(u.members) \in u.members /\ u.members \in SUBSET (1..Len(d))
    BY UnitsOfWithin
  <2> DEFINE g == d[Min(u.members)].group
             h == d[Max(u.members)].group
  <2>3. g \in u.groups /\ h \in u.groups
    BY <1>3, <2>1, <2>2 DEF IsNativeSpan
  <2>4. g # h
    <3> SUFFICES ASSUME g = h PROVE FALSE
      OBVIOUS
    <3>1. d[Min(u.members)].type = "LIST_ITEM" /\ Min(u.members) \in DOMAIN d /\ Max(u.members) \in DOMAIN d
      BY <1>0, <1>3, <2>1, <2>2 DEF IsListSpan
    <3>2. d[i].group = g
      BY <3>1 DEF Orderly
    <3>3. i \in 1..Len(d)
      BY <1>0, <2>2
    <3> QED BY <1>3, <2>1, <2>3, <3>2, <3>3 DEF IsNativeSpan
  <2>5. IsFiniteSet(u.groups)
    <3>1. IsFiniteSet(NativeGroups(d))
      BY <1>0, GroupsAreFinite
    <3>2. u.groups \subseteq NativeGroups(d)
      BY <1>3, <2>1 DEF IsNativeSpan
    <3> QED BY <3>1, <3>2, FS_Subset
  <2>6. Cardinality(u.groups) \in Nat /\ Cardinality(u.groups) # 0 /\ Cardinality(u.groups) # 1
    <3>1. Cardinality(u.groups) \in Nat
      BY <2>5, FS_CardinalityType
    <3>2. Cardinality(u.groups) # 0
      BY <2>3, <2>5, FS_EmptySet
    <3>3. Cardinality(u.groups) # 1
      <4> SUFFICES ASSUME Cardinality(u.groups) = 1 PROVE FALSE
        OBVIOUS
      <4>1. PICK x : u.groups = {x}
        BY <2>5, FS_Singleton
      <4> QED BY <2>3, <2>4, <4>1
    <3> QED BY <3>1, <3>2, <3>3
  <2> QED BY <2>1, <2>6
<1> QED BY <1>2, <1>3

\* What bridges a list is an empty paragraph of the body inside of it.
LEMMA BridgesAre ==
  ASSUME NEW d, Orderly(d), PlainlyRead(d), NEW i \in ListBridges(d, UnitsOf(d))
  PROVE  /\ i \in 1..Len(d) /\ d[i].type = "PARAGRAPH" /\ d[i].blank /\ ~Marginal(d[i]) /\ ~IsInPair(d, i)
         /\ \E s \in Spans(d, Boundaries(d)) : UnitOfSpan(s) \in UnitsOf(d) /\ IsListSpan(d, s) /\ i \in Min(s.members)..Max(s.members) \ s.members
<1>0. Len(d) \in Nat /\ DOMAIN d = 1..Len(d)
  BY DEF Orderly
<1>1. i \in 1..Len(d) /\ d[i].type = "PARAGRAPH" /\ d[i].blank
  BY <1>0 DEF ListBridges, IsBlankParagraph
<1>2. PICK u \in UnitsOf(d) : u.type = "LIST_GROUP" /\ Cardinality(u.groups) > 1 /\ i \in Min(u.members)..Max(u.members) \ u.members
  BY DEF ListBridges
<1>3. PICK s \in Spans(d, Boundaries(d)) : u = UnitOfSpan(s) /\ IsListSpan(d, s)
  BY <1>2, MergedListsAre
<1>4. u.members = s.members
  BY <1>3 DEF UnitOfSpan
<1>5. PICK a \in s.members, e \in s.members :
        /\ s.members \subseteq a..e
        /\ \A k \in a..e : \/ k \in s.members \/ d[k].type = "SEPARATOR"
                           \/ IsBlankParagraph(d[k]) /\ ~Marginal(d[k]) /\ ~Marginal(d[a])
  BY <1>3 DEF IsListSpan
<1>6. a \in Int /\ e \in Int
  BY <1>0, <1>3, <1>5 DEF IsListSpan
<1>7. Min(s.members) = a /\ Max(s.members) = e
  BY <1>5, <1>6, HullEnds
<1>8. ~Marginal(d[i])
  BY <1>1, <1>2, <1>4, <1>5, <1>7
<1>9. ~IsInPair(d, i)
  <2> SUFFICES ASSUME NEW v \in UnitsOf(d), v.type = "QA_PAIR", i \in v.members PROVE FALSE
    BY DEF IsInPair
  <2>1. ~d[i].blank
    BY PairsAreRead
  <2> QED BY <1>1, <2>1
<1> QED BY <1>1, <1>2, <1>3, <1>4, <1>8, <1>9

RoutingOf(d) == Routing(d, UnitsOf(d))

\* What each element is routed as.
LEMMA RoutingIs ==
  ASSUME NEW d, Orderly(d), PlainlyRead(d)
  PROVE  /\ DOMAIN RoutingOf(d) = 1..Len(d) /\ Len(d) \in Nat /\ Len(RoutingOf(d)) = Len(d)
         /\ \A i \in 1..Len(d) :
              RoutingOf(d)[i] = IF i \in ListBridges(d, UnitsOf(d)) THEN "LIST"
                                ELSE IF IsInPair(d, i) THEN "QA" ELSE Category(d[i])
<1>1. Len(d) \in Nat /\ DOMAIN d = 1..Len(d)
  BY DEF Orderly
<1>2. RoutingOf(d) = [i \in 1..Len(d) |-> IF i \in ListBridges(d, UnitsOf(d)) THEN "LIST" ELSE Refined(d, UnitsOf(d))[i]]
  BY <1>1 DEF RoutingOf, Routing
<1>3. Len(RoutingOf(d)) = Len(d)
  BY <1>1, <1>2
<1>4. \A i \in 1..Len(d) : Refined(d, UnitsOf(d))[i] = IF IsInPair(d, i) THEN "QA" ELSE Category(d[i])
  BY RefinedIs
<1> QED BY <1>1, <1>2, <1>3, <1>4

\* Only text is overruled.
LEMMA RoutableIs ==
  ASSUME NEW d, Orderly(d), PlainlyRead(d)
  PROVE  Routable(d, UnitsOf(d))
<1>0. Len(d) \in Nat /\ DOMAIN d = 1..Len(d)
  BY DEF Orderly
<1>1. ASSUME NEW i \in DOMAIN d, Refined(d, UnitsOf(d))[i] # Category(d[i]) PROVE Category(d[i]) \in Blendable
  <2>1. IsInPair(d, i)
    BY <1>0, <1>1, RefinedIs
  <2>2. PICK u \in UnitsOf(d) : u.type = "QA_PAIR" /\ i \in u.members
    BY <2>1 DEF IsInPair
  <2> QED BY <2>2, PairsAreRead
<1>2. ASSUME NEW i \in ListBridges(d, UnitsOf(d)) PROVE Refined(d, UnitsOf(d))[i] \in Blendable
  <2>1. i \in 1..Len(d) /\ d[i].type = "PARAGRAPH" /\ ~Marginal(d[i]) /\ ~IsInPair(d, i)
    BY BridgesAre
  <2>2. Refined(d, UnitsOf(d))[i] = Category(d[i])
    BY <2>1, RefinedIs
  <2>3. d[i].type \in FallbackTypes
    BY <2>1 DEF FallbackTypes
  <2>4. Category(d[i]) = "NARRATIVE"
    BY <2>1, <2>3, CategoriesAre
  <2> QED BY <2>2, <2>4 DEF Blendable
<1> QED BY <1>1, <1>2 DEF Routable

\* An element is in one unit only: those of a text, a table, a list, code or a
\* formula are in no pair.
LEMMA OutOfPairs ==
  ASSUME NEW d, Orderly(d), PlainlyRead(d), NEW i,
         \/ \E u \in UnitsOf(d) : i \in u.members /\ u.type # "QA_PAIR"
         \/ i \in 1..Len(d) /\ (d[i].type \notin {"HEADING", "PARAGRAPH", "UNKNOWN"} \/ d[i].blank)
  PROVE  ~IsInPair(d, i)
<1> SUFFICES ASSUME NEW v \in UnitsOf(d), v.type = "QA_PAIR", i \in v.members PROVE FALSE
  BY DEF IsInPair
<1>1. CASE \E u \in UnitsOf(d) : i \in u.members /\ u.type # "QA_PAIR"
  BY <1>1, UnitsOfAreApart DEF Apart
<1>2. CASE d[i].type \notin {"HEADING", "PARAGRAPH", "UNKNOWN"} \/ d[i].blank
  BY <1>2, PairsAreRead
<1> QED BY <1>1, <1>2

\* All of a text is in the margin or none of it, and of one category.
LEMMA TextIsOfOne ==
  ASSUME NEW d, Orderly(d), PlainlyRead(d), NEW u \in UnitsOf(d), u.type # "QA_PAIR",
         NEW i \in 1..Len(d), NEW e \in 1..Len(d), i <= e, u.members = i..e, \A k \in u.members : d[k].type \in FallbackTypes
  PROVE  /\ \A k \in i..e : Marginal(d[k]) = Marginal(d[i])
         /\ \A k \in i..e : RoutingOf(d)[k] = RoutingOf(d)[i]
<1> DEFINE bridges == ListBridges(d, UnitsOf(d))
<1>0. Len(d) \in Nat /\ DOMAIN d = 1..Len(d) /\ i..e \subseteq 1..Len(d) /\ i \in i..e
  BY DEF Orderly
<1>1. \A k \in i..e : ~IsInPair(d, k)
  BY OutOfPairs
<1>2. \A k \in i..e : d[k].type # "SEPARATOR" /\ d[k].type # "LIST_ITEM"
  BY DEF FallbackTypes
<1>3. \A k \in i..e : Marginal(d[k]) = Marginal(d[i])
  BY <1>0, <1>2, MarginsAreApart
<1>4. ASSUME NEW j \in i..e, j \in bridges PROVE \A k \in i..e : k \in bridges
  <2>1. PICK s \in Spans(d, Boundaries(d)) : UnitOfSpan(s) \in UnitsOf(d) /\ IsListSpan(d, s) /\ j \in Min(s.members)..Max(s.members) \ s.members
    BY <1>4, BridgesAre
  <2>2. PICK v \in UnitsOf(d) : v.type = "LIST_GROUP" /\ Cardinality(v.groups) > 1 /\ j \in Min(v.members)..Max(v.members) \ v.members
    BY <1>4 DEF ListBridges
  <2>3. PICK t \in Spans(d, Boundaries(d)) : v = UnitOfSpan(t) /\ IsListSpan(d, t)
    BY <2>2, MergedListsAre
  <2>4. v.members = t.members
    BY <2>3 DEF UnitOfSpan
  <2>5. PICK a \in t.members, c \in t.members :
          /\ t.members \subseteq a..c
          /\ \A k \in a..c : \/ k \in t.members \/ d[k].type = "SEPARATOR"
                             \/ IsBlankParagraph(d[k]) /\ ~Marginal(d[k]) /\ ~Marginal(d[a])
    BY <2>3 DEF IsListSpan
  <2>6. \A k \in t.members : k \in 1..Len(d) /\ d[k].type = "LIST_ITEM"
    BY <2>3 DEF IsListSpan
  <2>7. Min(t.members) = a /\ Max(t.members) = c /\ a \in Int /\ c \in Int
    BY <1>0, <2>5, <2>6, HullEnds
  <2>8. a \notin i..e /\ c \notin i..e
    BY <1>2, <2>5, <2>6
  <2>9. a < i /\ e < c
    BY <1>0, <2>2, <2>4, <2>7, <2>8
  <2> SUFFICES ASSUME NEW k \in i..e PROVE k \in bridges
    OBVIOUS
  <2>10. k \in a..c /\ k \notin t.members
    BY <1>0, <1>2, <2>6, <2>7, <2>9
  <2>11. IsBlankParagraph(d[k])
    BY <1>2, <2>5, <2>10
  <2>12. k \in DOMAIN d /\ k \in Min(v.members)..Max(v.members) \ v.members
    BY <1>0, <2>4, <2>7, <2>10
  <2> QED BY <2>2, <2>11, <2>12 DEF ListBridges
<1>5. \A k \in i..e : Category(d[k]) = Category(d[i])
  <2>1. \A k \in i..e : TypeCategory(d[k].type) = "NARRATIVE"
    BY CategoriesAre
  <2>2. \A k \in i..e : Category(d[k]) = IF Marginal(d[k]) THEN "BOILERPLATE" ELSE "NARRATIVE"
    BY <2>1, CategoriesAre
  <2> QED BY <1>0, <1>3, <2>2
<1>6. \A k \in i..e : RoutingOf(d)[k] = IF k \in bridges THEN "LIST" ELSE Category(d[k])
  BY <1>0, <1>1, RoutingIs
<1> HIDE DEF bridges
<1>7. \A k \in i..e : RoutingOf(d)[k] = RoutingOf(d)[i]
  BY <1>0, <1>4, <1>5, <1>6
<1> QED BY <1>3, <1>7

\* The same of what is of one family.
LEMMA FamilyIsOfOne ==
  ASSUME NEW d, Orderly(d), PlainlyRead(d), NEW i \in 1..Len(d), NEW e \in 1..Len(d), i <= e, NEW types,
         types \in {TableTypes, {"CODE"}, {"FORMULA"}}, \A k \in i..e : d[k].type \in types
  PROVE  /\ \A k \in i..e : Marginal(d[k]) = Marginal(d[i])
         /\ \A k \in i..e : RoutingOf(d)[k] = RoutingOf(d)[i]
<1>0. Len(d) \in Nat /\ DOMAIN d = 1..Len(d) /\ i..e \subseteq 1..Len(d) /\ i \in i..e
  BY DEF Orderly
<1>1. types \cap {"SEPARATOR", "HEADING", "PARAGRAPH", "UNKNOWN"} = {}
  BY DEF TableTypes
<1>2. \A k \in i..e : Marginal(d[k]) = Marginal(d[i])
  BY <1>0, <1>1, MarginsAreApart
<1>3. \A k \in i..e : ~IsInPair(d, k)
  BY <1>0, <1>1, OutOfPairs
<1>4. \A k \in i..e : k \notin ListBridges(d, UnitsOf(d))
  BY <1>1, BridgesAre
<1>5. \E c : \A k \in i..e : TypeCategory(d[k].type) = c
  <2>1. CASE types = TableTypes
    BY <2>1, CategoriesAre
  <2>2. CASE types # TableTypes
    <3>1. PICK c \in {"CODE", "FORMULA"} : types = {c}
      BY <2>2
    <3>2. \A k \in i..e : d[k].type = c
      BY <3>1
    <3>3. \A k \in i..e : TypeCategory(d[k].type) = c
      BY <3>2, CategoriesAre
    <3> QED BY <3>3
  <2> QED BY <2>1, <2>2
<1>6. PICK c : \A k \in i..e : TypeCategory(d[k].type) = c
  BY <1>5
<1>7. \A k \in i..e : Category(d[k]) = IF Marginal(d[k]) THEN "BOILERPLATE" ELSE c
  BY <1>6, CategoriesAre
<1>8. \A k \in i..e : RoutingOf(d)[k] = Category(d[k])
  BY <1>0, <1>3, <1>4, RoutingIs
<1>9. \A k \in i..e : RoutingOf(d)[k] = RoutingOf(d)[i]
  BY <1>0, <1>2, <1>7, <1>8
<1> QED BY <1>2, <1>9

\* From the first to the last of some elements there is one material only.
IsOfOne(routing, S) == \A j \in Min(S)..Max(S) : routing[j] \in Attached \cup {routing[Min(S)]}

\* All are in the margin or none is.
IsOnOneSide(d, S) == \A i, k \in S : Marginal(d[i]) = Marginal(d[k])

\* What an interval of one category is.
LEMMA IntervalOfOne ==
  ASSUME NEW d, NEW S, NEW i \in Int, NEW e \in Int, i <= e, S = i..e,
         \A k \in i..e : Marginal(d[k]) = Marginal(d[i]), \A k \in i..e : RoutingOf(d)[k] = RoutingOf(d)[i]
  PROVE  IsOnOneSide(d, S) /\ IsOfOne(RoutingOf(d), S)
<1>1. Min(S) = i /\ Max(S) = e
  BY IntervalEnds
<1>2. IsOfOne(RoutingOf(d), S)
  BY <1>1 DEF IsOfOne
<1>3. IsOnOneSide(d, S)
  BY DEF IsOnOneSide
<1> QED BY <1>2, <1>3

\* A list stands in the body or in the margin, and is of one material.
LEMMA ListIsOfOne ==
  ASSUME NEW d, Orderly(d), PlainlyRead(d), NEW s \in Spans(d, Boundaries(d)), UnitOfSpan(s) \in UnitsOf(d),
         IsNativeSpan(d, s), IsListSpan(d, s), s.family = "list"
  PROVE  IsOnOneSide(d, s.members) /\ IsOfOne(RoutingOf(d), s.members)
<1> DEFINE u == UnitOfSpan(s)
           bridges == ListBridges(d, UnitsOf(d))
<1>0. Len(d) \in Nat /\ DOMAIN d = 1..Len(d)
  BY DEF Orderly
<1>1. IsOnOneSide(d, s.members)
  BY DEF IsOnOneSide, IsListSpan
<1>2. PICK a \in s.members, e \in s.members :
        /\ s.members \subseteq a..e
        /\ \A k \in a..e : \/ k \in s.members \/ d[k].type = "SEPARATOR"
                           \/ IsBlankParagraph(d[k]) /\ ~Marginal(d[k]) /\ ~Marginal(d[a])
  BY DEF IsListSpan
<1>3. \A k \in s.members : k \in 1..Len(d) /\ d[k].type = "LIST_ITEM"
  BY DEF IsListSpan
<1>4. Min(s.members) = a /\ Max(s.members) = e /\ a \in 1..Len(d) /\ e \in 1..Len(d)
  BY <1>0, <1>2, <1>3, HullEnds
<1>5. u.members = s.members
  BY DEF UnitOfSpan
<1>6. \A k \in a..e : k \notin s.members => u.type = "LIST_GROUP" /\ Cardinality(u.groups) > 1
  <2>1. u \in UnitsOf(d)
    OBVIOUS
  <2>2. /\ u = UnitOfSpan(s) /\ IsNativeSpan(d, s) /\ IsListSpan(d, s) /\ s.family = "list"
        /\ \E k \in Min(u.members)..Max(u.members) : k \notin u.members
        => u.type = "LIST_GROUP" /\ Cardinality(u.groups) > 1
    BY <2>1, MergedListsAre
  <2> QED BY <1>4, <1>5, <2>2
<1>7. \A k \in a..e : k \in 1..Len(d)
  BY <1>0, <1>4
<1>8. ASSUME NEW k \in a..e, k \in s.members PROVE RoutingOf(d)[k] = IF Marginal(d[a]) THEN "BOILERPLATE" ELSE "LIST"
  <2>1. d[k].type = "LIST_ITEM" /\ k \in 1..Len(d)
    BY <1>3, <1>8
  <2>2. k \notin bridges /\ ~IsInPair(d, k)
    <3>1. k \notin bridges
      BY <2>1, BridgesAre
    <3>2. ~IsInPair(d, k)
      BY <2>1, OutOfPairs
    <3> QED BY <3>1, <3>2
  <2>3. Marginal(d[k]) = Marginal(d[a])
    BY <1>1, <1>2, <1>8 DEF IsOnOneSide
  <2> HIDE DEF bridges
  <2>4. RoutingOf(d)[k] = Category(d[k])
    BY <2>1, <2>2, RoutingIs DEF bridges
  <2> QED BY <2>1, <2>3, <2>4, CategoriesAre
<1>9. ASSUME NEW k \in a..e, k \notin s.members, d[k].type = "SEPARATOR" PROVE RoutingOf(d)[k] \in Attached
  <2>1. k \notin bridges
    BY <1>9, BridgesAre
  <2>2. ~IsInPair(d, k)
    BY <1>7, <1>9, OutOfPairs
  <2>3. RoutingOf(d)[k] = Category(d[k])
    BY <1>7, <2>1, <2>2, RoutingIs
  <2>4. Category(d[k]) \in {"BOILERPLATE", "SEPARATOR"}
    BY <1>9, CategoriesAre
  <2> QED BY <2>3, <2>4 DEF Attached
<1>10. ASSUME NEW k \in a..e, k \notin s.members, d[k].type # "SEPARATOR" PROVE RoutingOf(d)[k] = "LIST" /\ ~Marginal(d[a])
  <2>1. IsBlankParagraph(d[k]) /\ ~Marginal(d[a])
    BY <1>2, <1>10
  <2>2. k \in DOMAIN d /\ k \in Min(u.members)..Max(u.members) \ u.members
    BY <1>0, <1>4, <1>5, <1>7, <1>10
  <2>3. k \in bridges
    BY <1>6, <1>10, <2>1, <2>2 DEF ListBridges
  <2> QED BY <1>7, <2>1, <2>3, RoutingIs
<1>11. RoutingOf(d)[a] = IF Marginal(d[a]) THEN "BOILERPLATE" ELSE "LIST"
  BY <1>0, <1>2, <1>4, <1>8
<1>12. "BOILERPLATE" \in Attached
  BY DEF Attached
<1>13. \A k \in a..e : RoutingOf(d)[k] \in Attached \cup {RoutingOf(d)[a]}
  BY <1>8, <1>9, <1>10, <1>11, <1>12
<1>14. IsOfOne(RoutingOf(d), s.members)
  BY <1>4, <1>13 DEF IsOfOne
<1> QED BY <1>1, <1>14

\* A unit is in the margin or not, and of one material.
LEMMA UnitsAreOfOne ==
  ASSUME NEW d, Orderly(d), PlainlyRead(d), NEW u \in UnitsOf(d)
  PROVE  IsOnOneSide(d, u.members) /\ IsOfOne(RoutingOf(d), u.members)
<1>0. Len(d) \in Nat /\ DOMAIN d = 1..Len(d)
  BY DEF Orderly
<1>1. CASE u.type = "QA_PAIR"
  <2>1. PICK i \in 1..(Len(d) - 1) : u.members = {i, i + 1}
    BY <1>1, PairsAreRead
  <2>2. \A k \in u.members : k \in 1..Len(d) /\ ~d[k].blank /\ ~Marginal(d[k])
    BY <1>1, PairsAreRead
  <2>3. i \in Int /\ i + 1 \in Int /\ i <= i + 1 /\ u.members = i..(i + 1) /\ i \in 1..Len(d)
    BY <1>0, <2>1
  <2>4. \A k \in u.members : k \notin ListBridges(d, UnitsOf(d)) /\ IsInPair(d, k)
    <3>1. \A k \in u.members : k \notin ListBridges(d, UnitsOf(d))
      BY <2>2, BridgesAre
    <3> QED BY <1>1, <3>1 DEF IsInPair
  <2>5. \A k \in u.members : RoutingOf(d)[k] = "QA"
    BY <2>2, <2>4, RoutingIs
  <2> DEFINE e == i + 1
  <2>6. \A k \in i..e : Marginal(d[k]) = Marginal(d[i])
    <3>1. \A k \in i..e : Marginal(d[k]) = FALSE
      <4>1. \A k : Marginal(d[k]) \in BOOLEAN
        BY DEF Marginal
      <4> QED BY <2>2, <2>3, <4>1
    <3>2. i \in i..e
      BY <2>3
    <3> QED BY <3>1, <3>2
  <2>7. \A k \in i..e : RoutingOf(d)[k] = RoutingOf(d)[i]
    BY <2>1, <2>3, <2>5
  <2>8. i \in Int /\ e \in Int /\ i <= e /\ u.members = i..e
    BY <2>3
  <2> HIDE DEF e
  <2> QED BY <2>6, <2>7, <2>8, IntervalOfOne
<1>2. CASE u.type # "QA_PAIR" /\ IsTextUnit(d, u)
  <2>1. CASE \E i, e \in 1..Len(d) : i <= e /\ u.members = i..e /\ \A k \in u.members : d[k].type \in FallbackTypes
    <3>1. PICK i \in 1..Len(d), e \in 1..Len(d) : i <= e /\ u.members = i..e /\ \A k \in u.members : d[k].type \in FallbackTypes
      BY <2>1
    <3>2. /\ \A k \in i..e : Marginal(d[k]) = Marginal(d[i])
          /\ \A k \in i..e : RoutingOf(d)[k] = RoutingOf(d)[i]
      BY <1>2, <3>1, TextIsOfOne
    <3>3. i \in Int /\ e \in Int
      BY <1>0
    <3> QED BY <3>1, <3>2, <3>3, IntervalOfOne
  <2>2. CASE \E i \in 1..Len(d) : u.members = {i}
    <3>1. PICK i \in 1..Len(d) : u.members = {i}
      BY <2>2
    <3>2. i \in Int /\ i <= i /\ u.members = i..i
      BY <1>0, <3>1
    <3>3. /\ \A k \in i..i : Marginal(d[k]) = Marginal(d[i])
          /\ \A k \in i..i : RoutingOf(d)[k] = RoutingOf(d)[i]
      BY <3>2
    <3> QED BY <3>2, <3>3, IntervalOfOne
  <2> QED BY <1>2, <2>1, <2>2 DEF IsTextUnit
<1>3. CASE IsSpanUnit(d, u)
  <2>1. PICK s \in Spans(d, Boundaries(d)) : u = UnitOfSpan(s)
    BY <1>3 DEF IsSpanUnit
  <2>2. u.members = s.members
    BY <2>1 DEF UnitOfSpan
  <2>3. CASE IsNativeSpan(d, s) /\ s.family = "list" /\ IsListSpan(d, s)
    BY <2>1, <2>2, <2>3, ListIsOfOne
  <2>4. CASE IsFreeSpan(d, s)
    <3>1. PICK i \in 1..Len(d), e \in 1..Len(d) : i <= e /\ s.members = i..e
      BY <2>4 DEF IsFreeSpan
    <3>2. \A k \in i..e : k \in 1..Len(d) /\ k \notin Keyed(d) /\ Family(d[k].type) = s.family /\ s.family \in {"code", "formula"}
      BY <1>0, <2>4, <3>1 DEF IsFreeSpan
    <3>3. None # "code" /\ None # "formula"
      BY NoneAssumption DEF Families
    <3>4. \A k \in i..e : d[k].type = IF s.family = "code" THEN "CODE" ELSE "FORMULA"
      BY <3>2, <3>3, FreeTypes
    <3> DEFINE types == IF s.family = "code" THEN {"CODE"} ELSE {"FORMULA"}
    <3>5. types \in {TableTypes, {"CODE"}, {"FORMULA"}} /\ \A k \in i..e : d[k].type \in types
      BY <3>4
    <3>6. i \in Int /\ e \in Int
      BY <1>0
    <3> HIDE DEF types
    <3>7. /\ \A k \in i..e : Marginal(d[k]) = Marginal(d[i])
          /\ \A k \in i..e : RoutingOf(d)[k] = RoutingOf(d)[i]
      BY <3>1, <3>5, FamilyIsOfOne
    <3> QED BY <2>2, <3>1, <3>6, <3>7, IntervalOfOne
  <2>5. CASE IsNativeSpan(d, s) /\ s.family = "table" /\ s.family # "list"
    <3>1. PICK g : IsTableGroup(g) /\ s.groups = {g}
      BY <2>5 DEF IsNativeSpan, IsListSpan
    <3> DEFINE i == Min(s.members)
               e == Max(s.members)
    <3>2. /\ i \in s.members /\ e \in s.members /\ s.members \in SUBSET (1..Len(d))
          /\ \A k \in s.members : i <= k /\ k <= e
      BY <2>2, UnitsOfWithin
    <3>3. s.members = {k \in 1..Len(d) : d[k].group \in s.groups}
      BY <2>5 DEF IsNativeSpan
    <3> HIDE DEF i, e
    <3>4. d[i].group = g /\ d[e].group = g /\ i \in DOMAIN d /\ e \in DOMAIN d /\ i <= e /\ s.members \subseteq i..e
      BY <1>0, <3>1, <3>2, <3>3
    <3>5. d[i].type \in TableTypes
      BY <1>0, <3>1, <3>4, OrderlyGroups
    <3>6. PICK inner : IsInner(d, inner)
      BY DEF Orderly
    <3>7. \A k \in i..e : d[k].type \in TableTypes
      BY <3>4, <3>5, <3>6 DEF IsInner
    <3>8. /\ \A k \in i..e : Marginal(d[k]) = Marginal(d[i])
          /\ \A k \in i..e : RoutingOf(d)[k] = RoutingOf(d)[i]
      <4>1. i \in 1..Len(d) /\ e \in 1..Len(d) /\ TableTypes \in {TableTypes, {"CODE"}, {"FORMULA"}}
        BY <1>0, <3>4
      <4> HIDE DEF TableTypes
      <4> QED BY <3>4, <3>7, <4>1, FamilyIsOfOne
    <3>9. IsOnOneSide(d, s.members)
      BY <3>4, <3>8 DEF IsOnOneSide
    <3>10. IsOfOne(RoutingOf(d), s.members)
      BY <3>8 DEF IsOfOne, i, e
    <3> QED BY <2>2, <3>9, <3>10
  <2> QED BY <2>1, <2>3, <2>4, <2>5, SpanUnitsAre
<1>4. u.type = "QA_PAIR" \/ IsTextUnit(d, u) \/ IsSpanUnit(d, u)
  BY UnitsOfAre DEF IsPairUnit
<1> QED BY <1>1, <1>2, <1>3, <1>4

-----------------------------------------------------------------------------
(* The regions and the outline.                                            *)

RegionFrom(routing, s) == s..Min({t - 1 : t \in {t \in RegionStarts(routing) : t > s}} \cup {Len(routing)})

SegmentFrom(routing, tree, s) ==
  [members |-> RegionFrom(routing, s), category |-> RegionCategory(routing, RegionFrom(routing, s)),
   mode |-> RegionMode(tree, RegionFrom(routing, s), RegionCategory(routing, RegionFrom(routing, s)))]

\* The regions are made from where they start.
LEMMA SegmentsAre ==
  ASSUME NEW routing, NEW tree
  PROVE  Segment(routing, tree) = {SegmentFrom(routing, tree, s) : s \in RegionStarts(routing)}
BY DEF Segment, SegmentFrom, RegionFrom

\* Where regions start, the material changes.
LEMMA StartsAre ==
  ASSUME NEW routing, NEW n \in Nat \ {0}, DOMAIN routing = 1..n
  PROVE  /\ 1 \in RegionStarts(routing) /\ RegionStarts(routing) \subseteq 1..n
         /\ \A t \in RegionStarts(routing) \ {1} :
              /\ routing[t] \notin Attached
              /\ \E m \in 1..n : /\ m < t /\ routing[m] \notin Attached /\ routing[m] # routing[t]
                                 /\ \A j \in 1..n : j < t /\ routing[j] \notin Attached => j <= m
<1> DEFINE material == {i \in DOMAIN routing : routing[i] \notin Attached}
           Before(i) == {j \in material : j < i}
<1>1. RegionStarts(routing) = {1} \cup {i \in material : Before(i) # {} /\ routing[Max(Before(i))] # routing[i]}
  BY DEF RegionStarts
<1>2. 1 \in 1..n
  OBVIOUS
<1>3. ASSUME NEW t \in RegionStarts(routing) \ {1}
      PROVE  /\ routing[t] \notin Attached
             /\ \E m \in 1..n : /\ m < t /\ routing[m] \notin Attached /\ routing[m] # routing[t]
                                /\ \A j \in 1..n : j < t /\ routing[j] \notin Attached => j <= m
  <2>1. t \in material /\ Before(t) # {} /\ routing[Max(Before(t))] # routing[t]
    BY <1>1
  <2>2. Before(t) \in SUBSET Int /\ n \in Int /\ \A x \in Before(t) : x <= n
    OBVIOUS
  <2> DEFINE m == Max(Before(t))
  <2>3. m \in Before(t) /\ \A y \in Before(t) : y <= m
    BY <2>1, <2>2, GreatestNumber
  <2>4. m \in 1..n /\ m < t /\ routing[m] \notin Attached
    BY <2>3
  <2>5. \A j \in 1..n : j < t /\ routing[j] \notin Attached => j <= m
    BY <2>3
  <2>6. routing[m] # routing[t]
    BY <2>1
  <2> HIDE DEF m
  <2> QED BY <2>1, <2>4, <2>5, <2>6
<1>4. RegionStarts(routing) \subseteq 1..n
  BY <1>1, <1>2
<1>5. 1 \in RegionStarts(routing)
  BY <1>1
<1> QED BY <1>3, <1>4, <1>5

\* A region goes on to the next start.
LEMMA RegionIs ==
  ASSUME NEW routing, NEW n \in Nat \ {0}, DOMAIN routing = 1..n, Len(routing) = n, NEW s \in RegionStarts(routing)
  PROVE  RegionFrom(routing, s) = {k \in s..n : \A t \in RegionStarts(routing) : s < t => k < t}
<1> DEFINE starts == RegionStarts(routing)
           T == {t - 1 : t \in {t \in starts : t > s}} \cup {n}
           m == Min(T)
<1>1. starts \subseteq 1..n
  BY StartsAre
<1> HIDE DEF starts
<1>2. T \in SUBSET Int /\ T # {} /\ 0 \in Int /\ \A x \in T : 0 <= x
  <2>1. ASSUME NEW x \in T PROVE x \in Int /\ 0 <= x
    <3>1. ASSUME NEW t \in starts, x = t - 1 PROVE x \in Int /\ 0 <= x
      <4>1. t \in 1..n
        BY <1>1
      <4> QED BY <3>1, <4>1
    <3>2. x = n \/ \E t \in starts : x = t - 1
      BY <2>1
    <3> QED BY <3>1, <3>2
  <2>2. n \in T
    OBVIOUS
  <2> QED BY <2>1, <2>2
<1> HIDE DEF T
<1>3. m \in T /\ \A y \in T : m <= y
  BY <1>2, SmallestNumber
<1>4. m \in Int /\ m <= n
  BY <1>2, <1>3 DEF T
<1>5. \A t \in starts : s < t => m <= t - 1
  BY <1>3 DEF T
<1>6. m = n \/ \E t \in starts : s < t /\ m = t - 1
  BY <1>3 DEF T, starts
<1>7. s \in 1..n
  BY <1>1 DEF starts
<1> HIDE DEF m
<1>8. s..m = {k \in s..n : \A t \in starts : s < t => k < t}
  <2>1. ASSUME NEW k \in s..m PROVE k \in s..n /\ \A t \in starts : s < t => k < t
    BY <1>1, <1>4, <1>5, <1>7
  <2>2. ASSUME NEW k \in s..n, \A t \in starts : s < t => k < t PROVE k \in s..m
    BY <1>1, <1>4, <1>6, <1>7, <2>2
  <2> QED BY <2>1, <2>2
<1>9. RegionFrom(routing, s) = s..m
  BY DEF RegionFrom, m, T, starts
<1> QED BY <1>8, <1>9 DEF starts

\* The regions are a partition, and what is of one material is in one of them.
LEMMA RegionsPartition ==
  ASSUME NEW routing, NEW n \in Nat \ {0}, DOMAIN routing = 1..n, Len(routing) = n
  PROVE  /\ \A k \in 1..n : \E s \in RegionStarts(routing) : k \in RegionFrom(routing, s)
         /\ \A s \in RegionStarts(routing) : RegionFrom(routing, s) \subseteq 1..n
         /\ \A s, t \in RegionStarts(routing) : s # t => RegionFrom(routing, s) \cap RegionFrom(routing, t) = {}
         /\ \A S \in SUBSET (1..n) : S # {} /\ IsOfOne(routing, S) => \E s \in RegionStarts(routing) : S \subseteq RegionFrom(routing, s)
<1> DEFINE starts == RegionStarts(routing)
           R(s) == {k \in s..n : \A t \in starts : s < t => k < t}
<1>1. 1 \in starts /\ starts \subseteq 1..n
  BY StartsAre
<1>2. \A s \in starts : RegionFrom(routing, s) = R(s)
  BY RegionIs
<1>3. ASSUME NEW k \in 1..n PROVE \E s \in starts : k \in R(s)
  <2> DEFINE T == {s \in starts : s <= k}
             m == Max(T)
  <2>1. T \in SUBSET Int /\ T # {} /\ k \in Int /\ \A x \in T : x <= k
    BY <1>1
  <2>2. m \in T /\ \A y \in T : y <= m
    BY <2>1, GreatestNumber
  <2>3. m \in starts /\ m \in 1..n /\ m <= k /\ \A t \in starts : t <= k => t <= m
    BY <1>1, <2>2
  <2> HIDE DEF m, T, starts
  <2>4. k \in m..n
    BY <2>3
  <2>5. \A t \in starts : m < t => k < t
    BY <1>1, <2>3
  <2> QED BY <2>3, <2>4, <2>5
<1>4. \A s \in starts : R(s) \subseteq 1..n
  BY <1>1
<1>5. ASSUME NEW s \in starts, NEW t \in starts, s # t PROVE R(s) \cap R(t) = {}
  <2>1. s \in Int /\ t \in Int
    BY <1>1
  <2> HIDE DEF starts
  <2>2. CASE s < t
    <3>1. \A k \in R(s) : k < t /\ k \in Int
      BY <2>1, <2>2
    <3>2. \A k \in R(t) : t <= k
      BY <2>1
    <3> QED BY <2>1, <3>1, <3>2
  <2>3. CASE t < s
    <3>1. \A k \in R(t) : k < s /\ k \in Int
      BY <2>1, <2>3
    <3>2. \A k \in R(s) : s <= k
      BY <2>1
    <3> QED BY <2>1, <3>1, <3>2
  <2> QED BY <1>5, <2>1, <2>2, <2>3
<1>6. ASSUME NEW S \in SUBSET (1..n), S # {}, IsOfOne(routing, S) PROVE \E s \in starts : S \subseteq R(s)
  <2> DEFINE a == Min(S)
             e == Max(S)
  <2>1. a \in S /\ e \in S /\ \A k \in S : a <= k /\ k <= e
    <3>1. 1 \in Int /\ n \in Int
      OBVIOUS
    <3> QED BY <1>6, <3>1, ExtremeOfInterval
  <2>2. \A j \in a..e : routing[j] \in Attached \cup {routing[a]}
    BY <1>6 DEF IsOfOne
  <2> HIDE DEF a, e, starts
  <2>3. a \in 1..n /\ e \in 1..n
    BY <2>1
  <2>4. PICK s \in starts : a \in R(s)
    BY <1>3, <2>3
  <2>5. s \in 1..n /\ s <= a /\ \A t \in starts : s < t => a < t
    BY <1>1, <2>4
  <2>6. ASSUME NEW t \in starts, s < t PROVE e < t
    <3>1. a < t /\ t \in 1..n /\ t # 1
      BY <1>1, <2>3, <2>5, <2>6
    <3> SUFFICES ASSUME t <= e PROVE FALSE
      BY <2>3, <3>1
    <3>2. routing[t] \notin Attached
      BY <3>1, StartsAre DEF starts
    <3>3. PICK m \in 1..n : /\ m < t /\ routing[m] \notin Attached /\ routing[m] # routing[t]
                            /\ \A j \in 1..n : j < t /\ routing[j] \notin Attached => j <= m
      BY <3>1, StartsAre DEF starts
    <3>4. t \in a..e
      BY <2>3, <3>1
    <3>5. routing[t] = routing[a] /\ routing[a] \notin Attached
      BY <2>2, <3>2, <3>4
    <3>6. a <= m
      BY <2>3, <3>1, <3>3, <3>5
    <3>7. m \in a..e
      BY <2>3, <3>1, <3>3, <3>6
    <3> QED BY <2>2, <3>3, <3>5, <3>7
  <2>7. \A k \in S : k \in R(s)
    <3> SUFFICES ASSUME NEW k \in S PROVE k \in R(s)
      OBVIOUS
    <3>1. k \in 1..n /\ a <= k /\ k <= e
      BY <2>1
    <3>2. k \in s..n
      BY <2>3, <2>5, <3>1
    <3>3. \A t \in starts : s < t => k < t
      BY <1>1, <2>3, <2>6, <3>1
    <3> QED BY <3>2, <3>3
  <2> QED BY <2>7
<1> HIDE DEF R
<1>7. \A k \in 1..n : \E s \in starts : k \in RegionFrom(routing, s)
  BY <1>2, <1>3
<1>8. \A s \in starts : RegionFrom(routing, s) \subseteq 1..n
  BY <1>2, <1>4
<1>9. \A s, t \in starts : s # t => RegionFrom(routing, s) \cap RegionFrom(routing, t) = {}
  BY <1>2, <1>5
<1>10. \A S \in SUBSET (1..n) : S # {} /\ IsOfOne(routing, S) => \E s \in starts : S \subseteq RegionFrom(routing, s)
  BY <1>2, <1>6
<1> QED BY <1>7, <1>8, <1>9, <1>10

\* The regions that are found take each unit as a whole.
LEMMA UnitsAreRouted ==
  ASSUME NEW d, Orderly(d), PlainlyRead(d), Len(d) # 0, NEW tree
  PROVE  /\ Routed(d, UnitsOf(d), Segment(RoutingOf(d), tree)) /\ Segment(RoutingOf(d), tree) # {}
         /\ \A r \in Segment(RoutingOf(d), tree) : r.members \subseteq 1..Len(d)
<1> DEFINE r == RoutingOf(d)
           n == Len(d)
           regions == Segment(r, tree)
           starts == RegionStarts(r)
<1>1. DOMAIN d = 1..n /\ n \in Nat
  BY DEF Orderly
<1>2. n \in Nat \ {0} /\ DOMAIN r = 1..n /\ Len(r) = n
  BY <1>1, RoutingIs
<1>3. regions = {SegmentFrom(r, tree, s) : s \in starts}
  BY SegmentsAre
<1>4. \A s : SegmentFrom(r, tree, s).members = RegionFrom(r, s)
  BY DEF SegmentFrom
<1>5. 1 \in starts
  BY <1>2, StartsAre
<1> HIDE DEF r, n, regions, starts
<1>6. UNION {g.members : g \in regions} = 1..n
  <2>1. \A k \in 1..n : \E s \in starts : k \in RegionFrom(r, s)
    BY <1>2, RegionsPartition DEF starts
  <2>2. \A s \in starts : RegionFrom(r, s) \subseteq 1..n
    BY <1>2, RegionsPartition DEF starts
  <2>3. {g.members : g \in regions} = {RegionFrom(r, s) : s \in starts}
    BY <1>3, <1>4
  <2> QED BY <2>1, <2>2, <2>3
<1>7. \A g, h \in regions : g # h => g.members \cap h.members = {}
  <2>1. \A s, t \in starts : s # t => RegionFrom(r, s) \cap RegionFrom(r, t) = {}
    BY <1>2, RegionsPartition DEF starts
  <2> QED BY <1>3, <1>4, <2>1
<1>8. CrossesNoRegion(UnitsOf(d), regions)
  <2> SUFFICES ASSUME NEW u \in UnitsOf(d) PROVE \E g \in regions : u.members \subseteq g.members
    BY DEF CrossesNoRegion
  <2>1. u.members # {} /\ u.members \in SUBSET (1..n) /\ IsOfOne(r, u.members)
    BY UnitsOfWithin, UnitsAreOfOne DEF r, n
  <2>2. PICK s \in starts : u.members \subseteq RegionFrom(r, s)
    BY <1>2, <2>1, RegionsPartition DEF starts
  <2>3. SegmentFrom(r, tree, s) \in regions
    BY <1>3
  <2> QED BY <1>4, <2>2, <2>3
<1>9. regions # {}
  BY <1>3, <1>5
<1>10. Routed(d, UnitsOf(d), regions)
  BY <1>1, <1>6, <1>7, <1>8 DEF Routed
<1>11. \A g \in regions : g.members \subseteq 1..n
  BY <1>6
<1> QED BY <1>9, <1>10, <1>11 DEF regions, r, n

\* The least of some positions is one of them.
LEMMA LeastIsWithin ==
  ASSUME NEW n \in Int, NEW T \in SUBSET (1..n), T # {}
  PROVE  Min(T) \in T /\ Min(T) \in Int
<1>1. 1 \in Int
  OBVIOUS
<1>2. Min(T) \in T
  BY <1>1, ExtremeOfInterval
<1> HIDE DEF Min
<1>3. T \subseteq Int
  OBVIOUS
<1> QED BY <1>2, <1>3

\* What of an outline is not the first element of the document is a paragraph or an item.
LEMMA OutlineIsText ==
  ASSUME NEW d, Len(d) \in Nat, DOMAIN d = 1..Len(d), NEW o \in Outline(d)
  PROVE  o.at = 1 \/ d[o.at].type \in {"PARAGRAPH", "LIST_ITEM"}
<1>1. \A positions, level, role : \A p \in Outlined(positions, level, role) : p.at \in positions
  BY DEF Outlined
<1>2. o \in DocumentOutline(d) \/ o \in PrefaceOutline(d)
  BY DEF Outline
<1>3. CASE o \in DocumentOutline(d)
  <2> DEFINE key == CHOOSE k \in Outlines(d) : TRUE
             sections == Sections(d, key)
             first == Min(sections)
             labels == {i \in 2..(first - 1) : IsOutlineLabel(d[i], key.zone) /\ "colon" \in d[i].marks}
  <2>1. \/ o \in Outlined({1}, 0, "DOCUMENT_TITLE") \/ o \in Outlined(labels, 1, "SECTION")
        \/ o \in Outlined(sections, IF labels = {} THEN 1 ELSE 2, "NUMBERED_SECTION")
        \/ o \in Outlined(PostLabel(d, key, Max(sections)), 1, "SECTION")
    BY <1>3 DEF DocumentOutline
  <2>2. \A i \in labels : d[i].type = "PARAGRAPH"
    BY DEF IsOutlineLabel
  <2>3. \A i \in sections : d[i].type = "LIST_ITEM"
    BY DEF Sections, InOutline, Numbered
  <2>4. \A i \in PostLabel(d, key, Max(sections)) : d[i].type = "PARAGRAPH"
    BY DEF PostLabel, IsOutlineLabel
  <2> HIDE DEF key, sections, labels
  <2>5. CASE o \in Outlined({1}, 0, "DOCUMENT_TITLE")
    BY <1>1, <2>5
  <2>6. CASE o \in Outlined(labels, 1, "SECTION")
    BY <1>1, <2>2, <2>6
  <2>7. CASE o \in Outlined(sections, IF labels = {} THEN 1 ELSE 2, "NUMBERED_SECTION")
    BY <1>1, <2>3, <2>7
  <2>8. CASE o \in Outlined(PostLabel(d, key, Max(sections)), 1, "SECTION")
    BY <1>1, <2>4, <2>8
  <2> QED BY <2>1, <2>5, <2>6, <2>7, <2>8
<1>4. CASE o \in PrefaceOutline(d)
  <2> DEFINE headings == {i \in DOMAIN d : d[i].type = "HEADING" /\ ~d[i].blank}
             h == Min(headings)
             zone == d[h].zone
             entries == {i \in 1..(h - 1) : d[i].zone = zone /\ "navigation" \in d[i].marks}
             visible == {i \in 1..(Min(entries) - 1) : d[i].zone = zone /\ ~d[i].blank}
             styled == {i \in visible : /\ d[i].type = "PARAGRAPH" /\ IsBold(d[i]) /\ IsLabel(d[i])
                                        /\ Style(d[i], "font_size") # None}
             Size(i) == Style(d[i], "font_size")
             largest == {i \in styled : \A j \in styled : Size(j) <= Size(i)}
             title == Min(largest)
             smaller == {i \in styled : i > title /\ Size(i) < Size(title)}
             OfSize(s) == {i \in smaller : Size(i) = s}
             count == [s \in {Size(i) : i \in smaller} |-> Cardinality(OfSize(s))]
             best == {s \in DOMAIN count : \A other \in DOMAIN count : count[other] <= count[s]}
             sections == OfSize(CHOOSE s \in best : TRUE)
  <2>1. /\ headings # {} /\ ~(Cardinality(entries) < MinNavigation) /\ Cardinality(largest) = 1
        /\ o \in Outlined({title}, 0, "DOCUMENT_TITLE") \/ o \in Outlined(sections, 1, "SECTION")
    BY <1>4 DEF PrefaceOutline
  <2>2. \A i \in styled : d[i].type = "PARAGRAPH"
    OBVIOUS
  <2>3. sections \subseteq styled
    OBVIOUS
  <2>4. largest \subseteq styled /\ styled \subseteq visible
    OBVIOUS
  <2> HIDE DEF sections, largest, styled
  <2>5. h \in Int
    <3>1. headings \in SUBSET (1..Len(d)) /\ Len(d) \in Int /\ headings # {}
      BY <2>1
    <3> HIDE DEF headings
    <3> QED BY <3>1, LeastIsWithin
  <2> HIDE DEF h, zone
  <2>6. entries # {}
    <3> SUFFICES ASSUME entries = {} PROVE FALSE
      OBVIOUS
    <3>1. Cardinality(entries) = 0
      BY FS_EmptySet
    <3> QED BY <2>1, <3>1, PolicyAssumption
  <2>7. Min(entries) \in Int
    <3> DEFINE n == h - 1
    <3>1. entries \in SUBSET (1..n) /\ n \in Int
      BY <2>5
    <3> HIDE DEF entries, n
    <3> QED BY <2>6, <3>1, LeastIsWithin
  <2> HIDE DEF entries
  <2>8. title \in largest
    <3> DEFINE n == Min(entries) - 1
    <3>1. n \in Int /\ largest \subseteq 1..n
      BY <2>4, <2>7
    <3> HIDE DEF n
    <3>2. IsFiniteSet(1..n)
      BY <3>1, FS_Interval
    <3>3. IsFiniteSet(largest)
      BY <3>1, <3>2, FS_Subset
    <3>4. PICK x : largest = {x}
      BY <2>1, <3>3, FS_Singleton
    <3>5. largest \in SUBSET (1..n) /\ largest # {} /\ 1 \in Int
      BY <3>1, <3>4
    <3> QED BY <3>1, <3>5, ExtremeOfInterval
  <2> HIDE DEF title
  <2>9. CASE o \in Outlined({title}, 0, "DOCUMENT_TITLE")
    <3>1. o.at = title
      BY <1>1, <2>9
    <3> QED BY <2>2, <2>4, <2>8, <3>1
  <2>10. CASE o \in Outlined(sections, 1, "SECTION")
    <3>1. o.at \in sections
      BY <1>1, <2>10
    <3> QED BY <2>2, <2>3, <3>1
  <2> QED BY <2>1, <2>9, <2>10
<1> QED BY <1>2, <1>3, <1>4

\* The boundary before a paragraph or an item is classified: of two items the
\* source says whether they are of one list.
LEMMA TextIsClassified ==
  ASSUME NEW d, Orderly(d), NEW i \in 2..Len(d), d[i].type \in {"PARAGRAPH", "LIST_ITEM"}
  PROVE  Classify(d[i - 1], d[i]) # "UNKNOWN"
<1> DEFINE l == d[i - 1]
           r == d[i]
<1>0. Len(d) \in Nat /\ DOMAIN d = 1..Len(d) /\ i \in 1..Len(d) /\ i - 1 \in 1..Len(d)
  BY DEF Orderly
<1> SUFFICES ASSUME Classify(l, r) = "UNKNOWN" PROVE FALSE
  OBVIOUS
<1>1. Guard(l, r) = None /\ NativeRelation(l, r) # "DIFFERENT" /\ IsUnknownPair(l, r)
  BY DEF Classify
<1>2. l.type \in OrderlyTypes
  BY <1>0 DEF Orderly, OrderlyElement
<1>3. SharedFamily(l, r)
  BY <1>1 DEF IsUnknownPair
<1>4. l.type = "LIST_ITEM" /\ r.type = "LIST_ITEM"
  BY <1>2, <1>3 DEF SharedFamily, TableTypes, ListTypes, OrderlyTypes
<1>5. l.group # None /\ r.group # None
  <2>1. IsListGroup(l.group) /\ IsListGroup(r.group)
    BY <1>0, <1>4, OrderlyGroups
  <2> QED BY <2>1, NoneAssumption DEF IsListGroup
<1>6. NativeRelation(l, r) = "SAME"
  BY <1>1, <1>5 DEF NativeRelation
<1>7. Guard(l, r) = "NATIVE_INTEGRITY_GROUP"
  BY <1>6 DEF Guard
<1> QED BY <1>1, <1>7, GuardAssumption

\* A heading begins something new.
LEMMA HeadingsBegin ==
  ASSUME NEW d, Orderly(d), PlainlyRead(d), NEW i \in 2..Len(d), d[i].type = "HEADING"
  PROVE  Classify(d[i - 1], d[i]) = "HARD" /\ ExplicitStart(d[i])
<1> DEFINE l == d[i - 1]
           r == d[i]
<1>0. Len(d) \in Nat /\ DOMAIN d = 1..Len(d) /\ i \in 1..Len(d)
  BY DEF Orderly
<1>1. r.source = "EXPLICIT" /\ r.group = None
  BY <1>0 DEF Orderly, OrderlyElement, TableTypes
<1>2. "answer" \notin r.marks
  BY <1>0 DEF PlainlyRead
<1>3. ExplicitStart(r)
  BY <1>1 DEF ExplicitStart, HeadingTypes
<1>4. "answer" \notin Signals(r)
  BY <1>2 DEF Signals
<1>5. NativeRelation(l, r) = None
  BY <1>1 DEF NativeRelation
<1>6. Guard(l, r) = None
  BY <1>4, <1>5, GuardAssumption DEF Guard
<1> QED BY <1>3, <1>6 DEF Classify

\* No element of an orderly document starts in a way that the outline refuses.
LEMMA StartsAreWell ==
  ASSUME NEW d, Orderly(d), PlainlyRead(d), NEW i \in DOMAIN d
  PROVE  ~StartsBadly(d, Boundaries(d), Outline(d), i)
<1>0. Len(d) \in Nat /\ DOMAIN d = 1..Len(d)
  BY DEF Orderly
<1> SUFFICES ASSUME i > 1, StartsBadly(d, Boundaries(d), Outline(d), i) PROVE FALSE
  BY DEF StartsBadly
<1>1. i \in 2..Len(d) /\ i - 1 \in 1..(Len(d) - 1)
  BY <1>0
<1>2. /\ Boundaries(d)[i - 1].class = Classify(d[i - 1], d[i])
      /\ Boundaries(d)[i - 1].explicit = ExplicitStart(d[i])
  <2> DEFINE k == i - 1
  <2>1. k \in 1..(Len(d) - 1) /\ k + 1 = i
    BY <1>0, <1>1
  <2> HIDE DEF k
  <2>2. Boundaries(d)[k].class = Classify(d[k], d[k + 1]) /\ Boundaries(d)[k].explicit = ExplicitStart(d[k + 1])
    BY <1>0, <2>1, BoundaryOf
  <2> QED BY <2>1, <2>2 DEF k
<1>3. OrderlyElement(d[i])
  BY <1>0 DEF Orderly
<1>4. CASE d[i].type \in HeadingTypes
  <2>1. d[i].type = "HEADING" /\ d[i].source = "EXPLICIT"
    BY <1>3, <1>4 DEF OrderlyElement, OrderlyTypes, HeadingTypes, TableTypes
  <2>2. Boundaries(d)[i - 1].class = "HARD" /\ Boundaries(d)[i - 1].explicit
    BY <1>1, <1>2, <2>1, HeadingsBegin
  <2> QED BY <1>4, <2>1, <2>2 DEF StartsBadly
<1>5. CASE d[i].type \notin HeadingTypes
  <2>1. PICK o \in Outline(d) : o.at = i
    BY <1>5 DEF StartsBadly, Inferred
  <2>2. Boundaries(d)[i - 1].class = "UNKNOWN"
    BY <1>5 DEF StartsBadly
  <2>3. d[i].type \in {"PARAGRAPH", "LIST_ITEM"}
    BY <1>0, <1>1, <2>1, OutlineIsText
  <2> QED BY <1>1, <1>2, <2>2, <2>3, TextIsClassified
<1> QED BY <1>4, <1>5

-----------------------------------------------------------------------------
(* The relations and the hierarchy.                                        *)

\* A unit with groups is a span.
LEMMA SpanOfUnit ==
  ASSUME NEW d, Orderly(d), PlainlyRead(d), NEW u \in UnitsOf(d), u.groups # {} \/ u.parent # None
  PROVE  \E s \in Spans(d, Boundaries(d)) : u = UnitOfSpan(s) /\ u.groups = s.groups /\ u.parent = s.parent
<1>1. IsPairUnit(d, u) \/ IsTextUnit(d, u) \/ IsSpanUnit(d, u)
  BY UnitsOfAre
<1>2. IsSpanUnit(d, u)
  BY <1>1 DEF IsPairUnit, IsTextUnit
<1>3. PICK s \in Spans(d, Boundaries(d)) : u = UnitOfSpan(s)
  BY <1>2 DEF IsSpanUnit
<1> QED BY <1>3 DEF UnitOfSpan

\* At most one unit is a group.
LEMMA NativeUnitIsOne ==
  ASSUME NEW d, Orderly(d), PlainlyRead(d), NEW g
  PROVE  Cardinality(NativeUnit(UnitsOf(d), g)) <= 1
<1> DEFINE own == NativeUnit(UnitsOf(d), g)
<1>1. ASSUME NEW u \in own, NEW v \in own PROVE u = v
  <2>1. u \in UnitsOf(d) /\ u.groups = {g} /\ v \in UnitsOf(d) /\ v.groups = {g}
    BY DEF NativeUnit
  <2>2. PICK s \in Spans(d, Boundaries(d)) : u = UnitOfSpan(s) /\ u.groups = s.groups
    BY <2>1, SpanOfUnit
  <2>3. PICK t \in Spans(d, Boundaries(d)) : v = UnitOfSpan(t) /\ v.groups = t.groups
    BY <2>1, SpanOfUnit
  <2>4. \A x, y \in Spans(d, Boundaries(d)) : x # y => x.groups \cap y.groups = {}
    BY SpansAreApart
  <2>5. s = t
    BY <2>1, <2>2, <2>3, <2>4
  <2> QED BY <2>2, <2>3, <2>5
<1> HIDE DEF own
<1>2. CASE own = {}
  <2>1. Cardinality(own) = 0
    BY <1>2, FS_EmptySet
  <2> QED BY <2>1 DEF own
<1>3. CASE own # {}
  <2>1. PICK u : own = {u}
    BY <1>1, <1>3
  <2>2. Cardinality(own) = 1
    BY <2>1, FS_Singleton
  <2> QED BY <2>2 DEF own
<1> QED BY <1>2, <1>3

\* The table that another one stands in has a unit of its own.
LEMMA ParentsHaveUnits ==
  ASSUME NEW d, Orderly(d), PlainlyRead(d), NEW u \in Children(UnitsOf(d))
  PROVE  NativeUnit(UnitsOf(d), u.parent) # {}
<1> DEFINE p == u.parent
<1>1. u \in UnitsOf(d) /\ p # None
  BY DEF Children
<1>2. PICK s \in Spans(d, Boundaries(d)) : p = s.parent
  BY <1>1, SpanOfUnit
<1>3. \A t \in Spans(d, Boundaries(d)) : IsNativeSpan(d, t) \/ IsFreeSpan(d, t)
  BY SpansAreApart
<1>4. PICK g : IsTableGroup(g) /\ s.groups = {g} /\ ParentsOf(d, g) = {p} /\ g \in NativeGroups(d)
  BY <1>1, <1>2, <1>3 DEF IsFreeSpan, IsNativeSpan, IsListSpan
<1> HIDE DEF p
<1>5. p \in NativeGroups(d) /\ IsTableGroup(p)
  <2>1. /\ ParentsOf(d, g) \subseteq NativeGroups(d) \cup {None}
        /\ \/ IsTableGroup(g) /\ (\A i \in GroupMembers(d, g) : d[i].type \in TableTypes)
               /\ \A q \in ParentsOf(d, g) \ {None} : IsTableGroup(q) /\ q[3] < g[3]
           \/ IsListGroup(g) /\ (\A i \in GroupMembers(d, g) : d[i].type = "LIST_ITEM") /\ ParentsOf(d, g) = {None}
    BY <1>4, MembersOfGroup
  <2>2. ~(IsTableGroup(g) /\ IsListGroup(g))
    BY OrderlyGroups
  <2> QED BY <1>1, <1>4, <2>1, <2>2 DEF p
<1>6. PICK t \in Spans(d, Boundaries(d)) : GroupMembers(d, p) \subseteq t.members
  <2>1. IsGrouped(d)
    BY OrderlyIsGrouped
  <2> DEFINE bb == Boundaries(d)
  <2> HIDE DEF bb
  <2>2. \A q \in NativeGroups(d) : \E t \in Spans(d, bb) : GroupMembers(d, q) \subseteq t.members
    BY <2>1, SpansCover
  <2> QED BY <1>5, <2>2 DEF bb
<1>7. PICK k : k \in GroupMembers(d, p)
  BY <1>5, MembersOfGroup
<1>8. k \in t.members /\ d[k].group = p /\ k \in Keyed(d)
  BY <1>6, <1>7 DEF GroupMembers
<1>9. t.groups = {p}
  <2>1. IsNativeSpan(d, t)
    BY <1>3, <1>8 DEF IsFreeSpan
  <2>2. p \in t.groups
    BY <1>8, <2>1 DEF IsNativeSpan
  <2>3. ~IsListGroup(p)
    BY <1>5, OrderlyGroups
  <2> QED BY <2>1, <2>2, <2>3 DEF IsNativeSpan
<1>10. UnitOfSpan(t) \in UnitsOf(d) /\ UnitOfSpan(t).groups = {p}
  BY <1>9 DEF UnitsOf, Consolidate, UnitOfSpan
<1> QED BY <1>10 DEF NativeUnit, p

\* Nobody refuses the relations of an orderly document.
LEMMA OrderlyIsRelatable ==
  ASSUME NEW d, Orderly(d), PlainlyRead(d)
  PROVE  Relatable(d, UnitsOf(d), {})
<1>1. NestingIsSound(UnitsOf(d))
  BY NativeUnitIsOne, ParentsHaveUnits DEF NestingIsSound
<1>2. AnchorsAreSound(d)
  <2>1. \A i, j \in DOMAIN d : i # j /\ d[i].anchor # None => d[i].anchor # d[j].anchor
    BY DEF Orderly
  <2>2. ASSUME NEW i \in DOMAIN d, NEW key \in d[i].refs PROVE i \notin Anchored(d, key)
    <3>1. OrderlyElement(d[i])
      BY DEF Orderly
    <3>2. d[i].refs # {} /\ None \notin d[i].refs
      BY <3>1 DEF OrderlyElement
    <3>3. d[i].type # "FOOTNOTE" /\ key # None
      BY <3>1, <3>2 DEF OrderlyElement
    <3>4. d[i].anchor = None
      BY <3>1, <3>3 DEF OrderlyElement
    <3> QED BY <3>3, <3>4 DEF Anchored
  <2> QED BY <2>1, <2>2 DEF AnchorsAreSound
<1>3. CrossesNoSubdocument(UnitsOf(d), {})
  BY DEF CrossesNoSubdocument
<1> QED BY <1>1, <1>2, <1>3 DEF Relatable

\* There are no titles, and so no documents in it.
LEMMA NoSubdocuments ==
  ASSUME NEW d, Orderly(d), NEW bb
  PROVE  Subdocuments(d, bb) = {}
<1> DEFINE starts == {i \in 1..Len(d) : d[i].type = "TITLE" /\ d[i].source = "EXPLICIT" /\ (i = 1 \/ bb[i - 1].class = "HARD")}
<1>1. \A i \in 1..Len(d) : d[i].type # "TITLE"
  BY DEF Orderly, OrderlyElement, OrderlyTypes, TableTypes
<1>2. starts = {}
  BY <1>1
<1>3. Cardinality(starts) = 0
  BY <1>2, FS_EmptySet
<1> HIDE DEF starts
<1>4. Cardinality(starts) < 2
  BY <1>3
<1> QED BY <1>4 DEF Subdocuments, starts

\* A heading on a path is the last on its own, below the one before it.
LEMMA ParentsOnPath ==
  ASSUME NEW levels, NEW n, AreLevels(levels, n), NEW i \in 1..n, NEW path, IsOpenPath(levels, path, i),
         NEW k \in DOMAIN path, NEW own, IsOpenPath(levels, own, path[k])
  PROVE  /\ own # <<>> /\ own[Len(own)] = path[k] /\ path[k] \in DOMAIN levels
         /\ (IF Len(own) = 1 THEN None ELSE own[Len(own) - 1]) = (IF k = 1 THEN None ELSE path[k - 1])
<1> DEFINE h == path[k]
<1>1. /\ path \in Seq(Nat) /\ own \in Seq(Nat) /\ DOMAIN path = 1..Len(path) /\ DOMAIN own = 1..Len(own)
      /\ Len(path) \in Nat /\ Len(own) \in Nat
  BY DEF IsOpenPath
<1>2. /\ \A x \in DOMAIN path : path[x] \in OpenAt(levels, i)
      /\ \A x \in OpenAt(levels, i) : \E z \in DOMAIN path : path[z] = x
      /\ \A x \in DOMAIN own : own[x] \in OpenAt(levels, h)
      /\ \A x \in OpenAt(levels, h) : \E z \in DOMAIN own : own[z] = x
  BY DEF IsOpenPath, ToSet
<1>3. /\ \A x, z \in DOMAIN path : x < z => path[x] < path[z] /\ levels[path[x]] < levels[path[z]]
      /\ \A x, z \in DOMAIN own : x < z => own[x] < own[z] /\ levels[own[x]] < levels[own[z]]
  BY DEF IsOpenPath
<1>4. DOMAIN levels \subseteq 1..n /\ n \in Nat /\ \A x \in DOMAIN levels : levels[x] \in Int
  BY DEF AreLevels
<1>5. h \in OpenAt(levels, i) /\ h \in DOMAIN levels /\ h <= i
  BY <1>2 DEF OpenAt
<1> HIDE DEF h
<1>6. h \in OpenAt(levels, h)
  BY <1>4, <1>5 DEF OpenAt
<1>7. \A x \in OpenAt(levels, h) : x \in OpenAt(levels, i) /\ x <= h
  <2> TAKE x \in OpenAt(levels, h)
  <2>1. x \in DOMAIN levels /\ x <= h /\ \A z \in DOMAIN levels : x < z /\ z <= h => levels[z] > levels[x]
    BY DEF OpenAt
  <2>2. \A z \in DOMAIN levels : h < z /\ z <= i => levels[z] > levels[h]
    BY <1>5 DEF OpenAt
  <2>3. \A z \in DOMAIN levels : x < z /\ z <= i => levels[z] > levels[x]
    <3> TAKE z \in DOMAIN levels
    <3>1. x \in Int /\ z \in Int /\ h \in Int /\ i \in Int /\ levels[x] \in Int /\ levels[z] \in Int /\ levels[h] \in Int
      BY <1>4, <1>5, <2>1
    <3>2. CASE z <= h
      BY <2>1, <3>2
    <3>3. CASE h < z /\ x < h
      <4>1. levels[h] > levels[x]
        BY <1>5, <2>1, <3>1, <3>3
      <4> QED BY <2>2, <3>1, <3>3, <4>1
    <3>4. CASE h < z /\ x = h
      BY <2>2, <3>4
    <3> QED BY <2>1, <3>1, <3>2, <3>3, <3>4
  <2>4. x <= i
    BY <1>4, <1>5, <2>1
  <2> QED BY <2>1, <2>3, <2>4 DEF OpenAt
<1>8. \A x \in OpenAt(levels, i) : x <= h => x \in OpenAt(levels, h)
  BY <1>4, <1>5 DEF OpenAt
<1>9. PICK m \in DOMAIN own : own[m] = h
  BY <1>2, <1>6
<1>10. m = Len(own)
  <2> SUFFICES ASSUME m # Len(own) PROVE FALSE
    OBVIOUS
  <2>1. m < Len(own) /\ Len(own) \in DOMAIN own
    BY <1>1
  <2>2. own[m] < own[Len(own)] /\ own[Len(own)] <= h /\ own[Len(own)] \in Int
    BY <1>1, <1>2, <1>3, <1>7, <2>1
  <2>3. h \in Int
    BY <1>4, <1>5
  <2> QED BY <1>9, <2>2, <2>3
<1>11. own # <<>> /\ own[Len(own)] = path[k] /\ path[k] \in DOMAIN levels
  BY <1>1, <1>5, <1>9, <1>10 DEF h
<1>12. CASE k = 1
  <2>1. Len(own) = 1
    <3> SUFFICES ASSUME Len(own) # 1 PROVE FALSE
      OBVIOUS
    <3>1. 1 \in DOMAIN own /\ 1 < m
      BY <1>1, <1>10
    <3>2. own[1] < h /\ own[1] \in OpenAt(levels, i)
      BY <1>2, <1>3, <1>7, <1>9, <3>1
    <3>3. PICK z \in DOMAIN path : path[z] = own[1]
      BY <1>2, <3>2
    <3>4. z = 1 \/ 1 < z
      BY <1>1
    <3>5. path[z] = h \/ h < path[z]
      BY <1>3, <1>12, <3>3, <3>4 DEF h
    <3>6. path[z] \in Int /\ h \in Int
      BY <1>1 DEF h
    <3> QED BY <3>2, <3>3, <3>5, <3>6
  <2> QED BY <1>11, <1>12, <2>1
<1>13. CASE k # 1
  <2>1. k - 1 \in DOMAIN path /\ k - 1 < k /\ k \in Int
    BY <1>1, <1>13
  <2>2. path[k - 1] < h /\ path[k - 1] \in Int /\ h \in Int
    BY <1>1, <1>3, <2>1 DEF h
  <2>3. path[k - 1] \in OpenAt(levels, h)
    BY <1>2, <1>8, <2>1, <2>2
  <2>4. PICK z \in DOMAIN own : own[z] = path[k - 1]
    BY <1>2, <2>3
  <2>5. z # m /\ z \in 1..Len(own) /\ m = Len(own)
    BY <1>1, <1>9, <1>10, <2>2, <2>4
  <2>6. z = Len(own) - 1
    <3> SUFFICES ASSUME z # Len(own) - 1 PROVE FALSE
      OBVIOUS
    <3> DEFINE w == Len(own) - 1
    <3>0. Len(own) \in Int /\ z \in Int /\ DOMAIN own = 1..Len(own) /\ m = Len(own) /\ 1 <= z /\ z < Len(own)
      BY <1>1, <2>5
    <3>1. w \in DOMAIN own /\ z < w /\ w < m
      BY <3>0
    <3> HIDE DEF w
    <3>2. own[z] < own[w] /\ own[w] < h /\ own[w] \in OpenAt(levels, i)
      BY <1>2, <1>3, <1>7, <1>9, <3>1
    <3>3. PICK y \in DOMAIN path : path[y] = own[w]
      BY <1>2, <3>2
    <3>4. path[k - 1] < path[y] /\ path[y] < path[k]
      BY <2>4, <3>2, <3>3 DEF h
    <3>5. y < k - 1 \/ y = k - 1 \/ y = k \/ k < y
      <4>1. y \in Int /\ k \in Int
        BY <1>1, <3>3
      <4> QED BY <4>1
    <3>6. path[y] < path[k - 1] \/ path[y] = path[k - 1] \/ path[y] = path[k] \/ path[k] < path[y]
      BY <1>3, <2>1, <3>3, <3>5
    <3>7. path[y] \in Int /\ path[k] \in Int /\ path[k - 1] \in Int
      BY <1>1, <2>1, <3>3
    <3> QED BY <3>4, <3>6, <3>7
  <2>7. Len(own) # 1
    BY <1>1, <2>5
  <2> QED BY <1>11, <1>13, <2>4, <2>6, <2>7
<1> QED BY <1>12, <1>13, <1>11

\* The headings of a document.
TreeOf(d) == Hierarchy(d, Outline(d))

HasLevels(d) == \A i \in DOMAIN d : {d[i].level, d[i].marker} \subseteq Nat

\* Each path is one of headings, of which each stands under the one before.
LEMMA TreePaths ==
  ASSUME NEW d, Len(d) \in Nat, DOMAIN d = 1..Len(d), HasLevels(d)
  PROVE  /\ AreLevels(TreeOf(d).levels, Len(d)) /\ DOMAIN TreeOf(d).paths = 1..Len(d)
         /\ \A i \in 1..Len(d) : IsOpenPath(TreeOf(d).levels, TreeOf(d).paths[i], i)
<1> DEFINE levels == Calibrated(d, Candidates(d, Outline(d)))
<1>1. TreeOf(d).levels = levels /\ TreeOf(d).paths = Paths(d, levels)
  BY DEF TreeOf, Hierarchy
<1>2. AreLevels(levels, Len(d))
  BY LevelsOfHierarchy DEF HasLevels
<1> HIDE DEF levels
<1>3. DOMAIN Paths(d, levels) = DOMAIN d /\ \A i \in DOMAIN d : IsOpenPath(levels, Paths(d, levels)[i], i)
  BY <1>2, PathsAreOpen
<1> QED BY <1>1, <1>2, <1>3

\* Along a path each heading has the one before as its parent.
LEMMA PathsFollowParents ==
  ASSUME NEW d, Len(d) \in Nat, DOMAIN d = 1..Len(d), HasLevels(d), NEW i \in 1..Len(d), NEW k \in DOMAIN TreeOf(d).paths[i]
  PROVE  /\ TreeOf(d).paths[i][k] \in DOMAIN TreeOf(d).levels
         /\ Parent(TreeOf(d).paths, TreeOf(d).paths[i][k]) = (IF k = 1 THEN None ELSE TreeOf(d).paths[i][k - 1])
<1> DEFINE levels == TreeOf(d).levels
           paths == TreeOf(d).paths
           h == paths[i][k]
<1>1. AreLevels(levels, Len(d)) /\ \A j \in 1..Len(d) : IsOpenPath(levels, paths[j], j)
  BY TreePaths
<1> HIDE DEF levels, paths
<1>2. h \in OpenAt(levels, i)
  BY <1>1 DEF IsOpenPath, ToSet, paths
<1>3. h \in DOMAIN levels /\ h \in 1..Len(d)
  BY <1>1, <1>2 DEF OpenAt, AreLevels
<1> DEFINE path == paths[i]
           own == paths[h]
<1>4. IsOpenPath(levels, path, i) /\ IsOpenPath(levels, own, path[k]) /\ k \in DOMAIN path
  BY <1>1, <1>3 DEF paths
<1> HIDE DEF path, own
<1>5. (IF Len(own) = 1 THEN None ELSE own[Len(own) - 1]) = (IF k = 1 THEN None ELSE path[k - 1])
  BY <1>1, <1>4, ParentsOnPath
<1> QED BY <1>3, <1>5 DEF Parent, levels, paths, path, own

\* The headings form a tree, and their mode is that of headings.
LEMMA TreeIsTree ==
  ASSUME NEW d, Len(d) \in Nat, DOMAIN d = 1..Len(d), HasLevels(d)
  PROVE  ContextIsTree(TreeOf(d)) /\ TreeOf(d).mode # "MIXED" /\ DOMAIN TreeOf(d).levels \subseteq 1..Len(d)
<1> DEFINE levels == TreeOf(d).levels
           paths == TreeOf(d).paths
<1>1. AreLevels(levels, Len(d)) /\ \A j \in 1..Len(d) : IsOpenPath(levels, paths[j], j)
  BY TreePaths
<1> HIDE DEF levels, paths
<1>2. ASSUME NEW i \in DOMAIN levels, Parent(paths, i) # None PROVE Parent(paths, i) \in DOMAIN levels /\ Parent(paths, i) < i
  <2>1. i \in 1..Len(d) /\ IsOpenPath(levels, paths[i], i)
    BY <1>1 DEF AreLevels
  <2> DEFINE own == paths[i]
  <2>2. own \in Seq(Nat) /\ ToSet(own) = OpenAt(levels, i)
    BY <2>1 DEF IsOpenPath
  <2>3. i \in OpenAt(levels, i)
    BY <1>1, <2>1 DEF OpenAt, AreLevels
  <2>4. PICK m \in DOMAIN own : own[m] = i
    BY <2>2, <2>3 DEF ToSet
  <2>5. Parent(paths, i) = own[Len(own) - 1] /\ Len(own) # 1
    BY <1>2 DEF Parent
  <2> HIDE DEF own
  <2>6. Len(own) - 1 \in DOMAIN own /\ Len(own) \in DOMAIN own /\ Len(own) - 1 < Len(own)
    <3>1. Len(own) \in Nat /\ DOMAIN own = 1..Len(own)
      BY <2>2
    <3>2. Len(own) # 0 /\ Len(own) # 1
      BY <2>4, <2>5, <3>1
    <3> QED BY <3>1, <3>2
  <2>7. own[Len(own) - 1] < own[Len(own)] /\ own[Len(own)] \in OpenAt(levels, i) /\ own[Len(own) - 1] \in OpenAt(levels, i)
    BY <2>1, <2>2, <2>6 DEF IsOpenPath, ToSet, own
  <2>8. own[Len(own)] <= i /\ own[Len(own) - 1] \in DOMAIN levels
    BY <2>7 DEF OpenAt
  <2>9. own[Len(own)] \in Int /\ own[Len(own) - 1] \in Int /\ i \in Int
    BY <2>1, <2>2, <2>6
  <2> QED BY <2>5, <2>7, <2>8, <2>9
<1>3. ContextIsTree(TreeOf(d))
  BY <1>2 DEF ContextIsTree, levels, paths
<1>4. \A l, p : Mode(l, p) # "MIXED"
  BY DEF Mode
<1>5. TreeOf(d).mode # "MIXED"
  BY <1>4 DEF TreeOf, Hierarchy
<1> QED BY <1>1, <1>3, <1>5 DEF AreLevels, levels

\* What the members of a unit share of their paths is a path.
LEMMA CommonPathIs ==
  ASSUME NEW paths, NEW members, NEW one, one = paths[Min(members)], one \in Seq(Nat), \A i \in members : paths[i] \in Seq(Nat)
  PROVE  \E m \in 0..Len(one) : CommonPath(paths, members) = [k \in 1..m |-> one[k]]
<1> DEFINE Shared(k) == \A i \in members : Len(paths[i]) >= k /\ SubSeq(paths[i], 1, k) = SubSeq(one, 1, k)
           all == {k \in 0..Len(one) : Shared(k)}
           n == Len(one)
<1>1. n \in Int /\ 0 \in Int /\ all \in SUBSET (0..n)
  OBVIOUS
<1>2. 0 \in all
  <2>1. \A s \in Seq(Nat) : Len(s) >= 0 /\ SubSeq(s, 1, 0) = <<>>
    OBVIOUS
  <2> QED BY <2>1
<1>3. CommonPath(paths, members) = SubSeq(one, 1, Max(all))
  BY DEF CommonPath
<1> HIDE DEF all, n
<1>4. Max(all) \in all
  BY <1>1, <1>2, ExtremeOfInterval
<1> DEFINE m == Max(all)
<1>5. m \in 0..n
  BY <1>1, <1>4
<1> HIDE DEF m
<1>6. SubSeq(one, 1, m) = [k \in 1..m |-> one[k]]
  BY <1>5 DEF n
<1> QED BY <1>3, <1>5, <1>6 DEF m, n

\* The path of a unit is one of the hierarchy.
LEMMA UnitPathsAreCanonical ==
  ASSUME NEW d, Len(d) \in Nat, DOMAIN d = 1..Len(d), HasLevels(d),
         NEW members \in SUBSET (1..Len(d)), Min(members) \in members, NEW D, D.hierarchy = TreeOf(d)
  PROVE  /\ IsCanonicalPath(D, CommonPath(TreeOf(d).paths, members))
         /\ ToSet(CommonPath(TreeOf(d).paths, members)) \subseteq DOMAIN TreeOf(d).levels
<1> DEFINE paths == TreeOf(d).paths
           levels == TreeOf(d).levels
           i == Min(members)
           one == paths[i]
           path == CommonPath(paths, members)
<1>1. i \in 1..Len(d) /\ i \in members
  OBVIOUS
<1>2. \A j \in 1..Len(d) : paths[j] \in Seq(Nat)
  BY TreePaths DEF IsOpenPath
<1> HIDE DEF i
<1>3. \A k \in DOMAIN one : one[k] \in DOMAIN levels /\ Parent(paths, one[k]) = (IF k = 1 THEN None ELSE one[k - 1])
  BY <1>1, PathsFollowParents
<1> HIDE DEF paths, levels
<1>4. one \in Seq(Nat) /\ \A j \in members : paths[j] \in Seq(Nat)
  BY <1>1, <1>2
<1>5. PICK m \in 0..Len(one) : path = [k \in 1..m |-> one[k]]
  <2> HIDE DEF path, one
  <2>1. one = paths[Min(members)]
    BY DEF one, i
  <2> QED BY <1>4, <2>1, CommonPathIs DEF path, one
<1> HIDE DEF one, path
<1>6. \A k \in DOMAIN path : k \in DOMAIN one /\ path[k] = one[k] /\ (k # 1 => k - 1 \in DOMAIN path /\ path[k - 1] = one[k - 1])
  <2>1. DOMAIN path = 1..m /\ DOMAIN one = 1..Len(one) /\ Len(one) \in Nat /\ m \in Nat /\ m <= Len(one)
    BY <1>4, <1>5
  <2> QED BY <1>5, <2>1
<1>7. \A k \in DOMAIN path : path[k] \in DOMAIN levels /\ Parent(paths, path[k]) = (IF k = 1 THEN None ELSE path[k - 1])
  BY <1>3, <1>6
<1>8. IsCanonicalPath(D, path)
  BY <1>7 DEF IsCanonicalPath, paths
<1>9. ToSet(path) \subseteq DOMAIN levels
  BY <1>7 DEF ToSet
<1> QED BY <1>8, <1>9 DEF path, paths, levels

-----------------------------------------------------------------------------
(* What is assembled of an orderly document is accepted.                   *)

\* The document that is assembled from d, with regions or without.
RegionsOf(d) == Segment(RoutingOf(d), TreeOf(d))

IsAssembledFrom(d, D) ==
  /\ D.elements = d /\ D.hierarchy = TreeOf(d) /\ D.subdocuments = {}
  /\ D.regions \in {{}, RegionsOf(d)} /\ (D.mode = "MIXED" => D.regions # {})
  /\ D.units = Integrated(UnitsOf(d), TreeOf(d).paths, D.regions)
  /\ D.relations = Relations(d, UnitsOf(d), {})

\* The ends of the relations are known, and none says what the path says.
LEMMA RelationsAreKnown ==
  ASSUME NEW d, Orderly(d), PlainlyRead(d), NEW regions, NEW tree, NEW r \in Relations(d, UnitsOf(d), {})
  PROVE  {r.source, r.target} \subseteq KnownEnds(d, UnitsOf(d), regions, tree, {}) /\ ~RedundantParent(r)
<1> DEFINE known == KnownEnds(d, UnitsOf(d), regions, tree, {})
<1>0. Len(d) \in Nat /\ DOMAIN d = 1..Len(d)
  BY DEF Orderly
<1>1. (\A i \in DOMAIN d : ElementEnd(i) \in known) /\ (\A u \in UnitsOf(d) : UnitEnd(u) \in known)
  BY DEF KnownEnds
<1>2. \A u \in UnitsOf(d) : u.members \subseteq DOMAIN d /\ Min(u.members) \in DOMAIN d /\ Max(u.members) \in DOMAIN d
  BY <1>0, UnitsOfWithin
<1> HIDE DEF known
<1> DEFINE Good(x) == /\ x.source \in known /\ x.target \in known
                      /\ x.type \in {"NEXT", "PART_OF", "FOOTNOTE_OF", "QUESTION_ANSWER", "CONTINUES"}
<1>3. \A type \in {"NEXT", "PART_OF", "FOOTNOTE_OF", "QUESTION_ANSWER", "CONTINUES"} :
        \A s, t \in known : Good(Relation(type, s, t))
  BY DEF Relation
<1> HIDE DEF Good
<1>4. ASSUME r \in Neighbours(d) PROVE Good(r)
  BY <1>0, <1>1, <1>3, <1>4 DEF Neighbours
<1>5. ASSUME r \in Memberships(UnitsOf(d)) PROVE Good(r)
  <2>1. PICK u \in UnitsOf(d) : r \in {Relation("PART_OF", ElementEnd(i), UnitEnd(u)) : i \in u.members}
    BY <1>5 DEF Memberships
  <2>2. PICK i \in u.members : r = Relation("PART_OF", ElementEnd(i), UnitEnd(u))
    BY <2>1
  <2>3. i \in DOMAIN d
    BY <1>2, <2>2
  <2>4. ElementEnd(i) \in known /\ UnitEnd(u) \in known
    BY <1>1, <2>3
  <2> QED BY <1>3, <2>2, <2>4
<1>6. ASSUME r \in Nestings(UnitsOf(d)) PROVE Good(r)
  <2>1. PICK u \in Children(UnitsOf(d)) : r \in {Relation("PART_OF", UnitEnd(u), UnitEnd(p)) : p \in NativeUnit(UnitsOf(d), u.parent)}
    BY <1>6 DEF Nestings
  <2>2. PICK p \in NativeUnit(UnitsOf(d), u.parent) : r = Relation("PART_OF", UnitEnd(u), UnitEnd(p))
    BY <2>1
  <2>3. u \in UnitsOf(d) /\ p \in UnitsOf(d)
    BY DEF Children, NativeUnit
  <2>4. UnitEnd(u) \in known /\ UnitEnd(p) \in known
    BY <1>1, <2>3
  <2> QED BY <1>3, <2>2, <2>4
<1>7. ASSUME r \in Notes(d) PROVE Good(r)
  <2>1. PICK i \in DOMAIN d : r \in UNION {{Relation("FOOTNOTE_OF", ElementEnd(note), ElementEnd(i)) : note \in Anchored(d, key)} :
                  key \in {k \in d[i].refs : k[1] \in NoteKinds}}
    BY <1>7 DEF Notes
  <2>2. PICK key \in d[i].refs : r \in {Relation("FOOTNOTE_OF", ElementEnd(note), ElementEnd(i)) : note \in Anchored(d, key)}
    BY <2>1
  <2>3. PICK note \in Anchored(d, key) : r = Relation("FOOTNOTE_OF", ElementEnd(note), ElementEnd(i))
    BY <2>2
  <2>4. note \in DOMAIN d
    BY <2>3 DEF Anchored
  <2>5. ElementEnd(note) \in known /\ ElementEnd(i) \in known
    BY <1>1, <2>4
  <2> QED BY <1>3, <2>3, <2>5
<1>8. ASSUME r \in QuestionAnswers(UnitsOf(d)) PROVE Good(r)
  <2>1. PICK u \in UnitsOf(d) : r = Relation("QUESTION_ANSWER", ElementEnd(Min(u.members)), ElementEnd(Max(u.members)))
    BY <1>8 DEF QuestionAnswers
  <2>2. Min(u.members) \in DOMAIN d /\ Max(u.members) \in DOMAIN d
    BY <1>2
  <2>3. ElementEnd(Min(u.members)) \in known /\ ElementEnd(Max(u.members)) \in known
    BY <1>1, <2>2
  <2> QED BY <1>3, <2>1, <2>3
<1>9. ASSUME r \in SubdocumentMemberships(UnitsOf(d), {}) PROVE Good(r)
  BY <1>9 DEF SubdocumentMemberships, Containing
<1>10. ASSUME r \in TableContinuations(d, UnitsOf(d)) PROVE Good(r)
  <2>1. Fragments(d, UnitsOf(d)) \subseteq UnitsOf(d)
    BY DEF Fragments
  <2>2. \E u, v \in Fragments(d, UnitsOf(d)) : r = Relation("CONTINUES", UnitEnd(u), UnitEnd(v))
    <3> DEFINE fragments == Fragments(d, UnitsOf(d))
               Page(u) == Evidence(d, u).page
               Pairs(p) == {pair \in {u \in fragments : Page(u) = p} \X {u \in fragments : Page(u) = p + 1} :
                              CompatibleTables(Evidence(d, pair[1]), Evidence(d, pair[2]))}
               accepted == {p \in {Page(u) : u \in fragments} : \E pair \in Pairs(p) : Pairs(p) = {pair}}
    <3>1. r \in UNION {{Relation("CONTINUES", UnitEnd(pair[1]), UnitEnd(pair[2])) : pair \in Pairs(p)} : p \in accepted}
      BY <1>10 DEF TableContinuations
    <3>2. PICK p \in accepted : r \in {Relation("CONTINUES", UnitEnd(pair[1]), UnitEnd(pair[2])) : pair \in Pairs(p)}
      BY <3>1
    <3>3. PICK pair \in Pairs(p) : r = Relation("CONTINUES", UnitEnd(pair[1]), UnitEnd(pair[2]))
      BY <3>2
    <3>4. pair[1] \in fragments /\ pair[2] \in fragments
      BY <3>3
    <3> QED BY <3>3, <3>4
  <2>3. PICK u, v \in UnitsOf(d) : r = Relation("CONTINUES", UnitEnd(u), UnitEnd(v))
    BY <2>1, <2>2
  <2>4. UnitEnd(u) \in known /\ UnitEnd(v) \in known
    BY <1>1
  <2> QED BY <1>3, <2>3, <2>4
<1>11. Good(r)
  BY <1>4, <1>5, <1>6, <1>7, <1>8, <1>9, <1>10 DEF Relations
<1> QED BY <1>11 DEF Good, RedundantParent, known

\* The units as they are stored are the units with what they stand in.
LEMMA StoredUnitsAre ==
  ASSUME NEW us, NEW paths, NEW regions
  PROVE  /\ {u.unit : u \in Integrated(us, paths, regions)} = us
         /\ \A s \in Integrated(us, paths, regions) :
              /\ s.unit \in us /\ s.path = CommonPath(paths, s.unit.members) /\ s.region = RegionOf(s.unit, regions)
         /\ \A s, t \in Integrated(us, paths, regions) : s.unit = t.unit => s = t
<1> DEFINE Stored(u) == [unit |-> u, path |-> CommonPath(paths, u.members), region |-> RegionOf(u, regions)]
<1>1. Integrated(us, paths, regions) = {Stored(u) : u \in us}
  BY DEF Integrated
<1>2. \A u : Stored(u).unit = u /\ Stored(u).path = CommonPath(paths, u.members) /\ Stored(u).region = RegionOf(u, regions)
  OBVIOUS
<1> HIDE DEF Stored
<1> QED BY <1>1, <1>2

\* Regions are apart, and of each unit all is in one.
LEMMA RegionsAre ==
  ASSUME NEW d, Orderly(d), PlainlyRead(d), Len(d) # 0, NEW regions \in {{}, RegionsOf(d)}
  PROVE  /\ \A r \in regions : r.members \subseteq 1..Len(d)
         /\ \A r, s \in regions : r # s => r.members \cap s.members = {}
         /\ \A u \in UnitsOf(d) : CrossesNone(u.members, {r.members : r \in regions})
<1>1. CASE regions = {}
  BY <1>1 DEF CrossesNone
<1>2. CASE regions = RegionsOf(d)
  <2>1. Routed(d, UnitsOf(d), regions) /\ \A r \in regions : r.members \subseteq 1..Len(d)
    BY <1>2, UnitsAreRouted DEF RegionsOf
  <2>2. /\ \A r, s \in regions : r # s => r.members \cap s.members = {}
        /\ \A u \in UnitsOf(d) : \E r \in regions : u.members \subseteq r.members
    BY <2>1 DEF Routed, CrossesNoRegion
  <2>3. ASSUME NEW u \in UnitsOf(d), NEW r \in regions, u.members \cap r.members # {} PROVE u.members \subseteq r.members
    <3>1. PICK s \in regions : u.members \subseteq s.members
      BY <2>2
    <3>2. r = s
      BY <2>2, <2>3, <3>1
    <3> QED BY <3>1, <3>2
  <2> QED BY <2>1, <2>2, <2>3 DEF CrossesNone
<1> QED BY <1>1, <1>2

\* The document that is assembled is valid.
LEMMA AssembledIsCanonical ==
  ASSUME NEW d, Orderly(d), PlainlyRead(d), HasLevels(d), Len(d) # 0, NEW D, IsAssembledFrom(d, D)
  PROVE  IsCanonical(D)
<1>0. Len(d) \in Nat /\ DOMAIN d = 1..Len(d)
  BY DEF Orderly
<1> DEFINE tree == TreeOf(d)
           regions == D.regions
<1>1. /\ D.elements = d /\ D.hierarchy = tree /\ D.subdocuments = {} /\ regions \in {{}, RegionsOf(d)}
      /\ (D.mode = "MIXED" => D.regions # {})
      /\ D.units = Integrated(UnitsOf(d), tree.paths, regions) /\ D.relations = Relations(d, UnitsOf(d), {})
  BY DEF IsAssembledFrom
<1> HIDE DEF tree, regions
<1>2. /\ \A r \in regions : r.members \subseteq 1..Len(d)
      /\ \A r, s \in regions : r # s => r.members \cap s.members = {}
  BY <1>1, RegionsAre
<1>3. {u.unit : u \in D.units} = UnitsOf(d)
  BY <1>1, StoredUnitsAre
<1>4. Disjoint({r.members : r \in D.regions}) /\ UNION {r.members : r \in D.regions} \subseteq DOMAIN D.elements
  BY <1>0, <1>1, <1>2 DEF Disjoint, regions
<1>5. ASSUME NEW u \in D.units
      PROVE  /\ u.unit.members \subseteq DOMAIN D.elements /\ ToSet(u.path) \subseteq DOMAIN D.hierarchy.levels
             /\ \A r \in u.region : u.unit.members \subseteq r.members
  <2>1. u.unit \in UnitsOf(d) /\ u.path = CommonPath(tree.paths, u.unit.members) /\ u.region = RegionOf(u.unit, regions)
    BY <1>1, StoredUnitsAre
  <2> DEFINE members == u.unit.members
  <2>2. members \in SUBSET (1..Len(d)) /\ Min(members) \in members
    BY <2>1, UnitsOfWithin
  <2> HIDE DEF members
  <2>3. ToSet(CommonPath(tree.paths, members)) \subseteq DOMAIN tree.levels
    <3>1. D.hierarchy = TreeOf(d)
      BY <1>1 DEF tree
    <3> QED BY <1>0, <2>2, <3>1, UnitPathsAreCanonical DEF tree
  <2>4. \A r \in u.region : u.unit.members \subseteq r.members
    BY <2>1 DEF RegionOf
  <2> QED BY <1>0, <1>1, <2>1, <2>2, <2>3, <2>4 DEF members
<1>6. Disjoint(D.subdocuments) /\ UNION D.subdocuments \subseteq DOMAIN D.elements
  BY <1>1 DEF Disjoint
<1>7. \A r \in D.relations :
        /\ {r.source, r.target} \subseteq KnownEnds(D.elements, {u.unit : u \in D.units}, D.regions, D.hierarchy, D.subdocuments)
        /\ ~RedundantParent(r)
  <2> TAKE r \in D.relations
  <2>1. r \in Relations(d, UnitsOf(d), {})
    BY <1>1
  <2>2. {r.source, r.target} \subseteq KnownEnds(d, UnitsOf(d), D.regions, D.hierarchy, {}) /\ ~RedundantParent(r)
    BY <2>1, RelationsAreKnown
  <2> QED BY <1>1, <1>3, <2>2
<1>8. ContextIsTree(D.hierarchy)
  BY <1>0, <1>1, TreeIsTree DEF tree
<1> QED BY <1>1, <1>4, <1>5, <1>6, <1>7, <1>8 DEF IsCanonical

\* What it is projected from is sound.
LEMMA AssembledIsProjectable ==
  ASSUME NEW d, Orderly(d), PlainlyRead(d), HasLevels(d), Len(d) # 0, NEW D, IsAssembledFrom(d, D)
  PROVE  Projectable(D)
<1>0. Len(d) \in Nat /\ DOMAIN d = 1..Len(d)
  BY DEF Orderly
<1> DEFINE tree == TreeOf(d)
           regions == D.regions
<1>1. /\ D.elements = d /\ D.hierarchy = tree /\ D.subdocuments = {} /\ regions \in {{}, RegionsOf(d)}
      /\ D.units = Integrated(UnitsOf(d), tree.paths, regions)
  BY DEF IsAssembledFrom
<1> HIDE DEF tree, regions
<1>2. /\ \A s \in D.units : s.unit \in UnitsOf(d) /\ s.path = CommonPath(tree.paths, s.unit.members)
      /\ \A s, t \in D.units : s.unit = t.unit => s = t
  BY <1>1, StoredUnitsAre
<1>3. \A s, t \in D.units : s # t => s.unit.members \cap t.unit.members = {}
  <2>1. \A u, v \in UnitsOf(d) : u # v => u.members \cap v.members = {}
    BY UnitsOfAreApart DEF Apart
  <2> QED BY <1>2, <2>1
<1>4. ASSUME NEW s \in D.units
      PROVE  /\ s.unit.members \subseteq ExcludedOf(D) \/ s.unit.members \cap ExcludedOf(D) = {}
             /\ CrossesNone(s.unit.members, D.subdocuments)
             /\ CrossesNone(s.unit.members, {r.members : r \in D.regions})
             /\ IsCanonicalPath(D, s.path)
  <2> DEFINE members == s.unit.members
  <2>1. members \in SUBSET (1..Len(d)) /\ Min(members) \in members
    BY <1>2, UnitsOfWithin
  <2>2. IsOnOneSide(d, members)
    BY <1>2, UnitsAreOfOne
  <2> HIDE DEF members
  <2>3. ExcludedOf(D) = {i \in 1..Len(d) : Marginal(d[i])}
    <3>1. \A i \in 1..Len(d) : Excluded(d[i]) <=> Marginal(d[i])
      BY <1>0 DEF Orderly, OrderlyElement, OrderlyTypes, TableTypes, Excluded, Marginal
    <3> QED BY <1>0, <1>1, <3>1 DEF ExcludedOf
  <2>4. members \subseteq ExcludedOf(D) \/ members \cap ExcludedOf(D) = {}
    BY <2>1, <2>2, <2>3 DEF IsOnOneSide
  <2>5. CrossesNone(members, D.subdocuments)
    BY <1>1 DEF CrossesNone
  <2>6. CrossesNone(members, {r.members : r \in D.regions})
    <3>1. \A u \in UnitsOf(d) : CrossesNone(u.members, {r.members : r \in regions})
      BY <1>1, RegionsAre
    <3> QED BY <1>2, <3>1 DEF members, regions
  <2>7. IsCanonicalPath(D, s.path)
    <3>1. D.hierarchy = TreeOf(d)
      BY <1>1 DEF tree
    <3>2. s.path = CommonPath(TreeOf(d).paths, members)
      BY <1>2 DEF tree, members
    <3> QED BY <1>0, <2>1, <3>1, <3>2, UnitPathsAreCanonical
  <2> QED BY <2>4, <2>5, <2>6, <2>7 DEF members
<1> QED BY <1>3, <1>4 DEF Projectable

\* A reading to which its caller adds nothing, of an orderly document.
AddsNothing == source.regions = {} /\ source.extra = {} /\ ~source.raise
IsOrderlyReading == AddsNothing /\ ReadsPlainly /\ Orderly(Normalised(raw))
IsUnderstood == stage # "refused" /\ result.error \in {None, "adapting"}

\* What the stages are given, and the regions that they find.
Partitioned ==
  /\ stage \in AfterNormalising \cup {"normalising"} => raw # <<>>
  /\ stage \in AfterNormalising => input.raise = source.raise
  /\ stage \in AfterRegions /\ source.regions = {} =>
       /\ result.regions \in {{}, Segment(Routing(doc, units), hierarchy)}
       /\ result.mode = "MIXED" => result.regions # {}

UInv == Partitioned /\ (IsOrderlyReading => IsUnderstood)

\* The normaliser leaves types alone, but for those it does not know.
LEMMA NormalTypes ==
  ASSUME AreElements(raw), NEW i \in 1..Len(raw), Normalised(raw)[i].type \in OrderlyTypes
  PROVE  /\ \A type \in OrderlyTypes \ {"UNKNOWN"} : raw[i].type = type <=> Normalised(raw)[i].type = type
         /\ Normalised(raw)[i].marks = raw[i].marks /\ Normalised(raw)[i].zone = raw[i].zone
         /\ Normalised(raw)[i].blank = raw[i].blank
<1>1. raw = [k \in 1..Len(raw) |-> raw[k]] /\ DOMAIN raw = 1..Len(raw)
  BY SequenceDomain DEF AreElements
<1>2. IsElement(raw[i])
  BY SequenceDomain DEF AreElements
<1>3. {"type", "marks", "zone", "blank"} \subseteq DOMAIN raw[i]
  BY <1>2 DEF IsElement, Plain
<1>4. Normalised(raw)[i] = [raw[i] EXCEPT !.type = Resolved(@)]
  BY <1>1 DEF Normalised
<1>5. /\ Normalised(raw)[i].type = Resolved(raw[i].type)
      /\ Normalised(raw)[i].marks = raw[i].marks /\ Normalised(raw)[i].zone = raw[i].zone
      /\ Normalised(raw)[i].blank = raw[i].blank
  BY <1>3, <1>4
<1>6. OrderlyTypes \subseteq ElementTypes
  BY DEF OrderlyTypes, ElementTypes, LexicalTypes, HeadingTypes, IntegritySensitive, TableTypes, ListTypes
<1>7. \A type \in OrderlyTypes \ {"UNKNOWN"} : raw[i].type = type <=> Normalised(raw)[i].type = type
  BY <1>5, <1>6 DEF Resolved
<1> QED BY <1>5, <1>7

\* What reads plainly does so when it is normalised.
LEMMA NormalisedReadsPlainly ==
  ASSUME AreElements(raw), ReadsPlainly, Orderly(Normalised(raw))
  PROVE  PlainlyRead(Normalised(raw))
<1> DEFINE d == Normalised(raw)
<1>1. DOMAIN d = 1..Len(raw) /\ DOMAIN raw = 1..Len(raw) /\ Len(d) = Len(raw) /\ Len(raw) \in Nat
  <2>1. DOMAIN raw = 1..Len(raw) /\ Len(raw) \in Nat
    BY SequenceDomain DEF AreElements
  <2>2. DOMAIN d = DOMAIN raw
    BY DEF Normalised
  <2>3. DOMAIN d = 1..Len(d) /\ Len(d) \in Nat
    BY DEF Orderly
  <2>4. Len(d) = Len(raw)
    BY <2>1, <2>2, <2>3
  <2> QED BY <2>1, <2>2, <2>4
<1>2. \A i \in 1..Len(raw) :
        /\ raw[i].type = "HEADING" <=> d[i].type = "HEADING"
        /\ raw[i].type = "LIST_ITEM" <=> d[i].type = "LIST_ITEM"
        /\ raw[i].type = "PARAGRAPH" <=> d[i].type = "PARAGRAPH"
        /\ d[i].marks = raw[i].marks /\ d[i].zone = raw[i].zone /\ d[i].blank = raw[i].blank
  <2> TAKE i \in 1..Len(raw)
  <2>1. d[i].type \in OrderlyTypes
    BY <1>1 DEF Orderly, OrderlyElement
  <2>2. {"HEADING", "LIST_ITEM", "PARAGRAPH"} \subseteq OrderlyTypes \ {"UNKNOWN"}
    BY DEF OrderlyTypes
  <2> QED BY <2>1, <2>2, NormalTypes
<1> HIDE DEF d
<1>3. \A i \in 1..Len(raw) : (IsBlankParagraph(raw[i]) <=> IsBlankParagraph(d[i])) /\ (Marginal(d[i]) <=> raw[i].zone \in {"header", "footer"})
  BY <1>2 DEF IsBlankParagraph, Marginal
<1>4. ASSUME NEW i \in 1..Len(raw)
      PROVE  /\ d[i].type = "HEADING" => "answer" \notin d[i].marks
             /\ i > 1 /\ Marginal(d[i]) => ~("question" \in d[i - 1].marks /\ "answer" \in d[i].marks)
  <2>1. i > 1 => i - 1 \in 1..Len(raw)
    BY <1>1
  <2> QED BY <1>1, <1>2, <1>3, <2>1 DEF ReadsPlainly
<1>5. ASSUME NEW i \in 1..Len(raw), NEW j \in (i + 2)..Len(raw), Marginal(d[i]), {d[i].type, d[j].type} = {"LIST_ITEM"}
      PROVE  \E k \in (i + 1)..(j - 1) : ~IsBlankParagraph(d[k])
  <2>1. j \in 1..Len(raw)
    BY <1>1
  <2>2. {raw[i].type, raw[j].type} = {"LIST_ITEM"} /\ raw[i].zone \in {"header", "footer"}
    BY <1>2, <1>3, <1>5, <2>1
  <2>3. \E k \in (i + 1)..(j - 1) : ~IsBlankParagraph(raw[k])
    BY <1>1, <1>5, <2>2 DEF ReadsPlainly
  <2>4. \A k \in (i + 1)..(j - 1) : k \in 1..Len(raw)
    BY <1>1
  <2> QED BY <1>3, <2>3, <2>4
<1> QED BY <1>1, <1>4, <1>5 DEF PlainlyRead, d

\* What the stages work on.
LEMMA OrderlyStages ==
  ASSUME AInv, AreElements(raw), UInv, IsOrderlyReading, stage \in AfterNormalising
  PROVE  /\ Orderly(doc) /\ PlainlyRead(doc) /\ HasLevels(doc) /\ Len(doc) # 0 /\ Len(doc) \in Nat /\ DOMAIN doc = 1..Len(doc)
         /\ input.regions = {} /\ input.extra = {} /\ ~input.raise
<1>1. doc = Normalised(raw) /\ DOMAIN doc = 1..Len(raw) /\ Len(raw) \in Nat /\ Len(doc) = Len(raw)
  BY StagesReadElements
<1>2. \A i \in 1..Len(raw) : {doc[i].level, doc[i].marker} \subseteq Nat
  BY StagesReadElements
<1>3. Orderly(doc) /\ PlainlyRead(doc)
  BY <1>1, NormalisedReadsPlainly DEF IsOrderlyReading
<1>4. HasLevels(doc)
  BY <1>1, <1>2 DEF HasLevels
<1>5. Len(doc) # 0
  <2>1. raw # <<>> /\ raw = [k \in 1..Len(raw) |-> raw[k]]
    BY SequenceDomain DEF UInv, Partitioned, AreElements
  <2> QED BY <1>1, <2>1
<1>6. input.regions = {} /\ input.extra = {} /\ ~input.raise
  BY DEF AInv, IInv, Found, Normal, IsOrderlyReading, AddsNothing, UInv, Partitioned
<1> QED BY <1>1, <1>3, <1>4, <1>5, <1>6

\* What the stages have found, once the units are consolidated.
LEMMA OrderlyFindings ==
  ASSUME AInv, AreElements(raw), UInv, IsOrderlyReading, stage \in AfterIntegrity
  PROVE  /\ b = Boundaries(doc) /\ units = UnitsOf(doc) /\ result.subdocuments = {}
         /\ stage \in AfterHierarchy => hierarchy = TreeOf(doc)
         /\ stage \in AfterRegions => /\ result.regions \in {{}, RegionsOf(doc)}
                                      /\ result.mode = "MIXED" => result.regions # {}
         /\ stage \in AfterRelations => IsAssembledFrom(doc, Assembled)
<1>1. stage \in AfterNormalising /\ stage \in AfterSignals /\ stage \in AfterScoring /\ stage \in AfterGrouping
  BY DEF AfterNormalising, AfterSignals, AfterScoring, AfterGrouping
<1>2. Orderly(doc) /\ PlainlyRead(doc) /\ input.regions = {} /\ input.extra = {}
  BY <1>1, OrderlyStages
<1>3. b = Boundaries(doc) /\ units = UnitsOf(doc)
  BY <1>1 DEF AInv, IInv, Found, Grouped, UnitsOf
<1>4. result.subdocuments = {}
  BY <1>1, <1>2, NoSubdocuments DEF AInv, IInv, Found
<1>5. ASSUME stage \in AfterHierarchy PROVE hierarchy = TreeOf(doc)
  BY <1>1, <1>5 DEF AInv, IInv, Found, TreeOf
<1>6. ASSUME stage \in AfterRegions PROVE result.regions \in {{}, RegionsOf(doc)} /\ (result.mode = "MIXED" => result.regions # {})
  <2>1. stage \in AfterHierarchy
    BY <1>6 DEF AfterHierarchy
  <2> QED BY <1>3, <1>5, <1>6, <2>1 DEF UInv, Partitioned, RegionsOf, RoutingOf, IsOrderlyReading, AddsNothing
<1>7. ASSUME stage \in AfterRelations PROVE IsAssembledFrom(doc, Assembled)
  <2>1. stage \in AfterIntegration /\ stage \in AfterRegions /\ stage \in AfterHierarchy
    BY <1>7 DEF AfterIntegration, AfterRegions, AfterHierarchy
  <2>2. result.stored = Integrated(units, hierarchy.paths, result.regions) /\ result.relations = Relations(doc, units, result.subdocuments)
    BY <1>7, <2>1 DEF AInv, IInv, Found
  <2>3. /\ Assembled.elements = doc /\ Assembled.units = result.stored /\ Assembled.hierarchy = hierarchy
        /\ Assembled.regions = result.regions /\ Assembled.mode = result.mode
        /\ Assembled.relations = result.relations \cup input.extra /\ Assembled.subdocuments = result.subdocuments
    BY DEF Assembled
  <2>4. Assembled.relations = Relations(doc, UnitsOf(doc), {})
    BY <1>2, <1>3, <1>4, <2>2, <2>3
  <2> QED BY <1>3, <1>4, <1>5, <1>6, <2>1, <2>2, <2>3, <2>4 DEF IsAssembledFrom
<1> QED BY <1>3, <1>4, <1>5, <1>6, <1>7

\* No stage refuses an orderly document.
LEMMA OrderlyIsAccepted ==
  ASSUME AInv, AreElements(raw), UInv, IsOrderlyReading, stage \in AfterNormalising
  PROVE  Accepts
<1>1. /\ Orderly(doc) /\ PlainlyRead(doc) /\ HasLevels(doc) /\ Len(doc) # 0 /\ Len(doc) \in Nat
      /\ DOMAIN doc = 1..Len(doc)
      /\ input.regions = {} /\ input.extra = {}
  BY OrderlyStages
<1>2. CASE stage = "profiling"
  <2>1. doc # <<>>
    BY <1>1
  <2> QED BY <1>2, <2>1 DEF Accepts
<1>3. CASE stage = "integrity"
  <2>1. stage \in AfterScoring
    BY <1>3 DEF AfterScoring, AfterGrouping
  <2>2. b = Boundaries(doc) /\ units = Group(doc, Boundaries(doc))
    BY <1>3, <2>1 DEF AInv, IInv, Found, Grouped
  <2>3. Consolidable
    BY <1>1, <2>2, GroupsAreSound, NoUnitIsCrossed DEF Consolidable
  <2> QED BY <1>3, <2>3 DEF Accepts
<1>4. CASE stage = "hierarchy"
  <2>1. stage \in AfterIntegrity /\ stage \in AfterSignals
    BY <1>4 DEF AfterIntegrity, AfterSignals, AfterScoring, AfterGrouping
  <2>2. b = Boundaries(doc) /\ result.outline = Outline(doc)
    BY <2>1, OrderlyFindings DEF AInv, IInv, Found
  <2>3. StartsWell
    BY <1>1, <2>2, StartsAreWell DEF StartsWell
  <2> QED BY <1>4, <2>3 DEF Accepts
<1>5. CASE stage = "regions"
  <2>1. stage \in AfterIntegrity /\ stage \in AfterHierarchy
    BY <1>5 DEF AfterIntegrity, AfterHierarchy
  <2>2. units = UnitsOf(doc) /\ hierarchy = TreeOf(doc)
    BY <2>1, OrderlyFindings
  <2>3. Routable(doc, units)
    BY <1>1, <2>2, RoutableIs
  <2>4. Routed(doc, units, Segment(Routing(doc, units), hierarchy))
    BY <1>1, <2>2, UnitsAreRouted DEF RoutingOf
  <2>5. Regionable
    <3>1. CASE input.auto
      <4>1. FoundRegions = Segment(Routing(doc, units), hierarchy)
        BY <1>1, <3>1 DEF FoundRegions
      <4> QED BY <1>1, <2>3, <2>4, <3>1, <4>1 DEF Regionable
    <3>2. CASE ~input.auto
      BY <1>1, <3>2 DEF Regionable
    <3> QED BY <3>1, <3>2
  <2> QED BY <1>5, <2>5 DEF Accepts
<1>6. CASE stage = "relations"
  <2>1. stage \in AfterIntegrity
    BY <1>6 DEF AfterIntegrity, AfterHierarchy, AfterRegions, AfterIntegration
  <2>2. Relatable(doc, units, result.subdocuments)
    BY <1>1, <2>1, OrderlyFindings, OrderlyIsRelatable
  <2> QED BY <1>6, <2>2 DEF Accepts
<1>7. CASE stage = "assembly"
  <2>1. stage \in AfterIntegrity /\ stage \in AfterRelations
    BY <1>7 DEF AfterIntegrity, AfterHierarchy, AfterRegions, AfterIntegration, AfterRelations
  <2>2. IsCanonical(Assembled)
    BY <1>1, <2>1, OrderlyFindings, AssembledIsCanonical
  <2>3. Addable(input.extra, result.relations, KnownEnds(doc, units, result.regions, hierarchy, result.subdocuments))
    BY <1>1 DEF Addable
  <2> QED BY <1>7, <2>2, <2>3 DEF Accepts, Assemblable
<1>8. CASE stage \notin {"profiling", "integrity", "hierarchy", "regions", "relations", "assembly"}
  BY <1>8 DEF Accepts
<1> QED BY <1>2, <1>3, <1>4, <1>5, <1>6, <1>7, <1>8

\* The builder of retrieval units does not refuse it either.
LEMMA OrderlyIsProjectable ==
  ASSUME AInv, AreElements(raw), UInv, IsOrderlyReading, stage \in AfterAssembly
  PROVE  Projectable(result.document)
<1>1. stage \in AfterIntegrity /\ stage \in AfterRelations /\ stage \in AfterNormalising
  BY DEF AfterNormalising, AfterSignals, AfterScoring, AfterGrouping, AfterIntegrity, AfterHierarchy, AfterRegions, AfterIntegration, AfterRelations
<1>2. /\ Orderly(doc) /\ PlainlyRead(doc) /\ HasLevels(doc) /\ Len(doc) # 0
  BY <1>1, OrderlyStages
<1>3. IsAssembledFrom(doc, Assembled)
  BY <1>1, OrderlyFindings
<1> DEFINE D == result.document
<1>4. [D EXCEPT !.annotations = <<>>, !.manifest = None] = Assembled
  BY DEF AInv, IInv, Kept, KeepsStructure
<1> HIDE DEF D
<1>5. /\ D.elements = Assembled.elements /\ D.hierarchy = Assembled.hierarchy /\ D.subdocuments = Assembled.subdocuments
      /\ D.regions = Assembled.regions /\ D.mode = Assembled.mode /\ D.units = Assembled.units /\ D.relations = Assembled.relations
  <2>1. {"elements", "hierarchy", "subdocuments", "regions", "mode", "units", "relations"} \subseteq DOMAIN Assembled
    BY DEF Assembled
  <2> QED BY <1>4, <2>1
<1>6. IsAssembledFrom(doc, D)
  BY <1>3, <1>5 DEF IsAssembledFrom
<1> QED BY <1>2, <1>6, AssembledIsProjectable DEF D

\* A step that keeps what the stages have found, and the source.
LEMMA FoundStays ==
  ASSUME UInv, UNCHANGED <<source, raw, input>>, stage' # "refused", stage' # "normalising",
         stage' \in AfterNormalising => stage \in AfterNormalising,
         stage' \in AfterRegions => stage \in AfterRegions,
         \A field \in {"regions", "mode", "error"} : result'[field] = result[field],
         stage' \in AfterRegions => result'.units = result.units /\ result'.hierarchy = result.hierarchy
  PROVE  UInv'
<1>1. Partitioned'
  BY DEF UInv, Partitioned, doc, units, hierarchy
<1>2. IsOrderlyReading' => IsOrderlyReading
  BY DEF IsOrderlyReading, AddsNothing, ReadsPlainly
<1>3. IsUnderstood => IsUnderstood'
  BY DEF IsUnderstood
<1> QED BY <1>1, <1>2, <1>3 DEF UInv

\* A step of a stage.
LEMMA StageStaysUnderstood ==
  ASSUME AInv, UInv, UNCHANGED <<source, raw, projection>>,
         \/ ProfileContent \/ ExtractSignals \/ ScoreBoundaries \/ BuildGroups \/ ConsolidateIntegrity
         \/ BuildHierarchy \/ IntegrateContext \/ BuildRelations \/ EstimateQuality
         \/ AssembleDocument \/ ReportCompletion \/ Annotate
  PROVE  UInv'
<1> USE DEF AfterNormalising, AfterSignals, AfterScoring, AfterGrouping, AfterIntegrity,
            AfterHierarchy, AfterRegions, AfterIntegration, AfterRelations, AfterAssembly, At, Advance
<1>0. DOMAIN result = {"profile", "outline", "boundaries", "units", "subdocuments", "hierarchy", "regions", "mode", "stored",
                       "relations", "warnings", "structural", "document", "semantic", "report", "error"}
  BY DEF AInv, IInv, Found, Nothing
<1>1. UNCHANGED <<source, raw, input>>
  BY DEF ProfileContent, ExtractSignals, ScoreBoundaries, BuildGroups, ConsolidateIntegrity, BuildHierarchy, IntegrateContext,
         BuildRelations, EstimateQuality, AssembleDocument, ReportCompletion, Annotate
<1>2. /\ stage' # "refused" /\ stage' # "normalising" /\ stage \in AfterNormalising /\ (stage' \in AfterRegions => stage \in AfterRegions)
  BY DEF ProfileContent, ExtractSignals, ScoreBoundaries, BuildGroups, ConsolidateIntegrity, BuildHierarchy, IntegrateContext,
         BuildRelations, EstimateQuality, AssembleDocument, ReportCompletion, Annotate
<1>3. result'.regions = result.regions /\ result'.mode = result.mode /\ result'.error = result.error
  BY <1>0 DEF ProfileContent, ExtractSignals, ScoreBoundaries, BuildGroups, ConsolidateIntegrity, BuildHierarchy, IntegrateContext,
         BuildRelations, EstimateQuality, AssembleDocument, ReportCompletion, Annotate
<1>4. stage' \in AfterRegions => result'.units = result.units /\ result'.hierarchy = result.hierarchy
  BY <1>0 DEF ProfileContent, ExtractSignals, ScoreBoundaries, BuildGroups, ConsolidateIntegrity, BuildHierarchy, IntegrateContext,
         BuildRelations, EstimateQuality, AssembleDocument, ReportCompletion, Annotate
<1> QED BY <1>1, <1>2, <1>3, <1>4, FoundStays

\* The regions that are found are those of the document, and make it mixed only if there are any.
LEMMA RegionsStayUnderstood ==
  ASSUME AInv, UInv, UNCHANGED <<source, raw, projection>>, FindRegions
  PROVE  UInv'
<1>1. /\ stage = "regions" /\ stage' = "integration" /\ result' = [result EXCEPT !.regions = FoundRegions, !.mode = FoundMode]
      /\ UNCHANGED <<source, raw, input>>
  BY DEF FindRegions, At, Advance
<1>2. DOMAIN result = {"profile", "outline", "boundaries", "units", "subdocuments", "hierarchy", "regions", "mode", "stored",
                       "relations", "warnings", "structural", "document", "semantic", "report", "error"}
  BY DEF AInv, IInv, Found, Nothing
<1>3. /\ result'.regions = FoundRegions /\ result'.mode = FoundMode /\ result'.units = result.units
      /\ result'.hierarchy = result.hierarchy /\ result'.error = result.error
  BY <1>1, <1>2
<1>4. stage \in AfterNormalising /\ stage \in AfterHierarchy
  BY <1>1 DEF AfterNormalising, AfterSignals, AfterScoring, AfterGrouping, AfterIntegrity, AfterHierarchy
<1>5. input.regions = source.regions /\ hierarchy = Hierarchy(doc, result.outline)
  BY <1>4 DEF AInv, IInv, Found, Normal
<1>6. ASSUME source.regions = {}
      PROVE  FoundRegions \in {{}, Segment(Routing(doc, units), hierarchy)} /\ (FoundMode = "MIXED" => FoundRegions # {})
  <2>1. CASE input.auto
    <3>1. FoundRegions = Segment(Routing(doc, units), hierarchy)
      BY <1>5, <1>6, <2>1 DEF FoundRegions
    <3>2. 1 \in RegionStarts(Routing(doc, units))
      BY DEF RegionStarts
    <3>3. Segment(Routing(doc, units), hierarchy) # {}
      BY <3>2, SegmentsAre
    <3> QED BY <3>1, <3>3
  <2>2. CASE ~input.auto
    <3>1. FoundRegions = {} /\ FoundMode = hierarchy.mode
      BY <1>5, <1>6, <2>2 DEF FoundRegions, FoundMode
    <3>2. \A l, p : Mode(l, p) # "MIXED"
      BY DEF Mode
    <3>3. hierarchy.mode # "MIXED"
      BY <1>5, <3>2 DEF Hierarchy
    <3> QED BY <3>1, <3>3
  <2> QED BY <2>1, <2>2
<1>7. Partitioned'
  <2>1. stage' \in AfterNormalising /\ stage' # "normalising" /\ raw' # <<>> /\ input'.raise = source'.raise
    <3>1. stage' \in AfterNormalising
      BY <1>1 DEF AfterNormalising, AfterSignals, AfterScoring, AfterGrouping, AfterIntegrity, AfterHierarchy, AfterRegions
    <3> QED BY <1>1, <1>4, <3>1 DEF UInv, Partitioned
  <2>2. source'.regions = {} => /\ result'.regions \in {{}, Segment(Routing(doc', units'), hierarchy')}
                                /\ result'.mode = "MIXED" => result'.regions # {}
    <3>1. doc' = doc /\ units' = units /\ hierarchy' = hierarchy
      BY <1>1, <1>3 DEF doc, units, hierarchy
    <3> QED BY <1>1, <1>3, <1>6, <3>1
  <2> QED BY <2>1, <2>2 DEF Partitioned
<1>8. IsOrderlyReading' => IsOrderlyReading
  BY <1>1 DEF IsOrderlyReading, AddsNothing, ReadsPlainly
<1>9. IsUnderstood => IsUnderstood'
  BY <1>1, <1>3 DEF IsUnderstood
<1> QED BY <1>7, <1>8, <1>9 DEF UInv

\* What fails is no orderly reading.
LEMMA FailuresAreDisorderly ==
  ASSUME AInv, AreElements(raw), UInv, UNCHANGED <<source, raw, projection>>, StageFails \/ AnnotateFails
  PROVE  UInv'
<1>1. IsOrderlyReading' => IsOrderlyReading
  BY DEF IsOrderlyReading, AddsNothing, ReadsPlainly
<1>2. CASE StageFails
  <2>1. ~Accepts /\ stage' = "failed" /\ UNCHANGED input /\ stage \in {"profiling", "integrity", "hierarchy", "regions", "relations", "assembly"}
    BY <1>2 DEF StageFails, Advance, Accepts
  <2>2. stage \in AfterNormalising
    BY <2>1 DEF AfterNormalising, AfterSignals, AfterScoring, AfterGrouping, AfterIntegrity, AfterHierarchy, AfterRegions, AfterIntegration, AfterRelations
  <2>3. ~IsOrderlyReading
    BY <2>1, <2>2, OrderlyIsAccepted
  <2>4. Partitioned'
    BY <2>1, StageSets DEF Partitioned, AfterNormalising, AfterSignals, AfterScoring, AfterGrouping, AfterIntegrity, AfterHierarchy
  <2> QED BY <1>1, <2>3, <2>4 DEF UInv
<1>3. CASE AnnotateFails /\ input.raise
  <2>1. stage = "semantics" /\ stage' = "failed"
    BY <1>3 DEF AnnotateFails, At, Advance
  <2>2. stage \in AfterNormalising
    BY <2>1 DEF AfterNormalising, AfterSignals, AfterScoring, AfterGrouping, AfterIntegrity, AfterHierarchy, AfterRegions, AfterIntegration, AfterRelations, AfterAssembly
  <2>3. ~IsOrderlyReading
    BY <1>3, <2>2, OrderlyStages
  <2>4. Partitioned'
    BY <2>1, StageSets DEF Partitioned, AfterNormalising, AfterSignals, AfterScoring, AfterGrouping, AfterIntegrity, AfterHierarchy
  <2> QED BY <1>1, <2>3, <2>4 DEF UInv
<1>4. CASE AnnotateFails /\ ~input.raise
  <2>1. stage = "semantics" /\ stage' = "completion" /\ result' = [result EXCEPT !.semantic = "FAILED_OPTIONAL"] /\ UNCHANGED input
    BY <1>4 DEF AnnotateFails, At, Advance
  <2>2. /\ result'.regions = result.regions /\ result'.mode = result.mode /\ result'.error = result.error
        /\ result'.units = result.units /\ result'.hierarchy = result.hierarchy
    BY <2>1
  <2>3. stage \in AfterNormalising /\ stage \in AfterRegions
    BY <2>1 DEF AfterNormalising, AfterSignals, AfterScoring, AfterGrouping, AfterIntegrity, AfterHierarchy, AfterRegions, AfterIntegration, AfterRelations, AfterAssembly
  <2> QED BY <2>1, <2>2, <2>3, FoundStays
<1> QED BY <1>2, <1>3, <1>4

\* What comes before the stages, and after them.
LEMMA RestStaysUnderstood ==
  ASSUME AInv, AreElements(raw), UInv,
         \/ Adapt \/ AdapterFails \/ Normalise \/ AuditPreservation \/ Reannotate \/ ProjectUnits \/ ProjectionFails
         \/ EnrichUnits \/ EnrichmentFails \/ Settled \/ UNCHANGED readingVars
  PROVE  UInv'
<1> USE DEF AfterNormalising, AfterSignals, AfterScoring, AfterGrouping, AfterIntegrity,
            AfterHierarchy, AfterRegions, AfterIntegration, AfterRelations, AfterAssembly
<1>1. CASE Adapt
  <2>1. stage' = "normalising" /\ raw' # <<>> /\ result' = Nothing
    BY <1>1 DEF Adapt, Extracted, AInv, IInv, Given
  <2> QED BY <2>1 DEF UInv, Partitioned, IsUnderstood, Nothing
<1>2. CASE AdapterFails
  <2>1. stage' = "failed" /\ result' = [Nothing EXCEPT !.error = "adapting"]
    BY <1>2 DEF AdapterFails
  <2> QED BY <2>1 DEF UInv, Partitioned, IsUnderstood, Nothing
<1>3. CASE Normalise
  <2>1. stage' = "profiling" /\ raw' = raw /\ raw # <<>> /\ result' = Nothing /\ input'.raise = source.raise /\ source' = source
    BY <1>3 DEF Normalise, UInv, Partitioned, AInv, IInv, Given
  <2> QED BY <2>1 DEF UInv, Partitioned, IsUnderstood, Nothing
<1>4. CASE AuditPreservation \/ Reannotate \/ ProjectUnits \/ EnrichUnits \/ EnrichmentFails
  <2>1. /\ UNCHANGED <<source, raw, input>> /\ stage \in AfterAssembly /\ stage' \in AfterAssembly /\ stage' # "refused"
        /\ result' = result \/ \E d : result' = [result EXCEPT !.document = d]
    <3>1. CASE Reannotate
      BY <3>1 DEF Reannotate
    <3>2. CASE AuditPreservation \/ ProjectUnits \/ EnrichUnits \/ EnrichmentFails
      BY <3>2 DEF AuditPreservation, ToProject, ProjectUnits, EnrichUnits, EnrichmentFails
    <3> QED BY <1>4, <3>1, <3>2
  <2>2. /\ result'.regions = result.regions /\ result'.mode = result.mode /\ result'.error = result.error
        /\ result'.units = result.units /\ result'.hierarchy = result.hierarchy
    <3>1. {"regions", "mode", "error", "units", "hierarchy"} \subseteq DOMAIN result
      BY DEF AInv, IInv, Found, Nothing
    <3> QED BY <2>1, <3>1
  <2> QED BY <2>1, <2>2, FoundStays
<1>5. CASE ProjectionFails
  <2>1. UNCHANGED <<source, raw, input, result>> /\ stage \in AfterAssembly /\ stage' = "refused" /\ ~Projectable(result.document)
    BY <1>5 DEF ProjectionFails, ToProject
  <2>2. ~IsOrderlyReading
    BY <2>1, OrderlyIsProjectable
  <2>3. IsOrderlyReading' => IsOrderlyReading
    BY <2>1 DEF IsOrderlyReading, AddsNothing, ReadsPlainly
  <2>4. Partitioned'
    BY <2>1 DEF UInv, Partitioned, doc, units, hierarchy
  <2> QED BY <2>2, <2>3, <2>4 DEF UInv
<1>6. CASE Settled \/ UNCHANGED readingVars
  <2>1. UNCHANGED <<source, raw, projection, input, stage, result>>
    BY <1>6 DEF Settled, readingVars
  <2>2. Partitioned'
    BY <2>1 DEF UInv, Partitioned, doc, units, hierarchy
  <2>3. (IsOrderlyReading' => IsOrderlyReading) /\ (IsUnderstood => IsUnderstood')
    BY <2>1 DEF IsOrderlyReading, AddsNothing, ReadsPlainly, IsUnderstood
  <2> QED BY <2>2, <2>3 DEF UInv
<1> QED BY <1>1, <1>2, <1>3, <1>4, <1>5, <1>6

\* An orderly document, to which its caller adds nothing, is understood and
\* projected to the end, whatever its elements are.
THEOREM OrderlyIsAlwaysUnderstood == Spec => [](IsOrderlyReading => IsUnderstood)
<1>1. Init => UInv
  BY DEF Init, UInv, Partitioned, IsUnderstood, Nothing, AfterNormalising, AfterSignals, AfterScoring, AfterGrouping, AfterIntegrity,
         AfterHierarchy, AfterRegions, AfterIntegration, AfterRelations, AfterAssembly
<1>2. AInv /\ AreElements(raw) /\ UInv /\ [Next]_readingVars => UInv'
  <2> SUFFICES ASSUME AInv, AreElements(raw), UInv, [Next]_readingVars PROVE UInv'
    OBVIOUS
  <2>1. CASE Understand
    BY <2>1, StageStaysUnderstood, RegionsStayUnderstood, FailuresAreDisorderly DEF Understand, UnderstandElements
  <2>2. CASE ~Understand
    BY <2>2, RestStaysUnderstood DEF Next
  <2> QED BY <2>1, <2>2
<1>3. UInv => (IsOrderlyReading => IsUnderstood)
  BY DEF UInv
<1> QED BY <1>1, <1>2, <1>3, Invariance, ElementsAlways, PTL DEF Spec

-----------------------------------------------------------------------------
(* Plain text and Markdown are orderly.                                    *)

\* A document of text in the body, its lists apart, is orderly.
IsFlat(e) ==
  /\ e.type \in OrderlyTypes \ (TableTypes \cup {"FOOTNOTE"}) /\ e.source = "EXPLICIT" /\ e.evidence = None
  /\ e.zone = "body" /\ e.parent = None /\ e.anchor = None /\ e.refs = {}
  /\ IF e.type = "LIST_ITEM" THEN IsListGroup(e.group) ELSE e.group = None

ListsAreWhole(d) ==
  \A i, k \in DOMAIN d : d[i].type = "LIST_ITEM" /\ d[i].group = d[k].group => \A j \in i..k : d[j].group = d[i].group

\* Elements of the body without tables are an orderly document if no list is interrupted.
LEMMA FlatIsOrderly ==
  ASSUME NEW d, Len(d) \in Nat, DOMAIN d = 1..Len(d), \A i \in DOMAIN d : IsFlat(d[i]), ListsAreWhole(d)
  PROVE  Orderly(d)
<1>1. \A i \in DOMAIN d : OrderlyElement(d[i])
  BY DEF IsFlat, OrderlyElement
<1>2. \A i \in DOMAIN d : d[i].parent = None /\ d[i].anchor = None /\ d[i].type \notin TableTypes /\ ~Marginal(d[i])
  BY DEF IsFlat, Marginal
<1>3. IsInner(d, {})
  BY <1>2 DEF IsInner
<1>4. \A i \in DOMAIN d \ {1} : i - 1 \in DOMAIN d
  OBVIOUS
<1>5. \E inner : IsInner(d, inner)
  BY <1>3
<1>6. \A i \in DOMAIN d \ {1} : Marginal(d[i - 1]) # Marginal(d[i]) => d[i].type = "SEPARATOR" /\ ~d[i].sectionBreak
  BY <1>2, <1>4 DEF Marginal
<1>7. /\ \A i, j \in DOMAIN d : d[i].group # None /\ d[i].group = d[j].group => d[i].parent = d[j].parent
      /\ \A i \in DOMAIN d : d[i].parent # None => \E j \in DOMAIN d : d[j].group = d[i].parent
      /\ \A i, j \in DOMAIN d : i # j /\ d[i].anchor # None => d[i].anchor # d[j].anchor
  BY <1>2
<1> HIDE DEF IsInner
<1> QED BY <1>1, <1>5, <1>6, <1>7 DEF Orderly, ListsAreWhole

\* The normaliser leaves elements of the types it knows as they are.
LEMMA NormalisedIsSame ==
  ASSUME NEW observed, AreElements(observed), \A i \in 1..Len(observed) : observed[i].type \in OrderlyTypes
  PROVE  Normalised(observed) = observed
<1>1. observed = [i \in 1..Len(observed) |-> observed[i]] /\ DOMAIN observed = 1..Len(observed)
  BY SequenceDomain DEF AreElements
<1>2. ASSUME NEW i \in 1..Len(observed) PROVE [observed[i] EXCEPT !.type = Resolved(@)] = observed[i]
  <2>1. IsElement(observed[i])
    BY SequenceDomain DEF AreElements
  <2>2. Resolved(observed[i].type) = observed[i].type
    BY DEF Resolved, OrderlyTypes, ElementTypes, LexicalTypes, HeadingTypes, IntegritySensitive, TableTypes, ListTypes
  <2>3. observed[i] = [f \in DOMAIN Plain |-> observed[i][f]]
    BY <2>1 DEF IsElement
  <2> QED BY <2>2, <2>3
<1>3. Normalised(observed) = [i \in 1..Len(observed) |-> [observed[i] EXCEPT !.type = Resolved(@)]]
  BY <1>1 DEF Normalised
<1> HIDE DEF Normalised
<1> QED BY <1>1, <1>2, <1>3

\* The fields of an element of the body.
LEMMA BodyFields ==
  /\ BodyElement.zone = "body" /\ BodyElement.type = "PARAGRAPH" /\ BodyElement.source = "EXPLICIT"
  /\ BodyElement.parent = None /\ BodyElement.anchor = None /\ BodyElement.group = None
  /\ BodyElement.evidence = None /\ BodyElement.refs = {}
  /\ DOMAIN BodyElement = DOMAIN Plain
  /\ {"zone", "type", "source", "parent", "anchor", "group", "evidence", "refs", "marks", "marker", "blank", "level"} \subseteq DOMAIN Plain
BY DEF BodyElement, Plain

\* Paragraphs and what separates them are elements of the body without a group.
LEMMA FlatBody ==
  /\ \A lines, first, last : IsFlat(InText(lines, first, last))
  /\ \A blank : IsFlat(Separator(blank))
  /\ IsFlat(BodyElement)
<1>1. {"PARAGRAPH", "SEPARATOR"} \subseteq OrderlyTypes \ (TableTypes \cup {"FOOTNOTE", "LIST_ITEM"})
  BY DEF OrderlyTypes, TableTypes
<1>2. ASSUME NEW e, e.type \in {"PARAGRAPH", "SEPARATOR"},
             e.source = "EXPLICIT", e.evidence = None, e.zone = "body", e.parent = None, e.anchor = None, e.refs = {}, e.group = None
      PROVE  IsFlat(e)
  BY <1>1, <1>2 DEF IsFlat
<1>3. IsFlat(BodyElement)
  BY <1>2, BodyFields
<1>4. ASSUME NEW lines, NEW first, NEW last PROVE IsFlat(InText(lines, first, last))
  <2> DEFINE e == InText(lines, first, last)
  <2>1. /\ e.zone = "body" /\ e.type = "PARAGRAPH" /\ e.source = "EXPLICIT" /\ e.parent = None /\ e.anchor = None
        /\ e.group = None /\ e.evidence = None /\ e.refs = {}
    BY BodyFields DEF InText
  <2> HIDE DEF e
  <2> QED BY <1>2, <2>1 DEF e
<1>5. ASSUME NEW blank PROVE IsFlat(Separator(blank))
  <2> DEFINE e == Separator(blank)
  <2>1. /\ e.zone = "body" /\ e.type = "SEPARATOR" /\ e.source = "EXPLICIT" /\ e.parent = None /\ e.anchor = None
        /\ e.group = None /\ e.evidence = None /\ e.refs = {}
    BY BodyFields DEF Separator
  <2> HIDE DEF e
  <2> QED BY <1>2, <2>1 DEF e
<1> QED BY <1>3, <1>4, <1>5

\* What the adapter of plain text makes is orderly.
LEMMA PlainTextIsOrderly ==
  ASSUME NEW lines, AreLines(lines)
  PROVE  Orderly(Normalised(PlainTextElements(lines)))
<1> DEFINE starts == BlockStarts(lines)
           d == PlainTextElements(lines)
<1>1. AreElements(d)
  BY PlainTextAreElements
<1>2. Len(d) \in Nat /\ DOMAIN d = 1..Len(d)
  BY <1>1, SequenceDomain DEF AreElements
<1>3. \A i \in DOMAIN d : \E last : d[i] = Separator(TRUE) \/ d[i] = InText(lines, starts[i], last)
  BY DEF PlainTextElements
<1> HIDE DEF d, starts
<1>4. \A i \in DOMAIN d : IsFlat(d[i]) /\ d[i].type # "LIST_ITEM"
  <2>1. \A first, last : InText(lines, first, last).type = "PARAGRAPH"
    BY BodyFields DEF InText
  <2>2. Separator(TRUE).type = "SEPARATOR"
    BY BodyFields DEF Separator
  <2>3. \A first, last : IsFlat(InText(lines, first, last))
    BY FlatBody
  <2>4. IsFlat(Separator(TRUE))
    BY FlatBody
  <2> QED BY <1>3, <2>1, <2>2, <2>3, <2>4, Zenon
<1>5. Orderly(d)
  BY <1>2, <1>4, FlatIsOrderly DEF ListsAreWhole
<1>6. \A i \in 1..Len(d) : d[i].type \in OrderlyTypes
  BY <1>2, <1>4 DEF IsFlat
<1> QED BY <1>1, <1>5, <1>6, NormalisedIsSame DEF d

\* The block that begins at a line, in the list that is open there, and what follows it.
KindAt(lines, at) == Kind(lines[at[1]], at[2])
ListAt(lines, at) == IF KindAt(lines, at) # "item" THEN 0 ELSE IF at[2] # 0 THEN at[2] ELSE at[1]
LastAt(lines, at) == LastLine(lines, at[1], KindAt(lines, at))
BlockFrom(lines, at) ==
  [first |-> at[1], last |-> LastAt(lines, at), kind |-> KindAt(lines, at), list |-> ListAt(lines, at)]
Following(lines, at) == <<LastAt(lines, at) + 1, ListAt(lines, at)>>
Places(n) == (1..(n + 1)) \X (0..n)

BlocksFrom(lines, From) ==
  \A at \in Places(Len(lines)) :
    /\ From[at] \in Seq(BlockSet(Len(lines)))
    /\ From[at] = IF at[1] > Len(lines) THEN <<>> ELSE <<BlockFrom(lines, at)>> \o From[Following(lines, at)]

\* A block is followed by what begins below it.
LEMMA BlockAtPlace ==
  ASSUME NEW lines, AreLines(lines), NEW at \in Places(Len(lines)), ~(at[1] > Len(lines))
  PROVE  /\ BlockFrom(lines, at) \in BlockSet(Len(lines)) /\ Following(lines, at) \in Places(Len(lines))
         /\ Following(lines, at)[1] > at[1] /\ Following(lines, at)[2] = ListAt(lines, at)
         /\ KindAt(lines, at) \in Kinds /\ at[1] \in 1..Len(lines) /\ at[2] \in 0..Len(lines)
<1> DEFINE n == Len(lines)
<1>0. n \in Nat
  BY SequenceDomain DEF AreLines
<1>1. at[1] \in 1..n /\ at[2] \in 0..n
  BY <1>0 DEF Places
<1>2. KindAt(lines, at) \in Kinds
  BY <1>1, KindIsKind, LineNumbers DEF KindAt
<1>3. LastAt(lines, at) \in at[1]..n
  BY <1>1, <1>2, LastLineIsLater DEF LastAt
<1>4. ListAt(lines, at) \in 0..n
  BY <1>0, <1>1 DEF ListAt
<1> HIDE DEF n
<1>5. BlockFrom(lines, at) \in BlockSet(n)
  BY <1>0, <1>1, <1>2, <1>3, <1>4 DEF BlockSet, BlockFrom
<1>6. Following(lines, at) \in Places(n) /\ Following(lines, at)[1] > at[1] /\ Following(lines, at)[2] = ListAt(lines, at)
  BY <1>0, <1>1, <1>3, <1>4 DEF Following, Places
<1> QED BY <1>1, <1>2, <1>5, <1>6 DEF n

\* The recursion that reads the blocks has a solution.
LEMMA MarkdownUnfolds ==
  ASSUME NEW lines, AreLines(lines)
  PROVE  \E F : MarkdownBlocks(lines) = F[<<1, 0>>] /\ BlocksFrom(lines, F)
<1> DEFINE n == Len(lines)
           S == (1..(n + 1)) \X (0..n)
           V == Seq(BlockSet(n))
           Ranged(at) == <<BlockFrom(lines, at)>>
           After(at) == Following(lines, at)
           rank == [at \in S |-> n + 1 - at[1]]
           step == [p \in S \X [S -> V] |-> IF p[1][1] > n THEN <<>> ELSE Ranged(p[1]) \o p[2][After(p[1])]]
<1>0. n \in Nat
  BY SequenceDomain DEF AreLines
<1>1. ASSUME NEW at \in S, ~(at[1] > n)
      PROVE  Ranged(at) \in V /\ After(at) \in S /\ rank[After(at)] < rank[at]
  <2>1. BlockFrom(lines, at) \in BlockSet(n) /\ After(at) \in S /\ After(at)[1] > at[1]
    BY <1>1, BlockAtPlace DEF Places
  <2>2. at[1] \in Int /\ After(at)[1] \in Int
    BY <1>0, <2>1
  <2> HIDE DEF After
  <2>3. rank[After(at)] < rank[at]
    BY <1>0, <2>1, <2>2
  <2> QED BY <2>1, <2>3
<1>2. rank \in [S -> Nat] /\ V # {}
  <2>1. <<>> \in V
    OBVIOUS
  <2>2. \A at \in S : n + 1 - at[1] \in Nat
    BY <1>0
  <2> QED BY <2>1, <2>2
<1> HIDE DEF n, S, rank, Ranged, After
<1>3. ASSUME NEW at \in S, NEW g \in [S -> V]
      PROVE  /\ step[<<at, g>>] = IF at[1] > n THEN <<>> ELSE Ranged(at) \o g[After(at)]
             /\ step[<<at, g>>] \in V
  <2>1. step[<<at, g>>] = IF at[1] > n THEN <<>> ELSE Ranged(at) \o g[After(at)]
    OBVIOUS
  <2>2. CASE at[1] > n
    BY <2>1, <2>2
  <2>3. CASE ~(at[1] > n)
    <3>1. Ranged(at) \in Seq(BlockSet(n)) /\ g[After(at)] \in Seq(BlockSet(n))
      BY <1>1, <2>3
    <3>2. Ranged(at) \o g[After(at)] \in Seq(BlockSet(n))
      BY <3>1, ConcatProperties
    <3> QED BY <2>1, <2>3, <3>2
  <2> QED BY <2>1, <2>2, <2>3
<1>4. step \in [S \X [S -> V] -> V]
  <2>1. \A p \in S \X [S -> V] : step[p] \in V
    <3> SUFFICES ASSUME NEW at \in S, NEW g \in [S -> V] PROVE step[<<at, g>>] \in V
      OBVIOUS
    <3> QED BY <1>3
  <2> QED BY <2>1
<1> HIDE DEF step
<1>5. LooksDown(S, V, rank, step)
  <2> SUFFICES ASSUME NEW at \in S, NEW g \in [S -> V], NEW h \in [S -> V],
                      \A y \in S : rank[y] < rank[at] => g[y] = h[y]
               PROVE  step[<<at, g>>] = step[<<at, h>>]
    BY DEF LooksDown
  <2>1. ~(at[1] > n) => g[After(at)] = h[After(at)]
    BY <1>1
  <2> QED BY <1>3, <2>1
<1>6. PICK f \in [S -> V] : \A x \in S : f[x] = step[<<x, f>>]
  <2>1. IsRecursion(S, V, rank, step)
    BY <1>2, <1>4, <1>5 DEF IsRecursion
  <2> HIDE DEF V
  <2> QED BY <2>1, RecursionHasSolution
<1> DEFINE Unfolds(F) == F = [at \in S |-> IF at[1] > n THEN <<>> ELSE Ranged(at) \o F[After(at)]]
           From == CHOOSE F : Unfolds(F)
<1>7. Unfolds(f)
  <2>1. f = [at \in S |-> f[at]]
    BY <1>6
  <2>2. \A at \in S : f[at] = IF at[1] > n THEN <<>> ELSE Ranged(at) \o f[After(at)]
    BY <1>3, <1>6
  <2> QED BY <2>1, <2>2
<1>8. Unfolds(From)
  BY <1>7
<1>9. MarkdownBlocks(lines) = From[<<1, 0>>]
  BY DEF MarkdownBlocks, n, S, Ranged, After, BlockFrom, Following, KindAt, ListAt, LastAt
<1> HIDE DEF From, Unfolds
<1>10. \A at \in S : From[at] = IF at[1] > n THEN <<>> ELSE Ranged(at) \o From[After(at)]
  BY <1>8 DEF Unfolds
<1> DEFINE G == {at \in S : From[at] \in V}
<1>11. Inherited(S, rank, G)
  <2> SUFFICES ASSUME NEW at \in S, \A y \in S : rank[y] < rank[at] => y \in G PROVE From[at] \in V
    BY DEF Inherited
  <2>1. CASE at[1] > n
    <3>1. From[at] = <<>>
      BY <1>10, <2>1
    <3> QED BY <3>1
  <2>2. CASE ~(at[1] > n)
    <3>1. Ranged(at) \in Seq(BlockSet(n)) /\ From[After(at)] \in Seq(BlockSet(n))
      BY <1>1, <2>2
    <3>2. Ranged(at) \o From[After(at)] \in Seq(BlockSet(n))
      BY <3>1, ConcatProperties
    <3> QED BY <1>10, <2>2, <3>2
  <2> QED BY <2>1, <2>2
<1> HIDE DEF G
<1>12. S \subseteq G
  BY <1>2, <1>11, RankInduction
<1>13. BlocksFrom(lines, From)
  BY <1>10, <1>12 DEF BlocksFrom, Places, S, n, G, Ranged, After
<1> QED BY <1>9, <1>13

\* The blocks from a line on, in the list that is open there, if any: an item is of
\* that list or of one that begins later, and only items of a list stand between
\* those of it.
AreListed(blocks, i, list) ==
  /\ \A k \in 1..Len(blocks) : blocks[k].kind = "item" =>
       \/ blocks[k].list >= i
       \/ list # 0 /\ \A j \in 1..k : blocks[j].kind = "item" /\ blocks[j].list = list
  /\ \A j, k \in 1..Len(blocks) :
       j < k /\ blocks[j].kind = "item" /\ blocks[k].kind = "item" /\ blocks[j].list = blocks[k].list =>
         \A m \in j..k : blocks[m].kind = "item" /\ blocks[m].list = blocks[j].list

\* A block goes before those that follow it.
LEMMA BlockBefore ==
  ASSUME NEW n \in Nat, NEW i \in 1..n, NEW list \in 0..n, list < i, NEW next \in Int, next > i,
         NEW block \in BlockSet(n), NEW blocks \in Seq(BlockSet(n)),
         block.list = IF block.kind # "item" THEN 0 ELSE IF list # 0 THEN list ELSE i,
         AreListed(blocks, next, block.list)
  PROVE  AreListed(<<block>> \o blocks, i, list)
<1> DEFINE all == <<block>> \o blocks
<1>1. Len(all) = Len(blocks) + 1 /\ Len(blocks) \in Nat /\ all[1] = block /\ \A k \in 2..Len(all) : all[k] = blocks[k - 1]
  <2>1. Len(<<block>>) = 1 /\ <<block>>[1] = block /\ <<block>> \in Seq(BlockSet(n))
    OBVIOUS
  <2>2. Len(all) = 1 + Len(blocks) /\ \A k \in 1..Len(all) : all[k] = IF k <= 1 THEN <<block>>[k] ELSE blocks[k - 1]
    BY <2>1, ConcatProperties
  <2> QED BY <2>1, <2>2
<1>2. \A k \in 1..Len(blocks) : blocks[k].list \in Int
  <2>1. \A k \in 1..Len(blocks) : blocks[k] \in BlockSet(n)
    OBVIOUS
  <2> QED BY <2>1 DEF BlockSet
<1> HIDE DEF all
<1>3. block.list \in Int /\ block.list < next /\ (block.list # 0 => block.kind = "item" /\ (block.list >= i \/ block.list = list))
  OBVIOUS
<1>4. ASSUME NEW k \in 2..Len(all), all[k].kind = "item"
      PROVE  \/ all[k].list >= next
             \/ block.list # 0 /\ \A j \in 1..k : all[j].kind = "item" /\ all[j].list = block.list
  <2> DEFINE p == k - 1
  <2>1. p \in 1..Len(blocks) /\ all[k] = blocks[p]
    BY <1>1
  <2>2. blocks[p].list >= next \/ (block.list # 0 /\ \A j \in 1..p : blocks[j].kind = "item" /\ blocks[j].list = block.list)
    <3> HIDE DEF p
    <3> QED BY <1>4, <2>1 DEF AreListed
  <2>3. ASSUME block.list # 0, \A j \in 1..p : blocks[j].kind = "item" /\ blocks[j].list = block.list, NEW j \in 1..k
        PROVE  all[j].kind = "item" /\ all[j].list = block.list
    <3>1. CASE j = 1
      BY <1>1, <1>3, <2>3, <3>1
    <3>2. CASE j # 1
      <4>1. j \in 2..Len(all) /\ j - 1 \in 1..p
        BY <1>1, <3>2
      <4> QED BY <1>1, <2>3, <4>1
    <3> QED BY <3>1, <3>2
  <2> QED BY <2>1, <2>2, <2>3
<1>5. ASSUME NEW k \in 1..Len(all), all[k].kind = "item"
      PROVE  \/ all[k].list >= i
             \/ list # 0 /\ \A j \in 1..k : all[j].kind = "item" /\ all[j].list = list
  <2>1. CASE k = 1
    BY <1>1, <1>3, <1>5, <2>1
  <2>2. CASE k # 1
    <3>1. k \in 2..Len(all)
      BY <1>1, <2>2
    <3>2. all[k].list \in Int
      <4>1. k - 1 \in 1..Len(blocks) /\ all[k] = blocks[k - 1]
        BY <1>1, <3>1
      <4> QED BY <1>2, <4>1
    <3>3. CASE all[k].list >= next
      BY <3>2, <3>3
    <3>4. CASE block.list # 0 /\ \A j \in 1..k : all[j].kind = "item" /\ all[j].list = block.list
      <4>1. all[k].list = block.list
        BY <3>4
      <4> QED BY <1>3, <3>4, <4>1
    <3> QED BY <1>4, <1>5, <3>1, <3>3, <3>4
  <2> QED BY <2>1, <2>2
<1>6. ASSUME NEW j \in 1..Len(all), NEW k \in 1..Len(all), j < k, all[j].kind = "item", all[k].kind = "item", all[j].list = all[k].list,
             NEW m \in j..k
      PROVE  all[m].kind = "item" /\ all[m].list = all[j].list
  <2>1. k \in 2..Len(all)
    BY <1>1, <1>6
  <2>2. CASE j = 1
    <3>1. ~(all[k].list >= next) /\ m \in 1..k
      BY <1>1, <1>3, <1>6, <2>2
    <3> QED BY <1>1, <1>4, <1>6, <2>1, <2>2, <3>1
  <2>3. CASE j # 1
    <3> DEFINE q == j - 1
               p == k - 1
               o == m - 1
    <3>1. q \in 1..Len(blocks) /\ p \in 1..Len(blocks) /\ q < p /\ o \in q..p
      BY <1>1, <1>6, <2>1, <2>3
    <3>2. all[j] = blocks[q] /\ all[k] = blocks[p] /\ all[m] = blocks[o]
      BY <1>1, <1>6, <2>1, <2>3
    <3> HIDE DEF q, p, o
    <3> QED BY <1>6, <3>1, <3>2 DEF AreListed
  <2> QED BY <2>2, <2>3
<1> QED BY <1>5, <1>6 DEF AreListed, all

\* The lists of Markdown are whole.
LEMMA MarkdownIsListed == ASSUME NEW lines, AreLines(lines) PROVE AreListed(MarkdownBlocks(lines), 1, 0)
<1> DEFINE n == Len(lines)
           S == Places(n)
           rank == [at \in S |-> n + 1 - at[1]]
<1>0. n \in Nat
  BY SequenceDomain DEF AreLines
<1>1. rank \in [S -> Nat]
  <2>1. \A at \in S : n + 1 - at[1] \in Nat
    BY <1>0 DEF Places
  <2> QED BY <2>1
<1>2. PICK F : MarkdownBlocks(lines) = F[<<1, 0>>] /\ BlocksFrom(lines, F)
  BY MarkdownUnfolds
<1> DEFINE G == {at \in S : at[2] < at[1] => AreListed(F[at], at[1], at[2])}
<1>3. Inherited(S, rank, G)
  <2> SUFFICES ASSUME NEW at \in S, \A y \in S : rank[y] < rank[at] => y \in G, at[2] < at[1]
               PROVE  AreListed(F[at], at[1], at[2])
    BY DEF Inherited
  <2>1. CASE at[1] > n
    <3>1. F[at] = <<>>
      BY <1>2, <2>1 DEF BlocksFrom
    <3>2. Len(F[at]) = 0
      BY <3>1
    <3> QED BY <3>2 DEF AreListed
  <2>2. CASE ~(at[1] > n)
    <3> DEFINE next == Following(lines, at)
               block == BlockFrom(lines, at)
    <3>1. /\ block \in BlockSet(n) /\ next \in S /\ next[1] > at[1] /\ next[2] = ListAt(lines, at)
          /\ at[1] \in 1..n /\ at[2] \in 0..n
      BY <2>2, BlockAtPlace
    <3>2. block.kind = KindAt(lines, at) /\ block.list = ListAt(lines, at)
      BY DEF BlockFrom
    <3>3. block.list = IF block.kind # "item" THEN 0 ELSE IF at[2] # 0 THEN at[2] ELSE at[1]
      BY <3>2 DEF ListAt
    <3> HIDE DEF next, block
    <3>4. next[1] \in Int /\ rank[next] < rank[at] /\ next[2] < next[1]
      <4>1. next[1] \in Int
        BY <1>0, <3>1 DEF Places
      <4> QED BY <1>0, <3>1, <3>2, <3>3, <4>1
    <3>5. AreListed(F[next], next[1], block.list)
      BY <3>1, <3>2, <3>4
    <3>6. F[next] \in Seq(BlockSet(n)) /\ F[at] = <<block>> \o F[next]
      BY <1>2, <2>2, <3>1 DEF BlocksFrom, next, block
    <3>7. AreListed(<<block>> \o F[next], at[1], at[2])
      BY <1>0, <3>1, <3>3, <3>4, <3>5, <3>6, BlockBefore
    <3> QED BY <3>6, <3>7
  <2> QED BY <2>1, <2>2
<1>4. <<1, 0>> \in S
  BY <1>0 DEF Places
<1> HIDE DEF G, S, rank
<1>5. <<1, 0>> \in G
  BY <1>1, <1>3, <1>4, RankInduction
<1> QED BY <1>2, <1>5 DEF G

\* What the adapter of Markdown makes is orderly.
LEMMA MarkdownBlockIsFlat ==
  ASSUME NEW lines, NEW block, block.kind \in Kinds, block.list \in Nat
  PROVE  /\ IsFlat(FromMarkdown(lines, block))
         /\ FromMarkdown(lines, block).type = "LIST_ITEM" <=> block.kind = "item"
         /\ block.kind = "item" => FromMarkdown(lines, block).group = <<"list", block.list>>
<1> DEFINE text == InText(lines, block.first, block.last)
           e == FromMarkdown(lines, block)
<1>1. IsFlat(text) /\ text.type = "PARAGRAPH" /\ DOMAIN text = DOMAIN Plain
  <2>1. IsFlat(text)
    BY FlatBody
  <2> QED BY <2>1, BodyFields DEF InText
<1>2. \A blank : IsFlat(Separator(blank)) /\ Separator(blank).type = "SEPARATOR"
  <2>1. \A blank : IsFlat(Separator(blank))
    BY FlatBody
  <2> QED BY <2>1, BodyFields DEF Separator
<1>3. {"HEADING", "CODE", "LIST_ITEM"} \subseteq OrderlyTypes \ (TableTypes \cup {"FOOTNOTE"})
  BY DEF OrderlyTypes, TableTypes
<1>4. ASSUME NEW x, IsFlat(x), DOMAIN x = DOMAIN Plain, x.type # "LIST_ITEM", NEW type \in {"HEADING", "CODE"}, NEW level
      PROVE  IsFlat([x EXCEPT !.type = type]) /\ IsFlat([x EXCEPT !.type = type, !.level = level])
  <2> DEFINE y == [x EXCEPT !.type = type]
             z == [x EXCEPT !.type = type, !.level = level]
  <2>1. \A w \in {y, z} : /\ w.type = type /\ w.zone = x.zone /\ w.source = x.source /\ w.parent = x.parent /\ w.anchor = x.anchor
                         /\ w.group = x.group /\ w.evidence = x.evidence /\ w.refs = x.refs
    BY <1>4, BodyFields
  <2> HIDE DEF y, z
  <2>2. \A w \in {y, z} : IsFlat(w)
    BY <1>3, <1>4, <2>1 DEF IsFlat
  <2> QED BY <2>2 DEF y, z
<1>5. \A level : IsFlat([BodyElement EXCEPT !.type = "CODE"]) /\ IsFlat([BodyElement EXCEPT !.type = "HEADING", !.level = level])
  BY <1>4, FlatBody, BodyFields
<1>6. \A level : IsFlat([text EXCEPT !.type = "HEADING", !.level = level])
  BY <1>1, <1>4
<1>7. ASSUME block.kind = "item" PROVE IsFlat(e) /\ e.type = "LIST_ITEM" /\ e.group = <<"list", block.list>>
  <2>1. e = [text EXCEPT !.type = "LIST_ITEM", !.group = <<"list", block.list>>]
    BY <1>7 DEF FromMarkdown
  <2> HIDE DEF e, text
  <2>2. /\ e.type = "LIST_ITEM" /\ e.group = <<"list", block.list>> /\ e.zone = text.zone /\ e.source = text.source
        /\ e.parent = text.parent /\ e.anchor = text.anchor /\ e.evidence = text.evidence /\ e.refs = text.refs
    BY <1>1, <2>1, BodyFields
  <2>3. IsListGroup(e.group)
    BY <2>2 DEF IsListGroup
  <2> QED BY <1>1, <1>3, <2>2, <2>3 DEF IsFlat
<1>8. ASSUME block.kind # "item" PROVE IsFlat(e) /\ e.type # "LIST_ITEM"
  <2>1. \/ e = Separator(TRUE) \/ e = Separator(FALSE) \/ e = [BodyElement EXCEPT !.type = "CODE"]
        \/ (\E level : e = [BodyElement EXCEPT !.type = "HEADING", !.level = level]) \/ e = BodyElement \/ e = text
        \/ \E level : e = [text EXCEPT !.type = "HEADING", !.level = level]
    BY <1>8 DEF FromMarkdown, Kinds
  <2>2. /\ [BodyElement EXCEPT !.type = "CODE"].type = "CODE"
        /\ \A level : [BodyElement EXCEPT !.type = "HEADING", !.level = level].type = "HEADING"
        /\ \A level : [text EXCEPT !.type = "HEADING", !.level = level].type = "HEADING"
    BY <1>1, BodyFields
  <2> HIDE DEF e, text
  <2>3. CASE e = Separator(TRUE) \/ e = Separator(FALSE)
    BY <1>2, <2>3
  <2>4. CASE e = [BodyElement EXCEPT !.type = "CODE"]
    <3>1. IsFlat([BodyElement EXCEPT !.type = "CODE"]) /\ [BodyElement EXCEPT !.type = "CODE"].type = "CODE"
      BY <1>5, <2>2
    <3>2. IsFlat(e) /\ e.type = "CODE"
      BY <2>4, <3>1, Zenon
    <3> QED BY <3>2
  <2>7. CASE \E level : e = [BodyElement EXCEPT !.type = "HEADING", !.level = level]
    <3>1. PICK level : e = [BodyElement EXCEPT !.type = "HEADING", !.level = level]
      BY <2>7
    <3>2. IsFlat([BodyElement EXCEPT !.type = "HEADING", !.level = level]) /\ [BodyElement EXCEPT !.type = "HEADING", !.level = level].type = "HEADING"
      BY <1>5, <2>2
    <3>3. IsFlat(e) /\ e.type = "HEADING"
      BY <3>1, <3>2, Zenon
    <3> QED BY <3>3
  <2>5. CASE e = BodyElement \/ e = text
    BY <1>1, <2>5, FlatBody, BodyFields
  <2>6. CASE \E level : e = [text EXCEPT !.type = "HEADING", !.level = level]
    <3>1. PICK level : e = [text EXCEPT !.type = "HEADING", !.level = level]
      BY <2>6
    <3>2. IsFlat([text EXCEPT !.type = "HEADING", !.level = level]) /\ [text EXCEPT !.type = "HEADING", !.level = level].type = "HEADING"
      BY <1>6, <2>2
    <3>3. IsFlat(e) /\ e.type = "HEADING"
      BY <3>1, <3>2, Zenon
    <3> QED BY <3>3
  <2> QED BY <2>1, <2>3, <2>4, <2>5, <2>6, <2>7
<1> QED BY <1>7, <1>8

\* The adapter of Markdown makes orderly documents.
LEMMA MarkdownIsOrderly ==
  ASSUME NEW lines, AreLines(lines)
  PROVE  Orderly(Normalised(MarkdownElements(lines)))
<1> DEFINE blocks == MarkdownBlocks(lines)
           d == MarkdownElements(lines)
<1>1. AreElements(d)
  BY MarkdownAreElements
<1>2. Len(d) \in Nat /\ DOMAIN d = 1..Len(d)
  BY <1>1, SequenceDomain DEF AreElements
<1>3. Len(blocks) \in Nat /\ DOMAIN blocks = 1..Len(blocks) /\ \A k \in 1..Len(blocks) : blocks[k] \in BlockSet(Len(lines))
  <2>1. blocks \in Seq(BlockSet(Len(lines)))
    BY BlocksAreBlocks
  <2> HIDE DEF blocks
  <2> QED BY <2>1
<1>4. DOMAIN d = DOMAIN blocks /\ \A k \in DOMAIN d : d[k] = FromMarkdown(lines, blocks[k])
  BY DEF MarkdownElements
<1>5. AreListed(blocks, 1, 0)
  BY MarkdownIsListed
<1> HIDE DEF d, blocks
<1>6. \A k \in DOMAIN d : blocks[k].kind \in Kinds /\ blocks[k].list \in Nat
  <2>1. Len(lines) \in Nat
    BY SequenceDomain DEF AreLines
  <2> QED BY <1>3, <1>4, <2>1 DEF BlockSet
<1>7. \A k \in DOMAIN d : /\ IsFlat(d[k]) /\ (d[k].type = "LIST_ITEM" <=> blocks[k].kind = "item")
                          /\ blocks[k].kind = "item" => d[k].group = <<"list", blocks[k].list>>
  BY <1>4, <1>6, MarkdownBlockIsFlat
<1>8. ListsAreWhole(d)
  <2> SUFFICES ASSUME NEW i \in DOMAIN d, NEW k \in DOMAIN d, d[i].type = "LIST_ITEM", d[i].group = d[k].group, NEW j \in i..k
               PROVE  d[j].group = d[i].group
    BY DEF ListsAreWhole
  <2>1. j \in DOMAIN d /\ i <= k /\ (i = k => j = i) /\ (i # k => i < k)
    BY <1>2
  <2>2. d[k].type = "LIST_ITEM"
    <3>1. d[k].group # None
      BY <1>7, NoneAssumption DEF IsFlat, IsListGroup
    <3> QED BY <1>7, <3>1 DEF IsFlat
  <2>3. /\ blocks[i].kind = "item" /\ blocks[k].kind = "item" /\ d[i].group = <<"list", blocks[i].list>>
        /\ d[k].group = <<"list", blocks[k].list>>
    BY <1>7, <2>2
  <2>4. blocks[i].list = blocks[k].list
    <3>1. \A x, y : <<"list", x>> = <<"list", y>> => x = y
      OBVIOUS
    <3>2. <<"list", blocks[i].list>> = <<"list", blocks[k].list>>
      BY <2>3
    <3> QED BY <3>1, <3>2
  <2>5. i < k => blocks[j].kind = "item" /\ blocks[j].list = blocks[i].list
    <3>1. i \in 1..Len(blocks) /\ k \in 1..Len(blocks)
      BY <1>3, <1>4
    <3> QED BY <1>5, <2>3, <2>4, <3>1 DEF AreListed
  <2> QED BY <1>7, <2>1, <2>3, <2>5
<1>9. Orderly(d)
  BY <1>2, <1>7, <1>8, FlatIsOrderly
<1>10. \A i \in 1..Len(d) : d[i].type \in OrderlyTypes
  BY <1>2, <1>7 DEF IsFlat
<1> QED BY <1>1, <1>9, <1>10, NormalisedIsSame DEF d

\* So is the document without elements.
LEMMA NothingIsOrderly == Orderly(Normalised(<<>>))
<1>1. AreElements(<<>>) /\ Len(<<>>) = 0 /\ DOMAIN <<>> = 1..Len(<<>>)
  BY NoneOrOne
<1> DEFINE d == <<>>
<1>2. Orderly(<<>>)
  <2> HIDE DEF d
  <2>1. Len(d) \in Nat /\ DOMAIN d = 1..Len(d) /\ DOMAIN d = {}
    BY <1>1 DEF d
  <2>2. Orderly(d)
    BY <2>1, FlatIsOrderly DEF ListsAreWhole
  <2> QED BY <2>2 DEF d
<1>3. Normalised(<<>>) = <<>>
  BY <1>1, NormalisedIsSame
<1> QED BY <1>2, <1>3

\* The elements are the observed ones, once there are any.
IsObserved == raw # <<>> => Adaptable /\ raw = Observed

\* What the adapter has made is the observation of the source.
LEMMA ObservedAlways == Spec => [](source \in Sources /\ IsObserved)
<1>1. Init => source \in Sources /\ IsObserved
  BY DEF Init, IsObserved
<1>2. source \in Sources /\ IsObserved /\ [Next]_readingVars => (source \in Sources /\ IsObserved)'
  <2> SUFFICES ASSUME source \in Sources, IsObserved, [Next]_readingVars PROVE (source \in Sources /\ IsObserved)'
    OBVIOUS
  <2>1. source' = source
    BY DEF Next, readingVars, Adapt, AdapterFails, Normalise, Understand, AuditPreservation, Reannotate,
           ProjectUnits, ProjectionFails, EnrichUnits, EnrichmentFails, Settled
  <2>2. CASE Adapt
    <3>1. Adaptable /\ raw' = Observed
      BY <2>2 DEF Adapt, Extracted
    <3> QED BY <2>1, <3>1 DEF IsObserved, Adaptable, Observed
  <2>3. CASE ~Adapt
    <3>1. raw' = raw
      BY <2>3 DEF Next, readingVars, AdapterFails, Normalise, Understand, AuditPreservation, Reannotate,
                  ProjectUnits, ProjectionFails, EnrichUnits, EnrichmentFails, Settled
    <3> QED BY <2>1, <3>1 DEF IsObserved, Adaptable, Observed
  <2> QED BY <2>2, <2>3
<1> QED BY <1>1, <1>2, PTL DEF Spec

\* What is observed of text and Markdown is orderly.
LEMMA ObservedLinesAreOrderly ==
  ASSUME source \in Sources, IsObserved, source.format \in {"text", "markdown"}
  PROVE  Orderly(Normalised(raw))
<1>1. CASE raw = <<>>
  BY <1>1, NothingIsOrderly
<1>2. CASE raw # <<>>
  <2>1. AreLines(Lines(source.bytes, source.encoding)) /\ raw = Observed
    BY <1>2, SourcesAssumption DEF IsObserved, Adaptable, Decodable, Lines, AreLines
  <2> QED BY <2>1, PlainTextIsOrderly, MarkdownIsOrderly DEF Observed
<1> QED BY <1>1, <1>2

\* Text and Markdown, to which their caller adds nothing, are understood and
\* projected to the end, whatever their lines are.
THEOREM LinesAreAlwaysUnderstood ==
  Spec => [](source.format \in {"text", "markdown"} /\ AddsNothing /\ ReadsPlainly => IsUnderstood)
<1>1. source \in Sources /\ IsObserved /\ (IsOrderlyReading => IsUnderstood)
        => (source.format \in {"text", "markdown"} /\ AddsNothing /\ ReadsPlainly => IsUnderstood)
  BY ObservedLinesAreOrderly DEF IsOrderlyReading
<1> QED BY <1>1, ObservedAlways, OrderlyIsAlwaysUnderstood, PTL
===============================================================================
