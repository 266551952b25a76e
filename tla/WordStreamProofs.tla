--------------------------- MODULE WordStreamProofs ---------------------------
(***************************************************************************)
(* Proofs about WordStream, for any parts, lines, number of lines sent and *)
(* number of starts.                                                       *)
(***************************************************************************)
EXTENDS WordStream, FiniteSetTheorems, SequenceTheorems, TLAPS

-----------------------------------------------------------------------------
(***************************************************************************)
(* A finite set in order.                                                  *)
(***************************************************************************)
IsOrder(S, before) ==
  /\ \A x \in S : <<x, x>> \notin before
  /\ \A x, y, z \in S : <<x, y>> \in before /\ <<y, z>> \in before => <<x, z>> \in before
  /\ \A x, y \in S : x = y \/ <<x, y>> \in before \/ <<y, x>> \in before

Below(S, before, x) == {y \in S : <<y, x>> \in before}
Rank(S, before, x) == Cardinality(Below(S, before, x))

(* The elements have the ranks from 0 on, each rank once.                  *)
LEMMA RanksAreOneToOne ==
  ASSUME NEW S, IsFiniteSet(S), NEW before, IsOrder(S, before)
  PROVE  /\ \A x \in S : Rank(S, before, x) \in 0..(Cardinality(S) - 1)
         /\ \A x, y \in S : <<x, y>> \in before => Rank(S, before, x) < Rank(S, before, y)
         /\ \A k \in 1..Cardinality(S) : \E x \in S : Rank(S, before, x) = k - 1
<1> DEFINE size == Cardinality(S)
           below(x) == Below(S, before, x)
           rank(x) == Rank(S, before, x)
<1>1. size \in Nat
  BY FS_CardinalityType
<1>2. ASSUME NEW x \in S
      PROVE  IsFiniteSet(below(x)) /\ rank(x) \in Nat /\ rank(x) < size
  <2>1. below(x) \subseteq S /\ x \notin below(x)
    BY DEF Below, IsOrder
  <2>2. IsFiniteSet(below(x)) /\ rank(x) <= size /\ rank(x) # size
    BY <2>1, FS_Subset DEF Rank
  <2>3. rank(x) \in Nat
    BY <2>2, FS_CardinalityType DEF Rank
  <2> HIDE DEF rank, size
  <2> QED  BY <1>1, <2>2, <2>3
<1>3. ASSUME NEW x \in S, NEW y \in S, <<x, y>> \in before PROVE rank(x) < rank(y)
  <2>1. below(x) \subseteq below(y) /\ x \in below(y) /\ x \notin below(x)
    BY <1>3 DEF Below, IsOrder
  <2>2. rank(x) <= rank(y) /\ rank(x) # rank(y)
    BY <1>2, <2>1, FS_Subset DEF Rank
  <2> HIDE DEF rank
  <2> QED  BY <1>2, <2>2
<1>4. \A k \in 1..size : \E x \in S : rank(x) = k - 1
  <2> DEFINE T == 0..(size - 1)
             f == [x \in S |-> rank(x)]
  <2>1. f \in [S -> T]
    <3> HIDE DEF rank, size
    <3> QED  BY <1>1, <1>2
  <2>2. \A x, y \in S : f[x] = f[y] => x = y
    <3> SUFFICES ASSUME NEW x \in S, NEW y \in S, f[x] = f[y], x # y PROVE FALSE
      OBVIOUS
    <3>1. rank(x) = rank(y) /\ rank(x) \in Nat
      BY <1>2
    <3>2. <<x, y>> \in before \/ <<y, x>> \in before
      BY DEF IsOrder
    <3>3. rank(x) < rank(y) \/ rank(y) < rank(x)
      BY <1>3, <3>2
    <3> HIDE DEF rank
    <3> QED  BY <3>1, <3>3
  <2>3. f \in Injection(S, T)
    BY <2>1, <2>2 DEF Injection, IsInjective
  <2>4. IsFiniteSet(T) /\ Cardinality(T) = size
    <3> HIDE DEF size
    <3>1. 0 \in Int /\ size - 1 \in Int
      BY <1>1
    <3>2. Cardinality(T) = IF 0 > size - 1 THEN 0 ELSE (size - 1) - 0 + 1
      BY <3>1, FS_Interval
    <3>3. IsFiniteSet(T)
      BY <3>1, FS_Interval
    <3> QED  BY <1>1, <3>2, <3>3
  <2>5. f \in Surjection(S, T)
    BY <2>3, <2>4, FS_Injection
  <2>6. \A m \in T : \E x \in S : f[x] = m
    BY <2>5 DEF Surjection
  <2> SUFFICES ASSUME NEW k \in 1..size PROVE \E x \in S : rank(x) = k - 1
    OBVIOUS
  <2>7. k - 1 \in T
    BY <1>1
  <2> QED  BY <2>6, <2>7
<1>5. \A x \in S : rank(x) \in 0..(size - 1)
  <2> HIDE DEF rank, size
  <2> QED  BY <1>1, <1>2
<1> QED  BY <1>3, <1>4, <1>5

(* The sequence holds each element once, at its rank, each after those     *)
(* before it.                                                              *)
LEMMA InOrderProperties ==
  ASSUME NEW S, IsFiniteSet(S), NEW before, IsOrder(S, before)
  PROVE  /\ Cardinality(S) \in Nat
         /\ InOrder(S, before) \in [1..Cardinality(S) -> S]
         /\ \A x \in S : \E k \in 1..Cardinality(S) : InOrder(S, before)[k] = x
         /\ \A k, l \in 1..Cardinality(S) :
              k < l => <<InOrder(S, before)[k], InOrder(S, before)[l]>> \in before
<1> DEFINE size == Cardinality(S)
           rank(x) == Rank(S, before, x)
           s == InOrder(S, before)
<1>1. size \in Nat
  BY FS_CardinalityType
<1>2. /\ \A x \in S : rank(x) \in 0..(size - 1)
      /\ \A x, y \in S : <<x, y>> \in before => rank(x) < rank(y)
      /\ \A k \in 1..size : \E x \in S : rank(x) = k - 1
  BY RanksAreOneToOne
<1>3. s = [k \in 1..size |-> CHOOSE x \in S : rank(x) = k - 1]
  BY DEF InOrder, Rank, Below
<1> HIDE DEF rank, size, s
<1>4. \A k \in 1..size : s[k] \in S /\ rank(s[k]) = k - 1
  BY <1>2, <1>3
<1>5. s \in [1..size -> S]
  BY <1>3, <1>4
<1>6. ASSUME NEW x \in S PROVE \E k \in 1..size : s[k] = x
  <2>1. rank(x) + 1 \in 1..size /\ (rank(x) + 1) - 1 = rank(x)
    BY <1>1, <1>2
  <2>2. s[rank(x) + 1] \in S /\ rank(s[rank(x) + 1]) = rank(x)
    BY <1>4, <2>1
  <2> DEFINE y == s[rank(x) + 1]
  <2>3. y = x \/ <<x, y>> \in before \/ <<y, x>> \in before
    BY <2>2 DEF IsOrder
  <2>4. ~(rank(x) < rank(y)) /\ ~(rank(y) < rank(x))
    BY <1>2, <2>2
  <2>5. y = x
    BY <1>2, <2>2, <2>3, <2>4
  <2> QED  BY <2>1, <2>5
<1>7. ASSUME NEW k \in 1..size, NEW l \in 1..size, k < l PROVE <<s[k], s[l]>> \in before
  <2>1. rank(s[k]) = k - 1 /\ rank(s[l]) = l - 1 /\ s[k] \in S /\ s[l] \in S
    BY <1>4
  <2>2. s[k] # s[l] /\ ~(rank(s[l]) < rank(s[k]))
    BY <1>7, <2>1
  <2>3. <<s[l], s[k]>> \notin before
    BY <1>2, <2>1, <2>2
  <2> QED  BY <2>1, <2>2, <2>3 DEF IsOrder
<1> QED  BY <1>1, <1>5, <1>6, <1>7 DEF size, s

LEMMA IncreasingIsOrder ==
  ASSUME NEW S \in SUBSET Nat
  PROVE  IsOrder(S, Increasing(S))
BY DEF IsOrder, Increasing

LEMMA SoonerIsOrder ==
  ASSUME NEW S, S \subseteq Nat \X Nat
  PROVE  IsOrder(S, Sooner(S))
<1>1. \A x, y \in S : /\ x[1] \in Nat /\ x[2] \in Nat
                      /\ x[1] = y[1] /\ x[2] = y[2] => x = y
  OBVIOUS
<1>2. \A x, y \in S : <<x, y>> \in Sooner(S) <=> \/ x[1] < y[1]
                                                 \/ x[1] = y[1] /\ x[2] < y[2]
  BY DEF Sooner
<1>3. \A x \in S : <<x, x>> \notin Sooner(S)
  BY <1>1, <1>2
<1>4. ASSUME NEW x \in S, NEW y \in S, NEW z \in S,
             <<x, y>> \in Sooner(S), <<y, z>> \in Sooner(S)
      PROVE  <<x, z>> \in Sooner(S)
  BY <1>1, <1>2, <1>4
<1>5. ASSUME NEW x \in S, NEW y \in S
      PROVE  x = y \/ <<x, y>> \in Sooner(S) \/ <<y, x>> \in Sooner(S)
  BY <1>1, <1>2
<1> QED  BY <1>3, <1>4, <1>5 DEF IsOrder

LEMMA PlacesOfALine ==
  ASSUME NEW line \in Seq(Parts)
  PROVE  /\ DOMAIN line = 1..Len(line) /\ Len(line) \in Nat
         /\ IsFiniteSet(DOMAIN line) /\ DOMAIN line \subseteq Nat
<1>1. DOMAIN line = 1..Len(line) /\ Len(line) \in Nat
  BY LenProperties
<1> QED  BY <1>1, FS_Interval

(* Where split() finds its words: which part of the line, and where in it. *)
PiecePlaces(line) == UNION {{<<j, k>> : k \in DOMAIN Pieces[line[j]]} : j \in DOMAIN line}
Place(line) == InOrder(PiecePlaces(line), Sooner(PiecePlaces(line)))

LEMMA PiecesArePlaced ==
  ASSUME NEW line \in Seq(Parts)
  PROVE  /\ PiecePlaces(line) \subseteq Nat \X Nat /\ IsFiniteSet(PiecePlaces(line))
         /\ \A jk \in PiecePlaces(line) : /\ jk[1] \in DOMAIN line
                                          /\ jk[2] \in DOMAIN Pieces[line[jk[1]]]
                                          /\ Pieces[line[jk[1]]][jk[2]] \in Words
<1> DEFINE part(j) == {<<j, k>> : k \in DOMAIN Pieces[line[j]]}
           all == {part(j) : j \in DOMAIN line}
           number == [j \in DOMAIN line |-> part(j)]
<1>1. IsFiniteSet(DOMAIN line) /\ DOMAIN line \subseteq Nat
  BY PlacesOfALine
<1>2. ASSUME NEW j \in DOMAIN line
      PROVE  /\ line[j] \in Parts
             /\ IsFiniteSet(DOMAIN Pieces[line[j]]) /\ DOMAIN Pieces[line[j]] \subseteq Nat
  <2>1. line[j] \in Parts
    BY ElementOfSeq, LenProperties
  <2>2. Pieces[line[j]] \in Seq(Parts)
    BY <2>1, PiecesAssumption
  <2> QED  BY <2>1, <2>2, PlacesOfALine
<1>3. ASSUME NEW j \in DOMAIN line PROVE IsFiniteSet(part(j))
  <2> DEFINE place == [k \in DOMAIN Pieces[line[j]] |-> <<j, k>>]
  <2>1. place \in Surjection(DOMAIN Pieces[line[j]], part(j))
    BY DEF Surjection
  <2> HIDE DEF place, part
  <2> QED  BY <1>2, <2>1, FS_Surjection
<1>4. IsFiniteSet(UNION all)
  <2> HIDE DEF part
  <2>1. number \in Surjection(DOMAIN line, all)
    BY DEF Surjection
  <2>2. \A T \in all : IsFiniteSet(T)
    BY <1>3
  <2> HIDE DEF all, number
  <2> QED  BY <1>1, <2>1, <2>2, FS_Surjection, FS_UNION
<1>5. PiecePlaces(line) = UNION all
  BY DEF PiecePlaces
<1>6. ASSUME NEW jk \in PiecePlaces(line)
      PROVE  /\ jk \in Nat \X Nat /\ jk[1] \in DOMAIN line
             /\ jk[2] \in DOMAIN Pieces[line[jk[1]]]
             /\ Pieces[line[jk[1]]][jk[2]] \in Words
  <2>1. PICK j \in DOMAIN line : \E k \in DOMAIN Pieces[line[j]] : jk = <<j, k>>
    BY DEF PiecePlaces
  <2>2. PICK k \in DOMAIN Pieces[line[j]] : jk = <<j, k>>
    BY <2>1
  <2> QED  BY <1>1, <1>2, <2>2, PiecesAssumption
<1> QED  BY <1>4, <1>5, <1>6

LEMMA PiecesInOrder ==
  ASSUME NEW line \in Seq(Parts)
  PROVE  LET size == Cardinality(PiecePlaces(line))
             word(m) == Pieces[line[Place(line)[m][1]]][Place(line)[m][2]]
         IN  /\ size \in Nat
             /\ Place(line) \in [1..size -> PiecePlaces(line)]
             /\ \A x \in PiecePlaces(line) : \E m \in 1..size : Place(line)[m] = x
             /\ \A m, l \in 1..size : Place(line)[m] = Place(line)[l] => m = l
             /\ Split(line) = [m \in 1..size |-> word(m)]
<1> DEFINE size == Cardinality(PiecePlaces(line))
           before == Sooner(PiecePlaces(line))
           place == Place(line)
<1>1. IsFiniteSet(PiecePlaces(line)) /\ IsOrder(PiecePlaces(line), before)
  BY PiecesArePlaced, SoonerIsOrder
<1>2. /\ size \in Nat
      /\ place \in [1..size -> PiecePlaces(line)]
      /\ \A x \in PiecePlaces(line) : \E m \in 1..size : place[m] = x
      /\ \A m, l \in 1..size : m < l => <<place[m], place[l]>> \in before
  BY <1>1, InOrderProperties DEF Place
<1>3. Split(line) = [m \in DOMAIN place |-> Pieces[line[place[m][1]]][place[m][2]]]
  BY DEF Split, Place, PiecePlaces
<1> HIDE DEF size, before, place
<1>4. ASSUME NEW m \in 1..size, NEW l \in 1..size, place[m] = place[l] PROVE m = l
  <2>1. place[m] \in PiecePlaces(line) /\ <<place[m], place[m]>> \notin before
    BY <1>1, <1>2 DEF IsOrder
  <2>2. ~(m < l) /\ ~(l < m)
    BY <1>2, <1>4, <2>1
  <2> QED  BY <1>2, <2>2
<1> QED  BY <1>2, <1>3, <1>4 DEF size, place

(* split() finds words, and each at a place of its own: f tells which.  A  *)
(* part that is a word is found, as its own only piece.                    *)
LEMMA SplitFindsWords ==
  ASSUME NEW line \in Seq(Parts)
  PROVE  \E f \in [DOMAIN Split(line) -> PiecePlaces(line)] :
           /\ \A k, l \in DOMAIN f : f[k] = f[l] => k = l
           /\ \A k \in DOMAIN f : /\ Split(line)[k] = Pieces[line[f[k][1]]][f[k][2]]
                                  /\ Split(line)[k] \in Words
           /\ \A x \in PiecePlaces(line) : \E k \in DOMAIN f : f[k] = x
<1> DEFINE place == Place(line)
           size == Cardinality(PiecePlaces(line))
<1>1. /\ size \in Nat
      /\ place \in [1..size -> PiecePlaces(line)]
      /\ \A x \in PiecePlaces(line) : \E m \in 1..size : place[m] = x
      /\ \A m, l \in 1..size : place[m] = place[l] => m = l
      /\ Split(line) = [m \in 1..size |-> Pieces[line[place[m][1]]][place[m][2]]]
  BY PiecesInOrder
<1> HIDE DEF place, size
<1>2. DOMAIN Split(line) = 1..size /\ DOMAIN place = 1..size
  BY <1>1
<1>3. \A k \in 1..size : /\ Split(line)[k] = Pieces[line[place[k][1]]][place[k][2]]
                         /\ Split(line)[k] \in Words
  BY <1>1, PiecesArePlaced
<1>4. place \in [DOMAIN Split(line) -> PiecePlaces(line)]
  BY <1>1, <1>2
<1> QED  BY <1>1, <1>2, <1>3, <1>4

LEMMA SplitIsALine ==
  ASSUME NEW line \in Seq(Parts)
  PROVE  /\ Split(line) \in Seq(Parts)
         /\ DOMAIN Split(line) = 1..Len(Split(line))
         /\ IsFiniteSet(DOMAIN Split(line)) /\ DOMAIN Split(line) \in SUBSET Nat
         /\ Split(line) \in [DOMAIN Split(line) -> Parts]
<1> DEFINE size == Cardinality(PiecePlaces(line))
<1>1. size \in Nat /\ DOMAIN Split(line) = 1..size
      /\ Split(line) = [m \in 1..size |-> Split(line)[m]]
  BY PiecesInOrder
<1>2. \A k \in DOMAIN Split(line) : Split(line)[k] \in Parts
  BY SplitFindsWords DEF Words
<1> HIDE DEF size
<1>3. Split(line) \in [1..size -> Parts]
  BY <1>1, <1>2
<1>4. Split(line) \in Seq(Parts)
  BY <1>1, <1>3, SeqDef
<1> QED  BY <1>1, <1>3, <1>4, PlacesOfALine

LEMMA AWordIsItsPiece ==
  ASSUME NEW line \in Seq(Parts), NEW j \in DOMAIN line, line[j] \in Words
  PROVE  /\ <<j, 1>> \in PiecePlaces(line) /\ Pieces[line[j]][1] = line[j]
         /\ DOMAIN Pieces[line[j]] = {1}
<1>1. Pieces[line[j]] = <<line[j]>>
  BY DEF Words
<1>2. DOMAIN Pieces[line[j]] = {1} /\ Pieces[line[j]][1] = line[j]
  BY <1>1
<1> QED  BY <1>2 DEF PiecePlaces

-----------------------------------------------------------------------------
(***************************************************************************)
(* Counting the parts of lines.                                            *)
(***************************************************************************)

Places(lines, chosen) == UNION {{<<i, j>> : j \in DOMAIN lines[i]} : i \in chosen}

(* Where the part p stands.                                                *)
PlacesOf(lines, chosen, p) == {ij \in Places(lines, chosen) : lines[ij[1]][ij[2]] = p}

LEMMA CountsArePlaces ==
  ASSUME NEW lines, NEW chosen
  PROVE  Counts(lines, chosen) = [p \in Parts |-> Cardinality(PlacesOf(lines, chosen, p))]
BY DEF Counts, PlacesOf, Places

LEMMA PlacesAreFinite ==
  ASSUME NEW lines, NEW chosen, IsFiniteSet(chosen),
         \A i \in chosen : IsFiniteSet(DOMAIN lines[i]), NEW p
  PROVE  IsFiniteSet(PlacesOf(lines, chosen, p))
<1> DEFINE line(i) == {<<i, j>> : j \in DOMAIN lines[i]}
<1>1. ASSUME NEW i \in chosen PROVE IsFiniteSet(line(i))
  <2> DEFINE place == [j \in DOMAIN lines[i] |-> <<i, j>>]
  <2>1. place \in Surjection(DOMAIN lines[i], line(i))
    BY DEF Surjection
  <2> HIDE DEF place, line
  <2> QED  BY <2>1, FS_Surjection
<1> DEFINE all == {line(i) : i \in chosen}
           number == [i \in chosen |-> line(i)]
<1> HIDE DEF line
<1>2. number \in Surjection(chosen, all)
  BY DEF Surjection
<1>3. \A T \in all : IsFiniteSet(T)
  BY <1>1
<1> HIDE DEF all, number
<1>4. IsFiniteSet(UNION all)
  BY <1>2, <1>3, FS_Surjection, FS_UNION
<1>5. Places(lines, chosen) = UNION all
  BY DEF Places, all, line
<1> QED  BY <1>4, <1>5, FS_Subset DEF PlacesOf

(* Lines that are counted apart add up.                                    *)
LEMMA CountsAddUp ==
  ASSUME NEW lines, NEW A, NEW B, A \cap B = {},
         IsFiniteSet(A), \A i \in A : IsFiniteSet(DOMAIN lines[i]),
         IsFiniteSet(B), \A i \in B : IsFiniteSet(DOMAIN lines[i])
  PROVE  /\ Counts(lines, A) \in [Parts -> Nat]
         /\ Counts(lines, B) \in [Parts -> Nat]
         /\ Counts(lines, A \cup B) = Plus(Counts(lines, A), Counts(lines, B))
<1>1. ASSUME NEW p \in Parts
      PROVE  /\ Cardinality(PlacesOf(lines, A, p)) \in Nat
             /\ Cardinality(PlacesOf(lines, B, p)) \in Nat
             /\ Cardinality(PlacesOf(lines, A \cup B, p))
                  = Cardinality(PlacesOf(lines, A, p)) + Cardinality(PlacesOf(lines, B, p))
  <2> DEFINE a == PlacesOf(lines, A, p)
             b == PlacesOf(lines, B, p)
  <2>1. IsFiniteSet(a) /\ IsFiniteSet(b)
    BY PlacesAreFinite
  <2>2. a \cap b = {}
    BY DEF PlacesOf, Places
  <2>3. PlacesOf(lines, A \cup B, p) = a \cup b
    BY DEF PlacesOf, Places
  <2> HIDE DEF a, b
  <2>4. Cardinality(a \cup b) = Cardinality(a) + Cardinality(b) - Cardinality({})
    BY <2>1, <2>2, FS_Union
  <2>5. Cardinality(a) \in Nat /\ Cardinality(b) \in Nat /\ Cardinality({}) = 0
    BY <2>1, FS_CardinalityType, FS_EmptySet
  <2>6. Cardinality(a \cup b) = Cardinality(a) + Cardinality(b)
    BY <2>4, <2>5
  <2> QED  BY <2>3, <2>5, <2>6 DEF a, b
<1> QED  BY <1>1, CountsArePlaces DEF Plus

LEMMA NothingCounted == ASSUME NEW lines PROVE Counts(lines, {}) = Nothing
<1>1. \A p : PlacesOf(lines, {}, p) = {}
  BY DEF PlacesOf, Places
<1> QED  BY <1>1, CountsArePlaces, FS_EmptySet DEF Nothing

(* A count depends on the chosen lines alone.                              *)
LEMMA CountsOfTheChosen ==
  ASSUME NEW lines, NEW others, NEW chosen, \A i \in chosen : lines[i] = others[i]
  PROVE  Counts(lines, chosen) = Counts(others, chosen)
<1>1. Places(lines, chosen) = Places(others, chosen)
  BY DEF Places
<1>2. \A ij \in Places(lines, chosen) : ij[1] \in chosen
  BY DEF Places
<1>3. \A p : PlacesOf(lines, chosen, p) = PlacesOf(others, chosen, p)
  BY <1>1, <1>2 DEF PlacesOf
<1> QED  BY <1>3, CountsArePlaces

-----------------------------------------------------------------------------
(***************************************************************************)
(* The invariant.                                                          *)
(***************************************************************************)
StreamType ==
  /\ program \in Programs
  /\ sent \in Seq(Lines)
  /\ up \in BOOLEAN /\ starts \in Nat /\ (up => starts > 0)
  /\ inbox \subseteq 1..Len(sent)
  /\ ingested \subseteq 1..Len(sent)
  /\ swallowed \subseteq ingested /\ (program # "sql" => swallowed = {})
  /\ offset \in 0..Len(sent)
  /\ table \in [Parts -> Nat] /\ printed \in [Parts -> Nat]

(* A line that waits for the next batch has not been in one.               *)
NoLineTwice == inbox \cap ingested = {}

(* What each program keeps, as whole tables.                               *)
TablesAreRight ==
  starts > 0 =>
    /\ program = "stateful" => table = Plus(Counts(sent, ingested), InitialState)
    /\ program = "kafka"    => table = Counts(sent, 1..offset)
    /\ program \in {"network", "sql"} => printed = Counts(sent, ingested \ swallowed)

StreamInv == StreamType /\ NoLineTwice /\ TablesAreRight

LEMMA TableTypes ==
  /\ Nothing \in [Parts -> Nat] /\ InitialState \in [Parts -> Nat]
  /\ \A a \in [Parts -> Nat], b \in [Parts -> Nat] : Plus(a, b) \in [Parts -> Nat]
  /\ \A a \in [Parts -> Nat] : Plus(Nothing, a) = a
  /\ \A a \in [Parts -> Nat], b \in [Parts -> Nat] : Plus(a, b) = Plus(b, a)
  /\ \A a \in [Parts -> Nat], b \in [Parts -> Nat], c \in [Parts -> Nat] :
       Plus(Plus(a, b), c) = Plus(a, Plus(b, c))
<1>1. Nothing \in [Parts -> Nat] /\ InitialState \in [Parts -> Nat]
  BY DEF Nothing, InitialState
<1>2. \A a \in [Parts -> Nat], b \in [Parts -> Nat] : Plus(a, b) \in [Parts -> Nat]
  BY DEF Plus
<1>3. \A a \in [Parts -> Nat] : Plus(Nothing, a) = a
  BY DEF Plus, Nothing
<1>4. \A a \in [Parts -> Nat], b \in [Parts -> Nat] : Plus(a, b) = Plus(b, a)
  BY DEF Plus
<1>5. \A a \in [Parts -> Nat], b \in [Parts -> Nat], c \in [Parts -> Nat] :
        Plus(Plus(a, b), c) = Plus(a, Plus(b, c))
  <2> SUFFICES ASSUME NEW a \in [Parts -> Nat], NEW b \in [Parts -> Nat],
                      NEW c \in [Parts -> Nat], NEW p \in Parts
               PROVE  (a[p] + b[p]) + c[p] = a[p] + (b[p] + c[p])
    BY DEF Plus
  <2>1. a[p] \in Nat /\ b[p] \in Nat /\ c[p] \in Nat
    OBVIOUS
  <2> QED  BY <2>1
<1> QED  BY <1>1, <1>2, <1>3, <1>4, <1>5

(* The lines sent have finitely many parts, and no choice of them is       *)
(* infinite.                                                               *)
LEMMA LinesAreFinite ==
  ASSUME sent \in Seq(Lines)
  PROVE  \A A \in SUBSET (1..Len(sent)) :
           IsFiniteSet(A) /\ \A i \in A : IsFiniteSet(DOMAIN sent[i])
<1>1. Len(sent) \in Nat
  BY LenProperties
<1> SUFFICES ASSUME NEW A \in SUBSET (1..Len(sent))
             PROVE  IsFiniteSet(A) /\ \A i \in A : IsFiniteSet(DOMAIN sent[i])
  OBVIOUS
<1>2. IsFiniteSet(A)
  <2>1. IsFiniteSet(1..Len(sent))
    BY <1>1, FS_Interval
  <2> QED  BY <2>1, FS_Subset
<1>3. ASSUME NEW i \in A PROVE IsFiniteSet(DOMAIN sent[i])
  <2>1. sent[i] \in Seq(Parts)
    BY ElementOfSeq, LinesAssumption
  <2>2. DOMAIN sent[i] = 1..Len(sent[i]) /\ Len(sent[i]) \in Nat
    BY <2>1, LenProperties
  <2> QED  BY <2>2, FS_Interval
<1> QED  BY <1>2, <1>3

LEMMA TwoBatches ==
  ASSUME sent \in Seq(Lines), NEW A \in SUBSET (1..Len(sent)),
         NEW B \in SUBSET (1..Len(sent)), A \cap B = {}
  PROVE  /\ Counts(sent, A) \in [Parts -> Nat]
         /\ Counts(sent, B) \in [Parts -> Nat]
         /\ Counts(sent, A \cup B) = Plus(Counts(sent, A), Counts(sent, B))
BY LinesAreFinite, CountsAddUp

LEMMA SendingCountsNothing ==
  ASSUME sent \in Seq(Lines), NEW l \in Lines, NEW A \in SUBSET (1..Len(sent))
  PROVE  Counts(Append(sent, l), A) = Counts(sent, A)
<1>1. \A i \in A : Append(sent, l)[i] = sent[i]
  BY AppendProperties
<1> QED  BY <1>1, CountsOfTheChosen

LEMMA StreamInitially == Init => StreamInv
<1> SUFFICES ASSUME Init PROVE StreamInv
  OBVIOUS
<1>1. sent \in Seq(Lines) /\ Len(sent) = 0 /\ 0 \in 0..0
  BY EmptySeq DEF Init
<1>2. Nothing \in [Parts -> Nat]
  BY TableTypes
<1>3. StreamType
  BY <1>1, <1>2 DEF Init, StreamType
<1> QED  BY <1>3 DEF Init, StreamInv, NoLineTwice, TablesAreRight

LEMMA BatchStep == ASSUME StreamInv, Batch PROVE StreamInv'
<1> USE DEF StreamInv, StreamType
<1> DEFINE shown == ingested \ swallowed
<1>1. /\ Counts(sent, inbox) \in [Parts -> Nat]
      /\ Counts(sent, shown) \in [Parts -> Nat]
      /\ Counts(sent, shown \cup inbox) = Plus(Counts(sent, shown), Counts(sent, inbox))
  BY TwoBatches DEF NoLineTwice
<1>2. Len(sent) \in Nat
  BY LenProperties
<1>3. Plus(printed, Counts(sent, inbox)) \in [Parts -> Nat]
  BY <1>1, TableTypes
<1>4. CASE StatefulBatch
  <2> USE <1>4 DEF StatefulBatch, TakeBatch
  <2>1. StreamType' /\ NoLineTwice'
    <3>1. Plus(Counts(sent, inbox), table) \in [Parts -> Nat]
      BY <1>1, TableTypes
    <3> QED  BY <1>2, <3>1 DEF NoLineTwice
  <2>2. table' = Plus(Counts(sent, ingested'), InitialState)
    <3>1. table = Plus(Counts(sent, shown), InitialState) /\ shown = ingested
      BY DEF TablesAreRight
    <3>2. table' = Plus(Counts(sent, inbox), Plus(Counts(sent, shown), InitialState))
      BY <3>1
    <3>3. table' = Plus(Plus(Counts(sent, inbox), Counts(sent, shown)), InitialState)
      <4> DEFINE a == Counts(sent, inbox)
                 b == Counts(sent, shown)
      <4>1. a \in [Parts -> Nat] /\ b \in [Parts -> Nat] /\ table' = Plus(a, Plus(b, InitialState))
        BY <1>1, <3>2
      <4> HIDE DEF a, b
      <4>2. table' = Plus(Plus(a, b), InitialState)
        BY ONLY <4>1, TableTypes
      <4> QED  BY <4>2 DEF a, b
    <3>4. Plus(Counts(sent, inbox), Counts(sent, shown)) = Counts(sent, ingested')
      BY <1>1, <3>1, TableTypes
    <3> QED  BY <3>3, <3>4
  <2> QED  BY <2>1, <2>2 DEF TablesAreRight
<1>5. CASE NetworkBatch
  <2> USE <1>5 DEF NetworkBatch, TakeBatch
  <2>1. StreamType' /\ NoLineTwice'
    BY <1>1, <1>2, <1>3 DEF NoLineTwice
  <2>2. printed = Counts(sent, shown) /\ (ingested \ swallowed)' = shown \cup inbox
    BY DEF TablesAreRight
  <2> QED  BY <1>1, <2>1, <2>2 DEF TablesAreRight
<1>6. CASE SqlBatch
  <2> USE <1>6 DEF SqlBatch, TakeBatch
  <2>1. \/ inbox = {} /\ table' = table /\ printed' = printed
        \/ table' = Counts(sent, inbox) /\ printed' = Plus(printed, Counts(sent, inbox))
    OBVIOUS
  <2>2. table' \in [Parts -> Nat] /\ printed' \in [Parts -> Nat]
    BY <1>1, <1>3, <2>1
  <2>3. inbox' = {} /\ ingested' = ingested \cup inbox
        /\ UNCHANGED <<program, sent, up, starts, offset, swallowed>>
    OBVIOUS
  <2>4. StreamType' /\ NoLineTwice'
    BY <1>2, <2>2, <2>3 DEF NoLineTwice
  <2>5. printed = Counts(sent, shown)
    BY DEF TablesAreRight
  <2>6. (ingested \ swallowed)' = shown \cup inbox
    BY <2>3 DEF NoLineTwice
  <2>7. printed' = Counts(sent, (ingested \ swallowed)')
    BY <1>1, <2>1, <2>5, <2>6
  <2> QED  BY <2>3, <2>4, <2>7 DEF TablesAreRight
(* A batch that fails is taken in, and neither shown nor counted.          *)
<1>8. CASE SqlBatchFails
  <2> USE <1>8 DEF SqlBatchFails, TakeBatch
  <2>1. (ingested \ swallowed)' = shown
    BY DEF NoLineTwice
  <2>2. StreamType' /\ NoLineTwice'
    BY <1>2 DEF NoLineTwice
  <2>3. printed' = Counts(sent, (ingested \ swallowed)')
    BY <2>1 DEF TablesAreRight
  <2> QED  BY <2>2, <2>3 DEF TablesAreRight
<1>7. CASE KafkaBatch
  <2> USE <1>7 DEF KafkaBatch
  <2> DEFINE old == 1..offset
             new == (offset + 1)..Len(sent)
  <2>1. old \cup new = 1..Len(sent) /\ old \cap new = {}
    BY <1>2
  <2>2. /\ Counts(sent, old) \in [Parts -> Nat] /\ Counts(sent, new) \in [Parts -> Nat]
        /\ Counts(sent, old \cup new) = Plus(Counts(sent, old), Counts(sent, new))
    BY <2>1, TwoBatches
  <2>3. table = Counts(sent, old)
    BY DEF TablesAreRight
  <2>4. table' = Counts(sent, 1..offset')
    BY <2>1, <2>2, <2>3
  <2>5. StreamType' /\ NoLineTwice'
    <3>1. table' \in [Parts -> Nat]
      BY <2>2, TableTypes
    <3> QED  BY <1>2, <3>1 DEF NoLineTwice
  <2> QED  BY <2>4, <2>5 DEF TablesAreRight
<1> QED  BY <1>4, <1>5, <1>6, <1>7, <1>8 DEF Batch

LEMMA StreamStep == StreamInv /\ [Next]_vars => StreamInv'
<1> SUFFICES ASSUME StreamInv, [Next]_vars PROVE StreamInv'
  OBVIOUS
<1> USE DEF StreamInv, StreamType
<1>0. Len(sent) \in Nat
  BY LenProperties
<1>1. CASE StartStream
  <2> USE <1>1 DEF StartStream, StartUp
  <2>1. StreamType' /\ NoLineTwice'
    <3>1. Nothing \in [Parts -> Nat] /\ InitialState \in [Parts -> Nat]
      BY TableTypes
    <3> QED  BY <1>0, <3>1 DEF NoLineTwice
  <2>2. Counts(sent, {}) = Nothing /\ Plus(Nothing, InitialState) = InitialState
    BY NothingCounted, TableTypes
  <2> QED  BY <2>1, <2>2 DEF TablesAreRight
<1>2. CASE StartQuery
  <2> USE <1>2 DEF StartQuery, StartUp
  <2>1. StreamType' /\ NoLineTwice'
    <3>1. Nothing \in [Parts -> Nat]
      BY TableTypes
    <3> QED  BY <1>0, <3>1 DEF NoLineTwice
  <2>2. Counts(sent, 1..0) = Nothing
    <3>1. 1..0 = {}
      OBVIOUS
    <3> QED  BY <3>1, NothingCounted
  <2> QED  BY <2>1, <2>2 DEF TablesAreRight
<1>3. CASE Send
  <2> USE <1>3 DEF Send
  <2>1. PICK l \in Lines : sent' = Append(sent, l)
    OBVIOUS
  <2>2. sent' \in Seq(Lines) /\ Len(sent') = Len(sent) + 1
    BY <2>1, AppendProperties
  <2>3. /\ inbox' \subseteq 1..(Len(sent) + 1)
        /\ inbox' \cap ingested = {}
    <3> DEFINE n == Len(sent)
    <3>1. /\ inbox' = inbox \/ inbox' = inbox \cup {n + 1}
          /\ inbox \subseteq 1..n /\ ingested \subseteq 1..n /\ n \in Nat
      BY <1>0
    <3> HIDE DEF n
    <3>2. n + 1 \notin ingested /\ 1..n \subseteq 1..(n + 1) /\ n + 1 \in 1..(n + 1)
      BY <3>1
    <3>3. inbox' \subseteq 1..(n + 1)
      BY <3>1, <3>2
    <3>4. inbox' \cap ingested = {}
      BY <3>1, <3>2 DEF NoLineTwice
    <3> QED  BY <3>3, <3>4 DEF n
  <2>4. ingested \subseteq 1..(Len(sent) + 1) /\ offset \in 0..(Len(sent) + 1)
    BY <1>0
  <2>5. StreamType' /\ NoLineTwice'
    BY <2>2, <2>3, <2>4 DEF NoLineTwice
  <2>6. /\ Counts(sent', ingested) = Counts(sent, ingested)
        /\ Counts(sent', ingested \ swallowed) = Counts(sent, ingested \ swallowed)
        /\ Counts(sent', 1..offset) = Counts(sent, 1..offset)
    BY <1>0, <2>1, SendingCountsNothing
  <2> QED  BY <2>5, <2>6 DEF TablesAreRight
<1>4. CASE Batch
  BY <1>4, BatchStep
<1>5. CASE Crash
  BY <1>5 DEF Crash, NoLineTwice, TablesAreRight
<1>6. CASE RunBatchJob
  BY <1>6 DEF RunBatchJob, stream, NoLineTwice, TablesAreRight
<1>7. CASE UNCHANGED vars
  BY <1>7 DEF vars, stream, NoLineTwice, TablesAreRight
<1> QED  BY <1>1, <1>2, <1>3, <1>4, <1>5, <1>6, <1>7 DEF Next

LEMMA StreamInvAlways == Spec => []StreamInv
BY StreamInitially, StreamStep, PTL DEF Spec

-----------------------------------------------------------------------------
(***************************************************************************)
(* Each line is counted once.                                              *)
(***************************************************************************)

LEMMA ToldIsCounted == StreamInv => EachLineOnce
<1> SUFFICES ASSUME StreamInv, starts > 0, NEW p \in Parts
             PROVE  Told(p) = Counts(sent, Counted)[p]
  BY DEF EachLineOnce
<1> USE DEF StreamInv, StreamType, Told, Counted
<1>1. CASE program = "stateful"
  <2>1. table = Plus(Counts(sent, ingested), InitialState) /\ ingested \ swallowed = ingested
    BY <1>1 DEF TablesAreRight
  <2>2. Counts(sent, ingested) \in [Parts -> Nat]
    BY LinesAreFinite, CountsAddUp DEF NoLineTwice
  <2>3. InitialState[p] \in Nat
    BY DEF InitialState
  <2> DEFINE count == Counts(sent, ingested)[p]
  <2>4. count \in Nat /\ table[p] = count + InitialState[p]
    BY <2>1, <2>2 DEF Plus
  <2> HIDE DEF count
  <2>5. table[p] - InitialState[p] = count
    BY <2>3, <2>4
  <2> QED  BY <1>1, <2>1, <2>5 DEF count
<1>2. CASE program = "kafka"
  BY <1>2 DEF TablesAreRight
<1>3. CASE program \in {"network", "sql"}
  BY <1>3 DEF TablesAreRight
<1> QED  BY <1>1, <1>2, <1>3 DEF Programs

(* However the lines fall into batches, and however often the program is   *)
(* killed and started again, what each of the four programs has told its   *)
(* user is the count of the lines it has taken in since, each once, but    *)
(* for the lines of the batches that failed and were passed over (except:  *)
(* pass in sql_network_wordcount.py), which are not counted at all.        *)
THEOREM StreamsCountEachLineOnce == Spec => []EachLineOnce
BY StreamInvAlways, ToldIsCounted, PTL

-----------------------------------------------------------------------------
(***************************************************************************)
(* The streams and the batch job.                                          *)
(***************************************************************************)
SplitLines(n) == [i \in 1..n |-> Split(sent[i])]

(* The batch job's result stays that of the lines it had.                  *)
ResultIsOfItsLines ==
  /\ seen \in 0..Len(sent)
  /\ resultat # NoResult => resultat = Counts(SplitLines(seen), 1..seen)

LEMMA ResultStep ==
  StreamInv /\ ResultIsOfItsLines /\ [Next]_vars => ResultIsOfItsLines'
<1> SUFFICES ASSUME StreamInv, ResultIsOfItsLines, [Next]_vars
             PROVE  ResultIsOfItsLines'
  OBVIOUS
<1> USE DEF StreamInv, StreamType, ResultIsOfItsLines
<1>1. Len(sent) \in Nat /\ DOMAIN sent = 1..Len(sent)
  BY LenProperties
<1>2. CASE Send
  <2>1. PICK l \in Lines : sent' = Append(sent, l)
    BY <1>2 DEF Send
  <2>2. Len(sent') = Len(sent) + 1 /\ \A i \in 1..Len(sent) : sent'[i] = sent[i]
    BY <2>1, AppendProperties
  <2>3. seen' = seen /\ resultat' = resultat
    BY <1>2 DEF Send
  <2>4. seen' \in 0..Len(sent')
    BY <1>1, <2>2, <2>3
  <2>5. SplitLines(seen)' = SplitLines(seen)
    BY <1>1, <2>2, <2>3 DEF SplitLines
  <2> QED  BY <2>3, <2>4, <2>5
<1>3. CASE RunBatchJob
  <2>1. sent' = sent /\ seen' = Len(sent) /\ resultat' = BatchCounts(sent)
    BY <1>3 DEF RunBatchJob
  <2>2. BatchCounts(sent) = Counts(SplitLines(Len(sent)), 1..Len(sent))
    BY <1>1 DEF BatchCounts, SplitLines
  <2>3. SplitLines(seen)' = SplitLines(Len(sent))
    BY <2>1 DEF SplitLines
  <2> QED  BY <1>1, <2>1, <2>2, <2>3
<1>4. CASE UNCHANGED <<sent, resultat, seen>>
  <2>1. SplitLines(seen)' = SplitLines(seen)
    BY <1>4 DEF SplitLines
  <2> QED  BY <1>4, <2>1
<1>5. \/ Send \/ RunBatchJob \/ UNCHANGED <<sent, resultat, seen>>
  BY DEF Next, Batch, StartStream, StartQuery, StartUp, StatefulBatch, NetworkBatch,
         SqlBatch, SqlBatchFails, TakeBatch, KafkaBatch, Crash, vars
<1> QED  BY <1>2, <1>3, <1>4, <1>5

LEMMA ResultAlways == Spec => []ResultIsOfItsLines
<1>1. Init => ResultIsOfItsLines
  BY EmptySeq DEF Init, ResultIsOfItsLines
<1> QED  BY <1>1, StreamInvAlways, ResultStep, PTL DEF Spec

(* Each place of the word w in the streams' parts is one of its places in  *)
(* the batch job's lines, and where w stands alone there is no other.      *)
LEMMA WordsOfTheLines ==
  ASSUME sent \in Seq(Lines), NEW n \in 0..Len(sent), NEW w \in Words
  PROVE  LET found == PlacesOf(SplitLines(n), 1..n, w)
             parts == PlacesOf(sent, 1..n, w)
         IN  /\ Cardinality(found) \in Nat /\ Cardinality(parts) <= Cardinality(found)
             /\ (\A i \in 1..n : \A j \in DOMAIN sent[i] : \A k \in DOMAIN Pieces[sent[i][j]] :
                   Pieces[sent[i][j]][k] = w => sent[i][j] = w)
                => Cardinality(parts) = Cardinality(found)
<1> DEFINE Finds(f, line) ==
      /\ f \in [DOMAIN Split(line) -> PiecePlaces(line)]
      /\ \A k, l \in DOMAIN f : f[k] = f[l] => k = l
      /\ \A k \in DOMAIN f : /\ Split(line)[k] = Pieces[line[f[k][1]]][f[k][2]]
                             /\ Split(line)[k] \in Words
      /\ \A x \in PiecePlaces(line) : \E k \in DOMAIN f : f[k] = x
    place == [i \in 1..n |-> CHOOSE f : Finds(f, sent[i])]
<1>0. \A i \in 1..n : sent[i] \in Seq(Parts)
  BY LinesAssumption, ElementOfSeq, LenProperties
<1>1. ASSUME NEW i \in 1..n PROVE Finds(place[i], sent[i])
  <2>1. sent[i] \in Seq(Parts)
    BY <1>0
  <2>2. PICK f \in [DOMAIN Split(sent[i]) -> PiecePlaces(sent[i])] :
          /\ \A k, l \in DOMAIN f : f[k] = f[l] => k = l
          /\ \A k \in DOMAIN f : /\ Split(sent[i])[k] = Pieces[sent[i][f[k][1]]][f[k][2]]
                                 /\ Split(sent[i])[k] \in Words
          /\ \A x \in PiecePlaces(sent[i]) : \E k \in DOMAIN f : f[k] = x
    BY <2>1, SplitFindsWords
  <2>3. Finds(f, sent[i])
    BY <2>2
  <2> HIDE DEF Finds
  <2> QED  BY <2>3
<1> HIDE DEF place
<1> DEFINE found == PlacesOf(SplitLines(n), 1..n, w)
           parts == PlacesOf(sent, 1..n, w)
           rank(i, j) == CHOOSE k \in DOMAIN Split(sent[i]) : place[i][k] = <<j, 1>>
           move == [ij \in parts |-> <<ij[1], rank(ij[1], ij[2])>>]
<1>2. \A ik : ik \in found <=> \E i \in 1..n : \E k \in DOMAIN Split(sent[i]) :
                                  ik = <<i, k>> /\ Split(sent[i])[k] = w
  BY DEF PlacesOf, Places, SplitLines
<1>3. \A ij : ij \in parts <=> \E i \in 1..n : \E j \in DOMAIN sent[i] :
                                  ij = <<i, j>> /\ sent[i][j] = w
  BY DEF PlacesOf, Places
<1>4. ASSUME NEW i \in 1..n, NEW j \in DOMAIN sent[i], sent[i][j] = w
      PROVE  /\ rank(i, j) \in DOMAIN Split(sent[i])
             /\ place[i][rank(i, j)] = <<j, 1>>
             /\ Split(sent[i])[rank(i, j)] = w
  <2>1. <<j, 1>> \in PiecePlaces(sent[i]) /\ Pieces[sent[i][j]][1] = w
    BY <1>0, <1>4, AWordIsItsPiece
  <2>2. \E k \in DOMAIN Split(sent[i]) : place[i][k] = <<j, 1>>
    BY <1>1, <2>1
  <2>3. rank(i, j) \in DOMAIN Split(sent[i]) /\ place[i][rank(i, j)] = <<j, 1>>
    BY <2>2
  <2> HIDE DEF rank
  <2>4. Split(sent[i])[rank(i, j)] = Pieces[sent[i][j]][1]
    BY <1>1, <2>3
  <2> QED  BY <2>1, <2>3, <2>4
<1> HIDE DEF found, parts, rank
<1>5. move \in Injection(parts, found)
  <2>1. ASSUME NEW ij \in parts PROVE move[ij] \in found
    <3>1. PICK i \in 1..n : \E j \in DOMAIN sent[i] : ij = <<i, j>> /\ sent[i][j] = w
      BY <1>3
    <3>2. PICK j \in DOMAIN sent[i] : ij = <<i, j>> /\ sent[i][j] = w
      BY <3>1
    <3>3. move[ij] = <<i, rank(i, j)>>
      BY <3>2
    <3> HIDE DEF move
    <3> QED  BY <1>2, <1>4, <3>2, <3>3
  <2>2. ASSUME NEW a \in parts, NEW b \in parts, move[a] = move[b] PROVE a = b
    <3>1. PICK i, j : i \in 1..n /\ j \in DOMAIN sent[i] /\ a = <<i, j>> /\ sent[i][j] = w
      BY <1>3
    <3>2. PICK k, l : k \in 1..n /\ l \in DOMAIN sent[k] /\ b = <<k, l>> /\ sent[k][l] = w
      BY <1>3
    <3>3. i = k /\ rank(i, j) = rank(k, l)
      BY <2>2, <3>1, <3>2
    <3>4. <<j, 1>> = <<l, 1>>
      BY <1>4, <3>1, <3>2, <3>3
    <3> QED  BY <3>1, <3>2, <3>3, <3>4
  <2>3. move = [ij \in parts |-> move[ij]]
    OBVIOUS
  <2> HIDE DEF move
  <2>4. move \in [parts -> found]
    BY <2>1, <2>3
  <2>5. \A a, b \in parts : move[a] = move[b] => a = b
    BY <2>2
  <2> QED  BY <2>4, <2>5 DEF Injection, IsInjective
<1>6. ASSUME \A i \in 1..n : \A j \in DOMAIN sent[i] : \A k \in DOMAIN Pieces[sent[i][j]] :
               Pieces[sent[i][j]][k] = w => sent[i][j] = w
      PROVE  move \in Surjection(parts, found)
  <2>1. ASSUME NEW ik \in found PROVE \E ij \in parts : move[ij] = ik
    <3>1. PICK i, k : /\ i \in 1..n /\ k \in DOMAIN Split(sent[i])
                       /\ ik = <<i, k>> /\ Split(sent[i])[k] = w
      BY <1>2
    <3> DEFINE j == place[i][k][1]
               m == place[i][k][2]
    <3>2. place[i][k] \in PiecePlaces(sent[i]) /\ Pieces[sent[i][j]][m] = w
      BY <1>1, <3>1
    <3>3. /\ j \in DOMAIN sent[i] /\ m \in DOMAIN Pieces[sent[i][j]]
          /\ place[i][k] = <<j, m>>
      BY <1>0, <3>1, <3>2, PiecesArePlaced
    <3> HIDE DEF j, m
    <3>4. sent[i][j] = w
      BY <1>6, <3>1, <3>2, <3>3
    <3>5. m = 1
      <4>1. sent[i] \in Seq(Parts) /\ sent[i][j] \in Words
        BY <1>0, <3>1, <3>4
      <4>2. DOMAIN Pieces[sent[i][j]] = {1}
        BY <3>3, <4>1, AWordIsItsPiece
      <4> QED  BY <3>3, <4>2
    <3>6. rank(i, j) \in DOMAIN Split(sent[i]) /\ place[i][rank(i, j)] = place[i][k]
      BY <1>4, <3>1, <3>3, <3>4, <3>5
    <3>7. rank(i, j) = k
      BY <1>1, <3>1, <3>6
    <3>8. <<i, j>> \in parts
      BY <1>3, <3>1, <3>3, <3>4
    <3> QED  BY <3>1, <3>7, <3>8
  <2> QED  BY <1>5, <2>1 DEF Injection, Surjection
<1>7. IsFiniteSet(found)
  <2>1. ASSUME NEW i \in 1..n PROVE IsFiniteSet(DOMAIN SplitLines(n)[i])
    <3>1. IsFiniteSet(DOMAIN Split(sent[i]))
      BY <1>0, SplitIsALine
    <3> QED  BY <3>1 DEF SplitLines
  <2>2. IsFiniteSet(1..n)
    BY LenProperties, FS_Interval
  <2> QED  BY <2>1, <2>2, PlacesAreFinite DEF found
<1> HIDE DEF move
<1>8. Cardinality(found) \in Nat /\ Cardinality(parts) <= Cardinality(found)
  BY <1>5, <1>7, FS_CardinalityType, FS_Injection
<1>9. move \in Surjection(parts, found) => Cardinality(parts) = Cardinality(found)
  BY <1>5, <1>7, FS_Injection
<1> QED  BY <1>6, <1>8, <1>9 DEF found, parts

(* What is no word, the batch job finds nowhere.                           *)
LEMMA OnlyWordsAreFound ==
  ASSUME sent \in Seq(Lines), NEW n \in 0..Len(sent), NEW p, p \notin Words
  PROVE  PlacesOf(SplitLines(n), 1..n, p) = {}
<1> SUFFICES ASSUME NEW i \in 1..n, NEW k \in DOMAIN Split(sent[i])
             PROVE  Split(sent[i])[k] \in Words
  BY DEF PlacesOf, Places, SplitLines
<1>1. sent[i] \in Seq(Parts)
  BY LinesAssumption, ElementOfSeq, LenProperties
<1> QED  BY <1>1, SplitFindsWords

(* The batch job, which cuts at any white space, and each of the streams,  *)
(* which cut at blanks, agree over the same lines on every word that has   *)
(* no tab beside it in them, whatever batches and restarts the stream went *)
(* through; the stream never counts a word more often than the batch job,  *)
(* and what is no word is counted by the stream alone.                     *)
THEOREM StreamAgreesWithBatch == Spec => []StreamMeetsBatch
<1>1. ASSUME StreamInv, ResultIsOfItsLines PROVE StreamMeetsBatch
  <2> SUFFICES ASSUME resultat # NoResult, starts > 0, Counted = 1..seen
               PROVE  /\ \A w \in Words : Told(w) <= resultat[w]
                      /\ \A w \in Words : StandsAlone(w) => Told(w) = resultat[w]
                      /\ \A p \in Parts \ Words : resultat[p] = 0
    BY DEF StreamMeetsBatch
  <2>1. /\ sent \in Seq(Lines) /\ seen \in 0..Len(sent)
        /\ resultat = [p \in Parts |-> Cardinality(PlacesOf(SplitLines(seen), 1..seen, p))]
    BY <1>1, CountsArePlaces DEF StreamInv, StreamType, ResultIsOfItsLines
  <2>2. \A p \in Parts : Told(p) = Cardinality(PlacesOf(sent, 1..seen, p))
    BY <1>1, ToldIsCounted, CountsArePlaces DEF EachLineOnce
  <2>3. \A w \in Words : w \in Parts
    BY DEF Words
  <2>4. \A w \in Words : Told(w) <= resultat[w]
    BY <2>1, <2>2, <2>3, WordsOfTheLines
  <2>5. \A w \in Words : StandsAlone(w) => Told(w) = resultat[w]
    BY <2>1, <2>2, <2>3, WordsOfTheLines DEF StandsAlone
  <2>6. \A p \in Parts \ Words : resultat[p] = 0
    BY <2>1, OnlyWordsAreFound, FS_EmptySet
  <2> QED  BY <2>4, <2>5, <2>6
<1> QED  BY <1>1, StreamInvAlways, ResultAlways, PTL

-----------------------------------------------------------------------------
(***************************************************************************)
(* The longest words.                                                      *)
(***************************************************************************)
LEMMA LongerIsOrder ==
  ASSUME NEW S, NEW word \in [S -> Parts], NEW earlier, IsOrder(S, earlier)
  PROVE  IsOrder(S, Longer(word, earlier))
<1> DEFINE length(x) == Length[word[x]]
<1>1. \A x \in S : length(x) \in Nat
  BY LengthAssumption
<1>2. \A x, y \in S : <<x, y>> \in Longer(word, earlier)
                        <=> \/ length(x) > length(y)
                            \/ length(x) = length(y) /\ <<x, y>> \in earlier
  BY DEF Longer
<1> HIDE DEF length
<1>3. ASSUME NEW x \in S PROVE <<x, x>> \notin Longer(word, earlier)
  <2>1. ~(length(x) > length(x))
    BY <1>1
  <2>2. <<x, x>> \notin earlier
    BY DEF IsOrder
  <2> QED  BY <1>2, <2>1, <2>2
<1>4. ASSUME NEW x \in S, NEW y \in S, NEW z \in S,
             <<x, y>> \in Longer(word, earlier), <<y, z>> \in Longer(word, earlier)
      PROVE  <<x, z>> \in Longer(word, earlier)
  <2>1. /\ length(x) > length(y) \/ (length(x) = length(y) /\ <<x, y>> \in earlier)
        /\ length(y) > length(z) \/ (length(y) = length(z) /\ <<y, z>> \in earlier)
    BY <1>2, <1>4
  <2>2. length(x) \in Nat /\ length(y) \in Nat /\ length(z) \in Nat
    BY <1>1
  <2>3. \/ length(x) > length(z)
        \/ length(x) = length(z) /\ <<x, y>> \in earlier /\ <<y, z>> \in earlier
    BY <2>1, <2>2
  <2>4. <<x, y>> \in earlier /\ <<y, z>> \in earlier => <<x, z>> \in earlier
    BY DEF IsOrder
  <2> QED  BY <1>2, <2>3, <2>4
<1>5. ASSUME NEW x \in S, NEW y \in S
      PROVE  \/ x = y \/ <<x, y>> \in Longer(word, earlier)
             \/ <<y, x>> \in Longer(word, earlier)
  <2>1. length(x) > length(y) \/ length(y) > length(x) \/ length(x) = length(y)
    BY <1>1
  <2>2. x = y \/ <<x, y>> \in earlier \/ <<y, x>> \in earlier
    BY DEF IsOrder
  <2> QED  BY <1>2, <2>1, <2>2
<1> QED  BY <1>3, <1>4, <1>5 DEF IsOrder

(* The two longest: nothing longer is left out, and of two places one at   *)
(* least is no longer than the second.                                     *)
AreTwoLongest(two, S, word) ==
  /\ two \in Seq(Parts) /\ Len(two) \in 0..2 /\ DOMAIN two = 1..Len(two)
  /\ \A k \in DOMAIN two : \E x \in S : two[k] = word[x]
  /\ \A x \in S :
       /\ Len(two) >= 1 /\ Length[word[x]] <= Length[two[1]]
       /\ \/ \E k \in DOMAIN two : two[k] = word[x]
          \/ Len(two) = 2 /\ Length[word[x]] <= Length[two[2]]
  /\ \A x, y \in S :
       \/ x = y
       \/ /\ Len(two) = 2
          /\ Length[word[x]] <= Length[two[2]] \/ Length[word[y]] <= Length[two[2]]
  /\ (\A x, y \in S : word[x] = word[y] => x = y) /\ Len(two) = 2
       => two[1] # two[2]

LEMMA TwoLongestProperties ==
  ASSUME NEW S, IsFiniteSet(S), NEW word \in [S -> Parts],
         NEW earlier, IsOrder(S, earlier)
  PROVE  AreTwoLongest(TwoLongest(word, earlier), S, word)
<1> DEFINE size == Cardinality(S)
           longer == Longer(word, earlier)
           order == InOrder(S, longer)
           two == TwoLongest(word, earlier)
           short == Smaller(2, size)
           length(x) == Length[word[x]]
<1>1. /\ size \in Nat
      /\ order \in [1..size -> S]
      /\ \A x \in S : \E k \in 1..size : order[k] = x
      /\ \A k, l \in 1..size : k < l => <<order[k], order[l]>> \in longer
  BY LongerIsOrder, InOrderProperties
<1>2. two = [k \in 1..short |-> word[order[k]]]
  BY DEF TwoLongest
<1>3. \A x, y \in S : <<x, y>> \in longer
                        => /\ length(x) \in Nat /\ length(y) \in Nat
                           /\ length(x) >= length(y)
  BY LengthAssumption DEF Longer
<1>4. \A x \in S : <<x, x>> \notin longer
  BY LongerIsOrder DEF IsOrder
<1>5. \A x \in S : length(x) \in Nat
  BY LengthAssumption
<1> HIDE DEF size, order, longer, two
<1>6. short \in 0..2 /\ short <= size /\ (short < 2 => short = size)
  BY <1>1 DEF Smaller
<1> HIDE DEF short, length
<1>7. ASSUME NEW k \in 1..size, NEW l \in 1..size, k <= l
      PROVE  length(order[l]) <= length(order[k])
  <2>1. order[k] \in S /\ order[l] \in S
    BY <1>1
  <2>2. CASE k = l
    BY <1>5, <2>1, <2>2
  <2>3. CASE k # l
    <3>1. k < l
      BY <1>1, <1>7, <2>3
    <3> QED  BY <1>1, <1>3, <2>1, <3>1
  <2> QED  BY <2>2, <2>3
<1>8. two \in [1..short -> Parts]
  BY <1>1, <1>2, <1>6
<1>9. two \in Seq(Parts) /\ Len(two) = short /\ DOMAIN two = 1..short
  <2>1. two \in Seq(Parts)
    BY <1>6, <1>8, SeqDef
  <2> QED  BY <1>6, <1>8, <2>1, LenProperties
<1>10. \A k \in 1..short : k \in 1..size /\ two[k] = word[order[k]] /\ order[k] \in S
  BY <1>1, <1>2, <1>6
<1>11. \A k \in 1..short : Length[two[k]] = length(order[k])
  BY <1>10 DEF length
<1>12. ASSUME NEW x \in S
       PROVE  /\ short >= 1 /\ length(x) <= Length[two[1]]
              /\ \/ \E k \in 1..short : two[k] = word[x]
                 \/ short = 2 /\ length(x) <= Length[two[2]]
  <2>1. PICK k \in 1..size : order[k] = x
    BY <1>1
  <2>2. 1 \in 1..size /\ 1 <= k /\ 1 \in 1..short
    BY <1>1, <1>6
  <2>3. length(x) <= Length[two[1]]
    BY <1>7, <1>11, <2>1, <2>2
  <2>4. CASE k \in 1..short
    BY <1>10, <2>1, <2>2, <2>3, <2>4
  <2>5. CASE k \notin 1..short
    <3>1. short = 2 /\ 2 \in 1..size /\ 2 <= k /\ 2 \in 1..short
      BY <1>1, <1>6, <2>5
    <3> QED  BY <1>7, <1>11, <2>1, <2>2, <2>3, <3>1
  <2> QED  BY <2>4, <2>5
<1>13. ASSUME NEW x \in S, NEW y \in S, x # y
       PROVE  short = 2 /\ (length(x) <= Length[two[2]] \/ length(y) <= Length[two[2]])
  <2>1. PICK k \in 1..size : order[k] = x
    BY <1>1
  <2>2. PICK l \in 1..size : order[l] = y
    BY <1>1
  <2>3. k # l
    BY <1>13, <2>1, <2>2
  <2>4. short = 2 /\ 2 \in 1..size /\ (2 <= k \/ 2 <= l) /\ 2 \in 1..short
    BY <1>1, <1>6, <2>3
  <2> QED  BY <1>7, <1>11, <2>1, <2>2, <2>4
<1>14. ASSUME \A x, y \in S : word[x] = word[y] => x = y, short = 2
       PROVE  two[1] # two[2]
  <2>1. 1 \in 1..short /\ 2 \in 1..short /\ 1 < 2
    BY <1>14
  <2>2. <<order[1], order[2]>> \in longer
    BY <1>1, <1>10, <2>1
  <2>3. order[1] # order[2]
    BY <1>4, <1>10, <2>1, <2>2
  <2> QED  BY <1>10, <1>14, <2>1, <2>3
<1>15. \A k \in 1..short : \E x \in S : two[k] = word[x]
  BY <1>10
<1>16. AreTwoLongest(two, S, word)
  BY <1>6, <1>9, <1>12, <1>13, <1>14, <1>15 DEF AreTwoLongest, length
<1> QED  BY <1>16 DEF two

LEMMA MapperKeepsTheLongest ==
  ASSUME NEW line \in Seq(Parts)
  PROVE  AreTwoLongest(MapperGetWords(line), DOMAIN Split(line), Split(line))
BY SplitIsALine, IncreasingIsOrder, TwoLongestProperties DEF MapperGetWords

(* Each word found is found somewhere first, and only there.               *)
LEMMA NewsAreFirst ==
  ASSUME NEW found, DOMAIN found \subseteq Nat \X Nat, IsFiniteSet(DOMAIN found)
  PROVE  /\ News(found) \subseteq DOMAIN found
         /\ \A x, y \in News(found) : found[x] = found[y] => x = y
         /\ \A x \in DOMAIN found : \E y \in News(found) : found[y] = found[x]
<1> DEFINE P == DOMAIN found
           before == Sooner(P)
<1>1. IsOrder(P, before)
  BY SoonerIsOrder
<1>2. \A x : x \in News(found) <=> /\ x \in P
                                   /\ \A y \in P : <<y, x>> \in before => found[y] # found[x]
  BY DEF News
<1> HIDE DEF before
<1>3. ASSUME NEW x \in News(found), NEW y \in News(found), found[x] = found[y]
      PROVE  x = y
  <2>1. x = y \/ <<x, y>> \in before \/ <<y, x>> \in before
    BY <1>1, <1>2 DEF IsOrder
  <2> QED  BY <1>2, <1>3, <2>1
<1>4. ASSUME NEW x \in P PROVE \E y \in News(found) : found[y] = found[x]
  <2> DEFINE T == {y \in P : found[y] = found[x]}
             s == InOrder(T, before)
  <2>1. IsFiniteSet(T) /\ x \in T
    BY FS_Subset
  <2>2. IsOrder(T, before)
    BY <1>1 DEF IsOrder
  <2> HIDE DEF T
  <2>3. /\ Cardinality(T) \in Nat /\ s \in [1..Cardinality(T) -> T]
        /\ \A y \in T : \E k \in 1..Cardinality(T) : s[k] = y
        /\ \A k, l \in 1..Cardinality(T) : k < l => <<s[k], s[l]>> \in before
    BY <2>1, <2>2, InOrderProperties
  <2> HIDE DEF s
  <2>4. 1 \in 1..Cardinality(T) /\ s[1] \in T
    BY <2>1, <2>3
  <2>5. ASSUME NEW y \in T, <<y, s[1]>> \in before PROVE FALSE
    <3>1. PICK k \in 1..Cardinality(T) : s[k] = y
      BY <2>3
    <3>2. k = 1 \/ <<s[1], y>> \in before
      BY <2>3, <2>4, <3>1
    <3> QED  BY <2>2, <2>4, <2>5, <3>1, <3>2 DEF IsOrder
  <2>6. /\ s[1] \in P /\ found[s[1]] = found[x]
        /\ \A y \in P : <<y, s[1]>> \in before => found[y] # found[s[1]]
    BY <2>4, <2>5 DEF T
  <2> QED  BY <1>2, <2>6
<1> QED  BY <1>2, <1>3, <1>4

LEMMA FoundByTheMappers ==
  ASSUME NEW lines \in Seq(Seq(Parts))
  PROVE  /\ DOMAIN Found(lines) \subseteq Nat \X Nat /\ IsFiniteSet(DOMAIN Found(lines))
         /\ \A x : x \in DOMAIN Found(lines) <=>
              \E i \in DOMAIN lines : \E k \in DOMAIN MapperGetWords(lines[i]) : x = <<i, k>>
         /\ \A i \in DOMAIN lines : \A k \in DOMAIN MapperGetWords(lines[i]) :
              Found(lines)[<<i, k>>] = MapperGetWords(lines[i])[k]
<1> DEFINE places == UNION {{<<i, k>> : k \in DOMAIN MapperGetWords(lines[i])} :
                              i \in DOMAIN lines}
<1>1. \A x : x \in places <=>
              \E i \in DOMAIN lines : \E k \in DOMAIN MapperGetWords(lines[i]) : x = <<i, k>>
  OBVIOUS
<1>2. Found(lines) = [x \in places |-> MapperGetWords(lines[x[1]])[x[2]]]
  BY DEF Found
<1> HIDE DEF places
<1>3. /\ DOMAIN lines = 1..Len(lines) /\ Len(lines) \in Nat
      /\ \A i \in DOMAIN lines : lines[i] \in Seq(Parts)
  BY LenProperties, ElementOfSeq
<1>4. \A i \in DOMAIN lines : DOMAIN MapperGetWords(lines[i]) \subseteq 1..2
  <2> SUFFICES ASSUME NEW i \in DOMAIN lines
               PROVE  DOMAIN MapperGetWords(lines[i]) \subseteq 1..2
    OBVIOUS
  <2> DEFINE two == MapperGetWords(lines[i])
  <2>1. Len(two) \in 0..2 /\ DOMAIN two = 1..Len(two)
    BY <1>3, MapperKeepsTheLongest DEF AreTwoLongest
  <2> HIDE DEF two
  <2>2. DOMAIN two \subseteq 1..2
    BY <2>1
  <2> QED  BY <2>2 DEF two
<1>5. places \subseteq (1..Len(lines)) \X (1..2)
  BY <1>1, <1>3, <1>4
<1>6. IsFiniteSet((1..Len(lines)) \X (1..2))
  <2>1. 1 \in Int /\ 2 \in Int /\ Len(lines) \in Int
    BY <1>3
  <2>2. IsFiniteSet(1..Len(lines))
    BY <2>1, FS_Interval
  <2>3. IsFiniteSet(1..2)
    BY <2>1, FS_Interval
  <2> QED  BY <2>2, <2>3, FS_Product
<1>7. IsFiniteSet(places) /\ places \subseteq Nat \X Nat
  <2>1. (1..Len(lines)) \X (1..2) \subseteq Nat \X Nat
    BY <1>3
  <2> QED  BY <1>5, <1>6, <2>1, FS_Subset
<1> QED  BY <1>1, <1>2, <1>7

(* Of any lines, mapper and reducer keep the longest words, up to two, and *)
(* no longer word is dropped, unless a line has taken both places of the   *)
(* mapper with one word (t[:2] in mapper_get_words): the reducer joins the *)
(* lines' words without losing any (if j not in t).                        *)
LEMMA LongestOfTheLines == sent \in Seq(Seq(Parts)) => LongestKept
<1> SUFFICES ASSUME sent \in Seq(Seq(Parts)) PROVE LongestKept
  OBVIOUS
<1> DEFINE found == Found(sent)
           new == News(found)
           word == [x \in new |-> found[x]]
           kept == TopWords(sent)
           words == UNION {{Split(sent[i])[j] : j \in DOMAIN Split(sent[i])} : i \in DOMAIN sent}
           mapped(i) == MapperGetWords(sent[i])
           twice(i) == Len(mapped(i)) = 2 /\ mapped(i)[1] = mapped(i)[2]
<1>1. \A i \in DOMAIN sent : sent[i] \in Seq(Parts)
  BY LenProperties, ElementOfSeq
<1>2. \A w : w \in words <=>
        \E i \in DOMAIN sent : \E j \in DOMAIN Split(sent[i]) : w = Split(sent[i])[j]
  OBVIOUS
<1>3. \A i \in DOMAIN sent : AreTwoLongest(mapped(i), DOMAIN Split(sent[i]), Split(sent[i]))
  BY <1>1, MapperKeepsTheLongest
<1>4. /\ DOMAIN found \subseteq Nat \X Nat /\ IsFiniteSet(DOMAIN found)
      /\ \A x : x \in DOMAIN found <=>
           \E i \in DOMAIN sent : \E k \in DOMAIN mapped(i) : x = <<i, k>>
      /\ \A i \in DOMAIN sent : \A k \in DOMAIN mapped(i) : found[<<i, k>>] = mapped(i)[k]
  BY FoundByTheMappers
<1>5. kept = TwoLongest(word, Sooner(new))
  BY DEF TopWords, ReducerCountWords
<1>6. LongestKept <=>
        /\ \A k \in DOMAIN kept : kept[k] \in words
        /\ Len(kept) = 2 => kept[1] # kept[2]
        /\ \A w \in words : kept # <<>> /\ Length[w] <= Length[kept[1]]
        /\ (\A i \in DOMAIN sent : ~twice(i)) =>
             \A w \in words : \/ \E k \in DOMAIN kept : kept[k] = w
                              \/ Len(kept) = 2 /\ Length[w] <= Length[kept[2]]
  BY DEF LongestKept
<1>7. \A i \in DOMAIN sent : \A j \in DOMAIN Split(sent[i]) : Split(sent[i])[j] \in Parts
  BY <1>1, SplitIsALine
<1> HIDE DEF mapped, twice, words, found, kept
<1>8. /\ new \subseteq DOMAIN found
      /\ \A x, y \in new : found[x] = found[y] => x = y
      /\ \A x \in DOMAIN found : \E y \in new : found[y] = found[x]
  BY <1>4, NewsAreFirst
<1>9. \A x \in DOMAIN found : found[x] \in words /\ found[x] \in Parts
  <2> SUFFICES ASSUME NEW i \in DOMAIN sent, NEW k \in DOMAIN mapped(i)
               PROVE  mapped(i)[k] \in words /\ mapped(i)[k] \in Parts
    BY <1>4
  <2>1. PICK j \in DOMAIN Split(sent[i]) : mapped(i)[k] = Split(sent[i])[j]
    BY <1>3 DEF AreTwoLongest
  <2> QED  BY <1>2, <1>7, <2>1
<1>10. AreTwoLongest(kept, new, word)
  <2>1. IsFiniteSet(new) /\ new \subseteq Nat \X Nat
    BY <1>4, <1>8, FS_Subset
  <2>2. word \in [new -> Parts]
    BY <1>8, <1>9
  <2> HIDE DEF new, word
  <2> QED  BY <1>5, <2>1, <2>2, SoonerIsOrder, TwoLongestProperties
<1> HIDE DEF new
<1>11. \A x \in new : word[x] = found[x]
  OBVIOUS
<1> HIDE DEF word
<1>12. \A k \in DOMAIN kept : kept[k] \in words
  BY <1>8, <1>9, <1>10, <1>11 DEF AreTwoLongest
<1>13. Len(kept) = 2 => kept[1] # kept[2]
  BY <1>8, <1>10, <1>11 DEF AreTwoLongest
(* Where a mapper's word is found first.                                   *)
<1>14. ASSUME NEW i \in DOMAIN sent, NEW k \in DOMAIN mapped(i)
       PROVE  \E x \in new : word[x] = mapped(i)[k]
  <2>1. <<i, k>> \in DOMAIN found /\ found[<<i, k>>] = mapped(i)[k]
    BY <1>4
  <2>2. PICK x \in new : found[x] = found[<<i, k>>]
    BY <1>8, <2>1
  <2> QED  BY <1>11, <2>1, <2>2
<1>15. ASSUME NEW w \in words
       PROVE  /\ Len(kept) >= 1 /\ Length[w] <= Length[kept[1]]
              /\ (\A i \in DOMAIN sent : ~twice(i)) =>
                   \/ \E k \in DOMAIN kept : kept[k] = w
                   \/ Len(kept) = 2 /\ Length[w] <= Length[kept[2]]
  <2>1. PICK i \in DOMAIN sent : \E j \in DOMAIN Split(sent[i]) : w = Split(sent[i])[j]
    BY <1>2
  <2> DEFINE two == mapped(i)
  <2>2. /\ Len(two) \in 0..2 /\ DOMAIN two = 1..Len(two)
        /\ Len(two) >= 1 /\ Length[w] <= Length[two[1]]
        /\ \/ \E k \in DOMAIN two : two[k] = w
           \/ Len(two) = 2 /\ Length[w] <= Length[two[2]]
    BY <1>3, <2>1 DEF AreTwoLongest
  <2>3. twice(i) <=> Len(two) = 2 /\ two[1] = two[2]
    BY DEF twice
  <2>4. \A k \in DOMAIN two : two[k] \in Parts
    BY <1>4, <1>9
  <2>5. \A k \in DOMAIN two : \E x \in new : word[x] = two[k]
    BY <1>14
  <2> HIDE DEF two
  <2>6. w \in Parts
    BY <1>7, <2>1
  <2>7. /\ Len(kept) \in 0..2 /\ DOMAIN kept = 1..Len(kept)
        /\ \A k \in DOMAIN kept : kept[k] \in Parts
    BY <1>10, ElementOfSeq DEF AreTwoLongest
  <2>8. \A p \in Parts : Length[p] \in Nat
    BY LengthAssumption
  <2>9. Len(kept) >= 1 /\ Length[w] <= Length[kept[1]]
    <3>1. 1 \in DOMAIN two
      BY <2>2
    <3>2. PICK x \in new : word[x] = two[1]
      BY <2>5, <3>1
    <3>3. Len(kept) >= 1 /\ Length[two[1]] <= Length[kept[1]]
      BY <1>10, <3>2 DEF AreTwoLongest
    <3>4. 1 \in DOMAIN kept
      BY <2>7, <3>3
    <3> QED  BY <2>2, <2>4, <2>6, <2>7, <2>8, <3>1, <3>3, <3>4
  <2>10. CASE \E k \in DOMAIN two : two[k] = w
    <3>1. PICK x \in new : word[x] = w
      BY <2>5, <2>10
    <3>2. \/ \E k \in DOMAIN kept : kept[k] = w
          \/ Len(kept) = 2 /\ Length[w] <= Length[kept[2]]
      BY <1>10, <3>1 DEF AreTwoLongest
    <3> QED  BY <2>9, <3>2
  <2>11. CASE (Len(two) = 2 /\ Length[w] <= Length[two[2]]) /\ ~twice(i)
    <3>1. 1 \in DOMAIN two /\ 2 \in DOMAIN two /\ two[1] # two[2]
      BY <2>2, <2>3, <2>11
    <3>2. PICK x \in new : word[x] = two[1]
      BY <2>5, <3>1
    <3>3. PICK y \in new : word[y] = two[2]
      BY <2>5, <3>1
    <3>4. /\ Len(kept) = 2
          /\ Length[two[1]] <= Length[kept[2]] \/ Length[two[2]] <= Length[kept[2]]
      BY <1>10, <3>1, <3>2, <3>3 DEF AreTwoLongest
    <3>5. 2 \in DOMAIN kept
      BY <2>7, <3>4
    <3>6. Length[w] <= Length[kept[2]]
      BY <2>2, <2>4, <2>6, <2>7, <2>8, <2>11, <3>1, <3>4, <3>5
    <3> QED  BY <2>9, <3>4, <3>6
  <2> QED  BY <2>2, <2>9, <2>10, <2>11
<1>16. \A w \in words : kept # <<>>
  BY <1>15, EmptySeq
<1> QED  BY <1>6, <1>12, <1>13, <1>15, <1>16

(* Whatever lines are sent, mapper and reducer keep two of the longest     *)
(* words and drop none that is longer (mrjob/code/wordcount.py); only a    *)
(* mapper that gives both places to one word can lose a longer one.        *)
THEOREM LongestWordsKept == Spec => []LongestKept
<1>1. StreamInv => sent \in Seq(Seq(Parts))
  <2> SUFFICES ASSUME sent \in Seq(Lines) PROVE sent \in Seq(Seq(Parts))
    BY DEF StreamInv, StreamType
  <2>1. sent \in [1..Len(sent) -> Seq(Parts)] /\ Len(sent) \in Nat
    BY LinesAssumption, LenProperties
  <2> QED  BY <2>1, SeqDef
<1>2. StreamInv => LongestKept
  BY <1>1, LongestOfTheLines
<1> QED  BY <1>2, StreamInvAlways, PTL
=============================================================================
