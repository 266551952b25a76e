-------------------------------- MODULE WordJobs --------------------------------
(***************************************************************************)
(* What the word-count programs compute from lines: the counts of the      *)
(* Spark jobs and of mrwordcount.py, and the two longest words of          *)
(* mrjob/code/wordcount.py.  A line is the sequence of its parts between   *)
(* single blanks: line.split(" ").  Two blanks in a row, or an empty line, *)
(* give the part Empty; a part may hold tabs, at which split() cuts too.   *)
(***************************************************************************)
EXTENDS Naturals, Sequences, FiniteSets

CONSTANTS Length,   \* the length of each part
          Empty,    \* the part without a letter
          Pieces    \* the words that split() finds in each part

Parts == DOMAIN Length
Words == {p \in Parts : Pieces[p] = <<p>>}
Nothing == [p \in Parts |-> 0]

ASSUME LengthAssumption ==
  /\ Length \in [Parts -> Nat] /\ Empty \in Parts
  /\ \A p \in Parts : Length[p] = 0 <=> p = Empty

(* What split() finds is not cut further, and in nothing it finds nothing. *)
ASSUME PiecesAssumption ==
  /\ Pieces \in [Parts -> Seq(Parts)] /\ Pieces[Empty] = <<>>
  /\ \A p \in Parts : \A k \in DOMAIN Pieces[p] : Pieces[p][k] \in Words

(* How often each part occurs in the lines numbered by chosen.             *)
Counts(lines, chosen) ==
  [p \in Parts |->
     Cardinality({ij \in UNION {{<<i, j>> : j \in DOMAIN lines[i]} : i \in chosen} :
                    lines[ij[1]][ij[2]] = p})]

(* Mutant: the batch job splits at every blank, as the streams do.         *)
SplitAtBlanks(line) == line

(* A finite set as a sequence, each element after those before it.         *)
InOrder(S, before) ==
  [k \in 1..Cardinality(S) |->
     CHOOSE x \in S : Cardinality({y \in S : <<y, x>> \in before}) = k - 1]

Increasing(S) == {xy \in S \X S : xy[1] < xy[2]}

Sooner(S) ==
  {xy \in S \X S : \/ xy[1][1] < xy[2][1]
                   \/ xy[1][1] = xy[2][1] /\ xy[1][2] < xy[2][2]}

(* line.split(), against line.split(" ") in the streams: the words of each *)
(* part, part after part.                                                  *)
Split(line) ==
  LET places == UNION {{<<j, k>> : k \in DOMAIN Pieces[line[j]]} : j \in DOMAIN line}
      place  == InOrder(places, Sooner(places))
  IN  [m \in DOMAIN place |-> Pieces[line[place[m][1]]][place[m][2]]]

BatchCounts(lines) ==
  Counts([i \in DOMAIN lines |-> Split(lines[i])], DOMAIN lines)

-----------------------------------------------------------------------------
Smaller(a, b) == IF a < b THEN a ELSE b

(* t.sort(reverse=True, key=...)[:2] of the words named by the places in   *)
(* DOMAIN word; the sort is stable, so that earlier decides between words  *)
(* of one length.                                                          *)
Longer(word, earlier) ==
  {xy \in (DOMAIN word) \X (DOMAIN word) :
     \/ Length[word[xy[1]]] > Length[word[xy[2]]]
     \/ Length[word[xy[1]]] = Length[word[xy[2]]] /\ xy \in earlier}

TwoLongest(word, earlier) ==
  LET order == InOrder(DOMAIN word, Longer(word, earlier))
  IN  [k \in 1..Smaller(2, Cardinality(DOMAIN word)) |-> word[order[k]]]

MapperGetWords(line) == TwoLongest(Split(line), Increasing(DOMAIN Split(line)))

(* What the mapper found, by line and place: the values of the one key.    *)
(* The shuffle may bring them in any order, which only decides which of    *)
(* two words of one length is kept; the order of the lines stands for it.  *)
Found(lines) ==
  LET places == UNION {{<<i, k>> : k \in DOMAIN MapperGetWords(lines[i])} :
                         i \in DOMAIN lines}
  IN  [x \in places |-> MapperGetWords(lines[x[1]])[x[2]]]

(* Mutant: a word that two lines have found takes both places.             *)
ReducerWithDuplicates(found) == TwoLongest(found, Sooner(DOMAIN found))

(* Each word where it is found first (if j not in t).                      *)
News(found) ==
  {x \in DOMAIN found : \A y \in DOMAIN found :
     <<y, x>> \in Sooner(DOMAIN found) => found[y] # found[x]}

ReducerCountWords(found) ==
  TwoLongest([x \in News(found) |-> found[x]], Sooner(News(found)))

TopWords(lines) == ReducerCountWords(Found(lines))
=============================================================================
