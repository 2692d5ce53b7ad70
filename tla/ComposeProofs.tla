------------------------------ MODULE ComposeProofs ------------------------------
(***************************************************************************)
(* Proofs about Compose and the parser of CsvParser, for all files, texts  *)
(* and failures.                                                           *)
(*                                                                         *)
(* The loops of the code are folds over sequences of any length, so that   *)
(* most of this is induction.  It goes over sets of numbers (Upward, which *)
(* is the pigeonhole principle) and sets of sequences (Grown), which need  *)
(* no operator as a parameter.                                             *)
(***************************************************************************)
EXTENDS Compose, FiniteSetTheorems, TLAPS

-------------------------------------------------------------------------------
(* Induction over numbers and sequences *)

\* A set of numbers that holds 0, and with a number the next, holds all.
LEMMA Upward ==
  ASSUME NEW T, 0 \in T, \A k \in Nat: k \in T => k + 1 \in T PROVE Nat \subseteq T
<1> SUFFICES ASSUME NEW n \in Nat, n \notin T PROVE FALSE
  OBVIOUS
<1> DEFINE S == T \intersect (0..n)
           next == [k \in S |-> k + 1]
<1>1. IsFiniteSet(S)
  <2>1. IsFiniteSet(0..n)
    BY FS_Interval
  <2>2. S \in SUBSET (0..n)
    OBVIOUS
  <2> HIDE DEF S
  <2>3. QED
    BY <2>1, <2>2, FS_Subset
<1>2. 0 \in S
  OBVIOUS
<1>3. /\ IsFiniteSet(S \ {0}) /\ Cardinality(S \ {0}) = Cardinality(S) - 1
      /\ Cardinality(S) \in Nat
  <2> HIDE DEF S
  <2>1. QED
    BY <1>1, <1>2, FS_RemoveElement, FS_CardinalityType
<1>4. next \in [S -> S \ {0}]
  OBVIOUS
<1>5. \E x, y \in S: x # y /\ next[x] = next[y]
  <2>1. Cardinality(S \ {0}) < Cardinality(S)
    BY <1>3
  <2> HIDE DEF S, next
  <2>2. QED
    BY <1>1, <1>3, <1>4, <2>1, FS_PigeonHole
<1>6. QED
  BY <1>5

\* A set that holds 0, and with a number below n the next, holds n.
LEMMA UpTo ==
  ASSUME NEW n \in Nat, NEW T, 0 \in T, \A i \in 1..n: i - 1 \in T => i \in T PROVE n \in T
<1> DEFINE T2 == T \union {k \in Nat: k > n}
<1>1. \A k \in Nat: k \in T2 => k + 1 \in T2
  <2>1. SUFFICES ASSUME NEW k \in Nat, k \in T2, k < n PROVE k + 1 \in T
    OBVIOUS
  <2>2. k + 1 \in 1..n /\ (k + 1) - 1 = k /\ k \in T
    BY <2>1
  <2>3. QED
    BY <2>2
<1>2. 0 \in T2
  OBVIOUS
<1>3. n \in T2
  <2> HIDE DEF T2
  <2>1. QED
    BY <1>1, <1>2, Upward
<1>4. QED
  BY <1>3

\* Two loops of n turns that start alike, and of which each turn does the same to
\* the same, end alike.
LEMMA SameLoops ==
  ASSUME NEW n \in Nat, NEW F, NEW G, F[0] = G[0],
         \A i \in 1..n: F[i - 1] = G[i - 1] => F[i] = G[i]
  PROVE  F[n] = G[n]
<1> DEFINE T == {i \in 0..n: F[i] = G[i]}
<1>1. 0 \in T /\ \A i \in 1..n: i - 1 \in T => i \in T
  OBVIOUS
<1>2. n \in T
  <2> HIDE DEF T
  <2>1. QED
    BY <1>1, UpTo
<1>3. QED
  BY <1>2

\* Whatever holds of the empty sequence, and of a sequence with one more element
\* if it held before, holds of all.
LEMMA Grown ==
  ASSUME NEW S, NEW T, <<>> \in T,
         \A s \in Seq(S): \A x \in S: s \in T => Append(s, x) \in T
  PROVE  Seq(S) \subseteq T
<1> DEFINE L == {n \in Nat: \A s \in Seq(S): Len(s) = n => s \in T}
<1>1. 0 \in L
  OBVIOUS
<1>2. ASSUME NEW n \in Nat, n \in L PROVE n + 1 \in L
  <2>1. SUFFICES ASSUME NEW s \in Seq(S), Len(s) = n + 1 PROVE s \in T
    OBVIOUS
  <2> DEFINE t == [i \in 1..n |-> s[i]]
  <2>2. t \in Seq(S) /\ Len(t) = n /\ s[n + 1] \in S
    BY <2>1
  <2>3. s = Append(t, s[n + 1])
    BY <2>1, <2>2
  <2>4. t \in T
    BY <1>2, <2>2
  <2>5. QED
    <3> HIDE DEF t
    <3>1. QED
      BY <2>2, <2>3, <2>4
<1>3. Nat \subseteq L
  <2> HIDE DEF L
  <2>1. QED
    BY <1>1, <1>2, Upward
<1>4. ASSUME NEW s \in Seq(S) PROVE s \in T
  <2>1. Len(s) \in L
    BY <1>3
  <2>2. QED
    BY <2>1
<1>5. QED
  BY <1>4

\* The first of some numbers is one of them.
LEMMA MinIn ==
  ASSUME NEW n \in Nat, NEW I \in SUBSET (1..n), I # {}
  PROVE  Min(I) \in I /\ \A i \in I: Min(I) <= i
<1> DEFINE T == {m \in Nat: \A k \in I: k > m}
<1>1. \E m \in I: \A i \in I: m <= i
  <2> SUFFICES ASSUME \A m \in I: \E i \in I: i < m PROVE FALSE
    OBVIOUS
  <2>1. 0 \in T
    OBVIOUS
  <2>2. \A m \in Nat: m \in T => m + 1 \in T
    OBVIOUS
  <2>3. Nat \subseteq T
    <3> HIDE DEF T
    <3>1. QED
      BY <2>1, <2>2, Upward
  <2>4. PICK k \in I: TRUE
    OBVIOUS
  <2>5. k \in Nat
    OBVIOUS
  <2>6. QED
    BY <2>3, <2>5
<1>2. QED
  BY <1>1 DEF Min

-------------------------------------------------------------------------------
(* Folds *)

\* What Max takes from a set of numbers up to m, if m is one of them.
LEMMA MaxIs == ASSUME NEW m \in Nat, NEW s \in SUBSET (1..m), m \in s PROVE Max(s) = m
<1>1. \A x \in s: (\A y \in s: x >= y) <=> x = m
  OBVIOUS
<1>2. QED
  BY <1>1 DEF Max

\* The first n numbers, as Max takes them off one at a time.
LEMMA MaxOfPrefix ==
  ASSUME NEW n \in Nat, NEW i \in 1..n
  PROVE  1..i \in SUBSET (1..n) /\ 1..i # {} /\ Max(1..i) = i /\ (1..i) \ {i} = 1..(i - 1)
<1>1. 1..i \in SUBSET (1..n) /\ i \in 1..i /\ i \in Nat /\ (1..i) \ {i} = 1..(i - 1)
  OBVIOUS
<1>2. QED
  BY <1>1, MaxIs

\* What FoldLeft is made of: a function of sets of numbers, from which Max takes
\* the last one.
Folds(g, m, base, step) ==
    \A s \in SUBSET (1..m):
        /\ s # {} => Max(s) \in s
        /\ g[s] = IF s = {} THEN base ELSE step[<<Max(s), g[s \ {Max(s)}]>>]

\* It exists, if its steps stay in a set.
LEMMA FoldExists ==
  ASSUME NEW n \in Nat, NEW R, NEW base \in R, NEW step \in [(1..n) \X R -> R]
  PROVE  \E g \in [SUBSET (1..n) -> R]: Folds(g, n, base, step)
<1> DEFINE T == {m \in Nat: m <= n => \E g \in [SUBSET (1..n) -> R]: Folds(g, m, base, step)}
<1>1. 0 \in T
  <2> DEFINE g == [s \in SUBSET (1..n) |-> base]
  <2>1. g \in [SUBSET (1..n) -> R] /\ Folds(g, 0, base, step)
    <3>1. \A s \in SUBSET (1..0): s = {} /\ s \in SUBSET (1..n)
      OBVIOUS
    <3>2. QED
      BY <3>1 DEF Folds
  <2>2. QED
    BY <2>1
<1>2. ASSUME NEW i \in 1..n, i - 1 \in T PROVE i \in T
  <2>1. PICK g \in [SUBSET (1..n) -> R]: Folds(g, i - 1, base, step)
    <3>1. i - 1 <= n
      OBVIOUS
    <3>2. QED
      BY <1>2, <3>1
  <2> DEFINE h == [s \in SUBSET (1..n) |->
               IF i \in s THEN step[<<i, g[s \intersect (1..(i - 1))]>>] ELSE g[s]]
  <2>2. h \in [SUBSET (1..n) -> R]
    OBVIOUS
  <2>3. ASSUME NEW s \in SUBSET (1..i)
        PROVE  /\ s # {} => Max(s) \in s
               /\ h[s] = IF s = {} THEN base ELSE step[<<Max(s), h[s \ {Max(s)}]>>]
    <3>1. s \in SUBSET (1..n) /\ i \in Nat
      OBVIOUS
    <3>2. CASE i \in s
      <4>1. Max(s) = i
        BY <3>1, <3>2, MaxIs
      <4>2. s \ {i} = s \intersect (1..(i - 1))
        <5>1. ASSUME NEW x \in s PROVE x # i <=> x \in 1..(i - 1)
          OBVIOUS
        <5>2. QED
          BY <5>1
      <4>3. h[s] = step[<<i, g[s \ {i}]>>] /\ h[s \ {i}] = g[s \ {i}]
        BY <3>1, <3>2, <4>2
      <4>4. QED
        BY <3>2, <4>1, <4>3
    <3>3. CASE i \notin s
      <4>1. s \in SUBSET (1..(i - 1))
        <5>1. ASSUME NEW x \in s PROVE x \in 1..(i - 1)
          BY <3>3
        <5>2. QED
          BY <5>1
      <4>4. h[s] = g[s]
        BY <3>1, <3>3
      <4>5. ASSUME NEW x PROVE h[s \ {x}] = g[s \ {x}]
        <5>1. s \ {x} \in SUBSET (1..n) /\ i \notin s \ {x}
          BY <3>1, <3>3
        <5>2. QED
          BY <5>1
      <4>2. /\ s # {} => Max(s) \in s
            /\ g[s] = IF s = {} THEN base ELSE step[<<Max(s), g[s \ {Max(s)}]>>]
        BY <2>1, <4>1 DEF Folds
      <4>3. QED
        BY <4>2, <4>4, <4>5
    <3>4. QED
      BY <3>2, <3>3
  <2>4. Folds(h, i, base, step)
    <3> HIDE DEF h
    <3>1. QED
      BY <2>3 DEF Folds
  <2>5. QED
    <3> HIDE DEF h
    <3>1. QED
      BY <2>2, <2>4
<1>3. n \in T
  <2> HIDE DEF T
  <2>1. QED
    BY <1>1, <1>2, UpTo
<1>4. PICK g \in [SUBSET (1..n) -> R]: Folds(g, n, base, step)
  <2>1. n <= n
    OBVIOUS
  <2>2. QED
    BY <1>3, <2>1
<1>5. QED
  BY <1>4

-------------------------------------------------------------------------------
(* The loops of the code, one turn at a time *)

\* What they do with one more element.
AddUnique(u, cell) == IF Contains(u, Lower(cell)) THEN u ELSE Append(u, Lower(cell))
AddKept(rows, line, kept) == IF line \in kept THEN Append(rows, line) ELSE rows

\* The loop of the parser, given the column.
Parse(data, column) ==
    FoldLeft(LAMBDA result, row: AddCandidate(result, Candidate(row, column)), NoResult, data)

\* What the parser makes of rows.
Results == [valid: Seq(Cells), invalid: Seq(Cells), duplicates: Seq(Cells)]

\* A cell in lower case is a cell, an address if it was one, and stays so.
LEMMA CellFacts ==
  \A c \in Cells: /\ Lower(c) \in Cells /\ Lower(Lower(c)) = Lower(c)
                  /\ IsAddress(Lower(c)) <=> IsAddress(c)
<1> SUFFICES ASSUME NEW c \in Cells
             PROVE  /\ Lower(c) \in Cells /\ Lower(Lower(c)) = Lower(c)
                    /\ IsAddress(Lower(c)) <=> IsAddress(c)
  OBVIOUS
<1>1. CASE c \in [kind: {"address"}, word: Words, upper: BOOLEAN]
  BY <1>1 DEF Cells, Lower, IsAddress, Address
<1>2. CASE c \in [kind: {"header", "blank", "other"}]
  BY <1>2 DEF Cells, Lower, IsAddress
<1>3. QED
  BY <1>1, <1>2 DEF Cells

\* The candidate of a row is a cell: an address if the row has one, and one of
\* those.
LEMMA CandidateFacts ==
  ASSUME NEW row \in Seq(Cells), NEW column \in Nat
  PROVE  /\ Candidate(row, column) \in Cells
         /\ IsAddress(Candidate(row, column)) <=> AddressesIn(row) # {}
         /\ AddressesIn(row) # {} => Lower(Candidate(row, column)) \in AddressesIn(row)
         /\ column \in DOMAIN row /\ IsAddress(row[column]) => Candidate(row, column) = row[column]
<1> DEFINE own == IF column \in DOMAIN row THEN row[column] ELSE Plain("blank")
           I == {i \in 1..Len(row): IsAddress(row[i])}
           found == SelectInSeq(row, IsAddress)
<1>1. own \in Cells /\ (column \notin DOMAIN row => ~IsAddress(own))
  BY DEF Cells, Plain, IsAddress
<1>2. /\ I = {} => found = 0
      /\ I # {} => found \in I
  <2>1. I # {} => Min(I) \in I
    <3>1. I \in SUBSET (1..Len(row)) /\ Len(row) \in Nat
      OBVIOUS
    <3> HIDE DEF I
    <3>2. QED
      BY <3>1, MinIn
  <2>2. QED
    BY <2>1 DEF SelectInSeq
<1>3. AddressesIn(row) # {} <=> I # {}
  BY DEF AddressesIn
<1>4. \A i \in I: /\ i # 0 /\ IsAddress(row[i])
                 /\ row[i] \in Cells /\ Lower(row[i]) \in AddressesIn(row)
  BY DEF AddressesIn
<1>5. IsAddress(own) => column \in I /\ own = row[column]
  BY <1>1
<1>6. Candidate(row, column) = IF IsAddress(own) \/ found = 0 THEN own ELSE row[found]
  BY DEF Candidate
<1> HIDE DEF own, I, found
<1>7. CASE IsAddress(own)
  BY <1>3, <1>4, <1>5, <1>6, <1>7
<1>8. CASE ~IsAddress(own) /\ I = {}
  <2>1. ~(column \in DOMAIN row /\ IsAddress(row[column]))
    BY <1>8 DEF own
  <2>2. QED
    BY <1>1, <1>2, <1>3, <1>6, <1>8, <2>1
<1>9. CASE ~IsAddress(own) /\ I # {}
  <2>1. Candidate(row, column) = row[found] /\ found \in I
    BY <1>2, <1>4, <1>6, <1>9
  <2>2. ~(column \in DOMAIN row /\ IsAddress(row[column]))
    BY <1>9 DEF own
  <2>3. QED
    BY <1>3, <1>4, <1>9, <2>1, <2>2
<1>10. QED
  BY <1>7, <1>8, <1>9

\* What one more candidate changes.
LEMMA AddCandidateFacts ==
  ASSUME NEW r \in Results, NEW c \in Cells
  PROVE  /\ AddCandidate(r, c) \in Results
         /\ IsBlank(c) => AddCandidate(r, c) = r
         /\ ~IsAddress(c) => /\ AddCandidate(r, c).valid = r.valid
                             /\ AddCandidate(r, c).duplicates = r.duplicates
         /\ IsAddress(c) =>
              IF Contains(r.valid, Lower(c))
              THEN /\ AddCandidate(r, c).valid = r.valid
                   /\ AddCandidate(r, c).duplicates = Append(r.duplicates, Lower(c))
              ELSE /\ AddCandidate(r, c).valid = Append(r.valid, Lower(c))
                   /\ AddCandidate(r, c).duplicates = r.duplicates
<1>1. Lower(c) \in Cells
  BY CellFacts
<1>2. IsBlank(c) => ~IsAddress(c)
  BY DEF IsBlank, IsAddress
<1>3. /\ r.valid \in Seq(Cells) /\ r.invalid \in Seq(Cells) /\ r.duplicates \in Seq(Cells)
  BY DEF Results
<1>4. \A l \in Seq(Cells): Append(l, c) \in Seq(Cells) /\ Append(l, Lower(c)) \in Seq(Cells)
  BY <1>1
<1>5. CASE IsBlank(c)
  <2>1. AddCandidate(r, c) = r
    BY <1>5 DEF AddCandidate, IsBlank, IsAddress
  <2>2. QED
    BY <1>2, <1>5, <2>1
<1>6. CASE ~IsBlank(c) /\ ~IsAddress(c)
  <2>1. AddCandidate(r, c) = [r EXCEPT !.invalid = Append(r.invalid, c)]
    BY <1>6 DEF AddCandidate, IsBlank, IsAddress
  <2>2. Append(r.invalid, c) \in Seq(Cells)
    BY <1>3, <1>4
  <2>3. /\ AddCandidate(r, c) \in Results
        /\ AddCandidate(r, c).valid = r.valid /\ AddCandidate(r, c).duplicates = r.duplicates
    BY <2>1, <2>2 DEF Results
  <2>4. QED
    BY <1>6, <2>3
<1>7. CASE IsAddress(c) /\ Contains(r.valid, Lower(c))
  <2>1. AddCandidate(r, c) = [r EXCEPT !.duplicates = Append(r.duplicates, Lower(c))]
    BY <1>7 DEF AddCandidate, IsBlank, IsAddress
  <2>2. Append(r.duplicates, Lower(c)) \in Seq(Cells)
    BY <1>3, <1>4
  <2>3. /\ AddCandidate(r, c) \in Results /\ AddCandidate(r, c).valid = r.valid
        /\ AddCandidate(r, c).duplicates = Append(r.duplicates, Lower(c))
    BY <2>1, <2>2 DEF Results
  <2>4. QED
    BY <1>2, <1>7, <2>3
<1>8. CASE IsAddress(c) /\ ~Contains(r.valid, Lower(c))
  <2>1. AddCandidate(r, c) = [r EXCEPT !.valid = Append(r.valid, Lower(c))]
    BY <1>8 DEF AddCandidate, IsBlank, IsAddress
  <2>2. Append(r.valid, Lower(c)) \in Seq(Cells)
    BY <1>3, <1>4
  <2>3. /\ AddCandidate(r, c) \in Results /\ AddCandidate(r, c).duplicates = r.duplicates
        /\ AddCandidate(r, c).valid = Append(r.valid, Lower(c))
    BY <2>1, <2>2 DEF Results
  <2>4. QED
    BY <1>2, <1>8, <2>3
<1>9. QED
  BY <1>5, <1>6, <1>7, <1>8

\* The loop over a list of recipients.
LEMMA UniqueLoop ==
  ASSUME NEW list \in Seq(Cells)
  PROVE  \E F: /\ F[0] = <<>> /\ F[Len(list)] = Unique(list)
               /\ \A i \in 1..Len(list): F[i] = AddUnique(F[i - 1], list[i])
<1> DEFINE n == Len(list)
           Fold(h) == [s \in SUBSET DOMAIN list |->
               IF s = {} THEN <<>> ELSE AddUnique(h[s \ {Max(s)}], list[Max(s)])]
           g == CHOOSE h: h = Fold(h)
           F == [i \in 0..n |-> g[1..i]]
           step == [p \in (1..n) \X Seq(Cells) |-> AddUnique(p[2], list[p[1]])]
<1>1. n \in Nat /\ DOMAIN list = 1..n /\ \A i \in 1..n: list[i] \in Cells
  OBVIOUS
<1>2. Unique(list) = g[DOMAIN list]
  BY DEF Unique, AddUnique, FoldLeft, MapThenFoldSet
<1>3. step \in [(1..n) \X Seq(Cells) -> Seq(Cells)] /\ <<>> \in Seq(Cells)
  <2>1. ASSUME NEW p \in (1..n) \X Seq(Cells) PROVE AddUnique(p[2], list[p[1]]) \in Seq(Cells)
    BY <1>1, CellFacts DEF AddUnique
  <2>2. <<>> \in Seq(Cells)
    OBVIOUS
  <2>3. QED
    BY <2>1, <2>2
<1>4. \E h: h = Fold(h)
  <2>1. PICK h \in [SUBSET (1..n) -> Seq(Cells)]: Folds(h, n, <<>>, step)
    <3> HIDE DEF step, n
    <3>1. QED
      BY <1>1, <1>3, FoldExists
  <2>2. ASSUME NEW s \in SUBSET (1..n), s # {}
        PROVE  h[s] = AddUnique(h[s \ {Max(s)}], list[Max(s)])
    BY <2>1, <2>2 DEF Folds
  <2>3. h = Fold(h)
    <3> HIDE DEF step, n
    <3>1. QED
      BY <1>1, <2>1, <2>2 DEF Folds
  <2>4. QED
    <3> HIDE DEF Fold
    <3>1. QED
      BY <2>3
<1>5. g = Fold(g)
  <2> HIDE DEF Fold
  <2>1. QED
    BY <1>4
<1>6. g[1..0] = <<>>
  <2>1. 1..0 = {} /\ {} \in SUBSET DOMAIN list
    OBVIOUS
  <2> HIDE DEF g
  <2>2. QED
    BY <1>5, <2>1
<1>7. ASSUME NEW i \in 1..n PROVE g[1..i] = AddUnique(g[1..(i - 1)], list[i])
  <2>1. 1..i \in SUBSET DOMAIN list /\ 1..i # {} /\ Max(1..i) = i /\ (1..i) \ {i} = 1..(i - 1)
    <3> HIDE DEF n, g
    <3>1. QED
      BY <1>1, MaxOfPrefix
  <2> HIDE DEF g, n
  <2>2. QED
    BY <1>5, <2>1
<1>8. /\ F[0] = <<>> /\ F[n] = Unique(list)
      /\ \A i \in 1..n: F[i] = AddUnique(F[i - 1], list[i])
  <2>1. 0 \in 0..n /\ n \in 0..n /\ \A i \in 1..n: i \in 0..n /\ i - 1 \in 0..n
    OBVIOUS
  <2> HIDE DEF n, g
  <2>2. QED
    BY <1>1, <1>2, <1>6, <1>7, <2>1
<1>9. QED
  <2> HIDE DEF F
  <2>1. QED
    BY <1>8

\* Recipients are added one by one.
LEMMA UniqueGrows ==
  /\ Unique(<<>>) = <<>>
  /\ \A list \in Seq(Cells), x \in Cells:
       Unique(Append(list, x)) = AddUnique(Unique(list), x)
<1>1. Unique(<<>>) = <<>>
  <2>1. <<>> \in Seq(Cells) /\ Len(<<>>) = 0
    OBVIOUS
  <2>2. QED
    BY <2>1, UniqueLoop
<1>2. ASSUME NEW list \in Seq(Cells), NEW x \in Cells
      PROVE  Unique(Append(list, x)) = AddUnique(Unique(list), x)
  <2> DEFINE n == Len(list)
             more == Append(list, x)
  <2>1. PICK F: /\ F[0] = <<>> /\ F[n] = Unique(list)
                /\ \A i \in 1..n: F[i] = AddUnique(F[i - 1], list[i])
    BY UniqueLoop
  <2>2. /\ more \in Seq(Cells) /\ Len(more) = n + 1 /\ n \in Nat
        /\ more[n + 1] = x /\ \A i \in 1..n: more[i] = list[i]
    OBVIOUS
  <2> HIDE DEF more, n
  <2>3. PICK G: /\ G[0] = <<>> /\ G[n + 1] = Unique(more)
                /\ \A i \in 1..(n + 1): G[i] = AddUnique(G[i - 1], more[i])
    <3>1. \E G: /\ G[0] = <<>> /\ G[Len(more)] = Unique(more)
                /\ \A i \in 1..Len(more): G[i] = AddUnique(G[i - 1], more[i])
      BY <2>2, UniqueLoop
    <3>2. QED
      BY <2>2, <3>1
  <2>4. \A i \in 1..n: F[i - 1] = G[i - 1] => F[i] = G[i]
    <3>1. \A i \in 1..n: i \in 1..(n + 1)
      BY <2>2
    <3>2. QED
      BY <2>1, <2>2, <2>3, <3>1
  <2>5. F[n] = G[n]
    BY <2>1, <2>2, <2>3, <2>4, SameLoops
  <2>6. G[n + 1] = AddUnique(G[n], x)
    <3>1. n + 1 \in 1..(n + 1) /\ (n + 1) - 1 = n
      BY <2>2
    <3>2. QED
      BY <2>2, <2>3, <3>1
  <2>7. QED
    BY <2>1, <2>3, <2>5, <2>6 DEF more
<1>3. QED
  BY <1>1, <1>2

\* The loop over the lines of a file.
LEMMA KeepLoop ==
  ASSUME NEW S, NEW kept, NEW list \in Seq(S)
  PROVE  \E F: /\ F[0] = <<>> /\ F[Len(list)] = Keep(list, kept)
               /\ \A i \in 1..Len(list): F[i] = AddKept(F[i - 1], list[i], kept)
<1> DEFINE n == Len(list)
           Fold(h) == [s \in SUBSET DOMAIN list |->
               IF s = {} THEN <<>> ELSE AddKept(h[s \ {Max(s)}], list[Max(s)], kept)]
           g == CHOOSE h: h = Fold(h)
           F == [i \in 0..n |-> g[1..i]]
           step == [p \in (1..n) \X Seq(S) |-> AddKept(p[2], list[p[1]], kept)]
<1>1. n \in Nat /\ DOMAIN list = 1..n /\ \A i \in 1..n: list[i] \in S
  OBVIOUS
<1>2. Keep(list, kept) = g[DOMAIN list]
  BY DEF Keep, AddKept, FoldLeft, MapThenFoldSet
<1>3. step \in [(1..n) \X Seq(S) -> Seq(S)] /\ <<>> \in Seq(S)
  <2>1. ASSUME NEW p \in (1..n) \X Seq(S) PROVE AddKept(p[2], list[p[1]], kept) \in Seq(S)
    BY <1>1 DEF AddKept
  <2>2. <<>> \in Seq(S)
    OBVIOUS
  <2>3. QED
    BY <2>1, <2>2
<1>4. \E h: h = Fold(h)
  <2>1. PICK h \in [SUBSET (1..n) -> Seq(S)]: Folds(h, n, <<>>, step)
    <3> HIDE DEF step, n
    <3>1. QED
      BY <1>1, <1>3, FoldExists
  <2>2. ASSUME NEW s \in SUBSET (1..n), s # {}
        PROVE  h[s] = AddKept(h[s \ {Max(s)}], list[Max(s)], kept)
    BY <2>1, <2>2 DEF Folds
  <2>3. h = Fold(h)
    <3> HIDE DEF step, n
    <3>1. QED
      BY <1>1, <2>1, <2>2 DEF Folds
  <2>4. QED
    <3> HIDE DEF Fold
    <3>1. QED
      BY <2>3
<1>5. g = Fold(g)
  <2> HIDE DEF Fold
  <2>1. QED
    BY <1>4
<1>6. g[1..0] = <<>>
  <2>1. 1..0 = {} /\ {} \in SUBSET DOMAIN list
    OBVIOUS
  <2> HIDE DEF g
  <2>2. QED
    BY <1>5, <2>1
<1>7. ASSUME NEW i \in 1..n PROVE g[1..i] = AddKept(g[1..(i - 1)], list[i], kept)
  <2>1. 1..i \in SUBSET DOMAIN list /\ 1..i # {} /\ Max(1..i) = i /\ (1..i) \ {i} = 1..(i - 1)
    <3> HIDE DEF n, g
    <3>1. QED
      BY <1>1, MaxOfPrefix
  <2> HIDE DEF g, n
  <2>2. QED
    BY <1>5, <2>1
<1>8. /\ F[0] = <<>> /\ F[n] = Keep(list, kept)
      /\ \A i \in 1..n: F[i] = AddKept(F[i - 1], list[i], kept)
  <2>1. 0 \in 0..n /\ n \in 0..n /\ \A i \in 1..n: i \in 0..n /\ i - 1 \in 0..n
    OBVIOUS
  <2> HIDE DEF n, g
  <2>2. QED
    BY <1>1, <1>2, <1>6, <1>7, <2>1
<1>9. QED
  <2> HIDE DEF F
  <2>1. QED
    BY <1>8

\* Lines are kept one by one.
LEMMA KeepGrows ==
  ASSUME NEW S, NEW kept
  PROVE  /\ Keep(<<>>, kept) = <<>>
         /\ \A list \in Seq(S), x \in S:
              Keep(Append(list, x), kept) = AddKept(Keep(list, kept), x, kept)
<1>1. Keep(<<>>, kept) = <<>>
  <2>1. <<>> \in Seq(S) /\ Len(<<>>) = 0
    OBVIOUS
  <2>2. QED
    BY <2>1, KeepLoop
<1>2. ASSUME NEW list \in Seq(S), NEW x \in S
      PROVE  Keep(Append(list, x), kept) = AddKept(Keep(list, kept), x, kept)
  <2> DEFINE n == Len(list)
             more == Append(list, x)
  <2>1. PICK F: /\ F[0] = <<>> /\ F[n] = Keep(list, kept)
                /\ \A i \in 1..n: F[i] = AddKept(F[i - 1], list[i], kept)
    BY KeepLoop
  <2>2. /\ more \in Seq(S) /\ Len(more) = n + 1 /\ n \in Nat
        /\ more[n + 1] = x /\ \A i \in 1..n: more[i] = list[i]
    OBVIOUS
  <2> HIDE DEF more, n
  <2>3. PICK G: /\ G[0] = <<>> /\ G[n + 1] = Keep(more, kept)
                /\ \A i \in 1..(n + 1): G[i] = AddKept(G[i - 1], more[i], kept)
    <3>1. \E G: /\ G[0] = <<>> /\ G[Len(more)] = Keep(more, kept)
                /\ \A i \in 1..Len(more): G[i] = AddKept(G[i - 1], more[i], kept)
      BY <2>2, KeepLoop
    <3>2. QED
      BY <2>2, <3>1
  <2>4. \A i \in 1..n: F[i - 1] = G[i - 1] => F[i] = G[i]
    <3>1. \A i \in 1..n: i \in 1..(n + 1)
      BY <2>2
    <3>2. QED
      BY <2>1, <2>2, <2>3, <3>1
  <2>5. F[n] = G[n]
    BY <2>1, <2>2, <2>3, <2>4, SameLoops
  <2>6. G[n + 1] = AddKept(G[n], x, kept)
    <3>1. n + 1 \in 1..(n + 1) /\ (n + 1) - 1 = n
      BY <2>2
    <3>2. QED
      BY <2>2, <2>3, <3>1
  <2>7. QED
    BY <2>1, <2>3, <2>5, <2>6 DEF more
<1>3. QED
  BY <1>1, <1>2

\* The loop over the rows.
LEMMA ParseLoop ==
  ASSUME NEW column \in Nat, NEW list \in Seq(Seq(Cells))
  PROVE  \E F: /\ F[0] = NoResult /\ F[Len(list)] = Parse(list, column)
               /\ \A i \in 1..Len(list): F[i] = AddCandidate(F[i - 1], Candidate(list[i], column))
<1> DEFINE n == Len(list)
           Fold(h) == [s \in SUBSET DOMAIN list |->
               IF s = {} THEN NoResult
               ELSE AddCandidate(h[s \ {Max(s)}], Candidate(list[Max(s)], column))]
           g == CHOOSE h: h = Fold(h)
           F == [i \in 0..n |-> g[1..i]]
           step == [p \in (1..n) \X Results |-> AddCandidate(p[2], Candidate(list[p[1]], column))]
<1>1. n \in Nat /\ DOMAIN list = 1..n /\ \A i \in 1..n: list[i] \in Seq(Cells)
  OBVIOUS
<1>2. Parse(list, column) = g[DOMAIN list]
  BY DEF Parse, FoldLeft, MapThenFoldSet
<1>3. step \in [(1..n) \X Results -> Results] /\ NoResult \in Results
  <2>1. ASSUME NEW p \in (1..n) \X Results
        PROVE  AddCandidate(p[2], Candidate(list[p[1]], column)) \in Results
    BY <1>1, CandidateFacts, AddCandidateFacts
  <2>2. NoResult \in Results
    BY DEF NoResult, Results
  <2>3. QED
    BY <2>1, <2>2
<1>4. \E h: h = Fold(h)
  <2>1. PICK h \in [SUBSET (1..n) -> Results]: Folds(h, n, NoResult, step)
    <3> HIDE DEF step, n
    <3>1. QED
      BY <1>1, <1>3, FoldExists
  <2>2. ASSUME NEW s \in SUBSET (1..n), s # {}
        PROVE  h[s] = AddCandidate(h[s \ {Max(s)}], Candidate(list[Max(s)], column))
    BY <2>1, <2>2 DEF Folds
  <2>3. h = Fold(h)
    <3> HIDE DEF step, n
    <3>1. QED
      BY <1>1, <2>1, <2>2 DEF Folds
  <2>4. QED
    <3> HIDE DEF Fold
    <3>1. QED
      BY <2>3
<1>5. g = Fold(g)
  <2> HIDE DEF Fold
  <2>1. QED
    BY <1>4
<1>6. g[1..0] = NoResult
  <2>1. 1..0 = {} /\ {} \in SUBSET DOMAIN list
    OBVIOUS
  <2> HIDE DEF g
  <2>2. QED
    BY <1>5, <2>1
<1>7. ASSUME NEW i \in 1..n PROVE g[1..i] = AddCandidate(g[1..(i - 1)], Candidate(list[i], column))
  <2>1. 1..i \in SUBSET DOMAIN list /\ 1..i # {} /\ Max(1..i) = i /\ (1..i) \ {i} = 1..(i - 1)
    <3> HIDE DEF n, g
    <3>1. QED
      BY <1>1, MaxOfPrefix
  <2> HIDE DEF g, n
  <2>2. QED
    BY <1>5, <2>1
<1>8. /\ F[0] = NoResult /\ F[n] = Parse(list, column)
      /\ \A i \in 1..n: F[i] = AddCandidate(F[i - 1], Candidate(list[i], column))
  <2>1. 0 \in 0..n /\ n \in 0..n /\ \A i \in 1..n: i \in 0..n /\ i - 1 \in 0..n
    OBVIOUS
  <2> HIDE DEF n, g
  <2>2. QED
    BY <1>1, <1>2, <1>6, <1>7, <2>1
<1>9. QED
  <2> HIDE DEF F
  <2>1. QED
    BY <1>8

\* Rows are parsed one by one.
LEMMA ParseGrows ==
  ASSUME NEW column \in Nat
  PROVE  /\ Parse(<<>>, column) = NoResult
         /\ \A list \in Seq(Seq(Cells)), x \in Seq(Cells):
              Parse(Append(list, x), column) = AddCandidate(Parse(list, column), Candidate(x, column))
<1>1. Parse(<<>>, column) = NoResult
  <2>1. <<>> \in Seq(Seq(Cells)) /\ Len(<<>>) = 0
    OBVIOUS
  <2>2. QED
    BY <2>1, ParseLoop
<1>2. ASSUME NEW list \in Seq(Seq(Cells)), NEW x \in Seq(Cells)
      PROVE  Parse(Append(list, x), column) = AddCandidate(Parse(list, column), Candidate(x, column))
  <2> DEFINE n == Len(list)
             more == Append(list, x)
  <2>1. PICK F: /\ F[0] = NoResult /\ F[n] = Parse(list, column)
                /\ \A i \in 1..n: F[i] = AddCandidate(F[i - 1], Candidate(list[i], column))
    BY ParseLoop
  <2>2. /\ more \in Seq(Seq(Cells)) /\ Len(more) = n + 1 /\ n \in Nat
        /\ more[n + 1] = x /\ \A i \in 1..n: more[i] = list[i]
    OBVIOUS
  <2> HIDE DEF more, n
  <2>3. PICK G: /\ G[0] = NoResult /\ G[n + 1] = Parse(more, column)
                /\ \A i \in 1..(n + 1): G[i] = AddCandidate(G[i - 1], Candidate(more[i], column))
    <3>1. \E G: /\ G[0] = NoResult /\ G[Len(more)] = Parse(more, column)
                /\ \A i \in 1..Len(more): G[i] = AddCandidate(G[i - 1], Candidate(more[i], column))
      BY <2>2, ParseLoop
    <3>2. QED
      BY <2>2, <3>1
  <2>4. \A i \in 1..n: F[i - 1] = G[i - 1] => F[i] = G[i]
    <3>1. \A i \in 1..n: i \in 1..(n + 1)
      BY <2>2
    <3>2. QED
      BY <2>1, <2>2, <2>3, <3>1
  <2>5. F[n] = G[n]
    BY <2>1, <2>2, <2>3, <2>4, SameLoops
  <2>6. G[n + 1] = AddCandidate(G[n], Candidate(x, column))
    <3>1. n + 1 \in 1..(n + 1) /\ (n + 1) - 1 = n
      BY <2>2
    <3>2. QED
      BY <2>2, <2>3, <3>1
  <2>7. QED
    BY <2>1, <2>3, <2>5, <2>6 DEF more
<1>3. QED
  BY <1>1, <1>2

-------------------------------------------------------------------------------
(* What the loops make of every list *)

\* A sequence with one more element.
LEMMA AppendFacts ==
  ASSUME NEW S, NEW s \in Seq(S), NEW x \in S
  PROVE  /\ Append(s, x) \in Seq(S) /\ Len(Append(s, x)) = Len(s) + 1
         /\ DOMAIN s = 1..Len(s) /\ DOMAIN Append(s, x) = 1..(Len(s) + 1)
         /\ \A i \in 1..Len(s): Append(s, x)[i] = s[i]
         /\ Append(s, x)[Len(s) + 1] = x
         /\ ToSet(Append(s, x)) = ToSet(s) \union {x}
         /\ \A y: Contains(s, y) <=> y \in ToSet(s)
<1>1. /\ Append(s, x) \in Seq(S) /\ Len(Append(s, x)) = Len(s) + 1
      /\ DOMAIN s = 1..Len(s) /\ DOMAIN Append(s, x) = 1..(Len(s) + 1)
      /\ \A i \in 1..Len(s): Append(s, x)[i] = s[i]
      /\ Append(s, x)[Len(s) + 1] = x /\ Len(s) \in Nat
  OBVIOUS
<1>2. \A i: i \in 1..(Len(s) + 1) <=> i \in 1..Len(s) \/ i = Len(s) + 1
  BY <1>1
<1>3. ToSet(Append(s, x)) = ToSet(s) \union {x}
  <2>1. ASSUME NEW y PROVE y \in ToSet(Append(s, x)) <=> y \in ToSet(s) \union {x}
    BY <1>1, <1>2 DEF ToSet
  <2>2. QED
    BY <2>1
<1>4. \A y: Contains(s, y) <=> y \in ToSet(s)
  BY <1>1 DEF Contains, ToSet
<1>5. QED
  BY <1>1, <1>3, <1>4

\* The recipients of a list are its cells in lower case, each of them once.
UniqueOK(list) ==
    /\ Unique(list) \in Seq(Cells)
    /\ ToSet(Unique(list)) = {Lower(c): c \in ToSet(list)}
    /\ \A i, j \in DOMAIN Unique(list): Unique(list)[i] = Unique(list)[j] => i = j

LEMMA UniqueFacts == \A list \in Seq(Cells): UniqueOK(list)
<1> DEFINE T == {list \in Seq(Cells): UniqueOK(list)}
<1>1. <<>> \in T
  <2>1. Unique(<<>>) = <<>>
    BY UniqueGrows
  <2>2. <<>> \in Seq(Cells) /\ ToSet(<<>>) = {} /\ DOMAIN <<>> = {}
    BY DEF ToSet
  <2>3. {Lower(c): c \in {}} = {}
    OBVIOUS
  <2>4. QED
    BY <2>1, <2>2, <2>3 DEF UniqueOK
<1>2. ASSUME NEW list \in Seq(Cells), NEW x \in Cells, list \in T PROVE Append(list, x) \in T
  <2> DEFINE u == Unique(list)
             y == Lower(x)
  <2>1. u \in Seq(Cells) /\ y \in Cells /\ Append(list, x) \in Seq(Cells)
    BY <1>2, CellFacts DEF UniqueOK
  <2>2. Unique(Append(list, x)) = AddUnique(u, y)
    BY UniqueGrows, CellFacts DEF AddUnique
  <2>3. /\ ToSet(u) = {Lower(c): c \in ToSet(list)}
        /\ \A i, j \in DOMAIN u: u[i] = u[j] => i = j
    BY <1>2 DEF UniqueOK
  <2>4. ToSet(Append(list, x)) = ToSet(list) \union {x}
    BY AppendFacts
  <2>5. {Lower(c): c \in ToSet(Append(list, x))} = ToSet(u) \union {y}
    BY <2>3, <2>4
  <2>6. CASE y \in ToSet(u)
    <3>1. Unique(Append(list, x)) = u
      BY <2>1, <2>2, <2>6, AppendFacts, CellFacts DEF AddUnique
    <3>2. ToSet(u) \union {y} = ToSet(u)
      BY <2>6
    <3> HIDE DEF u, y
    <3>3. QED
      BY <2>1, <2>3, <2>5, <3>1, <3>2 DEF UniqueOK
  <2>7. CASE y \notin ToSet(u)
    <3>1. Unique(Append(list, x)) = Append(u, y)
      BY <2>1, <2>2, <2>7, AppendFacts, CellFacts DEF AddUnique
    <3> HIDE DEF u, y
    <3>2. /\ Append(u, y) \in Seq(Cells) /\ ToSet(Append(u, y)) = ToSet(u) \union {y}
          /\ DOMAIN u = 1..Len(u) /\ DOMAIN Append(u, y) = 1..(Len(u) + 1)
          /\ \A i \in 1..Len(u): Append(u, y)[i] = u[i] /\ u[i] # y
          /\ Append(u, y)[Len(u) + 1] = y
      BY <2>1, <2>7, AppendFacts DEF ToSet
    <3>3. \A i, j \in 1..(Len(u) + 1): Append(u, y)[i] = Append(u, y)[j] => i = j
      <4>1. \A i \in 1..(Len(u) + 1): i \in 1..Len(u) \/ i = Len(u) + 1
        BY <2>1
      <4>2. QED
        BY <2>3, <3>2, <4>1
    <3>4. QED
      BY <2>1, <2>5, <3>1, <3>2, <3>3 DEF UniqueOK
  <2>8. QED
    BY <2>6, <2>7
<1>3. Seq(Cells) \subseteq T
  <2> HIDE DEF T
  <2>1. QED
    BY <1>1, <1>2, Grown
<1>4. QED
  BY <1>3

\* One more element makes two sequences longer by one.
LEMMA OneMore ==
  ASSUME NEW S, NEW l \in Seq(S), NEW m \in Seq(S), NEW x \in S
  PROVE  /\ Len(Append(l, x)) + Len(m) = Len(l) + Len(m) + 1
         /\ Len(l) + Len(Append(m, x)) = Len(l) + Len(m) + 1
<1>1. /\ Len(Append(l, x)) = Len(l) + 1 /\ Len(Append(m, x)) = Len(m) + 1
      /\ Len(l) \in Nat /\ Len(m) \in Nat
  OBVIOUS
<1>2. QED
  BY <1>1

\* The rows with an address.
Rich(data) == {i \in DOMAIN data: AddressesIn(data[i]) # {}}

\* Each of them gives the parser one address, which is valid or a duplicate.
ParseOK(data, column) ==
    LET result == Parse(data, column) IN
    /\ result \in Results
    /\ IsFiniteSet(Rich(data))
    /\ Len(result.valid) + Len(result.duplicates) = Cardinality(Rich(data))
    /\ ToSet(result.valid) = {Lower(Candidate(data[i], column)): i \in Rich(data)}

LEMMA ParseFacts ==
  ASSUME NEW column \in Nat PROVE \A data \in Seq(Seq(Cells)): ParseOK(data, column)
<1> DEFINE T == {data \in Seq(Seq(Cells)): ParseOK(data, column)}
<1>1. <<>> \in T
  <2>1. Parse(<<>>, column) = NoResult
    BY ParseGrows
  <2>2. Rich(<<>>) = {} /\ IsFiniteSet({}) /\ Cardinality({}) = 0
    BY FS_EmptySet DEF Rich
  <2>3. NoResult \in Results /\ Len(NoResult.valid) + Len(NoResult.duplicates) = 0
        /\ ToSet(NoResult.valid) = {}
    BY DEF NoResult, Results, ToSet
  <2>4. {Lower(Candidate(<<>>[i], column)): i \in Rich(<<>>)} = {}
    BY <2>2
  <2>5. ParseOK(<<>>, column)
    BY <2>1, <2>2, <2>3, <2>4 DEF ParseOK
  <2>6. <<>> \in Seq(Seq(Cells))
    OBVIOUS
  <2>7. QED
    BY <2>5, <2>6
<1>2. ASSUME NEW data \in Seq(Seq(Cells)), NEW row \in Seq(Cells), data \in T
      PROVE  Append(data, row) \in T
  <2> DEFINE r == Parse(data, column)
             more == Append(data, row)
             s == Parse(more, column)
             c == Candidate(row, column)
             n == Len(data)
  <2>1. /\ r \in Results /\ IsFiniteSet(Rich(data))
        /\ Len(r.valid) + Len(r.duplicates) = Cardinality(Rich(data))
        /\ ToSet(r.valid) = {Lower(Candidate(data[i], column)): i \in Rich(data)}
    BY <1>2 DEF ParseOK
  <2>2. c \in Cells /\ Lower(c) \in Cells /\ (IsAddress(c) <=> AddressesIn(row) # {})
    BY CandidateFacts, CellFacts
  <2>3. s = AddCandidate(r, c)
    BY ParseGrows
  <2>4. /\ more \in Seq(Seq(Cells)) /\ n \in Nat /\ DOMAIN data = 1..n
        /\ DOMAIN more = 1..n \union {n + 1} /\ n + 1 \notin 1..n
        /\ more[n + 1] = row /\ \A i \in 1..n: more[i] = data[i]
    BY AppendFacts
  <2> HIDE DEF r, more, s, c, n
  <2>5. CASE ~IsAddress(c)
    <3>1. s \in Results /\ s.valid = r.valid /\ s.duplicates = r.duplicates
      BY <2>1, <2>2, <2>3, <2>5, AddCandidateFacts
    <3>2. Rich(more) = Rich(data)
      BY <2>2, <2>4, <2>5 DEF Rich
    <3>3. \A i \in Rich(data): more[i] = data[i]
      BY <2>4 DEF Rich
    <3>4. {Lower(Candidate(more[i], column)): i \in Rich(more)} = ToSet(s.valid)
      BY <2>1, <3>1, <3>2, <3>3
    <3>5. QED
      BY <2>1, <2>4, <3>1, <3>2, <3>4 DEF ParseOK, more, s
  <2>6. CASE IsAddress(c)
    <3>1. Rich(more) = Rich(data) \union {n + 1} /\ n + 1 \notin Rich(data)
      BY <2>2, <2>4, <2>6 DEF Rich
    <3>2. /\ IsFiniteSet(Rich(more)) /\ Cardinality(Rich(data)) \in Nat
          /\ Cardinality(Rich(more)) = Cardinality(Rich(data)) + 1
      BY <2>1, <3>1, FS_AddElement, FS_CardinalityType
    <3>3. \A i \in Rich(data): more[i] = data[i]
      BY <2>4 DEF Rich
    <3>4. {Lower(Candidate(more[i], column)): i \in Rich(more)} = ToSet(r.valid) \union {Lower(c)}
      BY <2>1, <2>4, <3>1, <3>3 DEF c
    <3>5. r.valid \in Seq(Cells) /\ r.duplicates \in Seq(Cells) /\ s \in Results
      BY <2>1, <2>2, <2>3, AddCandidateFacts DEF Results
    <3>6. /\ Len(Append(r.valid, Lower(c))) + Len(r.duplicates) = Len(r.valid) + Len(r.duplicates) + 1
          /\ Len(r.valid) + Len(Append(r.duplicates, Lower(c))) = Len(r.valid) + Len(r.duplicates) + 1
      BY <2>2, <3>5, OneMore
    <3>7. CASE Contains(r.valid, Lower(c))
      <4>1. s.valid = r.valid /\ s.duplicates = Append(r.duplicates, Lower(c))
        BY <2>1, <2>2, <2>3, <2>6, <3>7, AddCandidateFacts
      <4>2. Len(s.valid) + Len(s.duplicates) = Len(r.valid) + Len(r.duplicates) + 1
        BY <4>1, <3>6
      <4>3. ToSet(s.valid) = ToSet(r.valid) \union {Lower(c)}
        BY <2>2, <3>5, <3>7, <4>1, AppendFacts
      <4>4. QED
        BY <2>1, <2>4, <3>2, <3>4, <3>5, <4>2, <4>3 DEF ParseOK, more, s
    <3>8. CASE ~Contains(r.valid, Lower(c))
      <4>1. s.valid = Append(r.valid, Lower(c)) /\ s.duplicates = r.duplicates
        BY <2>1, <2>2, <2>3, <2>6, <3>8, AddCandidateFacts
      <4>2. Len(s.valid) + Len(s.duplicates) = Len(r.valid) + Len(r.duplicates) + 1
        BY <4>1, <3>6
      <4>3. ToSet(s.valid) = ToSet(r.valid) \union {Lower(c)}
        BY <2>2, <3>5, <4>1, AppendFacts
      <4>4. QED
        BY <2>1, <2>4, <3>2, <3>4, <3>5, <4>2, <4>3 DEF ParseOK, more, s
    <3>9. QED
      BY <3>7, <3>8
  <2>7. QED
    BY <2>5, <2>6 DEF more
<1>3. Seq(Seq(Cells)) \subseteq T
  <2> HIDE DEF T
  <2>1. QED
    BY <1>1, <1>2, Grown
<1>4. QED
  BY <1>3

\* The rows that are kept of some lines are those of the set.
LEMMA KeepFacts ==
  ASSUME NEW S, NEW kept
  PROVE  \A list \in Seq(S): /\ Keep(list, kept) \in Seq(S)
                             /\ ToSet(Keep(list, kept)) = ToSet(list) \intersect kept
<1> DEFINE T == {list \in Seq(S): /\ Keep(list, kept) \in Seq(S)
                                  /\ ToSet(Keep(list, kept)) = ToSet(list) \intersect kept}
<1>1. <<>> \in T
  <2>1. <<>> \in Seq(S) /\ ToSet(<<>>) = {}
    BY DEF ToSet
  <2>2. QED
    BY <2>1, KeepGrows
<1>2. ASSUME NEW list \in Seq(S), NEW x \in S, list \in T PROVE Append(list, x) \in T
  <2> DEFINE k == Keep(list, kept)
  <2>1. k \in Seq(S) /\ ToSet(k) = ToSet(list) \intersect kept
    BY <1>2
  <2>2. Keep(Append(list, x), kept) = AddKept(k, x, kept)
    BY KeepGrows
  <2> HIDE DEF k
  <2>3. /\ ToSet(Append(list, x)) = ToSet(list) \union {x} /\ Append(list, x) \in Seq(S)
        /\ ToSet(Append(k, x)) = ToSet(k) \union {x} /\ Append(k, x) \in Seq(S)
    BY <2>1, AppendFacts
  <2>4. CASE x \in kept
    <3>1. Keep(Append(list, x), kept) = Append(k, x)
      BY <2>2, <2>4 DEF AddKept
    <3>2. (ToSet(list) \union {x}) \intersect kept = ToSet(k) \union {x}
      BY <2>1, <2>4
    <3>3. QED
      BY <2>3, <3>1, <3>2
  <2>5. CASE x \notin kept
    <3>1. Keep(Append(list, x), kept) = k
      BY <2>2, <2>5 DEF AddKept
    <3>2. (ToSet(list) \union {x}) \intersect kept = ToSet(k)
      BY <2>1, <2>5
    <3>3. QED
      BY <2>1, <2>3, <3>1, <3>2
  <2>6. QED
    BY <2>4, <2>5
<1>3. Seq(S) \subseteq T
  <2> HIDE DEF T
  <2>1. QED
    BY <1>1, <1>2, Grown
<1>4. QED
  BY <1>3

\* A sequence of one element.
LEMMA OneElement ==
  ASSUME NEW x
  PROVE  Append(<<>>, x)[1] = x /\ Append(<<>>, x) # <<>> /\ Tail(Append(<<>>, x)) = <<>>
OBVIOUS

\* A sequence without its first element.
LEMMA TailFacts ==
  ASSUME NEW S, NEW s \in Seq(S), s # <<>>
  PROVE  /\ Tail(s) \in Seq(S) /\ Tail(s) = SubSeq(s, 2, Len(s))
         /\ s[1] \in ToSet(s) /\ s[1] \in S
         /\ \A x \in S: /\ Append(s, x)[1] = s[1] /\ Append(s, x) # <<>>
                        /\ Tail(Append(s, x)) = Append(Tail(s), x)
<1>1. Len(s) \in Nat \ {0} /\ DOMAIN s = 1..Len(s)
  OBVIOUS
<1>2. /\ Tail(s) \in Seq(S) /\ Len(Tail(s)) = Len(s) - 1
      /\ \A i \in 1..(Len(s) - 1): Tail(s)[i] = s[i + 1]
  BY <1>1
<1>3. Tail(s) = SubSeq(s, 2, Len(s))
  BY <1>1
<1>4. s[1] \in ToSet(s) /\ s[1] \in S
  BY <1>1 DEF ToSet
<1>5. ASSUME NEW x \in S
      PROVE  /\ Append(s, x)[1] = s[1] /\ Append(s, x) # <<>>
             /\ Tail(Append(s, x)) = Append(Tail(s), x)
  BY <1>1, <1>2
<1>6. QED
  BY <1>2, <1>3, <1>4, <1>5

\* A row of blank cells has a blank candidate.
LEMMA BlankRow ==
  ASSUME NEW row \in Seq(Cells), NEW column \in Nat, \A i \in DOMAIN row: IsBlank(row[i])
  PROVE  IsBlank(Candidate(row, column))
<1>1. \A i \in 1..Len(row): ~IsAddress(row[i])
  BY DEF IsBlank, IsAddress
<1>2. SelectInSeq(row, IsAddress) = 0
  <2>1. {i \in 1..Len(row): IsAddress(row[i])} = {}
    BY <1>1
  <2>2. QED
    BY <2>1 DEF SelectInSeq
<1>3. Candidate(row, column) = IF column \in DOMAIN row THEN row[column] ELSE Plain("blank")
  BY <1>2 DEF Candidate
<1>4. QED
  BY <1>3 DEF Plain, IsBlank

\* Two ways to keep rows that differ in blank ones only parse alike; and so do
\* the rows after the first, if that one is not blank.
Agree(list, more, less, column) ==
    LET k == Keep(list, more)
        l == Keep(list, less)
    IN /\ Parse(k, column) = Parse(l, column)
       /\ k = <<>> => l = <<>>
       /\ k # <<>> /\ k[1] \in less =>
            /\ l # <<>> /\ l[1] = k[1]
            /\ Parse(Tail(k), column) = Parse(Tail(l), column)

LEMMA KeepsAgree ==
  ASSUME NEW column \in Nat, NEW more, NEW less, less \subseteq more,
         \A row \in Seq(Cells): row \in more \ less => IsBlank(Candidate(row, column))
  PROVE  \A list \in Seq(Seq(Cells)): Agree(list, more, less, column)
<1> DEFINE T == {list \in Seq(Seq(Cells)): Agree(list, more, less, column)}
<1>1. <<>> \in T
  <2>1. Keep(<<>>, more) = <<>> /\ Keep(<<>>, less) = <<>> /\ <<>> \in Seq(Seq(Cells))
    BY KeepGrows
  <2>2. QED
    BY <2>1 DEF Agree
<1>2. ASSUME NEW list \in Seq(Seq(Cells)), NEW x \in Seq(Cells), list \in T
      PROVE  Append(list, x) \in T
  <2> DEFINE k == Keep(list, more)
             l == Keep(list, less)
             c == Candidate(x, column)
  <2>1. /\ Parse(k, column) = Parse(l, column)
        /\ k = <<>> => l = <<>>
        /\ k # <<>> /\ k[1] \in less =>
             /\ l # <<>> /\ l[1] = k[1]
             /\ Parse(Tail(k), column) = Parse(Tail(l), column)
    BY <1>2 DEF Agree
  <2>2. k \in Seq(Seq(Cells)) /\ l \in Seq(Seq(Cells)) /\ Append(list, x) \in Seq(Seq(Cells))
    BY KeepFacts
  <2>3. /\ Keep(Append(list, x), more) = AddKept(k, x, more)
        /\ Keep(Append(list, x), less) = AddKept(l, x, less)
    BY KeepGrows
  <2>4. c \in Cells /\ (x \in more \ less => IsBlank(c))
    BY CandidateFacts
  <2> HIDE DEF k, l, c
  <2>5. ASSUME NEW s \in Seq(Seq(Cells))
        PROVE  /\ Parse(Append(s, x), column) = AddCandidate(Parse(s, column), c)
               /\ Parse(s, column) \in Results
               /\ IsBlank(c) => Parse(Append(s, x), column) = Parse(s, column)
    <3>1. Parse(Append(s, x), column) = AddCandidate(Parse(s, column), c)
      BY ParseGrows DEF c
    <3>2. Parse(s, column) \in Results
      BY ParseFacts DEF ParseOK
    <3>3. QED
      BY <2>4, <3>1, <3>2, AddCandidateFacts
  <2>6. ASSUME NEW s \in Seq(Seq(Cells)), s # <<>>
         PROVE  /\ Append(s, x) # <<>> /\ Append(s, x)[1] = s[1]
                /\ Tail(Append(s, x)) = Append(Tail(s), x) /\ Tail(s) \in Seq(Seq(Cells))
    <3>1. \A S: s \in Seq(S) => \A y \in S: /\ Append(s, y)[1] = s[1] /\ Append(s, y) # <<>>
                                           /\ Tail(Append(s, y)) = Append(Tail(s), y)
      BY <2>6, TailFacts
    <3>2. Append(s, x)[1] = s[1] /\ Append(s, x) # <<>>
      BY <3>1
    <3>3. Tail(Append(s, x)) = Append(Tail(s), x)
      BY <3>1
    <3>4. Tail(s) \in Seq(Seq(Cells))
      BY <2>6, TailFacts
    <3>5. QED
      BY <3>2, <3>3, <3>4
  <2>7. CASE x \notin more
    <3>1. Keep(Append(list, x), more) = k /\ Keep(Append(list, x), less) = l
      BY <2>3, <2>7 DEF AddKept
    <3>2. QED
      BY <2>1, <2>2, <3>1 DEF Agree
  <2>8. CASE x \in more \ less
    <3>1. Keep(Append(list, x), more) = Append(k, x) /\ Keep(Append(list, x), less) = l
      BY <2>3, <2>8 DEF AddKept
    <3>2. Parse(Append(k, x), column) = Parse(l, column)
      BY <2>1, <2>2, <2>4, <2>5, <2>8
    <3>3. CASE k = <<>>
      <4>1. Append(k, x) # <<>> /\ Append(k, x)[1] = x
        BY <2>2, <3>3, OneElement
      <4>2. QED
        BY <2>2, <2>8, <3>1, <3>2, <4>1 DEF Agree
    <3>4. CASE k # <<>>
      <4>1. /\ Append(k, x) # <<>> /\ Append(k, x)[1] = k[1]
            /\ Tail(Append(k, x)) = Append(Tail(k), x) /\ Tail(k) \in Seq(Seq(Cells))
        BY <2>2, <2>6, <3>4
      <4>2. Parse(Tail(Append(k, x)), column) = Parse(Tail(k), column)
        BY <2>4, <2>5, <2>8, <4>1
      <4>3. QED
        BY <2>1, <2>2, <3>1, <3>2, <3>4, <4>1, <4>2 DEF Agree
    <3>5. QED
      BY <3>3, <3>4
  <2>9. CASE x \in less
    <3>1. Keep(Append(list, x), more) = Append(k, x) /\ Keep(Append(list, x), less) = Append(l, x)
      BY <2>3, <2>9 DEF AddKept
    <3>2. Parse(Append(k, x), column) = Parse(Append(l, x), column)
      BY <2>1, <2>2, <2>5
    <3>3. CASE k = <<>>
      <4>1. l = <<>> /\ Append(k, x) # <<>>
        BY <2>1, <2>2, <3>3, OneElement
      <4>2. QED
        BY <2>2, <3>1, <3>2, <3>3, <4>1 DEF Agree
    <3>4. CASE k # <<>>
      <4>1. /\ Append(k, x) # <<>> /\ Append(k, x)[1] = k[1]
            /\ Tail(Append(k, x)) = Append(Tail(k), x) /\ Tail(k) \in Seq(Seq(Cells))
        BY <2>2, <2>6, <3>4
      <4>2. l # <<>> => /\ Append(l, x) # <<>> /\ Append(l, x)[1] = l[1]
                        /\ Tail(Append(l, x)) = Append(Tail(l), x) /\ Tail(l) \in Seq(Seq(Cells))
        BY <2>2, <2>6
      <4>3. k[1] \in less => Parse(Tail(Append(k, x)), column) = Parse(Tail(Append(l, x)), column)
        BY <2>1, <2>5, <3>4, <4>1, <4>2
      <4>4. QED
        BY <2>1, <2>2, <3>1, <3>2, <3>4, <4>1, <4>2, <4>3 DEF Agree
    <3>5. QED
      BY <3>3, <3>4
  <2>10. QED
    BY <2>7, <2>8, <2>9
<1>3. Seq(Seq(Cells)) \subseteq T
  <2> HIDE DEF T
  <2>1. QED
    BY <1>1, <1>2, Grown
<1>4. QED
  BY <1>3

-------------------------------------------------------------------------------
(* Files *)

\* The header of some rows, their column of addresses, and the rows of addresses.
LEMMA HeaderFacts ==
  ASSUME NEW rows \in Seq(Seq(Cells))
  PROVE  /\ EmailColumn(rows) \in Nat
         /\ HasHeader(rows) <=> HeaderColumn(rows) # 0
         /\ HasHeader(rows) => EmailColumn(rows) = NamedColumn(rows)
         /\ DataRows(rows) = Data(rows) /\ Data(rows) \in Seq(Seq(Cells))
         /\ ParseRows(rows) = Parse(Data(rows), EmailColumn(rows))
<1>1. CASE rows = <<>>
  <2>1. HeaderColumn(rows) = 0 /\ ~HasHeader(rows)
    BY <1>1 DEF HeaderColumn, HasHeader
  <2>2. QED
    BY <2>1 DEF EmailColumn, DataRows, Data, ParseRows, Parse
<1>2. CASE rows # <<>>
  <2> DEFINE I == {i \in 1..Len(rows[1]): IsHeader(rows[1][i])}
  <2>1. rows[1] \in Seq(Cells) /\ Len(rows[1]) \in Nat /\ DOMAIN rows[1] = 1..Len(rows[1])
    BY <1>2
  <2>2. HeaderColumn(rows) = IF I = {} THEN 0 ELSE Min(I)
    BY <1>2 DEF HeaderColumn, SelectInSeq
  <2>3. HasHeader(rows) <=> I # {}
    BY <1>2, <2>1 DEF HasHeader
  <2>4. /\ DataRows(rows) = IF HeaderColumn(rows) = 0 THEN rows ELSE Tail(rows)
        /\ Tail(rows) = SubSeq(rows, 2, Len(rows)) /\ Tail(rows) \in Seq(Seq(Cells))
    BY <1>2, TailFacts DEF DataRows
  <2>5. CASE I = {}
    <3>1. HeaderColumn(rows) = 0 /\ ~HasHeader(rows)
      BY <2>2, <2>3, <2>5
    <3>2. QED
      BY <2>4, <3>1 DEF EmailColumn, DataRows, Data, ParseRows, Parse
  <2>6. CASE I # {}
    <3>1. I \in SUBSET (1..Len(rows[1]))
      OBVIOUS
    <3>2. Min(I) \in I /\ \A i \in I: Min(I) <= i
      <4> HIDE DEF I
      <4>1. QED
        BY <2>1, <2>6, <3>1, MinIn
    <3>3. HeaderColumn(rows) = Min(I) /\ Min(I) # 0 /\ Min(I) \in Nat
      BY <2>2, <2>6, <3>2
    <3> DEFINE First(i) == IsHeader(rows[1][i]) /\ \A j \in 1..(i - 1): ~IsHeader(rows[1][j])
    <3>4. \A i \in 1..Len(rows[1]): First(i) <=> i = Min(I)
      <4> DEFINE m == Min(I)
      <4>1. m \in I /\ \A i \in I: m <= i
        BY <3>2
      <4> HIDE DEF m
      <4>2. \A i \in 1..Len(rows[1]): First(i) <=> i = m
        BY <2>1, <4>1
      <4>3. QED
        BY <4>2 DEF m
    <3>5. NamedColumn(rows) = Min(I)
      <4>1. NamedColumn(rows) = CHOOSE i \in 1..Len(rows[1]): First(i)
        BY <2>1 DEF NamedColumn
      <4>2. Min(I) \in 1..Len(rows[1])
        BY <3>2
      <4> HIDE DEF First, I
      <4>3. QED
        BY <3>4, <4>1, <4>2
    <3>6. QED
      BY <2>3, <2>4, <2>6, <3>3, <3>5 DEF EmailColumn, Data, ParseRows, Parse
  <2>7. QED
    BY <2>5, <2>6
<1>3. QED
  BY <1>1, <1>2

\* The rows of a file, whichever way it is read.
Rows == Seq(Cells) \ {<<>>}

LEMMA RowsFacts ==
  ASSUME NEW lines \in Seq(Rows)
  PROVE  /\ ParsedRows(lines) \in Seq(Rows) /\ ParsedRows(lines) \in Seq(Seq(Cells))
         /\ SplitRows(lines) \in Seq(Seq(Cells))
<1>1. Seq(Rows) \subseteq Seq(Seq(Cells))
  BY DEF Rows
<1>2. ParsedRows(lines) \in Seq(Rows) /\ SplitRows(lines) \in Seq(Rows)
  BY KeepFacts DEF ParsedRows, SplitRows
<1>3. QED
  BY <1>1, <1>2

\* What the parser makes of rows: one valid address or a duplicate for each row
\* with one.
LEMMA ParseRowsFacts ==
  ASSUME NEW rows \in Seq(Seq(Cells))
  PROVE  LET result == ParseRows(rows)
             data == Data(rows)
         IN /\ result \in Results /\ data \in Seq(Seq(Cells))
            /\ IsFiniteSet(Rich(data))
            /\ Len(result.valid) + Len(result.duplicates) = Cardinality(Rich(data))
            /\ ToSet(result.valid) = {Lower(Candidate(data[i], EmailColumn(rows))): i \in Rich(data)}
BY HeaderFacts, ParseFacts DEF ParseOK

\* The two ways to read a file make the same of it, unless its first row is blank.
LEMMA SameRows ==
  ASSUME NEW lines \in Seq(Rows),
         ParsedRows(lines) # <<>> =>
            \E i \in DOMAIN ParsedRows(lines)[1]: ~IsBlank(ParsedRows(lines)[1][i])
  PROVE  ParseRows(SplitRows(lines)) = ParseRows(ParsedRows(lines))
<1> DEFINE more == {row \in ToSet(lines): ~(Len(row) = 1 /\ IsBlank(row[1]))}
           less == {row \in ToSet(lines): \E i \in DOMAIN row: ~IsBlank(row[i])}
           k == ParsedRows(lines)
           l == SplitRows(lines)
           column == EmailColumn(k)
<1>1. /\ k = Keep(lines, more) /\ l = Keep(lines, less)
      /\ lines \in Seq(Seq(Cells)) /\ k \in Seq(Seq(Cells)) /\ l \in Seq(Seq(Cells))
  <2>1. Seq(Rows) \subseteq Seq(Seq(Cells))
    BY DEF Rows
  <2>2. QED
    BY <2>1, RowsFacts DEF ParsedRows, SplitRows
<1>2. column \in Nat
  BY <1>1, HeaderFacts
<1>3. ToSet(lines) \subseteq Seq(Cells)
  BY <1>1 DEF ToSet
<1>4. less \subseteq more
  <2>1. ASSUME NEW row \in Seq(Cells), Len(row) = 1, IsBlank(row[1])
        PROVE  \A i \in DOMAIN row: IsBlank(row[i])
    BY <2>1
  <2>2. QED
    BY <1>3, <2>1
<1>5. ASSUME NEW row \in Seq(Cells), row \in more \ less PROVE IsBlank(Candidate(row, column))
  <2>1. \A i \in DOMAIN row: IsBlank(row[i])
    BY <1>5
  <2> HIDE DEF column
  <2>2. QED
    BY <1>2, <2>1, BlankRow
<1>6. k # <<>> => k[1] \in less
  <2>1. ToSet(k) \subseteq ToSet(lines)
    <3> HIDE DEF more, k
    <3>1. QED
      BY <1>1, KeepFacts
  <2>2. k # <<>> => k[1] \in ToSet(k)
    BY <1>1, TailFacts
  <2>3. QED
    BY <2>1, <2>2
<1> HIDE DEF more, less, k, l, column
<1>7. /\ Parse(k, column) = Parse(l, column)
      /\ k = <<>> => l = <<>>
      /\ k # <<>> => l # <<>> /\ l[1] = k[1] /\ Parse(Tail(k), column) = Parse(Tail(l), column)
  <2>1. Agree(lines, more, less, column)
    BY <1>1, <1>2, <1>4, <1>5, KeepsAgree
  <2>2. QED
    BY <1>1, <1>6, <2>1 DEF Agree
<1>8. HeaderColumn(l) = HeaderColumn(k) /\ EmailColumn(l) = column
  BY <1>7 DEF HeaderColumn, EmailColumn, column
<1>9. Parse(DataRows(l), column) = Parse(DataRows(k), column)
  <2>1. CASE k = <<>>
    BY <1>7, <2>1
  <2>2. CASE k # <<>>
    BY <1>7, <1>8, <2>2 DEF DataRows
  <2>3. QED
    BY <2>1, <2>2
<1>10. QED
  BY <1>1, <1>8, <1>9, HeaderFacts DEF k, l, column

-------------------------------------------------------------------------------
(* Forms and requests *)

FormRecords ==
    [hasFile: BOOLEAN, lines: Files \union {<<>>}, throws: BOOLEAN, text: Texts \union {<<>>}]
Forms == {f \in FormRecords: IF f.hasFile THEN f.lines \in Files ELSE f.lines = <<>>}
Requests == [at: {"none", "server", "created", "error"}, form: Forms, recipients: Seq(Cells)]
FilePreviews == {PreviewOfFile(lines): lines \in Files}
Previews == {NoPreview} \union {PreviewOfText(text): text \in Texts} \union FilePreviews

Reads == [shows: Previews, old: BOOLEAN]

\* A read that is not old is of the selected file, which is being read, or shown,
\* or what is shown is stale; the preview of a text that is shown for one is that
\* of the present text.
PreviewInv ==
    /\ form \in Forms /\ reading \in [Readers -> Reads] /\ preview \in Previews
    /\ replaced \in 0..MaxReplacements /\ stale \in BOOLEAN
    /\ \A r \in Readers: Reading(r) => reading[r].shows \in FilePreviews
    /\ form.hasFile =>
         /\ \A r \in Readers: Reading(r) /\ ~reading[r].old =>
               reading[r].shows = PreviewOfFile(form.lines)
         /\ \/ \E r \in Readers: Reading(r) /\ ~reading[r].old
            \/ stale
            \/ preview = PreviewOfFile(form.lines)
    /\ ~form.hasFile /\ form.text # <<>> /\ preview.of = "text" => preview = PreviewOfText(form.text)

Created == IF request.at = "created" THEN 1 ELSE 0

\* A request is open as long as isSubmitting; campaigns beside the one of which
\* the reply is on its way have lost theirs.
RequestInv ==
    /\ request \in Requests
    /\ isSubmitting \in BOOLEAN /\ (isSubmitting <=> request.at # "none")
    /\ request.recipients =
         IF request.at = "created" THEN Unique(Listed(request.form)) ELSE <<>>
    /\ accepted \in Nat /\ failures \in 0..MaxFailures /\ lost \in BOOLEAN
    /\ accepted <= failures + Created
    /\ accepted > Created => lost

ComposeInv == PreviewInv /\ RequestInv

\* The lines of a form are rows.
LEMMA LinesFacts ==
  ASSUME NEW f \in Forms
  PROVE  /\ f.lines \in Seq(Rows) /\ ParsedRows(f.lines) \in Seq(Rows)
         /\ ParsedRows(f.lines) \in Seq(Seq(Cells))
<1>1. f.lines \in Files \union {<<>>}
  BY DEF Forms, FormRecords
<1>2. Files \subseteq Seq(Rows) /\ <<>> \in Seq(Rows)
  BY FilesAssumption DEF Rows
<1>3. f.lines \in Seq(Rows)
  BY <1>1, <1>2, Zenon
<1>4. QED
  BY <1>3, RowsFacts

\* Whom a form lists: cells, and from a file addresses only.
LEMMA ListedFacts ==
  ASSUME NEW f \in Forms
  PROVE  /\ Listed(f) \in Seq(Cells)
         /\ f.hasFile => \A c \in ToSet(Listed(f)): IsAddress(c)
<1>1. CASE ~f.hasFile
  <2>1. f.text \in Texts \union {<<>>} /\ Listed(f) = f.text
    BY <1>1 DEF Forms, FormRecords, Listed
  <2>2. Texts \subseteq Seq(Cells) /\ <<>> \in Seq(Cells)
    BY TextsAssumption
  <2>3. QED
    BY <1>1, <2>1, <2>2, Zenon
<1>2. CASE f.hasFile
  <2>1. f.lines \in Seq(Rows)
    <3>1. f.lines \in Files \union {<<>>}
      BY DEF Forms, FormRecords
    <3>2. Files \subseteq Seq(Rows) /\ <<>> \in Seq(Rows)
      BY FilesAssumption DEF Rows
    <3>3. QED
      BY <3>1, <3>2, Zenon
  <2>2. PICK rows \in Seq(Seq(Cells)): Listed(f) = ParseRows(rows).valid
    BY <1>2, <2>1, RowsFacts DEF Listed, ParseCsvOrText
  <2>3. /\ ParseRows(rows) \in Results /\ Data(rows) \in Seq(Seq(Cells))
        /\ ToSet(ParseRows(rows).valid) =
             {Lower(Candidate(Data(rows)[i], EmailColumn(rows))): i \in Rich(Data(rows))}
    BY ParseRowsFacts
  <2>4. ASSUME NEW i \in Rich(Data(rows))
        PROVE  IsAddress(Lower(Candidate(Data(rows)[i], EmailColumn(rows))))
    <3>1. Data(rows)[i] \in Seq(Cells) /\ AddressesIn(Data(rows)[i]) # {} /\ EmailColumn(rows) \in Nat
      BY <2>3, HeaderFacts DEF Rich
    <3>2. QED
      BY <3>1, CandidateFacts, CellFacts
  <2>5. QED
    BY <2>2, <2>3, <2>4 DEF Results
<1>3. QED
  BY <1>1, <1>2 DEF Forms, FormRecords

\* Some of n elements, and the others.
LEMMA PartOf ==
  ASSUME NEW n \in Nat, NEW I \in SUBSET (1..n)
  PROVE  /\ Cardinality(I) \in Nat /\ n - Cardinality(I) \in Nat
         /\ Cardinality((1..n) \ I) = n - Cardinality(I)
         /\ I # 1..n => n - Cardinality(I) > 0
<1>1. IsFiniteSet(1..n) /\ Cardinality(1..n) = n
  BY FS_Interval
<1>2. /\ IsFiniteSet(I) /\ Cardinality(I) <= n /\ (Cardinality(I) = n => I = 1..n)
      /\ Cardinality(I) \in Nat
  <2>1. /\ IsFiniteSet(I) /\ Cardinality(I) <= Cardinality(1..n)
        /\ Cardinality(1..n) = Cardinality(I) => 1..n = I
    BY <1>1, FS_Subset
  <2>2. Cardinality(I) \in Nat
    BY <2>1, FS_CardinalityType
  <2>3. QED
    BY <1>1, <2>1, <2>2
<1>3. Cardinality((1..n) \ I) = n - Cardinality(I)
  <2>1. Cardinality((1..n) \ I) = Cardinality(1..n) - Cardinality((1..n) \intersect I)
    BY <1>1, FS_Difference
  <2>2. (1..n) \intersect I = I
    OBVIOUS
  <2>3. QED
    BY <1>1, <2>1, <2>2
<1>4. QED
  BY <1>2, <1>3

\* A preview counts no more than there is.
LEMMA PreviewFacts == \A p \in Previews: p.valid \in Nat /\ p.invalid \in Nat
<1>1. ASSUME NEW n \in Nat, NEW I \in SUBSET (1..n)
      PROVE  Cardinality(I) \in Nat /\ n - Cardinality(I) \in Nat
  BY PartOf
<1>2. NoPreview.valid \in Nat /\ NoPreview.invalid \in Nat
  BY DEF NoPreview, Counts
<1>3. ASSUME NEW text \in Texts
      PROVE  PreviewOfText(text).valid \in Nat /\ PreviewOfText(text).invalid \in Nat
  <2>1. Len(text) \in Nat /\ DOMAIN text = 1..Len(text)
    BY TextsAssumption
  <2>2. {i \in DOMAIN text: IsAddress(text[i])} \in SUBSET (1..Len(text))
    BY <2>1
  <2>3. QED
    BY <1>1, <2>1, <2>2 DEF PreviewOfText, Counts
<1>4. ASSUME NEW lines \in Files
      PROVE  PreviewOfFile(lines).valid \in Nat /\ PreviewOfFile(lines).invalid \in Nat
  <2> DEFINE rows == ParsedRows(lines)
  <2>1. lines \in Seq(Rows)
    BY FilesAssumption DEF Rows
  <2>2. rows \in Seq(Rows)
    BY <2>1, RowsFacts
  <2> HIDE DEF rows
  <2>3. Len(rows) \in Nat /\ DOMAIN rows = 1..Len(rows)
    BY <2>2
  <2>4. {i \in DOMAIN rows: IsAddress(rows[i][1])} \in SUBSET (1..Len(rows))
    BY <2>3
  <2>5. QED
    BY <1>1, <2>3, <2>4 DEF PreviewOfFile, Counts, rows
<1>5. QED
  BY <1>2, <1>3, <1>4 DEF Previews, FilePreviews

\* The empty form satisfies the invariant.
LEMMA ComposeInit == Init => ComposeInv
<1> SUFFICES ASSUME Init PROVE ComposeInv
  OBVIOUS
<1>1. EmptyForm \in Forms /\ ~EmptyForm.hasFile /\ EmptyForm.text = <<>>
  BY DEF EmptyForm, Forms, FormRecords
<1>2. PreviewInv
  <2>1. NoRead \in Reads
    BY DEF NoRead, Reads, Previews
  <2>2. replaced \in 0..MaxReplacements
    BY ReplacementsAssumption DEF Init
  <2>3. stale \in BOOLEAN
    BY DEF Init
  <2> QED BY <1>1, <2>1, <2>2, <2>3 DEF Init, PreviewInv, Previews, Reading
<1>3. request \in Requests /\ request.at = "none" /\ request.recipients = <<>>
  BY <1>1 DEF Init, NoRequest, Requests
<1>4. RequestInv
  <2>1. /\ isSubmitting = FALSE /\ accepted = 0 /\ lost = FALSE /\ failures = 0
        /\ MaxFailures \in Nat
    BY FailuresAssumption DEF Init
  <2>2. Created = 0
    BY <1>3 DEF Created
  <2>3. isSubmitting \in BOOLEAN /\ (isSubmitting <=> request.at # "none")
    BY <1>3, <2>1, Zenon
  <2>4. /\ accepted \in Nat /\ failures \in 0..MaxFailures
        /\ accepted <= failures + Created /\ ~(accepted > Created)
    BY <2>1, <2>2
  <2>5. request.recipients = IF request.at = "created" THEN Unique(Listed(request.form)) ELSE <<>>
    BY <1>3
  <2>6. QED
    BY <1>3, <2>1, <2>3, <2>4, <2>5, Zenon DEF RequestInv
<1>5. QED
  BY <1>2, <1>4 DEF ComposeInv

\* The user keeps the files at hand.
LEMMA FolderNext == folder \in Folders /\ [Next]_vars => (folder \in Folders)'
<1> SUFFICES ASSUME [Next]_vars PROVE UNCHANGED folder
  OBVIOUS
<1>1. CASE Next
  BY <1>1 DEF Next, TypeText, SelectFile, ShowPreview, FailRead, Submit, Schedule, Succeed, Fail
<1>2. CASE UNCHANGED vars
  BY <1>2 DEF vars
<1>3. QED
  BY <1>1, <1>2

\* Every step keeps the invariant.
LEMMA ComposeNext == folder \in Folders /\ ComposeInv /\ [Next]_vars => ComposeInv'
<1> SUFFICES ASSUME folder \in Folders, ComposeInv, [Next]_vars PROVE ComposeInv'
  OBVIOUS
<1> folder \subseteq Files
  BY DEF Files
<1>0. NoRead \in Reads /\ \A lines \in Files: /\ PreviewOfFile(lines) \in FilePreviews
                                                /\ PreviewOfFile(lines) \in Previews
                                                /\ PreviewOfFile(lines).of = "file"
  <2>1. NoRead \in Reads
    BY DEF NoRead, Reads, Previews
  <2>2. ASSUME NEW lines \in Files PROVE PreviewOfFile(lines).of = "file"
    BY DEF PreviewOfFile, Counts
  <2>3. QED
    BY <2>1, <2>2 DEF FilePreviews, Previews
<1>1. PreviewInv /\ RequestInv
  BY DEF ComposeInv
<1>2. EmptyForm \in Forms /\ ~EmptyForm.hasFile /\ EmptyForm.text = <<>>
  BY DEF EmptyForm, Forms, FormRecords
<1>3. NoRequest \in Requests /\ NoRequest.at = "none" /\ NoRequest.recipients = <<>>
  BY <1>2 DEF NoRequest, Requests
<1>4. ASSUME UNCHANGED <<isSubmitting, request, accepted, lost, failures>> PROVE RequestInv'
  BY <1>1, <1>4 DEF RequestInv, Created
<1>5. ASSUME UNCHANGED pageVars PROVE PreviewInv'
  BY <1>1, <1>5 DEF PreviewInv, Reading, pageVars
<1>6. /\ form \in Forms /\ request \in Requests /\ MaxFailures \in Nat
      /\ accepted \in Nat /\ failures \in 0..MaxFailures
  BY <1>1, FailuresAssumption DEF PreviewInv, RequestInv
<1>7. ASSUME isSubmitting' = FALSE, request' = NoRequest, accepted' \in Nat, lost' \in BOOLEAN,
              failures' \in 0..MaxFailures, accepted' <= failures', accepted' > 0 => lost'
       PROVE  RequestInv'
  <2>1. Created' = 0
    BY <1>3, <1>7 DEF Created
  <2>2. request' \in Requests
    BY <1>3, <1>7
  <2>3. isSubmitting' \in BOOLEAN /\ (isSubmitting' <=> request'.at # "none")
    BY <1>3, <1>7, Zenon
  <2>4. request'.recipients =
          IF request'.at = "created" THEN Unique(Listed(request'.form)) ELSE <<>>
    BY <1>3, <1>7
  <2>5. accepted' <= failures' + Created' /\ (accepted' > Created' => lost')
    <3>1. accepted' \in Nat /\ failures' \in 0..MaxFailures /\ accepted' <= failures'
          /\ MaxFailures \in Nat
      BY <1>6, <1>7, Zenon
    <3>2. ASSUME NEW a \in Nat, NEW b \in 0..MaxFailures, a <= b, NEW c, c = 0
          PROVE  a <= b + c /\ (a > c => a > 0)
      BY <3>1, <3>2
    <3>3. accepted' <= failures' + Created' /\ (accepted' > Created' => accepted' > 0)
      BY <2>1, <3>1, <3>2
    <3>4. QED
      BY <1>7, <3>3, Zenon
  <2>6. QED
    BY <1>7, <2>2, <2>3, <2>4, <2>5, Zenon DEF RequestInv
<1>8. ASSUME NEW text \in Texts \union {<<>>}, TypeText(text) PROVE ComposeInv'
  <2>1. /\ form' \in Forms /\ ~form'.hasFile /\ form'.text = text
        /\ UNCHANGED <<reading, replaced, stale>>
    BY <1>6, <1>8 DEF TypeText, Forms, FormRecords
  <2>2. preview' \in Previews /\ (text # <<>> => preview' = PreviewOfText(text))
    BY <1>1, <1>8 DEF TypeText, PreviewInv, Previews
  <2>3. PreviewInv'
    BY <1>1, <2>1, <2>2 DEF PreviewInv, Reading
  <2>4. QED
    BY <1>4, <1>8, <2>3 DEF ComposeInv, TypeText
<1>9. ASSUME NEW r \in Readers, NEW lines \in Files, NEW throws \in BOOLEAN,
             SelectFile(r, lines, throws)
      PROVE  ComposeInv'
  <2>1. form' \in Forms /\ form'.hasFile /\ form'.lines = lines
    BY <1>6, <1>9 DEF SelectFile, Forms, FormRecords
  <2>2. replaced' \in 0..MaxReplacements /\ UNCHANGED <<preview, stale>>
    <3>1. CASE form.hasFile
      BY <1>1, <1>9, <3>1, ReplacementsAssumption DEF SelectFile, PreviewInv
    <3>2. CASE ~form.hasFile
      BY <1>1, <1>9, <3>2 DEF SelectFile, PreviewInv
    <3>3. QED
      BY <1>9, <3>1, <3>2 DEF SelectFile
  <2> DEFINE new == [shows |-> PreviewOfFile(lines), old |-> FALSE]
  <2>3. new \in Reads /\ new.old = FALSE /\ new.shows = PreviewOfFile(lines) /\ new # NoRead
    <3>1. NoRead.shows.of = "none"
      BY DEF NoRead, NoPreview, Counts
    <3>2. PreviewOfFile(lines) \in Previews /\ PreviewOfFile(lines).of = "file"
      BY <1>0
    <3>3. new \in Reads /\ new.old = FALSE /\ new.shows = PreviewOfFile(lines)
      BY <3>2 DEF Reads
    <3>4. QED
      BY <3>1, <3>2, <3>3
  <2> HIDE DEF new
  <2>4. ASSUME NEW q \in Readers
        PROVE  \/ q = r /\ reading'[q] = new
               \/ q # r /\ reading[q] # NoRead /\ reading'[q] = [reading[q] EXCEPT !.old = TRUE]
               \/ q # r /\ reading'[q] = NoRead
    BY <1>9 DEF SelectFile, Reading, new
  <2>5. ASSUME NEW q \in Readers, q # r, reading'[q] # NoRead
        PROVE  reading'[q] \in Reads /\ reading'[q].old = TRUE /\ reading'[q].shows \in FilePreviews
    <3>1. /\ reading[q] \in Reads /\ reading[q] # NoRead
          /\ reading'[q] = [reading[q] EXCEPT !.old = TRUE]
      BY <1>1, <2>4, <2>5 DEF PreviewInv
    <3>2. reading[q].shows \in FilePreviews
      BY <1>1, <3>1 DEF PreviewInv, Reading
    <3>3. QED
      BY <3>1, <3>2 DEF Reads
  <2>6. reading' \in [Readers -> Reads]
    <3>1. \A q \in Readers: reading'[q] \in Reads
      BY <1>0, <2>3, <2>4, <2>5
    <3>2. QED
      BY <1>9, <3>1 DEF SelectFile
  <2>7. reading'[r] = new
    BY <2>4
  <2>8. PreviewInv'
    <3>1. \A q \in Readers: reading'[q] # NoRead => reading'[q].shows \in FilePreviews
      BY <1>0, <2>3, <2>5, <2>7
    <3>2. \A q \in Readers: reading'[q] # NoRead /\ ~reading'[q].old =>
              reading'[q].shows = PreviewOfFile(lines)
      BY <2>3, <2>5, <2>7
    <3>3. reading'[r] # NoRead /\ ~reading'[r].old
      BY <2>3, <2>7
    <3>4. preview' \in Previews /\ stale' \in BOOLEAN
      BY <1>1, <2>2 DEF PreviewInv
    <3>5. QED
      BY <2>1, <2>2, <2>6, <3>1, <3>2, <3>3, <3>4 DEF PreviewInv, Reading
  <2>9. QED
    BY <1>4, <1>9, <2>8 DEF ComposeInv, SelectFile
<1>10. ASSUME NEW r \in Readers, ShowPreview(r) \/ FailRead(r) PROVE ComposeInv'
  <2>1. /\ reading[r] # NoRead /\ reading[r] \in Reads /\ reading[r].shows \in FilePreviews
        /\ reading[r].old \in BOOLEAN
    BY <1>1, <1>10 DEF ShowPreview, FailRead, Reading, PreviewInv, Reads
  <2>2. /\ reading' \in [Readers -> Reads] /\ reading'[r] = NoRead
        /\ \A q \in Readers \ {r}: reading'[q] = reading[q]
        /\ form' = form /\ replaced' = replaced
    BY <1>1, <1>10, <1>0 DEF ShowPreview, FailRead, PreviewInv
  <2>3. stale' \in BOOLEAN /\ preview' \in {preview, reading[r].shows}
    BY <1>1, <1>10, <2>1 DEF ShowPreview, FailRead, PreviewInv
  <2>4. reading[r].shows \in Previews /\ reading[r].shows.of = "file"
    BY <1>0, <2>1 DEF FilePreviews
  <2>5. ASSUME form.hasFile
        PROVE  \/ \E q \in Readers: reading'[q] # NoRead /\ ~reading'[q].old
               \/ stale'
               \/ preview' = PreviewOfFile(form.lines)
    <3>1. CASE reading[r].old /\ ShowPreview(r)
      BY <3>1 DEF ShowPreview
    <3>2. CASE reading[r].old /\ FailRead(r)
      <4>1. stale' = stale /\ preview' = preview
        BY <1>1, <3>2 DEF FailRead, PreviewInv
      <4>2. CASE \E q \in Readers: reading[q] # NoRead /\ ~reading[q].old
        BY <2>2, <3>2, <4>2
      <4>3. QED
        BY <1>1, <2>5, <4>1, <4>2 DEF PreviewInv, Reading
    <3>3. CASE ~reading[r].old /\ ShowPreview(r)
      <4>1. reading[r].shows = PreviewOfFile(form.lines)
        BY <1>1, <2>1, <2>5, <3>3 DEF PreviewInv, Reading
      <4>2. QED
        BY <3>3, <4>1 DEF ShowPreview
    <3>4. CASE ~reading[r].old /\ FailRead(r)
      BY <3>4 DEF FailRead
    <3>5. QED
      BY <1>10, <2>1, <3>1, <3>2, <3>3, <3>4
  <2>6. PreviewInv'
    <3>1. preview'.of = "text" => preview' = preview
      BY <2>3, <2>4
    <3>2. /\ form' \in Forms /\ preview' \in Previews /\ replaced' \in 0..MaxReplacements
          /\ \A q \in Readers: reading'[q] # NoRead => reading'[q].shows \in FilePreviews
      BY <1>1, <2>2, <2>3, <2>4 DEF PreviewInv, Reading
    <3>3. form.hasFile => \A q \in Readers: reading'[q] # NoRead /\ ~reading'[q].old =>
              reading'[q].shows = PreviewOfFile(form.lines)
      BY <1>1, <2>2 DEF PreviewInv, Reading
    <3>4. ~form.hasFile /\ form.text # <<>> /\ preview'.of = "text" =>
              preview' = PreviewOfText(form.text)
      BY <1>1, <3>1 DEF PreviewInv
    <3>5. QED
      BY <2>2, <2>3, <2>5, <3>2, <3>3, <3>4 DEF PreviewInv, Reading
  <2>7. failures' \in 0..MaxFailures /\ failures' >= failures
        /\ UNCHANGED <<isSubmitting, request, accepted, lost>>
    BY <1>6, <1>10 DEF ShowPreview, FailRead, Fault
  <2>8. RequestInv'
    <3>1. Created' = Created /\ Created \in {0, 1}
      BY <2>7 DEF Created
    <3>2. accepted' <= failures' + Created'
      <4>1. accepted <= failures + Created /\ accepted' = accepted
        BY <1>1, <2>7 DEF RequestInv
      <4>2. accepted \in Nat /\ failures \in Nat /\ failures' \in Nat /\ failures' >= failures
        BY <1>6, <2>7
      <4>3. \A a, b, c \in Nat: \A d \in {0, 1}: a <= b + d /\ c >= b => a <= c + d
        OBVIOUS
      <4>4. accepted <= failures' + Created
        BY <3>1, <4>1, <4>2, <4>3
      <4>5. QED
        BY <3>1, <4>1, <4>4
    <3>3. QED
      BY <1>1, <2>7, <3>1, <3>2 DEF RequestInv
  <2>9. QED
    BY <2>6, <2>8 DEF ComposeInv
<1>11. CASE Submit
  <2>1. request.at = "none" /\ isSubmitting' = TRUE /\ UNCHANGED <<accepted, lost, failures>>
    BY <1>1, <1>11 DEF Submit, CanSubmit, RequestInv
  <2>2. request' \in Requests /\ request'.at = "server" /\ request'.recipients = <<>>
    BY <1>6, <1>11 DEF Submit, Requests
  <2>3. RequestInv'
    BY <1>1, <2>1, <2>2 DEF RequestInv, Created
  <2>4. QED
    BY <1>5, <1>11, <2>3 DEF ComposeInv, Submit
<1>12. CASE Schedule
  <2> DEFINE unique == Unique(Listed(request.form))
  <2>1. unique \in Seq(Cells)
    BY <1>6, ListedFacts, UniqueFacts DEF UniqueOK, Requests
  <2> HIDE DEF unique
  <2>2. /\ request.at = "server" /\ isSubmitting' = isSubmitting /\ lost' = lost
        /\ isSubmitting = TRUE
    BY <1>1, <1>12 DEF Schedule, RequestInv
  <2>3. CASE /\ request' = [request EXCEPT !.at = "created", !.recipients = unique]
             /\ accepted' = accepted + 1 /\ failures' = failures
    <3>1. /\ request' \in Requests /\ request'.at = "created" /\ request'.form = request.form
          /\ request'.recipients = unique
      BY <1>6, <2>1, <2>3 DEF Requests
    <3>2. RequestInv'
      BY <1>1, <2>2, <2>3, <3>1 DEF RequestInv, Created, unique
    <3>3. QED
      BY <1>5, <1>12, <3>2 DEF ComposeInv, Schedule
  <2>4. CASE /\ request' = [request EXCEPT !.at = "error"] /\ accepted' = accepted
             /\ failures' = failures \/ Fault
    <3>1. /\ request' \in Requests /\ request'.at = "error" /\ request'.recipients = <<>>
      BY <1>1, <1>6, <2>2, <2>4 DEF Requests, RequestInv
    <3>2. failures' \in 0..MaxFailures /\ failures' >= failures
      BY <1>6, <2>4 DEF Fault
    <3>3. RequestInv'
      BY <1>1, <2>2, <2>4, <3>1, <3>2 DEF RequestInv, Created
    <3>4. QED
      BY <1>5, <1>12, <3>3 DEF ComposeInv, Schedule
  <2>5. QED
    BY <1>12, <2>3, <2>4 DEF Schedule, unique
<1>13. CASE Succeed
  <2>1. PreviewInv'
    <3>1. stale' \in BOOLEAN
      BY <1>13 DEF Succeed
    <3>2. QED
      BY <1>1, <1>2, <1>13, <3>1 DEF Succeed, PreviewInv, Previews, Reading
  <2>2. RequestInv'
    <3>1. /\ isSubmitting' = FALSE /\ request' = NoRequest /\ accepted' = 0 /\ lost' = FALSE
          /\ failures' = failures
      BY <1>13 DEF Succeed
    <3>2. /\ accepted' \in Nat /\ failures' \in 0..MaxFailures
          /\ accepted' <= failures' /\ ~(accepted' > 0)
      BY <1>6, <3>1
    <3>3. lost' \in BOOLEAN
      BY <3>1
    <3>4. QED
      BY <1>7, <3>1, <3>2, <3>3, Zenon
  <2>3. QED
    BY <2>1, <2>2 DEF ComposeInv
<1>14. CASE Fail
  <2>1. isSubmitting' = FALSE /\ request' = NoRequest /\ accepted' = accepted
    BY <1>14 DEF Fail
  <2>2. \/ request.at = "error" /\ UNCHANGED <<lost, failures>>
        \/ request.at = "created" /\ Fault /\ lost' = TRUE
    BY <1>14 DEF Fail
  <2>3. RequestInv'
    <3>1. CASE request.at = "error" /\ UNCHANGED <<lost, failures>>
      <4>1. Created = 0 /\ lost' = lost /\ lost \in BOOLEAN
        BY <1>1, <3>1 DEF RequestInv, Created
      <4>2. /\ accepted' \in Nat /\ failures' \in 0..MaxFailures /\ accepted' <= failures'
            /\ (accepted' > 0 => lost)
        BY <1>1, <1>6, <2>1, <3>1, <4>1 DEF RequestInv
      <4>3. QED
        BY <1>7, <2>1, <4>1, <4>2, Zenon
    <3>2. CASE request.at = "created" /\ Fault /\ lost' = TRUE
      <4>1. Created = 1
        BY <3>2 DEF Created
      <4>2. /\ accepted' \in Nat /\ failures' \in 0..MaxFailures /\ accepted' <= failures'
        BY <1>1, <1>6, <2>1, <3>2, <4>1 DEF RequestInv, Fault
      <4>3. QED
        BY <1>7, <2>1, <3>2, <4>2, Zenon
    <3>3. QED
      BY <2>2, <3>1, <3>2
  <2>4. QED
    BY <1>5, <1>14, <2>3 DEF ComposeInv, Fail
<1>15. CASE UNCHANGED vars
  BY <1>4, <1>5, <1>15 DEF vars, ComposeInv
<1>16. QED
  BY <1>8, <1>9, <1>10, <1>11, <1>12, <1>13, <1>14, <1>15 DEF Next

\* The invariant holds in every state.
LEMMA ComposeInvHolds == Spec => [](folder \in Folders) /\ []ComposeInv
<1>1. Init => folder \in Folders
  BY DEF Init
<1>2. QED
  BY <1>1, ComposeInit, FolderNext, ComposeNext, PTL DEF Spec

-------------------------------------------------------------------------------
(* Theorems *)

\* The form, its previews and its request have their types.
THEOREM ComposeTypeCorrect == Spec => []TypeOK
<1>1. ASSUME folder \in Folders, ComposeInv PROVE TypeOK
  <2>1. PreviewInv /\ RequestInv
    BY <1>1 DEF ComposeInv
  <2>2. \A p \in {reading[r].shows: r \in Readers} \union {preview}: p.valid >= 0 /\ p.invalid >= 0
    <3>1. {reading[r].shows: r \in Readers} \union {preview} \subseteq Previews
      BY <2>1 DEF PreviewInv, Reads
    <3>2. \A p \in Previews: p.valid >= 0 /\ p.invalid >= 0
      BY PreviewFacts
    <3>3. QED
      BY <3>1, <3>2
  <2>3. /\ form.text \in Texts \union {<<>>} /\ (form.hasFile => form.lines \in Files)
        /\ form.throws \in BOOLEAN
    BY <2>1 DEF PreviewInv, Forms, FormRecords
  <2>4. /\ request.at \in {"none", "server", "created", "error"}
        /\ request.recipients \in Seq(Cells)
    BY <2>1 DEF RequestInv, Requests
  <2>5. accepted \in 0..(MaxFailures + 1)
    <3>1. /\ accepted \in Nat /\ failures \in 0..MaxFailures /\ accepted <= failures + Created
          /\ Created \in {0, 1} /\ MaxFailures \in Nat
      BY <2>1, FailuresAssumption DEF RequestInv, Created
    <3>2. QED
      BY <3>1
  <2>6. isSubmitting \in BOOLEAN /\ lost \in BOOLEAN /\ failures \in 0..MaxFailures
    BY <2>1 DEF RequestInv
  <2>7. replaced \in 0..MaxReplacements /\ stale \in BOOLEAN
    BY <2>1 DEF PreviewInv
  <2>8. QED
    BY <1>1, <2>2, <2>3, <2>4, <2>5, <2>6, <2>7, Zenon DEF TypeOK
<1>2. QED
  BY <1>1, ComposeInvHolds, PTL

\* One form makes one campaign, unless the reply of an accepted one was lost
\* (ComposeModal.tsx, the button that isSubmitting disables).
THEOREM SecondCampaignNeedsLostReplyHolds == Spec => []SecondCampaignNeedsLostReply
<1>1. ASSUME ComposeInv PROVE SecondCampaignNeedsLostReply
  <2>1. accepted > Created => lost
    BY <1>1 DEF ComposeInv, RequestInv
  <2>2. accepted \in Nat /\ Created \in {0, 1}
    BY <1>1 DEF ComposeInv, RequestInv, Created
  <2>3. accepted > 1 => accepted > Created
    BY <2>2
  <2>4. QED
    BY <2>1, <2>3, Zenon DEF SecondCampaignNeedsLostReply
<1>2. QED
  BY <1>1, ComposeInvHolds, PTL

\* No campaign lists a recipient twice, in whatever case (routes/emails.ts).
THEOREM RecipientsAreDistinctHolds == Spec => []RecipientsAreDistinct
<1>1. ASSUME ComposeInv PROVE RecipientsAreDistinct
  <2> DEFINE list == Listed(request.form)
             u == request.recipients
  <2>1. /\ request.form \in Forms
        /\ u = IF request.at = "created" THEN Unique(list) ELSE <<>>
    BY <1>1 DEF ComposeInv, RequestInv, Requests
  <2>2. list \in Seq(Cells)
    BY <2>1, ListedFacts
  <2>3. /\ Unique(list) \in Seq(Cells) /\ ToSet(Unique(list)) = {Lower(c): c \in ToSet(list)}
        /\ \A i, j \in DOMAIN Unique(list): Unique(list)[i] = Unique(list)[j] => i = j
    BY <2>2, UniqueFacts DEF UniqueOK
  <2>4. \A c \in ToSet(Unique(list)): Lower(c) = c
    <3>1. ToSet(list) \subseteq Cells
      BY <2>2 DEF ToSet
    <3>2. QED
      BY <2>3, <3>1, CellFacts
  <2>5. \A i \in DOMAIN Unique(list): Lower(Unique(list)[i]) = Unique(list)[i]
    BY <2>4 DEF ToSet
  <2> HIDE DEF list
  <2>6. \A i, j \in DOMAIN u: Lower(u[i]) = Lower(u[j]) => i = j
    <3>1. DOMAIN <<>> = {}
      OBVIOUS
    <3>2. CASE request.at = "created"
      BY <2>1, <2>3, <2>5, <3>2
    <3>3. CASE request.at # "created"
      BY <2>1, <3>1, <3>3
    <3>4. QED
      BY <3>2, <3>3
  <2> HIDE DEF u
  <2>7. QED
    BY <2>6 DEF RecipientsAreDistinct, IsInjective, u
<1>2. QED
  BY <1>1, ComposeInvHolds, PTL

\* Each row of a selected file that holds an address is good for one of its own
\* (utils/csvParser.ts, the loop).
THEOREM RowsYieldOneAddressHolds == Spec => []RowsYieldOneAddress
<1>1. ASSUME ComposeInv PROVE RowsYieldOneAddress
  <2> DEFINE rows == ParsedRows(form.lines)
             result == ParseRows(rows)
             data == Data(rows)
             column == EmailColumn(rows)
  <2>1. rows \in Seq(Seq(Cells))
    BY <1>1, LinesFacts DEF ComposeInv, PreviewInv
  <2> HIDE DEF rows
  <2>2. /\ result \in Results /\ data \in Seq(Seq(Cells)) /\ column \in Nat
        /\ Len(result.valid) + Len(result.duplicates) = Cardinality(Rich(data))
        /\ ToSet(result.valid) = {Lower(Candidate(data[i], column)): i \in Rich(data)}
    BY <2>1, ParseRowsFacts, HeaderFacts
  <2> HIDE DEF result, data, column
  <2>3. ASSUME NEW i \in Rich(data) PROVE Lower(Candidate(data[i], column)) \in AddressesIn(data[i])
    <3>1. data[i] \in Seq(Cells) /\ AddressesIn(data[i]) # {}
      BY <2>2 DEF Rich
    <3>2. QED
      BY <2>2, <3>1, CandidateFacts
  <2>4. \A i \in Rich(data): AddressesIn(data[i]) \intersect ToSet(result.valid) # {}
    BY <2>2, <2>3
  <2>5. \A c \in ToSet(result.valid): \E i \in Rich(data): c \in AddressesIn(data[i])
    BY <2>2, <2>3
  <2>6. QED
    BY <2>2, <2>4, <2>5 DEF RowsYieldOneAddress, Rich, rows, result, data
<1>2. QED
  BY <1>1, ComposeInvHolds, PTL

\* A file is read alike whether csv-parse takes it or throws, unless its first
\* row is blank (utils/csvParser.ts, the catch block).
THEOREM ParsersAgreeHolds == Spec => []ParsersAgree
<1>1. ASSUME ComposeInv PROVE ParsersAgree
  <2>1. form.lines \in Seq(Rows)
    BY <1>1, LinesFacts DEF ComposeInv, PreviewInv
  <2>2. QED
    BY <2>1, SameRows DEF ParsersAgree, ParseCsvOrText
<1>2. QED
  BY <1>1, ComposeInvHolds, PTL

\* Whoever the header's column names is a recipient of the accepted campaign
\* (utils/csvParser.ts, emailColIndex).
THEOREM HeaderColumnWinsHolds == Spec => []HeaderColumnWins
<1>1. ASSUME ComposeInv PROVE HeaderColumnWins
  <2> DEFINE f == request.form
             rows == ParsedRows(f.lines)
             valid == ParseRows(rows).valid
             data == Data(rows)
             column == NamedColumn(rows)
  <2> SUFFICES ASSUME request.at = "created", HasHeader(rows),
                      NEW row \in ToSet(data), column \in DOMAIN row, IsAddress(row[column])
               PROVE  Lower(row[column]) \in ToSet(request.recipients)
    BY DEF HeaderColumnWins
  <2>1. /\ f \in Forms /\ request.recipients = Unique(Listed(f))
    BY <1>1 DEF ComposeInv, RequestInv, Requests
  <2>2. f.lines \in Seq(Rows) /\ rows \in Seq(Seq(Cells))
    BY <2>1, LinesFacts
  <2>3. f.hasFile => Listed(f) = valid
    <3>1. rows # <<>> => \E i \in DOMAIN rows[1]: ~IsBlank(rows[1][i])
      BY DEF HasHeader, IsHeader, IsBlank
    <3>2. ParseRows(SplitRows(f.lines)) = ParseRows(rows)
      BY <2>2, <3>1, SameRows
    <3>3. QED
      BY <3>2 DEF Listed, ParseCsvOrText
  <2>4. f.hasFile
    <3>1. ~f.hasFile => f.lines = <<>>
      BY <2>1 DEF Forms
    <3>2. Keep(<<>>, {}) = <<>> /\ ToSet(<<>>) = {}
      BY KeepGrows DEF ToSet
    <3>3. ParsedRows(<<>>) = <<>>
      BY <3>2 DEF ParsedRows
    <3>4. rows # <<>>
      BY DEF HasHeader
    <3>5. QED
      BY <3>1, <3>3, <3>4
  <2> HIDE DEF f, rows, data, valid, column
  <2>5. /\ data \in Seq(Seq(Cells)) /\ valid \in Seq(Cells) /\ column \in Nat
        /\ ToSet(valid) = {Lower(Candidate(data[i], column)): i \in Rich(data)}
    <3>1. EmailColumn(rows) \in Nat /\ EmailColumn(rows) = column
      BY <2>2, HeaderFacts DEF column
    <3>2. QED
      BY <2>2, <3>1, ParseRowsFacts DEF data, valid, Results
  <2>6. PICK i \in DOMAIN data: row = data[i]
    BY DEF ToSet
  <2>7. row \in Seq(Cells) /\ row[column] \in Cells
    BY <2>5, <2>6
  <2>8. i \in Rich(data)
    BY <2>6 DEF Rich, AddressesIn
  <2>9. Candidate(data[i], column) = row[column]
    BY <2>5, <2>6, <2>7, CandidateFacts
  <2>10. Lower(row[column]) \in ToSet(valid)
    BY <2>5, <2>8, <2>9
  <2>11. ToSet(Unique(valid)) = {Lower(c): c \in ToSet(valid)}
    BY <2>5, UniqueFacts DEF UniqueOK
  <2>12. Lower(Lower(row[column])) = Lower(row[column])
    BY <2>7, CellFacts
  <2>13. QED
    BY <2>1, <2>3, <2>4, <2>10, <2>11, <2>12
<1>2. QED
  BY <1>1, ComposeInvHolds, PTL

\* The preview of a selected file without a header and with its addresses in the
\* first column is what the route makes of it, however often the file is replaced,
\* unless a read failed or ended after that of a later file (ComposeModal.tsx,
\* reader.onload).
THEOREM PreviewCountsAddressesHolds == Spec => []PreviewCountsAddresses
<1>1. ASSUME ComposeInv PROVE PreviewCountsAddresses
  <2> DEFINE rows == ParsedRows(form.lines)
             result == ParseRows(rows)
             I == {i \in DOMAIN rows: IsAddress(rows[i][1])}
  <2> SUFFICES ASSUME form.hasFile, ~stale, \A r \in Readers: ~Reading(r), ~HasHeader(rows),
                      \A row \in ToSet(rows): AddressesIn(row) # {} => IsAddress(row[1])
               PROVE  /\ preview.valid = Len(result.valid) + Len(result.duplicates)
                      /\ preview.invalid = Cardinality({i \in DOMAIN rows: AddressesIn(rows[i]) = {}})
    BY DEF PreviewCountsAddresses
  <2>1. form \in Forms /\ preview = PreviewOfFile(form.lines)
    BY <1>1 DEF ComposeInv, PreviewInv
  <2>2. rows \in Seq(Rows) /\ rows \in Seq(Seq(Cells))
    BY <2>1, LinesFacts
  <2>3. preview.valid = Cardinality(I) /\ preview.invalid = Len(rows) - Cardinality(I)
    BY <2>1 DEF PreviewOfFile, Counts
  <2> HIDE DEF rows
  <2>4. Data(rows) = rows
    BY DEF Data
  <2>5. Len(result.valid) + Len(result.duplicates) = Cardinality(Rich(rows))
    BY <2>2, <2>4, ParseRowsFacts
  <2>6. Rich(rows) = I
    <3>1. ASSUME NEW i \in DOMAIN rows PROVE AddressesIn(rows[i]) # {} <=> IsAddress(rows[i][1])
      <4>1. rows[i] \in Seq(Cells) /\ rows[i] # <<>>
        BY <2>2 DEF Rows
      <4>2. 1 \in DOMAIN rows[i]
        BY <4>1
      <4>3. rows[i] \in ToSet(rows)
        BY DEF ToSet
      <4>4. QED
        BY <4>2, <4>3 DEF AddressesIn
    <3>2. QED
      BY <3>1 DEF Rich
  <2>7. {i \in DOMAIN rows: AddressesIn(rows[i]) = {}} = (1..Len(rows)) \ I
    <3>1. DOMAIN rows = 1..Len(rows)
      BY <2>2
    <3> HIDE DEF I
    <3>2. QED
      BY <2>6, <3>1 DEF Rich
  <2>8. Cardinality((1..Len(rows)) \ I) = Len(rows) - Cardinality(I)
    <3>1. I \in SUBSET (1..Len(rows)) /\ Len(rows) \in Nat
      BY <2>2
    <3> HIDE DEF I
    <3>2. QED
      BY <3>1, PartOf
  <2> HIDE DEF I, result
  <2>9. QED
    BY <2>3, <2>5, <2>6, <2>7, <2>8
<1>2. QED
  BY <1>1, ComposeInvHolds, PTL

\* Whoever is scheduled without being an address was typed and counted as invalid
\* (ComposeModal.tsx, routes/emails.ts).
THEOREM UncheckedWereAnnouncedHolds == Spec => []UncheckedWereAnnounced
<1>1. ASSUME ComposeInv PROVE UncheckedWereAnnounced
  <2> DEFINE f == request.form
             list == Listed(f)
             I == {i \in DOMAIN form.text: IsAddress(form.text[i])}
  <2> SUFFICES ASSUME request.at = "created",
                      NEW cell \in ToSet(request.recipients), ~IsAddress(cell)
               PROVE  /\ ~f.hasFile
                      /\ form = f /\ preview.of = "text" => preview.invalid > 0
    BY DEF UncheckedWereAnnounced
  <2>1. f \in Forms /\ request.recipients = Unique(list)
    BY <1>1 DEF ComposeInv, RequestInv, Requests
  <2>2. list \in Seq(Cells) /\ (f.hasFile => \A c \in ToSet(list): IsAddress(c))
    BY <2>1, ListedFacts
  <2> HIDE DEF list
  <2>3. PICK c \in ToSet(list): cell = Lower(c)
    BY <2>1, <2>2, UniqueFacts DEF UniqueOK
  <2>4. ~IsAddress(c)
    <3>1. c \in Cells
      BY <2>2 DEF ToSet
    <3>2. QED
      BY <2>3, <3>1, CellFacts
  <2>5. ~f.hasFile /\ list = f.text
    BY <2>2, <2>4 DEF list, Listed
  <2>6. ASSUME form = f, preview.of = "text" PROVE preview.invalid > 0
    <3>1. PICK i \in DOMAIN form.text: form.text[i] = c
      BY <2>5, <2>6 DEF ToSet
    <3>2. form.text \in Seq(Cells)
      BY <2>2, <2>5, <2>6
    <3>3. form.text # <<>>
      BY <3>1
    <3>4. preview = PreviewOfText(form.text)
      BY <1>1, <2>5, <2>6, <3>3 DEF ComposeInv, PreviewInv
    <3>5. preview.invalid = Len(form.text) - Cardinality(I)
      BY <3>4 DEF PreviewOfText, Counts
    <3>6. I \subseteq 1..Len(form.text) /\ I # 1..Len(form.text) /\ Len(form.text) \in Nat
      BY <2>4, <3>1, <3>2
    <3> HIDE DEF I
    <3>7. Len(form.text) - Cardinality(I) > 0
      BY <3>6, PartOf
    <3>8. QED
      BY <3>5, <3>7
  <2>7. QED
    BY <2>5, <2>6
<1>2. QED
  BY <1>1, ComposeInvHolds, PTL
===============================================================================
