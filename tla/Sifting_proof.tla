---------------------------- MODULE Sifting_proof ----------------------------
(***************************************************************************)
(* Proofs about Sifting, for any number of qubits, any batches, drifts and *)
(* bounds on noise, and about the channel it builds with ChannelModel, for *)
(* tables of any length and order, and for any distance.                   *)
(***************************************************************************)
EXTENDS Sifting, SequenceTheorems, FiniteSetTheorems, FunctionTheorems, TLAPS

-----------------------------------------------------------------------------
(* The table of the channel *)

Rows == [d : Int, t : Int]

(* The search is within the table and keeps the distance between its rows. *)
Search ==
  /\ distance \in Nat
  /\ table \in Seq(Rows) /\ unread \in Seq(Rows)
  /\ Bracketed
  /\ at = "search" => lo \in Nat /\ hi \in Nat

(* A row of the table has a distance. *)
LEMMA RowHasDistance ==
  ASSUME NEW tab \in Seq(Rows), NEW i \in 1..Len(tab)
  PROVE  tab[i].d \in Int
<1>1. tab[i] \in Rows
  BY ElementOfSeq
<1> QED BY <1>1 DEF Rows

(* The two halves of a search meet strictly between its ends. *)
LEMMA Middle ==
  ASSUME NEW l \in Nat, NEW h \in Nat, l + 1 < h
  PROVE  LET m == (l + h) \div 2 IN m \in Nat /\ l < m /\ m < h
OBVIOUS

(* The file's rows are numbers, the distance is one of a link. *)
LEMMA SearchInit == ChannelInit => Search
<1> SUFFICES ASSUME ChannelInit
             PROVE  Search
  OBVIOUS
<1>1. << >> \in Seq(Rows)
  BY EmptySeq
<1>2. unread \in Seq(Rows) /\ distance \in Nat
  BY <1>1, ChannelAssumption DEF ChannelInit, Rows
<1> QED BY <1>1, <1>2 DEF ChannelInit, Search, Bracketed

(* Halving keeps the distance between the two rows; the search begins with *)
(* the ends of a table that encloses it.                                   *)
LEMMA SearchStep == Search /\ [Construct]_channelVars => Search'
<1> SUFFICES ASSUME Search, [Construct]_channelVars
             PROVE  Search'
  OBVIOUS
<1>1. CASE NoFiber \/ Unreadable \/ Loaded
  <2>1. << >> \in Seq(Rows)
    BY EmptySeq
  <2>2. at' # "search"
    BY <1>1 DEF NoFiber, Unreadable, Loaded
  <2>3. distance' \in Nat /\ table' \in Seq(Rows) /\ unread' \in Seq(Rows)
    <3>1. CASE NoFiber
      BY <2>1, <3>1 DEF NoFiber, Search
    <3>2. CASE Unreadable
      BY <2>1, <3>2 DEF Unreadable, Search
    <3>3. CASE Loaded
      BY <3>3 DEF Loaded, locals, Search
    <3> QED BY <1>1, <3>1, <3>2, <3>3
  <2> QED BY <2>2, <2>3 DEF Search, Bracketed
<1>2. CASE Formula \/ FirstRow \/ LastRow \/ Interpolate
  BY <1>2 DEF Formula, FirstRow, LastRow, Interpolate, Return, locals, Search, Bracketed
<1>3. CASE BeginSearch
  <2>1. /\ at' = "search" /\ lo' = 1 /\ hi' = Len(table)
        /\ distance > table[1].d /\ distance < table[Len(table)].d
        /\ table # << >> /\ table' = table /\ distance' = distance
    BY <1>3 DEF BeginSearch
  <2>2. Len(table) \in Nat /\ Len(table) > 0
    BY <2>1, EmptySeq, LenProperties DEF Search
  <2>3. table[1].d \in Int /\ table[Len(table)].d \in Int /\ distance \in Nat
    BY <2>2, RowHasDistance DEF Search
  <2>4. Len(table) # 1
    BY <2>1, <2>3
  <2>5. unread' \in Seq(Rows)
    BY <1>3 DEF BeginSearch, Search
  <2>6. Bracketed'
    BY <2>1, <2>2, <2>3, <2>4 DEF Bracketed
  <2> QED BY <2>1, <2>2, <2>5, <2>6 DEF Search
<1>4. CASE Halve
  <2> DEFINE mid == (lo + hi) \div 2
  <2>1. /\ lo \in Nat /\ hi \in Nat /\ lo + 1 < hi /\ at = "search" /\ at' = "search"
        /\ 1 <= lo /\ hi <= Len(table) /\ Len(table) \in Nat
        /\ table[lo].d <= distance /\ distance < table[hi].d
        /\ table' = table /\ distance' = distance /\ unread' = unread
        /\ IF table[mid].d <= distance THEN lo' = mid /\ hi' = hi
                                       ELSE hi' = mid /\ lo' = lo
    BY <1>4 DEF Halve, Search, Bracketed
  <2>2. mid \in Nat /\ lo < mid /\ mid < hi
    BY <2>1, Middle
  <2>3. table[mid].d \in Int /\ distance \in Nat
    BY <2>1, <2>2, RowHasDistance DEF Search
  <2> HIDE DEF mid
  <2>4. CASE table[mid].d <= distance
    BY <2>1, <2>2, <2>4 DEF Search, Bracketed
  <2>5. CASE ~(table[mid].d <= distance)
    BY <2>1, <2>2, <2>3, <2>5 DEF Search, Bracketed
  <2> QED BY <2>4, <2>5
<1>5. CASE Built
  BY <1>5 DEF Built, Search, Bracketed
<1>7. CASE ReadRow
  <2>1. Head(unread) \in Rows /\ Tail(unread) \in Seq(Rows)
    BY <1>7, HeadTailProperties DEF ReadRow, Search
  <2>2. Append(table, Head(unread)) \in Seq(Rows)
    BY <2>1, AppendProperties DEF Search
  <2> QED BY <1>7, <2>1, <2>2 DEF ReadRow, Search, Bracketed
<1>6. CASE UNCHANGED channelVars
  BY <1>6 DEF channelVars, locals, Search, Bracketed
<1> QED BY <1>1, <1>2, <1>3, <1>4, <1>5, <1>6, <1>7 DEF Construct

(* However the rows of the file are ordered and repeated, the search keeps *)
(* two rows of different distances around the session's (_linear_interp):  *)
(* its division is never by zero.                                          *)
THEOREM NeverDividesByZero == ChannelSpec => []Bracketed
<1>1. Search => Bracketed
  BY DEF Search
<1> QED BY <1>1, SearchInit, SearchStep, PTL DEF ChannelSpec

(* The value of _interp is that of the formula, of an end of the table or  *)
(* of the line between two neighbouring rows that enclose the distance.    *)
THEOREM InterpolatesBetweenNeighbours == ChannelSpec => []OnEnclosingLine
<1>1. ChannelInit => OnEnclosingLine
  BY DEF ChannelInit, OnEnclosingLine
<1>2. Search /\ OnEnclosingLine /\ [Construct]_channelVars => OnEnclosingLine'
  <2> SUFFICES ASSUME Search, OnEnclosingLine, [Construct]_channelVars
               PROVE  OnEnclosingLine'
    OBVIOUS
  <2>1. CASE NoFiber \/ ReadRow \/ Unreadable \/ Loaded \/ BeginSearch \/ Halve \/ Built
    BY <2>1 DEF NoFiber, ReadRow, Unreadable, Loaded, BeginSearch, Halve, Built, OnEnclosingLine
  <2>2. CASE Formula
    BY <2>2 DEF Formula, Return, locals, OnEnclosingLine
  <2>3. CASE FirstRow \/ LastRow
    <3>1. /\ table' = table /\ distance' = distance
          /\ \/ distance <= table[1].d /\ T' = Row(1)
             \/ distance >= table[Len(table)].d /\ T' = Row(Len(table))
      BY <2>3 DEF FirstRow, LastRow, Return, locals
    <3> QED BY <3>1 DEF OnEnclosingLine, Row
  <2>4. CASE Interpolate
    <3>1. /\ lo \in Nat /\ hi \in Nat /\ lo < hi /\ lo + 1 >= hi
          /\ 1 <= lo /\ hi <= Len(table) /\ Len(table) \in Nat
          /\ table[lo].d <= distance /\ distance < table[hi].d
          /\ table' = table /\ distance' = distance /\ T' = Line(lo, hi)
      BY <2>4 DEF Interpolate, Return, locals, Search, Bracketed
    <3>2. hi = lo + 1 /\ lo \in 1..(Len(table) - 1)
      BY <3>1
    <3> QED BY <3>1, <3>2 DEF OnEnclosingLine, Line
  <2>5. CASE UNCHANGED channelVars
    BY <2>5 DEF channelVars, locals, OnEnclosingLine, Row, Line
  <2> QED BY <2>1, <2>2, <2>3, <2>4, <2>5 DEF Construct
<1> QED BY <1>1, <1>2, SearchInit, SearchStep, PTL DEF ChannelSpec

-----------------------------------------------------------------------------
(* The photons *)

(* A photon's record. *)
Photon == [of : Qubit \X (1..2), basis : Bases, bit : Bits, noisy : BOOLEAN]

-----------------------------------------------------------------------------
(* The link *)

(* A photon that the fibre turned slightly is projected to its own state   *)
(* (_nearest_state).                                                       *)
LEMMA SlightKeepsState ==
  ASSUME NEW theta \in Int, Slight(theta), NEW b \in Bases, NEW c \in Bits,
         NEW u \in Bases, NEW d \in Bits, Nearest(Angle(b, c) + theta, u, d)
  PROVE  u = b /\ d = c
BY DEF Slight, Nearest, Apart, Turn, Angle, Bases, Bits

(* A photon that passed without noise is as Alice prepared it. *)
LEMMA CleanPhoton ==
  ASSUME TypeOK, NEW q \in Qubit, NEW photon \in Photons(q), Passes(q, photon),
         ~photon.noisy
  PROVE  photon.basis = alice[q].basis /\ photon.bit = alice[q].bit
<1>1. alice[q].basis \in Bases /\ alice[q].bit \in Bits
  BY DEF TypeOK, State
<1>2. photon.basis \in Bases /\ photon.bit \in Bits
  BY DEF Photons
<1>3. CASE fiber
  <2>1. PICK theta \in Drifts :
          /\ Nearest(Angle(alice[q].basis, alice[q].bit) + theta, photon.basis, photon.bit)
          /\ photon.noisy = ~Slight(theta)
    BY <1>3 DEF Passes
  <2>2. theta \in Int
    BY SiftingAssumption
  <2>3. Slight(theta)
    BY <2>1
  <2> QED BY <1>1, <1>2, <2>1, <2>2, <2>3, SlightKeepsState
<1>4. CASE ~fiber
  BY <1>4 DEF Passes
<1> QED BY <1>3, <1>4

(* A qubit is processed once or twice; nothing but the link moves. *)
LEMMA ProcessStep ==
  ASSUME TypeOK, NEW q \in Qubit, Process(q)
  PROVE  /\ sent[q] \in 0..1 /\ sent' = [sent EXCEPT ![q] = @ + 1]
         /\ sent' \in [Qubit -> 0..2]
         /\ UNCHANGED <<alice, eve, siftVars>>
<1>1. sent[q] \in 0..1 /\ sent' = [sent EXCEPT ![q] = @ + 1]
  BY DEF Process, TypeOK
<1>2. sent' \in [Qubit -> 0..2]
  BY <1>1 DEF TypeOK
<1> QED BY <1>1, <1>2 DEF Process

(* What a step of the link may push: an error has a cause. *)
Sound(m) == Error(m) => m.noisy

LEMMA PhotonType ==
  ASSUME TypeOK, NEW q \in Qubit, Process(q), NEW photon \in Photons(q)
  PROVE  photon \in Photon /\ photon.noisy \in BOOLEAN
<1>1. sent[q] + 1 \in 1..2
  BY ProcessStep
<1> QED BY <1>1 DEF Photons, Photon

(* One step per way a qubit can take through the link. *)
LEMMA LinkStep ==
  ASSUME TypeOK, Link
  PROVE  /\ UNCHANGED <<alice, siftVars>>
         /\ eve' \in BOOLEAN /\ sent' \in [Qubit -> 0..2] /\ late' \subseteq Photon
         /\ \/ queue' = queue
            \/ \E m \in Measurement : queue' = Append(queue, m) /\ Sound(m)
<1> DEFINE Goal == /\ UNCHANGED <<alice, siftVars>>
                   /\ eve' \in BOOLEAN /\ sent' \in [Qubit -> 0..2] /\ late' \subseteq Photon
                   /\ \/ queue' = queue
                      \/ \E m \in Measurement : queue' = Append(queue, m) /\ Sound(m)
<1>0. late \subseteq Photon /\ eve \in BOOLEAN /\ sent \in [Qubit -> 0..2]
  BY DEF TypeOK, Photon
<1>1. CASE SetUp \/ EveRegisters
  BY <1>0, <1>1 DEF SetUp, EveRegisters, linkVars
<1>2. ASSUME NEW q \in Qubit, Process(q)
      PROVE  UNCHANGED <<alice, siftVars>> /\ eve' \in BOOLEAN /\ sent' \in [Qubit -> 0..2]
  BY <1>0, <1>2, ProcessStep
<1>3. ASSUME NEW q \in Qubit, Lost(q)
      PROVE  Goal
  BY <1>0, <1>2, <1>3 DEF Lost
<1>4. ASSUME NEW q \in Qubit, DarkCount(q)
      PROVE  Goal
  <2>1. PICK r \in State : Push(q, r, TRUE)
    BY <1>4 DEF DarkCount
  <2> DEFINE m == [id |-> q, basis |-> r.basis, bit |-> r.bit, noisy |-> TRUE]
  <2>2. m \in Measurement /\ queue' = Append(queue, m)
    BY <2>1 DEF Push, Measurement, State
  <2>3. Sound(m)
    BY DEF Sound
  <2>4. Process(q) /\ UNCHANGED late
    BY <1>4 DEF DarkCount
  <2> HIDE DEF m
  <2> QED BY <1>0, <1>2, <2>2, <2>3, <2>4
<1>5. ASSUME NEW q \in Qubit, Intercept(q)
      PROVE  Goal
  <2>1. Process(q) /\ UNCHANGED late
    BY <1>5 DEF Intercept
  <2>2. PICK r \in State : Push(q, r, TRUE)
    BY <1>5 DEF Intercept
  <2> DEFINE m == [id |-> q, basis |-> r.basis, bit |-> r.bit, noisy |-> TRUE]
  <2>3. m \in Measurement /\ queue' = Append(queue, m)
    BY <2>2 DEF Push, Measurement, State
  <2>4. Sound(m)
    BY DEF Sound
  <2> HIDE DEF m
  <2> QED BY <1>0, <1>2, <2>1, <2>3, <2>4
<1>6. ASSUME NEW q \in Qubit, Receive(q)
      PROVE  Goal
  <2>1. Process(q)
    BY <1>6 DEF Receive
  <2>2. PICK photon \in Photons(q), r \in State : \E got \in late \cup {photon} :
          /\ Passes(q, photon)
          /\ Measures(r.basis, r.bit, got)
          /\ late' = (late \cup {photon}) \ {got}
          /\ Push(q, r, got.noisy \/ got # photon)
    BY <1>6 DEF Receive
  <2>3. PICK got \in late \cup {photon} :
          /\ Passes(q, photon)
          /\ Measures(r.basis, r.bit, got)
          /\ late' = (late \cup {photon}) \ {got}
          /\ Push(q, r, got.noisy \/ got # photon)
    BY <2>2
  <2>4. photon \in Photon
    BY <2>1, PhotonType
  <2>5. got \in Photon /\ got.noisy \in BOOLEAN
    BY <1>0, <2>4 DEF Photon
  <2> DEFINE m == [id |-> q, basis |-> r.basis, bit |-> r.bit,
                   noisy |-> got.noisy \/ got # photon]
  <2>6. m \in Measurement /\ queue' = Append(queue, m)
    BY <2>3, <2>5 DEF Push, Measurement, State
  <2>7. Sound(m)
    <3> SUFFICES ASSUME ~m.noisy
                 PROVE  ~Error(m)
      BY DEF Sound
    <3>1. got = photon /\ ~photon.noisy
      OBVIOUS
    <3>2. photon.basis = alice[q].basis /\ photon.bit = alice[q].bit
      BY <2>3, <3>1, CleanPhoton
    <3> QED BY <2>3, <3>1, <3>2 DEF Measures, Error
  <2>8. late' \subseteq Photon
    BY <1>0, <2>3, <2>4
  <2> HIDE DEF m
  <2> QED BY <1>2, <2>1, <2>6, <2>7, <2>8
<1>7. ASSUME NEW q \in Qubit, GiveUp(q)
      PROVE  Goal
  <2>1. PICK photon \in Photons(q) : late' = late \cup {photon}
    BY <1>7 DEF GiveUp
  <2>2. Process(q) /\ queue' = queue
    BY <1>7 DEF GiveUp
  <2>3. late' \subseteq Photon
    BY <1>0, <2>1, <2>2, PhotonType
  <2> QED BY <1>2, <2>2, <2>3
<1> QED BY <1>1, <1>3, <1>4, <1>5, <1>6, <1>7 DEF Link

-----------------------------------------------------------------------------
(* Sorting *)

(* f lists the elements of S in increasing order. *)
Increasing(f, S) ==
  /\ f \in [1..Cardinality(S) -> S]
  /\ \A i, j \in 1..Cardinality(S) : i < j => f[i] < f[j]

(* How many elements of S come before x. *)
Below(S, x) == {y \in S : y < x}
Rank(S, x)  == Cardinality(Below(S, x))

LEMMA RankType ==
  ASSUME NEW S, S \subseteq Int, IsFiniteSet(S), NEW x \in S
  PROVE  Rank(S, x) \in Nat /\ Rank(S, x) + 1 \in 1..Cardinality(S)
<1>1. IsFiniteSet(S \ {x}) /\ Cardinality(S \ {x}) = Cardinality(S) - 1
  BY FS_RemoveElement
<1>2. Below(S, x) \subseteq S \ {x}
  BY DEF Below
<1>3. IsFiniteSet(Below(S, x)) /\ Rank(S, x) <= Cardinality(S) - 1
  BY <1>1, <1>2, FS_Subset DEF Rank
<1>4. Rank(S, x) \in Nat /\ Cardinality(S) \in Nat
  BY <1>3, FS_CardinalityType DEF Rank
<1> QED BY <1>3, <1>4

LEMMA RankGrows ==
  ASSUME NEW S, S \subseteq Int, IsFiniteSet(S), NEW x \in S, NEW y \in S, x < y
  PROVE  Rank(S, x) < Rank(S, y)
<1>0. x \in Int /\ y \in Int /\ \A z \in S : z \in Int
  OBVIOUS
<1>1. Below(S, x) \cup {x} \subseteq Below(S, y) /\ x \notin Below(S, x)
  <2>1. \A z : /\ z \in Below(S, x) <=> z \in S /\ z < x
               /\ z \in Below(S, y) <=> z \in S /\ z < y
    BY DEF Below
  <2>2. \A z \in S : z < x => z < y
    BY <1>0
  <2>3. x \in Below(S, y) /\ x \notin Below(S, x)
    BY <1>0, <2>1
  <2>4. \A z \in Below(S, x) : z \in Below(S, y)
    BY <2>1, <2>2
  <2> QED BY <2>3, <2>4, Zenon
<1>2. IsFiniteSet(Below(S, x)) /\ IsFiniteSet(Below(S, y))
  BY FS_Subset DEF Below
<1>3. Cardinality(Below(S, x) \cup {x}) = Rank(S, x) + 1
  BY <1>1, <1>2, FS_AddElement DEF Rank
<1>4. Cardinality(Below(S, x) \cup {x}) <= Rank(S, y)
  BY <1>1, <1>2, FS_Subset DEF Rank
<1>5. Rank(S, x) \in Nat /\ Rank(S, y) \in Nat
  BY RankType
<1> QED BY <1>3, <1>4, <1>5

LEMMA RankIncreases ==
  ASSUME NEW S, S \subseteq Int, IsFiniteSet(S)
  PROVE  \A x, y \in S : x < y => Rank(S, x) < Rank(S, y)
BY RankGrows

(* There is an element of every rank. *)
LEMMA RankOnto ==
  ASSUME NEW S, S \subseteq Int, IsFiniteSet(S), NEW k \in 1..Cardinality(S)
  PROVE  \E x \in S : Rank(S, x) + 1 = k
<1> DEFINE n == Cardinality(S)
           f == [x \in S |-> Rank(S, x) + 1]
<1>1. n \in Nat
  BY FS_CardinalityType
<1>2. IsFiniteSet(1..n) /\ Cardinality(1..n) = n
  BY <1>1, FS_Interval
<1>3. f \in [S -> 1..n]
  BY RankType
<1>4. \A x, y \in S : f[x] = f[y] => x = y
  <2> SUFFICES ASSUME NEW x \in S, NEW y \in S, f[x] = f[y], x # y
               PROVE  FALSE
    OBVIOUS
  <2>1. x \in Int /\ y \in Int /\ Rank(S, x) \in Nat /\ Rank(S, y) \in Nat
    BY RankType
  <2>2. Rank(S, x) = Rank(S, y)
    BY <2>1
  <2>3. ~(x < y) /\ ~(y < x)
    <3>1. ~(Rank(S, x) < Rank(S, y)) /\ ~(Rank(S, y) < Rank(S, x))
      BY <2>1, <2>2
    <3> QED BY <3>1, RankIncreases
  <2> QED BY <2>1, <2>3
<1>0. k \in 1..n
  OBVIOUS
<1> HIDE DEF n, f
<1>5. f \in Injection(S, 1..n)
  BY <1>3, <1>4, Fun_IsInj
<1>6. f \in Surjection(S, 1..n)
  BY <1>2, <1>5, FS_Injection DEF n
<1>7. \E x \in S : f[x] = k
  BY <1>0, <1>6 DEF Surjection
<1> QED BY <1>7 DEF f

(* Sorting a finite set of numbers yields its increasing list. *)
LEMMA AscendingSorts ==
  ASSUME NEW S, S \subseteq Int, IsFiniteSet(S)
  PROVE  Increasing(Ascending(S), S)
<1> DEFINE n == Cardinality(S)
           g == [k \in 1..n |-> CHOOSE x \in S : Rank(S, x) + 1 = k]
<1>1. \A k \in 1..n : g[k] \in S /\ Rank(S, g[k]) + 1 = k
  BY RankOnto
<1>2. g \in [1..n -> S]
  BY <1>1
<1>3. ASSUME NEW i \in 1..n, NEW j \in 1..n, i < j
      PROVE  g[i] < g[j]
  <2> HIDE DEF g
  <2>1. g[i] \in S /\ g[j] \in S
    BY <1>1
  <2>2. /\ Rank(S, g[i]) \in Nat /\ Rank(S, g[j]) \in Nat
        /\ Rank(S, g[i]) + 1 = i /\ Rank(S, g[j]) + 1 = j
    BY <1>1, <2>1, RankType
  <2>3. g[i] # g[j]
    BY <1>3, <2>2
  <2>4. ~(Rank(S, g[j]) < Rank(S, g[i]))
    BY <1>3, <2>2
  <2>5. ~(g[j] < g[i])
    BY <2>1, <2>4, RankIncreases
  <2>6. g[i] \in Int /\ g[j] \in Int
    BY <2>1
  <2> QED BY <2>3, <2>5, <2>6
<1>4. DOMAIN g = 1..n
  OBVIOUS
<1> DEFINE InOrder(f) == \A i, j \in DOMAIN f : i < j => f[i] < f[j]
<1>5. InOrder(g)
  BY <1>3, <1>4
<1> HIDE DEF g
<1>6. \E f \in [1..n -> S] : InOrder(f)
  BY <1>2, <1>5
<1>7. Ascending(S) = CHOOSE f \in [1..n -> S] : InOrder(f)
  BY DEF Ascending, Sorted
<1>8. Ascending(S) \in [1..n -> S] /\ InOrder(Ascending(S))
  BY <1>6, <1>7
<1> QED BY <1>8 DEF Increasing

(* The k-th element of an increasing list has k - 1 elements before it. *)
LEMMA RankOfElement ==
  ASSUME NEW S, S \subseteq Int, IsFiniteSet(S), NEW f, Increasing(f, S),
         NEW k \in 1..Cardinality(S)
  PROVE  Rank(S, f[k]) = k - 1
<1> DEFINE n == Cardinality(S)
           h == [i \in 1..(k - 1) |-> f[i]]
<1>1. n \in Nat /\ IsFiniteSet(1..n) /\ Cardinality(1..n) = n /\ k \in Int
  BY FS_CardinalityType, FS_Interval
<1>2. /\ f \in [1..n -> S]
      /\ \A i, j \in 1..n : i < j => f[i] < f[j]
  BY DEF Increasing
<1>3. \A i \in 1..n : f[i] \in S /\ f[i] \in Int
  BY <1>2
<1>4. \A i, j \in 1..n : f[i] = f[j] => i = j
  <2> SUFFICES ASSUME NEW i \in 1..n, NEW j \in 1..n, f[i] = f[j], i # j
               PROVE  FALSE
    OBVIOUS
  <2>1. i < j \/ j < i
    BY <1>1
  <2> QED BY <1>2, <1>3, <2>1
<1>5. f \in Surjection(1..n, S)
  <2> HIDE DEF n
  <2>1. f \in Injection(1..n, S)
    BY <1>2, <1>4, Fun_IsInj
  <2> QED BY <1>1, <2>1, FS_Injection DEF n
<1>6. \A y \in S : \E i \in 1..n : f[i] = y
  <2> HIDE DEF n
  <2> QED BY <1>5 DEF Surjection
<1>7. \A i \in 1..(k - 1) : i \in 1..n /\ f[i] < f[k]
  BY <1>1, <1>2
<1>8. \A y \in Below(S, f[k]) : \E i \in 1..(k - 1) : f[i] = y
  <2> SUFFICES ASSUME NEW y \in Below(S, f[k])
               PROVE  \E i \in 1..(k - 1) : f[i] = y
    OBVIOUS
  <2>1. y \in S /\ y < f[k]
    BY DEF Below
  <2>2. PICK i \in 1..n : f[i] = y
    BY <1>6, <2>1
  <2>3. ~(k <= i)
    <3>1. f[i] \in Int /\ f[k] \in Int
      BY <1>3
    <3>2. k < i => f[k] < f[i]
      BY <1>2
    <3> QED BY <1>1, <2>1, <2>2, <3>1, <3>2
  <2> QED BY <1>1, <2>2, <2>3
<1>9. h \in [1..(k - 1) -> Below(S, f[k])]
  BY <1>3, <1>7 DEF Below
<1>10. \A a, b \in 1..(k - 1) : h[a] = h[b] => a = b
  BY <1>4, <1>7
<1>11. \A y \in Below(S, f[k]) : \E i \in 1..(k - 1) : h[i] = y
  BY <1>8
<1>12. IsFiniteSet(1..(k - 1)) /\ Cardinality(1..(k - 1)) = k - 1
  <2>1. k - 1 \in Int /\ 1 \in Int /\ 1 <= k
    BY <1>1
  <2>2. IsFiniteSet(1..(k - 1))
    BY <2>1, FS_Interval
  <2>3. Cardinality(1..(k - 1)) = IF 1 > k - 1 THEN 0 ELSE (k - 1) - 1 + 1
    BY <2>1, FS_Interval
  <2> QED BY <2>1, <2>2, <2>3, <1>1
<1> HIDE DEF h
<1>13. h \in Bijection(1..(k - 1), Below(S, f[k]))
  BY <1>9, <1>10, <1>11, Fun_IsBij
<1>14. ExistsBijection(1..(k - 1), Below(S, f[k]))
  BY <1>13, Fun_ExistsBij
<1> QED BY <1>12, <1>14, FS_Bijection DEF Rank

(* There is one increasing list of a set. *)
LEMMA IncreasingUnique ==
  ASSUME NEW S, S \subseteq Int, IsFiniteSet(S),
         NEW f, Increasing(f, S), NEW g, Increasing(g, S)
  PROVE  f = g
<1> DEFINE n == Cardinality(S)
<1>1. f \in [1..n -> S] /\ g \in [1..n -> S]
  BY DEF Increasing
<1>2. ASSUME NEW k \in 1..n
      PROVE  f[k] = g[k]
  <2>1. f[k] \in S /\ g[k] \in S /\ f[k] \in Int /\ g[k] \in Int
    BY <1>1
  <2>2. Rank(S, f[k]) = k - 1 /\ Rank(S, g[k]) = k - 1
    BY RankOfElement
  <2>3. Rank(S, f[k]) \in Nat /\ Rank(S, g[k]) \in Nat
    BY <2>1, RankType
  <2>4. ~(Rank(S, f[k]) < Rank(S, g[k])) /\ ~(Rank(S, g[k]) < Rank(S, f[k]))
    BY <2>2, <2>3
  <2>5. ~(f[k] < g[k]) /\ ~(g[k] < f[k])
    BY <2>1, <2>4, RankIncreases
  <2> QED BY <2>1, <2>5
<1>3. f = [k \in 1..n |-> f[k]] /\ g = [k \in 1..n |-> g[k]]
  BY <1>1
<1> QED BY <1>2, <1>3, Zenon

-----------------------------------------------------------------------------
(* Sifting *)

(* What ST returned is about Bob's list, and Bob's own sift is about both. *)
SiftInv ==
  /\ sift.done =>
       /\ bob # << >>
       /\ sift.n \in Nat
       /\ sift.ids = {q \in Measured : ById(q).basis = alice[q].basis}
       /\ sift.bases = [q \in Measured |-> alice[q].basis]
  /\ local.done => sift.done /\ local.kept = Matching

Inv == TypeOK /\ ErrorsHaveCause /\ SiftInv

(* Bob's list consists of measurements, of qubits. *)
LEMMA BobsList ==
  ASSUME TypeOK
  PROVE  /\ DOMAIN bob = 1..Len(bob) /\ Len(bob) \in Nat
         /\ \A i \in DOMAIN bob : bob[i] \in Measurement /\ bob[i].id \in Qubit
         /\ Measured \subseteq Qubit
<1>1. bob \in Seq(Measurement)
  BY DEF TypeOK
<1>2. DOMAIN bob = 1..Len(bob) /\ Len(bob) \in Nat
  BY <1>1, LenProperties
<1>3. \A i \in DOMAIN bob : bob[i] \in Measurement
  BY <1>1, <1>2, ElementOfSeq
<1>4. \A i \in DOMAIN bob : bob[i].id \in Qubit
  BY <1>3 DEF Measurement
<1> QED BY <1>2, <1>3, <1>4 DEF Measured

(* The sample of a key is not empty (SAMPLE_FRACTION, max with 1). *)
LEMMA SampleNotEmpty ==
  ASSUME NEW n \in Nat, NEW S \in kSubset(SampleSize(n), 1..n)
  PROVE  S \subseteq 1..n /\ S # {}
<1>1. S \subseteq 1..n /\ Cardinality(S) = SampleSize(n)
  BY DEF kSubset
<1>2. SampleSize(n) # 0
  <2>1. CASE n < 5
    BY <2>1 DEF SampleSize
  <2>2. CASE n >= 5
    <3>1. n \div 5 >= 1
      BY <2>2
    <3> QED BY <2>2, <3>1 DEF SampleSize
  <2> QED BY <2>1, <2>2
<1>3. Cardinality({}) = 0
  BY FS_EmptySet
<1>4. S # {}
  BY <1>1, <1>2, <1>3
<1> QED BY <1>1, <1>4

SamplesOK == \A n \in DOMAIN samples : samples[n] \subseteq 1..n /\ samples[n] # {}

(* Drawing a sample of n positions leaves the others alone. *)
LEMMA DrawKeepsSamples ==
  ASSUME SamplesOK, NEW n \in Nat, NEW S \in kSubset(SampleSize(n), 1..n), Draw(n, S)
  PROVE  SamplesOK'
<1>1. S \subseteq 1..n /\ S # {}
  BY SampleNotEmpty
<1>2. samples' = [m \in DOMAIN samples \cup {n} |-> IF m = n THEN S ELSE samples[m]]
  BY DEF Draw
<1> QED BY <1>1, <1>2 DEF SamplesOK

(* The positions of Bob's list can be counted, and so can the qubits. *)
LEMMA Countable ==
  ASSUME TypeOK
  PROVE  /\ \A P \in SUBSET DOMAIN bob : Cardinality(P) \in Nat
         /\ \A Q \in SUBSET Qubit : Cardinality(Q) \in Nat
<1>1. IsFiniteSet(DOMAIN bob)
  BY BobsList, FS_Interval
<1>2. IsFiniteSet(Qubit)
  BY FS_Interval, SiftingAssumption DEF Qubit
<1> QED BY <1>1, <1>2, FS_Subset, FS_CardinalityType

(* A qubit that Bob's list has once is sifted by both or by neither. *)
LEMMA SiftersAgree == TypeOK /\ SiftInv => SiftsAgree
<1> SUFFICES ASSUME TypeOK, SiftInv, local.done, NEW q \in Qubit, Once(q)
             PROVE  q \in sift.ids <=> \E i \in local.kept : bob[i].id = q
  BY DEF SiftsAgree
<1>1. /\ sift.ids = {p \in Measured : ById(p).basis = alice[p].basis}
      /\ sift.bases = [p \in Measured |-> alice[p].basis]
      /\ local.kept = Matching
  BY DEF SiftInv
<1>2. Matching = {i \in DOMAIN bob : alice[bob[i].id].basis = bob[i].basis}
  <2>1. \A i \in DOMAIN bob : bob[i].id \in Measured
    BY DEF Measured
  <2> QED BY <1>1, <2>1 DEF Matching
<1>3. ASSUME NEW i \in DOMAIN bob, bob[i].id = q
      PROVE  ById(q) = bob[i]
  <2>1. DOMAIN bob = 1..Len(bob) /\ Len(bob) \in Nat
    BY BobsList
  <2> DEFINE Last(k) == bob[k].id = q /\ \A j \in DOMAIN bob : bob[j].id = q => j <= k
  <2>2. Last(i)
    BY <1>3, <2>1 DEF Once
  <2>3. \A k \in DOMAIN bob : Last(k) => k = i
    BY <1>3 DEF Once
  <2>4. (CHOOSE k \in DOMAIN bob : Last(k)) = i
    BY <2>2, <2>3
  <2> QED BY <2>4 DEF ById
<1>4. ASSUME q \in sift.ids
      PROVE  \E i \in local.kept : bob[i].id = q
  <2>1. PICK i \in DOMAIN bob : bob[i].id = q
    BY <1>1, <1>4 DEF Measured
  <2>2. ById(q) = bob[i] /\ ById(q).basis = alice[q].basis
    BY <1>1, <1>3, <1>4, <2>1
  <2> QED BY <1>1, <1>2, <2>1, <2>2
<1>5. ASSUME NEW i \in local.kept, bob[i].id = q
      PROVE  q \in sift.ids
  <2>1. i \in DOMAIN bob /\ alice[q].basis = bob[i].basis
    BY <1>1, <1>2, <1>5
  <2>2. ById(q) = bob[i] /\ q \in Measured
    BY <1>3, <1>5, <2>1 DEF Measured
  <2> QED BY <1>1, <2>1, <2>2
<1> QED BY <1>4, <1>5

(* SiftInv is about Alice's bases, Bob's list and what was made of them. *)
LEMMA SiftKept ==
  ASSUME SiftInv, UNCHANGED <<alice, bob, sift, local>>
  PROVE  SiftInv'
<1>1. Matching' = Matching /\ Measured' = Measured
  BY DEF Matching, Measured
<1>2. {q \in Measured : ById(q).basis = alice[q].basis}'
        = {q \in Measured : ById(q).basis = alice[q].basis}
  BY <1>1 DEF ById
<1>3. [q \in Measured |-> alice[q].basis]' = [q \in Measured |-> alice[q].basis]
  BY <1>1
<1> QED BY <1>1, <1>2, <1>3 DEF SiftInv

(* Nothing is measured, posted or sifted at the beginning. *)
LEMMA InvInit == Init => Inv
<1> SUFFICES ASSUME Init
             PROVE  Inv
  OBVIOUS
<1>1. << >> \in Seq(Measurement) /\ Len(<< >>) = 0
  BY EmptySeq
<1>2. DOMAIN << >> = {}
  OBVIOUS
<1>3. TypeOK
  <2>1. alice \in [Qubit -> State]
    BY SiftingAssumption DEF Init
  <2>2. sent \in [Qubit -> 0..2]
    BY DEF Init
  <2>3. queue \in Seq(Measurement) /\ bob \in Seq(Measurement)
    BY <1>1 DEF Init
  <2>4. \A n \in DOMAIN samples : samples[n] \subseteq 1..n /\ samples[n] # {}
    BY <1>2 DEF Init
  <2>5. eve \in BOOLEAN /\ late = {}
    BY DEF Init
  <2> QED BY <2>1, <2>2, <2>3, <2>4, <2>5 DEF TypeOK
<1>4. ErrorsHaveCause
  BY <1>2 DEF Init, ErrorsHaveCause
<1>5. SiftInv
  BY DEF Init, None, SiftInv
<1> QED BY <1>3, <1>4, <1>5 DEF Inv

(* A step of the link appends a sound measurement or none. *)
LEMMA InvLink ==
  ASSUME Inv, Link
  PROVE  Inv'
<1>1. /\ UNCHANGED <<alice, siftVars>>
      /\ eve' \in BOOLEAN /\ sent' \in [Qubit -> 0..2]
      /\ late' \subseteq Photon
      /\ \/ queue' = queue
         \/ \E m \in Measurement : queue' = Append(queue, m) /\ Sound(m)
  BY LinkStep DEF Inv
<1>2. /\ queue \in Seq(Measurement) /\ alice \in [Qubit -> State]
      /\ bob \in Seq(Measurement) /\ SamplesOK
  BY DEF Inv, TypeOK, SamplesOK
<1>3. CASE queue' = queue
  <2>1. ErrorsHaveCause'
    BY <1>1, <1>3 DEF Inv, ErrorsHaveCause, Error
  <2>2. TypeOK'
    BY <1>1, <1>2, <1>3 DEF TypeOK, siftVars, Photon, SamplesOK
  <2>3. SiftInv'
    BY <1>1, SiftKept DEF Inv, siftVars
  <2> QED BY <1>1, <2>1, <2>2, <2>3 DEF Inv
<1>4. CASE \E m \in Measurement : queue' = Append(queue, m) /\ Sound(m)
  <2>1. PICK m \in Measurement : queue' = Append(queue, m) /\ Sound(m)
    BY <1>4
  <2>2. /\ queue' \in Seq(Measurement)
        /\ Len(queue') = Len(queue) + 1
        /\ \A i \in 1..Len(queue) : queue'[i] = queue[i]
        /\ queue'[Len(queue) + 1] = m
    BY <1>2, <2>1, AppendProperties
  <2>3. /\ DOMAIN queue = 1..Len(queue) /\ DOMAIN queue' = 1..Len(queue')
        /\ Len(queue) \in Nat
    BY <1>2, <2>2, LenProperties
  <2>4. \A i \in DOMAIN queue' :
          (i \in DOMAIN queue /\ queue'[i] = queue[i]) \/ queue'[i] = m
    BY <2>2, <2>3
  <2>5. ErrorsHaveCause'
    BY <1>1, <2>1, <2>4 DEF Inv, ErrorsHaveCause, Sound, Error
  <2>6. TypeOK'
    BY <1>1, <1>2, <2>2 DEF TypeOK, siftVars, Photon, SamplesOK
  <2>7. SiftInv'
    BY <1>1, SiftKept DEF Inv, siftVars
  <2> QED BY <1>1, <2>5, <2>6, <2>7 DEF Inv
<1> QED BY <1>1, <1>3, <1>4

(* The steps that sift leave the link alone. *)
LEMMA LinkKept ==
  ASSUME Inv, UNCHANGED <<alice, linkVars>>, bob' \in Seq(Measurement), SamplesOK'
  PROVE  TypeOK' /\ ErrorsHaveCause'
BY DEF Inv, TypeOK, ErrorsHaveCause, Error, linkVars,
       SamplesOK

(* One step per thing that is done with the measurements. *)
LEMMA InvSift ==
  ASSUME Inv, BobPosts \/ Sift \/ TooFew \/ DeriveKey \/ LocalSift
  PROVE  Inv'
<1>0. TypeOK /\ SiftInv /\ SamplesOK /\ bob \in Seq(Measurement)
  BY DEF Inv, TypeOK, SamplesOK
<1>1. CASE BobPosts
  <2>1. PICK n \in 1..Len(queue) : bob' = SubSeq(queue, 1, n)
    BY <1>1 DEF BobPosts
  <2>2. queue \in Seq(Measurement) /\ Len(queue) \in Nat
    BY LenProperties DEF Inv, TypeOK
  <2>3. \A i \in 1..n : queue[i] \in Measurement
    BY <2>2, ElementOfSeq
  <2>4. bob' \in Seq(Measurement)
    BY <2>1, <2>2, <2>3, SubSeqProperties
  <2>5. ~sift.done /\ ~local.done
    BY <1>0, <1>1 DEF BobPosts, SiftInv
  <2>6. SiftInv'
    BY <1>1, <2>5 DEF BobPosts, SiftInv
  <2>7. SamplesOK'
    BY <1>0, <1>1 DEF BobPosts, SamplesOK
  <2>8. TypeOK' /\ ErrorsHaveCause'
    BY <1>1, <2>4, <2>7, LinkKept DEF BobPosts
  <2> QED BY <2>6, <2>8 DEF Inv
<1>2. CASE Sift
  <2> DEFINE ids == {q \in Measured : ById(q).basis = alice[q].basis}
  <2>1. ids \subseteq Qubit /\ Cardinality(ids) \in Nat
    BY <1>0, BobsList, Countable
  <2>2. /\ sift'.done /\ sift'.ids = ids /\ sift'.n = Cardinality(ids)
        /\ sift'.bases = [q \in Measured |-> alice[q].basis]
    BY <1>2 DEF Sift
  <2>3. ~local.done
    BY <1>0, <1>2 DEF Sift, SiftInv
  <2>4. bob # << >> /\ UNCHANGED <<alice, bob, local>>
    BY <1>2 DEF Sift
  <2>5. /\ Measured' = Measured
        /\ {q \in Measured : ById(q).basis = alice[q].basis}' = ids
        /\ [q \in Measured |-> alice[q].basis]' = [q \in Measured |-> alice[q].basis]
    BY <2>4 DEF Measured, ById
  <2> HIDE DEF ids
  <2>6. SiftInv'
    BY <2>1, <2>2, <2>3, <2>4, <2>5 DEF SiftInv
  <2>7. SamplesOK'
    BY <1>0, <1>2 DEF Sift, SamplesOK
  <2>8. TypeOK' /\ ErrorsHaveCause'
    BY <1>0, <1>2, <2>4, <2>7, LinkKept DEF Sift
  <2> QED BY <2>6, <2>8 DEF Inv
<1>3. ASSUME UNCHANGED <<alice, linkVars, bob, sift, local>>, SamplesOK'
      PROVE  Inv'
  <2>1. TypeOK' /\ ErrorsHaveCause'
    BY <1>0, <1>3, LinkKept
  <2>2. SiftInv'
    BY <1>0, <1>3, SiftKept
  <2> QED BY <2>1, <2>2 DEF Inv
<1>4. CASE TooFew
  <2>1. SamplesOK'
    BY <1>0, <1>4 DEF TooFew, SamplesOK
  <2> QED BY <1>3, <1>4, <2>1 DEF TooFew
<1>5. CASE DeriveKey
  <2>1. sift.n \in Nat
    BY <1>0, <1>5 DEF DeriveKey, SiftInv
  <2>2. PICK S \in kSubset(SampleSize(sift.n), 1..sift.n) : Draw(sift.n, S)
    BY <1>5 DEF DeriveKey
  <2>3. SamplesOK'
    BY <1>0, <2>1, <2>2, DrawKeepsSamples
  <2> QED BY <1>3, <1>5, <2>3 DEF DeriveKey
<1>6. CASE LocalSift
  <2> DEFINE n == Cardinality(Matching)
  <2>1. Matching \subseteq DOMAIN bob /\ n \in Nat
    BY <1>0, Countable DEF Matching
  <2>2. Keeps(Matching, ByIds(Matching))
    BY <1>6 DEF LocalSift
  <2>3. /\ local'.kept = Matching
        /\ \/ UNCHANGED samples
           \/ \E S \in kSubset(SampleSize(n), 1..n) : Draw(n, S)
    BY <2>2 DEF Keeps
  <2>4. SamplesOK'
    <3>1. CASE UNCHANGED samples
      BY <1>0, <3>1 DEF SamplesOK
    <3>2. CASE \E S \in kSubset(SampleSize(n), 1..n) : Draw(n, S)
      <4> HIDE DEF n
      <4> QED BY <1>0, <2>1, <3>2, DrawKeepsSamples
    <3> QED BY <2>3, <3>1, <3>2
  <2>5. TypeOK' /\ ErrorsHaveCause'
    BY <1>0, <1>6, <2>4, LinkKept DEF LocalSift
  <2>6. sift.done /\ UNCHANGED <<alice, bob, sift>>
    BY <1>6 DEF LocalSift
  <2>7. SiftInv'
    <3>1. Matching' = Matching /\ Measured' = Measured
      BY <2>6 DEF Matching, Measured
    <3>2. {q \in Measured : ById(q).basis = alice[q].basis}'
            = {q \in Measured : ById(q).basis = alice[q].basis}
      BY <2>6 DEF Measured, ById
    <3> QED BY <1>0, <2>3, <2>6, <3>1, <3>2 DEF SiftInv
  <2> QED BY <2>5, <2>7 DEF Inv
<1> QED BY <1>1, <1>2, <1>4, <1>5, <1>6

(* The invariant is kept by every step. *)
LEMMA InvStep == Inv /\ [Next]_vars => Inv'
<1> SUFFICES ASSUME Inv, [Next]_vars
             PROVE  Inv'
  OBVIOUS
<1>1. CASE UNCHANGED vars
  <2>1. UNCHANGED <<alice, eve, sent, late, queue, bob, sift, samples, outcome, local>>
    BY <1>1 DEF vars, linkVars, siftVars
  <2>2. SiftInv'
    BY <2>1, SiftKept DEF Inv
  <2>3. SamplesOK' /\ bob' \in Seq(Measurement)
    BY <2>1 DEF Inv, TypeOK, SamplesOK
  <2>4. TypeOK' /\ ErrorsHaveCause'
    BY <2>1, <2>3, LinkKept DEF linkVars
  <2> QED BY <2>2, <2>4 DEF Inv
<1>2. CASE Link
  BY <1>2, InvLink
<1>3. CASE BobPosts \/ Sift \/ TooFew \/ DeriveKey \/ LocalSift
  BY <1>3, InvSift
<1> QED BY <1>1, <1>2, <1>3 DEF Next

LEMMA Invariance == Spec => []Inv
BY InvInit, InvStep, PTL DEF Spec

-----------------------------------------------------------------------------
(* The keys *)

(* Bob's list is of what was pushed (push_measurement, get_measurements). *)
BobFromQueue == \A i \in DOMAIN bob : \E j \in DOMAIN queue : bob[i] = queue[j]

(* ST returned a bit of Alice's and one of Bob's for every qubit sifted. *)
SiftedBits ==
  sift.done =>
    LET ids == Ascending(sift.ids)
    IN /\ sift.n = Cardinality(sift.ids)
       /\ sift.alice = [k \in DOMAIN ids |-> alice[ids[k]].bit]

(* The key of QKT is the rest of Alice's bits when the sample is taken. *)
KeyOfAlice ==
  outcome.done /\ outcome.status = "success" =>
    /\ sift.done
    /\ sift.n \in DOMAIN samples /\ sift.n # 0
    /\ outcome.key = Rest(sift.alice, samples[sift.n])

(* Bob's key is the rest of his bits, in the order of their qubits. *)
KeyOfBob ==
  local.done =>
    LET n == Cardinality(Matching)
    IN /\ sift.done
       /\ n # 0 => /\ n \in DOMAIN samples
                   /\ local.key = BitsAt(ByIds(Matching), samples[n])

KeyInv == BobFromQueue /\ SiftedBits /\ KeyOfAlice /\ KeyOfBob

(* What is unchanged with Alice's bits, Bob's list and what ST returned. *)
LEMMA SiftingKept ==
  ASSUME UNCHANGED <<alice, bob, sift>>
  PROVE  /\ SiftedBits => SiftedBits'
         /\ Matching' = Matching
         /\ \A P, S : BitsAt(ByIds(P), S)' = BitsAt(ByIds(P), S)
<1>1. SiftedBits => SiftedBits'
  BY DEF SiftedBits
<1>2. Matching' = Matching
  BY DEF Matching
<1>3. ASSUME NEW P, NEW S
      PROVE  BitsAt(ByIds(P), S)' = BitsAt(ByIds(P), S)
  <2>1. bob' = bob
    OBVIOUS
  <2> DEFINE Before(i, j) == bob[i].id < bob[j].id \/ (bob[i].id = bob[j].id /\ i < j)
             Listing(f) == \A i, j \in DOMAIN f : i < j => Before(f[i], f[j])
  <2>2. ByIds(P) = CHOOSE f \in [1..Cardinality(P) -> P] : Listing(f)
    BY DEF ByIds, Sorted
  <2>3. ByIds(P)' = CHOOSE f \in [1..Cardinality(P) -> P] : Listing(f)
    BY <2>1 DEF ByIds, Sorted
  <2>4. ByIds(P)' = ByIds(P)
    BY <2>2, <2>3
  <2> QED BY <2>1, <2>4 DEF BitsAt
<1> QED BY <1>1, <1>2, <1>3

(* A sample that was drawn stays what it is. *)
SamplesStay == \A n \in DOMAIN samples : n \in DOMAIN samples' /\ samples'[n] = samples[n]

LEMMA DrawStays ==
  ASSUME NEW n, NEW S, Draw(n, S)
  PROVE  SamplesStay /\ n \in DOMAIN samples' /\ samples'[n] = S
BY DEF Draw, SamplesStay

(* More photons and more samples change no key. *)
LEMMA KeysKept ==
  ASSUME KeyInv, UNCHANGED <<alice, bob, sift>>, SamplesStay
  PROVE  /\ SiftedBits'
         /\ outcome' = outcome => KeyOfAlice'
         /\ local' = local => KeyOfBob'
<1>1. /\ SiftedBits' /\ Matching' = Matching
      /\ \A P, S : BitsAt(ByIds(P), S)' = BitsAt(ByIds(P), S)
  BY SiftingKept DEF KeyInv
<1>2. ASSUME outcome' = outcome
      PROVE  KeyOfAlice'
  BY <1>2 DEF KeyInv, KeyOfAlice, SamplesStay
<1>3. ASSUME local' = local
      PROVE  KeyOfBob'
  BY <1>1, <1>3 DEF KeyInv, KeyOfBob, SamplesStay
<1> QED BY <1>1, <1>2, <1>3

(* At the beginning there is nothing that a key could be of. *)
LEMMA KeyInvInit == Init => KeyInv
<1> SUFFICES ASSUME Init
             PROVE  KeyInv
  OBVIOUS
<1>1. DOMAIN bob = {}
  BY DEF Init
<1>2. ~sift.done /\ ~outcome.done /\ ~local.done
  BY DEF Init, None
<1> QED BY <1>1, <1>2 DEF KeyInv, BobFromQueue, SiftedBits, KeyOfAlice, KeyOfBob

(* A step of the link adds to what Bob can have got. *)
LEMMA QueueGrows ==
  ASSUME TypeOK, Link
  PROVE  /\ UNCHANGED <<alice, siftVars>>
         /\ \A j \in DOMAIN queue : j \in DOMAIN queue' /\ queue'[j] = queue[j]
<1>1. /\ UNCHANGED <<alice, siftVars>>
      /\ queue' = queue \/ \E m \in Measurement : queue' = Append(queue, m)
  BY LinkStep
<1>2. queue \in Seq(Measurement)
  BY DEF TypeOK
<1>3. ASSUME NEW m \in Measurement, queue' = Append(queue, m)
      PROVE  \A j \in DOMAIN queue : j \in DOMAIN queue' /\ queue'[j] = queue[j]
  <2>1. /\ queue' \in Seq(Measurement) /\ Len(queue') = Len(queue) + 1
        /\ \A j \in 1..Len(queue) : queue'[j] = queue[j]
    BY <1>2, <1>3, AppendProperties
  <2>2. DOMAIN queue = 1..Len(queue) /\ DOMAIN queue' = 1..Len(queue') /\ Len(queue) \in Nat
    BY <1>2, <2>1, LenProperties
  <2> QED BY <2>1, <2>2
<1> QED BY <1>1, <1>3

(* One step per thing that is done with the measurements. *)
LEMMA KeyInvStep == Inv /\ KeyInv /\ [Next]_vars => KeyInv'
<1> SUFFICES ASSUME Inv, KeyInv, [Next]_vars
             PROVE  KeyInv'
  OBVIOUS
<1>0. /\ TypeOK /\ SiftInv /\ queue \in Seq(Measurement)
      /\ BobFromQueue /\ SiftedBits /\ KeyOfAlice /\ KeyOfBob
  BY DEF Inv, KeyInv, TypeOK
<1>1. ASSUME UNCHANGED <<alice, siftVars>>,
             \A j \in DOMAIN queue : j \in DOMAIN queue' /\ queue'[j] = queue[j]
      PROVE  KeyInv'
  <2>1. UNCHANGED <<alice, bob, sift, samples, outcome, local>>
    BY <1>1 DEF siftVars
  <2>2. BobFromQueue'
    BY <1>0, <1>1, <2>1 DEF BobFromQueue
  <2>3. SamplesStay
    BY <2>1 DEF SamplesStay
  <2> QED BY <2>1, <2>2, <2>3, KeysKept DEF KeyInv
<1>2. CASE UNCHANGED vars
  BY <1>1, <1>2 DEF vars, linkVars
<1>3. CASE Link
  BY <1>0, <1>1, <1>3, QueueGrows
<1>4. CASE BobPosts
  <2>1. PICK n \in 1..Len(queue) : bob' = SubSeq(queue, 1, n)
    BY <1>4 DEF BobPosts
  <2>2. Len(queue) \in Nat /\ DOMAIN queue = 1..Len(queue)
    BY <1>0, LenProperties
  <2>3. /\ Len(bob') = n /\ \A i \in 1..n : bob'[i] = queue[i]
        /\ bob' \in Seq(Measurement)
    <3>1. \A i \in 1..n : queue[i] \in Measurement
      BY <1>0, <2>2, ElementOfSeq
    <3> QED BY <1>0, <2>1, <2>2, <3>1, SubSeqProperties
  <2>4. DOMAIN bob' = 1..n
    BY <2>3, LenProperties
  <2>5. BobFromQueue'
    BY <1>4, <2>2, <2>3, <2>4 DEF BobPosts, BobFromQueue, linkVars
  <2>6. ~sift.done /\ ~local.done
    BY <1>0, <1>4 DEF BobPosts, SiftInv
  <2>7. UNCHANGED <<sift, outcome, local>>
    BY <1>4 DEF BobPosts
  <2>8. SiftedBits' /\ KeyOfAlice' /\ KeyOfBob'
    BY <1>0, <2>6, <2>7 DEF SiftedBits, KeyOfAlice, KeyOfBob
  <2> QED BY <2>5, <2>8 DEF KeyInv
<1>5. ASSUME UNCHANGED <<linkVars, bob>>
      PROVE  BobFromQueue'
  BY <1>0, <1>5 DEF BobFromQueue, linkVars
<1>6. CASE Sift
  <2>1. BobFromQueue'
    BY <1>5, <1>6 DEF Sift
  <2>2. ~sift.done /\ UNCHANGED <<alice, outcome, local>>
    BY <1>6 DEF Sift
  <2>3. KeyOfAlice' /\ KeyOfBob'
    BY <1>0, <2>2 DEF KeyOfAlice, KeyOfBob
  <2>4. /\ sift'.n = Cardinality(sift'.ids)
        /\ sift'.alice = [k \in DOMAIN Ascending(sift'.ids) |->
                             alice[Ascending(sift'.ids)[k]].bit]
    <3> DEFINE ids == {q \in Measured : ById(q).basis = alice[q].basis}
    <3>1. /\ sift'.n = Cardinality(ids) /\ sift'.ids = ids
          /\ sift'.alice = [k \in DOMAIN Ascending(ids) |-> alice[Ascending(ids)[k]].bit]
      BY <1>6 DEF Sift
    <3> HIDE DEF ids
    <3> QED BY <3>1
  <2>5. SiftedBits'
    BY <2>2, <2>4 DEF SiftedBits
  <2> QED BY <2>1, <2>3, <2>5 DEF KeyInv
<1>7. CASE TooFew
  <2>1. BobFromQueue'
    BY <1>5, <1>7 DEF TooFew
  <2>2. UNCHANGED <<alice, bob, sift, samples, local>>
    BY <1>7 DEF TooFew
  <2>3. SiftedBits' /\ KeyOfBob'
    BY <2>2, KeysKept DEF SamplesStay
  <2>4. KeyOfAlice'
    BY <1>7 DEF TooFew, Abort, KeyOfAlice
  <2> QED BY <2>1, <2>3, <2>4 DEF KeyInv
<1>8. CASE DeriveKey
  <2>1. BobFromQueue'
    BY <1>5, <1>8 DEF DeriveKey
  <2>2. /\ UNCHANGED <<alice, bob, sift, local>>
        /\ sift.done /\ sift.n >= MinSifted /\ sift.n \in Nat
    BY <1>0, <1>8 DEF DeriveKey, SiftInv
  <2>3. PICK S \in kSubset(SampleSize(sift.n), 1..sift.n) :
          /\ Draw(sift.n, S)
          /\ outcome' = IF QberTooHigh(S)
                          THEN Abort("QBER_TOO_HIGH")
                          ELSE [done |-> TRUE, status |-> "success", reason |-> "",
                                key |-> Rest(sift.alice, S)]
    BY <1>8 DEF DeriveKey
  <2>4. SamplesStay /\ sift.n \in DOMAIN samples' /\ samples'[sift.n] = S
    BY <2>3, DrawStays
  <2>5. SiftedBits' /\ KeyOfBob'
    BY <2>2, <2>4, KeysKept
  <2>6. sift.n # 0
    BY <2>2, SiftingAssumption
  <2>7. KeyOfAlice'
    <3>1. CASE QberTooHigh(S)
      BY <2>3, <3>1 DEF Abort, KeyOfAlice
    <3>2. CASE ~QberTooHigh(S)
      BY <2>2, <2>3, <2>4, <2>6, <3>2 DEF KeyOfAlice
    <3> QED BY <3>1, <3>2
  <2> QED BY <2>1, <2>5, <2>7 DEF KeyInv
<1>9. CASE LocalSift
  <2> DEFINE n == Cardinality(Matching)
  <2>1. BobFromQueue'
    BY <1>5, <1>9 DEF LocalSift
  <2>2. sift.done /\ UNCHANGED <<alice, bob, sift, outcome>>
    BY <1>9 DEF LocalSift
  <2>3. Keeps(Matching, ByIds(Matching))
    BY <1>9 DEF LocalSift
  <2>4. /\ Matching' = Matching
        /\ \A P, S : BitsAt(ByIds(P), S)' = BitsAt(ByIds(P), S)
    BY <2>2, SiftingKept
  <2>5. CASE n = 0
    <3>1. UNCHANGED samples
      BY <2>3, <2>5 DEF Keeps
    <3>2. SiftedBits' /\ KeyOfAlice'
      BY <2>2, <3>1, KeysKept DEF SamplesStay
    <3>3. KeyOfBob'
      BY <2>2, <2>4, <2>5 DEF KeyOfBob
    <3> QED BY <2>1, <3>2, <3>3 DEF KeyInv
  <2>6. CASE n # 0
    <3>1. PICK S \in kSubset(SampleSize(n), 1..n) :
            /\ Draw(n, S)
            /\ local' = [done |-> TRUE, kept |-> Matching,
                         key |-> BitsAt(ByIds(Matching), S)]
      BY <2>3, <2>6 DEF Keeps
    <3>2. SamplesStay /\ n \in DOMAIN samples' /\ samples'[n] = S
      <4> HIDE DEF n
      <4> QED BY <3>1, DrawStays
    <3>3. SiftedBits' /\ KeyOfAlice'
      BY <2>2, <3>2, KeysKept
    <3>4. KeyOfBob'
      BY <2>2, <2>4, <3>1, <3>2 DEF KeyOfBob
    <3> QED BY <2>1, <3>3, <3>4 DEF KeyInv
  <2> QED BY <2>5, <2>6
<1> QED BY <1>2, <1>3, <1>4, <1>6, <1>7, <1>8, <1>9 DEF Next

LEMMA KeyInvariance == Spec => []KeyInv
BY Invariance, KeyInvInit, KeyInvStep, PTL DEF Spec

(* If Bob's list has every qubit once, then Bob's positions, in the order  *)
(* of their qubits, are those of the qubits ST sifted, one of each.        *)
LEMMA SameOrder ==
  ASSUME TypeOK, SiftInv, sift.done, \A q \in Qubit : Once(q)
  PROVE  LET n     == Cardinality(sift.ids)
             ids   == Ascending(sift.ids)
             order == ByIds(Matching)
         IN /\ n \in Nat /\ Cardinality(Matching) = n
            /\ ids \in [1..n -> sift.ids] /\ order \in [1..n -> Matching]
            /\ \A k \in 1..n : bob[order[k]] = ById(ids[k]) /\ bob[order[k]].id = ids[k]
<1> DEFINE n     == Cardinality(sift.ids)
           ids   == Ascending(sift.ids)
           order == ByIds(Matching)
<1>1. /\ sift.ids = {q \in Measured : ById(q).basis = alice[q].basis}
      /\ sift.bases = [q \in Measured |-> alice[q].basis]
  BY DEF SiftInv
<1>2. /\ DOMAIN bob = 1..Len(bob) /\ Len(bob) \in Nat
      /\ \A i \in DOMAIN bob : bob[i].id \in Qubit
      /\ Measured \subseteq Qubit
  BY BobsList
<1>3. \A i, j \in DOMAIN bob : bob[i].id = bob[j].id => i = j
  BY <1>2 DEF Once
<1>4. \A i \in DOMAIN bob : ById(bob[i].id) = bob[i]
  <2> SUFFICES ASSUME NEW i \in DOMAIN bob
               PROVE  ById(bob[i].id) = bob[i]
    OBVIOUS
  <2> DEFINE Newest(k) == /\ bob[k].id = bob[i].id
                          /\ \A j \in DOMAIN bob : bob[j].id = bob[i].id => j <= k
  <2>1. Newest(i)
    BY <1>2, <1>3
  <2>2. \A k \in DOMAIN bob : Newest(k) => k = i
    BY <1>3
  <2>3. (CHOOSE k \in DOMAIN bob : Newest(k)) = i
    BY <2>1, <2>2
  <2> QED BY <2>3 DEF ById
<1>5. /\ Matching \subseteq DOMAIN bob
      /\ \A i \in DOMAIN bob : i \in Matching <=> bob[i].id \in sift.ids
  <2>1. \A i \in DOMAIN bob : bob[i].id \in Measured
    BY DEF Measured
  <2> QED BY <1>1, <1>4, <2>1 DEF Matching
<1>6. \A q \in sift.ids : \E i \in Matching : bob[i].id = q
  BY <1>1, <1>5 DEF Measured
<1>7. sift.ids \subseteq Int /\ IsFiniteSet(sift.ids) /\ n \in Nat
  <2>1. sift.ids \subseteq Qubit
    BY <1>1, <1>2
  <2>2. IsFiniteSet(Qubit) /\ Qubit \subseteq Int
    BY FS_Interval, SiftingAssumption DEF Qubit
  <2> QED BY <2>1, <2>2, FS_Subset, FS_CardinalityType
<1>8. Cardinality(Matching) = n
  <2> DEFINE name == [i \in Matching |-> bob[i].id]
  <2>1. name \in [Matching -> sift.ids]
    BY <1>5
  <2>2. \A i, j \in Matching : name[i] = name[j] => i = j
    BY <1>3, <1>5
  <2>3. \A q \in sift.ids : \E i \in Matching : name[i] = q
    BY <1>6
  <2> HIDE DEF name
  <2>4. name \in Bijection(Matching, sift.ids)
    BY <2>1, <2>2, <2>3, Fun_IsBij
  <2>5. ExistsBijection(Matching, sift.ids)
    BY <2>4, Fun_ExistsBij
  <2>6. IsFiniteSet(Matching)
    <3>1. IsFiniteSet(DOMAIN bob)
      BY <1>2, FS_Interval
    <3> QED BY <1>5, <3>1, FS_Subset
  <2> QED BY <2>5, <2>6, FS_Bijection
<1>9. /\ Increasing(ids, sift.ids)
      /\ ids \in [1..n -> sift.ids]
      /\ \A i, j \in 1..n : i < j => ids[i] < ids[j]
  <2>1. Increasing(ids, sift.ids)
    BY <1>7, AscendingSorts
  <2> QED BY <2>1 DEF Increasing
<1> DEFINE Before(i, j) == bob[i].id < bob[j].id \/ (bob[i].id = bob[j].id /\ i < j)
           Listing(f) == \A i, j \in DOMAIN f : i < j => Before(f[i], f[j])
           place == [k \in 1..n |-> CHOOSE i \in Matching : bob[i].id = ids[k]]
<1> HIDE DEF n, ids
<1>10. \A k \in 1..n : place[k] \in Matching /\ bob[place[k]].id = ids[k]
  BY <1>6, <1>9
<1>11. place \in [1..n -> Matching] /\ Listing(place)
  <2>1. place \in [1..n -> Matching] /\ DOMAIN place = 1..n
    BY <1>10
  <2> HIDE DEF place
  <2>2. \A i, j \in 1..n : i < j => bob[place[i]].id < bob[place[j]].id
    BY <1>9, <1>10
  <2> QED BY <2>1, <2>2
<1>12. order = CHOOSE f \in [1..n -> Matching] : Listing(f)
  BY <1>8 DEF ByIds, Sorted
<1> HIDE DEF place, order
<1>13. order \in [1..n -> Matching] /\ Listing(order)
  <2> HIDE DEF Listing
  <2> QED BY <1>11, <1>12
<1> DEFINE names == [k \in 1..n |-> bob[order[k]].id]
<1>14. \A k \in 1..n : order[k] \in Matching /\ bob[order[k]].id \in sift.ids
  BY <1>5, <1>13
<1>15. \A i, j \in 1..n : i < j => bob[order[i]].id < bob[order[j]].id
  <2> SUFFICES ASSUME NEW i \in 1..n, NEW j \in 1..n, i < j
               PROVE  bob[order[i]].id < bob[order[j]].id
    OBVIOUS
  <2>1. Before(order[i], order[j])
    BY <1>13
  <2>2. order[i] \in DOMAIN bob /\ order[j] \in DOMAIN bob
    BY <1>5, <1>14
  <2>3. bob[order[i]].id = bob[order[j]].id => order[i] = order[j]
    BY <1>3, <2>2
  <2>4. order[i] \in Int /\ order[j] \in Int
    BY <1>2, <2>2
  <2> QED BY <2>1, <2>3, <2>4
<1>16. Increasing(names, sift.ids)
  <2>1. names \in [1..n -> sift.ids]
    BY <1>14
  <2>2. \A i, j \in 1..n : i < j => names[i] < names[j]
    BY <1>15
  <2> HIDE DEF names
  <2> QED BY <2>1, <2>2 DEF Increasing, n
<1>17. names = ids
  BY <1>7, <1>9, <1>16, IncreasingUnique
<1>18. \A k \in 1..n : bob[order[k]].id = ids[k]
  BY <1>17
<1>19. \A k \in 1..n : bob[order[k]] = ById(ids[k])
  BY <1>4, <1>5, <1>14, <1>18
<1> QED BY <1>7, <1>8, <1>9, <1>13, <1>18, <1>19 DEF n, ids, order

(* What is left of a list of n bits when the positions of S are revealed.   *)
LEMMA RestOf ==
  ASSUME NEW n \in Nat, NEW S \in SUBSET (1..n)
  PROVE  LET kept == Ascending(1..n \ S)
             m    == Cardinality(1..n \ S)
         IN /\ m \in Nat /\ kept \in [1..m -> 1..n]
            /\ \A f : DOMAIN f = 1..n => Rest(f, S) = [k \in 1..m |-> f[kept[k]]]
<1> DEFINE kept == Ascending(1..n \ S)
           m    == Cardinality(1..n \ S)
<1>1. IsFiniteSet(1..n \ S) /\ 1..n \ S \subseteq Int /\ 1..n \ S \subseteq 1..n
  <2>1. IsFiniteSet(1..n)
    BY FS_Interval
  <2>2. 1..n \ S \subseteq 1..n /\ 1..n \ S \subseteq Int
    OBVIOUS
  <2> QED BY <2>1, <2>2, FS_Subset
<1>2. m \in Nat
  BY <1>1, FS_CardinalityType
<1>3. kept \in [1..m -> 1..n \ S]
  BY <1>1, AscendingSorts DEF Increasing
<1> HIDE DEF m, kept
<1>4. kept \in [1..m -> 1..n] /\ DOMAIN kept = 1..m
  BY <1>1, <1>3
<1>5. \A f : DOMAIN f = 1..n => Rest(f, S) = [k \in 1..m |-> f[kept[k]]]
  BY <1>4 DEF Rest, kept
<1> QED BY <1>2, <1>4, <1>5 DEF m, kept

(* Lists over the same positions are as long. *)
LEMMA SameLength ==
  ASSUME NEW m \in Nat, NEW A, NEW f \in [1..m -> A], NEW B, NEW g \in [1..m -> B]
  PROVE  Len(f) = Len(g)
<1>1. f \in Seq(A) /\ g \in Seq(B)
  BY SeqDef
<1>2. /\ DOMAIN f = 1..Len(f) /\ Len(f) \in Nat
      /\ DOMAIN g = 1..Len(g) /\ Len(g) \in Nat
  BY <1>1, LenProperties
<1>3. DOMAIN f = 1..m /\ DOMAIN g = 1..m
  OBVIOUS
<1>4. Len(f) = m
  BY <1>2, <1>3
<1>5. Len(g) = m
  BY <1>2, <1>3
<1> QED BY <1>4, <1>5

(* Both keys are the rest of lists in the same order, of which the same    *)
(* sample was taken, and a bit of Bob's has been wrong in the queue.       *)
LEMMA KeysOfOneOrder == Inv /\ KeyInv => KeysDifferOnlyByNoise
<1> DEFINE n     == sift.n
           S     == samples[n]
           ids   == Ascending(sift.ids)
           order == ByIds(Matching)
           kept  == Ascending(1..n \ S)
           m     == Cardinality(1..n \ S)
           bits  == [k \in 1..n |-> bob[order[k]].bit]
<1> SUFFICES ASSUME Inv, KeyInv, outcome.done, local.done, \A q \in Qubit : Once(q),
                    outcome.status = "success"
             PROVE  /\ Len(local.key) = Len(outcome.key)
                    /\ \A k \in DOMAIN local.key :
                         local.key[k] # outcome.key[k] => ById(Rest(ids, S)[k]).noisy
  BY DEF KeysDifferOnlyByNoise
<1>1. /\ TypeOK /\ SiftInv /\ ErrorsHaveCause /\ BobFromQueue
      /\ SiftedBits /\ KeyOfAlice /\ KeyOfBob
  BY DEF Inv, KeyInv
<1>2. /\ sift.done /\ n \in DOMAIN samples /\ n # 0
      /\ outcome.key = Rest(sift.alice, S)
  BY <1>1 DEF KeyOfAlice
<1>3. n = Cardinality(sift.ids) /\ sift.alice = [k \in DOMAIN ids |-> alice[ids[k]].bit]
  BY <1>1, <1>2 DEF SiftedBits
<1>4. /\ n \in Nat /\ Cardinality(Matching) = n
      /\ ids \in [1..n -> sift.ids] /\ order \in [1..n -> Matching]
      /\ \A k \in 1..n : bob[order[k]] = ById(ids[k]) /\ bob[order[k]].id = ids[k]
  BY <1>1, <1>2, <1>3, SameOrder
<1>5. S \in SUBSET (1..n)
  BY <1>1, <1>2 DEF TypeOK
<1>6. local.key = BitsAt(order, S)
  BY <1>1, <1>2, <1>4 DEF KeyOfBob
<1> HIDE DEF n, S, ids, order
<1>7. local.key = Rest(bits, S)
  <2>1. DOMAIN order = 1..n
    BY <1>4
  <2> QED BY <1>6, <2>1 DEF BitsAt
<1>8. /\ m \in Nat /\ kept \in [1..m -> 1..n]
      /\ \A f : DOMAIN f = 1..n => Rest(f, S) = [k \in 1..m |-> f[kept[k]]]
  BY <1>4, <1>5, RestOf
<1> HIDE DEF kept, m
<1>9. DOMAIN ids = 1..n /\ DOMAIN sift.alice = 1..n /\ DOMAIN bits = 1..n
  BY <1>3, <1>4
<1>10. /\ local.key = [k \in 1..m |-> bits[kept[k]]]
       /\ outcome.key = [k \in 1..m |-> sift.alice[kept[k]]]
       /\ Rest(ids, S) = [k \in 1..m |-> ids[kept[k]]]
  BY <1>2, <1>7, <1>8, <1>9
<1>11. Len(local.key) = Len(outcome.key)
  <2> DEFINE A == {bits[k] : k \in 1..n}
             B == {sift.alice[k] : k \in 1..n}
  <2>1. local.key \in [1..m -> A] /\ outcome.key \in [1..m -> B]
    BY <1>8, <1>10
  <2> HIDE DEF A, B
  <2> QED BY <1>8, <2>1, SameLength
<1>12. ASSUME NEW k \in DOMAIN local.key, local.key[k] # outcome.key[k]
       PROVE  ById(Rest(ids, S)[k]).noisy
  <2> DEFINE i == kept[k]
             got == bob[order[i]]
  <2>1. k \in 1..m /\ i \in 1..n
    BY <1>8, <1>10
  <2> HIDE DEF i
  <2>2. /\ local.key[k] = bob[order[i]].bit
        /\ outcome.key[k] = alice[ids[i]].bit
        /\ Rest(ids, S)[k] = ids[i]
    BY <1>3, <1>9, <1>10, <2>1 DEF i
  <2>3. got = ById(ids[i]) /\ got.id = ids[i] /\ ids[i] \in sift.ids
    BY <1>4, <2>1
  <2>4. got.basis = alice[got.id].basis
    BY <1>1, <1>2, <2>3 DEF SiftInv
  <2>5. order[i] \in DOMAIN bob
    BY <1>4, <2>1 DEF Matching
  <2>6. PICK j \in DOMAIN queue : got = queue[j]
    BY <1>1, <2>5 DEF BobFromQueue
  <2>7. Error(queue[j])
    BY <1>12, <2>2, <2>3, <2>4, <2>6 DEF Error
  <2>8. got.noisy
    BY <1>1, <2>6, <2>7 DEF ErrorsHaveCause
  <2> QED BY <2>2, <2>3, <2>8
<1> QED BY <1>11, <1>12

-----------------------------------------------------------------------------
(* Theorems *)

(* The variables have their types, and no sample is empty: the QBER is     *)
(* never a division by zero (compute_qber).                                *)
THEOREM TypeCorrect == Spec => []TypeOK
<1>1. Inv => TypeOK
  BY DEF Inv
<1> QED BY <1>1, Invariance, PTL

(* A bit measured in Alice's basis differs from hers only if something     *)
(* happened to the photon or it was a late one (_process_batch_sync).      *)
THEOREM NoErrorWithoutCause == Spec => []ErrorsHaveCause
<1>1. Inv => ErrorsHaveCause
  BY DEF Inv
<1> QED BY <1>1, Invariance, PTL

(* ST and Bob sift the same of the qubits that Bob's list has once         *)
(* (sift_key_task, _do_local_sift).                                        *)
THEOREM SameQubitsSifted == Spec => []SiftsAgree
<1>1. Inv => SiftsAgree
  BY SiftersAgree DEF Inv
<1> QED BY <1>1, Invariance, PTL

(* When Bob's list has every qubit once, the key QKT derives and the one   *)
(* Bob keeps are as long and differ at most where something happened to    *)
(* the qubit, whatever it was that the channel, the detector, Eve and      *)
(* get_qubit did to the others (qber_key_task, _do_local_sift).            *)
THEOREM OnlyNoiseSeparatesKeys == Spec => []KeysDifferOnlyByNoise
BY KeysOfOneOrder, Invariance, KeyInvariance, PTL
=============================================================================
