------------------------------- MODULE Lemmas -------------------------------
(***************************************************************************)
(* Facts that the proofs about several components rest on: about searching *)
(* and looping through a list, and about what the policy and the menu      *)
(* return, for every graph and every history.                              *)
(***************************************************************************)
EXTENDS Menu, FiniteSetTheorems, WellFoundedInduction, TLAPS

(* A set of positions of a sequence that is not empty has a first one.     *)
LEMMA FirstPosition ==
  ASSUME NEW T, T \subseteq Nat, T # {}
  PROVE  \E i \in T : \A j \in T : ~(j < i)
<1>1. PICK i \in T : \A j \in T : ~(<<j, i>> \in OpToRel(<, Nat))
  BY NatLessThanWellFounded, WFMin
<1>2. \A j \in T : j < i => <<j, i>> \in OpToRel(<, Nat)
  BY DEF OpToRel
<1> QED
  BY <1>1, <1>2

(* Induction over the natural numbers, for a set instead of a predicate.   *)
LEMMA SetInduction ==
  ASSUME NEW S, 0 \in S, \A n \in Nat : n \in S => n + 1 \in S
  PROVE  Nat \subseteq S
<1> DEFINE T == Nat \ S
<1> DEFINE Less == {p \in Nat \X Nat : p[1] < p[2]}
<1>0. IsWellFoundedOn(Less, Nat)
  BY NatLessThanWellFounded, SMT DEF OpToRel
<1> HIDE DEF Less
<1>1. SUFFICES ASSUME T # {} PROVE FALSE
  OBVIOUS
<1>2. PICK x \in T : \A y \in T : ~ (<<y, x>> \in Less)
  <2>1. T \subseteq Nat
    OBVIOUS
  <2> QED
    BY <1>0, <1>1, <2>1, WFMin
<1>3. x # 0 /\ x - 1 \in Nat
  OBVIOUS
<1>4. x - 1 \notin T
  <2>1. <<x - 1, x>> \in Less
    BY <1>3, SMT DEF Less
  <2> QED
    BY <1>2, <2>1
<1>5. x - 1 \in S /\ x - 1 + 1 = x
  BY <1>3, <1>4
<1> QED
  BY <1>3, <1>5

(* The bodies of loops over n positions, from states of R to states of R,  *)
(* and the states that such a loop goes through.                           *)
Bodies(n, R) == [1..n -> [R -> R]]
IsRun(run, n, R, start, body) ==
  run \in [0..n -> R] /\ run[0] = start /\ \A i \in 1..n : run[i] = body[i][run[i - 1]]

(* Such a loop runs to the end of its n positions.                         *)
LEMMA LoopRuns ==
  ASSUME NEW n \in Nat, NEW R, NEW start \in R, NEW body \in Bodies(n, R)
  PROVE  \E run : IsRun(run, n, R, start, body)
<1> USE DEF Bodies
<1> DEFINE Loop(m, f) == /\ f \in [0..m -> R]
                         /\ f[0] = start
                         /\ \A i \in 1..m : f[i] = body[i][f[i - 1]]
<1> DEFINE Good == {m \in Nat : m <= n => \E f : Loop(m, f)}
<1>1. 0 \in Good
  <2>1. Loop(0, [i \in 0..0 |-> start])
    OBVIOUS
  <2> QED
    BY <2>1
<1>2. ASSUME NEW m \in Nat, m \in Good PROVE m + 1 \in Good
  <2>0. m + 1 \in Nat /\ (m <= n => \E f : Loop(m, f))
    <3> HIDE DEF Loop
    <3> QED
      BY <1>2
  <2>1. SUFFICES ASSUME m + 1 <= n PROVE \E f : Loop(m + 1, f)
    <3> HIDE DEF Loop
    <3> QED
      BY <2>0
  <2>2. PICK f : Loop(m, f)
    <3> HIDE DEF Loop
    <3> QED
      BY <2>0, <2>1
  <2> DEFINE g == [i \in 0..(m + 1) |-> IF i = m + 1 THEN body[m + 1][f[m]] ELSE f[i]]
  <2>3. body[m + 1][f[m]] \in R
    <3>1. f[m] \in R /\ m + 1 \in 1..n
      BY <2>1, <2>2
    <3> QED
      BY <3>1
  <2>4. g \in [0..(m + 1) -> R]
    BY <2>2, <2>3
  <2>5. ASSUME NEW i \in 1..(m + 1) PROVE g[i] = body[i][g[i - 1]]
    <3>1. CASE i = m + 1
      <4>1. i - 1 = m /\ m \in 0..(m + 1) /\ m # m + 1
        BY <3>1
      <4>2. g[i - 1] = f[m] /\ g[i] = body[m + 1][f[m]]
        BY <3>1, <4>1
      <4> QED
        BY <3>1, <4>2
    <3>2. CASE i # m + 1
      <4>1. i \in 1..m /\ i - 1 \in 0..m
        BY <3>2
      <4>2. g[i] = f[i] /\ g[i - 1] = f[i - 1]
        BY <4>1
      <4> QED
        BY <2>2, <4>1, <4>2
    <3> QED
      BY <3>1, <3>2
  <2>6. g[0] = start
    BY <2>2
  <2>7. Loop(m + 1, g)
    BY <2>4, <2>5, <2>6
  <2> QED
    BY <2>7
<1>3. n \in Good
  <2> HIDE DEF Good
  <2> QED
    BY <1>1, <1>2, SetInduction
<1> QED
  BY <1>3 DEF IsRun

-----------------------------------------------------------------------------
(* The policy and the menu.                                                *)

(* A search through a graph for a member of a set that the graph lists     *)
(* finds one.                                                              *)
LEMMA FirstExists ==
  ASSUME NEW g \in Graph, NEW S, S # {}, S \subseteq Listed(g)
  PROVE  \E e \in S : IsFirstOf(g, e, S)
<1> DEFINE T == {i \in DOMAIN g.rows : g.rows[i] \in S}
<1>1. T \subseteq Nat /\ T # {}
  BY DEF Graph, Listed
<1>2. PICK i \in T : \A j \in T : ~(j < i)
  BY <1>1, FirstPosition
<1>3. IsFirstOf(g, g.rows[i], S)
  BY <1>2 DEF IsFirstOf
<1> QED
  BY <1>2, <1>3

(* The rows of a graph are entries.                                        *)
LEMMA ListedIsEntry ==
  ASSUME NEW g \in Graph
  PROVE  Listed(g) \subseteq Entry /\ BootableEntries(g) \subseteq Listed(g)
BY DEF Graph, Listed, BootableEntries

(* A graph lists no more entries than it has rows.                         *)
LEMMA ListedCount ==
  ASSUME NEW g \in Graph, NEW S, S \subseteq Listed(g)
  PROVE  /\ Len(g.rows) \in Nat
         /\ IsFiniteSet(S) /\ Cardinality(S) \in Nat
         /\ Cardinality(S) <= Len(g.rows)
<1> DEFINE n == Len(g.rows)
           f == [i \in 1..n |-> g.rows[i]]
<1>1. n \in Nat /\ DOMAIN g.rows = 1..n
  BY DEF Graph
<1>2. IsFiniteSet(1..n) /\ Cardinality(1..n) = n
  <2>1. IsFiniteSet(1..n) /\ Cardinality(1..n) = IF 1 > n THEN 0 ELSE n - 1 + 1
    BY <1>1, FS_Interval
  <2> QED
    BY <1>1, <2>1
<1>3. f \in Surjection(1..n, Listed(g))
  BY <1>1 DEF Surjection, Listed
<1>4. IsFiniteSet(Listed(g)) /\ Cardinality(Listed(g)) <= n
  BY <1>2, <1>3, FS_Surjection
<1>5. /\ IsFiniteSet(S) /\ Cardinality(S) <= Cardinality(Listed(g))
      /\ Cardinality(S) \in Nat /\ Cardinality(Listed(g)) \in Nat
  BY <1>4, FS_Subset, FS_CardinalityType
<1> QED
  BY <1>1, <1>4, <1>5

(* find() returns the first position of every listed entry.                *)
LEMMA PositionOfListed ==
  ASSUME NEW g \in Graph, NEW e \in Listed(g)
  PROVE  /\ Position(g, e) \in DOMAIN g.rows /\ g.rows[Position(g, e)] = e
         /\ \A j \in DOMAIN g.rows : j < Position(g, e) => g.rows[j] # e
<1> DEFINE T == {i \in DOMAIN g.rows : g.rows[i] = e}
<1>1. T \subseteq Nat /\ T # {}
  BY DEF Graph, Listed
<1>2. PICK i \in T : \A j \in T : ~(j < i)
  BY <1>1, FirstPosition
<1>3. i \in DOMAIN g.rows /\ g.rows[i] = e
      /\ \A j \in DOMAIN g.rows : j < i => g.rows[j] # e
  BY <1>2
<1> QED
  BY <1>3 DEF Position

(* Among any listed entries one goes before all the others.                *)
LEMMA NextExists ==
  ASSUME NEW g \in Graph, NEW c, NEW S, S # {}, S \subseteq BootableEntries(g)
  PROVE  \E e \in S : IsNextOf(g, c, S, e)
<1>1. CASE c \in S
  BY <1>1 DEF IsNextOf, GoesBefore
<1>2. CASE c \notin S
  <2> DEFINE Top == {e \in S : HealthRank(g.health[e]) = 3}
             Best == IF Top # {} THEN Top ELSE S
             T == {Position(g, e) : e \in Best}
  <2>1. \A e \in S : /\ e \in Listed(g)
                     /\ HealthRank(g.health[e]) \in {2, 3}
    BY ListedIsEntry DEF BootableEntries, IsBootable, HealthRank
  <2>2. Best # {} /\ Best \subseteq S
    OBVIOUS
  <2>3. \A e \in Best, f \in S :
          \/ HealthRank(g.health[e]) > HealthRank(g.health[f])
          \/ HealthRank(g.health[e]) = HealthRank(g.health[f]) /\ f \in Best
    BY <2>1
  <2>4. \A e \in Best : Position(g, e) \in Nat /\ g.rows[Position(g, e)] = e
    BY <2>1, <2>2, PositionOfListed DEF Graph
  <2>5. PICK i \in T : \A j \in T : ~(j < i)
    <3>1. T \subseteq Nat /\ T # {}
      BY <2>2, <2>4
    <3> HIDE DEF T
    <3> QED
      BY <3>1, FirstPosition
  <2>6. PICK e \in Best : i = Position(g, e)
    BY <2>5
  <2>7. \A f \in Best \ {e} : Position(g, e) < Position(g, f)
    BY <2>4, <2>5, <2>6
  <2>8. \A f \in S \ {e} : GoesBefore(g, c, e, f)
    <3> TAKE f \in S \ {e}
    <3>1. f # c
      BY <1>2
    <3>2. \/ HealthRank(g.health[e]) > HealthRank(g.health[f])
          \/ HealthRank(g.health[e]) = HealthRank(g.health[f]) /\ f \in Best
      BY <2>3
    <3>3. f \in Best => Position(g, e) < Position(g, f)
      BY <2>7
    <3> HIDE DEF Best
    <3> QED
      BY <3>1, <3>2, <3>3 DEF GoesBefore
  <2> QED
    BY <2>2, <2>8 DEF IsNextOf
<1> QED
  BY <1>1, <1>2

(* pick_healthiest() finds a bootable entry whenever there is one.         *)
LEMMA HealthiestIsBootable ==
  ASSUME NEW g \in Graph
  PROVE  IF BootableEntries(g) = {}
         THEN PickHealthiest(g) = NoEntry
         ELSE PickHealthiest(g) \in BootableEntries(g)
<1>1. CASE BootableEntries(g) = {}
  BY <1>1 DEF PickHealthiest
<1>2. CASE BootableEntries(g) # {}
  <2>1. \E e \in BootableEntries(g) : IsNextOf(g, NoEntry, BootableEntries(g), e)
    BY <1>2, NextExists
  <2> QED
    BY <1>2, <2>1 DEF PickHealthiest
<1> QED
  BY <1>1, <1>2

(* decide() is total, and what it chooses can be booted.                   *)
THEOREM DecisionBoots ==
  ASSUME NEW g \in Graph, NEW h \in History, NEW s \in Strategies
  PROVE  IF BootableEntries(g) = {}
         THEN Decide(g, h, s) = NoDecision
         ELSE Decide(g, h, s).chosen \in BootableEntries(g)
<1>1. NoEntry \notin BootableEntries(g)
  BY ListedIsEntry, NoEntryAssumption
<1>2. CASE h.oneShot \in BootableEntries(g)
  BY <1>2 DEF Decide
<1>3. CASE /\ h.oneShot \notin BootableEntries(g)
           /\ Preferred(h, s).chosen \in BootableEntries(g)
  BY <1>3 DEF Decide
<1>4. CASE /\ h.oneShot \notin BootableEntries(g)
           /\ Preferred(h, s).chosen \notin BootableEntries(g)
  BY <1>1, <1>4, HealthiestIsBootable DEF Decide
<1> QED
  BY <1>2, <1>3, <1>4

-----------------------------------------------------------------------------

(* A bootable row shows a bootable entry.                                  *)
LEMMA RowBoots ==
  ASSUME NEW g \in Graph, NEW r \in Nat, RowIsBootable(g, r)
  PROVE  RowEntry(g, r) \in BootableEntries(g)
<1>1. r + 1 \in DOMAIN g.rows
  BY DEF RowIsBootable, RowCount, Graph
<1> QED
  BY <1>1 DEF RowIsBootable, RowEntry, BootableEntries, Listed

(* A bootable entry is shown on a row.                                     *)
LEMMA BootableIsShown ==
  ASSUME NEW g \in Graph, BootableEntries(g) # {}
  PROVE  \E r \in 0..(RowCount(g) - 1) : RowIsBootable(g, r)
<1>1. PICK i \in DOMAIN g.rows : IsBootable(g.health[g.rows[i]])
  BY DEF BootableEntries, Listed
<1>2. i \in 1..RowCount(g) /\ RowCount(g) \in Nat
  BY DEF RowCount, Graph
<1>3. i - 1 \in 0..(RowCount(g) - 1) /\ (i - 1) + 1 = i
  BY <1>2
<1>4. RowIsBootable(g, i - 1)
  BY <1>1, <1>2, <1>3 DEF RowIsBootable
<1> QED
  BY <1>3, <1>4

(* The row a fresh menu starts on is a row, and if any can be booted it is *)
(* the first that can.                                                     *)
LEMMA FirstBootableRowIsRow ==
  ASSUME NEW g \in Graph
  PROVE  /\ FirstBootableRow(g) \in 0..RowCount(g)
         /\ \A r \in 0..(RowCount(g) - 1) :
              RowIsBootable(g, r) => FirstBootableRow(g) <= r
         /\ BootableEntries(g) # {} =>
              /\ RowIsBootable(g, FirstBootableRow(g))
              /\ RowEntry(g, FirstBootableRow(g)) \in BootableEntries(g)
<1> DEFINE rows == {r \in 0..(RowCount(g) - 1) : RowIsBootable(g, r)}
           first == CHOOSE r \in rows : \A q \in rows : r <= q
<1>1. RowCount(g) \in Nat
  BY DEF RowCount, Graph
<1>2. CASE rows = {}
  BY <1>1, <1>2, BootableIsShown DEF FirstBootableRow
<1>3. CASE rows # {}
  <2>1. rows \subseteq Nat
    BY <1>1
  <2>2. \E r \in rows : \A q \in rows : ~(q < r)
    <3> HIDE DEF rows
    <3> QED
      BY <1>3, <2>1, FirstPosition
  <2>3. \E r \in rows : \A q \in rows : r <= q
    <3> HIDE DEF rows
    <3> QED
      BY <2>1, <2>2
  <2>4. first \in rows /\ \A q \in rows : first <= q
    <3> HIDE DEF rows
    <3> QED
      BY <2>3
  <2>5. FirstBootableRow(g) = first
    BY <1>3 DEF FirstBootableRow
  <2> HIDE DEF first
  <2>6. first \in Nat /\ first \in 0..RowCount(g) /\ RowIsBootable(g, first)
    BY <1>1, <2>4
  <2>7. RowEntry(g, first) \in BootableEntries(g)
    BY <2>6, RowBoots
  <2> QED
    BY <2>4, <2>5, <2>6, <2>7
<1> QED
  BY <1>2, <1>3

(* Moving the cursor stays on the menu.                                    *)
LEMMA MenuMoveIsRow ==
  ASSUME NEW g \in Graph, NEW r \in 0..RowCount(g), NEW delta \in Int
  PROVE  MenuMove(g, r, delta) \in 0..RowCount(g)
<1>1. RowCount(g) \in Nat
  BY DEF RowCount, Graph
<1>2. RowCount(g) # 0 => (r + delta) % RowCount(g) \in 0..(RowCount(g) - 1)
  BY <1>1
<1> QED
  BY <1>1, <1>2 DEF MenuMove

(* However present() positions the cursor, it rests on a row.              *)
LEMMA InitialCursorIsRow ==
  ASSUME NEW g \in Graph, NEW d
  PROVE  InitialCursor(g, d) \in 0..RowCount(g)
<1>1. CASE d.chosen \notin Listed(g)
  BY <1>1, FirstBootableRowIsRow DEF InitialCursor
<1>2. CASE d.chosen \in Listed(g)
  <2>1. Position(g, d.chosen) \in Nat
    BY <1>2, PositionOfListed DEF Graph
  <2>2. Position(g, d.chosen) - 1 \in Int
    BY <2>1
  <2> QED
    BY <1>2, <2>2, FirstBootableRowIsRow, MenuMoveIsRow DEF InitialCursor
<1> QED
  BY <1>1, <1>2

(* A countdown that runs out, wherever the cursor is, and a machine with   *)
(* no screen, both choose an entry that can be booted if there is one.     *)
LEMMA TimeoutBoots ==
  ASSUME NEW g \in Graph, NEW h \in History, NEW s \in Strategies, NEW r \in Nat
  PROVE  LET c == OnTimeout(g, Decide(g, h, s), r)
         IN  IF BootableEntries(g) = {} THEN c = NoEntry ELSE c \in BootableEntries(g)
<1>1. CASE RowIsBootable(g, r)
  BY <1>1, RowBoots DEF OnTimeout
<1>2. CASE ~RowIsBootable(g, r)
  BY <1>2, DecisionBoots DEF OnTimeout, NoDecision
<1> QED
  BY <1>1, <1>2

(* With no screen, present() returns a bootable entry whenever there is one *)
(* (the headless branch of pipeline.rs).                                   *)
LEMMA HeadlessBoots ==
  ASSUME NEW g \in Graph, NEW h \in History, NEW s \in Strategies
  PROVE  LET c == Headless(g, Decide(g, h, s))
         IN  IF BootableEntries(g) = {} THEN c = NoEntry ELSE c \in BootableEntries(g)
<1>1. CASE BootableEntries(g) = {}
  BY <1>1, DecisionBoots DEF Headless, NoDecision
<1>2. CASE BootableEntries(g) # {}
  BY <1>2, DecisionBoots, ListedIsEntry, NoEntryAssumption DEF Headless
<1> QED
  BY <1>1, <1>2
=============================================================================
