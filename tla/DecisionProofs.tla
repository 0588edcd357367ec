--------------------------- MODULE DecisionProofs ---------------------------
(***************************************************************************)
(* The decision and its reason, for every graph, every history - also one  *)
(* that names ids no graph ever had - and every configuration file.        *)
(***************************************************************************)
EXTENDS Decision, Lemmas, TLAPS

(* Of the bootable entries, none is healthier than the one that            *)
(* pick_healthiest() returns.                                              *)
LEMMA HealthiestIsHealthiest ==
  ASSUME NEW g \in Graph, NEW e \in BootableEntries(g)
  PROVE  /\ PickHealthiest(g) \in BootableEntries(g)
         /\ HealthRank(g.health[e]) <= HealthRank(g.health[PickHealthiest(g)])
<1> DEFINE best == PickHealthiest(g)
<1>1. IsNextOf(g, NoEntry, BootableEntries(g), best)
  BY NextExists DEF PickHealthiest
<1>2. best \in BootableEntries(g) /\ best # NoEntry
  BY <1>1, ListedIsEntry, NoEntryAssumption DEF IsNextOf
<1>3. \A f \in BootableEntries(g) : HealthRank(g.health[f]) \in {2, 3}
  BY DEF BootableEntries, IsBootable, HealthRank
<1>4. CASE e = best
  BY <1>2, <1>3, <1>4
<1>5. CASE e # best
  <2>1. GoesBefore(g, NoEntry, best, e)
    BY <1>1, <1>5 DEF IsNextOf
  <2>2. \/ HealthRank(g.health[best]) > HealthRank(g.health[e])
        \/ HealthRank(g.health[best]) = HealthRank(g.health[e])
    BY <2>1, <1>2 DEF GoesBefore
  <2>3. QED BY <2>2, <1>2, <1>3
<1>6. QED BY <1>4, <1>5

(* The conjuncts of DecisionIsSound, for a graph and any history.          *)
LEMMA DecideIsSound ==
  ASSUME NEW g \in Graph, NEW h, NEW s
  PROVE  LET d == Decide(g, h, s)
             boots == BootableEntries(g)
             byLastGood == s = "LastGoodThenDefault" /\ h.lastGood # NoEntry
         IN
         /\ d = NoDecision <=> boots = {}
         /\ d # NoDecision => d.chosen \in boots
         /\ h.oneShot \in boots <=> d.reason = "OneShot"
         /\ d.reason = "OneShot" => d.chosen = h.oneShot
         /\ d.reason = "LastGood" => d.chosen = h.lastGood /\ byLastGood
         /\ d.reason = "ConfiguredDefault" =>
              d.chosen = h.configuredDefault /\ ~byLastGood
         /\ d.reason \in {"FellBackToHealthiest", "HealthiestAvailable"} =>
              /\ byLastGood => h.lastGood \notin boots
              /\ h.configuredDefault \in boots => byLastGood
              /\ \A e \in boots :
                   HealthRank(g.health[e]) <= HealthRank(g.health[d.chosen])
<1> DEFINE d == Decide(g, h, s)
           p == Preferred(h, s)
           best == PickHealthiest(g)
           byLastGood == s = "LastGoodThenDefault" /\ h.lastGood # NoEntry
<1>1. NoEntry \notin BootableEntries(g)
  BY ListedIsEntry, NoEntryAssumption
<1>2. /\ p.reason \in {"LastGood", "ConfiguredDefault"}
      /\ p.reason = "LastGood" => p.chosen = h.lastGood /\ byLastGood
      /\ p.reason = "ConfiguredDefault" => p.chosen = h.configuredDefault /\ ~byLastGood
      /\ byLastGood => p.chosen = h.lastGood
      /\ ~byLastGood => p.chosen = h.configuredDefault
  BY DEF Preferred
<1>3. NoDecision.chosen = NoEntry /\ NoDecision.reason = "None"
  BY DEF NoDecision
<1>4. CASE h.oneShot \in BootableEntries(g)
  <2>1. d = [chosen |-> h.oneShot, reason |-> "OneShot"]
    BY <1>4 DEF Decide
  <2>2. d.chosen = h.oneShot /\ d.reason = "OneShot" /\ d # NoDecision
    BY <2>1, <1>3
  <2>3. QED BY <2>2, <1>4
<1>5. CASE h.oneShot \notin BootableEntries(g) /\ p.chosen \in BootableEntries(g)
  <2>1. d = p
    BY <1>5 DEF Decide
  <2>2. d # NoDecision
    BY <2>1, <1>1, <1>3, <1>5
  <2>3. QED BY <2>1, <2>2, <1>2, <1>5
<1>6. CASE h.oneShot \notin BootableEntries(g) /\ p.chosen \notin BootableEntries(g)
  <2>1. CASE BootableEntries(g) = {}
    <3>1. d = NoDecision
      BY <2>1 DEF Decide, PickHealthiest
    <3>2. QED BY <3>1, <2>1, <1>3
  <2>2. CASE BootableEntries(g) # {}
    <3>1. best \in BootableEntries(g) /\ best # NoEntry
      BY <2>2, <1>1, HealthiestIsHealthiest
    <3>2. d = [chosen |-> best,
               reason |-> IF p.chosen = NoEntry
                          THEN "HealthiestAvailable" ELSE "FellBackToHealthiest"]
      BY <1>6, <3>1 DEF Decide
    <3>3. /\ d.chosen = best
          /\ d.reason \in {"HealthiestAvailable", "FellBackToHealthiest"}
          /\ d # NoDecision
      BY <3>2, <3>1, <1>3
    <3>4. \A e \in BootableEntries(g) :
            HealthRank(g.health[e]) <= HealthRank(g.health[best])
      BY HealthiestIsHealthiest
    <3>5. /\ byLastGood => h.lastGood \notin BootableEntries(g)
          /\ h.configuredDefault \in BootableEntries(g) => byLastGood
      BY <1>2, <1>6
    <3>6. QED BY <3>3, <3>4, <3>5, <3>1, <2>2, <1>6
  <2>3. QED BY <2>1, <2>2
<1>7. QED BY <1>4, <1>5, <1>6

-----------------------------------------------------------------------------
(* The search for the healthiest entry.                                    *)

(* The best entries that the loop of pick_healthiest() goes through.       *)
IsScan(best, g) ==
  /\ best[0] = NoEntry
  /\ \A i \in 1..Len(g.rows) :
       best[i] = IF /\ IsBootable(g.health[g.rows[i]])
                    /\ \/ best[i - 1] = NoEntry
                       \/ HealthRank(g.health[g.rows[i]]) > HealthRank(g.health[best[i - 1]])
                 THEN g.rows[i]
                 ELSE best[i - 1]

(* The loop behind ScanHealthiest(), position by position.                 *)
LEMMA ScanLoop ==
  ASSUME NEW g \in Graph
  PROVE  \E best : IsScan(best, g) /\ ScanHealthiest(g) = best[Len(g.rows)]
<1> DEFINE n == Len(g.rows)
           Keep(old, i) ==
             IF /\ IsBootable(g.health[g.rows[i]])
                /\ \/ old = NoEntry
                   \/ HealthRank(g.health[g.rows[i]]) > HealthRank(g.health[old])
             THEN g.rows[i]
             ELSE old
           body == [i \in 1..n |-> [old \in MaybeEntry |-> Keep(old, i)]]
<1>1. n \in Nat /\ \A i \in 1..n : g.rows[i] \in MaybeEntry
  BY DEF Graph, MaybeEntry
<1>2. body \in Bodies(n, MaybeEntry) /\ NoEntry \in MaybeEntry
  BY <1>1 DEF Bodies, MaybeEntry
<1> HIDE DEF n, Keep
<1>3. PICK f : f \in [0..n -> MaybeEntry] /\ f[0] = NoEntry /\ \A i \in 1..n : f[i] = Keep(f[i - 1], i)
  <2>1. PICK f : IsRun(f, n, MaybeEntry, NoEntry, body)
    <3> HIDE DEF body
    <3> QED BY <1>1, <1>2, LoopRuns
  <2>2. ASSUME NEW i \in 1..n PROVE f[i] = Keep(f[i - 1], i)
    <3>1. f[i - 1] \in MaybeEntry /\ f[i] = body[i][f[i - 1]]
      <4> HIDE DEF body
      <4> QED BY <1>1, <2>1 DEF IsRun
    <3> QED BY <3>1
  <2>3. f \in [0..n -> MaybeEntry] /\ f[0] = NoEntry
    <3> HIDE DEF body
    <3> QED BY <2>1 DEF IsRun
  <2> QED BY <2>2, <2>3
<1> DEFINE Loop(h) == [i \in 0..n |-> IF i = 0 THEN NoEntry ELSE Keep(h[i - 1], i)]
           loop == CHOOSE h : h = Loop(h)
<1>4. f = Loop(f)
  <2>1. \A i \in 0..n : f[i] = IF i = 0 THEN NoEntry ELSE Keep(f[i - 1], i)
    BY <1>1, <1>3
  <2> QED BY <1>3, <2>1
<1>5. loop = Loop(loop)
  <2> HIDE DEF Loop
  <2> QED BY <1>4
<1>6. ScanHealthiest(g) = loop[n]
  BY DEF ScanHealthiest, Keep, n
<1> HIDE DEF loop
<1>7. loop[0] = NoEntry /\ \A i \in 1..n : loop[i] = Keep(loop[i - 1], i)
  BY <1>1, <1>5
<1>8. IsScan(loop, g)
  BY <1>7 DEF IsScan, Keep, n
<1> QED BY <1>6, <1>8 DEF n

(* Of two entries only one can come first.                                 *)
LEMMA NextIsUnique ==
  ASSUME NEW g \in Graph, NEW c, NEW S, S \subseteq BootableEntries(g),
         NEW e, NEW f, IsNextOf(g, c, S, e), IsNextOf(g, c, S, f)
  PROVE  e = f
<1>1. e \in S /\ f \in S
  BY DEF IsNextOf
<1>2. HealthRank(g.health[e]) \in Nat /\ HealthRank(g.health[f]) \in Nat
  BY <1>1 DEF BootableEntries, IsBootable, HealthRank
<1>3. Position(g, e) \in Nat /\ Position(g, f) \in Nat
  BY <1>1, PositionOfListed, ListedIsEntry DEF Graph
<1>4. SUFFICES ASSUME e # f PROVE FALSE
  OBVIOUS
<1>5. GoesBefore(g, c, e, f) /\ GoesBefore(g, c, f, e)
  BY <1>1, <1>4 DEF IsNextOf
<1>6. QED BY <1>2, <1>3, <1>4, <1>5 DEF GoesBefore

(* The loop of pick_healthiest(), which keeps the best entry so far and    *)
(* lets only a strictly healthier one replace it, finds on every graph the *)
(* healthiest bootable entry, the first listed of several.                 *)
THEOREM ScanFindsTheHealthiest ==
  ASSUME NEW g \in Graph
  PROVE  ScanHealthiest(g) = PickHealthiest(g)
<1> DEFINE n == Len(g.rows)
           rank(i) == HealthRank(g.health[g.rows[i]])
           boots(i) == IsBootable(g.health[g.rows[i]])
<1>1. PICK best : IsScan(best, g) /\ ScanHealthiest(g) = best[n]
  BY ScanLoop
<1>2. n \in Nat /\ DOMAIN g.rows = 1..n /\ \A i \in 1..n : g.rows[i] # NoEntry
  BY NoEntryAssumption DEF Graph
<1>3. \A i \in 1..n : boots(i) => rank(i) \in {2, 3}
  BY DEF IsBootable, HealthRank
\* k is the position of the best of the first m entries.
<1> DEFINE IsBest(k, m) ==
             /\ k \in 1..m /\ boots(k)
             /\ \A j \in 1..m : boots(j) => rank(j) <= rank(k) /\ (j < k => rank(j) < rank(k))
           Found(m) ==
             \/ best[m] = NoEntry /\ \A j \in 1..m : ~boots(j)
             \/ \E k \in 1..m : best[m] = g.rows[k] /\ IsBest(k, m)
           Good == {m \in Nat : m <= n => Found(m)}
<1>4. 0 \in Good
  BY <1>1 DEF IsScan
<1>5. ASSUME NEW m \in Nat, m \in Good PROVE m + 1 \in Good
  <2>1. SUFFICES ASSUME m + 1 <= n PROVE Found(m + 1)
    OBVIOUS
  <2>2. m + 1 \in 1..n /\ Found(m) /\ m + 1 - 1 = m
    BY <1>2, <1>5, <2>1
  <2>3. best[m + 1] = IF boots(m + 1) /\ (best[m] = NoEntry \/ rank(m + 1) > HealthRank(g.health[best[m]]))
                      THEN g.rows[m + 1] ELSE best[m]
    BY <1>1, <2>2 DEF IsScan
  <2>4. \A i \in 1..(m + 1) : i \in 1..n /\ (i \in 1..m \/ i = m + 1)
    BY <1>2, <2>1
  <2> HIDE DEF rank, boots, n
  <2>5. CASE best[m] = NoEntry /\ \A j \in 1..m : ~boots(j)
    <3>1. CASE boots(m + 1)
      <4>1. best[m + 1] = g.rows[m + 1]
        BY <2>3, <2>5, <3>1
      <4>2. rank(m + 1) \in {2, 3}
        BY <1>3, <2>2, <3>1
      <4>3. IsBest(m + 1, m + 1)
        BY <2>4, <2>5, <3>1, <4>2
      <4>4. QED BY <4>1, <4>3
    <3>2. CASE ~boots(m + 1)
      BY <2>3, <2>4, <2>5, <3>2
    <3>3. QED BY <3>1, <3>2
  <2>6. ASSUME NEW k \in 1..m, best[m] = g.rows[k], IsBest(k, m)
        PROVE  Found(m + 1)
    <3>1. k \in 1..n /\ k \in 1..(m + 1) /\ best[m] # NoEntry
      BY <1>2, <2>1, <2>6
    <3>2. HealthRank(g.health[best[m]]) = rank(k) /\ rank(k) \in {2, 3}
      <4>1. HealthRank(g.health[best[m]]) = rank(k)
        BY <2>6 DEF rank
      <4>2. QED BY <1>3, <2>6, <3>1, <4>1
    <3>3. CASE boots(m + 1) /\ rank(m + 1) > rank(k)
      <4>1. best[m + 1] = g.rows[m + 1]
        BY <2>3, <3>2, <3>3
      <4>2. \A j \in 1..m : boots(j) => rank(j) \in {2, 3} /\ rank(j) <= rank(k)
        BY <1>3, <2>4, <2>6
      <4>3. rank(m + 1) \in {2, 3}
        BY <1>3, <2>2, <3>3
      <4>4. IsBest(m + 1, m + 1)
        BY <2>4, <3>2, <3>3, <4>2, <4>3
      <4>5. QED BY <4>1, <4>4
    <3>4. CASE ~(boots(m + 1) /\ rank(m + 1) > rank(k))
      <4>1. best[m + 1] = g.rows[k]
        BY <2>3, <2>6, <3>1, <3>2, <3>4
      <4>2. boots(m + 1) => rank(m + 1) \in {2, 3} /\ rank(m + 1) <= rank(k)
        BY <1>3, <2>2, <3>2, <3>4
      <4>3. IsBest(k, m + 1)
        BY <2>4, <2>6, <3>1, <4>2
      <4>4. QED BY <3>1, <4>1, <4>3
    <3>5. QED BY <3>3, <3>4
  <2>7. QED BY <2>2, <2>5, <2>6
<1>6. Found(n)
  <2> HIDE DEF Found
  <2>1. n \in Good
    <3> HIDE DEF Good
    <3> QED BY <1>2, <1>4, <1>5, SetInduction
  <2> QED BY <1>2, <2>1
<1>7. CASE best[n] = NoEntry /\ \A j \in 1..n : ~boots(j)
  <2>1. BootableEntries(g) = {}
    BY <1>2, <1>7 DEF BootableEntries, Listed
  <2>2. QED BY <1>1, <1>7, <2>1 DEF PickHealthiest
<1>8. ASSUME NEW k \in 1..n, best[n] = g.rows[k], IsBest(k, n)
      PROVE  ScanHealthiest(g) = PickHealthiest(g)
  <2> DEFINE e == g.rows[k]
             S == BootableEntries(g)
  <2>1. e \in S /\ e # NoEntry /\ e \in Listed(g)
    BY <1>2, <1>8 DEF BootableEntries, Listed
  <2>2. Position(g, e) \in 1..n /\ Position(g, e) <= k
    <3>1. Position(g, e) \in 1..n /\ \A j \in 1..n : j < Position(g, e) => g.rows[j] # e
      BY <1>2, <2>1, PositionOfListed
    <3>2. QED BY <1>2, <3>1
  <2>3. ASSUME NEW f \in S \ {e} PROVE GoesBefore(g, NoEntry, e, f)
    <3> DEFINE j == Position(g, f)
    <3>1. j \in 1..n /\ g.rows[j] = f /\ f # NoEntry
      BY <1>2, PositionOfListed, ListedIsEntry, NoEntryAssumption
    <3>2. boots(j)
      BY <3>1 DEF BootableEntries
    <3>3. rank(j) <= rank(k) /\ (j < k => rank(j) < rank(k)) /\ j # k
      BY <1>8, <3>1, <3>2
    <3>4. rank(j) = HealthRank(g.health[f]) /\ rank(k) = HealthRank(g.health[e])
      BY <3>1
    <3>5. rank(j) \in {2, 3} /\ rank(k) \in {2, 3}
      BY <1>3, <1>8, <3>1, <3>2
    <3> HIDE DEF rank, boots, j, e
    <3>6. rank(k) > rank(j) \/ (rank(k) = rank(j) /\ Position(g, e) < j)
      BY <1>2, <2>2, <3>1, <3>3, <3>5
    <3>7. QED BY <3>1, <3>4, <3>6 DEF GoesBefore, j
  <2>4. IsNextOf(g, NoEntry, S, e)
    BY <2>1, <2>3 DEF IsNextOf
  <2> HIDE DEF e
  <2>5. PickHealthiest(g) \in S /\ IsNextOf(g, NoEntry, S, PickHealthiest(g))
    BY <2>1, <2>4 DEF PickHealthiest
  <2>6. QED BY <1>1, <1>8, <2>1, <2>4, <2>5, NextIsUnique DEF e
<1>9. QED BY <1>6, <1>7, <1>8
-----------------------------------------------------------------------------
(* Selecting from a list, and the order of attempts.                       *)

(* The lists that the loop behind Those() goes through.                    *)
IsSelection(those, s, S) ==
  /\ those[0] = <<>>
  /\ \A i \in 1..Len(s) :
       those[i] = IF s[i] \in S THEN Append(those[i - 1], s[i]) ELSE those[i - 1]

(* The loop behind Those(), position by position.                          *)
LEMMA SelectionLoop ==
  ASSUME NEW R, NEW s \in Seq(R), NEW S
  PROVE  \E those \in [0..Len(s) -> Seq(R)] :
           IsSelection(those, s, S) /\ Those(s, S) = those[Len(s)]
<1> DEFINE Add(t, i) == IF s[i] \in S THEN Append(t, s[i]) ELSE t
<1> DEFINE body == [i \in 1..Len(s) |-> [t \in Seq(R) |-> Add(t, i)]]
<1>0. Len(s) \in Nat
  OBVIOUS
<1>1. \A t \in Seq(R), i \in 1..Len(s) : Add(t, i) \in Seq(R)
  OBVIOUS
<1> HIDE DEF Add
<1>2. body \in Bodies(Len(s), Seq(R)) /\ <<>> \in Seq(R)
  BY <1>1 DEF Bodies
<1>3. PICK f \in [0..Len(s) -> Seq(R)] :
         f[0] = <<>> /\ \A i \in 1..Len(s) : f[i] = Add(f[i - 1], i)
  <2>1. PICK f : IsRun(f, Len(s), Seq(R), <<>>, body)
    <3> HIDE DEF body
    <3> QED
      BY <1>0, <1>2, LoopRuns
  <2>2. ASSUME NEW i \in 1..Len(s) PROVE f[i] = Add(f[i - 1], i)
    <3>1. f[i - 1] \in Seq(R) /\ f[i] = body[i][f[i - 1]]
      <4> HIDE DEF body
      <4> QED
        BY <1>0, <2>1 DEF IsRun
    <3> QED
      BY <3>1
  <2>3. f \in [0..Len(s) -> Seq(R)] /\ f[0] = <<>>
    <3> HIDE DEF body
    <3> QED
      BY <2>1 DEF IsRun
  <2> QED
    BY <2>2, <2>3
<1> DEFINE Loop(h) == [i \in 0..Len(s) |-> IF i = 0 THEN <<>> ELSE Add(h[i - 1], i)]
<1> DEFINE loop == CHOOSE h : h = Loop(h)
<1>4. f = Loop(f)
  <2>1. \A i \in 0..Len(s) : f[i] = IF i = 0 THEN <<>> ELSE Add(f[i - 1], i)
    BY <1>0, <1>3
  <2> QED
    BY <1>3, <2>1
<1>5. loop = Loop(loop)
  <2> HIDE DEF Loop
  <2> QED
    BY <1>4
<1>6. Those(s, S) = loop[Len(s)]
  BY DEF Those, Add
<1> HIDE DEF loop
<1> DEFINE Typed == {n \in Nat : n <= Len(s) => loop[n] \in Seq(R)}
<1>7. 0 \in Typed
  BY <1>0, <1>5
<1>8. ASSUME NEW n \in Nat, n \in Typed PROVE n + 1 \in Typed
  <2>1. SUFFICES ASSUME n + 1 <= Len(s) PROVE loop[n + 1] \in Seq(R)
    OBVIOUS
  <2>2. n + 1 \in 1..Len(s) /\ n + 1 # 0 /\ n + 1 - 1 = n /\ loop[n] \in Seq(R)
    BY <1>0, <1>8, <2>1
  <2>3. loop[n + 1] = Add(loop[n], n + 1)
    BY <1>5, <2>2
  <2> QED
    BY <1>1, <2>2, <2>3
<1>9. \A n \in 0..Len(s) : loop[n] \in Seq(R)
  <2> HIDE DEF Typed
  <2>1. Nat \subseteq Typed
    BY <1>7, <1>8, SetInduction
  <2> QED
    BY <1>0, <2>1 DEF Typed
<1>10. loop \in [0..Len(s) -> Seq(R)] /\ loop[0] = <<>>
  BY <1>0, <1>5, <1>9
<1>11. \A i \in 1..Len(s) : loop[i] = Add(loop[i - 1], i)
  BY <1>0, <1>5
<1>12. IsSelection(loop, s, S)
  BY <1>10, <1>11 DEF Add, IsSelection
<1> QED
  BY <1>6, <1>10, <1>12

(* t has the elements of s that are in S, in the order of s.               *)
Selects(t, s, S) ==
  /\ \A x : (\E a \in 1..Len(t) : t[a] = x) <=> x \in S /\ \E k \in 1..Len(s) : s[k] = x
  /\ \A a, b \in 1..Len(t) : a < b =>
       \E k, l \in 1..Len(s) : k < l /\ t[a] = s[k] /\ t[b] = s[l]

(* What is selected is what is in the set, in the order of the list.       *)
LEMMA SelectionIsOrdered ==
  ASSUME NEW R, NEW s \in Seq(R), NEW S
  PROVE  Those(s, S) \in Seq(R) /\ Selects(Those(s, S), s, S)
<1>0. Len(s) \in Nat
  OBVIOUS
<1>1. PICK those \in [0..Len(s) -> Seq(R)] :
         IsSelection(those, s, S) /\ Those(s, S) = those[Len(s)]
  BY SelectionLoop
<1> DEFINE Exact(t, n) ==
      \A x : (\E a \in 1..Len(t) : t[a] = x) <=> x \in S /\ \E k \in 1..n : s[k] = x
<1> DEFINE Ordered(t, n) ==
      \A a, b \in 1..Len(t) : a < b =>
        \E k, l \in 1..n : k < l /\ t[a] = s[k] /\ t[b] = s[l]
<1> DEFINE Good == {n \in Nat : n <= Len(s) => Exact(those[n], n) /\ Ordered(those[n], n)}
<1>2. 0 \in Good
  BY <1>1 DEF IsSelection
<1>3. ASSUME NEW n \in Nat, n \in Good PROVE n + 1 \in Good
  <2>1. SUFFICES ASSUME n + 1 <= Len(s)
                 PROVE  Exact(those[n + 1], n + 1) /\ Ordered(those[n + 1], n + 1)
    <3> HIDE DEF Exact, Ordered
    <3> QED
      OBVIOUS
  <2> DEFINE t == those[n]
             u == those[n + 1]
             x == s[n + 1]
  <2>2. n + 1 \in 1..Len(s) /\ n + 1 - 1 = n /\ n \in 0..Len(s)
    BY <1>0, <2>1
  <2>3. t \in Seq(R) /\ x \in R /\ Exact(t, n) /\ Ordered(t, n)
    <3> HIDE DEF Exact, Ordered
    <3> QED
      BY <1>0, <1>3, <2>1, <2>2
  <2>4. u = IF x \in S THEN Append(t, x) ELSE t
    BY <1>1, <2>2 DEF IsSelection
  <2> HIDE DEF t, u, x
  <2>5. CASE x \notin S
    <3>1. Exact(t, n + 1)
      BY <2>3, <2>5 DEF x
    <3>2. Ordered(t, n + 1)
      BY <2>3
    <3> QED
      BY <2>4, <2>5, <3>1, <3>2 DEF u
  <2>6. CASE x \in S
    <3>1. /\ Len(u) = Len(t) + 1 /\ u[Len(t) + 1] = x
          /\ \A a \in 1..Len(t) : u[a] = t[a]
          /\ Len(t) \in Nat
      BY <2>3, <2>4, <2>6
    <3>2. Exact(u, n + 1)
      <4>1. ASSUME NEW y, NEW a \in 1..Len(u), u[a] = y
            PROVE  y \in S /\ \E k \in 1..(n + 1) : s[k] = y
        <5>1. CASE a = Len(t) + 1
          BY <2>6, <3>1, <4>1, <5>1 DEF x
        <5>2. CASE a # Len(t) + 1
          <6>1. a \in 1..Len(t) /\ t[a] = y
            BY <3>1, <4>1, <5>2
          <6>2. y \in S /\ \E k \in 1..n : s[k] = y
            BY <2>3, <6>1
          <6> QED
            BY <6>2
        <5> QED
          BY <5>1, <5>2
      <4>2. ASSUME NEW y \in S, NEW k \in 1..(n + 1), s[k] = y
            PROVE  \E a \in 1..Len(u) : u[a] = y
        <5>1. CASE k = n + 1
          <6>1. Len(t) + 1 \in 1..Len(u) /\ u[Len(t) + 1] = y
            BY <3>1, <4>2, <5>1 DEF x
          <6> QED
            BY <6>1
        <5>2. CASE k # n + 1
          <6>1. k \in 1..n
            BY <5>2
          <6>2. PICK a \in 1..Len(t) : t[a] = y
            BY <2>3, <4>2, <6>1
          <6>3. a \in 1..Len(u) /\ u[a] = y
            BY <3>1, <6>2
          <6> QED
            BY <6>3
        <5> QED
          BY <5>1, <5>2
      <4> QED
        BY <4>1, <4>2
    <3>3. Ordered(u, n + 1)
      <4> SUFFICES ASSUME NEW a \in 1..Len(u), NEW b \in 1..Len(u), a < b
                   PROVE  \E k, l \in 1..(n + 1) : k < l /\ u[a] = s[k] /\ u[b] = s[l]
        OBVIOUS
      <4>1. a \in 1..Len(t) /\ u[a] = t[a]
        BY <3>1
      <4>2. CASE b = Len(t) + 1
        <5>1. PICK k \in 1..n : s[k] = t[a]
          BY <2>3, <4>1
        <5> QED
          BY <3>1, <4>1, <4>2, <5>1 DEF x
      <4>3. CASE b # Len(t) + 1
        <5>1. b \in 1..Len(t) /\ u[b] = t[b]
          BY <3>1, <4>3
        <5>2. PICK k \in 1..n, l \in 1..n : k < l /\ t[a] = s[k] /\ t[b] = s[l]
          BY <2>3, <4>1, <5>1
        <5> QED
          BY <4>1, <5>1, <5>2
      <4> QED
        BY <4>2, <4>3
    <3> QED
      BY <3>2, <3>3 DEF u
  <2> HIDE DEF Exact, Ordered
  <2> QED
    BY <2>5, <2>6
<1>4. Exact(those[Len(s)], Len(s)) /\ Ordered(those[Len(s)], Len(s))
  <2> HIDE DEF Good
  <2>1. Nat \subseteq Good
    BY <1>2, <1>3, SetInduction
  <2> HIDE DEF Exact, Ordered
  <2> QED
    BY <1>0, <2>1 DEF Good
<1>5. those[Len(s)] \in Seq(R)
  BY <1>0, <1>1
<1> DEFINE t == those[Len(s)]
<1> HIDE DEF t
<1>6. Selects(t, s, S)
  BY <1>4 DEF Selects, t
<1> HIDE DEF Exact, Ordered, Good
<1> QED
  BY <1>1, <1>5, <1>6 DEF t

(* The entry that is healthier, or as healthy and listed before.           *)
Outranks(g, e, f) ==
  \/ HealthRank(g.health[e]) > HealthRank(g.health[f])
  \/ /\ HealthRank(g.health[e]) = HealthRank(g.health[f])
     /\ Position(g, e) < Position(g, f)

IsListedOnce(g) == \A i, j \in DOMAIN g.rows : g.rows[i] = g.rows[j] => i = j

(* ranked_candidates() returns the bootable entries, each once, by falling *)
(* rank and, within a rank, as they are listed.                            *)
LEMMA RankedIsOrdered ==
  ASSUME NEW g \in Graph, IsListedOnce(g)
  PROVE  /\ RankedCandidates(g) \in Seq(Entry)
         /\ \A e : (\E a \in 1..Len(RankedCandidates(g)) : RankedCandidates(g)[a] = e)
                     <=> e \in BootableEntries(g)
         /\ \A a, b \in 1..Len(RankedCandidates(g)) : a < b =>
              /\ Outranks(g, RankedCandidates(g)[a], RankedCandidates(g)[b])
              /\ RankedCandidates(g)[a] # RankedCandidates(g)[b]
<1> DEFINE H == {e \in Entry : g.health[e] = "Healthy"}
           D == {e \in Entry : g.health[e] = "Degraded"}
           rows == g.rows
           h == Those(rows, H)
           d == Those(rows, D)
           r == h \o d
<1>0. rows \in Seq(Entry) /\ DOMAIN rows = 1..Len(rows) /\ RankedCandidates(g) = r
  BY DEF Graph, RankedCandidates
<1>1. /\ h \in Seq(Entry)
      /\ \A e : (\E a \in 1..Len(h) : h[a] = e) <=> e \in H /\ \E k \in 1..Len(rows) : rows[k] = e
      /\ \A a, b \in 1..Len(h) : a < b =>
           \E k, l \in 1..Len(rows) : k < l /\ h[a] = rows[k] /\ h[b] = rows[l]
  <2>1. h \in Seq(Entry) /\ Selects(h, rows, H)
    <3> HIDE DEF H, rows
    <3> QED
      BY <1>0, SelectionIsOrdered
  <2> HIDE DEF H, rows, h
  <2> QED
    BY <2>1 DEF Selects
<1>2. /\ d \in Seq(Entry)
      /\ \A e : (\E a \in 1..Len(d) : d[a] = e) <=> e \in D /\ \E k \in 1..Len(rows) : rows[k] = e
      /\ \A a, b \in 1..Len(d) : a < b =>
           \E k, l \in 1..Len(rows) : k < l /\ d[a] = rows[k] /\ d[b] = rows[l]
  <2>1. d \in Seq(Entry) /\ Selects(d, rows, D)
    <3> HIDE DEF D, rows
    <3> QED
      BY <1>0, SelectionIsOrdered
  <2> HIDE DEF D, rows, d
  <2> QED
    BY <2>1 DEF Selects
<1>3. \A k \in 1..Len(rows) : Position(g, rows[k]) = k
  <2> TAKE k \in 1..Len(rows)
  <2>1. rows[k] \in Listed(g)
    BY <1>0 DEF Listed
  <2>2. Position(g, rows[k]) \in DOMAIN g.rows /\ g.rows[Position(g, rows[k])] = rows[k]
    BY <2>1, PositionOfListed
  <2> QED
    BY <1>0, <2>2 DEF IsListedOnce
<1>4. /\ \A e \in H : HealthRank(g.health[e]) = 3
      /\ \A e \in D : HealthRank(g.health[e]) = 2
  BY DEF HealthRank
<1>5. \A e : e \in BootableEntries(g) <=>
               (e \in H \/ e \in D) /\ \E k \in 1..Len(rows) : rows[k] = e
  <2> TAKE e
  <2>1. e \in Listed(g) <=> \E k \in 1..Len(rows) : rows[k] = e
    BY <1>0 DEF Listed
  <2>2. e \in Listed(g) => e \in Entry
    BY ListedIsEntry
  <2>3. e \in BootableEntries(g) <=>
          e \in Listed(g) /\ (g.health[e] = "Healthy" \/ g.health[e] = "Degraded")
    BY DEF BootableEntries, IsBootable
  <2> HIDE DEF h, d, r, rows
  <2> QED
    BY <2>1, <2>2, <2>3
<1>6. (\A a \in 1..Len(h) : h[a] \in H) /\ (\A a \in 1..Len(d) : d[a] \in D)
  BY <1>1, <1>2
<1>7. H \cap D = {}
  OBVIOUS
<1> HIDE DEF H, D, rows, h, d
<1>8. /\ r \in Seq(Entry) /\ Len(r) = Len(h) + Len(d) /\ Len(h) \in Nat /\ Len(d) \in Nat
      /\ \A a \in 1..Len(h) : r[a] = h[a]
      /\ \A a \in 1..Len(r) : a > Len(h) => a - Len(h) \in 1..Len(d) /\ r[a] = d[a - Len(h)]
      /\ \A a \in 1..Len(d) : a + Len(h) \in 1..Len(r) /\ r[a + Len(h)] = d[a]
  BY <1>1, <1>2
<1> HIDE DEF r
<1>9. ASSUME NEW e PROVE (\E a \in 1..Len(r) : r[a] = e) <=> e \in BootableEntries(g)
  <2>1. ASSUME NEW a \in 1..Len(r), r[a] = e PROVE e \in BootableEntries(g)
    <3>1. CASE a <= Len(h)
      <4>1. a \in 1..Len(h) /\ h[a] = e
        BY <1>8, <2>1, <3>1
      <4> QED
        BY <1>1, <1>5, <4>1
    <3>2. CASE a > Len(h)
      <4>1. a - Len(h) \in 1..Len(d) /\ d[a - Len(h)] = e
        BY <1>8, <2>1, <3>2
      <4> QED
        BY <1>2, <1>5, <4>1
    <3> QED
      BY <1>8, <3>1, <3>2
  <2>2. ASSUME e \in BootableEntries(g) PROVE \E a \in 1..Len(r) : r[a] = e
    <3>1. CASE e \in H
      <4>1. PICK a \in 1..Len(h) : h[a] = e
        BY <1>1, <1>5, <2>2, <3>1
      <4>2. a \in 1..Len(r) /\ r[a] = e
        BY <1>8, <4>1
      <4> QED
        BY <4>2
    <3>2. CASE e \in D
      <4>1. PICK a \in 1..Len(d) : d[a] = e
        BY <1>2, <1>5, <2>2, <3>2
      <4> QED
        BY <1>8, <4>1
    <3> QED
      BY <1>5, <2>2, <3>1, <3>2
  <2> QED
    BY <2>1, <2>2
<1>10. ASSUME NEW a \in 1..Len(r), NEW b \in 1..Len(r), a < b
       PROVE  Outranks(g, r[a], r[b]) /\ r[a] # r[b]
  <2>1. CASE b <= Len(h)
    <3>1. a \in 1..Len(h) /\ b \in 1..Len(h) /\ r[a] = h[a] /\ r[b] = h[b]
      BY <1>8, <1>10, <2>1
    <3>2. PICK k \in 1..Len(rows), l \in 1..Len(rows) : k < l /\ h[a] = rows[k] /\ h[b] = rows[l]
      BY <1>1, <1>10, <3>1
    <3>3. Position(g, r[a]) < Position(g, r[b])
      BY <1>3, <3>1, <3>2
    <3>4. HealthRank(g.health[r[a]]) = 3 /\ HealthRank(g.health[r[b]]) = 3
      BY <1>4, <1>6, <3>1
    <3>5. r[a] # r[b]
      BY <1>3, <3>1, <3>2
    <3> QED
      BY <3>3, <3>4, <3>5 DEF Outranks
  <2>2. CASE a <= Len(h) /\ b > Len(h)
    <3>1. r[a] \in H /\ r[b] \in D
      BY <1>6, <1>8, <2>2
    <3>2. HealthRank(g.health[r[a]]) = 3 /\ HealthRank(g.health[r[b]]) = 2
      BY <1>4, <3>1
    <3> QED
      BY <1>7, <3>1, <3>2 DEF Outranks
  <2>3. CASE a > Len(h)
    <3> DEFINE aa == a - Len(h)
               bb == b - Len(h)
    <3>1. aa \in 1..Len(d) /\ bb \in 1..Len(d) /\ r[a] = d[aa] /\ r[b] = d[bb] /\ aa < bb
      BY <1>8, <1>10, <2>3
    <3> HIDE DEF aa, bb
    <3>2. PICK k \in 1..Len(rows), l \in 1..Len(rows) : k < l /\ d[aa] = rows[k] /\ d[bb] = rows[l]
      BY <1>2, <3>1
    <3>3. Position(g, r[a]) < Position(g, r[b])
      BY <1>3, <3>1, <3>2
    <3>4. HealthRank(g.health[r[a]]) = 2 /\ HealthRank(g.health[r[b]]) = 2
      BY <1>4, <1>6, <3>1
    <3>5. r[a] # r[b]
      BY <1>3, <3>1, <3>2
    <3> QED
      BY <3>3, <3>4, <3>5 DEF Outranks
  <2> QED
    BY <1>8, <2>1, <2>2, <2>3
<1> QED
  BY <1>0, <1>8, <1>9, <1>10

(* The conjuncts of AttemptsAreExhaustive, for a graph and any entry that  *)
(* present() may return.                                                   *)
LEMMA AttemptListIsExhaustive ==
  ASSUME NEW g \in Graph, IsListedOnce(g), NEW chosen \in BootableEntries(g)
  PROVE  LET list == AttemptList(g, chosen)
         IN
         /\ list \in Seq(Entry) /\ list # <<>> /\ list[1] = chosen
         /\ ToSet(list) = BootableEntries(g)
         /\ \A i, j \in DOMAIN list :
              i < j => GoesBefore(g, list[1], list[i], list[j]) /\ list[i] # list[j]
<1> DEFINE r == RankedCandidates(g)
           rest == Those(r, Entry \ {chosen})
           list == AttemptList(g, chosen)
<1>1. /\ r \in Seq(Entry)
      /\ \A e : (\E a \in 1..Len(r) : r[a] = e) <=> e \in BootableEntries(g)
      /\ \A a, b \in 1..Len(r) : a < b => Outranks(g, r[a], r[b]) /\ r[a] # r[b]
  BY RankedIsOrdered
<1>2. list = <<chosen>> \o rest
  BY DEF AttemptList
<1> HIDE DEF r, list
<1>3. /\ rest \in Seq(Entry)
      /\ \A e : (\E a \in 1..Len(rest) : rest[a] = e)
                  <=> e \in Entry \ {chosen} /\ \E k \in 1..Len(r) : r[k] = e
      /\ \A a, b \in 1..Len(rest) : a < b =>
           \E k, l \in 1..Len(r) : k < l /\ rest[a] = r[k] /\ rest[b] = r[l]
  <2>1. rest \in Seq(Entry) /\ Selects(rest, r, Entry \ {chosen})
    BY <1>1, SelectionIsOrdered
  <2> HIDE DEF rest
  <2> QED
    BY <2>1 DEF Selects
<1> HIDE DEF rest
<1>4. chosen \in Entry /\ BootableEntries(g) \subseteq Entry
  BY ListedIsEntry
<1>5. /\ list \in Seq(Entry) /\ Len(list) = 1 + Len(rest) /\ Len(rest) \in Nat
      /\ list[1] = chosen
      /\ \A i \in 1..Len(list) : i # 1 => i - 1 \in 1..Len(rest) /\ list[i] = rest[i - 1]
      /\ \A i \in 1..Len(rest) : i + 1 \in 1..Len(list) /\ list[i + 1] = rest[i]
      /\ DOMAIN list = 1..Len(list)
  BY <1>2, <1>3, <1>4
<1>6. ToSet(list) = BootableEntries(g)
  <2>1. ASSUME NEW i \in 1..Len(list) PROVE list[i] \in BootableEntries(g)
    <3>1. CASE i = 1
      BY <1>5, <3>1
    <3>2. CASE i # 1
      <4>1. i - 1 \in 1..Len(rest) /\ list[i] = rest[i - 1]
        BY <1>5, <3>2
      <4> QED
        BY <1>1, <1>3, <4>1
    <3> QED
      BY <3>1, <3>2
  <2>2. ASSUME NEW e \in BootableEntries(g) PROVE \E i \in 1..Len(list) : list[i] = e
    <3>1. CASE e = chosen
      BY <1>5, <3>1
    <3>2. CASE e # chosen
      <4>1. PICK a \in 1..Len(rest) : rest[a] = e
        BY <1>1, <1>3, <1>4, <3>2
      <4> QED
        BY <1>5, <4>1
    <3> QED
      BY <3>1, <3>2
  <2>3. ToSet(list) = {list[i] : i \in 1..Len(list)}
    BY <1>5 DEF ToSet
  <2> QED
    BY <2>1, <2>2, <2>3
<1>7. ASSUME NEW i \in 1..Len(list), NEW j \in 1..Len(list), i < j
      PROVE  GoesBefore(g, chosen, list[i], list[j]) /\ list[i] # list[j]
  <2>1. j - 1 \in 1..Len(rest) /\ list[j] = rest[j - 1]
    BY <1>5, <1>7
  <2>2. list[j] # chosen
    BY <1>3, <2>1
  <2>3. CASE i = 1
    BY <1>5, <2>2, <2>3 DEF GoesBefore
  <2>4. CASE i # 1
    <3>1. i - 1 \in 1..Len(rest) /\ list[i] = rest[i - 1] /\ i - 1 < j - 1
      BY <1>5, <1>7, <2>4
    <3>2. PICK k \in 1..Len(r), l \in 1..Len(r) :
             k < l /\ rest[i - 1] = r[k] /\ rest[j - 1] = r[l]
      BY <1>3, <2>1, <3>1
    <3>3. Outranks(g, list[i], list[j]) /\ list[i] # list[j]
      BY <1>1, <2>1, <3>1, <3>2
    <3> QED
      BY <2>2, <3>3 DEF GoesBefore, Outranks
  <2> QED
    BY <2>3, <2>4
<1> QED
  BY <1>5, <1>6, <1>7 DEF list

(* pipeline.rs: the attempt list, taken from the front, is the choice that *)
(* BootCycle makes among the candidates that are left: at first they are   *)
(* the bootable entries, the entry at the front is the only one that is    *)
(* next among them, and without it they are the rest of the list.          *)
THEOREM AttemptsAreTakenInTurn ==
  ASSUME NEW g \in Graph, IsListedOnce(g), NEW chosen \in BootableEntries(g)
  PROVE  LET list    == AttemptList(g, chosen)
             Left(i) == {list[j] : j \in i..Len(list)}
         IN
         /\ Left(1) = {chosen} \cup BootableEntries(g)
         /\ \A i \in 1..Len(list) :
              /\ \A e : IsNextOf(g, chosen, Left(i), e) <=> e = list[i]
              /\ Left(i + 1) = Left(i) \ {list[i]}
         /\ Left(Len(list) + 1) = {}
<1> DEFINE list    == AttemptList(g, chosen)
           Left(i) == {list[j] : j \in i..Len(list)}
<1>1. /\ list \in Seq(Entry) /\ list[1] = chosen
      /\ ToSet(list) = BootableEntries(g)
      /\ \A i, j \in DOMAIN list :
           i < j => GoesBefore(g, chosen, list[i], list[j]) /\ list[i] # list[j]
  BY AttemptListIsExhaustive
<1> HIDE DEF list
<1>2. DOMAIN list = 1..Len(list) /\ Len(list) \in Nat
  BY <1>1
<1>3. Left(1) = {chosen} \cup BootableEntries(g)
  BY <1>1, <1>2 DEF ToSet
<1>4. Left(Len(list) + 1) = {}
  BY <1>2
<1>5. ASSUME NEW i \in 1..Len(list)
      PROVE  /\ \A e : IsNextOf(g, chosen, Left(i), e) <=> e = list[i]
             /\ Left(i + 1) = Left(i) \ {list[i]}
  <2>1. ASSUME NEW j \in i..Len(list)
        PROVE  j \in 1..Len(list) /\ (j = i \/ i < j)
    BY <1>2, <1>5
  <2>2. Left(i) \subseteq BootableEntries(g)
    BY <1>1, <1>2, <2>1 DEF ToSet
  <2>3. i \in i..Len(list)
    BY <1>2, <1>5
  <2>4. IsNextOf(g, chosen, Left(i), list[i])
    BY <1>1, <1>2, <2>1, <2>3 DEF IsNextOf
  <2>5. Left(i + 1) \subseteq Left(i) \ {list[i]}
    <3> SUFFICES ASSUME NEW j \in (i + 1)..Len(list)
                 PROVE  list[j] \in Left(i) /\ list[j] # list[i]
      OBVIOUS
    <3>1. j \in i..Len(list) /\ i < j
      BY <1>2, <1>5
    <3> QED
      BY <1>1, <1>2, <2>1, <3>1
  <2>6. Left(i) \ {list[i]} \subseteq Left(i + 1)
    <3> SUFFICES ASSUME NEW j \in i..Len(list), list[j] # list[i]
                 PROVE  list[j] \in Left(i + 1)
      OBVIOUS
    <3>1. j \in (i + 1)..Len(list)
      BY <1>2, <1>5
    <3> QED
      BY <3>1
  <2> HIDE DEF Left
  <2>7. \A e : IsNextOf(g, chosen, Left(i), e) => e = list[i]
    BY <2>2, <2>4, NextIsUnique
  <2> QED
    BY <2>4, <2>5, <2>6, <2>7
<1> QED
  BY <1>3, <1>4, <1>5 DEF list

-----------------------------------------------------------------------------
(* The configuration file.                                                 *)

(* The least of some numbers, and the greatest of finitely many, as the    *)
(* definitions over a file use them.                                       *)
LEMMA MinIsLeast ==
  ASSUME NEW T, T \subseteq Nat, T # {}
  PROVE  Min(T) \in T /\ \A x \in T : Min(T) <= x
<1>1. PICK i \in T : \A j \in T : ~(j < i)
  BY FirstPosition
<1>2. \A j \in T : i <= j
  BY <1>1
<1> QED
  BY <1>1, <1>2 DEF Min

(* The greatest of a set of numbers is its member that none exceeds.       *)
LEMMA MaxIsGreatest ==
  ASSUME NEW T, T \subseteq Nat, NEW m \in T, \A x \in T : m >= x
  PROVE  Max(T) = m
<1> DEFINE t == CHOOSE x \in T : \A y \in T : x >= y
<1>1. Max(T) = t
  BY DEF Max
<1>2. t \in T /\ \A y \in T : t >= y
  OBVIOUS
<1> HIDE DEF t
<1>3. t \in Nat /\ m \in Nat /\ t >= m /\ m >= t
  BY <1>2
<1> QED
  BY <1>1, <1>3

(* The header that a line stands under is a line above it, or none.        *)
LEMMA HeaderStep ==
  ASSUME NEW R, NEW f \in Seq(R)
  PROVE  /\ HeaderOf(f, 1) = 0
         /\ \A i \in 1..Len(f) :
              /\ HeaderOf(f, i) \in 0..(i - 1)
              /\ HeaderOf(f, i + 1) = IF f[i].kind = "table" THEN i ELSE HeaderOf(f, i)
<1> DEFINE T(i) == {0} \cup {j \in 1..(i - 1) : f[j].kind = "table"}
<1> DEFINE Good == {n \in Nat : n <= Len(f) =>
                      HeaderOf(f, n + 1) \in T(n + 1)
                        /\ \A x \in T(n + 1) : HeaderOf(f, n + 1) >= x}
<1>0. Len(f) \in Nat
  OBVIOUS
<1>1. \A i : HeaderOf(f, i) = Max(T(i))
  BY DEF HeaderOf
<1>2. \A i \in Nat : T(i) \subseteq Nat
  OBVIOUS
<1>3. T(1) = {0}
  OBVIOUS
<1>4. \A i \in Nat \ {0} : \A x :
        x \in T(i + 1) <=> x \in T(i) \/ (x = i /\ f[i].kind = "table")
  OBVIOUS
<1>5. \A i \in Nat : \A x \in T(i) : x = 0 \/ x < i
  OBVIOUS
<1> HIDE DEF T
<1>6. HeaderOf(f, 1) = 0
  BY <1>1, <1>2, <1>3, MaxIsGreatest
<1>7. 0 \in Good
  BY <1>3, <1>6
<1>8. ASSUME NEW i \in 1..Len(f), HeaderOf(f, i) \in T(i), \A x \in T(i) : HeaderOf(f, i) >= x
      PROVE  /\ HeaderOf(f, i + 1) = IF f[i].kind = "table" THEN i ELSE HeaderOf(f, i)
             /\ HeaderOf(f, i + 1) \in T(i + 1)
             /\ \A x \in T(i + 1) : HeaderOf(f, i + 1) >= x
  <2> DEFINE m == IF f[i].kind = "table" THEN i ELSE HeaderOf(f, i)
  <2>1. m \in T(i + 1) /\ \A x \in T(i + 1) : m >= x
    <3>1. CASE f[i].kind = "table"
      <4>0. i \in Nat \ {0} /\ m = i
        BY <1>0, <3>1
      <4>1. i \in T(i + 1)
        BY <1>4, <3>1, <4>0
      <4>2. \A x \in T(i + 1) : x \in T(i) \/ x = i
        BY <1>0, <1>4
      <4>3. \A x \in T(i) : i >= x
        BY <1>2, <1>5, <4>0
      <4> HIDE DEF m
      <4> QED
        BY <4>0, <4>1, <4>2, <4>3
    <3>2. CASE f[i].kind # "table"
      BY <1>0, <1>4, <1>8, <3>2
    <3> QED
      BY <3>1, <3>2
  <2> HIDE DEF m
  <2>2. Max(T(i + 1)) = m
    BY <1>2, <2>1, MaxIsGreatest
  <2> QED
    BY <1>1, <2>1, <2>2 DEF m
<1>9. ASSUME NEW n \in Nat, n \in Good PROVE n + 1 \in Good
  <2>1. SUFFICES ASSUME n + 1 <= Len(f)
                 PROVE  /\ HeaderOf(f, n + 1 + 1) \in T(n + 1 + 1)
                        /\ \A x \in T(n + 1 + 1) : HeaderOf(f, n + 1 + 1) >= x
    OBVIOUS
  <2>2. n + 1 \in 1..Len(f) /\ HeaderOf(f, n + 1) \in T(n + 1)
          /\ \A x \in T(n + 1) : HeaderOf(f, n + 1) >= x
    BY <1>0, <1>9, <2>1
  <2> QED
    BY <1>8, <2>2
<1>10. ASSUME NEW i \in 1..Len(f)
       PROVE  HeaderOf(f, i) \in T(i) /\ \A x \in T(i) : HeaderOf(f, i) >= x
  <2> HIDE DEF Good
  <2>1. i - 1 \in Good /\ i - 1 + 1 = i /\ i - 1 <= Len(f)
    <3>1. Nat \subseteq Good
      BY <1>7, <1>9, SetInduction
    <3> QED
      BY <3>1
  <2> QED
    BY <2>1 DEF Good
<1>11. ASSUME NEW i \in 1..Len(f) PROVE HeaderOf(f, i) \in 0..(i - 1)
  <2>1. HeaderOf(f, i) \in Nat /\ (HeaderOf(f, i) = 0 \/ HeaderOf(f, i) < i)
    BY <1>2, <1>5, <1>10
  <2> QED
    BY <2>1
<1> QED
  BY <1>6, <1>8, <1>10, <1>11

(* What appending to a list does.                                          *)
LEMMA Appended ==
  ASSUME NEW S, NEW s \in Seq(S), NEW x \in S
  PROVE  /\ Append(s, x) \in Seq(S) /\ Len(Append(s, x)) = Len(s) + 1
         /\ Append(s, x)[Len(s) + 1] = x
         /\ \A k \in 1..Len(s) : Append(s, x)[k] = s[k]
OBVIOUS

(* Documents of lines of R, and what a line makes of one.                  *)
Section(R) == [name : {""} \cup {line.name : line \in R}, pairs : Seq(R)]
Doc(R) == {doc \in Seq(Section(R)) : Len(doc) # 0}
RootDoc == <<[name |-> "", pairs |-> <<>>]>>

(* A line of a document makes a document again: a header adds a section, a *)
(* pair goes to the section opened last, and all else stays.               *)
LEMMA LineIsAdded ==
  ASSUME NEW R, NEW doc \in Doc(R), NEW line \in R
  PROVE  /\ AddLine(doc, line) \in Doc(R)
         /\ line.kind = "table" =>
              /\ Len(AddLine(doc, line)) = Len(doc) + 1
              /\ AddLine(doc, line)[Len(doc) + 1] = [name |-> line.name, pairs |-> <<>>]
              /\ \A k \in 1..Len(doc) : AddLine(doc, line)[k] = doc[k]
         /\ line.kind # "table" =>
              /\ Len(AddLine(doc, line)) = Len(doc)
              /\ \A k \in 1..Len(doc) :
                   /\ AddLine(doc, line)[k].name = doc[k].name
                   /\ AddLine(doc, line)[k].pairs =
                        IF k = Len(doc) THEN Append(doc[k].pairs, line) ELSE doc[k].pairs
<1> DEFINE n == Len(doc)
           new == [name |-> line.name, pairs |-> <<>>]
<1>1. doc \in Seq(Section(R)) /\ n \in Nat \ {0} /\ n \in 1..n /\ doc[n] \in Section(R)
  BY DEF Doc
<1>2. CASE line.kind = "table"
  <2>1. AddLine(doc, line) = Append(doc, new)
    BY <1>2 DEF AddLine
  <2>2. new \in Section(R)
    <3>1. line.name \in {x.name : x \in R} /\ <<>> \in Seq(R)
      OBVIOUS
    <3> QED
      BY <3>1 DEF Section
  <2> HIDE DEF new
  <2>3. doc \in Seq(Section(R))
    BY <1>1
  <2>4. /\ Append(doc, new) \in Seq(Section(R)) /\ Len(Append(doc, new)) = n + 1
        /\ Append(doc, new)[n + 1] = new
        /\ \A k \in 1..n : Append(doc, new)[k] = doc[k]
    BY <2>2, <2>3, Appended, SMTT(30)
  <2> QED
    <3>1. Append(doc, new) \in Doc(R)
      <4> HIDE DEF n
      <4>1. n + 1 # 0 /\ Len(Append(doc, new)) = n + 1
        BY <1>1, <2>4
      <4> QED
        BY <2>4, <4>1 DEF Doc
    <3> QED
      BY <1>2, <2>1, <2>4, <3>1 DEF new
<1>3. CASE line.kind # "table"
  <2> DEFINE last == [doc[n] EXCEPT !.pairs = Append(@, line)]
  <2>1. AddLine(doc, line) = [doc EXCEPT ![n] = last]
    BY <1>3 DEF AddLine
  <2>2. last \in Section(R) /\ last.name = doc[n].name /\ last.pairs = Append(doc[n].pairs, line)
    <3> DEFINE pairs == Append(doc[n].pairs, line)
    <3>1. doc[n].pairs \in Seq(R)
      BY <1>1 DEF Section
    <3>2. pairs \in Seq(R)
      BY <3>1
    <3>3. last = [doc[n] EXCEPT !.pairs = pairs]
      OBVIOUS
    <3> HIDE DEF pairs, last
    <3>4. last \in Section(R) /\ last.name = doc[n].name /\ last.pairs = pairs
      BY <1>1, <3>2, <3>3 DEF Section
    <3> QED
      BY <3>4 DEF pairs
  <2> HIDE DEF last
  <2>3. /\ [doc EXCEPT ![n] = last] \in Seq(Section(R))
        /\ Len([doc EXCEPT ![n] = last]) = n
        /\ \A k \in 1..n : [doc EXCEPT ![n] = last][k] = IF k = n THEN last ELSE doc[k]
    BY <1>1, <2>2
  <2> QED
    BY <1>1, <1>3, <2>1, <2>2, <2>3 DEF Doc
<1> QED
  BY <1>2, <1>3

(* The documents that parse() goes through, line by line.                  *)
IsParse(docs, f) ==
  /\ docs[0] = RootDoc
  /\ \A i \in 1..Len(f) : docs[i] = AddLine(docs[i - 1], f[i])

(* parse() has such documents, and the last of them is what it returns.    *)
LEMMA ParseLoop ==
  ASSUME NEW R, NEW f \in Seq(R)
  PROVE  \E docs \in [0..Len(f) -> Doc(R)] : IsParse(docs, f) /\ Document(f) = docs[Len(f)]
<1> DEFINE body == [i \in 1..Len(f) |-> [doc \in Doc(R) |-> AddLine(doc, f[i])]]
<1>0. Len(f) \in Nat
  OBVIOUS
<1>1. \A doc \in Doc(R), i \in 1..Len(f) : AddLine(doc, f[i]) \in Doc(R)
  <2> TAKE doc \in Doc(R), i \in 1..Len(f)
  <2>1. f[i] \in R
    OBVIOUS
  <2> QED
    BY <2>1, LineIsAdded
<1>2. RootDoc \in Doc(R)
  <2> DEFINE root == [name |-> "", pairs |-> <<>>]
  <2>1. root \in Section(R)
    <3>1. <<>> \in Seq(R)
      OBVIOUS
    <3> QED
      BY <3>1 DEF Section
  <2>2. RootDoc = <<root>>
    BY DEF RootDoc
  <2> HIDE DEF root
  <2> QED
    BY <2>1, <2>2 DEF Doc
<1>3. body \in Bodies(Len(f), Doc(R))
  BY <1>1 DEF Bodies
<1>4. PICK run \in [0..Len(f) -> Doc(R)] : IsParse(run, f)
  <2>1. PICK run : IsRun(run, Len(f), Doc(R), RootDoc, body)
    <3> HIDE DEF body
    <3> QED
      BY <1>0, <1>2, <1>3, LoopRuns
  <2>2. ASSUME NEW i \in 1..Len(f) PROVE run[i] = AddLine(run[i - 1], f[i])
    <3>1. run[i - 1] \in Doc(R) /\ run[i] = body[i][run[i - 1]]
      <4> HIDE DEF body
      <4> QED
        BY <1>0, <2>1 DEF IsRun
    <3> QED
      BY <3>1
  <2>3. run \in [0..Len(f) -> Doc(R)] /\ run[0] = RootDoc
    <3> HIDE DEF body
    <3> QED
      BY <2>1 DEF IsRun
  <2> QED
    BY <2>2, <2>3 DEF IsParse
<1> DEFINE Loop(h) ==
      [i \in 0..Len(f) |-> IF i = 0 THEN RootDoc ELSE AddLine(h[i - 1], f[i])]
<1> DEFINE loop == CHOOSE h : h = Loop(h)
<1>5. run = Loop(run)
  <2>1. \A i \in 0..Len(f) :
          run[i] = IF i = 0 THEN RootDoc ELSE AddLine(run[i - 1], f[i])
    BY <1>0, <1>4 DEF IsParse
  <2> QED
    BY <1>4, <2>1
<1>6. loop = Loop(loop)
  <2> HIDE DEF Loop
  <2> QED
    BY <1>5
<1>7. Document(f) = loop[Len(f)]
  BY DEF Document, RootDoc
<1> HIDE DEF loop
<1>8. loop[0] = RootDoc /\ \A i \in 1..Len(f) : loop[i] = AddLine(loop[i - 1], f[i])
  BY <1>0, <1>6
<1> DEFINE Typed == {n \in Nat : n <= Len(f) => loop[n] \in Doc(R)}
<1>9. 0 \in Typed
  BY <1>2, <1>8
<1>10. ASSUME NEW n \in Nat, n \in Typed PROVE n + 1 \in Typed
  <2>1. SUFFICES ASSUME n + 1 <= Len(f) PROVE loop[n + 1] \in Doc(R)
    OBVIOUS
  <2>2. n + 1 \in 1..Len(f) /\ n + 1 - 1 = n /\ loop[n] \in Doc(R)
    BY <1>0, <1>10, <2>1
  <2> QED
    BY <1>1, <1>8, <2>2
<1>11. \A n \in 0..Len(f) : loop[n] \in Doc(R)
  <2> HIDE DEF Typed
  <2>1. Nat \subseteq Typed
    BY <1>9, <1>10, SetInduction
  <2> QED
    BY <1>0, <2>1 DEF Typed
<1>12. loop \in [0..Len(f) -> Doc(R)]
  BY <1>6, <1>11
<1> QED
  BY <1>7, <1>8, <1>12 DEF IsParse

(* A search by name, in a document or in a section.                        *)
NoneNamed(list, name) == \A k \in 1..Len(list) : list[k].name # name

FirstNamed(list, name, k) ==
  /\ k \in 1..Len(list)
  /\ list[k].name = name
  /\ \A j \in 1..(k - 1) : list[j].name # name

(* The search of toml.rs for a name, in tables or in pairs, returns the    *)
(* first with the name, and 0 for want of one.                             *)
LEMMA SearchByName ==
  ASSUME NEW list, Len(list) \in Nat, NEW name
  PROVE  /\ NoneNamed(list, name) => SelectInSeq(list, LAMBDA t : t.name = name) = 0
         /\ \A k : FirstNamed(list, name, k) =>
                     SelectInSeq(list, LAMBDA t : t.name = name) = k
<1> DEFINE I == {i \in 1..Len(list) : list[i].name = name}
<1>1. SelectInSeq(list, LAMBDA t : t.name = name) = IF I # {} THEN Min(I) ELSE 0
  BY DEF SelectInSeq
<1>2. ASSUME NEW k, FirstNamed(list, name, k) PROVE I # {} /\ Min(I) = k
  <2>1. k \in I /\ I \subseteq Nat
    BY <1>2 DEF FirstNamed
  <2>2. Min(I) \in I /\ \A x \in I : Min(I) <= x
    <3> HIDE DEF I
    <3> QED
      BY <2>1, MinIsLeast
  <2>3. Min(I) <= k /\ Min(I) \in 1..Len(list) /\ list[Min(I)].name = name
    BY <2>1, <2>2
  <2> HIDE DEF I
  <2>4. ~(Min(I) < k)
    BY <1>2, <2>3 DEF FirstNamed
  <2> QED
    BY <1>2, <2>1, <2>3, <2>4 DEF FirstNamed
<1> QED
  BY <1>1, <1>2 DEF NoneNamed

(* The section for a name in the first n lines of a file: the position of  *)
(* its header, 0 for the root, in a set that is empty if there is none.    *)
HomeIn(f, n, name) ==
  LET headers == {j \in 1..n : f[j].kind = "table" /\ f[j].name = name}
  IN IF name = "" THEN {0} ELSE IF headers = {} THEN {} ELSE {Min(headers)}

(* Before the first line only the root table has been opened.              *)
LEMMA HomeStart ==
  ASSUME NEW f, NEW name
  PROVE  HomeIn(f, 0, name) = IF name = "" THEN {0} ELSE {}
<1>1. 1..0 = {}
  OBVIOUS
<1> QED
  BY <1>1 DEF HomeIn

(* A line gives a name its table only if it is the name's first header.    *)
LEMMA HomeStep ==
  ASSUME NEW R, NEW f \in Seq(R), NEW name
  PROVE  /\ \A n \in 0..Len(f) : \A h \in HomeIn(f, n, name) : h \in 0..n
         /\ \A n \in 0..(Len(f) - 1) :
              HomeIn(f, n + 1, name) =
                IF /\ HomeIn(f, n, name) = {}
                   /\ f[n + 1].kind = "table" /\ f[n + 1].name = name
                THEN {n + 1} ELSE HomeIn(f, n, name)
<1> DEFINE H(n) == {j \in 1..n : f[j].kind = "table" /\ f[j].name = name}
<1>0. Len(f) \in Nat
  OBVIOUS
<1>1. \A n : HomeIn(f, n, name) =
               IF name = "" THEN {0} ELSE IF H(n) = {} THEN {} ELSE {Min(H(n))}
  BY DEF HomeIn
<1>2. \A n \in Nat : H(n) \subseteq Nat /\ \A j \in H(n) : j \in 1..n
  OBVIOUS
<1>3. ASSUME NEW n \in Nat
      PROVE  \A x : x \in H(n + 1) <=>
                      x \in H(n) \/ /\ x = n + 1
                                    /\ f[n + 1].kind = "table" /\ f[n + 1].name = name
  OBVIOUS
<1> HIDE DEF H
<1>4. ASSUME NEW n \in Nat, H(n) # {} PROVE Min(H(n)) \in H(n) /\ \A x \in H(n) : Min(H(n)) <= x
  BY <1>2, <1>4, MinIsLeast
<1>5. ASSUME NEW n \in 0..Len(f), NEW h \in HomeIn(f, n, name) PROVE h \in 0..n
  <2>0. n \in Nat
    BY <1>0
  <2>1. CASE name = ""
    <3>1. HomeIn(f, n, name) = {0}
      BY <1>1, <2>1
    <3> QED
      BY <2>0, <3>1
  <2>2. CASE name # ""
    <3>1. H(n) # {} /\ h = Min(H(n))
      BY <1>1, <1>5, <2>2
    <3>2. h \in 1..n
      BY <1>2, <1>4, <2>0, <3>1
    <3> QED
      BY <2>0, <3>2
  <2> QED
    BY <2>1, <2>2
<1>6. ASSUME NEW n \in Nat, H(n) # {} PROVE H(n + 1) # {} /\ Min(H(n + 1)) = Min(H(n))
  <2>1. Min(H(n)) \in H(n) /\ \A x \in H(n) : Min(H(n)) <= x
    BY <1>4, <1>6
  <2>2. Min(H(n)) \in H(n + 1)
    BY <1>3, <2>1
  <2>3. Min(H(n + 1)) \in H(n + 1) /\ \A x \in H(n + 1) : Min(H(n + 1)) <= x
    BY <1>4, <2>2
  <2>4. Min(H(n)) \in 1..n /\ Min(H(n + 1)) <= Min(H(n)) /\ Min(H(n + 1)) \in Nat
    BY <1>2, <2>1, <2>2, <2>3
  <2>5. Min(H(n + 1)) \in H(n)
    BY <1>3, <2>3, <2>4
  <2> QED
    BY <2>1, <2>2, <2>4, <2>5
<1>7. ASSUME NEW n \in Nat, H(n) = {}
      PROVE  IF f[n + 1].kind = "table" /\ f[n + 1].name = name
             THEN H(n + 1) # {} /\ Min(H(n + 1)) = n + 1
             ELSE H(n + 1) = {}
  <2>1. CASE f[n + 1].kind = "table" /\ f[n + 1].name = name
    <3>1. n + 1 \in H(n + 1) /\ \A x \in H(n + 1) : x = n + 1
      BY <1>3, <1>7, <2>1
    <3>2. Min(H(n + 1)) \in H(n + 1)
      BY <1>4, <3>1
    <3> QED
      BY <2>1, <3>1, <3>2
  <2>2. CASE ~(f[n + 1].kind = "table" /\ f[n + 1].name = name)
    BY <1>3, <1>7, <2>2
  <2> QED
    BY <2>1, <2>2
<1>8. ASSUME NEW n \in 0..(Len(f) - 1)
      PROVE  HomeIn(f, n + 1, name) =
               IF /\ HomeIn(f, n, name) = {}
                  /\ f[n + 1].kind = "table" /\ f[n + 1].name = name
               THEN {n + 1} ELSE HomeIn(f, n, name)
  <2>0. n \in Nat
    BY <1>0
  <2>1. CASE name = ""
    BY <1>1, <2>1
  <2>2. CASE name # "" /\ H(n) # {}
    <3>1. HomeIn(f, n, name) = {Min(H(n))} /\ HomeIn(f, n + 1, name) = {Min(H(n))}
      BY <1>1, <1>6, <2>0, <2>2
    <3> QED
      BY <3>1
  <2>3. CASE name # "" /\ H(n) = {}
    BY <1>1, <1>7, <2>0, <2>3
  <2> QED
    BY <2>1, <2>2, <2>3
<1> QED
  BY <1>5, <1>8

(* The lines of a section for a key, and the value a search for it finds.  *)
LinesIn(f, n, home, key) ==
  {i \in 1..n : f[i].kind = "pair" /\ f[i].name = key /\ HeaderOf(f, i) \in home}

Finds(pairs, key, lines, f) ==
  IF lines = {} THEN NoneNamed(pairs, key)
  ELSE \E k : FirstNamed(pairs, key, k) /\ pairs[k].value = f[Min(lines)].value

(* A pair more: the first one with the key stays the first.                *)
LEMMA FindsStep ==
  ASSUME NEW R, NEW f \in Seq(R), NEW n \in 0..(Len(f) - 1), NEW key,
         NEW pairs \in Seq(R), NEW lines, lines \subseteq 1..n,
         Finds(pairs, key, lines, f)
  PROVE  IF f[n + 1].name = key
         THEN Finds(Append(pairs, f[n + 1]), key, lines \cup {n + 1}, f)
         ELSE Finds(Append(pairs, f[n + 1]), key, lines, f)
<1> DEFINE line == f[n + 1]
           more == Append(pairs, line)
<1>0. Len(f) \in Nat /\ n \in Nat /\ n + 1 \in 1..Len(f) /\ line \in R
  OBVIOUS
<1>1. /\ Len(pairs) \in Nat /\ Len(more) = Len(pairs) + 1
      /\ more[Len(pairs) + 1] = line
      /\ \A k \in 1..Len(pairs) : more[k] = pairs[k]
  BY <1>0
<1> HIDE DEF line, more
<1>2. CASE lines # {}
  <2>1. PICK k : FirstNamed(pairs, key, k) /\ pairs[k].value = f[Min(lines)].value
    BY <1>2 DEF Finds
  <2>2. FirstNamed(more, key, k) /\ more[k].value = f[Min(lines)].value
    <3>1. k \in 1..Len(pairs) /\ k \in 1..Len(more) /\ more[k] = pairs[k]
      BY <1>1, <2>1 DEF FirstNamed
    <3>2. \A j \in 1..(k - 1) : j \in 1..Len(pairs)
      BY <1>1, <3>1
    <3> QED
      BY <1>1, <2>1, <3>1, <3>2 DEF FirstNamed
  <2>3. Min(lines \cup {n + 1}) = Min(lines)
    <3>1. lines \subseteq Nat /\ lines \cup {n + 1} \subseteq Nat
      BY <1>0
    <3>2. Min(lines) \in lines /\ \A x \in lines : Min(lines) <= x
      BY <1>2, <3>1, MinIsLeast
    <3> DEFINE m == Min(lines \cup {n + 1})
    <3>3. m \in lines \cup {n + 1} /\ \A x \in lines \cup {n + 1} : m <= x
      BY <3>1, MinIsLeast
    <3> HIDE DEF m
    <3>4. m <= Min(lines) /\ Min(lines) \in 1..n
      BY <3>2, <3>3
    <3>5. m \in lines
      BY <1>0, <3>3, <3>4
    <3>6. m = Min(lines)
      BY <1>0, <3>1, <3>2, <3>4, <3>5
    <3> QED
      BY <3>6 DEF m
  <2>4. Finds(more, key, lines, f)
    BY <1>2, <2>2 DEF Finds
  <2>5. Finds(more, key, lines \cup {n + 1}, f)
    BY <1>2, <2>2, <2>3 DEF Finds
  <2> QED
    BY <2>4, <2>5 DEF line, more
<1>3. CASE lines = {} /\ line.name = key
  <2>1. NoneNamed(pairs, key)
    BY <1>3 DEF Finds
  <2>2. FirstNamed(more, key, Len(pairs) + 1)
    BY <1>1, <1>3, <2>1 DEF NoneNamed, FirstNamed
  <2>3. Min({n + 1}) = n + 1
    <3>1. {n + 1} \subseteq Nat /\ {n + 1} # {}
      BY <1>0
    <3> QED
      BY <3>1, MinIsLeast
  <2>4. lines \cup {n + 1} = {n + 1} /\ lines \cup {n + 1} # {}
    BY <1>3
  <2>5. more[Len(pairs) + 1].value = f[Min({n + 1})].value
    BY <1>1, <2>3 DEF line
  <2>6. Finds(more, key, {n + 1}, f)
    BY <2>2, <2>5 DEF Finds
  <2> QED
    BY <1>3, <2>4, <2>6 DEF line, more
<1>4. CASE lines = {} /\ line.name # key
  <2>1. NoneNamed(pairs, key)
    BY <1>4 DEF Finds
  <2>2. NoneNamed(more, key)
    BY <1>1, <1>4, <2>1 DEF NoneNamed
  <2> QED
    BY <1>4, <2>2 DEF Finds, line, more
<1> QED
  BY <1>2, <1>3, <1>4

(* A document of the first n lines answers as those lines are written: its *)
(* first section with the name is the one whose header comes first, it is  *)
(* the last section while lines still belong to it, and a search in it     *)
(* finds the first of its lines with the key.                              *)
Reads(f, n, doc, name, key) ==
  IF HomeIn(f, n, name) = {} THEN NoneNamed(doc, name)
  ELSE \E k :
         /\ FirstNamed(doc, name, k)
         /\ k = Len(doc) <=> HeaderOf(f, n + 1) \in HomeIn(f, n, name)
         /\ Finds(doc[k].pairs, key, LinesIn(f, n, HomeIn(f, n, name), key), f)

(* The empty document reads as a file without lines does.                  *)
LEMMA RootReads ==
  ASSUME NEW R, NEW f \in Seq(R), NEW name, NEW key
  PROVE  Reads(f, 0, RootDoc, name, key)
<1>1. Len(RootDoc) = 1
  BY DEF RootDoc
<1>2. RootDoc[1].name = ""
  BY DEF RootDoc
<1>3. RootDoc[1].pairs = <<>>
  BY DEF RootDoc
<1>4. HeaderOf(f, 0 + 1) = 0
  BY HeaderStep
<1>5. HomeIn(f, 0, name) = IF name = "" THEN {0} ELSE {}
  BY HomeStart
<1>6. CASE name = ""
  <2>1. LinesIn(f, 0, {0}, key) = {}
    BY DEF LinesIn
  <2>2. Finds(<<>>, key, {}, f)
    BY DEF Finds, NoneNamed
  <2>3. FirstNamed(RootDoc, name, 1)
    <3>1. 1 \in 1..Len(RootDoc)
      BY <1>1
    <3>2. RootDoc[1].name = name
      BY <1>2, <1>6
    <3>3. 1..(1 - 1) = {}
      OBVIOUS
    <3> QED
      BY <3>1, <3>2, <3>3 DEF FirstNamed
  <2>4. HomeIn(f, 0, name) = {0}
    BY <1>5, <1>6
  <2> QED
    BY <1>1, <1>3, <1>4, <2>1, <2>2, <2>3, <2>4 DEF Reads
<1>7. CASE name # ""
  <2>1. HomeIn(f, 0, name) = {}
    BY <1>5, <1>7
  <2>2. \A k \in 1..Len(RootDoc) : k = 1
    BY <1>1
  <2>3. NoneNamed(RootDoc, name)
    BY <1>2, <1>7, <2>2 DEF NoneNamed
  <2> QED
    BY <2>1, <2>3 DEF Reads
<1> QED
  BY <1>6, <1>7

(* What is read of the document after one more line is what is written up  *)
(* to that line.                                                           *)
LEMMA ReadsStep ==
  ASSUME NEW R, NEW f \in Seq(R), WellFormed(f), NEW n \in 0..(Len(f) - 1),
         NEW doc \in Doc(R), NEW name, NEW key, Reads(f, n, doc, name, key)
  PROVE  Reads(f, n + 1, AddLine(doc, f[n + 1]), name, key)
<1> DEFINE line == f[n + 1]
           new  == AddLine(doc, line)
           last == Len(doc)
           home == HomeIn(f, n, name)
           lines == LinesIn(f, n, home, key)
           under == HeaderOf(f, n + 1)
<1>0. /\ Len(f) \in Nat /\ n \in Nat /\ n + 1 \in 1..Len(f) /\ n \in 0..Len(f)
      /\ line \in R /\ last \in Nat /\ line.kind \in {"pair", "table"}
  <2>1. n + 1 \in DOMAIN f
    OBVIOUS
  <2> QED
    BY <2>1 DEF Doc, WellFormed
<1>1. under \in 0..n /\ HeaderOf(f, n + 1 + 1) = IF line.kind = "table" THEN n + 1 ELSE under
  <2>1. HeaderOf(f, n + 1) \in 0..(n + 1 - 1)
    BY <1>0, HeaderStep
  <2> QED
    BY <1>0, <2>1, HeaderStep
<1>2. \A h \in home : h \in 0..n
  BY <1>0, HomeStep
<1>3. HomeIn(f, n + 1, name) =
        IF home = {} /\ line.kind = "table" /\ line.name = name THEN {n + 1} ELSE home
  <2>1. \A m \in 0..(Len(f) - 1) :
          HomeIn(f, m + 1, name) =
            IF HomeIn(f, m, name) = {} /\ f[m + 1].kind = "table" /\ f[m + 1].name = name
            THEN {m + 1} ELSE HomeIn(f, m, name)
    BY HomeStep
  <2> QED
    BY <2>1
<1>4. \A S : \A x : x \in LinesIn(f, n + 1, S, key) <=>
        \/ x \in LinesIn(f, n, S, key)
        \/ x = n + 1 /\ line.kind = "pair" /\ line.name = key /\ under \in S
  BY <1>0 DEF LinesIn
<1>5. /\ line.kind = "table" =>
           /\ Len(new) = last + 1
           /\ new[last + 1] = [name |-> line.name, pairs |-> <<>>]
           /\ \A k \in 1..last : new[k] = doc[k]
      /\ line.kind # "table" =>
           /\ Len(new) = last
           /\ \A k \in 1..last :
                /\ new[k].name = doc[k].name
                /\ new[k].pairs =
                     IF k = last THEN Append(doc[k].pairs, line) ELSE doc[k].pairs
  BY <1>0, LineIsAdded
<1>6. /\ home = {} => NoneNamed(doc, name)
      /\ home # {} => \E k : /\ FirstNamed(doc, name, k)
                             /\ k = last <=> under \in home
                             /\ Finds(doc[k].pairs, key, lines, f)
  BY DEF Reads
<1> HIDE DEF line, new, last, home, lines, under
<1>7. CASE line.kind = "table" /\ home # {}
  <2>1. PICK k : /\ FirstNamed(doc, name, k)
                 /\ Finds(doc[k].pairs, key, lines, f)
    BY <1>6, <1>7
  <2>2. HomeIn(f, n + 1, name) = home
    BY <1>3, <1>7
  <2>3. LinesIn(f, n + 1, home, key) = lines
    <3>1. \A x : x \in LinesIn(f, n + 1, home, key) <=> x \in lines
      BY <1>4, <1>7 DEF lines
    <3> HIDE DEF home
    <3> QED
      BY <3>1
  <2>4. k \in 1..last /\ new[k] = doc[k] /\ k # Len(new)
    BY <1>0, <1>5, <1>7, <2>1 DEF FirstNamed, last
  <2>5. FirstNamed(new, name, k)
    BY <1>0, <1>5, <1>7, <2>1, <2>4 DEF FirstNamed
  <2>6. HeaderOf(f, n + 1 + 1) \notin home
    BY <1>0, <1>1, <1>2, <1>7
  <2> QED
    BY <1>7, <2>1, <2>2, <2>3, <2>4, <2>5, <2>6 DEF Reads, new, line
<1>8. CASE line.kind = "table" /\ home = {} /\ line.name = name
  <2>1. HomeIn(f, n + 1, name) = {n + 1}
    BY <1>3, <1>8
  <2>2. LinesIn(f, n + 1, {n + 1}, key) = {}
    <3>1. ASSUME NEW i \in 1..(n + 1) PROVE HeaderOf(f, i) # n + 1
      <4>1. i \in 1..Len(f)
        BY <1>0
      <4>2. HeaderOf(f, i) \in 0..(i - 1)
        BY <4>1, HeaderStep
      <4> QED
        BY <1>0, <4>2
    <3> QED
      BY <3>1 DEF LinesIn
  <2>3. NoneNamed(doc, name)
    BY <1>6, <1>8
  <2>4. FirstNamed(new, name, last + 1)
    BY <1>0, <1>5, <1>8, <2>3 DEF FirstNamed, NoneNamed, last
  <2>5. Finds(new[last + 1].pairs, key, {}, f)
    BY <1>5, <1>8 DEF Finds, NoneNamed
  <2>6. last + 1 = Len(new) /\ HeaderOf(f, n + 1 + 1) \in {n + 1}
    BY <1>1, <1>5, <1>8
  <2> QED
    BY <2>1, <2>2, <2>4, <2>5, <2>6 DEF Reads, new, line
<1>9. CASE line.kind = "table" /\ home = {} /\ line.name # name
  <2>1. HomeIn(f, n + 1, name) = {}
    BY <1>3, <1>9
  <2>2. NoneNamed(new, name)
    BY <1>0, <1>5, <1>6, <1>9 DEF NoneNamed, last
  <2> QED
    BY <2>1, <2>2 DEF Reads, new, line
<1>10. CASE line.kind = "pair" /\ home = {}
  <2>1. HomeIn(f, n + 1, name) = {}
    BY <1>3, <1>10
  <2>2. NoneNamed(new, name)
    BY <1>0, <1>5, <1>6, <1>10 DEF NoneNamed, last
  <2> QED
    BY <2>1, <2>2 DEF Reads, new, line
<1>11. CASE line.kind = "pair" /\ home # {}
  <2>1. PICK k : /\ FirstNamed(doc, name, k)
                 /\ k = last <=> under \in home
                 /\ Finds(doc[k].pairs, key, lines, f)
    BY <1>6, <1>11
  <2>2. HomeIn(f, n + 1, name) = home /\ HeaderOf(f, n + 1 + 1) = under /\ Len(new) = last
    BY <1>1, <1>3, <1>5, <1>11
  <2>3. k \in 1..last /\ k \in Nat
    BY <1>0, <2>1 DEF FirstNamed, last
  <2>4. FirstNamed(new, name, k)
    <3>1. \A j \in 1..last : new[j].name = doc[j].name
      BY <1>5, <1>11
    <3>2. doc[k].name = name /\ \A j \in 1..(k - 1) : doc[j].name # name
      BY <2>1 DEF FirstNamed
    <3>3. \A j \in 1..(k - 1) : j \in 1..last
      BY <1>0, <2>3
    <3> QED
      BY <2>2, <2>3, <3>1, <3>2, <3>3 DEF FirstNamed
  <2>5. Finds(new[k].pairs, key, LinesIn(f, n + 1, home, key), f)
    <3>1. CASE k # last
      <4>1. LinesIn(f, n + 1, home, key) = lines
        <5>1. under \notin home
          BY <2>1, <3>1
        <5>2. \A x : x \in LinesIn(f, n + 1, home, key) <=> x \in lines
          BY <1>4, <5>1 DEF lines
        <5> QED
          BY <5>2
      <4>2. new[k].pairs = doc[k].pairs
        BY <1>5, <1>11, <2>3, <3>1
      <4> QED
        BY <2>1, <4>1, <4>2
    <3>2. CASE k = last
      <4>1. new[k].pairs = Append(doc[k].pairs, line)
        BY <1>5, <1>11, <2>3, <3>2
      <4>2. doc[k].pairs \in Seq(R)
        <5>1. doc[k] \in Section(R)
          BY <2>3 DEF Doc, last
        <5> QED
          BY <5>1 DEF Section
      <4>3. lines \subseteq 1..n
        BY DEF lines, LinesIn
      <4>4. IF line.name = key
            THEN Finds(Append(doc[k].pairs, line), key, lines \cup {n + 1}, f)
            ELSE Finds(Append(doc[k].pairs, line), key, lines, f)
        BY <2>1, <4>2, <4>3, FindsStep DEF line
      <4>5. LinesIn(f, n + 1, home, key) =
              IF line.name = key THEN lines \cup {n + 1} ELSE lines
        <5>1. under \in home
          BY <2>1, <3>2
        <5>2. \A x : x \in LinesIn(f, n + 1, home, key) <=>
                       x \in lines \/ (x = n + 1 /\ line.name = key)
          BY <1>4, <1>11, <5>1 DEF lines
        <5> QED
          BY <5>2
      <4> QED
        BY <4>1, <4>4, <4>5
    <3> QED
      BY <3>1, <3>2
  <2> QED
    BY <1>11, <2>1, <2>2, <2>4, <2>5 DEF Reads, new, line
<1> QED
  BY <1>0, <1>7, <1>8, <1>9, <1>10, <1>11

(* What is read from a file that parses is what is written in it, whatever *)
(* the section and the key.                                                *)
THEOREM SettingIsWritten ==
  ASSUME NEW R, NEW f \in Seq(R), WellFormed(f), NEW name, NEW key
  PROVE  Setting(Document(f), name, key) = Written(f, name, key)
<1>0. Len(f) \in Nat /\ DOMAIN f = 1..Len(f)
  OBVIOUS
<1>1. PICK docs \in [0..Len(f) -> Doc(R)] : IsParse(docs, f) /\ Document(f) = docs[Len(f)]
  BY ParseLoop
<1> DEFINE Good == {n \in Nat : n <= Len(f) => Reads(f, n, docs[n], name, key)}
<1>2. 0 \in Good
  BY <1>1, RootReads DEF IsParse
<1>3. ASSUME NEW n \in Nat, n \in Good PROVE n + 1 \in Good
  <2>1. SUFFICES ASSUME n + 1 <= Len(f) PROVE Reads(f, n + 1, docs[n + 1], name, key)
    OBVIOUS
  <2>2. n \in 0..(Len(f) - 1) /\ n + 1 \in 1..Len(f) /\ n + 1 - 1 = n /\ n <= Len(f)
    BY <1>0, <2>1
  <2>3. Reads(f, n, docs[n], name, key) /\ docs[n] \in Doc(R)
    BY <1>0, <1>1, <1>3, <2>2
  <2>4. docs[n + 1] = AddLine(docs[n], f[n + 1])
    BY <1>1, <2>2 DEF IsParse
  <2> QED
    BY <2>2, <2>3, <2>4, ReadsStep
<1>4. Reads(f, Len(f), Document(f), name, key)
  <2> HIDE DEF Good
  <2>1. Nat \subseteq Good
    BY <1>2, <1>3, SetInduction
  <2> QED
    BY <1>0, <1>1, <2>1 DEF Good
<1>5. Document(f) \in Doc(R)
  BY <1>0, <1>1
<1> DEFINE doc == Document(f)
           home == HomeIn(f, Len(f), name)
           lines == LinesIn(f, Len(f), home, key)
<1>6. Written(f, name, key) = IF lines = {} THEN Unset ELSE f[Min(lines)].value
  BY <1>0 DEF Written, HomeIn, LinesIn
<1> HIDE DEF doc, home, lines, Good
<1>7. Len(doc) \in Nat /\ doc \in Seq(Section(R))
  BY <1>5 DEF Doc, doc
<1>8. CASE home = {}
  <2>1. NoneNamed(doc, name)
    BY <1>4, <1>8 DEF Reads, doc, home
  <2>2. SelectInSeq(doc, LAMBDA t : t.name = name) = 0
    BY <1>7, <2>1, SearchByName
  <2>3. lines = {}
    BY <1>8 DEF LinesIn, lines
  <2> QED
    BY <1>6, <2>2, <2>3 DEF Setting, doc
<1>9. CASE home # {}
  <2>1. PICK k : FirstNamed(doc, name, k) /\ Finds(doc[k].pairs, key, lines, f)
    BY <1>4, <1>9 DEF Reads, doc, home, lines
  <2>2. k \in 1..Len(doc) /\ k # 0
    BY <1>7, <2>1 DEF FirstNamed
  <2>3. Setting(doc, name, key) = Get(doc[k].pairs, key)
    <3>1. SelectInSeq(doc, LAMBDA t : t.name = name) = k
      BY <1>7, <2>1, SearchByName
    <3> QED
      BY <2>2, <3>1 DEF Setting
  <2>4. doc[k].pairs \in Seq(R) /\ Len(doc[k].pairs) \in Nat
    <3>1. doc[k] \in Section(R)
      BY <1>7, <2>2
    <3>2. doc[k].pairs \in Seq(R)
      BY <3>1 DEF Section
    <3> QED
      BY <3>2
  <2> DEFINE pairs == doc[k].pairs
  <2> HIDE DEF pairs
  <2>5. CASE lines = {}
    <3>1. NoneNamed(pairs, key) /\ Len(pairs) \in Nat
      BY <2>1, <2>4, <2>5 DEF Finds, pairs
    <3>2. SelectInSeq(pairs, LAMBDA t : t.name = key) = 0
      BY <3>1, SearchByName
    <3> QED
      BY <1>6, <2>3, <2>5, <3>2 DEF Get, doc, pairs
  <2>6. CASE lines # {}
    <3>1. PICK m : FirstNamed(pairs, key, m) /\ pairs[m].value = f[Min(lines)].value
      BY <2>1, <2>6 DEF Finds, pairs
    <3>2. SelectInSeq(pairs, LAMBDA t : t.name = key) = m
      BY <2>4, <3>1, SearchByName DEF pairs
    <3>3. m # 0
      BY <2>4, <3>1 DEF FirstNamed, pairs
    <3> QED
      BY <1>6, <2>3, <2>6, <3>1, <3>2, <3>3 DEF Get, doc, pairs
  <2> QED
    BY <2>5, <2>6
<1> QED
  BY <1>8, <1>9

-----------------------------------------------------------------------------
(* The pipeline.                                                           *)

(* The graph is one of those that assessment produces, and no later stage  *)
(* writes to it.                                                           *)
GraphInv == graph \in Graph /\ IsListedOnce(graph)

(* What the volumes hold are files.                                        *)
FilesInv ==
  /\ file = [v \in Volume |-> file[v]]
  /\ \A v \in Volume : file[v] # NoFile => \E R : file[v] \in Seq(R)

(* Once the power is on, the files stay as they were read, and the engine  *)
(* goes on with what it made of them.                                      *)
ConfiguredInv ==
  IF stage = "host" THEN config = NoConfig
  ELSE /\ config = Load(FileRead)
       /\ history.configuredDefault = IF config = NoConfig THEN NoEntry ELSE config.default
       /\ strategy = IF config = NoConfig THEN "LastGoodThenDefault" ELSE config.policy

DecidedInv ==
  stage \in {"decided", "attempting"} => decision = Decide(graph, history, strategy)

AttemptsInv ==
  attempts # <<>> =>
    \E chosen \in BootableEntries(graph) : attempts = AttemptList(graph, chosen)

DecisionInv == GraphInv /\ FilesInv /\ ConfiguredInv /\ DecidedInv /\ AttemptsInv

(* The file that the host tool installs is a sequence of lines.            *)
LEMMA InstalledIsFile == \E R : InstalledConfig \in Seq(R)
<1> DEFINE a == Pair("default", Text(TemplateDefault))
           b == Pair("timeout_secs", Number(5))
           c == Pair("policy", Text("last-good-then-default"))
           d == Pair("confirm", Flag(TRUE))
           e == Pair("max_tries", Number(3))
           f == Pair("rollback", Text("last-good"))
<1>1. InstalledConfig = <<a, b, c, d, e, f>>
  BY DEF InstalledConfig
<1> HIDE DEF a, b, c, d, e, f
<1>2. <<a, b, c, d, e, f>> \in Seq({a, b, c, d, e, f})
  OBVIOUS
<1> QED
  BY <1>1, <1>2

(* The invariant holds at first.                                           *)
LEMMA DecisionInvInit == Init => DecisionInv
<1> SUFFICES ASSUME Init PROVE DecisionInv
  OBVIOUS
<1> USE DEF Init
<1>1. GraphInv
  BY DecisionGraphs, ListedOnce DEF GraphInv, IsListedOnce
<1>2. FilesInv
  <2>1. file \in [Volume -> ForeignFiles]
    OBVIOUS
  <2>2. \A v \in Volume : file[v] \in Seq(Line) \/ file[v] = NoFile
    BY <2>1, FilesAreFiles
  <2> QED
    BY <2>1, <2>2 DEF FilesInv
<1>3. ConfiguredInv
  BY DEF ConfiguredInv
<1>4. DecidedInv /\ AttemptsInv
  BY DEF DecidedInv, AttemptsInv
<1> QED
  BY <1>1, <1>2, <1>3, <1>4 DEF DecisionInv

(* A volume's file changes: the files are files still, if the new one is.  *)
LEMMA FilesStep ==
  ASSUME FilesInv, NEW f, f # NoFile => \E R : f \in Seq(R),
         file' = [file EXCEPT ![own] = f]
  PROVE  FilesInv'
<1>1. DOMAIN file = Volume
  BY DEF FilesInv
<1>2. DOMAIN file' = Volume /\ \A v \in Volume : file'[v] = IF v = own THEN f ELSE file[v]
  BY <1>1
<1>3. file' = [v \in Volume |-> file'[v]]
  BY <1>2
<1>4. ASSUME NEW v \in Volume, file'[v] # NoFile PROVE \E R : file'[v] \in Seq(R)
  <2>1. CASE v = own
    BY <1>2, <1>4, <2>1
  <2>2. CASE v # own
    BY <1>2, <1>4, <2>2 DEF FilesInv
  <2> QED
    BY <2>1, <2>2
<1> QED
  BY <1>3, <1>4 DEF FilesInv

(* Every step keeps the invariant.                                         *)
LEMMA DecisionInvStep == DecisionInv /\ [Next]_vars => DecisionInv'
<1> SUFFICES ASSUME DecisionInv, [Next]_vars PROVE DecisionInv'
  OBVIOUS
<1>0. GraphInv /\ FilesInv /\ ConfiguredInv /\ DecidedInv /\ AttemptsInv
  BY DEF DecisionInv
<1>1. ASSUME stage = "host", NEW f, f # NoFile => \E R : f \in Seq(R),
             file' = [file EXCEPT ![own] = f], UNCHANGED <<own, stage, pipeline>>
      PROVE  DecisionInv'
  <2>1. FilesInv'
    BY <1>0, <1>1, FilesStep
  <2>2. (GraphInv /\ DecidedInv /\ AttemptsInv)'
    BY <1>0, <1>1 DEF GraphInv, DecidedInv, AttemptsInv, pipeline
  <2>3. ConfiguredInv'
    BY <1>0, <1>1 DEF ConfiguredInv, pipeline
  <2> QED
    BY <2>1, <2>2, <2>3 DEF DecisionInv
<1>2. CASE Install
  <2>1. file' = [file EXCEPT ![own] = InstalledConfig]
    BY <1>2 DEF Install
  <2> QED
    BY <1>1, <1>2, <2>1, InstalledIsFile DEF Install
<1>3. CASE Uninstall
  BY <1>1, <1>3 DEF Uninstall
<1>4. CASE Edit
  <2>1. PICK f \in Files : file' = [file EXCEPT ![own] = f]
    BY <1>4 DEF Edit
  <2>2. f # NoFile => \E R : f \in Seq(R)
    BY FilesAreFiles
  <2> QED
    BY <1>1, <1>4, <2>1, <2>2 DEF Edit
<1>5. CASE LoadConfig
  <2>1. stage = "host" /\ stage' = "configured" /\ UNCHANGED <<own, file, graph, decision, attempts>>
    BY <1>5 DEF LoadConfig
  <2>2. FileRead' = FileRead
    BY <2>1 DEF FileRead
  <2>3. ConfiguredInv'
    BY <1>5, <2>1, <2>2 DEF ConfiguredInv, LoadConfig
  <2>4. (GraphInv /\ FilesInv /\ AttemptsInv)'
    BY <1>0, <2>1 DEF GraphInv, FilesInv, AttemptsInv
  <2>5. DecidedInv'
    BY <2>1 DEF DecidedInv
  <2> QED
    BY <2>3, <2>4, <2>5 DEF DecisionInv
<1>6. CASE DecideDefault
  <2>1. /\ stage = "configured" /\ stage' = "decided"
        /\ UNCHANGED <<own, file, config, graph, history, strategy, attempts>>
    BY <1>6 DEF DecideDefault
  <2>2. FileRead' = FileRead
    BY <2>1 DEF FileRead
  <2>3. ConfiguredInv'
    BY <1>0, <2>1, <2>2 DEF ConfiguredInv
  <2>4. (GraphInv /\ FilesInv /\ AttemptsInv)'
    BY <1>0, <2>1 DEF GraphInv, FilesInv, AttemptsInv
  <2>5. DecidedInv'
    BY <1>6, <2>1 DEF DecidedInv, DecideDefault
  <2> QED
    BY <2>3, <2>4, <2>5 DEF DecisionInv
<1>7. CASE BuildAttempts
  <2>1. /\ stage = "decided" /\ stage' = "attempting"
        /\ UNCHANGED <<own, file, config, graph, history, strategy, decision>>
    BY <1>7 DEF BuildAttempts
  <2>2. FileRead' = FileRead
    BY <2>1 DEF FileRead
  <2>3. ConfiguredInv'
    BY <1>0, <2>1, <2>2 DEF ConfiguredInv
  <2>4. (GraphInv /\ FilesInv)'
    BY <1>0, <2>1 DEF GraphInv, FilesInv
  <2>5. DecidedInv'
    BY <1>0, <2>1 DEF DecidedInv
  <2>6. AttemptsInv'
    BY <1>7, <2>1 DEF AttemptsInv, BuildAttempts
  <2> QED
    BY <2>3, <2>4, <2>5, <2>6 DEF DecisionInv
<1>8. CASE UNCHANGED vars
  <2>1. FileRead' = FileRead
    BY <1>8 DEF FileRead, vars
  <2> QED
    BY <1>0, <1>8, <2>1
    DEF vars, DecisionInv, GraphInv, FilesInv, ConfiguredInv, DecidedInv, AttemptsInv
<1> QED
  BY <1>2, <1>3, <1>4, <1>5, <1>6, <1>7, <1>8 DEF Next

(* Hence it holds throughout.                                              *)
LEMMA DecisionInvariance == Spec => []DecisionInv
BY DecisionInvInit, DecisionInvStep, PTL DEF Spec

(* decide.rs: the reason shown to the user is true, and an entry that was  *)
(* asked for is passed over only for the reasons of DecisionIsSound,       *)
(* whatever the files, NVRAM and the graph say.                            *)
THEOREM DecisionsAreSound == Spec => []DecisionIsSound
<1>1. DecisionInv => DecisionIsSound
  BY DecideIsSound DEF DecisionInv, GraphInv, DecisionIsSound
<1> QED
  BY <1>1, DecisionInvariance, PTL

(* decide.rs, pipeline.rs: whatever entry present() returns, every other   *)
(* bootable one is tried after it, once, best first.                       *)
THEOREM EveryEntryIsAttempted == Spec => []AttemptsAreExhaustive
<1>1. DecisionInv => AttemptsAreExhaustive
  <2> SUFFICES ASSUME DecisionInv, attempts # <<>>
               PROVE  /\ ToSet(attempts) = BootableEntries(graph)
                      /\ \A i, j \in DOMAIN attempts :
                           i < j => GoesBefore(graph, attempts[1], attempts[i], attempts[j])
                                      /\ attempts[i] # attempts[j]
    BY DEF AttemptsAreExhaustive
  <2>1. graph \in Graph /\ IsListedOnce(graph)
    BY DEF DecisionInv, GraphInv
  <2>2. PICK chosen \in BootableEntries(graph) : attempts = AttemptList(graph, chosen)
    BY DEF DecisionInv, AttemptsInv
  <2> QED
    BY <2>1, <2>2, AttemptListIsExhaustive
<1> QED
  BY <1>1, DecisionInvariance, PTL

(* The file behind a configuration that is used.                           *)
LEMMA UsedFile ==
  ASSUME DecisionInv, config # NoConfig
  PROVE  /\ stage # "host"
         /\ \E R : FileRead \in Seq(R)
         /\ WellFormed(FileRead) /\ Valid(Document(FileRead))
         /\ config = FromDocument(Document(FileRead))
<1>1. stage # "host" /\ config = Load(FileRead)
  BY DEF DecisionInv, ConfiguredInv
<1>2. /\ FileRead # NoFile /\ WellFormed(FileRead) /\ Valid(Document(FileRead))
      /\ config = FromDocument(Document(FileRead))
  BY <1>1 DEF Load
<1>3. \E R : FileRead \in Seq(R)
  <2> DEFINE holders == {v \in Volume : file[v] # NoFile}
  <2>1. holders # {} /\ FileRead = file[Min(holders)]
    BY <1>2 DEF FileRead
  <2>2. Min(holders) \in holders
    <3>1. holders \subseteq Nat
      BY VolumesAreNumbers
    <3> HIDE DEF holders
    <3> QED
      BY <2>1, <3>1, MinIsLeast
  <2>3. FilesInv
    BY DEF DecisionInv
  <2> QED
    BY <1>2, <2>1, <2>2, <2>3 DEF FilesInv
<1> QED
  BY <1>1, <1>2, <1>3

(* schema.rs:2, the file is the single source of truth: whatever the files *)
(* say, a setting of an accepted configuration is what is written, or the  *)
(* default where nothing is.                                               *)
THEOREM FileIsObeyed == Spec => []AcceptedIsObeyed
<1>1. DecisionInv => AcceptedIsObeyed
  <2> SUFFICES ASSUME DecisionInv, config # NoConfig
               PROVE  /\ config.default = Written(FileRead, "", "default")[2]
                      /\ config.timeout = Or(Written(FileRead, "", "timeout"), 5)
                      /\ config.maxTries = Or(Written(FileRead, "transaction", "max_tries"), 2)
                      /\ config.policy = "Default" <=>
                           Written(FileRead, "", "policy") = Text("default")
    BY DEF AcceptedIsObeyed
  <2> DEFINE doc == Document(FileRead)
  <2>1. /\ \E R : FileRead \in Seq(R)
        /\ WellFormed(FileRead)
        /\ config = FromDocument(doc)
    BY UsedFile
  <2>2. \A name, key : Setting(doc, name, key) = Written(FileRead, name, key)
    BY <2>1, SettingIsWritten
  <2> HIDE DEF doc
  <2>3. /\ config.default = Setting(doc, "", "default")[2]
        /\ config.timeout = Or(Setting(doc, "", "timeout"), 5)
        /\ config.maxTries = Or(Setting(doc, "transaction", "max_tries"), 2)
        /\ config.policy = IF Setting(doc, "", "policy") = Text("default")
                           THEN "Default" ELSE "LastGoodThenDefault"
    BY <2>1 DEF FromDocument
  <2> QED
    BY <2>2, <2>3
<1> QED
  BY <1>1, DecisionInvariance, PTL

(* A configuration that is accepted has a default.                         *)
LEMMA ValidHasDefault ==
  ASSUME NEW doc, Valid(doc)
  PROVE  IsText(Setting(doc, "", "default"))
BY DEF Valid

(* config.rs:1-4, the host's check is a light mirror of the schema's: of   *)
(* the files that the engine uses it refuses those with a key that has a   *)
(* '#' between quotes, and no other.                                       *)
THEOREM HostRefusesNoUsedFile == Spec => []NoFalseAlarm
<1>1. DecisionInv => NoFalseAlarm
  <2> SUFFICES ASSUME DecisionInv, config # NoConfig
               PROVE  HostAccepts(FileRead) <=>
                        \A i \in DOMAIN FileRead : FileRead[i].name # HashedKey
    BY DEF NoFalseAlarm
  <2> DEFINE written == Written(FileRead, "", "default")
  <2>1. /\ \E R : FileRead \in Seq(R)
        /\ WellFormed(FileRead)
        /\ Valid(Document(FileRead))
    BY UsedFile
  <2>2. Setting(Document(FileRead), "", "default") = written
    BY <2>1, SettingIsWritten
  <2> HIDE DEF written
  <2>3. IsText(written)
    BY <2>1, <2>2, ValidHasDefault
  <2>4. written # Unset
    <3>1. Unset[1] = "unset"
      BY DEF Unset
    <3>2. written[1] = "str"
      BY <2>3 DEF IsText
    <3> QED
      BY <3>1, <3>2
  <2>5. \E i \in DOMAIN FileRead : FileRead[i].kind = "pair" /\ FileRead[i].name = "default"
    BY <2>4 DEF Written, written
  <2>6. \A i \in DOMAIN FileRead :
          HostSeesEquals(FileRead[i]) <=> FileRead[i].name # HashedKey
    BY <2>1 DEF WellFormed, HostSeesEquals
  <2> QED
    BY <2>5, <2>6 DEF HostAccepts
<1> QED
  BY <1>1, DecisionInvariance, PTL

(* From the file to the decision: with the policy "default", a bootable    *)
(* configured default is decided unless something else was requested, and  *)
(* without a usable file no decision claims to be the configured one.      *)
THEOREM ConfigurationReachesTheDecision == Spec => []ConfigurationDecides
<1>1. DecisionInv => ConfigurationDecides
  <2> SUFFICES ASSUME DecisionInv, stage \in {"decided", "attempting"}
               PROVE  /\ /\ config # NoConfig
                         /\ strategy = "Default"
                         /\ history.oneShot \notin BootableEntries(graph)
                         /\ Written(FileRead, "", "default")[2] \in BootableEntries(graph)
                         => decision.chosen = Written(FileRead, "", "default")[2]
                      /\ config = NoConfig => decision.reason # "ConfiguredDefault"
    BY DEF ConfigurationDecides
  <2>1. decision = Decide(graph, history, strategy) /\ graph \in Graph
    BY DEF DecisionInv, DecidedInv, GraphInv
  <2>2. /\ history.configuredDefault = IF config = NoConfig THEN NoEntry ELSE config.default
        /\ strategy = IF config = NoConfig THEN "LastGoodThenDefault" ELSE config.policy
    BY DEF DecisionInv, ConfiguredInv
  <2>3. ASSUME config # NoConfig, strategy = "Default",
               history.oneShot \notin BootableEntries(graph),
               Written(FileRead, "", "default")[2] \in BootableEntries(graph)
        PROVE  decision.chosen = Written(FileRead, "", "default")[2]
    <3> DEFINE written == Written(FileRead, "", "default")[2]
    <3>1. config.default = written
      <4>1. \E R : FileRead \in Seq(R)
        BY <2>3, UsedFile
      <4>2. WellFormed(FileRead) /\ config = FromDocument(Document(FileRead))
        BY <2>3, UsedFile
      <4>3. Setting(Document(FileRead), "", "default") = Written(FileRead, "", "default")
        BY <4>1, <4>2, SettingIsWritten
      <4> QED
        BY <4>2, <4>3 DEF FromDocument
    <3>2. history.configuredDefault = written
      BY <2>2, <2>3, <3>1
    <3>3. Preferred(history, strategy) = [chosen |-> written, reason |-> "ConfiguredDefault"]
      BY <2>3, <3>2 DEF Preferred
    <3> HIDE DEF written
    <3>4. Preferred(history, strategy).chosen = written
      BY <3>3
    <3>5. decision = Preferred(history, strategy)
      BY <2>1, <2>3, <3>4 DEF Decide, written
    <3> QED
      BY <3>4, <3>5 DEF written
  <2>4. ASSUME config = NoConfig, decision.reason = "ConfiguredDefault" PROVE FALSE
    <3>1. decision.chosen = NoEntry
      BY <2>1, <2>2, <2>4, DecideIsSound
    <3>2. decision # NoDecision
      BY <2>4 DEF NoDecision
    <3>3. decision.chosen \in BootableEntries(graph)
      BY <2>1, <3>2, DecideIsSound
    <3> QED
      BY <2>1, <3>1, <3>3, ListedIsEntry, NoEntryAssumption
  <2> QED
    BY <2>3, <2>4
<1> QED
  BY <1>1, DecisionInvariance, PTL
=============================================================================
