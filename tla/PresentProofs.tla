---------------------------- MODULE PresentProofs ----------------------------
(***************************************************************************)
(* What present() returns, what a key does to its countdown, and what is   *)
(* seen of the row that Enter boots: for every graph, every decision over  *)
(* it, every timeout, every way through the screens and every display.     *)
(***************************************************************************)
EXTENDS Present, Lemmas

(* The argument that decide() passed to present().                         *)
DecidedInv ==
  \E h \in Histories, s \in Strategies : decision = Decide(graph, h, s)

(* The countdown stops at its end, or for good at the first key.           *)
CountingInv ==
  /\ counting /\ screen # "returned" => elapsed < timeout
  /\ touched => ~counting

(* The command line is edited of a row that can be booted.                 *)
EditInv == screen = "edit" => RowIsBootable(graph, cursor)

(* Without a key present() is still where it started.                      *)
UntouchedInv ==
  ~touched => screen \in {"menu", "returned"} /\ cursor = InitialCursor(graph, decision)

(* It returns what its countdown, or the want of a screen, makes of the    *)
(* decision, or after a key an entry that can be booted.  This is all that *)
(* BootCycle lets its action Choose, which stands for present(), return.   *)
ReturnsAsInBootCycle ==
  screen = "returned" =>
    IF touched
    THEN choice \in BootableEntries(graph)
    ELSE choice \in {Headless(graph, decision),
                     OnTimeout(graph, decision, InitialCursor(graph, decision))}

PresentInv ==
  TypeOK /\ DecidedInv /\ CountingInv /\ EditInv /\ UntouchedInv /\ ReturnsAsInBootCycle

-----------------------------------------------------------------------------
(* The operators of the policy and of the menu.                            *)

(* decide() returns an entry with one of its reasons, or nothing.          *)
LEMMA DecideTyped ==
  ASSUME NEW g \in Graph, NEW h \in History, NEW s \in Strategies
  PROVE  Decide(g, h, s) \in [chosen : Entry, reason : Reasons] \cup {NoDecision}
<1> DEFINE p == Preferred(h, s)
<1>1. p = [chosen |-> p.chosen, reason |-> p.reason] /\ p.reason \in Reasons
  BY DEF Preferred, Reasons
<1>2. BootableEntries(g) \subseteq Entry
  BY ListedIsEntry
<1>3. CASE h.oneShot \in BootableEntries(g)
  BY <1>2, <1>3 DEF Decide, Reasons
<1>4. CASE h.oneShot \notin BootableEntries(g) /\ p.chosen \in BootableEntries(g)
  <2>1. Decide(g, h, s) = p
    BY <1>4 DEF Decide
  <2> HIDE DEF p
  <2>2. QED BY <1>1, <1>2, <1>4, <2>1
<1>5. CASE h.oneShot \notin BootableEntries(g) /\ p.chosen \notin BootableEntries(g)
  <2>1. Decide(g, h, s) =
          IF PickHealthiest(g) = NoEntry THEN NoDecision
          ELSE [chosen |-> PickHealthiest(g),
                reason |-> IF p.chosen = NoEntry
                           THEN "HealthiestAvailable" ELSE "FellBackToHealthiest"]
    BY <1>5 DEF Decide
  <2>2. PickHealthiest(g) # NoEntry => PickHealthiest(g) \in Entry
    BY <1>2, HealthiestIsBootable
  <2> HIDE DEF p
  <2>3. QED BY <2>1, <2>2 DEF Reasons
<1>6. QED BY <1>3, <1>4, <1>5

(* Moving on to the next bootable row stays on the recovery screen.        *)
LEMMA RecoveryMoveIsRow ==
  ASSUME NEW g \in Graph, NEW r \in 0..RowCount(g), NEW delta \in {-1, 1}
  PROVE  RecoveryMove(g, r, delta) \in 0..RowCount(g)
<1> DEFINE n == RowCount(g)
           Row(k) == (r + k * delta) % n
           stops == {k \in 1..n : RowIsBootable(g, Row(k))}
           next == CHOOSE k \in stops : \A j \in stops : k <= j
<1>1. n \in Nat
  BY DEF RowCount, Graph
<1>2. CASE n = 0
  BY <1>2 DEF RecoveryMove
<1>3. ASSUME n # 0, NEW k \in Int PROVE Row(k) \in 0..n
  <2>1. k * delta \in Int
    BY <1>3
  <2>2. r + k * delta \in Int
    BY <1>1, <2>1
  <2> HIDE DEF n
  <2>3. QED BY <1>1, <1>3, <2>2
<1>4. CASE n # 0 /\ stops = {}
  <2>1. RecoveryMove(g, r, delta) = Row(n)
    BY <1>4 DEF RecoveryMove
  <2>2. QED BY <1>1, <1>3, <1>4, <2>1
<1>5. CASE n # 0 /\ stops # {}
  <2>1. RecoveryMove(g, r, delta) = Row(next)
    BY <1>5 DEF RecoveryMove
  <2>2. next \in stops
    <3>1. stops \subseteq Nat
      BY <1>1
    <3>2. PICK k \in stops : \A j \in stops : ~(j < k)
      <4> HIDE DEF stops
      <4>1. QED BY <1>5, <3>1, FirstPosition
    <3>3. \A j \in stops : k <= j
      <4> HIDE DEF stops
      <4>1. QED BY <3>1, <3>2
    <3> HIDE DEF stops
    <3>4. QED BY <3>2, <3>3
  <2>3. next \in Int
    BY <1>1, <2>2
  <2> HIDE DEF next, Row
  <2>4. QED BY <1>3, <1>5, <2>1, <2>3
<1>6. QED BY <1>2, <1>4, <1>5

(* On a menu whose first row can be booted, the presses of Down that       *)
(* present() makes lead to the row of the decision.                        *)
LEMMA CursorIsOnDecision ==
  ASSUME NEW g \in Graph, NEW d, RowIsBootable(g, 0), d.chosen \in Listed(g)
  PROVE  RowEntry(g, InitialCursor(g, d)) = d.chosen
<1> DEFINE p == Position(g, d.chosen)
<1>1. p \in 1..RowCount(g) /\ g.rows[p] = d.chosen /\ RowCount(g) \in Nat
  <2>1. p \in DOMAIN g.rows /\ g.rows[p] = d.chosen
    BY PositionOfListed
  <2> HIDE DEF p
  <2>2. QED BY <2>1 DEF RowCount, Graph
<1>2. FirstBootableRow(g) = 0
  <2> HIDE DEF p
  <2>1. 0 \in 0..(RowCount(g) - 1)
    BY <1>1
  <2>2. FirstBootableRow(g) \in Nat /\ FirstBootableRow(g) <= 0
    BY <1>1, <2>1, FirstBootableRowIsRow
  <2>3. QED BY <2>2
<1>3. InitialCursor(g, d) = (0 + (p - 1)) % RowCount(g)
  BY <1>1, <1>2 DEF InitialCursor, MenuMove
<1>4. InitialCursor(g, d) = p - 1
  <2> HIDE DEF p
  <2>1. QED BY <1>1, <1>3
<1>5. p - 1 + 1 = p
  <2> HIDE DEF p
  <2>1. QED BY <1>1
<1>6. QED BY <1>1, <1>4, <1>5 DEF RowEntry

-----------------------------------------------------------------------------
(* The inductive invariant.                                                *)

(* With nothing but a decision passed on, the two ways out that no key     *)
(* takes lead to an entry that can be booted, if there is one.             *)
LEMMA UnattendedBoots ==
  ASSUME TypeOK, DecidedInv, NEW r \in Nat,
         NEW c \in {OnTimeout(graph, decision, r), Headless(graph, decision)}
  PROVE  /\ IF BootableEntries(graph) = {}
            THEN c = NoEntry ELSE c \in BootableEntries(graph)
         /\ c \in MaybeEntry
<1>1. graph \in Graph
  BY PresentGraphs DEF TypeOK
<1>2. PICK h \in History, s \in Strategies : decision = Decide(graph, h, s)
  BY PresentHistories DEF DecidedInv
<1>3. IF BootableEntries(graph) = {}
      THEN c = NoEntry ELSE c \in BootableEntries(graph)
  BY <1>1, <1>2, TimeoutBoots, HeadlessBoots
<1>4. BootableEntries(graph) \subseteq Entry
  BY <1>1, ListedIsEntry
<1>5. QED BY <1>3, <1>4 DEF MaybeEntry

(* A row that can be booted shows an entry to return.                      *)
LEMMA RowIsChoice ==
  ASSUME TypeOK, NEW r \in Nat, RowIsBootable(graph, r)
  PROVE  RowEntry(graph, r) \in BootableEntries(graph) /\ RowEntry(graph, r) \in MaybeEntry
<1>1. graph \in Graph
  BY PresentGraphs DEF TypeOK
<1>2. QED BY <1>1, RowBoots, ListedIsEntry DEF MaybeEntry

(* The screens' cursors are numbers, and so are the seconds.               *)
LEMMA Numbers ==
  ASSUME TypeOK
  PROVE  /\ RowCount(graph) \in Nat /\ timeout \in Nat
         /\ cursor \in Nat /\ pick \in Nat /\ elapsed \in Nat
<1>1. graph \in Graph /\ timeout \in Nat
  BY PresentGraphs, TimeoutsAssumption DEF TypeOK
<1>2. RowCount(graph) \in Nat
  BY <1>1 DEF RowCount, Graph
<1>3. QED BY <1>1, <1>2 DEF TypeOK

(* The invariant holds when present() is called.                           *)
LEMMA PresentInvInit == Init => PresentInv
<1> SUFFICES ASSUME Init PROVE PresentInv
  OBVIOUS
<1>1. graph \in Graph /\ timeout \in Nat
  BY PresentGraphs, TimeoutsAssumption DEF Init
<1>2. DecidedInv
  BY DEF Init, DecidedInv
<1>3. decision \in [chosen : Entry, reason : Reasons] \cup {NoDecision}
  BY <1>1, <1>2, PresentHistories, DecideTyped DEF DecidedInv
<1>4. cursor = InitialCursor(graph, decision) /\ cursor \in 0..RowCount(graph)
  BY <1>1, InitialCursorIsRow DEF Init
<1>5. /\ RowCount(graph) \in Nat
      /\ elapsed \in 0..timeout /\ pick \in 0..RowCount(graph)
  BY <1>1 DEF RowCount, Graph, Init
<1>6. counting \in BOOLEAN /\ touched \in BOOLEAN /\ ~touched
  BY DEF Init
<1>7. CountingInv
  <2>1. (counting => timeout # 0) /\ ~touched /\ elapsed = 0
    BY DEF Init
  <2>2. timeout # 0 => 0 < timeout
    BY <1>1
  <2>3. QED BY <2>1, <2>2 DEF CountingInv
<1>8. CASE screen = "menu" /\ choice = NoEntry
  <2>1. TypeOK
    BY <1>3, <1>4, <1>5, <1>6, <1>8 DEF Init, TypeOK, Screens, MaybeEntry
  <2>2. EditInv /\ UntouchedInv /\ ReturnsAsInBootCycle
    BY <1>4, <1>8 DEF EditInv, UntouchedInv, ReturnsAsInBootCycle
  <2>3. QED BY <1>2, <1>7, <2>1, <2>2 DEF PresentInv
<1>9. CASE screen = "returned" /\ choice = Headless(graph, decision)
  <2>1. PICK h \in History, s \in Strategies : decision = Decide(graph, h, s)
    BY <1>2, PresentHistories DEF DecidedInv
  <2>2. IF BootableEntries(graph) = {}
        THEN choice = NoEntry ELSE choice \in BootableEntries(graph)
    BY <1>1, <1>9, <2>1, HeadlessBoots
  <2>3. choice \in MaybeEntry
    BY <1>1, <2>2, ListedIsEntry DEF MaybeEntry
  <2>4. TypeOK
    BY <1>3, <1>4, <1>5, <1>6, <1>9, <2>3 DEF Init, TypeOK, Screens
  <2>5. EditInv /\ UntouchedInv /\ ReturnsAsInBootCycle
    BY <1>4, <1>6, <1>9 DEF EditInv, UntouchedInv, ReturnsAsInBootCycle
  <2>6. QED BY <1>2, <1>7, <2>4, <2>5 DEF PresentInv
<1>10. QED BY <1>8, <1>9 DEF Init

(* The other screens are reached by a key only, and a key stops the        *)
(* countdown.                                                              *)
LEMMA ScreensNeedAKey ==
  ASSUME PresentInv, screen \notin {"menu", "returned"}
  PROVE  touched = TRUE /\ counting = FALSE
<1>1. touched \in BOOLEAN /\ counting \in BOOLEAN
  BY DEF PresentInv, TypeOK
<1>2. touched
  BY <1>1 DEF PresentInv, UntouchedInv
<1>3. ~counting
  BY <1>2 DEF PresentInv, CountingInv
<1>4. QED BY <1>1, <1>2, <1>3

(* A step that leaves the countdown stopped by a key keeps the invariant,  *)
(* if it returns and edits only what can be booted.                        *)
LEMMA StepAfterAKey ==
  ASSUME PresentInv, UNCHANGED <<args, elapsed>>,
         touched' = TRUE, counting' = FALSE, screen' \in Screens,
         cursor' \in 0..RowCount(graph), pick' \in 0..RowCount(graph),
         screen' = "edit" => RowIsBootable(graph, cursor'),
         \/ choice' = choice /\ screen' # "returned"
         \/ choice' \in BootableEntries(graph)
  PROVE  PresentInv'
<1>1. graph' = graph /\ decision' = decision /\ timeout' = timeout /\ elapsed' = elapsed
  BY DEF args
<1>2. graph \in Graph
  BY PresentGraphs DEF PresentInv, TypeOK
<1>3. choice' \in MaybeEntry
  BY <1>2, ListedIsEntry DEF PresentInv, TypeOK, MaybeEntry
<1>4. TypeOK'
  <2>1. counting' \in BOOLEAN /\ touched' \in BOOLEAN
    OBVIOUS
  <2>2. QED BY <1>1, <1>3, <2>1 DEF PresentInv, TypeOK
<1>5. DecidedInv'
  BY <1>1 DEF PresentInv, DecidedInv
<1>6. CountingInv' /\ UntouchedInv'
  <2>1. ~counting' /\ touched'
    OBVIOUS
  <2>2. QED BY <2>1 DEF CountingInv, UntouchedInv
<1>7. EditInv'
  BY <1>1 DEF EditInv
<1>8. ReturnsAsInBootCycle'
  BY <1>1 DEF ReturnsAsInBootCycle
<1>9. QED BY <1>4, <1>5, <1>6, <1>7, <1>8 DEF PresentInv

(* Every key of the menu keeps the invariant.                              *)
LEMMA KeySteps ==
  ASSUME PresentInv,
         Navigate \/ Enter \/ Edit \/ KeyWithoutEffect \/ LeaveForGood \/ OpenRecovery
  PROVE  PresentInv'
<1>1. /\ screen = "menu" /\ UNCHANGED <<args, elapsed>>
      /\ touched' = TRUE /\ counting' = FALSE
  BY DEF Navigate, Enter, Edit, KeyWithoutEffect, LeaveForGood, OpenRecovery, Key
<1>2. graph \in Graph /\ TypeOK
  BY PresentGraphs DEF PresentInv, TypeOK
<1>3. cursor \in 0..RowCount(graph) /\ pick \in 0..RowCount(graph) /\ cursor \in Nat
  BY <1>2, Numbers DEF TypeOK
<1>4. CASE Navigate
  <2>1. /\ screen' = "menu" /\ pick' = pick /\ choice' = choice
        /\ \E delta \in {-1, 1} : cursor' = MenuMove(graph, cursor, delta)
    BY <1>1, <1>4 DEF Navigate
  <2>2. cursor' \in 0..RowCount(graph)
    BY <1>2, <1>3, <2>1, MenuMoveIsRow
  <2>3. QED BY <1>1, <1>3, <2>1, <2>2, StepAfterAKey DEF Screens
<1>5. CASE Enter
  <2>1. choice' \in BootableEntries(graph)
    BY <1>2, <1>3, <1>5, RowBoots DEF Enter, Return
  <2>2. screen' = "returned" /\ cursor' = cursor /\ pick' = pick
    BY <1>5 DEF Enter, Return
  <2>3. QED BY <1>1, <1>3, <2>1, <2>2, StepAfterAKey DEF Screens
<1>6. CASE Edit
  <2>1. /\ RowIsBootable(graph, cursor) /\ screen' = "edit"
        /\ cursor' = cursor /\ pick' = pick /\ choice' = choice
    BY <1>6 DEF Edit
  <2>2. QED BY <1>1, <1>3, <2>1, StepAfterAKey DEF Screens
<1>7. CASE KeyWithoutEffect
  <2>1. screen' = "menu" /\ cursor' = cursor /\ pick' = pick /\ choice' = choice
    BY <1>1, <1>7 DEF KeyWithoutEffect
  <2>2. QED BY <1>1, <1>3, <2>1, StepAfterAKey DEF Screens
<1>8. CASE LeaveForGood
  <2>1. screen' = "reset" /\ cursor' = cursor /\ pick' = pick /\ choice' = choice
    BY <1>8 DEF LeaveForGood
  <2>2. QED BY <1>1, <1>3, <2>1, StepAfterAKey DEF Screens
<1>9. CASE OpenRecovery
  <2>1. /\ screen' = "recovery" /\ pick' = FirstBootableRow(graph)
        /\ cursor' = cursor /\ choice' = choice
    BY <1>9 DEF OpenRecovery
  <2>2. pick' \in 0..RowCount(graph)
    BY <1>2, <2>1, FirstBootableRowIsRow
  <2>3. QED BY <1>1, <1>3, <2>1, <2>2, StepAfterAKey DEF Screens
<1>10. QED BY <1>4, <1>5, <1>6, <1>7, <1>8, <1>9

(* So does every key of the editor and of the recovery screen.             *)
LEMMA OtherScreensSteps ==
  ASSUME PresentInv,
         AcceptEdit \/ CancelEdit \/ NavigateRecovery \/ RecoveryEnter \/ LeaveRecovery
  PROVE  PresentInv'
<1>1. /\ screen \in {"edit", "recovery"}
      /\ UNCHANGED <<args, elapsed>> /\ UNCHANGED <<counting, touched>>
  BY DEF AcceptEdit, CancelEdit, NavigateRecovery, RecoveryEnter, LeaveRecovery
<1>2. touched' = TRUE /\ counting' = FALSE
  BY <1>1, ScreensNeedAKey
<1>3. graph \in Graph /\ TypeOK
  BY PresentGraphs DEF PresentInv, TypeOK
<1>4. /\ cursor \in 0..RowCount(graph) /\ pick \in 0..RowCount(graph)
      /\ cursor \in Nat /\ pick \in Nat
  BY <1>3, Numbers DEF TypeOK
<1>5. CASE AcceptEdit
  <2>1. RowIsBootable(graph, cursor)
    BY <1>5 DEF AcceptEdit, PresentInv, EditInv
  <2>2. choice' \in BootableEntries(graph)
    BY <1>3, <1>4, <1>5, <2>1, RowBoots DEF AcceptEdit, Return
  <2>3. screen' = "returned" /\ cursor' = cursor /\ pick' = pick
    BY <1>5 DEF AcceptEdit, Return
  <2>4. QED BY <1>1, <1>2, <1>4, <2>2, <2>3, StepAfterAKey DEF Screens
<1>6. CASE CancelEdit \/ LeaveRecovery
  <2>1. screen' = "menu" /\ cursor' = cursor /\ pick' = pick /\ choice' = choice
    BY <1>6 DEF CancelEdit, LeaveRecovery
  <2>2. QED BY <1>1, <1>2, <1>4, <2>1, StepAfterAKey DEF Screens
<1>7. CASE NavigateRecovery
  <2>1. /\ screen' = "recovery" /\ cursor' = cursor /\ choice' = choice
        /\ \E delta \in {-1, 1} : pick' = RecoveryMove(graph, pick, delta)
    BY <1>7 DEF NavigateRecovery
  <2>2. pick' \in 0..RowCount(graph)
    BY <1>3, <1>4, <2>1, RecoveryMoveIsRow
  <2>3. QED BY <1>1, <1>2, <1>4, <2>1, <2>2, StepAfterAKey DEF Screens
<1>8. CASE RecoveryEnter
  <2>1. choice' \in BootableEntries(graph)
    BY <1>3, <1>4, <1>8, RowBoots DEF RecoveryEnter, Return
  <2>2. screen' = "returned" /\ cursor' = cursor /\ pick' = pick
    BY <1>8 DEF RecoveryEnter, Return
  <2>3. QED BY <1>1, <1>2, <1>4, <2>1, <2>2, StepAfterAKey DEF Screens
<1>9. QED BY <1>5, <1>6, <1>7, <1>8

(* And a second that passes, up to the one that ends the countdown.        *)
LEMMA CountdownSteps ==
  ASSUME PresentInv, Countdown
  PROVE  PresentInv'
<1>1. /\ screen = "menu" /\ counting /\ elapsed' = elapsed + 1
      /\ UNCHANGED <<args, cursor, pick>> /\ UNCHANGED <<counting, touched>>
  BY DEF Countdown, Tick, CountdownEnds
<1>2. graph' = graph /\ decision' = decision /\ timeout' = timeout
  BY <1>1 DEF args
<1>3. TypeOK /\ DecidedInv /\ elapsed < timeout /\ ~touched
  BY <1>1 DEF PresentInv, CountingInv
<1>4. elapsed \in Nat /\ timeout \in Nat /\ cursor \in Nat
  BY <1>3, Numbers
<1>5. elapsed' \in 0..timeout /\ elapsed' \in Nat
  BY <1>1, <1>3, <1>4
<1>6. DecidedInv'
  BY <1>2, <1>3 DEF DecidedInv
<1>7. screen = "menu" /\ cursor = InitialCursor(graph, decision)
  BY <1>1, <1>3 DEF PresentInv, UntouchedInv
<1>8. CASE Tick
  <2>1. screen' = "menu" /\ choice' = choice /\ elapsed + 1 < timeout
    BY <1>1, <1>8 DEF Tick
  <2>2. TypeOK'
    BY <1>1, <1>2, <1>3, <1>5, <2>1 DEF TypeOK
  <2>3. CountingInv'
    BY <1>1, <1>2, <1>3, <2>1 DEF CountingInv
  <2>4. EditInv' /\ UntouchedInv' /\ ReturnsAsInBootCycle'
    BY <1>1, <1>2, <1>7, <2>1 DEF EditInv, UntouchedInv, ReturnsAsInBootCycle
  <2>5. QED BY <1>6, <2>2, <2>3, <2>4 DEF PresentInv
<1>9. CASE CountdownEnds
  <2>1. screen' = "returned" /\ choice' = OnTimeout(graph, decision, cursor)
    BY <1>9 DEF CountdownEnds, Return
  <2>2. /\ IF BootableEntries(graph) = {}
           THEN choice' = NoEntry ELSE choice' \in BootableEntries(graph)
        /\ choice' \in MaybeEntry
    BY <1>3, <1>4, <2>1, UnattendedBoots
  <2>3. TypeOK'
    BY <1>1, <1>2, <1>3, <1>5, <2>1, <2>2 DEF TypeOK, Screens
  <2>4. CountingInv'
    BY <1>1, <1>3, <2>1 DEF CountingInv
  <2>5. EditInv' /\ UntouchedInv' /\ ReturnsAsInBootCycle'
    BY <1>1, <1>2, <1>3, <1>7, <2>1 DEF EditInv, UntouchedInv, ReturnsAsInBootCycle
  <2>6. QED BY <1>6, <2>3, <2>4, <2>5 DEF PresentInv
<1>10. QED BY <1>8, <1>9 DEF Countdown

(* Every step keeps the invariant.                                         *)
LEMMA PresentInvStep == PresentInv /\ [Next]_vars => PresentInv'
<1> SUFFICES ASSUME PresentInv, [Next]_vars PROVE PresentInv'
  OBVIOUS
<1>1. CASE UNCHANGED vars
  BY <1>1 DEF vars, args, PresentInv, TypeOK, DecidedInv, CountingInv, EditInv,
              UntouchedInv, ReturnsAsInBootCycle
<1>2. QED BY <1>1, KeySteps, OtherScreensSteps, CountdownSteps DEF Next

(* Hence it holds throughout.                                              *)
LEMMA PresentInvariance == Spec => []PresentInv
BY PresentInvInit, PresentInvStep, PTL DEF Spec

-----------------------------------------------------------------------------

(* present(): its variables keep their types; in particular no cursor      *)
(* leaves its screen's rows and the seconds never pass the timeout, so the *)
(* countdown that is drawn (pipeline.rs:256) does not underflow.           *)
THEOREM PresentTypeCorrect == Spec => []TypeOK
<1>1. PresentInv => TypeOK
  BY DEF PresentInv
<1>2. QED BY <1>1, PresentInvariance, PTL

(* pipeline.rs:112-117: whatever is pressed, on whatever graph, present()  *)
(* returns an entry that can be booted, and none only if there is none.    *)
THEOREM WhatIsChosenBoots == Spec => []ChoiceIsBootable
<1>1. ASSUME PresentInv, screen = "returned"
      PROVE  IF BootableEntries(graph) = {}
             THEN choice = NoEntry ELSE choice \in BootableEntries(graph)
  <2>1. TypeOK /\ DecidedInv /\ ReturnsAsInBootCycle
    BY <1>1 DEF PresentInv
  <2>2. CASE touched
    BY <1>1, <2>1, <2>2 DEF ReturnsAsInBootCycle
  <2>3. CASE ~touched
    <3>1. cursor \in Nat /\ cursor = InitialCursor(graph, decision)
      BY <1>1, <2>1, <2>3, Numbers DEF PresentInv, UntouchedInv
    <3>2. choice \in {OnTimeout(graph, decision, cursor), Headless(graph, decision)}
      BY <1>1, <2>1, <2>3, <3>1 DEF ReturnsAsInBootCycle
    <3>3. QED BY <2>1, <3>1, <3>2, UnattendedBoots
  <2>4. QED BY <2>2, <2>3
<1>2. PresentInv => ChoiceIsBootable
  BY <1>1 DEF ChoiceIsBootable
<1>3. QED BY <1>2, PresentInvariance, PTL

(* BootCycle is right to let one action stand for the screens: what        *)
(* present() returns is what that action may choose (pipeline.rs:114).     *)
THEOREM ScreensReturnWhatCycleChooses == Spec => []ReturnsAsInBootCycle
<1>1. PresentInv => ReturnsAsInBootCycle
  BY DEF PresentInv
<1>2. QED BY <1>1, PresentInvariance, PTL

(* pipeline.rs:265, any key cancels auto-boot: for good, whichever screens *)
(* are walked through after it.                                            *)
THEOREM KeysCancel == Spec => KeyCancelsForGood
<1>1. ASSUME PresentInv, [Next]_vars
      PROVE  [touched => ~counting' /\ elapsed' = elapsed]_vars
  <2>1. SUFFICES ASSUME Next, touched PROVE ~counting' /\ elapsed' = elapsed
    BY <1>1
  <2>2. ~counting
    BY <1>1, <2>1 DEF PresentInv, CountingInv
  <2>3. ~Countdown
    BY <2>2 DEF Countdown, Tick, CountdownEnds
  <2>4. CASE Navigate \/ Enter \/ Edit \/ KeyWithoutEffect \/ LeaveForGood \/ OpenRecovery
    BY <2>4 DEF Navigate, Enter, Edit, KeyWithoutEffect, LeaveForGood, OpenRecovery, Key
  <2>5. CASE AcceptEdit \/ CancelEdit \/ NavigateRecovery \/ RecoveryEnter \/ LeaveRecovery
    BY <2>2, <2>5 DEF AcceptEdit, CancelEdit, NavigateRecovery, RecoveryEnter, LeaveRecovery
  <2>6. QED BY <2>1, <2>3, <2>4, <2>5 DEF Next
<1>2. QED BY <1>1, PresentInvariance, PTL DEF Spec, KeyCancelsForGood

(* HOW_IT_WORKS.md:174, on timeout present() returns the policy's choice:  *)
(* so it does on every graph whose first row can be booted.                *)
THEOREM UnattendedBootsDecision == Spec => []UnattendedIsDecisionIfTopBoots
<1>1. ASSUME PresentInv, screen = "returned", ~touched, RowIsBootable(graph, 0)
      PROVE  choice = decision.chosen
  <2>1. TypeOK /\ graph \in Graph
    BY <1>1, PresentGraphs DEF PresentInv, TypeOK
  <2>2. PICK h \in History, s \in Strategies : decision = Decide(graph, h, s)
    BY <1>1, PresentHistories DEF PresentInv, DecidedInv
  <2>3. BootableEntries(graph) # {}
    BY <1>1, <2>1, RowBoots
  <2>4. decision.chosen \in BootableEntries(graph)
    BY <2>1, <2>2, <2>3, DecisionBoots
  <2>5. decision.chosen \in Listed(graph) /\ decision.chosen # NoEntry
    BY <2>1, <2>4, ListedIsEntry, NoEntryAssumption
  <2>6. RowEntry(graph, cursor) = decision.chosen
    BY <1>1, <2>1, <2>5, CursorIsOnDecision DEF PresentInv, UntouchedInv
  <2>7. choice \in {OnTimeout(graph, decision, cursor), Headless(graph, decision)}
    BY <1>1 DEF PresentInv, UntouchedInv, ReturnsAsInBootCycle
  <2>8. QED BY <2>5, <2>6, <2>7 DEF OnTimeout, Headless
<1>2. PresentInv => UnattendedIsDecisionIfTopBoots
  BY <1>1 DEF UnattendedIsDecisionIfTopBoots
<1>3. QED BY <1>2, PresentInvariance, PTL

-----------------------------------------------------------------------------
(* What is seen of the screens.                                            *)

(* What every display is taken to have: the modes that UEFI requires of a  *)
(* graphics output start at 640x480.                                       *)
UsualDisplay == {d \in [w : Nat, h : Nat] : d.w >= 640 /\ d.h >= 480}

(* An entry without a title leaves nothing to be seen.                    *)
TitlesHaveText == TitleChars >= 1

(* What is drawn below a text does not cover it.                           *)
LEMMA BelowIsApart ==
  ASSUME NEW one, NEW other, one.y + one.h <= other.y
  PROVE  Apart(one, other)
BY DEF Apart

(* fit() cuts a title to the room there is, and leaves some of it.         *)
LEMMA TitleFits ==
  ASSUME NEW row \in Nat, NEW x \in Nat, NEW y \in Nat, NEW room \in Nat,
         room >= 36, TitlesHaveText
  PROVE  LET title == Title(row, x, y, room)
         IN title = [row |-> row, x |-> x, y |-> y, w |-> title.w, h |-> 16] /\ title.w \in 1..room
<1> DEFINE n == Fit(TitleChars, FitChars(room, 2))
<1>1. Advance(2) = 18 /\ TextHeight(2) = 16
  BY DEF Advance, TextHeight
<1>2. FitChars(room, 2) \in Nat /\ FitChars(room, 2) >= 2 /\ FitChars(room, 2) * 18 <= room
  BY <1>1 DEF FitChars
<1>3. n \in Nat /\ n >= 1 /\ n <= FitChars(room, 2)
  BY <1>2, TitlesAssumption DEF Fit, TitlesHaveText
<1> HIDE DEF n
<1>4. n * 18 \in 1..room
  BY <1>2, <1>3
<1>5. Title(row, x, y, room) = [row |-> row, x |-> x, y |-> y, w |-> n * 18, h |-> 16]
  BY <1>1 DEF Title, Text, Box, n
<1>6. QED BY <1>4, <1>5

(* The top of a card.                                                      *)
LEMMA CardTops ==
  ASSUME NEW row \in Nat
  PROVE  CardTop(row) \in Nat /\ CardTop(row) = 134 + 106 * row
<1>1. CardHeight + CardGap = 106 /\ ListTop = 134
  BY DEF CardHeight, CardGap, ListTop, TopBar
<1>2. CardTop(row) = 134 + row * 106
  BY <1>1 DEF CardTop
<1>3. QED BY <1>2

(* What is drawn of a row is on its three layers.                          *)
LEMMA CardIsOnItsLayers ==
  ASSUME NEW d \in UsualDisplay, NEW row \in Nat, NEW selected \in BOOLEAN,
         NEW drawn \in DrawnCard(d, row, selected)
  PROVE  /\ drawn.layer \in RowLayer(row)..(RowLayer(row) + 2)
         /\ drawn.box.y \in Nat /\ drawn.box.y >= CardTop(row)
<1>1. CardTop(row) \in Nat /\ RowLayer(row) \in Nat
  BY CardTops DEF RowLayer
<1>2. Bold(Title(row, Margin + 40, CardTop(row) + 14, Minus(CardWidth(d), 56))).y = CardTop(row) + 14
  BY DEF Bold, Title, Text, Box
<1>3. QED BY <1>1, <1>2 DEF DrawnCard, On, Text, Box

(* The key bar is drawn below every card.                                  *)
LEMMA KeybarIsBelow ==
  ASSUME NEW d \in UsualDisplay, NEW seconds \in Nat, NEW box \in KeybarBoxes(d, seconds)
  PROVE  box.y \in Nat /\ box.y >= d.h - 58
<1>1. Minus(d.h, 58) = d.h - 58 /\ Minus(d.h, 44) = d.h - 44
  BY DEF Minus, UsualDisplay
<1>2. d.h \in Nat
  BY DEF UsualDisplay
<1>3. box.y \in {Minus(d.h, 58), (Minus(d.h, 44) + 6) - 6, (Minus(d.h, 44) + 6) - 2}
  BY DEF KeybarBoxes, Box
<1>4. QED BY <1>1, <1>2, <1>3, d.h >= 480 DEF UsualDisplay

(* In one column the selected row has its title on its card, if there is   *)
(* room for the card.                                                      *)
LEMMA CardIsSeen ==
  ASSUME NEW d \in UsualDisplay, TitlesHaveText,
         NEW rows \in Nat, NEW at \in Cards(d, rows), NEW seconds \in Nat, ~TwoColumns(d)
  PROVE  IsSeen(at, DrawnMenu(d, rows, at, seconds), d)
<1> DEFINE room == Minus(CardWidth(d), 56)
           title == Bold(Title(at, Margin + 40, CardTop(at) + 14, room))
           one == [layer |-> RowLayer(at) + 1, box |-> title]
           drawn == DrawnMenu(d, rows, at, seconds)
<1>1. d.w \in Nat /\ d.w >= 640 /\ d.h \in Nat /\ d.h >= 480
  BY DEF UsualDisplay
<1>2. at \in Nat /\ CardTop(at) + 92 <= d.h - 74
  BY <1>1 DEF Cards, ListBottom, Minus, CardHeight
<1>3. CardTop(at) \in Nat /\ CardTop(at) = 134 + 106 * at
  BY <1>2, CardTops
<1>4. room \in Nat /\ room >= 36 /\ 80 + room + 1 <= d.w
  BY <1>1 DEF CardWidth, LeftWidth, TwoColumns, Minus, Margin
<1>5. PICK w \in 1..room : title = [row |-> at, x |-> 80, y |-> CardTop(at) + 14, w |-> w + 1, h |-> 16]
  <2> DEFINE x == Margin + 40
             y == CardTop(at) + 14
  <2>1. x \in Nat /\ x = 80 /\ y \in Nat
    BY <1>3 DEF Margin
  <2> HIDE DEF room, x, y
  <2> DEFINE plain == Title(at, x, y, room)
  <2>2. plain = [row |-> at, x |-> x, y |-> y, w |-> plain.w, h |-> 16] /\ plain.w \in 1..room
    <3>1. at \in Nat /\ room \in Nat /\ room >= 36
      BY <1>2, <1>4
    <3>2. x \in Nat /\ y \in Nat
      BY <2>1
    <3>3. QED BY <3>1, <3>2, TitleFits
  <2> HIDE DEF plain
  <2>3. title = Bold(plain)
    BY DEF title, plain, x, y
  <2>4. QED BY <2>1, <2>2, <2>3 DEF Bold, y
<1> HIDE DEF room, title
<1>6. one \in drawn
  <2>1. one \in DrawnCard(d, at, at = at)
    BY DEF DrawnCard, On, title, room
  <2>2. QED BY <2>1 DEF DrawnMenu
<1>7. OnDisplay(title, d)
  BY <1>1, <1>2, <1>3, <1>4, <1>5 DEF OnDisplay
<1>8. ASSUME NEW other \in drawn, other.layer > one.layer
      PROVE  Apart(title, other.box)
  <2>1. one.layer = 3 * at + 3
    BY <1>2 DEF RowLayer
  <2>2. CASE other \in On(1, TopBarBoxes(d, 6, 16, 26))
    BY <1>2, <1>8, <2>1, <2>2 DEF On
  <2>3. ASSUME NEW row \in Cards(d, rows), other \in DrawnCard(d, row, at = row)
        PROVE  Apart(title, other.box)
    <3>1. row \in Nat
      BY DEF Cards
    <3>2. /\ other.layer \in RowLayer(row)..(RowLayer(row) + 2)
          /\ other.box.y \in Nat /\ other.box.y >= CardTop(row)
      BY <2>3, <3>1, CardIsOnItsLayers
    <3>3. row >= at
      BY <1>2, <1>8, <2>1, <3>1, <3>2 DEF RowLayer
    <3>4. CASE row = at
      <4>1. other.box.y >= CardTop(at) + 40 /\ other.box.y \in Nat
        BY <1>2, <1>3, <1>8, <2>1, <2>3, <3>4 DEF DrawnCard, On, Text, Box, RowLayer
      <4>2. QED BY <1>3, <1>5, <4>1, BelowIsApart
    <3>5. CASE row > at
      <4>1. CardTop(row) >= CardTop(at) + 106 /\ CardTop(row) \in Nat
        BY <1>2, <1>3, <3>1, <3>5, CardTops
      <4>2. QED BY <1>2, <1>3, <1>5, <3>2, <4>1, BelowIsApart
    <3>6. QED BY <1>2, <3>1, <3>3, <3>4, <3>5
  <2>4. CASE other \in On(RowLayer(rows + 1), KeybarBoxes(d, seconds))
    BY <1>1, <1>2, <1>3, <1>5, <2>4, KeybarIsBelow, BelowIsApart DEF On
  <2>5. QED BY <1>8, <2>2, <2>3, <2>4 DEF DrawnMenu
<1>9. QED BY <1>5, <1>6, <1>7, <1>8 DEF IsSeen

(* In two columns the panel shows the title of the selected row, whichever *)
(* cards there is room for.                                                *)
LEMMA PanelIsSeen ==
  ASSUME NEW d \in UsualDisplay, TitlesHaveText,
         NEW rows \in Nat, NEW at \in Nat, NEW seconds \in Nat, TwoColumns(d)
  PROVE  IsSeen(at, DrawnMenu(d, rows, at, seconds), d)
<1> DEFINE x == Margin + LeftWidth(d)
           inner == Minus(Minus(Minus(d.w, x), Margin), 48)
           height == Minus(ListBottom(d), ListTop + 12)
           banner == ListTop + Minus(height, 96)
           title == Bold(Title(at, x + 24, ListTop + 22, inner))
           layer == RowLayer(rows)
           one == [layer |-> layer + 1, box |-> title]
           drawn == DrawnMenu(d, rows, at, seconds)
<1>1. d.w \in Nat /\ d.w >= 1000 /\ d.h \in Nat /\ d.h >= 480
  BY DEF UsualDisplay, TwoColumns
<1>2. LeftWidth(d) \in Nat /\ LeftWidth(d) * 20 <= d.w * 11
  BY <1>1 DEF LeftWidth, TwoColumns
<1>3. x \in Nat /\ inner \in Nat /\ inner >= 36 /\ x + 24 + inner + 1 <= d.w
  BY <1>1, <1>2 DEF Margin, Minus
<1>4. ListTop + 22 \in Nat /\ ListTop + 22 = 156
  BY DEF ListTop, TopBar
<1>5. banner \in Nat /\ banner >= 298
  BY <1>1 DEF ListBottom, ListTop, TopBar, Minus
<1>6. title = [row |-> at, x |-> x + 24, y |-> 156, w |-> title.w, h |-> 16]
      /\ title.w \in 1..(inner + 1)
  <2> DEFINE x24 == x + 24
             y == ListTop + 22
             plain == Title(at, x24, y, inner)
  <2>1. x24 \in Nat /\ y \in Nat /\ y = 156 /\ inner \in Nat /\ inner >= 36
    BY <1>3, <1>4
  <2> HIDE DEF x24, y, inner
  <2>2. plain = [row |-> at, x |-> x24, y |-> y, w |-> plain.w, h |-> 16] /\ plain.w \in 1..inner
    <3>1. x24 \in Nat /\ y \in Nat /\ inner \in Nat /\ inner >= 36
      BY <2>1
    <3>2. QED BY <3>1, TitleFits
  <2> HIDE DEF plain
  <2>3. title = Bold(plain)
    BY DEF title, plain, x24, y, inner
  <2>4. QED BY <2>1, <2>2, <2>3 DEF Bold, x24
<1>7. one \in drawn
  <2>1. one \in DrawnPanel(d, at, layer)
    BY DEF DrawnPanel, On
  <2>2. QED BY <2>1 DEF DrawnMenu
<1> HIDE DEF title
<1>8. OnDisplay(title, d)
  BY <1>1, <1>3, <1>6 DEF OnDisplay
<1>9. ASSUME NEW other \in drawn, other.layer > one.layer
      PROVE  Apart(title, other.box)
  <2>1. layer \in Nat /\ layer = 3 * rows + 2 /\ one.layer = layer + 1
    BY DEF RowLayer
  <2>2. CASE other \in On(1, TopBarBoxes(d, 6, 16, 26))
    BY <1>9, <2>1, <2>2 DEF On
  <2>3. ASSUME NEW row \in Cards(d, rows), other \in DrawnCard(d, row, at = row)
        PROVE  FALSE
    <3>1. row \in Nat /\ row < rows
      BY DEF Cards
    <3>2. other.layer \in RowLayer(row)..(RowLayer(row) + 2)
      BY <2>3, <3>1, CardIsOnItsLayers
    <3>3. QED BY <1>9, <2>1, <3>1, <3>2 DEF RowLayer
  <2>4. CASE other \in DrawnPanel(d, at, layer)
    <3>1. other.box.y \in {ListTop + 50, ListTop + 66, banner, banner + 40}
      <4> HIDE DEF layer, banner
      <4>1. other \notin On(layer, {Box(x, ListTop, Minus(Minus(d.w, x), Margin), height)})
        BY <1>9, <2>1 DEF On
      <4>2. other \notin On(layer + 1, {title})
        BY <1>9, <2>1 DEF On
      <4>3. QED BY <2>4, <4>1, <4>2 DEF DrawnPanel, On, Box, title, banner
    <3>2. other.box.y \in Nat /\ other.box.y >= 172
      BY <1>5, <3>1 DEF ListTop, TopBar
    <3>3. QED BY <1>6, <3>2, BelowIsApart
  <2>5. CASE other \in On(RowLayer(rows + 1), KeybarBoxes(d, seconds))
    <3>1. other.box \in KeybarBoxes(d, seconds)
      BY <2>5 DEF On
    <3>2. other.box.y \in Nat /\ other.box.y >= 172
      BY <1>1, <3>1, KeybarIsBelow
    <3>3. QED BY <1>6, <3>2, BelowIsApart
  <2>6. QED BY <1>9, <2>2, <2>3, <2>4, <2>5 DEF DrawnMenu
<1>10. QED BY <1>6, <1>7, <1>8, <1>9 DEF IsSeen

(* The top of a row of the recovery screen.                                *)
LEMMA RecoveryRowTops ==
  ASSUME NEW row \in Nat
  PROVE  RecoveryRowTop(row) \in Nat /\ RecoveryRowTop(row) = 142 + 30 * row
BY DEF RecoveryRowTop, DiagnosisTop, TopBar

(* What is drawn of a row is on its three layers.                          *)
LEMMA RecoveryRowIsOnItsLayers ==
  ASSUME NEW d \in UsualDisplay, NEW row \in Nat,
         NEW selected \in BOOLEAN, NEW recommended \in BOOLEAN,
         NEW drawn \in DrawnRecoveryRow(d, row, selected, recommended)
  PROVE  /\ drawn.layer \in RowLayer(row)..(RowLayer(row) + 2)
         /\ drawn.box.y \in Nat /\ drawn.box.y >= RecoveryRowTop(row) - 4
<1>1. RecoveryRowTop(row) \in Nat /\ RecoveryRowTop(row) >= 142 /\ RowLayer(row) \in Nat
  BY RecoveryRowTops DEF RowLayer
<1>2. Title(row, Margin + 44, RecoveryRowTop(row), RecoveryRoom(d, recommended)).y = RecoveryRowTop(row)
  BY DEF Title, Text, Box
<1>3. drawn.box.y \in {RecoveryRowTop(row), RecoveryRowTop(row) - 4}
  BY <1>2 DEF DrawnRecoveryRow, On, TextRight, Text, Box
<1>4. drawn.layer \in {RowLayer(row), RowLayer(row) + 1, RowLayer(row) + 2}
  BY DEF DrawnRecoveryRow, On
<1>5. QED BY <1>1, <1>3, <1>4

(* The selected row of the recovery screen, where there is room for it.    *)
LEMMA RecoveryRowIsSeen ==
  ASSUME NEW d \in UsualDisplay, TitlesHaveText,
         NEW rows \in Nat, NEW at \in RecoveryRows(rows), NEW best \in Nat,
         RecoveryRowTop(at) + TextHeight(2) <= RecoveryHint(d).y
  PROVE  IsSeen(at, DrawnRecovery(d, rows, at, best), d)
<1> DEFINE room == RecoveryRoom(d, best = at)
           top == RecoveryRowTop(at)
           title == Title(at, Margin + 44, top, room)
           one == [layer |-> RowLayer(at) + 1, box |-> title]
           drawn == DrawnRecovery(d, rows, at, best)
<1>1. d.w \in Nat /\ d.w >= 640 /\ d.h \in Nat /\ d.h >= 480
  BY DEF UsualDisplay
<1>2. at \in Nat /\ at < rows
  BY DEF RecoveryRows, AtMost
<1>3. top \in Nat /\ top >= 142 /\ top + 16 <= d.h - 34 /\ RecoveryHint(d).y = d.h - 34
  BY <1>1, <1>2, RecoveryRowTops DEF RecoveryHint, Text, Box, Minus, TextHeight
<1>4. LeftWidth(d) \in Nat /\ LeftWidth(d) >= 550 /\ LeftWidth(d) + 80 <= d.w
  BY <1>1 DEF LeftWidth, TwoColumns, Minus, Margin
<1>5. CardWidth(d) \in Nat /\ CardWidth(d) = LeftWidth(d) - 20
  BY <1>4 DEF CardWidth, Minus, Margin
<1>6. Advance(2) = 18
  BY DEF Advance
<1>7. /\ room \in Nat /\ room >= 36 /\ 84 + room <= LeftWidth(d)
      /\ best = at => 84 + room <= CardWidth(d) - 198
  BY <1>4, <1>5, <1>6 DEF RecoveryRoom, Minus
<1>8. title = [row |-> at, x |-> 84, y |-> top, w |-> title.w, h |-> 16] /\ title.w \in 1..room
  <2> DEFINE x == Margin + 44
             plain == Title(at, x, top, room)
  <2>1. x \in Nat /\ x = 84 /\ top \in Nat /\ room \in Nat /\ room >= 36
    BY <1>3, <1>7 DEF Margin
  <2> HIDE DEF x, top, room
  <2>2. plain = [row |-> at, x |-> x, y |-> top, w |-> plain.w, h |-> 16] /\ plain.w \in 1..room
    <3>1. at \in Nat /\ x \in Nat /\ top \in Nat /\ room \in Nat /\ room >= 36
      BY <1>2, <2>1
    <3>2. QED BY <3>1, TitleFits
  <2>3. QED BY <2>1, <2>2 DEF x
<1>9. one \in drawn
  <2>1. one \in DrawnRecoveryRow(d, at, at = at, best = at)
    BY DEF DrawnRecoveryRow, On
  <2>2. QED BY <2>1 DEF DrawnRecovery
<1> HIDE DEF title, room, top
<1>10. OnDisplay(title, d)
  BY <1>1, <1>3, <1>4, <1>7, <1>8 DEF OnDisplay
<1>11. ASSUME NEW other \in drawn, other.layer > one.layer
       PROVE  Apart(title, other.box)
  <2> DEFINE panel == AtMost((IF AtMost(rows, 12) > 1 THEN AtMost(rows, 12) ELSE 1) * 30 + 28,
                             Minus(d.h, DiagnosisTop + 70))
  <2>1. one.layer = 3 * at + 3
    BY <1>2 DEF RowLayer
  <2>2. CASE other \in On(1, TopBarBoxes(d, 17, 32, 19)
                             \cup {Box(Margin, DiagnosisTop, CardWidth(d), panel)})
    BY <1>2, <1>11, <2>1, <2>2 DEF On
  <2>3. ASSUME NEW row \in RecoveryRows(rows), other \in DrawnRecoveryRow(d, row, at = row, best = row)
        PROVE  Apart(title, other.box)
    <3>1. row \in Nat
      BY DEF RecoveryRows
    <3>2. /\ other.layer \in RowLayer(row)..(RowLayer(row) + 2)
          /\ other.box.y \in Nat /\ other.box.y >= RecoveryRowTop(row) - 4
      BY <2>3, <3>1, RecoveryRowIsOnItsLayers
    <3>3. row >= at
      BY <1>2, <1>11, <2>1, <3>1, <3>2 DEF RowLayer
    <3>4. CASE row = at
      <4>1. best = at /\ other.box = TextRight(Margin + CardWidth(d) - 16, top, 11, 2)
        BY <1>2, <1>11, <2>1, <2>3, <3>4 DEF DrawnRecoveryRow, On, RowLayer, top
      <4>2. other.box.x = CardWidth(d) - 174
        BY <1>4, <1>5, <1>6, <4>1 DEF TextRight, Text, Box, Minus, Margin
      <4>3. title.x + title.w <= other.box.x
        BY <1>5, <1>7, <1>8, <4>1, <4>2
      <4>4. QED BY <4>3 DEF Apart
    <3>5. CASE row > at
      <4>1. RecoveryRowTop(row) >= top + 30 /\ RecoveryRowTop(row) \in Nat
        BY <1>2, <3>1, <3>5, RecoveryRowTops DEF top
      <4>2. QED BY <1>3, <1>8, <3>2, <4>1, BelowIsApart
    <3>6. QED BY <1>2, <3>1, <3>3, <3>4, <3>5
  <2>4. CASE other.box = DiagnosticsBox(d)
    <3>1. other.box.x = LeftWidth(d) + 40
      BY <1>4, <2>4 DEF DiagnosticsBox, Box, Margin
    <3>2. title.x + title.w <= other.box.x
      BY <1>4, <1>7, <1>8, <3>1
    <3>3. QED BY <3>2 DEF Apart
  <2>5. CASE other.box = RecoveryHint(d)
    BY <1>1, <1>3, <1>8, <2>5, BelowIsApart
  <2>6. other \in On(RowLayer(rows), (IF TwoColumns(d) THEN {DiagnosticsBox(d)} ELSE {})
                            \cup IF d.h > TopBar + 60 THEN {RecoveryHint(d)} ELSE {})
        => other.box = DiagnosticsBox(d) \/ other.box = RecoveryHint(d)
    BY DEF On
  <2>7. QED BY <1>11, <2>2, <2>3, <2>4, <2>5, <2>6 DEF DrawnRecovery
<1>12. QED BY <1>8, <1>9, <1>10, <1>11 DEF IsSeen

(* Enter boots what the user can read, on every display of the usual size: *)
(* no arrangement of the rows, no length of the titles and no resolution   *)
(* puts anything over the title of the row the cursor is on.  Title, card, *)
(* panel, key bar, pill and hint are each laid out from the size of the    *)
(* display by a computation of their own (render.rs).                      *)
THEOREM EnterBootsWhatIsSeen ==
  ASSUME Displays \subseteq UsualDisplay, TitlesHaveText
  PROVE  Spec => []EnterIsSeen
<1>1. ASSUME PresentInv, NEW d \in Displays
      PROVE  /\ screen = "menu" /\ RowIsBootable(graph, cursor)
                  /\ (TwoColumns(d) \/ cursor \in Cards(d, RowCount(graph))) =>
                  IsSeen(cursor, DrawnMenu(d, RowCount(graph), cursor, IF counting THEN 1 ELSE 0), d)
             /\ screen = "recovery" /\ RowIsBootable(graph, pick)
                  /\ pick \in RecoveryRows(RowCount(graph))
                  /\ RecoveryRowTop(pick) + TextHeight(2) <= RecoveryHint(d).y =>
                  IsSeen(pick, DrawnRecovery(d, RowCount(graph), pick, FirstBootableRow(graph)), d)
  <2>1. d \in UsualDisplay
    OBVIOUS
  <2>2. graph \in Graph /\ cursor \in Nat
    BY <1>1, PresentGraphs, Numbers DEF PresentInv, TypeOK
  <2>3. RowCount(graph) \in Nat /\ FirstBootableRow(graph) \in Nat
    <3>1. RowCount(graph) \in Nat /\ FirstBootableRow(graph) \in 0..RowCount(graph)
      BY <1>1, <2>2, FirstBootableRowIsRow, Numbers DEF PresentInv
    <3>2. QED BY <3>1
  <2>4. (IF counting THEN 1 ELSE 0) \in Nat
    OBVIOUS
  <2>5. TwoColumns(d) => IsSeen(cursor, DrawnMenu(d, RowCount(graph), cursor, IF counting THEN 1 ELSE 0), d)
    BY <2>1, <2>2, <2>3, <2>4, PanelIsSeen
  <2>6. ~TwoColumns(d) /\ cursor \in Cards(d, RowCount(graph))
        => IsSeen(cursor, DrawnMenu(d, RowCount(graph), cursor, IF counting THEN 1 ELSE 0), d)
    BY <2>1, <2>3, <2>4, CardIsSeen
  <2>7. pick \in RecoveryRows(RowCount(graph))
        /\ RecoveryRowTop(pick) + TextHeight(2) <= RecoveryHint(d).y
        => IsSeen(pick, DrawnRecovery(d, RowCount(graph), pick, FirstBootableRow(graph)), d)
    BY <2>1, <2>3, RecoveryRowIsSeen
  <2>8. QED BY <2>5, <2>6, <2>7
<1>2. PresentInv => EnterIsSeen
  BY <1>1 DEF EnterIsSeen
<1>3. QED BY <1>2, PresentInvariance, PTL
=============================================================================
