------------------------------ MODULE Present ------------------------------
(***************************************************************************)
(* Stage 7 of the boot pipeline: present() of the engine, with the screens *)
(* it drives.  One action per event its loop handles: a poll that times    *)
(* out (Tick, CountdownEnds) or a key.  A key the input mapper does not    *)
(* know is no event at all.                                                *)
(***************************************************************************)
EXTENDS Menu, Screen

CONSTANTS
  Graphs,      \* the graphs assessment may produce
  Histories,   \* the histories the policy may have read
  Timeouts     \* the configured timeouts, in seconds

ASSUME PresentGraphs == Graphs \subseteq Graph
ASSUME PresentHistories == Histories \subseteq History
ASSUME TimeoutsAssumption == Timeouts \subseteq Nat

VARIABLES
  graph, decision, timeout,   \* the arguments of present()
  screen,     \* which loop is running: menu, recovery, edit, or none
  cursor,     \* the menu's cursor
  pick,       \* the recovery screen's cursor
  counting,   \* the countdown still runs
  elapsed,    \* seconds it has run
  choice,     \* the entry present() returned, NoEntry for None
  touched     \* history: a key was pressed

vars == <<graph, decision, timeout, screen, cursor, pick, counting, elapsed,
          choice, touched>>

args == <<graph, decision, timeout>>

Screens == {"menu", "recovery", "edit", "returned", "reset"}

-----------------------------------------------------------------------------

(* Framebuffer::acquire() may fail: present() then returns at once.        *)
Init ==
  /\ graph \in Graphs
  /\ \E h \in Histories, s \in Strategies : decision = Decide(graph, h, s)
  /\ timeout \in Timeouts
  /\ counting = (timeout # 0)
  /\ elapsed = 0
  /\ pick = 0
  /\ touched = FALSE
  /\ cursor = InitialCursor(graph, decision)
  /\ \/ screen = "menu" /\ choice = NoEntry
     \/ screen = "returned" /\ choice = Headless(graph, decision)

(* present() returns e.                                                    *)
Return(e) ==
  /\ choice' = e
  /\ screen' = "returned"

TickForever ==
  /\ screen = "menu"
  /\ counting
  /\ elapsed + 1 < timeout
  /\ UNCHANGED <<args, screen, cursor, pick, counting, elapsed, choice, touched>>

(* A second without a key while the countdown runs.                        *)
Tick ==
  /\ screen = "menu"
  /\ counting
  /\ elapsed + 1 < timeout
  /\ elapsed' = elapsed + 1
  /\ UNCHANGED <<args, screen, cursor, pick, counting, choice, touched>>

CountdownEnds ==
  /\ screen = "menu"
  /\ counting
  /\ elapsed + 1 >= timeout
  /\ elapsed' = elapsed + 1
  /\ Return(OnTimeout(graph, decision, cursor))
  /\ UNCHANGED <<args, cursor, pick, counting, touched>>

KeyKeepsCounting ==
  /\ screen = "menu"
  /\ touched' = TRUE
  /\ UNCHANGED <<args, elapsed, counting>>

(* Any key of the menu cancels the countdown for good.                     *)
Key ==
  /\ screen = "menu"
  /\ counting' = FALSE
  /\ touched' = TRUE
  /\ UNCHANGED <<args, elapsed>>

Navigate ==
  /\ Key
  /\ \E delta \in {-1, 1} : cursor' = MenuMove(graph, cursor, delta)
  /\ UNCHANGED <<screen, pick, choice>>

EnterUnchecked ==
  /\ Key
  /\ RowCount(graph) > 0
  /\ Return(RowEntry(graph, cursor))
  /\ UNCHANGED <<cursor, pick>>

(* Enter and E do nothing on a row that cannot be booted.                  *)
Enter ==
  /\ Key
  /\ RowIsBootable(graph, cursor)
  /\ Return(RowEntry(graph, cursor))
  /\ UNCHANGED <<cursor, pick>>

Edit ==
  /\ Key
  /\ RowIsBootable(graph, cursor)
  /\ screen' = "edit"
  /\ UNCHANGED <<cursor, pick, choice>>

(* Escape, a shell that is absent or returns, a firmware setup that the    *)
(* firmware does not support, Enter or E on an unbootable row.             *)
KeyWithoutEffect ==
  /\ Key
  /\ UNCHANGED <<screen, cursor, pick, choice>>

(* The reset into firmware setup, or a shell that keeps the machine.       *)
LeaveForGood ==
  /\ Key
  /\ screen' = "reset"
  /\ UNCHANGED <<cursor, pick, choice>>

(* edit_cmdline(): Enter accepts the line, Esc or a lost console cancels.  *)
AcceptEdit ==
  /\ screen = "edit"
  /\ Return(RowEntry(graph, cursor))
  /\ UNCHANGED <<args, cursor, pick, counting, elapsed, touched>>

CancelEdit ==
  /\ screen = "edit"
  /\ screen' = "menu"
  /\ UNCHANGED <<args, cursor, pick, counting, elapsed, choice, touched>>

(* The recovery screen is built anew each time; present() tells it of no   *)
(* failed entry, so it recommends the first bootable row.                  *)
OpenRecovery ==
  /\ Key
  /\ screen' = "recovery"
  /\ pick' = FirstBootableRow(graph)
  /\ UNCHANGED <<cursor, choice>>

NavigateRecovery ==
  /\ screen = "recovery"
  /\ \E delta \in {-1, 1} : pick' = RecoveryMove(graph, pick, delta)
  /\ UNCHANGED <<args, screen, cursor, counting, elapsed, choice, touched>>

RecoveryEnter ==
  /\ screen = "recovery"
  /\ RowIsBootable(graph, pick)
  /\ Return(RowEntry(graph, pick))
  /\ UNCHANGED <<args, cursor, pick, counting, elapsed, touched>>

LeaveRecovery ==
  /\ screen = "recovery"
  /\ screen' = "menu"
  /\ UNCHANGED <<args, cursor, pick, counting, elapsed, choice, touched>>

Countdown == Tick \/ CountdownEnds

Next ==
  \/ Countdown
  \/ Navigate
  \/ Enter
  \/ Edit
  \/ KeyWithoutEffect
  \/ LeaveForGood
  \/ AcceptEdit
  \/ CancelEdit
  \/ OpenRecovery
  \/ NavigateRecovery
  \/ RecoveryEnter
  \/ LeaveRecovery

Spec == Init /\ [][Next]_vars

(* poll_key returns after a second at the latest, so a countdown that no   *)
(* key interrupts goes on.  Nothing is assumed of the user.                *)
FairSpec == Spec /\ WF_vars(Countdown)

-----------------------------------------------------------------------------

TypeOK ==
  /\ graph \in Graphs
  /\ decision \in [chosen : Entry, reason : Reasons] \cup {NoDecision}
  /\ timeout \in Timeouts
  /\ screen \in Screens
  /\ cursor \in 0..RowCount(graph)
  /\ pick \in 0..RowCount(graph)
  /\ counting \in BOOLEAN
  /\ elapsed \in 0..timeout
  /\ choice \in MaybeEntry
  /\ touched \in BOOLEAN

(* Whatever is pressed, and whether or not there are graphics, the entry   *)
(* handed to the transaction can be booted; and present() comes back       *)
(* without one only when there is none.                                    *)
ChoiceIsBootable ==
  screen = "returned" =>
    IF BootableEntries(graph) = {}
    THEN choice = NoEntry
    ELSE choice \in BootableEntries(graph)

(* Automatic boot is decided by no key at all: after any key, however the  *)
(* screens are walked, the countdown never runs again, and present()       *)
(* returns from it only untouched.                                         *)
KeyCancelsForGood ==
  [][touched => /\ ~counting'
                /\ elapsed' = elapsed]_vars

(* What Enter boots is what the user can read: on every display the title  *)
(* of the row the cursor is on is drawn whole, within the display, and not *)
(* covered by anything drawn after it - by its card or, where the list has *)
(* no room for the card, by the panel beside it (render.rs:39 "don't       *)
(* collide with the keybar").  No list scrolls, though the cursor goes     *)
(* through all of its rows: on a display too narrow for the panel, a row   *)
(* below the last card is not seen, nor is a row of the recovery screen    *)
(* after the twelfth, or down where the hint is drawn over it.             *)
EnterIsSeen ==
  \A d \in Displays :
    /\ screen = "menu" /\ RowIsBootable(graph, cursor)
         /\ (TwoColumns(d) \/ cursor \in Cards(d, RowCount(graph))) =>
         IsSeen(cursor, DrawnMenu(d, RowCount(graph), cursor, IF counting THEN 1 ELSE 0), d)
    /\ screen = "recovery" /\ RowIsBootable(graph, pick)
         /\ pick \in RecoveryRows(RowCount(graph))
         /\ RecoveryRowTop(pick) + TextHeight(2) <= RecoveryHint(d).y =>
         IsSeen(pick, DrawnRecovery(d, RowCount(graph), pick, FirstBootableRow(graph)), d)

(* An unattended machine is not left at the menu: a countdown ends in a    *)
(* return unless a key cancels it.                                         *)
CountdownResolves == counting ~> (screen = "returned" \/ touched)

(* On a graph whose first row can be booted, what boots unattended is what *)
(* the policy decided.                                                     *)
UnattendedIsDecisionIfTopBoots ==
  screen = "returned" /\ ~touched /\ RowIsBootable(graph, 0) =>
    choice = decision.chosen

(* HOW_IT_WORKS.md:174: on timeout present() returns the policy's chosen   *)
(* id.  pipeline.rs:242 positions the cursor on the policy default.        *)
UnattendedIsDecision ==
  screen = "returned" /\ ~touched => choice = decision.chosen
=============================================================================
