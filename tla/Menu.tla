-------------------------------- MODULE Menu --------------------------------
(***************************************************************************)
(* The cursor of the boot menu and of the recovery screen                  *)
(* (crates/ui-gfx/src/menu.rs and recovery.rs) as functions of the graph.  *)
(* Both screens show every entry of the graph in its order.  Rows count    *)
(* from 0, as in the code; row r shows g.rows[r + 1].                      *)
(***************************************************************************)
EXTENDS Policy

RowCount(g) == Len(g.rows)

RowIsBootable(g, r) ==
  r < RowCount(g) /\ IsBootable(g.health[g.rows[r + 1]])

RowEntry(g, r) == g.rows[r + 1]

(* rows.iter().position(bootable).unwrap_or(0)                             *)
FirstBootableRow(g) ==
  LET rows == {r \in 0..(RowCount(g) - 1) : RowIsBootable(g, r)}
  IN IF rows = {} THEN 0 ELSE CHOOSE r \in rows : \A q \in rows : r <= q

MenuMoveUnwrapped(g, r, delta) == r + delta

(* Menu::move_cursor: one row, wrapping, whatever the row shows.           *)
MenuMove(g, r, delta) ==
  IF RowCount(g) = 0 THEN r ELSE (r + delta) % RowCount(g)

(* Recovery::move_cursor: on to the next bootable row, at most once round. *)
RecoveryMove(g, r, delta) ==
  LET n     == RowCount(g)
      Row(k) == (r + k * delta) % n
      stops == {k \in 1..n : RowIsBootable(g, Row(k))}
  IN  IF n = 0 THEN r
      ELSE IF stops = {} THEN Row(n)
      ELSE Row(CHOOSE k \in stops : \A j \in stops : k <= j)

CursorAtFirst(g, decision) == FirstBootableRow(g)

(* Where present() leaves the cursor before it waits: the menu is built on *)
(* its first bootable row, and then Down is pressed once for every row     *)
(* above the decision's.                                                   *)
InitialCursor(g, decision) ==
  IF decision.chosen \notin Listed(g)
  THEN FirstBootableRow(g)
  ELSE MenuMove(g, FirstBootableRow(g), Position(g, decision.chosen) - 1)

(* What a countdown that runs out with the cursor on row r selects: that   *)
(* row if it can be booted, else the decision, which may be none.          *)
OnTimeout(g, decision, r) ==
  IF RowIsBootable(g, r) THEN RowEntry(g, r) ELSE decision.chosen

(* With no graphics the decision is taken, else the first bootable entry.  *)
Headless(g, decision) ==
  IF decision.chosen # NoEntry THEN decision.chosen
  ELSE IF BootableEntries(g) = {} THEN NoEntry
  ELSE RowEntry(g, FirstBootableRow(g))
=============================================================================
