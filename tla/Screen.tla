------------------------------- MODULE Screen -------------------------------
(***************************************************************************)
(* What crates/ui-gfx/src/render.rs draws, as rectangles on layers: what   *)
(* is drawn later is on a higher layer and covers what is below it.  A     *)
(* rectangle that holds a row's title names that row and is alone on its   *)
(* layer; all others name none, and those that no title comes between      *)
(* share a layer.  Colours, glyphs and the texts themselves are left out;  *)
(* a text is as wide as its number of characters.  Lengths are pixels, and *)
(* rows count from 0, as in the code.                                      *)
(***************************************************************************)
EXTENDS Integers, Sequences

CONSTANTS
  Displays,    \* the resolutions of framebuffers: records of w and h
  TitleChars   \* how long the titles of entries are

ASSUME DisplaysAssumption == Displays \subseteq [w : Nat, h : Nat]
ASSUME TitlesAssumption == TitleChars \in Nat

\* theme.rs and font.rs: the metrics of the design.
Margin == 40
TopBar == 82
CardHeight == 92
CardGap == 14
Advance(scale) == (8 + 1) * scale
TextHeight(scale) == 8 * scale

NoRow == -1

Minus(a, b) == IF a > b THEN a - b ELSE 0     \* saturating_sub
AtMost(a, b) == IF a < b THEN a ELSE b

Box(x, y, w, h) == [row |-> NoRow, x |-> x, y |-> y, w |-> w, h |-> h]

\* draw_text_scaled and its kin, of n characters.
Text(x, y, n, scale) == Box(x, y, n * Advance(scale), TextHeight(scale))
TextRight(right, y, n, scale) == Text(Minus(right, n * Advance(scale)), y, n, scale)

FitChars(w, scale) == w \div Advance(scale)

\* fit: as many characters as there is room for, an ellipsis being the last.
Fit(n, max) ==
  IF max = 0 THEN 0
  ELSE IF n <= max THEN n
  ELSE (IF max > 2 THEN max - 1 ELSE 1) + 1

Title(row, x, y, room) ==
  [Text(x, y, Fit(TitleChars, FitChars(room, 2)), 2) EXCEPT !.row = row]

\* draw_text_bold: the text again, one pixel on.
Bold(box) == [box EXCEPT !.w = @ + 1]

On(layer, boxes) == {[layer |-> layer, box |-> box] : box \in boxes}

\* The three layers of the row-th of a list's rows, above the screen's own.
RowLayer(row) == 3 * row + 2

-----------------------------------------------------------------------------
(* The menu.                                                               *)

TwoColumns(d) == d.w >= 1000
LeftWidth(d) == IF TwoColumns(d) THEN (d.w * 11) \div 20 ELSE Minus(d.w, 2 * Margin)
CardWidth(d) == Minus(LeftWidth(d), Margin \div 2)
ListTop == TopBar + 52
ListBottom(d) == Minus(d.h, 74)
CardTop(row) == ListTop + row * (CardHeight + CardGap)

\* The brand, the status at the right, a line, and the heading under it.
TopBarBoxes(d, brandChars, statusChars, headingChars) ==
  { Text(Margin + 28, 28, brandChars, 3),
    TextRight(Minus(d.w, Margin), 34, statusChars, 2),
    Box(Margin - 10, TopBar, Minus(d.w, 2 * (Margin - 10)), 2),
    Text(Margin, TopBar + 20, headingChars, 2) }

\* The rows whose cards fit above the key bar: the list stops at the first
\* that does not, and does not scroll.
Cards(d, rows) ==
  {row \in 0..(rows - 1) : CardTop(row) + CardHeight <= ListBottom(d)}

\* draw_card: the card, the star of the selected one, the title, and two lines.
DrawnCard(d, row, selected) ==
  LET y == CardTop(row)
      room == Minus(CardWidth(d), 56)
  IN On(RowLayer(row), { Box(Margin, y, CardWidth(d), CardHeight),
                         Text(Margin + 14, y + 16, IF selected THEN 1 ELSE 0, 2) })
     \cup On(RowLayer(row) + 1, { Bold(Title(row, Margin + 40, y + 14, room)) })
     \cup On(RowLayer(row) + 2, { Text(Margin + 40, y + 40, FitChars(room, 2), 2),
                                  Text(Margin + 40 + 24, y + 64, 12, 2) })

\* draw_detail_panel, of the menu's selected row.
DrawnPanel(d, row, layer) ==
  LET x == Margin + LeftWidth(d)
      w == Minus(Minus(d.w, x), Margin)
      h == Minus(ListBottom(d), ListTop + 12)
      inner == Minus(w, 48)
      banner == ListTop + Minus(h, 96)
      button == Minus(inner, 12) \div 2
  IN On(layer, { Box(x, ListTop, w, h) })
     \cup On(layer + 1, { Bold(Title(row, x + 24, ListTop + 22, inner)) })
     \cup On(layer + 2,
            { Box(x + 24, ListTop + 50, inner, 1),
              Box(x + 24, ListTop + 66, inner, 2 * 28 + TextHeight(2)) }
            \cup IF banner <= ListTop + 66 + 2 * 28 + 20 THEN {}
                 ELSE { Box(x + 24, banner, inner, 28),
                        Box(x + 24, banner + 40, button, 34),
                        Box(x + 24 + button + 12, banner + 40, button, 34) })

\* The characters of the keys' caps and labels.
Keys == << <<1, 6>>, <<1, 4>>, <<1, 4>>, <<1, 8>>, <<1, 8>>, <<1, 5>>, <<3, 4>> >>

CapWidth(key) == key[1] * Advance(1) + 12
KeyWidth(key) == CapWidth(key) + 6 + key[2] * Advance(1) + 18

KeyX[i \in DOMAIN Keys] ==
  IF i = 1 THEN Margin ELSE KeyX[i - 1] + KeyWidth(Keys[i - 1])

\* draw_keybar: the pill, and keys up to the first that reaches it.
KeybarBoxes(d, secondsChars) ==
  LET y == Minus(d.h, 44) + 6
      pill == (10 + secondsChars + 1) * Advance(2) + 24
      pillX == Minus(Minus(d.w, Margin), pill)
      pillLeft == IF secondsChars = 0 THEN Minus(d.w, Margin) ELSE Minus(pillX, 16)
  IN IF d.h < TopBar + 70 THEN {}
     ELSE { Box(Margin - 10, Minus(d.h, 58), Minus(d.w, 2 * (Margin - 10)), 2) }
          \cup (IF secondsChars = 0 THEN {} ELSE { Box(pillX, y - 6, pill, 26) })
          \cup { Box(KeyX[i], y - 2, KeyWidth(Keys[i]) - 18, 16) :
                   i \in {i \in DOMAIN Keys : i = 1 \/ KeyX[i] <= pillLeft} }

\* draw: everything on the menu's screen, with its cursor on a row.
DrawnMenu(d, rows, cursor, secondsChars) ==
  On(1, TopBarBoxes(d, 6, 16, 26))
  \cup (UNION {DrawnCard(d, row, cursor = row) : row \in Cards(d, rows)})
  \cup (IF TwoColumns(d) THEN DrawnPanel(d, cursor, RowLayer(rows)) ELSE {})
  \cup On(RowLayer(rows + 1), KeybarBoxes(d, secondsChars))

-----------------------------------------------------------------------------
(* The recovery screen.                                                    *)

DiagnosisTop == TopBar + 44
RecoveryRowTop(row) == DiagnosisTop + 16 + row * 30

\* The room that a recommendation leaves to the title is not taken off.
RecoveryRoomFull(d, recommended) == Minus(CardWidth(d), 64)

\* A recommended row keeps room for the word at its right end.
RecoveryRoom(d, recommended) ==
  Minus(CardWidth(d), 64 + IF recommended THEN 11 * Advance(2) + 20 ELSE 0)

\* The highlight of the selected row, its mark, its title, the recommendation.
DrawnRecoveryRow(d, row, selected, recommended) ==
  LET y == RecoveryRowTop(row)
  IN On(RowLayer(row),
        { Text(Margin + 18, y, 1, 2) }
        \cup IF selected THEN { Box(Margin + 6, y - 4, Minus(CardWidth(d), 12), 28) } ELSE {})
     \cup On(RowLayer(row) + 1,
            { Title(row, Margin + 44, y, RecoveryRoom(d, recommended)) })
     \cup On(RowLayer(row) + 2,
            IF recommended THEN { TextRight(Margin + CardWidth(d) - 16, y, 11, 2) } ELSE {})

DiagnosticsBox(d) ==
  LET x == Margin + LeftWidth(d)
  IN Box(x, DiagnosisTop, Minus(Minus(d.w, x), Margin), Minus(d.h, DiagnosisTop + 70))

RecoveryHint(d) == Text(Margin, Minus(d.h, 34), 44, 2)

\* Twelve rows at most, whatever the screen has room for; it does not scroll.
RecoveryRows(rows) == 0..(AtMost(rows, 12) - 1)

\* draw_recovery: the rows on their panel, then the panel beside it and a hint.
DrawnRecovery(d, rows, cursor, recommended) ==
  LET shown == AtMost(rows, 12)
      panel == AtMost((IF shown > 1 THEN shown ELSE 1) * 30 + 28, Minus(d.h, DiagnosisTop + 70))
  IN On(1, TopBarBoxes(d, 17, 32, 19) \cup { Box(Margin, DiagnosisTop, CardWidth(d), panel) })
     \cup (UNION {DrawnRecoveryRow(d, row, cursor = row, recommended = row) :
                    row \in RecoveryRows(rows)})
     \cup On(RowLayer(rows),
            (IF TwoColumns(d) THEN { DiagnosticsBox(d) } ELSE {})
            \cup IF d.h > TopBar + 60 THEN { RecoveryHint(d) } ELSE {})

-----------------------------------------------------------------------------
(* What an onlooker sees of it.                                            *)

Apart(one, other) ==
  \/ one.w = 0 \/ other.w = 0 \/ one.h = 0 \/ other.h = 0
  \/ one.x + one.w <= other.x \/ other.x + other.w <= one.x
  \/ one.y + one.h <= other.y \/ other.y + other.h <= one.y

OnDisplay(box, d) == box.w > 0 /\ box.x + box.w <= d.w /\ box.y + box.h <= d.h

\* The title of a row is drawn somewhere, on the display and left uncovered.
IsSeen(row, drawn, d) ==
  \E one \in drawn :
    /\ one.box.row = row
    /\ OnDisplay(one.box, d)
    /\ \A other \in drawn : other.layer > one.layer => Apart(one.box, other.box)
=============================================================================
