---------------------------- MODULE MCDirectBoot ----------------------------
(* Instances of DirectBoot for TLC: seven pages of two units.              *)
EXTENDS DirectBoot, FiniteSets

\* No file; no header; no room for its real-mode part (twice); not bootable; a body
\* of three units, of four and of none.
MCKernels ==
  {[size |-> s, setupSects |-> n, valid |-> TRUE, has64 |-> TRUE] :
       s \in {1, 3}, n \in {1}}
    \cup {[size |-> 2, setupSects |-> 2, valid |-> TRUE, has64 |-> TRUE],
          [size |-> 9, setupSects |-> 0, valid |-> TRUE, has64 |-> TRUE],
          [size |-> 5, setupSects |-> 1, valid |-> TRUE, has64 |-> TRUE],
          [size |-> 2, setupSects |-> 1, valid |-> TRUE, has64 |-> TRUE],
          [size |-> 5, setupSects |-> 1, valid |-> TRUE, has64 |-> FALSE], Missing}

HoleAt == 5

Layout(a, b, c) ==
  [frame \in 0..6 |-> CASE frame = HoleAt -> "hole"
                        [] frame = 0 -> a [] frame = 3 -> b [] frame = 6 -> c
                        [] OTHER -> "conventional"]

MCLayouts == {Layout("conventional", "conventional", "conventional"),
              Layout("acpi_reclaim", "other", "conventional"),
              Layout("boot_services", "conventional", "acpi_nvs")}

\* Memory cut at some frame boundaries, the hole left out, in ascending and in
\* descending order, and with an empty descriptor in front.
Starts(cuts) == {0, HoleAt + 1} \cup cuts
PieceAt(cuts, start) ==
  [start |-> start,
   pages |-> (CHOOSE end \in (Starts(cuts) \cup {HoleAt, 7}) :
                /\ end > start
                /\ \A e \in Starts(cuts) \cup {HoleAt, 7} : e > start => end <= e) - start]
Ascending(cuts) ==
  LET starts == SetToSortSeq(Starts(cuts), LAMBDA a, b : a < b)
  IN [i \in DOMAIN starts |-> PieceAt(cuts, starts[i])]

MCShapes ==
  UNION {{Ascending(cuts), Reverse(Ascending(cuts)),
          <<[start |-> 0, pages |-> 0]>> \o Ascending(cuts)} : cuts \in SUBSET (1..4)}
=============================================================================
