----------------------------- MODULE BootGraph -----------------------------
(***************************************************************************)
(* The Boot Graph as its readers see it: crates/graph.                     *)
(*                                                                         *)
(* The code nests entries in systems in disks (tree.rs); every reader in   *)
(* the boot path goes through entries(), find() or bootable(), which       *)
(* flatten that nesting in traversal order.  A graph is therefore the      *)
(* sequence of its entries, the health assess_all wrote into each, and the *)
(* set of entries a provider can turn into a launch plan.  Titles, kernel  *)
(* paths and command lines only matter through these.                      *)
(***************************************************************************)
EXTENDS Integers, Sequences

CONSTANTS
  Entry,    \* the stable entry ids (crates/graph/src/ids.rs) in play
  NoEntry   \* Option::None where an entry id is optional

ASSUME NoEntryAssumption == NoEntry \notin Entry

MaybeEntry == Entry \cup {NoEntry}

HealthTag == {"Healthy", "Degraded", "Unbootable", "Unknown"}

Graph == [rows      : Seq(Entry),
          health    : [Entry -> HealthTag],
          plannable : SUBSET Entry]

-----------------------------------------------------------------------------

(* Health::is_bootable: neither Unbootable nor Unknown is a candidate.     *)
IsBootable(h) == h \in {"Healthy", "Degraded"}

(* Health::rank: the order in which fallbacks are preferred.               *)
HealthRank(h) ==
  CASE h = "Healthy"    -> 3
    [] h = "Degraded"   -> 2
    [] h = "Unknown"    -> 1
    [] h = "Unbootable" -> 0

(* BootGraph::entries, as a set.                                           *)
Listed(g) == {g.rows[i] : i \in DOMAIN g.rows}

(* BootGraph::bootable, as a set.                                          *)
BootableEntries(g) == {e \in Listed(g) : IsBootable(g.health[e])}

(* graph.entries().find(|e| e in S): e is the first entry of S listed.     *)
IsFirstOf(g, e, S) ==
  \E i \in DOMAIN g.rows :
    /\ g.rows[i] = e
    /\ e \in S
    /\ \A j \in DOMAIN g.rows : j < i => g.rows[j] \notin S
=============================================================================
