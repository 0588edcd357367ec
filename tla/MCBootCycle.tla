---------------------------- MODULE MCBootCycle ----------------------------
(***************************************************************************)
(* Small instances of BootCycle for TLC.                                   *)
(***************************************************************************)
EXTENDS BootCycle, TLC

CONSTANTS e1, e2, e3

(* Three entries, of which the top one is degraded and one has no plan;    *)
(* the machine after its second disk was pulled; and with nothing left.    *)
ThreeMachines ==
  {[rows      |-> <<e1, e2, e3>>,
    health    |-> (e1 :> "Degraded" @@ e2 :> "Healthy" @@ e3 :> "Healthy"),
    plannable |-> {e1, e2}],
   [rows      |-> <<e2, e1>>,
    health    |-> (e1 :> "Unbootable" @@ e2 :> "Degraded" @@ e3 :> "Unknown"),
    plannable |-> {e1, e2}],
   [rows      |-> <<e3>>,
    health    |-> [e \in Entry |-> "Unbootable"],
    plannable |-> {}]}

(* Two healthy entries.                                                    *)
OneMachine ==
  {[rows      |-> <<e1, e2>>,
    health    |-> [e \in Entry |-> "Healthy"],
    plannable |-> Entry]}
=============================================================================
