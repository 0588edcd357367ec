--------------------------- MODULE MCTransaction ---------------------------
(***************************************************************************)
(* Small instances of Transaction for TLC.                                 *)
(***************************************************************************)
EXTENDS Transaction, TLC

CONSTANTS e1, e2, e3, e4

(* Three bootable entries of different rank, and one that is listed but    *)
(* not bootable; the last-good entry may be any of them.                   *)
OneGraph == {[rows      |-> <<e2, e3, e4, e1>>,
              health    |-> (e1 :> "Healthy" @@ e2 :> "Degraded" @@
                             e3 :> "Unbootable" @@ e4 :> "Healthy"),
              plannable |-> Entry]}
=============================================================================
