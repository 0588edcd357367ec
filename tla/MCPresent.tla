----------------------------- MODULE MCPresent -----------------------------
(***************************************************************************)
(* Every health of up to three listed rows, a list longer than any of the  *)
(* displays, every decision over the first three and the last, and the     *)
(* displays of small and of usual machines.                                *)
(***************************************************************************)
EXTENDS Present, FiniteSetsExt

CONSTANTS e1, e2, e3, last, others

FewRows ==
  [rows : {<<>>, <<e1>>, <<e1, e2>>, <<e1, e2, e3>>},
   health : {[e \in Entry |-> IF e \in {e1, e2, e3} THEN h[e] ELSE "Healthy"] :
               h \in [{e1, e2, e3} -> {"Healthy", "Degraded", "Unbootable"}]},
   plannable : {Entry}]

\* An unbootable first row, and thirteen in all.
ManyRows ==
  [rows : {Append(FoldSet(LAMBDA e, rows : Append(rows, e), <<e1, e2, e3>>, others), last)},
   health : {[e \in Entry |-> IF e = e1 THEN "Unbootable" ELSE "Healthy"]},
   plannable : {Entry}]

SomeGraphs == FewRows \cup ManyRows

SomeHistories ==
  [configuredDefault : {e1, e2, e3, last, NoEntry}, lastGood : {NoEntry}, oneShot : {NoEntry}]

SomeDisplays ==
  { [w |-> 640, h |-> 480], [w |-> 800, h |-> 600], [w |-> 1024, h |-> 768],
    [w |-> 1280, h |-> 720], [w |-> 1920, h |-> 1080] }
=============================================================================
