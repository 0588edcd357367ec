---------------------------- MODULE BootContract ----------------------------
(***************************************************************************)
(* What a boot transaction promises: the design the repository publishes   *)
(* in spec/tla/BootTransaction.tla and says crates/transaction mirrors     *)
(* exactly.  Two of its points are stated more generally here, because the *)
(* program starts a transaction from persisted state: an attempt budget    *)
(* may start anywhere up to Limit (the published Init: everywhere at       *)
(* MaxTries), and a last-good entry may be known already (the published    *)
(* Init: none).  RollBack may pick any bootable entry when the last-good   *)
(* one is not bootable; the published text writes CHOOSE for it.           *)
(***************************************************************************)
EXTENDS Integers

CONSTANTS Entries, NoEntry, MaxTries, Limit

VARIABLES phase, selected, triesLeft, lastGood, committed

vars == <<phase, selected, triesLeft, lastGood, committed>>

Bootable(e) == e \in Entries /\ triesLeft[e] > 0

Init ==
  /\ phase = "Idle"
  /\ selected = NoEntry
  /\ committed = NoEntry
  /\ triesLeft \in [Entries -> 0..Limit]
  /\ lastGood \in Entries \cup {NoEntry}

Select(e) ==
  /\ phase = "Idle"
  /\ Bootable(e)
  /\ phase' = "Selected"
  /\ selected' = e
  /\ UNCHANGED <<triesLeft, lastGood, committed>>

Validate ==
  /\ phase = "Selected"
  /\ Bootable(selected)
  /\ phase' = "Validated"
  /\ UNCHANGED <<selected, triesLeft, lastGood, committed>>

Stage ==
  /\ phase = "Validated"
  /\ phase' = "Staged"
  /\ triesLeft' = [triesLeft EXCEPT ![selected] = @ - 1]
  /\ UNCHANGED <<selected, lastGood, committed>>

Launch ==
  /\ phase = "Staged"
  /\ phase' = "Launched"
  /\ UNCHANGED <<selected, triesLeft, lastGood, committed>>

ConfirmSuccess ==
  /\ phase = "Launched"
  /\ phase' = "Confirmed"
  /\ triesLeft' = [triesLeft EXCEPT ![selected] = MaxTries]
  /\ lastGood' = selected
  /\ committed' = selected
  /\ UNCHANGED selected

DetectFailure ==
  /\ phase = "Launched"
  /\ phase' = "Failed"
  /\ UNCHANGED <<selected, triesLeft, lastGood, committed>>

RollBack(e) ==
  /\ phase = "Failed"
  /\ Bootable(e)
  /\ Bootable(lastGood) => e = lastGood
  /\ phase' = "Selected"
  /\ selected' = e
  /\ UNCHANGED <<triesLeft, lastGood, committed>>

Recover ==
  /\ phase = "Failed"
  /\ \A e \in Entries : ~Bootable(e)
  /\ phase' = "Recovery"
  /\ UNCHANGED <<selected, triesLeft, lastGood, committed>>

Next ==
  \/ \E e \in Entries : Select(e) \/ RollBack(e)
  \/ Validate
  \/ Stage
  \/ Launch
  \/ ConfirmSuccess
  \/ DetectFailure
  \/ Recover

Spec == Init /\ [][Next]_vars
=============================================================================
