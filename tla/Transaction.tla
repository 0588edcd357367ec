---------------------------- MODULE Transaction ----------------------------
(***************************************************************************)
(* The boot transaction: crates/transaction/src/lib.rs.                    *)
(*                                                                         *)
(* One action per method of Transaction that returns Ok.  A method that    *)
(* returns Err changes no field, so an Err is a stuttering step.  Every    *)
(* method that takes &BootGraph is given one of Graphs by its caller: the  *)
(* engine passes the same graph throughout, and Graphs is then a           *)
(* singleton.  tries_left is a map in which a missing entry counts         *)
(* max_tries; it is kept here as the total function the accessor           *)
(* tries_left() computes.                                                  *)
(*                                                                         *)
(* The methods are all there is: who calls them, and whether anyone goes   *)
(* on calling, the module does not say.  run() of the engine makes a       *)
(* Transaction for each candidate, takes it from new() to launch(), and    *)
(* leaves it there; what follows a launch only the tests call.             *)
(***************************************************************************)
EXTENDS BootGraph, FiniteSets

CONSTANTS
  Graphs,     \* the graphs a caller passes
  MaxTries,   \* max_tries, after new() has raised it to at least 1
  Seeds       \* attempt counts a persisted tries_left map may start with

ASSUME GraphsAssumption == Graphs \subseteq Graph
ASSUME MaxTriesAssumption == MaxTries \in 1..255
ASSUME SeedsAssumption == Seeds \subseteq 0..255

VARIABLES
  phase, selected, triesLeft, lastGood, committed,   \* the struct's fields
  granted,    \* history: the attempts each entry started with
  handoffs    \* history: the launches of each entry so far

vars == <<phase, selected, triesLeft, lastGood, committed, granted, handoffs>>

Phases == {"Idle", "Selected", "Validated", "Staged", "Launched",
           "Confirmed", "Failed", "Recovery"}

IsTerminal == phase \in {"Confirmed", "Recovery"}

-----------------------------------------------------------------------------

(* bootable(): healthy enough in this graph, and attempts remain.          *)
CanBoot(g, e) == e \in BootableEntries(g) /\ triesLeft[e] > 0

(* The bootable entries other than the one that failed.                    *)
Others(g) == {e \in BootableEntries(g) : triesLeft[e] > 0} \ {selected}

IsFallbackNoRetry(g, e) ==
  IF lastGood # NoEntry /\ CanBoot(g, lastGood)
  THEN e = lastGood
  ELSE IsFirstOf(g, e, Others(g))

IsFallbackStaleLastGood(g, e) ==
  IF lastGood # NoEntry /\ lastGood \in Listed(g)
  THEN e = lastGood
  ELSE IF Others(g) # {}
  THEN IsFirstOf(g, e, Others(g))
  ELSE e = selected /\ CanBoot(g, e)

(* pick_fallback(): the last-good entry if it can boot, else the first     *)
(* other entry that can, else the failed one if it can still be tried.     *)
IsFallback(g, e) ==
  IF lastGood # NoEntry /\ CanBoot(g, lastGood)
  THEN e = lastGood
  ELSE IF Others(g) # {}
  THEN IsFirstOf(g, e, Others(g))
  ELSE e = selected /\ CanBoot(g, e)

-----------------------------------------------------------------------------

(* new(): seeded from what persistence holds.                              *)
Init ==
  /\ phase = "Idle"
  /\ selected = NoEntry
  /\ committed = NoEntry
  /\ lastGood \in MaybeEntry
  /\ triesLeft \in [Entry -> Seeds]
  /\ granted = triesLeft
  /\ handoffs = [e \in Entry |-> 0]

Select(e) ==
  /\ phase = "Idle"
  /\ \E g \in Graphs : CanBoot(g, e)
  /\ selected' = e
  /\ phase' = "Selected"
  /\ UNCHANGED <<triesLeft, lastGood, committed, granted, handoffs>>

(* A selection that is no longer bootable stays in Selected (Err).         *)
Validate ==
  /\ phase = "Selected"
  /\ \E g \in Graphs : CanBoot(g, selected)
  /\ phase' = "Validated"
  /\ UNCHANGED <<selected, triesLeft, lastGood, committed, granted, handoffs>>

StageUncharged ==
  /\ phase = "Validated"
  /\ phase' = "Staged"
  /\ UNCHANGED <<selected, triesLeft, lastGood, committed, granted, handoffs>>

StageChargedTwice ==
  /\ phase = "Validated"
  /\ triesLeft' = [triesLeft EXCEPT ![selected] = @ - 2]
  /\ phase' = "Staged"
  /\ UNCHANGED <<selected, lastGood, committed, granted, handoffs>>

(* The attempt is charged here, by a saturating subtraction, and the       *)
(* effect ChargeAttempt is handed to the caller, before any handoff.       *)
Stage ==
  /\ phase = "Validated"
  /\ triesLeft' = [triesLeft EXCEPT ![selected] = IF @ = 0 THEN 0 ELSE @ - 1]
  /\ phase' = "Staged"
  /\ UNCHANGED <<selected, lastGood, committed, granted, handoffs>>

Launch ==
  /\ phase = "Staged"
  /\ phase' = "Launched"
  /\ handoffs' = [handoffs EXCEPT ![selected] = @ + 1]
  /\ UNCHANGED <<selected, triesLeft, lastGood, committed, granted>>

ConfirmWithoutLaunch ==
  /\ phase \in {"Staged", "Launched"}
  /\ triesLeft' = [triesLeft EXCEPT ![selected] = MaxTries]
  /\ lastGood' = selected
  /\ committed' = selected
  /\ phase' = "Confirmed"
  /\ UNCHANGED <<selected, granted, handoffs>>

(* The attempts of a confirmed entry are restored in full.                 *)
ConfirmSuccess ==
  /\ phase = "Launched"
  /\ triesLeft' = [triesLeft EXCEPT ![selected] = MaxTries]
  /\ lastGood' = selected
  /\ committed' = selected
  /\ phase' = "Confirmed"
  /\ UNCHANGED <<selected, granted, handoffs>>

DetectFailure ==
  /\ phase = "Launched"
  /\ phase' = "Failed"
  /\ UNCHANGED <<selected, triesLeft, lastGood, committed, granted, handoffs>>

(* resolve() with a fallback: roll back to it.                             *)
RollBack(g) ==
  /\ phase = "Failed"
  /\ \E e \in Entry :
       /\ IsFallback(g, e)
       /\ selected' = e
  /\ phase' = "Selected"
  /\ UNCHANGED <<triesLeft, lastGood, committed, granted, handoffs>>

(* resolve() without one: recovery.                                        *)
Recover(g) ==
  /\ phase = "Failed"
  /\ ~ \E e \in Entry : IsFallback(g, e)
  /\ phase' = "Recovery"
  /\ UNCHANGED <<selected, triesLeft, lastGood, committed, granted, handoffs>>

Resolve == \E g \in Graphs : RollBack(g) \/ Recover(g)

StartAttempt == \E e \in Entry : Select(e)

Next ==
  \/ StartAttempt
  \/ Validate
  \/ Stage
  \/ Launch
  \/ ConfirmSuccess
  \/ DetectFailure
  \/ Resolve

Spec == Init /\ [][Next]_vars

-----------------------------------------------------------------------------

(* The fields have the types lib.rs gives them: a count is a u8.  Every    *)
(* phase after Idle has a selection.                                       *)
TypeOK ==
  /\ phase \in Phases
  /\ selected \in MaybeEntry
  /\ triesLeft \in [Entry -> 0..255]
  /\ lastGood \in MaybeEntry
  /\ committed \in MaybeEntry
  /\ granted \in [Entry -> 0..255]
  /\ handoffs \in [Entry -> Nat]
  /\ phase # "Idle" => selected \in Entry

(* The hard rule of lib.rs: an attempt is charged before the handoff, so   *)
(* what an entry has left, what it was handed off, and the one attempt     *)
(* that is charged but not yet launched always make up what it was         *)
(* granted.  No sequence of failures buys an attempt, and none is lost.    *)
AttemptLedger ==
  phase # "Confirmed" =>
    \A e \in Entry :
      triesLeft[e] + handoffs[e]
        + (IF phase = "Staged" /\ selected = e THEN 1 ELSE 0) = granted[e]

(* last_good and committed name an entry as confirmed only when that very  *)
(* entry was launched: a failed or a never launched boot is never recorded *)
(* as good.  Until then last_good is what persistence supplied.            *)
CommitFollowsLaunch ==
  /\ (committed # NoEntry) <=> (phase = "Confirmed")
  /\ committed # NoEntry =>
       /\ committed \in Entry
       /\ lastGood = committed
       /\ handoffs[committed] > 0

(* Recovery is the last resort: when it is entered, some graph the caller  *)
(* passed has no bootable entry that did not get every attempt granted.    *)
RecoveryIsLastResort ==
  phase = "Recovery" =>
    \E g \in Graphs : \A e \in BootableEntries(g) : handoffs[e] = granted[e]

(* For a caller that passes one graph.                                     *)
TheGraph == CHOOSE g \in Graphs : TRUE

Candidates == BootableEntries(TheGraph)

(* The attempts that entries have left, one by one.                        *)
Attempts == {p \in Candidates \X (1..255) : p[2] <= triesLeft[p[1]]}

(* How far a phase is from the end of its lap, which ends with a charge.   *)
Rank ==
  CASE phase = "Idle"      -> 3
    [] phase = "Selected"  -> 2
    [] phase = "Validated" -> 1
    [] phase = "Staged"    -> 5
    [] phase = "Launched"  -> 4
    [] phase = "Failed"    -> 3
    [] OTHER               -> 0

(* No more calls than this can be accepted from here on.                   *)
CallsLeft == IF IsTerminal THEN 0 ELSE 5 * Cardinality(Attempts) + Rank

(* What of lib.rs:5 (every run ends Confirmed or Recovery) is the machine's *)
(* own doing, whoever drives it: no sequence of failures and rollbacks     *)
(* keeps it going.  Every call it accepts uses up one of those that the    *)
(* attempts it was given allow.                                            *)
NoEndlessRun == [][CallsLeft' \in 0..(CallsLeft - 1)]_vars

-----------------------------------------------------------------------------

(* The published design, for such a caller: its Entries are the entries of *)
(* that graph that health lets boot.                                       *)
Contract == INSTANCE BootContract WITH
  Entries   <- BootableEntries(TheGraph),
  Limit     <- 255,
  triesLeft <- [e \in BootableEntries(TheGraph) |-> triesLeft[e]],
  lastGood  <- IF lastGood \in BootableEntries(TheGraph)
               THEN lastGood ELSE NoEntry

(* lib.rs:1 and BLUEPRINT.md:150: the transaction mirrors the published    *)
(* design.  Every behaviour of the code is one of the contract.            *)
ImplementsContract == Contract!Spec
=============================================================================
