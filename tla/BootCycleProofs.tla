-------------------------- MODULE BootCycleProofs --------------------------
(***************************************************************************)
(* What holds of the confirm-or-roll-back protocol for every set of        *)
(* entries, every sequence of graphs and every sequence of power losses.   *)
(***************************************************************************)
EXTENDS BootCycle, Lemmas

(* What can be handed off is bootable, and what is bootable is an entry.   *)
LEMMA LaunchableAreEntries ==
  ASSUME NEW g \in Graphs
  PROVE  /\ g \in Graph
         /\ Launchable(g) \subseteq BootableEntries(g)
         /\ BootableEntries(g) \subseteq Entry
BY CycleGraphs, ListedIsEntry DEF Launchable

(* A write leaves the old value or the new one, and a read that fails      *)
(* looks absent.                                                           *)
LEMMA NvramOutcomes ==
  ASSUME NEW old, NEW new, NEW x
  PROVE  /\ x \in Written(old, new) => x = old \/ x = new
         /\ x \in ReadAs(old, new) => x = old \/ x = new
         /\ Reliable => (x \in Written(old, new) <=> x = new)
         /\ Reliable => (x \in ReadAs(old, new) <=> x = old)
BY DEF Written, ReadAs

(* What reading the marker at a power-on leads to.                         *)
LEMMA PowerOnStages ==
  ASSUME PowerOn
  PROVE  /\ stage' \in {"record", "clear", "decide"}
         /\ stage' = "record" => IsConfirmed(marker)
         /\ Reliable /\ IsConfirmed(marker) => stage' = "record"
<1>1. PICK pending \in ReadAs(marker, NoMarker) :
        stage' = IF IsConfirmed(pending) THEN "record"
                 ELSE IF pending \in Marker THEN "clear" ELSE "decide"
  BY DEF PowerOn
<1>2. ~IsConfirmed(NoMarker)
  BY MarkerAssumption DEF IsConfirmed
<1>3. pending = marker \/ pending = NoMarker
  BY NvramOutcomes
<1>4. Reliable => pending = marker
  BY NvramOutcomes
<1> QED
  BY <1>1, <1>2, <1>3, <1>4

(* What arming a candidate does.                                           *)
LEMMA ArmEffect ==
  ASSUME TypeOK, Arm
  PROVE  /\ stage = "attempt" /\ stage' = "handoff"
         /\ cand' \in left \cap Launchable(graph)
         /\ cand' \in Entry
         /\ left' = left \ {cand'}
         /\ marker' = marker \/ marker' = [entry |-> cand', confirmed |-> FALSE]
         /\ Reliable => marker' = [entry |-> cand', confirmed |-> FALSE]
         /\ UNCHANGED <<lastGood, graph, chosen, tried, system, history>>
<1>1. PICK e \in left \cap Launchable(graph) :
        /\ marker' \in Written(marker, [entry |-> e, confirmed |-> FALSE])
        /\ cand' = e
        /\ left' = left \ {e}
  BY DEF Arm
<1>2. e \in Entry
  BY <1>1 DEF TypeOK
<1> QED
  BY <1>1, <1>2, NvramOutcomes DEF Arm

(* present() returns an entry that can be booted, or none when there is    *)
(* none.                                                                   *)
LEMMA ChooseBoots ==
  ASSUME TypeOK, Choose
  PROVE  IF BootableEntries(graph) = {}
         THEN chosen' = NoEntry
         ELSE chosen' \in BootableEntries(graph)
<1> DEFINE D(good) == Decide(graph, HistoryRead(good), Strategy)
<1>1. graph \in Graph
  BY CycleGraphs DEF TypeOK
<1>2. PICK good \in ReadAs(lastGood, NoEntry) :
        \/ chosen' \in UnattendedChoices(graph, D(good))
        \/ Attended /\ chosen' \in BootableEntries(graph)
  BY DEF Choose
<1>3. HistoryRead(good) \in History /\ Strategy \in Strategies
  BY ConfiguredAssumption, StrategyAssumption
  DEF TypeOK, ReadAs, HistoryRead, History, MaybeEntry
<1>4. CASE chosen' = Headless(graph, D(good))
  BY <1>1, <1>3, <1>4, HeadlessBoots
<1>5. CASE chosen' = OnTimeout(graph, D(good), InitialCursor(graph, D(good)))
  BY <1>1, <1>3, <1>5, InitialCursorIsRow, TimeoutBoots
<1>6. CASE chosen' \in BootableEntries(graph)
  BY <1>6
<1> QED
  BY <1>2, <1>4, <1>5, <1>6 DEF UnattendedChoices

-----------------------------------------------------------------------------

(* A first power-on starts well typed, whatever NVRAM holds.               *)
LEMMA CycleInitTypeOK == Init => TypeOK
<1> SUFFICES ASSUME Init PROVE TypeOK
  OBVIOUS
<1> QED
  BY DEF Init, TypeOK, MaybeEntry, Engine

(* No step of the engine, the firmware, bless or a power loss breaks the   *)
(* types.                                                                  *)
LEMMA CycleNextTypeOK == TypeOK /\ [Next]_vars => TypeOK'
<1> SUFFICES ASSUME TypeOK, [Next]_vars PROVE TypeOK'
  OBVIOUS
<1> USE DEF TypeOK, Engine, MaybeEntry, nvram, attempt, system, history
<1>1. CASE PowerOn
  <2>1. /\ stage' \in {"record", "clear", "decide"}
        /\ stage' = "record" => IsConfirmed(marker)
    BY <1>1, PowerOnStages
  <2> QED
    BY <1>1, <2>1 DEF PowerOn, IsConfirmed
<1>2. CASE RecordGood
  <2>1. marker.entry \in Entry
    BY <1>2 DEF RecordGood, IsConfirmed, Marker
  <2>2. lastGood' \in MaybeEntry
    BY <1>2, <2>1, NvramOutcomes DEF RecordGood
  <2> QED
    BY <1>2, <2>2 DEF RecordGood
<1>3. CASE ClearMarker
  <2>1. marker' = marker \/ marker' = NoMarker
    BY <1>3, NvramOutcomes DEF ClearMarker
  <2> QED
    BY <1>3, <2>1 DEF ClearMarker
<1>4. CASE Choose
  <2>1. chosen' \in MaybeEntry /\ BootableEntries(graph) \subseteq Entry
    BY <1>4, ChooseBoots, LaunchableAreEntries
  <2>2. left' \subseteq Entry
    BY <1>4, <2>1 DEF Choose
  <2>3. /\ stage' \in {"gaveup", "attempt"}
        /\ UNCHANGED <<nvram, graph, cand, tried, system, history>>
    BY <1>4 DEF Choose
  <2> QED
    BY <2>1, <2>2, <2>3
<1>5. CASE Skip
  BY <1>5 DEF Skip
<1>6. CASE Arm
  <2>1. marker' \in Marker \cup {NoMarker, Garbled}
    <3>1. /\ cand' \in Entry
          /\ marker' = marker \/ marker' = [entry |-> cand', confirmed |-> FALSE]
      BY <1>6, ArmEffect
    <3>2. [entry |-> cand', confirmed |-> FALSE] \in Marker
      BY <3>1 DEF Marker
    <3> QED
      BY <3>1, <3>2
  <2> QED
    BY <1>6, <2>1, ArmEffect
<1>7. CASE HandoffFails
  BY <1>7 DEF HandoffFails
<1>8. CASE HandoffSucceeds
  BY <1>8 DEF HandoffSucceeds
<1>9. CASE GiveUp
  BY <1>9 DEF GiveUp
<1>10. CASE FirmwareBoot
  BY <1>10 DEF FirmwareBoot
<1>11. CASE Bless
  <2>1. marker' \in Marker /\ marker.entry \in Entry
    BY <1>11 DEF Bless, Marker
  <2> QED
    BY <1>11, <2>1 DEF Bless, Credit
<1>12. CASE BlessEntry
  BY <1>12 DEF BlessEntry, Credit, Marker
<1>13. CASE PowerOff
  BY <1>13 DEF PowerOff
<1>14. CASE UNCHANGED vars
  BY <1>14 DEF vars, IsConfirmed
<1> QED
  BY <1>1, <1>2, <1>3, <1>4, <1>5, <1>6, <1>7, <1>8, <1>9, <1>10, <1>11,
     <1>12, <1>13, <1>14
  DEF Next, EngineStep

(* The variables of the protocol have their types.                         *)
THEOREM CycleTypeCorrect == Spec => []TypeOK
<1> QED
  BY CycleInitTypeOK, CycleNextTypeOK, PTL DEF Spec

-----------------------------------------------------------------------------

(* A confirmed marker names an entry that was vouched for.                 *)
VouchedInv ==
  /\ IsConfirmed(marker) => marker.entry \in vouched
  /\ LastGoodIsVouched

(* A boot that nothing confirmed is never recorded as good, whichever      *)
(* NVRAM calls fail and wherever power is lost.                            *)
THEOREM OnlyVouchedIsGood == Spec => []LastGoodIsVouched
<1>1. Init => VouchedInv
  BY MarkerAssumption DEF Init, VouchedInv, LastGoodIsVouched, IsConfirmed, MaybeEntry
<1>2. TypeOK /\ VouchedInv /\ [Next]_vars => VouchedInv'
  <2> SUFFICES ASSUME TypeOK, VouchedInv, [Next]_vars PROVE VouchedInv'
    OBVIOUS
  <2> USE DEF VouchedInv, LastGoodIsVouched, IsConfirmed, nvram, history
  <2>1. CASE RecordGood
    <3>1. lastGood' = lastGood \/ lastGood' = marker.entry
      BY <2>1, NvramOutcomes DEF RecordGood
    <3> QED
      BY <2>1, <3>1 DEF RecordGood, TypeOK
  <2>2. CASE ClearMarker
    <3>1. marker' = marker \/ marker' = NoMarker
      BY <2>2, NvramOutcomes DEF ClearMarker
    <3> QED
      BY <2>2, <3>1, MarkerAssumption DEF ClearMarker
  <2>3. CASE Arm
    BY <2>3, ArmEffect
  <2>4. CASE Bless
    <3>1. marker'.entry = marker.entry
      BY <2>4 DEF Bless, Marker
    <3> QED
      BY <2>4, <3>1 DEF Bless, Credit
  <2>5. CASE BlessEntry
    BY <2>5 DEF BlessEntry, Credit
  <2>6. CASE UNCHANGED <<marker, lastGood, vouched>>
    BY <2>6
  <2>7. CASE HandoffSucceeds
    BY <2>7 DEF HandoffSucceeds
  <2> QED
    BY <2>1, <2>2, <2>3, <2>4, <2>5, <2>6, <2>7
    DEF Next, EngineStep, PowerOn, Choose, Skip, HandoffFails, GiveUp,
        FirmwareBoot, PowerOff, vars
<1>3. VouchedInv => LastGoodIsVouched
  BY DEF VouchedInv
<1> QED
  BY <1>1, <1>2, <1>3, CycleTypeCorrect, PTL DEF Spec

-----------------------------------------------------------------------------

(* The marker names the entry MyBoot is about to start, and then the one   *)
(* it started.                                                             *)
OnRecordInv ==
  /\ stage = "handoff" => marker \in Marker /\ marker.entry = cand
  /\ HandoffIsOnRecord

(* The invariant behind HandoffsAreOnRecord: with NVRAM that works, the    *)
(* marker of a staged or a running candidate is its own.                   *)
LEMMA OnRecordCorrect ==
  ASSUME Reliable, ~NamedBless
  PROVE  Spec => []OnRecordInv
<1>1. Init => OnRecordInv
  BY DEF Init, OnRecordInv, HandoffIsOnRecord
<1>2. TypeOK /\ OnRecordInv /\ [Next]_vars => OnRecordInv'
  <2> SUFFICES ASSUME TypeOK, OnRecordInv, [Next]_vars PROVE OnRecordInv'
    OBVIOUS
  <2> USE DEF OnRecordInv, HandoffIsOnRecord, nvram, attempt, system, history
  <2>1. CASE PowerOn
    BY <2>1, PowerOnStages
  <2>2. CASE Arm
    <3>1. /\ stage' = "handoff"
          /\ cand' \in Entry
          /\ marker' = [entry |-> cand', confirmed |-> FALSE]
      BY <2>2, ArmEffect
    <3>2. marker' \in Marker /\ marker'.entry = cand'
      BY <3>1 DEF Marker
    <3> QED
      BY <3>1, <3>2
  <2>3. CASE HandoffSucceeds
    BY <2>3 DEF HandoffSucceeds
  <2>4. CASE FirmwareBoot
    BY <2>4 DEF FirmwareBoot
  <2>5. CASE Bless
    <3>1. marker' \in Marker /\ marker'.entry = marker.entry
      BY <2>5 DEF Bless, Marker
    <3> QED
      BY <2>5, <3>1 DEF Bless
  <2>6. CASE RecordGood \/ ClearMarker \/ Choose \/ Skip \/ HandoffFails
             \/ GiveUp \/ PowerOff
    BY <2>6
    DEF RecordGood, ClearMarker, Choose, Skip, HandoffFails, GiveUp, PowerOff
  <2>7. CASE UNCHANGED vars
    BY <2>7 DEF vars
  <2>8. ~BlessEntry
    BY DEF BlessEntry
  <2> QED
    BY <2>1, <2>2, <2>3, <2>4, <2>5, <2>6, <2>7, <2>8 DEF Next, EngineStep
<1> QED
  BY <1>1, <1>2, CycleTypeCorrect, PTL DEF Spec

(* The hard rule, for a machine whose NVRAM works: however many candidates *)
(* fell through before it, the system that MyBoot started is the one that  *)
(* the marker names.                                                       *)
THEOREM HandoffsAreOnRecord ==
  ASSUME Reliable, ~NamedBless
  PROVE  Spec => []HandoffIsOnRecord
<1>1. OnRecordInv => HandoffIsOnRecord
  BY DEF OnRecordInv
<1> QED
  BY <1>1, OnRecordCorrect, PTL

-----------------------------------------------------------------------------

(* What is confirmed, and what is recorded, was earned.                    *)
EarnedInv ==
  /\ IsConfirmed(marker) => marker.entry \in earned
  /\ LastGoodIsEarned

(* If only systems that MyBoot started bless, and none by name, the last   *)
(* good entry is always one that ran and was blessed while it ran.         *)
THEOREM LastGoodWasEarned ==
  ASSUME Reliable, ~NamedBless, Blessers \subseteq {"myboot"}
  PROVE  Spec => []LastGoodIsEarned
<1>1. Init => EarnedInv
  BY MarkerAssumption DEF Init, EarnedInv, LastGoodIsEarned, IsConfirmed, MaybeEntry
<1>2. TypeOK /\ OnRecordInv /\ EarnedInv /\ [Next]_vars => EarnedInv'
  <2> SUFFICES ASSUME TypeOK, OnRecordInv, EarnedInv, [Next]_vars PROVE EarnedInv'
    OBVIOUS
  <2> USE DEF EarnedInv, LastGoodIsEarned, IsConfirmed, nvram, history
  <2>1. CASE RecordGood
    <3>1. lastGood' = marker.entry
      BY <2>1, NvramOutcomes DEF RecordGood
    <3> QED
      BY <2>1, <3>1 DEF RecordGood, TypeOK
  <2>2. CASE ClearMarker
    <3>1. marker' = NoMarker
      BY <2>2, NvramOutcomes DEF ClearMarker
    <3> QED
      BY <2>2, <3>1, MarkerAssumption DEF ClearMarker
  <2>3. CASE Arm
    BY <2>3, ArmEffect
  <2>4. CASE Bless
    <3>1. marker'.entry = marker.entry
      BY <2>4 DEF Bless, Marker
    <3>2. via = "myboot" /\ stage = "os"
      BY <2>4 DEF Bless
    <3>3. marker.entry = running
      BY <3>2 DEF OnRecordInv, HandoffIsOnRecord
    <3> QED
      BY <2>4, <3>1, <3>3 DEF Bless, Credit
  <2>5. CASE HandoffSucceeds
    BY <2>5 DEF HandoffSucceeds
  <2>6. CASE UNCHANGED <<marker, lastGood, earned>>
    BY <2>6
  <2>7. ~BlessEntry
    BY DEF BlessEntry
  <2> QED
    BY <2>1, <2>2, <2>3, <2>4, <2>5, <2>6, <2>7
    DEF Next, EngineStep, PowerOn, Choose, Skip, HandoffFails, GiveUp,
        FirmwareBoot, PowerOff, vars
<1>3. EarnedInv => LastGoodIsEarned
  BY DEF EarnedInv
<1> QED
  BY <1>1, <1>2, <1>3, CycleTypeCorrect, OnRecordCorrect, PTL DEF Spec

-----------------------------------------------------------------------------

(* A confirmation is still in the marker until it is recorded, and gone    *)
(* from it before anything else is armed.                                  *)
ConfirmInv ==
  /\ stage = "clear" /\ IsConfirmed(marker) => lastGood = marker.entry
  /\ stage \in {"decide", "attempt", "handoff", "gaveup"} => ~IsConfirmed(marker)

(* While NVRAM works no confirmation is lost: not to a power loss between  *)
(* the write of LastGood and the clearing of the marker, nor to the next   *)
(* attempt.                                                                *)
THEOREM ConfirmationsAreRecorded ==
  ASSUME Reliable
  PROVE  Spec => ConfirmationIsRecorded
<1>1. Init => ConfirmInv
  BY DEF Init, ConfirmInv
<1>2. TypeOK /\ ConfirmInv /\ [Next]_vars =>
        /\ ConfirmInv'
        /\ IsConfirmed(marker) /\ ~IsConfirmed(marker') => lastGood' = marker.entry
  <2> SUFFICES ASSUME TypeOK, ConfirmInv, [Next]_vars
               PROVE  /\ ConfirmInv'
                      /\ IsConfirmed(marker) /\ ~IsConfirmed(marker') =>
                           lastGood' = marker.entry
    OBVIOUS
  <2> USE DEF ConfirmInv, IsConfirmed, nvram
  <2>1. CASE PowerOn
    <3>1. /\ stage' \in {"record", "clear", "decide"}
          /\ IsConfirmed(marker) => stage' = "record"
      BY <2>1, PowerOnStages
    <3> QED
      BY <2>1, <3>1 DEF PowerOn
  <2>2. CASE RecordGood
    <3>1. lastGood' = marker.entry
      BY <2>2, NvramOutcomes DEF RecordGood
    <3> QED
      BY <2>2, <3>1 DEF RecordGood
  <2>3. CASE ClearMarker
    <3>1. marker' = NoMarker
      BY <2>3, NvramOutcomes DEF ClearMarker
    <3> QED
      BY <2>3, <3>1, MarkerAssumption DEF ClearMarker
  <2>4. CASE Choose
    BY <2>4 DEF Choose
  <2>5. CASE Arm
    <3>1. /\ stage = "attempt" /\ stage' = "handoff"
          /\ marker' = [entry |-> cand', confirmed |-> FALSE]
      BY <2>5, ArmEffect
    <3> QED
      BY <3>1
  <2>6. CASE Skip \/ HandoffFails \/ HandoffSucceeds \/ GiveUp
    BY <2>6 DEF Skip, HandoffFails, HandoffSucceeds, GiveUp
  <2>7. CASE FirmwareBoot \/ PowerOff
    BY <2>7 DEF FirmwareBoot, PowerOff
  <2>8. CASE Bless
    <3>1. marker' \in Marker /\ marker'.confirmed
      BY <2>8 DEF Bless, Marker
    <3> QED
      BY <2>8, <3>1 DEF Bless
  <2>9. CASE BlessEntry
    <3>1. marker' \in Marker /\ marker'.confirmed
      BY <2>9 DEF BlessEntry, Marker
    <3> QED
      BY <2>9, <3>1 DEF BlessEntry
  <2>10. CASE UNCHANGED vars
    BY <2>10 DEF vars
  <2> QED
    BY <2>1, <2>2, <2>3, <2>4, <2>5, <2>6, <2>7, <2>8, <2>9, <2>10
    DEF Next, EngineStep
<1> QED
  BY <1>1, <1>2, CycleTypeCorrect, PTL DEF Spec, ConfirmationIsRecorded

-----------------------------------------------------------------------------

(* Every entry that can be launched is still to come, is being handed off  *)
(* to, or was handed off to in vain; and no other entry ever is.           *)
ProgressInv ==
  /\ stage \in {"record", "clear", "decide"} => tried = {}
  /\ stage \in {"attempt", "handoff", "gaveup"} => tried \subseteq Launchable(graph)
  /\ stage = "attempt" => Launchable(graph) \subseteq left \cup tried
  /\ stage = "handoff" =>
       /\ Launchable(graph) \subseteq left \cup tried \cup {cand}
       /\ cand \in Launchable(graph)
  /\ GivesUpLast

(* Never a dead end: MyBoot returns to the firmware only when it has       *)
(* handed off in vain to every entry that can be launched.                 *)
THEOREM GivesUpOnlyAtTheEnd == Spec => []GivesUpLast
<1>1. Init => ProgressInv
  BY DEF Init, ProgressInv, GivesUpLast
<1>2. TypeOK /\ ProgressInv /\ [Next]_vars => ProgressInv'
  <2> SUFFICES ASSUME TypeOK, ProgressInv, [Next]_vars PROVE ProgressInv'
    OBVIOUS
  <2> USE DEF ProgressInv, GivesUpLast, attempt
  <2>0. graph' = graph => Launchable(graph)' = Launchable(graph)
    BY DEF Launchable, BootableEntries, Listed
  <2>1. CASE PowerOn
    <3>1. stage' \in {"record", "clear", "decide"}
      BY <2>1, PowerOnStages
    <3> QED
      BY <2>1, <3>1 DEF PowerOn
  <2>2. CASE RecordGood \/ ClearMarker
    BY <2>2 DEF RecordGood, ClearMarker
  <2>3. CASE Choose
    <3>1. IF BootableEntries(graph) = {}
          THEN chosen' = NoEntry
          ELSE chosen' \in BootableEntries(graph)
      BY <2>3, ChooseBoots
    <3>2. /\ Launchable(graph) \subseteq BootableEntries(graph)
          /\ NoEntry \notin BootableEntries(graph)
      BY LaunchableAreEntries, NoEntryAssumption DEF TypeOK
    <3>3. /\ stage = "decide" /\ tried' = {} /\ graph' = graph
          /\ IF chosen' = NoEntry
             THEN stage' = "gaveup" /\ left' = {}
             ELSE stage' = "attempt" /\ left' = {chosen'} \cup BootableEntries(graph)
      BY <2>3 DEF Choose
    <3>4. CASE BootableEntries(graph) = {}
      BY <2>0, <3>1, <3>2, <3>3, <3>4
    <3>5. CASE BootableEntries(graph) # {}
      BY <2>0, <3>1, <3>2, <3>3, <3>5
    <3> QED
      BY <3>4, <3>5
  <2>4. CASE Skip
    BY <2>0, <2>4 DEF Skip
  <2>5. CASE Arm
    BY <2>0, <2>5, ArmEffect
  <2>6. CASE HandoffFails
    BY <2>0, <2>6 DEF HandoffFails
  <2>7. CASE GiveUp
    BY <2>0, <2>7 DEF GiveUp
  <2>8. CASE HandoffSucceeds \/ FirmwareBoot \/ Bless \/ BlessEntry \/ PowerOff
    BY <2>8 DEF HandoffSucceeds, FirmwareBoot, Bless, BlessEntry, PowerOff
  <2>9. CASE UNCHANGED vars
    BY <2>0, <2>9 DEF vars
  <2> QED
    BY <2>1, <2>2, <2>3, <2>4, <2>5, <2>6, <2>7, <2>8, <2>9 DEF Next, EngineStep
<1>3. ProgressInv => GivesUpLast
  BY DEF ProgressInv
<1> QED
  BY <1>1, <1>2, <1>3, CycleTypeCorrect, PTL DEF Spec

-----------------------------------------------------------------------------
(* The loop over the candidates inside one power-on.                       *)

(* What was handed off in vain goes before the candidate at hand, and that *)
(* one before all that are still to come.                                  *)
QueueInv ==
  /\ stage \in {"record", "clear", "decide"} => tried = {}
  /\ stage \in {"attempt", "handoff"} =>
       /\ left \subseteq BootableEntries(graph)
       /\ tried \cap left = {}
       /\ \A e \in tried, f \in left : GoesBefore(graph, chosen, e, f)
  /\ stage = "handoff" =>
       /\ cand \notin tried \cup left
       /\ \A e \in tried : GoesBefore(graph, chosen, e, cand)
       /\ \A f \in left : GoesBefore(graph, chosen, cand, f)

(* No step changes the candidates' order while the loop is on.             *)
LEMMA CycleInitQueue == Init => QueueInv
BY DEF Init, QueueInv

LEMMA CycleNextQueue == TypeOK /\ QueueInv /\ [Next]_vars => QueueInv'
<1> SUFFICES ASSUME TypeOK, QueueInv, [Next]_vars PROVE QueueInv'
  OBVIOUS
<1> USE DEF QueueInv, nvram, attempt, system, history
<1>0. graph' = graph => BootableEntries(graph)' = BootableEntries(graph)
  BY DEF BootableEntries, Listed
<1>1. \A e, f : /\ graph' = graph /\ chosen' = chosen
                /\ GoesBefore(graph, chosen, e, f)
                => GoesBefore(graph', chosen', e, f)
  OBVIOUS
<1>2. CASE PowerOn
  <2>1. stage' \in {"record", "clear", "decide"}
    BY <1>2, PowerOnStages
  <2> QED
    BY <1>2, <2>1 DEF PowerOn
<1>3. CASE RecordGood \/ ClearMarker
  BY <1>3 DEF RecordGood, ClearMarker
<1>4. CASE Choose
  <2>1. chosen' # NoEntry => chosen' \in BootableEntries(graph)
    BY <1>4, ChooseBoots
  <2>2. /\ stage = "decide" /\ tried' = {} /\ graph' = graph
        /\ IF chosen' = NoEntry
           THEN stage' = "gaveup"
           ELSE stage' = "attempt" /\ left' = {chosen'} \cup BootableEntries(graph)
    BY <1>4 DEF Choose
  <2> QED
    BY <1>0, <2>1, <2>2
<1>5. CASE Skip
  <2>1. /\ stage = "attempt" /\ left' \subseteq left
        /\ UNCHANGED <<stage, graph, chosen, cand, tried>>
    BY <1>5 DEF Skip
  <2> QED
    BY <1>0, <1>1, <2>1
<1>6. CASE Arm
  <2>1. PICK e \in left :
          /\ IsNextOf(graph, chosen, left, e)
          /\ cand' = e
          /\ left' = left \ {e}
    BY <1>6 DEF Arm
  <2>2. /\ stage = "attempt" /\ stage' = "handoff"
        /\ UNCHANGED <<graph, chosen, tried>>
    BY <1>6 DEF Arm
  <2>3. \A f \in left' : GoesBefore(graph, chosen, cand', f)
    BY <2>1 DEF IsNextOf
  <2>4. \A f \in tried : GoesBefore(graph, chosen, f, cand')
    BY <2>1, <2>2
  <2> QED
    BY <1>0, <1>1, <2>1, <2>2, <2>3, <2>4
<1>7. CASE HandoffFails
  <2>1. /\ stage = "handoff" /\ stage' = "attempt"
        /\ tried' = tried \cup {cand}
        /\ UNCHANGED <<graph, chosen, left>>
    BY <1>7 DEF HandoffFails
  <2> QED
    BY <1>0, <1>1, <2>1
<1>8. CASE HandoffSucceeds \/ GiveUp \/ FirmwareBoot \/ Bless \/ BlessEntry \/ PowerOff
  BY <1>8 DEF HandoffSucceeds, GiveUp, FirmwareBoot, Bless, BlessEntry, PowerOff
<1>9. CASE UNCHANGED vars
  BY <1>0, <1>1, <1>9 DEF vars
<1> QED
  BY <1>2, <1>3, <1>4, <1>5, <1>6, <1>7, <1>8, <1>9 DEF Next, EngineStep

(* The queue holds in every power-on.                                      *)
LEMMA QueueCorrect == Spec => []QueueInv
<1> QED
  BY CycleInitQueue, CycleNextQueue, CycleTypeCorrect, PTL DEF Spec

(* The candidate at hand was not handed off to before in this power-on,    *)
(* whatever was goes before it in the order of attempts, and nothing that  *)
(* is still to come does.                                                  *)
TriedInOrder ==
  stage = "handoff" =>
    /\ cand \notin tried
    /\ \A e \in tried : GoesBefore(graph, chosen, e, cand)
    /\ \A f \in left : GoesBefore(graph, chosen, cand, f)

(* run() tries each candidate at most once in a power-on, the chosen one   *)
(* first and the others from the healthiest down, however handoffs fail.   *)
THEOREM FallbacksGoInOrder == Spec => []TriedInOrder
<1>1. QueueInv => TriedInOrder
  BY DEF QueueInv, TriedInOrder
<1> QED
  BY <1>1, QueueCorrect, PTL

(* While candidates are left, one of them is next: it is skipped or it is  *)
(* armed.                                                                  *)
SomeIsNext ==
  stage = "attempt" /\ left # {} =>
    \E e \in left : IsNextOf(graph, chosen, left, e)

(* The loop over the candidates is never at a loss which one to take.      *)
THEOREM LoopIsNeverStuck == Spec => []SomeIsNext
<1>1. TypeOK /\ QueueInv => SomeIsNext
  BY CycleGraphs, NextExists DEF TypeOK, QueueInv, SomeIsNext
<1> QED
  BY <1>1, CycleTypeCorrect, QueueCorrect, PTL

-----------------------------------------------------------------------------

(* No more steps of run() than this are to come in this power-on.          *)
StepsLeft ==
  CASE stage = "record"  -> 2 * Len(graph.rows) + 4
    [] stage = "clear"   -> 2 * Len(graph.rows) + 3
    [] stage = "decide"  -> 2 * Len(graph.rows) + 2
    [] stage = "attempt" -> 2 * Cardinality(left) + 1
    [] stage = "handoff" -> 2 * Cardinality(left) + 2
    [] OTHER             -> 0

(* What is left to try can be counted.                                     *)
LEMMA LeftCount ==
  ASSUME TypeOK, QueueInv
  PROVE  /\ Len(graph.rows) \in Nat
         /\ stage \in {"attempt", "handoff"} =>
              IsFiniteSet(left) /\ Cardinality(left) \in Nat
<1>1. graph \in Graph
  BY CycleGraphs DEF TypeOK
<1> QED
  BY <1>1, ListedCount, ListedIsEntry DEF QueueInv

(* Two for each row of the graph and four more are always enough.          *)
StepsBound == StepsLeft \in 0..(2 * Len(graph.rows) + 4)

(* Each step that run() takes brings the steps it has left down, and only  *)
(* the next power-on brings them up again: a power-on takes at most two    *)
(* steps for each row of its graph and four more.                          *)
THEOREM EveryStepCounts ==
  Spec => /\ []StepsBound
          /\ [][EngineStep => StepsLeft' < StepsLeft]_vars
          /\ [][StepsLeft' > StepsLeft => PowerOn]_vars
<1>1. TypeOK /\ QueueInv => StepsBound
  <2> SUFFICES ASSUME TypeOK, QueueInv PROVE StepsBound
    OBVIOUS
  <2>1. graph \in Graph /\ Len(graph.rows) \in Nat
    BY LeftCount, CycleGraphs DEF TypeOK
  <2>2. stage \in {"attempt", "handoff"} =>
          Cardinality(left) \in 0..Len(graph.rows)
    BY <2>1, ListedCount, ListedIsEntry DEF QueueInv
  <2> QED
    BY <2>1, <2>2 DEF StepsBound, StepsLeft
<1>2. TypeOK /\ QueueInv /\ QueueInv' /\ EngineStep => StepsLeft' < StepsLeft
  <2> SUFFICES ASSUME TypeOK, QueueInv, QueueInv', EngineStep
               PROVE  StepsLeft' < StepsLeft
    OBVIOUS
  <2> USE DEF attempt
  <2>0. /\ Len(graph.rows) \in Nat
        /\ stage \in {"attempt", "handoff"} =>
             IsFiniteSet(left) /\ Cardinality(left) \in Nat
    BY LeftCount
  <2>1. CASE RecordGood \/ ClearMarker
    BY <2>0, <2>1 DEF RecordGood, ClearMarker, StepsLeft
  <2>2. CASE Choose
    <3>1. stage = "decide" /\ stage' \in {"gaveup", "attempt"} /\ graph' = graph
      BY <2>2 DEF Choose
    <3>2. graph \in Graph
      BY CycleGraphs DEF TypeOK
    <3>3. stage' = "attempt" => left' \subseteq Listed(graph)
      BY <3>1, <3>2, ListedIsEntry DEF QueueInv, BootableEntries, Listed
    <3>4. stage' = "attempt" => /\ Cardinality(left') \in Nat
                                /\ Cardinality(left') <= Len(graph.rows)
      BY <3>2, <3>3, ListedCount
    <3> QED
      BY <2>0, <3>1, <3>4 DEF StepsLeft
  <2>3. CASE Skip \/ Arm
    <3>1. /\ stage = "attempt" /\ stage' \in {"attempt", "handoff"}
          /\ \E e \in left : left' = left \ {e}
      BY <2>3 DEF Skip, Arm
    <3>2. Cardinality(left') = Cardinality(left) - 1
      BY <2>0, <3>1, FS_RemoveElement
    <3> QED
      BY <2>0, <3>1, <3>2 DEF StepsLeft
  <2>4. CASE HandoffFails \/ HandoffSucceeds \/ GiveUp
    BY <2>0, <2>4 DEF HandoffFails, HandoffSucceeds, GiveUp, StepsLeft
  <2> QED
    BY <2>1, <2>2, <2>3, <2>4 DEF EngineStep
<1>3. /\ TypeOK /\ QueueInv /\ StepsBound
      /\ TypeOK' /\ QueueInv' /\ StepsBound'
      /\ [Next]_vars
      => (StepsLeft' > StepsLeft => PowerOn)
  <2> SUFFICES ASSUME TypeOK, QueueInv, StepsBound,
                      TypeOK', QueueInv', StepsBound', [Next]_vars,
                      StepsLeft' > StepsLeft
               PROVE  PowerOn
    OBVIOUS
  <2>0. StepsLeft \in Int /\ StepsLeft' \in Int /\ StepsLeft >= 0
    BY DEF StepsBound
  <2>1. ~EngineStep
    BY <1>2, <2>0
  <2>2. ~(FirmwareBoot \/ Bless \/ BlessEntry \/ PowerOff)
    BY <2>0 DEF FirmwareBoot, Bless, BlessEntry, PowerOff, StepsLeft
  <2>3. ~UNCHANGED vars
    BY <2>0 DEF vars, StepsLeft
  <2> QED
    BY <2>1, <2>2, <2>3 DEF Next
<1> QED
  BY <1>1, <1>2, <1>3, CycleTypeCorrect, QueueCorrect, PTL DEF Spec
=============================================================================
