----------------------------- MODULE BootCycle -----------------------------
(***************************************************************************)
(* The confirm-or-roll-back protocol across boots: run() of                *)
(* crates/engine/src/pipeline.rs, the two variables it keeps in NVRAM (the *)
(* BootAttempt marker and LastGood), the systems it starts, the bless      *)
(* command they run, and the firmware that starts MyBoot or, when MyBoot   *)
(* returns an error, the next boot option.                                 *)
(*                                                                         *)
(* Stages of one power-on:                                                 *)
(*   off -> record -> clear -> decide -> attempt <-> handoff -> os         *)
(*                                       attempt -> gaveup                 *)
(* Power can be lost between any two of them; only marker and lastGood     *)
(* survive.  Steps that touch no NVRAM variable are merged with the next   *)
(* one that does: a loss of power between them has the same outcome.       *)
(***************************************************************************)
EXTENDS Menu

CONSTANTS
  Graphs,       \* what discovery and assessment may produce at a power-on
  Configured,   \* config.toml's default entry, NoEntry without a config
  Strategy,     \* config.toml's policy
  Attended,     \* TRUE if someone may choose at the menu
  Reliable,     \* TRUE if no NVRAM call ever fails
  Blessers,     \* which systems run bless: "myboot", "firmware" (see via)
  NamedBless,   \* TRUE if someone may run bless --entry
  NoMarker,     \* the BootAttempt variable is absent
  Garbled       \* it holds what Marker::decode rejects

ASSUME CycleGraphs == Graphs \subseteq Graph
ASSUME ConfiguredAssumption == Configured \in MaybeEntry
ASSUME StrategyAssumption == Strategy \in Strategies
ASSUME CycleFlags == {Attended, Reliable, NamedBless} \subseteq BOOLEAN
ASSUME BlessersAssumption == Blessers \subseteq {"myboot", "firmware"}

VARIABLES
  marker,     \* NVRAM BootAttempt: NoMarker, Garbled, or a Marker
  lastGood,   \* NVRAM LastGood
  stage,      \* where this power-on stands
  graph,      \* the Boot Graph of this power-on
  chosen,     \* the entry present() returned
  left,       \* the candidates not yet tried
  cand,       \* the candidate whose attempt is staged
  running,    \* the entry whose system runs, in stage os
  via,        \* who started that system: myboot or firmware
  tried,      \* history: entries this power-on handed off to in vain
  vouched,    \* history: entries some bless has named
  earned      \* history: entries that were blessed while they ran

vars == <<marker, lastGood, stage, graph, chosen, left, cand, running, via,
          tried, vouched, earned>>

nvram   == <<marker, lastGood>>
attempt == <<graph, chosen, left, cand, tried>>
system  == <<running, via>>
history == <<vouched, earned>>

Marker == [entry : Entry, confirmed : BOOLEAN]

ASSUME MarkerAssumption == {NoMarker, Garbled} \cap Marker = {}

IsConfirmed(m) == m \in Marker /\ m.confirmed

Engine == {"record", "clear", "decide", "attempt", "handoff"}

(* What an NVRAM write leaves behind; the engine ignores its error.        *)
Written(old, new) == IF Reliable THEN {new} ELSE {old, new}

(* What an NVRAM read returns; an error or garbage reads as absent.        *)
ReadAs(value, absent) == IF Reliable THEN {value} ELSE {value, absent}

(* Entries that can be handed off to: select() takes them, and a provider  *)
(* plans them.  The budget never refuses one: load_tries() always returns  *)
(* an empty map, so every transaction starts with the full max_tries.      *)
Launchable(g) == BootableEntries(g) \cap g.plannable

-----------------------------------------------------------------------------

Init ==
  /\ marker \in {NoMarker, Garbled}
  /\ lastGood \in MaybeEntry
  /\ stage = "off"
  /\ graph \in Graphs
  /\ chosen = NoEntry
  /\ left = {}
  /\ cand = NoEntry
  /\ running = NoEntry
  /\ via = "myboot"
  /\ tried = {}
  /\ vouched = {lastGood} \cap Entry
  /\ earned = vouched

PowerOnTrusting ==
  /\ stage = "off"
  /\ graph' \in Graphs
  /\ stage' = IF marker \in Marker THEN "record" ELSE "decide"
  /\ tried' = {}
  /\ UNCHANGED <<nvram, chosen, left, cand, system, history>>

(* The firmware starts MyBoot, which reads the marker and discovers.       *)
PowerOn ==
  /\ stage = "off"
  /\ graph' \in Graphs
  /\ \E pending \in ReadAs(marker, NoMarker) :
       stage' = IF IsConfirmed(pending) THEN "record"
                ELSE IF pending \in Marker THEN "clear" ELSE "decide"
  /\ tried' = {}
  /\ UNCHANGED <<nvram, chosen, left, cand, system, history>>

RecordSkipped ==
  /\ stage = "record"
  /\ stage' = "clear"
  /\ UNCHANGED <<nvram, attempt, system, history>>

(* reconcile_previous_boot(): a confirmed boot becomes the last good one,  *)
RecordGood ==
  /\ stage = "record"
  /\ lastGood' \in Written(lastGood, marker.entry)
  /\ stage' = "clear"
  /\ UNCHANGED <<marker, attempt, system, history>>

(* and the marker, confirmed or not, is cleared.                           *)
ClearMarker ==
  /\ stage = "clear"
  /\ marker' \in Written(marker, NoMarker)
  /\ stage' = "decide"
  /\ UNCHANGED <<lastGood, attempt, system, history>>

HistoryRead(good) ==
  [configuredDefault |-> Configured, lastGood |-> good, oneShot |-> NoEntry]

(* What present() returns with no one at the keyboard, with and without a  *)
(* screen (see Present for the screens themselves).                        *)
UnattendedChoices(g, d) ==
  {Headless(g, d), OnTimeout(g, d, InitialCursor(g, d))}

Choose ==
  /\ stage = "decide"
  /\ \E good \in ReadAs(lastGood, NoEntry) :
       LET d == Decide(graph, HistoryRead(good), Strategy) IN
       \/ chosen' \in UnattendedChoices(graph, d)
       \/ Attended /\ chosen' \in BootableEntries(graph)
  /\ IF chosen' = NoEntry
     THEN stage' = "gaveup" /\ left' = {}
     ELSE stage' = "attempt" /\ left' = {chosen'} \cup BootableEntries(graph)
  /\ UNCHANGED <<nvram, graph, cand, tried, system, history>>

(* An entry without a launch plan, or that select() refuses, is passed     *)
(* over and wastes no attempt.                                             *)
Skip ==
  /\ stage = "attempt"
  /\ \E e \in left :
       /\ IsNextOf(graph, chosen, left, e)
       /\ e \notin Launchable(graph)
       /\ left' = left \ {e}
  /\ UNCHANGED <<nvram, stage, graph, chosen, cand, tried, system, history>>

ArmIfAbsent ==
  /\ stage = "attempt"
  /\ \E e \in left \cap Launchable(graph) :
       /\ IsNextOf(graph, chosen, left, e)
       /\ marker' \in IF marker \in Marker THEN {marker}
                      ELSE Written(marker, [entry |-> e, confirmed |-> FALSE])
       /\ cand' = e
       /\ left' = left \ {e}
  /\ stage' = "handoff"
  /\ UNCHANGED <<lastGood, graph, chosen, tried, system, history>>

ArmAndKeep ==
  /\ stage = "attempt"
  /\ \E e \in left \cap Launchable(graph) :
       /\ IsNextOf(graph, chosen, left, e)
       /\ marker' \in Written(marker, [entry |-> e, confirmed |-> FALSE])
       /\ cand' = e
  /\ stage' = "handoff"
  /\ UNCHANGED <<lastGood, graph, chosen, left, tried, system, history>>

(* select, validate, stage: the marker is armed before the handoff, over   *)
(* whatever it held, and an error in arming it is ignored.                 *)
Arm ==
  /\ stage = "attempt"
  /\ \E e \in left \cap Launchable(graph) :
       /\ IsNextOf(graph, chosen, left, e)
       /\ marker' \in Written(marker, [entry |-> e, confirmed |-> FALSE])
       /\ cand' = e
       /\ left' = left \ {e}
  /\ stage' = "handoff"
  /\ UNCHANGED <<lastGood, graph, chosen, tried, system, history>>

(* launch() returns: no image, a refused signature, an image that exits.   *)
HandoffFails ==
  /\ stage = "handoff"
  /\ tried' = tried \cup {cand}
  /\ stage' = "attempt"
  /\ UNCHANGED <<nvram, graph, chosen, left, cand, system, history>>

(* launch() never returns.                                                 *)
HandoffSucceeds ==
  /\ stage = "handoff"
  /\ running' = cand
  /\ via' = "myboot"
  /\ stage' = "os"
  /\ UNCHANGED <<nvram, attempt, history>>

GiveUpAfterOne ==
  /\ stage = "attempt"
  /\ left = {} \/ tried # {}
  /\ stage' = "gaveup"
  /\ UNCHANGED <<nvram, attempt, system, history>>

(* Every candidate was handed off in vain: run() returns an error, and     *)
(* efi_main LOAD_ERROR, with the last candidate's marker still armed.      *)
GiveUp ==
  /\ stage = "attempt"
  /\ left = {}
  /\ stage' = "gaveup"
  /\ UNCHANGED <<nvram, attempt, system, history>>

-----------------------------------------------------------------------------

(* The firmware starts a system by itself: its user or its boot order      *)
(* passes MyBoot over, or MyBoot has returned an error.                    *)
FirmwareBoot ==
  /\ stage \in {"off", "gaveup"}
  /\ running' \in Entry
  /\ via' = "firmware"
  /\ stage' = "os"
  /\ UNCHANGED <<nvram, attempt, history>>

(* What a bless of e means: someone vouches for it, and it has earned it   *)
(* if it is what runs.                                                     *)
Credit(e) ==
  /\ vouched' = vouched \cup {e}
  /\ earned' = earned \cup ({e} \cap {running})

(* myboot bless: confirms the entry the marker names, whatever runs; it    *)
(* refuses an absent or a garbled marker.                                  *)
Bless ==
  /\ stage = "os"
  /\ via \in Blessers
  /\ marker \in Marker
  /\ marker' = [marker EXCEPT !.confirmed = TRUE]
  /\ Credit(marker.entry)
  /\ UNCHANGED <<lastGood, stage, attempt, system>>

(* myboot bless --entry e: writes a confirmed marker for any e at all.     *)
BlessEntry ==
  /\ NamedBless
  /\ stage = "os"
  /\ \E e \in Entry :
       /\ marker' = [entry |-> e, confirmed |-> TRUE]
       /\ Credit(e)
  /\ UNCHANGED <<lastGood, stage, attempt, system>>

(* The running system stops, healthy or not; or a power-on is cut short.   *)
PowerOff ==
  /\ stage # "off"
  /\ stage' = "off"
  /\ running' = NoEntry
  /\ chosen' = NoEntry
  /\ left' = {}
  /\ cand' = NoEntry
  /\ UNCHANGED <<nvram, graph, via, tried, history>>

EngineStep ==
  \/ RecordGood
  \/ ClearMarker
  \/ Choose
  \/ Skip
  \/ Arm
  \/ HandoffFails
  \/ HandoffSucceeds
  \/ GiveUp

Next ==
  \/ PowerOn
  \/ EngineStep
  \/ FirmwareBoot
  \/ Bless
  \/ BlessEntry
  \/ PowerOff

Spec == Init /\ [][Next]_vars

(* run() is one sequential call: while it is on, its next step is taken.   *)
(* Nothing is assumed of the firmware, of the systems, or of the power.    *)
FairSpec == Spec /\ WF_vars(EngineStep)

-----------------------------------------------------------------------------

TypeOK ==
  /\ marker \in Marker \cup {NoMarker, Garbled}
  /\ lastGood \in MaybeEntry
  /\ stage \in Engine \cup {"off", "os", "gaveup"}
  /\ graph \in Graphs
  /\ chosen \in MaybeEntry
  /\ left \subseteq Entry
  /\ cand \in MaybeEntry
  /\ running \in MaybeEntry
  /\ via \in {"myboot", "firmware"}
  /\ tried \subseteq Entry
  /\ vouched \subseteq Entry
  /\ earned \subseteq Entry
  /\ stage = "record" => IsConfirmed(marker)
  /\ stage = "handoff" => cand \in Entry
  /\ stage = "os" => running \in Entry

(* The hard rule of crates/transaction: the attempt is on record before    *)
(* control leaves MyBoot.  Whatever fell through before it, the marker     *)
(* names the very entry that MyBoot started.                               *)
HandoffIsOnRecord ==
  stage = "os" /\ via = "myboot" =>
    marker \in Marker /\ marker.entry = running

(* BUILD_AND_TROUBLESHOOT.md:106: bless confirms the current boot.  So the *)
(* last good entry is one that has run, and was blessed while it ran.      *)
LastGoodIsEarned == lastGood \in earned \cup {NoEntry}

(* A boot that nothing ever confirmed is never taken for a good one,       *)
(* whatever NVRAM calls fail, whoever blesses, and wherever power is lost. *)
LastGoodIsVouched == lastGood \in vouched \cup {NoEntry}

(* HOW_IT_WORKS.md:257: a confirmed entry becomes the new last_good.  A    *)
(* confirmation leaves NVRAM only once it is recorded, or for another one; *)
(* a power loss between the two writes of the reconciliation loses none.   *)
ConfirmationIsRecorded ==
  [][IsConfirmed(marker) /\ ~IsConfirmed(marker') => lastGood' = marker.entry]_vars

(* Never a dead end: MyBoot returns to the firmware only after a handoff   *)
(* to every entry that could be launched, and to no other.                 *)
GivesUpLast == stage = "gaveup" => tried = Launchable(graph)

(* Every power-on comes to an end: the candidates run out, however their   *)
(* handoffs fail.                                                          *)
PowerOnResolves == stage \in Engine ~> stage \notin Engine
=============================================================================
