------------------------------- MODULE Policy -------------------------------
(***************************************************************************)
(* The default entry and the order of fallbacks: crates/policy, with the   *)
(* attempt list that crates/engine/src/pipeline.rs builds from them.       *)
(* These are pure functions of the graph and of the history.               *)
(***************************************************************************)
EXTENDS BootGraph

History == [configuredDefault : MaybeEntry, lastGood : MaybeEntry, oneShot : MaybeEntry]

Strategies == {"Default", "LastGoodThenDefault"}

Reasons == {"OneShot", "ConfiguredDefault", "LastGood", "FellBackToHealthiest",
            "HealthiestAvailable"}

NoDecision == [chosen |-> NoEntry, reason |-> "None"]

-----------------------------------------------------------------------------

(* graph.find(e): where e is first listed.                                 *)
Position(g, e) ==
  CHOOSE i \in DOMAIN g.rows :
    g.rows[i] = e /\ \A j \in DOMAIN g.rows : j < i => g.rows[j] # e

(* The order of attempts, as a relation: the chosen entry before all, then *)
(* the healthier one, then the one listed first.                           *)
GoesBefore(g, chosen, e, f) ==
  \/ e = chosen
  \/ /\ f # chosen
     /\ \/ HealthRank(g.health[e]) > HealthRank(g.health[f])
        \/ /\ HealthRank(g.health[e]) = HealthRank(g.health[f])
           /\ Position(g, e) < Position(g, f)

(* e is the member of S that comes first in that order.                    *)
IsNextOf(g, chosen, S, e) ==
  /\ e \in S
  /\ \A f \in S \ {e} : GoesBefore(g, chosen, e, f)

(* pick_healthiest(): the healthiest bootable entry, the first listed of   *)
(* several.                                                                *)
PickHealthiest(g) ==
  IF BootableEntries(g) = {} THEN NoEntry
  ELSE CHOOSE e \in BootableEntries(g) : IsNextOf(g, NoEntry, BootableEntries(g), e)

PreferLastGood(h, strategy) ==
  IF h.lastGood # NoEntry
  THEN [chosen |-> h.lastGood, reason |-> "LastGood"]
  ELSE [chosen |-> h.configuredDefault, reason |-> "ConfiguredDefault"]

(* What the strategy asks for first.  A last-good entry, once there is     *)
(* one, hides the configured default.                                      *)
Preferred(h, strategy) ==
  IF strategy = "LastGoodThenDefault" /\ h.lastGood # NoEntry
  THEN [chosen |-> h.lastGood, reason |-> "LastGood"]
  ELSE [chosen |-> h.configuredDefault, reason |-> "ConfiguredDefault"]

(* The preferred entry is taken without a look at its health.              *)
DecideUnchecked(g, h, strategy) ==
  LET p == Preferred(h, strategy) IN
  CASE h.oneShot \in BootableEntries(g) ->
         [chosen |-> h.oneShot, reason |-> "OneShot"]
    [] h.oneShot \notin BootableEntries(g) /\ p.chosen \in Listed(g) -> p
    [] OTHER ->
         IF PickHealthiest(g) = NoEntry THEN NoDecision
         ELSE [chosen |-> PickHealthiest(g),
               reason |-> IF p.chosen = NoEntry
                          THEN "HealthiestAvailable" ELSE "FellBackToHealthiest"]

(* decide(): one-shot, then the preferred entry, then the healthiest.      *)
Decide(g, h, strategy) ==
  LET p == Preferred(h, strategy) IN
  CASE h.oneShot \in BootableEntries(g) ->
         [chosen |-> h.oneShot, reason |-> "OneShot"]
    [] h.oneShot \notin BootableEntries(g) /\ p.chosen \in BootableEntries(g) -> p
    [] OTHER ->
         IF PickHealthiest(g) = NoEntry THEN NoDecision
         ELSE [chosen |-> PickHealthiest(g),
               reason |-> IF p.chosen = NoEntry
                          THEN "HealthiestAvailable" ELSE "FellBackToHealthiest"]

(* The elements of a list that are in S, in their order: what a loop over  *)
(* the list that tests each element collects.                              *)
Those(s, S) ==
  LET those[i \in 0..Len(s)] ==
        IF i = 0 THEN <<>>
        ELSE IF s[i] \in S THEN Append(those[i - 1], s[i]) ELSE those[i - 1]
  IN those[Len(s)]

RankedUnsorted(g) == Those(g.rows, BootableEntries(g))

(* ranked_candidates(): the bootable entries, stably sorted by falling     *)
(* rank, of which only two are bootable.                                   *)
RankedCandidates(g) ==
  Those(g.rows, {e \in Entry : g.health[e] = "Healthy"})
    \o Those(g.rows, {e \in Entry : g.health[e] = "Degraded"})

(* The attempt list of run(): the chosen entry, then the other candidates. *)
AttemptList(g, chosen) ==
  <<chosen>> \o Those(RankedCandidates(g), Entry \ {chosen})
=============================================================================
