------------------------------ MODULE Decision ------------------------------
(***************************************************************************)
(* Stages 5, 6 and 8 of the boot pipeline: the configuration as someone    *)
(* and the host tool left it on the disks, what the engine makes of it,    *)
(* and, for any graph and any history, what the policy decides, why it     *)
(* says so, and in which order the entries would be attempted if that is   *)
(* accepted.                                                               *)
(*                                                                         *)
(* Volumes are numbered in the order of the firmware's handles.            *)
(***************************************************************************)
EXTENDS Config

CONSTANTS
  Volume,        \* the volumes, as numbers
  Files,         \* configuration files that someone may write
  ForeignFiles,  \* those that other volumes than MyBoot's may hold
  Graphs,        \* the graphs assessment may produce
  Requests       \* one-shot requests; the engine passes NoEntry only

ASSUME VolumesAreNumbers == Volume \subseteq Nat
ASSUME FilesAreFiles == Files \cup ForeignFiles \subseteq Seq(Line) \cup {NoFile}
ASSUME DecisionGraphs == Graphs \subseteq Graph

(* Discovery merges what it finds twice into one entry (build.rs).         *)
ASSUME ListedOnce ==
  \A g \in Graphs : \A i, j \in DOMAIN g.rows : g.rows[i] = g.rows[j] => i = j
ASSUME DecisionRequests == Requests \subseteq MaybeEntry

VARIABLES
  own,        \* the volume MyBoot is installed on
  file,       \* each volume's config.toml, or NoFile
  stage,      \* "host" until the power-on; then what run() did last
  config,     \* what load_config() returned
  graph, history, strategy, decision, attempts

vars == <<own, file, stage, config, graph, history, strategy, decision, attempts>>

pipeline == <<config, graph, history, strategy, decision, attempts>>

Init ==
  /\ own \in Volume
  /\ file \in [Volume -> ForeignFiles]
  /\ file[own] = NoFile
  /\ stage = "host"
  /\ config = NoConfig
  /\ graph \in Graphs
  /\ history = [configuredDefault |-> NoEntry, lastGood |-> NoEntry, oneShot |-> NoEntry]
  /\ strategy = "LastGoodThenDefault"
  /\ decision = NoDecision
  /\ attempts = <<>>

-----------------------------------------------------------------------------
(* On the host.                                                            *)

(* What `myboot install` does about the configuration; the images it       *)
(* copies beside it are the loaders that Disks finds.                      *)
Install ==
  /\ stage = "host"
  /\ file[own] = NoFile
  /\ file' = [file EXCEPT ![own] = InstalledConfig]
  /\ UNCHANGED <<own, stage, pipeline>>

(* `myboot uninstall` removes the directory that the file is in.           *)
Uninstall ==
  /\ stage = "host"
  /\ file[own] # NoFile
  /\ file' = [file EXCEPT ![own] = NoFile]
  /\ UNCHANGED <<own, stage, pipeline>>

(* Someone writes another configuration.                                   *)
Edit ==
  /\ stage = "host"
  /\ \E f \in Files : file' = [file EXCEPT ![own] = f]
  /\ UNCHANGED <<own, stage, pipeline>>

-----------------------------------------------------------------------------
(* The pipeline.                                                           *)

(* MultiVolume::read: the first volume that has the file.                  *)
FileRead ==
  LET holders == {v \in Volume : file[v] # NoFile}
  IN IF holders = {} THEN NoFile ELSE file[Min(holders)]

(* load_config, build_history and map_strategy, over whatever NVRAM says.  *)
LoadConfig ==
  /\ stage = "host"
  /\ stage' = "configured"
  /\ config' = Load(FileRead)
  /\ \E lastGood \in MaybeEntry, request \in Requests :
       history' =
         [configuredDefault |-> IF config' = NoConfig THEN NoEntry ELSE config'.default,
          lastGood |-> lastGood, oneShot |-> request]
  /\ strategy' = IF config' = NoConfig THEN "LastGoodThenDefault" ELSE config'.policy
  /\ UNCHANGED <<own, file, graph, decision, attempts>>

DecideDefault ==
  /\ stage = "configured"
  /\ stage' = "decided"
  /\ decision' = Decide(graph, history, strategy)
  /\ UNCHANGED <<own, file, config, graph, history, strategy, attempts>>

(* Whatever entry present() returns, every other bootable one follows it.  *)
BuildAttempts ==
  /\ stage = "decided"
  /\ stage' = "attempting"
  /\ \E chosen \in BootableEntries(graph) : attempts' = AttemptList(graph, chosen)
  /\ UNCHANGED <<own, file, config, graph, history, strategy, decision>>

Next == Install \/ Uninstall \/ Edit \/ LoadConfig \/ DecideDefault \/ BuildAttempts

Spec == Init /\ [][Next]_vars

-----------------------------------------------------------------------------

(* The loop of pick_healthiest(): it keeps the best bootable entry so far  *)
(* and lets only a strictly healthier one replace it.                      *)
ScanHealthiest(g) ==
  LET best[i \in 0..Len(g.rows)] ==
        IF i = 0 THEN NoEntry
        ELSE IF /\ IsBootable(g.health[g.rows[i]])
                /\ \/ best[i - 1] = NoEntry
                   \/ HealthRank(g.health[g.rows[i]]) > HealthRank(g.health[best[i - 1]])
             THEN g.rows[i]
             ELSE best[i - 1]
  IN best[Len(g.rows)]

(* The chain of fall-throughs in decide(): it declines only a graph with   *)
(* nothing to boot, honours a request that can be honoured, returns the    *)
(* entry its reason names, and falls back to a healthiest entry only when  *)
(* what comes first under the strategy cannot be booted: the last good     *)
(* entry where there is one and the strategy goes by it, otherwise the     *)
(* configured default.  One preference hides the other: a bootable default *)
(* is passed over, but only for a request or once there is a last good     *)
(* entry, be that bootable or not.  (HOW_IT_WORKS.md:153-155 has the       *)
(* default come first, and each tried if the one before it is not healthy.) *)
DecisionIsSound ==
  LET d        == Decide(graph, history, strategy)
      boots    == BootableEntries(graph)
      lastGood == history.lastGood
      default  == history.configuredDefault
      byLastGood == strategy = "LastGoodThenDefault" /\ lastGood # NoEntry
  IN
  /\ d = NoDecision <=> boots = {}
  /\ d # NoDecision => d.chosen \in boots
  /\ history.oneShot \in boots <=> d.reason = "OneShot"
  /\ d.reason = "OneShot" => d.chosen = history.oneShot
  /\ d.reason = "LastGood" => d.chosen = lastGood /\ byLastGood
  /\ d.reason = "ConfiguredDefault" => d.chosen = default /\ ~byLastGood
  /\ d.reason \in {"FellBackToHealthiest", "HealthiestAvailable"} =>
       /\ byLastGood => lastGood \notin boots
       /\ default \in boots => byLastGood
       /\ \A e \in boots :
            HealthRank(graph.health[e]) <= HealthRank(graph.health[d.chosen])

(* The attempt list tries every bootable entry exactly once and nothing    *)
(* else, the chosen one first and the rest best first (decide.rs:43).      *)
AttemptsAreExhaustive ==
  attempts # <<>> =>
    /\ ToSet(attempts) = BootableEntries(graph)
    /\ \A i, j \in DOMAIN attempts :
         i < j => GoesBefore(graph, attempts[1], attempts[i], attempts[j])
                    /\ attempts[i] # attempts[j]

(* A setting as it stands in the file: the first line of the section for   *)
(* the key, where the section is what follows its first header, up to the  *)
(* next header of any name.                                                *)
HeaderOf(f, i) == Max({0} \cup {j \in 1..(i - 1) : f[j].kind = "table"})

Written(f, name, key) ==
  LET headers == {j \in DOMAIN f : f[j].kind = "table" /\ f[j].name = name}
      home    == IF name = "" THEN {0} ELSE IF headers = {} THEN {} ELSE {Min(headers)}
      lines   == {i \in DOMAIN f : /\ f[i].kind = "pair"
                                   /\ f[i].name = key
                                   /\ HeaderOf(f, i) \in home}
  IN IF lines = {} THEN Unset ELSE f[Min(lines)].value

(* schema.rs:2: the file is the single source of truth.  A configuration   *)
(* that is accepted has every setting as it is written, or its default.    *)
AcceptedIsObeyed ==
  stage # "host" /\ config # NoConfig =>
    /\ config.default = Written(FileRead, "", "default")[2]
    /\ config.timeout = Or(Written(FileRead, "", "timeout"), 5)
    /\ config.maxTries = Or(Written(FileRead, "transaction", "max_tries"), 2)
    /\ config.policy = "Default" <=> Written(FileRead, "", "policy") = Text("default")

(* config.rs:1-4: the host's check is a light mirror of the schema's.  Of  *)
(* the files that the engine uses it refuses those in which a '#' stands   *)
(* between quotes before the `=`, and no other.                            *)
NoFalseAlarm ==
  config # NoConfig =>
    (HostAccepts(FileRead) <=>
       \A i \in DOMAIN FileRead : FileRead[i].name # HashedKey)

(* From the file to the decision: with the policy "default", a bootable    *)
(* configured default is what is decided, unless there is a request; and   *)
(* without a usable file no decision claims to be the configured one.      *)
ConfigurationDecides ==
  stage \in {"decided", "attempting"} =>
    /\ /\ config # NoConfig
       /\ strategy = "Default"
       /\ history.oneShot \notin BootableEntries(graph)
       /\ Written(FileRead, "", "default")[2] \in BootableEntries(graph)
       => decision.chosen = Written(FileRead, "", "default")[2]
    /\ config = NoConfig => decision.reason # "ConfiguredDefault"

(* INSTALL_GUIDE.md:143-145: MyBoot reads the configuration that install   *)
(* wrote, if it is neither missing nor invalid.                            *)
InstalledConfigIsUsed ==
  stage # "host" /\ FileRead = InstalledConfig => config # NoConfig
=============================================================================
