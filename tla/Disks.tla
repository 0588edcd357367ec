------------------------------- MODULE Disks -------------------------------
(***************************************************************************)
(* One power-on on a machine with several disks: MultiVolume of            *)
(* crates/platform, the scan of every volume, the assessment, and the      *)
(* self-exclusion of crates/engine, and the handoffs, each of which finds  *)
(* its image on the disks again, by the volume id and the path that the    *)
(* entry has kept - after a disk may have been pulled.                     *)
(*                                                                         *)
(* Volumes are numbered in the order of the firmware's handles.  Which     *)
(* entry is tried first is Policy's matter: here any bootable one is.      *)
(***************************************************************************)
EXTENDS Discovery, FiniteSets

CONSTANTS
  Volume,       \* 1..n, the volumes the firmware lists
  VolumeIds,    \* what hashes of device paths may be
  Contents,     \* what a disk may hold
  Options,      \* what the Boot#### options may be: sequences of Kinds
  Installations \* where on its own volume MyBoot may be: sets of paths

ASSUME VolumeAssumption ==
  IsFiniteSet(Volume) /\ Volume = 1..Cardinality(Volume)
ASSUME IdsAssumption == "none" \notin VolumeIds
ASSUME ContentsAssumption ==
  \A d \in Contents : d \in Disk /\ IsFiniteSet(d.files)
ASSUME OptionsAssumption == Options \subseteq Seq(Kinds)
ASSUME InstallationsAssumption ==
  \A c \in Installations : c \subseteq {FallbackLoader} \cup ({"MyBoot"} \X STRING)

VARIABLES
  disk,       \* what each volume holds
  id,         \* each volume's id
  options,    \* the firmware's Boot#### options
  own,        \* the volume MyBoot was started from
  copies,     \* its paths that hold MyBoot
  plugged,    \* the volumes still there
  step,       \* what run() does next
  next,       \* the next volume to scan
  raw,        \* raw entries found so far
  graph,      \* the Boot Graph
  tried,      \* entries handed off to in vain
  started     \* what was started: its entry and method, volume and path

vars == <<disk, id, options, own, copies, plugged, step, next, raw, graph,
          tried, started>>

machine == <<disk, id, options, own, copies>>

Nothing == [entry |-> <<>>, method |-> "none", volume |-> 0, path |-> NoPath]

-----------------------------------------------------------------------------
(* MultiVolume.                                                            *)

Has(v, path) == v \in plugged /\ path \in disk[v].files

(* exists() of MultiVolume is true of these.                               *)
Files == UNION {disk[v].files : v \in plugged}

First(vs) == CHOOSE v \in vs : \A w \in vs : v <= w

ChainloadAnyVolume(e) ==
  LET holders == {v \in Volume : Has(v, PlanTarget(e))}
  IN IF holders # {} THEN First(holders) ELSE 0

ChainloadNamedOnly(e) ==
  LET named == {v \in Volume : Has(v, PlanTarget(e)) /\ id[v] = e.volume}
  IN IF named # {} THEN First(named) ELSE 0

(* chainload_on: the volume the entry names, if it has the file; otherwise *)
(* the first volume that has it.  0: none has.                             *)
ChainloadVolume(e) ==
  LET holders == {v \in Volume : Has(v, PlanTarget(e))}
      named   == {v \in holders : id[v] = e.volume}
  IN IF named # {} THEN First(named)
     ELSE IF holders # {} THEN First(holders) ELSE 0

(* direct_boot::launch reads kernel and initrd from MyBoot's own volume.   *)
DirectBootVolume(e) ==
  IF \A p \in {e.kernel, e.initrd} \ {NoPath} : Has(own, p) THEN own ELSE 0

LaunchVolume(e) ==
  IF e.method = "LinuxDirect" THEN DirectBootVolume(e) ELSE ChainloadVolume(e)

-----------------------------------------------------------------------------

Init ==
  /\ disk \in [Volume -> Contents]
  /\ id \in [Volume -> VolumeIds]
  /\ options \in Options
  /\ own \in Volume
  /\ copies \in Installations
  /\ copies \subseteq disk[own].files
  /\ plugged = Volume
  /\ step = "variables"
  /\ next = 1
  /\ raw = <<>>
  /\ graph = {}
  /\ tried = {}
  /\ started = Nothing

ReadVariables ==
  /\ step = "variables"
  /\ raw' = VariableEntries(options)
  /\ step' = "volumes"
  /\ UNCHANGED <<machine, plugged, next, graph, tried, started>>

(* discover_multi: the volumes one after the other, in handle order.       *)
ScanNext ==
  /\ step = "volumes"
  /\ next \in Volume
  /\ raw' = IF next \in plugged THEN raw \o ScanVolume(disk[next], id[next])
                                ELSE raw
  /\ next' = next + 1
  /\ UNCHANGED <<machine, plugged, step, graph, tried, started>>

Build ==
  /\ step = "volumes"
  /\ next \notin Volume
  /\ graph' = BuildGraph(raw)
  /\ raw' = <<>>
  /\ step' = "assess"
  /\ UNCHANGED <<machine, plugged, next, tried, started>>

(* assess_all: every entry of the graph.                                   *)
Assess ==
  /\ step = "assess"
  /\ graph' = {[e EXCEPT !.health = AssessEntry(e, Files)] : e \in graph}
  /\ step' = "exclude"
  /\ UNCHANGED <<machine, plugged, next, raw, tried, started>>

IsSelfAnywhere(e) == e.loader = FallbackLoader

IsSelfNever(e) == FALSE

(* The entry of the fallback loader on MyBoot's own volume is taken for    *)
(* MyBoot, be it a copy of it or not.  (run() excludes nothing if the      *)
(* firmware does not tell the own volume; here it does.)                   *)
IsSelf(e) == e.volume = id[own] /\ e.loader = FallbackLoader

ExcludeSelf ==
  /\ step = "exclude"
  /\ graph' = {e \in graph : ~IsSelf(e)}
  /\ step' = "menu"
  /\ UNCHANGED <<machine, plugged, next, raw, tried, started>>

Launchable == {e \in graph : Bootable(e) /\ PlanTarget(e) # NoPath}

(* launch() finds an image and starts it.                                  *)
HandoffSucceeds ==
  /\ step = "menu"
  /\ \E e \in Launchable \ tried :
       /\ LaunchVolume(e) # 0
       /\ started' = [entry |-> Id(e), method |-> e.method,
                      volume |-> LaunchVolume(e), path |-> PlanTarget(e)]
  /\ step' = "os"
  /\ UNCHANGED <<machine, plugged, next, raw, graph, tried>>

(* There is none, or the firmware refuses it, or it exits.                 *)
HandoffFails ==
  /\ step = "menu"
  /\ \E e \in Launchable \ tried : tried' = tried \cup {e}
  /\ UNCHANGED <<machine, plugged, step, next, raw, graph, started>>

GiveUp ==
  /\ step = "menu"
  /\ tried = Launchable
  /\ step' = "gaveup"
  /\ UNCHANGED <<machine, plugged, next, raw, graph, tried, started>>

(* Someone pulls a disk, not the one MyBoot runs from.                     *)
Unplug ==
  /\ step \in {"variables", "volumes", "assess", "exclude", "menu"}
  /\ \E v \in plugged \ {own} : plugged' = plugged \ {v}
  /\ UNCHANGED <<machine, step, next, raw, graph, tried, started>>

Next ==
  \/ ReadVariables
  \/ ScanNext
  \/ Build
  \/ Assess
  \/ ExcludeSelf
  \/ HandoffSucceeds
  \/ HandoffFails
  \/ GiveUp
  \/ Unplug

Spec == Init /\ [][Next]_vars

-----------------------------------------------------------------------------

(* Volume ids tell the volumes apart: no two device paths hash alike, and  *)
(* at most one cannot be read (all such volumes share "vol-unknown").      *)
IdsAreDistinct == \A v, w \in Volume : id[v] = id[w] => v = w

(* build.rs:27-32: nothing is offered that dead-ends the handoff.  Every   *)
(* bootable entry has a launch plan.                                       *)
OfferedIsPlannable == \A e \in graph : Bootable(e) => PlanTarget(e) # NoPath

(* Health looks for files on any volume, and so does a chainload in the    *)
(* end: with the disks left in place, what is offered is found.            *)
OfferedIsFound ==
  step = "menu" /\ plugged = Volume =>
    \A e \in Launchable : e.method # "LinuxDirect" => LaunchVolume(e) # 0

(* What there is to chainload on a disk: its well-known loaders, and the   *)
(* best one of each vendor directory.                                      *)
LoadersOf(d) ==
  ({WindowsLoader, FallbackLoader} \cap d.files)
    \cup {BestLoader(d, dir) : dir \in VendorDirs(d)}

(* pipeline.rs:61-65: every other system on every disk is preserved.  Each *)
(* loader of each disk has an entry that starts that very copy of it, but  *)
(* for the fallback loader of MyBoot's own volume - which is another       *)
(* system's where the host tool found one and left it (install.rs:74-78):  *)
(* that system alone is lost.                                              *)
EveryLoaderIsOffered ==
  step = "menu" /\ plugged = Volume /\ IdsAreDistinct =>
    \A v \in Volume : \A path \in LoadersOf(disk[v]) :
      \/ v = own /\ path = FallbackLoader
      \/ \E e \in Launchable : PlanTarget(e) = path /\ LaunchVolume(e) = v

(* volume/mod.rs:212-214: the right disk's copy is booted.  The image that *)
(* is started is on the volume its entry was found on, unless it is a      *)
(* kernel: a kernel that this volume lacks is taken from any other one     *)
(* (volume/mod.rs:217-226), and a kernel that is booted directly is always *)
(* taken from MyBoot's own (direct_boot.rs:34).  (pipeline.rs:434-437 says *)
(* "the right disk" of every image.)                                       *)
RightDisk ==
  step = "os" /\ plugged = Volume /\ IdsAreDistinct =>
    LET loader == started.entry[1][3]
        volume == started.entry[2]
    IN \/ volume \in {id[started.volume], "none"}
       \/ /\ loader = NoPath
          /\ \A v \in Volume : id[v] = volume => started.path \notin disk[v].files
       \/ started.method = "LinuxDirect" /\ started.volume = own

(* pipeline.rs:61-63: MyBoot never boots itself.  A second copy that ran   *)
(* would find the same disks, arm the marker again, and choose the same.   *)
(* After a disk was pulled it may: its entry's path is then looked for on  *)
(* every volume, MyBoot's own with them (volume/mod.rs:225).               *)
NeverStartsItself ==
  step = "os" /\ plugged = Volume =>
    ~(started.volume = own /\ started.path \in copies)
=============================================================================
