----------------------------- MODULE Discovery -----------------------------
(***************************************************************************)
(* From disks and firmware variables to the entries of the Boot Graph:     *)
(* the sources, the merge and the assessment of crates/discovery and       *)
(* crates/health, and the launch plans of crates/providers.                *)
(*                                                                         *)
(* A path is <<directory, file>>, and <<>> where the code has None.  Names *)
(* are compared as FAT compares them, case aside.  Titles are left out,    *)
(* and with them the grouping and sorting of the listing, which add and    *)
(* remove nothing: the Boot Graph is here the set of its entries.          *)
(***************************************************************************)
EXTENDS Naturals, Sequences, SequencesExt

Path   == STRING \X STRING
NoPath == <<>>
WindowsLoader  == <<"Microsoft", "bootmgfw">>
FallbackLoader == <<"BOOT", "BOOTX64">>

Kinds   == {"Windows", "Linux", "NixOs", "GenericEfi"}
Methods == {"WindowsBootManager", "LinuxEfiStub", "LinuxDirect",
            "NixGeneration", "EfiChainload"}
Chainloads == {"WindowsBootManager", "EfiChainload"}

(* Vendor directories that are no distribution's, or another source's.     *)
SkippedDirs == {"BOOT", "Microsoft", "systemd", "refind", "nixos", "MyBoot"}

(* A vendor directory's loader files, in order of preference.              *)
Loaders == <<"shimx64", "grubx64", "systemd-bootx64", "BOOTX64">>

RawEntry(kind, role, method, loader, kernel, initrd) ==
  [kind |-> kind, role |-> role, method |-> method, loader |-> loader,
   kernel |-> kernel, initrd |-> initrd, volume |-> "none",
   health |-> "Unknown"]

-----------------------------------------------------------------------------
(* The sources.  A disk has files, of which some kernels are EFI stubs,    *)
(* and descriptions of boot targets: BLS files and NixOS bootspecs, each   *)
(* with a kind, a role, a kernel and an initrd.                            *)

BootTarget == [kind : Kinds, role : STRING, kernel : Path,
               initrd : Path \cup {NoPath}]

Disk == [files : SUBSET Path, stubs : SUBSET Path,
         bls : Seq(BootTarget), bootspecs : Seq(BootTarget)]

(* Active Boot#### options, by the kind of system their description tells; *)
(* only Windows has a well-known loader.                                   *)
VariableEntries(options) ==
  [i \in DOMAIN options |->
     IF options[i] = "Windows"
     THEN RawEntry("Windows", "Default", "WindowsBootManager",
                   WindowsLoader, NoPath, NoPath)
     ELSE RawEntry(options[i], "Default", "EfiChainload",
                   NoPath, NoPath, NoPath)]

EspEntries(disk) ==
  LET windows  == RawEntry("Windows", "Default", "WindowsBootManager",
                           WindowsLoader, NoPath, NoPath)
      fallback == RawEntry("GenericEfi", "Fallback", "EfiChainload",
                           FallbackLoader, NoPath, NoPath)
      found(e) == IF e.loader \in disk.files THEN <<e>> ELSE <<>>
  IN found(windows) \o found(fallback)

(* The loader files of a vendor directory that are there, by preference.   *)
VendorLoaders(disk, dir) ==
  {i \in DOMAIN Loaders : <<dir, Loaders[i]>> \in disk.files}

BestLoader(disk, dir) == <<dir, Loaders[Min(VendorLoaders(disk, dir))]>>

VendorDirs(disk) ==
  {dir \in {p[1] : p \in disk.files} \ SkippedDirs :
     VendorLoaders(disk, dir) # {}}

DistroEntries(disk) ==
  LET dirs == SetToSeq(VendorDirs(disk))
  IN [i \in DOMAIN dirs |->
        RawEntry("Linux", "Default", "EfiChainload",
                 BestLoader(disk, dirs[i]), NoPath, NoPath)]

Described(targets, method) ==
  [i \in DOMAIN targets |->
     RawEntry(targets[i].kind, targets[i].role, method, NoPath,
              targets[i].kernel, targets[i].initrd)]

(* A kernel that can be read and is no EFI stub has to be booted directly. *)
Refine(disk, e) ==
  IF e.method = "LinuxEfiStub" /\ e.kernel \in disk.files \ disk.stubs
  THEN [e EXCEPT !.method = "LinuxDirect"]
  ELSE e

ScanVolume(disk, id) ==
  LET raw == EspEntries(disk) \o DistroEntries(disk)
             \o Described(disk.bls, "LinuxEfiStub")
             \o Described(disk.bootspecs, "NixGeneration")
  IN [i \in DOMAIN raw |-> [Refine(disk, raw[i]) EXCEPT !.volume = id]]

-----------------------------------------------------------------------------
(* The Boot Graph.                                                         *)

BaseId(e) == <<e.kind, e.role, e.loader>>

Id(e) == <<BaseId(e), e.volume>>

(* What the first raw entry of an id that has the field says of it.        *)
FirstKnown(raw, id, field) ==
  LET known == {i \in DOMAIN raw : Id(raw[i]) = id /\ raw[i][field] # NoPath}
  IN IF known = {} THEN NoPath
     ELSE raw[CHOOSE i \in known : \A j \in known : i <= j][field]

(* merge_into: the first entry of an id stays, and gets the paths it lacks *)
(* from the later ones.  The id holds the loader, so it never lacks that.  *)
MergeInto(raw, e) ==
  [e EXCEPT !.kernel = IF @ = NoPath THEN FirstKnown(raw, Id(e), "kernel")
                                     ELSE @,
            !.initrd = IF @ = NoPath THEN FirstKnown(raw, Id(e), "initrd")
                                     ELSE @]

Merged(raw) ==
  {MergeInto(raw, raw[i]) :
     i \in {j \in DOMAIN raw : \A k \in 1..(j - 1) : Id(raw[k]) # Id(raw[j])}}

AnyTarget(e) == TRUE

HasTarget(e) == e.loader # NoPath \/ e.kernel # NoPath

(* A firmware entry that some volume's entry describes more closely.       *)
HasTwin(es, e) ==
  /\ e.volume = "none"
  /\ \E other \in es : other.volume # "none" /\ BaseId(other) = BaseId(e)

BuildGraph(raw) ==
  LET targets == {e \in Merged(raw) : HasTarget(e)}
  IN {e \in targets : ~HasTwin(targets, e)}

-----------------------------------------------------------------------------
(* Health, and the plan a provider makes: the image it chainloads, or the  *)
(* kernel it boots directly.                                               *)

(* files: those that some volume has.                                      *)
AssessEntry(e, files) ==
  IF ~({e.loader, e.kernel} \subseteq files \cup {NoPath}) THEN "Unbootable"
  ELSE IF e.initrd \notin files \cup {NoPath} THEN "Degraded"
  ELSE "Healthy"

Bootable(e) == e.health \in {"Healthy", "Degraded"}

PlanTarget(e) ==
  IF e.method \in Chainloads THEN e.loader ELSE e.kernel
=============================================================================
