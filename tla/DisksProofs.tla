---------------------------- MODULE DisksProofs ----------------------------
(***************************************************************************)
(* What is offered, found and started, on every machine: any number of     *)
(* volumes, whatever they hold, whatever ids they have, and whatever the   *)
(* firmware's Boot#### options say.                                        *)
(*                                                                         *)
(* The proofs follow an entry through the sources, the merge, the          *)
(* assessment and the self-exclusion to the handoff.  A volume's entry     *)
(* names either a loader to chainload or a kernel, and keeps that; a       *)
(* firmware option may name neither, and merging never gives it a kernel,  *)
(* as all the entries of its id are firmware options too: so it goes when  *)
(* entries without a target are dropped.                                   *)
(***************************************************************************)
EXTENDS Disks, Lemmas, FiniteSetTheorems, FunctionTheorems, SequenceTheorems, TLAPS

(* A record with an entry's fields.                                        *)
IsEntry(e) ==
  e \in [kind : {e.kind}, role : {e.role}, method : {e.method},
         loader : {e.loader}, kernel : {e.kernel}, initrd : {e.initrd},
         volume : {e.volume}, health : {e.health}]

(* What a firmware option says: Windows' loader or none, and no kernel.    *)
FromFirmware(e) ==
  /\ IsEntry(e)
  /\ e.volume = "none"
  /\ e.method \in Chainloads
  /\ e.loader \in {WindowsLoader, NoPath}
  /\ e.kernel = NoPath

Kernels(d) ==
  {d.bls[i].kernel : i \in DOMAIN d.bls}
    \cup {d.bootspecs[i].kernel : i \in DOMAIN d.bootspecs}

(* What a disk says: a loader to chainload, or a kernel to be booted some  *)
(* other way, never both.                                                  *)
FoundOn(e, d) ==
  /\ IsEntry(e)
  /\ \/ /\ e.method \in Chainloads
        /\ e.loader \in LoadersOf(d)
        /\ e.kernel = NoPath
     \/ /\ e.method \notin Chainloads
        /\ e.loader = NoPath
        /\ e.kernel \in Kernels(d)

FromVolume(e) == \E v \in Volume : FoundOn(e, disk[v]) /\ e.volume = id[v]

IsSeq(s) == \E S : s \in Seq(S)

-----------------------------------------------------------------------------
(* Sequences.                                                              *)

(* A finite set listed as a sequence is a sequence of all its elements.    *)
LEMMA ListedSetIsSequence ==
  ASSUME NEW S, IsFiniteSet(S)
  PROVE  SetToSeq(S) \in Seq(S) /\ ToSet(SetToSeq(S)) = S
<1> DEFINE n == Cardinality(S)
           s == SetToSeq(S)
<1>1. n \in Nat /\ ExistsBijection(1..n, S)
  BY FS_CardinalityType
<1>2. \E f \in [1..n -> S] : IsInjective(f)
  <2>1. PICK f \in Bijection(1..n, S) : TRUE
    BY <1>1 DEF ExistsBijection
  <2>2. f \in Injection(1..n, S)
    BY <2>1 DEF Bijection
  <2>3. f \in [1..n -> S] /\ IsInjective(f)
    BY <2>2 DEF Injection, IsInjective
  <2>4. QED BY <2>3
<1>3. s \in [1..n -> S] /\ IsInjective(s)
  BY <1>2 DEF SetToSeq
<1> HIDE DEF s
<1>4. s \in Injection(1..n, S)
  BY <1>3 DEF Injection, IsInjective
<1>5. s \in Surjection(1..n, S)
  <2>1. Cardinality(1..n) = n
    BY <1>1, FS_Interval
  <2>2. QED BY <1>4, <2>1, FS_Injection
<1>6. ToSet(s) = S
  <2>1. DOMAIN s = 1..n
    BY <1>3
  <2>2. ToSet(s) \subseteq S
    BY <1>3, <2>1 DEF ToSet
  <2>3. \A x \in S : \E i \in 1..n : s[i] = x
    BY <1>5 DEF Surjection
  <2>4. QED BY <2>1, <2>2, <2>3 DEF ToSet
<1>7. s \in Seq(S)
  BY <1>1, <1>3
<1>8. QED BY <1>6, <1>7 DEF s

(* A sequence appended to another has the elements of both.                *)
LEMMA Concatenation ==
  ASSUME NEW s, NEW t, IsSeq(s), IsSeq(t)
  PROVE  IsSeq(s \o t) /\ ToSet(s \o t) = ToSet(s) \cup ToSet(t)
<1>. PICK A, B : s \in Seq(A) /\ t \in Seq(B)
  BY DEF IsSeq
<1>. DEFINE S == A \cup B
<1>1. s \in Seq(S) /\ t \in Seq(S)
  OBVIOUS
<1>2. s \o t \in Seq(S) /\ Len(s \o t) = Len(s) + Len(t)
  BY <1>1
<1>3. /\ \A i \in 1..Len(s) : (s \o t)[i] = s[i]
      /\ \A i \in 1..Len(t) : (s \o t)[Len(s) + i] = t[i]
  BY <1>1
<1>4. /\ DOMAIN s = 1..Len(s) /\ Len(s) \in Nat
      /\ DOMAIN t = 1..Len(t) /\ Len(t) \in Nat
      /\ DOMAIN (s \o t) = 1..Len(s \o t)
  BY <1>1, <1>2
<1>5. ToSet(s \o t) \subseteq ToSet(s) \cup ToSet(t)
  <2> SUFFICES ASSUME NEW i \in 1..(Len(s) + Len(t))
               PROVE  \/ \E j \in DOMAIN s : (s \o t)[i] = s[j]
                      \/ \E j \in DOMAIN t : (s \o t)[i] = t[j]
    BY <1>2, <1>4 DEF ToSet
  <2>1. CASE i <= Len(s)
    BY <2>1, <1>3, <1>4
  <2>2. CASE ~(i <= Len(s))
    <3>1. i - Len(s) \in 1..Len(t) /\ i = Len(s) + (i - Len(s))
      BY <2>2, <1>4
    <3>2. QED BY <3>1, <1>3, <1>4
  <2>3. QED BY <2>1, <2>2
<1>6. \A i \in DOMAIN s : s[i] \in ToSet(s \o t)
  <2>1. \A i \in DOMAIN s : i \in DOMAIN (s \o t)
    BY <1>2, <1>4
  <2>2. QED BY <2>1, <1>3, <1>4 DEF ToSet
<1>7. \A i \in DOMAIN t : t[i] \in ToSet(s \o t)
  <2>1. \A i \in DOMAIN t : Len(s) + i \in DOMAIN (s \o t)
    BY <1>2, <1>4
  <2>2. QED BY <2>1, <1>3, <1>4 DEF ToSet
<1>8. ToSet(s) \cup ToSet(t) \subseteq ToSet(s \o t)
  BY <1>6, <1>7 DEF ToSet
<1>9. IsSeq(s \o t)
  BY <1>2 DEF IsSeq
<1>10. QED BY <1>5, <1>8, <1>9

(* A function on the indices of a sequence is a sequence.                  *)
LEMMA Listing ==
  ASSUME NEW s, IsSeq(s), NEW f, f = [i \in DOMAIN s |-> f[i]]
  PROVE  IsSeq(f) /\ ToSet(f) = {f[i] : i \in DOMAIN s}
<1>1. DOMAIN s = 1..Len(s) /\ Len(s) \in Nat
  BY DEF IsSeq
<1>2. f \in [1..Len(s) -> {f[i] : i \in 1..Len(s)}]
  BY <1>1
<1>3. f \in Seq({f[i] : i \in 1..Len(s)})
  BY <1>1, <1>2
<1>4. ToSet(f) = {f[i] : i \in DOMAIN s}
  BY DEF ToSet
<1>5. QED BY <1>3, <1>4 DEF IsSeq

(* The empty sequence and those of one element.                            *)
LEMMA ShortSequences ==
  /\ IsSeq(<<>>) /\ ToSet(<<>>) = {}
  /\ \A e : IsSeq(<<e>>) /\ ToSet(<<e>>) = {e}
<1>1. <<>> \in Seq({}) /\ DOMAIN <<>> = {}
  <2>1. <<>> \in Seq({}) /\ DOMAIN <<>> = 1..0
    OBVIOUS
  <2>2. QED BY <2>1
<1>2. ASSUME NEW e
      PROVE  <<e>> \in Seq({e}) /\ DOMAIN <<e>> = {1} /\ <<e>>[1] = e
  <2>1. <<e>> \in Seq({e}) /\ DOMAIN <<e>> = 1..1 /\ <<e>>[1] = e
    OBVIOUS
  <2>2. 1..1 = {1}
    OBVIOUS
  <2>3. QED BY <2>1, <2>2
<1>3. QED BY <1>1, <1>2 DEF IsSeq, ToSet

-----------------------------------------------------------------------------
(* The sources.                                                            *)

(* A path is not None.                                                     *)
LEMMA Paths ==
  /\ \A d, f : <<d, f>> # NoPath
  /\ \A p \in Path : p # NoPath
<1>1. \A d, f : <<d, f>> # NoPath
  BY DEF NoPath
<1>2. \A p \in Path : p # NoPath
  BY DEF Path, NoPath
<1>3. QED BY <1>1, <1>2

(* The best loader of a vendor directory is a file of it.                  *)
LEMMA BestLoaderIsFile ==
  ASSUME NEW d, NEW dir \in VendorDirs(d)
  PROVE  BestLoader(d, dir) \in d.files
<1> DEFINE T == VendorLoaders(d, dir)
<1>1. T # {}
  BY DEF VendorDirs
<1>2. T \subseteq Nat
  BY DEF VendorLoaders, Loaders
<1>3. PICK i \in T : \A j \in T : ~(j < i)
  BY <1>1, <1>2, FirstPosition
<1>4. \A j \in T : i <= j
  BY <1>2, <1>3
<1>5. Min(T) \in T
  BY <1>3, <1>4 DEF Min
<1>6. QED BY <1>5 DEF BestLoader, VendorLoaders

(* The loaders of a disk are files of it, and the kernels that it          *)
(* describes are paths.                                                    *)
LEMMA TargetsAreThere ==
  ASSUME NEW d \in Disk
  PROVE  /\ LoadersOf(d) \subseteq d.files
         /\ NoPath \notin LoadersOf(d)
         /\ NoPath \notin Kernels(d)
<1>1. LoadersOf(d) \subseteq d.files
  BY BestLoaderIsFile DEF LoadersOf
<1>2. d.files \subseteq Path
  BY DEF Disk
<1>3. \A t \in BootTarget : t.kernel \in Path
  BY DEF BootTarget
<1>4. d.bls \in Seq(BootTarget) /\ d.bootspecs \in Seq(BootTarget)
  BY DEF Disk
<1>5. /\ \A i \in DOMAIN d.bls : d.bls[i].kernel \in Path
      /\ \A i \in DOMAIN d.bootspecs : d.bootspecs[i].kernel \in Path
  BY <1>3, <1>4
<1>6. QED BY <1>1, <1>2, <1>5, Paths DEF Kernels

(* An entry has what its source put into it, and no volume yet.            *)
LEMMA RawEntryFields ==
  ASSUME NEW kind, NEW role, NEW method, NEW loader, NEW kernel, NEW initrd
  PROVE  LET e == RawEntry(kind, role, method, loader, kernel, initrd)
         IN /\ IsEntry(e)
            /\ e.method = method /\ e.loader = loader /\ e.kernel = kernel
            /\ e.volume = "none"
  BY DEF RawEntry, IsEntry

(* Firmware options have no kernel.                                        *)
LEMMA VariablesReport ==
  ASSUME NEW opts \in Seq(Kinds)
  PROVE  /\ IsSeq(VariableEntries(opts))
         /\ \A e \in ToSet(VariableEntries(opts)) : FromFirmware(e)
<1>1. IsSeq(opts)
  BY DEF IsSeq
<1>2. /\ IsSeq(VariableEntries(opts))
      /\ ToSet(VariableEntries(opts)) = {VariableEntries(opts)[i] : i \in DOMAIN opts}
  <2>1. VariableEntries(opts) = [i \in DOMAIN opts |-> VariableEntries(opts)[i]]
    BY DEF VariableEntries
  <2>2. QED BY <1>1, <2>1, Listing
<1>3. \A k : FromFirmware(RawEntry(k, "Default", "EfiChainload", NoPath, NoPath, NoPath))
  BY RawEntryFields DEF FromFirmware, Chainloads
<1>4. FromFirmware(RawEntry("Windows", "Default", "WindowsBootManager", WindowsLoader, NoPath, NoPath))
  BY RawEntryFields DEF FromFirmware, Chainloads
<1>5. \A i \in DOMAIN opts : FromFirmware(VariableEntries(opts)[i])
  BY <1>3, <1>4 DEF VariableEntries
<1>6. QED BY <1>2, <1>5

(* The two well-known loaders: an entry for each that is there.            *)
LEMMA EspReports ==
  ASSUME NEW d
  PROVE  /\ IsSeq(EspEntries(d))
         /\ \A e \in ToSet(EspEntries(d)) : FoundOn(e, d)
         /\ \A path \in {WindowsLoader, FallbackLoader} \cap d.files :
              \E e \in ToSet(EspEntries(d)) : e.loader = path
<1> DEFINE w == RawEntry("Windows", "Default", "WindowsBootManager",
                         WindowsLoader, NoPath, NoPath)
           f == RawEntry("GenericEfi", "Fallback", "EfiChainload",
                         FallbackLoader, NoPath, NoPath)
           found(e) == IF e.loader \in d.files THEN <<e>> ELSE <<>>
<1>1. /\ IsEntry(w) /\ w.loader = WindowsLoader /\ w.kernel = NoPath
      /\ w.method \in Chainloads
      /\ IsEntry(f) /\ f.loader = FallbackLoader /\ f.kernel = NoPath
      /\ f.method \in Chainloads
  BY RawEntryFields DEF Chainloads
<1> HIDE DEF w, f
<1>2. EspEntries(d) = found(w) \o found(f)
  BY DEF EspEntries, w, f, found
<1>3. \A e : IsSeq(found(e)) /\ ToSet(found(e)) = IF e.loader \in d.files THEN {e} ELSE {}
  BY ShortSequences
<1> HIDE DEF found
<1>4. /\ IsSeq(EspEntries(d))
      /\ ToSet(EspEntries(d)) = ToSet(found(w)) \cup ToSet(found(f))
  BY <1>2, <1>3, Concatenation
<1>5. \A e \in {w, f} : e.loader \in d.files => FoundOn(e, d)
  BY <1>1 DEF FoundOn, LoadersOf
<1>6. QED BY <1>1, <1>3, <1>4, <1>5

(* The vendor directories: an entry for the best loader of each.           *)
LEMMA DistrosReport ==
  ASSUME NEW d, IsFiniteSet(d.files)
  PROVE  /\ IsSeq(DistroEntries(d))
         /\ \A e \in ToSet(DistroEntries(d)) : FoundOn(e, d)
         /\ \A dir \in VendorDirs(d) :
              \E e \in ToSet(DistroEntries(d)) : e.loader = BestLoader(d, dir)
<1> DEFINE dirs == SetToSeq(VendorDirs(d))
<1>1. IsFiniteSet({p[1] : p \in d.files})
  <2>1. [p \in d.files |-> p[1]] \in Surjection(d.files, {p[1] : p \in d.files})
    BY DEF Surjection
  <2>2. QED BY <2>1, FS_Surjection
<1>2. VendorDirs(d) \subseteq {p[1] : p \in d.files}
  BY DEF VendorDirs
<1>3. IsFiniteSet(VendorDirs(d))
  BY <1>1, <1>2, FS_Subset
<1>4. IsSeq(dirs) /\ ToSet(dirs) = VendorDirs(d)
  BY <1>3, ListedSetIsSequence DEF IsSeq
<1>5. /\ DistroEntries(d) = [i \in DOMAIN dirs |-> DistroEntries(d)[i]]
      /\ \A i \in DOMAIN dirs :
           DistroEntries(d)[i] =
             RawEntry("Linux", "Default", "EfiChainload",
                      BestLoader(d, dirs[i]), NoPath, NoPath)
  BY DEF DistroEntries
<1> HIDE DEF dirs
<1>6. /\ IsSeq(DistroEntries(d))
      /\ ToSet(DistroEntries(d)) = {DistroEntries(d)[i] : i \in DOMAIN dirs}
  BY <1>4, <1>5, Listing
<1>7. \A i \in DOMAIN dirs : /\ DistroEntries(d)[i].loader = BestLoader(d, dirs[i])
                             /\ FoundOn(DistroEntries(d)[i], d)
  <2> SUFFICES ASSUME NEW i \in DOMAIN dirs
               PROVE  /\ DistroEntries(d)[i].loader = BestLoader(d, dirs[i])
                      /\ FoundOn(DistroEntries(d)[i], d)
    OBVIOUS
  <2>1. dirs[i] \in VendorDirs(d)
    BY <1>4 DEF ToSet
  <2>2. BestLoader(d, dirs[i]) \in LoadersOf(d)
    BY <2>1 DEF LoadersOf
  <2>3. QED BY <1>5, <2>2, RawEntryFields DEF FoundOn, Chainloads
<1>8. \A dir \in VendorDirs(d) : \E i \in DOMAIN dirs : dirs[i] = dir
  BY <1>4 DEF ToSet
<1>9. QED BY <1>6, <1>7, <1>8

(* BLS files and bootspecs: an entry for each kernel.                      *)
LEMMA DescribedReport ==
  ASSUME NEW d, NEW targets, IsSeq(targets), NEW m, m \notin Chainloads,
         \A i \in DOMAIN targets : targets[i].kernel \in Kernels(d)
  PROVE  /\ IsSeq(Described(targets, m))
         /\ \A e \in ToSet(Described(targets, m)) : FoundOn(e, d)
<1>1. /\ Described(targets, m) = [i \in DOMAIN targets |-> Described(targets, m)[i]]
      /\ \A i \in DOMAIN targets :
           Described(targets, m)[i] =
             RawEntry(targets[i].kind, targets[i].role, m, NoPath,
                      targets[i].kernel, targets[i].initrd)
  BY DEF Described
<1>2. \A i \in DOMAIN targets : FoundOn(Described(targets, m)[i], d)
  BY <1>1, RawEntryFields DEF FoundOn
<1>3. QED BY <1>1, <1>2, Listing

(* A scan misses no loader of its disk, tags what it found with the        *)
(* volume, and keeps what refine_methods() leaves alone.                   *)
LEMMA ScanReports ==
  ASSUME NEW d \in Disk, IsFiniteSet(d.files), NEW v
  PROVE  /\ IsSeq(ScanVolume(d, v))
         /\ \A e \in ToSet(ScanVolume(d, v)) : FoundOn(e, d) /\ e.volume = v
         /\ \A path \in LoadersOf(d) : \E e \in ToSet(ScanVolume(d, v)) : e.loader = path
<1> DEFINE esp == EspEntries(d)
           distros == DistroEntries(d)
           bls == Described(d.bls, "LinuxEfiStub")
           specs == Described(d.bootspecs, "NixGeneration")
           all == esp \o distros \o bls \o specs
           scan == ScanVolume(d, v)
<1>1. IsSeq(bls) /\ IsSeq(specs) /\ \A e \in ToSet(bls) \cup ToSet(specs) : FoundOn(e, d)
  <2>1. d.bls \in Seq(BootTarget) /\ d.bootspecs \in Seq(BootTarget)
    BY DEF Disk
  <2>2. IsSeq(d.bls) /\ IsSeq(d.bootspecs)
    BY <2>1 DEF IsSeq
  <2>3. /\ \A i \in DOMAIN d.bls : d.bls[i].kernel \in Kernels(d)
        /\ \A i \in DOMAIN d.bootspecs : d.bootspecs[i].kernel \in Kernels(d)
    BY DEF Kernels
  <2>4. "LinuxEfiStub" \notin Chainloads /\ "NixGeneration" \notin Chainloads
    BY DEF Chainloads
  <2>5. QED BY <2>2, <2>3, <2>4, DescribedReport
<1>2. /\ IsSeq(esp) /\ IsSeq(distros)
      /\ \A e \in ToSet(esp) \cup ToSet(distros) : FoundOn(e, d)
      /\ \A path \in LoadersOf(d) : \E e \in ToSet(esp) \cup ToSet(distros) : e.loader = path
  BY EspReports, DistrosReport DEF LoadersOf
<1>3. scan = [i \in DOMAIN all |-> [Refine(d, all[i]) EXCEPT !.volume = v]]
  BY DEF ScanVolume
<1> HIDE DEF esp, distros, bls, specs, scan
<1>4. IsSeq(all) /\ ToSet(all) = ToSet(esp) \cup ToSet(distros) \cup ToSet(bls) \cup ToSet(specs)
  <2>1. IsSeq(esp \o distros) /\ ToSet(esp \o distros) = ToSet(esp) \cup ToSet(distros)
    BY <1>2, Concatenation
  <2>2. /\ IsSeq(esp \o distros \o bls)
        /\ ToSet(esp \o distros \o bls) = ToSet(esp \o distros) \cup ToSet(bls)
    BY <1>1, <2>1, Concatenation
  <2>3. IsSeq(all) /\ ToSet(all) = ToSet(esp \o distros \o bls) \cup ToSet(specs)
    BY <1>1, <2>2, Concatenation
  <2>4. QED BY <2>1, <2>2, <2>3
<1>5. /\ \A e \in ToSet(all) : FoundOn(e, d)
      /\ \A path \in LoadersOf(d) : \E e \in ToSet(all) : e.loader = path
  BY <1>1, <1>2, <1>4
<1> HIDE DEF all
<1>6. ASSUME NEW e, FoundOn(e, d)
      PROVE  LET r == [Refine(d, e) EXCEPT !.volume = v]
             IN FoundOn(r, d) /\ r.volume = v /\ r.loader = e.loader
  <2> DEFINE x == Refine(d, e)
  <2>1. FoundOn(x, d) /\ x.loader = e.loader
    <3>1. CASE x = e
      BY <3>1, <1>6
    <3>2. CASE e.method = "LinuxEfiStub" /\ x = [e EXCEPT !.method = "LinuxDirect"]
      BY <3>2, <1>6 DEF FoundOn, IsEntry, Chainloads
    <3>3. QED BY <3>1, <3>2 DEF Refine
  <2> HIDE DEF x
  <2>2. IsEntry(x)
    BY <2>1 DEF FoundOn
  <2>3. /\ IsEntry([x EXCEPT !.volume = v])
        /\ [x EXCEPT !.volume = v].volume = v
        /\ [x EXCEPT !.volume = v].method = x.method
        /\ [x EXCEPT !.volume = v].loader = x.loader
        /\ [x EXCEPT !.volume = v].kernel = x.kernel
    BY <2>2 DEF IsEntry
  <2>4. QED BY <2>1, <2>3 DEF FoundOn, x
<1>7. IsSeq(scan) /\ ToSet(scan) = {scan[i] : i \in DOMAIN all}
  <2>1. scan = [i \in DOMAIN all |-> scan[i]]
    BY <1>3
  <2>2. QED BY <1>4, <2>1, Listing
<1>8. \A i \in DOMAIN all : /\ FoundOn(scan[i], d) /\ scan[i].volume = v
                            /\ scan[i].loader = all[i].loader
  <2>1. \A i \in DOMAIN all : FoundOn(all[i], d)
    BY <1>5 DEF ToSet
  <2>2. QED BY <1>3, <1>6, <2>1
<1>9. \A path \in LoadersOf(d) : \E i \in DOMAIN all : all[i].loader = path
  BY <1>5 DEF ToSet
<1>10. QED BY <1>7, <1>8, <1>9 DEF scan

-----------------------------------------------------------------------------
(* The merge.                                                              *)

(* A raw entry comes from the firmware's options or from a volume.         *)
IsFound(e) == FromFirmware(e) \/ FromVolume(e)

(* The disks, and the volumes they are in, are what the scan may meet.     *)
MachineInv ==
  /\ disk \in [Volume -> Contents]
  /\ id \in [Volume -> VolumeIds]
  /\ options \in Options
  /\ own \in Volume
  /\ copies \in Installations

(* A volume's entry is tagged with it, and has a target; if it names a     *)
(* loader, that is on the volume and is what will be started.              *)
LEMMA VolumeEntryFields ==
  ASSUME MachineInv, NEW e, FromVolume(e)
  PROVE  /\ IsEntry(e)
         /\ e.volume # "none"
         /\ PlanTarget(e) # NoPath
         /\ e.loader # NoPath =>
              /\ e.method \in Chainloads
              /\ e.kernel = NoPath
              /\ \E v \in Volume : e.loader \in disk[v].files /\ e.volume = id[v]
<1>1. PICK v \in Volume : FoundOn(e, disk[v]) /\ e.volume = id[v]
  BY DEF FromVolume
<1>2. disk[v] \in Disk /\ id[v] # "none"
  BY ContentsAssumption, IdsAssumption DEF MachineInv
<1>3. CASE /\ e.method \in Chainloads
           /\ e.loader \in LoadersOf(disk[v])
           /\ e.kernel = NoPath
  BY <1>1, <1>2, <1>3, TargetsAreThere DEF FoundOn, PlanTarget
<1>4. CASE /\ e.method \notin Chainloads
           /\ e.loader = NoPath
           /\ e.kernel \in Kernels(disk[v])
  BY <1>1, <1>2, <1>4, TargetsAreThere DEF FoundOn, PlanTarget
<1>5. QED BY <1>1, <1>3, <1>4 DEF FoundOn

(* Merging gives an entry nothing it was not found with, and what is left  *)
(* in the graph has a target.                                              *)
LEMMA GraphIsFound ==
  ASSUME MachineInv, NEW s, \A r \in ToSet(s) : IsFound(r),
         NEW e \in BuildGraph(s)
  PROVE  IsFound(e) /\ PlanTarget(e) # NoPath
<1>1. HasTarget(e) /\ e \in Merged(s)
  BY DEF BuildGraph
<1>2. PICK i \in DOMAIN s : e = MergeInto(s, s[i])
  BY <1>1 DEF Merged
<1> DEFINE r == s[i]
<1>3. \A j \in DOMAIN s : IsFound(s[j])
  BY DEF ToSet
<1>4. IsEntry(r)
  BY <1>3, VolumeEntryFields DEF IsFound, FromFirmware
<1>5. /\ IsEntry(e)
      /\ e.method = r.method /\ e.loader = r.loader /\ e.volume = r.volume
      /\ e.kernel = IF r.kernel = NoPath THEN FirstKnown(s, Id(r), "kernel") ELSE r.kernel
  BY <1>2, <1>4 DEF MergeInto, IsEntry
<1>6. ASSUME \A j \in DOMAIN s : Id(s[j]) = Id(r) => s[j].kernel = NoPath
      PROVE  FirstKnown(s, Id(r), "kernel") = NoPath
  BY <1>6 DEF FirstKnown
<1>7. \A j \in DOMAIN s : Id(s[j]) = Id(r) => s[j].loader = r.loader /\ s[j].volume = r.volume
  BY DEF Id, BaseId
<1> HIDE DEF r
<1>8. CASE FromFirmware(r)
  <2>1. \A j \in DOMAIN s : Id(s[j]) = Id(r) => s[j].kernel = NoPath
    BY <1>3, <1>7, <1>8, VolumeEntryFields DEF IsFound, FromFirmware
  <2>2. e.kernel = NoPath
    BY <1>5, <1>6, <2>1, <1>8 DEF FromFirmware
  <2>3. FromFirmware(e)
    BY <1>5, <2>2, <1>8 DEF FromFirmware
  <2>4. QED BY <1>1, <2>3 DEF IsFound, FromFirmware, HasTarget, PlanTarget
<1>9. CASE FromVolume(r)
  <2>1. PICK v \in Volume : FoundOn(r, disk[v]) /\ r.volume = id[v]
    BY <1>9 DEF FromVolume
  <2>2. disk[v] \in Disk
    BY ContentsAssumption DEF MachineInv
  <2>3. e.kernel = r.kernel
    <3>1. CASE r.loader = NoPath
      <4>1. r.kernel # NoPath
        BY <2>1, <2>2, <3>1, TargetsAreThere DEF FoundOn
      <4>2. QED BY <4>1, <1>5
    <3>2. CASE r.loader # NoPath
      <4>1. r.kernel = NoPath /\ r.volume # "none"
        BY <1>9, <3>2, VolumeEntryFields
      <4>2. \A j \in DOMAIN s : Id(s[j]) = Id(r) => s[j].kernel = NoPath
        BY <1>3, <1>7, <4>1, <3>2, VolumeEntryFields DEF IsFound, FromFirmware
      <4>3. QED BY <1>5, <1>6, <4>1, <4>2
    <3>3. QED BY <3>1, <3>2
  <2>4. FoundOn(e, disk[v])
    BY <1>5, <2>1, <2>3 DEF FoundOn
  <2>5. FromVolume(e)
    BY <1>5, <2>1, <2>4 DEF FromVolume
  <2>6. QED BY <2>5, VolumeEntryFields DEF IsFound
<1>10. QED BY <1>3, <1>8, <1>9 DEF IsFound, r

(* Of a volume's loader that was found, an entry stays: the first of its   *)
(* id, which no firmware option and no lack of a target drops.             *)
LEMMA GraphIsComplete ==
  ASSUME MachineInv, NEW s, IsSeq(s), \A r \in ToSet(s) : IsFound(r),
         NEW r \in ToSet(s), r.loader # NoPath, r.volume # "none"
  PROVE  \E e \in BuildGraph(s) : e.loader = r.loader /\ e.volume = r.volume
<1> DEFINE T == {j \in DOMAIN s : Id(s[j]) = Id(r)}
<1>1. DOMAIN s = 1..Len(s) /\ Len(s) \in Nat
  BY DEF IsSeq
<1>2. T # {} /\ T \subseteq Nat
  BY <1>1 DEF ToSet
<1>3. PICK i \in T : \A j \in T : ~(j < i)
  BY <1>2, FirstPosition
<1>4. i \in DOMAIN s /\ Id(s[i]) = Id(r)
  OBVIOUS
<1>5. \A k \in 1..(i - 1) : Id(s[k]) # Id(s[i])
  <2> SUFFICES ASSUME NEW k \in 1..(i - 1), k \in T PROVE FALSE
    BY <1>1, <1>4
  <2>1. k < i
    BY <1>1, <1>4
  <2>2. QED BY <2>1, <1>3
<1> DEFINE e == MergeInto(s, s[i])
<1>6. e \in Merged(s)
  BY <1>4, <1>5 DEF Merged
<1>7. IsEntry(s[i])
  BY <1>4, VolumeEntryFields DEF ToSet, IsFound, FromFirmware
<1>8. e.loader = s[i].loader /\ e.volume = s[i].volume
  BY <1>7 DEF MergeInto, IsEntry
<1>9. s[i].loader = r.loader /\ s[i].volume = r.volume
  BY <1>4 DEF Id, BaseId
<1> HIDE DEF e
<1>10. e \in BuildGraph(s)
  BY <1>6, <1>8, <1>9 DEF BuildGraph, HasTarget, HasTwin
<1>11. QED BY <1>8, <1>9, <1>10

-----------------------------------------------------------------------------
(* The inductive invariant, part by part.                                  *)

(* The machine stays what it is, disks are only pulled, and the scan       *)
(* starts at the first volume.                                             *)
TypeInv ==
  /\ MachineInv
  /\ plugged \subseteq Volume
  /\ next \in Nat \ {0}
  /\ step = "variables" => next = 1

(* Every entry comes from the firmware's options or from a volume, and     *)
(* still says what it was found with; what is in the graph has a target.   *)
OriginInv ==
  /\ IsSeq(raw)
  /\ \A e \in ToSet(raw) : IsFound(e)
  /\ \A e \in graph : IsFound(e) /\ PlanTarget(e) # NoPath

(* With all disks in place, every loader of a volume that was scanned has  *)
(* an entry, up to the exclusion of what is taken for MyBoot.              *)
Known(es, volume, path) == \E e \in es : e.loader = path /\ e.volume = volume

CompleteInv ==
  plugged = Volume =>
    \A v \in Volume : \A path \in LoadersOf(disk[v]) :
      /\ step = "volumes" /\ v < next => Known(ToSet(raw), id[v], path)
      /\ step \in {"assess", "exclude"} => Known(graph, id[v], path)
      /\ step = "menu" =>
           \/ path = FallbackLoader /\ id[v] = id[own]
           \/ Known(graph, id[v], path)

(* With all disks in place, what was found healthy is still there.         *)
HealthInv ==
  step \in {"exclude", "menu", "os"} /\ plugged = Volume =>
    \A e \in graph :
      Bootable(e) <=> {e.loader, e.kernel} \subseteq Files \cup {NoPath}

(* What is taken for MyBoot is gone from the menu on.                      *)
SelfInv == step \in {"menu", "os"} => \A e \in graph : ~IsSelf(e)

(* What was started is what an entry that could be launched names.         *)
StartedInv ==
  step = "os" =>
    \E e \in Launchable :
      /\ LaunchVolume(e) # 0
      /\ started = [entry |-> Id(e), method |-> e.method,
                    volume |-> LaunchVolume(e), path |-> PlanTarget(e)]

DisksInv ==
  TypeInv /\ OriginInv /\ CompleteInv /\ HealthInv /\ SelfInv /\ StartedInv

(* Before the scan there is no entry.                                      *)
LEMMA DisksInvInit == Init => DisksInv
<1> SUFFICES ASSUME Init PROVE DisksInv
  OBVIOUS
<1>1. TypeInv
  BY DEF Init, TypeInv, MachineInv
<1>2. OriginInv
  BY ShortSequences DEF Init, OriginInv
<1>3. QED
  BY <1>1, <1>2 DEF Init, DisksInv, CompleteInv, HealthInv, SelfInv, StartedInv

(* No step writes to the machine.                                          *)
LEMMA TypeInvStep == TypeInv /\ [Next]_vars => TypeInv'
<1> SUFFICES ASSUME TypeInv, [Next]_vars PROVE TypeInv'
  OBVIOUS
<1> USE DEF TypeInv
<1>1. UNCHANGED machine
  BY DEF Next, ReadVariables, ScanNext, Build, Assess, ExcludeSelf, HandoffSucceeds,
         HandoffFails, GiveUp, Unplug, vars, machine
<1>2. MachineInv'
  BY <1>1 DEF MachineInv, machine
<1>3. CASE ReadVariables \/ Build \/ Assess \/ ExcludeSelf \/ HandoffSucceeds
           \/ HandoffFails \/ GiveUp \/ UNCHANGED vars
  BY <1>2, <1>3 DEF ReadVariables, Build, Assess, ExcludeSelf, HandoffSucceeds,
                    HandoffFails, GiveUp, vars
<1>4. CASE ScanNext
  BY <1>2, <1>4 DEF ScanNext
<1>5. CASE Unplug
  BY <1>2, <1>5 DEF Unplug
<1>6. QED BY <1>3, <1>4, <1>5 DEF Next

(* What an entry was found with does not depend on what the steps change.  *)
LEMMA FoundStaysFound ==
  ASSUME UNCHANGED machine, NEW e
  PROVE  IsFound(e) <=> IsFound(e)'
  BY DEF machine, IsFound, FromVolume

(* Health is not what an entry is found with.                              *)
LEMMA AssessedIsFound ==
  ASSUME NEW e, IsFound(e), NEW h
  PROVE  LET a == [e EXCEPT !.health = h]
         IN /\ IsFound(a)
            /\ a.loader = e.loader /\ a.kernel = e.kernel /\ a.volume = e.volume
            /\ a.health = h /\ PlanTarget(a) = PlanTarget(e)
<1> DEFINE a == [e EXCEPT !.health = h]
<1>1. IsEntry(e)
  BY DEF IsFound, FromFirmware, FromVolume, FoundOn
<1>2. /\ IsEntry(a) /\ a.method = e.method /\ a.loader = e.loader
      /\ a.kernel = e.kernel /\ a.volume = e.volume /\ a.health = h
  BY <1>1 DEF IsEntry
<1> HIDE DEF a
<1>3. FromFirmware(e) => FromFirmware(a)
  BY <1>2 DEF FromFirmware
<1>4. FromVolume(e) => FromVolume(a)
  BY <1>2 DEF FromVolume, FoundOn
<1>5. QED BY <1>2, <1>3, <1>4 DEF IsFound, PlanTarget, a

(* Each source, the merge, the assessment and the self-exclusion keep the  *)
(* origin of the entries.                                                  *)
LEMMA OriginInvStep == TypeInv /\ OriginInv /\ [Next]_vars => OriginInv'
<1> SUFFICES ASSUME TypeInv, OriginInv, [Next]_vars PROVE OriginInv'
  OBVIOUS
<1> USE DEF OriginInv
<1>1. CASE ReadVariables
  <2>1. options \in Seq(Kinds)
    BY OptionsAssumption DEF TypeInv, MachineInv
  <2>2. IsSeq(raw') /\ \A e \in ToSet(raw') : IsFound(e)
    BY <1>1, <2>1, VariablesReport DEF ReadVariables, IsFound
  <2>3. QED BY <1>1, <2>2, FoundStaysFound DEF ReadVariables
<1>2. CASE ScanNext
  <2>1. CASE next \in plugged
    <3> DEFINE scan == ScanVolume(disk[next], id[next])
    <3>1. next \in Volume /\ disk[next] \in Disk /\ IsFiniteSet(disk[next].files)
      BY <1>2, ContentsAssumption DEF ScanNext, TypeInv, MachineInv
    <3>2. /\ IsSeq(scan)
          /\ \A e \in ToSet(scan) : FoundOn(e, disk[next]) /\ e.volume = id[next]
      BY <3>1, ScanReports
    <3>3. raw' = raw \o scan
      BY <1>2, <2>1 DEF ScanNext
    <3>4. \A e \in ToSet(scan) : IsFound(e)
      BY <3>1, <3>2 DEF IsFound, FromVolume
    <3> HIDE DEF scan
    <3>5. IsSeq(raw') /\ \A e \in ToSet(raw') : IsFound(e)
      BY <3>2, <3>3, <3>4, Concatenation
    <3>6. QED BY <1>2, <3>5, FoundStaysFound DEF ScanNext
  <2>2. CASE next \notin plugged
    BY <1>2, <2>2, FoundStaysFound DEF ScanNext
  <2>3. QED BY <2>1, <2>2
<1>3. CASE Build
  <2>1. raw' = <<>> /\ graph' = BuildGraph(raw)
    BY <1>3 DEF Build
  <2>2. \A e \in graph' : IsFound(e) /\ PlanTarget(e) # NoPath
    BY <2>1, GraphIsFound DEF TypeInv
  <2>3. QED BY <1>3, <2>1, <2>2, ShortSequences, FoundStaysFound DEF Build
<1>4. CASE Assess
  <2>1. graph' = {[e EXCEPT !.health = AssessEntry(e, Files)] : e \in graph}
    BY <1>4 DEF Assess
  <2>2. \A e \in graph' : IsFound(e) /\ PlanTarget(e) # NoPath
    BY <2>1, AssessedIsFound
  <2>3. QED BY <1>4, <2>2, FoundStaysFound DEF Assess
<1>5. CASE ExcludeSelf
  BY <1>5, FoundStaysFound DEF ExcludeSelf
<1>6. CASE HandoffSucceeds
  BY <1>6, FoundStaysFound DEF HandoffSucceeds
<1>7. CASE HandoffFails
  BY <1>7, FoundStaysFound DEF HandoffFails
<1>8. CASE GiveUp
  BY <1>8, FoundStaysFound DEF GiveUp
<1>9. CASE Unplug
  BY <1>9, FoundStaysFound DEF Unplug
<1>10. CASE UNCHANGED vars
  BY <1>10, FoundStaysFound DEF vars, machine
<1>11. QED
  BY <1>1, <1>2, <1>3, <1>4, <1>5, <1>6, <1>7, <1>8, <1>9, <1>10 DEF Next

(* A disk that was pulled stays out.                                       *)
LEMMA PulledStaysOut ==
  ASSUME TypeInv, [Next]_vars, plugged' = Volume
  PROVE  plugged = Volume /\ ~Unplug
<1>1. CASE Unplug
  BY <1>1 DEF Unplug, TypeInv
<1>2. CASE ~Unplug
  BY <1>2 DEF Next, ReadVariables, ScanNext, Build, Assess, ExcludeSelf,
              HandoffSucceeds, HandoffFails, GiveUp, vars
<1>3. QED BY <1>1, <1>2

(* Each volume's scan finds its loaders, and none is lost on the way to    *)
(* the menu.                                                               *)
LEMMA CompleteInvStep ==
  TypeInv /\ OriginInv /\ CompleteInv /\ [Next]_vars => CompleteInv'
<1> SUFFICES ASSUME TypeInv, OriginInv, CompleteInv, [Next]_vars, plugged' = Volume
             PROVE  CompleteInv'
  BY DEF CompleteInv
<1>1. plugged = Volume /\ ~Unplug
  BY PulledStaysOut
<1>2. disk' = disk /\ id' = id /\ own' = own
  BY DEF Next, ReadVariables, ScanNext, Build, Assess, ExcludeSelf, HandoffSucceeds,
         HandoffFails, GiveUp, Unplug, vars, machine
<1>3. SUFFICES ASSUME NEW v \in Volume, NEW path \in LoadersOf(disk[v])
               PROVE  /\ step' = "volumes" /\ v < next' => Known(ToSet(raw'), id[v], path)
                      /\ step' \in {"assess", "exclude"} => Known(graph', id[v], path)
                      /\ step' = "menu" =>
                           \/ path = FallbackLoader /\ id[v] = id[own]
                           \/ Known(graph', id[v], path)
  BY <1>2 DEF CompleteInv
<1>4. /\ step = "volumes" /\ v < next => Known(ToSet(raw), id[v], path)
      /\ step \in {"assess", "exclude"} => Known(graph, id[v], path)
      /\ step = "menu" =>
           \/ path = FallbackLoader /\ id[v] = id[own]
           \/ Known(graph, id[v], path)
  BY <1>1 DEF CompleteInv
<1>5. Volume = 1..Cardinality(Volume) /\ Cardinality(Volume) \in Nat
  BY VolumeAssumption, FS_CardinalityType
<1>6. /\ next \in Nat \ {0}
      /\ disk[v] \in Disk /\ IsFiniteSet(disk[v].files)
      /\ id[v] # "none"
  BY ContentsAssumption, IdsAssumption DEF TypeInv, MachineInv
<1>7. path # NoPath
  BY <1>6, TargetsAreThere
<1>8. CASE ReadVariables
  BY <1>8, <1>5 DEF ReadVariables, TypeInv
<1>9. CASE ScanNext
  <2> DEFINE scan == ScanVolume(disk[next], id[next])
  <2>1. raw' = raw \o scan /\ next' = next + 1 /\ step' = step /\ step = "volumes"
    BY <1>9, <1>1 DEF ScanNext
  <2>2. next \in Volume /\ disk[next] \in Disk /\ IsFiniteSet(disk[next].files)
    BY <1>9, ContentsAssumption DEF ScanNext, TypeInv, MachineInv
  <2>3. /\ IsSeq(scan)
        /\ \A e \in ToSet(scan) : e.volume = id[next]
        /\ \A p \in LoadersOf(disk[next]) : \E e \in ToSet(scan) : e.loader = p
    BY <2>2, ScanReports
  <2> HIDE DEF scan
  <2>4. ToSet(raw') = ToSet(raw) \cup ToSet(scan)
    BY <2>1, <2>3, Concatenation DEF OriginInv
  <2>5. CASE v < next
    BY <2>1, <2>4, <2>5, <1>4 DEF Known
  <2>6. CASE v = next
    BY <2>1, <2>3, <2>4, <2>6 DEF Known
  <2>7. CASE ~(v < next \/ v = next)
    BY <2>1, <2>7, <1>5, <1>6
  <2>8. QED BY <2>5, <2>6, <2>7
<1>10. CASE Build
  <2>1. graph' = BuildGraph(raw) /\ step = "volumes" /\ next \notin Volume /\ step' = "assess"
    BY <1>10 DEF Build
  <2>2. v < next
    BY <2>1, <1>5, <1>6
  <2>3. PICK e \in ToSet(raw) : e.loader = path /\ e.volume = id[v]
    BY <2>1, <2>2, <1>4 DEF Known
  <2>4. \E f \in BuildGraph(raw) : f.loader = e.loader /\ f.volume = e.volume
    BY <2>3, <1>6, <1>7, GraphIsComplete DEF OriginInv, TypeInv
  <2>5. QED BY <2>1, <2>3, <2>4 DEF Known
<1>11. CASE Assess
  <2>1. /\ graph' = {[e EXCEPT !.health = AssessEntry(e, Files)] : e \in graph}
        /\ step = "assess" /\ step' = "exclude"
    BY <1>11 DEF Assess
  <2>2. PICK e \in graph : e.loader = path /\ e.volume = id[v]
    BY <2>1, <1>4 DEF Known
  <2> DEFINE a == [e EXCEPT !.health = AssessEntry(e, Files)]
  <2>3. a.loader = path /\ a.volume = id[v]
    BY <2>2, AssessedIsFound DEF OriginInv
  <2>4. a \in graph'
    BY <2>1
  <2> HIDE DEF a
  <2>5. QED BY <2>1, <2>3, <2>4 DEF Known
<1>12. CASE ExcludeSelf
  <2>1. /\ graph' = {e \in graph : ~IsSelf(e)}
        /\ step = "exclude" /\ step' = "menu"
    BY <1>12 DEF ExcludeSelf
  <2>2. PICK e \in graph : e.loader = path /\ e.volume = id[v]
    BY <2>1, <1>4 DEF Known
  <2>3. CASE IsSelf(e)
    BY <2>1, <2>2, <2>3 DEF IsSelf
  <2>4. CASE ~IsSelf(e)
    BY <2>1, <2>2, <2>4 DEF Known
  <2>5. QED BY <2>3, <2>4
<1>13. CASE HandoffSucceeds \/ GiveUp
  BY <1>13 DEF HandoffSucceeds, GiveUp
<1>14. CASE HandoffFails
  BY <1>14, <1>4 DEF HandoffFails
<1>15. CASE UNCHANGED vars
  BY <1>15, <1>4 DEF vars
<1>16. QED
  BY <1>1, <1>8, <1>9, <1>10, <1>11, <1>12, <1>13, <1>14, <1>15 DEF Next

(* With all disks in place the assessment tells the truth, and goes on     *)
(* telling it.                                                             *)
LEMMA HealthInvStep ==
  TypeInv /\ OriginInv /\ HealthInv /\ [Next]_vars => HealthInv'
<1> SUFFICES ASSUME TypeInv, OriginInv, HealthInv, [Next]_vars, plugged' = Volume
             PROVE  HealthInv'
  BY DEF HealthInv
<1>1. plugged' = plugged /\ disk' = disk /\ Files' = Files
  <2>1. plugged = Volume
    BY PulledStaysOut
  <2>2. disk' = disk
    BY DEF Next, ReadVariables, ScanNext, Build, Assess, ExcludeSelf, HandoffSucceeds,
           HandoffFails, GiveUp, Unplug, vars, machine
  <2>3. QED BY <2>1, <2>2 DEF Files
<1>2. ~Unplug
  BY PulledStaysOut
<1>3. CASE ReadVariables \/ ScanNext \/ Build
  BY <1>3 DEF ReadVariables, ScanNext, Build, HealthInv
<1>4. CASE Assess
  <2>1. graph' = {[e EXCEPT !.health = AssessEntry(e, Files)] : e \in graph}
    BY <1>4 DEF Assess
  <2>2. ASSUME NEW e \in graph
        PROVE  LET a == [e EXCEPT !.health = AssessEntry(e, Files)]
               IN  Bootable(a) <=> {a.loader, a.kernel} \subseteq Files \cup {NoPath}
    <3> DEFINE a == [e EXCEPT !.health = AssessEntry(e, Files)]
    <3>1. a.loader = e.loader /\ a.kernel = e.kernel /\ a.health = AssessEntry(e, Files)
      BY AssessedIsFound DEF OriginInv
    <3> HIDE DEF a
    <3>2. QED BY <3>1 DEF AssessEntry, Bootable, a
  <2>3. QED BY <1>1, <2>1, <2>2 DEF HealthInv
<1>5. CASE ExcludeSelf
  BY <1>1, <1>5 DEF ExcludeSelf, HealthInv
<1>6. CASE HandoffSucceeds \/ HandoffFails \/ GiveUp \/ UNCHANGED vars
  BY <1>1, <1>6 DEF HandoffSucceeds, HandoffFails, GiveUp, vars, HealthInv
<1>7. QED BY <1>2, <1>3, <1>4, <1>5, <1>6 DEF Next

(* Nothing is added to the graph once MyBoot's entry is gone.              *)
LEMMA SelfInvStep == SelfInv /\ [Next]_vars => SelfInv'
<1> SUFFICES ASSUME SelfInv, [Next]_vars PROVE SelfInv'
  OBVIOUS
<1>1. UNCHANGED machine
  BY DEF Next, ReadVariables, ScanNext, Build, Assess, ExcludeSelf, HandoffSucceeds,
         HandoffFails, GiveUp, Unplug, vars, machine
<1>2. \A e : IsSelf(e)' <=> IsSelf(e)
  BY <1>1 DEF machine, IsSelf
<1>3. CASE ExcludeSelf
  BY <1>2, <1>3 DEF SelfInv, ExcludeSelf
<1>4. CASE ReadVariables \/ ScanNext \/ Build \/ Assess
  BY <1>4 DEF SelfInv, ReadVariables, ScanNext, Build, Assess
<1>5. CASE HandoffSucceeds \/ HandoffFails \/ GiveUp \/ Unplug \/ UNCHANGED vars
  BY <1>2, <1>5 DEF SelfInv, HandoffSucceeds, HandoffFails, GiveUp, Unplug, vars
<1>6. QED BY <1>3, <1>4, <1>5 DEF Next

(* The step that starts something is the last.                             *)
LEMMA StartedInvStep == StartedInv /\ [Next]_vars => StartedInv'
<1> SUFFICES ASSUME StartedInv, [Next]_vars, step' = "os" PROVE StartedInv'
  BY DEF StartedInv
<1>1. CASE HandoffSucceeds
  <2>1. UNCHANGED <<disk, id, own, plugged, graph>>
    BY <1>1 DEF HandoffSucceeds, machine
  <2>2. \A e : LaunchVolume(e)' = LaunchVolume(e)
    BY <2>1 DEF LaunchVolume, DirectBootVolume, ChainloadVolume, Has
  <2>3. Launchable' = Launchable
    BY <2>1 DEF Launchable
  <2>4. QED BY <1>1, <2>2, <2>3 DEF HandoffSucceeds, StartedInv
<1>2. CASE UNCHANGED vars
  <2>1. \A e : LaunchVolume(e)' = LaunchVolume(e)
    BY <1>2 DEF vars, LaunchVolume, DirectBootVolume, ChainloadVolume, Has
  <2>2. Launchable' = Launchable
    BY <1>2 DEF vars, Launchable
  <2>3. QED BY <1>2, <2>1, <2>2 DEF vars, StartedInv
<1>3. QED
  BY <1>1, <1>2 DEF Next, ReadVariables, ScanNext, Build, Assess, ExcludeSelf,
                    HandoffFails, GiveUp, Unplug

(* The invariant holds in every state of every behaviour.                  *)
LEMMA DisksInvariant == Spec => []DisksInv
<1>1. DisksInv /\ [Next]_vars => DisksInv'
  BY TypeInvStep, OriginInvStep, CompleteInvStep, HealthInvStep, SelfInvStep,
     StartedInvStep DEF DisksInv
<1>2. QED BY DisksInvInit, <1>1, PTL DEF Spec

-----------------------------------------------------------------------------
(* The handoff.                                                            *)

(* Of volumes that are not none, one is the first.                         *)
LEMMA FirstIsOneOf ==
  ASSUME NEW vs, vs \subseteq Volume, vs # {}
  PROVE  First(vs) \in vs /\ First(vs) # 0
<1>1. Volume = 1..Cardinality(Volume) /\ Cardinality(Volume) \in Nat
  BY VolumeAssumption, FS_CardinalityType
<1>2. vs \subseteq Nat /\ 0 \notin vs
  BY <1>1
<1>3. PICK v \in vs : \A w \in vs : ~(w < v)
  BY <1>2, FirstPosition
<1>4. \A w \in vs : v <= w
  BY <1>2, <1>3
<1>5. First(vs) \in vs
  BY <1>4 DEF First
<1>6. QED BY <1>2, <1>5

(* A chainload finds its file if any volume has it, and on a volume the    *)
(* entry names if one of those has it.                                     *)
LEMMA ChainloadFinds ==
  ASSUME TypeInv, NEW e, NEW v \in Volume, Has(v, PlanTarget(e))
  PROVE  /\ ChainloadVolume(e) # 0
         /\ ChainloadVolume(e) \in Volume
         /\ Has(ChainloadVolume(e), PlanTarget(e))
         /\ id[v] = e.volume => id[ChainloadVolume(e)] = e.volume
<1> DEFINE holders == {w \in Volume : Has(w, PlanTarget(e))}
           named == {w \in holders : id[w] = e.volume}
<1>1. v \in holders /\ holders \subseteq Volume /\ named \subseteq Volume
  OBVIOUS
<1>2. ChainloadVolume(e) = IF named # {} THEN First(named) ELSE First(holders)
  BY <1>1 DEF ChainloadVolume
<1>3. CASE named # {}
  <2>1. First(named) \in named /\ First(named) # 0
    BY <1>1, <1>3, FirstIsOneOf
  <2>2. QED BY <1>2, <1>3, <2>1
<1>4. CASE named = {}
  <2>1. First(holders) \in holders /\ First(holders) # 0
    BY <1>1, FirstIsOneOf
  <2>2. id[v] # e.volume
    BY <1>1, <1>4
  <2>3. QED BY <1>2, <1>4, <2>1, <2>2
<1>5. QED BY <1>3, <1>4

(* With all disks in place, an entry's loader is on a volume it names, and *)
(* that is where it is chainloaded from.                                   *)
LEMMA ChainloadIsFromItsVolume ==
  ASSUME TypeInv, plugged = Volume, NEW e, FromVolume(e), e.loader # NoPath
  PROVE  /\ PlanTarget(e) = e.loader
         /\ LaunchVolume(e) = ChainloadVolume(e)
         /\ LaunchVolume(e) \in Volume /\ LaunchVolume(e) # 0
         /\ Has(LaunchVolume(e), e.loader)
         /\ id[LaunchVolume(e)] = e.volume
<1>1. PICK v \in Volume : e.loader \in disk[v].files /\ e.volume = id[v]
  BY VolumeEntryFields DEF TypeInv
<1>2. e.method \in Chainloads
  BY VolumeEntryFields DEF TypeInv
<1>3. PlanTarget(e) = e.loader
  BY <1>2 DEF PlanTarget
<1>4. LaunchVolume(e) = ChainloadVolume(e)
  BY <1>2 DEF LaunchVolume, Chainloads
<1>5. Has(v, PlanTarget(e))
  BY <1>1, <1>3 DEF Has
<1>6. QED BY <1>1, <1>3, <1>4, <1>5, ChainloadFinds

(* Every bootable entry of the Boot Graph has a launch plan (build.rs:27-32 *)
(* and crates/providers): plan_for() never passes one over.                *)
THEOREM OfferedHasPlan == Spec => []OfferedIsPlannable
<1>1. DisksInv => OfferedIsPlannable
  BY DEF DisksInv, OriginInv, OfferedIsPlannable
<1>2. QED BY DisksInvariant, <1>1, PTL

(* With the disks left in place, an image that the menu offers is found by *)
(* the handoff that looks for it again (volume/mod.rs:212-237), on any     *)
(* number of volumes and also if their ids collide.                        *)
THEOREM OfferedCanBeLoaded == Spec => []OfferedIsFound
<1>1. ASSUME DisksInv, step = "menu", plugged = Volume,
             NEW e \in Launchable, e.method # "LinuxDirect"
      PROVE  LaunchVolume(e) # 0
  <2>1. e \in graph /\ Bootable(e) /\ PlanTarget(e) # NoPath
    BY <1>1 DEF Launchable
  <2>2. PlanTarget(e) \in Files
    BY <1>1, <2>1 DEF DisksInv, HealthInv, PlanTarget
  <2>3. PICK v \in Volume : Has(v, PlanTarget(e))
    BY <1>1, <2>2 DEF Files, Has
  <2>4. ChainloadVolume(e) # 0
    BY <1>1, <2>3, ChainloadFinds DEF DisksInv
  <2>5. QED BY <1>1, <2>4 DEF LaunchVolume
<1>2. DisksInv => OfferedIsFound
  BY <1>1 DEF OfferedIsFound
<1>3. QED BY DisksInvariant, <1>2, PTL

(* A kernel that is not booted directly comes from the volume it was found *)
(* on, if that volume has it.                                              *)
LEMMA KernelIsFromItsVolume ==
  ASSUME TypeInv, plugged = Volume, NEW e, e.method # "LinuxDirect",
         NEW v \in Volume, id[v] = e.volume, PlanTarget(e) \in disk[v].files
  PROVE  id[LaunchVolume(e)] = e.volume
<1>1. Has(v, PlanTarget(e))
  BY DEF Has
<1>2. QED BY <1>1, ChainloadFinds DEF LaunchVolume

(* The image that is started is on the disk its entry was found on, but    *)
(* for a kernel that this disk lacks, and for one that is booted directly  *)
(* (volume/mod.rs:212-226, direct_boot.rs:34).                             *)
THEOREM RightDiskIsBooted == Spec => []RightDisk
<1>1. ASSUME DisksInv, step = "os", plugged = Volume
      PROVE  LET loader == started.entry[1][3]
                 volume == started.entry[2]
             IN \/ volume \in {id[started.volume], "none"}
                \/ /\ loader = NoPath
                   /\ \A v \in Volume : id[v] = volume => started.path \notin disk[v].files
                \/ started.method = "LinuxDirect" /\ started.volume = own
  <2>1. PICK e \in Launchable :
          /\ LaunchVolume(e) # 0
          /\ started = [entry |-> Id(e), method |-> e.method,
                        volume |-> LaunchVolume(e), path |-> PlanTarget(e)]
    BY <1>1 DEF DisksInv, StartedInv
  <2>2. /\ started.entry[1][3] = e.loader /\ started.entry[2] = e.volume
        /\ started.method = e.method
        /\ started.volume = LaunchVolume(e) /\ started.path = PlanTarget(e)
    BY <2>1 DEF Id, BaseId
  <2>3. IsFound(e)
    BY <1>1 DEF Launchable, DisksInv, OriginInv
  <2>4. CASE FromFirmware(e)
    BY <2>2, <2>4 DEF FromFirmware
  <2>5. CASE FromVolume(e) /\ e.loader # NoPath
    BY <1>1, <2>2, <2>5, ChainloadIsFromItsVolume DEF DisksInv
  <2>6. CASE e.loader = NoPath /\ e.method # "LinuxDirect"
    BY <1>1, <2>2, <2>6, KernelIsFromItsVolume DEF DisksInv
  <2>7. CASE e.method = "LinuxDirect"
    <3>1. LaunchVolume(e) = own
      BY <2>1, <2>7 DEF LaunchVolume, DirectBootVolume
    <3>2. QED BY <2>2, <2>7, <3>1
  <2>8. QED BY <2>3, <2>4, <2>5, <2>6, <2>7 DEF IsFound
<1>2. DisksInv => RightDisk
  BY <1>1 DEF RightDisk
<1>3. QED BY DisksInvariant, <1>2, PTL

(* Every other system on every disk is preserved (pipeline.rs:61-65),      *)
(* wherever on its volume MyBoot was installed, but for the one that owns  *)
(* the fallback path there: every other loader of each disk has an entry   *)
(* that starts that very copy.                                             *)
THEOREM NoLoaderIsLost == Spec => []EveryLoaderIsOffered
<1>1. ASSUME DisksInv, step = "menu", plugged = Volume, IdsAreDistinct,
             NEW v \in Volume, NEW path \in LoadersOf(disk[v]),
             ~(v = own /\ path = FallbackLoader)
      PROVE  \E e \in Launchable : PlanTarget(e) = path /\ LaunchVolume(e) = v
  <2>1. disk[v] \in Disk /\ id[v] # "none" /\ own \in Volume
    BY <1>1, ContentsAssumption, IdsAssumption DEF DisksInv, TypeInv, MachineInv
  <2>2. path # NoPath /\ path \in disk[v].files
    BY <1>1, <2>1, TargetsAreThere
  <2>3. ~(path = FallbackLoader /\ id[v] = id[own])
    BY <1>1, <2>1 DEF IdsAreDistinct
  <2>4. PICK e \in graph : e.loader = path /\ e.volume = id[v]
    BY <1>1, <2>3 DEF DisksInv, CompleteInv, Known
  <2>5. FromVolume(e)
    BY <1>1, <2>1, <2>4 DEF DisksInv, OriginInv, IsFound, FromFirmware
  <2>6. /\ PlanTarget(e) = path
        /\ LaunchVolume(e) \in Volume /\ id[LaunchVolume(e)] = id[v]
    BY <1>1, <2>2, <2>4, <2>5, ChainloadIsFromItsVolume DEF DisksInv
  <2>7. LaunchVolume(e) = v
    BY <1>1, <2>6 DEF IdsAreDistinct
  <2>8. Bootable(e)
    <3>1. e.kernel = NoPath
      BY <1>1, <2>2, <2>4, <2>5, VolumeEntryFields DEF DisksInv, TypeInv
    <3>2. path \in Files
      BY <1>1, <2>2 DEF Files
    <3>3. QED BY <1>1, <2>4, <3>1, <3>2 DEF DisksInv, HealthInv
  <2>9. QED BY <2>2, <2>6, <2>7, <2>8 DEF Launchable
<1>2. DisksInv => EveryLoaderIsOffered
  BY <1>1 DEF EveryLoaderIsOffered
<1>3. QED BY DisksInvariant, <1>2, PTL

(* MyBoot never boots itself (pipeline.rs:61-63), wherever it is installed, *)
(* if no BLS file and no bootspec on any disk describes one of its images   *)
(* as a kernel.                                                             *)
THEOREM NeverBootsItself ==
  ASSUME \A d \in Contents : \A c \in Installations : Kernels(d) \cap c = {}
  PROVE  Spec => []NeverStartsItself
<1>1. ASSUME DisksInv, step = "os", plugged = Volume,
             started.volume = own, started.path \in copies
      PROVE  FALSE
  <2>1. PICK e \in Launchable :
          started = [entry |-> Id(e), method |-> e.method,
                     volume |-> LaunchVolume(e), path |-> PlanTarget(e)]
    BY <1>1 DEF DisksInv, StartedInv
  <2>2. LaunchVolume(e) = own /\ PlanTarget(e) \in copies
    BY <1>1, <2>1
  <2>3. IsFound(e) /\ PlanTarget(e) # NoPath /\ ~IsSelf(e)
    BY <1>1 DEF Launchable, DisksInv, OriginInv, SelfInv
  <2>4. /\ \A dir, name : <<dir, name>> \in copies =>
             <<dir, name>> = FallbackLoader \/ dir = "MyBoot"
        /\ WindowsLoader \notin copies
    BY <1>1, InstallationsAssumption
       DEF DisksInv, TypeInv, MachineInv, WindowsLoader, FallbackLoader
  <2>5. CASE FromFirmware(e)
    BY <2>2, <2>3, <2>4, <2>5 DEF FromFirmware, PlanTarget
  <2>6. CASE FromVolume(e)
    <3>1. PICK v \in Volume : FoundOn(e, disk[v]) /\ e.volume = id[v]
      BY <2>6 DEF FromVolume
    <3>2. disk[v] \in Contents /\ disk[v] \in Disk
      BY <1>1, ContentsAssumption DEF DisksInv, TypeInv, MachineInv
    <3>3. CASE e.loader = NoPath
      <4>1. e.method \notin Chainloads /\ e.kernel \in Kernels(disk[v])
        BY <3>1, <3>2, <3>3, TargetsAreThere DEF FoundOn
      <4>2. PlanTarget(e) = e.kernel
        BY <4>1 DEF PlanTarget
      <4>3. copies \in Installations
        BY <1>1 DEF DisksInv, TypeInv, MachineInv
      <4>4. QED BY <2>2, <3>2, <4>1, <4>2, <4>3
    <3>4. CASE e.loader # NoPath
      <4>1. PlanTarget(e) = e.loader /\ id[own] = e.volume
        BY <1>1, <2>2, <2>6, <3>4, ChainloadIsFromItsVolume DEF DisksInv
      <4>2. e.loader # FallbackLoader
        BY <2>3, <4>1 DEF IsSelf
      <4>3. PICK dir \in VendorDirs(disk[v]) : e.loader = BestLoader(disk[v], dir)
        BY <2>2, <2>4, <3>1, <3>4, <4>1, <4>2 DEF FoundOn, LoadersOf
      <4>4. dir # "MyBoot"
        BY DEF VendorDirs, SkippedDirs
      <4>5. QED BY <2>2, <2>4, <4>1, <4>2, <4>3, <4>4 DEF BestLoader
    <3>5. QED BY <3>3, <3>4
  <2>7. QED BY <2>3, <2>5, <2>6 DEF IsFound
<1>2. DisksInv => NeverStartsItself
  BY <1>1 DEF NeverStartsItself
<1>3. QED BY DisksInvariant, <1>2, PTL
=============================================================================
