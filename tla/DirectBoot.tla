----------------------------- MODULE DirectBoot -----------------------------
(***************************************************************************)
(* The direct kernel boot: engine/src/direct_boot.rs, and the zero page of *)
(* arch/src/x86_64/boot_params.rs.  launch() reads a kernel, places its    *)
(* body, the initrd, the command line and a stack in pages the firmware    *)
(* hands out, fills in the zero page, leaves boot services, turns the      *)
(* firmware's memory map into an E820 table and jumps.                     *)
(*                                                                         *)
(* Memory is a row of page frames with a type each; addresses and sizes    *)
(* count units of which a page has Page.  Sizes are scaled down, their     *)
(* order is the code's.  The firmware's part - which free pages it hands   *)
(* out, and how it cuts memory into descriptors - is external and free.    *)
(***************************************************************************)
EXTENDS Integers, Sequences, SequencesExt

CONSTANTS
  Page,        \* units of a page (0x1000)
  Sector,      \* units of a sector (512)
  HeaderEnd,   \* where the setup header ends in a kernel file (0x1f1 + its size)
  StackSize,   \* units of the kernel's stack (64 KiB)
  W32,         \* what fits an address of the setup header: 2^32
  MaxE820,     \* room in the zero page (E820_MAX_ENTRIES, 128)
  Frames,      \* number of page frames
  Layouts,     \* memory before MyBoot: functions from frames to types
  Shapes,      \* cuts of memory into descriptors the firmware may choose
  Kernels,     \* kernel files, with Missing
  Initrds,     \* sizes of initrd files, with None and Missing
  Cmdlines,    \* lengths of command lines
  None,        \* no initrd configured
  Missing      \* a kernel or an initrd that cannot be read

Frame == 0..(Frames - 1)
MemoryType == {"conventional", "boot_services", "loader_data", "acpi_reclaim", "acpi_nvs",
               "unusable", "other"}
Hole == "hole"                   \* no memory there
Kernel == [size : Nat, setupSects : Nat, valid : BOOLEAN, has64 : BOOLEAN]
Piece == [start : Frame, pages : Nat]
Placed == {"kernel", "initrd", "cmdline", "stack"}

ASSUME ScaleAssumption == /\ Page \in Nat \ {0} /\ Sector \in Nat \ {0}
                          /\ HeaderEnd \in Nat /\ StackSize \in Nat /\ Frames \in Nat \ {0}
                          /\ W32 \in Nat \ {0} /\ MaxE820 \in Nat
ASSUME FilesAssumption == /\ Kernels \subseteq Kernel \cup {Missing}
                          /\ Initrds \subseteq Nat \cup {None, Missing}
                          /\ None \notin Nat /\ Missing \notin Nat \cup {None} \cup Kernel
                          /\ Cmdlines \subseteq Nat
ASSUME MemoryAssumption == /\ Layouts \subseteq [Frame -> MemoryType \cup {Hole}]
                           /\ Shapes \subseteq Seq(Piece)

VARIABLES
  memory,      \* type of each frame
  files,       \* what launch() is called with: kernel, initrd and command line
  step,        \* how far launch() is
  region,      \* what has been placed: address and size copied
  services,    \* boot services are running
  mmap,        \* the map that leaving boot services returned
  zeroPage     \* boot_params

vars == <<memory, files, step, region, services, mmap, zeroPage>>

-----------------------------------------------------------------------------
(* Pages.                                                                  *)

\* Rounded down: the last part of a page gets none.
PagesForDown(bytes) == IF bytes \div Page > 1 THEN bytes \div Page ELSE 1

\* alloc_pages_for: whole pages, at least one.
PagesFor(bytes) ==
  LET pages == (bytes + Page - 1) \div Page IN IF pages > 1 THEN pages ELSE 1

FreeRuns(pages) ==
  {start \in Frame : \A frame \in start..(start + pages - 1) :
                        frame \in Frame /\ memory[frame] = "conventional"}

\* AnyPages: the firmware chooses among the free runs that are long enough.
Place(name, bytes) ==
  \E start \in FreeRuns(PagesFor(bytes)) :
    /\ memory' = [frame \in Frame |->
                    IF frame \in start..(start + PagesFor(bytes) - 1) THEN "loader_data"
                    ELSE memory[frame]]
    /\ region' = [region EXCEPT ![name] = [addr |-> start * Page, size |-> bytes]]

Fits(bytes) == FreeRuns(PagesFor(bytes)) # {}

-----------------------------------------------------------------------------
(* The E820 table.                                                         *)

\* e820_type
E820Type(type) ==
  CASE type \in {"conventional", "boot_services", "loader_data"} -> "ram"
    [] type = "acpi_reclaim" -> "acpi"
    [] type = "acpi_nvs" -> "nvs"
    [] type = "unusable" -> "unusable"
    [] OTHER -> "reserved"

E820Entry(descriptor) ==
  [addr |-> descriptor.start * Page, size |-> descriptor.pages * Page,
   kind |-> E820Type(descriptor.type)]

\* Any two entries of a kind in a row are taken for one.
ContinuesKind(table, entry) == table # <<>> /\ Last(table).kind = entry.kind

\* An entry goes on where the last one ends, and is of its kind.
Continues(table, entry) ==
  /\ table # <<>>
  /\ Last(table).kind = entry.kind
  /\ Last(table).addr + Last(table).size = entry.addr

\* The body of to_e820's loop.
AddEntry(table, entry) ==
  IF entry.size = 0 THEN table
  ELSE IF Continues(table, entry)
       THEN [table EXCEPT ![Len(table)].size = @ + entry.size]
  ELSE Append(table, entry)

ToE820(map) ==
  LET table[i \in 0..Len(map)] ==
        IF i = 0 THEN <<>> ELSE AddEntry(table[i - 1], E820Entry(map[i]))
  IN table[Len(map)]

\* set_e820: what does not fit is dropped.
SetE820(table) == SubSeq(table, 1, IF Len(table) < MaxE820 THEN Len(table) ELSE MaxE820)

-----------------------------------------------------------------------------
Init ==
  /\ memory \in Layouts
  /\ files \in [kernel : Kernels, initrd : Initrds, cmdline : Cmdlines]
  /\ step = "start"
  /\ region = [name \in Placed |-> [addr |-> 0, size |-> 0]]
  /\ services = TRUE
  /\ mmap = <<>>
  /\ zeroPage = [cmdLinePtr |-> 0, ramdiskImage |-> 0, ramdiskSize |-> 0, e820 |-> <<>>]

\* launch() returns an error; pages it has taken stay taken.
Fail ==
  /\ step' = "failed"
  /\ UNCHANGED <<memory, files, region, services, mmap, zeroPage>>

Proceed(at, to) ==
  /\ step = at
  /\ step' = to
  /\ UNCHANGED <<files, services, mmap>>

\* setup_header: the file is there and long enough to hold a header.
HasHeader(kernel) == kernel # Missing /\ kernel.size >= HeaderEnd

\* valid_bzimage and the 64-bit entry bit of xloadflags
IsBzImage(kernel) == kernel.valid /\ kernel.has64

HeaderUsable(kernel) == HasHeader(kernel) /\ IsBzImage(kernel)
RealModeSize(kernel) == ((IF kernel.setupSects = 0 THEN 4 ELSE kernel.setupSects) + 1) * Sector
Body(kernel) == kernel.size - RealModeSize(kernel)

\* The length of the body is not looked at: it wraps around zero.
LoadKernelUnchecked ==
  /\ HeaderUsable(files.kernel)
  /\ Proceed("start", "kernel")
  /\ Place("kernel", Body(files.kernel))
  /\ UNCHANGED zeroPage

\* 1, 2: the header is checked and the protected-mode body placed.
LoadKernel ==
  /\ HeaderUsable(files.kernel)
  /\ Body(files.kernel) >= 0
  /\ Proceed("start", "kernel")
  /\ Place("kernel", Body(files.kernel))
  /\ UNCHANGED zeroPage

RejectKernel ==
  /\ step = "start"
  /\ \/ ~HeaderUsable(files.kernel)
     \/ /\ HeaderUsable(files.kernel) /\ Body(files.kernel) >= 0
        /\ ~Fits(Body(files.kernel))
  /\ Fail

\* The slice of a file that ends in its real-mode part is out of range.
PanicOnShortKernel ==
  /\ step = "start"
  /\ HeaderUsable(files.kernel) /\ Body(files.kernel) < 0
  /\ step' = "panicked"
  /\ UNCHANGED <<memory, files, region, services, mmap, zeroPage>>

\* 3: the initrd, if one is configured.
LoadInitrd ==
  /\ Proceed("kernel", "initrd")
  /\ \/ files.initrd = None /\ UNCHANGED <<memory, region>>
     \/ files.initrd \in Nat /\ Place("initrd", files.initrd)
  /\ UNCHANGED zeroPage

InitrdFails ==
  /\ step = "kernel"
  /\ \/ files.initrd = Missing
     \/ files.initrd \in Nat /\ ~Fits(files.initrd)
  /\ Fail

\* 4: the command line with its NUL.
PlaceCmdline ==
  /\ Proceed("initrd", "cmdline")
  /\ Place("cmdline", files.cmdline + 1)
  /\ UNCHANGED zeroPage

CmdlineFails == step = "initrd" /\ ~Fits(files.cmdline + 1) /\ Fail

\* The address of the initrd is told without its size.
LoaderFieldsUnsized ==
  [zeroPage EXCEPT !.cmdLinePtr = region["cmdline"].addr % W32,
                   !.ramdiskImage = region["initrd"].addr % W32]

\* set_loader_fields: addresses and sizes are cut to 32 bits.
LoaderFields ==
  [zeroPage EXCEPT !.cmdLinePtr = region["cmdline"].addr % W32,
                   !.ramdiskImage = region["initrd"].addr % W32,
                   !.ramdiskSize = region["initrd"].size % W32]

\* 5, 6: the zero page, then the stack.
BuildZeroPage ==
  /\ Proceed("cmdline", "stack")
  /\ zeroPage' = LoaderFields
  /\ Place("stack", StackSize)

StackFails == step = "cmdline" /\ ~Fits(StackSize) /\ Fail

\* The descriptors of a cut: whole, of one type each, all memory and no hole.
Describes(shape) ==
  /\ \A frame \in Frame :
        memory[frame] # Hole <=> \E i \in DOMAIN shape :
                                    frame \in shape[i].start..(shape[i].start + shape[i].pages - 1)
  /\ \A i \in DOMAIN shape :
        \A frame \in shape[i].start..(shape[i].start + shape[i].pages - 1) :
           memory[frame] = memory[shape[i].start]

\* 7: boot services end, and return the memory map.
ExitBootServices ==
  /\ step = "stack"
  /\ step' = "exited"
  /\ services' = FALSE
  /\ \E shape \in Shapes :
       /\ Describes(shape)
       /\ mmap' = [i \in 1..Len(shape) |->
                     [type |-> memory[shape[i].start], start |-> shape[i].start,
                      pages |-> shape[i].pages]]
  /\ UNCHANGED <<memory, files, region, zeroPage>>

\* The table grows in a Vec, whose memory is the firmware's pool: what that
\* call does once boot services have ended is not defined - it may hand out
\* memory as before, or fail, which panics.
ConvertMap ==
  /\ step = "exited"
  /\ \/ step' = "converted" /\ zeroPage' = [zeroPage EXCEPT !.e820 = SetE820(ToE820(mmap))]
     \/ ToE820(mmap) # <<>> /\ step' = "panicked" /\ UNCHANGED zeroPage
  /\ UNCHANGED <<memory, files, region, services, mmap>>

Jump ==
  /\ Proceed("converted", "jumped")
  /\ UNCHANGED <<memory, region, zeroPage>>

Next ==
  \/ LoadKernel \/ RejectKernel \/ PanicOnShortKernel
  \/ LoadInitrd \/ InitrdFails
  \/ PlaceCmdline \/ CmdlineFails
  \/ BuildZeroPage \/ StackFails
  \/ ExitBootServices \/ ConvertMap \/ Jump

Spec == Init /\ [][Next]_vars

-----------------------------------------------------------------------------
Descriptor == [type : MemoryType \cup {Hole}, start : Frame, pages : Nat]
TableEntry == [addr : Nat, size : Nat, kind : {"ram", "acpi", "nvs", "unusable", "reserved"}]

TypeOK ==
  /\ memory \in [Frame -> MemoryType \cup {Hole}]
  /\ files \in [kernel : Kernel \cup {Missing}, initrd : Nat \cup {None, Missing}, cmdline : Nat]
  /\ step \in {"start", "kernel", "initrd", "cmdline", "stack", "exited", "converted",
               "jumped", "failed", "panicked"}
  /\ region \in [Placed -> [addr : Nat, size : Nat]]
  /\ services \in BOOLEAN
  /\ mmap \in Seq(Descriptor)
  /\ zeroPage \in [cmdLinePtr : Nat, ramdiskImage : Nat, ramdiskSize : Nat, e820 : Seq(TableEntry)]

Units(name) == region[name].addr..(region[name].addr + region[name].size - 1)

(* Nothing that was copied reaches past its pages: what is placed lies in  *)
(* memory that was handed out for it, and apart from everything else that  *)
(* is placed (direct_boot.rs:107 "Allocate whole pages covering `bytes`"). *)
CopiesStayApart ==
  /\ \A name \in Placed : \A unit \in Units(name) : unit \div Page \in Frame /\ memory[unit \div Page] = "loader_data"
  /\ \A one, other \in Placed : one # other => Units(one) \cap Units(other) = {}

(* At the jump the kernel is told where its command line and its initrd    *)
(* are and how long the initrd is, as long as they lie below 4 GiB; above, *)
(* their addresses are cut (direct_boot.rs:58, :75).                       *)
KernelIsTold ==
  step = "jumped" =>
    /\ region["cmdline"].addr < W32 => zeroPage.cmdLinePtr = region["cmdline"].addr
    /\ region["initrd"].addr + region["initrd"].size < W32 =>
         /\ zeroPage.ramdiskImage = region["initrd"].addr
         /\ zeroPage.ramdiskSize = region["initrd"].size
         /\ zeroPage.ramdiskSize = IF files.initrd = None THEN 0 ELSE files.initrd

Says(table, unit, kind) ==
  \E i \in 1..Len(table) : /\ table[i].addr <= unit /\ unit < table[i].addr + table[i].size
                           /\ table[i].kind = kind

Reports(map, unit, kind) ==
  \E i \in 1..Len(map) : /\ map[i].start * Page <= unit /\ unit < (map[i].start + map[i].pages) * Page
                         /\ E820Type(map[i].type) = kind

(* What the kernel is told of memory is what the firmware's map says of it,*)
(* unit by unit; and it is told all of it unless the table was cut at the  *)
(* zero page's limit (direct_boot.rs:115, boot_params.rs:167).             *)
MemoryMapIsTold ==
  step \in {"converted", "jumped"} =>
    \A unit \in 0..(Frames * Page - 1) : \A kind \in {"ram", "acpi", "nvs", "unusable", "reserved"} :
      /\ Says(zeroPage.e820, unit, kind) => Reports(mmap, unit, kind)
      /\ Len(ToE820(mmap)) <= MaxE820 /\ Reports(mmap, unit, kind) =>
           Says(zeroPage.e820, unit, kind)
=============================================================================
