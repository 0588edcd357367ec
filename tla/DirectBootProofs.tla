-------------------------- MODULE DirectBootProofs --------------------------
(***************************************************************************)
(* The direct kernel boot for every machine: whatever its memory, however  *)
(* the firmware hands out pages and cuts memory into descriptors.          *)
(***************************************************************************)
EXTENDS DirectBoot, Lemmas

Table == Seq(TableEntry)
Kind == {"ram", "acpi", "nvs", "unusable", "reserved"}

-----------------------------------------------------------------------------
(* Pages.                                                                  *)

(* Multiplying by the page size keeps the order of frames.                 *)
LEMMA FramesAreOrdered ==
  ASSUME NEW a \in Int, NEW b \in Int, a * Page < b * Page
  PROVE  a < b
BY ScaleAssumption

(* A unit lies in its frame.                                               *)
LEMMA UnitInFrame ==
  ASSUME NEW unit \in Nat
  PROVE  /\ unit \div Page \in Nat
         /\ (unit \div Page) * Page <= unit
         /\ unit < (unit \div Page + 1) * Page
BY ScaleAssumption

(* alloc_pages_for asks for enough pages, and for one at least.            *)
LEMMA PagesAreEnough ==
  ASSUME NEW bytes \in Nat
  PROVE  /\ PagesFor(bytes) \in Nat \ {0}
         /\ bytes <= PagesFor(bytes) * Page
<1> DEFINE last == bytes + Page - 1
<1> DEFINE pages == last \div Page
<1>1. last \in Nat
  BY ScaleAssumption
<1>2. pages \in Nat /\ last < (pages + 1) * Page
  BY <1>1, UnitInFrame
<1>3. (pages + 1) * Page = pages * Page + Page
  BY <1>2, ScaleAssumption
<1>4. bytes <= pages * Page
  BY <1>1, <1>2, <1>3, ScaleAssumption
<1>5. CASE pages > 1
  BY <1>2, <1>4, <1>5 DEF PagesFor
<1>6. CASE ~(pages > 1)
  <2>1. pages = 0 \/ pages = 1
    BY <1>2, <1>6
  <2>2. bytes <= Page
    BY <1>4, <2>1, ScaleAssumption
  <2>3. PagesFor(bytes) = 1
    BY <1>6 DEF PagesFor
  <2> QED
    BY <2>2, <2>3, ScaleAssumption
<1> QED
  BY <1>5, <1>6

-----------------------------------------------------------------------------
(* The E820 table.                                                         *)

(* A descriptor of the firmware's memory map becomes an entry of the       *)
(* table.                                                                  *)
LEMMA EntryTyped ==
  ASSUME NEW d \in Descriptor
  PROVE  E820Entry(d) \in TableEntry
<1>1. d.start \in Nat /\ d.pages \in Nat
  BY ScaleAssumption DEF Descriptor, Frame
<1>2. d.start * Page \in Nat /\ d.pages * Page \in Nat
  BY <1>1, ScaleAssumption
<1>3. E820Type(d.type) \in {"ram", "acpi", "nvs", "unusable", "reserved"}
  BY DEF E820Type
<1> QED
  BY <1>2, <1>3 DEF E820Entry, TableEntry

(* What the last entry of a table becomes when it goes on.                 *)
Grown(table, size) == [table EXCEPT ![Len(table)].size = @ + size]

(* The last entry grows by the size, and nothing else changes.             *)
LEMMA GrownTyped ==
  ASSUME NEW table \in Table, table # <<>>, NEW size \in Nat
  PROVE  /\ Grown(table, size) \in Table /\ Len(Grown(table, size)) = Len(table)
         /\ \A i \in 1..Len(table) :
              /\ Grown(table, size)[i].addr = table[i].addr
              /\ Grown(table, size)[i].kind = table[i].kind
              /\ Grown(table, size)[i].size =
                   IF i = Len(table) THEN table[i].size + size ELSE table[i].size
<1> DEFINE n == Len(table)
<1>1. n \in Nat \ {0} /\ n \in 1..n
  BY DEF Table
<1>2. table[n] \in TableEntry
  BY <1>1 DEF Table
<1> DEFINE last == [table[n] EXCEPT !.size = @ + size]
<1>3. /\ last \in TableEntry /\ last.addr = table[n].addr /\ last.kind = table[n].kind
      /\ last.size = table[n].size + size
  BY <1>2 DEF TableEntry
<1>4. Grown(table, size) = [table EXCEPT ![n] = last]
  BY DEF Grown
<1> HIDE DEF last
<1>5. [table EXCEPT ![n] = last] \in Table /\ Len([table EXCEPT ![n] = last]) = n
  BY <1>1, <1>3 DEF Table
<1>6. \A i \in 1..n : [table EXCEPT ![n] = last][i] = IF i = n THEN last ELSE table[i]
  BY <1>1 DEF Table
<1> QED
  BY <1>3, <1>4, <1>5, <1>6

(* One round of the loop: the table says what it said and what the entry   *)
(* says, whether the entry is new, goes on or is empty.                    *)
LEMMA EntryIsAdded ==
  ASSUME NEW table \in Table, NEW entry \in TableEntry
  PROVE  /\ AddEntry(table, entry) \in Table
         /\ \A unit \in Nat : \A kind :
              Says(AddEntry(table, entry), unit, kind) <=>
                \/ Says(table, unit, kind)
                \/ /\ entry.addr <= unit /\ unit < entry.addr + entry.size
                   /\ entry.kind = kind
<1>0. /\ entry.addr \in Nat /\ entry.size \in Nat /\ Len(table) \in Nat
      /\ \A i \in 1..Len(table) : table[i].addr \in Nat /\ table[i].size \in Nat
  <2>1. \A i \in 1..Len(table) : table[i] \in TableEntry
    BY DEF Table
  <2>2. Len(table) \in Nat
    BY DEF Table
  <2> QED
    BY <2>1, <2>2 DEF TableEntry
<1>1. CASE entry.size = 0
  <2>1. AddEntry(table, entry) = table
    BY <1>1 DEF AddEntry
  <2>2. \A unit \in Nat : ~(entry.addr <= unit /\ unit < entry.addr + entry.size)
    BY <1>0, <1>1
  <2> QED
    BY <2>1, <2>2
<1>2. CASE entry.size # 0 /\ Continues(table, entry)
  <2> DEFINE new == Grown(table, entry.size)
  <2> DEFINE n == Len(table)
  <2>1. AddEntry(table, entry) = new
    BY <1>2 DEF AddEntry, Grown
  <2>2. table # <<>> /\ table[n].kind = entry.kind /\ table[n].addr + table[n].size = entry.addr
    BY <1>2 DEF Continues, Last
  <2>3. /\ new \in Table /\ Len(new) = n
        /\ \A i \in 1..n : /\ new[i].addr = table[i].addr /\ new[i].kind = table[i].kind
                            /\ new[i].size = IF i = n THEN table[i].size + entry.size
                                             ELSE table[i].size
    BY <1>0, <2>2, GrownTyped
  <2>4. n \in 1..n
    BY <1>0, <2>2 DEF Table
  <2> HIDE DEF new, n
  <2>5. ASSUME NEW unit \in Nat, NEW kind, Says(new, unit, kind)
        PROVE  Says(table, unit, kind) \/ (/\ entry.addr <= unit /\ unit < entry.addr + entry.size
                                           /\ entry.kind = kind)
    <3>1. PICK i \in 1..n : /\ new[i].addr <= unit /\ unit < new[i].addr + new[i].size
                            /\ new[i].kind = kind
      BY <2>3, <2>5 DEF Says
    <3>2. CASE i # n
      BY <2>3, <3>1, <3>2 DEF Says, n
    <3>3. CASE i = n /\ unit < table[n].addr + table[n].size
      BY <2>3, <2>4, <3>1, <3>3 DEF Says, n
    <3>4. CASE i = n /\ ~(unit < table[n].addr + table[n].size)
      BY <1>0, <2>2, <2>3, <2>4, <3>1, <3>4 DEF n
    <3> QED
      BY <3>2, <3>3, <3>4
  <2>6. ASSUME NEW unit \in Nat, NEW kind, Says(table, unit, kind)
        PROVE  Says(new, unit, kind)
    <3>1. PICK i \in 1..n : /\ table[i].addr <= unit /\ unit < table[i].addr + table[i].size
                            /\ table[i].kind = kind
      BY <2>6 DEF Says, n
    <3>2. unit < new[i].addr + new[i].size
      BY <1>0, <2>3, <3>1 DEF n
    <3> QED
      BY <2>3, <3>1, <3>2 DEF Says
  <2>7. ASSUME NEW unit \in Nat, entry.addr <= unit, unit < entry.addr + entry.size
        PROVE  Says(new, unit, entry.kind)
    <3>1. new[n].addr <= unit /\ unit < new[n].addr + new[n].size
      BY <1>0, <2>2, <2>3, <2>4, <2>7 DEF n
    <3> QED
      BY <2>2, <2>3, <2>4, <3>1 DEF Says
  <2> QED
    BY <2>1, <2>3, <2>5, <2>6, <2>7
<1>3. CASE entry.size # 0 /\ ~Continues(table, entry)
  <2> DEFINE new == Append(table, entry)
  <2>1. AddEntry(table, entry) = new
    BY <1>3 DEF AddEntry
  <2>2. /\ new \in Table /\ Len(new) = Len(table) + 1 /\ new[Len(table) + 1] = entry
        /\ \A i \in 1..Len(table) : new[i] = table[i]
    BY DEF Table
  <2> HIDE DEF new
  <2>3. ASSUME NEW unit \in Nat, NEW kind
        PROVE  Says(new, unit, kind) <=>
                  Says(table, unit, kind) \/ (/\ entry.addr <= unit /\ unit < entry.addr + entry.size
                                              /\ entry.kind = kind)
    BY <1>0, <2>2 DEF Says
  <2> QED
    BY <2>1, <2>2, <2>3
<1> QED
  BY <1>1, <1>2, <1>3

(* The tables the loop of to_e820 goes through, descriptor by descriptor.  *)
LEMMA ConversionLoop ==
  ASSUME NEW map \in Seq(Descriptor)
  PROVE  \E run \in [0..Len(map) -> Table] :
            /\ run[0] = <<>>
            /\ \A i \in 1..Len(map) : run[i] = AddEntry(run[i - 1], E820Entry(map[i]))
            /\ ToE820(map) = run[Len(map)]
<1> DEFINE Add(table, i) == AddEntry(table, E820Entry(map[i]))
<1> DEFINE body == [i \in 1..Len(map) |-> [table \in Table |-> Add(table, i)]]
<1>0. Len(map) \in Nat
  OBVIOUS
<1>1. ASSUME NEW table \in Table, NEW i \in 1..Len(map) PROVE Add(table, i) \in Table
  <2>1. map[i] \in Descriptor
    OBVIOUS
  <2>2. E820Entry(map[i]) \in TableEntry
    BY <2>1, EntryTyped
  <2> QED
    BY <2>2, EntryIsAdded
<1>2. <<>> \in Table
  BY DEF Table
<1> HIDE DEF Add
<1>3. body \in Bodies(Len(map), Table)
  BY <1>1 DEF Bodies
<1>4. PICK f \in [0..Len(map) -> Table] :
         f[0] = <<>> /\ \A i \in 1..Len(map) : f[i] = Add(f[i - 1], i)
  <2>1. PICK f : IsRun(f, Len(map), Table, <<>>, body)
    <3> HIDE DEF body
    <3> QED
      BY <1>0, <1>2, <1>3, LoopRuns
  <2>2. ASSUME NEW i \in 1..Len(map) PROVE f[i] = Add(f[i - 1], i)
    <3>1. f[i - 1] \in Table /\ f[i] = body[i][f[i - 1]]
      BY <1>0, <2>1 DEF IsRun
    <3> QED
      BY <3>1
  <2> QED
    BY <2>1, <2>2 DEF IsRun
<1> DEFINE Loop(h) == [i \in 0..Len(map) |-> IF i = 0 THEN <<>> ELSE Add(h[i - 1], i)]
<1> DEFINE loop == CHOOSE h : h = Loop(h)
<1>5. f = Loop(f)
  <2>1. \A i \in 0..Len(map) : f[i] = IF i = 0 THEN <<>> ELSE Add(f[i - 1], i)
    BY <1>0, <1>4
  <2> QED
    BY <1>4, <2>1
<1>6. loop = Loop(loop)
  <2> HIDE DEF Loop
  <2> QED
    BY <1>5
<1>7. ToE820(map) = loop[Len(map)]
  BY DEF ToE820, Add
<1>8. loop[Len(map)] = f[Len(map)]
  <2> HIDE DEF loop
  <2> DEFINE Same == {n \in Nat : n <= Len(map) => loop[n] = f[n]}
  <2>1. 0 \in Same
    BY <1>0, <1>4, <1>6
  <2>2. ASSUME NEW n \in Nat, n \in Same PROVE n + 1 \in Same
    <3>1. SUFFICES ASSUME n + 1 <= Len(map) PROVE loop[n + 1] = f[n + 1]
      OBVIOUS
    <3>2. n + 1 \in 1..Len(map) /\ n + 1 # 0 /\ n + 1 - 1 = n /\ loop[n] = f[n]
      BY <1>0, <2>2, <3>1
    <3>3. loop[n + 1] = Add(loop[n], n + 1)
      BY <1>6, <3>2
    <3>4. f[n + 1] = Add(f[n], n + 1)
      BY <1>4, <3>2
    <3> QED
      BY <3>2, <3>3, <3>4
  <2> HIDE DEF Same
  <2>3. Len(map) \in Same
    BY <1>0, <2>1, <2>2, SetInduction
  <2> QED
    BY <1>0, <2>3 DEF Same
<1> HIDE DEF loop
<1>9. ToE820(map) = f[Len(map)]
  BY <1>7, <1>8
<1> QED
  <2>1. \A i \in 1..Len(map) : f[i] = AddEntry(f[i - 1], E820Entry(map[i]))
    BY <1>4 DEF Add
  <2> QED
    BY <1>4, <1>9, <2>1

(* Merging what is contiguous loses nothing and invents nothing: the table *)
(* says of every unit what the descriptors say, for every map.             *)
LEMMA ConversionIsExact ==
  ASSUME NEW map \in Seq(Descriptor)
  PROVE  /\ ToE820(map) \in Table
         /\ \A unit \in Nat : \A kind :
              Says(ToE820(map), unit, kind) <=> Reports(map, unit, kind)
<1> DEFINE Covers(i, unit, kind) ==
      /\ map[i].start * Page <= unit /\ unit < (map[i].start + map[i].pages) * Page
      /\ E820Type(map[i].type) = kind
<1>1. PICK run \in [0..Len(map) -> Table] :
         /\ run[0] = <<>>
         /\ \A i \in 1..Len(map) : run[i] = AddEntry(run[i - 1], E820Entry(map[i]))
         /\ ToE820(map) = run[Len(map)]
  BY ConversionLoop
<1>2. Len(map) \in Nat
  OBVIOUS
<1>3. ASSUME NEW i \in 1..Len(map), NEW unit \in Nat, NEW kind
      PROVE  Says(run[i], unit, kind) <=> Says(run[i - 1], unit, kind) \/ Covers(i, unit, kind)
  <2> DEFINE entry == E820Entry(map[i])
  <2>1. map[i] \in Descriptor
    OBVIOUS
  <2>2. entry \in TableEntry
    BY <2>1, EntryTyped
  <2>3. run[i - 1] \in Table
    BY <1>1, <1>2
  <2>4. map[i].start \in Nat /\ map[i].pages \in Nat
    BY <2>1, ScaleAssumption DEF Descriptor, Frame
  <2>5. /\ entry.addr = map[i].start * Page /\ entry.kind = E820Type(map[i].type)
        /\ entry.size = map[i].pages * Page
    BY DEF E820Entry
  <2>6. (map[i].start + map[i].pages) * Page = map[i].start * Page + map[i].pages * Page
    BY <2>4, ScaleAssumption
  <2>7. entry.addr + entry.size = (map[i].start + map[i].pages) * Page
    BY <2>5, <2>6
  <2> HIDE DEF entry
  <2>8. Says(AddEntry(run[i - 1], entry), unit, kind) <=>
          Says(run[i - 1], unit, kind) \/ (/\ entry.addr <= unit /\ unit < entry.addr + entry.size
                                           /\ entry.kind = kind)
    BY <2>2, <2>3, EntryIsAdded
  <2>9. run[i] = AddEntry(run[i - 1], entry)
    BY <1>1 DEF entry
  <2> QED
    BY <2>5, <2>7, <2>8, <2>9
<1> DEFINE Exact == {n \in Nat : n <= Len(map) =>
                       \A unit \in Nat : \A kind :
                          Says(run[n], unit, kind) <=> \E i \in 1..n : Covers(i, unit, kind)}
<1> HIDE DEF Covers
<1>4. 0 \in Exact
  BY <1>1, <1>2 DEF Says
<1>5. ASSUME NEW n \in Nat, n \in Exact PROVE n + 1 \in Exact
  <2>1. SUFFICES ASSUME n + 1 <= Len(map), NEW unit \in Nat, NEW kind
                 PROVE  Says(run[n + 1], unit, kind) <=> \E i \in 1..(n + 1) : Covers(i, unit, kind)
    OBVIOUS
  <2>2. n + 1 \in 1..Len(map) /\ n + 1 - 1 = n /\ n <= Len(map)
    BY <1>2, <2>1
  <2>3. Says(run[n], unit, kind) <=> \E i \in 1..n : Covers(i, unit, kind)
    BY <1>5, <2>2
  <2>4. Says(run[n + 1], unit, kind) <=> Says(run[n], unit, kind) \/ Covers(n + 1, unit, kind)
    BY <1>3, <2>2
  <2>5. 1..(n + 1) = 1..n \cup {n + 1}
    OBVIOUS
  <2> QED
    BY <2>3, <2>4, <2>5
<1> HIDE DEF Exact
<1>6. Len(map) \in Exact
  BY <1>2, <1>4, <1>5, SetInduction
<1>7. \A unit \in Nat : \A kind :
        Says(ToE820(map), unit, kind) <=> \E i \in 1..Len(map) : Covers(i, unit, kind)
  BY <1>1, <1>2, <1>6 DEF Exact
<1>8. ToE820(map) \in Table
  BY <1>1, <1>2
<1> QED
  BY <1>7, <1>8 DEF Covers, Reports

(* The zero page's limit cuts the end of a table off, and nothing that fits.*)
LEMMA CutTable ==
  ASSUME NEW table \in Table
  PROVE  /\ SetE820(table) \in Table
         /\ Len(table) <= MaxE820 => SetE820(table) = table
         /\ \A unit, kind : Says(SetE820(table), unit, kind) => Says(table, unit, kind)
<1> DEFINE n == IF Len(table) < MaxE820 THEN Len(table) ELSE MaxE820
<1>1. n \in Nat /\ n <= Len(table) /\ (Len(table) <= MaxE820 => n = Len(table))
  BY ScaleAssumption DEF Table
<1> HIDE DEF n
<1>2. SetE820(table) = SubSeq(table, 1, n)
  BY DEF SetE820, n
<1>3. /\ SubSeq(table, 1, n) \in Table /\ Len(SubSeq(table, 1, n)) = n
      /\ \A i \in 1..n : SubSeq(table, 1, n)[i] = table[i]
  BY <1>1 DEF Table
<1>4. n = Len(table) => SubSeq(table, 1, n) = table
  BY <1>3 DEF Table
<1>5. ASSUME NEW unit, NEW kind, Says(SubSeq(table, 1, n), unit, kind)
      PROVE  Says(table, unit, kind)
  <2>1. \A i \in 1..n : i \in 1..Len(table)
    BY <1>1 DEF Table
  <2> QED
    BY <1>3, <1>5, <2>1 DEF Says
<1> QED
  BY <1>1, <1>2, <1>3, <1>4, <1>5

-----------------------------------------------------------------------------
(* launch().                                                               *)

(* Placing something takes frames, and keeps every variable in its type.   *)
LEMMA PlaceTyped ==
  ASSUME TypeOK, NEW name \in Placed, NEW bytes \in Nat, Place(name, bytes)
  PROVE  /\ memory' \in [Frame -> MemoryType \cup {Hole}]
         /\ region' \in [Placed -> [addr : Nat, size : Nat]]
         /\ region'[name].size = bytes
         /\ \A other \in Placed \ {name} : region'[other] = region[other]
<1>1. PICK start \in FreeRuns(PagesFor(bytes)) :
        /\ memory' = [frame \in Frame |->
                        IF frame \in start..(start + PagesFor(bytes) - 1) THEN "loader_data"
                        ELSE memory[frame]]
        /\ region' = [region EXCEPT ![name] = [addr |-> start * Page, size |-> bytes]]
  BY DEF Place
<1>2. start \in Nat
  BY ScaleAssumption DEF FreeRuns, Frame
<1>3. start * Page \in Nat
  BY <1>2, ScaleAssumption
<1>4. [addr |-> start * Page, size |-> bytes] \in [addr : Nat, size : Nat]
  BY <1>3
<1>5. memory' \in [Frame -> MemoryType \cup {Hole}]
  BY <1>1 DEF TypeOK, MemoryType
<1> HIDE DEF MemoryType
<1>6. region \in [Placed -> [addr : Nat, size : Nat]]
  BY DEF TypeOK
<1> QED
  BY <1>1, <1>4, <1>5, <1>6

(* Before launch() everything has its type.                                *)
LEMMA TypeInit == Init => TypeOK
<1> SUFFICES ASSUME Init PROVE TypeOK
  OBVIOUS
<1>1. memory \in [Frame -> MemoryType \cup {Hole}]
  BY MemoryAssumption DEF Init
<1>2. files \in [kernel : Kernel \cup {Missing}, initrd : Nat \cup {None, Missing}, cmdline : Nat]
  BY FilesAssumption DEF Init
<1>3. region \in [Placed -> [addr : Nat, size : Nat]]
  BY DEF Init
<1>4. mmap \in Seq(Descriptor)
  BY DEF Init
<1>5. zeroPage \in [cmdLinePtr : Nat, ramdiskImage : Nat, ramdiskSize : Nat, e820 : Seq(TableEntry)]
  BY DEF Init
<1> QED
  BY <1>1, <1>2, <1>3, <1>4, <1>5 DEF Init, TypeOK

(* An address cut to 32 bits is a number.                                  *)
LEMMA CutTyped == ASSUME NEW n \in Nat PROVE n % W32 \in Nat
BY ScaleAssumption

(* What launch() writes into the zero page (direct_boot.rs:58-75) has its  *)
(* type.                                                                   *)
LEMMA FieldsTyped ==
  ASSUME TypeOK
  PROVE  LoaderFields \in [cmdLinePtr : Nat, ramdiskImage : Nat, ramdiskSize : Nat, e820 : Seq(TableEntry)]
<1>1. /\ region["cmdline"].addr \in Nat /\ region["initrd"].addr \in Nat
      /\ region["initrd"].size \in Nat
  BY DEF TypeOK, Placed
<1>2. /\ region["cmdline"].addr % W32 \in Nat /\ region["initrd"].addr % W32 \in Nat
      /\ region["initrd"].size % W32 \in Nat
  BY <1>1, CutTyped
<1> DEFINE c == region["cmdline"].addr % W32
<1> DEFINE a == region["initrd"].addr % W32
<1> DEFINE z == region["initrd"].size % W32
<1>3. LoaderFields = [zeroPage EXCEPT !.cmdLinePtr = c, !.ramdiskImage = a, !.ramdiskSize = z]
  BY DEF LoaderFields
<1> HIDE DEF c, a, z
<1>4. zeroPage \in [cmdLinePtr : Nat, ramdiskImage : Nat, ramdiskSize : Nat, e820 : Seq(TableEntry)]
  BY DEF TypeOK
<1> QED
  BY <1>2, <1>3, <1>4 DEF c, a, z

(* The map that leaving boot services returns is made of descriptors.      *)
LEMMA MapTyped ==
  ASSUME TypeOK, ExitBootServices
  PROVE  mmap' \in Seq(Descriptor)
<1>1. PICK shape \in Shapes :
         mmap' = [i \in 1..Len(shape) |->
                    [type |-> memory[shape[i].start], start |-> shape[i].start,
                     pages |-> shape[i].pages]]
  BY DEF ExitBootServices
<1>2. shape \in Seq(Piece)
  BY MemoryAssumption
<1>3. \A i \in 1..Len(shape) : shape[i].start \in Frame /\ shape[i].pages \in Nat
  <2>1. \A i \in 1..Len(shape) : shape[i] \in Piece
    BY <1>2
  <2> QED
    BY <2>1 DEF Piece
<1>4. \A i \in 1..Len(shape) : memory[shape[i].start] \in MemoryType \cup {Hole}
  BY <1>3 DEF TypeOK
<1>5. \A i \in 1..Len(shape) :
        [type |-> memory[shape[i].start], start |-> shape[i].start, pages |-> shape[i].pages]
          \in Descriptor
  BY <1>3, <1>4 DEF Descriptor
<1> QED
  BY <1>1, <1>2, <1>5

(* No step of launch(), nor of the firmware under it, leaves the types.    *)
LEMMA TypeStep == TypeOK /\ [Next]_vars => TypeOK'
<1> SUFFICES ASSUME TypeOK, [Next]_vars PROVE TypeOK'
  OBVIOUS
<1>1. CASE LoadKernel
  <2>1. files.kernel \in Kernel
    BY <1>1 DEF TypeOK, LoadKernel, HeaderUsable, HasHeader, IsBzImage
  <2>2. Body(files.kernel) \in Nat
    <3>1. RealModeSize(files.kernel) \in Int
      BY <2>1, ScaleAssumption DEF RealModeSize, Kernel
    <3> QED
      BY <1>1, <2>1, <3>1 DEF LoadKernel, Body, Kernel
  <2>3. /\ memory' \in [Frame -> MemoryType \cup {Hole}]
        /\ region' \in [Placed -> [addr : Nat, size : Nat]]
    BY <1>1, <2>2, PlaceTyped DEF LoadKernel, Placed
  <2> QED
    BY <1>1, <2>3 DEF LoadKernel, Proceed, TypeOK
<1>2. CASE RejectKernel \/ InitrdFails \/ CmdlineFails \/ StackFails
  BY <1>2 DEF RejectKernel, InitrdFails, CmdlineFails, StackFails, Fail, TypeOK
<1>3. CASE PanicOnShortKernel
  BY <1>3 DEF PanicOnShortKernel, TypeOK
<1>4. CASE LoadInitrd
  <2>1. /\ memory' \in [Frame -> MemoryType \cup {Hole}]
        /\ region' \in [Placed -> [addr : Nat, size : Nat]]
    <3>1. CASE UNCHANGED <<memory, region>>
      BY <3>1 DEF TypeOK
    <3>2. CASE files.initrd \in Nat /\ Place("initrd", files.initrd)
      BY <3>2, PlaceTyped DEF Placed
    <3> QED
      BY <1>4, <3>1, <3>2 DEF LoadInitrd
  <2> QED
    BY <1>4, <2>1 DEF LoadInitrd, Proceed, TypeOK
<1>5. CASE PlaceCmdline
  <2>1. files.cmdline + 1 \in Nat
    BY DEF TypeOK
  <2>2. /\ memory' \in [Frame -> MemoryType \cup {Hole}]
        /\ region' \in [Placed -> [addr : Nat, size : Nat]]
    BY <1>5, <2>1, PlaceTyped DEF PlaceCmdline, Placed
  <2> QED
    BY <1>5, <2>2 DEF PlaceCmdline, Proceed, TypeOK
<1>6. CASE BuildZeroPage
  <2>1. /\ memory' \in [Frame -> MemoryType \cup {Hole}]
        /\ region' \in [Placed -> [addr : Nat, size : Nat]]
    BY <1>6, ScaleAssumption, PlaceTyped DEF BuildZeroPage, Placed
  <2>2. zeroPage' \in [cmdLinePtr : Nat, ramdiskImage : Nat, ramdiskSize : Nat, e820 : Seq(TableEntry)]
    BY <1>6, FieldsTyped DEF BuildZeroPage
  <2> QED
    BY <1>6, <2>1, <2>2 DEF BuildZeroPage, Proceed, TypeOK
<1>7. CASE ExitBootServices
  <2>1. mmap' \in Seq(Descriptor)
    BY <1>7, MapTyped
  <2> QED
    BY <1>7, <2>1 DEF ExitBootServices, TypeOK
<1>8. CASE ConvertMap
  <2>1. ToE820(mmap) \in Seq(TableEntry)
    BY ConversionIsExact DEF TypeOK, Table
  <2>2. SetE820(ToE820(mmap)) \in Seq(TableEntry)
    BY <2>1, CutTable DEF Table
  <2>3. zeroPage' \in [cmdLinePtr : Nat, ramdiskImage : Nat, ramdiskSize : Nat, e820 : Seq(TableEntry)]
    BY <1>8, <2>2 DEF ConvertMap, TypeOK
  <2> QED
    BY <1>8, <2>3 DEF ConvertMap, TypeOK
<1>9. CASE Jump
  BY <1>9 DEF Jump, Proceed, TypeOK
<1>10. CASE UNCHANGED vars
  BY <1>10 DEF vars, TypeOK
<1> QED
  BY <1>1, <1>2, <1>3, <1>4, <1>5, <1>6, <1>7, <1>8, <1>9, <1>10 DEF Next

(* The variables of launch() stay in their types.                          *)
THEOREM LaunchTypeCorrect == Spec => []TypeOK
BY TypeInit, TypeStep, PTL DEF Spec

-----------------------------------------------------------------------------
(* What the zero page says of memory once the map has been converted.      *)
TableInv == step \in {"converted", "jumped"} => zeroPage.e820 = SetE820(ToE820(mmap))

(* The table that was made of the map stays the zero page's until the jump.*)
LEMMA TableStep == TypeOK /\ TableInv /\ [Next]_vars => TableInv'
<1> SUFFICES ASSUME TypeOK, TableInv, [Next]_vars PROVE TableInv'
  OBVIOUS
<1> USE DEF TableInv
<1>1. CASE LoadKernel \/ LoadInitrd \/ PlaceCmdline \/ BuildZeroPage
  BY <1>1 DEF LoadKernel, LoadInitrd, PlaceCmdline, BuildZeroPage, Proceed
<1>2. CASE RejectKernel \/ InitrdFails \/ CmdlineFails \/ StackFails \/ PanicOnShortKernel
  BY <1>2 DEF RejectKernel, InitrdFails, CmdlineFails, StackFails, Fail, PanicOnShortKernel
<1>3. CASE ExitBootServices
  BY <1>3 DEF ExitBootServices
<1>4. CASE ConvertMap
  <2>1. CASE step' = "panicked"
    BY <2>1
  <2>2. CASE zeroPage' = [zeroPage EXCEPT !.e820 = SetE820(ToE820(mmap))] /\ mmap' = mmap
    BY <2>2 DEF TypeOK
  <2> QED
    BY <1>4, <2>1, <2>2 DEF ConvertMap
<1>5. CASE Jump
  BY <1>5 DEF Jump, Proceed
<1>6. CASE UNCHANGED vars
  BY <1>6 DEF vars
<1> QED
  BY <1>1, <1>2, <1>3, <1>4, <1>5, <1>6 DEF Next

(* Whatever map the firmware returns, of any length and in any order, the  *)
(* kernel is told of every unit of memory what the map says of it, and of  *)
(* all of it unless the table is cut.                                      *)
THEOREM MapReachesKernel == Spec => []MemoryMapIsTold
<1>1. Init => TableInv
  BY DEF Init, TableInv
<1>2. TypeOK /\ TableInv => MemoryMapIsTold
  <2> SUFFICES ASSUME TypeOK, TableInv, step \in {"converted", "jumped"} PROVE MemoryMapIsTold
    BY DEF MemoryMapIsTold
  <2> DEFINE table == ToE820(mmap)
  <2>1. /\ table \in Table
        /\ \A unit \in Nat : \A kind : Says(table, unit, kind) <=> Reports(mmap, unit, kind)
    BY ConversionIsExact DEF TypeOK
  <2>2. zeroPage.e820 = SetE820(table)
    BY DEF TableInv
  <2>3. /\ Len(table) <= MaxE820 => SetE820(table) = table
        /\ \A unit, kind : Says(SetE820(table), unit, kind) => Says(table, unit, kind)
    BY <2>1, CutTable
  <2> HIDE DEF table
  <2>4. ASSUME NEW unit \in Nat, NEW kind
        PROVE  /\ Says(zeroPage.e820, unit, kind) => Reports(mmap, unit, kind)
               /\ Len(table) <= MaxE820 /\ Reports(mmap, unit, kind) =>
                    Says(zeroPage.e820, unit, kind)
    BY <2>1, <2>2, <2>3
  <2>5. \A unit \in 0..(Frames * Page - 1) : unit \in Nat
    OBVIOUS
  <2> QED
    BY <2>4, <2>5 DEF MemoryMapIsTold, table
<1> QED
  BY <1>1, <1>2, TypeInit, TypeStep, TableStep, PTL DEF Spec

-----------------------------------------------------------------------------
(* How much of what the kernel needs has been placed and told.             *)
ToldInv ==
  /\ step \in {"start", "kernel"} => region["initrd"].size = 0
  /\ step \in {"initrd", "cmdline", "stack", "exited", "converted", "jumped"} =>
       region["initrd"].size = IF files.initrd = None THEN 0 ELSE files.initrd
  /\ step \in {"stack", "exited", "converted", "jumped"} =>
       /\ zeroPage.cmdLinePtr = region["cmdline"].addr % W32
       /\ zeroPage.ramdiskImage = region["initrd"].addr % W32
       /\ zeroPage.ramdiskSize = region["initrd"].size % W32

(* Each step places what it read, and tells the kernel of what was placed. *)
LEMMA ToldStep == TypeOK /\ ToldInv /\ [Next]_vars => ToldInv'
<1> SUFFICES ASSUME TypeOK, ToldInv, [Next]_vars PROVE ToldInv'
  OBVIOUS
<1>1. CASE LoadKernel
  <2>1. region'["initrd"] = region["initrd"]
    BY <1>1 DEF LoadKernel, Place, Placed, TypeOK
  <2> QED
    BY <1>1, <2>1 DEF LoadKernel, Proceed, ToldInv
<1>2. CASE RejectKernel \/ InitrdFails \/ CmdlineFails \/ StackFails \/ PanicOnShortKernel
  BY <1>2 DEF RejectKernel, InitrdFails, CmdlineFails, StackFails, Fail, PanicOnShortKernel, ToldInv
<1>3. CASE LoadInitrd
  <2>1. CASE files.initrd = None /\ UNCHANGED <<memory, region>>
    BY <1>3, <2>1 DEF LoadInitrd, Proceed, ToldInv
  <2>2. CASE files.initrd \in Nat /\ Place("initrd", files.initrd)
    <3>1. region'["initrd"].size = files.initrd
      BY <2>2, PlaceTyped DEF Placed
    <3>2. files.initrd # None
      BY <2>2, FilesAssumption
    <3> QED
      BY <1>3, <3>1, <3>2 DEF LoadInitrd, Proceed, ToldInv
  <2> QED
    BY <1>3, <2>1, <2>2 DEF LoadInitrd
<1>4. CASE PlaceCmdline
  <2>1. region'["initrd"] = region["initrd"]
    BY <1>4 DEF PlaceCmdline, Place, Placed, TypeOK
  <2> QED
    BY <1>4, <2>1 DEF PlaceCmdline, Proceed, ToldInv
<1>5. CASE BuildZeroPage
  <2>1. region'["initrd"] = region["initrd"] /\ region'["cmdline"] = region["cmdline"]
    BY <1>5 DEF BuildZeroPage, Place, Placed, TypeOK
  <2>2. /\ zeroPage'.cmdLinePtr = region["cmdline"].addr % W32
        /\ zeroPage'.ramdiskImage = region["initrd"].addr % W32
        /\ zeroPage'.ramdiskSize = region["initrd"].size % W32
    BY <1>5 DEF BuildZeroPage, LoaderFields, TypeOK
  <2> QED
    BY <1>5, <2>1, <2>2 DEF BuildZeroPage, Proceed, ToldInv
<1>6. CASE ExitBootServices
  BY <1>6 DEF ExitBootServices, ToldInv
<1>7. CASE ConvertMap
  <2>1. CASE step' = "panicked"
    BY <2>1 DEF ToldInv
  <2>2. CASE step' = "converted" /\ zeroPage' = [zeroPage EXCEPT !.e820 = SetE820(ToE820(mmap))]
    <3>1. /\ zeroPage'.cmdLinePtr = zeroPage.cmdLinePtr
          /\ zeroPage'.ramdiskImage = zeroPage.ramdiskImage
          /\ zeroPage'.ramdiskSize = zeroPage.ramdiskSize
      BY <2>2 DEF TypeOK
    <3>2. step = "exited" /\ region' = region /\ files' = files
      BY <1>7 DEF ConvertMap
    <3> QED
      BY <2>2, <3>1, <3>2 DEF ToldInv
  <2> QED
    BY <1>7, <2>1, <2>2 DEF ConvertMap
<1>8. CASE Jump
  BY <1>8 DEF Jump, Proceed, ToldInv
<1>9. CASE UNCHANGED vars
  BY <1>9 DEF vars, ToldInv
<1> QED
  BY <1>1, <1>2, <1>3, <1>4, <1>5, <1>6, <1>7, <1>8, <1>9 DEF Next

(* A number that fits is not cut.                                          *)
LEMMA CutOfSmall == ASSUME NEW n \in Nat, n < W32 PROVE n % W32 = n
BY ScaleAssumption

(* What lies below 4 GiB is told as it was placed, for every file and every*)
(* choice of pages.                                                        *)
THEOREM KernelKnowsItsFiles == Spec => []KernelIsTold
<1>1. Init => ToldInv
  BY DEF Init, ToldInv, Placed
<1>2. TypeOK /\ ToldInv => KernelIsTold
  <2> SUFFICES ASSUME TypeOK, ToldInv, step = "jumped" PROVE KernelIsTold
    BY DEF KernelIsTold
  <2>1. /\ region["cmdline"].addr \in Nat /\ region["initrd"].addr \in Nat
        /\ region["initrd"].size \in Nat
    BY DEF TypeOK, Placed
  <2>2. /\ region["cmdline"].addr < W32 => region["cmdline"].addr % W32 = region["cmdline"].addr
        /\ region["initrd"].addr < W32 => region["initrd"].addr % W32 = region["initrd"].addr
        /\ region["initrd"].size < W32 => region["initrd"].size % W32 = region["initrd"].size
    BY <2>1, CutOfSmall
  <2>3. /\ zeroPage.cmdLinePtr = region["cmdline"].addr % W32
        /\ zeroPage.ramdiskImage = region["initrd"].addr % W32
        /\ zeroPage.ramdiskSize = region["initrd"].size % W32
        /\ region["initrd"].size = IF files.initrd = None THEN 0 ELSE files.initrd
    BY DEF ToldInv
  <2>4. region["initrd"].addr + region["initrd"].size < W32 =>
          region["initrd"].addr < W32 /\ region["initrd"].size < W32
    BY <2>1, ScaleAssumption
  <2> QED
    BY <2>2, <2>3, <2>4 DEF KernelIsTold
<1> QED
  BY <1>1, <1>2, TypeInit, TypeStep, ToldStep, PTL DEF Spec

-----------------------------------------------------------------------------
(* What Place copies lies in frames that were free.                        *)
LEMMA PlacedWhereFree ==
  ASSUME TypeOK, CopiesStayApart, NEW name \in Placed, NEW bytes \in Nat, Place(name, bytes)
  PROVE  CopiesStayApart'
<1>1. PICK start \in FreeRuns(PagesFor(bytes)) :
        /\ memory' = [frame \in Frame |->
                        IF frame \in start..(start + PagesFor(bytes) - 1) THEN "loader_data"
                        ELSE memory[frame]]
        /\ region' = [region EXCEPT ![name] = [addr |-> start * Page, size |-> bytes]]
  BY DEF Place
<1> DEFINE end == start + PagesFor(bytes) - 1
<1>2. start \in Nat /\ PagesFor(bytes) \in Nat /\ end \in Int /\ Page \in Nat \ {0}
  BY ScaleAssumption, PagesAreEnough DEF FreeRuns, Frame
<1>3. \A frame \in start..end : frame \in Frame /\ memory[frame] = "conventional"
  BY <1>1 DEF FreeRuns
<1>4. \A other \in Placed : region'[other] =
        IF other = name THEN [addr |-> start * Page, size |-> bytes] ELSE region[other]
  BY <1>1 DEF TypeOK
<1>5. \A other \in Placed : region[other].addr \in Nat /\ region[other].size \in Nat
  BY DEF TypeOK
<1>6. Units(name)' = (start * Page)..(start * Page + bytes - 1)
  BY <1>4 DEF Units
<1>7. \A other \in Placed \ {name} : Units(other)' = Units(other)
  BY <1>4 DEF Units
<1>8. ASSUME NEW unit \in Units(name)'
      PROVE  unit \in Nat /\ unit \div Page \in start..end
  <2> DEFINE frame == unit \div Page
  <2>1. unit \in Int /\ start * Page <= unit /\ unit <= start * Page + bytes - 1 /\ start * Page \in Nat
    BY <1>2, <1>6
  <2>2. frame \in Nat /\ frame * Page <= unit /\ unit < (frame + 1) * Page
    BY <2>1, UnitInFrame
  <2> HIDE DEF frame
  <2>3. start * Page < (frame + 1) * Page
    BY <1>2, <2>1, <2>2
  <2>4. start < frame + 1
    BY <1>2, <2>2, <2>3, FramesAreOrdered
  <2>5. bytes <= PagesFor(bytes) * Page
    BY PagesAreEnough
  <2>6. start * Page + PagesFor(bytes) * Page = (start + PagesFor(bytes)) * Page
    BY <1>2
  <2>7. PagesFor(bytes) * Page \in Nat /\ frame * Page \in Nat
    BY <1>2, <2>2
  <2>8. frame * Page < (start + PagesFor(bytes)) * Page
    BY <2>1, <2>2, <2>5, <2>6, <2>7
  <2>9. frame < start + PagesFor(bytes)
    BY <1>2, <2>2, <2>8, FramesAreOrdered
  <2> QED
    BY <1>2, <2>1, <2>2, <2>4, <2>9 DEF frame
<1> HIDE DEF end
<1>9. \A frame \in start..end : memory'[frame] = "loader_data"
  BY <1>1, <1>3 DEF end
<1>10. \A frame \in Frame : memory[frame] = "loader_data" => memory'[frame] = "loader_data"
  BY <1>1
<1>11. ASSUME NEW other \in Placed, NEW unit \in Units(other)'
       PROVE  unit \div Page \in Frame /\ memory'[unit \div Page] = "loader_data"
  <2>1. CASE other = name
    BY <1>3, <1>8, <1>9, <2>1
  <2>2. CASE other # name
    <3>1. unit \div Page \in Frame /\ memory[unit \div Page] = "loader_data"
      BY <1>7, <2>2 DEF CopiesStayApart
    <3> QED
      BY <1>10, <3>1
  <2> QED
    BY <2>1, <2>2
<1>12. ASSUME NEW other \in Placed \ {name} PROVE Units(name)' \cap Units(other)' = {}
  <2>1. SUFFICES ASSUME NEW unit \in Units(name)', unit \in Units(other) PROVE FALSE
    BY <1>7
  <2>2. memory[unit \div Page] = "conventional"
    BY <1>3, <1>8
  <2>3. memory[unit \div Page] = "loader_data"
    BY <2>1 DEF CopiesStayApart
  <2> QED
    BY <2>2, <2>3
<1>13. ASSUME NEW one \in Placed \ {name}, NEW other \in Placed \ {name}, one # other
       PROVE  Units(one)' \cap Units(other)' = {}
  BY <1>7, <1>13 DEF CopiesStayApart
<1> QED
  BY <1>11, <1>12, <1>13 DEF CopiesStayApart

(* No step makes two copies overlap: each takes frames that were free.     *)
LEMMA ApartStep == TypeOK /\ CopiesStayApart /\ [Next]_vars => CopiesStayApart'
<1> SUFFICES ASSUME TypeOK, CopiesStayApart, [Next]_vars PROVE CopiesStayApart'
  OBVIOUS
<1>0. UNCHANGED <<memory, region>> => CopiesStayApart'
  BY DEF CopiesStayApart, Units
<1>1. CASE LoadKernel
  <2>1. files.kernel \in Kernel
    BY <1>1 DEF TypeOK, LoadKernel, HeaderUsable, HasHeader, IsBzImage
  <2>2. Body(files.kernel) \in Nat
    <3>1. RealModeSize(files.kernel) \in Int
      BY <2>1, ScaleAssumption DEF RealModeSize, Kernel
    <3> QED
      BY <1>1, <2>1, <3>1 DEF LoadKernel, Body, Kernel
  <2> QED
    BY <1>1, <2>2, PlacedWhereFree DEF LoadKernel, Placed
<1>2. CASE LoadInitrd
  BY <1>0, <1>2, PlacedWhereFree DEF LoadInitrd, Placed
<1>3. CASE PlaceCmdline
  <2>1. files.cmdline + 1 \in Nat
    BY DEF TypeOK
  <2> QED
    BY <1>3, <2>1, PlacedWhereFree DEF PlaceCmdline, Placed
<1>4. CASE BuildZeroPage
  BY <1>4, ScaleAssumption, PlacedWhereFree DEF BuildZeroPage, Placed
<1>5. CASE RejectKernel \/ InitrdFails \/ CmdlineFails \/ StackFails \/ PanicOnShortKernel
  BY <1>0, <1>5 DEF RejectKernel, InitrdFails, CmdlineFails, StackFails, Fail, PanicOnShortKernel
<1>6. CASE ExitBootServices \/ ConvertMap \/ Jump \/ UNCHANGED vars
  BY <1>0, <1>6 DEF ExitBootServices, ConvertMap, Jump, vars
<1> QED
  BY <1>1, <1>2, <1>3, <1>4, <1>5, <1>6 DEF Next

(* Nothing that was copied reaches past its pages or into another copy, for*)
(* every page size and every size of the files.                            *)
THEOREM CopiesDoNotCollide == Spec => []CopiesStayApart
<1>1. Init => CopiesStayApart
  BY DEF Init, CopiesStayApart, Units
<1> QED
  BY <1>1, TypeInit, TypeStep, ApartStep, PTL DEF Spec
=============================================================================
