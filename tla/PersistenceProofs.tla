--------------------------- MODULE PersistenceProofs -------------------------
(***************************************************************************)
(* What MyBoot keeps for later boots: its place in the boot order and the  *)
(* one-shot request in NVRAM, the boot log on the ESP, and the shell that  *)
(* shows the log.                                                          *)
(*                                                                         *)
(* The repair of BootOrder is proved for every order, of any length and    *)
(* any numbers, with calls that fail and power losses between any two of   *)
(* them.  OrderInv is inductive where OthersKeepTheirOrder is not: it says *)
(* which list each phase of a run holds, and that what it holds is either  *)
(* what other systems left or that with MyBoot at its head.                *)
(*                                                                         *)
(* The log is proved for every history of appends.  LogInv is inductive    *)
(* where PartialWritesAreConfined is not: it says what the parser has read *)
(* at the end of the file, the records and the line it is in the middle    *)
(* of, also when the file is no longer UTF-8.  The shell is proved for     *)
(* every graph and every selector.                                         *)
(*                                                                         *)
(* What the codec, the parser and the other loops compute is proved over   *)
(* their recursive functions with LoopRuns of Lemmas.                      *)
(***************************************************************************)
EXTENDS BootOrder, RecoveryShell, Lemmas, SequenceTheorems, FiniteSetTheorems

-----------------------------------------------------------------------------
(* The codec.                                                              *)

(* A number is the sum of its halves, which are bytes.                     *)
LEMMA Halves ==
  ASSUME NEW n \in U16
  PROVE  /\ n % 256 \in Byte /\ n \div 256 \in Byte
         /\ (n % 256) + 256 * (n \div 256) = n
BY DEF U16, Byte

(* encode_boot_order writes two bytes for each number.                     *)
LEMMA EncodeTyped ==
  ASSUME NEW list \in Seq(U16)
  PROVE  /\ EncodeBootOrder(list) \in Seq(Byte)
         /\ Len(EncodeBootOrder(list)) = 2 * Len(list)
<1>0. Len(list) \in Nat
  OBVIOUS
<1> DEFINE E(i) == IF i % 2 = 1 THEN list[(i + 1) \div 2] % 256 ELSE list[i \div 2] \div 256
<1>1. ASSUME NEW i \in 1..(2 * Len(list))
      PROVE  E(i) \in Byte
  <2>1. CASE i % 2 = 1
    <3> DEFINE k == (i + 1) \div 2
    <3>1. k \in 1..Len(list)
      BY <1>0, <2>1
    <3> HIDE DEF k
    <3>2. list[k] \in U16
      BY <3>1
    <3>3. list[k] % 256 \in Byte
      BY <3>2, Halves
    <3> QED
      BY <2>1, <3>3 DEF k
  <2>2. CASE i % 2 # 1
    <3> DEFINE k == i \div 2
    <3>1. k \in 1..Len(list)
      BY <1>0, <2>2
    <3> HIDE DEF k
    <3>2. list[k] \in U16
      BY <3>1
    <3>3. list[k] \div 256 \in Byte
      BY <3>2, Halves
    <3> QED
      BY <2>2, <3>3 DEF k
  <2> QED
    BY <2>1, <2>2
<1> HIDE DEF E
<1>2. [i \in 1..(2 * Len(list)) |-> E(i)] \in Seq(Byte)
  BY <1>0, <1>1
<1>3. Len([i \in 1..(2 * Len(list)) |-> E(i)]) = 2 * Len(list)
  BY <1>0
<1> QED
  BY <1>2, <1>3 DEF EncodeBootOrder, E

(* Two bytes make a u16.                                                   *)
LEMMA Joined ==
  ASSUME NEW low \in Byte, NEW high \in Byte
  PROVE  low + 256 * high \in U16
BY DEF U16, Byte

(* decode_boot_order reads a number from every two bytes, and leaves out an*)
(* odd last one.                                                           *)
LEMMA DecodeTyped ==
  ASSUME NEW bytes \in Seq(Byte)
  PROVE  /\ DecodeBootOrder(bytes) \in Seq(U16)
         /\ Len(DecodeBootOrder(bytes)) = Len(bytes) \div 2
<1> DEFINE n == Len(bytes) \div 2
<1> DEFINE D(i) == bytes[2 * i - 1] + 256 * bytes[2 * i]
<1>0. Len(bytes) \in Nat /\ n \in Nat
  OBVIOUS
<1>1. ASSUME NEW i \in 1..n PROVE D(i) \in U16
  <2>1. 2 * i - 1 \in 1..Len(bytes) /\ 2 * i \in 1..Len(bytes)
    BY <1>0
  <2>2. bytes[2 * i - 1] \in Byte /\ bytes[2 * i] \in Byte
    BY <2>1
  <2> QED
    BY <2>2, Joined
<1> HIDE DEF n, D
<1>2. [i \in 1..n |-> D(i)] \in Seq(U16) /\ Len([i \in 1..n |-> D(i)]) = n
  BY <1>0, <1>1
<1> QED
  BY <1>2 DEF DecodeBootOrder, n, D

(* What set() stored of a list of option numbers is read back as that      *)
(* list, whatever the numbers (loadopt.rs:92-101).                         *)
LEMMA CodecRoundTrip ==
  ASSUME NEW list \in Seq(U16)
  PROVE  DecodeBootOrder(EncodeBootOrder(list)) = list
<1> DEFINE bytes == EncodeBootOrder(list)
<1>1. bytes \in Seq(Byte) /\ Len(bytes) = 2 * Len(list)
  BY EncodeTyped
<1>2. Len(bytes) \div 2 = Len(list)
  BY <1>1
<1>3. ASSUME NEW i \in 1..Len(list)
      PROVE  bytes[2 * i - 1] + 256 * bytes[2 * i] = list[i]
  <2>1. list[i] \in U16
    BY <1>3
  <2>2. (2 * i - 1) % 2 = 1 /\ (2 * i - 1 + 1) \div 2 = i /\ (2 * i) % 2 # 1 /\ (2 * i) \div 2 = i
    BY <1>3
  <2>3. 2 * i - 1 \in 1..(2 * Len(list)) /\ 2 * i \in 1..(2 * Len(list))
    BY <1>3
  <2>4. bytes[2 * i - 1] = list[i] % 256 /\ bytes[2 * i] = list[i] \div 256
    BY <2>2, <2>3 DEF EncodeBootOrder
  <2> QED
    BY <2>1, <2>4, Halves
<1>4. DecodeBootOrder(bytes) = [i \in 1..Len(list) |-> list[i]]
  BY <1>2, <1>3 DEF DecodeBootOrder
<1> QED
  BY <1>4

-----------------------------------------------------------------------------
(* The loop of desired_with_myboot_first.                                  *)

(* The loop has, for every order, a value after each of its elements: what *)
(* it has pushed so far, none of it MyBoot.                                *)
LEMMA OthersLoop ==
  ASSUME NEW list \in Seq(U16)
  PROVE  \E pushed \in [0..Len(list) -> Seq(U16 \ {MyBoot})] :
            /\ pushed[0] = <<>>
            /\ \A i \in 1..Len(list) :
                 pushed[i] = IF list[i] = MyBoot THEN pushed[i - 1]
                             ELSE Append(pushed[i - 1], list[i])
            /\ Others(list) = pushed[Len(list)]
<1> DEFINE Rest == Seq(U16 \ {MyBoot})
<1> DEFINE Push(out, i) == IF list[i] = MyBoot THEN out ELSE Append(out, list[i])
<1> DEFINE body == [i \in 1..Len(list) |-> [out \in Rest |-> Push(out, i)]]
<1>0. Len(list) \in Nat
  OBVIOUS
<1>1. ASSUME NEW out \in Rest, NEW i \in 1..Len(list) PROVE Push(out, i) \in Rest
  <2>1. list[i] \in U16
    OBVIOUS
  <2> QED
    BY <2>1
<1>2. <<>> \in Rest
  OBVIOUS
<1> HIDE DEF Push, Rest
<1>3. body \in [1..Len(list) -> [Rest -> Rest]]
  BY <1>1
<1>4. PICK f \in [0..Len(list) -> Rest] :
         f[0] = <<>> /\ \A i \in 1..Len(list) : f[i] = Push(f[i - 1], i)
  <2>1. PICK f \in [0..Len(list) -> Rest] :
           f[0] = <<>> /\ \A i \in 1..Len(list) : f[i] = body[i][f[i - 1]]
    <3>1. body \in Bodies(Len(list), Rest)
      BY <1>3 DEF Bodies
    <3> HIDE DEF body
    <3>2. \E run : IsRun(run, Len(list), Rest, <<>>, body)
      BY <1>0, <1>2, <3>1, LoopRuns
    <3> QED
      BY <3>2 DEF IsRun
  <2>2. ASSUME NEW i \in 1..Len(list) PROVE f[i] = Push(f[i - 1], i)
    <3>1. f[i - 1] \in Rest
      BY <1>0, <2>1
    <3>2. body[i][f[i - 1]] = Push(f[i - 1], i)
      BY <3>1
    <3> QED
      BY <2>1, <3>2
  <2> QED
    BY <2>1, <2>2
<1> DEFINE Body(h) == [i \in 0..Len(list) |-> IF i = 0 THEN <<>> ELSE Push(h[i - 1], i)]
<1> DEFINE loop == CHOOSE h : h = Body(h)
<1>5. f = Body(f)
  <2>1. \A i \in 0..Len(list) : f[i] = IF i = 0 THEN <<>> ELSE Push(f[i - 1], i)
    BY <1>0, <1>4
  <2> QED
    BY <1>4, <2>1
<1>6. loop = Body(loop)
  <2> HIDE DEF Body
  <2> QED
    BY <1>5
<1>7. Others(list) = loop[Len(list)]
  BY DEF Others, Push
<1>8. loop[Len(list)] = f[Len(list)]
  <2> HIDE DEF loop
  <2> DEFINE Same == {n \in Nat : n <= Len(list) => loop[n] = f[n]}
  <2>1. 0 \in Same
    BY <1>0, <1>4, <1>6
  <2>2. ASSUME NEW n \in Nat, n \in Same PROVE n + 1 \in Same
    <3>1. SUFFICES ASSUME n + 1 <= Len(list) PROVE loop[n + 1] = f[n + 1]
      OBVIOUS
    <3>2. n + 1 \in 1..Len(list) /\ n + 1 # 0 /\ n + 1 - 1 = n /\ loop[n] = f[n]
      BY <1>0, <2>2, <3>1
    <3>3. loop[n + 1] = Push(loop[n], n + 1)
      BY <1>6, <3>2
    <3>4. f[n + 1] = Push(f[n], n + 1)
      BY <1>4, <3>2
    <3> QED
      BY <3>2, <3>3, <3>4
  <2> HIDE DEF Same
  <2>3. Len(list) \in Same
    BY <1>0, <2>1, <2>2, SetInduction
  <2> QED
    BY <1>0, <2>3 DEF Same
<1> HIDE DEF loop
<1>9. Others(list) = f[Len(list)]
  BY <1>7, <1>8
<1> QED
  <2>1. \A i \in 1..Len(list) :
           f[i] = IF list[i] = MyBoot THEN f[i - 1] ELSE Append(f[i - 1], list[i])
    BY <1>4 DEF Push
  <2> USE DEF Rest
  <2> QED
    BY <1>4, <1>9, <2>1

(* The order without MyBoot, and with MyBoot first, is an order.           *)
LEMMA OthersTyped ==
  ASSUME NEW list \in Seq(U16)
  PROVE  /\ Others(list) \in Seq(U16 \ {MyBoot})
         /\ Others(list) \in Seq(U16)
         /\ MyBootFirst(list) \in Seq(U16)
<1>0. MyBoot \in U16
  BY NumbersAssumption
<1>1. Len(list) \in 0..Len(list)
  OBVIOUS
<1>2. Others(list) \in Seq(U16 \ {MyBoot})
  BY <1>1, OthersLoop
<1>3. Others(list) \in Seq(U16)
  BY <1>2
<1>4. <<MyBoot>> \in Seq(U16)
  BY <1>0
<1> QED
  BY <1>2, <1>3, <1>4 DEF MyBootFirst

(* Where MyBoot is first already and nowhere else, the loop pushes exactly *)
(* the rest.                                                               *)
LEMMA OthersOfFirst ==
  ASSUME NEW rest \in Seq(U16 \ {MyBoot})
  PROVE  Others(<<MyBoot>> \o rest) = rest
<1> DEFINE list == <<MyBoot>> \o rest
<1> DEFINE Others1(n) == [k \in 1..n |-> rest[k]]
<1>1. /\ list \in Seq(U16) /\ Len(list) = Len(rest) + 1 /\ Len(rest) \in Nat
      /\ list[1] = MyBoot
  BY NumbersAssumption
<1>2. ASSUME NEW n \in 1..Len(rest) PROVE list[n + 1] = rest[n] /\ rest[n] \in U16 \ {MyBoot}
  OBVIOUS
<1> HIDE DEF list
<1>3. PICK pushed \in [0..Len(list) -> Seq(U16 \ {MyBoot})] :
         /\ pushed[0] = <<>>
         /\ \A i \in 1..Len(list) :
              pushed[i] = IF list[i] = MyBoot THEN pushed[i - 1]
                          ELSE Append(pushed[i - 1], list[i])
         /\ Others(list) = pushed[Len(list)]
  BY <1>1, OthersLoop
<1> DEFINE Same == {n \in Nat : n <= Len(rest) => pushed[n + 1] = Others1(n)}
<1>4. 0 \in Same
  <2>1. 1 \in 1..Len(list)
    BY <1>1
  <2>2. pushed[1] = <<>>
    BY <1>1, <1>3, <2>1
  <2> QED
    BY <2>2
<1>5. ASSUME NEW n \in Nat, n \in Same PROVE n + 1 \in Same
  <2>1. SUFFICES ASSUME n + 1 <= Len(rest) PROVE pushed[n + 2] = Others1(n + 1)
    OBVIOUS
  <2>2. n + 2 \in 1..Len(list) /\ n + 1 \in 1..Len(rest) /\ n + 2 - 1 = n + 1 /\ n <= Len(rest)
    BY <1>1, <2>1
  <2>3. list[n + 2] = rest[n + 1] /\ rest[n + 1] # MyBoot
    <3>1. list[(n + 1) + 1] = rest[n + 1] /\ rest[n + 1] \in U16 \ {MyBoot}
      BY <1>2, <2>2
    <3> QED
      BY <3>1
  <2>4. pushed[n + 2] = Append(pushed[n + 1], rest[n + 1])
    <3> DEFINE i == n + 2
    <3>1. i \in 1..Len(list) /\ i - 1 = n + 1 /\ list[i] = rest[n + 1] /\ list[i] # MyBoot
      BY <2>2, <2>3
    <3> HIDE DEF i
    <3>2. pushed[i] = Append(pushed[i - 1], list[i])
      BY <1>3, <3>1
    <3> QED
      BY <3>1, <3>2 DEF i
  <2>5. pushed[n + 1] = Others1(n)
    BY <1>5, <2>2
  <2>6. Append(Others1(n), rest[n + 1]) = Others1(n + 1)
    OBVIOUS
  <2> QED
    BY <2>4, <2>5, <2>6
<1> HIDE DEF Same
<1>6. Len(rest) \in Same
  BY <1>1, <1>4, <1>5, SetInduction
<1>7. pushed[Len(list)] = Others1(Len(rest))
  BY <1>1, <1>6 DEF Same
<1>8. Others1(Len(rest)) = rest
  OBVIOUS
<1> QED
  BY <1>3, <1>7, <1>8 DEF list

(* Once MyBoot is first, the wanted order is the order: reconciling again  *)
(* plans nothing.                                                          *)
LEMMA MyBootFirstSettles ==
  ASSUME NEW list \in Seq(U16)
  PROVE  MyBootFirst(MyBootFirst(list)) = MyBootFirst(list)
<1>1. Others(MyBootFirst(list)) = Others(list)
  BY OthersTyped, OthersOfFirst DEF MyBootFirst
<1> QED
  BY <1>1 DEF MyBootFirst

-----------------------------------------------------------------------------
(* The invariant.                                                          *)

\* What BootOrder lists now.
Current == OptionsOf(ReadBootOrder)

Kept(list) == list = left \/ list = MyBootFirst(left)

\* A request that is still stored was not honoured yet.
OnceInv ==
  /\ fired <= 1
  /\ oneShot \in Entries => fired = 0
  /\ phase = "taking" => oneShot \in Entries

\* Unless a read went wrong, what MyBoot holds goes back to the order it found.
OrderInv ==
  misread \/
  /\ Kept(Current)
  /\ phase # "off" => Kept(before)
  /\ phase \in {"taking", "taken", "desired", "planned"} => Current = before
  /\ phase \in {"desired", "planned", "applied", "failed"} => desired = MyBootFirst(before)
  /\ phase \in {"planned", "applied", "failed"} => /\ OptionsOf(plan.snapshot) = before
                                                 /\ plan.step \in {Absent, desired}
  /\ phase = "restored" => Current = before

(* Whatever bytes BootOrder holds, they are read as an order.              *)
LEMMA CurrentTyped ==
  ASSUME order \in Seq(Byte) \cup {Absent}
  PROVE  /\ Current \in Seq(U16)
         /\ ReadBootOrder \in Seq(U16) \cup {Absent}
  BY DecodeTyped DEF Current, OptionsOf, ReadBootOrder

(* A write of a list that goes through is read back as that list.          *)
LEMMA StoreReads ==
  ASSUME NEW list \in Seq(U16), Store(EncodeBootOrder(list))
  PROVE  /\ order' \in Seq(Byte) \cup {Absent}
         /\ Current' = list
<1>1. EncodeBootOrder(list) \in Seq(Byte) /\ Len(EncodeBootOrder(list)) = 2 * Len(list)
  BY EncodeTyped
<1>2. CASE EncodeBootOrder(list) = <<>>
  <2>1. order' = Absent /\ list = <<>>
    BY <1>1, <1>2 DEF Store
  <2> QED
    BY <2>1 DEF Current, ReadBootOrder, OptionsOf
<1>3. CASE EncodeBootOrder(list) # <<>>
  <2>1. order' = EncodeBootOrder(list)
    BY <1>3 DEF Store
  <2>2. order' # Absent /\ list # Absent
    BY <1>1, <2>1, NothingAssumption
  <2> QED
    BY <1>1, <2>1, <2>2, CodecRoundTrip DEF Current, ReadBootOrder, OptionsOf
<1> QED
  BY <1>2, <1>3

(* At the start everything has its type.                                   *)
LEMMA TypeInit == Init => TypeOK
<1> SUFFICES ASSUME Init PROVE TypeOK
  OBVIOUS
<1>1. order \in Seq(Byte) \cup {Absent}
  BY ForeignAssumption DEF Init
<1>2. left \in Seq(U16)
  BY <1>1, CurrentTyped DEF Init, Current
<1>3. misread \in BOOLEAN
  BY Zenon DEF Init
<1> QED
  BY <1>1, <1>2, <1>3, BoundsAssumption DEF Init, TypeOK

(* No call, no power loss and no other system leaves the types.            *)
LEMMA TypeStep == TypeOK /\ [Next]_vars => TypeOK'
<1> SUFFICES ASSUME TypeOK, [Next]_vars PROVE TypeOK'
  OBVIOUS
<1> USE DEF TypeOK, nvram, caller, bounds, history, CallFails
<1>1. CASE Drift
  <2>1. order' \in Seq(Byte) \cup {Absent}
    BY <1>1, ForeignAssumption DEF Drift
  <2>2. left' \in Seq(U16)
    BY <1>1, <2>1, DecodeTyped DEF Drift, OptionsOf
  <2>3. misread' \in BOOLEAN
    BY <1>1, Zenon DEF Drift
  <2> QED
    BY <1>1, <2>1, <2>2, <2>3 DEF Drift
<1>2. CASE SetOneShot
  BY <1>2 DEF SetOneShot
<1>3. CASE ReadOneShot
  <2>1. before' \in Seq(U16)
    BY <1>3, CurrentTyped DEF ReadOneShot, Current
  <2> QED
    BY <1>3, <2>1 DEF ReadOneShot
<1>4. CASE DeleteOneShot
  BY <1>4 DEF DeleteOneShot
<1>5. CASE Desire
  <2>1. PICK actual \in {ReadBootOrder, Absent} :
           Read(actual) /\ desired' = MyBootFirst(OptionsOf(actual))
    BY <1>5 DEF Desire
  <2>2. OptionsOf(actual) \in Seq(U16)
    BY CurrentTyped DEF OptionsOf
  <2>3. desired' \in Seq(U16)
    BY <2>1, <2>2, OthersTyped
  <2>4. faults' \in Nat
    BY <2>1 DEF Read
  <2>5. misread' \in BOOLEAN
    BY <2>1, Zenon DEF Read
  <2> QED
    BY <1>5, <2>3, <2>4, <2>5 DEF Desire
<1>6. CASE Plan
  <2>1. PICK actual \in {ReadBootOrder, Absent} :
           /\ Read(actual)
           /\ plan' = [step |-> IF desired = OptionsOf(actual) THEN Absent ELSE desired,
                       snapshot |-> actual]
    BY <1>6 DEF Plan
  <2>2. actual \in Seq(U16) \cup {Absent}
    BY CurrentTyped
  <2>3. plan' \in [step : Seq(U16) \cup {Absent}, snapshot : Seq(U16) \cup {Absent}]
    BY <2>1, <2>2
  <2>4. faults' \in Nat
    BY <2>1 DEF Read
  <2>5. misread' \in BOOLEAN
    BY <2>1, Zenon DEF Read
  <2> QED
    BY <1>6, <2>3, <2>4, <2>5 DEF Plan
<1>7. CASE Apply
  <2>1. order' \in Seq(Byte) \cup {Absent}
    <3>1. CASE plan.step # Absent /\ Store(EncodeBootOrder(plan.step))
      BY <3>1, StoreReads
    <3> QED
      BY <1>7, <3>1 DEF Apply
  <2> QED
    BY <1>7, <2>1 DEF Apply
<1>8. CASE Verify
  BY <1>8 DEF Verify
<1>9. CASE Restore
  <2>1. order' \in Seq(Byte) \cup {Absent}
    <3>1. CASE plan.snapshot # Absent /\ Store(EncodeBootOrder(plan.snapshot))
      BY <3>1, StoreReads
    <3> QED
      BY <1>9, <3>1 DEF Restore
  <2> QED
    BY <1>9, <2>1 DEF Restore
<1>10. CASE PowerOff
  BY <1>10 DEF PowerOff
<1>11. CASE UNCHANGED vars
  BY <1>11 DEF vars
<1> QED
  BY <1>1, <1>2, <1>3, <1>4, <1>5, <1>6, <1>7, <1>8, <1>9, <1>10, <1>11 DEF Next, Run

(* A request that was honoured is gone, whatever call fails.               *)
LEMMA OnceStep == TypeOK /\ OnceInv /\ [Next]_vars => OnceInv'
<1> SUFFICES ASSUME TypeOK, OnceInv, [Next]_vars PROVE OnceInv'
  OBVIOUS
<1> USE DEF OnceInv, nvram, caller, bounds, history
<1>1. CASE Drift
  BY <1>1 DEF Drift
<1>2. CASE SetOneShot
  BY <1>2 DEF SetOneShot
<1>3. CASE ReadOneShot
  BY <1>3 DEF ReadOneShot
<1>4. CASE DeleteOneShot
  <2>1. Absent \notin Entries
    BY NothingAssumption
  <2> QED
    BY <1>4, <2>1 DEF DeleteOneShot, TypeOK
<1>5. CASE Desire
  BY <1>5 DEF Desire
<1>6. CASE Plan
  BY <1>6 DEF Plan
<1>7. CASE Apply
  BY <1>7 DEF Apply
<1>8. CASE Verify
  BY <1>8 DEF Verify
<1>9. CASE Restore
  BY <1>9 DEF Restore
<1>10. CASE PowerOff
  BY <1>10 DEF PowerOff
<1>11. CASE UNCHANGED vars
  BY <1>11 DEF vars
<1> QED
  BY <1>1, <1>2, <1>3, <1>4, <1>5, <1>6, <1>7, <1>8, <1>9, <1>10, <1>11 DEF Next, Run

(* What MyBoot wants of an order that is kept is a kept order.             *)
LEMMA WantedIsKept ==
  ASSUME TypeOK, Kept(before)
  PROVE  Kept(MyBootFirst(before))
BY MyBootFirstSettles DEF Kept, TypeOK

(* In each phase of a run the order is what other systems left, or that    *)
(* with MyBoot first.                                                      *)
LEMMA OrderStep == TypeOK /\ OrderInv /\ [Next]_vars => OrderInv'
<1> SUFFICES ASSUME TypeOK, OrderInv, [Next]_vars, ~misread' PROVE OrderInv'
  BY DEF OrderInv
<1> USE DEF nvram, caller, bounds, history
<1> DEFINE Same == UNCHANGED <<order, left, before, misread>>
<1>0. ASSUME Same PROVE (Current = Current') /\ (Kept(Current)' = Kept(Current)) /\ (Kept(before)' = Kept(before))
  BY <1>0 DEF Current, OptionsOf, ReadBootOrder, Kept
<1>1. CASE Drift
  <2>1. left' = Current' /\ phase' = "off"
    BY <1>1 DEF Drift, Current, OptionsOf, ReadBootOrder
  <2> QED
    BY <2>1 DEF OrderInv, Kept
<1>2. CASE SetOneShot
  <2>1. Same /\ phase' = phase /\ desired' = desired /\ plan' = plan
    BY <1>2 DEF SetOneShot
  <2> QED
    BY <1>0, <2>1 DEF OrderInv, Kept
<1>3. CASE ReadOneShot
  <2>1. order' = order /\ left' = left /\ misread' = misread /\ phase' \in {"taking", "taken"}
    BY <1>3 DEF ReadOneShot
  <2>2. before' = Current /\ Current' = Current
    BY <1>3, <2>1 DEF ReadOneShot, Current, OptionsOf, ReadBootOrder
  <2> QED
    BY <2>1, <2>2 DEF OrderInv, Kept
<1>4. CASE DeleteOneShot
  <2>1. Same /\ phase = "taking" /\ phase' = "taken"
    BY <1>4 DEF DeleteOneShot
  <2> QED
    BY <1>0, <2>1 DEF OrderInv, Kept
<1>5. CASE Desire
  <2>1. PICK actual \in {ReadBootOrder, Absent} :
           Read(actual) /\ desired' = MyBootFirst(OptionsOf(actual))
    BY <1>5 DEF Desire
  <2>2. Same /\ actual = ReadBootOrder /\ phase = "taken" /\ phase' = "desired"
    BY <1>5, <2>1, ~misread' DEF Desire, Read
  <2>3. desired' = MyBootFirst(before)
    BY <2>1, <2>2 DEF OrderInv, Current
  <2> QED
    BY <1>0, <2>2, <2>3 DEF OrderInv, Kept
<1>6. CASE Plan
  <2>1. PICK actual \in {ReadBootOrder, Absent} :
           /\ Read(actual)
           /\ plan' = [step |-> IF desired = OptionsOf(actual) THEN Absent ELSE desired,
                       snapshot |-> actual]
    BY <1>6 DEF Plan
  <2>2. /\ Same /\ actual = ReadBootOrder /\ desired' = desired
        /\ phase = "desired" /\ phase' = "planned"
    BY <1>6, <2>1, ~misread' DEF Plan, Read
  <2>3. OptionsOf(plan'.snapshot) = before /\ plan'.step \in {Absent, desired}
    BY <2>1, <2>2 DEF OrderInv, Current
  <2> QED
    BY <1>0, <2>2, <2>3 DEF OrderInv, Kept
<1>7. CASE Apply
  <2>1. /\ phase = "planned" /\ left' = left /\ before' = before /\ misread' = misread
        /\ desired' = desired /\ plan' = plan
    BY <1>7 DEF Apply
  <2>2. Kept(before) /\ Current = before /\ desired = MyBootFirst(before)
    BY <2>1 DEF OrderInv
  <2>3. CASE order' = order /\ phase' \in {"done", "failed"}
    BY <1>0, <2>1, <2>2, <2>3 DEF OrderInv, Kept
  <2>4. CASE plan.step # Absent /\ Store(EncodeBootOrder(plan.step)) /\ phase' = "applied"
    <3>1. plan.step = desired
      BY <2>1, <2>4 DEF OrderInv
    <3>2. Current' = MyBootFirst(before)
      BY <2>2, <2>4, <3>1, StoreReads DEF TypeOK
    <3>3. Kept(MyBootFirst(before))
      BY <2>2, WantedIsKept
    <3> QED
      BY <2>1, <2>2, <2>4, <3>2, <3>3 DEF OrderInv, Kept
  <2> QED
    BY <1>7, <2>3, <2>4 DEF Apply
<1>8. CASE Verify
  <2>1. /\ Same /\ phase = "applied" /\ phase' \in {"done", "failed"}
        /\ desired' = desired /\ plan' = plan
    BY <1>8 DEF Verify
  <2> QED
    BY <1>0, <2>1 DEF OrderInv, Kept
<1>9. CASE Restore
  <2>1. /\ phase = "failed" /\ left' = left /\ before' = before /\ misread' = misread
    BY <1>9 DEF Restore
  <2>2. Kept(before) /\ Kept(Current) /\ OptionsOf(plan.snapshot) = before
    BY <2>1 DEF OrderInv
  <2>3. CASE order' = order /\ phase' = "done"
    BY <1>0, <2>1, <2>2, <2>3 DEF OrderInv, Kept
  <2>4. CASE plan.snapshot = Absent /\ order' = Absent /\ phase' = "restored"
    <3>1. Current' = before
      BY <2>2, <2>4 DEF Current, OptionsOf, ReadBootOrder
    <3> QED
      BY <2>1, <2>2, <2>4, <3>1 DEF OrderInv, Kept
  <2>5. CASE plan.snapshot # Absent /\ Store(EncodeBootOrder(plan.snapshot)) /\ phase' = "restored"
    <3>1. plan.snapshot \in Seq(U16) /\ plan.snapshot = before
      BY <2>2, <2>5 DEF TypeOK, OptionsOf
    <3>2. Current' = before
      BY <2>5, <3>1, StoreReads
    <3> QED
      BY <2>1, <2>2, <2>5, <3>2 DEF OrderInv, Kept
  <2> QED
    BY <1>9, <2>3, <2>4, <2>5 DEF Restore
<1>10. CASE PowerOff
  <2>1. Same /\ phase' = "off"
    BY <1>10 DEF PowerOff
  <2> QED
    BY <1>0, <2>1 DEF OrderInv, Kept
<1>11. CASE UNCHANGED vars
  <2>1. Same /\ phase' = phase /\ desired' = desired /\ plan' = plan
    BY <1>11 DEF vars
  <2> QED
    BY <1>0, <2>1 DEF OrderInv, Kept
<1> QED
  BY <1>1, <1>2, <1>3, <1>4, <1>5, <1>6, <1>7, <1>8, <1>9, <1>10, <1>11 DEF Next, Run

-----------------------------------------------------------------------------
(* BootOrder's variables keep their types for every firmware state and     *)
(* every bound; what set() stores are bytes.                               *)
THEOREM OrderTypeCorrect == Spec => []TypeOK
<1>1. Init => TypeOK
  BY TypeInit
<1>2. TypeOK /\ [Next]_vars => TypeOK'
  BY TypeStep
<1> QED
  BY <1>1, <1>2, PTL DEF Spec

(* A one-shot request is honoured at most once, whatever calls fail.       *)
THEOREM RequestFiresOnce == Spec => []OneShotFiresOnce
<1>1. Init => OnceInv
  BY NothingAssumption DEF Init, OnceInv
<1>2. TypeOK /\ OnceInv /\ [Next]_vars => OnceInv'
  BY OnceStep
<1>3. OnceInv => OneShotFiresOnce
  BY DEF OnceInv, OneShotFiresOnce
<1> QED
  BY <1>1, <1>2, <1>3, OrderTypeCorrect, PTL DEF Spec

(* OrderInv holds throughout.                                              *)
LEMMA OrderInvariant == Spec => []OrderInv
<1>1. Init => OrderInv
  BY DEF Init, OrderInv, Kept, Current
<1>2. TypeOK /\ OrderInv /\ [Next]_vars => OrderInv'
  BY OrderStep
<1> QED
  BY <1>1, <1>2, OrderTypeCorrect, PTL DEF Spec

(* No option is lost and the others keep their order, for every order, any *)
(* option numbers, whatever writes fail and whenever the power goes.       *)
THEOREM NoOptionIsLost == Spec => []OthersKeepTheirOrder
<1>1. TypeOK /\ OrderInv => OthersKeepTheirOrder
  <2> SUFFICES ASSUME TypeOK, Kept(Current) PROVE OthersKeepTheirOrder
    BY DEF OrderInv, OthersKeepTheirOrder
  <2>1. CASE Current = left
    BY <2>1 DEF OthersKeepTheirOrder, Current
  <2>2. CASE Current = MyBootFirst(left)
    <3>1. Others(left) \in Seq(U16)
      BY OthersTyped DEF TypeOK
    <3>2. /\ MyBootFirst(left) # <<>> /\ Head(MyBootFirst(left)) = MyBoot
          /\ Tail(MyBootFirst(left)) = Others(left)
      BY <3>1, NumbersAssumption DEF MyBootFirst
    <3> QED
      BY <2>2, <3>2 DEF OthersKeepTheirOrder, Current
  <2> QED
    BY <2>1, <2>2 DEF Kept
<1> QED
  BY <1>1, OrderTypeCorrect, OrderInvariant, PTL

(* A restore that goes through leaves the order this run of MyBoot found.  *)
THEOREM RestoreIsExact == Spec => []RestoreUndoes
<1>1. OrderInv => RestoreUndoes
  BY DEF OrderInv, RestoreUndoes, Current
<1> QED
  BY <1>1, OrderInvariant, PTL

-----------------------------------------------------------------------------
(* The repair of the boot order.                                           *)

MyBootLeads(list) == list # <<>> /\ Head(list) = MyBoot

(* What a run wants has MyBoot first, whatever it read; and when it plans  *)
(* no write, or has written, BootOrder is what it wants.                   *)
RepairInv ==
  /\ phase \in {"desired", "planned", "applied"} => MyBootLeads(desired)
  /\ phase = "planned" => \/ plan.step = desired
                          \/ plan.step = Absent /\ Current = desired
  /\ phase = "applied" => plan.step = desired /\ Current = desired

(* A run ends, and had nothing to restore.                                 *)
RunEndsWell == phase \in {"planned", "applied"} /\ phase' = "done"

(* MyBoot was first and is not any more.                                   *)
PlaceIsLost == MyBootLeads(Current) /\ ~MyBootLeads(Current')

(* The order that is wanted has MyBoot first.                              *)
LEMMA WantedLeads ==
  ASSUME NEW list \in Seq(U16)
  PROVE  MyBootLeads(MyBootFirst(list))
BY OthersTyped, NumbersAssumption DEF MyBootLeads, MyBootFirst

(* Each step keeps that, and loses MyBoot's place only where another       *)
(* system writes or an order is restored.                                  *)
LEMMA RepairStep ==
  TypeOK /\ RepairInv /\ [Next]_vars =>
    /\ RepairInv'
    /\ RunEndsWell => MyBootLeads(Current')
    /\ PlaceIsLost => Drift \/ Restore
<1> SUFFICES ASSUME TypeOK, RepairInv, [Next]_vars
             PROVE  /\ RepairInv'
                    /\ RunEndsWell => MyBootLeads(Current')
                    /\ PlaceIsLost => Drift \/ Restore
  OBVIOUS
<1> USE DEF nvram, caller, bounds, history, RunEndsWell, PlaceIsLost
<1>0. order' = order => Current' = Current /\ ReadBootOrder' = ReadBootOrder
  BY DEF Current, OptionsOf, ReadBootOrder
<1>1. CASE Drift
  BY <1>1 DEF Drift, RepairInv
<1>2. CASE SetOneShot \/ ReadOneShot \/ DeleteOneShot \/ PowerOff
  <2>1. order' = order /\ (phase' \notin {"desired", "planned", "applied", "done"})
    BY <1>2 DEF SetOneShot, ReadOneShot, DeleteOneShot, PowerOff
  <2> QED
    BY <1>0, <2>1 DEF RepairInv
<1>3. CASE Desire
  <2>1. PICK actual \in {ReadBootOrder, Absent} :
           Read(actual) /\ desired' = MyBootFirst(OptionsOf(actual))
    BY <1>3 DEF Desire
  <2>2. OptionsOf(actual) \in Seq(U16)
    BY CurrentTyped DEF TypeOK, OptionsOf
  <2>3. MyBootLeads(desired')
    BY <2>1, <2>2, WantedLeads
  <2>4. order' = order /\ phase' = "desired"
    BY <1>3 DEF Desire
  <2> QED
    BY <1>0, <2>3, <2>4 DEF RepairInv
<1>4. CASE Plan
  <2>1. PICK actual \in {ReadBootOrder, Absent} :
           /\ Read(actual)
           /\ plan' = [step |-> IF desired = OptionsOf(actual) THEN Absent ELSE desired,
                       snapshot |-> actual]
    BY <1>4 DEF Plan
  <2>2. /\ order' = order /\ desired' = desired
        /\ phase = "desired" /\ phase' = "planned"
    BY <1>4 DEF Plan
  <2>3. MyBootLeads(desired)
    BY <2>2 DEF RepairInv
  <2>4. desired = OptionsOf(actual) => desired = Current
    <3>1. actual = Absent => OptionsOf(actual) = <<>>
      BY DEF OptionsOf
    <3> QED
      BY <2>1, <2>3, <3>1 DEF MyBootLeads, Current
  <2> QED
    BY <1>0, <2>1, <2>2, <2>3, <2>4 DEF RepairInv
<1>5. CASE Apply
  <2>1. /\ phase = "planned" /\ desired' = desired /\ plan' = plan
        /\ MyBootLeads(desired)
    BY <1>5 DEF Apply, RepairInv
  <2>2. CASE plan.step = Absent /\ order' = order /\ phase' = "done"
    <3>1. desired # Absent
      BY NothingAssumption DEF TypeOK
    <3>2. Current' = desired
      BY <1>0, <2>1, <2>2, <3>1 DEF RepairInv
    <3> QED
      BY <2>1, <2>2, <3>2 DEF RepairInv
  <2>3. CASE plan.step # Absent /\ Store(EncodeBootOrder(plan.step)) /\ phase' = "applied"
    <3>1. plan.step = desired
      BY <2>1, <2>3 DEF RepairInv
    <3>2. Current' = desired
      BY <2>3, <3>1, StoreReads DEF TypeOK
    <3> QED
      BY <2>1, <2>3, <3>1, <3>2 DEF RepairInv
  <2>4. CASE order' = order /\ phase' = "failed"
    BY <1>0, <2>4 DEF RepairInv
  <2> QED
    BY <1>5, <2>2, <2>3, <2>4 DEF Apply
<1>6. CASE Verify
  <2>1. /\ phase = "applied" /\ order' = order /\ phase' \in {"done", "failed"}
        /\ MyBootLeads(Current)
    BY <1>6 DEF Verify, RepairInv
  <2> QED
    BY <1>0, <2>1 DEF RepairInv
<1>7. CASE Restore
  <2>1. phase = "failed" /\ phase' \in {"restored", "done"}
    BY <1>7 DEF Restore
  <2> QED
    BY <1>7, <2>1 DEF RepairInv
<1>8. CASE UNCHANGED vars
  BY <1>0, <1>8 DEF vars, RepairInv
<1> QED
  BY <1>1, <1>2, <1>3, <1>4, <1>5, <1>6, <1>7, <1>8 DEF Next, Run

(* A run that ends without having had to restore leaves MyBoot first,      *)
(* whatever it misread on the way, and MyBoot loses that place only to     *)
(* another system or to a restore: what DriftIsRepaired asks of each run.  *)
THEOREM RunsRepairTheOrder ==
  Spec => /\ [][RunEndsWell => MyBootLeads(Current')]_vars
          /\ [][PlaceIsLost => Drift \/ Restore]_vars
<1>1. Init => RepairInv
  BY DEF Init, RepairInv
<1> QED
  BY <1>1, RepairStep, OrderTypeCorrect, PTL DEF Spec

-----------------------------------------------------------------------------
(* The loop over the symbols of the log.                                   *)

Lines == Seq(Symbol)
Readings == [shown : Seq({Fields(l) : l \in Lines}), line : Lines]
StartOfFile == [shown |-> <<>>, line |-> <<>>]

(* A loop that has read a symbol is still such a reading.                  *)
LEMMA ReadSymbolTyped ==
  ASSUME NEW reading \in Readings, NEW x \in Symbol
  PROVE  ReadSymbol(reading, x) \in Readings
<1> DEFINE F == {Fields(l) : l \in Lines}
<1>1. Shown(reading) \in Seq(F)
  <2>1. reading.shown \in Seq(F) /\ Fields(reading.line) \in F
    BY DEF Readings
  <2> HIDE DEF F
  <2> QED BY <2>1 DEF Shown
<1>2. Append(reading.line, x) \in Lines /\ <<>> \in Lines
  BY DEF Readings, Lines
<1>3. reading = [shown |-> reading.shown, line |-> reading.line]
  BY DEF Readings
<1> HIDE DEF F
<1>4. Readings = [shown : Seq(F), line : Lines]
  BY DEF Readings, F
<1> QED BY <1>1, <1>2, <1>3, <1>4 DEF ReadSymbol

(* The loop goes through the symbols one by one.                           *)
LEMMA ReadingLoop ==
  ASSUME NEW s \in Lines
  PROVE  \E read : /\ read[0] = StartOfFile
                   /\ \A i \in 1..Len(s) : read[i] = ReadSymbol(read[i - 1], s[i])
                   /\ Reading(s) = read[Len(s)]
<1> DEFINE n == Len(s)
           body == [i \in 1..n |-> [reading \in Readings |-> ReadSymbol(reading, s[i])]]
           Body(h) == [i \in 0..n |-> IF i = 0 THEN StartOfFile ELSE ReadSymbol(h[i - 1], s[i])]
           loop == CHOOSE h : h = Body(h)
<1>1. n \in Nat /\ \A i \in 1..n : s[i] \in Symbol
  BY DEF Lines
<1>2. StartOfFile \in Readings
  BY DEF StartOfFile, Readings, Lines
<1>3. body \in Bodies(n, Readings)
  BY <1>1, ReadSymbolTyped DEF Bodies
<1>4. PICK f : IsRun(f, n, Readings, StartOfFile, body)
  <2> HIDE DEF body, n
  <2> QED BY <1>1, <1>2, <1>3, LoopRuns
<1>5. f = Body(f)
  <2>1. f \in [0..n -> Readings] /\ f[0] = StartOfFile
    BY <1>4 DEF IsRun
  <2>2. ASSUME NEW i \in 0..n, i # 0 PROVE f[i] = ReadSymbol(f[i - 1], s[i])
    <3>1. i \in 1..n /\ i - 1 \in 0..n
      BY <1>1, <2>2
    <3>2. f[i] = body[i][f[i - 1]] /\ f[i - 1] \in Readings
      BY <1>4, <2>1, <3>1 DEF IsRun
    <3> QED BY <3>1, <3>2
  <2> HIDE DEF body
  <2> QED BY <2>1, <2>2
<1>6. loop = Body(loop)
  <2> HIDE DEF Body
  <2> QED BY <1>5
<1>7. Reading(s) = loop[n]
  BY DEF Reading, StartOfFile
<1> HIDE DEF loop
<1>8. loop[0] = StartOfFile /\ \A i \in 1..n : loop[i] = ReadSymbol(loop[i - 1], s[i])
  BY <1>1, <1>6
<1> QED BY <1>7, <1>8

(* What is read of a file does not depend on what is behind it.            *)
LEMMA ReadingOnwards ==
  /\ Reading(<<>>) = StartOfFile
  /\ \A s \in Lines : Reading(s) \in Readings
  /\ \A s \in Lines, x \in Symbol : Reading(Append(s, x)) = ReadSymbol(Reading(s), x)
<1>1. Reading(<<>>) = StartOfFile
  <2>1. <<>> \in Lines /\ Len(<<>>) = 0
    BY DEF Lines
  <2> QED BY <2>1, ReadingLoop
<1>2. ASSUME NEW s \in Lines PROVE Reading(s) \in Readings
  <2>1. PICK f : /\ f[0] = StartOfFile
                 /\ \A i \in 1..Len(s) : f[i] = ReadSymbol(f[i - 1], s[i])
                 /\ Reading(s) = f[Len(s)]
    BY ReadingLoop
  <2>2. Len(s) \in Nat /\ \A i \in 1..Len(s) : s[i] \in Symbol
    BY DEF Lines
  <2> DEFINE Typed == {n \in Nat : n <= Len(s) => f[n] \in Readings}
  <2>3. 0 \in Typed
    <3>1. StartOfFile \in Readings
      BY DEF StartOfFile, Readings, Lines
    <3> QED BY <2>1, <3>1
  <2>4. ASSUME NEW n \in Nat, n \in Typed PROVE n + 1 \in Typed
    <3>1. SUFFICES ASSUME n + 1 <= Len(s) PROVE f[n + 1] \in Readings
      OBVIOUS
    <3>2. n + 1 \in 1..Len(s) /\ n + 1 - 1 = n /\ f[n] \in Readings
      BY <2>2, <2>4, <3>1
    <3> QED BY <2>1, <2>2, <3>2, ReadSymbolTyped
  <2> HIDE DEF Typed
  <2>5. Len(s) \in Typed
    BY <2>2, <2>3, <2>4, SetInduction
  <2> QED BY <2>1, <2>2, <2>5 DEF Typed
<1>3. ASSUME NEW s \in Lines, NEW x \in Symbol
      PROVE  Reading(Append(s, x)) = ReadSymbol(Reading(s), x)
  <2> DEFINE t == Append(s, x)
  <2>1. /\ t \in Lines /\ Len(s) \in Nat /\ Len(t) = Len(s) + 1
        /\ t[Len(s) + 1] = x /\ \A i \in 1..Len(s) : t[i] = s[i]
    BY DEF Lines
  <2> HIDE DEF t
  <2>2. PICK f : /\ f[0] = StartOfFile
                 /\ \A i \in 1..Len(s) : f[i] = ReadSymbol(f[i - 1], s[i])
                 /\ Reading(s) = f[Len(s)]
    BY ReadingLoop
  <2>3. PICK g : /\ g[0] = StartOfFile
                 /\ \A i \in 1..Len(t) : g[i] = ReadSymbol(g[i - 1], t[i])
                 /\ Reading(t) = g[Len(t)]
    BY <2>1, ReadingLoop
  <2> DEFINE Same == {n \in Nat : n <= Len(s) => f[n] = g[n]}
  <2>4. 0 \in Same
    BY <2>2, <2>3
  <2>5. ASSUME NEW n \in Nat, n \in Same PROVE n + 1 \in Same
    <3>1. SUFFICES ASSUME n + 1 <= Len(s) PROVE f[n + 1] = g[n + 1]
      OBVIOUS
    <3>2. n + 1 \in 1..Len(s) /\ n + 1 \in 1..Len(t) /\ n + 1 - 1 = n /\ f[n] = g[n]
      BY <2>1, <2>5, <3>1
    <3>3. t[n + 1] = s[n + 1]
      BY <2>1, <3>2
    <3>4. f[n + 1] = ReadSymbol(f[n], s[n + 1]) /\ g[n + 1] = ReadSymbol(g[n], t[n + 1])
      BY <2>2, <2>3, <3>2
    <3> QED BY <3>2, <3>3, <3>4
  <2> HIDE DEF Same
  <2>6. Len(s) \in Same
    BY <2>1, <2>4, <2>5, SetInduction
  <2>7. f[Len(s)] = g[Len(s)]
    BY <2>1, <2>6 DEF Same
  <2>8. Len(s) + 1 \in 1..Len(t) /\ Len(s) + 1 - 1 = Len(s)
    BY <2>1
  <2> QED BY <2>1, <2>2, <2>3, <2>7, <2>8 DEF t
<1> QED BY <1>1, <1>2, <1>3

(* A part without a newline makes the line longer that is being read.      *)
LEMMA ReadingText ==
  ASSUME NEW s \in Lines, NEW p \in Seq(Symbol \ {Newline})
  PROVE  Reading(s \o p) = [shown |-> Reading(s).shown, line |-> Reading(s).line \o p]
<1> DEFINE part(k) == SubSeq(p, 1, k)
           read(k) == [shown |-> Reading(s).shown, line |-> Reading(s).line \o part(k)]
           Good == {k \in Nat : k <= Len(p) => Reading(s \o part(k)) = read(k)}
<1>1. Len(p) \in Nat /\ p \in Lines
  BY DEF Lines
<1>2. Reading(s) \in Readings
  BY ReadingOnwards
<1>3. /\ Reading(s) = [shown |-> Reading(s).shown, line |-> Reading(s).line]
      /\ Reading(s).line \in Lines
  BY <1>2 DEF Readings
<1>4. 0 \in Good
  <2>1. part(0) = <<>>
    BY SubSeqEmpty
  <2>2. s \o <<>> = s /\ Reading(s).line \o <<>> = Reading(s).line
    BY <1>3, ConcatEmptySeq DEF Lines
  <2> QED BY <1>3, <2>1, <2>2
<1>5. ASSUME NEW k \in Nat, k \in Good PROVE k + 1 \in Good
  <2>1. SUFFICES ASSUME k + 1 <= Len(p) PROVE Reading(s \o part(k + 1)) = read(k + 1)
    OBVIOUS
  <2> DEFINE x == p[k + 1]
  <2>2. k + 1 \in 1..Len(p) /\ k \in 0..Len(p) /\ x \in Symbol /\ x # Newline
    BY <1>1, <2>1
  <2>3. part(k) \in Lines
    BY <2>2 DEF Lines
  <2>4. part(k + 1) = Append(part(k), x)
    <3>1. part(k + 1) = part(k + 1 - 1) \o <<p[k + 1]>>
      BY <2>2, SubSeqRecursiveSecond
    <3>2. k + 1 - 1 = k
      OBVIOUS
    <3>3. Append(part(k), x) = part(k) \o <<x>>
      BY <2>2, <2>3, AppendIsConcat DEF Lines
    <3> QED BY <3>1, <3>2, <3>3
  <2> HIDE DEF part, x
  <2>5. s \o Append(part(k), x) = Append(s \o part(k), x) /\ s \o part(k) \in Lines
    BY <2>2, <2>3 DEF Lines
  <2>6. Reading(s).line \o Append(part(k), x) = Append(Reading(s).line \o part(k), x)
    BY <1>3, <2>2, <2>3 DEF Lines
  <2>7. Reading(s \o part(k)) = read(k)
    BY <1>5, <2>1, <1>1
  <2>8. ReadSymbol(read(k), x) = read(k + 1)
    BY <2>2, <2>4, <2>6 DEF ReadSymbol
  <2> QED BY <2>2, <2>4, <2>5, <2>7, <2>8, ReadingOnwards
<1>6. Len(p) \in Good
  <2> HIDE DEF Good
  <2> QED BY <1>1, <1>4, <1>5, SetInduction
<1>7. part(Len(p)) = p
  BY <1>1, SubSeqFull
<1> HIDE DEF part
<1> QED BY <1>1, <1>6, <1>7

-----------------------------------------------------------------------------
(* The fields of a line.                                                   *)

(* The next tab is the first behind a place.                               *)
LEMMA NextTab ==
  ASSUME NEW line \in Lines, NEW i \in Nat, NEW j \in 1..Len(line), i < j, line[j] = Tab,
         \A k \in 1..Len(line) : i < k /\ k < j => line[k] # Tab
  PROVE  TabAfter(line, i) = j
<1> DEFINE tabs == {k \in DOMAIN line : k > i /\ line[k] = Tab} \cup {Len(line) + 1}
<1>1. Len(line) \in Nat /\ DOMAIN line = 1..Len(line)
  BY DEF Lines
<1>2. j \in tabs /\ tabs \subseteq Nat
  BY <1>1
<1>3. \A k \in tabs : j <= k
  BY <1>1
<1> HIDE DEF tabs
<1>4. Min(tabs) = j
  <2>1. Min(tabs) \in tabs /\ \A k \in tabs : Min(tabs) <= k
    BY <1>2, <1>3 DEF Min
  <2>2. Min(tabs) \in Nat
    BY <1>2, <2>1
  <2> QED BY <1>2, <1>3, <2>1, <2>2
<1> QED BY <1>4 DEF TabAfter, tabs

(* The symbols of a text, and of one behind it.                            *)
LEMMA BehindText ==
  ASSUME NEW s \in Lines, NEW t \in Lines
  PROVE  /\ s \o t \in Lines /\ Len(s \o t) = Len(s) + Len(t)
         /\ \A m \in 1..Len(s) : (s \o t)[m] = s[m]
         /\ \A m \in 1..Len(t) : (s \o t)[Len(s) + m] = t[m]
BY DEF Lines

LEMMA BehindSymbol ==
  ASSUME NEW s \in Lines, NEW x \in Symbol
  PROVE  /\ (s \o <<x>>)[Len(s) + 1] = x
         /\ \A m \in 1..Len(s) : (s \o <<x>>)[m] = s[m]
BY DEF Lines

(* A text is cut out of a line between two places.                         *)
LEMMA PartOfLine ==
  ASSUME NEW line \in Lines, NEW t \in Lines, NEW i \in Nat, NEW n,
         n = i + Len(t), n <= Len(line), \A m \in 1..Len(t) : line[i + m] = t[m]
  PROVE  SubSeq(line, i + 1, n) = t
<1>1. Len(t) \in Nat /\ Len(line) \in Nat /\ t = [m \in 1..Len(t) |-> t[m]]
  BY DEF Lines
<1>2. SubSeq(line, i + 1, n) = [m \in 1..Len(t) |-> line[i + m]]
  <2>1. SubSeq(line, i + 1, n) = [m \in 1..(n - i) |-> line[i + m]]
    BY <1>1 DEF Lines
  <2>2. n - i = Len(t)
    BY <1>1
  <2> QED BY <2>1, <2>2
<1> QED BY <1>1, <1>2

(* Texts without a tab, joined by tabs, are read as the fields they were.  *)
LEMMA FieldsAreRead ==
  ASSUME NEW a \in Seq(Symbol \ {Tab}), NEW b \in Seq(Symbol \ {Tab}),
         NEW c \in Seq(Symbol \ {Tab}), NEW d \in Lines, Tab \in Symbol
  PROVE  LET line == a \o <<Tab>> \o b \o <<Tab>> \o c \o <<Tab>> \o d
         IN /\ line \in Lines
            /\ Fields(line) = <<ValueOf(a), b, c, d>>
            /\ IsRecord(line) <=> IsNumber(a)
<1> DEFINE x == a \o <<Tab>>
           y == x \o b
           z == y \o <<Tab>>
           u == z \o c
           v == u \o <<Tab>>
           line == v \o d
           i == Len(a) + 1
           j == i + Len(b) + 1
           k == j + Len(c) + 1
<1>0. a \in Lines /\ b \in Lines /\ c \in Lines /\ <<Tab>> \in Lines
      /\ Len(<<Tab>>) = 1 /\ <<Tab>>[1] = Tab
  BY DEF Lines
<1>1. /\ Len(a) \in Nat /\ Len(b) \in Nat /\ Len(c) \in Nat /\ Len(d) \in Nat
      /\ i = Len(a) + 1 /\ j = i + Len(b) + 1 /\ k = j + Len(c) + 1
      /\ i \in Nat /\ j \in Nat /\ k \in Nat
  BY DEF Lines
<1>2. /\ \A m \in 1..Len(a) : a[m] # Tab
      /\ \A m \in 1..Len(b) : b[m] # Tab
      /\ \A m \in 1..Len(c) : c[m] # Tab
  OBVIOUS
<1> HIDE DEF i, j, k, x, y, z, u, v, line
<1>3. x \in Lines /\ Len(x) = Len(a) + 1
  BY <1>0, BehindText DEF x
<1>4. y \in Lines /\ Len(y) = Len(x) + Len(b)
  BY <1>0, <1>3, BehindText DEF y
<1>5. z \in Lines /\ Len(z) = Len(y) + 1
  BY <1>0, <1>4, BehindText DEF z
<1>6. u \in Lines /\ Len(u) = Len(z) + Len(c)
  BY <1>0, <1>5, BehindText DEF u
<1>7. v \in Lines /\ Len(v) = Len(u) + 1
  BY <1>0, <1>6, BehindText DEF v
<1>8. line \in Lines /\ Len(line) = Len(v) + Len(d)
  BY <1>7, BehindText DEF line
<1>9. /\ Len(x) = i /\ Len(y) = i + Len(b) /\ Len(z) = j
      /\ Len(u) = j + Len(c) /\ Len(v) = k /\ Len(line) = k + Len(d)
  BY <1>1, <1>3, <1>4, <1>5, <1>6, <1>7, <1>8
<1>10. /\ \A m \in 1..k : line[m] = v[m]
       /\ \A m \in 1..Len(d) : line[k + m] = d[m]
  BY <1>7, <1>9, BehindText DEF line
<1>11. v[k] = Tab /\ \A m \in 1..(k - 1) : v[m] = u[m]
  <2>1. v[Len(u) + 1] = Tab /\ \A m \in 1..Len(u) : v[m] = u[m]
    BY <1>6, BehindSymbol DEF v
  <2>2. Len(u) = k - 1 /\ Len(u) + 1 = k
    BY <1>1, <1>9
  <2> QED BY <2>1, <2>2
<1>12. /\ \A m \in 1..j : u[m] = z[m]
       /\ \A m \in 1..Len(c) : u[j + m] = c[m]
  BY <1>0, <1>5, <1>9, BehindText DEF u
<1>13. z[j] = Tab /\ \A m \in 1..(j - 1) : z[m] = y[m]
  <2>1. z[Len(y) + 1] = Tab /\ \A m \in 1..Len(y) : z[m] = y[m]
    BY <1>4, BehindSymbol DEF z
  <2>2. Len(y) = j - 1 /\ Len(y) + 1 = j
    BY <1>1, <1>9
  <2> QED BY <2>1, <2>2
<1>14. /\ \A m \in 1..i : y[m] = x[m]
       /\ \A m \in 1..Len(b) : y[i + m] = b[m]
  BY <1>0, <1>3, <1>9, BehindText DEF y
<1>15. x[i] = Tab /\ \A m \in 1..(i - 1) : x[m] = a[m]
  <2>1. x[Len(a) + 1] = Tab /\ \A m \in 1..Len(a) : x[m] = a[m]
    BY <1>0, BehindSymbol DEF x
  <2>2. Len(a) = i - 1 /\ Len(a) + 1 = i
    BY <1>1
  <2> QED BY <2>1, <2>2
<1>16. i \in 1..(j - 1) /\ j \in 1..(k - 1) /\ k \in 1..Len(line) /\ k <= Len(line)
  BY <1>1, <1>9
<1>17. /\ \A m \in 1..(i - 1) : line[m] = a[m]
       /\ line[i] = Tab
  <2>1. ASSUME NEW m \in 1..i PROVE line[m] = x[m]
    <3>1. m \in 1..k /\ m \in 1..(k - 1) /\ m \in 1..j /\ m \in 1..(j - 1)
      BY <1>1
    <3>2. line[m] = v[m] /\ v[m] = u[m] /\ u[m] = z[m] /\ z[m] = y[m] /\ y[m] = x[m]
      BY <1>10, <1>11, <1>12, <1>13, <1>14, <3>1
    <3> QED BY <3>2
  <2>2. i \in 1..i /\ \A m \in 1..(i - 1) : m \in 1..i
    BY <1>1
  <2> QED BY <1>15, <2>1, <2>2
<1>18. /\ \A m \in 1..Len(b) : line[i + m] = b[m]
       /\ line[j] = Tab
  <2>1. ASSUME NEW m \in 1..j PROVE line[m] = z[m]
    <3>1. m \in 1..k /\ m \in 1..(k - 1)
      BY <1>1
    <3>2. line[m] = v[m] /\ v[m] = u[m] /\ u[m] = z[m]
      BY <1>10, <1>11, <1>12, <3>1
    <3> QED BY <3>2
  <2>2. ASSUME NEW m \in 1..Len(b) PROVE line[i + m] = b[m]
    <3>1. i + m \in 1..j /\ i + m \in 1..(j - 1)
      BY <1>1
    <3>2. line[i + m] = z[i + m] /\ z[i + m] = y[i + m] /\ y[i + m] = b[m]
      BY <1>13, <1>14, <2>1, <3>1
    <3> QED BY <3>2
  <2>3. j \in 1..j
    BY <1>1
  <2> QED BY <1>13, <2>1, <2>2, <2>3
<1>19. /\ \A m \in 1..Len(c) : line[j + m] = c[m]
       /\ line[k] = Tab
  <2>2. ASSUME NEW m \in 1..Len(c) PROVE line[j + m] = c[m]
    <3>1. j + m \in 1..k /\ j + m \in 1..(k - 1)
      BY <1>1
    <3>2. line[j + m] = v[j + m] /\ v[j + m] = u[j + m] /\ u[j + m] = c[m]
      BY <1>10, <1>11, <1>12, <3>1
    <3> QED BY <3>2
  <2>3. k \in 1..k
    BY <1>1
  <2> QED BY <1>10, <1>11, <2>2, <2>3
<1>20. FirstTab(line) = i
  <2>1. \A m \in 1..Len(line) : 0 < m /\ m < i => line[m] # Tab
    BY <1>1, <1>2, <1>17
  <2>2. i \in 1..Len(line) /\ 0 < i
    BY <1>1, <1>9
  <2> QED BY <1>8, <1>17, <2>1, <2>2, NextTab DEF FirstTab
<1>21. SecondTab(line) = j
  <2>1. ASSUME NEW m \in 1..Len(line), i < m, m < j PROVE line[m] # Tab
    <3>1. m - i \in 1..Len(b) /\ i + (m - i) = m
      BY <1>1, <1>9, <2>1
    <3> QED BY <1>2, <1>18, <3>1
  <2>2. j \in 1..Len(line) /\ i < j /\ i \in Nat
    BY <1>1, <1>9
  <2> QED BY <1>8, <1>18, <1>20, <2>1, <2>2, NextTab DEF SecondTab
<1>22. ThirdTab(line) = k
  <2>1. ASSUME NEW m \in 1..Len(line), j < m, m < k PROVE line[m] # Tab
    <3>1. m - j \in 1..Len(c) /\ j + (m - j) = m
      BY <1>1, <1>9, <2>1
    <3> QED BY <1>2, <1>19, <3>1
  <2>2. k \in 1..Len(line) /\ j < k /\ j \in Nat
    BY <1>1, <1>9
  <2> QED BY <1>8, <1>19, <1>21, <2>1, <2>2, NextTab DEF ThirdTab
<1>23. SubSeq(line, 0 + 1, i - 1) = a
  <2>1. i - 1 = 0 + Len(a) /\ i - 1 <= Len(line) /\ \A m \in 1..Len(a) : line[0 + m] = a[m]
    BY <1>1, <1>9, <1>17
  <2> QED BY <1>0, <1>8, <2>1, PartOfLine
<1>24. SubSeq(line, i + 1, j - 1) = b
  <2>1. j - 1 = i + Len(b) /\ j - 1 <= Len(line) /\ i \in Nat /\ b \in Lines
    BY <1>0, <1>1, <1>9
  <2>2. \A m \in 1..Len(b) : line[i + m] = b[m]
    BY <1>18
  <2> QED BY <1>8, <2>1, <2>2, PartOfLine
<1>25. SubSeq(line, j + 1, k - 1) = c
  <2>1. k - 1 = j + Len(c) /\ k - 1 <= Len(line) /\ j \in Nat /\ c \in Lines
    BY <1>0, <1>1, <1>9
  <2>2. \A m \in 1..Len(c) : line[j + m] = c[m]
    BY <1>19
  <2> QED BY <1>8, <2>1, <2>2, PartOfLine
<1>26. SubSeq(line, k + 1, Len(line)) = d
  <2>1. Len(line) = k + Len(d) /\ Len(line) <= Len(line) /\ k \in Nat /\ d \in Lines
    BY <1>0, <1>1, <1>9
  <2>2. \A m \in 1..Len(d) : line[k + m] = d[m]
    BY <1>10
  <2> QED BY <1>8, <2>1, <2>2, PartOfLine
<1>27. SubSeq(line, 1, i - 1) = a
  BY <1>23
<1>28. Fields(line) = <<ValueOf(a), b, c, d>>
  BY <1>20, <1>21, <1>22, <1>24, <1>25, <1>26, <1>27 DEF Fields
<1>29. IsRecord(line) <=> IsNumber(a)
  BY <1>16, <1>20, <1>22, <1>27 DEF IsRecord
<1>30. line = a \o <<Tab>> \o b \o <<Tab>> \o c \o <<Tab>> \o d
  BY DEF line, v, u, z, y, x
<1> QED BY <1>8, <1>28, <1>29, <1>30

-----------------------------------------------------------------------------
(* The counter of a record.                                                *)

(* A number loses its last digit at each step.                             *)
LEMMA ShiftedSteps ==
  ASSUME NEW n \in Nat
  PROVE  /\ Shifted(n)[0] = n
         /\ \A k \in 1..MaxDigits : Shifted(n)[k] = Shifted(n)[k - 1] \div 10
         /\ \A k \in 0..MaxDigits : Shifted(n)[k] \in Nat
<1> DEFINE body == [k \in 1..MaxDigits |-> [m \in Nat |-> m \div 10]]
           Body(h) == [k \in 0..MaxDigits |-> IF k = 0 THEN n ELSE h[k - 1] \div 10]
           loop == CHOOSE h : h = Body(h)
<1>1. MaxDigits \in Nat
  BY LogBoundsAssumption
<1>2. body \in Bodies(MaxDigits, Nat)
  BY DEF Bodies
<1>3. PICK f : IsRun(f, MaxDigits, Nat, n, body)
  <2> HIDE DEF body
  <2> QED BY <1>1, <1>2, LoopRuns
<1>4. /\ f \in [0..MaxDigits -> Nat] /\ f[0] = n
      /\ \A k \in 1..MaxDigits : f[k] = f[k - 1] \div 10
  <2>1. f \in [0..MaxDigits -> Nat] /\ f[0] = n /\ \A k \in 1..MaxDigits : f[k] = body[k][f[k - 1]]
    BY <1>3 DEF IsRun
  <2>2. \A k \in 1..MaxDigits : f[k - 1] \in Nat
    BY <1>1, <2>1
  <2> QED BY <2>1, <2>2
<1>5. f = Body(f)
  BY <1>1, <1>4
<1>6. loop = Body(loop)
  <2> HIDE DEF Body
  <2> QED BY <1>5
<1>7. Shifted(n) = loop
  BY DEF Shifted
<1> HIDE DEF loop
<1>8. loop[0] = n /\ \A k \in 1..MaxDigits : loop[k] = loop[k - 1] \div 10
  BY <1>1, <1>6
<1> DEFINE Typed == {k \in Nat : k <= MaxDigits => loop[k] \in Nat}
<1>9. 0 \in Typed
  BY <1>8
<1>10. ASSUME NEW k \in Nat, k \in Typed PROVE k + 1 \in Typed
  <2>1. SUFFICES ASSUME k + 1 <= MaxDigits PROVE loop[k + 1] \in Nat
    OBVIOUS
  <2>2. loop[k + 1] = loop[k] \div 10 /\ loop[k] \in Nat
    BY <1>1, <1>8, <1>10, <2>1
  <2> QED BY <2>2
<1>11. Nat \subseteq Typed
  <2> HIDE DEF Typed
  <2> QED BY <1>9, <1>10, SetInduction
<1>12. \A k \in 0..MaxDigits : loop[k] \in Nat
  BY <1>1, <1>11
<1> QED BY <1>7, <1>8, <1>12

(* A smaller number has no more digits.                                    *)
LEMMA SmallerIsShorter ==
  ASSUME NEW m \in Nat, NEW n \in Nat, m <= n, Shifted(n)[MaxDigits] = 0
  PROVE  Shifted(m)[MaxDigits] = 0
<1>1. MaxDigits \in Nat
  BY LogBoundsAssumption
<1> DEFINE AtMostAs == {k \in Nat : k <= MaxDigits => Shifted(m)[k] <= Shifted(n)[k]}
<1>2. 0 \in AtMostAs
  BY ShiftedSteps
<1>3. ASSUME NEW k \in Nat, k \in AtMostAs PROVE k + 1 \in AtMostAs
  <2>1. SUFFICES ASSUME k + 1 <= MaxDigits PROVE Shifted(m)[k + 1] <= Shifted(n)[k + 1]
    OBVIOUS
  <2>2. k + 1 \in 1..MaxDigits /\ k \in 0..MaxDigits /\ k + 1 - 1 = k /\ Shifted(m)[k] <= Shifted(n)[k]
    BY <1>1, <1>3, <2>1
  <2>3. /\ Shifted(m)[k + 1] = Shifted(m)[k] \div 10 /\ Shifted(m)[k] \in Nat
        /\ Shifted(n)[k + 1] = Shifted(n)[k] \div 10 /\ Shifted(n)[k] \in Nat
    BY <2>2, ShiftedSteps
  <2> QED BY <2>2, <2>3
<1> HIDE DEF AtMostAs
<1>4. MaxDigits \in AtMostAs
  BY <1>1, <1>2, <1>3, SetInduction
<1>5. Shifted(m)[MaxDigits] <= Shifted(n)[MaxDigits]
  BY <1>1, <1>4 DEF AtMostAs
<1>6. Shifted(m)[MaxDigits] \in Nat
  BY <1>1, ShiftedSteps
<1> QED BY <1>5, <1>6

(* Parsing takes the digits one by one.                                    *)
LEMMA ValueLoop ==
  ASSUME NEW digits \in Lines, \A i \in 1..Len(digits) : Numeral(digits[i]) \in Nat
  PROVE  \E value : /\ value[0] = 0
                    /\ \A i \in 1..Len(digits) :
                         value[i] = 10 * value[i - 1] + Numeral(digits[i])
                    /\ ValueOf(digits) = value[Len(digits)]
                    /\ \A i \in 0..Len(digits) : value[i] \in Nat
<1> DEFINE n == Len(digits)
           body == [i \in 1..n |-> [m \in Nat |-> 10 * m + Numeral(digits[i])]]
           Body(h) == [i \in 0..n |-> IF i = 0 THEN 0 ELSE 10 * h[i - 1] + Numeral(digits[i])]
           loop == CHOOSE h : h = Body(h)
<1>1. n \in Nat
  BY DEF Lines
<1>2. body \in Bodies(n, Nat)
  BY DEF Bodies
<1>3. PICK f : IsRun(f, n, Nat, 0, body)
  <2> HIDE DEF body, n
  <2> QED BY <1>1, <1>2, LoopRuns
<1>4. /\ f \in [0..n -> Nat] /\ f[0] = 0
      /\ \A i \in 1..n : f[i] = 10 * f[i - 1] + Numeral(digits[i])
  <2>1. f \in [0..n -> Nat] /\ f[0] = 0 /\ \A i \in 1..n : f[i] = body[i][f[i - 1]]
    BY <1>3 DEF IsRun
  <2>2. ASSUME NEW i \in 1..n PROVE f[i - 1] \in Nat
    <3>1. i - 1 \in 0..n
      BY <1>1
    <3> QED BY <2>1, <3>1
  <2> QED BY <2>1, <2>2
<1>5. f = Body(f)
  BY <1>1, <1>4
<1>6. loop = Body(loop)
  <2> HIDE DEF Body
  <2> QED BY <1>5
<1>7. ValueOf(digits) = loop[n]
  BY DEF ValueOf
<1> HIDE DEF loop
<1>8. loop[0] = 0 /\ \A i \in 1..n : loop[i] = 10 * loop[i - 1] + Numeral(digits[i])
  BY <1>1, <1>6
<1> DEFINE Typed == {i \in Nat : i <= n => loop[i] \in Nat}
<1>9. 0 \in Typed
  BY <1>8
<1>10. ASSUME NEW i \in Nat, i \in Typed PROVE i + 1 \in Typed
  <2>1. SUFFICES ASSUME i + 1 <= n PROVE loop[i + 1] \in Nat
    OBVIOUS
  <2>2. i + 1 \in 1..n /\ i + 1 - 1 = i /\ loop[i] \in Nat
    BY <1>1, <1>10, <2>1
  <2>3. loop[i + 1] = 10 * loop[i] + Numeral(digits[i + 1]) /\ Numeral(digits[i + 1]) \in Nat
    BY <1>8, <2>2
  <2> QED BY <2>2, <2>3
<1>11. Nat \subseteq Typed
  <2> HIDE DEF Typed
  <2> QED BY <1>9, <1>10, SetInduction
<1>12. \A i \in 0..n : loop[i] \in Nat
  BY <1>1, <1>11
<1> QED BY <1>7, <1>8, <1>12

(* A digit is read as itself.                                              *)
LEMMA NumeralOfDigit ==
  /\ \A x \in 0..9 : Numeral(Digit[x]) = x
  /\ \A symbol \in Numerals : Numeral(symbol) \in Nat /\ symbol \in Symbol
<1>1. ASSUME NEW x \in 0..9 PROVE Numeral(Digit[x]) = x
  <2>1. \A y \in 0..9 : Digit[y] = Digit[x] => y = x
    BY SymbolsAssumption
  <2> QED BY <2>1 DEF Numeral
<1>2. \A symbol \in Numerals : \E x \in 0..9 : symbol = Digit[x] /\ x \in Nat
  BY DEF Numerals
<1> QED BY <1>1, <1>2, SymbolsAssumption

LEMMA LastDigit ==
  ASSUME NEW n \in Nat
  PROVE  (n % 10) + 10 * (n \div 10) = n
OBVIOUS

(* A number that its counter has room for is read as it was written.       *)
LEMMA NumberIsRead ==
  ASSUME NEW n \in Nat, n <= MaxNumber
  PROVE  /\ Decimal(n) \in Seq(Numerals)
         /\ IsNumber(Decimal(n))
         /\ ValueOf(Decimal(n)) = n
<1> DEFINE w == Width(n)
           rest == Shifted(n)
           d == Decimal(n)
<1>1. MaxDigits \in Nat \ {0} /\ rest[MaxDigits] = 0
  BY LogBoundsAssumption, SmallerIsShorter
<1>2. w \in 1..MaxDigits /\ rest[w] = 0
  <2> DEFINE ends == {k \in Nat : k \in 1..MaxDigits /\ rest[k] = 0}
  <2>1. MaxDigits \in ends
    BY <1>1
  <2>2. PICK k \in ends : \A j \in ends : ~(j < k)
    <3> HIDE DEF ends
    <3>1. ends \subseteq Nat
      BY DEF ends
    <3> QED BY <2>1, <3>1, FirstPosition
  <2>3. \E m \in 1..MaxDigits : rest[m] = 0 /\ \A j \in 1..(m - 1) : rest[j] # 0
    <3>1. k \in 1..MaxDigits /\ rest[k] = 0
      BY <2>2
    <3>2. ASSUME NEW j \in 1..(k - 1) PROVE rest[j] # 0
      <4>1. j \in Nat /\ j \in 1..MaxDigits /\ j < k
        BY <1>1, <3>1
      <4> QED BY <2>2, <4>1
    <3> QED BY <3>1, <3>2
  <2> HIDE DEF rest
  <2> QED BY <2>3 DEF Width, rest
<1>3. /\ rest[0] = n
      /\ \A k \in 1..MaxDigits : rest[k] = rest[k - 1] \div 10
      /\ \A k \in 0..MaxDigits : rest[k] \in Nat
  BY ShiftedSteps
<1>4. d = [i \in 1..w |-> Digit[rest[w - i] % 10]]
  BY DEF Decimal
<1> HIDE DEF w, rest, d
<1>5. \A i \in 1..w : w - i \in 0..MaxDigits /\ rest[w - i] \in Nat /\ rest[w - i] % 10 \in 0..9
  <2>1. ASSUME NEW i \in 1..w PROVE w - i \in 0..MaxDigits
    BY <1>1, <1>2
  <2> QED BY <1>3, <2>1
<1>6. d \in Seq(Numerals) /\ Len(d) = w
  <2>1. d \in [1..w -> Numerals]
    BY <1>4, <1>5 DEF Numerals
  <2> QED BY <1>1, <1>2, <2>1
<1>7. d \in Lines
  BY <1>6, NumeralOfDigit, SeqMonotonic DEF Lines
<1>8. \A i \in 1..w : Numeral(d[i]) = rest[w - i] % 10
  BY <1>4, <1>5, NumeralOfDigit
<1>9. PICK value : /\ value[0] = 0
                   /\ \A i \in 1..w : value[i] = 10 * value[i - 1] + Numeral(d[i])
                   /\ ValueOf(d) = value[w]
  <2>1. \A i \in 1..Len(d) : Numeral(d[i]) \in Nat
    BY <1>6, NumeralOfDigit
  <2> QED BY <1>6, <1>7, <2>1, ValueLoop
<1> DEFINE Good == {i \in Nat : i <= w => value[i] = rest[w - i]}
<1>10. 0 \in Good
  BY <1>1, <1>2, <1>9
<1>11. ASSUME NEW i \in Nat, i \in Good PROVE i + 1 \in Good
  <2>1. SUFFICES ASSUME i + 1 <= w PROVE value[i + 1] = rest[w - (i + 1)]
    OBVIOUS
  <2>2. /\ i + 1 \in 1..w /\ i + 1 - 1 = i /\ w - i \in 1..MaxDigits
        /\ w - i - 1 = w - (i + 1) /\ value[i] = rest[w - i]
    BY <1>1, <1>2, <1>11, <2>1
  <2> DEFINE r == rest[w - (i + 1)]
  <2>3. r \in Nat /\ rest[w - i] = r \div 10 /\ Numeral(d[i + 1]) = r % 10
    BY <1>3, <1>5, <1>8, <2>2
  <2>4. value[i + 1] = 10 * value[i] + Numeral(d[i + 1])
    BY <1>9, <2>2
  <2> HIDE DEF r
  <2>5. (r % 10) + 10 * (r \div 10) = r
    BY <2>3, LastDigit
  <2> QED BY <2>2, <2>3, <2>4, <2>5 DEF r
<1>12. value[w] = n
  <2>1. w \in Nat /\ w - w = 0
    BY <1>1, <1>2
  <2> HIDE DEF Good
  <2>2. w \in Good
    BY <1>10, <1>11, <2>1, SetInduction
  <2> QED BY <1>3, <2>1, <2>2 DEF Good
<1>13. d # <<>> /\ \A i \in DOMAIN d : d[i] \in Numerals
  <2>1. d # <<>>
    BY <1>1, <1>2, <1>6
  <2> QED BY <1>6, <2>1
<1>14. ValueOf(d) <= MaxNumber
  BY <1>9, <1>12
<1> QED BY <1>6, <1>9, <1>12, <1>13, <1>14 DEF d, IsNumber

-----------------------------------------------------------------------------
(* What is read back of the records that were appended.                    *)

Text == Seq(Symbol \ {Tab, Newline})
Logged ==
  [seq : Nat, entry : Text, phase : Text, result : {"confirmed", "failed", "unknown", "none"}]
Attempted == [record : Logged, whole : BOOLEAN]

(* The appends that PartialWritesAreConfined says are read back.           *)
Spared(tried) == {i \in DOMAIN tried : tried[i].whole /\ (i = 1 \/ tried[i - 1].whole)}

ReadInOrder(tried, shown) ==
  \E place \in [Spared(tried) -> DOMAIN shown] :
    /\ \A i, j \in Spared(tried) : i < j => place[i] < place[j]
    /\ \A i \in Spared(tried) : shown[place[i]] = FieldsOf(tried[i].record)

LastWhole(tried) == tried = <<>> \/ tried[Len(tried)].whole

(* A line that is being read was begun by one of the appends, and none of  *)
(* them ended it; after one that went through no line is being read.       *)
LogRead(reading, tried) ==
  /\ Len(reading.shown) <= Len(tried)
  /\ reading.line # <<>> => Len(reading.shown) < Len(tried)
  /\ LastWhole(tried) => reading.line = <<>>
  /\ ReadInOrder(tried, reading.shown)

(* The last of the appends.                                                *)
LEMMA SparedNext ==
  ASSUME NEW tried \in Seq(Attempted), NEW attempt \in Attempted
  PROVE  LET next == Append(tried, attempt)
         IN /\ Len(next) = Len(tried) + 1 /\ next # <<>>
            /\ next[Len(next)] = attempt
            /\ \A i \in DOMAIN tried : next[i] = tried[i]
            /\ Spared(tried) \subseteq DOMAIN tried
            /\ Spared(next) = IF attempt.whole /\ LastWhole(tried)
                              THEN Spared(tried) \cup {Len(next)} ELSE Spared(tried)
<1> DEFINE next == Append(tried, attempt)
           n == Len(tried)
<1>1. n \in Nat /\ DOMAIN tried = 1..n
  OBVIOUS
<1>2. /\ Len(next) = n + 1 /\ DOMAIN next = 1..(n + 1) /\ next # <<>>
      /\ next[n + 1] = attempt /\ \A i \in 1..n : next[i] = tried[i]
  OBVIOUS
<1>3. tried = <<>> <=> n = 0
  OBVIOUS
<1> HIDE DEF next, n
<1>4. ASSUME NEW i \in 1..n PROVE i \in Spared(next) <=> i \in Spared(tried)
  <2>1. i # 1 => i - 1 \in 1..n
    BY <1>1
  <2>2. i \in 1..(n + 1)
    BY <1>1
  <2> QED BY <1>1, <1>2, <2>1, <2>2 DEF Spared
<1>5. n + 1 \in Spared(next) <=> attempt.whole /\ LastWhole(tried)
  <2>1. n + 1 \in 1..(n + 1) /\ n + 1 - 1 = n
    BY <1>1
  <2>2. n + 1 \in Spared(next) <=> attempt.whole /\ (n + 1 = 1 \/ next[n].whole)
    <3> DEFINE k == n + 1
    <3>1. \A i \in DOMAIN next :
            i \in Spared(next) <=> next[i].whole /\ (i = 1 \/ next[i - 1].whole)
      BY Zenon DEF Spared
    <3>2. k \in DOMAIN next /\ k - 1 = n /\ next[k] = attempt
      BY <1>1, <1>2, <2>1
    <3> HIDE DEF k
    <3>3. k \in Spared(next) <=> attempt.whole /\ (k = 1 \/ next[n].whole)
      BY <3>1, <3>2, Zenon
    <3> QED BY <3>3, Zenon DEF k
  <2>3. n # 0 => next[n] = tried[n]
    BY <1>1, <1>2
  <2>4. n + 1 = 1 <=> n = 0
    BY <1>1
  <2> QED BY <1>3, <2>2, <2>3, <2>4 DEF LastWhole, n
<1>6. Spared(next) \subseteq 1..(n + 1) /\ Spared(tried) \subseteq 1..n
  BY <1>1, <1>2 DEF Spared
<1>7. \A i \in 1..(n + 1) : i \in 1..n \/ i = n + 1
  BY <1>1
<1>8. n + 1 \notin 1..n
  BY <1>1
<1>9. Spared(next) = IF attempt.whole /\ LastWhole(tried)
                     THEN Spared(tried) \cup {n + 1} ELSE Spared(tried)
  BY <1>4, <1>5, <1>6, <1>7, <1>8
<1> QED BY <1>1, <1>2, <1>6, <1>9 DEF next, n

(* What is shown behind the records of before leaves them in their order.  *)
LEMMA StillInOrder ==
  ASSUME NEW tried \in Seq(Attempted), NEW attempt \in Attempted,
         ~(attempt.whole /\ LastWhole(tried)),
         NEW shown, NEW more, DOMAIN shown \subseteq DOMAIN more,
         \A i \in DOMAIN shown : more[i] = shown[i], ReadInOrder(tried, shown)
  PROVE  ReadInOrder(Append(tried, attempt), more)
<1> DEFINE next == Append(tried, attempt)
<1>1. /\ Spared(next) = Spared(tried) /\ \A i \in Spared(tried) : next[i] = tried[i]
  BY SparedNext
<1> HIDE DEF next
<1>2. PICK place \in [Spared(tried) -> DOMAIN shown] :
        /\ \A i, j \in Spared(tried) : i < j => place[i] < place[j]
        /\ \A i \in Spared(tried) : shown[place[i]] = FieldsOf(tried[i].record)
  BY DEF ReadInOrder
<1>3. place \in [Spared(next) -> DOMAIN more]
  BY <1>1, <1>2
<1>4. ASSUME NEW i \in Spared(next) PROVE more[place[i]] = FieldsOf(next[i].record)
  BY <1>1, <1>2
<1>5. ReadInOrder(next, more)
  BY <1>1, <1>2, <1>3, <1>4 DEF ReadInOrder
<1> QED BY <1>5 DEF next

(* A spared record is shown behind the ones of before.                     *)
LEMMA NextInOrder ==
  ASSUME NEW tried \in Seq(Attempted), NEW attempt \in Attempted,
         attempt.whole, LastWhole(tried),
         NEW F, NEW shown \in Seq(F), FieldsOf(attempt.record) \in F, ReadInOrder(tried, shown)
  PROVE  ReadInOrder(Append(tried, attempt), Append(shown, FieldsOf(attempt.record)))
<1> DEFINE next == Append(tried, attempt)
           more == Append(shown, FieldsOf(attempt.record))
           n == Len(next)
           m == Len(shown) + 1
<1>1. /\ Spared(next) = Spared(tried) \cup {n}
      /\ \A i \in Spared(tried) : next[i] = tried[i]
      /\ Spared(tried) \subseteq 1..Len(tried) /\ n = Len(tried) + 1 /\ Len(tried) \in Nat
      /\ next[n] = attempt
  <2>1. DOMAIN tried = 1..Len(tried) /\ Len(tried) \in Nat
    OBVIOUS
  <2> QED BY <2>1, SparedNext
<1>2. /\ DOMAIN shown = 1..(m - 1) /\ DOMAIN more = 1..m /\ m \in Nat \ {0}
      /\ more[m] = FieldsOf(attempt.record) /\ \A i \in 1..(m - 1) : more[i] = shown[i]
  OBVIOUS
<1> HIDE DEF next, more, n, m
<1>3. PICK place \in [Spared(tried) -> DOMAIN shown] :
        /\ \A i, j \in Spared(tried) : i < j => place[i] < place[j]
        /\ \A i \in Spared(tried) : shown[place[i]] = FieldsOf(tried[i].record)
  BY DEF ReadInOrder
<1> DEFINE places == [i \in Spared(next) |-> IF i = n THEN m ELSE place[i]]
<1>4. n \notin Spared(tried) /\ \A i \in Spared(tried) : i \in Nat /\ i < n
  BY <1>1
<1>5. \A i \in Spared(tried) : places[i] = place[i] /\ place[i] \in 1..(m - 1)
  BY <1>1, <1>2, <1>3, <1>4
<1>6. places[n] = m
  BY <1>1
<1>7. places \in [Spared(next) -> DOMAIN more]
  <2>1. \A i \in 1..(m - 1) : i \in 1..m
    BY <1>2
  <2>2. m \in 1..m
    BY <1>2
  <2>3. \A i \in Spared(next) : places[i] \in 1..m
    BY <1>1, <1>5, <1>6, <2>1, <2>2
  <2> QED BY <1>2, <2>3
<1> HIDE DEF places
<1>8. ASSUME NEW i \in Spared(next), NEW j \in Spared(next), i < j
      PROVE  places[i] < places[j]
  <2>1. CASE i = n
    <3>1. j \in Nat /\ n \in Nat /\ j <= n
      BY <1>1, <1>4
    <3> QED BY <1>8, <2>1, <3>1
  <2>2. CASE i # n /\ j = n
    <3>1. i \in Spared(tried)
      BY <1>1, <2>2
    <3> QED BY <1>2, <1>5, <1>6, <2>2, <3>1
  <2>3. CASE i # n /\ j # n
    <3>1. i \in Spared(tried) /\ j \in Spared(tried)
      BY <1>1, <2>3
    <3> QED BY <1>3, <1>5, <1>8, <3>1
  <2> QED BY <2>1, <2>2, <2>3
<1>9. ASSUME NEW i \in Spared(next) PROVE more[places[i]] = FieldsOf(next[i].record)
  <2>1. CASE i = n
    BY <1>1, <1>2, <1>6, <2>1
  <2>2. CASE i \in Spared(tried)
    BY <1>1, <1>2, <1>3, <1>5, <2>2
  <2> QED BY <1>1, <2>1, <2>2
<1>10. ReadInOrder(next, more)
  BY <1>7, <1>8, <1>9 DEF ReadInOrder
<1> QED BY <1>10 DEF next, more

(* A file that ends within a line.                                         *)
LEMMA LineGrows ==
  ASSUME NEW tried \in Seq(Attempted), NEW attempt \in Attempted, ~attempt.whole,
         NEW reading \in Readings, LogRead(reading, tried), NEW longer \in Lines
  PROVE  LogRead([shown |-> reading.shown, line |-> longer], Append(tried, attempt))
<1> DEFINE next == Append(tried, attempt)
<1>1. Len(next) = Len(tried) + 1 /\ ~LastWhole(next) /\ Len(tried) \in Nat
  BY SparedNext DEF LastWhole
<1>2. ReadInOrder(next, reading.shown)
  BY StillInOrder DEF LogRead
<1>3. Len(reading.shown) \in Nat /\ Len(reading.shown) <= Len(tried)
  BY DEF Readings, LogRead
<1> HIDE DEF next
<1>4. LogRead([shown |-> reading.shown, line |-> longer], next)
  <2>1. Len(reading.shown) < Len(next)
    BY <1>1, <1>3
  <2>2. Len(reading.shown) <= Len(next)
    BY <1>1, <1>3
  <2> QED BY <1>1, <1>2, <2>1, <2>2 DEF LogRead
<1> QED BY <1>4 DEF next

(* A file that ends with the line of a record, behind what was there.      *)
LEMMA LineEnds ==
  ASSUME NEW tried \in Seq(Attempted), NEW attempt \in Attempted,
         NEW reading \in Readings, LogRead(reading, tried), NEW text \in Lines,
         IsRecord(text), Fields(text) = FieldsOf(attempt.record)
  PROVE  LogRead(ReadSymbol([shown |-> reading.shown, line |-> reading.line \o text], Newline),
                 Append(tried, attempt))
<1> DEFINE next == Append(tried, attempt)
           ended == [shown |-> reading.shown, line |-> reading.line \o text]
           F == {Fields(l) : l \in Lines}
<1>1. Len(next) = Len(tried) + 1 /\ Len(tried) \in Nat
  BY SparedNext
<1>2. reading.line \in Lines /\ reading.shown \in Seq(F) /\ ended \in Readings
  <2>1. reading.line \in Lines /\ reading.shown \in Seq(F)
    BY DEF Readings
  <2>2. reading.line \o text \in Lines
    BY <2>1, BehindText
  <2> HIDE DEF F
  <2>3. Readings = [shown : Seq(F), line : Lines]
    BY DEF Readings, F
  <2> QED BY <2>1, <2>2, <2>3
<1>3. /\ Len(reading.shown) \in Nat /\ Len(reading.shown) <= Len(tried)
      /\ Len(Shown(ended)) <= Len(reading.shown) + 1 /\ Len(Shown(ended)) \in Nat
      /\ DOMAIN reading.shown \subseteq DOMAIN Shown(ended)
      /\ \A i \in DOMAIN reading.shown : Shown(ended)[i] = reading.shown[i]
  <2>1. Len(reading.shown) <= Len(tried) /\ Len(reading.shown) \in Nat
    BY <1>2 DEF LogRead
  <2>2. Fields(ended.line) \in F
    BY <1>2, BehindText
  <2> HIDE DEF F
  <2>3. CASE IsRecord(ended.line)
    <3> DEFINE s == reading.shown
               x == Fields(ended.line)
    <3>1. Shown(ended) = Append(s, x)
      BY <2>3 DEF Shown
    <3>2. s \in Seq(F) /\ x \in F /\ Len(s) \in Nat
      BY <1>2, <2>1, <2>2
    <3> HIDE DEF s, x
    <3>3. /\ Len(Append(s, x)) = Len(s) + 1 /\ DOMAIN s \subseteq DOMAIN Append(s, x)
          /\ \A i \in DOMAIN s : Append(s, x)[i] = s[i]
      BY <3>2
    <3>4. /\ Len(Shown(ended)) <= Len(s) + 1 /\ Len(Shown(ended)) \in Nat
          /\ DOMAIN s \subseteq DOMAIN Shown(ended)
          /\ \A i \in DOMAIN s : Shown(ended)[i] = s[i]
      <4>1. Len(s) + 1 <= Len(s) + 1 /\ Len(s) + 1 \in Nat
        BY <3>2
      <4> HIDE DEF ended
      <4> QED BY <3>1, <3>3, <4>1
    <3> QED BY <2>1, <3>4 DEF s
  <2>4. CASE ~IsRecord(ended.line)
    <3>1. Shown(ended) = reading.shown
      BY <2>4 DEF Shown
    <3>2. Len(reading.shown) <= Len(reading.shown) + 1
      BY <2>1
    <3> QED BY <2>1, <3>1, <3>2
  <2> QED BY <2>3, <2>4
<1>4. ReadSymbol(ended, Newline) = [shown |-> Shown(ended), line |-> <<>>]
  BY DEF ReadSymbol
<1>5. ReadInOrder(next, Shown(ended))
  <2>1. CASE attempt.whole /\ LastWhole(tried)
    <3>1. ended.line = text
      <4>1. reading.line = <<>>
        BY <2>1 DEF LogRead
      <4> QED BY <4>1, ConcatEmptySeq DEF Lines
    <3>2. Shown(ended) = Append(reading.shown, FieldsOf(attempt.record))
      BY <3>1 DEF Shown
    <3>3. FieldsOf(attempt.record) \in F
      OBVIOUS
    <3> HIDE DEF F, next, ended
    <3>4. ReadInOrder(tried, reading.shown)
      BY DEF LogRead
    <3> QED BY <1>2, <2>1, <3>2, <3>3, <3>4, NextInOrder DEF next
  <2>2. CASE ~(attempt.whole /\ LastWhole(tried))
    <3>1. ReadInOrder(tried, reading.shown)
      BY DEF LogRead
    <3> HIDE DEF ended
    <3> QED BY <1>3, <2>2, <3>1, StillInOrder
  <2> QED BY <2>1, <2>2
<1> HIDE DEF next, ended
<1>6. LogRead([shown |-> Shown(ended), line |-> <<>>], next)
  BY <1>1, <1>3, <1>5 DEF LogRead
<1> QED BY <1>4, <1>6 DEF next, ended

(* The texts of records have neither tab nor newline in them.              *)
LEMMA TextsOfRecords ==
  /\ \A r \in Records : r.entry \in Text /\ r.phase \in Text
  /\ {Confirmed, Failed, Dash} \subseteq Text
BY RecordsAssumption DEF IsField, Text

(* A record is one line of text, which is read as the record's fields.     *)
LEMMA RenderedLine ==
  ASSUME NEW record \in Logged, record.seq <= MaxNumber
  PROVE  LET line == RenderUnended(record)
         IN /\ line \in Seq(Symbol \ {Newline}) /\ line \in Lines
            /\ Render(record) = line \o <<Newline>>
            /\ IsRecord(line) /\ Fields(line) = FieldsOf(record)
<1> DEFINE number == Decimal(record.seq)
           word == Word(record.result)
           line == RenderUnended(record)
<1>1. /\ number \in Seq(Numerals) /\ IsNumber(number) /\ ValueOf(number) = record.seq
      /\ record.entry \in Text /\ record.phase \in Text
  <2>1. record.seq \in Nat /\ record.entry \in Text /\ record.phase \in Text
    BY DEF Logged
  <2> QED BY <2>1, NumberIsRead
<1>2. Numerals \subseteq Symbol \ {Tab, Newline} /\ Tab \in Symbol \ {Newline} /\ Newline \in Symbol
  BY SymbolsAssumption, NumeralOfDigit
<1>3. number \in Text
  BY <1>1, <1>2, SeqMonotonic DEF Text
<1>4. word \in Text
  <2>1. word \in {Confirmed, Failed, Dash}
    BY DEF Word
  <2> QED BY <2>1, TextsOfRecords
<1>5. Text \subseteq Seq(Symbol \ {Tab}) /\ Text \subseteq Seq(Symbol \ {Newline}) /\ Text \subseteq Lines
  BY SeqMonotonic DEF Text, Lines
<1> HIDE DEF number, word
<1>6. line = number \o <<Tab>> \o record.entry \o <<Tab>> \o record.phase \o <<Tab>> \o word
  BY DEF RenderUnended, number, word
<1>7. line \in Seq(Symbol \ {Newline})
  <2> DEFINE S == Symbol \ {Newline}
  <2>1. number \in Seq(S) /\ record.entry \in Seq(S) /\ record.phase \in Seq(S) /\ word \in Seq(S)
    BY <1>1, <1>3, <1>4, <1>5
  <2>2. <<Tab>> \in Seq(S)
    BY <1>2
  <2> HIDE DEF S
  <2>3. \A s, t \in Seq(S) : s \o t \in Seq(S)
    BY ConcatProperties
  <2> HIDE DEF line
  <2>4. number \o <<Tab>> \in Seq(S)
    BY <2>1, <2>2, <2>3
  <2>5. number \o <<Tab>> \o record.entry \in Seq(S)
    BY <2>1, <2>3, <2>4
  <2>6. number \o <<Tab>> \o record.entry \o <<Tab>> \in Seq(S)
    BY <2>2, <2>3, <2>5
  <2>7. number \o <<Tab>> \o record.entry \o <<Tab>> \o record.phase \in Seq(S)
    BY <2>1, <2>3, <2>6
  <2>8. number \o <<Tab>> \o record.entry \o <<Tab>> \o record.phase \o <<Tab>> \in Seq(S)
    BY <2>2, <2>3, <2>7
  <2>9. line \in Seq(S)
    BY <1>6, <2>1, <2>3, <2>8
  <2> QED BY <2>9 DEF S, line
<1>8. line \in Lines /\ Fields(line) = <<ValueOf(number), record.entry, record.phase, word>>
      /\ (IsRecord(line) <=> IsNumber(number))
  <2>1. /\ number \in Seq(Symbol \ {Tab}) /\ record.entry \in Seq(Symbol \ {Tab})
        /\ record.phase \in Seq(Symbol \ {Tab}) /\ word \in Lines /\ Tab \in Symbol
    BY <1>1, <1>2, <1>3, <1>4, <1>5
  <2> HIDE DEF line
  <2> QED BY <1>6, <2>1, FieldsAreRead
<1>9. Render(record) = line \o <<Newline>>
  BY DEF Render, RenderUnended
<1>10. FieldsOf(record) = <<ValueOf(number), record.entry, record.phase, word>>
  BY <1>1 DEF FieldsOf, word
<1> HIDE DEF line
<1>11. /\ line \in Seq(Symbol \ {Newline}) /\ line \in Lines
       /\ Render(record) = line \o <<Newline>>
       /\ IsRecord(line) /\ Fields(line) = FieldsOf(record)
  BY <1>1, <1>7, <1>8, <1>9, <1>10
<1> QED BY <1>11 DEF line

-----------------------------------------------------------------------------
(* The log between two appends.                                            *)

LogInv ==
  /\ file \in Lines \cup {NoFile}
  /\ attempts \in Seq(Attempted)
  /\ \E first \in FirstSeqs : seq = first + Len(attempts)
  /\ Len(attempts) <= MaxRecords
  /\ LogRead(Reading(Contents), attempts)

(* The counter has room for one more record.                               *)
LEMMA CounterFits ==
  ASSUME LogInv, Len(attempts) < MaxRecords
  PROVE  /\ Numbered \subseteq Logged
         /\ \A record \in Numbered : record.seq <= MaxNumber
         /\ \E first \in FirstSeqs : seq + 1 = first + (Len(attempts) + 1)
<1>1. PICK first \in FirstSeqs : seq = first + Len(attempts)
  BY DEF LogInv
<1>2. /\ first \in Nat /\ MaxRecords \in Nat /\ Len(attempts) \in Nat
      /\ MaxNumber \in Nat /\ first + MaxRecords <= MaxNumber
  BY LogBoundsAssumption DEF LogInv
<1>3. seq \in Nat /\ seq <= MaxNumber /\ seq + 1 = first + (Len(attempts) + 1)
  BY <1>1, <1>2
<1>5. ASSUME NEW r \in Records
      PROVE  [seq |-> seq, entry |-> r.entry, phase |-> r.phase, result |-> r.result] \in Logged
  <2>1. r.entry \in Text /\ r.phase \in Text
        /\ r.result \in {"confirmed", "failed", "unknown", "none"}
    BY RecordsAssumption, TextsOfRecords
  <2> QED BY <1>3, <2>1 DEF Logged
<1>6. Numbered \subseteq Logged /\ \A record \in Numbered : record.seq = seq
  BY <1>5 DEF Numbered
<1> QED BY <1>3, <1>6

(* A file is longer by what is written at its end.                         *)
LEMMA WrittenAtEnd ==
  ASSUME LogInv, NEW symbols \in Lines, file' = Appended(symbols)
  PROVE  /\ Contents \in Lines /\ Contents' = Contents \o symbols
         /\ file' \in Lines
<1>1. Contents \in Lines
  BY DEF Contents, LogInv, Lines
<1>2. Contents \o symbols \in Lines
  BY <1>1, BehindText
<1>3. Contents \o symbols # NoFile
  BY <1>2, SymbolsAssumption DEF Lines
<1> QED BY <1>1, <1>2, <1>3 DEF Contents, Appended

(* The whole line of a record is appended.                                 *)
LEMMA LineAppended ==
  ASSUME LogInv, NEW record \in Logged, record.seq <= MaxNumber,
         NEW whole \in BOOLEAN, file' = Appended(Render(record))
  PROVE  /\ LogRead(Reading(Contents'), Append(attempts, [record |-> record, whole |-> whole]))
         /\ file' \in Lines
<1> DEFINE line == RenderUnended(record)
           reading == Reading(Contents)
           attempt == [record |-> record, whole |-> whole]
<1>1. /\ line \in Seq(Symbol \ {Newline}) /\ line \in Lines /\ Newline \in Symbol
      /\ Render(record) = line \o <<Newline>>
      /\ IsRecord(line) /\ Fields(line) = FieldsOf(record)
  BY RenderedLine, SymbolsAssumption
<1> HIDE DEF line
<1>2. line \o <<Newline>> \in Lines
  BY <1>1, BehindText DEF Lines
<1>3. Contents \in Lines /\ Contents' = Contents \o (line \o <<Newline>>) /\ file' \in Lines
  BY <1>1, <1>2, WrittenAtEnd
<1>4. Contents' = Append(Contents \o line, Newline) /\ Contents \o line \in Lines
  <2> DEFINE c == Contents
  <2>1. c \in Lines
    BY <1>3
  <2> HIDE DEF c
  <2>2. c \o (line \o <<Newline>>) = Append(c \o line, Newline) /\ c \o line \in Lines
    BY <1>1, <2>1 DEF Lines
  <2> QED BY <1>3, <2>2 DEF c
<1>5. Reading(Contents') = ReadSymbol(Reading(Contents \o line), Newline)
  BY <1>1, <1>4, ReadingOnwards
<1>6. Reading(Contents \o line) = [shown |-> reading.shown, line |-> reading.line \o line]
  BY <1>1, <1>3, ReadingText
<1>7. reading \in Readings /\ LogRead(reading, attempts) /\ attempts \in Seq(Attempted)
  BY <1>3, ReadingOnwards DEF LogInv
<1>8. attempt \in Attempted /\ Fields(line) = FieldsOf(attempt.record)
  BY <1>1 DEF Attempted
<1> HIDE DEF reading, attempt
<1>9. LogRead(ReadSymbol([shown |-> reading.shown, line |-> reading.line \o line], Newline),
              Append(attempts, attempt))
  BY <1>1, <1>7, <1>8, LineEnds
<1> QED BY <1>3, <1>5, <1>6, <1>9 DEF attempt

(* A part of the line, which may be all of it, is appended or nothing is.  *)
LEMMA PartAppended ==
  ASSUME LogInv, NEW record \in Logged, record.seq <= MaxNumber,
         \/ UNCHANGED file
         \/ \E n \in 0..Len(Render(record)) : file' = Appended(SubSeq(Render(record), 1, n))
  PROVE  /\ LogRead(Reading(Contents'), Append(attempts, [record |-> record, whole |-> FALSE]))
         /\ file' \in Lines \cup {NoFile}
<1> DEFINE line == RenderUnended(record)
           reading == Reading(Contents)
           attempt == [record |-> record, whole |-> FALSE]
<1>1. Contents \in Lines /\ attempts \in Seq(Attempted)
  BY DEF Contents, LogInv, Lines
<1>2. reading \in Readings /\ LogRead(reading, attempts)
  BY <1>1, ReadingOnwards DEF LogInv
<1>3. attempt \in Attempted /\ ~attempt.whole
  BY DEF Attempted
<1>4. /\ line \in Seq(Symbol \ {Newline}) /\ line \in Lines /\ Newline \in Symbol
      /\ Render(record) = line \o <<Newline>>
  BY RenderedLine, SymbolsAssumption
<1> HIDE DEF line, reading, attempt
<1>5. CASE UNCHANGED file
  <2>1. Contents' = Contents
    BY <1>5 DEF Contents
  <2>2. reading = [shown |-> reading.shown, line |-> reading.line] /\ reading.line \in Lines
    BY <1>2 DEF Readings
  <2>3. LogRead(reading, Append(attempts, attempt))
    BY <1>1, <1>2, <1>3, <2>2, LineGrows
  <2> QED BY <1>5, <2>1, <2>3 DEF reading, attempt, LogInv
<1>6. ASSUME NEW n \in 0..Len(Render(record)), file' = Appended(SubSeq(Render(record), 1, n))
      PROVE  /\ LogRead(Reading(Contents'), Append(attempts, attempt))
             /\ file' \in Lines
  <2>1. Len(line) \in Nat /\ Len(Render(record)) = Len(line) + 1 /\ Render(record) \in Lines
    BY <1>4 DEF Lines
  <2>2. CASE n = Len(line) + 1
    <3>1. SubSeq(Render(record), 1, n) = Render(record)
      BY <2>1, <2>2, SubSeqFull DEF Lines
    <3>2. file' = Appended(Render(record))
      BY <1>6, <3>1
    <3> QED BY <3>2, LineAppended DEF attempt
  <2>3. CASE n \in 0..Len(line)
    <3> DEFINE p == SubSeq(Render(record), 1, n)
    <3>1. p \in Seq(Symbol \ {Newline})
      <4>1. \A i \in 1..n : Render(record)[i] = line[i] /\ line[i] \in Symbol \ {Newline}
        BY <1>4, <2>1, <2>3, BehindText DEF Lines
      <4>2. \A i \in 1..n : Render(record)[i] \in Symbol \ {Newline}
        BY <4>1
      <4>3. n \in Int /\ 1 \in Int
        BY <2>1, <2>3
      <4> QED BY <4>2, <4>3, SubSeqProperties
    <3> HIDE DEF p
    <3>2. p \in Lines
      BY <3>1, SeqMonotonic DEF Lines
    <3>3. Contents' = Contents \o p /\ file' \in Lines
      BY <1>6, <3>2, WrittenAtEnd DEF p
    <3>4. Reading(Contents') = [shown |-> reading.shown, line |-> reading.line \o p]
      BY <1>1, <3>1, <3>3, ReadingText DEF reading
    <3>5. reading.line \o p \in Lines
      BY <1>2, <3>2, BehindText DEF Readings
    <3> QED BY <1>1, <1>2, <1>3, <3>3, <3>4, <3>5, LineGrows
  <2> QED BY <2>1, <2>2, <2>3
<1> QED BY <1>5, <1>6 DEF attempt

(* The appends keep the invariant.                                         *)
LEMMA AppendsKeepLog ==
  ASSUME LogInv, AppendRecord \/ TornAppend
  PROVE  LogInv'
<1>1. PICK record \in Numbered, whole \in BOOLEAN :
        /\ Logging(record, whole)
        /\ \/ whole /\ file' = Appended(Render(record))
           \/ /\ ~whole
              /\ \/ UNCHANGED file
                 \/ \E n \in 0..Len(Render(record)) : file' = Appended(SubSeq(Render(record), 1, n))
  BY DEF AppendRecord, TornAppend
<1> DEFINE attempt == [record |-> record, whole |-> whole]
<1>2. Len(attempts) < MaxRecords /\ seq' = seq + 1 /\ attempts' = Append(attempts, attempt)
  BY <1>1 DEF Logging
<1>3. record \in Logged /\ record.seq <= MaxNumber
      /\ \E first \in FirstSeqs : seq + 1 = first + (Len(attempts) + 1)
  BY <1>2, CounterFits
<1>4. LogRead(Reading(Contents'), attempts') /\ file' \in Lines \cup {NoFile}
  <2>1. CASE whole /\ file' = Appended(Render(record))
    BY <1>2, <1>3, <2>1, LineAppended
  <2>2. CASE /\ ~whole
             /\ \/ UNCHANGED file
                \/ \E n \in 0..Len(Render(record)) : file' = Appended(SubSeq(Render(record), 1, n))
    <3>1. whole = FALSE
      BY <2>2
    <3> QED BY <1>2, <1>3, <2>2, <3>1, PartAppended
  <2> QED BY <1>1, <2>1, <2>2
<1>5. attempts' \in Seq(Attempted) /\ Len(attempts') = Len(attempts) + 1 /\ Len(attempts) \in Nat
  <2>1. attempt \in Attempted /\ attempts \in Seq(Attempted)
    BY <1>3 DEF Attempted, LogInv
  <2> HIDE DEF attempt
  <2> QED BY <1>2, <2>1
<1>6. Len(attempts') <= MaxRecords
  BY <1>2, <1>5, LogBoundsAssumption
<1>7. \E first \in FirstSeqs : seq' = first + Len(attempts')
  BY <1>2, <1>3, <1>5
<1> QED BY <1>4, <1>5, <1>6, <1>7 DEF LogInv, Contents

(* An absent log.                                                          *)
LEMMA LogStarts ==
  ASSUME LogInit
  PROVE  LogInv
<1>1. file = NoFile /\ seq \in FirstSeqs /\ attempts = <<>> /\ Contents = <<>>
  BY DEF LogInit, Contents
<1>2. attempts \in Seq(Attempted) /\ Len(attempts) = 0
  BY <1>1
<1>3. \E first \in FirstSeqs : seq = first + Len(attempts)
  <2>1. seq = seq + 0
    BY <1>1, LogBoundsAssumption
  <2> QED BY <1>1, <1>2, <2>1
<1>4. Reading(Contents) = StartOfFile
  BY <1>1, ReadingOnwards
<1>5. ReadInOrder(attempts, <<>>)
  <2>1. Spared(attempts) = {}
    BY <1>1 DEF Spared
  <2>2. [i \in {} |-> i] \in [Spared(attempts) -> DOMAIN <<>>]
    BY <2>1
  <2> QED BY <2>1, <2>2 DEF ReadInOrder
<1>6. LogRead(StartOfFile, attempts)
  BY <1>2, <1>5 DEF LogRead, StartOfFile
<1> QED BY <1>1, <1>2, <1>3, <1>4, <1>6, LogBoundsAssumption DEF LogInv

(* What the invariant says of the file is what the property says of the    *)
(* log that is shown.                                                      *)
LEMMA LogConfined ==
  ASSUME LogInv
  PROVE  PartialWritesAreConfined
<1> DEFINE reading == Reading(Contents)
           shown == Shown(reading)
           F == {Fields(l) : l \in Lines}
<1>1. reading \in Readings /\ LogRead(reading, attempts) /\ attempts \in Seq(Attempted)
  <2>1. Contents \in Lines
    BY DEF Contents, LogInv, Lines
  <2> QED BY <2>1, ReadingOnwards DEF LogInv
<1> HIDE DEF reading
<1>2. reading.shown \in Seq(F) /\ reading.line \in Lines
  BY <1>1 DEF Readings
<1>3. IsRecord(<<>>) = FALSE
  <2>1. TabAfter(<<>>, 0) = 1 /\ TabAfter(<<>>, 1) = 1
    <3>1. Min({1}) = 1
      BY DEF Min
    <3>2. \A i : {j \in DOMAIN <<>> : j > i /\ <<>>[j] = Tab} \cup {Len(<<>>) + 1} = {1}
      OBVIOUS
    <3> QED BY <3>1, <3>2 DEF TabAfter
  <2>2. ThirdTab(<<>>) = 1
    BY <2>1 DEF ThirdTab, SecondTab, FirstTab
  <2>3. ~(ThirdTab(<<>>) <= Len(<<>>))
    BY <2>2
  <2> QED BY <2>3 DEF IsRecord
<1>4. /\ Len(shown) <= Len(attempts) /\ DOMAIN reading.shown \subseteq DOMAIN shown
      /\ \A i \in DOMAIN reading.shown : shown[i] = reading.shown[i]
  <2> DEFINE s == reading.shown
             x == Fields(reading.line)
  <2>1. /\ Len(s) <= Len(attempts) /\ (reading.line # <<>> => Len(s) < Len(attempts))
        /\ Len(attempts) \in Nat
    BY <1>1 DEF LogRead
  <2>2. s \in Seq(F) /\ x \in F
    BY <1>2
  <2>3. shown = IF IsRecord(reading.line) THEN Append(s, x) ELSE s
    BY DEF Shown
  <2> HIDE DEF s, x, F, shown
  <2>4. /\ Len(Append(s, x)) = Len(s) + 1 /\ Len(s) \in Nat /\ DOMAIN s \subseteq DOMAIN Append(s, x)
        /\ \A i \in DOMAIN s : Append(s, x)[i] = s[i]
    BY <2>2
  <2>5. CASE IsRecord(reading.line)
    <3>1. Len(s) + 1 <= Len(attempts)
      BY <1>3, <2>1, <2>4, <2>5
    <3> QED BY <2>3, <2>4, <2>5, <3>1 DEF s
  <2>6. CASE ~IsRecord(reading.line)
    BY <2>1, <2>3, <2>6 DEF s
  <2> QED BY <2>5, <2>6
<1>5. \E place \in [Spared(attempts) -> DOMAIN shown] :
        /\ \A i, j \in Spared(attempts) : i < j => place[i] < place[j]
        /\ \A i \in Spared(attempts) : shown[place[i]] = FieldsOf(attempts[i].record)
  <2>1. PICK place \in [Spared(attempts) -> DOMAIN reading.shown] :
          /\ \A i, j \in Spared(attempts) : i < j => place[i] < place[j]
          /\ \A i \in Spared(attempts) : reading.shown[place[i]] = FieldsOf(attempts[i].record)
    BY <1>1 DEF LogRead, ReadInOrder
  <2> HIDE DEF shown
  <2>2. place \in [Spared(attempts) -> DOMAIN shown]
    BY <1>4, <2>1
  <2>3. \A i \in Spared(attempts) : shown[place[i]] = FieldsOf(attempts[i].record)
    BY <1>4, <2>1
  <2> QED BY <2>1, <2>2, <2>3
<1>6. IsText(Contents) => Parse(Contents) = shown
  BY DEF Parse, reading
<1> HIDE DEF shown
<1>7. SUFFICES ASSUME IsText(Contents)
               PROVE  /\ Len(Parse(Contents)) <= Len(attempts)
                      /\ \E place \in [Spared(attempts) -> DOMAIN Parse(Contents)] :
                           /\ \A i, j \in Spared(attempts) : i < j => place[i] < place[j]
                           /\ \A i \in Spared(attempts) :
                                Parse(Contents)[place[i]] = FieldsOf(attempts[i].record)
  BY Zenon DEF PartialWritesAreConfined, Spared
<1> QED BY <1>4, <1>5, <1>6, <1>7

-----------------------------------------------------------------------------
(* The entries of a graph and the numbers they are listed under.           *)

(* flat_map goes through the lists one by one.                             *)
LEMMA FlatLoop ==
  ASSUME NEW E, NEW lists \in Seq(Seq(E))
  PROVE  \E flat \in [0..Len(lists) -> Seq(E)] :
           /\ flat[0] = <<>>
           /\ \A i \in 1..Len(lists) : flat[i] = flat[i - 1] \o lists[i]
           /\ Flat(lists) = flat[Len(lists)]
<1> DEFINE n == Len(lists)
           Add(s, i) == s \o lists[i]
           body == [i \in 1..n |-> [s \in Seq(E) |-> Add(s, i)]]
           Body(h) == [i \in 0..n |-> IF i = 0 THEN <<>> ELSE Add(h[i - 1], i)]
           loop == CHOOSE h : h = Body(h)
<1>1. n \in Nat /\ \A i \in 1..n : lists[i] \in Seq(E)
  OBVIOUS
<1>2. <<>> \in Seq(E) /\ \A s, t \in Seq(E) : s \o t \in Seq(E)
  BY ConcatProperties
<1> HIDE DEF Add
<1>3. body \in Bodies(n, Seq(E))
  <2> DEFINE R == Seq(E)
  <2>1. \A i \in 1..n : \A s \in R : Add(s, i) \in R
    BY <1>1, <1>2 DEF Add
  <2> HIDE DEF R, n
  <2>2. [i \in 1..n |-> [s \in R |-> Add(s, i)]] \in [1..n -> [R -> R]]
    BY <2>1
  <2> QED BY <2>2 DEF Bodies, R
<1>4. PICK f : IsRun(f, n, Seq(E), <<>>, body)
  <2> HIDE DEF body, n
  <2> QED BY <1>1, <1>2, <1>3, LoopRuns
<1>5. /\ f \in [0..n -> Seq(E)] /\ f[0] = <<>>
      /\ \A i \in 1..n : f[i] = Add(f[i - 1], i)
  <2>1. f \in [0..n -> Seq(E)] /\ f[0] = <<>> /\ \A i \in 1..n : f[i] = body[i][f[i - 1]]
    BY <1>4 DEF IsRun
  <2> HIDE DEF n
  <2>2. ASSUME NEW i \in 1..n PROVE f[i - 1] \in Seq(E)
    <3>1. i - 1 \in 0..n
      BY <1>1
    <3> QED BY <2>1, <3>1
  <2> QED BY <2>1, <2>2
<1> HIDE DEF n, body
<1>6. f = Body(f)
  <2>1. \A i \in 0..n : i # 0 => i \in 1..n
    BY <1>1
  <2> QED BY <1>5, <2>1
<1>7. loop = Body(loop)
  <2> HIDE DEF Body
  <2> QED BY <1>6
<1>8. Flat(lists) = loop[n]
  BY DEF Flat, Add, n
<1> HIDE DEF loop
<1>9. loop[0] = <<>> /\ \A i \in 1..n : loop[i] = Add(loop[i - 1], i)
  BY <1>1, <1>7
<1> DEFINE Same == {i \in Nat : i <= n => loop[i] = f[i]}
<1>10. 0 \in Same
  BY <1>5, <1>9
<1>11. ASSUME NEW i \in Nat, i \in Same PROVE i + 1 \in Same
  <2>1. SUFFICES ASSUME i + 1 <= n PROVE loop[i + 1] = f[i + 1]
    OBVIOUS
  <2>2. i + 1 \in 1..n /\ i + 1 - 1 = i /\ loop[i] = f[i]
    BY <1>1, <1>11, <2>1
  <2> QED BY <1>5, <1>9, <2>2
<1> HIDE DEF Same
<1>12. n \in Same
  BY <1>1, <1>10, <1>11, SetInduction
<1>13. loop[n] = f[n]
  BY <1>1, <1>12 DEF Same
<1> QED BY <1>5, <1>8, <1>13 DEF Add, n

LEMMA FlatTyped ==
  ASSUME NEW E, NEW lists \in Seq(Seq(E))
  PROVE  Flat(lists) \in Seq(E)
<1>1. Len(lists) \in 0..Len(lists)
  OBVIOUS
<1>2. PICK flat \in [0..Len(lists) -> Seq(E)] : Flat(lists) = flat[Len(lists)]
  BY FlatLoop
<1> QED BY <1>1, <1>2

(* The lines of entries, numbered from 0.                                  *)
ShownLines == [number : Nat, id : Lines]
Listing(entries) ==
  [lines |-> [i \in 1..Len(entries) |-> [number |-> i - 1, id |-> entries[i].id]],
   idx   |-> Len(entries)]

(* The lines of a system go on where the ones before it ended.             *)
LEMMA SystemIsListed ==
  ASSUME NEW first \in Seq(SystemEntry), NEW system \in Seq(SystemEntry)
  PROVE  SystemLines(Listing(first), system) = Listing(first \o system)
<1> DEFINE m == Len(first)
           n == Len(system)
           both == first \o system
           a == [i \in 1..m |-> [number |-> i - 1, id |-> first[i].id]]
           b == [i \in 1..n |-> [number |-> m + i - 1, id |-> system[i].id]]
           c == [i \in 1..(m + n) |-> [number |-> i - 1, id |-> both[i].id]]
<1>1. /\ m \in Nat /\ n \in Nat /\ DOMAIN system = 1..n
      /\ \A i \in 1..m : first[i].id \in Lines
      /\ \A i \in 1..n : system[i].id \in Lines
  <2>1. \A entry \in SystemEntry : entry.id \in Lines
    BY DEF SystemEntry, Lines
  <2> QED BY <2>1
<1>2. /\ both \in Seq(SystemEntry) /\ Len(both) = m + n
      /\ \A i \in 1..(m + n) : both[i] = IF i <= m THEN first[i] ELSE system[i - m]
  BY ConcatProperties
<1> HIDE DEF m, n, both
<1>3. a \in Seq(ShownLines) /\ Len(a) = m
  BY <1>1 DEF ShownLines
<1>4. b \in Seq(ShownLines) /\ Len(b) = n
  <2>1. \A i \in 1..n : m + i - 1 \in Nat
    BY <1>1
  <2> QED BY <1>1, <2>1 DEF ShownLines
<1>5. /\ a \o b \in Seq(ShownLines) /\ Len(a \o b) = m + n
      /\ \A i \in 1..(m + n) : (a \o b)[i] = IF i <= m THEN a[i] ELSE b[i - m]
  <2> HIDE DEF a, b
  <2> QED BY <1>3, <1>4, ConcatProperties
<1>6. ASSUME NEW i \in 1..(m + n) PROVE (a \o b)[i] = c[i]
  <2>1. CASE i <= m
    <3>1. i \in 1..m
      BY <1>1, <2>1
    <3> QED BY <1>2, <1>5, <2>1, <3>1
  <2>2. CASE ~(i <= m)
    <3>1. i - m \in 1..n /\ m + (i - m) - 1 = i - 1
      BY <1>1, <2>2
    <3>2. b[i - m] = [number |-> i - 1, id |-> system[i - m].id]
      BY <3>1
    <3> QED BY <1>2, <1>5, <2>2, <3>2
  <2> QED BY <2>1, <2>2
<1>7. a \o b = c
  <2> DEFINE s == a \o b
  <2>1. s = [i \in 1..(m + n) |-> s[i]]
    <3>1. s \in Seq(ShownLines) /\ Len(s) = m + n
      BY <1>5
    <3> HIDE DEF s
    <3> QED BY <3>1, LenProperties
  <2> HIDE DEF s
  <2>2. \A i \in 1..(m + n) : s[i] = c[i]
    BY <1>6 DEF s
  <2>3. c = [i \in 1..(m + n) |-> c[i]]
    OBVIOUS
  <2> HIDE DEF c
  <2>4. s = c
    BY <2>1, <2>2, <2>3
  <2> QED BY <2>4 DEF s
<1>8. SystemLines(Listing(first), system) = [lines |-> a \o b, idx |-> m + n]
  BY <1>1 DEF SystemLines, Listing, m, n
<1>9. Listing(both) = [lines |-> c, idx |-> m + n]
  BY <1>2 DEF Listing
<1> QED BY <1>7, <1>8, <1>9 DEF both

(* The systems of a disk follow each other.                                *)
LEMMA DiskIsListed ==
  ASSUME NEW first \in Seq(SystemEntry), NEW disk \in Seq(Seq(SystemEntry))
  PROVE  DiskLines(Listing(first), disk) = Listing(first \o Flat(disk))
<1> DEFINE n == Len(disk)
           out == Listing(first)
           Body(h) == [i \in 0..n |-> IF i = 0 THEN out ELSE SystemLines(h[i - 1], disk[i])]
           loop == CHOOSE h : h = Body(h)
<1>1. n \in Nat /\ \A i \in 1..n : disk[i] \in Seq(SystemEntry)
  OBVIOUS
<1>2. PICK flat \in [0..n -> Seq(SystemEntry)] :
        /\ flat[0] = <<>>
        /\ \A i \in 1..n : flat[i] = flat[i - 1] \o disk[i]
        /\ Flat(disk) = flat[n]
  BY FlatLoop
<1> HIDE DEF n
<1> DEFINE f == [i \in 0..n |-> Listing(first \o flat[i])]
<1>3. first \o <<>> = first
  BY ConcatEmptySeq
<1>4. ASSUME NEW i \in 1..n
      PROVE  SystemLines(Listing(first \o flat[i - 1]), disk[i]) = Listing(first \o flat[i])
  <2>1. i - 1 \in 0..n
    BY <1>1
  <2>2. flat[i - 1] \in Seq(SystemEntry) /\ disk[i] \in Seq(SystemEntry)
    BY <1>1, <1>2, <2>1
  <2>3. first \o flat[i - 1] \in Seq(SystemEntry)
    BY <2>2, ConcatProperties
  <2>4. (first \o flat[i - 1]) \o disk[i] = first \o (flat[i - 1] \o disk[i])
    <3> DEFINE s == flat[i - 1]
               t == disk[i]
    <3>1. s \in Seq(SystemEntry) /\ t \in Seq(SystemEntry)
      BY <2>2
    <3> HIDE DEF s, t
    <3>2. (first \o s) \o t = first \o (s \o t)
      BY <3>1, ConcatAssociative
    <3> QED BY <3>2 DEF s, t
  <2> QED BY <1>2, <2>2, <2>3, <2>4, SystemIsListed
<1>5. f = Body(f)
  <2>1. ASSUME NEW i \in 0..n, i # 0 PROVE i \in 1..n /\ i - 1 \in 0..n
    BY <1>1, <2>1
  <2>2. f[0] = out
    <3>1. f[0] = Listing(first \o flat[0])
      BY <1>1
    <3> QED BY <1>2, <1>3, <3>1
  <2>3. \A i \in 0..n : i # 0 => f[i] = SystemLines(f[i - 1], disk[i])
    BY <1>4, <2>1
  <2>4. f = [i \in 0..n |-> f[i]]
    OBVIOUS
  <2> HIDE DEF f, out
  <2> QED BY <2>2, <2>3, <2>4
<1>6. loop = Body(loop)
  <2> HIDE DEF Body
  <2> QED BY <1>5
<1>7. DiskLines(out, disk) = loop[n]
  BY DEF DiskLines, n
<1> HIDE DEF loop, out
<1>8. loop[0] = out /\ \A i \in 1..n : loop[i] = SystemLines(loop[i - 1], disk[i])
  BY <1>1, <1>6
<1> DEFINE Same == {i \in Nat : i <= n => loop[i] = Listing(first \o flat[i])}
<1>9. 0 \in Same
  BY <1>2, <1>3, <1>8 DEF out
<1>10. ASSUME NEW i \in Nat, i \in Same PROVE i + 1 \in Same
  <2>1. SUFFICES ASSUME i + 1 <= n PROVE loop[i + 1] = Listing(first \o flat[i + 1])
    OBVIOUS
  <2>2. i + 1 \in 1..n /\ i + 1 - 1 = i /\ loop[i] = Listing(first \o flat[i])
    BY <1>1, <1>10, <2>1
  <2> QED BY <1>4, <1>8, <2>2
<1> HIDE DEF Same
<1>11. n \in Same
  BY <1>1, <1>9, <1>10, SetInduction
<1>12. loop[n] = Listing(first \o flat[n])
  BY <1>1, <1>11 DEF Same
<1> QED BY <1>2, <1>7, <1>12 DEF out

(* An entry's number in the list is its position in the graph.             *)
LEMMA GraphIsListed ==
  ASSUME NEW disks \in Seq(Seq(Seq(SystemEntry)))
  PROVE  /\ EntriesOf(disks) \in Seq(SystemEntry)
         /\ ListLines(disks) = Listing(EntriesOf(disks)).lines
<1> DEFINE n == Len(disks)
           lists == [d \in DOMAIN disks |-> Flat(disks[d])]
           start == [lines |-> <<>>, idx |-> 0]
           Body(h) == [i \in 0..n |-> IF i = 0 THEN start ELSE DiskLines(h[i - 1], disks[i])]
           loop == CHOOSE h : h = Body(h)
<1>1. n \in Nat /\ DOMAIN disks = 1..n /\ \A i \in 1..n : disks[i] \in Seq(Seq(SystemEntry))
  OBVIOUS
<1>2. /\ lists \in Seq(Seq(SystemEntry)) /\ Len(lists) = n
      /\ \A i \in 1..n : lists[i] = Flat(disks[i])
  <2>1. \A i \in 1..n : Flat(disks[i]) \in Seq(SystemEntry)
    BY <1>1, FlatTyped
  <2> HIDE DEF n
  <2>2. lists = [i \in 1..n |-> Flat(disks[i])]
    BY <1>1
  <2> DEFINE R == Seq(SystemEntry)
  <2> HIDE DEF lists, R
  <2>3. \A i \in 1..n : Flat(disks[i]) \in R
    BY <2>1 DEF R
  <2>4. lists \in Seq(R) /\ Len(lists) = n /\ \A i \in 1..n : lists[i] = Flat(disks[i])
    BY <1>1, <2>2, <2>3
  <2> QED BY <2>4 DEF R
<1>3. PICK flat \in [0..n -> Seq(SystemEntry)] :
        /\ flat[0] = <<>>
        /\ \A i \in 1..n : flat[i] = flat[i - 1] \o lists[i]
        /\ Flat(lists) = flat[n]
  <2> HIDE DEF lists, n
  <2>1. \E flat \in [0..Len(lists) -> Seq(SystemEntry)] :
           /\ flat[0] = <<>>
           /\ \A i \in 1..Len(lists) : flat[i] = flat[i - 1] \o lists[i]
           /\ Flat(lists) = flat[Len(lists)]
    BY <1>2, FlatLoop
  <2> QED BY <1>2, <2>1
<1>4. EntriesOf(disks) = flat[n]
  BY <1>3 DEF EntriesOf
<1> HIDE DEF n, lists
<1>5. EntriesOf(disks) \in Seq(SystemEntry)
  BY <1>1, <1>3, <1>4
<1> DEFINE f == [i \in 0..n |-> Listing(flat[i])]
<1>6. ASSUME NEW i \in 1..n
      PROVE  DiskLines(Listing(flat[i - 1]), disks[i]) = Listing(flat[i])
  <2>1. i - 1 \in 0..n
    BY <1>1
  <2>2. flat[i - 1] \in Seq(SystemEntry)
    BY <1>3, <2>1
  <2> QED BY <1>1, <1>2, <1>3, <2>2, DiskIsListed
<1>7. Listing(<<>>) = start
  BY DEF Listing
<1>8. f = Body(f)
  <2>1. ASSUME NEW i \in 0..n, i # 0 PROVE i \in 1..n /\ i - 1 \in 0..n
    BY <1>1, <2>1
  <2>2. f[0] = start
    BY <1>1, <1>3, <1>7
  <2>3. \A i \in 0..n : i # 0 => f[i] = DiskLines(f[i - 1], disks[i])
    BY <1>6, <2>1
  <2>4. f = [i \in 0..n |-> f[i]]
    OBVIOUS
  <2> HIDE DEF f, start
  <2> QED BY <2>2, <2>3, <2>4
<1>9. loop = Body(loop)
  <2> HIDE DEF Body
  <2> QED BY <1>8
<1>10. ListLines(disks) = loop[n].lines
  BY DEF ListLines, n
<1> HIDE DEF loop, start
<1>11. loop[0] = start /\ \A i \in 1..n : loop[i] = DiskLines(loop[i - 1], disks[i])
  BY <1>1, <1>9
<1> DEFINE Same == {i \in Nat : i <= n => loop[i] = Listing(flat[i])}
<1>12. 0 \in Same
  BY <1>3, <1>7, <1>11
<1>13. ASSUME NEW i \in Nat, i \in Same PROVE i + 1 \in Same
  <2>1. SUFFICES ASSUME i + 1 <= n PROVE loop[i + 1] = Listing(flat[i + 1])
    OBVIOUS
  <2>2. i + 1 \in 1..n /\ i + 1 - 1 = i /\ loop[i] = Listing(flat[i])
    BY <1>1, <1>13, <2>1
  <2> QED BY <1>6, <1>11, <2>2
<1> HIDE DEF Same
<1>14. n \in Same
  BY <1>1, <1>12, <1>13, SetInduction
<1>15. loop[n] = Listing(flat[n])
  BY <1>1, <1>14 DEF Same
<1> QED BY <1>4, <1>5, <1>10, <1>15

-----------------------------------------------------------------------------
(* What a selector means.                                                  *)

(* A number that was typed is read as one.                                 *)
LEMMA NumberHasValue ==
  ASSUME NEW selector \in Lines, IsNumber(selector)
  PROVE  ValueOf(selector) \in Nat
<1>1. \A i \in 1..Len(selector) : Numeral(selector[i]) \in Nat
  <2>1. DOMAIN selector = 1..Len(selector)
    BY DEF Lines
  <2> QED BY <2>1, NumeralOfDigit DEF IsNumber
<1>2. Len(selector) \in 0..Len(selector)
  BY DEF Lines
<1> QED BY <1>1, <1>2, ValueLoop

(* The entry at the position that resolve returns is the one that is meant. *)
LEMMA ResolvedIsMeant ==
  ASSUME NEW disks \in Graphs, NEW selector \in Selectors,
         NEW i \in Resolve(disks, selector)
  PROVE  LET entries == EntriesOf(disks)
         IN /\ entries[i] \in ToSet(entries)
            /\ IsNumber(selector) =>
                 [number |-> ValueOf(selector), id |-> entries[i].id] \in ToSet(ListLines(disks))
            /\ ~IsNumber(selector) /\ entries[i].id # selector =>
                 \A entry \in ToSet(entries) :
                   Holds(entry.id, selector) <=> entry.id = entries[i].id
<1> DEFINE entries == EntriesOf(disks)
           n == Len(entries)
           exact == {k \in DOMAIN entries : entries[k].id = selector}
           matches == {k \in DOMAIN entries : Holds(entries[k].id, selector)}
           lines == ListLines(disks)
<1>1. /\ entries \in Seq(SystemEntry)
      /\ lines = [k \in 1..n |-> [number |-> k - 1, id |-> entries[k].id]]
  <2>1. disks \in Seq(Seq(Seq(SystemEntry)))
    BY ShellGraphs
  <2> QED BY <2>1, GraphIsListed DEF Listing
<1>2. selector \in Lines /\ selector # <<>>
  <2>1. selector = <<>> => Resolve(disks, selector) = {}
    BY DEF Resolve, IsNumber
  <2> QED BY <2>1, SelectorsAssumption DEF Lines
<1>3. IF IsNumber(selector) THEN i \in DOMAIN entries /\ i = ValueOf(selector) + 1
      ELSE IF exact # {} THEN i = Min(exact)
      ELSE Cardinality(matches) = 1 /\ i \in matches
  BY <1>2 DEF Resolve
<1> HIDE DEF entries, lines
<1>4. n \in Nat /\ DOMAIN entries = 1..n
  BY <1>1
<1>5. exact # {} => Min(exact) \in exact
  <2>1. exact \subseteq Nat
    BY <1>4
  <2> HIDE DEF exact
  <2>2. SUFFICES ASSUME exact # {} PROVE Min(exact) \in exact
    OBVIOUS
  <2>3. PICK k \in exact : \A j \in exact : ~(j < k)
    BY <2>1, <2>2, FirstPosition
  <2>4. k \in exact /\ \A j \in exact : k <= j
    BY <2>1, <2>3
  <2> QED BY <2>4 DEF Min
<1>6. i \in 1..n
  BY <1>3, <1>4, <1>5
<1>7. entries[i] \in ToSet(entries)
  BY <1>4, <1>6 DEF ToSet
<1>8. ASSUME IsNumber(selector)
      PROVE  [number |-> ValueOf(selector), id |-> entries[i].id] \in ToSet(lines)
  <2>1. ValueOf(selector) \in Nat /\ i = ValueOf(selector) + 1
    BY <1>2, <1>3, <1>8, NumberHasValue
  <2>2. i - 1 = ValueOf(selector)
    BY <2>1
  <2>3. lines[i] = [number |-> ValueOf(selector), id |-> entries[i].id] /\ i \in DOMAIN lines
    BY <1>1, <1>6, <2>2
  <2> QED BY <2>3 DEF ToSet
<1>9. ASSUME ~IsNumber(selector), entries[i].id # selector, NEW entry \in ToSet(entries)
      PROVE  Holds(entry.id, selector) <=> entry.id = entries[i].id
  <2>1. exact = {}
    BY <1>3, <1>5, <1>9
  <2>2. Cardinality(matches) = 1 /\ i \in matches
    BY <1>3, <1>9, <2>1
  <2>3. IsFiniteSet(matches)
    <3>1. IsFiniteSet(1..n)
      BY <1>4, FS_Interval
    <3> QED BY <1>4, <3>1, FS_Subset
  <2>4. matches = {i}
    <3> HIDE DEF matches
    <3>1. \E k : matches = {k}
      BY <2>2, <2>3, FS_Singleton
    <3> QED BY <2>2, <3>1
  <2>5. PICK k \in DOMAIN entries : entry = entries[k]
    BY <1>9 DEF ToSet
  <2>6. Holds(entry.id, selector) => k \in matches
    BY <2>5
  <2>7. Holds(entries[i].id, selector)
    BY <2>2
  <2> HIDE DEF matches
  <2> QED BY <2>4, <2>5, <2>6, <2>7
<1>10. /\ entries[i] \in ToSet(entries)
       /\ IsNumber(selector) =>
            [number |-> ValueOf(selector), id |-> entries[i].id] \in ToSet(lines)
       /\ ~IsNumber(selector) /\ entries[i].id # selector =>
            \A entry \in ToSet(entries) : Holds(entry.id, selector) <=> entry.id = entries[i].id
  BY <1>7, <1>8, <1>9
<1> QED BY <1>10 DEF entries, lines

-----------------------------------------------------------------------------
(* Sessions.                                                               *)

(* A session keeps its graph, and between sessions nothing is asked.       *)
SessionInv ==
  /\ graph \in Graphs \cup {Nothing}
  /\ graph = Nothing => asked = NoAction
  /\ SelectorMeansOneEntry

(* What a command asks about the entry that it found.                      *)
LEMMA AskedIsMeant ==
  ASSUME SessionInv, IsOpen, NEW selector \in Selectors, NEW kind \in {"boot", "default", "verify"},
         NEW i \in Resolve(graph, selector), kind = "boot" => Boots(EntriesOf(graph)[i]),
         NEW lines, Answer(selector, lines, Ask(kind, EntriesOf(graph)[i].id))
  PROVE  SessionInv'
<1> DEFINE entry == EntriesOf(graph)[i]
<1>1. graph \in Graphs /\ graph # Nothing
  BY DEF SessionInv, IsOpen
<1>2. graph' = graph /\ typed' = selector /\ asked' = Ask(kind, entry.id)
  BY DEF Answer
<1>3. /\ entry \in ToSet(EntriesOf(graph))
      /\ IsNumber(selector) =>
           [number |-> ValueOf(selector), id |-> entry.id] \in ToSet(ListLines(graph))
      /\ ~IsNumber(selector) /\ entry.id # selector =>
           \A e \in ToSet(EntriesOf(graph)) : Holds(e.id, selector) <=> e.id = entry.id
  BY <1>1, ResolvedIsMeant
<1>4. asked'.kind = kind /\ asked'.id = entry.id
  BY <1>2 DEF Ask
<1>5. kind = "boot" => Boots(entry)
  OBVIOUS
<1> HIDE DEF entry
<1>6. SelectorMeansOneEntry'
  BY <1>2, <1>3, <1>4, <1>5 DEF SelectorMeansOneEntry
<1> QED BY <1>1, <1>2, <1>6 DEF SessionInv

(* A command that asks for nothing of the kind.                            *)
LEMMA OtherAnswer ==
  ASSUME SessionInv, IsOpen, NEW selector, NEW lines, NEW action,
         action.kind \notin {"boot", "default", "verify"}, Answer(selector, lines, action)
  PROVE  SessionInv'
BY DEF SessionInv, IsOpen, Answer, SelectorMeansOneEntry

LEMMA SessionStep ==
  ASSUME SessionInv, ShellNext
  PROVE  SessionInv'
<1>1. NoAction.kind = "none"
  BY DEF NoAction, Ask
<1>2. CASE OpenSession
  BY <1>1, <1>2 DEF OpenSession, SessionInv, SelectorMeansOneEntry
<1>3. CASE EndSession
  BY <1>1, <1>3 DEF EndSession, SessionInv, SelectorMeansOneEntry
<1>4. CASE Booted
  BY <1>1, <1>4 DEF Booted, session, SessionInv, SelectorMeansOneEntry
<1>5. CASE Query \/ List \/ Log \/ Reboot
  <2>1. \A kind, id : Ask(kind, id).kind = kind
    BY DEF Ask
  <2> QED BY <1>1, <1>5, <2>1, OtherAnswer DEF Query, List, Log, Reboot
<1>6. CASE Inspect
  BY <1>1, <1>6, OtherAnswer DEF Inspect
<1>7. CASE Boot
  BY <1>1, <1>7, OtherAnswer, AskedIsMeant DEF Boot
<1>8. CASE DefaultOrVerify
  BY <1>1, <1>8, OtherAnswer, AskedIsMeant DEF DefaultOrVerify
<1> QED BY <1>2, <1>3, <1>4, <1>5, <1>6, <1>7, <1>8 DEF ShellNext

-----------------------------------------------------------------------------

(* What the shell asks the engine is about the entry that the number or    *)
(* the text on the command line means, for every graph, every id and every *)
(* selector.                                                               *)
THEOREM CommandMeansOneEntry == ShellSpec => []SelectorMeansOneEntry
<1>1. ShellInit => SessionInv
  BY DEF ShellInit, SessionInv, SelectorMeansOneEntry, NoAction, Ask
<1>2. SessionInv /\ [ShellNext]_shellVars => SessionInv'
  <2>1. SessionInv /\ UNCHANGED shellVars => SessionInv'
    BY DEF shellVars, session, SessionInv, SelectorMeansOneEntry
  <2> QED BY <2>1, SessionStep
<1>3. SessionInv => SelectorMeansOneEntry
  BY DEF SessionInv
<1> QED BY <1>1, <1>2, <1>3, PTL DEF ShellSpec

(* An append that is cut short at any symbol costs at most its own record  *)
(* and the next one, for every number of boots, every text of a record and *)
(* every counter that fits its digits.                                     *)
THEOREM LogSurvivesPartialWrites == ShellSpec => []PartialWritesAreConfined
<1>1. ShellInit => LogInv
  BY LogStarts DEF ShellInit
<1>2. LogInv /\ [ShellNext]_shellVars => LogInv'
  <2>1. LogInv /\ UNCHANGED log => LogInv'
    BY DEF log, LogInv, Contents
  <2>2. LogInv /\ ShellNext => LogInv'
    <3>1. ShellNext => UNCHANGED log \/ AppendRecord \/ TornAppend
      BY DEF ShellNext, OpenSession, EndSession, Booted, Query, Inspect, List, Boot,
             DefaultOrVerify, Log, Reboot, Answer
    <3> QED BY <2>1, <3>1, AppendsKeepLog
  <2>3. UNCHANGED shellVars => UNCHANGED log
    BY DEF shellVars
  <2> QED BY <2>1, <2>2, <2>3
<1>3. LogInv => PartialWritesAreConfined
  BY LogConfined
<1> QED BY <1>1, <1>2, <1>3, PTL DEF ShellSpec
=============================================================================
