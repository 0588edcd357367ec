----------------------------- MODULE BootOrder ------------------------------
(***************************************************************************)
(* The firmware's boot order, brought back to MyBoot first, and the        *)
(* one-shot request: what config/src/reconcile.rs, the boot order half of  *)
(* persistence/src/loadopt.rs and persistence/src/nvram.rs do to NVRAM.    *)
(*                                                                         *)
(* A run of MyBoot takes the one-shot request, computes the order it wants,*)
(* plans, applies, reads back, and restores the snapshot when the write or *)
(* the check failed: the sequence reconcile.rs:74-75 leaves to its caller. *)
(* The engine does not call it yet, so the actions that only sequence the  *)
(* calls (Verify, PowerOn) are external.  Every variable call may fail, and*)
(* the power may go between any two of them; between two runs other        *)
(* systems rewrite the order.                                              *)
(***************************************************************************)
EXTENDS Integers, Sequences

CONSTANTS
  MyBoot,      \* the number of MyBoot's own boot option
  Foreign,     \* the values other systems may leave in BootOrder
  Entries,     \* the entry ids a one-shot request may name
  Absent,      \* a variable that does not exist, and None
  Garbled,     \* a one-shot variable that is not UTF-8
  MaxFaults,   \* bound: failing calls and power losses in a behaviour
  MaxDrifts,   \* bound: rewrites of the order by other systems
  MaxRequests  \* bound: one-shot requests made

Byte == 0..255
U16 == {n \in Nat : n < 65536}

ASSUME NumbersAssumption == MyBoot \in U16
ASSUME ForeignAssumption == Foreign \subseteq Seq(Byte) \cup {Absent}
ASSUME NothingAssumption == /\ Absent \notin Seq(Byte) \cup Seq(U16)
                            /\ Entries \cap {Absent, Garbled} = {}
ASSUME BoundsAssumption == MaxFaults \in Nat /\ MaxDrifts \in Nat /\ MaxRequests \in Nat

VARIABLES
  order,       \* NVRAM: the bytes of BootOrder
  oneShot,     \* NVRAM: MyBoot's OneShot variable
  phase,       \* how far MyBoot is
  taking,      \* the request read and about to be deleted
  desired,     \* the order MyBoot wants
  plan,        \* the ReconcilePlan: its step, if any, and its snapshot
  faults,      \* failing calls and power losses left
  drifts,      \* rewrites left
  requests,    \* one-shot requests left
  left,        \* history: the order as other systems left it last
  before,      \* history: the order this run of MyBoot found
  misread,     \* history: a read of the order failed since it was left so
  fired        \* history: how often the request made last was honoured

nvram == <<order, oneShot>>
caller == <<taking, desired, plan>>
bounds == <<faults, drifts, requests>>
history == <<left, before, misread, fired>>
vars == <<nvram, phase, caller, bounds, history>>

-----------------------------------------------------------------------------
(* The codec of BootOrder: u16 option numbers, low byte first.             *)

\* The number is stored as if it were one byte.
EncodeUnsplit(list) ==
  [i \in 1..(2 * Len(list)) |-> IF i % 2 = 1 THEN list[(i + 1) \div 2] ELSE 0]

EncodeBootOrder(list) ==
  [i \in 1..(2 * Len(list)) |->
     IF i % 2 = 1 THEN list[(i + 1) \div 2] % 256 ELSE list[i \div 2] \div 256]

\* A trailing odd byte is ignored.
DecodeBootOrder(bytes) ==
  [i \in 1..(Len(bytes) \div 2) |-> bytes[2 * i - 1] + 256 * bytes[2 * i]]

\* read_boot_order, when its call succeeds.
ReadBootOrder == IF order = Absent THEN Absent ELSE DecodeBootOrder(order)

\* What a read order lists; a missing variable lists nothing.
OptionsOf(read) == IF read = Absent THEN <<>> ELSE read

\* MyBoot's own option is not left out of the rest.
MyBootFirstTwice(list) == <<MyBoot>> \o list

\* The loop of desired_with_myboot_first: what is pushed after MyBoot's own.
Others(list) ==
  LET pushed[i \in 0..Len(list)] ==
        IF i = 0 THEN <<>>
        ELSE IF list[i] = MyBoot THEN pushed[i - 1]
        ELSE Append(pushed[i - 1], list[i])
  IN pushed[Len(list)]

MyBootFirst(list) == <<MyBoot>> \o Others(list)

-----------------------------------------------------------------------------
(* Calls of the variable store.                                            *)

\* A read whose outcome is used: an error reads as an absent variable.
Read(outcome) ==
  \/ outcome = ReadBootOrder /\ UNCHANGED <<faults, misread>>
  \/ /\ faults > 0
     /\ outcome = Absent
     /\ faults' = faults - 1
     /\ misread' = TRUE

\* set_variable: a call that succeeds stores the bytes, and none deletes.
Store(bytes) == order' = IF bytes = <<>> THEN Absent ELSE bytes

CallFails == faults > 0 /\ faults' = faults - 1

-----------------------------------------------------------------------------
Init ==
  /\ order \in Foreign
  /\ oneShot \in {Absent, Garbled}
  /\ phase = "off"
  /\ taking = Absent
  /\ desired = <<>>
  /\ plan = [step |-> Absent, snapshot |-> Absent]
  /\ faults = MaxFaults /\ drifts = MaxDrifts /\ requests = MaxRequests
  /\ left = OptionsOf(ReadBootOrder)
  /\ before = left
  /\ misread = FALSE
  /\ fired = 0

\* Another system's installer or update rewrites BootOrder.
Drift ==
  /\ phase = "off" /\ drifts > 0
  /\ drifts' = drifts - 1
  /\ order' \in Foreign
  /\ left' = OptionsOf(IF order' = Absent THEN Absent ELSE DecodeBootOrder(order'))
  /\ misread' = FALSE
  /\ UNCHANGED <<oneShot, phase, caller, faults, requests, before, fired>>

\* set_one_shot, from the running system.
SetOneShot ==
  /\ phase = "off" /\ requests > 0
  /\ requests' = requests - 1
  /\ oneShot' \in Entries
  /\ fired' = 0
  /\ UNCHANGED <<order, phase, caller, faults, drifts, left, before, misread>>

\* take_one_shot, its read: nothing there, an id, or an error.
ReadOneShot ==
  /\ phase = "off"
  /\ before' = OptionsOf(ReadBootOrder)
  /\ \/ /\ oneShot \in Entries
        /\ phase' = "taking" /\ taking' = oneShot
        /\ UNCHANGED faults
     \/ /\ oneShot \notin Entries
        /\ phase' = "taken" /\ UNCHANGED <<taking, faults>>
     \/ CallFails /\ phase' = "taken" /\ UNCHANGED taking
  /\ UNCHANGED <<nvram, desired, plan, drifts, requests, left, misread, fired>>

\* The id is returned whether or not it could be deleted.
DeleteOneShotLax ==
  /\ phase = "taking"
  /\ phase' = "taken"
  /\ taking' = Absent
  /\ fired' = fired + 1
  /\ \/ oneShot' = Absent /\ UNCHANGED faults
     \/ CallFails /\ UNCHANGED oneShot
  /\ UNCHANGED <<order, desired, plan, drifts, requests, left, before, misread>>

\* take_one_shot, its delete: only then is the id returned.
DeleteOneShot ==
  /\ phase = "taking"
  /\ phase' = "taken"
  /\ taking' = Absent
  /\ \/ oneShot' = Absent /\ fired' = fired + 1 /\ UNCHANGED faults
     \/ CallFails /\ UNCHANGED <<oneShot, fired>>
  /\ UNCHANGED <<order, desired, plan, drifts, requests, left, before, misread>>

\* desired_with_myboot_first
Desire ==
  /\ phase = "taken"
  /\ phase' = "desired"
  /\ \E actual \in {ReadBootOrder, Absent} :
        Read(actual) /\ desired' = MyBootFirst(OptionsOf(actual))
  /\ UNCHANGED <<nvram, taking, plan, drifts, requests, left, before, fired>>

\* The snapshot is taken of what is wanted.
PlanSnapshotsDesired ==
  /\ phase = "desired"
  /\ phase' = "planned"
  /\ \E actual \in {ReadBootOrder, Absent} :
        /\ Read(actual)
        /\ plan' = [step |-> IF desired = OptionsOf(actual) THEN Absent ELSE desired,
                    snapshot |-> desired]
  /\ UNCHANGED <<nvram, taking, desired, drifts, requests, left, before, fired>>

\* An order that exists is taken for the wanted one.
PlanNothing ==
  /\ phase = "desired"
  /\ phase' = "planned"
  /\ \E actual \in {ReadBootOrder, Absent} :
        /\ Read(actual)
        /\ plan' = [step |-> IF actual = Absent THEN desired ELSE Absent, snapshot |-> actual]
  /\ UNCHANGED <<nvram, taking, desired, drifts, requests, left, before, fired>>

\* plan_boot_order: it reads again, and what it reads is the snapshot.
Plan ==
  /\ phase = "desired"
  /\ phase' = "planned"
  /\ \E actual \in {ReadBootOrder, Absent} :
        /\ Read(actual)
        /\ plan' = [step |-> IF desired = OptionsOf(actual) THEN Absent ELSE desired,
                    snapshot |-> actual]
  /\ UNCHANGED <<nvram, taking, desired, drifts, requests, left, before, fired>>

\* apply
Apply ==
  /\ phase = "planned"
  /\ \/ /\ plan.step = Absent
        /\ phase' = "done" /\ UNCHANGED <<order, faults>>
     \/ /\ plan.step # Absent
        /\ Store(EncodeBootOrder(plan.step))
        /\ phase' = "applied" /\ UNCHANGED faults
     \/ /\ plan.step # Absent
        /\ CallFails
        /\ phase' = "failed" /\ UNCHANGED order
  /\ UNCHANGED <<oneShot, caller, drifts, requests, history>>

\* The caller reads the order back and compares.
Verify ==
  /\ phase = "applied"
  /\ \/ phase' = (IF ReadBootOrder = plan.step THEN "done" ELSE "failed") /\ UNCHANGED faults
     \/ CallFails /\ phase' = "failed"
  /\ UNCHANGED <<nvram, caller, drifts, requests, history>>

\* restore
Restore ==
  /\ phase = "failed"
  /\ \/ /\ IF plan.snapshot = Absent THEN order' = Absent
                                     ELSE Store(EncodeBootOrder(plan.snapshot))
        /\ phase' = "restored" /\ UNCHANGED faults
     \/ CallFails /\ phase' = "done" /\ UNCHANGED order
  /\ UNCHANGED <<oneShot, caller, drifts, requests, history>>

\* The machine goes off: when MyBoot is through, or at any moment before.
PowerOff ==
  /\ phase # "off"
  /\ IF phase \in {"done", "restored"} THEN UNCHANGED faults ELSE CallFails
  /\ phase' = "off"
  /\ taking' = Absent
  /\ desired' = <<>>
  /\ plan' = [step |-> Absent, snapshot |-> Absent]
  /\ UNCHANGED <<nvram, drifts, requests, history>>

Run == ReadOneShot \/ DeleteOneShot \/ Desire \/ Plan \/ Apply \/ Verify \/ Restore

Next == Run \/ PowerOff \/ Drift \/ SetOneShot

\* MyBoot's calls follow each other, and the machine is used: it is switched
\* off after a run and on again.  Nothing makes other systems write, and the
\* bound on faults lets every fault stop at some time.
Fairness == WF_vars(Run) /\ WF_vars(PowerOff /\ phase \in {"done", "restored"})

Spec == Init /\ [][Next]_vars /\ Fairness

-----------------------------------------------------------------------------
TypeOK ==
  /\ order \in Seq(Byte) \cup {Absent}
  /\ oneShot \in Entries \cup {Absent, Garbled}
  /\ phase \in {"off", "taking", "taken", "desired", "planned", "applied", "failed",
                "restored", "done"}
  /\ taking \in Entries \cup {Absent}
  /\ desired \in Seq(U16)
  /\ plan \in [step : Seq(U16) \cup {Absent}, snapshot : Seq(U16) \cup {Absent}]
  /\ faults \in Nat /\ drifts \in Nat /\ requests \in Nat /\ fired \in Nat
  /\ left \in Seq(U16) /\ before \in Seq(U16)
  /\ misread \in BOOLEAN

(* Whatever call fails and whenever the power goes, BootOrder is as other  *)
(* systems left it, or that with MyBoot at its head: no option is lost, and*)
(* those of other systems keep their order (reconcile.rs:62 "preserves the *)
(* relative order of everything else already present").  After a read of   *)
(* the order that failed this is not so, as it reads as an empty order     *)
(* (reconcile.rs:68, :98).                                                 *)
OthersKeepTheirOrder ==
  LET list == OptionsOf(ReadBootOrder) IN
  \/ misread
  \/ list = left
  \/ list # <<>> /\ Head(list) = MyBoot /\ Tail(list) = Others(left)

(* A run whose write or check failed, and whose restore went through, has  *)
(* left the order it found (reconcile.rs:87 "Restore the pre-reconciliation*)
(* state").                                                                *)
RestoreUndoes ==
  (phase = "restored" /\ ~misread) => OptionsOf(ReadBootOrder) = before

(* A one-shot request is honoured once, also when it cannot be deleted and *)
(* when the power goes between its read and its delete (nvram.rs:45 "The   *)
(* one-shot entry is consumed on read").                                   *)
OneShotFiresOnce == fired <= 1

(* Once nothing rewrites the order and no call fails any more, MyBoot is   *)
(* first in it for good (reconcile.rs:63 "the drift-repair policy").       *)
DriftIsRepaired ==
  <>[](LET list == OptionsOf(ReadBootOrder) IN list # <<>> /\ Head(list) = MyBoot)
=============================================================================
