------------------------- MODULE TransactionProofs -------------------------
(***************************************************************************)
(* What holds of the boot transaction for every set of entries, every      *)
(* graph and every attempt budget.                                         *)
(***************************************************************************)
EXTENDS Transaction, Lemmas

(* Every phase has a selection the graph knew, and every graph a caller    *)
(* passes only lists entries of the universe.                              *)
LEMMA ListedAreEntries ==
  ASSUME NEW g \in Graphs
  PROVE  /\ g \in Graph
         /\ Listed(g) \subseteq Entry
         /\ BootableEntries(g) \subseteq Entry
<1>1. g \in Graph
  BY GraphsAssumption
<1>2. \A i \in DOMAIN g.rows : g.rows[i] \in Entry
  BY <1>1 DEF Graph
<1> QED
  BY <1>1, <1>2 DEF Listed, BootableEntries

(* pick_fallback returns an entry that can boot, and returns one whenever  *)
(* the graph has one.                                                      *)
LEMMA FallbackCanBoot ==
  ASSUME NEW g \in Graphs, NEW e \in Entry, IsFallback(g, e)
  PROVE  CanBoot(g, e)
BY DEF IsFallback, CanBoot, Others, IsFirstOf

(* pick_fallback() returns None only when no bootable entry has attempts.  *)
LEMMA FallbackExists ==
  ASSUME NEW g \in Graphs, NEW e \in Entry, CanBoot(g, e)
  PROVE  \E f \in Entry : IsFallback(g, f)
<1>1. CASE lastGood # NoEntry /\ CanBoot(g, lastGood)
  BY <1>1, ListedAreEntries DEF IsFallback, CanBoot
<1>2. CASE ~(lastGood # NoEntry /\ CanBoot(g, lastGood)) /\ Others(g) # {}
  <2>1. Others(g) \subseteq Listed(g)
    BY DEF Others, BootableEntries
  <2>2. PICK f \in Others(g) : IsFirstOf(g, f, Others(g))
    BY <1>2, <2>1, ListedAreEntries, FirstExists
  <2> QED
    BY <1>2, <2>1, <2>2, ListedAreEntries DEF IsFallback
<1>3. CASE ~(lastGood # NoEntry /\ CanBoot(g, lastGood)) /\ Others(g) = {}
  BY <1>3 DEF IsFallback, Others, CanBoot
<1> QED
  BY <1>1, <1>2, <1>3

-----------------------------------------------------------------------------

(* new() builds a well-typed machine.                                      *)
LEMMA InitTypeOK == Init => TypeOK
<1> SUFFICES ASSUME Init PROVE TypeOK
  OBVIOUS
<1>1. triesLeft \in [Entry -> 0..255] /\ granted \in [Entry -> 0..255]
  BY SeedsAssumption DEF Init
<1>2. handoffs \in [Entry -> Nat]
  BY DEF Init
<1> QED
  BY <1>1, <1>2 DEF Init, TypeOK, Phases, MaybeEntry

(* Each method keeps the types of the fields.                              *)
LEMMA NextTypeOK == TypeOK /\ [Next]_vars => TypeOK'
<1> SUFFICES ASSUME TypeOK, [Next]_vars PROVE TypeOK'
  OBVIOUS
<1> USE MaxTriesAssumption DEF TypeOK, Phases, MaybeEntry
<1>1. ASSUME NEW e \in Entry, Select(e) PROVE TypeOK'
  BY <1>1 DEF Select
<1>2. CASE Validate
  BY <1>2 DEF Validate
<1>3. CASE Stage
  BY <1>3 DEF Stage
<1>4. CASE Launch
  BY <1>4 DEF Launch
<1>5. CASE ConfirmSuccess
  BY <1>5 DEF ConfirmSuccess
<1>6. CASE DetectFailure
  BY <1>6 DEF DetectFailure
<1>7. ASSUME NEW g \in Graphs, RollBack(g) PROVE TypeOK'
  BY <1>7 DEF RollBack
<1>8. ASSUME NEW g \in Graphs, Recover(g) PROVE TypeOK'
  BY <1>8 DEF Recover
<1>9. CASE UNCHANGED vars
  BY <1>9 DEF vars
<1> QED
  BY <1>1, <1>2, <1>3, <1>4, <1>5, <1>6, <1>7, <1>8, <1>9
  DEF Next, StartAttempt, Resolve

(* The fields of a transaction have their types: no count leaves a u8.     *)
THEOREM TypeCorrect == Spec => []TypeOK
<1> QED
  BY InitTypeOK, NextTypeOK, PTL DEF Spec

-----------------------------------------------------------------------------

(* What makes the three safety properties inductive: an attempt is only    *)
(* staged while one remains, a launch has happened whenever the machine    *)
(* says so, and recovery means that no bootable entry has an attempt left. *)
LedgerInv ==
  /\ AttemptLedger
  /\ phase = "Validated" => triesLeft[selected] > 0
  /\ phase = "Launched" => handoffs[selected] > 0
  /\ CommitFollowsLaunch
  /\ phase = "Recovery" =>
       \E g \in Graphs : \A e \in BootableEntries(g) : triesLeft[e] = 0

(* new() starts with a balanced ledger.                                    *)
LEMMA InitLedger == Init => LedgerInv
<1> SUFFICES ASSUME Init PROVE LedgerInv
  OBVIOUS
<1>1. \A e \in Entry : /\ triesLeft[e] \in 0..255
                       /\ granted[e] = triesLeft[e]
                       /\ handoffs[e] = 0
  BY SeedsAssumption DEF Init
<1>2. AttemptLedger
  <2>1. \A e \in Entry : triesLeft[e] + handoffs[e] + 0 = granted[e]
    <3> TAKE e \in Entry
    <3>1. triesLeft[e] \in Int /\ granted[e] = triesLeft[e] /\ handoffs[e] = 0
      BY <1>1
    <3> QED
      BY <3>1
  <2>2. phase = "Idle"
    BY DEF Init
  <2> QED
    BY <2>1, <2>2 DEF AttemptLedger
<1> QED
  BY <1>2 DEF LedgerInv, CommitFollowsLaunch, Init

(* Every method of the machine keeps the ledger.                           *)
LEMMA NextLedger == TypeOK /\ LedgerInv /\ [Next]_vars => LedgerInv'
<1> SUFFICES ASSUME TypeOK, LedgerInv, [Next]_vars PROVE LedgerInv'
  OBVIOUS
<1> USE NoEntryAssumption, MaxTriesAssumption
    DEF TypeOK, LedgerInv, AttemptLedger, CommitFollowsLaunch, MaybeEntry
<1>1. ASSUME NEW e \in Entry, Select(e) PROVE LedgerInv'
  BY <1>1 DEF Select
<1>2. CASE Validate
  BY <1>2 DEF Validate, CanBoot
<1>3. CASE Stage
  <2>1. /\ phase = "Validated" /\ phase' = "Staged"
        /\ selected \in Entry
        /\ UNCHANGED <<selected, lastGood, committed, granted, handoffs>>
    BY <1>3 DEF Stage
  <2>2. triesLeft[selected] \in 0..255 /\ triesLeft[selected] # 0
    BY <2>1
  <2>3. triesLeft' = [triesLeft EXCEPT ![selected] = triesLeft[selected] - 1]
    BY <1>3, <2>2 DEF Stage
  <2> QED
    BY <2>1, <2>3
<1>4. CASE Launch
  <2>1. /\ phase = "Staged" /\ phase' = "Launched" /\ selected \in Entry
        /\ handoffs' = [handoffs EXCEPT ![selected] = handoffs[selected] + 1]
        /\ UNCHANGED <<selected, triesLeft, lastGood, committed, granted>>
    BY <1>4 DEF Launch
  <2> QED
    BY <2>1
<1>5. CASE ConfirmSuccess
  BY <1>5 DEF ConfirmSuccess
<1>6. CASE DetectFailure
  BY <1>6 DEF DetectFailure
<1>7. ASSUME NEW g \in Graphs, RollBack(g) PROVE LedgerInv'
  BY <1>7 DEF RollBack
<1>8. ASSUME NEW g \in Graphs, Recover(g) PROVE LedgerInv'
  <2>1. \A e \in BootableEntries(g) : e \in Entry /\ ~CanBoot(g, e)
    BY <1>8, FallbackExists, ListedAreEntries DEF Recover
  <2>2. \A e \in BootableEntries(g) : triesLeft[e] = 0
    BY <2>1 DEF CanBoot
  <2>3. /\ phase = "Failed" /\ phase' = "Recovery"
        /\ UNCHANGED <<selected, triesLeft, lastGood, committed, granted, handoffs>>
    BY <1>8 DEF Recover
  <2>4. (\E h \in Graphs : \A e \in BootableEntries(h) : triesLeft[e] = 0)'
    BY <2>2, <2>3 DEF BootableEntries, Listed
  <2> QED
    BY <2>3, <2>4
<1>9. CASE UNCHANGED vars
  BY <1>9 DEF vars
<1> QED
  BY <1>1, <1>2, <1>3, <1>4, <1>5, <1>6, <1>7, <1>8, <1>9
  DEF Next, StartAttempt, Resolve

(* The inductive invariant from which the three results below follow.      *)
THEOREM LedgerCorrect == Spec => []LedgerInv
<1> QED
  BY TypeCorrect, InitLedger, NextLedger, PTL DEF Spec

(* The hard rule: an attempt is charged before every handoff, and no       *)
(* sequence of failures and rollbacks changes an entry's total.            *)
THEOREM AttemptsAreAccounted == Spec => []AttemptLedger
<1>1. LedgerInv => AttemptLedger
  BY DEF LedgerInv
<1> QED
  BY <1>1, LedgerCorrect, PTL

(* An entry is recorded as good only after it was launched.                *)
THEOREM CommitIsEarned == Spec => []CommitFollowsLaunch
<1>1. LedgerInv => CommitFollowsLaunch
  BY DEF LedgerInv
<1> QED
  BY <1>1, LedgerCorrect, PTL

(* Recovery is entered only when every attempt granted has been used.      *)
THEOREM RecoveryIsJustified == Spec => []RecoveryIsLastResort
<1>1. TypeOK /\ LedgerInv => RecoveryIsLastResort
  <2> SUFFICES ASSUME TypeOK, LedgerInv, phase = "Recovery"
               PROVE  \E g \in Graphs : \A e \in BootableEntries(g) :
                        handoffs[e] = granted[e]
    BY DEF RecoveryIsLastResort
  <2>1. PICK g \in Graphs : \A e \in BootableEntries(g) : triesLeft[e] = 0
    BY DEF LedgerInv
  <2>2. ASSUME NEW e \in BootableEntries(g)
        PROVE  handoffs[e] = granted[e]
    <3>1. /\ e \in Entry
          /\ triesLeft[e] = 0
          /\ handoffs[e] \in Nat
      BY <2>1, ListedAreEntries DEF TypeOK
    <3>2. triesLeft[e] + handoffs[e] + 0 = granted[e]
      BY <3>1 DEF LedgerInv, AttemptLedger
    <3> QED
      BY <3>1, <3>2
  <2> QED
    BY <2>2
<1> QED
  BY <1>1, TypeCorrect, LedgerCorrect, PTL
-----------------------------------------------------------------------------
(* The boot transaction implements the design published with the code      *)
(* (BootContract), for every graph, as long as its caller passes the same  *)
(* graph to every call, which is what the engine does.                     *)

(* Once an attempt has begun its entry is one that health lets boot.       *)
SelectionInv == phase # "Idle" => selected \in Candidates

(* Once something was selected, it is an entry of the graph that health lets *)
(* boot: the contract never hears of any other.                            *)
LEMMA SelectionCorrect ==
  ASSUME Graphs = {TheGraph}
  PROVE  Spec => []SelectionInv
<1>1. Init => SelectionInv
  BY DEF Init, SelectionInv
<1>2. TypeOK /\ SelectionInv /\ [Next]_vars => SelectionInv'
  <2> SUFFICES ASSUME TypeOK, SelectionInv, [Next]_vars PROVE SelectionInv'
    OBVIOUS
  <2> USE DEF SelectionInv
  <2>1. ASSUME NEW e \in Entry, Select(e) PROVE SelectionInv'
    BY <2>1 DEF Select, CanBoot, Candidates
  <2>2. CASE Validate \/ Stage \/ Launch \/ ConfirmSuccess \/ DetectFailure
    BY <2>2 DEF Validate, Stage, Launch, ConfirmSuccess, DetectFailure
  <2>3. ASSUME NEW g \in Graphs, RollBack(g) PROVE SelectionInv'
    <3>1. PICK e \in Entry : IsFallback(g, e) /\ selected' = e
      BY <2>3 DEF RollBack
    <3>2. e \in Candidates
      BY <3>1, FallbackCanBoot DEF CanBoot, Candidates
    <3> QED
      BY <3>1, <3>2
  <2>4. ASSUME NEW g \in Graphs, Recover(g) PROVE SelectionInv'
    BY <2>4 DEF Recover
  <2>5. CASE UNCHANGED vars
    BY <2>5 DEF vars
  <2> QED
    BY <2>1, <2>2, <2>3, <2>4, <2>5 DEF Next, StartAttempt, Resolve
<1> QED
  BY <1>1, <1>2, TypeCorrect, PTL DEF Spec

-----------------------------------------------------------------------------

(* The contract's entries are entries.                                     *)
LEMMA CandidatesAreEntries ==
  ASSUME Graphs = {TheGraph}
  PROVE  TheGraph \in Graphs /\ Candidates \subseteq Entry /\ NoEntry \notin Candidates
BY ListedAreEntries, NoEntryAssumption DEF Candidates

(* new() maps to an initial state of the published design.                 *)
LEMMA InitRefines ==
  ASSUME Graphs = {TheGraph}
  PROVE  Init => Contract!Init
<1> SUFFICES ASSUME Init PROVE Contract!Init
  OBVIOUS
<1>1. \A e \in Entry : triesLeft[e] \in 0..255
  BY SeedsAssumption DEF Init
<1>2. [e \in Candidates |-> triesLeft[e]] \in [Candidates -> 0..255]
  BY <1>1, CandidatesAreEntries
<1> QED
  BY <1>2 DEF Init, Contract!Init, Candidates

(* Every method of the code is the contract's action of the same name.     *)
LEMMA NextRefines ==
  ASSUME Graphs = {TheGraph}
  PROVE  TypeOK /\ LedgerInv /\ SelectionInv /\ [Next]_vars
           => [Contract!Next]_(Contract!vars)
<1> SUFFICES ASSUME TypeOK, LedgerInv, SelectionInv, [Next]_vars
             PROVE  Contract!Next \/ UNCHANGED Contract!vars
  OBVIOUS
<1> DEFINE Left == [e \in Candidates |-> triesLeft[e]]
           Good == IF lastGood \in Candidates THEN lastGood ELSE NoEntry
<1>0. /\ TheGraph \in Graphs
      /\ Candidates \subseteq Entry
      /\ NoEntry \notin Candidates
  BY CandidatesAreEntries
<1>a. \A e : Contract!Bootable(e) <=> e \in Candidates /\ triesLeft[e] > 0
  BY DEF Contract!Bootable, Candidates
<1>b. \A e : CanBoot(TheGraph, e) <=> Contract!Bootable(e)
  BY <1>a DEF CanBoot, Candidates
<1>1. ASSUME NEW e \in Entry, Select(e) PROVE Contract!Select(e) /\ e \in Candidates
  BY <1>1, <1>a, <1>b DEF Select, Contract!Select
<1>2. CASE Validate
  <2>1. Contract!Validate
    BY <1>2, <1>b DEF Validate, Contract!Validate
  <2> QED
    BY <2>1 DEF Contract!Next
<1>3. CASE Stage
  <2>1. selected \in Candidates /\ triesLeft[selected] # 0
    BY <1>3, <1>0 DEF Stage, SelectionInv, LedgerInv, TypeOK
  <2>2. triesLeft' = [triesLeft EXCEPT ![selected] = triesLeft[selected] - 1]
    BY <1>3, <2>1 DEF Stage
  <2>3. Left' = [Left EXCEPT ![selected] = Left[selected] - 1]
    BY <2>1, <2>2, <1>0 DEF TypeOK, Candidates
  <2>4. Contract!Stage
    BY <1>3, <2>3 DEF Stage, Contract!Stage, Candidates
  <2> QED
    BY <2>4 DEF Contract!Next
<1>4. CASE Launch
  <2>1. Contract!Launch
    BY <1>4 DEF Launch, Contract!Launch
  <2> QED
    BY <2>1 DEF Contract!Next
<1>5. CASE ConfirmSuccess
  <2>1. selected \in Candidates
    BY <1>5 DEF ConfirmSuccess, SelectionInv
  <2>2. Left' = [Left EXCEPT ![selected] = MaxTries]
    BY <1>5, <2>1, <1>0 DEF ConfirmSuccess, TypeOK, Candidates
  <2>3. Good' = selected
    BY <1>5, <2>1 DEF ConfirmSuccess, Candidates
  <2>4. Contract!ConfirmSuccess
    BY <1>5, <2>2, <2>3 DEF ConfirmSuccess, Contract!ConfirmSuccess, Candidates
  <2> QED
    BY <2>4 DEF Contract!Next
<1>6. CASE DetectFailure
  <2>1. Contract!DetectFailure
    BY <1>6 DEF DetectFailure, Contract!DetectFailure
  <2> QED
    BY <2>1 DEF Contract!Next
<1>7. ASSUME NEW g \in Graphs, RollBack(g) PROVE Contract!Next
  <2>1. PICK e \in Entry : IsFallback(TheGraph, e) /\ selected' = e
    BY <1>7 DEF RollBack
  <2>2. Contract!Bootable(e) /\ e \in Candidates
    BY <2>1, <1>0, <1>a, <1>b, FallbackCanBoot
  <2>3. Contract!Bootable(Good) => e = Good
    BY <2>1, <1>a, <1>b, <1>0, NoEntryAssumption DEF IsFallback
  <2>4. Contract!RollBack(e)
    BY <1>7, <2>1, <2>2, <2>3 DEF RollBack, Contract!RollBack, Candidates
  <2> QED
    BY <2>2, <2>4 DEF Contract!Next, Candidates
<1>8. ASSUME NEW g \in Graphs, Recover(g) PROVE Contract!Next
  <2>1. \A e \in Candidates : ~Contract!Bootable(e)
    BY <1>8, <1>0, <1>b, FallbackExists DEF Recover
  <2>2. Contract!Recover
    BY <1>8, <2>1 DEF Recover, Contract!Recover, Candidates
  <2> QED
    BY <2>2 DEF Contract!Next
<1>9. CASE UNCHANGED vars
  BY <1>9 DEF vars, Contract!vars
<1> QED
  BY <1>1, <1>2, <1>3, <1>4, <1>5, <1>6, <1>7, <1>8, <1>9
  DEF Next, StartAttempt, Resolve, Contract!Next, Candidates

(* Every behaviour of the code is one the published design allows.         *)
THEOREM ImplementsPublishedDesign ==
  ASSUME Graphs = {TheGraph}
  PROVE  Spec => ImplementsContract
<1> QED
  BY TypeCorrect, LedgerCorrect, SelectionCorrect, InitRefines, NextRefines, PTL
  DEF Spec, ImplementsContract, Contract!Spec
-----------------------------------------------------------------------------
(* For a caller that passes one graph, no run of the machine goes on for   *)
(* ever, and none is refused the validation of what was selected.          *)

(* What is selected can be booted until its attempt is charged.            *)
ReadyInv == phase = "Selected" => CanBoot(TheGraph, selected)

(* validate() never refuses what select() or resolve() chose: a fallback   *)
(* can be booted, however many failures came before.                       *)
THEOREM SelectionStaysValid ==
  ASSUME Graphs = {TheGraph}
  PROVE  Spec => []ReadyInv
<1>1. Init => ReadyInv
  BY DEF Init, ReadyInv
<1>2. TypeOK /\ ReadyInv /\ [Next]_vars => ReadyInv'
  <2> SUFFICES ASSUME TypeOK, ReadyInv, [Next]_vars PROVE ReadyInv'
    OBVIOUS
  <2> USE DEF ReadyInv, CanBoot
  <2>1. ASSUME NEW e \in Entry, Select(e) PROVE ReadyInv'
    BY <2>1 DEF Select
  <2>2. CASE Validate \/ Stage \/ Launch \/ ConfirmSuccess \/ DetectFailure
    BY <2>2 DEF Validate, Stage, Launch, ConfirmSuccess, DetectFailure
  <2>3. ASSUME NEW g \in Graphs, RollBack(g) PROVE ReadyInv'
    <3>1. PICK e \in Entry : IsFallback(g, e) /\ selected' = e
      BY <2>3 DEF RollBack
    <3>2. e \in BootableEntries(TheGraph) /\ triesLeft[e] > 0
      BY <3>1, FallbackCanBoot
    <3> QED
      BY <2>3, <3>1, <3>2 DEF RollBack
  <2>4. ASSUME NEW g \in Graphs, Recover(g) PROVE ReadyInv'
    BY <2>4 DEF Recover
  <2>5. CASE UNCHANGED vars
    BY <2>5 DEF vars
  <2> QED
    BY <2>1, <2>2, <2>3, <2>4, <2>5 DEF Next, StartAttempt, Resolve
<1> QED
  BY <1>1, <1>2, TypeCorrect, PTL DEF Spec

(* There are finitely many attempts.                                       *)
LEMMA AttemptsAreFinite ==
  ASSUME Graphs = {TheGraph}
  PROVE  IsFiniteSet(Attempts) /\ Cardinality(Attempts) \in Nat
<1>1. IsFiniteSet(Candidates)
  BY ListedAreEntries, ListedIsEntry, ListedCount DEF Candidates
<1>2. IsFiniteSet(1..255)
  <2>1. 1 \in Int /\ 255 \in Int
    OBVIOUS
  <2> QED
    BY <2>1, FS_Interval
<1>3. IsFiniteSet(Candidates \X (1..255))
  BY <1>1, <1>2, FS_Product
<1>4. Attempts \subseteq Candidates \X (1..255)
  BY DEF Attempts
<1> QED
  BY <1>3, <1>4, FS_Subset, FS_CardinalityType

(* The calls to come are a number.                                         *)
LEMMA CallsAreCounted ==
  ASSUME Graphs = {TheGraph}
  PROVE  CallsLeft \in Nat
<1>1. 5 * Cardinality(Attempts) \in Nat
  BY AttemptsAreFinite
<1>2. Rank \in 0..5
  BY DEF Rank
<1> QED
  BY <1>1, <1>2 DEF CallsLeft

(* stage() takes one attempt away, from the selected entry.                *)
LEMMA StageTakesOne ==
  ASSUME Graphs = {TheGraph}, TypeOK, LedgerInv, SelectionInv, Stage
  PROVE  Cardinality(Attempts') = Cardinality(Attempts) - 1
<1> DEFINE n == triesLeft[selected]
<1>1. selected \in Candidates /\ selected \in Entry /\ Candidates \subseteq Entry
  BY CandidatesAreEntries DEF Stage, SelectionInv, TypeOK
<1>2. n \in 1..255
  BY <1>1 DEF Stage, LedgerInv, TypeOK
<1>3. /\ triesLeft'[selected] = n - 1
      /\ \A e \in Candidates : e # selected => triesLeft'[e] = triesLeft[e]
  BY <1>1, <1>2 DEF Stage, TypeOK
<1>4. <<selected, n>> \in Attempts
  BY <1>1, <1>2 DEF Attempts
<1>5. Attempts' = {p \in Candidates \X (1..255) : p[2] <= triesLeft'[p[1]]}
  BY DEF Attempts, Candidates
<1>6. ASSUME NEW p \in Candidates \X (1..255)
      PROVE  p \in Attempts' <=> p \in Attempts /\ p # <<selected, n>>
  <2>1. PICK e \in Candidates, k \in 1..255 : p = <<e, k>>
    OBVIOUS
  <2>2. CASE e = selected
    <3>1. /\ p \in Attempts' <=> k <= n - 1
          /\ p \in Attempts <=> k <= n
      BY <1>3, <1>5, <2>1, <2>2 DEF Attempts
    <3>2. k <= n - 1 <=> k <= n /\ k # n
      BY <1>2
    <3>3. p # <<selected, n>> <=> k # n
      BY <2>1, <2>2
    <3> QED
      BY <3>1, <3>2, <3>3
  <2>3. CASE e # selected
    BY <1>3, <1>5, <2>1, <2>3 DEF Attempts
  <2> QED
    BY <2>2, <2>3
<1>7. Attempts' = Attempts \ {<<selected, n>>}
  BY <1>5, <1>6 DEF Attempts
<1> QED
  BY <1>4, <1>7, AttemptsAreFinite, FS_RemoveElement

(* Every call that the machine accepts brings the calls to come down: no   *)
(* sequence of failures and rollbacks keeps it going, for any budget.      *)
THEOREM EveryCallCounts ==
  ASSUME Graphs = {TheGraph}
  PROVE  Spec => NoEndlessRun
<1>1. CallsLeft \in Nat
  BY CallsAreCounted
<1>2. TypeOK /\ LedgerInv /\ SelectionInv /\ (CallsLeft \in Nat)' /\ [Next]_vars
        => [CallsLeft' \in 0..(CallsLeft - 1)]_vars
  <2> SUFFICES ASSUME TypeOK, LedgerInv, SelectionInv, (CallsLeft \in Nat)', Next
               PROVE  CallsLeft' \in 0..(CallsLeft - 1)
    OBVIOUS
  <2> SUFFICES CallsLeft' < CallsLeft
    BY <1>1
  <2> USE DEF CallsLeft, IsTerminal, Rank
  <2>1. Cardinality(Attempts) \in Nat
    BY AttemptsAreFinite
  <2>2. UNCHANGED triesLeft => Attempts' = Attempts
    BY DEF Attempts, Candidates
  <2>3. ASSUME NEW e \in Entry, Select(e) PROVE CallsLeft' < CallsLeft
    BY <2>1, <2>2, <2>3 DEF Select
  <2>4. CASE Validate
    BY <2>1, <2>2, <2>4 DEF Validate
  <2>5. CASE Stage
    <3>1. phase = "Validated" /\ phase' = "Staged"
      BY <2>5 DEF Stage
    <3> QED
      BY <2>1, <2>5, <3>1, StageTakesOne
  <2>6. CASE Launch
    BY <2>1, <2>2, <2>6 DEF Launch
  <2>7. CASE ConfirmSuccess
    BY <2>1, <2>7 DEF ConfirmSuccess
  <2>8. CASE DetectFailure
    BY <2>1, <2>2, <2>8 DEF DetectFailure
  <2>9. ASSUME NEW g \in Graphs, RollBack(g) \/ Recover(g)
        PROVE  CallsLeft' < CallsLeft
    BY <2>1, <2>2, <2>9 DEF RollBack, Recover
  <2> QED
    BY <2>3, <2>4, <2>5, <2>6, <2>7, <2>8, <2>9 DEF Next, StartAttempt, Resolve
<1> QED
  BY <1>1, <1>2, TypeCorrect, LedgerCorrect, SelectionCorrect, PTL DEF Spec, NoEndlessRun
=============================================================================
