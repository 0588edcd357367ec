# MyBoot: a verification project

TLA+ models of MyBoot, a UEFI boot manager in Rust (`src/`), checked with TLC
on small instances and, for the properties that matter most, proved with TLAPS
for every value of the constants. File names below are relative to
`src/crates/` unless they start with another directory of `src/`.

Contents: 1 the system, 2 the modules, 3 the runs, 4 bounds, 5 fairness,
6 the proofs, 7 what the checks found, 8 what is not modelled, 9 the plan.

## 1. The system

MyBoot is one sequential program that runs once per power-on
(`engine/src/pipeline.rs`, `run()`), a host tool that runs in the systems it
boots (`host-cli`), and state that both share through NVRAM variables and the
EFI system partition. One power-on goes through these stages:

    read the marker -> discover -> assess -> exclude itself -> reconcile the
    previous boot -> configuration -> decide -> present the menu ->
    for each candidate: plan, charge the attempt, arm the marker, hand off
    -> (all handoffs failed) return an error to the firmware

What makes it hard is not threads, of which it has none, but that the program
is cut off by its own success: a handoff that works never returns. Whether the
boot worked is known only at a later power-on, from what NVRAM kept; power can
go at any point; firmware calls fail and most errors are dropped on purpose;
what was found on the disks may be gone when it is used; and a person may press
any key at any time, or none.

| Component | State it keeps | Operations | Interacts with | What makes it correct |
|---|---|---|---|---|
| Boot transaction `transaction/src/lib.rs` | phase, selection, attempts left, last good, committed | select, validate, stage, launch, confirm, detect failure, resolve | the pipeline makes one per candidate and takes it up to the launch; the rest has no caller outside the tests | every attempt is charged before the handoff; nothing is committed that was not launched; it enters recovery only as a last resort, and no failures and rollbacks keep it going for ever; it implements the published design |
| Boot marker `transaction/src/marker.rs` | NVRAM `BootAttempt` | arm, read, clear | pipeline; `bless` flips it | at a handoff it names the entry handed off to |
| NVRAM store `persistence/src/nvram.rs` | NVRAM `LastGood`, `Default`, `OneShot` | read, write, take | pipeline (`LastGood` only) | `LastGood` is an entry that ran and was confirmed; a one-shot request is honoured once |
| Pipeline `engine/src/pipeline.rs` | the stage | the stages above | all of the others | never a dead end: every candidate is tried once, and it ends |
| Boot Graph `graph` | entries with id, health, method, volume | find, list, retain | filled by discovery, marked by health, read by all | one entry for each loader of each disk |
| Discovery `discovery` | raw entries while scanning | four sources per volume and the firmware's options; merge | file and variable ports | nothing bootable is lost, nothing unplannable is kept |
| Health `health` | none (writes into the graph) | assess every entry | file port, all volumes | what is bootable can be found at the handoff |
| Providers `providers` | none | a launch plan per method | pipeline | a bootable entry has a plan |
| Policy `policy` | none | decide, rank | graph, NVRAM, configuration | deterministic; the reason it gives is true; something bootable is chosen if there is anything |
| Menu, recovery screen `ui-gfx` | cursor; rows | keys | driven by the pipeline's loops, which own the countdown | what is returned can be booted; a key stops the countdown; no key ends in the decided boot |
| Volumes `platform/src/volume` | handles | exists, read, chainload on a volume | firmware, disks that come and go | the right disk's copy is started, and never MyBoot |
| Configuration `config` | `config.toml` | parse, validate | pipeline, host tool | an accepted file is obeyed; what `install` writes is accepted |
| Boot order `config/src/reconcile.rs`, `persistence/src/loadopt.rs` | NVRAM `BootOrder` | desire, plan with a snapshot, apply, restore | other systems rewrite the variable; nobody calls it in the engine yet | no option is lost or reordered, a restore is exact, MyBoot ends up first |
| Security policy `security` | none | decide whether a launch is allowed | nobody yet | a table |
| Direct boot `engine/src/direct_boot.rs`, `arch` | pages, the zero page | load, fill, exit boot services, jump | MyBoot's own volume, the firmware's page allocator | what is copied stays apart, and the kernel is told its files and its memory truly |
| Drawing `ui-gfx/src/render.rs` | none | draw the menu, the recovery screen | cursors of both, a framebuffer of any size | the row that Enter boots can be seen |
| Boot log `persistence/src/log.rs` | a file on the ESP | render and append, parse | file port; read by the shell | a partial write costs little |
| Recovery shell `ui-shell/src/commands` | none; a session's graph | list, inspect, boot, default, verify, log, reboot | graph, log; the engine does not open it yet | a command means the entry its user meant |
| Storage parsers `storage` | none | parse GPT, MBR, FAT, PE headers | discovery (PE only) | total on any bytes |
| Host tool `host-cli` | files on the ESP, `BootAttempt` | bless, install, uninstall, status, config, boot-order | NVRAM, ESP | confirms the boot that is running |
| Installers, `pyboot`, `xtask` | - | - | - | outside the boot path |

The hazards that follow from this, each at its line and with the properties
that would catch it, are in `PROJECT.json`.

## 2. The modules

    BootGraph ---- Transaction ---- (refines) BootContract
        |
      Policy ---- Config ---- Decision
        |
       Menu ----- Present ---- Screen
        |
      BootCycle

    Discovery ---- Disks        BootLog ---- RecoveryShell

    BootOrder                   DirectBoot

A line is an EXTENDS, the simpler module being extended.

**BootGraph** is the Boot Graph as its readers see it: the rows in listing
order, each entry's health, and which entries have a launch plan. Modules above
it take the set of possible graphs as a constant, so a property holds for
whatever discovery may produce, and the graph can differ from one power-on, or
one call, to the next.

**Transaction** has one action per method of `Transaction` that returns `Ok`; a
method that returns `Err` changes nothing and is a stuttering step. `resolve()`
is two actions, `RollBack` and `Recover`, as in the published design. Two
history variables, `granted` and `handoffs`, keep the books. The module says
what any caller can make of the methods, not that one goes on calling:
`run()` makes a transaction for each candidate, calls `select`, `validate`,
`stage` and `launch`, and leaves it there (7.16).
**BootContract** states the published design (`spec/tla/BootTransaction.tla` of
the repository) as an abstract specification: entries, attempts and phases,
with no graph, no order among the fallbacks and no integer width. Transaction
implements it under the mapping at its end: the contract's entries are the
bootable ones, its `lastGood` hides one that is not bootable.

**Policy** translates `decide()`, `ranked_candidates()` and `pick_healthiest()`
as operators, and the order in which the attempt loop goes. **Config**
translates the TOML subset, line by line, the schema, the configuration
`install` writes and the check of `myboot config`. **Decision** puts them in
order: on the host, `Install`, `Uninstall` and `Edit` leave a file on MyBoot's
volume, while another volume may hold one too; at the power-on `LoadConfig`
reads the first there is and makes history and strategy of it, `DecideDefault`
decides, and `BuildAttempts` lists the candidates. The properties compare the
code's loop over the lines, `Document`, with definitions that quantify over
them. `pick_healthiest()` is there twice, as the loop it is (`ScanHealthiest`)
and as what it finds (`PickHealthiest`, which the modules above use). That they
agree is an assumption of MCDecision, which TLC evaluates on all its graphs, and
a theorem for every graph (`ScanFindsTheHealthiest`).

**Menu** has the arithmetic of the two cursors and what a countdown or a
machine without a screen returns. **Present** is the event loop of `present()`:
one action per event (a tick, the end of the countdown, each key's branch) on
each of the screens (menu, command line editor, recovery), up to what it
returns. **Screen** is what `render.rs` draws in either of them: the boxes and
texts as a set of rectangles on layers, what is drawn later on the higher one,
computed from the size of the framebuffer by the code's own arithmetic
(saturating subtractions included). A title carries the row it names, so "the
user sees the row" is a statement about rectangles that those on the layers
above leave uncovered.

**BootCycle** composes them across power-ons: marker and `LastGood` survive,
everything else does not. `PowerOn` reads the marker, `RecordGood` and
`ClearMarker` are the two writes of `reconcile_previous_boot()`, `Choose` is
policy and menu, `Skip`, `Arm`, `HandoffFails`, `HandoffSucceeds` and `GiveUp`
are the attempt loop. Around it are the firmware, which can start any system by
itself, `bless` in the running system, and `PowerOff`, possible between any two
steps. Steps that touch no NVRAM variable are merged with the next one that
does, as a loss of power cannot tell them apart. Whether NVRAM calls can fail
(`Reliable`), which systems run `bless` (`Blessers`, `NamedBless`) and whether
someone is at the keyboard (`Attended`) are constants. A failing write leaves
the old value, a failing read is read as absent, which is what the code does
with either. The transaction inside the loop is a fresh one per candidate with
the full budget, because `load_tries()` returns an empty map: so its `select`
refuses only what is not bootable, and it shows here as `Launchable`.

**Discovery** has the sources, the merge by id, the health rules and the image
a provider plans, as operators on records; **Disks** is one power-on over
several disks: the volumes are scanned one by one, the graph is built,
assessed and stripped of MyBoot itself, and each handoff looks for its image
again, by the volume id and path that the entry kept. `Unplug` can take any
disk but MyBoot's own between any two steps. Titles, and with them the sort
order, are left out, so here the graph is a set and any bootable entry may be
tried first.

**BootOrder** has the three parts of NVRAM that the pipeline does not use yet
but the crates implement: the one-shot request, and the repair of `BootOrder`
over the codec of `loadopt.rs`, bytes and all. `Desire`, `Plan`, `Apply` and
`Restore` are the functions of `reconcile.rs`; `ReadOneShot` and `DeleteOneShot`
are the two calls of `take_one_shot()`. `Verify` and the sequence they come in
are the caller's part, as the comment on `apply()` leaves it to it
(reconcile.rs:74-75), and external. Any call may fail, a read that fails is used
as the code uses it (as an absent variable), the power may go between any two
calls, and between two runs `Drift` is another system writing an order of its own.

**DirectBoot** is `launch()` of `direct_boot.rs`, one action per numbered
comment of the function and one per way out of it. Memory is a row of page
frames with types; the firmware's choices - which free run of pages it hands
out, how it cuts memory into descriptors and in which order it lists them - are
free. Sizes are scaled (a page is two units), the order among them is kept.

**BootLog** has a file of symbols that appends extend, whole or cut at any
symbol, a character of two bytes included, and the parser of `log.rs`: a loop
over the symbols that keeps the records so far and the line it is in, numbers
written digit by digit and read back with the width they have (a number too
large for a u64 makes its line no record).
**RecoveryShell** runs sessions over it: one action per command, of which
`resolve()` - number, exact id, the only id that holds the text - is the core.
What a session asks of the engine is kept; what the engine would do about it is
not in the repository. Its specification is `ShellSpec`, since its proofs stand
in one module with those of BootOrder.

`MC*` modules hold the small instances. `TransactionProofs`, `DecisionProofs`,
`PresentProofs`, `BootCycleProofs`, `DisksProofs`, `DirectBootProofs` and
`PersistenceProofs` (BootOrder, BootLog and RecoveryShell) hold the theorems
about the components, and `Lemmas` the
facts about searching and looping, the policy and the menu that several of them
cite. Definitions whose name says what is wrong
with them (`StageUncharged`, `ArmIfAbsent`, `IsSelfNever`...) are variants that
the specification does not use; each stands before the definition it would
replace, and shows that some property tells the two apart.

## 3. The runs

| Run | Question | Result |
|---|---|---|
| `transaction` | Whoever calls it: does the transaction keep its books, commit only what it launched, recover only as a last resort, accept only a bounded number of calls, and implement the design? | holds |
| `decision` | Is an accepted configuration obeyed line by line, which of these does the host's check refuse, does the configured default get through to the decision, is the reason true and when is what was asked for passed over, does the attempt list name every bootable entry once, best first? | holds |
| `config_installed` | Is the configuration that `install` writes used? | violated (7.1) |
| `present` | After any keys: is what is returned bootable, is the row that Enter boots to be seen on the display, does a key stop the countdown for good, does an untouched countdown end, and in the decided boot if the top row is bootable? | holds |
| `present_timeout` | The last of these for any rows | violated (7.2) |
| `boot_cycle` | With working NVRAM and `bless` run by systems MyBoot started: does the marker name what runs, is `LastGood` earned, is no confirmation lost to a power cut? | holds |
| `boot_cycle_hostile` | With every NVRAM call allowed to fail and anyone blessing anything: is `LastGood` still only what someone blessed, does MyBoot give up only after trying everything, does each power-on end? | holds |
| `bless_after_fallback` | Is `LastGood` earned also when a system the firmware started runs `bless`? | violated (7.3) |
| `disks` | On two disks, one of which may be pulled at any time: can what is offered be planned and found, which loaders are not offered, from which disk is what is started, and is it never MyBoot itself, wherever that is installed? | holds |
| `boot_order` | Over failing calls, power losses and other systems' rewrites: is no option lost or moved, is a restore exact, does a one-shot request fire at most once, and is MyBoot first in the end? | holds |
| `direct_boot` | For any kernel file, placement and memory map: do the copies stay apart, and is the kernel told its files and its memory truly? | holds |
| `recovery_shell` | Does a torn append cost at most its record and the next, and does a command mean the one entry its user meant? | holds |

Some properties hold under a condition that is part of the statement, because
without it they do not hold:

- `UnattendedIsDecisionIfTopBoots`: the run `present_timeout` has the
  counterexample to `UnattendedIsDecision`.
- `HandoffIsOnRecord` and `LastGoodIsEarned` need working NVRAM: when
  `marker::arm` fails its error is dropped and the handoff goes on
  (pipeline.rs:154).
- The properties of `disks` other than `OfferedIsPlannable` speak of disks that
  were not pulled (7.5), `EveryLoaderIsOffered` and `RightDisk` also of volumes
  with distinct ids. `OfferedIsFound` leaves out kernels that are booted
  directly (7.14).
- `EveryLoaderIsOffered` excepts the fallback loader of MyBoot's own volume,
  which self-exclusion hides whether it is MyBoot or another system (7.6).
- `RightDisk` excepts kernels that the disk of their entry lacks (7.13) and
  kernels that are booted directly (7.14).
- `DecisionIsSound` lets a bootable configured default be passed over where
  there is a last good entry to go by, bootable or not (7.11).
- `NoFalseAlarm` excepts files in which a key has a `#` between quotes (7.15).
- `NoEndlessRun` and `ImplementsContract` are about a caller that passes the
  same graph to every call.
- `EnterIsSeen` speaks of rows for which the display has room (7.8): in the
  menu a card or the panel beside the list, in the recovery screen one of the
  twelve rows it draws, above the hint at its foot.
- `OthersKeepTheirOrder` and `RestoreUndoes` speak of runs in which no read of
  the order failed (7.9), `PartialWritesAreConfined` of a log that is still
  UTF-8 (7.10), `KernelIsTold` of addresses below 4 GiB (7.7).

## 4. Bounds

- *Transaction*: four entries - healthy, degraded, unbootable, healthy - in a
  listing order that is not their rank; every map of the seeds 0, 1, 3 and a
  budget of 2, so a seed can be exhausted, below and above the budget. That
  gives every branch of `pick_fallback()` with a rival for each.
- *Decision*: every health of up to three listed entries, and every last-good
  entry over three ids, so also ids that are not in the graph. Files: a plain
  configuration for each default and policy, and one with each deviation the
  parser or the schema knows - a repeated key, a repeated table, a setting below
  a header, values of a wrong type, at and beyond their limits, an undeclared
  default, a repeated entry, each kind of malformed line, a key with a quoted `#`
  on a line that the parser takes and on one that it does not. Two volumes are what
  reading the wrong one takes.
- *Present*: every health of up to three rows; timeouts 0, 1 and 3 (none, a
  single tick, several). Three rows are what the cursor needs to have rows
  before, at and after its place. Also a list of thirteen rows, the first of
  them unbootable: one more than the recovery screen draws, and more than the
  cards of any of the displays; there the decision is one of the first three or
  the last. Five resolutions: 640x480 and 800x600, where
  the menu has one column and the key bar is crowded, 1024x768 and 1280x720 with
  the panel beside the list, and 1920x1080. Titles of 60 characters do not fit
  any card, so they are cut as the code cuts them.
- *BootCycle*: three entries on three machines that replace each other between
  power-ons (a disk pulled, nothing left); any number of power-ons, since all
  variables are finite.
- *Disks*: two volumes with every subset of four loaders, or the fallback loader
  with a NixOS whose kernel and initrd are there or not and an EFI stub or not,
  described by BLS, bootspec, both or neither; ids distinct or equal; no
  firmware options or one with a known and one without a known loader; MyBoot on
  either volume, and there on the fallback path, in its own directory beside
  another system's fallback loader or none, or on both. Two volumes are what
  confusing one with another takes.
- *BootOrder*: orders with MyBoot's option first, in the middle, twice and
  nowhere, an option whose high byte counts, an odd number of bytes, and no
  variable. `MaxFaults` is 3: a write, its check and its restore can all fail
  in one run. `MaxDrifts` and `MaxRequests` bound what other systems and the
  user do; two requests are what mistaking one for the other takes. The number
  of runs of MyBoot is not bounded.
- *DirectBoot*: seven pages of two units with a hole in the middle; kernels
  that are missing, too short for a header, not bootable, shorter than their
  real-mode part, of an empty, an odd and an even body; an initrd that is
  missing, not configured, empty or of two pages; `MaxE820` 3 and `W32` 9, so
  that the table is cut and some addresses are; every cut of memory into
  descriptors at four boundaries, ascending, descending, and with an empty
  descriptor.
- *RecoveryShell*: up to four records (`MaxRecords`), one of which is torn
  (`MaxTorn`), so there is a record before the tear, the one it may cost, and
  one more that it must not reach; a counter from 1 or from 9, so that it also
  crosses into two digits, and digits glued to those of the line before are a
  number that fits (`MaxNumber` 99, of `MaxDigits` 2) or one that does not; an
  id that holds another and one with a character of two bytes; an empty graph
  and one of two disks and three systems, so that numbering has to go on across
  both.

`CHECK_DEADLOCK FALSE` stands in the configurations of the components that
really stop: a transaction in a terminal phase, a decision taken, a menu that
returned, a system started, a kernel jumped to. `BootCycle`, `BootOrder` and
`RecoveryShell` run with the deadlock check on.

## 5. Fairness

- *BootCycle*: `WF(EngineStep)`. `run()` is one sequential call with no wait in
  it other than the menu's: while it is on, its next step is taken. Nothing is
  assumed of the firmware, the running systems, `bless` or the power; the step
  may also be cut off by `PowerOff`, which ends the power-on too.
- *Present*: `WF(Countdown)`. The loop polls for keys with a timeout of about a
  second (`poll_key`), so a countdown nobody interrupts goes on. No fairness
  on keys: a person may leave.
- *Transaction*: none. Nobody in the repository calls `confirm_success`,
  `detect_failure` or `resolve` but tests, so that every run ends Confirmed or in
  Recovery (`transaction/src/lib.rs:5`) is not claimed: the engine's end in
  Launched. What the machine itself contributes to it needs no fairness and is
  claimed of every caller, `NoEndlessRun`: each call that is accepted uses up
  one of at most five for every attempt left and a few more.
- *BootOrder*: `WF(Run)`, as its calls follow each other with no wait between
  them and the machine is used again, and `WF` on the orderly end of a run.
  Nothing is assumed of other systems. Faults are bounded, so `DriftIsRepaired`
  says: once calls stop failing and nobody writes any more, the repair settles.
- *Disks*, *DirectBoot*, *RecoveryShell*: safety only. The first two are
  straight lines that end in one handoff; the third waits for a person.

## 6. The proofs

All theorems are about the specifications as they stand, for every value of
the constants that the named assumptions allow: any finite or infinite set of
entries, any graphs, budgets in 1..255, any volumes and disk contents, any boot
order, any kernels, memory maps and limits of the zero page, any records, ids
and selectors.

- `TransactionProofs`. `TypeCorrect`: in particular the saturating subtraction
  never saturates (an entry in `Validated` has an attempt left), which is the
  strengthening that makes the rest inductive. From it follow
  `AttemptsAreAccounted`, `CommitIsEarned` and `RecoveryIsJustified`; the last
  needs the ledger, as it turns "no attempts left" into "all attempts handed
  off". `ImplementsPublishedDesign`: the initial states map to initial states,
  and every action, with the type invariant, to an action of `BootContract` or a
  stutter, for a caller that passes one graph. For the same caller
  `SelectionStaysValid` says that the machine never stops in `Selected`: what
  was selected can be booted until its attempt is charged (`ReadyInv`), so
  `validate()` has nothing to refuse. `EveryCallCounts` is `NoEndlessRun`:
  `CallsLeft`, five calls for each attempt that a bootable entry has left and
  what is left of the present lap, falls with every accepted call.
  `StageTakesOne` counts the attempts as a set of pairs, from which `stage()`
  removes one.
- `Lemmas`. Facts on operators, from which `DecisionBoots`: whatever the graph
  and history, something bootable is decided for if there is anything bootable;
  and the same of what the countdown and a machine without a screen return.
- `DecisionProofs`. `ScanFindsTheHealthiest`, by the loop invariant "the best of
  the entries so far, the first listed of several". `SettingIsWritten`: what is
  read from a file that parses is what stands in it (`Written`), the first line
  for the key in the first section of that name, up to the next header, or
  nothing; by induction over the prefixes of the file. From it `FileIsObeyed`
  and `HostRefusesNoUsedFile`, which says exactly which used files the host
  refuses. The theorems about behaviours rest on `DecisionInv`: the graph is one
  assessment produced, the volumes hold files, what the engine goes on with is
  `load()` of the file it read, the decision is `decide()` of that, and the
  attempts are those of an entry that boots. The link from the file to the
  decision is what `ConfigurationReachesTheDecision` needs, and the reason why
  the files may not change once the power is on. `DecisionsAreSound`: a decision
  is made if and only if something is bootable, its reason is true, and a
  fallback is a healthiest one and taken only if what comes first under the
  strategy cannot be booted, which for a configured default means that it cannot
  or that there is a last good entry; by the branches of `decide()`, over the
  existence of a first entry in the order of attempts. `EveryEntryIsAttempted`:
  each bootable entry is in the list exactly once, in that order.
  `AttemptsAreTakenInTurn` is the seam to BootCycle, which has no list: the
  entry at the front is the only one for which `IsNextOf` holds among those
  left, and without it those left are the rest of the list. Assumed are
  `FilesAreFiles` (a file is a sequence of lines, or is not there) and
  `ListedOnce` (no entry is listed twice: `build.rs` merges entries by id).
- `PresentProofs`. `PresentInv` says that the decision is one `decide()` makes,
  a countdown that runs is before its end and untouched, the command line is
  edited of a bootable row, without a key the cursor is where it started, and
  what is returned is what `ReturnsAsInBootCycle` allows. `WhatIsChosenBoots`,
  `KeysCancel` and `UnattendedBootsDecision` follow. `ScreensReturnWhatCycleChooses`
  is the seam between two modules: the event loop, key by key, returns only what
  BootCycle's `Choose` takes `present()` to return.
  `EnterBootsWhatIsSeen`: on every display of at least 640 by 480 pixels, the
  smallest mode UEFI asks of a display, for any number of rows and titles of any
  length but none (an empty one has nothing to be seen), the title of the row
  that Enter boots is not covered; everything drawn above it is shown to lie
  below it, above it or beside it. On a smaller display that need not be so,
  which is why the bound is a hypothesis: a low one has the key bar, laid out
  from the bottom, over the panel's title, laid out from the top, and a narrow
  one has no room for any title.
- `BootCycleProofs`. `CycleTypeCorrect`; `OnlyVouchedIsGood`, by the invariant
  that a confirmed marker is of a vouched entry; `HandoffsAreOnRecord`, by the
  invariant that in stage `handoff` the marker is the candidate's;
  `LastGoodWasEarned`, by that and that a confirmed marker's entry has earned
  it; `ConfirmationsAreRecorded`, an action property; `GivesUpOnlyAtTheEnd`,
  by the invariant that what was launchable is tried, in hand or left.
  `FallbacksGoInOrder` and `LoopIsNeverStuck`, by `QueueInv`: what was tried goes
  before the candidate at hand, that one before what is left, and the three do
  not meet. `EveryStepCounts`: `StepsLeft` is at most two for each row of the graph
  and four more, falls with every step of `run()`, and only a power-on raises it.
  The theorems about working NVRAM have `Reliable` and the restriction on who
  blesses as explicit hypotheses.
- `DisksProofs`, for any number of volumes, whatever they hold. `DisksInv`
  follows an entry from its source to the handoff: it says of some disk, or of
  a firmware option, what the code read there (`OriginInv`); every loader of a
  volume that was scanned has its entry (`CompleteInv`); an entry is bootable
  if and only if its target is still to be found (`HealthInv`); MyBoot's own
  are gone (`SelfInv`); and what runs was launchable (`StartedInv`).
  `OfferedHasPlan`: a volume's entry has its target from its source on; a
  firmware option may lack one, and no merge gives it a kernel, since all the
  entries with its id are firmware options; so the entry goes when target-less
  ones are dropped. `OfferedCanBeLoaded` and `RightDiskIsBooted` follow, as the
  search at the handoff looks on the entry's own volume first; a loader is there
  (`ChainloadIsFromItsVolume`), a kernel need not be. `NoLoaderIsLost` holds
  wherever MyBoot is installed, and names the one loader that is lost (7.6).
  One theorem has a hypothesis that the code does not ensure:
  `NeverBootsItself` supposes that no BLS file and no bootspec on any disk names
  MyBoot's own image as a kernel: the `linux` key can name any path (bls.rs:48),
  and self-exclusion looks at the loader only, so MyBoot would start itself.
- `PersistenceProofs`, of the boot order. `OrderTypeCorrect` (every number
  MyBoot writes fits two bytes); `RequestFiresOnce`, by the invariant that a
  request that is still stored has not fired; `NoOptionIsLost` and
  `RestoreIsExact`, by `OrderInv`: unless a read failed, the order in NVRAM, the
  one the run found, the one it wants and the one in its plan are each the order
  other systems left or that order with MyBoot at its head. This is inductive
  because the codec round-trips (`CodecRoundTrip`: the two bytes of each number
  recombine) and because putting MyBoot first twice is the same as once
  (`MyBootFirstSettles`). `RunsRepairTheOrder`, by `RepairInv`: what a run wants
  has MyBoot first even if it was computed from a read that failed, and where
  the plan has no step the order is what is wanted already.
- `PersistenceProofs`, of the log and the shell. `LogSurvivesPartialWrites`: the
  property speaks of what `parse` returns of a file that is UTF-8, and a torn
  file need not be; so `LogInv` says, of any file, what the parser holds at its
  last symbol: the records shown so far, among which the spared ones stand in
  their order, and the line it is in, which is empty after an append that went
  through. Each line in the file costs one append, which bounds the records
  shown. It is inductive because the parser at the end of a longer file goes on
  from where it was (`ReadingOnwards`, `ReadingText`), because texts without a
  tab joined by tabs are split as they were (`FieldsAreRead`), and because a
  number that fits is read as it was written, however many digits it has
  (`NumberIsRead`). `CommandMeansOneEntry` rests on `GraphIsListed`: the number
  under which the nested loops of `list_lines()` show an entry is its position
  in the flattened graph, where `resolve()` looks it up.
- `DirectBootProofs`. `LaunchTypeCorrect`; `CopiesDoNotCollide`: what is placed
  fills no more units than the pages it got, which were free
  (`PagesAreEnough`, `PlacedWhereFree`); `KernelKnowsItsFiles`, by `ToldInv`,
  which follows what has been placed up to the zero page; `MapReachesKernel`:
  the merging loop of `to_e820()` neither loses nor invents a unit of memory,
  whatever map it is given and in whatever order (`ConversionIsExact`), and
  only the cut at the zero page's limit loses any.

The loops of DirectBoot, of PersistenceProofs and of the parser in Decision are
loops over lists of any length. Their operators are recursive functions, and
`Lemmas` has the induction they need in a form the provers can use:
`SetInduction` speaks of a set of numbers instead of a predicate, and `LoopRuns`
gives, for a list of loop bodies, the function from positions to states that
such a loop runs through; the invariant of the loop is then proved over that
function by `SetInduction`.

Only model-checked: liveness (`CountdownResolves`, `PowerOnResolves`,
`DriftIsRepaired`), since fairness is beyond the prover. For the last two the
half that does not need fairness is a theorem: a measure that falls with every
step, and a step to take while it is not at its end (`EveryStepCounts` with
`LoopIsNeverStuck`), and what one undisturbed run does (`RunsRepairTheOrder`). What
the runs with a violation refute is not to be proved. Every other property of a
run is a theorem; those that need working NVRAM, a display of the usual size or
one of the suppositions about the disks have it as an explicit hypothesis.

## 7. What the checks found

With a run that shows it:

1. `schema.rs:109`: the schema refuses the configuration that `install` writes,
   whose default is neither declared nor dynamic, so none of its settings
   counts. (`install.sh`, `install.ps1` and `manage.py` write one that fails in
   the same way.)
2. `pipeline.rs:245`: the cursor is moved by the decision's index from the
   first *bootable* row instead of the first row; below an unbootable top row
   the timeout boots another entry.
3. `bless.rs:24`: `bless` confirms the entry that the marker names, whatever
   system it runs in. The run's trace: an entry is chosen and its marker armed,
   the power goes before the handoff, the firmware starts another system by
   itself, `bless` there confirms the armed marker, and the next power-on records
   an entry that never ran as the last good one. A give-up (`pipeline.rs:171`)
   leaves the last candidate's marker armed in the same way.

Met while modelling, and stated here and in the conditions of the properties
rather than in a run:

4. `pipeline.rs:213`: attempt counts are not kept across power-ons, so a
   broken default is offered forever, although `max_tries` is configurable
   (`HOW_IT_WORKS.md:144`).
5. `volume/mod.rs:225`: for a pulled disk the handoff falls back to any volume
   with the same path, also MyBoot's own loader.
6. `pipeline.rs:66-73`: the fallback loader of MyBoot's volume is taken for
   MyBoot and hidden. It is another system's where `install` found one there and
   left it (`install.rs:74-78`), against `pipeline.rs:63-64` "Every OTHER OS on
   every disk (any number) is preserved".
7. `direct_boot.rs`: a kernel file shorter than its real-mode part panics at the
   slice in line 47; addresses are cut to 32 bits (58, 75), so nothing may be
   placed above 4 GiB; and the table that `to_e820()` fills after boot services
   ended (132) grows through the firmware's allocator, although line 86 says
   that no more firmware calls are made.
8. `render.rs:39`: cards that do not fit are not drawn and the list does not
   scroll, so a cursor further down is not seen without the panel. The
   recovery screen draws twelve rows at most (324), although the cursor goes
   through all of them, and on a low display its hint (370) is drawn over the
   last ones. The key cap that runs
   into the auto-boot pill is drawn before the check that should stop it (76),
   against line 61's "so keys never overlap it".
9. `reconcile.rs:98`: a `BootOrder` that could not be read counts as one that
   does not exist, so the order is planned from nothing and a restore deletes
   the variable.
10. `log.rs:46`: one append cut within a character hides the whole log, where
    line 44 promises that malformed lines are skipped; a cut elsewhere leaves a
    line without an end, to which the next record is glued, and the result may
    read as a record nobody wrote.
11. `HOW_IT_WORKS.md:152-155` tries the configured default first and then the
    last good entry, each if it is healthy. Under the default strategy `decide()`
    (`decide.rs:21-41`) has them the other way round, and tries only the first it
    has: a last good entry that cannot be booted any more hides a configured
    default that can, and the healthiest entry is taken.
12. `fs/mod.rs:67-83`: a write that is not an append does not truncate, so a
    shorter file keeps the tail of the longer one it replaces. Nothing in the
    engine writes a file that way today.
13. `volume/mod.rs:217-226`: a kernel that its entry's disk does not have is
    started from any other that has the path, although `pipeline.rs:434-437` and
    `volume/mod.rs:212-216` promise "the right disk". Health lets it through, as it
    looks on every volume (`health/src/lib.rs:41`). A loader is always on the disk
    its entry was found on.
14. `direct_boot.rs:34`: a direct boot reads kernel and initrd from MyBoot's own
    volume, wherever the entry was found.
15. `host-cli/src/commands/config.rs:33`: the host's check cuts a line at the
    first `#`, the loader's parser only at one outside quotes (`toml.rs:80-88`).
    Of a line such as `"a#b" = 1`, which the loader takes for a setting it does not
    know, the host says "expected 'key = value'".
16. `transaction/src/lib.rs:5`: "every run ends Confirmed or Recovery". The engine's
    runs end in Launched or, if a step is refused, before it: `run()`
    drops the transaction with the candidate (`pipeline.rs:149-166`), and
    `confirm_success`, `detect_failure` and `resolve` have no caller but tests. What
    they would do after a boot, `reconcile_previous_boot()` does in part.

## 8. What is not modelled

- Text: the characters of a TOML line, of JSON and BLS files (`json.rs`), of
  titles, product names and messages, the aliases of the shell's verbs. Where
  its outcome matters (which ids exist, which kernel is an EFI stub) it is a
  constant or a record. The sort order by title is left out with the titles.
- Pixels, glyphs and colours: Screen has rectangles.
- The parsers of `storage`, each a pure function of bytes, under Kani in the
  repository; and the codec of a single boot option (`LoadOption`), which the
  reconciliation never reads.
- The security policy: a pure table of a few rows without a caller.
- The providers' `validate()`, which has no caller outside its tests, and the
  options a plan passes on.
- The jump to a kernel and the assembly: no state to check.
- The images that `install` copies are a starting point of Disks, not an action;
  the installers are scripts that do the same. `status` and `boot-order` only
  print. `pyboot` and `xtask` build and test, and are not on the machine.
- MyBoot's own volume is taken as known. When the firmware does not tell it,
  the code skips self-exclusion on purpose (`volume/mod.rs:172-174`).

## 9. The plan

Done, in this order: BootGraph, Transaction and BootContract with their
proofs; Policy, Config and Decision; Menu and Present; BootCycle and its
proofs; Discovery and Disks with the first proof about them; BootOrder and
DirectBoot with theirs; Screen under Present; BootLog and RecoveryShell; the
proofs about Decision, Present with its screens, and the rest of Disks; the
parser of BootLog and the listing of RecoveryShell as recursive functions, with
the proofs about them; the measures of Transaction and BootCycle; MyBoot
installed beside another system's loader in Disks.

Next:

1. **Disks**: several targets of a role on a volume, whose ids collide
   (`build.rs:95`); an own volume that is not known.
2. **Discovery**: the listing order, with titles as ranked values, so that the
   graph of Disks can be the listing that Decision and Present start from.
3. The security table against a reference definition; the storage parsers'
   bounds.

Theorems worth proving next: a power-on of BootCycle as a sequence of runs of
Transaction, one for each candidate; and the safety half of `CountdownResolves`,
that the seconds shown fall.
