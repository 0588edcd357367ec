--------------------------- MODULE RecoveryShell ----------------------------
(***************************************************************************)
(* The recovery shell: ui-shell/src/commands/mod.rs, over the Boot Graph   *)
(* and the boot log.  A session is opened on a graph and runs commands; a  *)
(* command prints lines and asks the engine for at most one thing, and a   *)
(* boot or a reboot ends the session.  Boots append to the log between     *)
(* sessions.                                                               *)
(*                                                                         *)
(* A graph is a sequence of disks, a disk one of systems, a system one of  *)
(* entries, whose ids are the symbol sequences of BootLog.  Of what is      *)
(* printed only the numbered lines of the list, the id that inspect shows  *)
(* and the records of the log are kept; a verb is an action, whatever      *)
(* alias was typed for it.                                                 *)
(***************************************************************************)
EXTENDS BootLog

CONSTANTS
  Graphs,      \* the graphs a session may be opened on
  Selectors,   \* the arguments that may be typed, trimmed
  Nothing      \* no session, and no entry that is asked for

SystemEntry == [id : Seq(Symbol), health : {"Healthy", "Degraded", "Unbootable", "Unknown"}]

ASSUME ShellGraphs == Graphs \subseteq Seq(Seq(Seq(SystemEntry)))
ASSUME SelectorsAssumption == Selectors \subseteq Seq(Symbol)
ASSUME NoSessionAssumption == Nothing \notin Graphs

VARIABLES
  graph,       \* of the open session, or Nothing
  typed,       \* the argument of the last command, if it asks for something
  printed,     \* the lines of the last command
  asked        \* what the last command asks of the engine

session == <<graph, typed, printed, asked>>
shellVars == <<log, session>>

Ask(kind, id) == [kind |-> kind, id |-> id]
NoAction == Ask("none", Nothing)

-----------------------------------------------------------------------------
(* Reading the graph.                                                      *)

\* flat_map: lists one behind the other.
Flat(lists) ==
  LET flat[i \in 0..Len(lists)] == IF i = 0 THEN <<>> ELSE flat[i - 1] \o lists[i]
  IN flat[Len(lists)]

\* graph.entries(): disks, systems and entries in their order.
EntriesOf(disks) == Flat([d \in DOMAIN disks |-> Flat(disks[d])])

Boots(entry) == entry.health \in {"Healthy", "Degraded"}

\* Numbers that begin anew with every system.
SystemLinesAfresh(out, system) ==
  [lines |-> out.lines \o [i \in DOMAIN system |-> [number |-> i - 1, id |-> system[i].id]],
   idx   |-> out.idx + Len(system)]

\* The numbered lines of one system, behind those of the ones before it.
SystemLines(out, system) ==
  [lines |-> out.lines \o [i \in DOMAIN system |-> [number |-> out.idx + i - 1, id |-> system[i].id]],
   idx   |-> out.idx + Len(system)]

\* The lines of all systems of a disk.
DiskLines(out, disk) ==
  LET listed[i \in 0..Len(disk)] == IF i = 0 THEN out ELSE SystemLines(listed[i - 1], disk[i])
  IN listed[Len(disk)]

\* list_lines, without the headings.
ListLines(disks) ==
  LET listed[i \in 0..Len(disks)] ==
        IF i = 0 THEN [lines |-> <<>>, idx |-> 0] ELSE DiskLines(listed[i - 1], disks[i])
  IN listed[Len(disks)].lines

Holds(id, selector) ==
  \E i \in 0..(Len(id) - Len(selector)) : SubSeq(id, i + 1, i + Len(selector)) = selector

\* An entry whose id is the selector has no precedence.
ResolveNoExact(disks, selector) ==
  LET entries == EntriesOf(disks)
      matches == {i \in DOMAIN entries : Holds(entries[i].id, selector)}
  IN CASE selector = <<>> -> {}
       [] IsNumber(selector) -> {i \in DOMAIN entries : i = ValueOf(selector) + 1}
       [] OTHER -> IF matches # {} THEN {Min(matches)} ELSE {}

\* resolve: the position of the entry a selector means, or none at all.
Resolve(disks, selector) ==
  LET entries == EntriesOf(disks)
      exact == {i \in DOMAIN entries : entries[i].id = selector}
      matches == {i \in DOMAIN entries : Holds(entries[i].id, selector)}
  IN CASE selector = <<>> -> {}
       [] IsNumber(selector) -> {i \in DOMAIN entries : i = ValueOf(selector) + 1}
       [] OTHER -> IF exact # {} THEN {Min(exact)}
                   ELSE IF Cardinality(matches) = 1 THEN matches ELSE {}

-----------------------------------------------------------------------------
(* Commands.                                                               *)

\* A session that has not asked for its end.
IsOpen == graph # Nothing /\ asked.kind \notin {"boot", "reboot"}

Answer(selector, lines, action) ==
  /\ typed' = selector
  /\ printed' = lines
  /\ asked' = action
  /\ UNCHANGED <<log, graph>>

\* help, disks, health and what is unknown: nothing is asked.
Query == IsOpen /\ Answer(<<>>, <<>>, NoAction)

\* inspect: the details of an entry, of which the id is kept.
Inspect ==
  /\ IsOpen
  /\ \E selector \in Selectors :
       LET found == Resolve(graph, selector)
       IN \/ found = {} /\ Answer(<<>>, <<>>, NoAction)
          \/ \E i \in found : Answer(<<>>, <<EntriesOf(graph)[i].id>>, NoAction)

List == IsOpen /\ Answer(<<>>, ListLines(graph), NoAction)

\* An unbootable entry is named in a message, and nothing is asked.
Boot ==
  /\ IsOpen
  /\ \E selector \in Selectors :
       LET found == {i \in Resolve(graph, selector) : Boots(EntriesOf(graph)[i])}
       IN \/ found = {} /\ Answer(<<>>, <<>>, NoAction)
          \/ \E i \in found : Answer(selector, <<>>, Ask("boot", EntriesOf(graph)[i].id))

\* default and verify take any entry that is found.
DefaultOrVerify ==
  /\ IsOpen
  /\ \E selector \in Selectors, kind \in {"default", "verify"} :
       LET found == Resolve(graph, selector)
       IN \/ found = {} /\ Answer(<<>>, <<>>, NoAction)
          \/ \E i \in found : Answer(selector, <<>>, Ask(kind, EntriesOf(graph)[i].id))

\* log: the engine is asked for the records, which follow.
Log == IsOpen /\ Answer(<<>>, Parse(Contents), Ask("log", Nothing))

Reboot == IsOpen /\ Answer(<<>>, <<>>, Ask("reboot", Nothing))

-----------------------------------------------------------------------------
(* Sessions and the boots between them; the engine opens no session yet.   *)

ShellInit ==
  /\ LogInit
  /\ graph = Nothing
  /\ typed = <<>>
  /\ printed = <<>>
  /\ asked = NoAction

OpenSession ==
  /\ graph = Nothing
  /\ graph' \in Graphs
  /\ UNCHANGED <<log, typed, printed, asked>>

EndSession ==
  /\ asked.kind \in {"boot", "reboot"}
  /\ graph' = Nothing
  /\ typed' = <<>>
  /\ printed' = <<>>
  /\ asked' = NoAction
  /\ UNCHANGED log

Booted ==
  /\ graph = Nothing
  /\ AppendRecord \/ TornAppend
  /\ UNCHANGED session

ShellNext ==
  \/ OpenSession \/ EndSession \/ Booted
  \/ Query \/ Inspect \/ List \/ Boot \/ DefaultOrVerify \/ Log \/ Reboot

ShellSpec == ShellInit /\ [][ShellNext]_shellVars

-----------------------------------------------------------------------------
(* What the shell asks the engine to do is about an entry that the user    *)
(* meant (mod.rs:151 "Deterministic and total"): for a number, the entry   *)
(* that the list shows under it; for a text, the entry with that id, or    *)
(* else the only one whose id holds the text, never the first of several.  *)
(* An entry that is booted is bootable.                                    *)
SelectorMeansOneEntry ==
  asked.kind \in {"boot", "default", "verify"} =>
    /\ \E entry \in ToSet(EntriesOf(graph)) :
         entry.id = asked.id /\ (asked.kind = "boot" => Boots(entry))
    /\ IF IsNumber(typed)
       THEN [number |-> ValueOf(typed), id |-> asked.id] \in ToSet(ListLines(graph))
       ELSE asked.id # typed =>
              \A entry \in ToSet(EntriesOf(graph)) : Holds(entry.id, typed) <=> entry.id = asked.id
=============================================================================
