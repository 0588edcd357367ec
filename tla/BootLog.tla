------------------------------ MODULE BootLog -------------------------------
(***************************************************************************)
(* The boot log: persistence/src/log.rs over the file adapter of           *)
(* platform/src/fs/mod.rs.  A record is rendered as one line and appended  *)
(* to a file on the ESP by a boot that may be cut short at any point of    *)
(* the write; later boots append behind whatever it left, and the whole    *)
(* file is parsed when the log is shown.                                   *)
(*                                                                         *)
(* The file is a sequence of symbols.  A character of one byte is one      *)
(* symbol; one of two bytes is Lead and Trail, so that a write can be cut  *)
(* within it.  The engine appends no records yet: which are appended, and  *)
(* when, is free.                                                          *)
(***************************************************************************)
EXTENDS Integers, Sequences, SequencesExt, FiniteSets

CONSTANTS
  Symbol,      \* what a file consists of
  Digit,       \* the symbols of the digits
  Tab, Newline, Lead, Trail,
  Records,     \* what is logged: an entry's id, a phase and a result
  Confirmed, Failed, Dash,   \* the words of a result
  FirstSeqs,   \* the values the caller's counter may begin with
  NoFile,
  MaxNumber,   \* the largest number that is parsed (u64::MAX)
  MaxDigits,   \* bound: the digits of a number (20 in u64)
  MaxRecords,  \* bound: records appended
  MaxTorn      \* bound: appends that fail or are cut short

Numerals == {Digit[n] : n \in 0..9}

ASSUME SymbolsAssumption ==
  /\ Digit \in [0..9 -> Symbol]
  /\ \A m, n \in 0..9 : Digit[m] = Digit[n] => m = n
  /\ {Tab, Newline, Lead, Trail} \subseteq Symbol \ Numerals
  /\ Tab # Newline
  /\ NoFile \notin Seq(Symbol)

\* UTF-8: no lead without its trail, and no trail without its lead.
IsText(symbols) ==
  /\ \A i \in DOMAIN symbols : symbols[i] = Lead => i < Len(symbols) /\ symbols[i + 1] = Trail
  /\ \A i \in DOMAIN symbols : symbols[i] = Trail => i > 1 /\ symbols[i - 1] = Lead

\* An id is a slug, and a phase a tag: no tab and no newline in them.
IsField(text) == text \in Seq(Symbol \ {Tab, Newline}) /\ text # <<>> /\ IsText(text)

ASSUME RecordsAssumption ==
  /\ \A record \in Records :
       /\ record.result \in {"confirmed", "failed", "unknown", "none"}
       /\ IsField(record.entry) /\ IsField(record.phase)
  /\ IsField(Confirmed) /\ IsField(Failed) /\ IsField(Dash)

VARIABLES
  file,        \* the log on the ESP
  seq,         \* the counter the caller keeps
  attempts     \* history: the records appended, and whether each went through

log == <<file, seq, attempts>>

-----------------------------------------------------------------------------
(* The rendering of records.                                               *)

\* A number without its last k digits, for each k.
Shifted(n) ==
  LET rest[k \in 0..MaxDigits] == IF k = 0 THEN n ELSE rest[k - 1] \div 10
  IN rest

Width(n) == CHOOSE k \in 1..MaxDigits : Shifted(n)[k] = 0 /\ \A j \in 1..(k - 1) : Shifted(n)[j] # 0

ASSUME LogBoundsAssumption ==
  /\ MaxDigits \in Nat \ {0} /\ MaxRecords \in Nat /\ MaxTorn \in Nat
  /\ MaxNumber \in Nat /\ Shifted(MaxNumber)[MaxDigits] = 0
  /\ \A first \in FirstSeqs : first \in Nat /\ first + MaxRecords <= MaxNumber

Decimal(n) == [i \in 1..Width(n) |-> Digit[Shifted(n)[Width(n) - i] % 10]]

Word(result) ==
  CASE result = "confirmed" -> Confirmed
    [] result = "failed" -> Failed
    [] OTHER -> Dash

\* The fields of a record as they are read back.
FieldsOf(record) == <<record.seq, record.entry, record.phase, Word(record.result)>>

\* A line that ends where the next one begins.
RenderUnended(record) ==
  Decimal(record.seq) \o <<Tab>> \o record.entry \o <<Tab>> \o record.phase
    \o <<Tab>> \o Word(record.result)

Render(record) ==
  Decimal(record.seq) \o <<Tab>> \o record.entry \o <<Tab>> \o record.phase
    \o <<Tab>> \o Word(record.result) \o <<Newline>>

-----------------------------------------------------------------------------
(* The parsing of the file.                                                *)

Numeral(symbol) == CHOOSE n \in 0..9 : Digit[n] = symbol

ValueOf(digits) ==
  LET value[i \in 0..Len(digits)] ==
        IF i = 0 THEN 0 ELSE 10 * value[i - 1] + Numeral(digits[i])
  IN value[Len(digits)]

\* str::parse: at least one digit, and a number that fits.  A sign before
\* the digits is left out.
IsNumber(field) ==
  /\ field # <<>> /\ \A i \in DOMAIN field : field[i] \in Numerals
  /\ ValueOf(field) <= MaxNumber

\* splitn(4): a field ends at the next tab or with the line, the fourth with
\* the line, tabs and all.
TabAfter(line, i) == Min({j \in DOMAIN line : j > i /\ line[j] = Tab} \cup {Len(line) + 1})
FirstTab(line) == TabAfter(line, 0)
SecondTab(line) == TabAfter(line, FirstTab(line))
ThirdTab(line) == TabAfter(line, SecondTab(line))

Fields(line) ==
  << ValueOf(SubSeq(line, 1, FirstTab(line) - 1)),
     SubSeq(line, FirstTab(line) + 1, SecondTab(line) - 1),
     SubSeq(line, SecondTab(line) + 1, ThirdTab(line) - 1),
     SubSeq(line, ThirdTab(line) + 1, Len(line)) >>

IsRecord(line) ==
  ThirdTab(line) <= Len(line) /\ IsNumber(SubSeq(line, 1, FirstTab(line) - 1))

\* What is shown once the line that is being read ends: a line that is no
\* record is skipped, as is the empty one that str::lines does not return.
Shown(reading) ==
  IF IsRecord(reading.line) THEN Append(reading.shown, Fields(reading.line)) ELSE reading.shown

ReadSymbol(reading, symbol) ==
  IF symbol = Newline THEN [shown |-> Shown(reading), line |-> <<>>]
  ELSE [reading EXCEPT !.line = Append(@, symbol)]

\* The loop over the lines, up to the last newline, and what is behind it.
Reading(symbols) ==
  LET read[i \in 0..Len(symbols)] ==
        IF i = 0 THEN [shown |-> <<>>, line |-> <<>>] ELSE ReadSymbol(read[i - 1], symbols[i])
  IN read[Len(symbols)]

\* parse: a file that is not UTF-8 throughout shows no record at all, and
\* the last line needs no newline.
Parse(symbols) == IF IsText(symbols) THEN Shown(Reading(symbols)) ELSE <<>>

\* An absent file has no contents.
Contents == IF file = NoFile THEN <<>> ELSE file

-----------------------------------------------------------------------------
(* The file adapter.                                                       *)

\* The position is left at the start of the file.
AppendedAtStart(symbols) ==
  symbols \o SubSeq(Contents, Len(symbols) + 1, Len(Contents))

\* write_in with append: the file is created if absent, written at its end.
Appended(symbols) == Contents \o symbols

LogInit ==
  /\ file = NoFile
  /\ seq \in FirstSeqs
  /\ attempts = <<>>

\* A record with the caller's counter, which moves on whatever comes of it.
Logging(record, whole) ==
  /\ Len(attempts) < MaxRecords
  /\ seq' = seq + 1
  /\ attempts' = Append(attempts, [record |-> record, whole |-> whole])

Numbered == {[seq |-> seq, entry |-> r.entry, phase |-> r.phase, result |-> r.result] : r \in Records}

\* append_record that returns Ok.
AppendRecord ==
  \E record \in Numbered :
    /\ Logging(record, TRUE)
    /\ file' = Appended(Render(record))

\* append_record that fails, or is cut short by a loss of power: the file may
\* not have been opened, or any part of the line may have been written.
TornAppend ==
  \E record \in Numbered :
    /\ Logging(record, FALSE)
    /\ Cardinality({i \in DOMAIN attempts : ~attempts[i].whole}) < MaxTorn
    /\ \/ UNCHANGED file
       \/ \E n \in 0..Len(Render(record)) : file' = Appended(SubSeq(Render(record), 1, n))

-----------------------------------------------------------------------------
(* A write that is cut short costs at most its own record and the one      *)
(* after it (log.rs:3 "Each record is one self-describing text line so the *)
(* log survives partial writes"): every other record is read back as it    *)
(* was written, in the order of the boots, and the log shows no more       *)
(* records than were appended.  All of this is about a file that is still  *)
(* UTF-8: an append that is cut within a character hides every record      *)
(* (log.rs:46).                                                            *)
PartialWritesAreConfined ==
  LET shown == Parse(Contents)
      spared == {i \in DOMAIN attempts : attempts[i].whole /\ (i = 1 \/ attempts[i - 1].whole)}
  IN IsText(Contents) =>
       /\ Len(shown) <= Len(attempts)
       /\ \E place \in [spared -> DOMAIN shown] :
            /\ \A i, j \in spared : i < j => place[i] < place[j]
            /\ \A i \in spared : shown[place[i]] = FieldsOf(attempts[i].record)
=============================================================================
