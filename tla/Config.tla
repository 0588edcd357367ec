------------------------------- MODULE Config -------------------------------
(***************************************************************************)
(* The configuration file: the TOML subset and the schema of               *)
(* crates/config, what `myboot install` writes and what `myboot config`    *)
(* checks (host-cli).                                                      *)
(*                                                                         *)
(* A file is the sequence of its lines, comments and blank lines left out. *)
(* Characters and escapes are left out too, and of quoting all but the one *)
(* place where the two parsers part over it (HashedKey); a file that is    *)
(* not UTF-8 counts as one with a line that is no `key = value`.  Fields   *)
(* that no code reads (confirm, rollback, the entries' methods and paths)  *)
(* matter only in so far as a bad value makes the file invalid.            *)
(***************************************************************************)
EXTENDS Policy, SequencesExt, FiniteSetsExt

CONSTANTS
  NoFile,          \* no config.toml
  NoConfig,        \* no usable configuration
  Dynamic,         \* the ids with a dot in them
  TemplateDefault  \* the `default` that `myboot install` writes

ASSUME DynamicIds == Dynamic \subseteq Entry
ASSUME TemplateIsUndotted == TemplateDefault \in Entry \ Dynamic

-----------------------------------------------------------------------------
(* Values, which know their type, and lines.                               *)

Text(s)   == <<"str", s>>
Number(n) == <<"int", n>>
Flag(b)   == <<"bool", b>>
Unset     == <<"unset", 0>>

IsText(v) == v[1] = "str"

(* `key = value`; `[name]` or `[[name]]`; and the lines that are neither:  *)
(* a header without its bracket, a line without `=`, a value that is none  *)
(* or missing.                                                             *)
Pair(key, value) == [kind |-> "pair", name |-> key, value |-> value]
Header(name)     == [kind |-> "table", name |-> name, value |-> Unset]
Unterminated     == [kind |-> "unterminated", name |-> "", value |-> Unset]
NoEquals         == [kind |-> "noequals", name |-> "", value |-> Unset]
BadValue(key)    == [kind |-> "badvalue", name |-> key, value |-> Unset]

Value == ({"str"} \X (Entry \cup STRING)) \cup ({"int"} \X Int)
           \cup ({"bool"} \X BOOLEAN) \cup {Unset}

Line == [kind  : {"pair", "table", "unterminated", "noequals", "badvalue"},
         name  : STRING,
         value : Value]

(* Any key that has a '#' between quotes.  It is no setting of the schema. *)
HashedKey == "hashed"

-----------------------------------------------------------------------------
(* toml::parse.                                                            *)

WellFormedLax(file) == \A i \in DOMAIN file : file[i].kind # "unterminated"

WellFormed(file) == \A i \in DOMAIN file : file[i].kind \in {"pair", "table"}

AddLineRootOnly(doc, line) ==
  IF line.kind = "table"
  THEN Append(doc, [name |-> line.name, pairs |-> <<>>])
  ELSE [doc EXCEPT ![1].pairs = Append(@, line)]

(* One line: a header opens a table, a pair belongs to the table opened    *)
(* last.                                                                   *)
AddLine(doc, line) ==
  IF line.kind = "table"
  THEN Append(doc, [name |-> line.name, pairs |-> <<>>])
  ELSE [doc EXCEPT ![Len(doc)].pairs = Append(@, line)]

(* The tables in file order, the root table first.                         *)
Document(file) ==
  LET doc[i \in 0..Len(file)] ==
        IF i = 0 THEN <<[name |-> "", pairs |-> <<>>]>>
        ELSE AddLine(doc[i - 1], file[i])
  IN doc[Len(file)]

(* Table::get: the first pair with the key.                                *)
Get(pairs, key) ==
  LET i == SelectInSeq(pairs, LAMBDA p : p.name = key)
  IN IF i = 0 THEN Unset ELSE pairs[i].value

(* tables_named(name).next() and its key, or root_get for the name "".     *)
Setting(doc, name, key) ==
  LET i == SelectInSeq(doc, LAMBDA t : t.name = name)
  IN IF i = 0 THEN Unset ELSE Get(doc[i].pairs, key)

(* The ids of the [[entry]] tables.                                        *)
Declared(doc) ==
  LET entries == SelectSeq(doc, LAMBDA t : t.name = "entry")
  IN [i \in DOMAIN entries |-> Get(entries[i].pairs, "id")]

-----------------------------------------------------------------------------
(* Config::from_document.                                                  *)

IsNumberIn(v, S) == v[1] = "int" /\ v[2] \in S

U16       == 0..65535
NonZeroU8 == 1..255

(* A word of a closed list; anything that is no string passes for absent.  *)
IsWordOf(v, words) == IsText(v) => v[2] \in words

Valid(doc) ==
  LET default == Setting(doc, "", "default")
      timeout == Setting(doc, "", "timeout")
      tries   == Setting(doc, "transaction", "max_tries")
      ids     == Declared(doc)
  IN
  /\ IsText(default)
  /\ timeout = Unset \/ IsNumberIn(timeout, U16)
  /\ IsWordOf(Setting(doc, "", "policy"), {"last-good-then-default", "default"})
  /\ tries = Unset \/ IsNumberIn(tries, NonZeroU8)
  /\ IsWordOf(Setting(doc, "recovery", "rollback"), {"last-good", "fallback", "none"})
  /\ \A i \in DOMAIN ids : IsText(ids[i])
  /\ \A i, j \in DOMAIN ids : ids[i] = ids[j] => i = j
  /\ default[2] \in Dynamic \/ \E i \in DOMAIN ids : ids[i] = default

Or(v, default) == IF v = Unset THEN default ELSE v[2]

FromDocument(doc) ==
  [default  |-> Setting(doc, "", "default")[2],
   timeout  |-> Or(Setting(doc, "", "timeout"), 5),
   policy   |-> IF Setting(doc, "", "policy") = Text("default")
                THEN "Default" ELSE "LastGoodThenDefault",
   maxTries |-> Or(Setting(doc, "transaction", "max_tries"), 2)]

(* load_config: an unreadable, malformed or invalid file is no file.       *)
Load(file) ==
  IF file # NoFile /\ WellFormed(file) /\ Valid(Document(file))
  THEN FromDocument(Document(file)) ELSE NoConfig

-----------------------------------------------------------------------------
(* The host's side.                                                        *)

(* Its parser takes every '#' for a comment.  Where strip_comment() of the *)
(* engine sees a quoted one, the host's line ends early: before its `=`,   *)
(* if the '#' is in the key, and after it, which it does not mind, if the  *)
(* '#' is in the value.                                                    *)
HostSeesEquals(line) ==
  line.kind # "noequals" /\ line.name # HashedKey

(* `myboot config path <file>` accepts the file.                           *)
HostAccepts(file) ==
  /\ \A i \in DOMAIN file : HostSeesEquals(file[i])
  /\ \E i \in DOMAIN file :
       file[i].kind \in {"pair", "badvalue"} /\ file[i].name = "default"

(* DEFAULT_CONFIG.                                                         *)
InstalledConfig ==
  <<Pair("default", Text(TemplateDefault)),
    Pair("timeout_secs", Number(5)),
    Pair("policy", Text("last-good-then-default")),
    Pair("confirm", Flag(TRUE)),
    Pair("max_tries", Number(3)),
    Pair("rollback", Text("last-good"))>>
=============================================================================
