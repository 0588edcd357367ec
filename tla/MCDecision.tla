----------------------------- MODULE MCDecision -----------------------------
(***************************************************************************)
(* Every health of up to three listed entries, and every last-good entry:  *)
(* it, and what a configuration names, may be missing from the graph.      *)
(* The configurations have one deviation each from a plain one.            *)
(***************************************************************************)
EXTENDS Decision

CONSTANTS e1, e2, e3

SomeRows == {<<>>, <<e2>>, <<e2, e1>>, <<e3, e1, e2>>}

(* The health of an entry that is not listed is nobody's.                  *)
EveryGraph ==
  {g \in [rows : SomeRows, health : [Entry -> HealthTag], plannable : {Entry}] :
     \A e \in Entry \ Listed(g) : g.health[e] = "Unknown"}

(* The loop of pick_healthiest finds the entry PickHealthiest describes,   *)
(* so that ties go to the first listed entry.                              *)
ASSUME ScanFindsHealthiest == \A g \in EveryGraph : ScanHealthiest(g) = PickHealthiest(g)

Entries(ids) == <<Header("entry"), Pair("id", Text(ids[1]))>>
                  \o (IF Len(ids) = 1 THEN <<>>
                      ELSE <<Header("entry"), Pair("id", Text(ids[2]))>>)

Plain(default, policy) ==
  <<Pair("default", Text(default)), Pair("policy", policy)>>

Tries(v) == <<Header("transaction"), Pair("max_tries", v)>>

SomeFiles ==
  (* accepted *)
  {Plain(e, Text(p)) \o Entries(<<e2, e1>>) :
     e \in {e1, e2, e3}, p \in {"default", "last-good-then-default"}}
  \cup {Plain(e1, Number(1)) \o Entries(<<e1>>),
        <<Pair("timeout", Number(0)), Pair("timeout", Number(9))>>
          \o Plain(e3, Text("default")) \o Tries(Number(255)),
        Plain(e3, Text("default")) \o Tries(Number(1)) \o Tries(Number(2)),
        Plain(e1, Text("default")) \o Entries(<<e1>>)
          \o <<Pair("timeout", Number(9)), Pair("default", Text(e3))>>,
        Plain(e3, Text("default")) \o <<Pair(HashedKey, Number(1))>>,
        Plain(e2, Text("default")) \o Entries(<<e2>>) \o <<Pair(HashedKey, Flag(TRUE))>>}
  (* refused *)
  \cup {<<>>,
        Plain(e1, Text("default")),
        Plain(e1, Text("default")) \o Entries(<<e1, e1>>),
        Plain(e3, Text("sometimes")),
        Plain(e3, Text("default")) \o Tries(Number(0)),
        Plain(e3, Text("default")) \o Tries(Number(256)),
        Plain(e3, Text("default")) \o <<Unterminated>>,
        Plain(e3, Text("default")) \o <<NoEquals>>,
        <<BadValue("default")>>,
        Plain(e3, Text("default")) \o <<BadValue(HashedKey)>>,
        Entries(<<e1>>) \o Plain(e1, Text("default"))}

OtherFiles == {NoFile, Plain(e3, Text("default"))}
=============================================================================
