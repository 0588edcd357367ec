-------------------------- MODULE MCRecoveryShell ---------------------------
(***************************************************************************)
(* A counter that crosses from 9 to 10, an id that holds another one, one  *)
(* with a character of two bytes, and graphs of several disks and systems. *)
(***************************************************************************)
EXTENDS RecoveryShell

CONSTANTS n, g, u, s, c, ok, bad

Word1 == <<ok>>
Word2 == <<bad>>
NoWord == <<n>>
Digits == [i \in 0..9 |-> i]
Symbols == 0..9 \cup {Tab, Newline, Lead, Trail, n, g, u, s, c, ok, bad}
Gen1 == <<n, g, 1>>
Gen12 == <<n, g, 1, 2>>
Other == <<n, u>>
Ubuntu == <<u, Lead, Trail>>

SomeRecords ==
  { [entry |-> Gen1, phase |-> <<s>>, result |-> "none"],
    [entry |-> Ubuntu, phase |-> <<c>>, result |-> "failed"] }

E(id, health) == [id |-> id, health |-> health]

SomeGraphs ==
  { <<>>,
    << << <<E(Gen12, "Healthy"), E(Gen1, "Degraded")>>, <<E(Ubuntu, "Unbootable")>> >>,
       << <<E(Other, "Healthy")>> >> >> }

SomeSelectors ==
  {<<>>, <<1>>, <<2>>, <<3>>, <<1, 2>>, Gen1, <<g, 1, 2>>, <<n, g>>, <<u>>, <<s>>}
=============================================================================
