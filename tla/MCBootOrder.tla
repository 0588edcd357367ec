---------------------------- MODULE MCBootOrder -----------------------------
(* Instances of BootOrder for TLC.                                         *)
EXTENDS BootOrder

\* What other systems leave: orders with MyBoot's option 1 nowhere, last,
\* first and twice, with option 258 whose high byte counts, with a stray byte
\* or nothing but one, and no variable.
MCForeign ==
  {<<1, 0>>, <<2, 0, 2, 1>>, <<2, 1, 1, 0, 2, 0>>, <<1, 0, 2, 1, 2, 0>>,
   <<2, 0, 1, 0, 1, 0>>, <<2, 0, 2, 1, 171>>, <<171>>, Absent}
=============================================================================
