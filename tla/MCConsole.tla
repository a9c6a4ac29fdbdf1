----------------------------- MODULE MCConsole ------------------------------
(* Console for TLC: two accounts and two applications.                       *)
EXTENDS Console

CONSTANTS u1, u2, a1, a2

(* Up to renaming, every way the two accounts can own the two applications.  *)
MCStarts == {[a \in AppIds |-> IF a = a1 THEN x ELSE y] :
               <<x, y>> \in {<<u1, u2>>, <<u1, u1>>, <<u1, None>>}}
=============================================================================
