---------------------------- MODULE MCCustomRole ----------------------------
(* Small values of the constants of CustomRoleController for TLC. *)
EXTENDS CustomRoleController

CONSTANTS n1, n2, x1, x2

S(n, x) == [name |-> n, content |-> x]

McNoSpec == S(NoName, NoContent)

\* Specs that differ in the name, in the content and in both.
McWellFormed == {S(n1, x1), S(n1, x2), S(n2, x1)}

\* With one that has lost its name.
McAllSpecs == {S(n1, x1), S(n2, x2), S(NoName, x1)}
=============================================================================
