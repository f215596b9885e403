--------------------------- MODULE MCAccessGroup ---------------------------
(* Small values of the constants of AccessGroupController for TLC. *)
EXTENDS AccessGroupController, TLC

CONSTANTS n1, n2, m1, m2

S(n, m) == [name |-> n, lists |-> TRUE, members |-> m]

McNoSpec == [name |-> NoName, lists |-> FALSE, members |-> {}]

McNoDef == [name |-> NoName, members |-> {}]

\* Well-formed specs whose lists are not empty.
McWellFormed == {S(n1, {m1}), S(n2, {m1, m2})}

\* With one whose lists are empty: it is well-formed until it is written back,
\* and malformed from then on.
McAllSpecs == {S(n1, {m1}), S(n2, {})}

McSymmetry == Permutations(Resources)
=============================================================================
