-------------------------- MODULE MCAccountContext --------------------------
(* Small values of the constants of AccountContext for TLC. *)
EXTENDS AccountContext, TLC

CONSTANTS safe, k1, k2, o1, o2

\* One key is that of a user of two accounts.
McSees == (k1 :> {o1, o2}) @@ (k2 :> {o2})

McManagements == {safe, Default}
=============================================================================
