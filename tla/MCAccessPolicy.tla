--------------------------- MODULE MCAccessPolicy ---------------------------
(* Small values of the constants of AccessPolicyController for TLC. *)
EXTENDS AccessPolicyController, TLC

CONSTANTS u1, s1, viewer, editor, cr1, r1, r2, t1

S(x, r) == [subject |-> x, roles |-> r, target |-> t1]

McSubjects == Users \cup Identities \cup GroupIds \cup {0}

McNoSpec == S({}, {})

McNoDef == [subject |-> 0, roles |-> {}, target |-> t1]

McRoleNamed == (viewer :> r1) @@ (editor :> r2)

McNameIn == [c \in RoleRefs |-> editor]

\* A subject and roles of each kind; two subjects, and none.
McSpecs == {S({TheGroup}, {viewer, cr1}), S({u1}, {viewer}), S({s1}, {cr1}),
            S({u1, s1}, {viewer}), S({}, {viewer})}
=============================================================================
