----------------------- MODULE MCAuthorizationPolicy -----------------------
(* Small values of the constants of AuthorizationPolicyController for TLC. *)
EXTENDS AuthorizationPolicyController

CONSTANTS kms, cos, svc, grp, reader, writer, part

I(c, s, g, p) == [class |-> c, service |-> s, group |-> g, part |-> p]

S(i, r) == [source |-> I(cos, svc, None, None), roles |-> r, target |-> i]

McNoInfo == I(kms, None, None, None)

McNoSpec == [source |-> McNoInfo, roles |-> {}, target |-> McNoInfo]

McNoDef == [subject |-> McNoInfo, roles |-> {}, target |-> McNoInfo]

\* Writers are not known to the object store as a target.
McOffered ==
    [p \in Classes \X Classes |-> IF p[2] = kms THEN {reader, writer} ELSE {reader}]

\* Specs that differ in a role, and in the target, where one of the roles is not
\* offered.
McSpecs ==
    {S(McNoInfo, {reader}), S(McNoInfo, {reader, writer}),
     S(I(cos, None, grp, part), {reader, writer})}
=============================================================================
