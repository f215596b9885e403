-------------------- MODULE AuthorizationPolicyController --------------------
(***************************************************************************)
(* The AuthorizationPolicy controller: one worker that reconciles          *)
(* AuthorizationPolicy resources with the policies in IBM Cloud IAM that   *)
(* let one service use another.  It refers to nothing that comes and goes: *)
(* source and target are services, instances and resource groups by id,    *)
(* taken as they are written; only roles are looked up.                    *)
(***************************************************************************)
EXTENDS PolicyController

CONSTANTS
    Classes,     \* service classes
    Services,    \* service instances
    Groups,      \* resource groups
    Parts,       \* resources within a service: name, id, key and value
    None,        \* an empty field
    Offered      \* the roles a source class may have on a target class

\* A source or a target ("Info").
Info == [class : Classes, service : Services \cup {None},
         group : Groups \cup {None}, part : Parts \cup {None}]

\* The value of SpecType.
AuthorizationSpec == [source : Info, roles : SUBSET RoleIds, target : Info]

ASSUME AuthorizationAssumption ==
    /\ SpecType = AuthorizationSpec
    /\ Subjects = Info
    /\ Targets = Info
    /\ None \notin Services \cup Groups \cup Parts
    /\ Offered \in [Classes \X Classes -> SUBSET RoleIds]

\* An instance or a resource group, not both; part of a resource of one of them.
InfoWellFormed(i) ==
    /\ i.group = None \/ i.service = None
    /\ i.part # None => i.group # None \/ i.service # None

isWellFormed(spec) == InfoWellFormed(spec.source) /\ InfoWellFormed(spec.target)

-----------------------------------------------------------------------------
(* Reconcile: roles, resource and subject *)

\* ListAuthorizationRoles must know all the roles.
RolesOffered(spec) ==
    spec.roles \subseteq Offered[spec.source.class, spec.target.class]

PolicyFor(spec) ==
    [subject |-> spec.source, roles |-> spec.roles, target |-> spec.target]

Resolve ==
    /\ pc = "sync" /\ RolesOffered(inst.spec)
    /\ Resolved(PolicyFor(inst.spec))
    /\ UNCHANGED faults

ResolveFails ==
    /\ pc = "sync"
    /\ \/ ~RolesOffered(inst.spec) /\ UNCHANGED faults
       \/ Fault("resolve")
    /\ NotResolved

Reconcile ==
    \/ CommonStep(isWellFormed(inst.spec), isWellFormed(inst.spec), inst.spec)
    \/ Resolve \/ ResolveFails
    \/ PolicyStep(TRUE)

\* The console makes policies like those of specs, changes others into such, or
\* gives them other roles.
ConsoleStep ==
    \E i \in Ids :
        \/ \E s \in Specs : \/ ConsoleCreates(i, PolicyFor(s))
                            \/ ConsoleChanges(i, PolicyFor(s), TRUE)
        \/ \E R \in SUBSET RoleIds \ {{}} :
              ConsoleChanges(i, [iam[i].def EXCEPT !.roles = R], TRUE)
        \/ ConsoleDeletes(i)

Next == Reconcile \/ Environment \/ ConsoleStep

Spec == Init /\ [][Next]_vars

\* The worker goes on with a reconcile it began, and its surroundings work.
Fairness == WF_vars(Reconcile) /\ EnvironmentFairness

FairSpec == Spec /\ Fairness

-----------------------------------------------------------------------------
(* Properties, besides those of Reconciler *)

Declared(c) ==
    Exists(api[c]) /\ ~api[c].deleting /\ isWellFormed(api[c].spec)

\* Desired state: once changes and failures end, every resource has its policy,
\* as the spec last edited says, unless there is another just like it; and one
\* that asks for a role the services do not offer is in state Failed.
EventuallyEnforced ==
    \A c \in Resources :
        LET spec == api[c].spec
            i    == api[c].status.id
        IN  <>[](/\ Declared(c) /\ ~Twin(PolicyFor(spec), i)
                 => IF RolesOffered(spec) THEN PolicyEnforced(c, PolicyFor(spec))
                                          ELSE api[c].status.state = "Failed")

\* What the README says of all resources, and more than the above: the policy is
\* again as declared, with all its roles, whoever has changed it meanwhile.
DesiredStateEnforced ==
    \A c \in Resources :
        LET policy == PolicyFor(api[c].spec)
            i      == api[c].status.id
        IN  <>[](/\ Declared(c) /\ RolesOffered(api[c].spec) /\ ~Twin(policy, i)
                 => PolicyEnforced(c, policy) /\ iam[i].def = policy)
=============================================================================
