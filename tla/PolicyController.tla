-------------------------- MODULE PolicyController --------------------------
(***************************************************************************)
(* What the AccessPolicy and the AuthorizationPolicy controller have in    *)
(* common beyond Reconciler: policies are resolved from the spec first,    *)
(* and the resolved policy is compared with the one in IAM and written.    *)
(* The text is the same in both; that of the AccessPolicy controller       *)
(* stands for it.  How a spec is resolved is the business of each.         *)
(***************************************************************************)
EXTENDS Reconciler

CONSTANTS
    Subjects,   \* who a policy may be for
    RoleIds,    \* roles, by id
    Targets     \* what a policy may give access to

\* The value of DefType: a policy in IAM.
Policy == [subject : Subjects, roles : SUBSET RoleIds, target : Targets]

ASSUME PolicyAssumption == DefType = Policy

-----------------------------------------------------------------------------
(* Resolving a spec *)

\* Something is known of what the policy has to be.
Known(policy, next) ==
    /\ held' = policy
    /\ pc' = next
    /\ UNCHANGED <<key, inst, fresh, etagOk, made, timers>>
    /\ ApiUnchanged /\ Frame /\ IamUnchanged

\* All is known: on to the policy in IAM, or to a new one.
Resolved(policy) ==
    Known(policy, IF inst.status.id # 0 THEN "fetch" ELSE "create")

\* A reference could not be resolved.
NotResolved ==
    /\ Goto("reportFailed")
    /\ ApiUnchanged /\ Frame /\ IamUnchanged

-----------------------------------------------------------------------------
(* The policy in IAM *)

\* Mutant of specChanged: only IAM is compared with.
specNotWatched(o) == FALSE

specChanged(o) == o.status.id # 0 /\ o.spec # o.status.spec

\* Mutant of policyChanged: the subject is not compared.
policyRedirected(policy, retrieved) ==
    \/ ~(retrieved.roles \subseteq policy.roles)
    \/ retrieved.target # policy.target

\* A role too many in IAM counts as a change, a missing one does not.
policyChanged(policy, retrieved) ==
    \/ retrieved.subject # policy.subject
    \/ ~(retrieved.roles \subseteq policy.roles)
    \/ retrieved.target # policy.target

Retrieved == iam[inst.status.id].def

PolicyUnchanged ==
    /\ RecordedAt("fetch") /\ iam[inst.status.id].live
    /\ ~specChanged(inst) /\ ~policyChanged(held, Retrieved)
    /\ NothingToDo /\ UNCHANGED faults

PolicyChanged ==
    /\ RecordedAt("fetch") /\ iam[inst.status.id].live
    /\ specChanged(inst) \/ policyChanged(held, Retrieved)
    /\ GoUpdate(held) /\ UNCHANGED faults

\* The etag covers the whole policy, and all of it is written.
UpdatePolicy == UpdateEntity(held, "record")

\* Nothing is looked for before a policy is created.
CreatePolicy == CreateEntity(held, "record")

\* Another policy just like it.
Twin(policy, id) ==
    \E i \in Ids : i # id /\ iam[i].live /\ iam[i].def = policy

\* IAM may refuse a policy it has already, or one that makes no sense to it.
PolicyRefused(valid) ==
    /\ pc \in {"create", "update"}
    /\ ~valid \/ Twin(held, inst.status.id)
    /\ Goto("reportFailed")
    /\ ApiUnchanged /\ Frame /\ IamUnchanged /\ UNCHANGED faults

RecordPolicy == Record(inst.spec)

\* From the resolved policy on.
PolicyStep(valid) ==
    \/ PolicyUnchanged \/ PolicyChanged \/ NotRetrieved("fetch")
    \/ UpdatePolicy \/ CreatePolicy \/ PolicyRefused(valid) \/ RecordPolicy

-----------------------------------------------------------------------------
(* Properties of both controllers *)

\* The recorded policy is the one wanted, and has been written since the spec
\* was edited.  It may lack roles: those taken away in the console stay away.
PolicyEnforced(c, wanted) ==
    LET i == api[c].status.id IN
    /\ i # 0
    /\ iam[i].live
    /\ iam[i].def.subject = wanted.subject
    /\ iam[i].def.roles \subseteq wanted.roles
    /\ iam[i].def.target = wanted.target
    /\ api[c].status.spec = api[c].spec
=============================================================================
