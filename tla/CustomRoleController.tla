------------------------ MODULE CustomRoleController ------------------------
(***************************************************************************)
(* The CustomRole controller: one worker that reconciles CustomRole        *)
(* resources with custom roles in IBM Cloud IAM.  What it shares with the  *)
(* other controllers is in Reconciler.                                     *)
(*                                                                         *)
(* The name of a role (roleName and serviceClass) cannot be changed in     *)
(* IAM: the operator restores it in the spec.  Its content (display name,  *)
(* description, actions) can.                                              *)
(***************************************************************************)
EXTENDS Reconciler

CONSTANTS
    RoleNames,  \* a roleName and a serviceClass
    NoName,     \* the empty roleName
    Contents,   \* a display name, a description and actions
    NoContent

\* What a resource asks for, and also what a role is in IAM.
RoleSpec == [name : RoleNames \cup {NoName}, content : Contents \cup {NoContent}]

ASSUME RoleAssumption ==
    /\ SpecType = RoleSpec
    /\ DefType = RoleSpec
    /\ NoName \notin RoleNames
    /\ NoSpec = [name |-> NoName, content |-> NoContent]
    /\ NoDef = NoSpec

isWellFormed(spec) == spec.name # NoName

-----------------------------------------------------------------------------
(* Reconcile: immutable fields *)

immutableSpecChanged(o) == o.status.id # 0 /\ o.spec.name # o.status.spec.name

\* Mutant of Restored: the whole spec is restored.
RestoredWhole(o) == o.status.spec

\* The spec of o with the name it had when its role was created.
Restored(o) == [o.spec EXCEPT !.name = o.status.spec.name]

\* Reconcile goes on with the restored spec.
Restore ==
    /\ pc = "check"
    /\ isWellFormed(inst.spec)
    /\ immutableSpecChanged(inst)
    /\ LET restored == Updated(Restored(inst), inst.own) IN
       \/ /\ Accepted(restored)
          /\ inst' = [inst EXCEPT !.spec = Restored(inst)]
          /\ UNCHANGED <<pc, key, fresh, held, etagOk, made, timers>>
       \/ Refused(restored) /\ Return(TRUE)
    /\ Frame /\ IamUnchanged

\* What Reconcile does before it looks at the role.
Prologue ==
    \/ CommonStep(isWellFormed(inst.spec),
                  isWellFormed(inst.spec) /\ ~immutableSpecChanged(inst),
                  inst.spec)
    \/ Restore

-----------------------------------------------------------------------------
(* Reconcile: a role whose id is in the status *)

mutableSpecChanged(o) ==
    o.status.id # 0 /\ o.spec.content # o.status.spec.content

\* Mutant of roleChanged: the role is not compared.
roleIgnored(o, r) == FALSE

roleChanged(o, r) == r.content # o.spec.content

\* The role retrieved.
Role == iam[inst.status.id].def

RoleUnchanged ==
    /\ Recorded /\ iam[inst.status.id].live
    /\ ~mutableSpecChanged(inst) /\ ~roleChanged(inst, Role)
    /\ NothingToDo /\ UNCHANGED faults

RoleChanged ==
    /\ Recorded /\ iam[inst.status.id].live
    /\ mutableSpecChanged(inst) \/ roleChanged(inst, Role)
    /\ GoUpdate(Role) /\ UNCHANGED faults

\* updateCustomRole
UpdateRole ==
    UpdateEntity([Role EXCEPT !.content = inst.spec.content], "record")

-----------------------------------------------------------------------------
(* Reconcile: no id in the status *)

\* Only a role that agrees in all fields counts as the same.
Duplicate(o) == \E i \in Ids : iam[i].live /\ iam[i].def = o.spec

\* Mutant of FindDuplicate: the role found is adopted.
FindAdopts ==
    /\ Unrecorded
    /\ \E i \in Ids : iam[i].live /\ iam[i].def = inst.spec /\ made' = i
    /\ pc' = "record"
    /\ UNCHANGED <<key, inst, fresh, held, etagOk, timers, faults>>
    /\ ApiUnchanged /\ Frame /\ IamUnchanged

FindDuplicate ==
    /\ Unrecorded
    /\ \/ Duplicate(inst) /\ UNCHANGED faults
       \/ Fault("find")
    /\ Goto("reportFailed")
    /\ ApiUnchanged /\ Frame /\ IamUnchanged

NoDuplicate ==
    /\ Unrecorded
    /\ ~Duplicate(inst)
    /\ Goto("create")
    /\ ApiUnchanged /\ Frame /\ IamUnchanged /\ UNCHANGED faults

CreateRole == CreateEntity(inst.spec, "record")

\* IAM may refuse a name that is in use.
CreateRefused ==
    /\ pc = "create"
    /\ \E i \in Ids : iam[i].live /\ iam[i].def.name = inst.spec.name
    /\ Goto("reportFailed")
    /\ ApiUnchanged /\ Frame /\ IamUnchanged /\ UNCHANGED faults

\* Mutant of Applied: the name is not recorded with a new role.
AppliedContent == [inst.status.spec EXCEPT !.content = inst.spec.content]

\* What the status says was applied: all of a new role, the content of another.
Applied ==
    IF made # 0 THEN inst.spec
                ELSE [inst.status.spec EXCEPT !.content = inst.spec.content]

RecordRole == Record(Applied)

-----------------------------------------------------------------------------
Reconcile ==
    \/ Prologue
    \/ RoleUnchanged \/ RoleChanged \/ NotRetrieved("sync") \/ UpdateRole
    \/ FindDuplicate \/ NoDuplicate \/ CreateRole \/ CreateRefused
    \/ RecordRole

\* The console creates, changes and deletes roles; names stay.
ConsoleStep ==
    \E i \in Ids, s \in Specs :
        \/ ConsoleCreates(i, s)
        \/ ConsoleChanges(i, [iam[i].def EXCEPT !.content = s.content],
                          iam[i].def.content # s.content)
        \/ ConsoleDeletes(i)

Next == Reconcile \/ Environment \/ ConsoleStep

Spec == Init /\ [][Next]_vars

\* The worker goes on with a reconcile it began, and its surroundings work.
Fairness == WF_vars(Reconcile) /\ EnvironmentFairness

FairSpec == Spec /\ Fairness

-----------------------------------------------------------------------------
(* Properties, besides those of Reconciler *)

\* What is restored is right: while the status names a role that exists, the
\* name it records is the one the role has.
RecordsTheRolesName ==
    \A c \in Resources :
        LET s == api[c].status IN
        s.id # 0 /\ iam[s.id].live => iam[s.id].def.name = s.spec.name

\* The operator takes back nothing a user wrote to a spec, however stale its
\* copy, but for the immutable fields of a role it has created.
KeepsUsersEdits ==
    [][changes' = changes =>
         \A c \in Resources :
            Exists(api[c]) /\ api'[c].uid = api[c].uid =>
               \/ api'[c].spec = api[c].spec
               \/ /\ api[c].status.id # 0
                  /\ api'[c].spec = [api[c].spec EXCEPT
                                       !.name = api[c].status.spec.name]]_vars

Enforced(c) ==
    LET i == api[c].status.id IN
    i # 0 /\ iam[i].live /\ iam[i].def = api[c].spec

NameFree(c) ==
    \A i \in Ids : iam[i].live /\ iam[i].def.name = api[c].spec.name =>
                       iam[i].owner = api[c].uid

\* Desired state: once changes and failures end, every resource has its role,
\* as the spec says, with the immutable fields restored in the spec, unless
\* somebody else has a role of that name.
EventuallyEnforced ==
    \A c \in Resources :
        <>[](Exists(api[c]) /\ ~api[c].deleting /\ NameFree(c) => Enforced(c))
=============================================================================
