----------------------- MODULE AccessGroupController -----------------------
(***************************************************************************)
(* The AccessGroup controller: one worker that reconciles AccessGroup      *)
(* resources with access groups in IBM Cloud IAM.  What it shares with the *)
(* other controllers is in Reconciler.                                     *)
(*                                                                         *)
(* A spec is a group name and a member list; "lists" is FALSE when both    *)
(* userEmails and serviceIDs are nil.  The description travels with the    *)
(* name, status messages and account users are left out.                   *)
(***************************************************************************)
EXTENDS Reconciler

CONSTANTS
    Names,      \* access group names
    NoName,     \* the empty name
    Members     \* IAM ids of users and service ids

\* The values of SpecType and DefType: what a resource asks for, and what an
\* access group is in IAM.
GroupSpec ==
    [name : Names \cup {NoName}, lists : BOOLEAN, members : SUBSET Members]

Group == [name : Names \cup {NoName}, members : SUBSET Members]

ASSUME GroupAssumption ==
    /\ SpecType = GroupSpec
    /\ DefType = Group
    /\ NoName \notin Names
    /\ NoResource \notin Ids
    /\ NoSpec = [name |-> NoName, lists |-> FALSE, members |-> {}]
    /\ NoDef = [name |-> NoName, members |-> {}]
    /\ \A s \in Specs : s.name \in Names /\ (s.members # {} => s.lists)

\* JSON drops empty lists (omitempty), so they come back as nil.
Persisted(spec) ==
    [spec EXCEPT !.lists = @ /\ spec.members # {}]

isWellFormed(spec) == spec.name # NoName => spec.lists

-----------------------------------------------------------------------------
(* Reconcile: a group whose id is in the status *)

specChanged(o) == o.status.id # 0 /\ o.spec # o.status.spec

\* Mutant of groupChanged: the members are not compared.
groupRenamed(o, g, found) == g.name # o.spec.name

\* Does the group differ from the spec, of whose members "found" were found?
groupChanged(o, g, found) == g.name # o.spec.name \/ g.members # found

\* The users found; a user whose lookup fails is skipped.
LookedUp(found) ==
    \/ found = inst.spec.members /\ UNCHANGED faults
    \/ found # inst.spec.members /\ Fault("lookup")

\* Get and List succeed and nothing has changed.
GroupUnchanged ==
    /\ Recorded
    /\ iam[inst.status.id].live
    /\ ~specChanged(inst)
    /\ \E found \in SUBSET inst.spec.members :
          /\ LookedUp(found)
          /\ ~groupChanged(inst, iam[inst.status.id].def, found)
    /\ NothingToDo

\* Something changed, or looks so: a service id whose lookup fails counts as an
\* empty one, which no group has.
GroupChanged ==
    /\ Recorded
    /\ iam[inst.status.id].live
    /\ \/ \E found \in SUBSET inst.spec.members :
             /\ LookedUp(found)
             /\ \/ specChanged(inst)
                \/ groupChanged(inst, iam[inst.status.id].def, found)
       \/ inst.spec.members # {} /\ Fault("lookup")
    /\ GoUpdate(iam[inst.status.id].def)

\* updateAccessGroup; the etag does not cover the members.
UpdateGroup ==
    UpdateEntity([iam[inst.status.id].def EXCEPT !.name = inst.spec.name],
                 "replaceMembers")

\* Inviting and looking up the members fails, or finds no user and goes on
\* to use it: a nil dereference, which ends the process.
Unresolved(next) ==
    /\ inst.spec.members # {}
    /\ \/ Fault("resolve") /\ Goto(next) /\ ApiUnchanged /\ Frame
       \/ Fault("panic") /\ Restart

\* The group's members become m, if there is a group; errors are ignored.
SetMembers(i, m) ==
    \/ /\ iam' = IF iam[i].live
                   THEN Redefined(i, [iam[i].def EXCEPT !.members = m])
                   ELSE iam
       /\ UNCHANGED faults
    \/ Fault("member") /\ IamUnchanged

\* Remove the members retrieved that are not in the spec.
RemoveMembers ==
    /\ pc = "replaceMembers"
    /\ \/ /\ SetMembers(inst.status.id, iam[inst.status.id].def.members
                                            \ (held.members \ inst.spec.members))
          /\ Goto("addMembers") /\ ApiUnchanged /\ Frame
       \/ Unresolved("reportFailed") /\ IamUnchanged

\* Add the members of the spec that were not retrieved.
AddMembers ==
    /\ pc = "addMembers"
    /\ SetMembers(inst.status.id, iam[inst.status.id].def.members
                                      \cup (inst.spec.members \ held.members))
    /\ Goto("record") /\ ApiUnchanged /\ Frame

-----------------------------------------------------------------------------
(* Reconcile: no id in the status *)

NameTaken(n) == \E i \in Ids : iam[i].live /\ iam[i].def.name = n

\* Mutant of FindTaken: the group found by its name is adopted.
FindAdopts ==
    /\ Unrecorded
    /\ \E i \in Ids : /\ iam[i].live /\ iam[i].def.name = inst.spec.name
                     /\ made' = i
    /\ pc' = "newMembers"
    /\ UNCHANGED <<key, inst, fresh, held, etagOk, timers, faults>>
    /\ ApiUnchanged /\ Frame /\ IamUnchanged

\* FindByName returns a group: it is not adopted.
FindTaken ==
    /\ Unrecorded
    /\ NameTaken(inst.spec.name)
    /\ Goto("reportFailed")
    /\ ApiUnchanged /\ Frame /\ IamUnchanged /\ UNCHANGED faults

\* FindByName returns none, also when it fails: its error is ignored.
FindFree ==
    /\ Unrecorded
    /\ \/ ~NameTaken(inst.spec.name) /\ UNCHANGED faults
       \/ Fault("find")
    /\ Goto("create")
    /\ ApiUnchanged /\ Frame /\ IamUnchanged

CreateGroup == CreateEntity([name |-> inst.spec.name, members |-> {}], "newMembers")

AddNewMembers ==
    /\ pc = "newMembers"
    /\ \/ /\ SetMembers(made, iam[made].def.members \cup inst.spec.members)
          /\ Goto("record") /\ ApiUnchanged /\ Frame
       \/ Unresolved("cleanup") /\ IamUnchanged

\* The group whose members are not valid is deleted; errors are ignored.
CleanUp ==
    /\ pc = "cleanup"
    /\ \/ iam' = Deleted(made) /\ UNCHANGED faults
       \/ Fault("undo") /\ IamUnchanged
    /\ Goto("reportFailed")
    /\ ApiUnchanged /\ Frame

-----------------------------------------------------------------------------
Reconcile ==
    \/ CommonStep(isWellFormed(inst.spec), isWellFormed(inst.spec),
                  Persisted(inst.spec))
    \/ GroupUnchanged \/ GroupChanged \/ NotRetrieved("sync")
    \/ UpdateGroup \/ RemoveMembers \/ AddMembers
    \/ FindTaken \/ FindFree \/ CreateGroup \/ AddNewMembers \/ CleanUp
    \/ Record(Persisted(inst.spec))

\* Groups are created, changed and deleted through the IAM console.  The etag
\* is the group's own and does not cover its members.
ConsoleStep ==
    \E i \in Ids, s \in Specs :
        LET def == [name |-> s.name, members |-> s.members] IN
        \/ ConsoleCreates(i, def)
        \/ ConsoleChanges(i, def, iam[i].def.name # def.name)
        \/ ConsoleDeletes(i)

Next == Reconcile \/ Environment \/ ConsoleStep

Spec == Init /\ [][Next]_vars

\* The worker goes on with a reconcile it began, and its surroundings work.
Fairness == WF_vars(Reconcile) /\ EnvironmentFairness

FairSpec == Spec /\ Fairness

-----------------------------------------------------------------------------
(* Properties, besides those of Reconciler *)

Enforced(c) ==
    LET i == api[c].status.id IN
    /\ i # 0
    /\ iam[i].live
    /\ iam[i].def = [name |-> api[c].spec.name, members |-> api[c].spec.members]

NameFree(c) ==
    \A i \in Ids : iam[i].live /\ iam[i].def.name = api[c].spec.name =>
                       iam[i].owner = api[c].uid

\* Desired state: once changes and failures end, every resource has its group,
\* with the name and the members of its spec, unless somebody else has a group
\* of that name.
EventuallyEnforced ==
    \A c \in Resources :
        <>[](Exists(api[c]) /\ ~api[c].deleting /\ NameFree(c) => Enforced(c))

\* What somebody sees who refers to resource c: the id in the cached status, the
\* groups made for the cached incarnation, and the others.
Referent(c) == INSTANCE GroupReference WITH
    NoGroup <- NoResource,
    named <- IF Exists(cache[c]) THEN cache[c].status.id ELSE NoResource,
    own <- {i \in Ids : iam[i].live /\ Exists(cache[c])
                                   /\ iam[i].owner = cache[c].uid},
    others <- {i \in Ids : iam[i].live /\ (Exists(cache[c]) =>
                                            iam[i].owner # cache[c].uid)}

\* An access policy that refers to an AccessGroup resource reads in its cached
\* status no id but of a group made for that resource (or of none any more): it
\* never grants access to somebody else's group, however resources of one name
\* come and go and whatever groups of the same name there are.
ServesReferences ==
    /\ \A c \in Resources : Referent(c)!Init
    /\ [][\A c \in Resources : [Referent(c)!Next]_(Referent(c)!vars)]_vars
=============================================================================
