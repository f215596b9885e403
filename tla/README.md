# A verification of the IBM Cloud IAM operator in TLA+

The operator manages access groups, access policies, custom roles and
authorization policies of IBM Cloud IAM through Kubernetes custom resources.
This directory models its controllers, checks them with TLC and proves
theorems about them with TLAPS.  Paths below are relative to the repository;
line numbers without a file are of the controller the section is about.

## 1. Inventory

One process (`cmd/manager/main.go`) becomes leader and runs four controllers,
each with one worker.  They share nothing but the API server and IAM: a
controller learns of another one's resources by reading them from the cache.
Only the AccessPolicy controller does: it refers to AccessGroup and CustomRole
resources by name.

| Component | State | Operations | What is hard | What makes it correct |
|---|---|---|---|---|
| AccessGroup controller (`pkg/controller/accessgroup`) | status of the resource (state, `GroupID`, the spec last applied), finalizer; group and members in IAM | `Reconcile`: first status, malformed specs, account lookup, finalizer, deletion, update, creation with compensation | stale cache, conflicts, lost answers, crash between creating a group and recording its id, changes in the console, failing deletions | never touches a group it did not make; no group without its resource; one group per resource; spec eventually enforced; deletion completes |
| CustomRole controller (`pkg/controller/customrole`) | as above with `RoleID`; name and service class are immutable | the same skeleton, restores immutable fields from the status | the spec is written back from a copy that may be stale; what is restored was recorded at the creation of the role | as above; what is restored is the role's name; users' edits are not taken back |
| AccessPolicy controller (`pkg/controller/accesspolicy`) | as above with `PolicyID`; subject, roles and target of the policy | the same skeleton; resolves users, service ids, AccessGroup and CustomRole resources, service instances | references to resources that are not ready, were recreated or have an old id, and are resolved before the write that uses them; a role taken from the policy in the console is never put back | the policy refers to the current group and roles, or the resource says `Failed`; rules 1-6 of the README |
| AuthorizationPolicy controller (`pkg/controller/authorizationpolicy`) | as above; source, target, roles | the same skeleton; looks up which roles the source's class may have | the same comparison of roles; a policy is created without looking for one like it | the policy agrees with the spec; one policy per resource |
| Account context (`pkg/util/common.go`) | secret and configmap per namespace, management namespace | `GetIAMAccountInfo`: lookup in own namespace, management namespace, `default` | every error of the install configmap means "no management namespace"; secret and configmap are looked up one after the other while administrators change them | a resource is managed in the account its namespace is configured for |
| Types (`pkg/apis`) | | `omitempty` of optional lists | empty lists do not survive a write | |
| Manager (`cmd/manager`, `pkg/controller/controller.go`) | | start, leader election, registration | restart | |
| Kubernetes API server, informer cache, work queue (vendored) | objects, versions, cached copies, queued keys, timers | writes with optimistic concurrency, finalizers, watch, resync, retries | the cache lags behind | |
| IAM (external) | access groups and members, roles | create, update with etag, delete, add and remove members | calls that fail or whose answer is lost, changes in the console | |
| Unused helpers (`pkg/lib`, `pkg/context`, `HasConfigMap`, `HasSecret`), generated code, deployment | | | | |

The hazards of this code, each at its line and with the properties that cover
it, are listed in `PROJECT.json`.

## 2. Modules

| Module | What it is |
|---|---|
| `KubeResource` | What one controller sees of Kubernetes: `api`, `cache`, `queue`, `timers`; users; watch, resync, relist.  External, shared by all controllers. |
| `Reconciler` | What the four controllers have in common (the same text in their sources, but for names and messages): the worker, the branches of `Reconcile` that do not depend on the kind, entities in IAM, failures, crashes, the console; and the properties of all controllers. |
| `AccessGroupController` | What `accessgroup_controller.go` adds: comparison, update and creation of groups and members, `omitempty`. |
| `CustomRoleController` | What `customrole_controller.go` adds: restoration of the immutable fields, comparison, update and creation of roles. |
| `PolicyController` | What the two policy controllers share beyond `Reconciler`: a policy is resolved first, then compared, created or updated as a whole. |
| `AccessPolicyController` | What `accesspolicy_controller.go` adds: subjects, invitations, roles by name and by CustomRole; and the users, groups, roles and resources it refers to, which change under it. |
| `AuthorizationPolicyController` | What `authorizationpolicy_controller.go` adds: well-formed sources and targets, the roles offered for them. |
| `AccountContext` | `GetIAMAccountInfo`, read by read, and the administrators of secrets and configmaps. |
| `ManagedEntity` | The abstract promise: entities are made only for a declared resource, and a resource goes away only when none of its entities is left. |
| `GroupReference` | The other abstract promise, to those who read the `GroupID` of an AccessGroup resource: it never is the id of somebody else's group. |
| `MCAccessGroup`, `MCCustomRole`, `MCAccessPolicy`, `MCAuthorizationPolicy`, `MCAccountContext` | Values of the constants for TLC. |
| `ReconcilerProofs` | The steps of `Reconciler` keep the types and `Ownership`, and touch own entities only. |
| `ReconcilerPromise` | They keep `Incarnations` and `Custody`; from these, what they delete, and that they are steps of `ManagedEntity`. |
| `PolicyProofs` | The same of the steps of `PolicyController`. |
| `AccessGroupProofs`, `CustomRoleProofs`, `AccessPolicyProofs`, `AuthorizationPolicyProofs` | The theorems of the four controllers. |
| `AccountContextProofs` | Those of the account lookup. |

`EXTENDS` composes them: `KubeResource` <- `Reconciler` (<- `PolicyController`)
<- a controller <- its MC module, and its proofs with
`ReconcilerProofs` and `ReconcilerPromise`.  A controller's `Next` is its own `Reconcile`, the `Environment`
of `Reconciler` and its `ConsoleStep`.

`GroupReference` composes the AccessGroup with the AccessPolicy controller.
The first is shown to implement it (`ServesReferences`); the second uses its
actions for the group it refers to, in place of the whole other controller: the
group may be lost or made anew, and its id cleared or replaced in the cached
status, at any moment, one group at a time.  That a missing group or
role is made again in the end, which the liveness of policies needs, is the
fairness of `OtherControllers`; the runs `AccessGroupPromise` and
`CustomRole` establish it (`EventuallyEnforced`).  `AccountContext` stands
alone: the controllers see its outcome, an account or an error
(`GetAccountInfo`).

### Code and actions

`Reconcile` is cut where another actor can get between two of its effects: a
write to the API server, or a change in IAM.  `pc` names the call that comes
next; the reads and decisions that precede a call are part of its action.

| `pc` | Access group | Custom role | Actions |
|---|---|---|---|
| `idle` | 127-145 | 127-141 | `GetNotFound`, `GetInstance`, `GetError` |
| `init` | 147-155 | 143-151 | `SetPending` |
| `check` | 157-237 | 153-231 | `Malformed`, `Restore` (roles only), `GetAccountInfo` (and the branch on the finalizer, `AfterAccount`) |
| `dropFinalizer` | 159-166, 182-189 | 155-162, 189-196 | `DropFinalizer` |
| `addFinalizer` | 227-233 | 219-225 | `AddFinalizer` |
| `teardown`, `clearStatus`, `removeFinalizer` | 234-263 | 226-256 | `DeleteEntity`, `ClearStatus`, `RemoveFinalizer` |
| `sync`, with an id | 266-293, 358-434 | 258-272, 339-386 | `GroupUnchanged`, `GroupChanged` / `RoleUnchanged`, `RoleChanged`; `NotRetrieved` |
| `clearId` | 270-277, 283-290 | 262-269 | `ClearId` |
| `update`, `replaceMembers`, `addMembers` | 509-582 | 440-455 | `UpdateGroup`, `RemoveMembers`, `AddMembers` / `UpdateRole` |
| `sync`, without an id | 439-455 | 421-430 | `FindTaken`, `FindFree` / `FindDuplicate`, `NoDuplicate` |
| `create`, `newMembers`, `cleanup` | 441-506 | 431-437 | `CreateGroup`, `AddNewMembers`, `CleanUp` / `CreateRole`, `CreateRefused` |
| `record`, `compensate` | 308-319, 335-353 | 287-298, 314-334 | `Record` / `RecordRole`; `Compensate` |
| `reportFailed` | 168-175, 191-197, 296-304, 325-331 | 164-171, 198-204, 274-283, 302-310 | `ReportFailed` |

The two policy controllers have the first seven rows in common with these (the
account and the API objects are obtained at 183-240 and 180-216), and go on:

| `pc` | Access policy | Authorization policy | Actions |
|---|---|---|---|
| `sync` | 285-308, 584-628 | 261-296 | `ResolveRoles` / `Resolve`; `ResolveFails` |
| `customRoles` | 630-657 | | `ResolveCustomRoles`, `ResolveFails` |
| `subject` | 310-325, 494-500, 530-582 | | `ResolveSubject`, `InviteUser`, `ResolveFails` |
| `findUser`, `withdraw` | 496-528 | | `FindUser`, `WithdrawUser` |
| `fetch` | 327-342 | 301-316 | `PolicyUnchanged`, `PolicyChanged`, `NotRetrieved` |
| `update` | 343-354 | 317-328 | `UpdatePolicy`, `PolicyRefused` |
| `create` | 367-379 | 341-353 | `CreatePolicy`, `PolicyRefused` |
| `record`, `compensate` | 356-366, 381-398 | 330-340, 355-373 | `RecordPolicy`; `Compensate` |
| `reportFailed` | 171-178, 194-201, 287-319, 331-339, 345-352, 370-377 | 168-175, 191-198, 263-295, 305-313, 319-326, 344-351 | `ReportFailed` |

`GetIAMAccountInfo` (`pkg/util/common.go`) is cut at its reads:

| `pc` | Lines | Actions |
|---|---|---|
| `idle`, `found`, `failed` | 45-58, 91 | `Call`, `Return` |
| `own` | 103-132 | `GetOwn` |
| `install` | 137-150 | `getDefaultNamespace` |
| `managed` | 157-177 | `GetManaged` |
| `account` | 60-89 | `FindAccount` |

`inst` is the variable `instance`; `fresh` says whether it still is of the
current version, so whether a write made with it is accepted.  `held` is what
was retrieved of the entity (`retrievedMembers`, the role), or the policy that
was resolved (`policy`), and `etagOk` whether
the etag retrieved with it is still the entity's; `made` is `createdGroup` or
`createdRole`.  `iam` maps ids to entities; the owner of an entity is a history
of who it was created for, which the code cannot see.

A failure is an action's disjunct guarded by `Fault(kind)`, enabled when the
constant `Faults` has that kind and `MaxFaults` is not used up: a read from
the cache or a write (`api`), a write whose answer is lost (`apiLost`), the
account (`account`), Get or List (`read`), the lookup of a member (`lookup`),
the search for a twin (`find`), Create (`create`, `createLost`), Update
(`update`, with or without effect), InviteAccountUser and the like (`resolve`,
and `panic` for the nil dereference of `accessgroup_controller.go:473` and
`:534`; for policies, `resolve` is any call that resolves a reference), Add and Remove of members (`member`), Delete (`delete`, with or
without effect), the deletes whose errors are ignored or that compensate
(`undo`), and a crash (`crash`).

### Abstractions

- Versions are not counted: a flag per copy says whether it is current.  A
  write that changes nothing makes no new version, as in Kubernetes.
- The cache jumps to the newest version; the versions it skips can still be
  seen by synchronizing earlier.
- Ids of entities that nobody holds any more are used again, and the smallest
  unused id is taken: ids are opaque to the code.
- Get and List of a group are one step, and so is the removal of all members
  that have to go; lines 521-557 of the update, which change accounts but not
  the group, belong to the removal.  The console can change a group between
  the read and the update, and between each two of the updates.
- The description of a group travels with its name; user emails and service
  ids are one set of members; messages and invited users are left out.  Names
  are not empty (a group spec with an empty name counts as well-formed in the
  code, and IAM refuses it).
- `roleName` and `serviceClass` are one value, the name of a role; display
  name, description and actions another, its content.  Only the name may be
  empty (`isWellFormed`).  `status.spec` is what the status repeats of both.
  An empty list of actions does not survive in the status (`omitempty`); all
  that follows is an update each period, and it is left out.
- IAM may or may not refuse a role whose name is in use, and the console may
  make such a role: `CreateRefused` and `CreateRole` are both possible.
- The subject of an access policy is the set of its fields that are not empty
  (user, service id, group id, AccessGroup resource); a role is given by a
  display name or by a CustomRole resource, and stands for what IAM lists under
  that name when it is looked up.  Namespaces of references are part of their
  names.  The attributes of a target are one value; those of a source or target
  of an authorization policy are class, instance, resource group and one value
  for name, id, key and value of a part.
- A user is invited in every reconcile, member or not, and may have been when
  the call returns an error; the answer of IAM, and what the user does, decide
  what `FindUser` meets.
- The references of an access policy are resolved in three steps: all lists of
  roles that are given by name; all CustomRole resources and the lists of roles
  of their services; the subject.  Users, groups, roles and resources may change
  between any two, but not within one of the first two.  A target names no
  other resource and is the same at every moment.
- IAM may refuse a policy like one it has, or one for a subject or a role that
  is not there, and it may accept it: both are possible.  That the policies of a
  deleted group go with it is a separate change in IAM.
- The account context is read from what the client sees of the cluster, which
  administrators change between any two reads.  An empty `namespace` in the
  install configmap is a management namespace with nothing in it, like any
  other.  Region and resource group are data that nothing depends on.
- Only this operator adds its finalizers, and no other finalizer contains
  their names (`ContainsFinalizer` would match it).

## 3. Properties and runs

| Property | Of | What it says |
|---|---|---|
| `TouchesOnlyOwnEntities` | steps | The operator changes and deletes only entities made for the incarnation of the resource it reconciles. |
| `RecordedEntityIsOwn`, `Ownership` | states | The id in a status is never inherited from a deleted resource of the same name nor taken from an entity found in IAM; the second is the inductive form, over all copies. |
| `KeepsRecordedEntities` | steps | Neither tear-down for an old copy nor clean-up nor compensation deletes the entity a status names, unless its resource is in deletion.  One case is excepted because the code does it: when the answer to the write that records a new entity is lost, the compensation deletes it (344). |
| `EntitiesHaveTheirResource`, `NoOrphanedEntity` | states | An entity's resource still exists (with the finalizer). |
| `OneEntityPerResource` | states | Retries never leave a second entity. |
| `Incarnations` | states | No copy, name or entity shares a uid with a resource it is not of; a deletion seen in any copy is not taken back; an entity is torn down only for a resource in deletion. |
| `Custody` | states | The two before last, and what they rest on: a copy that has the finalizer and no deletion mark is enough to create an entity, however stale, as the resource is then still there and still has the finalizer; and what `Reconcile` relies on at each label. |
| `ImplementsManagedEntity` | behaviour | The controller implements `ManagedEntity` by the mapping `Promise`. |
| `RecordsTheRolesName` | states | The name a status records, which `Restore` writes back, is the role's. |
| `ServesReferences` | behaviour | The AccessGroup controller implements `GroupReference`: whoever reads a `GroupID` never gets the id of a group made for somebody else. |
| `KeepsUsersEdits` | steps | No write of the operator takes back what a user wrote in a spec, but the immutable fields of a role it has made. |
| `EventuallyEnforced` | liveness | Once changes and failures end, entity and spec agree; of access policies: with what the references stand for by then. |
| `EventuallyFailed` | liveness | A policy whose subject or role has gone, or that is not well-formed, does not pass for one that is served. |
| `DeletionCompletes` | liveness | A deleted resource goes away. |
| `DesiredStateEnforced` | liveness | Policies come back with all their roles; it does not hold. |
| `ContextWasInEffect` | states | Key and organization were in effect for the namespace while they were looked up, together unless the management namespace changed; a key of another namespace is never used because the right one could not be read.  It does not hold. |
| `ContextWasInEffectIfInstallRead` | states | So it is whenever the installation config map could be read. |
| `FailsForAReason` | states | Without a failed call, a lookup fails only if the context was incomplete or wrong. |

| Run | Instance | Properties | What it shows |
|---|---|---|---|
| `AccessGroupFaults` | 1 resource, 2 incarnations, 2 specs (one with empty lists, malformed once written back), other finalizers, 2 changes, 1 failure of any of the 15 kinds | `TypeOK`, `Ownership`, `Incarnations`, `TouchesOnlyOwnEntities`, `KeepsRecordedEntities` | No failure or stale read makes the operator confuse groups. |
| `AccessGroupPair` | 2 resources (symmetric) that may name the same group, 2 incarnations, 1 change, conflicts but no failures | `RecordedEntityIsOwn`, `TouchesOnlyOwnEntities`, `ServesReferences` | Nor does a second resource, nor does a policy get the wrong group. |
| `AccessGroupPromise` | 1 resource, 2 incarnations, 2 changes, 1 failure the code recovers from, fair | `Custody`, `EntitiesHaveTheirResource`, `OneEntityPerResource`, `ImplementsManagedEntity`, `EventuallyEnforced`, `DeletionCompletes` | The controller implements `ManagedEntity`; no group is left behind or made twice; desired state is enforced, deletion completes. |
| `AccessGroupAccountError` | the account lookup fails | `NoOrphanedEntity` **violated** | finding 1 |
| `AccessGroupForeign` | foreground deletion, no failure | `NoOrphanedEntity` **violated** | finding 2 |
| `AccessGroupReadError` | one failed read, fair | `EventuallyEnforced` **violated** | finding 3 |
| `CustomRole` | 1 resource, 2 incarnations, 3 well-formed specs that differ in name, content or both, 2 changes, 1 failure the code recovers from (lost answers included), fair | `Custody`, `Ownership`, `RecordsTheRolesName`, `ImplementsManagedEntity`, `KeepsUsersEdits`, `EventuallyEnforced` | Roles, ids and names stay matched, users' edits stay, the promise is kept, and role and spec agree in the end, the immutable fields restored in the spec. |
| `AccessPolicyLive` | 1 incarnation, 5 specs (a group resource, a user, a service id, two subjects, none; roles by name and by CustomRole), 1 change in cluster, account or IAM, 1 failure the code recovers from, fair | `Custody`, `EventuallyEnforced`, `EventuallyFailed`, `DeletionCompletes` | References that come, go or are replaced between resolution and write: in the end the policy follows, or the resource says `Failed`. |
| `AuthorizationPolicyLive` | 1 incarnation, 3 well-formed specs (one asks for a role that is not offered), 2 changes, 1 such failure, fair | `OneEntityPerResource`, `ImplementsManagedEntity`, `EventuallyEnforced` | Creating without looking first leaves no second policy; policies agree with specs, but for roles taken away. |
| `AuthorizationPolicyRoleTaken` | one change in the console, no failure, fair | `DesiredStateEnforced` **violated** | finding 4 |
| `AccountContext` | own, management and default namespace, 2 keys, 2 organizations, every configuration of them, 1 change per lookup, any number of failed reads | `ContextWasInEffectIfInstallRead`, `FailsForAReason` | Which key and account a resource may be reconciled with, and when a lookup may fail. |
| `AccountContextInstallError` | the same configurations, no change, failing reads of the installation config map | `ContextWasInEffect` **violated** | finding 5 |

Deadlock is not an error in the runs of the controllers: once the bounds are
used up and the last resource is gone the operator has nothing to do and stops.
`AccountContext` checks it: a lookup always returns.

The definitions called "Mutant of ..." in the modules are not part of the
specifications.  Each is a way the definition after it could have been wrong,
and the property it is listed with in `PROJECT.json` fails when it is used.

### Bounds

Two incarnations are what it takes to mix up a resource with a deleted one of
the same name; two changes allow an edit and a deletion, or a console change
and a deletion, around any step; the failure may be of every kind and hit every
call, the handling of a conflict or a refusal included (`AccessGroupPromise`
has been checked with two failures as well: 363,786 states, too long for a
regular run).  For access policies one change is allowed, as what changes
includes users, roles, groups and their resources, and the other controllers
react to it.  In `AccountContext` each lookup has its own change, at any of its
reads.  Its two properties are stated for that, and do not hold with
two changes in one lookup, so that the two reads can be torn apart as the code
stands: when an administrator takes the secret away after it
was read, and then puts the config map up, key and organization were never in
effect together, although the management namespace stayed
(`ContextWasInEffectIfInstallRead`); and a lookup may likewise fail for a pair that never was
(`FailsForAReason`).  Five ids
are enough: the copies of one resource (stored, cached, the worker's) and
`made` hold at most four, so a new one is always left; with two resources the
bounds on creations and changes keep the number of ids in use below five as
well.  The largest run has
about 750,000 states.

Of custom roles, the failures the code does not recover from, other finalizers
and a spec that has lost its name are not in a regular run, as they take longer:
`Ownership`, `RecordsTheRolesName` and `KeepsUsersEdits` have been checked once
with failed reads, lost answers, failed compensations and crashes (799,140
states), and are proved for all of them.  `AccountContext` has been checked once
each for a resource in namespace `default` and for one in the management
namespace (31,592 and 458,808 states); the proofs cover both.

### Which failures the promise survives

`AccessGroupPromise`, `CustomRole`, `AccessPolicyLive` and
`AuthorizationPolicyLive` leave out kinds of failure after which the promise
really is broken.  They are the findings and the limitations of the code, in
all controllers (findings cite the access group's):

1. `account` (and a spec that is malformed when the resource is deleted): the
   finalizer is dropped without deleting the entity.  For this reason
   `AuthorizationPolicyLive` has well-formed specs only.
2. Other finalizers: a resource in deletion that has lost the operator's
   finalizer, or never had it, is synchronized, and may get an entity.
3. `read`: a transient error of Get or List is taken for the loss of the
   entity.
4. `crash`, `panic`, `createLost`: between the creation of an entity and the
   write of its id nothing records that it is the operator's, so it is left
   behind, and found by name and refused ever after.
5. `undo`: the error of the compensating delete is returned or ignored, and
   the entity is left as in 4.

Also seen and not made into runs: state `Failed` stays after a failure that
leaves nothing to change (`accessgroup_controller.go:293`); `userEmails: []` is
dropped by `omitempty` (`accessgroup_types.go:28`), so that a spec accepted as
well-formed becomes malformed once the finalizer is written, is no longer
enforced, and loses its group when it is deleted; a failed attempt to drop the
finalizer (`accessgroup_controller.go:162`, `:185`) sets no timer; a `roleName`
edited to the empty string is not restored, as the malformed check comes first
(`customrole_controller.go:154`); after 3 the immutable fields of a role may be
changed (`:393`), and a second role is made.

Of policies: a role taken away in the console is never put back (finding 4, and
the same loop at `accesspolicy_controller.go:409`; `PolicyEnforced`, which
`EventuallyEnforced` asks for, allows it); a user who has not accepted an
invitation is invited and turned out in turns, and a user who accepts between
the look-up and the deletion (`:502`, `:512`) is removed from the account,
whoever else has invited them.  Of the account context: an error of the
read of the install configmap selects the account of namespace `default`
(finding 5, `common.go:144`); a management namespace called `default` is searched without
prefix (`:109`), so that all namespaces share an account; and an account that is
exchanged leaves behind what the operator made in the old one.

### Fairness

`FairSpec` assumes that a worker that began a reconcile goes on
(`WF(Reconcile)`: no call blocks for ever); that a queued key is eventually
taken (`SF`, because the queue is first in, first out while an idle worker
comes and goes); that watches and timers deliver (`WF`); and that other
controllers finish with their finalizers (`WF`).  The AccessPolicy controller's
also assumes that the AccessGroup and CustomRole controllers make what is missing
(`WF(OtherControllers)`, see section 2).  Users, the console,
failures, crashes and the periodic resync are not fair.

## 4. Proofs

The assumptions are `KubeAssumption`, `ReconcilerAssumption` and a
controller's own (`GroupAssumption`, `RoleAssumption`, `PolicyAssumption`,
`AccessPolicyAssumption`, `AuthorizationAssumption`): ids are positive numbers,
no key, name or definition is the one that stands for "none", specs are of
their type.  Nothing is assumed finite, and the number of resources, creations,
changes and failures, and the kinds of failure, are arbitrary.

- `TypeCorrect` (all controllers): `Spec => []TypeOK`.  `TypeOK` is inductive
  but for one conjunct it contains: a busy worker has a key.  For access
  policies the types of the surroundings are part of the induction
  (`AllTypeOK`): a resolved policy has an existing role for each name only
  because what is resolved is in the surroundings at that moment.
- `OwnershipCorrect` (all): `Spec => []Ownership`.  That stored ids name own
  entities (`RecordedEntityIsOwn`) is not inductive: a write stores the
  worker's id under whatever the name now stands for.  `Ownership` adds what
  makes it so: the same of the cache and the worker's copy; that a copy called
  fresh is of the incarnation that is stored, and agrees with it on the
  finalizer, so that an id never passes from one incarnation to the next; that
  what is being deleted is held by a finalizer (`Held`), so that a write that
  leaves the operator's alone, like the Update of line 250, cannot make the
  object vanish under the worker; that a cached copy called current is the
  stored one; and that the entity just made belongs to the instance.  A new id
  is held by no copy, so an entity that appears under it changes nothing for
  them.
- `RecordedEntityCorrect` and `TouchesOnlyOwnEntitiesCorrect` (all) follow: the
  only entities a step of the operator changes are the one its copy names and
  the one it made.  For access policies this is with groups, roles, users and
  resources replaced at any time.
- `IncarnationsCorrect` (all): `Spec => []Incarnations`, for all failures.  It is
  inductive with the types.  The argument does not look at 20-odd actions but
  at `Moves`, what any step does with the copies of resources: the
  API server changes one object, keeping its uid and its deletion mark, or
  removes it, or gives out the uid `created + 1`; the cache takes stored objects;
  the worker keeps its copy, takes one from the cache or drops it; an entity
  gets the uid of the worker's copy.  One lemma for each action says that it
  moves so, one lemma that such moves keep `Incarnations`.
- `KeepsRecordedEntitiesCorrect` (all): needs both invariants and a third.  The
  operator deletes the entity its copy names (`teardown`) or the one it made
  (`cleanup`, `compensate`).  If the first is the recorded one of a resource, then
  by `Ownership` the worker's copy is of that incarnation, and as the copy is in
  deletion so is the stored resource (`Incarnations`).  Of the second, `Unnamed`
  says that no status names it but after a lost answer: an id that was just given
  out is held by no copy, and comes into a status only by the write that records
  it, after which the worker compensates only if that write seemed to fail.  The
  exception of the property is this lost answer, and nothing else.
- `ServesReferencesCorrect` (access groups): the refinement of `GroupReference`,
  one for each resource.  A step makes or loses at most one group
  (`EntityMoves`), the cache takes what `Ownership` says of stored copies, and an
  id just made is named by nobody.
- `CustodyCorrect` (all) and, from it, `EntitiesHaveTheirResourceCorrect` and
  `OneEntityPerResourceCorrect`, under two hypotheses: `Reliable` and
  `SpecsWellFormed` (see below).  Neither property is inductive: a stale worker
  could create an entity for a resource that has gone, or lost the finalizer, or
  already has one.  `Guarded` says that the copy tells: a copy with the finalizer
  and without deletion mark means that the stored resource is the same
  incarnation and still has the finalizer, since the finalizer leaves only after a
  deletion mark, and the resource only after the finalizer.  `Controlled` says
  where `Reconcile` is: it creates only when its copy has no id; when it has made
  an entity, it is on the way to record or to delete it; it clears the status and
  drops the finalizer only when the entity has gone.  A stale copy without id may
  make a second entity, which is `made`: it is recorded only if no write came
  between, so never beside another, and otherwise deleted again.  Again the
  actions are first shown to do no more than `Serves` allows, and that keeps
  `Custody`.  For custom roles `NamesRestorable` has to go along: `Restore` writes
  a recorded name into the spec, and would make it malformed if that were empty.
- `ImplementsManagedEntityCorrect` (all, same hypotheses): the refinement
  of `ManagedEntity` by `Promise`.  The initial states map to the initial state,
  and each step changes the phase of one uid or makes or loses one entity:
  it is made in phase "declared" or "terminating" by `Guarded`, and the phase
  becomes "gone" only when none is left by `EntitiesHaveTheirResource`.
- `ContextWasInEffectCorrect` (which proves `ContextWasInEffectIfInstallRead`),
  `FailsForAReasonCorrect` (account lookup, under `OneChange`: at most one change
  in a lookup).  `AccountAssumption` says that `Missing` is no key, organization
  or namespace, which organizations a key finds, which reads may fail, and that
  `MaxChanges` is a number; the resource may be in any namespace, `default` and
  the management namespace included, and any number of the reads of a lookup may
  fail.  That every object read was there
  when it was read does not suffice: the reads of one object, in up to three
  places, must amount to one view of the cluster.  `ReadOfOneView` says this of
  each of the two objects, as long as the installation config map could be read,
  `ChangedOnce` that the views of a lookup differ in at
  most one object.  Two views that differ in one place of an object agree
  either on what was read before or on what is read next
  (`InstalledView`, `ManagedView`); two that differ in the installation config map
  agree on all secrets and config maps.  In the end a view for the key and one for
  the organization can be had together unless the management namespace differs
  (`TogetherInEffect`).  The number and content of views is arbitrary.
- `KeepsUsersEditsCorrect` (custom roles): the operator writes the whole spec
  with every Update.  That this takes nothing back rests on `Faithful`: while a
  copy is fresh, it *is* the stored object, after every write that the worker
  goes on from.
- `RecordsTheRolesNameCorrect` (custom roles): `NamesInv` says of every copy
  that the id and the name its status holds belong together, and of a role just
  made that it has the name the worker's copy asks for, which `RecordRole` is
  going to record.

The proofs about the steps of `Reconciler` are done once and cited by all
controllers, those about `PolicyController` by two.

Hypotheses.  `Reliable` excludes other finalizers and the failures `read`,
`account`, `createLost`, `panic`, `undo` and `crash`: section 3 says how each
leaves an entity behind or makes a second one.  What stays may happen any number of
times and at any call: conflicts, failing reads and writes of Kubernetes and lost
answers to its writes, failing look-ups, updates and deletions in IAM and lost answers
to these, and creations that are refused.  `SpecsWellFormed` says that users submit
well-formed specs, of access groups such that are well-formed when written back, too
(no `userEmails: []`): the finalizer of a resource that is malformed when it is
deleted is dropped.  The constants of `AccessGroupPromise`, `CustomRole`
and `AuthorizationPolicyLive` satisfy both.  Those of `AccessPolicyLive` satisfy the
first and have malformed specs, for `EventuallyFailed`; that `Custody` holds there
nonetheless is due to the single change: a resource gets the finalizer while it is
well-formed, and it would take an edit and a deletion to lose it.
`OneChange` is the bound of the run `AccountContext`, and section 3 has the
counterexample for two.  Nothing else is proved under a hypothesis.

All properties of states that runs find to hold are proved, and the action properties
and refinements with them.  TLC checked the inductive invariants first:
`Ownership`, `Incarnations` and `Custody` in runs, with the last two also for the
constants of the others; `Faithful`, the parts of `NamesInv`, and the invariant
`Inv` of `AccountContextProofs` on the run's constants before they were
proved.  Only model-checked are the liveness properties (`EventuallyEnforced`,
`EventuallyFailed`, `DeletionCompletes`), which need fairness and ENABLED and so are
out of the prover's reach.  The refinement of `ManagedEntity` that is proved is that of
its `Spec`, which has no fairness; `DeletionCompletes` is the model-checked part
of that promise.

## 5. Plan

In this order; each controller EXTENDS `Reconciler` and reuses `ManagedEntity`
and the proof modules `ReconcilerProofs` and `ReconcilerPromise`.

1. *(done)* `KubeResource`, `Reconciler`, `AccessGroupController`,
   `ManagedEntity`; types and ownership proved.
2. *(done)* `CustomRoleController`: the life of a role, its immutable fields;
   types, ownership, `KeepsUsersEdits` and `RecordsTheRolesName` proved.
3. *(done)* `AccountContext`: the lookup of secret and configmap with changes and
   transient errors.
4. *(done)* `AccessPolicyController` with the AccessGroup and CustomRole
   resources it refers to; rules 1-6 of the README's reconciliation rules as
   liveness properties; `GroupReference`; types and ownership proved.
5. *(done)* `AuthorizationPolicyController`; types and ownership proved.
6. *(done)* Proofs: `KeepsRecordedEntities`, by `Incarnations`;
   `EntitiesHaveTheirResource`, `OneEntityPerResource` and the refinement of
   `ManagedEntity`, by `Custody`; that of `GroupReference`; the account lookup
   with one change.
7. Still worth doing: a safety property of access policies between resolution
   and write, that the subject and the roles of a policy the operator makes or
   updates all stood for the spec at some moment of that reconcile, and its proof.

Not planned: metrics and flags of `main.go`, the unused helper library,
generated code and deployment, which have no run-time logic of the operator.
