----------------------------- MODULE Reconciler -----------------------------
(***************************************************************************)
(* What the four controllers of the operator have in common: one worker    *)
(* that reconciles resources of a kind with entities in IBM Cloud IAM      *)
(* (access groups, access policies, custom roles, authorization policies). *)
(* Reconcile is the same program in all of them, but for the way entities  *)
(* are compared, created and updated.  The AccessGroup controller's text   *)
(* stands for all of it here; a controller's own module says what differs. *)
(*                                                                         *)
(* Reconcile is cut where another actor can get between two of its effects *)
(* (a write to the API server, a change in IAM): pc names the next call.   *)
(* Reads and decisions that precede an effect are part of its action.  The *)
(* process may die at any pc.  Calls fail as the constant Faults allows.   *)
(***************************************************************************)
EXTENDS KubeResource

CONSTANTS
    DefType,    \* how an entity may be defined in IAM
    NoDef,      \* the definition of no entity
    NoResource, \* the key of an idle worker
    Faults,     \* the kinds of failure that may happen
    MaxFaults   \* bound: how many of them

FaultKinds == {"read", "api", "apiLost", "account", "lookup", "find", "create",
               "createLost", "update", "resolve", "panic", "member", "delete",
               "undo", "crash"}

ASSUME ReconcilerAssumption ==
    /\ NoResource \notin Resources
    /\ NoDef \in DefType
    /\ Faults \subseteq FaultKinds
    /\ MaxFaults \in Nat

VARIABLES
    pc,      \* the next call of Reconcile
    key,     \* the request
    inst,    \* "instance", the worker's copy of the object
    fresh,   \* is inst of the current version?
    held,    \* what Reconcile has read of the entity, or computed for it
    etagOk,  \* is the retrieved etag still the entity's?
    made,    \* the entity this Reconcile created, or 0
    iam,     \* entities by id; owner is the uid of the resource the entity was
             \* created for, 0 when it came from the console
    faults   \* failures so far

worker == <<pc, key, inst, fresh, held, etagOk, made>>
vars == <<kube, worker, iam, faults>>

PCs == {"idle", "init", "check", "dropFinalizer", "addFinalizer",
        "teardown", "clearStatus", "removeFinalizer", "sync", "customRoles",
        "subject", "findUser", "withdraw", "fetch", "clearId", "update",
        "replaceMembers", "addMembers", "create", "newMembers", "cleanup",
        "record", "compensate", "reportFailed"}

Entity == [live : BOOLEAN, owner : Nat, def : DefType]

NoEntity == [live |-> FALSE, owner |-> 0, def |-> NoDef]

WorkerTypeOK ==
    /\ pc \in PCs
    /\ key \in Resources \cup {NoResource}
    /\ pc # "idle" => key \in Resources
    /\ inst \in Object
    /\ fresh \in BOOLEAN
    /\ held \in DefType
    /\ etagOk \in BOOLEAN
    /\ made \in Ids \cup {0}

IamTypeOK == iam \in [Ids -> Entity] /\ faults \in 0..MaxFaults

\* The variables keep their types; a busy worker has a key.
TypeOK == KubeTypeOK /\ WorkerTypeOK /\ IamTypeOK

Init ==
    /\ KubeInit
    /\ pc = "idle" /\ key = NoResource /\ inst = Absent /\ fresh = FALSE
    /\ held = NoDef /\ etagOk = FALSE /\ made = 0
    /\ iam = [i \in Ids |-> NoEntity]
    /\ faults = 0

-----------------------------------------------------------------------------
(* Calls and returns *)

Fault(kind) ==
    /\ kind \in Faults
    /\ faults < MaxFaults
    /\ faults' = faults + 1

\* What the API server holds after r.client.Status().Update(inst with status s)
StatusUpdated(s) == [api[key] EXCEPT !.status = s]

\* What it holds after r.client.Update(inst with that spec, and with our
\* finalizer present or not)
Updated(spec, own) == Collected([api[key] EXCEPT !.spec = spec, !.own = own])

\* The call succeeds: the copy it was made with is of the current version.
Accepted(o) ==
    /\ fresh
    /\ Store(key, o)
    /\ UNCHANGED faults

\* It returns an error: a conflict, a failure, or a lost answer.
Refused(o) ==
    \/ ~fresh /\ UNCHANGED <<api, current, faults>>
    \/ fresh /\ Fault("api") /\ UNCHANGED <<api, current>>
    \/ fresh /\ Fault("apiLost") /\ Store(key, o)

\* Mutant of Return: the key is given back but Reconcile goes on.
ReturnForgotten(requeue) ==
    /\ key' = NoResource
    /\ timers' = IF requeue THEN timers \cup {key} ELSE timers
    /\ UNCHANGED <<pc, inst, fresh, held, etagOk, made>>

\* Reconcile returns; an error, Requeue or RequeueAfter sets a timer.
Return(requeue) ==
    /\ pc' = "idle" /\ key' = NoResource /\ inst' = Absent /\ fresh' = FALSE
    /\ held' = NoDef /\ etagOk' = FALSE /\ made' = 0
    /\ timers' = IF requeue THEN timers \cup {key} ELSE timers

Goto(label) ==
    /\ pc' = label
    /\ UNCHANGED <<key, inst, fresh, held, etagOk, made, timers>>

IamUnchanged == UNCHANGED iam

Frame == UNCHANGED <<cache, queue, created, changes>>

ApiUnchanged == UNCHANGED <<api, current>>

\* The process dies and another takes over.
Restart ==
    /\ Relist
    /\ pc' = "idle" /\ key' = NoResource /\ inst' = Absent /\ fresh' = FALSE
    /\ held' = NoDef /\ etagOk' = FALSE /\ made' = 0

-----------------------------------------------------------------------------
(* Reconcile: from the request to the account *)

\* Nothing is cached under the key: the resource is gone.
GetNotFound(c) ==
    /\ pc = "idle" /\ c \in queue /\ ~Exists(cache[c])
    /\ queue' = queue \ {c}
    /\ UNCHANGED <<api, cache, current, timers, created, changes>>
    /\ UNCHANGED <<worker, iam, faults>>

GetInstance(c) ==
    /\ pc = "idle" /\ c \in queue /\ Exists(cache[c])
    /\ queue' = queue \ {c}
    /\ key' = c
    /\ inst' = cache[c]
    /\ fresh' = current[c]
    /\ pc' = IF cache[c].status = NoStatus THEN "init" ELSE "check"
    /\ UNCHANGED <<api, cache, current, timers, created, changes>>
    /\ UNCHANGED <<held, etagOk, made, iam, faults>>

GetError(c) ==
    /\ pc = "idle" /\ c \in queue
    /\ Fault("api")
    /\ queue' = queue \ {c}
    /\ timers' = timers \cup {c}
    /\ UNCHANGED <<api, cache, current, created, changes, worker, iam>>

\* Set the status for the first time.
SetPending ==
    /\ pc = "init"
    /\ LET pending == [inst.status EXCEPT !.state = "Pending"] IN
       \/ /\ Accepted(StatusUpdated(pending))
          /\ inst' = [inst EXCEPT !.status = pending]
          /\ pc' = "check"
          /\ UNCHANGED <<key, fresh, held, etagOk, made, timers>>
       \/ Refused(StatusUpdated(pending)) /\ Return(TRUE)
    /\ Frame /\ IamUnchanged

\* The spec is not well-formed.
Malformed(wellFormed) ==
    /\ pc = "check" /\ ~wellFormed
    /\ \/ inst.deleting /\ Goto("dropFinalizer")
       \/ ~inst.deleting /\ inst.status.state # "Failed" /\ Goto("reportFailed")
       \/ ~inst.deleting /\ inst.status.state = "Failed" /\ Return(TRUE)
    /\ ApiUnchanged /\ Frame /\ IamUnchanged /\ UNCHANGED faults

\* Mutant of AfterAccount: a live resource is synchronized without finalizer.
AfterAccountNoFinalizer(o) ==
    CASE o.deleting /\ o.own /\ o.status.id # 0 -> "teardown"
      [] o.deleting /\ o.own /\ o.status.id = 0 -> "removeFinalizer"
      [] OTHER                                  -> "sync"

\* Mutant of AfterAccount: the deletion timestamp is not asked for.
AfterAccountUndeleted(o) ==
    CASE ~o.own                    -> "addFinalizer"
      [] o.own /\ o.status.id # 0 -> "teardown"
      [] o.own /\ o.status.id = 0 -> "removeFinalizer"

\* The finalizer branch for an instance whose account is known.
AfterAccount(o) ==
    CASE ~o.deleting /\ ~o.own                     -> "addFinalizer"
      [] o.deleting /\ o.own /\ o.status.id # 0    -> "teardown"
      [] o.deleting /\ o.own /\ o.status.id = 0    -> "removeFinalizer"
      [] OTHER                                      -> "sync"

\* A spec that needs no correction gets as far as the account.
GetAccountInfo(ready) ==
    /\ pc = "check" /\ ready
    /\ \/ Goto(AfterAccount(inst)) /\ UNCHANGED faults
       \/ /\ Fault("account")
          /\ Goto(IF inst.deleting THEN "dropFinalizer" ELSE "reportFailed")
       \/ Fault("account") /\ Return(TRUE)   \* no client for the session
    /\ ApiUnchanged /\ Frame /\ IamUnchanged

\* Deletion without an account or a well-formed spec: errors are ignored.
DropFinalizer(spec) ==
    /\ pc = "dropFinalizer"
    /\ Accepted(Updated(spec, FALSE)) \/ Refused(Updated(spec, FALSE))
    /\ Return(FALSE)
    /\ Frame /\ IamUnchanged

\* Mutant of ReportFailed: if the status cannot be written the entity is
\* deleted, as the comments "TODO ??? delete access group" consider.
ReportFailedDeleting ==
    /\ pc = "reportFailed"
    /\ LET failed == StatusUpdated([inst.status EXCEPT !.state = "Failed"]) IN
       \/ Accepted(failed) /\ UNCHANGED iam
       \/ Refused(failed) /\ iam' = [iam EXCEPT ![inst.status.id] = NoEntity]
    /\ Return(TRUE)
    /\ Frame

\* Failures end with state Failed, and an error or a RequeueAfter.
ReportFailed ==
    /\ pc = "reportFailed"
    /\ LET failed == StatusUpdated([inst.status EXCEPT !.state = "Failed"]) IN
       Accepted(failed) \/ Refused(failed)
    /\ Return(TRUE)
    /\ Frame /\ IamUnchanged

AddFinalizer(spec) ==
    /\ pc = "addFinalizer"
    /\ \/ /\ Accepted(Updated(spec, TRUE))
          /\ inst' = [inst EXCEPT !.own = TRUE]
          /\ pc' = "sync"
          /\ UNCHANGED <<key, fresh, held, etagOk, made, timers>>
       \/ Refused(Updated(spec, TRUE)) /\ Return(TRUE)
    /\ Frame /\ IamUnchanged

-----------------------------------------------------------------------------
(* Reconcile: deletion *)

Deleted(i) == [iam EXCEPT ![i] = NoEntity]

\* Mutant of DeleteEntity: every error is taken for "Failed to find".
DeleteErrorIgnored ==
    /\ pc = "teardown"
    /\ \/ iam' = Deleted(inst.status.id) /\ UNCHANGED faults
       \/ Fault("delete") /\ IamUnchanged
    /\ Goto("clearStatus")
    /\ ApiUnchanged /\ Frame

\* An entity that is not found counts as deleted.
DeleteEntity ==
    /\ pc = "teardown"
    /\ \/ /\ iam' = Deleted(inst.status.id)
          /\ Goto("clearStatus")
          /\ UNCHANGED faults
       \/ /\ Fault("delete")   \* the call fails, or its answer is lost
          /\ IamUnchanged \/ iam' = Deleted(inst.status.id)
          /\ Return(TRUE)
    /\ ApiUnchanged /\ Frame

\* The status is cleared with Update, which does not store a status.
ClearStatus(spec) ==
    /\ pc = "clearStatus"
    /\ \/ Accepted(Updated(spec, inst.own)) /\ Goto("removeFinalizer")
       \/ Refused(Updated(spec, inst.own)) /\ Return(TRUE)
    /\ Frame /\ IamUnchanged

\* Mutant of RemoveFinalizer: the error is logged and not returned.
RemoveFinalizerOnce(spec) ==
    /\ pc = "removeFinalizer"
    /\ Accepted(Updated(spec, FALSE)) \/ Refused(Updated(spec, FALSE))
    /\ Return(FALSE)
    /\ Frame /\ IamUnchanged

RemoveFinalizer(spec) ==
    /\ pc = "removeFinalizer"
    /\ \/ Accepted(Updated(spec, FALSE)) /\ Return(FALSE)
       \/ Refused(Updated(spec, FALSE)) /\ Return(TRUE)
    /\ Frame /\ IamUnchanged

-----------------------------------------------------------------------------
(* Reconcile: an entity whose id is in the status *)

\* Where it is read: policies do so only once their references are resolved.
RecordedAt(label) == pc = label /\ inst.status.id # 0

Recorded == RecordedAt("sync")

\* The entity is as it should be: done until the next period.
NothingToDo ==
    /\ Return(TRUE)
    /\ ApiUnchanged /\ Frame /\ IamUnchanged

\* The entity has to be updated, with what was read of it or computed for it.
GoUpdate(def) ==
    /\ pc' = "update" /\ held' = def /\ etagOk' = TRUE
    /\ UNCHANGED <<key, inst, fresh, made, timers>>
    /\ ApiUnchanged /\ Frame /\ IamUnchanged

\* Get returns an error, whatever the error is.
NotRetrieved(label) ==
    /\ RecordedAt(label)
    /\ \/ ~iam[inst.status.id].live /\ UNCHANGED faults
       \/ Fault("read")
    /\ Goto("clearId")
    /\ ApiUnchanged /\ Frame /\ IamUnchanged

\* The id is cleared; the next reconcile will take the entity for missing.
ClearId ==
    /\ pc = "clearId"
    /\ LET cleared == StatusUpdated([inst.status EXCEPT !.state = "Failed",
                                                        !.id = 0]) IN
       Accepted(cleared) \/ Refused(cleared)
    /\ Return(TRUE)
    /\ Frame /\ IamUnchanged

Redefined(i, def) == [iam EXCEPT ![i].def = def]

\* The update is conditional on the etag.
UpdateEntity(def, next) ==
    /\ pc = "update"
    /\ \/ /\ iam[inst.status.id].live /\ etagOk
          /\ iam' = Redefined(inst.status.id, def)
          /\ \/ Goto(next) /\ UNCHANGED faults
             \/ Fault("update") /\ Goto("reportFailed")   \* the answer is lost
       \/ /\ ~iam[inst.status.id].live \/ ~etagOk
          /\ Goto("reportFailed") /\ IamUnchanged /\ UNCHANGED faults
       \/ Fault("update") /\ Goto("reportFailed") /\ IamUnchanged
    /\ ApiUnchanged /\ Frame

-----------------------------------------------------------------------------
(* Reconcile: no id in the status *)

Unrecorded == pc = "sync" /\ inst.status.id = 0

\* An id nobody holds stands for the new one (the smallest: ids are opaque).
Unused(i) ==
    /\ ~iam[i].live
    /\ i # inst.status.id /\ i # made
    /\ \A c \in Resources : i # api[c].status.id /\ i # cache[c].status.id

NewId(i) == Unused(i) /\ \A j \in Ids : Unused(j) => i <= j

NewEntity(i, owner, def) ==
    [iam EXCEPT ![i] = [live |-> TRUE, owner |-> owner, def |-> def]]

CreateEntity(def, next) ==
    /\ pc = "create"
    /\ \/ \E i \in Ids :
             /\ NewId(i)
             /\ iam' = NewEntity(i, inst.uid, def)
             /\ \/ /\ made' = i
                   /\ pc' = next
                   /\ UNCHANGED <<key, inst, fresh, held, etagOk, timers, faults>>
                \/ Fault("createLost") /\ Goto("reportFailed")
       \/ Fault("create") /\ Goto("reportFailed") /\ IamUnchanged
    /\ ApiUnchanged /\ Frame

-----------------------------------------------------------------------------
(* Reconcile: the outcome *)

\* The status that records the entity and the spec applied to it.
Online(applied) ==
    StatusUpdated([state |-> "Online", spec |-> applied,
                   id |-> IF made # 0 THEN made ELSE inst.status.id])

\* Mutant of Record: no compensation.
RecordOnly(applied) ==
    /\ pc = "record"
    /\ Accepted(Online(applied)) \/ Refused(Online(applied))
    /\ Return(TRUE)
    /\ Frame /\ IamUnchanged

\* If it cannot be recorded, an entity just created is deleted again.
Record(applied) ==
    /\ pc = "record"
    /\ \/ Accepted(Online(applied)) /\ Return(TRUE)
       \/ Refused(Online(applied)) /\ made = 0 /\ Return(TRUE)
       \/ Refused(Online(applied)) /\ made # 0 /\ Goto("compensate")
    /\ Frame /\ IamUnchanged

Compensate ==
    /\ pc = "compensate"
    /\ \/ iam' = Deleted(made) /\ UNCHANGED faults
       \/ Fault("undo") /\ IamUnchanged
    /\ Return(TRUE)
    /\ ApiUnchanged /\ Frame

\* The steps that are the same in all controllers.  What an Update writes of
\* the spec, and which specs are let through, is the controller's business.
CommonStep(wellFormed, ready, spec) ==
    \/ SetPending \/ Malformed(wellFormed) \/ GetAccountInfo(ready)
    \/ DropFinalizer(spec) \/ AddFinalizer(spec) \/ ReportFailed
    \/ DeleteEntity \/ ClearStatus(spec) \/ RemoveFinalizer(spec)
    \/ ClearId \/ Compensate

-----------------------------------------------------------------------------
(* The environment *)

Crash ==
    /\ Fault("crash")
    /\ Restart
    /\ IamUnchanged

\* A user's change makes the worker's copy an old one.
UserStep ==
    /\ User
    /\ fresh' = (fresh /\ api'[key] = api[key])
    /\ UNCHANGED <<pc, key, inst, held, etagOk, made, iam, faults>>

Finalize(c) ==
    /\ RemoveForeignFinalizer(c)
    /\ fresh' = (fresh /\ api'[key] = api[key])
    /\ UNCHANGED <<pc, key, inst, held, etagOk, made, iam, faults>>

CacheSyncs(c) == CacheSync(c) /\ UNCHANGED <<worker, iam, faults>>
Resyncs(c) == Resync(c) /\ UNCHANGED <<worker, iam, faults>>
Fires(c) == TimerFires(c) /\ UNCHANGED <<worker, iam, faults>>

\* Someone else works in IAM, through its console.
Console ==
    /\ changes < MaxChanges
    /\ changes' = changes + 1
    /\ UNCHANGED <<api, cache, current, queue, timers, created>>
    /\ UNCHANGED <<pc, key, inst, fresh, held, made, faults>>

ConsoleCreates(i, def) ==
    /\ NewId(i)
    /\ iam' = NewEntity(i, 0, def)
    /\ Console /\ UNCHANGED etagOk

\* A change of what the etag covers makes a retrieved one an old one.
ConsoleChanges(i, def, covered) ==
    /\ iam[i].live
    /\ iam' = Redefined(i, def)
    /\ etagOk' = (etagOk /\ (i = inst.status.id => ~covered))
    /\ Console

ConsoleDeletes(i) ==
    /\ iam[i].live
    /\ iam' = Deleted(i)
    /\ etagOk' = (etagOk /\ i # inst.status.id)
    /\ Console

Environment ==
    \/ UserStep \/ Crash
    \/ \E c \in Resources :
          \/ GetNotFound(c) \/ GetInstance(c) \/ GetError(c) \/ Finalize(c)
          \/ CacheSyncs(c) \/ Resyncs(c) \/ Fires(c)

\* Someone gets a key from the queue, which is first in, first out: a key that
\* keeps being queued is served.  Watches and timers deliver.
EnvironmentFairness ==
    \A c \in Resources :
        /\ SF_vars(GetNotFound(c) \/ GetInstance(c))
        /\ WF_vars(CacheSyncs(c))
        /\ WF_vars(Fires(c))
        /\ WF_vars(Finalize(c))

-----------------------------------------------------------------------------
(* Properties *)

\* The entity a stored status names, if IAM still has it, was created for that
\* very incarnation of the resource: an id is never inherited from a deleted
\* resource of the same name nor taken from an entity found in IAM.
RecordedEntityIsOwn ==
    \A c \in Resources :
        LET i == api[c].status.id IN
        i # 0 /\ iam[i].live => iam[i].owner = api[c].uid

Own(o) ==
    LET i == o.status.id IN i # 0 /\ iam[i].live => iam[i].owner = o.uid

Held(o) == o.deleting => o.own \/ o.foreign

Same(o, p) == o.uid = p.uid /\ o.own = p.own

\* The same of every copy of a resource, which is what keeps it true: the cache
\* and the worker may act on old copies, but of one incarnation; a write gets
\* through only if that incarnation is still the stored one, with or without
\* our finalizer as in the copy; and as what is being deleted is held by a
\* finalizer, a write that leaves ours alone cannot make it vanish.
Ownership ==
    /\ \A c \in Resources : Own(api[c]) /\ Own(cache[c]) /\ Held(api[c])
    /\ Own(inst)
    /\ made # 0 /\ iam[made].live => iam[made].owner = inst.uid
    /\ \A c \in Resources : current[c] => cache[c] = api[c]
    /\ fresh => pc # "idle" /\ Same(api[key], inst)
    /\ IF pc = "idle" THEN made = 0 ELSE Exists(inst)

\* The operator changes and deletes only entities that were created for the
\* resource being reconciled, whatever fails and however stale its copy:
\* never one of the console, nor another resource's of the same name.
TouchesOnlyOwnEntities ==
    [][changes' = changes =>
         \A i \in Ids : iam[i].live /\ iam'[i] # iam[i] =>
             inst.uid # 0 /\ iam[i].owner = inst.uid]_vars

\* The write that records the entity just made went through, but its answer was
\* lost, so that Reconcile is about to delete the entity.
LostAnswer == pc = "compensate" /\ "apiLost" \in Faults /\ faults > 0

\* The operator does not delete the entity the status of a resource names unless
\* that resource is being deleted: no tear-down for an old copy, no clean-up and
\* no compensation of a reconcile that came late hits an entity in use.  The one
\* exception is the entity just made when the answer to the write of the status
\* that records it was lost.
KeepsRecordedEntities ==
    [][changes' = changes =>
         \A c \in Resources :
            LET i == api[c].status.id IN
            i # 0 /\ ~api[c].deleting /\ iam[i].live =>
                iam'[i].live \/ (i = made /\ LostAnswer)]_vars

\* No entity is left behind: the resource it was created for still exists and
\* carries the finalizer, from before the entity exists until after it has gone.
EntitiesHaveTheirResource ==
    \A i \in Ids : iam[i].live /\ iam[i].owner # 0 =>
        \E c \in Resources : api[c].uid = iam[i].owner /\ api[c].own

\* What the README says of finalizers, and a little less than the above: the
\* resource goes away only after the entity made for it.
NoOrphanedEntity ==
    \A i \in Ids : iam[i].live /\ iam[i].owner # 0 =>
        \E c \in Resources : api[c].uid = iam[i].owner

\* Retries, stale reads and lost answers never leave a second entity: but for
\* the one a running reconcile has just created, the only entity of a resource
\* is the one its status names.
OneEntityPerResource ==
    \A i \in Ids : iam[i].live /\ iam[i].owner # 0 /\ i # made =>
        \E c \in Resources : api[c].uid = iam[i].owner /\ api[c].status.id = i

\* The copies there are of what is, or was, stored under a name.
Copies(c) == {api[c], cache[c]} \cup (IF key = c THEN {inst} ELSE {})

\* A uid stands for one resource, for good: two names never share one, no copy
\* and no entity has one that was not given out, and a deletion seen in any copy
\* is not taken back.  An entity is torn down only for a resource that is being
\* deleted.
Incarnations ==
    /\ \A c \in Resources : \A o \in Copies(c) :
          /\ o.uid <= created
          /\ Exists(o) /\ o.uid = api[c].uid /\ o.deleting => api[c].deleting
    /\ \A c, d \in Resources : \A o \in Copies(c), p \in Copies(d) :
          Exists(o) /\ o.uid = p.uid => c = d
    /\ \A i \in Ids : iam[i].owner <= created
    /\ pc = "teardown" => inst.deleting

\* Where Reconcile works for a resource that has the finalizer and is not on its
\* way out, as far as its copy tells,
Syncing == {"sync", "customRoles", "subject", "findUser", "withdraw", "fetch",
            "clearId", "update", "replaceMembers", "addMembers", "create",
            "newMembers", "cleanup", "record", "compensate"}

\* and where it has just made an entity.
Making == {"newMembers", "cleanup", "record", "compensate"}

Gone(i) == i = 0 \/ ~iam[i].live

\* A copy that carries the finalizer and no deletion mark is enough to create an
\* entity, however stale: the resource is still there, with the finalizer.
Guarded ==
    /\ \A c \in Resources : \A o \in Copies(c) :
          /\ ~o.foreign
          /\ o.own => Exists(o)
          /\ o.deleting => o.own
          /\ o.own /\ ~o.deleting => o.uid = api[c].uid /\ api[c].own
    /\ key \in Resources /\ inst.deleting /\ cache[key].uid = inst.uid =>
          cache[key].deleting

\* What Reconcile relies on at its labels.
Controlled ==
    /\ pc = "idle" => key = NoResource
    /\ pc # "dropFinalizer"
    /\ pc \in {"clearStatus", "removeFinalizer"} => inst.deleting
    /\ pc \in {"clearStatus", "removeFinalizer", "clearId"} => Gone(inst.status.id)
    /\ pc \in Syncing \cup {"addFinalizer"} => ~inst.deleting
    /\ pc \in Syncing => inst.own
    /\ pc = "create" => inst.status.id = 0
    /\ made # 0 => inst.status.id = 0 /\ (pc \in Making \/ Gone(made))
    /\ fresh => api[key].deleting = inst.deleting
    /\ fresh /\ pc # "compensate" => api[key].status.id = inst.status.id

\* None of the failures happens after which an entity may be left over: the
\* process lives, no answer of IAM is lost that Reconcile cannot do without, and
\* nobody else's finalizer is involved.
Reliable ==
    /\ Faults \cap {"read", "account", "createLost", "panic", "undo", "crash"} = {}
    /\ Foreign \subseteq {FALSE}

\* The two invariants above and all they rest on: no step leads out of it, if
\* Reliable.
Custody ==
    /\ Guarded
    /\ Controlled
    /\ EntitiesHaveTheirResource
    /\ OneEntityPerResource

-----------------------------------------------------------------------------
(* The promise of ManagedEntity *)

Phase(u) ==
    CASE u > created                                               -> "none"
      [] \E c \in Resources : api[c].uid = u /\ ~api[c].deleting -> "declared"
      [] \E c \in Resources : api[c].uid = u /\ api[c].deleting  -> "terminating"
      [] OTHER                                                     -> "gone"

MadeFor(u) == {i \in Ids : iam[i].live /\ iam[i].owner = u}

Promise == INSTANCE ManagedEntity WITH
    Uids <- 1..MaxCreations,
    phase <- [u \in 1..MaxCreations |-> Phase(u)],
    entities <- [u \in 1..MaxCreations |-> MadeFor(u)]

\* Entities are made and unmade only as ManagedEntity allows, and a resource is
\* released only when none of its entities is left.
ImplementsManagedEntity == Promise!Spec

\* A resource that users delete goes away, once its entity has: no failure that
\* ends, no conflict and no stale read leaves it terminating for good.
DeletionCompletes == Promise!Terminates
=============================================================================
