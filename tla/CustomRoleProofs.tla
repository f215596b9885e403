-------------------------- MODULE CustomRoleProofs --------------------------
(***************************************************************************)
(* Theorems about CustomRoleController, for all values of its constants,   *)
(* all failures and crashes included.  The steps that all controllers      *)
(* share are dealt with in ReconcilerProofs and ReconcilerPromise.         *)
(***************************************************************************)
EXTENDS CustomRoleController, ReconcilerPromise

-----------------------------------------------------------------------------
(* Types *)

\* The instance is an object with a role's spec, applied or asked for.
LEMMA SpecParts ==
  ASSUME TypeOK
  PROVE  /\ inst \in Object
         /\ inst.spec \in RoleSpec /\ inst.status.spec \in RoleSpec
         /\ inst.own \in BOOLEAN
  BY RoleAssumption DEF TypeOK, WorkerTypeOK, Object, Status

\* The definition an entity has is that of a role.
LEMMA RoleType ==
  ASSUME TypeOK, NEW i \in Ids
  PROVE  iam[i].def \in RoleSpec
  BY RoleAssumption DEF TypeOK, IamTypeOK, Entity

\* What is written, recorded or asked of IAM is a role's spec.
LEMMA WrittenType ==
  ASSUME TypeOK
  PROVE  /\ Restored(inst) \in SpecType
         /\ Applied \in SpecType
         /\ inst.spec \in SpecType
         /\ inst.spec \in DefType
         /\ inst.status.id \in Ids =>
               [Role EXCEPT !.content = inst.spec.content] \in DefType
  BY SpecParts, RoleType, RoleAssumption DEF Restored, Applied, Role, RoleSpec

\* The update that restores the immutable fields.
LEMMA RestoreType == TypeOK /\ Restore => TypeOK'
<1> SUFFICES ASSUME TypeOK, Restore PROVE TypeOK'
  OBVIOUS
<1>1. key \in Resources /\ pc # "idle" /\ inst \in Object /\ inst.own \in BOOLEAN
  BY Busy, SpecParts DEF Restore
<1>2. Updated(Restored(inst), inst.own) \in Object
  BY <1>1, WrittenType, UpdatedType
<1>3. WorkerTypeOK' /\ timers' \subseteq Resources
  <2>1. CASE Return(TRUE)
    BY <1>1, <2>1, ReturnType
  <2>2. CASE /\ inst' = [inst EXCEPT !.spec = Restored(inst)]
             /\ UNCHANGED <<pc, key, fresh, held, etagOk, made, timers>>
    BY <1>1, <2>2, WrittenType DEF TypeOK, WorkerTypeOK, KubeTypeOK, Object
  <2>3. QED
    BY <2>1, <2>2 DEF Restore
<1>4. QED
  BY <1>1, <1>2, <1>3, WriteStepType DEF Restore

\* The steps that leave the worker where it was, or move it, and no more.
LEMMA QuietStepsType ==
  ASSUME TypeOK, RoleUnchanged \/ FindDuplicate \/ NoDuplicate \/ CreateRefused
  PROVE  TypeOK'
<1>1. /\ pc # "idle" /\ ApiUnchanged /\ Frame /\ IamUnchanged
      /\ UNCHANGED faults \/ \E kind : Fault(kind)
  BY DEF RoleUnchanged, NothingToDo, FindDuplicate, NoDuplicate, CreateRefused,
         Recorded, RecordedAt, Unrecorded
<1>2. \/ \E r \in BOOLEAN : Return(r)
      \/ \E label \in PCs : Goto(label)
  BY DEF RoleUnchanged, NothingToDo, FindDuplicate, NoDuplicate, CreateRefused, PCs
<1>3. QED
  BY <1>1, <1>2, QuietType

\* The retrieval that finds a change.
LEMMA RoleChangedType == TypeOK /\ RoleChanged => TypeOK'
<1> SUFFICES ASSUME TypeOK, RoleChanged PROVE TypeOK'
  OBVIOUS
<1>1. pc # "idle" /\ inst.status.id \in Ids
  BY Busy DEF RoleChanged, Recorded, RecordedAt, Status
<1>2. Role \in DefType
  BY <1>1, RoleType, RoleAssumption DEF Role
<1>3. QED
  BY <1>1, <1>2, GoUpdateType DEF RoleChanged

\* The steps of Reconcile keep the types,
LEMMA ReconcileType == TypeOK /\ Reconcile => TypeOK'
<1> SUFFICES ASSUME TypeOK, Reconcile PROVE TypeOK'
  OBVIOUS
<1>1. CASE Prologue
  BY <1>1, WrittenType, CommonType, RestoreType DEF Prologue
<1>2. CASE UpdateRole
  BY <1>2, WrittenType, UpdateEntityType DEF UpdateRole, PCs
<1>3. CASE CreateRole
  BY <1>3, WrittenType, CreateEntityType DEF CreateRole, PCs
<1>4. CASE RecordRole
  BY <1>4, WrittenType, RecordType DEF RecordRole
<1>5. QED
  BY <1>1, <1>2, <1>3, <1>4, QuietStepsType, RoleChangedType, NotRetrievedType
     DEF Reconcile

\* and so do changes through the console.
LEMMA ConsoleStepType == TypeOK /\ ConsoleStep => TypeOK'
<1> SUFFICES ASSUME TypeOK, NEW i \in Ids, NEW s \in Specs,
                    \/ ConsoleCreates(i, s)
                    \/ ConsoleChanges(i, [iam[i].def EXCEPT !.content = s.content],
                                      iam[i].def.content # s.content)
                    \/ ConsoleDeletes(i)
             PROVE  TypeOK'
  BY DEF ConsoleStep
<1>1. s \in DefType /\ s \in RoleSpec /\ iam[i].def \in RoleSpec
  BY KubeAssumption, RoleAssumption, RoleType
<1>2. [iam[i].def EXCEPT !.content = s.content] \in DefType
  BY <1>1, RoleAssumption DEF RoleSpec
<1>3. QED
  BY <1>1, <1>2, ConsoleType

\* Every step keeps the types.
LEMMA TypeStep == TypeOK /\ [Next]_vars => TypeOK'
  BY ReconcileType, EnvironmentType, ConsoleStepType, StutterType DEF Next

\* The type invariant: whatever users, the console, failures and crashes do to
\* a reconcile, every variable keeps its type and a busy worker has a key.
THEOREM TypeCorrect == Spec => []TypeOK
<1>1. Init => TypeOK
  BY InitType
<1>2. TypeOK /\ [Next]_vars => TypeOK'
  BY TypeStep
<1>3. QED
  BY <1>1, <1>2, PTL DEF Spec

-----------------------------------------------------------------------------
(* Ownership *)

\* Restoring the spec is an update that leaves the finalizer alone.
LEMMA RestoreOwn == Inv /\ Restore => Ownership'
<1> SUFFICES ASSUME Inv, Restore PROVE Ownership'
  OBVIOUS
<1>1. pc \in Labels /\ inst \in Object /\ Restored(inst) \in SpecType
      /\ inst.own \in BOOLEAN
  BY SpecParts, WrittenType DEF Restore, Inv, Labels, PCs
<1>2. CASE /\ Accepted(Updated(Restored(inst), inst.own))
           /\ inst' = [inst EXCEPT !.spec = Restored(inst)]
           /\ UNCHANGED <<pc, key, fresh, held, etagOk, made, timers>>
  <2>1. inst'.uid = inst.uid /\ inst'.own = inst.own /\ inst'.status = inst.status
    BY <1>1, <1>2 DEF Object
  <2>2. QED
    BY <1>1, <1>2, <2>1, UpdateOnOwn DEF Restore, Labels
<1>3. CASE Refused(Updated(Restored(inst), inst.own)) /\ Return(TRUE)
  BY <1>1, <1>3, UpdateRefusedOwn DEF Restore, Labels
<1>4. QED
  BY <1>2, <1>3 DEF Restore

\* The steps that leave the worker where it was, or move it, and no more.
LEMMA QuietStepsOwn ==
  ASSUME Inv, RoleUnchanged \/ FindDuplicate \/ NoDuplicate \/ CreateRefused
  PROVE  Ownership'
<1>1. pc # "idle" /\ ApiUnchanged /\ Frame /\ Keeps
  BY SameKeeps DEF RoleUnchanged, NothingToDo, FindDuplicate, NoDuplicate,
                   CreateRefused, Recorded, RecordedAt, Unrecorded
<1>2. \/ \E r \in BOOLEAN : Return(r)
      \/ \E label \in Labels : Goto(label)
  BY DEF RoleUnchanged, NothingToDo, FindDuplicate, NoDuplicate, CreateRefused,
         PCs, Labels
<1>3. QED
  BY <1>1, <1>2, QuietOwn

\* The steps of Reconcile keep ownership.
LEMMA ReconcileOwn == Inv /\ Reconcile => Ownership'
<1> SUFFICES ASSUME Inv, Reconcile PROVE Ownership'
  OBVIOUS
<1>1. TypeOK
  BY DEF Inv
<1>2. CASE Prologue
  BY <1>1, <1>2, WrittenType, CommonOwn, RestoreOwn DEF Prologue
<1>3. CASE RoleChanged
  BY <1>3, GoUpdateOwn DEF RoleChanged, Recorded, RecordedAt
<1>4. CASE UpdateRole
  BY <1>4, UpdateEntityOwn DEF UpdateRole, Labels, PCs
<1>5. CASE CreateRole
  BY <1>5, CreateEntityOwn DEF CreateRole, Labels, PCs
<1>6. CASE RecordRole
  BY <1>1, <1>6, WrittenType, RecordOwn DEF RecordRole
<1>7. QED
  BY <1>2, <1>3, <1>4, <1>5, <1>6, QuietStepsOwn, NotRetrievedOwn DEF Reconcile

\* Every step keeps ownership.
LEMMA OwnershipStep == Inv /\ [Next]_vars => Ownership'
<1> SUFFICES ASSUME Inv, Next PROVE Ownership'
  BY StutterOwn
<1>1. CASE ConsoleStep
  BY <1>1, ConsoleOwn DEF ConsoleStep
<1>2. QED
  BY <1>1, ReconcileOwn, EnvironmentOwn DEF Next

\* Both are kept together, from the start.
LEMMA InvCorrect == (Init => Inv) /\ (Inv /\ [Next]_vars => Inv')
  BY InitType, InitOwn, TypeStep, OwnershipStep DEF Inv

\* Under all failures, crashes and stale reads every copy of a resource names
\* only a role that was created for that incarnation of it.
THEOREM OwnershipCorrect == Spec => []Ownership
<1>1. Inv => Ownership
  BY DEF Inv
<1>2. QED
  BY <1>1, InvCorrect, PTL DEF Spec

\* In particular the stored ones do: ids are never inherited nor adopted.
THEOREM RecordedEntityCorrect == Spec => []RecordedEntityIsOwn
  BY RecordedOwn, OwnershipCorrect, PTL

-----------------------------------------------------------------------------
(* The operator leaves other people's roles alone *)

\* The steps of Reconcile touch own roles only.
LEMMA ReconcileTouches == Inv /\ Reconcile => Touches
<1> SUFFICES ASSUME Inv, Reconcile PROVE Touches
  OBVIOUS
<1>1. CASE CommonStep(isWellFormed(inst.spec),
                      isWellFormed(inst.spec) /\ ~immutableSpecChanged(inst),
                      inst.spec)
  BY <1>1, CommonTouches
<1>2. CASE UpdateRole
  BY <1>2, UpdateTouches DEF UpdateRole
<1>3. CASE CreateRole
  BY <1>3, CreateTouches DEF CreateRole
<1>4. CASE \/ Restore \/ RoleUnchanged \/ RoleChanged \/ NotRetrieved("sync")
           \/ FindDuplicate \/ NoDuplicate \/ CreateRefused \/ RecordRole
  <2>1. IamUnchanged
    BY <1>4 DEF Restore, RoleUnchanged, NothingToDo, RoleChanged, GoUpdate, NotRetrieved,
                FindDuplicate, NoDuplicate, CreateRefused, RecordRole, Record
  <2>2. QED
    BY <2>1 DEF Touches, IamUnchanged
<1>5. QED
  BY <1>1, <1>2, <1>3, <1>4 DEF Reconcile, Prologue

\* Whatever fails and however stale its copy, the operator changes and deletes
\* only roles created for the resource it reconciles.
THEOREM TouchesOnlyOwnEntitiesCorrect == Spec => TouchesOnlyOwnEntities
<1>1. Inv /\ [Next]_vars => [Touches]_vars
  <2> SUFFICES ASSUME Inv, Next PROVE Touches
    OBVIOUS
  <2>1. CASE ConsoleStep
    BY <2>1, ConsoleTouches DEF ConsoleStep
  <2>2. QED
    BY <2>1, ReconcileTouches, EnvironmentTouches DEF Next
<1>2. [Touches]_vars => [changes' = changes =>
         \A i \in Ids : iam[i].live /\ iam'[i] # iam[i] =>
             inst.uid # 0 /\ iam[i].owner = inst.uid]_vars
  BY DEF Touches
<1>3. QED
  BY <1>1, <1>2, InvCorrect, PTL DEF Spec, TouchesOnlyOwnEntities

-----------------------------------------------------------------------------
(* The operator's copy *)

\* A copy of the current version is that version: what the worker does to its
\* copy is what its writes store.  (Before it compensates a write of the status
\* has failed, maybe only in its answer.)
Faithful == fresh /\ pc # "compensate" => inst = api[key]

\* What a worker that may write knows.
LEMMA Copy ==
  ASSUME Inv, Faithful, pc \notin {"idle", "compensate"}
  PROVE  /\ key \in Resources /\ inst \in Object
         /\ fresh => inst = api[key] /\ Held(inst)
  BY Busy DEF Inv, TypeOK, WorkerTypeOK, Faithful, Ownership

\* The writes with the copy's own spec, of which our finalizer is added, or kept.
LEMMA WrittenCopy ==
  ASSUME Inv, Faithful, pc \notin {"idle", "compensate"}, fresh,
         NEW s \in SpecType
  PROVE  /\ Updated(s, inst.own) = [inst EXCEPT !.spec = s]
         /\ Updated(inst.spec, TRUE) = [inst EXCEPT !.own = TRUE]
         /\ Updated(inst.spec, inst.own) = inst
<1>1. inst = api[key] /\ inst \in Object /\ Held(inst)
  BY Copy
<1>2. /\ [inst EXCEPT !.spec = s, !.own = inst.own] = [inst EXCEPT !.spec = s]
      /\ [inst EXCEPT !.spec = inst.spec, !.own = TRUE] = [inst EXCEPT !.own = TRUE]
      /\ [inst EXCEPT !.spec = inst.spec, !.own = inst.own] = inst
  BY <1>1 DEF Object
<1>3. \A o \in {[inst EXCEPT !.spec = s], [inst EXCEPT !.own = TRUE], inst} :
        Collected(o) = o
  BY <1>1 DEF Object, Collected, Held
<1>4. QED
  BY <1>1, <1>2, <1>3 DEF Updated

\* An accepted write of the copy as it is afterwards.
LEMMA AcceptedFaithful ==
  ASSUME Inv, pc # "idle", Accepted(inst'), key' = key
  PROVE  Faithful'
<1>1. key \in Resources /\ api \in [Resources -> Object]
  BY Busy DEF Inv, TypeOK, KubeTypeOK
<1>2. QED
  BY <1>1 DEF Accepted, Store, Faithful

\* The end of a reconcile, or of the process.
LEMMA IdleFaithful ==
  ASSUME fresh' = FALSE
  PROVE  Faithful'
  BY DEF Faithful

\* A step of a busy worker that writes nothing.
LEMMA MoveFaithful ==
  ASSUME Faithful, pc # "compensate", UNCHANGED <<api, key, inst, fresh>>
  PROVE  Faithful'
  BY DEF Faithful

\* The writes after which Reconcile goes on.
LEMMA WritesFaithful ==
  ASSUME Inv, Faithful,
         SetPending \/ AddFinalizer(inst.spec) \/ ClearStatus(inst.spec) \/ Restore
  PROVE  Faithful'
<1>1. pc \notin {"idle", "compensate"}
  BY DEF SetPending, AddFinalizer, ClearStatus, Restore
<1>2. CASE fresh' = FALSE
  BY <1>2, IdleFaithful
<1>3. TypeOK
  BY DEF Inv
<1>4. ASSUME fresh' # FALSE PROVE Accepted(inst') /\ key' = key
  <2>1. CASE SetPending
    <3>1. Accepted(StatusUpdated([inst.status EXCEPT !.state = "Pending"]))
      BY <1>4, <2>1 DEF SetPending, Return
    <3>2. fresh /\ inst = api[key]
      BY <1>1, <3>1, Copy DEF Accepted
    <3>3. QED
      BY <1>4, <2>1, <3>1, <3>2 DEF SetPending, Return, StatusUpdated
  <2>2. CASE AddFinalizer(inst.spec)
    <3>1. Accepted(Updated(inst.spec, TRUE)) /\ inst' = [inst EXCEPT !.own = TRUE]
          /\ key' = key
      BY <1>4, <2>2 DEF AddFinalizer, Return
    <3>2. QED
      BY <1>1, <1>3, <3>1, WrittenCopy, WrittenType DEF Accepted
  <2>3. CASE ClearStatus(inst.spec)
    <3>1. Accepted(Updated(inst.spec, inst.own)) /\ inst' = inst /\ key' = key
      BY <1>4, <2>3 DEF ClearStatus, Return, Goto
    <3>2. QED
      BY <1>1, <1>3, <3>1, WrittenCopy, WrittenType DEF Accepted
  <2>4. CASE Restore
    <3>1. Accepted(Updated(Restored(inst), inst.own)) /\ key' = key
          /\ inst' = [inst EXCEPT !.spec = Restored(inst)]
      BY <1>4, <2>4 DEF Restore, Return
    <3>2. QED
      BY <1>1, <1>3, <3>1, WrittenCopy, WrittenType DEF Accepted
  <2>5. QED
    BY <2>1, <2>2, <2>3, <2>4
<1>5. QED
  BY <1>1, <1>2, <1>4, AcceptedFaithful

\* The steps of Reconcile keep the copy faithful,
LEMMA ReconcileFaithful == Inv /\ Faithful /\ Reconcile => Faithful'
<1> SUFFICES ASSUME Inv, Faithful, Reconcile PROVE Faithful'
  OBVIOUS
<1>1. CASE Malformed(isWellFormed(inst.spec))
           \/ GetAccountInfo(isWellFormed(inst.spec) /\ ~immutableSpecChanged(inst))
  BY <1>1, IdleFaithful, MoveFaithful
     DEF Malformed, GetAccountInfo, Return, Goto, ApiUnchanged
<1>2. CASE DropFinalizer(inst.spec) \/ RemoveFinalizer(inst.spec)
           \/ ReportFailed \/ ClearId \/ Compensate
  BY <1>2, IdleFaithful
     DEF DropFinalizer, RemoveFinalizer, ReportFailed, ClearId, Compensate, Return
<1>3. CASE DeleteEntity \/ UpdateRole
  BY <1>3, IdleFaithful, MoveFaithful
     DEF DeleteEntity, UpdateRole, UpdateEntity, Return, Goto, ApiUnchanged
<1>4. CASE RoleUnchanged \/ RoleChanged \/ NotRetrieved("sync")
  BY <1>4, IdleFaithful, MoveFaithful
     DEF RoleUnchanged, NothingToDo, RoleChanged, GoUpdate, NotRetrieved,
         Recorded, RecordedAt, Return, Goto, ApiUnchanged
<1>5. CASE FindDuplicate \/ NoDuplicate \/ CreateRefused \/ CreateRole
  BY <1>5, MoveFaithful
     DEF FindDuplicate, NoDuplicate, CreateRefused, CreateRole, CreateEntity,
         Unrecorded, Goto, ApiUnchanged
<1>6. CASE RecordRole
  BY <1>6 DEF RecordRole, Record, Return, Goto, Faithful
<1>7. QED
  BY <1>1, <1>2, <1>3, <1>4, <1>5, <1>6, WritesFaithful
     DEF Reconcile, Prologue, CommonStep

\* and so do all the others.
LEMMA OthersFaithful ==
  ASSUME Inv, Faithful, Environment \/ ConsoleStep \/ UNCHANGED vars
  PROVE  Faithful'
<1>1. CASE UserStep \/ \E c \in Resources : Finalize(c)
  BY <1>1 DEF UserStep, Finalize, Faithful
<1>2. CASE Crash
  BY <1>2, IdleFaithful DEF Crash, Restart
<1>3. CASE \E c \in Resources : GetInstance(c)
  BY <1>3 DEF GetInstance, Faithful, Inv, Ownership
<1>4. CASE \/ \E c \in Resources : GetNotFound(c) \/ GetError(c)
           \/ \E c \in Resources : CacheSyncs(c) \/ Resyncs(c) \/ Fires(c)
  BY <1>4 DEF GetNotFound, GetError, CacheSyncs, CacheSync, Resyncs, Resync,
              Fires, TimerFires, worker, Faithful
<1>5. CASE ConsoleStep \/ UNCHANGED vars
  BY <1>5 DEF ConsoleStep, ConsoleCreates, ConsoleChanges, ConsoleDeletes,
              Console, vars, kube, worker, Faithful
<1>6. QED
  BY <1>1, <1>2, <1>3, <1>4, <1>5 DEF Environment

\* The copy is faithful from the start on.
LEMMA CopyCorrect ==
  (Init => Inv /\ Faithful) /\ (Inv /\ Faithful /\ [Next]_vars => (Inv /\ Faithful)')
<1>1. Init => Faithful
  BY DEF Init, Faithful
<1>2. Inv /\ Faithful /\ [Next]_vars => Faithful'
  BY ReconcileFaithful, OthersFaithful DEF Next
<1>3. QED
  BY <1>1, <1>2, InvCorrect

-----------------------------------------------------------------------------
(* What users wrote stays *)

\* A step of the operator leaves the spec of c, or restores its immutable fields.
SpecKept(c) ==
    Exists(api[c]) /\ api'[c].uid = api[c].uid =>
       \/ api'[c].spec = api[c].spec
       \/ /\ api[c].status.id # 0
          /\ api'[c].spec = [api[c].spec EXCEPT !.name = api[c].status.spec.name]

KeepsEdits == changes' = changes => \A c \in Resources : SpecKept(c)

\* Nothing is stored.
LEMMA ApiSameKeeps == UNCHANGED api => KeepsEdits
  BY DEF KeepsEdits, SpecKept

\* One object is, with the same spec or the restored one, or none in its place.
LEMMA StoreKeeps ==
  ASSUME Inv, NEW c \in Resources, NEW o, Store(c, o),
         \/ o = Absent
         \/ o.spec = api[c].spec
         \/ api[c].status.id # 0 /\ o.spec = Restored(api[c])
  PROVE  KeepsEdits
<1>1. api \in [Resources -> Object]
  BY DEF Inv, TypeOK, KubeTypeOK
<1>2. Absent.uid = 0
  BY DEF Absent
<1>3. QED
  BY <1>1, <1>2 DEF Store, KeepsEdits, SpecKept, Exists, Restored

\* A write of the worker, accepted or refused.
LEMMA WriteKeeps ==
  ASSUME Inv, Faithful, pc \notin {"idle", "compensate"}, NEW o,
         Accepted(o) \/ Refused(o),
         inst = api[key] =>
            \/ o = Absent
            \/ o.spec = inst.spec
            \/ inst.status.id # 0 /\ o.spec = Restored(inst)
  PROVE  KeepsEdits
<1>1. key \in Resources
  BY Copy
<1>2. CASE fresh /\ Store(key, o)
  BY <1>1, <1>2, Copy, StoreKeeps
<1>3. CASE UNCHANGED api
  BY <1>3, ApiSameKeeps
<1>4. QED
  BY <1>2, <1>3 DEF Accepted, Refused

\* What the worker writes of the spec.
LEMMA WrittenSpec ==
  ASSUME Inv, pc # "idle", NEW s \in SpecType, NEW own, NEW t
  PROVE  /\ Updated(s, own) = Absent \/ Updated(s, own).spec = s
         /\ inst = api[key] => StatusUpdated(t).spec = inst.spec
<1>1. api[key] \in Object
  BY Busy DEF Inv, TypeOK, KubeTypeOK
<1>2. QED
  BY <1>1 DEF Updated, Collected, StatusUpdated, Object

\* Each step of Reconcile keeps what users wrote,
LEMMA ReconcileKeeps == Inv /\ Faithful /\ Reconcile => KeepsEdits
<1> SUFFICES ASSUME Inv, Faithful, Reconcile PROVE KeepsEdits
  OBVIOUS
<1>1. Restored(inst) \in SpecType /\ inst.spec \in SpecType
  BY WrittenType DEF Inv
<1>2. CASE SetPending \/ ReportFailed \/ ClearId \/ RecordRole
  <2>1. pc \notin {"idle", "compensate"}
    BY <1>2 DEF SetPending, ReportFailed, ClearId, RecordRole, Record
  <2>2. PICK t : Accepted(StatusUpdated(t)) \/ Refused(StatusUpdated(t))
    BY <1>2 DEF SetPending, ReportFailed, ClearId, RecordRole, Record, Online
  <2>3. QED
    BY <1>1, <2>1, <2>2, WrittenSpec, WriteKeeps
<1>3. CASE \/ DropFinalizer(inst.spec) \/ AddFinalizer(inst.spec)
           \/ ClearStatus(inst.spec) \/ RemoveFinalizer(inst.spec)
  <2>1. pc \notin {"idle", "compensate"}
    BY <1>3 DEF DropFinalizer, AddFinalizer, ClearStatus, RemoveFinalizer
  <2>2. PICK own : \/ Accepted(Updated(inst.spec, own))
                   \/ Refused(Updated(inst.spec, own))
    BY <1>3 DEF DropFinalizer, AddFinalizer, ClearStatus, RemoveFinalizer
  <2>3. QED
    BY <1>1, <2>1, <2>2, WrittenSpec, WriteKeeps
<1>4. CASE Restore
  <2>1. pc = "check" /\ inst.status.id # 0
    BY <1>4 DEF Restore, immutableSpecChanged
  <2>2. \/ Accepted(Updated(Restored(inst), inst.own))
        \/ Refused(Updated(Restored(inst), inst.own))
    BY <1>4 DEF Restore
  <2>3. QED
    BY <1>1, <2>1, <2>2, WrittenSpec, WriteKeeps
<1>5. \/ UNCHANGED api
      \/ SetPending \/ ReportFailed \/ ClearId \/ RecordRole
      \/ DropFinalizer(inst.spec) \/ AddFinalizer(inst.spec)
      \/ ClearStatus(inst.spec) \/ RemoveFinalizer(inst.spec) \/ Restore
  BY DEF Reconcile, Prologue, CommonStep, Malformed, GetAccountInfo, DeleteEntity,
         Compensate, RoleUnchanged, NothingToDo, RoleChanged, GoUpdate,
         NotRetrieved, UpdateRole, UpdateEntity, FindDuplicate, NoDuplicate,
         CreateRole, CreateEntity, CreateRefused, ApiUnchanged
<1>6. QED
  BY <1>2, <1>3, <1>4, <1>5, ApiSameKeeps

\* and so does everything that is not a change by users.
LEMMA OthersKeep ==
  ASSUME Inv, Environment \/ ConsoleStep
  PROVE  KeepsEdits
<1>1. CASE UserStep
  <2>1. PICK c \in Resources :
          \/ \E s \in Specs, f \in Foreign : CreateResource(c, s, f)
          \/ \E s \in Specs : EditSpec(c, s)
          \/ \E f \in Foreign : DeleteResource(c, f)
    BY <1>1 DEF UserStep, User
  <2>2. CASE UserChange
    BY <2>2, KubeAssumption DEF UserChange, KeepsEdits, Inv, TypeOK, KubeTypeOK
  <2>3. CASE \E s \in Specs, f \in Foreign : CreateResource(c, s, f)
    <3>1. ~Exists(api[c]) /\ \A d \in Resources \ {c} : api'[d] = api[d]
      BY <2>3 DEF CreateResource, Store, Inv, TypeOK, KubeTypeOK
    <3>2. QED
      BY <3>1 DEF KeepsEdits, SpecKept
  <2>4. QED
    BY <2>1, <2>2, <2>3 DEF EditSpec, DeleteResource
<1>2. CASE \E c \in Resources : Finalize(c)
  <2>1. PICK c \in Resources : Finalize(c)
    BY <1>2
  <2>2. api[c] \in Object
    BY DEF Inv, TypeOK, KubeTypeOK
  <2>3. [api[c] EXCEPT !.foreign = FALSE].spec = api[c].spec
    BY <2>2 DEF Object
  <2>4. QED
    BY <2>1, <2>3, StoreKeeps DEF Finalize, RemoveForeignFinalizer, Collected
<1>3. UNCHANGED api \/ UserStep \/ \E c \in Resources : Finalize(c)
  BY DEF Environment, Crash, Restart, Relist, GetNotFound, GetInstance, GetError,
         CacheSyncs, CacheSync, Resyncs, Resync, Fires, TimerFires, ConsoleStep,
         ConsoleCreates, ConsoleChanges, ConsoleDeletes, Console
<1>4. QED
  BY <1>1, <1>2, <1>3, ApiSameKeeps

\* However stale its copy, the operator takes back nothing a user wrote to a
\* spec but a change of the immutable fields of a role it has created.
THEOREM KeepsUsersEditsCorrect == Spec => KeepsUsersEdits
<1>1. Inv /\ Faithful /\ [Next]_vars => [KeepsEdits]_vars
  BY ReconcileKeeps, OthersKeep DEF Next
<1>2. [KeepsEdits]_vars =>
        [changes' = changes =>
           \A c \in Resources :
              Exists(api[c]) /\ api'[c].uid = api[c].uid =>
                 \/ api'[c].spec = api[c].spec
                 \/ /\ api[c].status.id # 0
                    /\ api'[c].spec = [api[c].spec EXCEPT
                                         !.name = api[c].status.spec.name]]_vars
  BY DEF KeepsEdits, SpecKept
<1>3. QED
  BY <1>1, <1>2, CopyCorrect, PTL DEF Spec, KeepsUsersEdits

-----------------------------------------------------------------------------
(* The names of roles *)

\* A status names an id and a name that belong together.
Named(s) == s.id # 0 /\ iam[s.id].live => iam[s.id].def.name = s.spec.name

\* So do all that are stored or cached,
StoredNames ==
    \A c \in Resources : Named(api[c].status) /\ Named(cache[c].status)

\* and the worker's; and a role just made has the name the copy asks for.
WorkerNames ==
    /\ Named(inst.status)
    /\ made # 0 => /\ pc \in {"record", "compensate"}
                   /\ iam[made].live => iam[made].def.name = inst.spec.name

NamesInv == Inv /\ StoredNames /\ WorkerNames

\* No role appears or is renamed.
KeepsNames ==
    \A i \in Ids : iam'[i].live => iam[i].live /\ iam'[i].def.name = iam[i].def.name

\* Deletions and changes of the content are such.
LEMMA RoleStepsKeepNames ==
  ASSUME TypeOK, NEW i,
         \/ IamUnchanged
         \/ iam' = Deleted(i)
         \/ \E x : iam' = Redefined(i, [iam[i].def EXCEPT !.content = x])
  PROVE  KeepsNames
<1>1. CASE IamUnchanged \/ iam' = Deleted(i)
  BY <1>1, HeldIds DEF IamUnchanged, Deleted, NoEntity, KeepsNames
<1>2. CASE \E x : iam' = Redefined(i, [iam[i].def EXCEPT !.content = x])
  <2>1. PICK x : iam' = Redefined(i, [iam[i].def EXCEPT !.content = x])
    BY <1>2
  <2>2. iam \in [Ids -> Entity]
    BY HeldIds
  <2>3. CASE i \in Ids
    <3>1. iam[i].def \in RoleSpec /\ iam[i] \in Entity
      BY <2>2, <2>3, RoleType
    <3>2. [iam[i].def EXCEPT !.content = x].name = iam[i].def.name
      BY <3>1 DEF RoleSpec
    <3>3. /\ iam'[i].def = [iam[i].def EXCEPT !.content = x]
          /\ iam'[i].live = iam[i].live
          /\ \A j \in Ids \ {i} : iam'[j] = iam[j]
      BY <2>1, <2>2, <2>3, <3>1 DEF Redefined, Entity
    <3>4. QED
      BY <3>2, <3>3 DEF KeepsNames
  <2>4. CASE i \notin Ids
    BY <2>1, <2>2, <2>4 DEF Redefined, KeepsNames
  <2>5. QED
    BY <2>3, <2>4
<1>3. QED
  BY <1>1, <1>2

\* Nothing is stored and no role is renamed.
LEMMA StoredNamesSame ==
  ASSUME NamesInv, KeepsNames, UNCHANGED <<api, cache>>
  PROVE  StoredNames'
  BY HeldIds DEF NamesInv, Inv, StoredNames, Named, KeepsNames

\* A status that is right is stored, or refused, and IAM is as it was.
LEMMA StoredNamesWrite ==
  ASSUME NamesInv, pc # "idle", NEW o, Named(o.status),
         Accepted(o) \/ Refused(o), Frame, IamUnchanged
  PROVE  StoredNames'
<1>1. key \in Resources /\ api \in [Resources -> Object]
  BY Busy DEF NamesInv, Inv, TypeOK, KubeTypeOK
<1>2. QED
  BY <1>1 DEF Accepted, Refused, Store, Frame, IamUnchanged, NamesInv,
              StoredNames, Named

\* What an Update stores has the stored status, or none.
LEMMA UpdatedNamed ==
  ASSUME NamesInv, pc # "idle", NEW s, NEW own
  PROVE  Named(Updated(s, own).status)
<1>1. api[key] \in Object /\ Named(api[key].status)
  BY Busy DEF NamesInv, Inv, TypeOK, KubeTypeOK, StoredNames
<1>2. QED
  BY <1>1 DEF Updated, Collected, Absent, NoStatus, Named, Object

\* What a Status().Update stores has the status it is given.
LEMMA StatusNamed ==
  ASSUME NamesInv, pc # "idle", NEW s, Named(s)
  PROVE  Named(StatusUpdated(s).status)
<1>1. api[key] \in Object
  BY Busy DEF NamesInv, Inv, TypeOK, KubeTypeOK
<1>2. QED
  BY <1>1 DEF StatusUpdated, Object

\* An idle worker names nothing.
LEMMA IdleNames ==
  ASSUME inst' = Absent, made' = 0
  PROVE  WorkerNames'
  BY DEF WorkerNames, Named, Absent, NoStatus

\* A worker that goes on from somewhere else than "record" names what it named.
LEMMA MoveNames ==
  ASSUME NamesInv, KeepsNames, pc \notin {"record", "compensate"},
         UNCHANGED <<made, inst>>
  PROVE  WorkerNames'
  BY HeldIds DEF NamesInv, Inv, WorkerNames, Named, KeepsNames

\* The steps that do not write.
LEMMA QuietNames ==
  ASSUME NamesInv, KeepsNames, ApiUnchanged, Frame,
         \/ \E r \in BOOLEAN : Return(r)
         \/ pc \notin {"record", "compensate"} /\ UNCHANGED <<made, inst>>
  PROVE  (StoredNames /\ WorkerNames)'
  BY StoredNamesSame, IdleNames, MoveNames DEF Return, ApiUnchanged, Frame

\* Of Reconcile.
LEMMA QuietStepsNames ==
  ASSUME NamesInv,
         \/ Malformed(isWellFormed(inst.spec))
         \/ GetAccountInfo(isWellFormed(inst.spec) /\ ~immutableSpecChanged(inst))
         \/ DeleteEntity \/ Compensate \/ RoleUnchanged \/ RoleChanged \/ NotRetrieved("sync")
         \/ UpdateRole \/ FindDuplicate \/ NoDuplicate \/ CreateRefused
  PROVE  (StoredNames /\ WorkerNames)'
<1>1. TypeOK
  BY DEF NamesInv, Inv
<1>2. CASE Malformed(isWellFormed(inst.spec))
           \/ GetAccountInfo(isWellFormed(inst.spec) /\ ~immutableSpecChanged(inst))
  BY <1>1, <1>2, QuietNames, RoleStepsKeepNames DEF Malformed, GetAccountInfo, Goto
<1>3. CASE DeleteEntity \/ Compensate
  BY <1>1, <1>3, QuietNames, RoleStepsKeepNames DEF DeleteEntity, Compensate, Goto
<1>4. CASE RoleUnchanged \/ RoleChanged \/ NotRetrieved("sync")
  BY <1>1, <1>4, QuietNames, RoleStepsKeepNames
     DEF RoleUnchanged, NothingToDo, RoleChanged, GoUpdate, NotRetrieved, Recorded, RecordedAt, Goto
<1>5. CASE UpdateRole
  BY <1>1, <1>5, QuietNames, RoleStepsKeepNames
     DEF UpdateRole, UpdateEntity, Role, Goto
<1>6. CASE FindDuplicate \/ NoDuplicate \/ CreateRefused
  BY <1>1, <1>6, QuietNames, RoleStepsKeepNames
     DEF FindDuplicate, NoDuplicate, CreateRefused, Unrecorded, Goto
<1>7. QED
  BY <1>2, <1>3, <1>4, <1>5, <1>6

\* The writes of the spec and the finalizer.
LEMMA UpdateStepsNames ==
  ASSUME NamesInv,
         \/ DropFinalizer(inst.spec) \/ AddFinalizer(inst.spec)
         \/ ClearStatus(inst.spec) \/ RemoveFinalizer(inst.spec) \/ Restore
  PROVE  (StoredNames /\ WorkerNames)'
<1>1. pc \notin {"idle", "record", "compensate"} /\ Frame /\ IamUnchanged
  BY DEF DropFinalizer, AddFinalizer, ClearStatus, RemoveFinalizer, Restore
<1>2. PICK s, own : Accepted(Updated(s, own)) \/ Refused(Updated(s, own))
  BY DEF DropFinalizer, AddFinalizer, ClearStatus, RemoveFinalizer, Restore
<1>3. StoredNames'
  BY <1>1, <1>2, UpdatedNamed, StoredNamesWrite
<1>4. \/ \E r \in BOOLEAN : Return(r)
      \/ inst'.status = inst.status /\ UNCHANGED made
  <2>1. inst \in Object
    BY DEF NamesInv, Inv, TypeOK, WorkerTypeOK
  <2>2. /\ [inst EXCEPT !.own = TRUE].status = inst.status
        /\ [inst EXCEPT !.spec = Restored(inst)].status = inst.status
    BY <2>1 DEF Object
  <2>3. QED
    BY <2>2 DEF DropFinalizer, AddFinalizer, ClearStatus, RemoveFinalizer, Restore, Goto
<1>5. CASE \E r \in BOOLEAN : Return(r)
  BY <1>3, <1>5, IdleNames DEF Return
<1>6. CASE inst'.status = inst.status /\ UNCHANGED made
  <2>1. WorkerNames'
    BY <1>1, <1>6 DEF NamesInv, WorkerNames, Named, IamUnchanged
  <2>2. QED
    BY <1>3, <2>1
<1>7. QED
  BY <1>4, <1>5, <1>6

\* The writes of the status that say no more than it said.
LEMMA StatusStepsNames ==
  ASSUME NamesInv, SetPending \/ ReportFailed \/ ClearId
  PROVE  (StoredNames /\ WorkerNames)'
<1>1. pc \notin {"idle", "record", "compensate"} /\ Frame /\ IamUnchanged
  BY DEF SetPending, ReportFailed, ClearId
<1>2. inst \in Object /\ inst.status \in Status /\ Named(inst.status)
  BY DEF NamesInv, Inv, TypeOK, WorkerTypeOK, WorkerNames, Object
<1>3. /\ Named([inst.status EXCEPT !.state = "Pending"])
      /\ Named([inst.status EXCEPT !.state = "Failed"])
      /\ Named([inst.status EXCEPT !.state = "Failed", !.id = 0])
  BY <1>2 DEF Named, Status
<1>4. PICK s : /\ Named(s)
               /\ Accepted(StatusUpdated(s)) \/ Refused(StatusUpdated(s))
  BY <1>3 DEF SetPending, ReportFailed, ClearId
<1>5. StoredNames'
  BY <1>1, <1>4, StatusNamed, StoredNamesWrite
<1>6. CASE \E r \in BOOLEAN : Return(r)
  BY <1>5, <1>6, IdleNames DEF Return
<1>7. CASE inst'.status = [inst.status EXCEPT !.state = "Pending"] /\ UNCHANGED made
  <2>1. WorkerNames'
    BY <1>1, <1>3, <1>7 DEF NamesInv, WorkerNames, Named, IamUnchanged
  <2>2. QED
    BY <1>5, <2>1
<1>8. QED
  BY <1>2, <1>6, <1>7 DEF SetPending, ReportFailed, ClearId, Object

\* The write of the status that records a role.
LEMMA RecordNames ==
  ASSUME NamesInv, RecordRole
  PROVE  (StoredNames /\ WorkerNames)'
<1> DEFINE s == [state |-> "Online", spec |-> Applied,
                 id |-> IF made # 0 THEN made ELSE inst.status.id]
<1>1. /\ pc = "record" /\ Frame /\ IamUnchanged
      /\ Accepted(StatusUpdated(s)) \/ Refused(StatusUpdated(s))
  BY DEF RecordRole, Record, Online
<1>2. [inst.status.spec EXCEPT !.content = inst.spec.content].name
        = inst.status.spec.name
  BY SpecParts DEF NamesInv, Inv, RoleSpec
<1>3. Named(s)
  BY <1>2 DEF NamesInv, WorkerNames, Named, Applied
<1>4. StoredNames'
  BY <1>1, <1>3, StatusNamed, StoredNamesWrite
<1>5. WorkerNames'
  <2>1. CASE Return(TRUE)
    BY <2>1, IdleNames DEF Return
  <2>2. CASE Goto("compensate")
    BY <1>1, <2>2 DEF Goto, NamesInv, WorkerNames, Named, IamUnchanged
  <2>3. QED
    BY <2>1, <2>2 DEF RecordRole, Record
<1>6. QED
  BY <1>4, <1>5

\* A role that appears under an id nobody holds.
LEMMA NewRoleNames ==
  ASSUME NamesInv, NEW i \in Ids, NewId(i), NEW owner, NEW def,
         iam' = NewEntity(i, owner, def), UNCHANGED <<api, cache, inst>>
  PROVE  /\ StoredNames' /\ Named(inst.status)'
         /\ i # made /\ iam'[i].def = def
         /\ \A j \in Ids : j # i => iam'[j] = iam[j]
  BY HeldIds DEF NamesInv, Inv, StoredNames, WorkerNames, Named, NewId, Unused,
                 NewEntity

\* The creation of a role.
LEMMA CreateNames ==
  ASSUME NamesInv, CreateRole
  PROVE  (StoredNames /\ WorkerNames)'
<1>1. pc = "create" /\ ApiUnchanged /\ Frame /\ UNCHANGED inst /\ made = 0
  BY DEF CreateRole, CreateEntity, Goto, NamesInv, WorkerNames
<1>2. CASE IamUnchanged /\ UNCHANGED made
  BY <1>1, <1>2, QuietNames, RoleStepsKeepNames DEF NamesInv, Inv
<1>3. CASE \E i \in Ids : /\ NewId(i) /\ iam' = NewEntity(i, inst.uid, inst.spec)
                          /\ \/ made' = i /\ pc' = "record"
                             \/ UNCHANGED made
  <2>1. PICK i \in Ids : /\ NewId(i) /\ iam' = NewEntity(i, inst.uid, inst.spec)
                         /\ \/ made' = i /\ pc' = "record"
                            \/ UNCHANGED made
    BY <1>3
  <2>2. StoredNames' /\ Named(inst.status)' /\ iam'[i].def = inst.spec
    BY <1>1, <2>1, NewRoleNames DEF ApiUnchanged, Frame
  <2>3. QED
    BY <1>1, <2>1, <2>2 DEF WorkerNames
<1>4. QED
  BY <1>2, <1>3 DEF CreateRole, CreateEntity, Goto

\* A change through the console.
LEMMA ConsoleNames ==
  ASSUME NamesInv, ConsoleStep
  PROVE  (StoredNames /\ WorkerNames)'
<1>1. UNCHANGED <<api, cache, pc, inst, made>>
  BY DEF ConsoleStep, ConsoleCreates, ConsoleChanges, ConsoleDeletes, Console
<1>2. CASE KeepsNames
  <2>1. WorkerNames'
    BY <1>1, <1>2, HeldIds DEF NamesInv, Inv, WorkerNames, Named, KeepsNames
  <2>2. QED
    BY <1>1, <1>2, <2>1, StoredNamesSame
<1>3. CASE \E i \in Ids, s \in Specs : NewId(i) /\ iam' = NewEntity(i, 0, s)
  <2>1. PICK i \in Ids, s \in Specs : NewId(i) /\ iam' = NewEntity(i, 0, s)
    BY <1>3
  <2>2. /\ StoredNames' /\ Named(inst.status)' /\ i # made
        /\ \A j \in Ids : j # i => iam'[j] = iam[j]
    BY <1>1, <2>1, NewRoleNames
  <2>3. WorkerNames'
    BY <1>1, <2>2, HeldIds DEF NamesInv, Inv, WorkerNames
  <2>4. QED
    BY <2>2, <2>3
<1>4. QED
  BY <1>2, <1>3, RoleStepsKeepNames
     DEF ConsoleStep, ConsoleCreates, ConsoleChanges, ConsoleDeletes, NamesInv, Inv

\* Users and the garbage collector leave a status as it is, or without object.
LEMMA UserStatuses ==
  ASSUME TypeOK, UserStep \/ \E c \in Resources : Finalize(c)
  PROVE  \E c \in Resources : \E o : /\ Store(c, o)
                                     /\ o.status \in {api[c].status, NoStatus}
<1>1. PICK c \in Resources :
        \/ \E s \in Specs, f \in Foreign : CreateResource(c, s, f)
        \/ \E s \in Specs : EditSpec(c, s)
        \/ \E f \in Foreign : DeleteResource(c, f)
        \/ RemoveForeignFinalizer(c)
  BY DEF UserStep, User, Finalize
<1>2. api[c] \in Object
  BY DEF TypeOK, KubeTypeOK
<1>3. CASE \E s \in Specs, f \in Foreign : CreateResource(c, s, f)
  <2>1. PICK s \in Specs, f \in Foreign : CreateResource(c, s, f)
    BY <1>3
  <2>2. [Absent EXCEPT !.uid = created + 1, !.foreign = f, !.spec = s].status = NoStatus
    BY DEF Absent
  <2>3. QED
    BY <2>1, <2>2 DEF CreateResource
<1>4. CASE \E s \in Specs : EditSpec(c, s)
  <2>1. PICK s \in Specs : EditSpec(c, s)
    BY <1>4
  <2>2. [api[c] EXCEPT !.spec = s].status = api[c].status
    BY <1>2 DEF Object
  <2>3. QED
    BY <2>1, <2>2 DEF EditSpec
<1>5. CASE \E f \in Foreign : DeleteResource(c, f)
  <2>1. PICK f \in Foreign : DeleteResource(c, f)
    BY <1>5
  <2>2. Collected([api[c] EXCEPT !.deleting = TRUE, !.foreign = @ \/ f]).status
          \in {api[c].status, NoStatus}
    BY <1>2 DEF Collected, Object, Absent
  <2>3. QED
    BY <2>1, <2>2 DEF DeleteResource
<1>6. CASE RemoveForeignFinalizer(c)
  <2>1. Collected([api[c] EXCEPT !.foreign = FALSE]).status \in {api[c].status, NoStatus}
    BY <1>2 DEF Collected, Object, Absent
  <2>2. QED
    BY <1>6, <2>1 DEF RemoveForeignFinalizer
<1>7. QED
  BY <1>1, <1>3, <1>4, <1>5, <1>6

\* Users and the Kubernetes machinery copy statuses, or drop them.
LEMMA KubeNames ==
  ASSUME NamesInv, Environment
  PROVE  (StoredNames /\ WorkerNames)'
<1>1. /\ api \in [Resources -> Object] /\ cache \in [Resources -> Object]
      /\ Named(NoStatus)
  BY DEF NamesInv, Inv, TypeOK, KubeTypeOK, Named, NoStatus
<1>2. CASE UserStep \/ \E c \in Resources : Finalize(c)
  <2>1. PICK c \in Resources : \E o : /\ Store(c, o)
                                      /\ o.status \in {api[c].status, NoStatus}
    BY <1>2, UserStatuses DEF NamesInv, Inv
  <2>2. PICK o : Store(c, o) /\ o.status \in {api[c].status, NoStatus}
    BY <2>1
  <2>3. Store(c, o) /\ Named(o.status)
    BY <1>1, <2>2 DEF NamesInv, StoredNames
  <2>4. UNCHANGED <<cache, pc, inst, made, iam>>
    BY <1>2 DEF UserStep, User, CreateResource, EditSpec, DeleteResource,
                UserChange, Finalize, RemoveForeignFinalizer
  <2>5. StoredNames'
    BY <1>1, <2>3, <2>4 DEF Store, NamesInv, StoredNames, Named
  <2>6. WorkerNames'
    BY <2>4 DEF NamesInv, WorkerNames, Named
  <2>7. QED
    BY <2>5, <2>6
<1>3. CASE Crash
  <2>1. StoredNames'
    BY <1>3 DEF Crash, Restart, Relist, IamUnchanged, NamesInv, StoredNames, Named
  <2>2. QED
    BY <1>3, <2>1, IdleNames DEF Crash, Restart
<1>4. CASE \E c \in Resources : GetInstance(c)
  BY <1>4 DEF GetInstance, NamesInv, Inv, Ownership, StoredNames, WorkerNames, Named
<1>5. CASE \E c \in Resources : CacheSyncs(c)
  <2>1. StoredNames'
    BY <1>1, <1>5 DEF CacheSyncs, CacheSync, NamesInv, StoredNames, Named
  <2>2. WorkerNames'
    BY <1>5 DEF CacheSyncs, worker, NamesInv, WorkerNames, Named
  <2>3. QED
    BY <2>1, <2>2
<1>6. CASE \E c \in Resources :
             GetNotFound(c) \/ GetError(c) \/ Resyncs(c) \/ Fires(c)
  BY <1>6 DEF GetNotFound, GetError, Resyncs, Resync, Fires, TimerFires, worker,
              NamesInv, StoredNames, WorkerNames, Named
<1>7. QED
  BY <1>2, <1>3, <1>4, <1>5, <1>6 DEF Environment

\* Every step keeps names and ids together.
LEMMA NamesStep == NamesInv /\ [Next]_vars => (StoredNames /\ WorkerNames)'
<1> SUFFICES ASSUME NamesInv, [Next]_vars PROVE (StoredNames /\ WorkerNames)'
  OBVIOUS
<1>1. CASE Reconcile
  BY <1>1, QuietStepsNames, UpdateStepsNames, StatusStepsNames, RecordNames,
     CreateNames DEF Reconcile, Prologue, CommonStep
<1>2. CASE UNCHANGED vars
  BY <1>2 DEF vars, kube, worker, NamesInv, StoredNames, WorkerNames, Named
<1>3. QED
  BY <1>1, <1>2, ConsoleNames, KubeNames DEF Next

\* What is restored is right: the name a status records is that of the role it
\* names, through failures, crashes, compensations and stale reads.
THEOREM RecordsTheRolesNameCorrect == Spec => []RecordsTheRolesName
<1>1. Init => NamesInv
  <2> SUFFICES ASSUME Init PROVE NamesInv
    OBVIOUS
  <2>1. Named(Absent.status)
    BY DEF Absent, NoStatus, Named
  <2>2. \A c \in Resources : api[c] = Absent /\ cache[c] = Absent
    BY DEF Init, KubeInit
  <2>3. StoredNames /\ WorkerNames
    BY <2>1, <2>2 DEF Init, StoredNames, WorkerNames
  <2>4. QED
    BY <2>3, InvCorrect DEF NamesInv
<1>2. NamesInv /\ [Next]_vars => NamesInv'
  BY InvCorrect, NamesStep DEF NamesInv
<1>3. NamesInv => RecordsTheRolesName
  BY DEF NamesInv, StoredNames, Named, RecordsTheRolesName
<1>4. QED
  BY <1>1, <1>2, <1>3, PTL DEF Spec

-----------------------------------------------------------------------------
(* Incarnations *)

\* Restoring the immutable fields changes but the spec, in store and copy.
LEMMA RestoreMoves ==
  ASSUME TypeOK, NEW G, Restored(inst) \in G, Restore
  PROVE  Moves(G)
<1>1. pc # "idle" /\ Frame /\ IamUnchanged
  BY DEF Restore
<1>2. \/ Accepted(Updated(Restored(inst), inst.own))
      \/ Refused(Updated(Restored(inst), inst.own))
  BY DEF Restore
<1>3. WorkerMoves(G)
  <2>1. CASE Return(TRUE)
    BY <2>1, ReturnMoves
  <2>2. CASE /\ inst' = [inst EXCEPT !.spec = Restored(inst)]
             /\ UNCHANGED <<pc, key, made>>
    <3>1. /\ inst'.uid = inst.uid /\ inst'.deleting = inst.deleting
          /\ inst'.spec = Restored(inst) /\ inst'.status = inst.status
      BY <2>2, SpecParts DEF Object
    <3>2. QED
      BY <2>2, <3>1 DEF WorkerMoves, MadeMoves, Restore
  <2>3. QED
    BY <2>1, <2>2 DEF Restore
<1> DEFINE o == Updated(Restored(inst), inst.own)
<1>4. o.status.id \in {0, inst.status.id, api[key].status.id}
  <2>1. CASE o = Absent
    <3>1. Absent.status.id = 0
      BY DEF Absent, NoStatus
    <3>2. QED
      BY <2>1, <3>1
  <2>2. CASE o # Absent
    <3>1. o.status = api[key].status
      BY <1>1, <2>2, UpdatedParts
    <3>2. QED
      BY <3>1
  <2>3. QED
    BY <2>1, <2>2
<1>5. QED
  BY <1>1, <1>2, <1>3, <1>4, WriteMoves, UpdatedParts

\* The steps of Reconcile; they write the spec they have read, or restored.
LEMMA ReconcileMoves ==
  ASSUME TypeOK, NEW G, pc # "idle" => inst.spec \in G,
         Restore => Restored(inst) \in G, Reconcile
  PROVE  Moves(G)
<1>1. CASE CommonStep(isWellFormed(inst.spec),
                      isWellFormed(inst.spec) /\ ~immutableSpecChanged(inst),
                      inst.spec)
  BY <1>1, CommonBusy, CommonMoves
<1>2. CASE RoleUnchanged \/ FindDuplicate \/ NoDuplicate \/ CreateRefused
  <2>1. ApiUnchanged /\ Frame /\ IamUnchanged
    BY <1>2 DEF RoleUnchanged, NothingToDo, FindDuplicate, NoDuplicate, CreateRefused
  <2>2. WorkerMoves(G)
    BY <1>2, ReturnMoves, GotoMoves
       DEF RoleUnchanged, NothingToDo, FindDuplicate, NoDuplicate, CreateRefused,
           Recorded, RecordedAt, Unrecorded
  <2>3. QED
    BY <2>1, <2>2, QuietMoves, OneOwnerMoves
<1>3. CASE RoleChanged \/ UpdateRole \/ CreateRole \/ RecordRole
  BY <1>3, GoUpdateMoves, UpdateEntityMoves, CreateEntityMoves, RecordMoves
     DEF RoleChanged, UpdateRole, CreateRole, RecordRole, Recorded, RecordedAt
<1>4. QED
  BY <1>1, <1>2, <1>3, RestoreMoves, NotRetrievedMoves DEF Reconcile, Prologue

\* Every step, if users submit specs of G.
LEMMA NextMoves ==
  ASSUME TypeOK, NEW G, Specs \subseteq G, pc # "idle" => inst.spec \in G,
         Restore => Restored(inst) \in G, [Next]_vars
  PROVE  Moves(G)
<1>1. CASE ConsoleStep
  BY <1>1, ConsoleMoves DEF ConsoleStep
<1>2. QED
  BY <1>1, ReconcileMoves, EnvironmentMoves, StutterMoves DEF Next

\* Every step keeps Incarnations.
LEMMA IncarnationsStep == TypeOK /\ Incarnations /\ [Next]_vars => Incarnations'
  BY NextMoves, WrittenType, KubeAssumption, MovesKeep

\* Whatever fails, resources of one name are told apart by their uids, and no
\* step undoes a deletion or acts on one that did not happen.
THEOREM IncarnationsCorrect == Spec => []Incarnations
  BY InitIncarnations, IncarnationsStep, TypeCorrect, PTL DEF Spec

\* Nobody's status names the role just made, unless the answer to the write of
\* that status was lost.
LEMMA UnnamedCorrect == Spec => []Unnamed
<1>1. Inv /\ Unnamed /\ [Next]_vars => Unnamed'
  <2> SUFFICES ASSUME Inv, Unnamed, [Next]_vars PROVE Unnamed'
    OBVIOUS
  <2>1. Moves(SpecType)
    BY NextMoves, WrittenType, KubeAssumption DEF Inv
  <2>2. QED
    BY <2>1, MovesUnnamed
<1>2. QED
  BY <1>1, InitUnnamed, InvCorrect, PTL DEF Spec

\* A step of Reconcile deletes no recorded role of a resource that stays.
LEMMA ReconcileSpares == Inv /\ Incarnations /\ Unnamed /\ Reconcile => Spares
<1> SUFFICES ASSUME Inv, Incarnations, Unnamed, Reconcile PROVE Spares
  OBVIOUS
<1>1. CASE CommonStep(isWellFormed(inst.spec),
                      isWellFormed(inst.spec) /\ ~immutableSpecChanged(inst),
                      inst.spec)
  BY <1>1, CommonSpares
<1>2. CASE UpdateRole \/ CreateRole
  BY <1>2, SparesAll DEF UpdateRole, UpdateEntity, CreateRole, CreateEntity, Inv
<1>3. CASE \/ Restore \/ RoleUnchanged \/ RoleChanged \/ NotRetrieved("sync")
           \/ FindDuplicate \/ NoDuplicate \/ CreateRefused \/ RecordRole
  BY <1>3, SparesAll
     DEF Restore, RoleUnchanged, NothingToDo, RoleChanged, GoUpdate, NotRetrieved,
         FindDuplicate, NoDuplicate, CreateRefused, RecordRole, Record, Inv
<1>4. QED
  BY <1>1, <1>2, <1>3 DEF Reconcile, Prologue

\* Whatever fails and however stale the copy it works with, the operator never
\* deletes the role the status of a resource that stays names: neither in
\* tear-down nor in compensation.  The one exception is a role just made whose
\* recording was done and reported as failed.
THEOREM KeepsRecordedEntitiesCorrect == Spec => KeepsRecordedEntities
<1>1. Inv /\ Incarnations /\ Unnamed /\ [Next]_vars => [Spares]_vars
  <2> SUFFICES ASSUME Inv, Incarnations, Unnamed, Next PROVE Spares
    OBVIOUS
  <2>1. CASE ConsoleStep
    BY <2>1, ConsoleSpares DEF ConsoleStep, Inv
  <2>2. QED
    BY <2>1, ReconcileSpares, EnvironmentSpares DEF Next, Inv
<1>2. [Spares]_vars => [changes' = changes =>
         \A c \in Resources :
            LET i == api[c].status.id IN
            i # 0 /\ ~api[c].deleting /\ iam[i].live =>
                iam'[i].live \/ (i = made /\ LostAnswer)]_vars
  BY DEF Spares
<1>3. QED
  BY <1>1, <1>2, InvCorrect, IncarnationsCorrect, UnnamedCorrect, PTL
     DEF Spec, KeepsRecordedEntities

-----------------------------------------------------------------------------
(* A name once recorded is never empty *)

\* The specs that are well-formed, and what users submit is.
Nameable == {s \in RoleSpec : isWellFormed(s)}

SpecsWellFormed == Specs \subseteq Nameable

\* A status that names a role records a name to restore.
Restorable(s) == s.id # 0 => s.spec.name # NoName

\* So do all of them.
StoredRestorable ==
    \A c \in Resources : Restorable(api[c].status) /\ Restorable(cache[c].status)

NamesRestorable == StoredRestorable /\ Restorable(inst.status)

\* A status is stored, or refused.
LEMMA RestorableWrite ==
  ASSUME Inv, StoredRestorable, pc # "idle", NEW o, Restorable(o.status),
         Accepted(o) \/ Refused(o), Frame
  PROVE  StoredRestorable'
<1>1. key \in Resources /\ api \in [Resources -> Object]
  BY Busy DEF Inv, TypeOK, KubeTypeOK
<1>2. QED
  BY <1>1 DEF Accepted, Refused, Store, Frame, StoredRestorable, Restorable

\* The worker's copy stays, or is dropped.
LEMMA CopyRestorable ==
  ASSUME NamesRestorable,
         inst' = Absent \/ inst'.status = inst.status \/ Restorable(inst'.status)
  PROVE  Restorable(inst.status)'
<1>1. Restorable(Absent.status)
  BY DEF Restorable, Absent, NoStatus
<1>2. CASE inst'.status \in {Absent.status, inst.status}
  BY <1>1, <1>2 DEF NamesRestorable, Restorable
<1>3. CASE Restorable(inst'.status)
  BY <1>3 DEF Restorable
<1>4. QED
  BY <1>2, <1>3

\* The steps that do not write.
LEMMA QuietRestorable ==
  ASSUME NamesRestorable, ApiUnchanged, Frame, inst' = Absent \/ inst' = inst
  PROVE  NamesRestorable'
  BY CopyRestorable
     DEF NamesRestorable, StoredRestorable, Restorable, ApiUnchanged, Frame

\* The writes of the spec and the finalizer.
LEMMA UpdatesRestorable ==
  ASSUME Inv, NamesRestorable,
         \/ DropFinalizer(inst.spec) \/ AddFinalizer(inst.spec)
         \/ ClearStatus(inst.spec) \/ RemoveFinalizer(inst.spec) \/ Restore
  PROVE  NamesRestorable'
<1>1. pc # "idle" /\ Frame
  BY DEF DropFinalizer, AddFinalizer, ClearStatus, RemoveFinalizer, Restore
<1>2. PICK s, own : Accepted(Updated(s, own)) \/ Refused(Updated(s, own))
  BY DEF DropFinalizer, AddFinalizer, ClearStatus, RemoveFinalizer, Restore
<1>3. Restorable(Updated(s, own).status)
  <2>1. api[key] \in Object /\ Restorable(api[key].status)
    BY <1>1, Busy DEF Inv, TypeOK, KubeTypeOK, NamesRestorable, StoredRestorable
  <2>2. QED
    BY <2>1 DEF Updated, Collected, Absent, NoStatus, Restorable, Object
<1>4. StoredRestorable'
  BY <1>1, <1>2, <1>3, RestorableWrite DEF NamesRestorable
<1>5. inst' = Absent \/ inst'.status = inst.status
  <2>1. inst \in Object
    BY DEF Inv, TypeOK, WorkerTypeOK
  <2>2. /\ [inst EXCEPT !.own = TRUE].status = inst.status
        /\ [inst EXCEPT !.spec = Restored(inst)].status = inst.status
    BY <2>1 DEF Object
  <2>3. QED
    BY <2>2 DEF DropFinalizer, AddFinalizer, ClearStatus, RemoveFinalizer, Restore,
                Goto, Return
<1>6. QED
  BY <1>4, <1>5, CopyRestorable DEF NamesRestorable

\* The writes of the status: the name of a new role is that of a copy that was
\* found well-formed.
LEMMA StatusesRestorable ==
  ASSUME Inv, NamesRestorable, pc # "idle" => isWellFormed(inst.spec),
         SetPending \/ ReportFailed \/ ClearId \/ RecordRole
  PROVE  NamesRestorable'
<1>1. pc # "idle" /\ Frame
  BY DEF SetPending, ReportFailed, ClearId, RecordRole, Record
<1>2. /\ inst \in Object /\ inst.status \in Status /\ Restorable(inst.status)
      /\ inst.status.spec \in RoleSpec
  BY SpecParts DEF Inv, NamesRestorable, Object
<1>3. \A st : \/ st = [inst.status EXCEPT !.state = "Pending"]
              \/ st = [inst.status EXCEPT !.state = "Failed"]
              \/ st = [inst.status EXCEPT !.state = "Failed", !.id = 0]
              => Restorable(st)
  BY <1>2 DEF Restorable, Status
<1>4. Restorable([state |-> "Online", spec |-> Applied,
                  id |-> IF made # 0 THEN made ELSE inst.status.id])
  <2>1. [inst.status.spec EXCEPT !.content = inst.spec.content].name
          = inst.status.spec.name
    BY <1>2 DEF RoleSpec
  <2>2. QED
    BY <1>1, <1>2, <2>1 DEF Applied, Restorable, isWellFormed
<1>5. PICK st : /\ Restorable(st)
                /\ Accepted(StatusUpdated(st)) \/ Refused(StatusUpdated(st))
  BY <1>3, <1>4 DEF SetPending, ReportFailed, ClearId, RecordRole, Record, Online
<1>6. StoredRestorable'
  BY <1>1, <1>5, StatusUpdatedParts, RestorableWrite DEF NamesRestorable, Inv
<1>7. inst' = Absent \/ inst' = inst \/ Restorable(inst'.status)
  BY <1>2, <1>3 DEF SetPending, ReportFailed, ClearId, RecordRole, Record, Goto, Return,
                    Object
<1>8. QED
  BY <1>6, <1>7, CopyRestorable DEF NamesRestorable

\* All steps of Reconcile.
LEMMA ReconcileRestorable ==
  ASSUME Inv, NamesRestorable, pc # "idle" => isWellFormed(inst.spec), Reconcile
  PROVE  NamesRestorable'
<1>1. CASE \/ DropFinalizer(inst.spec) \/ AddFinalizer(inst.spec)
           \/ ClearStatus(inst.spec) \/ RemoveFinalizer(inst.spec) \/ Restore
  BY <1>1, UpdatesRestorable
<1>2. CASE SetPending \/ ReportFailed \/ ClearId \/ RecordRole
  BY <1>2, StatusesRestorable
<1>3. CASE \/ Malformed(isWellFormed(inst.spec))
           \/ GetAccountInfo(isWellFormed(inst.spec) /\ ~immutableSpecChanged(inst))
           \/ DeleteEntity \/ Compensate
  BY <1>3, QuietRestorable
     DEF Malformed, GetAccountInfo, DeleteEntity, Compensate, Goto, Return
<1>4. CASE \/ RoleUnchanged \/ RoleChanged \/ NotRetrieved("sync") \/ UpdateRole
           \/ FindDuplicate \/ NoDuplicate \/ CreateRole \/ CreateRefused
  BY <1>4, QuietRestorable
     DEF RoleUnchanged, NothingToDo, RoleChanged, GoUpdate, NotRetrieved, UpdateRole,
         UpdateEntity, FindDuplicate, NoDuplicate, CreateRole, CreateEntity,
         CreateRefused, Goto, Return
<1>5. QED
  BY <1>1, <1>2, <1>3, <1>4 DEF Reconcile, Prologue, CommonStep

\* All the others copy statuses, or drop them.
LEMMA OthersRestorable ==
  ASSUME Inv, NamesRestorable, Environment \/ ConsoleStep \/ UNCHANGED vars
  PROVE  NamesRestorable'
<1>1. CASE UserStep \/ \E c \in Resources : Finalize(c)
  <2>1. PICK c \in Resources : \E o : /\ Store(c, o)
                                      /\ o.status \in {api[c].status, NoStatus}
    BY <1>1, UserStatuses DEF Inv
  <2>2. PICK o : Store(c, o) /\ o.status \in {api[c].status, NoStatus}
    BY <2>1
  <2>3. Restorable(NoStatus)
    BY DEF Restorable, NoStatus
  <2>4. Restorable(o.status)
    BY <2>2, <2>3 DEF NamesRestorable, StoredRestorable
  <2>5. api \in [Resources -> Object] /\ UNCHANGED <<cache, inst>>
    BY <1>1 DEF UserStep, User, CreateResource, EditSpec, DeleteResource, UserChange,
                Finalize, RemoveForeignFinalizer, Inv, TypeOK, KubeTypeOK
  <2>6. QED
    BY <2>2, <2>4, <2>5 DEF Store, NamesRestorable, StoredRestorable, Restorable
<1>2. CASE Crash
  <2>1. StoredRestorable'
    BY <1>2 DEF Crash, Restart, Relist, NamesRestorable, StoredRestorable, Restorable
  <2>2. QED
    BY <1>2, <2>1, CopyRestorable DEF Crash, Restart, NamesRestorable
<1>3. CASE \E c \in Resources : GetInstance(c)
  BY <1>3 DEF GetInstance, NamesRestorable, StoredRestorable, Restorable
<1>4. CASE \E c \in Resources : CacheSyncs(c)
  <2>1. cache \in [Resources -> Object]
    BY DEF Inv, TypeOK, KubeTypeOK
  <2>2. QED
    BY <1>4, <2>1 DEF CacheSyncs, CacheSync, worker, NamesRestorable, StoredRestorable,
                      Restorable
<1>5. CASE \/ \E c \in Resources : GetNotFound(c) \/ GetError(c) \/ Resyncs(c) \/ Fires(c)
           \/ ConsoleStep \/ UNCHANGED vars
  <2>1. UNCHANGED <<api, cache, inst>>
    BY <1>5 DEF GetNotFound, GetError, Resyncs, Resync, Fires, TimerFires, worker, kube,
                vars, ConsoleStep, ConsoleCreates, ConsoleChanges, ConsoleDeletes, Console
  <2>2. QED
    BY <2>1 DEF NamesRestorable, StoredRestorable, Restorable
<1>6. QED
  BY <1>1, <1>2, <1>3, <1>4, <1>5 DEF Environment

-----------------------------------------------------------------------------
(* No role is left behind, and no resource has two *)

\* Every step makes or loses at most one role.
LEMMA NextEntities == TypeOK /\ [Next]_vars => EntityMoves
<1> SUFFICES ASSUME TypeOK, [Next]_vars PROVE EntityMoves
  OBVIOUS
<1>1. CASE UNCHANGED vars
  BY <1>1, SameEntityMoves DEF vars, IamUnchanged
<1>2. CASE ConsoleStep
  BY <1>2, ConsoleEntities DEF ConsoleStep
<1>3. CASE CommonStep(isWellFormed(inst.spec),
                      isWellFormed(inst.spec) /\ ~immutableSpecChanged(inst),
                      inst.spec)
  BY <1>3, CommonEntities
<1>4. CASE UpdateRole
  BY <1>4, SameEntityMoves DEF UpdateRole, UpdateEntity
<1>5. CASE CreateRole
  BY <1>5, CreateEntities DEF CreateRole
<1>6. CASE \/ Restore \/ RoleUnchanged \/ RoleChanged \/ NotRetrieved("sync")
           \/ FindDuplicate \/ NoDuplicate \/ CreateRefused \/ RecordRole
  BY <1>6, SameEntityMoves
     DEF Restore, RoleUnchanged, NothingToDo, RoleChanged, GoUpdate, NotRetrieved,
         FindDuplicate, NoDuplicate, CreateRefused, RecordRole, Record
<1>7. QED
  BY <1>1, <1>2, <1>3, <1>4, <1>5, <1>6, EnvironmentEntities
     DEF Next, Reconcile, Prologue

\* Restoring a spec leaves the finalizer, the deletion and the id alone.
LEMMA RestoreServes ==
  ASSUME Inv, Custody, Restore
  PROVE  Serves /\ Controlled'
<1> DEFINE o == Updated(Restored(inst), inst.own)
<1>1. /\ pc = "check" /\ Frame /\ IamUnchanged /\ Keeps
      /\ made # 0 => ~iam'[made].live
  BY SameKeeps, MadeGone DEF Restore, Making
<1>2. ASSUME fresh
      PROVE  /\ o.uid = api[key].uid /\ o.deleting = api[key].deleting
             /\ o.own = api[key].own /\ ~o.foreign /\ o.status = api[key].status
  <2>1. /\ api[key] \in Object /\ inst.own = api[key].own /\ ~api[key].foreign
        /\ api[key].deleting => api[key].own
    BY <1>2, FreshKey DEF Inv, TypeOK, KubeTypeOK
  <2>2. CASE inst.own = TRUE
    BY <2>1, <2>2 DEF Updated, Collected, Object
  <2>3. CASE inst.own = FALSE
    BY <2>1, <2>3 DEF Updated, Collected, Object
  <2>4. QED
    BY <2>1, <2>2, <2>3 DEF Object
<1>3. Accepted(o) \/ Refused(o)
  BY DEF Restore
<1>4. fresh => (api[key].own \/ o.deleting => o.own)
  BY <1>2, FreshKey
<1>5. ServesStore
  <2> HIDE DEF o
  <2>1. QED
    BY <1>1, <1>2, <1>3, <1>4, StoreServes
<1>6. ServesIam
  BY <1>1 DEF ServesIam, IamUnchanged
<1>7. CASE Return(TRUE)
  BY <1>1, <1>5, <1>6, <1>7, ReturnServes DEF Serves
<1>8. CASE /\ Accepted(o)
           /\ inst' = [inst EXCEPT !.spec = Restored(inst)]
           /\ UNCHANGED <<pc, key, fresh, held, etagOk, made, timers>>
  <2>1. /\ inst'.status = inst.status /\ inst'.uid = inst.uid /\ inst'.own = inst.own
        /\ inst'.deleting = inst.deleting /\ inst'.foreign = inst.foreign
    BY <1>8, SpecParts DEF Inv, Object
  <2>2. fresh /\ api'[key] = o
    BY <1>8, FreshKey DEF Accepted, Store, Inv, TypeOK, KubeTypeOK
  <2>3. ServesWorker
    BY <1>8, <2>1 DEF ServesWorker
  <2>4. Controlled'
    BY <1>1, <1>2, <1>8, <2>1, <2>2, FreshKey
       DEF Controlled, Custody, Gone, Syncing, Making
  <2>5. QED
    BY <1>5, <1>6, <2>3, <2>4 DEF Serves
<1>9. QED
  BY <1>7, <1>8 DEF Restore

\* The steps of Reconcile that look for the role, and go on.
LEMMA QuietStepsServe ==
  ASSUME Inv, Custody, RoleUnchanged \/ FindDuplicate \/ NoDuplicate \/ CreateRefused
  PROVE  Serves /\ Controlled'
<1>1. /\ {"sync", "create"} \subseteq Syncing \ {"compensate"}
      /\ {"sync", "create"} \cap Making = {}
  BY DEF Syncing, Making
<1>2. CASE RoleUnchanged
  BY <1>1, <1>2, NothingServes DEF RoleUnchanged, Recorded, RecordedAt
<1>3. CASE FindDuplicate \/ NoDuplicate \/ CreateRefused
  <2>1. Keeps
    BY <1>3, SameKeeps DEF FindDuplicate, NoDuplicate, CreateRefused
  <2>2. QED
    BY <1>1, <1>3, <2>1, OnServes DEF FindDuplicate, NoDuplicate, CreateRefused, Unrecorded
<1>4. QED
  BY <1>2, <1>3

\* All steps of Reconcile.
LEMMA ReconcileServes ==
  ASSUME Reliable, Inv, Incarnations, Custody,
         pc = "check" => isWellFormed(inst.spec), Reconcile
  PROVE  Serves /\ Controlled'
<1>1. CASE CommonStep(isWellFormed(inst.spec),
                      isWellFormed(inst.spec) /\ ~immutableSpecChanged(inst),
                      inst.spec)
  BY <1>1, CommonServes
<1>2. /\ "sync" \in Syncing \ Making /\ "record" \in Making \ {"compensate"}
      /\ "record" \in Syncing \ {"clearId", "create"}
  BY DEF Syncing, Making
<1>3. CASE RoleChanged
  BY <1>2, <1>3, GoUpdateServes DEF RoleChanged, Recorded, RecordedAt
<1>4. CASE UpdateRole
  BY <1>2, <1>4, UpdateEntityServes DEF UpdateRole
<1>5. CASE CreateRole
  BY <1>2, <1>5, CreateEntityServes DEF CreateRole
<1>6. CASE NotRetrieved("sync")
  BY <1>2, <1>6, NotRetrievedServes
<1>7. CASE RecordRole
  BY <1>7, RecordServes DEF RecordRole
<1>8. QED
  BY <1>1, <1>3, <1>4, <1>5, <1>6, <1>7, RestoreServes, QuietStepsServe
     DEF Reconcile, Prologue

\* Every step.
LEMMA NextServes ==
  ASSUME Reliable, Inv, Incarnations, Custody,
         pc = "check" => isWellFormed(inst.spec), [Next]_vars
  PROVE  Serves /\ Controlled'
<1>1. CASE ConsoleStep
  BY <1>1, ConsoleServes DEF ConsoleStep
<1>2. QED
  BY <1>1, ReconcileServes, EnvironmentServes, StutterServes DEF Next

\* All that is kept while nothing fails that matters.
Kept == Inv /\ Incarnations /\ SpecsIn(Nameable) /\ NamesRestorable /\ Custody

\* What the steps do while it is.
LEMMA KeptMoves ==
  ASSUME Reliable, SpecsWellFormed, Kept, [Next]_vars
  PROVE  Moves(Nameable) /\ Serves /\ Controlled' /\ NamesRestorable'
<1>1. ASSUME pc # "idle" PROVE inst.spec \in Nameable /\ isWellFormed(inst.spec)
  BY <1>1, Busy DEF Kept, Inv, Ownership, SpecsIn, Copies, Nameable
<1>2. ASSUME Restore PROVE Restored(inst) \in Nameable
  <2>1. inst.status.spec.name # NoName
    BY <1>2 DEF Restore, immutableSpecChanged, Kept, NamesRestorable, Restorable
  <2>2. inst.spec \in RoleSpec /\ inst.status.spec \in RoleSpec
    BY SpecParts DEF Kept, Inv
  <2>3. QED
    BY <2>1, <2>2 DEF Restored, Nameable, isWellFormed, RoleSpec
<1>3. Moves(Nameable)
  BY <1>1, <1>2, NextMoves DEF Kept, Inv, SpecsWellFormed
<1>4. Serves /\ Controlled'
  BY <1>1, NextServes DEF Kept
<1>5. NamesRestorable'
  BY <1>1, ReconcileRestorable, OthersRestorable DEF Kept, Next
<1>6. QED
  BY <1>3, <1>4, <1>5

\* It is kept.
LEMMA KeptCorrect ==
  ASSUME Reliable, SpecsWellFormed
  PROVE  (Init => Kept) /\ (Kept /\ [Next]_vars => Kept')
<1>1. ASSUME Init PROVE SpecsIn(Nameable) /\ NamesRestorable
  <2>1. SpecsIn(Nameable)
    BY <1>1 DEF Init, KubeInit, SpecsIn, Copies, Absent, Exists
  <2>2. Restorable(Absent.status)
    BY DEF Restorable, Absent, NoStatus
  <2>3. \A c \in Resources : api[c] = Absent /\ cache[c] = Absent
    BY <1>1 DEF Init, KubeInit
  <2>4. QED
    BY <1>1, <2>1, <2>2, <2>3 DEF Init, NamesRestorable, StoredRestorable
<1>2. Init => Kept
  BY <1>1, InvCorrect, InitIncarnations, InitCustody DEF Kept
<1>3. ASSUME Kept, [Next]_vars PROVE Kept'
  BY <1>3, KeptMoves, InvCorrect, MovesKeep, SpecsKeep, CustodyKeep DEF Kept, Inv
<1>4. QED
  BY <1>2, <1>3

\* The inductive invariant holds.
THEOREM CustodyCorrect ==
  ASSUME Reliable, SpecsWellFormed
  PROVE  Spec => []Custody
<1>1. Kept => Custody
  BY DEF Kept
<1>2. QED
  BY <1>1, KeptCorrect, PTL DEF Spec

\* While the process lives and IAM's answers arrive, every role made for a
\* resource has it, with the finalizer.
THEOREM EntitiesHaveTheirResourceCorrect ==
  ASSUME Reliable, SpecsWellFormed
  PROVE  Spec => []EntitiesHaveTheirResource
<1>1. Custody => EntitiesHaveTheirResource
  BY DEF Custody
<1>2. QED
  BY <1>1, CustodyCorrect, PTL

\* And no resource ever has two, but for the one just made.
THEOREM OneEntityPerResourceCorrect ==
  ASSUME Reliable, SpecsWellFormed
  PROVE  Spec => []OneEntityPerResource
<1>1. Custody => OneEntityPerResource
  BY DEF Custody
<1>2. QED
  BY <1>1, CustodyCorrect, PTL

\* The controller keeps the promise of ManagedEntity: roles are made only for
\* resources that are there, and a resource goes only when none of its roles is
\* left.
THEOREM ImplementsManagedEntityCorrect ==
  ASSUME Reliable, SpecsWellFormed
  PROVE  Spec => ImplementsManagedEntity
<1>1. Kept /\ Kept' /\ [Next]_vars => [Promise!Next]_(Promise!vars)
  <2> SUFFICES ASSUME Kept, Kept', [Next]_vars PROVE [Promise!Next]_(Promise!vars)
    OBVIOUS
  <2>1. EntityMoves
    BY NextEntities DEF Kept, Inv
  <2>2. QED
    BY <2>1, KeptMoves, PromiseStep DEF Kept
<1>2. QED
  BY <1>1, InitPromise, KeptCorrect, PTL DEF Spec, ImplementsManagedEntity, Promise!Spec
=============================================================================
