-------------------------- MODULE ReconcilerProofs --------------------------
(***************************************************************************)
(* Types and ownership, proved once for all controllers: each action of    *)
(* Reconciler keeps TypeOK, whatever a controller passes to it, and        *)
(* Ownership, and touches only the entity its copy names, all failures and *)
(* crashes included.  A controller's own module adds its own actions and   *)
(* the theorems.                                                           *)
(***************************************************************************)
EXTENDS Reconciler, TLAPS

-----------------------------------------------------------------------------
(* Objects, writes, returns *)

\* The zero object is an object.
LEMMA AbsentType == Absent \in Object
  BY KubeAssumption DEF Absent, NoStatus, Object, Status, States

\* What the API server keeps of a status update is an object.
LEMMA StatusUpdatedType ==
  ASSUME TypeOK, key \in Resources, NEW s \in Status
  PROVE  StatusUpdated(s) \in Object
  BY DEF StatusUpdated, Object, TypeOK, KubeTypeOK

\* What it keeps of an update is an object, or nothing.
LEMMA UpdatedType ==
  ASSUME TypeOK, key \in Resources, NEW s \in SpecType, NEW own \in BOOLEAN
  PROVE  Updated(s, own) \in Object
<1>1. [api[key] EXCEPT !.spec = s, !.own = own] \in Object
  BY DEF Object, TypeOK, KubeTypeOK
<1>2. QED
  BY <1>1, AbsentType DEF Updated, Collected

\* Storing an object keeps the types of the API server and the cache flags.
LEMMA StoreType ==
  ASSUME TypeOK, NEW c \in Resources, NEW o \in Object, Store(c, o)
  PROVE  /\ api' \in [Resources -> Object]
         /\ current' \in [Resources -> BOOLEAN]
  BY DEF Store, TypeOK, KubeTypeOK

\* A failure is counted and the count stays within its bound.
LEMMA FaultType ==
  ASSUME TypeOK, NEW kind, Fault(kind)
  PROVE  faults' \in 0..MaxFaults
  BY ReconcilerAssumption DEF TypeOK, IamTypeOK, Fault

\* A write, accepted or refused, keeps the types.
LEMMA WriteType ==
  ASSUME TypeOK, key \in Resources, NEW o \in Object,
         Accepted(o) \/ Refused(o)
  PROVE  /\ api' \in [Resources -> Object]
         /\ current' \in [Resources -> BOOLEAN]
         /\ faults' \in 0..MaxFaults
<1>1. CASE Accepted(o)
  BY <1>1, StoreType DEF Accepted, TypeOK, IamTypeOK
<1>2. CASE Refused(o)
  <2>1. faults' \in 0..MaxFaults
    BY <1>2, FaultType DEF Refused, TypeOK, IamTypeOK
  <2>2. Store(key, o) \/ UNCHANGED <<api, current>>
    BY <1>2 DEF Refused
  <2>3. QED
    BY <2>1, <2>2, StoreType DEF TypeOK, KubeTypeOK
<1>3. QED
  BY <1>1, <1>2

\* What the worker holds after it returned, and after a restart, has its types.
LEMMA IdleType ==
  ASSUME pc' = "idle", key' = NoResource, inst' = Absent, fresh' = FALSE,
         held' = NoDef, etagOk' = FALSE, made' = 0
  PROVE  WorkerTypeOK'
  BY AbsentType, ReconcilerAssumption DEF WorkerTypeOK, PCs

\* A return leaves the worker idle and sets at most the timer of its key.
LEMMA ReturnType ==
  ASSUME TypeOK, key \in Resources, NEW r \in BOOLEAN, Return(r)
  PROVE  WorkerTypeOK' /\ timers' \subseteq Resources
<1>1. WorkerTypeOK'
  BY IdleType DEF Return
<1>2. QED
  BY <1>1 DEF Return, TypeOK, KubeTypeOK

\* Going on changes only the label.
LEMMA GotoType ==
  ASSUME TypeOK, key \in Resources, NEW label \in PCs, Goto(label)
  PROVE  WorkerTypeOK' /\ timers' \subseteq Resources
  BY DEF Goto, TypeOK, WorkerTypeOK, KubeTypeOK

\* The rest of the type invariant for the steps of a reconcile.
LEMMA FrameType ==
  ASSUME TypeOK, Frame,
         api' \in [Resources -> Object], current' \in [Resources -> BOOLEAN],
         timers' \subseteq Resources, WorkerTypeOK', IamTypeOK'
  PROVE  TypeOK'
  BY DEF TypeOK, KubeTypeOK, Frame

\* A restart keeps the types too.
LEMMA RestartType ==
  ASSUME TypeOK, Restart
  PROVE  KubeTypeOK' /\ WorkerTypeOK'
<1>1. WorkerTypeOK'
  BY IdleType DEF Restart
<1>2. QED
  BY <1>1 DEF Restart, Relist, TypeOK, KubeTypeOK

\* A busy worker has a key, and its copy a status and a spec.
LEMMA Busy ==
  ASSUME TypeOK, pc # "idle"
  PROVE  /\ key \in Resources
         /\ inst.status \in Status
         /\ inst.spec \in SpecType
         /\ inst.own \in BOOLEAN
         /\ inst.uid \in Nat
  BY DEF TypeOK, WorkerTypeOK, Object

\* A step that writes to the API server only.
LEMMA WriteStepType ==
  ASSUME TypeOK, key \in Resources, NEW o \in Object,
         Accepted(o) \/ Refused(o), Frame, IamUnchanged,
         WorkerTypeOK', timers' \subseteq Resources
  PROVE  TypeOK'
<1>1. IamTypeOK'
  BY WriteType DEF IamUnchanged, TypeOK, IamTypeOK
<1>2. QED
  BY <1>1, WriteType, FrameType

\* A step that does not write to the API server.
LEMMA LocalStepType ==
  ASSUME TypeOK, ApiUnchanged, Frame, IamTypeOK',
         WorkerTypeOK', timers' \subseteq Resources
  PROVE  TypeOK'
  BY FrameType DEF ApiUnchanged, TypeOK, KubeTypeOK

\* A step that returns or goes on to another label, and leaves the API server
\* alone, keeps the types if it keeps those of IAM.
LEMMA MoveType ==
  ASSUME TypeOK, pc # "idle",
         \/ \E r \in BOOLEAN : Return(r)
         \/ \E label \in PCs : Goto(label),
         ApiUnchanged, Frame, IamTypeOK'
  PROVE  TypeOK'
<1>1. key \in Resources
  BY Busy
<1>2. WorkerTypeOK' /\ timers' \subseteq Resources
  BY <1>1, ReturnType, GotoType
<1>3. QED
  BY <1>2, LocalStepType

\* A failure, or none, and IAM is as it was.
LEMMA IamSameType ==
  ASSUME TypeOK, IamUnchanged, UNCHANGED faults \/ \E kind : Fault(kind)
  PROVE  IamTypeOK'
  BY FaultType DEF IamUnchanged, TypeOK, IamTypeOK

\* A step that changes nothing but the worker's label.
LEMMA QuietType ==
  ASSUME TypeOK, pc # "idle",
         \/ \E r \in BOOLEAN : Return(r)
         \/ \E label \in PCs : Goto(label),
         UNCHANGED faults \/ \E kind : Fault(kind),
         ApiUnchanged, Frame, IamUnchanged
  PROVE  TypeOK'
  BY IamSameType, MoveType

\* Deleting an entity leaves entities,
LEMMA DeletedType ==
  ASSUME TypeOK, NEW i
  PROVE  Deleted(i) \in [Ids -> Entity]
  BY ReconcilerAssumption DEF Deleted, TypeOK, IamTypeOK, Entity, NoEntity

\* redefining one too,
LEMMA RedefinedType ==
  ASSUME TypeOK, NEW i, NEW def, i \in Ids => def \in DefType
  PROVE  Redefined(i, def) \in [Ids -> Entity]
  BY DEF Redefined, TypeOK, IamTypeOK, Entity

\* and adding one.
LEMMA NewEntityType ==
  ASSUME TypeOK, NEW i, NEW owner \in Nat, NEW def \in DefType
  PROVE  NewEntity(i, owner, def) \in [Ids -> Entity]
  BY DEF NewEntity, TypeOK, IamTypeOK, Entity

-----------------------------------------------------------------------------
(* The steps all controllers share *)

\* The first status update.
LEMMA SetPendingType == TypeOK /\ SetPending => TypeOK'
<1> SUFFICES ASSUME TypeOK, SetPending PROVE TypeOK'
  OBVIOUS
<1> DEFINE pending == [inst.status EXCEPT !.state = "Pending"]
<1>1. key \in Resources /\ inst.status \in Status
  BY Busy DEF SetPending
<1>2. pending \in Status
  BY <1>1 DEF Status, States
<1>3. StatusUpdated(pending) \in Object
  BY <1>1, <1>2, StatusUpdatedType
<1>4. CASE /\ Accepted(StatusUpdated(pending))
           /\ inst' = [inst EXCEPT !.status = pending]
           /\ pc' = "check"
           /\ UNCHANGED <<key, fresh, held, etagOk, made, timers>>
  <2>1. WorkerTypeOK' /\ timers' \subseteq Resources
    BY <1>1, <1>2, <1>4 DEF TypeOK, WorkerTypeOK, KubeTypeOK, PCs, Object
  <2>2. QED
    BY <1>1, <1>3, <1>4, <2>1, WriteStepType DEF SetPending
<1>5. CASE Refused(StatusUpdated(pending)) /\ Return(TRUE)
  BY <1>1, <1>3, <1>5, ReturnType, WriteStepType DEF SetPending
<1>6. QED
  BY <1>4, <1>5 DEF SetPending

\* The update that adds the finalizer.
LEMMA AddFinalizerType ==
  ASSUME TypeOK, NEW s \in SpecType, AddFinalizer(s)
  PROVE  TypeOK'
<1>1. key \in Resources /\ Updated(s, TRUE) \in Object
  BY Busy, UpdatedType DEF AddFinalizer
<1>2. CASE /\ Accepted(Updated(s, TRUE))
           /\ inst' = [inst EXCEPT !.own = TRUE]
           /\ pc' = "sync"
           /\ UNCHANGED <<key, fresh, held, etagOk, made, timers>>
  <2>1. WorkerTypeOK' /\ timers' \subseteq Resources
    BY <1>1, <1>2 DEF TypeOK, WorkerTypeOK, KubeTypeOK, PCs, Object
  <2>2. QED
    BY <1>1, <1>2, <2>1, WriteStepType DEF AddFinalizer
<1>3. CASE Refused(Updated(s, TRUE)) /\ Return(TRUE)
  BY <1>1, <1>3, ReturnType, WriteStepType DEF AddFinalizer
<1>4. QED
  BY <1>2, <1>3 DEF AddFinalizer

\* The updates of a deletion.
LEMMA UpdateStepsType ==
  ASSUME TypeOK, NEW s \in SpecType,
         DropFinalizer(s) \/ ClearStatus(s) \/ RemoveFinalizer(s)
  PROVE  TypeOK'
<1>1. /\ key \in Resources
      /\ \A own \in BOOLEAN : Updated(s, own) \in Object
      /\ inst.own \in BOOLEAN
  BY Busy, UpdatedType DEF DropFinalizer, ClearStatus, RemoveFinalizer
<1>2. PICK own \in BOOLEAN :
        /\ Accepted(Updated(s, own)) \/ Refused(Updated(s, own))
        /\ Return(TRUE) \/ Return(FALSE) \/ Goto("removeFinalizer")
        /\ Frame /\ IamUnchanged
  BY <1>1 DEF DropFinalizer, ClearStatus, RemoveFinalizer
<1>3. WorkerTypeOK' /\ timers' \subseteq Resources
  BY <1>1, <1>2, ReturnType, GotoType DEF PCs
<1>4. QED
  BY <1>1, <1>2, <1>3, WriteStepType

\* The status updates that report a failure.
LEMMA StatusStepsType ==
  ASSUME TypeOK, ReportFailed \/ ClearId
  PROVE  TypeOK'
<1>1. key \in Resources /\ inst.status \in Status
  BY Busy DEF ReportFailed, ClearId
<1>2. /\ [inst.status EXCEPT !.state = "Failed"] \in Status
      /\ [inst.status EXCEPT !.state = "Failed", !.id = 0] \in Status
  BY <1>1 DEF Status, States
<1>3. PICK s \in Status :
        /\ Accepted(StatusUpdated(s)) \/ Refused(StatusUpdated(s))
        /\ Return(TRUE) /\ Frame /\ IamUnchanged
  BY <1>2 DEF ReportFailed, ClearId
<1>4. QED
  BY <1>1, <1>3, StatusUpdatedType, ReturnType, WriteStepType

\* The steps that change nothing but the worker.
LEMMA ChecksType ==
  ASSUME TypeOK, NEW wellFormed, NEW ready,
         Malformed(wellFormed) \/ GetAccountInfo(ready)
  PROVE  TypeOK'
<1>1. pc # "idle" /\ ApiUnchanged /\ Frame /\ IamUnchanged
  BY DEF Malformed, GetAccountInfo
<1>2. UNCHANGED faults \/ \E kind : Fault(kind)
  BY DEF Malformed, GetAccountInfo
<1>3. AfterAccount(inst) \in PCs
  BY DEF AfterAccount, PCs
<1>4. \/ \E r \in BOOLEAN : Return(r)
      \/ \E label \in PCs : Goto(label)
  BY <1>3 DEF Malformed, GetAccountInfo, PCs
<1>5. QED
  BY <1>1, <1>2, <1>4, QuietType

\* The steps that delete an entity, or fail to.
LEMMA DeleteStepsType ==
  ASSUME TypeOK, DeleteEntity \/ Compensate
  PROVE  TypeOK'
<1>1. pc # "idle" /\ ApiUnchanged /\ Frame
  BY DEF DeleteEntity, Compensate
<1>2. \/ \E r \in BOOLEAN : Return(r)
      \/ \E label \in PCs : Goto(label)
  BY DEF DeleteEntity, Compensate, PCs
<1>3. /\ (\E i : iam' = Deleted(i)) \/ IamUnchanged
      /\ UNCHANGED faults \/ \E kind : Fault(kind)
  BY DEF DeleteEntity, Compensate
<1>4. IamTypeOK'
  BY <1>3, FaultType, DeletedType DEF TypeOK, IamTypeOK, IamUnchanged
<1>5. QED
  BY <1>1, <1>2, <1>4, MoveType

\* They are steps of a busy worker.
LEMMA CommonBusy ==
  ASSUME NEW wellFormed, NEW ready, NEW s, CommonStep(wellFormed, ready, s)
  PROVE  pc # "idle"
  BY DEF CommonStep, SetPending, Malformed, GetAccountInfo, DropFinalizer,
         AddFinalizer, ReportFailed, DeleteEntity, ClearStatus, RemoveFinalizer,
         ClearId, Compensate

\* All of them.
LEMMA CommonType ==
  ASSUME TypeOK, NEW wellFormed, NEW ready, NEW s \in SpecType,
         CommonStep(wellFormed, ready, s)
  PROVE  TypeOK'
  BY SetPendingType, AddFinalizerType, UpdateStepsType, StatusStepsType,
     ChecksType, DeleteStepsType DEF CommonStep

-----------------------------------------------------------------------------
(* The steps a controller fills in *)

\* The retrieval that finds nothing, or fails.
LEMMA NotRetrievedType ==
  ASSUME TypeOK, NEW label, label # "idle", NotRetrieved(label)
  PROVE  TypeOK'
  BY QuietType DEF NotRetrieved, RecordedAt, PCs

\* The one that leads to an update.
LEMMA GoUpdateType ==
  ASSUME TypeOK, pc # "idle", NEW def \in DefType, GoUpdate(def),
         UNCHANGED faults \/ \E kind : Fault(kind)
  PROVE  TypeOK'
<1>1. WorkerTypeOK' /\ timers' \subseteq Resources
  BY Busy DEF GoUpdate, TypeOK, WorkerTypeOK, KubeTypeOK, PCs
<1>2. QED
  BY <1>1, IamSameType, LocalStepType DEF GoUpdate

\* The update of the entity.
LEMMA UpdateEntityType ==
  ASSUME TypeOK, NEW def, inst.status.id \in Ids => def \in DefType,
         NEW next \in PCs, UpdateEntity(def, next)
  PROVE  TypeOK'
<1>1. IamTypeOK'
  <2>1. CASE /\ iam' = Redefined(inst.status.id, def)
             /\ UNCHANGED faults \/ Fault("update")
    BY <2>1, RedefinedType, FaultType DEF TypeOK, IamTypeOK
  <2>2. CASE IamUnchanged /\ (UNCHANGED faults \/ Fault("update"))
    BY <2>2, IamSameType
  <2>3. QED
    BY <2>1, <2>2 DEF UpdateEntity
<1>2. QED
  BY <1>1, MoveType DEF UpdateEntity, PCs

\* The creation of the entity.
LEMMA CreateEntityType ==
  ASSUME TypeOK, NEW def \in DefType, NEW next \in PCs, CreateEntity(def, next)
  PROVE  TypeOK'
<1>1. key \in Resources /\ inst.uid \in Nat
  BY Busy DEF CreateEntity
<1>2. CASE Fault("create") /\ Goto("reportFailed") /\ IamUnchanged
  BY <1>2, QuietType DEF CreateEntity, PCs
<1>3. CASE \E i \in Ids : /\ iam' = NewEntity(i, inst.uid, def)
                          /\ Fault("createLost") /\ Goto("reportFailed")
  BY <1>1, <1>3, NewEntityType, FaultType, MoveType DEF CreateEntity, PCs, IamTypeOK
<1>4. CASE \E i \in Ids :
             /\ iam' = NewEntity(i, inst.uid, def)
             /\ made' = i
             /\ pc' = next
             /\ UNCHANGED <<key, inst, fresh, held, etagOk, timers, faults>>
  <2>1. IamTypeOK'
    BY <1>1, <1>4, NewEntityType DEF TypeOK, IamTypeOK
  <2>2. WorkerTypeOK' /\ timers' \subseteq Resources
    BY <1>1, <1>4 DEF TypeOK, WorkerTypeOK, KubeTypeOK
  <2>3. QED
    BY <2>1, <2>2, LocalStepType DEF CreateEntity
<1>5. QED
  BY <1>2, <1>3, <1>4 DEF CreateEntity

\* The status update that records the entity.
LEMMA RecordType ==
  ASSUME TypeOK, NEW applied \in SpecType, Record(applied)
  PROVE  TypeOK'
<1> DEFINE s == [state |-> "Online", spec |-> applied,
                 id |-> IF made # 0 THEN made ELSE inst.status.id]
<1>1. key \in Resources /\ inst.status \in Status
  BY Busy DEF Record
<1>2. s \in Status
  BY <1>1 DEF Status, States, TypeOK, WorkerTypeOK
<1>3. Online(applied) \in Object
  BY <1>1, <1>2, StatusUpdatedType DEF Online
<1>4. /\ Accepted(Online(applied)) \/ Refused(Online(applied))
      /\ Return(TRUE) \/ Goto("compensate")
  BY DEF Record
<1>5. WorkerTypeOK' /\ timers' \subseteq Resources
  BY <1>1, <1>4, ReturnType, GotoType DEF PCs
<1>6. QED
  BY <1>1, <1>3, <1>4, <1>5, WriteStepType DEF Record

-----------------------------------------------------------------------------
(* The environment *)

\* The initial state is well typed.
LEMMA InitType == Init => TypeOK
<1> SUFFICES ASSUME Init PROVE TypeOK
  OBVIOUS
<1>1. KubeTypeOK
  BY AbsentType, KubeAssumption DEF Init, KubeInit, KubeTypeOK
<1>2. WorkerTypeOK
  BY AbsentType, ReconcilerAssumption DEF Init, WorkerTypeOK, PCs
<1>3. IamTypeOK
  BY ReconcilerAssumption DEF Init, IamTypeOK, Entity, NoEntity
<1>4. QED
  BY <1>1, <1>2, <1>3 DEF TypeOK

\* What users do keeps the types of the Kubernetes side.
LEMMA UserType ==
  ASSUME TypeOK, User
  PROVE  KubeTypeOK'
<1>1. PICK c \in Resources :
        \/ \E s \in Specs, f \in Foreign : CreateResource(c, s, f)
        \/ \E s \in Specs : EditSpec(c, s)
        \/ \E f \in Foreign : DeleteResource(c, f)
  BY DEF User
<1>2. Specs \subseteq SpecType /\ Foreign \subseteq BOOLEAN
  BY KubeAssumption
<1>3. api[c] \in Object
  BY DEF TypeOK, KubeTypeOK
<1>4. CASE \E s \in Specs, f \in Foreign : CreateResource(c, s, f)
  <2>1. PICK s \in Specs, f \in Foreign : CreateResource(c, s, f)
    BY <1>4
  <2>2. [Absent EXCEPT !.uid = created + 1, !.foreign = f, !.spec = s] \in Object
    <3>1. created + 1 \in Nat /\ f \in BOOLEAN /\ s \in SpecType
      BY <1>2, KubeAssumption DEF TypeOK, KubeTypeOK
    <3>2. QED
      BY <3>1, AbsentType DEF Object
  <2>3. created' \in 0..MaxCreations
    BY <2>1, KubeAssumption DEF CreateResource, TypeOK, KubeTypeOK
  <2>4. QED
    BY <2>1, <2>2, <2>3, StoreType DEF CreateResource, TypeOK, KubeTypeOK
<1>5. CASE \E s \in Specs : EditSpec(c, s)
  <2>1. PICK s \in Specs : EditSpec(c, s)
    BY <1>5
  <2>2. [api[c] EXCEPT !.spec = s] \in Object
    BY <1>2, <1>3 DEF Object
  <2>3. changes' \in 0..MaxChanges
    BY <2>1, KubeAssumption DEF EditSpec, UserChange, TypeOK, KubeTypeOK
  <2>4. QED
    BY <2>1, <2>2, <2>3, StoreType DEF EditSpec, UserChange, TypeOK, KubeTypeOK
<1>6. CASE \E f \in Foreign : DeleteResource(c, f)
  <2>1. PICK f \in Foreign : DeleteResource(c, f)
    BY <1>6
  <2>2. [api[c] EXCEPT !.deleting = TRUE, !.foreign = @ \/ f] \in Object
    BY <1>2, <1>3 DEF Object
  <2>3. Collected([api[c] EXCEPT !.deleting = TRUE, !.foreign = @ \/ f]) \in Object
    BY <2>2, AbsentType DEF Collected
  <2>4. changes' \in 0..MaxChanges
    BY <2>1, KubeAssumption DEF DeleteResource, UserChange, TypeOK, KubeTypeOK
  <2>5. QED
    BY <2>1, <2>3, <2>4, StoreType DEF DeleteResource, UserChange, TypeOK, KubeTypeOK
<1>7. QED
  BY <1>1, <1>4, <1>5, <1>6

\* A step of a user keeps the types.
LEMMA UserStepType ==
  ASSUME TypeOK, UserStep
  PROVE  TypeOK'
<1>1. KubeTypeOK'
  BY UserType DEF UserStep
<1>2. WorkerTypeOK'
  BY DEF UserStep, TypeOK, WorkerTypeOK
<1>3. QED
  BY <1>1, <1>2 DEF UserStep, TypeOK, IamTypeOK

\* So does the end of another finalizer.
LEMMA FinalizeType ==
  ASSUME TypeOK, NEW c \in Resources, Finalize(c)
  PROVE  TypeOK'
<1>1. [api[c] EXCEPT !.foreign = FALSE] \in Object
  BY DEF TypeOK, KubeTypeOK, Object
<1>2. Collected([api[c] EXCEPT !.foreign = FALSE]) \in Object
  BY <1>1, AbsentType DEF Collected
<1>3. KubeTypeOK'
  BY <1>2, StoreType DEF Finalize, RemoveForeignFinalizer, TypeOK, KubeTypeOK
<1>4. WorkerTypeOK'
  BY DEF Finalize, TypeOK, WorkerTypeOK
<1>5. QED
  BY <1>3, <1>4 DEF Finalize, TypeOK, IamTypeOK

\* So do the steps of the watch, the resync and the timers,
LEMMA KubeStepType ==
  ASSUME TypeOK, NEW c \in Resources, CacheSyncs(c) \/ Resyncs(c) \/ Fires(c)
  PROVE  TypeOK'
<1>1. KubeTypeOK'
  BY DEF CacheSyncs, Resyncs, Fires, CacheSync, Resync, TimerFires, TypeOK, KubeTypeOK
<1>2. WorkerTypeOK' /\ IamTypeOK'
  BY DEF CacheSyncs, Resyncs, Fires, TypeOK, WorkerTypeOK, IamTypeOK, worker
<1>3. QED
  BY <1>1, <1>2 DEF TypeOK

\* a crash,
LEMMA CrashType ==
  ASSUME TypeOK, Crash
  PROVE  TypeOK'
<1>1. IamTypeOK'
  BY FaultType DEF Crash, IamUnchanged, TypeOK, IamTypeOK
<1>2. QED
  BY <1>1, RestartType DEF Crash, TypeOK

\* and the start of a reconcile.
LEMMA GetType ==
  ASSUME TypeOK, NEW c \in Resources,
         GetNotFound(c) \/ GetInstance(c) \/ GetError(c)
  PROVE  TypeOK'
<1>1. CASE GetNotFound(c)
  BY <1>1 DEF GetNotFound, TypeOK, KubeTypeOK, WorkerTypeOK, IamTypeOK, worker
<1>2. CASE GetInstance(c)
  <2>1. WorkerTypeOK'
    BY <1>2 DEF GetInstance, TypeOK, KubeTypeOK, WorkerTypeOK, PCs
  <2>2. QED
    BY <1>2, <2>1 DEF GetInstance, TypeOK, KubeTypeOK, IamTypeOK
<1>3. CASE GetError(c)
  <2>1. IamTypeOK'
    BY <1>3, FaultType DEF GetError, TypeOK, IamTypeOK
  <2>2. QED
    BY <1>3, <2>1 DEF GetError, TypeOK, KubeTypeOK, WorkerTypeOK, worker
<1>4. QED
  BY <1>1, <1>2, <1>3

\* All of these.
LEMMA EnvironmentType == TypeOK /\ Environment => TypeOK'
  BY UserStepType, CrashType, GetType, FinalizeType, KubeStepType DEF Environment

\* A change through the IAM console.
LEMMA ConsoleType ==
  ASSUME TypeOK, NEW i, NEW def \in DefType, NEW covered,
         ConsoleCreates(i, def) \/ ConsoleChanges(i, def, covered) \/ ConsoleDeletes(i)
  PROVE  TypeOK'
<1>1. Console
  BY DEF ConsoleCreates, ConsoleChanges, ConsoleDeletes
<1>2. KubeTypeOK'
  BY <1>1, KubeAssumption DEF Console, TypeOK, KubeTypeOK
<1>3. IamTypeOK'
  BY <1>1, DeletedType, RedefinedType, NewEntityType
     DEF Console, ConsoleCreates, ConsoleChanges, ConsoleDeletes, TypeOK, IamTypeOK
<1>4. etagOk' \in BOOLEAN
  BY DEF ConsoleCreates, ConsoleChanges, ConsoleDeletes, TypeOK, WorkerTypeOK
<1>5. WorkerTypeOK'
  BY <1>1, <1>4 DEF Console, TypeOK, WorkerTypeOK
<1>6. QED
  BY <1>2, <1>3, <1>5 DEF TypeOK

\* Nothing happens.
LEMMA StutterType == TypeOK /\ UNCHANGED vars => TypeOK'
  BY DEF vars, kube, worker, TypeOK, KubeTypeOK, WorkerTypeOK, IamTypeOK

-----------------------------------------------------------------------------
(* The operator changes only what it made *)


Inv == TypeOK /\ Ownership

\* No entity appears or changes hands in a step.
Keeps == \A i \in Ids : iam'[i].live => iam[i].live /\ iam'[i].owner = iam[i].owner

\* The part of Ownership about the API server and the cache.
StoredOwn ==
    /\ \A c \in Resources : Own(api[c]) /\ Own(cache[c]) /\ Held(api[c])
    /\ \A c \in Resources : current[c] => cache[c] = api[c]

\* The part about the worker.
WorkerOwn ==
    /\ Own(inst)
    /\ made # 0 /\ iam[made].live => iam[made].owner = inst.uid
    /\ fresh => pc # "idle" /\ Same(api[key], inst)
    /\ IF pc = "idle" THEN made = 0 ELSE Exists(inst)

\* Ownership is these two parts.
LEMMA OwnershipParts == StoredOwn' /\ WorkerOwn' => Ownership'
  BY DEF Ownership, StoredOwn, WorkerOwn

\* The ids that copies and the worker hold.
LEMMA HeldIds ==
  ASSUME TypeOK
  PROVE  /\ \A c \in Resources : /\ api[c].status.id \in Ids \cup {0}
                                 /\ cache[c].status.id \in Ids \cup {0}
         /\ inst.status.id \in Ids \cup {0}
         /\ made \in Ids \cup {0}
         /\ iam \in [Ids -> Entity]
         /\ 0 \notin Ids
<1>1. \A o \in Object : o.status.id \in Ids \cup {0}
  BY DEF Object, Status
<1>2. QED
  BY <1>1, KubeAssumption DEF TypeOK, KubeTypeOK, WorkerTypeOK, IamTypeOK

-----------------------------------------------------------------------------
(* What a step does to the API server and the cache *)

\* Nothing is stored, and no entity changes hands.
LEMMA StoredSame ==
  ASSUME Inv, Keeps, UNCHANGED <<api, cache, current>>
  PROVE  StoredOwn'
  BY HeldIds DEF Inv, Ownership, StoredOwn, Own, Keeps

\* An object that names an entity of its own is stored, and IAM is as it was.
LEMMA StoredOne ==
  ASSUME Inv, NEW c \in Resources, NEW o \in Object, Own(o), Held(o), Store(c, o),
         UNCHANGED <<cache, iam>>
  PROVE  StoredOwn'
<1>1. api \in [Resources -> Object] /\ current \in [Resources -> BOOLEAN]
  BY DEF Inv, TypeOK, KubeTypeOK
<1>2. QED
  BY <1>1 DEF Inv, Ownership, StoredOwn, Own, Store

\* A write, accepted or refused, of an object that names an entity of its own.
LEMMA StoredWrite ==
  ASSUME Inv, key \in Resources, NEW o \in Object, fresh => Own(o) /\ Held(o),
         Accepted(o) \/ Refused(o), UNCHANGED <<cache, iam>>
  PROVE  StoredOwn'
<1>1. CASE fresh /\ Store(key, o)
  BY <1>1, StoredOne
<1>2. CASE UNCHANGED <<api, current>>
  BY <1>2, StoredSame DEF Keeps
<1>3. QED
  BY <1>1, <1>2 DEF Accepted, Refused

\* What a write of the status stores names an entity of its own if s does.
LEMMA StatusOwn ==
  ASSUME Inv, pc # "idle", fresh, NEW s \in Status,
         s.id # 0 /\ iam[s.id].live => iam[s.id].owner = inst.uid
  PROVE  Own(StatusUpdated(s)) /\ Held(StatusUpdated(s))
<1>1. api[key] \in Object /\ api[key].uid = inst.uid /\ Held(api[key])
  BY Busy DEF Inv, TypeOK, KubeTypeOK, Ownership, Same
<1>2. /\ StatusUpdated(s).uid = inst.uid /\ StatusUpdated(s).status.id = s.id
      /\ StatusUpdated(s).deleting = api[key].deleting
      /\ StatusUpdated(s).own = api[key].own
      /\ StatusUpdated(s).foreign = api[key].foreign
  BY <1>1 DEF StatusUpdated, Object
<1>3. QED
  BY <1>1, <1>2 DEF Own, Held

\* A write of the rest leaves the status, or removes the object.
LEMMA UpdateOwn ==
  ASSUME Inv, pc # "idle", NEW s \in SpecType, NEW own \in BOOLEAN
  PROVE  /\ Own(Updated(s, own)) /\ Held(Updated(s, own))
         /\ own \/ own = api[key].own =>
               Updated(s, own).uid = api[key].uid /\ Updated(s, own).own = own
<1> DEFINE o == [api[key] EXCEPT !.spec = s, !.own = own]
<1>1. key \in Resources /\ api[key] \in Object
  BY Busy DEF Inv, TypeOK, KubeTypeOK
<1>2. /\ o.uid = api[key].uid /\ o.status = api[key].status /\ o.own = own
      /\ o.deleting = api[key].deleting /\ o.foreign = api[key].foreign
  BY <1>1 DEF Object
<1>3. Own(o) /\ Own(Absent) /\ Held(Absent) /\ Held(api[key])
  BY <1>1, <1>2 DEF Own, Held, Absent, NoStatus, Inv, Ownership
<1>4. Updated(s, own) = Collected(o)
  BY DEF Updated
<1>5. QED
  BY <1>2, <1>3, <1>4 DEF Collected, Held

-----------------------------------------------------------------------------
(* What a step does to the worker *)

\* An idle worker holds nothing.
LEMMA IdleOwn ==
  ASSUME pc' = "idle", inst' = Absent, fresh' = FALSE, made' = 0
  PROVE  WorkerOwn'
  BY DEF WorkerOwn, Own, Absent, NoStatus

\* So after a return.
LEMMA ReturnOwn ==
  ASSUME NEW r, Return(r)
  PROVE  WorkerOwn'
  BY IdleOwn DEF Return

\* A worker that goes on holds what it held.
LEMMA GotoOwn ==
  ASSUME Inv, Keeps, pc # "idle", NEW label, Goto(label), label # "idle",
         fresh => Same(api'[key], api[key])
  PROVE  WorkerOwn'
  BY HeldIds DEF Inv, Ownership, WorkerOwn, Own, Same, Goto, Keeps, Exists

\* Where a busy worker may go.
Labels == PCs \ {"idle"}

\* Steps that leave the API server as it is and give entities to nobody.
LEMMA QuietOwn ==
  ASSUME Inv, pc # "idle", ApiUnchanged, Frame, Keeps,
         \/ \E r \in BOOLEAN : Return(r)
         \/ \E label \in Labels : Goto(label)
  PROVE  Ownership'
<1>1. StoredOwn'
  BY StoredSame DEF ApiUnchanged, Frame
<1>2. WorkerOwn'
  BY ReturnOwn, GotoOwn DEF ApiUnchanged, Labels, Same
<1>3. QED
  BY <1>1, <1>2, OwnershipParts

\* Entities that do not change do not change hands,
LEMMA SameKeeps == IamUnchanged => Keeps
  BY DEF IamUnchanged, Keeps

\* nor does one that is deleted
LEMMA DeletedKeeps ==
  ASSUME Inv, NEW i, iam' = Deleted(i)
  PROVE  Keeps
  BY HeldIds DEF Inv, Deleted, Keeps, NoEntity

\* or redefined.
LEMMA RedefinedKeeps ==
  ASSUME Inv, NEW i, NEW def, iam' = Redefined(i, def)
  PROVE  Keeps
<1>1. iam \in [Ids -> Entity]
  BY HeldIds DEF Inv
<1>2. QED
  BY <1>1 DEF Redefined, Keeps, Entity

\* A new process starts from what is stored.
LEMMA RestartOwn ==
  ASSUME Inv, Restart, IamUnchanged
  PROVE  Ownership'
<1>1. WorkerOwn'
  BY IdleOwn DEF Restart
<1>2. StoredOwn'
  BY DEF Restart, Relist, IamUnchanged, Inv, Ownership, StoredOwn, Own
<1>3. QED
  BY <1>1, <1>2, OwnershipParts

\* A new id is held by no copy and not by the worker, so an entity that appears
\* under it changes nothing for them.
LEMMA NewIdOwn ==
  ASSUME Inv, NEW i \in Ids, NewId(i), NEW owner, NEW def,
         iam' = NewEntity(i, owner, def)
  PROVE  /\ \A c \in Resources : Own(api[c]) => (UNCHANGED api => Own(api[c])')
         /\ \A c \in Resources : Own(cache[c]) => (UNCHANGED cache => Own(cache[c])')
         /\ Own(inst) => (UNCHANGED inst => Own(inst)')
         /\ i # made
         /\ iam'[i].owner = owner
         /\ \A j \in Ids : j # i => iam'[j] = iam[j]
  BY HeldIds DEF Inv, NewId, Unused, Own, NewEntity

-----------------------------------------------------------------------------
(* The writes *)

\* Steps that write to the API server and leave IAM as it is.
LEMMA WriteOwn ==
  ASSUME Inv, pc # "idle", NEW o \in Object, fresh => Own(o) /\ Held(o),
         Accepted(o) \/ Refused(o), Frame, IamUnchanged, WorkerOwn'
  PROVE  Ownership'
<1>1. key \in Resources
  BY Busy DEF Inv
<1>2. StoredOwn'
  BY <1>1, StoredWrite DEF Frame, IamUnchanged
<1>3. QED
  BY <1>2, OwnershipParts

\* After an accepted write the worker's copy is still of the stored incarnation.
LEMMA AcceptedKey ==
  ASSUME Inv, pc # "idle", NEW o \in Object, Accepted(o),
         o.uid = api[key].uid
  PROVE  api'[key] = o /\ o.uid = inst.uid
<1>1. api \in [Resources -> Object] /\ key \in Resources
  BY Busy DEF Inv, TypeOK, KubeTypeOK
<1>2. QED
  BY <1>1 DEF Accepted, Store, Inv, Ownership, Same

\* A status update stores an object of the same incarnation.
LEMMA StatusObject ==
  ASSUME Inv, pc # "idle", NEW s \in Status
  PROVE  StatusUpdated(s) \in Object /\ Same(StatusUpdated(s), api[key])
<1>1. key \in Resources /\ StatusUpdated(s) \in Object
  BY Busy, StatusUpdatedType DEF Inv
<1>2. api[key] \in Object
  BY <1>1 DEF Inv, TypeOK, KubeTypeOK
<1>3. QED
  BY <1>1, <1>2 DEF StatusUpdated, Object, Same

\* The first status update.
LEMMA SetPendingOwn == Inv /\ SetPending => Ownership'
<1> SUFFICES ASSUME Inv, SetPending PROVE Ownership'
  OBVIOUS
<1> DEFINE pending == [inst.status EXCEPT !.state = "Pending"]
<1>1. pc # "idle" /\ inst \in Object
  BY DEF SetPending, Inv, TypeOK, WorkerTypeOK
<1>2. pending \in Status /\ pending.id = inst.status.id
  BY <1>1 DEF Object, Status, States
<1>3. fresh => Own(StatusUpdated(pending)) /\ Held(StatusUpdated(pending))
  BY <1>1, <1>2, StatusOwn DEF Inv, Ownership, Own
<1>4. CASE /\ Accepted(StatusUpdated(pending))
           /\ inst' = [inst EXCEPT !.status = pending]
           /\ pc' = "check"
           /\ UNCHANGED <<key, fresh, held, etagOk, made, timers>>
  <2>1. Same(inst', inst) /\ inst'.status.id = inst.status.id
    BY <1>1, <1>2, <1>4 DEF Object, Same
  <2>2. Same(api'[key], inst)
    BY <1>1, <1>2, <1>4, StatusObject, AcceptedKey
       DEF Same, Accepted, Inv, Ownership
  <2>3. WorkerOwn'
    BY <1>1, <1>4, <2>1, <2>2
       DEF WorkerOwn, Own, Same, SetPending, IamUnchanged, Inv, Ownership, Exists
  <2>4. QED
    BY <1>1, <1>2, <1>3, <1>4, <2>3, StatusObject, WriteOwn DEF SetPending
<1>5. CASE Refused(StatusUpdated(pending)) /\ Return(TRUE)
  BY <1>1, <1>2, <1>3, <1>5, StatusObject, ReturnOwn, WriteOwn DEF SetPending
<1>6. QED
  BY <1>4, <1>5 DEF SetPending

\* The update that adds the finalizer.
LEMMA AddFinalizerOwn ==
  ASSUME Inv, NEW s \in SpecType, AddFinalizer(s)
  PROVE  Ownership'
<1>1. pc # "idle" /\ inst \in Object /\ key \in Resources
  BY Busy DEF AddFinalizer, Inv, TypeOK, WorkerTypeOK
<1>2. /\ Updated(s, TRUE) \in Object
      /\ Own(Updated(s, TRUE)) /\ Held(Updated(s, TRUE))
      /\ Updated(s, TRUE).uid = api[key].uid /\ Updated(s, TRUE).own = TRUE
  BY <1>1, UpdatedType, UpdateOwn DEF Inv
<1>3. CASE /\ Accepted(Updated(s, TRUE))
           /\ inst' = [inst EXCEPT !.own = TRUE]
           /\ pc' = "sync"
           /\ UNCHANGED <<key, fresh, held, etagOk, made, timers>>
  <2>1. inst'.uid = inst.uid /\ inst'.status = inst.status /\ inst'.own = TRUE
    BY <1>1, <1>3 DEF Object
  <2>2. api'[key].uid = inst.uid /\ api'[key].own = TRUE
    BY <1>1, <1>2, <1>3, AcceptedKey
  <2>3. WorkerOwn'
    BY <1>1, <1>3, <2>1, <2>2
       DEF WorkerOwn, Own, Same, AddFinalizer, IamUnchanged, Inv, Ownership, Exists
  <2>4. QED
    BY <1>1, <1>2, <1>3, <2>3, WriteOwn DEF AddFinalizer
<1>4. CASE Refused(Updated(s, TRUE)) /\ Return(TRUE)
  BY <1>1, <1>2, <1>4, ReturnOwn, WriteOwn DEF AddFinalizer
<1>5. QED
  BY <1>3, <1>4 DEF AddFinalizer

\* The last writes of a deletion return.
LEMMA RemoveStepsOwn ==
  ASSUME Inv, NEW s \in SpecType, DropFinalizer(s) \/ RemoveFinalizer(s)
  PROVE  Ownership'
<1>1. pc # "idle" /\ key \in Resources
  BY Busy DEF DropFinalizer, RemoveFinalizer, Inv
<1>2. /\ Updated(s, FALSE) \in Object
      /\ Own(Updated(s, FALSE)) /\ Held(Updated(s, FALSE))
  BY <1>1, UpdatedType, UpdateOwn DEF Inv
<1>3. QED
  BY <1>1, <1>2, ReturnOwn, WriteOwn DEF DropFinalizer, RemoveFinalizer

\* An update that leaves the finalizer alone and goes on.
LEMMA UpdateOnOwn ==
  ASSUME Inv, pc # "idle", NEW s \in SpecType, Accepted(Updated(s, inst.own)),
         NEW label \in Labels, pc' = label,
         UNCHANGED <<key, fresh, made>>, inst'.uid = inst.uid,
         inst'.own = inst.own, inst'.status = inst.status, Frame, IamUnchanged
  PROVE  Ownership'
<1>1. key \in Resources /\ inst.own \in BOOLEAN /\ api[key].own = inst.own
  BY Busy DEF Inv, Accepted, Ownership, Same, TypeOK, WorkerTypeOK, Object
<1>2. /\ Updated(s, inst.own) \in Object
      /\ Own(Updated(s, inst.own)) /\ Held(Updated(s, inst.own))
      /\ Updated(s, inst.own).uid = api[key].uid
      /\ Updated(s, inst.own).own = inst.own
  BY <1>1, UpdatedType, UpdateOwn DEF Inv
<1>3. api'[key].uid = inst.uid /\ api'[key].own = inst.own
  BY <1>2, AcceptedKey
<1>4. WorkerOwn'
  BY <1>3 DEF WorkerOwn, Own, Same, IamUnchanged, Labels, Inv, Ownership, Exists
<1>5. QED
  BY <1>2, <1>4, WriteOwn

\* One that is refused and ends the reconcile.
LEMMA UpdateRefusedOwn ==
  ASSUME Inv, pc # "idle", NEW s \in SpecType, NEW own \in BOOLEAN,
         Refused(Updated(s, own)), Return(TRUE), Frame, IamUnchanged
  PROVE  Ownership'
<1>1. key \in Resources
  BY Busy DEF Inv
<1>2. /\ Updated(s, own) \in Object
      /\ Own(Updated(s, own)) /\ Held(Updated(s, own))
  BY <1>1, UpdatedType, UpdateOwn DEF Inv
<1>3. QED
  BY <1>2, ReturnOwn, WriteOwn

\* The update of a deletion that goes on: a finalizer keeps the object.
LEMMA ClearStatusOwn ==
  ASSUME Inv, NEW s \in SpecType, ClearStatus(s)
  PROVE  Ownership'
<1>1. pc # "idle" /\ inst.own \in BOOLEAN
  BY DEF ClearStatus, Inv, TypeOK, WorkerTypeOK, Object
<1>2. CASE Accepted(Updated(s, inst.own)) /\ Goto("removeFinalizer")
  BY <1>1, <1>2, UpdateOnOwn DEF ClearStatus, Goto, Labels, PCs
<1>3. CASE Refused(Updated(s, inst.own)) /\ Return(TRUE)
  BY <1>1, <1>3, UpdateRefusedOwn DEF ClearStatus
<1>4. QED
  BY <1>2, <1>3 DEF ClearStatus

\* The status updates that report a failure.
LEMMA StatusStepsOwn ==
  ASSUME Inv, ReportFailed \/ ClearId
  PROVE  Ownership'
<1>1. pc # "idle" /\ inst.status \in Status
  BY Busy DEF ReportFailed, ClearId, Inv
<1>2. PICK s \in Status :
        /\ s.id \in {0, inst.status.id}
        /\ Accepted(StatusUpdated(s)) \/ Refused(StatusUpdated(s))
        /\ Return(TRUE) /\ Frame /\ IamUnchanged
  <2>1. CASE ReportFailed
    <3>1. [inst.status EXCEPT !.state = "Failed"] \in Status
      BY <1>1 DEF Status, States
    <3>2. [inst.status EXCEPT !.state = "Failed"].id = inst.status.id
      BY <1>1 DEF Status
    <3>3. QED
      BY <2>1, <3>1, <3>2 DEF ReportFailed
  <2>2. CASE ClearId
    <3>1. [inst.status EXCEPT !.state = "Failed", !.id = 0] \in Status
      BY <1>1 DEF Status, States
    <3>2. [inst.status EXCEPT !.state = "Failed", !.id = 0].id = 0
      BY <1>1 DEF Status
    <3>3. QED
      BY <2>2, <3>1, <3>2 DEF ClearId
  <2>3. QED
    BY <2>1, <2>2
<1>3. fresh => Own(StatusUpdated(s)) /\ Held(StatusUpdated(s))
  BY <1>1, <1>2, StatusOwn DEF Inv, Ownership, Own
<1>4. QED
  BY <1>1, <1>2, <1>3, StatusObject, ReturnOwn, WriteOwn

\* The id recorded is that of the entity just made, or the one already recorded.
LEMMA RecordOwn ==
  ASSUME Inv, NEW applied \in SpecType, Record(applied)
  PROVE  Ownership'
<1> DEFINE s == [state |-> "Online", spec |-> applied,
                 id |-> IF made # 0 THEN made ELSE inst.status.id]
<1>1. pc # "idle" /\ Online(applied) = StatusUpdated(s)
  BY DEF Record, Online
<1>2. s \in Status
  BY <1>1, HeldIds DEF Status, States, Inv
<1>3. fresh => Own(StatusUpdated(s)) /\ Held(StatusUpdated(s))
  BY <1>1, <1>2, StatusOwn DEF Inv, Ownership, Own
<1>4. CASE Return(TRUE) /\ (Accepted(StatusUpdated(s)) \/ Refused(StatusUpdated(s)))
  BY <1>1, <1>2, <1>3, <1>4, StatusObject, ReturnOwn, WriteOwn DEF Record
<1>5. CASE Refused(StatusUpdated(s)) /\ Goto("compensate")
  <2>1. api \in [Resources -> Object] /\ key \in Resources
    BY <1>1, Busy DEF Inv, TypeOK, KubeTypeOK
  <2>2. fresh => Same(api'[key], api[key])
    BY <1>1, <1>2, <1>5, <2>1, StatusObject DEF Refused, Store, Same
  <2>3. WorkerOwn'
    BY <1>1, <1>5, <2>2, GotoOwn, SameKeeps DEF Record
  <2>4. QED
    BY <1>1, <1>2, <1>3, <1>5, <2>3, StatusObject, WriteOwn DEF Record
<1>6. QED
  BY <1>1, <1>4, <1>5 DEF Record

-----------------------------------------------------------------------------
(* The steps that do not write *)

\* The steps that change nothing but the worker.
LEMMA ChecksOwn ==
  ASSUME Inv, NEW wellFormed, NEW ready,
         Malformed(wellFormed) \/ GetAccountInfo(ready)
  PROVE  Ownership'
<1>1. pc # "idle" /\ ApiUnchanged /\ Frame /\ Keeps
  BY SameKeeps DEF Malformed, GetAccountInfo
<1>2. /\ AfterAccount(inst) \in Labels
      /\ {"dropFinalizer", "reportFailed"} \subseteq Labels
  BY DEF AfterAccount, PCs, Labels
<1>3. \/ \E r \in BOOLEAN : Return(r)
      \/ \E label \in Labels : Goto(label)
  <2>1. CASE Malformed(wellFormed)
    BY <1>2, <2>1 DEF Malformed
  <2>2. CASE GetAccountInfo(ready)
    BY <1>2, <2>2 DEF GetAccountInfo
  <2>3. QED
    BY <2>1, <2>2
<1>4. QED
  BY <1>1, <1>3, QuietOwn

\* The steps that delete an entity, or fail to.
LEMMA DeleteStepsOwn ==
  ASSUME Inv, DeleteEntity \/ Compensate
  PROVE  Ownership'
<1>1. pc # "idle" /\ ApiUnchanged /\ Frame
  BY DEF DeleteEntity, Compensate
<1>2. Keeps
  BY DeletedKeeps, SameKeeps DEF DeleteEntity, Compensate
<1>3. \/ \E r \in BOOLEAN : Return(r)
      \/ \E label \in Labels : Goto(label)
  <2>1. DeleteEntity => "clearStatus" \in Labels
    BY DEF DeleteEntity, Labels, PCs, Inv, Ownership
  <2>2. QED
    BY <2>1 DEF DeleteEntity, Compensate
<1>4. QED
  BY <1>1, <1>2, <1>3, QuietOwn

\* All the steps that controllers share.
LEMMA CommonOwn ==
  ASSUME Inv, NEW wellFormed, NEW ready, NEW s \in SpecType,
         CommonStep(wellFormed, ready, s)
  PROVE  Ownership'
  BY SetPendingOwn, AddFinalizerOwn, RemoveStepsOwn, ClearStatusOwn,
     StatusStepsOwn, ChecksOwn, DeleteStepsOwn DEF CommonStep

\* The retrieval that finds nothing, or fails.
LEMMA NotRetrievedOwn ==
  ASSUME Inv, NEW label, label # "idle", NotRetrieved(label)
  PROVE  Ownership'
  BY QuietOwn, SameKeeps DEF NotRetrieved, RecordedAt, PCs, Labels

\* The one that leads to an update.
LEMMA GoUpdateOwn ==
  ASSUME Inv, pc # "idle", NEW def, GoUpdate(def)
  PROVE  Ownership'
<1>1. StoredOwn'
  BY StoredSame, SameKeeps DEF GoUpdate, ApiUnchanged, Frame
<1>2. WorkerOwn'
  BY DEF GoUpdate, ApiUnchanged, IamUnchanged, Inv, Ownership, WorkerOwn, Own, Exists
<1>3. QED
  BY <1>1, <1>2, OwnershipParts

\* The update of the entity.
LEMMA UpdateEntityOwn ==
  ASSUME Inv, NEW def, NEW next, next \in Labels, UpdateEntity(def, next)
  PROVE  Ownership'
<1>1. Keeps
  BY RedefinedKeeps, SameKeeps DEF UpdateEntity
<1>2. "reportFailed" \in Labels
  BY DEF PCs, Labels
<1>3. QED
  BY <1>1, <1>2, QuietOwn DEF UpdateEntity

\* The new entity is owned by the resource being reconciled.
LEMMA CreateEntityOwn ==
  ASSUME Inv, NEW def, NEW next, next \in Labels,
         CreateEntity(def, next)
  PROVE  Ownership'
<1>1. pc # "idle" /\ ApiUnchanged /\ Frame
  BY DEF CreateEntity
<1>2. CASE Goto("reportFailed") /\ IamUnchanged
  BY <1>1, <1>2, QuietOwn, SameKeeps DEF PCs, Labels
<1>3. CASE \E i \in Ids : /\ NewId(i)
                          /\ iam' = NewEntity(i, inst.uid, def)
                          /\ \/ /\ made' = i
                                /\ pc' = next
                                /\ UNCHANGED <<key, inst, fresh>>
                             \/ Goto("reportFailed")
  <2>1. PICK i \in Ids : /\ NewId(i)
                         /\ iam' = NewEntity(i, inst.uid, def)
                         /\ \/ /\ made' = i
                               /\ pc' = next
                               /\ UNCHANGED <<key, inst, fresh>>
                            \/ Goto("reportFailed")
    BY <1>3
  <2>2. iam'[i].owner = inst.uid /\ \A j \in Ids : j # i => iam'[j] = iam[j]
    BY <2>1, NewIdOwn
  <2>3. StoredOwn'
    BY <1>1, <2>1, NewIdOwn DEF ApiUnchanged, Frame, Inv, Ownership, StoredOwn
  <2>4. Own(inst)' /\ i # made /\ made \in Ids \cup {0} /\ UNCHANGED <<key, inst, fresh>>
    BY <2>1, NewIdOwn, HeldIds DEF Inv, Ownership, Goto
  <2>5. WorkerOwn'
    BY <1>1, <2>1, <2>2, <2>4
       DEF WorkerOwn, Same, Labels, ApiUnchanged, Inv, Ownership, Goto, Exists
  <2>6. QED
    BY <2>3, <2>5, OwnershipParts
<1>4. QED
  BY <1>2, <1>3 DEF CreateEntity

-----------------------------------------------------------------------------
(* The environment *)

\* Initially nothing is named.
LEMMA InitOwn == Init => Ownership
<1> SUFFICES ASSUME Init PROVE Ownership
  OBVIOUS
<1>1. \A c \in Resources : api[c] = Absent /\ cache[c] = Absent
  BY DEF Init, KubeInit
<1>2. Own(Absent) /\ Held(Absent)
  BY DEF Own, Held, Absent, NoStatus
<1>3. QED
  BY <1>1, <1>2 DEF Init, KubeInit, Ownership

\* Users and other finalizers store objects that name what was named before,
\* or nothing, and make the worker's copy an old one if it was of that key.
LEMMA OthersStore ==
  ASSUME Inv, NEW c \in Resources, NEW o \in Object, Own(o), Held(o), Store(c, o),
         fresh' = (fresh /\ api'[key] = api[key]),
         UNCHANGED <<cache, pc, key, inst, made, iam>>
  PROVE  Ownership'
<1>1. StoredOwn'
  BY StoredOne
<1>2. WorkerOwn'
  BY DEF Inv, Ownership, WorkerOwn, Own, Exists
<1>3. QED
  BY <1>1, <1>2, OwnershipParts

\* A step of a user.
LEMMA UserStepOwn == Inv /\ UserStep => Ownership'
<1> SUFFICES ASSUME Inv, UserStep PROVE Ownership'
  OBVIOUS
<1>1. PICK c \in Resources :
        \/ \E s \in Specs, f \in Foreign : CreateResource(c, s, f)
        \/ \E s \in Specs : EditSpec(c, s)
        \/ \E f \in Foreign : DeleteResource(c, f)
  BY DEF UserStep, User
<1>2. PICK o \in Object : Store(c, o) /\ Own(o) /\ Held(o)
  <2>1. Specs \subseteq SpecType /\ Foreign \subseteq BOOLEAN
    BY KubeAssumption
  <2>2. api[c] \in Object /\ Own(api[c]) /\ Held(api[c]) /\ created + 1 \in Nat
    BY KubeAssumption DEF Inv, TypeOK, KubeTypeOK, Ownership
  <2>3. CASE \E s \in Specs, f \in Foreign : CreateResource(c, s, f)
    <3>1. PICK s \in Specs, f \in Foreign : CreateResource(c, s, f)
      BY <2>3
    <3>2. DEFINE o == [Absent EXCEPT !.uid = created + 1, !.foreign = f, !.spec = s]
    <3>3. o \in Object
      <4>1. f \in BOOLEAN /\ s \in SpecType
        BY <2>1
      <4>2. QED
        BY <2>2, <4>1, AbsentType DEF Object
    <3>4. o.status.id = 0 /\ ~o.deleting
      BY DEF Absent, NoStatus
    <3>5. Own(o) /\ Held(o)
      BY <3>4 DEF Own, Held
    <3>6. QED
      BY <3>1, <3>3, <3>5 DEF CreateResource
  <2>4. CASE \E s \in Specs : EditSpec(c, s)
    <3>1. PICK s \in Specs : EditSpec(c, s)
      BY <2>4
    <3>2. DEFINE o == [api[c] EXCEPT !.spec = s]
    <3>3. /\ o \in Object /\ o.uid = api[c].uid /\ o.status = api[c].status
          /\ Held(o)
      BY <2>1, <2>2 DEF Object, Held
    <3>4. Own(o)
      BY <2>2, <3>3 DEF Own
    <3>5. QED
      BY <3>1, <3>3, <3>4 DEF EditSpec
  <2>5. CASE \E f \in Foreign : DeleteResource(c, f)
    <3>1. PICK f \in Foreign : DeleteResource(c, f)
      BY <2>5
    <3>2. DEFINE o == [api[c] EXCEPT !.deleting = TRUE, !.foreign = @ \/ f]
    <3>3. o \in Object /\ o.uid = api[c].uid /\ o.status = api[c].status
      BY <2>1, <2>2 DEF Object
    <3>4. Own(o) /\ Own(Absent) /\ Held(Absent)
      BY <2>2, <3>3 DEF Own, Held, Absent, NoStatus
    <3>5. Collected(o) \in Object /\ Own(Collected(o)) /\ Held(Collected(o))
      BY <3>3, <3>4, AbsentType DEF Collected, Held
    <3>6. QED
      BY <3>1, <3>5 DEF DeleteResource
  <2>6. QED
    BY <1>1, <2>3, <2>4, <2>5
<1>3. UNCHANGED cache
  BY <1>1 DEF CreateResource, EditSpec, DeleteResource, UserChange
<1>4. QED
  BY <1>2, <1>3, OthersStore DEF UserStep

\* The end of another finalizer.
LEMMA FinalizeOwn ==
  ASSUME Inv, NEW c \in Resources, Finalize(c)
  PROVE  Ownership'
<1> DEFINE o == [api[c] EXCEPT !.foreign = FALSE]
<1>1. api[c] \in Object /\ Own(api[c])
  BY DEF Inv, TypeOK, KubeTypeOK, Ownership
<1>2. o \in Object /\ o.uid = api[c].uid /\ o.status = api[c].status
  BY <1>1 DEF Object
<1>3. Own(o) /\ Own(Absent) /\ Held(Absent)
  BY <1>1, <1>2 DEF Own, Held, Absent, NoStatus
<1>4. Collected(o) \in Object /\ Own(Collected(o)) /\ Held(Collected(o))
  BY <1>2, <1>3, AbsentType DEF Collected, Held
<1>5. QED
  BY <1>4, OthersStore DEF Finalize, RemoveForeignFinalizer

\* The watch, the resync and the timers.
LEMMA KubeStepOwn ==
  ASSUME Inv, NEW c \in Resources, CacheSyncs(c) \/ Resyncs(c) \/ Fires(c)
  PROVE  Ownership'
<1>1. UNCHANGED <<worker, iam, api>>
  BY DEF CacheSyncs, Resyncs, Fires, CacheSync, Resync, TimerFires
<1>2. WorkerOwn'
  BY <1>1 DEF worker, Inv, Ownership, WorkerOwn, Own, Exists
<1>3. StoredOwn'
  <2>1. CASE UNCHANGED <<cache, current>>
    BY <1>1, <2>1, StoredSame DEF Keeps
  <2>2. CASE /\ cache' = [cache EXCEPT ![c] = api[c]]
             /\ current' = [current EXCEPT ![c] = TRUE]
    <3>1. cache \in [Resources -> Object] /\ current \in [Resources -> BOOLEAN]
      BY DEF Inv, TypeOK, KubeTypeOK
    <3>2. QED
      BY <1>1, <2>2, <3>1 DEF Inv, Ownership, StoredOwn, Own
  <2>3. QED
    BY <2>1, <2>2 DEF CacheSyncs, Resyncs, Fires, CacheSync, Resync, TimerFires
<1>4. QED
  BY <1>2, <1>3, OwnershipParts

\* The start of a reconcile.
LEMMA GetOwn ==
  ASSUME Inv, NEW c \in Resources,
         GetNotFound(c) \/ GetInstance(c) \/ GetError(c)
  PROVE  Ownership'
<1>1. UNCHANGED <<api, cache, current, iam>>
  BY DEF GetNotFound, GetInstance, GetError
<1>2. StoredOwn'
  BY <1>1, StoredSame DEF Keeps
<1>3. CASE GetInstance(c)
  <2>1. pc = "idle" /\ pc' \in {"init", "check"} /\ inst' = cache[c] /\ key' = c
        /\ fresh' = current[c] /\ made' = made /\ Exists(cache[c])
    BY <1>3 DEF GetInstance
  <2>2. made = 0
    BY <2>1 DEF Inv, Ownership
  <2>3. WorkerOwn'
    BY <1>1, <2>1, <2>2 DEF WorkerOwn, Own, Same, Inv, Ownership, Exists
  <2>4. QED
    BY <1>2, <2>3, OwnershipParts
<1>4. CASE GetNotFound(c) \/ GetError(c)
  <2>1. WorkerOwn'
    BY <1>1, <1>4 DEF GetNotFound, GetError, worker, WorkerOwn, Own, Inv, Ownership, Exists
  <2>2. QED
    BY <1>2, <2>1, OwnershipParts
<1>5. QED
  BY <1>3, <1>4

\* All of these, and crashes.
LEMMA EnvironmentOwn == Inv /\ Environment => Ownership'
  BY UserStepOwn, RestartOwn, GetOwn, FinalizeOwn, KubeStepOwn DEF Environment, Crash

\* A change through the IAM console.
LEMMA ConsoleOwn ==
  ASSUME Inv, NEW i \in Ids, NEW def, NEW covered,
         ConsoleCreates(i, def) \/ ConsoleChanges(i, def, covered) \/ ConsoleDeletes(i)
  PROVE  Ownership'
<1>1. UNCHANGED <<api, cache, current, pc, key, inst, fresh, made>>
  BY DEF ConsoleCreates, ConsoleChanges, ConsoleDeletes, Console
<1>2. CASE Keeps
  <2>1. StoredOwn'
    BY <1>1, <1>2, StoredSame
  <2>2. WorkerOwn'
    BY <1>1, <1>2, HeldIds DEF Inv, Ownership, WorkerOwn, Own, Keeps, Exists
  <2>3. QED
    BY <2>1, <2>2, OwnershipParts
<1>3. CASE NewId(i) /\ iam' = NewEntity(i, 0, def)
  <2>1. StoredOwn'
    BY <1>1, <1>3, NewIdOwn DEF Inv, Ownership, StoredOwn
  <2>2. Own(inst)' /\ i # made /\ \A j \in Ids : j # i => iam'[j] = iam[j]
    BY <1>1, <1>3, NewIdOwn DEF Inv, Ownership
  <2>3. WorkerOwn'
    BY <1>1, <2>2, HeldIds DEF Inv, Ownership, WorkerOwn, Exists
  <2>4. QED
    BY <2>1, <2>3, OwnershipParts
<1>4. QED
  BY <1>2, <1>3, DeletedKeeps, RedefinedKeeps
     DEF ConsoleCreates, ConsoleChanges, ConsoleDeletes

\* Nothing happens.
LEMMA StutterOwn == Inv /\ UNCHANGED vars => Ownership'
  BY DEF vars, kube, worker, Inv, Ownership, Own, Exists

-----------------------------------------------------------------------------
(* Consequences *)

\* In particular the stored copies name only own entities.
LEMMA RecordedOwn == Ownership => RecordedEntityIsOwn
  BY DEF Ownership, Own, RecordedEntityIsOwn

\* A step touches own entities only, or is somebody else's.
Touches == changes' = changes =>
             \A i \in Ids : iam[i].live /\ iam'[i] # iam[i] =>
                 inst.uid # 0 /\ iam[i].owner = inst.uid

\* The entities a step of Reconcile may touch: the one its copy names and the
\* one it made.
LEMMA TouchesHeld ==
  ASSUME Inv, pc # "idle",
         \A i \in Ids : iam[i].live /\ iam'[i] # iam[i] => i \in {inst.status.id, made}
  PROVE  Touches
  BY HeldIds DEF Touches, Inv, Ownership, Own, Exists

\* A step that changes one entity, or none, or adds one.
LEMMA TouchesOne ==
  ASSUME Inv, pc # "idle",
         \/ IamUnchanged
         \/ \E i \in {inst.status.id, made} :
               iam' = Deleted(i) \/ \E def : iam' = Redefined(i, def)
         \/ \E i \in Ids : \E owner, def : NewId(i) /\ iam' = NewEntity(i, owner, def)
  PROVE  Touches
<1>1. iam \in [Ids -> Entity]
  BY HeldIds DEF Inv
<1>2. \A i \in Ids : iam[i].live /\ iam'[i] # iam[i] => i \in {inst.status.id, made}
  BY <1>1 DEF IamUnchanged, Deleted, Redefined, NewEntity, NewId, Unused
<1>3. QED
  BY <1>2, TouchesHeld

\* The shared steps, and those a controller fills in.
LEMMA CommonTouches ==
  ASSUME Inv, NEW wellFormed, NEW ready, NEW s, CommonStep(wellFormed, ready, s)
  PROVE  Touches
<1>1. pc # "idle"
  BY CommonBusy
<1>2. IamUnchanged \/ DeleteEntity \/ Compensate
  BY DEF CommonStep, SetPending, Malformed, GetAccountInfo, DropFinalizer,
         AddFinalizer, ReportFailed, ClearStatus, RemoveFinalizer, ClearId
<1>3. QED
  BY <1>1, <1>2, TouchesOne DEF DeleteEntity, Compensate

\* The update touches the entity of the status.
LEMMA UpdateTouches ==
  ASSUME Inv, NEW def, NEW next, UpdateEntity(def, next)
  PROVE  Touches
  BY TouchesOne DEF UpdateEntity

\* The creation touches none.
LEMMA CreateTouches ==
  ASSUME Inv, NEW def, NEW next, CreateEntity(def, next)
  PROVE  Touches
  BY TouchesOne DEF CreateEntity

\* The environment of the operator touches nothing, but for the console.
LEMMA EnvironmentTouches == Environment => Touches
<1> SUFFICES ASSUME Environment PROVE IamUnchanged
  BY DEF Touches, IamUnchanged
<1>1. QED
  BY DEF Environment, UserStep, Crash, GetNotFound, GetInstance, GetError,
         Finalize, CacheSyncs, Resyncs, Fires, IamUnchanged

\* The console's changes are counted.
LEMMA ConsoleTouches ==
  ASSUME Inv, NEW i, NEW def, NEW covered,
         ConsoleCreates(i, def) \/ ConsoleChanges(i, def, covered) \/ ConsoleDeletes(i)
  PROVE  Touches
  BY KubeAssumption
     DEF Touches, ConsoleCreates, ConsoleChanges, ConsoleDeletes, Console,
         Inv, TypeOK, KubeTypeOK
=============================================================================
