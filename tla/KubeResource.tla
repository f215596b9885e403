---------------------------- MODULE KubeResource ----------------------------
(***************************************************************************)
(* What one controller of the operator sees of Kubernetes: the custom      *)
(* resources of its kind on the API server, the informer cache its client  *)
(* reads, the work queue that feeds its only worker, and the users who     *)
(* create, edit and delete resources.  Modelled from the way src/ uses     *)
(* controller-runtime and the API server.                                  *)
(*                                                                         *)
(*   - Every kind has a status subresource: Update ignores the status, and *)
(*     Status().Update ignores everything else.                            *)
(*   - Writes carry a resourceVersion and are refused when it is not the   *)
(*     current one.  Versions are not counted: a flag says whether a copy  *)
(*     (the cache's, the worker's) is of the current version.              *)
(*   - A write that changes nothing makes no new version.                  *)
(*   - An object marked for deletion goes when its last finalizer does.    *)
(*   - The cache jumps to the current version some time after a write and  *)
(*     then queues the key; the periodic resync queues it without a write. *)
(***************************************************************************)
EXTENDS Naturals, FiniteSets

CONSTANTS
    Resources,      \* namespaced names of the resources of this kind
    SpecType,       \* what a spec may be
    Specs,          \* the specs users submit
    NoSpec,         \* "nothing applied yet" in a status
    Ids,            \* ids of IAM entities, positive numbers (0 is the empty id)
    Foreign,        \* {FALSE}, or BOOLEAN when other finalizers are in use
    MaxCreations,   \* bound: resources created
    MaxChanges      \* bound: edits and deletions, and changes made in IAM

ASSUME KubeAssumption ==
    /\ Specs \subseteq SpecType
    /\ NoSpec \in SpecType
    /\ Ids \subseteq Nat \ {0}
    /\ Foreign \subseteq BOOLEAN
    /\ MaxCreations \in Nat /\ MaxChanges \in Nat

VARIABLES
    api,      \* the object stored under each name, or Absent
    cache,    \* the informer cache's copy of it
    current,  \* is the cached copy of the current version?
    queue,    \* keys in the controller's work queue
    timers,   \* keys to be queued again later (RequeueAfter, rate limiting)
    created,  \* resources created so far; a resource's uid is its number
    changes   \* changes made by users and through the IAM console

kube == <<api, cache, current, queue, timers, created, changes>>

States == {"", "Pending", "Failed", "Online"}

NoStatus == [state |-> "", id |-> 0, spec |-> NoSpec]

Absent == [uid |-> 0, deleting |-> FALSE, own |-> FALSE, foreign |-> FALSE,
           spec |-> NoSpec, status |-> NoStatus]

\* An object: finalizers are this controller's own one and anybody else's.
\* status.id is the id of the IAM entity, 0 when the field is empty, and
\* status.spec what the status says of the spec that was last applied.
Status == [state : States, id : Ids \cup {0}, spec : SpecType]

Object ==
    [uid : Nat, deleting : BOOLEAN, own : BOOLEAN, foreign : BOOLEAN,
     spec : SpecType, status : Status]

Exists(o) == o.uid # 0

KubeTypeOK ==
    /\ api \in [Resources -> Object]
    /\ cache \in [Resources -> Object]
    /\ current \in [Resources -> BOOLEAN]
    /\ queue \subseteq Resources
    /\ timers \subseteq Resources
    /\ created \in 0..MaxCreations
    /\ changes \in 0..MaxChanges

KubeInit ==
    /\ api = [c \in Resources |-> Absent]
    /\ cache = [c \in Resources |-> Absent]
    /\ current = [c \in Resources |-> TRUE]
    /\ queue = {}
    /\ timers = {}
    /\ created = 0
    /\ changes = 0

-----------------------------------------------------------------------------
\* The API server stores o under c; the cache is behind if that is a change.
Store(c, o) ==
    /\ api' = [api EXCEPT ![c] = o]
    /\ current' = [current EXCEPT ![c] = @ /\ o = api[c]]

\* An object being deleted is removed with its last finalizer.
Collected(o) ==
    IF o.deleting /\ ~o.own /\ ~o.foreign THEN Absent ELSE o

UserChange ==
    /\ changes < MaxChanges
    /\ changes' = changes + 1
    /\ UNCHANGED <<cache, queue, timers, created>>

CreateResource(c, spec, foreign) ==
    /\ ~Exists(api[c])
    /\ created < MaxCreations
    /\ created' = created + 1
    /\ Store(c, [Absent EXCEPT !.uid = created + 1, !.foreign = foreign,
                               !.spec = spec])
    /\ UNCHANGED <<cache, queue, timers, changes>>

EditSpec(c, spec) ==
    /\ Exists(api[c])
    /\ api[c].spec # spec
    /\ Store(c, [api[c] EXCEPT !.spec = spec])
    /\ UserChange

\* Foreground deletion adds a finalizer of the garbage collector.
DeleteResource(c, foreground) ==
    /\ Exists(api[c])
    /\ ~api[c].deleting
    /\ Store(c, Collected([api[c] EXCEPT !.deleting = TRUE,
                                         !.foreign = @ \/ foreground]))
    /\ UserChange

RemoveForeignFinalizer(c) ==
    /\ api[c].deleting
    /\ api[c].foreign
    /\ Store(c, Collected([api[c] EXCEPT !.foreign = FALSE]))
    /\ UNCHANGED <<cache, queue, timers, created, changes>>

User ==
    \E c \in Resources :
        \/ \E s \in Specs, f \in Foreign : CreateResource(c, s, f)
        \/ \E s \in Specs : EditSpec(c, s)
        \/ \E f \in Foreign : DeleteResource(c, f)

-----------------------------------------------------------------------------
\* The watch delivers the newest version, and its event handler queues it.
CacheSync(c) ==
    /\ ~current[c]
    /\ cache' = [cache EXCEPT ![c] = api[c]]
    /\ current' = [current EXCEPT ![c] = TRUE]
    /\ queue' = queue \cup {c}
    /\ UNCHANGED <<api, timers, created, changes>>

\* The informer's periodic resync queues every cached object.
Resync(c) ==
    /\ Exists(cache[c])
    /\ c \notin queue
    /\ queue' = queue \cup {c}
    /\ UNCHANGED <<api, cache, current, timers, created, changes>>

TimerFires(c) ==
    /\ c \in timers
    /\ timers' = timers \ {c}
    /\ queue' = queue \cup {c}
    /\ UNCHANGED <<api, cache, current, created, changes>>

\* A new process lists every object before its worker starts.
Relist ==
    /\ cache' = api
    /\ current' = [c \in Resources |-> TRUE]
    /\ queue' = {c \in Resources : Exists(api[c])}
    /\ timers' = {}
    /\ UNCHANGED <<api, created, changes>>
=============================================================================
