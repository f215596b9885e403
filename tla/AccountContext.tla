--------------------------- MODULE AccountContext ---------------------------
(***************************************************************************)
(* GetIAMAccountInfo: which api-key and which account a resource is        *)
(* reconciled with.  The secret with the key and the config map with the   *)
(* organization are looked for in turn, in the same way: in the namespace  *)
(* of the resource; if that has none, in the management namespace, which   *)
(* the operator's installation config map names, under a name prefixed     *)
(* with the resource's namespace; and without installation config map, in  *)
(* namespace "default".  The account is the one of the organization.       *)
(*                                                                         *)
(* Each read is a step: administrators set accounts up, and change them,   *)
(* meanwhile.  What is read is the client's view of the cluster.           *)
(***************************************************************************)
EXTENDS Naturals, FiniteSets

CONSTANTS
    Namespace,    \* of the resource
    Default,      \* the namespace "default"
    Managements,  \* what the installation config map may say
    Keys,         \* what a secret may hold
    Orgs,         \* what a config map may name
    Sees,         \* the organizations that each key finds
    Missing,      \* not found
    Faults,       \* the reads that may fail otherwise
    MaxChanges    \* bound: changes during one lookup

\* Where an object is: its namespace, and whether its name has the prefix.
Own == <<Namespace, FALSE>>

Place(management) == <<management, management # Default>>

Places == {Own, Place(Default)} \cup {Place(m) : m \in Managements}

\* What a client sees of the cluster.
View == [secret : [Places -> Keys \cup {Missing}],
         config : [Places -> Orgs \cup {Missing}],
         install : Managements \cup {Missing}]

ASSUME AccountAssumption ==
    /\ Missing \notin Keys \cup Orgs \cup Managements
    /\ Sees \in [Keys -> SUBSET Orgs]
    /\ Faults \subseteq {"own", "install", "managed", "account"}
    /\ MaxChanges \in Nat

VARIABLES
    view,     \* the cluster
    pc,       \* the next read, or how the lookup returned
    what,     \* "secret" or "config": what is being looked for
    at,       \* the management namespace, for an object that is not in Own
    got,      \* what was found
    failures, \* the reads that failed in this lookup
    past      \* what the cluster has been since the lookup began

lookup == <<pc, what, at, got, failures>>
vars == <<view, lookup, past>>

Nothing == [secret |-> Missing, config |-> Missing]

Init ==
    /\ view \in View
    /\ pc = "idle" /\ what = "secret" /\ at = Default
    /\ got = Nothing /\ failures = {} /\ past = {}

-----------------------------------------------------------------------------
Fault(read) ==
    /\ read \in Faults
    /\ failures' = failures \cup {read}

Fail ==
    /\ pc' = "failed"
    /\ UNCHANGED <<what, at, got>>

\* The object is there: on to the config map, or to the account.
Take(place) ==
    /\ view[what][place] # Missing
    /\ got' = [got EXCEPT ![what] = view[what][place]]
    /\ what' = "config"
    /\ pc' = IF what = "secret" THEN "own" ELSE "account"
    /\ at' = Default
    /\ UNCHANGED failures

\* GetIAMAccountInfo is called.
Call ==
    /\ pc = "idle"
    /\ pc' = "own"
    /\ past' = {view}
    /\ UNCHANGED <<view, what, at, got, failures>>

\* Mutant of GetOwn: whatever the error, the management namespace is tried.
GetOwnAnyError ==
    /\ pc = "own"
    /\ \/ Take(Own)
       \/ /\ \/ view[what][Own] = Missing /\ UNCHANGED failures
             \/ Fault("own")
          /\ pc' = "install"
          /\ UNCHANGED <<what, at, got>>
    /\ UNCHANGED <<view, past>>

\* Only when it is not found is the object looked for elsewhere.
GetOwn ==
    /\ pc = "own"
    /\ \/ Take(Own)
       \/ /\ view[what][Own] = Missing
          /\ pc' = "install"
          /\ UNCHANGED <<what, at, got, failures>>
       \/ Fault("own") /\ Fail
    /\ UNCHANGED <<view, past>>

\* Mutant of getDefaultNamespace: without config map there is no namespace.
getDefaultNamespaceOrFail ==
    /\ pc = "install"
    /\ \/ /\ view.install # Missing
          /\ at' = view.install /\ pc' = "managed"
          /\ UNCHANGED <<what, got, failures>>
       \/ /\ \/ view.install = Missing /\ UNCHANGED failures
             \/ Fault("install")
          /\ Fail
    /\ UNCHANGED <<view, past>>

\* Every error is taken for "there is no management namespace".
getDefaultNamespace ==
    /\ pc = "install"
    /\ \/ /\ at' = IF view.install = Missing THEN Default ELSE view.install
          /\ UNCHANGED failures
       \/ at' = Default /\ Fault("install")
    /\ pc' = "managed"
    /\ UNCHANGED <<what, got, view, past>>

GetManaged ==
    /\ pc = "managed"
    /\ \/ Take(Place(at))
       \/ view[what][Place(at)] = Missing /\ Fail /\ UNCHANGED failures
       \/ Fault("managed") /\ Fail
    /\ UNCHANGED <<view, past>>

\* A session with the key finds the organization, and the account by that.
FindAccount ==
    /\ pc = "account"
    /\ \/ /\ got.config \in Sees[got.secret]
          /\ pc' = "found"
          /\ UNCHANGED <<what, at, got, failures>>
       \/ got.config \notin Sees[got.secret] /\ Fail /\ UNCHANGED failures
       \/ Fault("account") /\ Fail
    /\ UNCHANGED <<view, past>>

\* The controller goes on, with the account or the error.
Return ==
    /\ pc \in {"found", "failed"}
    /\ pc' = "idle" /\ what' = "secret" /\ at' = Default
    /\ got' = Nothing /\ failures' = {} /\ past' = {}
    /\ UNCHANGED view

\* An administrator creates, changes or deletes one of the objects.
Administrator ==
    /\ Cardinality(past) <= MaxChanges
    /\ \/ \E p \in Places :
             \/ \E k \in Keys \cup {Missing} : view' = [view EXCEPT !.secret[p] = k]
             \/ \E o \in Orgs \cup {Missing} : view' = [view EXCEPT !.config[p] = o]
       \/ \E m \in Managements \cup {Missing} : view' = [view EXCEPT !.install = m]
    /\ view' # view
    /\ past' = IF pc = "idle" THEN past ELSE past \cup {view'}
    /\ UNCHANGED lookup

Lookup ==
    \/ Call \/ GetOwn \/ getDefaultNamespace \/ GetManaged \/ FindAccount \/ Return

Next == Lookup \/ Administrator

Spec == Init /\ [][Next]_vars

-----------------------------------------------------------------------------
(* Properties *)

\* README: what is in effect for the namespace, or Missing.
InEffect(v, w) ==
    IF v[w][Own] # Missing THEN v[w][Own]
    ELSE v[w][Place(IF v.install = Missing THEN Default ELSE v.install)]

\* The key is looked for before the organization: they may be those of two
\* views, but only if the management namespace changed between.
Together(v, w) == v.install = w.install => v = w

\* README: a resource is reconciled with a key and an organization that were in
\* effect for its namespace while they were looked up, and at the same moment
\* unless the management namespace was what was changed.  A read that fails is
\* to make the lookup fail: it never brings in an account from elsewhere.
ContextWasInEffect ==
    pc = "found" =>
        \E v, w \in past :
            /\ Together(v, w)
            /\ got.secret = InEffect(v, "secret")
            /\ got.config = InEffect(w, "config")

\* The code: so it is when at most one object is changed during a lookup, and
\* the installation config map could be read each time it was needed.  It never
\* uses the account of the management namespace, or of "default", because the
\* namespace's own, or its administrator's, could not be read.
ContextWasInEffectIfInstallRead ==
    "install" \notin failures => ContextWasInEffect

\* A lookup in which no call fails, and at most one object changes, returns an
\* error only if the account context was incomplete or wrong at the time: the
\* order of reads makes up no error.
FailsForAReason ==
    pc = "failed" /\ failures = {} =>
        \E v, w \in past :
            /\ Together(v, w)
            /\ \/ InEffect(v, "secret") = Missing
               \/ InEffect(w, "config") = Missing
               \/ InEffect(w, "config") \notin Sees[InEffect(v, "secret")]
=============================================================================
