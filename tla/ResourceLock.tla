----------------------------- MODULE ResourceLock -----------------------------
(***************************************************************************)
(* The lease under which EnsureLoadBalancer, UpdateLoadBalancer and        *)
(* EnsureLoadBalancerDeleted change Azure (pkg/provider/azure_lock.go).    *)
(* Other components, such as the resource provider of AKS, take the same   *)
(* lease; they are known only from what the code expects of them: they     *)
(* respect a lease that has not expired, and when they release it they     *)
(* leave their name in an annotation, by which the controller manager      *)
(* knows that its caches are out of date.                                  *)
(***************************************************************************)
EXTENDS Naturals

CONSTANTS Ccm,          \* AzureResourceLockHolderNameCloudControllerManager
          Others,       \* the other components that take the lease
          NoHolder,
          MaxTakes,     \* bound on the times others take the lease
          MaxFaults     \* bound on failing requests, crashes and removals

ASSUME LockAssumption ==
    /\ Ccm \notin Others /\ NoHolder \notin Others /\ Ccm # NoHolder
    /\ MaxTakes \in Nat /\ MaxFaults \in Nat

VARIABLES
    exists, holder, prev,   \* the Lease: HolderIdentity and the annotation
    expired,                \* RenewTime + LeaseDurationSeconds is over
    pc, pending, failed,    \* the service call: step, to be retried, error
    current,                \* the copy of the lease that was read last is
                            \* still the stored one (resourceVersion)
    caches,                 \* lbCache and the caches of the VMSet
    working,                \* the others that change Azure now
    overrun,                \* history: those at work whose lease is over
    lapsed,                 \* history: a lease of others was not released
    takes, faults           \* what is left of the bounds

lease  == <<exists, holder, prev, expired>>
call   == <<pc, pending, failed>>
bounds == <<takes, faults>>
vars   == <<lease, call, current, caches, working, overrun, lapsed, bounds>>

Holders == Others \cup {Ccm, NoHolder}

\* The call is between Lock and Unlock, or in Unlock.
Locked == pc \in {"working", "unlock", "release"}

\* A call at work is one the service controller waits for.
TypeOK ==
    /\ exists \in BOOLEAN /\ expired \in BOOLEAN
    /\ holder \in Holders /\ prev \in Holders
    /\ pc \in {"idle", "create", "acquire", "update",
               "working", "unlock", "release"}
    /\ pending \in BOOLEAN /\ failed \in BOOLEAN
    /\ pc # "idle" => pending
    /\ current \in BOOLEAN
    /\ caches \in {"empty", "fresh", "stale"}
    /\ working \in SUBSET Others
    /\ overrun \in SUBSET (Others \cup {Ccm})
    /\ lapsed \in BOOLEAN
    /\ takes \in Nat /\ faults \in Nat

Init ==
    /\ exists \in BOOLEAN
    /\ holder = NoHolder /\ prev = NoHolder
    /\ expired = FALSE
    /\ pc = "idle" /\ pending = FALSE /\ failed = FALSE
    /\ current = FALSE
    /\ caches = "empty"
    /\ working = {} /\ overrun = {} /\ lapsed = FALSE
    /\ takes = MaxTakes /\ faults = MaxFaults

-------------------------------------------------------------------------------
(* Lock. *)

hasExpired == holder = NoHolder \/ expired

\* The call ends, with an error or without; the service controller retries a
\* call that failed.
Return(ok) ==
    /\ pc' = "idle"
    /\ pending' = ~ok
    /\ failed' = FALSE
    /\ overrun' = overrun \ {Ccm}

NewCall ==
    /\ ~pending
    /\ pending' = TRUE
    /\ UNCHANGED <<lease, pc, failed, current, caches, working, overrun, lapsed,
                   bounds>>

LookForLease ==
    /\ pc = "idle" /\ pending
    /\ pc' = IF exists THEN "acquire" ELSE "create"
    /\ UNCHANGED <<lease, pending, failed, current, caches, working, overrun,
                   lapsed, bounds>>

\* A new lease has no holder and no annotations.
NewLease ==
    /\ exists' = TRUE
    /\ holder' = NoHolder /\ prev' = NoHolder
    /\ expired' = FALSE

createLease ==
    /\ pc = "create"
    /\ \/ ~exists /\ NewLease /\ pc' = "acquire"
          /\ UNCHANGED <<pending, failed, overrun>>
       \/ exists /\ Return(FALSE) /\ UNCHANGED lease
    /\ UNCHANGED <<current, caches, working, lapsed, bounds>>

\* Mutant: the expiry of another's lease is not looked at.
BugMayAcquire == exists /\ (holder = NoHolder \/ holder = Ccm)

\* A lease that a failed call of the controller manager left behind is taken
\* again.
MayAcquire == exists /\ (hasExpired \/ holder = Ccm)

acquireLease ==
    /\ pc = "acquire"
    /\ \/ /\ MayAcquire
          /\ current' = TRUE
          /\ pc' = "update"
          /\ UNCHANGED <<pending, failed, overrun>>
       \/ ~MayAcquire /\ Return(FALSE) /\ UNCHANGED current
    /\ UNCHANGED <<lease, caches, working, lapsed, bounds>>

\* Mutant: the API server does not compare the resourceVersion.
BugAccepted == exists

\* The API server takes an update of the version it has.
Accepted == exists /\ current

\* The lease is the controller manager's now.
Taken ==
    /\ holder' = Ccm
    /\ expired' = FALSE
    /\ current' = FALSE
    /\ UNCHANGED <<exists, prev>>

\* Mutant: the caches are kept.
BugForeignBefore == FALSE

\* The annotation names somebody else.
ForeignBefore == prev # NoHolder /\ prev # Ccm

updateLease ==
    /\ pc = "update"
    /\ \/ /\ Accepted /\ Taken
          /\ caches' = IF ForeignBefore THEN "empty" ELSE caches
          /\ pc' = "working"
          /\ UNCHANGED <<pending, failed, overrun>>
       \/ ~Accepted /\ Return(FALSE) /\ UNCHANGED <<lease, current, caches>>
    /\ UNCHANGED <<working, lapsed, bounds>>

-------------------------------------------------------------------------------
(* The reconciliation, and Unlock. *)

\* Reads fill the caches, those of other parts of the program too, which do
\* not take the lease.
ReadCaches ==
    /\ caches = "empty"
    /\ caches' = "fresh"
    /\ UNCHANGED <<lease, call, current, working, overrun, lapsed, bounds>>

Reconciled(ok) ==
    /\ pc' = "unlock"
    /\ failed' = ~ok
    /\ UNCHANGED pending

\* The reconciliation itself is the subject of MultiSLB.
reconcile ==
    /\ pc = "working"
    /\ \/ Reconciled(TRUE) /\ UNCHANGED bounds
       \/ /\ faults > 0 /\ faults' = faults - 1
          /\ Reconciled(FALSE) /\ UNCHANGED takes
    /\ UNCHANGED <<lease, current, caches, working, overrun, lapsed>>

\* Another's lease, or one that has expired, is left alone.
releaseLease ==
    /\ pc = "unlock"
    /\ \/ /\ exists /\ holder = Ccm /\ ~hasExpired
          /\ current' = TRUE
          /\ pc' = "release"
          /\ UNCHANGED <<pending, failed, overrun>>
       \/ /\ ~(exists /\ holder = Ccm /\ ~hasExpired)
          /\ Return(~failed) /\ UNCHANGED current
    /\ UNCHANGED <<lease, caches, working, lapsed, bounds>>

Freed ==
    /\ holder' = NoHolder
    /\ prev' = Ccm
    /\ current' = FALSE
    /\ UNCHANGED <<exists, expired>>

updateReleased ==
    /\ pc = "release"
    /\ \/ Accepted /\ Freed /\ Return(~failed)
       \/ ~Accepted /\ Return(FALSE) /\ UNCHANGED <<lease, current>>
    /\ UNCHANGED <<caches, working, lapsed, bounds>>

\* A request to the API server fails, and may have been carried out.
RequestFails ==
    /\ faults > 0 /\ faults' = faults - 1
    /\ pc \notin {"idle", "working"}
    /\ \/ UNCHANGED <<lease, current>>
       \/ pc = "create" /\ ~exists /\ NewLease /\ UNCHANGED current
       \/ pc = "update" /\ Accepted /\ Taken
       \/ pc = "release" /\ Accepted /\ Freed
    /\ Return(FALSE)
    /\ UNCHANGED <<caches, working, lapsed, takes>>

\* The process ends at any step; its successor starts with empty caches and
\* with the services of the cluster to reconcile.
Restart ==
    /\ faults > 0 /\ faults' = faults - 1
    /\ Return(FALSE)
    /\ caches' = "empty"
    /\ current' = FALSE
    /\ UNCHANGED <<lease, working, lapsed, takes>>

-------------------------------------------------------------------------------
(* The others, time and the users. *)

OtherTakes(o) ==
    /\ takes > 0 /\ takes' = takes - 1
    /\ o \notin working
    /\ exists /\ (hasExpired \/ holder = o)
    /\ holder' = o /\ expired' = FALSE
    /\ current' = FALSE
    /\ working' = working \cup {o}
    /\ UNCHANGED <<exists, prev, call, caches, overrun, lapsed, faults>>

OtherWrites(o) ==
    /\ o \in working
    /\ caches = "fresh" /\ caches' = "stale"
    /\ UNCHANGED <<lease, call, current, working, overrun, lapsed, bounds>>

OtherReleases(o) ==
    /\ o \in working
    /\ working' = working \ {o} /\ overrun' = overrun \ {o}
    /\ \/ /\ exists /\ holder = o /\ ~hasExpired
          /\ holder' = NoHolder /\ prev' = o
          /\ current' = FALSE
          /\ UNCHANGED <<exists, expired>>
       \/ /\ ~(exists /\ holder = o /\ ~hasExpired)
          /\ UNCHANGED <<lease, current>>
    /\ UNCHANGED <<call, caches, lapsed, bounds>>

\* Another component ends without a word.
OtherDies(o) ==
    /\ o \in working
    /\ working' = working \ {o} /\ overrun' = overrun \ {o}
    /\ UNCHANGED <<lease, call, current, caches, lapsed, bounds>>

AtWork == working \cup (IF Locked THEN {Ccm} ELSE {})

\* The holder does not renew its lease.
Expire ==
    /\ exists /\ ~hasExpired
    /\ expired' = TRUE
    /\ overrun' = overrun \cup ({holder} \cap AtWork)
    /\ lapsed' = (lapsed \/ holder \in Others)
    /\ UNCHANGED <<exists, holder, prev, call, current, caches, working, bounds>>

\* A user removes the lease.
RemoveLease ==
    /\ faults > 0 /\ faults' = faults - 1
    /\ exists /\ exists' = FALSE
    /\ holder' = NoHolder /\ prev' = NoHolder /\ expired' = FALSE
    /\ current' = FALSE
    /\ overrun' = overrun \cup AtWork
    /\ lapsed' = TRUE
    /\ UNCHANGED <<call, caches, working, takes>>

CcmStep ==
    \/ LookForLease
    \/ createLease
    \/ acquireLease
    \/ updateLease
    \/ reconcile
    \/ releaseLease
    \/ updateReleased

Next ==
    \/ NewCall
    \/ CcmStep
    \/ ReadCaches
    \/ RequestFails
    \/ Restart
    \/ \E o \in Others :
          OtherTakes(o) \/ OtherWrites(o) \/ OtherReleases(o) \/ OtherDies(o)
    \/ Expire
    \/ RemoveLease

Spec == Init /\ [][Next]_vars

\* The service controller retries, requests are answered and time passes.
FairSpec == Spec /\ WF_vars(CcmStep) /\ WF_vars(Expire)

-------------------------------------------------------------------------------
(* Properties. *)

\* An update that will be accepted takes nothing from a holder in its time.
CopySound ==
    current =>
        /\ pc = "update" => hasExpired \/ holder = Ccm
        /\ pc = "release" => holder = Ccm

\* Who is at work in its time holds the lease ...
HoldersWork ==
    /\ Locked /\ Ccm \notin overrun => exists /\ holder = Ccm /\ ~expired
    /\ \A o \in working \ overrun : exists /\ holder = o /\ ~expired
    /\ overrun \subseteq AtWork

\* ... and what others wrote is known from the holder or the annotation.
WritesKnown ==
    /\ ~exists => holder = NoHolder /\ prev = NoHolder
    /\ expired /\ holder \in Others => lapsed
    /\ ~lapsed =>
          /\ overrun \subseteq {Ccm}
          /\ caches = "stale" => holder \in Others \/ ForeignBefore
          /\ Locked /\ holder = Ccm => caches # "stale"

LockInv == CopySound /\ HoldersWork /\ WritesKnown

\* Two components change Azure at the same time only if one of them took
\* longer than its lease lasts (acquireLease, releaseLease).
MutualExclusion ==
    \A p, q \in AtWork : p # q => p \in overrun \/ q \in overrun

\* A reconciliation never works with caches that are older than a write of
\* others, as long as these release their lease in time (acquireLease).
FreshCaches ==
    Locked /\ ~lapsed /\ Ccm \notin overrun => caches # "stale"

\* A call that finds the lease taken is carried out in the end, also if the
\* holder is gone: "this would be automatically recovered after the lease
\* expires" (acquireLease).
Recovers == pending ~> ~pending

\* "Invalidate caches if the previous holder was not the cloud controller
\* manager": taking the lease from another leaves no old data in the caches
\* (acquireLease).
InvalidatesForeign ==
    [][pc' = "working" /\ holder' = Ccm /\ holder \in Others
       => caches' # "stale"]_vars
===============================================================================
