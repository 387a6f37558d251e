------------------------------ MODULE TimedCache ------------------------------
(***************************************************************************)
(* The cache in front of Azure's load balancers, public IPs, security      *)
(* groups, route tables, scale sets and machines                           *)
(* (pkg/cache/azure_cache.go), for one key: keys share nothing but the     *)
(* lock under which entries are added.                                     *)
(*                                                                         *)
(* The store maps the key to an entry, an object that goroutines hold      *)
(* pointers to: Delete drops the entry from the store while reads of it    *)
(* are still under way.  Every entry has a lock of its own, held while the *)
(* getter asks Azure.                                                      *)
(***************************************************************************)
EXTENDS Naturals, FiniteSets

CONSTANTS Clients,      \* the goroutines that use the cache
          Entries,      \* the addresses of AzureCacheEntry objects
          NoEntry, NoData, NoAnswer,
          Present,      \* the versions in which the resource exists
          MaxVersion    \* bound on the changes in Azure

ASSUME CacheAssumption ==
    /\ Present \subseteq Nat
    /\ MaxVersion \in Nat
    /\ NoEntry \notin Entries
    /\ NoData \notin Nat
    /\ NoAnswer \notin Nat

VARIABLES
    ver,                \* Azure: the version of the resource
    disabled,           \* NewTimedCache returned the plain ResourceProvider
    store,              \* the entry under the key
    data, expired,      \* the entries' Data; those older than the TTL
    pc, kind, ptr, val, \* by goroutine: step, operation, entry and data
    floor, since, begun, got,   \* history: see CachePromise
    high, seen          \* history: the newest version that a read of the
                        \* entry under the key returned; by goroutine: what
                        \* that was when its read began

entryVars == <<store, data, expired>>
local     == <<pc, kind, ptr, val>>
history   == <<floor, since, begun, got, high, seen>>
vars      == <<ver, disabled, entryVars, local, history>>

Reads == {"default", "unsafe", "force"}

Answers == Nat \cup {NoAnswer}

TypeOK ==
    /\ ver \in Nat
    /\ disabled \in BOOLEAN
    /\ store \in Entries \cup {NoEntry}
    /\ data \in [Entries -> Nat \cup {NoData}]
    /\ expired \in SUBSET Entries
    /\ pc \in [Clients -> {"idle", "miss", "add", "lock", "fetch", "fill"}]
    /\ kind \in [Clients -> Reads \cup {"update"}]
    /\ ptr \in [Clients -> Entries \cup {NoEntry}]
    /\ val \in [Clients -> Nat]
    /\ floor \in Nat
    /\ since \in [Clients -> Nat]
    /\ begun \in [Clients -> Nat]
    /\ got \in [Clients -> Answers]
    /\ high \in Nat
    /\ seen \in [Clients -> Nat]

Init ==
    /\ ver = 0
    /\ disabled \in BOOLEAN
    /\ store = NoEntry
    /\ data = [e \in Entries |-> NoData]
    /\ expired = {}
    /\ pc = [p \in Clients |-> "idle"]
    /\ kind = [p \in Clients |-> "default"]
    /\ ptr = [p \in Clients |-> NoEntry]
    /\ val = [p \in Clients |-> 0]
    /\ floor = 0
    /\ since = [p \in Clients |-> 0]
    /\ begun = [p \in Clients |-> 0]
    /\ got = [p \in Clients |-> NoAnswer]
    /\ high = 0
    /\ seen = [p \in Clients |-> 0]

-------------------------------------------------------------------------------
(* Reads and updates look the entry up, or add one. *)

\* An address nobody refers to.
Free(e) == e # store /\ \A p \in Clients : ptr[p] # e

\* The entries become d and x, except those nobody will refer to any more.
Collect(d, x) ==
    LET kept == {e \in Entries : e = store' \/ \E p \in Clients : ptr'[p] = e}
    IN  /\ data' = [e \in Entries |-> IF e \in kept THEN d[e] ELSE NoData]
        /\ expired' = x \cap kept

\* The first look at the store, without the lock; the plain provider goes
\* straight to the getter.
Lookup(p, k) ==
    /\ pc[p] = "idle"
    /\ kind' = [kind EXCEPT ![p] = k]
    /\ ptr' = [ptr EXCEPT ![p] = IF disabled THEN NoEntry ELSE store]
    /\ pc' = [pc EXCEPT ![p] = CASE disabled -> "fetch"
                                [] ~disabled /\ store = NoEntry -> "miss"
                                [] OTHER -> "lock"]
    /\ UNCHANGED <<ver, disabled, entryVars>>

Get(p, k) ==
    /\ Lookup(p, k)
    /\ since' = [since EXCEPT ![p] = floor]
    /\ begun' = [begun EXCEPT ![p] = ver]
    /\ got' = [got EXCEPT ![p] = NoAnswer]
    /\ seen' = [seen EXCEPT ![p] = high]
    /\ UNCHANGED <<val, floor, high>>

\* Data of an answer that Azure gave earlier.
Update(p, v) ==
    /\ ~disabled
    /\ Lookup(p, "update")
    /\ val' = [val EXCEPT ![p] = v]
    /\ UNCHANGED history

Recheck(p) ==
    /\ pc[p] = "miss" /\ \A q \in Clients : pc[q] # "add"
    /\ ptr' = [ptr EXCEPT ![p] = store]
    /\ pc' = [pc EXCEPT ![p] = IF store = NoEntry THEN "add" ELSE "lock"]
    /\ UNCHANGED <<ver, disabled, entryVars, kind, val, history>>

\* Store.Add replaces what a Set may have put there since.
AddEntry(p, e) ==
    /\ pc[p] = "add" /\ Free(e)
    /\ store' = e
    /\ ptr' = [ptr EXCEPT ![p] = e]
    /\ Collect([data EXCEPT ![e] = NoData], expired \ {e})
    /\ pc' = [pc EXCEPT ![p] = "lock"]
    /\ UNCHANGED <<ver, disabled, kind, val, history>>

-------------------------------------------------------------------------------
(* With the entry's lock. *)

Locked(e) == \E p \in Clients : ptr[p] = e /\ pc[p] \in {"fetch", "fill"}

\* Mutant: the lock is let go before the getter is called.
BugLockIsFree(e) == TRUE

LockIsFree(e) == ~Locked(e)

Usable(p) ==
    /\ data[ptr[p]] # NoData
    /\ \/ kind[p] = "unsafe"
       \/ kind[p] = "default" /\ ptr[p] \notin expired

Done(p) ==
    /\ pc' = [pc EXCEPT ![p] = "idle"]
    /\ ptr' = [ptr EXCEPT ![p] = NoEntry]
    /\ kind' = [kind EXCEPT ![p] = "default"]
    /\ val' = [val EXCEPT ![p] = 0]
    /\ since' = [since EXCEPT ![p] = 0]
    /\ begun' = [begun EXCEPT ![p] = 0]
    /\ seen' = [seen EXCEPT ![p] = 0]

\* The read of p returns version v.
Answered(p, v) ==
    /\ got' = [got EXCEPT ![p] = v]
    /\ high' = IF ptr[p] = store /\ high < v THEN v ELSE high

ReturnCached(p) ==
    /\ pc[p] = "lock" /\ kind[p] \in Reads
    /\ LockIsFree(ptr[p]) /\ Usable(p)
    /\ Answered(p, data[ptr[p]])
    /\ Done(p) /\ UNCHANGED store /\ Collect(data, expired)
    /\ UNCHANGED <<ver, disabled, floor>>

LockForGetter(p) ==
    /\ pc[p] = "lock" /\ kind[p] \in Reads
    /\ LockIsFree(ptr[p]) /\ ~Usable(p)
    /\ pc' = [pc EXCEPT ![p] = "fetch"]
    /\ UNCHANGED <<ver, disabled, entryVars, kind, ptr, val, history>>

\* Azure answers; the answer is on its way.
Getter(p) ==
    /\ pc[p] = "fetch"
    /\ val' = [val EXCEPT ![p] = ver]
    /\ pc' = [pc EXCEPT ![p] = "fill"]
    /\ UNCHANGED <<ver, disabled, entryVars, kind, ptr, history>>

GetterFails(p) ==
    /\ pc[p] = "fetch"
    /\ Done(p) /\ UNCHANGED store /\ Collect(data, expired)
    /\ UNCHANGED <<ver, disabled, floor, got, high>>

AsData(v) == IF v \in Present THEN v ELSE NoData

\* The getter's data goes into the entry, wherever that is by now.  No data
\* is no hindrance for the next read to ask again.
FillEntry(p) ==
    /\ pc[p] = "fill"
    /\ Answered(p, val[p])
    /\ Done(p) /\ UNCHANGED store
    /\ Collect([e \in Entries |->
                   IF e = ptr[p] THEN AsData(val[p]) ELSE data[e]],
               expired \ {ptr[p]})
    /\ UNCHANGED <<ver, disabled, floor>>

Lower(x, y) == IF x <= y THEN x ELSE y

\* What is put by hand may be as old as v.
Weaken(v) ==
    /\ floor' = Lower(floor, v)
    /\ since' = [p \in Clients |-> Lower(since[p], v)]
    /\ high' = Lower(high, v)
    /\ seen' = [p \in Clients |-> Lower(seen[p], v)]

UpdateEntry(p) ==
    /\ pc[p] = "lock" /\ kind[p] = "update" /\ LockIsFree(ptr[p])
    /\ Weaken(val[p])
    /\ pc' = [pc EXCEPT ![p] = "idle"]
    /\ ptr' = [ptr EXCEPT ![p] = NoEntry]
    /\ kind' = [kind EXCEPT ![p] = "default"]
    /\ val' = [val EXCEPT ![p] = 0]
    /\ UNCHANGED <<ver, disabled, store, begun, got>>
    /\ Collect([data EXCEPT ![ptr[p]] = val[p]], expired \ {ptr[p]})

-------------------------------------------------------------------------------
(* Without it. *)

\* Mutant: the data is cleared and the entry stays.
BugDelete ==
    /\ ~disabled
    /\ data' = IF store = NoEntry THEN data
               ELSE [data EXCEPT ![store] = NoData]
    /\ floor' = ver
    /\ UNCHANGED <<ver, disabled, store, expired, local, since, begun, got,
                   high, seen>>

Delete ==
    /\ ~disabled
    /\ store' = NoEntry
    /\ floor' = ver
    /\ UNCHANGED <<ver, disabled, local, since, begun, got, high, seen>>
    /\ Collect(data, expired)

\* Another entry takes the place under the key, with data of version v.
Set(e, v) ==
    /\ ~disabled /\ Free(e)
    /\ store' = e
    /\ Weaken(v)
    /\ UNCHANGED <<ver, disabled, local, begun, got>>
    /\ Collect([data EXCEPT ![e] = v], expired \ {e})

Expire(e) ==
    /\ e \notin expired /\ data[e] # NoData
    /\ expired' = expired \cup {e}
    /\ UNCHANGED <<ver, disabled, store, data, local, history>>

\* Somebody changes the resource in Azure.
Write ==
    /\ ver < MaxVersion
    /\ ver' = ver + 1
    /\ UNCHANGED <<disabled, entryVars, local, history>>

ClientStep(p) ==
    \/ Recheck(p)
    \/ \E e \in Entries : AddEntry(p, e)
    \/ ReturnCached(p)
    \/ LockForGetter(p)
    \/ Getter(p)
    \/ GetterFails(p)
    \/ FillEntry(p)
    \/ UpdateEntry(p)

\* The data handed to Update or Set was read from Azure at some time.
Next ==
    \/ \E p \in Clients, k \in Reads : Get(p, k)
    \/ \E p \in Clients, v \in Present \cap (0..ver) : Update(p, v)
    \/ \E p \in Clients : ClientStep(p)
    \/ Delete
    \/ \E e \in Entries, v \in Present \cap (0..ver) : Set(e, v)
    \/ \E e \in Entries : Expire(e)
    \/ Write

Spec == Init /\ [][Next]_vars

-------------------------------------------------------------------------------
(* Properties. *)

\* Pointers and operations fit the step a goroutine is at.
Shape ==
    \A p \in Clients :
        /\ pc[p] \in {"idle", "miss", "add"} => ptr[p] = NoEntry
        /\ pc[p] = "lock" => ptr[p] # NoEntry
        /\ pc[p] \in {"fetch", "fill"} => kind[p] # "update"
        /\ kind[p] = "update" => val[p] \in Present /\ val[p] <= ver

\* No bound on a read is above what it may still return.
Bounds ==
    /\ floor <= ver
    /\ \A p \in Clients :
          since[p] <= floor /\ since[p] <= begun[p] /\ begun[p] <= ver

\* The data of an entry satisfies the next reader of the store and all who
\* hold a pointer to the entry ...
DataSound ==
    \A e \in Entries : data[e] # NoData =>
        /\ data[e] \in Present /\ data[e] <= ver
        /\ e = store => floor <= data[e]
        /\ \A p \in Clients : ptr[p] = e => since[p] <= data[e]

\* ... and so does data that is on its way to the entry.
AnswerSound ==
    \A q \in Clients : pc[q] = "fill" =>
        /\ begun[q] <= val[q] /\ val[q] <= ver
        /\ ptr[q] # NoEntry =>
              /\ ptr[q] = store => floor <= val[q]
              /\ \A p \in Clients : ptr[p] = ptr[q] => since[p] <= val[q]

CacheInv == Shape /\ Bounds /\ DataSound /\ AnswerSound

Reading == {p \in Clients : pc[p] # "idle" /\ kind[p] # "update"}

Promise == INSTANCE CachePromise
    WITH active <- Reading,
         forced <- {p \in Reading : kind[p] = "force"}

\* The cache keeps the promise of CachePromise: a read that begins after
\* Delete returns nothing older than Delete, although a getter that began
\* before it may still be on its way; a forced read returns nothing older
\* than itself; a missing resource is never cached (TimedCache.get, Delete).
KeepsPromise == Promise!PSpec

\* Reads see the resource in the order in which it changed: one that begins
\* after another, of the entry under the key, has returned never returns an
\* older version, whoever asks, whatever expires or is deleted from the cache
\* and whichever getters are under way; but data put into the cache by hand
\* may be old (TimedCache.get, which holds the lock of the entry from the
\* getter's call until its data is stored).
ReadsInOrder ==
    [][\A p \in Clients :
          got'[p] \notin {got[p], NoAnswer} => seen[p] <= got'[p]]_vars
===============================================================================
