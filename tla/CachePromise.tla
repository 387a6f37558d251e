----------------------------- MODULE CachePromise -----------------------------
(***************************************************************************)
(* What a cache of an Azure resource promises to those who read through    *)
(* it, without saying how (the Resource interface of pkg/cache).  The      *)
(* resource goes through the versions 0, 1, 2, ...; in some of them it     *)
(* does not exist.                                                         *)
(*                                                                         *)
(* A read that begins after an invalidation sees nothing older than the    *)
(* invalidation; a forced read sees nothing older than itself; that the    *)
(* resource does not exist is never an old answer.  Data that a client     *)
(* puts into the cache itself weakens the promise down to the version of   *)
(* that data, until the next invalidation.                                 *)
(***************************************************************************)
EXTENDS Naturals

CONSTANTS Clients,
          Present,      \* the versions in which the resource exists
          NoAnswer

VARIABLES ver,          \* the current version in Azure
          floor,        \* reads that begin now see no older version
          active,       \* the clients with a read under way
          forced,       \* those of them that asked for fresh data
          since,        \* by client: the floor of its read
          begun,        \* by client: the version when its read began
          got           \* by client: what its last read returned

pvars == <<ver, floor, active, forced, since, begun, got>>

Lower(x, y) == IF x <= y THEN x ELSE y

PInit ==
    /\ ver = 0 /\ floor = 0
    /\ active = {} /\ forced = {}
    /\ since = [c \in Clients |-> 0]
    /\ begun = [c \in Clients |-> 0]
    /\ got = [c \in Clients |-> NoAnswer]

\* The resource is changed, created or deleted in Azure.
PWrite ==
    /\ ver' = ver + 1
    /\ UNCHANGED <<floor, active, forced, since, begun, got>>

PInvalidate ==
    /\ floor' = ver
    /\ UNCHANGED <<ver, active, forced, since, begun, got>>

\* Data of version v is put into the cache by hand.
PPut(v) ==
    /\ floor' = Lower(floor, v)
    /\ since' = [c \in Clients |-> Lower(since[c], v)]
    /\ UNCHANGED <<ver, active, forced, begun, got>>

PBegin(c, f) ==
    /\ c \notin active
    /\ active' = active \cup {c}
    /\ forced' = IF f THEN forced \cup {c} ELSE forced
    /\ since' = [since EXCEPT ![c] = floor]
    /\ begun' = [begun EXCEPT ![c] = ver]
    /\ got' = [got EXCEPT ![c] = NoAnswer]
    /\ UNCHANGED <<ver, floor>>

Ended(c) ==
    /\ c \in active
    /\ active' = active \ {c} /\ forced' = forced \ {c}
    /\ since' = [since EXCEPT ![c] = 0]
    /\ begun' = [begun EXCEPT ![c] = 0]
    /\ UNCHANGED <<ver, floor>>

PReturn(c, v) ==
    /\ since[c] <= v
    /\ c \in forced => begun[c] <= v
    /\ v \notin Present => begun[c] <= v
    /\ got' = [got EXCEPT ![c] = v]
    /\ Ended(c)

PFail(c) == Ended(c) /\ UNCHANGED got

PNext ==
    \/ PWrite
    \/ PInvalidate
    \/ \E v \in 0..ver : PPut(v)
    \/ \E c \in Clients, f \in BOOLEAN : PBegin(c, f)
    \/ \E c \in Clients, v \in 0..ver : PReturn(c, v)
    \/ \E c \in Clients : PFail(c)

PSpec == PInit /\ [][PNext]_pvars
===============================================================================
