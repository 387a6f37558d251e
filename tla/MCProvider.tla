----------------------------- MODULE MCProvider -----------------------------
(* Instances of the parts of the provider that work on one resource each:    *)
(* frontends and public IPs, the security group with its address ranges, the *)
(* private link service, and the lease on the cluster.                       *)
(* They share no state here: part says which one this behaviour runs.        *)
EXTENDS Frontends, SecurityGroup, PrivateLink, ResourceLock

\* Frontends: what the two services may ask for.
W(i, r) == [internal |-> i, ref |-> r, iptags |-> FNil]
T(w) == [w EXCEPT !.iptags = "tag"]
Ext == W(FALSE, FNil)
Int == W(TRUE, FNil)
FP(a, b, dns, pinned, same, hasty, n) ==
    [wishes |-> [s \in FService |-> IF s = "s1" THEN a ELSE b], dns |-> dns,
     pinned |-> pinned, samePort |-> same, hasty |-> hasty, faults |-> n]
MCFPlans ==
    {FP({Ext, Int}, {W(FALSE, "s1")}, {}, {}, FALSE, FALSE, 0),
     FP({Ext}, {Ext, W(FALSE, "s1")}, {"s1"}, {}, FALSE, FALSE, 0),
     FP({Ext, Int, W(FALSE, "u1")}, {}, {"s1"}, {}, FALSE, FALSE, 2),
     FP({W(FALSE, "u1")}, {W(FALSE, "u1")}, {}, {}, FALSE, FALSE, 1),
     FP({Ext}, {W(FALSE, "s1")}, {}, {}, TRUE, TRUE, 0),
     FP({Ext, Int}, {}, {}, {"s1"}, FALSE, TRUE, 0),
     FP({Ext, T(Ext)}, {W(FALSE, "s1")}, {}, {}, FALSE, FALSE, 1)}

\* SecurityGroup: open services, source ranges, service tags, deny-all, bad
\* annotations and the rules a user put in the group.
Open == [spec |-> {}, noted |-> {}, invalid |-> FALSE, tags |-> {},
         internal |-> FALSE, deny |-> FALSE, address |-> "ip1"]
Closed == [Open EXCEPT !.spec = {<<0>>}, !.deny = TRUE]
Two == [Open EXCEPT !.noted = {<<0, 0>>, <<0, 1>>}]
At2(a) == [a EXCEPT !.address = "ip2"]
URule(n, prio) == [name |-> n, dst |-> {"ip1"}, priority |-> prio]
UDeny == URule([DenyName EXCEPT !.by = "user"], 4)
UAllow == URule([by |-> "user", access |-> "Allow", protocol |-> "Tcp",
                 sources |-> Tag("Internet"), ports |-> {80, 443}], 6)
SP(a, b, pr, foreign, n) ==
    [asks |-> [s \in SgService |-> IF s = "a" THEN a ELSE b],
     protocol |-> [s \in SgService |-> IF s = "a" THEN "Tcp" ELSE pr],
     ports |-> [s \in SgService |->
                   IF s = "a" \/ pr = "Udp" THEN {80} ELSE {443}],
     foreign |-> foreign, faults |-> n]
MCSgPlans ==
    {SP({Open, Closed, Two, [Open EXCEPT !.invalid = TRUE]}, {Open, Closed},
        "Tcp", {}, 0),
     SP({Open, [Open EXCEPT !.tags = {"tag"}], Closed}, {At2(Open), At2(Two)},
        "Udp", {UDeny}, 1),
     SP({Closed, [Open EXCEPT !.internal = TRUE]}, {Closed}, "*", {UDeny}, 1),
     SP({Open, Two}, {Open}, "Tcp", {UAllow, UDeny}, 0),
     SP({Two, Open, [Two EXCEPT !.internal = TRUE, !.noted = {<<>>}]}, {},
        "Tcp", {}, 2)}

\* PrivateLink: services that ask for a link, with settings of their own.
PW(c, n) == [create |-> c, conf |-> n, group |-> "g1", allowed |-> TRUE, valid |-> TRUE]
PP(a, b, f, n, l) == [wishes |-> [s \in PlService |-> IF s = "p1" THEN a ELSE b],
                      foreign |-> f, faults |-> n, lossy |-> l]
MCPlPlans ==
    {PP({PW(TRUE, 0), PW(TRUE, 1), PW(FALSE, 0)}, {PW(TRUE, 0), PW(TRUE, 2)},
        FALSE, 0, FALSE),
     PP({PW(TRUE, 1), PW(TRUE, 2), PW(FALSE, 0)}, {}, FALSE, 2, FALSE),
     PP({PW(TRUE, 1), PW(TRUE, 2)}, {}, FALSE, 2, TRUE),
     PP({PW(TRUE, 1), [PW(TRUE, 2) EXCEPT !.allowed = FALSE], [PW(TRUE, 2) EXCEPT !.valid = FALSE]}, {PW(FALSE, 0)},
        TRUE, 1, FALSE)}

VARIABLE part

allVars == <<part, fvars, ranges, svars, plvars, vars>>

\* The parts that rest are in one state.
MCInit ==
    /\ part \in {"front", "ranges", "group", "link", "lease"}
    /\ FInit /\ RInit /\ SInit /\ PlInit /\ Init
    /\ part # "front" => fplan = CHOOSE x \in FPlans : TRUE
    /\ part # "group" => splan = CHOOSE x \in SgPlans : TRUE
    /\ part # "link" => plplan = CHOOSE x \in PlPlans : TRUE
    /\ part # "lease" => exists

frontRest == <<part, ranges, svars, plvars, vars>>
groupRest == <<part, fvars, ranges, plvars, vars>>
linkRest  == <<part, fvars, ranges, svars, vars>>
leaseRest == <<part, fvars, ranges, svars, plvars>>

MCNext ==
    \/ part = "front" /\ FNext /\ UNCHANGED frontRest
    \/ part = "ranges" /\ RNext /\ UNCHANGED <<part, fvars, svars, plvars, vars>>
    \/ part = "group" /\ SNext /\ UNCHANGED groupRest
    \/ part = "link" /\ PlNext /\ UNCHANGED linkRest
    \/ part = "lease" /\ Next /\ UNCHANGED leaseRest

\* An operation that has begun goes on; the service controller retries a
\* deletion until it succeeds, whatever else it is given to do; the cache of
\* private link services expires and time passes for the lease.
MCSpec ==
    /\ MCInit /\ [][MCNext]_allVars
    /\ WF_fvars(part = "front" /\ Proceed /\ UNCHANGED frontRest)
    /\ SF_fvars(part = "front" /\ (\E s \in FService : EnsureLoadBalancerDeleted(s)) /\ UNCHANGED frontRest)
    /\ WF_svars(part = "group" /\ SWork /\ UNCHANGED groupRest)
    /\ WF_plvars(part = "link" /\ PlWork /\ UNCHANGED linkRest)
    /\ WF_plvars(part = "link" /\ (\E g \in Group : ExpireLink(g)) /\ UNCHANGED linkRest)
    /\ SF_plvars(part = "link" /\ (\E s \in PlService : DeleteService(s)) /\ UNCHANGED linkRest)
    /\ WF_vars(part = "lease" /\ CcmStep /\ UNCHANGED leaseRest)
    /\ WF_vars(part = "lease" /\ Expire /\ UNCHANGED leaseRest)

\* What was begun ends: a deleted service is let go with its frontend, its
\* public IP and its private link service, the queue for the security group
\* empties, and the lease is not lost with a holder that is gone.
ProviderSettles == DeletedIsLetGo /\ SgSettles /\ LinkLetGo /\ Recovers
=============================================================================
