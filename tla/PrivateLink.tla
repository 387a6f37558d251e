------------------------------ MODULE PrivateLink ------------------------------
(***************************************************************************)
(* The private link service on a frontend that several services may share, *)
(* of IPv4, since a frontend of IPv6 has none                              *)
(* (azure_privatelinkservice.go): made and updated for the service that    *)
(* owns it when a service is ensured, deleted with the frontend.  Calls    *)
(* for services run one at a time; between them services are edited and    *)
(* the cached private link service ages.                                   *)
(***************************************************************************)
EXTENDS Naturals

CONSTANTS
    PlService, Group,  \* services on the frontend; resource groups
    PlNil,
    PlPlans,           \* the scenarios: records of type PlPlan
    MaxPlEdits         \* bound on edits of services and connections of clients

\* conf: the settings in annotations, 0 for none; allowed: internal, or
\* without floating IP; valid: the settings can be applied.
Wishes == [create : BOOLEAN, conf : 0..2, group : Group, allowed : BOOLEAN, valid : BOOLEAN]
Link == [owner : PlService \cup {"user"}, conf : 0..2, failed : BOOLEAN, conns : BOOLEAN]
Absent == [owner |-> "none"]

\* What each service may ask, a private link service made by a user, how many
\* calls fail, and whether a write that fails may have been carried out.
PlPlan == [wishes : [PlService -> SUBSET Wishes], foreign : BOOLEAN, faults : Nat, lossy : BOOLEAN]

VARIABLES
    plplan,
    linkWish,      \* the services: what they ask, PlNil when there is none
    leaving,   \* services being deleted
    synced,    \* services ensured since their last edit
    users,     \* services with rules on the frontend
    links,     \* Azure: the private link service in each group
    seen,      \* plsRepo's cache; PlNil: nothing cached
    disabled,  \* Azure: the network policies of the subnet are disabled
    linking,   \* the running call
    plfaults, pledits

plvars == <<plplan, linkWish, leaving, synced, users, links, seen, disabled, linking, plfaults, pledits>>

\* Values tell who owns a private link service and whether there is one.
ASSUME PlAssumption ==
    /\ PlPlans \subseteq PlPlan
    /\ PlNil \notin Wishes /\ PlNil \notin Link /\ PlNil # Absent
    /\ "user" \notin PlService /\ "none" \notin PlService
    /\ MaxPlEdits \in Nat

NoCall == [pc |-> "none"]

\* A call for a service, with what the service asked when it began.
Call == [pc : {"get", "expect", "subnet", "put", "find", "conns", "delete", "frontend"},
         s : PlService, w : Wishes, dirty : BOOLEAN]

PlTypeOK ==
    /\ plplan \in PlPlans
    /\ linkWish \in [PlService -> Wishes \cup {PlNil}]
    /\ leaving \subseteq PlService /\ synced \subseteq PlService /\ users \subseteq PlService
    /\ links \in [Group -> Link \cup {Absent}]
    /\ seen \in [Group -> Link \cup {Absent, PlNil}]
    /\ disabled \in BOOLEAN
    /\ linking = NoCall \/ linking \in Call
    /\ plfaults \in 0..plplan.faults /\ pledits \in 0..MaxPlEdits

PlInit ==
    /\ plplan \in PlPlans
    /\ linkWish = [s \in PlService |-> PlNil]
    /\ leaving = {} /\ synced = {} /\ users = {}
    /\ links = [g \in Group |-> Absent]
    /\ seen = [g \in Group |-> PlNil]
    /\ disabled = FALSE /\ linking = NoCall
    /\ plfaults = 0 /\ pledits = 0
------------------------------------------------------------------------------
PlAnswer == {"ok"} \cup IF plfaults < plplan.faults THEN {"error"} ELSE {}
PlCounted(r) == plfaults' = IF r = "ok" THEN plfaults ELSE plfaults + 1

\* Whether a write that is answered r takes effect.
TakesEffect(r, done) == (r = "ok" => done) /\ (done => r = "ok" \/ (r = "error" /\ plplan.lossy))

PlAsked == <<plplan, linkWish, leaving, pledits>>
Stop == linking' = NoCall
Continue(pc) == linking' = [linking EXCEPT !.pc = pc]
\* A service edited meanwhile is ensured again.
Ensured == synced' = IF linkWish[linking.s] = linking.w /\ linking.s \notin leaving THEN synced \cup {linking.s} ELSE synced

\* Users, of Kubernetes and of Azure.
EditWish(s) ==
    /\ pledits < MaxPlEdits /\ pledits' = pledits + 1 /\ s \notin leaving
    /\ \E w \in plplan.wishes[s] \ {linkWish[s]} : linkWish' = [linkWish EXCEPT ![s] = w]
    /\ synced' = synced \ {s}
    /\ UNCHANGED <<plplan, leaving, users, links, seen, disabled, linking, plfaults>>

Leave(s) ==
    /\ linkWish[s] # PlNil /\ s \notin leaving /\ leaving' = leaving \cup {s} /\ synced' = synced \ {s}
    /\ UNCHANGED <<plplan, linkWish, users, links, seen, disabled, linking, plfaults, pledits>>

LinkByUser(g) ==
    /\ plplan.foreign /\ users # {} /\ links[g] = Absent
    /\ pledits < MaxPlEdits /\ pledits' = pledits + 1
    /\ links' = [links EXCEPT ![g] = [owner |-> "user", conf |-> 0, failed |-> FALSE, conns |-> FALSE]]
    /\ UNCHANGED <<plplan, linkWish, leaving, synced, users, seen, disabled, linking, plfaults>>

\* A client connects to a private link service.
Connect(g) ==
    /\ links[g] # Absent /\ ~links[g].conns
    /\ pledits < MaxPlEdits /\ pledits' = pledits + 1
    /\ links' = [links EXCEPT ![g].conns = TRUE]
    /\ UNCHANGED <<plplan, linkWish, leaving, synced, users, seen, disabled, linking, plfaults>>

ExpireLink(g) ==
    /\ seen[g] # PlNil /\ seen' = [seen EXCEPT ![g] = PlNil]
    /\ UNCHANGED <<plplan, linkWish, leaving, synced, users, links, disabled, linking, plfaults, pledits>>
------------------------------------------------------------------------------
(* reconcilePrivateLinkService with wantPLS, once the load balancer has the *)
(* rules of the service. *)
EnsureLink(s) ==
    /\ linking = NoCall /\ linkWish[s] # PlNil /\ s \notin leaving \cup synced
    /\ users' = users \cup {s}
    /\ IF ~linkWish[s].create THEN synced' = synced \cup {s} /\ Stop
       ELSE /\ linkWish[s].allowed \* else an error, retried to no avail until an edit
            /\ linking' = [pc |-> "get", s |-> s, w |-> linkWish[s], dirty |-> FALSE] /\ UNCHANGED synced
    /\ UNCHANGED <<links, seen, disabled, plfaults, PlAsked>>

\* plsRepo.Get: the cached one, or what a list shows for the frontend.
Got(g, link, r) ==
    /\ r \in IF seen[g] = PlNil THEN PlAnswer ELSE {"ok"}
    /\ link = IF seen[g] = PlNil THEN links[g] ELSE seen[g]
    /\ seen' = IF r = "ok" THEN [seen EXCEPT ![g] = link] ELSE seen
    /\ PlCounted(r)

\* The private link service found differs from what is asked.
Dirty(link, w) == link = Absent \/ link.failed \/ link.conf # w.conf

\* A private link service of a user stops the call, that of another service
\* is shared when nothing in particular is asked.
GetLink ==
    /\ linking.pc = "get"
    /\ \E r \in {"ok", "error"}, link \in Link \cup {Absent} :
          /\ Got(linking.w.group, link, r)
          /\ IF r = "error" \/ link.owner = "user" THEN Stop /\ UNCHANGED synced
             ELSE IF link # Absent /\ link.owner # linking.s
             THEN Stop /\ IF linking.w.conf = 0 THEN Ensured ELSE UNCHANGED synced
             ELSE linking' = [linking EXCEPT !.pc = "expect", !.dirty = Dirty(link, linking.w)] /\ UNCHANGED synced
    /\ UNCHANGED <<users, links, disabled, PlAsked>>

\* getPrivateLinkServiceName and getExpectedPrivateLinkService refuse settings
\* they cannot apply, and read the subnet.
getExpectedPrivateLinkService ==
    /\ linking.pc = "expect"
    /\ \E r \in PlAnswer :
          /\ IF r = "error" \/ ~linking.w.valid THEN Stop /\ UNCHANGED synced
             ELSE IF linking.dirty THEN Continue("subnet") /\ UNCHANGED synced
             ELSE Stop /\ Ensured
          /\ PlCounted(r)
    /\ UNCHANGED <<users, links, seen, disabled, PlAsked>>

disablePLSNetworkPolicy ==
    /\ linking.pc = "subnet"
    /\ \E r \in PlAnswer :
          /\ disabled' = (disabled \/ r = "ok")
          /\ IF r = "ok" THEN Continue("put") ELSE Stop
          /\ PlCounted(r)
    /\ UNCHANGED <<users, links, seen, synced, PlAsked>>

\* Mutant: the cached private link service survives the update.
BugForgotten(g) == seen

\* Cleared after a successful write.
Forgotten(g) == [seen EXCEPT ![g] = PlNil]

\* What is written: the tags name the service, which owned the private link
\* service that was read or read none; Azure keeps the connections.
Expected(old) ==
    [owner |-> linking.s, conf |-> linking.w.conf, failed |-> FALSE,
     conns |-> old # Absent /\ old.conns]

\* CreateOrUpdate: one that fails may have been carried out or leave a private
\* link service in state "failed", and leaves the cache as it was.  Azure
\* refuses a second private link service on a frontend.
CreateOrUpdateLink ==
    /\ linking.pc = "put"
    /\ LET g == linking.w.group IN
       \E r \in IF links[g].owner = "user" THEN {"refused"} ELSE PlAnswer, done, broken \in BOOLEAN :
          /\ TakesEffect(r, done)
          /\ broken => r = "error" /\ ~done /\ (links[g] = Absent \/ plplan.lossy)
          /\ links' = IF done THEN [links EXCEPT ![g] = Expected(@)]
                      ELSE IF broken THEN [links EXCEPT ![g] = [Expected(@) EXCEPT !.failed = TRUE]]
                      ELSE links
          /\ seen' = IF r = "ok" THEN Forgotten(g) ELSE seen
          /\ IF r = "ok" THEN Ensured ELSE UNCHANGED synced
          /\ plfaults' = IF r = "error" THEN plfaults + 1 ELSE plfaults
    /\ Stop
    /\ UNCHANGED <<users, disabled, PlAsked>>
------------------------------------------------------------------------------
\* Deletion: the last service of the frontend takes the frontend with it, and
\* with the frontend its private link service, whoever made it and whatever
\* the service asks now (wantPLS is false).
DeleteService(s) ==
    /\ linking = NoCall /\ s \in leaving
    /\ linking' = [pc |-> IF users \subseteq {s} /\ users # {} THEN "find" ELSE "frontend",
                   s |-> s, w |-> linkWish[s], dirty |-> FALSE]
    /\ UNCHANGED <<users, links, seen, disabled, synced, plfaults, PlAsked>>

FindToDelete ==
    /\ linking.pc = "find"
    /\ \E r \in {"ok", "error"}, link \in Link \cup {Absent} :
          /\ Got(linking.w.group, link, r)
          /\ Continue(IF r = "error" \/ link = Absent THEN "frontend"
                      ELSE IF link.conns THEN "conns" ELSE "delete")
    /\ UNCHANGED <<users, links, disabled, synced, PlAsked>>

\* safeDeletePLS: its connections first.  An error is logged, and the
\* frontend is tried all the same.
DeletePEConnection ==
    /\ linking.pc = "conns"
    /\ \E r \in PlAnswer :
          /\ links' = IF r = "ok" /\ links[linking.w.group] # Absent
                      THEN [links EXCEPT ![linking.w.group].conns = FALSE] ELSE links
          /\ Continue(IF r = "ok" THEN "delete" ELSE "frontend")
          /\ PlCounted(r)
    /\ UNCHANGED <<users, seen, disabled, synced, PlAsked>>

\* Azure refuses to delete one that has connections.
DeleteLink ==
    /\ linking.pc = "delete"
    /\ LET g == linking.w.group IN
       \E r \in PlAnswer \cup {"refused"}, done \in BOOLEAN :
          /\ TakesEffect(r, done)
          /\ (links[g] # Absent /\ links[g].conns) => ~done
          /\ r = "refused" => links[g] # Absent /\ links[g].conns
          /\ links' = IF done THEN [links EXCEPT ![g] = Absent] ELSE links
          /\ seen' = IF r = "ok" THEN Forgotten(g) ELSE seen
          /\ plfaults' = IF r = "error" THEN plfaults + 1 ELSE plfaults
    /\ Continue("frontend")
    /\ UNCHANGED <<users, disabled, synced, PlAsked>>

\* Azure refuses to remove a frontend with a private link service on it; the
\* service controller tries again.
RemoveFrontend ==
    /\ linking.pc = "frontend"
    /\ \E r \in PlAnswer :
          /\ IF r = "ok" /\ (users \ {linking.s} # {} \/ \A g \in Group : links[g] = Absent)
             THEN /\ users' = users \ {linking.s} /\ leaving' = leaving \ {linking.s}
                  /\ linkWish' = [linkWish EXCEPT ![linking.s] = PlNil]
             ELSE UNCHANGED <<users, leaving, linkWish>>
          /\ PlCounted(r)
    /\ Stop
    /\ UNCHANGED <<plplan, pledits, links, seen, disabled, synced>>

PlWork ==
    \/ GetLink \/ getExpectedPrivateLinkService \/ disablePLSNetworkPolicy \/ CreateOrUpdateLink
    \/ FindToDelete \/ DeletePEConnection \/ DeleteLink \/ RemoveFrontend

PlNext ==
    \/ \E s \in PlService : EditWish(s) \/ Leave(s) \/ EnsureLink(s) \/ DeleteService(s)
    \/ \E g \in Group : LinkByUser(g) \/ Connect(g) \/ ExpireLink(g)
    \/ PlWork

PlSpec == PlInit /\ [][PlNext]_plvars
------------------------------------------------------------------------------
\* After a service was ensured, its private link service exists, is sound and
\* has the settings of the service that owns it, through failed and half-done
\* writes, cached copies and calls for the services that share it.  (After an
\* update that was carried out and failed the cache has the old settings, and
\* a service edited back to them is taken for ensured.)
LinkedAsAsked ==
    PlTypeOK /\ (~plplan.lossy => \A s \in synced :
        linkWish[s].create =>
            /\ disabled
            /\ links[linkWish[s].group] # Absent /\ links[linkWish[s].group].owner # "user"
            /\ links[linkWish[s].group].owner = s =>
                  links[linkWish[s].group].conf = linkWish[s].conf /\ ~links[linkWish[s].group].failed)

\* A service that is deleted goes in the end, with the private link service
\* that keeps its frontend from going, though the cache may not know it.
LinkLetGo == \A s \in PlService : [](s \in leaving => <>(s \notin leaving))
==============================================================================
