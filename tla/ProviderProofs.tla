---------------------------- MODULE ProviderProofs ----------------------------
(***************************************************************************)
(* Proofs about the parts of the provider that work on one resource each.  *)
(***************************************************************************)
EXTENDS PrivateLink, SecurityGroup, Frontends, FiniteSetTheorems, WellFoundedInduction, TLAPS

Ensuring == {"get", "expect", "subnet", "put"}
Removing == {"find", "conns", "delete", "frontend"}

\* The private link service of a service: there is one of the cluster, and
\* one that the service owns is sound and has its settings.
Linked(s) ==
    /\ links[linkWish[s].group] # Absent /\ links[linkWish[s].group].owner # "user"
    /\ links[linkWish[s].group].owner = s =>
          links[linkWish[s].group].conf = linkWish[s].conf /\ ~links[linkWish[s].group].failed

\* Services that are ensured exist, stay, and have rules on the frontend.
SyncedStay ==
    /\ \A s \in synced : linkWish[s] # PlNil /\ s \notin leaving /\ s \in users
    /\ \A s \in leaving : linkWish[s] # PlNil

\* A call to ensure is for a service with rules on the frontend that is not
\* ensured yet; a call to delete is for one that leaves, and when it goes for
\* the private link service no other service is left on the frontend.
CallSound ==
    /\ linking.pc \in Ensuring => linking.s \in users /\ linking.s \notin synced
    /\ linking.pc \in Removing => linking.s \in leaving
    /\ linking.pc \in {"find", "conns", "delete"} => users \subseteq {linking.s}

\* The network policies of the subnet are disabled before the cluster makes
\* a private link service.
PolicyFirst ==
    /\ linking.pc = "put" => disabled
    /\ \A g \in Group : (links[g] # Absent /\ links[g].owner # "user") => disabled

\* A cached private link service is the one in Azure but for its connections.
SeenSound ==
    \A g \in Group : (seen[g] # PlNil /\ seen[g] # Absent) =>
        /\ links[g] # Absent
        /\ links[g].owner = seen[g].owner /\ links[g].conf = seen[g].conf
        /\ links[g].failed = seen[g].failed

\* A private link service found without difference is as asked.
CleanIsAsAsked ==
    (linking.pc = "expect" /\ ~linking.dirty) =>
        /\ links[linking.w.group] # Absent /\ links[linking.w.group].owner = linking.s
        /\ links[linking.w.group].conf = linking.w.conf /\ ~links[linking.w.group].failed

AllLinked == \A s \in synced : linkWish[s].create => Linked(s)

PlInv ==
    /\ PlTypeOK /\ SyncedStay /\ CallSound /\ PolicyFirst
    /\ ~plplan.lossy => SeenSound /\ CleanIsAsAsked /\ AllLinked

-------------------------------------------------------------------------------
\* What Azure changes of a private link service leaves one.
LEMMA LinkChanged ==
    ASSUME NEW l \in Link, NEW b \in BOOLEAN
    PROVE  [l EXCEPT !.conns = b] \in Link /\ [l EXCEPT !.failed = b] \in Link
BY DEF Link

\* What a read does to the call: it ends or goes on with what was found.
LEMMA GetLinkCall ==
    ASSUME PlTypeOK, GetLink
    PROVE  /\ linking \in Call /\ linking.pc = "get"
           /\ \/ linking' = NoCall
              \/ /\ linking' \in Call /\ linking'.pc = "expect"
                 /\ linking'.s = linking.s /\ linking'.w = linking.w
                 /\ synced' = synced
                 /\ linking'.dirty \/ ~Dirty(seen'[linking.w.group], linking.w)
                 /\ seen'[linking.w.group] = Absent \/ seen'[linking.w.group].owner = linking.s
                 /\ seen'[linking.w.group] # PlNil
<1> USE PlAssumption DEF PlTypeOK, Call, NoCall, Wishes, Absent
<1>1. PICK r \in {"ok", "error"}, link \in Link \cup {Absent} : GetLink!2!(r, link)
  BY DEF GetLink
<1> DEFINE d == Dirty(link, linking.w)
<1>2. linking \in Call /\ linking.pc = "get"
  BY DEF GetLink
<1>3. d \in BOOLEAN /\ link # PlNil
  BY DEF Dirty
<1>4. CASE linking' = NoCall
  BY <1>2, <1>4
<1>5. CASE linking' # NoCall
  <2>1. /\ linking' = [linking EXCEPT !.pc = "expect", !.dirty = d]
        /\ r = "ok" /\ synced' = synced
        /\ link = Absent \/ link.owner = linking.s
    BY <1>1, <1>5 DEF Stop
  <2>2. seen'[linking.w.group] = link
    BY <1>1, <1>2, <2>1 DEF Got
  <2> HIDE DEF d
  <2>3. /\ linking' \in Call /\ linking'.pc = "expect" /\ linking'.s = linking.s
        /\ linking'.w = linking.w /\ linking'.dirty = d
    BY <1>2, <1>3, <2>1
  <2>4. d \/ ~Dirty(link, linking.w)
    BY DEF d
  <2> QED
    BY <1>2, <1>3, <2>1, <2>2, <2>3, <2>4
<1> QED
  BY <1>4, <1>5

\* Steps keep the types.
LEMMA PlNextType ==
    ASSUME PlTypeOK, SyncedStay, [PlNext]_plvars PROVE  PlTypeOK'
<1> USE PlAssumption DEF PlTypeOK, Call, NoCall, PlPlan, Wishes, Link, Absent, SyncedStay
<1>1. CASE UNCHANGED plvars
  BY <1>1 DEF plvars
<1>2. ASSUME NEW s \in PlService, EditWish(s) PROVE  PlTypeOK'
  BY <1>2 DEF EditWish, PlAsked
<1>3. ASSUME NEW s \in PlService, Leave(s) PROVE  PlTypeOK'
  BY <1>3 DEF Leave, PlAsked
<1>4. ASSUME NEW s \in PlService, EnsureLink(s) PROVE  PlTypeOK'
  <2>1. linkWish[s] \in Wishes
    BY <1>4 DEF EnsureLink
  <2> DEFINE call == [pc |-> "get", s |-> s, w |-> linkWish[s], dirty |-> FALSE]
  <2>2. call \in Call
    BY <2>1
  <2>3. linking' = NoCall \/ linking' = call
    BY <1>4 DEF EnsureLink, Stop
  <2> HIDE DEF call
  <2> QED
    BY <1>4, <2>2, <2>3 DEF EnsureLink, PlAsked
<1>5. ASSUME NEW s \in PlService, DeleteService(s) PROVE  PlTypeOK'
  BY <1>5 DEF DeleteService, PlAsked
<1>6. ASSUME NEW g \in Group, LinkByUser(g) PROVE  PlTypeOK'
  BY <1>6 DEF LinkByUser, PlAsked
<1>7. ASSUME NEW g \in Group, Connect(g) PROVE  PlTypeOK'
  <2>1. links[g] \in Link
    BY <1>7 DEF Connect
  <2>2. [links[g] EXCEPT !.conns = TRUE] \in Link
    BY <2>1
  <2>3. links' \in [Group -> Link \cup {Absent}]
    BY <1>7, <2>2 DEF Connect
  <2> QED
    BY <1>7, <2>3 DEF Connect
<1>8. ASSUME NEW g \in Group, ExpireLink(g) PROVE  PlTypeOK'
  BY <1>8 DEF ExpireLink, PlAsked
<1>9. CASE GetLink
  <2>1. PICK r \in {"ok", "error"}, link \in Link \cup {Absent} :
               GetLink!2!(r, link)
    BY <1>9 DEF GetLink
  <2> DEFINE d == Dirty(link, linking.w)
  <2>2. d \in BOOLEAN
    BY DEF Dirty
  <2>3. linking' = NoCall \/ linking' = [linking EXCEPT !.pc = "expect", !.dirty = d]
    BY <2>1 DEF Stop
  <2> HIDE DEF d
  <2>4. linking \in Call
    BY <1>9 DEF GetLink
  <2>5. linking' = NoCall \/ linking' \in Call
    BY <2>2, <2>3, <2>4
  <2>6. synced' \subseteq PlService
    BY <2>1, <2>4 DEF Ensured
  <2>7. seen' \in [Group -> Link \cup {Absent, PlNil}] /\ plfaults' \in 0..plplan.faults
    <3>1. Got(linking.w.group, link, r)
      BY <2>1
    <3>2. seen' \in [Group -> Link \cup {Absent, PlNil}]
      BY <3>1, <2>4 DEF Got
    <3>3. plfaults' \in 0..plplan.faults
      BY <3>1 DEF Got, PlAnswer, PlCounted
    <3> QED
      BY <3>2, <3>3
  <2> QED
    BY <1>9, <2>5, <2>6, <2>7 DEF GetLink, PlAsked
<1>10. CASE getExpectedPrivateLinkService
  BY <1>10 DEF getExpectedPrivateLinkService, PlAsked, PlAnswer, PlCounted, Stop, Ensured, Continue
<1>11. CASE disablePLSNetworkPolicy
  BY <1>11 DEF disablePLSNetworkPolicy, PlAsked, PlAnswer, PlCounted, Stop, Continue
<1>12. CASE CreateOrUpdateLink
  <2> DEFINE g == linking.w.group
             new == Expected(links[g])
             bad == [new EXCEPT !.failed = TRUE]
             conns == links[g] # Absent /\ links[g].conns
  <2>1. linking \in Call /\ g \in Group
    BY <1>12 DEF CreateOrUpdateLink
  <2>2. conns \in BOOLEAN
    OBVIOUS
  <2>3. new = [owner |-> linking.s, conf |-> linking.w.conf, failed |-> FALSE, conns |-> conns]
    BY DEF Expected
  <2> HIDE DEF conns
  <2>4. new \in Link
    BY <2>1, <2>2, <2>3
  <2>9. bad \in Link
    BY <2>4, LinkChanged
  <2>5. links' \in {links, [links EXCEPT ![g] = new], [links EXCEPT ![g] = bad]}
    BY <1>12 DEF CreateOrUpdateLink
  <2> HIDE DEF new, bad
  <2>6. links' \in [Group -> Link \cup {Absent}]
    BY <2>1, <2>4, <2>5, <2>9
  <2>7. seen' \in [Group -> Link \cup {Absent, PlNil}] /\ plfaults' \in 0..plplan.faults
    BY <1>12 DEF CreateOrUpdateLink, PlAnswer, Forgotten
  <2>8. synced' \subseteq PlService
    BY <1>12, <2>1 DEF CreateOrUpdateLink, Ensured
  <2> QED
    BY <1>12, <2>6, <2>7, <2>8 DEF CreateOrUpdateLink, PlAsked, Stop
<1>13. CASE FindToDelete
  BY <1>13 DEF FindToDelete, PlAsked, Got, PlAnswer, PlCounted, Continue
<1>14. CASE DeletePEConnection
  <2> DEFINE g == linking.w.group
  <2>1. linking \in Call /\ g \in Group
    BY <1>14 DEF DeletePEConnection
  <2>2. ASSUME links[g] # Absent PROVE  [links[g] EXCEPT !.conns = FALSE] \in Link
    <3>1. links[g] \in Link
      BY <2>1, <2>2
    <3> QED
      BY <3>1, LinkChanged
  <2>3. links' \in [Group -> Link \cup {Absent}]
    BY <1>14, <2>1, <2>2 DEF DeletePEConnection
  <2> QED
    BY <1>14, <2>1, <2>3 DEF DeletePEConnection, PlAsked, PlAnswer, PlCounted, Continue
<1>15. CASE DeleteLink
  BY <1>15 DEF DeleteLink, PlAsked, PlAnswer, TakesEffect, Forgotten, Continue
<1>16. CASE RemoveFrontend
  BY <1>16 DEF RemoveFrontend, PlAsked, PlAnswer, PlCounted, Stop
<1>17. QED
  BY <1>1, <1>2, <1>3, <1>4, <1>5, <1>6, <1>7, <1>8, <1>9, <1>10, <1>11, <1>12, <1>13, <1>14, <1>15, <1>16 DEF PlNext, PlWork

\* Steps keep what is known of calls and of ensured services.
LEMMA PlNextCall ==
    ASSUME PlTypeOK, SyncedStay, CallSound, [PlNext]_plvars PROVE  SyncedStay' /\ CallSound'
<1> USE PlAssumption DEF PlTypeOK, Call, NoCall, Wishes, Link, Absent, SyncedStay, CallSound, Ensuring, Removing
<1>1. CASE UNCHANGED plvars
  BY <1>1 DEF plvars
<1>2. ASSUME NEW s \in PlService, EditWish(s) PROVE  SyncedStay' /\ CallSound'
  BY <1>2 DEF EditWish, PlAsked
<1>3. ASSUME NEW s \in PlService, Leave(s) PROVE  SyncedStay' /\ CallSound'
  BY <1>3 DEF Leave, PlAsked
<1>4. ASSUME NEW s \in PlService, EnsureLink(s) PROVE  SyncedStay' /\ CallSound'
  BY <1>4 DEF EnsureLink, PlAsked, Stop
<1>5. ASSUME NEW s \in PlService, DeleteService(s) PROVE  SyncedStay' /\ CallSound'
  BY <1>5 DEF DeleteService, PlAsked
<1>6. ASSUME NEW g \in Group, LinkByUser(g) PROVE  SyncedStay' /\ CallSound'
  BY <1>6 DEF LinkByUser, PlAsked
<1>7. ASSUME NEW g \in Group, Connect(g) PROVE  SyncedStay' /\ CallSound'
  BY <1>7 DEF Connect, PlAsked
<1>8. ASSUME NEW g \in Group, ExpireLink(g) PROVE  SyncedStay' /\ CallSound'
  BY <1>8 DEF ExpireLink, PlAsked
<1>9. CASE GetLink
  <2>1. linking.pc = "get" /\ linking \in Call
    BY <1>9 DEF GetLink
  <2>2. CASE linking' = NoCall
    BY <1>9, <2>1, <2>2 DEF GetLink, PlAsked, Ensured
  <2>3. CASE linking' # NoCall
    <3>1. linking'.pc = "expect" /\ linking'.s = linking.s /\ synced' = synced
      BY <1>9, <2>3, GetLinkCall
    <3> QED
      BY <1>9, <2>1, <3>1 DEF GetLink, PlAsked
  <2> QED
    BY <2>2, <2>3
<1>10. CASE getExpectedPrivateLinkService
  BY <1>10 DEF getExpectedPrivateLinkService, PlAsked, PlAnswer, PlCounted, Stop, Ensured, Continue
<1>11. CASE disablePLSNetworkPolicy
  BY <1>11 DEF disablePLSNetworkPolicy, PlAsked, PlAnswer, PlCounted, Stop, Continue
<1>12. CASE CreateOrUpdateLink
  BY <1>12 DEF CreateOrUpdateLink, PlAsked, PlAnswer, TakesEffect, Expected, Forgotten, Ensured, Stop
<1>13. CASE FindToDelete
  BY <1>13 DEF FindToDelete, PlAsked, Got, PlAnswer, PlCounted, Continue
<1>14. CASE DeletePEConnection
  BY <1>14 DEF DeletePEConnection, PlAsked, PlAnswer, PlCounted, Continue
<1>15. CASE DeleteLink
  BY <1>15 DEF DeleteLink, PlAsked, PlAnswer, TakesEffect, Forgotten, Continue
<1>16. CASE RemoveFrontend
  BY <1>16 DEF RemoveFrontend, PlAsked, PlAnswer, PlCounted, Stop
<1>17. QED
  BY <1>1, <1>2, <1>3, <1>4, <1>5, <1>6, <1>7, <1>8, <1>9, <1>10, <1>11, <1>12, <1>13, <1>14, <1>15, <1>16 DEF PlNext, PlWork

\* Steps keep the order of policies and private link services.
LEMMA PlNextPolicy ==
    ASSUME PlTypeOK, PolicyFirst, [PlNext]_plvars PROVE  PolicyFirst'
<1> USE PlAssumption DEF PlTypeOK, Call, NoCall, Wishes, Link, Absent, PolicyFirst
<1>1. CASE UNCHANGED plvars
  BY <1>1 DEF plvars
<1>2. ASSUME NEW s \in PlService, EditWish(s) PROVE  PolicyFirst'
  BY <1>2 DEF EditWish, PlAsked
<1>3. ASSUME NEW s \in PlService, Leave(s) PROVE  PolicyFirst'
  BY <1>3 DEF Leave, PlAsked
<1>4. ASSUME NEW s \in PlService, EnsureLink(s) PROVE  PolicyFirst'
  BY <1>4 DEF EnsureLink, PlAsked, Stop
<1>5. ASSUME NEW s \in PlService, DeleteService(s) PROVE  PolicyFirst'
  BY <1>5 DEF DeleteService, PlAsked
<1>6. ASSUME NEW g \in Group, LinkByUser(g) PROVE  PolicyFirst'
  BY <1>6 DEF LinkByUser, PlAsked
<1>7. ASSUME NEW g \in Group, Connect(g) PROVE  PolicyFirst'
  BY <1>7 DEF Connect, PlAsked
<1>8. ASSUME NEW g \in Group, ExpireLink(g) PROVE  PolicyFirst'
  BY <1>8 DEF ExpireLink, PlAsked
<1>9. CASE GetLink
  <2>1. linking'.pc \in {"none", "expect"}
    BY <1>9, GetLinkCall
  <2> QED
    BY <1>9, <2>1 DEF GetLink
<1>10. CASE getExpectedPrivateLinkService
  BY <1>10 DEF getExpectedPrivateLinkService, PlAsked, PlAnswer, PlCounted, Stop, Ensured, Continue
<1>11. CASE disablePLSNetworkPolicy
  <2>1. PICK r \in PlAnswer : disablePLSNetworkPolicy!2!(r)
    BY <1>11 DEF disablePLSNetworkPolicy
  <2>2. disabled => disabled'
    BY <2>1
  <2>3. linking'.pc = "put" => r = "ok"
    BY <2>1 DEF Stop
  <2>4. linking'.pc = "put" => disabled'
    BY <2>1, <2>3
  <2> QED
    BY <1>11, <2>2, <2>4 DEF disablePLSNetworkPolicy
<1>12. CASE CreateOrUpdateLink
  BY <1>12 DEF CreateOrUpdateLink, PlAsked, PlAnswer, TakesEffect, Expected, Forgotten, Ensured, Stop
<1>13. CASE FindToDelete
  BY <1>13 DEF FindToDelete, PlAsked, Got, PlAnswer, PlCounted, Continue
<1>14. CASE DeletePEConnection
  BY <1>14 DEF DeletePEConnection, PlAsked, PlAnswer, PlCounted, Continue
<1>15. CASE DeleteLink
  BY <1>15 DEF DeleteLink, PlAsked, PlAnswer, TakesEffect, Forgotten, Continue
<1>16. CASE RemoveFrontend
  BY <1>16 DEF RemoveFrontend, PlAsked, PlAnswer, PlCounted, Stop
<1>17. QED
  BY <1>1, <1>2, <1>3, <1>4, <1>5, <1>6, <1>7, <1>8, <1>9, <1>10, <1>11, <1>12, <1>13, <1>14, <1>15, <1>16 DEF PlNext, PlWork

\* Without lost answers, steps keep the cache sound.
LEMMA PlNextSeen ==
    ASSUME PlTypeOK, ~plplan.lossy, SeenSound, [PlNext]_plvars PROVE  SeenSound'
<1> USE PlAssumption DEF PlTypeOK, Call, NoCall, Wishes, Link, Absent, SeenSound
<1>1. CASE UNCHANGED plvars
  BY <1>1 DEF plvars
<1>2. ASSUME NEW s \in PlService, EditWish(s) PROVE  SeenSound'
  BY <1>2 DEF EditWish, PlAsked
<1>3. ASSUME NEW s \in PlService, Leave(s) PROVE  SeenSound'
  BY <1>3 DEF Leave, PlAsked
<1>4. ASSUME NEW s \in PlService, EnsureLink(s) PROVE  SeenSound'
  BY <1>4 DEF EnsureLink, PlAsked, Stop
<1>5. ASSUME NEW s \in PlService, DeleteService(s) PROVE  SeenSound'
  BY <1>5 DEF DeleteService, PlAsked
<1>6. ASSUME NEW g \in Group, LinkByUser(g) PROVE  SeenSound'
  BY <1>6 DEF LinkByUser, PlAsked
<1>7. ASSUME NEW g \in Group, Connect(g) PROVE  SeenSound'
  BY <1>7 DEF Connect, PlAsked
<1>8. ASSUME NEW g \in Group, ExpireLink(g) PROVE  SeenSound'
  BY <1>8 DEF ExpireLink, PlAsked
<1>9. CASE GetLink
  BY <1>9 DEF GetLink, PlAsked, Got, PlAnswer, PlCounted, Stop, Ensured, Dirty
<1>10. CASE getExpectedPrivateLinkService
  BY <1>10 DEF getExpectedPrivateLinkService, PlAsked, PlAnswer, PlCounted, Stop, Ensured, Continue
<1>11. CASE disablePLSNetworkPolicy
  BY <1>11 DEF disablePLSNetworkPolicy, PlAsked, PlAnswer, PlCounted, Stop, Continue
<1>12. CASE CreateOrUpdateLink
  <2>1. linking \in Call /\ linking.w.group \in Group
    BY <1>12 DEF CreateOrUpdateLink
  <2>2. \A g \in Group : g # linking.w.group => links'[g] = links[g] /\ seen'[g] = seen[g]
    BY <1>12, <2>1 DEF CreateOrUpdateLink, Forgotten
  <2>3. \/ links' = links
        \/ seen'[linking.w.group] = PlNil
        \/ links[linking.w.group] = Absent
    BY <1>12, <2>1 DEF CreateOrUpdateLink, Forgotten, TakesEffect
  <2>4. seen'[linking.w.group] \in {seen[linking.w.group], PlNil}
    BY <1>12, <2>1 DEF CreateOrUpdateLink, Forgotten
  <2> QED
    BY <2>1, <2>2, <2>3, <2>4
<1>13. CASE FindToDelete
  BY <1>13 DEF FindToDelete, PlAsked, Got, PlAnswer, PlCounted, Continue
<1>14. CASE DeletePEConnection
  BY <1>14 DEF DeletePEConnection, PlAsked, PlAnswer, PlCounted, Continue
<1>15. CASE DeleteLink
  BY <1>15 DEF DeleteLink, PlAsked, PlAnswer, TakesEffect, Forgotten, Continue
<1>16. CASE RemoveFrontend
  BY <1>16 DEF RemoveFrontend, PlAsked, PlAnswer, PlCounted, Stop
<1>17. QED
  BY <1>1, <1>2, <1>3, <1>4, <1>5, <1>6, <1>7, <1>8, <1>9, <1>10, <1>11, <1>12, <1>13, <1>14, <1>15, <1>16 DEF PlNext, PlWork

\* Without lost answers, what a call found to be as asked stays so.
LEMMA PlNextClean ==
    ASSUME PlTypeOK, ~plplan.lossy, SeenSound', CleanIsAsAsked, [PlNext]_plvars PROVE  CleanIsAsAsked'
<1> USE PlAssumption DEF PlTypeOK, Call, NoCall, Wishes, Link, Absent, CleanIsAsAsked
<1>1. CASE UNCHANGED plvars
  BY <1>1 DEF plvars
<1>2. ASSUME NEW s \in PlService, EditWish(s) PROVE  CleanIsAsAsked'
  BY <1>2 DEF EditWish, PlAsked
<1>3. ASSUME NEW s \in PlService, Leave(s) PROVE  CleanIsAsAsked'
  BY <1>3 DEF Leave, PlAsked
<1>4. ASSUME NEW s \in PlService, EnsureLink(s) PROVE  CleanIsAsAsked'
  BY <1>4 DEF EnsureLink, PlAsked, Stop
<1>5. ASSUME NEW s \in PlService, DeleteService(s) PROVE  CleanIsAsAsked'
  BY <1>5 DEF DeleteService, PlAsked
<1>6. ASSUME NEW g \in Group, LinkByUser(g) PROVE  CleanIsAsAsked'
  BY <1>6 DEF LinkByUser, PlAsked
<1>7. ASSUME NEW g \in Group, Connect(g) PROVE  CleanIsAsAsked'
  BY <1>7 DEF Connect, PlAsked
<1>8. ASSUME NEW g \in Group, ExpireLink(g) PROVE  CleanIsAsAsked'
  BY <1>8 DEF ExpireLink, PlAsked
<1>9. CASE GetLink
  <2>1. CASE linking' = NoCall
    BY <2>1
  <2>2. CASE linking' # NoCall
    <3> DEFINE g == linking.w.group
    <3>1. /\ linking'.s = linking.s /\ linking'.w = linking.w /\ g \in Group
          /\ linking'.dirty \/ ~Dirty(seen'[g], linking.w)
          /\ seen'[g] = Absent \/ seen'[g].owner = linking.s
          /\ seen'[g] # PlNil
      BY <1>9, <2>2, GetLinkCall
    <3>2. CASE ~linking'.dirty
      <4>1. /\ seen'[g] # Absent /\ seen'[g].owner = linking.s
            /\ seen'[g].conf = linking.w.conf /\ ~seen'[g].failed
        BY <3>1, <3>2 DEF Dirty
      <4> QED
        BY <3>1, <4>1 DEF SeenSound
    <3> QED
      BY <3>2
  <2> QED
    BY <2>1, <2>2
<1>10. CASE getExpectedPrivateLinkService
  BY <1>10 DEF getExpectedPrivateLinkService, PlAsked, PlAnswer, PlCounted, Stop, Ensured, Continue
<1>11. CASE disablePLSNetworkPolicy
  BY <1>11 DEF disablePLSNetworkPolicy, PlAsked, PlAnswer, PlCounted, Stop, Continue
<1>12. CASE CreateOrUpdateLink
  BY <1>12 DEF CreateOrUpdateLink, PlAsked, PlAnswer, TakesEffect, Expected, Forgotten, Ensured, Stop
<1>13. CASE FindToDelete
  BY <1>13 DEF FindToDelete, PlAsked, Got, PlAnswer, PlCounted, Continue
<1>14. CASE DeletePEConnection
  BY <1>14 DEF DeletePEConnection, PlAsked, PlAnswer, PlCounted, Continue
<1>15. CASE DeleteLink
  BY <1>15 DEF DeleteLink, PlAsked, PlAnswer, TakesEffect, Forgotten, Continue
<1>16. CASE RemoveFrontend
  BY <1>16 DEF RemoveFrontend, PlAsked, PlAnswer, PlCounted, Stop
<1>17. QED
  BY <1>1, <1>2, <1>3, <1>4, <1>5, <1>6, <1>7, <1>8, <1>9, <1>10, <1>11, <1>12, <1>13, <1>14, <1>15, <1>16 DEF PlNext, PlWork

\* Without lost answers, ensured services stay linked.
LEMMA PlNextLinked ==
    ASSUME PlTypeOK, SyncedStay, CallSound, ~plplan.lossy, SeenSound',
           CleanIsAsAsked, AllLinked, [PlNext]_plvars
     PROVE  AllLinked'
<1> USE PlAssumption DEF PlTypeOK, Call, NoCall, Wishes, Link, Absent, AllLinked, Linked, SyncedStay, CallSound, Ensuring, Removing
<1>1. CASE UNCHANGED plvars
  BY <1>1 DEF plvars
<1>2. ASSUME NEW s \in PlService, EditWish(s) PROVE  AllLinked'
  BY <1>2 DEF EditWish, PlAsked
<1>3. ASSUME NEW s \in PlService, Leave(s) PROVE  AllLinked'
  BY <1>3 DEF Leave, PlAsked
<1>4. ASSUME NEW s \in PlService, EnsureLink(s) PROVE  AllLinked'
  BY <1>4 DEF EnsureLink, PlAsked, Stop
<1>5. ASSUME NEW s \in PlService, DeleteService(s) PROVE  AllLinked'
  BY <1>5 DEF DeleteService, PlAsked
<1>6. ASSUME NEW g \in Group, LinkByUser(g) PROVE  AllLinked'
  BY <1>6 DEF LinkByUser, PlAsked
<1>7. ASSUME NEW g \in Group, Connect(g) PROVE  AllLinked'
  BY <1>7 DEF Connect, PlAsked
<1>8. ASSUME NEW g \in Group, ExpireLink(g) PROVE  AllLinked'
  BY <1>8 DEF ExpireLink, PlAsked
<1>9. CASE GetLink
  <2>1. linking \in Call /\ linking.w.group \in Group /\ linking.pc = "get"
    BY <1>9 DEF GetLink
  <2>2. CASE synced' = synced
    BY <1>9, <2>2 DEF GetLink, PlAsked
  <2>3. CASE synced' # synced
    <3> DEFINE g == linking.w.group
    <3>1. PICK r \in {"ok", "error"}, link \in Link \cup {Absent} : GetLink!2!(r, link)
      BY <1>9 DEF GetLink
    <3>2. r = "ok" /\ link # Absent /\ link.owner # "user" /\ link.owner # linking.s
      BY <2>3, <3>1
    <3>3. synced' = synced \cup {linking.s} /\ linkWish[linking.s] = linking.w
      BY <2>3, <3>1 DEF Ensured
    <3>4. seen'[g] = link /\ link # PlNil
      BY <2>1, <3>1, <3>2 DEF Got
    <3>5. links[g] # Absent /\ links[g].owner = link.owner
      BY <1>9, <2>1, <3>2, <3>4 DEF SeenSound, GetLink
    <3>6. Linked(linking.s)
      BY <3>2, <3>3, <3>5
    <3> QED
      BY <1>9, <3>3, <3>6 DEF GetLink, PlAsked
  <2> QED
    BY <2>2, <2>3
<1>10. CASE getExpectedPrivateLinkService
  BY <1>10 DEF CleanIsAsAsked, getExpectedPrivateLinkService, PlAsked, PlAnswer, PlCounted, Stop, Ensured, Continue
<1>11. CASE disablePLSNetworkPolicy
  BY <1>11 DEF disablePLSNetworkPolicy, PlAsked, PlAnswer, PlCounted, Stop, Continue
<1>12. CASE CreateOrUpdateLink
  BY <1>12 DEF CreateOrUpdateLink, PlAsked, PlAnswer, TakesEffect, Expected, Forgotten, Ensured, Stop
<1>13. CASE FindToDelete
  BY <1>13 DEF FindToDelete, PlAsked, Got, PlAnswer, PlCounted, Continue
<1>14. CASE DeletePEConnection
  BY <1>14 DEF DeletePEConnection, PlAsked, PlAnswer, PlCounted, Continue
<1>15. CASE DeleteLink
  BY <1>15 DEF DeleteLink, PlAsked, PlAnswer, TakesEffect, Forgotten, Continue
<1>16. CASE RemoveFrontend
  BY <1>16 DEF RemoveFrontend, PlAsked, PlAnswer, PlCounted, Stop
<1>17. QED
  BY <1>1, <1>2, <1>3, <1>4, <1>5, <1>6, <1>7, <1>8, <1>9, <1>10, <1>11, <1>12, <1>13, <1>14, <1>15, <1>16 DEF PlNext, PlWork

\* What the invariant says, of every reachable state.
LEMMA PlInvariant == PlSpec => []PlInv
<1>1. PlInit => PlInv
  <2> SUFFICES ASSUME PlInit PROVE  PlInv
    OBVIOUS
  <2> USE PlAssumption DEF PlInit, NoCall, Absent
  <2>1. PlTypeOK
    <3>1. plplan.faults \in Nat
      BY DEF PlPlan
    <3>2. links \in [Group -> Link \cup {Absent}] /\ seen \in [Group -> Link \cup {Absent, PlNil}]
      OBVIOUS
    <3>3. linkWish \in [PlService -> Wishes \cup {PlNil}]
      OBVIOUS
    <3>4. plfaults \in 0..plplan.faults /\ pledits \in 0..MaxPlEdits
      BY <3>1
    <3> QED
      BY <3>2, <3>3, <3>4 DEF PlTypeOK
  <2>2. SyncedStay /\ CallSound /\ PolicyFirst
    BY DEF SyncedStay, CallSound, PolicyFirst, Ensuring, Removing
  <2>3. SeenSound /\ CleanIsAsAsked /\ AllLinked
    BY DEF SeenSound, CleanIsAsAsked, AllLinked
  <2> QED
    BY <2>1, <2>2, <2>3 DEF PlInv
<1>2. PlInv /\ [PlNext]_plvars => PlInv'
  <2> SUFFICES ASSUME PlInv, [PlNext]_plvars PROVE  PlInv'
    OBVIOUS
  <2> USE DEF PlInv
  <2>1. PlTypeOK'
    BY PlNextType
  <2>2. SyncedStay' /\ CallSound'
    BY PlNextCall
  <2>3. PolicyFirst'
    BY PlNextPolicy
  <2>4. plplan' = plplan
    BY DEF PlNext, PlWork, plvars, PlAsked, EditWish, Leave, EnsureLink, DeleteService, LinkByUser, Connect,
           ExpireLink, GetLink, getExpectedPrivateLinkService, disablePLSNetworkPolicy, CreateOrUpdateLink,
           FindToDelete, DeletePEConnection, DeleteLink, RemoveFrontend
  <2>5. ASSUME ~plplan.lossy PROVE  SeenSound' /\ CleanIsAsAsked' /\ AllLinked'
    <3>1. SeenSound'
      BY <2>5, PlNextSeen
    <3>2. CleanIsAsAsked'
      BY <2>5, <3>1, PlNextClean
    <3>3. AllLinked'
      BY <2>5, <3>1, PlNextLinked
    <3> QED
      BY <3>1, <3>2, <3>3
  <2> QED
    BY <2>1, <2>2, <2>3, <2>4, <2>5
<1> QED
  BY <1>1, <1>2, PTL DEF PlSpec

\* For every set of services, resource groups and scenario: after a service
\* was ensured, its private link service exists, is sound and has the settings
\* of its owner, through failed writes, cached copies, the calls for services
\* that share it and what users do meanwhile (reconcilePrivateLinkService).
THEOREM LinkedForAll == PlSpec => []LinkedAsAsked
<1>1. PlInv => LinkedAsAsked
  <2> SUFFICES ASSUME PlInv PROVE  LinkedAsAsked
    OBVIOUS
  <2>1. ASSUME ~plplan.lossy, NEW s \in synced, linkWish[s].create
        PROVE  disabled /\ Linked(s)
    <3>1. Linked(s)
      BY <2>1 DEF PlInv, AllLinked
    <3>2. linkWish[s] \in Wishes
      BY DEF PlInv, SyncedStay, PlTypeOK
    <3>3. linkWish[s].group \in Group
      BY <3>2 DEF Wishes
    <3> QED
      BY <3>1, <3>3 DEF PlInv, PolicyFirst, Linked
  <2> QED
    BY <2>1 DEF LinkedAsAsked, Linked, PlInv
<1> QED
  BY <1>1, PlInvariant, PTL
-------------------------------------------------------------------------------
(* Ranges: induction *)

\* A non-empty set of numbers has a least element.
LEMMA LeastNat ==
    ASSUME NEW S \in SUBSET Nat, S # {}
    PROVE  \E c \in S : \A d \in S : c <= d
<1> DEFINE R == {ss \in Nat \X Nat : ss[1] < ss[2]}
<1>1. IsWellFoundedOn(R, Nat)
  BY NatLessThanWellFounded, Zenon DEF OpToRel
<1> HIDE DEF R
<1>2. \E x \in S : \A y \in S : ~(<<y, x>> \in R)
  BY <1>1, WFMin, Zenon
<1>3. PICK c \in S : \A d \in S : ~(<<d, c>> \in R)
  BY <1>2
<1>4. ASSUME NEW d \in S PROVE c <= d
  <2>1. <<d, c>> \in Nat \X Nat /\ <<d, c>>[1] = d /\ <<d, c>>[2] = c
    OBVIOUS
  <2>2. ~(d < c)
    BY <1>3, <2>1, Zenon DEF R
  <2> QED
    BY <2>2
<1> QED
  BY <1>4

\* Induction up to a bound, over a set of numbers.
LEMMA UpTo ==
    ASSUME NEW n \in Nat, NEW S, 0 \in S, \A i \in 0..n - 1 : i \in S => i + 1 \in S
    PROVE  \A i \in 0..n : i \in S
<1> SUFFICES ASSUME NEW j \in 0..n, j \notin S PROVE FALSE
  OBVIOUS
<1> DEFINE T == {i \in 0..n : i \notin S}
<1>1. T \in SUBSET Nat /\ T # {}
  OBVIOUS
<1>2. PICK c \in T : \A d \in T : c <= d
  BY <1>1, LeastNat
<1>3. c # 0 /\ c - 1 \in 0..n - 1 /\ (c - 1) + 1 = c /\ ~(c <= c - 1)
  OBVIOUS
<1>4. c - 1 \in S
  BY <1>2, <1>3
<1> QED
  BY <1>3, <1>4

\* f is the states of a loop of n rounds from x, where g is what a round does.
RunOf(f, n, X, x, g) ==
    /\ f \in [0..n -> X] /\ f[0] = x
    /\ \A i \in 1..n : f[i] = g[i][f[i - 1]]

LEMMA LoopRuns ==
    ASSUME NEW n \in Nat, NEW X, NEW x \in X, NEW g \in [1..n -> [X -> X]]
    PROVE  \E f : RunOf(f, n, X, x, g)
<1> DEFINE Runs(m) == \E f \in [0..m -> X] : f[0] = x /\ \A i \in 1..m : f[i] = g[i][f[i - 1]]
           S == {m \in 0..n : Runs(m)}
<1>1. 0 \in S
  <2> DEFINE e == [i \in 0..0 |-> x]
  <2>1. e \in [0..0 -> X] /\ e[0] = x /\ 1..0 = {}
    OBVIOUS
  <2> HIDE DEF e
  <2>3. e[0] = x /\ \A i \in 1..0 : e[i] = g[i][e[i - 1]]
    BY <2>1
  <2>2. Runs(0)
    BY <2>1, <2>3
  <2> QED
    BY <2>2
<1>2. ASSUME NEW m \in 0..n - 1, m \in S PROVE m + 1 \in S
  <2>1. PICK f \in [0..m -> X] : f[0] = x /\ \A i \in 1..m : f[i] = g[i][f[i - 1]]
    BY <1>2
  <2> DEFINE h == [i \in 0..m + 1 |-> IF i = m + 1 THEN g[m + 1][f[m]] ELSE f[i]]
  <2>2. m + 1 \in 1..n /\ f[m] \in X /\ g[m + 1] \in [X -> X] /\ g[m + 1][f[m]] \in X
    OBVIOUS
  <2>3. h \in [0..m + 1 -> X]
    BY <2>2
  <2>4. h[0] = x
    BY <2>1
  <2>5. ASSUME NEW i \in 1..m + 1 PROVE h[i] = g[i][h[i - 1]]
    BY <2>1
  <2> HIDE DEF h
  <2>6. Runs(m + 1)
    BY <2>3, <2>4, <2>5
  <2>7. m + 1 \in 0..n
    OBVIOUS
  <2> HIDE DEF Runs
  <2> QED
    BY <2>6, <2>7
<1> HIDE DEF S
<1>4. \A m \in 0..n - 1 : m \in S => m + 1 \in S
  BY <1>2
<1>5. \A m \in 0..n : m \in S
  BY <1>1, <1>4, UpTo, Zenon
<1>3. n \in S
  BY <1>5
<1>6. Runs(n)
  BY <1>3 DEF S
<1> QED
  BY <1>6 DEF RunOf

-------------------------------------------------------------------------------
(* Bit strings *)

LEMMA RangeType ==
    ASSUME NEW p \in Ranges
    PROVE  p \in [1..Len(p) -> Bit] /\ p \in Seq(Bit) /\ Len(p) \in 0..AddrBits
<1>1. PICK n \in 0..AddrBits : p \in [1..n -> Bit]
  BY DEF Ranges
<1>2. n \in Nat
  BY AddrAssumption
<1>3. p \in Seq(Bit) /\ Len(p) = n
  BY <1>1, <1>2
<1> QED
  BY <1>1, <1>3

LEMMA RangeIs ==
    ASSUME NEW n \in 0..AddrBits, NEW p \in [1..n -> Bit]
    PROVE  p \in Ranges /\ Len(p) = n
BY AddrAssumption DEF Ranges

LEMMA AddrIsRange ==
    ASSUME NEW a \in Addr PROVE a \in Ranges /\ Len(a) = AddrBits
BY AddrAssumption, RangeIs DEF Addr

LEMMA SameRange ==
    ASSUME NEW p \in Ranges, NEW q \in Ranges, Len(p) = Len(q), \A i \in 1..Len(p) : p[i] = q[i]
    PROVE  p = q
BY RangeType

LEMMA ContainsSelf == ASSUME NEW p \in Ranges PROVE ContainsPrefix(p, p)
BY RangeType DEF ContainsPrefix

LEMMA ContainsTrans ==
    ASSUME NEW p \in Ranges, NEW q \in Ranges, NEW r \in Ranges,
           ContainsPrefix(p, q), ContainsPrefix(q, r)
    PROVE  ContainsPrefix(p, r)
BY RangeType, AddrAssumption DEF ContainsPrefix

LEMMA ContainsBoth ==
    ASSUME NEW p \in Ranges, NEW q \in Ranges, ContainsPrefix(p, q), ContainsPrefix(q, p)
    PROVE  p = q
BY RangeType, SameRange DEF ContainsPrefix

\* Of two ranges that hold a third, one holds the other.
LEMMA Nested ==
    ASSUME NEW p \in Ranges, NEW q \in Ranges, NEW r \in Ranges,
           ContainsPrefix(p, r), ContainsPrefix(q, r)
    PROVE  ContainsPrefix(p, q) \/ ContainsPrefix(q, p)
BY RangeType, AddrAssumption DEF ContainsPrefix

\* A range and one bit more.
LEMMA ChildType ==
    ASSUME NEW p \in Ranges, Len(p) < AddrBits, NEW b \in Bit
    PROVE  /\ Append(p, b) \in Ranges /\ Len(Append(p, b)) = Len(p) + 1
           /\ \A i \in 1..Len(p) : Append(p, b)[i] = p[i]
           /\ Append(p, b)[Len(p) + 1] = b
           /\ ContainsPrefix(p, Append(p, b))
<1>1. p \in Seq(Bit) /\ Len(p) \in Nat
  BY RangeType, AddrAssumption
<1> DEFINE c == Append(p, b)
<1>2. /\ c \in Seq(Bit) /\ Len(c) = Len(p) + 1
      /\ \A i \in 1..Len(p) : c[i] = p[i]
      /\ c[Len(p) + 1] = b
  BY <1>1
<1> HIDE DEF c
<1>3. c \in [1..Len(c) -> Bit]
  BY <1>2
<1>4. Len(c) \in 0..AddrBits
  BY <1>1, <1>2, AddrAssumption
<1>5. c \in Ranges
  BY <1>3, <1>4, RangeIs
<1>6. ContainsPrefix(p, c)
  BY <1>1, <1>2 DEF ContainsPrefix
<1> QED
  BY <1>2, <1>5, <1>6 DEF c

LEMMA ParentType ==
    ASSUME NEW p \in Ranges, Len(p) # 0
    PROVE  /\ Parent(p) \in Ranges /\ Len(Parent(p)) = Len(p) - 1
           /\ \A i \in 1..Len(p) - 1 : Parent(p)[i] = p[i]
           /\ ContainsPrefix(Parent(p), p)
<1>1. p \in [1..Len(p) -> Bit] /\ Len(p) \in 0..AddrBits /\ Len(p) - 1 \in 0..AddrBits
  BY RangeType, AddrAssumption
<1>2. Parent(p) \in [1..Len(p) - 1 -> Bit]
  BY <1>1, AddrAssumption DEF Parent
<1>3. Parent(p) \in Ranges /\ Len(Parent(p)) = Len(p) - 1
  BY <1>1, <1>2, RangeIs
<1> QED
  BY <1>1, <1>3, AddrAssumption DEF Parent, ContainsPrefix

-------------------------------------------------------------------------------
(* The order of the ranges *)

\* p is to the left of q: the first bit they differ in is 0 in p and 1 in q.
LeftOf(p, q) ==
    \E k \in 1..AddrBits :
        /\ k <= Len(p) /\ k <= Len(q) /\ p[k] = 0 /\ q[k] = 1
        /\ \A i \in 1..k - 1 : p[i] = q[i]

LEMMA LeftApart ==
    ASSUME NEW p \in Ranges, NEW q \in Ranges, LeftOf(p, q)
    PROVE  ~ContainsPrefix(p, q) /\ ~ContainsPrefix(q, p) /\ p # q /\ ~LeftOf(q, p)
BY RangeType, AddrAssumption DEF LeftOf, ContainsPrefix

LEMMA LeftTrans ==
    ASSUME NEW p \in Ranges, NEW q \in Ranges, NEW r \in Ranges, LeftOf(p, q), LeftOf(q, r)
    PROVE  LeftOf(p, r)
<1>0. Len(p) \in Nat /\ Len(q) \in Nat /\ Len(r) \in Nat /\ AddrBits \in Nat
  BY RangeType, AddrAssumption
<1>1. PICK k \in 1..AddrBits :
        /\ k <= Len(p) /\ k <= Len(q) /\ p[k] = 0 /\ q[k] = 1
        /\ \A i \in 1..k - 1 : p[i] = q[i]
  BY DEF LeftOf
<1>2. PICK m \in 1..AddrBits :
        /\ m <= Len(q) /\ m <= Len(r) /\ q[m] = 0 /\ r[m] = 1
        /\ \A i \in 1..m - 1 : q[i] = r[i]
  BY DEF LeftOf
<1>3. CASE k < m
  BY <1>0, <1>1, <1>2, <1>3 DEF LeftOf
<1>4. CASE m < k
  BY <1>0, <1>1, <1>2, <1>4 DEF LeftOf
<1> QED
  BY <1>0, <1>1, <1>2, <1>3, <1>4

\* A range to the left of q is to the left of what q holds.
LEMMA LeftDown ==
    ASSUME NEW p \in Ranges, NEW q \in Ranges, NEW r \in Ranges, LeftOf(p, q), ContainsPrefix(q, r)
    PROVE  LeftOf(p, r)
BY RangeType, AddrAssumption DEF LeftOf, ContainsPrefix

\* What holds a range to the left of q holds q or is to the left of q itself.
LEMMA LeftUp ==
    ASSUME NEW p \in Ranges, NEW q \in Ranges, NEW r \in Ranges, ContainsPrefix(p, q), LeftOf(q, r)
    PROVE  LeftOf(p, r) \/ ContainsPrefix(p, r)
<1>0. Len(p) \in Nat /\ Len(q) \in Nat /\ Len(r) \in Nat /\ AddrBits \in Nat
  BY RangeType, AddrAssumption
<1>1. PICK k \in 1..AddrBits :
        /\ k <= Len(q) /\ k <= Len(r) /\ q[k] = 0 /\ r[k] = 1
        /\ \A i \in 1..k - 1 : q[i] = r[i]
  BY DEF LeftOf
<1>2. CASE k <= Len(p)
  BY <1>0, <1>1, <1>2 DEF LeftOf, ContainsPrefix
<1>3. CASE Len(p) < k
  BY <1>0, <1>1, <1>3 DEF ContainsPrefix
<1> QED
  BY <1>0, <1>2, <1>3

\* Two ranges are apart, or one holds the other.
LEMMA Apart ==
    ASSUME NEW p \in Ranges, NEW q \in Ranges
    PROVE  LeftOf(p, q) \/ LeftOf(q, p) \/ ContainsPrefix(p, q) \/ ContainsPrefix(q, p)
<1>0. /\ Len(p) \in Nat /\ Len(q) \in Nat /\ AddrBits \in Nat
      /\ p \in [1..Len(p) -> Bit] /\ q \in [1..Len(q) -> Bit]
      /\ Len(p) <= AddrBits /\ Len(q) <= AddrBits
  BY RangeType, AddrAssumption
<1> DEFINE D == {i \in 1..AddrBits : i <= Len(p) /\ i <= Len(q) /\ p[i] # q[i]}
<1>1. CASE D = {}
  BY <1>0, <1>1 DEF ContainsPrefix
<1>2. CASE D # {}
  <2>1. D \in SUBSET Nat
    OBVIOUS
  <2>2. PICK k \in D : \A d \in D : k <= d
    BY <1>2, <2>1, LeastNat
  <2>3. \A i \in 1..k - 1 : p[i] = q[i]
    BY <1>0, <2>2
  <2>4. p[k] \in Bit /\ q[k] \in Bit /\ p[k] # q[k]
    BY <1>0, <2>2
  <2>5. (p[k] = 0 /\ q[k] = 1) \/ (p[k] = 1 /\ q[k] = 0)
    BY <2>4 DEF Bit
  <2> QED
    BY <1>0, <2>3, <2>5 DEF LeftOf
<1> QED
  BY <1>1, <1>2

LEMMA PaddedIs ==
    ASSUME NEW p \in Ranges
    PROVE  /\ Padded(p) \in [1..AddrBits -> Bit]
           /\ \A i \in 1..AddrBits : Padded(p)[i] = IF i <= Len(p) THEN p[i] ELSE 0
BY RangeType, AddrAssumption DEF Padded, Bit

\* The order of the sort: to the left, or wider with the same first address.
LEMMA BeforeMeans ==
    ASSUME NEW p \in Ranges, NEW q \in Ranges, Before(p, q)
    PROVE  LeftOf(p, q) \/ ContainsPrefix(p, q)
<1>0. /\ Len(p) \in Nat /\ Len(q) \in Nat /\ AddrBits \in Nat
      /\ p \in [1..Len(p) -> Bit] /\ q \in [1..Len(q) -> Bit]
      /\ Len(p) <= AddrBits /\ Len(q) <= AddrBits
  BY RangeType, AddrAssumption
<1>1. ASSUME LeftOf(q, p) PROVE FALSE
  <2>1. PICK k \in 1..AddrBits :
          /\ k <= Len(p) /\ k <= Len(q) /\ q[k] = 0 /\ p[k] = 1
          /\ \A i \in 1..k - 1 : q[i] = p[i]
    BY <1>1 DEF LeftOf
  <2>2. Padded(q)[k] = 0 /\ Padded(p)[k] = 1 /\ \A i \in 1..k - 1 : Padded(q)[i] = Padded(p)[i]
    BY <1>0, <2>1, PaddedIs
  <2>3. PICK m \in 1..AddrBits : /\ Padded(p)[m] < Padded(q)[m]
                                 /\ \A i \in 1..m - 1 : Padded(p)[i] = Padded(q)[i]
    BY <2>2 DEF Before, AddrLess
  <2>4. ~(k < m) /\ ~(m < k)
    BY <1>0, <2>2, <2>3, PaddedIs DEF Bit
  <2> QED
    BY <2>2, <2>3, <2>4
<1>2. ASSUME ContainsPrefix(q, p), ~ContainsPrefix(p, q) PROVE FALSE
  <2>1. Len(q) <= Len(p) /\ \A i \in 1..Len(q) : q[i] = p[i]
    BY <1>2 DEF ContainsPrefix
  <2>2. ~(Len(p) < Len(q))
    BY <1>0, <2>1
  <2>3. PICK m \in 1..AddrBits : Padded(p)[m] < Padded(q)[m]
    BY <2>2 DEF Before, AddrLess
  <2>4. Padded(p)[m] \in Bit /\ Padded(q)[m] \in Bit
    BY PaddedIs
  <2>5. Padded(q)[m] # 0
    BY <2>3, <2>4 DEF Bit
  <2>6. m <= Len(q)
    BY <2>5, PaddedIs
  <2>7. Padded(q)[m] = q[m] /\ Padded(p)[m] = p[m] /\ q[m] = p[m]
    BY <1>0, <2>1, <2>6, PaddedIs
  <2> QED
    BY <2>3, <2>4, <2>7 DEF Bit
<1> QED
  BY <1>1, <1>2, Apart

LEMMA LeftIsBefore ==
    ASSUME NEW p \in Ranges, NEW q \in Ranges, LeftOf(p, q)
    PROVE  Before(p, q)
<1>0. Len(p) \in Nat /\ Len(q) \in Nat /\ AddrBits \in Nat
  BY RangeType, AddrAssumption
<1>1. PICK k \in 1..AddrBits :
        /\ k <= Len(p) /\ k <= Len(q) /\ p[k] = 0 /\ q[k] = 1
        /\ \A i \in 1..k - 1 : p[i] = q[i]
  BY DEF LeftOf
<1>2. Padded(p)[k] = 0 /\ Padded(q)[k] = 1 /\ \A i \in 1..k - 1 : Padded(p)[i] = Padded(q)[i]
  BY <1>0, <1>1, PaddedIs
<1>3. AddrLess(Padded(p), Padded(q))
  BY <1>0, <1>2 DEF AddrLess
<1> QED
  BY <1>3 DEF Before

LEMMA WiderIsBefore ==
    ASSUME NEW p \in Ranges, NEW q \in Ranges, ContainsPrefix(p, q), p # q
    PROVE  Before(p, q)
<1>0. Len(p) \in Nat /\ Len(q) \in Nat /\ AddrBits \in Nat /\ Len(q) <= AddrBits
  BY RangeType, AddrAssumption
<1>1. Len(p) <= Len(q) /\ \A i \in 1..Len(p) : p[i] = q[i]
  BY DEF ContainsPrefix
<1>2. Len(p) < Len(q)
  BY <1>0, <1>1, SameRange
<1> DEFINE D == {i \in 1..AddrBits : Padded(p)[i] # Padded(q)[i]}
<1>3. CASE D = {}
  <2>1. \A i \in 1..AddrBits : Padded(p)[i] = Padded(q)[i]
    BY <1>3
  <2>3. Padded(p) \in [1..AddrBits -> Bit] /\ Padded(q) \in [1..AddrBits -> Bit]
    BY PaddedIs
  <2>2. Padded(p) = Padded(q)
    BY <2>1, <2>3, Zenon DEF Padded
  <2> QED
    BY <1>2, <2>2 DEF Before
<1>4. CASE D # {}
  <2>1. D \in SUBSET Nat
    OBVIOUS
  <2>2. PICK k \in D : \A d \in D : k <= d
    BY <1>4, <2>1, LeastNat
  <2>3. \A i \in 1..k - 1 : Padded(p)[i] = Padded(q)[i]
    BY <1>0, <2>2
  <2>4. ~(k <= Len(p))
    BY <1>0, <1>1, PaddedIs
  <2>5. Padded(p)[k] = 0 /\ Padded(q)[k] \in Bit /\ Padded(q)[k] # 0
    BY <2>4, PaddedIs
  <2>6. Padded(p)[k] < Padded(q)[k]
    BY <2>5 DEF Bit
  <2>7. AddrLess(Padded(p), Padded(q))
    BY <2>3, <2>6 DEF AddrLess
  <2> QED
    BY <2>7 DEF Before
<1> QED
  BY <1>3, <1>4

LEMMA BeforeTotal ==
    ASSUME NEW p \in Ranges, NEW q \in Ranges, p # q
    PROVE  Before(p, q) \/ Before(q, p)
BY Apart, LeftIsBefore, WiderIsBefore

LEMMA BeforeStrict == ASSUME NEW p \in Ranges PROVE ~Before(p, p)
<1>1. Len(p) \in Nat /\ \A i \in 1..AddrBits : Padded(p)[i] \in Nat
  BY RangeType, AddrAssumption, PaddedIs DEF Bit
<1> QED
  BY <1>1 DEF Before, AddrLess

LEMMA BeforeTrans ==
    ASSUME NEW p \in Ranges, NEW q \in Ranges, NEW r \in Ranges, Before(p, q), Before(q, r)
    PROVE  Before(p, r)
<1>1. CASE LeftOf(p, q) /\ LeftOf(q, r)
  BY <1>1, LeftTrans, LeftIsBefore
<1>2. CASE LeftOf(p, q) /\ ContainsPrefix(q, r)
  BY <1>2, LeftDown, LeftIsBefore
<1>3. p # q /\ q # r
  BY BeforeStrict
<1>4. CASE ContainsPrefix(p, q) /\ ContainsPrefix(q, r)
  <2>1. ContainsPrefix(p, r) /\ p # r
    BY <1>3, <1>4, ContainsTrans, ContainsBoth
  <2> QED
    BY <2>1, WiderIsBefore
<1>5. CASE ContainsPrefix(p, q) /\ LeftOf(q, r)
  <2>1. p # r
    BY <1>5, LeftApart
  <2> QED
    BY <1>5, <2>1, LeftUp, LeftIsBefore, WiderIsBefore
<1> QED
  BY <1>1, <1>2, <1>4, <1>5, BeforeMeans

-------------------------------------------------------------------------------
(* A finite set of ranges can be sorted *)

LEMMA RangesFinite == IsFiniteSet(Ranges)
<1> DEFINE T == (SUBSET (1..AddrBits)) \X (0..AddrBits)
           f == [p \in Ranges |-> <<{i \in 1..Len(p) : p[i] = 1}, Len(p)>>]
<1>0. 0 \in Int /\ 1 \in Int /\ AddrBits \in Int
  BY AddrAssumption
<1>1. IsFiniteSet(1..AddrBits) /\ IsFiniteSet(0..AddrBits)
  BY <1>0, FS_Interval
<1>2. IsFiniteSet(SUBSET (1..AddrBits))
  BY <1>1, FS_SUBSET
<1>3. IsFiniteSet(T)
  BY <1>1, <1>2, FS_Product
<1>4. f \in [Ranges -> T]
  <2> SUFFICES ASSUME NEW p \in Ranges
               PROVE  <<{i \in 1..Len(p) : p[i] = 1}, Len(p)>> \in T
    BY Zenon
  <2>1. Len(p) \in 0..AddrBits
    BY RangeType
  <2>2. {i \in 1..Len(p) : p[i] = 1} \in SUBSET (1..AddrBits)
    BY <2>1, AddrAssumption
  <2> QED
    BY <2>1, <2>2
<1>5. ASSUME NEW p \in Ranges, NEW q \in Ranges, f[p] = f[q] PROVE p = q
  <2> DEFINE Sp == {i \in 1..Len(p) : p[i] = 1}
             Sq == {i \in 1..Len(q) : q[i] = 1}
  <2>1. f[p] = <<Sp, Len(p)>> /\ f[q] = <<Sq, Len(q)>>
    BY Zenon
  <2>2. Sp = Sq /\ Len(p) = Len(q)
    BY <1>5, <2>1, Zenon
  <2>3. ASSUME NEW i \in 1..Len(p) PROVE p[i] = q[i]
    <3>1. p[i] \in Bit /\ q[i] \in Bit
      BY <2>2, RangeType
    <3>2. i \in Sp <=> i \in Sq
      BY <2>2, Zenon
    <3>3. p[i] = 1 <=> q[i] = 1
      BY <2>2, <3>2
    <3> QED
      BY <3>1, <3>3 DEF Bit
  <2> QED
    BY <2>2, <2>3, SameRange
<1> HIDE DEF f, T
<1>6. f \in Injection(Ranges, T)
  BY <1>4, <1>5, Zenon DEF Injection, IsInjective
<1> QED
  BY <1>3, <1>6, FS_Injection, Zenon

\* One more range goes in its place.
LEMMA Insert ==
    ASSUME NEW ps \in SUBSET Ranges, NEW n \in Nat, NEW x \in Ranges, x \notin ps,
           NEW f \in [1..n -> ps],
           \A i, j \in 1..n : i < j => Before(f[i], f[j])
    PROVE  \E g \in [1..n + 1 -> ps \cup {x}] :
             \A i, j \in 1..n + 1 : i < j => Before(g[i], g[j])
<1> DEFINE D == {i \in 1..n : Before(x, f[i])} \cup {n + 1}
<1>1. D \in SUBSET Nat /\ D # {}
  OBVIOUS
<1>2. PICK k \in D : \A d \in D : k <= d
  BY <1>1, LeastNat
<1>3. k \in 1..n + 1
  OBVIOUS
<1>4. ASSUME NEW i \in 1..n, i < k PROVE Before(f[i], x)
  <2>1. i \notin D
    BY <1>2, <1>3, <1>4
  <2>2. f[i] \in Ranges /\ f[i] # x /\ ~Before(x, f[i])
    BY <2>1
  <2> QED
    BY <2>2, BeforeTotal
<1>5. ASSUME NEW i \in 1..n, k <= i PROVE Before(x, f[i])
  <2>1. k \in 1..n /\ Before(x, f[k])
    BY <1>3, <1>5
  <2>2. CASE k = i
    BY <2>1, <2>2
  <2>3. CASE k < i
    BY <2>1, <2>3, BeforeTrans
  <2> QED
    BY <1>3, <1>5, <2>2, <2>3
<1> HIDE DEF D
<1> DEFINE g == [i \in 1..n + 1 |-> IF i < k THEN f[i] ELSE IF i = k THEN x ELSE f[i - 1]]
<1>6. g \in [1..n + 1 -> ps \cup {x}]
  BY <1>3
<1>7. ASSUME NEW i \in 1..n + 1, NEW j \in 1..n + 1, i < j PROVE Before(g[i], g[j])
  <2>1. CASE j < k
    BY <1>3, <1>7, <2>1
  <2>2. CASE j = k
    BY <1>3, <1>4, <1>7, <2>2
  <2>3. CASE k < j /\ i < k
    <3>1. g[i] = f[i] /\ g[j] = f[j - 1] /\ i \in 1..n /\ j - 1 \in 1..n /\ k <= j - 1
      BY <1>3, <2>3
    <3>2. Before(f[i], x) /\ Before(x, f[j - 1])
      BY <1>4, <1>5, <2>3, <3>1
    <3>3. f[i] \in Ranges /\ f[j - 1] \in Ranges
      BY <3>1
    <3> QED
      BY <3>1, <3>2, <3>3, BeforeTrans
  <2>4. CASE k < j /\ i = k
    BY <1>3, <1>5, <2>4
  <2>5. CASE k < j /\ k < i
    <3>1. g[i] = f[i - 1] /\ g[j] = f[j - 1] /\ i - 1 \in 1..n /\ j - 1 \in 1..n /\ i - 1 < j - 1
      BY <1>3, <1>7, <2>5
    <3> QED
      BY <3>1
  <2> QED
    BY <1>3, <1>7, <2>1, <2>2, <2>3, <2>4, <2>5
<1> HIDE DEF g
<1> QED
  BY <1>6, <1>7

LEMMA CanSort ==
    ASSUME NEW ps \in SUBSET Ranges
    PROVE  \E list \in [1..Cardinality(ps) -> ps] :
             \A i, j \in 1..Cardinality(ps) : i < j => Before(list[i], list[j])
<1> DEFINE Can(T, n) == \E list \in [1..n -> T] :
                            \A i, j \in 1..n : i < j => Before(list[i], list[j])
           N == Cardinality(ps)
           S == {n \in 0..N : \A T \in SUBSET ps : Cardinality(T) = n => Can(T, n)}
<1>0. \A T \in SUBSET ps : IsFiniteSet(T) /\ Cardinality(T) \in Nat
  <2> SUFFICES ASSUME NEW T \in SUBSET ps PROVE IsFiniteSet(T) /\ Cardinality(T) \in Nat
    OBVIOUS
  <2>1. T \in SUBSET Ranges
    OBVIOUS
  <2> QED
    BY <2>1, RangesFinite, FS_Subset, FS_CardinalityType
<1>1. N \in Nat
  BY <1>0
<1>2. 0 \in S
  <2> SUFFICES ASSUME NEW T PROVE Can(T, 0)
    BY <1>1
  <2> DEFINE e == [i \in 1..0 |-> {}]
  <2>1. e \in [1..0 -> T] /\ 1..0 = {}
    OBVIOUS
  <2> HIDE DEF e
  <2>2. \A i, j \in 1..0 : i < j => Before(e[i], e[j])
    BY <2>1
  <2> QED
    BY <2>1, <2>2
<1>3. ASSUME NEW n \in 0..N - 1, n \in S PROVE n + 1 \in S
  <2>1. n \in Nat /\ n + 1 \in 0..N
    BY <1>1
  <2> SUFFICES ASSUME NEW T \in SUBSET ps, Cardinality(T) = n + 1 PROVE Can(T, n + 1)
    BY <2>1
  <2>2. IsFiniteSet(T) /\ T # {}
    BY <1>0, <2>1, FS_EmptySet
  <2>3. PICK x \in T : TRUE
    BY <2>2
  <2>9. Cardinality(T \ {x}) = IF x \in T THEN Cardinality(T) - 1 ELSE Cardinality(T)
    BY <2>2, FS_RemoveElement, Zenon
  <2>4. Cardinality(T \ {x}) = n /\ T \ {x} \in SUBSET ps
    BY <2>1, <2>3, <2>9
  <2>5. Can(T \ {x}, n)
    BY <1>3, <2>4
  <2>6. PICK f \in [1..n -> T \ {x}] : \A i, j \in 1..n : i < j => Before(f[i], f[j])
    BY <2>5
  <2> DEFINE U == T \ {x}
  <2>7. U \in SUBSET Ranges /\ x \in Ranges /\ x \notin U /\ f \in [1..n -> U] /\ U \cup {x} = T
    OBVIOUS
  <2> HIDE DEF U
  <2>8. \E g \in [1..n + 1 -> U \cup {x}] :
          \A i, j \in 1..n + 1 : i < j => Before(g[i], g[j])
    BY <2>1, <2>6, <2>7, Insert
  <2> QED
    BY <2>7, <2>8
<1> HIDE DEF S, Can
<1>4. \A n \in 0..N - 1 : n \in S => n + 1 \in S
  BY <1>3
<1>5. \A n \in 0..N : n \in S
  BY <1>1, <1>2, <1>4, UpTo, Zenon
<1>6. N \in S
  BY <1>1, <1>5
<1>7. Can(ps, N)
  BY <1>6 DEF S
<1> QED
  BY <1>7 DEF Can

\* The sorted list has every range, in order.
LEMMA SortedIs ==
    ASSUME NEW ps \in SUBSET Ranges
    PROVE  /\ Cardinality(ps) \in Nat
           /\ Sorted(ps) \in [1..Cardinality(ps) -> ps]
           /\ \A i, j \in 1..Cardinality(ps) : i < j => Before(Sorted(ps)[i], Sorted(ps)[j])
           /\ \A p \in ps : \E i \in 1..Cardinality(ps) : Sorted(ps)[i] = p
<1> DEFINE N == Cardinality(ps)
           L == Sorted(ps)
<1>1. IsFiniteSet(ps) /\ N \in Nat
  BY RangesFinite, FS_Subset, FS_CardinalityType
<1>2. L \in [1..N -> ps] /\ \A i, j \in 1..N : i < j => Before(L[i], L[j])
  BY CanSort, Zenon DEF Sorted
<1> HIDE DEF L, N
<1>3. ASSUME NEW p \in ps, ~\E i \in 1..N : L[i] = p PROVE FALSE
  <2> DEFINE I == 1..N
             U == ps \ {p}
  <2>1. L \in [I -> U]
    BY <1>2, <1>3
  <2>2. IsFiniteSet(U) /\ Cardinality(U) = N - 1
    BY <1>1, FS_RemoveElement DEF N
  <2>3. IsFiniteSet(I) /\ Cardinality(I) = N
    <3>1. IsFiniteSet(1..N) /\ Cardinality(1..N) = IF 1 > N THEN 0 ELSE N - 1 + 1
      BY <1>1, FS_Interval
    <3> QED
      BY <1>1, <3>1
  <2>4. Cardinality(U) < Cardinality(I)
    BY <1>1, <2>2, <2>3
  <2> HIDE DEF U, I
  <2>5. PICK i, j \in I : i # j /\ L[i] = L[j]
    BY <2>1, <2>2, <2>3, <2>4, FS_PigeonHole, Zenon
  <2>6. i \in 1..N /\ j \in 1..N /\ (i < j \/ j < i)
    BY <1>1, <2>5 DEF I
  <2>7. Before(L[i], L[i])
    BY <1>2, <2>5, <2>6
  <2>8. L[i] \in Ranges
    BY <1>2, <2>6
  <2> QED
    BY <2>7, <2>8, BeforeStrict
<1> QED
  BY <1>1, <1>2, <1>3 DEF L, N

-------------------------------------------------------------------------------
(* The addresses of ranges *)

LEMMA CoverIn ==
    ASSUME NEW ps, NEW p \in ps
    PROVE  Cover({p}) \subseteq Cover(ps) /\ Cover(ps) \subseteq Addr
BY DEF Cover

LEMMA CoverUnion == ASSUME NEW ps, NEW qs PROVE Cover(ps \cup qs) = Cover(ps) \cup Cover(qs)
BY DEF Cover

\* What a range holds, its addresses hold too.
LEMMA CoverDown ==
    ASSUME NEW p \in Ranges, NEW q \in Ranges, ContainsPrefix(p, q)
    PROVE  Cover({q}) \subseteq Cover({p})
<1> SUFFICES ASSUME NEW a \in Addr, ContainsPrefix(q, a) PROVE ContainsPrefix(p, a)
  BY DEF Cover
<1> QED
  BY AddrIsRange, ContainsTrans

\* A string with one bit more is one of the two children.
LEMMA ChildHolds ==
    ASSUME NEW p \in Ranges, NEW q \in Ranges, ContainsPrefix(p, q), Len(p) < Len(q)
    PROVE  /\ Len(p) < AddrBits
           /\ \E b \in Bit : ContainsPrefix(Append(p, b), q)
<1>1. /\ Len(p) \in Nat /\ Len(q) \in Nat /\ AddrBits \in Nat /\ Len(q) <= AddrBits
      /\ q \in [1..Len(q) -> Bit]
  BY RangeType, AddrAssumption
<1>2. Len(p) < AddrBits /\ Len(p) + 1 \in 1..Len(q)
  BY <1>1
<1> DEFINE b == q[Len(p) + 1]
<1>3. b \in Bit
  BY <1>1, <1>2
<1> HIDE DEF b
<1>4. /\ Len(Append(p, b)) = Len(p) + 1
      /\ \A i \in 1..Len(p) : Append(p, b)[i] = p[i]
      /\ Append(p, b)[Len(p) + 1] = b
  BY <1>2, <1>3, ChildType
<1> DEFINE c == Append(p, b)
<1>5. \A i \in 1..Len(p) + 1 : c[i] = q[i]
  <2> TAKE i \in 1..Len(p) + 1
  <2>1. CASE i = Len(p) + 1
    BY <1>4, <2>1 DEF b
  <2>2. CASE i \in 1..Len(p)
    BY <1>4, <2>2 DEF ContainsPrefix
  <2> QED
    BY <1>1, <2>1, <2>2
<1>6. ContainsPrefix(c, q)
  BY <1>1, <1>2, <1>4, <1>5 DEF ContainsPrefix
<1> QED
  BY <1>2, <1>3, <1>6

\* The children of a range hold its addresses between them.
LEMMA CoverChildren ==
    ASSUME NEW p \in Ranges, Len(p) < AddrBits
    PROVE  Cover(Children(p)) = Cover({p})
<1>1. ASSUME NEW a \in Addr, ContainsPrefix(p, a) PROVE \E q \in Children(p) : ContainsPrefix(q, a)
  <2>1. a \in Ranges /\ Len(p) < Len(a)
    BY AddrIsRange
  <2>2. PICK b \in Bit : ContainsPrefix(Append(p, b), a)
    BY <1>1, <2>1, ChildHolds
  <2> QED
    BY <2>2 DEF Children
<1>2. ASSUME NEW a \in Addr, NEW q \in Children(p), ContainsPrefix(q, a) PROVE ContainsPrefix(p, a)
  <2>1. PICK b \in Bit : q = Append(p, b)
    BY DEF Children
  <2>2. q \in Ranges /\ ContainsPrefix(p, q)
    BY <2>1, ChildType
  <2> QED
    BY <1>2, <2>2, AddrIsRange, ContainsTrans
<1> QED
  BY <1>1, <1>2 DEF Cover

\* A range is a child of its parent.
LEMMA ChildOfParent ==
    ASSUME NEW p \in Ranges, Len(p) # 0
    PROVE  /\ Parent(p) \in Ranges /\ Len(Parent(p)) < AddrBits
           /\ p[Len(p)] \in Bit /\ p = Append(Parent(p), p[Len(p)])
<1>1. /\ Len(p) \in Nat /\ Len(p) \in 1..Len(p) /\ Len(p) <= AddrBits /\ AddrBits \in Nat
      /\ p[Len(p)] \in Bit
  BY RangeType, AddrAssumption
<1> DEFINE w == Parent(p)
           b == p[Len(p)]
<1>2. w \in Ranges /\ Len(w) = Len(p) - 1 /\ \A i \in 1..Len(p) - 1 : w[i] = p[i]
  BY ParentType
<1> HIDE DEF w, b
<1>3. Len(w) < AddrBits /\ b \in Bit
  BY <1>1, <1>2 DEF b
<1>4. /\ Append(w, b) \in Ranges /\ Len(Append(w, b)) = Len(p)
      /\ \A i \in 1..Len(w) : Append(w, b)[i] = w[i]
      /\ Append(w, b)[Len(w) + 1] = b
  BY <1>1, <1>2, <1>3, ChildType
<1> DEFINE c == Append(w, b)
<1>5. \A i \in 1..Len(p) : c[i] = p[i]
  <2> TAKE i \in 1..Len(p)
  <2>1. CASE i = Len(p)
    BY <1>1, <1>2, <1>4, <2>1 DEF b
  <2>2. CASE i \in 1..Len(p) - 1
    BY <1>2, <1>4, <2>2
  <2>3. i = Len(p) \/ i \in 1..Len(p) - 1
    BY <1>1
  <2> QED
    BY <2>1, <2>2, <2>3, Zenon
<1>6. c = p
  BY <1>4, <1>5, SameRange
<1> QED
  BY <1>2, <1>3, <1>6 DEF w, b

\* A child's parent.
LEMMA ParentOfChild ==
    ASSUME NEW p \in Ranges, Len(p) < AddrBits, NEW b \in Bit
    PROVE  Parent(Append(p, b)) = p /\ Len(Append(p, b)) # 0
<1> DEFINE c == Append(p, b)
<1>1. /\ c \in Ranges /\ Len(c) = Len(p) + 1
      /\ \A i \in 1..Len(p) : c[i] = p[i]
  BY ChildType
<1>2. Len(p) \in Nat
  BY RangeType, AddrAssumption
<1>3. Len(c) # 0 /\ Len(c) - 1 = Len(p)
  BY <1>1, <1>2
<1> HIDE DEF c
<1>4. Parent(c) \in Ranges /\ Len(Parent(c)) = Len(p) /\ \A i \in 1..Len(p) : Parent(c)[i] = c[i]
  BY <1>1, <1>3, ParentType
<1>5. Parent(c) = p
  BY <1>1, <1>4, SameRange
<1> QED
  BY <1>3, <1>5 DEF c

\* A range that holds a child and is not the child holds the parent.
LEMMA HoldsParent ==
    ASSUME NEW p \in Ranges, Len(p) < AddrBits, NEW b \in Bit, NEW q \in Ranges,
           ContainsPrefix(q, Append(p, b)), q # Append(p, b)
    PROVE  ContainsPrefix(q, p)
<1> DEFINE c == Append(p, b)
<1>1. /\ c \in Ranges /\ Len(c) = Len(p) + 1
      /\ \A i \in 1..Len(p) : c[i] = p[i]
  BY ChildType
<1>2. Len(p) \in Nat /\ Len(q) \in Nat
  BY RangeType, AddrAssumption
<1>3. q # c /\ Len(q) <= Len(c) /\ \A i \in 1..Len(q) : q[i] = c[i]
  BY DEF ContainsPrefix
<1> HIDE DEF c
<1>4. Len(q) # Len(c)
  BY <1>1, <1>3, SameRange
<1>5. Len(q) <= Len(p)
  BY <1>1, <1>2, <1>3, <1>4
<1> QED
  BY <1>1, <1>2, <1>3, <1>5 DEF ContainsPrefix

\* A range all of whose addresses a shortest set holds is held by one range of it.
LEMMA Held ==
    ASSUME NEW B \in SUBSET Ranges, Shortest(B)
    PROVE  \A p \in Ranges : Cover({p}) \subseteq Cover(B) => \E q \in B : ContainsPrefix(q, p)
<1> DEFINE Ok(p) == Cover({p}) \subseteq Cover(B) => \E q \in B : ContainsPrefix(q, p)
           S == {d \in 0..AddrBits : \A p \in Ranges : Len(p) = AddrBits - d => Ok(p)}
<1>0. AddrBits \in Nat
  BY AddrAssumption
<1>1. 0 \in S
  <2> SUFFICES ASSUME NEW p \in Ranges, Len(p) = AddrBits, Cover({p}) \subseteq Cover(B)
               PROVE  \E q \in B : ContainsPrefix(q, p)
    BY <1>0
  <2>1. p \in Addr
    BY RangeType DEF Addr
  <2>2. p \in Cover({p})
    BY <2>1, ContainsSelf DEF Cover
  <2> QED
    BY <2>2 DEF Cover
<1>2. ASSUME NEW d \in 0..AddrBits - 1, d \in S PROVE d + 1 \in S
  <2>1. d \in Nat /\ d + 1 \in 0..AddrBits
    BY <1>0
  <2> SUFFICES ASSUME NEW p \in Ranges, Len(p) = AddrBits - (d + 1), Cover({p}) \subseteq Cover(B)
               PROVE  \E q \in B : ContainsPrefix(q, p)
    BY <2>1
  <2>2. Len(p) < AddrBits /\ Len(p) + 1 = AddrBits - d
    BY <1>0, <2>1
  <2>3. ASSUME NEW b \in Bit PROVE \E q \in B : ContainsPrefix(q, Append(p, b))
    <3>1. /\ Append(p, b) \in Ranges /\ Len(Append(p, b)) = AddrBits - d
          /\ ContainsPrefix(p, Append(p, b))
      BY <2>2, ChildType
    <3>2. Cover({Append(p, b)}) \subseteq Cover(B)
      BY <3>1, CoverDown
    <3>3. Ok(Append(p, b))
      BY <1>2, <3>1
    <3> QED
      BY <3>2, <3>3
  <2>z. 0 \in Bit /\ 1 \in Bit
    BY DEF Bit
  <2> DEFINE c0 == Append(p, 0)
             c1 == Append(p, 1)
  <2>4. PICK q0 \in B : ContainsPrefix(q0, c0)
    BY <2>3, <2>z
  <2>5. PICK q1 \in B : ContainsPrefix(q1, c1)
    BY <2>3, <2>z
  <2>6. /\ c0 \in Ranges /\ c1 \in Ranges /\ Len(c0) = Len(c1) /\ Len(c0) # 0
        /\ Parent(c0) = Parent(c1)
    BY <2>2, <2>z, ChildType, ParentOfChild
  <2>7. c0 # c1
    <3>1. c0[Len(p) + 1] = 0 /\ c1[Len(p) + 1] = 1
      BY <2>2, <2>z, ChildType
    <3> HIDE DEF c0, c1
    <3> QED
      BY <3>1
  <2>8. ~(c0 \in B /\ c1 \in B)
    BY <2>6, <2>7, Zenon DEF Shortest
  <2>9. CASE q0 # c0
    BY <2>2, <2>4, <2>9, <2>z, HoldsParent
  <2>10. CASE q1 # c1
    BY <2>2, <2>5, <2>10, <2>z, HoldsParent
  <2> QED
    BY <2>8, <2>9, <2>10
<1> HIDE DEF S
<1>3. \A d \in 0..AddrBits - 1 : d \in S => d + 1 \in S
  BY <1>2
<1>4. \A d \in 0..AddrBits : d \in S
  BY <1>0, <1>1, <1>3, UpTo, Zenon
<1>5. ASSUME NEW p \in Ranges PROVE Ok(p)
  <2>1. Len(p) \in Nat /\ AddrBits - Len(p) \in 0..AddrBits /\ AddrBits - (AddrBits - Len(p)) = Len(p)
    BY <1>0, RangeType
  <2>2. AddrBits - Len(p) \in S
    BY <1>4, <2>1
  <2> HIDE DEF Ok
  <2> QED
    BY <2>1, <2>2 DEF S
<1> QED
  BY <1>5

\* There is one shortest set of ranges for a set of addresses.
LEMMA ShortestWithin ==
    ASSUME NEW A \in SUBSET Ranges, NEW B \in SUBSET Ranges, Shortest(A), Shortest(B),
           Cover(A) = Cover(B), NEW p \in A
    PROVE  p \in B
<1>1. Cover({p}) \subseteq Cover(B)
  BY CoverIn
<1>2. PICK q \in B : ContainsPrefix(q, p)
  BY <1>1, Held
<1>3. Cover({q}) \subseteq Cover(A)
  BY CoverIn
<1>4. PICK r \in A : ContainsPrefix(r, q)
  BY <1>3, Held
<1>5. p \in Ranges /\ q \in Ranges /\ r \in Ranges
  OBVIOUS
<1>6. ContainsPrefix(r, p)
  BY <1>2, <1>4, <1>5, ContainsTrans
<1>7. r = p
  BY <1>6 DEF Shortest
<1>8. p = q
  BY <1>2, <1>4, <1>5, <1>7, ContainsBoth
<1> QED
  BY <1>8

LEMMA ShortestUnique ==
    ASSUME NEW A \in SUBSET Ranges, NEW B \in SUBSET Ranges, Shortest(A), Shortest(B),
           Cover(A) = Cover(B)
    PROVE  A = B
<1>1. \A p \in A : p \in B
  BY ShortestWithin
<1>2. \A p \in B : p \in A
  BY ShortestWithin
<1> QED
  BY <1>1, <1>2

-------------------------------------------------------------------------------
(* The stack *)

\* The function of a loop, as a recursive definition gives it, exists and is
\* the states after each round.
LoopOf(h, n, x, g) == h = [k \in 0..n |-> IF k = 0 THEN x ELSE g[k][h[k - 1]]]

LEMMA LoopIs ==
    ASSUME NEW n \in Nat, NEW X, NEW x \in X, NEW g \in [1..n -> [X -> X]]
    PROVE  /\ \E h : LoopOf(h, n, x, g)
           /\ \A h : LoopOf(h, n, x, g) => h \in [0..n -> X]
<1>0. PICK f : RunOf(f, n, X, x, g)
  BY LoopRuns, Zenon
<1>1. f \in [0..n -> X] /\ f[0] = x /\ \A i \in 1..n : f[i] = g[i][f[i - 1]]
  BY <1>0 DEF RunOf
<1>2. f = [k \in 0..n |-> IF k = 0 THEN x ELSE g[k][f[k - 1]]]
  <2> DEFINE e == [k \in 0..n |-> IF k = 0 THEN x ELSE g[k][f[k - 1]]]
  <2>1. ASSUME NEW k \in 0..n PROVE e[k] = f[k]
    BY <1>1
  <2>2. DOMAIN e = 0..n /\ e = [k \in 0..n |-> e[k]]
    OBVIOUS
  <2> HIDE DEF e
  <2>3. f = e
    BY <1>1, <2>1, <2>2
  <2> QED
    BY <2>3 DEF e
<1>3. ASSUME NEW h, h = [k \in 0..n |-> IF k = 0 THEN x ELSE g[k][h[k - 1]]]
      PROVE  h \in [0..n -> X]
  <2> DEFINE S == {k \in 0..n : h[k] \in X}
  <2>0. h[0] = x /\ \A k \in 1..n : h[k] = g[k][h[k - 1]]
    BY <1>3
  <2>1. 0 \in S
    BY <2>0
  <2>2. ASSUME NEW k \in 0..n - 1, k \in S PROVE k + 1 \in S
    <3>1. k + 1 \in 1..n /\ k + 1 \in 0..n /\ (k + 1) - 1 = k /\ h[k] \in X
      BY <2>2
    <3>2. h[k + 1] = g[k + 1][h[k]] /\ g[k + 1] \in [X -> X]
      BY <2>0, <3>1
    <3> QED
      BY <3>1, <3>2
  <2> HIDE DEF S
  <2>3. \A k \in 0..n - 1 : k \in S => k + 1 \in S
    BY <2>2
  <2>4. \A k \in 0..n : k \in S
    BY <2>1, <2>3, UpTo, Zenon
  <2>5. \A k \in 0..n : h[k] \in X
    BY <2>4 DEF S
  <2>6. DOMAIN h = 0..n /\ h = [k \in 0..n |-> h[k]]
    BY <1>3
  <2> QED
    BY <2>5, <2>6
<1>4. \E h : LoopOf(h, n, x, g)
  BY <1>2 DEF LoopOf
<1> QED
  BY <1>3, <1>4, Zenon DEF LoopOf

\* From left to right.
Ascending(st) == \A a, b \in 1..Len(st) : a < b => LeftOf(st[a], st[b])

\* No two neighbours among the first m can be merged.
Unmerged(st, m) == \A a \in 1..m - 1 : ~Adjacent(st[a], st[a + 1])

\* Every range of t holds one of st.
Wider(t, st) == \A a \in 1..Len(t) : \E b \in 1..Len(st) : ContainsPrefix(t[a], st[b])

LEMMA Siblings ==
    ASSUME NEW p \in Ranges, NEW q \in Ranges, LeftOf(p, q),
           Len(p) = Len(q), Len(p) # 0, Parent(p) = Parent(q)
    PROVE  /\ p[Len(p)] = 0 /\ q[Len(p)] = 1
           /\ \A i \in 1..Len(p) - 1 : p[i] = q[i]
           /\ {p, q} = Children(Parent(p)) /\ Len(Parent(p)) < AddrBits /\ Parent(p) \in Ranges
<1>1. Len(p) \in Nat /\ AddrBits \in Nat
  BY RangeType, AddrAssumption
<1>2. \A i \in 1..Len(p) - 1 : p[i] = q[i]
  BY ParentType
<1>3. p[Len(p)] = 0 /\ q[Len(p)] = 1
  <2>1. PICK k \in 1..AddrBits :
          /\ k <= Len(p) /\ k <= Len(q) /\ p[k] = 0 /\ q[k] = 1
          /\ \A i \in 1..k - 1 : p[i] = q[i]
    BY DEF LeftOf
  <2>2. ~(k \in 1..Len(p) - 1)
    BY <1>2, <2>1
  <2>3. k = Len(p)
    BY <1>1, <2>1, <2>2
  <2> QED
    BY <2>1, <2>3
<1>4. /\ Parent(p) \in Ranges /\ Len(Parent(p)) < AddrBits
      /\ p = Append(Parent(p), 0) /\ q = Append(Parent(p), 1)
  BY <1>3, ChildOfParent
<1> DEFINE w == Parent(p)
<1>5. Children(w) = {Append(w, 0), Append(w, 1)}
  BY DEF Children, Bit
<1> QED
  BY <1>2, <1>3, <1>4, <1>5, Zenon

LEMMA AdjacentAreSiblings ==
    ASSUME NEW p \in Ranges, NEW q \in Ranges, Adjacent(p, q)
    PROVE  Len(p) = Len(q) /\ Len(p) # 0 /\ Parent(p) = Parent(q)
<1>1. /\ Len(p) = Len(q) /\ Len(p) # 0 /\ Len(p) \in Nat
      /\ p \in [1..Len(p) -> Bit] /\ q \in [1..Len(p) -> Bit]
  BY RangeType, AddrAssumption DEF Adjacent
<1>2. ASSUME NEW i \in 1..Len(p) - 1 PROVE p[i] = q[i]
  <2>0. Len(p) \in Nat
    BY <1>1
  <2>1. i \in 1..Len(p) /\ i # Len(p)
    BY <2>0
  <2>2. SetLastBit(p)[i] = p[i] /\ SetLastBit(q)[i] = q[i]
    BY <1>1, <2>1 DEF SetLastBit
  <2>3. SetLastBit(p) = q \/ SetLastBit(q) = p
    BY DEF Adjacent
  <2> QED
    BY <2>2, <2>3
<1>3. Parent(p) = Parent(q)
  BY <1>1, <1>2 DEF Parent
<1> QED
  BY <1>1, <1>3

LEMMA SiblingsAreAdjacent ==
    ASSUME NEW p \in Ranges, NEW q \in Ranges, LeftOf(p, q),
           Len(p) = Len(q), Len(p) # 0, Parent(p) = Parent(q)
    PROVE  Adjacent(p, q)
<1>1. /\ Len(p) \in Nat /\ Len(p) \in 1..Len(p)
      /\ p \in [1..Len(p) -> Bit] /\ q \in [1..Len(p) -> Bit]
  BY RangeType, AddrAssumption
<1>2. /\ p[Len(p)] = 0 /\ q[Len(p)] = 1 /\ 1 \in Bit
      /\ \A i \in 1..Len(p) - 1 : p[i] = q[i]
  BY Siblings DEF Bit
<1> DEFINE r == SetLastBit(p)
<1>3. r \in [1..Len(p) -> Bit] /\ \A i \in 1..Len(p) : r[i] = IF i = Len(p) THEN 1 ELSE p[i]
  BY <1>1, <1>2 DEF SetLastBit
<1> HIDE DEF r
<1>4. ASSUME NEW i \in 1..Len(p) PROVE r[i] = q[i]
  <2>1. CASE i = Len(p)
    BY <1>2, <1>3, <2>1
  <2>2. CASE i # Len(p)
    <3>0. Len(p) \in Nat
      BY <1>1
    <3>1. i \in 1..Len(p) - 1
      BY <2>2, <3>0
    <3> QED
      BY <1>2, <1>3, <2>2, <3>1
  <2> QED
    BY <2>1, <2>2
<1>6. r \in Ranges /\ Len(r) = Len(p)
  BY <1>3, RangeIs, RangeType
<1>5. r = q
  BY <1>4, <1>6, SameRange
<1> QED
  BY <1>2, <1>5 DEF Adjacent, r

\* The top two elements give way to one.
LEMMA TopReplaced ==
    ASSUME NEW X, NEW st \in Seq(X), Len(st) >= 2, NEW w \in X
    PROVE  LET t == Append(SubSeq(st, 1, Len(st) - 2), w)
           IN  /\ t \in Seq(X) /\ Len(t) = Len(st) - 1
               /\ \A a \in 1..Len(st) - 2 : t[a] = st[a]
               /\ t[Len(st) - 1] = w
<1> DEFINE s == SubSeq(st, 1, Len(st) - 2)
<1>1. Len(st) \in Nat
  OBVIOUS
<1>5. st \in [1..Len(st) -> X] /\ Len(st) - 2 \in Nat /\ Len(st) - 2 <= Len(st)
  BY <1>1
<1>6. s = [a \in 1..Len(st) - 2 |-> st[a]]
  BY <1>1, <1>5
<1>2. s \in Seq(X) /\ Len(s) = Len(st) - 2 /\ \A a \in 1..Len(st) - 2 : s[a] = st[a]
  <2>0. \A a \in 1..Len(st) - 2 : st[a] \in X
    BY <1>1, <1>5
  <2> HIDE DEF s
  <2>1. s \in [1..Len(st) - 2 -> X]
    BY <1>6, <2>0
  <2> QED
    BY <1>5, <1>6, <2>1
<1> HIDE DEF s
<1>3. /\ Append(s, w) \in Seq(X) /\ Len(Append(s, w)) = Len(s) + 1
      /\ \A a \in 1..Len(s) : Append(s, w)[a] = s[a]
      /\ Append(s, w)[Len(s) + 1] = w
  BY <1>2
<1>4. Len(s) + 1 = Len(st) - 1
  BY <1>1, <1>2
<1> QED
  BY <1>2, <1>3, <1>4 DEF s

LEMMA MergeStep ==
    ASSUME NEW st \in Seq(Ranges), Ascending(st), Unmerged(st, Len(st) - 1)
    PROVE  LET t == mergeAdjacentPrefixes[st]
           IN  /\ t \in Seq(Ranges) /\ Ascending(t) /\ Unmerged(t, Len(t) - 1)
               /\ Cover(Elements(t)) = Cover(Elements(st))
               /\ Wider(t, st)
               /\ Unmerged(t, Len(t)) \/ Len(t) = Len(st) - 1
<1> DEFINE m == Len(st)
           x == st[m - 1]
           y == st[m]
           w == Parent(x)
           t == mergeAdjacentPrefixes[st]
<1>0. m \in Nat /\ \A a \in 1..m : st[a] \in Ranges
  OBVIOUS
<1>1. CASE ~(m >= 2 /\ Adjacent(x, y))
  <2>1. t = st
    BY <1>1 DEF mergeAdjacentPrefixes
  <2>2. Unmerged(st, m)
    <3> SUFFICES ASSUME NEW a \in 1..m - 1, Adjacent(st[a], st[a + 1]) PROVE FALSE
      BY DEF Unmerged
    <3>1. a = m - 1 \/ a \in 1..(m - 1) - 1
      BY <1>0
    <3> QED
      BY <1>0, <1>1, <3>1 DEF Unmerged
  <2>3. Wider(st, st)
    BY <1>0, ContainsSelf DEF Wider
  <2> QED
    BY <2>1, <2>2, <2>3
<1>2. CASE m >= 2 /\ Adjacent(x, y)
  <2>1. m - 1 \in 1..m /\ m \in 1..m /\ m - 1 < m
    BY <1>0, <1>2
  <2>2. x \in Ranges /\ y \in Ranges /\ LeftOf(x, y)
    BY <1>0, <2>1 DEF Ascending
  <2> HIDE DEF x, y, m
  <2>3. Len(x) = Len(y) /\ Len(x) # 0 /\ Parent(x) = Parent(y)
    BY <1>2, <2>2, AdjacentAreSiblings
  <2>4. {x, y} = Children(w) /\ w \in Ranges /\ Len(w) < AddrBits /\ x[Len(x)] = 0
    BY <2>2, <2>3, Siblings
  <2>5. ContainsPrefix(w, x) /\ Len(w) = Len(x) - 1
    BY <2>2, <2>3, ParentType
  <2> HIDE DEF w
  <2>6. t = Append(SubSeq(st, 1, m - 2), w)
    BY <1>2 DEF mergeAdjacentPrefixes, m, x, y, w
  <2>7. /\ t \in Seq(Ranges) /\ Len(t) = m - 1
        /\ \A a \in 1..m - 2 : t[a] = st[a]
        /\ t[m - 1] = w
    BY <1>2, <2>4, <2>6, TopReplaced DEF m
  <2> HIDE DEF t
  <2>8. ASSUME NEW a \in 1..m - 2 PROVE LeftOf(st[a], w)
    <3>1. a \in 1..m /\ a < m - 1 /\ st[a] \in Ranges
      BY <1>0 DEF m
    <3>2. LeftOf(st[a], x)
      BY <2>1, <3>1 DEF Ascending, x, m
    <3>3. PICK k \in 1..AddrBits :
            /\ k <= Len(st[a]) /\ k <= Len(x) /\ st[a][k] = 0 /\ x[k] = 1
            /\ \A i \in 1..k - 1 : st[a][i] = x[i]
      BY <3>2 DEF LeftOf
    <3>4. Len(x) \in Nat /\ AddrBits \in Nat /\ k # Len(x)
      BY <2>2, <2>4, <3>3, RangeType, AddrAssumption
    <3>5. k <= Len(w)
      BY <2>5, <3>3, <3>4
    <3>6. \A i \in 1..Len(w) : w[i] = x[i]
      BY <2>5 DEF ContainsPrefix
    <3>7. w[k] = 1 /\ \A i \in 1..k - 1 : st[a][i] = w[i]
      BY <2>5, <3>3, <3>4, <3>5, <3>6
    <3> QED
      BY <3>3, <3>5, <3>7 DEF LeftOf
  <2>9. Ascending(t)
    <3> SUFFICES ASSUME NEW a \in 1..Len(t), NEW b \in 1..Len(t), a < b PROVE LeftOf(t[a], t[b])
      BY DEF Ascending
    <3>1. a \in 1..m - 2 /\ t[a] = st[a]
      BY <1>0, <2>7 DEF m
    <3>2. CASE b = m - 1
      BY <2>7, <2>8, <3>1, <3>2
    <3>3. CASE b \in 1..m - 2
      <4>1. t[b] = st[b] /\ a \in 1..Len(st) /\ b \in 1..Len(st)
        BY <1>0, <2>7, <3>1, <3>3 DEF m
      <4>2. LeftOf(st[a], st[b])
        BY <4>1 DEF Ascending
      <4> QED
        BY <3>1, <4>1, <4>2
    <3> QED
      BY <1>0, <2>7, <3>2, <3>3 DEF m
  <2>10. Unmerged(t, Len(t) - 1)
    <3> SUFFICES ASSUME NEW a \in 1..(Len(t) - 1) - 1 PROVE ~Adjacent(t[a], t[a + 1])
      BY DEF Unmerged
    <3>1. a \in 1..m - 2 /\ a + 1 \in 1..m - 2 /\ a \in 1..(m - 1) - 1
      BY <1>0, <2>7 DEF m
    <3>2. t[a] = st[a] /\ t[a + 1] = st[a + 1]
      BY <2>7, <3>1
    <3> QED
      BY <3>1, <3>2 DEF Unmerged, m
  <2>11. Wider(t, st)
    <3> SUFFICES ASSUME NEW a \in 1..Len(t)
                 PROVE  \E b \in 1..Len(st) : ContainsPrefix(t[a], st[b])
      BY DEF Wider
    <3>1. CASE a = m - 1
      BY <2>1, <2>5, <2>7, <3>1 DEF m, x
    <3>2. CASE a \in 1..m - 2
      <4>1. t[a] = st[a] /\ a \in 1..Len(st) /\ st[a] \in Ranges
        BY <1>0, <2>7, <3>2 DEF m
      <4> QED
        BY <4>1, ContainsSelf
    <3> QED
      BY <1>0, <2>7, <3>1, <3>2 DEF m
  <2>12. Cover(Elements(t)) = Cover(Elements(st))
    <3> DEFINE P == {st[i] : i \in 1..m - 2}
    <3>1. Elements(st) = P \cup {x, y}
      <4>1. ASSUME NEW i \in 1..m PROVE i \in 1..m - 2 \/ i = m - 1 \/ i = m
        BY <1>0 DEF m
      <4>2. ASSUME NEW i \in 1..m - 2 PROVE i \in 1..m
        BY <1>0 DEF m
      <4> QED
        BY <2>1, <4>1, <4>2 DEF Elements, m, x, y
    <3>2. Elements(t) = P \cup {w}
      <4>1. ASSUME NEW i \in 1..m - 1 PROVE i \in 1..m - 2 \/ i = m - 1
        BY <1>0 DEF m
      <4>2. ASSUME NEW i \in 1..m - 2 PROVE i \in 1..m - 1
        BY <1>0 DEF m
      <4>3. m - 1 \in 1..m - 1
        BY <1>0, <1>2 DEF m
      <4>4. Elements(t) = {t[i] : i \in 1..m - 1}
        BY <2>7 DEF Elements
      <4>5. \A i \in 1..m - 1 : t[i] \in P \cup {w}
        BY <2>7, <4>1
      <4>6. \A z \in P \cup {w} : \E i \in 1..m - 1 : t[i] = z
        BY <2>7, <4>2, <4>3
      <4> QED
        BY <4>4, <4>5, <4>6
    <3> HIDE DEF P
    <3>3. Cover({x, y}) = Cover({w})
      BY <2>4, CoverChildren
    <3> DEFINE Q == {x, y}
               R == {w}
    <3>4. Elements(st) = P \cup Q /\ Elements(t) = P \cup R /\ Cover(Q) = Cover(R)
      BY <3>1, <3>2, <3>3
    <3> HIDE DEF Q, R
    <3>5. Cover(P \cup Q) = Cover(P) \cup Cover(Q) /\ Cover(P \cup R) = Cover(P) \cup Cover(R)
      BY CoverUnion
    <3> QED
      BY <3>4, <3>5
  <2>13. Len(t) = Len(st) - 1
    BY <2>7 DEF m
  <2> QED
    BY <2>7, <2>9, <2>10, <2>11, <2>12, <2>13 DEF t
<1> QED
  BY <1>1, <1>2

LEMMA WiderTrans ==
    ASSUME NEW r \in Seq(Ranges), NEW s \in Seq(Ranges), NEW t \in Seq(Ranges),
           Wider(r, s), Wider(s, t)
    PROVE  Wider(r, t)
<1> SUFFICES ASSUME NEW a \in 1..Len(r) PROVE \E c \in 1..Len(t) : ContainsPrefix(r[a], t[c])
  BY DEF Wider
<1>1. PICK b \in 1..Len(s) : ContainsPrefix(r[a], s[b])
  BY DEF Wider
<1>2. PICK c \in 1..Len(t) : ContainsPrefix(s[b], t[c])
  BY DEF Wider
<1>3. r[a] \in Ranges /\ s[b] \in Ranges /\ t[c] \in Ranges
  OBVIOUS
<1> QED
  BY <1>1, <1>2, <1>3, ContainsTrans

\* The loop that merges, as a function.
LEMMA MergeAllRuns ==
    ASSUME NEW st \in Seq(Ranges)
    PROVE  \E f \in [0..Len(st) -> Seq(Ranges)] :
             /\ f[0] = st
             /\ \A k \in 1..Len(st) : f[k] = mergeAdjacentPrefixes[f[k - 1]]
             /\ mergeAll(st) = f[Len(st)]
<1> DEFINE n == Len(st)
           X == Seq(Ranges)
           g == [k \in 1..n |-> mergeAdjacentPrefixes]
           f == CHOOSE h : h = [k \in 0..n |-> IF k = 0 THEN st ELSE mergeAdjacentPrefixes[h[k - 1]]]
<1>1. n \in Nat /\ st \in X
  OBVIOUS
<1>2. mergeAdjacentPrefixes \in [X -> X]
  <2>1. ASSUME NEW s \in X,  Len(s) >= 2, Adjacent(s[Len(s) - 1], s[Len(s)])
        PROVE  Append(SubSeq(s, 1, Len(s) - 2), Parent(s[Len(s) - 1])) \in X
    <3>1. Len(s) \in Nat /\ s[Len(s) - 1] \in Ranges /\ s[Len(s)] \in Ranges
      BY <2>1
    <3>2. Parent(s[Len(s) - 1]) \in Ranges
      BY <2>1, <3>1, ParentType DEF Adjacent
    <3> QED
      BY <2>1, <3>2, TopReplaced
  <2> QED
    BY <2>1 DEF mergeAdjacentPrefixes
<1>3. g \in [1..n -> [X -> X]]
  BY <1>2
<1> HIDE DEF X
<1>4. ASSUME NEW h PROVE [k \in 0..n |-> IF k = 0 THEN st ELSE g[k][h[k - 1]]]
                       = [k \in 0..n |-> IF k = 0 THEN st ELSE mergeAdjacentPrefixes[h[k - 1]]]
  <2>1. ASSUME NEW k \in 0..n, k # 0 PROVE g[k] = mergeAdjacentPrefixes
    BY <1>1, <2>1
  <2> HIDE DEF g, n
  <2> QED
    BY <2>1
<1> HIDE DEF g
<1>5. (\E h : LoopOf(h, n, st, g)) /\ \A h : LoopOf(h, n, st, g) => h \in [0..n -> X]
  BY <1>1, <1>3, LoopIs, Zenon
<1>6. \E h : h = [k \in 0..n |-> IF k = 0 THEN st ELSE mergeAdjacentPrefixes[h[k - 1]]]
  <2>1. PICK h : LoopOf(h, n, st, g)
    BY <1>5, Zenon
  <2>2. h = [k \in 0..n |-> IF k = 0 THEN st ELSE mergeAdjacentPrefixes[h[k - 1]]]
    BY <1>4, <2>1, Zenon DEF LoopOf
  <2> QED
    BY <2>2, Zenon
<1>7. f = [k \in 0..n |-> IF k = 0 THEN st ELSE mergeAdjacentPrefixes[f[k - 1]]]
  BY <1>6, Zenon
<1>8. mergeAll(st) = f[Len(st)]
  BY DEF mergeAll
<1> HIDE DEF f
<1>11. LoopOf(f, n, st, g)
  BY <1>4, <1>7, Zenon DEF LoopOf
<1>9. f \in [0..n -> X]
  BY <1>5, <1>11, Zenon
<1>10. f[0] = st /\ \A k \in 1..n : f[k] = mergeAdjacentPrefixes[f[k - 1]]
  <2>1. 0 \in 0..n /\ \A k \in 1..n : k \in 0..n /\ k # 0
    BY <1>1
  <2> HIDE DEF n
  <2> QED
    BY <1>7, <2>1
<1> QED
  BY <1>8, <1>9, <1>10 DEF X

\* All merges: no neighbours are left that could be merged.
LEMMA MergeAllIs ==
    ASSUME NEW st \in Seq(Ranges), Ascending(st), Unmerged(st, Len(st) - 1)
    PROVE  LET t == mergeAll(st)
           IN  /\ t \in Seq(Ranges) /\ Ascending(t) /\ Unmerged(t, Len(t))
               /\ Cover(Elements(t)) = Cover(Elements(st))
               /\ Wider(t, st)
<1> DEFINE n == Len(st)
<1>1. PICK f \in [0..n -> Seq(Ranges)] :
             /\ f[0] = st
             /\ \A k \in 1..n : f[k] = mergeAdjacentPrefixes[f[k - 1]]
             /\ mergeAll(st) = f[n]
  BY MergeAllRuns
<1> DEFINE Good(t, k) ==
             /\ Ascending(t) /\ Unmerged(t, Len(t) - 1)
             /\ Cover(Elements(t)) = Cover(Elements(st))
             /\ Wider(t, st)
             /\ Unmerged(t, Len(t)) \/ Len(t) <= n - k
           S == {k \in 0..n : Good(f[k], k)}
<1>2. n \in Nat
  OBVIOUS
<1>3. 0 \in S
  <2>1. Wider(st, st)
    BY ContainsSelf DEF Wider
  <2> QED
    BY <1>1, <1>2, <2>1
<1>4. ASSUME NEW k \in 0..n - 1, k \in S PROVE k + 1 \in S
  <2>1. k \in 0..n /\ k + 1 \in 0..n /\ k + 1 \in 1..n /\ (k + 1) - 1 = k
    BY <1>2
  <2> DEFINE s == f[k]
             t == f[k + 1]
  <2>2. s \in Seq(Ranges) /\ t = mergeAdjacentPrefixes[s] /\ Good(s, k)
    BY <1>1, <1>4, <2>1
  <2> HIDE DEF s, t
  <2>3. /\ t \in Seq(Ranges) /\ Ascending(t) /\ Unmerged(t, Len(t) - 1)
        /\ Cover(Elements(t)) = Cover(Elements(s))
        /\ Wider(t, s)
        /\ Unmerged(t, Len(t)) \/ Len(t) = Len(s) - 1
    BY <2>2, MergeStep
  <2>4. Wider(t, st)
    BY <2>2, <2>3, WiderTrans
  <2>5. ASSUME Unmerged(s, Len(s)) PROVE t = s
    <3>1. ASSUME Len(s) >= 2 PROVE ~Adjacent(s[Len(s) - 1], s[Len(s)])
      <4>1. Len(s) \in Nat
        BY <2>2
      <4>2. Len(s) - 1 \in 1..Len(s) - 1 /\ (Len(s) - 1) + 1 = Len(s)
        BY <3>1, <4>1
      <4> QED
        BY <2>5, <4>2 DEF Unmerged
    <3> QED
      BY <2>2, <3>1 DEF mergeAdjacentPrefixes
  <2>6. Unmerged(t, Len(t)) \/ Len(t) <= n - (k + 1)
    <3>1. CASE Unmerged(s, Len(s))
      BY <2>5, <3>1
    <3>2. CASE Len(s) <= n - k
      <4>1. Len(s) \in Nat /\ Len(t) \in Nat
        BY <2>2, <2>3
      <4> QED
        BY <1>2, <2>1, <2>3, <3>2, <4>1
    <3> QED
      BY <2>2, <3>1, <3>2
  <2>7. Good(t, k + 1)
    BY <2>2, <2>3, <2>4, <2>6
  <2> HIDE DEF Good
  <2> QED
    BY <2>1, <2>7 DEF t
<1> HIDE DEF S
<1>5. \A k \in 0..n - 1 : k \in S => k + 1 \in S
  BY <1>4
<1>6. \A k \in 0..n : k \in S
  BY <1>2, <1>3, <1>5, UpTo, Zenon
<1>7. n \in 0..n /\ n \in S
  BY <1>2, <1>6
<1>8. Good(f[n], n)
  BY <1>7 DEF S
<1>9. f[n] \in Seq(Ranges)
  BY <1>7
<1> DEFINE t == f[n]
<1>10. Unmerged(t, Len(t))
  <2>1. CASE Len(t) <= n - n
    <3>1. Len(t) \in Nat
      BY <1>9
    <3>2. Len(t) = 0
      BY <1>2, <2>1, <3>1
    <3> QED
      BY <3>2 DEF Unmerged
  <2> QED
    BY <1>8, <2>1
<1> QED
  BY <1>1, <1>8, <1>9, <1>10

LEMMA PushDef ==
    ASSUME NEW st \in Seq(Ranges), NEW p \in Ranges
    PROVE  Push(p)[st] = IF st # <<>> /\ ContainsPrefix(st[Len(st)], p) THEN st
                         ELSE mergeAll(Append(st, p))
BY DEF Push

LEMMA PushType ==
    ASSUME NEW st \in Seq(Ranges), NEW p \in Ranges
    PROVE  Push(p)[st] \in Seq(Ranges)
<1>1. Append(st, p) \in Seq(Ranges)
  OBVIOUS
<1> DEFINE s == Append(st, p)
<1> HIDE DEF s
<1>2. s \in Seq(Ranges) /\ Len(s) \in 0..Len(s)
  BY <1>1 DEF s
<1>3. mergeAll(s) \in Seq(Ranges)
  BY <1>2, MergeAllRuns
<1> QED
  BY <1>3, PushDef DEF s

\* One round of AggregatePrefixes: done are the ranges before p.
LEMMA PushStep ==
    ASSUME NEW st \in Seq(Ranges), Ascending(st), Unmerged(st, Len(st)),
           NEW p \in Ranges, NEW done \in SUBSET Ranges,
           \A q \in done : Before(q, p),
           \A a \in 1..Len(st) : \E q \in done : ContainsPrefix(st[a], q)
    PROVE  LET t == Push(p)[st]
           IN  /\ t \in Seq(Ranges) /\ Ascending(t) /\ Unmerged(t, Len(t))
               /\ Cover(Elements(t)) = Cover(Elements(st)) \cup Cover({p})
               /\ \A a \in 1..Len(t) : \E q \in done \cup {p} : ContainsPrefix(t[a], q)
<1> DEFINE m == Len(st)
<1>0. m \in Nat /\ (st # <<>> => m \in 1..m) /\ \A a \in 1..m : st[a] \in Ranges
  OBVIOUS
<1>1. CASE st # <<>> /\ ContainsPrefix(st[m], p)
  <2>1. Push(p)[st] = st
    BY <1>1, PushDef
  <2>2. Cover({p}) \subseteq Cover({st[m]})
    BY <1>0, <1>1, CoverDown
  <2>3. st[m] \in Elements(st)
    BY <1>0, <1>1 DEF Elements
  <2>4. Cover({p}) \subseteq Cover(Elements(st))
    BY <2>2, <2>3, CoverIn
  <2>5. Cover(Elements(st)) = Cover(Elements(st)) \cup Cover({p})
    BY <2>4
  <2> QED
    BY <2>1, <2>5
<1>2. CASE ~(st # <<>> /\ ContainsPrefix(st[m], p))
  <2> DEFINE s == Append(st, p)
  <2>1. Push(p)[st] = mergeAll(s)
    BY <1>2, PushDef
  <2>2. /\ s \in Seq(Ranges) /\ Len(s) = m + 1 /\ s[m + 1] = p
        /\ \A a \in 1..m : s[a] = st[a]
    OBVIOUS
  <2>3. ASSUME st # <<>> PROVE LeftOf(st[m], p)
    <3>1. m \in 1..m /\ st[m] \in Ranges /\ ~ContainsPrefix(st[m], p)
      BY <1>0, <1>2, <2>3
    <3>2. PICK q \in done : ContainsPrefix(st[m], q)
      BY <3>1
    <3>3. q \in Ranges /\ (LeftOf(q, p) \/ ContainsPrefix(q, p))
      BY BeforeMeans
    <3>4. ~ContainsPrefix(q, p)
      BY <3>1, <3>2, <3>3, ContainsTrans
    <3> QED
      BY <3>1, <3>2, <3>3, <3>4, LeftUp
  <2>4. ASSUME NEW a \in 1..m PROVE LeftOf(st[a], p)
    <3>1. st # <<>> /\ m \in 1..m /\ st[a] \in Ranges /\ st[m] \in Ranges
      BY <1>0
    <3>2. CASE a = m
      BY <2>3, <3>1, <3>2
    <3>3. CASE a < m
      <4>1. LeftOf(st[a], st[m])
        BY <3>1, <3>3 DEF Ascending
      <4> QED
        BY <2>3, <3>1, <4>1, LeftTrans
    <3> QED
      BY <1>0, <3>2, <3>3
  <2> HIDE DEF s
  <2>5. Ascending(s)
    <3> SUFFICES ASSUME NEW a \in 1..Len(s), NEW b \in 1..Len(s), a < b PROVE LeftOf(s[a], s[b])
      BY DEF Ascending
    <3>1. a \in 1..m /\ s[a] = st[a] /\ (b = m + 1 \/ b \in 1..m)
      BY <1>0, <2>2
    <3>2. CASE b = m + 1
      BY <2>2, <2>4, <3>1, <3>2
    <3>3. CASE b \in 1..m
      <4>1. LeftOf(st[a], st[b])
        BY <3>1, <3>3 DEF Ascending
      <4> QED
        BY <2>2, <3>1, <3>3, <4>1
    <3> QED
      BY <3>1, <3>2, <3>3
  <2>6. Unmerged(s, Len(s) - 1)
    <3> SUFFICES ASSUME NEW a \in 1..(Len(s) - 1) - 1 PROVE ~Adjacent(s[a], s[a + 1])
      BY DEF Unmerged
    <3>1. a \in 1..m - 1 /\ a \in 1..m /\ a + 1 \in 1..m
      BY <1>0, <2>2
    <3>2. s[a] = st[a] /\ s[a + 1] = st[a + 1]
      BY <2>2, <3>1
    <3> QED
      BY <3>1, <3>2 DEF Unmerged
  <2> DEFINE t == mergeAll(s)
  <2>7. /\ t \in Seq(Ranges) /\ Ascending(t) /\ Unmerged(t, Len(t))
        /\ Cover(Elements(t)) = Cover(Elements(s))
        /\ Wider(t, s)
    BY <2>2, <2>5, <2>6, MergeAllIs
  <2> HIDE DEF t
  <2>8. Cover(Elements(s)) = Cover(Elements(st)) \cup Cover({p})
    <3> DEFINE E == Elements(st)
               P == {p}
    <3>1. \A a \in 1..m + 1 : a = m + 1 \/ a \in 1..m
      BY <1>0
    <3>2. (m + 1) \in 1..m + 1 /\ \A a \in 1..m : a \in 1..m + 1
      BY <1>0
    <3>3. Elements(s) = E \cup P
      <4>1. Elements(s) = {s[i] : i \in 1..m + 1}
        BY <2>2 DEF Elements
      <4>2. \A i \in 1..m + 1 : s[i] \in E \cup P
        BY <2>2, <3>1 DEF Elements
      <4>3. \A z \in E \cup P : \E i \in 1..m + 1 : s[i] = z
        BY <2>2, <3>2 DEF Elements
      <4> QED
        BY <4>1, <4>2, <4>3
    <3> HIDE DEF E, P
    <3>4. Cover(E \cup P) = Cover(E) \cup Cover(P)
      BY CoverUnion
    <3> QED
      BY <3>3, <3>4 DEF E, P
  <2>9. ASSUME NEW a \in 1..Len(t) PROVE \E q \in done \cup {p} : ContainsPrefix(t[a], q)
    <3>1. PICK b \in 1..Len(s) : ContainsPrefix(t[a], s[b])
      BY <2>7 DEF Wider
    <3>2. t[a] \in Ranges /\ s[b] \in Ranges
      BY <2>2, <2>7
    <3>3. CASE b = m + 1
      BY <2>2, <3>1, <3>3
    <3>4. CASE b \in 1..m
      <4>1. PICK q \in done : ContainsPrefix(st[b], q)
        BY <3>4
      <4>2. s[b] = st[b] /\ q \in Ranges
        BY <2>2, <3>4
      <4> QED
        BY <3>1, <3>2, <4>1, <4>2, ContainsTrans
    <3> QED
      BY <1>0, <2>2, <3>3, <3>4
  <2> QED
    BY <2>1, <2>7, <2>8, <2>9 DEF t
<1> QED
  BY <1>1, <1>2

LEMMA AggregateRuns ==
    ASSUME NEW ps \in SUBSET Ranges
    PROVE  \E f \in [0..Cardinality(ps) -> Seq(Ranges)] :
             /\ f[0] = <<>>
             /\ \A i \in 1..Cardinality(ps) : f[i] = Push(Sorted(ps)[i])[f[i - 1]]
             /\ AggregatePrefixes(ps) = f[Cardinality(ps)]
<1> DEFINE n == Cardinality(ps)
           L == Sorted(ps)
           X == Seq(Ranges)
           g == [i \in 1..n |-> [st \in X |-> Push(L[i])[st]]]
           f == CHOOSE h : h = [i \in 0..n |-> IF i = 0 THEN <<>> ELSE Push(L[i])[h[i - 1]]]
<1>1. n \in Nat /\ <<>> \in X /\ \A i \in 1..n : L[i] \in Ranges
  BY SortedIs
<1>2. ASSUME NEW i \in 1..n, NEW st \in X PROVE Push(L[i])[st] \in X
  BY <1>1, PushType
<1> HIDE DEF X, L, n
<1>3. g \in [1..n -> [X -> X]]
  BY <1>2
<1>4. (\E h : LoopOf(h, n, <<>>, g)) /\ \A h : LoopOf(h, n, <<>>, g) => h \in [0..n -> X]
  <2> DEFINE x == <<>>
  <2>1. x \in X
    BY <1>1
  <2> HIDE DEF x, g
  <2>2. (\E h : LoopOf(h, n, x, g)) /\ \A h : LoopOf(h, n, x, g) => h \in [0..n -> X]
    BY <1>1, <1>3, <2>1, LoopIs, Zenon
  <2> QED
    BY <2>2 DEF x
<1>5. PICK h : LoopOf(h, n, <<>>, g)
  BY <1>4, Zenon
<1>6. h \in [0..n -> X] /\ h = [i \in 0..n |-> IF i = 0 THEN <<>> ELSE g[i][h[i - 1]]]
  BY <1>4, <1>5, Zenon DEF LoopOf
<1>7. ASSUME NEW i \in 0..n, i # 0 PROVE g[i][h[i - 1]] = Push(L[i])[h[i - 1]]
  <2>1. i \in 1..n /\ i - 1 \in 0..n
    BY <1>1, <1>7
  <2>2. h[i - 1] \in X
    BY <1>6, <2>1
  <2> QED
    BY <2>1, <2>2
<1> HIDE DEF g
<1>8. h = [i \in 0..n |-> IF i = 0 THEN <<>> ELSE Push(L[i])[h[i - 1]]]
  <2>1. [i \in 0..n |-> IF i = 0 THEN <<>> ELSE g[i][h[i - 1]]]
        = [i \in 0..n |-> IF i = 0 THEN <<>> ELSE Push(L[i])[h[i - 1]]]
    BY <1>7
  <2> QED
    BY <1>6, <2>1, Zenon
<1>9. \E e : e = [i \in 0..n |-> IF i = 0 THEN <<>> ELSE Push(L[i])[e[i - 1]]]
  BY <1>8, Zenon
<1>10. f = [i \in 0..n |-> IF i = 0 THEN <<>> ELSE Push(L[i])[f[i - 1]]]
  BY <1>9, Zenon
<1>11. AggregatePrefixes(ps) = f[n]
  BY DEF AggregatePrefixes, L, n
<1> HIDE DEF f
<1>12. f[0] = <<>> /\ \A i \in 1..n : f[i] = Push(L[i])[f[i - 1]]
  <2>1. 0 \in 0..n /\ \A k \in 1..n : k \in 0..n /\ k # 0
    BY <1>1
  <2> QED
    BY <1>10, <2>1
<1>13. f \in [0..n -> X]
  <2> DEFINE S == {i \in 0..n : f[i] \in X}
  <2>1. 0 \in S
    BY <1>1, <1>12
  <2>2. ASSUME NEW i \in 0..n - 1, i \in S PROVE i + 1 \in S
    <3>1. i + 1 \in 1..n /\ i + 1 \in 0..n /\ (i + 1) - 1 = i /\ f[i] \in X
      BY <1>1, <2>2
    <3>2. f[i + 1] = Push(L[i + 1])[f[i]]
      BY <1>12, <3>1
    <3>3. f[i + 1] \in X
      BY <1>2, <3>1, <3>2
    <3> QED
      BY <3>1, <3>3
  <2> HIDE DEF S
  <2>3. \A i \in 0..n - 1 : i \in S => i + 1 \in S
    BY <2>2
  <2>4. \A i \in 0..n : i \in S
    BY <1>1, <2>1, <2>3, UpTo, Zenon
  <2>5. \A i \in 0..n : f[i] \in X
    BY <2>4 DEF S
  <2>6. DOMAIN f = 0..n /\ f = [i \in 0..n |-> f[i]]
    BY <1>10
  <2> QED
    BY <2>5, <2>6
<1> QED
  BY <1>11, <1>12, <1>13 DEF X, L, n

\* Siblings on the stack are neighbours on it, so none are left.
LEMMA StackShortest ==
    ASSUME NEW st \in Seq(Ranges), Ascending(st), Unmerged(st, Len(st))
    PROVE  Shortest(Elements(st))
<1>0. Len(st) \in Nat /\ \A a \in 1..Len(st) : st[a] \in Ranges
  OBVIOUS
<1>1. ASSUME NEW a \in 1..Len(st), NEW b \in 1..Len(st), a < b
      PROVE  /\ ~ContainsPrefix(st[a], st[b]) /\ ~ContainsPrefix(st[b], st[a])
             /\ ~(Len(st[a]) = Len(st[b]) /\ Len(st[a]) # 0 /\ Parent(st[a]) = Parent(st[b]))
  <2> DEFINE p == st[a]
             q == st[b]
             c == st[a + 1]
  <2>1. LeftOf(p, q)
    BY <1>1 DEF Ascending
  <2>2. p \in Ranges /\ q \in Ranges /\ a + 1 \in 1..Len(st) /\ c \in Ranges
    BY <1>0, <1>1
  <2>3. ~ContainsPrefix(p, q) /\ ~ContainsPrefix(q, p)
    BY <2>1, <2>2, LeftApart
  <2>4. ASSUME Len(p) = Len(q), Len(p) # 0, Parent(p) = Parent(q) PROVE FALSE
    <3>1. CASE b = a + 1
      <4>1. Adjacent(p, q)
        BY <2>1, <2>2, <2>4, SiblingsAreAdjacent
      <4>2. a \in 1..Len(st) - 1
        BY <1>0, <3>1
      <4> QED
        BY <3>1, <4>1, <4>2 DEF Unmerged
    <3>2. CASE a + 1 < b
      <4>1. LeftOf(p, c) /\ LeftOf(c, q)
        BY <1>0, <2>2, <3>2 DEF Ascending
      <4>2. /\ p[Len(p)] = 0 /\ q[Len(p)] = 1
            /\ \A i \in 1..Len(p) - 1 : p[i] = q[i]
        BY <2>1, <2>2, <2>4, Siblings
      <4> HIDE DEF p, q, c
      <4>3. Len(p) \in Nat /\ Len(c) \in Nat /\ AddrBits \in Nat
        BY <2>2, RangeType, AddrAssumption
      <4>4. PICK k \in 1..AddrBits :
              /\ k <= Len(p) /\ k <= Len(c) /\ p[k] = 0 /\ c[k] = 1
              /\ \A i \in 1..k - 1 : p[i] = c[i]
        BY <4>1 DEF LeftOf
      <4>5. CASE k = Len(p)
        <5>1. ASSUME NEW i \in 1..Len(q) PROVE q[i] = c[i]
          <6>1. CASE i = Len(p)
            BY <4>2, <4>4, <4>5, <6>1
          <6>2. CASE i \in 1..Len(p) - 1
            BY <4>2, <4>4, <4>5, <6>2
          <6> QED
            BY <2>4, <4>3, <6>1, <6>2
        <5>2. ContainsPrefix(q, c)
          BY <2>4, <4>4, <4>5, <5>1 DEF ContainsPrefix
        <5> QED
          BY <2>2, <4>1, <5>2, LeftApart
      <4>6. CASE k \in 1..Len(p) - 1
        <5>1. q[k] = 0 /\ \A i \in 1..k - 1 : q[i] = c[i]
          BY <4>2, <4>3, <4>4, <4>6
        <5>2. LeftOf(q, c)
          BY <2>4, <4>4, <5>1 DEF LeftOf
        <5> QED
          BY <2>2, <4>1, <5>2, LeftApart
      <4> QED
        BY <4>3, <4>4, <4>5, <4>6
    <3> QED
      BY <1>0, <1>1, <3>1, <3>2
  <2> QED
    BY <2>3, <2>4
<1> SUFFICES ASSUME NEW a \in 1..Len(st), NEW b \in 1..Len(st), st[a] # st[b]
             PROVE  /\ ~ContainsPrefix(st[a], st[b])
                    /\ ~(Len(st[a]) = Len(st[b]) /\ Len(st[a]) # 0 /\ Parent(st[a]) = Parent(st[b]))
  BY DEF Shortest, Elements
<1>2. a < b \/ b < a
  BY <1>0
<1>3. CASE a < b
  BY <1>1, <1>3
<1>4. CASE b < a
  <2>1. /\ ~ContainsPrefix(st[a], st[b])
        /\ ~(Len(st[b]) = Len(st[a]) /\ Len(st[b]) # 0 /\ Parent(st[b]) = Parent(st[a]))
    BY <1>1, <1>4
  <2> QED
    BY <2>1, Zenon
<1> QED
  BY <1>2, <1>3, <1>4

\* What AggregatePrefixes yields.
LEMMA AggregateIs ==
    ASSUME NEW ps \in SUBSET Ranges
    PROVE  LET out == Elements(AggregatePrefixes(ps))
           IN  out \subseteq Ranges /\ Cover(out) = Cover(ps) /\ Shortest(out)
<1> DEFINE n == Cardinality(ps)
           L == Sorted(ps)
           done(i) == {L[j] : j \in 1..i}
<1>0. /\ n \in Nat /\ L \in [1..n -> ps]
      /\ \A i, j \in 1..n : i < j => Before(L[i], L[j])
      /\ \A p \in ps : \E i \in 1..n : L[i] = p
  BY SortedIs
<1>1. PICK f \in [0..n -> Seq(Ranges)] :
             /\ f[0] = <<>>
             /\ \A i \in 1..n : f[i] = Push(L[i])[f[i - 1]]
             /\ AggregatePrefixes(ps) = f[n]
  BY AggregateRuns
<1> HIDE DEF n, L
<1> DEFINE Good(t, i) ==
             /\ Ascending(t) /\ Unmerged(t, Len(t))
             /\ Cover(Elements(t)) = Cover(done(i))
             /\ \A a \in 1..Len(t) : \E q \in done(i) : ContainsPrefix(t[a], q)
           S == {i \in 0..n : Good(f[i], i)}
<1>2. 0 \in S
  <2>1. Len(f[0]) = 0 /\ 1..0 = {} /\ 1..0 - 1 = {}
    BY <1>1
  <2>2. Elements(f[0]) = {} /\ done(0) = {}
    BY <2>1 DEF Elements
  <2>3. Ascending(f[0]) /\ Unmerged(f[0], Len(f[0]))
    BY <2>1 DEF Ascending, Unmerged
  <2>4. Cover(Elements(f[0])) = Cover(done(0))
    BY <2>2, Zenon
  <2>5. \A a \in 1..Len(f[0]) : \E q \in done(0) : ContainsPrefix(f[0][a], q)
    BY <2>1
  <2>6. Good(f[0], 0)
    BY <2>3, <2>4, <2>5
  <2> HIDE DEF Good
  <2> QED
    BY <1>0, <2>6
<1>3. ASSUME NEW i \in 0..n - 1, i \in S PROVE i + 1 \in S
  <2>1. i \in 0..n /\ i + 1 \in 0..n /\ i + 1 \in 1..n /\ (i + 1) - 1 = i /\ i \in Nat
    BY <1>0
  <2> DEFINE s == f[i]
             t == f[i + 1]
             p == L[i + 1]
  <2>2. s \in Seq(Ranges) /\ t = Push(p)[s] /\ Good(s, i) /\ p \in Ranges
    BY <1>0, <1>1, <1>3, <2>1
  <2>3. done(i) \in SUBSET Ranges /\ \A q \in done(i) : Before(q, p)
    <3>1. ASSUME NEW j \in 1..i PROVE L[j] \in Ranges /\ Before(L[j], p)
      BY <1>0, <2>1
    <3> QED
      BY <3>1
  <2>4. done(i + 1) = done(i) \cup {p}
    <3>1. \A j \in 1..i + 1 : j = i + 1 \/ j \in 1..i
      BY <2>1
    <3>2. i + 1 \in 1..i + 1 /\ \A j \in 1..i : j \in 1..i + 1
      BY <2>1
    <3> QED
      BY <3>1, <3>2
  <2> DEFINE D == done(i)
  <2> HIDE DEF s, t, p
  <2>5. /\ t \in Seq(Ranges) /\ Ascending(t) /\ Unmerged(t, Len(t))
        /\ Cover(Elements(t)) = Cover(Elements(s)) \cup Cover({p})
        /\ \A a \in 1..Len(t) : \E q \in D \cup {p} : ContainsPrefix(t[a], q)
    <3>1. /\ D \in SUBSET Ranges /\ \A q \in D : Before(q, p)
          /\ \A a \in 1..Len(s) : \E q \in D : ContainsPrefix(s[a], q)
          /\ Ascending(s) /\ Unmerged(s, Len(s))
      BY <2>2, <2>3
    <3> HIDE DEF D
    <3> QED
      BY <2>2, <3>1, PushStep
  <2>6. Cover(done(i + 1)) = Cover(D) \cup Cover({p})
    <3> DEFINE P == {p}
    <3> HIDE DEF D, P
    <3>1. Cover(D \cup P) = Cover(D) \cup Cover(P)
      BY CoverUnion
    <3> QED
      BY <2>4, <3>1 DEF D, P
  <2>7. Cover(Elements(s)) = Cover(D)
    BY <2>2
  <2>8. Good(t, i + 1)
    <3>1. \A a \in 1..Len(t) : \E q \in done(i + 1) : ContainsPrefix(t[a], q)
      BY <2>4, <2>5
    <3> HIDE DEF D, done
    <3> QED
      BY <2>5, <2>6, <2>7, <3>1
  <2> HIDE DEF Good
  <2> QED
    BY <2>1, <2>8 DEF t
<1> HIDE DEF S
<1>4. \A i \in 0..n - 1 : i \in S => i + 1 \in S
  BY <1>3
<1>5. \A i \in 0..n : i \in S
  BY <1>0, <1>2, <1>4, UpTo, Zenon
<1>6. n \in 0..n /\ n \in S
  BY <1>0, <1>5
<1>7. Good(f[n], n) /\ f[n] \in Seq(Ranges)
  BY <1>1, <1>6 DEF S
<1>8. done(n) = ps
  BY <1>0
<1> DEFINE t == f[n]
<1> HIDE DEF done
<1>9. Shortest(Elements(t)) /\ Cover(Elements(t)) = Cover(ps)
  BY <1>7, <1>8, StackShortest
<1>10. Elements(t) \subseteq Ranges
  BY <1>7 DEF Elements
<1> QED
  BY <1>1, <1>9, <1>10

-------------------------------------------------------------------------------
(* The prefix tree *)

\* The first bits of a range.
LEMMA FirstBits ==
    ASSUME NEW p \in Ranges, NEW k \in 0..Len(p)
    PROVE  LET u == SubSeq(p, 1, Len(p) - k)
           IN  /\ u \in Ranges /\ Len(u) = Len(p) - k
               /\ \A i \in 1..Len(p) - k : u[i] = p[i]
<1>1. p \in [1..Len(p) -> Bit] /\ p \in Seq(Bit)
  BY RangeType
<1>2. Len(p) \in Nat /\ Len(p) <= AddrBits /\ AddrBits \in Nat
  BY RangeType, AddrAssumption
<1> DEFINE m == Len(p) - k
           u == SubSeq(p, 1, m)
<1>3. m \in Nat /\ m <= Len(p) /\ m \in 0..AddrBits
  BY <1>2
<1> HIDE DEF m
<1>4. u = [i \in 1..m |-> p[i]]
  BY <1>1, <1>2, <1>3
<1>5. \A i \in 1..m : p[i] \in Bit
  BY <1>1, <1>2, <1>3
<1> HIDE DEF u
<1>6. u \in [1..m -> Bit]
  BY <1>4, <1>5
<1>7. u \in Ranges /\ Len(u) = m
  BY <1>3, <1>6, RangeIs
<1>8. \A i \in 1..m : u[i] = p[i]
  BY <1>4
<1> QED
  BY <1>7, <1>8 DEF m, u

\* No two ranges overlap.
Antichain(ps) == \A p, q \in ps : p # q => ~ContainsPrefix(p, q)

\* Any two siblings are u and another range.
SiblingsOf(ps, u) ==
    \A p, q \in ps :
        (p # q /\ Len(p) = Len(q) /\ Len(p) # 0 /\ Parent(p) = Parent(q)) => (u = p \/ u = q)

\* The other range of the pair.
LEMMA PairIsChildren ==
    ASSUME NEW p \in Ranges, NEW q \in Ranges, p # q,
           Len(p) = Len(q), Len(p) # 0, Parent(p) = Parent(q)
    PROVE  {p, q} = Children(Parent(p))
<1>1. ~ContainsPrefix(p, q) /\ ~ContainsPrefix(q, p)
  BY SameRange DEF ContainsPrefix
<1>2. CASE LeftOf(p, q)
  BY <1>2, Siblings
<1>3. CASE LeftOf(q, p)
  <2>1. {q, p} = Children(Parent(q))
    BY <1>3, Siblings
  <2> QED
    BY <2>1
<1> QED
  BY <1>1, <1>2, <1>3, Apart

\* One round of pruneToRoot: v is the parent of u.
LEMMA PruneStep ==
    ASSUME NEW nodes \in SUBSET Ranges, Antichain(nodes),
           NEW u \in Ranges, Len(u) # 0, SiblingsOf(nodes, u)
    PROVE  LET v == Parent(u)
               after == pruneNode(nodes, v)
           IN  /\ after \in SUBSET Ranges /\ Antichain(after) /\ SiblingsOf(after, v)
               /\ Cover(after) = Cover(nodes)
<1> DEFINE v == Parent(u)
           after == pruneNode(nodes, v)
<1>1. v \in Ranges /\ Len(v) < AddrBits
  BY ChildOfParent
<1>2. u \in Children(v)
  BY ChildOfParent DEF Children
<1> HIDE DEF v
<1>3. \A c \in Children(v) : c \in Ranges /\ ContainsPrefix(v, c) /\ Parent(c) = v /\ Len(c) = Len(v) + 1
  BY <1>1, ChildType, ParentOfChild DEF Children
<1>4. CASE ~(Children(v) \subseteq nodes)
  <2>1. after = nodes
    BY <1>4 DEF pruneNode
  <2>2. ASSUME NEW p \in nodes, NEW q \in nodes, p # q,
               Len(p) = Len(q), Len(p) # 0, Parent(p) = Parent(q)
        PROVE  FALSE
    <3>1. u = p \/ u = q
      BY <2>2 DEF SiblingsOf
    <3>2. Parent(p) = v
      BY <2>2, <3>1 DEF v
    <3>3. {p, q} = Children(v)
      BY <2>2, <3>2, PairIsChildren
    <3> QED
      BY <1>4, <3>3
  <2>3. SiblingsOf(nodes, v)
    BY <2>2 DEF SiblingsOf
  <2> QED
    BY <2>1, <2>3 DEF v
<1>5. CASE Children(v) \subseteq nodes
  <2>1. after = (nodes \ Children(v)) \cup {v}
    BY <1>5 DEF pruneNode
  <2>2. after \in SUBSET Ranges
    BY <1>1, <2>1
  <2>3. Len(v) \in Nat
    BY <1>1, RangeType, AddrAssumption
  <2>4. ASSUME NEW z \in nodes \ Children(v) PROVE ~ContainsPrefix(z, v) /\ ~ContainsPrefix(v, z)
    <3>1. z \in Ranges /\ z # u /\ u \in nodes
      BY <1>2, <1>5
    <3>2. ASSUME ContainsPrefix(z, v) PROVE FALSE
      <4>1. ContainsPrefix(z, u)
        BY <1>1, <1>2, <1>3, <3>1, <3>2, ContainsTrans
      <4> QED
        BY <3>1, <4>1 DEF Antichain
    <3>3. ASSUME ContainsPrefix(v, z) PROVE FALSE
      <4>1. Len(v) < Len(z)
        <5>1. Len(v) <= Len(z) /\ Len(z) \in Nat
          BY <3>1, <3>3, RangeType, AddrAssumption DEF ContainsPrefix
        <5>2. Len(v) # Len(z)
          <6>1. ASSUME Len(v) = Len(z) PROVE FALSE
            <7>1. v = z
              BY <1>1, <3>1, <3>3, <6>1, SameRange DEF ContainsPrefix
            <7> QED
              BY <1>1, <3>2, <7>1, ContainsSelf
          <6> QED
            BY <6>1
        <5> QED
          BY <2>3, <5>1, <5>2
      <4>2. PICK b \in Bit : ContainsPrefix(Append(v, b), z)
        BY <1>1, <3>1, <3>3, <4>1, ChildHolds
      <4>3. Append(v, b) \in Children(v)
        BY DEF Children
      <4>4. Append(v, b) \in nodes /\ Append(v, b) # z
        BY <1>5, <4>3
      <4> QED
        BY <4>2, <4>4 DEF Antichain
    <3> QED
      BY <3>2, <3>3
  <2>5. Antichain(after)
    <3> SUFFICES ASSUME NEW p \in after, NEW q \in after, p # q PROVE ~ContainsPrefix(p, q)
      BY DEF Antichain
    <3>1. CASE p = v
      BY <2>1, <2>4, <3>1
    <3>2. CASE q = v
      BY <2>1, <2>4, <3>2
    <3>3. CASE p # v /\ q # v
      <4>1. p \in nodes /\ q \in nodes
        BY <2>1, <3>3
      <4> QED
        BY <4>1 DEF Antichain
    <3> QED
      BY <3>1, <3>2, <3>3
  <2>6. SiblingsOf(after, v)
    <3> SUFFICES ASSUME NEW p \in after, NEW q \in after, p # q,
                        Len(p) = Len(q), Len(p) # 0, Parent(p) = Parent(q),
                        p # v, q # v
                 PROVE  FALSE
      BY DEF SiblingsOf
    <3>1. p \in nodes /\ q \in nodes /\ p # u /\ q # u
      BY <1>2, <2>1
    <3> QED
      BY <3>1 DEF SiblingsOf
  <2>7. Cover(after) = Cover(nodes)
    <3> DEFINE N == nodes \ Children(v)
               C == Children(v)
               V == {v}
    <3>1. after = N \cup V /\ nodes = N \cup C /\ Cover(C) = Cover(V)
      BY <1>1, <1>5, <2>1, CoverChildren
    <3> HIDE DEF N, C, V
    <3>2. Cover(N \cup V) = Cover(N) \cup Cover(V) /\ Cover(N \cup C) = Cover(N) \cup Cover(C)
      BY CoverUnion
    <3> QED
      BY <3>1, <3>2
  <2> QED
    BY <2>2, <2>5, <2>6, <2>7 DEF v
<1> QED
  BY <1>4, <1>5

LEMMA PruneType ==
    ASSUME NEW nodes \in SUBSET Ranges, NEW v \in Ranges
    PROVE  pruneNode(nodes, v) \in SUBSET Ranges
BY DEF pruneNode

LEMMA PruneRuns ==
    ASSUME NEW nodes \in SUBSET Ranges, NEW p \in Ranges
    PROVE  \E f \in [0..Len(p) -> SUBSET Ranges] :
             /\ f[0] = nodes
             /\ \A k \in 1..Len(p) : f[k] = pruneNode(f[k - 1], SubSeq(p, 1, Len(p) - k))
             /\ pruneToRoot(nodes, p) = f[Len(p)]
<1> DEFINE n == Len(p)
           X == SUBSET Ranges
           u(k) == SubSeq(p, 1, Len(p) - k)
           g == [k \in 1..n |-> [s \in X |-> pruneNode(s, u(k))]]
           f == CHOOSE h : h = [k \in 0..n |-> IF k = 0 THEN nodes ELSE pruneNode(h[k - 1], u(k))]
<1>1. n \in Nat /\ nodes \in X
  BY RangeType, AddrAssumption
<1>2. ASSUME NEW k \in 1..n, NEW s \in X PROVE pruneNode(s, u(k)) \in X
  <2>1. k \in 0..Len(p)
    BY <1>1
  <2>2. u(k) \in Ranges
    BY <2>1, FirstBits
  <2> QED
    BY <2>2, PruneType
<1>11. pruneToRoot(nodes, p) = f[n]
  BY DEF pruneToRoot
<1> HIDE DEF X, u, n
<1>3. g \in [1..n -> [X -> X]]
  BY <1>2
<1>4. (\E h : LoopOf(h, n, nodes, g)) /\ \A h : LoopOf(h, n, nodes, g) => h \in [0..n -> X]
  <2> HIDE DEF g
  <2> QED
    BY <1>1, <1>3, LoopIs, Zenon
<1>5. PICK h : LoopOf(h, n, nodes, g)
  BY <1>4, Zenon
<1>6. h \in [0..n -> X] /\ h = [k \in 0..n |-> IF k = 0 THEN nodes ELSE g[k][h[k - 1]]]
  BY <1>4, <1>5, Zenon DEF LoopOf
<1>7. ASSUME NEW k \in 0..n, k # 0 PROVE g[k][h[k - 1]] = pruneNode(h[k - 1], u(k))
  <2>1. k \in 1..n /\ k - 1 \in 0..n
    BY <1>1, <1>7
  <2>2. h[k - 1] \in X
    BY <1>6, <2>1
  <2> QED
    BY <2>1, <2>2
<1> HIDE DEF g
<1>8. h = [k \in 0..n |-> IF k = 0 THEN nodes ELSE pruneNode(h[k - 1], u(k))]
  <2>1. [k \in 0..n |-> IF k = 0 THEN nodes ELSE g[k][h[k - 1]]]
        = [k \in 0..n |-> IF k = 0 THEN nodes ELSE pruneNode(h[k - 1], u(k))]
    BY <1>7
  <2> QED
    BY <1>6, <2>1, Zenon
<1>9. \E e : e = [k \in 0..n |-> IF k = 0 THEN nodes ELSE pruneNode(e[k - 1], u(k))]
  BY <1>8, Zenon
<1>10. f = [k \in 0..n |-> IF k = 0 THEN nodes ELSE pruneNode(f[k - 1], u(k))]
  BY <1>9, Zenon
<1> HIDE DEF f
<1>12. f[0] = nodes /\ \A k \in 1..n : f[k] = pruneNode(f[k - 1], u(k))
  <2>1. 0 \in 0..n /\ \A k \in 1..n : k \in 0..n /\ k # 0
    BY <1>1
  <2> QED
    BY <1>10, <2>1
<1>13. f \in [0..n -> X]
  <2> DEFINE S == {k \in 0..n : f[k] \in X}
  <2>1. 0 \in S
    BY <1>1, <1>12
  <2>2. ASSUME NEW k \in 0..n - 1, k \in S PROVE k + 1 \in S
    <3>1. k + 1 \in 1..n /\ k + 1 \in 0..n /\ (k + 1) - 1 = k /\ f[k] \in X
      BY <1>1, <2>2
    <3>2. f[k + 1] = pruneNode(f[k], u(k + 1))
      BY <1>12, <3>1
    <3>3. f[k + 1] \in X
      BY <1>2, <3>1, <3>2
    <3> QED
      BY <3>1, <3>3
  <2> HIDE DEF S
  <2>3. \A k \in 0..n - 1 : k \in S => k + 1 \in S
    BY <2>2
  <2>4. \A k \in 0..n : k \in S
    BY <1>1, <2>1, <2>3, UpTo, Zenon
  <2>5. \A k \in 0..n : f[k] \in X
    BY <2>4 DEF S
  <2>6. DOMAIN f = 0..n /\ f = [k \in 0..n |-> f[k]]
    BY <1>10
  <2> QED
    BY <2>5, <2>6
<1> QED
  BY <1>11, <1>12, <1>13 DEF X, u, n

\* The walk to the root leaves no siblings.
LEMMA PruneToRootIs ==
    ASSUME NEW nodes \in SUBSET Ranges, Antichain(nodes), NEW p \in Ranges, SiblingsOf(nodes, p)
    PROVE  LET after == pruneToRoot(nodes, p)
           IN  after \in SUBSET Ranges /\ Cover(after) = Cover(nodes) /\ Shortest(after)
<1> DEFINE n == Len(p)
           u(k) == SubSeq(p, 1, Len(p) - k)
<1>0. n \in Nat
  BY RangeType, AddrAssumption
<1>1. PICK f \in [0..n -> SUBSET Ranges] :
             /\ f[0] = nodes
             /\ \A k \in 1..n : f[k] = pruneNode(f[k - 1], u(k))
             /\ pruneToRoot(nodes, p) = f[n]
  BY PruneRuns
<1>2. ASSUME NEW k \in 0..n
      PROVE  u(k) \in Ranges /\ Len(u(k)) = n - k /\ \A i \in 1..n - k : u(k)[i] = p[i]
  BY FirstBits
<1> HIDE DEF u, n
<1>3. u(0) = p
  <2>1. 0 \in 0..n /\ n - 0 = n
    BY <1>0
  <2>2. u(0) \in Ranges /\ Len(u(0)) = Len(p) /\ \A i \in 1..Len(p) : u(0)[i] = p[i]
    BY <1>2, <2>1 DEF n
  <2> QED
    BY <2>2, SameRange
<1>4. ASSUME NEW k \in 0..n - 1 PROVE Parent(u(k)) = u(k + 1) /\ Len(u(k)) # 0
  <2>1. k \in 0..n /\ k + 1 \in 0..n /\ n - k # 0 /\ (n - k) - 1 = n - (k + 1)
    BY <1>0
  <2> DEFINE x == u(k)
             y == u(k + 1)
  <2>2. x \in Ranges /\ Len(x) = n - k /\ \A i \in 1..n - k : x[i] = p[i]
    BY <1>2, <2>1
  <2>3. y \in Ranges /\ Len(y) = n - (k + 1) /\ \A i \in 1..n - (k + 1) : y[i] = p[i]
    BY <1>2, <2>1
  <2> HIDE DEF x, y
  <2>4. /\ Parent(x) \in Ranges /\ Len(Parent(x)) = n - (k + 1)
        /\ \A i \in 1..n - (k + 1) : Parent(x)[i] = x[i]
    BY <2>1, <2>2, ParentType
  <2>5. ASSUME NEW i \in 1..n - (k + 1) PROVE Parent(x)[i] = y[i]
    <3>1. i \in 1..n - k
      BY <1>0, <2>1
    <3> QED
      BY <2>2, <2>3, <2>4, <3>1
  <2>6. Parent(x) = y
    BY <2>3, <2>4, <2>5, SameRange
  <2> QED
    BY <2>1, <2>2, <2>6 DEF x, y
<1> DEFINE Good(t, k) == Antichain(t) /\ SiblingsOf(t, u(k)) /\ Cover(t) = Cover(nodes)
           S == {k \in 0..n : Good(f[k], k)}
<1>5. 0 \in S
  BY <1>0, <1>1, <1>3
<1>6. ASSUME NEW k \in 0..n - 1, k \in S PROVE k + 1 \in S
  <2>1. k \in 0..n /\ k + 1 \in 0..n /\ k + 1 \in 1..n /\ (k + 1) - 1 = k
    BY <1>0
  <2> DEFINE s == f[k]
             t == f[k + 1]
             x == u(k)
             y == u(k + 1)
  <2>2. /\ s \in SUBSET Ranges /\ Good(s, k) /\ t = pruneNode(s, y)
        /\ x \in Ranges /\ Len(x) # 0 /\ Parent(x) = y
    BY <1>1, <1>2, <1>4, <1>6, <2>1
  <2> HIDE DEF s, t
  <2>3. t \in SUBSET Ranges /\ Antichain(t) /\ SiblingsOf(t, y) /\ Cover(t) = Cover(s)
    <3>1. Antichain(s) /\ SiblingsOf(s, x)
      BY <2>2
    <3> HIDE DEF x, y
    <3> QED
      BY <2>2, <3>1, PruneStep
  <2>4. Good(t, k + 1)
    BY <2>2, <2>3
  <2> HIDE DEF Good
  <2> QED
    BY <2>1, <2>4 DEF t
<1> HIDE DEF S
<1>7. \A k \in 0..n - 1 : k \in S => k + 1 \in S
  BY <1>6
<1>8. \A k \in 0..n : k \in S
  BY <1>0, <1>5, <1>7, UpTo, Zenon
<1>9. n \in 0..n /\ n \in S
  BY <1>0, <1>8
<1> DEFINE t == f[n]
<1>10. Good(t, n) /\ t \in SUBSET Ranges
  BY <1>9 DEF S
<1>11. Len(u(n)) = 0
  BY <1>0, <1>2, <1>9
<1>12. Shortest(t)
  <2> HIDE DEF t
  <2> SUFFICES ASSUME NEW a \in t, NEW b \in t, a # b
               PROVE  /\ ~ContainsPrefix(a, b)
                      /\ ~(Len(a) = Len(b) /\ Len(a) # 0 /\ Parent(a) = Parent(b))
    BY DEF Shortest
  <2>1. ~ContainsPrefix(a, b)
    BY <1>10 DEF Antichain
  <2>2. ASSUME Len(a) = Len(b), Len(a) # 0, Parent(a) = Parent(b) PROVE FALSE
    <3>1. u(n) = a \/ u(n) = b
      BY <1>10, <2>2 DEF SiblingsOf
    <3> QED
      BY <1>11, <2>2, <3>1
  <2> QED
    BY <2>1, <2>2
<1> QED
  BY <1>1, <1>10, <1>12

\* One range more in the tree.
LEMMA AddIs ==
    ASSUME NEW nodes \in SUBSET Ranges, Shortest(nodes), NEW p \in Ranges
    PROVE  LET after == Add(nodes, p)
           IN  /\ after \in SUBSET Ranges /\ Shortest(after)
               /\ Cover(after) = Cover(nodes) \cup Cover({p})
<1>1. CASE \E q \in nodes : ContainsPrefix(q, p)
  <2>1. PICK q \in nodes : ContainsPrefix(q, p)
    BY <1>1
  <2>2. Cover({p}) \subseteq Cover({q}) /\ Cover({q}) \subseteq Cover(nodes)
    BY <2>1, CoverDown, CoverIn
  <2>3. Cover(nodes) = Cover(nodes) \cup Cover({p})
    BY <2>2
  <2>4. Add(nodes, p) = nodes
    BY <1>1 DEF Add
  <2> QED
    BY <2>3, <2>4
<1>2. CASE ~\E q \in nodes : ContainsPrefix(q, p)
  <2> DEFINE K == {q \in nodes : ~ContainsPrefix(p, q)}
             D == {q \in nodes : ContainsPrefix(p, q)}
             P == {p}
             N == AddNode(nodes, p)
  <2>1. N = K \cup P /\ nodes = K \cup D
    BY <1>2 DEF AddNode
  <2>2. Add(nodes, p) = pruneToRoot(N, p)
    BY <1>2 DEF Add
  <2>3. N \in SUBSET Ranges
    BY <2>1
  <2>4. Antichain(N)
    BY <1>2, <2>1 DEF Antichain, Shortest
  <2>5. SiblingsOf(N, p)
    BY <2>1 DEF SiblingsOf, Shortest
  <2>6. Cover(D) \subseteq Cover(P)
    <3> SUFFICES ASSUME NEW a \in Addr, NEW q \in D, ContainsPrefix(q, a) PROVE ContainsPrefix(p, a)
      BY DEF Cover
    <3> QED
      BY AddrIsRange, ContainsTrans
  <2> HIDE DEF K, D, P, N
  <2>7. Cover(K \cup P) = Cover(K) \cup Cover(P) /\ Cover(K \cup D) = Cover(K) \cup Cover(D)
    BY CoverUnion
  <2>8. Cover(N) = Cover(nodes) \cup Cover(P)
    BY <2>1, <2>6, <2>7
  <2> DEFINE after == pruneToRoot(N, p)
  <2>9. after \in SUBSET Ranges /\ Cover(after) = Cover(N) /\ Shortest(after)
    BY <2>3, <2>4, <2>5, PruneToRootIs
  <2> HIDE DEF after
  <2> QED
    BY <2>2, <2>8, <2>9 DEF P, after
<1> QED
  BY <1>1, <1>2

\* A tree of ranges no two of which overlap or could be merged.
Trees == {nodes \in SUBSET Ranges : Shortest(nodes)}

LEMMA TreeRuns ==
    ASSUME NEW list \in Seq(Ranges)
    PROVE  \E f \in [0..Len(list) -> Trees] :
             /\ f[0] = {}
             /\ \A i \in 1..Len(list) : f[i] = Add(f[i - 1], list[i])
             /\ AggregatePrefixesWithPrefixTree(list) = f[Len(list)]
<1> DEFINE n == Len(list)
           X == Trees
           z == {}
           g == [i \in 1..n |-> [s \in X |-> Add(s, list[i])]]
           f == CHOOSE h : h = [i \in 0..n |-> IF i = 0 THEN z ELSE Add(h[i - 1], list[i])]
<1>1. n \in Nat /\ z \in X
  BY DEF Trees, Shortest
<1>2. ASSUME NEW i \in 1..n, NEW s \in X PROVE Add(s, list[i]) \in X
  <2>1. list[i] \in Ranges
    OBVIOUS
  <2>2. s \in SUBSET Ranges /\ Shortest(s)
    BY DEF Trees
  <2> QED
    BY <2>1, <2>2, AddIs DEF Trees
<1>11. AggregatePrefixesWithPrefixTree(list) = f[n]
  BY DEF AggregatePrefixesWithPrefixTree
<1> HIDE DEF X, z, n
<1>3. g \in [1..n -> [X -> X]]
  BY <1>2
<1>4. (\E h : LoopOf(h, n, z, g)) /\ \A h : LoopOf(h, n, z, g) => h \in [0..n -> X]
  <2> HIDE DEF g
  <2> QED
    BY <1>1, <1>3, LoopIs, Zenon
<1>5. PICK h : LoopOf(h, n, z, g)
  BY <1>4, Zenon
<1>6. h \in [0..n -> X] /\ h = [i \in 0..n |-> IF i = 0 THEN z ELSE g[i][h[i - 1]]]
  BY <1>4, <1>5, Zenon DEF LoopOf
<1>7. ASSUME NEW i \in 0..n, i # 0 PROVE g[i][h[i - 1]] = Add(h[i - 1], list[i])
  <2>1. i \in 1..n /\ i - 1 \in 0..n
    BY <1>1, <1>7
  <2>2. h[i - 1] \in X
    BY <1>6, <2>1
  <2> QED
    BY <2>1, <2>2
<1> HIDE DEF g
<1>8. h = [i \in 0..n |-> IF i = 0 THEN z ELSE Add(h[i - 1], list[i])]
  <2>1. [i \in 0..n |-> IF i = 0 THEN z ELSE g[i][h[i - 1]]]
        = [i \in 0..n |-> IF i = 0 THEN z ELSE Add(h[i - 1], list[i])]
    BY <1>7
  <2> QED
    BY <1>6, <2>1, Zenon
<1>9. \E e : e = [i \in 0..n |-> IF i = 0 THEN z ELSE Add(e[i - 1], list[i])]
  BY <1>8, Zenon
<1>10. f = [i \in 0..n |-> IF i = 0 THEN z ELSE Add(f[i - 1], list[i])]
  BY <1>9, Zenon
<1> HIDE DEF f
<1>12. f[0] = z /\ \A i \in 1..n : f[i] = Add(f[i - 1], list[i])
  <2>1. 0 \in 0..n /\ \A i \in 1..n : i \in 0..n /\ i # 0
    BY <1>1
  <2> QED
    BY <1>10, <2>1
<1>13. f \in [0..n -> X]
  <2> DEFINE S == {i \in 0..n : f[i] \in X}
  <2>1. 0 \in S
    BY <1>1, <1>12
  <2>2. ASSUME NEW i \in 0..n - 1, i \in S PROVE i + 1 \in S
    <3>1. i + 1 \in 1..n /\ i + 1 \in 0..n /\ (i + 1) - 1 = i /\ f[i] \in X
      BY <1>1, <2>2
    <3>2. f[i + 1] = Add(f[i], list[i + 1])
      BY <1>12, <3>1
    <3>3. f[i + 1] \in X
      BY <1>2, <3>1, <3>2
    <3> QED
      BY <3>1, <3>3
  <2> HIDE DEF S
  <2>3. \A i \in 0..n - 1 : i \in S => i + 1 \in S
    BY <2>2
  <2>4. \A i \in 0..n : i \in S
    BY <1>1, <2>1, <2>3, UpTo, Zenon
  <2>5. \A i \in 0..n : f[i] \in X
    BY <2>4 DEF S
  <2>6. DOMAIN f = 0..n /\ f = [i \in 0..n |-> f[i]]
    BY <1>10
  <2> QED
    BY <2>5, <2>6
<1> QED
  BY <1>11, <1>12, <1>13 DEF X, z, n

\* What AggregatePrefixesWithPrefixTree yields.
LEMMA TreeIs ==
    ASSUME NEW list \in Seq(Ranges)
    PROVE  LET out == AggregatePrefixesWithPrefixTree(list)
           IN  out \in SUBSET Ranges /\ Cover(out) = Cover(Elements(list)) /\ Shortest(out)
<1> DEFINE n == Len(list)
           done(i) == {list[j] : j \in 1..i}
<1>0. n \in Nat
  OBVIOUS
<1>1. PICK f \in [0..n -> Trees] :
             /\ f[0] = {}
             /\ \A i \in 1..n : f[i] = Add(f[i - 1], list[i])
             /\ AggregatePrefixesWithPrefixTree(list) = f[n]
  BY TreeRuns
<1> DEFINE S == {i \in 0..n : Cover(f[i]) = Cover(done(i))}
<1>2. 0 \in S
  <2>1. done(0) = {}
    OBVIOUS
  <2>2. Cover(f[0]) = Cover(done(0))
    BY <1>1, <2>1, Zenon
  <2> HIDE DEF done
  <2> QED
    BY <1>0, <2>2
<1>3. ASSUME NEW i \in 0..n - 1, i \in S PROVE i + 1 \in S
  <2>1. i \in 0..n /\ i + 1 \in 0..n /\ i + 1 \in 1..n /\ (i + 1) - 1 = i /\ i \in Nat
    BY <1>0
  <2> DEFINE s == f[i]
             t == f[i + 1]
             p == list[i + 1]
             D == done(i)
             P == {p}
  <2>2. s \in SUBSET Ranges /\ Shortest(s) /\ t = Add(s, p) /\ Cover(s) = Cover(D) /\ p \in Ranges
    BY <1>1, <1>3, <2>1 DEF Trees
  <2>3. Cover(t) = Cover(s) \cup Cover({p})
    <3> HIDE DEF s, t, p, D
    <3> QED
      BY <2>2, AddIs
  <2>4. done(i + 1) = D \cup P
    <3>1. \A j \in 1..i + 1 : j = i + 1 \/ j \in 1..i
      BY <2>1
    <3>2. i + 1 \in 1..i + 1 /\ \A j \in 1..i : j \in 1..i + 1
      BY <2>1
    <3> QED
      BY <3>1, <3>2
  <2>5. Cover(done(i + 1)) = Cover(D) \cup Cover(P)
    <3> HIDE DEF D, P
    <3>1. Cover(D \cup P) = Cover(D) \cup Cover(P)
      BY CoverUnion
    <3> QED
      BY <2>4, <3>1
  <2>6. Cover(t) = Cover(done(i + 1))
    <3> HIDE DEF s, t, D, p, done
    <3> QED
      BY <2>2, <2>3, <2>5
  <2> HIDE DEF done
  <2> QED
    BY <2>1, <2>6
<1> HIDE DEF S
<1>4. \A i \in 0..n - 1 : i \in S => i + 1 \in S
  BY <1>3
<1>5. \A i \in 0..n : i \in S
  BY <1>0, <1>2, <1>4, UpTo, Zenon
<1>6. n \in 0..n /\ n \in S
  BY <1>0, <1>5
<1>7. Cover(f[n]) = Cover(done(n)) /\ f[n] \in Trees
  BY <1>1, <1>6 DEF S
<1>8. done(n) = Elements(list)
  BY DEF Elements
<1> HIDE DEF done
<1> QED
  BY <1>1, <1>7, <1>8 DEF Trees

\* The list of ranges is a list of ranges.
LEMMA RangesTyped == RSpec => [](ranges \in Seq(Ranges))
<1>1. RInit => ranges \in Seq(Ranges)
  BY DEF RInit
<1>2. ranges \in Seq(Ranges) /\ [RNext]_ranges => (ranges \in Seq(Ranges))'
  BY DEF RNext, AddRange
<1> QED
  BY <1>1, <1>2, PTL DEF RSpec

\* Whatever ranges are written and in whatever order, AggregatePrefixes yields
\* ranges of which no two overlap or could be merged, which cover exactly the
\* written addresses, and AggregatePrefixesWithPrefixTree yields the same ones.
THEOREM AggregationsAgree == RSpec => []AggregationSound
<1>1. ranges \in Seq(Ranges) => AggregationSound
  <2> SUFFICES ASSUME ranges \in Seq(Ranges) PROVE AggregationSound
    OBVIOUS
  <2> DEFINE A == Elements(AggregatePrefixes(Written))
             B == AggregatePrefixesWithPrefixTree(ranges)
  <2>1. Written \in SUBSET Ranges /\ Written = Elements(ranges)
    BY DEF Written, Elements
  <2>2. A \in SUBSET Ranges /\ Cover(A) = Cover(Written) /\ Shortest(A)
    BY <2>1, AggregateIs
  <2>3. B \in SUBSET Ranges /\ Cover(B) = Cover(Written) /\ Shortest(B)
    BY <2>1, TreeIs
  <2> HIDE DEF A, B
  <2>4. A = B
    BY <2>2, <2>3, ShortestUnique
  <2> QED
    BY <2>2, <2>4 DEF AggregationSound, AggregateExact, TreeAgrees, A, B
<1> QED
  BY <1>1, RangesTyped, PTL
-------------------------------------------------------------------------------
(* The security group *)

\* Aggregated ranges are ranges and let the same addresses through, and those of
\* no fixed bit let all through.
LEMMA RangesSound ==
  ASSUME NEW ps \in SUBSET Ranges
  PROVE  /\ Elements(AggregatePrefixes(ps)) \subseteq Ranges
         /\ Cover(Elements(AggregatePrefixes(ps))) = Cover(ps)
         /\ Cover(ps) \subseteq Addr /\ (IsPrefixesAllowAll(ps) => Cover(ps) = Addr)
<1>1. IsPrefixesAllowAll(ps) => Cover(ps) = Addr
  BY DEF Cover, IsPrefixesAllowAll, ContainsPrefix
<1>2. Cover(ps) \subseteq Addr
  BY DEF Cover
<1> QED BY <1>1, <1>2, AggregateIs

\* The names of rules that the cluster makes.
ClusterName(n) == /\ n \in RuleName /\ n.by = "cluster"
                  /\ n = DenyName \/ (n.access = "Allow" /\ n.ports # {})

\* Rules of the cluster have priorities of its range, the others are those of the
\* user, with addresses taken away at most.
RuleSound(p, r) ==
    /\ r \in SgRule
    /\ r.name.by = "cluster" => ClusterName(r.name) /\ r.priority \in FirstPriority .. LastPriority - 1
    /\ r.name.by = "user" => \E f \in p.foreign : r.name = f.name /\ r.priority = f.priority

Orderly(p, rules) ==
    /\ \A r \in rules : RuleSound(p, r)
    /\ \A q, r \in rules : q.priority = r.priority => q = r
    /\ {f \in p.foreign : f.priority < FirstPriority} \subseteq rules

\* A group that Azure accepts.
GroupOK(p, rules) ==
    /\ Orderly(p, rules)
    /\ \A r \in rules : r.dst # {}
    /\ IsFiniteSet(rules) /\ Cardinality(rules) <= MaxRules

LEMMA DenyIsClusterName == ClusterName(DenyName)
  BY DEF ClusterName, DenyName, RuleName, Protocols, Sources, Tag

LEMMA AllowIsClusterName ==
  ASSUME NEW pr \in Protocols, NEW src \in Sources, NEW ports \in SUBSET Nat, ports # {}
  PROVE  ClusterName(AllowName(pr, src, ports))
  BY DEF ClusterName, AllowName, RuleName

LEMMA AllowedSourcesType ==
  ASSUME NEW a \in Access
  PROVE  AllowedSources(a) \subseteq Sources
<1> DEFINE out == Elements(AggregatePrefixes(Asked(a)))
<1>1. Asked(a) \in SUBSET Ranges
  BY DEF Access, Asked
<1>2. out \subseteq Ranges
  BY <1>1, RangesSound
<1>3. \A t \in a.tags \cup {"Internet"} : Tag(t) \in Sources
  BY DEF Access, Tag, Sources
<1>4. [tag |-> "none", ranges |-> out] \in Sources
  BY <1>2 DEF Sources
<1> QED BY <1>3, <1>4 DEF AllowedSources

LEMMA GetKeepsOrder ==
  ASSUME NEW p, NEW R, Orderly(p, R), \A f \in p.foreign : f.name.by = "user",
         NEW names, \A n \in names : ClusterName(n),
         NEW D \in SUBSET SgAddress, NEW made \in SUBSET NewNames(R, names),
         NEW q \in nextRulePriority(made, Free(R))
  PROVE  Orderly(p, getOrCreateRule(R, names, D, q))
<1> DEFINE old(r) == IF r.name \in names THEN [r EXCEPT !.dst = r.dst \cup D] ELSE r
           new(n) == [name |-> n, dst |-> D, priority |-> q[n]]
           G == getOrCreateRule(R, names, D, q)
<1>1. q \in [made -> Free(R)] /\ (\A m, n \in made : q[m] = q[n] => m = n)
  BY DEF nextRulePriority
<1>2. DOMAIN q = made /\ G = {old(r) : r \in R} \cup {new(n) : n \in made}
  BY <1>1 DEF getOrCreateRule
<1>3. \A r \in R : r \in SgRule /\ RuleSound(p, r)
  BY DEF Orderly, RuleSound
<1>4. \A r \in R : old(r) \in SgRule /\ old(r).name = r.name /\ old(r).priority = r.priority
  BY <1>3 DEF SgRule
<1>5. \A r \in R : RuleSound(p, old(r))
  BY <1>3, <1>4 DEF RuleSound
<1>6. \A n \in made : q[n] \in FirstPriority .. LastPriority - 1 /\ q[n] \notin {r.priority : r \in R}
  BY <1>1 DEF Free
<1>7. \A n \in made : ClusterName(n)
  BY DEF NewNames
<1>8. \A n \in made : RuleSound(p, new(n))
  <2> SUFFICES ASSUME NEW n \in made PROVE RuleSound(p, new(n))
    OBVIOUS
  <2>1. new(n).name = n /\ new(n).priority = q[n] /\ new(n).dst = D /\ n.by = "cluster" /\ n \in RuleName
    BY <1>7 DEF ClusterName
  <2>2. new(n) \in SgRule
    BY <2>1, <1>6, PriorityAssumption DEF SgRule
  <2> QED BY <2>1, <2>2, <1>6, <1>7 DEF RuleSound
<1>9. \A r \in G : RuleSound(p, r)
  BY <1>2, <1>5, <1>8
<1>10. \A a, b \in G : a.priority = b.priority => a = b
  <2> SUFFICES ASSUME NEW a \in G, NEW b \in G, a.priority = b.priority PROVE a = b
    OBVIOUS
  <2>1. \A r1, r2 \in R : old(r1).priority = old(r2).priority => old(r1) = old(r2)
    BY <1>4 DEF Orderly
  <2>2. \A r1 \in R, n \in made : old(r1).priority # new(n).priority
    BY <1>4, <1>6
  <2>3. \A m, n \in made : new(m).priority = new(n).priority => new(m) = new(n)
    BY <1>1
  <2> HIDE DEF old, new, G
  <2>4. CASE \E r \in R : a = old(r)
    BY <2>4, <2>1, <2>2, <1>2
  <2>5. CASE \E n \in made : a = new(n)
    BY <2>5, <2>3, <2>2, <1>2
  <2> QED BY <2>4, <2>5, <1>2
<1>11. \A f \in p.foreign : f.priority < FirstPriority => f \in G
  <2> SUFFICES ASSUME NEW f \in p.foreign, f.priority < FirstPriority PROVE f \in G
    OBVIOUS
  <2>1. f \in R
    BY DEF Orderly
  <2>2. f.name \notin names
    BY DEF ClusterName
  <2> QED BY <2>1, <2>2, <1>2
<1> HIDE DEF G
<1> QED BY <1>9, <1>10, <1>11 DEF Orderly, G

LEMMA CleanedKeepsOrder ==
  ASSUME NEW p, NEW R, Orderly(p, R), NEW losing \in SUBSET R, NEW D \in SUBSET SgAddress,
         \A r \in losing : InReach(r)
  PROVE  Orderly(p, Cleaned(R, losing, D))
<1> DEFINE left(r) == IF r \in losing THEN [r EXCEPT !.dst = r.dst \ D] ELSE r
           C == Cleaned(R, losing, D)
<1>1. C = {left(r) : r \in R}
  BY DEF Cleaned
<1>2. \A r \in R : r \in SgRule /\ RuleSound(p, r)
  BY DEF Orderly, RuleSound
<1>3. \A r \in R : left(r) \in SgRule /\ left(r).name = r.name /\ left(r).priority = r.priority
  BY <1>2 DEF SgRule
<1>4. \A r \in R : RuleSound(p, left(r))
  BY <1>2, <1>3 DEF RuleSound
<1>5. \A r1, r2 \in R : left(r1).priority = left(r2).priority => left(r1) = left(r2)
  BY <1>3 DEF Orderly
<1>6. \A f \in p.foreign : f.priority < FirstPriority => f \in C
  <2> SUFFICES ASSUME NEW f \in p.foreign, f.priority < FirstPriority PROVE f \in C
    OBVIOUS
  <2>1. f \in R /\ f.priority \in Nat
    BY <1>2 DEF Orderly, SgRule
  <2>2. f \notin losing
    BY <2>1, PriorityAssumption DEF InReach
  <2> QED BY <2>1, <2>2, <1>1
<1> HIDE DEF left, C
<1> QED BY <1>1, <1>4, <1>5, <1>6 DEF Orderly, C

\* The parts of CleanSecurityGroup.
Retained(s, D) == [p \in Protocols |-> listSharedIPPortMapping(s, D, p)]
Losing(R, s, D) == {r \in R : InReach(r) /\ Loses(r, D, Retained(s, D)[r.name.protocol])}
Splits(R, s, D) ==
    {Split(r, Retained(s, D)[r.name.protocol]) :
        r \in {q \in Losing(R, s, D) : q.name.ports \cap Retained(s, D)[q.name.protocol] # {}}}
Left(R, s, D) == Cleaned(R, Losing(R, s, D), D)

LEMMA CleanForm ==
  ASSUME NEW R, NEW s, NEW D, NEW C \in CleanSecurityGroup(R, s, D)
  PROVE  \E made \in SUBSET NewNames(Left(R, s, D), Splits(R, s, D)) :
         \E q \in nextRulePriority(made, Free(Left(R, s, D))) :
            /\ made = NewNames(Left(R, s, D), Splits(R, s, D)) \/ Free(Left(R, s, D)) = {q[n] : n \in made}
            /\ C = getOrCreateRule(Left(R, s, D), Splits(R, s, D), D, q)
<1> DEFINE L == Left(R, s, D)
           S == Splits(R, s, D)
           new == NewNames(L, S)
           some == UNION {nextRulePriority(made, Free(L)) : made \in SUBSET new}
<1>0. CleanSecurityGroup(R, s, D) =
        UNION {SplitRules(left, names, D) : left \in {L}, names \in {S}}
  BY DEF CleanSecurityGroup, Left, Splits, Losing, Retained
<1> HIDE DEF L, S
<1>5. CleanSecurityGroup(R, s, D) = SplitRules(L, S, D)
  BY <1>0
<1>1. CleanSecurityGroup(R, s, D) =
        {getOrCreateRule(L, S, D, p) : p \in {q \in some : DOMAIN q = new \/ Free(L) = {q[n] : n \in DOMAIN q}}}
  BY <1>5 DEF SplitRules
<1> HIDE DEF new
<1>2. PICK q \in some : /\ DOMAIN q = new \/ Free(L) = {q[n] : n \in DOMAIN q}
                        /\ C = getOrCreateRule(L, S, D, q)
  BY <1>1
<1>3. PICK made \in SUBSET new : q \in nextRulePriority(made, Free(L))
  BY <1>2
<1>4. DOMAIN q = made
  BY <1>3 DEF nextRulePriority
<1> QED BY <1>2, <1>3, <1>4 DEF L, S, new

\* Facts on the images of finite sets.
LEMMA Image ==
  ASSUME NEW S, IsFiniteSet(S), NEW f, DOMAIN f = S
  PROVE  IsFiniteSet({f[x] : x \in S}) /\ Cardinality({f[x] : x \in S}) <= Cardinality(S)
<1> DEFINE T == {f[x] : x \in S}
           g == [x \in S |-> f[x]]
<1>1. g \in Surjection(S, T)
  BY DEF Surjection
<1> QED BY <1>1, FS_Surjection

LEMMA LosingIsSome == ASSUME NEW R, NEW s, NEW D PROVE Losing(R, s, D) \subseteq R
  BY DEF Losing

LEMMA SplitNames ==
  ASSUME NEW p, NEW R, Orderly(p, R), NEW s, NEW D, splan \in SgPlan
  PROVE  \A n \in Splits(R, s, D) : ClusterName(n)
<1>1. \A r \in R : r \in SgRule
  BY DEF Orderly, RuleSound
<1>2. \A r \in R : /\ r.name.protocol \in Protocols /\ r.name.sources \in Sources
                   /\ r.name.ports \in SUBSET Nat
  BY <1>1 DEF SgRule, RuleName
<1>3. \A r \in R : \A X : r.name.ports \cap X # {} => ClusterName(Split(r, X))
  BY <1>2, AllowIsClusterName DEF Split
<1> QED BY <1>3 DEF Splits, Losing

\* Priorities suffice for all rules that are split.
LEMMA AllSplitsMade ==
  ASSUME NEW R, IsFiniteSet(R), Cardinality(R) <= MaxRules, NEW s, NEW D,
         NEW C \in CleanSecurityGroup(R, s, D)
  PROVE  \E q \in nextRulePriority(NewNames(Left(R, s, D), Splits(R, s, D)), Free(Left(R, s, D))) :
            C = getOrCreateRule(Left(R, s, D), Splits(R, s, D), D, q)
<1> DEFINE L == Left(R, s, D)
           S == Splits(R, s, D)
           new == NewNames(L, S)
           losing == Losing(R, s, D)
           range == FirstPriority .. LastPriority - 1
<1>1. PICK made \in SUBSET new : \E q \in nextRulePriority(made, Free(L)) :
            /\ made = new \/ Free(L) = {q[n] : n \in made}
            /\ C = getOrCreateRule(L, S, D, q)
  BY CleanForm
<1>2. PICK q \in nextRulePriority(made, Free(L)) :
            /\ made = new \/ Free(L) = {q[n] : n \in made}
            /\ C = getOrCreateRule(L, S, D, q)
  BY <1>1
<1>3. IsFiniteSet(S) /\ Cardinality(S) <= Cardinality(R)
  <2> DEFINE some == {r \in losing : r.name.ports \cap Retained(s, D)[r.name.protocol] # {}}
             f == [r \in some |-> Split(r, Retained(s, D)[r.name.protocol])]
  <2>1. some \in SUBSET R
    BY LosingIsSome
  <2>2. IsFiniteSet(some) /\ Cardinality(some) <= Cardinality(R)
    BY <2>1, FS_Subset
  <2>3. S = {f[r] : r \in some}
    BY DEF Splits
  <2>4. IsFiniteSet(S) /\ Cardinality(S) <= Cardinality(some)
    <3>1. DOMAIN f = some
      OBVIOUS
    <3> HIDE DEF f, some
    <3> QED BY <2>2, <2>3, <3>1, Image
  <2> QED BY <2>2, <2>4, FS_CardinalityType
<1>4. IsFiniteSet(new) /\ Cardinality(new) <= Cardinality(S)
  BY <1>3, FS_Subset DEF NewNames
<1>5. IsFiniteSet({r.priority : r \in L}) /\ Cardinality({r.priority : r \in L}) <= Cardinality(R)
  <2> DEFINE left == [r \in R |-> IF r \in losing THEN [r EXCEPT !.dst = r.dst \ D] ELSE r]
             prio == [r \in L |-> r.priority]
  <2>1. L = {left[r] : r \in R}
    BY DEF Left, Cleaned
  <2>2. IsFiniteSet(L) /\ Cardinality(L) <= Cardinality(R)
    <3>1. DOMAIN left = R
      OBVIOUS
    <3> HIDE DEF left
    <3> QED BY <2>1, <3>1, Image
  <2>3. {r.priority : r \in L} = {prio[r] : r \in L}
    OBVIOUS
  <2>4. IsFiniteSet({r.priority : r \in L}) /\ Cardinality({r.priority : r \in L}) <= Cardinality(L)
    <3>1. DOMAIN prio = L
      OBVIOUS
    <3> HIDE DEF L, prio
    <3> QED BY <2>2, <2>3, <3>1, Image
  <2> QED BY <2>2, <2>4, FS_CardinalityType
<1>6. IsFiniteSet(Free(L)) /\ Cardinality(Free(L)) >= Cardinality(range) - Cardinality(R)
  <2> DEFINE used == {r.priority : r \in L}
  <2>1. IsFiniteSet(range)
    BY FS_Interval, PriorityAssumption
  <2>2. Free(L) = range \ used
    BY DEF Free
  <2>3. IsFiniteSet(range \ used) /\ Cardinality(range \ used) = Cardinality(range) - Cardinality(range \cap used)
    BY <2>1, FS_Difference
  <2>4. IsFiniteSet(range \cap used) /\ Cardinality(range \cap used) <= Cardinality(used)
    BY <1>5, FS_Intersection
  <2> HIDE DEF used, range, L
  <2> QED BY <2>1, <2>2, <2>3, <2>4, <1>5, FS_CardinalityType DEF used
<1>7. Cardinality(range) = LastPriority - FirstPriority
  <2>1. FirstPriority \in Int /\ LastPriority - 1 \in Int /\ FirstPriority <= LastPriority
    BY PriorityAssumption
  <2>2. Cardinality(range) = IF FirstPriority > LastPriority - 1 THEN 0 ELSE LastPriority - 1 - FirstPriority + 1
    BY <2>1, FS_Interval
  <2> HIDE DEF range
  <2> QED BY <2>1, <2>2, PriorityAssumption
<1>8. Cardinality(Free(L)) >= MaxRules
  <2> HIDE DEF range, L
  <2>1. Cardinality(R) \in Nat /\ Cardinality(Free(L)) \in Nat
    BY <1>6, FS_CardinalityType
  <2> QED BY <2>1, <1>6, <1>7, PriorityAssumption
<1>9. made = new
  <2> SUFFICES ASSUME made # new, Free(L) = {q[n] : n \in made} PROVE FALSE
    BY <1>2
  <2>1. IsFiniteSet(made) /\ Cardinality(made) <= Cardinality(new) /\ Cardinality(made) # Cardinality(new)
    <3> HIDE DEF new
    <3> QED BY <1>4, FS_Subset
  <2>2. DOMAIN q = made
    BY <1>2 DEF nextRulePriority
  <2>3. Cardinality(Free(L)) <= Cardinality(made)
    BY <2>1, <2>2, Image
  <2>4. /\ Cardinality(made) \in Nat /\ Cardinality(new) \in Nat /\ Cardinality(S) \in Nat
        /\ Cardinality(R) \in Nat /\ Cardinality(Free(L)) \in Nat
    BY <2>1, <1>3, <1>4, <1>6, FS_CardinalityType
  <2> HIDE DEF L, S, new
  <2> QED BY <2>1, <2>3, <2>4, <1>3, <1>4, <1>8, PriorityAssumption
<1> QED BY <1>2, <1>9

LEMMA CleanKeepsOrder ==
  ASSUME NEW p, NEW R, Orderly(p, R), \A f \in p.foreign : f.name.by = "user", splan \in SgPlan,
         NEW s, NEW D \in SUBSET SgAddress, NEW C \in CleanSecurityGroup(R, s, D)
  PROVE  Orderly(p, C)
<1>1. Orderly(p, Left(R, s, D))
  BY CleanedKeepsOrder DEF Left, Losing
<1>2. \A n \in Splits(R, s, D) : ClusterName(n)
  BY SplitNames
<1>3. PICK made \in SUBSET NewNames(Left(R, s, D), Splits(R, s, D)) :
         \E q \in nextRulePriority(made, Free(Left(R, s, D))) :
            C = getOrCreateRule(Left(R, s, D), Splits(R, s, D), D, q)
  BY CleanForm
<1> QED BY <1>1, <1>2, <1>3, GetKeepsOrder

LEMMA WantedNames ==
  ASSUME splan \in SgPlan, NEW s \in SgService, ask[s] \in Access
  PROVE  \A n \in Wanted(s) : ClusterName(n)
<1>1. splan.protocol[s] \in Protocols /\ splan.ports[s] \in SUBSET Nat /\ splan.ports[s] # {}
  BY DEF SgPlan
<1>2. \A src \in AllowedSources(ask[s]) : ClusterName(AllowName(splan.protocol[s], src, splan.ports[s]))
  BY <1>1, AllowedSourcesType, AllowIsClusterName
<1> QED BY <1>2, DenyIsClusterName DEF Wanted

LEMMA PatchForm ==
  ASSUME NEW R, NEW s, NEW D, NEW P \in PatchSecurityGroup(R, Wanted(s), D)
  PROVE  \E q \in nextRulePriority(NewNames(R, Wanted(s)), Free(R)) : P = getOrCreateRule(R, Wanted(s), D, q)
  BY DEF PatchSecurityGroup

LEMMA PatchKeepsOrder ==
  ASSUME NEW p, NEW R, Orderly(p, R), \A f \in p.foreign : f.name.by = "user", splan \in SgPlan,
         NEW s \in SgService, ask[s] \in Access, NEW D \in SUBSET SgAddress, NEW P \in PatchSecurityGroup(R, Wanted(s), D)
  PROVE  Orderly(p, P)
  BY PatchForm, WantedNames, GetKeepsOrder

LEMMA OrderlyIsFinite ==
  ASSUME NEW p, IsFiniteSet(p.foreign), NEW R, Orderly(p, R)
  PROVE  IsFiniteSet(R)
<1> DEFINE T == (FirstPriority .. LastPriority - 1) \cup {f.priority : f \in p.foreign}
           prio == [r \in R |-> r.priority]
           fp == [f \in p.foreign |-> f.priority]
<1>1. IsFiniteSet({fp[f] : f \in p.foreign})
  <2>1. DOMAIN fp = p.foreign
    OBVIOUS
  <2> HIDE DEF fp
  <2> QED BY <2>1, Image
<1>2. {fp[f] : f \in p.foreign} = {f.priority : f \in p.foreign}
  OBVIOUS
<1>3. IsFiniteSet(FirstPriority .. LastPriority - 1)
  BY FS_Interval, PriorityAssumption
<1>4. IsFiniteSet(T)
  BY <1>1, <1>2, <1>3, FS_Union
<1>5. \A r \in R : r.priority \in T
  <2> SUFFICES ASSUME NEW r \in R PROVE r.priority \in T
    OBVIOUS
  <2>1. RuleSound(p, r) /\ r.name.by \in {"cluster", "user"}
    BY DEF Orderly, RuleSound, SgRule, RuleName
  <2> QED BY <2>1 DEF RuleSound
<1>6. prio \in Injection(R, T)
  BY <1>5 DEF Injection, IsInjective, Orderly
<1> QED BY <1>4, <1>6, FS_Injection

\* What a reconciliation sends.
Sent(s, D, want, rules) ==
    \E clean \in CleanSecurityGroup(GetSecurityGroup, s, D) :
    \E all \in (IF want THEN PatchSecurityGroup(clean, Wanted(s), D) ELSE {clean}) :
        rules = {r \in all : r.dst # {}} /\ ~(Cardinality(rules) > MaxRules)

LEMMA SentIsOK ==
  ASSUME splan \in SgPlans, GroupOK(splan, GetSecurityGroup),
         NEW s \in SgService, ask[s] \in Access, NEW D \in SUBSET SgAddress, NEW want \in BOOLEAN,
         NEW rules, Sent(s, D, want, rules)
  PROVE  GroupOK(splan, rules)
<1>1. splan \in SgPlan /\ (\A f \in splan.foreign : f.name.by = "user" /\ f.dst # {}) /\ IsFiniteSet(splan.foreign)
  BY SgPlansAssumption
<1>2. PICK clean \in CleanSecurityGroup(GetSecurityGroup, s, D) :
        \E all \in (IF want THEN PatchSecurityGroup(clean, Wanted(s), D) ELSE {clean}) :
           rules = {r \in all : r.dst # {}} /\ ~(Cardinality(rules) > MaxRules)
  BY DEF Sent
<1>3. PICK all \in (IF want THEN PatchSecurityGroup(clean, Wanted(s), D) ELSE {clean}) :
           rules = {r \in all : r.dst # {}} /\ ~(Cardinality(rules) > MaxRules)
  BY <1>2
<1>4. Orderly(splan, clean)
  BY <1>1, CleanKeepsOrder DEF GroupOK
<1>5. Orderly(splan, all)
  BY <1>1, <1>3, <1>4, PatchKeepsOrder
<1>6. Orderly(splan, rules)
  BY <1>1, <1>3, <1>5 DEF Orderly
<1>7. IsFiniteSet(rules)
  BY <1>1, <1>6, OrderlyIsFinite
<1>8. Cardinality(rules) <= MaxRules
  BY <1>3, <1>7, FS_CardinalityType, PriorityAssumption
<1> QED BY <1>3, <1>6, <1>7, <1>8 DEF GroupOK

\* What is known of a group and of the copy.
GroupsSound ==
    /\ GroupOK(splan, nsg)
    /\ nsgCache # SgNil => GroupOK(splan, nsgCache)
    /\ nsgCurrent => nsgCache = nsg
    /\ (sfaults = 0 /\ nsgCache # SgNil) => nsgCurrent

\* How a reconciliation ends: it has no effect, or it sends a group, which is taken
\* over, or not, or is the one that is there.
Ended(s, D, want, r) ==
    /\ r # "error" => \E rules : /\ Sent(s, D, want, rules)
                                 /\ r \in {"done", "unknown"} => nsg' = rules /\ (nsgCache = SgNil \/ nsgCurrent)
                                 /\ r = "same" => rules = GetSecurityGroup
    /\ r \notin {"done", "unknown"} => nsg' = nsg
    /\ r \in {"error", "same", "outdated", "done"} => sfaults' = sfaults
    /\ r \notin {"error", "same", "outdated", "done"} => sfaults' = sfaults + 1 /\ sfaults < splan.faults
    /\ r = "outdated" => nsgCache # SgNil /\ ~nsgCurrent
    /\ r \in {"error", "same", "outdated", "done", "lost", "unknown", "canceled"}

LEMMA ReconcileEnds ==
  ASSUME NEW s \in SgService, NEW D \in SUBSET SgAddress, NEW want \in BOOLEAN, NEW ACTION then,
         reconcileSecurityGroup(s, D, want, then)
  PROVE  \E r : /\ Ended(s, D, want, r)
                /\ nsgCache' = IF Invalidates(r) THEN SgNil ELSE GetSecurityGroup
                /\ nsgCurrent' = (r # "unknown" /\ ~Invalidates(r) /\ (nsgCache = SgNil \/ nsgCurrent))
                /\ IF r \in {"done", "same"} THEN then ELSE UNCHANGED <<sstate, sdirty, owed, listed>>
<1> DEFINE tried(all, rules) == rules = BuiltGroup(s, all)
           outcomes(rules) == IF rules = SgNil THEN {"error"}
                       ELSE IF rules = GetSecurityGroup THEN {"same"} ELSE SgOutcome
           step(rules, r) ==
             /\ nsg' = IF r \in {"done", "unknown"} THEN rules ELSE nsg
             /\ nsgCache' = IF Invalidates(r) THEN SgNil ELSE GetSecurityGroup
             /\ nsgCurrent' = (r # "unknown" /\ ~Invalidates(r) /\ (nsgCache = SgNil \/ nsgCurrent))
             /\ IF r = "error" THEN UNCHANGED sfaults ELSE SgFailure(r)
             /\ IF r \in {"done", "same"} THEN then
                ELSE UNCHANGED <<sstate, sdirty, owed, listed>>
<1>1. PICK clean \in CleanSecurityGroup(GetSecurityGroup, s, D) :
      \E patched \in {IF want THEN PatchSecurityGroup(clean, Wanted(s), D) ELSE {clean}} :
      \E all \in patched \cup IF patched = {} THEN {SgNil} ELSE {} :
      \E rules \in {BuiltGroup(s, all)} : \E r \in outcomes(rules) : step(rules, r)
  BY DEF reconcileSecurityGroup
<1> DEFINE patched == IF want THEN PatchSecurityGroup(clean, Wanted(s), D) ELSE {clean}
<1>2. PICK all \in patched \cup IF patched = {} THEN {SgNil} ELSE {} :
      \E rules \in {BuiltGroup(s, all)} : \E r \in outcomes(rules) : step(rules, r)
  BY <1>1
<1> DEFINE rules == BuiltGroup(s, all)
<1>3. PICK r \in outcomes(rules) : step(rules, r)
  BY <1>2
<1>4. rules # SgNil => Sent(s, D, want, rules)
  <2> SUFFICES ASSUME rules # SgNil PROVE Sent(s, D, want, rules)
    OBVIOUS
  <2>1. all # SgNil /\ rules = {q \in all : q.dst # {}} /\ ~(Cardinality(rules) > MaxRules)
    BY DEF BuiltGroup
  <2>2. all \in patched
    BY <1>2, <2>1
  <2> QED BY <2>1, <2>2 DEF Sent
<1>5. r \in {"error", "same", "outdated", "done", "lost", "unknown", "canceled"}
  BY <1>3 DEF SgOutcome
<1>6. /\ r # "error" => rules # SgNil
      /\ r = "same" => rules = GetSecurityGroup
      /\ r = "outdated" => nsgCache # SgNil /\ ~nsgCurrent
      /\ r \in {"lost", "unknown", "canceled"} => sfaults < splan.faults
      /\ r \in {"done", "unknown"} => nsgCache = SgNil \/ nsgCurrent
  <2> HIDE DEF rules, step
  <2> QED BY <1>3 DEF SgOutcome
<1>7. Ended(s, D, want, r)
  <2> HIDE DEF rules, outcomes
  <2>1. \A x : x = rules => (r # "error" => Sent(s, D, want, x))
    BY <1>4, <1>6
  <2>2. nsg' = (IF r \in {"done", "unknown"} THEN rules ELSE nsg)
    BY <1>3
  <2>3. IF r = "error" THEN sfaults' = sfaults ELSE SgFailure(r)
    BY <1>3
  <2> HIDE DEF step
  <2> QED BY <2>1, <2>2, <2>3, <1>5, <1>6 DEF Ended, SgFailure
<1> QED BY <1>3, <1>7

\* The addresses a service may have.
Places(s) == {a.address : a \in splan.asks[s]}

SgTypes ==
    /\ splan \in SgPlans
    /\ sstate \in [SgService -> {"none", "wanted", "deleting", "gone"}]
    /\ ask \in [SgService -> Access \cup {SgNil}]
    /\ \A s \in SgService : ask[s] = SgNil \/ ask[s] \in splan.asks[s]
    /\ \A s \in SgService : sstate[s] # "none" => ask[s] # SgNil
    /\ sdirty \subseteq SgService /\ owed \subseteq SgService
    /\ addr \in [SgService -> SgAddress \cup {SgNil}]
    /\ listed \in [SgService -> SgAddress \cup {SgNil}]
    /\ nsgCurrent \in BOOLEAN
    /\ sedits \in 0..MaxSgEdits /\ sfaults \in 0..splan.faults

\* The addresses and the status of a service are those it may have, and end with it.
PlacesSound == \A s \in SgService :
    /\ sstate[s] \in {"none", "gone"} => addr[s] = SgNil /\ s \notin owed
    /\ addr[s] # SgNil => addr[s] \in Places(s)
    /\ listed[s] # SgNil => listed[s] \in Places(s) /\ addr[s] # SgNil
    /\ s \in owed => addr[s] # SgNil

SgBase == SgTypes /\ PlacesSound /\ GroupsSound

LEMMA AskType ==
  ASSUME SgTypes, NEW s \in SgService, ask[s] # SgNil
  PROVE  ask[s] \in Access /\ ask[s].address \in SgAddress /\ ask[s].address \in Places(s)
         /\ ask[s].address # SgNil
  BY SgNilAssumption DEF SgTypes, Places, Access

LEMMA GetIsOK == ASSUME GroupsSound PROVE GroupOK(splan, GetSecurityGroup)
  BY DEF GroupsSound, GetSecurityGroup

\* Every reconciliation leaves a group that Azure accepts, and a copy of it or none.
LEMMA ReconcileKeepsGroups ==
  ASSUME SgTypes, GroupsSound, splan' = splan,
         NEW s \in SgService, ask[s] # SgNil, NEW D \in SUBSET SgAddress, NEW want \in BOOLEAN,
         NEW r, Ended(s, D, want, r),
         nsgCache' = IF Invalidates(r) THEN SgNil ELSE GetSecurityGroup,
         nsgCurrent' = (r # "unknown" /\ ~Invalidates(r) /\ (nsgCache = SgNil \/ nsgCurrent))
  PROVE  GroupsSound' /\ sfaults' \in 0..splan.faults /\ nsgCurrent' \in BOOLEAN
<1>1. GroupOK(splan, GetSecurityGroup)
  BY GetIsOK
<1>2. ask[s] \in Access /\ splan \in SgPlans
  BY AskType DEF SgTypes
<1>3. \A rules : Sent(s, D, want, rules) => GroupOK(splan, rules)
  BY <1>1, <1>2, SentIsOK
<1>4. GroupOK(splan, nsg')
  BY <1>3 DEF Ended, GroupsSound
<1>5. nsgCache' # SgNil => GroupOK(splan, nsgCache')
  BY <1>1
<1>6. nsgCurrent' => nsgCache' = nsg'
  BY DEF Ended, Invalidates, GetSecurityGroup, GroupsSound
<1>7. sfaults' \in 0..splan.faults /\ (sfaults' = 0 => sfaults = 0 /\ r \in {"error", "same", "outdated", "done"})
  <2>1. splan.faults \in Nat /\ sfaults \in 0..splan.faults
    BY SgPlansAssumption DEF SgTypes, SgPlan
  <2> QED BY <2>1 DEF Ended
<1>8. (sfaults' = 0 /\ nsgCache' # SgNil) => nsgCurrent'
  BY <1>7 DEF Invalidates, GroupsSound
<1>9. GroupsSound'
  <2>1. GroupOK(splan, nsg)' /\ (nsgCache' # SgNil => GroupOK(splan, nsgCache)')
    BY <1>4, <1>5 DEF GroupOK, Orderly, RuleSound, ClusterName
  <2> QED BY <2>1, <1>6, <1>8 DEF GroupsSound
<1> QED BY <1>7, <1>9

\* The rules of a name are for an address.
In(R, n, a) == \E r \in R : r.name = n /\ a \in r.dst

LEMMA GetIn ==
  ASSUME NEW R, R \subseteq SgRule, NEW names, NEW D, NEW made \in SUBSET names, NEW free,
         NEW q \in nextRulePriority(made, free), NEW n, NEW a
  PROVE  In(getOrCreateRule(R, names, D, q), n, a) <=>
            In(R, n, a) \/ (a \in D /\ n \in names /\ (n \in made \/ \E r \in R : r.name = n))
<1> DEFINE old(r) == IF r.name \in names THEN [r EXCEPT !.dst = r.dst \cup D] ELSE r
           new(m) == [name |-> m, dst |-> D, priority |-> q[m]]
           G == getOrCreateRule(R, names, D, q)
<1>1. DOMAIN q = made
  BY DEF nextRulePriority
<1>2. G = {old(r) : r \in R} \cup {new(m) : m \in made}
  BY <1>1 DEF getOrCreateRule
<1>3. \A r \in R : /\ old(r).name = r.name
                   /\ a \in old(r).dst <=> a \in r.dst \/ (a \in D /\ r.name \in names)
  BY DEF SgRule
<1>4. \A m : new(m).name = m /\ new(m).dst = D
  OBVIOUS
<1> HIDE DEF old, new, G
<1>5. In(G, n, a) <=> (\E r \in R : old(r).name = n /\ a \in old(r).dst) \/ (\E m \in made : new(m).name = n /\ a \in new(m).dst)
  BY <1>2 DEF In
<1>6. In(G, n, a) <=> In(R, n, a) \/ (a \in D /\ n \in names /\ (n \in made \/ \E r \in R : r.name = n))
  BY <1>3, <1>4, <1>5 DEF In
<1> QED BY <1>6 DEF G

LEMMA LeftIn ==
  ASSUME NEW R, R \subseteq SgRule, NEW s, NEW D, NEW n, NEW a
  PROVE  In(Left(R, s, D), n, a) <=>
            \E r \in R : r.name = n /\ a \in r.dst /\ (r \notin Losing(R, s, D) \/ a \notin D)
<1> DEFINE left(r) == IF r \in Losing(R, s, D) THEN [r EXCEPT !.dst = r.dst \ D] ELSE r
<1>1. Left(R, s, D) = {left(r) : r \in R}
  BY DEF Left, Cleaned
<1>2. \A r \in R : /\ left(r).name = r.name
                   /\ a \in left(r).dst <=> a \in r.dst /\ (r \notin Losing(R, s, D) \/ a \notin D)
  BY DEF SgRule
<1> HIDE DEF left
<1> QED BY <1>1, <1>2 DEF In

LEMMA LeftType ==
  ASSUME NEW R, R \subseteq SgRule, NEW s, NEW D
  PROVE  Left(R, s, D) \subseteq SgRule
  BY DEF Left, Cleaned, SgRule

LEMMA RetainedFrom ==
  ASSUME NEW s, NEW D, NEW p \in Protocols, NEW x \in Retained(s, D)[p]
  PROVE  \E u \in SgService \ {s} :
            listed[u] \in D /\ ask[u] # SgNil /\ splan.protocol[u] = p /\ x \in splan.ports[u]
  BY DEF Retained, listSharedIPPortMapping

\* A rule of the cluster keeps an address that is cleaned for a service that is
\* listed with it.
LEMMA KeptForOther ==
  ASSUME NEW p, NEW R, Orderly(p, R), NEW s, NEW D, NEW r \in R, r.name.by = "cluster",
         r.dst \cap D # {}, r \notin Losing(R, s, D)
  PROVE  \E u \in SgService \ {s} : listed[u] \in D
<1> DEFINE keep == Retained(s, D)[r.name.protocol]
<1>1. RuleSound(p, r) /\ r.name.protocol \in Protocols
  BY DEF Orderly, RuleSound, SgRule, RuleName
<1>2. InReach(r)
  BY <1>1, PriorityAssumption DEF RuleSound, InReach
<1>3. ~Loses(r, D, keep)
  BY <1>2 DEF Losing
<1>4. keep # {}
  <2>1. ClusterName(r.name)
    BY <1>1 DEF RuleSound
  <2> HIDE DEF keep
  <2>2. CASE r.name = DenyName
    BY <2>2, <1>3 DEF Loses, DenyName
  <2>3. CASE r.name.access = "Allow" /\ r.name.ports # {}
    BY <2>3, <1>3 DEF Loses, KeepsAll
  <2> QED BY <2>1, <2>2, <2>3 DEF ClusterName
<1> QED BY <1>1, <1>4, RetainedFrom

LEMMA SplitForOther ==
  ASSUME NEW p, NEW R, Orderly(p, R), NEW s, NEW D, NEW n \in Splits(R, s, D)
  PROVE  \E u \in SgService \ {s} : listed[u] \in D
<1>1. PICK r \in R : r.name.ports \cap Retained(s, D)[r.name.protocol] # {}
  BY DEF Splits, Losing
<1>2. r.name.protocol \in Protocols
  BY DEF Orderly, RuleSound, SgRule, RuleName
<1> QED BY <1>1, <1>2, RetainedFrom

\* Which addresses the rules of a name are for in the group that is sent: those of
\* the rules that are left, of the rules that were split, and of the rules added.
InLeft(R, s, D, n, a) == \E r \in R : r.name = n /\ a \in r.dst /\ (r \notin Losing(R, s, D) \/ a \notin D)

LEMMA SentIn ==
  ASSUME SgTypes, GroupsSound, NEW s \in SgService, ask[s] # SgNil, NEW D \in SUBSET SgAddress,
         NEW want \in BOOLEAN, NEW rules, Sent(s, D, want, rules), NEW n, NEW a
  PROVE  In(rules, n, a) <=> \/ InLeft(GetSecurityGroup, s, D, n, a)
                             \/ a \in D /\ n \in Splits(GetSecurityGroup, s, D)
                             \/ a \in D /\ n \in Wanted(s) /\ want
<1> DEFINE R == GetSecurityGroup
           L == Left(R, s, D)
           S == Splits(R, s, D)
<1>1. splan \in SgPlan /\ (\A f \in splan.foreign : f.name.by = "user") /\ GroupOK(splan, R)
  BY SgPlansAssumption, GetIsOK DEF SgTypes
<1> HIDE DEF R
<1>2. PICK clean \in CleanSecurityGroup(R, s, D) :
        \E all \in (IF want THEN PatchSecurityGroup(clean, Wanted(s), D) ELSE {clean}) : rules = {r \in all : r.dst # {}}
  BY DEF Sent, R
<1>3. PICK all \in (IF want THEN PatchSecurityGroup(clean, Wanted(s), D) ELSE {clean}) : rules = {r \in all : r.dst # {}}
  BY <1>2
<1>4. Orderly(splan, clean) /\ clean \subseteq SgRule /\ R \subseteq SgRule
  <2>1. Orderly(splan, R)
    BY <1>1 DEF GroupOK
  <2>2. Orderly(splan, clean)
    BY <1>1, <2>1, CleanKeepsOrder
  <2> QED BY <2>1, <2>2 DEF Orderly, RuleSound
<1>5. L \subseteq SgRule
  BY <1>4, LeftType
<1>6. In(rules, n, a) <=> In(all, n, a)
  BY <1>3 DEF In
<1>7. In(all, n, a) <=> In(clean, n, a) \/ (a \in D /\ n \in Wanted(s) /\ want)
  <2>1. CASE want
    <3>1. PICK q \in nextRulePriority(NewNames(clean, Wanted(s)), Free(clean)) : all = getOrCreateRule(clean, Wanted(s), D, q)
      BY <1>3, <2>1, PatchForm
    <3>2. NewNames(clean, Wanted(s)) \in SUBSET Wanted(s)
      BY DEF NewNames
    <3>3. n \in Wanted(s) => n \in NewNames(clean, Wanted(s)) \/ \E r \in clean : r.name = n
      BY DEF NewNames
    <3>4. In(all, n, a) <=>
            In(clean, n, a) \/ (a \in D /\ n \in Wanted(s)
                                /\ (n \in NewNames(clean, Wanted(s)) \/ \E r \in clean : r.name = n))
      BY <1>4, <3>1, <3>2, GetIn
    <3> QED BY <2>1, <3>3, <3>4
  <2>2. CASE ~want
    BY <1>3, <2>2
  <2> QED BY <2>1, <2>2
<1>8. In(clean, n, a) <=> In(L, n, a) \/ (a \in D /\ n \in S)
  <2>1. PICK q \in nextRulePriority(NewNames(L, S), Free(L)) : clean = getOrCreateRule(L, S, D, q)
    BY <1>1, AllSplitsMade DEF GroupOK
  <2> HIDE DEF L, S
  <2>2. NewNames(L, S) \in SUBSET S
    BY DEF NewNames
  <2>3. n \in S => n \in NewNames(L, S) \/ \E r \in L : r.name = n
    BY DEF NewNames
  <2>4. In(clean, n, a) <=>
          In(L, n, a) \/ (a \in D /\ n \in S /\ (n \in NewNames(L, S) \/ \E r \in L : r.name = n))
    BY <1>5, <2>1, <2>2, GetIn
  <2> QED BY <2>3, <2>4
<1>9. In(L, n, a) <=> InLeft(R, s, D, n, a)
  BY <1>4, LeftIn DEF InLeft
<1> QED BY <1>6, <1>7, <1>8, <1>9 DEF R

\* Only the service itself, or one that is listed, has rules for the address left.
LEMMA SentOwned ==
  ASSUME SgTypes, GroupsSound, NEW s \in SgService, ask[s] # SgNil, NEW b \in SgAddress,
         NEW want \in BOOLEAN, NEW rules, Sent(s, {b}, want, rules),
         NEW n, NEW a, n.by = "cluster", In(rules, n, a)
  PROVE  \/ a # b /\ In(GetSecurityGroup, n, a)
         \/ a = b /\ (want \/ \E u \in SgService \ {s} : listed[u] = b)
<1> DEFINE R == GetSecurityGroup
           D == {b}
<1>1. GroupOK(splan, R)
  BY GetIsOK
<1>2. D \in SUBSET SgAddress /\ Sent(s, D, want, rules)
  OBVIOUS
<1> HIDE DEF D
<1>3. \/ InLeft(R, s, D, n, a)
      \/ a \in D /\ n \in Splits(R, s, D)
      \/ a \in D /\ n \in Wanted(s) /\ want
  BY <1>2, SentIn
<1> HIDE DEF R
<1>4. CASE a \in D /\ n \in Splits(R, s, D)
  <2>1. \E u \in SgService \ {s} : listed[u] \in D
    BY <1>1, <1>4, SplitForOther DEF GroupOK
  <2> QED BY <1>4, <2>1 DEF D
<1>5. CASE InLeft(R, s, D, n, a) /\ a \notin D
  BY <1>5 DEF InLeft, In, D, R
<1>6. CASE InLeft(R, s, D, n, a) /\ a \in D
  <2>1. \E u \in SgService \ {s} : listed[u] \in D
    BY <1>1, <1>6, KeptForOther DEF GroupOK, InLeft
  <2> QED BY <1>6, <2>1 DEF D
<1> QED BY <1>3, <1>4, <1>5, <1>6 DEF D

\* No ask of a service names another address than the others.
OneAddress(p) == \A s \in SgService : \A a, b \in p.asks[s] : a.address = b.address

\* Every address that a rule of the cluster is for is the address of a service.
RulesOwned == sfaults = 0 =>
    \A n, a : (n.by = "cluster" /\ In(nsg, n, a)) => \E t \in SgService : addr[t] = a

GroupInv == SgBase /\ (OneAddress(splan) => RulesOwned)

LEMMA OneSeen == ASSUME GroupsSound, sfaults = 0 PROVE GetSecurityGroup = nsg
  BY DEF GroupsSound, GetSecurityGroup

LEMMA OnePlace ==
  ASSUME OneAddress(splan), NEW s \in SgService, NEW a \in Places(s), NEW b \in Places(s)
  PROVE  a = b
  BY DEF OneAddress, Places

LEMMA EnsureKeepsInv ==
  ASSUME GroupInv, NEW s \in SgService, Ensure(s)
  PROVE  GroupInv'
<1> DEFINE b == ask[s].address
           D == {b}
           want == TRUE
           then == /\ sdirty' = sdirty \ {s} /\ owed' = owed \cup {s}
                   /\ UNCHANGED <<sstate, listed>>
<1>1. /\ sstate[s] = "wanted" /\ addr' = [addr EXCEPT ![s] = b]
      /\ reconcileSecurityGroup(s, D, want, then)
      /\ UNCHANGED <<splan, ask, sedits>>
  BY DEF Ensure
<1>2. SgTypes /\ PlacesSound /\ GroupsSound
  BY DEF GroupInv, SgBase
<1>3. ask[s] # SgNil /\ b \in SgAddress /\ b \in Places(s) /\ b # SgNil /\ ask[s] \in Access
  BY <1>1, <1>2, AskType DEF SgTypes
<1>w. want \in BOOLEAN
  OBVIOUS
<1> HIDE DEF then, b, want
<1>4. PICK r : /\ Ended(s, D, want, r)
               /\ nsgCache' = IF Invalidates(r) THEN SgNil ELSE GetSecurityGroup
               /\ nsgCurrent' = (r # "unknown" /\ ~Invalidates(r) /\ (nsgCache = SgNil \/ nsgCurrent))
               /\ IF r \in {"done", "same"} THEN then ELSE UNCHANGED <<sstate, sdirty, owed, listed>>
  <2> HIDE DEF D
  <2>1. D \in SUBSET SgAddress
    BY <1>3 DEF D
  <2> QED BY <1>1, <1>w, <2>1, ReconcileEnds
<1>5. GroupsSound' /\ sfaults' \in 0..splan.faults /\ nsgCurrent' \in BOOLEAN
  <2> HIDE DEF D
  <2>1. D \in SUBSET SgAddress
    BY <1>3 DEF D
  <2> QED BY <1>1, <1>2, <1>3, <1>4, <1>w, <2>1, ReconcileKeepsGroups
<1>6. /\ sstate' = sstate /\ listed' = listed
      /\ sdirty' \subseteq sdirty /\ owed' \subseteq owed \cup {s}
  BY <1>4 DEF then
<1>7. SgTypes'
  BY <1>1, <1>2, <1>3, <1>5, <1>6 DEF SgTypes
<1>8. PlacesSound'
  <2>1. addr' \in [SgService -> SgAddress \cup {SgNil}] /\ addr'[s] = b
        /\ (\A t \in SgService \ {s} : addr'[t] = addr[t])
    BY <1>1, <1>2, <1>3 DEF SgTypes
  <2>2. \A t \in SgService : Places(t)' = Places(t)
    BY <1>1 DEF Places
  <2> QED BY <2>1, <2>2, <1>1, <1>2, <1>3, <1>6 DEF PlacesSound
<1>9. ASSUME OneAddress(splan) PROVE RulesOwned'
  <2> SUFFICES ASSUME sfaults' = 0, NEW n, NEW a, n.by = "cluster", In(nsg', n, a)
               PROVE  \E t \in SgService : addr'[t] = a
    BY DEF RulesOwned, In
  <2>1. sfaults = 0 /\ r \in {"error", "same", "outdated", "done"}
    <3>1. splan.faults \in Nat /\ sfaults \in 0..splan.faults
      BY <1>2, SgPlansAssumption DEF SgTypes, SgPlan
    <3> QED BY <1>4, <3>1 DEF Ended
  <2>2. a = b \/ In(nsg, n, a)
    <3>1. CASE r # "done"
      BY <1>4, <2>1, <3>1 DEF Ended
    <3>2. CASE r = "done"
      <4>1. Sent(s, {b}, want, nsg')
        BY <1>4, <3>2 DEF Ended
      <4>2. GetSecurityGroup = nsg
        BY <1>2, <2>1, OneSeen
      <4>3. (a # b /\ In(GetSecurityGroup, n, a)) \/ a = b
        BY <4>1, <1>2, <1>3, <1>w, SentOwned
      <4> QED BY <4>2, <4>3
    <3> QED BY <3>1, <3>2
  <2>3. addr'[s] = b /\ (\A t \in SgService \ {s} : addr'[t] = addr[t])
    BY <1>1, <1>2 DEF SgTypes
  <2>4. CASE a = b
    BY <2>3, <2>4
  <2>5. CASE In(nsg, n, a)
    <3>1. PICK t \in SgService : addr[t] = a
      BY <2>1, <2>5, <1>9 DEF GroupInv, RulesOwned
    <3>2. CASE t # s
      BY <3>1, <3>2, <2>3
    <3>3. CASE t = s
      <4>1. a # SgNil
        <5>1. nsg \subseteq SgRule
          BY <1>2 DEF GroupsSound, GroupOK, Orderly, RuleSound
        <5> QED BY <5>1, <2>5, SgNilAssumption DEF In, SgRule
      <4>2. a \in Places(s)
        BY <3>1, <3>3, <4>1, <1>2 DEF PlacesSound
      <4> QED BY <4>2, <1>3, <1>9, OnePlace, <2>4
    <3> QED BY <3>2, <3>3
  <2> QED BY <2>2, <2>4, <2>5
<1>10. OneAddress(splan)' => OneAddress(splan)
  BY <1>1 DEF OneAddress
<1> QED BY <1>5, <1>7, <1>8, <1>9, <1>10 DEF GroupInv, SgBase

LEMMA DeleteKeepsInv ==
  ASSUME GroupInv, NEW s \in SgService, Delete(s)
  PROVE  GroupInv'
<1> DEFINE b == addr[s]
           D == {b}
           want == FALSE
           gone == /\ sstate' = [sstate EXCEPT ![s] = "gone"]
                   /\ listed' = [listed EXCEPT ![s] = SgNil]
                   /\ sdirty' = sdirty \ {s}
                   /\ UNCHANGED owed
<1>1. /\ sstate[s] = "deleting" /\ s \notin owed
      /\ IF b = SgNil THEN gone /\ UNCHANGED <<addr, nsg, nsgCache, nsgCurrent, sfaults>>
         ELSE /\ reconcileSecurityGroup(s, D, want, gone)
              /\ addr' = IF sstate'[s] = "gone" THEN [addr EXCEPT ![s] = SgNil] ELSE addr
      /\ UNCHANGED <<splan, ask, sedits>>
  BY DEF Delete
<1>w. want \in BOOLEAN /\ ~want
  OBVIOUS
<1> HIDE DEF want
<1>2. SgTypes /\ PlacesSound /\ GroupsSound
  BY DEF GroupInv, SgBase
<1>3. ask[s] # SgNil
  BY <1>1, <1>2 DEF SgTypes
<1>4. \A t \in SgService : Places(t)' = Places(t)
  BY <1>1 DEF Places
<1>5. OneAddress(splan)' => OneAddress(splan)
  BY <1>1 DEF OneAddress
<1>6. CASE b = SgNil
  <2>1. SgTypes'
    BY <1>1, <1>2, <1>6 DEF SgTypes
  <2>2. PlacesSound'
    BY <1>1, <1>2, <1>4, <1>6 DEF PlacesSound, SgTypes
  <2>3. GroupsSound'
    BY <1>1, <1>2, <1>6 DEF GroupsSound, GroupOK, Orderly, RuleSound, ClusterName
  <2>4. OneAddress(splan) => RulesOwned'
    BY <1>1, <1>6 DEF GroupInv, RulesOwned, In
  <2> QED BY <2>1, <2>2, <2>3, <2>4, <1>5 DEF GroupInv, SgBase
<1>7. CASE b # SgNil
  <2> HIDE DEF gone, b
  <2>1. b \in SgAddress /\ b \in Places(s)
    BY <1>2, <1>7 DEF SgTypes, PlacesSound, b
  <2>2. D \in SUBSET SgAddress
    BY <2>1
  <2>3. PICK r : /\ Ended(s, D, want, r)
                 /\ nsgCache' = IF Invalidates(r) THEN SgNil ELSE GetSecurityGroup
                 /\ nsgCurrent' = (r # "unknown" /\ ~Invalidates(r) /\ (nsgCache = SgNil \/ nsgCurrent))
                 /\ IF r \in {"done", "same"} THEN gone ELSE UNCHANGED <<sstate, sdirty, owed, listed>>
    <3> HIDE DEF D
    <3> QED BY <1>1, <1>7, <1>w, <2>2, ReconcileEnds
  <2>4. GroupsSound' /\ sfaults' \in 0..splan.faults /\ nsgCurrent' \in BOOLEAN
    <3> HIDE DEF D
    <3> QED BY <1>1, <1>2, <1>3, <2>2, <2>3, <1>w, ReconcileKeepsGroups
  <2>5. \/ /\ r \in {"done", "same"} /\ gone /\ addr' = [addr EXCEPT ![s] = SgNil]
        \/ r \notin {"done", "same"} /\ UNCHANGED <<sstate, sdirty, owed, listed, addr>>
    BY <1>1, <1>2, <1>7, <2>3 DEF gone, SgTypes
  <2>6. SgTypes'
    BY <1>1, <1>2, <2>4, <2>5 DEF SgTypes, gone
  <2>7. PlacesSound'
    BY <1>1, <1>2, <1>4, <2>5 DEF PlacesSound, gone, SgTypes
  <2>8. ASSUME OneAddress(splan) PROVE RulesOwned'
    <3> SUFFICES ASSUME sfaults' = 0, NEW n, NEW a, n.by = "cluster", In(nsg', n, a)
                 PROVE  \E t \in SgService : addr'[t] = a
      BY DEF RulesOwned, In
    <3>1. sfaults = 0 /\ r \in {"error", "same", "outdated", "done"}
      <4>1. splan.faults \in Nat /\ sfaults \in 0..splan.faults
        BY <1>2, SgPlansAssumption DEF SgTypes, SgPlan
      <4> QED BY <2>3, <4>1 DEF Ended
    <3>2. GetSecurityGroup = nsg
      BY <1>2, <3>1, OneSeen
    <3>3. \A x : In(nsg, n, x) => \E t \in SgService : addr[t] = x
      BY <3>1, <2>8 DEF GroupInv, RulesOwned
    <3>4. CASE r \notin {"done", "same"}
      BY <3>4, <3>1, <3>3, <2>3, <2>5 DEF Ended
    <3>5. CASE r \in {"done", "same"}
      <4>1. Sent(s, {b}, want, nsg')
        BY <2>3, <3>2, <3>5 DEF Ended
      <4>2. \/ a # b /\ In(GetSecurityGroup, n, a)
            \/ a = b /\ \E u \in SgService \ {s} : listed[u] = b
        BY <4>1, <1>2, <1>3, <1>w, <2>1, SentOwned
      <4>3. \A t \in SgService \ {s} : addr'[t] = addr[t]
        BY <1>2, <2>5 DEF SgTypes
      <4>4. CASE a # b /\ In(nsg, n, a)
        <5>1. PICK t \in SgService : addr[t] = a
          BY <3>3, <4>4
        <5> QED BY <5>1, <4>3, <4>4 DEF b
      <4>5. CASE a = b /\ \E u \in SgService \ {s} : listed[u] = b
        <5>1. PICK u \in SgService \ {s} : listed[u] = b
          BY <4>5
        <5>2. addr[u] \in Places(u) /\ b \in Places(u)
          BY <5>1, <1>2, <1>7 DEF PlacesSound
        <5>3. addr[u] = b
          BY <5>2, <2>8, OnePlace
        <5> QED BY <5>1, <5>3, <4>3, <4>5
      <4> QED BY <4>2, <4>4, <4>5, <3>2
    <3> QED BY <3>4, <3>5
  <2> QED BY <2>4, <2>6, <2>7, <2>8, <1>5 DEF GroupInv, SgBase
<1> QED BY <1>6, <1>7

\* The steps that leave the group as it is.
LEMMA OthersKeepInv ==
  ASSUME GroupInv,
         (\E s \in SgService : Publish(s) \/ Ask(s) \/ GiveUp(s)) \/ TouchGroup \/ ExpireGroup \/ UNCHANGED svars
  PROVE  GroupInv'
<1>1. SgTypes /\ PlacesSound /\ GroupsSound
  BY DEF GroupInv, SgBase
<1>2. nsg' = nsg /\ splan' = splan /\ addr' = addr /\ (sfaults' = sfaults \/ (TouchGroup /\ sfaults' = sfaults + 1))
  BY DEF Publish, Ask, GiveUp, TouchGroup, ExpireGroup, svars
<1>3. splan.faults \in Nat /\ sfaults \in 0..splan.faults
  BY <1>1, SgPlansAssumption DEF SgTypes, SgPlan
<1>4. OneAddress(splan)' => RulesOwned'
  BY <1>2, <1>3 DEF GroupInv, RulesOwned, In, OneAddress
<1>5. \A t \in SgService : Places(t)' = Places(t)
  BY <1>2 DEF Places
<1>6. GroupOK(splan, nsg)' /\ (nsgCache' = nsgCache /\ nsgCache # SgNil => GroupOK(splan, nsgCache)')
  BY <1>1, <1>2 DEF GroupsSound, GroupOK, Orderly, RuleSound, ClusterName
<1>7. ASSUME NEW s \in SgService, Publish(s) PROVE SgBase'
  <2>1. GroupsSound'
    BY <1>1, <1>2, <1>6, <1>7 DEF GroupsSound, Publish
  <2>2. SgTypes' /\ PlacesSound'
    BY <1>1, <1>2, <1>5, <1>7 DEF Publish, SgTypes, PlacesSound
  <2> QED BY <2>1, <2>2 DEF SgBase
<1>8. ASSUME NEW s \in SgService, Ask(s) PROVE SgBase'
  <2>1. GroupsSound'
    BY <1>1, <1>2, <1>6, <1>8 DEF GroupsSound, Ask
  <2>2. PlacesSound'
    BY <1>1, <1>2, <1>5, <1>8 DEF Ask, PlacesSound, SgTypes
  <2>3. PICK a \in splan.asks[s] \ {ask[s]} : ask' = [ask EXCEPT ![s] = a]
    BY <1>8 DEF Ask
  <2>4. a \in Access /\ a # SgNil
    BY <1>1, <2>3, SgPlansAssumption, SgNilAssumption DEF SgTypes, SgPlan
  <2>5. SgTypes'
    BY <1>1, <1>2, <1>8, <2>3, <2>4, PriorityAssumption DEF Ask, SgTypes
  <2> QED BY <2>1, <2>2, <2>5 DEF SgBase
<1>9. ASSUME NEW s \in SgService, GiveUp(s) PROVE SgBase'
  <2>1. GroupsSound'
    BY <1>1, <1>2, <1>6, <1>9 DEF GroupsSound, GiveUp
  <2>2. SgTypes' /\ PlacesSound'
    BY <1>1, <1>2, <1>5, <1>9 DEF GiveUp, SgTypes, PlacesSound
  <2> QED BY <2>1, <2>2 DEF SgBase
<1>10. ASSUME TouchGroup PROVE SgBase'
  <2>1. GroupsSound'
    BY <1>1, <1>2, <1>3, <1>6, <1>10 DEF GroupsSound, TouchGroup
  <2>2. PlacesSound'
    BY <1>1, <1>2, <1>5, <1>10 DEF TouchGroup, PlacesSound
  <2>3. sfaults' \in 0..splan.faults
    BY <1>3, <1>10 DEF TouchGroup
  <2>4. SgTypes'
    BY <1>1, <1>2, <2>3, <1>10 DEF TouchGroup, SgTypes
  <2> QED BY <2>1, <2>2, <2>4 DEF SgBase
<1>11. ASSUME ExpireGroup PROVE SgBase'
  <2>1. GroupsSound'
    BY <1>1, <1>2, <1>6, <1>11 DEF GroupsSound, ExpireGroup
  <2>2. SgTypes' /\ PlacesSound'
    BY <1>1, <1>2, <1>5, <1>11 DEF ExpireGroup, SgTypes, PlacesSound
  <2> QED BY <2>1, <2>2 DEF SgBase
<1>12. ASSUME UNCHANGED svars PROVE SgBase'
  <2>1. GroupsSound'
    BY <1>1, <1>2, <1>6, <1>12 DEF GroupsSound, svars
  <2>2. SgTypes' /\ PlacesSound'
    BY <1>1, <1>2, <1>5, <1>12 DEF svars, SgTypes, PlacesSound
  <2> QED BY <2>1, <2>2 DEF SgBase
<1> QED BY <1>4, <1>7, <1>8, <1>9, <1>10, <1>11, <1>12 DEF GroupInv

LEMMA InitIsSound == ASSUME SInit PROVE GroupInv
<1>1. splan \in SgPlan /\ nsg = splan.foreign /\ nsgCache = SgNil /\ splan.foreign \subseteq SgRule
  BY SgPlansAssumption DEF SInit, SgPlan
<1>2. /\ \A r \in nsg : r.name.by = "user" /\ r.dst # {} /\ r \in SgRule
      /\ \A p, q \in nsg : p.priority = q.priority => p = q
      /\ IsFiniteSet(nsg) /\ Cardinality(nsg) <= MaxRules
  BY <1>1, SgPlansAssumption DEF SInit
<1>3. GroupOK(splan, nsg)
  BY <1>1, <1>2 DEF GroupOK, Orderly, RuleSound
<1>4. GroupsSound
  BY <1>1, <1>3 DEF GroupsSound, SInit
<1>5. RulesOwned
  BY <1>2 DEF RulesOwned, In
<1>6. SgTypes
  <2>1. splan \in SgPlans /\ splan.faults \in Nat /\ MaxSgEdits \in Nat
    BY <1>1, PriorityAssumption DEF SInit, SgPlan
  <2>2. 0 \in 0..MaxSgEdits /\ 0 \in 0..splan.faults
    BY <2>1
  <2> QED BY <2>1, <2>2 DEF SgTypes, SInit
<1>7. PlacesSound
  BY DEF PlacesSound, SInit
<1> QED BY <1>4, <1>5, <1>6, <1>7 DEF GroupInv, SgBase

LEMMA NextKeepsInv == ASSUME GroupInv, [SNext]_svars PROVE GroupInv'
  BY EnsureKeepsInv, DeleteKeepsInv, OthersKeepInv DEF SNext, SWork

\* The inductive invariant of the security group: what nsgRepo holds and what Azure
\* holds are groups Azure accepts, every address is one its service asked for, and
\* a rule of the cluster has only addresses of services.
THEOREM GroupInvHolds == SSpec => []GroupInv
<1>1. GroupInv /\ [SNext]_svars => GroupInv'
  BY NextKeepsInv
<1>2. SInit => GroupInv
  BY InitIsSound
<1> QED BY <1>1, <1>2, PTL DEF SSpec

LEMMA RulesType ==
  ASSUME NEW p, NEW R, GroupOK(p, R)
  PROVE  \A r \in R : /\ r.name.protocol \in Protocols /\ r.name.sources \in Sources
                      /\ r.dst \subseteq SgAddress /\ r.dst # {} /\ r.name.by \in {"cluster", "user"}
<1>1. \A r \in R : r \in SgRule /\ r.dst # {}
  BY DEF GroupOK, Orderly, RuleSound
<1>2. \A r \in R : r.name \in RuleName /\ r.dst \subseteq SgAddress
  BY <1>1 DEF SgRule
<1> QED BY <1>1, <1>2 DEF RuleName

LEMMA InvIsTyped == ASSUME GroupInv PROVE STypeOK /\ RulesApart
<1>1. SgTypes /\ GroupsSound
  BY DEF GroupInv, SgBase
<1>2. \A rules \in {nsg, nsgCache} \ {SgNil} : GroupOK(splan, rules)
  BY <1>1 DEF GroupsSound
<1>3. STypeOK
  BY <1>1, <1>2, RulesType DEF SgTypes, STypeOK
<1>4. RulesApart
  BY <1>1 DEF GroupsSound, GroupOK, Orderly, RulesApart
<1> QED BY <1>3, <1>4

LEMMA InvLeavesNoRules == ASSUME GroupInv, OneAddress(splan) PROVE NoStaleRules
<1> SUFFICES ASSUME sfaults = 0, \A s \in SgService : sstate[s] \in {"none", "gone"},
                    NEW r \in nsg, r.name.by # "user"
             PROVE  FALSE
  BY DEF NoStaleRules
<1>1. GroupOK(splan, nsg) /\ PlacesSound
  BY DEF GroupInv, SgBase, GroupsSound
<1>2. r.name.by = "cluster" /\ r.dst # {} /\ r.dst \subseteq SgAddress
  BY <1>1, RulesType
<1>3. PICK a \in SgAddress : a \in r.dst
  BY <1>2
<1>4. In(nsg, r.name, a)
  BY <1>3 DEF In
<1>5. PICK t \in SgService : addr[t] = a
  BY <1>2, <1>4 DEF GroupInv, RulesOwned
<1> QED BY <1>1, <1>3, <1>5, SgNilAssumption DEF PlacesSound

\* Rules never share a priority (getOrCreateRule, CleanSecurityGroup), and when no
\* service is left and no update failed, no rule of the cluster is left either
\* (reconcileSecurityGroup).  Only the addresses of the moment are cleaned, so this
\* is for services that keep their address.
THEOREM GroupStaysSound ==
  SSpec /\ OneAddress(splan) => []GroupSound
<1>1. GroupInv /\ OneAddress(splan) => GroupSound
  BY InvIsTyped, InvLeavesNoRules DEF GroupSound
<1>2. OneAddress(splan) /\ [SNext]_svars => OneAddress(splan)'
  <2>1. [SNext]_svars => splan' = splan
    BY DEF SNext, SWork, Ensure, Delete, Publish, Ask, GiveUp, TouchGroup, ExpireGroup, svars
  <2> QED BY <2>1 DEF OneAddress
<1> QED BY <1>1, <1>2, GroupInvHolds, PTL DEF SSpec

\* Services that may have the same address and have the same protocol have
\* different ports: their load balancer refuses a second rule for a port.
PortsApart(p) ==
    \A s, t \in SgService :
        (s # t /\ p.protocol[s] = p.protocol[t]
            /\ \E a \in p.asks[s], b \in p.asks[t] : a.address = b.address) =>
        p.ports[s] \cap p.ports[t] = {}

\* The users keep their rules out of the range of priorities of the cluster.
ForeignApart(p) == \A f \in p.foreign : ~InReach(f)

\* A rule of the cluster that counts for a service.
Opens(n, s) == /\ n.by = "cluster" /\ n.access = "Allow" /\ n.protocol = splan.protocol[s]
               /\ n.ports \cap splan.ports[s] # {}

LEMMA ReachIs ==
  ASSUME NEW R, NEW s, NEW a, NEW x
  PROVE  x \in Reach(R, s, a) <=> \E n : Opens(n, s) /\ In(R, n, a) /\ x \in Clients(n.sources)
  BY DEF Reach, Opens, In

LEMMA NotRetained ==
  ASSUME SgTypes, PlacesSound, PortsApart(splan), NEW s \in SgService, NEW D, D \subseteq Places(s), SgNil \notin D
  PROVE  Retained(s, D)[splan.protocol[s]] \cap splan.ports[s] = {}
<1> SUFFICES ASSUME NEW x \in Retained(s, D)[splan.protocol[s]], x \in splan.ports[s] PROVE FALSE
  OBVIOUS
<1>1. splan.protocol[s] \in Protocols
  BY SgPlansAssumption DEF SgTypes, SgPlan
<1>2. PICK u \in SgService \ {s} : listed[u] \in D /\ splan.protocol[u] = splan.protocol[s] /\ x \in splan.ports[u]
  BY <1>1, RetainedFrom
<1>3. listed[u] \in Places(u) /\ listed[u] \in Places(s)
  BY <1>2 DEF PlacesSound
<1> QED BY <1>2, <1>3 DEF PortsApart, Places

LEMMA KeptIsRetained ==
  ASSUME NEW p, NEW R, Orderly(p, R), NEW s, NEW D, NEW r \in R, r.name.by = "cluster", r.name.access = "Allow",
         r.dst \cap D # {}, r \notin Losing(R, s, D)
  PROVE  r.name.ports \subseteq Retained(s, D)[r.name.protocol]
<1> DEFINE keep == Retained(s, D)[r.name.protocol]
<1>1. RuleSound(p, r)
  BY DEF Orderly
<1>2. InReach(r)
  BY <1>1, PriorityAssumption DEF RuleSound, InReach
<1>3. ~Loses(r, D, keep)
  BY <1>2 DEF Losing
<1>4. r.name.ports # {}
  BY <1>1 DEF RuleSound, ClusterName, DenyName
<1> HIDE DEF keep
<1>5. r.name.ports \subseteq keep
  BY <1>3, <1>4 DEF Loses, KeepsAll
<1> QED BY <1>5 DEF keep

\* In the group that is sent, the rules that count for the service are those it asks for.
LEMMA OpensAsWanted ==
  ASSUME SgTypes, PlacesSound, GroupsSound, PortsApart(splan),
         NEW s \in SgService, ask[s] # SgNil, NEW want \in BOOLEAN, want,
         NEW D \in SUBSET SgAddress, D \subseteq Places(s), NEW rules, Sent(s, D, want, rules),
         NEW n, Opens(n, s), NEW a \in D
  PROVE  In(rules, n, a) <=> n \in Wanted(s)
<1> DEFINE R == GetSecurityGroup
           keep == Retained(s, D)[splan.protocol[s]]
<1>1. Orderly(splan, R)
  BY GetIsOK DEF GroupOK
<1>2. keep \cap splan.ports[s] = {}
  BY NotRetained, SgNilAssumption
<1>3. In(rules, n, a) <=> \/ InLeft(R, s, D, n, a)
                          \/ n \in Splits(R, s, D)
                          \/ n \in Wanted(s)
  <2>1. In(rules, n, a) <=> \/ InLeft(R, s, D, n, a)
                            \/ a \in D /\ n \in Splits(R, s, D)
                            \/ a \in D /\ n \in Wanted(s) /\ want
    BY SentIn
  <2> HIDE DEF R
  <2> QED BY <2>1
<1> HIDE DEF R
<1>4. ~InLeft(R, s, D, n, a)
  <2> SUFFICES ASSUME NEW r \in R, r.name = n, a \in r.dst, r \notin Losing(R, s, D) PROVE FALSE
    BY DEF InLeft
  <2>1. r.name.ports \subseteq Retained(s, D)[r.name.protocol]
    BY <1>1, KeptIsRetained DEF Opens
  <2> QED BY <1>2, <2>1 DEF Opens
<1>5. n \notin Splits(R, s, D)
  <2> SUFFICES ASSUME NEW r \in R, n = Split(r, Retained(s, D)[r.name.protocol]) PROVE FALSE
    BY DEF Splits, Losing
  <2>1. n.protocol = r.name.protocol /\ n.ports \subseteq Retained(s, D)[r.name.protocol]
    BY DEF Split, AllowName
  <2> QED BY <1>2, <2>1 DEF Opens
<1> QED BY <1>3, <1>4, <1>5

\* The sources that are allowed let through whom the user asks for.
LEMMA AllowedIsAsked ==
  ASSUME NEW a \in Access, NEW x
  PROVE  (\E src \in AllowedSources(a) : x \in Clients(src)) <=> x \in ShallReach(a)
<1> DEFINE out == Elements(AggregatePrefixes(Asked(a)))
           byRange == [tag |-> "none", ranges |-> out]
<1>1. Asked(a) \in SUBSET Ranges /\ a.tags \in SUBSET {"tag"}
  BY DEF Access, Asked
<1>2. /\ Cover(out) = Cover(Asked(a)) /\ Cover(Asked(a)) \subseteq Addr
      /\ (IsPrefixesAllowAll(Asked(a)) => Cover(Asked(a)) = Addr)
  BY <1>1, RangesSound
<1>3. Cover({}) = {}
  BY DEF Cover
<1>4. Clients(byRange) = Cover(Asked(a))
  BY <1>2 DEF Clients
<1>5. Clients(Tag("Internet")) = Addr /\ Clients(Tag("tag")) = {}
  BY <1>3 DEF Clients, Tag
<1>6. AllowedSources(a) = {Tag(t) : t \in a.tags \cup IF IsAllowFromInternet(a) THEN {"Internet"} ELSE {}}
                          \cup IF Asked(a) = {} THEN {} ELSE {byRange}
  BY DEF AllowedSources
<1> HIDE DEF byRange
<1>7. (\E src \in AllowedSources(a) : x \in Clients(src)) <=>
        \/ IsAllowFromInternet(a) /\ x \in Addr
        \/ Asked(a) # {} /\ x \in Cover(Asked(a))
  BY <1>1, <1>4, <1>5, <1>6
<1> QED BY <1>2, <1>3, <1>7 DEF IsAllowFromInternet, ShallReach

\* What a service has been ensured with.
LEMMA EnsuredWith ==
  ASSUME GroupInv, NEW s \in SgService, NEW t \in SgService, Ensure(t),
         s \in owed' \ owed, nsgCache = SgNil \/ nsgCurrent
  PROVE  s = t /\ ask[s] # SgNil /\ \E want \in BOOLEAN : want /\ Sent(s, {ask[s].address}, want, nsg')
<1> DEFINE b == ask[t].address
           D == {b}
           want == TRUE
           then == /\ sdirty' = sdirty \ {t} /\ owed' = owed \cup {t}
                   /\ UNCHANGED <<sstate, listed>>
<1>1. sstate[t] = "wanted" /\ reconcileSecurityGroup(t, D, want, then)
  BY DEF Ensure
<1>2. SgTypes /\ PlacesSound /\ GroupsSound
  BY DEF GroupInv, SgBase
<1>3. ask[t] # SgNil /\ D \in SUBSET SgAddress
  BY <1>1, <1>2, AskType DEF SgTypes
<1>4. want \in BOOLEAN
  OBVIOUS
<1>w. want
  OBVIOUS
<1> HIDE DEF then, D, want
<1>5. PICK r : /\ Ended(t, D, want, r)
               /\ nsgCache' = IF Invalidates(r) THEN SgNil ELSE GetSecurityGroup
               /\ nsgCurrent' = (r # "unknown" /\ ~Invalidates(r) /\ (nsgCache = SgNil \/ nsgCurrent))
               /\ IF r \in {"done", "same"} THEN then ELSE UNCHANGED <<sstate, sdirty, owed, listed>>
  BY <1>1, <1>3, <1>4, ReconcileEnds
<1>6. r \in {"done", "same"} /\ s = t
  BY <1>5 DEF then
<1>7. GetSecurityGroup = nsg
  BY <1>2 DEF GetSecurityGroup, GroupsSound
<1>8. Sent(t, D, want, nsg')
  BY <1>5, <1>6, <1>7 DEF Ended
<1> QED BY <1>3, <1>4, <1>w, <1>6, <1>8 DEF D

LEMMA ExposedStep ==
  ASSUME GroupInv, PortsApart(splan), [SNext]_svars,
         NEW s \in SgService, s \in owed' \ owed, nsgCache = SgNil \/ nsgCurrent, splan' = splan
  PROVE  /\ Reach(nsg', s, ask[s].address) = ShallReach(ask[s])
         /\ DenyAllExceptSourceRanges(ask[s]) => Blocked(nsg', ask[s].address)
<1>1. PICK t \in SgService : Ensure(t)
  <2>1. ~(\E t \in SgService : Delete(t))
    <3> SUFFICES ASSUME NEW t \in SgService, Delete(t) PROVE FALSE
      OBVIOUS
    <3> DEFINE gone == /\ sstate' = [sstate EXCEPT ![t] = "gone"]
                       /\ listed' = [listed EXCEPT ![t] = SgNil]
                       /\ sdirty' = sdirty \ {t}
                       /\ UNCHANGED owed
               D == {addr[t]}
               want == FALSE
    <3>1. CASE addr[t] = SgNil
      BY <3>1 DEF Delete
    <3>2. CASE addr[t] # SgNil
      <4>1. reconcileSecurityGroup(t, D, want, gone)
        BY <3>2 DEF Delete
      <4>2. D \in SUBSET SgAddress /\ want \in BOOLEAN
        BY <3>2 DEF GroupInv, SgBase, SgTypes
      <4> HIDE DEF gone, D, want
      <4>3. PICK r : IF r \in {"done", "same"} THEN gone ELSE UNCHANGED <<sstate, sdirty, owed, listed>>
        BY <4>1, <4>2, ReconcileEnds
      <4> QED BY <4>3 DEF gone
    <3> QED BY <3>1, <3>2
  <2> QED BY <2>1 DEF SNext, SWork, Publish, Ask, GiveUp, TouchGroup, ExpireGroup, svars
<1> DEFINE b == ask[s].address
           D == {b}
<1>2. SgTypes /\ PlacesSound /\ GroupsSound
  BY DEF GroupInv, SgBase
<1>3. PICK want \in BOOLEAN : want /\ Sent(s, D, want, nsg') /\ ask[s] # SgNil
  BY <1>1, EnsuredWith
<1>4. ask[s] \in Access /\ D \in SUBSET SgAddress /\ D \subseteq Places(s) /\ b \in D
  BY <1>2, <1>3, AskType
<1>5. splan \in SgPlan /\ splan.ports[s] # {}
  BY <1>2, SgPlansAssumption DEF SgTypes, SgPlan
<1> HIDE DEF D
<1>6. \A n : Opens(n, s) => (In(nsg', n, b) <=> n \in Wanted(s))
  BY <1>2, <1>3, <1>4, OpensAsWanted
<1>7. ASSUME NEW x PROVE x \in Reach(nsg', s, b) <=> x \in ShallReach(ask[s])
  <2>1. x \in Reach(nsg', s, b) <=> \E n : Opens(n, s) /\ n \in Wanted(s) /\ x \in Clients(n.sources)
    BY <1>6, ReachIs
  <2>2. \A src \in AllowedSources(ask[s]) :
          LET n == AllowName(splan.protocol[s], src, splan.ports[s])
          IN  n \in Wanted(s) /\ Opens(n, s) /\ n.sources = src
    BY <1>5 DEF Wanted, Opens, AllowName
  <2>3. \A n \in Wanted(s) : Opens(n, s) => n.sources \in AllowedSources(ask[s])
    <3> SUFFICES ASSUME NEW n \in Wanted(s), Opens(n, s) PROVE n.sources \in AllowedSources(ask[s])
      OBVIOUS
    <3>1. n # DenyName
      BY DEF Opens, DenyName
    <3> QED BY <3>1 DEF Wanted, AllowName
  <2>4. x \in Reach(nsg', s, b) <=> \E src \in AllowedSources(ask[s]) : x \in Clients(src)
    BY <2>1, <2>2, <2>3
  <2> QED BY <2>4, <1>4, AllowedIsAsked
<1>8. DenyAllExceptSourceRanges(ask[s]) => Blocked(nsg', b)
  <2> SUFFICES ASSUME DenyAllExceptSourceRanges(ask[s]) PROVE Blocked(nsg', b)
    OBVIOUS
  <2>1. DenyName \in Wanted(s)
    BY DEF Wanted
  <2>2. In(nsg', DenyName, b)
    <3> DEFINE n == DenyName
    <3> HIDE DEF n, b
    <3>1. In(nsg', n, b) <=> \/ InLeft(GetSecurityGroup, s, D, n, b)
                             \/ b \in D /\ n \in Splits(GetSecurityGroup, s, D)
                             \/ b \in D /\ n \in Wanted(s) /\ want
      BY <1>2, <1>3, <1>4, SentIn
    <3> QED BY <2>1, <3>1, <1>3, <1>4 DEF n
  <2> QED BY <2>2 DEF In, Blocked
<1>9. Reach(nsg', s, b) = ShallReach(ask[s])
  BY <1>7
<1> QED BY <1>8, <1>9

\* An update that is accepted lets to a service exactly the clients its user asks
\* for, and denies the others if so asked, whatever rules were there before
\* (CleanSecurityGroup, PatchSecurityGroup).
THEOREM ExposureIsAsAsked ==
  SSpec /\ PortsApart(splan) => ExposedAsAsked
<1> DEFINE Inv == GroupInv /\ PortsApart(splan)
           Act == \A s \in SgService : (s \in sdirty /\ s \in owed' \ owed /\ (nsgCache = SgNil \/ nsgCurrent)) =>
                    /\ Reach(nsg', s, ask[s].address) = ShallReach(ask[s])
                    /\ DenyAllExceptSourceRanges(ask[s]) => Blocked(nsg', ask[s].address)
<1>1. [SNext]_svars => splan' = splan
  BY DEF SNext, SWork, Ensure, Delete, Publish, Ask, GiveUp, TouchGroup, ExpireGroup, svars
<1>2. PortsApart(splan) /\ [SNext]_svars => PortsApart(splan)'
  BY <1>1 DEF PortsApart
<1>3. GroupInv /\ PortsApart(splan) /\ [SNext]_svars => [Act]_svars
  BY <1>1, ExposedStep
<1>4. ExposedAsAsked <=> [][Act]_svars
  BY DEF ExposedAsAsked
<1> HIDE DEF Act
<1> QED BY <1>2, <1>3, <1>4, GroupInvHolds, PTL DEF SSpec

\* Another service's address keeps the rules that count for it.
LEMMA SentKeepsReach ==
  ASSUME SgTypes, PlacesSound, GroupsSound, PortsApart(splan), ForeignApart(splan),
         NEW s \in SgService, NEW t \in SgService, t # s, ask[t] # SgNil, ask[s] # SgNil,
         listed[s] # SgNil,
         NEW want \in BOOLEAN, NEW D \in SUBSET SgAddress, D \subseteq Places(t), \A b, c \in D : b = c,
         NEW rules, Sent(t, D, want, rules)
  PROVE  Reach(rules, s, listed[s]) = Reach(GetSecurityGroup, s, listed[s])
<1> SUFFICES ASSUME NEW a, a = listed[s]
             PROVE  Reach(rules, s, a) = Reach(GetSecurityGroup, s, a)
  OBVIOUS
<1> SUFFICES ASSUME NEW x
             PROVE  x \in Reach(rules, s, a) <=> x \in Reach(GetSecurityGroup, s, a)
  OBVIOUS
<1> DEFINE R == GetSecurityGroup
           keep == Retained(t, D)[splan.protocol[s]]
<1>1. GroupOK(splan, R) /\ Orderly(splan, R)
  BY GetIsOK DEF GroupOK
<1>2. ASSUME NEW n
      PROVE  In(rules, n, a) <=> \/ InLeft(R, t, D, n, a)
                                 \/ a \in D /\ n \in Splits(R, t, D)
                                 \/ a \in D /\ n \in Wanted(t) /\ want
  <2>1. In(rules, n, a) <=> \/ InLeft(GetSecurityGroup, t, D, n, a)
                            \/ a \in D /\ n \in Splits(GetSecurityGroup, t, D)
                            \/ a \in D /\ n \in Wanted(t) /\ want
    BY SentIn, SMTT(60)
  <2> QED BY <2>1, Zenon
<1> HIDE DEF R
<1>3. a \in D => splan.ports[s] \subseteq keep
  <2>1. splan.protocol[s] \in Protocols
    BY SgPlansAssumption DEF SgTypes, SgPlan
  <2> QED BY <2>1 DEF Retained, listSharedIPPortMapping
<1>4. ASSUME NEW n, Opens(n, s), In(R, n, a)
      PROVE  \E m : Opens(m, s) /\ In(rules, m, a) /\ m.sources = n.sources
  <2>1. PICK r \in R : r.name = n /\ a \in r.dst
    BY <1>4 DEF In
  <2>2. CASE r \notin Losing(R, t, D) \/ a \notin D
    <3>1. InLeft(R, t, D, n, a)
      BY <2>1, <2>2 DEF InLeft
    <3>2. In(rules, n, a)
      BY <3>1, <1>2
    <3> QED BY <3>2, <1>4
  <2>3. CASE r \in Losing(R, t, D) /\ a \in D
    <3> DEFINE m == Split(r, Retained(t, D)[r.name.protocol])
    <3>1. n.protocol = splan.protocol[s] /\ n.ports \cap keep # {} /\ n.ports \cap keep \cap splan.ports[s] # {}
      BY <1>3, <1>4, <2>3 DEF Opens
    <3>2. m \in Splits(R, t, D)
      BY <2>1, <2>3, <3>1 DEF Splits
    <3>3. m.by = "cluster" /\ m.access = "Allow" /\ m.protocol = n.protocol /\ m.sources = n.sources
          /\ m.ports = n.ports \cap keep
      BY <2>1, <3>1 DEF Split, AllowName
    <3> HIDE DEF m, keep
    <3>4. Opens(m, s)
      BY <3>1, <3>3 DEF Opens
    <3>5. In(rules, m, a)
      BY <3>2, <2>3, <1>2
    <3> QED BY <3>3, <3>4, <3>5
  <2> QED BY <2>2, <2>3
<1>5. ASSUME NEW n, Opens(n, s), In(rules, n, a)
      PROVE  \E m : Opens(m, s) /\ In(R, m, a) /\ m.sources = n.sources
  <2>1. CASE InLeft(R, t, D, n, a)
    BY <2>1, <1>5 DEF InLeft, In
  <2>2. CASE a \in D /\ n \in Splits(R, t, D)
    <3>1. PICK r \in Losing(R, t, D) : /\ r.name.ports \cap Retained(t, D)[r.name.protocol] # {}
                                       /\ n = Split(r, Retained(t, D)[r.name.protocol])
      BY <2>2 DEF Splits
    <3>2. r \in R /\ InReach(r) /\ Loses(r, D, Retained(t, D)[r.name.protocol])
      BY DEF Losing
    <3>3. RuleSound(splan, r) /\ r.name.by \in {"cluster", "user"}
      BY <1>1, <3>2 DEF Orderly, RuleSound, SgRule, RuleName
    <3>4. r.name.by = "cluster"
      BY <3>2, <3>3 DEF RuleSound, ForeignApart, InReach
    <3>5. r.name.ports # {} /\ r.dst \cap D # {}
      BY <3>1, <3>2 DEF Loses
    <3>6. r.name.access = "Allow"
      BY <3>3, <3>4, <3>5 DEF RuleSound, ClusterName, DenyName
    <3>7. a \in r.dst
      BY <2>2, <3>5
    <3>8. n.protocol = r.name.protocol /\ n.sources = r.name.sources /\ n.ports \subseteq r.name.ports
      BY <3>1 DEF Split, AllowName
    <3>9. Opens(r.name, s) /\ In(R, r.name, a)
      BY <3>2, <3>4, <3>6, <3>7, <3>8, <1>5 DEF Opens, In
    <3> QED BY <3>8, <3>9
  <2>3. CASE a \in D /\ n \in Wanted(t)
    <3>1. n # DenyName
      BY <1>5 DEF Opens, DenyName
    <3>2. n.protocol = splan.protocol[t] /\ n.ports = splan.ports[t]
      BY <2>3, <3>1 DEF Wanted, AllowName
    <3>3. a \in Places(s) /\ a \in Places(t)
      BY <2>3 DEF PlacesSound
    <3>4. PICK u \in splan.asks[s], v \in splan.asks[t] : u.address = v.address
      BY <3>3 DEF Places
    <3>5. splan.protocol[s] = splan.protocol[t]
      BY <3>2, <1>5 DEF Opens
    <3>6. splan.ports[s] \cap splan.ports[t] = {}
      BY <3>4, <3>5 DEF PortsApart
    <3> QED BY <3>2, <3>6, <1>5 DEF Opens
  <2> QED BY <2>1, <2>2, <2>3, <1>2, <1>5
<1>6. x \in Reach(rules, s, a) <=> \E n : Opens(n, s) /\ In(rules, n, a) /\ x \in Clients(n.sources)
  BY ReachIs
<1>7. x \in Reach(R, s, a) <=> \E n : Opens(n, s) /\ In(R, n, a) /\ x \in Clients(n.sources)
  BY ReachIs
<1>8. x \in Reach(rules, s, a) <=> x \in Reach(R, s, a)
  BY <1>4, <1>5, <1>6, <1>7
<1> QED BY <1>8 DEF R

\* A service in rest keeps its reach in a reconciliation for another one.
LEMMA EndedKeepsReach ==
  ASSUME SgTypes, PlacesSound, GroupsSound, PortsApart(splan), ForeignApart(splan), splan' = splan,
         NEW s \in SgService, NEW t \in SgService, t # s, ask[t] # SgNil,
         listed[s] # SgNil, listed[s] = addr[s],
         NEW want \in BOOLEAN, NEW D \in SUBSET SgAddress, D \subseteq Places(t), \A b, c \in D : b = c,
         NEW r, Ended(t, D, want, r)
  PROVE  Reach(nsg', s, addr[s]) = Reach(nsg, s, addr[s])
<1>1. ask[s] # SgNil
  BY DEF PlacesSound, SgTypes
<1>2. CASE r \notin {"done", "unknown"}
  BY <1>2 DEF Ended
<1>3. CASE r \in {"done", "unknown"}
  <2>1. Sent(t, D, want, nsg') /\ GetSecurityGroup = nsg
    BY <1>3 DEF Ended, GroupsSound, GetSecurityGroup
  <2>2. Reach(nsg', s, listed[s]) = Reach(GetSecurityGroup, s, listed[s])
    BY <1>1, <2>1, SentKeepsReach
  <2> QED BY <2>1, <2>2
<1> QED BY <1>2, <1>3

LEMMA OthersStep ==
  ASSUME GroupInv, PortsApart(splan), ForeignApart(splan), [SNext]_svars, splan' = splan,
         NEW s \in SgService, listed[s] # SgNil, listed[s] = addr[s], s \notin sdirty
  PROVE  Reach(nsg', s, addr[s]) = Reach(nsg, s, addr[s])
<1>1. SgTypes /\ PlacesSound /\ GroupsSound
  BY DEF GroupInv, SgBase
<1>2. ASSUME NEW t \in SgService, Ensure(t) PROVE Reach(nsg', s, addr[s]) = Reach(nsg, s, addr[s])
  <2> DEFINE b == ask[t].address
             D == {b}
             want == TRUE
             then == /\ sdirty' = sdirty \ {t} /\ owed' = owed \cup {t}
                     /\ UNCHANGED <<sstate, listed>>
  <2>1. sstate[t] = "wanted" /\ reconcileSecurityGroup(t, D, want, then) /\ t # s
    BY <1>2 DEF Ensure
  <2>2. ask[t] # SgNil /\ D \in SUBSET SgAddress /\ D \subseteq Places(t) /\ (\A x, y \in D : x = y)
    BY <1>1, <2>1, AskType DEF SgTypes
  <2>3. want \in BOOLEAN
    OBVIOUS
  <2> HIDE DEF then, D, want
  <2>4. PICK r : /\ Ended(t, D, want, r)
                 /\ nsgCache' = IF Invalidates(r) THEN SgNil ELSE GetSecurityGroup
                 /\ nsgCurrent' = (r # "unknown" /\ ~Invalidates(r) /\ (nsgCache = SgNil \/ nsgCurrent))
                 /\ IF r \in {"done", "same"} THEN then ELSE UNCHANGED <<sstate, sdirty, owed, listed>>
    BY <2>1, <2>2, <2>3, ReconcileEnds
  <2> QED BY <1>1, <2>1, <2>2, <2>3, <2>4, EndedKeepsReach
<1>3. ASSUME NEW t \in SgService, Delete(t) PROVE Reach(nsg', s, addr[s]) = Reach(nsg, s, addr[s])
  <2> DEFINE D == {addr[t]}
             want == FALSE
             gone == /\ sstate' = [sstate EXCEPT ![t] = "gone"]
                     /\ listed' = [listed EXCEPT ![t] = SgNil]
                     /\ sdirty' = sdirty \ {t}
                     /\ UNCHANGED owed
  <2>1. CASE addr[t] = SgNil
    BY <1>3, <2>1 DEF Delete, Reach
  <2>2. CASE addr[t] # SgNil
    <3>1. sstate[t] = "deleting" /\ reconcileSecurityGroup(t, D, want, gone) /\ t # s
      BY <1>3, <2>2 DEF Delete
    <3>2. ask[t] # SgNil /\ D \in SUBSET SgAddress /\ D \subseteq Places(t) /\ (\A x, y \in D : x = y)
      BY <1>1, <2>2, <3>1 DEF SgTypes, PlacesSound
    <3>3. want \in BOOLEAN
      OBVIOUS
    <3> HIDE DEF gone, D, want
    <3>4. PICK r : /\ Ended(t, D, want, r)
                   /\ nsgCache' = IF Invalidates(r) THEN SgNil ELSE GetSecurityGroup
                   /\ nsgCurrent' = (r # "unknown" /\ ~Invalidates(r) /\ (nsgCache = SgNil \/ nsgCurrent))
                   /\ IF r \in {"done", "same"} THEN gone ELSE UNCHANGED <<sstate, sdirty, owed, listed>>
      BY <3>1, <3>2, <3>3, ReconcileEnds
    <3> QED BY <1>1, <3>1, <3>2, <3>3, <3>4, EndedKeepsReach
  <2> QED BY <2>1, <2>2
<1>4. nsg' = nsg => Reach(nsg', s, addr[s]) = Reach(nsg, s, addr[s])
  OBVIOUS
<1> QED BY <1>2, <1>3, <1>4 DEF SNext, SWork, Publish, Ask, GiveUp, TouchGroup, ExpireGroup, svars

\* The reconciliation of one service changes for no other service on the same
\* address who may reach it: the rules that two share are split, not removed
\* (listSharedIPPortMapping, CleanSecurityGroup).
THEOREM RestingKeepRules ==
  SSpec /\ PortsApart(splan) /\ ForeignApart(splan) => OthersKeepRules
<1> DEFINE Act == \A s \in SgService :
                    (listed[s] # SgNil /\ listed[s] = addr[s] /\ s \notin sdirty) =>
                        Reach(nsg', s, addr[s]) = Reach(nsg, s, addr[s])
<1>1. [SNext]_svars => splan' = splan
  BY DEF SNext, SWork, Ensure, Delete, Publish, Ask, GiveUp, TouchGroup, ExpireGroup, svars
<1>2. PortsApart(splan) /\ ForeignApart(splan) /\ [SNext]_svars => PortsApart(splan)' /\ ForeignApart(splan)'
  BY <1>1 DEF PortsApart, ForeignApart
<1>3. GroupInv /\ PortsApart(splan) /\ ForeignApart(splan) /\ [SNext]_svars => [Act]_svars
  BY <1>1, OthersStep
<1>4. OthersKeepRules <=> [][Act]_svars
  BY DEF OthersKeepRules
<1> HIDE DEF Act
<1> QED BY <1>2, <1>3, <1>4, GroupInvHolds, PTL DEF SSpec
-------------------------------------------------------------------------------
(* Public IPs: types, and the public IPs of users. *)

\* No list and no write takes a public IP of a user for the provider's.
UsersSound ==
    /\ \A p \in UserPip : pips[p] # FNil /\ pips[p].tags = {}
    /\ pipCache # FNil => \A p \in UserPip : pipCache[p] # FNil => pipCache[p].tags = {}
    /\ ~Resting => /\ \A u \in sync.updates : u[1] \notin UserPip
                   /\ \A d \in sync.drops : d[1] \notin UserPip

BaseInv == FTypeOK /\ UsersSound

LEMMA HolderTyped == ASSUME FTypeOK, NEW p PROVE Holder(p) \in FService \cup {FNil}
  BY DEF FTypeOK, Holder

LEMMA NewListTyped ==
  ASSUME FTypeOK PROVE newPIPCache \in [Pip -> Seen \cup {FNil}]
<1>1. ASSUME NEW p \in Pip, Exists(p)
      PROVE  [tags |-> pips[p].tags, dns |-> pips[p].dns, iptags |-> pips[p].iptags, config |-> Holder(p)] \in Seen
  <2>1. pips[p] \in Tagged
    BY <1>1 DEF FTypeOK, Exists
  <2> QED BY <2>1, HolderTyped DEF Seen, Tagged
<1> QED BY <1>1 DEF newPIPCache

LEMMA ListTyped == ASSUME FTypeOK PROVE listPIP \in [Pip -> Seen \cup {FNil}]
  BY NewListTyped DEF listPIP, FTypeOK

LEMMA ListForTyped ==
  ASSUME FTypeOK, NEW p \in Pip
  PROVE  /\ PipListFor(p) \in [Pip -> Seen \cup {FNil}]
         /\ getPublicIPAddress(p) \in Seen \cup {FNil}
         /\ getPublicIPAddress(p) = PipListFor(p)[p]
  BY NewListTyped, ListTyped DEF PipListFor, getPublicIPAddress

\* Users' public IPs are in every list, untagged.
UserList(l) == \A p \in UserPip : l[p] # FNil => l[p].tags = {}

LEMMA ListUser ==
  ASSUME BaseInv
  PROVE  /\ UserList(newPIPCache) /\ UserList(listPIP)
         /\ \A p \in UserPip : newPIPCache[p] # FNil
<1>1. \A p \in UserPip : p \in Pip /\ Exists(p) /\ pips[p].tags = {}
  BY DEF BaseInv, UsersSound, Exists, Pip
<1>2. \A p \in UserPip : newPIPCache[p] = [tags |-> pips[p].tags, dns |-> pips[p].dns, iptags |-> pips[p].iptags, config |-> Holder(p)]
  BY <1>1 DEF newPIPCache
<1>3. ASSUME NEW p \in UserPip
      PROVE  newPIPCache[p] \in Seen /\ newPIPCache[p].tags = {}
  <2> DEFINE new == [tags |-> pips[p].tags, dns |-> pips[p].dns, iptags |-> pips[p].iptags, config |-> Holder(p)]
  <2>1. pips[p] \in Tagged
    BY <1>1 DEF BaseInv, FTypeOK, Exists
  <2>2. FTypeOK
    BY DEF BaseInv
  <2>3. Holder(p) \in FService \cup {FNil}
    BY <2>2, HolderTyped
  <2>4. new \in Seen /\ new.tags = {}
    BY <1>1, <2>1, <2>3 DEF Seen, Tagged
  <2>5. newPIPCache[p] = new
    BY <1>2
  <2> QED BY <2>4, <2>5
<1>4. UserList(newPIPCache) /\ \A p \in UserPip : newPIPCache[p] # FNil
  BY <1>3, FNilAssumption DEF UserList
<1> QED BY <1>4 DEF UserList, listPIP, BaseInv, UsersSound

LEMMA ListForUser ==
  ASSUME BaseInv, NEW p \in Pip
  PROVE  /\ UserList(PipListFor(p))
         /\ p \in UserPip => Found(p) /\ getPublicIPAddress(p).tags = {}
<1>1. UserList(PipListFor(p))
  BY ListUser DEF PipListFor
<1>2. p \in UserPip => getPublicIPAddress(p) # FNil
  BY ListUser DEF getPublicIPAddress, PipListFor
<1>3. p \in UserPip => getPublicIPAddress(p).tags = {}
  BY <1>1, <1>2 DEF UserList, getPublicIPAddress
<1> QED BY <1>1, <1>2, <1>3 DEF Found

LEMMA BoundTyped ==
  ASSUME FTypeOK, NEW o \in Object, NEW p \in Pip PROVE Bound(o, p) \in Tagged
<1> DEFINE r == getPublicIPAddress(p)
<1>1. r = FNil \/ r \in Seen
  BY ListForTyped
<1>2. o.s \in FService /\ o.iptags \in IpTag \cup {FNil}
  BY DEF Object
<1>3. CASE r = FNil
  BY <1>2, <1>3 DEF Bound, Tagged
<1>4. CASE r # FNil
  <2>1. r.tags \in SUBSET FService /\ r.dns \in FService \cup {FNil} /\ r.iptags \in IpTag \cup {FNil}
    BY <1>1, <1>4 DEF Seen
  <2>2. Bound(o, p) = IF isUserAssignedPIP(r) THEN [tags |-> r.tags, dns |-> r.dns, iptags |-> r.iptags]
                      ELSE [tags |-> IF serviceOwnsPublicIP(o, p, r) THEN r.tags \cup {o.s} ELSE r.tags,
                            dns |-> IF o.s \in fplan.dns THEN o.s ELSE r.dns, iptags |-> r.iptags]
    BY <1>4 DEF Bound
  <2> QED BY <1>2, <2>1, <2>2 DEF Tagged
<1> QED BY <1>3, <1>4

\* What is written for a public IP is not for a user's.
LEMMA UserNotBound ==
  ASSUME BaseInv, NEW o \in Object, NEW p \in Pip, PipChanged(o, p) PROVE p \notin UserPip
<1> DEFINE r == getPublicIPAddress(p)
<1> SUFFICES ASSUME p \in UserPip PROVE FALSE
  OBVIOUS
<1>1. r # FNil /\ r.tags = {}
  BY ListForUser DEF Found
<1>2. Bound(o, p) = [tags |-> r.tags, dns |-> r.dns, iptags |-> r.iptags]
  BY <1>1 DEF Bound, isUserAssignedPIP
<1> QED BY <1>1, <1>2 DEF PipChanged

LEMMA NameTyped ==
  ASSUME FTypeOK, NEW o \in Object PROVE determinePublicIPName(o) \in Pip \cup {FNil}
  BY DEF determinePublicIPName, Object, Pip

LEMMA FrontendsTyped ==
  ASSUME FTypeOK, NEW o \in Object
  PROVE  /\ Owned(o) \subseteq FService /\ Kept(o) \subseteq Owned(o)
         /\ Chosen(o) \in FService /\ KindOf(o) \in Kind
         /\ Flip(o) \in Object /\ Flip(o).s = o.s
<1>1. Owned(o) \subseteq FService
  BY DEF Owned, Present, FTypeOK
<1>2. Kept(o) \subseteq Owned(o)
  BY DEF Kept
<1>3. o.s \in FService /\ o.internal \in BOOLEAN
  BY DEF Object
<1>4. Chosen(o) \in FService
  BY <1>1, <1>2, <1>3 DEF Chosen
<1>5. Flip(o) \in Object /\ Flip(o).s = o.s
  BY <1>3 DEF Flip, Object
<1> QED BY <1>1, <1>2, <1>4, <1>5 DEF KindOf, Kind

Lbs == [front : [FService -> Pip \cup {FNil}], inner : SUBSET FService,
        rule : [Kind -> [FService -> FService \cup {FNil}]]]

LEMMA WithServiceTyped == ASSUME FTypeOK, NEW o \in Object PROVE WithService(o) \in Lbs
<1> DEFINE f == Chosen(o)
           fr == IF o.internal THEN front
                 ELSE [g \in FService |->
                         CASE g = f /\ Kept(o) = {} -> determinePublicIPName(o)
                           [] g \in Owned(o) \ Kept(o) /\ ~(g = f /\ Kept(o) = {}) -> FNil
                           [] OTHER -> front[g]]
           ru == [rule EXCEPT ![KindOf(o)][o.s] = f]
           inn == IF o.internal THEN inner \cup {f} ELSE inner
<1>1. f \in FService /\ KindOf(o) \in Kind /\ o.s \in FService
  BY FrontendsTyped DEF Object
<1>2. determinePublicIPName(o) \in Pip \cup {FNil}
  BY NameTyped
<1>3. front \in [FService -> Pip \cup {FNil}] /\ inner \subseteq FService
      /\ rule \in [Kind -> [FService -> FService \cup {FNil}]]
  BY DEF FTypeOK
<1>4. fr \in [FService -> Pip \cup {FNil}]
  <2> HIDE DEF f
  <2> QED BY <1>2, <1>3
<1>5. ru \in [Kind -> [FService -> FService \cup {FNil}]]
  <2> HIDE DEF f
  <2> QED BY <1>1, <1>3
<1>6. inn \subseteq FService
  BY <1>1, <1>3
<1>7. WithService(o) = [front |-> fr, inner |-> inn, rule |-> ru]
  BY DEF WithService
<1> HIDE DEF fr, inn, ru
<1> QED BY <1>4, <1>5, <1>6, <1>7 DEF Lbs

LEMMA WithoutServiceTyped == ASSUME FTypeOK, NEW o \in Object PROVE WithoutService(o) \in Lbs
<1> DEFINE k == KindOf(o)
           dropped == {f \in Owned(o) : ~isFrontendIPConfigUnsafeToDelete(o, f)}
           empty == Present(k) \subseteq dropped
           fr == IF o.internal THEN front ELSE [f \in FService |-> IF f \in dropped THEN FNil ELSE front[f]]
           inn == IF o.internal THEN inner \ dropped ELSE inner
           ru == [rule EXCEPT ![k] = [s \in FService |-> IF s = o.s \/ empty THEN FNil ELSE rule[k][s]]]
<1>1. k \in Kind
  BY FrontendsTyped
<1>3. front \in [FService -> Pip \cup {FNil}] /\ inner \subseteq FService
      /\ rule \in [Kind -> [FService -> FService \cup {FNil}]]
  BY DEF FTypeOK
<1>7. WithoutService(o) = [front |-> fr, inner |-> inn, rule |-> ru]
  BY DEF WithoutService
<1> HIDE DEF k, dropped, empty
<1>4. fr \in [FService -> Pip \cup {FNil}]
  BY <1>3
<1>5. ru \in [Kind -> [FService -> FService \cup {FNil}]]
  BY <1>1, <1>3
<1>6. inn \subseteq FService
  BY <1>3
<1> HIDE DEF fr, inn, ru
<1> QED BY <1>4, <1>5, <1>6, <1>7 DEF Lbs

\* The operation keeps to the public IPs that are not users', looks for the one
\* it is asked for, and knows which one it is before it confirms it.
Working(y) ==
    /\ y \in Sync
    /\ \A u \in y.updates : u[1] \notin UserPip
    /\ \A d \in y.drops : d[1] \notin UserPip
    /\ y.pc \in {"lb", "pip", "put"} => y.o.ip \in UserPip \cup {FNil}
    /\ (y.pc \in {"update", "release", "ensure"} /\ y.want /\ ~y.o.internal) => y.desired \in Pip
    /\ y.pc = "ensure" => y.want /\ ~y.o.internal

StepFits == Resting \/ Working(sync)

FInv == BaseInv /\ StepFits

LEMMA RestingIs == \A y \in Sync : y # Idle /\ y # Failed
  BY DEF Sync, Idle, Failed, FPc

LEMMA BaseStep ==
  ASSUME FInv,
         fplan' = fplan,
         state' \in [FService -> {"none", "wanted", "deleting", "gone"}],
         wish' \in [FService -> Wish],
         fdirty' \subseteq FService,
         pips' \in [Pip -> Tagged \cup {FNil}], \A p \in UserPip : pips'[p] = pips[p],
         pipCache' = FNil \/ (pipCache' \in [Pip -> Seen \cup {FNil}] /\ UserList(pipCache')),
         front' \in [FService -> Pip \cup {FNil}], inner' \subseteq FService,
         rule' \in [Kind -> [FService -> FService \cup {FNil}]],
         sync' \in {Idle, Failed} \/ Working(sync'),
         fedits' \in 0..MaxFEdits, ffaults' \in 0..fplan.faults
  PROVE  FInv'
<1>1. FTypeOK'
  BY DEF FInv, BaseInv, FTypeOK, Resting, Working
<1>2. UsersSound'
  <2>1. \A p \in UserPip : pips'[p] # FNil /\ pips'[p].tags = {}
    BY DEF FInv, BaseInv, UsersSound
  <2>2. pipCache' # FNil => \A p \in UserPip : pipCache'[p] # FNil => pipCache'[p].tags = {}
    BY DEF UserList
  <2>3. (~Resting)' => (\A u \in sync'.updates : u[1] \notin UserPip) /\ (\A d \in sync'.drops : d[1] \notin UserPip)
    BY DEF Resting, Working
  <2> QED BY <2>1, <2>2, <2>3 DEF UsersSound
<1>3. StepFits'
  BY DEF StepFits, Resting
<1> QED BY <1>1, <1>2, <1>3 DEF FInv, BaseInv

LEMMA CountTyped ==
  ASSUME FTypeOK, NEW r \in Outcome, Count(r) PROVE ffaults' \in 0..fplan.faults
<1>1. fplan.faults \in Nat /\ ffaults \in 0..fplan.faults
  BY FPlansAssumption DEF FTypeOK, FPlan
<1>2. CASE r = "done"
  BY <1>1, <1>2 DEF Count
<1>3. CASE r # "done"
  BY <1>1, <1>3 DEF Count, Outcome
<1> QED BY <1>2, <1>3

LEMMA EndTyped ==
  ASSUME FTypeOK, sync \in Sync, Fail \/ Finish
  PROVE  /\ sync' \in {Idle, Failed} /\ fdirty' \subseteq FService
         /\ state' \in [FService -> {"none", "wanted", "deleting", "gone"}]
<1>1. sync.o.s \in FService
  BY DEF Sync, Object
<1> QED BY <1>1 DEF FTypeOK, Fail, Finish

LEMMA MoveTyped ==
  ASSUME NEW pc \in FPc, sync \in Sync, Goto(pc)
  PROVE  /\ sync' \in Sync /\ sync'.pc = pc
         /\ sync'.o = sync.o /\ sync'.want = sync.want /\ sync'.desired = sync.desired
         /\ sync'.renewed = sync.renewed /\ sync'.must = sync.must /\ sync'.failed = sync.failed
         /\ sync'.updates = sync.updates /\ sync'.drops = sync.drops
  BY DEF Goto, Sync

LEMMA PlanKeeps == ASSUME FInv, ~Resting, PlanFrontend PROVE FInv'
<1>1. FTypeOK /\ sync \in Sync /\ Working(sync) /\ sync.pc = "lb"
  BY DEF FInv, BaseInv, StepFits, Working, PlanFrontend
<1>2. sync' \in {Idle, Failed} \/ Working(sync')
  <2>1. CASE Fail
    BY <2>1 DEF Fail
  <2>2. CASE Goto("pip") \/ Goto("put")
    BY <1>1, <2>2, MoveTyped DEF Working, FPc
  <2> QED BY <2>1, <2>2 DEF PlanFrontend
<1>3. state' \in [FService -> {"none", "wanted", "deleting", "gone"}] /\ fdirty' \subseteq FService
  BY <1>1, EndTyped DEF PlanFrontend, FTypeOK
<1>4. listPIP \in [Pip -> Seen \cup {FNil}] /\ UserList(listPIP)
  BY <1>1, ListTyped, ListUser DEF FInv
<1> QED BY <1>1, <1>2, <1>3, <1>4, BaseStep DEF PlanFrontend, FTypeOK, LbState

\* What is known of the public IP that the operation is about to make or confirm.
LEMMA NameKnown ==
  ASSUME BaseInv, NEW o \in Object, o.ip \in UserPip \cup {FNil}
  PROVE  determinePublicIPName(o) \in Pip
<1>1. o.name # FNil => o.name \in Pip
  BY DEF Object, Pip
<1>2. o.s \in Pip
  BY DEF Object, Pip
<1>3. o.ip \in UserPip => o.ip \in Pip /\ Found(o.ip)
  BY ListForUser DEF Pip
<1> QED BY <1>1, <1>2, <1>3 DEF determinePublicIPName

LEMMA BoundKeeps ==
  ASSUME BaseInv, NEW o \in Object, NEW p \in Pip, PipChanged(o, p)
  PROVE  /\ [pips EXCEPT ![p] = Bound(o, p)] \in [Pip -> Tagged \cup {FNil}]
         /\ \A q \in UserPip : [pips EXCEPT ![p] = Bound(o, p)][q] = pips[q]
<1>1. Bound(o, p) \in Tagged
  BY BoundTyped DEF BaseInv
<1>2. p \notin UserPip
  BY UserNotBound
<1>3. pips \in [Pip -> Tagged \cup {FNil}]
  BY DEF BaseInv, FTypeOK
<1> QED BY <1>1, <1>2, <1>3 DEF Pip

\* The outcomes of ensurePublicIPExists.
Refusing(p) == pipCache' = PipListFor(p) /\ Fail /\ UNCHANGED <<pips, ffaults>>
PipSent(o, p, r) ==
    /\ PipChanged(o, p) /\ ~reconcileDNSSettingsError(o, p) /\ Count(r)
    /\ pips' = IF r = "lost" THEN pips ELSE [pips EXCEPT ![p] = Bound(o, p)]
    /\ pipCache' = IF r = "done" THEN FNil ELSE PipListFor(p)
Unchanging(o, p) ==
    /\ ~PipChanged(o, p) /\ ~reconcileDNSSettingsError(o, p) /\ Exists(p)
    /\ pipCache' = PipListFor(p) /\ UNCHANGED <<pips, ffaults>>

LEMMA EnsureFrontendIs ==
  ASSUME EnsureFrontendIP
  PROVE  LET o == sync.o
             p == determinePublicIPName(o)
         IN  /\ sync.pc = "pip"
             /\ UNCHANGED <<fplan, wish, LbState, fedits>>
             /\ \/ Refusing(p) /\ ((o.name # FNil /\ ~Found(p)) \/ reconcileDNSSettingsError(o, p)
                                    \/ (~PipChanged(o, p) /\ ~Exists(p)))
                \/ /\ ~(o.name # FNil /\ ~Found(p))
                   /\ \/ Unchanging(o, p) /\ Goto("put") /\ UNCHANGED <<fdirty, state>>
                      \/ \E r \in Outcome :
                            /\ PipSent(o, p, r)
                            /\ IF r = "done" THEN Goto("put") /\ UNCHANGED <<fdirty, state>> ELSE Fail
  BY DEF EnsureFrontendIP, ensurePublicIPExists, Refusing, PipSent, Unchanging

LEMMA ConfirmIs ==
  ASSUME ConfirmPublicIP
  PROVE  LET o == sync.o
             p == sync.desired
         IN  /\ sync.pc = "ensure"
             /\ UNCHANGED <<fplan, wish, LbState, fedits>>
             /\ \/ Refusing(p) /\ ((sync.must /\ ~Found(p)) \/ reconcileDNSSettingsError(o, p)
                                    \/ (~PipChanged(o, p) /\ ~Exists(p)))
                \/ /\ ~(sync.must /\ ~Found(p))
                   /\ \/ Unchanging(o, p) /\ Finish
                      \/ \E r \in Outcome : PipSent(o, p, r) /\ IF r = "done" THEN Finish ELSE Fail
  BY DEF ConfirmPublicIP, ensurePublicIPExists, Refusing, PipSent, Unchanging

LEMMA EnsureSound ==
  ASSUME FInv, NEW o \in Object, NEW p \in Pip,
         \/ Refusing(p) \/ Unchanging(o, p) \/ \E r \in Outcome : PipSent(o, p, r)
  PROVE  /\ pips' \in [Pip -> Tagged \cup {FNil}] /\ \A q \in UserPip : pips'[q] = pips[q]
         /\ pipCache' = FNil \/ (pipCache' \in [Pip -> Seen \cup {FNil}] /\ UserList(pipCache'))
         /\ ffaults' \in 0..fplan.faults
<1>1. BaseInv /\ FTypeOK
  BY DEF FInv, BaseInv
<1>2. PipListFor(p) \in [Pip -> Seen \cup {FNil}] /\ UserList(PipListFor(p))
  BY <1>1, ListForTyped, ListForUser
<1>3. pips \in [Pip -> Tagged \cup {FNil}] /\ ffaults \in 0..fplan.faults
  BY <1>1 DEF FTypeOK
<1>4. CASE Refusing(p) \/ Unchanging(o, p)
  BY <1>2, <1>3, <1>4 DEF Refusing, Unchanging
<1>5. ASSUME NEW r \in Outcome, PipSent(o, p, r)
      PROVE  /\ pips' \in [Pip -> Tagged \cup {FNil}] /\ \A q \in UserPip : pips'[q] = pips[q]
             /\ pipCache' = FNil \/ (pipCache' \in [Pip -> Seen \cup {FNil}] /\ UserList(pipCache'))
             /\ ffaults' \in 0..fplan.faults
  <2>1. ffaults' \in 0..fplan.faults
    BY <1>1, <1>5, CountTyped DEF PipSent
  <2>2. pips' \in [Pip -> Tagged \cup {FNil}] /\ \A q \in UserPip : pips'[q] = pips[q]
    BY <1>1, <1>3, <1>5, BoundKeeps DEF PipSent
  <2> QED BY <1>2, <1>5, <2>1, <2>2 DEF PipSent
<1> QED BY <1>4, <1>5

LEMMA EnsureFrontendKeeps == ASSUME FInv, ~Resting, EnsureFrontendIP PROVE FInv'
<1> DEFINE o == sync.o
           p == determinePublicIPName(o)
<1>1. BaseInv /\ FTypeOK /\ sync \in Sync /\ Working(sync) /\ o \in Object /\ sync.pc = "pip"
  BY EnsureFrontendIs DEF FInv, BaseInv, StepFits, Working, Sync
<1>2. p \in Pip
  BY <1>1, NameKnown DEF Working
<1> HIDE DEF p
<1>3. /\ UNCHANGED <<fplan, wish, LbState, fedits>>
      /\ Refusing(p) \/ Unchanging(o, p) \/ \E r \in Outcome : PipSent(o, p, r)
      /\ Fail \/ (Goto("put") /\ UNCHANGED <<fdirty, state>>)
  BY EnsureFrontendIs DEF p, Refusing
<1>4. sync' \in {Idle, Failed} \/ Working(sync')
  <2>1. CASE Fail
    BY <2>1 DEF Fail
  <2>2. CASE Goto("put")
    BY <1>1, <2>2, MoveTyped DEF Working, FPc
  <2> QED BY <1>3, <2>1, <2>2
<1>5. state' \in [FService -> {"none", "wanted", "deleting", "gone"}] /\ fdirty' \subseteq FService
  BY <1>1, <1>3, EndTyped DEF FTypeOK
<1>6. /\ pips' \in [Pip -> Tagged \cup {FNil}] /\ \A q \in UserPip : pips'[q] = pips[q]
      /\ pipCache' = FNil \/ (pipCache' \in [Pip -> Seen \cup {FNil}] /\ UserList(pipCache'))
      /\ ffaults' \in 0..fplan.faults
  BY <1>1, <1>2, <1>3, EnsureSound
<1> QED BY <1>1, <1>3, <1>4, <1>5, <1>6, BaseStep DEF FTypeOK, LbState

LEMMA ConfirmKeeps == ASSUME FInv, ~Resting, ConfirmPublicIP PROVE FInv'
<1> DEFINE o == sync.o
           p == sync.desired
<1>1. BaseInv /\ FTypeOK /\ sync \in Sync /\ Working(sync) /\ o \in Object /\ sync.pc = "ensure"
  BY ConfirmIs DEF FInv, BaseInv, StepFits, Working, Sync
<1>2. p \in Pip
  BY <1>1 DEF Working
<1> HIDE DEF p
<1>3. /\ UNCHANGED <<fplan, wish, LbState, fedits>>
      /\ Refusing(p) \/ Unchanging(o, p) \/ \E r \in Outcome : PipSent(o, p, r)
      /\ Fail \/ Finish
  BY ConfirmIs DEF p, Refusing
<1>4. sync' \in {Idle, Failed}
  BY <1>3 DEF Fail, Finish
<1>5. state' \in [FService -> {"none", "wanted", "deleting", "gone"}] /\ fdirty' \subseteq FService
  BY <1>1, <1>3, EndTyped DEF FTypeOK
<1>6. /\ pips' \in [Pip -> Tagged \cup {FNil}] /\ \A q \in UserPip : pips'[q] = pips[q]
      /\ pipCache' = FNil \/ (pipCache' \in [Pip -> Seen \cup {FNil}] /\ UserList(pipCache'))
      /\ ffaults' \in 0..fplan.faults
  BY <1>1, <1>2, <1>3, EnsureSound
<1> QED BY <1>1, <1>3, <1>4, <1>5, <1>6, BaseStep DEF FTypeOK, LbState

CurrentLb == [front |-> front, inner |-> inner, rule |-> rule]

\* How the update of the load balancer ends.
LbSent(lb, r) ==
    /\ r \in Outcome \cup {"refused"}
    /\ IF r \in {"done", "unknown"}
       THEN /\ lb = CurrentLb \/ ~Refused(lb)
            /\ front' = lb.front /\ inner' = lb.inner /\ rule' = lb.rule
       ELSE UNCHANGED LbState
    /\ IF r = "refused" THEN Refused(lb) /\ UNCHANGED ffaults ELSE Count(r)

TargetLb == IF sync.want THEN WithService(sync.o) ELSE WithoutService(sync.o)

Carried(lb) ==
    [sync EXCEPT !.pc = "flip", !.o.ip = IF sync.want THEN LoadBalancerIP(sync.o, lb) ELSE sync.o.ip]

LEMMA PutIs ==
  ASSUME ReconcileLoadBalancer
  PROVE  /\ sync.pc = "put" /\ pipCache' = listPIP
         /\ UNCHANGED <<fplan, wish, pips, fedits>>
         /\ \/ /\ sync.want /\ checkLoadBalancerResourcesConflicts(sync.o)
               /\ Fail /\ UNCHANGED <<LbState, ffaults>>
            \/ /\ ~(sync.want /\ checkLoadBalancerResourcesConflicts(sync.o))
               /\ \E r \in Outcome \cup {"refused"} :
                    /\ LbSent(TargetLb, r)
                    /\ IF r = "done" THEN sync' = Carried(TargetLb) /\ UNCHANGED <<fdirty, state>>
                       ELSE Fail
<1>1. "done" \in Outcome /\ "refused" \notin Outcome
  BY DEF Outcome
<1>2. \/ /\ sync.want /\ checkLoadBalancerResourcesConflicts(sync.o)
         /\ Fail /\ UNCHANGED <<LbState, ffaults>>
      \/ /\ ~(sync.want /\ checkLoadBalancerResourcesConflicts(sync.o))
         /\ CreateOrUpdateLB(TargetLb, sync' = Carried(TargetLb) /\ UNCHANGED <<fdirty, state>>)
  BY DEF ReconcileLoadBalancer, TargetLb, Carried
<1>3. ASSUME CreateOrUpdateLB(TargetLb, sync' = Carried(TargetLb) /\ UNCHANGED <<fdirty, state>>)
      PROVE  \E r \in Outcome \cup {"refused"} :
                    /\ LbSent(TargetLb, r)
                    /\ IF r = "done" THEN sync' = Carried(TargetLb) /\ UNCHANGED <<fdirty, state>>
                       ELSE Fail
  BY <1>1, <1>3 DEF CreateOrUpdateLB, LbSent, CurrentLb
<1> QED BY <1>2, <1>3 DEF ReconcileLoadBalancer

LEMMA FlipIs ==
  ASSUME ReconcileFlipped
  PROVE  /\ sync.pc = "flip" /\ pipCache' = listPIP
         /\ UNCHANGED <<fplan, wish, pips, fedits>>
         /\ \E r \in Outcome \cup {"refused"} :
               /\ LbSent(WithoutService(Flip(sync.o)), r)
               /\ IF r = "done" THEN Goto("list") /\ UNCHANGED <<fdirty, state>> ELSE Fail
<1>1. "done" \in Outcome /\ "refused" \notin Outcome
  BY DEF Outcome
<1> QED BY <1>1 DEF ReconcileFlipped, CreateOrUpdateLB, LbSent, CurrentLb, FlippedLB

LEMMA LbSentTyped ==
  ASSUME FTypeOK, NEW lb \in Lbs, NEW r, LbSent(lb, r)
  PROVE  /\ front' \in [FService -> Pip \cup {FNil}] /\ inner' \subseteq FService
         /\ rule' \in [Kind -> [FService -> FService \cup {FNil}]]
         /\ ffaults' \in 0..fplan.faults
<1>1. ffaults' \in 0..fplan.faults
  BY CountTyped DEF LbSent, FTypeOK
<1>2. CASE r \in {"done", "unknown"}
  BY <1>1, <1>2 DEF LbSent, Lbs
<1>3. CASE r \notin {"done", "unknown"}
  BY <1>1, <1>3 DEF LbSent, LbState, FTypeOK
<1> QED BY <1>2, <1>3

LEMMA CarriedIs ==
  ASSUME FTypeOK, sync \in Sync, NEW lb \in Lbs, lb.rule["public"][sync.o.s] \in FService \/ ~sync.want \/ sync.o.internal
  PROVE  LET y == Carried(lb)
         IN  /\ y \in Sync /\ y.pc = "flip" /\ y.want = sync.want /\ y.desired = sync.desired
             /\ y.must = sync.must /\ y.failed = sync.failed
             /\ y.updates = sync.updates /\ y.drops = sync.drops
             /\ y.o.s = sync.o.s /\ y.o.internal = sync.o.internal /\ y.o.name = sync.o.name
             /\ y.o.iptags = sync.o.iptags
             /\ y.o.ip = IF sync.want THEN LoadBalancerIP(sync.o, lb) ELSE sync.o.ip
<1> DEFINE x == IF sync.want THEN LoadBalancerIP(sync.o, lb) ELSE sync.o.ip
<1>1. sync.o \in Object /\ sync.o.s \in FService
  BY DEF Sync, Object
<1>2. x \in Pip \cup {FNil, "private"}
  BY <1>1 DEF LoadBalancerIP, Lbs, Object
<1>3. [sync.o EXCEPT !.ip = x] \in Object
  BY <1>1, <1>2 DEF Object
<1>4. Carried(lb) = [sync EXCEPT !.pc = "flip", !.o = [sync.o EXCEPT !.ip = x]]
  BY DEF Carried, Sync
<1> HIDE DEF x
<1>5. /\ Carried(lb) \in Sync /\ Carried(lb).pc = "flip" /\ Carried(lb).o = [sync.o EXCEPT !.ip = x]
      /\ Carried(lb).want = sync.want /\ Carried(lb).desired = sync.desired
      /\ Carried(lb).must = sync.must /\ Carried(lb).failed = sync.failed
      /\ Carried(lb).updates = sync.updates /\ Carried(lb).drops = sync.drops
  BY <1>3, <1>4 DEF Sync, FPc
<1>6. LET o == [sync.o EXCEPT !.ip = x]
      IN  /\ o.s = sync.o.s /\ o.internal = sync.o.internal /\ o.name = sync.o.name
          /\ o.iptags = sync.o.iptags /\ o.ip = x
  BY <1>1 DEF Object
<1> QED BY <1>5, <1>6 DEF x

LEMMA RuleGiven ==
  ASSUME FTypeOK, NEW o \in Object
  PROVE  /\ WithService(o).rule[KindOf(o)][o.s] = Chosen(o)
         /\ \A k \in Kind, s \in FService : (k # KindOf(o) \/ s # o.s) => WithService(o).rule[k][s] = rule[k][s]
<1>1. KindOf(o) \in Kind /\ o.s \in FService
  BY FrontendsTyped DEF Object
<1>2. WithService(o).rule = [rule EXCEPT ![KindOf(o)][o.s] = Chosen(o)]
  BY DEF WithService
<1>3. rule \in [Kind -> [FService -> FService \cup {FNil}]]
  BY DEF FTypeOK
<1> QED BY <1>1, <1>2, <1>3

LEMMA PutKeeps == ASSUME FInv, ~Resting, ReconcileLoadBalancer PROVE FInv'
<1> DEFINE o == sync.o
<1>1. BaseInv /\ FTypeOK /\ sync \in Sync /\ Working(sync) /\ o \in Object /\ sync.pc = "put"
  BY PutIs DEF FInv, BaseInv, StepFits, Working, Sync
<1>2. listPIP \in [Pip -> Seen \cup {FNil}] /\ UserList(listPIP)
  BY <1>1, ListTyped, ListUser
<1>3. TargetLb \in Lbs
  BY <1>1, WithServiceTyped, WithoutServiceTyped DEF TargetLb
<1>4. TargetLb.rule["public"][o.s] \in FService \/ ~sync.want \/ o.internal
  BY <1>1, RuleGiven, FrontendsTyped DEF TargetLb, KindOf
<1>5. pipCache' = listPIP /\ UNCHANGED <<fplan, wish, pips, fedits>>
  BY PutIs
<1>6. /\ front' \in [FService -> Pip \cup {FNil}] /\ inner' \subseteq FService
      /\ rule' \in [Kind -> [FService -> FService \cup {FNil}]]
      /\ ffaults' \in 0..fplan.faults
  BY <1>1, <1>3, PutIs, LbSentTyped DEF LbState, FTypeOK
<1>7. Fail \/ (sync' = Carried(TargetLb) /\ UNCHANGED <<fdirty, state>>)
  BY PutIs
<1>8. sync' \in {Idle, Failed} \/ Working(sync')
  <2>1. CASE Fail
    BY <2>1 DEF Fail
  <2>2. CASE sync' = Carried(TargetLb)
    BY <1>1, <1>3, <1>4, <2>2, CarriedIs DEF Working
  <2> QED BY <1>7, <2>1, <2>2
<1>9. state' \in [FService -> {"none", "wanted", "deleting", "gone"}] /\ fdirty' \subseteq FService
  BY <1>1, <1>7, EndTyped DEF FTypeOK
<1> QED BY <1>1, <1>2, <1>5, <1>6, <1>8, <1>9, BaseStep DEF FTypeOK

LEMMA FlipKeeps == ASSUME FInv, ~Resting, ReconcileFlipped PROVE FInv'
<1> DEFINE o == sync.o
           lb == WithoutService(Flip(o))
<1>1. BaseInv /\ FTypeOK /\ sync \in Sync /\ Working(sync) /\ o \in Object /\ sync.pc = "flip"
  BY FlipIs DEF FInv, BaseInv, StepFits, Working, Sync
<1>2. listPIP \in [Pip -> Seen \cup {FNil}] /\ UserList(listPIP)
  BY <1>1, ListTyped, ListUser
<1>3. lb \in Lbs
  BY <1>1, WithoutServiceTyped, FrontendsTyped
<1>5. pipCache' = listPIP /\ UNCHANGED <<fplan, wish, pips, fedits>>
  BY FlipIs
<1>6. /\ front' \in [FService -> Pip \cup {FNil}] /\ inner' \subseteq FService
      /\ rule' \in [Kind -> [FService -> FService \cup {FNil}]]
      /\ ffaults' \in 0..fplan.faults
  BY <1>1, <1>3, FlipIs, LbSentTyped
<1>7. Fail \/ (Goto("list") /\ UNCHANGED <<fdirty, state>>)
  BY FlipIs
<1>8. sync' \in {Idle, Failed} \/ Working(sync')
  <2>1. CASE Fail
    BY <2>1 DEF Fail
  <2>2. CASE Goto("list")
    BY <1>1, <2>2, MoveTyped DEF Working, FPc
  <2> QED BY <1>7, <2>1, <2>2
<1>9. state' \in [FService -> {"none", "wanted", "deleting", "gone"}] /\ fdirty' \subseteq FService
  BY <1>1, <1>7, EndTyped DEF FTypeOK
<1> QED BY <1>1, <1>2, <1>5, <1>6, <1>8, <1>9, BaseStep DEF FTypeOK

\* The parts of getPublicIPUpdates.
DesiredIP == IF sync.want /\ ~sync.o.internal THEN determinePublicIPName(sync.o) ELSE FNil
ManagedPips == {p \in OwnedPips(sync.o) : ~isUserAssignedPIP(listPIP[p])}
DroppedPips == {p \in OwnedPips(sync.o) :
                  shouldReleaseExistingOwnedPublicIP(sync.o, sync.want, p, listPIP[p], DesiredIP)}
UpdatedPips == IF sync.want THEN {} ELSE ManagedPips \ DroppedPips
MissingIP == /\ sync.want /\ ~sync.o.internal
             /\ DesiredIP = FNil \/ (sync.o.name # FNil /\ listPIP[sync.o.name] = FNil)
UnboundAt(p) == Unbound(sync.o, sync.want, listPIP[p])
UnboundSeen(p) == [tags |-> Unbound(sync.o, FALSE, listPIP[p]).tags, dns |-> Unbound(sync.o, FALSE, listPIP[p]).dns,
                   iptags |-> Unbound(sync.o, FALSE, listPIP[p]).iptags, config |-> listPIP[p].config]
Listed == [sync EXCEPT !.pc = "update", !.desired = DesiredIP, !.renewed = DesiredIP \in DroppedPips,
              !.must = sync.o.name # FNil /\ DesiredIP \notin DroppedPips,
              !.updates = {<<p, UnboundAt(p)>> : p \in UpdatedPips},
              !.drops = {<<p, listPIP[p].config>> : p \in DroppedPips}]

LEMMA ListIs ==
  ASSUME getPublicIPUpdates
  PROVE  /\ sync.pc = "list" /\ UNCHANGED <<fplan, wish, pips, LbState, fedits, ffaults>>
         /\ pipCache' = [p \in Pip |-> IF ~MissingIP /\ p \in ManagedPips /\ ~sync.want
                                       THEN UnboundSeen(p) ELSE listPIP[p]]
         /\ IF MissingIP THEN Fail ELSE sync' = Listed /\ UNCHANGED <<fdirty, state>>
  BY DEF getPublicIPUpdates, DesiredIP, ManagedPips, DroppedPips, UpdatedPips, MissingIP, UnboundAt,
         UnboundSeen, Listed

LEMMA OwnedTyped ==
  ASSUME BaseInv, sync \in Sync
  PROVE  /\ ManagedPips \subseteq Pip \ UserPip /\ DroppedPips \subseteq ManagedPips
         /\ UpdatedPips \subseteq ManagedPips
         /\ \A p \in ManagedPips : listPIP[p] \in Seen /\ UnboundAt(p) \in Tagged /\ UnboundSeen(p) \in Seen
<1>1. listPIP \in [Pip -> Seen \cup {FNil}] /\ UserList(listPIP)
  BY ListTyped, ListUser DEF BaseInv
<1>2. OwnedPips(sync.o) \subseteq Pip /\ \A p \in OwnedPips(sync.o) : listPIP[p] \in Seen /\ listPIP[p] # FNil
  BY <1>1 DEF OwnedPips
<1>3. ManagedPips \subseteq Pip \ UserPip
  BY <1>1, <1>2 DEF ManagedPips, UserList, isUserAssignedPIP
<1>4. DroppedPips \subseteq ManagedPips
  BY DEF ManagedPips, DroppedPips, shouldReleaseExistingOwnedPublicIP
<1>5. UpdatedPips \subseteq ManagedPips
  BY DEF UpdatedPips
<1>6. sync.o.s \in FService
  BY DEF Sync, Object
<1>7. ASSUME NEW p \in ManagedPips PROVE listPIP[p] \in Seen /\ UnboundAt(p) \in Tagged /\ UnboundSeen(p) \in Seen
  <2> DEFINE r == listPIP[p]
  <2>1. r \in Seen
    BY <1>2 DEF ManagedPips
  <2>2. /\ r.tags \subseteq FService /\ r.dns \in FService \cup {FNil} /\ r.config \in FService \cup {FNil}
        /\ r.iptags \in IpTag \cup {FNil}
    BY <2>1 DEF Seen
  <2> HIDE DEF r
  <2>3. Unbound(sync.o, sync.want, r) \in Tagged
    BY <1>6, <2>2 DEF Unbound, Tagged
  <2>4. Unbound(sync.o, FALSE, r) \in Tagged
    BY <1>6, <2>2 DEF Unbound, Tagged
  <2>5. [tags |-> Unbound(sync.o, FALSE, r).tags, dns |-> Unbound(sync.o, FALSE, r).dns,
         iptags |-> Unbound(sync.o, FALSE, r).iptags, config |-> r.config] \in Seen
    BY <2>2, <2>4 DEF Tagged, Seen
  <2> QED BY <2>1, <2>3, <2>5 DEF UnboundAt, UnboundSeen, r
<1> QED BY <1>3, <1>4, <1>5, <1>7

LEMMA ListedIs ==
  ASSUME BaseInv, sync \in Sync
  PROVE  /\ Listed \in Sync /\ Listed.pc = "update" /\ Listed.o = sync.o /\ Listed.want = sync.want
         /\ Listed.desired = DesiredIP /\ Listed.failed = sync.failed
         /\ Listed.must = (sync.o.name # FNil /\ DesiredIP \notin DroppedPips)
         /\ Listed.updates = {<<p, UnboundAt(p)>> : p \in UpdatedPips}
         /\ Listed.drops = {<<p, listPIP[p].config>> : p \in DroppedPips}
<1> DEFINE up == {<<p, UnboundAt(p)>> : p \in UpdatedPips}
           dr == {<<p, listPIP[p].config>> : p \in DroppedPips}
           mu == sync.o.name # FNil /\ DesiredIP \notin DroppedPips
           re == DesiredIP \in DroppedPips
<1>1. DesiredIP \in Pip \cup {FNil}
  BY NameTyped DEF DesiredIP, BaseInv, Sync
<1>2. up \subseteq Pip \X Tagged
  BY OwnedTyped
<1>3. dr \subseteq Pip \X (FService \cup {FNil})
  <2>1. \A p \in DroppedPips : p \in Pip /\ listPIP[p] \in Seen
    BY OwnedTyped
  <2>2. \A p \in DroppedPips : listPIP[p].config \in FService \cup {FNil}
    BY <2>1 DEF Seen
  <2> QED BY <2>1, <2>2
<1>4. mu \in BOOLEAN /\ re \in BOOLEAN
  OBVIOUS
<1>5. Listed = [sync EXCEPT !.pc = "update", !.desired = DesiredIP, !.renewed = re, !.must = mu,
                !.updates = up, !.drops = dr]
  BY DEF Listed
<1> HIDE DEF up, dr, mu, re
<1>6. /\ Listed \in Sync /\ Listed.pc = "update" /\ Listed.o = sync.o /\ Listed.want = sync.want
      /\ Listed.desired = DesiredIP /\ Listed.failed = sync.failed
      /\ Listed.must = mu /\ Listed.updates = up /\ Listed.drops = dr
  BY <1>1, <1>2, <1>3, <1>4, <1>5 DEF Sync, FPc
<1> QED BY <1>6 DEF up, dr, mu

LEMMA ListKeeps == ASSUME FInv, ~Resting, getPublicIPUpdates PROVE FInv'
<1>1. BaseInv /\ FTypeOK /\ sync \in Sync /\ Working(sync) /\ sync.pc = "list"
  BY ListIs DEF FInv, BaseInv, StepFits, Working
<1>2. listPIP \in [Pip -> Seen \cup {FNil}] /\ UserList(listPIP)
  BY <1>1, ListTyped, ListUser
<1>3. \A p \in ManagedPips : UnboundSeen(p) \in Seen /\ p \notin UserPip
  BY <1>1, OwnedTyped
<1>4. pipCache' \in [Pip -> Seen \cup {FNil}]
  BY <1>2, <1>3, ListIs
<1>5. UserList(pipCache')
  BY <1>2, <1>3, ListIs DEF UserList, Pip
<1>6. MissingIP => Fail
  BY ListIs
<1>7. ~MissingIP => sync' = Listed /\ UNCHANGED <<fdirty, state>>
  BY ListIs
<1>8. sync' \in {Idle, Failed} \/ Working(sync')
  <2>1. CASE MissingIP
    BY <1>6, <2>1 DEF Fail
  <2>2. CASE ~MissingIP
    <3>1. \A u \in Listed.updates : u[1] \notin UserPip
      BY <1>1, ListedIs, OwnedTyped
    <3>2. \A d \in Listed.drops : d[1] \notin UserPip
      BY <1>1, ListedIs, OwnedTyped
    <3>3. (sync.want /\ ~sync.o.internal) => DesiredIP \in Pip
      BY <1>1, <2>2, NameTyped DEF MissingIP, DesiredIP, Sync
    <3>4. Working(Listed)
      BY <1>1, <3>1, <3>2, <3>3, ListedIs DEF Working
    <3> QED BY <1>7, <2>2, <3>4
  <2> QED BY <2>1, <2>2
<1>9. state' \in [FService -> {"none", "wanted", "deleting", "gone"}] /\ fdirty' \subseteq FService
  BY <1>1, <1>6, <1>7, EndTyped DEF FTypeOK
<1>10. UNCHANGED <<fplan, wish, pips, LbState, fedits, ffaults>>
  BY ListIs
<1> QED BY <1>1, <1>4, <1>5, <1>8, <1>9, <1>10, BaseStep DEF FTypeOK, LbState

LEMMA StageIs ==
  ASSUME sync \in Sync, NEW left, NEW failed \in BOOLEAN, NEW stage \in {"release", "ensure", "end"},
         \/ sync.pc = "update" /\ left \subseteq sync.updates
         \/ sync.pc = "release" /\ left \subseteq sync.drops,
         NextStage(left, failed, stage)
  PROVE  \/ Fail /\ left = {} /\ failed
         \/ Finish /\ left = {} /\ stage = "end" /\ ~failed
         \/ /\ UNCHANGED <<fdirty, state>> /\ (left # {} \/ ~failed) /\ (left = {} => stage # "end")
            /\ sync' \in Sync /\ sync'.pc = (IF left = {} THEN stage ELSE sync.pc)
            /\ sync'.o = sync.o /\ sync'.want = sync.want /\ sync'.desired = sync.desired
            /\ sync'.renewed = sync.renewed /\ sync'.must = sync.must /\ sync'.failed = failed
            /\ sync'.updates = (IF sync.pc = "update" THEN left ELSE sync.updates)
            /\ sync'.drops = (IF sync.pc = "release" THEN left ELSE sync.drops)
<1>1. CASE left = {} /\ failed
  BY <1>1 DEF NextStage
<1>2. CASE left = {} /\ stage = "end" /\ ~failed
  BY <1>2 DEF NextStage
<1>3. CASE (left # {} \/ ~failed) /\ ~(left = {} /\ stage = "end")
  <2> DEFINE pc == IF left = {} THEN stage ELSE sync.pc
             up == IF sync.pc = "update" THEN left ELSE sync.updates
             dr == IF sync.pc = "release" THEN left ELSE sync.drops
  <2>1. UNCHANGED <<fdirty, state>> /\ sync' = [sync EXCEPT !.pc = pc, !.failed = failed, !.updates = up, !.drops = dr]
    BY <1>3 DEF NextStage
  <2>2. pc \in FPc
    BY <1>3 DEF Sync, FPc
  <2>3. up \in SUBSET (Pip \X Tagged)
    BY DEF Sync
  <2>4. dr \in SUBSET (Pip \X (FService \cup {FNil}))
    BY DEF Sync
  <2> HIDE DEF pc, up, dr
  <2>5. /\ sync' \in Sync /\ sync'.pc = pc
        /\ sync'.o = sync.o /\ sync'.want = sync.want /\ sync'.desired = sync.desired
        /\ sync'.renewed = sync.renewed /\ sync'.must = sync.must /\ sync'.failed = failed
        /\ sync'.updates = up /\ sync'.drops = dr
    BY <2>1, <2>2, <2>3, <2>4 DEF Sync
  <2> QED BY <1>3, <2>1, <2>5 DEF pc, up, dr
<1> QED BY <1>1, <1>2, <1>3

LEMMA UpdateIs ==
  ASSUME FInv, ~Resting, CreateOrUpdatePIP
  PROVE  /\ sync.pc = "update" /\ UNCHANGED <<fplan, wish, LbState, fedits>>
         /\ \/ sync.updates = {} /\ UNCHANGED <<pips, pipCache, ffaults>> /\ NextStage({}, FALSE, "release")
            \/ \E u \in sync.updates, r \in Outcome :
                 /\ pips' = (IF r = "lost" THEN pips ELSE [pips EXCEPT ![u[1]] = u[2]])
                 /\ pipCache' = (IF r = "done" THEN FNil ELSE pipCache)
                 /\ NextStage(sync.updates \ {u}, sync.failed \/ r # "done", "release")
                 /\ Count(r)
  BY DEF CreateOrUpdatePIP

LEMMA StageTyped ==
  ASSUME FInv, ~Resting, NEW left, NEW failed \in BOOLEAN, NEW stage \in {"release", "ensure", "end"},
         \/ sync.pc = "update" /\ left \subseteq sync.updates /\ stage = "release"
         \/ sync.pc = "release" /\ left \subseteq sync.drops /\ stage = AfterReleases,
         NextStage(left, failed, stage)
  PROVE  /\ sync' \in {Idle, Failed} \/ Working(sync')
         /\ state' \in [FService -> {"none", "wanted", "deleting", "gone"}] /\ fdirty' \subseteq FService
<1>1. FTypeOK /\ sync \in Sync /\ Working(sync)
  BY DEF FInv, BaseInv, StepFits, Working
<1>2. CASE Fail \/ Finish
  BY <1>1, <1>2, EndTyped
<1>3. CASE ~(Fail \/ Finish)
  <2>1. /\ UNCHANGED <<fdirty, state>> /\ (left = {} => stage # "end")
        /\ sync' \in Sync /\ sync'.pc = (IF left = {} THEN stage ELSE sync.pc)
        /\ sync'.o = sync.o /\ sync'.want = sync.want /\ sync'.desired = sync.desired
        /\ sync'.updates = (IF sync.pc = "update" THEN left ELSE sync.updates)
        /\ sync'.drops = (IF sync.pc = "release" THEN left ELSE sync.drops)
    BY <1>1, <1>3, StageIs
  <2>2. sync'.updates \subseteq sync.updates /\ sync'.drops \subseteq sync.drops
    BY <2>1
  <2>3. stage = "ensure" => sync.want /\ ~sync.o.internal
    BY DEF AfterReleases
  <2>4. sync'.pc \in {"update", "release", "ensure"} /\ (sync'.pc = "ensure" => sync.want /\ ~sync.o.internal)
    BY <2>1, <2>3
  <2>5. Working(sync')
    BY <1>1, <2>1, <2>2, <2>4 DEF Working
  <2> QED BY <1>1, <2>1, <2>5 DEF FTypeOK
<1> QED BY <1>2, <1>3

LEMMA UpdateKeeps == ASSUME FInv, ~Resting, CreateOrUpdatePIP PROVE FInv'
<1>1. BaseInv /\ FTypeOK /\ sync \in Sync /\ Working(sync) /\ sync.pc = "update"
  BY UpdateIs DEF FInv, BaseInv, StepFits, Working
<1>2. pipCache = FNil \/ (pipCache \in [Pip -> Seen \cup {FNil}] /\ UserList(pipCache))
  BY <1>1 DEF BaseInv, FTypeOK, UsersSound, UserList
<1>3. UNCHANGED <<fplan, wish, LbState, fedits>>
  BY UpdateIs
<1>4. CASE sync.updates = {} /\ UNCHANGED <<pips, pipCache, ffaults>> /\ NextStage({}, FALSE, "release")
  <2>1. /\ sync' \in {Idle, Failed} \/ Working(sync')
        /\ state' \in [FService -> {"none", "wanted", "deleting", "gone"}] /\ fdirty' \subseteq FService
    BY <1>1, <1>4, StageTyped
  <2> QED BY <1>1, <1>2, <1>3, <1>4, <2>1, BaseStep DEF FTypeOK, LbState
<1>5. ASSUME NEW u \in sync.updates, NEW r \in Outcome,
             pips' = (IF r = "lost" THEN pips ELSE [pips EXCEPT ![u[1]] = u[2]]),
             pipCache' = (IF r = "done" THEN FNil ELSE pipCache),
             NextStage(sync.updates \ {u}, sync.failed \/ r # "done", "release"), Count(r)
      PROVE  FInv'
  <2> DEFINE left == sync.updates \ {u}
             failed == sync.failed \/ r # "done"
  <2>1. failed \in BOOLEAN /\ left \subseteq sync.updates
    BY <1>1 DEF Sync
  <2>2. NextStage(left, failed, "release")
    BY <1>5
  <2> HIDE DEF left, failed
  <2>3. /\ sync' \in {Idle, Failed} \/ Working(sync')
        /\ state' \in [FService -> {"none", "wanted", "deleting", "gone"}] /\ fdirty' \subseteq FService
    BY <1>1, <2>1, <2>2, StageTyped
  <2>4. ffaults' \in 0..fplan.faults
    BY <1>1, <1>5, CountTyped
  <2>5. u[1] \in Pip /\ u[1] \notin UserPip /\ u[2] \in Tagged
    BY <1>1 DEF Working, Sync
  <2>6. pips' \in [Pip -> Tagged \cup {FNil}] /\ \A p \in UserPip : pips'[p] = pips[p]
    BY <1>1, <1>5, <2>5 DEF FTypeOK, Pip
  <2>7. pipCache' = FNil \/ (pipCache' \in [Pip -> Seen \cup {FNil}] /\ UserList(pipCache'))
    BY <1>2, <1>5
  <2> QED BY <1>1, <1>3, <2>3, <2>4, <2>6, <2>7, BaseStep DEF FTypeOK, LbState
<1> QED BY <1>4, <1>5, UpdateIs

\* One release of a public IP.
Detached(d) == Holder(d[1]) # FNil /\ Holder(d[1]) \notin FrontendOf(d)
Released(d, r) ==
    /\ front' = [f \in FService |-> IF f \in FrontendOf(d) THEN FNil ELSE front[f]]
    /\ rule' = [rule EXCEPT !["public"] = [s \in FService |->
                    IF rule["public"][s] \in FrontendOf(d) THEN FNil ELSE rule["public"][s]]]
    /\ pips' = (IF r = "lost" \/ Detached(d) THEN pips ELSE [pips EXCEPT ![d[1]] = FNil])
    /\ pipCache' = (IF r = "done" /\ ~Detached(d) THEN FNil
                    ELSE IF d[2] # FNil THEN newPIPCache ELSE pipCache)
    /\ NextStage(sync.drops \ {d}, sync.failed \/ r # "done", AfterReleases)
    /\ Count(r)
    /\ UNCHANGED inner

LEMMA ReleaseIs ==
  ASSUME FInv, ~Resting, safeDeletePublicIP
  PROVE  /\ sync.pc = "release" /\ UNCHANGED <<fplan, wish, fedits>>
         /\ \/ /\ sync.drops = {} /\ UNCHANGED <<pips, pipCache, LbState, ffaults>>
               /\ NextStage({}, FALSE, AfterReleases)
            \/ \E d \in sync.drops, r \in Outcome : Released(d, r)
  BY DEF safeDeletePublicIP, Released, Detached, DeletionError

LEMMA ReleaseKeeps == ASSUME FInv, ~Resting, safeDeletePublicIP PROVE FInv'
<1>1. BaseInv /\ FTypeOK /\ sync \in Sync /\ Working(sync) /\ sync.pc = "release"
  BY ReleaseIs DEF FInv, BaseInv, StepFits, Working
<1>2. pipCache = FNil \/ (pipCache \in [Pip -> Seen \cup {FNil}] /\ UserList(pipCache))
  BY <1>1 DEF BaseInv, FTypeOK, UsersSound, UserList
<1>3. UNCHANGED <<fplan, wish, fedits>> /\ AfterReleases \in {"ensure", "end"}
  BY ReleaseIs DEF AfterReleases
<1>4. CASE sync.drops = {} /\ UNCHANGED <<pips, pipCache, LbState, ffaults>> /\ NextStage({}, FALSE, AfterReleases)
  <2>1. /\ sync' \in {Idle, Failed} \/ Working(sync')
        /\ state' \in [FService -> {"none", "wanted", "deleting", "gone"}] /\ fdirty' \subseteq FService
    BY <1>1, <1>3, <1>4, StageTyped
  <2> QED BY <1>1, <1>2, <1>3, <1>4, <2>1, BaseStep DEF FTypeOK, LbState
<1>5. ASSUME NEW d \in sync.drops, NEW r \in Outcome, Released(d, r)
      PROVE  FInv'
  <2> DEFINE left == sync.drops \ {d}
             failed == sync.failed \/ r # "done"
  <2>1. failed \in BOOLEAN /\ left \subseteq sync.drops
    BY <1>1 DEF Sync
  <2>2. NextStage(left, failed, AfterReleases)
    BY <1>5 DEF Released
  <2> HIDE DEF left, failed
  <2>3. /\ sync' \in {Idle, Failed} \/ Working(sync')
        /\ state' \in [FService -> {"none", "wanted", "deleting", "gone"}] /\ fdirty' \subseteq FService
    BY <1>1, <1>3, <2>1, <2>2, StageTyped
  <2>4. ffaults' \in 0..fplan.faults
    BY <1>1, <1>5, CountTyped DEF Released
  <2>5. d[1] \in Pip /\ d[1] \notin UserPip
    BY <1>1 DEF Working, Sync
  <2>6. pips' \in [Pip -> Tagged \cup {FNil}] /\ \A p \in UserPip : pips'[p] = pips[p]
    BY <1>1, <1>5, <2>5 DEF FTypeOK, Pip, Released
  <2>7. pipCache' = FNil \/ (pipCache' \in [Pip -> Seen \cup {FNil}] /\ UserList(pipCache'))
    BY <1>1, <1>2, <1>5, NewListTyped, ListUser DEF Released
  <2>8. front' \in [FService -> Pip \cup {FNil}]
    BY <1>1, <1>5 DEF Released, FTypeOK
  <2>9. rule' \in [Kind -> [FService -> FService \cup {FNil}]]
    BY <1>1, <1>5 DEF Released, FTypeOK
  <2>10. inner' \subseteq FService
    BY <1>1, <1>5 DEF Released, FTypeOK
  <2> QED BY <1>1, <1>3, <2>3, <2>4, <2>6, <2>7, <2>8, <2>9, <2>10, BaseStep DEF FTypeOK
<1> QED BY <1>4, <1>5, ReleaseIs

LEMMA NewSyncIs ==
  ASSUME FTypeOK, NEW s \in FService, NEW want \in BOOLEAN
  PROVE  /\ ObjectOf(s) \in Object
         /\ Working(NewSync(s, want)) /\ NewSync(s, want).pc = "lb"
         /\ NewSync(s, want).o = ObjectOf(s) /\ NewSync(s, want).want = want
         /\ NewSync(s, want).failed = FALSE
         /\ NewSync(s, want).updates = {} /\ NewSync(s, want).drops = {}
<1>1. wish[s] \in Wish
  BY DEF FTypeOK
<1>2. wish[s].internal \in BOOLEAN /\ wish[s].ref \in Pip \cup {FNil} /\ wish[s].iptags \in IpTag \cup {FNil}
  BY <1>1 DEF Wish
<1>3. ObjectOf(s) \in Object /\ ObjectOf(s).ip \in UserPip \cup {FNil}
  BY <1>2 DEF ObjectOf, Object, Pip
<1>4. NewSync(s, want) \in Sync
  BY <1>3 DEF NewSync, Sync, FPc
<1> QED BY <1>3, <1>4 DEF NewSync, Working

\* A deletion whose error is ignored, and a release that fails half way.
LEMMA IgnoreKeeps == ASSUME FInv, ~Resting, IgnoreDeletionError PROVE FInv'
<1>1. BaseInv /\ FTypeOK /\ sync \in Sync /\ Working(sync) /\ sync.pc = "put"
  BY DEF FInv, BaseInv, StepFits, Working, IgnoreDeletionError
<1>2. Working(sync')
  BY <1>1, MoveTyped DEF Working, FPc, IgnoreDeletionError
<1>3. listPIP \in [Pip -> Seen \cup {FNil}] /\ UserList(listPIP)
  BY <1>1, ListTyped, ListUser
<1>4. ffaults' \in 0..fplan.faults
  BY <1>1, FPlansAssumption DEF IgnoreDeletionError, FTypeOK, FPlan
<1> QED BY <1>1, <1>2, <1>3, <1>4, BaseStep DEF IgnoreDeletionError, FTypeOK, LbState, Users

DetachFailed(d, r) ==
    LET off == IF r = "lost" THEN {} ELSE FrontendOf(d)
    IN  /\ FrontendOf(d) # {}
        /\ front' = [f \in FService |-> IF f \in off THEN FNil ELSE front[f]]
        /\ rule' = [rule EXCEPT !["public"] = [s \in FService |->
                        IF rule["public"][s] \in off THEN FNil ELSE rule["public"][s]]]
        /\ NextStage(sync.drops \ {d}, TRUE, AfterReleases)
        /\ Count(r)

LEMMA DetachIs ==
  ASSUME DetachFails
  PROVE  /\ sync.pc = "release" /\ pipCache' = newPIPCache /\ UNCHANGED <<fplan, wish, pips, inner, fedits>>
         /\ \E d \in sync.drops, r \in Outcome : r # "done" /\ DetachFailed(d, r)
  BY DEF DetachFails, DetachFailed

LEMMA DetachKeeps == ASSUME FInv, ~Resting, DetachFails PROVE FInv'
<1>1. BaseInv /\ FTypeOK /\ sync \in Sync /\ Working(sync) /\ sync.pc = "release"
  BY DetachIs DEF FInv, BaseInv, StepFits, Working
<1>2. PICK d \in sync.drops, r \in Outcome : DetachFailed(d, r)
  BY DetachIs
<1> DEFINE left == sync.drops \ {d}
           off == IF r = "lost" THEN {} ELSE FrontendOf(d)
<1>3. NextStage(left, TRUE, AfterReleases) /\ left \subseteq sync.drops /\ AfterReleases \in {"ensure", "end"}
  BY <1>2 DEF DetachFailed, AfterReleases
<1>4. /\ front' = [f \in FService |-> IF f \in off THEN FNil ELSE front[f]]
      /\ rule' = [rule EXCEPT !["public"] = [s \in FService |->
                        IF rule["public"][s] \in off THEN FNil ELSE rule["public"][s]]]
  BY <1>2 DEF DetachFailed
<1> HIDE DEF left, off
<1>5. /\ sync' \in {Idle, Failed} \/ Working(sync')
      /\ state' \in [FService -> {"none", "wanted", "deleting", "gone"}] /\ fdirty' \subseteq FService
  BY <1>1, <1>3, StageTyped
<1>6. ffaults' \in 0..fplan.faults
  BY <1>1, <1>2, CountTyped DEF DetachFailed
<1>7. front' \in [FService -> Pip \cup {FNil}]
  BY <1>1, <1>4 DEF FTypeOK
<1>8. rule' \in [Kind -> [FService -> FService \cup {FNil}]]
  BY <1>1, <1>4 DEF FTypeOK
<1>9. newPIPCache \in [Pip -> Seen \cup {FNil}] /\ UserList(newPIPCache)
  BY <1>1, NewListTyped, ListUser
<1> QED BY <1>1, <1>5, <1>6, <1>7, <1>8, <1>9, DetachIs, BaseStep DEF FTypeOK

LEMMA OthersKeep ==
  ASSUME FInv,
         \/ \E s \in FService : EnsureLoadBalancer(s) \/ EnsureLoadBalancerDeleted(s)
                                \/ EditService(s) \/ RemoveService(s)
         \/ ExpirePips
         \/ UNCHANGED fvars
  PROVE  FInv'
<1>1. FTypeOK /\ (sync \in {Idle, Failed} \/ Working(sync))
  BY DEF FInv, BaseInv, StepFits, Resting
<1>2. pipCache = FNil \/ (pipCache \in [Pip -> Seen \cup {FNil}] /\ UserList(pipCache))
  BY DEF FInv, BaseInv, FTypeOK, UsersSound, UserList
<1>3. ASSUME NEW s \in FService, EnsureLoadBalancer(s) PROVE FInv'
  BY <1>1, <1>2, <1>3, NewSyncIs, BaseStep DEF EnsureLoadBalancer, FTypeOK, LbState, Users
<1>4. ASSUME NEW s \in FService, EnsureLoadBalancerDeleted(s) PROVE FInv'
  <2>1. sync' \in {Idle, Failed} \/ Working(sync')
    BY <1>1, <1>4, NewSyncIs DEF EnsureLoadBalancerDeleted, Resting
  <2>2. state' \in [FService -> {"none", "wanted", "deleting", "gone"}] /\ fdirty' \subseteq FService
    BY <1>1, <1>4 DEF EnsureLoadBalancerDeleted, FTypeOK
  <2> QED BY <1>1, <1>2, <1>4, <2>1, <2>2, BaseStep DEF EnsureLoadBalancerDeleted, FTypeOK, LbState
<1>5. ASSUME NEW s \in FService, EditService(s) PROVE FInv'
  <2>1. fplan.wishes[s] \subseteq Wish
    BY <1>1, FPlansAssumption DEF FTypeOK, FPlan
  <2>2. wish' \in [FService -> Wish]
    BY <1>1, <1>5, <2>1 DEF EditService, FTypeOK
  <2>3. fedits' \in 0..MaxFEdits
    BY <1>1, <1>5, FPlansAssumption DEF EditService, FTypeOK
  <2>4. state' \in [FService -> {"none", "wanted", "deleting", "gone"}] /\ fdirty' \subseteq FService
    BY <1>1, <1>5 DEF EditService, FTypeOK
  <2> QED BY <1>1, <1>2, <1>5, <2>2, <2>3, <2>4, BaseStep DEF EditService, FTypeOK, LbState
<1>6. ASSUME NEW s \in FService, RemoveService(s) PROVE FInv'
  <2>4. state' \in [FService -> {"none", "wanted", "deleting", "gone"}] /\ fdirty' \subseteq FService
    BY <1>1, <1>6 DEF RemoveService, FTypeOK
  <2> QED BY <1>1, <1>2, <1>6, <2>4, BaseStep DEF RemoveService, FTypeOK, LbState
<1>7. CASE ExpirePips
  BY <1>1, <1>2, <1>7, BaseStep DEF ExpirePips, FTypeOK, LbState, Users
<1>8. CASE UNCHANGED fvars
  BY <1>1, <1>2, <1>8, BaseStep DEF fvars, FTypeOK
<1> QED BY <1>3, <1>4, <1>5, <1>6, <1>7, <1>8

LEMMA FNextKeeps == ASSUME FInv, [FNext]_fvars PROVE FInv'
  BY PlanKeeps, EnsureFrontendKeeps, PutKeeps, FlipKeeps, ListKeeps, UpdateKeeps, ReleaseKeeps,
     ConfirmKeeps, IgnoreKeeps, DetachKeeps, OthersKeep DEF FNext, Proceed

LEMMA FInitHolds == ASSUME FInit PROVE FInv
<1>1. fplan \in FPlans /\ fplan.faults \in Nat
  BY FPlansAssumption DEF FInit, FPlan
<1>2. \A p \in Pip : pips[p] = IF p \in UserPip THEN [tags |-> {}, dns |-> FNil, iptags |-> FNil] ELSE FNil
  BY DEF FInit
<1>3. /\ [tags |-> {}, dns |-> FNil, iptags |-> FNil] \in Tagged
      /\ [internal |-> FALSE, ref |-> FNil, iptags |-> FNil] \in Wish
  BY DEF Tagged, Wish
<1>4. pips \in [Pip -> Tagged \cup {FNil}]
  BY <1>3 DEF FInit
<1>5. FTypeOK
  BY <1>1, <1>3, <1>4, FPlansAssumption DEF FInit, FTypeOK, Kind, Resting
<1>6. UsersSound
  BY <1>2, <1>3, FNilAssumption DEF UsersSound, FInit, Resting, Pip
<1> QED BY <1>5, <1>6 DEF FInv, BaseInv, StepFits, FInit, Resting

\* The public IPs of users stay and are never tagged, and every list and every write of
\* the provider keeps to its types, whatever services ask for and whatever write fails
\* (isUserAssignedPIP, getPublicIPUpdates, ensurePublicIPExists).
THEOREM UserPipsStay == FSpec => [](FTypeOK /\ UserPipsUntouched)
<1>1. FInv /\ [FNext]_fvars => FInv'
  BY FNextKeeps
<1>2. FInit => FInv
  BY FInitHolds
<1>3. FInv => FTypeOK /\ UserPipsUntouched
  BY DEF FInv, BaseInv, UsersSound, UserPipsUntouched, Exists
<1> QED BY <1>1, <1>2, <1>3, PTL DEF FSpec

-------------------------------------------------------------------------------
(* Services that each ask for one public IP keep their address. *)

\* The public IP a service asks for in a scenario in which it asks for one.
AddressOf(p, s) ==
    LET refs == {w.ref : w \in p.wishes[s]}
    IN  IF refs = {} THEN FNil ELSE IF FNil \in refs THEN s ELSE CHOOSE r \in refs : TRUE

\* Every service asks for one public IP for good, its own if it may be internal, and
\* for the same IP tags as the services that share one of the provider's with it.
Steady(p) ==
    /\ \A s \in FService : \A v, w \in p.wishes[s] : v.ref = w.ref /\ (w.internal => w.ref = FNil)
    /\ \A s, t \in FService : (AddressOf(p, s) = AddressOf(p, t) /\ AddressOf(p, s) \notin UserPip) =>
           \A v \in p.wishes[s], w \in p.wishes[t] : v.iptags = w.iptags

Home(s) == AddressOf(fplan, s)

Own(s) == \A w \in fplan.wishes[s] : w.ref = FNil

Placed == {"flip", "list", "update", "release", "ensure"}

\* The services that ask for a public IP of the provider agree on its IP tags.
Agreed(p, g) ==
    p \notin UserPip => \A t \in FService : Home(t) = p => \A w \in fplan.wishes[t] : w.iptags = g

\* The object asks for the public IP of its service.
ObjectSound(o) ==
    /\ Home(o.s) \in Pip
    /\ o.name # FNil => o.name = Home(o.s)
    /\ o.ip \in Pip => o.ip = Home(o.s)
    /\ (o.name = FNil /\ o.ip \notin UserPip) => Own(o.s) /\ Home(o.s) = o.s
    /\ Own(o.s) => o.name = FNil /\ Home(o.s) = o.s
    /\ o.internal => o.name = FNil /\ o.ip \notin Pip
    /\ Agreed(Home(o.s), o.iptags)

\* The services bound to a public IP are those that ask for it.
Homed(p, r) ==
    /\ \A s \in r.tags : Home(s) = p
    /\ r.dns # FNil => r.dns \in fplan.dns /\ Home(r.dns) = p
    /\ Agreed(p, r.iptags)

ListHomed(l) == \A p \in Pip : l[p] # FNil => Homed(p, l[p])

\* The operation has to do with the public IP of its service only.
Fits(y) ==
    /\ ObjectSound(y.o)
    /\ y.o.ip = "private" => y.o.internal
    /\ y.pc = "pip" => y.want /\ ~y.o.internal
    /\ (y.pc \in Placed /\ y.want /\ ~y.o.internal) => y.o.ip = Home(y.o.s)
    /\ (y.pc \in {"update", "release", "ensure"} /\ y.want /\ ~y.o.internal) =>
          y.drops = {} /\ y.desired = Home(y.o.s)
    /\ y.want => y.updates = {}
    /\ \A u \in y.updates : u[1] = Home(y.o.s) /\ Homed(u[1], u[2])
    /\ \A d \in y.drops : d[1] = Home(y.o.s)

WishesSound == \A s \in FService : state[s] # "none" => wish[s] \in fplan.wishes[s]

FrontHome == \A f \in FService : front[f] # FNil => front[f] = Home(f)

RuleHome == \A s \in FService :
    rule["public"][s] # FNil => front[rule["public"][s]] = Home(s) /\ Home(s) # FNil

TagsHome == ListHomed(pips) /\ (pipCache # FNil => ListHomed(pipCache))

\* The service of a running operation is there.
Called(y, st) == st[y.o.s] \in {"wanted", "deleting"} /\ (y.want \/ st[y.o.s] = "deleting")

SteadyInv ==
    /\ FInv /\ Steady(fplan)
    /\ WishesSound /\ FrontHome /\ RuleHome /\ TagsHome
    /\ Resting \/ (Fits(sync) /\ Called(sync, state))

LEMMA PlanStays ==
  ASSUME fplan' = fplan
  PROVE  /\ \A s : Home(s)' = Home(s) /\ Own(s)' = Own(s)
         /\ Steady(fplan)' = Steady(fplan)
         /\ \A p, g : Agreed(p, g)' = Agreed(p, g)
  BY DEF Home, Own, Steady, AddressOf, Agreed

LEMMA HomeIs ==
  ASSUME FTypeOK, Steady(fplan), NEW s \in FService, NEW w \in fplan.wishes[s]
  PROVE  /\ w \in Wish /\ Home(s) = (IF w.ref = FNil THEN s ELSE w.ref) /\ Home(s) \in Pip
         /\ Own(s) <=> w.ref = FNil
         /\ w.internal => w.ref = FNil
         /\ Agreed(Home(s), w.iptags)
<1> DEFINE refs == {v.ref : v \in fplan.wishes[s]}
<1>1. fplan.wishes[s] \subseteq Wish
  BY FPlansAssumption DEF FTypeOK, FPlan
<1>2. w \in Wish /\ w.ref \in Pip \cup {FNil}
  BY <1>1 DEF Wish
<1>3. \A v \in fplan.wishes[s] : v.ref = w.ref
  BY DEF Steady
<1>4. refs = {w.ref}
  BY <1>3
<1>5. Home(s) = IF w.ref = FNil THEN s ELSE w.ref
  BY <1>4 DEF Home, AddressOf
<1>6. Own(s) <=> w.ref = FNil
  BY <1>3 DEF Own
<1>7. s \in Pip
  BY DEF Pip
<1>8. w.internal => w.ref = FNil
  BY DEF Steady
<1>9. Agreed(Home(s), w.iptags)
  BY DEF Steady, Agreed, Home
<1> QED BY <1>2, <1>5, <1>6, <1>7, <1>8, <1>9

LEMMA NewObjectSound ==
  ASSUME SteadyInv, NEW s \in FService, state[s] # "none"
  PROVE  /\ ObjectSound(ObjectOf(s)) /\ ObjectOf(s) \in Object /\ ObjectOf(s).s = s
         /\ ObjectOf(s).ip \in UserPip \cup {FNil}
<1> DEFINE w == wish[s]
           o == ObjectOf(s)
<1>1. FTypeOK /\ Steady(fplan) /\ w \in fplan.wishes[s]
  BY DEF SteadyInv, FInv, BaseInv, WishesSound
<1>2. /\ w \in Wish /\ Home(s) = (IF w.ref = FNil THEN s ELSE w.ref) /\ Home(s) \in Pip
      /\ Own(s) <=> w.ref = FNil
      /\ w.internal => w.ref = FNil
      /\ Agreed(Home(s), w.iptags)
  BY <1>1, HomeIs
<1>3. /\ o.s = s /\ o.internal = w.internal /\ o.iptags = w.iptags
      /\ o.name = (IF w.ref \in FService THEN w.ref ELSE FNil)
      /\ o.ip = (IF w.ref \in UserPip THEN w.ref ELSE FNil)
  BY DEF ObjectOf
<1>4. w.ref \in FService \cup UserPip \cup {FNil} /\ w.internal \in BOOLEAN
  BY <1>2 DEF Wish, Pip
<1> HIDE DEF w, o
<1>5. ObjectSound(o)
  BY <1>2, <1>3, <1>4, FPipAssumption, FNilAssumption DEF ObjectSound, Pip
<1>6. o \in Object
  BY <1>1, NewSyncIs DEF o
<1> QED BY <1>3, <1>4, <1>5, <1>6 DEF o

LEMMA NameIsHome ==
  ASSUME FInv, NEW o \in Object, ObjectSound(o), o.ip # "private"
  PROVE  /\ determinePublicIPName(o) \in {Home(o.s), FNil}
         /\ o.ip \in UserPip \cup {FNil} => determinePublicIPName(o) = Home(o.s)
<1>1. o.ip \in Pip \cup {FNil} /\ BaseInv
  BY DEF Object, FInv
<1>2. o.ip \in UserPip => Found(o.ip) /\ o.ip \in Pip
  BY <1>1, ListForUser DEF Pip
<1>3. FNil \notin UserPip
  BY FNilAssumption DEF Pip
<1> QED BY <1>1, <1>2, <1>3 DEF determinePublicIPName, ObjectSound

LEMMA OwnedHome ==
  ASSUME FrontHome, NEW o \in Object, ObjectSound(o), ~o.internal, NEW f \in Owned(o)
  PROVE  f \in FService /\ front[f] = Home(o.s) /\ front[f] # FNil
<1>1. f \in FService /\ front[f] # FNil /\ serviceOwnsFrontendIP(o, f)
  BY DEF Owned, Present, KindOf
<1>2. CASE f = o.s
  BY <1>1, <1>2 DEF FrontHome
<1>3. CASE f # o.s
  BY <1>1, <1>3 DEF serviceOwnsFrontendIP, ObjectSound, Object, Pip
<1> QED BY <1>1, <1>2, <1>3

\* A frontend is only added, with the public IP of its service.
LEMMA WithServiceFront ==
  ASSUME FInv, FrontHome, NEW o \in Object, ObjectSound(o), o.ip \in UserPip \cup {FNil}
  PROVE  /\ \A g \in FService : WithService(o).front[g] # front[g] =>
                ~o.internal /\ g = o.s /\ front[g] = FNil /\ WithService(o).front[g] = Home(o.s)
         /\ ~o.internal => WithService(o).front[Chosen(o)] = Home(o.s)
<1>1. CASE o.internal
  BY <1>1 DEF WithService
<1>2. CASE ~o.internal
  <2>1. o.ip # "private" /\ o.s \in FService /\ FTypeOK
    BY FPipAssumption, FNilAssumption DEF Object, Pip, FInv, BaseInv
  <2>2. determinePublicIPName(o) = Home(o.s)
    BY <2>1, NameIsHome
  <2>3. Kept(o) = Owned(o)
    BY <1>2, <2>2, OwnedHome DEF Kept, isFrontendIPChanged
  <2>4. o.s \in Owned(o) <=> front[o.s] # FNil
    BY <1>2, <2>1 DEF Owned, Present, KindOf, serviceOwnsFrontendIP
  <2>5. Chosen(o) = o.s \/ (Chosen(o) \in Owned(o) /\ Kept(o) # {})
    BY <2>3 DEF Chosen
  <2>6. Kept(o) = {} => Chosen(o) = o.s /\ front[o.s] = FNil
    BY <2>3, <2>4 DEF Chosen
  <2>7. Kept(o) # {} => Chosen(o) \in Owned(o)
    BY <2>3 DEF Chosen
  <2>8. \A g \in FService : WithService(o).front[g] =
            IF g = Chosen(o) /\ Kept(o) = {} THEN Home(o.s) ELSE front[g]
    BY <1>2, <2>2, <2>3 DEF WithService
  <2>9. Chosen(o) \in FService
    BY <2>1, FrontendsTyped
  <2>10. WithService(o).front[Chosen(o)] = Home(o.s)
    BY <1>2, <2>7, <2>8, <2>9, OwnedHome
  <2> QED BY <1>2, <2>6, <2>8, <2>10
<1> QED BY <1>1, <1>2

\* Without a service, the rules of the others and what they lead to are as before.
LEMMA WithoutServiceRules ==
  ASSUME FTypeOK, RuleHome, NEW o \in Object
  PROVE  /\ \A t \in FService \ {o.s} :
                /\ WithoutService(o).rule["public"][t] = rule["public"][t]
                /\ rule["public"][t] # FNil =>
                      WithoutService(o).front[rule["public"][t]] = front[rule["public"][t]]
         /\ WithoutService(o).rule["public"][o.s] \in {FNil, rule["public"][o.s]}
         /\ ~o.internal => WithoutService(o).rule["public"][o.s] = FNil
         /\ \A f \in FService : WithoutService(o).front[f] \in {front[f], FNil}
         /\ o.internal => WithoutService(o).front = front /\ WithoutService(o).rule["public"] = rule["public"]
<1> DEFINE dropped == {f \in Owned(o) : ~isFrontendIPConfigUnsafeToDelete(o, f)}
           empty == Present(KindOf(o)) \subseteq dropped
           lb == WithoutService(o)
<1>1. o.s \in FService /\ KindOf(o) \in Kind /\ rule \in [Kind -> [FService -> FService \cup {FNil}]]
  BY FrontendsTyped DEF Object, FTypeOK
<1>2. /\ lb.front = (IF o.internal THEN front
                     ELSE [f \in FService |-> IF f \in dropped THEN FNil ELSE front[f]])
      /\ lb.rule = [rule EXCEPT ![KindOf(o)] = [s \in FService |->
                        IF s = o.s \/ empty THEN FNil ELSE rule[KindOf(o)][s]]]
  BY DEF WithoutService
<1>3. CASE o.internal
  <2>1. KindOf(o) = "internal" /\ "public" \in Kind
    BY <1>3 DEF KindOf, Kind
  <2>2. lb.rule["public"] = rule["public"] /\ lb.front = front
    BY <1>1, <1>2, <1>3, <2>1
  <2> QED BY <1>3, <2>2
<1>4. CASE ~o.internal
  <2>1. KindOf(o) = "public" /\ "public" \in Kind
    BY <1>4 DEF KindOf, Kind
  <2>2. \A t \in FService : rule["public"][t] \in FService \cup {FNil}
    BY <1>1, <2>1
  <2>3. \A t \in FService \ {o.s} : rule["public"][t] # FNil =>
            rule["public"][t] \in FService /\ rule["public"][t] \notin dropped
    BY <2>1, <2>2 DEF isFrontendIPConfigUnsafeToDelete
  <2>4. \A t \in FService : rule["public"][t] # FNil => rule["public"][t] \in Present("public")
    BY <2>2 DEF RuleHome, Present
  <2>5. \A t \in FService \ {o.s} : empty => rule["public"][t] = FNil
    BY <2>1, <2>3, <2>4
  <2> HIDE DEF dropped, empty
  <2>6. \A t \in FService : lb.rule["public"][t] = IF t = o.s \/ empty THEN FNil ELSE rule["public"][t]
    BY <1>1, <1>2, <2>1
  <2>7. \A f \in FService : lb.front[f] = IF f \in dropped THEN FNil ELSE front[f]
    BY <1>2, <1>4
  <2> HIDE DEF lb
  <2>8. \A t \in FService \ {o.s} : lb.rule["public"][t] = rule["public"][t]
    BY <2>5, <2>6
  <2>9. \A t \in FService \ {o.s} : rule["public"][t] # FNil => lb.front[rule["public"][t]] = front[rule["public"][t]]
    BY <2>3, <2>7
  <2> QED BY <1>1, <1>4, <2>6, <2>7, <2>8, <2>9 DEF lb
<1> QED BY <1>3, <1>4

LEMMA ListsHomed ==
  ASSUME FTypeOK, TagsHome
  PROVE  /\ ListHomed(newPIPCache) /\ ListHomed(listPIP)
         /\ \A p \in Pip : ListHomed(PipListFor(p))
<1>1. ListHomed(newPIPCache)
  <2> SUFFICES ASSUME NEW p \in Pip, newPIPCache[p] # FNil PROVE Homed(p, newPIPCache[p])
    BY DEF ListHomed
  <2>1. newPIPCache[p] = IF Exists(p) THEN [tags |-> pips[p].tags, dns |-> pips[p].dns, iptags |-> pips[p].iptags, config |-> Holder(p)]
                         ELSE FNil
    BY DEF newPIPCache
  <2>2. Homed(p, pips[p])
    BY <2>1 DEF TagsHome, ListHomed, Exists
  <2> QED BY <2>1, <2>2 DEF Homed
<1>2. ListHomed(listPIP)
  BY <1>1 DEF listPIP, TagsHome
<1> QED BY <1>1, <1>2 DEF PipListFor

LEMMA BoundHomed ==
  ASSUME FTypeOK, TagsHome, NEW o \in Object, NEW p \in Pip, Home(o.s) = p, ObjectSound(o)
  PROVE  Homed(p, Bound(o, p))
<1> DEFINE r == getPublicIPAddress(p)
<1>1. r # FNil => Homed(p, r)
  BY ListsHomed DEF ListHomed, getPublicIPAddress
<1>2. CASE r = FNil
  BY <1>2 DEF Bound, Homed, ObjectSound
<1>3. CASE r # FNil
  <2>1. Bound(o, p) = IF isUserAssignedPIP(r) THEN [tags |-> r.tags, dns |-> r.dns, iptags |-> r.iptags]
                      ELSE [tags |-> IF serviceOwnsPublicIP(o, p, r) THEN r.tags \cup {o.s} ELSE r.tags,
                            dns |-> IF o.s \in fplan.dns THEN o.s ELSE r.dns, iptags |-> r.iptags]
    BY <1>3 DEF Bound
  <2> HIDE DEF r
  <2> QED BY <1>1, <1>3, <2>1 DEF Homed
<1> QED BY <1>2, <1>3

LEMMA SteadyStep ==
  ASSUME SteadyInv, FInv', fplan' = fplan,
         \A s \in FService : state'[s] # "none" => wish'[s] \in fplan.wishes[s],
         \A f \in FService : front'[f] # FNil => front'[f] = Home(f),
         \A s \in FService : rule'["public"][s] # FNil => front'[rule'["public"][s]] = Home(s) /\ Home(s) # FNil,
         ListHomed(pips'), pipCache' # FNil => ListHomed(pipCache'),
         sync' \in {Idle, Failed} \/ (Fits(sync') /\ Called(sync', state'))
  PROVE  SteadyInv'
<1>1. /\ \A s : Home(s)' = Home(s) /\ Own(s)' = Own(s)
      /\ Steady(fplan)' = Steady(fplan)
      /\ \A p, g : Agreed(p, g)' = Agreed(p, g)
  BY PlanStays
<1>2. WishesSound' /\ FrontHome' /\ RuleHome'
  BY <1>1 DEF WishesSound, FrontHome, RuleHome
<1>3. \A p, r : Homed(p, r)' = Homed(p, r)
  BY <1>1 DEF Homed
<1>4. TagsHome'
  BY <1>3 DEF TagsHome, ListHomed
<1>5. \A o : ObjectSound(o)' = ObjectSound(o)
  BY <1>1 DEF ObjectSound
<1>6. \A y : Fits(y)' = Fits(y)
  BY <1>1, <1>3, <1>5 DEF Fits
<1>7. (Resting \/ (Fits(sync) /\ Called(sync, state)))'
  BY <1>6 DEF Resting, Called
<1> QED BY <1>1, <1>2, <1>4, <1>7 DEF SteadyInv

LEMMA SteadyFacts ==
  ASSUME SteadyInv, ~Resting
  PROVE  /\ FInv /\ BaseInv /\ FTypeOK /\ sync \in Sync /\ sync.o \in Object /\ sync.o.s \in FService
         /\ Working(sync) /\ Fits(sync) /\ ObjectSound(sync.o) /\ Home(sync.o.s) \in Pip
         /\ Called(sync, state)
  BY DEF SteadyInv, FInv, BaseInv, StepFits, Working, Fits, Sync, Object, ObjectSound

\* States and wishes as a running operation leaves them.
LEMMA WishesStay ==
  ASSUME SteadyInv, ~Resting, wish' = wish, state' = state \/ Fail \/ Finish
  PROVE  \A s \in FService : state'[s] # "none" => wish'[s] \in fplan.wishes[s]
<1>1. FTypeOK /\ sync.o.s \in FService /\ Called(sync, state)
  BY SteadyFacts
<1>2. CASE state' = state
  BY <1>2 DEF SteadyInv, WishesSound
<1>3. CASE state' = [state EXCEPT ![sync.o.s] = "gone"]
  BY <1>1, <1>3 DEF SteadyInv, WishesSound, FTypeOK, Called
<1> QED BY <1>2, <1>3 DEF Fail, Finish

\* A step that leaves the load balancer alone.
LEMMA SteadyQuiet ==
  ASSUME SteadyInv, ~Resting, FInv', UNCHANGED <<fplan, wish, front, rule>>,
         state' = state \/ Fail \/ Finish,
         ListHomed(pips'), pipCache' # FNil => ListHomed(pipCache'),
         sync' \in {Idle, Failed} \/ (Fits(sync') /\ Called(sync', state'))
  PROVE  SteadyInv'
<1>1. \A s \in FService : state'[s] # "none" => wish'[s] \in fplan.wishes[s]
  BY WishesStay
<1>2. \A f \in FService : front'[f] # FNil => front'[f] = Home(f)
  BY DEF SteadyInv, FrontHome
<1>3. \A s \in FService : rule'["public"][s] # FNil => front'[rule'["public"][s]] = Home(s) /\ Home(s) # FNil
  BY DEF SteadyInv, RuleHome
<1> QED BY <1>1, <1>2, <1>3, SteadyStep

LEMMA PlanSteady == ASSUME SteadyInv, ~Resting, PlanFrontend PROVE SteadyInv'
<1>1. /\ FInv /\ FTypeOK /\ sync \in Sync /\ Fits(sync) /\ Called(sync, state)
      /\ sync.pc = "lb"
  BY SteadyFacts DEF PlanFrontend
<1>2. FInv'
  BY <1>1, PlanKeeps
<1>3. \/ Fail
      \/ sync.want /\ ~sync.o.internal /\ Goto("pip") /\ UNCHANGED <<fdirty, state>>
      \/ Goto("put") /\ UNCHANGED <<fdirty, state>>
  <2> DEFINE new == Kept(sync.o) = {} /\ ~sync.o.internal
  <2>1. \/ Fail
        \/ Goto(IF sync.want /\ new THEN "pip" ELSE "put") /\ UNCHANGED <<fdirty, state>>
    BY DEF PlanFrontend
  <2>2. CASE sync.want /\ new
    BY <2>1, <2>2
  <2>3. CASE ~(sync.want /\ new)
    <3>1. Fail \/ (Goto("put") /\ UNCHANGED <<fdirty, state>>)
      BY <2>1, <2>3
    <3> QED BY <3>1
  <2> QED BY <2>2, <2>3
<1>4. sync' \in {Idle, Failed} \/ (Fits(sync') /\ Called(sync', state'))
  <2>1. CASE Fail
    BY <2>1 DEF Fail
  <2>2. CASE sync.want /\ ~sync.o.internal /\ Goto("pip") /\ UNCHANGED <<fdirty, state>>
    <3>1. Fits(sync')
      BY <1>1, <2>2, MoveTyped DEF Fits, FPc, Placed
    <3> QED BY <1>1, <2>2, <3>1, MoveTyped DEF Called, FPc
  <2>3. CASE Goto("put") /\ UNCHANGED <<fdirty, state>>
    <3>1. Fits(sync')
      BY <1>1, <2>3, MoveTyped DEF Fits, FPc, Placed
    <3> QED BY <1>1, <2>3, <3>1, MoveTyped DEF Called, FPc
  <2> QED BY <1>3, <2>1, <2>2, <2>3
<1>5. ListHomed(pips') /\ ListHomed(pipCache')
  BY <1>1, ListsHomed DEF PlanFrontend, SteadyInv, TagsHome
<1> QED BY <1>2, <1>3, <1>4, <1>5, SteadyQuiet DEF PlanFrontend, LbState

LEMMA EnsureHomed ==
  ASSUME FTypeOK, TagsHome, NEW o \in Object, NEW p \in Pip, Home(o.s) = p, ObjectSound(o),
         \/ Refusing(p) \/ Unchanging(o, p) \/ \E r \in Outcome : PipSent(o, p, r)
  PROVE  ListHomed(pips') /\ (pipCache' # FNil => ListHomed(pipCache'))
<1>1. ListHomed(PipListFor(p)) /\ ListHomed(pips)
  BY ListsHomed DEF TagsHome
<1>2. CASE Refusing(p) \/ Unchanging(o, p)
  BY <1>1, <1>2 DEF Refusing, Unchanging
<1>3. ASSUME NEW r \in Outcome, PipSent(o, p, r) PROVE ListHomed(pips') /\ (pipCache' # FNil => ListHomed(pipCache'))
  <2>1. Homed(p, Bound(o, p))
    BY BoundHomed
  <2>2. pips \in [Pip -> Tagged \cup {FNil}]
    BY DEF FTypeOK
  <2>3. ListHomed(pips')
    BY <1>1, <1>3, <2>1, <2>2 DEF PipSent, ListHomed
  <2> QED BY <1>1, <1>3, <2>3 DEF PipSent
<1> QED BY <1>2, <1>3

LEMMA EnsureFrontendSteady == ASSUME SteadyInv, ~Resting, EnsureFrontendIP PROVE SteadyInv'
<1> DEFINE o == sync.o
           p == determinePublicIPName(o)
<1>1. /\ FInv /\ FTypeOK /\ sync \in Sync /\ Fits(sync) /\ Called(sync, state) /\ o \in Object
      /\ ObjectSound(o) /\ Working(sync) /\ Home(o.s) \in Pip /\ sync.pc = "pip" /\ TagsHome
  BY SteadyFacts, EnsureFrontendIs DEF SteadyInv
<1>2. p = Home(o.s)
  <2>1. o.ip \in UserPip \cup {FNil}
    BY <1>1 DEF Working
  <2>2. o.ip # "private"
    BY <2>1, FPipAssumption, FNilAssumption DEF Pip
  <2> QED BY <1>1, <2>1, <2>2, NameIsHome
<1> HIDE DEF p
<1>3. /\ UNCHANGED <<fplan, wish, LbState, fedits>>
      /\ Refusing(p) \/ Unchanging(o, p) \/ \E r \in Outcome : PipSent(o, p, r)
      /\ Fail \/ (Goto("put") /\ UNCHANGED <<fdirty, state>>)
  BY EnsureFrontendIs DEF p, Refusing
<1>4. ListHomed(pips') /\ (pipCache' # FNil => ListHomed(pipCache'))
  BY <1>1, <1>2, <1>3, EnsureHomed
<1>5. sync' \in {Idle, Failed} \/ (Fits(sync') /\ Called(sync', state'))
  <2>1. CASE Fail
    BY <2>1 DEF Fail
  <2>3. CASE Goto("put") /\ UNCHANGED <<fdirty, state>>
    <3>1. Fits(sync')
      BY <1>1, <2>3, MoveTyped DEF Fits, FPc, Placed
    <3> QED BY <1>1, <2>3, <3>1, MoveTyped DEF Called, FPc
  <2> QED BY <1>3, <2>1, <2>3
<1>6. FInv'
  BY <1>1, EnsureFrontendKeeps
<1> QED BY <1>3, <1>4, <1>5, <1>6, SteadyQuiet DEF LbState

LEMMA ConfirmSteady == ASSUME SteadyInv, ~Resting, ConfirmPublicIP PROVE SteadyInv'
<1> DEFINE o == sync.o
           p == sync.desired
<1>1. /\ FInv /\ FTypeOK /\ sync \in Sync /\ Fits(sync) /\ Called(sync, state) /\ o \in Object
      /\ ObjectSound(o) /\ Working(sync) /\ Home(o.s) \in Pip /\ sync.pc = "ensure" /\ TagsHome
  BY SteadyFacts, ConfirmIs DEF SteadyInv
<1>2. p = Home(o.s)
  BY <1>1 DEF Fits, Working
<1> HIDE DEF p
<1>3. /\ UNCHANGED <<fplan, wish, LbState, fedits>>
      /\ Refusing(p) \/ Unchanging(o, p) \/ \E r \in Outcome : PipSent(o, p, r)
      /\ Fail \/ Finish
  BY ConfirmIs DEF p, Refusing
<1>4. ListHomed(pips') /\ (pipCache' # FNil => ListHomed(pipCache'))
  BY <1>1, <1>2, <1>3, EnsureHomed
<1>5. sync' \in {Idle, Failed}
  BY <1>3 DEF Fail, Finish
<1>6. FInv'
  BY <1>1, ConfirmKeeps
<1> QED BY <1>3, <1>4, <1>5, <1>6, SteadyQuiet DEF LbState

\* A load balancer on which everything belongs together, and on which the services
\* other than one have what they had.
LbGood(lb, x) ==
    /\ \A f \in FService : lb.front[f] # FNil => lb.front[f] = Home(f)
    /\ \A s \in FService : lb.rule["public"][s] # FNil =>
          lb.front[lb.rule["public"][s]] = Home(s) /\ Home(s) # FNil
    /\ \A t \in FService \ {x} :
          /\ lb.rule["public"][t] = rule["public"][t]
          /\ rule["public"][t] # FNil => lb.front[rule["public"][t]] = front[rule["public"][t]]

LEMMA WithServiceGood ==
  ASSUME FInv, FrontHome, RuleHome, NEW o \in Object, ObjectSound(o), o.ip \in UserPip \cup {FNil}
  PROVE  LbGood(WithService(o), o.s)
<1> DEFINE lb == WithService(o)
<1>1. FTypeOK /\ o.s \in FService /\ o.internal \in BOOLEAN /\ Home(o.s) \in Pip /\ Home(o.s) # FNil
  BY FNilAssumption DEF FInv, BaseInv, Object, ObjectSound
<1>2. /\ \A g \in FService : lb.front[g] # front[g] =>
                ~o.internal /\ g = o.s /\ front[g] = FNil /\ lb.front[g] = Home(o.s)
      /\ ~o.internal => lb.front[Chosen(o)] = Home(o.s)
  BY WithServiceFront
<1>3. /\ lb.rule[KindOf(o)][o.s] = Chosen(o)
      /\ \A k \in Kind, s \in FService : (k # KindOf(o) \/ s # o.s) => lb.rule[k][s] = rule[k][s]
  BY <1>1, RuleGiven
<1>4. "public" \in Kind /\ \A s \in FService : rule["public"][s] \in FService \cup {FNil}
  BY <1>1 DEF Kind, FTypeOK
<1>5. KindOf(o) = IF o.internal THEN "internal" ELSE "public"
  BY DEF KindOf
<1> HIDE DEF lb
<1>6. \A f \in FService : lb.front[f] # FNil => lb.front[f] = Home(f)
  BY <1>2 DEF FrontHome
<1>7. \A s \in FService : rule["public"][s] # FNil => lb.front[rule["public"][s]] = front[rule["public"][s]]
  BY <1>2, <1>4 DEF RuleHome
<1>8. \A s \in FService : lb.rule["public"][s] = rule["public"][s] \/ (s = o.s /\ ~o.internal)
  BY <1>3, <1>4, <1>5
<1>9. ~o.internal => lb.front[lb.rule["public"][o.s]] = Home(o.s)
  BY <1>2, <1>3, <1>5
<1>10. \A s \in FService : lb.rule["public"][s] # FNil =>
          lb.front[lb.rule["public"][s]] = Home(s) /\ Home(s) # FNil
  <2> TAKE s \in FService
  <2>1. CASE lb.rule["public"][s] = rule["public"][s]
    BY <1>7, <2>1 DEF RuleHome
  <2>2. CASE s = o.s /\ ~o.internal
    BY <1>1, <1>9, <2>2
  <2> QED BY <1>8, <2>1, <2>2
<1> QED BY <1>6, <1>7, <1>8, <1>10 DEF LbGood, lb

LEMMA WithoutServiceGood ==
  ASSUME FTypeOK, FrontHome, RuleHome, NEW o \in Object
  PROVE  LbGood(WithoutService(o), o.s)
<1> DEFINE lb == WithoutService(o)
<1>1. /\ \A t \in FService \ {o.s} :
             /\ lb.rule["public"][t] = rule["public"][t]
             /\ rule["public"][t] # FNil => lb.front[rule["public"][t]] = front[rule["public"][t]]
      /\ ~o.internal => lb.rule["public"][o.s] = FNil
      /\ \A f \in FService : lb.front[f] \in {front[f], FNil}
      /\ o.internal => lb.front = front /\ lb.rule["public"] = rule["public"]
  BY WithoutServiceRules
<1> HIDE DEF lb
<1>2. \A f \in FService : lb.front[f] # FNil => lb.front[f] = Home(f)
  BY <1>1 DEF FrontHome
<1>3. \A s \in FService : lb.rule["public"][s] # FNil =>
          lb.front[lb.rule["public"][s]] = Home(s) /\ Home(s) # FNil
  BY <1>1 DEF RuleHome
<1> QED BY <1>1, <1>2, <1>3 DEF LbGood, lb

\* Nobody but the service of the operation gets another address.
OthersKept == \A s \in FService : ~(~Resting /\ sync.o.s = s) =>
                  Address(s)' = Address(s) \/ (~Resting /\ Deprived(s))

LEMMA LbSentSteady ==
  ASSUME FTypeOK, FrontHome, RuleHome, NEW x \in FService, NEW lb \in Lbs, LbGood(lb, x), NEW r, LbSent(lb, r)
  PROVE  /\ \A f \in FService : front'[f] # FNil => front'[f] = Home(f)
         /\ \A s \in FService : rule'["public"][s] # FNil =>
               front'[rule'["public"][s]] = Home(s) /\ Home(s) # FNil
         /\ \A t \in FService \ {x} : Address(t)' = Address(t)
<1>1. CASE r \in {"done", "unknown"}
  <2>1. front' = lb.front /\ rule' = lb.rule
    BY <1>1 DEF LbSent
  <2> QED BY <2>1 DEF LbGood, Address
<1>2. CASE r \notin {"done", "unknown"}
  <2>1. front' = front /\ rule' = rule
    BY <1>2 DEF LbSent, LbState
  <2> QED BY <2>1 DEF FrontHome, RuleHome, Address
<1> QED BY <1>1, <1>2

LEMMA QuietAddress == ASSUME front' = front, rule' = rule PROVE OthersKept
  BY DEF OthersKept, Address

LEMMA PutSteady == ASSUME SteadyInv, ~Resting, ReconcileLoadBalancer PROVE SteadyInv' /\ OthersKept
<1> DEFINE o == sync.o
<1>1. /\ FInv /\ FTypeOK /\ sync \in Sync /\ Fits(sync) /\ Called(sync, state) /\ o \in Object
      /\ ObjectSound(o) /\ Working(sync) /\ Home(o.s) \in Pip /\ sync.pc = "put" /\ TagsHome
      /\ o.s \in FService /\ FrontHome /\ RuleHome
  BY SteadyFacts, PutIs DEF SteadyInv
<1>2. FInv' /\ UNCHANGED <<fplan, wish, pips>> /\ pipCache' = listPIP
  BY <1>1, PutKeeps, PutIs
<1>3. ListHomed(pips') /\ (pipCache' # FNil => ListHomed(pipCache'))
  BY <1>1, <1>2, ListsHomed DEF TagsHome
<1>4. o.ip \in UserPip \cup {FNil}
  BY <1>1 DEF Working
<1>5. TargetLb \in Lbs /\ LbGood(TargetLb, o.s)
  BY <1>1, <1>4, WithServiceTyped, WithoutServiceTyped, WithServiceGood, WithoutServiceGood DEF TargetLb
<1>6. \/ Fail /\ UNCHANGED LbState
      \/ \E r : LbSent(TargetLb, r) /\ (Fail \/ (sync' = Carried(TargetLb) /\ UNCHANGED <<fdirty, state>>))
  BY PutIs
<1>7. CASE Fail /\ UNCHANGED LbState
  BY <1>2, <1>3, <1>7, SteadyQuiet, QuietAddress DEF Fail, LbState
<1>8. ASSUME NEW r, LbSent(TargetLb, r), Fail \/ (sync' = Carried(TargetLb) /\ UNCHANGED <<fdirty, state>>)
      PROVE  SteadyInv' /\ OthersKept
  <2>1. /\ \A f \in FService : front'[f] # FNil => front'[f] = Home(f)
        /\ \A s \in FService : rule'["public"][s] # FNil =>
              front'[rule'["public"][s]] = Home(s) /\ Home(s) # FNil
        /\ \A t \in FService \ {o.s} : Address(t)' = Address(t)
    BY <1>1, <1>5, <1>8, LbSentSteady
  <2>2. CASE Fail
    <3>1. \A s \in FService : state'[s] # "none" => wish'[s] \in fplan.wishes[s]
      BY <1>2, <2>2, WishesStay
    <3> QED BY <1>2, <1>3, <2>1, <2>2, <3>1, SteadyStep DEF Fail, OthersKept
  <2>3. CASE sync' = Carried(TargetLb) /\ UNCHANGED <<fdirty, state>>
    <3>1. \A s \in FService : state'[s] # "none" => wish'[s] \in fplan.wishes[s]
      BY <1>2, <2>3, WishesStay
    <3>2. (sync.want /\ ~o.internal) =>
             TargetLb.rule["public"][o.s] \in FService /\ LoadBalancerIP(o, TargetLb) = Home(o.s)
      <4> SUFFICES ASSUME sync.want, ~o.internal
                   PROVE  TargetLb.rule["public"][o.s] \in FService /\ LoadBalancerIP(o, TargetLb) = Home(o.s)
        OBVIOUS
      <4>1. TargetLb.rule["public"][o.s] = Chosen(o) /\ TargetLb = WithService(o)
        BY <1>1, RuleGiven DEF TargetLb, KindOf
      <4>2. Chosen(o) \in FService
        BY <1>1, FrontendsTyped
      <4>3. WithService(o).front[Chosen(o)] = Home(o.s)
        BY <1>1, <1>4, WithServiceFront
      <4> QED BY <4>1, <4>2, <4>3 DEF LoadBalancerIP
    <3> DEFINE y == Carried(TargetLb)
    <3>3. /\ y \in Sync /\ y.pc = "flip" /\ y.want = sync.want
          /\ y.updates = sync.updates /\ y.drops = sync.drops
          /\ y.o.s = o.s /\ y.o.internal = o.internal /\ y.o.name = o.name /\ y.o.iptags = o.iptags
          /\ y.o.ip = IF sync.want THEN LoadBalancerIP(o, TargetLb) ELSE o.ip
      BY <1>1, <1>5, <3>2, CarriedIs
    <3>4. sync.want /\ o.internal => y.o.ip = "private"
      BY <3>3 DEF LoadBalancerIP
    <3> HIDE DEF y
    <3>5. ObjectSound(y.o)
      BY <1>1, <1>4, <3>2, <3>3, <3>4, FPipAssumption, FNilAssumption DEF ObjectSound, Pip
    <3>6. Fits(y)
      BY <1>1, <1>4, <3>2, <3>3, <3>4, <3>5, FPipAssumption, FNilAssumption DEF Fits, Pip, Placed
    <3>7. Called(y, state')
      BY <1>1, <2>3, <3>3 DEF Called
    <3>8. SteadyInv'
      BY <1>2, <1>3, <2>1, <2>3, <3>1, <3>6, <3>7, SteadyStep DEF y
    <3> QED BY <2>1, <3>8 DEF OthersKept
  <2> QED BY <1>8, <2>2, <2>3
<1> QED BY <1>6, <1>7, <1>8

LEMMA FlipSteady == ASSUME SteadyInv, ~Resting, ReconcileFlipped PROVE SteadyInv' /\ OthersKept
<1> DEFINE o == sync.o
           lb == WithoutService(Flip(o))
<1>1. /\ FInv /\ FTypeOK /\ sync \in Sync /\ Fits(sync) /\ Called(sync, state) /\ o \in Object
      /\ sync.pc = "flip" /\ TagsHome /\ o.s \in FService /\ FrontHome /\ RuleHome
  BY SteadyFacts, FlipIs DEF SteadyInv
<1>2. FInv' /\ UNCHANGED <<fplan, wish, pips>> /\ pipCache' = listPIP
  BY <1>1, FlipKeeps, FlipIs
<1>3. ListHomed(pips') /\ (pipCache' # FNil => ListHomed(pipCache'))
  BY <1>1, <1>2, ListsHomed DEF TagsHome
<1>4. Flip(o) \in Object /\ Flip(o).s = o.s
  BY <1>1, FrontendsTyped
<1>5. lb \in Lbs /\ LbGood(lb, o.s)
  BY <1>1, <1>4, WithoutServiceTyped, WithoutServiceGood
<1>6. PICK r : LbSent(lb, r) /\ (Fail \/ (Goto("list") /\ UNCHANGED <<fdirty, state>>))
  BY FlipIs
<1>7. /\ \A f \in FService : front'[f] # FNil => front'[f] = Home(f)
      /\ \A s \in FService : rule'["public"][s] # FNil =>
              front'[rule'["public"][s]] = Home(s) /\ Home(s) # FNil
      /\ \A t \in FService \ {o.s} : Address(t)' = Address(t)
  BY <1>1, <1>5, <1>6, LbSentSteady
<1>8. \A s \in FService : state'[s] # "none" => wish'[s] \in fplan.wishes[s]
  BY <1>2, <1>6, WishesStay
<1>9. sync' \in {Idle, Failed} \/ (Fits(sync') /\ Called(sync', state'))
  <2>1. CASE Fail
    BY <2>1 DEF Fail
  <2>3. CASE Goto("list") /\ UNCHANGED <<fdirty, state>>
    <3>1. Fits(sync')
      BY <1>1, <2>3, MoveTyped DEF Fits, FPc, Placed
    <3> QED BY <1>1, <2>3, <3>1, MoveTyped DEF Called, FPc
  <2> QED BY <1>6, <2>1, <2>3
<1>10. SteadyInv'
  BY <1>2, <1>3, <1>7, <1>8, <1>9, SteadyStep
<1> QED BY <1>7, <1>10 DEF OthersKept

\* The public IPs an operation has to do with.
LEMMA OwnedIsHome ==
  ASSUME FTypeOK, TagsHome, NEW o \in Object, ObjectSound(o), NEW p \in OwnedPips(o)
  PROVE  p = Home(o.s) /\ listPIP[p] # FNil /\ Homed(p, listPIP[p])
<1>1. p \in Pip /\ listPIP[p] # FNil /\ serviceOwnsPublicIP(o, p, listPIP[p])
  BY DEF OwnedPips
<1>2. Homed(p, listPIP[p])
  BY <1>1, ListsHomed DEF ListHomed
<1>3. CASE o.s \in listPIP[p].tags
  BY <1>1, <1>2, <1>3 DEF Homed
<1>4. CASE isServiceSelectPIP(o, p)
  <2>1. p # FNil
    BY <1>1, FNilAssumption
  <2>2. CASE o.ip = p
    BY <1>1, <1>2, <2>2 DEF ObjectSound
  <2>3. CASE o.name = p
    BY <1>1, <1>2, <2>1, <2>3 DEF ObjectSound
  <2> QED BY <1>4, <2>2, <2>3 DEF isServiceSelectPIP
<1> QED BY <1>1, <1>2, <1>3, <1>4 DEF serviceOwnsPublicIP

LEMMA UnboundHomed ==
  ASSUME NEW o, NEW want \in BOOLEAN, NEW p, NEW r, Homed(p, r)
  PROVE  Homed(p, Unbound(o, want, r))
  BY DEF Homed, Unbound

LEMMA DesiredIsHome ==
  ASSUME SteadyInv, ~Resting, sync.pc = "list"
  PROVE  /\ (sync.want /\ ~sync.o.internal) => DesiredIP \in {Home(sync.o.s), FNil}
         /\ (sync.want /\ ~sync.o.internal /\ ~MissingIP) => DesiredIP = Home(sync.o.s) /\ DroppedPips = {}
<1> DEFINE o == sync.o
<1>1. /\ FInv /\ FTypeOK /\ sync \in Sync /\ Fits(sync) /\ o \in Object
      /\ ObjectSound(o) /\ Home(o.s) \in Pip /\ TagsHome
  BY SteadyFacts DEF SteadyInv
<1>2. ASSUME sync.want, ~o.internal PROVE DesiredIP \in {Home(o.s), FNil}
  <2>1. o.ip # "private"
    BY <1>1, <1>2 DEF Fits
  <2> QED BY <1>1, <1>2, <2>1, NameIsHome DEF DesiredIP
<1>3. ASSUME sync.want, ~o.internal, ~MissingIP PROVE DesiredIP = Home(o.s) /\ DroppedPips = {}
  <2>1. DesiredIP = Home(o.s)
    BY <1>2, <1>3 DEF MissingIP
  <2>2. \A p \in OwnedPips(o) : p = Home(o.s)
    BY <1>1, OwnedIsHome
  <2>3. \A p \in DroppedPips : p = Home(o.s) /\ p \in Pip \ UserPip /\ Homed(p, listPIP[p])
                              /\ OtherIPTags(o, listPIP[p])
    <3> TAKE p \in DroppedPips
    <3>1. p \in OwnedPips(o) /\ p \in Pip \ UserPip
      BY <1>1, OwnedTyped DEF FInv, DroppedPips
    <3>2. p = Home(o.s) /\ Homed(p, listPIP[p])
      BY <1>1, <3>1, OwnedIsHome
    <3> QED BY <1>3, <2>1, <3>1, <3>2 DEF DroppedPips, shouldReleaseExistingOwnedPublicIP
  <2>4. \E w \in fplan.wishes[o.s] : TRUE
    BY <1>1, FNilAssumption DEF Home, AddressOf
  <2>5. DroppedPips = {}
    <3> SUFFICES ASSUME NEW p \in DroppedPips PROVE FALSE
      OBVIOUS
    <3>1. Agreed(p, listPIP[p].iptags) /\ Agreed(p, o.iptags) /\ o.s \in FService
      BY <1>1, <2>3 DEF Homed, ObjectSound, Object
    <3>2. listPIP[p].iptags = o.iptags
      BY <2>3, <2>4, <3>1 DEF Agreed
    <3> QED BY <2>3, <3>2 DEF OtherIPTags
  <2> QED BY <2>1, <2>5
<1> QED BY <1>2, <1>3

LEMMA ListSteady == ASSUME SteadyInv, ~Resting, getPublicIPUpdates PROVE SteadyInv' /\ OthersKept
<1> DEFINE o == sync.o
<1>1. /\ FInv /\ BaseInv /\ FTypeOK /\ sync \in Sync /\ Fits(sync) /\ Called(sync, state) /\ o \in Object
      /\ ObjectSound(o) /\ Home(o.s) \in Pip /\ sync.pc = "list" /\ TagsHome
  BY SteadyFacts, ListIs DEF SteadyInv
<1>2. FInv' /\ UNCHANGED <<fplan, wish, front, rule, pips>>
  BY <1>1, ListKeeps, ListIs DEF LbState
<1>3. \A p \in ManagedPips : /\ p = Home(o.s) /\ p \in Pip /\ Homed(p, UnboundAt(p)) /\ Homed(p, UnboundSeen(p))
  <2> TAKE p \in ManagedPips
  <2>1. p \in OwnedPips(o) /\ p \in Pip
    BY DEF ManagedPips, OwnedPips
  <2>2. p = Home(o.s) /\ Homed(p, listPIP[p])
    BY <1>1, <2>1, OwnedIsHome
  <2>3. Homed(p, Unbound(o, sync.want, listPIP[p])) /\ Homed(p, Unbound(o, FALSE, listPIP[p]))
    BY <1>1, <2>2, UnboundHomed DEF Sync
  <2> QED BY <2>1, <2>2, <2>3 DEF UnboundAt, UnboundSeen, Homed
<1>4. ListHomed(pipCache') /\ ListHomed(pips')
  <2>1. ListHomed(listPIP)
    BY <1>1, ListsHomed
  <2>2. \A p \in Pip : pipCache'[p] = listPIP[p] \/ (p \in ManagedPips /\ pipCache'[p] = UnboundSeen(p))
    BY ListIs
  <2>3. ListHomed(pipCache')
    BY <1>3, <2>1, <2>2 DEF ListHomed
  <2> QED BY <1>1, <1>2, <2>3 DEF TagsHome
<1>5. CASE MissingIP
  <2>1. Fail
    BY <1>5, ListIs
  <2> QED BY <1>2, <1>4, <2>1, SteadyQuiet, QuietAddress DEF Fail
<1>6. CASE ~MissingIP
  <2>1. sync' = Listed /\ UNCHANGED <<fdirty, state>>
    BY <1>6, ListIs
  <2>2. /\ Listed \in Sync /\ Listed.pc = "update" /\ Listed.o = o /\ Listed.want = sync.want
        /\ Listed.desired = DesiredIP
        /\ Listed.updates = {<<p, UnboundAt(p)>> : p \in UpdatedPips}
        /\ Listed.drops = {<<p, listPIP[p].config>> : p \in DroppedPips}
    BY <1>1, ListedIs
  <2>3. UpdatedPips \subseteq ManagedPips /\ DroppedPips \subseteq ManagedPips
    BY <1>1, OwnedTyped
  <2>4. \A u \in Listed.updates : u[1] = Home(o.s) /\ Homed(u[1], u[2])
    BY <1>3, <2>2, <2>3
  <2>5. \A d \in Listed.drops : d[1] = Home(o.s)
    BY <1>3, <2>2, <2>3
  <2>6. sync.want => Listed.updates = {}
    BY <2>2 DEF UpdatedPips
  <2>7. (sync.want /\ ~o.internal) => Listed.drops = {} /\ Listed.desired = Home(o.s)
    BY <1>1, <1>6, <2>2, DesiredIsHome
  <2> DEFINE y == Listed
  <2> HIDE DEF y
  <2>8. Fits(Listed)
    BY <1>1, <2>2, <2>4, <2>5, <2>6, <2>7 DEF Fits, Placed
  <2>9. Called(Listed, state')
    BY <1>1, <2>1, <2>2 DEF Called
  <2> QED BY <1>2, <1>4, <2>1, <2>8, <2>9, SteadyQuiet, QuietAddress
<1> QED BY <1>5, <1>6

LEMMA StageSteady ==
  ASSUME SteadyInv, ~Resting, NEW left, NEW failed \in BOOLEAN, NEW stage \in {"release", "ensure", "end"},
         \/ sync.pc = "update" /\ left \subseteq sync.updates /\ stage = "release"
         \/ sync.pc = "release" /\ left \subseteq sync.drops /\ stage = AfterReleases,
         NextStage(left, failed, stage)
  PROVE  /\ sync' \in {Idle, Failed} \/ (Fits(sync') /\ Called(sync', state'))
         /\ state' = state \/ Fail \/ Finish
<1>1. sync \in Sync /\ Fits(sync) /\ Called(sync, state)
  BY SteadyFacts
<1>2. CASE Fail \/ Finish
  BY <1>2 DEF Fail, Finish
<1>3. CASE ~(Fail \/ Finish)
  <2>1. /\ UNCHANGED <<fdirty, state>> /\ (left = {} => stage # "end")
        /\ sync' \in Sync /\ sync'.pc = (IF left = {} THEN stage ELSE sync.pc)
        /\ sync'.o = sync.o /\ sync'.want = sync.want /\ sync'.desired = sync.desired
        /\ sync'.updates = (IF sync.pc = "update" THEN left ELSE sync.updates)
        /\ sync'.drops = (IF sync.pc = "release" THEN left ELSE sync.drops)
    BY <1>1, <1>3, StageIs
  <2>2. sync'.updates \subseteq sync.updates /\ sync'.drops \subseteq sync.drops
    BY <2>1
  <2>3. sync'.pc \in {"update", "release", "ensure"} /\ sync.pc \in {"update", "release"}
    BY <2>1
  <2>4. Fits(sync')
    BY <1>1, <2>1, <2>2, <2>3 DEF Fits, Placed
  <2> QED BY <1>1, <2>1, <2>4 DEF Called
<1> QED BY <1>2, <1>3

LEMMA UpdateSteady == ASSUME SteadyInv, ~Resting, CreateOrUpdatePIP PROVE SteadyInv' /\ OthersKept
<1>1. FInv /\ FTypeOK /\ sync \in Sync /\ Fits(sync) /\ TagsHome
  BY SteadyFacts DEF SteadyInv
<1>2. FInv' /\ UNCHANGED <<fplan, wish, front, rule>> /\ sync.pc = "update"
  BY <1>1, UpdateKeeps, UpdateIs DEF LbState
<1>3. CASE sync.updates = {} /\ UNCHANGED <<pips, pipCache, ffaults>> /\ NextStage({}, FALSE, "release")
  <2>1. /\ sync' \in {Idle, Failed} \/ (Fits(sync') /\ Called(sync', state'))
        /\ state' = state \/ Fail \/ Finish
    BY <1>2, <1>3, StageSteady
  <2> QED BY <1>1, <1>2, <1>3, <2>1, SteadyQuiet, QuietAddress DEF TagsHome
<1>4. ASSUME NEW u \in sync.updates, NEW r \in Outcome,
             pips' = (IF r = "lost" THEN pips ELSE [pips EXCEPT ![u[1]] = u[2]]),
             pipCache' = (IF r = "done" THEN FNil ELSE pipCache),
             NextStage(sync.updates \ {u}, sync.failed \/ r # "done", "release")
      PROVE  SteadyInv' /\ OthersKept
  <2> DEFINE left == sync.updates \ {u}
             failed == sync.failed \/ r # "done"
  <2>1. failed \in BOOLEAN /\ left \subseteq sync.updates
    BY <1>1 DEF Sync
  <2>2. NextStage(left, failed, "release")
    BY <1>4
  <2> HIDE DEF left, failed
  <2>3. /\ sync' \in {Idle, Failed} \/ (Fits(sync') /\ Called(sync', state'))
        /\ state' = state \/ Fail \/ Finish
    BY <1>2, <2>1, <2>2, StageSteady
  <2>4. Homed(u[1], u[2]) /\ pips \in [Pip -> Tagged \cup {FNil}]
    BY <1>1 DEF Fits, FTypeOK
  <2>5. ListHomed(pips')
    BY <1>1, <1>4, <2>4 DEF TagsHome, ListHomed
  <2>6. pipCache' # FNil => ListHomed(pipCache')
    BY <1>1, <1>4 DEF TagsHome
  <2> QED BY <1>2, <2>3, <2>5, <2>6, SteadyQuiet, QuietAddress
<1> QED BY <1>1, <1>3, <1>4, UpdateIs

\* No frontend is taken away with a public IP.
LEMMA NothingOff ==
  ASSUME SteadyInv, ~Resting, sync.pc = "release", NEW d \in sync.drops PROVE FrontendOf(d) = {}
  BY SteadyFacts DEF Fits, FrontendOf

LEMMA ReleasedFront ==
  ASSUME SteadyInv, ~Resting, sync.pc = "release", NEW d \in sync.drops, NEW r, Released(d, r)
  PROVE  front' = front /\ rule' = rule /\ inner' = inner
<1>1. FrontendOf(d) = {}
  BY NothingOff
<1>2. front \in [FService -> Pip \cup {FNil}] /\ rule \in [Kind -> [FService -> FService \cup {FNil}]]
  BY SteadyFacts DEF FTypeOK
<1>3. front' = [f \in FService |-> front[f]]
  BY <1>1 DEF Released
<1>4. rule' = [rule EXCEPT !["public"] = [s \in FService |-> rule["public"][s]]]
  BY <1>1 DEF Released
<1>5. rule["public"] \in [FService -> FService \cup {FNil}]
  BY <1>2 DEF Kind
<1>6. [s \in FService |-> rule["public"][s]] = rule["public"]
  BY <1>5
<1>7. front' = front
  BY <1>2, <1>3
<1>8. rule' = rule
  BY <1>2, <1>4, <1>6
<1> QED BY <1>7, <1>8 DEF Released

LEMMA ReleaseSteady == ASSUME SteadyInv, ~Resting, safeDeletePublicIP PROVE SteadyInv' /\ OthersKept
<1>1. FInv /\ FTypeOK /\ sync \in Sync /\ Fits(sync) /\ TagsHome
  BY SteadyFacts DEF SteadyInv
<1>2. FInv' /\ UNCHANGED <<fplan, wish>> /\ sync.pc = "release" /\ AfterReleases \in {"ensure", "end"}
  BY <1>1, ReleaseKeeps, ReleaseIs DEF AfterReleases
<1>3. CASE sync.drops = {} /\ UNCHANGED <<pips, pipCache, LbState, ffaults>> /\ NextStage({}, FALSE, AfterReleases)
  <2>1. /\ sync' \in {Idle, Failed} \/ (Fits(sync') /\ Called(sync', state'))
        /\ state' = state \/ Fail \/ Finish
    BY <1>2, <1>3, StageSteady
  <2> QED BY <1>1, <1>2, <1>3, <2>1, SteadyQuiet, QuietAddress DEF TagsHome, LbState
<1>4. ASSUME NEW d \in sync.drops, NEW r \in Outcome, Released(d, r)
      PROVE  SteadyInv' /\ OthersKept
  <2> DEFINE left == sync.drops \ {d}
             failed == sync.failed \/ r # "done"
  <2>1. failed \in BOOLEAN /\ left \subseteq sync.drops
    BY <1>1 DEF Sync
  <2>2. NextStage(left, failed, AfterReleases)
    BY <1>4 DEF Released
  <2> HIDE DEF left, failed
  <2>3. /\ sync' \in {Idle, Failed} \/ (Fits(sync') /\ Called(sync', state'))
        /\ state' = state \/ Fail \/ Finish
    BY <1>2, <2>1, <2>2, StageSteady
  <2>4. front' = front /\ rule' = rule
    BY <1>2, <1>4, ReleasedFront
  <2>5. ListHomed(pips')
    BY <1>1, <1>4 DEF TagsHome, ListHomed, Released, FTypeOK
  <2>6. pipCache' # FNil => ListHomed(pipCache')
    BY <1>1, <1>4, ListsHomed DEF TagsHome, Released
  <2> QED BY <1>2, <2>3, <2>4, <2>5, <2>6, SteadyQuiet, QuietAddress
<1> QED BY <1>1, <1>3, <1>4, ReleaseIs

LEMMA IgnoreSteady == ASSUME SteadyInv, ~Resting, IgnoreDeletionError PROVE SteadyInv' /\ OthersKept
<1>1. /\ FInv /\ FTypeOK /\ sync \in Sync /\ Fits(sync) /\ Called(sync, state) /\ TagsHome
      /\ ~sync.want /\ Goto("flip") /\ pipCache' = listPIP
      /\ UNCHANGED <<fplan, Users, fdirty, pips, LbState, fedits>>
  BY SteadyFacts DEF SteadyInv, IgnoreDeletionError
<1>2. FInv' /\ front' = front /\ rule' = rule /\ state' = state /\ wish' = wish
  BY <1>1, IgnoreKeeps DEF LbState, Users
<1>3. Fits(sync')
  BY <1>1, MoveTyped DEF Fits, FPc, Placed
<1>4. Called(sync', state')
  BY <1>1, <1>2, MoveTyped DEF Called, FPc
<1>5. ListHomed(pips') /\ ListHomed(pipCache')
  BY <1>1, ListsHomed DEF TagsHome
<1> QED BY <1>1, <1>2, <1>3, <1>4, <1>5, SteadyQuiet, QuietAddress

LEMMA NeverDetached == ASSUME SteadyInv, ~Resting PROVE ~DetachFails
  BY NothingOff, DetachIs DEF DetachFailed

LEMMA NewSyncFits ==
  ASSUME SteadyInv, NEW s \in FService, NEW want \in BOOLEAN, state[s] = "deleting" \/ (want /\ state[s] = "wanted")
  PROVE  Fits(NewSync(s, want)) /\ Called(NewSync(s, want), state)
<1>1. FTypeOK /\ state[s] # "none"
  BY DEF SteadyInv, FInv, BaseInv
<1>2. /\ ObjectSound(ObjectOf(s)) /\ ObjectOf(s) \in Object /\ ObjectOf(s).s = s
      /\ ObjectOf(s).ip \in UserPip \cup {FNil}
  BY <1>1, NewObjectSound
<1>3. /\ NewSync(s, want).pc = "lb"
      /\ NewSync(s, want).o = ObjectOf(s) /\ NewSync(s, want).want = want
      /\ NewSync(s, want).updates = {} /\ NewSync(s, want).drops = {}
  BY <1>1, NewSyncIs
<1>4. ObjectOf(s).ip # "private"
  BY <1>2, FPipAssumption, FNilAssumption DEF Pip
<1>5. Fits(NewSync(s, want))
  BY <1>2, <1>3, <1>4 DEF Fits, Placed
<1> QED BY <1>2, <1>3, <1>5 DEF Called

LEMMA OthersSteady ==
  ASSUME SteadyInv,
         \/ \E s \in FService : EnsureLoadBalancer(s) \/ EnsureLoadBalancerDeleted(s)
                                \/ EditService(s) \/ RemoveService(s)
         \/ ExpirePips
         \/ UNCHANGED fvars
  PROVE  SteadyInv' /\ OthersKept
<1>1. FInv /\ FTypeOK
  BY DEF SteadyInv, FInv, BaseInv
<1>2. FInv'
  BY <1>1, OthersKeep
<1>3. UNCHANGED <<fplan, front, rule, pips>> /\ pipCache' \in {pipCache, FNil}
  BY DEF EnsureLoadBalancer, EnsureLoadBalancerDeleted, EditService, RemoveService, ExpirePips, fvars, LbState
<1>4. OthersKept
  BY <1>3, QuietAddress
<1>5. /\ \A f \in FService : front'[f] # FNil => front'[f] = Home(f)
      /\ \A s \in FService : rule'["public"][s] # FNil => front'[rule'["public"][s]] = Home(s) /\ Home(s) # FNil
  BY <1>3 DEF SteadyInv, FrontHome, RuleHome
<1>6. ListHomed(pips') /\ (pipCache' # FNil => ListHomed(pipCache'))
  BY <1>3 DEF SteadyInv, TagsHome
<1>7. sync \in {Idle, Failed} \/ (sync \in Sync /\ sync.o.s \in FService /\ Fits(sync) /\ Called(sync, state))
  BY SteadyFacts DEF SteadyInv, Resting
<1>8. state \in [FService -> {"none", "wanted", "deleting", "gone"}] /\ wish \in [FService -> Wish]
  BY <1>1 DEF FTypeOK
<1>9. ASSUME NEW s \in FService, EnsureLoadBalancer(s) PROVE SteadyInv'
  <2>1. sync' = NewSync(s, TRUE) /\ state[s] = "wanted" /\ state' = state /\ wish' = wish
    BY <1>9 DEF EnsureLoadBalancer, Users
  <2>2. Fits(sync') /\ Called(sync', state')
    BY <2>1, NewSyncFits
  <2>3. \A t \in FService : state'[t] # "none" => wish'[t] \in fplan.wishes[t]
    BY <2>1 DEF SteadyInv, WishesSound
  <2> QED BY <1>2, <1>3, <1>5, <1>6, <2>2, <2>3, SteadyStep
<1>10. ASSUME NEW s \in FService, EnsureLoadBalancerDeleted(s) PROVE SteadyInv'
  <2>1. state[s] = "deleting" /\ wish' = wish /\ Resting
    BY <1>10 DEF EnsureLoadBalancerDeleted
  <2>2. \/ sync' = NewSync(s, FALSE) /\ state' = state
        \/ state' = [state EXCEPT ![s] = "gone"] /\ sync' = sync
    BY <1>10 DEF EnsureLoadBalancerDeleted
  <2>3. sync' \in {Idle, Failed} \/ (Fits(sync') /\ Called(sync', state'))
    BY <2>1, <2>2, NewSyncFits DEF Resting
  <2>4. \A t \in FService : state'[t] # "none" => wish'[t] \in fplan.wishes[t]
    BY <1>8, <2>1, <2>2 DEF SteadyInv, WishesSound
  <2> QED BY <1>2, <1>3, <1>5, <1>6, <2>3, <2>4, SteadyStep
<1>11. ASSUME NEW s \in FService, EditService(s) PROVE SteadyInv'
  <2>1. PICK w \in fplan.wishes[s] : wish' = [wish EXCEPT ![s] = w]
    BY <1>11 DEF EditService
  <2>2. state' = [state EXCEPT ![s] = "wanted"] /\ state[s] \in {"none", "wanted"} /\ sync' = sync
    BY <1>11 DEF EditService
  <2>3. \A t \in FService : state'[t] # "none" => wish'[t] \in fplan.wishes[t]
    BY <1>8, <2>1, <2>2 DEF SteadyInv, WishesSound
  <2>4. sync' \in {Idle, Failed} \/ (Fits(sync') /\ Called(sync', state'))
    BY <1>7, <1>8, <2>2 DEF Called
  <2> QED BY <1>2, <1>3, <1>5, <1>6, <2>3, <2>4, SteadyStep
<1>12. ASSUME NEW s \in FService, RemoveService(s) PROVE SteadyInv'
  <2>1. state' = [state EXCEPT ![s] = "deleting"] /\ state[s] = "wanted" /\ sync' = sync /\ wish' = wish
    BY <1>12 DEF RemoveService
  <2>2. \A t \in FService : state'[t] # "none" => wish'[t] \in fplan.wishes[t]
    BY <1>8, <2>1 DEF SteadyInv, WishesSound
  <2>3. sync' \in {Idle, Failed} \/ (Fits(sync') /\ Called(sync', state'))
    BY <1>7, <1>8, <2>1 DEF Called
  <2> QED BY <1>2, <1>3, <1>5, <1>6, <2>2, <2>3, SteadyStep
<1>13. CASE ExpirePips \/ UNCHANGED fvars
  <2>1. state' = state /\ wish' = wish /\ sync' = sync
    BY <1>13 DEF ExpirePips, fvars, Users
  <2>2. \A t \in FService : state'[t] # "none" => wish'[t] \in fplan.wishes[t]
    BY <2>1 DEF SteadyInv, WishesSound
  <2>3. sync' \in {Idle, Failed} \/ (Fits(sync') /\ Called(sync', state'))
    BY <1>7, <2>1
  <2> QED BY <1>2, <1>3, <1>4, <1>5, <1>6, <2>2, <2>3, SteadyStep
<1> QED BY <1>4, <1>9, <1>10, <1>11, <1>12, <1>13

LEMMA SteadyKept == ASSUME SteadyInv, [FNext]_fvars PROVE SteadyInv' /\ OthersKept
<1>1. (PlanFrontend \/ EnsureFrontendIP \/ ConfirmPublicIP) => OthersKept
  BY QuietAddress DEF PlanFrontend, EnsureFrontendIP, ConfirmPublicIP, LbState
<1> QED
  BY <1>1, PlanSteady, EnsureFrontendSteady, PutSteady, FlipSteady, ListSteady, UpdateSteady, ReleaseSteady,
     ConfirmSteady, IgnoreSteady, NeverDetached, OthersSteady DEF FNext, Proceed

LEMMA SteadyInit == ASSUME FInit, Steady(fplan) PROVE SteadyInv
<1>1. FInv
  BY FInitHolds
<1>2. WishesSound /\ FrontHome /\ RuleHome /\ Resting
  BY DEF FInit, WishesSound, FrontHome, RuleHome, Kind, Resting
<1>3. \A p \in Pip : pips[p] # FNil => p \in UserPip /\ pips[p] = [tags |-> {}, dns |-> FNil, iptags |-> FNil]
  BY DEF FInit
<1>4. TagsHome
  BY <1>3 DEF Agreed, TagsHome, ListHomed, Homed, FInit
<1> QED BY <1>1, <1>2, <1>4 DEF SteadyInv

\* Whatever is reconciled, added, deleted or fails, a service that the operation is
\* not about keeps the address behind its rule, as long as each service asks for one
\* public IP, and those that share one for the same IP tags (serviceOwnsFrontendIP,
\* isFrontendIPConfigUnsafeToDelete, shouldReleaseExistingOwnedPublicIP).
THEOREM AddressesAreKept == FSpec /\ Steady(fplan) => OthersKeepAddress
<1>1. SteadyInv /\ [FNext]_fvars => SteadyInv'
  BY SteadyKept
<1>2. FInit /\ Steady(fplan) => SteadyInv
  BY SteadyInit
<1>3. SteadyInv /\ [FNext]_fvars => [OthersKept]_fvars
  BY SteadyKept
<1> QED BY <1>1, <1>2, <1>3, PTL DEF FSpec, OthersKeepAddress, OthersKept

-------------------------------------------------------------------------------
(* Without failed writes, everything in Azure belongs to a service. *)

\* Of the services that share a public IP no frontend is used by other rules, and
\* at most one has a DNS label.
Compatible(p) ==
    \A s, t \in FService :
        (s # t /\ AddressOf(p, s) = AddressOf(p, t) /\ AddressOf(p, s) # FNil) =>
            s \notin p.pinned /\ ~(s \in p.dns /\ t \in p.dns)

\* No public IP is on two frontends, internal frontends have the rule of their
\* service, and a public frontend has a rule of somebody.
LbCalm(lb) ==
    /\ \A f, g \in FService : (lb.front[f] = lb.front[g] /\ lb.front[f] # FNil) => f = g
    /\ \A s \in FService : lb.rule["internal"][s] = IF s \in lb.inner THEN s ELSE FNil
    /\ \A s \in FService : Own(s) => lb.rule["public"][s] \in {FNil, s}
    /\ \A f \in FService : lb.front[f] # FNil => f \in fplan.pinned \/ \E t \in FService : lb.rule["public"][t] = f

\* A public IP on a frontend exists.
FrontsBacked(fr, ips) == \A f \in FService : fr[f] # FNil => ips[fr[f]] # FNil

\* A public IP of the provider is one that its service asks for, and in use.
PipsMade(ips) == \A p \in FService : ips[p] # FNil => Home(p) = p /\ ips[p].tags # {}

Running(y) == y \notin {Idle, Failed}

\* The service has its rule, and will be in the tag when the operation ends.
Placing(t, y) == Running(y) /\ y.o.s = t /\ y.want /\ y.pc \in Placed

RulesTagged(ru, ips, y) ==
    \A t \in FService :
        (ru["public"][t] # FNil /\ Home(t) \in FService) => t \in ips[Home(t)].tags \/ Placing(t, y)

\* What a service has left when it is gone.
LetGo(s, ru, ips) ==
    /\ ru["public"][s] = FNil /\ ru["internal"][s] = FNil
    /\ s \notin fplan.pinned => \A p \in Pip : ips[p] # FNil => s \notin ips[p].tags

Inactive(s, st) == st[s] \in {"none", "gone"}

Ending(y) == Running(y) /\ ~y.want /\ y.pc \in {"update", "release"}

Pending(p, y) == Ending(y) /\ ((\E u \in y.updates : u[1] = p) \/ (\E d \in y.drops : d[1] = p))

\* The public IP of a frontend that is used by other rules, whose service goes.
Lone(p, st, y) ==
    /\ p \in FService /\ p \in fplan.pinned /\ st[p] \in {"deleting", "gone"}
    /\ ~(Running(y) /\ y.o.s = p /\ y.want)

\* The tags in a list of public IPs are those in Azure, unless they are about to be
\* written or Azure keeps the public IP.
ListSound(l, ips, st, y) ==
    \A p \in Pip :
        /\ l[p] = FNil <=> ips[p] = FNil
        /\ l[p] # FNil => l[p].tags = ips[p].tags \/ Pending(p, y) \/ Lone(p, st, y)

OtherKind(o) == IF o.internal THEN "public" ELSE "internal"

\* What the operation has done so far, and what the writes that are left will do.
Phase(y, ru, ips) ==
    /\ ~y.failed
    /\ y.pc \in Placed => (y.want <=> ru[KindOf(y.o)][y.o.s] # FNil)
    /\ y.pc \in Placed \ {"flip"} => ru[OtherKind(y.o)][y.o.s] = FNil
    /\ (y.pc = "put" /\ y.want /\ ~y.o.internal) => ips[Home(y.o.s)] # FNil
    /\ y.pc \notin {"update", "release"} => y.updates = {} /\ y.drops = {}
    /\ y.pc = "release" => y.updates = {}
    /\ \A u \in y.updates : /\ u[1] \in FService /\ ips[u[1]] # FNil
                            /\ u[2].tags = ips[u[1]].tags \ {y.o.s} /\ u[2].tags # {}
    /\ \A d \in y.drops : /\ d[1] \in FService /\ ips[d[1]] # FNil /\ ips[d[1]].tags = {y.o.s}
                          /\ \A e \in y.drops : d = e
    /\ (Ending(y) /\ y.o.s \notin fplan.pinned) =>
           \A p \in Pip : (ips[p] # FNil /\ y.o.s \in ips[p].tags) => Pending(p, y)

Calm ==
    /\ LbCalm(CurrentLb) /\ FrontsBacked(front, pips) /\ PipsMade(pips)
    /\ RulesTagged(rule, pips, sync)
    /\ \A s \in FService : Inactive(s, state) => LetGo(s, rule, pips)
    /\ pipCache # FNil => ListSound(pipCache, pips, state, sync)
    /\ Running(sync) => Phase(sync, rule, pips)

CalmInv == SteadyInv /\ Compatible(fplan) /\ (ffaults = 0 => Calm)

LEMMA CalmStep ==
  ASSUME fplan' = fplan, LbCalm(CurrentLb'), FrontsBacked(front', pips'), PipsMade(pips'),
         RulesTagged(rule', pips', sync'),
         \A s \in FService : Inactive(s, state') => LetGo(s, rule', pips'),
         pipCache' # FNil => ListSound(pipCache', pips', state', sync'),
         Running(sync') => Phase(sync', rule', pips')
  PROVE  Calm'
<1>1. \A s : Home(s)' = Home(s) /\ Own(s)' = Own(s)
  BY PlanStays
<1>2. LbCalm(CurrentLb)'
  BY <1>1 DEF LbCalm, CurrentLb
<1>3. FrontsBacked(front, pips)' /\ PipsMade(pips)' /\ RulesTagged(rule, pips, sync)'
  BY <1>1 DEF FrontsBacked, PipsMade, RulesTagged, Placing, Running, Placed
<1>4. (\A s \in FService : Inactive(s, state) => LetGo(s, rule, pips))'
  BY <1>1 DEF Inactive, LetGo
<1>5. (pipCache # FNil => ListSound(pipCache, pips, state, sync))'
  BY <1>1 DEF ListSound, Pending, Lone, Ending, Running
<1>6. (Running(sync) => Phase(sync, rule, pips))'
  BY <1>1 DEF Phase, Pending, Ending, Running, OtherKind, KindOf, Placed
<1> QED BY <1>2, <1>3, <1>4, <1>5, <1>6 DEF Calm

LEMMA RunningIs == Running(sync) <=> ~Resting
  BY DEF Running, Resting

LEMMA PinnedAlone ==
  ASSUME Compatible(fplan), NEW s \in FService, NEW t \in FService, Home(s) = Home(t), Home(s) # FNil,
         s \in fplan.pinned
  PROVE  s = t
  BY DEF Compatible, Home

LEMMA OneLabel ==
  ASSUME Compatible(fplan), NEW s \in FService, NEW t \in FService, Home(s) = Home(t), Home(s) # FNil,
         s \in fplan.dns, t \in fplan.dns
  PROVE  s = t
  BY DEF Compatible, Home

LEMMA FlipKind == \A o \in Object : KindOf(Flip(o)) = OtherKind(o) /\ Flip(o).internal = ~o.internal
<1> SUFFICES ASSUME NEW o \in Object PROVE KindOf(Flip(o)) = OtherKind(o) /\ Flip(o).internal = ~o.internal
  OBVIOUS
<1>1. Flip(o).internal = ~o.internal /\ o.internal \in BOOLEAN
  BY DEF Flip, Object
<1> QED BY <1>1 DEF KindOf, OtherKind

LEMMA NewListIs ==
  ASSUME FTypeOK, NEW p \in Pip
  PROVE  /\ newPIPCache[p] = FNil <=> pips[p] = FNil
         /\ pips[p] # FNil => newPIPCache[p].tags = pips[p].tags
<1>1. CASE Exists(p)
  <2> DEFINE r == [tags |-> pips[p].tags, dns |-> pips[p].dns, iptags |-> pips[p].iptags, config |-> Holder(p)]
  <2>1. pips[p] \in Tagged
    BY <1>1 DEF FTypeOK, Exists
  <2>2. r \in Seen /\ r.tags = pips[p].tags
    BY <2>1, HolderTyped DEF Seen, Tagged
  <2>3. newPIPCache[p] = r
    BY <1>1 DEF newPIPCache
  <2> QED BY <1>1, <2>2, <2>3, FNilAssumption DEF Exists
<1>2. CASE ~Exists(p)
  BY <1>2 DEF newPIPCache, Exists
<1> QED BY <1>1, <1>2

LEMMA ListsSound ==
  ASSUME FTypeOK, Calm
  PROVE  /\ ListSound(newPIPCache, pips, state, sync) /\ ListSound(listPIP, pips, state, sync)
         /\ \A p \in Pip : ListSound(PipListFor(p), pips, state, sync)
         /\ \A p \in Pip : /\ Found(p) <=> pips[p] # FNil
                           /\ listPIP[p] = FNil <=> pips[p] = FNil
<1>1. ListSound(newPIPCache, pips, state, sync)
  BY NewListIs DEF ListSound
<1>2. ListSound(listPIP, pips, state, sync)
  BY <1>1 DEF listPIP, Calm
<1>3. \A p \in Pip : ListSound(PipListFor(p), pips, state, sync)
  BY <1>1, <1>2 DEF PipListFor
<1>4. \A p \in Pip : Found(p) <=> pips[p] # FNil
  BY <1>3 DEF Found, getPublicIPAddress, ListSound
<1> QED BY <1>1, <1>2, <1>3, <1>4 DEF ListSound

\* The exceptions a step of an operation leaves.
LEMMA LoneStays ==
  ASSUME FTypeOK, Running(sync), sync.o.s \in FService, Called(sync, state),
         \/ sync' \in {Idle, Failed}
         \/ sync'.o.s = sync.o.s /\ sync'.want = sync.want,
         state' = state \/ Fail \/ Finish,
         NEW p, Lone(p, state, sync)
  PROVE  Lone(p, state', sync')
<1>1. p \in FService /\ p \in fplan.pinned /\ state[p] \in {"deleting", "gone"} /\ ~(sync.o.s = p /\ sync.want)
  BY DEF Lone
<1>2. state'[p] \in {"deleting", "gone"}
  BY <1>1 DEF Fail, Finish, FTypeOK
<1>3. ~(Running(sync') /\ sync'.o.s = p /\ sync'.want)
  BY <1>1 DEF Running
<1> QED BY <1>1, <1>2, <1>3 DEF Lone

LEMMA ListStays ==
  ASSUME FTypeOK, Running(sync), sync.o.s \in FService, Called(sync, state),
         \/ sync' \in {Idle, Failed}
         \/ sync'.o.s = sync.o.s /\ sync'.want = sync.want,
         state' = state \/ Fail \/ Finish,
         sync.pc \notin {"update", "release"} \/ sync.want,
         NEW l, ListSound(l, pips, state, sync), pips' = pips
  PROVE  ListSound(l, pips', state', sync')
<1>1. \A p : ~Pending(p, sync)
  BY DEF Pending, Ending
<1>2. \A p : Lone(p, state, sync) => Lone(p, state', sync')
  BY LoneStays
<1> QED BY <1>1, <1>2 DEF ListSound

LEMMA CalmFacts ==
  ASSUME CalmInv, ffaults = 0, ~Resting
  PROVE  /\ SteadyInv /\ FInv /\ BaseInv /\ FTypeOK /\ Compatible(fplan) /\ Calm
         /\ sync \in Sync /\ sync.o \in Object /\ sync.o.s \in FService /\ Running(sync)
         /\ Working(sync) /\ Fits(sync) /\ ObjectSound(sync.o) /\ Home(sync.o.s) \in Pip
         /\ Home(sync.o.s) # FNil
         /\ Called(sync, state) /\ Phase(sync, rule, pips)
         /\ FrontHome /\ RuleHome /\ TagsHome
<1>1. SteadyInv /\ Calm /\ Compatible(fplan) /\ Running(sync)
  BY RunningIs DEF CalmInv
<1>2. Home(sync.o.s) \in Pip
  BY <1>1, SteadyFacts
<1> QED BY <1>1, <1>2, SteadyFacts, FNilAssumption DEF Calm, SteadyInv

LEMMA CountDone == ASSUME ffaults = 0, ffaults' = 0, NEW r, Count(r) PROVE r = "done"
  BY DEF Count

\* A step that leaves Azure alone.
LEMMA CalmQuiet ==
  ASSUME CalmInv, ffaults = 0, ~Resting, UNCHANGED <<fplan, pips, LbState, state>>,
         pipCache' # FNil => ListSound(pipCache', pips', state', sync'),
         Running(sync') => Phase(sync', rule', pips'),
         \A t \in FService : Placing(t, sync) => Placing(t, sync') \/ rule["public"][t] = FNil
  PROVE  Calm'
<1>1. Calm /\ rule' = rule /\ front' = front /\ inner' = inner
  BY CalmFacts DEF LbState
<1>2. LbCalm(CurrentLb') /\ FrontsBacked(front', pips') /\ PipsMade(pips')
  BY <1>1 DEF Calm, CurrentLb
<1>3. RulesTagged(rule', pips', sync')
  BY <1>1 DEF Calm, RulesTagged
<1>4. \A s \in FService : Inactive(s, state') => LetGo(s, rule', pips')
  BY <1>1 DEF Calm
<1> QED BY <1>2, <1>3, <1>4, CalmStep

LEMMA PlanCalm == ASSUME CalmInv, ffaults = 0, ~Resting, PlanFrontend PROVE Calm'
<1> DEFINE o == sync.o
<1>1. /\ FInv /\ FTypeOK /\ Calm /\ sync \in Sync /\ o \in Object /\ o.s \in FService /\ Running(sync)
      /\ Working(sync) /\ ObjectSound(o) /\ Called(sync, state) /\ Phase(sync, rule, pips) /\ FrontHome
      /\ sync.pc = "lb"
  BY CalmFacts DEF PlanFrontend
<1>2. UNCHANGED <<fplan, pips, LbState>> /\ pipCache' = listPIP
  BY DEF PlanFrontend
<1>3. \A t \in FService : ~Placing(t, sync)
  BY <1>1 DEF Placing, Placed
<1>4. ListSound(listPIP, pips, state, sync)
  BY <1>1, ListsSound
<1>5. CASE Fail
  <2>1. sync' = Failed /\ state' = state
    BY <1>5 DEF Fail
  <2>2. ListSound(listPIP, pips', state', sync')
    BY <1>1, <1>2, <1>4, <2>1, ListStays
  <2> QED BY <1>2, <1>3, <2>1, <2>2, CalmQuiet DEF Running
<1>6. ASSUME NEW pc \in {"pip", "put"}, Goto(pc), UNCHANGED <<fdirty, state>>,
             (pc = "put" /\ sync.want /\ ~o.internal) => Kept(o) # {}
      PROVE  Calm'
  <2>1. /\ sync' \in Sync /\ sync'.pc = pc /\ sync'.o = sync.o /\ sync'.want = sync.want
        /\ sync'.failed = sync.failed /\ sync'.updates = sync.updates /\ sync'.drops = sync.drops
    BY <1>1, <1>6, MoveTyped DEF FPc
  <2>2. ListSound(listPIP, pips', state', sync')
    BY <1>1, <1>2, <1>4, <1>6, <2>1, ListStays
  <2>3. (pc = "put" /\ sync.want /\ ~o.internal) => pips[Home(o.s)] # FNil
    <3> SUFFICES ASSUME ~o.internal, Kept(o) # {} PROVE pips[Home(o.s)] # FNil
      BY <1>6
    <3>1. PICK f \in Owned(o) : TRUE
      BY DEF Kept
    <3>2. f \in FService /\ front[f] = Home(o.s) /\ front[f] # FNil
      BY <1>1, OwnedHome
    <3> QED BY <1>1, <3>2 DEF Calm, FrontsBacked
  <2>4. Phase(sync', rule', pips')
    BY <1>1, <1>2, <2>1, <2>3 DEF Phase, Placed, Ending
  <2> QED BY <1>2, <1>3, <1>6, <2>2, <2>4, CalmQuiet
<1>7. \/ Fail
      \/ Goto("pip") /\ UNCHANGED <<fdirty, state>>
      \/ Goto("put") /\ UNCHANGED <<fdirty, state>> /\ ((sync.want /\ ~o.internal) => Kept(o) # {})
  <2> DEFINE new == Kept(o) = {} /\ ~o.internal
  <2>1. \/ Fail
        \/ Goto(IF sync.want /\ new THEN "pip" ELSE "put") /\ UNCHANGED <<fdirty, state>>
    BY DEF PlanFrontend
  <2>2. CASE sync.want /\ new
    BY <2>1, <2>2
  <2>3. CASE ~(sync.want /\ new)
    <3>1. Fail \/ (Goto("put") /\ UNCHANGED <<fdirty, state>>)
      BY <2>1, <2>3
    <3> QED BY <2>3, <3>1
  <2> QED BY <2>2, <2>3
<1> QED BY <1>5, <1>6, <1>7

\* In an operation that places a service the provider knows the tags it adds to.
LEMMA BoundIs ==
  ASSUME CalmInv, ffaults = 0, ~Resting, sync.want, NEW p \in Pip, p = Home(sync.o.s)
  PROVE  /\ pips[p] = FNil => Bound(sync.o, p).tags = {sync.o.s}
         /\ (pips[p] # FNil /\ p \in FService) =>
               /\ getPublicIPAddress(p).tags = pips[p].tags
               /\ Bound(sync.o, p).tags \in {pips[p].tags, pips[p].tags \cup {sync.o.s}}
               /\ (sync.o.ip = p => Bound(sync.o, p).tags = pips[p].tags \cup {sync.o.s})
<1> DEFINE o == sync.o
           r == getPublicIPAddress(p)
<1>1. FTypeOK /\ Calm /\ Running(sync) /\ Compatible(fplan) /\ o.s \in FService /\ Home(o.s) # FNil
  BY CalmFacts
<1>2. r = FNil <=> pips[p] = FNil
  BY <1>1, ListsSound DEF Found
<1>3. CASE pips[p] = FNil
  BY <1>2, <1>3 DEF Bound
<1>4. CASE pips[p] # FNil /\ p \in FService
  <2>1. Home(p) = p /\ pips[p].tags # {}
    BY <1>1, <1>4 DEF Calm, PipsMade
  <2>2. r.tags = pips[p].tags \/ Pending(p, sync) \/ Lone(p, state, sync)
    BY <1>1, <1>2, <1>4, ListsSound DEF ListSound, getPublicIPAddress
  <2>3. ~Pending(p, sync)
    BY DEF Pending, Ending
  <2>4. ~Lone(p, state, sync)
    <3> SUFFICES ASSUME Lone(p, state, sync) PROVE FALSE
      OBVIOUS
    <3>1. p \in FService /\ p \in fplan.pinned /\ ~(o.s = p)
      BY <1>1 DEF Lone
    <3> QED BY <1>1, <2>1, <3>1, PinnedAlone
  <2>5. r.tags = pips[p].tags
    BY <2>2, <2>3, <2>4
  <2>6. Bound(o, p) = [tags |-> IF serviceOwnsPublicIP(o, p, r) THEN r.tags \cup {o.s} ELSE r.tags,
                       dns |-> IF o.s \in fplan.dns THEN o.s ELSE r.dns, iptags |-> r.iptags]
    BY <1>2, <1>4, <2>1, <2>5 DEF Bound, isUserAssignedPIP
  <2>7. o.ip = p => serviceOwnsPublicIP(o, p, r)
    BY DEF serviceOwnsPublicIP, isServiceSelectPIP
  <2> HIDE DEF r
  <2> QED BY <1>4, <2>5, <2>6, <2>7 DEF r
<1> QED BY <1>3, <1>4

LEMMA SentCalm ==
  ASSUME CalmInv, ffaults = 0, ffaults' = 0, ~Resting, sync.want, NEW p \in Pip, p = Home(sync.o.s),
         NEW r \in Outcome, PipSent(sync.o, p, r), pips[p] # FNil \/ Home(p) = p
  PROVE  /\ r = "done" /\ pipCache' = FNil /\ p \in FService
         /\ FrontsBacked(front, pips') /\ PipsMade(pips') /\ pips'[p] # FNil
         /\ sync.o.ip = p => sync.o.s \in pips'[p].tags
         /\ \A q \in Pip : pips[q] # FNil => pips'[q] # FNil /\ pips[q].tags \subseteq pips'[q].tags
         /\ \A q \in Pip, t \in FService \ {sync.o.s} :
               (pips'[q] # FNil /\ t \in pips'[q].tags) => pips[q] # FNil /\ t \in pips[q].tags
<1> DEFINE o == sync.o
<1>1. /\ BaseInv /\ FTypeOK /\ Calm /\ o \in Object /\ o.s \in FService
  BY CalmFacts
<1>2. r = "done"
  BY CountDone DEF PipSent
<1>3. p \in FService
  BY <1>1, UserNotBound DEF PipSent, Pip
<1>4. pips' = [pips EXCEPT ![p] = Bound(o, p)] /\ pipCache' = FNil
  BY <1>2 DEF PipSent
<1>5. Bound(o, p) \in Tagged /\ Bound(o, p) # FNil
  BY <1>1, BoundTyped, FNilAssumption
<1>6. pips \in [Pip -> Tagged \cup {FNil}]
  BY <1>1 DEF FTypeOK
<1> DEFINE b == Bound(o, p)
<1>7. /\ pips[p] = FNil => b.tags = {o.s}
      /\ pips[p] # FNil => /\ b.tags \in {pips[p].tags, pips[p].tags \cup {o.s}}
                           /\ (o.ip = p => b.tags = pips[p].tags \cup {o.s})
  BY <1>3, BoundIs
<1>8. pips'[p] = b /\ \A q \in Pip \ {p} : pips'[q] = pips[q]
  BY <1>4, <1>6
<1> HIDE DEF b
<1>9. pips[p] # FNil => Home(p) = p /\ pips[p].tags # {}
  BY <1>1, <1>3 DEF Calm, PipsMade
<1>10. b # FNil
  BY <1>5 DEF b
<1>11. PipsMade(pips')
  <2>1. Home(p) = p /\ b.tags # {}
    BY <1>7, <1>9
  <2>2. \A q \in FService : q \in Pip
    BY DEF Pip
  <2> QED BY <1>1, <1>8, <2>1, <2>2 DEF Calm, PipsMade
<1>12. \A q \in Pip : pips[q] # FNil => pips'[q] # FNil /\ pips[q].tags \subseteq pips'[q].tags
  BY <1>7, <1>8, <1>10
<1>13. FrontsBacked(front, pips')
  BY <1>1, <1>12 DEF Calm, FrontsBacked, FTypeOK
<1>14. \A q \in Pip, t \in FService \ {o.s} :
          (pips'[q] # FNil /\ t \in pips'[q].tags) => pips[q] # FNil /\ t \in pips[q].tags
  BY <1>7, <1>8
<1>15. o.ip = p => o.s \in pips'[p].tags
  BY <1>7, <1>8
<1> QED BY <1>2, <1>3, <1>4, <1>8, <1>10, <1>11, <1>12, <1>13, <1>14, <1>15

\* The public IP of a service with a rule is there.
LEMMA RuleBacked ==
  ASSUME FTypeOK, RuleHome, Calm, NEW t \in FService, rule["public"][t] # FNil
  PROVE  Home(t) \in Pip /\ pips[Home(t)] # FNil /\ front[rule["public"][t]] = Home(t) /\ rule["public"][t] \in FService
<1>1. rule["public"][t] \in FService
  BY DEF FTypeOK, Kind
<1>2. front[rule["public"][t]] = Home(t) /\ Home(t) # FNil
  BY DEF RuleHome
<1> QED BY <1>1, <1>2 DEF Calm, FrontsBacked, FTypeOK

LEMMA EnsureFrontendCalm ==
  ASSUME CalmInv, ffaults = 0, ffaults' = 0, ~Resting, EnsureFrontendIP PROVE Calm'
<1> DEFINE o == sync.o
           p == determinePublicIPName(o)
<1>1. /\ FInv /\ BaseInv /\ FTypeOK /\ Calm /\ sync \in Sync /\ o \in Object /\ o.s \in FService /\ Running(sync)
      /\ Working(sync) /\ Fits(sync) /\ ObjectSound(o) /\ Called(sync, state) /\ Phase(sync, rule, pips)
      /\ RuleHome /\ sync.pc = "pip" /\ Home(o.s) \in Pip
  BY CalmFacts, EnsureFrontendIs
<1>2. sync.want /\ ~o.internal /\ o.ip \in UserPip \cup {FNil}
  BY <1>1 DEF Fits, Working
<1>3. p = Home(o.s)
  <2>1. o.ip # "private"
    BY <1>2, FPipAssumption, FNilAssumption DEF Pip
  <2> QED BY <1>1, <1>2, <2>1, NameIsHome
<1> HIDE DEF p
<1>4. /\ UNCHANGED <<fplan, wish, LbState, fedits>>
      /\ \/ Refusing(p)
         \/ Unchanging(o, p) /\ Goto("put") /\ UNCHANGED <<fdirty, state>>
         \/ \E r \in Outcome : /\ PipSent(o, p, r) /\ (o.name # FNil => Found(p))
                               /\ IF r = "done" THEN Goto("put") /\ UNCHANGED <<fdirty, state>> ELSE Fail
  BY EnsureFrontendIs DEF p
<1>5. \A t \in FService : ~Placing(t, sync)
  BY <1>1 DEF Placing, Placed
<1>6. ListSound(PipListFor(p), pips, state, sync)
  BY <1>1, <1>3, ListsSound
<1>7. CASE Refusing(p)
  <2>1. sync' = Failed /\ state' = state /\ pips' = pips /\ pipCache' = PipListFor(p)
    BY <1>7 DEF Fail, Refusing
  <2>2. ListSound(PipListFor(p), pips', state', sync')
    BY <1>1, <1>6, <2>1, ListStays
  <2> QED BY <1>4, <1>5, <2>1, <2>2, CalmQuiet DEF Running
<1>8. ASSUME Goto("put")
      PROVE  /\ sync' \in Sync /\ sync'.pc = "put" /\ sync'.o = sync.o /\ sync'.want = sync.want
             /\ sync'.failed = sync.failed /\ sync'.updates = sync.updates /\ sync'.drops = sync.drops
  BY <1>1, <1>8, MoveTyped DEF FPc
<1>9. CASE Unchanging(o, p) /\ Goto("put") /\ UNCHANGED <<fdirty, state>>
  <2>1. pips' = pips /\ pipCache' = PipListFor(p) /\ pips[Home(o.s)] # FNil /\ state' = state
    BY <1>3, <1>9 DEF Unchanging, Exists
  <2>2. ListSound(PipListFor(p), pips', state', sync')
    BY <1>1, <1>6, <1>8, <1>9, <2>1, ListStays
  <2>3. rule' = rule
    BY <1>4 DEF LbState
  <2>4. Phase(sync', rule', pips')
    BY <1>1, <1>8, <1>9, <2>1, <2>3 DEF Phase, Placed, Ending
  <2> QED BY <1>4, <1>5, <2>1, <2>2, <2>4, CalmQuiet
<1>10. ASSUME NEW r \in Outcome, PipSent(o, p, r), o.name # FNil => Found(p),
              IF r = "done" THEN Goto("put") /\ UNCHANGED <<fdirty, state>> ELSE Fail
       PROVE  Calm'
  <2>1. pips[p] # FNil \/ Home(p) = p
    <3> SUFFICES ASSUME pips[p] = FNil PROVE Home(p) = p
      OBVIOUS
    <3>1. o.name = FNil
      BY <1>1, <1>3, <1>10, ListsSound
    <3>2. p \notin UserPip
      BY <1>1 DEF BaseInv, UsersSound
    <3>3. o.ip \notin UserPip
      BY <1>1, <1>3, <3>2 DEF ObjectSound, Pip
    <3> QED BY <1>1, <1>3, <3>1, <3>3 DEF ObjectSound
  <2>2. /\ r = "done" /\ pipCache' = FNil /\ FrontsBacked(front, pips') /\ PipsMade(pips') /\ pips'[p] # FNil
        /\ \A q \in Pip : pips[q] # FNil => pips'[q] # FNil /\ pips[q].tags \subseteq pips'[q].tags
        /\ \A q \in Pip, t \in FService \ {o.s} :
              (pips'[q] # FNil /\ t \in pips'[q].tags) => pips[q] # FNil /\ t \in pips[q].tags
    BY <1>1, <1>2, <1>3, <1>10, <2>1, SentCalm
  <2>3. Goto("put") /\ state' = state /\ rule' = rule /\ front' = front /\ inner' = inner
    BY <1>4, <1>10, <2>2 DEF LbState
  <2>4. RulesTagged(rule', pips', sync')
    <3> SUFFICES ASSUME NEW t \in FService, rule["public"][t] # FNil, Home(t) \in FService
                 PROVE  t \in pips'[Home(t)].tags
      BY <2>3 DEF RulesTagged
    <3>1. Home(t) \in Pip /\ pips[Home(t)] # FNil
      BY <1>1, RuleBacked
    <3>2. t \in pips[Home(t)].tags
      BY <1>1, <1>5 DEF Calm, RulesTagged
    <3> QED BY <2>2, <3>1, <3>2
  <2>5. \A s \in FService : Inactive(s, state') => LetGo(s, rule', pips')
    <3>1. \A s \in FService : Inactive(s, state') => s # o.s
      BY <1>1, <2>3 DEF Inactive, Called
    <3> QED BY <1>1, <2>2, <2>3, <3>1 DEF Calm, LetGo
  <2>6. Phase(sync', rule', pips')
    BY <1>1, <1>3, <1>8, <2>2, <2>3 DEF Phase, Placed, Ending
  <2>7. LbCalm(CurrentLb')
    BY <1>1, <2>3 DEF Calm, CurrentLb
  <2> QED BY <1>4, <2>2, <2>3, <2>4, <2>5, <2>6, <2>7, CalmStep
<1> QED BY <1>4, <1>7, <1>9, <1>10

\* What EnsuredIsServed says of a step.
Served ==
    (~Resting /\ sync' = Idle /\ sync.want /\ ~sync.renewed) =>
        \A s \in {sync.o.s} :
            /\ rule'[KindOf(sync.o)][s] # FNil
            /\ rule'[KindOf(Flip(sync.o))][s] = FNil
            /\ ~sync.o.internal =>
                  /\ Address(s)' = sync.desired
                  /\ \/ sync.desired \in UserPip
                     \/ s \in pips'[sync.desired].tags
                     \/ ffaults > 0 /\ isUserAssignedPIP(getPublicIPAddress(sync.desired))

LEMMA ConfirmCalm ==
  ASSUME CalmInv, ffaults = 0, ffaults' = 0, ~Resting, ConfirmPublicIP PROVE Calm' /\ Served
<1> DEFINE o == sync.o
           p == sync.desired
<1>1. /\ FInv /\ BaseInv /\ FTypeOK /\ Calm /\ Compatible(fplan) /\ sync \in Sync /\ o \in Object
      /\ o.s \in FService /\ Running(sync) /\ Working(sync) /\ Fits(sync) /\ ObjectSound(o)
      /\ Called(sync, state) /\ Phase(sync, rule, pips) /\ RuleHome /\ TagsHome
      /\ sync.pc = "ensure" /\ Home(o.s) \in Pip /\ Home(o.s) # FNil
  BY CalmFacts, ConfirmIs
<1>2. sync.want /\ ~o.internal /\ p = Home(o.s) /\ o.ip = p
  BY <1>1 DEF Fits, Working, Placed
<1>3. rule["public"][o.s] # FNil /\ rule["internal"][o.s] = FNil
  BY <1>1, <1>2 DEF Phase, Placed, KindOf, OtherKind
<1>4. pips[p] # FNil /\ Found(p) /\ front[rule["public"][o.s]] = p
  BY <1>1, <1>2, <1>3, RuleBacked, ListsSound
<1> HIDE DEF p
<1>5. ~reconcileDNSSettingsError(o, p)
  <2> SUFFICES ASSUME reconcileDNSSettingsError(o, p) PROVE FALSE
    OBVIOUS
  <2> DEFINE r == getPublicIPAddress(p)
  <2>1. r # FNil /\ o.s \in fplan.dns /\ r.dns \notin {FNil, o.s}
    BY <1>4 DEF reconcileDNSSettingsError, Found
  <2>2. r \in Seen /\ Homed(p, r)
    BY <1>1, <1>2, <2>1, ListForTyped, ListsHomed DEF ListHomed
  <2>3. r.dns \in FService /\ r.dns \in fplan.dns /\ Home(r.dns) = Home(o.s)
    BY <1>2, <2>1, <2>2 DEF Homed, Seen
  <2> HIDE DEF r
  <2> QED BY <1>1, <2>1, <2>3, OneLabel
<1>6. /\ UNCHANGED <<fplan, wish, LbState, fedits>>
      /\ \/ Unchanging(o, p) /\ Finish
         \/ \E r \in Outcome : PipSent(o, p, r) /\ IF r = "done" THEN Finish ELSE Fail
  BY <1>4, <1>5, ConfirmIs DEF Exists, p
<1>7. /\ Finish /\ FrontsBacked(front, pips') /\ PipsMade(pips')
      /\ p \in FService => o.s \in pips'[p].tags
      /\ \A q \in Pip : pips[q] # FNil => pips'[q] # FNil /\ pips[q].tags \subseteq pips'[q].tags
      /\ \A q \in Pip, t \in FService \ {o.s} :
            (pips'[q] # FNil /\ t \in pips'[q].tags) => pips[q] # FNil /\ t \in pips[q].tags
      /\ \/ pipCache' = FNil
         \/ pipCache' = PipListFor(p) /\ pips' = pips
  <2>1. CASE Unchanging(o, p) /\ Finish
    <3>1. pips' = pips /\ pipCache' = PipListFor(p) /\ ~PipChanged(o, p)
      BY <2>1 DEF Unchanging
    <3>2. Bound(o, p).tags = getPublicIPAddress(p).tags
      BY <3>1 DEF PipChanged
    <3>3. p \in FService => o.s \in pips[p].tags
      BY <1>1, <1>2, <1>4, <3>2, BoundIs
    <3>4. FrontsBacked(front, pips) /\ PipsMade(pips)
      BY <1>1 DEF Calm
    <3> QED BY <2>1, <3>1, <3>3, <3>4
  <2>2. ASSUME NEW r \in Outcome, PipSent(o, p, r), IF r = "done" THEN Finish ELSE Fail
        PROVE  /\ Finish /\ FrontsBacked(front, pips') /\ PipsMade(pips') /\ o.s \in pips'[p].tags
               /\ \A q \in Pip : pips[q] # FNil => pips'[q] # FNil /\ pips[q].tags \subseteq pips'[q].tags
               /\ \A q \in Pip, t \in FService \ {o.s} :
                     (pips'[q] # FNil /\ t \in pips'[q].tags) => pips[q] # FNil /\ t \in pips[q].tags
               /\ pipCache' = FNil
    BY <1>1, <1>2, <1>4, <2>2, SentCalm
  <2> QED BY <1>6, <2>1, <2>2
<1>8. sync' = Idle /\ state' = state /\ rule' = rule /\ front' = front /\ inner' = inner
  BY <1>2, <1>6, <1>7 DEF Finish, LbState
<1>9. RulesTagged(rule', pips', sync')
  <2> SUFFICES ASSUME NEW t \in FService, rule["public"][t] # FNil, Home(t) \in FService
               PROVE  t \in pips'[Home(t)].tags
    BY <1>8 DEF RulesTagged
  <2>1. Home(t) \in Pip /\ pips[Home(t)] # FNil
    BY <1>1, RuleBacked
  <2>2. t \in pips[Home(t)].tags \/ t = o.s
    BY <1>1 DEF Calm, RulesTagged, Placing
  <2> QED BY <1>2, <1>7, <2>1, <2>2
<1>10. \A s \in FService : Inactive(s, state') => LetGo(s, rule', pips')
  <2>1. \A s \in FService : Inactive(s, state') => s # o.s
    BY <1>1, <1>8 DEF Inactive, Called
  <2> QED BY <1>1, <1>7, <1>8, <2>1 DEF Calm, LetGo
<1>11. pipCache' # FNil => ListSound(pipCache', pips', state', sync')
  <2> SUFFICES ASSUME pipCache' = PipListFor(p), pips' = pips PROVE ListSound(pipCache', pips', state', sync')
    BY <1>7
  <2>1. ListSound(PipListFor(p), pips, state, sync)
    BY <1>1, <1>2, ListsSound
  <2> QED BY <1>1, <1>2, <1>8, <2>1, ListStays
<1>12. LbCalm(CurrentLb')
  BY <1>1, <1>8 DEF Calm, CurrentLb
<1>13. Calm'
  BY <1>6, <1>7, <1>8, <1>9, <1>10, <1>11, <1>12, CalmStep DEF Running
<1>14. Served
  <2>1. KindOf(o) = "public" /\ KindOf(Flip(o)) = "internal"
    BY <1>1, <1>2, FlipKind DEF KindOf, OtherKind
  <2>2. ASSUME NEW s \in {o.s} PROVE Address(s)' = p
    BY <1>3, <1>4, <1>8, <2>2 DEF Address
  <2>3. p \in UserPip \/ o.s \in pips'[p].tags
    BY <1>1, <1>2, <1>7 DEF Pip
  <2> QED BY <1>3, <1>8, <2>1, <2>2, <2>3 DEF Served, p
<1> QED BY <1>13, <1>14

\* The load balancer after a step, for the services other than x.
LbKept(lb, x) == \A k \in Kind, t \in FService \ {x} : lb.rule[k][t] = rule[k][t]

LEMMA WithServiceCalm ==
  ASSUME CalmInv, ffaults = 0, ~Resting, sync.want, sync.pc = "put",
         WithService(sync.o) = CurrentLb \/ ~Refused(WithService(sync.o))
  PROVE  /\ LbCalm(WithService(sync.o)) /\ FrontsBacked(WithService(sync.o).front, pips)
         /\ LbKept(WithService(sync.o), sync.o.s)
         /\ WithService(sync.o).rule[KindOf(sync.o)][sync.o.s] # FNil
<1> DEFINE o == sync.o
           lb == WithService(o)
<1>1. /\ FInv /\ FTypeOK /\ Calm /\ sync \in Sync /\ o \in Object /\ o.s \in FService
      /\ Working(sync) /\ ObjectSound(o) /\ Phase(sync, rule, pips) /\ FrontHome /\ RuleHome
      /\ Home(o.s) \in Pip /\ Home(o.s) # FNil /\ o.internal \in BOOLEAN
  BY CalmFacts DEF Object
<1>2. o.ip \in UserPip \cup {FNil}
  BY <1>1 DEF Working
<1>3. /\ \A g \in FService : lb.front[g] # front[g] =>
                ~o.internal /\ g = o.s /\ front[g] = FNil /\ lb.front[g] = Home(o.s)
      /\ ~o.internal => lb.front[Chosen(o)] = Home(o.s)
  BY <1>1, <1>2, WithServiceFront
<1>4. /\ lb.rule[KindOf(o)][o.s] = Chosen(o)
      /\ \A k \in Kind, s \in FService : (k # KindOf(o) \/ s # o.s) => lb.rule[k][s] = rule[k][s]
  BY <1>1, RuleGiven
<1>5. Chosen(o) \in FService /\ Chosen(o) # FNil
  BY <1>1, FrontendsTyped, FNilAssumption DEF Pip
<1>6. LbCalm(CurrentLb)
  BY <1>1 DEF Calm
<1>7. \A f, g \in FService : (lb.front[f] = lb.front[g] /\ lb.front[f] # FNil) => f = g
  BY <1>6 DEF LbCalm, Refused
<1>8. lb.inner = IF o.internal THEN inner \cup {Chosen(o)} ELSE inner
  BY DEF WithService
<1>9. (o.internal \/ Own(o.s)) => Chosen(o) = o.s
  <2> SUFFICES ASSUME o.internal \/ Own(o.s) PROVE Chosen(o) = o.s
    OBVIOUS
  <2>1. ASSUME ~o.internal PROVE o.ip = FNil /\ o.name = FNil
    <3>1. Home(o.s) = o.s /\ o.name = FNil
      BY <1>1, <2>1 DEF ObjectSound
    <3>2. o.ip \notin UserPip
      BY <1>1, <3>1, FPipAssumption DEF ObjectSound, Pip
    <3> QED BY <1>2, <3>1, <3>2
  <2>2. FNil \notin Pip
    BY FNilAssumption
  <2>3. Owned(o) \subseteq {o.s}
    BY <2>1, <2>2 DEF Owned, serviceOwnsFrontendIP
  <2> QED BY <2>3 DEF Kept, Chosen
<1>10. KindOf(o) = (IF o.internal THEN "internal" ELSE "public") /\ Kind = {"public", "internal"}
  BY DEF KindOf, Kind
<1> HIDE DEF lb
<1>11. \A s \in FService : lb.rule["internal"][s] = IF s \in lb.inner THEN s ELSE FNil
  <2>1. \A s \in FService : rule["internal"][s] = IF s \in inner THEN s ELSE FNil
    BY <1>6 DEF LbCalm, CurrentLb
  <2> QED BY <1>1, <1>4, <1>8, <1>9, <1>10, <2>1
<1>12. \A s \in FService : Own(s) => lb.rule["public"][s] \in {FNil, s}
  <2>1. \A s \in FService : Own(s) => rule["public"][s] \in {FNil, s}
    BY <1>6 DEF LbCalm, CurrentLb
  <2> QED BY <1>1, <1>4, <1>9, <1>10, <2>1
<1>13. ASSUME NEW f \in FService, lb.front[f] # FNil
       PROVE  f \in fplan.pinned \/ \E t \in FService : lb.rule["public"][t] = f
  <2>1. CASE lb.front[f] # front[f]
    <3>1. ~o.internal /\ lb.front[f] = lb.front[Chosen(o)]
      BY <1>3, <2>1
    <3> QED BY <1>1, <1>4, <1>5, <1>7, <1>10, <1>13, <3>1
  <2>2. CASE lb.front[f] = front[f]
    <3>1. f \in fplan.pinned \/ \E t \in FService : rule["public"][t] = f
      BY <1>6, <1>13, <2>2 DEF LbCalm, CurrentLb
    <3>2. ASSUME NEW t \in FService, rule["public"][t] = f PROVE \E v \in FService : lb.rule["public"][v] = f
      <4>1. CASE t # o.s \/ o.internal
        BY <1>4, <1>10, <3>2, <4>1
      <4>2. CASE t = o.s /\ ~o.internal
        <5>1. f # FNil
          BY FNilAssumption DEF Pip
        <5>2. front[f] = Home(o.s)
          BY <1>1, <3>2, <4>2, <5>1 DEF RuleHome
        <5>3. f = Chosen(o)
          BY <1>3, <1>5, <1>7, <1>13, <2>2, <4>2, <5>2
        <5> QED BY <1>1, <1>4, <1>10, <4>2, <5>3
      <4> QED BY <1>1, <4>1, <4>2
    <3> QED BY <3>1, <3>2
  <2> QED BY <2>1, <2>2
<1>14. LbCalm(lb)
  BY <1>7, <1>11, <1>12, <1>13 DEF LbCalm
<1>15. FrontsBacked(lb.front, pips)
  <2> SUFFICES ASSUME NEW f \in FService, lb.front[f] # FNil PROVE pips[lb.front[f]] # FNil
    BY DEF FrontsBacked
  <2>1. CASE lb.front[f] = front[f]
    BY <1>1, <2>1 DEF Calm, FrontsBacked
  <2>2. CASE lb.front[f] # front[f]
    BY <1>1, <1>3, <2>2 DEF Phase
  <2> QED BY <2>1, <2>2
<1> QED BY <1>4, <1>5, <1>14, <1>15 DEF lb, LbKept

\* The frontend of a service's rule is among those its object owns.
LEMMA RuleOwned ==
  ASSUME FTypeOK, RuleHome, Calm, NEW o \in Object, ObjectSound(o), o.ip \in UserPip \cup {FNil}, ~o.internal,
         rule["public"][o.s] # FNil
  PROVE  rule["public"][o.s] \in Owned(o)
<1> DEFINE f == rule["public"][o.s]
<1>1. o.s \in FService
  BY DEF Object
<1>2. Home(o.s) \in Pip /\ pips[Home(o.s)] # FNil /\ front[f] = Home(o.s) /\ f \in FService
  BY <1>1, RuleBacked
<1>3. Home(o.s) # FNil /\ FNil \notin UserPip
  BY <1>2, FNilAssumption DEF Pip
<1>4. f \in Present(KindOf(o))
  BY <1>2, <1>3 DEF Present, KindOf
<1>5. CASE Own(o.s)
  <2>1. f = o.s
    BY <1>1, <1>5 DEF Calm, LbCalm, CurrentLb
  <2> QED BY <1>4, <2>1 DEF Owned, serviceOwnsFrontendIP
<1>6. CASE ~Own(o.s)
  <2>1. (IF o.ip # FNil THEN o.ip ELSE o.name) = Home(o.s)
    BY <1>3, <1>6 DEF ObjectSound, Pip
  <2>2. Found(Home(o.s))
    BY <1>2, ListsSound
  <2> QED BY <1>2, <1>4, <2>1, <2>2 DEF Owned, serviceOwnsFrontendIP
<1> QED BY <1>5, <1>6

LEMMA WithoutServiceCalm ==
  ASSUME FTypeOK, RuleHome, Calm, NEW o \in Object,
         (~o.internal /\ rule["public"][o.s] # FNil) => rule["public"][o.s] \in Owned(o)
  PROVE  /\ LbCalm(WithoutService(o)) /\ FrontsBacked(WithoutService(o).front, pips)
         /\ LbKept(WithoutService(o), o.s)
         /\ WithoutService(o).rule[KindOf(o)][o.s] = FNil
         /\ WithoutService(o).rule[OtherKind(o)][o.s] = rule[OtherKind(o)][o.s]
<1> DEFINE dropped == {f \in Owned(o) : ~isFrontendIPConfigUnsafeToDelete(o, f)}
           empty == Present(KindOf(o)) \subseteq dropped
           lb == WithoutService(o)
<1>1. /\ o.s \in FService /\ KindOf(o) \in Kind /\ rule \in [Kind -> [FService -> FService \cup {FNil}]]
      /\ o.internal \in BOOLEAN /\ inner \subseteq FService
  BY FrontendsTyped DEF Object, FTypeOK
<1>2. /\ lb.front = (IF o.internal THEN front
                     ELSE [f \in FService |-> IF f \in dropped THEN FNil ELSE front[f]])
      /\ lb.inner = (IF o.internal THEN inner \ dropped ELSE inner)
      /\ lb.rule = [rule EXCEPT ![KindOf(o)] = [s \in FService |->
                        IF s = o.s \/ empty THEN FNil ELSE rule[KindOf(o)][s]]]
  BY DEF WithoutService
<1>3. /\ \A f, g \in FService : (front[f] = front[g] /\ front[f] # FNil) => f = g
      /\ \A s \in FService : rule["internal"][s] = IF s \in inner THEN s ELSE FNil
      /\ \A s \in FService : Own(s) => rule["public"][s] \in {FNil, s}
      /\ \A f \in FService : front[f] # FNil => f \in fplan.pinned \/ \E t \in FService : rule["public"][t] = f
  BY DEF Calm, LbCalm, CurrentLb
<1>4. /\ \A t \in FService \ {o.s} :
                /\ lb.rule["public"][t] = rule["public"][t]
                /\ rule["public"][t] # FNil => lb.front[rule["public"][t]] = front[rule["public"][t]]
      /\ \A f \in FService : lb.front[f] \in {front[f], FNil}
      /\ o.internal => lb.front = front /\ lb.rule["public"] = rule["public"]
  BY WithoutServiceRules
<1>5. /\ \A f, g \in FService : (lb.front[f] = lb.front[g] /\ lb.front[f] # FNil) => f = g
      /\ FrontsBacked(lb.front, pips)
  <2> HIDE DEF lb
  <2>1. \A f \in FService : lb.front[f] # FNil => lb.front[f] = front[f]
    BY <1>4
  <2> QED BY <1>3, <2>1 DEF Calm, FrontsBacked
<1>6. CASE o.internal
  <2>1. KindOf(o) = "internal" /\ OtherKind(o) = "public" /\ Kind = {"public", "internal"}
    BY <1>6 DEF KindOf, Kind, OtherKind
  <2>2. \A f \in FService : f \in dropped <=> f = o.s /\ o.s \in inner
    <3>1. \A f \in FService : f \in Owned(o) <=> f = o.s /\ o.s \in inner
      BY <1>6, <2>1 DEF Owned, Present, serviceOwnsFrontendIP
    <3>2. ~isFrontendIPConfigUnsafeToDelete(o, o.s)
      BY <1>1, <1>3, <1>6, <2>1, FNilAssumption DEF isFrontendIPConfigUnsafeToDelete, Pip
    <3> QED BY <3>1, <3>2
  <2>3. empty => inner \subseteq {o.s}
    BY <1>1, <2>1, <2>2 DEF Present
  <2> HIDE DEF dropped, empty, lb
  <2>4. \A s \in FService : lb.rule["internal"][s] = IF s = o.s \/ empty THEN FNil ELSE rule["internal"][s]
    BY <1>1, <1>2, <2>1
  <2>5. \A t \in FService \ {o.s} : lb.rule["internal"][t] = rule["internal"][t]
    BY <1>3, <2>3, <2>4
  <2>6. lb.inner = inner \ {o.s}
    BY <1>1, <1>2, <1>6, <2>2
  <2>7. \A s \in FService : lb.rule["internal"][s] = IF s \in lb.inner THEN s ELSE FNil
    BY <1>3, <2>4, <2>5, <2>6
  <2>8. LbCalm(lb)
    BY <1>3, <1>4, <1>6, <2>7 DEF LbCalm
  <2> QED BY <1>1, <1>4, <1>5, <1>6, <2>1, <2>4, <2>5, <2>8 DEF lb, LbKept
<1>7. CASE ~o.internal
  <2>1. KindOf(o) = "public" /\ OtherKind(o) = "internal" /\ Kind = {"public", "internal"}
    BY <1>7 DEF KindOf, Kind, OtherKind
  <2>2. lb.rule["internal"] = rule["internal"] /\ lb.inner = inner
    BY <1>1, <1>2, <1>7, <2>1
  <2>3. \A s \in FService : lb.rule["public"][s] = IF s = o.s \/ empty THEN FNil ELSE rule["public"][s]
    <3> HIDE DEF dropped, empty, lb
    <3> QED BY <1>1, <1>2, <2>1
  <2>4. lb.rule["public"][o.s] = FNil
    BY <1>1, <2>3
  <2>5. \A f \in FService : lb.front[f] = IF f \in dropped THEN FNil ELSE front[f]
    <3> HIDE DEF dropped, empty, lb
    <3> QED BY <1>2, <1>7
  <2>6. ASSUME NEW f \in FService, lb.front[f] # FNil
        PROVE  f \in fplan.pinned \/ \E t \in FService : lb.rule["public"][t] = f
    <3>1. f \notin dropped /\ front[f] # FNil
      BY <2>5, <2>6
    <3>2. f \in fplan.pinned \/ \E t \in FService : rule["public"][t] = f
      BY <1>3, <3>1
    <3>3. CASE rule["public"][o.s] = f
      <4>1. f \in Owned(o)
        BY <1>7, <3>3, FNilAssumption DEF Pip
      <4>2. isFrontendIPConfigUnsafeToDelete(o, f)
        BY <3>1, <4>1
      <4>3. f \in fplan.pinned \/ \E t \in FService \ {o.s} : rule["public"][t] = f
        BY <2>1, <4>2 DEF isFrontendIPConfigUnsafeToDelete
      <4> QED BY <1>4, <4>3
    <3>4. CASE rule["public"][o.s] # f
      BY <1>4, <3>2, <3>4
    <3> QED BY <3>3, <3>4
  <2> HIDE DEF dropped, empty, lb
  <2>7. \A s \in FService : Own(s) => lb.rule["public"][s] \in {FNil, s}
    BY <1>3, <1>4, <2>4
  <2>8. LbCalm(lb)
    BY <1>3, <1>5, <2>2, <2>6, <2>7 DEF LbCalm
  <2>9. LbKept(lb, o.s)
    BY <1>4, <2>1, <2>2 DEF LbKept
  <2> QED BY <1>5, <2>1, <2>2, <2>4, <2>8, <2>9 DEF lb
<1> QED BY <1>1, <1>6, <1>7

\* A step that writes the load balancer.
LEMMA LbCalmStep ==
  ASSUME CalmInv, ffaults = 0, ~Resting, UNCHANGED <<fplan, pips, state>>, pipCache' = listPIP,
         sync.pc \in {"put", "flip"}, sync'.o.s = sync.o.s, sync'.want = sync.want, Running(sync'),
         NEW lb, front' = lb.front, inner' = lb.inner, rule' = lb.rule,
         LbCalm(lb), FrontsBacked(lb.front, pips), LbKept(lb, sync.o.s), Phase(sync', rule', pips'),
         \/ Placing(sync.o.s, sync')
         \/ lb.rule["public"][sync.o.s] = FNil
         \/ lb.rule["public"][sync.o.s] = rule["public"][sync.o.s] /\ ~sync.want
  PROVE  Calm'
<1> DEFINE x == sync.o.s
<1>1. FTypeOK /\ Calm /\ x \in FService /\ Running(sync) /\ Called(sync, state) /\ sync \in Sync
  BY CalmFacts
<1>2. LbCalm(CurrentLb') /\ FrontsBacked(front', pips') /\ PipsMade(pips')
  BY <1>1 DEF Calm, CurrentLb, LbCalm
<1>3. "public" \in Kind /\ "internal" \in Kind
  BY DEF Kind
<1>4. RulesTagged(rule', pips', sync')
  <2> SUFFICES ASSUME NEW t \in FService, lb.rule["public"][t] # FNil, Home(t) \in FService
               PROVE  t \in pips[Home(t)].tags \/ Placing(t, sync')
    BY DEF RulesTagged
  <2>1. CASE t # x
    <3>1. rule["public"][t] # FNil /\ ~Placing(t, sync)
      BY <1>3, <2>1 DEF LbKept, Placing
    <3> QED BY <1>1, <3>1 DEF Calm, RulesTagged
  <2>2. CASE t = x
    <3>1. CASE rule["public"][x] # FNil /\ ~sync.want
      BY <1>1, <2>2, <3>1 DEF Calm, RulesTagged, Placing
    <3> QED BY <2>2, <3>1
  <2> QED BY <2>1, <2>2
<1>5. \A s \in FService : Inactive(s, state') => LetGo(s, rule', pips')
  <2>1. \A s \in FService : Inactive(s, state') => s # x
    BY <1>1 DEF Inactive, Called
  <2> QED BY <1>1, <1>3, <2>1 DEF Calm, LetGo, LbKept
<1>6. ListSound(pipCache', pips', state', sync')
  BY <1>1, ListsSound, ListStays
<1> QED BY <1>2, <1>4, <1>5, <1>6, CalmStep

LEMMA PutCalm == ASSUME CalmInv, ffaults = 0, ffaults' = 0, ~Resting, ReconcileLoadBalancer PROVE Calm'
<1> DEFINE o == sync.o
<1>1. /\ FInv /\ FTypeOK /\ Calm /\ sync \in Sync /\ o \in Object /\ o.s \in FService /\ Running(sync)
      /\ Working(sync) /\ ObjectSound(o) /\ Called(sync, state) /\ Phase(sync, rule, pips) /\ RuleHome
      /\ sync.pc = "put" /\ sync.want \in BOOLEAN /\ o.internal \in BOOLEAN
  BY CalmFacts, PutIs DEF Sync, Object
<1>2. pipCache' = listPIP /\ UNCHANGED <<fplan, wish, pips, fedits>>
  BY PutIs
<1>3. o.ip \in UserPip \cup {FNil}
  BY <1>1 DEF Working
<1>4. \/ Fail /\ UNCHANGED LbState
      \/ LbSent(TargetLb, "done") /\ sync' = Carried(TargetLb) /\ state' = state
  <2>1. ASSUME NEW r \in Outcome \cup {"refused"}, LbSent(TargetLb, r) PROVE r \in {"refused", "done"}
    BY <2>1, CountDone DEF LbSent
  <2>2. ASSUME LbSent(TargetLb, "refused") PROVE UNCHANGED LbState
    BY <2>2 DEF LbSent
  <2> QED BY <2>1, <2>2, PutIs
<1>5. CASE Fail /\ UNCHANGED LbState
  <2>1. sync' = Failed /\ state' = state
    BY <1>5 DEF Fail
  <2>2. ListSound(pipCache', pips', state', sync')
    BY <1>1, <1>2, <2>1, ListsSound, ListStays
  <2>3. \A t \in FService : ~Placing(t, sync)
    BY <1>1 DEF Placing, Placed
  <2> QED BY <1>2, <1>5, <2>1, <2>2, <2>3, CalmQuiet DEF Running
<1>6. CASE LbSent(TargetLb, "done") /\ sync' = Carried(TargetLb) /\ state' = state
  <2> DEFINE lb == TargetLb
             y == Carried(lb)
  <2>1. lb \in Lbs
    BY <1>1, WithServiceTyped, WithoutServiceTyped DEF TargetLb
  <2>2. (sync.want /\ ~o.internal) => lb.rule["public"][o.s] \in FService
    BY <1>1, RuleGiven, FrontendsTyped DEF TargetLb, KindOf
  <2>3. /\ y \in Sync /\ y.pc = "flip" /\ y.want = sync.want /\ y.failed = sync.failed
        /\ y.updates = sync.updates /\ y.drops = sync.drops
        /\ y.o.s = o.s /\ y.o.internal = o.internal
    BY <1>1, <2>1, <2>2, CarriedIs
  <2>4. front' = lb.front /\ inner' = lb.inner /\ rule' = lb.rule /\ (lb = CurrentLb \/ ~Refused(lb))
    BY <1>6 DEF LbSent
  <2>5. /\ LbCalm(lb) /\ FrontsBacked(lb.front, pips) /\ LbKept(lb, o.s)
        /\ sync.want <=> lb.rule[KindOf(o)][o.s] # FNil
        /\ ~sync.want => lb.rule[OtherKind(o)][o.s] = rule[OtherKind(o)][o.s]
    <3>1. CASE sync.want
      <4>1. lb = WithService(o)
        BY <3>1 DEF TargetLb
      <4> QED BY <1>1, <2>4, <3>1, <4>1, WithServiceCalm
    <3>2. CASE ~sync.want
      <4>1. lb = WithoutService(o)
        BY <3>2 DEF TargetLb
      <4>2. (~o.internal /\ rule["public"][o.s] # FNil) => rule["public"][o.s] \in Owned(o)
        BY <1>1, <1>3, RuleOwned
      <4> QED BY <1>1, <3>2, <4>1, <4>2, WithoutServiceCalm
    <3> QED BY <3>1, <3>2
  <2>6. KindOf(y.o) = KindOf(o)
    BY <2>3 DEF KindOf
  <2>7. sync' = y
    BY <1>6
  <2> HIDE DEF y, lb
  <2>8. Running(sync')
    BY <2>3, <2>7, RestingIs DEF Running
  <2>9. Phase(sync', rule', pips')
    BY <1>1, <1>2, <2>3, <2>4, <2>5, <2>6, <2>7 DEF Phase, Placed, Ending
  <2>10. \/ Placing(o.s, sync')
         \/ lb.rule["public"][o.s] = FNil
         \/ lb.rule["public"][o.s] = rule["public"][o.s] /\ ~sync.want
    BY <1>1, <2>3, <2>5, <2>7, <2>8 DEF Placing, Placed, KindOf, OtherKind
  <2> QED BY <1>1, <1>2, <1>6, <2>3, <2>4, <2>5, <2>7, <2>8, <2>9, <2>10, LbCalmStep
<1> QED BY <1>4, <1>5, <1>6

LEMMA FlipCalm == ASSUME CalmInv, ffaults = 0, ffaults' = 0, ~Resting, ReconcileFlipped PROVE Calm'
<1> DEFINE o == sync.o
           g == Flip(o)
           lb == WithoutService(g)
<1>1. /\ FInv /\ FTypeOK /\ Calm /\ sync \in Sync /\ o \in Object /\ o.s \in FService /\ Running(sync)
      /\ Working(sync) /\ ObjectSound(o) /\ Called(sync, state) /\ Phase(sync, rule, pips) /\ RuleHome
      /\ sync.pc = "flip" /\ sync.want \in BOOLEAN /\ o.internal \in BOOLEAN
  BY CalmFacts, FlipIs DEF Sync, Object
<1>2. pipCache' = listPIP /\ UNCHANGED <<fplan, wish, pips, fedits>>
  BY FlipIs
<1>3. /\ g \in Object /\ g.s = o.s /\ g.internal = ~o.internal
      /\ KindOf(g) = OtherKind(o) /\ OtherKind(g) = KindOf(o)
  BY <1>1, FrontendsTyped, FlipKind DEF OtherKind, KindOf
<1>4. (~g.internal /\ rule["public"][g.s] # FNil) => rule["public"][g.s] \in Owned(g)
  <2> SUFFICES ASSUME o.internal, rule["public"][o.s] # FNil PROVE rule["public"][o.s] \in Owned(g)
    BY <1>1, <1>3
  <2>1. Own(o.s)
    BY <1>1 DEF ObjectSound, Pip
  <2>2. rule["public"][o.s] = o.s
    BY <1>1, <2>1 DEF Calm, LbCalm, CurrentLb
  <2>3. front[o.s] # FNil
    BY <1>1, <2>2 DEF RuleHome
  <2> QED BY <1>1, <1>3, <2>2, <2>3 DEF Owned, Present, serviceOwnsFrontendIP, OtherKind
<1>5. /\ LbCalm(lb) /\ FrontsBacked(lb.front, pips) /\ LbKept(lb, o.s)
      /\ lb.rule[OtherKind(o)][o.s] = FNil
      /\ lb.rule[KindOf(o)][o.s] = rule[KindOf(o)][o.s]
  BY <1>1, <1>3, <1>4, WithoutServiceCalm
<1>6. ~Refused(lb)
  BY <1>5 DEF LbCalm, Refused
<1>7. LbSent(lb, "done") /\ Goto("list") /\ state' = state
  <2>1. ASSUME NEW r \in Outcome \cup {"refused"}, LbSent(lb, r) PROVE r = "done"
    BY <1>6, <2>1, CountDone DEF LbSent
  <2> QED BY <2>1, FlipIs
<1>8. front' = lb.front /\ inner' = lb.inner /\ rule' = lb.rule
  BY <1>7 DEF LbSent
<1>9. /\ sync' \in Sync /\ sync'.pc = "list" /\ sync'.o = sync.o /\ sync'.want = sync.want
      /\ sync'.failed = sync.failed /\ sync'.updates = sync.updates /\ sync'.drops = sync.drops
  BY <1>1, <1>7, MoveTyped DEF FPc
<1> HIDE DEF lb, g
<1>10. Running(sync')
  BY <1>9, RestingIs DEF Running
<1>11. Phase(sync', rule', pips')
  BY <1>1, <1>2, <1>5, <1>8, <1>9 DEF Phase, Placed, Ending
<1>12. \/ Placing(o.s, sync')
       \/ lb.rule["public"][o.s] = FNil
       \/ lb.rule["public"][o.s] = rule["public"][o.s] /\ ~sync.want
  BY <1>1, <1>5, <1>9, <1>10 DEF Placing, Placed, KindOf, OtherKind
<1> QED BY <1>1, <1>2, <1>5, <1>7, <1>8, <1>9, <1>10, <1>11, <1>12, LbCalmStep

\* The rules of the service once the load balancers are written.
LEMMA PlacedRules ==
  ASSUME CalmInv, ffaults = 0, ~Resting, sync.pc \in Placed \ {"flip"}
  PROVE  /\ rule["public"][sync.o.s] # FNil <=> sync.want /\ ~sync.o.internal
         /\ rule["internal"][sync.o.s] # FNil <=> sync.want /\ sync.o.internal
  BY CalmFacts DEF Phase, KindOf, OtherKind, Sync, Object

LEMMA LastTag ==
  ASSUME NEW T \in SUBSET FService, NEW x \in T, Cardinality(T) <= 1 PROVE T = {x}
<1>1. IsFiniteSet(T) /\ Cardinality(T) \in Nat
  BY FPlansAssumption, FS_Subset, FS_CardinalityType
<1>2. IsFiniteSet(T \ {x}) /\ Cardinality(T \ {x}) = Cardinality(T) - 1
  BY <1>1, FS_RemoveElement
<1>3. Cardinality(T \ {x}) \in Nat
  BY <1>2, FS_CardinalityType
<1>4. Cardinality(T \ {x}) = 0
  BY <1>1, <1>2, <1>3
<1>5. T \ {x} = {}
  BY <1>2, <1>4, FS_EmptySet
<1> QED BY <1>5

\* The listed tags of the public IPs that the operation may change are those in Azure.
LEMMA ManagedTags ==
  ASSUME CalmInv, ffaults = 0, ~Resting, sync.pc = "list", NEW p \in ManagedPips
  PROVE  /\ p \in FService /\ p \in Pip /\ p = Home(sync.o.s) /\ pips[p] # FNil
         /\ listPIP[p].tags = pips[p].tags /\ pips[p].tags # {} /\ pips[p].tags \subseteq FService
<1> DEFINE o == sync.o
<1>1. /\ BaseInv /\ FTypeOK /\ Calm /\ Compatible(fplan) /\ sync \in Sync /\ o \in Object /\ o.s \in FService
      /\ ObjectSound(o) /\ TagsHome /\ Home(o.s) # FNil
  BY CalmFacts
<1>2. p \in Pip /\ p \in FService
  BY <1>1, OwnedTyped DEF Pip
<1>3. p \in OwnedPips(o) /\ listPIP[p].tags # {}
  BY DEF ManagedPips, isUserAssignedPIP
<1>4. p = Home(o.s) /\ listPIP[p] # FNil /\ Homed(p, listPIP[p])
  BY <1>1, <1>3, OwnedIsHome
<1>5. pips[p] # FNil
  BY <1>1, <1>2, <1>4, ListsSound
<1>6. Home(p) = p /\ pips[p].tags # {} /\ Homed(p, pips[p])
  BY <1>1, <1>2, <1>5 DEF Calm, PipsMade, TagsHome, ListHomed
<1>7. pips[p].tags \subseteq FService /\ listPIP[p].tags \subseteq FService
  <2>1. pips[p] \in Tagged
    BY <1>1, <1>2, <1>5 DEF FTypeOK
  <2>2. listPIP[p] \in Seen
    BY <1>1, <1>2, <1>4, ListTyped
  <2> QED BY <2>1, <2>2 DEF Tagged, Seen
<1>8. listPIP[p].tags = pips[p].tags \/ Lone(p, state, sync)
  <2>1. ~Pending(p, sync)
    BY DEF Pending, Ending
  <2> QED BY <1>1, <1>2, <1>4, <2>1, ListsSound DEF ListSound
<1>9. CASE Lone(p, state, sync)
  <2>1. p \in fplan.pinned
    BY <1>9 DEF Lone
  <2>2. \A t \in FService : Home(t) = p => t = p
    BY <1>1, <1>2, <1>4, <1>6, <2>1, PinnedAlone
  <2>3. listPIP[p].tags = {p} /\ pips[p].tags = {p}
    BY <1>3, <1>4, <1>6, <1>7, <2>2 DEF Homed
  <2> QED BY <1>2, <1>4, <1>5, <1>7, <2>3
<1> QED BY <1>2, <1>4, <1>5, <1>6, <1>7, <1>8, <1>9

LEMMA NotMissing == ASSUME CalmInv, ffaults = 0, ~Resting, sync.pc = "list" PROVE ~MissingIP
<1> DEFINE o == sync.o
<1> SUFFICES ASSUME sync.want, ~o.internal PROVE ~MissingIP
  BY DEF MissingIP
<1>1. /\ FTypeOK /\ Calm /\ o \in Object /\ o.s \in FService /\ Fits(sync) /\ ObjectSound(o) /\ RuleHome
      /\ Home(o.s) \in Pip /\ Home(o.s) # FNil
  BY CalmFacts
<1>2. rule["public"][o.s] # FNil
  BY PlacedRules DEF Placed
<1>3. pips[Home(o.s)] # FNil
  BY <1>1, <1>2, RuleBacked
<1>4. Found(Home(o.s)) /\ listPIP[Home(o.s)] # FNil
  BY <1>1, <1>3, ListsSound
<1>5. o.ip = Home(o.s) /\ (o.name # FNil => o.name = Home(o.s))
  BY <1>1 DEF Fits, Placed, ObjectSound
<1>6. DesiredIP = Home(o.s)
  BY <1>1, <1>4, <1>5 DEF DesiredIP, determinePublicIPName
<1> QED BY <1>1, <1>4, <1>5, <1>6 DEF MissingIP

LEMMA ListCalm == ASSUME CalmInv, ffaults = 0, ~Resting, getPublicIPUpdates PROVE Calm'
<1> DEFINE o == sync.o
<1>1. /\ SteadyInv /\ FInv /\ BaseInv /\ FTypeOK /\ Calm /\ Compatible(fplan) /\ sync \in Sync /\ o \in Object
      /\ o.s \in FService /\ Running(sync) /\ Fits(sync) /\ ObjectSound(o) /\ Called(sync, state)
      /\ Phase(sync, rule, pips) /\ TagsHome /\ sync.pc = "list" /\ Home(o.s) # FNil /\ sync.want \in BOOLEAN
  BY CalmFacts, ListIs DEF Sync
<1>2. ~MissingIP
  BY <1>1, NotMissing
<1>3. /\ sync' = Listed /\ UNCHANGED <<fplan, pips, LbState, state>> /\ rule' = rule
      /\ \A p \in Pip : pipCache'[p] = IF p \in ManagedPips /\ ~sync.want THEN UnboundSeen(p) ELSE listPIP[p]
  BY <1>2, ListIs DEF LbState
<1>4. /\ Listed \in Sync /\ Listed.pc = "update" /\ Listed.o = o /\ Listed.want = sync.want
      /\ Listed.failed = sync.failed
      /\ Listed.updates = {<<p, UnboundAt(p)>> : p \in UpdatedPips}
      /\ Listed.drops = {<<p, listPIP[p].config>> : p \in DroppedPips}
  BY <1>1, ListedIs
<1>5. UpdatedPips \subseteq ManagedPips /\ DroppedPips \subseteq ManagedPips
      /\ \A p \in ManagedPips : UnboundSeen(p) \in Seen
  BY <1>1, OwnedTyped
<1>6. \A p \in ManagedPips :
          /\ p \in FService /\ p = Home(o.s) /\ pips[p] # FNil /\ p \in Pip
          /\ listPIP[p].tags = pips[p].tags /\ pips[p].tags # {} /\ pips[p].tags \subseteq FService
  BY <1>1, ManagedTags
<1>7. Running(Listed)
  BY <1>4, RestingIs DEF Running
<1>8. ASSUME NEW p \in UpdatedPips
      PROVE  UnboundAt(p).tags = pips[p].tags \ {o.s} /\ UnboundAt(p).tags # {}
  <2>1. ~sync.want /\ p \in ManagedPips /\ p \notin DroppedPips
    BY <1>5 DEF UpdatedPips
  <2>2. UnboundAt(p).tags = pips[p].tags \ {o.s}
    BY <1>6, <2>1 DEF UnboundAt, Unbound
  <2>3. p \in OwnedPips(o) /\ ~isUserAssignedPIP(listPIP[p])
    BY <2>1 DEF ManagedPips
  <2>4. UnboundAt(p).tags # {}
    BY <2>1, <2>3 DEF DroppedPips, shouldReleaseExistingOwnedPublicIP, UnboundAt
  <2> QED BY <2>2, <2>4
<1>9. ASSUME NEW p \in DroppedPips PROVE pips[p].tags = {o.s}
  <2>1. p \in ManagedPips /\ p \in OwnedPips(o)
    BY <1>5 DEF DroppedPips
  <2>2. p \in FService /\ p = Home(o.s) /\ pips[p] # FNil /\ p \in Pip
        /\ listPIP[p].tags = pips[p].tags /\ pips[p].tags # {} /\ pips[p].tags \subseteq FService
    BY <1>6, <2>1
  <2>3. shouldReleaseExistingOwnedPublicIP(o, sync.want, p, listPIP[p], DesiredIP)
    BY DEF DroppedPips
  <2>4. CASE ~sync.want
    <3>1. pips[p].tags \ {o.s} = {}
      BY <2>2, <2>3, <2>4 DEF shouldReleaseExistingOwnedPublicIP, Unbound
    <3> QED BY <2>2, <3>1
  <2>5. CASE sync.want
    <3>1. o.internal
      BY <1>1, <1>2, <2>5, DesiredIsHome
    <3>2. p # FNil
      BY <2>2, FNilAssumption
    <3>3. ~isServiceSelectPIP(o, p)
      BY <1>1, <2>2, <3>1, <3>2 DEF isServiceSelectPIP, ObjectSound
    <3>4. o.s \in pips[p].tags
      BY <2>1, <2>2, <3>3 DEF OwnedPips, serviceOwnsPublicIP
    <3>5. Cardinality(pips[p].tags) <= 1
      BY <2>2, <2>3, <2>5 DEF shouldReleaseExistingOwnedPublicIP
    <3> QED BY <2>2, <3>4, <3>5, LastTag
  <2> QED BY <1>1, <2>4, <2>5
<1>10. \A p \in ManagedPips : ~sync.want => Pending(p, Listed)
  <2> SUFFICES ASSUME NEW p \in ManagedPips, ~sync.want PROVE Pending(p, Listed)
    OBVIOUS
  <2>1. Ending(Listed)
    BY <1>4, <1>7 DEF Ending
  <2>2. CASE p \in DroppedPips
    <3> DEFINE d == <<p, listPIP[p].config>>
    <3>1. d \in Listed.drops /\ d[1] = p
      BY <1>4, <2>2
    <3> QED BY <2>1, <3>1 DEF Pending
  <2>3. CASE p \notin DroppedPips
    <3> DEFINE u == <<p, UnboundAt(p)>>
    <3>1. u \in Listed.updates /\ u[1] = p
      BY <1>4, <2>3 DEF UpdatedPips
    <3> QED BY <2>1, <3>1 DEF Pending
  <2> QED BY <2>2, <2>3
<1>11. ListSound(pipCache', pips', state', sync')
  <2>1. ListSound(listPIP, pips, state, sync) /\ \A p : ~Pending(p, sync)
    BY <1>1, ListsSound DEF Pending, Ending
  <2>2. \A p : Lone(p, state, sync) => Lone(p, state', sync')
    BY <1>1, <1>3, <1>4, LoneStays
  <2> SUFFICES ASSUME NEW p \in Pip
               PROVE  /\ pipCache'[p] = FNil <=> pips[p] = FNil
                      /\ pipCache'[p] # FNil =>
                            pipCache'[p].tags = pips[p].tags \/ Pending(p, sync') \/ Lone(p, state', sync')
    BY <1>3 DEF ListSound
  <2>3. CASE p \in ManagedPips /\ ~sync.want
    <3>1. pipCache'[p] # FNil /\ pips[p] # FNil
      BY <1>3, <1>5, <1>6, <2>3, FNilAssumption
    <3> QED BY <1>3, <1>10, <2>3, <3>1
  <2>4. CASE ~(p \in ManagedPips /\ ~sync.want)
    <3>1. pipCache'[p] = listPIP[p]
      BY <1>3, <2>4
    <3> QED BY <2>1, <2>2, <3>1 DEF ListSound
  <2> QED BY <2>3, <2>4
<1>12. \A u \in Listed.updates : /\ u[1] \in FService /\ pips[u[1]] # FNil
                                 /\ u[2].tags = pips[u[1]].tags \ {o.s} /\ u[2].tags # {}
  BY <1>4, <1>5, <1>6, <1>8
<1>13. \A d \in Listed.drops : /\ d[1] \in FService /\ pips[d[1]] # FNil /\ pips[d[1]].tags = {o.s}
                               /\ \A e \in Listed.drops : d = e
  BY <1>4, <1>5, <1>6, <1>9
<1>14. (Ending(Listed) /\ o.s \notin fplan.pinned) =>
           \A p \in Pip : (pips[p] # FNil /\ o.s \in pips[p].tags) => Pending(p, Listed)
  <2> SUFFICES ASSUME Ending(Listed), o.s \notin fplan.pinned, NEW p \in Pip, pips[p] # FNil, o.s \in pips[p].tags
               PROVE  Pending(p, Listed)
    OBVIOUS
  <2>1. Home(o.s) = p /\ ~sync.want /\ listPIP[p] # FNil
    BY <1>1, <1>4, ListsSound DEF TagsHome, ListHomed, Homed, Ending
  <2>2. ~Lone(p, state, sync)
    <3> SUFFICES ASSUME Lone(p, state, sync) PROVE FALSE
      OBVIOUS
    <3>1. p \in FService /\ p \in fplan.pinned
      BY DEF Lone
    <3>2. Home(p) = p
      BY <1>1, <3>1 DEF Calm, PipsMade
    <3>3. p = o.s
      BY <1>1, <2>1, <3>1, <3>2, PinnedAlone
    <3> QED BY <3>1, <3>3
  <2>3. listPIP[p].tags = pips[p].tags
    BY <1>1, <2>1, <2>2, ListsSound DEF ListSound, Pending, Ending
  <2>4. p \in ManagedPips
    BY <2>1, <2>3 DEF ManagedPips, OwnedPips, serviceOwnsPublicIP, isUserAssignedPIP
  <2> QED BY <1>10, <2>1, <2>4
<1>15. Phase(Listed, rule, pips)
  BY <1>1, <1>4, <1>12, <1>13, <1>14 DEF Phase, Placed
<1>16. \A t \in FService : Placing(t, sync) => Placing(t, sync')
  BY <1>3, <1>4, <1>7 DEF Placing, Placed
<1>17. Phase(sync', rule', pips')
  BY <1>3, <1>15
<1> QED BY <1>3, <1>11, <1>16, <1>17, CalmQuiet

LEMMA UpdateCalm == ASSUME CalmInv, ffaults = 0, ffaults' = 0, ~Resting, CreateOrUpdatePIP PROVE Calm'
<1> DEFINE o == sync.o
<1>1. /\ FInv /\ FTypeOK /\ Calm /\ sync \in Sync /\ o \in Object /\ o.s \in FService /\ Running(sync)
      /\ Fits(sync) /\ Called(sync, state) /\ Phase(sync, rule, pips) /\ TagsHome
  BY CalmFacts
<1>2. sync.pc = "update" /\ UNCHANGED <<fplan, wish, LbState, fedits>> /\ rule' = rule /\ front' = front /\ inner' = inner
  BY <1>1, UpdateIs DEF LbState
<1>3. sync.failed = FALSE /\ sync.want \in BOOLEAN
  BY <1>1 DEF Phase, Sync
<1>4. CASE sync.updates = {} /\ UNCHANGED <<pips, pipCache, ffaults>> /\ NextStage({}, FALSE, "release")
  <2>1. /\ UNCHANGED <<fdirty, state>>
        /\ sync' \in Sync /\ sync'.pc = "release" /\ sync'.o = sync.o /\ sync'.want = sync.want
        /\ sync'.failed = FALSE /\ sync'.updates = {} /\ sync'.drops = sync.drops
    BY <1>1, <1>2, <1>4, StageIs
  <2>2. Running(sync')
    BY <2>1, RestingIs DEF Running
  <2>3. \A p : (Pending(p, sync) <=> Pending(p, sync')) /\ (Ending(sync) <=> Ending(sync'))
    BY <1>1, <1>2, <1>4, <2>1, <2>2 DEF Pending, Ending
  <2>4. \A p : Lone(p, state, sync) => Lone(p, state', sync')
    BY <1>1, <2>1, LoneStays
  <2>5. pipCache' # FNil => ListSound(pipCache', pips', state', sync')
    BY <1>1, <1>4, <2>3, <2>4 DEF Calm, ListSound
  <2>6. Phase(sync', rule', pips')
    BY <1>1, <1>2, <1>4, <2>1, <2>3 DEF Phase, Placed
  <2>7. \A t \in FService : Placing(t, sync) => Placing(t, sync')
    BY <2>1, <2>2 DEF Placing, Placed
  <2> QED BY <1>2, <1>4, <2>1, <2>5, <2>6, <2>7, CalmQuiet
<1>5. ASSUME NEW u \in sync.updates, NEW r \in Outcome,
             pips' = (IF r = "lost" THEN pips ELSE [pips EXCEPT ![u[1]] = u[2]]),
             pipCache' = (IF r = "done" THEN FNil ELSE pipCache),
             NextStage(sync.updates \ {u}, sync.failed \/ r # "done", "release"), Count(r)
      PROVE  Calm'
  <2> DEFINE left == sync.updates \ {u}
             p == u[1]
  <2>1. r = "done"
    BY <1>5, CountDone
  <2>2. pips' = [pips EXCEPT ![p] = u[2]] /\ pipCache' = FNil /\ NextStage(left, FALSE, "release")
    BY <1>3, <1>5, <2>1
  <2>3. left \subseteq sync.updates
    OBVIOUS
  <2>4. /\ UNCHANGED <<fdirty, state>>
        /\ sync' \in Sync /\ sync'.pc = (IF left = {} THEN "release" ELSE "update") /\ sync'.o = sync.o
        /\ sync'.want = sync.want
        /\ sync'.failed = FALSE /\ sync'.updates = left /\ sync'.drops = sync.drops
    <3> HIDE DEF left
    <3> QED BY <1>1, <1>2, <2>2, <2>3, StageIs
  <2>5. ~sync.want /\ p = Home(o.s) /\ u[2] \in Tagged /\ p \in Pip
    BY <1>1, <1>3 DEF Fits, Sync
  <2>6. p \in FService /\ pips[p] # FNil /\ u[2].tags = pips[p].tags \ {o.s} /\ u[2].tags # {}
    BY <1>1 DEF Phase
  <2>7. sync.drops = {}
    <3> SUFFICES ASSUME NEW d \in sync.drops PROVE FALSE
      OBVIOUS
    <3>1. d[1] = p /\ pips[d[1]].tags = {o.s}
      BY <1>1, <2>5 DEF Fits, Phase
    <3> QED BY <2>6, <3>1
  <2>8. rule["public"][o.s] = FNil
    BY <1>2, <2>5, PlacedRules DEF Placed
  <2>9. pips \in [Pip -> Tagged \cup {FNil}] /\ u[2] # FNil
    BY <1>1, <2>5, FNilAssumption DEF FTypeOK
  <2>10. pips'[p] = u[2] /\ \A q \in Pip \ {p} : pips'[q] = pips[q]
    BY <2>2, <2>5, <2>9
  <2> DEFINE w == u[2]
  <2>11. w # FNil /\ pips'[p] = w /\ w.tags = pips[p].tags \ {o.s} /\ w.tags # {}
    BY <2>6, <2>9, <2>10
  <2> HIDE DEF w, p, left
  <2>12. FrontsBacked(front', pips') /\ PipsMade(pips')
    <3>1. \A q \in Pip : pips[q] # FNil => pips'[q] # FNil
      BY <2>10, <2>11
    <3>2. FrontsBacked(front', pips')
      BY <1>1, <1>2, <3>1 DEF Calm, FrontsBacked, FTypeOK
    <3>3. \A q \in FService : q \in Pip
      BY DEF Pip
    <3> QED BY <1>1, <2>6, <2>10, <2>11, <3>2, <3>3 DEF Calm, PipsMade
  <2>13. RulesTagged(rule', pips', sync')
    <3> SUFFICES ASSUME NEW t \in FService, rule["public"][t] # FNil, Home(t) \in FService
                 PROVE  t \in pips'[Home(t)].tags
      BY <1>2 DEF RulesTagged
    <3>1. t # o.s
      BY <2>8
    <3>2. t \in pips[Home(t)].tags
      BY <1>1, <3>1 DEF Calm, RulesTagged, Placing
    <3>3. Home(t) \in Pip
      BY DEF Pip
    <3> QED BY <2>10, <2>11, <3>1, <3>2, <3>3
  <2>14. \A s \in FService : Inactive(s, state') => LetGo(s, rule', pips')
    <3>1. \A q \in Pip : pips'[q] # FNil => pips[q] # FNil /\ pips'[q].tags \subseteq pips[q].tags
      BY <2>6, <2>10, <2>11
    <3> QED BY <1>1, <1>2, <2>4, <3>1 DEF Calm, LetGo
  <2>15. \A v \in left : /\ v[1] \in FService /\ pips'[v[1]] # FNil
                         /\ v[2].tags = pips'[v[1]].tags \ {o.s} /\ v[2].tags # {}
    <3> SUFFICES ASSUME NEW v \in left
                 PROVE  /\ v[1] \in FService /\ pips'[v[1]] # FNil
                        /\ v[2].tags = pips'[v[1]].tags \ {o.s} /\ v[2].tags # {}
      OBVIOUS
    <3>1. v[1] = p /\ v[2].tags = pips[p].tags \ {o.s}
      BY <1>1, <2>3, <2>5 DEF Fits, Phase
    <3> QED BY <2>6, <2>11, <3>1
  <2>16. \A q \in Pip : ~(pips'[q] # FNil /\ o.s \in pips'[q].tags)
    <3> SUFFICES ASSUME NEW q \in Pip, pips'[q] # FNil, o.s \in pips'[q].tags PROVE FALSE
      OBVIOUS
    <3>1. q # p
      BY <2>11
    <3>2. Homed(q, pips[q]) /\ o.s \in pips[q].tags
      BY <1>1, <2>10, <3>1 DEF TagsHome, ListHomed
    <3> QED BY <2>5, <3>1, <3>2 DEF Homed
  <2>17. Phase(sync', rule', pips')
    BY <1>1, <1>2, <2>4, <2>7, <2>15, <2>16 DEF Phase, Placed
  <2>18. LbCalm(CurrentLb')
    BY <1>1, <1>2 DEF Calm, CurrentLb
  <2> QED BY <1>2, <2>2, <2>12, <2>13, <2>14, <2>17, <2>18, CalmStep
<1> QED BY <1>1, <1>4, <1>5, UpdateIs

\* The end of an operation that released what the service no longer has.
LEMMA EndCalm ==
  ASSUME CalmInv, ffaults = 0, ~Resting, sync.pc = "release", ~(sync.want /\ ~sync.o.internal), Finish,
         UNCHANGED <<fplan, LbState>>, FrontsBacked(front, pips'), PipsMade(pips'),
         \A t \in FService : (rule["public"][t] # FNil /\ Home(t) \in FService) => pips'[Home(t)] = pips[Home(t)],
         \A q \in Pip : pips'[q] # FNil => pips'[q] = pips[q],
         (~sync.want /\ sync.o.s \notin fplan.pinned) =>
            \A q \in Pip : pips'[q] # FNil => sync.o.s \notin pips'[q].tags,
         pipCache' # FNil => ListSound(pipCache', pips', state', sync')
  PROVE  Calm' /\ Served
<1> DEFINE o == sync.o
<1>1. /\ FTypeOK /\ Calm /\ sync \in Sync /\ o \in Object /\ o.s \in FService /\ Running(sync)
      /\ Called(sync, state) /\ sync.want \in BOOLEAN /\ o.internal \in BOOLEAN
  BY CalmFacts DEF Sync, Object
<1>2. rule["public"][o.s] = FNil /\ (rule["internal"][o.s] # FNil <=> sync.want)
  BY <1>1, PlacedRules DEF Placed
<1>3. sync' = Idle /\ rule' = rule /\ front' = front /\ inner' = inner
  BY DEF Finish, LbState
<1>4. LbCalm(CurrentLb')
  BY <1>1, <1>3 DEF Calm, CurrentLb
<1>5. RulesTagged(rule', pips', sync')
  <2> SUFFICES ASSUME NEW t \in FService, rule["public"][t] # FNil, Home(t) \in FService
               PROVE  t \in pips'[Home(t)].tags
    BY <1>3 DEF RulesTagged
  <2>1. t # o.s
    BY <1>2
  <2> QED BY <1>1, <2>1 DEF Calm, RulesTagged, Placing
<1>6. ASSUME NEW s \in FService, Inactive(s, state') PROVE LetGo(s, rule', pips')
  <2>1. CASE s = o.s
    <3>1. ~sync.want
      BY <1>1, <1>6, <2>1 DEF Inactive, Finish, Called
    <3> QED BY <1>2, <1>3, <2>1, <3>1 DEF LetGo
  <2>2. CASE s # o.s
    <3>1. Inactive(s, state)
      BY <1>1, <1>6, <2>2 DEF Inactive, Finish, FTypeOK
    <3> QED BY <1>1, <1>3, <3>1 DEF Calm, LetGo
  <2> QED BY <2>1, <2>2
<1>7. Calm'
  BY <1>3, <1>4, <1>5, <1>6, CalmStep DEF Running
<1>8. Served
  <2>1. sync.want => o.internal /\ KindOf(o) = "internal" /\ KindOf(Flip(o)) = "public"
    BY <1>1, FlipKind DEF KindOf, OtherKind
  <2> QED BY <1>2, <1>3, <2>1 DEF Served
<1> QED BY <1>7, <1>8

\* A public IP that Azure keeps is on the frontend of its own service.
LEMMA KeptIsPinned ==
  ASSUME CalmInv, ffaults = 0, ~Resting, sync.pc = "release", ~(sync.want /\ ~sync.o.internal),
         NEW d \in sync.drops, Holder(d[1]) # FNil
  PROVE  d[1] = sync.o.s /\ sync.o.s \in fplan.pinned
<1> DEFINE o == sync.o
           p == d[1]
           f == Holder(p)
<1>1. /\ FTypeOK /\ Calm /\ Compatible(fplan) /\ sync \in Sync /\ o.s \in FService /\ Fits(sync)
      /\ Phase(sync, rule, pips) /\ FrontHome /\ RuleHome /\ Home(o.s) # FNil
  BY CalmFacts
<1>2. p = Home(o.s) /\ p \in FService /\ pips[p] # FNil /\ pips[p].tags = {o.s}
  BY <1>1 DEF Fits, Phase
<1>3. f \in FService /\ front[f] = p
  BY DEF Holder
<1>4. rule["public"][o.s] = FNil
  BY PlacedRules DEF Placed
<1> HIDE DEF f, p
<1>5. front[f] # FNil /\ Home(f) = p /\ Home(p) = p
  BY <1>1, <1>2, <1>3 DEF FrontHome, Calm, PipsMade
<1>6. f \in fplan.pinned
  <2> SUFFICES ASSUME NEW t \in FService, rule["public"][t] = f PROVE FALSE
    BY <1>1, <1>3, <1>5 DEF Calm, LbCalm, CurrentLb
  <2>1. rule["public"][t] # FNil
    BY <1>3, FNilAssumption DEF Pip
  <2>2. Home(t) = p
    BY <1>1, <1>3, <2>1 DEF RuleHome
  <2>3. t \in {o.s}
    BY <1>1, <1>2, <2>1, <2>2 DEF Calm, RulesTagged, Placing
  <2> QED BY <1>4, <2>1, <2>3
<1>7. f = o.s /\ f = p
  BY <1>1, <1>2, <1>3, <1>5, <1>6, PinnedAlone
<1> QED BY <1>6, <1>7 DEF p

LEMMA ReleaseCalm ==
  ASSUME CalmInv, ffaults = 0, ffaults' = 0, ~Resting, safeDeletePublicIP PROVE Calm' /\ Served
<1> DEFINE o == sync.o
<1>1. /\ SteadyInv /\ FInv /\ FTypeOK /\ Calm /\ sync \in Sync /\ o \in Object /\ o.s \in FService /\ Running(sync)
      /\ Fits(sync) /\ Called(sync, state) /\ Phase(sync, rule, pips) /\ TagsHome /\ RuleHome
      /\ Home(o.s) \in Pip
  BY CalmFacts
<1>2. sync.pc = "release" /\ UNCHANGED <<fplan, wish, fedits>>
  BY <1>1, ReleaseIs
<1>3. sync.failed = FALSE /\ sync.want \in BOOLEAN /\ sync.updates = {}
  BY <1>1, <1>2 DEF Phase, Sync
<1>4. CASE sync.drops = {} /\ UNCHANGED <<pips, pipCache, LbState, ffaults>> /\ NextStage({}, FALSE, AfterReleases)
  <2>1. \A p : ~Pending(p, sync)
    BY <1>3, <1>4 DEF Pending
  <2>2. rule' = rule /\ front' = front
    BY <1>4 DEF LbState
  <2>3. CASE sync.want /\ ~o.internal
    <3>1. AfterReleases = "ensure"
      BY <2>3 DEF AfterReleases
    <3>2. NextStage({}, FALSE, "ensure")
      BY <1>4, <3>1
    <3>3. /\ UNCHANGED <<fdirty, state>>
          /\ sync' \in Sync /\ sync'.pc = "ensure" /\ sync'.o = sync.o /\ sync'.want = sync.want
          /\ sync'.failed = FALSE /\ sync'.updates = {} /\ sync'.drops = {}
      BY <1>1, <1>2, <1>3, <1>4, <3>2, StageIs
    <3>4. Running(sync')
      BY <3>3, RestingIs DEF Running
    <3>5. Phase(sync', rule', pips')
      BY <1>1, <1>2, <1>4, <2>2, <3>3 DEF Phase, Placed, Ending
    <3>6. pipCache' # FNil => ListSound(pipCache', pips', state', sync')
      BY <1>1, <1>4, <2>3, <3>3, ListStays DEF Calm
    <3>7. \A t \in FService : Placing(t, sync) => Placing(t, sync')
      BY <3>3, <3>4 DEF Placing, Placed
    <3>8. Served
      BY <3>4 DEF Served, Running
    <3> QED BY <1>2, <1>4, <3>3, <3>5, <3>6, <3>7, <3>8, CalmQuiet
  <2>4. CASE ~(sync.want /\ ~o.internal)
    <3>1. AfterReleases = "end"
      BY <2>4 DEF AfterReleases
    <3>2. NextStage({}, FALSE, "end")
      BY <1>4, <3>1
    <3>3. Finish
      BY <3>2 DEF NextStage
    <3>4. sync' = Idle
      BY <3>3 DEF Finish
    <3>5. \A p : Lone(p, state, sync) => Lone(p, state', sync')
      BY <1>1, <3>3, <3>4, LoneStays
    <3>6. pipCache' # FNil => ListSound(pipCache', pips', state', sync')
      BY <1>1, <1>4, <2>1, <3>5 DEF Calm, ListSound
    <3>7. (~sync.want /\ o.s \notin fplan.pinned) => \A q \in Pip : pips[q] # FNil => o.s \notin pips[q].tags
      BY <1>1, <1>2, <2>1 DEF Phase, Ending
    <3>8. FrontsBacked(front, pips') /\ PipsMade(pips')
      BY <1>1, <1>4 DEF Calm
    <3> QED BY <1>2, <1>4, <2>4, <3>3, <3>6, <3>7, <3>8, EndCalm
  <2> QED BY <2>3, <2>4
<1>5. ASSUME NEW d \in sync.drops, NEW r \in Outcome, Released(d, r)
      PROVE  Calm' /\ Served
  <2> DEFINE p == d[1]
  <2>1. r = "done"
    BY <1>5, CountDone DEF Released
  <2>2. front' = front /\ rule' = rule /\ inner' = inner
    BY <1>1, <1>2, <1>5, ReleasedFront
  <2>3. FrontendOf(d) = {}
    BY <1>1, <1>2, NothingOff
  <2>4. /\ p = Home(o.s) /\ p \in FService /\ pips[p] # FNil /\ pips[p].tags = {o.s}
        /\ \A e \in sync.drops : d = e
    BY <1>1 DEF Fits, Phase
  <2>5. ~(sync.want /\ ~o.internal)
    BY <1>1, <1>2 DEF Fits
  <2>6. sync.drops \ {d} = {} /\ AfterReleases = "end"
    BY <2>4, <2>5 DEF AfterReleases
  <2>7. Finish /\ sync' = Idle
    <3>1. NextStage({}, FALSE, "end")
      BY <1>3, <1>5, <2>1, <2>6 DEF Released
    <3> QED BY <3>1 DEF NextStage, Finish
  <2>8. Detached(d) <=> Holder(p) # FNil
    BY <2>3 DEF Detached
  <2>9. UNCHANGED <<fplan, LbState>>
    BY <1>2, <2>2 DEF LbState
  <2>10. \A q : Lone(q, state, sync) => Lone(q, state', sync')
    BY <1>1, <2>7, LoneStays
  <2>11. \A q : Pending(q, sync) => q = p /\ ~sync.want
    BY <1>3, <2>4 DEF Pending, Ending
  <2>12. CASE Holder(p) = FNil
    <3>1. pips' = [pips EXCEPT ![p] = FNil] /\ pipCache' = FNil
      BY <1>5, <2>1, <2>8, <2>12 DEF Released
    <3>2. \A f \in FService : front[f] # p
      BY <2>12, FNilAssumption DEF Holder, Pip
    <3>3. pips \in [Pip -> Tagged \cup {FNil}] /\ p \in Pip
      BY <1>1, <2>4 DEF FTypeOK
    <3> HIDE DEF p
    <3>4. pips'[p] = FNil /\ \A q \in Pip \ {p} : pips'[q] = pips[q]
      BY <3>1, <3>3
    <3>5. FrontsBacked(front, pips')
      BY <1>1, <3>2, <3>4 DEF Calm, FrontsBacked, FTypeOK
    <3>6. PipsMade(pips')
      BY <1>1, <3>4 DEF Calm, PipsMade, Pip
    <3>7. \A t \in FService : (rule["public"][t] # FNil /\ Home(t) \in FService) => pips'[Home(t)] = pips[Home(t)]
      <4> SUFFICES ASSUME NEW t \in FService, rule["public"][t] # FNil PROVE pips'[Home(t)] = pips[Home(t)]
        OBVIOUS
      <4>1. Home(t) \in Pip /\ front[rule["public"][t]] = Home(t) /\ rule["public"][t] \in FService
        BY <1>1, RuleBacked
      <4> QED BY <3>2, <3>4, <4>1
    <3>8. \A q \in Pip : pips'[q] # FNil => pips'[q] = pips[q] /\ o.s \notin pips'[q].tags
      BY <1>1, <2>4, <3>4 DEF TagsHome, ListHomed, Homed
    <3> QED BY <1>2, <2>5, <2>7, <2>9, <3>1, <3>5, <3>6, <3>7, <3>8, EndCalm
  <2>13. CASE Holder(p) # FNil
    <3>1. pips' = pips /\ pipCache' \in {newPIPCache, pipCache}
      BY <1>5, <2>8, <2>13 DEF Released
    <3>2. p = o.s /\ o.s \in fplan.pinned
      BY <1>2, <2>5, <2>13, KeptIsPinned
    <3>3. ~sync.want => Lone(p, state', sync')
      BY <1>1, <2>7, <3>2 DEF Lone, Finish, Running, FTypeOK
    <3>4. ListSound(newPIPCache, pips, state, sync)
      BY <1>1, ListsSound
    <3> HIDE DEF p
    <3>5. pipCache' # FNil => ListSound(pipCache', pips', state', sync')
      BY <1>1, <2>10, <2>11, <3>1, <3>3, <3>4 DEF Calm, ListSound
    <3>6. FrontsBacked(front, pips') /\ PipsMade(pips')
      BY <1>1, <3>1 DEF Calm
    <3> QED BY <1>2, <2>5, <2>7, <2>9, <3>1, <3>2, <3>5, <3>6, EndCalm
  <2> QED BY <2>12, <2>13
<1> QED BY <1>1, <1>4, <1>5, ReleaseIs

LEMMA FaultsStay == ASSUME FInv, [FNext]_fvars, ffaults' = 0 PROVE ffaults = 0
<1>1. ffaults \in Nat
  BY FPlansAssumption DEF FInv, BaseInv, FTypeOK, FPlan
<1>2. ASSUME NEW r, Count(r) PROVE ffaults = 0
  BY <1>1, <1>2 DEF Count
<1>3. ASSUME NEW lb, NEW r, LbSent(lb, r) PROVE ffaults = 0
  BY <1>2, <1>3 DEF LbSent
<1>4. CASE ~Resting /\ PlanFrontend
  BY <1>4 DEF PlanFrontend
<1>5. CASE ~Resting /\ EnsureFrontendIP
  BY <1>2, <1>5, EnsureFrontendIs DEF Refusing, Unchanging, PipSent
<1>6. CASE ~Resting /\ ReconcileLoadBalancer
  BY <1>3, <1>6, PutIs
<1>7. CASE ~Resting /\ ReconcileFlipped
  BY <1>3, <1>7, FlipIs
<1>8. CASE ~Resting /\ getPublicIPUpdates
  BY <1>8, ListIs
<1>9. CASE ~Resting /\ CreateOrUpdatePIP
  BY <1>2, <1>9, UpdateIs
<1>10. CASE ~Resting /\ safeDeletePublicIP
  BY <1>2, <1>10, ReleaseIs DEF Released
<1>11. CASE ~Resting /\ ConfirmPublicIP
  BY <1>2, <1>11, ConfirmIs DEF Refusing, Unchanging, PipSent
<1>12. CASE \E s \in FService : EnsureLoadBalancer(s) \/ EnsureLoadBalancerDeleted(s) \/ EditService(s) \/ RemoveService(s)
  BY <1>12 DEF EnsureLoadBalancer, EnsureLoadBalancerDeleted, EditService, RemoveService
<1>13. CASE ExpirePips \/ UNCHANGED fvars
  BY <1>13 DEF ExpirePips, fvars
<1>14. CASE IgnoreDeletionError
  BY <1>1, <1>14 DEF IgnoreDeletionError
<1>15. CASE DetachFails
  <2>1. PICK d \in sync.drops, r \in Outcome : DetachFailed(d, r)
    BY <1>15, DetachIs
  <2>2. Count(r)
    BY <2>1 DEF DetachFailed
  <2> QED BY <1>2, <2>2
<1> QED BY <1>4, <1>5, <1>6, <1>7, <1>8, <1>9, <1>10, <1>11, <1>12, <1>13, <1>14,
       <1>15 DEF FNext, Proceed

\* Before the public IPs are dealt with, an operation ends by failing only.
LEMMA NotIdle ==
  ASSUME FInv, ~Resting,
         \/ PlanFrontend \/ EnsureFrontendIP \/ ReconcileLoadBalancer
         \/ ReconcileFlipped \/ getPublicIPUpdates \/ CreateOrUpdatePIP
  PROVE  sync' # Idle
<1>1. BaseInv /\ FTypeOK /\ sync \in Sync /\ sync.o \in Object
  BY DEF FInv, BaseInv, StepFits, Working, Sync
<1>2. Failed # Idle /\ \A y \in Sync : y # Idle
  BY RestingIs DEF Failed, Idle
<1>3. Fail => sync' # Idle
  BY <1>2 DEF Fail
<1>4. \A pc \in FPc : Goto(pc) => sync' # Idle
  BY <1>1, <1>2, MoveTyped
<1>5. "pip" \in FPc /\ "put" \in FPc /\ "list" \in FPc
  BY DEF FPc
<1>6. CASE PlanFrontend
  <2> DEFINE pc == IF sync.want /\ Kept(sync.o) = {} /\ ~sync.o.internal THEN "pip" ELSE "put"
  <2>1. Fail \/ Goto(pc)
    BY <1>6 DEF PlanFrontend
  <2>2. pc \in FPc
    BY <1>5
  <2> HIDE DEF pc
  <2> QED BY <1>3, <1>4, <2>1, <2>2
<1>7. CASE EnsureFrontendIP
  <2>1. Fail \/ Goto("put")
    BY <1>7, EnsureFrontendIs DEF Refusing
  <2> QED BY <1>3, <1>4, <1>5, <2>1
<1>8. CASE ReconcileLoadBalancer
  <2>1. Fail \/ sync' = Carried(TargetLb)
    BY <1>8, PutIs
  <2>2. TargetLb \in Lbs
    BY <1>1, WithServiceTyped, WithoutServiceTyped DEF TargetLb
  <2>3. TargetLb.rule["public"][sync.o.s] \in FService \/ ~sync.want \/ sync.o.internal
    BY <1>1, RuleGiven, FrontendsTyped DEF TargetLb, KindOf
  <2>4. Carried(TargetLb) \in Sync
    BY <1>1, <2>2, <2>3, CarriedIs
  <2> QED BY <1>2, <1>3, <2>1, <2>4
<1>9. CASE ReconcileFlipped
  <2>1. Fail \/ Goto("list")
    BY <1>9, FlipIs
  <2> QED BY <1>3, <1>4, <1>5, <2>1
<1>10. CASE getPublicIPUpdates
  <2>1. Fail \/ sync' = Listed
    BY <1>10, ListIs
  <2>2. Listed \in Sync
    BY <1>1, ListedIs
  <2> QED BY <1>2, <1>3, <2>1, <2>2
<1>11. CASE CreateOrUpdatePIP
  <2>1. sync.pc = "update"
    BY <1>11, UpdateIs
  <2>2. ASSUME NEW left, NEW failed \in BOOLEAN, left \subseteq sync.updates, NextStage(left, failed, "release")
        PROVE  Fail \/ sync' \in Sync
    BY <1>1, <2>1, <2>2, StageIs
  <2>3. CASE NextStage({}, FALSE, "release")
    BY <1>2, <1>3, <2>2, <2>3
  <2>4. ASSUME NEW u \in sync.updates, NEW r, NextStage(sync.updates \ {u}, sync.failed \/ r # "done", "release")
        PROVE  sync' # Idle
    <3> DEFINE left == sync.updates \ {u}
               failed == sync.failed \/ r # "done"
    <3>1. left \subseteq sync.updates /\ failed \in BOOLEAN /\ NextStage(left, failed, "release")
      BY <1>1, <2>4 DEF Sync
    <3> HIDE DEF left, failed
    <3> QED BY <1>2, <1>3, <2>2, <3>1
  <2> QED BY <1>11, <2>3, <2>4, UpdateIs
<1> QED BY <1>6, <1>7, <1>8, <1>9, <1>10, <1>11

\* A service that the provider finds nothing of has nothing left.
LEMMA NothingFound ==
  ASSUME SteadyInv, Calm, NEW s \in FService, state[s] = "deleting", ~GetLoadBalancer(ObjectOf(s))
  PROVE  LetGo(s, rule, pips)
<1> DEFINE o == ObjectOf(s)
<1>1. FInv /\ FTypeOK /\ RuleHome /\ TagsHome
  BY DEF SteadyInv, FInv, BaseInv
<1>2. ObjectSound(o) /\ o \in Object /\ o.s = s /\ o.ip \in UserPip \cup {FNil} /\ o.internal \in BOOLEAN
  BY NewObjectSound DEF Object
<1> HIDE DEF o
<1>3. determinePublicIPName(o) = Home(s) /\ Home(s) \in Pip
  <2>1. o.ip # "private"
    BY <1>2, FPipAssumption, FNilAssumption DEF Pip
  <2> QED BY <1>1, <1>2, <2>1, NameIsHome DEF ObjectSound
<1>4. pips[Home(s)] = FNil
  <2>1. ~Found(Home(s))
    BY <1>3, FNilAssumption DEF GetLoadBalancer, o
  <2> QED BY <1>1, <1>3, <2>1, ListsSound
<1>5. rule["public"][s] = FNil
  BY <1>1, <1>4, RuleBacked
<1>6. rule["internal"][s] = FNil
  <2> SUFFICES ASSUME s \in inner PROVE FALSE
    BY DEF Calm, LbCalm, CurrentLb
  <2>1. ASSUME NEW q \in Object, q.s = s, q.internal PROVE s \in Owned(q)
    BY <2>1 DEF Owned, Present, KindOf, serviceOwnsFrontendIP
  <2>2. Flip(o) \in Object /\ Flip(o).s = s /\ Flip(o).internal = ~o.internal
    BY <1>1, <1>2, FrontendsTyped, FlipKind
  <2>3. s \in Owned(o) \/ s \in Owned(Flip(o))
    BY <1>2, <2>1, <2>2
  <2> QED BY <2>3 DEF GetLoadBalancer, o
<1>7. \A p \in Pip : pips[p] # FNil => s \notin pips[p].tags
  BY <1>1, <1>4 DEF TagsHome, ListHomed, Homed
<1> QED BY <1>5, <1>6, <1>7 DEF LetGo

LEMMA OthersCalm ==
  ASSUME CalmInv, ffaults = 0,
         \/ \E s \in FService : EnsureLoadBalancer(s) \/ EnsureLoadBalancerDeleted(s)
                                \/ EditService(s) \/ RemoveService(s)
         \/ ExpirePips
         \/ UNCHANGED fvars
  PROVE  Calm' /\ Served
<1>1. SteadyInv /\ FInv /\ FTypeOK /\ Calm
  BY DEF CalmInv, SteadyInv, FInv, BaseInv
<1>2. UNCHANGED <<fplan, front, inner, rule, pips>> /\ pipCache' \in {pipCache, FNil}
  BY DEF EnsureLoadBalancer, EnsureLoadBalancerDeleted, EditService, RemoveService, ExpirePips, fvars, LbState
<1>3. LbCalm(CurrentLb') /\ FrontsBacked(front', pips') /\ PipsMade(pips')
  BY <1>1, <1>2 DEF Calm, CurrentLb
<1>4. state \in [FService -> {"none", "wanted", "deleting", "gone"}]
  BY <1>1 DEF FTypeOK
<1>5. ASSUME \A s \in FService : Inactive(s, state') => LetGo(s, rule, pips),
             \A p : Lone(p, state, sync) => Lone(p, state', sync'),
             Resting \/ sync' = sync, Running(sync') => sync' = sync \/ Phase(sync', rule, pips)
      PROVE  Calm'
  <2>1. RulesTagged(rule', pips', sync')
    BY <1>1, <1>2, <1>5 DEF Calm, RulesTagged, Placing, Running, Resting
  <2>2. \A p : Pending(p, sync) => Pending(p, sync')
    BY <1>5 DEF Pending, Ending, Running, Resting
  <2>3. pipCache' # FNil => ListSound(pipCache', pips', state', sync')
    BY <1>1, <1>2, <1>5, <2>2 DEF Calm, ListSound
  <2>4. Running(sync') => Phase(sync', rule', pips')
    BY <1>1, <1>2, <1>5 DEF Calm, Running
  <2> QED BY <1>2, <1>3, <1>5, <2>1, <2>3, <2>4, CalmStep
<1>6. ASSUME NEW s \in FService, NEW want \in BOOLEAN, Resting, sync' = NewSync(s, want), state' = state,
             want => state[s] = "wanted"
      PROVE  Calm'
  <2>1. /\ NewSync(s, want).pc = "lb" /\ NewSync(s, want).o.s = s /\ NewSync(s, want).want = want
        /\ NewSync(s, want).failed = FALSE
        /\ NewSync(s, want).updates = {} /\ NewSync(s, want).drops = {}
    BY DEF NewSync, ObjectOf
  <2>2. Phase(sync', rule, pips)
    BY <1>6, <2>1 DEF Phase, Placed, Ending
  <2>3. \A p : Lone(p, state, sync) => Lone(p, state', sync')
    BY <1>6, <2>1 DEF Lone
  <2> QED BY <1>1, <1>5, <1>6, <2>2, <2>3 DEF Calm
<1>7. ASSUME NEW s \in FService, EnsureLoadBalancer(s) PROVE Calm' /\ Served
  <2>1. Resting /\ sync' = NewSync(s, TRUE) /\ state' = state /\ state[s] = "wanted"
    BY <1>7 DEF EnsureLoadBalancer, Users
  <2> QED BY <1>6, <2>1 DEF Served
<1>8. ASSUME NEW s \in FService, EnsureLoadBalancerDeleted(s) PROVE Calm' /\ Served
  <2>1. Resting /\ state[s] = "deleting"
    BY <1>8 DEF EnsureLoadBalancerDeleted
  <2>2. \/ sync' = NewSync(s, FALSE) /\ state' = state
        \/ state' = [state EXCEPT ![s] = "gone"] /\ sync' = sync /\ ~GetLoadBalancer(ObjectOf(s))
    BY <1>8 DEF EnsureLoadBalancerDeleted
  <2>3. CASE sync' = NewSync(s, FALSE) /\ state' = state
    BY <1>6, <2>1, <2>3 DEF Served
  <2>4. CASE state' = [state EXCEPT ![s] = "gone"] /\ sync' = sync /\ ~GetLoadBalancer(ObjectOf(s))
    <3>1. LetGo(s, rule, pips)
      BY <1>1, <2>1, <2>4, NothingFound
    <3>2. \A t \in FService : Inactive(t, state') => LetGo(t, rule, pips)
      BY <1>1, <1>4, <2>4, <3>1 DEF Calm, Inactive
    <3>3. \A p : Lone(p, state, sync) => Lone(p, state', sync')
      BY <1>4, <2>4 DEF Lone
    <3> QED BY <1>5, <2>1, <2>4, <3>2, <3>3 DEF Served
  <2> QED BY <2>2, <2>3, <2>4
<1>9. ASSUME NEW s \in FService, NEW x \in {"wanted", "deleting"}, state[s] \in {"none", "wanted"}, sync' = sync,
             state' = [state EXCEPT ![s] = x]
      PROVE  Calm'
  <2>1. \A t \in FService : Inactive(t, state') => LetGo(t, rule, pips)
    BY <1>1, <1>4, <1>9 DEF Calm, Inactive
  <2>2. \A p : Lone(p, state, sync) => Lone(p, state', sync')
    BY <1>4, <1>9 DEF Lone
  <2> QED BY <1>5, <1>9, <2>1, <2>2
<1>10. sync' = sync => Served
  BY DEF Served, Resting
<1>11. ASSUME NEW s \in FService, EditService(s) \/ RemoveService(s) PROVE Calm' /\ Served
  <2>1. /\ state[s] \in {"none", "wanted"} /\ sync' = sync
        /\ state' = [state EXCEPT ![s] = "wanted"] \/ state' = [state EXCEPT ![s] = "deleting"]
    BY <1>11 DEF EditService, RemoveService
  <2> QED BY <1>9, <1>10, <2>1
<1>12. CASE ExpirePips \/ UNCHANGED fvars
  <2>1. state' = state /\ sync' = sync
    BY <1>12 DEF ExpirePips, fvars, Users
  <2> QED BY <1>1, <1>5, <1>10, <2>1 DEF Calm
<1> QED BY <1>7, <1>8, <1>11, <1>12

LEMMA CalmKept ==
  ASSUME CalmInv, [FNext]_fvars
  PROVE  CalmInv' /\ (ffaults' = 0 => Served)
<1>1. SteadyInv /\ FInv
  BY DEF CalmInv, SteadyInv
<1>2. SteadyInv'
  BY <1>1, SteadyKept
<1>3. ffaults' = 0 => ffaults = 0
  BY <1>1, FaultsStay
<1>4. fplan' = fplan
  BY DEF FNext, Proceed, PlanFrontend, EnsureFrontendIP, ReconcileLoadBalancer, ReconcileFlipped,
         getPublicIPUpdates, CreateOrUpdatePIP, safeDeletePublicIP, ConfirmPublicIP, IgnoreDeletionError,
         DetachFails, EnsureLoadBalancer, EnsureLoadBalancerDeleted, EditService, RemoveService, ExpirePips, fvars
<1>5. Compatible(fplan)'
  <2>1. Compatible(fplan)
    BY DEF CalmInv
  <2> QED BY <1>4, <2>1
<1>6. ASSUME ffaults' = 0, ~Resting, Proceed PROVE Calm' /\ Served
  <2>1. ffaults = 0
    BY <1>3, <1>6
  <2>2. CASE safeDeletePublicIP \/ ConfirmPublicIP
    BY <1>6, <2>1, <2>2, ReleaseCalm, ConfirmCalm
  <2>3. CASE \/ PlanFrontend \/ EnsureFrontendIP \/ ReconcileLoadBalancer
             \/ ReconcileFlipped \/ getPublicIPUpdates \/ CreateOrUpdatePIP
    <3>1. Served
      BY <1>1, <1>6, <2>3, NotIdle DEF Served
    <3>2. Calm'
      BY <1>6, <2>1, <2>3, PlanCalm, EnsureFrontendCalm, PutCalm, FlipCalm, ListCalm, UpdateCalm
    <3> QED BY <3>1, <3>2
  <2>4. ~DetachFails
    BY <1>1, <1>6, NeverDetached
  <2>5. ~IgnoreDeletionError
    BY <1>6, <2>1 DEF IgnoreDeletionError
  <2> QED BY <1>6, <2>2, <2>3, <2>4, <2>5 DEF Proceed
<1>7. ffaults' = 0 => Calm' /\ Served
  BY <1>3, <1>6, OthersCalm DEF FNext, Proceed
<1> QED BY <1>2, <1>5, <1>7 DEF CalmInv

LEMMA CalmInit == ASSUME FInit, Steady(fplan), Compatible(fplan) PROVE CalmInv
<1>1. SteadyInv
  BY SteadyInit
<1>2. /\ \A f \in FService : front[f] = FNil
      /\ \A k \in Kind, s \in FService : rule[k][s] = FNil
      /\ inner = {} /\ pipCache = FNil /\ sync = Idle
  BY DEF FInit
<1>3. \A p \in Pip : pips[p] # FNil => p \in UserPip /\ pips[p].tags = {}
  BY DEF FInit
<1>4. "public" \in Kind /\ "internal" \in Kind
  BY DEF Kind
<1>5. LbCalm(CurrentLb) /\ FrontsBacked(front, pips)
  BY <1>2, <1>4 DEF LbCalm, CurrentLb, FrontsBacked
<1>6. PipsMade(pips)
  BY <1>3, FPipAssumption DEF PipsMade, Pip
<1>7. RulesTagged(rule, pips, sync)
  BY <1>2, <1>4 DEF RulesTagged
<1>8. \A s \in FService : LetGo(s, rule, pips)
  BY <1>2, <1>3, <1>4 DEF LetGo
<1>9. ~Running(sync)
  BY <1>2 DEF Running
<1> QED BY <1>1, <1>2, <1>5, <1>6, <1>7, <1>8, <1>9 DEF CalmInv, Calm

LEMMA NothingIsLeft == ASSUME CalmInv PROVE PipsAccounted
<1>1. FTypeOK /\ UserPipsUntouched /\ TagsHome
  BY DEF CalmInv, SteadyInv, FInv, BaseInv, UsersSound, UserPipsUntouched, Exists
<1>2. ASSUME AllGone, ffaults = 0, NEW s \in FService \ fplan.pinned
      PROVE  rule["public"][s] = FNil /\ front[s] = FNil /\ s \notin inner /\ ~Exists(s)
  <2>1. Calm
    BY <1>2 DEF CalmInv
  <2>2. \A t \in FService : LetGo(t, rule, pips)
    BY <1>2, <2>1 DEF AllGone, Calm, Inactive
  <2>3. \A t \in FService : rule["public"][t] = FNil /\ rule["internal"][t] = FNil
    BY <2>2 DEF LetGo
  <2>4. FNil \notin FService /\ FService \subseteq Pip
    BY FNilAssumption DEF Pip
  <2>5. front[s] = FNil /\ s \notin inner
    BY <2>1, <2>3, <2>4 DEF Calm, LbCalm, CurrentLb
  <2>6. ~Exists(s)
    <3> SUFFICES ASSUME pips[s] # FNil PROVE FALSE
      BY DEF Exists
    <3>1. Home(s) = s /\ pips[s].tags # {}
      BY <2>1 DEF Calm, PipsMade
    <3>2. pips[s].tags \subseteq FService
      BY <1>1, <2>4 DEF FTypeOK, Tagged
    <3>3. PICK t \in FService : t \in pips[s].tags
      BY <3>1, <3>2
    <3>4. Home(t) = s
      BY <1>1, <2>4, <3>3 DEF TagsHome, ListHomed, Homed
    <3>5. t \in fplan.pinned
      BY <2>2, <2>4, <3>3 DEF LetGo
    <3>6. s \in FService /\ Home(s) # FNil
      BY <2>4, <3>1
    <3>7. t = s
      BY <3>1, <3>4, <3>5, <3>6, PinnedAlone DEF CalmInv
    <3> QED BY <3>5, <3>7
  <2> QED BY <2>3, <2>5, <2>6
<1>3. NoOrphan
  BY <1>2 DEF NoOrphan, NothingLeft
<1> QED BY <1>1, <1>3 DEF PipsAccounted

\* Deleting all services leaves no rule, frontend or public IP of the provider behind
\* if no write failed, and users' public IPs are never touched (reconcilePublicIPs,
\* getPublicIPUpdates, existsPip): for scenarios in which each service asks for one
\* public IP, with IP tags it agrees on with those that share it, and those are compatible.
THEOREM PublicIPsAccounted == FSpec /\ Steady(fplan) /\ Compatible(fplan) => []PipsAccounted
<1>1. FInit /\ Steady(fplan) /\ Compatible(fplan) => CalmInv
  BY CalmInit
<1>2. CalmInv /\ [FNext]_fvars => CalmInv'
  BY CalmKept
<1>3. CalmInv => PipsAccounted
  BY NothingIsLeft
<1> QED BY <1>1, <1>2, <1>3, PTL DEF FSpec

\* When EnsureLoadBalancer returns, the service has its rule on one load balancer only,
\* behind the public IP it asked for, which lists it: if no write fails, for services
\* that each ask for one public IP, with IP tags they agree on and compatible when they
\* share one.
THEOREM EnsuredServices ==
    FSpec /\ Steady(fplan) /\ Compatible(fplan) /\ fplan.faults = 0 => EnsuredIsServed
<1> DEFINE I == CalmInv /\ fplan.faults = 0
<1>1. FInit /\ Steady(fplan) /\ Compatible(fplan) /\ fplan.faults = 0 => I
  BY CalmInit
<1>2. I /\ [FNext]_fvars => I' /\ Served
  <2> SUFFICES ASSUME I, [FNext]_fvars PROVE I' /\ Served
    OBVIOUS
  <2>1. CalmInv' /\ (ffaults' = 0 => Served)
    BY CalmKept
  <2>2. fplan' = fplan
    BY DEF FNext, Proceed, PlanFrontend, EnsureFrontendIP, ReconcileLoadBalancer, ReconcileFlipped,
           getPublicIPUpdates, CreateOrUpdatePIP, safeDeletePublicIP, ConfirmPublicIP, IgnoreDeletionError,
           DetachFails, EnsureLoadBalancer, EnsureLoadBalancerDeleted, EditService, RemoveService, ExpirePips, fvars
  <2>3. ffaults' \in 0..0
    BY <2>1, <2>2 DEF CalmInv, SteadyInv, FInv, BaseInv, FTypeOK
  <2> QED BY <2>1, <2>2, <2>3
<1> HIDE DEF I
<1> QED BY <1>1, <1>2, PTL DEF FSpec, EnsuredIsServed, Served
==============================================================================
