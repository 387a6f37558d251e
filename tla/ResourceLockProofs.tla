-------------------------- MODULE ResourceLockProofs --------------------------
(***************************************************************************)
(* The lease excludes, and the annotation keeps the caches fresh, for any  *)
(* number of other components, failures and restarts.                      *)
(***************************************************************************)
EXTENDS ResourceLock, TLAPS

\* Every variable of ResourceLock keeps its type, and a call at work is one
\* the service controller waits for.
THEOREM TypeCorrect == Spec => []TypeOK
<1>1. Init => TypeOK
  BY LockAssumption DEF Init, TypeOK, Holders
<1>2. TypeOK /\ [Next]_vars => TypeOK'
  <2> SUFFICES ASSUME TypeOK, [Next]_vars PROVE TypeOK'
    OBVIOUS
  <2>0. takes' \in Nat /\ faults' \in Nat
    <3>1. UNCHANGED bounds \/ (takes > 0 /\ takes' = takes - 1 /\ faults' = faults)
          \/ (faults > 0 /\ faults' = faults - 1 /\ takes' = takes)
      BY Zenon DEF Next, CcmStep, vars, bounds, NewCall, LookForLease, createLease,
        acquireLease, updateLease, reconcile, releaseLease, updateReleased,
        ReadCaches, RequestFails, Restart, OtherTakes, OtherWrites,
        OtherReleases, OtherDies, Expire, RemoveLease
    <3> QED
      BY <3>1 DEF TypeOK, bounds
  <2> USE LockAssumption DEF TypeOK, Holders, lease, call, bounds
  <2>1. CASE NewCall
    BY <2>1 DEF NewCall
  <2>2. CASE LookForLease
    BY <2>2 DEF LookForLease
  <2>3. CASE createLease
    BY <2>3 DEF createLease, NewLease, Return
  <2>4. CASE acquireLease
    BY <2>4 DEF acquireLease, Return
  <2>5. CASE updateLease
    BY <2>5 DEF updateLease, Taken, Return
  <2>6. CASE reconcile
    BY <2>0, <2>6 DEF reconcile, Reconciled
  <2>7. CASE releaseLease
    BY <2>7 DEF releaseLease, Return
  <2>8. CASE updateReleased
    BY <2>8 DEF updateReleased, Freed, Return
  <2>9. CASE ReadCaches
    BY <2>9 DEF ReadCaches
  <2>10. CASE RequestFails
    BY <2>0, <2>10 DEF RequestFails, NewLease, Taken, Freed, Return
  <2>11. CASE Restart
    BY <2>0, <2>11 DEF Restart, Return
  <2>12. ASSUME NEW o \in Others, OtherTakes(o) PROVE TypeOK'
    BY <2>0, <2>12 DEF OtherTakes
  <2>13. ASSUME NEW o \in Others, OtherWrites(o) PROVE TypeOK'
    BY <2>13 DEF OtherWrites
  <2>14. ASSUME NEW o \in Others, OtherReleases(o) PROVE TypeOK'
    BY <2>14 DEF OtherReleases
  <2>15. ASSUME NEW o \in Others, OtherDies(o) PROVE TypeOK'
    BY <2>15 DEF OtherDies
  <2>16. CASE Expire
    BY <2>16 DEF Expire, AtWork
  <2>17. CASE RemoveLease
    BY <2>0, <2>17 DEF RemoveLease, AtWork
  <2>18. CASE UNCHANGED vars
    BY <2>18 DEF vars
  <2> QED
    BY <2>1, <2>2, <2>3, <2>4, <2>5, <2>6, <2>7, <2>8, <2>9, <2>10, <2>11,
       <2>12, <2>13, <2>14, <2>15, <2>16, <2>17, <2>18 DEF Next, CcmStep
<1> QED
  BY <1>1, <1>2, PTL DEF Spec

\* Who is at work in its time holds the lease, after every step.
LEMMA HoldersStep ==
    TypeOK /\ CopySound /\ HoldersWork /\ [Next]_vars => HoldersWork'
<1> SUFFICES ASSUME TypeOK, CopySound, HoldersWork, [Next]_vars
             PROVE  HoldersWork'
  OBVIOUS
<1> USE LockAssumption
    DEF TypeOK, Holders, HoldersWork, AtWork, Locked, lease, call, bounds
<1>1. CASE NewCall
  BY <1>1 DEF NewCall
<1>2. CASE LookForLease
  BY <1>2 DEF LookForLease
<1>3. CASE createLease
  <2>1. (Locked /\ Ccm \notin overrun => exists /\ holder = Ccm /\ ~expired)'
    BY <1>3 DEF createLease, NewLease, Return
  <2>2. (\A o \in working \ overrun : exists /\ holder = o /\ ~expired)'
    BY <1>3 DEF createLease, NewLease, Return
  <2>3. (overrun \subseteq AtWork)'
    BY <1>3 DEF createLease, NewLease, Return
  <2> QED
    BY <2>1, <2>2, <2>3
<1>4. CASE acquireLease
  BY <1>4 DEF acquireLease, Return
<1>5. CASE updateLease
  <2>1. (Locked /\ Ccm \notin overrun => exists /\ holder = Ccm /\ ~expired)'
    BY <1>5 DEF updateLease, CopySound, hasExpired, Accepted, Taken, Return
  <2>2. (\A o \in working \ overrun : exists /\ holder = o /\ ~expired)'
    BY <1>5 DEF updateLease, CopySound, hasExpired, Accepted, Taken, Return
  <2>3. (overrun \subseteq AtWork)'
    BY <1>5 DEF updateLease, CopySound, hasExpired, Accepted, Taken, Return
  <2> QED
    BY <2>1, <2>2, <2>3
<1>6. CASE reconcile
  BY <1>6 DEF reconcile, Reconciled
<1>7. CASE releaseLease
  BY <1>7 DEF releaseLease, Return
<1>8. CASE updateReleased
  <2>1. (Locked /\ Ccm \notin overrun => exists /\ holder = Ccm /\ ~expired)'
    BY <1>8 DEF updateReleased, CopySound, Accepted, Freed, Return
  <2>2. (\A o \in working \ overrun : exists /\ holder = o /\ ~expired)'
    BY <1>8 DEF updateReleased, CopySound, Accepted, Freed, Return
  <2>3. (overrun \subseteq AtWork)'
    BY <1>8 DEF updateReleased, CopySound, Accepted, Freed, Return
  <2> QED
    BY <2>1, <2>2, <2>3
<1>9. CASE ReadCaches
  BY <1>9 DEF ReadCaches
<1>10. CASE RequestFails
  <2>1. (Locked /\ Ccm \notin overrun => exists /\ holder = Ccm /\ ~expired)'
    BY <1>10 DEF RequestFails, CopySound, hasExpired, Accepted, NewLease, Taken, Freed, Return
  <2>2. (\A o \in working \ overrun : exists /\ holder = o /\ ~expired)'
    BY <1>10 DEF RequestFails, CopySound, hasExpired, Accepted, NewLease, Taken, Freed, Return
  <2>3. (overrun \subseteq AtWork)'
    BY <1>10 DEF RequestFails, CopySound, hasExpired, Accepted, NewLease, Taken, Freed, Return
  <2> QED
    BY <2>1, <2>2, <2>3
<1>11. CASE Restart
  BY <1>11 DEF Restart, Return
<1>12. ASSUME NEW o \in Others, OtherTakes(o) PROVE HoldersWork'
  BY <1>12 DEF OtherTakes, hasExpired
<1>13. ASSUME NEW o \in Others, OtherWrites(o) PROVE HoldersWork'
  BY <1>13 DEF OtherWrites
<1>14. ASSUME NEW o \in Others, OtherReleases(o) PROVE HoldersWork'
  BY <1>14 DEF OtherReleases, hasExpired
<1>15. ASSUME NEW o \in Others, OtherDies(o) PROVE HoldersWork'
  BY <1>15 DEF OtherDies
<1>16. CASE Expire
  BY <1>16 DEF Expire, hasExpired
<1>17. CASE RemoveLease
  BY <1>17 DEF RemoveLease
<1>18. CASE UNCHANGED vars
  BY <1>18 DEF vars
<1> QED
  BY <1>1, <1>2, <1>3, <1>4, <1>5, <1>6, <1>7, <1>8, <1>9, <1>10, <1>11,
     <1>12, <1>13, <1>14, <1>15, <1>16, <1>17, <1>18 DEF Next, CcmStep

\* Every step that changes the lease makes a copy of it old.
LEMMA CopyStep == TypeOK /\ CopySound /\ [Next]_vars => CopySound'
<1> SUFFICES ASSUME TypeOK, CopySound, [Next]_vars PROVE CopySound'
  OBVIOUS
<1> USE LockAssumption DEF TypeOK, CopySound, hasExpired, lease, call, bounds
<1>1. CASE NewCall
  BY <1>1 DEF NewCall
<1>2. CASE LookForLease
  BY <1>2 DEF LookForLease
<1>3. CASE createLease
  BY <1>3 DEF createLease, NewLease, Return
<1>4. CASE acquireLease
  BY <1>4 DEF acquireLease, MayAcquire, hasExpired, Return
<1>5. CASE updateLease
  BY <1>5 DEF updateLease, Taken, Return
<1>6. CASE reconcile
  BY <1>6 DEF reconcile, Reconciled
<1>7. CASE releaseLease
  BY <1>7 DEF releaseLease, hasExpired, Return
<1>8. CASE updateReleased
  BY <1>8 DEF updateReleased, Freed, Return
<1>9. CASE ReadCaches
  BY <1>9 DEF ReadCaches
<1>10. CASE RequestFails
  BY <1>10 DEF RequestFails, Return
<1>11. CASE Restart
  BY <1>11 DEF Restart, Return
<1>12. ASSUME NEW o \in Others, OtherTakes(o) PROVE CopySound'
  BY <1>12 DEF OtherTakes
<1>13. ASSUME NEW o \in Others, OtherWrites(o) PROVE CopySound'
  BY <1>13 DEF OtherWrites
<1>14. ASSUME NEW o \in Others, OtherReleases(o) PROVE CopySound'
  <2>1. current' = FALSE \/ UNCHANGED <<lease, current>>
    BY <1>14 DEF OtherReleases
  <2>2. UNCHANGED pc
    BY <1>14 DEF OtherReleases
  <2> QED
    BY <2>1, <2>2
<1>15. ASSUME NEW o \in Others, OtherDies(o) PROVE CopySound'
  BY <1>15 DEF OtherDies
<1>16. CASE Expire
  BY <1>16 DEF Expire, hasExpired
<1>17. CASE RemoveLease
  BY <1>17 DEF RemoveLease
<1>18. CASE UNCHANGED vars
  BY <1>18 DEF vars
<1> QED
  BY <1>1, <1>2, <1>3, <1>4, <1>5, <1>6, <1>7, <1>8, <1>9, <1>10, <1>11,
     <1>12, <1>13, <1>14, <1>15, <1>16, <1>17, <1>18 DEF Next, CcmStep

\* What others wrote is known after every step, unless one of them lapsed.
LEMMA WritesStep == TypeOK /\ LockInv /\ [Next]_vars => WritesKnown'
<1> SUFFICES ASSUME TypeOK, LockInv, [Next]_vars PROVE WritesKnown'
  OBVIOUS
<1> USE LockAssumption
    DEF TypeOK, Holders, LockInv, WritesKnown, ForeignBefore, Locked, hasExpired,
        lease, call, bounds
<1>1. CASE NewCall
  BY <1>1 DEF NewCall
<1>2. CASE LookForLease
  BY <1>2 DEF LookForLease
<1>3. CASE createLease
  <2>1. ASSUME ~exists, NewLease, pc' = "acquire",
               UNCHANGED <<overrun, caches, lapsed>>
        PROVE  WritesKnown'
    <3>1. holder' = NoHolder /\ prev' = NoHolder /\ exists' = TRUE /\ expired' = FALSE
      BY <2>1 DEF NewLease
    <3>2. caches = "stale" => lapsed
      BY <2>1
    <3> QED
      BY <2>1, <3>1, <3>2
  <2>2. ASSUME Return(FALSE), UNCHANGED <<lease, caches, lapsed>>
        PROVE  WritesKnown'
    BY <2>2 DEF Return
  <2> QED
    BY <1>3, <2>1, <2>2 DEF createLease
<1>4. CASE acquireLease
  BY <1>4 DEF acquireLease, MayAcquire, hasExpired, Return
<1>5. CASE updateLease
  <2>1. ASSUME Accepted, Taken, UNCHANGED <<overrun, lapsed>>,
               caches' = IF ForeignBefore THEN "empty" ELSE caches
        PROVE  WritesKnown'
    <3>1. holder \in Others => lapsed
      BY <1>5, <2>1 DEF updateLease, CopySound, Accepted
    <3>2. caches' = "stale" => lapsed
      BY <2>1, <3>1
    <3>3. exists' /\ holder' = Ccm /\ expired' = FALSE
      BY <2>1 DEF Taken, Accepted
    <3> QED
      BY <2>1, <3>2, <3>3
  <2>2. ASSUME Return(FALSE), UNCHANGED <<lease, caches, lapsed>>
        PROVE  WritesKnown'
    BY <2>2 DEF Return
  <2> QED
    BY <1>5, <2>1, <2>2 DEF updateLease
<1>6. CASE reconcile
  BY <1>6 DEF reconcile, Reconciled
<1>7. CASE releaseLease
  BY <1>7 DEF releaseLease, hasExpired, Return
<1>8. CASE updateReleased
  BY <1>8 DEF updateReleased, CopySound, Accepted, Freed, Return
<1>9. CASE ReadCaches
  BY <1>9 DEF ReadCaches
<1>10. CASE RequestFails
  BY <1>10 DEF RequestFails, CopySound, Accepted, NewLease, Taken, Freed, Return
<1>11. CASE Restart
  BY <1>11 DEF Restart, Return
<1>12. ASSUME NEW o \in Others, OtherTakes(o) PROVE WritesKnown'
  BY <1>12 DEF OtherTakes
<1>13. ASSUME NEW o \in Others, OtherWrites(o) PROVE WritesKnown'
  BY <1>13 DEF OtherWrites, HoldersWork
<1>14. ASSUME NEW o \in Others, OtherReleases(o) PROVE WritesKnown'
  BY <1>14 DEF OtherReleases
<1>15. ASSUME NEW o \in Others, OtherDies(o) PROVE WritesKnown'
  BY <1>15 DEF OtherDies
<1>16. CASE Expire
  BY <1>16 DEF Expire, HoldersWork, AtWork
<1>17. CASE RemoveLease
  BY <1>17 DEF RemoveLease
<1>18. CASE UNCHANGED vars
  BY <1>18 DEF vars
<1> QED
  BY <1>1, <1>2, <1>3, <1>4, <1>5, <1>6, <1>7, <1>8, <1>9, <1>10, <1>11,
     <1>12, <1>13, <1>14, <1>15, <1>16, <1>17, <1>18 DEF Next, CcmStep

\* The invariant that the next two theorems rest on.
LEMMA LockSound == Spec => [](TypeOK /\ LockInv)
<1>1. Init => LockInv
  BY LockAssumption
  DEF Init, LockInv, CopySound, HoldersWork, WritesKnown, AtWork, Locked
<1>2. TypeOK /\ LockInv /\ [Next]_vars => LockInv'
  BY CopyStep, HoldersStep, WritesStep DEF LockInv
<1> QED
  BY <1>1, <1>2, TypeCorrect, PTL DEF Spec

\* No two components that are within the time of their lease change Azure at
\* once, for any number of components, failures and restarts.
THEOREM Excludes == Spec => []MutualExclusion
<1>1. TypeOK /\ LockInv => MutualExclusion
  <2> SUFFICES ASSUME TypeOK, LockInv, NEW p \in AtWork, NEW q \in AtWork,
                      p \notin overrun, q \notin overrun
               PROVE  p = q
    BY DEF MutualExclusion
  <2>1. \A x \in AtWork \ overrun : x = holder
    BY DEF AtWork, LockInv, HoldersWork
  <2> QED
    BY <2>1
<1> QED
  BY <1>1, LockSound, PTL

\* While the others release their leases, a reconciliation within the time of
\* its lease sees what they wrote.
THEOREM SeesOthersWrites == Spec => []FreshCaches
<1>1. TypeOK /\ LockInv => FreshCaches
  BY DEF LockInv, HoldersWork, WritesKnown, FreshCaches
<1> QED
  BY <1>1, LockSound, PTL
===============================================================================
