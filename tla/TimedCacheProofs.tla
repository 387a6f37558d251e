--------------------------- MODULE TimedCacheProofs ---------------------------
(***************************************************************************)
(* TimedCache implements CachePromise, for every number of goroutines and  *)
(* entries and every history of the resource, and its readers never see    *)
(* the resource go back to an older version.                               *)
(***************************************************************************)
EXTENDS TimedCache, TLAPS

\* Entries that Collect keeps have their new data, the others have none.
LEMMA CollectData ==
    ASSUME NEW d, NEW x, Collect(d, x)
    PROVE  /\ \A e \in Entries : data'[e] # NoData =>
                 data'[e] = d[e] /\ (e = store' \/ \E p \in Clients : ptr'[p] = e)
           /\ data' = [e \in Entries |-> data'[e]]
           /\ expired' \subseteq x
  BY DEF Collect

\* Collect keeps the types.
LEMMA CollectTyped ==
    ASSUME NEW d \in [Entries -> Nat \cup {NoData}],
           NEW x \in SUBSET Entries, Collect(d, x)
    PROVE  /\ data' \in [Entries -> Nat \cup {NoData}]
           /\ expired' \in SUBSET Entries
  BY DEF Collect

\* Every step keeps the types; that an entry is locked through a pointer is
\* what Shape adds.
LEMMA TypeStep == TypeOK /\ Shape /\ [Next]_vars => TypeOK'
<1> SUFFICES ASSUME TypeOK, Shape, [Next]_vars PROVE TypeOK'
  OBVIOUS
<1> USE CacheAssumption DEF TypeOK, entryVars, local, history, Reads, Answers
<1>1. ASSUME NEW p \in Clients, NEW k \in Reads, Get(p, k) PROVE TypeOK'
  BY <1>1 DEF Get, Lookup
<1>2. ASSUME NEW p \in Clients, NEW v \in Present \cap (0..ver), Update(p, v)
      PROVE  TypeOK'
  BY <1>2 DEF Update, Lookup
<1>3. ASSUME NEW p \in Clients, Recheck(p) PROVE TypeOK'
  BY <1>3 DEF Recheck
<1>4. ASSUME NEW p \in Clients, NEW e \in Entries, AddEntry(p, e) PROVE TypeOK'
  <2>1. Collect([data EXCEPT ![e] = NoData], expired \ {e})
    BY <1>4 DEF AddEntry
  <2>2. data' \in [Entries -> Nat \cup {NoData}] /\ expired' \in SUBSET Entries
    <3> DEFINE d == [data EXCEPT ![e] = NoData]
    <3>1. d \in [Entries -> Nat \cup {NoData}]
      OBVIOUS
    <3>2. Collect(d, expired \ {e})
      BY <2>1
    <3> HIDE DEF d
    <3> QED
      BY <3>1, <3>2, CollectTyped
  <2> QED
    BY <1>4, <2>2 DEF AddEntry
<1>5. ASSUME NEW p \in Clients, ReturnCached(p) PROVE TypeOK'
  <2>1. Collect(data, expired)
    BY <1>5 DEF ReturnCached
  <2>2. data' \in [Entries -> Nat \cup {NoData}] /\ expired' \in SUBSET Entries
    BY <2>1, CollectTyped
  <2>3. got' \in [Clients -> Answers]
    <3>1. data[ptr[p]] # NoData /\ got' = [got EXCEPT ![p] = data[ptr[p]]]
      BY <1>5 DEF ReturnCached, Usable, Answered
    <3>2. ptr[p] \in Entries
      BY <1>5 DEF ReturnCached, Shape
    <3> QED
      BY <3>1, <3>2
  <2>4. high' \in Nat
    <3>1. ptr[p] \in Entries /\ data[ptr[p]] # NoData
      BY <1>5 DEF ReturnCached, Usable, Shape
    <3> QED
      BY <1>5, <3>1 DEF ReturnCached, Answered
  <2> QED
    BY <1>5, <2>2, <2>3, <2>4 DEF ReturnCached, Done
<1>6. ASSUME NEW p \in Clients, LockForGetter(p) PROVE TypeOK'
  BY <1>6 DEF LockForGetter
<1>7. ASSUME NEW p \in Clients, Getter(p) PROVE TypeOK'
  BY <1>7 DEF Getter
<1>8. ASSUME NEW p \in Clients, GetterFails(p) PROVE TypeOK'
  <2>1. data' \in [Entries -> Nat \cup {NoData}] /\ expired' \in SUBSET Entries
    BY <1>8, CollectTyped DEF GetterFails
  <2> QED
    BY <1>8, <2>1 DEF GetterFails, Done
<1>9. ASSUME NEW p \in Clients, FillEntry(p) PROVE TypeOK'
  <2> DEFINE d == [e \in Entries |->
                      IF e = ptr[p] THEN AsData(val[p]) ELSE data[e]]
  <2>1. d \in [Entries -> Nat \cup {NoData}]
    BY DEF AsData
  <2>2. Collect(d, expired \ {ptr[p]})
    BY <1>9 DEF FillEntry
  <2> HIDE DEF d
  <2>3. data' \in [Entries -> Nat \cup {NoData}] /\ expired' \in SUBSET Entries
    BY <2>1, <2>2, CollectTyped
  <2> QED
    BY <1>9, <2>3 DEF FillEntry, Answered, Done
<1>10. ASSUME NEW p \in Clients, UpdateEntry(p) PROVE TypeOK'
  <2>1. data' \in [Entries -> Nat \cup {NoData}] /\ expired' \in SUBSET Entries
    <3> DEFINE d == [data EXCEPT ![ptr[p]] = val[p]]
    <3>1. d \in [Entries -> Nat \cup {NoData}]
      OBVIOUS
    <3>2. Collect(d, expired \ {ptr[p]})
      BY <1>10 DEF UpdateEntry
    <3> HIDE DEF d
    <3> QED
      BY <3>1, <3>2, CollectTyped
  <2> QED
    BY <1>10, <2>1 DEF UpdateEntry, Weaken, Lower
<1>11. CASE Delete
  <2>1. data' \in [Entries -> Nat \cup {NoData}] /\ expired' \in SUBSET Entries
    BY <1>11, CollectTyped DEF Delete
  <2> QED
    BY <1>11, <2>1 DEF Delete
<1>12. ASSUME NEW e \in Entries, NEW v \in Present \cap (0..ver), Set(e, v)
       PROVE  TypeOK'
  <2>1. data' \in [Entries -> Nat \cup {NoData}] /\ expired' \in SUBSET Entries
    <3> DEFINE d == [data EXCEPT ![e] = v]
    <3>1. d \in [Entries -> Nat \cup {NoData}]
      OBVIOUS
    <3>2. Collect(d, expired \ {e})
      BY <1>12 DEF Set
    <3> HIDE DEF d
    <3> QED
      BY <3>1, <3>2, CollectTyped
  <2> QED
    BY <1>12, <2>1 DEF Set, Weaken, Lower
<1>13. ASSUME NEW e \in Entries, Expire(e) PROVE TypeOK'
  BY <1>13 DEF Expire
<1>14. CASE Write
  BY <1>14 DEF Write
<1>15. CASE UNCHANGED vars
  BY <1>15 DEF vars
<1> QED
  BY <1>1, <1>2, <1>3, <1>4, <1>5, <1>6, <1>7, <1>8, <1>9, <1>10, <1>11, <1>12,
     <1>13, <1>14, <1>15
  DEF Next, ClientStep

\* Every step keeps pointers and operations in shape.
LEMMA ShapeStep == TypeOK /\ Shape /\ [Next]_vars => Shape'
<1> SUFFICES ASSUME TypeOK, Shape, [Next]_vars PROVE Shape'
  OBVIOUS
<1> USE CacheAssumption DEF TypeOK, Shape, entryVars, local, history, Reads
<1>1. ASSUME NEW p \in Clients, NEW k \in Reads, Get(p, k) PROVE Shape'
  BY <1>1 DEF Get, Lookup
<1>2. ASSUME NEW p \in Clients, NEW v \in Present \cap (0..ver), Update(p, v)
      PROVE  Shape'
  BY <1>2 DEF Update, Lookup
<1>3. ASSUME NEW p \in Clients, Recheck(p) PROVE Shape'
  BY <1>3 DEF Recheck
<1>4. ASSUME NEW p \in Clients, NEW e \in Entries, AddEntry(p, e) PROVE Shape'
  BY <1>4 DEF AddEntry
<1>5. ASSUME NEW p \in Clients,
             (Done(p) /\ UNCHANGED ver) \/ UpdateEntry(p)
      PROVE  Shape'
  BY <1>5 DEF Done, UpdateEntry
<1>6. ASSUME NEW p \in Clients, ReturnCached(p) \/ GetterFails(p) \/ FillEntry(p)
      PROVE  Shape'
  BY <1>5, <1>6 DEF ReturnCached, GetterFails, FillEntry
<1>7. ASSUME NEW p \in Clients, LockForGetter(p) PROVE Shape'
  BY <1>7 DEF LockForGetter
<1>8. ASSUME NEW p \in Clients, Getter(p) PROVE Shape'
  BY <1>8 DEF Getter
<1>9. CASE UNCHANGED <<local, ver>>
  BY <1>9
<1>10. CASE Delete \/ \E e \in Entries : Expire(e)
  BY <1>9, <1>10 DEF Delete, Expire
<1>11. ASSUME NEW e \in Entries, NEW v, Set(e, v) PROVE Shape'
  BY <1>9, <1>11 DEF Set
<1>12. CASE Write
  BY <1>12 DEF Write
<1>13. CASE UNCHANGED vars
  BY <1>9, <1>13 DEF vars
<1> QED
  BY <1>1, <1>2, <1>3, <1>4, <1>5, <1>6, <1>7, <1>8, <1>10, <1>11, <1>12, <1>13
  DEF Next, ClientStep

\* Every variable of TimedCache keeps its type, for every number of
\* goroutines and entries.
THEOREM TypeCorrect == Spec => [](TypeOK /\ Shape)
<1>1. Init => TypeOK /\ Shape
  BY DEF Init, TypeOK, Shape, Reads, Answers
<1> QED
  BY <1>1, TypeStep, ShapeStep, PTL DEF Spec

\* At most one goroutine has the lock of an entry.
SingleFlight ==
    \A p, q \in Clients :
        /\ pc[p] \in {"fetch", "fill"} /\ pc[q] \in {"fetch", "fill"}
        /\ ptr[p] = ptr[q] /\ ptr[p] # NoEntry
        => p = q

\* The lock of an entry excludes other reads from asking Azure for its data.
LEMMA OneFlight == Spec => []SingleFlight
<1>1. Init => SingleFlight
  BY DEF Init, SingleFlight
<1>2. TypeOK /\ Shape /\ SingleFlight /\ [Next]_vars => SingleFlight'
  <2> SUFFICES ASSUME TypeOK, Shape, SingleFlight, [Next]_vars
               PROVE  SingleFlight'
    OBVIOUS
  <2> USE DEF TypeOK, SingleFlight, entryVars, local, history
  <2>1. ASSUME NEW p \in Clients,
               \/ \E k \in Reads : Get(p, k)
               \/ \E v \in Present : Update(p, v)
        PROVE  SingleFlight'
    BY <2>1 DEF Get, Update, Lookup
  <2>2. ASSUME NEW p \in Clients,
               Recheck(p) \/ \E e \in Entries : AddEntry(p, e)
        PROVE  SingleFlight'
    <3>1. pc'[p] \notin {"fetch", "fill"}
      BY <2>2 DEF Recheck, AddEntry
    <3>2. \A q \in Clients \ {p} : pc'[q] = pc[q] /\ ptr'[q] = ptr[q]
      BY <2>2 DEF Recheck, AddEntry
    <3> QED
      BY <3>1, <3>2
  <2>3. ASSUME NEW p \in Clients, LockForGetter(p) PROVE SingleFlight'
    BY <2>3 DEF LockForGetter, LockIsFree, Locked
  <2>4. ASSUME NEW p \in Clients, Getter(p) PROVE SingleFlight'
    BY <2>4 DEF Getter
  <2>5. ASSUME NEW p \in Clients, Done(p) \/ UpdateEntry(p)
        PROVE  SingleFlight'
    BY <2>5 DEF Done, UpdateEntry
  <2>6. ASSUME NEW p \in Clients,
               ReturnCached(p) \/ GetterFails(p) \/ FillEntry(p)
        PROVE  SingleFlight'
    BY <2>5, <2>6 DEF ReturnCached, GetterFails, FillEntry
  <2>7. CASE UNCHANGED local
    BY <2>7
  <2>8. CASE Delete \/ Write \/ UNCHANGED vars \/ \E e \in Entries : Expire(e)
    BY <2>7, <2>8 DEF Delete, Write, Expire, vars
  <2>9. ASSUME NEW e \in Entries, NEW v, Set(e, v) PROVE SingleFlight'
    BY <2>7, <2>9 DEF Set
  <2> QED
    BY <2>1, <2>2, <2>3, <2>4, <2>5, <2>6, <2>8, <2>9 DEF Next, ClientStep
<1> QED
  BY <1>1, <1>2, TypeCorrect, PTL DEF Spec

-------------------------------------------------------------------------------
\* The bounds on reads stay below the floor, and the floor below Azure.
LEMMA BoundsStep == TypeOK /\ Shape /\ Bounds /\ [Next]_vars => Bounds'
<1> SUFFICES ASSUME TypeOK, Shape, Bounds, [Next]_vars PROVE Bounds'
  OBVIOUS
<1> USE DEF TypeOK, Bounds, entryVars, local, history
<1>1. CASE UNCHANGED <<ver, history>>
  BY <1>1
<1>2. ASSUME NEW p \in Clients, NEW k \in Reads, Get(p, k) PROVE Bounds'
  BY <1>2 DEF Get, Lookup
<1>3. ASSUME NEW p \in Clients, NEW v, Update(p, v) PROVE Bounds'
  BY <1>1, <1>3 DEF Update, Lookup
<1>4. ASSUME NEW p \in Clients,
             \/ Recheck(p) \/ LockForGetter(p) \/ Getter(p)
             \/ \E e \in Entries : AddEntry(p, e)
      PROVE  Bounds'
  BY <1>1, <1>4 DEF Recheck, LockForGetter, Getter, AddEntry
<1>5. ASSUME NEW p \in Clients, ReturnCached(p) \/ GetterFails(p) \/ FillEntry(p)
      PROVE  Bounds'
  <2>1. Done(p) /\ UNCHANGED <<ver, floor>>
    BY <1>5 DEF ReturnCached, GetterFails, FillEntry
  <2> QED
    BY <2>1 DEF Done
<1>6. ASSUME NEW v \in Nat, Weaken(v), UNCHANGED <<ver, begun>> PROVE Bounds'
  BY <1>6 DEF Weaken, Lower
<1>7. ASSUME NEW p \in Clients, UpdateEntry(p) PROVE Bounds'
  BY <1>6, <1>7 DEF UpdateEntry
<1>8. ASSUME NEW e \in Entries, NEW v \in Present \cap (0..ver), Set(e, v)
      PROVE  Bounds'
  BY <1>6, <1>8 DEF Set
<1>9. CASE Delete
  BY <1>9 DEF Delete
<1>10. CASE Write
  BY <1>10 DEF Write
<1>11. CASE UNCHANGED vars \/ \E e \in Entries : Expire(e)
  BY <1>1, <1>11 DEF vars, Expire
<1> QED
  BY <1>2, <1>3, <1>4, <1>5, <1>7, <1>8, <1>9, <1>10, <1>11
  DEF Next, ClientStep

\* What is in an entry stays good enough for everybody who can still see it.
LEMMA DataStep == TypeOK /\ CacheInv /\ [Next]_vars => DataSound'
<1> SUFFICES ASSUME TypeOK, CacheInv, [Next]_vars PROVE DataSound'
  OBVIOUS
<1> USE CacheAssumption
    DEF TypeOK, CacheInv, Bounds, DataSound, entryVars, local, history
<1>1. ASSUME NEW p \in Clients, Lookup(p, "update") \/ Recheck(p),
             UNCHANGED <<ver, floor, since>>
      PROVE  DataSound'
  BY <1>1 DEF Lookup, Recheck
<1>2. ASSUME NEW p \in Clients, NEW k \in Reads, Get(p, k) PROVE DataSound'
  BY <1>2 DEF Get, Lookup
<1>3. ASSUME NEW p \in Clients,
             Recheck(p) \/ \E v \in Present \cap (0..ver) : Update(p, v)
      PROVE  DataSound'
  BY <1>1, <1>3 DEF Update, Recheck, Lookup
<1>4. ASSUME NEW p \in Clients, NEW e \in Entries, AddEntry(p, e)
      PROVE  DataSound'
  <2> DEFINE d == [data EXCEPT ![e] = NoData]
  <2>1. Collect(d, expired \ {e})
    BY <1>4 DEF AddEntry
  <2>2. \A f \in Entries : d[f] # NoData => f # e /\ d[f] = data[f]
    OBVIOUS
  <2> HIDE DEF d
  <2>3. \A f \in Entries : data'[f] # NoData => f # e /\ data'[f] = data[f]
    BY <2>1, <2>2, CollectData
  <2>4. \A q \in Clients, f \in Entries \ {e} : ptr'[q] = f => ptr[q] = f
    BY <1>4 DEF AddEntry
  <2>5. store' = e /\ UNCHANGED <<ver, since>>
    BY <1>4 DEF AddEntry
  <2> QED
    BY <2>3, <2>4, <2>5
<1>5. ASSUME NEW p \in Clients, ReturnCached(p) \/ GetterFails(p)
      PROVE  DataSound'
  <2>1. Done(p) /\ Collect(data, expired) /\ UNCHANGED <<ver, floor, store>>
    BY <1>5 DEF ReturnCached, GetterFails
  <2>2. \A f \in Entries : data'[f] # NoData => data'[f] = data[f]
    BY <2>1, CollectData
  <2>3. \A q \in Clients, f \in Entries :
           ptr'[q] = f => ptr[q] = f /\ since'[q] = since[q]
    BY <2>1 DEF Done
  <2> QED
    BY <2>1, <2>2, <2>3
<1>6. ASSUME NEW p \in Clients, LockForGetter(p) \/ Getter(p)
      PROVE  DataSound'
  BY <1>6 DEF LockForGetter, Getter
<1>7. ASSUME NEW p \in Clients, FillEntry(p) PROVE DataSound'
  <2> DEFINE d == [e \in Entries |->
                      IF e = ptr[p] THEN AsData(val[p]) ELSE data[e]]
  <2>1. Collect(d, expired \ {ptr[p]}) /\ Done(p)
        /\ UNCHANGED <<ver, floor, store>> /\ pc[p] = "fill"
    BY <1>7 DEF FillEntry
  <2>2. \A f \in Entries : d[f] # NoData =>
           IF f = ptr[p] THEN d[f] = val[p] /\ val[p] \in Present
                         ELSE d[f] = data[f]
    BY DEF AsData
  <2> HIDE DEF d
  <2>3. \A f \in Entries : data'[f] # NoData =>
           IF f = ptr[p] THEN data'[f] = val[p] /\ val[p] \in Present
                         ELSE data'[f] = data[f]
    BY <2>1, <2>2, CollectData
  <2>4. \A q \in Clients, f \in Entries :
           ptr'[q] = f => ptr[q] = f /\ since'[q] = since[q]
    BY <2>1 DEF Done
  <2>5. ptr[p] # NoEntry =>
           /\ val[p] <= ver
           /\ ptr[p] = store => floor <= val[p]
           /\ \A q \in Clients : ptr[q] = ptr[p] => since[q] <= val[p]
    BY <2>1 DEF AnswerSound
  <2> QED
    BY <2>1, <2>3, <2>4, <2>5
<1>8. ASSUME NEW v \in Nat, Weaken(v)
      PROVE  /\ floor' \in Nat /\ floor' <= floor /\ floor' <= v
             /\ \A q \in Clients : /\ since'[q] \in Nat
                                   /\ since'[q] <= since[q] /\ since'[q] <= v
  BY <1>8 DEF Weaken, Lower
<1>9. ASSUME NEW p \in Clients, UpdateEntry(p) PROVE DataSound'
  <2> DEFINE d == [data EXCEPT ![ptr[p]] = val[p]]
  <2>1. Collect(d, expired \ {ptr[p]}) /\ Weaken(val[p])
        /\ UNCHANGED <<ver, store>> /\ ptr' = [ptr EXCEPT ![p] = NoEntry]
    BY <1>9 DEF UpdateEntry
  <2>2. \A f \in Entries : d[f] = IF f = ptr[p] THEN val[p] ELSE data[f]
    OBVIOUS
  <2> HIDE DEF d
  <2>3. \A f \in Entries : data'[f] # NoData =>
           data'[f] = IF f = ptr[p] THEN val[p] ELSE data[f]
    BY <2>1, <2>2, CollectData
  <2>4. val[p] \in Present /\ val[p] <= ver /\ val[p] \in Nat
    BY <1>9 DEF UpdateEntry, Shape
  <2>5. \A q \in Clients, f \in Entries : ptr'[q] = f => ptr[q] = f
    BY <2>1
  <2> QED
    BY <2>1, <2>3, <2>4, <2>5, <1>8
<1>10. CASE Delete
  <2>1. Collect(data, expired) /\ store' = NoEntry /\ UNCHANGED <<ver, local, since>>
    BY <1>10 DEF Delete
  <2>2. \A f \in Entries : data'[f] # NoData => data'[f] = data[f]
    BY <2>1, CollectData
  <2> QED
    BY <2>1, <2>2
<1>11. ASSUME NEW e \in Entries, NEW v \in Present \cap (0..ver), Set(e, v)
       PROVE  DataSound'
  <2> DEFINE d == [data EXCEPT ![e] = v]
  <2>1. Collect(d, expired \ {e}) /\ Weaken(v) /\ store' = e
        /\ UNCHANGED <<ver, local>>
    BY <1>11 DEF Set
  <2>2. \A f \in Entries : d[f] = IF f = e THEN v ELSE data[f]
    OBVIOUS
  <2> HIDE DEF d
  <2>3. \A f \in Entries : data'[f] # NoData =>
           data'[f] = IF f = e THEN v ELSE data[f]
    BY <2>1, <2>2, CollectData
  <2>4. v \in Present /\ v <= ver /\ v \in Nat
    OBVIOUS
  <2> QED
    BY <2>1, <2>3, <2>4, <1>8
<1>12. CASE Write
  BY <1>12 DEF Write
<1>13. CASE UNCHANGED vars \/ \E e \in Entries : Expire(e)
  BY <1>13 DEF vars, Expire
<1> QED
  BY <1>2, <1>3, <1>4, <1>5, <1>6, <1>7, <1>9, <1>10, <1>11, <1>12, <1>13
  DEF Next, ClientStep

\* An answer on its way stays good enough for the entry it goes to.
LEMMA AnswerStep == TypeOK /\ CacheInv /\ [Next]_vars => AnswerSound'
<1> SUFFICES ASSUME TypeOK, CacheInv, [Next]_vars PROVE AnswerSound'
  OBVIOUS
<1> USE CacheAssumption
    DEF TypeOK, CacheInv, Bounds, AnswerSound, entryVars, local, history
<1>1. ASSUME NEW p \in Clients, NEW k \in Reads, Get(p, k) PROVE AnswerSound'
  <2>1. pc'[p] # "fill" /\ since'[p] = floor /\ ptr'[p] \in {store, NoEntry}
    BY <1>1 DEF Get, Lookup
  <2>2. \A q \in Clients \ {p} : /\ pc'[q] = pc[q] /\ ptr'[q] = ptr[q]
                               /\ since'[q] = since[q] /\ begun'[q] = begun[q]
    BY <1>1 DEF Get, Lookup
  <2>3. UNCHANGED <<ver, store, val, floor>>
    BY <1>1 DEF Get, Lookup
  <2> QED
    BY <2>1, <2>2, <2>3
<1>2. ASSUME NEW p \in Clients,
             Recheck(p) \/ \E v \in Present \cap (0..ver) : Update(p, v)
      PROVE  AnswerSound'
  <2>1. pc'[p] # "fill" /\ ptr'[p] \in {store, NoEntry}
    BY <1>2 DEF Recheck, Update, Lookup
  <2>2. \A q \in Clients \ {p} :
           pc'[q] = pc[q] /\ ptr'[q] = ptr[q] /\ val'[q] = val[q]
    BY <1>2 DEF Recheck, Update, Lookup
  <2>3. UNCHANGED <<ver, store, history>>
    BY <1>2 DEF Recheck, Update, Lookup
  <2> QED
    BY <2>1, <2>2, <2>3
<1>3. ASSUME NEW p \in Clients, NEW e \in Entries, AddEntry(p, e)
      PROVE  AnswerSound'
  <2>1. pc'[p] = "lock" /\ ptr'[p] = e /\ store' = e
    BY <1>3 DEF AddEntry
  <2>2. \A q \in Clients \ {p} :
           pc'[q] = pc[q] /\ ptr'[q] = ptr[q] /\ ptr[q] # e
    BY <1>3 DEF AddEntry, Free
  <2>3. UNCHANGED <<ver, val, history>>
    BY <1>3 DEF AddEntry
  <2> QED
    BY <2>1, <2>2, <2>3
<1>4. ASSUME NEW p \in Clients, ReturnCached(p) \/ GetterFails(p) \/ FillEntry(p)
      PROVE  AnswerSound'
  <2>1. Done(p) /\ UNCHANGED <<ver, floor, store>>
    BY <1>4 DEF ReturnCached, GetterFails, FillEntry
  <2>2. pc'[p] = "idle" /\ ptr'[p] = NoEntry
    BY <2>1 DEF Done
  <2>3. \A q \in Clients \ {p} :
           /\ pc'[q] = pc[q] /\ ptr'[q] = ptr[q] /\ val'[q] = val[q]
           /\ since'[q] = since[q] /\ begun'[q] = begun[q]
    BY <2>1 DEF Done
  <2> QED
    BY <2>1, <2>2, <2>3
<1>5. ASSUME NEW p \in Clients, LockForGetter(p) PROVE AnswerSound'
  BY <1>5 DEF LockForGetter
<1>6. ASSUME NEW p \in Clients, Getter(p) PROVE AnswerSound'
  <2>1. pc'[p] = "fill" /\ val'[p] = ver
    BY <1>6 DEF Getter
  <2>2. \A q \in Clients \ {p} : pc'[q] = pc[q] /\ val'[q] = val[q]
    BY <1>6 DEF Getter
  <2>3. UNCHANGED <<ver, store, ptr, history>>
    BY <1>6 DEF Getter
  <2>4. \A q \in Clients : since[q] <= ver
    OBVIOUS
  <2> QED
    BY <2>1, <2>2, <2>3, <2>4
<1>7. ASSUME NEW v \in Nat, Weaken(v)
      PROVE  /\ floor' \in Nat /\ floor' <= floor
             /\ \A q \in Clients : since'[q] \in Nat /\ since'[q] <= since[q]
  BY <1>7 DEF Weaken, Lower
<1>8. ASSUME NEW p \in Clients, UpdateEntry(p) PROVE AnswerSound'
  <2>1. Weaken(val[p]) /\ UNCHANGED <<ver, store, begun>>
    BY <1>8 DEF UpdateEntry
  <2>2. pc'[p] = "idle" /\ ptr'[p] = NoEntry
    BY <1>8 DEF UpdateEntry
  <2>3. \A q \in Clients \ {p} :
           pc'[q] = pc[q] /\ ptr'[q] = ptr[q] /\ val'[q] = val[q]
    BY <1>8 DEF UpdateEntry
  <2> QED
    BY <2>1, <2>2, <2>3, <1>7
<1>9. CASE Delete
  BY <1>9 DEF Delete
<1>10. ASSUME NEW e \in Entries, NEW v \in Present \cap (0..ver), Set(e, v)
       PROVE  AnswerSound'
  <2>1. Weaken(v) /\ store' = e /\ UNCHANGED <<ver, local, begun>>
    BY <1>10 DEF Set
  <2>2. \A q \in Clients : ptr[q] # e
    BY <1>10 DEF Set, Free
  <2> QED
    BY <2>1, <2>2, <1>7
<1>11. CASE Write
  BY <1>11 DEF Write
<1>12. CASE UNCHANGED vars \/ \E e \in Entries : Expire(e)
  BY <1>12 DEF vars, Expire
<1> QED
  BY <1>1, <1>2, <1>3, <1>4, <1>5, <1>6, <1>8, <1>9, <1>10, <1>11, <1>12
  DEF Next, ClientStep

\* The data that readers of the store, and those who hold an entry, can see
\* is never older than what their read promises.
THEOREM CacheSound == Spec => []CacheInv
<1>1. Init => CacheInv
  BY CacheAssumption DEF Init, CacheInv, Shape, Bounds, DataSound, AnswerSound
<1>2. TypeOK /\ CacheInv /\ [Next]_vars => CacheInv'
  BY ShapeStep, BoundsStep, DataStep, AnswerStep DEF CacheInv
<1> QED
  BY <1>1, <1>2, TypeCorrect, PTL DEF Spec

-------------------------------------------------------------------------------
\* Every step of the cache is a step of the promise, or one it does not see.
LEMMA PromiseStep ==
    TypeOK /\ CacheInv /\ [Next]_vars => [Promise!PNext]_(Promise!pvars)
<1> SUFFICES ASSUME TypeOK, CacheInv, [Next]_vars
             PROVE  Promise!PNext \/ UNCHANGED Promise!pvars
  OBVIOUS
<1> USE CacheAssumption DEF TypeOK, Reads, entryVars, local, history
<1> DEFINE Forced == {p \in Reading : kind[p] = "force"}
<1>1. ASSUME NEW p \in Clients, NEW k \in Reads, Get(p, k)
      PROVE  Promise!PBegin(p, k = "force")
  <2>1. Reading' = Reading \cup {p} /\ p \notin Reading
    BY <1>1 DEF Get, Lookup, Reading
  <2>2. Forced' = IF k = "force" THEN Forced \cup {p} ELSE Forced
    BY <1>1, <2>1 DEF Get, Lookup, Reading
  <2> QED
    BY <1>1, <2>1, <2>2 DEF Get, Lookup, Promise!PBegin
<1>2. ASSUME NEW p \in Clients,
             \/ Recheck(p) \/ LockForGetter(p) \/ Getter(p)
             \/ \E e \in Entries : AddEntry(p, e)
      PROVE  UNCHANGED Promise!pvars
  <2>1. UNCHANGED <<kind, ver, history>>
    BY <1>2 DEF Recheck, LockForGetter, Getter, AddEntry
  <2>2. \A q \in Clients : pc'[q] = "idle" <=> pc[q] = "idle"
    BY <1>2 DEF Recheck, LockForGetter, Getter, AddEntry
  <2> QED
    BY <2>1, <2>2 DEF Promise!pvars, Reading
<1>3. ASSUME NEW p \in Clients, NEW v \in Present, Update(p, v)
      PROVE  UNCHANGED Promise!pvars
  <2>1. Reading' = Reading /\ Forced' = Forced
    BY <1>3 DEF Update, Lookup, Reading
  <2> QED
    BY <1>3, <2>1 DEF Update, Lookup, Promise!pvars
<1>4. ASSUME NEW p \in Clients, Done(p), p \in Reading, UNCHANGED <<ver, floor>>
      PROVE  Promise!Ended(p)
  <2>1. Reading' = Reading \ {p} /\ Forced' = Forced \ {p}
    BY <1>4 DEF Done, Reading
  <2> QED
    BY <1>4, <2>1 DEF Done, Promise!Ended
<1>5. ASSUME NEW p \in Clients, ReturnCached(p)
      PROVE  \E v \in 0..ver : Promise!PReturn(p, v)
  <2> DEFINE v == data[ptr[p]]
  <2>1. ptr[p] \in Entries /\ v # NoData
    BY <1>5 DEF ReturnCached, Usable, CacheInv, Shape
  <2>2. v \in 0..ver /\ v \in Present /\ since[p] <= v
    BY <2>1 DEF CacheInv, DataSound
  <2>3. p \in Reading /\ p \notin Forced
    BY <1>5 DEF ReturnCached, Usable, Reading
  <2>4. Promise!Ended(p) /\ got' = [got EXCEPT ![p] = v]
    BY <1>4, <1>5, <2>3 DEF ReturnCached, Answered
  <2> HIDE DEF v, Forced
  <2> QED
    BY <2>2, <2>3, <2>4 DEF Promise!PReturn, Forced
<1>6. ASSUME NEW p \in Clients, FillEntry(p)
      PROVE  \E v \in 0..ver : Promise!PReturn(p, v)
  <2>1. pc[p] = "fill" /\ p \in Reading
    BY <1>6 DEF FillEntry, Reading, CacheInv, Shape
  <2>2. val[p] \in 0..ver /\ begun[p] <= val[p] /\ since[p] <= val[p]
    BY <2>1 DEF CacheInv, AnswerSound, Bounds
  <2>3. Promise!Ended(p) /\ got' = [got EXCEPT ![p] = val[p]]
    BY <1>4, <1>6, <2>1 DEF FillEntry, Answered
  <2> QED
    BY <2>2, <2>3 DEF Promise!PReturn
<1>7. ASSUME NEW p \in Clients, GetterFails(p) PROVE Promise!PFail(p)
  <2>1. p \in Reading
    BY <1>7 DEF GetterFails, Reading, CacheInv, Shape
  <2> QED
    BY <1>4, <1>7, <2>1 DEF GetterFails, Promise!PFail
<1>8. ASSUME NEW v, Weaken(v), UNCHANGED <<ver, begun, got>>,
             Reading' = Reading, Forced' = Forced
      PROVE  Promise!PPut(v)
  BY <1>8 DEF Weaken, Lower, Promise!PPut, Promise!Lower
<1>9. ASSUME NEW p \in Clients, UpdateEntry(p)
      PROVE  \E v \in 0..ver : Promise!PPut(v)
  <2>1. val[p] \in 0..ver
    BY <1>9 DEF UpdateEntry, CacheInv, Shape
  <2>2. Reading' = Reading /\ Forced' = Forced
    BY <1>9 DEF UpdateEntry, Reading
  <2>3. Promise!PPut(val[p])
    BY <1>8, <1>9, <2>2 DEF UpdateEntry
  <2> QED
    BY <2>1, <2>3
<1>10. ASSUME NEW e \in Entries, NEW v \in Present \cap (0..ver), Set(e, v)
       PROVE  Promise!PPut(v)
  <2>1. Reading' = Reading /\ Forced' = Forced
    BY <1>10 DEF Set, Reading
  <2> QED
    BY <1>8, <1>10, <2>1 DEF Set
<1>11. CASE Delete
  <2>1. Promise!PInvalidate
    BY <1>11 DEF Delete, Promise!PInvalidate, Reading
  <2> QED
    BY <2>1 DEF Promise!PNext
<1>12. CASE Write
  <2>1. Promise!PWrite
    BY <1>12 DEF Write, Promise!PWrite, Reading
  <2> QED
    BY <2>1 DEF Promise!PNext
<1>13. CASE UNCHANGED vars \/ \E e \in Entries : Expire(e)
  BY <1>13 DEF vars, Expire, Promise!pvars, Reading
<1>14. ASSUME NEW p \in Clients, NEW k \in Reads, Get(p, k) PROVE Promise!PNext
  <2>1. (k = "force") \in BOOLEAN
    OBVIOUS
  <2> QED
    BY <1>1, <1>14, <2>1, Zenon DEF Promise!PNext
<1>15. ASSUME NEW p \in Clients, ClientStep(p)
       PROVE  Promise!PNext \/ UNCHANGED Promise!pvars
  BY <1>2, <1>5, <1>6, <1>7, <1>9, <1>15, Zenon DEF ClientStep, Promise!PNext
<1>16. ASSUME NEW e \in Entries, NEW v \in Present \cap (0..ver), Set(e, v)
       PROVE  Promise!PNext
  <2>1. v \in 0..ver
    OBVIOUS
  <2> QED
    BY <1>10, <1>16, <2>1, Zenon DEF Promise!PNext
<1>17. ASSUME NEW p \in Clients, NEW v \in Present \cap (0..ver), Update(p, v)
       PROVE  UNCHANGED Promise!pvars
  BY <1>3, <1>17
<1> QED
  BY <1>11, <1>12, <1>13, <1>14, <1>15, <1>16, <1>17, Zenon DEF Next

\* The cache implements CachePromise, for every number of goroutines and
\* every history of the resource in Azure.
THEOREM Refinement == Spec => KeepsPromise
<1>1. Init => Promise!PInit
  BY DEF Init, Promise!PInit, Reading
<1>2. TypeOK /\ CacheInv /\ [Next]_vars => [Promise!PNext]_(Promise!pvars)
  BY PromiseStep
<1> QED
  BY <1>1, <1>2, TypeCorrect, CacheSound, PTL
  DEF Spec, KeepsPromise, Promise!PSpec

-------------------------------------------------------------------------------
(* Reads in order. *)

\* What earlier reads returned is not newer than the data of the entry under
\* the key, nor than what is on its way to it; and what a reader knows of is
\* not newer than what the entry it holds will give it.
OrderInv ==
    /\ high <= ver
    /\ \A p \in Clients : seen[p] <= high
    /\ \A e \in Entries : data[e] # NoData =>
          /\ e = store => high <= data[e]
          /\ \A p \in Clients : ptr[p] = e => seen[p] <= data[e]
    /\ \A q \in Clients : pc[q] = "fill" =>
          /\ seen[q] <= val[q]
          /\ ptr[q] # NoEntry =>
                /\ ptr[q] = store => high <= val[q]
                /\ \A p \in Clients : ptr[p] = ptr[q] => seen[p] <= val[q]

\* Every step keeps the order; the lock of an entry keeps a read from
\* returning newer data while older data is on its way to the entry.
LEMMA OrderStep ==
    TypeOK /\ CacheInv /\ SingleFlight /\ OrderInv /\ [Next]_vars => OrderInv'
<1> SUFFICES ASSUME TypeOK, CacheInv, SingleFlight, OrderInv, [Next]_vars
             PROVE  OrderInv'
  OBVIOUS
<1> USE CacheAssumption
    DEF TypeOK, CacheInv, Shape, OrderInv, entryVars, local, history
<1>1. ASSUME NEW p \in Clients, NEW k \in Reads, Get(p, k) PROVE OrderInv'
  <2>1. pc'[p] # "fill" /\ seen'[p] = high /\ ptr'[p] \in {store, NoEntry}
    BY <1>1 DEF Get, Lookup
  <2>2. \A q \in Clients \ {p} :
           pc'[q] = pc[q] /\ ptr'[q] = ptr[q] /\ seen'[q] = seen[q]
    BY <1>1 DEF Get, Lookup
  <2>3. UNCHANGED <<ver, store, data, val, high>>
    BY <1>1 DEF Get, Lookup
  <2> QED
    BY <2>1, <2>2, <2>3
<1>2. ASSUME NEW p \in Clients,
             Recheck(p) \/ \E v \in Present \cap (0..ver) : Update(p, v)
      PROVE  OrderInv'
  <2>1. pc'[p] # "fill" /\ ptr'[p] \in {store, NoEntry}
    BY <1>2 DEF Recheck, Update, Lookup
  <2>2. \A q \in Clients \ {p} :
           pc'[q] = pc[q] /\ ptr'[q] = ptr[q] /\ val'[q] = val[q]
    BY <1>2 DEF Recheck, Update, Lookup
  <2>3. UNCHANGED <<ver, store, data, history>>
    BY <1>2 DEF Recheck, Update, Lookup
  <2> QED
    BY <2>1, <2>2, <2>3
<1>3. ASSUME NEW p \in Clients, NEW e \in Entries, AddEntry(p, e)
      PROVE  OrderInv'
  <2> DEFINE d == [data EXCEPT ![e] = NoData]
  <2>1. Collect(d, expired \ {e})
    BY <1>3 DEF AddEntry
  <2>2. \A f \in Entries : d[f] # NoData => f # e /\ d[f] = data[f]
    OBVIOUS
  <2> HIDE DEF d
  <2>3. \A f \in Entries : data'[f] # NoData => f # e /\ data'[f] = data[f]
    BY <2>1, <2>2, CollectData
  <2>4. pc'[p] = "lock" /\ ptr'[p] = e /\ store' = e
    BY <1>3 DEF AddEntry
  <2>5. \A q \in Clients \ {p} :
           pc'[q] = pc[q] /\ ptr'[q] = ptr[q] /\ ptr[q] # e
    BY <1>3 DEF AddEntry, Free
  <2>6. UNCHANGED <<ver, val, history>>
    BY <1>3 DEF AddEntry
  <2> QED
    BY <2>3, <2>4, <2>5, <2>6
<1>4. ASSUME NEW p \in Clients, Done(p)
      PROVE  /\ pc'[p] = "idle" /\ ptr'[p] = NoEntry /\ seen'[p] = 0
             /\ \A q \in Clients \ {p} :
                   /\ pc'[q] = pc[q] /\ ptr'[q] = ptr[q]
                   /\ val'[q] = val[q] /\ seen'[q] = seen[q]
  BY <1>4 DEF Done
<1>5. ASSUME NEW p \in Clients, GetterFails(p) PROVE OrderInv'
  <2>1. Done(p) /\ Collect(data, expired) /\ UNCHANGED <<ver, store, high>>
    BY <1>5 DEF GetterFails
  <2>2. \A f \in Entries : data'[f] # NoData => data'[f] = data[f]
    BY <2>1, CollectData
  <2> QED
    BY <1>4, <2>1, <2>2
<1>6. ASSUME NEW p \in Clients, ReturnCached(p) PROVE OrderInv'
  <2>1. Done(p) /\ Collect(data, expired) /\ UNCHANGED <<ver, store>>
    BY <1>6 DEF ReturnCached
  <2>2. \A f \in Entries : data'[f] # NoData => data'[f] = data[f]
    BY <2>1, CollectData
  <2>3. ptr[p] \in Entries /\ data[ptr[p]] # NoData /\ data[ptr[p]] \in Nat
    BY <1>6 DEF ReturnCached, Usable
  <2>4. data[ptr[p]] <= ver
    BY <2>3 DEF DataSound
  <2>5. /\ ptr[p] = store => high' = data[ptr[p]] /\ high <= high'
        /\ ptr[p] # store => high' = high
    BY <1>6, <2>3 DEF ReturnCached, Answered
  <2>6. high' \in Nat /\ high <= high' /\ high' <= ver
    BY <2>3, <2>4, <2>5
  <2>7. \A q \in Clients : pc[q] = "fill" => ptr[q] # ptr[p]
    BY <1>6 DEF ReturnCached, LockIsFree, Locked
  <2>8. ptr[p] # store => high' = high
    BY <2>5
  <2>9. \A q \in Clients :
           pc'[q] = "fill" /\ ptr'[q] # NoEntry /\ ptr'[q] = store' => high' <= val'[q]
    BY <1>4, <2>1, <2>7, <2>8
  <2>10. \A f \in Entries : data'[f] # NoData /\ f = store' => high' <= data'[f]
    BY <2>1, <2>2, <2>3, <2>5
  <2>11. \A q \in Clients : seen'[q] <= high'
    BY <1>4, <2>1, <2>6
  <2>12. \A f \in Entries, q \in Clients :
           data'[f] # NoData /\ ptr'[q] = f => seen'[q] <= data'[f]
    BY <1>4, <2>1, <2>2
  <2>13. \A q \in Clients : pc'[q] = "fill" =>
            /\ seen'[q] <= val'[q]
            /\ ptr'[q] # NoEntry =>
                  \A r \in Clients : ptr'[r] = ptr'[q] => seen'[r] <= val'[q]
    BY <1>4, <2>1
  <2> QED
    BY <2>1, <2>6, <2>9, <2>10, <2>11, <2>12, <2>13
<1>7. ASSUME NEW p \in Clients, FillEntry(p) PROVE OrderInv'
  <2> DEFINE d == [e \in Entries |->
                      IF e = ptr[p] THEN AsData(val[p]) ELSE data[e]]
  <2>1. Done(p) /\ Collect(d, expired \ {ptr[p]}) /\ UNCHANGED <<ver, store>>
        /\ pc[p] = "fill"
    BY <1>7 DEF FillEntry
  <2>2. \A f \in Entries : d[f] # NoData =>
           d[f] = IF f = ptr[p] THEN val[p] ELSE data[f]
    BY DEF AsData
  <2> HIDE DEF d
  <2>3. \A f \in Entries : data'[f] # NoData =>
           data'[f] = IF f = ptr[p] THEN val[p] ELSE data[f]
    BY <2>1, <2>2, CollectData
  <2>4. val[p] \in Nat /\ val[p] <= ver
    BY <2>1 DEF AnswerSound
  <2>5. /\ ptr[p] # store => high' = high
        /\ ptr[p] = store => high' = val[p] \/ (val[p] <= high /\ high' = high)
        /\ high <= high'
    BY <1>7, <2>4 DEF FillEntry, Answered
  <2>6. high' \in Nat /\ high <= high' /\ high' <= ver
    BY <2>4, <2>5
  <2>7. \A q \in Clients \ {p} :
           pc[q] = "fill" /\ ptr[q] # NoEntry => ptr[q] # ptr[p]
    BY <2>1 DEF SingleFlight
  <2>8. ptr[p] # NoEntry /\ ptr[p] = store => high' <= val[p]
    BY <2>1, <2>4, <2>5
  <2>9. \A q \in Clients :
           pc'[q] = "fill" /\ ptr'[q] # NoEntry /\ ptr'[q] = store' => high' <= val'[q]
    BY <1>4, <2>1, <2>5, <2>7
  <2>10. \A f \in Entries : data'[f] # NoData /\ f = store' => high' <= data'[f]
    BY <2>1, <2>3, <2>5, <2>8
  <2>11. \A q \in Clients : seen'[q] <= high'
    BY <1>4, <2>1, <2>6
  <2>12. \A f \in Entries, q \in Clients :
           data'[f] # NoData /\ ptr'[q] = f => seen'[q] <= data'[f]
    BY <1>4, <2>1, <2>3
  <2>13. \A q \in Clients : pc'[q] = "fill" =>
            /\ seen'[q] <= val'[q]
            /\ ptr'[q] # NoEntry =>
                  \A r \in Clients : ptr'[r] = ptr'[q] => seen'[r] <= val'[q]
    BY <1>4, <2>1
  <2> QED
    BY <2>1, <2>6, <2>9, <2>10, <2>11, <2>12, <2>13
<1>8. ASSUME NEW p \in Clients, LockForGetter(p) PROVE OrderInv'
  BY <1>8 DEF LockForGetter
<1>9. ASSUME NEW p \in Clients, Getter(p) PROVE OrderInv'
  <2>1. pc'[p] = "fill" /\ val'[p] = ver
    BY <1>9 DEF Getter
  <2>2. \A q \in Clients \ {p} : pc'[q] = pc[q] /\ val'[q] = val[q]
    BY <1>9 DEF Getter
  <2>3. UNCHANGED <<ver, store, data, ptr, history>>
    BY <1>9 DEF Getter
  <2>4. \A q \in Clients : seen[q] <= ver
    OBVIOUS
  <2> QED
    BY <2>1, <2>2, <2>3, <2>4
<1>10. ASSUME NEW v \in Nat, Weaken(v)
       PROVE  /\ high' \in Nat /\ high' <= high /\ high' <= v
              /\ \A q \in Clients : /\ seen'[q] \in Nat /\ seen'[q] <= seen[q]
                                    /\ seen'[q] <= v /\ seen'[q] <= high'
  BY <1>10 DEF Weaken, Lower
<1>11. ASSUME NEW p \in Clients, UpdateEntry(p) PROVE OrderInv'
  <2> DEFINE d == [data EXCEPT ![ptr[p]] = val[p]]
  <2>1. Collect(d, expired \ {ptr[p]}) /\ Weaken(val[p])
        /\ UNCHANGED <<ver, store>>
    BY <1>11 DEF UpdateEntry
  <2>2. \A f \in Entries : d[f] = IF f = ptr[p] THEN val[p] ELSE data[f]
    OBVIOUS
  <2> HIDE DEF d
  <2>3. \A f \in Entries : data'[f] # NoData =>
           data'[f] = IF f = ptr[p] THEN val[p] ELSE data[f]
    BY <2>1, <2>2, CollectData
  <2>4. pc'[p] = "idle" /\ ptr'[p] = NoEntry
    BY <1>11 DEF UpdateEntry
  <2>5. \A q \in Clients \ {p} :
           pc'[q] = pc[q] /\ ptr'[q] = ptr[q] /\ val'[q] = val[q]
    BY <1>11 DEF UpdateEntry
  <2> QED
    BY <1>10, <2>1, <2>3, <2>4, <2>5
<1>12. CASE Delete
  <2>1. Collect(data, expired) /\ store' = NoEntry
        /\ UNCHANGED <<ver, local, high, seen>>
    BY <1>12 DEF Delete
  <2>2. \A f \in Entries : data'[f] # NoData => data'[f] = data[f]
    BY <2>1, CollectData
  <2> QED
    BY <2>1, <2>2
<1>13. ASSUME NEW e \in Entries, NEW v \in Present \cap (0..ver), Set(e, v)
       PROVE  OrderInv'
  <2> DEFINE d == [data EXCEPT ![e] = v]
  <2>1. Collect(d, expired \ {e}) /\ Weaken(v) /\ store' = e
        /\ UNCHANGED <<ver, local>>
    BY <1>13 DEF Set
  <2>2. \A f \in Entries : d[f] = IF f = e THEN v ELSE data[f]
    OBVIOUS
  <2> HIDE DEF d
  <2>3. \A f \in Entries : data'[f] # NoData =>
           data'[f] = IF f = e THEN v ELSE data[f]
    BY <2>1, <2>2, CollectData
  <2>4. \A q \in Clients : ptr[q] # e
    BY <1>13 DEF Set, Free
  <2>5. v \in Nat /\ v <= ver
    OBVIOUS
  <2> QED
    BY <1>10, <2>1, <2>3, <2>4, <2>5
<1>14. CASE Write
  BY <1>14 DEF Write
<1>15. CASE UNCHANGED vars \/ \E e \in Entries : Expire(e)
  BY <1>15 DEF vars, Expire
<1> QED
  BY <1>1, <1>2, <1>3, <1>5, <1>6, <1>7, <1>8, <1>9, <1>11, <1>12, <1>13,
     <1>14, <1>15
  DEF Next, ClientStep

\* Only the step that answers a read changes what it got, to a version that
\* is in the entry or that Azure gave to this read.
LEMMA AnswerInOrder ==
    ASSUME TypeOK, CacheInv, OrderInv, [Next]_vars, NEW p \in Clients,
           got'[p] \notin {got[p], NoAnswer}
    PROVE  seen[p] <= got'[p]
<1> USE CacheAssumption DEF TypeOK, entryVars, local, history
<1>1. ASSUME NEW q \in Clients, ReturnCached(q) PROVE seen[p] <= got'[p]
  <2>1. ptr[q] \in Entries /\ data[ptr[q]] # NoData
    BY <1>1 DEF ReturnCached, Usable, CacheInv, Shape
  <2>2. got' = [got EXCEPT ![q] = data[ptr[q]]]
    BY <1>1 DEF ReturnCached, Answered
  <2> QED
    BY <2>1, <2>2 DEF OrderInv
<1>2. ASSUME NEW q \in Clients, FillEntry(q) PROVE seen[p] <= got'[p]
  <2>1. got' = [got EXCEPT ![q] = val[q]] /\ pc[q] = "fill"
    BY <1>2 DEF FillEntry, Answered
  <2> QED
    BY <2>1 DEF OrderInv
<1>3. ASSUME NEW q \in Clients, NEW k \in Reads, Get(q, k) PROVE FALSE
  BY <1>3 DEF Get
<1>4. ASSUME NEW q \in Clients, UNCHANGED got PROVE FALSE
  BY <1>4
<1> QED
  BY <1>1, <1>2, <1>3, <1>4
  DEF Next, ClientStep, Update, Recheck, AddEntry, LockForGetter, Getter,
      GetterFails, UpdateEntry, Delete, Set, Expire, Write, vars

\* The order is kept for every number of goroutines and entries and every
\* history of the resource.
LEMMA OrderSound == Spec => []OrderInv
<1>1. Init => OrderInv
  BY CacheAssumption DEF Init, OrderInv
<1> QED
  BY <1>1, OrderStep, TypeCorrect, CacheSound, OneFlight, PTL DEF Spec

\* A read that begins after another has returned never returns an older
\* version of the resource, unless old data was put into the cache by hand,
\* for every number of goroutines and entries and every history.
THEOREM ReadsAreInOrder == Spec => ReadsInOrder
<1> DEFINE Ordered == \A p \in Clients :
              got'[p] \notin {got[p], NoAnswer} => seen[p] <= got'[p]
<1>1. TypeOK /\ CacheInv /\ OrderInv /\ [Next]_vars => [Ordered]_vars
  BY AnswerInOrder
<1> QED
  BY <1>1, TypeCorrect, CacheSound, OrderSound, PTL DEF Spec, ReadsInOrder
===============================================================================
