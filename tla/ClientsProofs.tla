--------------------------- MODULE ClientsProofs ---------------------------
(***************************************************************************)
(* Proofs about the clients of Azure and what drives them: the calls of    *)
(* the clients (ArmClients), the batched PUT of the scale set VM client    *)
(* (BatchPut), the batches of changes of backend pools (LocalServices) and *)
(* storage accounts (StorageAccount).                                      *)
(***************************************************************************)
EXTENDS ArmClients, BatchPut, LocalServices, StorageAccount, FiniteSetTheorems, SequenceTheorems, TLAPS

-----------------------------------------------------------------------------
(***************************************************************************)
(* BatchPut                                                                *)
(***************************************************************************)

\* Where the goroutines of a batch are, and what their answers may be.
BatchTypeOK ==
    /\ batchSize \in Int
    /\ todo \subseteq Resources /\ put \subseteq Resources /\ future \subseteq Resources
    /\ resp \in [Resources -> Failures \cup {NoFailure}]
    /\ errors \subseteq Failures
    /\ result.returned \in BOOLEAN

\* An answer of updateVMSSVMs comes after every goroutine has ended.
ReturnedAtRest ==
    result.returned => todo = {} /\ put = {} /\ future = {}

BatchInv == BatchTypeOK /\ ReturnedAtRest /\ AtMostBatch /\ NoFailureLost

\* A non-empty set of naturals below a bound has a greatest element.
LEMMA BoundedHasMax ==
    ASSUME NEW S, S \subseteq Nat, S # {}, NEW b \in Nat, \A x \in S : x <= b
    PROVE  \E m \in S : \A x \in S : x <= m
<1> DEFINE T == {n \in Nat : \E x \in S : n = b - x}
           R == OpToRel(<, Nat)
<1>1. IsWellFoundedOn(R, Nat)
  BY NatLessThanWellFounded
<1>2. T # {} /\ T \subseteq Nat
  <2>1. PICK x \in S : TRUE
    OBVIOUS
  <2>2. b - x \in T
    BY <2>1
  <2> QED BY <2>2
<1> HIDE DEF R
<1>3. PICK n \in T : \A y \in T : ~ (<<y, n>> \in R)
  BY <1>1, <1>2, WFMin
<1>4. \A y \in T : ~ (y < n)
  BY <1>2, <1>3 DEF R, OpToRel
<1>5. PICK m \in S : n = b - m
  OBVIOUS
<1>6. ASSUME NEW x \in S PROVE x <= m
  <2>1. b - x \in T
    OBVIOUS
  <2> QED BY <1>4, <1>5, <2>1
<1> QED BY <1>6

\* A failure holds a caller back for a bounded time.
LEMMA DelayType ==
    ASSUME NEW f \in Failures
    PROVE  /\ f # NoFailure
           /\ f.after \in Nat
           /\ Delayed(f) \in Nat /\ Delayed(f) <= MaxWait + 5
           /\ Delayed(f) >= f.after
BY BatchAssumption DEF Failures, Failure, NoFailure, Delayed, Skipped

\* The aggregated error waits at least as long as each of its errors.
LEMMA AggregateWaits ==
    ASSUME NEW fs, fs \subseteq Failures
    PROVE  /\ Aggregate(fs).returned = TRUE
           /\ fs # {} => Aggregate(fs).failed
           /\ \A f \in fs : Aggregate(fs).after >= f.after
<1> DEFINE D == {0} \cup {Delayed(f) : f \in fs}
           d == CHOOSE d \in D : \A f \in fs : Delayed(f) <= d
           some == fs # {}
<1>1. D \subseteq Nat /\ D # {} /\ \A x \in D : x <= MaxWait + 5
  BY DelayType, BatchAssumption
<1>2. PICK m \in D : \A x \in D : x <= m
  <2> HIDE DEF D
  <2>1. MaxWait + 5 \in Nat
    BY BatchAssumption
  <2> QED BY <1>1, <2>1, BoundedHasMax
<1>3. m \in D /\ \A f \in fs : Delayed(f) <= m
  BY <1>2
<1>4. d \in D /\ \A f \in fs : Delayed(f) <= d
  BY <1>3
<1>5. Aggregate(fs) = [returned |-> TRUE, failed |-> some, after |-> d]
  BY DEF Aggregate
<1> HIDE DEF d, D
<1>6. \A f \in fs : d >= f.after
  BY <1>1, <1>4, DelayType
<1>7. /\ Aggregate(fs).returned = TRUE /\ Aggregate(fs).after = d
      /\ Aggregate(fs).failed = some
  <2> HIDE DEF some
  <2> QED BY <1>5
<1>8. fs # {} => Aggregate(fs).failed
  <2>1. fs # {} => some
    OBVIOUS
  <2> QED BY <1>7, <2>1
<1> QED BY <1>6, <1>7, <1>8

\* The channel lets at most a batch of PUT requests run.
LEMMA BatchCount ==
    ASSUME BatchTypeOK, NEW r \in Resources,
           Cardinality(put) < Effective(Cardinality(Resources))
    PROVE  Cardinality(put \cup {r}) <= IF batchSize <= 0 THEN 1 ELSE batchSize
<1>1. IsFiniteSet(put) /\ Cardinality(Resources) \in Nat
  BY FS_Subset, FS_CardinalityType, BatchAssumption DEF BatchTypeOK
<1>2. Cardinality(put) \in Nat
  BY <1>1, FS_CardinalityType
<1>3. Cardinality(put \cup {r}) <= Cardinality(put) + 1
  BY <1>1, <1>2, FS_AddElement
<1>4. Cardinality(put \cup {r}) \in Nat
  BY <1>1, FS_AddElement, FS_CardinalityType
<1> QED BY <1>1, <1>2, <1>3, <1>4 DEF BatchTypeOK, Effective

\* The batch starts with nothing in flight.
LEMMA InitBatchInv == BInit => BatchInv
BY BatchAssumption, FS_EmptySet
DEF BInit, BatchInv, BatchTypeOK, ReturnedAtRest, AtMostBatch, NoFailureLost,
    Pending, NoFailure

\* Every step of a batch keeps its invariant.
LEMMA NextBatchInv == BatchInv /\ [BNext]_bvars => BatchInv'
<1> SUFFICES ASSUME BatchInv, [BNext]_bvars PROVE BatchInv'
  OBVIOUS
<1> USE DEF BatchInv
<1>1. CASE UpdateVMs
  BY <1>1, BatchAssumption, FS_EmptySet
  DEF UpdateVMs, BatchTypeOK, ReturnedAtRest, AtMostBatch, NoFailureLost, Pending
<1>2. ASSUME NEW r \in Resources, StartPut(r) PROVE BatchInv'
  <2>1. Cardinality(put') <= IF batchSize <= 0 THEN 1 ELSE batchSize
    BY <1>2, BatchCount DEF StartPut
  <2> QED BY <1>2, <2>1
    DEF StartPut, BatchTypeOK, ReturnedAtRest, AtMostBatch, NoFailureLost
<1>3. ASSUME NEW r \in Resources, PutAnswered(r) PROVE BatchInv'
  <2>1. IsFiniteSet(put) /\ Cardinality(put) \in Nat
    BY FS_Subset, FS_CardinalityType, BatchAssumption DEF BatchTypeOK
  <2>2. Cardinality(put \ {r}) = Cardinality(put) - 1
    BY <1>3, <2>1, FS_RemoveElement DEF PutAnswered
  <2>3. AtMostBatch'
    BY <1>3, <2>1, <2>2 DEF PutAnswered, AtMostBatch, BatchTypeOK
  <2>4. BatchTypeOK' /\ ~result'.returned
    BY <1>3 DEF PutAnswered, BatchTypeOK, ReturnedAtRest
  <2> QED BY <2>3, <2>4 DEF ReturnedAtRest, NoFailureLost
<1>4. ASSUME NEW r \in Resources, FutureDone(r) PROVE BatchInv'
  <2>1. BatchTypeOK' /\ ~result'.returned
    BY <1>4 DEF FutureDone, BatchTypeOK, ReturnedAtRest
  <2> QED BY <1>4, <2>1 DEF FutureDone, ReturnedAtRest, NoFailureLost, AtMostBatch
<1>5. CASE Parse
  <2>1. \A r \in Resources : ~Retried(resp[r])
    BY DEF Retried, HasResponse
  <2>2. /\ errors' = errors \cup Kept /\ result' = Aggregate(errors')
        /\ UNCHANGED <<batchSize, round, todo, put, future, resp>>
    BY <1>5, <2>1 DEF Parse
  <2>3. Kept \subseteq Failures
    BY DEF Kept, BatchTypeOK
  <2>4. errors' \subseteq Failures
    BY <2>2, <2>3 DEF BatchTypeOK
  <2>5. /\ result'.returned = TRUE
        /\ errors' # {} => result'.failed
        /\ \A f \in errors' : result'.after >= f.after
    BY <2>2, <2>4, AggregateWaits
  <2>6. BatchTypeOK' /\ AtMostBatch' /\ ReturnedAtRest'
    BY <1>5, <2>2, <2>4, <2>5 DEF BatchTypeOK, AtMostBatch, ReturnedAtRest, Parse
  <2>7. ASSUME NEW r \in Resources, resp[r] # NoFailure, resp[r].class \notin Skipped
        PROVE  resp[r] \in errors'
    BY <2>1, <2>2, <2>7 DEF Kept
  <2>8. NoFailureLost'
    BY <2>2, <2>5, <2>7 DEF NoFailureLost
  <2> QED BY <2>6, <2>8
<1>6. CASE UNCHANGED bvars
  BY <1>6 DEF bvars, BatchTypeOK, ReturnedAtRest, AtMostBatch, NoFailureLost
<1> QED BY <1>1, <1>2, <1>3, <1>4, <1>5, <1>6 DEF BNext

\* For any machines, batch sizes and delays: never more PUT requests in flight
\* than the batch size, and UpdateVMs returns one error that stands for every
\* failure (PutResourcesInBatches, parseResp, updateVMSSVMs).
THEOREM BatchIsSound == BSpec => []BatchSound
<1>1. BatchInv => BatchSound
  BY DEF BatchInv, BatchSound
<1> QED BY InitBatchInv, NextBatchInv, <1>1, PTL DEF BSpec

-----------------------------------------------------------------------------
(***************************************************************************)
(* LocalServices: the operators on operations                              *)
(***************************************************************************)

PoolOps == [kind : {"add", "remove"}, lb : LBs, ips : (SUBSET Nodes) \ {{}}]

\* A non-empty set of naturals has a least element.
LEMMA NatHasMin ==
    ASSUME NEW S, S \subseteq Nat, S # {}
    PROVE  \E m \in S : \A x \in S : m <= x
<1> DEFINE R == OpToRel(<, Nat)
<1>1. IsWellFoundedOn(R, Nat)
  BY NatLessThanWellFounded
<1> HIDE DEF R
<1>2. PICK m \in S : \A y \in S : ~ (<<y, m>> \in R)
  BY <1>1, WFMin
<1>3. \A y \in S : ~ (y < m)
  BY <1>2 DEF R, OpToRel
<1> QED BY <1>3

\* Among n numbers there is one with k - 1 of them below it, for each k.
LEMMA NthExists ==
    ASSUME NEW n \in Nat, NEW I, I \subseteq 1..n, NEW k \in 1..Cardinality(I)
    PROVE  \E i \in I : Cardinality({j \in I : j < i}) = k - 1
<1> DEFINE Below(i) == {j \in I : j < i}
           T == {i \in I : Cardinality(Below(i)) >= k - 1}
<1>0. /\ 1 \in Int /\ n \in Int /\ I \in SUBSET (1..n)
      /\ I \subseteq Nat /\ \A x \in I : x <= n
  OBVIOUS
<1>1. IsFiniteSet(I) /\ Cardinality(I) \in Nat /\ k \in Nat /\ k >= 1 /\ k <= Cardinality(I)
  <2>1. IsFiniteSet(I)
    BY <1>0, FS_Interval, FS_Subset
  <2> QED BY <2>1, FS_CardinalityType
<1>2. ASSUME NEW i \in I
      PROVE  /\ IsFiniteSet(Below(i)) /\ Cardinality(Below(i)) \in Nat
             /\ Cardinality(Below(i) \cup {i}) = Cardinality(Below(i)) + 1
  <2>1. IsFiniteSet(Below(i))
    <3>1. Below(i) \in SUBSET I
      OBVIOUS
    <3> HIDE DEF Below
    <3> QED BY <1>1, <3>1, FS_Subset
  <2>2. i \notin Below(i)
    BY <1>0, <1>2
  <2> HIDE DEF Below
  <2> QED BY <2>1, <2>2, FS_CardinalityType, FS_AddElement
<1>3. I # {}
  BY <1>1, FS_EmptySet
<1>4. PICK m \in I : \A x \in I : x <= m
  BY <1>0, <1>3, BoundedHasMax
<1>5. m \in T
  <2>1. I = Below(m) \cup {m}
    <3>1. \A x \in I : x < m \/ x = m
      BY <1>0, <1>4
    <3> QED BY <3>1
  <2> HIDE DEF Below
  <2>2. Cardinality(I) = Cardinality(Below(m)) + 1
    BY <1>2, <2>1
  <2>3. Cardinality(Below(m)) >= k - 1
    <3>1. Cardinality(Below(m)) \in Nat
      BY <1>2
    <3> QED BY <1>1, <2>2, <3>1
  <2> QED BY <2>3
<1>6. PICK i \in T : \A x \in T : i <= x
  <2>1. T \subseteq Nat /\ T # {}
    BY <1>0, <1>5
  <2> HIDE DEF T
  <2> QED BY <2>1, NatHasMin
<1>7. CASE Cardinality(Below(i)) = k - 1
  BY <1>7
<1>8. CASE Cardinality(Below(i)) # k - 1
  <2>1. Cardinality(Below(i)) \in Nat /\ Cardinality(Below(i)) >= k
    <3>1. i \in I /\ Cardinality(Below(i)) >= k - 1
      BY <1>6
    <3> HIDE DEF Below
    <3>2. Cardinality(Below(i)) \in Nat
      BY <1>2, <3>1
    <3> QED BY <1>1, <1>8, <3>1, <3>2
  <2>2. Below(i) # {}
    <3> HIDE DEF Below
    <3> QED BY <2>1, FS_EmptySet
  <2>3. Below(i) \subseteq Nat /\ \A x \in Below(i) : x <= n
    BY <1>0
  <2>4. PICK p \in Below(i) : \A x \in Below(i) : x <= p
    <3> HIDE DEF Below
    <3> QED BY <2>2, <2>3, BoundedHasMax
  <2>5. p \in I /\ p < i /\ Below(i) = Below(p) \cup {p}
    <3>1. p \in I /\ p < i /\ i \in I
      BY <1>0, <1>6, <2>4
    <3>2. \A x \in Below(i) : x \in I /\ (x < p \/ x = p)
      BY <1>0, <2>4
    <3>3. \A x \in Below(p) : x \in I /\ x < i
      BY <1>0, <3>1
    <3> QED BY <3>1, <3>2, <3>3
  <2>6. Cardinality(Below(p)) >= k - 1
    <3> HIDE DEF Below
    <3> QED BY <1>1, <1>2, <2>1, <2>5
  <2>7. p \in T
    BY <2>5, <2>6
  <2> QED BY <1>6, <2>5, <2>7
<1> QED BY <1>7, <1>8

\* process keeps operations of the queue, and only those for the load balancer.
LEMMA OperationsForType ==
    ASSUME NEW queue \in Seq(PoolOps), NEW l
    PROVE  /\ OperationsFor(l, queue) \in Seq(PoolOps)
           /\ \A i \in 1..Len(OperationsFor(l, queue)) : OperationsFor(l, queue)[i].lb = l
           /\ OperationsFor(l, queue) # <<>> => l \in LBs
<1> DEFINE mine == {i \in DOMAIN queue : queue[i].lb = l}
           c == Cardinality(mine)
           nth(k) == CHOOSE i \in mine : Cardinality({j \in mine : j < i}) = k - 1
           q == [k \in 1..c |-> queue[nth(k)]]
<1>1. OperationsFor(l, queue) = q
  BY DEF OperationsFor
<1>2. mine \subseteq 1..Len(queue) /\ Len(queue) \in Nat
  OBVIOUS
<1>3. c \in Nat
  <2>1. mine \in SUBSET (1..Len(queue)) /\ 1 \in Int /\ Len(queue) \in Int
    BY <1>2
  <2> HIDE DEF mine
  <2>2. IsFiniteSet(mine)
    BY <2>1, FS_Interval, FS_Subset
  <2> QED BY <2>2, FS_CardinalityType
<1>4. \A k \in 1..c : nth(k) \in mine
  <2> TAKE k \in 1..c
  <2> HIDE DEF mine
  <2>1. \E i \in mine : Cardinality({j \in mine : j < i}) = k - 1
    BY <1>2, NthExists
  <2> QED BY <2>1
<1>5. \A k \in 1..c : queue[nth(k)] \in PoolOps /\ queue[nth(k)].lb = l
  <2> TAKE k \in 1..c
  <2>1. nth(k) \in mine
    BY <1>4
  <2> HIDE DEF nth
  <2> QED BY <2>1
<1> HIDE DEF mine, c, nth
<1>6. q \in Seq(PoolOps) /\ Len(q) = c
  BY <1>3, <1>5
<1>7. \A i \in 1..Len(q) : q[i].lb = l
  BY <1>5, <1>6
<1>8. q # <<>> => l \in LBs
  <2> SUFFICES ASSUME q # <<>> PROVE l \in LBs
    OBVIOUS
  <2>1. 1 \in 1..c
    BY <1>3, <1>6
  <2> QED BY <1>5, <2>1 DEF PoolOps
<1> HIDE DEF q
<1> QED BY <1>1, <1>6, <1>7, <1>8

\* A queue with operations for one load balancer only is kept as it is.
LEMMA OperationsForAll ==
    ASSUME NEW queue \in Seq(PoolOps), NEW l, \A i \in 1..Len(queue) : queue[i].lb = l
    PROVE  OperationsFor(l, queue) = queue
<1> DEFINE mine == {i \in DOMAIN queue : queue[i].lb = l}
           n == Len(queue)
           nth(k) == CHOOSE i \in mine : Cardinality({j \in mine : j < i}) = k - 1
<1>1. mine = 1..n /\ n \in Nat
  OBVIOUS
<1>2. Cardinality(mine) = n
  <2> HIDE DEF mine, n
  <2>1. 1 \in Int /\ n \in Int
    BY <1>1
  <2>2. Cardinality(1..n) = IF 1 > n THEN 0 ELSE n - 1 + 1
    BY <2>1, FS_Interval
  <2> QED BY <1>1, <2>2
<1>3. ASSUME NEW i \in mine PROVE Cardinality({j \in mine : j < i}) = i - 1
  <2>1. {j \in mine : j < i} = 1..(i - 1)
    BY <1>1, <1>3
  <2>2. 1 \in Int /\ i - 1 \in Int /\ i >= 1
    BY <1>1, <1>3
  <2>3. Cardinality(1..(i - 1)) = IF 1 > i - 1 THEN 0 ELSE i - 1 - 1 + 1
    BY <2>2, FS_Interval
  <2>4. Cardinality(1..(i - 1)) = i - 1
    BY <2>2, <2>3
  <2> QED BY <2>1, <2>4
<1>4. \A k \in 1..n : nth(k) = k
  <2> TAKE k \in 1..n
  <2>1. k \in mine /\ Cardinality({j \in mine : j < k}) = k - 1
    BY <1>1, <1>3
  <2>2. \A i \in mine : Cardinality({j \in mine : j < i}) = k - 1 => i = k
    BY <1>1, <1>3
  <2> HIDE DEF mine
  <2> QED BY <2>1, <2>2
<1>5. OperationsFor(l, queue) = [k \in 1..n |-> queue[nth(k)]]
  BY <1>2 DEF OperationsFor
<1> HIDE DEF nth
<1>6. OperationsFor(l, queue) = [k \in 1..n |-> queue[k]]
  BY <1>4, <1>5
<1> QED BY <1>6

\* What a batch leaves in a pool, node by node.
LEMMA InAfter ==
    ASSUME NEW p, NEW b \in Seq(PoolOps), NEW n
    PROVE  n \in After(p, b) <=>
             \/ n \in p /\ \A j \in 1..Len(b) : b[j].kind = "remove" => n \notin b[j].ips
             \/ \E i \in 1..Len(b) :
                  /\ b[i].kind = "add" /\ n \in b[i].ips
                  /\ \A j \in (i + 1)..Len(b) : b[j].kind = "remove" => n \notin b[j].ips
<1>1. \A j \in 1..Len(b) : b[j].kind \in {"add", "remove"}
  <2>1. \A j \in 1..Len(b) : b[j] \in PoolOps
    OBVIOUS
  <2> QED BY <2>1 DEF PoolOps
<1>2. \A i \in 1..(Len(b) + 1) :
        n \in RemovedFrom(i, b) <=>
          \E j \in i..Len(b) : b[j].kind = "remove" /\ n \in b[j].ips
  <2> TAKE i \in 1..(Len(b) + 1)
  <2>1. \A j \in i..Len(b) : j \in 1..Len(b)
    OBVIOUS
  <2> QED BY <1>1, <2>1 DEF RemovedFrom
<1>3. Len(b) \in Nat
  OBVIOUS
<1>4. n \in After(p, b) <=>
        \/ n \in p /\ n \notin RemovedFrom(1, b)
        \/ \E i \in 1..Len(b) :
             b[i].kind = "add" /\ n \in b[i].ips /\ n \notin RemovedFrom(i + 1, b)
  BY DEF After
<1>5. 1 \in 1..(Len(b) + 1) /\ \A i \in 1..Len(b) : i + 1 \in 1..(Len(b) + 1)
  BY <1>3
<1> QED BY <1>2, <1>4, <1>5

\* The equations of the loop of process: a batch is applied from its first
\* operation to its last.
LEMMA AfterEmpty == ASSUME NEW p PROVE After(p, <<>>) = p
BY DEF After, RemovedFrom

LEMMA AfterAppend ==
    ASSUME NEW p, NEW b \in Seq(PoolOps), NEW o \in PoolOps
    PROVE  After(p, Append(b, o)) = Apply(After(p, b), o)
<1> DEFINE c == Append(b, o)
<1>1. /\ c \in Seq(PoolOps) /\ Len(c) = Len(b) + 1 /\ c[Len(c)] = o
      /\ Len(b) \in Nat /\ \A i \in 1..Len(b) : c[i] = b[i]
  OBVIOUS
<1>2. o.kind = "add" \/ o.kind = "remove"
  BY DEF PoolOps
<1> HIDE DEF c
<1>3. ASSUME NEW n PROVE n \in After(p, c) <=> n \in Apply(After(p, b), o)
  <2>1. CASE o.kind = "add"
    <3>1. n \in Apply(After(p, b), o) <=> n \in After(p, b) \/ n \in o.ips
      BY <2>1 DEF Apply
    <3>2. CASE n \in o.ips
      <4>1. /\ Len(c) \in 1..Len(c) /\ c[Len(c)].kind = "add" /\ n \in c[Len(c)].ips
            /\ \A j \in (Len(c) + 1)..Len(c) : FALSE
        BY <1>1, <2>1, <3>2
      <4> QED BY <1>1, <3>1, <3>2, <4>1, InAfter
    <3>3. CASE n \notin o.ips
      <4>1. \A j \in 1..Len(c) : j \in 1..Len(b) \/ (j = Len(c) /\ c[j] = o)
        BY <1>1
      <4>2. \A j \in 1..Len(b) : j \in 1..Len(c)
        BY <1>1
      <4>3. \A i \in 1..Len(b) : \A j \in (i + 1)..Len(c) :
              j \in (i + 1)..Len(b) \/ (j = Len(c) /\ c[j] = o)
        BY <1>1
      <4>4. \A i \in 1..Len(b) : \A j \in (i + 1)..Len(b) :
              j \in (i + 1)..Len(c) /\ j \in 1..Len(b)
        BY <1>1
      <4>5. n \in After(p, c) <=> n \in After(p, b)
        BY <1>1, <2>1, <3>3, <4>1, <4>2, <4>3, <4>4, InAfter
      <4> QED BY <3>1, <3>3, <4>5
    <3> QED BY <3>2, <3>3
  <2>2. CASE o.kind = "remove"
    <3>1. n \in Apply(After(p, b), o) <=> n \in After(p, b) /\ n \notin o.ips
      BY <2>2 DEF Apply
    <3>2. CASE n \in o.ips
      <4>1. /\ Len(c) \in 1..Len(c) /\ c[Len(c)].kind = "remove" /\ n \in c[Len(c)].ips
            /\ \A i \in 1..Len(b) : Len(c) \in (i + 1)..Len(c)
        BY <1>1, <2>2, <3>2
      <4>2. \A i \in 1..Len(c) : i \in 1..Len(b) \/ c[i].kind # "add"
        BY <1>1, <2>2
      <4> QED BY <1>1, <3>1, <3>2, <4>1, <4>2, InAfter
    <3>3. CASE n \notin o.ips
      <4>1. \A j \in 1..Len(c) : j \in 1..Len(b) \/ (j = Len(c) /\ c[j] = o)
        BY <1>1
      <4>2. \A j \in 1..Len(b) : j \in 1..Len(c)
        BY <1>1
      <4>3. \A i \in 1..Len(b) : \A j \in (i + 1)..Len(c) :
              j \in (i + 1)..Len(b) \/ (j = Len(c) /\ c[j] = o)
        BY <1>1
      <4>4. \A i \in 1..Len(b) : \A j \in (i + 1)..Len(b) :
              j \in (i + 1)..Len(c) /\ j \in 1..Len(b)
        BY <1>1
      <4>5. n \in After(p, c) <=> n \in After(p, b)
        BY <1>1, <2>2, <3>3, <4>1, <4>2, <4>3, <4>4, InAfter
      <4> QED BY <3>1, <3>3, <4>5
    <3> QED BY <3>2, <3>3
  <2> QED BY <1>2, <2>1, <2>2
<1> QED BY <1>3 DEF c

\* The first k operations of a batch are those before the k-th, and the k-th.
LEMMA BatchPrefix ==
    ASSUME NEW b \in Seq(PoolOps), NEW k \in 1..Len(b)
    PROVE  /\ SubSeq(b, 1, k - 1) \in Seq(PoolOps) /\ b[k] \in PoolOps
           /\ SubSeq(b, 1, k) = Append(SubSeq(b, 1, k - 1), b[k])
OBVIOUS

\* Two batches, one after the other, are one batch.
LEMMA AfterConcat ==
    ASSUME NEW p, NEW s \in Seq(PoolOps), NEW t \in Seq(PoolOps)
    PROVE  After(p, s \o t) = After(After(p, s), t)
<1> DEFINE Pre(k) == SubSeq(t, 1, k)
           Bad == {k \in 0..Len(t) : After(p, s \o Pre(k)) # After(After(p, s), Pre(k))}
<1>1. ASSUME NEW m \in Bad, \A x \in Bad : m <= x PROVE FALSE
  <2>1. CASE m = 0
    <3>1. Pre(m) = <<>> /\ s \o Pre(m) = s
      BY <2>1
    <3>2. After(p, s \o Pre(m)) = After(After(p, s), Pre(m))
      BY <3>1, AfterEmpty
    <3> QED BY <1>1, <3>2
  <2>2. CASE m # 0
    <3>0. m \in 0..Len(t) /\ Len(t) \in Nat
      BY <1>1
    <3>1. m \in 1..Len(t) /\ m - 1 \in 0..Len(t) /\ m - 1 < m
      BY <2>2, <3>0
    <3>2. m - 1 \notin Bad
      <4> HIDE DEF Bad
      <4> QED BY <1>1, <3>0, <3>1
    <3>3. After(p, s \o Pre(m - 1)) = After(After(p, s), Pre(m - 1))
      BY <3>1, <3>2
    <3>4. Pre(m - 1) \in Seq(PoolOps) /\ t[m] \in PoolOps /\ Pre(m) = Append(Pre(m - 1), t[m])
      BY <3>1, BatchPrefix
    <3> DEFINE q == Pre(m - 1)
    <3> HIDE DEF Pre
    <3>5. s \o q \in Seq(PoolOps) /\ s \o Append(q, t[m]) = Append(s \o q, t[m])
      BY <3>4
    <3>6. After(p, s \o Pre(m)) = Apply(After(p, s \o q), t[m])
      <4>1. After(p, Append(s \o q, t[m])) = Apply(After(p, s \o q), t[m])
        BY <3>4, <3>5, AfterAppend
      <4> QED BY <3>4, <3>5, <4>1
    <3>7. After(After(p, s), Pre(m)) = Apply(After(After(p, s), q), t[m])
      BY <3>4, AfterAppend
    <3>8. After(p, s \o Pre(m)) = After(After(p, s), Pre(m))
      BY <3>3, <3>6, <3>7
    <3> QED BY <1>1, <3>8
  <2> QED BY <2>1, <2>2
<1>2. Bad \subseteq Nat
  OBVIOUS
<1>3. Bad = {}
  <2> HIDE DEF Bad
  <2> QED BY <1>1, <1>2, NatHasMin
<1>4. Len(t) \in 0..Len(t) /\ Pre(Len(t)) = t
  OBVIOUS
<1> QED BY <1>3, <1>4

\* A batch in which no operation changes the copy leaves the pool as it is.
LEMMA NotChanged ==
    ASSUME NEW p, NEW b \in Seq(PoolOps), ~Changed(p, b)
    PROVE  After(p, b) = p
<1> DEFINE Pre(k) == SubSeq(b, 1, k)
           Bad == {k \in 0..Len(b) : After(p, Pre(k)) # p}
<1>1. ASSUME NEW m \in Bad, \A x \in Bad : m <= x PROVE FALSE
  <2>1. CASE m = 0
    <3>1. Pre(m) = <<>>
      BY <2>1
    <3>2. After(p, Pre(m)) = p
      BY <3>1, AfterEmpty
    <3> QED BY <1>1, <3>2
  <2>2. CASE m # 0
    <3>0. m \in 0..Len(b) /\ Len(b) \in Nat
      BY <1>1
    <3>1. m \in 1..Len(b) /\ m - 1 \in 0..Len(b) /\ m - 1 < m
      BY <2>2, <3>0
    <3>2. m - 1 \notin Bad
      <4> HIDE DEF Bad
      <4> QED BY <1>1, <3>0, <3>1
    <3>3. After(p, Pre(m - 1)) = p
      BY <3>1, <3>2
    <3>4. Apply(After(p, Pre(m - 1)), b[m]) = After(p, Pre(m - 1))
      BY <3>1 DEF Changed
    <3>5. Pre(m - 1) \in Seq(PoolOps) /\ b[m] \in PoolOps /\ Pre(m) = Append(Pre(m - 1), b[m])
      BY <3>1, BatchPrefix
    <3> HIDE DEF Pre
    <3>6. After(p, Pre(m)) = p
      BY <3>3, <3>4, <3>5, AfterAppend
    <3> QED BY <1>1, <3>6
  <2> QED BY <2>1, <2>2
<1>2. Bad \subseteq Nat
  OBVIOUS
<1>3. Bad = {}
  <2> HIDE DEF Bad
  <2> QED BY <1>1, <1>2, NatHasMin
<1>4. Len(b) \in 0..Len(b) /\ Pre(Len(b)) = b
  OBVIOUS
<1> QED BY <1>3, <1>4

\* A batch that is retried after Azure carried it out changes nothing more.
LEMMA AfterTwice ==
    ASSUME NEW p, NEW b \in Seq(PoolOps)
    PROVE  After(After(p, b), b) = After(p, b)
<1>1. \A i \in 1..Len(b) : \A j \in (i + 1)..Len(b) : j \in 1..Len(b)
  OBVIOUS
<1>2. ASSUME NEW n PROVE n \in After(After(p, b), b) <=> n \in After(p, b)
  <2>1. n \in After(p, b) =>
          \/ \A j \in 1..Len(b) : b[j].kind = "remove" => n \notin b[j].ips
          \/ \E i \in 1..Len(b) :
               /\ b[i].kind = "add" /\ n \in b[i].ips
               /\ \A j \in (i + 1)..Len(b) : b[j].kind = "remove" => n \notin b[j].ips
    BY InAfter
  <2> QED BY <2>1, InAfter
<1> QED BY <1>2

\* What a batch adds are nodes.
LEMMA AfterType ==
    ASSUME NEW p \in SUBSET Nodes, NEW b \in Seq(PoolOps)
    PROVE  After(p, b) \in SUBSET Nodes
<1>1. \A i \in 1..Len(b) : b[i] \in PoolOps
  OBVIOUS
<1>2. \A i \in 1..Len(b) : b[i].ips \subseteq Nodes
  BY <1>1 DEF PoolOps
<1> QED BY <1>2, InAfter

\* Whether a batch has an operation of a kind on a node.
Touches(b, kind, n) == \E i \in 1..Len(b) : b[i].kind = kind /\ n \in b[i].ips

\* A batch that no operation of which changes a pool adds only what is there
\* and removes only what is not.
LEMMA NotTouched ==
    ASSUME NEW p, NEW b \in Seq(PoolOps), ~Changed(p, b), NEW n
    PROVE  /\ Touches(b, "add", n) => n \in p
           /\ Touches(b, "remove", n) => n \notin p
<1>1. ASSUME NEW i \in 1..Len(b) PROVE Apply(p, b[i]) = p
  <2> DEFINE q == SubSeq(b, 1, i - 1)
  <2>1. q \in Seq(PoolOps)
    BY BatchPrefix
  <2>2. Apply(After(p, q), b[i]) = After(p, q)
    BY DEF Changed
  <2>3. ~Changed(p, q)
    <3>1. Len(q) = i - 1 /\ Len(b) \in Nat /\ i \in Int
      OBVIOUS
    <3>2. ASSUME NEW j \in 1..Len(q)
          PROVE  j \in 1..Len(b) /\ q[j] = b[j] /\ SubSeq(q, 1, j - 1) = SubSeq(b, 1, j - 1)
      BY <3>1
    <3> HIDE DEF q
    <3> QED BY <3>2 DEF Changed
  <2> HIDE DEF q
  <2>4. After(p, q) = p
    BY <2>1, <2>3, NotChanged
  <2> QED BY <2>2, <2>4
<1>2. \A i \in 1..Len(b) : b[i].kind = "add" => b[i].ips \subseteq p
  BY <1>1 DEF Apply
<1>3. \A i \in 1..Len(b) : b[i].kind = "remove" => b[i].ips \cap p = {}
  BY <1>1 DEF Apply
<1> QED BY <1>2, <1>3 DEF Touches

\* A batch decides about the nodes it touches and leaves the others alone.
LEMMA AfterUntouched ==
    ASSUME NEW p, NEW b \in Seq(PoolOps), NEW n
    PROVE  /\ n \in After(p, b) /\ n \notin p => Touches(b, "add", n)
           /\ n \notin After(p, b) /\ n \in p => Touches(b, "remove", n)
BY InAfter DEF Touches

LEMMA AfterTouched ==
    ASSUME NEW p, NEW q, NEW b \in Seq(PoolOps), NEW n,
           (n \in p <=> n \in q) \/ Touches(b, "add", n) \/ Touches(b, "remove", n)
    PROVE  n \in After(p, b) <=> n \in After(q, b)
<1>1. CASE n \in p <=> n \in q
  BY <1>1, InAfter
<1>2. CASE Touches(b, "remove", n)
  BY <1>2, InAfter DEF Touches
<1>3. CASE Touches(b, "add", n) /\ ~Touches(b, "remove", n)
  <2>1. \A i \in 1..Len(b) : \A j \in (i + 1)..Len(b) : j \in 1..Len(b)
    OBVIOUS
  <2> QED BY <1>3, <2>1, InAfter DEF Touches
<1> QED BY <1>1, <1>2, <1>3

\* Operations that add only what is wanted and remove only what is not.
Harmless(b, want) ==
    \A i \in 1..Len(b) :
      /\ b[i].kind = "add" => b[i].ips \subseteq want
      /\ b[i].kind = "remove" => b[i].ips \cap want = {}

\* What such operations leave: their order does not matter.
LEMMA HarmlessAfter ==
    ASSUME NEW p, NEW b \in Seq(PoolOps), NEW want, Harmless(b, want), NEW n
    PROVE  n \in After(p, b) <=>
             IF n \in want THEN n \in p \/ Touches(b, "add", n)
             ELSE n \in p /\ ~Touches(b, "remove", n)
<1>1. \A i \in 1..Len(b) : \A j \in (i + 1)..Len(b) : j \in 1..Len(b)
  OBVIOUS
<1>2. CASE n \in want
  <2>1. \A j \in 1..Len(b) : b[j].kind = "remove" => n \notin b[j].ips
    BY <1>2 DEF Harmless
  <2> QED BY <1>1, <1>2, <2>1, InAfter DEF Touches
<1>3. CASE n \notin want
  <2>1. \A j \in 1..Len(b) : b[j].kind = "add" => n \notin b[j].ips
    BY <1>3 DEF Harmless
  <2> QED BY <1>3, <2>1, InAfter DEF Touches
<1> QED BY <1>2, <1>3

LEMMA HarmlessSwap ==
    ASSUME NEW p, NEW s \in Seq(PoolOps), NEW t \in Seq(PoolOps), NEW want,
           Harmless(s, want), Harmless(t, want)
    PROVE  After(After(p, s), t) = After(After(p, t), s)
<1>1. ASSUME NEW n PROVE n \in After(After(p, s), t) <=> n \in After(After(p, t), s)
  <2>1. n \in After(After(p, s), t) <=>
          IF n \in want THEN n \in After(p, s) \/ Touches(t, "add", n)
          ELSE n \in After(p, s) /\ ~Touches(t, "remove", n)
    BY HarmlessAfter
  <2>2. n \in After(After(p, t), s) <=>
          IF n \in want THEN n \in After(p, t) \/ Touches(s, "add", n)
          ELSE n \in After(p, t) /\ ~Touches(s, "remove", n)
    BY HarmlessAfter
  <2>3. n \in After(p, s) <=>
          IF n \in want THEN n \in p \/ Touches(s, "add", n)
          ELSE n \in p /\ ~Touches(s, "remove", n)
    BY HarmlessAfter
  <2>4. n \in After(p, t) <=>
          IF n \in want THEN n \in p \/ Touches(t, "add", n)
          ELSE n \in p /\ ~Touches(t, "remove", n)
    BY HarmlessAfter
  <2> QED BY <2>1, <2>2, <2>3, <2>4
<1>2. \A n : n \in After(After(p, s), t) <=> n \in After(After(p, t), s)
  BY <1>1
<1>3. /\ \A n \in After(After(p, s), t) : n \in After(After(p, t), s)
      /\ \A n \in After(After(p, t), s) : n \in After(After(p, s), t)
  BY <1>2
<1> QED BY <1>3

LEMMA HarmlessStays ==
    ASSUME NEW b \in Seq(PoolOps), NEW want, Harmless(b, want)
    PROVE  After(want, b) = want
<1>1. ASSUME NEW n PROVE n \in After(want, b) <=> n \in want
  <2>1. n \in After(want, b) <=>
          IF n \in want THEN n \in want \/ Touches(b, "add", n)
          ELSE n \in want /\ ~Touches(b, "remove", n)
    BY HarmlessAfter
  <2> QED BY <2>1
<1> QED BY <1>1

\* The operations for a difference are operations for that load balancer; they
\* turn what is there into what is expected; and when there are none the two
\* are equal, unless the lists had one length by chance.
ChangesSound(l, cur, n, new, m) ==
    LET ch == Changes(l, cur, n, new, m) IN
    /\ ch \in Seq(PoolOps) /\ \A i \in 1..Len(ch) : ch[i].lb = l
    /\ Harmless(ch, new)
    /\ ch # <<>> => After(cur, ch) = new
    /\ ch = <<>> => cur \subseteq new /\ (n = m \/ cur = new)

LEMMA ChangesType ==
    ASSUME NEW l \in LBs, NEW cur \in SUBSET Nodes, NEW new \in SUBSET Nodes, NEW n, NEW m
    PROVE  ChangesSound(l, cur, n, new, m)
<1> DEFINE rm == PoolOp("remove", l, cur \ new)
           ad == PoolOp("add", l, new)
           ch == Changes(l, cur, n, new, m)
<1>1. cur \ new # {} => rm \in PoolOps /\ rm.lb = l /\ rm.kind = "remove" /\ rm.ips = cur \ new
  BY DEF PoolOp, PoolOps
<1>2. new # {} => ad \in PoolOps /\ ad.lb = l /\ ad.kind = "add" /\ ad.ips = new
  BY DEF PoolOp, PoolOps
<1>3. ch = IF cur \ new = {} /\ n = m THEN <<>>
           ELSE (IF cur \ new # {} THEN <<rm>> ELSE <<>>) \o (IF new # {} THEN <<ad>> ELSE <<>>)
  BY DEF Changes
<1> SUFFICES /\ ch \in Seq(PoolOps) /\ \A i \in 1..Len(ch) : ch[i].lb = l
             /\ Harmless(ch, new)
             /\ ch # <<>> => After(cur, ch) = new
             /\ ch = <<>> => cur \subseteq new /\ (n = m \/ cur = new)
  BY DEF ChangesSound
<1> HIDE DEF rm, ad, ch
<1>4. ASSUME NEW o \in PoolOps, NEW p PROVE After(p, <<o>>) = Apply(p, o)
  <2>1. <<o>> = Append(<<>>, o) /\ <<>> \in Seq(PoolOps)
    OBVIOUS
  <2> QED BY <2>1, AfterAppend, AfterEmpty
<1>5. ASSUME NEW o \in PoolOps
      PROVE /\ <<o>> \in Seq(PoolOps) /\ Len(<<o>>) = 1 /\ <<o>>[1] = o
            /\ <<>> \o <<o>> = <<o>> /\ <<o>> \o <<>> = <<o>>
  OBVIOUS
<1>6. CASE cur \ new = {} /\ n = m
  <2>1. ch = <<>> /\ cur \subseteq new
    BY <1>3, <1>6
  <2>2. ch \in Seq(PoolOps) /\ (\A i \in 1..Len(ch) : ch[i].lb = l) /\ Harmless(ch, new)
    BY <2>1 DEF Harmless
  <2> QED BY <1>6, <2>1, <2>2
<1>7. CASE cur \ new = {} /\ n # m /\ new # {}
  <2>1. ch = <<ad>>
    BY <1>2, <1>3, <1>5, <1>7
  <2>2. After(cur, ch) = new
    <3>1. After(cur, <<ad>>) = Apply(cur, ad)
      BY <1>2, <1>4, <1>7
    <3>2. Apply(cur, ad) = cur \cup new /\ cur \cup new = new
      BY <1>2, <1>7 DEF Apply
    <3> QED BY <2>1, <3>1, <3>2
  <2>3. ch \in Seq(PoolOps) /\ (\A i \in 1..Len(ch) : ch[i].lb = l) /\ Harmless(ch, new)
    BY <1>2, <1>5, <1>7, <2>1 DEF Harmless
  <2> QED BY <2>1, <2>2, <2>3
<1>8. CASE cur \ new = {} /\ n # m /\ new = {}
  <2>1. ch = <<>>
    BY <1>3, <1>8
  <2>2. After(cur, ch) = new
    BY <1>8, <2>1, AfterEmpty
  <2>4. cur = new
    BY <1>8
  <2>3. ch \in Seq(PoolOps) /\ (\A i \in 1..Len(ch) : ch[i].lb = l) /\ Harmless(ch, new)
    BY <2>1 DEF Harmless
  <2> QED BY <2>2, <2>3, <2>4
<1>9. CASE cur \ new # {} /\ new = {}
  <2>1. ch = <<rm>>
    BY <1>1, <1>3, <1>5, <1>9
  <2>2. After(cur, ch) = new
    BY <1>1, <1>4, <1>9, <2>1 DEF Apply
  <2>3. ch \in Seq(PoolOps) /\ (\A i \in 1..Len(ch) : ch[i].lb = l) /\ Harmless(ch, new)
    BY <1>1, <1>5, <1>9, <2>1 DEF Harmless
  <2> QED BY <2>1, <2>2, <2>3
<1>10. CASE cur \ new # {} /\ new # {}
  <2>1. ch = <<rm>> \o <<ad>>
    BY <1>3, <1>10
  <2>2. After(cur, ch) = Apply(Apply(cur, rm), ad)
    <3>1. After(cur, <<rm>> \o <<ad>>) = After(After(cur, <<rm>>), <<ad>>)
      <4>1. <<rm>> \in Seq(PoolOps) /\ <<ad>> \in Seq(PoolOps)
        BY <1>1, <1>2, <1>5, <1>10
      <4> HIDE DEF PoolOps
      <4> QED BY <4>1, AfterConcat, Zenon
    <3>2. After(cur, <<rm>>) = Apply(cur, rm)
      BY <1>1, <1>4, <1>10
    <3>3. After(Apply(cur, rm), <<ad>>) = Apply(Apply(cur, rm), ad)
      BY <1>2, <1>4, <1>10
    <3> QED BY <2>1, <3>1, <3>2, <3>3
  <2>3. Apply(Apply(cur, rm), ad) = new
    BY <1>1, <1>2, <1>10 DEF Apply
  <2>4. ch \in Seq(PoolOps) /\ (\A i \in 1..Len(ch) : ch[i].lb = l) /\ Harmless(ch, new)
    <3>1. /\ Len(<<rm>> \o <<ad>>) = 2 /\ (<<rm>> \o <<ad>>)[1] = rm /\ (<<rm>> \o <<ad>>)[2] = ad
          /\ <<rm>> \o <<ad>> \in Seq(PoolOps)
      BY <1>1, <1>2, <1>10
    <3> QED BY <1>1, <1>2, <1>10, <2>1, <3>1 DEF Harmless
  <2>5. ch # <<>>
    BY <1>1, <1>2, <1>5, <1>10, <2>1
  <2> QED BY <2>2, <2>3, <2>4, <2>5
<1> QED BY <1>6, <1>7, <1>8, <1>9, <1>10

-----------------------------------------------------------------------------
(***************************************************************************)
(* LocalServices: the invariant                                            *)
(***************************************************************************)

Slices == Layouts \cup {Absent}
Events == [old : Slices, new : Slices]
Copies == (SUBSET Nodes) \cup {NoPool}
PassPcs == {"idle", "move", "cleanup", "create", "hosts", "put", "store", "check",
            "enqueue", "forget"}

\* What the caches, the queue and the three goroutines hold.
LocalTypes ==
    /\ slice \in Slices /\ esCache \in Slices
    /\ watch \in Seq(Events)
    /\ info \in LBs \cup {NoLB} /\ home \in LBs \cup {NoLB}
    /\ pool \in [LBs -> Copies]
    /\ ops \in Seq(PoolOps) /\ inf \in Seq(PoolOps)
    /\ missed \in BOOLEAN

UpdRecord == [pc : {"idle", "get", "put"}, lb : LBs \cup {NoLB}, batch : Seq(PoolOps),
              copy : SUBSET Nodes, fresh : BOOLEAN]
RecRecord == [pc : PassPcs, lb : LBs \cup {NoLB}, copy : Copies, fresh : BOOLEAN,
              pend : Seq(PoolOps)]

UpdaterTypes ==
    /\ upd \in UpdRecord
    /\ upd.pc # "idle" => upd.lb \in LBs /\ ops = <<>>
    /\ upd.pc = "idle" => upd.batch = <<>>

PassTypes ==
    /\ rec \in RecRecord
    /\ rec.pc \notin {"idle", "forget"} => rec.lb \in LBs
    /\ rec.pc \in {"hosts", "put", "store", "check", "enqueue"} => rec.copy # NoPool
    /\ rec.pc # "enqueue" => rec.pend = <<>>
    /\ rec.pc \in {"check", "enqueue"} => info = rec.lb

\* The informer sees the changes of the slice in their order.
WatchInOrder ==
    /\ watch = <<>> => esCache = slice
    /\ watch # <<>> => Head(watch).old = esCache /\ watch[Len(watch)].new = slice
    /\ \A i \in 1..(Len(watch) - 1) : watch[i].new = watch[i + 1].old

\* A copy with a fresh etag is what is at Azure, or what the batch makes of it.
EtagSound ==
    /\ upd.pc = "put" /\ upd.fresh =>
         pool[upd.lb] # NoPool /\ upd.copy = After(pool[upd.lb], upd.batch)
    /\ rec.pc \in {"create", "hosts", "store", "check"} /\ rec.fresh => rec.copy = pool[rec.lb]
    /\ rec.pc = "put" /\ rec.fresh => pool[rec.lb] # NoPool

\* What the pool of the service will hold once everything that is queued, by
\* the updater, the pass or the informer, has been applied to it.
Outlook == After(After(After(After(pool[info], upd.batch), ops), rec.pend), inf)

AllFor(l, queue) == \A i \in 1..Len(queue) : queue[i].lb = l

\* What the informer still has to add is what the cached slice asks for.
InformerSound == esCache # Absent => Harmless(inf, ToSet(esCache))

\* A pass that has created the frontend knows where the service is; a pass
\* that moves the service to where it is recorded has missed something.
HomeSound ==
    /\ rec.pc \in {"hosts", "put", "store", "check", "enqueue"} => home = rec.lb
    /\ rec.pc \in {"move", "cleanup"} /\ rec.lb = info => missed

\* The pool of the recorded load balancer is followed between passes, and in a
\* pass that leaves the service there.
Followed ==
    /\ ~missed /\ info # NoLB
    /\ rec.pc = "idle" \/ (rec.lb = info /\ rec.pc \notin {"move", "cleanup", "forget"})

\* A PUT of the hosts anticipates operations that are queued.
Queued(kind, n) == Touches(upd.batch, kind, n) \/ Touches(ops, kind, n) \/ Touches(inf, kind, n)
Anticipates ==
    rec.pc = "put" /\ rec.fresh =>
      \A n : /\ n \in rec.copy /\ n \notin pool[info] => Queued("add", n)
             /\ n \notin rec.copy /\ n \in pool[info] => Queued("remove", n)

\* Everything that is queued is for the pool of the service, which exists.
Placed ==
    /\ home = info /\ esCache # Absent /\ pool[info] # NoPool
    /\ upd.pc # "idle" => upd.lb = info
    /\ AllFor(info, upd.batch) /\ AllFor(info, ops) /\ AllFor(info, inf) /\ AllFor(info, rec.pend)
    /\ Harmless(rec.pend, ToSet(esCache))

Following == Placed /\ Outlook = ToSet(esCache) /\ Anticipates
Told == Followed => Following

LocalInv ==
    /\ LocalTypes /\ UpdaterTypes /\ PassTypes /\ WatchInOrder /\ EtagSound
    /\ InformerSound /\ HomeSound /\ Told

\* The nodes of a slice are nodes.
LEMMA SliceNodes == ASSUME NEW s \in Layouts PROVE ToSet(s) \in SUBSET Nodes
BY LocalAssumption DEF ToSet

\* The informer takes the first event.
LEMMA WatchTail ==
    ASSUME LocalTypes, WatchInOrder, watch # <<>>,
           watch' = Tail(watch), esCache' = Head(watch).new, slice' = slice
    PROVE  Head(watch) \in Events /\ watch' \in Seq(Events) /\ WatchInOrder'
<1>0. watch \in Seq(Events)
  BY DEF LocalTypes
<1>1. /\ Head(watch) \in Events /\ watch' \in Seq(Events)
      /\ Len(watch') = Len(watch) - 1 /\ Len(watch) \in Nat /\ Len(watch) > 0
      /\ \A i \in 1..Len(watch') : watch'[i] = watch[i + 1]
      /\ Head(watch) = watch[1]
  BY <1>0
<1>2. CASE watch' = <<>>
  <2>0. Len(watch') = 0
    BY <1>1, <1>2, EmptySeq
  <2>1. Len(watch) = 1
    BY <1>1, <2>0
  <2>2. esCache' = slice'
    BY <1>1, <2>1 DEF WatchInOrder
  <2>3. \A i \in 1..(Len(watch') - 1) : FALSE
    BY <1>0, <2>0
  <2> QED BY <1>1, <1>2, <2>2, <2>3 DEF WatchInOrder
<1>3. CASE watch' # <<>>
  <2>1. Len(watch) > 1 /\ Head(watch') = watch[2] /\ watch'[Len(watch')] = watch[Len(watch)]
    BY <1>1, <1>3
  <2>2. watch[1].new = watch[2].old
    BY <1>1, <2>1 DEF WatchInOrder
  <2>3. \A i \in 1..(Len(watch') - 1) : watch'[i].new = watch'[i + 1].old
    <3> TAKE i \in 1..(Len(watch') - 1)
    <3>1. i + 1 \in 1..(Len(watch) - 1) /\ i \in 1..Len(watch') /\ i + 1 \in 1..Len(watch')
      BY <1>1
    <3>2. watch'[i] = watch[i + 1] /\ watch'[i + 1] = watch[(i + 1) + 1]
      BY <1>1, <3>1
    <3> QED BY <3>1, <3>2 DEF WatchInOrder
  <2> QED BY <1>1, <1>3, <2>1, <2>2, <2>3 DEF WatchInOrder
<1> QED BY <1>1, <1>2, <1>3

\* At the start nothing is queued and no pass is under way.
LEMMA InitLocalInv == LInit => LocalInv
<1> SUFFICES ASSUME LInit PROVE LocalInv
  OBVIOUS
<1>1. LocalTypes
  <2>1. <<>> \in Seq(Events) /\ <<>> \in Seq(PoolOps)
    OBVIOUS
  <2>2. pool \in [LBs -> Copies]
    BY DEF LInit, Copies
  <2> QED BY <2>1, <2>2 DEF LInit, LocalTypes, Slices
<1>0. WatchInOrder
  BY DEF LInit, WatchInOrder
<1>2. UpdaterTypes
  BY DEF LInit, UpdaterTypes, UpdRecord, IdleUpdater
<1>3. PassTypes
  BY DEF LInit, PassTypes, RecRecord, IdlePass, PassPcs, Copies
<1> QED BY <1>0, <1>1, <1>2, <1>3
  DEF LocalInv, LInit, EtagSound, InformerSound, Harmless, HomeSound, Told, Followed,
      IdleUpdater, IdlePass

\* Every step keeps what the queues hold, and the events in their order.
LEMMA NextLocalTypes == LocalInv /\ [LNext]_lvars => LocalTypes' /\ WatchInOrder'
<1> SUFFICES ASSUME LocalInv, [LNext]_lvars PROVE LocalTypes' /\ WatchInOrder'
  OBVIOUS
<1> USE DEF LocalInv
<1>1. CASE EndpointsChange
  <2>1. PICK s \in Slices : slice' = s /\ watch' = Append(watch, [old |-> slice, new |-> s])
    BY <1>1 DEF EndpointsChange, Slices
  <2>2. [old |-> slice, new |-> s] \in Events
    BY DEF LocalTypes, Events
  <2>3. LocalTypes'
    BY <1>1, <2>1, <2>2 DEF EndpointsChange, LocalTypes
  <2>4. WatchInOrder'
    BY <1>1, <2>1 DEF EndpointsChange, LocalTypes, WatchInOrder
  <2> QED BY <2>3, <2>4
<1>2. CASE SliceAddedOrDeleted
  <2>1. watch # <<>> /\ watch' = Tail(watch) /\ esCache' = Head(watch).new
    BY <1>2 DEF SliceAddedOrDeleted
  <2>2. Head(watch) \in Events /\ watch' \in Seq(Events) /\ WatchInOrder'
    BY <1>2, <2>1, WatchTail DEF SliceAddedOrDeleted
  <2>3. LocalTypes'
    BY <1>2, <2>1, <2>2 DEF SliceAddedOrDeleted, LocalTypes, Events
  <2> QED BY <2>2, <2>3
<1>3. CASE SliceUpdated
  <2> DEFINE old == Head(watch).old
             new == Head(watch).new
             queued == IF info = NoLB THEN <<>>
                       ELSE Changes(info, ToSet(old), Len(old), ToSet(new), Len(new))
  <2>1. watch # <<>> /\ watch' = Tail(watch) /\ esCache' = Head(watch).new /\ inf' = queued
    BY <1>3 DEF SliceUpdated
  <2>2. Head(watch) \in Events /\ watch' \in Seq(Events) /\ WatchInOrder'
    BY <1>3, <2>1, WatchTail DEF SliceUpdated
  <2>3. ToSet(old) \in SUBSET Nodes /\ ToSet(new) \in SUBSET Nodes
    BY <1>3, <2>2, SliceNodes DEF SliceUpdated, Slices, Events
  <2>4. inf' \in Seq(PoolOps)
    <3>1. CASE info = NoLB
      BY <2>1, <3>1
    <3>2. CASE info # NoLB
      <4>1. info \in LBs
        BY <3>2 DEF LocalTypes
      <4>2. ChangesSound(info, ToSet(old), Len(old), ToSet(new), Len(new))
        BY <2>3, <4>1, ChangesType
      <4>3. Changes(info, ToSet(old), Len(old), ToSet(new), Len(new)) \in Seq(PoolOps)
        BY <4>2 DEF ChangesSound
      <4> QED BY <2>1, <3>2, <4>3
    <3> QED BY <3>1, <3>2
  <2>5. missed' \in BOOLEAN
    BY <1>3 DEF SliceUpdated, LocalTypes
  <2> HIDE DEF queued
  <2>6. LocalTypes'
    BY <1>3, <2>1, <2>2, <2>4, <2>5 DEF SliceUpdated, LocalTypes, Events
  <2> QED BY <2>2, <2>6
<1>4. CASE InformerAdds
  <2>1. ops \in Seq(PoolOps) /\ inf \in Seq(PoolOps) /\ inf # <<>>
    BY <1>4 DEF InformerAdds, LocalTypes
  <2>2. Append(ops, Head(inf)) \in Seq(PoolOps) /\ Tail(inf) \in Seq(PoolOps)
    BY <2>1
  <2> QED BY <1>4, <2>2 DEF InformerAdds, LocalTypes, WatchInOrder
<1>5. CASE Process
  BY <1>5 DEF Process, LocalTypes, WatchInOrder
<1>6. CASE GetPool
  BY <1>6 DEF GetPool, LocalTypes, WatchInOrder
<1>7. CASE PoolNotFound
  BY <1>7 DEF PoolNotFound, LocalTypes, WatchInOrder
<1>8. CASE PutPool
  BY <1>8 DEF PutPool, Write, LocalTypes, WatchInOrder, UpdaterTypes, UpdRecord, Copies
<1>9. CASE BatchFails
  BY <1>9 DEF BatchFails, LocalTypes, WatchInOrder
<1>10. CASE BatchRetried
  BY <1>10 DEF BatchRetried, Write, LocalTypes, WatchInOrder, UpdaterTypes, UpdRecord, Copies
<1>11. CASE StartPass
  BY <1>11 DEF StartPass, LocalTypes, WatchInOrder
<1>12. CASE RemoveOperation
  BY <1>12 DEF RemoveOperation, LocalTypes, WatchInOrder
<1>13. CASE CleanupLocalServiceBackendPool
  BY <1>13 DEF CleanupLocalServiceBackendPool, LocalTypes, WatchInOrder, Copies
<1>14. CASE CreateOrUpdateLB
  BY <1>14 DEF CreateOrUpdateLB, Write, LocalTypes, WatchInOrder, PassTypes, RecRecord, Copies
<1>15. CASE EnsureHostsInPool
  BY <1>15 DEF EnsureHostsInPool, LocalTypes, WatchInOrder
<1>16. CASE PutHosts
  BY <1>16 DEF PutHosts, Write, LocalTypes, WatchInOrder, PassTypes, RecRecord
<1>17. CASE PassFails
  BY <1>17 DEF PassFails, LocalTypes, WatchInOrder
<1>18. CASE StoreInfo
  BY <1>18 DEF StoreInfo, LocalTypes, WatchInOrder, PassTypes, RecRecord
<1>19. CASE Check
  BY <1>19 DEF Check, LocalTypes, WatchInOrder
<1>20. CASE PassAdds
  <2>1. ops \in Seq(PoolOps) /\ rec.pend \in Seq(PoolOps)
    BY DEF PassTypes, RecRecord, LocalTypes
  <2>2. rec.pend # <<>> => Append(ops, Head(rec.pend)) \in Seq(PoolOps)
    BY <2>1
  <2> QED BY <1>20, <2>1, <2>2 DEF PassAdds, LocalTypes, WatchInOrder
<1>21. CASE EnsureDeleted
  BY <1>21 DEF EnsureDeleted, Write, LocalTypes, WatchInOrder, Copies
<1>22. CASE BecomesCluster
  BY <1>22 DEF BecomesCluster, LocalTypes, WatchInOrder, Copies
<1>23. CASE ForgetInfo
  BY <1>23 DEF ForgetInfo, LocalTypes, WatchInOrder
<1>24. CASE UNCHANGED lvars
  BY <1>24 DEF lvars, LocalTypes, WatchInOrder
<1> QED BY <1>1, <1>2, <1>3, <1>4, <1>5, <1>6, <1>7, <1>8, <1>9, <1>10, <1>11, <1>12,
    <1>13, <1>14, <1>15, <1>16, <1>17, <1>18, <1>19, <1>20, <1>21, <1>22, <1>23, <1>24
  DEF LNext, InformerStep, UpdaterStep, PassStep

\* A write makes the copies of the others stale and leaves the rest of them.
LEMMA Outdated ==
    ASSUME NEW ls
    PROVE  /\ upd \in UpdRecord /\ OutdateUpd(ls) =>
                /\ upd' \in UpdRecord
                /\ upd'.pc = upd.pc /\ upd'.lb = upd.lb /\ upd'.batch = upd.batch
                /\ upd'.copy = upd.copy /\ (upd'.fresh => upd.fresh /\ upd.lb \notin ls)
           /\ rec \in RecRecord /\ OutdateRec(ls) =>
                /\ rec' \in RecRecord
                /\ rec'.pc = rec.pc /\ rec'.lb = rec.lb /\ rec'.copy = rec.copy
                /\ rec'.pend = rec.pend /\ (rec'.fresh => rec.fresh /\ rec.lb \notin ls)
<1>1. ASSUME upd \in UpdRecord, OutdateUpd(ls)
      PROVE  /\ upd' \in UpdRecord
             /\ upd'.pc = upd.pc /\ upd'.lb = upd.lb /\ upd'.batch = upd.batch
             /\ upd'.copy = upd.copy /\ (upd'.fresh => upd.fresh /\ upd.lb \notin ls)
  <2> DEFINE b == upd.fresh /\ upd.lb \notin ls
  <2>1. b \in BOOLEAN
    OBVIOUS
  <2>2. upd' = [upd EXCEPT !.fresh = b]
    BY <1>1 DEF OutdateUpd
  <2> HIDE DEF b
  <2>3. /\ upd' \in UpdRecord
        /\ upd'.pc = upd.pc /\ upd'.lb = upd.lb /\ upd'.batch = upd.batch
        /\ upd'.copy = upd.copy /\ upd'.fresh = b
    BY <1>1, <2>1, <2>2 DEF UpdRecord
  <2> QED BY <2>3 DEF b
<1>2. ASSUME rec \in RecRecord, OutdateRec(ls)
      PROVE  /\ rec' \in RecRecord
             /\ rec'.pc = rec.pc /\ rec'.lb = rec.lb /\ rec'.copy = rec.copy
             /\ rec'.pend = rec.pend /\ (rec'.fresh => rec.fresh /\ rec.lb \notin ls)
  <2> DEFINE b == rec.fresh /\ rec.lb \notin ls
  <2>1. b \in BOOLEAN
    OBVIOUS
  <2>2. rec' = [rec EXCEPT !.fresh = b]
    BY <1>2 DEF OutdateRec
  <2> HIDE DEF b
  <2>3. /\ rec' \in RecRecord
        /\ rec'.pc = rec.pc /\ rec'.lb = rec.lb /\ rec'.copy = rec.copy
        /\ rec'.pend = rec.pend /\ rec'.fresh = b
    BY <1>2, <2>1, <2>2 DEF RecRecord
  <2> QED BY <2>3 DEF b
<1> QED BY <1>1, <1>2

\* Every step keeps what the updater and the pass hold.
LEMMA NextRecords == LocalInv /\ [LNext]_lvars => UpdaterTypes' /\ PassTypes'
<1> SUFFICES ASSUME LocalInv, [LNext]_lvars PROVE UpdaterTypes' /\ PassTypes'
  OBVIOUS
<1> USE DEF LocalInv
<1>0. /\ upd \in UpdRecord /\ rec \in RecRecord /\ IdleUpdater \in UpdRecord /\ IdlePass \in RecRecord
      /\ IdleUpdater.pc = "idle" /\ IdleUpdater.batch = <<>>
      /\ IdlePass.pc = "idle" /\ IdlePass.pend = <<>>
  BY DEF UpdaterTypes, PassTypes, UpdRecord, RecRecord, IdleUpdater, IdlePass, PassPcs, Copies
<1>1. CASE EndpointsChange
  BY <1>1 DEF EndpointsChange, UpdaterTypes, PassTypes
<1>2. CASE SliceAddedOrDeleted
  BY <1>2 DEF SliceAddedOrDeleted, UpdaterTypes, PassTypes
<1>3. CASE SliceUpdated
  BY <1>3 DEF SliceUpdated, UpdaterTypes, PassTypes
<1>4. CASE InformerAdds
  BY <1>4 DEF InformerAdds, Unlocked, UpdaterTypes, PassTypes
<1>5. CASE Process
  <2> DEFINE kept == OperationsFor(info, ops)
  <2>1. kept \in Seq(PoolOps) /\ (kept # <<>> => info \in LBs)
    BY OperationsForType DEF LocalTypes
  <2>2. /\ ops' = <<>> /\ UNCHANGED <<rec, info>>
        /\ upd' = IF kept = <<>> THEN IdleUpdater
                  ELSE [upd EXCEPT !.pc = "get", !.lb = info, !.batch = kept]
    BY <1>5 DEF Process
  <2> HIDE DEF kept
  <2>3. UpdaterTypes'
    <3>1. CASE kept = <<>>
      BY <1>0, <2>2, <3>1 DEF UpdaterTypes
    <3>2. CASE kept # <<>>
      BY <1>0, <2>1, <2>2, <3>2 DEF UpdaterTypes, UpdRecord
    <3> QED BY <3>1, <3>2
  <2> QED BY <2>2, <2>3 DEF PassTypes
<1>6. CASE GetPool
  <2>1. pool[upd.lb] \in SUBSET Nodes /\ upd.batch \in Seq(PoolOps) /\ upd.lb \in LBs
    BY <1>6 DEF GetPool, LocalTypes, UpdaterTypes, UpdRecord, Copies
  <2>2. After(pool[upd.lb], upd.batch) \in SUBSET Nodes
    BY <2>1, AfterType
  <2>3. UpdaterTypes'
    BY <1>0, <1>6, <2>1, <2>2 DEF GetPool, UpdaterTypes, UpdRecord
  <2> QED BY <1>6, <2>3 DEF GetPool, PassTypes
<1>7. CASE PoolNotFound
  BY <1>0, <1>7 DEF PoolNotFound, UpdaterTypes, PassTypes
<1>8. CASE PutPool
  BY <1>0, <1>8, Outdated DEF PutPool, UpdaterTypes, PassTypes
<1>9. CASE BatchFails
  BY <1>0, <1>9 DEF BatchFails, UpdaterTypes, PassTypes
<1>10. CASE BatchRetried
  BY <1>0, <1>10, Outdated DEF BatchRetried, UpdaterTypes, PassTypes
<1>11. CASE StartPass
  <2>1. PICK l \in LBs :
          rec' = [rec EXCEPT !.pc = IF home \notin {NoLB, l} THEN "move" ELSE "create",
                             !.lb = l, !.copy = pool[l], !.fresh = TRUE, !.pend = <<>>]
    BY <1>11 DEF StartPass
  <2>2. pool[l] \in Copies
    BY DEF LocalTypes
  <2>3. PassTypes'
    BY <1>0, <2>1, <2>2 DEF PassTypes, RecRecord, PassPcs
  <2> QED BY <1>11, <2>3 DEF StartPass, UpdaterTypes
<1>12. CASE RemoveOperation
  BY <1>0, <1>12 DEF RemoveOperation, Unlocked, UpdaterTypes, PassTypes, RecRecord, PassPcs
<1>13. CASE CleanupLocalServiceBackendPool
  <2>1. UpdaterTypes'
    BY <1>0, <1>13, Outdated DEF CleanupLocalServiceBackendPool, UpdaterTypes
  <2>2. PassTypes'
    BY <1>0, <1>13 DEF CleanupLocalServiceBackendPool, PassTypes, RecRecord, PassPcs, Copies
  <2> QED BY <2>1, <2>2
<1>14. CASE CreateOrUpdateLB
  <2>1. UpdaterTypes'
    BY <1>0, <1>14, Outdated DEF CreateOrUpdateLB, UpdaterTypes
  <2>2. rec.lb \in LBs /\ rec.pc = "create"
    BY <1>14 DEF CreateOrUpdateLB, PassTypes
  <2>3. CASE rec' = [rec EXCEPT !.pc = "hosts", !.copy = pool'[rec.lb]]
             /\ Write(rec.lb, IF pool[rec.lb] = NoPool THEN {} ELSE pool[rec.lb])
    <3>1. pool'[rec.lb] \in Copies /\ pool'[rec.lb] # NoPool
      BY <2>2, <2>3, LocalAssumption DEF Write, LocalTypes, Copies
    <3> QED BY <1>0, <1>14, <2>1, <2>2, <2>3, <3>1 DEF PassTypes, RecRecord, PassPcs
  <2>4. CASE rec.copy # NoPool /\ rec' = [rec EXCEPT !.pc = "hosts"]
    BY <1>0, <1>14, <2>1, <2>2, <2>4 DEF CreateOrUpdateLB, PassTypes, RecRecord, PassPcs
  <2> QED BY <1>14, <2>3, <2>4 DEF CreateOrUpdateLB
<1>15. CASE EnsureHostsInPool
  <2> DEFINE target == IF esCache = Absent THEN Nodes ELSE ToSet(esCache)
  <2>1. target \in SUBSET Nodes
    BY SliceNodes DEF LocalTypes, Slices
  <2>2. rec' = IF info \notin {NoLB, rec.lb} \/ target = rec.copy
                 THEN [rec EXCEPT !.pc = "store"]
                 ELSE [rec EXCEPT !.pc = "put", !.copy = target]
    BY <1>15 DEF EnsureHostsInPool
  <2> HIDE DEF target
  <2>3. PassTypes'
    BY <1>0, <1>15, <2>1, <2>2, LocalAssumption
    DEF EnsureHostsInPool, PassTypes, RecRecord, PassPcs, Copies
  <2> QED BY <1>15, <2>3 DEF EnsureHostsInPool, UpdaterTypes
<1>16. CASE PutHosts
  <2>1. UpdaterTypes'
    BY <1>0, <1>16, Outdated DEF PutHosts, UpdaterTypes
  <2>2. PassTypes'
    BY <1>0, <1>16 DEF PutHosts, PassTypes, RecRecord, PassPcs
  <2> QED BY <2>1, <2>2
<1>17. CASE PassFails
  BY <1>0, <1>17 DEF PassFails, UpdaterTypes, PassTypes
<1>18. CASE StoreInfo
  BY <1>0, <1>18 DEF StoreInfo, UpdaterTypes, PassTypes, RecRecord, PassPcs
<1>19. CASE Check
  <2> DEFINE ch == Changes(rec.lb, rec.copy, Cardinality(rec.copy),
                           ToSet(esCache), Cardinality(ToSet(esCache)))
  <2>1. /\ rec.pc = "check" /\ UNCHANGED <<info, upd, ops>>
        /\ rec' = IF esCache = Absent THEN IdlePass
                  ELSE [rec EXCEPT !.pc = "enqueue", !.pend = ch]
    BY <1>19 DEF Check
  <2>2. esCache # Absent => ch \in Seq(PoolOps)
    <3> SUFFICES ASSUME esCache # Absent PROVE ch \in Seq(PoolOps)
      OBVIOUS
    <3>1. ToSet(esCache) \in SUBSET Nodes
      BY SliceNodes DEF LocalTypes, Slices
    <3>2. rec.lb \in LBs /\ rec.copy \in SUBSET Nodes
      BY <1>0, <2>1 DEF PassTypes, RecRecord, Copies
    <3>3. ChangesSound(rec.lb, rec.copy, Cardinality(rec.copy),
                       ToSet(esCache), Cardinality(ToSet(esCache)))
      BY <3>1, <3>2, ChangesType
    <3> QED BY <3>3 DEF ChangesSound
  <2> HIDE DEF ch
  <2>3. PassTypes'
    BY <1>0, <2>1, <2>2 DEF PassTypes, RecRecord, PassPcs
  <2> QED BY <2>1, <2>3 DEF UpdaterTypes
<1>20. CASE PassAdds
  <2>1. UpdaterTypes'
    BY <1>20 DEF PassAdds, Unlocked, UpdaterTypes
  <2>2. CASE rec.pend = <<>>
    BY <1>0, <1>20, <2>1, <2>2 DEF PassAdds, PassTypes
  <2>3. CASE rec.pend # <<>>
    <3> DEFINE rest == Tail(rec.pend)
    <3>1. rest \in Seq(PoolOps)
      BY <1>0, <2>3 DEF RecRecord
    <3>2. rec' = [rec EXCEPT !.pend = rest] /\ rec.pc = "enqueue" /\ info' = info
      BY <1>20, <2>3 DEF PassAdds
    <3> HIDE DEF rest
    <3>3. rec' \in RecRecord /\ rec'.pc = "enqueue" /\ rec'.lb = rec.lb /\ rec'.copy = rec.copy
      BY <1>0, <3>1, <3>2 DEF RecRecord
    <3>4. PassTypes'
      BY <3>2, <3>3 DEF PassTypes
    <3> QED BY <2>1, <3>4
  <2> QED BY <2>2, <2>3
<1>21. CASE EnsureDeleted
  <2>1. UpdaterTypes'
    BY <1>0, <1>21, Outdated DEF EnsureDeleted, UpdaterTypes
  <2>2. PassTypes'
    BY <1>0, <1>21 DEF EnsureDeleted, PassTypes, RecRecord, PassPcs
  <2> QED BY <2>1, <2>2
<1>22. CASE BecomesCluster
  <2>1. UpdaterTypes'
    BY <1>0, <1>22, Outdated DEF BecomesCluster, UpdaterTypes
  <2>2. PassTypes'
    BY <1>0, <1>22 DEF BecomesCluster, PassTypes, RecRecord, PassPcs
  <2> QED BY <2>1, <2>2
<1>23. CASE ForgetInfo
  BY <1>0, <1>23 DEF ForgetInfo, UpdaterTypes, PassTypes
<1>24. CASE UNCHANGED lvars
  BY <1>24 DEF lvars, UpdaterTypes, PassTypes
<1> QED BY <1>1, <1>2, <1>3, <1>4, <1>5, <1>6, <1>7, <1>8, <1>9, <1>10, <1>11, <1>12,
    <1>13, <1>14, <1>15, <1>16, <1>17, <1>18, <1>19, <1>20, <1>21, <1>22, <1>23, <1>24
  DEF LNext, InformerStep, UpdaterStep, PassStep

\* Every step keeps the etags sound: whoever writes a pool makes the copies of
\* the others stale.
LEMMA NextEtagSound == LocalInv /\ [LNext]_lvars => EtagSound'
<1> SUFFICES ASSUME LocalInv, [LNext]_lvars PROVE EtagSound'
  OBVIOUS
<1> USE DEF LocalInv
<1>0. /\ upd \in UpdRecord /\ rec \in RecRecord
      /\ IdleUpdater.pc = "idle" /\ IdlePass.pc = "idle"
  BY DEF UpdaterTypes, PassTypes, IdleUpdater, IdlePass
<1>1. CASE EndpointsChange
  BY <1>1 DEF EndpointsChange, EtagSound
<1>2. CASE SliceAddedOrDeleted
  BY <1>2 DEF SliceAddedOrDeleted, EtagSound
<1>3. CASE SliceUpdated
  BY <1>3 DEF SliceUpdated, EtagSound
<1>4. CASE InformerAdds
  BY <1>4 DEF InformerAdds, EtagSound
<1>5. CASE Process
  BY <1>0, <1>5 DEF Process, EtagSound, UpdRecord
<1>6. CASE GetPool
  <2>1. upd.lb \in LBs /\ upd.batch \in Seq(PoolOps) /\ pool' = pool /\ rec' = rec /\ pool[upd.lb] # NoPool
    BY <1>0, <1>6 DEF GetPool, UpdaterTypes, UpdRecord
  <2>2. \/ upd' = IdleUpdater
        \/ upd' = [upd EXCEPT !.pc = "put", !.fresh = TRUE, !.copy = After(pool[upd.lb], upd.batch)]
    BY <1>6 DEF GetPool
  <2> QED BY <1>0, <2>1, <2>2 DEF EtagSound, UpdRecord
<1>7. CASE PoolNotFound
  BY <1>0, <1>7 DEF PoolNotFound, EtagSound
<1>8. CASE PutPool
  <2>1. /\ rec'.pc = rec.pc /\ rec'.lb = rec.lb /\ rec'.copy = rec.copy
        /\ (rec'.fresh => rec.fresh /\ rec.lb # upd.lb)
    BY <1>0, <1>8, Outdated DEF PutPool
  <2>2. upd'.pc = "idle" /\ pool' = [pool EXCEPT ![upd.lb] = upd.copy]
    BY <1>0, <1>8 DEF PutPool, Write
  <2>3. rec.pc \notin {"idle", "forget"} /\ rec'.fresh => rec.fresh /\ pool'[rec.lb] = pool[rec.lb]
    BY <2>1, <2>2 DEF UpdaterTypes, PassTypes, LocalTypes
  <2> QED BY <2>1, <2>2, <2>3 DEF EtagSound
<1>9. CASE BatchFails
  BY <1>0, <1>9 DEF BatchFails, EtagSound
<1>10. CASE BatchRetried
  <2>1. upd'.pc = "idle"
    BY <1>0, <1>10 DEF BatchRetried
  <2>2. CASE UNCHANGED <<pool, rec>>
    BY <2>1, <2>2 DEF EtagSound
  <2>3. CASE Write(upd.lb, upd.copy) /\ OutdateRec({upd.lb})
    <3>1. /\ rec'.pc = rec.pc /\ rec'.lb = rec.lb /\ rec'.copy = rec.copy
          /\ (rec'.fresh => rec.fresh /\ rec.lb # upd.lb)
      BY <1>0, <2>3, Outdated
    <3>2. rec.pc \notin {"idle", "forget"} /\ rec'.fresh => rec.fresh /\ pool'[rec.lb] = pool[rec.lb]
      BY <2>3, <3>1 DEF UpdaterTypes, PassTypes, LocalTypes, Write
    <3> QED BY <2>1, <3>1, <3>2 DEF EtagSound
  <2> QED BY <1>10, <2>2, <2>3 DEF BatchRetried
<1>11. CASE StartPass
  <2>1. PICK l \in LBs :
          rec' = [rec EXCEPT !.pc = IF home \notin {NoLB, l} THEN "move" ELSE "create",
                             !.lb = l, !.copy = pool[l], !.fresh = TRUE, !.pend = <<>>]
    BY <1>11 DEF StartPass
  <2>2. rec'.pc \in {"move", "create"} /\ rec'.copy = pool[l] /\ rec'.lb = l
    BY <1>0, <2>1 DEF RecRecord
  <2> QED BY <1>11, <2>2 DEF StartPass, EtagSound
<1>12. CASE RemoveOperation
  BY <1>0, <1>12 DEF RemoveOperation, EtagSound, RecRecord
<1>13. CASE CleanupLocalServiceBackendPool
  <2>1. upd'.pc = upd.pc /\ upd'.lb = upd.lb /\ (upd'.fresh => upd.lb \notin LBs)
    BY <1>0, <1>13, Outdated DEF CleanupLocalServiceBackendPool
  <2>2. upd'.pc = "put" => ~upd'.fresh
    BY <2>1 DEF UpdaterTypes
  <2>3. rec'.pc = "create" /\ rec'.copy = pool'[rec'.lb]
    BY <1>0, <1>13 DEF CleanupLocalServiceBackendPool, PassTypes, RecRecord
  <2> QED BY <2>2, <2>3 DEF EtagSound
<1>14. CASE CreateOrUpdateLB
  <2>0. rec.lb \in LBs /\ rec.pc = "create"
    BY <1>14 DEF CreateOrUpdateLB, PassTypes
  <2>1. CASE /\ rec.fresh
             /\ Write(rec.lb, IF pool[rec.lb] = NoPool THEN {} ELSE pool[rec.lb])
             /\ rec' = [rec EXCEPT !.pc = "hosts", !.copy = pool'[rec.lb]]
             /\ OutdateUpd({rec.lb})
    <3>1. /\ upd'.pc = upd.pc /\ upd'.lb = upd.lb /\ upd'.copy = upd.copy /\ upd'.batch = upd.batch
          /\ (upd'.fresh => upd.fresh /\ upd.lb # rec.lb)
      BY <1>0, <2>1, Outdated
    <3>2. upd.pc = "put" /\ upd'.fresh => upd.fresh /\ pool'[upd.lb] = pool[upd.lb]
      BY <2>1, <3>1 DEF UpdaterTypes, PassTypes, LocalTypes, Write
    <3>3. rec'.pc = "hosts" /\ rec'.copy = pool'[rec'.lb]
      BY <1>0, <2>1 DEF RecRecord
    <3> QED BY <3>1, <3>2, <3>3 DEF EtagSound
  <2>2. CASE rec' = [rec EXCEPT !.pc = "hosts"] /\ UNCHANGED <<pool, home, upd>>
    BY <1>0, <2>0, <2>2 DEF EtagSound, RecRecord
  <2> QED BY <1>14, <2>1, <2>2 DEF CreateOrUpdateLB
<1>15. CASE EnsureHostsInPool
  <2>1. \/ rec' = [rec EXCEPT !.pc = "store"]
        \/ \E t : rec' = [rec EXCEPT !.pc = "put", !.copy = t]
    BY <1>15 DEF EnsureHostsInPool
  <2>2. rec.pc = "hosts" /\ UNCHANGED <<pool, upd>> /\ rec.copy # NoPool
    BY <1>15 DEF EnsureHostsInPool, PassTypes
  <2> QED BY <1>0, <2>1, <2>2 DEF EtagSound, RecRecord
<1>16. CASE PutHosts
  <2>1. /\ upd'.pc = upd.pc /\ upd'.lb = upd.lb /\ upd'.copy = upd.copy /\ upd'.batch = upd.batch
        /\ (upd'.fresh => upd.fresh /\ upd.lb # rec.lb)
    BY <1>0, <1>16, Outdated DEF PutHosts
  <2>2. upd.pc = "put" /\ upd'.fresh => upd.fresh /\ pool'[upd.lb] = pool[upd.lb]
    BY <1>16, <2>1 DEF UpdaterTypes, PassTypes, LocalTypes, PutHosts, Write
  <2>3. rec'.pc = "store" /\ rec'.copy = pool'[rec'.lb]
    BY <1>0, <1>16 DEF RecRecord, PutHosts, Write, LocalTypes, PassTypes
  <2> QED BY <2>1, <2>2, <2>3 DEF EtagSound
<1>17. CASE PassFails
  BY <1>0, <1>17 DEF PassFails, EtagSound
<1>18. CASE StoreInfo
  BY <1>0, <1>18 DEF StoreInfo, EtagSound, RecRecord
<1>19. CASE Check
  <2>1. UNCHANGED <<pool, upd>> /\ (rec'.pc = "idle" \/ rec'.pc = "enqueue")
    BY <1>0, <1>19 DEF Check, RecRecord
  <2> QED BY <2>1 DEF EtagSound
<1>20. CASE PassAdds
  <2>1. UNCHANGED <<pool, upd>> /\ (rec'.pc = "idle" \/ rec'.pc = "enqueue")
    <3>1. CASE rec.pend = <<>>
      BY <1>0, <1>20, <3>1 DEF PassAdds
    <3>2. CASE rec.pend # <<>>
      <4>1. PICK t : rec' = [rec EXCEPT !.pend = t]
        BY <1>20, <3>2 DEF PassAdds
      <4>2. rec.pc = "enqueue" /\ UNCHANGED <<pool, upd>>
        BY <1>20 DEF PassAdds
      <4> QED BY <1>0, <4>1, <4>2 DEF RecRecord
    <3> QED BY <3>1, <3>2
  <2> QED BY <2>1 DEF EtagSound
<1>21. CASE EnsureDeleted
  <2>1. rec'.pc = "forget"
    BY <1>0, <1>21 DEF EnsureDeleted, RecRecord
  <2>2. CASE UNCHANGED <<pool, upd>>
    BY <2>1, <2>2 DEF EtagSound
  <2>3. CASE Write(home, NoPool) /\ OutdateUpd({home})
    <3>1. /\ upd'.pc = upd.pc /\ upd'.lb = upd.lb /\ upd'.copy = upd.copy /\ upd'.batch = upd.batch
          /\ (upd'.fresh => upd.fresh /\ upd.lb # home)
      BY <1>0, <2>3, Outdated
    <3>2. upd.pc = "put" /\ upd'.fresh => upd.fresh /\ pool'[upd.lb] = pool[upd.lb]
      BY <2>3, <3>1 DEF UpdaterTypes, PassTypes, LocalTypes, Write
    <3> QED BY <2>1, <3>1, <3>2 DEF EtagSound
  <2> QED BY <1>21, <2>2, <2>3 DEF EnsureDeleted
<1>22. CASE BecomesCluster
  <2>1. rec'.pc = "forget"
    BY <1>0, <1>22 DEF BecomesCluster, RecRecord
  <2>2. upd'.pc = upd.pc /\ upd'.lb = upd.lb /\ (upd'.fresh => upd.lb \notin LBs)
    BY <1>0, <1>22, Outdated DEF BecomesCluster
  <2>3. upd'.pc = "put" => ~upd'.fresh
    BY <2>2 DEF UpdaterTypes
  <2> QED BY <2>1, <2>3 DEF EtagSound
<1>23. CASE ForgetInfo
  BY <1>0, <1>23 DEF ForgetInfo, EtagSound
<1>24. CASE UNCHANGED lvars
  BY <1>24 DEF lvars, EtagSound
<1> QED BY <1>1, <1>2, <1>3, <1>4, <1>5, <1>6, <1>7, <1>8, <1>9, <1>10, <1>11, <1>12,
    <1>13, <1>14, <1>15, <1>16, <1>17, <1>18, <1>19, <1>20, <1>21, <1>22, <1>23, <1>24
  DEF LNext, InformerStep, UpdaterStep, PassStep

\* Two sets of nodes, one in the other and of one size, are equal.
LEMMA SameNodes ==
    ASSUME NEW a \in SUBSET Nodes, NEW b \in SUBSET Nodes, a \subseteq b,
           Cardinality(a) = Cardinality(b)
    PROVE  a = b
<1>1. IsFiniteSet(b)
  BY LocalAssumption, FS_Subset
<1>2. a \in SUBSET b
  OBVIOUS
<1> QED BY <1>1, <1>2, FS_Subset

\* The first operation of a queue, and the rest of it.
LEMMA AfterHead ==
    ASSUME NEW p, NEW s \in Seq(PoolOps), NEW t \in Seq(PoolOps), t # <<>>
    PROVE  After(After(p, Append(s, Head(t))), Tail(t)) = After(After(p, s), t)
<1>1. /\ Head(t) \in PoolOps /\ Tail(t) \in Seq(PoolOps) /\ <<Head(t)>> \in Seq(PoolOps)
      /\ Append(s, Head(t)) = s \o <<Head(t)>> /\ <<Head(t)>> \o Tail(t) = t
  OBVIOUS
<1>2. After(p, Append(s, Head(t))) = After(After(p, s), <<Head(t)>>)
  <2>1. After(p, s \o <<Head(t)>>) = After(After(p, s), <<Head(t)>>)
    BY <1>1, AfterConcat, Zenon
  <2> QED BY <1>1, <2>1
<1>3. After(After(After(p, s), <<Head(t)>>), Tail(t)) = After(After(p, s), <<Head(t)>> \o Tail(t))
  BY <1>1, AfterConcat
<1> QED BY <1>1, <1>2, <1>3

\* An operation that goes from one queue to the end of another is still queued.
LEMMA TouchesMoved ==
    ASSUME NEW s \in Seq(PoolOps), NEW t \in Seq(PoolOps), t # <<>>, NEW kind, NEW n
    PROVE  /\ Touches(s, kind, n) => Touches(Append(s, Head(t)), kind, n)
           /\ Touches(t, kind, n) =>
                Touches(Append(s, Head(t)), kind, n) \/ Touches(Tail(t), kind, n)
<1>1. /\ Len(s) \in Nat /\ Len(t) \in Nat /\ Len(t) > 0
      /\ Len(Append(s, Head(t))) = Len(s) + 1 /\ Len(Tail(t)) = Len(t) - 1
      /\ \A i \in 1..Len(s) : Append(s, Head(t))[i] = s[i]
      /\ Append(s, Head(t))[Len(s) + 1] = t[1]
      /\ \A i \in 1..(Len(t) - 1) : Tail(t)[i] = t[i + 1]
  OBVIOUS
<1>2. ASSUME Touches(s, kind, n) PROVE Touches(Append(s, Head(t)), kind, n)
  BY <1>1, <1>2 DEF Touches
<1>3. ASSUME Touches(t, kind, n)
      PROVE  Touches(Append(s, Head(t)), kind, n) \/ Touches(Tail(t), kind, n)
  <2>1. PICK i \in 1..Len(t) : t[i].kind = kind /\ n \in t[i].ips
    BY <1>3 DEF Touches
  <2>2. CASE i = 1
    <3>1. Len(s) + 1 \in 1..Len(Append(s, Head(t)))
      BY <1>1
    <3> QED BY <1>1, <2>1, <2>2, <3>1 DEF Touches
  <2>3. CASE i # 1
    <3>1. i - 1 \in 1..Len(Tail(t)) /\ Tail(t)[i - 1] = t[(i - 1) + 1] /\ (i - 1) + 1 = i
      BY <1>1, <2>3
    <3> QED BY <2>1, <3>1 DEF Touches
  <2> QED BY <2>2, <2>3
<1> QED BY <1>2, <1>3

\* The rest of harmless operations is harmless.
LEMMA HarmlessTail ==
    ASSUME NEW t \in Seq(PoolOps), t # <<>>, NEW want, Harmless(t, want)
    PROVE  Harmless(Tail(t), want)
<1>1. /\ Len(t) \in Nat /\ Len(t) > 0 /\ Len(Tail(t)) = Len(t) - 1
      /\ \A i \in 1..(Len(t) - 1) : Tail(t)[i] = t[i + 1] /\ i + 1 \in 1..Len(t)
  OBVIOUS
<1> QED BY <1>1 DEF Harmless

\* Every step keeps what the informer's handler has to add.
LEMMA NextInformerSound == LocalInv /\ [LNext]_lvars => InformerSound'
<1> SUFFICES ASSUME LocalInv, [LNext]_lvars PROVE InformerSound'
  OBVIOUS
<1> USE DEF LocalInv
<1>1. CASE SliceUpdated
  <2> DEFINE old == Head(watch).old
             new == Head(watch).new
  <2>1. /\ watch # <<>> /\ old # Absent /\ new # Absent /\ esCache' = new
        /\ inf' = IF info = NoLB THEN <<>>
                  ELSE Changes(info, ToSet(old), Len(old), ToSet(new), Len(new))
    BY <1>1 DEF SliceUpdated
  <2>2. ToSet(old) \in SUBSET Nodes /\ ToSet(new) \in SUBSET Nodes
    <3>1. Head(watch) \in Events
      BY <2>1 DEF LocalTypes
    <3> QED BY <2>1, <3>1, SliceNodes DEF Slices, Events
  <2>3. CASE info = NoLB
    BY <2>1, <2>3 DEF InformerSound, Harmless
  <2>4. CASE info # NoLB
    <3>1. info \in LBs
      BY <2>4 DEF LocalTypes
    <3> HIDE DEF old, new
    <3>2. ChangesSound(info, ToSet(old), Len(old), ToSet(new), Len(new))
      BY <2>2, <3>1, ChangesType
    <3> QED BY <2>1, <2>4, <3>2 DEF InformerSound, ChangesSound
  <2> QED BY <2>3, <2>4
<1>2. CASE SliceAddedOrDeleted
  BY <1>2 DEF SliceAddedOrDeleted, InformerSound, Harmless
<1>3. CASE InformerAdds
  BY <1>3, HarmlessTail DEF InformerAdds, InformerSound, LocalTypes
<1>4. CASE UNCHANGED <<esCache, inf>>
  BY <1>4 DEF InformerSound
<1> QED BY <1>1, <1>2, <1>3, <1>4
  DEF LNext, InformerStep, UpdaterStep, PassStep, EndpointsChange, Process, GetPool,
      PoolNotFound, PutPool, BatchFails, BatchRetried, StartPass, RemoveOperation,
      CleanupLocalServiceBackendPool, CreateOrUpdateLB, EnsureHostsInPool, PutHosts, PassFails,
      StoreInfo, Check, PassAdds, EnsureDeleted, BecomesCluster, ForgetInfo, lvars

\* Every step keeps what a pass knows of where the service is.
LEMMA NextHomeSound == LocalInv /\ [LNext]_lvars => HomeSound'
<1> SUFFICES ASSUME LocalInv, [LNext]_lvars PROVE HomeSound'
  OBVIOUS
<1> USE DEF LocalInv
<1>0. rec \in RecRecord /\ IdlePass.pc = "idle" /\ missed \in BOOLEAN
  BY DEF PassTypes, IdlePass, LocalTypes
<1>a. ASSUME rec'.pc = rec.pc, rec'.lb = rec.lb, UNCHANGED <<home, info>>, missed => missed'
      PROVE  HomeSound'
  BY <1>a DEF HomeSound
<1>1. CASE EndpointsChange \/ SliceAddedOrDeleted \/ SliceUpdated \/ InformerAdds
  BY <1>0, <1>1, <1>a DEF EndpointsChange, SliceAddedOrDeleted, SliceUpdated, InformerAdds
<1>2. CASE Process \/ GetPool \/ PoolNotFound \/ BatchFails
  BY <1>2, <1>a DEF Process, GetPool, PoolNotFound, BatchFails
<1>3. CASE PutPool \/ BatchRetried
  BY <1>0, <1>3, <1>a, Outdated DEF PutPool, BatchRetried
<1>4. CASE StartPass
  <2>1. PICK l \in LBs :
          rec' = [rec EXCEPT !.pc = IF home \notin {NoLB, l} THEN "move" ELSE "create",
                             !.lb = l, !.copy = pool[l], !.fresh = TRUE, !.pend = <<>>]
    BY <1>4 DEF StartPass
  <2>2. /\ rec'.pc = (IF home \notin {NoLB, l} THEN "move" ELSE "create") /\ rec'.lb = l
        /\ rec.pc = "idle" /\ UNCHANGED <<home, info, missed>>
    BY <1>0, <1>4, <2>1 DEF RecRecord, StartPass
  <2>3. rec'.pc = "move" /\ l = info => missed
    BY <2>2, LocalAssumption DEF Told, Followed, Following, Placed
  <2> QED BY <2>2, <2>3 DEF HomeSound
<1>5. CASE RemoveOperation
  <2>1. /\ rec.pc = "move" /\ rec'.pc = "cleanup" /\ rec'.lb = rec.lb /\ UNCHANGED <<info, missed>>
    BY <1>0, <1>5 DEF RemoveOperation, RecRecord
  <2> QED BY <2>1 DEF HomeSound
<1>6. CASE CleanupLocalServiceBackendPool \/ EnsureDeleted \/ BecomesCluster
  <2>1. rec'.pc \in {"create", "forget"}
    BY <1>0, <1>6 DEF CleanupLocalServiceBackendPool, EnsureDeleted, BecomesCluster, RecRecord
  <2> QED BY <2>1 DEF HomeSound
<1>7. CASE CreateOrUpdateLB
  <2>1. rec'.pc = "hosts" /\ rec'.lb = rec.lb /\ home' = rec.lb
    BY <1>0, <1>7 DEF CreateOrUpdateLB, RecRecord
  <2> QED BY <2>1 DEF HomeSound
<1>8. CASE EnsureHostsInPool
  <2>1. rec.pc = "hosts" /\ rec'.pc \in {"store", "put"} /\ rec'.lb = rec.lb /\ home' = home
    BY <1>0, <1>8 DEF EnsureHostsInPool, RecRecord
  <2> QED BY <2>1 DEF HomeSound
<1>9. CASE PutHosts \/ StoreInfo
  <2>1. rec.pc \in {"put", "store"} /\ rec'.pc \in {"store", "check"} /\ rec'.lb = rec.lb /\ home' = home
    BY <1>0, <1>9 DEF PutHosts, StoreInfo, RecRecord
  <2> QED BY <2>1 DEF HomeSound
<1>10. CASE PassFails \/ ForgetInfo
  BY <1>0, <1>10 DEF PassFails, ForgetInfo, HomeSound
<1>11. CASE Check
  <2>1. /\ rec.pc = "check" /\ home' = home
        /\ \/ rec' = IdlePass
           \/ \E c : rec' = [rec EXCEPT !.pc = "enqueue", !.pend = c]
    BY <1>11 DEF Check
  <2>2. rec'.pc = "idle" \/ (rec'.pc = "enqueue" /\ rec'.lb = rec.lb)
    BY <1>0, <2>1 DEF RecRecord
  <2> QED BY <2>1, <2>2 DEF HomeSound
<1>12. CASE PassAdds
  <2>1. /\ rec.pc = "enqueue" /\ home' = home
        /\ \/ rec' = IdlePass
           \/ \E c : rec' = [rec EXCEPT !.pend = c]
    BY <1>12 DEF PassAdds
  <2>2. rec'.pc = "idle" \/ (rec'.pc = "enqueue" /\ rec'.lb = rec.lb)
    BY <1>0, <2>1 DEF RecRecord
  <2> QED BY <2>1, <2>2 DEF HomeSound
<1>13. CASE UNCHANGED lvars
  BY <1>13, <1>a DEF lvars
<1> QED BY <1>1, <1>2, <1>3, <1>4, <1>5, <1>6, <1>7, <1>8, <1>9, <1>10, <1>11, <1>12, <1>13
  DEF LNext, InformerStep, UpdaterStep, PassStep

\* Every step keeps the outlook of the pool.
LEMMA NextTold == LocalInv /\ [LNext]_lvars => Told'
<1> SUFFICES ASSUME LocalInv, [LNext]_lvars, Followed' PROVE Following'
  BY DEF Told
<1> USE DEF LocalInv
<1>0. /\ upd \in UpdRecord /\ rec \in RecRecord /\ ops \in Seq(PoolOps) /\ inf \in Seq(PoolOps)
      /\ upd.batch \in Seq(PoolOps) /\ rec.pend \in Seq(PoolOps)
      /\ IdleUpdater.pc = "idle" /\ IdleUpdater.batch = <<>>
      /\ IdlePass.pc = "idle" /\ IdlePass.pend = <<>> /\ missed \in BOOLEAN
  BY DEF UpdaterTypes, PassTypes, LocalTypes, UpdRecord, RecRecord, IdleUpdater, IdlePass
<1>a. ASSUME Followed
      PROVE  Placed /\ Anticipates /\ Outlook = ToSet(esCache) /\ info \in LBs
  BY <1>a DEF Told, Following, Followed, LocalTypes
<1>b. ASSUME UNCHANGED <<esCache, info, ops, pool, home, upd, inf, rec, missed>> PROVE Following'
  BY <1>a, <1>b DEF Outlook, Following, Followed, Placed, Anticipates, Queued
<1>c. ASSUME Followed, UNCHANGED <<rec, info, pool>>,
             \A n : /\ Queued("add", n) => Queued("add", n)'
                    /\ Queued("remove", n) => Queued("remove", n)'
      PROVE  Anticipates'
  BY <1>a, <1>c DEF Anticipates
<1>e. AllFor(info, <<>>) /\ (\A E : Harmless(<<>>, E)) /\ <<>> \in Seq(PoolOps)
  BY DEF AllFor, Harmless

<1>1. CASE EndpointsChange
  BY <1>b, <1>1 DEF EndpointsChange
<1>2. CASE SliceAddedOrDeleted
  BY <1>2 DEF SliceAddedOrDeleted, LocalTypes, Followed
<1>3. CASE SliceUpdated
  <2> DEFINE old == Head(watch).old
             new == Head(watch).new
             ch == Changes(info, ToSet(old), Len(old), ToSet(new), Len(new))
  <2>0. info # NoLB
    BY <1>3 DEF SliceUpdated, Followed
  <2>1. /\ watch # <<>> /\ inf = <<>> /\ old # Absent /\ new # Absent /\ esCache' = new
        /\ UNCHANGED <<info, ops, pool, home, upd, rec>> /\ inf' = ch
    BY <1>3, <2>0 DEF SliceUpdated
  <2>2. /\ ~missed /\ ~(ch = <<>> /\ ToSet(old) # ToSet(new)) /\ ~Crossed
    BY <1>3, <2>0, <2>1 DEF SliceUpdated, Followed
  <2>3. old = esCache /\ old \in Layouts /\ new \in Layouts
    <3>1. Head(watch) \in Events
      BY <2>1 DEF LocalTypes
    <3> QED BY <2>1, <3>1 DEF WatchInOrder, Events, Slices
  <2>4. ToSet(old) \in SUBSET Nodes /\ ToSet(new) \in SUBSET Nodes
    BY <2>3, SliceNodes
  <2>f. Followed
    BY <2>1, <2>2 DEF Followed
  <2> HIDE DEF old, new
  <2>5. /\ ch \in Seq(PoolOps) /\ AllFor(info, ch)
        /\ After(ToSet(old), ch) = ToSet(new) \/ ch = <<>>
    <3>1. ChangesSound(info, ToSet(old), Len(old), ToSet(new), Len(new))
      BY <1>a, <2>f, <2>4, ChangesType
    <3> QED BY <3>1 DEF ChangesSound, AllFor
  <2>6. After(ToSet(old), ch) = ToSet(new)
    BY <2>2, <2>5, AfterEmpty
  <2> HIDE DEF ch
  <2>7. rec.pend = <<>>
    BY <2>2 DEF PassTypes, Crossed
  <2> DEFINE Base == After(After(After(pool[info], upd.batch), ops), rec.pend)
  <2>8. Outlook = After(Base, <<>>) /\ Outlook' = After(Base, ch)
    BY <2>1 DEF Outlook
  <2> HIDE DEF Base
  <2>9. Base = ToSet(old)
    BY <1>a, <2>f, <2>3, <2>8, AfterEmpty
  <2>10. Anticipates'
    <3>1. \A n, k : Queued(k, n) => Queued(k, n)'
      BY <2>1 DEF Queued, Touches
    <3> QED BY <1>c, <2>f, <2>1, <3>1
  <2>11. Placed'
    BY <1>a, <1>e, <2>f, <2>1, <2>5, <2>7 DEF Placed
  <2> QED BY <2>1, <2>6, <2>8, <2>9, <2>10, <2>11 DEF Following
<1>4. CASE InformerAdds
  <2>1. /\ inf # <<>> /\ upd.pc = "idle" /\ ops' = Append(ops, Head(inf)) /\ inf' = Tail(inf)
        /\ UNCHANGED <<esCache, info, pool, home, upd, rec, missed>>
    BY <1>4 DEF InformerAdds, Unlocked
  <2>f. Followed
    BY <2>1 DEF Followed
  <2> DEFINE q == After(pool[info], upd.batch)
             rest == Tail(inf)
             more == Append(ops, Head(inf))
             want == ToSet(esCache)
  <2>2. /\ rest \in Seq(PoolOps) /\ more \in Seq(PoolOps)
        /\ Harmless(inf, want) /\ Harmless(rest, want) /\ Harmless(rec.pend, want)
    BY <1>0, <1>a, <2>f, <2>1, HarmlessTail DEF Placed, InformerSound
  <2>3. After(After(q, more), rest) = After(After(q, ops), inf)
    BY <1>0, <2>1, AfterHead
  <2>4. AllFor(info, more) /\ AllFor(info, rest)
    BY <1>0, <1>a, <2>f, <2>1 DEF AllFor, Placed
  <2>5. Anticipates'
    <3>1. \A n, k : Queued(k, n) => Queued(k, n)'
      BY <1>0, <2>1, TouchesMoved DEF Queued
    <3> QED BY <1>c, <2>f, <2>1, <3>1
  <2>6. /\ Outlook' = After(After(After(q, more), rec.pend), rest)
        /\ Outlook = After(After(After(q, ops), rec.pend), inf)
    BY <2>1 DEF Outlook
  <2>7. ops' = more /\ inf' = rest
    BY <2>1
  <2> HIDE DEF q, rest, more, want
  <2>8. After(After(After(q, more), rec.pend), rest) = After(After(After(q, more), rest), rec.pend)
    BY <1>0, <2>2, HarmlessSwap
  <2>9. After(After(After(q, ops), rec.pend), inf) = After(After(After(q, ops), inf), rec.pend)
    BY <1>0, <2>2, HarmlessSwap
  <2>10. Outlook' = Outlook
    BY <2>3, <2>6, <2>8, <2>9
  <2>11. Placed'
    BY <1>a, <2>f, <2>1, <2>4, <2>7 DEF Placed
  <2> QED BY <1>a, <2>f, <2>1, <2>5, <2>10, <2>11 DEF Following
<1>5. CASE Process
  <2>1. /\ upd.pc = "idle" /\ ops' = <<>> /\ ops # <<>>
        /\ UNCHANGED <<esCache, info, pool, home, inf, rec, missed>>
        /\ upd' = IF OperationsFor(info, ops) = <<>> THEN IdleUpdater
                  ELSE [upd EXCEPT !.pc = "get", !.lb = info, !.batch = OperationsFor(info, ops)]
    BY <1>5 DEF Process, Unlocked
  <2>f. Followed
    BY <2>1 DEF Followed
  <2>2. OperationsFor(info, ops) = ops
    BY <1>0, <1>a, <2>f, <2>1, OperationsForAll DEF AllFor, Placed
  <2>3. upd'.batch = ops /\ upd'.lb = info
    BY <1>0, <2>1, <2>2 DEF UpdRecord
  <2>4. upd.batch = <<>>
    BY <2>1 DEF UpdaterTypes
  <2>5. Outlook' = Outlook
    BY <2>1, <2>3, <2>4, AfterEmpty DEF Outlook
  <2>6. Anticipates'
    <3>1. \A n, k : Queued(k, n) => Queued(k, n)'
      BY <2>1, <2>3, <2>4 DEF Queued, Touches
    <3> QED BY <1>c, <2>f, <2>1, <3>1
  <2>7. Placed'
    BY <1>a, <1>e, <2>f, <2>1, <2>3 DEF Placed
  <2> QED BY <1>a, <2>f, <2>1, <2>5, <2>6, <2>7 DEF Following
<1>6. CASE GetPool
  <2>1. /\ upd.pc = "get" /\ UNCHANGED <<esCache, info, ops, pool, home, inf, rec, missed>>
        /\ upd' = IF Changed(pool[upd.lb], upd.batch)
                   THEN [upd EXCEPT !.pc = "put", !.fresh = TRUE,
                                    !.copy = After(pool[upd.lb], upd.batch)]
                   ELSE IdleUpdater
    BY <1>6 DEF GetPool
  <2>f. Followed
    BY <2>1 DEF Followed
  <2>2. upd.lb = info
    BY <1>a, <2>f, <2>1 DEF Placed
  <2>3. CASE Changed(pool[upd.lb], upd.batch)
    <3>1. upd'.batch = upd.batch /\ upd'.lb = upd.lb
      BY <1>0, <2>1, <2>3 DEF UpdRecord
    <3>2. Outlook' = Outlook
      BY <2>1, <3>1 DEF Outlook
    <3>3. Anticipates'
      <4>1. \A n, k : Queued(k, n) => Queued(k, n)'
        BY <2>1, <3>1 DEF Queued
      <4> QED BY <1>c, <2>f, <2>1, <4>1
    <3>4. Placed'
      BY <1>a, <2>f, <2>1, <2>2, <3>1 DEF Placed
    <3> QED BY <1>a, <2>f, <2>1, <3>2, <3>3, <3>4 DEF Following
  <2>4. CASE ~Changed(pool[upd.lb], upd.batch)
    <3>1. After(pool[info], upd.batch) = pool[info]
      BY <1>0, <2>2, <2>4, NotChanged
    <3>2. upd'.batch = <<>> /\ upd'.pc = "idle"
      BY <1>0, <2>1, <2>4
    <3>3. Outlook' = Outlook
      BY <2>1, <3>1, <3>2, AfterEmpty DEF Outlook
    <3>4. Anticipates'
      <4>1. ASSUME NEW n
            PROVE  /\ Touches(upd.batch, "add", n) => n \in pool[info]
                   /\ Touches(upd.batch, "remove", n) => n \notin pool[info]
        BY <1>0, <2>2, <2>4, NotTouched
      <4>2. \A n, k : Queued(k, n) => Queued(k, n)' \/ Touches(upd.batch, k, n)
        BY <2>1 DEF Queued
      <4>3. Anticipates
        BY <1>a, <2>f
      <4> HIDE DEF LocalInv
      <4> QED BY <2>1, <4>1, <4>2, <4>3 DEF Anticipates
    <3>5. Placed'
      BY <1>a, <1>e, <2>f, <2>1, <3>2 DEF Placed
    <3> QED BY <1>a, <2>f, <2>1, <3>3, <3>4, <3>5 DEF Following
  <2> QED BY <2>3, <2>4
<1>7. CASE PoolNotFound
  BY <1>7 DEF PoolNotFound, Followed
<1>8. CASE PutPool
  <2>1. /\ upd.pc = "put" /\ upd.fresh /\ UNCHANGED <<esCache, info, ops, home, inf, missed>>
        /\ upd' = IdleUpdater /\ pool' = [pool EXCEPT ![upd.lb] = upd.copy]
        /\ rec'.pend = rec.pend /\ rec'.pc = rec.pc /\ rec'.lb = rec.lb
        /\ rec'.fresh => rec.lb # upd.lb
    BY <1>0, <1>8, Outdated DEF PutPool, Write
  <2>f. Followed
    BY <2>1 DEF Followed
  <2>2. upd.lb = info /\ info \in LBs
    BY <1>a, <2>f, <2>1 DEF Placed
  <2>3. pool'[info] = After(pool[info], upd.batch) /\ pool'[info] # NoPool
    BY <1>0, <2>1, <2>2, LocalAssumption DEF EtagSound, LocalTypes, UpdRecord
  <2>4. Outlook' = Outlook
    BY <1>0, <2>1, <2>3, AfterEmpty DEF Outlook
  <2>5. Anticipates'
    BY <2>f, <2>1, <2>2 DEF Anticipates, Followed
  <2>6. Placed'
    BY <1>0, <1>a, <1>e, <2>f, <2>1, <2>3 DEF Placed
  <2> QED BY <1>a, <2>f, <2>1, <2>4, <2>5, <2>6 DEF Following
<1>9. CASE BatchFails
  BY <1>9 DEF BatchFails, Followed
<1>10. CASE BatchRetried
  <2>1. /\ upd.pc \in {"get", "put"} /\ UNCHANGED <<esCache, info, home, inf, missed>>
        /\ upd' = IdleUpdater /\ ops' = upd.batch
    BY <1>10 DEF BatchRetried
  <2>2. ops = <<>>
    BY <2>1 DEF UpdaterTypes
  <2>3. CASE UNCHANGED <<pool, rec>>
    <3>f. Followed
      BY <2>1, <2>3 DEF Followed
    <3>1. Outlook' = Outlook
      BY <1>0, <2>1, <2>2, <2>3, AfterEmpty DEF Outlook
    <3>2. Anticipates'
      <4>1. \A n, k : Queued(k, n) => Queued(k, n)'
        BY <2>1, <2>2 DEF Queued, Touches
      <4> QED BY <1>c, <2>1, <2>3, <3>f, <4>1
    <3>3. Placed'
      BY <1>0, <1>a, <1>e, <2>1, <2>3, <3>f DEF Placed
    <3> QED BY <1>a, <2>1, <3>f, <3>1, <3>2, <3>3 DEF Following
  <2>4. CASE upd.pc = "put" /\ upd.fresh /\ Write(upd.lb, upd.copy) /\ OutdateRec({upd.lb})
    <3>1. /\ rec'.pend = rec.pend /\ rec'.pc = rec.pc /\ rec'.lb = rec.lb
          /\ rec'.fresh => rec.lb # upd.lb
      BY <1>0, <2>4, Outdated
    <3>f. Followed
      BY <2>1, <3>1 DEF Followed
    <3>2. upd.lb = info /\ info \in LBs
      BY <1>a, <2>1, <3>f DEF Placed
    <3>3. pool'[info] = After(pool[info], upd.batch) /\ pool'[info] # NoPool
      BY <1>0, <2>4, <3>2, LocalAssumption DEF EtagSound, LocalTypes, UpdRecord, Write
    <3>4. After(pool'[info], upd.batch) = pool'[info]
      BY <1>0, <3>3, AfterTwice
    <3>5. Outlook' = Outlook
      BY <1>0, <2>1, <2>2, <3>1, <3>3, <3>4, AfterEmpty DEF Outlook
    <3>6. Anticipates'
      BY <2>1, <3>f, <3>1, <3>2 DEF Anticipates, Followed
    <3>7. Placed'
      BY <1>0, <1>a, <1>e, <2>1, <3>f, <3>1, <3>3 DEF Placed
    <3> QED BY <1>a, <2>1, <3>f, <3>5, <3>6, <3>7 DEF Following
  <2> QED BY <1>10, <2>3, <2>4 DEF BatchRetried
<1>11. CASE StartPass
  <2>1. PICK l \in LBs :
          rec' = [rec EXCEPT !.pc = IF home \notin {NoLB, l} THEN "move" ELSE "create",
                             !.lb = l, !.copy = pool[l], !.fresh = TRUE, !.pend = <<>>]
    BY <1>11 DEF StartPass
  <2>2. /\ rec'.pc \in {"move", "create"} /\ rec'.pend = <<>> /\ rec.pc = "idle"
        /\ UNCHANGED <<esCache, info, ops, pool, home, upd, inf, missed>>
    BY <1>0, <1>11, <2>1 DEF RecRecord, StartPass
  <2>f. Followed
    BY <2>2 DEF Followed
  <2>3. rec.pend = <<>>
    BY <2>2 DEF PassTypes
  <2>4. Outlook' = Outlook
    BY <2>2, <2>3 DEF Outlook
  <2>5. Anticipates'
    BY <2>2 DEF Anticipates
  <2>6. Placed'
    BY <1>a, <1>e, <2>f, <2>2 DEF Placed
  <2> QED BY <1>a, <2>f, <2>2, <2>4, <2>5, <2>6 DEF Following
<1>12. CASE RemoveOperation
  <2>1. rec'.pc = "cleanup"
    BY <1>0, <1>12 DEF RemoveOperation, RecRecord
  <2> QED BY <2>1 DEF Followed
<1>13. CASE CleanupLocalServiceBackendPool
  <2>1. rec.pc = "cleanup" /\ rec'.pc = "create" /\ rec'.lb = rec.lb /\ UNCHANGED <<info, missed>>
    BY <1>0, <1>13 DEF CleanupLocalServiceBackendPool, RecRecord
  <2> QED BY <2>1 DEF Followed, HomeSound
<1>14. CASE CreateOrUpdateLB
  <2>1. /\ rec.pc = "create" /\ rec'.pc = "hosts" /\ rec'.lb = rec.lb /\ rec'.pend = rec.pend
        /\ home' = rec.lb /\ UNCHANGED <<esCache, info, ops, inf, missed>>
    BY <1>0, <1>14 DEF CreateOrUpdateLB, RecRecord
  <2>f. Followed /\ rec.lb = info
    BY <2>1 DEF Followed
  <2>2. upd'.pc = upd.pc /\ upd'.lb = upd.lb /\ upd'.batch = upd.batch
    BY <1>0, <1>14, Outdated DEF CreateOrUpdateLB
  <2>3. pool'[info] = pool[info]
    BY <1>a, <1>14, <2>f DEF CreateOrUpdateLB, Write, LocalTypes, Placed
  <2>4. Outlook' = Outlook
    BY <2>1, <2>2, <2>3 DEF Outlook
  <2>5. Anticipates'
    BY <2>1 DEF Anticipates
  <2>6. Placed'
    BY <1>a, <2>f, <2>1, <2>2, <2>3 DEF Placed
  <2> QED BY <1>a, <2>f, <2>1, <2>4, <2>5, <2>6 DEF Following
<1>15. CASE EnsureHostsInPool
  <2> DEFINE target == IF esCache = Absent THEN Nodes ELSE ToSet(esCache)
  <2>1. /\ rec.pc = "hosts" /\ UNCHANGED <<esCache, info, ops, pool, home, upd, inf, missed>>
        /\ rec' = IF info \notin {NoLB, rec.lb} \/ target = rec.copy
                    THEN [rec EXCEPT !.pc = "store"]
                    ELSE [rec EXCEPT !.pc = "put", !.copy = target]
    BY <1>15 DEF EnsureHostsInPool
  <2> HIDE DEF target
  <2>2. /\ rec'.pc \in {"store", "put"} /\ rec'.lb = rec.lb /\ rec'.pend = rec.pend
        /\ rec'.pc = "put" => rec'.copy = target
    BY <1>0, <2>1 DEF RecRecord
  <2>f. Followed
    BY <2>1, <2>2 DEF Followed
  <2>3. target = ToSet(esCache) /\ rec.pend = <<>>
    BY <1>a, <2>f, <2>1 DEF Placed, PassTypes, target
  <2>4. Outlook' = Outlook
    BY <2>1, <2>2 DEF Outlook
  <2> DEFINE b1 == After(pool[info], upd.batch)
             b2 == After(b1, ops)
  <2>5. After(b2, inf) = target
    BY <1>a, <2>f, <2>3, AfterEmpty DEF Outlook
  <2>6. ASSUME NEW n
        PROVE  /\ n \in target /\ n \notin pool[info] => Queued("add", n)
               /\ n \notin target /\ n \in pool[info] => Queued("remove", n)
    <3>1. /\ n \in b1 /\ n \notin pool[info] => Touches(upd.batch, "add", n)
          /\ n \notin b1 /\ n \in pool[info] => Touches(upd.batch, "remove", n)
      BY <1>0, AfterUntouched
    <3> HIDE DEF b1
    <3>2. /\ n \in b2 /\ n \notin b1 => Touches(ops, "add", n)
          /\ n \notin b2 /\ n \in b1 => Touches(ops, "remove", n)
      BY <1>0, AfterUntouched
    <3> HIDE DEF b2
    <3>3. /\ n \in target /\ n \notin b2 => Touches(inf, "add", n)
          /\ n \notin target /\ n \in b2 => Touches(inf, "remove", n)
      BY <1>0, <2>5, AfterUntouched
    <3> QED BY <3>1, <3>2, <3>3 DEF Queued
  <2>7. Anticipates'
    <3>1. \A n, k : Queued(k, n)' <=> Queued(k, n)
      BY <2>1 DEF Queued
    <3> QED BY <2>1, <2>2, <2>6, <3>1 DEF Anticipates
  <2>8. Placed'
    BY <1>a, <2>f, <2>1, <2>2 DEF Placed
  <2> QED BY <1>a, <2>f, <2>1, <2>4, <2>7, <2>8 DEF Following
<1>16. CASE PutHosts
  <2>1. /\ rec.pc = "put" /\ rec.fresh /\ rec'.pc = "store" /\ rec'.lb = rec.lb /\ rec'.pend = rec.pend
        /\ pool' = [pool EXCEPT ![rec.lb] = rec.copy]
        /\ UNCHANGED <<esCache, info, ops, home, inf, missed>>
    BY <1>0, <1>16 DEF PutHosts, Write, RecRecord
  <2>2. upd'.pc = upd.pc /\ upd'.lb = upd.lb /\ upd'.batch = upd.batch
    BY <1>0, <1>16, Outdated DEF PutHosts
  <2>f. Followed /\ rec.lb = info
    BY <2>1 DEF Followed
  <2>3. pool'[info] = rec.copy /\ rec.copy # NoPool /\ rec.pend = <<>>
    BY <1>a, <2>f, <2>1 DEF LocalTypes, PassTypes
  <2> DEFINE p == pool[info]
             c == rec.copy
             p1 == After(p, upd.batch)
             c1 == After(c, upd.batch)
             p2 == After(p1, ops)
             c2 == After(c1, ops)
             p3 == After(p2, inf)
             c3 == After(c2, inf)
  <2>4. Outlook = p3 /\ Outlook' = c3
    BY <2>1, <2>2, <2>3, AfterEmpty DEF Outlook
  <2>5. ASSUME NEW n PROVE n \in p3 <=> n \in c3
    <3>1. (n \in p <=> n \in c) \/ Queued("add", n) \/ Queued("remove", n)
      BY <1>a, <2>f, <2>1 DEF Anticipates
    <3>2. (n \in p <=> n \in c) \/ Touches(upd.batch, "add", n) \/ Touches(upd.batch, "remove", n)
            => (n \in p1 <=> n \in c1)
      BY <1>0, AfterTouched
    <3>3. (n \in p1 <=> n \in c1) \/ Touches(ops, "add", n) \/ Touches(ops, "remove", n)
            => (n \in p2 <=> n \in c2)
      <4> HIDE DEF p1, c1
      <4> QED BY <1>0, AfterTouched
    <3>4. (n \in p2 <=> n \in c2) \/ Touches(inf, "add", n) \/ Touches(inf, "remove", n)
            => (n \in p3 <=> n \in c3)
      <4> HIDE DEF p2, c2
      <4> QED BY <1>0, AfterTouched
    <3> HIDE DEF p, c, p1, c1, p2, c2, p3, c3
    <3> QED BY <3>1, <3>2, <3>3, <3>4 DEF Queued
  <2>6. p3 = c3
    <3>1. p3 \subseteq c3 /\ c3 \subseteq p3
      BY <2>5
    <3> HIDE DEF p3, c3
    <3> QED BY <3>1
  <2>7. Anticipates'
    BY <2>1 DEF Anticipates
  <2>8. Placed'
    BY <1>a, <2>f, <2>1, <2>2, <2>3 DEF Placed
  <2> QED BY <1>a, <2>f, <2>1, <2>4, <2>6, <2>7, <2>8 DEF Following
<1>17. CASE PassFails
  BY <1>17 DEF PassFails, Followed
<1>18. CASE StoreInfo
  <2>1. /\ rec.pc = "store" /\ rec'.pc = "check" /\ rec'.lb = rec.lb /\ rec'.pend = rec.pend
        /\ info' = rec.lb /\ missed' = (missed \/ info # rec.lb)
        /\ UNCHANGED <<esCache, ops, pool, home, upd, inf>>
    BY <1>0, <1>18 DEF StoreInfo, RecRecord
  <2>2. info = rec.lb /\ info' = info /\ ~missed
    BY <2>1 DEF Followed
  <2>f. Followed
    BY <2>1, <2>2 DEF Followed
  <2>3. Outlook' = Outlook
    BY <2>1, <2>2 DEF Outlook
  <2>4. Anticipates'
    BY <2>1 DEF Anticipates
  <2>5. Placed'
    BY <1>a, <2>f, <2>1, <2>2 DEF Placed
  <2> QED BY <1>a, <2>f, <2>1, <2>3, <2>4, <2>5 DEF Following
<1>19. CASE Check
  <2> DEFINE cached == ToSet(esCache)
             ch == Changes(rec.lb, rec.copy, Cardinality(rec.copy), cached, Cardinality(cached))
  <2>1. /\ rec.pc = "check" /\ esCache # Absent /\ ~(missed /\ Overlapped)
        /\ UNCHANGED <<esCache, info, ops, pool, home, upd, inf>>
        /\ rec' = [rec EXCEPT !.pc = "enqueue", !.pend = ch]
    BY <1>19 DEF Check, Followed
  <2>2. /\ rec.lb = info /\ info \in LBs /\ rec.copy # NoPool
        /\ rec.copy \in SUBSET Nodes /\ home = info
    BY <1>0, <2>1 DEF PassTypes, RecRecord, Copies, HomeSound
  <2>3. cached \in SUBSET Nodes
    BY <2>1, SliceNodes DEF LocalTypes, Slices
  <2> HIDE DEF cached
  <2>4. /\ ch \in Seq(PoolOps) /\ AllFor(info, ch) /\ Harmless(ch, cached)
        /\ ch # <<>> => After(rec.copy, ch) = cached
        /\ ch = <<>> => /\ rec.copy \subseteq cached
                        /\ Cardinality(rec.copy) = Cardinality(cached) \/ rec.copy = cached
    <3>1. ChangesSound(rec.lb, rec.copy, Cardinality(rec.copy), cached, Cardinality(cached))
      BY <2>2, <2>3, ChangesType
    <3> QED BY <2>2, <3>1 DEF ChangesSound, AllFor
  <2> HIDE DEF ch
  <2>5. rec'.pend = ch /\ rec'.pc = "enqueue"
    BY <1>0, <2>1 DEF RecRecord
  <2>6. Anticipates'
    BY <2>5 DEF Anticipates
  <2>7. CASE ~missed
    <3>f. Followed
      BY <2>1, <2>2, <2>7, LocalAssumption DEF Followed
    <3> DEFINE q == After(After(pool[info], upd.batch), ops)
    <3>1. rec.pend = <<>>
      BY <2>1 DEF PassTypes
    <3>2. Outlook = After(q, inf) /\ Outlook' = After(After(q, ch), inf)
      BY <2>1, <2>5, <3>1, AfterEmpty DEF Outlook
    <3> HIDE DEF q
    <3>3. Harmless(inf, cached)
      BY <2>1 DEF InformerSound, cached
    <3>4. After(After(q, ch), inf) = After(After(q, inf), ch)
      BY <1>0, <2>4, <3>3, HarmlessSwap
    <3>5. After(q, inf) = cached
      BY <1>a, <3>f, <3>2 DEF cached
    <3>6. Outlook' = cached
      BY <2>4, <3>2, <3>4, <3>5, HarmlessStays
    <3>7. Placed'
      BY <1>a, <2>1, <2>4, <2>5, <3>f DEF Placed, cached
    <3> QED BY <2>1, <2>6, <3>6, <3>7 DEF Following, cached
  <2>8. CASE ~Overlapped
    <3>1. inf = <<>> /\ ops = <<>> /\ upd.pc = "idle" /\ upd.batch = <<>> /\ rec.fresh
      BY <2>8 DEF Overlapped, Unlocked, UpdaterTypes
    <3>2. rec.copy = pool[info]
      BY <2>1, <2>2, <3>1 DEF EtagSound
    <3>3. After(rec.copy, ch) = cached
      BY <2>2, <2>3, <2>4, SameNodes, AfterEmpty
    <3>4. Outlook' = cached
      BY <2>1, <2>5, <3>1, <3>2, <3>3, AfterEmpty DEF Outlook
    <3>5. Placed'
      BY <1>e, <2>1, <2>2, <2>4, <2>5, <3>1, <3>2 DEF Placed, cached
    <3> QED BY <2>1, <2>6, <3>4, <3>5 DEF Following, cached
  <2> QED BY <1>0, <2>1, <2>7, <2>8
<1>20. CASE PassAdds
  <2>1. rec.pc = "enqueue" /\ UNCHANGED <<esCache, info, pool, home, upd, inf, missed>>
    BY <1>20 DEF PassAdds
  <2>f. Followed
    BY <2>1 DEF Followed, PassTypes
  <2>2. CASE rec.pend = <<>>
    <3>1. rec' = IdlePass /\ ops' = ops
      BY <1>20, <2>2 DEF PassAdds
    <3>2. Outlook' = Outlook
      BY <1>0, <2>1, <2>2, <3>1 DEF Outlook
    <3>3. Placed' /\ Anticipates'
      BY <1>0, <1>a, <1>e, <2>f, <2>1, <3>1 DEF Placed, Anticipates
    <3> QED BY <1>a, <2>f, <2>1, <3>2, <3>3 DEF Following
  <2>3. CASE rec.pend # <<>>
    <3> DEFINE rest == Tail(rec.pend)
               q == After(pool[info], upd.batch)
    <3>1. /\ upd.pc = "idle" /\ ops' = Append(ops, Head(rec.pend))
          /\ rec' = [rec EXCEPT !.pend = rest]
      BY <1>20, <2>3 DEF PassAdds, Unlocked
    <3>2. rest \in Seq(PoolOps) /\ AllFor(info, Append(ops, Head(rec.pend))) /\ AllFor(info, rest)
      BY <1>0, <1>a, <2>f, <2>3 DEF AllFor, Placed
    <3>3. Harmless(rest, ToSet(esCache))
      BY <1>0, <1>a, <2>f, <2>3, HarmlessTail DEF Placed
    <3> HIDE DEF rest
    <3>4. rec'.pend = rest /\ rec'.pc = "enqueue"
      BY <1>0, <2>1, <3>1 DEF RecRecord
    <3>5. /\ Outlook' = After(After(After(q, Append(ops, Head(rec.pend))), rest), inf)
          /\ Outlook = After(After(After(q, ops), rec.pend), inf)
      BY <2>1, <3>1, <3>4 DEF Outlook
    <3> HIDE DEF q
    <3>6. After(After(q, Append(ops, Head(rec.pend))), rest) = After(After(q, ops), rec.pend)
      BY <1>0, <2>3, AfterHead DEF rest
    <3>7. Placed' /\ Anticipates'
      BY <1>a, <2>f, <2>1, <3>1, <3>2, <3>3, <3>4 DEF Placed, Anticipates
    <3> QED BY <1>a, <2>f, <2>1, <3>5, <3>6, <3>7 DEF Following
  <2> QED BY <2>2, <2>3
<1>21. CASE EnsureDeleted \/ BecomesCluster
  <2>1. rec'.pc = "forget"
    BY <1>0, <1>21 DEF EnsureDeleted, BecomesCluster, RecRecord
  <2> QED BY <2>1 DEF Followed
<1>22. CASE ForgetInfo
  BY <1>22 DEF ForgetInfo, Followed
<1>23. CASE UNCHANGED lvars
  BY <1>b, <1>23 DEF lvars
<1> QED BY <1>1, <1>2, <1>3, <1>4, <1>5, <1>6, <1>7, <1>8, <1>9, <1>10, <1>11, <1>12,
    <1>13, <1>14, <1>15, <1>16, <1>17, <1>18, <1>19, <1>20, <1>21, <1>22, <1>23
  DEF LNext, InformerStep, UpdaterStep, PassStep

\* The invariant of the three goroutines holds in every state.
LEMMA LocalInvariant == LSpec => []LocalInv
<1>1. LocalInv /\ [LNext]_lvars => LocalInv'
  BY NextLocalTypes, NextRecords, NextEtagSound, NextInformerSound, NextHomeSound, NextTold
  DEF LocalInv
<1> QED BY InitLocalInv, <1>1, PTL DEF LSpec

\* For any nodes, load balancers and slices, and any number of changes, passes
\* and failures of Azure: once the informer, the updater and the pass rest, the
\* pool of the service holds exactly the nodes of its slice, unless it missed a
\* change in one of the ways that UpdatesReachPool lists (process,
\* checkAndApplyLocalServiceBackendPoolUpdates).
THEOREM PoolFollowsSlice == LSpec => []PoolFollows
<1>1. LocalInv => LTypeOK
  <2> SUFFICES ASSUME LocalInv PROVE LTypeOK
    OBVIOUS
  <2>1. \A i \in 1..Len(ops) : ops[i] \in PoolOps
    BY DEF LocalInv, LocalTypes
  <2>2. \A l \in LBs : pool[l] = NoPool \/ pool[l] \subseteq Nodes
    BY DEF LocalInv, LocalTypes, Copies
  <2> QED BY <2>1, <2>2
    DEF LocalInv, LocalTypes, UpdaterTypes, PassTypes, UpdRecord, RecRecord, PassPcs,
        PoolOps, Slices, LTypeOK
<1>2. LocalInv => UpdatesReachPool
  <2> SUFFICES ASSUME LocalInv, Quiet, info # NoLB, ~missed, slice # Absent
               PROVE  pool[info] = ToSet(slice)
    BY DEF UpdatesReachPool
  <2>1. /\ upd.batch = <<>> /\ ops = <<>> /\ rec.pend = <<>> /\ inf = <<>>
        /\ esCache = slice /\ Outlook = ToSet(esCache)
    BY DEF LocalInv, Quiet, UpdaterTypes, PassTypes, WatchInOrder, Told, Followed, Following
  <2> QED BY <2>1, AfterEmpty DEF Outlook
<1> QED BY LocalInvariant, <1>1, <1>2, PTL DEF PoolFollows

\* For any nodes, load balancers and slices: a pool that was deleted comes back
\* only through the pass that creates it, never through a batch of the updater
\* or a PUT of hosts that was under way (CreateOrUpdateLBBackendPool and etags).
THEOREM DeletedPoolsStayDeleted == LSpec => PoolStaysDeleted
<1> DEFINE NoComeback == \A l \in LBs : (pool[l] = NoPool /\ pool'[l] # NoPool) => rec.pc = "create"
<1>1. LocalInv /\ [LNext]_lvars => [NoComeback]_lvars
  <2> SUFFICES ASSUME LocalInv, LNext, NEW l \in LBs, pool[l] = NoPool, pool'[l] # NoPool
               PROVE  rec.pc = "create"
    BY DEF lvars
  <2> USE DEF LocalInv
  <2>1. CASE pool' = pool
    BY <2>1
  <2>2. CASE PutPool
    BY <2>2 DEF PutPool, Write, EtagSound, LocalTypes
  <2>3. CASE BatchRetried
    BY <2>3 DEF BatchRetried, Write, EtagSound, LocalTypes
  <2>4. CASE PutHosts
    BY <2>4 DEF PutHosts, Write, EtagSound, LocalTypes
  <2>5. CASE CreateOrUpdateLB
    BY <2>5 DEF CreateOrUpdateLB
  <2>6. CASE CleanupLocalServiceBackendPool \/ BecomesCluster
    BY <2>6 DEF CleanupLocalServiceBackendPool, BecomesCluster
  <2>7. CASE EnsureDeleted
    BY <2>7 DEF EnsureDeleted, Write, LocalTypes
  <2> QED BY <2>1, <2>2, <2>3, <2>4, <2>5, <2>6, <2>7
    DEF LNext, InformerStep, UpdaterStep, PassStep, EndpointsChange, SliceAddedOrDeleted,
        SliceUpdated, InformerAdds, Process, GetPool, PoolNotFound, BatchFails, StartPass,
        RemoveOperation, EnsureHostsInPool, PassFails, StoreInfo, Check, PassAdds, ForgetInfo
<1> QED BY LocalInvariant, <1>1, PTL DEF LSpec, PoolStaysDeleted

-----------------------------------------------------------------------------
(***************************************************************************)
(* ArmClients                                                              *)
(***************************************************************************)

\* The operation of a goroutine at rest.
NoOp == FreeOp(Sending("none", "no", "no"), "none")

\* What the records of the operations have in common: an operation that writes
\* a RetryAfter field writes the one it reads, and only a future is waited for
\* without a request.
SoundOp(op) ==
    /\ op.store \in Kinds => op.gate = op.store
    /\ op.limiter \in Kinds \cup {"None"}
    /\ op.send.host = "future" => op.send.waits # "no"
    /\ op.send.waits \in {"no", "result", "completion", "final", "raw"}
    /\ op.send.host = "sdk" => op.store \notin Kinds

\* The types of a call and of what it holds.
CallAnswers == Answers \cup {NoAnswer}
CallErrors == [retriable : BOOLEAN, code : Int, after : Times, nil : BOOLEAN]

CallRecord ==
    [pc : {"idle", "send", "delay", "respond", "wait", "return"},
     op : Operations \cup {NoOp}, steps : 0..Steps, dur : Nat,
     host : {"global", "regional", "plain"}, page : 1..(MaxPages + 1),
     ans : CallAnswers, first : CallAnswers, err : CallErrors,
     sent : Nat, late : Nat, until : Times]

\* The requests that a call may send up to a page, without that of a future.
Bound(p) == 2 * Steps + (p - 1) * Steps

\* The steps of the backoff that are left fit into the bound; the global host
\* leaves as many for the regional one.
Budget(r) == IF r.host = "global" THEN Steps ELSE Bound(r.page)

StepsFit(r) ==
    /\ r.host = "global" => r.page = 1
    /\ r.pc = "send" => r.steps >= 1 /\ r.sent + r.steps <= Budget(r)
    /\ r.pc = "delay" => r.steps >= 2 /\ r.sent + r.steps <= Budget(r) + 1
    /\ r.pc \in {"respond", "wait"} => r.sent <= Bound(r.page)
    /\ r.sent <= Bound(r.page) + 1

\* A success from which a list would go on.
HasBody(a) == IsSuccessHTTPResponse(a) /\ a.msg # "empty"

\* A call that was throttled is on its way out: it holds no answer with a
\* body, from which a list would go on.
Stops(r) ==
    /\ r.late = 0
    /\ r.pc \in {"idle", "send", "delay"} => r.until = 0
    /\ r.pc = "respond" /\ r.until # 0 => ~HasBody(r.ans)
    /\ r.pc \in {"send", "delay"} /\ r.host = "regional" => ~HasBody(r.first)

\* What the first request to the global host was told is in the answer, then
\* in the error; t is the time.
Remembers(r, t) ==
    r.page = 1 /\ r.host # "regional" /\ r.op.store \in Kinds =>
      /\ r.pc = "respond" /\ r.until # 0 =>
           ~IsSuccessHTTPResponse(r.ans) /\ r.until <= t + r.ans.after
      /\ r.pc = "wait" => r.until = 0
      /\ r.pc = "return" => r.until <= t \/ (~r.err.nil /\ r.err.after >= r.until)

\* Who waits has a future; an error without an answer may be retried, where
\* errors carry the mark.
Retriable(r) ==
    /\ r.pc = "wait" => r.op.send.waits # "no"
    /\ r.pc = "return" /\ r.ans.code = -1 /\ Marks(r.op) => r.err.nil \/ r.err.retriable

\* The state of one call at time t.
Fit(r, t) == r \in CallRecord /\ StepsFit(r) /\ Stops(r) /\ Remembers(r, t) /\ Retriable(r)

\* The clock, the limiters and the RetryAfter fields have their types.
Clocks ==
    /\ now \in 1..MaxTime
    /\ tokens \in [Kinds -> 0..Bucket]
    /\ retryAfter \in [Kinds -> Times]

\* The inductive invariant: every call fits.
CallsInv ==
    /\ Clocks
    /\ call \in [Calls -> CallRecord]
    /\ \A c \in Calls : Fit(call[c], now)

\* The ways to send, without the storage SDK.
Sends ==
    {GetResource, PutResource, PutResourceAsync, PatchResource, PatchResourceAsync,
     PostResource, DeleteResource, DeleteResourceAsync, WaitForAsyncOperationResult,
     VMSS_Post, VMSS_deleteVMSSInstances,
     [WaitForAsyncOperationResult EXCEPT !.waits = "raw"],
     [PostResource EXCEPT !.decodes = "no"], Sending("none", "no", "no")}

\* A way to send without a request waits for its future.
LEMMA SendsAreSound ==
    ASSUME NEW s \in Sends
    PROVE  /\ s.host = "future" => s.waits # "no"
           /\ s.waits \in {"no", "result", "completion", "final", "raw"}
           /\ s.host # "sdk"
<1> DEFINE Good(x) == /\ x.host = "future" => x.waits # "no"
                      /\ x.waits \in {"no", "result", "completion", "final", "raw"}
                      /\ x.host # "sdk"
<1>1. Good(GetResource) /\ Good(PostResource)
  BY DEF GetResource, PostResource, Sending
<1>2. Good(PutResource) /\ Good(PutResourceAsync) /\ Good(PatchResource) /\ Good(PatchResourceAsync)
  BY DEF PutResource, PutResourceAsync, PatchResource, PatchResourceAsync, Sending
<1>3. Good(DeleteResource) /\ Good(DeleteResourceAsync)
  BY DEF DeleteResource, DeleteResourceAsync, Sending
<1>4. Good(VMSS_Post) /\ Good([PostResource EXCEPT !.decodes = "no"])
  BY DEF VMSS_Post, PostResource, Sending
<1>5. Good(VMSS_deleteVMSSInstances)
  BY DEF VMSS_deleteVMSSInstances, VMSS_Post, PostResource, Sending
<1>6. Good(WaitForAsyncOperationResult) /\ Good([WaitForAsyncOperationResult EXCEPT !.waits = "raw"])
  BY DEF WaitForAsyncOperationResult, Sending
<1>7. Good(Sending("none", "no", "no"))
  BY DEF Sending
<1> HIDE DEF Good
<1>8. Good(s)
  BY <1>1, <1>2, <1>3, <1>4, <1>5, <1>6, <1>7 DEF Sends
<1> QED BY <1>8 DEF Good

\* The operations of all clients are sound.
LEMMA OpsAreSound == \A op \in Operations \cup {NoOp} : SoundOp(op)
<1>1. ASSUME NEW s \in Sends, NEW next
      PROVE  /\ SoundOp(ReadOp(s)) /\ SoundOp(WriteOp(s)) /\ SoundOp(FreeOp(s, next))
             /\ SoundOp(Op("Writer", "Writer", "None", s, "none"))
             /\ SoundOp(Op("Reader", "Reader", "Reader", s, next))
  BY SendsAreSound DEF SoundOp, ReadOp, WriteOp, FreeOp, Op, Kinds
<1>2. /\ \A x \in {GetResource, PutResource, PutResourceAsync, PatchResource, PatchResourceAsync,
                   PostResource, DeleteResource, WaitForAsyncOperationResult,
                   VMSS_Post, VMSS_deleteVMSSInstances} : x \in Sends
      /\ [PostResource EXCEPT !.decodes = "no"] \in Sends
      /\ [WaitForAsyncOperationResult EXCEPT !.waits = "raw"] \in Sends
      /\ Sending("none", "no", "no") \in Sends
  BY DEF Sends
<1>9. ASSUME NEW next PROVE SoundOp(FreeOp(StorageSDK, next))
  BY DEF SoundOp, FreeOp, Op, StorageSDK, Sending, Kinds
<1>3. \A op \in {Blob_GetContainer, Disk_Get, Interface_Get,
        Interface_GetVirtualMachineScaleSetNetworkInterface, LB_Get, LB_GetLBBackendPool,
        DNSZoneGroup_Get, PrivateEndpoint_Get, PLS_Get, PIP_Get,
        PIP_GetVirtualMachineScaleSetPublicIPAddress, Storage_GetProperties,
        Storage_ListKeys, Subnet_Get, VMAS_Get, VM_Get, VMSize_List, VMSS_Get, VMSSVM_Get} : SoundOp(op)
  BY <1>1, <1>2, Zenon DEF Blob_GetContainer, Disk_Get, Interface_Get,
        Interface_GetVirtualMachineScaleSetNetworkInterface, LB_Get, LB_GetLBBackendPool,
        DNSZoneGroup_Get, PrivateEndpoint_Get, PLS_Get, PIP_Get,
        PIP_GetVirtualMachineScaleSetPublicIPAddress, Storage_GetProperties,
        Storage_ListKeys, Subnet_Get, VMAS_Get, VM_Get, VMSize_List, VMSS_Get, VMSSVM_Get
<1>4. \A op \in {Blob_CreateContainer, Blob_DeleteContainer, Disk_CreateOrUpdate, Disk_Update,
        Disk_Delete, Interface_CreateOrUpdate, Interface_Delete, LB_CreateOrUpdate,
        LB_Delete, LB_CreateOrUpdateBackendPools, LB_DeleteLBBackendPool,
        LB_MigrateToIPBasedBackendPool, PLS_CreateOrUpdate, PLS_Delete,
        PLS_DeletePEConnection, PIP_CreateOrUpdate, PIP_Delete, Storage_Create,
        Storage_Update, Storage_Delete, Subnet_CreateOrUpdate, Subnet_Delete, VM_Update,
        VM_UpdateAsync, VM_CreateOrUpdate, VM_Delete, VMSS_CreateOrUpdate,
        VMSS_CreateOrUpdateAsync, VMSS_DeleteInstances, VMSSVM_Update, VMSSVM_UpdateAsync} : SoundOp(op)
  BY <1>1, <1>2, Zenon DEF Blob_CreateContainer, Blob_DeleteContainer, Disk_CreateOrUpdate, Disk_Update,
        Disk_Delete, Interface_CreateOrUpdate, Interface_Delete, LB_CreateOrUpdate,
        LB_Delete, LB_CreateOrUpdateBackendPools, LB_DeleteLBBackendPool,
        LB_MigrateToIPBasedBackendPool, PLS_CreateOrUpdate, PLS_Delete,
        PLS_DeletePEConnection, PIP_CreateOrUpdate, PIP_Delete, Storage_Create,
        Storage_Update, Storage_Delete, Subnet_CreateOrUpdate, Subnet_Delete, VM_Update,
        VM_UpdateAsync, VM_CreateOrUpdate, VM_Delete, VMSS_CreateOrUpdate,
        VMSS_CreateOrUpdateAsync, VMSS_DeleteInstances, VMSSVM_Update, VMSSVM_UpdateAsync, VM_updateVM, VMSS_createOrUpdateVMSS, VMSSVM_updateVMSSVM
<1>5. \A op \in {Blob_ServiceProperties, Disk_ListByResourceGroup, File_CreateDeleteShare,
        File_ResizeFileShare, File_GetFileShare, File_ListFileShare, LB_List, PLS_List,
        PIP_List, PIP_ListAll, Storage_ListByResourceGroup, Subnet_List, VMAS_List,
        VM_List, VM_ListVmssFlexVMs, VM_WaitForUpdateResult, VMSS_List,
        VMSS_WaitForAsyncOperationResult, VMSS_DeleteInstancesAsync,
        VMSS_DeallocateInstancesAsync, VMSS_StartInstancesAsync, VMSSVM_List,
        VMSSVM_WaitForUpdateResult} : SoundOp(op)
  BY <1>1, <1>2, <1>9, Zenon DEF ListOp, Blob_ServiceProperties, Disk_ListByResourceGroup, File_CreateDeleteShare,
        File_ResizeFileShare, File_GetFileShare, File_ListFileShare, LB_List, PLS_List,
        PIP_List, PIP_ListAll, Storage_ListByResourceGroup, Subnet_List, VMAS_List,
        VM_List, VM_ListVmssFlexVMs, VM_WaitForUpdateResult, VMSS_List,
        VMSS_WaitForAsyncOperationResult, VMSS_DeleteInstancesAsync,
        VMSS_DeallocateInstancesAsync, VMSS_StartInstancesAsync, VMSSVM_List,
        VMSSVM_WaitForUpdateResult
<1>6. SoundOp(NoOp)
  BY <1>1, <1>2 DEF NoOp
<1>7. \A op \in DNSZoneGroup_CreateOrUpdate \cup PrivateEndpoint_CreateOrUpdate : SoundOp(op)
  BY <1>1, <1>2, Zenon DEF DNSZoneGroup_CreateOrUpdate, PrivateEndpoint_CreateOrUpdate
<1>8. QED
  BY <1>3, <1>4, <1>5, <1>6, <1>7, SMTT(60) DEF Operations

\* What the code tells apart in an answer.
LEMMA AnswerShape ==
    ASSUME NEW a \in CallAnswers
    PROVE  /\ a = [code |-> a.code, after |-> a.after, msg |-> a.msg]
           /\ a.code \in Int /\ a.after \in 0..MaxDelay
           /\ a.msg = "ResourceGroupNotFound" => a.code = 409 /\ a.after = 0
           /\ IsSuccessHTTPResponse(a) => a.after = 0 /\ a.code # -1 /\ a.code # 429
  BY ArmAssumption DEF CallAnswers, Answers, NoAnswer, Answer, IsSuccessHTTPResponse

\* An error made of an answer: whether there is one, until when it asks to
\* wait, and that one which says nothing about the request may be retried.
LEMMA ErrorShape ==
    ASSUME NEW a \in CallAnswers, NEW b \in BOOLEAN, now \in 1..MaxTime
    PROVE  LET e == GetError(a, b) IN
           /\ e \in CallErrors
           /\ e.nil <=> IsSuccessHTTPResponse(a) /\ ~b
           /\ ~e.nil => e.code = a.code
           /\ ~e.nil /\ a.after # 0 => e.after = now + a.after
           /\ e.nil \/ a.after = 0 => e.after = 0
           /\ a.code = -1 /\ b => e.retriable
           /\ IsSuccessHTTPResponse(a) /\ b => e.retriable
<1>1. CASE IsSuccessHTTPResponse(a) /\ ~b
  <2>1. GetError(a, b) = NoError
    BY <1>1 DEF GetError
  <2>2. a.code # -1
    BY <1>1, AnswerShape
  <2>3. QED
    BY <1>1, <2>1, <2>2, ArmAssumption DEF NoError, CallErrors, Times
<1>2. CASE ~(IsSuccessHTTPResponse(a) /\ ~b)
  <2> DEFINE after == IF a.after = 0 THEN 0 ELSE now + a.after
  <2>1. PICK ret \in BOOLEAN : ret = shouldRetryHTTPRequest(a, b)
    BY DEF shouldRetryHTTPRequest
  <2>2. GetError(a, b) = [retriable |-> ret, code |-> a.code, after |-> after, nil |-> FALSE]
    BY <1>2, <2>1 DEF GetError, NewError
  <2>3. after \in Times /\ a.code \in Int
    BY AnswerShape, ArmAssumption DEF Times
  <2>4. GetError(a, b) \in CallErrors
    BY <2>2, <2>3 DEF CallErrors
  <2>5. (a.code = -1 /\ b => ret) /\ (IsSuccessHTTPResponse(a) /\ b => ret)
    BY <2>1 DEF shouldRetryHTTPRequest
  <2>6. QED
    BY <1>2, <2>2, <2>4, <2>5
<1>3. QED
  BY <1>1, <1>2

\* When a request is throttled, and what it was told.
LEMMA ThrottleShape ==
    ASSUME NEW a \in CallAnswers, NEW b \in BOOLEAN, now \in 1..MaxTime,
           IsThrottled(GetError(a, b))
    PROVE  /\ ~GetError(a, b).nil
           /\ ~IsSuccessHTTPResponse(a)
           /\ a.msg # "ResourceGroupNotFound"
           /\ GetError(a, b).after >= now + a.after \/ a.after = 0
           /\ now + a.after \in Times
<1>1. a.code = 429 \/ a.after # 0
  BY ErrorShape, AnswerShape, ArmAssumption DEF IsThrottled, CallErrors, Times
<1>2. QED
  BY <1>1, ErrorShape, AnswerShape, ArmAssumption DEF IsThrottled, Times, IsSuccessHTTPResponse

\* A request that is begun fits when its steps do.
LEMMA RequestFits ==
    ASSUME NEW r \in CallRecord, NEW h \in {"global", "regional", "plain"}, NEW t \in Nat,
           r.late = 0, r.until = 0, r.sent <= Bound(r.page),
           h = "global" => r.page = 1 /\ r.sent = 0,
           h # "global" => r.sent + Steps <= Bound(r.page),
           h = "regional" => ~HasBody(r.first)
    PROVE  Fit(Request(r, h), t)
<1> DEFINE q == Request(r, h)
<1>1. PICK p \in {"wait", "send"} : p = IF r.op.send.host = "future" THEN "wait" ELSE "send"
  OBVIOUS
<1>2. PICK n \in 1..Steps : n = IF r.op.send.host = "sdk" THEN 1 ELSE Steps
  BY ArmAssumption
<1>3. q = [r EXCEPT !.pc = p, !.steps = n, !.dur = Duration, !.host = h]
  BY <1>1, <1>2 DEF Request
<1>4. /\ q \in CallRecord /\ q.pc = p /\ q.op = r.op /\ q.steps = n /\ q.host = h
      /\ q.page = r.page /\ q.first = r.first /\ q.sent = r.sent /\ q.late = 0 /\ q.until = 0
  <2>1. n \in 0..Steps /\ Duration \in Nat
    BY ArmAssumption
  <2>2. QED
    BY <1>3, <2>1 DEF CallRecord
<1>5. Bound(r.page) \in Int /\ Bound(1) = 2 * Steps /\ r.sent \in Nat
  BY ArmAssumption DEF Bound, CallRecord
<1>6. StepsFit(q)
  <2>1. q.host = "global" => q.page = 1 /\ q.sent = 0
    BY <1>4
  <2>2. q.sent + n <= Budget(q)
    BY <1>4, <1>5, ArmAssumption DEF Budget
  <2>3. q.sent <= Bound(q.page)
    BY <1>4
  <2> HIDE DEF q
  <2>4. QED
    BY <1>4, <1>5, <2>1, <2>2, <2>3 DEF StepsFit
<1>7. Stops(q)
  BY <1>1, <1>4 DEF Stops
<1>8. Remembers(q, t)
  BY <1>1, <1>4 DEF Remembers
<1>9. Retriable(q)
  BY <1>1, <1>4, OpsAreSound DEF Retriable, SoundOp, CallRecord
<1>10. QED
  BY <1>4, <1>6, <1>7, <1>8, <1>9 DEF Fit

\* What is known of a call when its backoff loop ends with the answer it holds.
Ending(r, t) ==
    /\ r.late = 0
    /\ r.host = "global" => r.page = 1
    /\ r.sent <= Budget(r)
    /\ r.host = "regional" => ~HasBody(r.first)
    /\ r.until # 0 =>
         /\ ~IsSuccessHTTPResponse(r.ans)
         /\ r.ans.msg # "ResourceGroupNotFound"
         /\ r.until <= t + r.ans.after

\* The loop ends in a call that fits: an answer to look at, a request to the
\* regional host, or an error.
LEMMA AnsweredFits ==
    ASSUME NEW r \in CallRecord, Ending(r, now), now \in 1..MaxTime
    PROVE  Fit(Answered(r), now)
<1> DEFINE d == [r EXCEPT !.pc = "respond", !.steps = 0, !.dur = 0, !.first = NoAnswer]
<1>1. /\ d \in CallRecord /\ d.pc = "respond" /\ d.op = r.op /\ d.steps = 0 /\ d.host = r.host
      /\ d.page = r.page /\ d.ans = r.ans /\ d.sent = r.sent /\ d.late = 0 /\ d.until = r.until
  <2>1. 0 \in 0..Steps /\ 0 \in Nat /\ NoAnswer \in CallAnswers /\ r.late = 0
    BY ArmAssumption DEF CallAnswers, Ending
  <2>2. QED
    BY <2>1 DEF CallRecord
<1>2. /\ Bound(r.page) \in Int /\ Bound(1) = 2 * Steps /\ r.sent \in Nat
      /\ r.sent <= Bound(r.page)
  BY ArmAssumption DEF Bound, CallRecord, Ending, Budget
<1>3. CASE WantsRegional(r)
  <2> DEFINE q == [r EXCEPT !.first = r.ans]
  <2>1. /\ q \in CallRecord /\ q.first = r.ans /\ q.sent = r.sent /\ q.late = 0
        /\ q.until = r.until /\ q.page = r.page
    BY DEF CallRecord, Ending
  <2>2. r.host = "global" /\ r.page = 1 /\ ~HasBody(r.ans) /\ r.until = 0
    BY <1>3 DEF WantsRegional, Ending, HasBody
  <2>3. r.sent <= Steps
    BY <2>2 DEF Ending, Budget
  <2>4. q.sent + Steps <= Bound(q.page)
    BY <2>1, <2>2, <2>3, <1>2, ArmAssumption
  <2>5. Fit(Request(q, "regional"), now)
    <3> HIDE DEF q
    <3> QED
      BY <2>1, <2>2, <2>4, <1>2, RequestFits, ArmAssumption
  <2>6. Answered(r) = Request(q, "regional")
    BY <1>3, <2>2 DEF Answered
  <2>7. QED
    BY <2>5, <2>6
<1>4. CASE ~WantsRegional(r) /\ r.host = "regional" /\ ~IsSuccessHTTPResponse(r.ans)
  <2> DEFINE q == [d EXCEPT !.ans = r.first]
  <2>1. Answered(r) = q
    BY <1>4 DEF Answered
  <2>2. /\ q \in CallRecord /\ q.pc = "respond" /\ q.host = "regional" /\ q.page = r.page
        /\ q.ans = r.first /\ q.sent = r.sent /\ q.late = 0
    BY <1>1, <1>4 DEF CallRecord
  <2>3. ~HasBody(q.ans)
    BY <2>2, <1>4 DEF Ending
  <2> HIDE DEF q
  <2>4. StepsFit(q) /\ Stops(q) /\ Remembers(q, now) /\ Retriable(q)
    BY <2>2, <2>3, <1>2 DEF StepsFit, Stops, Remembers, Retriable
  <2>5. QED
    BY <2>1, <2>2, <2>4 DEF Fit
<1>5. CASE /\ ~WantsRegional(r) /\ r.host = "regional" /\ IsSuccessHTTPResponse(r.ans)
           /\ r.ans.msg = "empty"
  <2> DEFINE e == GetError(r.first, TRUE)
             q == [d EXCEPT !.pc = "return", !.err = e]
  <2>1. Answered(r) = q
    BY <1>5 DEF Answered, Finished
  <2>2. e \in CallErrors
    BY ErrorShape DEF CallRecord
  <2>3. r.ans.code # -1
    BY <1>5, AnswerShape DEF CallRecord
  <2>4. /\ q \in CallRecord /\ q.pc = "return" /\ q.host = "regional" /\ q.page = r.page
        /\ q.ans = r.ans /\ q.sent = r.sent /\ q.late = 0
    BY <1>1, <1>5, <2>2 DEF CallRecord
  <2> HIDE DEF q, e
  <2>5. StepsFit(q) /\ Stops(q) /\ Remembers(q, now) /\ Retriable(q)
    BY <2>3, <2>4, <1>2 DEF StepsFit, Stops, Remembers, Retriable
  <2>6. QED
    BY <2>1, <2>4, <2>5 DEF Fit
<1>6. CASE /\ ~WantsRegional(r)
           /\ ~(r.host = "regional" /\ ~IsSuccessHTTPResponse(r.ans))
           /\ ~(r.host = "regional" /\ IsSuccessHTTPResponse(r.ans) /\ r.ans.msg = "empty")
  <2>1. Answered(r) = d
    BY <1>6 DEF Answered
  <2>2. StepsFit(d)
    <3> HIDE DEF d
    <3> QED
      BY <1>1, <1>2 DEF StepsFit, Ending
  <2>3. Stops(d) /\ Remembers(d, now) /\ Retriable(d)
    <3> HIDE DEF d
    <3> QED
      BY <1>1 DEF Stops, Remembers, Retriable, Ending, HasBody
  <2>4. QED
    BY <1>1, <2>1, <2>2, <2>3 DEF Fit
<1>7. QED
  BY <1>3, <1>4, <1>5, <1>6

\* The record of an error that a call ends with.
LEMMA FinishedFits ==
    ASSUME NEW r \in CallRecord, NEW e \in CallErrors, NEW t \in Nat,
           r.late = 0, r.host = "global" => r.page = 1, r.sent <= Bound(r.page) + 1,
           r.page = 1 /\ r.host # "regional" /\ r.op.store \in Kinds =>
             r.until <= t \/ (~e.nil /\ e.after >= r.until),
           r.ans.code = -1 /\ Marks(r.op) => e.nil \/ e.retriable
    PROVE  Fit(Finished(r, e), t)
<1> DEFINE q == Finished(r, e)
<1>1. /\ q \in CallRecord /\ q.pc = "return" /\ q.op = r.op /\ q.host = r.host /\ q.page = r.page
      /\ q.ans = r.ans /\ q.err = e /\ q.sent = r.sent /\ q.late = 0 /\ q.until = r.until
  BY DEF CallRecord, Finished
<1> HIDE DEF q
<1>2. StepsFit(q) /\ Stops(q)
  BY <1>1 DEF StepsFit, Stops
<1>3. Remembers(q, t)
  BY <1>1 DEF Remembers
<1>4. Retriable(q)
  BY <1>1 DEF Retriable
<1>5. QED
  BY <1>1, <1>2, <1>3, <1>4 DEF Fit, q

\* Time alone does not disturb a call.
LEMMA FitLater ==
    ASSUME NEW r, NEW t \in Nat, NEW u \in Nat, t <= u, Fit(r, t)
    PROVE  Fit(r, u)
<1>1. r.until \in Int /\ r.ans.after \in Int
  BY AnswerShape, ArmAssumption DEF Fit, CallRecord, Times
<1>2. QED
  BY <1>1 DEF Fit, Remembers

\* A step of one call leaves the others as they are.
LEMMA OneCall ==
    ASSUME CallsInv, NEW c \in Calls, NEW q, Fit(q, now),
           call' = [call EXCEPT ![c] = q], UNCHANGED <<now, tokens>>,
           retryAfter' \in [Kinds -> Times]
    PROVE  CallsInv'
<1>1. q \in CallRecord
  BY DEF Fit
<1>2. call' \in [Calls -> CallRecord]
  BY <1>1 DEF CallsInv
<1>3. Clocks'
  BY DEF CallsInv, Clocks
<1>4. ASSUME NEW d \in Calls PROVE Fit(call'[d], now')
  BY DEF CallsInv
<1>5. QED
  BY <1>2, <1>3, <1>4 DEF CallsInv

\* No call has begun.
LEMMA InitCallsInv == Init => CallsInv
<1> SUFFICES ASSUME Init PROVE CallsInv
  OBVIOUS
<1>1. /\ NoError \in CallErrors /\ NoAnswer \in CallAnswers /\ NoOp \in Operations \cup {NoOp}
      /\ 0 \in Times /\ 0 \in 0..Steps /\ 1 \in 1..(MaxPages + 1)
  BY ArmAssumption DEF NoError, CallErrors, CallAnswers, Times
<1>2. IdleCall \in CallRecord
  BY <1>1 DEF IdleCall, CallRecord, NoOp
<1>3. Fit(IdleCall, 1)
  BY <1>2, ArmAssumption DEF IdleCall, Fit, StepsFit, Stops, Remembers, Retriable, Bound
<1>4. QED
  BY <1>2, <1>3, ArmAssumption DEF Init, CallsInv, Clocks, Times

\* A request and its answer: throttled calls leave the loop.
LEMMA SendCallsInv ==
    ASSUME CallsInv, NEW c \in Calls, Send(c)
    PROVE  CallsInv'
<1> USE DEF CallsInv, Clocks
<1>1. PICK a \in Answers :
        LET e == SendError(a)
            r == [call[c] EXCEPT
                    !.ans = a, !.sent = @ + 1,
                    !.late = IF call[c].until # 0 THEN @ + 1 ELSE @,
                    !.until = IF IsThrottled(e) THEN now + a.after ELSE @]
        IN call' = [call EXCEPT ![c] =
                      IF Again(r, a, e) THEN [r EXCEPT !.pc = "delay"] ELSE Answered(r)]
  BY DEF Send
<1> DEFINE o == call[c]
           e == SendError(a)
           u == IF IsThrottled(e) THEN now + a.after ELSE o.until
           r == [o EXCEPT !.ans = a, !.sent = @ + 1,
                          !.late = IF o.until # 0 THEN @ + 1 ELSE @,
                          !.until = IF IsThrottled(e) THEN now + a.after ELSE @]
<1>2. o \in CallRecord /\ Fit(o, now) /\ o.pc = "send" /\ o.until = 0 /\ o.late = 0
  BY DEF Send, Fit, Stops
<1>3. a \in CallAnswers /\ (~IsSuccessHTTPResponse(a)) \in BOOLEAN /\ now \in 1..MaxTime
  BY DEF CallAnswers, IsSuccessHTTPResponse
<1>4. IsThrottled(e) => /\ ~IsSuccessHTTPResponse(a) /\ a.msg # "ResourceGroupNotFound"
                        /\ now + a.after \in Times
  BY <1>3, ThrottleShape DEF SendError
<1>5. u \in Times /\ (~IsThrottled(e) => u = 0)
  BY <1>2, <1>4 DEF CallRecord
<1>6. /\ r \in CallRecord /\ r.pc = "send" /\ r.op = o.op /\ r.steps = o.steps /\ r.host = o.host
      /\ r.page = o.page /\ r.ans = a /\ r.first = o.first /\ r.sent = o.sent + 1
      /\ r.late = 0 /\ r.until = u
  <2>1. r = [o EXCEPT !.ans = a, !.sent = o.sent + 1, !.late = 0, !.until = u]
    BY <1>2 DEF CallRecord
  <2>2. o.sent + 1 \in Nat /\ 0 \in Nat
    BY <1>2 DEF CallRecord
  <2> HIDE DEF o, u, r
  <2>3. QED
    BY <1>2, <1>3, <1>5, <2>1, <2>2 DEF CallRecord
<1>7. /\ r.host = "global" => r.page = 1
      /\ r.steps >= 1 /\ r.sent + r.steps <= Budget(r) + 1 /\ r.sent <= Budget(r)
      /\ r.host = "regional" => ~HasBody(r.first)
  <2> HIDE DEF r, o
  <2>1. /\ o.host = "global" => o.page = 1
        /\ o.steps >= 1 /\ o.sent + o.steps <= Budget(o) /\ o.sent \in Nat /\ o.steps \in Nat
        /\ o.host = "regional" => ~HasBody(o.first)
    BY <1>2, ArmAssumption DEF Fit, StepsFit, Stops, CallRecord
  <2>2. Budget(o) \in Int /\ Budget(r) = Budget(o)
    BY <1>2, <1>6, ArmAssumption DEF Budget, Bound, CallRecord
  <2>3. QED
    BY <1>6, <2>1, <2>2
<1>8. CASE Again(r, a, e)
  <2> DEFINE q == [r EXCEPT !.pc = "delay"]
  <2>1. call' = [call EXCEPT ![c] = q]
    BY <1>1, <1>8
  <2>2. ~IsThrottled(e) /\ r.steps # 1
    BY <1>8 DEF Again
  <2> HIDE DEF r, o, e
  <2>3. /\ q \in CallRecord /\ q.pc = "delay" /\ q.op = r.op /\ q.steps = r.steps
        /\ q.host = r.host /\ q.page = r.page /\ q.first = r.first /\ q.sent = r.sent
        /\ q.late = 0 /\ q.until = 0
    BY <1>5, <1>6, <2>2 DEF CallRecord
  <2>4. Bound(r.page) \in Int /\ Budget(r) \in Int /\ Budget(r) <= Bound(r.page)
        /\ Budget(q) = Budget(r) /\ r.steps \in Nat /\ r.sent \in Nat
    BY <1>6, <1>7, <2>3, ArmAssumption DEF Bound, Budget, CallRecord
  <2> HIDE DEF q
  <2>5. StepsFit(q)
    BY <1>7, <2>2, <2>3, <2>4 DEF StepsFit
  <2>6. Stops(q) /\ Remembers(q, now) /\ Retriable(q)
    BY <1>7, <2>3 DEF Stops, Remembers, Retriable
  <2>7. Fit(q, now)
    BY <2>3, <2>5, <2>6 DEF Fit
  <2>8. QED
    BY <2>1, <2>7, OneCall DEF Send
<1>9. CASE ~Again(r, a, e)
  <2>1. call' = [call EXCEPT ![c] = Answered(r)]
    BY <1>1, <1>9
  <2>2. Ending(r, now)
    <3>1. r.until # 0 => IsThrottled(e)
      BY <1>5, <1>6
    <3>2. r.until # 0 => r.until = now + a.after
      BY <1>5, <1>6
    <3> HIDE DEF r, o, e
    <3>3. r.until # 0 => r.until <= now + r.ans.after
      BY <1>6, <3>2, <1>5 DEF Times
    <3>4. QED
      BY <1>4, <1>6, <1>7, <3>1, <3>3 DEF Ending
  <2>3. Fit(Answered(r), now)
    BY <1>3, <1>6, <2>2, AnsweredFits
  <2>4. QED
    BY <2>1, <2>3, OneCall DEF Send
<1>10. QED
  BY <1>8, <1>9

\* The wait between two requests uses up a step.
LEMMA DelayCallsInv ==
    ASSUME CallsInv, NEW c \in Calls, Delay(c)
    PROVE  CallsInv'
<1> USE DEF CallsInv, Clocks
<1> DEFINE o == call[c]
           r == BackoffStep(o)
<1>1. PICK cancelled \in BOOLEAN :
        call' = [call EXCEPT ![c] =
                   IF cancelled \/ r.steps = 0 THEN Answered(r) ELSE [r EXCEPT !.pc = "send"]]
  BY DEF Delay
<1>2. o \in CallRecord /\ Fit(o, now) /\ o.pc = "delay"
  BY DEF Delay
<1> HIDE DEF o
<1>3. /\ o.host = "global" => o.page = 1
      /\ o.steps >= 2 /\ o.sent + o.steps <= Budget(o) + 1
      /\ o.late = 0 /\ o.until = 0
      /\ o.host = "regional" => ~HasBody(o.first)
      /\ o.sent \in Nat /\ o.steps \in 0..Steps /\ Budget(o) \in Int
      /\ Bound(o.page) \in Int /\ Budget(o) <= Bound(o.page)
  BY <1>2, ArmAssumption DEF Fit, StepsFit, Stops, CallRecord, Budget, Bound
<1>4. /\ r \in CallRecord /\ r.op = o.op /\ r.host = o.host
      /\ r.page = o.page /\ r.ans = o.ans /\ r.first = o.first /\ r.sent = o.sent
      /\ r.late = 0 /\ r.until = 0 /\ (r.steps = o.steps - 1 \/ r.steps = 0)
  <2>1. PICK n \in Nat, m \in 0..Steps : /\ r = [o EXCEPT !.dur = n, !.steps = m]
                                         /\ m = o.steps - 1 \/ m = 0
    <3>1. CASE Cap > 0 /\ 2 * o.dur > Cap
      <4>1. r = [o EXCEPT !.dur = Cap, !.steps = 0]
        BY <3>1 DEF BackoffStep
      <4>2. Cap \in Nat /\ 0 \in 0..Steps
        BY ArmAssumption
      <4>3. QED
        BY <4>1, <4>2
    <3>2. CASE ~(Cap > 0 /\ 2 * o.dur > Cap)
      <4>1. r = [o EXCEPT !.dur = 2 * o.dur, !.steps = o.steps - 1]
        BY <3>2 DEF BackoffStep
      <4>2. 2 * o.dur \in Nat /\ o.steps - 1 \in 0..Steps
        BY <1>2, <1>3, ArmAssumption DEF CallRecord
      <4>3. QED
        BY <4>1, <4>2
    <3>3. QED
      BY <3>1, <3>2
  <2> HIDE DEF r
  <2>2. QED
    BY <1>2, <1>3, <2>1 DEF CallRecord
<1> HIDE DEF r
<1>5. Budget(r) = Budget(o)
  BY <1>4 DEF Budget
<1>6. CASE cancelled \/ r.steps = 0
  <2>1. call' = [call EXCEPT ![c] = Answered(r)]
    BY <1>1, <1>6
  <2>2. Ending(r, now)
    BY <1>3, <1>4, <1>5 DEF Ending
  <2>3. Fit(Answered(r), now)
    BY <1>4, <2>2, AnsweredFits
  <2>4. QED
    BY <2>1, <2>3, OneCall DEF Delay
<1>7. CASE ~(cancelled \/ r.steps = 0)
  <2> DEFINE q == [r EXCEPT !.pc = "send"]
  <2>1. call' = [call EXCEPT ![c] = q]
    BY <1>1, <1>7
  <2>2. /\ q \in CallRecord /\ q.pc = "send" /\ q.op = r.op /\ q.steps = r.steps
        /\ q.host = r.host /\ q.page = r.page /\ q.first = r.first /\ q.sent = r.sent
        /\ q.late = 0 /\ q.until = 0
    BY <1>4 DEF CallRecord
  <2>3. Budget(q) = Budget(r)
    BY <2>2 DEF Budget
  <2> HIDE DEF q
  <2>4. StepsFit(q)
    BY <1>3, <1>4, <1>5, <1>7, <2>2, <2>3 DEF StepsFit
  <2>5. Stops(q) /\ Remembers(q, now) /\ Retriable(q)
    BY <1>3, <1>4, <2>2 DEF Stops, Remembers, Retriable
  <2>6. Fit(q, now)
    BY <2>2, <2>4, <2>5 DEF Fit
  <2>7. QED
    BY <2>1, <2>6, OneCall DEF Delay
<1>8. QED
  BY <1>6, <1>7

\* A failed request: its error holds what the answer said.
LEMMA FailedCallsInv ==
    ASSUME CallsInv, NEW c \in Calls, Failed(c)
    PROVE  CallsInv'
<1> USE DEF CallsInv, Clocks
<1> DEFINE o == call[c]
           e == IF o.page > 1 /\ o.op.next = "send"
                  THEN GetError(Answer(200, 0, "body"), TRUE) ELSE Handed(o, SendError(o.ans))
<1>1. /\ o \in CallRecord /\ Fit(o, now) /\ o.pc = "respond" /\ ~IsSuccessHTTPResponse(o.ans)
      /\ call' = [call EXCEPT ![c] = Finished(o, e)]
  BY DEF Failed
<1> HIDE DEF o
<1>2. PICK b \in BOOLEAN : b = ~IsSuccessHTTPResponse(o.ans)
  BY DEF IsSuccessHTTPResponse
<1>3. e \in CallErrors /\ (o.ans.code = -1 /\ Marks(o.op) => e.retriable)
  <2> DEFINE page == Answer(200, 0, "body")
  <2>1. /\ o.ans \in CallAnswers /\ page \in CallAnswers /\ IsSuccessHTTPResponse(page)
    BY <1>1 DEF CallRecord, CallAnswers, Answers, IsSuccessHTTPResponse, Answer
  <2> HIDE DEF page
  <2>2. GetError(page, TRUE) \in CallErrors /\ GetError(page, TRUE).retriable
    BY <2>1, ErrorShape
  <2>3. /\ GetError(o.ans, b) \in CallErrors
        /\ o.ans.code = -1 => GetError(o.ans, b).retriable
    BY <1>1, <1>2, <2>1, ErrorShape
  <2>4. \/ e = GetError(page, TRUE) \/ e = GetError(o.ans, b)
        \/ e = RawError /\ ~Marks(o.op)
    BY <1>2 DEF page, SendError, Handed, Marks
  <2>5. RawError \in CallErrors
    BY ArmAssumption DEF RawError, NewError, CallErrors, Times
  <2>6. QED
    BY <2>2, <2>3, <2>4, <2>5
<1>4. ASSUME o.page = 1, o.host # "regional", o.op.store \in Kinds
      PROVE  o.until <= now \/ (~e.nil /\ e.after >= o.until)
  <2>1. e = GetError(o.ans, b) /\ o.ans \in CallAnswers
    <3>1. o.op.send.host # "sdk"
      BY <1>1, <1>4, OpsAreSound DEF CallRecord, SoundOp
    <3>2. QED
      BY <1>1, <1>2, <1>4, <3>1 DEF SendError, CallRecord, Handed
  <2> HIDE DEF e
  <2>2. ~e.nil /\ (o.ans.after # 0 => e.after = now + o.ans.after)
    <3>1. ~GetError(o.ans, b).nil
      BY <1>1, <1>2, <2>1, ErrorShape
    <3>2. o.ans.after # 0 => GetError(o.ans, b).after = now + o.ans.after
      BY <3>1, <2>1, ErrorShape
    <3>3. QED
      BY <2>1, <3>1, <3>2
  <2>3. o.until # 0 => o.until <= now + o.ans.after
    BY <1>1, <1>4 DEF Fit, Remembers
  <2>4. o.until \in Int /\ o.ans.after \in Int
    BY <1>1, <2>1, AnswerShape DEF CallRecord, Times
  <2>5. QED
    BY <2>2, <2>3, <2>4
<1>5. /\ o.late = 0 /\ (o.host = "global" => o.page = 1) /\ o.sent <= Bound(o.page) + 1
  BY <1>1 DEF Fit, StepsFit, Stops
<1> HIDE DEF e
<1>6. Fit(Finished(o, e), now)
  BY <1>1, <1>3, <1>4, <1>5, FinishedFits
<1>7. QED
  BY <1>1, <1>6, OneCall DEF Failed

\* A page that is asked for again starts over.
LEMMA PageAgainCallsInv ==
    ASSUME CallsInv, NEW c \in Calls, PageAgain(c)
    PROVE  CallsInv'
<1> USE DEF CallsInv, Clocks
<1> DEFINE o == call[c]
           q == [o EXCEPT !.sent = 0, !.late = 0, !.until = 0]
<1>1. /\ o \in CallRecord /\ call' = [call EXCEPT ![c] = Request(q, "plain")]
      /\ o.page \in 1..(MaxPages + 1)
  BY DEF PageAgain, CallRecord
<1>2. 0 \in Times /\ 0 \in Nat
  BY ArmAssumption DEF Times
<1> HIDE DEF o
<1>3. q \in CallRecord /\ q.sent = 0 /\ q.late = 0 /\ q.until = 0 /\ q.page = o.page
  BY <1>1, <1>2 DEF CallRecord
<1>4. Steps <= Bound(o.page) /\ 0 <= Bound(o.page)
  <2>1. PICK k \in Nat : o.page - 1 = k
    BY <1>1, ArmAssumption
  <2>2. k * Steps \in Nat
    BY ArmAssumption
  <2>3. QED
    BY <2>1, <2>2, ArmAssumption DEF Bound
<1> HIDE DEF q
<1>5. Fit(Request(q, "plain"), now)
  BY <1>3, <1>4, RequestFits, ArmAssumption
<1>6. QED
  BY <1>1, <1>5, OneCall DEF PageAgain

\* A body that cannot be decoded came with a success.
LEMMA UndecodableCallsInv ==
    ASSUME CallsInv, NEW c \in Calls, Undecodable(c)
    PROVE  CallsInv'
<1> USE DEF CallsInv, Clocks
<1> DEFINE o == call[c]
<1>1. /\ o \in CallRecord /\ Fit(o, now) /\ o.pc = "respond" /\ IsSuccessHTTPResponse(o.ans)
  BY DEF Undecodable
<1>2. PICK e \in {GetError(o.ans, TRUE), NewError(FALSE, 0, 0)} :
        call' = [call EXCEPT ![c] = Finished(o, Handed(o, e))]
  BY DEF Undecodable
<1> HIDE DEF o
<1>3. o.ans \in CallAnswers /\ o.ans.code # -1
  BY <1>1, AnswerShape DEF CallRecord
<1>4. NewError(FALSE, 0, 0) \in CallErrors
  BY ArmAssumption DEF NewError, CallErrors, Times
<1>5. Handed(o, e) \in CallErrors
  BY <1>2, <1>3, <1>4, ErrorShape DEF Handed, RawError
<1>6. o.page = 1 /\ o.host # "regional" /\ o.op.store \in Kinds => o.until <= now
  BY <1>1 DEF Fit, Remembers
<1>7. /\ o.late = 0 /\ (o.host = "global" => o.page = 1) /\ o.sent <= Bound(o.page) + 1
  BY <1>1 DEF Fit, StepsFit, Stops
<1>8. Fit(Finished(o, Handed(o, e)), now)
  BY <1>1, <1>3, <1>5, <1>6, <1>7, FinishedFits
<1>9. QED
  BY <1>2, <1>8, OneCall DEF Undecodable

\* One page more is worth the steps of one request.
LEMMA PageProduct ==
    ASSUME NEW p \in Nat, NEW n \in Nat
    PROVE  (p - 1) * n \in Int /\ ((p + 1) - 1) * n = (p - 1) * n + n
<1>1. PICK k \in Int : k = p - 1
  OBVIOUS
<1>2. (k + 1) * n = k * n + n /\ k * n \in Int
  OBVIOUS
<1>3. (p + 1) - 1 = k + 1
  BY <1>1
<1>4. QED
  BY <1>1, <1>2, <1>3

\* The next page follows an answer with a body.
LEMMA NextPageCallsInv ==
    ASSUME CallsInv, NEW c \in Calls, NextPage(c)
    PROVE  CallsInv'
<1> USE DEF CallsInv, Clocks
<1> DEFINE o == call[c]
           q == [o EXCEPT !.page = @ + 1]
<1>1. /\ o \in CallRecord /\ Fit(o, now) /\ o.pc = "respond" /\ HasBody(o.ans)
      /\ call' = [call EXCEPT ![c] = Request(q, "plain")]
  BY DEF NextPage, HasBody
<1>2. o.page + 1 \in 1..(MaxPages + 1) /\ o.page \in Nat
  BY <1>1, ArmAssumption DEF NextPage, CallRecord
<1> HIDE DEF o
<1>3. o.until = 0 /\ o.late = 0 /\ o.sent <= Bound(o.page) /\ o.sent \in Nat
  BY <1>1 DEF Fit, Stops, StepsFit, CallRecord
<1>4. q \in CallRecord /\ q.sent = o.sent /\ q.late = 0 /\ q.until = 0 /\ q.page = o.page + 1
  BY <1>1, <1>2, <1>3 DEF CallRecord
<1>5. Bound(o.page + 1) = Bound(o.page) + Steps /\ Bound(o.page) \in Int
  <2>1. Steps \in Nat
    BY ArmAssumption
  <2>2. /\ (o.page - 1) * Steps \in Int
        /\ ((o.page + 1) - 1) * Steps = (o.page - 1) * Steps + Steps
    BY <1>2, <2>1, PageProduct
  <2>3. PICK x \in Int, y \in Int : /\ x = (o.page - 1) * Steps
                                   /\ y = ((o.page + 1) - 1) * Steps
                                   /\ y = x + Steps
    BY <2>1, <2>2
  <2>4. Bound(o.page) = 2 * Steps + x /\ Bound(o.page + 1) = 2 * Steps + y
    BY <2>3 DEF Bound
  <2>5. QED
    BY <2>1, <2>3, <2>4
<1> HIDE DEF q
<1>6. q.sent + Steps <= Bound(q.page) /\ q.sent <= Bound(q.page)
  BY <1>3, <1>4, <1>5, ArmAssumption
<1>7. Fit(Request(q, "plain"), now)
  BY <1>4, <1>6, RequestFits, ArmAssumption
<1>8. QED
  BY <1>1, <1>7, OneCall DEF NextPage

\* A success returns or waits for its future.
LEMMA SucceededCallsInv ==
    ASSUME CallsInv, NEW c \in Calls, Succeeded(c)
    PROVE  CallsInv'
<1> USE DEF CallsInv, Clocks
<1> DEFINE o == call[c]
           q == [o EXCEPT !.pc = "wait"]
<1>1. /\ o \in CallRecord /\ Fit(o, now) /\ o.pc = "respond" /\ IsSuccessHTTPResponse(o.ans)
      /\ call' = [call EXCEPT ![c] =
           IF o.op.send.waits # "no" THEN q ELSE Finished(o, NoError)]
  BY DEF Succeeded
<1> HIDE DEF o
<1>2. o.ans.code # -1
  BY <1>1, AnswerShape DEF CallRecord
<1>3. o.page = 1 /\ o.host # "regional" /\ o.op.store \in Kinds => o.until = 0
  BY <1>1 DEF Fit, Remembers
<1>4. /\ o.late = 0 /\ (o.host = "global" => o.page = 1) /\ o.sent <= Bound(o.page) + 1
      /\ o.sent <= Bound(o.page)
  BY <1>1 DEF Fit, StepsFit, Stops
<1>5. ASSUME o.op.send.waits # "no" PROVE Fit(q, now)
  <2>1. /\ q \in CallRecord /\ q.pc = "wait" /\ q.op = o.op /\ q.host = o.host /\ q.page = o.page
        /\ q.sent = o.sent /\ q.late = 0 /\ q.until = o.until
    BY <1>1, <1>4 DEF CallRecord
  <2> HIDE DEF q
  <2>2. StepsFit(q) /\ Stops(q) /\ Remembers(q, now) /\ Retriable(q)
    BY <1>3, <1>4, <1>5, <2>1 DEF StepsFit, Stops, Remembers, Retriable
  <2>3. QED
    BY <2>1, <2>2 DEF Fit
<1>6. Fit(Finished(o, NoError), now)
  <2>1. NoError \in CallErrors
    BY ArmAssumption DEF NoError, CallErrors, Times
  <2>2. o.page = 1 /\ o.host # "regional" /\ o.op.store \in Kinds => o.until <= now
    BY <1>3
  <2>3. QED
    BY <1>1, <1>2, <1>4, <2>1, <2>2, FinishedFits
<1>7. QED
  BY <1>1, <1>5, <1>6, OneCall DEF Succeeded

\* A future that ends, fails, or answers.
LEMMA WaitCallsInv ==
    ASSUME CallsInv, NEW c \in Calls, Wait(c)
    PROVE  CallsInv'
<1> USE DEF CallsInv, Clocks
<1> DEFINE o == call[c]
           lost == Answer(-1, 0, "none")
           q == [o EXCEPT !.ans = lost]
<1>1. o \in CallRecord /\ Fit(o, now) /\ o.pc = "wait"
  BY DEF Wait
<1>2. UNCHANGED <<now, tokens, retryAfter>>
  BY DEF Wait
<1>3. \/ call' = [call EXCEPT ![c] = Finished(o, NoError)]
      \/ call' = [call EXCEPT ![c] = Finished(q, WaitFailed(o))]
      \/ \E a \in Answers, undecodable, internal \in BOOLEAN :
           LET e == GetError(a, undecodable \/ ~IsSuccessHTTPResponse(a)) IN
           call' = [call EXCEPT ![c] =
             Finished([o EXCEPT !.ans = a, !.sent = @ + 1,
                                !.until = IF IsThrottled(e) THEN now + a.after ELSE 0],
               IF o.op.send.host = "plain" /\ ~e.nil /\ internal
                 THEN [e EXCEPT !.retriable = TRUE] ELSE e)]
  BY DEF Wait
<1> HIDE DEF o
<1>4. /\ o.late = 0 /\ (o.host = "global" => o.page = 1) /\ o.sent <= Bound(o.page) + 1
      /\ o.sent <= Bound(o.page) /\ o.sent \in Nat /\ Bound(o.page) \in Int
      /\ (o.page = 1 /\ o.host # "regional" /\ o.op.store \in Kinds => o.until = 0)
      /\ o.op.send.waits \in {"result", "completion", "final", "raw"}
  BY <1>1, OpsAreSound, ArmAssumption
     DEF Fit, StepsFit, Stops, Remembers, Retriable, CallRecord, SoundOp, Bound
<1>5. lost \in CallAnswers /\ lost.code = -1
  BY DEF CallAnswers, Answers, Answer
<1>6. CASE call' = [call EXCEPT ![c] = Finished(o, NoError)]
  <2>1. NoError \in CallErrors /\ NoError.nil
    BY ArmAssumption DEF NoError, CallErrors, Times
  <2>2. Fit(Finished(o, NoError), now)
    BY <1>1, <1>4, <2>1, FinishedFits
  <2>3. QED
    BY <1>2, <1>6, <2>2, OneCall
<1>7. CASE call' = [call EXCEPT ![c] = Finished(q, WaitFailed(o))]
  <2>1. NewError(TRUE, 0, 0) \in CallErrors /\ NewError(FALSE, 0, 0) \in CallErrors
    BY ArmAssumption DEF NewError, CallErrors, Times
  <2>2. NewError(TRUE, 0, 0).retriable
    BY DEF NewError
  <2>3. GetError(lost, TRUE) \in CallErrors /\ GetError(lost, TRUE).retriable
    BY <1>5, ErrorShape
  <2>4. /\ WaitFailed(o) \in CallErrors
        /\ Marks(o.op) => WaitFailed(o).retriable
    BY <1>4, <2>1, <2>2, <2>3 DEF WaitFailed, RawError, Marks
  <2>5. /\ q \in CallRecord /\ q.op = o.op /\ q.host = o.host /\ q.page = o.page
        /\ q.sent = o.sent /\ q.late = 0 /\ q.until = o.until /\ q.ans = lost
    BY <1>1, <1>4, <1>5 DEF CallRecord
  <2> HIDE DEF q, lost
  <2>6. Fit(Finished(q, WaitFailed(o)), now)
    BY <1>4, <2>4, <2>5, FinishedFits
  <2>7. QED
    BY <1>2, <1>7, <2>6, OneCall
<1>8. ASSUME NEW a \in Answers, NEW undecodable \in BOOLEAN, NEW internal \in BOOLEAN,
             LET e == GetError(a, undecodable \/ ~IsSuccessHTTPResponse(a)) IN
             call' = [call EXCEPT ![c] =
               Finished([o EXCEPT !.ans = a, !.sent = @ + 1,
                                  !.until = IF IsThrottled(e) THEN now + a.after ELSE 0],
                 IF o.op.send.host = "plain" /\ ~e.nil /\ internal
                   THEN [e EXCEPT !.retriable = TRUE] ELSE e)]
      PROVE  CallsInv'
  <2> DEFINE b == undecodable \/ ~IsSuccessHTTPResponse(a)
             e == GetError(a, b)
             u == IF IsThrottled(e) THEN now + a.after ELSE 0
             w == [o EXCEPT !.ans = a, !.sent = o.sent + 1, !.until = u]
             f == IF o.op.send.host = "plain" /\ ~e.nil /\ internal
                    THEN [e EXCEPT !.retriable = TRUE] ELSE e
  <2>1. call' = [call EXCEPT ![c] = Finished(w, f)]
    BY <1>8
  <2>2. a \in CallAnswers /\ b \in BOOLEAN
    BY DEF CallAnswers, IsSuccessHTTPResponse
  <2> HIDE DEF b
  <2>3. e \in CallErrors /\ (a.code = -1 /\ b => e.retriable)
    BY <2>2, ErrorShape
  <2>4. a.code = -1 => b
    BY DEF b, IsSuccessHTTPResponse
  <2>5. /\ u \in Times
        /\ u <= now \/ (~e.nil /\ e.after >= u)
    <3>1. CASE IsThrottled(e)
      <4>1. /\ ~e.nil /\ now + a.after \in Times
            /\ e.after >= now + a.after \/ a.after = 0
        BY <2>2, <3>1, ThrottleShape
      <4>2. u = now + a.after
        BY <3>1
      <4> HIDE DEF u, e
      <4>3. QED
        BY <4>1, <4>2
    <3>2. CASE ~IsThrottled(e)
      BY <3>2, ArmAssumption DEF Times
    <3>3. QED
      BY <3>1, <3>2
  <2> HIDE DEF e, u
  <2>6. /\ f \in CallErrors /\ (a.code = -1 => f.retriable)
        /\ ~e.nil => ~f.nil /\ f.after = e.after
    <3>1. CASE f = e
      BY <2>3, <2>4, <3>1
    <3>2. CASE f = [e EXCEPT !.retriable = TRUE]
      <4>1. f \in CallErrors /\ f.retriable /\ f.nil = e.nil /\ f.after = e.after
        BY <2>3, <3>2 DEF CallErrors
      <4>2. QED
        BY <4>1
    <3>3. QED
      BY <3>1, <3>2
  <2> HIDE DEF f
  <2>7. /\ w \in CallRecord /\ w.op = o.op /\ w.host = o.host /\ w.page = o.page
        /\ w.sent = o.sent + 1 /\ w.late = 0 /\ w.until = u /\ w.ans = a
    <3>1. o.sent + 1 \in Nat
      BY <1>4
    <3>2. QED
      BY <1>1, <1>4, <2>2, <2>5, <3>1 DEF CallRecord
  <2> HIDE DEF w
  <2>8. w.sent <= Bound(w.page) + 1
    BY <1>4, <2>7
  <2>9. Fit(Finished(w, f), now)
    BY <1>4, <2>5, <2>6, <2>7, <2>8, FinishedFits
  <2>10. QED
    BY <1>2, <2>1, <2>9, OneCall
<1>9. QED
  BY <1>3, <1>6, <1>7, <1>8

\* The end of a call.
LEMMA ReturnCallsInv ==
    ASSUME CallsInv, NEW c \in Calls, Return(c)
    PROVE  CallsInv'
<1> USE DEF CallsInv, Clocks
<1> DEFINE o == call[c]
<1>1. o \in CallRecord /\ o.err.after \in Times
  BY DEF CallRecord, CallErrors
<1>2. retryAfter' \in [Kinds -> Times]
  BY <1>1 DEF Return
<1>3. Fit(IdleCall, now)
  <2>1. /\ NoError \in CallErrors /\ NoAnswer \in CallAnswers /\ NoOp \in Operations \cup {NoOp}
        /\ 0 \in Times /\ 0 \in 0..Steps /\ 1 \in 1..(MaxPages + 1)
    BY ArmAssumption DEF NoError, CallErrors, CallAnswers, Times
  <2>2. IdleCall \in CallRecord
    BY <2>1 DEF IdleCall, CallRecord, NoOp
  <2>3. QED
    BY <2>2, ArmAssumption DEF IdleCall, Fit, StepsFit, Stops, Remembers, Retriable, Bound
<1>4. QED
  BY <1>2, <1>3, OneCall DEF Return

\* A token that is taken was there.
LEMMA AcceptedTokens ==
    ASSUME CallsInv, NEW op \in Operations, Accepted(op)
    PROVE  tokens' \in [Kinds -> 0..Bucket]
  BY ArmAssumption DEF CallsInv, Clocks, Accepted, Kinds

\* Every step keeps the invariant.
LEMMA NextCallsInv == CallsInv /\ [Next]_vars => CallsInv'
<1> SUFFICES ASSUME CallsInv, [Next]_vars PROVE CallsInv'
  OBVIOUS
<1>1. CASE UNCHANGED vars
  BY <1>1 DEF CallsInv, Clocks, vars
<1>2. CASE Tick
  <2>1. Clocks'
    BY <1>2, ArmAssumption DEF CallsInv, Clocks, Tick
  <2>2. ASSUME NEW c \in Calls PROVE Fit(call'[c], now')
    BY <1>2, FitLater DEF CallsInv, Clocks, Tick
  <2>3. QED
    BY <1>2, <2>1, <2>2 DEF CallsInv, Tick
<1>3. ASSUME NEW c \in Calls, NEW op \in Operations, RateLimited(c, op) PROVE CallsInv'
  BY <1>3 DEF CallsInv, Clocks, RateLimited, vars
<1>4. ASSUME NEW c \in Calls, NEW op \in Operations, Throttled(c, op) PROVE CallsInv'
  BY <1>4, AcceptedTokens DEF CallsInv, Clocks, Throttled
<1>5. ASSUME NEW c \in Calls, NEW op \in Operations, Admit(c, op) PROVE CallsInv'
  <2> DEFINE o == [IdleCall EXCEPT !.op = op]
             h == IF op.send.host = "global" THEN "global" ELSE "plain"
  <2>1. /\ NoError \in CallErrors /\ NoAnswer \in CallAnswers
        /\ op \in Operations \cup {NoOp}
        /\ 0 \in Times /\ 0 \in 0..Steps /\ 1 \in 1..(MaxPages + 1)
    BY ArmAssumption DEF NoError, CallErrors, CallAnswers, Times
  <2>2. /\ o \in CallRecord /\ o.late = 0 /\ o.until = 0 /\ o.sent = 0 /\ o.page = 1
    BY <2>1 DEF IdleCall, CallRecord
  <2>3. Bound(1) = 2 * Steps /\ h \in {"global", "plain"}
    BY ArmAssumption DEF Bound
  <2>4. call' = [call EXCEPT ![c] = Request(o, h)] /\ Clocks'
    BY <1>5, AcceptedTokens DEF Admit, CallsInv, Clocks
  <2> HIDE DEF o, h
  <2>5. Fit(Request(o, h), now)
    BY <2>2, <2>3, RequestFits, ArmAssumption DEF CallsInv, Clocks
  <2>6. Request(o, h) \in CallRecord /\ now' = now
    BY <1>5, <2>5 DEF Fit, Admit
  <2>7. QED
    BY <2>4, <2>5, <2>6 DEF CallsInv
<1>6. QED
  BY <1>1, <1>2, <1>3, <1>4, <1>5, SendCallsInv, DelayCallsInv, FailedCallsInv,
     PageAgainCallsInv, UndecodableCallsInv, NextPageCallsInv, SucceededCallsInv,
     WaitCallsInv, ReturnCallsInv DEF Next

\* The invariant of the calls.
LEMMA CallsInvariant == Spec => []CallsInv
  BY InitCallsInv, NextCallsInv, PTL DEF Spec

\* A throttled call sends nothing more, no call sends more requests than the
\* backoff allows, and a call that got no answer fails with an error marked
\* retriable (doBackoffRetry, GetError): for any number of goroutines, steps,
\* pages and answers of Azure.
THEOREM CallsAreSound == Spec => []CallsSound
<1>1. ASSUME CallsInv PROVE CallsSound
  <2>1. TypeOK
    BY <1>1, ArmAssumption DEF TypeOK, CallsInv, Clocks, CallRecord, CallErrors
  <2>2. ThrottledCallStops
    BY <1>1 DEF ThrottledCallStops, CallsInv, Fit, Stops
  <2>3. RequestsBounded
    BY <1>1 DEF RequestsBounded, CallsInv, Fit, StepsFit, Bound
  <2>4. LostAnswerRetriable
    BY <1>1 DEF LostAnswerRetriable, CallsInv, Fit, Retriable
  <2>5. QED
    BY <2>1, <2>2, <2>3, <2>4 DEF CallsSound
<1>2. QED
  BY <1>1, CallsInvariant, PTL

\* What Azure told a call to wait is in the RetryAfter field that the gate of
\* its kind reads, when the call returns (the last lines of every operation of
\* the clients).
THEOREM ThrottlingIsRecorded == Spec => ThrottleRecorded
<1> DEFINE P == \A c \in Calls :
         LET r == call[c] IN
         (/\ r.pc = "return" /\ call'[c].pc = "idle"
          /\ r.op.store \in Kinds
          /\ r.page = 1 /\ r.host # "regional"
          /\ r.until > now)
         => retryAfter'[r.op.gate] >= r.until
<1>1. ASSUME CallsInv, [Next]_vars PROVE [P]_vars
  <2>1. SUFFICES ASSUME ~UNCHANGED vars, NEW c \in Calls, call[c].pc = "return",
                        call'[c].pc = "idle", call[c].op.store \in Kinds, call[c].page = 1,
                        call[c].host # "regional", call[c].until > now
                 PROVE  retryAfter'[call[c].op.gate] >= call[c].until
    BY DEF P
  <2>2. Return(c)
    <3>1. CASE Tick
      BY <2>1, <3>1 DEF Tick
    <3>2. ASSUME NEW d \in Calls, NEW op \in Operations, RateLimited(d, op) PROVE FALSE
      BY <2>1, <3>2 DEF RateLimited
    <3>3. ASSUME NEW d \in Calls, NEW op \in Operations, Throttled(d, op) PROVE FALSE
      BY <2>1, <3>3 DEF Throttled
    <3>4. ASSUME NEW d \in Calls, d # c, NEW x, call' = [call EXCEPT ![d] = x] PROVE FALSE
      BY <1>1, <2>1, <3>4 DEF CallsInv
    <3>5. ASSUME NEW d \in Calls, NEW op \in Operations, Admit(d, op) PROVE FALSE
      BY <2>1, <3>4, <3>5 DEF Admit
    <3>6. ASSUME NEW d \in Calls, Send(d) \/ Delay(d) PROVE FALSE
      BY <2>1, <3>4, <3>6 DEF Send, Delay
    <3>7. ASSUME NEW d \in Calls, Failed(d) \/ PageAgain(d) \/ Undecodable(d) PROVE FALSE
      BY <2>1, <3>4, <3>7 DEF Failed, PageAgain, Undecodable
    <3>8. ASSUME NEW d \in Calls, NextPage(d) \/ Succeeded(d) PROVE FALSE
      BY <2>1, <3>4, <3>8 DEF NextPage, Succeeded
    <3>9. ASSUME NEW d \in Calls, Wait(d) PROVE FALSE
      <4>1. d # c
        BY <2>1, <3>9 DEF Wait
      <4>2. \E x : call' = [call EXCEPT ![d] = x]
        BY <3>9 DEF Wait
      <4>3. QED
        BY <3>4, <4>1, <4>2
    <3>10. ASSUME NEW d \in Calls, Return(d) PROVE d = c
      BY <3>4, <3>10 DEF Return
    <3>11. QED
      BY <1>1, <2>1, <3>1, <3>2, <3>3, <3>5, <3>6, <3>7, <3>8, <3>9, <3>10 DEF Next
  <2>3. Fit(call[c], now) /\ call[c] \in CallRecord /\ now \in Nat
    BY <1>1 DEF CallsInv, Clocks
  <2>4. ~call[c].err.nil /\ call[c].err.after >= call[c].until
    BY <2>1, <2>3 DEF Fit, Remembers, CallRecord, Times
  <2>5. IsThrottled(call[c].err)
    BY <2>1, <2>3, <2>4 DEF IsThrottled, CallRecord, CallErrors, Times
  <2>6. call[c].op.gate = call[c].op.store
    BY <2>1, <2>3, OpsAreSound DEF SoundOp, CallRecord
  <2>7. retryAfter'[call[c].op.store] = call[c].err.after
    BY <1>1, <2>1, <2>2, <2>5 DEF Return, CallsInv, Clocks
  <2>8. QED
    BY <2>4, <2>6, <2>7
<1>2. QED
  BY <1>1, CallsInvariant, PTL DEF ThrottleRecorded, Spec

-----------------------------------------------------------------------------
(***************************************************************************)
(* StorageAccount                                                          *)
(***************************************************************************)

\* A call under way.
StRecord == [pc : {"exists", "list", "match"} \cup {CallSteps[i] : i \in 1..Len(CallSteps)},
             o : Option, acct : Account \cup {StNil}, new : BOOLEAN,
             known : SUBSET Account, cand : SUBSET Account]

\* The next step of a call is the first needed one behind i; the last is always needed.
LEMMA LaterStep ==
    ASSUME NEW r, NEW i \in 0..10
    PROVE  LET j == Later(r, i) IN
           /\ j \in (i + 1)..11 /\ Needed(r, CallSteps[j])
           /\ \A k \in (i + 1)..(j - 1) : ~Needed(r, CallSteps[k])
<1> DEFINE N(k) == Needed(r, CallSteps[k])
<1>1. Len(CallSteps) = 11 /\ N(11)
  BY DEF CallSteps, Needed
<1> DEFINE T == {k \in (i + 1)..11 : N(k)}
<1>2. T \subseteq Nat /\ 11 \in T
  BY <1>1
<1>3. PICK j \in T : \A k \in T : j <= k
  BY <1>2, NatHasMin
<1>4. j \in (i + 1)..11 /\ N(j) /\ \A k \in (i + 1)..(j - 1) : ~N(k)
  BY <1>3
<1> HIDE DEF N
<1>5. \E m \in (i + 1)..11 : N(m) /\ \A k \in (i + 1)..(m - 1) : ~N(k)
  BY <1>4
<1> QED BY <1>1, <1>5 DEF Later, N

\* The places of the steps.
LEMMA StepIndex ==
    /\ Index("zone") = 1 /\ Index("makezone") = 2 /\ Index("link") = 3 /\ Index("makelink") = 4
    /\ Index("create") = 5 /\ Index("blob") = 6 /\ Index("getfile") = 7 /\ Index("setfile") = 8
    /\ Index("endpoint") = 9 /\ Index("group") = 10 /\ Index("key") = 11
<1>1. ASSUME NEW i \in 1..11, NEW j \in 1..11, CallSteps[i] = CallSteps[j] PROVE i = j
  BY <1>1 DEF CallSteps
<1>2. \A i \in 1..11 : Index(CallSteps[i]) = i
  BY <1>1 DEF Index, CallSteps
<1> QED BY <1>2 DEF CallSteps

\* Whether a call sends properties of the file service.
FileAsked(o) == o.multi # "unset" \/ o.keep # "unset"

\* Where a call goes on after each of its steps.
AfterCreation(r) ==
    IF FileAsked(r.o) THEN "getfile" ELSE IF r.o.endpoint = "yes" THEN "endpoint" ELSE "key"

LEMMA AdvanceSteps ==
    ASSUME NEW r \in StRecord
    PROVE  /\ \A i \in 0..10 : Advance(r, i) = [r EXCEPT !.pc = Advance(r, i).pc]
           /\ \A i \in 0..10 : Advance(r, i) \in StRecord
           /\ Advance(r, 0).pc = IF r.o.endpoint = "yes" THEN "zone" ELSE IF r.new THEN "create" ELSE "key"
           /\ r.o.endpoint = "yes" =>
                 /\ Advance(r, 1).pc = "link" /\ Advance(r, 2).pc = "link"
                 /\ Advance(r, 3).pc = IF r.new THEN "create" ELSE "endpoint"
                 /\ Advance(r, 4).pc = IF r.new THEN "create" ELSE "endpoint"
                 /\ Advance(r, 9).pc = "group"
           /\ r.new =>
                 /\ Advance(r, 5).pc = IF r.o.soft THEN "blob" ELSE AfterCreation(r)
                 /\ Advance(r, 6).pc = AfterCreation(r)
                 /\ Advance(r, 8).pc = IF r.o.endpoint = "yes" THEN "endpoint" ELSE "key"
           /\ r.new /\ FileAsked(r.o) => Advance(r, 7).pc = "setfile"
           /\ Advance(r, 10).pc = "key"
<1> DEFINE J(i) == Later(r, i)
<1>1. \A i \in 0..10 : /\ J(i) \in (i + 1)..11 /\ Needed(r, CallSteps[J(i)])
                       /\ \A k \in (i + 1)..(J(i) - 1) : ~Needed(r, CallSteps[k])
  BY LaterStep
<1>2. \A i \in 0..10 : Advance(r, i) = [r EXCEPT !.pc = CallSteps[J(i)]] /\ Advance(r, i).pc = CallSteps[J(i)]
  BY DEF Advance, StRecord
<1>3. /\ CallSteps[1] = "zone" /\ CallSteps[2] = "makezone" /\ CallSteps[3] = "link" /\ CallSteps[4] = "makelink"
      /\ CallSteps[5] = "create" /\ CallSteps[6] = "blob" /\ CallSteps[7] = "getfile" /\ CallSteps[8] = "setfile"
      /\ CallSteps[9] = "endpoint" /\ CallSteps[10] = "group" /\ CallSteps[11] = "key" /\ Len(CallSteps) = 11
  BY DEF CallSteps
<1>4. /\ ~Needed(r, "makezone") /\ ~Needed(r, "makelink") /\ Needed(r, "key")
      /\ Needed(r, "zone") <=> r.o.endpoint = "yes"
      /\ Needed(r, "link") <=> r.o.endpoint = "yes"
      /\ Needed(r, "endpoint") <=> r.o.endpoint = "yes"
      /\ Needed(r, "group") <=> r.o.endpoint = "yes"
      /\ Needed(r, "create") <=> r.new
      /\ Needed(r, "blob") <=> r.new /\ r.o.soft
      /\ Needed(r, "getfile") <=> r.new /\ FileAsked(r.o)
      /\ Needed(r, "setfile") <=> r.new /\ FileAsked(r.o)
  BY DEF Needed, FileAsked, StRecord, Option
<1> HIDE DEF J
<1>5. \A i \in 0..10 : Advance(r, i) \in StRecord
  BY <1>1, <1>2, <1>3 DEF StRecord
<1>6. Advance(r, 0).pc = IF r.o.endpoint = "yes" THEN "zone" ELSE IF r.new THEN "create" ELSE "key"
  BY <1>1, <1>2, <1>3, <1>4
<1>7. r.o.endpoint = "yes" => Advance(r, 1).pc = "link" /\ Advance(r, 2).pc = "link" /\ Advance(r, 9).pc = "group"
  BY <1>1, <1>2, <1>3, <1>4
<1>8. r.o.endpoint = "yes" =>
                 /\ Advance(r, 3).pc = IF r.new THEN "create" ELSE "endpoint"
                 /\ Advance(r, 4).pc = IF r.new THEN "create" ELSE "endpoint"
  BY <1>1, <1>2, <1>3, <1>4
<1>9. r.new => Advance(r, 5).pc = IF r.o.soft THEN "blob" ELSE AfterCreation(r)
  BY <1>1, <1>2, <1>3, <1>4 DEF AfterCreation
<1>10. r.new => Advance(r, 6).pc = AfterCreation(r)
  BY <1>1, <1>2, <1>3, <1>4 DEF AfterCreation
<1>11. r.new => Advance(r, 8).pc = IF r.o.endpoint = "yes" THEN "endpoint" ELSE "key"
  BY <1>1, <1>2, <1>3, <1>4
<1>12. (r.new /\ FileAsked(r.o) => Advance(r, 7).pc = "setfile") /\ Advance(r, 10).pc = "key"
  BY <1>1, <1>2, <1>3, <1>4
<1> QED BY <1>2, <1>5, <1>6, <1>7, <1>8, <1>9, <1>10, <1>11, <1>12

LEMMA AdvanceType ==
    ASSUME NEW r \in StRecord, NEW i \in 0..10
    PROVE  Advance(r, i) \in StRecord /\ Advance(r, i) = [r EXCEPT !.pc = Advance(r, i).pc]
  BY AdvanceSteps

LEMMA AdvanceStart ==
    ASSUME NEW r \in StRecord
    PROVE  /\ Advance(r, 0).pc = IF r.o.endpoint = "yes" THEN "zone" ELSE IF r.new THEN "create" ELSE "key"
           /\ Advance(r, 0) = [r EXCEPT !.pc = Advance(r, 0).pc]
  BY AdvanceSteps

LEMMA AdvancePrivate ==
    ASSUME NEW r \in StRecord, r.o.endpoint = "yes"
    PROVE  /\ Advance(r, 1).pc = "link" /\ Advance(r, 2).pc = "link"
           /\ Advance(r, 3).pc = IF r.new THEN "create" ELSE "endpoint"
           /\ Advance(r, 4).pc = IF r.new THEN "create" ELSE "endpoint"
           /\ Advance(r, 9).pc = "group" /\ Advance(r, 10).pc = "key"
  BY AdvanceSteps

LEMMA AdvanceNew ==
    ASSUME NEW r \in StRecord, r.new
    PROVE  /\ Advance(r, 5).pc = IF r.o.soft THEN "blob" ELSE AfterCreation(r)
           /\ Advance(r, 6).pc = AfterCreation(r)
           /\ FileAsked(r.o) => Advance(r, 7).pc = "setfile"
           /\ Advance(r, 8).pc = IF r.o.endpoint = "yes" THEN "endpoint" ELSE "key"
  BY AdvanceSteps

\* A call that has only its arguments starts as if it had looked up nothing.
LEMMA StartSame ==
    ASSUME NEW o \in Option, NEW a \in Account \cup {StNil}, NEW new \in BOOLEAN,
           NEW s, s = [pc |-> "start", o |-> o, acct |-> a, new |-> new, known |-> {}, cand |-> {}],
           NEW r, r = [pc |-> "list", o |-> o, acct |-> a, new |-> new, known |-> {}, cand |-> {}]
    PROVE  r \in StRecord /\ Advance(s, 0) = Advance(r, 0)
<1>1. r \in StRecord
  BY DEF StRecord
<1>2. /\ Advance(r, 0).pc = IF o.endpoint = "yes" THEN "zone" ELSE IF new THEN "create" ELSE "key"
      /\ Advance(r, 0) = [r EXCEPT !.pc = Advance(r, 0).pc]
  <2>1. r.o = o /\ r.new = new
    OBVIOUS
  <2>2. Advance(r, 0).pc = IF r.o.endpoint = "yes" THEN "zone" ELSE IF r.new THEN "create" ELSE "key"
    BY <1>1, AdvanceStart
  <2>3. Advance(r, 0) = [r EXCEPT !.pc = Advance(r, 0).pc]
    BY ONLY <1>1, AdvanceStart
  <2> QED BY <2>1, <2>2, <2>3
<1>3. PICK j : j = Later(s, 0)
  OBVIOUS
<1>4. j \in 1..11 /\ Needed(s, CallSteps[j]) /\ \A k \in 1..(j - 1) : ~Needed(s, CallSteps[k])
  BY <1>3, LaterStep
<1>5. /\ CallSteps[1] = "zone" /\ CallSteps[2] = "makezone" /\ CallSteps[3] = "link" /\ CallSteps[4] = "makelink"
      /\ CallSteps[5] = "create" /\ CallSteps[6] = "blob" /\ CallSteps[7] = "getfile" /\ CallSteps[8] = "setfile"
      /\ CallSteps[9] = "endpoint" /\ CallSteps[10] = "group" /\ CallSteps[11] = "key"
  BY DEF CallSteps
<1>6. /\ ~Needed(s, "makezone") /\ ~Needed(s, "makelink") /\ Needed(s, "key")
      /\ Needed(s, "zone") <=> o.endpoint = "yes"
      /\ Needed(s, "link") <=> o.endpoint = "yes"
      /\ Needed(s, "endpoint") <=> o.endpoint = "yes"
      /\ Needed(s, "group") <=> o.endpoint = "yes"
      /\ Needed(s, "create") <=> new
      /\ Needed(s, "blob") <=> new /\ o.soft
      /\ Needed(s, "getfile") <=> new /\ FileAsked(o)
      /\ Needed(s, "setfile") <=> new /\ FileAsked(o)
  BY DEF Needed, FileAsked, Option
<1>7. CallSteps[j] = IF o.endpoint = "yes" THEN "zone" ELSE IF new THEN "create" ELSE "key"
  BY <1>4, <1>5, <1>6
<1>8. Advance(s, 0) = [s EXCEPT !.pc = CallSteps[j]]
  BY <1>3 DEF Advance
<1>9. CallSteps[j] = Advance(r, 0).pc
  BY <1>2, <1>7
<1>10. [s EXCEPT !.pc = Advance(r, 0).pc] = [r EXCEPT !.pc = Advance(r, 0).pc]
  OBVIOUS
<1> QED BY <1>1, <1>2, <1>8, <1>9, <1>10

\* What the callers of a plan may ask for, and the kind that a call creates.
Wishes(p) == UNION {p.asks[c] : c \in Caller}
KindOf(o) == IF o.kind = 0 THEN 1 ELSE o.kind

\* What the theorem asks of a plan.  Who names an account takes it as it is (no call
\* compares it with the options), and it is created again with the kind that others
\* may ask for.  Two callers do not disagree on the endpoint or the retention of an
\* account one of them makes.  Only the taggers have their tags, and the account they
\* change is there and is not created again.
Compatible(p) ==
    /\ \A o \in Wishes(p) : o.name # StNil => o.kind = 0 /\ ~o.soft /\ o.keep # "off"
    /\ \A o, q \in Wishes(p) : o.name # StNil /\ o.create => q.kind # 2
    /\ \A o, q \in Wishes(p) : (o.name # StNil \/ q.kind \in {0, KindOf(o)}) =>
          /\ ~(o.endpoint = "yes" /\ q.endpoint = "no")
          /\ ~(o.keep = "on" /\ q.keep = "off") /\ ~(o.keep = "off" /\ q.keep = "on")
    /\ p.tagged # StNil =>
          /\ p.given[p.tagged] # StNil /\ p.given[p.tagged].tags \cap Tagger = {}
          /\ \A o \in Wishes(p) : o.create => o.name # p.tagged

StTypes ==
    /\ stplan \in StPlans
    /\ accounts \in [Account -> AccountRecord \cup {StNil}]
    /\ zone \in BOOLEAN /\ link \in BOOLEAN
    /\ fileCache \in [Account -> Setting \cup {StNil}]
    /\ calls \in [Caller -> StRecord \cup {Waiting}]
    /\ served \subseteq [o : Option, a : Account]
    /\ stfaults \in 0..stplan.faults /\ ncalls \in 0..MaxStCalls

TagTypes ==
    /\ tagCache \in TagSets \cup {StNil}
    /\ lockOf \in Tagger \cup {StNil}
    /\ tagging \in [Tagger -> {Waiting} \cup [pc : {"read"}, op : {"add", "remove"}]
                       \cup [pc : {"update"}, op : {"add", "remove"}, tags : TagSets]]
    /\ due \in [Tagger -> {"in", "out", "unknown"}]

\* The tags of an account are changed by whoever has its lock, from the tags that
\* it has: the cache and the tags to be sent are those, or made from those.
TagsSound ==
    /\ \A t \in Tagger : tagging[t].pc # "idle" => lockOf = t /\ due[t] = "unknown" /\ stplan.tagged # StNil
    /\ stplan.tagged # StNil =>
          /\ accounts[stplan.tagged] # StNil
          /\ tagCache # StNil => tagCache = accounts[stplan.tagged].tags
          /\ \A t \in Tagger : tagging[t].pc = "update" =>
                tagCache = StNil /\ tagging[t].tags = NewTags(t, accounts[stplan.tagged].tags)
          /\ \A t \in Tagger : due[t] # "unknown" => (due[t] = "in" <=> t \in accounts[stplan.tagged].tags)

\* What an account goes on to show, once it does, to those who list for o.
Shown(o, a) ==
    /\ o.kind \in {0, a.kind}
    /\ o.matchTags => "driver" \in a.tags
    /\ o.endpoint = "no" => ~a.endpoint

\* Of an account that was found or made for o: it goes on to be found.
Suits(o, a) == Shown(o, a) /\ (o.keep = "on" => a.keep # "off")

Beyond(s) ==
    CASE s = "zone"   -> {"link", "makelink", "create", "blob", "getfile", "setfile", "endpoint", "group", "key"}
      [] s = "link"   -> {"create", "blob", "getfile", "setfile", "endpoint", "group", "key"}
      [] s = "create" -> {"blob", "getfile", "setfile", "endpoint", "group", "key"}
      [] s = "blob"   -> {"getfile", "setfile", "endpoint", "group", "key"}
      [] s = "file"   -> {"endpoint", "group", "key"}

Lookups == {"exists", "list", "match"}

\* A call is at a step that its options need.
StepNeeded(r) ==
    /\ r.pc \in {"zone", "makezone", "link", "makelink", "endpoint", "group"} => r.o.endpoint = "yes"
    /\ r.pc \in {"create", "blob", "getfile", "setfile"} => r.new
    /\ r.pc = "blob" => r.o.soft
    /\ r.pc \in {"getfile", "setfile"} => FileAsked(r.o)
    /\ r.pc = "exists" => r.o.name # StNil /\ r.o.create
    /\ r.pc \in {"list", "match"} => r.o.name = StNil /\ ~r.o.create /\ r.acct = StNil
    /\ r.o.name # StNil => r.acct = r.o.name
    /\ r.new /\ r.o.name # StNil => r.o.create
    /\ r.pc \in Lookups => ~r.new
    /\ r.pc \notin Lookups => r.acct \in Account
    /\ r.new /\ r.o.name = StNil => r.acct \notin Named

\* What the steps of a call have brought about so far.
SoFar(r, acc, z, l) == r.pc \notin Lookups =>
    /\ r.o.endpoint = "yes" /\ r.pc \in Beyond("zone") => z
    /\ r.o.endpoint = "yes" /\ r.pc \in Beyond("link") => l
    /\ (IF r.new THEN r.pc \in Beyond("create") ELSE r.o.name = StNil) =>
          /\ acc[r.acct] # StNil
          /\ r.o.name = StNil => Suits(r.o, acc[r.acct])
          /\ (r.o.soft /\ (r.new => r.pc \in Beyond("blob"))) => acc[r.acct].soft
          /\ (r.o.keep = "off" /\ (r.new => r.pc \in Beyond("file"))) => acc[r.acct].keep = "off"
          /\ r.new /\ r.o.name = StNil => acc[r.acct].kind = KindOf(r.o)
          /\ (r.o.endpoint = "yes" /\ r.o.name = StNil /\ ~r.new) => acc[r.acct].endpoint
    /\ r.o.endpoint = "yes" /\ r.pc \in {"group", "key"} => acc[r.acct] # StNil /\ acc[r.acct].endpoint
    /\ r.o.endpoint = "yes" /\ r.pc = "key" => acc[r.acct].group

\* An account to be made under a new name is nobody else's and not there yet.
Unborn(r) == /\ r.pc \notin {"idle"} \cup Lookups /\ r.pc \notin Beyond("create")
             /\ r.new /\ r.o.name = StNil
Fresh == \A c \in Caller : Unborn(calls[c]) =>
    /\ accounts[calls[c].acct] = StNil
    /\ \A d \in Caller \ {c} : calls[d].pc # "idle" => calls[d].acct # calls[c].acct

\* What a search has found goes on to match, and what served the options before is
\* among it.
CandSound(r, acc) == \A a \in r.cand :
    /\ acc[a] # StNil /\ Shown(r.o, acc[a])
    /\ r.o.endpoint = "yes" => acc[a].endpoint
KnownSound(r, sv) == Reusable(r.o) =>
    /\ r.pc = "match" => \A a \in r.known : a \in r.cand /\ [o |-> r.o, a |-> a] \in sv
    /\ r.new => r.known = {}

CallSound(r, asks, acc, z, l, sv) == r.pc # "idle" =>
    /\ r.o \in asks
    /\ StepNeeded(r) /\ SoFar(r, acc, z, l)
    /\ r.pc = "match" => CandSound(r, acc)
    /\ KnownSound(r, sv)

CallsSoFar == \A c \in Caller : CallSound(calls[c], stplan.asks[c], accounts, zone, link, served)

\* An account that was handed out is there, is as asked and suits the same options.
ServedSound ==
    /\ ReturnedAsAsked
    /\ \A x \in served : /\ x.o \in Wishes(stplan) /\ accounts[x.a] # StNil
                         /\ x.o.name = StNil => Suits(x.o, accounts[x.a])

AccountsInv ==
    /\ Compatible(stplan) /\ StTypes /\ TagTypes /\ TagsSound
    /\ Fresh /\ CallsSoFar /\ ServedSound

\* What a step leaves of an account that is there.
Lasting(old, new) ==
    /\ old.soft => new.soft
    /\ old.endpoint => new.endpoint
    /\ old.group => new.group
    /\ "driver" \in old.tags => "driver" \in new.tags
    /\ \A q \in Wishes(stplan) : q.kind \in {0, old.kind} =>
          /\ q.kind \in {0, new.kind}
          /\ q.keep = "off" /\ old.keep = "off" => new.keep = "off"
          /\ q.keep = "on" /\ old.keep # "off" => new.keep # "off"
          /\ q.endpoint = "no" /\ ~old.endpoint => ~new.endpoint

Persists ==
    /\ stplan' = stplan /\ (zone => zone') /\ (link => link') /\ served \subseteq served'
    /\ \A a \in Account : accounts[a] # StNil =>
          /\ accounts'[a] # StNil /\ Lasting(accounts[a], accounts'[a])
          /\ a \notin Named => accounts'[a].kind = accounts[a].kind

\* A step that leaves the accounts alone leaves them as good as they were.
LEMMA SamePersists ==
    ASSUME stplan' = stplan, zone => zone', link => link', served \subseteq served', accounts' = accounts
    PROVE  Persists
  BY DEF Persists, Lasting

\* A call that a step does not touch is where it was.
LEMMA CallKept ==
    ASSUME AccountsInv, Persists, NEW c \in Caller, NEW r \in StRecord \cup {Waiting}, CallSound(r, stplan.asks[c], accounts, zone, link, served)
    PROVE  CallSound(r, stplan.asks[c], accounts', zone', link', served')
<1> SUFFICES ASSUME r.pc # "idle" PROVE CallSound(r, stplan.asks[c], accounts', zone', link', served')
  BY DEF CallSound
<1>1. r \in StRecord
  BY DEF Waiting
<1>2. r.o \in stplan.asks[c] /\ StepNeeded(r) /\ SoFar(r, accounts, zone, link) /\ (r.pc = "match" => CandSound(r, accounts)) /\ KnownSound(r, served)
  BY DEF CallSound
<1>3. r.o \in Wishes(stplan) /\ stplan' = stplan /\ r.o \in Option
  BY <1>1, <1>2 DEF Wishes, Persists, StRecord
<1>4. r.pc = "match" => CandSound(r, accounts')
  <2> SUFFICES ASSUME r.pc = "match", NEW a \in r.cand
               PROVE  /\ accounts'[a] # StNil /\ Shown(r.o, accounts'[a])
                      /\ r.o.endpoint = "yes" => accounts'[a].endpoint
    BY DEF CandSound
  <2>1. a \in Account /\ accounts[a] # StNil /\ Shown(r.o, accounts[a]) /\ (r.o.endpoint = "yes" => accounts[a].endpoint)
    BY <1>1, <1>2 DEF CandSound, StRecord
  <2>2. accounts'[a] # StNil /\ Lasting(accounts[a], accounts'[a])
    BY <2>1 DEF Persists
  <2> QED BY <1>3, <2>1, <2>2 DEF Lasting, Shown
<1>5. KnownSound(r, served')
  BY <1>2 DEF KnownSound, Persists, Reusable
<1>6. SoFar(r, accounts', zone', link')
  <2> SUFFICES ASSUME r.pc \notin Lookups PROVE SoFar(r, accounts', zone', link')
    BY DEF SoFar
  <2>1. r.acct \in Account
    BY <1>2 DEF StepNeeded
  <2>2. accounts[r.acct] # StNil =>
          /\ accounts'[r.acct] # StNil /\ Lasting(accounts[r.acct], accounts'[r.acct])
          /\ r.acct \notin Named => accounts'[r.acct].kind = accounts[r.acct].kind
    BY <2>1 DEF Persists
  <2>3. r.o.name # StNil => r.o.kind = 0 /\ r.o.keep # "off"
    BY <1>3 DEF AccountsInv, Compatible
  <2>4. r.new /\ r.o.name = StNil => r.acct \notin Named
    BY <1>2 DEF StepNeeded
  <2>5. SoFar(r, accounts, zone, link)
    BY <1>2
  <2>6. ASSUME IF r.new THEN r.pc \in Beyond("create") ELSE r.o.name = StNil
        PROVE  /\ accounts'[r.acct] # StNil
               /\ r.o.name = StNil => Suits(r.o, accounts'[r.acct])
               /\ (r.o.soft /\ (r.new => r.pc \in Beyond("blob"))) => accounts'[r.acct].soft
               /\ (r.o.keep = "off" /\ (r.new => r.pc \in Beyond("file"))) => accounts'[r.acct].keep = "off"
               /\ r.new /\ r.o.name = StNil => accounts'[r.acct].kind = KindOf(r.o)
               /\ (r.o.endpoint = "yes" /\ r.o.name = StNil /\ ~r.new) => accounts'[r.acct].endpoint
    <3>1. accounts[r.acct] # StNil /\ (r.o.name = StNil => Suits(r.o, accounts[r.acct]))
      BY <2>5, <2>6 DEF SoFar
    <3>2. /\ (r.o.soft /\ (r.new => r.pc \in Beyond("blob"))) => accounts[r.acct].soft
          /\ (r.o.keep = "off" /\ (r.new => r.pc \in Beyond("file"))) => accounts[r.acct].keep = "off"
          /\ r.new /\ r.o.name = StNil => accounts[r.acct].kind = KindOf(r.o)
          /\ (r.o.endpoint = "yes" /\ r.o.name = StNil /\ ~r.new) => accounts[r.acct].endpoint
      BY <2>5, <2>6 DEF SoFar
    <3> QED BY <1>3, <2>2, <2>3, <2>4, <3>1, <3>2 DEF Lasting, Suits, Shown
  <2>7. /\ r.o.endpoint = "yes" /\ r.pc \in {"group", "key"} => accounts'[r.acct] # StNil /\ accounts'[r.acct].endpoint
        /\ r.o.endpoint = "yes" /\ r.pc = "key" => accounts'[r.acct].group
    BY <2>2, <2>5 DEF SoFar, Lasting
  <2>8. /\ r.o.endpoint = "yes" /\ r.pc \in Beyond("zone") => zone'
        /\ r.o.endpoint = "yes" /\ r.pc \in Beyond("link") => link'
    BY <2>5 DEF SoFar, Persists
  <2> QED BY <2>6, <2>7, <2>8 DEF SoFar
<1> QED BY <1>2, <1>3, <1>4, <1>5, <1>6 DEF CallSound, StepNeeded

\* What was said of accounts that were handed out stays true.
LEMMA ServedKept ==
    ASSUME AccountsInv, Persists, served' = served
    PROVE  ServedSound'
<1> SUFFICES ASSUME NEW x \in served
             PROVE  /\ x.o.kind \in {0, accounts'[x.a].kind}
                    /\ x.o.soft => accounts'[x.a].soft
                    /\ x.o.keep = "off" => accounts'[x.a].keep = "off"
                    /\ x.o.endpoint = "yes" => zone' /\ link' /\ accounts'[x.a].endpoint /\ accounts'[x.a].group
                    /\ x.o \in Wishes(stplan') /\ accounts'[x.a] # StNil
                    /\ x.o.name = StNil => Suits(x.o, accounts'[x.a])
  BY DEF ServedSound, ReturnedAsAsked
<1>1. /\ x.o.kind \in {0, accounts[x.a].kind}
      /\ x.o.soft => accounts[x.a].soft
      /\ x.o.keep = "off" => accounts[x.a].keep = "off"
      /\ x.o.endpoint = "yes" => zone /\ link /\ accounts[x.a].endpoint /\ accounts[x.a].group
      /\ x.o \in Wishes(stplan) /\ accounts[x.a] # StNil
      /\ x.o.name = StNil => Suits(x.o, accounts[x.a])
  BY DEF AccountsInv, ServedSound, ReturnedAsAsked
<1>2. x.a \in Account
  BY DEF AccountsInv, StTypes
<1>3. accounts'[x.a] # StNil /\ Lasting(accounts[x.a], accounts'[x.a]) /\ stplan' = stplan /\ (zone => zone') /\ (link => link')
  BY <1>1, <1>2 DEF Persists
<1>4. x.o.name = StNil => Suits(x.o, accounts'[x.a])
  BY <1>1, <1>3 DEF Lasting, Suits, Shown
<1> QED BY <1>1, <1>3, <1>4 DEF Lasting

\* The tags are sound as long as nobody touches them.
LEMMA TagsKept ==
    ASSUME AccountsInv, stplan' = stplan, UNCHANGED Tags,
           stplan.tagged # StNil => accounts'[stplan.tagged] # StNil /\ accounts'[stplan.tagged].tags = accounts[stplan.tagged].tags
    PROVE  TagTypes' /\ TagsSound'
  BY DEF AccountsInv, TagTypes, TagsSound, Tags, NewTags

\* A step of one call that goes on with r.
LEMMA Onward ==
    ASSUME AccountsInv, Persists, StTypes', TagTypes', TagsSound', served' = served,
           NEW c \in Caller, NEW r \in StRecord \cup {Waiting},
           calls' = [calls EXCEPT ![c] = r],
           CallSound(r, stplan.asks[c], accounts', zone', link', served'),
           \A d \in Caller \ {c} : Unborn(calls[d]) =>
               accounts'[calls[d].acct] = StNil /\ (r.pc # "idle" => r.acct # calls[d].acct),
           Unborn(r) => /\ accounts'[r.acct] = StNil
                        /\ \A d \in Caller \ {c} : calls[d].pc # "idle" => calls[d].acct # r.acct
    PROVE  AccountsInv'
<1>1. calls \in [Caller -> StRecord \cup {Waiting}]
  BY DEF AccountsInv, StTypes
<1>2. \A d \in Caller : calls'[d] = IF d = c THEN r ELSE calls[d]
  BY <1>1
<1>3. Compatible(stplan')
  BY DEF AccountsInv, Persists
<1>4. ServedSound'
  BY ServedKept
<1>5. Fresh'
  <2> SUFFICES ASSUME NEW d \in Caller, Unborn(calls'[d])
               PROVE  /\ accounts'[calls'[d].acct] = StNil
                      /\ \A e \in Caller \ {d} : calls'[e].pc # "idle" => calls'[e].acct # calls'[d].acct
    BY DEF Fresh, Unborn
  <2>1. CASE d = c
    BY <2>1, <1>2
  <2>2. CASE d # c
    <3>1. calls'[d] = calls[d] /\ Unborn(calls[d])
      BY <2>2, <1>2
    <3>2. \A e \in Caller \ {d} : calls[e].pc # "idle" => calls[e].acct # calls[d].acct
      BY <3>1 DEF AccountsInv, Fresh
    <3> QED BY <3>1, <3>2, <2>2, <1>2
  <2> QED BY <2>1, <2>2
<1>6. CallsSoFar'
  <2> SUFFICES ASSUME NEW d \in Caller
               PROVE  CallSound(calls'[d], stplan'.asks[d], accounts', zone', link', served')
    BY DEF CallsSoFar
  <2>1. CallSound(calls[d], stplan.asks[d], accounts, zone, link, served) /\ stplan' = stplan
    BY DEF AccountsInv, CallsSoFar, Persists
  <2>2. CASE d = c
    BY <2>1, <2>2, <1>2
  <2>3. CASE d # c
    BY <2>1, <2>3, <1>1, <1>2, CallKept
  <2> QED BY <2>2, <2>3
<1> QED BY <1>3, <1>4, <1>5, <1>6 DEF AccountsInv

\* Facts about a call under way.
LEMMA UnderWay ==
    ASSUME AccountsInv, NEW c \in Caller, calls[c].pc # "idle"
    PROVE  /\ calls[c] \in StRecord /\ calls[c].o \in Option /\ calls[c].o \in stplan.asks[c]
           /\ calls[c].o \in Wishes(stplan)
           /\ StepNeeded(calls[c]) /\ SoFar(calls[c], accounts, zone, link) /\ KnownSound(calls[c], served)
           /\ calls[c].pc = "match" => CandSound(calls[c], accounts)
<1>1. calls[c] \in StRecord
  BY DEF AccountsInv, StTypes, Waiting
<1>2. CallSound(calls[c], stplan.asks[c], accounts, zone, link, served)
  BY DEF AccountsInv, CallsSoFar
<1> QED BY <1>1, <1>2 DEF CallSound, Wishes, StRecord

LEMMA PlanTypes ==
    ASSUME AccountsInv
    PROVE  /\ stplan \in StPlan /\ stplan.faults \in Nat
           /\ \A c \in Caller : stplan.asks[c] \subseteq Option
           /\ Wishes(stplan) \subseteq Option
           /\ stplan.tagged \in Account \cup {StNil}
<1>1. stplan \in StPlan
  BY StPlansAssumption DEF AccountsInv, StTypes
<1> QED BY <1>1 DEF StPlan, Wishes

LEMMA CountedType ==
    ASSUME AccountsInv, NEW r \in StAnswer, StCounted(r)
    PROVE  stfaults' \in 0..stplan.faults
  BY PlanTypes DEF AccountsInv, StTypes, StAnswer, StCounted

LEMMA MovedType ==
    ASSUME AccountsInv, NEW c \in Caller, NEW r \in StRecord \cup {Waiting}, calls' = [calls EXCEPT ![c] = r]
    PROVE  calls' \in [Caller -> StRecord \cup {Waiting}]
  BY DEF AccountsInv, StTypes

\* Where a call is after one of its remote steps.
LEMMA StepOn ==
    ASSUME AccountsInv, Persists, StTypes', TagTypes', TagsSound', served' = served,
           NEW c \in Caller, calls[c].pc \notin {"idle"} \cup Lookups,
           NEW r, calls' = [calls EXCEPT ![c] = r],
           \/ r = Waiting
           \/ /\ r \in StRecord /\ r = [calls[c] EXCEPT !.pc = r.pc] /\ r.pc \notin Lookups
              /\ StepNeeded(r) /\ SoFar(r, accounts', zone', link')
              /\ Unborn(r) => Unborn(calls[c]) /\ accounts'[r.acct] = StNil,
           \A d \in Caller \ {c} : Unborn(calls[d]) => accounts'[calls[d].acct] = StNil
    PROVE  AccountsInv'
<1>1. \A d \in Caller \ {c} : Unborn(calls[d]) => calls[c].acct # calls[d].acct
  BY DEF AccountsInv, Fresh
<1>2. CASE r = Waiting
  <2>1. r.pc = "idle" /\ ~Unborn(r)
    BY <1>2 DEF Waiting, Unborn
  <2>2. CallSound(r, stplan.asks[c], accounts', zone', link', served')
    BY <2>1 DEF CallSound
  <2> HIDE DEF Unborn
  <2> QED BY <1>2, <2>1, <2>2, Onward
<1>3. CASE r # Waiting
  <2>1. /\ r \in StRecord /\ r = [calls[c] EXCEPT !.pc = r.pc] /\ r.pc \notin Lookups
        /\ StepNeeded(r) /\ SoFar(r, accounts', zone', link')
        /\ Unborn(r) => Unborn(calls[c]) /\ accounts'[r.acct] = StNil
    BY <1>3
  <2>2. /\ calls[c] \in StRecord /\ calls[c].o \in stplan.asks[c] /\ KnownSound(calls[c], served)
    BY UnderWay
  <2>3. r.o = calls[c].o /\ r.acct = calls[c].acct /\ r.new = calls[c].new /\ r.known = calls[c].known
    BY <2>1, <2>2 DEF StRecord
  <2>4. CallSound(r, stplan.asks[c], accounts', zone', link', served')
    BY <2>1, <2>2, <2>3 DEF CallSound, KnownSound, Lookups
  <2>5. Unborn(r) => \A d \in Caller \ {c} : calls[d].pc # "idle" => calls[d].acct # r.acct
    BY <2>1, <2>3 DEF AccountsInv, Fresh
  <2>6. \A d \in Caller \ {c} : Unborn(calls[d]) =>
            accounts'[calls[d].acct] = StNil /\ (r.pc # "idle" => r.acct # calls[d].acct)
    BY <1>1, <2>3
  <2>7. Unborn(r) => /\ accounts'[r.acct] = StNil
                     /\ \A d \in Caller \ {c} : calls[d].pc # "idle" => calls[d].acct # r.acct
    BY <2>1, <2>5
  <2> HIDE DEF Unborn
  <2> QED BY <2>1, <2>4, <2>6, <2>7, Onward
<1> QED BY <1>2, <1>3

\* What AfterStep does: the call goes on, or ends.
LEMMA AfterStepMoves ==
    ASSUME AccountsInv, NEW c \in Caller, calls[c].pc # "idle", NEW i \in 1..10, Index(calls[c].pc) = i,
           NEW x \in StAnswer, AfterStep(c, x)
    PROVE  \E r \in StRecord \cup {Waiting} :
              /\ calls' = [calls EXCEPT ![c] = r]
              /\ IF x = "ok" THEN r = Advance(calls[c], i) ELSE r = Waiting
<1>1. calls[c] \in StRecord
  BY UnderWay
<1>2. Advance(calls[c], i) \in StRecord
  BY <1>1, AdvanceType
<1> QED BY <1>2 DEF AfterStep, Move

\* One lemma per step of a call: it keeps the invariant.
LEMMA FindZoneKeeps ==
    ASSUME AccountsInv, NEW c \in Caller, FindZone(c)
    PROVE  AccountsInv'
<1>1. calls[c].pc = "zone" /\ UNCHANGED <<stplan, accounts, zone, link, fileCache, served, ncalls, Tags>>
  BY DEF FindZone, Find, At
<1>2. PICK x \in StAnswer : /\ IF x = "ok" /\ ~zone THEN Move(c, [calls[c] EXCEPT !.pc = CallSteps[Index("zone") + 1]])
                                                     ELSE AfterStep(c, x)
                            /\ StCounted(x)
  BY DEF FindZone, Find
<1>3. /\ calls[c] \in StRecord /\ StepNeeded(calls[c]) /\ SoFar(calls[c], accounts, zone, link) /\ calls[c].o \in Option
  BY <1>1, UnderWay
<1>4. Index("zone") = 1 /\ CallSteps[2] = "makezone" /\ CallSteps[2] \in {CallSteps[i] : i \in 1..Len(CallSteps)}
  BY StepIndex DEF CallSteps
<1>5. calls[c].o.endpoint = "yes" /\ Advance(calls[c], 1).pc = "link"
      /\ Advance(calls[c], 1) = [calls[c] EXCEPT !.pc = "link"] /\ Advance(calls[c], 1) \in StRecord
  <2>1. calls[c].o.endpoint = "yes"
    BY <1>1, <1>3 DEF StepNeeded
  <2>2. Advance(calls[c], 1).pc = "link"
    BY <1>3, <2>1, AdvancePrivate
  <2>3. Advance(calls[c], 1) \in StRecord /\ Advance(calls[c], 1) = [calls[c] EXCEPT !.pc = Advance(calls[c], 1).pc]
    BY <1>3, AdvanceType
  <2> QED BY <2>1, <2>2, <2>3
<1>6. PICK r \in StRecord \cup {Waiting} :
          /\ calls' = [calls EXCEPT ![c] = r]
          /\ \/ r = Waiting
             \/ r = [calls[c] EXCEPT !.pc = "makezone"] /\ r \in StRecord
             \/ r = [calls[c] EXCEPT !.pc = "link"] /\ zone /\ r \in StRecord
  <2>1. CASE x = "ok" /\ ~zone
    <3>1. [calls[c] EXCEPT !.pc = "makezone"] \in StRecord
      BY <1>3, <1>4 DEF StRecord
    <3> QED BY <1>2, <1>4, <2>1, <3>1 DEF Move
  <2>2. CASE ~(x = "ok" /\ ~zone)
    <3>1. PICK q \in StRecord \cup {Waiting} :
             /\ calls' = [calls EXCEPT ![c] = q]
             /\ IF x = "ok" THEN q = Advance(calls[c], 1) ELSE q = Waiting
      BY <1>1, <1>2, <1>4, <2>2, AfterStepMoves
    <3> QED BY <2>2, <3>1, <1>5
  <2> QED BY <2>1, <2>2
<1>7. Persists /\ TagTypes' /\ TagsSound'
  BY <1>1, SamePersists, TagsKept DEF AccountsInv, TagsSound
<1>8. StTypes'
  BY <1>1, <1>2, <1>6, CountedType, MovedType DEF AccountsInv, StTypes
<1>9. \A d \in Caller : Unborn(calls[d]) => accounts'[calls[d].acct] = StNil
  BY <1>1 DEF AccountsInv, Fresh
<1>10. ASSUME r # Waiting
       PROVE  /\ r = [calls[c] EXCEPT !.pc = r.pc] /\ r.pc \notin Lookups
              /\ StepNeeded(r) /\ SoFar(r, accounts', zone', link')
              /\ Unborn(r) => Unborn(calls[c]) /\ accounts'[r.acct] = StNil
  <2>1. /\ r = [calls[c] EXCEPT !.pc = r.pc] /\ r.pc \in {"makezone", "link"} /\ (r.pc = "link" => zone)
        /\ r.o = calls[c].o /\ r.new = calls[c].new /\ r.acct = calls[c].acct
    BY <1>3, <1>6, <1>10 DEF StRecord
  <2>2. StepNeeded(r)
    BY <1>1, <1>3, <1>5, <2>1 DEF StepNeeded, Lookups
  <2>3. SoFar(r, accounts, zone, link)
    BY <1>1, <1>3, <2>1 DEF SoFar, Lookups, Beyond
  <2>4. Unborn(r) => Unborn(calls[c])
    BY <1>1, <2>1 DEF Unborn, Lookups, Beyond
  <2> QED BY <1>1, <1>9, <2>1, <2>2, <2>3, <2>4 DEF Lookups
<1> QED BY <1>1, <1>6, <1>7, <1>8, <1>9, <1>10, StepOn DEF Lookups

\* A remote step that takes the call to q, its next step, or ends it.
LEMMA StepTo ==
    ASSUME AccountsInv, Persists, TagTypes', TagsSound',
           accounts' \in [Account -> AccountRecord \cup {StNil}], zone' \in BOOLEAN, link' \in BOOLEAN,
           fileCache' \in [Account -> Setting \cup {StNil}], served' = served, ncalls' = ncalls,
           NEW c \in Caller, calls[c].pc \notin {"idle"} \cup Lookups,
           NEW i \in 1..10, Index(calls[c].pc) = i,
           NEW x \in StAnswer, AfterStep(c, x), StCounted(x),
           NEW q, q = Advance(calls[c], i), q.pc \notin Lookups,
           x = "ok" => /\ StepNeeded(q) /\ SoFar(q, accounts', zone', link')
                       /\ Unborn(q) => Unborn(calls[c]) /\ accounts'[q.acct] = StNil,
           \A d \in Caller \ {c} : Unborn(calls[d]) => accounts'[calls[d].acct] = StNil
    PROVE  AccountsInv'
<1>1. calls[c] \in StRecord /\ q \in StRecord /\ q = [calls[c] EXCEPT !.pc = q.pc]
  BY UnderWay, AdvanceType
<1>2. PICK r \in StRecord \cup {Waiting} :
         /\ calls' = [calls EXCEPT ![c] = r]
         /\ IF x = "ok" THEN r = q ELSE r = Waiting
  BY AfterStepMoves
<1>3. StTypes'
  <2>1. stplan' = stplan /\ stplan \in StPlans /\ ncalls \in 0..MaxStCalls /\ served \subseteq [o : Option, a : Account]
    BY DEF AccountsInv, StTypes, Persists
  <2>2. stfaults' \in 0..stplan.faults
    BY CountedType
  <2>3. calls' \in [Caller -> StRecord \cup {Waiting}]
    BY <1>2, MovedType
  <2> QED BY <2>1, <2>2, <2>3 DEF StTypes
<1>4. CASE x = "ok"
  <2> HIDE DEF Unborn, StepNeeded, SoFar
  <2>1. r = q
    BY <1>2, <1>4
  <2> QED BY <1>1, <1>2, <1>3, <1>4, <2>1, StepOn
<1>5. CASE x # "ok"
  <2>1. r = Waiting
    BY <1>2, <1>5
  <2> QED BY <1>2, <1>3, <2>1, StepOn
<1> QED BY <1>4, <1>5

\* The fields of a call that goes on at the step p.
LEMMA NextFields ==
    ASSUME AccountsInv, NEW c \in Caller, calls[c].pc # "idle", NEW i \in 0..10
    PROVE  /\ Advance(calls[c], i).o = calls[c].o /\ Advance(calls[c], i).acct = calls[c].acct
           /\ Advance(calls[c], i).new = calls[c].new
<1>1. calls[c] \in StRecord /\ Advance(calls[c], i) = [calls[c] EXCEPT !.pc = Advance(calls[c], i).pc]
  BY UnderWay, AdvanceType
<1> QED BY <1>1 DEF StRecord

LEMMA StillUnborn ==
    ASSUME AccountsInv, accounts' = accounts
    PROVE  \A d \in Caller : Unborn(calls[d]) => accounts'[calls[d].acct] = StNil
  BY DEF AccountsInv, Fresh

LEMMA SameTags ==
    ASSUME AccountsInv, stplan' = stplan, accounts' = accounts, UNCHANGED Tags
    PROVE  TagTypes' /\ TagsSound'
  BY TagsKept DEF AccountsInv, TagsSound

LEMMA MakeZoneKeeps ==
    ASSUME AccountsInv, NEW c \in Caller, createPrivateDNSZone(c)
    PROVE  AccountsInv'
<1>1. calls[c].pc = "makezone" /\ UNCHANGED <<stplan, accounts, link, fileCache, served, ncalls, Tags>>
  BY DEF createPrivateDNSZone, At
<1>2. PICK x \in StAnswer : zone' = (zone \/ x = "ok") /\ AfterStep(c, x) /\ StCounted(x)
  BY DEF createPrivateDNSZone
<1>3. calls[c] \in StRecord /\ StepNeeded(calls[c]) /\ SoFar(calls[c], accounts, zone, link)
  BY <1>1, UnderWay
<1>4. PICK q : q = Advance(calls[c], 2)
  OBVIOUS
<1>5. calls[c].o.endpoint = "yes"
  BY <1>1, <1>3 DEF StepNeeded
<1>6. q.pc = "link" /\ q.o = calls[c].o /\ q.acct = calls[c].acct /\ q.new = calls[c].new
  BY <1>1, <1>3, <1>4, <1>5, AdvancePrivate, NextFields
<1>7. Persists /\ TagTypes' /\ TagsSound'
  BY <1>1, <1>2, SamePersists, SameTags
<1>8. x = "ok" => /\ StepNeeded(q) /\ SoFar(q, accounts', zone', link')
                  /\ Unborn(q) => Unborn(calls[c]) /\ accounts'[q.acct] = StNil
  <2>1. StepNeeded(q)
    BY <1>1, <1>3, <1>5, <1>6 DEF StepNeeded, Lookups
  <2>2. x = "ok" => SoFar(q, accounts', zone', link')
    BY <1>1, <1>2, <1>3, <1>6 DEF SoFar, Lookups, Beyond
  <2>3. Unborn(q) => Unborn(calls[c])
    BY <1>1, <1>6 DEF Unborn, Lookups, Beyond
  <2> QED BY <1>1, <1>6, <2>1, <2>2, <2>3, StillUnborn
<1>9. Index("makezone") = 2 /\ q.pc \notin Lookups /\ calls[c].pc \notin {"idle"} \cup Lookups /\ zone' \in BOOLEAN
  BY <1>1, <1>2, <1>6, StepIndex DEF Lookups, AccountsInv, StTypes
<1>10. accounts' \in [Account -> AccountRecord \cup {StNil}] /\ fileCache' \in [Account -> Setting \cup {StNil}] /\ link' \in BOOLEAN
  BY <1>1 DEF AccountsInv, StTypes
<1> HIDE DEF Unborn, StepNeeded, SoFar
<1> QED BY <1>1, <1>2, <1>4, <1>7, <1>8, <1>9, <1>10, StillUnborn, StepTo

LEMMA MakeLinkKeeps ==
    ASSUME AccountsInv, NEW c \in Caller, createVNetLink(c)
    PROVE  AccountsInv'
<1>1. calls[c].pc = "makelink" /\ UNCHANGED <<stplan, accounts, zone, fileCache, served, ncalls, Tags>>
  BY DEF createVNetLink, At
<1>2. PICK x \in StAnswer : link' = (link \/ x = "ok") /\ AfterStep(c, x) /\ StCounted(x)
  BY DEF createVNetLink
<1>3. calls[c] \in StRecord /\ StepNeeded(calls[c]) /\ SoFar(calls[c], accounts, zone, link)
  BY <1>1, UnderWay
<1>4. PICK q : q = Advance(calls[c], 4)
  OBVIOUS
<1>5. calls[c].o.endpoint = "yes"
  BY <1>1, <1>3 DEF StepNeeded
<1>6. /\ q.pc = IF q.new THEN "create" ELSE "endpoint"
      /\ q.o = calls[c].o /\ q.acct = calls[c].acct /\ q.new = calls[c].new
  BY <1>1, <1>3, <1>4, <1>5, AdvancePrivate, NextFields
<1>7. Persists /\ TagTypes' /\ TagsSound'
  BY <1>1, <1>2, SamePersists, SameTags
<1>8. x = "ok" => /\ StepNeeded(q) /\ SoFar(q, accounts', zone', link')
                  /\ Unborn(q) => Unborn(calls[c]) /\ accounts'[q.acct] = StNil
  <2>1. StepNeeded(q)
    BY <1>1, <1>3, <1>5, <1>6 DEF StepNeeded, Lookups
  <2>2. x = "ok" => SoFar(q, accounts', zone', link')
    BY <1>1, <1>2, <1>3, <1>6 DEF SoFar, Lookups, Beyond
  <2>3. Unborn(q) => Unborn(calls[c])
    BY <1>1, <1>6 DEF Unborn, Lookups, Beyond
  <2> QED BY <1>1, <1>6, <2>1, <2>2, <2>3, StillUnborn
<1>9. Index("makelink") = 4 /\ q.pc \notin Lookups /\ calls[c].pc \notin {"idle"} \cup Lookups /\ link' \in BOOLEAN
  BY <1>1, <1>2, <1>6, StepIndex DEF Lookups, AccountsInv, StTypes
<1>10. accounts' \in [Account -> AccountRecord \cup {StNil}] /\ fileCache' \in [Account -> Setting \cup {StNil}] /\ zone' \in BOOLEAN
  BY <1>1 DEF AccountsInv, StTypes
<1> HIDE DEF Unborn, StepNeeded, SoFar
<1> QED BY <1>1, <1>2, <1>4, <1>7, <1>8, <1>9, <1>10, StillUnborn, StepTo

LEMMA FindLinkKeeps ==
    ASSUME AccountsInv, NEW c \in Caller, FindLink(c)
    PROVE  AccountsInv'
<1>1. calls[c].pc = "link" /\ UNCHANGED <<stplan, accounts, zone, link, fileCache, served, ncalls, Tags>>
  BY DEF FindLink, Find, At
<1>2. PICK x \in StAnswer : /\ IF x = "ok" /\ ~link THEN Move(c, [calls[c] EXCEPT !.pc = CallSteps[Index("link") + 1]])
                                                     ELSE AfterStep(c, x)
                            /\ StCounted(x)
  BY DEF FindLink, Find
<1>3. /\ calls[c] \in StRecord /\ StepNeeded(calls[c]) /\ SoFar(calls[c], accounts, zone, link)
  BY <1>1, UnderWay
<1>4. Index("link") = 3 /\ CallSteps[4] = "makelink" /\ CallSteps[4] \in {CallSteps[i] : i \in 1..Len(CallSteps)}
  BY StepIndex DEF CallSteps
<1>5. calls[c].o.endpoint = "yes"
  BY <1>1, <1>3 DEF StepNeeded
<1>6. calls[c].pc \notin {"idle"} \cup Lookups /\ Persists /\ TagTypes' /\ TagsSound'
  BY <1>1, SamePersists, SameTags DEF Lookups
<1>7. CASE x = "ok" /\ ~link
  <2>1. PICK r : r = [calls[c] EXCEPT !.pc = "makelink"]
    OBVIOUS
  <2>2. r \in StRecord /\ calls' = [calls EXCEPT ![c] = r] /\ r.pc = "makelink"
        /\ r.o = calls[c].o /\ r.acct = calls[c].acct /\ r.new = calls[c].new
    BY <1>2, <1>3, <1>4, <1>7, <2>1 DEF StRecord, Move
  <2>3. StepNeeded(r)
    BY <1>1, <1>3, <1>5, <2>2 DEF StepNeeded, Lookups
  <2>4. SoFar(r, accounts', zone', link')
    BY <1>1, <1>3, <2>2 DEF SoFar, Lookups, Beyond
  <2>5. Unborn(r) => Unborn(calls[c])
    BY <1>1, <2>2 DEF Unborn, Lookups, Beyond
  <2>6. StTypes'
    BY <1>1, <1>2, <2>2, CountedType, MovedType DEF AccountsInv, StTypes
  <2>7. r.pc \notin Lookups /\ r = [calls[c] EXCEPT !.pc = r.pc]
    BY <2>1, <2>2 DEF Lookups
  <2>8. \A d \in Caller : Unborn(calls[d]) => accounts'[calls[d].acct] = StNil
    BY <1>1, StillUnborn
  <2> HIDE DEF Unborn, StepNeeded, SoFar
  <2> QED BY <1>1, <1>6, <2>2, <2>3, <2>4, <2>5, <2>6, <2>7, <2>8, StepOn
<1>8. CASE ~(x = "ok" /\ ~link)
  <2>1. AfterStep(c, x)
    BY <1>2, <1>8
  <2>2. PICK q : q = Advance(calls[c], 3)
    OBVIOUS
  <2>3. /\ q.pc = IF q.new THEN "create" ELSE "endpoint"
        /\ q.o = calls[c].o /\ q.acct = calls[c].acct /\ q.new = calls[c].new
    BY <1>1, <1>3, <1>5, <2>2, AdvancePrivate, NextFields
  <2>4. StepNeeded(q)
    BY <1>1, <1>3, <1>5, <2>3 DEF StepNeeded, Lookups
  <2>5. x = "ok" => SoFar(q, accounts', zone', link')
    BY <1>1, <1>3, <1>8, <2>3 DEF SoFar, Lookups, Beyond
  <2>6. Unborn(q) => Unborn(calls[c]) /\ accounts'[q.acct] = StNil
    <3>1. Unborn(q) => Unborn(calls[c])
      BY <1>1, <2>3 DEF Unborn, Lookups, Beyond
    <3> QED BY <1>1, <2>3, <3>1, StillUnborn
  <2>7. q.pc \notin Lookups /\ zone' \in BOOLEAN /\ link' \in BOOLEAN
    BY <1>1, <2>3 DEF Lookups, AccountsInv, StTypes
  <2>8. accounts' \in [Account -> AccountRecord \cup {StNil}] /\ fileCache' \in [Account -> Setting \cup {StNil}]
    BY <1>1 DEF AccountsInv, StTypes
  <2> HIDE DEF Unborn, StepNeeded, SoFar
  <2> QED BY <1>1, <1>2, <1>4, <1>6, <2>1, <2>2, <2>4, <2>5, <2>6, <2>7, <2>8, StillUnborn, StepTo
<1> QED BY <1>7, <1>8

LEMMA GetFileKeeps ==
    ASSUME AccountsInv, NEW c \in Caller, GetFileProperties(c)
    PROVE  AccountsInv'
<1>1. calls[c].pc = "getfile" /\ UNCHANGED <<stplan, accounts, zone, link, served, ncalls, Tags>>
  BY DEF GetFileProperties, At
<1>2. PICK x \in StAnswer :
          /\ fileCache' = IF x = "ok" THEN [fileCache EXCEPT ![calls[c].acct] = calls[c].o.multi] ELSE fileCache
          /\ AfterStep(c, x) /\ StCounted(x)
  BY DEF GetFileProperties
<1>3. calls[c] \in StRecord /\ StepNeeded(calls[c]) /\ SoFar(calls[c], accounts, zone, link) /\ calls[c].o \in Option
  BY <1>1, UnderWay
<1>4. PICK q : q = Advance(calls[c], 7)
  OBVIOUS
<1>5. calls[c].new /\ FileAsked(calls[c].o)
  BY <1>1, <1>3 DEF StepNeeded
<1>6. q.pc = "setfile" /\ q.o = calls[c].o /\ q.acct = calls[c].acct /\ q.new = calls[c].new
  <2>1. q.pc = "setfile"
    BY <1>3, <1>4, <1>5, AdvanceNew
  <2>2. q.o = calls[c].o /\ q.acct = calls[c].acct /\ q.new = calls[c].new
    BY <1>1, <1>4, NextFields
  <2> QED BY <2>1, <2>2
<1>7. Persists /\ TagTypes' /\ TagsSound'
  BY <1>1, <1>2, SamePersists, SameTags
<1>8. StepNeeded(q) /\ SoFar(q, accounts', zone', link') /\ ~Unborn(q)
  <2>1. StepNeeded(q)
    BY <1>1, <1>3, <1>5, <1>6 DEF StepNeeded, Lookups
  <2>2. SoFar(q, accounts', zone', link')
    BY <1>1, <1>2, <1>3, <1>6 DEF SoFar, Lookups, Beyond
  <2>3. ~Unborn(q)
    BY <1>6 DEF Unborn, Beyond
  <2> QED BY <2>1, <2>2, <2>3
<1>9. Index("getfile") = 7 /\ q.pc \notin Lookups /\ calls[c].pc \notin {"idle"} \cup Lookups
  BY <1>1, <1>6, StepIndex DEF Lookups
<1>10. accounts' \in [Account -> AccountRecord \cup {StNil}] /\ zone' \in BOOLEAN /\ link' \in BOOLEAN
  BY <1>1 DEF AccountsInv, StTypes
<1>11. fileCache' \in [Account -> Setting \cup {StNil}]
  BY <1>2, <1>3 DEF AccountsInv, StTypes, Option
<1> HIDE DEF Unborn, StepNeeded, SoFar
<1> QED BY <1>1, <1>2, <1>4, <1>7, <1>8, <1>9, <1>10, <1>11, StillUnborn, StepTo

\* A step that writes made, which is no worse than the account was.
LEMMA WriteStep ==
    ASSUME AccountsInv, NEW c \in Caller, NEW i \in 5..10, Index(calls[c].pc) = i,
           calls[c].pc \notin {"idle"} \cup Lookups,
           NEW made \in AccountRecord, WriteAccount(c, calls[c].pc, made),
           Current(c) # StNil => /\ Lasting(Current(c), made)
                                 /\ calls[c].acct \notin Named => made.kind = Current(c).kind
                                 /\ calls[c].acct = stplan.tagged => made.tags = Current(c).tags,
           NEW q, q = Advance(calls[c], i), q.pc \in Beyond("create"), StepNeeded(q),
           NEW acc, acc = [accounts EXCEPT ![calls[c].acct] = made],
           SoFar(q, acc, zone, link)
    PROVE  AccountsInv'
<1>1. UNCHANGED <<stplan, zone, link, fileCache, served, ncalls, Tags>>
  BY DEF WriteAccount
<1>2. PICK x \in StAnswer :
          /\ accounts' = IF x = "ok" THEN acc ELSE accounts
          /\ AfterStep(c, x) /\ StCounted(x)
  BY DEF WriteAccount
<1>3. calls[c] \in StRecord /\ calls[c].acct \in Account
  BY UnderWay DEF StepNeeded
<1>4. accounts \in [Account -> AccountRecord \cup {StNil}] /\ acc \in [Account -> AccountRecord \cup {StNil}]
  BY <1>3 DEF AccountsInv, StTypes
<1>5. \A a \in Account : acc[a] = IF a = calls[c].acct THEN made ELSE accounts[a]
  BY <1>3, <1>4
<1>6. made # StNil
  BY StNilAssumption
<1>7. Persists
  <2>1. ASSUME NEW a \in Account, accounts[a] # StNil
        PROVE  /\ accounts'[a] # StNil /\ Lasting(accounts[a], accounts'[a])
               /\ a \notin Named => accounts'[a].kind = accounts[a].kind
    <3>1. Lasting(accounts[a], accounts[a])
      BY DEF Lasting
    <3>2. CASE accounts'[a] = accounts[a]
      BY <2>1, <3>1, <3>2
    <3>3. CASE accounts'[a] # accounts[a]
      <4>1. a = calls[c].acct /\ accounts'[a] = made /\ Current(c) = accounts[a]
        BY <1>2, <1>5, <3>3 DEF Current
      <4> QED BY <1>6, <2>1, <4>1
    <3> QED BY <3>2, <3>3
  <2> QED BY <1>1, <2>1 DEF Persists
<1>8. TagTypes' /\ TagsSound'
  <2>1. stplan.tagged # StNil => stplan.tagged \in Account /\ accounts[stplan.tagged] # StNil
    BY PlanTypes DEF AccountsInv, TagsSound
  <2>2. stplan.tagged # StNil => accounts'[stplan.tagged] # StNil /\ accounts'[stplan.tagged].tags = accounts[stplan.tagged].tags
    BY <1>2, <1>5, <1>6, <2>1 DEF Current
  <2> QED BY <1>1, <2>2, TagsKept
<1>9. \A d \in Caller \ {c} : Unborn(calls[d]) => accounts'[calls[d].acct] = StNil
  <2> SUFFICES ASSUME NEW d \in Caller \ {c}, Unborn(calls[d]) PROVE accounts'[calls[d].acct] = StNil
    OBVIOUS
  <2>1. accounts[calls[d].acct] = StNil /\ calls[c].acct # calls[d].acct
    BY DEF AccountsInv, Fresh
  <2>2. calls[d].acct \in Account
    BY UnderWay DEF Unborn, StepNeeded
  <2> QED BY <1>2, <1>5, <2>1, <2>2
<1>10. ~Unborn(q) /\ q.pc \notin Lookups
  BY DEF Unborn, Beyond, Lookups
<1>11. x = "ok" => /\ StepNeeded(q) /\ SoFar(q, accounts', zone', link')
                   /\ Unborn(q) => Unborn(calls[c]) /\ accounts'[q.acct] = StNil
  BY <1>1, <1>2, <1>10
<1>13. i \in 1..10
  OBVIOUS
<1>12. zone' \in BOOLEAN /\ link' \in BOOLEAN /\ fileCache' \in [Account -> Setting \cup {StNil}]
       /\ accounts' \in [Account -> AccountRecord \cup {StNil}]
  BY <1>1, <1>2, <1>4 DEF AccountsInv, StTypes
<1> HIDE DEF Unborn, StepNeeded, SoFar
<1> QED BY <1>1, <1>2, <1>7, <1>8, <1>9, <1>10, <1>11, <1>12, <1>13, StepTo

LEMMA CreateKeeps ==
    ASSUME AccountsInv, NEW c \in Caller, CreateAccount(c)
    PROVE  AccountsInv'
<1> DEFINE o == calls[c].o
<1>0. PICK made : made = Created(o, Current(c))
  OBVIOUS
<1>1. calls[c].pc = "create" /\ WriteAccount(c, calls[c].pc, made)
  BY <1>0 DEF CreateAccount, WriteAccount, At
<1>2. /\ calls[c] \in StRecord /\ StepNeeded(calls[c]) /\ SoFar(calls[c], accounts, zone, link)
      /\ o \in Option /\ o \in Wishes(stplan) /\ calls[c].new /\ calls[c].acct \in Account
      /\ calls[c].pc \notin {"idle"} \cup Lookups
  BY <1>1, UnderWay DEF StepNeeded, Lookups
<1>3. Current(c) \in AccountRecord \cup {StNil}
  BY <1>2 DEF Current, AccountsInv, StTypes
<1>4. o.name = StNil => Current(c) = StNil
  <2>1. o.name = StNil => Unborn(calls[c])
    BY <1>1, <1>2 DEF Unborn, Lookups, Beyond
  <2> QED BY <2>1 DEF Current, AccountsInv, Fresh
<1>5. o.name # StNil => /\ o.create /\ calls[c].acct = o.name /\ o.name \in Named /\ o.kind = 0 /\ ~o.soft /\ o.keep # "off"
                        /\ \A q \in Wishes(stplan) : q.kind # 2
                        /\ stplan.tagged # StNil => o.name # stplan.tagged
  BY <1>2 DEF StepNeeded, AccountsInv, Compatible, Option
<1>6. /\ made \in AccountRecord /\ made.kind = KindOf(o) /\ made.tags = {"driver"}
      /\ Current(c) # StNil => /\ made.soft = Current(c).soft /\ made.keep = Current(c).keep
                               /\ made.endpoint = Current(c).endpoint /\ made.group = Current(c).group
      /\ Current(c) = StNil => made.keep = "unset" /\ ~made.endpoint
  <2>1. CASE Current(c) = StNil
    BY <1>0, <1>2, <2>1 DEF Created, KindOf, AccountRecord, Option, Setting
  <2>2. CASE Current(c) # StNil
    <3>1. KindOf(o) \in 1..2 /\ {"driver"} \in SUBSET (Tagger \cup {"skip", "driver"}) /\ Current(c) \in AccountRecord
      BY <1>2, <1>3, <2>2 DEF KindOf, Option
    <3>2. made = [Current(c) EXCEPT !.kind = KindOf(o), !.tags = {"driver"}]
      BY <1>0, <2>2 DEF Created, KindOf
    <3> QED BY <2>2, <3>1, <3>2 DEF AccountRecord
  <2> QED BY <2>1, <2>2
<1>7. Current(c) # StNil => /\ Lasting(Current(c), made)
                            /\ calls[c].acct \notin Named => made.kind = Current(c).kind
                            /\ calls[c].acct = stplan.tagged => made.tags = Current(c).tags
  <2> SUFFICES ASSUME Current(c) # StNil
               PROVE  Lasting(Current(c), made) /\ calls[c].acct \in Named /\ calls[c].acct # stplan.tagged
    OBVIOUS
  <2>1. o.name # StNil
    BY <1>4
  <2>2. \A q \in Wishes(stplan) : q.kind \in {0, 1}
    BY <1>5, <2>1, PlanTypes DEF Option
  <2>3. made.kind = 1
    BY <1>5, <1>6, <2>1 DEF KindOf
  <2>4. Lasting(Current(c), made)
    BY <1>6, <2>2, <2>3 DEF Lasting
  <2> QED BY <1>2, <1>5, <2>1, <2>4
<1>8. PICK q : q = Advance(calls[c], 5)
  OBVIOUS
<1>9. /\ q.pc = IF o.soft THEN "blob" ELSE AfterCreation(calls[c])
      /\ q.o = o /\ q.acct = calls[c].acct /\ q.new = calls[c].new
  <2>1. q.pc = IF o.soft THEN "blob" ELSE AfterCreation(calls[c])
    BY <1>2, <1>8, AdvanceNew
  <2>2. q.o = o /\ q.acct = calls[c].acct /\ q.new = calls[c].new
    BY <1>1, <1>8, NextFields
  <2> QED BY <2>1, <2>2
<1>10. /\ q.pc \in {"blob", "getfile", "endpoint", "key"}
       /\ q.pc = "blob" => o.soft
       /\ q.pc # "blob" => ~o.soft
       /\ q.pc = "getfile" => FileAsked(o)
       /\ q.pc \in {"endpoint", "key"} => ~FileAsked(o)
       /\ q.pc = "endpoint" => o.endpoint = "yes"
       /\ q.pc = "key" => o.endpoint # "yes"
  BY <1>2, <1>9 DEF AfterCreation, Option
<1>11. StepNeeded(q)
  BY <1>2, <1>9, <1>10 DEF StepNeeded, Lookups
<1>12. PICK acc : acc = [accounts EXCEPT ![calls[c].acct] = made]
  OBVIOUS
<1>13. acc[q.acct] = made /\ made # StNil
  BY <1>2, <1>6, <1>9, <1>12, StNilAssumption DEF AccountsInv, StTypes
<1>14. (o.endpoint = "yes" => zone /\ link)
  BY <1>1, <1>2 DEF SoFar, Lookups, Beyond
<1>15. o.name = StNil => Suits(o, made)
  BY <1>4, <1>6 DEF Suits, Shown, KindOf
<1>16. SoFar(q, acc, zone, link)
  BY <1>2, <1>5, <1>6, <1>9, <1>10, <1>13, <1>14, <1>15 DEF SoFar, Lookups, Beyond, FileAsked
<1>17. Index(calls[c].pc) = 5 /\ q.pc \in Beyond("create")
  BY <1>1, <1>10, StepIndex DEF Beyond
<1>18. PICK i \in 5..10 : i = 5
  OBVIOUS
<1>19. Index(calls[c].pc) = i /\ q = Advance(calls[c], i) /\ made \in AccountRecord
  BY <1>6, <1>8, <1>17, <1>18
<1> QED BY <1>1, <1>2, <1>7, <1>11, <1>12, <1>16, <1>17, <1>18, <1>19, WriteStep

LEMMA BlobKeeps ==
    ASSUME AccountsInv, NEW c \in Caller, SetBlobProperties(c)
    PROVE  AccountsInv'
<1> DEFINE o == calls[c].o
<1>0. PICK made : made = [Current(c) EXCEPT !.soft = TRUE]
  OBVIOUS
<1>1. calls[c].pc = "blob" /\ WriteAccount(c, calls[c].pc, made)
  BY <1>0 DEF SetBlobProperties, WriteAccount, At
<1>2. /\ calls[c] \in StRecord /\ StepNeeded(calls[c]) /\ SoFar(calls[c], accounts, zone, link)
      /\ o \in Option /\ calls[c].new /\ calls[c].acct \in Account
      /\ calls[c].pc \notin {"idle"} \cup Lookups
  BY <1>1, UnderWay DEF StepNeeded, Lookups
<1>3. Current(c) \in AccountRecord /\ Current(c) = accounts[calls[c].acct]
  BY <1>1, <1>2 DEF SoFar, Lookups, Beyond, Current, AccountsInv, StTypes
<1>4. /\ made \in AccountRecord /\ made.soft /\ made.kind = Current(c).kind /\ made.tags = Current(c).tags
      /\ made.keep = Current(c).keep /\ made.endpoint = Current(c).endpoint /\ made.group = Current(c).group
  BY <1>0, <1>3 DEF AccountRecord
<1>5. Lasting(Current(c), made)
  BY <1>4 DEF Lasting
<1>6. PICK q : q = Advance(calls[c], 6)
  OBVIOUS
<1>7. q.pc = AfterCreation(calls[c]) /\ q.o = o /\ q.acct = calls[c].acct /\ q.new = calls[c].new
  <2>1. q.pc = AfterCreation(calls[c])
    BY <1>2, <1>6, AdvanceNew
  <2>2. q.o = o /\ q.acct = calls[c].acct /\ q.new = calls[c].new
    BY <1>1, <1>6, NextFields
  <2> QED BY <2>1, <2>2
<1>8. /\ q.pc \in {"getfile", "endpoint", "key"}
      /\ q.pc = "getfile" => FileAsked(o)
      /\ q.pc \in {"endpoint", "key"} => ~FileAsked(o)
      /\ q.pc = "endpoint" => o.endpoint = "yes"
      /\ q.pc = "key" => o.endpoint # "yes"
  BY <1>2, <1>7 DEF AfterCreation
<1>9. StepNeeded(q)
  BY <1>2, <1>7, <1>8 DEF StepNeeded, Lookups
<1>10. PICK acc : acc = [accounts EXCEPT ![calls[c].acct] = made]
  OBVIOUS
<1>11. acc[q.acct] = made /\ made # StNil
  BY <1>2, <1>4, <1>7, <1>10, StNilAssumption DEF AccountsInv, StTypes
<1>12. (o.endpoint = "yes" => zone /\ link) /\ (o.name = StNil => Suits(o, Current(c)) /\ Current(c).kind = KindOf(o))
  BY <1>1, <1>2, <1>3 DEF SoFar, Lookups, Beyond
<1>13. o.name = StNil => Suits(o, made)
  BY <1>4, <1>12 DEF Suits, Shown
<1>14. SoFar(q, acc, zone, link)
  BY <1>2, <1>4, <1>7, <1>8, <1>11, <1>12, <1>13 DEF SoFar, Lookups, Beyond, FileAsked
<1>15. Index(calls[c].pc) = 6 /\ q.pc \in Beyond("create")
  BY <1>1, <1>8, StepIndex DEF Beyond
<1>16. PICK i \in 5..10 : i = 6
  OBVIOUS
<1>17. Index(calls[c].pc) = i /\ q = Advance(calls[c], i) /\ made \in AccountRecord
  BY <1>4, <1>6, <1>15, <1>16
<1>18. Current(c) # StNil => /\ Lasting(Current(c), made)
                             /\ calls[c].acct \notin Named => made.kind = Current(c).kind
                             /\ calls[c].acct = stplan.tagged => made.tags = Current(c).tags
  BY <1>4, <1>5
<1> QED BY <1>1, <1>2, <1>9, <1>10, <1>14, <1>15, <1>16, <1>17, <1>18, WriteStep

\* Two callers who may share an account do not disagree on it.
LEMMA NoClash ==
    ASSUME AccountsInv, NEW o \in Wishes(stplan), NEW q \in Wishes(stplan), o.name # StNil \/ q.kind \in {0, KindOf(o)}
    PROVE  /\ ~(o.endpoint = "yes" /\ q.endpoint = "no")
           /\ ~(o.keep = "on" /\ q.keep = "off") /\ ~(o.keep = "off" /\ q.keep = "on")
  BY DEF AccountsInv, Compatible

LEMMA SetFileKeeps ==
    ASSUME AccountsInv, NEW c \in Caller, SetFileProperties(c)
    PROVE  AccountsInv'
<1> DEFINE o == calls[c].o
<1>0. PICK made : made = [Current(c) EXCEPT !.multi = IF o.multi = "unset" THEN @ ELSE o.multi,
                                          !.keep = IF o.keep = "unset" THEN @ ELSE o.keep]
  OBVIOUS
<1>1. calls[c].pc = "setfile" /\ WriteAccount(c, calls[c].pc, made)
  BY <1>0 DEF SetFileProperties, WriteAccount, At
<1>2. /\ calls[c] \in StRecord /\ StepNeeded(calls[c]) /\ SoFar(calls[c], accounts, zone, link)
      /\ o \in Option /\ o \in Wishes(stplan) /\ calls[c].new /\ calls[c].acct \in Account
      /\ calls[c].pc \notin {"idle"} \cup Lookups
  BY <1>1, UnderWay DEF StepNeeded, Lookups
<1>3. Current(c) \in AccountRecord /\ Current(c) = accounts[calls[c].acct]
  BY <1>1, <1>2 DEF SoFar, Lookups, Beyond, Current, AccountsInv, StTypes
<1>4. /\ made \in AccountRecord /\ made.soft = Current(c).soft /\ made.kind = Current(c).kind /\ made.tags = Current(c).tags
      /\ made.keep = (IF o.keep = "unset" THEN Current(c).keep ELSE o.keep)
      /\ made.endpoint = Current(c).endpoint /\ made.group = Current(c).group
  BY <1>0, <1>2, <1>3 DEF AccountRecord, Option
<1>5. /\ o.endpoint = "yes" => zone /\ link
      /\ o.name = StNil => Suits(o, Current(c)) /\ Current(c).kind = KindOf(o)
      /\ o.soft => Current(c).soft
  BY <1>1, <1>2, <1>3 DEF SoFar, Lookups, Beyond
<1>6. Lasting(Current(c), made)
  <2>1. ASSUME NEW w \in Wishes(stplan), w.kind \in {0, Current(c).kind}
        PROVE  ~(o.keep = "on" /\ w.keep = "off") /\ ~(o.keep = "off" /\ w.keep = "on")
    <3>1. o.name # StNil \/ w.kind \in {0, KindOf(o)}
      BY <1>5, <2>1
    <3> QED BY <1>2, <3>1, NoClash
  <2>2. o.keep \in {"unset", "on", "off"}
    BY <1>2 DEF Option, Setting
  <2> QED BY <1>4, <2>1, <2>2 DEF Lasting
<1>7. PICK q : q = Advance(calls[c], 8)
  OBVIOUS
<1>8. /\ q.pc = IF o.endpoint = "yes" THEN "endpoint" ELSE "key"
      /\ q.o = o /\ q.acct = calls[c].acct /\ q.new = calls[c].new
  <2>1. q.pc = IF o.endpoint = "yes" THEN "endpoint" ELSE "key"
    BY <1>2, <1>7, AdvanceNew
  <2>2. q.o = o /\ q.acct = calls[c].acct /\ q.new = calls[c].new
    BY <1>1, <1>7, NextFields
  <2> QED BY <2>1, <2>2
<1>9. StepNeeded(q)
  BY <1>2, <1>8 DEF StepNeeded, Lookups
<1>10. PICK acc : acc = [accounts EXCEPT ![calls[c].acct] = made]
  OBVIOUS
<1>11. acc[q.acct] = made /\ made # StNil
  BY <1>2, <1>4, <1>8, <1>10, StNilAssumption DEF AccountsInv, StTypes
<1>12. o.name = StNil => Suits(o, made)
  BY <1>4, <1>5 DEF Suits, Shown
<1>13. SoFar(q, acc, zone, link)
  BY <1>2, <1>4, <1>5, <1>8, <1>11, <1>12 DEF SoFar, Lookups, Beyond
<1>14. Index(calls[c].pc) = 8 /\ q.pc \in Beyond("create")
  BY <1>1, <1>8, StepIndex DEF Beyond
<1>15. PICK i \in 5..10 : i = 8
  OBVIOUS
<1>16. Index(calls[c].pc) = i /\ q = Advance(calls[c], i) /\ made \in AccountRecord
  BY <1>4, <1>7, <1>14, <1>15
<1>17. Current(c) # StNil => /\ Lasting(Current(c), made)
                             /\ calls[c].acct \notin Named => made.kind = Current(c).kind
                             /\ calls[c].acct = stplan.tagged => made.tags = Current(c).tags
  BY <1>4, <1>6
<1> QED BY <1>1, <1>2, <1>9, <1>10, <1>13, <1>14, <1>15, <1>16, <1>17, WriteStep

\* A call that ends without having done anything else.
LEMMA EndKeeps ==
    ASSUME AccountsInv, NEW c \in Caller, calls' = [calls EXCEPT ![c] = Waiting],
           UNCHANGED <<stplan, accounts, zone, link, served, Tags>>,
           fileCache' \in [Account -> Setting \cup {StNil}],
           stfaults' \in 0..stplan.faults, ncalls' \in 0..MaxStCalls
    PROVE  AccountsInv'
<1>1. PICK r \in StRecord \cup {Waiting} : r = Waiting
  OBVIOUS
<1>2. r.pc = "idle" /\ ~Unborn(r) /\ calls' = [calls EXCEPT ![c] = r]
  BY <1>1 DEF Waiting, Unborn
<1>3. CallSound(r, stplan.asks[c], accounts', zone', link', served')
  BY <1>2 DEF CallSound
<1>4. Persists /\ TagTypes' /\ TagsSound'
  BY SamePersists, SameTags
<1>5. StTypes'
  BY <1>2, MovedType DEF AccountsInv, StTypes
<1>6. \A d \in Caller \ {c} : Unborn(calls[d]) =>
         accounts'[calls[d].acct] = StNil /\ (r.pc # "idle" => r.acct # calls[d].acct)
  BY <1>2, StillUnborn
<1> QED BY <1>2, <1>3, <1>4, <1>5, <1>6, Onward

LEMMA EndpointKeeps ==
    ASSUME AccountsInv, NEW c \in Caller, createPrivateEndpoint(c)
    PROVE  AccountsInv'
<1> DEFINE o == calls[c].o
<1>a. CASE At(c, "endpoint") /\ accounts[calls[c].acct] = StNil
  <2>1. calls' = [calls EXCEPT ![c] = Waiting] /\ UNCHANGED <<stplan, accounts, zone, link, fileCache, served, stfaults, ncalls, Tags>>
    BY <1>a DEF createPrivateEndpoint, Move
  <2>2. fileCache' \in [Account -> Setting \cup {StNil}] /\ stfaults' \in 0..stplan.faults /\ ncalls' \in 0..MaxStCalls
    BY <2>1 DEF AccountsInv, StTypes
  <2> QED BY <2>1, <2>2, EndKeeps
<1>b. CASE ~(At(c, "endpoint") /\ accounts[calls[c].acct] = StNil)
  <2>0. PICK made : made = [Current(c) EXCEPT !.endpoint = TRUE]
    OBVIOUS
  <2>1. calls[c].pc = "endpoint" /\ WriteAccount(c, calls[c].pc, made)
    BY <1>b, <2>0 DEF createPrivateEndpoint, WriteAccount, At
  <2>2. /\ calls[c] \in StRecord /\ StepNeeded(calls[c]) /\ SoFar(calls[c], accounts, zone, link)
        /\ o \in Option /\ o \in Wishes(stplan) /\ o.endpoint = "yes" /\ calls[c].acct \in Account
        /\ calls[c].pc \notin {"idle"} \cup Lookups
    BY <2>1, UnderWay DEF StepNeeded, Lookups
  <2>3. Current(c) \in AccountRecord /\ Current(c) = accounts[calls[c].acct]
    BY <1>b, <2>1, <2>2 DEF At, Current, AccountsInv, StTypes
  <2>4. /\ made \in AccountRecord /\ made.soft = Current(c).soft /\ made.kind = Current(c).kind /\ made.tags = Current(c).tags
        /\ made.keep = Current(c).keep /\ made.endpoint /\ made.group = Current(c).group
    BY <2>0, <2>3 DEF AccountRecord
  <2>5. /\ zone /\ link
        /\ o.name = StNil => Suits(o, Current(c))
        /\ o.name = StNil /\ calls[c].new => Current(c).kind = KindOf(o)
        /\ o.name = StNil /\ ~calls[c].new => Current(c).endpoint
        /\ o.soft /\ (calls[c].new \/ o.name = StNil) => Current(c).soft
        /\ o.keep = "off" /\ (calls[c].new \/ o.name = StNil) => Current(c).keep = "off"
    BY <2>1, <2>2, <2>3 DEF SoFar, Lookups, Beyond
  <2>6. Lasting(Current(c), made)
    <3>1. ASSUME NEW w \in Wishes(stplan), w.kind \in {0, Current(c).kind}, w.endpoint = "no", ~Current(c).endpoint
          PROVE  FALSE
      <4>1. o.name # StNil \/ w.kind \in {0, KindOf(o)}
        BY <2>5, <3>1
      <4> QED BY <2>2, <3>1, <4>1, NoClash
    <3> QED BY <2>4, <3>1 DEF Lasting
  <2>7. PICK q : q = Advance(calls[c], 9)
    OBVIOUS
  <2>8. /\ q.pc = "group" /\ q.o = o /\ q.acct = calls[c].acct /\ q.new = calls[c].new
    <3>1. q.pc = "group"
      BY <2>2, <2>7, AdvancePrivate
    <3>2. q.o = o /\ q.acct = calls[c].acct /\ q.new = calls[c].new
      BY <2>1, <2>7, NextFields
    <3> QED BY <3>1, <3>2
  <2>9. StepNeeded(q)
    BY <2>2, <2>8 DEF StepNeeded, Lookups
  <2>10. PICK acc : acc = [accounts EXCEPT ![calls[c].acct] = made]
    OBVIOUS
  <2>11. acc[q.acct] = made /\ made # StNil
    BY <2>2, <2>4, <2>8, <2>10, StNilAssumption DEF AccountsInv, StTypes
  <2>12. o.name = StNil => Suits(o, made)
    BY <2>2, <2>4, <2>5 DEF Suits, Shown
  <2>13. SoFar(q, acc, zone, link)
    BY <2>2, <2>4, <2>5, <2>8, <2>11, <2>12 DEF SoFar, Lookups, Beyond
  <2>14. Index(calls[c].pc) = 9 /\ q.pc \in Beyond("create")
    BY <2>1, <2>8, StepIndex DEF Beyond
  <2>15. PICK i \in 5..10 : i = 9
    OBVIOUS
  <2>16. Index(calls[c].pc) = i /\ q = Advance(calls[c], i) /\ made \in AccountRecord
    BY <2>4, <2>7, <2>14, <2>15
  <2>17. Current(c) # StNil => /\ Lasting(Current(c), made)
                               /\ calls[c].acct \notin Named => made.kind = Current(c).kind
                               /\ calls[c].acct = stplan.tagged => made.tags = Current(c).tags
    BY <2>4, <2>6
  <2> QED BY <2>1, <2>2, <2>9, <2>10, <2>13, <2>14, <2>15, <2>16, <2>17, WriteStep
<1> QED BY <1>a, <1>b

LEMMA GroupKeeps ==
    ASSUME AccountsInv, NEW c \in Caller, createPrivateDNSZoneGroup(c)
    PROVE  AccountsInv'
<1> DEFINE o == calls[c].o
<1>0. PICK made : made = [Current(c) EXCEPT !.group = TRUE]
  OBVIOUS
<1>1. calls[c].pc = "group" /\ WriteAccount(c, calls[c].pc, made)
  BY <1>0 DEF createPrivateDNSZoneGroup, WriteAccount, At
<1>2. /\ calls[c] \in StRecord /\ StepNeeded(calls[c]) /\ SoFar(calls[c], accounts, zone, link)
      /\ o \in Option /\ o.endpoint = "yes" /\ calls[c].acct \in Account
      /\ calls[c].pc \notin {"idle"} \cup Lookups
  BY <1>1, UnderWay DEF StepNeeded, Lookups
<1>3. Current(c) \in AccountRecord /\ Current(c) = accounts[calls[c].acct]
  BY <1>1, <1>2 DEF SoFar, Lookups, Current, AccountsInv, StTypes
<1>4. /\ made \in AccountRecord /\ made.soft = Current(c).soft /\ made.kind = Current(c).kind /\ made.tags = Current(c).tags
      /\ made.keep = Current(c).keep /\ made.endpoint = Current(c).endpoint /\ made.group
  BY <1>0, <1>3 DEF AccountRecord
<1>5. /\ zone /\ link /\ Current(c).endpoint
      /\ o.name = StNil => Suits(o, Current(c))
      /\ o.name = StNil /\ calls[c].new => Current(c).kind = KindOf(o)
      /\ o.soft /\ (calls[c].new \/ o.name = StNil) => Current(c).soft
      /\ o.keep = "off" /\ (calls[c].new \/ o.name = StNil) => Current(c).keep = "off"
  BY <1>1, <1>2, <1>3 DEF SoFar, Lookups, Beyond
<1>6. Lasting(Current(c), made)
  BY <1>4 DEF Lasting
<1>7. PICK q : q = Advance(calls[c], 10)
  OBVIOUS
<1>8. /\ q.pc = "key" /\ q.o = o /\ q.acct = calls[c].acct /\ q.new = calls[c].new
  <2>1. q.pc = "key"
    BY <1>2, <1>7, AdvancePrivate
  <2>2. q.o = o /\ q.acct = calls[c].acct /\ q.new = calls[c].new
    BY <1>1, <1>7, NextFields
  <2> QED BY <2>1, <2>2
<1>9. StepNeeded(q)
  BY <1>2, <1>8 DEF StepNeeded, Lookups
<1>10. PICK acc : acc = [accounts EXCEPT ![calls[c].acct] = made]
  OBVIOUS
<1>11. acc[q.acct] = made /\ made # StNil
  BY <1>2, <1>4, <1>8, <1>10, StNilAssumption DEF AccountsInv, StTypes
<1>12. o.name = StNil => Suits(o, made)
  BY <1>4, <1>5 DEF Suits, Shown
<1>13. SoFar(q, acc, zone, link)
  BY <1>2, <1>4, <1>5, <1>8, <1>11, <1>12 DEF SoFar, Lookups, Beyond
<1>14. Index(calls[c].pc) = 10 /\ q.pc \in Beyond("create")
  BY <1>1, <1>8, StepIndex DEF Beyond
<1>15. PICK i \in 5..10 : i = 10
  OBVIOUS
<1>16. Index(calls[c].pc) = i /\ q = Advance(calls[c], i) /\ made \in AccountRecord
  BY <1>4, <1>7, <1>14, <1>15
<1>17. Current(c) # StNil => /\ Lasting(Current(c), made)
                             /\ calls[c].acct \notin Named => made.kind = Current(c).kind
                             /\ calls[c].acct = stplan.tagged => made.tags = Current(c).tags
  BY <1>4, <1>6
<1> QED BY <1>1, <1>2, <1>9, <1>10, <1>13, <1>14, <1>15, <1>16, <1>17, WriteStep

LEMMA KeyKeeps ==
    ASSUME AccountsInv, NEW c \in Caller, GetStorageAccesskey(c)
    PROVE  AccountsInv'
<1> DEFINE o == calls[c].o
           a == calls[c].acct
<1>1. /\ calls[c].pc = "key" /\ UNCHANGED <<stplan, accounts, zone, link, fileCache, ncalls, Tags>>
      /\ calls' = [calls EXCEPT ![c] = Waiting]
  BY DEF GetStorageAccesskey, At, Move
<1>2. PICK x \in StAnswer :
          /\ served' = IF x = "ok" /\ accounts[a] # StNil THEN served \cup {[o |-> o, a |-> a]} ELSE served
          /\ StCounted(x)
  BY DEF GetStorageAccesskey
<1>3. /\ calls[c] \in StRecord /\ StepNeeded(calls[c]) /\ SoFar(calls[c], accounts, zone, link)
      /\ o \in Option /\ o \in Wishes(stplan) /\ a \in Account
  BY <1>1, UnderWay DEF StepNeeded, Lookups
<1>4. Persists /\ TagTypes' /\ TagsSound' /\ served \subseteq served'
  BY <1>1, <1>2, SamePersists, SameTags
<1>5. CASE served' = served
  <2>1. fileCache' \in [Account -> Setting \cup {StNil}] /\ stfaults' \in 0..stplan.faults /\ ncalls' \in 0..MaxStCalls
    BY <1>1, <1>2, CountedType DEF AccountsInv, StTypes
  <2> QED BY <1>1, <1>5, <2>1, EndKeeps
<1>6. CASE served' # served
  <2>1. accounts[a] # StNil /\ served' = served \cup {[o |-> o, a |-> a]}
    BY <1>2, <1>6
  <2>2. StTypes'
    <3>1. calls' \in [Caller -> StRecord \cup {Waiting}]
      BY <1>1 DEF AccountsInv, StTypes
    <3>2. served' \subseteq [o : Option, a : Account]
      BY <1>3, <2>1 DEF AccountsInv, StTypes
    <3> QED BY <1>1, <1>2, <3>1, <3>2, CountedType DEF AccountsInv, StTypes
  <2>3. CallsSoFar'
    <3> SUFFICES ASSUME NEW d \in Caller
                 PROVE  CallSound(calls'[d], stplan'.asks[d], accounts', zone', link', served')
      BY DEF CallsSoFar
    <3>1. calls'[d] = IF d = c THEN Waiting ELSE calls[d]
      BY <1>1 DEF AccountsInv, StTypes
    <3>2. CASE d = c
      BY <3>1, <3>2 DEF CallSound, Waiting
    <3>3. CASE d # c
      <4>1. CallSound(calls[d], stplan.asks[d], accounts, zone, link, served) /\ calls[d] \in StRecord \cup {Waiting}
        BY DEF AccountsInv, CallsSoFar, StTypes
      <4>2. CallSound(calls[d], stplan.asks[d], accounts', zone', link', served')
        BY <1>4, <4>1, CallKept
      <4> QED BY <1>1, <3>1, <3>3, <4>2
    <3> QED BY <3>2, <3>3
  <2>4. Fresh'
    <3>1. \A d \in Caller : calls'[d] = IF d = c THEN Waiting ELSE calls[d]
      BY <1>1 DEF AccountsInv, StTypes
    <3>2. ~Unborn(Waiting) /\ Waiting.pc = "idle"
      BY DEF Unborn, Waiting
    <3> SUFFICES ASSUME NEW d \in Caller, Unborn(calls'[d])
                 PROVE  /\ accounts'[calls'[d].acct] = StNil
                        /\ \A e \in Caller \ {d} : calls'[e].pc # "idle" => calls'[e].acct # calls'[d].acct
      BY DEF Fresh
    <3>3. d # c /\ calls'[d] = calls[d]
      BY <3>1, <3>2
    <3>4. /\ accounts[calls[d].acct] = StNil
          /\ \A e \in Caller \ {d} : calls[e].pc # "idle" => calls[e].acct # calls[d].acct
      BY <3>3 DEF AccountsInv, Fresh
    <3> QED BY <1>1, <3>1, <3>2, <3>3, <3>4
  <2>5. ServedSound'
    <3>1. o.name # StNil => o.kind = 0 /\ ~o.soft /\ o.keep # "off"
      BY <1>3 DEF AccountsInv, Compatible
    <3>2. /\ o.name = StNil => Suits(o, accounts[a])
          /\ o.soft => accounts[a].soft
          /\ o.keep = "off" => accounts[a].keep = "off"
          /\ o.endpoint = "yes" => zone /\ link /\ accounts[a].endpoint /\ accounts[a].group
      BY <1>1, <1>3, <3>1 DEF SoFar, Lookups, Beyond
    <3>3. o.kind \in {0, accounts[a].kind}
      BY <3>1, <3>2 DEF Suits, Shown
    <3> SUFFICES ASSUME NEW x1 \in served'
                 PROVE  /\ x1.o.kind \in {0, accounts'[x1.a].kind}
                        /\ x1.o.soft => accounts'[x1.a].soft
                        /\ x1.o.keep = "off" => accounts'[x1.a].keep = "off"
                        /\ x1.o.endpoint = "yes" => zone' /\ link' /\ accounts'[x1.a].endpoint /\ accounts'[x1.a].group
                        /\ x1.o \in Wishes(stplan') /\ accounts'[x1.a] # StNil
                        /\ x1.o.name = StNil => Suits(x1.o, accounts'[x1.a])
      BY DEF ServedSound, ReturnedAsAsked
    <3>4. CASE x1 \in served
      BY <1>1, <3>4 DEF AccountsInv, ServedSound, ReturnedAsAsked
    <3>5. CASE x1 \notin served
      <4>1. x1.o = o /\ x1.a = a
        BY <2>1, <3>5
      <4> QED BY <1>1, <1>3, <2>1, <3>2, <3>3, <4>1
    <3> QED BY <3>4, <3>5
  <2>6. Compatible(stplan')
    BY <1>1 DEF AccountsInv
  <2> QED BY <1>4, <2>2, <2>3, <2>4, <2>5, <2>6 DEF AccountsInv
<1> QED BY <1>5, <1>6

\* A call that begins, or whose look-up is done, goes on with r.
LEMMA BeginStep ==
    ASSUME AccountsInv, NEW c \in Caller, NEW r \in StRecord, calls' = [calls EXCEPT ![c] = r],
           UNCHANGED <<stplan, accounts, zone, link, served, Tags>>,
           fileCache' \in [Account -> Setting \cup {StNil}],
           stfaults' \in 0..stplan.faults, ncalls' \in 0..MaxStCalls,
           r.o \in stplan.asks[c], StepNeeded(r), SoFar(r, accounts, zone, link), KnownSound(r, served),
           r.pc = "match" => CandSound(r, accounts),
           \/ r.acct \in Named \cup {StNil}
           \/ accounts[r.acct] # StNil
           \/ r.acct \in Unmade,
           Unborn(r) => r.acct \in Unmade
    PROVE  AccountsInv'
<1>1. Persists /\ TagTypes' /\ TagsSound'
  BY SamePersists, SameTags
<1>2. StTypes'
  BY MovedType DEF AccountsInv, StTypes
<1>3. CallSound(r, stplan.asks[c], accounts', zone', link', served')
  BY DEF CallSound
<1>4. \A d \in Caller \ {c} : Unborn(calls[d]) =>
         accounts'[calls[d].acct] = StNil /\ (r.pc # "idle" => r.acct # calls[d].acct)
  <2> SUFFICES ASSUME NEW d \in Caller \ {c}, Unborn(calls[d])
               PROVE  accounts[calls[d].acct] = StNil /\ r.acct # calls[d].acct
    OBVIOUS
  <2>1. accounts[calls[d].acct] = StNil
    BY DEF AccountsInv, Fresh
  <2>2. calls[d].pc # "idle" /\ calls[d].acct \in Account /\ calls[d].acct \notin Named
    BY UnderWay DEF Unborn, StepNeeded
  <2>3. calls[d].acct \notin Unmade
    BY <2>2 DEF Unmade, At
  <2> QED BY <2>1, <2>2, <2>3, StNilAssumption
<1>5. Unborn(r) => /\ accounts'[r.acct] = StNil
                   /\ \A d \in Caller \ {c} : calls[d].pc # "idle" => calls[d].acct # r.acct
  BY DEF Unmade, At
<1> QED BY <1>1, <1>2, <1>3, <1>4, <1>5, Onward

\* The first step of a call on an account that was chosen.
LEMMA FirstStep ==
    ASSUME AccountsInv, NEW r \in StRecord, r.o \in Wishes(stplan), r.acct \in Account,
           r.o.name # StNil => r.acct = r.o.name,
           r.new /\ r.o.name # StNil => r.o.create,
           r.new /\ r.o.name = StNil => r.acct \notin Named,
           ~r.new /\ r.o.name = StNil =>
               /\ accounts[r.acct] # StNil /\ Suits(r.o, accounts[r.acct])
               /\ r.o.soft => accounts[r.acct].soft
               /\ r.o.keep = "off" => accounts[r.acct].keep = "off"
               /\ r.o.endpoint = "yes" => accounts[r.acct].endpoint,
           NEW q, q = Advance(r, 0)
    PROVE  /\ q \in StRecord /\ q.o = r.o /\ q.acct = r.acct /\ q.new = r.new /\ q.known = r.known
           /\ q.pc \notin {"idle"} \cup Lookups
           /\ StepNeeded(q) /\ SoFar(q, accounts, zone, link)
           /\ Unborn(q) => r.new /\ r.o.name = StNil
<1>1. q \in StRecord /\ q = [r EXCEPT !.pc = q.pc]
  BY AdvanceType
<1>2. q.o = r.o /\ q.acct = r.acct /\ q.new = r.new /\ q.known = r.known
  BY <1>1 DEF StRecord
<1>3. q.pc = IF r.o.endpoint = "yes" THEN "zone" ELSE IF r.new THEN "create" ELSE "key"
  BY AdvanceStart
<1>4. r.o \in Option
  BY DEF StRecord
<1>5. StepNeeded(q)
  BY <1>2, <1>3 DEF StepNeeded, Lookups
<1>6. SoFar(q, accounts, zone, link)
  BY <1>2, <1>3 DEF SoFar, Lookups, Beyond
<1>7. q.pc \notin {"idle"} \cup Lookups
  BY <1>3 DEF Lookups
<1>8. Unborn(q) => r.new /\ r.o.name = StNil
  BY <1>2 DEF Unborn
<1> QED BY <1>1, <1>2, <1>5, <1>6, <1>7, <1>8

LEMMA EnsureKeeps ==
    ASSUME AccountsInv, NEW c \in Caller, EnsureStorageAccount(c)
    PROVE  AccountsInv'
<1>1. /\ ncalls < MaxStCalls /\ ncalls' = ncalls + 1
      /\ UNCHANGED <<stplan, accounts, zone, link, fileCache, served, stfaults, Tags>>
  BY DEF EnsureStorageAccount
<1>2. ncalls' \in 0..MaxStCalls /\ fileCache' \in [Account -> Setting \cup {StNil}] /\ stfaults' \in 0..stplan.faults
  BY <1>1, StPlansAssumption DEF AccountsInv, StTypes
<1> DEFINE start(o, a, new) == [pc |-> "start", o |-> o, acct |-> a, new |-> new, known |-> {}, cand |-> {}]
           listing(o, a, new) == [pc |-> "list", o |-> o, acct |-> a, new |-> new, known |-> {}, cand |-> {}]
<1>3. PICK o \in stplan.asks[c] :
         IF o.name # StNil
         THEN Move(c, IF o.create THEN [start(o, o.name, FALSE) EXCEPT !.pc = "exists"]
                      ELSE Advance(start(o, o.name, FALSE), 0))
         ELSE IF o.create
         THEN \E a \in Unmade : Move(c, Advance(start(o, a, TRUE), 0))
         ELSE Move(c, [start(o, StNil, FALSE) EXCEPT !.pc = "list"])
  BY DEF EnsureStorageAccount
<1>4. o \in Option /\ o \in Wishes(stplan) /\ (o.name # StNil => o.name \in Named /\ o.name \in Account)
  BY PlanTypes, StNames DEF Wishes, Option
<1>5. CASE o.name # StNil /\ o.create
  <2>1. PICK r : r = [pc |-> "exists", o |-> o, acct |-> o.name, new |-> FALSE, known |-> {}, cand |-> {}]
    OBVIOUS
  <2>2. r \in StRecord /\ calls' = [calls EXCEPT ![c] = r]
    BY <1>3, <1>4, <1>5, <2>1 DEF Move, StRecord
  <2>3. StepNeeded(r) /\ SoFar(r, accounts, zone, link) /\ KnownSound(r, served) /\ ~Unborn(r)
    BY <1>4, <1>5, <2>1 DEF StepNeeded, SoFar, KnownSound, Unborn, Lookups, Reusable
  <2>4. r.o = o /\ r.acct = o.name /\ r.pc = "exists"
    BY <2>1
  <2> QED BY <1>1, <1>2, <1>4, <1>5, <2>2, <2>3, <2>4, BeginStep
<1>6. CASE o.name # StNil /\ ~o.create
  <2>1. PICK s : s = start(o, o.name, FALSE)
    OBVIOUS
  <2>2. PICK r : r = listing(o, o.name, FALSE)
    OBVIOUS
  <2>3. r \in StRecord /\ Advance(s, 0) = Advance(r, 0)
    <3>1. PICK new \in BOOLEAN : new = FALSE
      OBVIOUS
    <3>2. PICK a \in Account \cup {StNil} : a = o.name
      BY <1>4, <1>6
    <3>3. /\ s = [pc |-> "start", o |-> o, acct |-> a, new |-> new, known |-> {}, cand |-> {}]
          /\ r = [pc |-> "list", o |-> o, acct |-> a, new |-> new, known |-> {}, cand |-> {}]
      BY <2>1, <2>2, <3>1, <3>2
    <3> QED BY <1>4, <3>3, StartSame
  <2>4. PICK q : q = Advance(r, 0)
    OBVIOUS
  <2>5. calls' = [calls EXCEPT ![c] = q]
    BY <1>3, <1>6, <2>1, <2>3, <2>4 DEF Move
  <2>6. r.o = o /\ r.acct = o.name /\ r.new = FALSE /\ r.known = {}
    BY <2>2
  <2>7. /\ q \in StRecord /\ q.o = o /\ q.acct = o.name /\ q.new = FALSE /\ q.known = {}
        /\ q.pc \notin {"idle"} \cup Lookups
        /\ StepNeeded(q) /\ SoFar(q, accounts, zone, link) /\ ~Unborn(q)
    BY <1>4, <1>6, <2>3, <2>4, <2>6, FirstStep
  <2>8. KnownSound(q, served) /\ q.pc # "match"
    BY <2>7 DEF KnownSound, Lookups
  <2> QED BY <1>1, <1>2, <1>4, <1>6, <2>5, <2>7, <2>8, BeginStep
<1>7. CASE o.name = StNil /\ o.create
  <2>1. PICK a \in Unmade : Move(c, Advance(start(o, a, TRUE), 0))
    BY <1>3, <1>7
  <2>2. a \in Account /\ a \notin Named
    BY DEF Unmade
  <2>3. PICK s : s = start(o, a, TRUE)
    OBVIOUS
  <2>4. PICK r : r = listing(o, a, TRUE)
    OBVIOUS
  <2>5. r \in StRecord /\ Advance(s, 0) = Advance(r, 0)
    <3>1. PICK new \in BOOLEAN : new = TRUE
      OBVIOUS
    <3>2. a \in Account \cup {StNil}
      BY <2>2
    <3>3. /\ s = [pc |-> "start", o |-> o, acct |-> a, new |-> new, known |-> {}, cand |-> {}]
          /\ r = [pc |-> "list", o |-> o, acct |-> a, new |-> new, known |-> {}, cand |-> {}]
      BY <2>3, <2>4, <3>1
    <3> QED BY <1>4, <3>2, <3>3, StartSame
  <2>6. PICK q : q = Advance(r, 0)
    OBVIOUS
  <2>7. calls' = [calls EXCEPT ![c] = q]
    BY <2>1, <2>3, <2>5, <2>6 DEF Move
  <2>8. r.o = o /\ r.acct = a /\ r.new = TRUE /\ r.known = {}
    BY <2>4
  <2>9. /\ q \in StRecord /\ q.o = o /\ q.acct = a /\ q.new = TRUE /\ q.known = {}
        /\ q.pc \notin {"idle"} \cup Lookups
        /\ StepNeeded(q) /\ SoFar(q, accounts, zone, link)
    BY <1>4, <1>7, <2>2, <2>5, <2>6, <2>8, FirstStep
  <2>10. KnownSound(q, served) /\ q.pc # "match"
    BY <2>9 DEF KnownSound, Lookups
  <2> QED BY <1>1, <1>2, <1>4, <2>7, <2>9, <2>10, BeginStep
<1>8. CASE o.name = StNil /\ ~o.create
  <2>1. PICK r : r = [pc |-> "list", o |-> o, acct |-> StNil, new |-> FALSE, known |-> {}, cand |-> {}]
    OBVIOUS
  <2>2. r \in StRecord /\ calls' = [calls EXCEPT ![c] = r]
    BY <1>3, <1>4, <1>8, <2>1 DEF Move, StRecord
  <2>3. StepNeeded(r) /\ SoFar(r, accounts, zone, link) /\ KnownSound(r, served) /\ ~Unborn(r)
    BY <1>4, <1>8, <2>1 DEF StepNeeded, SoFar, KnownSound, Unborn, Lookups, Reusable
  <2>4. r.o = o /\ r.acct = StNil /\ r.pc = "list"
    BY <2>1
  <2> QED BY <1>1, <1>2, <1>4, <1>8, <2>2, <2>3, <2>4, BeginStep
<1> QED BY <1>5, <1>6, <1>7, <1>8

LEMMA ExistsKeeps ==
    ASSUME AccountsInv, NEW c \in Caller, AccountExists(c)
    PROVE  AccountsInv'
<1>1. calls[c].pc = "exists" /\ UNCHANGED <<stplan, accounts, zone, link, fileCache, served, ncalls, Tags>>
  BY DEF AccountExists, At
<1>2. PICK x \in StAnswer :
          /\ Move(c, Advance([calls[c] EXCEPT !.new = x = "error" \/ accounts[calls[c].acct] = StNil], 0))
          /\ StCounted(x)
  BY DEF AccountExists
<1>3. /\ calls[c] \in StRecord /\ StepNeeded(calls[c]) /\ calls[c].o \in Option
      /\ calls[c].o \in Wishes(stplan) /\ calls[c].o \in stplan.asks[c]
  BY <1>1, UnderWay
<1>4. PICK r : r = [calls[c] EXCEPT !.new = x = "error" \/ accounts[calls[c].acct] = StNil]
  OBVIOUS
<1>5. /\ r \in StRecord /\ r.o = calls[c].o /\ r.acct = calls[c].acct /\ r.known = calls[c].known
  BY <1>3, <1>4 DEF StRecord
<1>6. r.o.name # StNil /\ r.o.create /\ r.acct = r.o.name /\ r.acct \in Named /\ r.acct \in Account
  BY <1>1, <1>3, <1>5, StNames DEF StepNeeded, Option
<1>7. PICK q : q = Advance(r, 0)
  OBVIOUS
<1>8. calls' = [calls EXCEPT ![c] = q]
  BY <1>2, <1>4, <1>7 DEF Move
<1>9. /\ q \in StRecord /\ q.o = r.o /\ q.acct = r.acct
      /\ q.pc \notin {"idle"} \cup Lookups
      /\ StepNeeded(q) /\ SoFar(q, accounts, zone, link) /\ ~Unborn(q)
  BY <1>3, <1>5, <1>6, <1>7, FirstStep
<1>10. KnownSound(q, served) /\ q.pc # "match"
  BY <1>6, <1>9 DEF KnownSound, Lookups, Reusable
<1>11. fileCache' \in [Account -> Setting \cup {StNil}] /\ stfaults' \in 0..stplan.faults /\ ncalls' \in 0..MaxStCalls
  BY <1>1, <1>2, CountedType DEF AccountsInv, StTypes
<1> QED BY <1>1, <1>3, <1>5, <1>6, <1>8, <1>9, <1>10, <1>11, BeginStep

LEMMA ListKeeps ==
    ASSUME AccountsInv, NEW c \in Caller, ListAccounts(c)
    PROVE  AccountsInv'
<1> DEFINE o == calls[c].o
           cand == {a \in Account : accounts[a] # StNil /\ Listed(o, accounts[a])}
           known == {a \in Account : [o |-> o, a |-> a] \in served /\ "skip" \notin accounts[a].tags}
<1>1. calls[c].pc = "list" /\ UNCHANGED <<stplan, accounts, zone, link, fileCache, served, ncalls, Tags>>
  BY DEF ListAccounts, At
<1>2. PICK x \in StAnswer :
          /\ Move(c, IF x = "error" THEN Waiting ELSE [calls[c] EXCEPT !.pc = "match", !.cand = cand, !.known = known])
          /\ StCounted(x)
  BY DEF ListAccounts
<1>3. /\ calls[c] \in StRecord /\ StepNeeded(calls[c]) /\ o \in Option /\ o \in stplan.asks[c]
  BY <1>1, UnderWay
<1>4. fileCache' \in [Account -> Setting \cup {StNil}] /\ stfaults' \in 0..stplan.faults /\ ncalls' \in 0..MaxStCalls
  BY <1>1, <1>2, CountedType DEF AccountsInv, StTypes
<1>5. CASE x = "error"
  BY <1>1, <1>2, <1>4, <1>5, EndKeeps DEF Move
<1>6. CASE x # "error"
  <2>1. PICK r : r = [calls[c] EXCEPT !.pc = "match", !.cand = cand, !.known = known]
    OBVIOUS
  <2>2. /\ r \in StRecord /\ calls' = [calls EXCEPT ![c] = r] /\ r.pc = "match" /\ r.o = o /\ r.acct = calls[c].acct
        /\ r.new = calls[c].new /\ r.cand = cand /\ r.known = known
    <3>1. cand \in SUBSET Account /\ known \in SUBSET Account
      OBVIOUS
    <3> HIDE DEF cand, known
    <3> QED BY <1>2, <1>3, <1>6, <2>1, <3>1 DEF Move, StRecord
  <2>3. StepNeeded(r) /\ SoFar(r, accounts, zone, link) /\ ~Unborn(r)
    BY <1>1, <1>3, <2>2 DEF StepNeeded, SoFar, Unborn, Lookups
  <2>4. CandSound(r, accounts)
    BY <1>3, <2>2 DEF CandSound, Listed, Shown, Option, AccountsInv, StTypes, AccountRecord
  <2>5. KnownSound(r, served)
    <3> SUFFICES ASSUME Reusable(o), NEW a \in known PROVE a \in cand
      BY <1>1, <1>3, <2>2 DEF KnownSound, StepNeeded, Lookups
    <3>1. PICK x1 \in served : x1 = [o |-> o, a |-> a]
      OBVIOUS
    <3>2. x1.o = o /\ x1.a = a /\ a \in Account /\ "skip" \notin accounts[a].tags
      BY <3>1
    <3>3. /\ accounts[a] # StNil /\ o.kind \in {0, accounts[a].kind} /\ (o.endpoint = "yes" => accounts[a].endpoint)
          /\ o.name = StNil => Suits(o, accounts[a])
      BY <3>2 DEF AccountsInv, ServedSound, ReturnedAsAsked
    <3>4. accounts[a].endpoint \in BOOLEAN /\ o.endpoint \in {"unset", "yes", "no"}
      BY <1>3, <3>2, <3>3 DEF AccountsInv, StTypes, AccountRecord, Option
    <3>5. Listed(o, accounts[a])
      BY <3>2, <3>3, <3>4 DEF Listed, Reusable, Suits, Shown
    <3> QED BY <3>2, <3>3, <3>5
  <2>6. r.acct \in Named \cup {StNil} \/ accounts[r.acct] # StNil \/ r.acct \in Unmade
    BY <1>1, <1>3, <2>2 DEF StepNeeded
  <2> QED BY <1>1, <1>3, <1>4, <2>2, <2>3, <2>4, <2>5, <2>6, BeginStep
<1> QED BY <1>5, <1>6

LEMMA MatchKeeps ==
    ASSUME AccountsInv, NEW c \in Caller, MatchAccounts(c)
    PROVE  AccountsInv'
<1> DEFINE o == calls[c].o
           match == {a \in calls[c].cand : ServicesAgree(o, a)}
<1>1. calls[c].pc = "match" /\ UNCHANGED <<stplan, accounts, zone, link, served, ncalls, Tags>>
  BY DEF MatchAccounts, At
<1>2. PICK x \in StAnswer, probed \in SUBSET calls[c].cand :
          /\ fileCache' = [a \in Account |-> IF a \in probed /\ o.multi # "unset" THEN CachedMulti(a) ELSE fileCache[a]]
          /\ StCounted(x)
          /\ IF x = "error" THEN Move(c, Waiting)
             ELSE IF match = {}
             THEN \E a \in Unmade : Move(c, Advance([calls[c] EXCEPT !.acct = a, !.new = TRUE], 0))
             ELSE \E a \in probed \cap match : Move(c, Advance([calls[c] EXCEPT !.acct = a], 0))
  BY DEF MatchAccounts
<1>3. /\ calls[c] \in StRecord /\ StepNeeded(calls[c]) /\ o \in Option /\ o \in stplan.asks[c] /\ o \in Wishes(stplan)
      /\ CandSound(calls[c], accounts) /\ KnownSound(calls[c], served)
  BY <1>1, UnderWay
<1>4. o.name = StNil /\ ~o.create /\ ~calls[c].new /\ calls[c].cand \subseteq Account /\ calls[c].known \subseteq Account
  BY <1>1, <1>3 DEF StepNeeded, StRecord, Lookups
<1>5. \A a \in calls[c].cand : accounts[a] \in AccountRecord
  BY <1>3, <1>4 DEF CandSound, AccountsInv, StTypes
<1>6. fileCache' \in [Account -> Setting \cup {StNil}]
  <2>1. \A a \in Account : (IF a \in probed /\ o.multi # "unset" THEN CachedMulti(a) ELSE fileCache[a]) \in Setting \cup {StNil}
    BY <1>5 DEF CachedMulti, AccountsInv, StTypes, AccountRecord
  <2> QED BY <1>2, <2>1
<1>7. stfaults' \in 0..stplan.faults /\ ncalls' \in 0..MaxStCalls
  BY <1>1, <1>2, CountedType DEF AccountsInv, StTypes
<1>8. CASE x = "error"
  BY <1>1, <1>2, <1>6, <1>7, <1>8, EndKeeps DEF Move
<1>9. CASE x # "error" /\ match = {}
  <2>1. PICK a \in Unmade : Move(c, Advance([calls[c] EXCEPT !.acct = a, !.new = TRUE], 0))
    BY <1>2, <1>9
  <2>2. a \in Account /\ a \notin Named
    BY DEF Unmade
  <2>3. PICK r : r = [calls[c] EXCEPT !.acct = a, !.new = TRUE]
    OBVIOUS
  <2>4. r \in StRecord /\ r.o = o /\ r.acct = a /\ r.new = TRUE /\ r.known = calls[c].known
    BY <1>3, <2>2, <2>3 DEF StRecord
  <2>5. PICK q : q = Advance(r, 0)
    OBVIOUS
  <2>6. calls' = [calls EXCEPT ![c] = q]
    BY <2>1, <2>3, <2>5 DEF Move
  <2>7. /\ q \in StRecord /\ q.o = o /\ q.acct = a /\ q.known = calls[c].known
        /\ q.pc \notin {"idle"} \cup Lookups
        /\ StepNeeded(q) /\ SoFar(q, accounts, zone, link)
    BY <1>3, <1>4, <2>2, <2>4, <2>5, FirstStep
  <2>8. Reusable(o) => calls[c].known = {}
    <3> SUFFICES ASSUME Reusable(o), NEW b \in calls[c].known PROVE FALSE
      OBVIOUS
    <3>1. b \in calls[c].cand /\ [o |-> o, a |-> b] \in served
      BY <1>1, <1>3 DEF KnownSound
    <3>2. PICK x1 \in served : x1 = [o |-> o, a |-> b]
      BY <3>1
    <3>3. x1.o = o /\ x1.a = b
      BY <3>2
    <3>4. /\ o.soft => accounts[b].soft
          /\ o.keep = "off" => accounts[b].keep = "off"
          /\ Suits(o, accounts[b])
      BY <1>4, <3>3 DEF AccountsInv, ServedSound, ReturnedAsAsked
    <3>5. o.keep \in {"unset", "on", "off"} /\ accounts[b].keep \in {"unset", "on", "off"}
      BY <1>3, <1>5, <3>1 DEF Option, Setting, AccountRecord
    <3>6. ServicesAgree(o, b)
      BY <3>4, <3>5 DEF ServicesAgree, Agrees, Reusable, Suits
    <3> QED BY <1>9, <3>1, <3>6
  <2>9. KnownSound(q, served) /\ q.pc # "match"
    BY <2>7, <2>8 DEF KnownSound, Lookups
  <2> QED BY <1>1, <1>3, <1>6, <1>7, <2>6, <2>7, <2>9, BeginStep
<1>10. CASE x # "error" /\ match # {}
  <2>1. PICK a \in probed \cap match : Move(c, Advance([calls[c] EXCEPT !.acct = a], 0))
    BY <1>2, <1>10
  <2>2. a \in calls[c].cand /\ a \in Account /\ ServicesAgree(o, a)
    BY <1>4, <2>1
  <2>3. PICK r : r = [calls[c] EXCEPT !.acct = a]
    OBVIOUS
  <2>4. r \in StRecord /\ r.o = o /\ r.acct = a /\ r.new = FALSE /\ r.known = calls[c].known
    BY <1>3, <1>4, <2>2, <2>3 DEF StRecord
  <2>5. PICK q : q = Advance(r, 0)
    OBVIOUS
  <2>6. calls' = [calls EXCEPT ![c] = q]
    BY <2>1, <2>3, <2>5 DEF Move
  <2>7. o.keep \in {"unset", "on", "off"} /\ accounts[a].keep \in {"unset", "on", "off"}
    BY <1>3, <1>5, <2>2 DEF Option, Setting, AccountRecord
  <2>8. /\ accounts[a] # StNil /\ Suits(o, accounts[a])
        /\ o.soft => accounts[a].soft
        /\ o.keep = "off" => accounts[a].keep = "off"
        /\ o.endpoint = "yes" => accounts[a].endpoint
    BY <1>3, <2>2, <2>7 DEF CandSound, ServicesAgree, Agrees, Suits
  <2>9. /\ q \in StRecord /\ q.o = o /\ q.acct = a /\ q.new = FALSE
        /\ q.pc \notin {"idle"} \cup Lookups
        /\ StepNeeded(q) /\ SoFar(q, accounts, zone, link) /\ ~Unborn(q)
    BY <1>3, <1>4, <2>2, <2>4, <2>5, <2>8, FirstStep
  <2>10. KnownSound(q, served) /\ q.pc # "match"
    BY <2>9 DEF KnownSound, Lookups
  <2> QED BY <1>1, <1>3, <1>6, <1>7, <2>6, <2>8, <2>9, <2>10, BeginStep
<1> QED BY <1>8, <1>9, <1>10

\* Steps that touch no call.
LEMMA RestKeeps ==
    ASSUME AccountsInv, Persists, TagTypes', TagsSound', UNCHANGED <<calls, served, zone, link>>,
           accounts' \in [Account -> AccountRecord \cup {StNil}],
           \A a \in Account : accounts[a] = StNil => accounts'[a] = StNil,
           fileCache' \in [Account -> Setting \cup {StNil}],
           stfaults' \in 0..stplan.faults, ncalls' \in 0..MaxStCalls
    PROVE  AccountsInv'
<1>1. StTypes' /\ stplan' = stplan
  BY DEF AccountsInv, StTypes, Persists
<1>2. CallsSoFar'
  <2> SUFFICES ASSUME NEW d \in Caller
               PROVE  CallSound(calls'[d], stplan'.asks[d], accounts', zone', link', served')
    BY DEF CallsSoFar
  <2>1. CallSound(calls[d], stplan.asks[d], accounts, zone, link, served) /\ calls[d] \in StRecord \cup {Waiting}
    BY DEF AccountsInv, CallsSoFar, StTypes
  <2>2. CallSound(calls[d], stplan.asks[d], accounts', zone', link', served')
    BY <2>1, CallKept
  <2> QED BY <1>1, <2>2
<1>3. Fresh'
  <2> SUFFICES ASSUME NEW d \in Caller, Unborn(calls[d])
               PROVE  /\ accounts'[calls[d].acct] = StNil
                      /\ \A e \in Caller \ {d} : calls[e].pc # "idle" => calls[e].acct # calls[d].acct
    BY DEF Fresh
  <2>1. calls[d].acct \in Account
    BY UnderWay DEF Unborn, StepNeeded
  <2> QED BY <2>1 DEF AccountsInv, Fresh
<1>4. ServedSound'
  BY ServedKept
<1> QED BY <1>1, <1>2, <1>3, <1>4 DEF AccountsInv

LEMMA ExpireFileKeeps ==
    ASSUME AccountsInv, NEW a \in Account, ExpireFile(a)
    PROVE  AccountsInv'
<1>1. UNCHANGED <<stplan, accounts, zone, link, calls, served, stfaults, ncalls, Tags>>
  BY DEF ExpireFile
<1>2. Persists /\ TagTypes' /\ TagsSound'
  BY <1>1, SamePersists, SameTags
<1>3. fileCache' \in [Account -> Setting \cup {StNil}]
  BY DEF ExpireFile, AccountsInv, StTypes
<1>4. accounts' \in [Account -> AccountRecord \cup {StNil}] /\ stfaults' \in 0..stplan.faults /\ ncalls' \in 0..MaxStCalls
  BY <1>1 DEF AccountsInv, StTypes
<1> QED BY <1>1, <1>2, <1>3, <1>4, RestKeeps

\* Steps of the taggers other than the update.
LEMMA TagStep ==
    ASSUME AccountsInv, UNCHANGED <<accounts, Ensuring>>, TagTypes', TagsSound',
           stfaults' \in 0..stplan.faults, ncalls' \in 0..MaxStCalls
    PROVE  AccountsInv'
<1>1. UNCHANGED <<stplan, zone, link, fileCache, calls, served>>
  BY DEF Ensuring
<1>2. Persists
  BY <1>1, SamePersists
<1>3. accounts' \in [Account -> AccountRecord \cup {StNil}] /\ fileCache' \in [Account -> Setting \cup {StNil}]
  BY <1>1 DEF AccountsInv, StTypes
<1> QED BY <1>1, <1>2, <1>3, RestKeeps

LEMMA AskTagKeeps ==
    ASSUME AccountsInv, NEW t \in Tagger, NEW op \in {"add", "remove"}, AskTag(t, op)
    PROVE  AccountsInv'
<1>1. /\ stplan.tagged # StNil /\ lockOf = StNil /\ lockOf' = t
      /\ tagging' = [tagging EXCEPT ![t] = [pc |-> "read", op |-> op]]
      /\ due' = [due EXCEPT ![t] = "unknown"]
      /\ UNCHANGED <<accounts, tagCache, stfaults, Ensuring>> /\ stplan' = stplan
      /\ ncalls < MaxStCalls /\ ncalls' = ncalls + 1
  BY DEF AskTag, LockEntry, Ensuring
<1>2. TagTypes /\ TagsSound
  BY DEF AccountsInv
<1>3. \A u \in Tagger : tagging[u].pc = "idle"
  BY <1>1, <1>2, StNilAssumption DEF TagsSound
<1>4. /\ \A u \in Tagger : tagging'[u] = IF u = t THEN [pc |-> "read", op |-> op] ELSE tagging[u]
      /\ \A u \in Tagger : due'[u] = IF u = t THEN "unknown" ELSE due[u]
  BY <1>1, <1>2 DEF TagTypes
<1>5. TagTypes'
  BY <1>1, <1>2 DEF TagTypes
<1>6. TagsSound'
  BY <1>1, <1>2, <1>3, <1>4 DEF TagsSound
<1>7. stfaults' \in 0..stplan.faults /\ ncalls' \in 0..MaxStCalls
  BY <1>1, StPlansAssumption DEF AccountsInv, StTypes
<1> QED BY <1>1, <1>5, <1>6, <1>7, TagStep

LEMMA NewTagsType ==
    ASSUME NEW t \in Tagger, NEW tags \in TagSets
    PROVE  /\ NewTags(t, tags) \in TagSets
           /\ "driver" \in tags => "driver" \in NewTags(t, tags)
           /\ \A u \in Tagger \ {t} : u \in NewTags(t, tags) <=> u \in tags
           /\ t \in NewTags(t, tags) <=> tagging[t].op = "add"
  BY StNilAssumption DEF NewTags, TagSets

\* The tags of the account that taggers change.
LEMMA TaggedType ==
    ASSUME AccountsInv, stplan.tagged # StNil
    PROVE  /\ stplan.tagged \in Account /\ accounts[stplan.tagged] \in AccountRecord
           /\ accounts[stplan.tagged].tags \in TagSets
<1>1. stplan.tagged \in Account
  BY PlanTypes
<1>2. accounts[stplan.tagged] \in AccountRecord
  BY <1>1 DEF AccountsInv, StTypes, TagsSound
<1> QED BY <1>1, <1>2 DEF AccountRecord, TagSets

LEMMA ReadTagsKeeps ==
    ASSUME AccountsInv, NEW t \in Tagger, ReadTags(t)
    PROVE  AccountsInv'
<1> DEFINE here == accounts[stplan.tagged].tags
<1>1. tagging[t].pc = "read" /\ UNCHANGED <<accounts, ncalls, Ensuring>> /\ stplan' = stplan
  BY DEF ReadTags, Ensuring
<1>2. TagTypes /\ TagsSound
  BY DEF AccountsInv
<1>3. /\ stplan.tagged # StNil /\ lockOf = t /\ \A u \in Tagger \ {t} : tagging[u].pc = "idle"
  BY <1>1, <1>2 DEF TagsSound
<1>4. here \in TagSets
  BY <1>3, TaggedType
<1>5. PICK x \in StAnswer, tags \in {here} :
          /\ StCounted(x)
          /\ IF x = "error" THEN Release(t, "unknown") /\ UNCHANGED tagCache
             ELSE IF NewTags(t, tags) = tags THEN Release(t, Wanted(t)) /\ tagCache' = tags
             ELSE /\ tagging' = [tagging EXCEPT ![t] = [pc |-> "update", op |-> @.op, tags |-> NewTags(t, tags)]]
                  /\ tagCache' = StNil /\ UNCHANGED <<lockOf, due>>
  <2>1. (IF tagCache = StNil THEN here ELSE tagCache) = here
    BY <1>2, <1>3 DEF TagsSound
  <2>2. (IF tagCache = StNil THEN StAnswer ELSE {"ok"}) \subseteq StAnswer
    BY DEF StAnswer
  <2> QED BY <2>1, <2>2 DEF ReadTags
<1>6. stfaults' \in 0..stplan.faults /\ ncalls' \in 0..MaxStCalls
  BY <1>1, <1>5, CountedType DEF AccountsInv, StTypes
<1>7. tagging[t].op \in {"add", "remove"}
  BY <1>1, <1>2 DEF TagTypes, Waiting
<1>8. CASE x = "error" \/ NewTags(t, tags) = tags
  <2>1. PICK p \in {"in", "out", "unknown"} : /\ Release(t, p) /\ tagCache' \in {tagCache, here}
                                              /\ p # "unknown" => (p = "in" <=> t \in here)
    <3>1. t \in NewTags(t, here) <=> tagging[t].op = "add"
      BY <1>4, NewTagsType
    <3> QED BY <1>5, <1>8, <3>1 DEF Wanted
  <2>2. /\ lockOf' = StNil
        /\ \A u \in Tagger : tagging'[u] = IF u = t THEN Waiting ELSE tagging[u]
        /\ tagging' = [tagging EXCEPT ![t] = Waiting] /\ due' = [due EXCEPT ![t] = p]
        /\ \A u \in Tagger : due'[u] = IF u = t THEN p ELSE due[u]
    BY <1>2, <2>1 DEF Release, TagTypes
  <2>3. TagTypes'
    BY <1>2, <1>4, <2>1, <2>2 DEF TagTypes
  <2>4. \A u \in Tagger : tagging'[u].pc = "idle"
    BY <1>3, <2>2 DEF Waiting
  <2>5. TagsSound'
    BY <1>1, <1>2, <1>3, <2>1, <2>2, <2>4 DEF TagsSound
  <2> QED BY <1>1, <1>6, <2>3, <2>5, TagStep
<1>9. CASE ~(x = "error" \/ NewTags(t, tags) = tags)
  <2>1. /\ tagging' = [tagging EXCEPT ![t] = [pc |-> "update", op |-> tagging[t].op, tags |-> NewTags(t, here)]]
        /\ tagCache' = StNil /\ lockOf' = lockOf /\ due' = due
    BY <1>5, <1>9
  <2>2. NewTags(t, here) \in TagSets
    BY <1>4, NewTagsType
  <2>3. TagTypes'
    BY <1>2, <1>7, <2>1, <2>2 DEF TagTypes
  <2>4. /\ \A u \in Tagger \ {t} : tagging'[u] = tagging[u]
        /\ tagging'[t].pc = "update" /\ tagging'[t].op = tagging[t].op /\ tagging'[t].tags = NewTags(t, here)
    BY <1>2, <2>1 DEF TagTypes
  <2>5. TagsSound'
    <3>1. \A u \in Tagger : tagging'[u].pc # "idle" => u = t /\ lockOf' = u /\ due'[u] = "unknown"
      BY <1>1, <1>2, <1>3, <2>1, <2>4 DEF TagsSound
    <3>2. NewTags(t, here) = IF tagging'[t].op = "add" THEN here \cup {t} ELSE here \ {t}
      BY <2>4 DEF NewTags
    <3>3. \A u \in Tagger : due'[u] # "unknown" => (due'[u] = "in" <=> u \in here)
      BY <1>2, <1>3, <2>1 DEF TagsSound
    <3>4. accounts[stplan.tagged] # StNil
      BY <1>2, <1>3 DEF TagsSound
    <3>5. \A u \in Tagger : tagging'[u].pc = "update" =>
             tagging'[u].tags = IF tagging'[u].op = "add" THEN here \cup {u} ELSE here \ {u}
      BY <2>4, <3>1, <3>2
    <3> QED BY <1>1, <1>3, <2>1, <3>1, <3>3, <3>4, <3>5 DEF TagsSound, NewTags
  <2> QED BY <1>1, <1>6, <2>3, <2>5, TagStep
<1> QED BY <1>8, <1>9

LEMMA UpdateTagsKeeps ==
    ASSUME AccountsInv, NEW t \in Tagger, UpdateTags(t)
    PROVE  AccountsInv'
<1> DEFINE k == stplan.tagged
<1>1. tagging[t].pc = "update" /\ UNCHANGED <<tagCache, ncalls, stplan, zone, link, fileCache, calls, served>>
  BY DEF UpdateTags, Ensuring
<1>2. PICK x \in StAnswer, done \in BOOLEAN :
          /\ x = "ok" => done
          /\ accounts' = IF done THEN [accounts EXCEPT ![k].tags = tagging[t].tags] ELSE accounts
          /\ Release(t, IF x = "ok" THEN Wanted(t) ELSE "unknown")
          /\ StCounted(x)
  BY DEF UpdateTags
<1>3. TagTypes /\ TagsSound
  BY DEF AccountsInv
<1>4. /\ k # StNil /\ lockOf = t /\ tagCache = StNil /\ tagging[t].tags = NewTags(t, accounts[k].tags)
      /\ \A u \in Tagger \ {t} : tagging[u].pc = "idle"
  BY <1>1, <1>3 DEF TagsSound
<1>5. k \in Account /\ accounts[k] \in AccountRecord /\ accounts[k].tags \in TagSets
  BY <1>4, TaggedType
<1>6. NewTags(t, accounts[k].tags) \in TagSets /\ ("driver" \in accounts[k].tags => "driver" \in NewTags(t, accounts[k].tags))
  BY <1>5, NewTagsType
<1>7. accounts \in [Account -> AccountRecord \cup {StNil}]
  BY DEF AccountsInv, StTypes
<1>8. PICK made : made = [accounts[k] EXCEPT !.tags = NewTags(t, accounts[k].tags)]
  OBVIOUS
<1>9. /\ made \in AccountRecord /\ made.tags = NewTags(t, accounts[k].tags) /\ made.kind = accounts[k].kind /\ made.soft = accounts[k].soft
      /\ made.keep = accounts[k].keep /\ made.endpoint = accounts[k].endpoint /\ made.group = accounts[k].group
  BY <1>5, <1>6, <1>8 DEF AccountRecord, TagSets
<1>10. \A a \in Account : accounts'[a] = accounts[a] \/ (a = k /\ accounts'[a] = made)
  BY <1>2, <1>4, <1>7, <1>8
<1>11. accounts' \in [Account -> AccountRecord \cup {StNil}]
  <2>1. accounts' = accounts \/ accounts' = [accounts EXCEPT ![k] = made]
    BY <1>2, <1>4, <1>8
  <2> QED BY <1>7, <1>9, <2>1
<1>12. Persists
  <2>1. Lasting(accounts[k], made) /\ \A a \in Account : Lasting(accounts[a], accounts[a])
    BY <1>6, <1>9 DEF Lasting
  <2>2. made # StNil
    BY <1>9, StNilAssumption
  <2> QED BY <1>1, <1>9, <1>10, <2>1, <2>2 DEF Persists
<1>13. \A a \in Account : accounts[a] = StNil => accounts'[a] = StNil
  BY <1>5, <1>10, StNilAssumption
<1>14. /\ lockOf' = StNil /\ tagging' = [tagging EXCEPT ![t] = Waiting]
       /\ due' = [due EXCEPT ![t] = IF x = "ok" THEN Wanted(t) ELSE "unknown"]
  BY <1>2 DEF Release
<1>15. \A u \in Tagger : tagging'[u].pc = "idle"
  BY <1>3, <1>4, <1>14 DEF TagTypes, Waiting
<1>16. TagTypes'
  BY <1>1, <1>3, <1>14 DEF TagTypes, Wanted
<1>17. accounts'[k] # StNil
  BY <1>5, <1>9, <1>10, StNilAssumption
<1>18. TagsSound'
  <2>1. \A u \in Tagger \ {t} : u \in accounts'[k].tags <=> u \in accounts[k].tags
    BY <1>5, <1>9, <1>10, NewTagsType
  <2>2. x = "ok" => (Wanted(t) = "in" <=> t \in accounts'[k].tags)
    <3>1. t \in NewTags(t, accounts[k].tags) <=> tagging[t].op = "add"
      BY <1>5, NewTagsType
    <3>2. x = "ok" => accounts'[k].tags = NewTags(t, accounts[k].tags)
      BY <1>2, <1>4, <1>5, <1>7, <1>8, <1>9
    <3> QED BY <3>1, <3>2 DEF Wanted
  <2>3. \A u \in Tagger : due'[u] = IF u # t THEN due[u] ELSE IF x = "ok" THEN Wanted(t) ELSE "unknown"
    BY <1>3, <1>14 DEF TagTypes
  <2>4. \A u \in Tagger : due'[u] # "unknown" => (due'[u] = "in" <=> u \in accounts'[k].tags)
    BY <1>3, <1>4, <2>1, <2>2, <2>3 DEF TagsSound
  <2> QED BY <1>1, <1>4, <1>15, <1>17, <2>4 DEF TagsSound
<1>19. /\ stfaults' \in 0..stplan.faults /\ ncalls' \in 0..MaxStCalls
       /\ fileCache' \in [Account -> Setting \cup {StNil}]
  BY <1>1, <1>2, CountedType DEF AccountsInv, StTypes
<1> QED BY <1>1, <1>11, <1>12, <1>13, <1>16, <1>18, <1>19, RestKeeps

LEMMA ExpireTagsKeeps ==
    ASSUME AccountsInv, ExpireTags
    PROVE  AccountsInv'
<1>1. /\ tagCache' = StNil /\ UNCHANGED <<accounts, lockOf, tagging, due, stfaults, ncalls, Ensuring>>
      /\ stplan' = stplan
  BY DEF ExpireTags, Ensuring
<1>2. TagTypes' /\ TagsSound'
  BY <1>1 DEF AccountsInv, TagTypes, TagsSound, NewTags
<1>3. stfaults' \in 0..stplan.faults /\ ncalls' \in 0..MaxStCalls
  BY <1>1 DEF AccountsInv, StTypes
<1> QED BY <1>1, <1>2, <1>3, TagStep

LEMMA InitAccountsInv == Compatible(stplan) /\ StInit => AccountsInv
<1> SUFFICES ASSUME Compatible(stplan), StInit PROVE AccountsInv
  OBVIOUS
<1>1. stplan \in StPlan /\ stplan \in StPlans
  BY StPlansAssumption DEF StInit
<1>2. StTypes
  <2>1. stplan.faults \in Nat /\ stplan.given \in [Account -> AccountRecord \cup {StNil}]
    BY <1>1 DEF StPlan
  <2>2. calls \in [Caller -> StRecord \cup {Waiting}] /\ fileCache \in [Account -> Setting \cup {StNil}]
    BY DEF StInit
  <2>3. stfaults \in 0..stplan.faults /\ ncalls \in 0..MaxStCalls
    BY <2>1, StPlansAssumption DEF StInit
  <2> QED BY <1>1, <2>1, <2>2, <2>3 DEF StInit, StTypes
<1>3. \A c \in Caller : calls[c].pc = "idle"
  BY DEF StInit, Waiting
<1>4. Fresh /\ CallsSoFar
  BY <1>3 DEF Fresh, CallsSoFar, CallSound, Unborn
<1>5. ServedSound
  BY DEF StInit, ServedSound, ReturnedAsAsked
<1>6. TagTypes
  BY DEF StInit, TagTypes
<1>7. TagsSound
  <2>1. \A t \in Tagger : tagging[t].pc = "idle" /\ due[t] = "out"
    BY DEF StInit, Waiting
  <2> QED BY <2>1 DEF StInit, TagsSound, Compatible
<1> QED BY <1>2, <1>4, <1>5, <1>6, <1>7 DEF AccountsInv

LEMMA NextAccountsInv == AccountsInv /\ [StNext]_stvars => AccountsInv'
<1> SUFFICES ASSUME AccountsInv, [StNext]_stvars PROVE AccountsInv'
  OBVIOUS
<1>1. ASSUME NEW c \in Caller, EnsureStorageAccount(c) \/ AccountExists(c) \/ ListAccounts(c) \/ MatchAccounts(c)
      PROVE  AccountsInv'
  BY <1>1, EnsureKeeps, ExistsKeeps, ListKeeps, MatchKeeps
<1>2. ASSUME NEW c \in Caller, FindZone(c) \/ createPrivateDNSZone(c) \/ FindLink(c) \/ createVNetLink(c)
      PROVE  AccountsInv'
  BY <1>2, FindZoneKeeps, MakeZoneKeeps, FindLinkKeeps, MakeLinkKeeps
<1>3. ASSUME NEW c \in Caller, CreateAccount(c) \/ SetBlobProperties(c) \/ GetFileProperties(c) \/ SetFileProperties(c)
      PROVE  AccountsInv'
  BY <1>3, CreateKeeps, BlobKeeps, GetFileKeeps, SetFileKeeps
<1>4. ASSUME NEW c \in Caller, createPrivateEndpoint(c) \/ createPrivateDNSZoneGroup(c) \/ GetStorageAccesskey(c)
      PROVE  AccountsInv'
  BY <1>4, EndpointKeeps, GroupKeeps, KeyKeeps
<1>5. ASSUME NEW a \in Account, ExpireFile(a) PROVE AccountsInv'
  BY <1>5, ExpireFileKeeps
<1>6. ASSUME NEW t \in Tagger, AskTag(t, "add") \/ AskTag(t, "remove") \/ ReadTags(t) \/ UpdateTags(t)
      PROVE  AccountsInv'
  BY <1>6, AskTagKeeps, ReadTagsKeeps, UpdateTagsKeeps
<1>7. CASE ExpireTags
  BY <1>7, ExpireTagsKeeps
<1>8. CASE UNCHANGED stvars
  <2>1. UNCHANGED <<stplan, accounts, zone, link, fileCache, calls, served, stfaults, ncalls>> /\ UNCHANGED Tags
    BY <1>8 DEF stvars, Tags
  <2>2. Persists /\ TagTypes' /\ TagsSound'
    BY <2>1, SamePersists, SameTags
  <2>3. /\ accounts' \in [Account -> AccountRecord \cup {StNil}] /\ fileCache' \in [Account -> Setting \cup {StNil}]
        /\ stfaults' \in 0..stplan.faults /\ ncalls' \in 0..MaxStCalls
    BY <2>1 DEF AccountsInv, StTypes
  <2> QED BY <2>1, <2>2, <2>3, RestKeeps
<1> QED BY <1>1, <1>2, <1>3, <1>4, <1>5, <1>6, <1>7, <1>8 DEF StNext

LEMMA AccountsInvariant == Compatible(stplan) /\ StSpec => []AccountsInv
  BY InitAccountsInv, NextAccountsInv, PTL DEF StSpec

\* Callers get accounts that are as they asked, for options that were served before no
\* account is made, and a tag that was added or removed with success stays so, for any
\* callers, accounts, taggers and failures, when no two callers disagree on an account
\* (EnsureStorageAccount, AddStorageAccountTags, RemoveStorageAccountTag).
THEOREM AccountsAreAsAnswered == Compatible(stplan) /\ StSpec => []AccountsAsAnswered
<1>1. AccountsInv => AccountsAsAnswered
  <2> SUFFICES ASSUME AccountsInv PROVE AccountsAsAnswered
    OBVIOUS
  <2>1. StTypeOK
    <3>1. \A c \in Caller : calls[c].pc \in {"idle", "exists", "list", "match"} \cup {CallSteps[i] : i \in 1..Len(CallSteps)}
      BY DEF AccountsInv, StTypes, StRecord, Waiting
    <3>2. \A t \in Tagger : tagging[t].pc \in {"idle", "read", "update"}
      BY DEF AccountsInv, TagTypes, Waiting
    <3> QED BY <3>1, <3>2 DEF StTypeOK, AccountsInv, StTypes, TagTypes
  <2>2. NoAccountPerVolume
    <3> SUFFICES ASSUME NEW c \in Caller, calls[c].pc = "create", Reusable(calls[c].o) PROVE calls[c].known = {}
      BY DEF NoAccountPerVolume, At
    <3> QED BY UnderWay DEF KnownSound, StepNeeded
  <2>3. TagsStay
    BY DEF AccountsInv, TagsSound, TagTypes, TagsStay
  <2> QED BY <2>1, <2>2, <2>3 DEF AccountsInv, ServedSound, AccountsAsAnswered
<1> QED BY <1>1, AccountsInvariant, PTL

=============================================================================
