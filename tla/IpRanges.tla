------------------------------- MODULE IpRanges -------------------------------
(***************************************************************************)
(* The aggregation of IP ranges before they become the sources of a        *)
(* security rule (pkg/util/iputil): by a stack over the sorted ranges, and *)
(* by a prefix tree.  An address is the string of its AddrBits bits; a     *)
(* range, which ParsePrefix accepts only when it is masked, is the string  *)
(* of its fixed bits.  One IP family.  The variable is the list of ranges  *)
(* a user has written, in the order of writing.                            *)
(***************************************************************************)
EXTENDS Naturals, Sequences, FiniteSets

CONSTANTS
    AddrBits,      \* 32 and 128 in the code
    MaxRanges

ASSUME AddrAssumption == AddrBits \in Nat /\ MaxRanges \in Nat

VARIABLE ranges

Bit == {0, 1}

Addr == [1..AddrBits -> Bit]

Ranges == UNION {[1..n -> Bit] : n \in 0..AddrBits}

RInit == ranges = <<>>

AddRange(p) == Len(ranges) < MaxRanges /\ ranges' = Append(ranges, p)

RNext == \E p \in Ranges : AddRange(p)

RSpec == RInit /\ [][RNext]_ranges
------------------------------------------------------------------------------
\* p contains o: not longer, and they overlap.
ContainsPrefix(p, o) == Len(p) <= Len(o) /\ \A i \in 1..Len(p) : p[i] = o[i]

IsPrefixesAllowAll(ps) == \E p \in ps : Len(p) = 0

\* The range with one bit less.
Parent(p) == [i \in 1..Len(p) - 1 |-> p[i]]

SetLastBit(p) == [p EXCEPT ![Len(p)] = 1]

\* Two ranges that differ in the last fixed bit only.
Adjacent(p, q) ==
    /\ Len(p) = Len(q) /\ Len(p) # 0
    /\ IF p[Len(p)] = 0 THEN SetLastBit(p) = q ELSE SetLastBit(q) = p

\* The last two ranges become one if they are adjacent.
mergeAdjacentPrefixes[st \in Seq(Ranges)] ==
    IF Len(st) >= 2 /\ Adjacent(st[Len(st) - 1], st[Len(st)])
    THEN Append(SubSeq(st, 1, Len(st) - 2), Parent(st[Len(st) - 1])) ELSE st

\* As often as it succeeds, which is less often than the stack is high.
mergeAll(st) ==
    LET after[k \in 0..Len(st)] ==
          IF k = 0 THEN st ELSE mergeAdjacentPrefixes[after[k - 1]]
    IN  after[Len(st)]

\* The first address of a range.
Padded(p) == [i \in 1..AddrBits |-> IF i <= Len(p) THEN p[i] ELSE 0]

AddrLess(a, b) == \E k \in 1..AddrBits : a[k] < b[k] /\ \A i \in 1..k - 1 : a[i] = b[i]

Before(p, q) ==
    \/ AddrLess(Padded(p), Padded(q))
    \/ Padded(p) = Padded(q) /\ Len(p) < Len(q)

Sorted(ps) ==
    CHOOSE list \in [1..Cardinality(ps) -> ps] :
        \A i, j \in 1..Cardinality(ps) : i < j => Before(list[i], list[j])

\* What one range of the sorted list does to the stack.
Push(p) ==
    [st \in Seq(Ranges) |->
        IF st # <<>> /\ ContainsPrefix(st[Len(st)], p) THEN st ELSE mergeAll(Append(st, p))]

\* The stack after each range of the sorted list.
AggregatePrefixes(ps) ==
    LET list == Sorted(ps)
        stack[i \in 0..Cardinality(ps)] ==
          IF i = 0 THEN <<>> ELSE Push(list[i])[stack[i - 1]]
    IN  stack[Cardinality(ps)]
------------------------------------------------------------------------------
(* The prefix tree as the set of its masked nodes. *)

\* Mutant: the nodes below a new masked node stay.
BugAddNode(tree, p) ==
    IF \E q \in tree : ContainsPrefix(q, p) THEN tree ELSE tree \cup {p}

AddNode(tree, p) ==
    IF \E q \in tree : ContainsPrefix(q, p) THEN tree
    ELSE {q \in tree : ~ContainsPrefix(p, q)} \cup {p}

Children(p) == {Append(p, b) : b \in Bit}

\* Two masked siblings make their parent masked.
pruneNode(nodes, p) ==
    IF Children(p) \subseteq nodes THEN (nodes \ Children(p)) \cup {p} ELSE nodes

\* Round k looks at the parent with k fixed bits less; a round after one that
\* found a sibling unmasked finds none to merge, since the parent it left is not
\* masked.
pruneToRoot(nodes, p) ==
    LET tree[k \in 0..Len(p)] ==
          IF k = 0 THEN nodes ELSE pruneNode(tree[k - 1], SubSeq(p, 1, Len(p) - k))
    IN  tree[Len(p)]

\* A range that a masked node holds ends the walk there, and that node, whose
\* sibling is not masked, stays as it is.
Add(nodes, p) ==
    IF \E q \in nodes : ContainsPrefix(q, p) THEN nodes
    ELSE pruneToRoot(AddNode(nodes, p), p)

AggregatePrefixesWithPrefixTree(list) ==
    LET tree[i \in 0..Len(list)] ==
          IF i = 0 THEN {} ELSE Add(tree[i - 1], list[i])
    IN  tree[Len(list)]
------------------------------------------------------------------------------
Written == {ranges[i] : i \in 1..Len(ranges)}

Cover(ps) == {a \in Addr : \E p \in ps : ContainsPrefix(p, a)}

\* The ranges of a list, as a set.
Elements(st) == {st[i] : i \in 1..Len(st)}

\* No two ranges overlap or could be merged.
Shortest(ps) ==
    \A p, q \in ps : p # q =>
        /\ ~ContainsPrefix(p, q)
        /\ ~(Len(p) = Len(q) /\ Len(p) # 0 /\ Parent(p) = Parent(q))

\* Whatever ranges are written, the aggregated ones cover exactly the same
\* addresses and cannot be made fewer: no two overlap or could be merged.
AggregateExact ==
    LET out == Elements(AggregatePrefixes(Written))
    IN  Cover(out) = Cover(Written) /\ Shortest(out)

\* "While it achieves the same result as AggregatePrefixes": the tree, fed
\* in the order of writing, yields the ranges of the stack.
TreeAgrees ==
    AggregatePrefixesWithPrefixTree(ranges) = Elements(AggregatePrefixes(Written))

\* Both aggregations yield the one shortest list of ranges that lets the same
\* addresses through (AggregatePrefixes, AggregatePrefixesWithPrefixTree).
AggregationSound == AggregateExact /\ TreeAgrees
==============================================================================
