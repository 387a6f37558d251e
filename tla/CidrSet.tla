------------------------------ MODULE CidrSet ------------------------------
(***************************************************************************)
(* The bitmap of pkg/nodeipam/ipam/cidrset: which blocks of a cluster CIDR *)
(* are taken.                                                              *)
(*                                                                         *)
(* The cluster CIDR is a range of units, the smallest blocks a node can    *)
(* get; a CIDR is an aligned range [at, at + size) of units.  grain is the *)
(* number of units of one bit of the bitmap (2^(finest - nodeMaskSize)).   *)
(***************************************************************************)
EXTENDS Integers, FiniteSets, FiniteSetsExt

Cidr(at, size) == [at |-> at, size |-> size]

Units(c) == c.at..(c.at + c.size - 1)

NewCIDRSet(size, grain) ==
    [size |-> size, grain |-> grain, used |-> {}, count |-> 0, next |-> 0]

maxCIDRs(s) == s.size \div s.grain

\* getBeginningAndEndIndices; the empty set for a CIDR out of the range.
Indices(s, c) ==
    IF c.at >= s.size THEN {}
    ELSE IF c.size >= s.size THEN 0..(maxCIDRs(s) - 1)
    ELSE (c.at \div s.grain)..((c.at + c.size - 1) \div s.grain)

\* Occupy and Release count only the bits they change.
Mark(s, bits) ==
    [s EXCEPT !.used = @ \cup bits, !.count = @ + Cardinality(bits \ s.used)]

Occupy(s, c) == Mark(s, Indices(s, c))

\* One Occupy after another, in any order.
OccupyAll(s, cidrs) == Mark(s, UNION {Indices(s, c) : c \in cidrs})

Release(s, c) ==
    LET old == Indices(s, c) \cap s.used IN
    [s EXCEPT !.used = @ \ old, !.count = @ - Cardinality(old)]

\* AllocateNext: the first free bit from nextCandidate on, cyclically; when
\* every bit is taken though the counter says otherwise, nextCandidate itself.
NoneLeft(s) == s.count = maxCIDRs(s)

NextIndex(s) ==
    LET m == maxCIDRs(s)
        at(i) == (s.next + i) % m
        free == {i \in 0..(m - 1) : at(i) \notin s.used}
    IN IF free = {} THEN s.next ELSE at(Min(free))

AllocateNext(s) ==
    LET i == NextIndex(s) IN
    [s EXCEPT !.used = @ \cup {i}, !.count = @ + 1, !.next = (i + 1) % maxCIDRs(s)]

BugNextBlock(s) == Cidr(s.next * s.grain, s.grain)

NextBlock(s) == Cidr(NextIndex(s) * s.grain, s.grain)

\* AllocateNextWithNodeMaskSize: the first aligned run of free bits of the
\* size of the node's mask; nextCandidate plays no part.
FreeRuns(s, size) ==
    LET n == size \div s.grain IN
    IF maxCIDRs(s) - s.count < n THEN {}
    ELSE {i \in 0..(maxCIDRs(s) - n) : i % n = 0 /\ i..(i + n - 1) \cap s.used = {}}

AllocateNextWithNodeMaskSize(s, size) ==
    LET i == Min(FreeRuns(s, size))
        n == size \div s.grain
    IN [s EXCEPT !.used = @ \cup i..(i + n - 1), !.count = @ + n]

NextRun(s, size) == Cidr(Min(FreeRuns(s, size)) * s.grain, size)

\* UpdateSubnetMaskSize: a finer mask starts a new bitmap from the CIDRs given,
\* one count for each index of each of them.
UpdateSubnetMaskSize(s, grain, cidrs) ==
    IF s.grain <= grain THEN s
    ELSE LET t == [s EXCEPT !.grain = grain] IN
         [t EXCEPT !.used = UNION {Indices(t, c) : c \in cidrs},
                   !.count = MapThenSumSet(LAMBDA c : Cardinality(Indices(t, c)), cidrs)]
=============================================================================
