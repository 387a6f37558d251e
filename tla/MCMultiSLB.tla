----------------------------- MODULE MCMultiSLB -----------------------------
(* Values for the constants of MultiSLB that are functions.                 *)
EXTENDS MultiSLB, TLC

CONSTANTS n1, n2, s1, s2, v1, v2, v3, a, b

NoSelectors == [c \in 1..2 |-> Nil]
AnyConfig   == [s \in Services |-> {}]
FirstLabel  == [c \in 1..2 |-> IF c = 1 THEN {a} ELSE Nil]
OneVMSet    == [n \in Nodes |-> v1]
FirstPrimary == [c \in 1..2 |-> IF c = 1 THEN v1 ELSE v2]
OtherPrimary == [c \in 1..2 |-> IF c = 1 THEN v2 ELSE v3]
SecondNode == [c \in 1..2 |-> IF c = 2 THEN {n1} ELSE Nil]
FirstNamespace == [c \in 1..2 |-> IF c = 1 THEN {s1} ELSE Nil]
AnyFlags == [1..2 -> BOOLEAN]
AllAllowed == {[c \in 1..2 |-> TRUE]}

Symmetry == Permutations(Services)
=============================================================================
