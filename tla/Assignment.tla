------------------------------ MODULE Assignment ------------------------------
(***************************************************************************)
(* What the assignment solver is used for: pairs that are not allowed cost *)
(* far more than all others, so that as many pairs as possible are chosen, *)
(* and of these choices one of least cost.  The solver does not say which. *)
(***************************************************************************)
EXTENDS Integers, FiniteSets, FiniteSetsExt

\* The sets of pairs in which nothing occurs twice.
Matchings(pairs) ==
    {A \in SUBSET pairs : \A a, b \in A : a[1] = b[1] \/ a[2] = b[2] => a = b}

Cost(A, CostOf(_)) == MapThenSumSet(CostOf, A)

Assignments(pairs, CostOf(_)) ==
    {A \in Matchings(pairs) :
        \A B \in Matchings(pairs) :
            \/ Cardinality(B) < Cardinality(A)
            \/ Cardinality(B) = Cardinality(A) /\ Cost(A, CostOf) <= Cost(B, CostOf)}

===============================================================================
