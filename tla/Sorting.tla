------------------------------ MODULE Sorting ------------------------------
(***************************************************************************)
(* Go's sort package, as the algorithms on windows and samples use it.     *)
(* keys[i] is what element i is compared by; the indices of the elements   *)
(* are any finite set of numbers, such as the rows a query selects.        *)
(***************************************************************************)
EXTENDS Integers, Sequences, FiniteSets

\* Elements up to i in the order of their keys, equal keys in that of their
\* indices, and how many they are: the position of i.
UpTo(keys, i) ==
    {j \in DOMAIN keys : keys[j] < keys[i] \/ (keys[j] = keys[i] /\ j <= i)}
Place(keys, i) == Cardinality(UpTo(keys, i))

\* sort.SliceStable, and ORDER BY a column and then the index: the indices by
\* their positions.
StableOrder(keys) ==
    CHOOSE f \in [1..Cardinality(DOMAIN keys) -> DOMAIN keys] :
        \A k \in DOMAIN f : Place(keys, f[k]) = k

\* The outcomes of sort.Slice, which is not stable.
Orders(keys) ==
    {f \in [1..Cardinality(DOMAIN keys) -> DOMAIN keys] :
        /\ \A j, k \in DOMAIN f : f[j] = f[k] => j = k
        /\ \A j, k \in DOMAIN f : j < k => keys[f[j]] <= keys[f[k]]}

\* The elements of s in an order of their indices.
Arrange(s, order) == [k \in DOMAIN order |-> s[order[k]]]
============================================================================
