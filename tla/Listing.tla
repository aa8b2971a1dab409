------------------------------- MODULE Listing -------------------------------
(***************************************************************************)
(* The two things that the program does to lists: the API orders rows, the *)
(* newest first, and the app filters what it has.  Both are written by     *)
(* counting, without recursion and without an operator for an argument,    *)
(* which proofs about them could not use.                                  *)
(***************************************************************************)
EXTENDS Naturals, FiniteSets, SequencesExt

(* orderBy: [{ savedAt: 'desc' }, { id: 'desc' }], rows being numbered in  *)
(* the order they were saved in.                                           *)
Newest(S) ==
    [k \in 1 .. Cardinality(S) |->
        CHOOSE n \in S : Cardinality({m \in S : m > n}) = k - 1]

(* list.filter(...): what is not of S, in its order.                       *)
Without(list, S) ==
    LET places == Reverse(Newest({i \in DOMAIN list : list[i] \notin S}))
    IN  [k \in DOMAIN places |-> list[places[k]]]
=============================================================================
