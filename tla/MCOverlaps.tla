------------------------------ MODULE MCOverlaps ------------------------------
(* The small instance of Overlaps that TLC explores. *)
EXTENDS Overlaps, TLC

MCMailboxes == Providers \X Addresses

Symmetry ==
    Permutations(Requests) \cup Permutations(Providers) \cup Permutations(Addresses)
        \cup Permutations(Suppliers) \cup Permutations(Sales) \cup Permutations(Times)
===============================================================================
