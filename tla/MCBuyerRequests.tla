--------------------------- MODULE MCBuyerRequests ---------------------------
(* The small instances of BuyerRequests that TLC explores. *)
EXTENDS BuyerRequests, TLC

MCMailboxes == Providers \X Addresses

Symmetry ==
    Permutations(Requests) \cup Permutations(Providers) \cup Permutations(Addresses)
        \cup Permutations(Suppliers) \cup Permutations(Sales) \cup Permutations(Times)
=============================================================================
