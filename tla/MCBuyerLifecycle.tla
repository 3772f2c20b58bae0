-------------------------- MODULE MCBuyerLifecycle --------------------------
(* The small instances of BuyerLifecycle that TLC explores. *)
EXTENDS BuyerLifecycle, TLC

(* Interchangeable identities: no action or invariant tells them apart. *)
Symmetry ==
    Permutations(Buyers) \cup Permutations(Mailboxes) \cup Permutations(Suppliers)
        \cup Permutations(Sales) \cup Permutations(Times)
=============================================================================
