---------------------------- MODULE MCOAuthState -----------------------------
(* Small instances of OAuthState. *)
EXTENDS OAuthState, TLC

(* Nothing orders browsers, cards, providers, nonces or requests.          *)
Symmetry ==
    Permutations(Browsers) \cup Permutations(Cards) \cup Permutations(Providers)
        \cup Permutations(Nonces) \cup Permutations(Visits)
=============================================================================
