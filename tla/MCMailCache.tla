---------------------------- MODULE MCMailCache ----------------------------
(* Small instances of MailCache. *)
EXTENDS MailCache, TLC

(* Nothing orders polls or mailboxes. *)
Symmetry == Permutations(Polls) \cup Permutations(Mailboxes)
=============================================================================
