------------------------------ MODULE Numbering ------------------------------
(****************************************************************************)
(* What the numbers of shipments promise: as long as the process lives,     *)
(* every number drawn is greater than the one before it.  A new process     *)
(* begins a new era and promises nothing about the old one: it remembers    *)
(* no number.                                                               *)
(****************************************************************************)
EXTENDS Integers

VARIABLES
    era,    \* which process draws
    last    \* the greatest number it has drawn, or a number it never draws

NumberingVars == <<era, last>>

NumberingInit == era = 0 /\ last \in Int

Draw ==
    /\ last' \in Int /\ last' > last
    /\ era' = era

NewEra ==
    /\ era' = era + 1
    /\ last' \in Int

NumberingNext == Draw \/ NewEra

NumberingSpec == NumberingInit /\ [][NumberingNext]_NumberingVars
=============================================================================
