------------------------------- MODULE Overlaps -------------------------------
(****************************************************************************)
(* What overlapping requests do to each other: BuyerRequests, and for each  *)
(* request under way whether another one has changed something that it has  *)
(* in hand.  The program does not know: its rows have no concurrency token. *)
(****************************************************************************)
EXTENDS BuyerRequests

VARIABLE touched    \* requests whose cards others have changed (history)

overlapVars == <<allVars, touched>>

(* The cards that a request reads, writes or inserts.                      *)
CardsOf(r) == ({r.buyer} \ {None}) \cup r.insert
                 \cup {b \in Buyers : r.changes[b] # NoChange}

Changed(b) == \/ row'[b] # row[b] \/ account'[b] # account[b]
              \/ assignment'[b] # assignment[b] \/ (b \in cards') # (b \in cards)

(* A step changes a card of q, or the suppliers that q has looked at.      *)
Touches(q) ==
    \/ \E b \in CardsOf(req[q]) : Changed(b)
    \/ active' # active /\ req[q].phase \in {"existing", "save"}

InitOverlaps == InitRequests /\ touched = {}

NextOverlaps ==
    /\ NextRequests
    /\ touched' = {q \in Requests : req'[q] # Idle /\ (q \in touched \/ Touches(q))}

SpecOverlaps == InitOverlaps /\ [][NextOverlaps]_overlapVars

(* Requests race in one way only.  A save whose cards no other request has *)
(* changed since it took them in hand does to the rows, as they are at the *)
(* save, what its handler does alone, and a token that opened its mailbox  *)
(* still does: whatever other requests are under way on the same cards,    *)
(* whatever they have read, and whatever became of the rows before.  So a  *)
(* sent card is sent again, a first use dated again, a decision, a mailbox *)
(* under processing or a new cycle overwritten only by a save whose row    *)
(* another save has changed under it.                                      *)
UntouchedIsSerial ==
    [][ \A q \in Requests \ touched :
            SaveChanges(q) => /\ Next
                              /\ \A b \in Buyers : token[b] = account[b]
                                                   => token'[b] = account'[b] ]_overlapVars
=============================================================================
