---------------------------- MODULE ShipmentAlbum ----------------------------
(****************************************************************************)
(* What the shipments of a buyer promise to who looks at them: a picture is *)
(* put up whole, is taken down for good, and no other picture takes its     *)
(* place.                                                                   *)
(****************************************************************************)
CONSTANT Pictures

VARIABLES
    shown,  \* the pictures on view
    past    \* those taken down, or given up before they were shown

albumVars == <<shown, past>>

AlbumInit == shown = {} /\ past = {}

PutUp(f) ==
    /\ f \notin shown \cup past
    /\ shown' = shown \cup {f}
    /\ past' = past

TakeDown(f) ==
    /\ f \notin past
    /\ shown' = shown \ {f}
    /\ past' = past \cup {f}

AlbumNext == \E f \in Pictures : PutUp(f) \/ TakeDown(f)

AlbumSpec == AlbumInit /\ [][AlbumNext]_albumVars
=============================================================================
