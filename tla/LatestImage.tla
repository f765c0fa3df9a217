----------------------------- MODULE LatestImage -----------------------------
(***************************************************************************)
(* What the image path of a board promises its operator: one latest        *)
(* picture, replaced whole by a capture or by a complete reception and by  *)
(* nothing else; SHOW freezes the picture it found until it is left; a     *)
(* transmission sends the picture it captured, whatever arrives meanwhile. *)
(* (README: "A failed transfer does not replace the last valid image".)    *)
(***************************************************************************)
CONSTANTS Images, None

VARIABLES latest,    \* the latest valid picture
          shown,     \* the picture on the display
          sending    \* the picture being sent

vars == <<latest, shown, sending>>

Init == latest = None /\ shown = None /\ sending = None

Receive(i) == latest' = i /\ UNCHANGED <<shown, sending>>

Capture(i) == sending = None /\ latest' = i /\ sending' = i /\ UNCHANGED shown

Show == shown = None /\ latest # None /\ shown' = latest
        /\ UNCHANGED <<latest, sending>>

Leave == shown # None /\ shown' = None /\ UNCHANGED <<latest, sending>>

SendEnds == sending # None /\ sending' = None /\ UNCHANGED <<latest, shown>>

Next == \/ \E i \in Images : Receive(i) \/ Capture(i)
        \/ Show \/ Leave \/ SendEnds

Spec == Init /\ [][Next]_vars
=============================================================================
