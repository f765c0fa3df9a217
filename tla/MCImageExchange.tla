--------------------------- MODULE MCImageExchange ---------------------------
(* Two pictures, two parts, three slots as in the firmware.                *)
EXTENDS ImageExchange, TLC

CONSTANTS i1, i2

Symmetry == Permutations({i1, i2})

(* The run with two pictures keeps the peer ready once it has been seen,   *)
(* leaves out link failures and recoveries and starts captures by remote   *)
(* command only: none of these looks at pictures, and the run with one     *)
(* picture covers them all.                                                *)
PicturesOnly == /\ recovery = "clear"
                /\ resume = "router"
                /\ peerReady \/ owners = [s \in Slots |-> {}]
=============================================================================
