--------------------------- MODULE MCSdlsFeedback ---------------------------
(* Two reports; the 256 numbers an FSR can carry do not wrap within the    *)
(* bound on frames.                                                        *)
EXTENDS SdlsFeedback

BothReports     == {7, 8}
LinkAndRestart  == {"lost", "reboot"}
LinkAndOperator == {"lost", "sync"}
=============================================================================
