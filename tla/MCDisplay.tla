------------------------------ MODULE MCDisplay ------------------------------
(* Two Wi-Fi events may wait, as in the firmware.                          *)
EXTENDS Display

(* While two wait, the display has handled what it was told: neither queue *)
(* looks at the other.                                                     *)
WifiFirst == Len(network_event_queue) = 2 => ui_queue = <<>>
=============================================================================
