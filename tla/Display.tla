------------------------------- MODULE Display -------------------------------
(***************************************************************************)
(* What the display is told and what it shows.  Wi-Fi events reach the     *)
(* worker through one queue and display events reach the main thread       *)
(* through another; both drop what does not fit.  The main screen also     *)
(* polls the link snapshot, which the worker publishes only while the      *)
(* protocol runs.                                                          *)
(*                                                                         *)
(* Wi-Fi, the peer, the keys and the CFDP library decide freely what       *)
(* happens next.  The image and link views, in which the main screen is    *)
(* not refreshed, are left to the fairness of Refresh.                     *)
(***************************************************************************)
EXTENDS Naturals, Sequences

CONSTANTS NetworkDepth,  \* length of network_event_queue
          UiDepth        \* UI_QUEUE_DEPTH

ASSUME DepthAssumption == NetworkDepth \in Nat /\ UiDepth \in Nat

VARIABLES
  wifi,                    \* the station is associated
  network_event_queue, association_handled, protocol_ready,
  peer_ready,
  operation,               \* how far execute_send_operation is
  receiving, rx_terminal,  \* receiver.active; a terminal event not yet consumed
  snapshot,                \* link_snapshot.peer_available, once valid
  ui_queue,
  state, cfdp_tx_active, cfdp_rx_active, completion_pending,
  smooth                   \* history: no queue overflowed, the network was set up at
                           \* once and the library took what the display was told of

network  == <<wifi, network_event_queue, association_handled, protocol_ready>>
reception == <<receiving, rx_terminal>>
flags    == <<cfdp_tx_active, cfdp_rx_active>>
screen   == <<state, flags, completion_pending>>
vars == <<network, peer_ready, operation, reception, snapshot, ui_queue, screen, smooth>>

(* NO_PEER stands for PEER_ABSENT and LINK_RECOVERY, TRANSFER for TX, RX   *)
(* and DUPLEX, and NOTICE for BOOT, REQUEST, CAPTURING, BUSY, VERIFYING    *)
(* and FAILED, which only an event ends.                                   *)
Base   == {"NO_PEER", "IDLE"}
States == Base \cup {"TRANSFER", "COMPLETE", "NOTICE"}

(* NO_PEER and NOTICE stand for the events that do nothing but enter such  *)
(* a state.                                                                *)
Directions == {"TX", "RX"}
Event(type, detail) == [type |-> type, detail |-> detail]
Plain  == {"NO_PEER", "PEER_READY", "CFDP_TX", "CFDP_RX", "VERIFYING", "NOTICE"}
Events == [type : Plain, detail : {"none"}] \cup [type : {"COMPLETE"}, detail : Directions]
          \cup [type : {"FAILED"}, detail : Directions \cup {"none"}]

Init ==
  /\ wifi = FALSE /\ network_event_queue = <<>>
  /\ association_handled = FALSE /\ protocol_ready = FALSE
  /\ peer_ready = FALSE
  /\ operation = "none" /\ receiving = FALSE /\ rx_terminal = FALSE
  /\ snapshot = "none" /\ ui_queue = <<>>
  /\ state = "NOTICE" /\ cfdp_tx_active = FALSE /\ cfdp_rx_active = FALSE
  /\ completion_pending = FALSE
  /\ smooth = TRUE

(* ui_event: an event that does not fit is dropped.                        *)
RoomForOneMore == Len(ui_queue) <= UiDepth
Room == Len(ui_queue) < UiDepth

Queued(event) == ui_queue' = IF Room THEN Append(ui_queue, event) ELSE ui_queue

Post(type, detail) == Queued(Event(type, detail)) /\ smooth' = (smooth /\ Room)
Tell(type) == Post(type, "none")
Silent == UNCHANGED <<ui_queue, smooth>>

(* The worker is not in the middle of a send operation.                    *)
Free == operation \in {"none", "sending"}

-----------------------------------------------------------------------------
(* wifi_event_handler and the worker's handling of its events.             *)

WifiEvent(up) ==
  /\ up => ~wifi
  /\ wifi' = up
  /\ IF Len(network_event_queue) < NetworkDepth
     THEN /\ network_event_queue' = Append(network_event_queue,
                                           IF up THEN "associated" ELSE "disconnected")
          /\ UNCHANGED smooth
     ELSE UNCHANGED network_event_queue /\ smooth' = FALSE
  /\ UNCHANGED <<association_handled, protocol_ready, peer_ready, operation, reception,
                 snapshot, ui_queue, screen>>

Take(type) ==
  /\ Free
  /\ network_event_queue # <<>> /\ Head(network_event_queue) = type
  /\ network_event_queue' = Tail(network_event_queue)
  /\ UNCHANGED <<wifi, operation, reception, snapshot, screen>>

Associated ==
  /\ Take("associated") /\ ~association_handled
  /\ association_handled' = TRUE /\ protocol_ready' = TRUE
  /\ Tell("NO_PEER")
  /\ UNCHANGED peer_ready

(* apply_static_ipv4 or initialize_protocol fails.                         *)
NotInitialized ==
  /\ Take("associated") /\ ~association_handled
  /\ association_handled' = TRUE
  /\ Queued(Event("NOTICE", "none")) /\ smooth' = FALSE
  /\ UNCHANGED <<protocol_ready, peer_ready>>

AlreadyAssociated ==
  /\ Take("associated") /\ association_handled
  /\ Silent
  /\ UNCHANGED <<association_handled, protocol_ready, peer_ready>>

DisconnectedStillHandled ==
  /\ Take("disconnected")
  /\ protocol_ready' = FALSE /\ peer_ready' = FALSE
  /\ Tell("NOTICE")
  /\ UNCHANGED association_handled

Disconnected ==
  /\ Take("disconnected")
  /\ association_handled' = FALSE /\ protocol_ready' = FALSE /\ peer_ready' = FALSE
  /\ Tell("NOTICE")

-----------------------------------------------------------------------------
(* The peer and the link.                                                  *)

Peer(ready) ==
  /\ Free /\ peer_ready' = ready
  /\ UNCHANGED <<network, operation, reception, snapshot, screen>>

(* process_peer_status; a status may have been left in the queue when the  *)
(* network went down.                                                      *)
PeerValid   == ~peer_ready /\ Peer(TRUE) /\ Tell("PEER_READY")
PeerInvalid == Peer(FALSE) /\ Tell("NOTICE")

(* PEER_TIMEOUT_MS                                                         *)
PeerSilent ==
  /\ protocol_ready /\ peer_ready /\ operation = "none" /\ ~receiving
  /\ Peer(FALSE) /\ Tell("NO_PEER")

(* advance_link_sync                                                       *)
LinkFails == protocol_ready /\ Peer(FALSE) /\ Tell("NO_PEER")

(* recover_from_restart_clcw: the display is not told.                     *)
PeerRestarted == Peer(FALSE) /\ Silent

Published(ready) == IF ready THEN "present" ELSE "absent"

(* publish_link_snapshot, called by the worker while the protocol is ready *)
Publish ==
  /\ Free /\ protocol_ready
  /\ snapshot' = Published(peer_ready)
  /\ UNCHANGED <<network, peer_ready, operation, reception, ui_queue, screen, smooth>>

(* process_link_action; the snapshot is published whatever the outcome.    *)
LinkAction ==
  /\ Free /\ protocol_ready
  /\ \/ UNCHANGED peer_ready
     \/ operation = "none" /\ ~receiving /\ peer_ready' = FALSE
  /\ snapshot' = Published(peer_ready')
  /\ UNCHANGED <<network, operation, reception, ui_queue, screen, smooth>>

-----------------------------------------------------------------------------
(* process_actions, process_capture_command and execute_send_operation.    *)

Operation(from, to) ==
  /\ operation = from /\ operation' = to
  /\ UNCHANGED <<network, peer_ready, reception, snapshot, screen>>

(* A local operation is told BUSY, or that there is no peer; so is a       *)
(* request, one that the link does not take, and a local operation that    *)
(* has failed.  REQUEST announces a request that was sent or received.     *)
ActionReported ==
  /\ Free /\ Operation(operation, operation)
  /\ \/ protocol_ready /\ Tell("NO_PEER")
     \/ Tell("NOTICE")

Capture ==
  /\ peer_ready /\ protocol_ready
  /\ Operation("none", "capturing") /\ Tell("NOTICE")

Captured == Operation("capturing", "starting") /\ Tell("CFDP_TX")

TransferStarts == Operation("starting", "sending") /\ Silent

CaptureFails == Operation("capturing", "none") /\ Post("FAILED", "none")

(* The display takes the library's status for a direction if it has the    *)
(* value of one.                                                           *)
TransferRefused ==
  /\ Operation("starting", "none")
  /\ \/ Post("FAILED", "none")
     \/ Queued(Event("FAILED", "RX")) /\ smooth' = FALSE

Results == {"COMPLETE", "FAILED"}

TxEndsAsReception ==
  Operation("sending", "none") /\ \E result \in Results : Post(result, "RX")

(* process_cfdp_events for a sender                                        *)
TxEnds == Operation("sending", "none") /\ \E result \in Results : Post(result, "TX")

-----------------------------------------------------------------------------
(* Receptions: process_router_messages, receive_commit and                 *)
(* process_cfdp_events.                                                    *)

Reception == Free /\ UNCHANGED <<network, peer_ready, operation, snapshot, screen>>

RxStarts ==
  /\ Reception /\ ~receiving /\ receiving' = TRUE
  /\ Tell("CFDP_RX")
  /\ UNCHANGED rx_terminal

(* The display is told of a reception that the library then refuses.       *)
RxRefused ==
  /\ Reception /\ ~receiving
  /\ Queued(Event("CFDP_RX", "none")) /\ smooth' = FALSE
  /\ UNCHANGED reception

Verifies == Reception /\ receiving /\ Tell("VERIFYING") /\ UNCHANGED reception

(* The terminal event of a direction is kept until it is consumed.         *)
RxTerminal ==
  /\ Reception /\ receiving
  /\ receiving' = FALSE /\ rx_terminal' = TRUE
  /\ Silent

RxEnds ==
  /\ Reception /\ rx_terminal /\ rx_terminal' = FALSE
  /\ \E result \in Results : Post(result, "RX")
  /\ UNCHANGED receiving

-----------------------------------------------------------------------------
(* demo_ui_handle_event                                                    *)

(* What an event leaves of a transfer it may have ended.                   *)
Ended(event) ==
  /\ cfdp_tx_active' = (cfdp_tx_active /\ event.detail = "RX")
  /\ cfdp_rx_active' = (cfdp_rx_active /\ event.detail = "TX")

StateAfter(type) == IF type = "PEER_READY" THEN "IDLE" ELSE type

Started(type) ==
  /\ cfdp_tx_active' = (cfdp_tx_active \/ type = "CFDP_TX")
  /\ cfdp_rx_active' = (cfdp_rx_active \/ type = "CFDP_RX")
  /\ state' = "TRANSFER" /\ completion_pending' = FALSE

(* A transfer that ends early in its animation is completed by the tick.   *)
Completed(event) ==
  /\ Ended(event)
  /\ \/ /\ cfdp_tx_active' \/ cfdp_rx_active'
        /\ state' = "TRANSFER" /\ UNCHANGED completion_pending
     \/ /\ ~(cfdp_tx_active' \/ cfdp_rx_active')
        /\ \/ completion_pending' = TRUE /\ UNCHANGED state
           \/ state' = "COMPLETE" /\ UNCHANGED completion_pending

Failed(event) == Ended(event) /\ state' = "NOTICE" /\ completion_pending' = FALSE

Handle(event) ==
  CASE event.type \in {"CFDP_TX", "CFDP_RX"} -> Started(event.type)
    [] event.type = "COMPLETE" -> Completed(event)
    [] event.type = "FAILED"   -> Failed(event)
    [] event.type = "VERIFYING" ->
         /\ state' = IF cfdp_rx_active THEN state ELSE "NOTICE"
         /\ UNCHANGED <<flags, completion_pending>>
    [] OTHER -> state' = StateAfter(event.type) /\ UNCHANGED <<flags, completion_pending>>

HandleEvent ==
  /\ ui_queue # <<>>
  /\ ui_queue' = Tail(ui_queue)
  /\ Handle(Head(ui_queue))
  /\ UNCHANGED <<network, peer_ready, operation, reception, snapshot, smooth>>

-----------------------------------------------------------------------------
(* demo_ui_tick: the main screen follows the link snapshot in its idle     *)
(* states; a completion is shown for a while.  main: a key whose action    *)
(* finds the action queue full is reported at once.                        *)

Show(next) ==
  /\ state' = next
  /\ UNCHANGED <<network, peer_ready, operation, reception, snapshot, ui_queue, flags, smooth>>

RefreshWithoutPeer ==
  /\ state = "NO_PEER" /\ snapshot # "none"
  /\ Show(IF snapshot = "present" THEN "IDLE" ELSE "NO_PEER")
  /\ UNCHANGED completion_pending

Refresh ==
  /\ state \in Base /\ snapshot # "none"
  /\ Show(IF snapshot = "present" THEN "IDLE" ELSE "NO_PEER")
  /\ UNCHANGED completion_pending

CompletionDue  == completion_pending /\ completion_pending' = FALSE /\ Show("COMPLETE")
CompletionOver == state = "COMPLETE" /\ Show("IDLE") /\ UNCHANGED completion_pending
ReportBusy     == Show("NOTICE") /\ UNCHANGED completion_pending

-----------------------------------------------------------------------------
Network   == Associated \/ NotInitialized \/ AlreadyAssociated \/ Disconnected
SendSteps == CaptureFails \/ Captured \/ TransferStarts \/ TransferRefused
Tick      == Refresh \/ CompletionDue \/ CompletionOver

Next ==
  \/ (\E up \in BOOLEAN : WifiEvent(up)) \/ Network
  \/ PeerValid \/ PeerInvalid \/ PeerSilent \/ LinkFails \/ PeerRestarted
  \/ Publish \/ LinkAction
  \/ ActionReported \/ Capture \/ SendSteps \/ TxEnds
  \/ RxStarts \/ RxRefused \/ Verifies \/ RxTerminal \/ RxEnds
  \/ HandleEvent \/ Tick \/ ReportBusy

Spec == Init /\ [][Next]_vars

(* The worker's loop takes the Wi-Fi events and publishes the snapshot     *)
(* whenever it is not busy with an operation, which ends; the main loop    *)
(* handles the events and ticks.                                           *)
Fairness ==
  /\ SF_vars(Network) /\ WF_vars(SendSteps) /\ SF_vars(Publish)
  /\ WF_vars(HandleEvent) /\ SF_vars(Refresh)

FairSpec == Spec /\ Fairness

-----------------------------------------------------------------------------
(* The queues keep to their types and lengths, and everything else to its  *)
(* type.                                                                   *)
TypeOK ==
  /\ wifi \in BOOLEAN /\ association_handled \in BOOLEAN /\ protocol_ready \in BOOLEAN
  /\ network_event_queue \in Seq({"associated", "disconnected"})
  /\ Len(network_event_queue) <= NetworkDepth
  /\ peer_ready \in BOOLEAN
  /\ operation \in {"none", "capturing", "starting", "sending"}
  /\ receiving \in BOOLEAN /\ rx_terminal \in BOOLEAN
  /\ snapshot \in {"none", "absent", "present"}
  /\ ui_queue \in Seq(Events) /\ Len(ui_queue) <= UiDepth
  /\ state \in States
  /\ cfdp_tx_active \in BOOLEAN /\ cfdp_rx_active \in BOOLEAN
  /\ completion_pending \in BOOLEAN /\ smooth \in BOOLEAN

(* Once the display has handled what it was told, it shows a transmission  *)
(* exactly while one is starting or running, and a reception only while    *)
(* one runs or its end is about to be told: an event that was dropped, or  *)
(* that names the wrong direction, would leave a bar moving for ever.  (A  *)
(* reception that starts before the end of the one before it is told is    *)
(* not shown.)                                                             *)
FlagsTrue ==
  smooth /\ ui_queue = <<>> =>
    /\ cfdp_tx_active <=> operation \in {"starting", "sending"}
    /\ cfdp_rx_active => receiving \/ rx_terminal

(* Whatever events were lost, a display that stays in its idle states      *)
(* while the network is up shows the peer as it is again and again.  (It   *)
(* need not do so all the time: a request that the link does not take      *)
(* shows the peer absent until the next refresh.)                          *)
FollowsPeer ==
  <>[](protocol_ready /\ state \in Base) => []<>(state = "IDLE" <=> peer_ready)

(* If no event was lost and the protocol could be started, the last word   *)
(* about Wi-Fi, be it the youngest event that still waits or what the      *)
(* worker made of those it handled, agrees with the station: events queued *)
(* behind one another leave the protocol where the last of them says       *)
(* (wifi_event_handler, worker).                                           *)
LastWord == IF network_event_queue = <<>> THEN protocol_ready
            ELSE network_event_queue[Len(network_event_queue)] = "associated"

NetworkTold == smooth => (LastWord <=> wifi)

(* So the protocol runs again whenever Wi-Fi stays up, however often it    *)
(* went up and down before and however many events waited meanwhile.       *)
NetworkFollowed == <>[](smooth /\ wifi) => <>[]protocol_ready
=============================================================================
