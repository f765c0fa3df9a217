---------------------------- MODULE ImageExchange ----------------------------
(***************************************************************************)
(* The image path of one board: the worker thread of src/demo_service.c    *)
(* that captures, sends and receives images, the CFDP library it drives    *)
(* (external: one sending and one receiving transaction), and the UI       *)
(* thread that shows the latest image.  All of them share the slots of     *)
(* ImageStore under image_lock, except that the camera and the display     *)
(* driver touch an object outside the lock.                                *)
(*                                                                         *)
(* The worker runs its loop in the order of worker(): ingress, router,     *)
(* events, actions and tick (which here includes the polls and timers that *)
(* end the iteration).  A packet submission blocks in                      *)
(* submit_packet_owned, which keeps draining datagrams: at those points    *)
(* (Pumping) a peer restart may be noticed and every CFDP transaction      *)
(* aborted under the caller's feet.                                        *)
(***************************************************************************)
EXTENDS ImageStore

VARIABLES
  \* shared under image_lock
  owners,            \* slot -> set of owners
  objects,           \* slot -> image object
  source,            \* image_source
  receiver,          \* image_receiver
  \* worker thread
  pc,                \* where the worker is
  resume,            \* the loop phase a send operation was started from
  staging,           \* execute_send_operation's local slot pointer
  txSlot,            \* tx_slot
  operationActive,   \* operation_active
  outgoingActive,    \* outgoing_active
  peerReady,         \* peer_ready
  recovery,          \* why the link holds application traffic, if it does
  terminal,          \* callback_terminal: the first unconsumed event
  snapshot,          \* process_cfdp_events' copy of it
  \* CFDP library
  cfdpTx,            \* is a sending transaction active?
  rx,                \* the receiving transaction
  \* UI thread
  displayed,         \* displayed_image
  \* ghosts
  opImage,           \* the picture the active operation captured
  sent               \* the pictures its transaction has read parts of

store   == <<owners, objects>>
link    == <<peerReady, recovery>>
worker  == <<staging, txSlot, operationActive, outgoingActive, resume>>
events  == <<terminal, snapshot>>
ghosts  == <<opImage, sent>>
vars == <<owners, objects, source, receiver, pc, resume, staging, txSlot,
          operationActive, outgoingActive, peerReady, recovery,
          terminal, snapshot, cfdpTx, rx, displayed, opImage, sent>>

Direction == {"SENDER", "RECEIVER"}
Event     == {"None", "COMPLETE", "FAILED"}
Loop      == {"ingress", "router", "txEvent", "rxEvent", "actions", "tick"}
Sending   == {"accepted", "capture", "acquire", "encode", "publish", "emit"}

(* Why application traffic is held: the link is down (LINK_SYNC_FAILED),   *)
(* it has returned and no election has started, or an election is open.    *)
(* The peer's part of an election goes through the router, so one that has *)
(* just started ("opening") is not over before the router has run again.   *)
Recovery  == {"clear", "opening", "electing", "returned", "failed"}

(* The transaction the library is receiving: handle is what open_write_tmp *)
(* returned, image the file the peer sends, got the parts written so far.  *)
(* fresh says that the file was opened in the current pass of the router:  *)
(* a file is some 120 PDUs and the router queue holds 8, so a reception    *)
(* is never opened and committed in one pass.                              *)
Reception == [phase : {"idle", "receiving", "finished"},
              handle : Slots \cup {NoSlot}, image : Images \cup {Zero},
              got : SUBSET Parts, fresh : BOOLEAN]

NoTransaction ==
  [phase |-> "idle", handle |-> NoSlot, image |-> Zero, got |-> {},
   fresh |-> FALSE]

NoEvents  == [d \in Direction |-> "None"]

TypeOK ==
  /\ owners \in [Slots -> SUBSET Owner]
  /\ objects \in [Slots -> Object]
  /\ source \in Source
  /\ receiver \in Receiver
  /\ pc \in Loop \cup Sending \cup {"txReply"}
  /\ resume \in {"router", "actions"}
  /\ staging \in Slots \cup {NoSlot}
  /\ txSlot \in Slots \cup {NoSlot}
  /\ operationActive \in BOOLEAN
  /\ outgoingActive \in BOOLEAN
  /\ peerReady \in BOOLEAN
  /\ recovery \in Recovery
  /\ terminal \in [Direction -> Event]
  /\ snapshot \in [Direction -> Event]
  /\ cfdpTx \in BOOLEAN
  /\ rx \in Reception
  /\ displayed \in Slots \cup {NoSlot}
  /\ opImage \in Images \cup {Zero}
  /\ sent \in SUBSET (Images \cup {Zero})

Init ==
  /\ owners = [s \in Slots |-> {}]
  /\ objects = [s \in Slots |-> Blank]
  /\ source = UnboundSource
  /\ receiver = NoReception
  /\ pc = "ingress"
  /\ resume = "router"
  /\ staging = NoSlot
  /\ txSlot = NoSlot
  /\ operationActive = FALSE
  /\ outgoingActive = FALSE
  /\ peerReady = FALSE
  /\ recovery = "clear"
  /\ terminal = NoEvents
  /\ snapshot = NoEvents
  /\ cfdpTx = FALSE
  /\ rx = NoTransaction
  /\ displayed = NoSlot
  /\ opImage = Zero
  /\ sent = {}

-----------------------------------------------------------------------------
(* A mutant with one slot for the events of both directions.               *)
LatchShared(t, d, e) ==
  IF \A c \in Direction : t[c] = "None" THEN [t EXCEPT ![d] = e] ELSE t

(* cfdp_event_callback keeps the first terminal event of a direction.      *)
Latch(t, d, e) == IF t[d] = "None" THEN [t EXCEPT ![d] = e] ELSE t

(* The library gives up on what it was receiving: it closes the temporary  *)
(* file and discards it.                                                   *)
DiscardReception ==
  /\ receiver' = TerminalReceiver(ReceiverClose(receiver, rx.handle))
  /\ owners' = TerminalOwners(receiver, owners, objects, FALSE)

FailReception ==
  /\ DiscardReception
  /\ rx' = NoTransaction
  /\ terminal' = Latch(terminal, "RECEIVER", "FAILED")

(* ccsds_cfdp_entity_abort_transactions: both transactions end now and     *)
(* report FAILED.  A file already committed is not discarded.              *)
AbortTransactions ==
  /\ source' = SourceClose(source)
  /\ cfdpTx' = FALSE
  /\ rx' = NoTransaction
  /\ IF rx.phase = "receiving" THEN DiscardReception
                               ELSE UNCHANGED <<owners, receiver>>
  /\ terminal' = [d \in Direction |->
       IF d = "SENDER"
       THEN IF cfdpTx THEN Latch(terminal, d, "FAILED")[d] ELSE terminal[d]
       ELSE IF rx.phase # "idle" THEN Latch(terminal, d, "FAILED")[d]
                                 ELSE terminal[d]]

(* A mutant that releases the slot and leaves the source bound to it.      *)
ReleaseTransmissionStillBound ==
  IF txSlot = NoSlot THEN UNCHANGED <<owners, source, txSlot>>
  ELSE /\ source' = SourceClose(source)
       /\ owners' = ReleaseTx(owners, txSlot)
       /\ txSlot' = NoSlot

(* Unbind the source and give the transmit slot back, under image_lock.    *)
(* The library has closed the file (the code asserts it).                  *)
ReleaseTransmission ==
  IF txSlot = NoSlot THEN UNCHANGED <<owners, source, txSlot>>
  ELSE /\ source' = UnboundSource
       /\ owners' = ReleaseTx(owners, txSlot)
       /\ txSlot' = NoSlot

(* The ghosts follow one operation.                                        *)
OperationForgotten == opImage' = Zero /\ sent' = {}

-----------------------------------------------------------------------------
(* Ingress, and the same draining inside a blocked submission.             *)

Pumping == pc \in {"ingress", "accepted", "emit", "txReply"}

(* recover_from_restart_clcw *)
RestartDetected ==
  /\ Pumping
  /\ AbortTransactions
  /\ peerReady' = FALSE
  /\ recovery' = "returned"
  /\ UNCHANGED <<objects, pc, worker, snapshot, displayed, ghosts>>

(* Authenticated traffic under the new keys, or the end of an election     *)
(* that timed out, lifts the hold; a hold set by returned transport lasts  *)
(* until the worker has started an election.                               *)
RecoveryEnds ==
  /\ Pumping \/ pc = "tick"
  /\ recovery = "electing"
  /\ recovery' = "clear"
  /\ UNCHANGED <<store, source, receiver, pc, worker, peerReady,
                 events, cfdpTx, rx, displayed, ghosts>>

IngressDone ==
  /\ pc = "ingress"
  /\ pc' = "router"
  /\ UNCHANGED <<store, source, receiver, worker, link, events, cfdpTx, rx,
                 displayed, ghosts>>

-----------------------------------------------------------------------------
(* Router messages: process_router_messages handles them one by one.       *)

(* process_peer_status *)
PeerStatus ==
  /\ pc = "router"
  /\ \/ recovery # "failed" /\ peerReady' = TRUE
     \/ peerReady' = FALSE                      \* incompatible configuration
  /\ UNCHANGED <<store, source, receiver, pc, worker, recovery,
                 events, cfdpTx, rx, displayed, ghosts>>

(* accept_recovery_candidate opens an election on behalf of the peer.      *)
RecoveryCandidate ==
  /\ pc = "router"
  /\ recovery = "clear"
  /\ recovery' = "opening"
  /\ UNCHANGED <<store, source, receiver, pc, worker, peerReady,
                 events, cfdpTx, rx, displayed, ghosts>>

(* A mutant that does not wait for the end of a recovery.                  *)
ClaimDuringRecovery(from, next) ==
  /\ peerReady
  /\ ~operationActive
  /\ operationActive' = TRUE
  /\ resume' = from
  /\ pc' = next

(* claim_send_operation *)
ClaimSendOperation(from, next) ==
  /\ peerReady
  /\ recovery = "clear"
  /\ ~operationActive
  /\ operationActive' = TRUE
  /\ resume' = from
  /\ pc' = next

(* process_capture_command, once the request is fresh and valid; a refused *)
(* request changes nothing here.                                           *)
CaptureCommand ==
  /\ pc = "router"
  /\ ClaimSendOperation("router", "accepted")
  /\ UNCHANGED <<store, source, receiver, staging, txSlot, outgoingActive,
                 link, events, cfdpTx, rx, displayed, ghosts>>

(* A Metadata PDU opens the temporary file when no reception is active; if *)
(* the file cannot be opened the transaction fails at once.                *)
RxMetadata(i) ==
  /\ pc = "router"
  /\ rx.phase = "idle"
  /\ \/ \E s \in Slots :
          /\ ReceiverOpenable(receiver, owners, s)
          /\ owners' = ClaimStaging(owners, s)
          /\ objects' = [objects EXCEPT ![s] = Blank]
          /\ receiver' = ReceiverOpen(s)
          /\ rx' = [phase |-> "receiving", handle |-> s, image |-> i,
                     got |-> {}, fresh |-> TRUE]
          /\ UNCHANGED terminal
     \/ /\ \A s \in Slots : ~ReceiverOpenable(receiver, owners, s)
        /\ terminal' = Latch(terminal, "RECEIVER", "FAILED")
        /\ UNCHANGED <<store, receiver, rx>>
  /\ UNCHANGED <<source, pc, worker, link, snapshot, cfdpTx, displayed, ghosts>>

(* A File Data PDU, in any order and possibly repeated.                    *)
RxFileData(p) ==
  /\ pc = "router"
  /\ rx.phase = "receiving"
  /\ IF ReceiverHandle(receiver, rx.handle)
     THEN /\ objects' = [objects EXCEPT ![receiver.staging][p] = rx.image]
          /\ receiver' = ReceiverWrite(receiver, p)
          /\ rx' = [rx EXCEPT !.got = @ \cup {p}]
          /\ UNCHANGED <<owners, terminal>>
     ELSE FailReception /\ UNCHANGED objects
  /\ UNCHANGED <<source, pc, worker, link, snapshot, cfdpTx, displayed, ghosts>>

(* The file is complete: the library reads it back for the checksum,       *)
(* closes it and commits it (receive_read, receive_close, receive_commit). *)
RxCommit ==
  LET closed == ReceiverClose(receiver, rx.handle) IN
  /\ pc = "router"
  /\ rx.phase = "receiving"
  /\ rx.got = Parts /\ ~rx.fresh
  /\ IF /\ ReceiverHandle(receiver, rx.handle)
        /\ ReceiverComplete(closed, objects)
     THEN /\ receiver' = ReceiverValidate(closed)
          /\ rx' = [rx EXCEPT !.phase = "finished"]
          /\ UNCHANGED <<owners, terminal>>
     ELSE FailReception
  /\ UNCHANGED <<objects, source, pc, worker, link, snapshot, cfdpTx,
                 displayed, ghosts>>

(* ACK(Finished) ends the reception; the library may also give up waiting  *)
(* for it, or for file data (RxTimeout, in the poll).                      *)
RxFinishedAck ==
  /\ pc = "router"
  /\ rx.phase = "finished"
  /\ rx' = NoTransaction
  /\ terminal' = Latch(terminal, "RECEIVER", "COMPLETE")
  /\ UNCHANGED <<store, source, receiver, pc, worker, link, snapshot,
                 cfdpTx, displayed, ghosts>>

(* The peer's checksum or file-size mismatch is reported by the library.   *)
RxCorrupt ==
  /\ pc = "router"
  /\ rx.phase = "receiving"
  /\ FailReception
  /\ UNCHANGED <<objects, source, pc, worker, link, snapshot, cfdpTx,
                 displayed, ghosts>>

-----------------------------------------------------------------------------
(* process_cfdp_events                                                     *)

(* The router queue is empty: take the pending terminal events.            *)
TakeEvents ==
  /\ pc = "router"
  /\ snapshot' = terminal
  /\ terminal' = NoEvents
  /\ rx' = [rx EXCEPT !.fresh = FALSE]
  /\ recovery' = IF recovery = "opening" THEN "electing" ELSE recovery
  /\ pc' = "txEvent"
  /\ UNCHANGED <<store, source, receiver, worker, peerReady, cfdpTx, displayed,
                 ghosts>>

(* The sender's event unbinds the source and releases the transmit slot.   *)
TxEvent ==
  /\ pc = "txEvent"
  /\ IF snapshot["SENDER"] = "None"
     THEN /\ pc' = "rxEvent"
          /\ UNCHANGED <<owners, source, txSlot>>
     ELSE /\ pc' = "txReply"
          /\ ReleaseTransmission
  /\ UNCHANGED <<objects, receiver, resume, staging, operationActive,
                 outgoingActive, link, events, cfdpTx, rx, displayed, ghosts>>

(* A timed-out remote command is answered before the operation is closed.  *)
TxEventDone ==
  /\ pc = "txReply"
  /\ operationActive' = FALSE
  /\ outgoingActive' = FALSE
  /\ pc' = "rxEvent"
  /\ OperationForgotten
  /\ UNCHANGED <<store, source, receiver, resume, staging, txSlot, link,
                 events, cfdpTx, rx, displayed>>

RxEvent ==
  LET success == snapshot["RECEIVER"] = "COMPLETE" IN
  /\ pc = "rxEvent"
  /\ pc' = "actions"
  /\ snapshot' = NoEvents
  /\ IF snapshot["RECEIVER"] = "None"
     THEN UNCHANGED <<owners, receiver>>
     ELSE /\ owners' = TerminalOwners(receiver, owners, objects, success)
          /\ receiver' = TerminalReceiver(receiver)
  /\ UNCHANGED <<objects, source, worker, link, terminal, cfdpTx, rx,
                 displayed, ghosts>>

-----------------------------------------------------------------------------
(* Operator actions, and the send operation itself.                        *)

LocalSend ==
  /\ pc = "actions"
  /\ ClaimSendOperation("actions", "capture")
  /\ UNCHANGED <<store, source, receiver, staging, txSlot, outgoingActive,
                 link, events, cfdpTx, rx, displayed, ghosts>>

(* A SYNC, UNLOCK or SET V(R) that process_link_action lets through.       *)
LinkAction ==
  /\ pc = "actions"
  /\ ~operationActive /\ rx.phase = "idle"
  /\ peerReady' = FALSE
  /\ recovery' \in CASE recovery = "returned" -> {"returned"}
                     [] recovery = "failed" -> {"clear", "electing", "returned"}
                     [] OTHER -> {recovery, "clear"}
  /\ UNCHANGED <<store, source, receiver, pc, worker, events, cfdpTx, rx,
                 displayed, ghosts>>

ActionsDone ==
  /\ pc = "actions"
  /\ pc' = "tick"
  /\ UNCHANGED <<store, source, receiver, worker, link, events, cfdpTx, rx,
                 displayed, ghosts>>

(* The ACCEPTED reply has been submitted.                                  *)
ReplyAccepted ==
  /\ pc = "accepted"
  /\ pc' = "capture"
  /\ UNCHANGED <<store, source, receiver, worker, link, events, cfdpTx, rx,
                 displayed, ghosts>>

(* execute_send_operation, first critical section.                         *)
ClaimCaptureSlot ==
  /\ pc = "capture"
  /\ \/ \E s \in Slots :
          /\ FirstFree(owners, s)
          /\ owners' = ClaimStaging(owners, s)
          /\ staging' = s
          /\ pc' = "acquire"
          /\ UNCHANGED operationActive
     \/ /\ StagingRefused(owners)
        /\ operationActive' = FALSE
        /\ pc' = resume
        /\ UNCHANGED <<owners, staging>>
  /\ UNCHANGED <<objects, source, receiver, resume, txSlot, outgoingActive,
                 link, events, cfdpTx, rx, displayed, ghosts>>

(* The camera fills the pixels without the lock; the header follows.       *)
AcquirePixels(i) ==
  /\ pc = "acquire"
  /\ objects' = [objects EXCEPT ![staging] =
                   [p \in Parts |-> IF p = 1 THEN @[1] ELSE i]]
  /\ opImage' = i
  /\ pc' = "encode"
  /\ UNCHANGED <<owners, source, receiver, worker, link, events, cfdpTx, rx,
                 displayed, sent>>

EncodeHeader ==
  /\ pc = "encode"
  /\ objects' = [objects EXCEPT ![staging][1] = opImage]
  /\ pc' = "publish"
  /\ UNCHANGED <<owners, source, receiver, worker, link, events, cfdpTx, rx,
                 displayed, ghosts>>

(* No camera, no frame, or a frame of the wrong size: the slot is dropped, *)
(* whatever was written to its pixels.                                     *)
CaptureFails ==
  /\ pc \in {"acquire", "encode"}
  /\ owners' = AbortStaging(owners, staging)
  /\ staging' = NoSlot
  /\ operationActive' = FALSE
  /\ opImage' = Zero
  /\ pc' = resume
  /\ UNCHANGED <<objects, source, receiver, resume, txSlot, outgoingActive,
                 link, events, cfdpTx, rx, displayed, sent>>

(* Second critical section: promote, retain for transmission and bind the  *)
(* source, in one hold of the lock; then send_file starts a transaction.   *)
(* The branches that refuse are unreachable: PublishReady.                 *)
PublishCapture ==
  LET promoted == Promote(owners, staging)
      retained == RetainTx(promoted, staging) IN
  /\ pc = "publish"
  /\ Promotable(owners, objects, staging)
  /\ TxRetainable(promoted, staging)
  /\ SourceBindable(source, retained, objects, staging)
  /\ owners' = retained
  /\ source' = SourceBind(staging)
  /\ txSlot' = staging
  /\ staging' = NoSlot
  /\ outgoingActive' = TRUE
  /\ cfdpTx' = TRUE
  /\ sent' = {}
  /\ pc' = "emit"
  /\ UNCHANGED <<objects, receiver, resume, operationActive, link, events,
                 rx, displayed, opImage>>

(* ccsds_cfdp_service_send_file returns.                                   *)
SendAccepted ==
  /\ pc = "emit"
  /\ pc' = resume
  /\ UNCHANGED <<store, source, receiver, worker, link, events, cfdpTx, rx,
                 displayed, ghosts>>

SendRefused ==
  /\ pc = "emit"
  /\ cfdpTx' = FALSE
  /\ ReleaseTransmission
  /\ operationActive' = FALSE
  /\ outgoingActive' = FALSE
  /\ pc' = resume
  /\ OperationForgotten
  /\ UNCHANGED <<objects, receiver, resume, staging, link, events, rx,
                 displayed>>

-----------------------------------------------------------------------------
(* The sending transaction of the library: it opens, reads and closes the  *)
(* source inside send_file, on NAKs and in its poll.                       *)

TxRunning == cfdpTx /\ pc \in {"emit", "router", "tick"}

TxOpen ==
  /\ TxRunning
  /\ SourceOpenable(source, owners)
  /\ source' = [source EXCEPT !.open = TRUE]
  /\ UNCHANGED <<store, receiver, pc, worker, link, events, cfdpTx, rx,
                 displayed, ghosts>>

(* A mutant that reads the latest image and not the one it was bound to.   *)
TxReadLatest(p) ==
  /\ TxRunning
  /\ SourceReadable(source, owners)
  /\ \E s \in Slots : "LATEST" \in owners[s] /\ sent' = sent \cup {objects[s][p]}
  /\ UNCHANGED <<store, source, receiver, pc, worker, link, events, cfdpTx,
                 rx, displayed, opImage>>

TxRead(p) ==
  /\ TxRunning
  /\ SourceReadable(source, owners)
  /\ sent' = sent \cup {objects[source.slot][p]}
  /\ UNCHANGED <<store, source, receiver, pc, worker, link, events, cfdpTx,
                 rx, displayed, opImage>>

TxClose ==
  /\ TxRunning
  /\ source.open
  /\ source' = SourceClose(source)
  /\ UNCHANGED <<store, receiver, pc, worker, link, events, cfdpTx, rx,
                 displayed, ghosts>>

(* Finished from the peer, or the timers of the poll, end the transaction. *)
TxEnds(e) ==
  /\ \/ pc = "router"
     \/ pc = "tick" /\ e = "FAILED"
  /\ cfdpTx
  /\ source' = SourceClose(source)
  /\ cfdpTx' = FALSE
  /\ terminal' = Latch(terminal, "SENDER", e)
  /\ UNCHANGED <<store, receiver, pc, worker, link, snapshot, rx, displayed,
                 ghosts>>

-----------------------------------------------------------------------------
(* Link supervision and timers.                                            *)

(* advance_link_sync on retry exhaustion or lockout *)
LinkFails ==
  /\ pc = "tick"
  /\ recovery # "failed"
  /\ recovery' = "failed"
  /\ peerReady' = FALSE
  /\ AbortTransactions
  /\ UNCHANGED <<objects, pc, worker, snapshot, displayed, ghosts>>

(* advance_link_sync on the first CLCW after that *)
LinkReturns ==
  /\ pc = "tick"
  /\ recovery = "failed"
  /\ recovery' = "returned"
  /\ UNCHANGED <<store, source, receiver, pc, worker, peerReady, events, cfdpTx,
                 rx, displayed, ghosts>>

(* service_sdls_recovery starts an election on a quiet link.               *)
RecoveryStarts ==
  /\ pc = "tick"
  /\ peerReady \/ recovery = "returned"
  /\ ~operationActive /\ rx.phase = "idle"
  /\ recovery \in {"clear", "returned"}
  /\ recovery' = "opening"
  /\ UNCHANGED <<store, source, receiver, pc, worker, peerReady,
                 events, cfdpTx, rx, displayed, ghosts>>

(* ccsds_cfdp_service_poll: the receiver's inactivity and ACK timers.      *)
RxTimeout ==
  /\ pc = "tick"
  /\ \/ rx.phase = "receiving" /\ FailReception
     \/ /\ rx.phase = "finished"
        /\ rx' = NoTransaction
        /\ terminal' = Latch(terminal, "RECEIVER", "FAILED")
        /\ UNCHANGED <<owners, receiver>>
  /\ UNCHANGED <<objects, source, pc, worker, link, snapshot, cfdpTx,
                 displayed, ghosts>>

PeerTimeout ==
  /\ pc = "tick"
  /\ peerReady /\ ~operationActive /\ rx.phase = "idle"
  /\ peerReady' = FALSE
  /\ UNCHANGED <<store, source, receiver, pc, worker, recovery,
                 events, cfdpTx, rx, displayed, ghosts>>

TickDone ==
  /\ pc = "tick"
  /\ pc' = "ingress"
  /\ UNCHANGED <<store, source, receiver, worker, link, events, cfdpTx, rx,
                 displayed, ghosts>>

-----------------------------------------------------------------------------
(* The UI thread: SHOW acquires the latest image, and SHOW or any action   *)
(* key releases it.  The display driver reads the object without the lock. *)

ShowImage ==
  /\ displayed = NoSlot
  /\ \E s \in Slots :
       /\ DisplayAvailable(owners, s)
       /\ owners' = AcquireDisplay(owners, s)
       /\ displayed' = s
  /\ UNCHANGED <<objects, source, receiver, pc, worker, link, events, cfdpTx,
                 rx, ghosts>>

LeaveImage ==
  /\ displayed # NoSlot
  /\ owners' = ReleaseDisplay(owners, displayed)
  /\ displayed' = NoSlot
  /\ UNCHANGED <<objects, source, receiver, pc, worker, link, events, cfdpTx,
                 rx, ghosts>>

-----------------------------------------------------------------------------
LoopStep == \/ IngressDone \/ TakeEvents \/ TxEvent
            \/ TxEventDone \/ RxEvent \/ ActionsDone \/ TickDone

SendStep == \/ ReplyAccepted \/ ClaimCaptureSlot
            \/ (\E i \in Images : AcquirePixels(i))
            \/ EncodeHeader \/ CaptureFails \/ PublishCapture
            \/ SendAccepted \/ SendRefused

ReceiveStep == \/ \E i \in Images : RxMetadata(i)
               \/ \E p \in Parts : RxFileData(p)
               \/ RxCommit \/ RxFinishedAck \/ RxCorrupt \/ RxTimeout

TransmitStep == \/ TxOpen \/ (\E p \in Parts : TxRead(p)) \/ TxClose
                \/ \E e \in {"COMPLETE", "FAILED"} : TxEnds(e)

LinkStep == \/ RestartDetected \/ RecoveryEnds \/ PeerStatus
            \/ RecoveryCandidate \/ LinkAction \/ LinkFails \/ LinkReturns
            \/ RecoveryStarts \/ PeerTimeout

Next == \/ LoopStep \/ SendStep \/ CaptureCommand \/ LocalSend \/ ReceiveStep
        \/ TransmitStep \/ LinkStep \/ ShowImage \/ LeaveImage

Spec == Init /\ [][Next]_vars

-----------------------------------------------------------------------------
(* Safety.                                                                 *)

(* No owner flag is ever leaked or shared: every flag in the slots belongs *)
(* to exactly the pointer that will give it back (staging of a capture or  *)
(* of a reception, tx_slot and the source bound to it, displayed_image),   *)
(* and at most one slot is latest (demo_image_store_valid).                *)
OwnersAccounted ==
  /\ StoreValid(owners)
  /\ \A s \in Slots :
       /\ "STAGING" \in owners[s] <=> s \in {staging, receiver.staging}
       /\ "DISPLAY" \in owners[s] <=> s = displayed
       /\ "TX" \in owners[s] <=> s = txSlot
  /\ source.slot = txSlot
  /\ staging # NoSlot => receiver.staging # staging

(* The latest image is always a whole picture: no half-captured, torn or   *)
(* half-received object is ever promoted.                                  *)
LatestComplete ==
  \A s \in Slots : "LATEST" \in owners[s] => Complete(objects[s])

(* Nobody writes an object another thread may be reading: while a slot is  *)
(* latest, on the display or being sent, its contents do not change.       *)
SharedObjectsStable ==
  [][\A s \in Slots : owners[s] \cap {"LATEST", "DISPLAY", "TX"} # {}
                        => objects'[s] = objects[s]]_vars

(* A transaction sends the picture its operation captured, even when it    *)
(* reads the file again long after newer pictures have arrived.            *)
SentIsCaptured == cfdpTx => sent \subseteq {opImage}

(* The critical section that publishes a capture can refuse neither the    *)
(* promotion nor the binding of the source, whose error paths would leave  *)
(* the slot staging for ever.                                              *)
PublishReady ==
  pc = "publish" => /\ Promotable(owners, objects, staging)
                    /\ source = UnboundSource

(* Why both hold: which slots the worker holds follows from where it is,   *)
(* and a validated reception still has its header when it is promoted.     *)
SlotsFollowWorker ==
  /\ staging # NoSlot <=> pc \in {"acquire", "encode", "publish"}
  /\ pc \in Sending \ {"emit"} => operationActive /\ txSlot = NoSlot
  /\ pc = "txReply" => txSlot = NoSlot
  /\ txSlot # NoSlot => operationActive
  /\ source.open => source.slot # NoSlot
  /\ pc \in {"encode", "publish"} => opImage \in Images
  /\ pc = "publish" => HeaderValid(objects[staging])
  /\ receiver.validated => /\ ~receiver.open
                           /\ receiver.staging # NoSlot
                           /\ HeaderValid(objects[receiver.staging])

AccountingInvariant == TypeOK /\ OwnersAccounted /\ SlotsFollowWorker

(* A terminal event of the sender is consumed on behalf of the operation   *)
(* it ended: no newer operation is running when it arrives, so the cleanup *)
(* of process_cfdp_events cannot free a slot that is being sent, and its   *)
(* assertion that the source is closed holds.                              *)
TerminalOwnsOperation ==
  (terminal["SENDER"] # "None" \/ snapshot["SENDER"] # "None")
    => /\ ~cfdpTx /\ ~source.open
       /\ operationActive => outgoingActive

(* Success is reported for a reception only when its image becomes the     *)
(* latest one: a pending COMPLETE event finds a validated staging slot.    *)
CompleteIsPromoted ==
  (terminal["RECEIVER"] = "COMPLETE" \/ snapshot["RECEIVER"] = "COMPLETE")
    => receiver.validated /\ Promotable(owners, objects, receiver.staging)

(* The library's reception keeps its staging slot until the library itself *)
(* ends it: the cleanup of an earlier terminal event does not take it.     *)
ReceptionKeepsStaging ==
  [][rx.phase = "receiving" /\ rx'.phase = "receiving"
       => receiver'.staging = receiver.staging]_vars

-----------------------------------------------------------------------------
(* The exchange implements LatestImage.                                    *)

PictureOf(s) == IF s = NoSlot THEN Zero
                ELSE IF Complete(objects[s]) THEN objects[s][1] ELSE "torn"

LatestSlot == IF \E s \in Slots : "LATEST" \in owners[s]
              THEN CHOOSE s \in Slots : "LATEST" \in owners[s] ELSE NoSlot

Promise == INSTANCE LatestImage
             WITH None <- Zero, latest <- PictureOf(LatestSlot),
                  shown <- PictureOf(displayed), sending <- PictureOf(txSlot)

(* A board shows, keeps and sends whole pictures, and a transfer that      *)
(* fails, at whatever point, leaves the latest one alone.                  *)
KeepsPromise == Promise!Spec

-----------------------------------------------------------------------------
(* Liveness.  The worker thread never stops, in its loop or in a send      *)
(* operation; its inner loops are finite (the queues are bounded and       *)
(* filled at network speed).  The library's timers, run by every poll, end *)
(* a transaction the peer no longer answers.                               *)

Fairness == /\ WF_vars(LoopStep \/ SendStep)
            /\ SF_vars(TxEnds("FAILED"))

FairSpec == Spec /\ Fairness

(* A send operation always ends, whatever the link, the peer and the other *)
(* transfers do, and SEND is accepted again.                               *)
OperationEnds == []<>~operationActive
=============================================================================
