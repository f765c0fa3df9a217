------------------------- MODULE ImageTransferProofs -------------------------
(***************************************************************************)
(* What a transfer promises, for every number of slots and parts and every *)
(* set of pictures, on top of the accounts of ImageExchangeProofs: a       *)
(* terminal event ends the operation it belongs to, a COMPLETE reception   *)
(* is promoted, only whole pictures become the latest one, and what a      *)
(* transaction reads is what its operation captured.                       *)
(***************************************************************************)
EXTENDS ImageExchangeProofs

(* The phases of a send operation before its transaction exists.           *)
Preparing == Sending \ {"emit"}

(* Latching touches one direction, and only when it is empty.              *)
LEMMA LatchFacts ==
  ASSUME NEW t \in [Direction -> Event], NEW d \in Direction, NEW e \in Event,
         NEW c \in Direction
  PROVE  Latch(t, d, e)[c] = IF c = d /\ t[d] = "None" THEN e ELSE t[c]
BY DEF Latch

(* An abort ends both transactions and reports each that was running.      *)
LEMMA AbortFacts ==
  ASSUME TypeOK, AbortTransactions
  PROVE  /\ ~source'.open /\ ~cfdpTx' /\ rx' = NoTransaction
         /\ terminal'["SENDER"] =
              IF cfdpTx /\ terminal["SENDER"] = "None"
              THEN "FAILED" ELSE terminal["SENDER"]
         /\ terminal'["RECEIVER"] =
              IF rx.phase # "idle" /\ terminal["RECEIVER"] = "None"
              THEN "FAILED" ELSE terminal["RECEIVER"]
<1>1. "SENDER" \in Direction /\ "RECEIVER" \in Direction /\ "FAILED" \in Event
      /\ terminal \in [Direction -> Event]
  BY DEF Direction, Event, TypeOK
<1>2. /\ Latch(terminal, "SENDER", "FAILED")["SENDER"] =
           IF terminal["SENDER"] = "None" THEN "FAILED" ELSE terminal["SENDER"]
      /\ Latch(terminal, "RECEIVER", "FAILED")["RECEIVER"] =
           IF terminal["RECEIVER"] = "None" THEN "FAILED" ELSE terminal["RECEIVER"]
  BY <1>1, LatchFacts
<1>3. ~source'.open
  BY DEF AbortTransactions, SourceClose, TypeOK, Source
<1> QED BY <1>1, <1>2, <1>3 DEF AbortTransactions

(* A reception that fails is reported, unless an event is pending.         *)
LEMMA FailFacts ==
  ASSUME TypeOK, FailReception
  PROVE  /\ rx' = NoTransaction
         /\ terminal'["SENDER"] = terminal["SENDER"]
         /\ terminal'["RECEIVER"] = IF terminal["RECEIVER"] = "None"
                                    THEN "FAILED" ELSE terminal["RECEIVER"]
<1>1. "SENDER" \in Direction /\ "RECEIVER" \in Direction /\ "FAILED" \in Event
      /\ terminal \in [Direction -> Event]
  BY DEF Direction, Event, TypeOK
<1> QED BY <1>1, LatchFacts DEF FailReception

-----------------------------------------------------------------------------
(* Where the sender's events and the operation stand to each other.  An    *)
(* event outlives its operation only when a peer restart aborts the        *)
(* transaction inside send_file and send_file then refuses; the link then  *)
(* holds application traffic until the router has run and the event is     *)
(* taken.                                                                  *)
OperationInvariant ==
  /\ cfdpTx => /\ operationActive
               /\ terminal["SENDER"] = "None" /\ snapshot["SENDER"] = "None"
  /\ source.open => cfdpTx
  /\ operationActive <=> (outgoingActive \/ pc \in Preparing)
  /\ pc \in Preparing => /\ ~outgoingActive /\ ~cfdpTx
                         /\ terminal["SENDER"] = "None"
                         /\ snapshot["SENDER"] = "None"
  /\ pc = "emit" => /\ outgoingActive
                    /\ terminal["SENDER"] # "None" => recovery = "returned"
  /\ pc = "txReply" => snapshot["SENDER"] # "None"
  /\ snapshot["SENDER"] # "None" => /\ pc \in {"txEvent", "txReply", "rxEvent"}
                                    /\ terminal["SENDER"] = "None"
                                    /\ pc = "rxEvent" => ~operationActive
  /\ (terminal["SENDER"] # "None" /\ ~operationActive) =>
        /\ pc \in {"router", "actions", "tick", "ingress"}
        /\ recovery \in {"returned", "opening", "failed"}
        /\ pc = "actions" => recovery = "returned"

LEMMA OperationInit == Init => OperationInvariant
BY DEF Init, OperationInvariant, NoEvents, Direction, UnboundSource, Preparing,
       Sending

LEMMA OperationStep ==
  AccountingInvariant /\ OperationInvariant /\ [Next]_vars => OperationInvariant'
<1> SUFFICES ASSUME AccountingInvariant, OperationInvariant, [Next]_vars
             PROVE  OperationInvariant'
  OBVIOUS
<1> USE DEF OperationInvariant, Preparing, Sending, store, link, worker, events, ghosts
<1>a. /\ TypeOK /\ OwnersAccounted /\ SlotsFollowWorker
      /\ pc \in Loop \cup Sending \cup {"txReply"} /\ resume \in {"router", "actions"}
      /\ terminal \in [Direction -> Event] /\ snapshot \in [Direction -> Event]
      /\ "SENDER" \in Direction /\ "RECEIVER" \in Direction
      /\ source \in Source
  BY DEF AccountingInvariant, TypeOK, Direction
<1>1. CASE LoopStep
  <2>1. CASE IngressDone BY <2>1 DEF IngressDone
  <2>2. CASE TakeEvents BY <1>a, <2>2 DEF TakeEvents, NoEvents
  <2>3. CASE TxEvent
    <3>1. source'.open => source.open
      BY <1>a, <2>3 DEF TxEvent, ReleaseTransmission, UnboundSource
    <3> QED BY <2>3, <3>1 DEF TxEvent
  <2>4. CASE TxEventDone BY <2>4 DEF TxEventDone
  <2>5. CASE RxEvent BY <1>a, <2>5 DEF RxEvent, NoEvents
  <2>6. CASE ActionsDone BY <2>6 DEF ActionsDone
  <2>7. CASE TickDone BY <2>7 DEF TickDone
  <2> QED BY <1>1, <2>1, <2>2, <2>3, <2>4, <2>5, <2>6, <2>7 DEF LoopStep
<1>2. CASE SendStep
  <2>1. CASE ReplyAccepted BY <2>1 DEF ReplyAccepted
  <2>2. CASE ClaimCaptureSlot BY <1>a, <2>2 DEF ClaimCaptureSlot
  <2>3. CASE \E i \in Images : AcquirePixels(i) BY <2>3 DEF AcquirePixels
  <2>4. CASE EncodeHeader BY <2>4 DEF EncodeHeader
  <2>5. CASE CaptureFails BY <1>a, <2>5 DEF CaptureFails
  <2>6. CASE PublishCapture BY <2>6 DEF PublishCapture, SourceBind
  <2>7. CASE SendAccepted BY <1>a, <2>7 DEF SendAccepted
  <2>8. CASE SendRefused
    <3>1. ~source'.open
      BY <1>a, <2>8
         DEF SendRefused, ReleaseTransmission, UnboundSource, OwnersAccounted,
             SlotsFollowWorker
    <3> QED BY <1>a, <2>8, <3>1 DEF SendRefused
  <2> QED BY <1>2, <2>1, <2>2, <2>3, <2>4, <2>5, <2>6, <2>7, <2>8 DEF SendStep
<1>3. CASE CaptureCommand \/ LocalSend
  BY <1>a, <1>3 DEF CaptureCommand, LocalSend, ClaimSendOperation
<1>4. CASE ReceiveStep
  <2>1. /\ terminal'["SENDER"] = terminal["SENDER"]
        /\ UNCHANGED <<source, pc, worker, link, snapshot, cfdpTx>>
    <3>1. \A e \in Event : Latch(terminal, "RECEIVER", e)["SENDER"] = terminal["SENDER"]
      BY <1>a, LatchFacts
    <3>2. "COMPLETE" \in Event /\ "FAILED" \in Event
      BY DEF Event
    <3>3. CASE \E i \in Images : RxMetadata(i) BY <3>1, <3>2, <3>3 DEF RxMetadata
    <3>4. CASE \E p \in Parts : RxFileData(p)
      BY <1>a, <3>4, FailFacts DEF RxFileData
    <3>5. CASE RxCommit BY <1>a, <3>5, FailFacts DEF RxCommit
    <3>6. CASE RxFinishedAck BY <3>1, <3>2, <3>6 DEF RxFinishedAck
    <3>7. CASE RxCorrupt BY <1>a, <3>7, FailFacts DEF RxCorrupt
    <3>8. CASE RxTimeout BY <1>a, <3>1, <3>2, <3>8, FailFacts DEF RxTimeout
    <3> QED BY <1>4, <3>3, <3>4, <3>5, <3>6, <3>7, <3>8 DEF ReceiveStep
  <2> QED BY <2>1
<1>5. CASE TransmitStep
  <2>1. CASE TxOpen BY <1>a, <2>1 DEF TxOpen, TxRunning
  <2>2. CASE \E p \in Parts : TxRead(p) BY <2>2 DEF TxRead
  <2>3. CASE TxClose BY <1>a, <2>3 DEF TxClose, SourceClose, Source
  <2>4. CASE \E e \in {"COMPLETE", "FAILED"} : TxEnds(e)
    <3>1. PICK e \in {"COMPLETE", "FAILED"} : TxEnds(e) BY <2>4
    <3>2. ~source'.open /\ ~cfdpTx' /\ operationActive /\ pc \in {"router", "tick"}
      BY <1>a, <3>1 DEF TxEnds, SourceClose, Source
    <3> QED BY <3>1, <3>2 DEF TxEnds
  <2> QED BY <1>5, <2>1, <2>2, <2>3, <2>4 DEF TransmitStep
<1>6. CASE LinkStep
  <2>1. CASE RestartDetected
    BY <1>a, <2>1, AbortFacts DEF RestartDetected, Pumping
  <2>2. CASE RecoveryEnds BY <2>2 DEF RecoveryEnds
  <2>3. CASE PeerStatus BY <2>3 DEF PeerStatus
  <2>4. CASE RecoveryCandidate BY <2>4 DEF RecoveryCandidate
  <2>5. CASE LinkAction BY <2>5 DEF LinkAction
  <2>6. CASE LinkFails BY <1>a, <2>6, AbortFacts DEF LinkFails
  <2>7. CASE LinkReturns BY <2>7 DEF LinkReturns
  <2>8. CASE RecoveryStarts BY <2>8 DEF RecoveryStarts
  <2>9. CASE PeerTimeout BY <2>9 DEF PeerTimeout
  <2> QED BY <1>6, <2>1, <2>2, <2>3, <2>4, <2>5, <2>6, <2>7, <2>8, <2>9 DEF LinkStep
<1>7. CASE ShowImage \/ LeaveImage
  BY <1>7 DEF ShowImage, LeaveImage
<1>8. CASE UNCHANGED vars
  BY <1>8 DEF vars
<1> QED BY <1>1, <1>2, <1>3, <1>4, <1>5, <1>6, <1>7, <1>8 DEF Next

(* The terminal event that process_cfdp_events consumes belongs to the     *)
(* operation it closes, however restarts, refusals and new requests        *)
(* interleave.                                                             *)
THEOREM EventsMeetTheirOperation == Spec => []TerminalOwnsOperation
<1>1. OperationInvariant => TerminalOwnsOperation
  BY DEF OperationInvariant, TerminalOwnsOperation, Preparing, Sending
<1> QED BY <1>1, AccountingHolds, OperationInit, OperationStep, PTL DEF Spec

-----------------------------------------------------------------------------
(* Where the receiver's events and the reception stand to each other.  An  *)
(* unconsumed event and a reception coexist only in the pass of the router *)
(* that opened it, or while the copy of the event is being processed, and  *)
(* a COMPLETE event finds no reception at all.                             *)
ReceptionInvariant ==
  /\ terminal["RECEIVER"] # "None" =>
       rx.phase = "idle" \/ (rx.phase = "receiving" /\ rx.fresh)
  /\ rx.phase = "finished" => receiver.validated
  /\ snapshot["RECEIVER"] # "None" => /\ pc \in {"txEvent", "txReply", "rxEvent"}
                                      /\ rx.phase # "finished"
                                      /\ terminal["RECEIVER"] # "COMPLETE"
  /\ (terminal["RECEIVER"] = "COMPLETE" \/ snapshot["RECEIVER"] = "COMPLETE")
       => rx.phase = "idle" /\ receiver.validated

LEMMA ReceptionInit == Init => ReceptionInvariant
BY DEF Init, ReceptionInvariant, NoEvents, Direction, NoTransaction

LEMMA ReceptionStep ==
  AccountingInvariant /\ ReceptionInvariant /\ [Next]_vars => ReceptionInvariant'
<1> SUFFICES ASSUME AccountingInvariant, ReceptionInvariant, [Next]_vars
             PROVE  ReceptionInvariant'
  OBVIOUS
<1> USE DEF ReceptionInvariant, store, link, worker, events, ghosts
<1>a. /\ TypeOK /\ SlotsFollowWorker
      /\ terminal \in [Direction -> Event] /\ snapshot \in [Direction -> Event]
      /\ "SENDER" \in Direction /\ "RECEIVER" \in Direction
      /\ "COMPLETE" \in Event /\ "FAILED" \in Event
      /\ receiver \in Receiver /\ rx \in Reception
  BY DEF AccountingInvariant, TypeOK, Direction, Event
<1>b. NoTransaction.phase = "idle"
  BY DEF NoTransaction
<1>1. CASE LoopStep
  <2>1. CASE IngressDone \/ ActionsDone \/ TickDone
    BY <2>1 DEF IngressDone, ActionsDone, TickDone
  <2>2. CASE TakeEvents
    <3>1. rx'.phase = rx.phase /\ ~rx'.fresh
      BY <1>a, <2>2 DEF TakeEvents, Reception
    <3> QED BY <1>a, <2>2, <3>1 DEF TakeEvents, NoEvents
  <2>3. CASE TxEvent BY <2>3 DEF TxEvent
  <2>4. CASE TxEventDone BY <2>4 DEF TxEventDone
  <2>5. CASE RxEvent
    <3>1. receiver' # receiver => snapshot["RECEIVER"] # "None"
      BY <2>5 DEF RxEvent
    <3> QED BY <1>a, <2>5, <3>1 DEF RxEvent, NoEvents
  <2> QED BY <1>1, <2>1, <2>2, <2>3, <2>4, <2>5 DEF LoopStep
<1>2. CASE SendStep
  BY <1>2 DEF SendStep, ReplyAccepted, ClaimCaptureSlot, AcquirePixels, EncodeHeader,
              CaptureFails, PublishCapture, SendAccepted, SendRefused, Sending
<1>3. CASE CaptureCommand \/ LocalSend
  BY <1>3 DEF CaptureCommand, LocalSend, ClaimSendOperation
<1>4. CASE ReceiveStep
  <2>1. CASE \E i \in Images : RxMetadata(i)
    <3>1. PICK i \in Images : RxMetadata(i) BY <2>1
    <3>2. CASE UNCHANGED <<store, receiver, rx>>
      BY <1>a, <3>1, <3>2, LatchFacts DEF RxMetadata
    <3>3. CASE \E s \in Slots :
            /\ ReceiverOpenable(receiver, owners, s)
            /\ rx' = [phase |-> "receiving", handle |-> s, image |-> i,
                       got |-> {}, fresh |-> TRUE]
            /\ UNCHANGED terminal
      <4>1. ~receiver.validated
        BY <1>a, <3>3 DEF ReceiverOpenable, SlotsFollowWorker
      <4>2. rx'.phase = "receiving" /\ rx'.fresh
        BY <3>3
      <4> QED BY <3>1, <3>3, <4>1, <4>2 DEF RxMetadata
    <3> QED BY <3>1, <3>2, <3>3 DEF RxMetadata
  <2>2. CASE FailReception /\ rx.phase = "receiving" /\ UNCHANGED <<pc, snapshot>>
    BY <1>a, <1>b, <2>2, FailFacts
  <2>3. CASE \E p \in Parts : RxFileData(p)
    <3>1. PICK p \in Parts : RxFileData(p) BY <2>3
    <3>2. CASE ReceiverHandle(receiver, rx.handle)
      <4>1. rx'.phase = rx.phase /\ rx'.fresh = rx.fresh
        BY <1>a, <3>1, <3>2 DEF RxFileData, Reception
      <4> QED BY <3>1, <3>2, <4>1 DEF RxFileData
    <3> QED BY <2>2, <3>1, <3>2 DEF RxFileData
  <2>4. CASE RxCommit
    <3>1. CASE /\ receiver' = ReceiverValidate(ReceiverClose(receiver, rx.handle))
               /\ rx' = [rx EXCEPT !.phase = "finished"]
               /\ UNCHANGED <<owners, terminal>>
      <4>1. ReceiverClose(receiver, rx.handle) \in Receiver
        BY <1>a, ReceiverCalls
      <4>2. receiver'.validated /\ rx'.phase = "finished"
        BY <1>a, <3>1, <4>1 DEF ReceiverValidate, Receiver, Reception
      <4> QED BY <2>4, <3>1, <4>2 DEF RxCommit
    <3> QED BY <2>2, <2>4, <3>1 DEF RxCommit
  <2>5. CASE RxFinishedAck
    BY <1>a, <1>b, <2>5, LatchFacts DEF RxFinishedAck
  <2>6. CASE RxCorrupt
    BY <2>2, <2>6 DEF RxCorrupt
  <2>7. CASE RxTimeout
    <3>1. CASE /\ rx.phase = "finished"
               /\ rx' = NoTransaction
               /\ terminal' = Latch(terminal, "RECEIVER", "FAILED")
      BY <1>a, <1>b, <2>7, <3>1, LatchFacts DEF RxTimeout
    <3> QED BY <2>2, <2>7, <3>1 DEF RxTimeout
  <2> QED BY <1>4, <2>1, <2>3, <2>4, <2>5, <2>6, <2>7 DEF ReceiveStep
<1>5. CASE TransmitStep
  <2>1. terminal'["RECEIVER"] = terminal["RECEIVER"]
        /\ UNCHANGED <<rx, receiver, pc, snapshot>>
    BY <1>a, <1>5, LatchFacts DEF TransmitStep, TxOpen, TxRead, TxClose, TxEnds
  <2> QED BY <2>1
<1>6. CASE LinkStep
  <2>1. CASE RestartDetected \/ LinkFails
    <3>1. AbortTransactions /\ UNCHANGED <<pc, snapshot>>
      BY <2>1 DEF RestartDetected, LinkFails
    <3>2. rx.phase # "receiving" => receiver' = receiver
      BY <3>1 DEF AbortTransactions
    <3> QED BY <1>a, <1>b, <3>1, <3>2, AbortFacts
  <2>2. CASE RecoveryEnds \/ PeerStatus \/ RecoveryCandidate \/ LinkAction
    BY <2>2 DEF RecoveryEnds, PeerStatus, RecoveryCandidate, LinkAction
  <2>3. CASE LinkReturns \/ RecoveryStarts \/ PeerTimeout
    BY <2>3 DEF LinkReturns, RecoveryStarts, PeerTimeout
  <2> QED BY <1>6, <2>1, <2>2, <2>3 DEF LinkStep
<1>7. CASE ShowImage \/ LeaveImage
  BY <1>7 DEF ShowImage, LeaveImage
<1>8. CASE UNCHANGED vars
  BY <1>8 DEF vars
<1> QED BY <1>1, <1>2, <1>3, <1>4, <1>5, <1>6, <1>7, <1>8 DEF Next

(* A reception that is reported complete becomes the latest image: nothing *)
(* takes or spoils its slot before the event is processed.                 *)
THEOREM CompletePromoted == Spec => []CompleteIsPromoted
<1>1. AccountingInvariant /\ ReceptionInvariant => CompleteIsPromoted
  <2> SUFFICES ASSUME AccountingInvariant, receiver.validated
               PROVE  Promotable(owners, objects, receiver.staging)
    BY DEF ReceptionInvariant, CompleteIsPromoted
  <2>1. receiver.staging \in Slots /\ HeaderValid(objects[receiver.staging])
    BY DEF AccountingInvariant, SlotsFollowWorker, TypeOK, Receiver
  <2>2. owners[receiver.staging] = {"STAGING"}
    BY <2>1 DEF AccountingInvariant, OwnersAccounted, StoreValid
  <2> QED BY <2>1, <2>2 DEF Promotable
<1> QED BY <1>1, AccountingHolds, ReceptionInit, ReceptionStep, PTL DEF Spec

-----------------------------------------------------------------------------
(* The steps that write an object, and the slot each of them writes.       *)
LEMMA WritesStaging ==
  ASSUME AccountingInvariant, [Next]_vars, NEW s \in Slots, objects'[s] # objects[s]
  PROVE  \/ /\ s = staging
            /\ EncodeHeader \/ \E i \in Images : AcquirePixels(i)
         \/ /\ s = receiver.staging
            /\ \E p \in Parts : RxFileData(p)
         \/ /\ FirstFree(owners, s)
            /\ \E i \in Images : RxMetadata(i)
<1> USE DEF store
<1>a. objects \in [Slots -> Object]
  BY DEF AccountingInvariant, TypeOK
<1>1. CASE LoopStep
  BY <1>1 DEF LoopStep, IngressDone, TakeEvents, TxEvent, TxEventDone, RxEvent,
              ActionsDone, TickDone
<1>2. CASE SendStep
  <2>1. CASE EncodeHeader BY <1>a, <2>1 DEF EncodeHeader
  <2>2. CASE \E i \in Images : AcquirePixels(i) BY <1>a, <2>2 DEF AcquirePixels
  <2> QED BY <1>2, <2>1, <2>2
          DEF SendStep, ReplyAccepted, ClaimCaptureSlot, CaptureFails, PublishCapture,
              SendAccepted, SendRefused
<1>3. CASE CaptureCommand \/ LocalSend
  BY <1>3 DEF CaptureCommand, LocalSend
<1>4. CASE ReceiveStep
  <2>1. CASE \E i \in Images : RxMetadata(i)
    BY <1>a, <2>1 DEF RxMetadata, ReceiverOpenable
  <2>2. CASE \E p \in Parts : RxFileData(p)
    BY <1>a, <2>2 DEF RxFileData
  <2> QED BY <1>4, <2>1, <2>2 DEF ReceiveStep, RxCommit, RxFinishedAck, RxCorrupt, RxTimeout
<1>5. CASE TransmitStep
  BY <1>5 DEF TransmitStep, TxOpen, TxRead, TxClose, TxEnds
<1>6. CASE LinkStep
  BY <1>6 DEF LinkStep, RestartDetected, RecoveryEnds, PeerStatus, RecoveryCandidate,
              LinkAction, LinkFails, LinkReturns, RecoveryStarts, PeerTimeout
<1>7. CASE ShowImage \/ LeaveImage
  BY <1>7 DEF ShowImage, LeaveImage
<1>8. CASE UNCHANGED vars
  BY <1>8 DEF vars
<1> QED BY <1>1, <1>2, <1>3, <1>4, <1>5, <1>6, <1>7, <1>8 DEF Next

(* So no step writes an object that is latest, on the display or being     *)
(* sent.                                                                   *)
LEMMA WritesUnshared ==
  ASSUME AccountingInvariant, [Next]_vars, NEW s \in Slots,
         owners[s] \cap {"LATEST", "DISPLAY", "TX"} # {}
  PROVE  objects'[s] = objects[s]
<1>1. owners[s] # {"STAGING"} /\ owners[s] # {}
  OBVIOUS
<1>2. s # staging /\ s # receiver.staging
  BY <1>1 DEF AccountingInvariant, OwnersAccounted, StoreValid
<1> QED BY <1>1, <1>2, WritesStaging DEF FirstFree

(* Nobody writes an object that the display driver or the sending          *)
(* transaction may be reading without the lock.                            *)
THEOREM SharedStable == Spec => SharedObjectsStable
<1>1. AccountingInvariant /\ [Next]_vars =>
        \A s \in Slots : owners[s] \cap {"LATEST", "DISPLAY", "TX"} # {}
                           => objects'[s] = objects[s]
  BY WritesUnshared
<1>2. AccountingInvariant /\ [Next]_vars =>
        [\A s \in Slots : owners[s] \cap {"LATEST", "DISPLAY", "TX"} # {}
                            => objects'[s] = objects[s]]_vars
  BY <1>1
<1> QED BY <1>2, AccountingHolds, PTL DEF Spec, SharedObjectsStable

-----------------------------------------------------------------------------
(* Which parts of the picture are in the slots the worker is filling.      *)
PictureInvariant ==
  /\ LatestComplete
  /\ pc = "encode" => \A p \in Parts \ {1} : objects[staging][p] = opImage
  /\ pc = "publish" => \A p \in Parts : objects[staging][p] = opImage
  /\ rx.phase = "receiving" => rx.image \in Images
  /\ (rx.phase = "receiving" /\ ReceiverHandle(receiver, rx.handle)) =>
       \A p \in rx.got : objects[receiver.staging][p] = rx.image
  /\ receiver.validated => Complete(objects[receiver.staging])

LEMMA PictureInit == Init => PictureInvariant
BY DEF Init, PictureInvariant, LatestComplete, NoTransaction, NoReception

(* The end of a reception makes nothing latest but a validated object.     *)
LEMMA TerminalLatest ==
  ASSUME NEW o \in [Slots -> SUBSET Owner], NEW r \in Receiver, NEW objs,
         NEW success, NEW s \in Slots,
         "LATEST" \in TerminalOwners(r, o, objs, success)[s]
  PROVE  \/ "LATEST" \in o[s]
         \/ success /\ r.validated /\ s = r.staging
<1>1. CASE success /\ r.validated
  BY <1>1 DEF TerminalOwners, Promote
<1>2. CASE ~(success /\ r.validated)
  BY <1>2 DEF TerminalOwners, AbortStaging
<1> QED BY <1>1, <1>2

(* Discarding a reception makes nothing latest and leaves no validated     *)
(* object that was not there.                                              *)
LEMMA PictureDiscard ==
  ASSUME TypeOK, PictureInvariant, DiscardReception, rx' = NoTransaction,
         UNCHANGED <<objects, pc, staging, opImage>>
  PROVE  PictureInvariant'
<1> DEFINE closed == ReceiverClose(receiver, rx.handle)
<1>1. closed \in Receiver /\ closed.staging = receiver.staging
      /\ closed.validated = receiver.validated
  BY ReceiverCalls DEF TypeOK, ReceiverClose, Receiver
<1>2. \A s \in Slots : "LATEST" \in owners'[s] => "LATEST" \in owners[s]
  BY TerminalLatest DEF DiscardReception, TypeOK
<1>3. receiver'.validated =>
        receiver.validated /\ receiver'.staging = receiver.staging
  BY <1>1 DEF DiscardReception, TerminalReceiver, NoReception
<1>4. rx'.phase = "idle"
  BY DEF NoTransaction
<1> QED BY <1>2, <1>3, <1>4 DEF PictureInvariant, LatestComplete

LEMMA PictureStep ==
  AccountingInvariant /\ PictureInvariant /\ [Next]_vars => PictureInvariant'
<1> SUFFICES ASSUME AccountingInvariant, PictureInvariant, [Next]_vars
             PROVE  PictureInvariant'
  OBVIOUS
<1> USE DEF PictureInvariant, store, link, worker, events, ghosts
<1>a. /\ TypeOK /\ OwnersAccounted /\ SlotsFollowWorker
      /\ owners \in [Slots -> SUBSET Owner] /\ objects \in [Slots -> Object]
      /\ receiver \in Receiver /\ rx \in Reception
      /\ staging \in Slots \cup {NoSlot}
      /\ 1 \in Parts
  BY PartCountAssumption DEF AccountingInvariant, TypeOK, Parts
<1>b. NoTransaction.phase = "idle" /\ NoSlot \notin Slots
  BY DEF NoTransaction, NoSlot, Slots
<1>1. CASE LoopStep
  <2>1. CASE IngressDone \/ ActionsDone \/ TickDone \/ TxEventDone
    BY <1>a, <2>1 DEF IngressDone, ActionsDone, TickDone, TxEventDone, LatestComplete
  <2>2. CASE TakeEvents
    <3>1. rx' \in Reception /\ rx'.phase = rx.phase /\ rx'.handle = rx.handle
          /\ rx'.got = rx.got /\ rx'.image = rx.image
      BY <1>a, <2>2 DEF TakeEvents, Reception
    <3> QED BY <2>2, <3>1 DEF TakeEvents, LatestComplete
  <2>3. CASE TxEvent
    <3>1. \A s \in Slots : "LATEST" \in owners'[s] => "LATEST" \in owners[s]
      BY <1>a, <2>3 DEF TxEvent, ReleaseTransmission, ReleaseTx
    <3> QED BY <2>3, <3>1 DEF TxEvent, LatestComplete
  <2>4. CASE RxEvent
    <3>1. \A s \in Slots : "LATEST" \in owners'[s] =>
            "LATEST" \in owners[s] \/ (receiver.validated /\ s = receiver.staging)
      BY <1>a, <2>4, TerminalLatest DEF RxEvent
    <3>2. \/ receiver' = receiver
          \/ receiver' = NoReception
      BY <2>4 DEF RxEvent, TerminalReceiver
    <3> QED BY <2>4, <3>1, <3>2 DEF RxEvent, LatestComplete, NoReception, ReceiverHandle
  <2> QED BY <1>1, <2>1, <2>2, <2>3, <2>4 DEF LoopStep
<1>2. CASE SendStep
  <2>1. CASE ReplyAccepted \/ SendAccepted
    BY <1>a, <2>1 DEF ReplyAccepted, SendAccepted, LatestComplete, TypeOK
  <2>2. CASE ClaimCaptureSlot
    <3>1. \A s \in Slots : "LATEST" \in owners'[s] => "LATEST" \in owners[s]
      BY <1>a, <2>2 DEF ClaimCaptureSlot, ClaimStaging
    <3> QED BY <1>a, <2>2, <3>1 DEF ClaimCaptureSlot, LatestComplete, TypeOK
  <2>3. ASSUME EncodeHeader \/ \E i \in Images : AcquirePixels(i)
        PROVE  /\ \A s \in Slots : "LATEST" \in owners'[s] => objects'[s] = objects[s]
               /\ staging \in Slots
               /\ receiver.staging \in Slots =>
                    objects'[receiver.staging] = objects[receiver.staging]
               /\ UNCHANGED <<owners, receiver, rx>>
    <3>1. staging \in Slots /\ receiver.staging # staging
      BY <1>a, <2>3 DEF EncodeHeader, AcquirePixels, SlotsFollowWorker, OwnersAccounted
    <3>2. UNCHANGED <<owners, receiver, rx>>
          /\ \A s \in Slots \ {staging} : objects'[s] = objects[s]
      BY <1>a, <2>3 DEF EncodeHeader, AcquirePixels
    <3>3. "LATEST" \notin owners[staging]
      BY <1>a, <3>1 DEF OwnersAccounted, StoreValid
    <3> QED BY <3>1, <3>2, <3>3
  <2>4. ASSUME EncodeHeader \/ \E i \in Images : AcquirePixels(i)
        PROVE  /\ LatestComplete'
               /\ rx'.phase = "receiving" => rx'.image \in Images
               /\ (rx'.phase = "receiving" /\ ReceiverHandle(receiver', rx'.handle)) =>
                    \A p \in rx'.got : objects'[receiver'.staging][p] = rx'.image
               /\ receiver'.validated => Complete(objects'[receiver'.staging])
    <3>1. receiver.staging \in Slots \cup {NoSlot}
      BY <1>a DEF Receiver
    <3> QED BY <1>a, <2>3, <2>4, <3>1 DEF LatestComplete, ReceiverHandle, SlotsFollowWorker
  <2>5. CASE \E i \in Images : AcquirePixels(i)
    <3>1. PICK i \in Images : AcquirePixels(i) BY <2>5
    <3>2. \A p \in Parts \ {1} : objects'[staging][p] = i
      BY <1>a, <2>3, <3>1 DEF AcquirePixels
    <3> QED BY <2>4, <3>1, <3>2 DEF AcquirePixels
  <2>6. CASE EncodeHeader
    <3>1. \A p \in Parts : objects'[staging][p] = opImage
      BY <1>a, <2>3, <2>6 DEF EncodeHeader, Object
    <3> QED BY <2>4, <2>6, <3>1 DEF EncodeHeader
  <2>7. CASE CaptureFails
    <3>1. \A s \in Slots : "LATEST" \in owners'[s] => "LATEST" \in owners[s]
      BY <1>a, <2>7 DEF CaptureFails, AbortStaging
    <3> QED BY <1>a, <2>7, <3>1 DEF CaptureFails, LatestComplete, TypeOK
  <2>8. CASE PublishCapture
    <3>1. staging \in Slots /\ Complete(objects[staging])
      BY <1>a, <2>8 DEF PublishCapture, SlotsFollowWorker, Complete
    <3>2. \A s \in Slots : "LATEST" \in owners'[s] => s = staging \/ "LATEST" \in owners[s]
      BY <1>a, <2>8 DEF PublishCapture, RetainTx, Promote
    <3> QED BY <2>8, <3>1, <3>2 DEF PublishCapture, LatestComplete
  <2>9. CASE SendRefused
    <3>1. \A s \in Slots : "LATEST" \in owners'[s] => "LATEST" \in owners[s]
      BY <1>a, <2>9 DEF SendRefused, ReleaseTransmission, ReleaseTx
    <3> QED BY <1>a, <2>9, <3>1 DEF SendRefused, LatestComplete, TypeOK
  <2> QED BY <1>2, <2>1, <2>2, <2>5, <2>6, <2>7, <2>8, <2>9 DEF SendStep
<1>3. CASE CaptureCommand \/ LocalSend
  BY <1>3 DEF CaptureCommand, LocalSend, ClaimSendOperation, LatestComplete
<1>4. CASE ReceiveStep
  <2>1. CASE \E i \in Images : RxMetadata(i)
    <3>1. PICK i \in Images : RxMetadata(i) BY <2>1
    <3>2. CASE UNCHANGED <<store, receiver, rx>>
      BY <3>1, <3>2 DEF RxMetadata, LatestComplete
    <3>3. ASSUME NEW s \in Slots, ReceiverOpenable(receiver, owners, s),
                 owners' = ClaimStaging(owners, s),
                 objects' = [objects EXCEPT ![s] = Blank],
                 receiver' = ReceiverOpen(s),
                 rx' = [phase |-> "receiving", handle |-> s, image |-> i,
                        got |-> {}, fresh |-> TRUE]
          PROVE  PictureInvariant'
      <4>1. ~receiver'.validated /\ rx'.got = {} /\ rx'.image = i
        BY <3>3 DEF ReceiverOpen
      <4>2. \A t \in Slots : "LATEST" \in owners'[t] =>
              "LATEST" \in owners[t] /\ objects'[t] = objects[t]
        BY <1>a, <3>3 DEF ClaimStaging
      <4>3. LatestComplete'
        BY <4>2 DEF LatestComplete
      <4> QED BY <3>1, <4>1, <4>3 DEF RxMetadata
    <3> QED BY <3>1, <3>2, <3>3 DEF RxMetadata
  <2>2. CASE FailReception /\ UNCHANGED <<objects, pc, staging, opImage>>
    <3>1. DiscardReception /\ rx' = NoTransaction
      BY <2>2 DEF FailReception
    <3> HIDE DEF PictureInvariant
    <3> QED BY <1>a, <2>2, <3>1, PictureDiscard
  <2>3. CASE \E p \in Parts : RxFileData(p)
    <3>1. PICK p \in Parts : RxFileData(p) BY <2>3
    <3>2. CASE ReceiverHandle(receiver, rx.handle)
      <4> DEFINE s == receiver.staging
      <4>1. s \in Slots /\ ~receiver.validated
        BY <1>a, <3>2 DEF ReceiverHandle, Receiver, SlotsFollowWorker
      <4>2. /\ receiver'.staging = s /\ ~receiver'.validated
            /\ receiver'.open
        BY <1>a, <3>1, <3>2, <4>1 DEF RxFileData, ReceiverWrite, ReceiverHandle, Receiver
      <4>3. /\ rx'.phase = rx.phase /\ rx'.handle = rx.handle /\ rx'.image = rx.image
            /\ rx'.got = rx.got \cup {p}
        BY <1>a, <3>1, <3>2 DEF RxFileData, Reception
      <4>4. rx.got \subseteq Parts
        BY <1>a DEF Reception
      <4>5. /\ objects'[s][p] = rx.image
            /\ \A q \in Parts \ {p} : objects'[s][q] = objects[s][q]
            /\ \A t \in Slots \ {s} : objects'[t] = objects[t]
        BY <1>a, <3>1, <3>2, <4>1 DEF RxFileData, Object
      <4>6. LatestComplete'
        <5>1. "LATEST" \notin owners[s]
          BY <1>a, <4>1 DEF OwnersAccounted, StoreValid
        <5> QED BY <3>1, <3>2, <4>5, <5>1 DEF RxFileData, LatestComplete
      <4>7. \A q \in rx'.got : objects'[s][q] = rx'.image
        BY <3>1, <3>2, <4>3, <4>4, <4>5 DEF RxFileData
      <4> QED BY <3>1, <4>2, <4>3, <4>6, <4>7 DEF RxFileData
    <3>3. CASE ~ReceiverHandle(receiver, rx.handle)
      BY <2>2, <3>1, <3>3 DEF RxFileData
    <3> QED BY <3>2, <3>3
  <2>4. CASE RxCommit
    <3> DEFINE closed == ReceiverClose(receiver, rx.handle)
    <3>1. CASE /\ ReceiverHandle(receiver, rx.handle)
               /\ receiver' = ReceiverValidate(closed)
               /\ rx' = [rx EXCEPT !.phase = "finished"]
               /\ UNCHANGED <<owners, terminal>>
      <4>1. receiver'.staging = receiver.staging
        BY <1>a, <3>1, ReceiverCalls DEF ReceiverValidate, ReceiverClose, Receiver
      <4>2. Complete(objects[receiver.staging])
        BY <2>4, <3>1 DEF RxCommit, Complete
      <4>3. rx'.phase = "finished"
        BY <1>a, <3>1 DEF Reception
      <4> QED BY <2>4, <3>1, <4>1, <4>2, <4>3 DEF RxCommit, LatestComplete
    <3> QED BY <2>2, <2>4, <3>1 DEF RxCommit
  <2>5. CASE RxFinishedAck
    BY <1>b, <2>5 DEF RxFinishedAck, LatestComplete
  <2>6. CASE RxCorrupt
    BY <2>2, <2>6 DEF RxCorrupt
  <2>7. CASE RxTimeout
    BY <1>b, <2>2, <2>7 DEF RxTimeout, LatestComplete
  <2> QED BY <1>4, <2>1, <2>3, <2>4, <2>5, <2>6, <2>7 DEF ReceiveStep
<1>5. CASE TransmitStep
  BY <1>5 DEF TransmitStep, TxOpen, TxRead, TxClose, TxEnds, LatestComplete
<1>6. CASE LinkStep
  <2>1. CASE RestartDetected \/ LinkFails
    <3>1. AbortTransactions /\ UNCHANGED <<objects, pc, staging, opImage>>
      BY <2>1 DEF RestartDetected, LinkFails
    <3>2. rx' = NoTransaction /\ (DiscardReception \/ UNCHANGED <<owners, receiver>>)
      BY <3>1 DEF AbortTransactions
    <3>3. CASE DiscardReception
      <4> HIDE DEF PictureInvariant
      <4> QED BY <1>a, <3>1, <3>2, <3>3, PictureDiscard
    <3>4. CASE UNCHANGED <<owners, receiver>>
      BY <1>b, <3>1, <3>2, <3>4 DEF LatestComplete
    <3> QED BY <3>2, <3>3, <3>4
  <2>2. CASE RecoveryEnds \/ PeerStatus \/ RecoveryCandidate \/ LinkAction
    BY <2>2 DEF RecoveryEnds, PeerStatus, RecoveryCandidate, LinkAction, LatestComplete
  <2>3. CASE LinkReturns \/ RecoveryStarts \/ PeerTimeout
    BY <2>3 DEF LinkReturns, RecoveryStarts, PeerTimeout, LatestComplete
  <2> QED BY <1>6, <2>1, <2>2, <2>3 DEF LinkStep
<1>7. CASE ShowImage \/ LeaveImage
  <2>1. \A s \in Slots : "LATEST" \in owners'[s] => "LATEST" \in owners[s]
    BY <1>a, <1>7 DEF ShowImage, LeaveImage, AcquireDisplay, ReleaseDisplay
  <2> QED BY <1>7, <2>1 DEF ShowImage, LeaveImage, LatestComplete
<1>8. CASE UNCHANGED vars
  BY <1>8 DEF vars, LatestComplete
<1> QED BY <1>1, <1>2, <1>3, <1>4, <1>5, <1>6, <1>7, <1>8 DEF Next

(* Only whole pictures ever become the latest image: neither a capture     *)
(* that fails nor a reception that is torn or given up is promoted.        *)
THEOREM LatestWhole == Spec => []LatestComplete
<1>1. PictureInvariant => LatestComplete
  BY DEF PictureInvariant
<1> QED BY <1>1, AccountingHolds, PictureInit, PictureStep, PTL DEF Spec

-----------------------------------------------------------------------------
(* While a transaction runs, its slot holds the picture that the operation *)
(* captured, and that is all it has read.                                  *)
CaptureInvariant ==
  cfdpTx => /\ txSlot # NoSlot
            /\ \A p \in Parts : objects[txSlot][p] = opImage
            /\ sent \subseteq {opImage}

LEMMA CaptureInit == Init => CaptureInvariant
BY DEF Init, CaptureInvariant

LEMMA CaptureStep ==
  /\ AccountingInvariant /\ OperationInvariant /\ PictureInvariant
  /\ CaptureInvariant /\ [Next]_vars
  => CaptureInvariant'
<1> SUFFICES ASSUME AccountingInvariant, OperationInvariant, PictureInvariant,
                    CaptureInvariant, [Next]_vars
             PROVE  CaptureInvariant'
  OBVIOUS
<1> USE DEF CaptureInvariant, store, link, worker, events, ghosts
<1>a. /\ TypeOK /\ OwnersAccounted /\ source.slot = txSlot
      /\ txSlot \in Slots \cup {NoSlot}
  BY DEF AccountingInvariant, TypeOK, OwnersAccounted
<1>b. cfdpTx => objects'[txSlot] = objects[txSlot]
  BY <1>a, WritesUnshared DEF OwnersAccounted
<1>c. cfdpTx => /\ pc \notin {"accepted", "capture", "acquire", "encode", "publish"}
                /\ snapshot["SENDER"] = "None"
  BY DEF OperationInvariant, Preparing, Sending
<1>d. ASSUME cfdpTx' => cfdpTx,
             cfdpTx => UNCHANGED <<txSlot, opImage, sent>>
      PROVE  CaptureInvariant'
  BY <1>b, <1>d
<1>1. CASE LoopStep
  <2>1. CASE IngressDone \/ TakeEvents \/ RxEvent \/ ActionsDone \/ TickDone
    BY <1>d, <2>1 DEF IngressDone, TakeEvents, RxEvent, ActionsDone, TickDone
  <2>2. CASE TxEvent
    BY <1>c, <1>d, <2>2 DEF TxEvent
  <2>3. CASE TxEventDone
    BY <1>d, <2>3 DEF TxEventDone, OperationInvariant
  <2> QED BY <1>1, <2>1, <2>2, <2>3 DEF LoopStep
<1>2. CASE SendStep
  <2>1. CASE PublishCapture
    <3>1. /\ txSlot' = staging /\ staging # NoSlot /\ sent' = {} /\ UNCHANGED opImage
          /\ \A p \in Parts : objects'[staging][p] = opImage
      BY <2>1 DEF PublishCapture, PictureInvariant, AccountingInvariant, SlotsFollowWorker
    <3> QED BY <3>1
  <2>2. CASE SendRefused
    BY <2>2 DEF SendRefused
  <2>3. CASE SendAccepted
    BY <1>d, <2>3 DEF SendAccepted
  <2>4. CASE ~(PublishCapture \/ SendRefused \/ SendAccepted)
    <3>1. ~cfdpTx /\ UNCHANGED cfdpTx
      BY <1>2, <1>c, <2>4 DEF SendStep, ReplyAccepted, ClaimCaptureSlot, AcquirePixels,
                              EncodeHeader, CaptureFails
    <3> QED BY <3>1
  <2> QED BY <2>1, <2>2, <2>3, <2>4
<1>3. CASE CaptureCommand \/ LocalSend
  BY <1>d, <1>3 DEF CaptureCommand, LocalSend, ClaimSendOperation
<1>4. CASE ReceiveStep
  BY <1>d, <1>4 DEF ReceiveStep, RxMetadata, RxFileData, RxCommit, RxFinishedAck,
                    RxCorrupt, RxTimeout
<1>5. CASE TransmitStep
  <2>1. CASE \E p \in Parts : TxRead(p)
    <3>1. PICK p \in Parts : TxRead(p) BY <2>1
    <3>2. cfdpTx /\ sent' = sent \cup {opImage}
      BY <1>a, <3>1 DEF TxRead, TxRunning
    <3> QED BY <1>b, <3>1, <3>2 DEF TxRead
  <2>2. CASE TxOpen \/ TxClose
    BY <1>d, <2>2 DEF TxOpen, TxClose
  <2>3. CASE \E e \in {"COMPLETE", "FAILED"} : TxEnds(e)
    BY <2>3 DEF TxEnds
  <2> QED BY <1>5, <2>1, <2>2, <2>3 DEF TransmitStep
<1>6. CASE LinkStep
  <2>1. CASE RestartDetected \/ LinkFails
    BY <2>1 DEF RestartDetected, LinkFails, AbortTransactions
  <2>2. CASE RecoveryEnds \/ PeerStatus \/ RecoveryCandidate \/ LinkAction
    BY <1>d, <2>2 DEF RecoveryEnds, PeerStatus, RecoveryCandidate, LinkAction
  <2>3. CASE LinkReturns \/ RecoveryStarts \/ PeerTimeout
    BY <1>d, <2>3 DEF LinkReturns, RecoveryStarts, PeerTimeout
  <2> QED BY <1>6, <2>1, <2>2, <2>3 DEF LinkStep
<1>7. CASE ShowImage \/ LeaveImage
  BY <1>d, <1>7 DEF ShowImage, LeaveImage
<1>8. CASE UNCHANGED vars
  BY <1>d, <1>8 DEF vars
<1> QED BY <1>1, <1>2, <1>3, <1>4, <1>5, <1>6, <1>7, <1>8 DEF Next

(* The four invariants hold together.                                      *)
LEMMA TransferHolds ==
  Spec => [](AccountingInvariant /\ OperationInvariant /\ PictureInvariant
             /\ CaptureInvariant)
BY AccountingHolds, OperationInit, OperationStep, PictureInit, PictureStep,
   CaptureInit, CaptureStep, PTL DEF Spec

(* A transaction sends the picture its operation captured, whatever the    *)
(* peer sends and the user shows in the meantime.                          *)
THEOREM CapturedIsSent == Spec => []SentIsCaptured
<1>1. CaptureInvariant => SentIsCaptured
  BY DEF CaptureInvariant, SentIsCaptured
<1> QED BY <1>1, TransferHolds, PTL

-----------------------------------------------------------------------------
(* The image path of a board implements LatestImage, for every number of   *)
(* slots and parts and every set of pictures: each step of the worker, the *)
(* library, the peer or the UI thread is one of LatestImage's operations   *)
(* on whole pictures, or changes none of what the operator is promised.    *)

Shared(o) == o \cap {"LATEST", "DISPLAY", "TX"} # {}

(* Every object that somebody may look at is a whole picture.              *)
SharedComplete == \A s \in Slots : Shared(owners[s]) => Complete(objects[s])

RefinementInvariant ==
  AccountingInvariant /\ PictureInvariant /\ SharedComplete

(* The slots that a step newly shares: the published capture, or the       *)
(* validated reception that the receiver's COMPLETE event promotes.        *)
LEMMA NewlyShared ==
  ASSUME AccountingInvariant, PictureInvariant, [Next]_vars,
         NEW s \in Slots, Shared(owners'[s]), ~Shared(owners[s])
  PROVE  /\ Complete(objects[s]) /\ objects'[s] = objects[s]
         /\ \/ PublishCapture
            \/ RxEvent
<1> USE DEF store, Shared
<1>a. /\ TypeOK /\ OwnersAccounted /\ SlotsFollowWorker
      /\ owners \in [Slots -> SUBSET Owner] /\ receiver \in Receiver
      /\ staging \in Slots \cup {NoSlot}
  BY DEF AccountingInvariant, TypeOK
<1>b. owners' # owners
  OBVIOUS
<1>c. ASSUME NEW stg \in Slots \cup {NoSlot}
      PROVE  ~Shared(AbortStaging(owners, stg)[s])
  BY <1>a DEF AbortStaging
<1>d. ASSUME DiscardReception PROVE FALSE
  <2> DEFINE r == receiver
  <2>1. r.staging \in Slots \cup {NoSlot}
    BY <1>a DEF Receiver
  <2>2. owners' = owners \/ owners' = AbortStaging(owners, r.staging)
    BY <1>d DEF DiscardReception, TerminalOwners
  <2> QED BY <1>c, <2>1, <2>2
<1>1. CASE LoopStep
  <2>1. CASE TxEvent
    BY <1>a, <2>1 DEF TxEvent, ReleaseTransmission, ReleaseTx
  <2>2. CASE RxEvent
    <3>1. receiver.staging \in Slots \cup {NoSlot}
      BY <1>a DEF Receiver
    <3>2. receiver.validated /\ owners' = Promote(owners, receiver.staging)
      BY <1>b, <1>c, <2>2, <3>1 DEF RxEvent, TerminalOwners
    <3>3. s = receiver.staging
      BY <1>a, <3>2 DEF Promote
    <3> QED BY <2>2, <3>2, <3>3 DEF RxEvent, PictureInvariant
  <2> QED BY <1>1, <1>b, <2>1, <2>2
          DEF LoopStep, IngressDone, TakeEvents, TxEventDone, ActionsDone, TickDone
<1>2. CASE SendStep
  <2>1. CASE PublishCapture
    <3>1. s = staging
      BY <1>a, <2>1 DEF PublishCapture, RetainTx, Promote
    <3>2. Complete(objects[staging])
      BY <1>a, <2>1 DEF PublishCapture, PictureInvariant, SlotsFollowWorker, Complete
    <3> QED BY <2>1, <3>1, <3>2 DEF PublishCapture
  <2>2. CASE ClaimCaptureSlot
    BY <1>a, <2>2 DEF ClaimCaptureSlot, ClaimStaging
  <2>3. CASE CaptureFails
    BY <1>a, <1>c, <2>3 DEF CaptureFails
  <2>4. CASE SendRefused
    BY <1>a, <2>4 DEF SendRefused, ReleaseTransmission, ReleaseTx
  <2> QED BY <1>2, <1>b, <2>1, <2>2, <2>3, <2>4
          DEF SendStep, ReplyAccepted, AcquirePixels, EncodeHeader, SendAccepted
<1>3. CASE CaptureCommand \/ LocalSend
  BY <1>3, <1>b DEF CaptureCommand, LocalSend
<1>4. CASE ReceiveStep
  <2>1. CASE \E i \in Images : RxMetadata(i)
    BY <1>a, <2>1 DEF RxMetadata, ClaimStaging
  <2> QED BY <1>4, <1>b, <1>d, <2>1
          DEF ReceiveStep, RxFileData, RxCommit, RxFinishedAck, RxCorrupt, RxTimeout,
              FailReception
<1>5. CASE TransmitStep
  BY <1>5, <1>b DEF TransmitStep, TxOpen, TxRead, TxClose, TxEnds
<1>6. CASE LinkStep
  BY <1>6, <1>b, <1>d
     DEF LinkStep, RestartDetected, RecoveryEnds, PeerStatus, RecoveryCandidate,
         LinkAction, LinkFails, LinkReturns, RecoveryStarts, PeerTimeout,
         AbortTransactions
<1>7. CASE ShowImage
  BY <1>a, <1>7 DEF ShowImage, DisplayAvailable, AcquireDisplay
<1>8. CASE LeaveImage
  BY <1>a, <1>8 DEF LeaveImage, ReleaseDisplay
<1>9. CASE UNCHANGED vars
  BY <1>9, <1>b DEF vars
<1> QED BY <1>1, <1>2, <1>3, <1>4, <1>5, <1>6, <1>7, <1>8, <1>9 DEF Next

(* The invariant of the refinement is kept.                                *)
LEMMA RefinementInit == Init => RefinementInvariant
BY AccountingInit, PictureInit DEF Init, RefinementInvariant, SharedComplete, Shared

LEMMA RefinementStep ==
  RefinementInvariant /\ [Next]_vars => RefinementInvariant'
<1> SUFFICES ASSUME RefinementInvariant, [Next]_vars PROVE RefinementInvariant'
  OBVIOUS
<1> USE DEF RefinementInvariant
<1>1. ASSUME NEW s \in Slots, Shared(owners'[s]) PROVE Complete(objects'[s])
  <2>1. CASE Shared(owners[s])
    BY <2>1, WritesUnshared DEF SharedComplete, Shared
  <2>2. CASE ~Shared(owners[s])
    BY <1>1, <2>2, NewlyShared
  <2> QED BY <2>1, <2>2
<1>2. SharedComplete'
  BY <1>1 DEF SharedComplete
<1> QED BY <1>2, AccountingStep, PictureStep

-----------------------------------------------------------------------------
(* The slot that holds the latest image, as a function of the owners.      *)
LatestOf(o) == IF \E s \in Slots : "LATEST" \in o[s]
               THEN CHOOSE s \in Slots : "LATEST" \in o[s] ELSE NoSlot

LEMMA LatestUnique ==
  ASSUME NEW o, StoreValid(o), NEW s \in Slots, "LATEST" \in o[s]
  PROVE  LatestOf(o) = s
<1> DEFINE t == CHOOSE u \in Slots : "LATEST" \in o[u]
<1>1. t \in Slots /\ "LATEST" \in o[t]
  OBVIOUS
<1>2. t = s
  BY <1>1 DEF StoreValid
<1> QED BY <1>2 DEF LatestOf

(* What of the owners decides is only who has LATEST.                      *)
LEMMA LatestSame ==
  ASSUME NEW o, NEW n, StoreValid(o), StoreValid(n),
         \A s \in Slots : "LATEST" \in n[s] <=> "LATEST" \in o[s]
  PROVE  LatestOf(n) = LatestOf(o)
<1>1. CASE \E s \in Slots : "LATEST" \in o[s]
  BY <1>1, LatestUnique
<1>2. CASE ~\E s \in Slots : "LATEST" \in o[s]
  BY <1>2 DEF LatestOf
<1> QED BY <1>1, <1>2

LEMMA LatestSlotIs == LatestSlot = LatestOf(owners) /\ LatestSlot' = LatestOf(owners')
BY DEF LatestSlot, LatestOf

(* The latest image, the displayed one and the one being sent are slots    *)
(* that hold whole pictures, or none.                                      *)
LEMMA HoldersShared ==
  ASSUME RefinementInvariant, NEW s \in {LatestSlot, displayed, txSlot}
  PROVE  s = NoSlot \/ (s \in Slots /\ Shared(owners[s]))
<1>1. LatestSlot = NoSlot \/ (LatestSlot \in Slots /\ "LATEST" \in owners[LatestSlot])
  BY LatestSlotIs DEF LatestOf
<1> QED BY <1>1 DEF RefinementInvariant, AccountingInvariant, OwnersAccounted, TypeOK, Shared

(* The picture of a slot, seen from the lemma that nobody writes it.       *)
LEMMA PictureOfShared ==
  ASSUME RefinementInvariant, [Next]_vars, NEW s \in Slots, Shared(owners[s])
  PROVE  /\ PictureOf(s) \in Images /\ PictureOf(s) # Zero
         /\ objects'[s] = objects[s]
<1>1. Complete(objects[s]) /\ objects'[s] = objects[s]
  BY WritesUnshared DEF RefinementInvariant, SharedComplete, Shared
<1>2. objects[s][1] \in Images
  BY <1>1, PartCountAssumption DEF Complete, Parts
<1> QED BY <1>1, <1>2, ZeroAssumption DEF PictureOf, NoSlot, Slots

(* What a slot shows depends on its object only.                           *)
PictureIn(objs, s) == IF s = NoSlot THEN Zero
                      ELSE IF Complete(objs[s]) THEN objs[s][1] ELSE "torn"

(* A holder that keeps its slot keeps its picture.                         *)
LEMMA PictureKept ==
  ASSUME RefinementInvariant, [Next]_vars, NEW s \in {LatestSlot, displayed, txSlot}
  PROVE  PictureIn(objects', s) = PictureIn(objects, s)
BY HoldersShared, PictureOfShared DEF PictureIn

(* The three things LatestImage looks at, before and after a step.         *)
LEMMA Observed ==
  /\ PictureOf(LatestSlot) = PictureIn(objects, LatestOf(owners))
  /\ PictureOf(displayed) = PictureIn(objects, displayed)
  /\ PictureOf(txSlot) = PictureIn(objects, txSlot)
  /\ PictureOf(LatestSlot)' = PictureIn(objects', LatestOf(owners'))
  /\ PictureOf(displayed)' = PictureIn(objects', displayed')
  /\ PictureOf(txSlot)' = PictureIn(objects', txSlot')
BY LatestSlotIs DEF PictureOf, PictureIn

(* A step that moves neither LATEST nor a pointer is not seen above.       *)
LEMMA HoldersKept ==
  ASSUME RefinementInvariant, [Next]_vars
  PROVE  /\ (\A s \in Slots : "LATEST" \in owners'[s] <=> "LATEST" \in owners[s])
              => PictureOf(LatestSlot)' = PictureOf(LatestSlot)
         /\ displayed' = displayed => PictureOf(displayed)' = PictureOf(displayed)
         /\ txSlot' = txSlot => PictureOf(txSlot)' = PictureOf(txSlot)
<1>1. StoreValid(owners) /\ StoreValid(owners')
  BY AccountingStep DEF RefinementInvariant, AccountingInvariant, OwnersAccounted
<1>2. ASSUME \A s \in Slots : "LATEST" \in owners'[s] <=> "LATEST" \in owners[s]
      PROVE  PictureOf(LatestSlot)' = PictureOf(LatestSlot)
  <2>1. LatestOf(owners') = LatestOf(owners)
    BY <1>1, <1>2, LatestSame
  <2> QED BY <2>1, PictureKept, Observed, LatestSlotIs
<1> QED BY <1>2, PictureKept, Observed

(* Discarding a reception, or a staging slot, leaves LATEST alone.         *)
LEMMA AbortKeepsLatest ==
  ASSUME TypeOK, NEW stg
  PROVE  \A s \in Slots : "LATEST" \in AbortStaging(owners, stg)[s]
                            <=> "LATEST" \in owners[s]
BY DEF AbortStaging, TypeOK

(* The steps that may move LATEST or a pointer are these six.              *)
LEMMA QuietSteps ==
  ASSUME TypeOK, [Next]_vars,
         ~(PublishCapture \/ RxEvent \/ ShowImage \/ LeaveImage
             \/ TxEvent \/ SendRefused)
  PROVE  /\ \A s \in Slots : "LATEST" \in owners'[s] <=> "LATEST" \in owners[s]
         /\ UNCHANGED <<displayed, txSlot>>
<1> USE DEF store, worker
<1>a. ASSUME DiscardReception
      PROVE  \A s \in Slots : "LATEST" \in owners'[s] <=> "LATEST" \in owners[s]
  BY <1>a, AbortKeepsLatest DEF DiscardReception, TerminalOwners
<1>b. ASSUME NEW s \in Slots, FirstFree(owners, s)
      PROVE  \A t \in Slots : "LATEST" \in ClaimStaging(owners, s)[t]
                                <=> "LATEST" \in owners[t]
  BY <1>b DEF FirstFree, ClaimStaging, TypeOK
<1>1. CASE LoopStep
  BY <1>1 DEF LoopStep, IngressDone, TakeEvents, TxEventDone, ActionsDone, TickDone
<1>2. CASE SendStep
  <2>1. CASE CaptureFails
    BY <2>1, AbortKeepsLatest DEF CaptureFails
  <2>2. CASE ClaimCaptureSlot
    BY <1>b, <2>2 DEF ClaimCaptureSlot
  <2> QED BY <1>2, <2>1, <2>2
          DEF SendStep, ReplyAccepted, AcquirePixels, EncodeHeader, SendAccepted
<1>3. CASE CaptureCommand \/ LocalSend
  BY <1>3 DEF CaptureCommand, LocalSend
<1>4. CASE ReceiveStep
  <2>1. CASE \E i \in Images : RxMetadata(i)
    BY <1>b, <2>1 DEF RxMetadata, ReceiverOpenable
  <2> QED BY <1>4, <1>a, <2>1
          DEF ReceiveStep, RxFileData, RxCommit, RxFinishedAck, RxCorrupt, RxTimeout,
              FailReception
<1>5. CASE TransmitStep
  BY <1>5 DEF TransmitStep, TxOpen, TxRead, TxClose, TxEnds
<1>6. CASE LinkStep
  BY <1>6, <1>a
     DEF LinkStep, RestartDetected, RecoveryEnds, PeerStatus, RecoveryCandidate,
         LinkAction, LinkFails, LinkReturns, RecoveryStarts, PeerTimeout,
         AbortTransactions
<1>7. CASE UNCHANGED vars
  BY <1>7 DEF vars
<1> QED BY <1>1, <1>2, <1>3, <1>4, <1>5, <1>6, <1>7 DEF Next

-----------------------------------------------------------------------------
(* Nothing is promised of the initial state but three empty places.        *)
LEMMA PromiseInit == Init => Promise!Init
<1> SUFFICES ASSUME Init PROVE Promise!Init
  OBVIOUS
<1>1. LatestSlot = NoSlot /\ displayed = NoSlot /\ txSlot = NoSlot
  BY DEF Init, LatestSlot
<1> QED BY <1>1 DEF Promise!Init, PictureOf

(* Every step is one of LatestImage's, or none.                            *)
LEMMA PromiseStep ==
  RefinementInvariant /\ [Next]_vars => [Promise!Next]_Promise!vars
<1> SUFFICES ASSUME RefinementInvariant, [Next]_vars
             PROVE  Promise!Next \/ UNCHANGED Promise!vars
  OBVIOUS
<1> USE DEF store, worker
<1>a. /\ TypeOK /\ OwnersAccounted /\ SlotsFollowWorker
      /\ owners \in [Slots -> SUBSET Owner] /\ objects \in [Slots -> Object]
      /\ receiver \in Receiver
      /\ staging \in Slots \cup {NoSlot} /\ txSlot \in Slots \cup {NoSlot}
      /\ displayed \in Slots \cup {NoSlot}
  BY DEF RefinementInvariant, AccountingInvariant, TypeOK
<1>b. StoreValid(owners) /\ StoreValid(owners') /\ NoSlot \notin Slots
      /\ PictureOf(NoSlot) = Zero
  BY AccountingStep DEF RefinementInvariant, AccountingInvariant, OwnersAccounted,
                        NoSlot, Slots, PictureOf
<1>1. CASE PublishCapture
  <2>1. staging \in Slots /\ txSlot = NoSlot /\ ~Shared(owners[staging])
    BY <1>a, <1>1 DEF PublishCapture, SlotsFollowWorker, Sending, Promotable, Shared
  <2>2. "LATEST" \in owners'[staging] /\ txSlot' = staging
    BY <1>a, <1>1, <2>1 DEF PublishCapture, RetainTx, Promote
  <2>3. Complete(objects'[staging]) /\ objects'[staging][1] \in Images
    <3>1. Complete(objects[staging]) /\ objects'[staging] = objects[staging]
      BY <1>1, <2>1, <2>2, NewlyShared DEF RefinementInvariant, Shared
    <3> QED BY <3>1, PartCountAssumption DEF Complete, Parts
  <2>4. PictureOf(LatestSlot)' = objects'[staging][1]
    BY <1>b, <2>1, <2>2, <2>3, LatestUnique, Observed DEF PictureIn
  <2>5. PictureOf(txSlot)' = objects'[staging][1] /\ PictureOf(txSlot) = Zero
    BY <1>b, <2>1, <2>2, <2>3, Observed DEF PictureIn
  <2>6. PictureOf(displayed)' = PictureOf(displayed)
    BY <1>1, HoldersKept DEF PublishCapture
  <2>7. Promise!Capture(objects'[staging][1])
    BY <2>4, <2>5, <2>6 DEF Promise!Capture
  <2> QED BY <2>3, <2>7 DEF Promise!Next
<1>2. CASE RxEvent
  <2>1. /\ PictureOf(displayed)' = PictureOf(displayed)
        /\ PictureOf(txSlot)' = PictureOf(txSlot)
    BY <1>2, HoldersKept DEF RxEvent
  <2>2. CASE \A s \in Slots : "LATEST" \in owners'[s] <=> "LATEST" \in owners[s]
    BY <2>1, <2>2, HoldersKept DEF Promise!vars
  <2>3. CASE ~\A s \in Slots : "LATEST" \in owners'[s] <=> "LATEST" \in owners[s]
    <3> DEFINE r == receiver.staging
    <3>1. r \in Slots /\ receiver.validated /\ owners' = Promote(owners, r)
      BY <1>a, <1>2, <2>3, AbortKeepsLatest DEF RxEvent, TerminalOwners, Receiver
    <3>2. "LATEST" \in owners'[r]
      BY <3>1 DEF Promote
    <3>3. Complete(objects'[r]) /\ objects'[r][1] \in Images
      BY <1>2, <3>1, PartCountAssumption
         DEF RxEvent, RefinementInvariant, PictureInvariant, Complete, Parts
    <3>4. PictureOf(LatestSlot)' = objects'[r][1]
      BY <1>b, <3>1, <3>2, <3>3, LatestUnique, Observed DEF PictureIn
    <3>5. Promise!Receive(objects'[r][1])
      BY <2>1, <3>4 DEF Promise!Receive
    <3> QED BY <3>3, <3>5 DEF Promise!Next
  <2> QED BY <2>2, <2>3
<1>3. CASE ShowImage
  <2>1. PICK s \in Slots : /\ "LATEST" \in owners[s]
                           /\ owners' = AcquireDisplay(owners, s)
                           /\ displayed' = s /\ displayed = NoSlot
    BY <1>3 DEF ShowImage, DisplayAvailable
  <2>2. \A t \in Slots : "LATEST" \in owners'[t] <=> "LATEST" \in owners[t]
    BY <1>a, <2>1 DEF AcquireDisplay
  <2>3. /\ PictureOf(LatestSlot)' = PictureOf(LatestSlot)
        /\ PictureOf(txSlot)' = PictureOf(txSlot)
    BY <1>3, <2>2, HoldersKept DEF ShowImage
  <2>4. LatestSlot = s
    BY <1>b, <2>1, LatestUnique, LatestSlotIs
  <2>5. PictureOf(s) # Zero /\ PictureOf(displayed)' = PictureOf(s)
    BY <2>1, PictureOfShared, Observed DEF Shared, PictureIn, PictureOf
  <2>6. Promise!Show
    BY <1>b, <2>1, <2>3, <2>4, <2>5 DEF Promise!Show
  <2> QED BY <2>6 DEF Promise!Next
<1>4. CASE LeaveImage
  <2>1. displayed # NoSlot /\ displayed' = NoSlot
    BY <1>4 DEF LeaveImage
  <2>2. \A t \in Slots : "LATEST" \in owners'[t] <=> "LATEST" \in owners[t]
    BY <1>a, <1>4 DEF LeaveImage, ReleaseDisplay
  <2>3. /\ PictureOf(LatestSlot)' = PictureOf(LatestSlot)
        /\ PictureOf(txSlot)' = PictureOf(txSlot)
    BY <1>4, <2>2, HoldersKept DEF LeaveImage
  <2>4. PictureOf(displayed) # Zero /\ PictureOf(displayed)' = Zero
    BY <2>1, HoldersShared, PictureOfShared, Observed DEF PictureIn
  <2>5. Promise!Leave
    BY <2>3, <2>4 DEF Promise!Leave
  <2> QED BY <2>5 DEF Promise!Next
<1>5. CASE TxEvent \/ SendRefused
  <2>1. UNCHANGED <<objects, displayed>>
    BY <1>5 DEF TxEvent, SendRefused
  <2>2. \A t \in Slots : "LATEST" \in owners'[t] <=> "LATEST" \in owners[t]
    BY <1>a, <1>5 DEF TxEvent, SendRefused, ReleaseTransmission, ReleaseTx
  <2>3. /\ PictureOf(LatestSlot)' = PictureOf(LatestSlot)
        /\ PictureOf(displayed)' = PictureOf(displayed)
    BY <2>1, <2>2, HoldersKept
  <2>4. CASE txSlot' = txSlot
    BY <2>3, <2>4, HoldersKept DEF Promise!vars
  <2>5. CASE txSlot' # txSlot
    <3>1. txSlot # NoSlot /\ txSlot' = NoSlot
      BY <1>5, <2>5 DEF TxEvent, SendRefused, ReleaseTransmission
    <3>2. PictureOf(txSlot) # Zero /\ PictureOf(txSlot)' = Zero
      BY <3>1, HoldersShared, PictureOfShared, Observed DEF PictureIn
    <3>3. Promise!SendEnds
      BY <2>3, <3>2 DEF Promise!SendEnds
    <3> QED BY <3>3 DEF Promise!Next
  <2> QED BY <2>4, <2>5
<1>6. CASE ~(PublishCapture \/ RxEvent \/ ShowImage \/ LeaveImage
               \/ TxEvent \/ SendRefused)
  BY <1>a, <1>6, QuietSteps, HoldersKept DEF Promise!vars
<1> QED BY <1>1, <1>2, <1>3, <1>4, <1>5, <1>6

(* The image path keeps the promise of LatestImage: what a board shows,    *)
(* keeps and sends are whole pictures, replaced only by a capture or by a  *)
(* complete reception, and a transfer that fails leaves the latest alone.  *)
THEOREM PromiseKept == Spec => KeepsPromise
<1>1. Spec => []RefinementInvariant
  BY RefinementInit, RefinementStep, PTL DEF Spec
<1> QED BY <1>1, PromiseInit, PromiseStep, PTL DEF Spec, KeepsPromise, Promise!Spec
=============================================================================
