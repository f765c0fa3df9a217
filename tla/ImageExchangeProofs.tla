------------------------- MODULE ImageExchangeProofs -------------------------
(***************************************************************************)
(* Proofs about ImageExchange for every number of slots and parts and      *)
(* every set of pictures: the types, and the accounting of the owner       *)
(* flags, which is what keeps one thread from reusing a slot that another  *)
(* is still showing or sending.                                            *)
(***************************************************************************)
EXTENDS ImageExchange, TLAPS

(* What the calls of ImageStore leave behind has the right type.           *)
LEMMA OwnerCalls ==
  ASSUME NEW o \in [Slots -> SUBSET Owner], NEW s \in Slots \cup {NoSlot}
  PROVE  /\ ClaimStaging(o, s) \in [Slots -> SUBSET Owner]
         /\ AbortStaging(o, s) \in [Slots -> SUBSET Owner]
         /\ Promote(o, s) \in [Slots -> SUBSET Owner]
         /\ RetainTx(o, s) \in [Slots -> SUBSET Owner]
         /\ ReleaseTx(o, s) \in [Slots -> SUBSET Owner]
         /\ AcquireDisplay(o, s) \in [Slots -> SUBSET Owner]
         /\ ReleaseDisplay(o, s) \in [Slots -> SUBSET Owner]
<1>1. AbortStaging(o, s) \in [Slots -> SUBSET Owner]
  BY DEF AbortStaging
<1>2. Promote(o, s) \in [Slots -> SUBSET Owner]
  BY DEF Promote, Owner
<1>3. /\ ClaimStaging(o, s) \in [Slots -> SUBSET Owner]
      /\ RetainTx(o, s) \in [Slots -> SUBSET Owner]
      /\ AcquireDisplay(o, s) \in [Slots -> SUBSET Owner]
  BY DEF ClaimStaging, RetainTx, AcquireDisplay, Owner
<1>4. /\ ReleaseTx(o, s) \in [Slots -> SUBSET Owner]
      /\ ReleaseDisplay(o, s) \in [Slots -> SUBSET Owner]
  BY DEF ReleaseTx, ReleaseDisplay
<1> QED BY <1>1, <1>2, <1>3, <1>4

(* The end of a reception leaves typed owners.                             *)
LEMMA TerminalOwnersType ==
  ASSUME NEW o \in [Slots -> SUBSET Owner], NEW r \in Receiver,
         NEW objs, NEW success
  PROVE  TerminalOwners(r, o, objs, success) \in [Slots -> SUBSET Owner]
<1>1. r.staging \in Slots \cup {NoSlot}
  BY DEF Receiver
<1>2. /\ AbortStaging(o, r.staging) \in [Slots -> SUBSET Owner]
      /\ Promote(o, r.staging) \in [Slots -> SUBSET Owner]
  BY <1>1, OwnerCalls
<1> QED BY <1>2 DEF TerminalOwners

(* The reset receiver is a receiver.                                       *)
LEMMA NoReceptionType == NoReception \in Receiver
BY PartCountAssumption DEF NoReception, Receiver

(* The calls of the receiver adapter keep its type.                        *)
LEMMA ReceiverCalls ==
  ASSUME NEW r \in Receiver
  PROVE  /\ TerminalReceiver(r) \in Receiver
         /\ \A h : ReceiverClose(r, h) \in Receiver
         /\ ReceiverValidate(r) \in Receiver
<1>1. TerminalReceiver(r) \in Receiver
  BY NoReceptionType DEF TerminalReceiver
<1>2. [r EXCEPT !.open = FALSE] \in Receiver
  BY DEF Receiver
<1>3. [r EXCEPT !.validated = TRUE] \in Receiver
  BY DEF Receiver
<1> QED BY <1>1, <1>2, <1>3 DEF ReceiverClose, ReceiverValidate

(* Latching keeps the events of both directions well typed.                *)
LEMMA LatchType ==
  ASSUME NEW t \in [Direction -> Event], NEW d \in Direction, NEW e \in Event
  PROVE  Latch(t, d, e) \in [Direction -> Event]
BY DEF Latch

(* Aborting both transactions keeps the types.                             *)
LEMMA AbortType ==
  ASSUME TypeOK, AbortTransactions
  PROVE  /\ owners' \in [Slots -> SUBSET Owner]
         /\ source' \in Source /\ receiver' \in Receiver
         /\ terminal' \in [Direction -> Event]
         /\ cfdpTx' \in BOOLEAN /\ rx' \in Reception
<1>1. owners' \in [Slots -> SUBSET Owner] /\ receiver' \in Receiver
  <2>1. CASE rx.phase = "receiving"
    <3>1. ReceiverClose(receiver, rx.handle) \in Receiver
      BY ReceiverCalls DEF TypeOK
    <3>2. DiscardReception
      BY <2>1 DEF AbortTransactions
    <3>3. receiver' \in Receiver
      BY <3>1, <3>2, ReceiverCalls DEF DiscardReception
    <3>4. owners' \in [Slots -> SUBSET Owner]
      BY <3>2, TerminalOwnersType DEF DiscardReception, TypeOK
    <3> QED BY <3>3, <3>4
  <2>2. CASE rx.phase # "receiving"
    BY <2>2 DEF AbortTransactions, TypeOK
  <2> QED BY <2>1, <2>2
<1>2. terminal' \in [Direction -> Event]
  BY LatchType DEF AbortTransactions, TypeOK, Direction, Event
<1>3. source' \in Source /\ cfdpTx' \in BOOLEAN
  BY DEF AbortTransactions, TypeOK, SourceClose, Source
<1>4. rx' \in Reception
  BY DEF AbortTransactions, NoTransaction, Reception
<1> QED BY <1>1, <1>2, <1>3, <1>4

(* So does giving back the transmission's slot.                            *)
LEMMA ReleaseType ==
  ASSUME TypeOK, ReleaseTransmission
  PROVE  /\ owners' \in [Slots -> SUBSET Owner]
         /\ source' \in Source
         /\ txSlot' \in Slots \cup {NoSlot}
<1>1. ReleaseTx(owners, txSlot) \in [Slots -> SUBSET Owner]
  BY OwnerCalls DEF TypeOK
<1>2. UnboundSource \in Source
  BY DEF UnboundSource, Source
<1> QED BY <1>1, <1>2 DEF ReleaseTransmission, TypeOK

(* So does a reception that fails.                                         *)
LEMMA FailType ==
  ASSUME TypeOK, FailReception
  PROVE  /\ owners' \in [Slots -> SUBSET Owner] /\ receiver' \in Receiver
         /\ terminal' \in [Direction -> Event] /\ rx' \in Reception
<1>1. ReceiverClose(receiver, rx.handle) \in Receiver
  BY ReceiverCalls DEF TypeOK
<1>2. owners' \in [Slots -> SUBSET Owner] /\ receiver' \in Receiver
  BY <1>1, TerminalOwnersType, ReceiverCalls
     DEF FailReception, DiscardReception, TypeOK
<1>3. terminal' \in [Direction -> Event]
  BY LatchType DEF FailReception, TypeOK, Direction, Event
<1>4. rx' \in Reception
  BY DEF FailReception, NoTransaction, Reception
<1> QED BY <1>2, <1>3, <1>4

-----------------------------------------------------------------------------
(* The initial state is typed.                                             *)
LEMMA TypeInit == Init => TypeOK
<1> SUFFICES ASSUME Init PROVE TypeOK
  OBVIOUS
<1>1. owners \in [Slots -> SUBSET Owner] /\ objects \in [Slots -> Object]
  BY DEF Init, Object, Blank
<1>2. source \in Source /\ receiver \in Receiver
  BY NoReceptionType DEF Init, Source, UnboundSource
<1>3. terminal \in [Direction -> Event] /\ snapshot \in [Direction -> Event]
  BY DEF Init, NoEvents, Event
<1>4. rx \in Reception
  BY DEF Init, Reception, NoTransaction
<1> QED BY <1>1, <1>2, <1>3, <1>4 DEF Init, TypeOK, Loop, Recovery

(* Every step keeps the types.                                             *)
LEMMA TypeStep == TypeOK /\ [Next]_vars => TypeOK'
<1> SUFFICES ASSUME TypeOK, [Next]_vars PROVE TypeOK'
  OBVIOUS
<1> USE DEF store, link, worker, events, ghosts
<1>1. CASE LoopStep
  <2>1. CASE IngressDone BY <2>1 DEF IngressDone, TypeOK, Loop
  <2>2. CASE TakeEvents
    BY <2>2 DEF TakeEvents, TypeOK, Loop, NoEvents, Event, Recovery, Reception
  <2>3. CASE TxEvent
    BY <2>3, ReleaseType DEF TxEvent, TypeOK, Loop
  <2>4. CASE TxEventDone
    BY <2>4 DEF TxEventDone, OperationForgotten, TypeOK, Loop
  <2>5. CASE RxEvent
    BY <2>5, TerminalOwnersType, ReceiverCalls
       DEF RxEvent, TypeOK, Loop, NoEvents, Event
  <2>6. CASE ActionsDone BY <2>6 DEF ActionsDone, TypeOK, Loop
  <2>7. CASE TickDone BY <2>7 DEF TickDone, TypeOK, Loop
  <2> QED BY <1>1, <2>1, <2>2, <2>3, <2>4, <2>5, <2>6, <2>7 DEF LoopStep
<1>2. CASE SendStep
  <2>1. CASE ReplyAccepted BY <2>1 DEF ReplyAccepted, TypeOK, Sending
  <2>2. CASE ClaimCaptureSlot
    <3>1. \A s \in Slots : ClaimStaging(owners, s) \in [Slots -> SUBSET Owner]
      BY OwnerCalls DEF TypeOK
    <3>2. owners' \in [Slots -> SUBSET Owner] /\ staging' \in Slots \cup {NoSlot}
      BY <2>2, <3>1 DEF ClaimCaptureSlot, TypeOK
    <3>3. pc' \in Loop \cup Sending /\ operationActive' \in BOOLEAN
      BY <2>2 DEF ClaimCaptureSlot, TypeOK, Loop, Sending
    <3> QED BY <2>2, <3>2, <3>3 DEF ClaimCaptureSlot, TypeOK
  <2>3. CASE \E i \in Images : AcquirePixels(i)
    <3>1. PICK i \in Images : AcquirePixels(i) BY <2>3
    <3>2. \A s \in Slots : [p \in Parts |-> IF p = 1 THEN objects[s][1] ELSE i] \in Object
      BY PartCountAssumption DEF TypeOK, Object, Parts
    <3>3. objects' \in [Slots -> Object]
      BY <3>1, <3>2 DEF AcquirePixels, TypeOK
    <3> QED BY <3>1, <3>3 DEF AcquirePixels, TypeOK, Sending
  <2>4. CASE EncodeHeader
    BY <2>4, PartCountAssumption DEF EncodeHeader, TypeOK, Sending, Object
  <2>5. CASE CaptureFails
    BY <2>5, OwnerCalls DEF CaptureFails, TypeOK, Sending, Loop
  <2>6. CASE PublishCapture
    <3> DEFINE retained == RetainTx(Promote(owners, staging), staging)
    <3>1. retained \in [Slots -> SUBSET Owner]
      BY OwnerCalls DEF TypeOK
    <3>2. source' \in Source
      BY <2>6 DEF PublishCapture, SourceBind, Source, TypeOK
    <3> QED BY <2>6, <3>1, <3>2 DEF PublishCapture, TypeOK, Sending
  <2>7. CASE SendAccepted BY <2>7 DEF SendAccepted, TypeOK, Loop
  <2>8. CASE SendRefused
    BY <2>8, ReleaseType DEF SendRefused, OperationForgotten, TypeOK, Loop
  <2> QED BY <1>2, <2>1, <2>2, <2>3, <2>4, <2>5, <2>6, <2>7, <2>8 DEF SendStep
<1>3. CASE CaptureCommand \/ LocalSend
  BY <1>3 DEF CaptureCommand, LocalSend, ClaimSendOperation, TypeOK, Sending
<1>4. CASE ReceiveStep
  <2>1. CASE \E i \in Images : RxMetadata(i)
    <3>1. PICK i \in Images : RxMetadata(i) BY <2>1
    <3>2. CASE \A s \in Slots : ~ReceiverOpenable(receiver, owners, s)
      BY <3>1, <3>2, LatchType DEF RxMetadata, TypeOK, Direction, Event
    <3>3. CASE \E s \in Slots : /\ ReceiverOpenable(receiver, owners, s)
                                /\ owners' = ClaimStaging(owners, s)
                                /\ objects' = [objects EXCEPT ![s] = Blank]
                                /\ receiver' = ReceiverOpen(s)
                                /\ rx' = [phase |-> "receiving", handle |-> s, image |-> i,
                                          got |-> {}, fresh |-> TRUE]
                                /\ UNCHANGED terminal
      <4>1. PICK s \in Slots :
              /\ owners' = ClaimStaging(owners, s)
              /\ objects' = [objects EXCEPT ![s] = Blank]
              /\ receiver' = ReceiverOpen(s)
              /\ rx' = [phase |-> "receiving", handle |-> s, image |-> i,
                        got |-> {}, fresh |-> TRUE]
              /\ UNCHANGED terminal
        BY <3>3
      <4>2. receiver' \in Receiver
        BY <4>1, PartCountAssumption DEF ReceiverOpen, Receiver
      <4>3. objects' \in [Slots -> Object]
        BY <4>1 DEF TypeOK, Object, Blank
      <4>4. owners' \in [Slots -> SUBSET Owner]
        BY <4>1, OwnerCalls DEF TypeOK
      <4>5. rx' \in Reception
        BY <4>1 DEF Reception
      <4> QED BY <3>1, <4>1, <4>2, <4>3, <4>4, <4>5 DEF RxMetadata, TypeOK
    <3> QED BY <3>1, <3>2, <3>3 DEF RxMetadata
  <2>2. CASE \E p \in Parts : RxFileData(p)
    <3>1. PICK p \in Parts : RxFileData(p) BY <2>2
    <3>2. CASE ReceiverHandle(receiver, rx.handle)
      <4>1. receiver' \in Receiver
        BY <3>1, <3>2, PartCountAssumption
           DEF RxFileData, ReceiverWrite, Receiver, TypeOK, Parts
      <4>2. objects' \in [Slots -> Object]
        BY <3>1, <3>2 DEF RxFileData, ReceiverHandle, Receiver, Reception, TypeOK, Object
      <4>3. rx' \in Reception
        BY <3>1, <3>2 DEF RxFileData, Reception, TypeOK
      <4> QED BY <3>1, <3>2, <4>1, <4>2, <4>3 DEF RxFileData, TypeOK
    <3>3. CASE ~ReceiverHandle(receiver, rx.handle)
      BY <3>1, <3>3, FailType DEF RxFileData, TypeOK
    <3> QED BY <3>2, <3>3
  <2>3. CASE RxCommit
    <3>1. CASE FailReception
      BY <2>3, <3>1, FailType DEF RxCommit, TypeOK
    <3>2. CASE /\ receiver' = ReceiverValidate(ReceiverClose(receiver, rx.handle))
               /\ rx' = [rx EXCEPT !.phase = "finished"]
               /\ UNCHANGED <<owners, terminal>>
      <4>1. ReceiverClose(receiver, rx.handle) \in Receiver
        BY ReceiverCalls DEF TypeOK
      <4>2. receiver' \in Receiver
        BY <3>2, <4>1, ReceiverCalls DEF TypeOK
      <4>3. rx' \in Reception
        BY <3>2 DEF Reception, TypeOK
      <4> QED BY <2>3, <3>2, <4>2, <4>3 DEF RxCommit, TypeOK
    <3> QED BY <2>3, <3>1, <3>2 DEF RxCommit
  <2>4. CASE RxFinishedAck
    BY <2>4, LatchType
       DEF RxFinishedAck, TypeOK, NoTransaction, Reception, Direction, Event
  <2>5. CASE RxCorrupt
    BY <2>5, FailType DEF RxCorrupt, TypeOK
  <2>6. CASE RxTimeout
    <3>1. CASE FailReception
      BY <2>6, <3>1, FailType DEF RxTimeout, TypeOK
    <3>2. CASE /\ rx' = NoTransaction
               /\ terminal' = Latch(terminal, "RECEIVER", "FAILED")
               /\ UNCHANGED <<owners, receiver>>
      BY <2>6, <3>2, LatchType
         DEF RxTimeout, TypeOK, NoTransaction, Reception, Direction, Event
    <3> QED BY <2>6, <3>1, <3>2 DEF RxTimeout
  <2> QED BY <1>4, <2>1, <2>2, <2>3, <2>4, <2>5, <2>6 DEF ReceiveStep
<1>5. CASE TransmitStep
  <2>1. CASE TxOpen BY <2>1 DEF TxOpen, TypeOK, Source
  <2>2. CASE \E p \in Parts : TxRead(p)
    BY <2>2 DEF TxRead, SourceReadable, TypeOK, Source, Object
  <2>3. CASE TxClose BY <2>3 DEF TxClose, SourceClose, TypeOK, Source
  <2>4. CASE \E e \in {"COMPLETE", "FAILED"} : TxEnds(e)
    <3>1. PICK e \in {"COMPLETE", "FAILED"} : TxEnds(e) BY <2>4
    <3>2. terminal' \in [Direction -> Event]
      BY <3>1, LatchType DEF TxEnds, TypeOK, Direction, Event
    <3>3. source' \in Source
      BY <3>1 DEF TxEnds, SourceClose, TypeOK, Source
    <3> QED BY <3>1, <3>2, <3>3 DEF TxEnds, TypeOK
  <2> QED BY <1>5, <2>1, <2>2, <2>3, <2>4 DEF TransmitStep
<1>6. CASE LinkStep
  <2>1. CASE RestartDetected
    BY <2>1, AbortType DEF RestartDetected, TypeOK, Recovery
  <2>2. CASE RecoveryEnds BY <2>2 DEF RecoveryEnds, TypeOK, Recovery
  <2>3. CASE PeerStatus BY <2>3 DEF PeerStatus, TypeOK
  <2>4. CASE RecoveryCandidate BY <2>4 DEF RecoveryCandidate, TypeOK, Recovery
  <2>5. CASE LinkAction BY <2>5 DEF LinkAction, TypeOK, Recovery
  <2>6. CASE LinkFails BY <2>6, AbortType DEF LinkFails, TypeOK, Recovery
  <2>7. CASE LinkReturns BY <2>7 DEF LinkReturns, TypeOK, Recovery
  <2>8. CASE RecoveryStarts BY <2>8 DEF RecoveryStarts, TypeOK, Recovery
  <2>9. CASE PeerTimeout BY <2>9 DEF PeerTimeout, TypeOK
  <2> QED BY <1>6, <2>1, <2>2, <2>3, <2>4, <2>5, <2>6, <2>7, <2>8, <2>9 DEF LinkStep
<1>7. CASE ShowImage
  <2>1. \A s \in Slots : AcquireDisplay(owners, s) \in [Slots -> SUBSET Owner]
    BY OwnerCalls DEF TypeOK
  <2>2. owners' \in [Slots -> SUBSET Owner] /\ displayed' \in Slots \cup {NoSlot}
    BY <1>7, <2>1 DEF ShowImage
  <2> QED BY <1>7, <2>2 DEF ShowImage, TypeOK
<1>8. CASE LeaveImage
  BY <1>8, OwnerCalls DEF LeaveImage, TypeOK
<1>9. CASE UNCHANGED vars
  BY <1>9 DEF vars, TypeOK
<1> QED BY <1>1, <1>2, <1>3, <1>4, <1>5, <1>6, <1>7, <1>8, <1>9 DEF Next

(* Every variable of the image path keeps its type.                        *)
THEOREM TypeCorrect == Spec => []TypeOK
BY TypeInit, TypeStep, PTL DEF Spec

-----------------------------------------------------------------------------
(* OwnersAccounted, over the owners and the four pointers it relates.      *)
Held(o, stg, rcv, tx, dsp) ==
  /\ StoreValid(o)
  /\ \A s \in Slots :
       /\ "STAGING" \in o[s] <=> s \in {stg, rcv}
       /\ "DISPLAY" \in o[s] <=> s = dsp
       /\ "TX" \in o[s] <=> s = tx
  /\ stg # NoSlot => rcv # stg

(* What each call of the store does to the accounting: it moves one flag,  *)
(* and the pointer that stands for it.                                     *)
LEMMA HeldClaim ==
  ASSUME NEW o \in [Slots -> SUBSET Owner], NEW s \in Slots,
         NEW stg \in Slots \cup {NoSlot}, NEW rcv \in Slots \cup {NoSlot},
         NEW tx, NEW dsp, Held(o, stg, rcv, tx, dsp), FirstFree(o, s)
  PROVE  /\ stg = NoSlot /\ rcv = NoSlot
         /\ Held(ClaimStaging(o, s), s, NoSlot, tx, dsp)
         /\ Held(ClaimStaging(o, s), NoSlot, s, tx, dsp)
<1> DEFINE n == ClaimStaging(o, s)
<1>0. NoSlot \notin Slots
  BY DEF NoSlot, Slots
<1>1. stg = NoSlot /\ rcv = NoSlot
  BY DEF Held, FirstFree
<1>2. n[s] = {"STAGING"} /\ \A t \in Slots \ {s} : n[t] = o[t]
  BY DEF ClaimStaging
<1>3. StoreValid(n)
  BY <1>2 DEF FirstFree, StoreValid
<1>4. \A t \in Slots : /\ "STAGING" \in n[t] <=> t = s
                       /\ "DISPLAY" \in n[t] <=> t = dsp
                       /\ "TX" \in n[t] <=> t = tx
  BY <1>2 DEF Held, FirstFree
<1> QED BY <1>0, <1>1, <1>3, <1>4 DEF Held

(* Aborting a staging slot releases it and touches no other.               *)
LEMMA HeldAbort ==
  ASSUME NEW o \in [Slots -> SUBSET Owner],
         NEW stg \in Slots \cup {NoSlot}, NEW rcv \in Slots \cup {NoSlot},
         NEW tx, NEW dsp, Held(o, stg, rcv, tx, dsp)
  PROVE  /\ Held(AbortStaging(o, stg), NoSlot, rcv, tx, dsp)
         /\ Held(AbortStaging(o, rcv), stg, NoSlot, tx, dsp)
<1>0. NoSlot \notin Slots
  BY DEF NoSlot, Slots
<1>1. ASSUME NEW s \in Slots, s \in {stg, rcv}
      PROVE  /\ StoreValid(AbortStaging(o, s))
             /\ \A t \in Slots :
                  /\ "STAGING" \notin AbortStaging(o, s)[t]
                  /\ "DISPLAY" \in AbortStaging(o, s)[t] <=> t = dsp
                  /\ "TX" \in AbortStaging(o, s)[t] <=> t = tx
  <2> DEFINE n == AbortStaging(o, s)
  <2>1. o[s] = {"STAGING"} /\ \A t \in Slots \ {s} : "STAGING" \notin o[t]
    BY <1>1 DEF Held, StoreValid
  <2>2. n[s] = {} /\ \A t \in Slots \ {s} : n[t] = o[t]
    BY <2>1 DEF AbortStaging
  <2>3. StoreValid(n)
    BY <2>2 DEF Held, StoreValid
  <2> QED BY <2>1, <2>2, <2>3 DEF Held
<1>2. stg = NoSlot \/ rcv = NoSlot
  BY <1>0 DEF Held, StoreValid
<1>3. AbortStaging(o, NoSlot) = o
  BY <1>0 DEF AbortStaging
<1> QED BY <1>0, <1>1, <1>2, <1>3 DEF Held

(* Promoting a staging slot keeps every other holder's flags.              *)
LEMMA HeldPromote ==
  ASSUME NEW o \in [Slots -> SUBSET Owner], NEW s \in Slots,
         NEW stg \in Slots \cup {NoSlot}, NEW rcv \in Slots \cup {NoSlot},
         NEW tx, NEW dsp, Held(o, stg, rcv, tx, dsp), s \in {stg, rcv}
  PROVE  /\ o[s] = {"STAGING"}
         /\ Promote(o, s)[s] = {"LATEST"}
         /\ Held(Promote(o, s), NoSlot, NoSlot, tx, dsp)
<1> DEFINE n == Promote(o, s)
<1>0. NoSlot \notin Slots
  BY DEF NoSlot, Slots
<1>1. o[s] = {"STAGING"} /\ \A t \in Slots \ {s} : "STAGING" \notin o[t]
  BY DEF Held, StoreValid
<1>2. n[s] = {"LATEST"} /\ \A t \in Slots \ {s} : n[t] = o[t] \ {"LATEST"}
  BY DEF Promote
<1>3. StoreValid(n)
  BY <1>1, <1>2 DEF StoreValid
<1>4. \A t \in Slots : /\ "STAGING" \notin n[t]
                       /\ "DISPLAY" \in n[t] <=> t = dsp
                       /\ "TX" \in n[t] <=> t = tx
  BY <1>1, <1>2 DEF Held
<1> QED BY <1>0, <1>1, <1>2, <1>3, <1>4 DEF Held

(* Retaining and releasing the transmit slot, showing and leaving.         *)
LEMMA HeldShared ==
  ASSUME NEW o \in [Slots -> SUBSET Owner],
         NEW stg \in Slots \cup {NoSlot}, NEW rcv \in Slots \cup {NoSlot},
         NEW tx \in Slots \cup {NoSlot}, NEW dsp \in Slots \cup {NoSlot},
         Held(o, stg, rcv, tx, dsp)
  PROVE  /\ Held(ReleaseTx(o, tx), stg, rcv, NoSlot, dsp)
         /\ Held(ReleaseDisplay(o, dsp), stg, rcv, tx, NoSlot)
         /\ \A s \in Slots :
              /\ tx = NoSlot /\ TxRetainable(o, s)
                   => Held(RetainTx(o, s), stg, rcv, s, dsp)
              /\ dsp = NoSlot /\ DisplayAvailable(o, s)
                   => Held(AcquireDisplay(o, s), stg, rcv, tx, s)
<1>0. NoSlot \notin Slots
  BY DEF NoSlot, Slots
<1>1. Held(ReleaseTx(o, tx), stg, rcv, NoSlot, dsp)
  <2> DEFINE n == ReleaseTx(o, tx)
  <2>1. \A t \in Slots : n[t] = o[t] \ {"TX"}
    BY DEF ReleaseTx, Held
  <2>2. StoreValid(n)
    BY <2>1 DEF Held, StoreValid
  <2> QED BY <1>0, <2>1, <2>2 DEF Held
<1>2. Held(ReleaseDisplay(o, dsp), stg, rcv, tx, NoSlot)
  <2> DEFINE n == ReleaseDisplay(o, dsp)
  <2>1. \A t \in Slots : n[t] = o[t] \ {"DISPLAY"}
    BY DEF ReleaseDisplay, Held
  <2>2. StoreValid(n)
    BY <2>1 DEF Held, StoreValid
  <2> QED BY <1>0, <2>1, <2>2 DEF Held
<1>3. ASSUME NEW s \in Slots, tx = NoSlot, TxRetainable(o, s)
      PROVE  Held(RetainTx(o, s), stg, rcv, s, dsp)
  <2> DEFINE n == RetainTx(o, s)
  <2>1. n[s] = o[s] \cup {"TX"} /\ \A t \in Slots \ {s} : n[t] = o[t]
    BY DEF RetainTx
  <2>2. StoreValid(n)
    BY <1>3, <2>1 DEF Held, StoreValid, TxRetainable
  <2> QED BY <1>0, <1>3, <2>1, <2>2 DEF Held
<1>4. ASSUME NEW s \in Slots, dsp = NoSlot, DisplayAvailable(o, s)
      PROVE  Held(AcquireDisplay(o, s), stg, rcv, tx, s)
  <2> DEFINE n == AcquireDisplay(o, s)
  <2>1. n[s] = o[s] \cup {"DISPLAY"} /\ \A t \in Slots \ {s} : n[t] = o[t]
    BY DEF AcquireDisplay
  <2>2. StoreValid(n)
    BY <1>4, <2>1 DEF Held, StoreValid, DisplayAvailable
  <2> QED BY <1>0, <1>4, <2>1, <2>2 DEF Held
<1> QED BY <1>1, <1>2, <1>3, <1>4

(* The end of a reception gives its staging slot back or promotes it; it   *)
(* cannot be refused, so the slot does not stay staging for ever.          *)
LEMMA HeldTerminal ==
  ASSUME NEW o \in [Slots -> SUBSET Owner], NEW r \in Receiver,
         NEW stg \in Slots \cup {NoSlot}, NEW tx, NEW dsp,
         NEW objs, NEW success,
         Held(o, stg, r.staging, tx, dsp),
         r.validated => HeaderValid(objs[r.staging])
  PROVE  Held(TerminalOwners(r, o, objs, success), stg,
              TerminalReceiver(r).staging, tx, dsp)
<1>1. r.staging \in Slots \cup {NoSlot}
  BY DEF Receiver
<1>2. CASE r.staging = NoSlot
  BY <1>2 DEF TerminalOwners, TerminalReceiver
<1>3. CASE r.staging # NoSlot
  <2>1. TerminalReceiver(r).staging = NoSlot
    BY <1>3 DEF TerminalReceiver, NoReception
  <2>2. stg = NoSlot
    BY <1>1, <1>3 DEF Held, StoreValid
  <2>3. /\ o[r.staging] = {"STAGING"}
        /\ Held(Promote(o, r.staging), NoSlot, NoSlot, tx, dsp)
    BY <1>1, <1>3, HeldPromote
  <2>4. Held(AbortStaging(o, r.staging), stg, NoSlot, tx, dsp)
    BY <1>1, HeldAbort
  <2> QED BY <1>3, <2>1, <2>2, <2>3, <2>4 DEF TerminalOwners, Promotable
<1> QED BY <1>2, <1>3

-----------------------------------------------------------------------------
(* OwnersAccounted in terms of the holders of the slots.                   *)
LEMMA HeldIsAccounted ==
  OwnersAccounted <=> /\ Held(owners, staging, receiver.staging, txSlot, displayed)
                      /\ source.slot = txSlot
BY DEF OwnersAccounted, Held

(* The accounting invariant holds initially.                               *)
LEMMA AccountingInit == Init => AccountingInvariant
<1> SUFFICES ASSUME Init PROVE AccountingInvariant
  OBVIOUS
<1>1. NoSlot \notin Slots
  BY DEF NoSlot, Slots
<1>2. OwnersAccounted
  BY <1>1 DEF Init, OwnersAccounted, StoreValid, UnboundSource, NoReception
<1>3. SlotsFollowWorker
  BY DEF Init, SlotsFollowWorker, Sending, UnboundSource, NoReception
<1> QED BY <1>2, <1>3, TypeInit DEF AccountingInvariant

(* Ending both transactions while the worker blocks or supervises the link *)
(* drops the slot of the reception and no other.                           *)
LEMMA AccountingAbort ==
  ASSUME AccountingInvariant, AbortTransactions, pc' = pc,
         UNCHANGED <<objects, staging, txSlot, operationActive, displayed, opImage>>
  PROVE  OwnersAccounted' /\ SlotsFollowWorker'
<1> USE DEF AccountingInvariant
<1>1. source'.slot = source.slot /\ source'.open = FALSE
  BY DEF AbortTransactions, SourceClose, TypeOK, Source
<1>2. CASE rx.phase = "receiving"
  <2> DEFINE closed == ReceiverClose(receiver, rx.handle)
  <2>1. DiscardReception
    BY <1>2 DEF AbortTransactions
  <2>2. closed \in Receiver /\ closed.staging = receiver.staging
    BY ReceiverCalls DEF TypeOK, ReceiverClose, Receiver
  <2>3. receiver'.staging = TerminalReceiver(receiver).staging
    BY <2>1, <2>2 DEF DiscardReception, TerminalReceiver
  <2>4. Held(owners', staging, receiver'.staging, txSlot, displayed)
    BY <2>1, <2>3, HeldTerminal, HeldIsAccounted
       DEF DiscardReception, TypeOK, SlotsFollowWorker
  <2>5. receiver'.validated => receiver' = closed /\ closed.staging = NoSlot
    BY <2>1 DEF DiscardReception, TerminalReceiver, NoReception
  <2>6. closed.validated = receiver.validated
    BY DEF TypeOK, ReceiverClose, Receiver
  <2> QED BY <1>1, <2>2, <2>4, <2>5, <2>6, HeldIsAccounted
          DEF SlotsFollowWorker, OwnersAccounted, Held
<1>3. CASE rx.phase # "receiving"
  <2>1. UNCHANGED <<owners, receiver>>
    BY <1>3 DEF AbortTransactions
  <2> QED BY <1>1, <2>1 DEF OwnersAccounted, SlotsFollowWorker
<1> QED BY <1>2, <1>3

(* A reception that fails keeps the accounts.                              *)
LEMMA AccountingFail ==
  ASSUME AccountingInvariant, FailReception,
         UNCHANGED <<objects, pc, source, staging, txSlot, operationActive,
                     displayed, opImage>>
  PROVE  OwnersAccounted' /\ SlotsFollowWorker'
<1> USE DEF AccountingInvariant
<1> DEFINE closed == ReceiverClose(receiver, rx.handle)
<1>1. DiscardReception
  BY DEF FailReception
<1>2. closed \in Receiver /\ closed.staging = receiver.staging
  BY ReceiverCalls DEF TypeOK, ReceiverClose, Receiver
<1>3. receiver'.staging = TerminalReceiver(receiver).staging
  BY <1>1, <1>2 DEF DiscardReception, TerminalReceiver
<1>4. Held(owners', staging, receiver'.staging, txSlot, displayed)
  BY <1>1, <1>3, HeldTerminal, HeldIsAccounted
     DEF DiscardReception, TypeOK, SlotsFollowWorker
<1>5. receiver'.validated => receiver' = closed /\ closed.staging = NoSlot
  BY <1>1 DEF DiscardReception, TerminalReceiver, NoReception
<1>6. closed.validated = receiver.validated
  BY DEF TypeOK, ReceiverClose, Receiver
<1> QED BY <1>2, <1>4, <1>5, <1>6, HeldIsAccounted
        DEF SlotsFollowWorker, OwnersAccounted, Held

(* So does giving back the transmission's slot.                            *)
LEMMA AccountingRelease ==
  ASSUME AccountingInvariant, ReleaseTransmission,
         UNCHANGED <<receiver, staging, displayed>>
  PROVE  /\ OwnersAccounted' /\ txSlot' = NoSlot
         /\ source'.open => source'.slot # NoSlot
<1> USE DEF AccountingInvariant
<1>1. CASE txSlot = NoSlot
  BY <1>1 DEF ReleaseTransmission, OwnersAccounted, SlotsFollowWorker
<1>2. CASE txSlot # NoSlot
  <2>1. /\ source' = UnboundSource
        /\ owners' = ReleaseTx(owners, txSlot)
        /\ txSlot' = NoSlot
    BY <1>2 DEF ReleaseTransmission
  <2>2. Held(owners', staging, receiver.staging, NoSlot, displayed)
    BY <2>1, HeldShared, HeldIsAccounted DEF TypeOK, Receiver
  <2> QED BY <2>1, <2>2 DEF UnboundSource, OwnersAccounted, Held
<1> QED BY <1>1, <1>2

(* Every step keeps the accounts.                                          *)
LEMMA AccountingStep ==
  AccountingInvariant /\ [Next]_vars => AccountingInvariant'
<1> SUFFICES ASSUME AccountingInvariant, [Next]_vars
             PROVE  OwnersAccounted' /\ SlotsFollowWorker'
  BY TypeStep DEF AccountingInvariant
<1> USE DEF AccountingInvariant, store, link, worker, events, ghosts
<1>0. NoSlot \notin Slots
  BY DEF NoSlot, Slots
<1>a. /\ Held(owners, staging, receiver.staging, txSlot, displayed)
      /\ owners \in [Slots -> SUBSET Owner] /\ receiver \in Receiver
      /\ staging \in Slots \cup {NoSlot}
      /\ receiver.staging \in Slots \cup {NoSlot}
      /\ txSlot \in Slots \cup {NoSlot} /\ displayed \in Slots \cup {NoSlot}
  BY HeldIsAccounted DEF TypeOK, Receiver
<1>1. CASE LoopStep
  <2>1. CASE IngressDone \/ TakeEvents \/ ActionsDone \/ TickDone
    BY <2>1 DEF IngressDone, TakeEvents, ActionsDone, TickDone,
                OwnersAccounted, SlotsFollowWorker, Sending
  <2>2. CASE TxEvent
    <3>1. CASE snapshot["SENDER"] = "None"
      BY <2>2, <3>1 DEF TxEvent, OwnersAccounted, SlotsFollowWorker, Sending
    <3>2. CASE snapshot["SENDER"] # "None"
      <4>1. ReleaseTransmission /\ UNCHANGED <<receiver, staging, displayed>>
        BY <2>2, <3>2 DEF TxEvent
      <4> HIDE DEF AccountingInvariant
      <4>2. OwnersAccounted' /\ txSlot' = NoSlot /\ (source'.open => source'.slot # NoSlot)
        BY <4>1, AccountingRelease
      <4> QED BY <2>2, <3>2, <4>2
              DEF TxEvent, AccountingInvariant, SlotsFollowWorker, Sending
    <3> QED BY <3>1, <3>2
  <2>3. CASE TxEventDone
    BY <2>3 DEF TxEventDone, OperationForgotten, OwnersAccounted, SlotsFollowWorker, Sending
  <2>4. CASE RxEvent
    <3>1. CASE snapshot["RECEIVER"] = "None"
      BY <2>4, <3>1 DEF RxEvent, OwnersAccounted, SlotsFollowWorker, Sending
    <3>2. CASE snapshot["RECEIVER"] # "None"
      <4>1. Held(owners', staging, receiver'.staging, txSlot, displayed)
        BY <1>a, <2>4, <3>2, HeldTerminal DEF RxEvent, SlotsFollowWorker
      <4>2. receiver'.validated => receiver' = receiver /\ receiver.staging = NoSlot
        BY <2>4, <3>2 DEF RxEvent, TerminalReceiver, NoReception
      <4> QED BY <2>4, <4>1, <4>2, HeldIsAccounted
              DEF RxEvent, OwnersAccounted, Held, SlotsFollowWorker, Sending
    <3> QED BY <3>1, <3>2
  <2> QED BY <1>1, <2>1, <2>2, <2>3, <2>4 DEF LoopStep
<1>2. CASE SendStep
  <2>1. CASE ReplyAccepted
    BY <2>1 DEF ReplyAccepted, OwnersAccounted, SlotsFollowWorker, Sending
  <2>2. CASE ClaimCaptureSlot
    <3>1. CASE StagingRefused(owners) /\ operationActive' = FALSE /\ pc' = resume
                 /\ UNCHANGED <<owners, staging>>
      BY <2>2, <3>1 DEF ClaimCaptureSlot, OwnersAccounted, SlotsFollowWorker, TypeOK, Sending
    <3>2. ASSUME NEW s \in Slots, FirstFree(owners, s),
                 owners' = ClaimStaging(owners, s), staging' = s, pc' = "acquire",
                 UNCHANGED operationActive
          PROVE  OwnersAccounted' /\ SlotsFollowWorker'
      <4>1. receiver.staging = NoSlot
            /\ Held(owners', staging', receiver.staging, txSlot, displayed)
        BY <1>a, <3>2, HeldClaim
      <4> QED BY <1>0, <2>2, <3>2, <4>1
              DEF ClaimCaptureSlot, OwnersAccounted, Held, SlotsFollowWorker, Sending
    <3> QED BY <2>2, <3>1, <3>2 DEF ClaimCaptureSlot
  <2>3. CASE \E i \in Images : AcquirePixels(i)
    <3>1. PICK i \in Images : AcquirePixels(i) BY <2>3
    <3>2. receiver.staging # NoSlot => receiver.staging # staging
      BY <3>1 DEF AcquirePixels, OwnersAccounted, SlotsFollowWorker
    <3>3. receiver.staging # NoSlot =>
            HeaderValid(objects'[receiver.staging]) = HeaderValid(objects[receiver.staging])
      BY <1>a, <3>1, <3>2 DEF AcquirePixels, TypeOK
    <3> QED BY <3>1, <3>3 DEF AcquirePixels, OwnersAccounted, SlotsFollowWorker, Sending
  <2>4. CASE EncodeHeader
    <3>1. staging \in Slots /\ receiver.staging # staging /\ opImage \in Images
      BY <1>a, <2>4 DEF EncodeHeader, OwnersAccounted, SlotsFollowWorker
    <3>2. HeaderValid(objects'[staging])
      BY <2>4, <3>1, ZeroAssumption, PartCountAssumption
         DEF EncodeHeader, HeaderValid, TypeOK, Object, Parts
    <3>3. receiver.staging # NoSlot =>
            HeaderValid(objects'[receiver.staging]) = HeaderValid(objects[receiver.staging])
      BY <1>a, <2>4, <3>1 DEF EncodeHeader, TypeOK
    <3> QED BY <2>4, <3>2, <3>3 DEF EncodeHeader, OwnersAccounted, SlotsFollowWorker, Sending
  <2>5. CASE CaptureFails
    <3>1. Held(owners', NoSlot, receiver.staging, txSlot, displayed)
      BY <1>a, <2>5, HeldAbort DEF CaptureFails
    <3> QED BY <2>5, <3>1
            DEF CaptureFails, OwnersAccounted, Held, SlotsFollowWorker, TypeOK, Sending
  <2>6. CASE PublishCapture
    <3> DEFINE promoted == Promote(owners, staging)
    <3>1. staging \in Slots /\ txSlot = NoSlot /\ receiver.staging = NoSlot
          /\ operationActive
      BY <1>0, <1>a, <2>6 DEF PublishCapture, SlotsFollowWorker, Sending, Held, StoreValid
    <3>2. Held(promoted, NoSlot, NoSlot, txSlot, displayed)
      BY <1>a, <3>1, HeldPromote
    <3>3. promoted \in [Slots -> SUBSET Owner]
      BY <1>a, OwnerCalls
    <3>4. Held(RetainTx(promoted, staging), NoSlot, NoSlot, staging, displayed)
      BY <1>a, <2>6, <3>1, <3>2, <3>3, HeldShared DEF PublishCapture
    <3> QED BY <2>6, <3>1, <3>4
            DEF PublishCapture, SourceBind, OwnersAccounted, Held, SlotsFollowWorker, Sending
  <2>7. CASE SendAccepted
    BY <2>7 DEF SendAccepted, OwnersAccounted, SlotsFollowWorker, TypeOK, Sending
  <2>8. CASE SendRefused
    <3>1. ReleaseTransmission /\ UNCHANGED <<receiver, staging, displayed>>
      BY <2>8 DEF SendRefused
    <3> HIDE DEF AccountingInvariant
    <3>2. OwnersAccounted' /\ txSlot' = NoSlot /\ (source'.open => source'.slot # NoSlot)
      BY <3>1, AccountingRelease
    <3> QED BY <2>8, <3>2
            DEF SendRefused, OperationForgotten, AccountingInvariant, SlotsFollowWorker,
                TypeOK, Sending
  <2> QED BY <1>2, <2>1, <2>2, <2>3, <2>4, <2>5, <2>6, <2>7, <2>8 DEF SendStep
<1>3. CASE CaptureCommand \/ LocalSend
  BY <1>3 DEF CaptureCommand, LocalSend, ClaimSendOperation, OwnersAccounted,
              SlotsFollowWorker, Sending
<1>4. CASE ReceiveStep
  <2>1. CASE \E i \in Images : RxMetadata(i)
    <3>1. PICK i \in Images : RxMetadata(i) BY <2>1
    <3>2. CASE UNCHANGED <<store, receiver, rx>>
      BY <3>1, <3>2 DEF RxMetadata, OwnersAccounted, SlotsFollowWorker, Sending
    <3>3. ASSUME NEW s \in Slots, ReceiverOpenable(receiver, owners, s),
                 owners' = ClaimStaging(owners, s), receiver' = ReceiverOpen(s)
          PROVE  OwnersAccounted' /\ SlotsFollowWorker'
      <4>1. receiver'.staging = s /\ ~receiver'.validated
        BY <3>3 DEF ReceiverOpen
      <4>2. staging = NoSlot /\ Held(owners', NoSlot, s, txSlot, displayed)
        BY <1>a, <3>3, HeldClaim DEF ReceiverOpenable
      <4> QED BY <1>0, <3>1, <3>3, <4>1, <4>2
              DEF RxMetadata, OwnersAccounted, Held, SlotsFollowWorker, Sending
    <3> QED BY <3>1, <3>2, <3>3 DEF RxMetadata
  <2>2. CASE \E p \in Parts : RxFileData(p)
    <3>1. PICK p \in Parts : RxFileData(p) BY <2>2
    <3>2. CASE ReceiverHandle(receiver, rx.handle)
      <4>1. /\ receiver'.staging = receiver.staging
            /\ receiver'.validated = receiver.validated /\ ~receiver.validated
        BY <3>1, <3>2 DEF RxFileData, ReceiverWrite, ReceiverHandle, TypeOK, Receiver,
                          SlotsFollowWorker
      <4> QED BY <3>1, <3>2, <4>1
              DEF RxFileData, OwnersAccounted, SlotsFollowWorker, Sending
    <3>3. CASE ~ReceiverHandle(receiver, rx.handle)
      <4>1. FailReception /\ UNCHANGED <<objects, pc, source, staging, txSlot,
                                         operationActive, displayed, opImage>>
        BY <3>1, <3>3 DEF RxFileData
      <4> HIDE DEF AccountingInvariant
      <4> QED BY <4>1, AccountingFail
    <3> QED BY <3>2, <3>3
  <2>3. CASE RxCommit
    <3>1. CASE FailReception
      <4>1. UNCHANGED <<objects, pc, source, staging, txSlot, operationActive,
                        displayed, opImage>>
        BY <2>3 DEF RxCommit
      <4> HIDE DEF AccountingInvariant
      <4> QED BY <3>1, <4>1, AccountingFail
    <3>2. CASE ~FailReception
      <4> DEFINE closed == ReceiverClose(receiver, rx.handle)
      <4>1. /\ ReceiverComplete(closed, objects)
            /\ receiver' = ReceiverValidate(closed) /\ UNCHANGED owners
        BY <2>3, <3>2 DEF RxCommit
      <4>2. closed \in Receiver /\ closed.staging = receiver.staging
        BY ReceiverCalls DEF TypeOK, ReceiverClose, Receiver
      <4>3. receiver'.staging = closed.staging /\ receiver'.open = closed.open
        BY <4>1, <4>2 DEF ReceiverValidate, Receiver
      <4> QED BY <2>3, <4>1, <4>2, <4>3
              DEF RxCommit, ReceiverComplete, OwnersAccounted, SlotsFollowWorker, Sending
    <3> QED BY <3>1, <3>2
  <2>4. CASE RxFinishedAck
    BY <2>4 DEF RxFinishedAck, OwnersAccounted, SlotsFollowWorker
  <2>5. CASE RxCorrupt
    <3>1. FailReception /\ UNCHANGED <<objects, pc, source, staging, txSlot,
                                       operationActive, displayed, opImage>>
      BY <2>5 DEF RxCorrupt
    <3> HIDE DEF AccountingInvariant
    <3> QED BY <3>1, AccountingFail
  <2>6. CASE RxTimeout
    <3>1. UNCHANGED <<objects, pc, source, staging, txSlot, operationActive,
                      displayed, opImage>>
      BY <2>6 DEF RxTimeout
    <3>2. CASE FailReception
      <4> HIDE DEF AccountingInvariant
      <4> QED BY <3>1, <3>2, AccountingFail
    <3>3. CASE UNCHANGED <<owners, receiver>>
      BY <3>1, <3>3 DEF OwnersAccounted, SlotsFollowWorker
    <3> QED BY <2>6, <3>2, <3>3 DEF RxTimeout
  <2> QED BY <1>4, <2>1, <2>2, <2>3, <2>4, <2>5, <2>6 DEF ReceiveStep
<1>5. CASE TransmitStep
  <2>1. CASE TxOpen
    BY <2>1 DEF TxOpen, SourceOpenable, TypeOK, Source, OwnersAccounted, SlotsFollowWorker
  <2>2. CASE \E p \in Parts : TxRead(p)
    BY <2>2 DEF TxRead, OwnersAccounted, SlotsFollowWorker
  <2>3. CASE TxClose
    BY <2>3 DEF TxClose, SourceClose, TypeOK, Source, OwnersAccounted, SlotsFollowWorker
  <2>4. CASE \E e \in {"COMPLETE", "FAILED"} : TxEnds(e)
    BY <2>4 DEF TxEnds, SourceClose, TypeOK, Source, OwnersAccounted, SlotsFollowWorker
  <2> QED BY <1>5, <2>1, <2>2, <2>3, <2>4 DEF TransmitStep
<1>6. CASE LinkStep
  <2>1. CASE RestartDetected \/ LinkFails
    <3>1. AbortTransactions /\ pc' = pc
          /\ UNCHANGED <<objects, staging, txSlot, operationActive, displayed, opImage>>
      BY <2>1 DEF RestartDetected, LinkFails
    <3> HIDE DEF AccountingInvariant
    <3> QED BY <3>1, AccountingAbort
  <2>2. CASE RecoveryEnds \/ PeerStatus \/ RecoveryCandidate \/ LinkAction
    BY <2>2 DEF RecoveryEnds, PeerStatus, RecoveryCandidate, LinkAction,
                OwnersAccounted, SlotsFollowWorker
  <2>3. CASE LinkReturns \/ RecoveryStarts \/ PeerTimeout
    BY <2>3 DEF LinkReturns, RecoveryStarts, PeerTimeout, OwnersAccounted, SlotsFollowWorker
  <2> QED BY <1>6, <2>1, <2>2, <2>3 DEF LinkStep
<1>7. CASE ShowImage
  <2>1. PICK s \in Slots : /\ DisplayAvailable(owners, s)
                           /\ owners' = AcquireDisplay(owners, s)
                           /\ displayed' = s
    BY <1>7 DEF ShowImage
  <2>2. Held(owners', staging, receiver.staging, txSlot, s)
    BY <1>a, <1>7, <2>1, HeldShared DEF ShowImage
  <2> QED BY <1>7, <2>1, <2>2 DEF ShowImage, OwnersAccounted, Held, SlotsFollowWorker
<1>8. CASE LeaveImage
  <2>1. Held(owners', staging, receiver.staging, txSlot, NoSlot)
    BY <1>a, <1>8, HeldShared DEF LeaveImage
  <2> QED BY <1>8, <2>1 DEF LeaveImage, OwnersAccounted, Held, SlotsFollowWorker
<1>9. CASE UNCHANGED vars
  BY <1>9 DEF vars, OwnersAccounted, SlotsFollowWorker
<1> QED BY <1>1, <1>2, <1>3, <1>4, <1>5, <1>6, <1>7, <1>8, <1>9 DEF Next

(* The accounting invariant holds in every reachable state.                *)
LEMMA AccountingHolds == Spec => []AccountingInvariant
BY AccountingInit, AccountingStep, PTL DEF Spec

(* Every owner flag belongs to exactly the pointer that will give it back, *)
(* whatever the interleaving of worker, library, peer and UI thread.       *)
THEOREM SlotsAccounted == Spec => []OwnersAccounted
<1>1. AccountingInvariant => OwnersAccounted
  BY DEF AccountingInvariant
<1> QED BY <1>1, AccountingHolds, PTL

(* Publishing a capture can be refused by neither the promotion nor the    *)
(* binding of the source: the slot never stays staging.                    *)
THEOREM CapturePublishes == Spec => []PublishReady
<1>1. AccountingInvariant => PublishReady
  <2> SUFFICES ASSUME AccountingInvariant, pc = "publish"
               PROVE  Promotable(owners, objects, staging) /\ source = UnboundSource
    BY DEF PublishReady
  <2>1. staging \in Slots /\ HeaderValid(objects[staging]) /\ txSlot = NoSlot
    BY DEF AccountingInvariant, TypeOK, SlotsFollowWorker, Sending
  <2>2. owners[staging] = {"STAGING"}
    BY <2>1 DEF AccountingInvariant, OwnersAccounted, StoreValid
  <2>3. source = UnboundSource
    BY <2>1 DEF AccountingInvariant, OwnersAccounted, SlotsFollowWorker, TypeOK, Source,
                UnboundSource
  <2> QED BY <2>1, <2>2, <2>3 DEF Promotable
<1> QED BY <1>1, AccountingHolds, PTL
=============================================================================
