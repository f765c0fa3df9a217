---------------------------- MODULE DisplayProofs ----------------------------
(***************************************************************************)
(* Type correctness of Display, that its flags are true and that the       *)
(* worker's last word about Wi-Fi is the station's, for queues of any      *)
(* length.  The flags are true when the queue is empty because at any  *)
(* other time the last event in the queue that sets a flag sets it to what *)
(* it then has to be.                                                      *)
(***************************************************************************)
EXTENDS Display, TLAPS

(* The events that set each flag, and those of them that raise it.         *)
TxStart  == {e \in Events : e.type = "CFDP_TX"}
TxEnd    == {e \in Events : e.type \in Results /\ e.detail # "RX"}
TxEvents == TxStart \cup TxEnd
RxStart  == {e \in Events : e.type = "CFDP_RX"}
RxEnd    == {e \in Events : e.type \in Results /\ e.detail # "TX"}
RxEvents == RxStart \cup RxEnd

Transmitting == operation \in {"starting", "sending"}
Receiving    == receiving \/ rx_terminal

(* The last event of E in q, or flag if there is none, says S only if fact *)
(* holds.                                                                  *)
Untouched(q, E) == \A i \in DOMAIN q : q[i] \notin E
Latest(q, E, i) == q[i] \in E /\ \A j \in DOMAIN q : j > i => q[j] \notin E
Promises(q, E, S, flag, fact) ==
  /\ Untouched(q, E) /\ flag => fact
  /\ \A i \in DOMAIN q : Latest(q, E, i) /\ q[i] \in S => fact

TxShown  == Promises(ui_queue, TxEvents, TxStart, cfdp_tx_active, Transmitting)
TxHidden == Promises(ui_queue, TxEvents, TxEnd, ~cfdp_tx_active, ~Transmitting)
RxShown  == Promises(ui_queue, RxEvents, RxStart, cfdp_rx_active, Receiving)
Promised == TxShown /\ TxHidden /\ RxShown

IInv == TypeOK /\ (smooth => Promised)

-----------------------------------------------------------------------------
(* An event appended to the queue.                                         *)
LEMMA PromisesAppend ==
  ASSUME NEW q \in Seq(Events), NEW E, NEW S, NEW flag \in BOOLEAN,
         NEW before \in BOOLEAN, NEW after \in BOOLEAN, NEW e \in Events,
         Promises(q, E, S, flag, before),
         e \notin E => (before => after),
         e \in E /\ e \in S => after
  PROVE  Promises(Append(q, e), E, S, flag, after)
<1> DEFINE r == Append(q, e)
<1>1. /\ DOMAIN r = 1 .. Len(q) + 1 /\ DOMAIN q = 1 .. Len(q) /\ Len(q) \in Nat
      /\ r[Len(q) + 1] = e /\ \A i \in DOMAIN q : i \in DOMAIN r /\ r[i] = q[i]
  OBVIOUS
<1>2. ASSUME Untouched(r, E), flag PROVE after
  <2>1. e \notin E /\ Untouched(q, E)
    BY <1>1, <1>2 DEF Untouched
  <2> QED
    BY <2>1, <1>2 DEF Promises
<1>3. ASSUME NEW i \in DOMAIN r, Latest(r, E, i), r[i] \in S PROVE after
  <2>1. CASE i = Len(q) + 1
    BY <2>1, <1>1, <1>3 DEF Latest
  <2>2. CASE i # Len(q) + 1
    <3>1. i \in DOMAIN q /\ Len(q) + 1 > i /\ Len(q) + 1 \in DOMAIN r
      BY <2>2, <1>1
    <3>2. e \notin E
      BY <3>1, <1>1, <1>3 DEF Latest
    <3>3. Latest(q, E, i) /\ q[i] \in S
      BY <3>1, <1>1, <1>3 DEF Latest
    <3> QED
      BY <3>1, <3>2, <3>3 DEF Promises
  <2> QED
    BY <2>1, <2>2
<1> QED
  BY <1>2, <1>3 DEF Promises

(* The event at the head of the queue handled.                             *)
LEMMA PromisesTail ==
  ASSUME NEW q \in Seq(Events), NEW E, NEW S, NEW before \in BOOLEAN,
         NEW after \in BOOLEAN, NEW fact \in BOOLEAN, q # <<>>,
         Promises(q, E, S, before, fact),
         Head(q) \notin E => (after => before),
         Head(q) \in E => (after => Head(q) \in S)
  PROVE  Promises(Tail(q), E, S, after, fact)
<1> DEFINE r == Tail(q)
<1>1. /\ Len(q) \in Nat \ {0} /\ DOMAIN q = 1 .. Len(q) /\ DOMAIN r = 1 .. Len(q) - 1
      /\ Head(q) = q[1] /\ \A i \in DOMAIN r : r[i] = q[i + 1]
  OBVIOUS
<1>2. \A j \in DOMAIN q : j # 1 => j - 1 \in DOMAIN r /\ r[j - 1] = q[j]
  BY <1>1
<1>3. ASSUME Untouched(r, E), after PROVE fact
  <2>1. \A j \in DOMAIN q : j # 1 => q[j] \notin E
    BY <1>2, <1>3 DEF Untouched
  <2>2. CASE Head(q) \in E
    <3>1. 1 \in DOMAIN q /\ Latest(q, E, 1) /\ q[1] \in S
      BY <1>1, <1>3, <2>1, <2>2 DEF Latest
    <3> QED
      BY <3>1 DEF Promises
  <2>3. CASE Head(q) \notin E
    <3>1. Untouched(q, E) /\ before
      BY <1>1, <1>3, <2>1, <2>3 DEF Untouched
    <3> QED
      BY <3>1 DEF Promises
  <2> QED
    BY <2>2, <2>3
<1>4. ASSUME NEW i \in DOMAIN r, Latest(r, E, i), r[i] \in S PROVE fact
  <2>1. i + 1 \in DOMAIN q /\ q[i + 1] = r[i]
    BY <1>1
  <2>2. ASSUME NEW j \in DOMAIN q, j > i + 1 PROVE q[j] \notin E
    <3>1. j # 1 /\ j - 1 > i
      BY <1>1, <2>2
    <3> QED
      BY <3>1, <1>2, <1>4 DEF Latest
  <2>3. Latest(q, E, i + 1)
    BY <2>1, <2>2, <1>4 DEF Latest
  <2> QED
    BY <2>1, <2>3, <1>4 DEF Promises
<1> QED
  BY <1>3, <1>4 DEF Promises

-----------------------------------------------------------------------------
(* What the events set.                                                    *)
LEMMA PlainEvents ==
  ASSUME NEW type \in {"NO_PEER", "PEER_READY", "VERIFYING", "NOTICE"}
  PROVE  Event(type, "none") \in Events \ (TxEvents \cup RxEvents)
BY DEF Event, Events, Plain, TxEvents, TxStart, TxEnd, RxEvents, RxStart, RxEnd, Results

LEMMA StartEvents ==
  /\ Event("CFDP_TX", "none") \in TxStart \ (TxEnd \cup RxEvents)
  /\ Event("CFDP_RX", "none") \in RxStart \ (TxEvents \cup RxEnd)
BY DEF Event, Events, Plain, TxEvents, TxStart, TxEnd, RxEvents, RxStart, RxEnd, Results

LEMMA EndEvents ==
  /\ Event("FAILED", "none") \in (TxEnd \cap RxEnd) \ (TxStart \cup RxStart)
  /\ \A result \in Results :
       /\ Event(result, "TX") \in TxEnd \ (TxStart \cup RxEvents)
       /\ Event(result, "RX") \in RxEnd \ (RxStart \cup TxEvents)
BY DEF Event, Events, Directions, TxEvents, TxStart, TxEnd, RxEvents, RxStart, RxEnd, Results

LEMMA AllEvents == TxStart \cup TxEnd \cup RxStart \cup RxEnd \subseteq Events
BY DEF TxStart, TxEnd, RxStart, RxEnd

(* What a step does to the queue: nothing, or it posts an event that fits  *)
(* what happens.                                                           *)
Quiet ==
  /\ UNCHANGED <<ui_queue, flags>> /\ (smooth' => smooth)
  /\ UNCHANGED Transmitting /\ UNCHANGED Receiving

Fits(e) ==
  /\ e \notin TxEvents => UNCHANGED Transmitting
  /\ e \in TxStart => Transmitting'
  /\ e \in TxEnd => ~Transmitting'
  /\ e \notin RxEvents => (Receiving => Receiving')
  /\ e \in RxStart => Receiving'

Told(e) ==
  /\ e \in Events
  /\ Queued(e) /\ UNCHANGED flags /\ (smooth' => smooth /\ Room)
  /\ smooth' => Fits(e)

(* An event that sets no flag.                                             *)
LEMMA PlainTold ==
  ASSUME NEW type \in {"NO_PEER", "PEER_READY", "VERIFYING", "NOTICE"},
         Queued(Event(type, "none")), UNCHANGED flags, smooth' => smooth /\ Room,
         UNCHANGED Transmitting, UNCHANGED Receiving
  PROVE  Told(Event(type, "none"))
<1>1. Event(type, "none") \in Events /\ Event(type, "none") \notin TxEvents \cup RxEvents
  BY PlainEvents
<1> QED
  BY <1>1 DEF Told, Fits, TxEvents, RxEvents

LEMMA NetworkReported ==
  ASSUME Network \/ \E up \in BOOLEAN : WifiEvent(up)
  PROVE  Quiet \/ \E e : Told(e)
<1>1. CASE \E up \in BOOLEAN : WifiEvent(up)
  BY <1>1 DEF WifiEvent, Quiet, screen, flags, reception, Transmitting, Receiving
<1>2. CASE Associated
  <2>1. Told(Event("NO_PEER", "none"))
    BY <1>2, PlainTold
       DEF Associated, Take, Tell, Post, screen, flags, reception, Transmitting, Receiving
  <2> QED
    BY <2>1
<1>3. CASE NotInitialized
  <2>1. Told(Event("NOTICE", "none"))
    BY <1>3, PlainTold
       DEF NotInitialized, Take, screen, flags, reception, Transmitting, Receiving
  <2> QED
    BY <2>1
<1>4. CASE AlreadyAssociated
  BY <1>4 DEF AlreadyAssociated, Take, Silent, Quiet, screen, flags, reception, Transmitting,
              Receiving
<1>5. CASE Disconnected
  <2>1. Told(Event("NOTICE", "none"))
    BY <1>5, PlainTold
       DEF Disconnected, Take, Tell, Post, screen, flags, reception, Transmitting, Receiving
  <2> QED
    BY <2>1
<1> QED
  BY <1>1, <1>2, <1>3, <1>4, <1>5 DEF Network

LEMMA PeerReported ==
  ASSUME \/ PeerValid \/ PeerInvalid \/ PeerSilent \/ LinkFails \/ PeerRestarted
         \/ Publish \/ LinkAction
  PROVE  Quiet \/ \E e : Told(e)
<1>1. CASE PeerValid
  <2>1. Told(Event("PEER_READY", "none"))
    BY <1>1, PlainTold
       DEF PeerValid, Peer, Tell, Post, screen, flags, reception, Transmitting, Receiving
  <2> QED
    BY <2>1
<1>2. CASE PeerInvalid
  <2>1. Told(Event("NOTICE", "none"))
    BY <1>2, PlainTold
       DEF PeerInvalid, Peer, Tell, Post, screen, flags, reception, Transmitting, Receiving
  <2> QED
    BY <2>1
<1>3. CASE PeerSilent \/ LinkFails
  <2>0. Peer(FALSE) /\ Tell("NO_PEER")
    BY <1>3 DEF PeerSilent, LinkFails
  <2>1. Told(Event("NO_PEER", "none"))
    BY <2>0, PlainTold
       DEF Peer, Tell, Post, screen, flags, reception, Transmitting, Receiving
  <2> QED
    BY <2>1
<1>4. CASE PeerRestarted \/ Publish \/ LinkAction
  BY <1>4 DEF PeerRestarted, Peer, Silent, Publish, LinkAction, Quiet, screen, flags,
              reception, Transmitting, Receiving
<1> QED
  BY <1>1, <1>2, <1>3, <1>4

LEMMA SendReported ==
  ASSUME TypeOK, ActionReported \/ Capture \/ SendSteps \/ TxEnds
  PROVE  Quiet \/ \E e : Told(e)
<1> USE DEF Operation, screen, flags, reception, Transmitting, Receiving
<1>1. CASE ActionReported
  <2>1. CASE Tell("NO_PEER")
    <3>1. Told(Event("NO_PEER", "none"))
      BY <1>1, <2>1, PlainTold DEF ActionReported, Tell, Post
    <3> QED
      BY <3>1
  <2>2. CASE Tell("NOTICE")
    <3>1. Told(Event("NOTICE", "none"))
      BY <1>1, <2>2, PlainTold DEF ActionReported, Tell, Post
    <3> QED
      BY <3>1
  <2> QED
    BY <1>1, <2>1, <2>2 DEF ActionReported
<1>2. CASE Capture
  <2>0. UNCHANGED Transmitting /\ UNCHANGED Receiving /\ UNCHANGED flags
    BY <1>2 DEF Capture
  <2>1. Told(Event("NOTICE", "none"))
    BY <1>2, <2>0, PlainTold DEF Capture, Tell, Post
  <2> QED
    BY <2>1
<1>3. CASE Captured
  <2>1. Told(Event("CFDP_TX", "none"))
    BY <1>3, StartEvents, AllEvents DEF Captured, Tell, Post, Told, Fits, TxEvents, RxEvents
  <2> QED
    BY <2>1
<1>4. CASE TransferStarts
  BY <1>4 DEF TransferStarts, Silent, Quiet
<1>5. CASE CaptureFails
  <2>1. Told(Event("FAILED", "none"))
    BY <1>5, EndEvents, AllEvents DEF CaptureFails, Post, Told, Fits, TxEvents, RxEvents
  <2> QED
    BY <2>1
<1>6. CASE TransferRefused
  <2>1. CASE Post("FAILED", "none")
    <3>1. Told(Event("FAILED", "none"))
      BY <1>6, <2>1, EndEvents, AllEvents
         DEF TransferRefused, Post, Told, Fits, TxEvents, RxEvents
    <3> QED
      BY <3>1
  <2>2. CASE Queued(Event("FAILED", "RX")) /\ smooth' = FALSE
    <3>1. "FAILED" \in Results
      BY DEF Results
    <3>2. Event("FAILED", "RX") \in Events
      BY <3>1, EndEvents, AllEvents
    <3>3. Told(Event("FAILED", "RX"))
      BY <1>6, <2>2, <3>2 DEF TransferRefused, Told
    <3> QED
      BY <3>3
  <2> QED
    BY <1>6, <2>1, <2>2 DEF TransferRefused
<1>7. CASE TxEnds
  <2>1. PICK result \in Results : Post(result, "TX")
    BY <1>7 DEF TxEnds
  <2>2. Told(Event(result, "TX"))
    BY <1>7, <2>1, EndEvents, AllEvents DEF TxEnds, Post, Told, Fits, TxEvents, RxEvents
  <2> QED
    BY <2>2
<1> QED
  BY <1>1, <1>2, <1>3, <1>4, <1>5, <1>6, <1>7 DEF SendSteps

LEMMA RxReported ==
  ASSUME RxStarts \/ RxRefused \/ Verifies \/ RxTerminal \/ RxEnds
  PROVE  Quiet \/ \E e : Told(e)
<1> USE DEF Reception, screen, flags, reception, Transmitting, Receiving
<1>1. CASE RxStarts
  <2>1. Told(Event("CFDP_RX", "none"))
    BY <1>1, StartEvents, AllEvents DEF RxStarts, Tell, Post, Told, Fits, TxEvents, RxEvents
  <2> QED
    BY <2>1
<1>2. CASE RxRefused
  <2>1. Event("CFDP_RX", "none") \in Events
    BY StartEvents, AllEvents
  <2>2. Told(Event("CFDP_RX", "none"))
    BY <1>2, <2>1 DEF RxRefused, Told
  <2> QED
    BY <2>2
<1>3. CASE Verifies
  <2>1. Told(Event("VERIFYING", "none"))
    BY <1>3, PlainTold DEF Verifies, Tell, Post
  <2> QED
    BY <2>1
<1>4. CASE RxTerminal
  BY <1>4 DEF RxTerminal, Silent, Quiet
<1>5. CASE RxEnds
  <2>1. PICK result \in Results : Post(result, "RX")
    BY <1>5 DEF RxEnds
  <2>2. Told(Event(result, "RX"))
    BY <1>5, <2>1, EndEvents, AllEvents DEF RxEnds, Post, Told, Fits, TxEvents, RxEvents
  <2> QED
    BY <2>2
<1> QED
  BY <1>1, <1>2, <1>3, <1>4, <1>5

-----------------------------------------------------------------------------
(* What the events promise survives every kind of step.                    *)
LEMMA QuietKeeps ==
  ASSUME Promised, Quiet, UNCHANGED ui_queue
  PROVE  Promised'
<1>1. UNCHANGED cfdp_tx_active /\ UNCHANGED cfdp_rx_active
  BY DEF Quiet, flags
<1>2. Transmitting' = Transmitting /\ Receiving' = Receiving
  BY DEF Quiet
<1> QED
  BY <1>1, <1>2 DEF Promised, TxShown, TxHidden, RxShown

LEMMA ToldKeeps ==
  ASSUME TypeOK, Promised, NEW e, Told(e), smooth'
  PROVE  Promised'
<1>1. /\ e \in Events /\ ui_queue \in Seq(Events) /\ ui_queue' = Append(ui_queue, e)
      /\ Fits(e)
  BY DEF Told, Queued, TypeOK
<1>2. UNCHANGED cfdp_tx_active /\ UNCHANGED cfdp_rx_active
  BY DEF Told, flags
<1>3. cfdp_tx_active \in BOOLEAN /\ cfdp_rx_active \in BOOLEAN
  BY DEF TypeOK
<1>4. /\ Transmitting \in BOOLEAN /\ Transmitting' \in BOOLEAN
      /\ Receiving \in BOOLEAN /\ Receiving' \in BOOLEAN
  BY DEF Transmitting, Receiving
<1>5. TxShown'
  <2>1. Promises(ui_queue, TxEvents, TxStart, cfdp_tx_active, Transmitting)
    BY DEF Promised, TxShown
  <2>2. e \notin TxEvents => (Transmitting => Transmitting')
    BY <1>1 DEF Fits
  <2>3. e \in TxEvents /\ e \in TxStart => Transmitting'
    BY <1>1 DEF Fits
  <2>4. Promises(Append(ui_queue, e), TxEvents, TxStart, cfdp_tx_active, Transmitting')
    BY <1>1, <1>3, <1>4, <2>1, <2>2, <2>3, PromisesAppend
  <2> QED
    BY <1>1, <1>2, <2>4 DEF TxShown
<1>6. TxHidden'
  <2>1. Promises(ui_queue, TxEvents, TxEnd, ~cfdp_tx_active, ~Transmitting)
    BY DEF Promised, TxHidden
  <2>2. e \notin TxEvents => (~Transmitting => ~(Transmitting'))
    BY <1>1 DEF Fits
  <2>3. e \in TxEvents /\ e \in TxEnd => ~(Transmitting')
    BY <1>1 DEF Fits
  <2>4. /\ (~cfdp_tx_active) \in BOOLEAN /\ (~Transmitting) \in BOOLEAN
        /\ (~(Transmitting')) \in BOOLEAN
    OBVIOUS
  <2>5. Promises(Append(ui_queue, e), TxEvents, TxEnd, ~cfdp_tx_active, ~(Transmitting'))
    BY <1>1, <2>1, <2>2, <2>3, <2>4, PromisesAppend
  <2> QED
    BY <1>1, <1>2, <2>5 DEF TxHidden
<1>7. RxShown'
  <2>1. Promises(ui_queue, RxEvents, RxStart, cfdp_rx_active, Receiving)
    BY DEF Promised, RxShown
  <2>2. e \notin RxEvents => (Receiving => Receiving')
    BY <1>1 DEF Fits
  <2>3. e \in RxEvents /\ e \in RxStart => Receiving'
    BY <1>1 DEF Fits
  <2>4. Promises(Append(ui_queue, e), RxEvents, RxStart, cfdp_rx_active, Receiving')
    BY <1>1, <1>3, <1>4, <2>1, <2>2, <2>3, PromisesAppend
  <2> QED
    BY <1>1, <1>2, <2>4 DEF RxShown
<1> QED
  BY <1>5, <1>6, <1>7 DEF Promised

(* What handling an event does to the flags.                               *)
LEMMA HandleFlags ==
  ASSUME TypeOK, NEW e \in Events, Handle(e)
  PROVE  /\ cfdp_tx_active' \in BOOLEAN /\ cfdp_rx_active' \in BOOLEAN
         /\ e \notin TxEvents => UNCHANGED cfdp_tx_active
         /\ e \in TxStart => cfdp_tx_active'
         /\ e \in TxEnd => ~cfdp_tx_active'
         /\ e \notin RxEvents => UNCHANGED cfdp_rx_active
         /\ e \in RxStart => cfdp_rx_active'
         /\ e \in RxEnd => ~cfdp_rx_active'
<1> USE DEF TypeOK, TxEvents, TxStart, TxEnd, RxEvents, RxStart, RxEnd, Results
<1>1. CASE e.type \in {"CFDP_TX", "CFDP_RX"}
  BY <1>1 DEF Handle, Started
<1>2. CASE e.type = "COMPLETE"
  <2>1. e.detail \in {"TX", "RX"} /\ Ended(e)
    BY <1>2 DEF Handle, Completed, Events, Plain, Directions
  <2> QED
    BY <1>2, <2>1 DEF Ended
<1>3. CASE e.type = "FAILED"
  BY <1>3 DEF Handle, Failed, Ended
<1>4. CASE e.type \notin {"CFDP_TX", "CFDP_RX", "COMPLETE", "FAILED"}
  <2>1. UNCHANGED flags
    BY <1>4 DEF Handle
  <2> QED
    BY <1>4, <2>1 DEF flags
<1> QED
  BY <1>1, <1>2, <1>3, <1>4

LEMMA HandleKeeps ==
  ASSUME TypeOK, Promised, HandleEvent
  PROVE  Promised'
<1> DEFINE e == Head(ui_queue)
<1>1. /\ ui_queue \in Seq(Events) /\ ui_queue # <<>> /\ ui_queue' = Tail(ui_queue)
      /\ e \in Events /\ Handle(e)
  BY DEF TypeOK, HandleEvent
<1>2. Transmitting' = Transmitting /\ Receiving' = Receiving
  BY DEF HandleEvent, reception, Transmitting, Receiving
<1>3. /\ cfdp_tx_active \in BOOLEAN /\ cfdp_rx_active \in BOOLEAN
      /\ Transmitting \in BOOLEAN /\ Receiving \in BOOLEAN
  BY DEF TypeOK, Transmitting, Receiving
<1> HIDE DEF e
<1>4. /\ cfdp_tx_active' \in BOOLEAN /\ cfdp_rx_active' \in BOOLEAN
      /\ e \notin TxEvents => UNCHANGED cfdp_tx_active
      /\ e \in TxStart => cfdp_tx_active'
      /\ e \in TxEnd => ~cfdp_tx_active'
      /\ e \notin RxEvents => UNCHANGED cfdp_rx_active
      /\ e \in RxStart => cfdp_rx_active'
      /\ e \in RxEnd => ~cfdp_rx_active'
  BY <1>1, HandleFlags
<1>5. e = Head(ui_queue)
  BY DEF e
<1>6. TxShown'
  <2>1. Promises(ui_queue, TxEvents, TxStart, cfdp_tx_active, Transmitting)
    BY DEF Promised, TxShown
  <2>2. e \notin TxEvents => (cfdp_tx_active' => cfdp_tx_active)
    BY <1>4
  <2>3. e \in TxEvents => (cfdp_tx_active' => e \in TxStart)
    BY <1>4 DEF TxEvents
  <2>4. Promises(Tail(ui_queue), TxEvents, TxStart, cfdp_tx_active', Transmitting)
    BY <1>1, <1>3, <1>4, <1>5, <2>1, <2>2, <2>3, PromisesTail
  <2> QED
    BY <1>1, <1>2, <2>4 DEF TxShown
<1>7. TxHidden'
  <2>1. Promises(ui_queue, TxEvents, TxEnd, ~cfdp_tx_active, ~Transmitting)
    BY DEF Promised, TxHidden
  <2>2. e \notin TxEvents => (~(cfdp_tx_active') => ~cfdp_tx_active)
    BY <1>4
  <2>3. e \in TxEvents => (~(cfdp_tx_active') => e \in TxEnd)
    BY <1>4 DEF TxEvents
  <2>4. /\ (~cfdp_tx_active) \in BOOLEAN /\ (~(cfdp_tx_active')) \in BOOLEAN
        /\ (~Transmitting) \in BOOLEAN
    OBVIOUS
  <2>5. Promises(Tail(ui_queue), TxEvents, TxEnd, ~(cfdp_tx_active'), ~Transmitting)
    BY <1>1, <1>5, <2>1, <2>2, <2>3, <2>4, PromisesTail
  <2> QED
    BY <1>1, <1>2, <2>5 DEF TxHidden
<1>8. RxShown'
  <2>1. Promises(ui_queue, RxEvents, RxStart, cfdp_rx_active, Receiving)
    BY DEF Promised, RxShown
  <2>2. e \notin RxEvents => (cfdp_rx_active' => cfdp_rx_active)
    BY <1>4
  <2>3. e \in RxEvents => (cfdp_rx_active' => e \in RxStart)
    BY <1>4 DEF RxEvents
  <2>4. Promises(Tail(ui_queue), RxEvents, RxStart, cfdp_rx_active', Receiving)
    BY <1>1, <1>3, <1>4, <1>5, <2>1, <2>2, <2>3, PromisesTail
  <2> QED
    BY <1>1, <1>2, <2>4 DEF RxShown
<1> QED
  BY <1>6, <1>7, <1>8 DEF Promised

-----------------------------------------------------------------------------
(* Type correctness.                                                       *)
LEMMA InitType == Init => TypeOK
<1> SUFFICES ASSUME Init PROVE TypeOK
  OBVIOUS
<1>1. /\ network_event_queue \in Seq({"associated", "disconnected"})
      /\ Len(network_event_queue) <= NetworkDepth
      /\ ui_queue \in Seq(Events) /\ Len(ui_queue) <= UiDepth
  BY DepthAssumption DEF Init
<1>2. /\ wifi \in BOOLEAN /\ association_handled \in BOOLEAN /\ protocol_ready \in BOOLEAN
      /\ peer_ready \in BOOLEAN /\ receiving \in BOOLEAN /\ rx_terminal \in BOOLEAN
      /\ cfdp_tx_active \in BOOLEAN /\ cfdp_rx_active \in BOOLEAN
      /\ completion_pending \in BOOLEAN /\ smooth \in BOOLEAN
  BY DEF Init
<1> QED
  BY <1>1, <1>2 DEF Init, TypeOK, States

LEMMA QueuedType ==
  ASSUME TypeOK, NEW e \in Events, Queued(e)
  PROVE  ui_queue' \in Seq(Events) /\ Len(ui_queue') <= UiDepth
<1>1. ui_queue \in Seq(Events) /\ Len(ui_queue) \in Nat /\ Len(ui_queue) <= UiDepth
  BY DEF TypeOK
<1>2. CASE Room
  BY <1>1, <1>2, DepthAssumption DEF Queued, Room
<1>3. CASE ~Room
  BY <1>1, <1>3 DEF Queued
<1> QED
  BY <1>2, <1>3

(* The events the queue holds stay events.                                 *)
LEMMA UiQueueType ==
  ASSUME TypeOK, [Next]_vars
  PROVE  ui_queue' \in Seq(Events) /\ Len(ui_queue') <= UiDepth
<1>1. ui_queue \in Seq(Events) /\ Len(ui_queue) \in Nat /\ Len(ui_queue) <= UiDepth
  BY DEF TypeOK
<1>2. CASE Quiet \/ UNCHANGED ui_queue
  BY <1>1, <1>2 DEF Quiet
<1>3. CASE \E e : Told(e)
  BY <1>3, QueuedType DEF Told
<1>4. CASE HandleEvent
  BY <1>1, <1>4, DepthAssumption DEF HandleEvent
<1>5. CASE Tick \/ ReportBusy \/ UNCHANGED vars
  BY <1>1, <1>5 DEF Tick, Refresh, CompletionDue, CompletionOver, ReportBusy, Show, vars
<1> QED
  BY <1>2, <1>3, <1>4, <1>5, NetworkReported, PeerReported, SendReported, RxReported DEF Next

LEMMA NetworkType ==
  ASSUME TypeOK, [Next]_vars
  PROVE  /\ wifi' \in BOOLEAN /\ association_handled' \in BOOLEAN
         /\ protocol_ready' \in BOOLEAN /\ peer_ready' \in BOOLEAN
         /\ network_event_queue' \in Seq({"associated", "disconnected"})
         /\ Len(network_event_queue') <= NetworkDepth
<1> DEFINE Words == {"associated", "disconnected"}
<1>1. /\ network_event_queue \in Seq(Words) /\ Len(network_event_queue) \in Nat
      /\ Len(network_event_queue) <= NetworkDepth
  BY DEF TypeOK
<1>2. CASE \E up \in BOOLEAN : WifiEvent(up)
  <2>1. PICK up \in BOOLEAN : WifiEvent(up)
    BY <1>2
  <2>2. (IF up THEN "associated" ELSE "disconnected") \in Words
    OBVIOUS
  <2>3. /\ network_event_queue' \in Seq(Words)
        /\ Len(network_event_queue') <= NetworkDepth
    BY <1>1, <2>1, <2>2, DepthAssumption DEF WifiEvent
  <2> QED
    BY <2>1, <2>3 DEF WifiEvent, TypeOK
<1>3. CASE Network
  <2>1. network_event_queue # <<>> /\ network_event_queue' = Tail(network_event_queue)
    BY <1>3 DEF Network, Associated, NotInitialized, AlreadyAssociated, Disconnected, Take
  <2>2. /\ network_event_queue' \in Seq(Words)
        /\ Len(network_event_queue') <= NetworkDepth
    BY <1>1, <2>1, DepthAssumption
  <2>3. UNCHANGED wifi
    BY <1>3 DEF Network, Associated, NotInitialized, AlreadyAssociated, Disconnected, Take
  <2>4. /\ association_handled' \in BOOLEAN /\ protocol_ready' \in BOOLEAN
        /\ peer_ready' \in BOOLEAN
    BY <1>3 DEF Network, Associated, NotInitialized, AlreadyAssociated, Disconnected, TypeOK
  <2> QED
    BY <2>2, <2>3, <2>4 DEF TypeOK
<1>4. CASE UNCHANGED network /\ peer_ready' \in BOOLEAN
  BY <1>4 DEF network, TypeOK
<1>5. CASE UNCHANGED vars
  BY <1>5 DEF vars, network, TypeOK
<1>6. CASE \/ PeerValid \/ PeerInvalid \/ PeerSilent \/ LinkFails \/ PeerRestarted
           \/ Publish \/ LinkAction
  <2>1. UNCHANGED network /\ peer_ready' \in BOOLEAN
    BY <1>6 DEF PeerValid, PeerInvalid, PeerSilent, LinkFails, PeerRestarted, Peer, Publish,
                LinkAction, TypeOK
  <2> QED
    BY <1>4, <2>1
<1>7. CASE ActionReported \/ Capture \/ SendSteps \/ TxEnds
  <2>1. UNCHANGED network /\ UNCHANGED peer_ready
    BY <1>7 DEF ActionReported, Capture, SendSteps, CaptureFails, Captured, TransferStarts,
                TransferRefused, TxEnds, Operation
  <2> QED
    BY <1>4, <2>1 DEF TypeOK
<1>8. CASE RxStarts \/ RxRefused \/ Verifies \/ RxTerminal \/ RxEnds
  <2>1. UNCHANGED network /\ UNCHANGED peer_ready
    BY <1>8 DEF RxStarts, RxRefused, Verifies, RxTerminal, RxEnds, Reception
  <2> QED
    BY <1>4, <2>1 DEF TypeOK
<1>9. CASE HandleEvent \/ Tick \/ ReportBusy
  <2>1. UNCHANGED network /\ UNCHANGED peer_ready
    BY <1>9 DEF HandleEvent, Tick, Refresh, CompletionDue, CompletionOver, ReportBusy, Show
  <2> QED
    BY <1>4, <2>1 DEF TypeOK
<1> QED
  BY <1>2, <1>3, <1>5, <1>6, <1>7, <1>8, <1>9 DEF Next

LEMMA WorkerType ==
  ASSUME TypeOK, [Next]_vars
  PROVE  /\ operation' \in {"none", "capturing", "starting", "sending"}
         /\ receiving' \in BOOLEAN /\ rx_terminal' \in BOOLEAN
         /\ snapshot' \in {"none", "absent", "present"}
         /\ smooth' \in BOOLEAN
<1> USE DEF TypeOK, reception
<1>1. CASE Network \/ \E up \in BOOLEAN : WifiEvent(up)
  BY <1>1 DEF Network, WifiEvent, Associated, NotInitialized, AlreadyAssociated, Disconnected,
              Take, Tell, Post, Silent
<1>2. CASE \/ PeerValid \/ PeerInvalid \/ PeerSilent \/ LinkFails \/ PeerRestarted
           \/ Publish \/ LinkAction
  BY <1>2 DEF PeerValid, PeerInvalid, PeerSilent, LinkFails, PeerRestarted, Peer, Publish,
              LinkAction, Published, Tell, Post, Silent
<1>3. CASE ActionReported \/ Capture \/ SendSteps \/ TxEnds
  BY <1>3 DEF ActionReported, Capture, SendSteps, CaptureFails, Captured, TransferStarts,
              TransferRefused, TxEnds, Operation, Tell, Post, Silent
<1>4. CASE RxStarts \/ RxRefused \/ Verifies \/ RxTerminal \/ RxEnds
  BY <1>4 DEF RxStarts, RxRefused, Verifies, RxTerminal, RxEnds, Reception, Tell, Post, Silent
<1>5. CASE HandleEvent \/ Tick \/ ReportBusy
  BY <1>5 DEF HandleEvent, Tick, Refresh, CompletionDue, CompletionOver, ReportBusy, Show
<1>6. CASE UNCHANGED vars
  BY <1>6 DEF vars
<1> QED
  BY <1>1, <1>2, <1>3, <1>4, <1>5, <1>6 DEF Next

LEMMA HandleType ==
  ASSUME TypeOK, NEW e \in Events, Handle(e)
  PROVE  state' \in States /\ completion_pending' \in BOOLEAN
<1> USE DEF TypeOK, States, Base
<1>1. CASE e.type \in {"CFDP_TX", "CFDP_RX"}
  BY <1>1 DEF Handle, Started
<1>2. CASE e.type = "COMPLETE"
  BY <1>2 DEF Handle, Completed
<1>3. CASE e.type = "FAILED"
  BY <1>3 DEF Handle, Failed
<1>4. CASE e.type = "VERIFYING"
  BY <1>4 DEF Handle
<1>5. CASE e.type \in {"NO_PEER", "PEER_READY", "NOTICE"}
  BY <1>5 DEF Handle, StateAfter
<1> QED
  BY <1>1, <1>2, <1>3, <1>4, <1>5 DEF Events, Plain

LEMMA ScreenType ==
  ASSUME TypeOK, [Next]_vars
  PROVE  /\ state' \in States /\ completion_pending' \in BOOLEAN
         /\ cfdp_tx_active' \in BOOLEAN /\ cfdp_rx_active' \in BOOLEAN
<1>1. CASE HandleEvent
  <2>1. Head(ui_queue) \in Events /\ Handle(Head(ui_queue))
    BY <1>1 DEF HandleEvent, TypeOK
  <2> QED
    BY <2>1, HandleType, HandleFlags
<1>2. CASE Tick \/ ReportBusy
  BY <1>2 DEF Tick, Refresh, CompletionDue, CompletionOver, ReportBusy, Show, flags, TypeOK,
              States, Base
<1>3. CASE UNCHANGED screen
  BY <1>3 DEF screen, flags, TypeOK
<1>4. CASE Network \/ \E up \in BOOLEAN : WifiEvent(up)
  <2>1. UNCHANGED screen
    BY <1>4 DEF Network, WifiEvent, Associated, NotInitialized, AlreadyAssociated,
                Disconnected, Take
  <2> QED
    BY <1>3, <2>1
<1>5. CASE \/ PeerValid \/ PeerInvalid \/ PeerSilent \/ LinkFails \/ PeerRestarted
           \/ Publish \/ LinkAction
  <2>1. UNCHANGED screen
    BY <1>5 DEF PeerValid, PeerInvalid, PeerSilent, LinkFails, PeerRestarted, Peer, Publish,
                LinkAction
  <2> QED
    BY <1>3, <2>1
<1>6. CASE ActionReported \/ Capture \/ SendSteps \/ TxEnds
  <2>1. UNCHANGED screen
    BY <1>6 DEF ActionReported, Capture, SendSteps, CaptureFails, Captured, TransferStarts,
                TransferRefused, TxEnds, Operation
  <2> QED
    BY <1>3, <2>1
<1>7. CASE RxStarts \/ RxRefused \/ Verifies \/ RxTerminal \/ RxEnds
  <2>1. UNCHANGED screen
    BY <1>7 DEF RxStarts, RxRefused, Verifies, RxTerminal, RxEnds, Reception
  <2> QED
    BY <1>3, <2>1
<1>8. CASE UNCHANGED vars
  BY <1>8, <1>3 DEF vars
<1> QED
  BY <1>1, <1>2, <1>4, <1>5, <1>6, <1>7, <1>8 DEF Next

LEMMA NextType == TypeOK /\ [Next]_vars => TypeOK'
BY UiQueueType, NetworkType, WorkerType, ScreenType DEF TypeOK

-----------------------------------------------------------------------------
(* The inductive invariant.                                                *)
LEMMA InitPromised == Init => Promised
<1> SUFFICES ASSUME Init PROVE Promised
  OBVIOUS
<1>1. /\ ui_queue = <<>> /\ ~cfdp_tx_active /\ ~cfdp_rx_active /\ ~Transmitting
  BY DEF Init, Transmitting
<1>2. DOMAIN ui_queue = {}
  BY <1>1
<1> QED
  BY <1>1, <1>2 DEF Promised, TxShown, TxHidden, RxShown, Promises

LEMMA NextPromised ==
  ASSUME IInv, [Next]_vars, smooth'
  PROVE  Promised'
<1>1. CASE HandleEvent
  <2>1. smooth
    BY <1>1 DEF HandleEvent
  <2> QED
    BY <1>1, <2>1, HandleKeeps DEF IInv
<1>2. CASE Quiet
  BY <1>2, QuietKeeps DEF IInv, Quiet
<1>3. CASE \E e : Told(e)
  BY <1>3, ToldKeeps DEF IInv, Told
<1>4. CASE Tick \/ ReportBusy \/ UNCHANGED vars
  <2>0. UNCHANGED <<operation, reception, ui_queue, flags, smooth>>
    BY <1>4 DEF Tick, Refresh, CompletionDue, CompletionOver, ReportBusy, Show, vars, screen
  <2>1. Quiet
    BY <2>0 DEF Quiet, reception, Transmitting, Receiving
  <2> QED
    BY <1>2, <2>1
<1> QED
  BY <1>1, <1>2, <1>3, <1>4, NetworkReported, PeerReported, SendReported, RxReported
     DEF IInv, Next

LEMMA Invariance == Spec => []IInv
<1>1. Init => IInv
  BY InitType, InitPromised DEF IInv
<1>2. IInv /\ [Next]_vars => IInv'
  BY NextType, NextPromised DEF IInv
<1> QED
  BY <1>1, <1>2, PTL DEF Spec

(* The queues never hold more than they have room for, nor anything that   *)
(* is not one of their events.                                             *)
THEOREM TypeCorrect == Spec => []TypeOK
<1>1. IInv => TypeOK
  BY DEF IInv
<1> QED
  BY <1>1, Invariance, PTL

(* Whatever the length of the queue of display events: once the display    *)
(* has handled them all, and none was lost, it shows a transmission        *)
(* exactly while there is one, and no reception that is over.              *)
THEOREM FlagsAreTrue == Spec => []FlagsTrue
<1>1. IInv => FlagsTrue
  <2> SUFFICES ASSUME IInv, smooth, ui_queue = <<>>
               PROVE  /\ cfdp_tx_active <=> operation \in {"starting", "sending"}
                      /\ cfdp_rx_active => receiving \/ rx_terminal
    BY DEF FlagsTrue
  <2>1. Promised
    BY DEF IInv
  <2>2. Untouched(ui_queue, TxEvents) /\ Untouched(ui_queue, RxEvents)
    BY DEF Untouched
  <2>3. cfdp_tx_active => Transmitting
    BY <2>1, <2>2 DEF Promised, TxShown, Promises
  <2>4. ~cfdp_tx_active => ~Transmitting
    BY <2>1, <2>2 DEF Promised, TxHidden, Promises
  <2>5. cfdp_rx_active => Receiving
    BY <2>1, <2>2 DEF Promised, RxShown, Promises
  <2> QED
    BY <2>3, <2>4, <2>5 DEF Transmitting, Receiving
<1> QED
  BY <1>1, Invariance, PTL

-----------------------------------------------------------------------------
(* The last word about Wi-Fi.  Until an event is lost or the protocol      *)
(* cannot be started, an association that was handled has started it.      *)
Heard == NetworkTold /\ (smooth => (association_handled <=> protocol_ready))

(* A step that concerns neither Wi-Fi nor the protocol.                    *)
LEMMA ElsewhereHeard ==
  ASSUME Heard, UNCHANGED network, smooth' => smooth
  PROVE  Heard'
BY DEF Heard, NetworkTold, LastWord, network

LEMMA WifiHeard ==
  ASSUME TypeOK, Heard, NEW up \in BOOLEAN, WifiEvent(up)
  PROVE  Heard'
<1> DEFINE word == IF up THEN "associated" ELSE "disconnected"
<1>1. SUFFICES ASSUME smooth' PROVE Heard'
  BY DEF Heard, NetworkTold
<1>2. /\ smooth /\ wifi' = up
      /\ network_event_queue' = Append(network_event_queue, word)
      /\ UNCHANGED <<association_handled, protocol_ready>>
  BY <1>1 DEF WifiEvent
<1>3. word = "associated" <=> up
  OBVIOUS
<1>4. /\ network_event_queue' # <<>>
      /\ network_event_queue'[Len(network_event_queue')] = word
  <2>1. network_event_queue \in Seq({"associated", "disconnected"})
    BY DEF TypeOK
  <2>2. word \in {"associated", "disconnected"}
    OBVIOUS
  <2> HIDE DEF word
  <2> QED
    BY <1>2, <2>1, <2>2
<1>5. LastWord' <=> wifi'
  BY <1>2, <1>3, <1>4 DEF LastWord
<1> QED
  BY <1>2, <1>5 DEF Heard, NetworkTold

LEMMA NetworkHeard ==
  ASSUME TypeOK, Heard, Network
  PROVE  Heard'
<1>1. SUFFICES ASSUME smooth' PROVE Heard'
  BY DEF Heard, NetworkTold
<1>2. /\ network_event_queue # <<>> /\ network_event_queue' = Tail(network_event_queue)
      /\ UNCHANGED wifi
  BY DEF Network, Associated, NotInitialized, AlreadyAssociated, Disconnected, Take
<1>3. smooth
  BY <1>1 DEF Network, Associated, NotInitialized, AlreadyAssociated, Disconnected, Tell, Post,
              Silent
<1>4. /\ association_handled' <=> protocol_ready'
      /\ protocol_ready' <=> Head(network_event_queue) = "associated"
  BY <1>1, <1>3 DEF Network, Associated, NotInitialized, AlreadyAssociated, Disconnected, Take,
                    Heard, TypeOK
<1>5. network_event_queue \in Seq({"associated", "disconnected"})
  BY DEF TypeOK
<1>6. CASE Tail(network_event_queue) = <<>>
  <2>1. Head(network_event_queue) = network_event_queue[Len(network_event_queue)]
    BY <1>2, <1>5, <1>6
  <2> QED
    BY <1>2, <1>3, <1>4, <1>6, <2>1 DEF Heard, NetworkTold, LastWord
<1>7. CASE Tail(network_event_queue) # <<>>
  <2> DEFINE q == network_event_queue
             r == Tail(q)
  <2>1. r[Len(r)] = q[Len(q)]
    BY <1>2, <1>5, <1>7
  <2>2. LastWord' <=> r[Len(r)] = "associated"
    BY <1>2, <1>7 DEF LastWord
  <2> QED
    BY <1>2, <1>3, <1>4, <2>1, <2>2 DEF Heard, NetworkTold, LastWord
<1> QED
  BY <1>6, <1>7

LEMMA NextHeard == TypeOK /\ Heard /\ [Next]_vars => Heard'
<1> SUFFICES ASSUME TypeOK, Heard, [Next]_vars PROVE Heard'
  OBVIOUS
<1>1. CASE Network
  BY <1>1, NetworkHeard
<1>2. CASE \E up \in BOOLEAN : WifiEvent(up)
  BY <1>2, WifiHeard
<1>3. CASE \/ PeerValid \/ PeerInvalid \/ PeerSilent \/ LinkFails \/ PeerRestarted
           \/ Publish \/ LinkAction
  <2>1. UNCHANGED network
    BY <1>3 DEF PeerValid, PeerInvalid, PeerSilent, LinkFails, PeerRestarted, Peer, Publish,
                LinkAction
  <2>2. smooth' => smooth
    BY <1>3, PeerReported DEF Quiet, Told
  <2> QED
    BY <2>1, <2>2, ElsewhereHeard
<1>4. CASE ActionReported \/ Capture \/ SendSteps \/ TxEnds
  <2>1. UNCHANGED network
    BY <1>4 DEF ActionReported, Capture, SendSteps, CaptureFails, Captured, TransferStarts,
                TransferRefused, TxEnds, Operation
  <2>2. smooth' => smooth
    BY <1>4, SendReported DEF Quiet, Told
  <2> QED
    BY <2>1, <2>2, ElsewhereHeard
<1>5. CASE RxStarts \/ RxRefused \/ Verifies \/ RxTerminal \/ RxEnds
  <2>1. UNCHANGED network
    BY <1>5 DEF RxStarts, RxRefused, Verifies, RxTerminal, RxEnds, Reception
  <2>2. smooth' => smooth
    BY <1>5, RxReported DEF Quiet, Told
  <2> QED
    BY <2>1, <2>2, ElsewhereHeard
<1>6. CASE HandleEvent \/ Tick \/ ReportBusy \/ UNCHANGED vars
  <2>1. UNCHANGED network /\ (smooth' => smooth)
    BY <1>6 DEF HandleEvent, Tick, Refresh, CompletionDue, CompletionOver, ReportBusy, Show, vars
  <2> QED
    BY <2>1, ElsewhereHeard
<1> QED
  BY <1>1, <1>2, <1>3, <1>4, <1>5, <1>6 DEF Next

(* Whatever the length of the queue of Wi-Fi events, and however many of   *)
(* them wait for the worker: if none was lost and the protocol could be    *)
(* started, the last of them, or the protocol once all have been handled,  *)
(* is what the station is.                                                 *)
THEOREM NetworkIsTold == Spec => []NetworkTold
<1>1. Init => Heard
  BY DEF Init, Heard, NetworkTold, LastWord
<1>2. Heard => NetworkTold
  BY DEF Heard
<1> QED
  BY <1>1, <1>2, NextHeard, TypeCorrect, PTL DEF Spec
=============================================================================
