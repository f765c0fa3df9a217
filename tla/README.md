# A TLA+ model of the CCSDS eye demo

The program is firmware for two ESP32 camera boards, EYE-1 and EYE-2, that take
pictures, show them and send them to each other over Wi-Fi: CFDP files in CCSDS
space packets, in USLP frames with COP-1 sequence control and SDLS security.
This directory holds TLA+ modules of the parts that are hard to test, TLC
configurations that check them on small instances, and TLAPS proofs of the most
important invariants for every instance. `PROJECT.json` maps every definition to
the lines it models.

## Parts of the system

| Part | State | Operations | Correct when |
| --- | --- | --- | --- |
| Image store, CFDP adapters (`demo_image.c`) | owners of 3 slots, the source and the receiver adapter | claim, abort, promote, retain, acquire, release; open, read, write, commit, discard | one latest image, always whole; no flag leaks; nobody writes what another reads |
| Image exchange (`demo_service.c`, worker) | `operation_active`, `outgoing_active`, `tx_slot`, `callback_terminal` | capture, send, receive, clean up after terminal events, abort | cleanup meets the operation it belongs to; an operation always ends |
| SDLS recovery (`demo_protocol.c`, `service_sdls_recovery`) | election, pending OTAR, matched, cutover, confirmed, transport returned | candidate, OTAR, FSR, commit, confirm | one winner; both boards end with the same keys, know it, and resume traffic |
| Link synchronization (`advance_link_sync`, `recover_from_restart_clcw`) | phase, first acquisition, divergence | fail, return, lock out, unlock, restart detection | a link that can recover does; no transaction survives a resynchronization |
| Ingress and router | `rx_queue` (16), `router_queue` (8), counters | put, drain, dispatch | bounded, in order, counters consistent |
| Command protocol (`process_capture_command`, `demo_dedup_check_and_record`) | request ids, ring of 8, pending deadline | request, reply, expire | a request is executed at most once; the requester learns its fate |
| SDLS feedback (`demo_sdls_feedback.c`) | latched acceptance, streak, last report | latch, confirm, select | an acceptance is repeated until it is confirmed; CLCWs are never starved |
| Network events (`wifi_event_handler`, `worker`) | queue of 2, `association_handled`, `protocol_ready` | associate, disconnect | the protocol runs while Wi-Fi is up |
| UI and views (`demo_ui.c`, `demo_view.c`, `main.c`) | view, displayed image, status | keys, events, tick | the display follows the service; an image shown is released |
| Link snapshot | a copy of the worker's state for the display | publish, read | the display's idle states follow the peer |
| Camera driver, codecs, key import | hardware, layouts | straight-line code | not modelled |

Threads of one board: the *worker* (ingress, router, CFDP events, actions, tick,
in that order, every 2 ms or when woken), the *UI* thread in `main`, the UDP
*receive* thread and the Wi-Fi management callback. Worker and UI share the
slots under `image_lock`; the other interactions are message queues. The worker
calls the CCSDS library (not in this repository): COP-1 peer, SDLS, CFDP entity,
space packet router. Its callbacks come back inside those calls, on the worker.

Two things make the worker hard to follow. `submit_packet_owned` blocks, and
while it does it drains datagrams, so a peer restart may be found, and every
CFDP transaction aborted, in the middle of an operation. And terminal events of
CFDP are latched and consumed later in the loop, after router messages that may
already have started the next transaction.

## Modules

| Module | Models | Corresponds to |
| --- | --- | --- |
| `ImageStore` | calls of `demo_image.c`, without state | one operator for what a call requires, one for what it leaves |
| `ImageExchange` | one board: worker, CFDP library, UI thread | `pc` is the place in `worker()`; every critical section under `image_lock` is one action; the camera and the display touch objects outside it |
| `LatestImage` | what a board promises its operator | abstract specification, implemented by `ImageExchange` (`KeepsPromise`) |
| `Recovery` | both boards' recovery and the link between them | `Step(n)` is one handler or tick step of board n's worker |
| `KeyRotation` | what a rotation of the keys promises both boards | abstract specification, implemented by `Recovery` while no link fails (`KeepsKeyPromise`): the boards' `keys`, the keys they offer (`pending`), what they take for confirmed |
| `SdlsFeedback` | the feedback policy of the board that accepts an OTAR and what the board that sent it makes of the FSRs | one action per branch of `demo_sdls_feedback_select_fsr`, one per handler that feeds or reads it |
| `CommandExchange` | REQUEST: a requester, a responder, the packets between them | one action per handler; `Process` has one disjunct per answer; an operation is reserved, then sending |
| `RequestService` | what whoever presses REQUEST may rely on | abstract specification, implemented by `CommandExchange` (`KeepsServicePromise`): the requests made (`issued`), those served, refused or lost (`settled`: all before the first one still on its way), the one being served |
| `LinkControl` | supervision of one direction of the COP-1 link | `Received` is `udp_receive` while `Capture` holds the worker; `Arrives` is one datagram of `service_peer_ingress`; `Exhausts` and `Tick` are the branches of `advance_link_sync` in their order; `SyncTx` and `Unlock` the operator's commands |
| `Display` | Wi-Fi events, the display's event queue, the main screen | actions that post events at the place the worker posts them; `Handle` is the switch of `demo_ui_handle_event` |
| `MC...` | instances for TLC | |
| `...Proofs` | theorems about the module of that name; `ImageTransferProofs` continues `ImageExchangeProofs`, `RotationProofs` continues `RecoveryProofs` | |

Who feeds whom: `LinkControl` decides `peer_ready` and when transactions are
aborted, which `ImageExchange`, `Recovery` and `CommandExchange` take as
something that may happen at any moment; `SdlsFeedback` provides the repeated
acceptance that `Recovery` assumes; `CommandExchange` reserves the operation whose
capture and transfer `ImageExchange` models; all of them post the events that
`Display` handles.

### Abstractions in ImageExchange

* An object is a header part and pixel parts, each of which belongs to a picture
  or is zero. The file checksum is what the CFDP library vouches for; the header
  is what `demo_image_validate` looks at.
* The peer's file has all parts of one picture; File Data may be repeated and
  reordered, and any transaction may fail at any time. A file has some 120 PDUs
  and the router queue holds 8, so a reception is never opened and committed in
  one pass of the router (`fresh`).
- When the temporary file cannot be opened the transaction fails without a
  discard, and an abort does not discard a file already committed: the
  library's behaviour, as `src/` relies on it.
* The link is reduced to what gates the worker: `peer_ready` and the reason why
  application traffic is held (`recovery`). An election just opened cannot be
  over before the router has run again, since its end comes from the peer.
* The tick merges the peer tick, link supervision, recovery, CFDP poll and
  timers, in any order and any number of times.
* The branches of `PublishCapture` that refuse have no action: they are
  unreachable, which `PublishReady` states and `CapturePublishes` proves.
* `protocol_ready` is true: loss of association belongs to `Display`. After it
  the worker stops its tick.
* A blocked submission drains datagrams and runs the peer's tick; what router
  messages, actions and the tick of the loop do is not done inside it. The code
  takes them between two steps of the loop, and so does the model.

### Abstractions in Recovery

* A candidate is its board, attempt and value; a value drawn at random differs
  from those in use, except that a tie with the peer's is allowed. Attempts that
  nothing refers to any more are used again, so elections may be repeated
  without bound; `MaxCandidates` bounds those in use at one time.
* COP-1 is external: packets arrive in order and once while V(S) fits the peer's
  FARM (`inStep`), and what was not delivered is dropped when the sender is set
  from a CLCW anew. A submission to a failed link fails.
* An OTAR that arrives is accepted, installed and answered by an FSR that is
  repeated until new-key traffic confirms it. The 8-bit sequence number that
  correlates FSR and OTAR is modelled as exact.
* A tick step needs an empty router queue, which the loop has just drained. One
  status at most is in that queue (they are 2 s apart, the loop takes 2 ms).
* `PeerTimeout` needs a peer that cannot send status, or not under this board's
  keys: the silence is 6.5 s, more than three status periods.
* `RestartDetected` has one phase for a link that waits for a CLCW and one that
  sends UNLOCK (`SYNCING`), and takes no dirty CLCW there; the code excludes UNLOCK
  only (line 968). `LinkControl` tells the two apart (`DirtyReturn`).
* Image operations, which delay an election, are not here but in `ImageExchange`.
* Left to `LinkControl`: operator SYNC, UNLOCK and SET V(R), and a retry
  exhaustion noticed inside a blocked submission. Windows of anti-replay numbers
  and their adoption are not modelled.

### Abstractions in SdlsFeedback

* One direction: one board sends OTARs, the other accepts them. Every protected
  frame of the acceptor is one of `SendAcceptance`, `SendLive`, `SendClcw`; a
  frame may be lost, and an FSR that arrives is read at once.
* A CLCW is its report and whether COP-1 needs it (`cop_urgent` or a flag).
* Whether the sender wins an election is open (`Recovery` decides it): after a
  candidate it may send an OTAR or not, and the acceptor may start an election
  at any time after a cutover.
* ARSNs are numbers, and an FSR carries them modulo `LsbValues`.
* `untold` and `unsaid` are not in the code: they count frames for the properties.
* An OTAR that the acceptor cannot process is not modelled: what its FSR then
  says is up to the SDLS library.

### Abstractions in CommandExchange

* One direction; the other is the same with the boards swapped, and meets this
  one only in `operation` (`LocalSend`) and in the PDUs (`SendPdu`).
* A board's entity identifier is fixed, so an entry of the ring is a request.
  INVALID is left out: boards that accepted each other's status have the right
  entities, and their commands are well formed.
* A capture keeps the responder's worker from everything else until it ends.
* Time passes freely: the deadline and the retention may end in any state, the
  retention in the order of the ring. A delayed copy of a frame, which COP-1 may
  let through after V(R) was set back, comes within the retention of its request
  and before `Capacity` newer ones.
* Copies are the environment's, and limited to what the ring can know: a restart
  of either board drops them and the requests on their way, and one is delivered
  only while its request is remembered (`CopyArrives`). `demo_protocol.c:208`
  overwrites the oldest entry whatever its retention, so a later copy, or one
  that meets the empty ring of a restarted board, is executed. `CopyNotExecuted` and
  `KeepsServicePromise` say that the ring keeps what it can: no copy gets past it
  because its index wrapped or an entry was freed too early.
* A submission to a held link fails; the answer is then lost (`lost`). The link
  is reduced to whether a board may send and knows its peer; a failure drops
  what was on its way from that board.
* `answered`, `lost`, `restarted` are not in the code: what the operator was
  told, whether something was dropped, whether the ring outlived the requester.

### Abstractions in LinkControl

* The FOP of this board, the FARM of the peer and the datagrams are external: a
  FOP that waits for a CLCW, is active, sends UNLOCK or SET V(R), was locked out
  or has exhausted its retries. The library may or may not take a lockout
  whose report is out of range; both are modelled.
* The network loses and reorders datagrams and delays them by at most `MaxDelay`.
  They then wait in `rx_queue` for the worker, which is awake and takes them in
  turn, or is in `execute_send_operation`: from `Capture` to `Captured` it handles
  nothing, time passes, and `rx_queue` takes what fits and drops the rest. Time is
  counted in steps in which a divergence is confirmed, and does not pass while an
  awake worker has datagrams left; sequence numbers do not wrap.
* While the worker is awake a datagram passes through `rx_queue` in no time, so
  `Arrives` takes it from the network.
* Every datagram carries a CLCW. With SDLS the field may hold an FSR instead; the
  code then looks at the last CLCW again and resets the divergence (lines 962, 974),
  which makes the board slower to confirm one, never quicker.
* `new` merges the count of CLCWs observed with the last CLCW. `divergence.real`
  is history: whether the link was out of step when the divergence was first
  seen, or the peer has restarted since. So is `divergence.held`: whether a capture
  has held the worker since.
* `ExhaustsInSubmission`: the tick inside a blocked submission gets the report,
  and the worker's tick finds only a FOP that has stopped.
* A call of the library that fails, and SDLS adoption, are left out; so are the
  conditions of operator commands that other parts hold (`operation_active`, a
  pending OTAR or request).
* An operator's command leaves `clcw_divergence` as it is. A stale divergence may
  then be confirmed early, by a FOP that is waiting or unlocking: `NoFalseRestart`
  speaks of an active one.

### Abstractions in Display

* `NO_PEER` is PEER_ABSENT and LINK_RECOVERY, `TRANSFER` is TX, RX and DUPLEX,
  `NOTICE` every state that only an event ends. Events that change only a text
  (progress, command result, link action result) are left out.
* The peer, the link, the keys and the library are free: `peer_ready` changes
  whenever the code could change it. The action queue is left out: an action is
  taken at any time, and one that does not fit is `ReportBusy`.
* A peer restart detected inside `send_file` comes after it here (`Peer` waits until
  no operation is starting): what the two post does not depend on the order.
* `TransferRefused` takes every status of the library that is not a direction as one
  outcome, the one that equals TX included.
* In the image and link views the main screen is not refreshed: the fairness of
  `Refresh` says that the user comes back to it.
* `smooth` is history: no queue overflowed, the protocol was set up whenever it
  was tried, and the library took each reception it was offered.

## Runs

| Run | Bounds | Distinct states | Shows |
| --- | --- | --- | --- |
| `image_control` | 1 picture, 2 parts, 3 slots, fairness | 742 569 | flags, cleanup and publication, under every link failure; every send operation ends |
| `image_pictures` | 2 pictures, symmetry, quiet link | 425 840 | whole pictures, stable shared objects, `LatestImage` implemented |
| `image_stale_event` | 1 picture | | finding 1 |
| `recovery_timeout` | 5 candidates, 2 timeouts, fairness | 17 516 | one OTAR sender, commits follow installation, `KeyRotation` implemented; until an election times out, traffic is understood and the rotation completes |
| `recovery_faults` | 2 candidates, 1 fault of any kind | 1 289 774 | elections agree, OTARs keep them, keys are sent once |
| `recovery_hold` | ties, 4 candidates, 1 exhaustion, fairness | | finding 2 |
| `sdls_feedback` | 2 OTARs, 4 maintenance frames, 1 link failure or reboot, fairness | 72 296 | CLCWs are prompt, the acceptance is repeated, kept and arrives |
| `sdls_match` | 3 OTARs, 6 maintenance frames, 2 link failures or SYNCs | 191 820 | the sender matches the acceptance of its own OTAR only |
| `command` | 3 requests, a ring of 2, 1 command and 2 answers on their way, every fault, fairness | 674 360 | copies start nothing, new requests are no duplicates, refusals are final, `RequestService` implemented, the operator learns the fate of the latest request |
| `link` | 3 sequence numbers, window 2, 2 datagrams, `rx_queue` of 1, 2 faults, captures or commands, 3 first FARMs (clean, locked out, retransmitting), fairness | 477 619 | datagrams late on the network are no restart, a failed link has no ready peer, the link comes to rest synchronized |
| `link_capture` | 3 datagrams, `rx_queue` of 1, 1 capture, nothing else | | finding 3 |
| `display` | 2 Wi-Fi events, 1 display event, fairness | 268 500 | flags are true, idle states follow the peer, queued Wi-Fi events leave the protocol where the last one says, the protocol follows Wi-Fi |

Why the bounds suffice. Three slots are the firmware's, and every owner may hold
one at the same time: a shown picture, one being sent and one arriving. Two
pictures tell a torn object from a whole one; two parts are a header and pixels.
Control never looks at pictures, so the run with one picture covers the link and
the run with two keeps the link quiet (`PicturesOnly`); it also leaves out the
local SEND, which runs the same code as the remote one. In `Recovery` two
values let either board win and include the tie. Five candidates of a board (four
when all tie) cover its fields, its queue and its packets, so a new one is always
available; with two, the fault run cuts off behaviours that keep re-electing.
Faults are bounded by number, not by moment: they strike in every state.
In `SdlsFeedback` two reports make a CLCW that changes, three OTARs a latched
acceptance that is replaced twice, and two packets on the wire a candidate behind
another; the numbers of an FSR wrap at 256 as in the code, beyond the frames of a
run. `ClcwPrompt` is not checked with SYNC: clearing the policy forgets that the
frame before was an FSR, so an OTAR that arrives right then makes two in a row.
Nor is `AcceptanceRetained`: SYNC clears a latched acceptance with the policy,
though `demo_sdls_feedback.h:21` retains it until new-key traffic, and it is
refused only on the board whose own OTAR is pending.
In `CommandExchange` a ring of two with three requests overwrites an entry
whose retention has not ended; two answers on their way let a status wait
behind a PDU and block the worker; faults are not counted, every one may happen
again and again. The requests are bounded between two starts of the requester
only. In `LinkControl` `MaxDelay < Confirm` is an assumption about the network
alone: the firmware confirms a divergence for 250 ms because datagrams are not that
late on their way; how long they then wait in `rx_queue` is open. With
`MaxDelay = 0` datagrams are lost and overtake each other within one step of
time, and the proof of `NoFalseRestart` covers every other choice, every length
of `rx_queue` included. One place in `rx_queue` holds a datagram over a capture and
drops the next. Two faults are a failure and what happens while it is being
repaired; three sequence numbers put V(S) behind, at and beyond V(R) and outside
the window. In `Display` the queue of Wi-Fi events is the firmware's: an
association and a disconnection wait behind one another in either order, and a
third is dropped. The display's queue of one place drops an event in every state
that a longer one does. `WifiFirst` keeps the two apart: a second Wi-Fi event
waits only while no display event does. It ends a behaviour where both would wait;
`FlagsTrue` and `NetworkTold` are proved for every length of both queues and without
that constraint.

Deadlock is checked where the system never stops: in the image, feedback, command,
link and display runs. A board that lost its peer or its election may wait for
ever in the recovery runs (finding 2 among them), so those configurations turn
the check off.

### Fairness

`ImageExchange`: the worker never stops and its loops are finite, since the
queues are bounded and filled at network speed: `WF(LoopStep \/ SendStep)`, one
condition for the one thread, which always has a next step. `SF(TxEnds("FAILED"))`
because the library's poll counts timeouts down as long as the loop comes round.
No fairness on SHOW, on link events or on the peer.

`Recovery`: COP-1 retransmits until a frame is acknowledged or the link fails,
the acceptance is repeated until it is confirmed, and handlers run when there is
a message: weak fairness. Steps that need a quiet link (election, OTAR, status)
are interrupted by status traffic now and then: strong fairness. No fairness on
faults, timeouts, or frames rejected for their keys.

`SdlsFeedback`: a frame goes out at least every feedback interval
(`WF(Transmit)`); of the frames that carry the acceptance, sent again and again,
not all are lost (strong fairness); COP-1 delivers what is on the wire.

`CommandExchange`: what COP-1 delivers is handled, and a capture ends, well or
not: weak fairness. `SF(RequestArrives)`, because a submission holds the worker
until there is room, and so no PDU takes the room that an answer waits for. No
fairness on the deadline: `FateLearned` holds without it.

`LinkControl`: the peer sends feedback periodically and statuses among it, not
all of which are lost (`SF(Feedback(TRUE))`, `SF(StatusArrives)`); frames are
retransmitted while the FARM may take them (`WF(Delivers)`). The worker never stops:
a capture ends, what waited in `rx_queue` and the router queue is handled
(`WF(Works)`), and the tick runs (`WF(Tick)`). Retries are exhausted for certain
only when nothing the peer can send will acknowledge what is outstanding (`Stuck`,
`WF(GivesUp)`); every other exhaustion is a fault, and bounded.

`Display`: the worker's loop takes network events and publishes the snapshot
whenever no operation holds it, which ends (`WF(SendSteps)`); the main loop
handles events and ticks; `SF(Refresh)`, since events interrupt it. No fairness
on Wi-Fi, the peer, transfers or keys.

## Findings

1. *A stale receiver event takes the next reception's slot.* Events are consumed
   after the router; `demo_image_receiver_terminal` drops whatever is staging
   then. The comment at `demo_service.c:853` says that the event "owns
   application cleanup". The consequence is a second transfer that fails, not a
   wrong picture: `CompleteIsPromoted` and `LatestComplete` hold.
2. *Keys installed and never confirmed.* A retry exhaustion between the OTAR and
   its FSR keeps the election alive; the returning link then sets
   `recovery_transport_returned`, which only a new election clears. Neither
   board ever speaks under the new keys. The trace loses acknowledgements only,
   and is a counterexample under `FairSpec`.
3. *Two late datagrams around a capture are a restart.* Confirmation compares the
   times at which datagrams are *handled*. One with an obsolete report is handled
   just before a capture and opens a divergence; another with the same report comes
   a moment later, waits in `rx_queue` for the 500 ms and more that the capture takes,
   and is handled first after it. The divergence is now older than 250 ms, and the
   board gives up a link that is in step with a peer that never restarted: it sets
   its FOP anew and aborts every transaction, the one it captured for included.
   The unit test says that "a burst of duplicated stale feedback must not
   resynchronize" (`tests/src/test_demo_protocol.c:158`), and
   `demo_protocol.h:194` that stale datagrams are ignored. `NoFalseRestart` says
   that this is the only way: without a capture in between it does not happen.

### Observations

Behaviour met while modelling that no run states: the models contain it, and the
properties that hold are worded around it.

* *Two OTAR senders.* When one board's retries are exhausted after the other has
  decided on its candidate, it forgets its election, meets the other's candidate
  anew and may win too, though README.md:234 promises one sender.
  `SoleOtarSender` is therefore checked and proved without link failures.
* *Flags cleared after an OTAR.* `start_recovery_election` clears the cutover flags
  after its submission (line 1341), which may have drained the peer's OTAR. With
  elections that only time out no OTAR comes then; after a link failure one may,
  and the board has cut over without knowing it.
* *A loser that waits for ever.* A timed-out election ignores a late candidate;
  the peer decides on it, loses, and has no timeout for the OTAR.
* *An old acceptance matches a new OTAR.* A sender that reboots after its OTAR was
  accepted and before it spoke under the new keys starts its ARSN at zero again;
  the peer still repeats the old acceptance. The next OTAR takes the same number
  and is matched before it arrives. `MatchMeansAccepted` assumes no reboot.
* *Copies that outlive the ring.* A copy that comes after more newer requests than
  the ring holds, or after the responder has restarted, is executed.
* *Identifiers start over.* After a restart of the requester its first requests
  may be answered DUPLICATE for up to 60 s, and a TIMED_OUT for a request of its
  earlier life names a new one (`restarted`).
* *A capture that fails after ACCEPTED* is not told to the requester, and an
  answer whose submission is refused is lost (`lost`); the requester then has
  only its deadline, which a PDU of any other transfer cancels.
* *A dropped network event* leaves `protocol_ready` as it was until the next
  event, and an initialization that failed is not tried again while associated.
* *The display without network.* Datagrams are handled and a peer may become
  ready while the network is down, but the snapshot is not published then: the
  main screen may show READY for a whole outage.
* *A reception that is refused* was shown before, and no event ends it; a CFDP
  status of 2 in FAILED is read as a direction. `smooth` excludes both.

## Proofs

`ImageExchangeProofs`, for every number of slots and parts and every set of
pictures (assumptions: at least 3 slots, at least 2 parts, `Zero` is no picture):

* `TypeCorrect`: `TypeOK` is invariant.
* `SlotsAccounted`: `OwnersAccounted` is. It is not inductive alone: whether a
  flag belongs to `staging` or `tx_slot` depends on where the worker is, and
  whether a binding can be refused on the header of what is promoted. The
  inductive invariant `AccountingInvariant` adds `SlotsFollowWorker`, which ties
  both to `pc`. One lemma per action.
* `CapturePublishes`: `PublishReady`, from the same invariant.

`ImageTransferProofs`, on top of that invariant and under the same assumptions:

* `EventsMeetTheirOperation`: `TerminalOwnsOperation`. `OperationInvariant` says in
  which phases an operation, its transaction and its event coexist. The hard case
  is a peer restart inside `send_file`, which then refuses: the event outlives its
  operation, and no new one can claim before the event is taken, because the hold
  that the restart set lasts until the router has run.
* `CompletePromoted`: `CompleteIsPromoted`. `ReceptionInvariant`: an event and a
  reception coexist only in the pass that opened the reception or while the copy
  of the event is processed, and a COMPLETE event finds none.
* `SharedStable`: `SharedObjectsStable`, from the accounts alone: every write goes
  to a staging slot or a free one.
* `LatestWhole` and `CapturedIsSent`: `LatestComplete` and `SentIsCaptured`, from
  `PictureInvariant` (which parts of which picture a slot being filled holds) and
  `CaptureInvariant`.
* `PromiseKept`: the refinement `KeepsPromise`. Every step maps to a step of
  `LatestImage` or to a stutter: publishing to `Capture`, the promotion in
  `RxEvent` to `Receive`, `ReleaseTransmission` to `SendEnds`, SHOW and its end to
  `Show` and `Leave`. `SharedComplete`, added to the invariant, says that
  whatever somebody may look at is a whole picture.

`RecoveryProofs`, for every set of values, every bound and every set of faults:

* `TypeCorrect`: `TypeOK`, in which no OTAR ever waits in the router queue.
* `ElectionsAgree`: `ElectionAgrees`. The inductive invariant
  `ElectionInvariant` adds that every candidate carries the number of the board
  that drew it (`CandidatesNamed`), wherever it is; that a decided election is
  decided by `Wins` (`ElectionsLawful`), which then gives agreement by the
  antisymmetry of `Wins`; and that no OTAR is pending during an announcement
  (`OtarProtected`), which
* `OtarKeepsItsElection` needs: no step ends or restarts an election while its
  OTAR is pending.
* `KeysAreSentOnce`: `KeysSentOnce`. `KeysFresh`, inductive with the above: until a
  board has cut over, the keys it uses are not those of its open election, because
  those are drawn with a new candidate and an accepted OTAR carries the peer's.

`RotationProofs`, on top of that, for every set of values, every number of late
answers and elections that time out at any moment:

* `OneOtarSender` (`SoleOtarSender`), `CommitsFollowInstall` (`CommitFollowsInstall`)
  and `KeyPromiseKept`, the refinement `KeepsKeyPromise`, all three assuming
  `Faults \subseteq {"timeout"}`. The assumption is tight: TLC violates
  `SoleOtarSender` with any other single kind of fault, if two of them may strike
  (see the observations), and `CommitFollowsInstall` with one reboot.
* `TrafficIsUnderstood` (`TrafficUnderstood`), for every set of faults, since it
  speaks of the time before the first one.

All rest on `CalmInvariant`, which holds while nothing but late answers has
happened (`CalmHolds`). Then a board draws one candidate for ever
(`OneCandidate`), so what is said, heard and decided is about the elections both
boards are in, and both cannot win (`OneWinner`, by the argument of
`ElectionsAgree`). `QueueShape` says that an OTAR or a candidate is the last
packet on its way, because all but a candidate wait for a quiet link.
`RotationStage` is the course of the rotation: nobody has sent an OTAR, or the
winner's is `Offered`, `Taken` or `Committed`, with what both boards then have for
keys, cutover, confirmation and acceptance. One lemma per step from stage to
stage (`SubmitOpens`, `OtarIsTaken`, `FsrMeansTaken`, `CommitCloses`,
`ConfirmMeansCommitted`); the last needs `StatusKeys`, that a status on its way
was sent under the boot keys or the present ones, so none sent before the
winner's cutover can confirm it. Each of these steps is one of `KeyRotation`'s,
every other step a stutter. `PromptInvariant` adds, before the first timeout,
that a status under the boot keys is ahead of its sender's candidate, and one
under new keys was sent after both boards had cut over (`StatusPlaced`).

`SdlsFeedbackProofs`, for every number of reports, frames, OTARs and faults:

* `TypeCorrect`: `TypeOK`.
* `AcceptanceRepeated`: `AcceptanceInsistent`, under every fault. Inductive with
  the relation between the frames counted and the policy's FSR flag
  (`AcceptanceInvariant`).
* `ClcwsPrompt` and `AcceptanceKept`: `ClcwPrompt` and `AcceptanceRetained`,
  assuming no SYNC, which clears the policy.
* `MatchIsAcceptance`: `MatchMeansAccepted`, assuming that the sender does not
  reboot (see the observations) and that the numbers do not wrap (`MaxFrames <= LsbValues`).
  `MatchInvariant` says that every number in use was given out before, that a
  pending OTAR is alone on the wire, and that an FSR that names it comes after its
  keys.

`CommandExchangeProofs`, for every capacity, every number of requests and of
packets, and every set of faults:

* `TypeCorrect`: `TypeOK`.
* `NewNotDuplicate` and `VerdictsFinal`: `NewIsNotDuplicate` and `VerdictFinal`. Both
  follow from `SeenInvariant`: identifiers grow along the link, and whatever the
  responder has recorded, serves or has said is about smaller ones.
* `AnswersOnTheirWay`: `AnswerOnItsWay`, the safety half of `FateLearned`: until the
  operator was told, the latest request or its answer is on its way, unless a link or
  a board failed. No run lists it, since `FateLearned` fails with it.
* `CopiesNotExecuted`: `CopyNotExecuted`, from `CopyInvariant`: the request of a
  copy lies as far behind the next free place of the ring as new requests have
  come since (`late.behind`), which is less than the ring holds.
* `ServicePromiseKept`: the refinement `KeepsServicePromise`, under every fault.
  A new request is `Ask`; its arrival is `Serve` when it is accepted and `Settle`
  when it is refused; a failure of the link settles what it drops; the end of an
  operation and a restart of the responder are `Finish`, a restart of the
  requester `StartOver`. Both earlier invariants are needed: new requests arrive
  beyond all settled ones because identifiers grow along the link (`Growing`), and
  copies stutter because the ring still knows them (`CopyIsDuplicate`).

`LinkControlProofs`, for every confirmation time, delay, window and set of faults:

* `TypeCorrect`: `TypeOK`. `FailedLinksNotReady`: `FailedNotReady`.
* `NoFalseRestarts`: `NoFalseRestart`, from `MaxDelay < Confirm`, for every length of
  `rx_queue` and captures of any length. The invariant (`OnlyLate`) says that while a
  divergence from a link in step is open and no capture has held the worker since,
  the FARM no longer sends its report, and every datagram that carries it, on the
  network or in `rx_queue`, is at least as old as the divergence. `HeldKnown` says that
  a divergence that is open during a capture is marked.

`DisplayProofs`, for every length of the queues:

* `TypeCorrect`: `TypeOK`.
* `FlagsAreTrue`: `FlagsTrue`. It says nothing while events wait; the inductive
  invariant adds `Promised`: while no event was dropped, the last event in the
  queue that sets a flag sets it to what it then has to be, and without such an
  event the flag has that value now.
* `NetworkIsTold`: `NetworkTold`. The inductive invariant adds `Heard`: a protocol that
  runs was set up for an association that was handled.

Every safety and action property of a passing run is stated by a theorem. Only
model-checked: all liveness (`OperationEnds`, `RotationCompletes`, `AcceptanceArrives`, `FateLearned`,
`Converges`, `FollowsPeer`, `NetworkFollowed`), which the prover does not reach.

## Plan

Done: all modules above with their runs and proofs. Left, in order of value:

1. `Recovery` with `SdlsFeedback` in two directions, and an OTAR that cannot be
   processed, once the library's answer to it is known.
2. An abstract specification of link supervision (a peer is ready only while the
   link is up) that `LinkControl` implements, for the modules that assume it.

## Not modelled

The length of `router_queue`: a packet that does not fit makes the peer wait. The
datagram counters (`rx_queue_used`, peak, drops), which decide nothing but whether
an operator's command is refused as busy. The wrap of 32-bit counters. The image and link views beyond what
they hold of an image. The camera's DMA driver, LVGL drawing, the byte layouts of
messages, SDLS cryptography and key import, and the build: straight-line code,
hardware, or covered by the unit tests.
