------------------------------- MODULE Recovery -------------------------------
(***************************************************************************)
(* Automatic recovery of the secured link between the two boards           *)
(* (CONFIG_EYE_DEMO_LINK_SDLS): after startup, a lost link or a restart,   *)
(* the boards exchange random candidates, the smaller one sends an OTAR    *)
(* with fresh operational keys, its acceptance comes back in an FSR, and   *)
(* authenticated traffic under the new keys confirms the rotation.         *)
(* src/demo_protocol.c holds the decisions, src/demo_service.c the steps.  *)
(*                                                                         *)
(* Each board's worker drains datagrams (Ingress), then router messages,   *)
(* then runs its tick; a tick step therefore finds the inbox empty.  The   *)
(* submission of a candidate may block, and datagrams are drained while it *)
(* does (announcing).  The COP-1 library is external: it delivers packets  *)
(* in order and once while the sender is in step with the receiver's FARM, *)
(* and drops what was not yet delivered when it is set from a CLCW anew.   *)
(***************************************************************************)
EXTENDS Naturals, Sequences

CONSTANTS Values,         \* candidate values, compared as numbers
          MaxCandidates,  \* bound: candidates of a board in use at a time
          MaxFaults,      \* bound: faults in a behaviour
          Faults          \* the kinds of fault that may happen

ASSUME ValuesAssumption == Values \subseteq Nat /\ Values # {}
ASSUME MaxCandidatesAssumption == MaxCandidates \in Nat \ {0}
ASSUME MaxFaultsAssumption == MaxFaults \in Nat
ASSUME FaultsAssumption ==
  Faults \subseteq {"exhausted", "lockout", "dirty", "reboot", "timeout"}

Boards   == {1, 2}        \* the spacecraft identifiers, which break ties
Other(n) == 3 - n

VARIABLES
  link,        \* link_sync_phase: CLCW and UNLOCK are both "SYNCING"
  firstLink,   \* initial_link_acquisition
  peerReady,   \* peer_ready
  returned,    \* recovery_transport_returned
  election,    \* recovery_election; result "NONE" when it is not active
  announcing,  \* the election whose candidate is being submitted
  pending,     \* recovery_otar_pending and the keys retained for it
  matched,     \* recovery_otar_fsr_matched
  cutover,     \* recovery_otar_cutover
  confirmed,   \* recovery_otar_confirmed
  keys,        \* the operational keys in use
  accepted,    \* the OTAR whose acceptance FSR the board repeats
  inbox,       \* router_queue
  out,         \* COP-1: packets submitted and not yet delivered to the peer
  unacked,     \* COP-1: outstanding frames or queued packets
  inStep,      \* COP-1: V(S) fits the peer's FARM
  faults       \* faults so far

cop      == <<out, unacked, inStep>>
rotation == <<pending, matched, cutover, confirmed, keys, accepted>>
phase    == <<link, firstLink, peerReady, returned>>
vars == <<link, firstLink, peerReady, returned, election, announcing, pending,
          matched, cutover, confirmed, keys, accepted, inbox, out, unacked,
          inStep, faults>>

(* A candidate is known by its board and attempt; its 128-bit value was    *)
(* drawn at random, so a new one differs from every one still in use.  The *)
(* keys an OTAR carries are known by the candidate that won.               *)
Candidates == [board : Boards, attempt : 1..MaxCandidates, value : Values]
NoCandidate == [board |-> 0, attempt |-> 0, value |-> 0]
BootKeys    == NoCandidate
Keys        == Candidates \cup {BootKeys}
NoOtar      == NoCandidate

(* An OTAR is processed as it arrives; the others wait in router_queue.    *)
RouterMessage == [type : {"CANDIDATE", "STATUS"}, body : Keys]
Message == RouterMessage \cup [type : {"OTAR"}, body : Keys]

Idle == [result |-> "NONE", mine |-> NoCandidate, theirs |-> NoCandidate]

NotAnnouncing == [for |-> "nobody", mine |-> NoCandidate, theirs |-> NoCandidate]

(* The worker's fields have their C types, an election that is inactive is *)
(* Idle, and an OTAR never waits in the router queue                       *)
(* (recovery_otar_router_handler).                                         *)
TypeOK ==
  /\ link \in [Boards -> {"SYNCING", "READY", "FAILED"}]
  /\ firstLink \in [Boards -> BOOLEAN]
  /\ peerReady \in [Boards -> BOOLEAN]
  /\ returned \in [Boards -> BOOLEAN]
  /\ election \in [Boards ->
       [result : {"NONE", "WAITING", "WON", "LOST", "TIMED_OUT"},
        mine : Candidates \cup {NoCandidate},
        theirs : Candidates \cup {NoCandidate}]]
  /\ announcing \in [Boards ->
       [for : {"nobody", "own", "peer"}, mine : Candidates \cup {NoCandidate},
        theirs : Candidates \cup {NoCandidate}]]
  /\ pending \in [Boards -> Candidates \cup {NoOtar}]
  /\ matched \in [Boards -> BOOLEAN]
  /\ cutover \in [Boards -> BOOLEAN]
  /\ confirmed \in [Boards -> BOOLEAN]
  /\ keys \in [Boards -> Keys]
  /\ accepted \in [Boards -> Candidates \cup {NoOtar}]
  /\ inbox \in [Boards -> Seq(RouterMessage)]
  /\ out \in [Boards -> Seq(Message)]
  /\ unacked \in [Boards -> BOOLEAN]
  /\ inStep \in [Boards -> BOOLEAN]
  /\ faults \in 0..MaxFaults

Init ==
  /\ link = [n \in Boards |-> "SYNCING"]
  /\ firstLink = [n \in Boards |-> TRUE]
  /\ peerReady = [n \in Boards |-> FALSE]
  /\ returned = [n \in Boards |-> FALSE]
  /\ election = [n \in Boards |-> Idle]
  /\ announcing = [n \in Boards |-> NotAnnouncing]
  /\ pending = [n \in Boards |-> NoOtar]
  /\ matched = [n \in Boards |-> FALSE]
  /\ cutover = [n \in Boards |-> FALSE]
  /\ confirmed = [n \in Boards |-> FALSE]
  /\ keys = [n \in Boards |-> BootKeys]
  /\ accepted = [n \in Boards |-> NoOtar]
  /\ inbox = [n \in Boards |-> <<>>]
  /\ out = [n \in Boards |-> <<>>]
  /\ unacked = [n \in Boards |-> FALSE]
  /\ inStep = [n \in Boards |-> TRUE]
  /\ faults = 0

-----------------------------------------------------------------------------
(* The decisions of src/demo_protocol.c.                                   *)

(* demo_recovery_application_tx_allowed; cop is the election's result.     *)
ApplicationTxAllowed(n) ==
  /\ ~returned[n]
  /\ election[n].result \in {"NONE", "TIMED_OUT"} \/ confirmed[n]

(* Mutants: a loser speaks under the new keys as soon as it has them; the  *)
(* winner does not speak until it is spoken to.                            *)
StatusTxAllowedOnceRekeyed(n) ==
  /\ ~returned[n]
  /\ ApplicationTxAllowed(n) \/ cutover[n]
StatusTxAllowedOnceConfirmed(n) == ~returned[n] /\ ApplicationTxAllowed(n)

(* demo_recovery_status_tx_allowed *)
StatusTxAllowed(n) ==
  /\ ~returned[n]
  /\ \/ ApplicationTxAllowed(n)
     \/ cutover[n] /\ election[n].result = "WON"

(* Mutant: nothing breaks a tie.                                           *)
WinsTie(mine, theirs) == mine.value <= theirs.value

(* The smaller value wins; the smaller spacecraft breaks a tie.            *)
Wins(mine, theirs) ==
  \/ mine.value < theirs.value
  \/ mine.value = theirs.value /\ mine.board < theirs.board

(* demo_recovery_election_receive, on an election that is waiting and has  *)
(* not heard the peer; it changes nothing otherwise.                       *)
Decided(e, c) ==
  IF e.result = "WAITING" /\ e.theirs = NoCandidate
  THEN [e EXCEPT !.theirs = c,
                 !.result = IF Wins(e.mine, c) THEN "WON" ELSE "LOST"]
  ELSE e

-----------------------------------------------------------------------------
(* COP-1, as src/ uses it.                                                 *)

Submit(n, m) ==
  /\ out' = [out EXCEPT ![n] = Append(@, m)]
  /\ unacked' = [unacked EXCEPT ![n] = TRUE]
  /\ UNCHANGED inStep

(* ccsds_uslp_peer_recover_from_clcw, and the loss of what was queued.     *)
Resynchronize(n) ==
  /\ out' = [out EXCEPT ![n] = <<>>]
  /\ unacked' = [unacked EXCEPT ![n] = FALSE]
  /\ inStep' = [inStep EXCEPT ![n] = TRUE]

Quiet(n) == ~unacked[n]

(* The peer's CLCW acknowledges what it has received.                      *)
Acknowledge(n) ==
  /\ unacked[n] /\ inStep[n] /\ out[n] = <<>>
  /\ unacked' = [unacked EXCEPT ![n] = FALSE]
  /\ UNCHANGED <<out, inStep, phase, election, announcing, rotation, inbox,
                 faults>>

Blocked(n) == announcing[n] # NotAnnouncing

(* The loop's tick runs after the router queue has been drained.           *)
Ticking(n) == ~Blocked(n) /\ inbox[n] = <<>>

-----------------------------------------------------------------------------
(* Ingress: what a frame does when it arrives, in the loop or in the pump. *)

Arriving(n, type) ==
  LET o == Other(n) IN
  /\ inStep[o] /\ out[o] # <<>>
  /\ Head(out[o]).type = type
  /\ out' = [out EXCEPT ![o] = Tail(@)]
  /\ UNCHANGED <<unacked, inStep>>

(* Mutant: the handler queues what its OTAR neighbour should have handled. *)
CandidateArrivesOfAnyKind(n) ==
  /\ Arriving(n, "CANDIDATE") \/ Arriving(n, "OTAR")
  /\ inbox' = [inbox EXCEPT ![n] = Append(@, Head(out[Other(n)]))]
  /\ UNCHANGED <<phase, election, announcing, rotation, faults>>

(* recovery_candidate_router_handler *)
CandidateArrives(n) ==
  /\ Arriving(n, "CANDIDATE")
  /\ inbox' = [inbox EXCEPT ![n] = Append(@, Head(out[Other(n)]))]
  /\ UNCHANGED <<phase, election, announcing, rotation, faults>>

(* recovery_otar_router_handler installs the keys at once, whatever the    *)
(* state of the election.                                                  *)
OtarArrives(n) ==
  /\ Arriving(n, "OTAR")
  /\ LET k == Head(out[Other(n)]).body IN
       /\ keys' = [keys EXCEPT ![n] = k]
       /\ accepted' = [accepted EXCEPT ![n] = k]
  /\ cutover' = [cutover EXCEPT ![n] = TRUE]
  /\ confirmed' = [confirmed EXCEPT ![n] = FALSE]
  /\ UNCHANGED <<phase, election, announcing, pending, matched, inbox,
                 faults>>

(* Mutant: traffic confirms a rotation before there is a cutover.          *)
StatusArrivesConfirmsAnyway(n) ==
  /\ Arriving(n, "STATUS")
  /\ \A i \in 1..Len(inbox[n]) : inbox[n][i].type # "STATUS"
  /\ Head(out[Other(n)]).body = keys[n]
  /\ inbox' = [inbox EXCEPT ![n] = Append(@, Head(out[Other(n)]))]
  /\ confirmed' = [confirmed EXCEPT ![n] = TRUE]
  /\ accepted' = [accepted EXCEPT ![n] = IF confirmed[n] THEN @ ELSE NoOtar]
  /\ UNCHANGED <<phase, election, announcing, pending, matched, cutover, keys,
                 faults>>

(* Operational traffic is authenticated under the keys in use.  The first  *)
(* frame after a cutover confirms it (security_receive_committed).  A      *)
(* status is sent every 2 s and the router runs every 2 ms, so there is    *)
(* never more than one in its queue.                                       *)
StatusArrives(n) ==
  /\ Arriving(n, "STATUS")
  /\ \A i \in 1..Len(inbox[n]) : inbox[n][i].type # "STATUS"
  /\ Head(out[Other(n)]).body = keys[n]
  /\ inbox' = [inbox EXCEPT ![n] = Append(@, Head(out[Other(n)]))]
  /\ confirmed' = [confirmed EXCEPT ![n] = @ \/ cutover[n]]
  /\ accepted' = [accepted EXCEPT ![n] =
                    IF cutover[n] /\ ~confirmed[n] THEN NoOtar ELSE @]
  /\ UNCHANGED <<phase, election, announcing, pending, matched, cutover, keys,
                 faults>>

(* A frame under other keys fails authentication and is dropped.           *)
StatusRejected(n) ==
  /\ Arriving(n, "STATUS")
  /\ Head(out[Other(n)]).body # keys[n]
  /\ UNCHANGED <<phase, election, announcing, rotation, inbox, faults>>

(* security_receive_fsr *)
FsrArrives(n) ==
  /\ pending[n] # NoOtar /\ ~matched[n]
  /\ accepted[Other(n)] = pending[n]
  /\ matched' = [matched EXCEPT ![n] = TRUE]
  /\ UNCHANGED <<phase, election, announcing, pending, cutover, confirmed, keys,
                 accepted, inbox, cop, faults>>

(* recover_from_restart_clcw: the CLCW no longer fits, or is dirty while   *)
(* the peer is not ready.                                                  *)
RestartDetected(n) ==
  /\ \/ ~inStep[n]
     \/ /\ "dirty" \in Faults /\ faults < MaxFaults
        /\ ~peerReady[n] /\ link[n] # "SYNCING"
  /\ faults' = IF inStep[n] THEN faults + 1 ELSE faults
  /\ Resynchronize(n)
  /\ peerReady' = [peerReady EXCEPT ![n] = FALSE]
  /\ election' = IF pending[n] = NoOtar THEN [election EXCEPT ![n] = Idle]
                                        ELSE election
  /\ returned' = [returned EXCEPT ![n] = TRUE]
  /\ \E p \in {"SYNCING", "READY"} : link' = [link EXCEPT ![n] = p]
  /\ UNCHANGED <<firstLink, announcing, rotation, inbox>>

-----------------------------------------------------------------------------
(* Elections.                                                              *)

(* Every candidate that a board, a queue or a key still refers to.         *)
InUse ==
  UNION {{election[n].mine, election[n].theirs, announcing[n].mine,
          announcing[n].theirs, pending[n], keys[n], accepted[n]}
         \cup {out[n][i].body : i \in 1..Len(out[n])}
         \cup {inbox[n][i].body : i \in 1..Len(inbox[n])} : n \in Boards}

(* start_recovery_election up to the submission of the candidate; theirs   *)
(* is the peer's candidate it answers, if it answers one.                  *)
Announce(n, for, theirs) ==
  /\ pending[n] = NoOtar
  /\ \E a \in 1..MaxCandidates, v \in Values :
       LET mine == [board |-> n, attempt |-> a, value |-> v] IN
       /\ \A c \in InUse : c.board = n => c.attempt # a
       /\ \A b \in 1..(a - 1) : \E c \in InUse : c.board = n /\ c.attempt = b
       /\ election' = [election EXCEPT ![n] =
            [result |-> "WAITING", mine |-> mine, theirs |-> NoCandidate]]
       /\ announcing' = [announcing EXCEPT ![n] =
            [for |-> for, mine |-> mine, theirs |-> theirs]]

(* ... and after it.  A submission on a failed link gives the election up. *)
(* Only an election the board started itself lifts the hold.               *)
Announced(n) ==
  LET a == announcing[n] IN
  /\ Blocked(n)
  /\ announcing' = [announcing EXCEPT ![n] = NotAnnouncing]
  /\ IF link[n] = "FAILED"
     THEN /\ election' = [election EXCEPT ![n] = Idle]
          /\ UNCHANGED <<cop, matched, cutover, confirmed, returned>>
     ELSE /\ Submit(n, [type |-> "CANDIDATE", body |-> a.mine])
          /\ matched' = [matched EXCEPT ![n] = FALSE]
          /\ cutover' = [cutover EXCEPT ![n] = FALSE]
          /\ confirmed' = [confirmed EXCEPT ![n] = FALSE]
          /\ returned' = [returned EXCEPT ![n] = @ /\ a.for # "own"]
          /\ election' = IF a.for = "peer"
                         THEN [election EXCEPT ![n] = Decided(@, a.theirs)]
                         ELSE election
  /\ UNCHANGED <<link, firstLink, peerReady, pending, keys, accepted, inbox,
                 faults>>

(* process_peer_status *)
HandleStatus(n) ==
  /\ ~Blocked(n) /\ inbox[n] # <<>>
  /\ Head(inbox[n]).type = "STATUS"
  /\ inbox' = [inbox EXCEPT ![n] = Tail(@)]
  /\ peerReady' = [peerReady EXCEPT ![n] = @ \/ link[n] # "FAILED"]
  /\ firstLink' = [firstLink EXCEPT ![n] = @ /\ link[n] = "FAILED"]
  /\ UNCHANGED <<link, returned, election, announcing, rotation, cop, faults>>

(* accept_recovery_candidate: a board that is not in an election answers   *)
(* with one of its own; one that has already heard another candidate       *)
(* starts over, unless its peer is ready or its OTAR is pending.           *)
HandleCandidate(n) ==
  LET e == election[n]
      c == Head(inbox[n]).body
      answered == \/ e.result = "NONE"
                  \/ e.theirs \notin {NoCandidate, c} /\ ~peerReady[n]
  IN
  /\ ~Blocked(n) /\ inbox[n] # <<>>
  /\ Head(inbox[n]).type = "CANDIDATE"
  /\ inbox' = [inbox EXCEPT ![n] = Tail(@)]
  /\ IF answered /\ pending[n] = NoOtar
     THEN Announce(n, "peer", c)
     ELSE /\ election' = [election EXCEPT ![n] = Decided(@, c)]
          /\ UNCHANGED announcing
  /\ UNCHANGED <<phase, rotation, cop, faults>>

(* service_sdls_recovery on a quiet link *)
StartElection(n) ==
  /\ Ticking(n)
  /\ link[n] = "READY"
  /\ peerReady[n] \/ returned[n]
  /\ election[n].result = "NONE"
  /\ Quiet(n)
  /\ Announce(n, "own", NoCandidate)
  /\ UNCHANGED <<phase, rotation, inbox, cop, faults>>

ElectionTimeout(n) ==
  /\ "timeout" \in Faults /\ faults < MaxFaults
  /\ Ticking(n)
  /\ election[n].result = "WAITING"
  /\ election' = [election EXCEPT ![n].result = "TIMED_OUT"]
  /\ faults' = faults + 1
  /\ UNCHANGED <<phase, announcing, rotation, inbox, cop>>

-----------------------------------------------------------------------------
(* Key rotation.                                                           *)

(* Mutant: the won election submits its OTAR again after the cutover.      *)
SubmitOtarAgain(n) ==
  /\ Ticking(n)
  /\ election[n].result = "WON"
  /\ pending[n] = NoOtar
  /\ Quiet(n) /\ link[n] # "FAILED"
  /\ Submit(n, [type |-> "OTAR", body |-> election[n].mine])
  /\ pending' = [pending EXCEPT ![n] = election[n].mine]
  /\ UNCHANGED <<phase, election, announcing, matched, cutover, confirmed, keys,
                 accepted, inbox, faults>>

(* service_sdls_recovery: the winner of a quiet link sends one OTAR.       *)
SubmitOtar(n) ==
  /\ Ticking(n)
  /\ election[n].result = "WON"
  /\ pending[n] = NoOtar /\ ~cutover[n]
  /\ Quiet(n) /\ link[n] # "FAILED"
  /\ Submit(n, [type |-> "OTAR", body |-> election[n].mine])
  /\ pending' = [pending EXCEPT ![n] = election[n].mine]
  /\ UNCHANGED <<phase, election, announcing, matched, cutover, confirmed, keys,
                 accepted, inbox, faults>>

(* Mutant: the keys are committed without waiting for the FSR.             *)
CommitKeysUnmatched(n) ==
  /\ Ticking(n)
  /\ pending[n] # NoOtar
  /\ keys' = [keys EXCEPT ![n] = pending[n]]
  /\ pending' = [pending EXCEPT ![n] = NoOtar]
  /\ matched' = [matched EXCEPT ![n] = FALSE]
  /\ cutover' = [cutover EXCEPT ![n] = TRUE]
  /\ confirmed' = [confirmed EXCEPT ![n] = FALSE]
  /\ UNCHANGED <<phase, election, announcing, accepted, inbox, cop, faults>>

(* service_sdls_recovery: the matching FSR has arrived.                    *)
CommitKeys(n) ==
  /\ Ticking(n)
  /\ pending[n] # NoOtar /\ matched[n]
  /\ keys' = [keys EXCEPT ![n] = pending[n]]
  /\ pending' = [pending EXCEPT ![n] = NoOtar]
  /\ matched' = [matched EXCEPT ![n] = FALSE]
  /\ cutover' = [cutover EXCEPT ![n] = TRUE]
  /\ confirmed' = [confirmed EXCEPT ![n] = FALSE]
  /\ UNCHANGED <<phase, election, announcing, accepted, inbox, cop, faults>>

(* send_peer_status, every STATUS_INTERVAL_MS                              *)
SendStatus(n) ==
  /\ Ticking(n)
  /\ link[n] = "READY"
  /\ StatusTxAllowed(n) /\ Quiet(n)
  /\ Submit(n, [type |-> "STATUS", body |-> keys[n]])
  /\ UNCHANGED <<phase, election, announcing, rotation, inbox, faults>>

-----------------------------------------------------------------------------
(* The link (advance_link_sync).                                           *)

LinkSynchronized(n) ==
  /\ Ticking(n)
  /\ link[n] = "SYNCING"
  /\ link' = [link EXCEPT ![n] = "READY"]
  /\ UNCHANGED <<firstLink, peerReady, returned, election, announcing, rotation,
                 inbox, cop, faults>>

(* Mutant: the failure ends the election of an OTAR that is still pending. *)
LinkExhaustedEndsElection(n) ==
  /\ Ticking(n)
  /\ link[n] # "FAILED" /\ unacked[n]
  /\ "exhausted" \in Faults /\ faults < MaxFaults
  /\ faults' = faults + 1
  /\ link' = [link EXCEPT ![n] = "FAILED"]
  /\ peerReady' = [peerReady EXCEPT ![n] = FALSE]
  /\ election' = [election EXCEPT ![n] = Idle]
  /\ out' = [out EXCEPT ![n] = <<>>]
  /\ unacked' = [unacked EXCEPT ![n] = FALSE]
  /\ UNCHANGED <<firstLink, returned, announcing, rotation, inbox, inStep>>

(* Retries are exhausted: what was not delivered is lost.                  *)
LinkExhausted(n) ==
  /\ Ticking(n)
  /\ link[n] # "FAILED" /\ unacked[n]
  /\ "exhausted" \in Faults /\ faults < MaxFaults
  /\ faults' = faults + 1
  /\ link' = [link EXCEPT ![n] = "FAILED"]
  /\ peerReady' = [peerReady EXCEPT ![n] = FALSE]
  /\ election' = IF pending[n] = NoOtar THEN [election EXCEPT ![n] = Idle]
                                        ELSE election
  /\ out' = [out EXCEPT ![n] = <<>>]
  /\ unacked' = [unacked EXCEPT ![n] = FALSE]
  /\ UNCHANGED <<firstLink, returned, announcing, rotation, inbox, inStep>>

(* The peer's FARM locks out a board that has been ready.  (While the peer *)
(* is not ready the lockout is dirty feedback: RestartDetected.)           *)
LinkLockedOut(n) ==
  /\ Ticking(n)
  /\ link[n] = "READY" /\ peerReady[n] /\ unacked[n]
  /\ "lockout" \in Faults /\ faults < MaxFaults
  /\ faults' = faults + 1
  /\ link' = [link EXCEPT ![n] = "FAILED"]
  /\ peerReady' = [peerReady EXCEPT ![n] = FALSE]
  /\ inStep' = [inStep EXCEPT ![n] = FALSE]
  /\ UNCHANGED <<firstLink, returned, election, announcing, rotation, inbox, out,
                 unacked>>

(* The first clean CLCW after a failure.                                   *)
LinkReturns(n) ==
  /\ Ticking(n)
  /\ link[n] = "FAILED" /\ inStep[n]
  /\ Resynchronize(n)
  /\ returned' = [returned EXCEPT ![n] = TRUE]
  /\ link' = [link EXCEPT ![n] = "READY"]
  /\ UNCHANGED <<firstLink, peerReady, election, announcing, rotation, inbox,
                 faults>>

(* No valid traffic for PEER_TIMEOUT_MS: the peer may not send any, or     *)
(* speaks under keys this board does not use.                              *)
PeerTimeout(n) ==
  /\ Ticking(n) /\ peerReady[n]
  /\ \/ link[Other(n)] # "READY" \/ ~StatusTxAllowed(Other(n)) \/ ~inStep[Other(n)]
     \/ keys[Other(n)] # keys[n]
  /\ peerReady' = [peerReady EXCEPT ![n] = FALSE]
  /\ UNCHANGED <<link, firstLink, returned, election, announcing, rotation, inbox,
                 cop, faults>>

(* A board restarts: all its state is volatile, and the peer's frames no   *)
(* longer fit its FARM.                                                    *)
Reboot(n) ==
  /\ "reboot" \in Faults /\ faults < MaxFaults
  /\ faults' = faults + 1
  /\ link' = [link EXCEPT ![n] = "SYNCING"]
  /\ firstLink' = [firstLink EXCEPT ![n] = TRUE]
  /\ peerReady' = [peerReady EXCEPT ![n] = FALSE]
  /\ returned' = [returned EXCEPT ![n] = FALSE]
  /\ election' = [election EXCEPT ![n] = Idle]
  /\ announcing' = [announcing EXCEPT ![n] = NotAnnouncing]
  /\ pending' = [pending EXCEPT ![n] = NoOtar]
  /\ matched' = [matched EXCEPT ![n] = FALSE]
  /\ cutover' = [cutover EXCEPT ![n] = FALSE]
  /\ confirmed' = [confirmed EXCEPT ![n] = FALSE]
  /\ keys' = [keys EXCEPT ![n] = BootKeys]
  /\ accepted' = [accepted EXCEPT ![n] = NoOtar]
  /\ inbox' = [inbox EXCEPT ![n] = <<>>]
  /\ out' = [out EXCEPT ![n] = <<>>]
  /\ unacked' = [unacked EXCEPT ![n] = FALSE]
  /\ inStep' = [m \in Boards |-> m = n]

-----------------------------------------------------------------------------
Ingress(n) == \/ CandidateArrives(n) \/ OtarArrives(n) \/ StatusArrives(n)
              \/ FsrArrives(n) \/ Acknowledge(n)

Router(n) == HandleStatus(n) \/ HandleCandidate(n)

Rotate(n) == SubmitOtar(n) \/ CommitKeys(n)

Fault(n) == \/ ElectionTimeout(n) \/ LinkExhausted(n) \/ LinkLockedOut(n)
            \/ Reboot(n)

Step(n) == \/ Ingress(n) \/ StatusRejected(n) \/ RestartDetected(n)
           \/ Router(n) \/ Announced(n) \/ StartElection(n) \/ Rotate(n)
           \/ SendStatus(n) \/ LinkSynchronized(n) \/ LinkReturns(n)
           \/ PeerTimeout(n) \/ Fault(n)

Next == \E n \in Boards : Step(n)

Spec == Init /\ [][Next]_vars

-----------------------------------------------------------------------------
(* Liveness.  The worker never stops; COP-1 retransmits until a frame is   *)
(* acknowledged or the link fails; the acceptance FSR is repeated until it *)
(* is confirmed.  A quiet link is found by a tick every 2 ms, though       *)
(* status traffic interrupts it now and then.                              *)
Fairness == \A n \in Boards :
  /\ WF_vars(CandidateArrives(n)) /\ WF_vars(OtarArrives(n))
  /\ WF_vars(StatusArrives(n)) /\ WF_vars(FsrArrives(n))
  /\ WF_vars(Acknowledge(n)) /\ WF_vars(~inStep[n] /\ RestartDetected(n))
  /\ WF_vars(Router(n)) /\ WF_vars(Announced(n))
  /\ SF_vars(StartElection(n)) /\ SF_vars(SubmitOtar(n))
  /\ WF_vars(CommitKeys(n)) /\ SF_vars(SendStatus(n))
  /\ SF_vars(LinkSynchronized(n)) /\ SF_vars(LinkReturns(n))

FairSpec == Spec /\ Fairness

-----------------------------------------------------------------------------
(* Properties.                                                             *)

(* Two elections that have heard each other's candidate have one winner    *)
(* and one loser (demo_recovery_election_receive).                         *)
ElectionAgrees ==
  \/ \E n \in Boards : election[n].theirs = NoCandidate
  \/ \E n \in Boards : election[n].theirs # election[Other(n)].mine
  \/ {election[n].result : n \in Boards} = {"WON", "LOST"}

(* An OTAR awaiting its FSR keeps the election that was won with it,       *)
(* whatever happens to the link: its keys are never retained by a board    *)
(* that is not, or no longer, the winner.                                  *)
OtarKeepsElection == \A n \in Boards :
  pending[n] # NoOtar => /\ election[n].result = "WON"
                         /\ election[n].mine = pending[n]

(* The keys a board already uses are never sent in another OTAR: an        *)
(* election rotates once (demo_recovery_otar_submission_allowed).          *)
KeysSentOnce == [][\A n \in Boards :
  pending'[n] \notin {NoOtar, pending[n]} => keys[n] # pending'[n]]_vars

(* Never do both boards have an OTAR in flight.                            *)
SoleOtarSender == \E n \in Boards : pending[n] = NoOtar

(* The sender of an OTAR commits its keys only while the peer uses them.   *)
CommitFollowsInstall == [][\A n \in Boards :
  pending[n] # NoOtar /\ pending'[n] = NoOtar => keys[Other(n)] = pending[n]]_vars

(* Operational traffic reaches a peer that can authenticate it: whatever   *)
(* happens around the cutovers, no frame is on its way to a board that     *)
(* does not use its keys (demo_recovery_status_tx_allowed).  (A board      *)
(* whose election timed out and which is sent an OTAR all the same speaks  *)
(* before the winner has cut over.)                                        *)
TrafficUnderstood == faults = 0 => \A n \in Boards : \A i \in 1..Len(out[n]) :
  out[n][i].type = "STATUS" => out[n][i].body = keys[Other(n)]

(* The two boards implement KeyRotation: one offer at a time, committed    *)
(* after its installation, and confirmed only while both use its keys.     *)
KeyPromise == INSTANCE KeyRotation
                WITH NoKeys <- NoOtar, offer <- pending, known <- confirmed

(* Whatever the elections do, late answers included, the rotation keeps    *)
(* the promise of KeyRotation (service_sdls_recovery, the OTAR and FSR     *)
(* handlers, security_receive_committed).                                  *)
KeepsKeyPromise == KeyPromise!Spec

(* Both boards use the same new keys, have proof of it, and talk.          *)
Rotated ==
  /\ keys[1] = keys[2] /\ keys[1] # BootKeys
  /\ \A n \in Boards : confirmed[n] /\ peerReady[n] /\ ApplicationTxAllowed(n)

(* The first rotation completes and normal traffic resumes, unless a fault *)
(* strikes.                                                                *)
RotationCompletes == <>[](Rotated \/ faults > 0)

(* Keys installed on both boards are confirmed to both, or replaced.       *)
Installed ==
  /\ keys[1] = keys[2] /\ keys[1] # BootKeys
  /\ \A n \in Boards : cutover[n] /\ pending[n] = NoOtar

InstalledKeysConfirmed ==
  Installed ~> (~Installed \/ \A n \in Boards : confirmed[n])

=============================================================================
