---------------------------- MODULE RotationProofs ----------------------------
(***************************************************************************)
(* Key rotation of Recovery while no fault but late answers has struck:    *)
(* the boards implement KeyRotation, only one of them sends an OTAR, which *)
(* it commits after the peer has installed it, and until an election times *)
(* out no traffic is lost for its keys.                                    *)
(*                                                                         *)
(* Without other faults a board draws one candidate and keeps its election *)
(* for ever, so a candidate that is heard is the peer's present one.       *)
(***************************************************************************)
EXTENDS RecoveryProofs, SequenceTheorems

-----------------------------------------------------------------------------
(* The world without faults other than late answers.                       *)

Undisturbed == faults = 0 \/ Faults \subseteq {"timeout"}

Unbroken == \A n \in Boards : inStep[n] /\ link[n] # "FAILED" /\ ~returned[n]

CalmStep(n) ==
  \/ Ingress(n) \/ StatusRejected(n) \/ Router(n) \/ Announced(n)
  \/ StartElection(n) \/ Rotate(n) \/ SendStatus(n) \/ LinkSynchronized(n)
  \/ PeerTimeout(n) \/ ElectionTimeout(n)

(* A step that leaves the world undisturbed is calm, and found it so.      *)
LEMMA StepsCalm ==
  ASSUME TypeOK, Undisturbed => Unbroken, NEW n \in Boards, Step(n), Undisturbed'
  PROVE  Undisturbed /\ CalmStep(n)
<1>1. faults' = faults \/ faults' = faults + 1
  BY DEF Step, Ingress, CandidateArrives, OtarArrives, StatusArrives, FsrArrives,
     Acknowledge, StatusRejected, RestartDetected, Router, HandleStatus,
     HandleCandidate, Announced, StartElection, Rotate, SubmitOtar, CommitKeys,
     SendStatus, LinkSynchronized, LinkReturns, PeerTimeout, Fault,
     ElectionTimeout, LinkExhausted, LinkLockedOut, Reboot
<1>2. faults \in Nat
  BY MaxFaultsAssumption DEF TypeOK
<1>3. Undisturbed
  BY <1>1, <1>2 DEF Undisturbed
<1>4. Unbroken
  BY <1>3
<1>5. ~LinkReturns(n)
  BY <1>4 DEF LinkReturns, Unbroken
<1>6. ASSUME faults' = faults + 1 PROVE Faults \subseteq {"timeout"}
  BY <1>2, <1>6 DEF Undisturbed
<1>7. ~RestartDetected(n)
  <2>1. inStep[n]
    BY <1>4 DEF Unbroken
  <2> QED
    BY <1>6, <2>1 DEF RestartDetected
<1>8. ~LinkExhausted(n) /\ ~LinkLockedOut(n) /\ ~Reboot(n)
  BY <1>6 DEF LinkExhausted, LinkLockedOut, Reboot
<1> QED
  BY <1>3, <1>5, <1>7, <1>8 DEF Step, CalmStep, Fault

(* Calm steps break no link.                                               *)
LEMMA StaysUnbroken ==
  ASSUME TypeOK, Unbroken, NEW n \in Boards, CalmStep(n)
  PROVE  Unbroken'
<1>1. CASE Announced(n)
  <2>1. link' = link /\ inStep' = inStep
    BY <1>1 DEF Announced, Submit, Unbroken
  <2>2. \A b \in Boards : returned'[b] => returned[b]
    BY <1>1 DEF Announced, TypeOK, Unbroken
  <2> QED
    BY <2>1, <2>2 DEF Unbroken
<1>2. CASE LinkSynchronized(n)
  <2>1. \A b \in Boards : link'[b] \in {link[b], "READY"}
    BY <1>2 DEF LinkSynchronized, TypeOK
  <2> QED
    BY <1>2, <2>1 DEF LinkSynchronized, Unbroken, cop
<1>3. CASE Ingress(n) \/ StatusRejected(n)
  BY <1>3 DEF Ingress, CandidateArrives, OtarArrives, StatusArrives, FsrArrives,
     Acknowledge, StatusRejected, Arriving, Unbroken, phase, cop
<1>4. CASE Router(n) \/ StartElection(n) \/ PeerTimeout(n) \/ ElectionTimeout(n)
  BY <1>4 DEF Router, HandleStatus, HandleCandidate, StartElection, PeerTimeout,
     ElectionTimeout, Unbroken, phase, cop
<1>5. CASE Rotate(n) \/ SendStatus(n)
  BY <1>5 DEF Rotate, SubmitOtar, CommitKeys, SendStatus, Submit, Unbroken, phase, cop
<1> QED
  BY <1>1, <1>2, <1>3, <1>4, <1>5 DEF CalmStep

-----------------------------------------------------------------------------
(* Queues as sets of messages.                                             *)

Within(queue) == {queue[i] : i \in 1..Len(queue)}

LEMMA WithinEmpty == Within(<<>>) = {}
BY DEF Within

LEMMA WithinAppend ==
  ASSUME NEW M, NEW queue \in Seq(M), NEW m \in M
  PROVE  Within(Append(queue, m)) = Within(queue) \cup {m}
<1> DEFINE longer == Append(queue, m)
<1>1. Len(longer) = Len(queue) + 1 /\ longer[Len(queue) + 1] = m
  OBVIOUS
<1>2. \A i \in 1..Len(queue) : longer[i] = queue[i]
  OBVIOUS
<1>3. Len(queue) \in Nat
  OBVIOUS
<1> HIDE DEF longer
<1>4. 1..Len(longer) = (1..Len(queue)) \cup {Len(queue) + 1}
  BY <1>1, <1>3
<1> QED
  BY <1>1, <1>2, <1>4 DEF Within, longer

LEMMA WithinTail ==
  ASSUME NEW M, NEW queue \in Seq(M), queue # <<>>
  PROVE  /\ Head(queue) \in Within(queue)
         /\ Within(Tail(queue)) \subseteq Within(queue)
         /\ Within(queue) = Within(Tail(queue)) \cup {Head(queue)}
<1>1. /\ 1 \in 1..Len(queue) /\ Head(queue) = queue[1]
      /\ Len(Tail(queue)) = Len(queue) - 1 /\ Len(queue) \in Nat
  OBVIOUS
<1>2. \A i \in 1..Len(Tail(queue)) :
        i + 1 \in 1..Len(queue) /\ Tail(queue)[i] = queue[i + 1]
  OBVIOUS
<1>3. \A j \in 1..Len(queue) :
        \/ j = 1
        \/ j - 1 \in 1..Len(Tail(queue)) /\ queue[j] = Tail(queue)[j - 1]
  BY <1>1, <1>2
<1>4. Within(Tail(queue)) \subseteq Within(queue)
  BY <1>2 DEF Within
<1>5. Within(queue) \subseteq Within(Tail(queue)) \cup {Head(queue)}
  BY <1>1, <1>3 DEF Within
<1> QED
  BY <1>1, <1>4, <1>5 DEF Within

(* What a board has said and its peer not yet handled, statuses aside.     *)
Said(n) == {m \in Within(out[n]) \cup Within(inbox[Other(n)]) : m.type # "STATUS"}

(* Nothing new is said by a packet that arrives,                           *)
LEMMA ArrivingSaid ==
  ASSUME TypeOK, NEW n \in Boards, NEW type, Arriving(n, type),
         \/ inbox' = inbox
         \/ /\ inbox' = [inbox EXCEPT ![n] = Append(@, Head(out[Other(n)]))]
            /\ type # "OTAR"
  PROVE  \A b \in Boards : Said(b)' \subseteq Said(b)
<1> DEFINE o == Other(n)
           m == Head(out[o])
<1> USE OtherBoard
<1>1. /\ out[o] # <<>> /\ out' = [out EXCEPT ![o] = Tail(@)] /\ m.type = type
      /\ out[o] \in Seq(Message) /\ inbox[n] \in Seq(RouterMessage) /\ m \in Message
  BY ArrivingType DEF Arriving, TypeOK
<1>2. m \in Within(out[o]) /\ Within(Tail(out[o])) \subseteq Within(out[o])
  BY <1>1, WithinTail
<1>3. Within(out'[o]) \subseteq Within(out[o]) /\ out'[n] = out[n]
  BY <1>1, <1>2 DEF TypeOK
<1>4. Within(inbox'[n]) \subseteq Within(inbox[n]) \cup {m} /\ inbox'[o] = inbox[o]
  <2>1. CASE inbox' = inbox
    BY <2>1
  <2>2. CASE inbox' = [inbox EXCEPT ![n] = Append(@, m)] /\ type # "OTAR"
    <3>1. m \in RouterMessage
      BY <1>1, <2>2, RouterMessageType
    <3>2. Within(Append(inbox[n], m)) = Within(inbox[n]) \cup {m}
      BY <1>1, <3>1, WithinAppend
    <3> QED
      BY <2>2, <3>2 DEF TypeOK
  <2> QED
    BY <2>1, <2>2
<1>5. Said(o)' \subseteq Said(o)
  BY <1>2, <1>3, <1>4 DEF Said
<1>6. Said(n)' \subseteq Said(n)
  BY <1>3, <1>4 DEF Said
<1> QED
  BY <1>5, <1>6 DEF Boards, Other

(* nor by handling a message,                                              *)
LEMMA HandlingSaid ==
  ASSUME TypeOK, NEW n \in Boards, inbox[n] # <<>>, UNCHANGED out,
         inbox' = [inbox EXCEPT ![n] = Tail(@)]
  PROVE  \A b \in Boards : Said(b)' \subseteq Said(b)
<1>1. Within(Tail(inbox[n])) \subseteq Within(inbox[n])
  BY WithinTail DEF TypeOK
<1>2. \A b \in Boards : Within(inbox'[b]) \subseteq Within(inbox[b])
  BY <1>1 DEF TypeOK
<1> QED
  BY <1>2, OtherBoard DEF Said

(* and a packet that is submitted is all that is said.                     *)
LEMMA SubmitWithin ==
  ASSUME TypeOK, NEW n \in Boards, NEW m \in Message, Submit(n, m)
  PROVE  /\ Within(out'[n]) = Within(out[n]) \cup {m}
         /\ out'[n] = Append(out[n], m)
         /\ \A b \in Boards \ {n} : out'[b] = out[b]
<1>1. Within(Append(out[n], m)) = Within(out[n]) \cup {m}
  BY WithinAppend DEF TypeOK
<1> QED
  BY <1>1 DEF TypeOK, Submit

-----------------------------------------------------------------------------
(* Each board draws one candidate.                                         *)

(* Nothing that board n has said is on its way or known to the peer.       *)
Unsaid(n) ==
  /\ Said(n) = {}
  /\ election[Other(n)].theirs = NoCandidate
  /\ announcing[Other(n)].theirs = NoCandidate

(* What is said and known of a board is the candidate of its election, and *)
(* it says nothing before that.                                            *)
OneCandidate == \A n \in Boards :
  /\ \A m \in Said(n) : m.body = election[n].mine
  /\ election[Other(n)].theirs \in {NoCandidate, election[n].mine}
  /\ announcing[Other(n)].theirs \in {NoCandidate, election[n].mine}
  /\ election[n].result = "NONE" => Unsaid(n)
  /\ announcing[n] # NotAnnouncing =>
       /\ Unsaid(n)
       /\ election[n].result = "WAITING"
       /\ announcing[n].mine = election[n].mine

(* The peer has received what board n has said.                            *)
Heard(n) ==
  \/ \E m \in Within(inbox[Other(n)]) : m.type # "STATUS"
  \/ election[Other(n)].theirs # NoCandidate
  \/ announcing[Other(n)].theirs # NoCandidate

(* A candidate that is handled is the one the peer's election has; it is   *)
(* answered only by a board without an election.                           *)
LEMMA HandledOnce ==
  ASSUME ElectionInvariant, OneCandidate, NEW n \in Boards, HandleCandidate(n)
  PROVE  \E c \in Of(Other(n)) :
           /\ c = election[Other(n)].mine
           /\ election[Other(n)].result # "NONE"
           /\ announcing[Other(n)] = NotAnnouncing
           /\ \/ election[n].result = "NONE" /\ Announce(n, "peer", c)
              \/ /\ election' = [election EXCEPT ![n] = Decided(@, c)]
                 /\ UNCHANGED announcing
<1> USE OtherBoard
<1> DEFINE o == Other(n)
           c == Head(inbox[n]).body
<1>1. /\ inbox[n] \in Seq(RouterMessage) /\ inbox[n] # <<>>
      /\ Head(inbox[n]).type = "CANDIDATE"
  BY DEF ElectionInvariant, TypeOK, HandleCandidate
<1>2. Head(inbox[n]) \in Said(o)
  BY <1>1, WithinTail DEF Said
<1>3. c = election[o].mine /\ ~Unsaid(o)
  BY <1>2 DEF OneCandidate, Unsaid
<1>4. c \in Of(o)
  BY <1>1, NamedTail DEF ElectionInvariant, CandidatesNamed
<1>5. election[o].result # "NONE" /\ announcing[o] = NotAnnouncing
  BY <1>3 DEF OneCandidate
<1>6. election[n].theirs \in {NoCandidate, c}
  BY <1>3 DEF OneCandidate
<1>7. \/ election[n].result = "NONE" /\ Announce(n, "peer", c)
      \/ /\ election' = [election EXCEPT ![n] = Decided(@, c)]
         /\ UNCHANGED announcing
  BY <1>6 DEF HandleCandidate
<1> HIDE DEF c
<1> QED
  BY <1>3, <1>4, <1>5, <1>7

(* What a calm step does to an election.                                   *)
LEMMA ElectionsKept ==
  ASSUME ElectionInvariant, Unbroken, OneCandidate, NEW n \in Boards, CalmStep(n)
  PROVE  /\ election'[Other(n)] = election[Other(n)]
         /\ announcing'[Other(n)] = announcing[Other(n)]
         /\ \/ UNCHANGED <<election, announcing>>
            \/ \E c \in Of(n), for \in {"own", "peer"},
                  d \in {NoCandidate, election[Other(n)].mine} :
                 /\ election[n].result = "NONE" /\ announcing[n] = NotAnnouncing
                 /\ election'[n] =
                      [result |-> "WAITING", mine |-> c, theirs |-> NoCandidate]
                 /\ announcing'[n] = [for |-> for, mine |-> c, theirs |-> d]
                 /\ d # NoCandidate => Heard(Other(n))
            \/ /\ announcing'[n] = NotAnnouncing
               /\ election'[n].mine = election[n].mine
               /\ election[n].result = "WAITING" \/ election'[n] = election[n]
               /\ election'[n].result # "NONE" \/ election'[n] = election[n]
               /\ \/ election'[n].theirs = election[n].theirs
                  \/ /\ election'[n].theirs = election[Other(n)].mine
                     /\ Heard(Other(n))
<1> USE OtherBoard
<1> DEFINE o == Other(n)
<1>1. /\ election \in [Boards -> Elections] /\ announcing \in [Boards -> Announcements]
      /\ TypeOK
  BY DEF ElectionInvariant, TypeOK, Elections, Announcements
<1>2. ASSUME NEW for \in {"own", "peer"}, NEW d \in {NoCandidate, election[o].mine},
             Announce(n, for, d), election[n].result = "NONE",
             announcing[n] = NotAnnouncing, d # NoCandidate => Heard(o)
      PROVE  /\ election'[o] = election[o]
             /\ announcing'[o] = announcing[o]
             /\ \E c \in Of(n) :
                 /\ election'[n] =
                      [result |-> "WAITING", mine |-> c, theirs |-> NoCandidate]
                 /\ announcing'[n] = [for |-> for, mine |-> c, theirs |-> d]
  <2>1. d \in Keys
    BY <1>1 DEF Keys, BootKeys, Elections
  <2>2. PICK c \in Candidates :
           /\ c.board = n
           /\ election' = [election EXCEPT ![n] =
                [result |-> "WAITING", mine |-> c, theirs |-> NoCandidate]]
           /\ announcing' = [announcing EXCEPT ![n] =
                [for |-> for, mine |-> c, theirs |-> d]]
    BY <1>1, <1>2, <2>1, AnnounceType
  <2> QED
    BY <1>1, <2>2 DEF Of
<1>3. ASSUME NEW c, c = election[o].mine, c # NoCandidate => Heard(o),
             announcing'[n] = NotAnnouncing, announcing'[o] = announcing[o],
             election' = [election EXCEPT ![n] = Decided(@, c)]
      PROVE  /\ election'[o] = election[o]
             /\ election'[n].mine = election[n].mine
             /\ election[n].result = "WAITING" \/ election'[n] = election[n]
             /\ election'[n].result # "NONE" \/ election'[n] = election[n]
             /\ \/ election'[n].theirs = election[n].theirs
                \/ election'[n].theirs = c
  BY <1>1, <1>3 DEF Decided, Elections
<1>4. CASE HandleCandidate(n)
  <2>1. PICK c \in Of(o) :
           /\ c = election[o].mine
           /\ \/ election[n].result = "NONE" /\ Announce(n, "peer", c)
              \/ /\ election' = [election EXCEPT ![n] = Decided(@, c)]
                 /\ UNCHANGED announcing
    BY <1>4, HandledOnce
  <2>2. announcing[n] = NotAnnouncing
    BY <1>4 DEF HandleCandidate, Blocked
  <2>3. Heard(o)
    <3>1. Head(inbox[n]) \in Within(inbox[n]) /\ Head(inbox[n]).type # "STATUS"
      BY <1>1, <1>4, WithinTail DEF HandleCandidate, TypeOK
    <3> QED
      BY <3>1 DEF Heard
  <2>4. CASE election[n].result = "NONE" /\ Announce(n, "peer", c)
    BY <1>2, <2>1, <2>2, <2>3, <2>4
  <2>5. CASE election' = [election EXCEPT ![n] = Decided(@, c)] /\ UNCHANGED announcing
    <3>1. announcing'[n] = NotAnnouncing /\ announcing'[o] = announcing[o]
      BY <2>2, <2>5
    <3> QED
      BY <1>3, <2>1, <2>3, <2>5, <3>1
  <2> QED
    BY <2>1, <2>4, <2>5
<1>5. CASE StartElection(n)
  <2>1. /\ Announce(n, "own", NoCandidate) /\ election[n].result = "NONE"
        /\ announcing[n] = NotAnnouncing
    BY <1>5 DEF StartElection, Ticking, Blocked
  <2> QED
    BY <1>2, <2>1
<1>6. CASE Announced(n)
  <2>1. /\ announcing'[n] = NotAnnouncing /\ announcing'[o] = announcing[o]
        /\ announcing[n] # NotAnnouncing
        /\ election' = IF announcing[n].for = "peer"
                       THEN [election EXCEPT ![n] = Decided(@, announcing[n].theirs)]
                       ELSE election
    BY <1>1, <1>6 DEF Announced, Unbroken, Blocked
  <2>2. CASE announcing[n].for = "peer"
    <3>1. announcing[n].theirs \in Of(o)
      BY <2>2 DEF ElectionInvariant, CandidatesNamed, AnnouncedNamed
    <3>2. announcing[n].theirs # NoCandidate
      BY <3>1 DEF Of, Boards, NoCandidate
    <3>3. announcing[n].theirs = election[o].mine /\ Heard(o)
      BY <3>2 DEF OneCandidate, Heard
    <3> QED
      BY <1>3, <2>1, <2>2, <3>3
  <2>3. CASE announcing[n].for # "peer"
    BY <2>1, <2>3
  <2> QED
    BY <2>2, <2>3
<1>7. CASE ElectionTimeout(n)
  <2>1. /\ election[n].result = "WAITING" /\ announcing' = announcing
        /\ announcing[n] = NotAnnouncing
        /\ election' = [election EXCEPT ![n].result = "TIMED_OUT"]
    BY <1>7 DEF ElectionTimeout, Ticking, Blocked
  <2> QED
    BY <1>1, <2>1 DEF Elections
<1>8. CASE ~(HandleCandidate(n) \/ StartElection(n) \/ Announced(n) \/ ElectionTimeout(n))
  <2>1. UNCHANGED <<election, announcing>>
    BY <1>8 DEF CalmStep, Ingress, CandidateArrives, OtarArrives, StatusArrives,
       FsrArrives, Acknowledge, StatusRejected, Router, HandleStatus, Rotate,
       SubmitOtar, CommitKeys, SendStatus, LinkSynchronized, PeerTimeout
  <2> QED
    BY <2>1
<1> QED
  BY <1>4, <1>5, <1>6, <1>7, <1>8

(* A board that has said nothing is not heard.                             *)
LEMMA UnsaidUnheard == ASSUME NEW n \in Boards, Unsaid(n) PROVE ~Heard(n)
BY DEF Unsaid, Heard, Said

(* What a calm step says.                                                  *)
LEMMA SaidKept ==
  ASSUME ElectionInvariant, Unbroken, NEW n \in Boards, CalmStep(n)
  PROVE  /\ Said(Other(n))' \subseteq Said(Other(n))
         /\ \/ Said(n)' \subseteq Said(n)
            \/ /\ announcing[n] # NotAnnouncing /\ announcing'[n] = NotAnnouncing
               /\ \A m \in Said(n)' : m \in Said(n) \/ m.body = announcing[n].mine
            \/ /\ election[n].result = "WON" /\ UNCHANGED <<election, announcing>>
               /\ \A m \in Said(n)' : m \in Said(n) \/ m.body = election[n].mine
<1> USE OtherBoard
<1> DEFINE o == Other(n)
<1>1. TypeOK
  BY DEF ElectionInvariant
<1>2. ASSUME NEW m \in Message, Submit(n, m), UNCHANGED inbox
      PROVE  /\ Said(o)' \subseteq Said(o)
             /\ Said(n)' \subseteq Said(n) \cup {m}
             /\ m.type = "STATUS" => Said(n)' \subseteq Said(n)
  BY <1>1, <1>2, SubmitWithin DEF Said
<1>3. CASE CandidateArrives(n) \/ OtarArrives(n) \/ StatusArrives(n) \/ StatusRejected(n)
  <2>1. \A b \in Boards : Said(b)' \subseteq Said(b)
    BY <1>1, <1>3, ArrivingSaid
       DEF CandidateArrives, OtarArrives, StatusArrives, StatusRejected
  <2> QED
    BY <2>1
<1>4. CASE Router(n)
  <2>1. \A b \in Boards : Said(b)' \subseteq Said(b)
    BY <1>1, <1>4, HandlingSaid DEF Router, HandleStatus, HandleCandidate, cop
  <2> QED
    BY <2>1
<1>5. CASE Announced(n)
  <2> DEFINE m == [type |-> "CANDIDATE", body |-> announcing[n].mine]
  <2>1. m \in Message
    BY <1>1 DEF TypeOK, Message, RouterMessage, Keys, BootKeys
  <2>2. /\ announcing[n] # NotAnnouncing /\ announcing'[n] = NotAnnouncing
        /\ Submit(n, m) /\ UNCHANGED inbox
    BY <1>1, <1>5 DEF Announced, Blocked, Unbroken, TypeOK
  <2> QED
    BY <1>2, <2>1, <2>2
<1>6. CASE SubmitOtar(n)
  <2> DEFINE m == [type |-> "OTAR", body |-> election[n].mine]
  <2>1. m \in Message
    BY <1>1 DEF TypeOK, Message, Keys, BootKeys
  <2>2. /\ election[n].result = "WON" /\ UNCHANGED <<election, announcing>>
        /\ Submit(n, m) /\ UNCHANGED inbox
    BY <1>6 DEF SubmitOtar
  <2> QED
    BY <1>2, <2>1, <2>2
<1>7. CASE SendStatus(n)
  <2> DEFINE m == [type |-> "STATUS", body |-> keys[n]]
  <2>1. m \in Message
    BY <1>1 DEF TypeOK, Message, RouterMessage
  <2>2. Submit(n, m) /\ UNCHANGED inbox
    BY <1>7 DEF SendStatus
  <2> QED
    BY <1>2, <2>1, <2>2
<1>8. CASE \/ FsrArrives(n) \/ Acknowledge(n) \/ StartElection(n) \/ CommitKeys(n)
           \/ LinkSynchronized(n) \/ PeerTimeout(n) \/ ElectionTimeout(n)
  <2>1. UNCHANGED <<out, inbox>>
    BY <1>8 DEF FsrArrives, Acknowledge, StartElection, CommitKeys, LinkSynchronized,
       PeerTimeout, ElectionTimeout, cop
  <2> QED
    BY <2>1 DEF Said
<1> QED
  BY <1>3, <1>4, <1>5, <1>6, <1>7, <1>8 DEF CalmStep, Ingress, Rotate

(* A calm step draws no second candidate.                                  *)
LEMMA OneCandidateStep ==
  ASSUME ElectionInvariant, Unbroken, OneCandidate, NEW n \in Boards, CalmStep(n)
  PROVE  OneCandidate'
<1> USE OtherBoard
<1> DEFINE o == Other(n)
           Fine(b) ==
             /\ \A m \in Said(b) : m.body = election[b].mine
             /\ election[Other(b)].theirs \in {NoCandidate, election[b].mine}
             /\ announcing[Other(b)].theirs \in {NoCandidate, election[b].mine}
             /\ election[b].result = "NONE" => Unsaid(b)
             /\ announcing[b] # NotAnnouncing =>
                  /\ Unsaid(b)
                  /\ election[b].result = "WAITING"
                  /\ announcing[b].mine = election[b].mine
<1>1. NotAnnouncing.theirs = NoCandidate
  BY DEF NotAnnouncing
<1>2. Fine(n) /\ Fine(o)
  BY DEF OneCandidate
<1>3. /\ election'[o] = election[o] /\ announcing'[o] = announcing[o]
      /\ Said(o)' \subseteq Said(o)
  BY ElectionsKept, SaidKept
<1>4. Fine(o)'
  <2>1. /\ election'[n].theirs \in {NoCandidate, election[o].mine}
        /\ announcing'[n].theirs \in {NoCandidate, election[o].mine}
        /\ Unsaid(o) => /\ election'[n].theirs = NoCandidate
                        /\ announcing'[n].theirs = NoCandidate
    <3>1. CASE UNCHANGED <<election, announcing>>
      BY <1>2, <3>1 DEF Unsaid
    <3>2. CASE \E c \in Of(n), for \in {"own", "peer"},
                  d \in {NoCandidate, election[o].mine} :
                 /\ election'[n] =
                      [result |-> "WAITING", mine |-> c, theirs |-> NoCandidate]
                 /\ announcing'[n] = [for |-> for, mine |-> c, theirs |-> d]
                 /\ d # NoCandidate => Heard(o)
      BY <3>2, UnsaidUnheard
    <3>3. CASE /\ announcing'[n] = NotAnnouncing
               /\ \/ election'[n].theirs = election[n].theirs
                  \/ /\ election'[n].theirs = election[o].mine
                     /\ Heard(o)
      BY <1>1, <1>2, <3>3, UnsaidUnheard DEF Unsaid
    <3> QED
      BY <3>1, <3>2, <3>3, ElectionsKept
  <2>2. Unsaid(o) => Unsaid(o)'
    BY <1>3, <2>1 DEF Unsaid
  <2> QED
    BY <1>2, <1>3, <2>1, <2>2
<1>5. Fine(n)'
  <2>1. Said(n)' \subseteq Said(n) => (Unsaid(n) => Unsaid(n)')
    BY <1>3 DEF Unsaid
  <2>2. CASE \E c \in Of(n), for \in {"own", "peer"},
                d \in {NoCandidate, election[o].mine} :
               /\ election[n].result = "NONE" /\ announcing[n] = NotAnnouncing
               /\ election'[n] =
                    [result |-> "WAITING", mine |-> c, theirs |-> NoCandidate]
               /\ announcing'[n] = [for |-> for, mine |-> c, theirs |-> d]
    <3>1. Unsaid(n)
      BY <1>2, <2>2
    <3>2. election'[n] # election[n]
      BY <2>2
    <3>3. Said(n)' \subseteq Said(n)
      BY <2>2, <3>2, SaidKept
    <3>4. Unsaid(n)'
      BY <2>1, <3>1, <3>3
    <3> QED
      BY <2>2, <3>4 DEF Unsaid
  <2>3. CASE UNCHANGED <<election, announcing>>
    <3>1. CASE Said(n)' \subseteq Said(n)
      BY <1>2, <2>1, <2>3, <3>1
    <3>2. CASE /\ election[n].result = "WON"
               /\ \A m \in Said(n)' : m \in Said(n) \/ m.body = election[n].mine
      BY <1>2, <2>3, <3>2
    <3> QED
      BY <2>3, <3>1, <3>2, SaidKept
  <2>4. CASE /\ announcing'[n] = NotAnnouncing
             /\ election'[n].mine = election[n].mine
             /\ election[n].result = "WAITING" \/ election'[n] = election[n]
             /\ election'[n].result # "NONE" \/ election'[n] = election[n]
    <3>1. \A m \in Said(n)' : m.body = election'[n].mine
      BY <1>2, <2>4, SaidKept
    <3>2. ASSUME election'[n].result = "NONE" PROVE Unsaid(n)'
      <4>1. election[n].result = "NONE" /\ Unsaid(n)
        BY <1>2, <2>4, <3>2
      <4>2. announcing[n] = NotAnnouncing
        BY <1>2, <4>1
      <4>3. Said(n)' \subseteq Said(n)
        BY <4>1, <4>2, SaidKept
      <4> QED
        BY <2>1, <4>1, <4>3
    <3> QED
      BY <1>2, <1>3, <2>4, <3>1, <3>2
  <2> QED
    BY <2>2, <2>3, <2>4, ElectionsKept
<1>6. \A b \in Boards : b = n \/ b = o
  BY DEF Boards, Other
<1> HIDE DEF Fine
<1>7. \A b \in Boards : Fine(b)'
  BY <1>4, <1>5, <1>6
<1> QED
  BY <1>7 DEF OneCandidate, Fine

(* Both boards never win.                                                  *)
LEMMA OneWinner ==
  ASSUME ElectionInvariant, OneCandidate, NEW n \in Boards,
         election[n].result = "WON"
  PROVE  election[Other(n)].result # "WON"
<1> SUFFICES ASSUME election[Other(n)].result = "WON" PROVE FALSE
  OBVIOUS
<1>1. \A b \in Boards : election[b].result = "WON"
  BY DEF Boards, Other
<1>2. \A b \in Boards : election[b].theirs # NoCandidate
  BY <1>1 DEF ElectionInvariant, ElectionsLawful, Lawful
<1>3. \A b \in Boards : election[b].theirs = election[Other(b)].mine
  BY <1>2, OtherBoard DEF OneCandidate
<1>4. {election[b].result : b \in Boards} = {"WON", "LOST"}
  BY <1>2, <1>3, LawfulAgree DEF ElectionInvariant, ElectionAgrees
<1> QED
  BY <1>1, <1>4

-----------------------------------------------------------------------------
(* The packets of a board on their way.                                    *)

(* A quiet link has none; an OTAR or a candidate is the last, and only a   *)
(* candidate is ever submitted behind another packet.                      *)
Shape(queue) ==
  /\ Len(queue) \in {0, 1, 2}
  /\ queue # <<>> /\ Head(queue).type # "STATUS" => Tail(queue) = <<>>
  /\ Len(queue) = 2 => queue[2].type = "CANDIDATE"

QueueShape == \A n \in Boards : /\ Shape(out[n])
                                /\ ~unacked[n] => out[n] = <<>>

LEMMA ShapeTail ==
  ASSUME NEW M, NEW queue \in Seq(M), queue # <<>>, Shape(queue)
  PROVE  Shape(Tail(queue))
<1> DEFINE rest == Tail(queue)
<1>1. /\ Len(rest) = Len(queue) - 1 /\ Len(queue) \in Nat /\ Len(rest) \in Nat
      /\ rest \in Seq(M)
  OBVIOUS
<1>2. Len(rest) <= 1
  BY <1>1 DEF Shape
<1>3. rest # <<>> => Len(Tail(rest)) = 0 /\ Tail(rest) \in Seq(M)
  BY <1>1, <1>2
<1>4. rest # <<>> => Tail(rest) = <<>>
  BY <1>3, EmptySeq
<1> HIDE DEF rest
<1> QED
  BY <1>1, <1>2, <1>4 DEF Shape, rest

LEMMA ShapeAppend ==
  ASSUME NEW M, NEW queue \in Seq(M), NEW m \in M, Shape(queue),
         \/ queue = <<>>
         \/ /\ \A p \in Within(queue) : p.type = "STATUS"
            /\ m.type = "CANDIDATE"
  PROVE  Shape(Append(queue, m))
<1> DEFINE longer == Append(queue, m)
<1>1. CASE queue = <<>>
  <2>1. longer = <<m>> /\ Len(longer) = 1 /\ Tail(longer) = <<>>
    BY <1>1
  <2> QED
    BY <2>1 DEF Shape
<1>2. CASE queue # <<>> /\ m.type = "CANDIDATE"
           /\ \A p \in Within(queue) : p.type = "STATUS"
  <2>1. Len(queue) \in Nat /\ Len(queue) # 0
    BY <1>2
  <2>2. Len(queue) # 2
    <3>1. SUFFICES ASSUME Len(queue) = 2 PROVE FALSE
      OBVIOUS
    <3>2. 2 \in 1..Len(queue) /\ queue[2].type = "CANDIDATE"
      BY <3>1 DEF Shape
    <3> QED
      BY <1>2, <3>2 DEF Within
  <2>3. Len(queue) = 1
    <3>1. Len(queue) \in {0, 1, 2}
      BY DEF Shape
    <3> QED
      BY <2>1, <2>2, <3>1
  <2>4. Len(longer) = 2 /\ longer[2] = m /\ Head(longer) = queue[1]
    <3>1. Len(longer) = Len(queue) + 1 /\ longer[Len(queue) + 1] = m
      OBVIOUS
    <3>2. \A i \in 1..Len(queue) : longer[i] = queue[i]
      OBVIOUS
    <3>3. Head(longer) = longer[1] /\ 1 \in 1..Len(queue)
      BY <2>3
    <3> HIDE DEF longer
    <3> QED
      BY <2>3, <3>1, <3>2, <3>3
  <2>5. queue[1].type = "STATUS"
    BY <1>2, <2>3 DEF Within
  <2> HIDE DEF longer
  <2>6. Shape(longer)
    BY <1>2, <2>4, <2>5 DEF Shape
  <2> QED
    BY <2>6 DEF longer
<1> QED
  BY <1>1, <1>2

(* An OTAR is alone on its way.                                            *)
LEMMA OtarAlone ==
  ASSUME NEW M, NEW queue \in Seq(M), Shape(queue), NEW m \in Within(queue),
         m.type = "OTAR"
  PROVE  queue # <<>> /\ Head(queue) = m /\ Tail(queue) = <<>> /\ Within(queue) = {m}
<1>1. PICK i \in 1..Len(queue) : queue[i] = m
  BY DEF Within
<1>2. Len(queue) \in Nat /\ queue # <<>> /\ Head(queue) = queue[1]
  BY <1>1
<1>3. i = 1
  <2>1. Len(queue) \in {0, 1, 2} /\ (Len(queue) = 2 => queue[2].type = "CANDIDATE")
    BY DEF Shape
  <2>2. i # 2
    BY <1>1, <2>1
  <2> QED
    BY <1>1, <1>2, <2>1, <2>2
<1>4. Tail(queue) = <<>>
  BY <1>1, <1>2, <1>3 DEF Shape
<1> QED
  BY <1>1, <1>2, <1>3, <1>4, WithinTail, WithinEmpty

(* What a calm step does to the packets of both boards.                    *)
LEMMA OutKept ==
  ASSUME TypeOK, Unbroken, NEW n \in Boards, CalmStep(n)
  PROVE  \/ out' = out /\ (unacked' = unacked \/ Acknowledge(n))
         \/ /\ UNCHANGED unacked
            /\ \E type : Arriving(n, type)
         \/ /\ \E m \in Message :
                 /\ Submit(n, m)
                 /\ \/ Announced(n) /\ m.type = "CANDIDATE"
                    \/ ~unacked[n]
<1>1. CASE CandidateArrives(n) \/ OtarArrives(n) \/ StatusArrives(n) \/ StatusRejected(n)
  BY <1>1 DEF CandidateArrives, OtarArrives, StatusArrives, StatusRejected, Arriving
<1>2. CASE \/ FsrArrives(n) \/ Acknowledge(n) \/ Router(n) \/ StartElection(n)
           \/ CommitKeys(n) \/ LinkSynchronized(n) \/ PeerTimeout(n) \/ ElectionTimeout(n)
  <2>1. CASE Acknowledge(n)
    BY <2>1 DEF Acknowledge
  <2>2. CASE ~Acknowledge(n)
    BY <1>2, <2>2 DEF FsrArrives, Router, HandleStatus, HandleCandidate,
       StartElection, CommitKeys, LinkSynchronized, PeerTimeout, ElectionTimeout, cop
  <2> QED
    BY <2>1, <2>2
<1>3. CASE Announced(n)
  <2> DEFINE m == [type |-> "CANDIDATE", body |-> announcing[n].mine]
  <2>1. m \in Message
    BY DEF TypeOK, Message, RouterMessage, Keys, BootKeys
  <2> QED
    BY <1>3, <2>1 DEF Announced, Unbroken
<1>4. CASE SubmitOtar(n)
  <2> DEFINE m == [type |-> "OTAR", body |-> election[n].mine]
  <2>1. m \in Message
    BY DEF TypeOK, Message, Keys, BootKeys
  <2> QED
    BY <1>4, <2>1 DEF SubmitOtar, Quiet
<1>5. CASE SendStatus(n)
  <2> DEFINE m == [type |-> "STATUS", body |-> keys[n]]
  <2>1. m \in Message
    BY DEF TypeOK, Message, RouterMessage
  <2> QED
    BY <1>5, <2>1 DEF SendStatus, Quiet
<1> QED
  BY <1>1, <1>2, <1>3, <1>4, <1>5 DEF CalmStep, Ingress, Rotate

(* Queues keep their shape.                                                *)
LEMMA ShapeStep ==
  ASSUME ElectionInvariant, Unbroken, OneCandidate, QueueShape, NEW n \in Boards,
         CalmStep(n)
  PROVE  QueueShape'
<1> USE OtherBoard
<1> DEFINE o == Other(n)
<1>1. TypeOK /\ out \in [Boards -> Seq(Message)] /\ unacked \in [Boards -> BOOLEAN]
  BY DEF ElectionInvariant, TypeOK
<1>2. CASE out' = out /\ (unacked' = unacked \/ Acknowledge(n))
  BY <1>1, <1>2 DEF Acknowledge, QueueShape
<1>3. CASE UNCHANGED unacked /\ \E type : Arriving(n, type)
  <2>1. out[o] # <<>> /\ out' = [out EXCEPT ![o] = Tail(@)]
    BY <1>3 DEF Arriving
  <2>2. unacked[o] /\ Shape(Tail(out[o]))
    BY <1>1, <2>1, ShapeTail DEF QueueShape
  <2> QED
    BY <1>1, <1>3, <2>1, <2>2 DEF QueueShape
<1>4. ASSUME NEW m \in Message, Submit(n, m),
             \/ Announced(n) /\ m.type = "CANDIDATE"
             \/ ~unacked[n]
      PROVE  QueueShape'
  <2>1. /\ out' = [out EXCEPT ![n] = Append(@, m)]
        /\ unacked' = [unacked EXCEPT ![n] = TRUE]
    BY <1>4 DEF Submit
  <2>2. Shape(Append(out[n], m))
    <3>1. CASE ~unacked[n]
      BY <1>1, <3>1, ShapeAppend DEF QueueShape
    <3>2. CASE Announced(n) /\ m.type = "CANDIDATE"
      <4>1. Said(n) = {}
        BY <3>2 DEF Announced, Blocked, OneCandidate, Unsaid
      <4>2. \A p \in Within(out[n]) : p.type = "STATUS"
        BY <4>1 DEF Said
      <4> QED
        BY <1>1, <3>2, <4>2, ShapeAppend DEF QueueShape
    <3> QED
      BY <1>4, <3>1, <3>2
  <2> QED
    BY <1>1, <2>1, <2>2 DEF QueueShape
<1> QED
  BY <1>1, <1>2, <1>3, <1>4, OutKept

(* A candidate that is on its way has not been heard.                      *)
Announces(n) == \E m \in Within(out[n]) : m.type = "CANDIDATE"

UnheardOnItsWay == \A n \in Boards : Announces(n) => ~Heard(n)

LEMMA UnheardStep ==
  ASSUME ElectionInvariant, Unbroken, OneCandidate, QueueShape, UnheardOnItsWay,
         NEW n \in Boards, CalmStep(n)
  PROVE  UnheardOnItsWay'
<1> USE OtherBoard
<1> DEFINE o == Other(n)
<1>1. TypeOK /\ out \in [Boards -> Seq(Message)] /\ inbox \in [Boards -> Seq(RouterMessage)]
  BY DEF ElectionInvariant, TypeOK
<1>2. /\ election'[o] = election[o] /\ announcing'[o] = announcing[o]
      /\ election'[n].theirs # NoCandidate => Heard(o)
      /\ announcing'[n].theirs # NoCandidate => Heard(o)
  <2>1. election'[o] = election[o] /\ announcing'[o] = announcing[o]
    BY ElectionsKept
  <2>2. CASE UNCHANGED <<election, announcing>>
    BY <2>2 DEF Heard
  <2>3. CASE \E c \in Of(n), for \in {"own", "peer"},
                d \in {NoCandidate, election[o].mine} :
               /\ election'[n] =
                    [result |-> "WAITING", mine |-> c, theirs |-> NoCandidate]
               /\ announcing'[n] = [for |-> for, mine |-> c, theirs |-> d]
               /\ d # NoCandidate => Heard(o)
    BY <2>1, <2>3
  <2>4. CASE /\ announcing'[n] = NotAnnouncing
             /\ \/ election'[n].theirs = election[n].theirs
                \/ /\ election'[n].theirs = election[o].mine
                   /\ Heard(o)
    BY <2>1, <2>4 DEF Heard, NotAnnouncing
  <2> QED
    BY <2>1, <2>2, <2>3, <2>4, ElectionsKept
<1>3. ASSUME \A b \in Boards : Announces(b)' => Announces(b),
             \A b \in Boards : Within(inbox'[b]) \subseteq Within(inbox[b])
                               \/ \A m \in Within(inbox'[b]) :
                                    m \in Within(inbox[b]) \/ m.type = "STATUS"
      PROVE  UnheardOnItsWay'
  <2>1. ~Heard(n) => ~Heard(n)'
    BY <1>2, <1>3 DEF Heard
  <2>2. ~Heard(o) => ~Heard(o)'
    BY <1>2, <1>3 DEF Heard
  <2> QED
    BY <1>3, <2>1, <2>2 DEF UnheardOnItsWay, Boards, Other
<1>4. CASE CandidateArrives(n)
  <2> DEFINE m == Head(out[o])
  <2>1. /\ out[o] # <<>> /\ m.type = "CANDIDATE"
        /\ out' = [out EXCEPT ![o] = Tail(@)]
        /\ inbox' = [inbox EXCEPT ![n] = Append(@, m)]
        /\ UNCHANGED <<election, announcing>>
    BY <1>4 DEF CandidateArrives, Arriving
  <2>2. out'[o] = <<>> /\ out'[n] = out[n] /\ inbox'[o] = inbox[o]
    BY <1>1, <2>1 DEF QueueShape, Shape
  <2>3. ~Announces(o)'
    BY <2>2, WithinEmpty DEF Announces
  <2>4. (Announces(n) => ~Heard(n))'
    BY <2>1, <2>2 DEF UnheardOnItsWay, Announces, Heard
  <2> QED
    BY <2>3, <2>4 DEF UnheardOnItsWay, Boards, Other
<1>5. CASE OtarArrives(n) \/ StatusArrives(n) \/ StatusRejected(n)
  <2> DEFINE m == Head(out[o])
  <2>1. /\ out[o] # <<>> /\ out' = [out EXCEPT ![o] = Tail(@)]
        /\ inbox' = inbox \/ /\ inbox' = [inbox EXCEPT ![n] = Append(@, m)]
                             /\ m.type = "STATUS" /\ m \in RouterMessage
    BY <1>1, <1>5, ArrivingType, RouterMessageType
       DEF OtarArrives, StatusArrives, StatusRejected, Arriving
  <2>2. \A b \in Boards : Within(out'[b]) \subseteq Within(out[b])
    BY <1>1, <2>1, WithinTail
  <2>3. \A b \in Boards : \A p \in Within(inbox'[b]) :
          p \in Within(inbox[b]) \/ p.type = "STATUS"
    <3>1. CASE inbox' = inbox
      BY <3>1
    <3>2. CASE /\ inbox' = [inbox EXCEPT ![n] = Append(@, m)]
               /\ m.type = "STATUS" /\ m \in RouterMessage
      <4>1. Within(Append(inbox[n], m)) = Within(inbox[n]) \cup {m}
        BY <1>1, <3>2, WithinAppend
      <4> QED
        BY <1>1, <3>2, <4>1
    <3> QED
      BY <2>1, <3>1, <3>2
  <2> QED
    BY <1>3, <2>2, <2>3 DEF Announces
<1>6. CASE Router(n)
  <2>1. out' = out /\ inbox[n] # <<>> /\ inbox' = [inbox EXCEPT ![n] = Tail(@)]
    BY <1>6 DEF Router, HandleStatus, HandleCandidate, cop
  <2>2. \A b \in Boards : Within(inbox'[b]) \subseteq Within(inbox[b])
    BY <1>1, <2>1, WithinTail
  <2> QED
    BY <1>3, <2>1, <2>2 DEF Announces
<1>7. CASE Announced(n)
  <2>1. ~Heard(n) /\ inbox' = inbox
    BY <1>7, UnsaidUnheard DEF Announced, Blocked, OneCandidate
  <2>2. ~Heard(n)'
    BY <1>2, <2>1 DEF Heard
  <2>3. out'[o] = out[o]
    BY <1>1, <1>7 DEF Announced, Submit, Unbroken
  <2>4. (Announces(o) => ~Heard(o))'
    BY <1>2, <2>1, <2>3 DEF UnheardOnItsWay, Announces, Heard
  <2> QED
    BY <2>2, <2>4 DEF UnheardOnItsWay, Boards, Other
<1>8. CASE SubmitOtar(n) \/ SendStatus(n)
  <2>1. \E m \in Message : Submit(n, m) /\ m.type # "CANDIDATE"
    <3>1. CASE SubmitOtar(n)
      <4> DEFINE m == [type |-> "OTAR", body |-> election[n].mine]
      <4>1. m \in Message
        BY <1>1 DEF TypeOK, Message, Keys, BootKeys
      <4> QED
        BY <3>1, <4>1 DEF SubmitOtar
    <3>2. CASE SendStatus(n)
      <4> DEFINE m == [type |-> "STATUS", body |-> keys[n]]
      <4>1. m \in Message
        BY <1>1 DEF TypeOK, Message, RouterMessage
      <4> QED
        BY <3>2, <4>1 DEF SendStatus
    <3> QED
      BY <1>8, <3>1, <3>2
  <2>2. \A b \in Boards : Announces(b)' => Announces(b)
    BY <1>1, <2>1, SubmitWithin DEF Announces
  <2>3. inbox' = inbox
    BY <1>8 DEF SubmitOtar, SendStatus
  <2> QED
    BY <1>3, <2>2, <2>3
<1>9. CASE \/ FsrArrives(n) \/ Acknowledge(n) \/ StartElection(n) \/ CommitKeys(n)
           \/ LinkSynchronized(n) \/ PeerTimeout(n) \/ ElectionTimeout(n)
  <2>1. UNCHANGED <<out, inbox>>
    BY <1>9 DEF FsrArrives, Acknowledge, StartElection, CommitKeys, LinkSynchronized,
       PeerTimeout, ElectionTimeout, cop
  <2> QED
    BY <1>3, <2>1 DEF Announces
<1> QED
  BY <1>4, <1>5, <1>6, <1>7, <1>8, <1>9 DEF CalmStep, Ingress, Rotate

-----------------------------------------------------------------------------
(* The course of the rotation.                                             *)

Untouched(n) ==
  keys[n] = BootKeys /\ ~cutover[n] /\ ~confirmed[n] /\ accepted[n] = NoOtar

SendsNoOtar(n) == \A m \in Within(out[n]) : m.type # "OTAR"

Silent(n) == pending[n] = NoOtar /\ ~matched[n] /\ SendsNoOtar(n)

(* Nobody has sent an OTAR,                                                *)
Unrotated == \A n \in Boards : Untouched(n) /\ Silent(n)

(* or the winner's is on its way,                                          *)
Offered(n) ==
  /\ pending[n] = election[n].mine /\ ~matched[n] /\ ~SendsNoOtar(n)
  /\ Untouched(n) /\ Untouched(Other(n))

(* or its peer has installed the keys,                                     *)
Taken(n) ==
  /\ pending[n] = election[n].mine
  /\ Untouched(n)
  /\ keys[Other(n)] = election[n].mine /\ accepted[Other(n)] = election[n].mine
  /\ cutover[Other(n)] /\ ~confirmed[Other(n)]

(* or both have.                                                           *)
Committed(n) ==
  /\ pending[n] = NoOtar /\ ~matched[n] /\ accepted[n] = NoOtar
  /\ \A b \in Boards : keys[b] = election[n].mine /\ cutover[b]

Rotating(n) ==
  /\ election[n].result = "WON"
  /\ Silent(Other(n))
  /\ \/ Offered(n)
     \/ /\ \A m \in Within(out[n]) : m.type = "STATUS"
        /\ Taken(n) \/ Committed(n)

RotationStage == Unrotated \/ \E n \in Boards : Rotating(n)

(* A status still on its way was sent under the boot keys or the present.  *)
StatusKeys == \A n \in Boards : \A m \in Within(out[n]) :
  m.type = "STATUS" => m.body \in {BootKeys, keys[n]}

(* All that is known of an undisturbed world.                              *)
CalmInvariant ==
  /\ ElectionInvariant
  /\ Unbroken
  /\ OneCandidate
  /\ QueueShape
  /\ UnheardOnItsWay
  /\ RotationStage
  /\ StatusKeys

(* The candidate of an election that is won are keys, and not the boot's.  *)
LEMMA WinnersKeys ==
  ASSUME ElectionInvariant, NEW n \in Boards, election[n].result = "WON"
  PROVE  /\ election[n].mine \in Candidates /\ election[n].mine # NoOtar
         /\ election[n].mine # BootKeys
         /\ election[n].theirs # NoCandidate
<1>1. election[n].mine \in Of(n) /\ election[n].theirs # NoCandidate
  BY DEF ElectionInvariant, ElectionsLawful, Lawful, Idle
<1> QED
  BY <1>1 DEF Of, Candidates, Boards, NoOtar, BootKeys, NoCandidate

(* Only the winner rotates.                                                *)
LEMMA OneRotates ==
  ASSUME CalmInvariant, NEW n \in Boards, Rotating(n)
  PROVE  /\ ~Unrotated
         /\ ~Rotating(Other(n)) /\ election[Other(n)].result # "WON"
         /\ Heard(Other(n))
<1>1. election[Other(n)].result # "WON"
  BY OneWinner DEF CalmInvariant, Rotating
<1>2. ~Unrotated
  BY WinnersKeys DEF CalmInvariant, Rotating, Unrotated, Untouched, Silent, Offered,
     Taken, Committed
<1>3. election[n].theirs # NoCandidate
  BY WinnersKeys DEF CalmInvariant, Rotating
<1> QED
  BY <1>1, <1>2, <1>3, OtherBoard DEF Rotating, Heard

(* Steps that leave the keys and the OTAR alone leave the rotation where   *)
(* it is.                                                                  *)
LEMMA RotationFrame ==
  ASSUME CalmInvariant, UNCHANGED rotation,
         \A b \in Boards : election[b].result = "WON" => election'[b] = election[b],
         \A b \in Boards : \A m \in Within(out'[b]) :
           \/ m \in Within(out[b]) \/ m.type = "STATUS"
           \/ m.type = "CANDIDATE" /\ election[b].result # "WON",
         \A b \in Boards : \A m \in Within(out[b]) :
           m.type = "OTAR" => m \in Within(out'[b])
  PROVE  RotationStage'
<1> USE OtherBoard
<1>1. \A b \in Boards : (Untouched(b)' <=> Untouched(b)) /\ (Silent(b) => Silent(b)')
  BY DEF Untouched, Silent, SendsNoOtar, rotation
<1>2. CASE Unrotated
  BY <1>1, <1>2 DEF RotationStage, Unrotated
<1>3. ASSUME NEW n \in Boards, Rotating(n) PROVE RotationStage'
  <2>1. election'[n] = election[n] /\ Silent(Other(n))'
    BY <1>1, <1>3 DEF Rotating
  <2>2. CASE Offered(n)
    <3>1. Offered(n)'
      BY <1>1, <2>1, <2>2 DEF Offered, SendsNoOtar, rotation
    <3> QED
      BY <1>3, <2>1, <3>1 DEF Rotating, RotationStage
  <2>3. CASE /\ \A m \in Within(out[n]) : m.type = "STATUS"
             /\ Taken(n) \/ Committed(n)
    <3>1. \A m \in Within(out'[n]) : m.type = "STATUS"
      BY <1>3, <2>3 DEF Rotating
    <3>2. Taken(n) => Taken(n)'
      BY <1>1, <2>1 DEF Taken, rotation
    <3>3. Committed(n) => Committed(n)'
      BY <2>1 DEF Committed, rotation
    <3> QED
      BY <1>3, <2>1, <2>3, <3>1, <3>2, <3>3 DEF Rotating, RotationStage
  <2> QED
    BY <1>3, <2>2, <2>3 DEF Rotating
<1> QED
  BY <1>2, <1>3 DEF CalmInvariant, RotationStage

(* The winner of an election keeps it.                                     *)
LEMMA WinnerKept ==
  ASSUME CalmInvariant, NEW n \in Boards, CalmStep(n)
  PROVE  \A b \in Boards : election[b].result = "WON" => election'[b] = election[b]
<1>1. election'[Other(n)] = election[Other(n)]
  BY ElectionsKept DEF CalmInvariant
<1>2. election[n].result = "WON" => election'[n] = election[n]
  BY ElectionsKept DEF CalmInvariant
<1> QED
  BY <1>1, <1>2 DEF Boards, Other

(* The OTAR arrives while it is offered, and its keys are taken.           *)
LEMMA OtarIsTaken ==
  ASSUME CalmInvariant, NEW n \in Boards, OtarArrives(n)
  PROVE  /\ Rotating(Other(n)) /\ Offered(Other(n))
         /\ Rotating(Other(n))' /\ Taken(Other(n))'
         /\ keys' = [keys EXCEPT ![n] = pending[Other(n)]]
<1> USE OtherBoard
<1> DEFINE o == Other(n)
           m == Head(out[o])
<1>1. /\ out \in [Boards -> Seq(Message)] /\ keys \in [Boards -> Keys]
      /\ cutover \in [Boards -> BOOLEAN] /\ confirmed \in [Boards -> BOOLEAN]
      /\ accepted \in [Boards -> Candidates \cup {NoOtar}]
  BY DEF CalmInvariant, ElectionInvariant, TypeOK
<1>2. /\ out[o] # <<>> /\ m.type = "OTAR" /\ out' = [out EXCEPT ![o] = Tail(@)]
      /\ keys' = [keys EXCEPT ![n] = m.body]
      /\ accepted' = [accepted EXCEPT ![n] = m.body]
      /\ cutover' = [cutover EXCEPT ![n] = TRUE]
      /\ confirmed' = [confirmed EXCEPT ![n] = FALSE]
      /\ UNCHANGED <<election, pending, matched>>
  BY DEF OtarArrives, Arriving
<1>3. m \in Within(out[o])
  BY <1>1, <1>2, WithinTail
<1>4. m.body = election[o].mine
  BY <1>2, <1>3 DEF CalmInvariant, OneCandidate, Said
<1>5. ~SendsNoOtar(o)
  BY <1>2, <1>3 DEF SendsNoOtar
<1>6. ~Unrotated /\ ~Rotating(n)
  BY <1>5 DEF Unrotated, Rotating, Silent
<1>7. Rotating(o)
  BY <1>6 DEF CalmInvariant, RotationStage, Boards, Other
<1>8. Offered(o)
  BY <1>2, <1>3, <1>7 DEF Rotating
<1>9. out'[o] = <<>> /\ out'[n] = out[n]
  BY <1>1, <1>2, <1>3, OtarAlone DEF CalmInvariant, QueueShape
<1>10. Taken(o)'
  BY <1>1, <1>2, <1>4, <1>8 DEF Taken, Offered, Untouched
<1>11. Silent(n)'
  BY <1>2, <1>7, <1>9 DEF Rotating, Silent, SendsNoOtar
<1>12. \A p \in Within(out'[o]) : p.type = "STATUS"
  BY <1>9, WithinEmpty
<1>13. Rotating(o)'
  BY <1>2, <1>7, <1>10, <1>11, <1>12 DEF Rotating
<1> QED
  BY <1>2, <1>4, <1>7, <1>8, <1>10, <1>13 DEF Offered

(* An FSR matches while the peer uses the keys, which lets the winner      *)
(* commit.                                                                 *)
LEMMA FsrMeansTaken ==
  ASSUME CalmInvariant, NEW n \in Boards, pending[n] # NoOtar,
         matched[n] \/ accepted[Other(n)] = pending[n]
  PROVE  Rotating(n) /\ Taken(n) /\ ~Offered(n) /\ ~Committed(n)
<1>1. ~Unrotated /\ ~Rotating(Other(n))
  BY OtherBoard DEF Unrotated, Rotating, Silent
<1>2. Rotating(n)
  BY <1>1 DEF CalmInvariant, RotationStage, Boards, Other
<1>3. ~Offered(n)
  BY OtherBoard DEF Offered, Untouched
<1>4. ~Committed(n)
  BY DEF Committed
<1> QED
  BY <1>2, <1>3, <1>4 DEF Rotating

(* The winner's OTAR opens the rotation.                                   *)
LEMMA SubmitOpens ==
  ASSUME CalmInvariant, NEW n \in Boards, SubmitOtar(n)
  PROVE  Unrotated /\ Rotating(n)'
<1> USE OtherBoard
<1> DEFINE m == [type |-> "OTAR", body |-> election[n].mine]
           o == Other(n)
<1>1. /\ election[n].result = "WON" /\ pending[n] = NoOtar /\ ~cutover[n]
      /\ Submit(n, m)
      /\ pending' = [pending EXCEPT ![n] = election[n].mine]
      /\ UNCHANGED <<election, matched, cutover, confirmed, keys, accepted>>
  BY DEF SubmitOtar
<1>2. TypeOK
  BY DEF CalmInvariant, ElectionInvariant
<1>3. ~Rotating(o)
  BY <1>1, OneRotates
<1>4. election[n].mine # NoOtar
  BY <1>1, WinnersKeys DEF CalmInvariant
<1>5. ~Rotating(n)
  BY <1>1, <1>4 DEF Rotating, Offered, Taken, Committed
<1>6. Unrotated
  BY <1>3, <1>5 DEF CalmInvariant, RotationStage, Boards, Other
<1>7. m \in Message
  BY <1>2 DEF TypeOK, Message, Keys, BootKeys
<1>8. m \in Within(out'[n]) /\ out'[o] = out[o]
  BY <1>1, <1>2, <1>7, SubmitWithin
<1>9. Offered(n)'
  <2>1. ~SendsNoOtar(n)'
    BY <1>8 DEF SendsNoOtar
  <2> QED
    BY <1>1, <1>2, <1>6, <2>1 DEF Offered, Unrotated, Untouched, Silent, TypeOK
<1>10. Silent(o)'
  BY <1>1, <1>2, <1>6, <1>8 DEF Unrotated, Silent, SendsNoOtar, TypeOK
<1> QED
  BY <1>1, <1>6, <1>9, <1>10 DEF Rotating

(* With the winner's commit both boards use its keys.                      *)
LEMMA CommitCloses ==
  ASSUME CalmInvariant, NEW n \in Boards, CommitKeys(n)
  PROVE  Rotating(n) /\ Taken(n) /\ Rotating(n)' /\ Committed(n)'
<1> USE OtherBoard
<1> DEFINE o == Other(n)
<1>1. /\ pending[n] # NoOtar /\ matched[n]
      /\ keys' = [keys EXCEPT ![n] = pending[n]]
      /\ pending' = [pending EXCEPT ![n] = NoOtar]
      /\ matched' = [matched EXCEPT ![n] = FALSE]
      /\ cutover' = [cutover EXCEPT ![n] = TRUE]
      /\ UNCHANGED <<election, accepted, out>>
  BY DEF CommitKeys, cop
<1>2. TypeOK
  BY DEF CalmInvariant, ElectionInvariant
<1>3. Rotating(n) /\ Taken(n) /\ ~Offered(n)
  BY <1>1, FsrMeansTaken
<1>4. Committed(n)'
  <2>1. \A b \in Boards : b = n \/ b = o
    BY DEF Boards, Other
  <2>2. keys'[n] = election[n].mine /\ keys'[o] = election[n].mine
        /\ cutover'[n] /\ cutover'[o]
    BY <1>1, <1>2, <1>3 DEF Taken, TypeOK
  <2>3. pending'[n] = NoOtar /\ ~matched'[n] /\ accepted'[n] = NoOtar
    BY <1>1, <1>2, <1>3 DEF Taken, Untouched, TypeOK
  <2> QED
    BY <1>1, <2>1, <2>2, <2>3 DEF Committed
<1>5. Silent(o)'
  BY <1>1, <1>2, <1>3 DEF Rotating, Silent, SendsNoOtar, TypeOK
<1> QED
  BY <1>1, <1>3, <1>4, <1>5 DEF Rotating

(* Traffic confirms a rotation only after both boards have committed.      *)
LEMMA ConfirmMeansCommitted ==
  ASSUME CalmInvariant, NEW n \in Boards, StatusArrives(n)
  PROVE  \/ UNCHANGED rotation
         \/ \E b \in Boards : Rotating(b) /\ Committed(b) /\ Rotating(b)' /\ Committed(b)'
<1> USE OtherBoard
<1> DEFINE o == Other(n)
           m == Head(out[o])
<1>1. /\ out[o] # <<>> /\ m.type = "STATUS" /\ m.body = keys[n]
      /\ out' = [out EXCEPT ![o] = Tail(@)]
      /\ confirmed' = [confirmed EXCEPT ![n] = @ \/ cutover[n]]
      /\ accepted' = [accepted EXCEPT ![n] =
                        IF cutover[n] /\ ~confirmed[n] THEN NoOtar ELSE @]
      /\ UNCHANGED <<election, pending, matched, cutover, keys>>
  BY DEF StatusArrives, Arriving
<1>2. TypeOK
  BY DEF CalmInvariant, ElectionInvariant
<1>3. CASE ~cutover[n]
  BY <1>1, <1>2, <1>3 DEF rotation, TypeOK
<1>4. m \in Within(out[o]) /\ \A b \in Boards : Within(out'[b]) \subseteq Within(out[b])
  BY <1>1, <1>2, WithinTail DEF TypeOK
<1>5. ASSUME NEW b \in Boards, Rotating(b), Committed(b)
      PROVE  Rotating(b)' /\ Committed(b)'
  <2>1. accepted'[b] = NoOtar
    BY <1>1, <1>2, <1>5 DEF Committed, TypeOK
  <2>2. Committed(b)'
    BY <1>1, <1>5, <2>1 DEF Committed
  <2>3. \A p \in Within(out'[b]) : p.type = "STATUS"
    BY <1>4, <1>5 DEF Rotating, Offered, Committed, SendsNoOtar, Untouched
  <2>4. Silent(Other(b))'
    BY <1>1, <1>4, <1>5 DEF Rotating, Silent, SendsNoOtar
  <2> QED
    BY <1>1, <1>5, <2>2, <2>3, <2>4 DEF Rotating
<1>6. CASE cutover[n]
  <2>1. ~Unrotated
    BY <1>6 DEF Unrotated, Untouched
  <2>2. PICK b \in Boards : Rotating(b)
    BY <2>1 DEF CalmInvariant, RotationStage
  <2>3. ~Offered(b)
    BY <1>6 DEF Offered, Untouched, Boards, Other
  <2>4. ~Taken(b)
    <3> SUFFICES ASSUME Taken(b) PROVE FALSE
      OBVIOUS
    <3>1. b = o
      BY <1>6 DEF Taken, Untouched, Boards, Other
    <3>2. keys[n] = election[o].mine /\ keys[o] = BootKeys
      BY <3>1 DEF Taken, Untouched
    <3>3. keys[n] # BootKeys
      BY <2>2, <3>1, <3>2, WinnersKeys DEF CalmInvariant, Rotating
    <3>4. m.body \in {BootKeys, keys[o]}
      BY <1>1, <1>4 DEF CalmInvariant, StatusKeys
    <3> QED
      BY <1>1, <3>2, <3>3, <3>4
  <2> QED
    BY <1>5, <2>2, <2>3, <2>4 DEF Rotating
<1> QED
  BY <1>3, <1>6

(* The rotation proceeds from stage to stage.                              *)
LEMMA StageStep ==
  ASSUME CalmInvariant, NEW n \in Boards, CalmStep(n)
  PROVE  RotationStage'
<1> USE OtherBoard
<1> DEFINE o == Other(n)
<1>1. TypeOK
  BY DEF CalmInvariant, ElectionInvariant
<1>2. ASSUME out' = out, UNCHANGED rotation PROVE RotationStage'
  BY <1>2, RotationFrame, WinnerKept
<1>3. CASE \/ CandidateArrives(n) \/ StatusRejected(n)
           \/ StatusArrives(n) /\ UNCHANGED rotation
  <2> DEFINE m == Head(out[o])
  <2>1. /\ out[o] # <<>> /\ m.type # "OTAR" /\ out' = [out EXCEPT ![o] = Tail(@)]
        /\ UNCHANGED rotation
    BY <1>3 DEF CandidateArrives, StatusRejected, StatusArrives, Arriving
  <2>2. Within(out[o]) = Within(out'[o]) \cup {m} /\ out'[n] = out[n]
    BY <1>1, <2>1, WithinTail DEF TypeOK
  <2>3. \A b \in Boards : b = n \/ b = o
    BY DEF Boards, Other
  <2>4. \A b \in Boards : \A p \in Within(out'[b]) : p \in Within(out[b])
    BY <2>2, <2>3
  <2>5. \A b \in Boards : \A p \in Within(out[b]) :
          p.type = "OTAR" => p \in Within(out'[b])
    BY <2>1, <2>2, <2>3
  <2> QED
    BY <2>1, <2>4, <2>5, RotationFrame, WinnerKept
<1>4. CASE SendStatus(n)
  <2> DEFINE m == [type |-> "STATUS", body |-> keys[n]]
  <2>1. m \in Message
    BY <1>1 DEF TypeOK, Message, RouterMessage
  <2>2. Submit(n, m) /\ UNCHANGED rotation
    BY <1>4 DEF SendStatus
  <2>3. \A b \in Boards : \A p \in Within(out'[b]) : p \in Within(out[b]) \/ p.type = "STATUS"
    BY <1>1, <2>1, <2>2, SubmitWithin
  <2>4. \A b \in Boards : Within(out[b]) \subseteq Within(out'[b])
    BY <1>1, <2>1, <2>2, SubmitWithin
  <2> QED
    BY <2>2, <2>3, <2>4, RotationFrame, WinnerKept
<1>5. CASE Announced(n)
  <2> DEFINE m == [type |-> "CANDIDATE", body |-> announcing[n].mine]
  <2>1. m \in Message
    BY <1>1 DEF TypeOK, Message, RouterMessage, Keys, BootKeys
  <2>2. /\ Submit(n, m) /\ UNCHANGED <<pending, keys, accepted>>
        /\ matched' = [matched EXCEPT ![n] = FALSE]
        /\ cutover' = [cutover EXCEPT ![n] = FALSE]
        /\ confirmed' = [confirmed EXCEPT ![n] = FALSE]
    BY <1>5 DEF Announced, CalmInvariant, Unbroken
  <2>3. Unsaid(n) /\ election[n].result = "WAITING"
    BY <1>5 DEF Announced, Blocked, CalmInvariant, OneCandidate
  <2>4. ~Rotating(o)
    BY <2>3, OneRotates, UnsaidUnheard
  <2>5. Unrotated
    BY <2>3, <2>4 DEF CalmInvariant, RotationStage, Rotating, Boards, Other
  <2>6. \A b \in Boards : Untouched(b)'
    BY <1>1, <2>2, <2>5 DEF Unrotated, Untouched, TypeOK
  <2>7. \A b \in Boards : SendsNoOtar(b)'
    <3>1. \A b \in Boards : \A p \in Within(out'[b]) : p \in Within(out[b]) \/ p = m
      <4> HIDE DEF m
      <4>1. Within(out'[n]) = Within(out[n]) \cup {m} /\ out'[o] = out[o]
        BY <1>1, <2>1, <2>2, SubmitWithin
      <4> QED
        BY <4>1 DEF Boards, Other
    <3> QED
      BY <2>5, <3>1 DEF Unrotated, Silent, SendsNoOtar
  <2>8. \A b \in Boards : Silent(b)'
    BY <1>1, <2>2, <2>5, <2>7 DEF Unrotated, Silent, TypeOK
  <2> QED
    BY <2>6, <2>8 DEF RotationStage, Unrotated
<1>6. CASE FsrArrives(n)
  <2>1. /\ pending[n] # NoOtar /\ accepted[o] = pending[n]
        /\ matched' = [matched EXCEPT ![n] = TRUE]
        /\ UNCHANGED <<election, pending, cutover, confirmed, keys, accepted, out>>
    BY <1>6 DEF FsrArrives, cop
  <2>2. Rotating(n) /\ Taken(n) /\ ~Offered(n)
    BY <2>1, FsrMeansTaken
  <2>3. Taken(n)' /\ Silent(o)'
    BY <1>1, <2>1, <2>2 DEF Rotating, Taken, Silent, Untouched, SendsNoOtar, TypeOK
  <2> QED
    BY <2>1, <2>2, <2>3 DEF Rotating, RotationStage
<1>7. CASE OtarArrives(n) \/ SubmitOtar(n) \/ CommitKeys(n)
  BY <1>7, OtarIsTaken, SubmitOpens, CommitCloses DEF RotationStage
<1>8. CASE StatusArrives(n)
  BY <1>3, <1>8, ConfirmMeansCommitted DEF RotationStage
<1>9. CASE \/ Acknowledge(n) \/ Router(n) \/ StartElection(n) \/ LinkSynchronized(n)
           \/ PeerTimeout(n) \/ ElectionTimeout(n)
  <2>1. UNCHANGED <<out, rotation>>
    BY <1>9 DEF Acknowledge, Router, HandleStatus, HandleCandidate, StartElection,
       LinkSynchronized, PeerTimeout, ElectionTimeout, cop
  <2> QED
    BY <1>2, <2>1
<1> QED
  BY <1>3, <1>4, <1>5, <1>6, <1>7, <1>8, <1>9 DEF CalmStep, Ingress, Rotate

(* Keys replace none but the boot keys.                                    *)
LEMMA KeysKept ==
  ASSUME CalmInvariant, NEW n \in Boards, CalmStep(n)
  PROVE  \A b \in Boards : keys'[b] = keys[b] \/ keys[b] = BootKeys
<1> USE OtherBoard
<1>1. keys \in [Boards -> Keys]
  BY DEF CalmInvariant, ElectionInvariant, TypeOK
<1>2. CASE OtarArrives(n)
  <2>1. keys[n] = BootKeys
    BY <1>2, OtarIsTaken DEF Offered, Untouched
  <2> QED
    BY <1>1, <1>2, <2>1, OtarIsTaken
<1>3. CASE CommitKeys(n)
  <2>1. keys[n] = BootKeys
    BY <1>3, CommitCloses DEF Taken, Untouched
  <2> QED
    BY <1>1, <1>3, <2>1 DEF CommitKeys
<1>4. CASE ~OtarArrives(n) /\ ~CommitKeys(n)
  <2>1. keys' = keys
    BY <1>4 DEF CalmStep, Ingress, CandidateArrives, StatusArrives, FsrArrives,
       Acknowledge, StatusRejected, Router, HandleStatus, HandleCandidate, Announced,
       StartElection, Rotate, SubmitOtar, SendStatus, LinkSynchronized, PeerTimeout,
       ElectionTimeout, rotation
  <2> QED
    BY <2>1
<1> QED
  BY <1>2, <1>3, <1>4

(* Which statuses are on their way after a calm step.                      *)
LEMMA StatusesKept ==
  ASSUME CalmInvariant, NEW n \in Boards, CalmStep(n), NEW b \in Boards,
         NEW m \in Within(out'[b]), m.type = "STATUS"
  PROVE  \/ m \in Within(out[b])
         \/ b = n /\ SendStatus(n) /\ m.body = keys[n]
<1> USE OtherBoard
<1>1. TypeOK /\ Unbroken
  BY DEF CalmInvariant, ElectionInvariant
<1>2. CASE out' = out
  BY <1>2
<1>3. CASE \E type : Arriving(n, type)
  <2>1. out[Other(n)] # <<>> /\ out' = [out EXCEPT ![Other(n)] = Tail(@)]
    BY <1>3 DEF Arriving
  <2>2. Within(Tail(out[Other(n)])) \subseteq Within(out[Other(n)])
    BY <1>1, <2>1, WithinTail DEF TypeOK
  <2> QED
    BY <1>1, <2>1, <2>2 DEF TypeOK
<1>4. ASSUME NEW p \in Message, Submit(n, p),
             \/ p.type # "STATUS"
             \/ SendStatus(n) /\ p.body = keys[n]
      PROVE  \/ m \in Within(out[b])
             \/ b = n /\ SendStatus(n) /\ m.body = keys[n]
  <2>1. Within(out'[n]) = Within(out[n]) \cup {p}
    BY <1>1, <1>4, SubmitWithin
  <2>2. b # n => out'[b] = out[b]
    BY <1>1, <1>4, SubmitWithin
  <2> QED
    BY <1>4, <2>1, <2>2
<1>5. CASE Announced(n)
  <2> DEFINE p == [type |-> "CANDIDATE", body |-> announcing[n].mine]
  <2>1. p \in Message
    BY <1>1 DEF TypeOK, Message, RouterMessage, Keys, BootKeys
  <2>2. Submit(n, p) /\ p.type # "STATUS"
    BY <1>1, <1>5 DEF Announced, Unbroken
  <2> HIDE DEF p
  <2> QED
    BY <1>4, <2>1, <2>2
<1>6. CASE SubmitOtar(n)
  <2> DEFINE p == [type |-> "OTAR", body |-> election[n].mine]
  <2>1. p \in Message
    BY <1>1 DEF TypeOK, Message, Keys, BootKeys
  <2>2. Submit(n, p) /\ p.type # "STATUS"
    BY <1>6 DEF SubmitOtar
  <2> HIDE DEF p
  <2> QED
    BY <1>4, <2>1, <2>2
<1>7. CASE SendStatus(n)
  <2> DEFINE p == [type |-> "STATUS", body |-> keys[n]]
  <2>1. p \in Message
    BY <1>1 DEF TypeOK, Message, RouterMessage
  <2>2. Submit(n, p) /\ p.body = keys[n]
    BY <1>7 DEF SendStatus
  <2> HIDE DEF p
  <2> QED
    BY <1>4, <1>7, <2>1, <2>2
<1>8. CASE ~Announced(n) /\ ~SubmitOtar(n) /\ ~SendStatus(n)
  <2>1. out' = out \/ \E type : Arriving(n, type)
    BY <1>8 DEF CalmStep, Ingress, CandidateArrives, OtarArrives, StatusArrives,
       FsrArrives, Acknowledge, StatusRejected, Router, HandleStatus,
       HandleCandidate, StartElection, Rotate, CommitKeys, LinkSynchronized,
       PeerTimeout, ElectionTimeout, cop
  <2> QED
    BY <1>2, <1>3, <2>1
<1> QED
  BY <1>5, <1>6, <1>7, <1>8

LEMMA StatusKeysStep ==
  ASSUME CalmInvariant, NEW n \in Boards, CalmStep(n)
  PROVE  StatusKeys'
<1> SUFFICES ASSUME NEW b \in Boards, NEW m \in Within(out'[b]), m.type = "STATUS"
             PROVE  m.body \in {BootKeys, keys'[b]}
  BY DEF StatusKeys
<1>1. keys'[b] = keys[b] \/ keys[b] = BootKeys
  BY KeysKept
<1>2. CASE m \in Within(out[b])
  BY <1>1, <1>2 DEF CalmInvariant, StatusKeys
<1>3. CASE b = n /\ SendStatus(n) /\ m.body = keys[n]
  BY <1>1, <1>3
<1> QED
  BY <1>2, <1>3, StatusesKept

(* While the world is undisturbed, all of this holds.                      *)
LEMMA CalmHolds == Spec => [](Undisturbed => CalmInvariant)
<1>1. Init => CalmInvariant
  <2> SUFFICES ASSUME Init PROVE CalmInvariant
    OBVIOUS
  <2> USE OtherBoard, WithinEmpty
  <2>1. TypeOK /\ CandidatesNamed /\ ElectionsLawful /\ OtarProtected
    <3>1. CandidatesNamed
      BY DEF Init, CandidatesNamed, Named, AnnouncedNamed, NotAnnouncing
    <3>2. ElectionsLawful
      BY NewLawful DEF Init, ElectionsLawful
    <3>3. OtarProtected
      BY DEF Init, OtarProtected
    <3> QED
      BY <3>1, <3>2, <3>3, TypeInit
  <2>2. Unbroken
    BY DEF Init, Unbroken
  <2>3. \A b \in Boards : Said(b) = {}
    BY DEF Init, Said
  <2>4. OneCandidate
    BY <2>3 DEF Init, OneCandidate, Unsaid, Idle, NotAnnouncing
  <2>5. QueueShape
    <3>1. Shape(<<>>)
      BY DEF Shape
    <3> QED
      BY <3>1 DEF Init, QueueShape
  <2>6. UnheardOnItsWay /\ StatusKeys
    BY DEF Init, UnheardOnItsWay, Announces, StatusKeys
  <2>7. RotationStage
    BY DEF Init, RotationStage, Unrotated, Untouched, Silent, SendsNoOtar
  <2> QED
    BY <2>1, <2>2, <2>4, <2>5, <2>6, <2>7 DEF CalmInvariant, ElectionInvariant
<1>2. ASSUME ElectionInvariant, ElectionInvariant', Undisturbed => CalmInvariant,
             [Next]_vars, Undisturbed'
      PROVE  CalmInvariant'
  <2>1. CASE UNCHANGED vars
    <3>1. CalmInvariant
      BY <1>2, <2>1 DEF vars, Undisturbed
    <3> QED
      BY <1>2, <2>1, <3>1 DEF vars, CalmInvariant, Unbroken, OneCandidate, Unsaid, Said,
         Heard, QueueShape, UnheardOnItsWay, Announces, RotationStage, Unrotated,
         Rotating, Offered, Taken, Committed, Untouched, Silent, SendsNoOtar, StatusKeys
  <2>2. CASE Next
    <3>1. PICK n \in Boards : Step(n)
      BY <2>2 DEF Next
    <3>2. CalmInvariant /\ CalmStep(n)
      BY <1>2, <3>1, StepsCalm DEF CalmInvariant, ElectionInvariant
    <3>3. Unbroken' /\ OneCandidate' /\ QueueShape' /\ UnheardOnItsWay'
      BY <3>2, StaysUnbroken, OneCandidateStep, ShapeStep, UnheardStep
         DEF CalmInvariant, ElectionInvariant
    <3>4. RotationStage' /\ StatusKeys'
      BY <3>2, StageStep, StatusKeysStep
    <3> QED
      BY <1>2, <3>3, <3>4 DEF CalmInvariant
  <2> QED
    BY <1>2, <2>1, <2>2
<1> QED
  BY <1>1, <1>2, ElectionInvariantHolds, PTL DEF Spec

-----------------------------------------------------------------------------
(* Traffic before any election has timed out.                              *)

(* The peer may not have heard of the board's election yet.                *)
Fresh(n) ==
  \/ election[n].result = "NONE"
  \/ announcing[n] # NotAnnouncing
  \/ Announces(n)

(* A status under the boot keys is ahead of the board's candidate, one     *)
(* under the new keys was sent after both boards had cut over.             *)
StatusPlaced == \A n \in Boards : \A m \in Within(out[n]) :
  m.type = "STATUS" => IF m.body = BootKeys THEN Fresh(n)
                       ELSE \A b \in Boards : keys[b] = m.body

PromptInvariant ==
  /\ CalmInvariant
  /\ \A n \in Boards : election[n].result # "TIMED_OUT"
  /\ StatusPlaced

LEMMA FreshUnheard ==
  ASSUME CalmInvariant, NEW n \in Boards, Fresh(n)
  PROVE  ~Heard(n)
BY UnsaidUnheard DEF CalmInvariant, OneCandidate, UnheardOnItsWay, Fresh

(* A board that may send traffic has not begun the rotation, or knows it   *)
(* to be over.                                                             *)
LEMMA SpeakersPlaced ==
  ASSUME PromptInvariant, NEW n \in Boards, StatusTxAllowed(n)
  PROVE  IF keys[n] = BootKeys THEN election[n].result = "NONE"
         ELSE \A b \in Boards : keys[b] = keys[n]
<1> USE OtherBoard
<1>1. CalmInvariant
  BY DEF PromptInvariant
<1>2. \/ election[n].result = "NONE" \/ confirmed[n]
      \/ cutover[n] /\ election[n].result = "WON"
  BY DEF PromptInvariant, StatusTxAllowed, ApplicationTxAllowed
<1>3. CASE Untouched(n)
  BY <1>2, <1>3 DEF Untouched
<1>4. CASE ~Untouched(n)
  <2>1. PICK b \in Boards : Rotating(b)
    BY <1>1, <1>4 DEF CalmInvariant, RotationStage, Unrotated
  <2>2. b = n \/ b = Other(n)
    BY DEF Boards, Other
  <2>3. ~Offered(b)
    BY <1>4, <2>2 DEF Offered
  <2>4. ~Taken(b)
    <3> SUFFICES ASSUME Taken(b) PROVE FALSE
      OBVIOUS
    <3>1. n = Other(b) /\ ~confirmed[n]
      BY <1>4, <2>2 DEF Taken
    <3>2. election[n].result # "WON" /\ Heard(n)
      BY <1>1, <2>1, <3>1, OneRotates
    <3>3. election[n].result # "NONE"
      BY <1>1, <3>2, FreshUnheard DEF Fresh
    <3> QED
      BY <1>2, <3>1, <3>2, <3>3
  <2>5. Committed(b) /\ election[b].mine # BootKeys
    BY <1>1, <2>1, <2>3, <2>4, WinnersKeys DEF Rotating, CalmInvariant
  <2> QED
    BY <2>5 DEF Committed
<1> QED
  BY <1>3, <1>4

(* A status stays ahead of the candidate.                                  *)
LEMMA FreshKept ==
  ASSUME CalmInvariant, NEW n \in Boards, CalmStep(n), NEW b \in Boards, Fresh(b),
         out'[b] # <<>>
  PROVE  Fresh(b)'
<1> USE OtherBoard
<1> DEFINE o == Other(n)
<1>1. TypeOK /\ out \in [Boards -> Seq(Message)]
  BY DEF CalmInvariant, ElectionInvariant, TypeOK
<1>2. Announces(b) => Announces(b)'
  <2>1. CASE out' = out
    BY <2>1 DEF Announces
  <2>2. CASE \E type : Arriving(n, type)
    <3>1. out[o] # <<>> /\ out' = [out EXCEPT ![o] = Tail(@)]
      BY <2>2 DEF Arriving
    <3>2. CASE b = o
      <4>1. out'[o] = Tail(out[o])
        BY <1>1, <3>1
      <4>2. Head(out[o]).type # "CANDIDATE"
        BY <3>1, <3>2, <4>1 DEF CalmInvariant, QueueShape, Shape
      <4>3. Within(out[o]) = Within(out'[o]) \cup {Head(out[o])}
        BY <1>1, <3>1, <4>1, WithinTail
      <4> QED
        BY <3>2, <4>2, <4>3 DEF Announces
    <3>3. CASE b # o
      BY <1>1, <3>1, <3>3 DEF Announces
    <3> QED
      BY <3>2, <3>3
  <2>3. CASE \E m \in Message : Submit(n, m)
    <3>1. \A c \in Boards : Within(out[c]) \subseteq Within(out'[c])
      BY <1>1, <2>3, SubmitWithin
    <3> QED
      BY <3>1 DEF Announces
  <2> QED
    BY <1>1, <2>1, <2>2, <2>3, OutKept DEF CalmInvariant
<1>3. CASE b = o
  <2>1. election'[o] = election[o] /\ announcing'[o] = announcing[o]
    BY ElectionsKept DEF CalmInvariant
  <2> QED
    BY <1>2, <1>3, <2>1 DEF Fresh
<1>4. CASE b = n /\ Announced(n)
  <2> DEFINE m == [type |-> "CANDIDATE", body |-> announcing[n].mine]
  <2>1. m \in Message
    BY <1>1 DEF TypeOK, Message, RouterMessage, Keys, BootKeys
  <2>2. Submit(n, m) /\ m.type = "CANDIDATE"
    BY <1>4 DEF Announced, CalmInvariant, Unbroken
  <2> HIDE DEF m
  <2>3. m \in Within(out'[n])
    <3>1. Within(out'[n]) = Within(out[n]) \cup {m}
      BY <1>1, <2>1, <2>2, SubmitWithin
    <3> QED
      BY <3>1
  <2> QED
    BY <1>4, <2>2, <2>3 DEF Fresh, Announces
<1>5. CASE b = n /\ ~Announced(n)
  <2>1. CASE UNCHANGED <<election, announcing>>
    BY <1>2, <1>5, <2>1 DEF Fresh
  <2>2. CASE \E c \in Of(n), for \in {"own", "peer"},
                d \in {NoCandidate, election[o].mine} :
               announcing'[n] = [for |-> for, mine |-> c, theirs |-> d]
    <3>1. announcing'[n].for # "nobody"
      BY <2>2
    <3> QED
      BY <1>5, <3>1 DEF Fresh, NotAnnouncing
  <2>3. CASE /\ announcing'[n] = NotAnnouncing
             /\ election[n].result = "WAITING" \/ election'[n] = election[n]
    <3>1. announcing[n] = NotAnnouncing \/ announcing'[n] = announcing[n]
      BY <1>5 DEF CalmStep, Ingress, CandidateArrives, OtarArrives, StatusArrives,
         FsrArrives, Acknowledge, StatusRejected, Router, HandleStatus,
         HandleCandidate, StartElection, Rotate, SubmitOtar, CommitKeys, SendStatus,
         LinkSynchronized, PeerTimeout, ElectionTimeout, Ticking, Blocked
    <3>2. election[n].result = "NONE" => election'[n].result = "NONE"
      BY <2>3
    <3> QED
      BY <1>2, <1>5, <2>3, <3>1, <3>2 DEF Fresh
  <2> QED
    BY <2>1, <2>2, <2>3, ElectionsKept DEF CalmInvariant
<1> QED
  BY <1>3, <1>4, <1>5 DEF Boards, Other

LEMMA PromptStep ==
  ASSUME PromptInvariant, NEW n \in Boards, CalmStep(n), ~ElectionTimeout(n)
  PROVE  StatusPlaced' /\ \A b \in Boards : election'[b].result # "TIMED_OUT"
<1> USE OtherBoard
<1>1. CalmInvariant /\ TypeOK /\ out \in [Boards -> Seq(Message)]
  BY DEF PromptInvariant, CalmInvariant, ElectionInvariant, TypeOK
<1>2. StatusPlaced'
  <2> SUFFICES ASSUME NEW b \in Boards, NEW m \in Within(out'[b]), m.type = "STATUS"
               PROVE  IF m.body = BootKeys THEN Fresh(b)'
                      ELSE \A c \in Boards : keys'[c] = m.body
    BY DEF StatusPlaced
  <2>1. out'[b] # <<>>
    BY WithinEmpty
  <2>2. CASE m \in Within(out[b])
    <3>1. CASE m.body = BootKeys
      BY <1>1, <2>1, <2>2, <3>1, FreshKept DEF PromptInvariant, StatusPlaced
    <3>2. CASE m.body # BootKeys
      <4>1. \A c \in Boards : keys[c] = m.body
        BY <2>2, <3>2 DEF PromptInvariant, StatusPlaced
      <4> QED
        BY <1>1, <3>2, <4>1, KeysKept
    <3> QED
      BY <3>1, <3>2
  <2>3. CASE b = n /\ SendStatus(n) /\ m.body = keys[n]
    <3>1. UNCHANGED <<election, keys>> /\ StatusTxAllowed(n)
      BY <2>3 DEF SendStatus, rotation
    <3> QED
      BY <2>3, <3>1, SpeakersPlaced DEF Fresh
  <2> QED
    BY <1>1, <2>2, <2>3, StatusesKept
<1>3. \A b \in Boards : election'[b].result # "TIMED_OUT"
  <2>1. election \in [Boards -> Elections]
    BY <1>1 DEF TypeOK, Elections
  <2>2. \A e \in Elections : \A c : Decided(e, c).result \in {e.result, "WON", "LOST"}
    BY DEF Decided, Elections
  <2>3. ASSUME NEW c, election' = [election EXCEPT ![n] = Decided(@, c)]
        PROVE  \A b \in Boards : election'[b].result # "TIMED_OUT"
    BY <2>1, <2>2, <2>3 DEF PromptInvariant
  <2>4. ASSUME NEW for, NEW theirs, Announce(n, for, theirs)
        PROVE  \A b \in Boards : election'[b].result # "TIMED_OUT"
    BY <2>1, <2>4 DEF Announce, PromptInvariant
  <2>5. CASE HandleCandidate(n)
    BY <2>3, <2>4, <2>5 DEF HandleCandidate
  <2>6. CASE StartElection(n)
    BY <2>4, <2>6 DEF StartElection
  <2>7. CASE Announced(n)
    BY <1>1, <2>3, <2>7 DEF Announced, CalmInvariant, Unbroken, PromptInvariant
  <2>8. CASE ~HandleCandidate(n) /\ ~StartElection(n) /\ ~Announced(n)
    <3>1. UNCHANGED election
      BY <2>8 DEF CalmStep, Ingress, CandidateArrives, OtarArrives, StatusArrives,
         FsrArrives, Acknowledge, StatusRejected, Router, HandleStatus, Rotate,
         SubmitOtar, CommitKeys, SendStatus, LinkSynchronized, PeerTimeout
    <3> QED
      BY <3>1 DEF PromptInvariant
  <2> QED
    BY <2>5, <2>6, <2>7, <2>8
<1> QED
  BY <1>2, <1>3

LEMMA PromptHolds == Spec => [](faults = 0 => PromptInvariant)
<1> DEFINE Calm == Undisturbed => CalmInvariant
           Prompt == faults = 0 => PromptInvariant
<1>1. Init /\ Calm => Prompt
  <2> SUFFICES ASSUME Init, Calm PROVE Prompt
    OBVIOUS
  <2>1. CalmInvariant
    BY DEF Init, Undisturbed
  <2>2. StatusPlaced
    BY WithinEmpty DEF Init, StatusPlaced
  <2>3. \A n \in Boards : election[n].result # "TIMED_OUT"
    BY DEF Init, Idle
  <2> QED
    BY <2>1, <2>2, <2>3 DEF PromptInvariant
<1>2. ASSUME ElectionInvariant, Calm, Calm', Prompt, [Next]_vars, faults' = 0
      PROVE  PromptInvariant'
  <2>1. CASE UNCHANGED vars
    <3>1. PromptInvariant
      BY <1>2, <2>1 DEF vars
    <3>2. CalmInvariant'
      BY <1>2 DEF Undisturbed
    <3> QED
      BY <2>1, <3>1, <3>2
         DEF vars, PromptInvariant, StatusPlaced, Fresh, Announces
  <2>2. CASE Next
    <3>1. PICK n \in Boards : Step(n)
      BY <2>2 DEF Next
    <3>2. Undisturbed' /\ (Undisturbed => Unbroken)
      BY <1>2 DEF Undisturbed, CalmInvariant
    <3>3. CalmStep(n) /\ CalmInvariant'
      BY <1>2, <3>1, <3>2, StepsCalm DEF ElectionInvariant
    <3>4. faults = 0 /\ ~ElectionTimeout(n)
      <4>1. faults \in Nat
        BY <1>2, MaxFaultsAssumption DEF ElectionInvariant, TypeOK
      <4>2. faults' = faults \/ ElectionTimeout(n)
        BY <3>3 DEF CalmStep, Ingress, CandidateArrives, OtarArrives, StatusArrives,
           FsrArrives, Acknowledge, StatusRejected, Router, HandleStatus,
           HandleCandidate, Announced, StartElection, Rotate, SubmitOtar, CommitKeys,
           SendStatus, LinkSynchronized, PeerTimeout
      <4> QED
        BY <1>2, <4>1, <4>2 DEF ElectionTimeout
    <3>5. PromptInvariant
      BY <1>2, <3>4
    <3> QED
      BY <3>3, <3>4, <3>5, PromptStep DEF PromptInvariant
  <2> QED
    BY <1>2, <2>1, <2>2
<1>3. ElectionInvariant /\ Calm /\ Calm' /\ Prompt /\ [Next]_vars => Prompt'
  BY <1>2
<1> HIDE DEF Prompt
<1>4. Spec => []Prompt
  BY <1>1, <1>3, CalmHolds, ElectionInvariantHolds, PTL DEF Spec
<1> QED
  BY <1>4 DEF Prompt

(* Before an election has timed out or another fault has struck, every     *)
(* status on its way is authenticated under the keys its receiver uses,    *)
(* whatever the order of candidates, OTAR, FSR and cutovers                *)
(* (demo_recovery_status_tx_allowed).                                      *)
THEOREM TrafficIsUnderstood == Spec => []TrafficUnderstood
<1>1. ASSUME PromptInvariant, NEW n \in Boards, NEW m \in Within(out[n]),
             m.type = "STATUS"
      PROVE  m.body = keys[Other(n)]
  <2> USE OtherBoard
  <2>1. CalmInvariant
    BY <1>1 DEF PromptInvariant
  <2>2. CASE m.body # BootKeys
    BY <1>1, <2>2 DEF PromptInvariant, StatusPlaced
  <2>3. CASE m.body = BootKeys
    <3>1. Fresh(n) /\ ~Heard(n)
      BY <1>1, <2>1, <2>3, FreshUnheard DEF PromptInvariant, StatusPlaced
    <3>2. ~Rotating(Other(n))
      BY <2>1, <3>1, OneRotates
    <3>3. CASE Unrotated
      BY <2>3, <3>3 DEF Unrotated, Untouched
    <3>4. CASE Rotating(n)
      <4>1. Announces(n)
        BY <2>1, <3>1, <3>4 DEF Fresh, Rotating, CalmInvariant, OneCandidate
      <4>2. Offered(n)
        BY <3>4, <4>1 DEF Announces, Rotating
      <4> QED
        BY <2>3, <4>2 DEF Offered, Untouched
    <3> QED
      BY <2>1, <3>2, <3>3, <3>4 DEF CalmInvariant, RotationStage, Boards, Other
  <2> QED
    BY <2>2, <2>3
<1>2. (faults = 0 => PromptInvariant) => TrafficUnderstood
  BY <1>1 DEF TrafficUnderstood, Within
<1> QED
  BY <1>2, PromptHolds, PTL

-----------------------------------------------------------------------------
(* What holds however often an election times out.                         *)

(* Where an answer may be late but no link fails, never do both boards     *)
(* have an OTAR in flight (demo_recovery_otar_submission_allowed).         *)
THEOREM OneOtarSender ==
  ASSUME Faults \subseteq {"timeout"}
  PROVE  Spec => []SoleOtarSender
<1>1. (Undisturbed => CalmInvariant) => SoleOtarSender
  <2> SUFFICES ASSUME CalmInvariant PROVE SoleOtarSender
    BY DEF Undisturbed
  <2>1. Unrotated => SoleOtarSender
    BY DEF Unrotated, Silent, SoleOtarSender, Boards
  <2>2. \A n \in Boards : Rotating(n) => SoleOtarSender
    BY OtherBoard DEF Rotating, Silent, SoleOtarSender
  <2> QED
    BY <2>1, <2>2 DEF CalmInvariant, RotationStage
<1> QED
  BY <1>1, CalmHolds, PTL

(* A candidate is submitted before the rotation.                           *)
LEMMA AnnouncedFirst ==
  ASSUME CalmInvariant, NEW n \in Boards, Announced(n)
  PROVE  Unrotated
<1>1. Unsaid(n) /\ election[n].result = "WAITING"
  BY DEF Announced, Blocked, CalmInvariant, OneCandidate
<1>2. ~Rotating(Other(n))
  BY <1>1, OneRotates, UnsaidUnheard, OtherBoard
<1> QED
  BY <1>1, <1>2 DEF CalmInvariant, RotationStage, Rotating, Boards, Other

(* Each step of the boards is an operation of KeyRotation, or none.        *)
LEMMA PromiseKeptStep ==
  ASSUME CalmInvariant, NEW n \in Boards, CalmStep(n)
  PROVE  [KeyPromise!Next]_KeyPromise!vars
<1> USE OtherBoard
<1> DEFINE o == Other(n)
<1>1. /\ TypeOK /\ Boards \ {n} = {o}
      /\ \A b \in Boards : b = n \/ b = o
  BY DEF CalmInvariant, ElectionInvariant, Boards, Other
<1>2. CASE SubmitOtar(n)
  <2> DEFINE k == election[n].mine
  <2>1. k \in Keys \ {NoOtar} /\ k # BootKeys
    BY <1>2, WinnersKeys DEF SubmitOtar, CalmInvariant, Keys
  <2>2. Unrotated
    BY <1>2, SubmitOpens
  <2>3. pending' = [pending EXCEPT ![n] = k] /\ UNCHANGED <<keys, confirmed>>
    BY <1>2 DEF SubmitOtar
  <2>4. KeyPromise!Offer(n, k)
    BY <2>1, <2>2, <2>3
       DEF KeyPromise!Offer, KeyPromise!Agreed, Unrotated, Untouched, Silent
  <2> QED
    BY <2>1, <2>4 DEF KeyPromise!Next
<1>3. CASE OtarArrives(n)
  <2>1. Offered(o) /\ keys' = [keys EXCEPT ![n] = pending[o]]
        /\ election[o].result = "WON"
    BY <1>3, OtarIsTaken DEF Rotating
  <2>2. /\ confirmed' = [confirmed EXCEPT ![n] = FALSE]
        /\ UNCHANGED pending
    BY <1>3 DEF OtarArrives
  <2>3. pending[o] \notin {NoOtar, keys[n]}
    BY <2>1, WinnersKeys DEF CalmInvariant, Offered, Untouched
  <2>4. KeyPromise!Install(n, o)
    BY <2>1, <2>2, <2>3 DEF KeyPromise!Install
  <2> QED
    BY <1>1, <2>4 DEF KeyPromise!Next
<1>4. CASE CommitKeys(n)
  <2>1. Taken(n)
    BY <1>4, CommitCloses
  <2>2. KeyPromise!Commit(n)
    BY <1>1, <1>4, <2>1 DEF KeyPromise!Commit, CommitKeys, Taken
  <2> QED
    BY <2>2 DEF KeyPromise!Next
<1>5. CASE StatusArrives(n)
  <2>1. CASE UNCHANGED rotation
    BY <2>1 DEF rotation, KeyPromise!vars
  <2>2. ASSUME NEW b \in Boards, Rotating(b), Committed(b)
        PROVE  KeyPromise!Confirm(n)
    <3>1. election[b].mine # BootKeys /\ cutover[n]
      BY <2>2, WinnersKeys DEF Rotating, CalmInvariant, Committed
    <3>2. confirmed' = [confirmed EXCEPT ![n] = TRUE] /\ UNCHANGED <<keys, pending>>
      BY <1>1, <1>5, <3>1 DEF StatusArrives, TypeOK
    <3> QED
      BY <2>2, <3>1, <3>2 DEF KeyPromise!Confirm, KeyPromise!Agreed, Committed
  <2> QED
    BY <1>5, <2>1, <2>2, ConfirmMeansCommitted DEF KeyPromise!Next
<1>6. CASE Announced(n)
  <2>1. ~confirmed[n]
    BY <1>6, AnnouncedFirst DEF Unrotated, Untouched
  <2>2. /\ UNCHANGED <<keys, pending>>
        /\ confirmed' = [confirmed EXCEPT ![n] = FALSE]
    BY <1>6 DEF Announced, CalmInvariant, Unbroken
  <2>3. confirmed' = confirmed
    BY <1>1, <2>1, <2>2 DEF TypeOK
  <2> QED
    BY <2>2, <2>3 DEF KeyPromise!vars
<1>7. CASE \/ CandidateArrives(n) \/ FsrArrives(n) \/ Acknowledge(n)
           \/ StatusRejected(n) \/ Router(n) \/ StartElection(n) \/ SendStatus(n)
           \/ LinkSynchronized(n) \/ PeerTimeout(n) \/ ElectionTimeout(n)
  <2>1. UNCHANGED <<keys, pending, confirmed>>
    BY <1>7 DEF CandidateArrives, FsrArrives, Acknowledge, StatusRejected, Router,
       HandleStatus, HandleCandidate, StartElection, SendStatus, LinkSynchronized,
       PeerTimeout, ElectionTimeout, rotation
  <2> QED
    BY <2>1 DEF KeyPromise!vars
<1> QED
  BY <1>2, <1>3, <1>4, <1>5, <1>6, <1>7 DEF CalmStep, Ingress, Rotate

(* Where an answer may be late but no link fails, the elections, the OTAR, *)
(* its FSR, the cutovers and the traffic that confirms them implement      *)
(* KeyRotation.                                                            *)
THEOREM KeyPromiseKept ==
  ASSUME Faults \subseteq {"timeout"}
  PROVE  Spec => KeepsKeyPromise
<1> DEFINE Calm == Undisturbed => CalmInvariant
<1>1. Init => KeyPromise!Init
  BY DEF Init, KeyPromise!Init
<1>2. Calm /\ Calm' /\ ElectionInvariant /\ [Next]_vars
        => [KeyPromise!Next]_KeyPromise!vars
  <2> SUFFICES ASSUME CalmInvariant, [Next]_vars
               PROVE  [KeyPromise!Next]_KeyPromise!vars
    BY DEF Undisturbed
  <2>1. CASE UNCHANGED vars
    BY <2>1 DEF vars, KeyPromise!vars
  <2>2. CASE Next
    <3>1. PICK n \in Boards : Step(n)
      BY <2>2 DEF Next
    <3>2. CalmStep(n)
      BY <3>1, StepsCalm DEF CalmInvariant, ElectionInvariant, Undisturbed
    <3> QED
      BY <3>2, PromiseKeptStep
  <2> QED
    BY <2>1, <2>2
<1> QED
  BY <1>1, <1>2, CalmHolds, ElectionInvariantHolds, PTL
     DEF Spec, KeepsKeyPromise, KeyPromise!Spec

(* ... and the winner commits its keys only while its peer uses them       *)
(* (service_sdls_recovery, security_receive_fsr).                          *)
THEOREM CommitsFollowInstall ==
  ASSUME Faults \subseteq {"timeout"}
  PROVE  Spec => CommitFollowsInstall
<1>1. (Undisturbed => CalmInvariant) /\ [Next]_vars =>
        [\A n \in Boards : pending[n] # NoOtar /\ pending'[n] = NoOtar
                             => keys[Other(n)] = pending[n]]_vars
  <2> SUFFICES ASSUME CalmInvariant, Next, NEW b \in Boards,
                      pending[b] # NoOtar, pending'[b] = NoOtar
               PROVE  keys[Other(b)] = pending[b]
    BY DEF Undisturbed
  <2>1. PICK n \in Boards : CalmStep(n)
    BY StepsCalm DEF Next, CalmInvariant, ElectionInvariant, Undisturbed
  <2>2. pending \in [Boards -> Candidates \cup {NoOtar}]
    BY DEF CalmInvariant, ElectionInvariant, TypeOK
  <2>3. CommitKeys(n) /\ b = n
    <3>1. CASE SubmitOtar(n)
      BY <2>2, <3>1, WinnersKeys DEF SubmitOtar, CalmInvariant
    <3>2. CASE ~SubmitOtar(n) /\ ~CommitKeys(n)
      <4>1. UNCHANGED pending
        BY <2>1, <3>2 DEF CalmStep, Ingress, CandidateArrives, OtarArrives,
           StatusArrives, FsrArrives, Acknowledge, StatusRejected, Router,
           HandleStatus, HandleCandidate, Announced, StartElection, Rotate, SendStatus,
           LinkSynchronized, PeerTimeout, ElectionTimeout, rotation
      <4> QED
        BY <4>1
    <3>3. CommitKeys(n) => b = n
      BY <2>2 DEF CommitKeys
    <3> QED
      BY <3>1, <3>2, <3>3
  <2> QED
    BY <2>3, CommitCloses DEF Taken
<1> QED
  BY <1>1, CalmHolds, PTL DEF Spec, CommitFollowsInstall
=============================================================================
