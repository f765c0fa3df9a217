---------------------------- MODULE RecoveryProofs ----------------------------
(***************************************************************************)
(* Recovery for any candidate values, any number of attempts and any       *)
(* faults: the worker's fields keep their types, two elections that have   *)
(* heard each other agree, a pending OTAR keeps its election, and no keys  *)
(* are sent twice.                                                         *)
(***************************************************************************)
EXTENDS Recovery, TLAPS

-----------------------------------------------------------------------------
(* Types.                                                                  *)

(* The peer of a board is the other board.                                 *)
LEMMA OtherBoard ==
  ASSUME NEW n \in Boards
  PROVE  Other(n) \in Boards /\ Other(n) # n /\ Other(Other(n)) = n
BY DEF Boards, Other

(* Submitting a packet keeps the types of COP-1's variables.               *)
LEMMA SubmitType ==
  ASSUME TypeOK, NEW n \in Boards, NEW m \in Message, Submit(n, m)
  PROVE  /\ out' \in [Boards -> Seq(Message)]
         /\ unacked' \in [Boards -> BOOLEAN]
         /\ inStep' \in [Boards -> BOOLEAN]
<1>1. Append(out[n], m) \in Seq(Message)
  BY DEF TypeOK
<1> QED
  BY <1>1 DEF TypeOK, Submit

(* So does setting COP-1 from a CLCW.                                      *)
LEMMA ResynchronizeType ==
  ASSUME TypeOK, NEW n \in Boards, Resynchronize(n)
  PROVE  /\ out' \in [Boards -> Seq(Message)]
         /\ unacked' \in [Boards -> BOOLEAN]
         /\ inStep' \in [Boards -> BOOLEAN]
<1>1. <<>> \in Seq(Message)
  OBVIOUS
<1> QED
  BY <1>1 DEF TypeOK, Resynchronize

(* An arriving packet is a message, and the rest of the queue is typed.    *)
LEMMA ArrivingType ==
  ASSUME TypeOK, NEW n \in Boards, NEW type, Arriving(n, type)
  PROVE  /\ Head(out[Other(n)]) \in Message
         /\ Head(out[Other(n)]).type = type
         /\ out' \in [Boards -> Seq(Message)]
         /\ unacked' \in [Boards -> BOOLEAN]
         /\ inStep' \in [Boards -> BOOLEAN]
<1> DEFINE o == Other(n)
<1>1. o \in Boards
  BY OtherBoard
<1>2. out[o] \in Seq(Message) /\ out[o] # <<>>
  BY <1>1 DEF TypeOK, Arriving
<1>3. Head(out[o]) \in Message /\ Tail(out[o]) \in Seq(Message)
  BY <1>2
<1> QED
  BY <1>1, <1>3 DEF TypeOK, Arriving

(* A message that is not an OTAR can wait in the router queue.             *)
LEMMA RouterMessageType ==
  ASSUME NEW m \in Message, m.type # "OTAR"
  PROVE  m \in RouterMessage
BY DEF Message, RouterMessage

(* The state of an election, and of a blocked submission.                  *)
Elections ==
  [result : {"NONE", "WAITING", "WON", "LOST", "TIMED_OUT"},
   mine : Candidates \cup {NoCandidate}, theirs : Candidates \cup {NoCandidate}]
Announcements ==
  [for : {"nobody", "own", "peer"}, mine : Candidates \cup {NoCandidate},
   theirs : Candidates \cup {NoCandidate}]

(* Deciding an election keeps its type.                                    *)
LEMMA DecidedType ==
  ASSUME NEW e \in Elections, NEW c \in Keys
  PROVE  Decided(e, c) \in Elections
BY DEF Elections, Decided, Keys, BootKeys

(* An announcement names a fresh candidate of the board.                   *)
LEMMA AnnounceType ==
  ASSUME TypeOK, NEW n \in Boards, NEW for \in {"own", "peer"},
         NEW theirs \in Keys, Announce(n, for, theirs)
  PROVE  /\ election' \in [Boards -> Elections]
         /\ announcing' \in [Boards -> Announcements]
         /\ pending[n] = NoOtar
         /\ \E c \in Candidates :
              /\ c.board = n
              /\ election' = [election EXCEPT ![n] =
                   [result |-> "WAITING", mine |-> c, theirs |-> NoCandidate]]
              /\ announcing' = [announcing EXCEPT ![n] =
                   [for |-> for, mine |-> c, theirs |-> theirs]]
<1>1. PICK a \in 1..MaxCandidates, v \in Values :
        LET mine == [board |-> n, attempt |-> a, value |-> v] IN
        /\ election' = [election EXCEPT ![n] =
             [result |-> "WAITING", mine |-> mine, theirs |-> NoCandidate]]
        /\ announcing' = [announcing EXCEPT ![n] =
             [for |-> for, mine |-> mine, theirs |-> theirs]]
  BY DEF Announce
<1> DEFINE c == [board |-> n, attempt |-> a, value |-> v]
<1>2. c \in Candidates /\ c.board = n
  BY DEF Candidates
<1>3. /\ [result |-> "WAITING", mine |-> c, theirs |-> NoCandidate] \in Elections
      /\ [for |-> for, mine |-> c, theirs |-> theirs] \in Announcements
  BY <1>2 DEF Elections, Announcements, Keys, BootKeys
<1>4. election \in [Boards -> Elections] /\ announcing \in [Boards -> Announcements]
  BY DEF TypeOK, Elections, Announcements
<1>5. pending[n] = NoOtar
  BY DEF Announce
<1> HIDE DEF c
<1>6. /\ election' = [election EXCEPT ![n] =
           [result |-> "WAITING", mine |-> c, theirs |-> NoCandidate]]
      /\ announcing' = [announcing EXCEPT ![n] =
           [for |-> for, mine |-> c, theirs |-> theirs]]
  BY <1>1 DEF c
<1> QED
  BY <1>2, <1>3, <1>4, <1>5, <1>6

(* The initial state is typed.                                             *)
LEMMA TypeInit == Init => TypeOK
<1> SUFFICES ASSUME Init PROVE TypeOK
  OBVIOUS
<1>1. <<>> \in Seq(Message) /\ <<>> \in Seq(RouterMessage)
  OBVIOUS
<1>2. Idle \in Elections /\ NotAnnouncing \in Announcements
  BY DEF Idle, NotAnnouncing, Elections, Announcements
<1>3. 0 \in 0..MaxFaults
  BY MaxFaultsAssumption
<1> QED
  BY <1>1, <1>2, <1>3 DEF Init, TypeOK, Elections, Announcements, Keys, BootKeys,
     NoOtar

(* Every step of a board keeps the types.                                  *)
LEMMA TypeStep ==
  ASSUME TypeOK, NEW n \in Boards, Step(n)
  PROVE  TypeOK'
<1> USE OtherBoard
<1>1. /\ election \in [Boards -> Elections] /\ announcing \in [Boards -> Announcements]
      /\ Idle \in Elections /\ NotAnnouncing \in Announcements
  BY DEF TypeOK, Elections, Announcements, Idle, NotAnnouncing
<1>2. faults \in Nat /\ MaxFaults \in Nat /\ faults <= MaxFaults
  BY MaxFaultsAssumption DEF TypeOK
<1>3. CASE CandidateArrives(n)
  <2> DEFINE m == Head(out[Other(n)])
  <2>1. m \in RouterMessage
    BY <1>3, ArrivingType, RouterMessageType DEF CandidateArrives
  <2>2. inbox' \in [Boards -> Seq(RouterMessage)]
    <3>1. Append(inbox[n], m) \in Seq(RouterMessage)
      BY <2>1 DEF TypeOK
    <3> QED
      BY <3>1, <1>3 DEF TypeOK, CandidateArrives
  <2> QED
    BY <1>3, <2>2, ArrivingType DEF CandidateArrives, TypeOK, phase, rotation
<1>4. CASE OtarArrives(n)
  <2>1. Head(out[Other(n)]).body \in Keys /\ Head(out[Other(n)]).body \in Candidates \cup {NoOtar}
    BY <1>4, ArrivingType DEF OtarArrives, Message, RouterMessage, Keys, BootKeys, NoOtar
  <2> QED
    BY <1>4, <2>1, ArrivingType DEF OtarArrives, TypeOK, phase
<1>5. CASE StatusArrives(n)
  <2> DEFINE m == Head(out[Other(n)])
  <2>1. m \in RouterMessage
    BY <1>5, ArrivingType, RouterMessageType DEF StatusArrives
  <2>2. inbox' \in [Boards -> Seq(RouterMessage)]
    <3>1. Append(inbox[n], m) \in Seq(RouterMessage)
      BY <2>1 DEF TypeOK
    <3> QED
      BY <3>1, <1>5 DEF TypeOK, StatusArrives
  <2>3. confirmed' \in [Boards -> BOOLEAN] /\ accepted' \in [Boards -> Candidates \cup {NoOtar}]
    BY <1>5 DEF StatusArrives, TypeOK
  <2> QED
    BY <1>5, <2>2, <2>3, ArrivingType DEF StatusArrives, TypeOK, phase
<1>6. CASE FsrArrives(n)
  BY <1>6 DEF FsrArrives, TypeOK, phase, cop
<1>7. CASE Acknowledge(n)
  BY <1>7 DEF Acknowledge, TypeOK, phase, rotation
<1>8. CASE StatusRejected(n)
  BY <1>8, ArrivingType DEF StatusRejected, TypeOK, phase, rotation
<1>9. CASE RestartDetected(n)
  <2>1. faults' \in 0..MaxFaults
    BY <1>9, <1>2 DEF RestartDetected
  <2>2. election' \in [Boards -> Elections]
    BY <1>9, <1>1 DEF RestartDetected
  <2>3. link' \in [Boards -> {"SYNCING", "READY", "FAILED"}]
    BY <1>9 DEF RestartDetected, TypeOK
  <2>4. peerReady' \in [Boards -> BOOLEAN] /\ returned' \in [Boards -> BOOLEAN]
    BY <1>9 DEF RestartDetected, TypeOK
  <2>5. Resynchronize(n) /\ UNCHANGED <<firstLink, announcing, rotation, inbox>>
    BY <1>9 DEF RestartDetected
  <2> QED
    BY <2>1, <2>2, <2>3, <2>4, <2>5, ResynchronizeType DEF TypeOK, Elections, rotation
<1>10. CASE HandleStatus(n)
  <2>1. inbox' \in [Boards -> Seq(RouterMessage)]
    <3>1. Tail(inbox[n]) \in Seq(RouterMessage)
      BY <1>10 DEF TypeOK, HandleStatus
    <3> QED
      BY <3>1, <1>10 DEF TypeOK, HandleStatus
  <2> QED
    BY <1>10, <2>1 DEF HandleStatus, TypeOK, rotation, cop
<1>11. CASE HandleCandidate(n)
  <2>1. inbox' \in [Boards -> Seq(RouterMessage)]
    <3>1. Tail(inbox[n]) \in Seq(RouterMessage)
      BY <1>11 DEF TypeOK, HandleCandidate
    <3> QED
      BY <3>1, <1>11 DEF TypeOK, HandleCandidate
  <2> DEFINE c == Head(inbox[n]).body
  <2>2. c \in Keys
    <3>1. inbox[n] \in Seq(RouterMessage) /\ inbox[n] # <<>>
      BY <1>11 DEF HandleCandidate, TypeOK
    <3>2. Head(inbox[n]) \in RouterMessage
      BY <3>1
    <3> QED
      BY <3>2 DEF RouterMessage
  <2>3. election' \in [Boards -> Elections] /\ announcing' \in [Boards -> Announcements]
    <3>1. CASE Announce(n, "peer", c)
      BY <3>1, <2>2, AnnounceType
    <3>2. CASE /\ election' = [election EXCEPT ![n] = Decided(@, c)]
               /\ UNCHANGED announcing
      <4>1. Decided(election[n], c) \in Elections
        BY <1>1, <2>2, DecidedType
      <4> QED
        BY <3>2, <4>1, <1>1
    <3> QED
      BY <1>11, <3>1, <3>2 DEF HandleCandidate
  <2>4. UNCHANGED <<phase, rotation, cop, faults>>
    BY <1>11 DEF HandleCandidate
  <2> QED
    BY <2>1, <2>3, <2>4 DEF TypeOK, Elections, Announcements, phase, rotation, cop
<1>12. CASE Announced(n)
  <2>1. CASE link[n] = "FAILED"
    <3>1. election' \in [Boards -> Elections] /\ announcing' \in [Boards -> Announcements]
      BY <1>12, <1>1, <2>1 DEF Announced
    <3> QED
      BY <1>12, <2>1, <3>1 DEF Announced, TypeOK, Elections, Announcements, cop
  <2>2. CASE link[n] # "FAILED"
    <3> DEFINE m == [type |-> "CANDIDATE", body |-> announcing[n].mine]
    <3>1. announcing[n] \in Announcements
      BY <1>1
    <3>2. m \in Message /\ announcing[n].theirs \in Keys
      BY <3>1 DEF Message, RouterMessage, Keys, BootKeys, Announcements
    <3>3. Submit(n, m)
      BY <1>12, <2>2 DEF Announced
    <3>4. election' \in [Boards -> Elections]
      <4>1. Decided(election[n], announcing[n].theirs) \in Elections
        BY <3>2, <1>1, DecidedType
      <4> QED
        BY <1>12, <2>2, <1>1, <4>1 DEF Announced
    <3>5. /\ out' \in [Boards -> Seq(Message)] /\ unacked' \in [Boards -> BOOLEAN]
          /\ inStep' \in [Boards -> BOOLEAN]
      BY <3>2, <3>3, SubmitType
    <3>6. /\ matched' \in [Boards -> BOOLEAN] /\ cutover' \in [Boards -> BOOLEAN]
          /\ confirmed' \in [Boards -> BOOLEAN] /\ returned' \in [Boards -> BOOLEAN]
      BY <1>12, <2>2 DEF Announced, TypeOK
    <3>7. announcing' \in [Boards -> Announcements]
      BY <1>12, <1>1 DEF Announced
    <3> QED
      BY <1>12, <3>4, <3>5, <3>6, <3>7 DEF Announced, TypeOK, Elections, Announcements
  <2> QED
    BY <2>1, <2>2
<1>13. CASE StartElection(n)
  <2>1. NoCandidate \in Keys
    BY DEF Keys, BootKeys
  <2>2. election' \in [Boards -> Elections] /\ announcing' \in [Boards -> Announcements]
    BY <1>13, <2>1, AnnounceType DEF StartElection
  <2>3. UNCHANGED <<phase, rotation, inbox, cop, faults>>
    BY <1>13 DEF StartElection
  <2> QED
    BY <2>2, <2>3 DEF TypeOK, Elections, Announcements, phase, rotation, cop
<1>14. CASE SubmitOtar(n)
  <2> DEFINE m == [type |-> "OTAR", body |-> election[n].mine]
  <2>1. m \in Message /\ election[n].mine \in Candidates \cup {NoOtar}
    BY <1>1 DEF Message, Keys, BootKeys, NoOtar, Elections
  <2>2. Submit(n, m)
    BY <1>14 DEF SubmitOtar
  <2>3. /\ out' \in [Boards -> Seq(Message)] /\ unacked' \in [Boards -> BOOLEAN]
        /\ inStep' \in [Boards -> BOOLEAN]
    BY <2>1, <2>2, SubmitType
  <2>4. pending' \in [Boards -> Candidates \cup {NoOtar}]
    BY <1>14, <2>1 DEF SubmitOtar, TypeOK
  <2> QED
    BY <1>14, <2>3, <2>4 DEF SubmitOtar, TypeOK, phase
<1>15. CASE CommitKeys(n)
  BY <1>15 DEF CommitKeys, TypeOK, phase, cop, Keys, BootKeys, NoOtar
<1>16. CASE SendStatus(n)
  <2> DEFINE m == [type |-> "STATUS", body |-> keys[n]]
  <2>1. m \in Message
    BY DEF Message, RouterMessage, TypeOK
  <2>2. Submit(n, m)
    BY <1>16 DEF SendStatus
  <2> QED
    BY <1>16, <2>1, <2>2, SubmitType DEF SendStatus, TypeOK, phase, rotation
<1>17. CASE LinkSynchronized(n)
  BY <1>17 DEF LinkSynchronized, TypeOK, rotation, cop
<1>18. CASE LinkReturns(n)
  BY <1>18, ResynchronizeType DEF LinkReturns, TypeOK, rotation
<1>19. CASE PeerTimeout(n)
  BY <1>19 DEF PeerTimeout, TypeOK, rotation, cop
<1>20. CASE ElectionTimeout(n)
  <2>1. [election[n] EXCEPT !.result = "TIMED_OUT"] \in Elections
    BY <1>1 DEF Elections
  <2>2. election' \in [Boards -> Elections]
    BY <1>20, <2>1, <1>1 DEF ElectionTimeout
  <2>3. faults' \in 0..MaxFaults
    BY <1>20, <1>2 DEF ElectionTimeout
  <2> QED
    BY <1>20, <2>2, <2>3 DEF ElectionTimeout, TypeOK, Elections, phase, rotation, cop
<1>21. CASE LinkExhausted(n)
  <2>1. faults' \in 0..MaxFaults
    BY <1>21, <1>2 DEF LinkExhausted
  <2>2. election' \in [Boards -> Elections]
    BY <1>21, <1>1 DEF LinkExhausted
  <2>3. out' \in [Boards -> Seq(Message)]
    BY <1>21 DEF LinkExhausted, TypeOK
  <2> QED
    BY <1>21, <2>1, <2>2, <2>3 DEF LinkExhausted, TypeOK, Elections, rotation
<1>22. CASE LinkLockedOut(n)
  <2>1. faults' \in 0..MaxFaults
    BY <1>22, <1>2 DEF LinkLockedOut
  <2> QED
    BY <1>22, <2>1 DEF LinkLockedOut, TypeOK, rotation
<1>23. CASE Reboot(n)
  <2>1. faults' \in 0..MaxFaults
    BY <1>23, <1>2 DEF Reboot
  <2>2. election' \in [Boards -> Elections] /\ announcing' \in [Boards -> Announcements]
    BY <1>23, <1>1 DEF Reboot
  <2>3. out' \in [Boards -> Seq(Message)] /\ inbox' \in [Boards -> Seq(RouterMessage)]
    BY <1>23 DEF Reboot, TypeOK
  <2>4. keys' \in [Boards -> Keys] /\ inStep' \in [Boards -> BOOLEAN]
    BY <1>23 DEF Reboot, TypeOK, Keys
  <2> QED
    BY <1>23, <2>1, <2>2, <2>3, <2>4 DEF Reboot, TypeOK, Elections, Announcements
<1> QED
  BY <1>3, <1>4, <1>5, <1>6, <1>7, <1>8, <1>9, <1>10, <1>11, <1>12, <1>13, <1>14,
     <1>15, <1>16, <1>17, <1>18, <1>19, <1>20, <1>21, <1>22, <1>23
     DEF Step, Ingress, Router, Rotate, Fault

(* Every variable keeps its type, for any number of candidates and faults. *)
THEOREM TypeCorrect == Spec => []TypeOK
<1>1. TypeOK /\ [Next]_vars => TypeOK'
  <2> SUFFICES ASSUME TypeOK, [Next]_vars PROVE TypeOK'
    OBVIOUS
  <2>1. CASE Next
    BY <2>1, TypeStep DEF Next
  <2>2. CASE UNCHANGED vars
    BY <2>2 DEF vars, TypeOK
  <2> QED
    BY <2>1, <2>2
<1> QED
  BY TypeInit, <1>1, PTL DEF Spec

-----------------------------------------------------------------------------
(* Elections.                                                              *)

(* The candidates of board n.                                              *)
Of(n) == {c \in Candidates : c.board = n}

(* Candidates and OTARs travel under their board's name.                   *)
Named(queue, n) == \A i \in 1..Len(queue) :
  queue[i].type # "STATUS" => queue[i].body \in Of(n)

AnnouncedNamed(a, n) ==
  /\ a # NotAnnouncing => a.mine \in Of(n)
  /\ a.for = "peer" => a.theirs \in Of(Other(n))

CandidatesNamed == \A n \in Boards :
  /\ Named(out[n], n)
  /\ Named(inbox[n], Other(n))
  /\ AnnouncedNamed(announcing[n], n)

(* What an election of board n may be.                                     *)
Lawful(e, n) ==
  /\ e = Idle \/ e.mine \in Of(n)
  /\ e.theirs = NoCandidate \/ e.theirs \in Of(Other(n))
  /\ e.theirs = NoCandidate <=> e.result \notin {"WON", "LOST"}
  /\ e.result = "WON" => Wins(e.mine, e.theirs)
  /\ e.result = "LOST" => ~Wins(e.mine, e.theirs)

ElectionsLawful == \A n \in Boards : Lawful(election[n], n)

(* An OTAR is pending only on the board that won with it, and no new       *)
(* candidate is being submitted meanwhile.                                 *)
OtarProtected == \A n \in Boards :
  pending[n] # NoOtar => /\ election[n].result = "WON"
                         /\ election[n].mine = pending[n]
                         /\ announcing[n] = NotAnnouncing

ElectionInvariant == TypeOK /\ CandidatesNamed /\ ElectionsLawful /\ OtarProtected

(* Hearing a candidate of the peer keeps an election lawful.               *)
LEMMA DecidedLawful ==
  ASSUME NEW n \in Boards, NEW e \in Elections, Lawful(e, n), NEW c \in Of(Other(n))
  PROVE  Lawful(Decided(e, c), n)
<1>1. c # NoCandidate
  BY OtherBoard DEF Of, Boards, NoCandidate
<1>2. CASE e.result = "WAITING" /\ e.theirs = NoCandidate
  <2> DEFINE d == Decided(e, c)
  <2>1. /\ d.mine = e.mine /\ d.theirs = c
        /\ d.result = IF Wins(e.mine, c) THEN "WON" ELSE "LOST"
    BY <1>2 DEF Decided, Elections
  <2>2. e.mine \in Of(n)
    BY <1>2 DEF Lawful, Idle
  <2> HIDE DEF d
  <2>3. Lawful(d, n)
    BY <1>1, <2>1, <2>2 DEF Lawful
  <2> QED
    BY <2>3 DEF d
<1>3. CASE ~(e.result = "WAITING" /\ e.theirs = NoCandidate)
  BY <1>3 DEF Decided
<1> QED
  BY <1>2, <1>3

(* An idle election is lawful; so is one that has just started.            *)
LEMMA NewLawful ==
  ASSUME NEW n \in Boards
  PROVE  /\ Lawful(Idle, n)
         /\ \A c \in Of(n) :
              Lawful([result |-> "WAITING", mine |-> c, theirs |-> NoCandidate], n)
BY DEF Lawful, Idle

(* Elections that have heard each other have one winner and one loser.     *)
LEMMA LawfulAgree ==
  ASSUME TypeOK, ElectionsLawful
  PROVE  ElectionAgrees
<1> SUFFICES ASSUME \A n \in Boards : election[n].theirs # NoCandidate,
                    \A n \in Boards : election[n].theirs = election[Other(n)].mine
             PROVE  {election[n].result : n \in Boards} = {"WON", "LOST"}
  BY DEF ElectionAgrees
<1>1. 1 \in Boards /\ 2 \in Boards /\ Other(1) = 2 /\ Other(2) = 1 /\ Boards = {1, 2}
  BY DEF Boards, Other
<1> DEFINE a == election[1].mine
           b == election[2].mine
<1>2. a \in Of(1) /\ b \in Of(2)
  BY <1>1 DEF ElectionsLawful, Lawful
<1>3. Wins(a, b) <=> ~Wins(b, a)
  <2>1. a.value \in Nat /\ b.value \in Nat /\ a.board = 1 /\ b.board = 2
    BY <1>2, ValuesAssumption DEF Of, Candidates
  <2> QED
    BY <2>1 DEF Wins
<1>4. \A n \in Boards : election[n].result \in {"WON", "LOST"}
  BY DEF ElectionsLawful, Lawful
<1>5. /\ election[1].result = "WON" <=> Wins(a, b)
      /\ election[2].result = "WON" <=> Wins(b, a)
  BY <1>1, <1>4 DEF ElectionsLawful, Lawful
<1> QED
  BY <1>1, <1>3, <1>4, <1>5

(* Sending keeps the candidates of a queue under the right name.           *)
LEMMA NamedAppend ==
  ASSUME NEW M, NEW queue \in Seq(M), NEW m \in M, NEW n, Named(queue, n),
         m.type # "STATUS" => m.body \in Of(n)
  PROVE  Named(Append(queue, m), n)
<1> SUFFICES ASSUME NEW i \in 1..Len(Append(queue, m)),
                    Append(queue, m)[i].type # "STATUS"
             PROVE  Append(queue, m)[i].body \in Of(n)
  BY DEF Named
<1>1. CASE i = Len(queue) + 1
  <2>1. Append(queue, m)[i] = m
    BY <1>1
  <2> QED
    BY <2>1
<1>2. CASE i # Len(queue) + 1
  <2>1. i \in 1..Len(queue) /\ Append(queue, m)[i] = queue[i]
    BY <1>2
  <2> QED
    BY <2>1 DEF Named
<1> QED
  BY <1>1, <1>2

(* So does receiving the oldest message, which is named right itself.      *)
LEMMA NamedTail ==
  ASSUME NEW M, NEW queue \in Seq(M), queue # <<>>, NEW n, Named(queue, n)
  PROVE  /\ Named(Tail(queue), n)
         /\ Head(queue).type # "STATUS" => Head(queue).body \in Of(n)
<1>1. 1 \in 1..Len(queue) /\ Head(queue) = queue[1]
  OBVIOUS
<1>2. ASSUME NEW i \in 1..Len(Tail(queue))
      PROVE  i + 1 \in 1..Len(queue) /\ Tail(queue)[i] = queue[i + 1]
  OBVIOUS
<1>3. Named(Tail(queue), n)
  <2> SUFFICES ASSUME NEW i \in 1..Len(Tail(queue)), Tail(queue)[i].type # "STATUS"
               PROVE  Tail(queue)[i].body \in Of(n)
    BY DEF Named
  <2> QED
    BY <1>2 DEF Named
<1> QED
  BY <1>1, <1>3 DEF Named

(* A step sends and delivers candidates under the right name.              *)
LEMMA NamedStep ==
  ASSUME ElectionInvariant, NEW n \in Boards, Step(n)
  PROVE  CandidatesNamed'
<1> USE OtherBoard
<1>1. TypeOK /\ CandidatesNamed
  BY DEF ElectionInvariant
<1>2. \A b \in Boards : out[b] \in Seq(Message) /\ inbox[b] \in Seq(RouterMessage)
  BY <1>1 DEF TypeOK
<1>3. \A b \in Boards : Named(<<>>, b)
  BY DEF Named
<1>4. AnnouncedNamed(NotAnnouncing, n)
  BY DEF AnnouncedNamed, NotAnnouncing
<1>5. CASE UNCHANGED <<out, inbox, announcing>>
  BY <1>1, <1>5 DEF CandidatesNamed, Named, AnnouncedNamed
<1>6. CASE CandidateArrives(n) \/ StatusArrives(n)
  <2> DEFINE o == Other(n)
             m == Head(out[o])
  <2>1. /\ out[o] # <<>>
        /\ out' = [out EXCEPT ![o] = Tail(@)]
        /\ inbox' = [inbox EXCEPT ![n] = Append(@, m)]
        /\ UNCHANGED announcing
    BY <1>6 DEF CandidateArrives, StatusArrives, Arriving
  <2>2. m \in RouterMessage
    <3>1. CASE CandidateArrives(n)
      <4>1. Arriving(n, "CANDIDATE")
        BY <3>1 DEF CandidateArrives
      <4> QED
        BY <1>1, <4>1, ArrivingType, RouterMessageType
    <3>2. CASE StatusArrives(n)
      <4>1. Arriving(n, "STATUS")
        BY <3>2 DEF StatusArrives
      <4> QED
        BY <1>1, <4>1, ArrivingType, RouterMessageType
    <3> QED
      BY <1>6, <3>1, <3>2
  <2>3. Named(Tail(out[o]), o) /\ (m.type # "STATUS" => m.body \in Of(o))
    BY <1>1, <1>2, <2>1, NamedTail DEF CandidatesNamed
  <2>4. Named(Append(inbox[n], m), o)
    BY <1>1, <1>2, <2>2, <2>3, NamedAppend DEF CandidatesNamed
  <2> QED
    BY <1>1, <2>1, <2>3, <2>4 DEF CandidatesNamed, TypeOK
<1>7. CASE OtarArrives(n) \/ StatusRejected(n)
  <2> DEFINE o == Other(n)
  <2>1. /\ out[o] # <<>>
        /\ out' = [out EXCEPT ![o] = Tail(@)]
        /\ UNCHANGED <<inbox, announcing>>
    BY <1>7 DEF OtarArrives, StatusRejected, Arriving
  <2>2. Named(Tail(out[o]), o)
    BY <1>1, <1>2, <2>1, NamedTail DEF CandidatesNamed
  <2> QED
    BY <1>1, <2>1, <2>2 DEF CandidatesNamed, TypeOK
<1>8. CASE RestartDetected(n) \/ LinkReturns(n) \/ LinkExhausted(n)
  <2>1. out' = [out EXCEPT ![n] = <<>>]
    BY <1>8 DEF RestartDetected, LinkReturns, LinkExhausted, Resynchronize
  <2>2. UNCHANGED <<inbox, announcing>>
    BY <1>8 DEF RestartDetected, LinkReturns, LinkExhausted
  <2>3. \A b \in Boards : out'[b] = out[b] \/ out'[b] = <<>>
    BY <1>1, <2>1 DEF TypeOK
  <2> QED
    BY <1>1, <1>3, <2>2, <2>3 DEF CandidatesNamed
<1>9. CASE HandleStatus(n)
  <2>1. inbox[n] # <<>> /\ inbox' = [inbox EXCEPT ![n] = Tail(@)]
        /\ UNCHANGED <<out, announcing>>
    BY <1>9 DEF HandleStatus, cop
  <2>2. Named(Tail(inbox[n]), Other(n))
    BY <1>1, <1>2, <2>1, NamedTail DEF CandidatesNamed
  <2> QED
    BY <1>1, <2>1, <2>2 DEF CandidatesNamed, TypeOK
<1>10. CASE HandleCandidate(n)
  <2> DEFINE c == Head(inbox[n]).body
  <2>1. /\ inbox[n] # <<>> /\ Head(inbox[n]).type = "CANDIDATE"
        /\ inbox' = [inbox EXCEPT ![n] = Tail(@)]
        /\ UNCHANGED out
        /\ Announce(n, "peer", c) \/ UNCHANGED announcing
    BY <1>10 DEF HandleCandidate, cop
  <2>2. Named(Tail(inbox[n]), Other(n)) /\ c \in Of(Other(n))
    BY <1>1, <1>2, <2>1, NamedTail DEF CandidatesNamed
  <2>3. AnnouncedNamed(announcing'[n], n)
        /\ \A b \in Boards \ {n} : announcing'[b] = announcing[b]
    <3>1. CASE Announce(n, "peer", c)
      <4>1. c \in Keys
        BY <2>2 DEF Of, Keys
      <4>2. PICK d \in Candidates : d.board = n /\ announcing' =
              [announcing EXCEPT ![n] = [for |-> "peer", mine |-> d, theirs |-> c]]
        BY <1>1, <3>1, <4>1, AnnounceType
      <4> QED
        BY <1>1, <2>2, <4>2 DEF AnnouncedNamed, Of, TypeOK
    <3>2. CASE UNCHANGED announcing
      BY <1>1, <3>2 DEF CandidatesNamed
    <3> QED
      BY <2>1, <3>1, <3>2
  <2> QED
    BY <1>1, <2>1, <2>2, <2>3 DEF CandidatesNamed, TypeOK
<1>11. CASE StartElection(n)
  <2>1. UNCHANGED <<out, inbox>> /\ Announce(n, "own", NoCandidate)
    BY <1>11 DEF StartElection, cop
  <2>2. NoCandidate \in Keys
    BY DEF Keys, BootKeys
  <2>3. PICK d \in Candidates : d.board = n /\ announcing' =
          [announcing EXCEPT ![n] = [for |-> "own", mine |-> d, theirs |-> NoCandidate]]
    BY <1>1, <2>1, <2>2, AnnounceType
  <2> QED
    BY <1>1, <2>1, <2>3 DEF CandidatesNamed, AnnouncedNamed, Of, TypeOK
<1>12. CASE Announced(n)
  <2> DEFINE m == [type |-> "CANDIDATE", body |-> announcing[n].mine]
  <2>1. /\ announcing[n] # NotAnnouncing
        /\ announcing' = [announcing EXCEPT ![n] = NotAnnouncing]
        /\ UNCHANGED inbox
        /\ UNCHANGED out \/ out' = [out EXCEPT ![n] = Append(@, m)]
    BY <1>12 DEF Announced, Blocked, Submit, cop
  <2>2. m.body \in Of(n)
    BY <1>1, <2>1 DEF CandidatesNamed, AnnouncedNamed
  <2>3. m \in Message
    BY <2>2 DEF Of, Message, RouterMessage, Keys
  <2>4. Named(Append(out[n], m), n)
    BY <1>1, <1>2, <2>2, <2>3, NamedAppend DEF CandidatesNamed
  <2> QED
    BY <1>1, <1>4, <2>1, <2>4 DEF CandidatesNamed, TypeOK
<1>13. CASE SubmitOtar(n) \/ SendStatus(n)
  <2>1. PICK m \in Message : /\ m.type # "STATUS" => m.body \in Of(n)
                             /\ out' = [out EXCEPT ![n] = Append(@, m)]
                             /\ UNCHANGED <<inbox, announcing>>
    <3>1. CASE SubmitOtar(n)
      <4>1. [type |-> "OTAR", body |-> election[n].mine] \in Message
        BY <1>1 DEF Message, TypeOK, Keys, BootKeys
      <4>2. election[n].mine \in Of(n)
        BY <3>1 DEF SubmitOtar, ElectionInvariant, ElectionsLawful, Lawful, Idle
      <4> QED
        BY <3>1, <4>1, <4>2 DEF SubmitOtar, Submit
    <3>2. CASE SendStatus(n)
      <4>1. [type |-> "STATUS", body |-> keys[n]] \in Message
        BY <1>1 DEF Message, RouterMessage, TypeOK
      <4> QED
        BY <3>2, <4>1 DEF SendStatus, Submit
    <3> QED
      BY <1>13, <3>1, <3>2
  <2>2. Named(Append(out[n], m), n)
    BY <1>1, <1>2, <2>1, NamedAppend DEF CandidatesNamed
  <2> QED
    BY <1>1, <2>1, <2>2 DEF CandidatesNamed, TypeOK
<1>14. CASE Reboot(n)
  <2>1. /\ out' = [out EXCEPT ![n] = <<>>] /\ inbox' = [inbox EXCEPT ![n] = <<>>]
        /\ announcing' = [announcing EXCEPT ![n] = NotAnnouncing]
    BY <1>14 DEF Reboot
  <2> QED
    BY <1>1, <1>3, <1>4, <2>1 DEF CandidatesNamed, TypeOK
<1>15. CASE FsrArrives(n) \/ Acknowledge(n) \/ CommitKeys(n) \/ LinkSynchronized(n)
            \/ PeerTimeout(n) \/ ElectionTimeout(n) \/ LinkLockedOut(n)
  BY <1>5, <1>15 DEF FsrArrives, Acknowledge, CommitKeys, LinkSynchronized,
     PeerTimeout, ElectionTimeout, LinkLockedOut, cop
<1> QED
  BY <1>6, <1>7, <1>8, <1>9, <1>10, <1>11, <1>12, <1>13, <1>14, <1>15
     DEF Step, Ingress, Router, Rotate, Fault

(* A step leaves every election as its candidates decide it.               *)
LEMMA LawfulStep ==
  ASSUME ElectionInvariant, NEW n \in Boards, Step(n)
  PROVE  ElectionsLawful'
<1> USE OtherBoard
<1>1. TypeOK /\ CandidatesNamed /\ ElectionsLawful
  BY DEF ElectionInvariant
<1>2. /\ election \in [Boards -> Elections]
      /\ \A b \in Boards : Lawful(election[b], b)
  BY <1>1 DEF TypeOK, Elections, ElectionsLawful
<1> SUFFICES ASSUME NEW e, Lawful(e, n), election' = [election EXCEPT ![n] = e]
             PROVE  ElectionsLawful'
  <2> SUFFICES \E e : Lawful(e, n) /\ election' = [election EXCEPT ![n] = e]
    OBVIOUS
  <2>1. CASE UNCHANGED election
    BY <1>2, <2>1
  <2>2. CASE election' = [election EXCEPT ![n] = Idle]
    BY <2>2, NewLawful
  <2>3. ASSUME NEW c \in Of(Other(n)),
               election' = [election EXCEPT ![n] = Decided(@, c)]
        PROVE  \E e : Lawful(e, n) /\ election' = [election EXCEPT ![n] = e]
    <3>1. Lawful(Decided(election[n], c), n)
      BY <1>2, DecidedLawful
    <3> QED
      BY <1>2, <2>3, <3>1
  <2>4. ASSUME NEW for \in {"own", "peer"}, NEW c \in Keys, Announce(n, for, c)
        PROVE  \E e : Lawful(e, n) /\ election' = [election EXCEPT ![n] = e]
    <3>1. PICK d \in Of(n) : election' = [election EXCEPT ![n] =
            [result |-> "WAITING", mine |-> d, theirs |-> NoCandidate]]
      BY <1>1, <2>4, AnnounceType DEF Of
    <3> QED
      BY <3>1, NewLawful
  <2>5. CASE HandleCandidate(n)
    <3> DEFINE c == Head(inbox[n]).body
    <3>1. inbox[n] # <<>> /\ Head(inbox[n]).type = "CANDIDATE"
      BY <2>5 DEF HandleCandidate
    <3>2. c \in Of(Other(n)) /\ c \in Keys
      <4>1. inbox[n] \in Seq(RouterMessage) /\ Named(inbox[n], Other(n))
        BY <1>1 DEF TypeOK, CandidatesNamed
      <4> QED
        BY <3>1, <4>1, NamedTail DEF Of, Keys
    <3>3. \/ Announce(n, "peer", c)
          \/ election' = [election EXCEPT ![n] = Decided(@, c)]
      BY <2>5 DEF HandleCandidate
    <3> QED
      BY <2>3, <2>4, <3>2, <3>3
  <2>6. CASE StartElection(n)
    BY <2>4, <2>6 DEF StartElection, Keys, BootKeys
  <2>7. CASE Announced(n)
    <3>1. \/ election' = [election EXCEPT ![n] = Idle]
          \/ UNCHANGED election
          \/ /\ announcing[n].for = "peer"
             /\ election' = [election EXCEPT ![n] = Decided(@, announcing[n].theirs)]
      BY <2>7 DEF Announced
    <3>2. announcing[n].for = "peer" => announcing[n].theirs \in Of(Other(n))
      BY <1>1 DEF CandidatesNamed, AnnouncedNamed
    <3> QED
      BY <2>1, <2>2, <2>3, <3>1, <3>2
  <2>8. CASE ElectionTimeout(n)
    <3> DEFINE e == [election[n] EXCEPT !.result = "TIMED_OUT"]
    <3>1. /\ election[n].result = "WAITING"
          /\ election' = [election EXCEPT ![n] = e]
      BY <1>2, <2>8 DEF ElectionTimeout
    <3>2. /\ e.mine = election[n].mine /\ e.theirs = election[n].theirs
          /\ e.result = "TIMED_OUT"
      BY <1>2 DEF Elections
    <3>3. Lawful(election[n], n)
      BY <1>2
    <3> HIDE DEF e
    <3>4. Lawful(e, n)
      BY <3>1, <3>2, <3>3 DEF Lawful, Idle
    <3> QED
      BY <3>1, <3>4
  <2>9. CASE RestartDetected(n) \/ LinkExhausted(n) \/ Reboot(n)
    BY <2>1, <2>2, <2>9 DEF RestartDetected, LinkExhausted, Reboot
  <2>10. CASE \/ Ingress(n) \/ StatusRejected(n) \/ HandleStatus(n) \/ Rotate(n)
              \/ SendStatus(n) \/ LinkSynchronized(n) \/ LinkLockedOut(n)
              \/ LinkReturns(n) \/ PeerTimeout(n)
    <3>1. UNCHANGED election
      BY <2>10 DEF Ingress, CandidateArrives, OtarArrives, StatusArrives, FsrArrives,
         Acknowledge, StatusRejected, HandleStatus, Rotate, SubmitOtar, CommitKeys,
         SendStatus, LinkSynchronized, LinkLockedOut, LinkReturns, PeerTimeout
    <3> QED
      BY <2>1, <3>1
  <2> QED
    BY <2>5, <2>6, <2>7, <2>8, <2>9, <2>10 DEF Step, Router, Fault
<1> QED
  BY <1>2 DEF ElectionsLawful

(* No step takes the election away from a pending OTAR, or opens another.  *)
LEMMA ProtectedStep ==
  ASSUME ElectionInvariant, NEW n \in Boards, Step(n)
  PROVE  OtarProtected'
<1> USE OtherBoard
<1>1. TypeOK /\ OtarProtected
  BY DEF ElectionInvariant
<1>2. /\ election \in [Boards -> Elections] /\ announcing \in [Boards -> Announcements]
      /\ pending \in [Boards -> Candidates \cup {NoOtar}]
  BY <1>1 DEF TypeOK, Elections, Announcements
<1>3. CASE UNCHANGED <<pending, election, announcing>>
  BY <1>1, <1>3 DEF OtarProtected
<1>4. ASSUME NEW for \in {"own", "peer"}, NEW c \in Keys, Announce(n, for, c),
             UNCHANGED pending
      PROVE  OtarProtected'
  <2>1. /\ pending[n] = NoOtar
        /\ \A b \in Boards \ {n} : /\ election'[b] = election[b]
                                   /\ announcing'[b] = announcing[b]
    BY <1>1, <1>2, <1>4, AnnounceType
  <2> QED
    BY <1>1, <1>4, <2>1 DEF OtarProtected
<1>5. CASE HandleCandidate(n)
  <2> DEFINE c == Head(inbox[n]).body
  <2>1. c \in Keys /\ UNCHANGED pending
    <3>1. inbox[n] \in Seq(RouterMessage) /\ inbox[n] # <<>>
      BY <1>1, <1>5 DEF HandleCandidate, TypeOK
    <3>2. Head(inbox[n]) \in RouterMessage
      BY <3>1
    <3> QED
      BY <1>5, <3>2 DEF RouterMessage, HandleCandidate, rotation
  <2>2. CASE Announce(n, "peer", c)
    BY <1>4, <2>1, <2>2
  <2>3. CASE election' = [election EXCEPT ![n] = Decided(@, c)] /\ UNCHANGED announcing
    <3>1. election[n].result = "WON" => Decided(election[n], c) = election[n]
      BY DEF Decided
    <3> QED
      BY <1>1, <1>2, <2>1, <2>3, <3>1 DEF OtarProtected
  <2> QED
    BY <1>5, <2>2, <2>3 DEF HandleCandidate
<1>6. CASE StartElection(n)
  BY <1>4, <1>6 DEF StartElection, rotation, Keys, BootKeys
<1>7. CASE Announced(n)
  <2>1. /\ announcing[n] # NotAnnouncing /\ UNCHANGED pending
        /\ \A b \in Boards \ {n} : /\ election'[b] = election[b]
                                   /\ announcing'[b] = announcing[b]
    BY <1>2, <1>7 DEF Announced, Blocked
  <2>2. pending[n] = NoOtar
    BY <1>1, <2>1 DEF OtarProtected
  <2> QED
    BY <1>1, <2>1, <2>2 DEF OtarProtected
<1>8. CASE SubmitOtar(n)
  <2>1. /\ election[n].result = "WON" /\ announcing[n] = NotAnnouncing
        /\ pending' = [pending EXCEPT ![n] = election[n].mine]
        /\ UNCHANGED <<election, announcing>>
    BY <1>8 DEF SubmitOtar, Ticking, Blocked
  <2> QED
    BY <1>1, <1>2, <2>1 DEF OtarProtected
<1>9. CASE CommitKeys(n)
  BY <1>1, <1>2, <1>9 DEF CommitKeys, OtarProtected
<1>10. CASE RestartDetected(n) \/ LinkExhausted(n)
  <2>1. /\ election' = IF pending[n] = NoOtar THEN [election EXCEPT ![n] = Idle]
                                              ELSE election
        /\ UNCHANGED <<pending, announcing>>
    BY <1>10 DEF RestartDetected, LinkExhausted, rotation
  <2> QED
    BY <1>1, <1>2, <2>1 DEF OtarProtected
<1>11. CASE ElectionTimeout(n)
  <2>1. /\ election[n].result = "WAITING" /\ UNCHANGED <<pending, announcing>>
        /\ \A b \in Boards \ {n} : election'[b] = election[b]
    BY <1>2, <1>11 DEF ElectionTimeout, rotation
  <2> QED
    BY <1>1, <2>1 DEF OtarProtected
<1>12. CASE Reboot(n)
  BY <1>1, <1>2, <1>12 DEF Reboot, OtarProtected
<1>13. CASE \/ Ingress(n) \/ StatusRejected(n) \/ HandleStatus(n) \/ SendStatus(n)
            \/ LinkSynchronized(n) \/ LinkLockedOut(n) \/ LinkReturns(n) \/ PeerTimeout(n)
  <2>1. UNCHANGED <<pending, election, announcing>>
    BY <1>13 DEF Ingress, CandidateArrives, OtarArrives, StatusArrives, FsrArrives,
       Acknowledge, StatusRejected, HandleStatus, SendStatus, LinkSynchronized,
       LinkLockedOut, LinkReturns, PeerTimeout, rotation
  <2> QED
    BY <1>3, <2>1
<1> QED
  BY <1>5, <1>6, <1>7, <1>8, <1>9, <1>10, <1>11, <1>12, <1>13
     DEF Step, Router, Rotate, Fault

(* The strengthened invariant holds in every reachable state.              *)
LEMMA ElectionInvariantHolds == Spec => []ElectionInvariant
<1>1. Init => ElectionInvariant
  <2> SUFFICES ASSUME Init PROVE ElectionInvariant
    OBVIOUS
  <2>1. CandidatesNamed
    BY DEF Init, CandidatesNamed, Named, AnnouncedNamed, NotAnnouncing
  <2>2. ElectionsLawful
    BY NewLawful DEF Init, ElectionsLawful
  <2>3. OtarProtected
    BY DEF Init, OtarProtected
  <2> QED
    BY <2>1, <2>2, <2>3, TypeInit DEF ElectionInvariant
<1>2. ElectionInvariant /\ [Next]_vars => ElectionInvariant'
  <2> SUFFICES ASSUME ElectionInvariant, [Next]_vars PROVE ElectionInvariant'
    OBVIOUS
  <2>1. CASE Next
    <3>1. PICK n \in Boards : Step(n)
      BY <2>1 DEF Next
    <3>2. TypeOK'
      BY <3>1, TypeStep DEF ElectionInvariant
    <3> QED
      BY <3>1, <3>2, NamedStep, LawfulStep, ProtectedStep DEF ElectionInvariant
  <2>2. CASE UNCHANGED vars
    BY <2>2 DEF vars, ElectionInvariant, TypeOK, CandidatesNamed, Named, AnnouncedNamed,
       ElectionsLawful, Lawful, OtarProtected
  <2> QED
    BY <2>1, <2>2
<1> QED
  BY <1>1, <1>2, PTL DEF Spec

(* Two elections that have heard each other's candidate have one winner    *)
(* and one loser, whatever values were drawn and whatever failed.          *)
THEOREM ElectionsAgree == Spec => []ElectionAgrees
<1>1. ElectionInvariant => ElectionAgrees
  BY LawfulAgree DEF ElectionInvariant
<1> QED
  BY <1>1, ElectionInvariantHolds, PTL

(* A pending OTAR keeps the election it was won with.                      *)
THEOREM OtarKeepsItsElection == Spec => []OtarKeepsElection
<1>1. ElectionInvariant => OtarKeepsElection
  BY DEF ElectionInvariant, OtarProtected, OtarKeepsElection
<1> QED
  BY <1>1, ElectionInvariantHolds, PTL


-----------------------------------------------------------------------------
(* A board does not yet use the keys that its open election may send: they *)
(* are drawn with a candidate that is used nowhere, an OTAR it accepts     *)
(* carries those of the peer, and once it has cut over to its own, only a  *)
(* new candidate opens the way to another OTAR.                            *)
KeysFresh == \A n \in Boards :
  announcing[n] # NotAnnouncing \/ ~cutover[n]
    => keys[n] \notin Of(n) \/ keys[n] # election[n].mine

(* A candidate that is drawn differs from the keys in use.                 *)
LEMMA DrawnFresh ==
  ASSUME ElectionInvariant, NEW n \in Boards, NEW for, NEW theirs,
         Announce(n, for, theirs)
  PROVE  /\ keys[n] \notin Of(n) \/ keys[n] # election'[n].mine
         /\ \A b \in Boards \ {n} : /\ election'[b] = election[b]
                                   /\ announcing'[b] = announcing[b]
<1>1. PICK a \in 1..MaxCandidates, v \in Values :
        /\ \A c \in InUse : c.board = n => c.attempt # a
        /\ election' = [election EXCEPT ![n] =
             [result |-> "WAITING", mine |-> [board |-> n, attempt |-> a, value |-> v],
              theirs |-> NoCandidate]]
        /\ announcing' = [announcing EXCEPT ![n] =
             [for |-> for, mine |-> [board |-> n, attempt |-> a, value |-> v],
              theirs |-> theirs]]
  BY DEF Announce
<1>2. keys[n] \in InUse
  BY DEF InUse
<1>3. election'[n].mine = [board |-> n, attempt |-> a, value |-> v]
  BY <1>1 DEF ElectionInvariant, TypeOK
<1>4. keys[n] \in Of(n) => keys[n].attempt # a
  BY <1>1, <1>2 DEF Of
<1> QED
  BY <1>1, <1>3, <1>4 DEF ElectionInvariant, TypeOK

(* A step draws, commits and accepts keys without breaking this.           *)
LEMMA FreshStep ==
  ASSUME ElectionInvariant, KeysFresh, NEW n \in Boards, Step(n)
  PROVE  KeysFresh'
<1> USE OtherBoard
<1>1. /\ TypeOK /\ CandidatesNamed
      /\ election \in [Boards -> Elections]
      /\ keys \in [Boards -> Keys] /\ cutover \in [Boards -> BOOLEAN]
  BY DEF ElectionInvariant, TypeOK, Elections
<1>2. NoCandidate \notin Of(n) /\ BootKeys \notin Of(n) /\ Idle.mine = NoCandidate
  BY DEF Of, Candidates, Boards, NoCandidate, BootKeys, Idle
<1>3. ASSUME keys' = keys, election'[n].mine \in {election[n].mine, NoCandidate},
             announcing'[n] # NotAnnouncing \/ ~cutover'[n]
               => announcing[n] # NotAnnouncing \/ ~cutover[n],
             \A b \in Boards \ {n} : /\ election'[b] = election[b]
                                     /\ announcing'[b] = announcing[b]
                                     /\ cutover'[b] = cutover[b]
      PROVE  KeysFresh'
  BY <1>2, <1>3 DEF KeysFresh
<1>4. \A c : Decided(election[n], c).mine = election[n].mine
  BY <1>1 DEF Decided, Elections
<1>5. CASE UNCHANGED <<keys, announcing, cutover>>
           /\ \/ UNCHANGED election
              \/ election' = [election EXCEPT ![n] = Idle]
              \/ election' = [election EXCEPT ![n].result = "TIMED_OUT"]
              \/ \E c : election' = [election EXCEPT ![n] = Decided(@, c)]
  <2>1. election'[n].mine \in {election[n].mine, NoCandidate}
        /\ \A b \in Boards \ {n} : election'[b] = election[b]
    BY <1>1, <1>2, <1>4, <1>5 DEF Elections
  <2> QED
    BY <1>3, <1>5, <2>1
<1>6. CASE \E for, theirs : Announce(n, for, theirs) /\ UNCHANGED rotation
  <2>1. UNCHANGED <<keys, cutover>>
    BY <1>6 DEF rotation
  <2>2. keys[n] \notin Of(n) \/ keys[n] # election'[n].mine
    BY <1>6, DrawnFresh
  <2>3. \A b \in Boards \ {n} : election'[b] = election[b] /\ announcing'[b] = announcing[b]
    BY <1>6, DrawnFresh
  <2> QED
    BY <2>1, <2>2, <2>3 DEF KeysFresh
<1>7. CASE Announced(n)
  <2>1. /\ announcing[n] # NotAnnouncing /\ UNCHANGED keys
        /\ announcing' = [announcing EXCEPT ![n] = NotAnnouncing]
        /\ cutover' = cutover \/ cutover' = [cutover EXCEPT ![n] = FALSE]
        /\ \/ UNCHANGED election
           \/ election' = [election EXCEPT ![n] = Idle]
           \/ \E c : election' = [election EXCEPT ![n] = Decided(@, c)]
    BY <1>7 DEF Announced, Blocked
  <2>2. election'[n].mine \in {election[n].mine, NoCandidate}
        /\ \A b \in Boards \ {n} : election'[b] = election[b]
    BY <1>1, <1>2, <1>4, <2>1
  <2>3. \A b \in Boards \ {n} : announcing'[b] = announcing[b] /\ cutover'[b] = cutover[b]
    BY <1>1, <2>1 DEF TypeOK
  <2> QED
    BY <1>3, <2>1, <2>2, <2>3
<1>8. CASE OtarArrives(n)
  <2> DEFINE o == Other(n)
             k == Head(out[o]).body
  <2>1. /\ out[o] # <<>> /\ Head(out[o]).type = "OTAR"
        /\ keys' = [keys EXCEPT ![n] = k] /\ cutover' = [cutover EXCEPT ![n] = TRUE]
        /\ UNCHANGED <<election, announcing>>
    BY <1>8 DEF OtarArrives, Arriving
  <2>2. k \in Of(o)
    BY <1>1, <2>1, NamedTail DEF CandidatesNamed, TypeOK
  <2>3. k \notin Of(n)
    BY <2>2 DEF Of
  <2> QED
    BY <1>1, <2>1, <2>3 DEF KeysFresh
<1>9. CASE CommitKeys(n)
  <2>1. /\ announcing[n] = NotAnnouncing /\ UNCHANGED <<announcing, election>>
        /\ keys' = [keys EXCEPT ![n] = pending[n]]
        /\ cutover' = [cutover EXCEPT ![n] = TRUE]
    BY <1>9 DEF CommitKeys, Ticking, Blocked
  <2> QED
    BY <1>1, <2>1 DEF KeysFresh
<1>10. CASE Reboot(n)
  <2>1. /\ keys' = [keys EXCEPT ![n] = BootKeys]
        /\ election' = [election EXCEPT ![n] = Idle]
        /\ announcing' = [announcing EXCEPT ![n] = NotAnnouncing]
        /\ cutover' = [cutover EXCEPT ![n] = FALSE]
    BY <1>10 DEF Reboot
  <2> QED
    BY <1>1, <1>2, <2>1 DEF KeysFresh, TypeOK
<1>11. CASE Ingress(n) /\ ~OtarArrives(n)
  BY <1>5, <1>11 DEF Ingress, CandidateArrives, StatusArrives, FsrArrives, Acknowledge,
                     rotation
<1>12. CASE Router(n)
  <2>1. CASE HandleStatus(n)
    BY <1>5, <2>1 DEF HandleStatus, rotation
  <2>2. CASE HandleCandidate(n)
    <3>1. UNCHANGED rotation
          /\ \/ \E c : Announce(n, "peer", c)
             \/ /\ \E c : election' = [election EXCEPT ![n] = Decided(@, c)]
                /\ UNCHANGED announcing
      BY <2>2 DEF HandleCandidate
    <3> QED
      BY <1>5, <1>6, <3>1 DEF rotation
  <2> QED
    BY <1>12, <2>1, <2>2 DEF Router
<1>13. CASE StatusRejected(n) \/ RestartDetected(n) \/ SubmitOtar(n) \/ SendStatus(n)
  BY <1>5, <1>13 DEF StatusRejected, RestartDetected, SubmitOtar, SendStatus, rotation
<1>14. CASE StartElection(n)
  BY <1>6, <1>14 DEF StartElection
<1>15. CASE LinkSynchronized(n) \/ LinkReturns(n) \/ PeerTimeout(n)
  BY <1>5, <1>15 DEF LinkSynchronized, LinkReturns, PeerTimeout, rotation
<1>16. CASE ElectionTimeout(n) \/ LinkExhausted(n) \/ LinkLockedOut(n)
  BY <1>5, <1>16 DEF ElectionTimeout, LinkExhausted, LinkLockedOut, rotation
<1> QED
  BY <1>7, <1>8, <1>9, <1>10, <1>11, <1>12, <1>13, <1>14, <1>15, <1>16
     DEF Step, Rotate, Fault

(* Only SubmitOtar retains keys, and those of an election that is open.    *)
LEMMA SubmitsFresh ==
  ASSUME ElectionInvariant, KeysFresh, NEW n \in Boards, Step(n),
         NEW b \in Boards, pending'[b] \notin {NoOtar, pending[b]}
  PROVE  keys[b] # pending'[b]
<1>1. SubmitOtar(n)
  <2>1. CASE pending' = [pending EXCEPT ![n] = NoOtar]
    BY <2>1 DEF ElectionInvariant, TypeOK
  <2>2. pending' # pending
    OBVIOUS
  <2>3. ~Ingress(n) /\ ~StatusRejected(n) /\ ~RestartDetected(n) /\ ~Router(n)
    BY <2>2 DEF Ingress, CandidateArrives, OtarArrives, StatusArrives, FsrArrives,
         Acknowledge, StatusRejected, RestartDetected, Router, HandleStatus,
         HandleCandidate, rotation
  <2>4. ~Announced(n) /\ ~StartElection(n) /\ ~SendStatus(n) /\ ~LinkSynchronized(n)
        /\ ~LinkReturns(n) /\ ~PeerTimeout(n)
    BY <2>2 DEF Announced, StartElection, SendStatus, LinkSynchronized, LinkReturns,
         PeerTimeout, rotation
  <2>5. ~ElectionTimeout(n) /\ ~LinkExhausted(n) /\ ~LinkLockedOut(n)
    BY <2>2 DEF ElectionTimeout, LinkExhausted, LinkLockedOut, rotation
  <2>6. CommitKeys(n) \/ Reboot(n) => pending' = [pending EXCEPT ![n] = NoOtar]
    BY DEF CommitKeys, Reboot
  <2> QED
    BY <2>1, <2>3, <2>4, <2>5, <2>6 DEF Step, Rotate, Fault
<1>2. /\ election[n].result = "WON" /\ announcing[n] = NotAnnouncing /\ ~cutover[n]
      /\ pending' = [pending EXCEPT ![n] = election[n].mine]
  BY <1>1 DEF SubmitOtar, Ticking, Blocked
<1>3. b = n /\ pending'[b] = election[n].mine
  BY <1>2 DEF ElectionInvariant, TypeOK
<1>4. election[n].mine \in Of(n)
  BY <1>2 DEF ElectionInvariant, ElectionsLawful, Lawful, Idle
<1> QED
  BY <1>2, <1>3, <1>4 DEF KeysFresh

(* An election rotates the keys once: keys that a board already uses are   *)
(* never sent in another OTAR, under every fault.                          *)
THEOREM KeysAreSentOnce == Spec => KeysSentOnce
<1>1. Init => KeysFresh
  BY DEF Init, KeysFresh, Of, Candidates, Boards, BootKeys, NoCandidate
<1>2. ElectionInvariant /\ KeysFresh /\ [Next]_vars => KeysFresh'
  <2>1. CASE UNCHANGED vars
    BY <2>1 DEF vars, KeysFresh
  <2> QED
    BY <2>1, FreshStep DEF Next
<1>3. ElectionInvariant /\ KeysFresh /\ [Next]_vars =>
        [\A n \in Boards :
           pending'[n] \notin {NoOtar, pending[n]} => keys[n] # pending'[n]]_vars
  BY SubmitsFresh DEF Next
<1> QED
  BY <1>1, <1>2, <1>3, ElectionInvariantHolds, PTL DEF Spec, KeysSentOnce
=============================================================================
