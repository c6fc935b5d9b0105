------------------------- MODULE CoinSessionProofs -------------------------
(***************************************************************************)
(* Proofs about CoinSession and CoinLedger, for every set of clients,      *)
(* sockets and nodes and every queue length: the types, the claim of the   *)
(* window, the implementation of CoinSlot, and the books.                  *)
(***************************************************************************)
EXTENDS CoinLedger, Sums, SequenceTheorems, TLAPS

\* What a queue is after its head was taken.
LEMMA TakeHead ==
    ASSUME NEW S, NEW q \in Seq(S), q # << >>
    PROVE  /\ Tail(q) \in Seq(S) /\ Len(q) \in Nat /\ Len(q) >= 1
           /\ Len(Tail(q)) = Len(q) - 1
           /\ DOMAIN q = 1..Len(q) /\ DOMAIN Tail(q) = 1..(Len(q) - 1)
           /\ Head(q) = q[1] /\ Head(q) \in S
           /\ \A i \in 1..(Len(q) - 1) : Tail(q)[i] = q[i + 1]
  BY HeadTailProperties, LenProperties, EmptySeq, SMT

\* What a queue is after an element was appended.
LEMMA Appended ==
    ASSUME NEW S, NEW q \in Seq(S), NEW e \in S
    PROVE  /\ Append(q, e) \in Seq(S) /\ Len(q) \in Nat
           /\ Len(Append(q, e)) = Len(q) + 1
           /\ DOMAIN q = 1..Len(q) /\ DOMAIN Append(q, e) = 1..(Len(q) + 1)
           /\ \A i \in 1..Len(q) : Append(q, e)[i] = q[i]
           /\ Append(q, e)[Len(q) + 1] = e
  BY AppendProperties, LenProperties, SMT

\* The filter's counters keep their types.
LEMMA FilterTypes ==
    ASSUME NEW v \in Verdicts, NEW f \in 0..MaxFraud, NEW p \in BOOLEAN
    PROVE  NextFraud(v, f, MaxFraud) \in 0..MaxFraud /\ NextPrevSet(v, p) \in BOOLEAN
<1>1. NextFraud(v, f, MaxFraud) \in 0..MaxFraud
  BY ConstantsAssumption DEF NextFraud, Verdicts, Fraudulent
<1>2. NextPrevSet(v, p) \in BOOLEAN
  BY DEF NextPrevSet, Verdicts
<1> QED
  BY <1>1, <1>2

\* The events the tasks post are events.
LEMMA EventTypes ==
    ASSUME NEW c \in Clients \cup {NoClient}, NEW f \in Fds, NEW n \in Nodes
    PROVE  Start(c, f) \in Event /\ Coin(c, n) \in Event /\ FraudEnd(c) \in Event
  BY DEF Start, Coin, FraudEnd, Event

\* Posting to the session queue keeps it a queue of events within its length.
LEMMA PostType ==
    ASSUME NEW q \in Seq(Event), Len(q) <= SessionQueueSize, NEW e \in Event
    PROVE  Post(q, e) \in Seq(Event) /\ Len(Post(q, e)) <= SessionQueueSize
  BY Appended, ConstantsAssumption DEF Post

\* The verdict of the filter is one of the six.
LEMMA VerdictType ==
    ASSUME NEW p
    PROVE  PulseVerdict(p) \in Verdicts
  BY DEF PulseVerdict, Verdict, Verdicts

\* The initial values have their types.
LEMMA TypeInit == Init => TypeOK
<1> SUFFICES ASSUME Init PROVE TypeOK
  OBVIOUS
<1>1. pulseQ \in Seq(Pulse) /\ Len(pulseQ) <= PulseQueueSize
  BY EmptySeq, ConstantsAssumption DEF Init
<1>2. sessQ \in Seq(Event) /\ Len(sessQ) <= SessionQueueSize
  BY EmptySeq, ConstantsAssumption DEF Init
<1>3. fraud \in 0..MaxFraud /\ count \in Nat /\ coins \in Nat
  BY ConstantsAssumption DEF Init
<1>4. nodeCounts \in [Nodes -> Nat] /\ conn \in [Fds -> Clients \cup {NoClient}]
  BY DEF Init
<1>6. judged \in Event \cup {NoEvent} /\ judged.type # "start"
  BY DEF Init, NoEvent
<1>5. /\ httpd \in [pc : {"idle", "post", "reply"}, client : Clients \cup {NoClient},
                     fd : Fds \cup {NoFd}]
      /\ slot \in [ip : Clients \cup {NoClient}, fd : Fds \cup {NoFd}]
  BY DEF Init, IdleHttpd, EmptySlot
<1> QED
  BY <1>1, <1>2, <1>3, <1>4, <1>5, <1>6 DEF Init, TypeOK, TaskPcs, Outcomes

\* Every step of the HTTP task keeps the types.
LEMMA TypeHttp == TypeOK /\ Http => TypeOK'
<1> SUFFICES ASSUME TypeOK, Http PROVE TypeOK'
  OBVIOUS
<1> USE DEF TypeOK, httpVars, pulseVars, taskVars
<1>1. ASSUME NEW c \in Clients, NEW fd \in Fds, WsOpen(c, fd) PROVE TypeOK'
  BY <1>1 DEF WsOpen, UpdateSocket
<1>2. ASSUME NEW fd \in Fds, WsClose(fd) PROVE TypeOK'
  BY <1>2 DEF WsClose
<1>3. ASSUME NEW fd \in Fds, GetStatus(fd) PROVE TypeOK'
  BY <1>3 DEF GetStatus, UpdateSocket
<1>4. ASSUME NEW fd \in Fds, NEW r \in BOOLEAN, StartRefused(fd, r) PROVE TypeOK'
  BY <1>4 DEF StartRefused
<1>5. ASSUME NEW fd \in Fds, ClaimCas(fd) PROVE TypeOK'
  BY <1>5 DEF ClaimCas
<1>6. ASSUME NEW c \in Clients, SeedPortalSession(c) PROVE TypeOK'
  BY <1>6 DEF SeedPortalSession
<1>7. ASSUME NEW c \in Clients, MoveIp(c) PROVE TypeOK'
  BY <1>7 DEF MoveIp
<1>8. ASSUME ClaimPost PROVE TypeOK'
  <2>1. Start(httpd.client, httpd.fd) \in Event
    BY DEF Start, Event
  <2>2. sessQ' \in Seq(Event) /\ Len(sessQ') <= SessionQueueSize
    BY <1>8, <2>1, Appended, ConstantsAssumption DEF ClaimPost
  <2> QED
    BY <1>8, <2>2 DEF ClaimPost
<1>9. ASSUME ClaimRollback PROVE TypeOK'
  BY <1>9 DEF ClaimRollback, IdleHttpd
<1>10. ASSUME StartReply PROVE TypeOK'
  BY <1>10 DEF StartReply, IdleHttpd
<1>11. ASSUME BootTestStart PROVE TypeOK'
  BY <1>11 DEF BootTestStart
<1>12. ASSUME BootTestEnd PROVE TypeOK'
  <2>1. /\ bootTest' \in BOOLEAN
        /\ UNCHANGED <<active, httpVars, pulseVars, booting, sessQ, taskVars, slot, holder>>
    BY <1>12 DEF BootTestEnd
  <2> QED
    BY <2>1
<1> QED
  BY <1>1, <1>2, <1>3, <1>4, <1>5, <1>6, <1>7, <1>8, <1>9, <1>10, <1>11, <1>12 DEF Http

\* Every step on the pulse side keeps the types.
LEMMA TypePulse == TypeOK /\ PulseSide => TypeOK'
<1> SUFFICES ASSUME TypeOK, PulseSide PROVE TypeOK'
  OBVIOUS
<1> USE DEF TypeOK, httpVars, pulseVars, taskVars
<1>1. ASSUME NEW p \in Pulses, PulseArrives(p) PROVE TypeOK'
  <2>1. p \in Pulse
    BY ConstantsAssumption
  <2>2. pulseQ' \in Seq(Pulse) /\ Len(pulseQ') <= PulseQueueSize
    BY <1>1, <2>1, Appended, ConstantsAssumption DEF PulseArrives
  <2> QED
    BY <1>1, <2>2 DEF PulseArrives
<1>2. ASSUME PulseJudge PROVE TypeOK'
  <2> DEFINE p == Head(pulseQ)
             v == PulseVerdict(p)
  <2>1. /\ pulseQ' \in Seq(Pulse) /\ Len(pulseQ') <= PulseQueueSize
        /\ p \in Pulse
    BY <1>2, TakeHead, ConstantsAssumption DEF PulseJudge
  <2>2. v \in Verdicts
    BY VerdictType
  <2>3. fraud' \in 0..MaxFraud /\ prevSet' \in BOOLEAN
    BY <1>2, <2>2, FilterTypes DEF PulseJudge
  <2>4. judged' \in {Coin(holder, p.node), FraudEnd(holder), NoEvent}
    BY <1>2 DEF PulseJudge
  <2>5. judged' \in Event \cup {NoEvent} /\ judged'.type # "start"
    BY <2>1, <2>4 DEF Coin, FraudEnd, NoEvent, Event, Pulse
  <2> QED
    BY <1>2, <2>1, <2>3, <2>5 DEF PulseJudge
<1>3. ASSUME PulsePost PROVE TypeOK'
  <2>1. [judged EXCEPT !.client = holder] \in Event
    BY <1>3 DEF PulsePost, Event
  <2>2. sessQ' \in Seq(Event) /\ Len(sessQ') <= SessionQueueSize
    BY <1>3, <2>1, PostType DEF PulsePost
  <2>3. judged' \in Event \cup {NoEvent} /\ judged'.type # "start"
    BY <1>3 DEF PulsePost, NoEvent
  <2> QED
    BY <1>3, <2>2, <2>3 DEF PulsePost
<1>4. ASSUME AcceptorBooted PROVE TypeOK'
  <2>1. /\ booting' \in BOOLEAN
        /\ UNCHANGED <<active, httpVars, pulseVars, bootTest, sessQ, taskVars, slot, holder>>
    BY <1>4 DEF AcceptorBooted
  <2> QED
    BY <2>1
<1> QED
  BY <1>1, <1>2, <1>3, <1>4 DEF PulseSide

\* Every step of the session task keeps the types.
LEMMA TypeTask == TypeOK /\ SessionTask => TypeOK'
<1> SUFFICES ASSUME TypeOK, SessionTask PROVE TypeOK'
  OBVIOUS
<1> USE DEF TypeOK, httpVars, pulseVars, taskVars
<1>0. sessQ # << >> => /\ Tail(sessQ) \in Seq(Event)
                       /\ Len(Tail(sessQ)) <= SessionQueueSize
                       /\ Head(sessQ) \in Event
  BY TakeHead, ConstantsAssumption
<1>1. ASSUME DropStray PROVE TypeOK'
  BY <1>0, <1>1 DEF DropStray
<1>2. ASSUME OpenWindow PROVE TypeOK'
  <2>1. slot' \in [ip : Clients \cup {NoClient}, fd : Fds \cup {NoFd}]
    BY <1>0, <1>2 DEF OpenWindow, Event
  <2> QED
    BY <1>0, <1>2, <2>1 DEF OpenWindow, TaskPcs
<1>3. ASSUME WindowEvent PROVE TypeOK'
  <2>1. count' \in Nat /\ nodeCounts' \in [Nodes -> Nat]
    BY <1>3 DEF WindowEvent
  <2>2. fraudEnded' \in BOOLEAN /\ pc' \in TaskPcs
    BY <1>3 DEF WindowEvent, TaskPcs
  <2> QED
    BY <1>0, <1>3, <2>1, <2>2 DEF WindowEvent
<1>4. ASSUME WindowTimeout PROVE TypeOK'
  BY <1>4 DEF WindowTimeout, TaskPcs
<1>5. ASSUME CloseWindow PROVE TypeOK'
  BY <1>5 DEF CloseWindow, TaskPcs
<1>6. ASSUME Finalize PROVE TypeOK'
  <2>1. coins' \in Nat /\ pc' \in TaskPcs
    BY <1>6 DEF Finalize, TaskPcs
  <2>2. outcome' \in Outcomes
    BY <1>6 DEF Finalize, Outcomes
  <2> QED
    BY <1>6, <2>1, <2>2 DEF Finalize
<1>7. ASSUME NEW r \in {"granted", "failed"}, ControllerAnswers(r) PROVE TypeOK'
  BY <1>7 DEF ControllerAnswers, TaskPcs, Outcomes
<1>8. ASSUME DeliverResult PROVE TypeOK'
  BY <1>8 DEF DeliverResult, TaskPcs, Connected
<1>9. ASSUME ClearSlot PROVE TypeOK'
  BY <1>9 DEF ClearSlot, EmptySlot, TaskPcs, Outcomes
<1> QED
  BY <1>1, <1>2, <1>3, <1>4, <1>5, <1>6, <1>7, <1>8, <1>9 DEF SessionTask

\* Every step of any task, and every stutter, keeps the types.
LEMMA TypeStep == TypeOK /\ [Next]_vars => TypeOK'
<1> SUFFICES ASSUME TypeOK, [Next]_vars PROVE TypeOK'
  OBVIOUS
<1>1. CASE UNCHANGED vars
  BY <1>1 DEF vars, httpVars, pulseVars, taskVars, TypeOK
<1> QED
  BY <1>1, TypeHttp, TypePulse, TypeTask DEF Next

\* Type correctness of the coin window: queues stay within their lengths and
\* every value within its type, whatever the interleaving of the three tasks.
THEOREM TypeCorrect == Spec => []TypeOK
  BY TypeInit, TypeStep, PTL DEF Spec
-----------------------------------------------------------------------------
(* The claim of the window.  What the invariant says about the queue only  *)
(* changes when the queue does, so the actions are grouped by what they do *)
(* to it.                                                                  *)

\* The invariant holds before any claim.
LEMMA ClaimInit == Init => IInv
<1> SUFFICES ASSUME Init PROVE IInv
  OBVIOUS
<1>1. TypeOK
  BY TypeInit
<1>2. DOMAIN sessQ = {}
  BY EmptySeq, LenProperties DEF Init
<1> QED
  BY <1>1, <1>2 DEF Init, IInv, ClaimExclusive, ChargedToHolder, SlotOwned, HolderKnown,
     Starts, IdleHttpd

\* Steps that leave the claim alone, or only re-bind the socket of the slot.
LEMMA ClaimKept ==
    ASSUME IInv, TypeOK', UNCHANGED <<active, httpd, sessQ, pc, holder>>,
           slot' = slot \/ (pc # "idle" /\ slot'.ip = slot.ip)
    PROVE  IInv'
<1>1. Starts' = Starts
  BY DEF Starts
<1>2. slot'.ip = slot.ip
  OBVIOUS
<1> QED
  BY <1>1, <1>2 DEF IInv, ClaimExclusive, ChargedToHolder, SlotOwned, HolderKnown

\* A coin or an abort is posted, and marked with whoever holds the window then.
LEMMA ClaimPulse ==
    ASSUME IInv, TypeOK', UNCHANGED <<active, httpd, pc, slot, holder>>,
           NEW e \in Event, e.type # "start", e.client = holder,
           sessQ' = Append(sessQ, e)
    PROVE  IInv'
<1> USE DEF IInv
<1>1. /\ DOMAIN sessQ = 1..Len(sessQ) /\ DOMAIN sessQ' = 1..(Len(sessQ) + 1)
      /\ Len(sessQ) \in Nat
      /\ \A i \in 1..Len(sessQ) : sessQ'[i] = sessQ[i]
      /\ sessQ'[Len(sessQ) + 1] = e
  BY Appended DEF TypeOK
<1>2. Starts' = Starts
  BY <1>1 DEF Starts
<1>3. ClaimExclusive'
  BY <1>2 DEF ClaimExclusive
<1>4. ChargedToHolder'
  BY <1>1, <1>2 DEF ChargedToHolder, Starts
<1> QED
  BY <1>3, <1>4 DEF SlotOwned, HolderKnown

\* The session task takes the head of the queue.
LEMMA ClaimTake ==
    ASSUME IInv, sessQ # << >>, sessQ' = Tail(sessQ)
    PROVE  /\ \A i \in Starts' : i + 1 \in Starts
           /\ \A i \in DOMAIN sessQ' : i + 1 \in DOMAIN sessQ /\ sessQ'[i] = sessQ[i + 1]
           /\ Head(sessQ) = sessQ[1] /\ 1 \in DOMAIN sessQ
           /\ DOMAIN sessQ \subseteq Nat /\ DOMAIN sessQ' \subseteq Nat
           /\ \A i \in Starts : i # 1 => i - 1 \in Starts'
<1>1. /\ Len(sessQ) \in Nat /\ Len(sessQ) >= 1
      /\ DOMAIN sessQ = 1..Len(sessQ) /\ DOMAIN sessQ' = 1..(Len(sessQ) - 1)
      /\ Head(sessQ) = sessQ[1]
      /\ \A i \in 1..(Len(sessQ) - 1) : sessQ'[i] = sessQ[i + 1]
  BY TakeHead DEF IInv, TypeOK
<1>2. \A i \in Starts : i # 1 => i - 1 \in DOMAIN sessQ' /\ sessQ'[i - 1] = sessQ[i]
  BY <1>1 DEF Starts
<1> QED
  BY <1>1, <1>2 DEF Starts

\* Every step of the HTTP task keeps the invariant of the claim.
LEMMA ClaimHttp == IInv /\ Http => IInv'
<1> SUFFICES ASSUME IInv, Http PROVE IInv'
  OBVIOUS
<1>0. TypeOK'
  BY TypeHttp DEF IInv
<1> USE DEF httpVars, pulseVars, taskVars
<1>1. ASSUME NEW c \in Clients, NEW fd \in Fds, WsOpen(c, fd) PROVE IInv'
  <2>1. slot' = slot \/ (pc # "idle" /\ slot'.ip = slot.ip)
    BY <1>1, ConstantsAssumption DEF WsOpen, UpdateSocket, IInv, SlotOwned, EmptySlot, TypeOK
  <2> QED
    BY <1>0, <1>1, <2>1, ClaimKept DEF WsOpen
<1>2. ASSUME NEW fd \in Fds, GetStatus(fd) PROVE IInv'
  <2>1. slot' = slot \/ (pc # "idle" /\ slot'.ip = slot.ip)
    BY <1>2, ConstantsAssumption DEF GetStatus, UpdateSocket, IInv, SlotOwned, EmptySlot, TypeOK
  <2> QED
    BY <1>0, <1>2, <2>1, ClaimKept DEF GetStatus
<1>3. ASSUME NEW fd \in Fds, NEW r \in BOOLEAN, WsClose(fd) \/ StartRefused(fd, r) PROVE IInv'
  BY <1>0, <1>3, ClaimKept DEF WsClose, StartRefused
<1>4. ASSUME NEW c \in Clients, SeedPortalSession(c) \/ MoveIp(c) PROVE IInv'
  BY <1>0, <1>4, ClaimKept DEF SeedPortalSession, MoveIp
<1>5. ASSUME BootTestStart \/ BootTestEnd PROVE IInv'
  BY <1>0, <1>5, ClaimKept DEF BootTestStart, BootTestEnd
<1>6. ASSUME NEW fd \in Fds, ClaimCas(fd) PROVE IInv'
  <2>1. Starts = {} /\ Starts' = {} /\ pc \notin {"open", "closing"}
    BY <1>6 DEF ClaimCas, IInv, ClaimExclusive, Starts
  <2>2. holder' \in Clients
    BY <1>6 DEF ClaimCas, IInv, TypeOK
  <2> QED
    BY <1>0, <1>6, <2>1, <2>2, ConstantsAssumption
    DEF ClaimCas, IInv, ClaimExclusive, ChargedToHolder, SlotOwned, HolderKnown
<1>7. ASSUME ClaimPost PROVE IInv'
  <2> DEFINE e == Start(httpd.client, httpd.fd)
  <2>1. e \in Event /\ e.type = "start" /\ e.client = holder
    BY <1>7 DEF Start, Event, IInv, TypeOK, HolderKnown, ClaimPost
  <2>2. /\ DOMAIN sessQ = 1..Len(sessQ) /\ DOMAIN sessQ' = 1..(Len(sessQ) + 1)
        /\ Len(sessQ) \in Nat
        /\ \A i \in 1..Len(sessQ) : sessQ'[i] = sessQ[i]
        /\ sessQ'[Len(sessQ) + 1] = e
    BY <1>7, <2>1, Appended DEF ClaimPost, IInv, TypeOK
  <2>3. Starts = {} /\ active /\ pc \notin {"open", "closing"}
    BY <1>7 DEF ClaimPost, IInv, ClaimExclusive
  <2>4. Starts' = {Len(sessQ) + 1}
    BY <2>1, <2>2, <2>3 DEF Starts
  <2>5. httpd'.pc = "reply" /\ UNCHANGED <<active, pc, slot, holder>>
    BY <1>7 DEF ClaimPost, IInv, TypeOK
  <2>6. ClaimExclusive'
    BY <2>3, <2>4, <2>5 DEF ClaimExclusive
  <2>7. ChargedToHolder'
    BY <2>1, <2>2, <2>3, <2>4, <2>5 DEF ChargedToHolder
  <2> QED
    BY <1>0, <2>5, <2>6, <2>7 DEF IInv, SlotOwned, HolderKnown
<1>8. ASSUME ClaimRollback PROVE IInv'
  <2>1. Starts = {} /\ Starts' = {} /\ pc \notin {"open", "closing"}
    BY <1>8 DEF ClaimRollback, IInv, ClaimExclusive, Starts
  <2> QED
    BY <1>0, <1>8, <2>1
    DEF ClaimRollback, IdleHttpd, IInv, ClaimExclusive, ChargedToHolder, SlotOwned, HolderKnown
<1>9. ASSUME StartReply PROVE IInv'
  <2>1. Starts' = Starts
    BY <1>9 DEF StartReply, Starts
  <2> QED
    BY <1>0, <1>9, <2>1
    DEF StartReply, IdleHttpd, IInv, ClaimExclusive, ChargedToHolder, SlotOwned, HolderKnown
<1> QED
  BY <1>1, <1>2, <1>3, <1>4, <1>5, <1>6, <1>7, <1>8, <1>9 DEF Http

\* Every step on the pulse side keeps the invariant of the claim.
LEMMA ClaimPulseSide == IInv /\ PulseSide => IInv'
<1> SUFFICES ASSUME IInv, PulseSide PROVE IInv'
  OBVIOUS
<1>0. TypeOK /\ TypeOK'
  BY TypePulse DEF IInv
<1> USE DEF httpVars, pulseVars, taskVars
<1>1. ASSUME NEW p \in Pulses, PulseArrives(p) PROVE IInv'
  BY <1>0, <1>1, ClaimKept DEF PulseArrives
<1>2. ASSUME AcceptorBooted PROVE IInv'
  BY <1>0, <1>2, ClaimKept DEF AcceptorBooted
<1>3. ASSUME PulseJudge PROVE IInv'
  BY <1>0, <1>3, ClaimKept DEF PulseJudge
<1>4. ASSUME PulsePost PROVE IInv'
  <2> DEFINE e == [judged EXCEPT !.client = holder]
  <2>1. e \in Event /\ e.type # "start" /\ e.client = holder
    BY <1>0, <1>4 DEF PulsePost, Event, TypeOK
  <2>2. UNCHANGED <<active, httpd, pc, slot, holder>>
    BY <1>4 DEF PulsePost
  <2>3. sessQ' = sessQ \/ sessQ' = Append(sessQ, e)
    BY <1>4 DEF PulsePost, Post
  <2>4. CASE sessQ' = sessQ
    BY <1>0, <2>2, <2>4, ClaimKept
  <2>5. CASE sessQ' = Append(sessQ, e)
    BY <1>0, <2>1, <2>2, <2>5, ClaimPulse
  <2> QED
    BY <2>3, <2>4, <2>5
<1> QED
  BY <1>1, <1>2, <1>3, <1>4 DEF PulseSide

\* Every step of the session task keeps the invariant of the claim.
LEMMA ClaimTask == IInv /\ SessionTask => IInv'
<1> SUFFICES ASSUME IInv, SessionTask PROVE IInv'
  OBVIOUS
<1>0. TypeOK /\ TypeOK'
  BY TypeTask DEF IInv
<1> USE DEF httpVars, pulseVars, taskVars
<1>1. ASSUME DropStray PROVE IInv'
  <2>1. UNCHANGED <<active, httpd, pc, slot, holder>> /\ pc = "idle" /\ sessQ[1].type # "start"
    BY <1>1, ClaimTake DEF DropStray
  <2>2. sessQ # << >> /\ sessQ' = Tail(sessQ)
    BY <1>1 DEF DropStray
  <2>3. /\ \A i \in Starts' : i + 1 \in Starts
        /\ \A i \in DOMAIN sessQ' : i + 1 \in DOMAIN sessQ /\ sessQ'[i] = sessQ[i + 1]
        /\ DOMAIN sessQ' \subseteq Nat
        /\ Starts # {} => Starts' # {}
    BY <2>1, <2>2, ClaimTake DEF Starts
  <2>4. ClaimExclusive'
    <3>1. \A i, j \in Starts' : i = j
      BY <2>3 DEF IInv, ClaimExclusive, Starts
    <3>2. Starts' # {} => Starts # {}
      BY <2>3
    <3> QED
      BY <2>1, <2>3, <3>1, <3>2 DEF IInv, ClaimExclusive
  <2>5. ChargedToHolder'
    BY <2>1, <2>3 DEF IInv, ChargedToHolder, Starts
  <2> QED
    BY <1>0, <2>1, <2>4, <2>5 DEF IInv, SlotOwned, HolderKnown
<1>2. ASSUME OpenWindow PROVE IInv'
  <2>1. /\ UNCHANGED <<active, httpd, holder>> /\ pc = "idle" /\ pc' = "open"
        /\ sessQ # << >> /\ sessQ' = Tail(sessQ) /\ slot'.ip = Head(sessQ).client
        /\ Head(sessQ).type = "start"
    BY <1>2 DEF OpenWindow
  <2>2. /\ \A i \in Starts' : i + 1 \in Starts
        /\ \A i \in DOMAIN sessQ' : i + 1 \in DOMAIN sessQ /\ sessQ'[i] = sessQ[i + 1]
        /\ DOMAIN sessQ \subseteq Nat /\ DOMAIN sessQ' \subseteq Nat
        /\ Head(sessQ) = sessQ[1] /\ 1 \in DOMAIN sessQ
    BY <2>1, ClaimTake
  <2>3. 1 \in Starts
    BY <2>1, <2>2 DEF Starts
  <2>4. active /\ httpd.pc # "post" /\ slot'.ip = holder
    BY <2>1, <2>2, <2>3 DEF IInv, ClaimExclusive, ChargedToHolder
  <2>5. Starts' = {}
    <3> SUFFICES ASSUME NEW i \in Starts' PROVE FALSE
      OBVIOUS
    <3>1. i \in Nat /\ i \in DOMAIN sessQ' /\ i + 1 \in Starts
      BY <2>2 DEF Starts
    <3>2. i + 1 = 1
      BY <2>3, <3>1 DEF IInv, ClaimExclusive
    <3>3. i # 0
      BY <2>1, TakeHead, <3>1, <1>0 DEF TypeOK
    <3> QED
      BY <3>1, <3>2, <3>3
  <2>6. ClaimExclusive'
    BY <2>1, <2>4, <2>5 DEF ClaimExclusive
  <2>7. ChargedToHolder'
    <3>1. \A i \in DOMAIN sessQ' : sessQ'[i].client = holder
      <4> SUFFICES ASSUME NEW i \in DOMAIN sessQ' PROVE sessQ'[i].client = holder
        OBVIOUS
      <4>1. i \in Nat /\ i # 0 /\ i + 1 \in DOMAIN sessQ /\ sessQ'[i] = sessQ[i + 1]
        BY <2>1, <2>2, TakeHead, <1>0 DEF TypeOK
      <4> QED
        BY <2>3, <4>1 DEF IInv, ChargedToHolder
    <3> QED
      BY <2>1, <2>4, <2>5, <3>1 DEF ChargedToHolder
  <2>8. holder \in Clients
    BY <1>0, <2>4 DEF IInv, HolderKnown, TypeOK
  <2> QED
    BY <1>0, <2>1, <2>4, <2>6, <2>7, <2>8 DEF IInv, SlotOwned, HolderKnown
<1>3. ASSUME WindowEvent PROVE IInv'
  <2>1. /\ UNCHANGED <<active, httpd, slot, holder>> /\ pc = "open" /\ pc' \in {"open", "closing"}
        /\ sessQ # << >> /\ sessQ' = Tail(sessQ)
    BY <1>3 DEF WindowEvent
  <2>2. /\ \A i \in Starts' : i + 1 \in Starts
        /\ \A i \in DOMAIN sessQ' : i + 1 \in DOMAIN sessQ /\ sessQ'[i] = sessQ[i + 1]
    BY <2>1, ClaimTake
  <2>3. Starts = {} /\ Starts' = {} /\ active /\ httpd.pc # "post"
    BY <2>1, <2>2 DEF IInv, ClaimExclusive
  <2>4. ClaimExclusive' /\ ChargedToHolder'
    BY <2>1, <2>2, <2>3 DEF IInv, ClaimExclusive, ChargedToHolder
  <2> QED
    BY <1>0, <2>1, <2>4 DEF IInv, SlotOwned, HolderKnown
<1>4. ASSUME WindowTimeout PROVE IInv'
  <2>1. Starts' = Starts
    BY <1>4 DEF WindowTimeout, Starts
  <2> QED
    BY <1>0, <1>4, <2>1
    DEF WindowTimeout, IInv, ClaimExclusive, ChargedToHolder, SlotOwned, HolderKnown
<1>5. ASSUME CloseWindow PROVE IInv'
  <2>1. Starts = {} /\ Starts' = {} /\ httpd.pc # "post"
    BY <1>5 DEF CloseWindow, IInv, ClaimExclusive, Starts
  <2> QED
    BY <1>0, <1>5, <2>1
    DEF CloseWindow, IInv, ClaimExclusive, ChargedToHolder, SlotOwned, HolderKnown
<1>6. ASSUME \/ Finalize \/ DeliverResult \/ ClearSlot
             \/ \E r \in {"granted", "failed"} : ControllerAnswers(r)
      PROVE IInv'
  <2>1. /\ UNCHANGED <<active, httpd, sessQ, holder>>
        /\ pc \notin {"idle", "open", "closing"} /\ pc' \notin {"open", "closing"}
        /\ (pc' = "idle" /\ slot' = EmptySlot) \/ (pc' # "idle" /\ slot' = slot)
    BY <1>6 DEF Finalize, DeliverResult, ClearSlot, ControllerAnswers
  <2>2. Starts' = Starts
    BY <2>1 DEF Starts
  <2> QED
    BY <1>0, <2>1, <2>2 DEF IInv, ClaimExclusive, ChargedToHolder, SlotOwned, HolderKnown
<1> QED
  BY <1>1, <1>2, <1>3, <1>4, <1>5, <1>6 DEF SessionTask

\* Every step of any task keeps the invariant of the claim.
LEMMA ClaimStep == IInv /\ [Next]_vars => IInv'
<1> SUFFICES ASSUME IInv, [Next]_vars PROVE IInv'
  OBVIOUS
<1>1. CASE UNCHANGED vars
  <2>1. TypeOK'
    BY TypeStep DEF IInv
  <2> QED
    BY <1>1, <2>1, ClaimKept DEF vars, httpVars, taskVars
<1> QED
  BY <1>1, ClaimHttp, ClaimPulseSide, ClaimTask DEF Next

\* The inductive invariant holds throughout: what the theorems below rest on.
LEMMA ClaimInvariant == Spec => []IInv
  BY ClaimInit, ClaimStep, PTL DEF Spec

\* The window is claimed exactly while one claim is under way, whatever the
\* interleaving of the three tasks: windows never overlap and never get stuck.
THEOREM ClaimIsExclusive == Spec => []ClaimExclusive
  BY ClaimInvariant, PTL DEF IInv

\* A coin or an abort is only ever charged to the client that held the window
\* when the pulse was judged.
THEOREM EventsChargedToHolder == Spec => []ChargedToHolder
  BY ClaimInvariant, PTL DEF IInv

\* The slot is empty between windows and owned by a client during one.
THEOREM SlotIsOwned == Spec => []SlotOwned
  BY ClaimInvariant, PTL DEF IInv
-----------------------------------------------------------------------------
(* The implementation of CoinSlot.  A step of the tasks is a step of the   *)
(* abstract window, or leaves it alone.                                    *)

\* The firmware starts as an abstract window that nobody holds.
LEMMA KioskInit == Init => Kiosk!SlotInit
  BY DEF Init, Kiosk!SlotInit, Tab, Settling, Bill

\* Steps that change none of the variables the abstract window is made of.
LEMMA KioskStutter ==
    ASSUME UNCHANGED <<holder, pc, count, coins, fraudEnded>>, slot'.ip = slot.ip
    PROVE  UNCHANGED Kiosk!slotVars
  BY DEF Kiosk!slotVars, Tab, Settling, Bill

\* The HTTP task claims or releases the abstract window, or leaves it alone.
LEMMA KioskHttp == IInv /\ Http => [Kiosk!SlotNext]_(Kiosk!slotVars)
<1> SUFFICES ASSUME IInv, Http PROVE Kiosk!SlotNext \/ UNCHANGED Kiosk!slotVars
  OBVIOUS
<1> USE DEF httpVars, pulseVars, taskVars
<1>1. ASSUME NEW fd \in Fds, ClaimCas(fd) PROVE Kiosk!SlotNext
  <2>1. conn[fd] \in Clients /\ holder = NoClient
    BY <1>1 DEF ClaimCas, IInv, TypeOK, HolderKnown
  <2>2. Kiosk!Claim(conn[fd])
    BY <1>1, <2>1 DEF ClaimCas, Kiosk!Claim, Tab, Settling, Bill
  <2> QED
    BY <2>1, <2>2 DEF Kiosk!SlotNext
<1>2. ASSUME ClaimRollback PROVE Kiosk!SlotNext
  <2>1. holder # NoClient /\ pc \notin {"open", "closing"}
    BY <1>2 DEF ClaimRollback, IInv, ClaimExclusive, HolderKnown, TypeOK
  <2>2. Kiosk!Release
    BY <1>2, <2>1 DEF ClaimRollback, Kiosk!Release, Tab, Settling, Bill
  <2> QED
    BY <2>2 DEF Kiosk!SlotNext
<1>3. ASSUME NEW c \in Clients, NEW fd \in Fds, WsOpen(c, fd) PROVE UNCHANGED Kiosk!slotVars
  <2>1. slot'.ip = slot.ip
    BY <1>3 DEF WsOpen, UpdateSocket, IInv, TypeOK
  <2> QED
    BY <1>3, <2>1, KioskStutter DEF WsOpen
<1>4. ASSUME NEW fd \in Fds, GetStatus(fd) PROVE UNCHANGED Kiosk!slotVars
  <2>1. slot'.ip = slot.ip
    BY <1>4 DEF GetStatus, UpdateSocket, IInv, TypeOK
  <2> QED
    BY <1>4, <2>1, KioskStutter DEF GetStatus
<1>5. ASSUME NEW fd \in Fds, NEW r \in BOOLEAN, WsClose(fd) \/ StartRefused(fd, r) PROVE UNCHANGED Kiosk!slotVars
  BY <1>5, KioskStutter DEF WsClose, StartRefused
<1>6. ASSUME NEW c \in Clients, SeedPortalSession(c) \/ MoveIp(c) PROVE UNCHANGED Kiosk!slotVars
  BY <1>6, KioskStutter DEF SeedPortalSession, MoveIp
<1>7. ASSUME ClaimPost \/ StartReply \/ BootTestStart \/ BootTestEnd
      PROVE UNCHANGED Kiosk!slotVars
  BY <1>7, KioskStutter DEF ClaimPost, StartReply, BootTestStart, BootTestEnd
<1> QED
  BY <1>1, <1>2, <1>3, <1>4, <1>5, <1>6, <1>7 DEF Http

\* Pulses leave the abstract window alone until the session task counts them.
LEMMA KioskPulse == PulseSide => UNCHANGED Kiosk!slotVars
<1> SUFFICES ASSUME PulseSide PROVE UNCHANGED Kiosk!slotVars
  OBVIOUS
<1> QED
  BY KioskStutter DEF PulseSide, PulseArrives, PulseJudge, PulsePost, AcceptorBooted, httpVars, pulseVars,
     taskVars

\* The session task inserts, closes or settles, or leaves the window alone.
LEMMA KioskTask == IInv /\ SessionTask => [Kiosk!SlotNext]_(Kiosk!slotVars)
<1> SUFFICES ASSUME IInv, SessionTask PROVE Kiosk!SlotNext \/ UNCHANGED Kiosk!slotVars
  OBVIOUS
<1> USE DEF httpVars, pulseVars, taskVars
<1>1. ASSUME DropStray PROVE UNCHANGED Kiosk!slotVars
  BY <1>1, KioskStutter DEF DropStray
<1>2. ASSUME OpenWindow PROVE UNCHANGED Kiosk!slotVars
  BY <1>2 DEF OpenWindow, Kiosk!slotVars, Tab, Settling, Bill
<1>3. ASSUME WindowEvent PROVE Kiosk!SlotNext \/ UNCHANGED Kiosk!slotVars
  <2>1. CASE Head(sessQ).type = "coin"
    <3>1. holder # NoClient
      BY <1>3 DEF WindowEvent, IInv, ClaimExclusive, HolderKnown, TypeOK
    <3>2. pc = "open" /\ pc' = "open" /\ count' = count + 1 /\ UNCHANGED <<holder, slot>>
      BY <1>3, <2>1 DEF WindowEvent
    <3>3. Kiosk!Insert
      BY <3>1, <3>2 DEF Kiosk!Insert, Tab, Settling, Bill
    <3> QED
      BY <3>3 DEF Kiosk!SlotNext
  <2>2. CASE Head(sessQ).type # "coin"
    <3>1. pc = "open" /\ pc' \in {"open", "closing"} /\ UNCHANGED <<count, holder>>
      BY <1>3, <2>2 DEF WindowEvent
    <3> QED
      BY <3>1 DEF Kiosk!slotVars, Tab, Settling, Bill
  <2> QED
    BY <2>1, <2>2
<1>4. ASSUME WindowTimeout PROVE UNCHANGED Kiosk!slotVars
  BY <1>4 DEF WindowTimeout, Kiosk!slotVars, Tab, Settling, Bill
<1>5. ASSUME CloseWindow PROVE Kiosk!SlotNext
  <2>1. holder # NoClient /\ slot.ip = holder /\ fraudEnded \in BOOLEAN
    BY <1>5 DEF CloseWindow, IInv, ClaimExclusive, ChargedToHolder, HolderKnown, TypeOK
  <2>2. pc = "closing" /\ pc' = "final" /\ holder' = NoClient
        /\ UNCHANGED <<count, slot, fraudEnded, coins>>
    BY <1>5 DEF CloseWindow
  <2>3. Kiosk!Close(fraudEnded)
    BY <2>1, <2>2 DEF Kiosk!Close, Tab, Settling, Bill
  <2> QED
    BY <2>1, <2>3 DEF Kiosk!SlotNext
<1>6. ASSUME Finalize PROVE UNCHANGED Kiosk!slotVars
  BY <1>6 DEF Finalize, Kiosk!slotVars, Tab, Settling, Bill, IInv, TypeOK
<1>7. ASSUME NEW r \in {"granted", "failed"}, ControllerAnswers(r) PROVE UNCHANGED Kiosk!slotVars
  BY <1>7 DEF ControllerAnswers, Kiosk!slotVars, Tab, Settling, Bill
<1>8. ASSUME DeliverResult PROVE UNCHANGED Kiosk!slotVars
  BY <1>8 DEF DeliverResult, Kiosk!slotVars, Tab, Settling, Bill
<1>9. ASSUME ClearSlot PROVE Kiosk!SlotNext
  <2>1. slot.ip # NoClient
    BY <1>9, ConstantsAssumption DEF ClearSlot, IInv, SlotOwned
  <2>2. Kiosk!Settle
    BY <1>9, <2>1 DEF ClearSlot, Kiosk!Settle, Tab, Settling, Bill
  <2> QED
    BY <2>2 DEF Kiosk!SlotNext
<1> QED
  BY <1>1, <1>2, <1>3, <1>4, <1>5, <1>6, <1>7, <1>8, <1>9 DEF SessionTask

\* Every step of any task is a step or a stutter of the abstract window.
LEMMA KioskStep == IInv /\ [Next]_vars => [Kiosk!SlotNext]_(Kiosk!slotVars)
<1> SUFFICES ASSUME IInv, [Next]_vars PROVE Kiosk!SlotNext \/ UNCHANGED Kiosk!slotVars
  OBVIOUS
<1>1. CASE UNCHANGED vars
  BY <1>1, KioskStutter DEF vars, taskVars
<1> QED
  BY <1>1, KioskHttp, KioskPulse, KioskTask DEF Next

\* The tasks, queues and sockets of the coin window implement the abstract one
\* of CoinSlot: one holder at a time, settled for exactly the coins counted
\* while it held the window.
THEOREM WindowImplementsCoinSlot == Spec => ImplementsCoinSlot
  BY KioskInit, KioskStep, ClaimInvariant, PTL DEF Spec, ImplementsCoinSlot, Kiosk!SlotSpec
-----------------------------------------------------------------------------
\* During a window and its settlement the slot keeps its client, and its socket
\* only changes to a connection of that client.
THEOREM SocketRebindsOwnClient == Spec => RebindOwn
<1> DEFINE Rebinds == pc # "idle" /\ pc' # "idle" =>
                        /\ slot'.ip = slot.ip
                        /\ slot'.fd # slot.fd => conn'[slot'.fd] = slot.ip
<1>1. IInv /\ [Next]_vars => [Rebinds]_vars
  <2> SUFFICES ASSUME IInv, Next PROVE Rebinds
    BY DEF vars
  <2> USE DEF httpVars, pulseVars, taskVars
  <2>1. ASSUME NEW c \in Clients, NEW fd \in Fds, WsOpen(c, fd) PROVE Rebinds
    BY <2>1 DEF WsOpen, UpdateSocket, IInv, TypeOK
  <2>2. ASSUME NEW fd \in Fds, GetStatus(fd) PROVE Rebinds
    BY <2>2 DEF GetStatus, UpdateSocket, IInv, TypeOK
  <2>3. ASSUME OpenWindow \/ ClearSlot PROVE Rebinds
    BY <2>3 DEF OpenWindow, ClearSlot
  <2>4. ASSUME UNCHANGED slot PROVE Rebinds
    BY <2>4
  <2> QED
    BY <2>1, <2>2, <2>3, <2>4
    DEF Next, Http, PulseSide, SessionTask, WsClose, StartRefused, SeedPortalSession, MoveIp,
        ClaimCas, ClaimPost, ClaimRollback, StartReply, BootTestStart, BootTestEnd,
        PulseArrives, PulseJudge, PulsePost, AcceptorBooted, DropStray, WindowEvent, WindowTimeout,
        CloseWindow, Finalize, ControllerAnswers, DeliverResult
<1> QED
  BY <1>1, ClaimInvariant, PTL DEF Spec, RebindOwn

\* The boot test and a coin window exclude each other.
THEOREM BootTestIsExclusive == Spec => []BootTestExclusive
<1>1. Init => BootTestExclusive
  BY DEF Init, BootTestExclusive
<1>2. TypeOK /\ BootTestExclusive /\ [Next]_vars => BootTestExclusive'
  <2> SUFFICES ASSUME TypeOK, BootTestExclusive, [Next]_vars PROVE BootTestExclusive'
    OBVIOUS
  <2>1. ((active' => active) /\ (bootTest' => bootTest)) \/ ~active' \/ ~bootTest'
    BY DEF TypeOK, vars, httpVars, pulseVars, taskVars, Next, Http, PulseSide, SessionTask,
        WsOpen, WsClose, GetStatus, StartRefused, SeedPortalSession, MoveIp,
        ClaimCas, ClaimPost, ClaimRollback, StartReply, BootTestStart, BootTestEnd,
        PulseArrives, PulseJudge, PulsePost, AcceptorBooted, DropStray, OpenWindow, WindowEvent,
        WindowTimeout, CloseWindow, Finalize, ControllerAnswers, DeliverResult, ClearSlot
  <2> QED
    BY <2>1 DEF BootTestExclusive
<1> QED
  BY <1>1, <1>2, TypeCorrect, PTL DEF Spec
-----------------------------------------------------------------------------
(* Coins in a queue.                                                       *)

\* 1 for a coin, 0 for any other event.
CoinOf(e) == IF e.type = "coin" THEN 1 ELSE 0

\* The coins in a queue are finitely many.
LEMMA CoinsFinite ==
    ASSUME NEW S, NEW q \in Seq(S)
    PROVE  IsFiniteSet({i \in DOMAIN q : q[i].type = "coin"}) /\ CoinsIn(q) \in Nat
<1>1. DOMAIN q = 1..Len(q) /\ Len(q) \in Nat
  BY LenProperties
<1>2. IsFiniteSet(DOMAIN q)
  BY <1>1, FS_Interval
<1>3. IsFiniteSet({i \in DOMAIN q : q[i].type = "coin"})
  BY <1>2, FS_Subset
<1> QED
  BY <1>3, FS_CardinalityType DEF CoinsIn

\* An event at the end of a queue adds a coin if it is one.
LEMMA CoinsAppended ==
    ASSUME NEW S, NEW q \in Seq(S), NEW e \in S
    PROVE  CoinsIn(Append(q, e)) = CoinsIn(q) + CoinOf(e)
<1> DEFINE A == {i \in DOMAIN q : q[i].type = "coin"}
           B == {i \in DOMAIN Append(q, e) : Append(q, e)[i].type = "coin"}
<1>1. /\ Len(q) \in Nat /\ DOMAIN q = 1..Len(q) /\ DOMAIN Append(q, e) = 1..(Len(q) + 1)
      /\ \A i \in 1..Len(q) : Append(q, e)[i] = q[i]
      /\ Append(q, e)[Len(q) + 1] = e
  BY Appended
<1>2. IsFiniteSet(A) /\ Cardinality(A) \in Nat
  BY CoinsFinite DEF CoinsIn
<1>3. B = IF e.type = "coin" THEN A \cup {Len(q) + 1} ELSE A
  BY <1>1
<1>4. Len(q) + 1 \notin A
  BY <1>1
<1>5. Cardinality(A \cup {Len(q) + 1}) = Cardinality(A) + 1
  BY <1>2, <1>4, FS_AddElement
<1> HIDE DEF A, B
<1>6. Cardinality(B) = Cardinality(A) + CoinOf(e)
  BY <1>2, <1>3, <1>5 DEF CoinOf
<1> QED
  BY <1>6 DEF CoinsIn, A, B

\* An event in front of a queue adds a coin if it is one.
LEMMA CoinsPrepended ==
    ASSUME NEW S, NEW q \in Seq(S), NEW e \in S
    PROVE  CoinsIn(<<e>> \o q) = CoinOf(e) + CoinsIn(q)
<1> DEFINE A == {i \in DOMAIN q : q[i].type = "coin"}
           p == <<e>> \o q
           B == {i \in DOMAIN p : p[i].type = "coin"}
           C == {i + 1 : i \in A}
           f == [i \in A |-> i + 1]
<1>0. Len(q) \in Nat /\ DOMAIN q = 1..Len(q)
  BY LenProperties
<1>1. /\ p \in Seq(S) /\ Len(p) = Len(q) + 1 /\ p[1] = e
      /\ \A i \in 1..Len(q) : p[i + 1] = q[i]
  <2>1. <<e>> \in Seq(S) /\ Len(<<e>>) = 1 /\ <<e>>[1] = e
    OBVIOUS
  <2>2. /\ p \in Seq(S) /\ Len(p) = 1 + Len(q)
        /\ \A i \in 1..(1 + Len(q)) : p[i] = IF i <= 1 THEN <<e>>[i] ELSE q[i - 1]
    BY <2>1, ConcatProperties
  <2> HIDE DEF p
  <2>3. \A i \in 1..Len(q) : i + 1 \in 1..(1 + Len(q)) /\ ~(i + 1 <= 1) /\ (i + 1) - 1 = i
    BY <1>0
  <2> QED
    BY <1>0, <2>1, <2>2, <2>3
<1>2. DOMAIN p = 1..(Len(q) + 1)
  <2> HIDE DEF p
  <2> QED
    BY <1>1, LenProperties
<1>3. IsFiniteSet(A) /\ Cardinality(A) \in Nat
  BY CoinsFinite DEF CoinsIn
<1> HIDE DEF p
<1>4. B = IF e.type = "coin" THEN C \cup {1} ELSE C
  <2>1. 1 \in DOMAIN p /\ (1 \in B <=> e.type = "coin")
    BY <1>0, <1>1, <1>2
  <2>2. \A i \in DOMAIN p : i # 1 => i - 1 \in DOMAIN q /\ p[i] = q[i - 1] /\ (i - 1) + 1 = i
    <3> TAKE i \in DOMAIN p
    <3> HAVE i # 1
    <3>1. i - 1 \in 1..Len(q) /\ (i - 1) + 1 = i
      BY <1>0, <1>2
    <3>2. p[(i - 1) + 1] = q[i - 1]
      BY <1>1, <3>1
    <3> QED
      BY <1>0, <3>1, <3>2
  <2>3. \A i \in DOMAIN q : i + 1 \in DOMAIN p /\ p[i + 1] = q[i] /\ i + 1 # 1
    BY <1>0, <1>1, <1>2
  <2>4. C \subseteq B
    BY <2>3
  <2>5. \A i \in B : i # 1 => i \in C
    BY <2>2
  <2> QED
    BY <2>1, <2>4, <2>5
<1>5. 1 \notin C
  BY <1>0
<1>6. IsFiniteSet(C) /\ Cardinality(C) = Cardinality(A)
  <2>1. f \in Bijection(A, C)
    <3>1. f \in [A -> C]
      OBVIOUS
    <3>2. \A i, j \in A : f[i] = f[j] => i = j
      BY <1>0
    <3>3. \A c \in C : \E i \in A : f[i] = c
      OBVIOUS
    <3> QED
      BY <3>1, <3>2, <3>3 DEF Bijection, Injection, Surjection, IsInjective
  <2> HIDE DEF A, C, f
  <2> QED
    BY <1>3, <2>1, FS_Bijection DEF ExistsBijection
<1>7. Cardinality(C \cup {1}) = Cardinality(C) + 1
  <2> HIDE DEF C
  <2> QED
    BY <1>5, <1>6, FS_AddElement
<1> HIDE DEF A, B, C
<1>8. Cardinality(B) = CoinOf(e) + Cardinality(A)
  BY <1>3, <1>4, <1>6, <1>7 DEF CoinOf
<1> QED
  BY <1>8 DEF CoinsIn, A, B, p

\* The event taken from a queue takes a coin with it if it is one.
LEMMA CoinsTaken ==
    ASSUME NEW S, NEW q \in Seq(S), q # << >>
    PROVE  CoinsIn(q) = CoinOf(Head(q)) + CoinsIn(Tail(q))
<1>1. q = <<Head(q)>> \o Tail(q) /\ Head(q) \in S /\ Tail(q) \in Seq(S)
  BY HeadTailProperties
<1> QED
  BY <1>1, CoinsPrepended
-----------------------------------------------------------------------------
(* Sums over the nodes.                                                    *)

\* The coins per node add up to a number, to 0 where no node has any, and node by node.
LEMMA NodeSums ==
    ASSUME NEW f \in [Nodes -> Nat]
    PROVE  /\ SumFunction(f) = SumFunctionOnSet(f, Nodes) /\ SumFunction(f) \in Nat
           /\ (\A n \in Nodes : f[n] = 0) => SumFunction(f) = 0
<1>1. SumFunction(f) = SumFunctionOnSet(f, Nodes)
  BY Zenon DEF SumFunction
<1>2. SumFunctionOnSet(f, Nodes) \in Nat
  BY SumNat, LedgerAssumption
<1>3. ASSUME \A n \in Nodes : f[n] = 0 PROVE SumFunctionOnSet(f, Nodes) = 0
  BY <1>3, SumZero, LedgerAssumption
<1> QED
  BY <1>1, <1>2, <1>3

\* The sale log after one line per node.
LEMMA NodeSumPlus ==
    ASSUME NEW f \in [Nodes -> Nat], NEW g \in [Nodes -> Nat]
    PROVE  /\ [n \in Nodes |-> f[n] + g[n]] \in [Nodes -> Nat]
           /\ SumFunction([n \in Nodes |-> f[n] + g[n]]) = SumFunction(f) + SumFunction(g)
<1> DEFINE h == [n \in Nodes |-> f[n] + g[n]]
<1>1. h \in [Nodes -> Nat] /\ \A n \in Nodes : f[n] \in Nat /\ g[n] \in Nat /\ h[n] = f[n] + g[n]
  OBVIOUS
<1> HIDE DEF h
<1>2. SumFunctionOnSet(h, Nodes) = SumFunctionOnSet(f, Nodes) + SumFunctionOnSet(g, Nodes)
  BY <1>1, SumPlus, LedgerAssumption
<1>3. SumFunction(h) = SumFunction(f) + SumFunction(g)
  BY <1>1, <1>2, NodeSums
<1> QED
  BY <1>1, <1>3 DEF h

\* The coins of a window after one more from node x.
LEMMA NodeSumOne ==
    ASSUME NEW f \in [Nodes -> Nat], NEW x \in Nodes, NEW h \in [Nodes -> Nat],
           \A n \in Nodes : h[n] = IF n = x THEN f[n] + 1 ELSE f[n]
    PROVE  SumFunction(h) = SumFunction(f) + 1
<1> DEFINE g == [n \in Nodes |-> IF n = x THEN 1 ELSE 0]
<1>1. \A n \in Nodes : f[n] \in Nat /\ g[n] \in Nat /\ h[n] = f[n] + g[n]
  OBVIOUS
<1>2. SumFunctionOnSet(g, Nodes) = 1
  <2>1. \A n \in Nodes : g[n] = IF n = x THEN 1 ELSE 0
    OBVIOUS
  <2> HIDE DEF g
  <2> QED
    BY <2>1, SumOne, LedgerAssumption
<1> HIDE DEF g
<1>3. SumFunctionOnSet(h, Nodes) = SumFunctionOnSet(f, Nodes) + SumFunctionOnSet(g, Nodes)
  BY <1>1, SumPlus, LedgerAssumption
<1> QED
  BY <1>2, <1>3, NodeSums
-----------------------------------------------------------------------------
(* The ledger.                                                             *)

\* The types of the books.
BooksTypeOK ==
    /\ books \in [Fates -> Nat]
    /\ sold \in [Nodes -> Nat]
    /\ unlogged \in [Nodes -> Nat]
    /\ refunded \in Nat

\* Every coin on its way names the node it was put into.
CoinNodes ==
    /\ judged.type = "coin" => judged.node \in Nodes
    /\ \A i \in DOMAIN sessQ : sessQ[i].type = "coin" => sessQ[i].node \in Nodes

\* COIN_COUNT is zero outside of a window, and the result that is reported says what
\* became of the coins.
Settled ==
    /\ pc \notin {"open", "closing", "final"} => count = 0
    /\ pc = "deliver" => \/ outcome \in {"granted", "nosession", "failed"}
                         \/ outcome \in {"fraud", "nocoins"} /\ coins = 0

\* The coins of a window per node add up to its coins.
NodesAddUp ==
    /\ pc \in {"open", "closing", "final"} => SumFunction(nodeCounts) = count
    /\ pc = "calling" => SumFunction(nodeCounts) = coins

\* CoinsConserved, with the coin that is being judged apart from the queue.
Balanced ==
    books["accepted"] = CoinOf(judged) + CoinsIn(sessQ) + Unsettled
        + books["overflow"] + books["stray"] + books["granted"] + books["aborted"]
        + books["nosession"] + books["failed"]

\* The sale log, with the lines the flash did not take, is ahead of the settlements by
\* the sale that is being reported.
SoldOrReporting ==
    SumFunction(sold) + SumFunction(unlogged) = books["granted"]
        + (IF pc = "deliver" /\ outcome = "granted" THEN coins ELSE 0)

\* The refund log holds nothing but failures.
RefundedFailed == refunded <= books["failed"]

\* What the logs and the nodes' coins add up to.
LogsInv == NodesAddUp /\ SoldOrReporting /\ RefundedFailed

\* The inductive invariant of the ledger.
LedgerInv == TypeOK /\ BooksTypeOK /\ CoinNodes /\ Settled /\ Balanced /\ LogsInv

\* Nothing is booked at first.
LEMMA LedgerInitInv == LedgerInit => LedgerInv
<1> SUFFICES ASSUME LedgerInit PROVE LedgerInv
  OBVIOUS
<1>1. TypeOK
  BY TypeInit DEF LedgerInit
<1>2. BooksTypeOK
  BY DEF LedgerInit, BooksTypeOK
<1>3. CoinNodes /\ Settled
  BY DEF LedgerInit, Init, CoinNodes, Settled, NoEvent
<1>4. CoinsIn(sessQ) = 0 /\ CoinOf(judged) = 0 /\ Unsettled = 0
  <2>1. {i \in DOMAIN << >> : << >>[i].type = "coin"} = {}
    OBVIOUS
  <2>2. CoinsIn(<< >>) = 0
    BY <2>1, FS_EmptySet DEF CoinsIn
  <2> QED
    BY <2>2 DEF LedgerInit, Init, CoinOf, NoEvent, Unsettled
<1>5. Balanced
  BY <1>4 DEF LedgerInit, Fates, Balanced
<1>6. SumFunction(sold) = 0 /\ SumFunction(unlogged) = 0
  BY NodeSums DEF LedgerInit
<1>7. LogsInv
  BY <1>6 DEF LedgerInit, Init, Fates, LogsInv, NodesAddUp, SoldOrReporting, RefundedFailed
<1> QED
  BY <1>1, <1>2, <1>3, <1>5, <1>7 DEF LedgerInv

\* A step of the ledger is a step of the coin window.
LEMMA LedgerIsSession == [LedgerNext]_ledgerVars => [Next]_vars
<1> SUFFICES ASSUME LedgerNext PROVE Next
  BY DEF ledgerVars
<1>1. CASE BookNothing
  BY <1>1 DEF BookNothing, Next, Http, PulseSide, SessionTask
<1>2. CASE BookJudgement \/ BookPost
  BY <1>2 DEF BookJudgement, BookPost, Next, PulseSide
<1>3. CASE BookStray \/ BookAbort \/ BookDelivery
  BY <1>3 DEF BookStray, BookAbort, BookDelivery, Next, SessionTask
<1>4. ASSUME NEW r \in {"granted", "failed"}, BookAnswer(r) PROVE Next
  BY <1>4 DEF BookAnswer, Next, SessionTask
<1> QED
  BY <1>1, <1>2, <1>3, <1>4 DEF LedgerNext

\* Booking n coins raises one book by n.
LEMMA Booked ==
    ASSUME BooksTypeOK, NEW f \in Fates, NEW n \in Nat, Book(f, n)
    PROVE  /\ books' \in [Fates -> Nat] /\ books'[f] = books[f] + n
           /\ \A g \in Fates : g # f => books'[g] = books[g]
  BY DEF BooksTypeOK, Book

\* The numbers the balance is made of.
LEMMA BooksNat ==
    ASSUME TypeOK, BooksTypeOK
    PROVE  /\ \A f \in Fates : books[f] \in Nat
           /\ CoinOf(judged) \in Nat /\ CoinsIn(sessQ) \in Nat
           /\ count \in Nat /\ coins \in Nat /\ Unsettled \in Nat
<1>1. CoinsIn(sessQ) \in Nat
  BY CoinsFinite DEF TypeOK
<1>2. \A f \in Fates : books[f] \in Nat
  BY DEF BooksTypeOK
<1>3. CoinOf(judged) \in Nat
  BY DEF CoinOf
<1>4. count \in Nat /\ coins \in Nat
  BY DEF TypeOK
<1> QED
  BY <1>1, <1>2, <1>3, <1>4 DEF Unsettled

\* Steps that move no coin.
LEMMA LedgerStutter ==
    ASSUME LedgerInv, TypeOK',
           UNCHANGED <<judged, sessQ, pc, count, nodeCounts, coins, outcome, books, sold, unlogged, refunded>>
    PROVE  LedgerInv'
<1>1. BooksTypeOK' /\ CoinNodes' /\ Settled'
  BY DEF LedgerInv, BooksTypeOK, CoinNodes, Settled
<1>2. Balanced'
  BY DEF LedgerInv, Balanced, Unsettled
<1>3. LogsInv'
  BY DEF LedgerInv, LogsInv, NodesAddUp, SoldOrReporting, RefundedFailed
<1> QED
  BY <1>1, <1>2, <1>3 DEF LedgerInv

\* Steps of the HTTP task and of the acceptor: only a START is queued.
LEMMA LedgerHttp ==
    ASSUME LedgerInv, TypeOK', UNCHANGED <<books, sold, unlogged, refunded>>,
           Http \/ AcceptorBooted \/ \E p \in Pulses : PulseArrives(p)
    PROVE  LedgerInv'
<1>1. CASE ClaimPost
  <2> DEFINE e == Start(httpd.client, httpd.fd)
  <2>1. e \in Event /\ e.type = "start"
    BY DEF LedgerInv, TypeOK, Start, Event
  <2>2. /\ sessQ' = Append(sessQ, e)
        /\ UNCHANGED <<judged, pc, count, nodeCounts, coins, outcome>>
    BY <1>1 DEF ClaimPost, pulseVars, taskVars
  <2>3. sessQ \in Seq(Event)
    BY DEF LedgerInv, TypeOK
  <2> HIDE DEF e
  <2>4. CoinsIn(sessQ') = CoinsIn(sessQ)
    <3>1. CoinsIn(sessQ') = CoinsIn(sessQ) + CoinOf(e)
      BY <2>1, <2>2, <2>3, CoinsAppended
    <3>2. CoinOf(e) = 0 /\ CoinsIn(sessQ) \in Nat
      BY <2>1, <2>3, CoinsFinite DEF CoinOf
    <3> QED
      BY <3>1, <3>2
  <2>5. CoinNodes'
    BY <2>1, <2>2, <2>3, Appended DEF LedgerInv, CoinNodes
  <2>6. BooksTypeOK' /\ Settled'
    BY <2>2 DEF LedgerInv, BooksTypeOK, Settled
  <2>7. Balanced'
    BY <2>2, <2>4 DEF LedgerInv, Balanced, Unsettled
  <2>8. LogsInv'
    BY <2>2 DEF LedgerInv, LogsInv, NodesAddUp, SoldOrReporting, RefundedFailed
  <2> QED
    BY <2>5, <2>6, <2>7, <2>8 DEF LedgerInv
<1>2. CASE ~ClaimPost
  <2>1. UNCHANGED <<judged, sessQ, pc, count, nodeCounts, coins, outcome>>
    BY <1>2 DEF Http, AcceptorBooted, PulseArrives, WsOpen, WsClose, GetStatus, ClaimCas,
                StartRefused, SeedPortalSession, MoveIp, ClaimRollback, StartReply,
                BootTestStart, BootTestEnd, pulseVars, taskVars
  <2> QED
    BY <2>1, LedgerStutter
<1> QED
  BY <1>1, <1>2

\* A pulse the filter accepts becomes the event that is about to be posted.
LEMMA LedgerJudge ==
    ASSUME LedgerInv, TypeOK', BookJudgement
    PROVE  LedgerInv'
<1> DEFINE n == IF HeadVerdict = "accepted" THEN 1 ELSE 0
           p == Head(pulseQ)
<1>1. /\ UNCHANGED <<sessQ, pc, count, nodeCounts, coins, outcome, sold, unlogged, refunded>>
      /\ judged = NoEvent /\ Book("accepted", n) /\ n \in Nat
  BY DEF BookJudgement, PulseJudge, taskVars
<1>2. p \in Pulse
  BY TakeHead DEF BookJudgement, PulseJudge, LedgerInv, TypeOK
<1>3. /\ judged' \in {Coin(holder, p.node), FraudEnd(holder), NoEvent}
      /\ judged' = Coin(holder, p.node) <=> HeadVerdict = "accepted"
  <2>1. /\ Coin(holder, p.node).type = "coin"
        /\ FraudEnd(holder).type = "fraud" /\ NoEvent.type = "none"
    BY DEF Coin, FraudEnd, NoEvent
  <2>2. HeadVerdict = "accepted" => judged' = Coin(holder, p.node)
    BY DEF BookJudgement, PulseJudge, HeadVerdict, AbortsSession, Fraudulent
  <2>3. HeadVerdict # "accepted" => judged' \in {FraudEnd(holder), NoEvent}
    BY DEF BookJudgement, PulseJudge, HeadVerdict
  <2> QED
    BY <2>1, <2>2, <2>3
<1>4. CoinOf(judged) = 0 /\ CoinOf(judged') = n
  BY <1>1, <1>3 DEF CoinOf, Coin, FraudEnd, NoEvent
<1>5. judged'.type = "coin" => judged'.node \in Nodes
  BY <1>2, <1>3 DEF Coin, FraudEnd, NoEvent, Pulse
<1> HIDE DEF n
<1>6. /\ "accepted" \in Fates /\ books' \in [Fates -> Nat]
      /\ books'["accepted"] = books["accepted"] + n
      /\ \A g \in Fates : g # "accepted" => books'[g] = books[g]
  BY <1>1, Booked DEF Fates, LedgerInv
<1>7. BooksTypeOK' /\ CoinNodes' /\ Settled'
  BY <1>1, <1>5, <1>6 DEF LedgerInv, BooksTypeOK, CoinNodes, Settled
<1>8. Unsettled' = Unsettled
  BY <1>1 DEF Unsettled
<1>9. Balanced'
  BY <1>1, <1>4, <1>6, <1>8, BooksNat DEF LedgerInv, Balanced, Fates
<1>10. LogsInv'
  BY <1>1, <1>6 DEF LedgerInv, LogsInv, NodesAddUp, SoldOrReporting, RefundedFailed, Fates
<1> QED
  BY <1>7, <1>9, <1>10 DEF LedgerInv

\* The event goes into the queue, or is booked as lost.
LEMMA LedgerPost ==
    ASSUME LedgerInv, TypeOK', BookPost
    PROVE  LedgerInv'
<1> DEFINE full == Len(sessQ) >= SessionQueueSize
           n == IF judged.type = "coin" /\ full THEN 1 ELSE 0
           e == [judged EXCEPT !.client = holder]
<1>1. /\ UNCHANGED <<pc, count, nodeCounts, coins, outcome, sold, unlogged, refunded>>
      /\ judged # NoEvent /\ judged' = NoEvent /\ sessQ' = Post(sessQ, e)
      /\ Book("overflow", n) /\ n \in Nat
  BY DEF BookPost, PulsePost, taskVars
<1>2. judged \in Event /\ sessQ \in Seq(Event) /\ holder \in Clients \cup {NoClient}
  BY <1>1 DEF LedgerInv, TypeOK
<1>3. e \in Event /\ e.type = judged.type /\ e.node = judged.node
  BY <1>2 DEF Event
<1> HIDE DEF e
<1>4. sessQ' = IF full THEN sessQ ELSE Append(sessQ, e)
  <2>1. Len(sessQ) \in Nat /\ SessionQueueSize \in Nat
    BY <1>2, LenProperties, ConstantsAssumption
  <2> QED
    BY <1>1, <2>1 DEF Post
<1>5. /\ CoinsIn(sessQ) \in Nat /\ CoinOf(judged') = 0
      /\ CoinsIn(sessQ') + n = CoinsIn(sessQ) + CoinOf(judged)
  <2>1. CoinsIn(sessQ) \in Nat /\ CoinOf(e) = CoinOf(judged) /\ CoinOf(NoEvent) = 0
    BY <1>2, <1>3, CoinsFinite DEF CoinOf, NoEvent
  <2>2. CASE full
    BY <1>1, <1>4, <2>1, <2>2 DEF CoinOf
  <2>3. CASE ~full
    <3>1. CoinsIn(sessQ') = CoinsIn(sessQ) + CoinOf(e)
      BY <1>2, <1>3, <1>4, <2>3, CoinsAppended
    <3> QED
      BY <1>1, <2>1, <2>3, <3>1 DEF CoinOf
  <2> QED
    BY <2>2, <2>3
<1>6. CoinNodes'
  <2>1. judged'.type # "coin"
    BY <1>1 DEF NoEvent
  <2>2. \A i \in DOMAIN sessQ' : sessQ'[i].type = "coin" => sessQ'[i].node \in Nodes
    <3>1. CASE full
      BY <1>4, <3>1 DEF LedgerInv, CoinNodes
    <3>2. CASE ~full
      <4>1. sessQ' = Append(sessQ, e)
        BY <1>4, <3>2
      <4> QED
        BY <1>2, <1>3, <4>1, Appended DEF LedgerInv, CoinNodes
    <3> QED
      BY <3>1, <3>2
  <2> QED
    BY <2>1, <2>2 DEF CoinNodes
<1> HIDE DEF n
<1>7. /\ books' \in [Fates -> Nat] /\ books'["overflow"] = books["overflow"] + n
      /\ \A g \in Fates : g # "overflow" => books'[g] = books[g]
  BY <1>1, Booked DEF Fates, LedgerInv
<1>8. BooksTypeOK' /\ Settled'
  BY <1>1, <1>7 DEF LedgerInv, BooksTypeOK, Settled
<1>9. Unsettled' = Unsettled /\ CoinsIn(sessQ') \in Nat
  BY <1>1, CoinsFinite DEF Unsettled, TypeOK
<1>10. Balanced'
  BY <1>1, <1>5, <1>7, <1>9, BooksNat DEF LedgerInv, Balanced, Fates
<1>11. LogsInv'
  BY <1>1, <1>7 DEF LedgerInv, LogsInv, NodesAddUp, SoldOrReporting, RefundedFailed, Fates
<1> QED
  BY <1>6, <1>8, <1>10, <1>11 DEF LedgerInv

\* An event is taken from the queue: the coins that are left name their nodes.
LEMMA LedgerTake ==
    ASSUME LedgerInv, TypeOK', sessQ # << >>, sessQ' = Tail(sessQ), judged' = judged
    PROVE  /\ CoinNodes'
           /\ CoinsIn(sessQ) = CoinOf(Head(sessQ)) + CoinsIn(sessQ')
           /\ CoinsIn(sessQ') \in Nat /\ CoinOf(Head(sessQ)) \in {0, 1}
           /\ Head(sessQ).type = "coin" => Head(sessQ).node \in Nodes
<1>1. sessQ \in Seq(Event) /\ sessQ' \in Seq(Event)
  BY DEF LedgerInv, TypeOK
<1>2. CoinNodes' /\ (Head(sessQ).type = "coin" => Head(sessQ).node \in Nodes)
  <2>1. /\ Len(sessQ) \in Nat /\ Len(sessQ) >= 1 /\ Head(sessQ) = sessQ[1]
        /\ DOMAIN sessQ = 1..Len(sessQ) /\ DOMAIN sessQ' = 1..(Len(sessQ) - 1)
        /\ \A i \in 1..(Len(sessQ) - 1) : sessQ'[i] = sessQ[i + 1]
    BY <1>1, TakeHead
  <2>2. 1 \in DOMAIN sessQ /\ \A i \in DOMAIN sessQ' : i + 1 \in DOMAIN sessQ
    BY <2>1
  <2> QED
    BY <2>1, <2>2 DEF LedgerInv, CoinNodes
<1>3. CoinsIn(sessQ) = CoinOf(Head(sessQ)) + CoinsIn(sessQ')
  BY <1>1, CoinsTaken
<1>4. CoinsIn(sessQ') \in Nat /\ CoinOf(Head(sessQ)) \in {0, 1}
  BY <1>1, CoinsFinite DEF CoinOf
<1> QED
  BY <1>2, <1>3, <1>4

\* An event without a window is dropped, and booked if it is a coin.
LEMMA LedgerStray ==
    ASSUME LedgerInv, TypeOK', BookStray
    PROVE  LedgerInv'
<1> DEFINE n == IF Head(sessQ).type = "coin" THEN 1 ELSE 0
<1>1. /\ UNCHANGED <<judged, pc, count, nodeCounts, coins, outcome, sold, unlogged, refunded>>
      /\ sessQ # << >> /\ sessQ' = Tail(sessQ) /\ Book("stray", n) /\ n \in Nat
      /\ n = CoinOf(Head(sessQ))
  BY DEF BookStray, DropStray, pulseVars, taskVars, CoinOf
<1> HIDE DEF n
<1>2. /\ CoinNodes' /\ CoinsIn(sessQ') \in Nat /\ CoinsIn(sessQ) = n + CoinsIn(sessQ')
  BY <1>1, LedgerTake
<1>3. /\ books' \in [Fates -> Nat] /\ books'["stray"] = books["stray"] + n
      /\ \A g \in Fates : g # "stray" => books'[g] = books[g]
  BY <1>1, Booked DEF Fates, LedgerInv
<1>4. BooksTypeOK' /\ Settled'
  BY <1>1, <1>3 DEF LedgerInv, BooksTypeOK, Settled
<1>5. Unsettled' = Unsettled
  BY <1>1 DEF Unsettled
<1>6. Balanced'
  <2>1. /\ \A f \in Fates : books[f] \in Nat
        /\ CoinOf(judged) \in Nat /\ Unsettled \in Nat
    BY BooksNat DEF LedgerInv
  <2>2. CoinOf(judged') = CoinOf(judged)
    BY <1>1
  <2>3. n \in Nat
    BY <1>1
  <2> QED
    BY <1>2, <1>3, <1>5, <2>1, <2>2, <2>3 DEF LedgerInv, Balanced, Fates
<1>7. LogsInv'
  BY <1>1, <1>3 DEF LedgerInv, LogsInv, NodesAddUp, SoldOrReporting, RefundedFailed, Fates
<1> QED
  BY <1>2, <1>4, <1>6, <1>7 DEF LedgerInv

\* A window opens with nothing counted: COIN_COUNT, which OpenWindow resets, was zero.
LEMMA LedgerOpen ==
    ASSUME LedgerInv, TypeOK', OpenWindow, UNCHANGED <<books, sold, unlogged, refunded>>
    PROVE  LedgerInv'
<1>1. /\ UNCHANGED <<judged, coins, outcome>> /\ pc = "idle" /\ pc' = "open"
      /\ sessQ # << >> /\ sessQ' = Tail(sessQ) /\ Head(sessQ).type = "start"
      /\ count' = 0 /\ nodeCounts' = [n \in Nodes |-> 0]
  BY DEF OpenWindow, pulseVars
<1>2. CoinNodes' /\ CoinsIn(sessQ') \in Nat /\ CoinsIn(sessQ) = CoinsIn(sessQ')
  BY <1>1, LedgerTake DEF CoinOf
<1>3. BooksTypeOK' /\ Settled'
  BY <1>1 DEF LedgerInv, BooksTypeOK, Settled
<1>4. Unsettled = 0 /\ Unsettled' = 0
  BY <1>1 DEF Unsettled, LedgerInv, Settled
<1>5. Balanced'
  BY <1>1, <1>2, <1>4 DEF LedgerInv, Balanced
<1>6. SumFunction(nodeCounts') = 0
  <2>1. nodeCounts' \in [Nodes -> Nat] /\ \A n \in Nodes : nodeCounts'[n] = 0
    BY <1>1
  <2> QED
    BY <2>1, NodeSums
<1>7. LogsInv'
  BY <1>1, <1>6 DEF LedgerInv, LogsInv, NodesAddUp, SoldOrReporting, RefundedFailed
<1> QED
  BY <1>2, <1>3, <1>5, <1>7 DEF LedgerInv

\* A coin of an open window moves from the queue to the count and to its node's count.
LEMMA LedgerEvent ==
    ASSUME LedgerInv, TypeOK', WindowEvent, UNCHANGED <<books, sold, unlogged, refunded>>
    PROVE  LedgerInv'
<1> DEFINE e == Head(sessQ)
<1>1. /\ UNCHANGED <<judged, coins, outcome>> /\ pc = "open" /\ pc' \in {"open", "closing"}
      /\ sessQ # << >> /\ sessQ' = Tail(sessQ)
      /\ count' = IF e.type = "coin" THEN count + 1 ELSE count
      /\ nodeCounts' = [n \in Nodes |-> IF e.type = "coin" /\ n = e.node
                                          THEN nodeCounts[n] + 1 ELSE nodeCounts[n]]
  BY DEF WindowEvent, pulseVars
<1>2. /\ CoinNodes' /\ CoinsIn(sessQ') \in Nat /\ CoinsIn(sessQ) = CoinOf(e) + CoinsIn(sessQ')
      /\ e.type = "coin" => e.node \in Nodes
  BY <1>1, LedgerTake
<1> HIDE DEF e
<1>3. count' = count + CoinOf(e) /\ CoinOf(e) \in Nat /\ count \in Nat
  BY <1>1 DEF CoinOf, LedgerInv, TypeOK
<1>4. BooksTypeOK' /\ Settled'
  BY <1>1 DEF LedgerInv, BooksTypeOK, Settled
<1>5. Unsettled = count /\ Unsettled' = count'
  BY <1>1, <1>3 DEF Unsettled
<1>6. Balanced'
  BY <1>1, <1>2, <1>3, <1>5, BooksNat DEF LedgerInv, Balanced, Fates
<1>7. SumFunction(nodeCounts') = count'
  <2>1. /\ SumFunction(nodeCounts) = count
        /\ nodeCounts \in [Nodes -> Nat] /\ nodeCounts' \in [Nodes -> Nat]
    BY <1>1 DEF LedgerInv, LogsInv, NodesAddUp, TypeOK
  <2>2. CASE e.type = "coin"
    <3>1. /\ e.node \in Nodes
          /\ \A n \in Nodes :
               nodeCounts'[n] = IF n = e.node THEN nodeCounts[n] + 1 ELSE nodeCounts[n]
      BY <1>1, <1>2, <2>2
    <3>2. SumFunction(nodeCounts') = SumFunction(nodeCounts) + 1
      BY <2>1, <3>1, NodeSumOne
    <3> QED
      BY <1>1, <2>1, <2>2, <3>2
  <2>3. CASE e.type # "coin"
    BY <1>1, <2>1, <2>3
  <2> QED
    BY <2>2, <2>3
<1>8. LogsInv'
  BY <1>1, <1>7 DEF LedgerInv, LogsInv, NodesAddUp, SoldOrReporting, RefundedFailed
<1> QED
  BY <1>2, <1>4, <1>6, <1>8 DEF LedgerInv

\* The window closes, or what was settled is cleared: no coin moves.
LEMMA LedgerClose ==
    ASSUME LedgerInv, TypeOK', WindowTimeout \/ CloseWindow \/ ClearSlot,
           UNCHANGED <<books, sold, unlogged, refunded>>
    PROVE  LedgerInv'
<1>1. /\ UNCHANGED <<judged, sessQ, count>>
      /\ \/ /\ UNCHANGED <<nodeCounts, coins, outcome>>
            /\ pc \in {"open", "closing"} /\ pc' \in {"closing", "final"}
         \/ pc = "clear" /\ pc' = "idle"
  BY DEF WindowTimeout, CloseWindow, ClearSlot, pulseVars
<1>2. BooksTypeOK' /\ CoinNodes' /\ Settled'
  BY <1>1 DEF LedgerInv, BooksTypeOK, CoinNodes, Settled
<1>3. Unsettled' = Unsettled
  BY <1>1 DEF Unsettled
<1>4. Balanced'
  BY <1>1, <1>3 DEF LedgerInv, Balanced
<1>5. LogsInv'
  BY <1>1 DEF LedgerInv, LogsInv, NodesAddUp, SoldOrReporting, RefundedFailed
<1> QED
  BY <1>2, <1>4, <1>5 DEF LedgerInv

\* finalizeSession takes the count over, or books it as aborted.
LEMMA LedgerFinalize ==
    ASSUME LedgerInv, TypeOK', BookAbort
    PROVE  LedgerInv'
<1> DEFINE n == IF fraudEnded THEN count ELSE 0
           k == IF fraudEnded THEN 0 ELSE count
<1>0. count \in Nat /\ fraudEnded \in BOOLEAN
  BY DEF LedgerInv, TypeOK
<1>1. /\ UNCHANGED <<judged, sessQ, nodeCounts, sold, unlogged, refunded>>
      /\ pc = "final" /\ pc' \in {"calling", "deliver"} /\ count' = 0 /\ coins' = k
      /\ Book("aborted", n)
  BY DEF BookAbort, Finalize, pulseVars
<1>2. n \in Nat /\ k \in Nat /\ n + k = count
  BY <1>0
<1>3. /\ pc' = "calling" => ~fraudEnded
      /\ pc' = "deliver" => \/ outcome' = "nosession"
                            \/ outcome' \in {"fraud", "nocoins"} /\ k = 0
  BY <1>0 DEF BookAbort, Finalize
<1>4. pc' = "calling" => k = count
  BY <1>3
<1> HIDE DEF n, k
<1>5. /\ books' \in [Fates -> Nat] /\ books'["aborted"] = books["aborted"] + n
      /\ \A g \in Fates : g # "aborted" => books'[g] = books[g]
  BY <1>1, <1>2, Booked DEF Fates, LedgerInv
<1>6. BooksTypeOK' /\ CoinNodes' /\ Settled'
  BY <1>1, <1>3, <1>5 DEF LedgerInv, BooksTypeOK, CoinNodes, Settled
<1>7. Unsettled = count /\ Unsettled' = k
  BY <1>0, <1>1, <1>2 DEF Unsettled
<1>8. Balanced'
  <2>1. /\ \A f \in Fates : books[f] \in Nat
        /\ CoinOf(judged) \in Nat /\ CoinsIn(sessQ) \in Nat
    BY BooksNat DEF LedgerInv
  <2>2. CoinOf(judged') = CoinOf(judged) /\ CoinsIn(sessQ') = CoinsIn(sessQ)
    BY <1>1
  <2> QED
    BY <1>2, <1>5, <1>7, <2>1, <2>2 DEF LedgerInv, Balanced, Fates
<1>9. LogsInv'
  <2>1. NodesAddUp'
    BY <1>1, <1>4 DEF LedgerInv, LogsInv, NodesAddUp
  <2>2. SoldOrReporting' /\ RefundedFailed'
    BY <1>1, <1>3, <1>5 DEF LedgerInv, LogsInv, SoldOrReporting, RefundedFailed, Fates
  <2> QED
    BY <2>1, <2>2 DEF LogsInv
<1> QED
  BY <1>6, <1>8, <1>9 DEF LedgerInv

\* The controller's answer: the lines of the sale log add up to the coins of the window.
LEMMA LedgerAnswer ==
    ASSUME LedgerInv, TypeOK', NEW r \in {"granted", "failed"}, BookAnswer(r)
    PROVE  LedgerInv'
<1>1. /\ UNCHANGED <<judged, sessQ, nodeCounts, count, coins, books, refunded>>
      /\ pc = "calling" /\ pc' = "deliver" /\ outcome' = r
      /\ r # "granted" => sold' = sold /\ unlogged' = unlogged
  BY DEF BookAnswer, ControllerAnswers, pulseVars
<1>2. sold \in [Nodes -> Nat] /\ unlogged \in [Nodes -> Nat] /\ nodeCounts \in [Nodes -> Nat]
  BY DEF LedgerInv, BooksTypeOK, TypeOK
<1> DEFINE logs == SumFunction(sold) + SumFunction(unlogged)
<1>a. SumFunction(sold) \in Nat /\ SumFunction(unlogged) \in Nat
  BY <1>2, NodeSums
<1>3. /\ sold' \in [Nodes -> Nat] /\ unlogged' \in [Nodes -> Nat]
      /\ r = "granted" => logs' = logs + coins
      /\ r # "granted" => logs' = logs
  <2>1. CASE r # "granted"
    BY <1>1, <1>2, <2>1
  <2>2. CASE r = "granted"
    <3>1. PICK kept \in SUBSET {n \in Nodes : nodeCounts[n] > 0} :
            /\ sold' = Logged(sold, CoinsFrom(kept))
            /\ unlogged' = Logged(unlogged, CoinsFrom(Nodes \ kept))
      BY <2>2 DEF BookAnswer
    <3> DEFINE c == CoinsFrom(kept)  d == CoinsFrom(Nodes \ kept)
    <3>2. c \in [Nodes -> Nat] /\ d \in [Nodes -> Nat]
      BY <1>2 DEF CoinsFrom
    <3>3. [n \in Nodes |-> c[n] + d[n]] = nodeCounts
      BY <1>2 DEF CoinsFrom
    <3> HIDE DEF c, d
    <3>4. /\ SumFunction(c) \in Nat /\ SumFunction(d) \in Nat
          /\ SumFunction(c) + SumFunction(d) = coins
      BY <1>1, <3>2, <3>3, NodeSumPlus, NodeSums DEF LedgerInv, LogsInv, NodesAddUp
    <3>5. /\ sold' = [n \in Nodes |-> sold[n] + c[n]]
          /\ unlogged' = [n \in Nodes |-> unlogged[n] + d[n]]
      BY <3>1 DEF Logged, c, d
    <3>6. /\ sold' \in [Nodes -> Nat] /\ unlogged' \in [Nodes -> Nat]
          /\ SumFunction(sold') = SumFunction(sold) + SumFunction(c)
          /\ SumFunction(unlogged') = SumFunction(unlogged) + SumFunction(d)
      BY <1>2, <3>2, <3>5, NodeSumPlus
    <3> QED
      BY <1>a, <2>2, <3>4, <3>6
  <2> QED
    BY <2>1, <2>2
<1>4. BooksTypeOK' /\ CoinNodes' /\ Settled'
  BY <1>1, <1>3 DEF LedgerInv, BooksTypeOK, CoinNodes, Settled
<1>5. Unsettled' = Unsettled
  BY <1>1 DEF Unsettled
<1>6. Balanced'
  BY <1>1, <1>5 DEF LedgerInv, Balanced
<1>7. LogsInv'
  <2>1. logs = books["granted"]
    <3>1. logs = books["granted"] + 0
      BY <1>1 DEF LedgerInv, LogsInv, SoldOrReporting
    <3>2. books["granted"] \in Nat
      BY DEF LedgerInv, BooksTypeOK, Fates
    <3> QED
      BY <3>1, <3>2
  <2>2. logs' = books'["granted"] + (IF r = "granted" THEN coins ELSE 0)
    <3>1. books["granted"] \in Nat
      BY DEF LedgerInv, BooksTypeOK, Fates
    <3> QED
      BY <1>1, <1>3, <2>1, <3>1
  <2>3. SoldOrReporting'
    BY <1>1, <2>2 DEF SoldOrReporting
  <2>4. NodesAddUp' /\ RefundedFailed'
    BY <1>1 DEF LedgerInv, LogsInv, NodesAddUp, RefundedFailed
  <2> QED
    BY <2>3, <2>4 DEF LogsInv
<1> QED
  BY <1>4, <1>6, <1>7 DEF LedgerInv

\* The result is reported and booked; what is refunded was refused.
LEMMA LedgerDelivery ==
    ASSUME LedgerInv, TypeOK', BookDelivery
    PROVE  LedgerInv'
<1>1. /\ UNCHANGED <<judged, sessQ, nodeCounts, count, coins, outcome, sold, unlogged>>
      /\ pc = "deliver" /\ pc' = "clear"
      /\ refunded' \in {refunded, refunded + coins}
      /\ outcome # "failed" => refunded' = refunded
  BY DEF BookDelivery, DeliverResult, WritesRefund, pulseVars
<1>2. /\ \A f \in Fates : books[f] \in Nat
      /\ CoinOf(judged) \in Nat /\ CoinsIn(sessQ) \in Nat
      /\ count \in Nat /\ coins \in Nat /\ refunded \in Nat /\ refunded <= books["failed"]
  BY BooksNat DEF LedgerInv, BooksTypeOK, LogsInv, RefundedFailed
<1>3. CoinOf(judged') = CoinOf(judged) /\ CoinsIn(sessQ') = CoinsIn(sessQ)
  BY <1>1
<1>4. Unsettled = coins /\ Unsettled' = 0
  BY <1>1, <1>2 DEF Unsettled, LedgerInv, Settled
<1>5. CoinNodes' /\ Settled'
  BY <1>1 DEF LedgerInv, CoinNodes, Settled
<1>6. NodesAddUp'
  BY <1>1 DEF NodesAddUp
<1>7. CASE outcome \in {"granted", "nosession", "failed"}
  <2>1. outcome \in Fates /\ Book(outcome, coins)
    BY <1>7 DEF BookDelivery, Fates
  <2>2. /\ books' \in [Fates -> Nat] /\ books'[outcome] = books[outcome] + coins
        /\ \A g \in Fates : g # outcome => books'[g] = books[g]
    BY <1>2, <2>1, Booked DEF LedgerInv
  <2>3. Balanced'
    <3>1. CASE outcome = "granted"
      BY <1>2, <1>3, <1>4, <2>2, <3>1 DEF LedgerInv, Balanced, Fates
    <3>2. CASE outcome = "nosession"
      BY <1>2, <1>3, <1>4, <2>2, <3>2 DEF LedgerInv, Balanced, Fates
    <3>3. CASE outcome = "failed"
      BY <1>2, <1>3, <1>4, <2>2, <3>3 DEF LedgerInv, Balanced, Fates
    <3> QED
      BY <1>7, <3>1, <3>2, <3>3
  <2>4. SoldOrReporting'
    <3>1. books'["granted"] = books["granted"] + (IF outcome = "granted" THEN coins ELSE 0)
      BY <1>2, <2>2 DEF Fates
    <3> QED
      BY <1>1, <1>2, <2>2, <3>1 DEF LedgerInv, LogsInv, SoldOrReporting, Fates
  <2>5. RefundedFailed'
    <3>1. books'["failed"] = books["failed"] + (IF outcome = "failed" THEN coins ELSE 0)
      BY <1>2, <2>2 DEF Fates
    <3> QED
      BY <1>1, <1>2, <3>1 DEF RefundedFailed, Fates
  <2>6. BooksTypeOK'
    BY <1>1, <1>2, <2>2 DEF LedgerInv, BooksTypeOK
  <2> QED
    BY <1>5, <1>6, <2>3, <2>4, <2>5, <2>6 DEF LedgerInv, LogsInv
<1>8. CASE outcome \in {"fraud", "nocoins"} /\ coins = 0
  <2>1. books' = books /\ refunded' = refunded
    BY <1>1, <1>8 DEF BookDelivery
  <2>2. BooksTypeOK' /\ Balanced'
    BY <1>1, <1>3, <1>4, <1>8, <2>1 DEF LedgerInv, BooksTypeOK, Balanced
  <2>3. SoldOrReporting' /\ RefundedFailed'
    BY <1>1, <1>8, <2>1 DEF LedgerInv, LogsInv, SoldOrReporting, RefundedFailed
  <2> QED
    BY <1>5, <1>6, <2>2, <2>3 DEF LedgerInv, LogsInv
<1> QED
  BY <1>1, <1>7, <1>8 DEF LedgerInv, Settled

\* Every step keeps the ledger's invariant.
LEMMA LedgerStep == LedgerInv /\ [LedgerNext]_ledgerVars => LedgerInv'
<1> SUFFICES ASSUME LedgerInv, [LedgerNext]_ledgerVars PROVE LedgerInv'
  OBVIOUS
<1>0. TypeOK'
  BY LedgerIsSession, TypeStep DEF LedgerInv
<1>1. CASE UNCHANGED ledgerVars
  BY <1>0, <1>1, LedgerStutter DEF ledgerVars, vars, pulseVars, taskVars
<1>2. CASE BookNothing
  <2>1. UNCHANGED <<books, sold, unlogged, refunded>>
    BY <1>2 DEF BookNothing
  <2>2. \/ Http \/ AcceptorBooted \/ \E p \in Pulses : PulseArrives(p)
        \/ OpenWindow \/ WindowEvent
        \/ WindowTimeout \/ CloseWindow \/ ClearSlot
    BY <1>2 DEF BookNothing, Http
  <2> QED
    BY <1>0, <2>1, <2>2, LedgerHttp, LedgerOpen, LedgerEvent, LedgerClose
<1>3. ASSUME NEW r \in {"granted", "failed"}, BookAnswer(r) PROVE LedgerInv'
  BY <1>0, <1>3, LedgerAnswer
<1> QED
  BY <1>0, <1>1, <1>2, <1>3, LedgerJudge, LedgerPost, LedgerStray, LedgerFinalize, LedgerDelivery
     DEF LedgerNext

\* The ledger's invariant holds throughout.
LEMMA LedgerInvariant == LedgerSpec => []LedgerInv
  BY LedgerInitInv, LedgerStep, PTL DEF LedgerSpec

\* No coin coinPulseTask accepted is ever counted twice or disappears: it waits in the
\* queue, is counted in one window, was settled or aborted with it, or was dropped by a
\* full queue or after its window, in every interleaving of the tasks.
THEOREM EveryCoinAccounted == LedgerSpec => []CoinsConserved
<1>1. LedgerInv => CoinsConserved
  <2> SUFFICES ASSUME LedgerInv PROVE CoinsConserved
    OBVIOUS
  <2>1. sessQ \in Seq(Event \cup {NoEvent}) /\ judged \in Event \cup {NoEvent}
    BY DEF LedgerInv, TypeOK
  <2>2. CoinsIn(<<judged>> \o sessQ) = CoinOf(judged) + CoinsIn(sessQ)
    BY <2>1, CoinsPrepended
  <2> QED
    BY <2>2 DEF LedgerInv, Balanced, CoinsConserved
<1> QED
  BY LedgerInvariant, <1>1, PTL

\* The lines finalizeSession writes to the sale log, one for each node, and those the flash
\* does not take (appendSaleLog only logs that) add up to the coins for which the controller
\* granted time, and nothing is refunded that was not refused.
THEOREM LogsAddUp == LedgerSpec => []LogsMatchSettlements
<1>1. LedgerInv => LogsMatchSettlements
  <2> SUFFICES ASSUME LedgerInv, pc = "idle"
               PROVE  SumFunction(sold) + SumFunction(unlogged) = books["granted"] /\ refunded <= books["failed"]
    BY DEF LogsMatchSettlements
  <2>1. SumFunction(sold) + SumFunction(unlogged) = books["granted"] + 0
    BY DEF LedgerInv, LogsInv, SoldOrReporting
  <2>2. books["granted"] \in Nat
    BY DEF LedgerInv, BooksTypeOK, Fates
  <2> QED
    BY <2>1, <2>2 DEF LedgerInv, LogsInv, RefundedFailed
<1> QED
  BY LedgerInvariant, <1>1, PTL
=============================================================================
