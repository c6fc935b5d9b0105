---------------------------- MODULE CoinSession ----------------------------
(***************************************************************************)
(* The coin window of the master node (src/src/coin.cpp with the WebSocket *)
(* handlers of src/src/web.cpp).  Three actors share it:                   *)
(*   - the HTTP server task (core 0, one thread) claims the window for a   *)
(*     client, and re-binds its socket when the client reconnects;         *)
(*   - coinPulseTask (core 1) filters pulses and posts coin events;        *)
(*   - coinSessionTask (core 1) owns the window: it counts coins, closes   *)
(*     the window when no event came for 10 s, settles it with the Omada   *)
(*     controller and reports to the client.                               *)
(* They interleave at every queue operation and every change of the atomic *)
(* variables.  Task priorities are not modelled: every task writes to the  *)
(* log between those points and may wait 10 ms for its mutex (logDirect),  *)
(* so any task may be overtaken there by any other.                        *)
(*                                                                         *)
(* Left to other modules: the LED notifications (AcceptorPower), the       *)
(* session start/end broadcasts (NodeLink), the choice between extending   *)
(* and authenticating and the cache refresh after it (AccessTime).         *)
(***************************************************************************)
EXTENDS Naturals, Sequences, FiniteSets, PulseFilter

CONSTANTS
    Clients,            \* portal clients, by IP address
    Fds,                \* socket descriptors of the HTTP server; reused
    Nodes,              \* MACs of the coin nodes
    MasterNode,         \* this node's own MAC
    Pulses,             \* the pulses that may arrive, a subset of Pulse
    SessionQueueSize,   \* COIN_SESSION_QUEUE length
    PulseQueueSize,     \* COIN_PULSE_QUEUE length
    MaxFraud,           \* COINSLOT_MAX_FRAUD_PER_SESSION
    MaxCoins,           \* bound: coins in one window and in flight
    NoClient, NoFd, NoNode

\* A pulse as coinPulseTask sees it: where it came from, whether it is
\* shorter than COINSLOT_MIN_PULSE_WIDTH_MICROS, and whether it follows the
\* remembered pulse by less than COINSLOT_MIN_PULSE_INTERVAL_MILLIS.
Pulse == [src : Sources, narrow : BOOLEAN, close : BOOLEAN, node : Nodes]

ASSUME ConstantsAssumption ==
    /\ NoClient \notin Clients /\ NoFd \notin Fds /\ NoNode \notin Nodes
    /\ MasterNode \in Nodes
    /\ Pulses \subseteq Pulse
    /\ SessionQueueSize \in Nat \ {0} /\ PulseQueueSize \in Nat \ {0}
    /\ MaxFraud \in Nat \ {0} /\ MaxCoins \in Nat

VARIABLES
    active,      \* COIN_INSERT_ACTIVE
    httpd,       \* the HTTP task inside startCoinInsert: between the CAS and the
                 \* queue send ("post"), or about to reply with the status
    conn,        \* socket -> client connected on it
    cached,      \* clients HOTSPOT_SESSION_CACHE.findByIp finds
    pulseQ,      \* COIN_PULSE_QUEUE
    fraud,       \* coinPulseTask: fraudCountThisSession
    prevSet,     \* coinPulseTask: prevAcceptedTimestampMicros > 0
    judged,      \* coinPulseTask: the event it is about to post
    bootTest,    \* BOOT_TEST_RUNNING
    booting,     \* millis() < COIN_SLOT_READY_MILLIS
    sessQ,       \* COIN_SESSION_QUEUE
    pc,          \* where coinSessionTask is
    count,       \* COIN_COUNT
    nodeCounts,  \* coinSessionTask: coins of the window per node
    slot,        \* COIN_SESSION_SLOT
    fraudEnded,  \* coinSessionTask: the window was aborted
    coins,       \* finalizeSession: coinCount
    outcome,     \* finalizeSession: how the window is settled
    holder       \* history: the client whose claim set active, while it is set

httpVars  == <<httpd, conn, cached>>
pulseVars == <<pulseQ, fraud, prevSet, judged>>
taskVars  == <<pc, count, nodeCounts, fraudEnded, coins, outcome>>
vars == <<active, httpVars, pulseVars, bootTest, booting, sessQ, taskVars,
          slot, holder>>

\* A CoinSessionEvent.  client is the START's clientIp; on the other events
\* it is history: who held the window when the pulse was judged (in judged),
\* and when the event was posted (in the queue).
Event == [type : {"start", "coin", "fraud"}, client : Clients \cup {NoClient},
          fd : Fds \cup {NoFd}, node : Nodes \cup {NoNode}]

Start(c, fd) == [type |-> "start", client |-> c, fd |-> fd, node |-> NoNode]
Coin(c, n)   == [type |-> "coin", client |-> c, fd |-> NoFd, node |-> n]
FraudEnd(c)  == [type |-> "fraud", client |-> c, fd |-> NoFd, node |-> NoNode]
NoEvent      == [type |-> "none", client |-> NoClient, fd |-> NoFd, node |-> NoNode]

EmptySlot == [ip |-> NoClient, fd |-> NoFd]
IdleHttpd == [pc |-> "idle", client |-> NoClient, fd |-> NoFd]

Outcomes == {"none", "fraud", "nocoins", "nosession", "granted", "failed"}
TaskPcs  == {"idle", "open", "closing", "final", "calling", "deliver", "clear"}

\* Fault: the queue has no limit.
PostUnbounded(q, e) == Append(q, e)

\* xQueueSend(COIN_SESSION_QUEUE, &e, 0): an event that finds it full is lost.
Post(q, e) == IF Len(q) < SessionQueueSize THEN Append(q, e) ELSE q

Init ==
    /\ active = FALSE
    /\ httpd = IdleHttpd
    /\ conn = [f \in Fds |-> NoClient]
    /\ cached = {}
    /\ pulseQ = << >>
    /\ fraud = 0
    /\ prevSet = FALSE
    /\ judged = NoEvent
    /\ bootTest = FALSE
    /\ booting = FALSE
    /\ sessQ = << >>
    /\ pc = "idle"
    /\ count = 0
    /\ nodeCounts = [n \in Nodes |-> 0]
    /\ slot = EmptySlot
    /\ fraudEnded = FALSE
    /\ coins = 0
    /\ outcome = "none"
    /\ holder = NoClient
-----------------------------------------------------------------------------
(* The HTTP server task.                                                   *)

\* Fault: any open window is re-bound, whoever it belongs to.
UpdateAnySocket(c, fd) ==
    slot' = IF slot.ip # NoClient THEN [slot EXCEPT !.fd = fd] ELSE slot

\* coinSessionUpdateSocket: the guarded compare-and-swap loop.
UpdateSocket(c, fd) ==
    slot' = IF slot.ip = c THEN [slot EXCEPT !.fd = fd] ELSE slot

\* handleWsOpen.
WsOpen(c, fd) ==
    /\ httpd.pc = "idle"
    /\ conn[fd] = NoClient
    /\ conn' = [conn EXCEPT ![fd] = c]
    /\ UpdateSocket(c, fd)
    /\ UNCHANGED <<active, httpd, cached, pulseVars, bootTest, booting, sessQ,
                   taskVars, holder>>

\* handleWsClose, or the TCP connection going away: the slot keeps the fd.
WsClose(fd) ==
    /\ httpd.pc = "idle"
    /\ conn[fd] # NoClient
    /\ conn' = [conn EXCEPT ![fd] = NoClient]
    /\ UNCHANGED <<active, httpd, cached, pulseVars, bootTest, booting, sessQ,
                   taskVars, slot, holder>>

\* handleRoot and handleGetStatus seed the portal session of a client.
SeedPortalSession(c) ==
    /\ httpd.pc = "idle"
    /\ c \notin cached
    /\ cached' = cached \cup {c}
    /\ UNCHANGED <<active, httpd, conn, pulseVars, bootTest, booting, sessQ,
                   taskVars, slot, holder>>

\* A cache refresh learns that the client's MAC moved to another IP: the old
\* IP no longer leads to a session.
MoveIp(c) ==
    /\ c \in cached
    /\ cached' = cached \ {c}
    /\ UNCHANGED <<active, httpd, conn, pulseVars, bootTest, booting, sessQ,
                   taskVars, slot, holder>>

\* handleWsRequest, action getStatus: a client without a session is refused
\* and its socket closed, otherwise the socket is re-bound.
GetStatus(fd) ==
    /\ httpd.pc = "idle"
    /\ conn[fd] # NoClient
    /\ IF conn[fd] \in cached
         THEN UpdateSocket(conn[fd], fd) /\ UNCHANGED conn
         ELSE conn' = [conn EXCEPT ![fd] = NoClient] /\ UNCHANGED slot
    /\ UNCHANGED <<active, httpd, cached, pulseVars, bootTest, booting, sessQ,
                   taskVars, holder>>

\* handleWsRequest, action startCoinInsert, refused: no portal session, out of
\* service (at any time: ServiceHealth), boot test running, or the window
\* taken; wsError closes the socket.
StartRefused(fd, serviceReady) ==
    /\ httpd.pc = "idle"
    /\ conn[fd] # NoClient
    /\ conn[fd] \notin cached \/ ~serviceReady \/ bootTest \/ active
    /\ conn' = [conn EXCEPT ![fd] = NoClient]
    /\ UNCHANGED <<active, httpd, cached, pulseVars, bootTest, booting, sessQ,
                   taskVars, slot, holder>>

\* Fault: the boot test is not asked.
ClaimCasDuringTest(fd) ==
    /\ httpd.pc = "idle"
    /\ conn[fd] \in cached
    /\ ~active
    /\ active' = TRUE
    /\ holder' = conn[fd]
    /\ httpd' = [pc |-> "post", client |-> conn[fd], fd |-> fd]
    /\ UNCHANGED <<conn, cached, pulseVars, bootTest, booting, sessQ, taskVars,
                   slot>>

\* startCoinInsert: coinSessionTryClaim up to its compare-and-swap.
ClaimCas(fd) ==
    /\ httpd.pc = "idle"
    /\ conn[fd] \in cached
    /\ ~bootTest
    /\ ~active
    /\ active' = TRUE
    /\ holder' = conn[fd]
    /\ httpd' = [pc |-> "post", client |-> conn[fd], fd |-> fd]
    /\ UNCHANGED <<conn, cached, pulseVars, bootTest, booting, sessQ, taskVars,
                   slot>>

\* Fault: the START is sent to the front of the queue.
ClaimPostFront ==
    /\ httpd.pc = "post"
    /\ Len(sessQ) < SessionQueueSize
    /\ sessQ' = <<Start(httpd.client, httpd.fd)>> \o sessQ
    /\ httpd' = [httpd EXCEPT !.pc = "reply"]
    /\ UNCHANGED <<active, conn, cached, pulseVars, bootTest, booting, taskVars,
                   slot, holder>>

\* coinSessionTryClaim posts the START.
ClaimPost ==
    /\ httpd.pc = "post"
    /\ Len(sessQ) < SessionQueueSize
    /\ sessQ' = Append(sessQ, Start(httpd.client, httpd.fd))
    /\ httpd' = [httpd EXCEPT !.pc = "reply"]
    /\ UNCHANGED <<active, conn, cached, pulseVars, bootTest, booting, taskVars,
                   slot, holder>>

\* Fault: the claim is not rolled back.
ClaimKeptOnFull ==
    /\ httpd.pc = "post"
    /\ Len(sessQ) >= SessionQueueSize
    /\ httpd' = IdleHttpd
    /\ conn' = [conn EXCEPT ![httpd.fd] = NoClient]
    /\ UNCHANGED <<active, holder, cached, pulseVars, bootTest, booting, sessQ,
                   taskVars, slot>>

\* The queue is full: the claim is rolled back and the client refused.
ClaimRollback ==
    /\ httpd.pc = "post"
    /\ Len(sessQ) >= SessionQueueSize
    /\ active' = FALSE
    /\ holder' = NoClient
    /\ httpd' = IdleHttpd
    /\ conn' = [conn EXCEPT ![httpd.fd] = NoClient]
    /\ UNCHANGED <<cached, pulseVars, bootTest, booting, sessQ, taskVars, slot>>

\* buildStatusJson and the reply to startCoinInsert: the HTTP task is free again.
StartReply ==
    /\ httpd.pc = "reply"
    /\ httpd' = IdleHttpd
    /\ UNCHANGED <<active, conn, cached, pulseVars, bootTest, booting, sessQ,
                   taskVars, slot, holder>>

\* coinBootTestStart, from the admin page.
BootTestStart ==
    /\ httpd.pc = "idle"
    /\ ~active /\ ~bootTest
    /\ bootTest' = TRUE
    /\ UNCHANGED <<active, httpVars, pulseVars, booting, sessQ, taskVars, slot,
                   holder>>

\* coinBootTestTask has run its cycles.
BootTestEnd ==
    /\ bootTest
    /\ bootTest' = FALSE
    /\ UNCHANGED <<active, httpVars, pulseVars, booting, sessQ, taskVars, slot,
                   holder>>
-----------------------------------------------------------------------------
(* Pulses and coinPulseTask.                                               *)

CoinsIn(q) == Cardinality({i \in DOMAIN q : q[i].type = "coin"})

\* Coins counted or on their way to be counted.
InFlight == count + Len(pulseQ) + CoinsIn(<<judged>> \o sessQ)

\* coinSlotPulse, coinButtonPulse and masterRecvCoinInserted queue a pulse; one
\* that finds the queue full is lost.
PulseArrives(p) ==
    /\ InFlight < MaxCoins
    /\ pulseQ' = IF Len(pulseQ) < PulseQueueSize THEN Append(pulseQ, p) ELSE pulseQ
    /\ UNCHANGED <<active, httpVars, fraud, prevSet, judged, bootTest, booting,
                   sessQ, taskVars, slot, holder>>

PulseVerdict(p) ==
    Verdict(bootTest, active, booting, p.src, p.narrow, prevSet, p.close)

\* One round of coinPulseTask on the master, up to its queue send.  The flags
\* are read in one go: the task does not wait between reading them.
PulseJudge ==
    /\ judged = NoEvent
    /\ pulseQ # << >>
    /\ LET p == Head(pulseQ)
           v == PulseVerdict(p)
       IN  /\ pulseQ' = Tail(pulseQ)
           /\ fraud' = NextFraud(v, fraud, MaxFraud)
           /\ prevSet' = NextPrevSet(v, prevSet)
           /\ judged' = CASE v = "accepted" -> Coin(holder, p.node)
                          [] AbortsSession(v, fraud, MaxFraud) -> FraudEnd(holder)
                          [] OTHER -> NoEvent
    /\ UNCHANGED <<active, httpVars, bootTest, booting, sessQ, taskVars, slot, holder>>

\* The queue send of the same round, after the log lines in between.
PulsePost ==
    /\ judged # NoEvent
    /\ sessQ' = Post(sessQ, [judged EXCEPT !.client = holder])
    /\ judged' = NoEvent
    /\ UNCHANGED <<active, httpVars, pulseQ, fraud, prevSet, bootTest, booting,
                   taskVars, slot, holder>>

\* The acceptor's start-up window (COINSLOT_BOOT_SUPPRESS_MILLIS) is over.
AcceptorBooted ==
    /\ booting
    /\ booting' = FALSE
    /\ UNCHANGED <<active, httpVars, pulseVars, bootTest, sessQ, taskVars, slot,
                   holder>>
-----------------------------------------------------------------------------
(* coinSessionTask and finalizeSession.                                    *)

\* Fault: the event is dropped without a look at its type.
DropAny ==
    /\ pc = "idle"
    /\ sessQ # << >>
    /\ sessQ' = Tail(sessQ)
    /\ UNCHANGED <<active, httpVars, pulseVars, bootTest, booting, taskVars,
                   slot, holder>>

\* Outer receive: an event left over from an earlier window is dropped.
DropStray ==
    /\ pc = "idle"
    /\ sessQ # << >>
    /\ Head(sessQ).type # "start"
    /\ sessQ' = Tail(sessQ)
    /\ UNCHANGED <<active, httpVars, pulseVars, bootTest, booting, taskVars,
                   slot, holder>>

\* Outer receive: a START opens the window.
OpenWindow ==
    /\ pc = "idle"
    /\ sessQ # << >>
    /\ Head(sessQ).type = "start"
    /\ sessQ' = Tail(sessQ)
    /\ count' = 0
    /\ slot' = [ip |-> Head(sessQ).client, fd |-> Head(sessQ).fd]
    /\ booting' = TRUE
    /\ fraudEnded' = FALSE
    /\ nodeCounts' = [n \in Nodes |-> 0]
    /\ pc' = "open"
    /\ UNCHANGED <<active, httpVars, pulseVars, bootTest, coins, outcome, holder>>

\* Inner receive: a coin is counted, an abort ends the loop, a START is ignored.
WindowEvent ==
    /\ pc = "open"
    /\ sessQ # << >>
    /\ LET e == Head(sessQ)
       IN  /\ count' = IF e.type = "coin" THEN count + 1 ELSE count
           /\ nodeCounts' = [n \in Nodes |-> IF e.type = "coin" /\ n = e.node
                                              THEN nodeCounts[n] + 1 ELSE nodeCounts[n]]
           /\ fraudEnded' = (e.type = "fraud")
           /\ pc' = IF e.type = "fraud" THEN "closing" ELSE "open"
    /\ sessQ' = Tail(sessQ)
    /\ UNCHANGED <<active, httpVars, pulseVars, bootTest, booting, slot, coins,
                   outcome, holder>>

\* Inner receive: COIN_INSERT_TIMEOUT_MILLIS passed with the queue empty.
WindowTimeout ==
    /\ pc = "open"
    /\ sessQ = << >>
    /\ pc' = "closing"
    /\ UNCHANGED <<active, httpVars, pulseVars, bootTest, booting, sessQ, count,
                   nodeCounts, fraudEnded, slot, coins, outcome, holder>>

\* COIN_INSERT_ACTIVE.store(false): from here on another client may claim.
CloseWindow ==
    /\ pc = "closing"
    /\ active' = FALSE
    /\ holder' = NoClient
    /\ pc' = "final"
    /\ UNCHANGED <<httpVars, pulseVars, bootTest, booting, sessQ, count,
                   nodeCounts, fraudEnded, slot, coins, outcome>>

\* Fault: the coins of an aborted window are kept.
FinalizeKeepsFraud ==
    /\ pc = "final"
    /\ coins' = count
    /\ outcome' = IF fraudEnded THEN "fraud" ELSE "none"
    /\ pc' = IF ~fraudEnded /\ count > 0 /\ slot.ip \in cached THEN "calling" ELSE "deliver"
    /\ count' = 0
    /\ UNCHANGED <<active, httpVars, pulseVars, bootTest, booting, sessQ,
                   nodeCounts, fraudEnded, slot, holder>>

\* Fault: COIN_COUNT is not reset.
FinalizeKeepsCount ==
    /\ pc = "final"
    /\ coins' = IF fraudEnded THEN 0 ELSE count
    /\ outcome' = IF fraudEnded THEN "fraud" ELSE "none"
    /\ pc' = IF ~fraudEnded /\ count > 0 /\ slot.ip \in cached THEN "calling" ELSE "deliver"
    /\ UNCHANGED <<active, httpVars, pulseVars, bootTest, booting, sessQ, count,
                   nodeCounts, fraudEnded, slot, holder>>

\* finalizeSession up to the controller call.
Finalize ==
    /\ pc = "final"
    /\ LET n == IF fraudEnded THEN 0 ELSE count
       IN  /\ coins' = n
           /\ outcome' = CASE fraudEnded                        -> "fraud"
                           [] ~fraudEnded /\ n = 0              -> "nocoins"
                           [] n > 0 /\ slot.ip \notin cached    -> "nosession"
                           [] OTHER                             -> "none"
           /\ pc' = IF n > 0 /\ slot.ip \in cached THEN "calling" ELSE "deliver"
    /\ count' = 0
    /\ UNCHANGED <<active, httpVars, pulseVars, bootTest, booting, sessQ,
                   nodeCounts, fraudEnded, slot, holder>>

\* The extend or authenticate call returns.
ControllerAnswers(result) ==
    /\ pc = "calling"
    /\ outcome' = result
    /\ pc' = "deliver"
    /\ UNCHANGED <<active, httpVars, pulseVars, bootTest, booting, sessQ, count,
                   nodeCounts, fraudEnded, slot, coins, holder>>

\* WEBSOCKET_HANDLER.getClient(fd) finds a connection.
Connected(fd) == fd \in Fds /\ conn[fd] # NoClient

\* A refund is recorded only for a connected client.
WritesRefund == outcome = "failed" /\ Connected(slot.fd)

\* The slot is read again and the result sent to the socket it names now.
DeliverResult ==
    /\ pc = "deliver"
    /\ conn' = IF Connected(slot.fd) THEN [conn EXCEPT ![slot.fd] = NoClient] ELSE conn
    /\ pc' = "clear"
    /\ UNCHANGED <<active, httpd, cached, pulseVars, bootTest, booting, sessQ,
                   count, nodeCounts, fraudEnded, slot, coins, outcome, holder>>

\* Fault: the slot is left to the next window.
ClearNothing ==
    /\ pc = "clear"
    /\ pc' = "idle"
    /\ coins' = 0
    /\ outcome' = "none"
    /\ fraudEnded' = FALSE
    /\ nodeCounts' = [n \in Nodes |-> 0]
    /\ UNCHANGED <<active, httpVars, pulseVars, bootTest, booting, sessQ, count,
                   slot, holder>>

\* The slot is emptied, and the locals of the session go out of scope.
ClearSlot ==
    /\ pc = "clear"
    /\ slot' = EmptySlot
    /\ pc' = "idle"
    /\ coins' = 0
    /\ outcome' = "none"
    /\ fraudEnded' = FALSE
    /\ nodeCounts' = [n \in Nodes |-> 0]
    /\ UNCHANGED <<active, httpVars, pulseVars, bootTest, booting, sessQ, count,
                   holder>>
-----------------------------------------------------------------------------
Http ==
    \/ \E c \in Clients, fd \in Fds : WsOpen(c, fd)
    \/ \E fd \in Fds : WsClose(fd) \/ GetStatus(fd) \/ ClaimCas(fd)
    \/ \E fd \in Fds, serviceReady \in BOOLEAN : StartRefused(fd, serviceReady)
    \/ \E c \in Clients : SeedPortalSession(c) \/ MoveIp(c)
    \/ ClaimPost \/ ClaimRollback \/ StartReply
    \/ BootTestStart \/ BootTestEnd

PulseSide == (\E p \in Pulses : PulseArrives(p)) \/ PulseJudge \/ PulsePost \/ AcceptorBooted

SessionTask ==
    \/ DropStray \/ OpenWindow \/ WindowEvent \/ WindowTimeout \/ CloseWindow
    \/ Finalize \/ (\E r \in {"granted", "failed"} : ControllerAnswers(r))
    \/ DeliverResult \/ ClearSlot

Next == Http \/ PulseSide \/ SessionTask

Spec == Init /\ [][Next]_vars

\* The tasks run whenever they have work; users, pulses and the clock of the
\* acceptor need not do anything.
Fairness ==
    /\ WF_vars(SessionTask)
    /\ WF_vars(PulseJudge \/ PulsePost)
    /\ WF_vars(ClaimPost \/ ClaimRollback \/ StartReply)

FairSpec == Spec /\ Fairness
-----------------------------------------------------------------------------
TypeOK ==
    /\ active \in BOOLEAN
    /\ httpd \in [pc : {"idle", "post", "reply"}, client : Clients \cup {NoClient},
                  fd : Fds \cup {NoFd}]
    /\ conn \in [Fds -> Clients \cup {NoClient}]
    /\ cached \in SUBSET Clients
    /\ pulseQ \in Seq(Pulse) /\ Len(pulseQ) <= PulseQueueSize
    /\ fraud \in 0..MaxFraud
    /\ prevSet \in BOOLEAN
    /\ judged \in Event \cup {NoEvent} /\ judged.type # "start"
    /\ bootTest \in BOOLEAN
    /\ booting \in BOOLEAN
    /\ sessQ \in Seq(Event) /\ Len(sessQ) <= SessionQueueSize
    /\ pc \in TaskPcs
    /\ count \in Nat
    /\ nodeCounts \in [Nodes -> Nat]
    /\ slot \in [ip : Clients \cup {NoClient}, fd : Fds \cup {NoFd}]
    /\ fraudEnded \in BOOLEAN
    /\ coins \in Nat
    /\ outcome \in Outcomes
    /\ holder \in Clients \cup {NoClient}

\* The places a START can be in the queue.
Starts == {i \in DOMAIN sessQ : sessQ[i].type = "start"}

\* The window is claimed exactly while one claim is under way: the HTTP task
\* between its compare-and-swap and its queue send, one START waiting in the
\* queue, or the session task with an open window.  So no window opens on top
\* of another, a START is never ignored by an open window, and a claim that
\* could not be queued does not stay taken for ever.
ClaimExclusive ==
    /\ httpd.pc = "post" => active /\ Starts = {} /\ pc \notin {"open", "closing"}
    /\ Starts # {} => active /\ pc \notin {"open", "closing"}
    /\ pc \in {"open", "closing"} => active
    /\ active => httpd.pc = "post" \/ Starts # {} \/ pc \in {"open", "closing"}
    /\ \A i, j \in Starts : i = j

\* Whatever is waiting behind the START of a client, or in the queue of its
\* open window, was posted while that client held the window: coins and
\* aborts an earlier window left in the queue are never charged to the next.
ChargedToHolder ==
    /\ pc \in {"open", "closing"} =>
         /\ slot.ip = holder
         /\ \A i \in DOMAIN sessQ : sessQ[i].client = slot.ip
    /\ \A i \in Starts :
         /\ sessQ[i].client = holder
         /\ \A j \in DOMAIN sessQ : j > i => sessQ[j].client = holder

\* From START until the result is delivered the slot names the client of the
\* window, and outside of it nobody: a reconnect of any other client cannot
\* take the slot over.
SlotOwned ==
    /\ pc = "idle" => slot = EmptySlot
    /\ pc # "idle" => slot.ip \in Clients

\* The client of an ongoing claim is known, and the HTTP task claims for it.
HolderKnown ==
    /\ active = (holder # NoClient)
    /\ httpd.pc = "post" => httpd.client = holder

\* The inductive strengthening of the three properties above.
IInv == TypeOK /\ ClaimExclusive /\ ChargedToHolder /\ SlotOwned /\ HolderKnown

\* No coin window is claimed while the acceptor boot test cycles its power.
BootTestExclusive == ~(bootTest /\ active)

\* While the task settles a window the socket in the slot only ever changes to
\* a live socket of the same client, and the client itself never changes.
RebindOwn ==
    [][pc # "idle" /\ pc' # "idle" =>
         /\ slot'.ip = slot.ip
         /\ slot'.fd # slot.fd => conn'[slot'.fd] = slot.ip]_vars

\* A claimed window is released again.
WindowReleased == active ~> ~active

\* A client whose claim was queued gets the window, even when the previous
\* window is still being settled.
ClaimServed == \A c \in Clients :
    (\E i \in Starts : sessQ[i].client = c) ~> (pc = "open" /\ slot.ip = c)

\* The window as CoinSlot describes it: the tab runs while the session task has
\* the window open, and a closed window is being settled until its slot is
\* cleared.
Tab      == IF pc \in {"open", "closing"} THEN count ELSE 0
Settling == pc \in {"final", "calling", "deliver", "clear"}
Bill     == CASE pc = "final" /\ ~fraudEnded               -> count
              [] pc \in {"calling", "deliver", "clear"}     -> coins
              [] OTHER                                      -> 0

Kiosk == INSTANCE CoinSlot WITH
    tab      <- Tab,
    settling <- IF Settling THEN slot.ip ELSE NoClient,
    bill     <- Bill

\* The tasks and queues of the window implement the abstract one: one client
\* holds it at a time and is settled for exactly what was counted meanwhile.
ImplementsCoinSlot == Kiosk!SlotSpec
=============================================================================
