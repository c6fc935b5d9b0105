------------------------------ MODULE NodeLink ------------------------------
(***************************************************************************)
(* The UDP link between the master and its slave nodes: the master tells   *)
(* the slaves when a coin window opens and closes, a slave reports every   *)
(* coin it accepts.  Datagrams are lost, duplicated, delayed and reordered;*)
(* nothing is acknowledged or sent again.  What the code has against this  *)
(* is a timestamp in every packet, checked against the receiver's clock,   *)
(* and a ring of the coins the master has already taken.                   *)
(*                                                                         *)
(* The authentication of packets is left out: all packets are the nodes'   *)
(* own.  Clocks run at one rate and differ by a constant.                  *)
(***************************************************************************)
EXTENDS Integers, FiniteSets

CONSTANTS
    Slaves,
    Skew,          \* how far a slave's clock is ahead of the master's, negative if behind
    Fresh,         \* NET_FRESH_WINDOW_MS
    RingSize,      \* COIN_SEEN_N
    Gap,           \* the least time between two coins of one slave
    NoCoin,        \* an unused entry of the ring
    MaxNow,        \* bound: the master's clock stops there
    MaxWindows     \* bound

ASSUME LinkAssumption ==
    /\ Skew \in [Slaves -> Int] /\ Fresh \in Nat /\ RingSize \in Nat \ {0}
    /\ Gap \in Nat \ {0} /\ MaxNow \in Nat /\ MaxWindows \in Nat
    /\ NoCoin \notin Slaves \X Int

VARIABLES
    now,        \* the master's clock
    window,     \* a window is open
    windows,    \* windows opened so far
    active,     \* COIN_INSERT_ACTIVE of every slave
    net,        \* datagrams sent: each may arrive, at any time and any number of times
    seen,       \* COIN_SEEN
    idx,        \* COIN_SEEN_IDX
    lastCoin,   \* when a slave last accepted a coin
    passed,     \* history: how often a coin was passed on to COIN_PULSE_QUEUE
    arrived     \* history: coins that arrived in time

vars == <<now, window, windows, active, net, seen, idx, lastCoin, passed, arrived>>

\* A datagram: what it says, when it was sent, and the slave at the other end.
Packet(type, ts, s) == [type |-> type, ts |-> ts, node |-> s]
ToAll(type)         == {Packet(type, now, s) : s \in Slaves}

Clock(s) == now + Skew[s]

\* networkLoop: the packet's timestamp is near the receiver's clock.
IsFresh(ts, clock) == (IF clock > ts THEN clock - ts ELSE ts - clock) <= Fresh

Init ==
    /\ now = 1 /\ window = FALSE /\ windows = 0
    /\ active = [s \in Slaves |-> FALSE]
    /\ net = {}
    /\ seen = [i \in 0 .. RingSize - 1 |-> NoCoin] /\ idx = 0
    /\ lastCoin = [s \in Slaves |-> 1 - Gap]
    /\ passed = [c \in {} |-> 0] /\ arrived = {}

Tick ==
    /\ now < MaxNow
    /\ now' = now + 1
    /\ UNCHANGED <<window, windows, active, net, seen, idx, lastCoin, passed, arrived>>

\* masterBroadcastSessionStart, when coinSessionTask opens a window.
OpenWindow ==
    /\ ~window /\ windows < MaxWindows
    /\ windows' = windows + 1 /\ window' = TRUE
    /\ net' = net \cup ToAll("START")
    /\ UNCHANGED <<now, active, seen, idx, lastCoin, passed, arrived>>

\* masterBroadcastSessionEnd, when it settles the window.
CloseWindow ==
    /\ window
    /\ window' = FALSE
    /\ net' = net \cup ToAll("END")
    /\ UNCHANGED <<now, windows, active, seen, idx, lastCoin, passed, arrived>>

\* A slave receives START or END.
SlaveReceives(p) ==
    /\ p.type \in {"START", "END"}
    /\ active' = IF IsFresh(p.ts, Clock(p.node))
                   THEN [active EXCEPT ![p.node] = p.type = "START"] ELSE active
    /\ UNCHANGED <<now, window, windows, net, seen, idx, lastCoin, passed, arrived>>

\* slaveSendCoinInserted: a pulse of the slave's acceptor passes its filter, which
\* keeps two coins of one acceptor apart in time.
SlaveCoin(s) ==
    /\ active[s] /\ lastCoin[s] + Gap <= now
    /\ lastCoin' = [lastCoin EXCEPT ![s] = now]
    /\ net' = net \cup {Packet("COIN", Clock(s), s)}
    /\ UNCHANGED <<now, window, windows, active, seen, idx, passed, arrived>>

\* Fault: only the newest entry of the ring is compared.
IsReplayOfLast(coin) == seen[(idx + RingSize - 1) % RingSize] = coin

\* Fault: coins with the same timestamp count as one.
IsReplayByTime(coin) == \E i \in DOMAIN seen : seen[i] # NoCoin /\ seen[i][2] = coin[2]

\* coinIsReplay: the same sender and timestamp are in the ring.
IsReplay(coin) == \E i \in DOMAIN seen : seen[i] = coin

\* masterRecvCoinInserted.
PassOn(coin) ==
    passed' = [c \in DOMAIN passed \cup {coin} |->
                 (IF c \in DOMAIN passed THEN passed[c] ELSE 0) + (IF c = coin THEN 1 ELSE 0)]

\* The master receives a coin.
MasterReceives(p) ==
    /\ p.type = "COIN"
    /\ LET coin == <<p.node, p.ts>> IN
         /\ IF IsFresh(p.ts, now) /\ ~IsReplay(coin)
              THEN /\ seen' = [seen EXCEPT ![idx] = coin]
                   /\ idx' = (idx + 1) % RingSize
                   /\ PassOn(coin)
              ELSE UNCHANGED <<seen, idx, passed>>
         /\ arrived' = IF IsFresh(p.ts, now) THEN arrived \cup {coin} ELSE arrived
    /\ UNCHANGED <<now, window, windows, active, net, lastCoin>>

Next ==
    \/ Tick \/ OpenWindow \/ CloseWindow
    \/ \E s \in Slaves : SlaveCoin(s)
    \/ \E p \in net : SlaveReceives(p) \/ MasterReceives(p)

Spec == Init /\ [][Next]_vars
-----------------------------------------------------------------------------
\* The ring has room for the coins that the slaves, each keeping its coins Gap apart, can
\* report in two freshness windows, each widened by D, where D is what the slaves' clocks
\* are ahead at most, or the freshness window, if less.
RingSuffices(D) ==
    /\ IsFiniteSet(Slaves) /\ D \in Nat
    /\ \A s \in Slaves : Skew[s] <= D \/ Fresh <= D
    /\ RingSize >= Cardinality(Slaves) * ((2 * (Fresh + D)) \div Gap + 1)

\* However often a datagram arrives, its coin is passed on once: what the ring has
\* forgotten is no longer fresh.
CountedOnce == \A c \in DOMAIN passed : passed[c] <= 1

\* Every coin that arrived in time was passed on: none was mistaken for another, the
\* coins two slaves accept in the same instant included.
FirstArrivalCounts == arrived \subseteq DOMAIN passed
=============================================================================
