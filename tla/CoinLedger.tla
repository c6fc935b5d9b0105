----------------------------- MODULE CoinLedger -----------------------------
(***************************************************************************)
(* CoinSession with the books a cashier would keep: every pulse the filter *)
(* accepts is followed to where it ends, and the sale and refund logs that *)
(* finalizeSession writes are compared with them.  The books are history   *)
(* variables; they never influence CoinSession.                            *)
(***************************************************************************)
EXTENDS CoinSession, Functions

CONSTANT MaxAccepted      \* bound: pulses accepted in a behaviour

ASSUME LedgerAssumption == IsFiniteSet(Nodes) /\ MaxAccepted \in Nat

VARIABLES
    books,        \* coins per fate
    sold,         \* coins per node in the sale log
    unlogged,     \* coins per node of sale lines that did not reach the flash
    refunded      \* coins in the refund log

Fates == {"accepted", "overflow", "stray", "granted", "aborted", "nosession", "failed"}

ledgerVars == <<vars, books, sold, unlogged, refunded>>

Book(fate, n) == books' = [books EXCEPT ![fate] = @ + n]

LedgerInit ==
    /\ Init
    /\ books = [f \in Fates |-> 0]
    /\ sold = [n \in Nodes |-> 0]
    /\ unlogged = [n \in Nodes |-> 0]
    /\ refunded = 0

HeadVerdict == PulseVerdict(Head(pulseQ))

BookJudgement ==
    /\ books["accepted"] < MaxAccepted
    /\ PulseJudge
    /\ Book("accepted", IF HeadVerdict = "accepted" THEN 1 ELSE 0)
    /\ UNCHANGED <<sold, unlogged, refunded>>

\* A coin that finds the session queue full is lost.
BookPost ==
    /\ PulsePost
    /\ Book("overflow", IF judged.type = "coin" /\ Len(sessQ) >= SessionQueueSize
                          THEN 1 ELSE 0)
    /\ UNCHANGED <<sold, unlogged, refunded>>

BookStray ==
    /\ DropStray
    /\ Book("stray", IF Head(sessQ).type = "coin" THEN 1 ELSE 0)
    /\ UNCHANGED <<sold, unlogged, refunded>>

BookAbort ==
    /\ Finalize
    /\ Book("aborted", IF fraudEnded THEN count ELSE 0)
    /\ UNCHANGED <<sold, unlogged, refunded>>

\* The coins of the window that came from the nodes of S.
CoinsFrom(S) == [n \in Nodes |-> IF n \in S THEN nodeCounts[n] ELSE 0]

\* Adds the coins c, node by node, to the log l.
Logged(l, c) == [n \in Nodes |-> l[n] + c[n]]

\* Fault: the sale is logged whatever the controller answered.
BookAnyAnswer(r) ==
    /\ ControllerAnswers(r)
    /\ sold' = Logged(sold, CoinsFrom(Nodes))
    /\ UNCHANGED <<books, unlogged, refunded>>

\* A successful call is followed by one sale-log line per node (appendSaleLog).
\* The file may not open and a line may be cut short by a full flash; nobody
\* looks, so any of the lines may be missing: those of "kept" are there.
BookAnswer(r) ==
    /\ ControllerAnswers(r)
    /\ IF r = "granted"
         THEN \E kept \in SUBSET {n \in Nodes : nodeCounts[n] > 0} :
                /\ sold' = Logged(sold, CoinsFrom(kept))
                /\ unlogged' = Logged(unlogged, CoinsFrom(Nodes \ kept))
         ELSE UNCHANGED <<sold, unlogged>>
    /\ UNCHANGED <<books, refunded>>

\* The result is reported; a failure reaches the refund log (appendRefundLog)
\* when the client is still connected and the file takes the line.
BookDelivery ==
    /\ DeliverResult
    /\ CASE outcome \in {"granted", "nosession", "failed"} -> Book(outcome, coins)
         [] OTHER -> UNCHANGED books
    /\ \/ WritesRefund /\ refunded' = refunded + coins
       \/ UNCHANGED refunded
    /\ UNCHANGED <<sold, unlogged>>

BookNothing ==
    /\ \/ \E c \in Clients, fd \in Fds : WsOpen(c, fd)
       \/ \E fd \in Fds : WsClose(fd) \/ GetStatus(fd) \/ ClaimCas(fd)
       \/ \E fd \in Fds, serviceReady \in BOOLEAN : StartRefused(fd, serviceReady)
       \/ \E c \in Clients : SeedPortalSession(c) \/ MoveIp(c)
       \/ ClaimPost \/ ClaimRollback \/ StartReply
       \/ \E p \in Pulses : PulseArrives(p)
       \/ AcceptorBooted \/ BootTestStart \/ BootTestEnd
       \/ OpenWindow \/ WindowEvent \/ WindowTimeout \/ CloseWindow \/ ClearSlot
    /\ UNCHANGED <<books, sold, unlogged, refunded>>

LedgerNext ==
    \/ BookJudgement \/ BookPost \/ BookStray \/ BookAbort \/ BookDelivery \/ BookNothing
    \/ \E r \in {"granted", "failed"} : BookAnswer(r)

LedgerSpec == LedgerInit /\ [][LedgerNext]_ledgerVars
-----------------------------------------------------------------------------
\* Coins counted in a window that is not yet settled.
Unsettled == count + (IF pc \in {"calling", "deliver"} THEN coins ELSE 0)

\* Every accepted coin is in exactly one place: waiting, counted, settled,
\* aborted, or dropped by a full queue or a closed window.  No coin is counted
\* in two windows and none disappears anywhere else.
CoinsConserved ==
    books["accepted"] = CoinsIn(<<judged>> \o sessQ) + Unsettled + books["overflow"] + books["stray"]
        + books["granted"] + books["aborted"] + books["nosession"] + books["failed"]

\* When nothing is being settled the sale log and the sale lines the flash did
\* not take add up to the coins for which time was granted: a node's coins are
\* logged once and under one node, and a line that cannot be written is the
\* only way a sale is missing.  The refund log holds no coin that was not
\* refused: nothing is both sold and refunded.
LogsMatchSettlements ==
    pc = "idle" =>
        /\ SumFunction(sold) + SumFunction(unlogged) = books["granted"]
        /\ refunded <= books["failed"]
=============================================================================
