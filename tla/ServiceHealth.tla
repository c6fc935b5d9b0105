--------------------------- MODULE ServiceHealth ----------------------------
(***************************************************************************)
(* Whether the node may sell: isServiceReady and what keeps it current.    *)
(* loop() watches it and, while the node is out of service, runs setupOmada*)
(* (site load, then a refresh of the client lists and of the controller    *)
(* status).  webSocketTask runs the same refresh for jobs, and finalize-   *)
(* Session calls the controller for a purchase.  All of them share one     *)
(* cached login, copied under CREDS_MUTEX before a call and dropped when a *)
(* call finds that the controller rejects it.                              *)
(*                                                                         *)
(* A login is the epoch of the controller that issued it: a restart of the *)
(* controller invalidates what it issued before.  The controller and the   *)
(* clock (NTP) are external.                                               *)
(***************************************************************************)
EXTENDS Naturals

CONSTANTS
    MaxRestarts,   \* bound: restarts of the controller
    MaxSales       \* bound: purchases settled

ASSUME HealthAssumption == MaxRestarts \in Nat /\ MaxSales \in Nat

VARIABLES
    ctl,          \* the controller: up, epoch
    synced,       \* the clock has been set
    creds,        \* CREDS: the epoch of the cached login, 0 if there is none
    site,         \* SITE_ID has been loaded
    reachable,    \* CONTROLLER_STATUS.reachable
    poll,         \* loop() and webSocketTask inside a call: pc, login copied, status seen
    sale,         \* a purchase: pc, login copied
    sales

vars == <<ctl, synced, creds, site, reachable, poll, sale, sales>>

Pollers  == {"loop", "ws"}
IdlePoll == [pc |-> "idle", login |-> 0, ok |-> FALSE]
IdleSale == [pc |-> "idle", login |-> 0]

\* isServiceReady.
Ready == synced /\ reachable /\ site

\* getCredentials: the cached login, or a new one if there is none and the
\* controller answers.
Login == IF creds # 0 THEN creds ELSE IF ctl.up THEN ctl.epoch ELSE 0

\* How a call with a void login is answered: a status other than 200, or a 200
\* with an error code.
Rejections == {"status", "code"}

\* A call with this login succeeds, or is answered and rejected.
Accepts(login) == ctl.up /\ login = ctl.epoch
Rejects(login) == ctl.up /\ login # 0 /\ login # ctl.epoch

\* setup() leaves loop()'s task in its own call of setupOmada.
Init ==
    /\ ctl \in [up : BOOLEAN, epoch : {1}]
    /\ synced \in BOOLEAN
    /\ creds = 0 /\ site = FALSE /\ reachable = FALSE
    /\ poll = [loop |-> [IdlePoll EXCEPT !.pc = "login"], ws |-> IdlePoll]
    /\ sale = IdleSale /\ sales = 0
-----------------------------------------------------------------------------
(* The environment.                                                        *)

ControllerDown ==
    /\ ctl.up
    /\ ctl' = [ctl EXCEPT !.up = FALSE]
    /\ UNCHANGED <<synced, creds, site, reachable, poll, sale, sales>>

\* The controller is back; what it issued before is void.
ControllerUp ==
    /\ ~ctl.up /\ ctl.epoch <= MaxRestarts
    /\ ctl' = [up |-> TRUE, epoch |-> ctl.epoch + 1]
    /\ UNCHANGED <<synced, creds, site, reachable, poll, sale, sales>>

ClockSynced ==
    /\ ~synced
    /\ synced' = TRUE
    /\ UNCHANGED <<ctl, creds, site, reachable, poll, sale, sales>>

\* Fault: the age of a cached login is never checked.
LoginOutlives ==
    /\ creds # 0
    /\ UNCHANGED vars

\* The cached login passes CONTROLLER_SESSION_MAX_AGE_MILLIS.
LoginExpires ==
    /\ creds # 0
    /\ creds' = 0
    /\ UNCHANGED <<ctl, synced, site, reachable, poll, sale, sales>>
-----------------------------------------------------------------------------
(* Polling: setupOmada on loop(), refresh jobs on webSocketTask.           *)

Goto(p, pc) == poll' = [poll EXCEPT ![p].pc = pc]

\* A pass of loop() that finds the node out of service and tries setupOmada again.
\* (What loop() tells the LED is in module AcceptorPower.)
LoopPass ==
    /\ poll["loop"].pc = "idle"
    /\ ~Ready
    /\ Goto("loop", "login")
    /\ UNCHANGED <<ctl, synced, creds, site, reachable, sale, sales>>

\* loadOmadaSites copies the login.
SitesLogin ==
    /\ poll["loop"].pc = "login"
    /\ creds' = Login
    /\ poll' = [poll EXCEPT !["loop"] = [pc |-> "sites", login |-> Login, ok |-> FALSE]]
    /\ UNCHANGED <<ctl, synced, site, reachable, sale, sales>>

\* loadOmadaSites gets its answer: a failed call changes nothing, a status other
\* than 200 drops the login, an error code in a 200 does not.
SitesAnswer(rejection) ==
    /\ poll["loop"].pc = "sites"
    /\ LET login == poll["loop"].login IN
         /\ site' = (site \/ Accepts(login))
         /\ creds' = IF Rejects(login) /\ rejection = "status" THEN 0 ELSE creds
         /\ Goto("loop", IF Accepts(login) THEN "lists" ELSE "idle")
    /\ UNCHANGED <<ctl, synced, reachable, sale, sales>>

\* webSocketTask takes a refresh job.
RefreshJob ==
    /\ poll["ws"].pc = "idle"
    /\ Goto("ws", "lists")
    /\ UNCHANGED <<ctl, synced, creds, site, reachable, sale, sales>>

\* refreshHotspotSessionCache fetches the list of hotspot clients and then that of
\* all clients; it ignores their failure.
FetchHotspot(p, rejection) ==
    /\ poll[p].pc = "lists"
    /\ creds' = IF Rejects(Login) /\ rejection = "status" THEN 0 ELSE Login
    /\ Goto(p, "clients")
    /\ UNCHANGED <<ctl, synced, site, reachable, sale, sales>>

FetchAll(p, rejection) ==
    /\ poll[p].pc = "clients"
    /\ creds' = IF Rejects(Login) /\ rejection = "status" THEN 0 ELSE Login
    /\ Goto(p, "status")
    /\ UNCHANGED <<ctl, synced, site, reachable, sale, sales>>

\* refreshControllerStatus copies the login, ...
StatusLogin(p) ==
    /\ poll[p].pc = "status"
    /\ creds' = Login
    /\ poll' = [poll EXCEPT ![p] = [pc |-> "fetch", login |-> Login, ok |-> FALSE]]
    /\ UNCHANGED <<ctl, synced, site, reachable, sale, sales>>

\* ... asks the controller, ...
StatusFetch(p) ==
    /\ poll[p].pc = "fetch"
    /\ poll' = [poll EXCEPT ![p].pc = "write", ![p].ok = Accepts(poll[p].login)]
    /\ UNCHANGED <<ctl, synced, creds, site, reachable, sale, sales>>

\* ... and records the answer, dropping the login unless it is good.
StatusWrite(p) ==
    /\ poll[p].pc = "write"
    /\ reachable' = poll[p].ok
    /\ creds' = IF poll[p].ok THEN creds ELSE 0
    /\ Goto(p, "idle")
    /\ UNCHANGED <<ctl, synced, site, sale, sales>>

Poll(p) ==
    \/ \E rejection \in Rejections : FetchHotspot(p, rejection) \/ FetchAll(p, rejection)
    \/ StatusLogin(p) \/ StatusFetch(p) \/ StatusWrite(p)
-----------------------------------------------------------------------------
(* Purchases.                                                              *)

\* handleWsRequest accepts a window only while the node is in service.
SaleClaim ==
    /\ sale.pc = "idle" /\ sales < MaxSales
    /\ Ready
    /\ sale' = [sale EXCEPT !.pc = "claimed"]
    /\ sales' = sales + 1
    /\ UNCHANGED <<ctl, synced, creds, site, reachable, poll>>

\* finalizeSession: authenticateOmadaClient or extendOmadaClient copies the login.
SaleLogin ==
    /\ sale.pc = "claimed"
    /\ creds' = Login
    /\ sale' = [pc |-> "call", login |-> Login]
    /\ UNCHANGED <<ctl, synced, site, reachable, poll, sales>>

\* The answer settles the purchase; whatever it is, the login is kept.
SaleAnswer ==
    /\ sale.pc = "call"
    /\ sale' = IdleSale
    /\ UNCHANGED <<ctl, synced, creds, site, reachable, poll, sales>>

Next ==
    \/ ControllerDown \/ ControllerUp \/ ClockSynced \/ LoginExpires
    \/ LoopPass \/ SitesLogin \/ RefreshJob
    \/ \E rejection \in Rejections : SitesAnswer(rejection)
    \/ \E p \in Pollers : Poll(p)
    \/ SaleClaim \/ SaleLogin \/ SaleAnswer

\* Both tasks keep running, and the hour a login lasts passes.  Nothing is assumed
\* of the controller, of the clock being set, or of anyone asking for a refresh.
Fairness ==
    /\ WF_vars(LoopPass) /\ WF_vars(SitesLogin) /\ WF_vars(LoginExpires)
    /\ WF_vars(\E rejection \in Rejections : SitesAnswer(rejection))
    /\ \A p \in Pollers : WF_vars(Poll(p))

Spec == Init /\ [][Next]_vars /\ Fairness
-----------------------------------------------------------------------------
\* Once the clock is set and the controller stays up, the node gets back into
\* service and stays there, whatever outdated logins and answers are still in
\* flight between loop() and webSocketTask.
Recovers == <>[](synced /\ ctl.up) => <>[]Ready

\* An outage is noticed: a controller that stays down puts the node out of service
\* before the nightly restart does (main.cpp restarts the node at 3 am, which is the
\* one bound there is on an unnoticed outage and not part of this module).
OutageNoticed == <>[](~ctl.up) => <>[]~Ready
=============================================================================
