----------------------------- MODULE AccessTime -----------------------------
(***************************************************************************)
(* The access time of one client: what the Omada controller grants, what   *)
(* the session cache believes, and what a pause has put on flash.  Three   *)
(* tasks work on it without a common lock:                                 *)
(*   - coinSessionTask settles a purchase (finalizeSession): it extends    *)
(*     the session when the cache knows one, and authenticates otherwise;  *)
(*   - webSocketTask takes pause, resume and refresh jobs one at a time;   *)
(*   - the HTTP task queues jobs and seeds the cache for a portal request. *)
(* Every call of the controller is two steps, what the controller does and *)
(* what the node makes of the answer, and the node may restart in between. *)
(*                                                                         *)
(* Times are absolute, as in the code.  The controller (external) replaces *)
(* the end of a session on authentication and adds to it on extension, as  *)
(* the repository's mock controller does.                                  *)
(***************************************************************************)
EXTENDS Naturals, Sequences

CONSTANTS
    Start,          \* the time at which behaviours begin
    MaxNow,         \* bound: the clock stops there
    Minutes,        \* time a purchase buys
    MaxPurchases,   \* bound
    MaxCrashes,     \* bound: restarts of the node, those after a filesystem update included
    JobQueueSize    \* WEBSOCKET_JOB_QUEUE length

ASSUME AccessAssumption ==
    /\ Minutes \in Nat \ {0} /\ MaxPurchases \in Nat /\ MaxCrashes \in Nat
    /\ Start \in Nat /\ Start > Minutes * (MaxPurchases + 1)
    /\ MaxNow \in Nat /\ JobQueueSize \in Nat \ {0}

VARIABLES
    now,
    ctl,       \* the end of the controller's session
    cache,     \* SessionParams: known, end, hasId (clientId set), paused
    file,      \* the pause file: its remaining time, 0 if there is none or it is too short
    jobs,      \* WEBSOCKET_JOB_QUEUE
    ws,        \* webSocketTask: pc, the time it pauses or resumes, the end it fetched
    sale,      \* coinSessionTask inside finalizeSession
    parked,    \* history: the time pauses took from the controller and no resume gave back
    cause,     \* history: what may have separated that time from the flash
    bought, crashes

vars == <<now, ctl, cache, file, jobs, ws, sale, parked, cause, bought, crashes>>

NoSession == [known |-> FALSE, end |-> 0, hasId |-> FALSE, paused |-> 0]
IdleWs    == [pc |-> "idle", amount |-> 0, end |-> 0]

\* What may become of a call: it succeeds, it fails, or it takes effect and
\* only its answer is lost.
Answers == {"ok", "refused", "lost"}
TookEffect(r) == r \in {"ok", "lost"}

Init ==
    /\ now = Start
    /\ ctl = 0
    /\ cache = NoSession
    /\ file = 0
    /\ jobs = << >>
    /\ ws = IdleWs
    /\ sale = "idle"
    /\ parked = 0 /\ cause = "none" /\ bought = 0 /\ crashes = 0

Tick ==
    /\ now < MaxNow
    /\ now' = now + 1
    /\ UNCHANGED <<ctl, cache, file, jobs, ws, sale, parked, cause, bought, crashes>>
-----------------------------------------------------------------------------
(* The HTTP task.                                                          *)

\* Fault: the queue's limit is ignored.
EnqueueUnbounded(job) == jobs' = Append(jobs, job)

\* xQueueSend(WEBSOCKET_JOB_QUEUE, &job, 0).
Enqueue(job) ==
    jobs' = IF Len(jobs) < JobQueueSize THEN Append(jobs, job) ELSE jobs

\* loadPausedSessionFile: the time on flash, 0 without a file.
LoadPaused == file

\* seedPortalSession, for a page load or a status poll with the client's MAC.
Seed ==
    /\ cache' = [cache EXCEPT !.known = TRUE,
                              !.paused = IF @ = 0 THEN LoadPaused ELSE @]
    /\ UNCHANGED <<now, ctl, file, jobs, ws, sale, parked, cause, bought, crashes>>

\* handleWsRequest, actions pause and resume.  The page offers one of them at a
\* time, but the handler asks for no more than a known client: a second page, or
\* one with an old status, may send either at any time and as often as it likes.
Request(job) ==
    /\ cache.known
    /\ Enqueue(job)
    /\ UNCHANGED <<now, ctl, cache, file, ws, sale, parked, cause, bought, crashes>>

\* handleAdminRecheck.
Recheck ==
    /\ Enqueue("refresh")
    /\ UNCHANGED <<now, ctl, cache, file, ws, sale, parked, cause, bought, crashes>>
-----------------------------------------------------------------------------
(* webSocketTask.                                                          *)

Goto(pc) == ws' = [ws EXCEPT !.pc = pc]

\* processPause up to the file: refused without a running session in the cache.
TakePause ==
    /\ ws.pc = "idle" /\ jobs # << >> /\ Head(jobs) = "pause"
    /\ jobs' = Tail(jobs)
    /\ ws' = IF cache.known /\ cache.end > now /\ cache.hasId
               THEN [pc |-> "save", amount |-> cache.end - now, end |-> 0]
               ELSE IdleWs
    /\ UNCHANGED <<now, ctl, cache, file, sale, parked, cause, bought, crashes>>

\* savePausedSessionFile.  Without a file nothing is disconnected.  How much of
\* the time was written nobody looks at: a full flash leaves a shorter file, which
\* reads as less.  A pause of a client whose time is still parked overwrites it.
SavePause(opened) ==
    /\ ws.pc = "save"
    /\ IF opened
         THEN \E written \in 0..ws.amount :
                /\ file' = written
                /\ cause' = IF parked > 0 THEN "again"
                            ELSE IF written < ws.amount THEN "write" ELSE "none"
         ELSE UNCHANGED <<file, cause>>
    /\ Goto(IF opened THEN "disconnect" ELSE "idle")
    /\ UNCHANGED <<now, ctl, cache, jobs, sale, parked, bought, crashes>>

\* disconnectOmadaClient, as far as the controller is concerned.  What the pause
\* takes is what the node knew of when it began.
Disconnect(r) ==
    /\ ws.pc = "disconnect"
    /\ ctl' = IF TookEffect(r) THEN now ELSE ctl
    /\ parked' = IF TookEffect(r) /\ ctl > now THEN parked + ws.amount ELSE parked
    /\ cause' = IF r = "lost" /\ cause = "none" THEN "lost" ELSE cause
    /\ Goto(IF r = "ok" THEN "paused" ELSE "pauseFailed")
    /\ UNCHANGED <<now, cache, file, jobs, sale, bought, crashes>>

\* The disconnection was confirmed: end and id are cleared, the rest is kept.
PauseDone ==
    /\ ws.pc = "paused"
    /\ cache' = [cache EXCEPT !.end = 0, !.hasId = FALSE, !.paused = ws.amount]
    /\ ws' = IdleWs
    /\ UNCHANGED <<now, ctl, file, jobs, sale, parked, cause, bought, crashes>>

\* deletePausedSessionFile.
DeletePaused == file' = 0

\* It was not confirmed: the pause file is deleted.
PauseFailed ==
    /\ ws.pc = "pauseFailed"
    /\ DeletePaused
    /\ ws' = IdleWs
    /\ UNCHANGED <<now, ctl, cache, jobs, sale, parked, cause, bought, crashes>>

\* Fault: the pause file is deleted before the controller has accepted.
TakeResumeUnlinks ==
    /\ ws.pc = "idle" /\ jobs # << >> /\ Head(jobs) = "resume"
    /\ jobs' = Tail(jobs)
    /\ ws' = IF cache.known /\ cache.paused > 0
               THEN [pc |-> "reauth", amount |-> cache.paused, end |-> 0]
               ELSE IdleWs
    /\ file' = 0
    /\ UNCHANGED <<now, ctl, cache, sale, parked, cause, bought, crashes>>

\* processResume up to the call.
TakeResume ==
    /\ ws.pc = "idle" /\ jobs # << >> /\ Head(jobs) = "resume"
    /\ jobs' = Tail(jobs)
    /\ ws' = IF cache.known /\ cache.paused > 0
               THEN [pc |-> "reauth", amount |-> cache.paused, end |-> 0]
               ELSE IdleWs
    /\ UNCHANGED <<now, ctl, cache, file, sale, parked, cause, bought, crashes>>

\* authenticateOmadaClient for the saved time, as far as the controller goes.
Reauth(r) ==
    /\ ws.pc = "reauth"
    /\ ctl' = IF TookEffect(r) THEN now + ws.amount ELSE ctl
    /\ parked' = IF TookEffect(r) THEN 0 ELSE parked
    /\ cause' = IF TookEffect(r) THEN "none" ELSE cause
    /\ Goto(IF r = "ok" THEN "resumed" ELSE "idle")
    /\ UNCHANGED <<now, cache, file, jobs, sale, bought, crashes>>

\* The paused time is cleared in the cache, then written to the activity log.
ResumeDone ==
    /\ ws.pc = "resumed"
    /\ cache' = [cache EXCEPT !.end = now + ws.amount, !.paused = 0]
    /\ Goto("unlink")
    /\ UNCHANGED <<now, ctl, file, jobs, sale, parked, cause, bought, crashes>>

\* The pause file goes; a cache refresh follows.
Unlink ==
    /\ ws.pc = "unlink"
    /\ DeletePaused
    /\ Goto("fetch")
    /\ UNCHANGED <<now, ctl, cache, jobs, sale, parked, cause, bought, crashes>>

TakeRefresh ==
    /\ ws.pc = "idle" /\ jobs # << >> /\ Head(jobs) = "refresh"
    /\ jobs' = Tail(jobs)
    /\ Goto("fetch")
    /\ UNCHANGED <<now, ctl, cache, file, sale, parked, cause, bought, crashes>>

\* mergeClientLists: the end of the client's session, 0 when it is in no list or
\* has expired.  A list that could not be fetched is empty.
Listed(r) == IF r = "ok" /\ ctl > now THEN ctl ELSE 0

\* refreshHotspotSessionCache, as far as the lists.
Fetch(r) ==
    /\ ws.pc = "fetch"
    /\ ws' = [pc |-> "apply", amount |-> 0, end |-> Listed(r)]
    /\ UNCHANGED <<now, ctl, cache, file, jobs, sale, parked, cause, bought, crashes>>

\* The client's entry is overwritten with what was fetched.
Apply ==
    /\ ws.pc = "apply"
    /\ cache' = IF ws.end = 0 THEN cache
                ELSE [known |-> TRUE, end |-> ws.end, hasId |-> TRUE,
                      paused |-> IF cache.known THEN cache.paused ELSE LoadPaused]
    /\ ws' = IdleWs
    /\ UNCHANGED <<now, ctl, file, jobs, sale, parked, cause, bought, crashes>>
-----------------------------------------------------------------------------
(* coinSessionTask: a window with coins is settled.                        *)

\* finalizeSession chooses between extending and authenticating.  Whether the
\* client's time is paused, or a pause is under way, it does not ask.
SaleStart ==
    /\ sale = "idle" /\ bought < MaxPurchases
    /\ cache.known
    /\ sale' = IF cache.end > now /\ cache.hasId THEN "extend" ELSE "auth"
    /\ bought' = bought + 1
    /\ UNCHANGED <<now, ctl, cache, file, jobs, ws, parked, cause, crashes>>

\* extendOmadaClient adds to the end, authenticateOmadaClient replaces it.
SaleCall(r) ==
    /\ sale \in {"extend", "auth"}
    /\ ctl' = IF ~TookEffect(r) THEN ctl
              ELSE (IF sale = "extend" THEN ctl ELSE now) + Minutes
    /\ sale' = CASE r # "ok" -> "idle" [] sale = "extend" -> "extended" [] OTHER -> "authed"
    /\ UNCHANGED <<now, cache, file, jobs, ws, parked, cause, bought, crashes>>

\* The cache follows; a refresh is queued only for a client that still listens.
SaleDone(connected) ==
    /\ sale \in {"extended", "authed"}
    /\ cache' = [cache EXCEPT !.end = (IF sale = "extended" THEN @ ELSE now) + Minutes]
    /\ IF connected THEN Enqueue("refresh") ELSE UNCHANGED jobs
    /\ sale' = "idle"
    /\ UNCHANGED <<now, ctl, file, ws, parked, cause, bought, crashes>>

\* The node restarts: flash is what remains.  setupOmada refreshes the cache
\* before the tasks run.
Restart ==
    /\ crashes < MaxCrashes
    /\ crashes' = crashes + 1
    /\ cache' = NoSession
    /\ jobs' = << >>
    /\ ws' = [IdleWs EXCEPT !.pc = "fetch"]
    /\ sale' = "idle"
    /\ UNCHANGED <<now, ctl, parked, bought>>

Crash ==
    /\ Restart
    /\ UNCHANGED <<file, cause>>

\* A filesystem update: the files of PRESERVE are written back after the flash,
\* the pause files are not among them, and the node restarts.
FsFlash ==
    /\ Restart
    /\ file' = 0
    /\ cause' = IF parked > 0 THEN "flash" ELSE cause
-----------------------------------------------------------------------------
Next ==
    \/ Tick \/ Seed \/ Recheck \/ Request("pause") \/ Request("resume")
    \/ TakePause \/ PauseDone \/ PauseFailed
    \/ \E opened \in BOOLEAN : SavePause(opened)
    \/ TakeResume \/ ResumeDone \/ Unlink
    \/ TakeRefresh \/ Apply
    \/ \E r \in Answers : Disconnect(r) \/ Reauth(r) \/ Fetch(r) \/ SaleCall(r)
    \/ SaleStart \/ \E connected \in BOOLEAN : SaleDone(connected)
    \/ Crash \/ FsFlash

Spec == Init /\ [][Next]_vars
-----------------------------------------------------------------------------
WsPcs == {"idle", "save", "disconnect", "paused", "pauseFailed", "reauth", "resumed",
          "unlink", "fetch", "apply"}

Causes == {"none", "again", "write", "flash", "lost"}

TypeOK ==
    /\ now \in Nat
    /\ ctl \in Nat
    /\ cache \in [known : BOOLEAN, end : Nat, hasId : BOOLEAN, paused : Nat]
    /\ file \in Nat
    /\ jobs \in Seq({"pause", "resume", "refresh"}) /\ Len(jobs) <= JobQueueSize
    /\ ws \in [pc : WsPcs, amount : Nat, end : Nat]
    /\ sale \in {"idle", "extend", "auth", "extended", "authed"}
    /\ parked \in Nat /\ cause \in Causes /\ bought \in Nat /\ crashes \in Nat

\* While a pause holds the client's time, flash has all of it and the cache offers
\* all of it as soon as it knows the client: whatever step the node is at when it
\* restarts, whichever refresh, sale, page load, refused call or second request
\* runs beside it.
Held ==
    /\ file = parked
    /\ cache.known => cache.paused = parked \/ ws.pc = "paused"
    /\ ws.pc = "reauth" => ws.amount = parked

\* Time a pause has taken from the controller is Held until a resume has given it
\* back.  It can be lost in four ways only: by a second pause on top of it, by a
\* pause file written short, by a filesystem update, which keeps no pause files,
\* and when the answer to the disconnection is lost.
NeverNowhere == parked > 0 => Held \/ cause # "none"

\* A lost answer is no reason to lose the time: as long as the flash is healthy,
\* not updated, and no second pause comes on top of the first, the time is on it.
PausedOnFlash == parked > 0 /\ cause \in {"none", "lost"} => file = parked
=============================================================================
