--------------------------- MODULE FirmwareUpdate ---------------------------
(***************************************************************************)
(* How a new firmware build reaches the nodes (src/src/network.cpp and the *)
(* update handlers of src/src/web.cpp).  The master is updated by an       *)
(* upload or from the latest GitHub release; both stream the image into    *)
(* the Update library, which the whole node shares.  Every node broadcasts *)
(* heartbeats; the master answers the heartbeat of an older build with     *)
(* OTA_AVAILABLE, and that slave downloads the master's running image from *)
(* /fw.bin, which the one HTTP task of the master sends.                   *)
(*                                                                         *)
(* Datagrams get lost, late and duplicated: a heartbeat may be delivered   *)
(* any number of times until Lose removes it.  Time enters in one place: a *)
(* boot takes at least the 6 s that setup() sleeps, and the HTTP server is *)
(* the last to start.  That is longer than a datagram is fresh (5 s, with  *)
(* the nodes' clocks set by NTP), a connection is tried or a transfer      *)
(* stalls (5 s), and a slave that has its image waits before it restarts   *)
(* (0.5 s).  So no heartbeat outlives the boot of its sender, and when the *)
(* master is up again no datagram and no transfer is left, nor an attempt  *)
(* to connect that began before it went down.  One that began while it was *)
(* down, on a datagram sent before, may still be there and reach it (5 s   *)
(* and 5 s are more than 6 s), and so may a slave that waits for an answer *)
(* (60 s) on a connection that is dead.                                    *)
(***************************************************************************)
EXTENDS Naturals

CONSTANTS
    Master, Slaves,
    Tasks,        \* the githubOtaTasks that may be alive at once
    Builds,       \* build numbers
    Size,         \* blocks of an image
    NoSession,
    MaxUpdates,   \* bound: updates of the master that are started
    MaxFaults     \* bound: failed transfers, restarts and unreadable images

Nodes == Slaves \cup {Master}

Writers == Tasks \cup {"fetcher", "upload"}

ASSUME UpdateAssumption ==
    /\ Master \notin Slaves /\ NoSession \notin Writers
    /\ Slaves \cap {"idle", "upload"} = {} /\ Tasks \cap {"fetcher", "upload"} = {}
    /\ Builds \subseteq Nat
    /\ Size \in Nat \ {0} /\ MaxUpdates \in Nat /\ MaxFaults \in Nat

VARIABLES
    running,    \* FIRMWARE_BUILD of a node
    spare,      \* the partition a node does not run from: build and blocks written
    committed,  \* the boot loader will start the spare partition
    session,    \* the node's Update object: who streams into it, or NoSession
    fetcher,    \* slaveOtaTask: "none", "get", "flash", "restart"
    otaFlag,    \* OTA_IN_PROGRESS of a slave
    link,       \* the slave's connection to the master, or its attempt at one, is not over
    late,       \* history: slaves whose attempt began while the master was down
    up,         \* the master is not booting
    served,     \* the master's RUNNING_IMAGE_SIZE is not 0
    httpd,      \* who the master's HTTP task is busy with
    task,       \* githubOtaTasks of the master: "none", "query", "flash", "restart"
    rebootTimer,\* the OtaReboot timer runs
    net,        \* datagrams in flight
    updates, faults

slaveVars  == <<fetcher, otaFlag, link, late>>
masterVars == <<up, served, httpd, task, rebootTimer>>
flashVars  == <<running, spare, committed, session>>
vars == <<flashVars, slaveVars, masterVars, net, updates, faults>>

HeartbeatOf(s, b) == [type |-> "heartbeat", node |-> s, build |-> b]
OtaAvailable(s)   == [type |-> "ota", node |-> s, build |-> 0]
RebootOf(s)       == [type |-> "reboot", node |-> s, build |-> 0]

Datagrams == {HeartbeatOf(s, b) : s \in Slaves, b \in Builds}
               \cup {OtaAvailable(s) : s \in Slaves} \cup {RebootOf(s) : s \in Slaves}

Init ==
    /\ running \in [Nodes -> Builds]
    /\ spare = [n \in Nodes |-> [build |-> running[n], got |-> 0]]
    /\ committed = [n \in Nodes |-> FALSE]
    /\ session = [n \in Nodes |-> NoSession]
    /\ fetcher = [s \in Slaves |-> "none"]
    /\ otaFlag = [s \in Slaves |-> FALSE]
    /\ link = [s \in Slaves |-> FALSE] /\ late = {}
    /\ up = TRUE /\ served = TRUE
    /\ httpd = "idle"
    /\ task = [t \in Tasks |-> "none"]
    /\ rebootTimer = FALSE
    /\ net = {}
    /\ updates = 0 /\ faults = 0

Fault == faults < MaxFaults /\ faults' = faults + 1
-----------------------------------------------------------------------------
(* The Update library.                                                     *)

\* Update.begin: refused while a session is open.  The partition is erased.
BeginSession(n, w, b) ==
    /\ session[n] = NoSession
    /\ session' = [session EXCEPT ![n] = w]
    /\ spare' = [spare EXCEPT ![n] = [build |-> b, got |-> 0]]
    /\ committed' = [committed EXCEPT ![n] = FALSE]
    /\ UNCHANGED running

\* Update.write.
WriteBlock(n) ==
    /\ spare' = [spare EXCEPT ![n].got = @ + 1]
    /\ UNCHANGED <<running, committed, session>>

\* Update.end(true): whatever has been written becomes the image to boot.
EndSession(n) ==
    /\ session' = [session EXCEPT ![n] = NoSession]
    /\ committed' = [committed EXCEPT ![n] = TRUE]
    /\ UNCHANGED <<running, spare>>

\* Update.abort, and an Update.end that fails.
AbortSession(n) ==
    /\ session' = [session EXCEPT ![n] = NoSession]
    /\ UNCHANGED <<running, spare, committed>>

\* The boot loader.
Boot(n) ==
    /\ running' = [running EXCEPT ![n] = IF committed[n] THEN spare[n].build ELSE @]
    /\ committed' = [committed EXCEPT ![n] = FALSE]
    /\ session' = [session EXCEPT ![n] = NoSession]
    /\ UNCHANGED spare
-----------------------------------------------------------------------------
(* Heartbeats.                                                             *)

Send(msgs) == net' = net \cup msgs

HeartbeatsOf(s) == {HeartbeatOf(s, b) : b \in Builds}

\* broadcastHeartbeat, from loop().
Heartbeat(s) ==
    /\ HeartbeatOf(s, running[s]) \notin net
    /\ Send({HeartbeatOf(s, running[s])})
    /\ UNCHANGED <<flashVars, slaveVars, masterVars, updates, faults>>

Lose(m) ==
    /\ net' = net \ {m}
    /\ UNCHANGED <<flashVars, slaveVars, masterVars, updates, faults>>

\* Fault: any build that is not the master's is told to update.
RecvAnyHeartbeat(s, b) ==
    /\ up /\ HeartbeatOf(s, b) \in net
    /\ b # running[Master] /\ OtaAvailable(s) \notin net
    /\ Send({OtaAvailable(s)})
    /\ UNCHANGED <<flashVars, slaveVars, masterVars, updates, faults>>

\* networkLoop of the master: a slave on an older build is told to update
\* (masterSendOtaToNode).  A heartbeat of any other build has no effect here.
RecvHeartbeat(s, b) ==
    /\ up /\ HeartbeatOf(s, b) \in net
    /\ b < running[Master] /\ OtaAvailable(s) \notin net
    /\ Send({OtaAvailable(s)})
    /\ UNCHANGED <<flashVars, slaveVars, masterVars, updates, faults>>
-----------------------------------------------------------------------------
(* A slave updates itself.                                                 *)

\* OTA_AVAILABLE starts slaveOtaTask unless one runs (if the task cannot be
\* created nothing changes), and that tries for 5 s to connect.
RecvOta(s) ==
    /\ OtaAvailable(s) \in net
    /\ ~otaFlag[s]
    /\ otaFlag' = [otaFlag EXCEPT ![s] = TRUE]
    /\ fetcher' = [fetcher EXCEPT ![s] = "get"]
    /\ link' = [link EXCEPT ![s] = TRUE]
    /\ late' = IF up THEN late ELSE late \cup {s}
    /\ net' = net \ {OtaAvailable(s)}
    /\ UNCHANGED <<flashVars, masterVars, updates, faults>>

\* GET /fw.bin: handleFwBin sends the master's running image once the HTTP task
\* is free.
FetchStarts(s) ==
    /\ fetcher[s] = "get" /\ link[s] /\ up /\ served /\ httpd = "idle"
    /\ BeginSession(s, "fetcher", running[Master])
    /\ fetcher' = [fetcher EXCEPT ![s] = "flash"]
    /\ httpd' = s
    /\ UNCHANGED <<otaFlag, link, late, up, served, task, rebootTimer, net, updates, faults>>

\* The master does not know its image's size and answers 404, which the slave
\* takes for nothing to do: it restarts.
FetchNotFound(s) ==
    /\ fetcher[s] = "get" /\ link[s] /\ up /\ ~served /\ httpd = "idle"
    /\ fetcher' = [fetcher EXCEPT ![s] = "restart"]
    /\ UNCHANGED <<flashVars, otaFlag, link, late, masterVars, net, updates, faults>>

\* Fault: the count of what is left is not looked at.
FetchBlockUncounted(s) ==
    /\ fetcher[s] = "flash" /\ link[s]
    /\ WriteBlock(s)
    /\ UNCHANGED <<slaveVars, masterVars, net, updates, faults>>

FetchBlock(s) ==
    /\ fetcher[s] = "flash" /\ link[s] /\ spare[s].got < Size
    /\ WriteBlock(s)
    /\ UNCHANGED <<slaveVars, masterVars, net, updates, faults>>

\* Fault: the transfer that stalled is not told from one that is complete.
FetchCompletesAnyhow(s) ==
    /\ fetcher[s] = "flash"
    /\ spare[s].got = Size \/ ~link[s]
    /\ EndSession(s)
    /\ fetcher' = [fetcher EXCEPT ![s] = "restart"]
    /\ httpd' = IF httpd = s THEN "idle" ELSE httpd
    /\ UNCHANGED <<otaFlag, link, late, up, served, task, rebootTimer, net, updates, faults>>

\* All bytes were read: Update.end, then slaveOtaTask restarts the node.
FetchCompletes(s) ==
    /\ fetcher[s] = "flash" /\ spare[s].got = Size
    /\ EndSession(s)
    /\ fetcher' = [fetcher EXCEPT ![s] = "restart"]
    /\ httpd' = IF httpd = s THEN "idle" ELSE httpd
    /\ UNCHANGED <<otaFlag, link, late, up, served, task, rebootTimer, net, updates, faults>>

\* Fault: the failed attempt leaves OTA_IN_PROGRESS set.
FetchFailsFlagged(s) ==
    /\ fetcher[s] \in {"get", "flash"}
    /\ IF link[s] /\ up THEN Fault ELSE UNCHANGED faults
    /\ IF fetcher[s] = "flash" THEN AbortSession(s) ELSE UNCHANGED flashVars
    /\ fetcher' = [fetcher EXCEPT ![s] = "none"]
    /\ httpd' = IF httpd = s THEN "idle" ELSE httpd
    /\ late' = late \ {s}
    /\ UNCHANGED <<otaFlag, link, up, served, task, rebootTimer, net, updates>>

\* Fault: the failed attempt does not release the Update session.
FetchFailsHolding(s) ==
    /\ fetcher[s] \in {"get", "flash"}
    /\ IF link[s] /\ up THEN Fault ELSE UNCHANGED faults
    /\ fetcher' = [fetcher EXCEPT ![s] = "none"]
    /\ otaFlag' = [otaFlag EXCEPT ![s] = FALSE]
    /\ httpd' = IF httpd = s THEN "idle" ELSE httpd
    /\ late' = late \ {s}
    /\ UNCHANGED <<flashVars, link, up, served, task, rebootTimer, net, updates>>

\* The connection fails, breaks, stalls for 5 s, or Update refuses: the session
\* is aborted and the flag cleared, and the next heartbeat starts again.
FetchFails(s) ==
    /\ fetcher[s] \in {"get", "flash"}
    /\ IF link[s] /\ up THEN Fault ELSE UNCHANGED faults
    /\ IF fetcher[s] = "flash" THEN AbortSession(s) ELSE UNCHANGED flashVars
    /\ fetcher' = [fetcher EXCEPT ![s] = "none"]
    /\ otaFlag' = [otaFlag EXCEPT ![s] = FALSE]
    /\ httpd' = IF httpd = s THEN "idle" ELSE httpd
    /\ late' = late \ {s}
    /\ UNCHANGED <<link, up, served, task, rebootTimer, net, updates>>

\* A slave boots: because slaveOtaTask says so, on a REBOOT broadcast, or because
\* its power failed.  The master's HTTP task notices that the peer has gone.
SlaveBoots(s) ==
    /\ \/ (fetcher[s] = "restart" \/ RebootOf(s) \in net) /\ UNCHANGED faults
       \/ Fault
    /\ Boot(s)
    /\ fetcher' = [fetcher EXCEPT ![s] = "none"]
    /\ otaFlag' = [otaFlag EXCEPT ![s] = FALSE]
    /\ link' = [link EXCEPT ![s] = FALSE] /\ late' = late \ {s}
    /\ httpd' = IF httpd = s THEN "idle" ELSE httpd
    /\ net' = net \ (HeartbeatsOf(s) \cup {RebootOf(s)})
    /\ UNCHANGED <<up, served, task, rebootTimer, updates>>
-----------------------------------------------------------------------------
(* The master is updated.                                                  *)

NewUpdate == updates < MaxUpdates /\ updates' = updates + 1

\* setupOtaRoute, first block of an upload; refused while a session is open.
UploadStarts(b) ==
    /\ up /\ httpd = "idle" /\ NewUpdate
    /\ BeginSession(Master, "upload", b)
    /\ httpd' = "upload"
    /\ UNCHANGED <<slaveVars, up, served, task, rebootTimer, net, faults>>

UploadBlock ==
    /\ httpd = "upload" /\ spare[Master].got < Size
    /\ WriteBlock(Master)
    /\ UNCHANGED <<slaveVars, masterVars, net, updates, faults>>

\* The last block: Update.end, and onRequest starts the timer.
UploadCompletes ==
    /\ httpd = "upload" /\ spare[Master].got = Size
    /\ EndSession(Master)
    /\ httpd' = "idle" /\ rebootTimer' = TRUE
    /\ UNCHANGED <<slaveVars, up, served, task, net, updates, faults>>

\* The browser goes away or a write fails: the handler is not called again and the
\* session stays open.  Or Update.end refuses the image.
UploadFails ==
    /\ httpd = "upload" /\ Fault
    /\ \/ UNCHANGED flashVars
       \/ spare[Master].got = Size /\ AbortSession(Master)
    /\ httpd' = "idle"
    /\ UNCHANGED <<slaveVars, up, served, task, rebootTimer, net, updates>>

\* handleGithubUpdate.
GithubStarts(t) ==
    /\ up /\ httpd = "idle" /\ task[t] = "none" /\ NewUpdate
    /\ task' = [task EXCEPT ![t] = "query"]
    /\ UNCHANGED <<flashVars, slaveVars, up, served, httpd, rebootTimer, net, faults>>

\* fetchLatestRelease found build b and flashFirmwareFromUrl opens the session.
GithubDownloads(t, b) ==
    /\ task[t] = "query"
    /\ BeginSession(Master, t, b)
    /\ task' = [task EXCEPT ![t] = "flash"]
    /\ UNCHANGED <<slaveVars, up, served, httpd, rebootTimer, net, updates, faults>>

GithubBlock(t) ==
    /\ task[t] = "flash" /\ spare[Master].got < Size
    /\ WriteBlock(Master)
    /\ UNCHANGED <<slaveVars, masterVars, net, updates, faults>>

GithubCompletes(t) ==
    /\ task[t] = "flash" /\ spare[Master].got = Size
    /\ EndSession(Master)
    /\ task' = [task EXCEPT ![t] = "restart"]
    /\ UNCHANGED <<slaveVars, up, served, httpd, rebootTimer, net, updates, faults>>

\* No release, no connection, a stall of 10 s, or a session that is already open:
\* the task ends.
GithubFails(t) ==
    /\ task[t] \in {"query", "flash"}
    /\ IF task[t] = "flash" THEN Fault /\ AbortSession(Master)
       ELSE /\ UNCHANGED flashVars
            /\ IF session[Master] = NoSession THEN Fault ELSE UNCHANGED faults
    /\ task' = [task EXCEPT ![t] = "none"]
    /\ UNCHANGED <<slaveVars, up, served, httpd, rebootTimer, net, updates>>

\* esp_restart on the master, from the timer, a finished GitHub task, the admin
\* page, the nightly schedule, or a power cut.  The last but one tell the slaves
\* first; every connection breaks, and an attempt at one is over before the next boot.
MasterGoesDown(tellSlaves) ==
    /\ up
    /\ \/ (rebootTimer \/ \E t \in Tasks : task[t] = "restart") /\ ~tellSlaves /\ UNCHANGED faults
       \/ Fault
    /\ IF tellSlaves THEN Send({RebootOf(s) : s \in Slaves}) ELSE UNCHANGED net
    /\ up' = FALSE
    /\ httpd' = "idle" /\ rebootTimer' = FALSE
    /\ task' = [t \in Tasks |-> "none"]
    /\ link' = [s \in Slaves |-> FALSE]
    /\ session' = [session EXCEPT ![Master] = NoSession]
    /\ UNCHANGED <<running, spare, committed, fetcher, otaFlag, late, served, updates>>

\* setup(): RUNNING_IMAGE_SIZE is 0 if the image cannot be read.
MasterIsUp(readable) ==
    /\ ~up /\ \A s \in Slaves : fetcher[s] \in {"none", "get"}
    /\ IF readable THEN UNCHANGED faults ELSE Fault
    /\ Boot(Master)
    /\ up' = TRUE /\ served' = readable
    /\ net' = {}
    /\ UNCHANGED <<slaveVars, httpd, task, rebootTimer, updates>>

SlaveNext(s) ==
    \/ Heartbeat(s) \/ RecvOta(s)
    \/ FetchStarts(s) \/ FetchNotFound(s) \/ FetchBlock(s) \/ FetchCompletes(s)
    \/ FetchFails(s) \/ SlaveBoots(s)
    \/ \E b \in Builds : RecvHeartbeat(s, b)

MasterNext ==
    \/ \E b \in Builds : UploadStarts(b)
    \/ UploadBlock \/ UploadCompletes \/ UploadFails
    \/ \E t \in Tasks : \/ GithubStarts(t) \/ GithubBlock(t) \/ GithubCompletes(t)
                        \/ GithubFails(t)
                        \/ \E b \in Builds : GithubDownloads(t, b)
    \/ \E told \in BOOLEAN : MasterGoesDown(told)
    \/ \E readable \in BOOLEAN : MasterIsUp(readable)

Next ==
    \/ \E s \in Slaves : SlaveNext(s)
    \/ \E m \in net : Lose(m)
    \/ MasterNext

Spec == Init /\ [][Next]_vars

\* slaveOtaTask at work: it reads on, finishes, gives up a broken connection, or
\* restarts the slave.
Works(s) ==
    \/ FetchBlock(s) \/ FetchCompletes(s)
    \/ ~link[s] /\ FetchFails(s)
    \/ fetcher[s] = "restart" /\ SlaveBoots(s)

\* Slaves keep running; of the datagrams sent again and again one arrives, and of
\* the downloads tried again and again one is served; an upload ends and the
\* master's boot too.
Fairness ==
    /\ \A s \in Slaves :
         /\ WF_vars(Heartbeat(s)) /\ SF_vars(\E b \in Builds : RecvHeartbeat(s, b))
         /\ SF_vars(RecvOta(s)) /\ SF_vars(FetchStarts(s)) /\ WF_vars(Works(s))
    /\ WF_vars(UploadBlock \/ UploadCompletes)
    /\ WF_vars(MasterIsUp(TRUE))

FairSpec == Spec /\ Fairness
-----------------------------------------------------------------------------
TypeOK ==
    /\ running \in [Nodes -> Builds]
    /\ spare \in [Nodes -> [build : Builds, got : 0..Size]]
    /\ committed \in [Nodes -> BOOLEAN]
    /\ session \in [Nodes -> Writers \cup {NoSession}]
    /\ fetcher \in [Slaves -> {"none", "get", "flash", "restart"}]
    /\ otaFlag \in [Slaves -> BOOLEAN] /\ link \in [Slaves -> BOOLEAN] /\ late \subseteq Slaves
    /\ up \in BOOLEAN /\ served \in BOOLEAN /\ rebootTimer \in BOOLEAN
    /\ httpd \in Slaves \cup {"idle", "upload"}
    /\ task \in [Tasks -> {"none", "query", "flash", "restart"}]
    /\ net \subseteq Datagrams
    /\ updates \in 0..MaxUpdates /\ faults \in 0..MaxFaults

\* The boot loader is only ever pointed at an image that has been received
\* completely, and by one transfer: transfers that stall, break, overlap or are
\* cut off by a restart never get that far.
CommittedWhole == \A n \in Nodes : committed[n] => spare[n].got = Size

\* A transfer that ended has released the Update object, so that the next attempt
\* is not refused.  (An upload that is cut off does not: its session stays open
\* until the node restarts.)
SessionReleased ==
    /\ \A s \in Slaves : session[s] # NoSession => fetcher[s] = "flash"
    /\ session[Master] \in Tasks => task[session[Master]] = "flash"

\* No slave goes back to an older build, not even when the master does: an
\* OTA_AVAILABLE that is late or repeated does not make it fetch one.  There is one
\* way: it was told just before the master went down, tried to connect while it was
\* down, and reached the master that had booted the older build.
NeverDowngraded == [][\A s \in Slaves : running'[s] >= running[s] \/ s \in late]_vars

\* When no more updates of the master are started (their number is bounded), and
\* its image can be read, every slave gets to run the master's build or a newer
\* one, whatever got lost, broke or restarted on the way.
SlavesFollow == <>[]served => <>[](\A s \in Slaves : running[s] >= running[Master])
=============================================================================
