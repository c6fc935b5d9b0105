------------------------ MODULE FirmwareUpdateProofs ------------------------
(***************************************************************************)
(* Proofs about FirmwareUpdate, for any slaves, builds, image size, number *)
(* of GitHub tasks, of updates and of faults.                              *)
(***************************************************************************)
EXTENDS FirmwareUpdate, TLAPS

\* Who holds a session is at work on it, and nobody is while the master is down.
\* So two transfers never mix, and what is committed is no longer written to.
Busy ==
    /\ \A s \in Slaves : fetcher[s] = "flash" <=> session[s] # NoSession
    /\ \A s \in Slaves : fetcher[s] # "none" => otaFlag[s]
    /\ \A t \in Tasks : task[t] = "flash" => session[Master] = t
    /\ session[Master] \in Tasks => task[session[Master]] = "flash"
    /\ httpd = "upload" => session[Master] = "upload"
    /\ \A n \in Nodes : session[n] # NoSession => ~committed[n]
    /\ ~up => httpd # "upload" /\ \A t \in Tasks : task[t] = "none"
    /\ ~up => \A s \in Slaves : fetcher[s] = "get" /\ link[s] => s \in late

\* No heartbeat outlives the build it reports.
HeartbeatsCurrent ==
    \A s \in Slaves, b \in Builds : HeartbeatOf(s, b) \in net => b = running[s]

\* A slave that was told to update is not ahead of the master, up to its restart:
\* the master boots another build only when no slave is at it, but those whose attempt
\* to connect began while it was down, and no datagram is left.
OffersCurrent ==
    \A s \in Slaves :
       \/ OtaAvailable(s) \in net
       \/ fetcher[s] = "get" /\ link[s] /\ s \notin late
       \/ fetcher[s] \in {"flash", "restart"} /\ s \notin late
       => running[s] <= running[Master]

\* What a slave downloads or is about to boot is the build the master runs.
ImagesCurrent ==
    \A s \in Slaves :
       /\ committed[s] => fetcher[s] = "restart"
       /\ fetcher[s] = "flash" \/ committed[s] => spare[s].build = running[Master]

Current == HeartbeatsCurrent /\ OffersCurrent /\ ImagesCurrent

\* The inductive invariant.
IInv == TypeOK /\ CommittedWhole /\ Busy /\ Current

\* What NeverDowngraded says of one step.
Kept == \A s \in Slaves : running'[s] >= running[s] \/ s \in late
-----------------------------------------------------------------------------
\* The initial states.
LEMMA InitInv == Init => IInv
<1> SUFFICES ASSUME Init PROVE IInv OBVIOUS
<1>1. TypeOK
  <2>1. /\ running \in [Nodes -> Builds]
        /\ spare \in [Nodes -> [build : Builds, got : 0..Size]]
    BY UpdateAssumption DEF Init
  <2>2. /\ committed \in [Nodes -> BOOLEAN] /\ otaFlag \in [Slaves -> BOOLEAN]
        /\ link \in [Slaves -> BOOLEAN] /\ session \in [Nodes -> Writers \cup {NoSession}]
    BY DEF Init
  <2>3. /\ httpd \in Slaves \cup {"idle", "upload"} /\ net \subseteq Datagrams
        /\ fetcher \in [Slaves -> {"none", "get", "flash", "restart"}]
        /\ task \in [Tasks -> {"none", "query", "flash", "restart"}] /\ late \subseteq Slaves
        /\ updates \in 0..MaxUpdates /\ faults \in 0..MaxFaults
    BY UpdateAssumption DEF Init
  <2>4. up \in BOOLEAN /\ served \in BOOLEAN /\ rebootTimer \in BOOLEAN
    BY Zenon DEF Init
  <2> QED
    BY <2>1, <2>2, <2>3, <2>4, Zenon DEF TypeOK
<1>2. CommittedWhole
  BY UpdateAssumption DEF Init, CommittedWhole, Nodes
<1>3. Busy
  BY UpdateAssumption DEF Init, Busy, Nodes, Writers
<1>4. Current
  BY UpdateAssumption DEF Init, Current, HeartbeatsCurrent, OffersCurrent,
    ImagesCurrent, Nodes
<1> QED BY <1>1, <1>2, <1>3, <1>4 DEF IInv

\* What a slave boots is its own build, or that of a master which is not behind.
LEMMA NextBuild ==
  ASSUME IInv, NEW s \in Slaves, SlaveBoots(s)
  PROVE  /\ running'[Master] = running[Master]
         /\ \A x \in Slaves : /\ running'[x] >= running[x] \/ x \in late
                              /\ running[x] <= running[Master] => running'[x] <= running[Master]
<1>1. running'[Master] = running[Master] /\ running[Master] \in Nat
  BY UpdateAssumption DEF IInv, TypeOK, SlaveBoots, Boot, Nodes
<1>2. \A x \in Slaves : running[x] \in Nat /\ (x # s => running'[x] = running[x])
  BY UpdateAssumption DEF IInv, TypeOK, SlaveBoots, Boot, Nodes
<1>3. CASE committed[s]
  <2>1. running'[s] = running[Master] /\ (s \in late \/ running[s] <= running[Master])
    BY <1>3, UpdateAssumption
    DEF IInv, TypeOK, Current, OffersCurrent, ImagesCurrent, SlaveBoots, Boot, Nodes
  <2> QED BY <1>1, <1>2, <2>1
<1>4. CASE ~committed[s]
  <2>1. running'[s] = running[s]
    BY <1>4 DEF IInv, TypeOK, SlaveBoots, Boot, Nodes
  <2> QED BY <1>1, <1>2, <2>1
<1> QED BY <1>3, <1>4

\* Steps that start no other build.
LEMMA KeptSame == ASSUME IInv, running' = running PROVE Kept
<1>1. \A s \in Slaves : running[s] \in Nat
  BY UpdateAssumption DEF IInv, TypeOK, Nodes
<1> QED BY <1>1 DEF Kept
-----------------------------------------------------------------------------
(* One lemma per action.                                                   *)

LEMMA HeartbeatInv ==
  ASSUME IInv, NEW s \in Slaves, Heartbeat(s) PROVE IInv' /\ Kept
<1>1. TypeOK'
  <2>1. running[s] \in Builds
    BY DEF IInv, TypeOK, Nodes
  <2>2. HeartbeatOf(s, running[s]) \in Datagrams
    BY <2>1 DEF Datagrams
  <2> QED
    BY <2>2 DEF IInv, TypeOK, Heartbeat, Send, slaveVars, masterVars, flashVars
<1>2. CommittedWhole'
  BY UpdateAssumption DEF IInv, TypeOK, CommittedWhole, Busy, Heartbeat, slaveVars,
    masterVars, flashVars, Nodes
<1>3. Busy'
  BY UpdateAssumption DEF IInv, TypeOK, Busy, Writers, Heartbeat, slaveVars,
    masterVars, flashVars, Nodes
<1>4. Current'
  <2>1. HeartbeatsCurrent'
    BY UpdateAssumption DEF IInv, TypeOK, Current, HeartbeatsCurrent, Heartbeat, Send,
      HeartbeatOf, OtaAvailable, RebootOf, HeartbeatsOf, slaveVars, masterVars,
      flashVars, Nodes
  <2>2. OffersCurrent'
    BY UpdateAssumption DEF IInv, TypeOK, Busy, Current, HeartbeatsCurrent,
      OffersCurrent, Heartbeat, Send, HeartbeatOf, OtaAvailable, RebootOf, HeartbeatsOf,
      slaveVars, masterVars, flashVars, Nodes
  <2>3. ImagesCurrent'
    BY UpdateAssumption DEF IInv, TypeOK, Busy, Current, OffersCurrent, ImagesCurrent,
      Heartbeat, slaveVars, masterVars, flashVars, Nodes
  <2> QED BY <2>1, <2>2, <2>3 DEF Current
<1>5. Kept
  BY KeptSame DEF Heartbeat, flashVars
<1> QED BY <1>1, <1>2, <1>3, <1>4, <1>5 DEF IInv

LEMMA LoseInv ==
  ASSUME IInv, NEW m \in net, Lose(m) PROVE IInv' /\ Kept
<1>1. TypeOK'
  BY UpdateAssumption DEF IInv, TypeOK, Writers, Lose, Send, HeartbeatOf,
    OtaAvailable, RebootOf, HeartbeatsOf, Datagrams, slaveVars, masterVars, flashVars,
    Nodes
<1>2. CommittedWhole'
  BY UpdateAssumption DEF IInv, TypeOK, CommittedWhole, Busy, Lose, slaveVars,
    masterVars, flashVars, Nodes
<1>3. Busy'
  BY UpdateAssumption DEF IInv, TypeOK, Busy, Writers, Lose, slaveVars, masterVars,
    flashVars, Nodes
<1>4. Current'
  <2>1. HeartbeatsCurrent'
    BY UpdateAssumption DEF IInv, TypeOK, Current, HeartbeatsCurrent, Lose, Send,
      HeartbeatOf, OtaAvailable, RebootOf, HeartbeatsOf, slaveVars, masterVars,
      flashVars, Nodes
  <2>2. OffersCurrent'
    BY UpdateAssumption DEF IInv, TypeOK, Busy, Current, HeartbeatsCurrent,
      OffersCurrent, Lose, Send, HeartbeatOf, OtaAvailable, RebootOf, HeartbeatsOf,
      slaveVars, masterVars, flashVars, Nodes
  <2>3. ImagesCurrent'
    BY UpdateAssumption DEF IInv, TypeOK, Busy, Current, OffersCurrent, ImagesCurrent,
      Lose, slaveVars, masterVars, flashVars, Nodes
  <2> QED BY <2>1, <2>2, <2>3 DEF Current
<1>5. Kept
  BY KeptSame DEF Lose, flashVars
<1> QED BY <1>1, <1>2, <1>3, <1>4, <1>5 DEF IInv

LEMMA RecvHeartbeatInv ==
  ASSUME IInv, NEW s \in Slaves, NEW b \in Builds, RecvHeartbeat(s, b) PROVE IInv' /\ Kept
<1>1. TypeOK'
  BY UpdateAssumption DEF IInv, TypeOK, Writers, RecvHeartbeat, Send, HeartbeatOf,
    OtaAvailable, RebootOf, HeartbeatsOf, Datagrams, slaveVars, masterVars, flashVars,
    Nodes
<1>2. CommittedWhole'
  BY UpdateAssumption DEF IInv, TypeOK, CommittedWhole, Busy, RecvHeartbeat,
    slaveVars, masterVars, flashVars, Nodes
<1>3. Busy'
  BY UpdateAssumption DEF IInv, TypeOK, Busy, Writers, RecvHeartbeat, slaveVars,
    masterVars, flashVars, Nodes
<1>4. Current'
  <2>1. HeartbeatsCurrent'
    BY DEF IInv, Current, HeartbeatsCurrent, RecvHeartbeat, Send, HeartbeatOf,
      OtaAvailable, flashVars
  <2>2. running[s] <= running[Master]
    <3>1. b = running[s] /\ b < running[Master]
      BY Zenon DEF IInv, Current, HeartbeatsCurrent, RecvHeartbeat
    <3>2. running[Master] \in Nat /\ b \in Nat
      BY UpdateAssumption DEF IInv, TypeOK, Nodes
    <3> QED BY <3>1, <3>2
  <2>3. OffersCurrent'
    BY <2>2 DEF IInv, Current, OffersCurrent, RecvHeartbeat, Send, OtaAvailable,
      flashVars, slaveVars
  <2>4. ImagesCurrent'
    BY DEF IInv, Current, ImagesCurrent, RecvHeartbeat, flashVars, slaveVars
  <2> QED BY <2>1, <2>3, <2>4 DEF Current
<1>5. Kept
  BY KeptSame DEF RecvHeartbeat, flashVars
<1> QED BY <1>1, <1>2, <1>3, <1>4, <1>5 DEF IInv

LEMMA RecvOtaInv ==
  ASSUME IInv, NEW s \in Slaves, RecvOta(s) PROVE IInv' /\ Kept
<1>1. TypeOK'
  BY UpdateAssumption DEF IInv, TypeOK, Writers, RecvOta, Send, HeartbeatOf,
    OtaAvailable, RebootOf, HeartbeatsOf, Datagrams, slaveVars, masterVars, flashVars,
    Nodes
<1>2. CommittedWhole'
  BY UpdateAssumption DEF IInv, TypeOK, CommittedWhole, Busy, RecvOta, slaveVars,
    masterVars, flashVars, Nodes
<1>3. Busy'
  BY UpdateAssumption DEF IInv, TypeOK, Busy, Writers, RecvOta, slaveVars, masterVars,
    flashVars, Nodes
<1>4. Current'
  <2>1. HeartbeatsCurrent'
    BY UpdateAssumption DEF IInv, TypeOK, Current, HeartbeatsCurrent, RecvOta, Send,
      HeartbeatOf, OtaAvailable, RebootOf, HeartbeatsOf, slaveVars, masterVars,
      flashVars, Nodes
  <2>2. OffersCurrent'
    BY UpdateAssumption DEF IInv, TypeOK, Busy, Current, HeartbeatsCurrent,
      OffersCurrent, RecvOta, Send, HeartbeatOf, OtaAvailable, RebootOf, HeartbeatsOf,
      slaveVars, masterVars, flashVars, Nodes
  <2>3. ImagesCurrent'
    BY UpdateAssumption DEF IInv, TypeOK, Busy, Current, OffersCurrent, ImagesCurrent,
      RecvOta, slaveVars, masterVars, flashVars, Nodes
  <2> QED BY <2>1, <2>2, <2>3 DEF Current
<1>5. Kept
  BY KeptSame DEF RecvOta, flashVars
<1> QED BY <1>1, <1>2, <1>3, <1>4, <1>5 DEF IInv

LEMMA FetchStartsInv ==
  ASSUME IInv, NEW s \in Slaves, FetchStarts(s) PROVE IInv' /\ Kept
<1>1. TypeOK'
  BY UpdateAssumption DEF IInv, TypeOK, Writers, FetchStarts, BeginSession, slaveVars,
    masterVars, flashVars, Nodes
<1>2. CommittedWhole'
  BY UpdateAssumption DEF IInv, TypeOK, CommittedWhole, Busy, FetchStarts,
    BeginSession, slaveVars, masterVars, flashVars, Nodes
<1>3. Busy'
  BY UpdateAssumption DEF IInv, TypeOK, Busy, Writers, FetchStarts, BeginSession,
    slaveVars, masterVars, flashVars, Nodes
<1>4. Current'
  <2>1. HeartbeatsCurrent'
    BY UpdateAssumption DEF IInv, TypeOK, Current, HeartbeatsCurrent, FetchStarts,
      BeginSession, slaveVars, masterVars, flashVars, Nodes
  <2>2. OffersCurrent'
    BY UpdateAssumption DEF IInv, TypeOK, Busy, Current, HeartbeatsCurrent,
      OffersCurrent, FetchStarts, BeginSession, slaveVars, masterVars, flashVars, Nodes
  <2>3. ImagesCurrent'
    BY UpdateAssumption DEF IInv, TypeOK, Busy, Current, OffersCurrent, ImagesCurrent,
      FetchStarts, BeginSession, slaveVars, masterVars, flashVars, Nodes
  <2> QED BY <2>1, <2>2, <2>3 DEF Current
<1>5. Kept
  BY KeptSame DEF FetchStarts, BeginSession, flashVars
<1> QED BY <1>1, <1>2, <1>3, <1>4, <1>5 DEF IInv

LEMMA FetchNotFoundInv ==
  ASSUME IInv, NEW s \in Slaves, FetchNotFound(s) PROVE IInv' /\ Kept
<1>1. TypeOK'
  BY UpdateAssumption DEF IInv, TypeOK, Writers, FetchNotFound, slaveVars, masterVars,
    flashVars, Nodes
<1>2. CommittedWhole'
  BY UpdateAssumption DEF IInv, TypeOK, CommittedWhole, Busy, FetchNotFound,
    slaveVars, masterVars, flashVars, Nodes
<1>3. Busy'
  BY UpdateAssumption DEF IInv, TypeOK, Busy, Writers, FetchNotFound, slaveVars,
    masterVars, flashVars, Nodes
<1>4. Current'
  <2>1. HeartbeatsCurrent'
    BY UpdateAssumption DEF IInv, TypeOK, Current, HeartbeatsCurrent, FetchNotFound,
      slaveVars, masterVars, flashVars, Nodes
  <2>2. OffersCurrent'
    BY UpdateAssumption DEF IInv, TypeOK, Busy, Current, HeartbeatsCurrent,
      OffersCurrent, FetchNotFound, slaveVars, masterVars, flashVars, Nodes
  <2>3. ImagesCurrent'
    BY UpdateAssumption DEF IInv, TypeOK, Busy, Current, OffersCurrent, ImagesCurrent,
      FetchNotFound, slaveVars, masterVars, flashVars, Nodes
  <2> QED BY <2>1, <2>2, <2>3 DEF Current
<1>5. Kept
  BY KeptSame DEF FetchNotFound, flashVars
<1> QED BY <1>1, <1>2, <1>3, <1>4, <1>5 DEF IInv

LEMMA FetchBlockInv ==
  ASSUME IInv, NEW s \in Slaves, FetchBlock(s) PROVE IInv' /\ Kept
<1>1. TypeOK'
  BY UpdateAssumption DEF IInv, TypeOK, Writers, FetchBlock, WriteBlock, slaveVars,
    masterVars, flashVars, Nodes
<1>2. CommittedWhole'
  BY UpdateAssumption DEF IInv, TypeOK, CommittedWhole, Busy, FetchBlock, WriteBlock,
    slaveVars, masterVars, flashVars, Nodes
<1>3. Busy'
  BY UpdateAssumption DEF IInv, TypeOK, Busy, Writers, FetchBlock, WriteBlock,
    slaveVars, masterVars, flashVars, Nodes
<1>4. Current'
  <2>1. HeartbeatsCurrent'
    BY UpdateAssumption DEF IInv, TypeOK, Current, HeartbeatsCurrent, FetchBlock,
      WriteBlock, slaveVars, masterVars, flashVars, Nodes
  <2>2. OffersCurrent'
    BY UpdateAssumption DEF IInv, TypeOK, Busy, Current, HeartbeatsCurrent,
      OffersCurrent, FetchBlock, WriteBlock, slaveVars, masterVars, flashVars, Nodes
  <2>3. ImagesCurrent'
    BY UpdateAssumption DEF IInv, TypeOK, Busy, Current, OffersCurrent, ImagesCurrent,
      FetchBlock, WriteBlock, slaveVars, masterVars, flashVars, Nodes
  <2> QED BY <2>1, <2>2, <2>3 DEF Current
<1>5. Kept
  BY KeptSame DEF FetchBlock, WriteBlock, flashVars
<1> QED BY <1>1, <1>2, <1>3, <1>4, <1>5 DEF IInv

LEMMA FetchCompletesInv ==
  ASSUME IInv, NEW s \in Slaves, FetchCompletes(s) PROVE IInv' /\ Kept
<1>1. TypeOK'
  BY UpdateAssumption DEF IInv, TypeOK, Writers, FetchCompletes, EndSession,
    slaveVars, masterVars, flashVars, Nodes
<1>2. CommittedWhole'
  BY UpdateAssumption DEF IInv, TypeOK, CommittedWhole, Busy, FetchCompletes,
    EndSession, slaveVars, masterVars, flashVars, Nodes
<1>3. Busy'
  BY UpdateAssumption DEF IInv, TypeOK, Busy, Writers, FetchCompletes, EndSession,
    slaveVars, masterVars, flashVars, Nodes
<1>4. Current'
  <2>1. HeartbeatsCurrent'
    BY UpdateAssumption DEF IInv, TypeOK, Current, HeartbeatsCurrent, FetchCompletes,
      EndSession, slaveVars, masterVars, flashVars, Nodes
  <2>2. OffersCurrent'
    BY UpdateAssumption DEF IInv, TypeOK, Busy, Current, HeartbeatsCurrent,
      OffersCurrent, FetchCompletes, EndSession, slaveVars, masterVars, flashVars, Nodes
  <2>3. ImagesCurrent'
    BY UpdateAssumption DEF IInv, TypeOK, Busy, Current, OffersCurrent, ImagesCurrent,
      FetchCompletes, EndSession, slaveVars, masterVars, flashVars, Nodes
  <2> QED BY <2>1, <2>2, <2>3 DEF Current
<1>5. Kept
  BY KeptSame DEF FetchCompletes, EndSession, flashVars
<1> QED BY <1>1, <1>2, <1>3, <1>4, <1>5 DEF IInv

LEMMA FetchFailsInv ==
  ASSUME IInv, NEW s \in Slaves, FetchFails(s) PROVE IInv' /\ Kept
<1>1. TypeOK'
  BY UpdateAssumption DEF IInv, TypeOK, Writers, FetchFails, Fault, AbortSession,
    slaveVars, masterVars, flashVars, Nodes
<1>2. CommittedWhole'
  BY UpdateAssumption DEF IInv, TypeOK, CommittedWhole, Busy, FetchFails, Fault,
    AbortSession, slaveVars, masterVars, flashVars, Nodes
<1>3. Busy'
  BY UpdateAssumption DEF IInv, TypeOK, Busy, Writers, FetchFails, Fault,
    AbortSession, slaveVars, masterVars, flashVars, Nodes
<1>4. Current'
  <2>1. HeartbeatsCurrent'
    BY UpdateAssumption DEF IInv, TypeOK, Current, HeartbeatsCurrent, FetchFails,
      Fault, AbortSession, slaveVars, masterVars, flashVars, Nodes
  <2>2. OffersCurrent'
    BY UpdateAssumption DEF IInv, TypeOK, Busy, Current, HeartbeatsCurrent,
      OffersCurrent, FetchFails, Fault, AbortSession, slaveVars, masterVars, flashVars,
      Nodes
  <2>3. ImagesCurrent'
    BY UpdateAssumption DEF IInv, TypeOK, Busy, Current, OffersCurrent, ImagesCurrent,
      FetchFails, Fault, AbortSession, slaveVars, masterVars, flashVars, Nodes
  <2> QED BY <2>1, <2>2, <2>3 DEF Current
<1>5. Kept
  BY KeptSame DEF FetchFails, Fault, AbortSession, flashVars
<1> QED BY <1>1, <1>2, <1>3, <1>4, <1>5 DEF IInv

LEMMA SlaveBootsInv ==
  ASSUME IInv, NEW s \in Slaves, SlaveBoots(s) PROVE IInv' /\ Kept
<1>1. TypeOK'
  BY UpdateAssumption DEF IInv, TypeOK, Writers, SlaveBoots, Fault, Boot, Send,
    HeartbeatOf, OtaAvailable, RebootOf, HeartbeatsOf, Datagrams, slaveVars, masterVars,
    flashVars, Nodes
<1>2. CommittedWhole'
  BY UpdateAssumption DEF IInv, TypeOK, CommittedWhole, Busy, SlaveBoots, Fault, Boot,
    slaveVars, masterVars, flashVars, Nodes
<1>3. Busy'
  BY UpdateAssumption DEF IInv, TypeOK, Busy, Writers, SlaveBoots, Fault, Boot,
    slaveVars, masterVars, flashVars, Nodes
<1>4. Current'
  <2>1. HeartbeatsCurrent'
    BY UpdateAssumption DEF IInv, TypeOK, Current, HeartbeatsCurrent, SlaveBoots,
      Boot, HeartbeatsOf,
       HeartbeatOf, RebootOf, Nodes
  <2>2. OffersCurrent'
    BY NextBuild, UpdateAssumption
    DEF IInv, TypeOK, Current, OffersCurrent, SlaveBoots, OtaAvailable, Nodes
  <2>3. ImagesCurrent'
    BY NextBuild, UpdateAssumption
    DEF IInv, TypeOK, Current, ImagesCurrent, SlaveBoots, Boot, Nodes
  <2> QED BY <2>1, <2>2, <2>3 DEF Current
<1>5. Kept
  BY NextBuild DEF Kept
<1> QED BY <1>1, <1>2, <1>3, <1>4, <1>5 DEF IInv

LEMMA UploadStartsInv ==
  ASSUME IInv, NEW b \in Builds, UploadStarts(b) PROVE IInv' /\ Kept
<1>1. TypeOK'
  BY UpdateAssumption DEF IInv, TypeOK, Writers, UploadStarts, NewUpdate,
    BeginSession, slaveVars, masterVars, flashVars, Nodes
<1>2. CommittedWhole'
  BY UpdateAssumption DEF IInv, TypeOK, CommittedWhole, Busy, UploadStarts, NewUpdate,
    BeginSession, slaveVars, masterVars, flashVars, Nodes
<1>3. Busy'
  BY UpdateAssumption DEF IInv, TypeOK, Busy, Writers, UploadStarts, NewUpdate,
    BeginSession, slaveVars, masterVars, flashVars, Nodes
<1>4. Current'
  <2>1. HeartbeatsCurrent'
    BY UpdateAssumption DEF IInv, TypeOK, Current, HeartbeatsCurrent, UploadStarts,
      NewUpdate, BeginSession, slaveVars, masterVars, flashVars, Nodes
  <2>2. OffersCurrent'
    BY UpdateAssumption DEF IInv, TypeOK, Busy, Current, HeartbeatsCurrent,
      OffersCurrent, UploadStarts, NewUpdate, BeginSession, slaveVars, masterVars,
      flashVars, Nodes
  <2>3. ImagesCurrent'
    BY UpdateAssumption DEF IInv, TypeOK, Busy, Current, OffersCurrent, ImagesCurrent,
      UploadStarts, NewUpdate, BeginSession, slaveVars, masterVars, flashVars, Nodes
  <2> QED BY <2>1, <2>2, <2>3 DEF Current
<1>5. Kept
  BY KeptSame DEF UploadStarts, NewUpdate, BeginSession, flashVars
<1> QED BY <1>1, <1>2, <1>3, <1>4, <1>5 DEF IInv

LEMMA UploadBlockInv ==
  ASSUME IInv, UploadBlock PROVE IInv' /\ Kept
<1>1. TypeOK'
  BY UpdateAssumption DEF IInv, TypeOK, Writers, UploadBlock, WriteBlock, slaveVars,
    masterVars, flashVars, Nodes
<1>2. CommittedWhole'
  BY UpdateAssumption DEF IInv, TypeOK, CommittedWhole, Busy, UploadBlock, WriteBlock,
    slaveVars, masterVars, flashVars, Nodes
<1>3. Busy'
  BY UpdateAssumption DEF IInv, TypeOK, Busy, Writers, UploadBlock, WriteBlock,
    slaveVars, masterVars, flashVars, Nodes
<1>4. Current'
  <2>1. HeartbeatsCurrent'
    BY UpdateAssumption DEF IInv, TypeOK, Current, HeartbeatsCurrent, UploadBlock,
      WriteBlock, slaveVars, masterVars, flashVars, Nodes
  <2>2. OffersCurrent'
    BY UpdateAssumption DEF IInv, TypeOK, Busy, Current, HeartbeatsCurrent,
      OffersCurrent, UploadBlock, WriteBlock, slaveVars, masterVars, flashVars, Nodes
  <2>3. ImagesCurrent'
    BY UpdateAssumption DEF IInv, TypeOK, Busy, Current, OffersCurrent, ImagesCurrent,
      UploadBlock, WriteBlock, slaveVars, masterVars, flashVars, Nodes
  <2> QED BY <2>1, <2>2, <2>3 DEF Current
<1>5. Kept
  BY KeptSame DEF UploadBlock, WriteBlock, flashVars
<1> QED BY <1>1, <1>2, <1>3, <1>4, <1>5 DEF IInv

LEMMA UploadCompletesInv ==
  ASSUME IInv, UploadCompletes PROVE IInv' /\ Kept
<1>1. TypeOK'
  BY UpdateAssumption DEF IInv, TypeOK, Writers, UploadCompletes, EndSession,
    slaveVars, masterVars, flashVars, Nodes
<1>2. CommittedWhole'
  BY UpdateAssumption DEF IInv, TypeOK, CommittedWhole, Busy, UploadCompletes,
    EndSession, slaveVars, masterVars, flashVars, Nodes
<1>3. Busy'
  BY UpdateAssumption DEF IInv, TypeOK, Busy, Writers, UploadCompletes, EndSession,
    slaveVars, masterVars, flashVars, Nodes
<1>4. Current'
  <2>1. HeartbeatsCurrent'
    BY UpdateAssumption DEF IInv, TypeOK, Current, HeartbeatsCurrent, UploadCompletes,
      EndSession, slaveVars, masterVars, flashVars, Nodes
  <2>2. OffersCurrent'
    BY UpdateAssumption DEF IInv, TypeOK, Busy, Current, HeartbeatsCurrent,
      OffersCurrent, UploadCompletes, EndSession, slaveVars, masterVars, flashVars,
      Nodes
  <2>3. ImagesCurrent'
    BY UpdateAssumption DEF IInv, TypeOK, Busy, Current, OffersCurrent, ImagesCurrent,
      UploadCompletes, EndSession, slaveVars, masterVars, flashVars, Nodes
  <2> QED BY <2>1, <2>2, <2>3 DEF Current
<1>5. Kept
  BY KeptSame DEF UploadCompletes, EndSession, flashVars
<1> QED BY <1>1, <1>2, <1>3, <1>4, <1>5 DEF IInv

LEMMA UploadFailsInv ==
  ASSUME IInv, UploadFails PROVE IInv' /\ Kept
<1>a. UNCHANGED <<running, spare, committed, slaveVars, up, served, task, rebootTimer, net,
                 updates>>
  BY DEF UploadFails, AbortSession, flashVars
<1>b. session' \in [Nodes -> Writers \cup {NoSession}]
  <2>1. CASE UNCHANGED flashVars
    BY <2>1 DEF IInv, TypeOK, flashVars
  <2>2. CASE AbortSession(Master)
    BY <2>2 DEF IInv, TypeOK, AbortSession, Nodes
  <2> QED BY <2>1, <2>2 DEF UploadFails
<1>c. faults' \in 0..MaxFaults /\ httpd' = "idle"
  BY UpdateAssumption DEF IInv, TypeOK, UploadFails, Fault
<1>1. TypeOK'
  BY <1>a, <1>b, <1>c, Zenon DEF IInv, TypeOK, slaveVars
<1>2. CommittedWhole'
  BY UpdateAssumption DEF IInv, TypeOK, CommittedWhole, Busy, UploadFails, Fault, AbortSession,
    slaveVars, masterVars, flashVars, Nodes
<1>3. Busy'
  BY UpdateAssumption DEF IInv, TypeOK, Busy, Writers, UploadFails, Fault, AbortSession, slaveVars,
    masterVars, flashVars, Nodes
<1>4. Current'
  <2>1. HeartbeatsCurrent'
    BY <1>a, Zenon DEF IInv, Current, HeartbeatsCurrent
  <2>2. OffersCurrent'
    BY UpdateAssumption DEF IInv, TypeOK, Busy, Current, HeartbeatsCurrent,
      OffersCurrent, UploadFails, Fault, AbortSession, slaveVars, masterVars, flashVars, Nodes
  <2>3. ImagesCurrent'
    BY UpdateAssumption DEF IInv, TypeOK, Busy, Current, OffersCurrent, ImagesCurrent,
      UploadFails, Fault, AbortSession, slaveVars, masterVars, flashVars, Nodes
  <2> QED BY <2>1, <2>2, <2>3 DEF Current
<1>5. Kept
  BY KeptSame DEF UploadFails, Fault, AbortSession, flashVars
<1> QED BY <1>1, <1>2, <1>3, <1>4, <1>5 DEF IInv

LEMMA GithubStartsInv ==
  ASSUME IInv, NEW t \in Tasks, GithubStarts(t) PROVE IInv' /\ Kept
<1>1. TypeOK'
  BY UpdateAssumption DEF IInv, TypeOK, Writers, GithubStarts, NewUpdate, slaveVars,
    masterVars, flashVars, Nodes
<1>2. CommittedWhole'
  BY UpdateAssumption DEF IInv, TypeOK, CommittedWhole, Busy, GithubStarts, NewUpdate,
    slaveVars, masterVars, flashVars, Nodes
<1>3. Busy'
  BY UpdateAssumption DEF IInv, TypeOK, Busy, Writers, GithubStarts, NewUpdate,
    slaveVars, masterVars, flashVars, Nodes
<1>4. Current'
  <2>1. HeartbeatsCurrent'
    BY UpdateAssumption DEF IInv, TypeOK, Current, HeartbeatsCurrent, GithubStarts,
      NewUpdate, slaveVars, masterVars, flashVars, Nodes
  <2>2. OffersCurrent'
    BY UpdateAssumption DEF IInv, TypeOK, Busy, Current, HeartbeatsCurrent,
      OffersCurrent, GithubStarts, NewUpdate, slaveVars, masterVars, flashVars, Nodes
  <2>3. ImagesCurrent'
    BY UpdateAssumption DEF IInv, TypeOK, Busy, Current, OffersCurrent, ImagesCurrent,
      GithubStarts, NewUpdate, slaveVars, masterVars, flashVars, Nodes
  <2> QED BY <2>1, <2>2, <2>3 DEF Current
<1>5. Kept
  BY KeptSame DEF GithubStarts, NewUpdate, flashVars
<1> QED BY <1>1, <1>2, <1>3, <1>4, <1>5 DEF IInv

LEMMA GithubDownloadsInv ==
  ASSUME IInv, NEW t \in Tasks, NEW b \in Builds, GithubDownloads(t, b) PROVE IInv' /\ Kept
<1>1. TypeOK'
  BY UpdateAssumption DEF IInv, TypeOK, Writers, GithubDownloads, BeginSession,
    slaveVars, masterVars, flashVars, Nodes
<1>2. CommittedWhole'
  BY UpdateAssumption DEF IInv, TypeOK, CommittedWhole, Busy, GithubDownloads,
    BeginSession, slaveVars, masterVars, flashVars, Nodes
<1>3. Busy'
  BY UpdateAssumption DEF IInv, TypeOK, Busy, Writers, GithubDownloads, BeginSession,
    slaveVars, masterVars, flashVars, Nodes
<1>4. Current'
  <2>1. HeartbeatsCurrent'
    BY UpdateAssumption DEF IInv, TypeOK, Current, HeartbeatsCurrent, GithubDownloads,
      BeginSession, slaveVars, masterVars, flashVars, Nodes
  <2>2. OffersCurrent'
    BY UpdateAssumption DEF IInv, TypeOK, Busy, Current, HeartbeatsCurrent,
      OffersCurrent, GithubDownloads, BeginSession, slaveVars, masterVars, flashVars,
      Nodes
  <2>3. ImagesCurrent'
    BY UpdateAssumption DEF IInv, TypeOK, Busy, Current, OffersCurrent, ImagesCurrent,
      GithubDownloads, BeginSession, slaveVars, masterVars, flashVars, Nodes
  <2> QED BY <2>1, <2>2, <2>3 DEF Current
<1>5. Kept
  BY KeptSame DEF GithubDownloads, BeginSession, flashVars
<1> QED BY <1>1, <1>2, <1>3, <1>4, <1>5 DEF IInv

LEMMA GithubBlockInv ==
  ASSUME IInv, NEW t \in Tasks, GithubBlock(t) PROVE IInv' /\ Kept
<1>1. TypeOK'
  BY UpdateAssumption DEF IInv, TypeOK, Writers, GithubBlock, WriteBlock, slaveVars,
    masterVars, flashVars, Nodes
<1>2. CommittedWhole'
  BY UpdateAssumption DEF IInv, TypeOK, CommittedWhole, Busy, GithubBlock, WriteBlock,
    slaveVars, masterVars, flashVars, Nodes
<1>3. Busy'
  BY UpdateAssumption DEF IInv, TypeOK, Busy, Writers, GithubBlock, WriteBlock,
    slaveVars, masterVars, flashVars, Nodes
<1>4. Current'
  <2>1. HeartbeatsCurrent'
    BY UpdateAssumption DEF IInv, TypeOK, Current, HeartbeatsCurrent, GithubBlock,
      WriteBlock, slaveVars, masterVars, flashVars, Nodes
  <2>2. OffersCurrent'
    BY UpdateAssumption DEF IInv, TypeOK, Busy, Current, HeartbeatsCurrent,
      OffersCurrent, GithubBlock, WriteBlock, slaveVars, masterVars, flashVars, Nodes
  <2>3. ImagesCurrent'
    BY UpdateAssumption DEF IInv, TypeOK, Busy, Current, OffersCurrent, ImagesCurrent,
      GithubBlock, WriteBlock, slaveVars, masterVars, flashVars, Nodes
  <2> QED BY <2>1, <2>2, <2>3 DEF Current
<1>5. Kept
  BY KeptSame DEF GithubBlock, WriteBlock, flashVars
<1> QED BY <1>1, <1>2, <1>3, <1>4, <1>5 DEF IInv

LEMMA GithubCompletesInv ==
  ASSUME IInv, NEW t \in Tasks, GithubCompletes(t) PROVE IInv' /\ Kept
<1>1. TypeOK'
  BY UpdateAssumption DEF IInv, TypeOK, Writers, GithubCompletes, EndSession,
    slaveVars, masterVars, flashVars, Nodes
<1>2. CommittedWhole'
  BY UpdateAssumption DEF IInv, TypeOK, CommittedWhole, Busy, GithubCompletes,
    EndSession, slaveVars, masterVars, flashVars, Nodes
<1>3. Busy'
  BY UpdateAssumption DEF IInv, TypeOK, Busy, Writers, GithubCompletes, EndSession,
    slaveVars, masterVars, flashVars, Nodes
<1>4. Current'
  <2>1. HeartbeatsCurrent'
    BY UpdateAssumption DEF IInv, TypeOK, Current, HeartbeatsCurrent, GithubCompletes,
      EndSession, slaveVars, masterVars, flashVars, Nodes
  <2>2. OffersCurrent'
    BY UpdateAssumption DEF IInv, TypeOK, Busy, Current, HeartbeatsCurrent,
      OffersCurrent, GithubCompletes, EndSession, slaveVars, masterVars, flashVars,
      Nodes
  <2>3. ImagesCurrent'
    BY UpdateAssumption DEF IInv, TypeOK, Busy, Current, OffersCurrent, ImagesCurrent,
      GithubCompletes, EndSession, slaveVars, masterVars, flashVars, Nodes
  <2> QED BY <2>1, <2>2, <2>3 DEF Current
<1>5. Kept
  BY KeptSame DEF GithubCompletes, EndSession, flashVars
<1> QED BY <1>1, <1>2, <1>3, <1>4, <1>5 DEF IInv

LEMMA GithubFailsInv ==
  ASSUME IInv, NEW t \in Tasks, GithubFails(t) PROVE IInv' /\ Kept
<1>1. TypeOK'
  BY UpdateAssumption DEF IInv, TypeOK, Writers, GithubFails, Fault, AbortSession,
    slaveVars, masterVars, flashVars, Nodes
<1>2. CommittedWhole'
  BY UpdateAssumption DEF IInv, TypeOK, CommittedWhole, Busy, GithubFails, Fault,
    AbortSession, slaveVars, masterVars, flashVars, Nodes
<1>3. Busy'
  BY UpdateAssumption DEF IInv, TypeOK, Busy, Writers, GithubFails, Fault,
    AbortSession, slaveVars, masterVars, flashVars, Nodes
<1>4. Current'
  <2>1. HeartbeatsCurrent'
    BY UpdateAssumption DEF IInv, TypeOK, Current, HeartbeatsCurrent, GithubFails,
      Fault, AbortSession, slaveVars, masterVars, flashVars, Nodes
  <2>2. OffersCurrent'
    BY UpdateAssumption DEF IInv, TypeOK, Busy, Current, HeartbeatsCurrent,
      OffersCurrent, GithubFails, Fault, AbortSession, slaveVars, masterVars, flashVars,
      Nodes
  <2>3. ImagesCurrent'
    BY UpdateAssumption DEF IInv, TypeOK, Busy, Current, OffersCurrent, ImagesCurrent,
      GithubFails, Fault, AbortSession, slaveVars, masterVars, flashVars, Nodes
  <2> QED BY <2>1, <2>2, <2>3 DEF Current
<1>5. Kept
  BY KeptSame DEF GithubFails, Fault, AbortSession, flashVars
<1> QED BY <1>1, <1>2, <1>3, <1>4, <1>5 DEF IInv

LEMMA MasterGoesDownInv ==
  ASSUME IInv, NEW told \in BOOLEAN, MasterGoesDown(told) PROVE IInv' /\ Kept
<1>1. TypeOK'
  <2>1. net' \subseteq Datagrams
    BY DEF IInv, TypeOK, MasterGoesDown, Send, Datagrams
  <2>2. faults' \in 0..MaxFaults
    BY UpdateAssumption DEF IInv, TypeOK, MasterGoesDown, Fault
  <2>3. session' \in [Nodes -> Writers \cup {NoSession}] /\ link' \in [Slaves -> BOOLEAN]
    BY DEF IInv, TypeOK, MasterGoesDown
  <2>4. /\ httpd' \in Slaves \cup {"idle", "upload"}
        /\ task' \in [Tasks -> {"none", "query", "flash", "restart"}]
    BY DEF MasterGoesDown
  <2>5. up' \in BOOLEAN /\ rebootTimer' \in BOOLEAN
    BY Zenon DEF MasterGoesDown
  <2>6. UNCHANGED <<running, spare, committed, fetcher, otaFlag, late, served, updates>>
    BY DEF MasterGoesDown
  <2> QED
    BY <2>1, <2>2, <2>3, <2>4, <2>5, <2>6, Zenon DEF IInv, TypeOK
<1>2. CommittedWhole'
  BY UpdateAssumption DEF IInv, TypeOK, CommittedWhole, Busy, MasterGoesDown, Fault,
    slaveVars, masterVars, flashVars, Nodes
<1>3. Busy'
  BY UpdateAssumption DEF IInv, TypeOK, Busy, Writers, MasterGoesDown, Fault,
    slaveVars, masterVars, flashVars, Nodes
<1>4. Current'
  <2>1. HeartbeatsCurrent'
    BY UpdateAssumption DEF IInv, TypeOK, Current, HeartbeatsCurrent, MasterGoesDown,
      Fault, Send, HeartbeatOf, OtaAvailable, RebootOf, HeartbeatsOf, slaveVars,
      masterVars, flashVars, Nodes
  <2>2. OffersCurrent'
    BY UpdateAssumption DEF IInv, TypeOK, Busy, Current, HeartbeatsCurrent,
      OffersCurrent, MasterGoesDown, Fault, Send, HeartbeatOf, OtaAvailable, RebootOf,
      HeartbeatsOf, slaveVars, masterVars, flashVars, Nodes
  <2>3. ImagesCurrent'
    BY UpdateAssumption DEF IInv, TypeOK, Busy, Current, OffersCurrent, ImagesCurrent,
      MasterGoesDown, Fault, slaveVars, masterVars, flashVars, Nodes
  <2> QED BY <2>1, <2>2, <2>3 DEF Current
<1>5. Kept
  BY KeptSame DEF MasterGoesDown, Fault, flashVars
<1> QED BY <1>1, <1>2, <1>3, <1>4, <1>5 DEF IInv

LEMMA MasterIsUpInv ==
  ASSUME IInv, NEW readable \in BOOLEAN, MasterIsUp(readable) PROVE IInv' /\ Kept
<1>1. TypeOK'
  BY UpdateAssumption DEF IInv, TypeOK, Writers, MasterIsUp, Fault, Boot, Send,
    HeartbeatOf, OtaAvailable, RebootOf, HeartbeatsOf, Datagrams, slaveVars, masterVars,
    flashVars, Nodes
<1>2. CommittedWhole'
  BY UpdateAssumption DEF IInv, TypeOK, CommittedWhole, Busy, MasterIsUp, Fault, Boot,
    slaveVars, masterVars, flashVars, Nodes
<1>3. Busy'
  BY UpdateAssumption DEF IInv, TypeOK, Busy, Writers, MasterIsUp, Fault, Boot,
    slaveVars, masterVars, flashVars, Nodes
<1>4. Current'
  <2>1. HeartbeatsCurrent'
    BY UpdateAssumption DEF IInv, TypeOK, Current, HeartbeatsCurrent, MasterIsUp,
      Fault, Boot, Send, HeartbeatOf, OtaAvailable, RebootOf, HeartbeatsOf, slaveVars,
      masterVars, flashVars, Nodes
  <2>2. OffersCurrent'
    BY UpdateAssumption DEF IInv, TypeOK, Busy, Current, HeartbeatsCurrent,
      OffersCurrent, MasterIsUp, Fault, Boot, Send, HeartbeatOf, OtaAvailable, RebootOf,
      HeartbeatsOf, slaveVars, masterVars, flashVars, Nodes
  <2>3. ImagesCurrent'
    BY UpdateAssumption DEF IInv, TypeOK, Busy, Current, OffersCurrent, ImagesCurrent,
      MasterIsUp, Fault, Boot, slaveVars, masterVars, flashVars, Nodes
  <2> QED BY <2>1, <2>2, <2>3 DEF Current
<1>5. Kept
  <2>1. \A s \in Slaves : running'[s] = running[s] /\ running[s] \in Nat
    BY UpdateAssumption DEF IInv, TypeOK, MasterIsUp, Boot, Nodes
  <2> QED BY <2>1 DEF Kept
<1> QED BY <1>1, <1>2, <1>3, <1>4, <1>5 DEF IInv
-----------------------------------------------------------------------------
\* Every step keeps the invariant and downgrades nobody.
LEMMA StepInv == IInv /\ [Next]_vars => IInv' /\ Kept
<1> SUFFICES ASSUME IInv, [Next]_vars PROVE IInv' /\ Kept
  OBVIOUS
<1>1. CASE \E s \in Slaves : SlaveNext(s)
  <2>1. PICK s \in Slaves : SlaveNext(s)
    BY <1>1
  <2> QED
    BY <2>1, HeartbeatInv, RecvHeartbeatInv, RecvOtaInv, FetchStartsInv, FetchNotFoundInv,
       FetchBlockInv, FetchCompletesInv, FetchFailsInv, SlaveBootsInv, Zenon DEF SlaveNext
<1>2. CASE \E m \in net : Lose(m)
  BY <1>2, LoseInv
<1>3. CASE MasterNext
  BY <1>3, UploadStartsInv, UploadBlockInv, UploadCompletesInv, UploadFailsInv, GithubStartsInv,
     GithubDownloadsInv, GithubBlockInv, GithubCompletesInv, GithubFailsInv, MasterGoesDownInv,
     MasterIsUpInv, Zenon DEF MasterNext
<1>4. CASE UNCHANGED vars
  <2>1. UNCHANGED <<running, spare, committed, session, fetcher, otaFlag, link, late, up, served, httpd,
                    task, rebootTimer, net, updates, faults>>
    BY <1>4 DEF vars, flashVars, slaveVars, masterVars
  <2>2. TypeOK' /\ CommittedWhole' /\ Busy'
    BY <2>1, Zenon DEF IInv, TypeOK, CommittedWhole, Busy
  <2>3. Current'
    BY <2>1, Zenon DEF IInv, Current, HeartbeatsCurrent, OffersCurrent, ImagesCurrent
  <2> QED
    BY <2>1, <2>2, <2>3, KeptSame DEF IInv
<1> QED
  BY <1>1, <1>2, <1>3, <1>4 DEF Next

\* The invariant holds in every reachable state.
LEMMA Invariance == Spec => []IInv
  BY InitInv, StepInv, PTL DEF Spec

\* Type correctness: a transfer never writes more than the image has.
THEOREM UpdateTypeOK == Spec => []TypeOK
<1>1. IInv => TypeOK
  BY DEF IInv
<1> QED BY <1>1, Invariance, PTL

\* A stalled, broken, overlapping or interrupted transfer is never booted
\* (slaveFlashFromUrl, setupOtaRoute, flashFirmwareFromUrl).
THEOREM OnlyWholeImagesBoot == Spec => []CommittedWhole
<1>1. IInv => CommittedWhole
  BY DEF IInv
<1> QED BY <1>1, Invariance, PTL

\* A download that ended has released Update (slaveFlashFromUrl, flashFirmwareFromUrl).
THEOREM SessionsAreReleased == Spec => []SessionReleased
<1>1. IInv => SessionReleased
  BY DEF IInv, Busy, SessionReleased
<1> QED BY <1>1, Invariance, PTL

\* Late and repeated offers bring no older build to a slave (networkLoop), but to one
\* whose attempt to connect began while the master was down (slaveFlashFromUrl).
THEOREM SlavesNeverGoBack == Spec => NeverDowngraded
<1>1. IInv /\ [Next]_vars => [\A s \in Slaves : running'[s] >= running[s] \/ s \in late]_vars
  BY StepInv DEF Kept
<1> QED BY <1>1, Invariance, PTL DEF Spec, NeverDowngraded
=============================================================================
