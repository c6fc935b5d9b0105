-------------------------- MODULE AccessTimeProofs --------------------------
(***************************************************************************)
(* Proofs about AccessTime, for any clock, prices, queue length and bounds *)
(* on purchases and restarts.                                              *)
(***************************************************************************)
EXTENDS AccessTime, TLAPS

JobKinds == {"pause", "resume", "refresh"}

\* What is parked is on flash, in the cache and in the hands of a resume.
ParkedHeld == parked > 0 /\ cause = "none" => Held

\* A pause is of a client the cache knows, and a client it does not know has no time in it.
PauseKnown ==
    /\ ws.pc \in {"save", "disconnect", "paused"} => cache.known
    /\ ~cache.known => cache.paused = 0

\* A pause writes its whole time to flash, with nothing else parked, before it
\* disconnects the client, or its cause is noted.
PauseOnFlash ==
    /\ ws.pc = "disconnect" /\ cause = "none" => parked = 0 /\ file = ws.amount
    /\ ws.pc = "paused" /\ cause = "none" /\ parked > 0 => ws.amount = parked

\* The file is deleted only when nothing is parked, or the loss has been noted.
UnlinkHarmless ==
    /\ ws.pc = "pauseFailed" => parked = 0 \/ cause # "none"
    /\ ws.pc \in {"resumed", "unlink"} => parked = 0

\* The inductive invariant.
IInv == TypeOK /\ ParkedHeld /\ PauseKnown /\ PauseOnFlash /\ UnlinkHarmless
-----------------------------------------------------------------------------
\* What a job that is sent to the queue does to it.
LEMMA EnqueueFacts ==
  ASSUME TypeOK, NEW job \in JobKinds, Enqueue(job)
  PROVE  /\ jobs' \in Seq(JobKinds) /\ Len(jobs') <= JobQueueSize
         /\ DOMAIN jobs \subseteq DOMAIN jobs'
         /\ \A i \in DOMAIN jobs : jobs'[i] = jobs[i]
         /\ \A i \in DOMAIN jobs' : i \in DOMAIN jobs \/ (i = Len(jobs) + 1 /\ jobs'[i] = job)
<1> USE AccessAssumption DEF TypeOK, JobKinds
<1>1. CASE jobs' = jobs  BY <1>1
<1>2. CASE jobs' = Append(jobs, job) /\ Len(jobs) < JobQueueSize  BY <1>2
<1> QED BY <1>1, <1>2 DEF Enqueue

\* What webSocketTask leaves in the queue when it takes a job.
LEMMA TailFacts ==
  ASSUME TypeOK, jobs # << >>, jobs' = Tail(jobs)
  PROVE  /\ jobs' \in Seq(JobKinds) /\ Len(jobs') <= JobQueueSize
         /\ 1 \in DOMAIN jobs /\ Head(jobs) = jobs[1]
         /\ \A i \in DOMAIN jobs' :
              i \in Nat \ {0} /\ i + 1 \in DOMAIN jobs /\ jobs'[i] = jobs[i + 1]
  BY AccessAssumption DEF TypeOK, JobKinds

\* The initial states.
LEMMA InitInv == Init => IInv
<1> SUFFICES ASSUME Init PROVE IInv OBVIOUS
<1> USE AccessAssumption DEF Init, NoSession, IdleWs, Causes
<1>1. TypeOK
  <2>1. cache \in [known : BOOLEAN, end : Nat, hasId : BOOLEAN, paused : Nat]  OBVIOUS
  <2>2. ws \in [pc : WsPcs, amount : Nat, end : Nat]  BY DEF WsPcs
  <2>3. jobs \in Seq({"pause", "resume", "refresh"}) /\ Len(jobs) <= JobQueueSize  OBVIOUS
  <2> QED BY <2>1, <2>2, <2>3 DEF TypeOK
<1>2. ParkedHeld  BY DEF ParkedHeld
<1>3. PauseKnown  BY DEF PauseKnown
<1>4. PauseOnFlash /\ UnlinkHarmless  BY DEF PauseOnFlash, UnlinkHarmless
<1> QED BY <1>1, <1>2, <1>3, <1>4 DEF IInv
-----------------------------------------------------------------------------
\* Every step of the clock, the controller and the three tasks keeps the types.
LEMMA TypeStep == TypeOK /\ [Next]_vars => TypeOK'
<1> SUFFICES ASSUME TypeOK, [Next]_vars PROVE TypeOK' OBVIOUS
<1> USE AccessAssumption DEF TypeOK, WsPcs, Causes
<1>1. CASE Tick  BY <1>1 DEF Tick
<1>2. CASE Seed  BY <1>2 DEF Seed, LoadPaused
<1>3. ASSUME NEW job \in JobKinds, Request(job) PROVE TypeOK'
  BY <1>3, EnqueueFacts DEF Request, JobKinds
<1>4. CASE Recheck  BY <1>4, EnqueueFacts DEF Recheck, JobKinds
<1>5. CASE TakePause
  <2>1. jobs' \in Seq(JobKinds) /\ Len(jobs') <= JobQueueSize
    BY <1>5, TailFacts DEF TakePause
  <2>2. ws' \in [pc : WsPcs, amount : Nat, end : Nat]
    BY <1>5 DEF TakePause, IdleWs
  <2> QED BY <1>5, <2>1, <2>2 DEF TakePause, JobKinds
<1>6. CASE TakeResume
  <2>1. jobs' \in Seq(JobKinds) /\ Len(jobs') <= JobQueueSize
    BY <1>6, TailFacts DEF TakeResume
  <2>2. ws' \in [pc : WsPcs, amount : Nat, end : Nat]
    BY <1>6 DEF TakeResume, IdleWs
  <2> QED BY <1>6, <2>1, <2>2 DEF TakeResume, JobKinds
<1>7. CASE TakeRefresh
  BY <1>7, TailFacts DEF TakeRefresh, Goto, JobKinds
<1>8. ASSUME NEW opened \in BOOLEAN, SavePause(opened) PROVE TypeOK'
  <2>1. file' \in Nat /\ cause' \in Causes
    BY <1>8 DEF SavePause
  <2>2. ws' \in [pc : WsPcs, amount : Nat, end : Nat]
    BY <1>8 DEF SavePause, Goto
  <2> QED BY <1>8, <2>1, <2>2 DEF SavePause
<1>9. ASSUME NEW r \in Answers, Disconnect(r) PROVE TypeOK'
  <2>1. parked + ws.amount \in Nat  OBVIOUS
  <2>2. parked' \in {parked, parked + ws.amount} /\ ctl' \in {ctl, now} /\ cause' \in Causes
    BY <1>9, Zenon DEF Disconnect
  <2>3. ws' \in [pc : WsPcs, amount : Nat, end : Nat]  BY <1>9 DEF Disconnect, Goto
  <2> QED BY <1>9, <2>1, <2>2, <2>3 DEF Disconnect
<1>10. CASE PauseDone  BY <1>10 DEF PauseDone, IdleWs
<1>11. CASE PauseFailed  BY <1>11 DEF PauseFailed, IdleWs, DeletePaused
<1>12. ASSUME NEW r \in Answers, Reauth(r) PROVE TypeOK'
  <2>1. ctl' \in Nat  BY <1>12 DEF Reauth
  <2>2. parked' \in Nat /\ cause' \in Causes  BY <1>12 DEF Reauth
  <2>3. ws' \in [pc : WsPcs, amount : Nat, end : Nat]  BY <1>12 DEF Reauth, Goto
  <2> QED BY <1>12, <2>1, <2>2, <2>3 DEF Reauth
<1>13. CASE ResumeDone
  <2>1. cache' \in [known : BOOLEAN, end : Nat, hasId : BOOLEAN, paused : Nat]
    <3>1. now + ws.amount \in Nat  OBVIOUS
    <3> QED BY <1>13, <3>1, Zenon DEF ResumeDone
  <2>2. ws' \in [pc : WsPcs, amount : Nat, end : Nat]  BY <1>13 DEF ResumeDone, Goto
  <2> QED BY <1>13, <2>1, <2>2 DEF ResumeDone
<1>14. CASE Unlink  BY <1>14 DEF Unlink, Goto, DeletePaused
<1>15. ASSUME NEW r \in Answers, Fetch(r) PROVE TypeOK'
  BY <1>15 DEF Fetch, Listed
<1>16. CASE Apply  BY <1>16 DEF Apply, IdleWs, LoadPaused
<1>17. CASE SaleStart  BY <1>17 DEF SaleStart
<1>18. ASSUME NEW r \in Answers, SaleCall(r) PROVE TypeOK'
  <2>1. ctl + Minutes \in Nat /\ now + Minutes \in Nat  OBVIOUS
  <2>2. ctl' \in {ctl, ctl + Minutes, now + Minutes}  BY <1>18, Zenon DEF SaleCall
  <2>3. sale' \in {"idle", "extended", "authed"}  BY <1>18 DEF SaleCall
  <2> QED BY <1>18, <2>1, <2>2, <2>3 DEF SaleCall
<1>19. ASSUME NEW connected \in BOOLEAN, SaleDone(connected) PROVE TypeOK'
  <2>1. jobs' \in Seq(JobKinds) /\ Len(jobs') <= JobQueueSize
    BY <1>19, EnqueueFacts DEF SaleDone, JobKinds
  <2>2. cache' \in [known : BOOLEAN, end : Nat, hasId : BOOLEAN, paused : Nat]
    <3>1. cache.end + Minutes \in Nat /\ now + Minutes \in Nat  OBVIOUS
    <3>2. PICK e \in Nat : cache' = [cache EXCEPT !.end = e]  BY <1>19, <3>1 DEF SaleDone
    <3> QED BY <3>2
  <2> QED BY <1>19, <2>1, <2>2 DEF SaleDone, JobKinds
<1>20. ASSUME Restart, file' \in Nat, cause' \in Causes PROVE TypeOK'
  <2>1. cache' \in [known : BOOLEAN, end : Nat, hasId : BOOLEAN, paused : Nat]
    BY <1>20 DEF Restart, NoSession
  <2>2. ws' \in [pc : WsPcs, amount : Nat, end : Nat]  BY <1>20 DEF Restart, IdleWs
  <2>3. jobs' \in Seq({"pause", "resume", "refresh"}) /\ Len(jobs') <= JobQueueSize
    BY <1>20 DEF Restart
  <2>4. crashes' \in Nat
    <3>1. crashes' = crashes + 1  BY <1>20, Zenon DEF Restart
    <3> QED BY <3>1
  <2>5. sale' = "idle" /\ UNCHANGED <<now, ctl, parked, bought>>
    BY <1>20, Zenon DEF Restart
  <2> QED BY <1>20, <2>1, <2>2, <2>3, <2>4, <2>5
<1>22. CASE Crash \/ FsFlash
  BY <1>20, <1>22 DEF Crash, FsFlash
<1>21. CASE UNCHANGED vars  BY <1>21 DEF vars
<1> HIDE DEF TypeOK, WsPcs, Causes
<1> QED
  BY <1>1, <1>2, <1>3, <1>4, <1>5, <1>6, <1>7, <1>8, <1>9, <1>10, <1>11, <1>12, <1>13,
     <1>14, <1>15, <1>16, <1>17, <1>18, <1>19, <1>21, <1>22 DEF Next, JobKinds

\* No step loses what a pause holds without its cause being noted: not a resume that is
\* refused, a refresh, a page load, a purchase, a second page's requests, or a restart at
\* any point.
LEMMA HeldStep ==
  ASSUME IInv, [Next]_vars
  PROVE  (ParkedHeld /\ PauseKnown /\ PauseOnFlash /\ UnlinkHarmless)'
<1> DEFINE Inv == ParkedHeld /\ PauseKnown /\ PauseOnFlash /\ UnlinkHarmless
<1> SUFFICES Inv' OBVIOUS
<1> USE DEF IInv
\* Nothing that matters is touched.
<1>1. ASSUME UNCHANGED <<file, ws, parked, cause>>, cache'.known = cache.known,
             cache'.paused = cache.paused
      PROVE  Inv'
  BY <1>1 DEF ParkedHeld, Held, PauseKnown, PauseOnFlash, UnlinkHarmless
<1>2. CASE Tick \/ Recheck \/ SaleStart \/ UNCHANGED vars
  BY <1>1, <1>2 DEF Tick, Recheck, SaleStart, vars
<1>3. ASSUME NEW job \in JobKinds, Request(job) PROVE Inv'
  BY <1>1, <1>3 DEF Request
<1>4. ASSUME NEW r \in Answers, SaleCall(r) PROVE Inv'
  BY <1>1, <1>4 DEF SaleCall
<1>5. ASSUME NEW connected \in BOOLEAN, SaleDone(connected) PROVE Inv'
  <2>1. cache'.known = cache.known /\ cache'.paused = cache.paused
    BY <1>5 DEF SaleDone, TypeOK
  <2> QED BY <1>1, <1>5, <2>1 DEF SaleDone
\* A page load takes the time from flash.
<1>6. CASE Seed
  <2>1. /\ UNCHANGED <<file, ws, parked, cause>> /\ cache'.known = TRUE
        /\ cache'.paused = IF cache.paused = 0 THEN file ELSE cache.paused
    BY <1>6 DEF Seed, LoadPaused, TypeOK
  <2>2. CASE cache.known
    BY <2>1, <2>2 DEF ParkedHeld, Held, PauseKnown, PauseOnFlash, UnlinkHarmless, TypeOK
  <2>3. CASE ~cache.known
    BY <2>1, <2>3 DEF ParkedHeld, Held, PauseKnown, PauseOnFlash, UnlinkHarmless, TypeOK
  <2> QED BY <2>2, <2>3
\* webSocketTask moves on between steps that touch neither flash, cache nor history.
<1>7. ASSUME UNCHANGED <<file, cache, parked, cause>>, ws.pc # "paused",
             ws'.pc \in {"idle", "fetch", "apply"}
      PROVE  Inv'
  BY <1>7 DEF ParkedHeld, Held, PauseKnown, PauseOnFlash, UnlinkHarmless
<1>8. CASE TakePause
  <2>1. CASE ws' = IdleWs
    BY <1>7, <1>8, <2>1 DEF TakePause, IdleWs
  <2>2. CASE cache.known /\ ws' = [pc |-> "save", amount |-> cache.end - now, end |-> 0]
    BY <1>8, <2>2 DEF TakePause, ParkedHeld, Held, PauseKnown, PauseOnFlash, UnlinkHarmless
  <2> QED BY <1>8, <2>1, <2>2 DEF TakePause
\* A pause on top of another, or one written short, is noted.
<1>9. ASSUME NEW opened \in BOOLEAN, SavePause(opened) PROVE Inv'
  <2>1. CASE ~opened
    BY <1>7, <1>9, <2>1 DEF SavePause, Goto, TypeOK
  <2>2. CASE opened
    <3>1. /\ ws.pc = "save" /\ ws'.pc = "disconnect" /\ ws'.amount = ws.amount
          /\ UNCHANGED <<cache, parked>>
      BY <1>9, <2>2 DEF SavePause, Goto, TypeOK
    <3>2. cause' = "none" => parked = 0 /\ file' = ws.amount
      BY <1>9, <2>2 DEF SavePause, TypeOK
    <3> QED
      BY <3>1, <3>2 DEF ParkedHeld, PauseKnown, PauseOnFlash, UnlinkHarmless
  <2> QED BY <2>1, <2>2
\* The disconnection parks the time that was put on flash.
<1>10. ASSUME NEW r \in Answers, Disconnect(r) PROVE Inv'
  <2>1. /\ ws.pc = "disconnect" /\ ws'.amount = ws.amount /\ UNCHANGED <<cache, file>>
        /\ ws'.pc = IF r = "ok" THEN "paused" ELSE "pauseFailed"
        /\ parked' \in {parked, parked + ws.amount}
        /\ r = "lost" => cause' # "none"
        /\ r # "lost" => cause' = cause
        /\ r = "refused" => parked' = parked
    BY <1>10 DEF Disconnect, Goto, TookEffect, TypeOK
  <2>2. r \in {"ok", "refused", "lost"}
    BY DEF Answers
  <2>3. cache.known
    BY <2>1 DEF PauseKnown
  <2>4. cause = "none" => parked = 0 /\ file = ws.amount
    BY <2>1 DEF PauseOnFlash
  <2>5. parked' \in Nat /\ ws.amount \in Nat /\ parked \in Nat
    BY <2>1 DEF TypeOK
  <2>6. CASE r = "ok"
    BY <2>1, <2>3, <2>4, <2>5, <2>6
    DEF ParkedHeld, Held, PauseKnown, PauseOnFlash, UnlinkHarmless
  <2>7. CASE r = "refused"
    BY <2>1, <2>3, <2>4, <2>5, <2>7
    DEF ParkedHeld, Held, PauseKnown, PauseOnFlash, UnlinkHarmless
  <2>8. CASE r = "lost"
    BY <2>1, <2>3, <2>8
    DEF ParkedHeld, Held, PauseKnown, PauseOnFlash, UnlinkHarmless
  <2> QED BY <2>2, <2>6, <2>7, <2>8
<1>11. CASE PauseDone
  <2>1. /\ cache'.paused = ws.amount /\ cache'.known = cache.known /\ ws'.pc = "idle"
        /\ ws.pc = "paused" /\ UNCHANGED <<file, parked, cause>>
    BY <1>11 DEF PauseDone, TypeOK, IdleWs
  <2> QED
    BY <2>1 DEF ParkedHeld, Held, PauseKnown, PauseOnFlash, UnlinkHarmless
<1>12. CASE PauseFailed \/ Unlink
  <2>1. /\ parked = 0 \/ cause # "none"
        /\ ws'.pc \in {"idle", "fetch"} /\ UNCHANGED <<cache, parked, cause>>
    BY <1>12 DEF PauseFailed, Unlink, UnlinkHarmless, IdleWs, Goto, TypeOK
  <2> QED
    BY <2>1 DEF ParkedHeld, PauseKnown, PauseOnFlash, UnlinkHarmless
\* A resume has the paused time of the cache in its hands.
<1>13. CASE TakeResume
  <2>1. CASE ws' = IdleWs
    BY <1>7, <1>13, <2>1 DEF TakeResume, IdleWs
  <2>2. CASE cache.known /\ ws' = [pc |-> "reauth", amount |-> cache.paused, end |-> 0]
    <3>1. ws.pc = "idle" /\ UNCHANGED <<file, cache, parked, cause>>
      BY <1>13 DEF TakeResume
    <3> QED
      BY <2>2, <3>1 DEF ParkedHeld, Held, PauseKnown, PauseOnFlash, UnlinkHarmless
  <2> QED BY <1>13, <2>1, <2>2 DEF TakeResume
<1>14. ASSUME NEW r \in Answers, Reauth(r) PROVE Inv'
  <2>1. CASE TookEffect(r)
    <3>1. /\ parked' = 0 /\ ws'.pc \in {"resumed", "idle"} /\ UNCHANGED <<cache, file>>
      BY <1>14, <2>1 DEF Reauth, Goto, TypeOK
    <3> QED
      BY <3>1 DEF ParkedHeld, PauseKnown, PauseOnFlash, UnlinkHarmless
  <2>2. CASE ~TookEffect(r)
    <3>1. /\ ws.pc = "reauth" /\ ws'.pc = "idle" /\ UNCHANGED <<cache, file, parked, cause>>
      BY <1>14, <2>2 DEF Reauth, Goto, TypeOK, TookEffect
    <3> QED BY <1>7, <3>1
  <2> QED BY <2>1, <2>2
<1>15. CASE ResumeDone
  <2>1. /\ parked = 0 /\ UNCHANGED <<file, parked, cause>>
        /\ ws'.pc = "unlink" /\ cache'.known = cache.known /\ cache'.paused = 0
    BY <1>15 DEF ResumeDone, Goto, TypeOK, UnlinkHarmless
  <2> QED
    BY <2>1 DEF ParkedHeld, PauseKnown, PauseOnFlash, UnlinkHarmless
<1>16. CASE TakeRefresh
  BY <1>7, <1>16 DEF TakeRefresh, Goto, TypeOK
<1>17. ASSUME NEW r \in Answers, Fetch(r) PROVE Inv'
  BY <1>7, <1>17 DEF Fetch
\* A refresh keeps the paused time of a known client and reads that of a new one.
<1>18. CASE Apply
  <2>1. /\ UNCHANGED <<file, parked, cause>> /\ ws.pc = "apply" /\ ws'.pc = "idle"
    BY <1>18 DEF Apply, IdleWs
  <2>2. CASE cache' = cache
    BY <1>7, <2>1, <2>2
  <2>3. CASE /\ cache'.known = TRUE
             /\ cache'.paused = IF cache.known THEN cache.paused ELSE file
    <3>1. CASE cache.known
      BY <2>1, <2>3, <3>1 DEF ParkedHeld, Held, PauseKnown, PauseOnFlash, UnlinkHarmless
    <3>2. CASE ~cache.known
      BY <2>1, <2>3, <3>2 DEF ParkedHeld, Held, PauseKnown, PauseOnFlash, UnlinkHarmless
    <3> QED BY <3>1, <3>2
  <2> QED BY <1>18, <2>2, <2>3 DEF Apply, LoadPaused
<1>19. CASE Crash \/ FsFlash
  <2>1. /\ cache'.known = FALSE /\ cache'.paused = 0 /\ ws'.pc = "fetch" /\ parked' = parked
    BY <1>19 DEF Crash, FsFlash, Restart, NoSession, IdleWs
  <2>2. (file' = file /\ cause' = cause) \/ (parked > 0 => cause' # "none")
    BY <1>19 DEF Crash, FsFlash
  <2> QED
    BY <2>1, <2>2 DEF ParkedHeld, Held, PauseKnown, PauseOnFlash, UnlinkHarmless
<1> HIDE DEF IInv, Inv
<1> QED
  BY <1>2, <1>3, <1>4, <1>5, <1>6, <1>8, <1>9, <1>10, <1>11, <1>12, <1>13, <1>14, <1>15,
     <1>16, <1>17, <1>18, <1>19 DEF Next, JobKinds
-----------------------------------------------------------------------------
\* The state of the three tasks, the cache, the queue and the controller keeps its types,
\* and the job queue its bound, however calls are answered.
THEOREM AccessTimeTypeOK == Spec => []TypeOK
<1>1. Init => TypeOK  BY InitInv DEF IInv
<1> QED BY <1>1, TypeStep, PTL DEF Spec

\* The time a pause took from the controller is on flash, all of it, and the cache and a
\* resume under way have the same, until a resume has given it back; unless a second pause
\* came on top of it (processPause does not ask whether one is in force), its file was
\* written short (savePausedSessionFile does not look), a filesystem update wiped it (it is
\* not in PRESERVE), or the answer to the disconnection was lost (processPause deletes it).
THEOREM PausedTimeKept == Spec => []NeverNowhere
<1>1. IInv /\ [Next]_vars => IInv'
  BY TypeStep, HeldStep DEF IInv
<1>2. IInv => NeverNowhere
  BY DEF IInv, ParkedHeld, NeverNowhere
<1> QED BY InitInv, <1>1, <1>2, PTL DEF Spec
=============================================================================
