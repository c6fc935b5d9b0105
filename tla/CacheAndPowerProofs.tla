------------------------ MODULE CacheAndPowerProofs -------------------------
(***************************************************************************)
(* Proofs about the two smallest components, which share nothing:          *)
(*   - SessionCache, for any set of devices and addresses.  The invariant  *)
(*     is the conjunction of the two checked by TLC: LastSeenFound is      *)
(*     inductive together with the types, and does not mention clientIp,   *)
(*     which is why it survives the unlocked write;                        *)
(*   - AcceptorPower, for any bound on the outages.                        *)
(***************************************************************************)
EXTENDS SessionCache, AcceptorPower, TLAPS

\* The invariant of SessionCache.
Inv == TypeOK /\ LastSeenFound

\* The empty cache satisfies the invariant.
LEMMA InitInv == Init => Inv
BY CacheAssumption
DEF Init, Inv, TypeOK, LastSeenFound, FindByIp, NoRequest, Keys

\* What an upsert leaves in the index, address by address.
LEMMA ReindexedAt ==
  ASSUME NEW ip \in Ips, NEW key \in Keys, NEW i \in Ips
  PROVE  /\ i = ip => Reindexed(ip, key)[i] = key
         /\ i # ip => Reindexed(ip, key)[i] \in {index[i], NoKey}
         /\ (i # ip /\ index[i] # key) => Reindexed(ip, key)[i] = index[i]
BY DEF Reindexed

\* The key an upsert works on is a key.
LEMMA KeyForType ==
  ASSUME TypeOK, NEW ip \in Ips, NEW mac \in Macs \cup {NoKey}
  PROVE  KeyFor(ip, mac) \in Keys
BY DEF TypeOK, KeyFor, Keys

\* upsert of any key at any address preserves the invariant.
LEMMA UpsertInv ==
  ASSUME Inv, NEW ip \in Ips \cup {NoIp}, NEW key \in Keys, Upsert(ip, key), UNCHANGED request
  PROVE  Inv'
<1>1. CASE ip = NoIp
  BY <1>1 DEF Upsert, Inv, TypeOK, LastSeenFound, FindByIp
<1>2. CASE ip \in Ips /\ ip # NoIp
  <2>1. /\ known' = known \cup {key}
        /\ index' = Reindexed(ip, key)
        /\ clientIp' = [clientIp EXCEPT ![key] = ip]
        /\ lastAt' = [lastAt EXCEPT ![ip] = key]
        /\ lastIp' = [lastIp EXCEPT ![key] = ip]
    BY <1>2 DEF Upsert
  <2>2. TypeOK'
    <3>1. index' \in [Ips -> Keys \cup {NoKey}]
      BY <2>1 DEF Reindexed, Inv, TypeOK
    <3> QED
      BY <1>2, <2>1, <3>1 DEF Inv, TypeOK, NoRequest
  <2>4. LastSeenFound'
    <3> SUFFICES ASSUME NEW k \in Keys, NEW i \in Ips, lastIp'[k] = i, lastAt'[i] = k
                 PROVE  index'[i] = k
      BY DEF LastSeenFound, FindByIp
    <3>1. CASE i = ip
      BY <1>2, <2>1, <3>1, ReindexedAt DEF Inv, TypeOK
    <3>2. CASE i # ip
      <4>1. k # key
        BY <1>2, <2>1, <3>2 DEF Inv, TypeOK
      <4>2. lastIp[k] = i /\ lastAt[i] = k
        BY <1>2, <2>1, <3>2, <4>1 DEF Inv, TypeOK
      <4>3. index[i] = k
        BY <4>2 DEF Inv, LastSeenFound, FindByIp
      <4> QED
        BY <1>2, <2>1, <3>2, <4>1, <4>3, ReindexedAt
    <3> QED
      BY <3>1, <3>2
  <2> QED
    BY <2>2, <2>4 DEF Inv
<1> QED
  BY <1>1, <1>2, CacheAssumption

\* Every step preserves the invariant, the late write of clientIp included.
LEMMA NextInv == Inv /\ [Next]_vars => Inv'
<1> SUFFICES ASSUME Inv, [Next]_vars PROVE Inv'
  OBVIOUS
<1>1. ASSUME NEW ip \in Ips, NEW mac \in Macs \cup {NoKey}, Portal(ip, mac) PROVE Inv'
  BY <1>1, KeyForType, UpsertInv DEF Portal, Inv
<1>2. ASSUME NEW ip \in Ips \cup {NoIp}, NEW mac \in Macs, Refresh(ip, mac) PROVE Inv'
  BY <1>2, UpsertInv DEF Refresh, Keys
<1>3. ASSUME NEW ip \in Ips, WsFind(ip) PROVE Inv'
  <2>1. TypeOK'
    BY <1>3 DEF WsFind, Inv, TypeOK, FindByIp
  <2> QED
    BY <1>3, <2>1 DEF WsFind, Inv, LastSeenFound, FindByIp
<1>4. CASE WsWrite
  <2>1. TypeOK'
    BY <1>4 DEF WsWrite, Inv, TypeOK
  <2> QED
    BY <1>4, <2>1 DEF WsWrite, Inv, LastSeenFound, FindByIp
<1>5. CASE UNCHANGED vars
  BY <1>5 DEF vars, Inv, TypeOK, LastSeenFound, FindByIp
<1> QED
  BY <1>1, <1>2, <1>3, <1>4, <1>5 DEF Next

\* The invariant holds in every reachable state.
LEMMA AlwaysInv == Spec => []Inv
BY InitInv, NextInv, PTL DEF Spec

\* The entries, the index and the request that is being answered keep their types: the
\* index of SessionCache never leads to anything but a key of an entry.
THEOREM CacheTypeOK == Spec => []TypeOK
<1>1. Inv => TypeOK
  BY DEF Inv
<1> QED
  BY AlwaysInv, <1>1, PTL

\* SessionCache::findByIp finds a device where upsert last recorded it, until
\* another device is recorded there.
THEOREM LookupFindsLastSeen == Spec => []LastSeenFound
<1>1. Inv => LastSeenFound
  BY DEF Inv
<1> QED
  BY AlwaysInv, <1>1, PTL
-----------------------------------------------------------------------------
(* The acceptor and its power.                                             *)

\* The types the proofs need.
PowerTypeOK ==
    /\ ready \in BOOLEAN /\ wasReady \in BOOLEAN
    /\ claim \in {"none", "claimed", "open"}
    /\ note \in {"none", "READY", "ERROR", "START", "STOP"}
    /\ power \in BOOLEAN /\ program \in BOOLEAN
    /\ test \in {"none", "off", "on"}
    /\ boot \in {"web", "tasks", "done"} /\ early \in BOOLEAN
    /\ outages \in Nat

\* A boot test and a coin window exclude each other.
TestOrWindow == test # "none" => claim = "none"

\* Until the first outage loop() has nothing to report, so that only the window, and once
\* the end of setup(), overwrite what LedTask has not seen yet: a window that is open when
\* setup() has ended, or opened later, has its START pending or the acceptor on, and without
\* one the acceptor is off or about to be switched off.
NothingLost ==
    /\ early => claim = "open"
    /\ outages = 0 =>
        /\ boot = "done" => ready
        /\ wasReady /\ note # "ERROR"
        /\ claim = "open" /\ ~early => note = "START" \/ (note = "none" /\ (power \/ program))
        /\ claim # "open" => note # "START"
        /\ claim # "open" /\ note = "none" /\ test = "none" /\ ~program => ~power

\* The inductive invariant.
PowerInv == PowerTypeOK /\ TestOrWindow /\ NothingLost
-----------------------------------------------------------------------------
\* The initial states, those in which setup() starts the web server.
LEMMA PowerInitInv == PowerInit => PowerInv
<1> SUFFICES ASSUME PowerInit PROVE PowerInv OBVIOUS
<1>1. PowerTypeOK  BY DEF PowerInit, PowerTypeOK
<1>2. TestOrWindow  BY DEF PowerInit, TestOrWindow
<1>3. NothingLost  BY DEF PowerInit, NothingLost
<1> QED BY <1>1, <1>2, <1>3 DEF PowerInv

\* Every step keeps the types.
LEMMA PowerTypeStep == PowerInv /\ [PowerNext]_powerVars => PowerTypeOK'
<1> SUFFICES ASSUME PowerInv, [PowerNext]_powerVars PROVE PowerTypeOK' OBVIOUS
<1> USE DEF PowerInv, PowerTypeOK
<1>1. CASE ServiceChanges  BY <1>1 DEF ServiceChanges
<1>2. CASE LoopNotifies \/ SetupTasks  BY <1>2 DEF LoopNotifies, SetupTasks, Notify
<1>8. CASE LedReady
  <2>1. outages' \in Nat
    <3>1. outages' \in {outages, outages + 1}  BY <1>8, Zenon DEF LedReady
    <3> QED BY <3>1
  <2>2. early' \in BOOLEAN
    <3>1. early' = (claim = "open")  BY <1>8, Zenon DEF LedReady
    <3> QED BY <3>1, Zenon
  <2>3. /\ note' = "READY" /\ boot' = "done"
        /\ UNCHANGED <<ready, wasReady, claim, power, program, test>>
    BY <1>8 DEF LedReady, Notify
  <2> QED BY <2>1, <2>2, <2>3
<1>3. CASE Claim \/ OpenWindow \/ CloseWindow
  BY <1>3 DEF Claim, OpenWindow, CloseWindow, Notify
<1>4. CASE LedTask
  <2>1. power' \in BOOLEAN  BY <1>4 DEF LedTask, LedApplies
  <2> QED BY <1>4, <2>1 DEF LedTask
<1>5. CASE LedToggles \/ LedShown  BY <1>5 DEF LedToggles, LedShown
<1>6. CASE Program \/ TestOff \/ TestOn \/ TestEnd
  BY <1>6 DEF Program, TestOff, TestOn, TestEnd
<1>7. CASE UNCHANGED powerVars  BY <1>7 DEF powerVars
<1> QED BY <1>1, <1>2, <1>3, <1>4, <1>5, <1>6, <1>7, <1>8 DEF PowerNext

\* A window is claimed only while no boot test runs, and a boot test begins only while
\* no window is claimed.
LEMMA TestOrWindowStep == PowerInv /\ [PowerNext]_powerVars => TestOrWindow'
<1> SUFFICES ASSUME PowerInv, [PowerNext]_powerVars PROVE TestOrWindow' OBVIOUS
<1> USE DEF PowerInv, PowerTypeOK, TestOrWindow
<1>1. CASE ServiceChanges \/ LoopNotifies \/ SetupTasks \/ LedReady
  BY <1>1 DEF ServiceChanges, LoopNotifies, SetupTasks, LedReady
<1>2. CASE Claim \/ OpenWindow \/ CloseWindow  BY <1>2 DEF Claim, OpenWindow, CloseWindow
<1>3. CASE LedTask \/ LedToggles \/ LedShown  BY <1>3 DEF LedTask, LedToggles, LedShown
<1>4. CASE Program \/ TestOff \/ TestOn \/ TestEnd
  BY <1>4 DEF Program, TestOff, TestOn, TestEnd
<1>5. CASE UNCHANGED powerVars  BY <1>5 DEF powerVars
<1> QED BY <1>1, <1>2, <1>3, <1>4, <1>5 DEF PowerNext

\* Without an outage no step loses a START, a STOP or the power they stand for.
LEMMA NothingLostStep == PowerInv /\ [PowerNext]_powerVars => NothingLost'
<1> SUFFICES ASSUME PowerInv, [PowerNext]_powerVars PROVE NothingLost' OBVIOUS
<1> USE DEF PowerInv, PowerTypeOK, NothingLost
\* Once setup() has ended, a change of the service is the first outage or comes after one.
<1>1. CASE ServiceChanges
  <2>1. ready => outages' # 0  BY <1>1 DEF ServiceChanges
  <2>2. ~ready => outages # 0 \/ boot # "done"  OBVIOUS
  <2>3. outages' = 0 => outages = 0 /\ boot # "done"  BY <1>1, <2>1, <2>2 DEF ServiceChanges
  <2>4. /\ UNCHANGED <<wasReady, claim, note, power, program, test, boot, early>>
    BY <1>1 DEF ServiceChanges
  <2> QED BY <2>3, <2>4
<1>2. CASE LoopNotifies
  <2>1. outages # 0 /\ UNCHANGED <<outages, early, claim>>  BY <1>2 DEF LoopNotifies
  <2> QED BY <2>1
<1>11. CASE SetupTasks  BY <1>11 DEF SetupTasks
\* The READY that ends setup() finds a window open, or leaves the acceptor off.
<1>12. CASE LedReady
  <2>1. /\ UNCHANGED <<ready, wasReady, claim, power, program, test>>
        /\ boot' = "done" /\ note' = "READY" /\ early' = (claim = "open")
    BY <1>12 DEF LedReady, Notify
  <2>2. outages' = 0 => ready /\ outages = 0
    <3>1. outages' = IF ready THEN outages ELSE outages + 1  BY <1>12, Zenon DEF LedReady
    <3> QED BY <3>1
  <2> QED BY <2>1, <2>2
<1>3. CASE Claim  BY <1>3 DEF Claim
<1>4. CASE OpenWindow  BY <1>4 DEF OpenWindow, Notify
<1>5. CASE CloseWindow  BY <1>5 DEF CloseWindow, Notify
\* The power follows the notification that LedTask takes.
<1>6. CASE LedTask
  <2>1. /\ note' = "none" /\ claim' = claim /\ program' = program
        /\ UNCHANGED <<outages, ready, wasReady, boot, early>>
    BY <1>6 DEF LedTask
  <2>2. ~program /\ note # "ERROR" => power' = (note = "START")
    BY <1>6 DEF LedTask, LedApplies
  <2>3. note # "none"  BY <1>6 DEF LedTask
  <2> QED BY <2>1, <2>2, <2>3
<1>7. CASE LedToggles \/ LedShown  BY <1>7 DEF LedToggles, LedShown
<1>8. CASE Program  BY <1>8 DEF Program
\* A boot test leaves the acceptor off, and no window is open while it runs.
<1>9. CASE TestOff \/ TestOn \/ TestEnd
  BY <1>9 DEF TestOff, TestOn, TestEnd, TestOrWindow
<1>10. CASE UNCHANGED powerVars  BY <1>10 DEF powerVars
<1> QED BY <1>1, <1>2, <1>3, <1>4, <1>5, <1>6, <1>7, <1>8, <1>9, <1>10,
          <1>11, <1>12 DEF PowerNext

\* The invariant holds in every reachable state.
LEMMA PowerAlways == PowerSpec => []PowerInv
<1>1. PowerInv /\ [PowerNext]_powerVars => PowerInv'
  BY PowerTypeStep, TestOrWindowStep, NothingLostStep DEF PowerInv
<1> QED BY PowerInitInv, <1>1, PTL DEF PowerSpec
-----------------------------------------------------------------------------
\* From power-up until the first outage the acceptor is off whenever no window is open and LedTask
\* has caught up, in whatever order windows, boot tests and notifications came.
THEOREM AcceptorOffWhenIdle == PowerSpec => []OffWhenIdle
<1>1. PowerInv => OffWhenIdle
  BY DEF PowerInv, PowerTypeOK, NothingLost, OffWhenIdle, Quiet
<1> QED BY PowerAlways, <1>1, PTL

\* Until the first outage the acceptor is on in every window that opens after setup() has
\* ended (its last act, ledReady, switches it off in one that is already open), once LedTask
\* has caught up; windows opened during setup() have it on until then.
THEOREM AcceptorOnInWindow == PowerSpec => []OnInWindow
<1>1. PowerInv => OnInWindow
  BY DEF PowerInv, PowerTypeOK, NothingLost, OnInWindow, Quiet
<1> QED BY PowerAlways, <1>1, PTL
=============================================================================
