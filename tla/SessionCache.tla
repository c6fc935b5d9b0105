---------------------------- MODULE SessionCache ----------------------------
(***************************************************************************)
(* HOTSPOT_SESSION_CACHE: session entries keyed by MAC with an index from  *)
(* IP to MAC.  upsert and the finds hold the cache's mutex, so each is one *)
(* step.  The entries are handed out by reference, and handleWsRequest     *)
(* writes clientIp through such a reference after the mutex is released,   *)
(* while webSocketTask or loop() may be upserting the same entry.          *)
(*                                                                         *)
(* Of an entry only clientIp matters here: it tells upsert which mapping   *)
(* of the index to drop.  Entries are never erased.                        *)
(***************************************************************************)
CONSTANTS
    Macs, Ips,
    NoIp,       \* the empty string as an IP
    NoKey       \* no mapping, and the empty string as a MAC

ASSUME CacheAssumption == NoIp \notin Ips /\ NoKey \notin Macs \cup Ips

\* The keys of _byMac: a MAC, or an IP if upsert was given no MAC and found none.
Keys == Macs \cup Ips

VARIABLES
    known,      \* keys of _byMac
    clientIp,   \* clientIp of every entry
    index,      \* _ipToMac
    request,    \* handleWsRequest between its find and its write: the IP and the entry
    lastAt,     \* history: the key of the last upsert at an IP
    lastIp      \* history: the IP of a key's last upsert

vars == <<known, clientIp, index, request, lastAt, lastIp>>

NoRequest == [ip |-> NoIp, key |-> NoKey]

Init ==
    /\ known = {}
    /\ clientIp = [k \in Keys |-> NoIp]
    /\ index = [ip \in Ips |-> NoKey]
    /\ request = NoRequest
    /\ lastAt = [ip \in Ips |-> NoKey]
    /\ lastIp = [k \in Keys |-> NoIp]

\* findByIp, findByMac.
FindByIp(ip)   == index[ip]
FindByMac(mac) == IF mac \in known THEN mac ELSE NoKey

\* The key upsert works on: the MAC, else the owner of the IP, else the IP itself.
KeyFor(ip, mac) ==
    IF mac # NoKey THEN mac ELSE IF index[ip] # NoKey THEN index[ip] ELSE ip

\* Fault: the previous mapping is dropped without asking whose it is.
ReindexedBlindly(ip, key) ==
    [i \in Ips |-> IF i = ip THEN key
                   ELSE IF i = clientIp[key] THEN NoKey ELSE index[i]]

\* The index after an upsert: the entry's previous mapping goes, if it is still
\* the entry's own, and the IP maps to the entry.
Reindexed(ip, key) ==
    [i \in Ips |-> IF i = ip THEN key
                   ELSE IF i = clientIp[key] /\ index[i] = key THEN NoKey ELSE index[i]]

\* upsert, for the key it has chosen; an empty IP changes no mapping.
Upsert(ip, key) ==
    /\ known' = known \cup {key}
    /\ IF ip = NoIp
         THEN UNCHANGED <<clientIp, index, lastAt, lastIp>>
         ELSE /\ index' = Reindexed(ip, key)
              /\ clientIp' = [clientIp EXCEPT ![key] = ip]
              /\ lastAt' = [lastAt EXCEPT ![ip] = key]
              /\ lastIp' = [lastIp EXCEPT ![key] = ip]
-----------------------------------------------------------------------------
\* handleRoot and handleGetStatus seed the cache.  handleRoot never gets here
\* without a MAC; a status request may carry an empty one.  They run on the HTTP
\* task, which is also the one that serves WebSocket frames.
Portal(ip, mac) ==
    /\ request = NoRequest
    /\ Upsert(ip, KeyFor(ip, mac))
    /\ UNCHANGED request

\* One client of refreshHotspotSessionCache, on webSocketTask or in loop(): an
\* entry that is new needs an IP.
Refresh(ip, mac) ==
    /\ ip = NoIp => FindByMac(mac) # NoKey
    /\ Upsert(ip, mac)
    /\ UNCHANGED request

\* Fault: a frame from an address nobody has been seen at is not refused.
WsFindUnchecked(ip) ==
    /\ request = NoRequest
    /\ request' = [ip |-> ip, key |-> FindByIp(ip)]
    /\ UNCHANGED <<known, clientIp, index, lastAt, lastIp>>

\* handleWsRequest finds the session of the address the frame came from ...
WsFind(ip) ==
    /\ request = NoRequest
    /\ FindByIp(ip) # NoKey
    /\ request' = [ip |-> ip, key |-> FindByIp(ip)]
    /\ UNCHANGED <<known, clientIp, index, lastAt, lastIp>>

\* ... and writes the address to it.
WsWrite ==
    /\ request # NoRequest
    /\ clientIp' = [clientIp EXCEPT ![request.key] = request.ip]
    /\ request' = NoRequest
    /\ UNCHANGED <<known, index, lastAt, lastIp>>

Next ==
    \/ \E ip \in Ips, mac \in Macs \cup {NoKey} : Portal(ip, mac)
    \/ \E ip \in Ips \cup {NoIp}, mac \in Macs : Refresh(ip, mac)
    \/ \E ip \in Ips : WsFind(ip)
    \/ WsWrite

Spec == Init /\ [][Next]_vars
-----------------------------------------------------------------------------
TypeOK ==
    /\ known \in SUBSET Keys
    /\ clientIp \in [Keys -> Ips \cup {NoIp}]
    /\ index \in [Ips -> Keys \cup {NoKey}]
    /\ request = NoRequest \/ request \in [ip : Ips, key : Keys]
    /\ lastAt \in [Ips -> Keys \cup {NoKey}]
    /\ lastIp \in [Keys -> Ips \cup {NoIp}]

\* A device is found at the address it was last seen at, unless another one has
\* been seen there since: no upsert for another device, and no late write of
\* clientIp, ever takes its mapping away.
LastSeenFound ==
    \A k \in Keys, ip \in Ips : (lastIp[k] = ip /\ lastAt[ip] = k) => FindByIp(ip) = k
=============================================================================
