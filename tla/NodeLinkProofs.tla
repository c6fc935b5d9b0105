--------------------------- MODULE NodeLinkProofs ---------------------------
(***************************************************************************)
(* Proofs about NodeLink, for any set of slaves, clocks, freshness window, *)
(* size of the ring and bounds.                                            *)
(***************************************************************************)
EXTENDS NodeLink, FiniteSetTheorems, TLAPS

Coins == Slaves \X Int
Slots == 0 .. RingSize - 1

\* The types the proofs need.
LinkTypeOK ==
    /\ now \in Nat
    /\ net \subseteq [type : {"START", "END", "COIN"}, ts : Int, node : Slaves]
    /\ seen \in [Slots -> Coins \cup {NoCoin}] /\ idx \in Slots
    /\ DOMAIN passed \subseteq Coins /\ passed \in [DOMAIN passed -> Nat]
    /\ lastCoin \in [Slaves -> Int]

\* What the ring holds was passed on.
RingPassed == \A i \in Slots : seen[i] # NoCoin => seen[i] \in DOMAIN passed

\* The datagram that reports a coin.
Report(c) == Packet("COIN", c[2], c[1])

\* A coin is sent with the time its slave's clock has, so none is dated after the last.
SentByNow ==
    /\ \A s \in Slaves : lastCoin[s] <= now
    /\ \A p \in net : p.type = "COIN" => p.ts <= lastCoin[p.node] + Skew[p.node]

\* The coins of one slave are Gap apart.
Spaced == \A b, c \in Coins :
    Report(b) \in net /\ Report(c) \in net /\ b[1] = c[1] /\ b[2] < c[2] => b[2] + Gap <= c[2]

\* What the ring holds was sent.
RingSent == \A i \in Slots : seen[i] # NoCoin => Report(seen[i]) \in net

\* The slot that will be overwritten first is idx, then come the ones after it.
Older(i, j) == IF (i >= idx) = (j >= idx) THEN i < j ELSE i >= idx

\* D bounds how far a coin's timestamp is ahead of the master's clock when it is
\* passed on: the skew of its slave, or the freshness window if that is smaller.
Ahead(D) == \A i \in Slots : seen[i] # NoCoin => seen[i][2] <= now + D

\* The ring is in the order of arrival: it fills up from the old end, and a coin passed
\* on after another one cannot be much older than it.
InOrder(D) ==
    \A i, j \in Slots : Older(i, j) /\ seen[i] # NoCoin =>
        seen[j] # NoCoin /\ seen[i] # seen[j] /\ seen[i][2] <= seen[j][2] + Fresh + D

\* A coin that was passed on is in the ring or no longer fresh, and was passed on once.
Remembered ==
    \A c \in DOMAIN passed :
        /\ passed[c] = 1
        /\ c[2] + Fresh < now \/ \E i \in Slots : seen[i] = c

\* The inductive invariant.
Inv(D) ==
    /\ LinkTypeOK /\ RingPassed /\ RingSent /\ SentByNow /\ Spaced
    /\ Ahead(D) /\ InOrder(D) /\ Remembered
-----------------------------------------------------------------------------
\* COIN_SEEN_IDX moves to the next slot and wraps at the end of the ring.
LEMMA NextSlot ==
  ASSUME NEW i \in Slots
  PROVE  (i + 1) % RingSize = IF i + 1 = RingSize THEN 0 ELSE i + 1
  BY LinkAssumption DEF Slots

\* The freshness test of networkLoop as two bounds.
LEMMA FreshBounds ==
  ASSUME NEW ts \in Int, NEW clock \in Nat
  PROVE  IsFresh(ts, clock) <=> (clock <= ts + Fresh /\ ts <= clock + Fresh)
  BY LinkAssumption DEF IsFresh

\* Two numbers that \div puts in one bucket of width g are less than g apart.
LEMMA SameBucket ==
  ASSUME NEW a \in Nat, NEW b \in Nat, NEW g \in Nat \ {0}, a \div g = b \div g
  PROVE  a < b + g
<1>1. a = g * (a \div g) + (a % g) /\ a % g < g /\ a % g >= 0 /\ a % g \in Int
  OBVIOUS
<1>2. b = g * (b \div g) + (b % g) /\ b % g < g /\ b % g >= 0 /\ b % g \in Int
  OBVIOUS
<1>3. g * (a \div g) = g * (b \div g) /\ g * (a \div g) \in Int
  OBVIOUS
<1> QED BY <1>1, <1>2, <1>3

\* The buckets of the numbers up to b.
LEMMA Bucket ==
  ASSUME NEW a \in Nat, NEW b \in Nat, NEW g \in Nat \ {0}, a <= b
  PROVE  a \div g \in 0 .. (b \div g) /\ b \div g \in Nat
  OBVIOUS

\* Distinct coins that were sent and whose timestamps lie within Fresh + D of that of a
\* given one are no more than the ring has slots: cut into spans of Gap, the time around
\* it has at most one coin of each slave in a span.
LEMMA RingHoldsFresh ==
  ASSUME NEW D, RingSuffices(D), Spaced, NEW c \in Coins,
         NEW f \in [0 .. RingSize -> Coins],
         \A k \in 0 .. RingSize :
            /\ Report(f[k]) \in net
            /\ f[k][2] <= c[2] + Fresh + D /\ c[2] <= f[k][2] + Fresh + D
  PROVE  \E i, j \in 0 .. RingSize : i # j /\ f[i] = f[j]
<1> DEFINE W == Fresh + D
           low == c[2] - W
           last == (2 * W) \div Gap
           T == Slaves \X (0 .. last)
           g == [k \in 0 .. RingSize |-> <<f[k][1], (f[k][2] - low) \div Gap>>]
<1>1. /\ W \in Nat /\ 2 * W \in Nat /\ low \in Int /\ c[2] \in Int
      /\ RingSize \in Nat /\ Gap \in Nat \ {0}
  BY LinkAssumption DEF RingSuffices, Coins
<1>2. last \in Nat
  BY <1>1, Bucket
<1>3. \A k \in 0 .. RingSize : f[k] = <<f[k][1], f[k][2]>> /\ f[k][1] \in Slaves
  BY DEF Coins
<1>4. \A k \in 0 .. RingSize :
        f[k][2] \in Int /\ f[k][2] - low \in Nat /\ f[k][2] - low <= 2 * W
  <2> SUFFICES ASSUME NEW k \in 0 .. RingSize
               PROVE  f[k][2] \in Int /\ f[k][2] - low \in Nat /\ f[k][2] - low <= 2 * W
    OBVIOUS
  <2> DEFINE x == f[k][2]
  <2>1. x \in Int  BY DEF Coins
  <2>2. x <= c[2] + Fresh + D /\ c[2] <= x + Fresh + D  OBVIOUS
  <2>3. Fresh \in Nat /\ D \in Nat  BY LinkAssumption DEF RingSuffices
  <2> HIDE DEF x
  <2>4. x - low \in Nat /\ x - low <= 2 * W  BY <1>1, <2>1, <2>2, <2>3
  <2> QED BY <2>1, <2>4 DEF x
<1>5. g \in [0 .. RingSize -> T]
  <2> SUFFICES ASSUME NEW k \in 0 .. RingSize
               PROVE  f[k][1] \in Slaves /\ (f[k][2] - low) \div Gap \in 0 .. last
    OBVIOUS
  <2> HIDE DEF low, W
  <2> QED BY <1>1, <1>3, <1>4, Bucket
<1>6. IsFiniteSet(T) /\ Cardinality(T) = Cardinality(Slaves) * (last + 1)
  <2> HIDE DEF last
  <2>1. IsFiniteSet(0 .. last) /\ Cardinality(0 .. last) = last + 1
    BY <1>2, FS_Interval
  <2> QED BY <2>1, FS_Product DEF RingSuffices
<1>7. IsFiniteSet(0 .. RingSize) /\ Cardinality(0 .. RingSize) = RingSize + 1
  BY <1>1, FS_Interval
<1>8. Cardinality(T) < Cardinality(0 .. RingSize)
  <2>1. Cardinality(T) <= RingSize
    BY <1>6 DEF RingSuffices
  <2>2. Cardinality(T) \in Nat  BY <1>6, FS_CardinalityType
  <2> QED BY <1>1, <1>7, <2>1, <2>2
<1>9. PICK i \in 0 .. RingSize, j \in 0 .. RingSize : i # j /\ g[i] = g[j]
  <2> HIDE DEF T, g
  <2> QED BY <1>5, <1>6, <1>7, <1>8, FS_PigeonHole
<1>10. f[i][1] = f[j][1] /\ (f[i][2] - low) \div Gap = (f[j][2] - low) \div Gap
  BY <1>9
<1>11. f[i][2] < f[j][2] + Gap /\ f[j][2] < f[i][2] + Gap
  <2> HIDE DEF low, W
  <2>1. f[i][2] - low < (f[j][2] - low) + Gap /\ f[j][2] - low < (f[i][2] - low) + Gap
    BY <1>1, <1>4, <1>10, SameBucket
  <2>2. f[i][2] \in Int /\ f[j][2] \in Int
    BY <1>4
  <2> QED BY <1>1, <2>1, <2>2
<1>12. f[i][2] = f[j][2]
  <2> DEFINE x == f[i][2]
             y == f[j][2]
  <2>1. x \in Int /\ y \in Int  BY <1>4
  <2>2. (x < y => x + Gap <= y) /\ (y < x => y + Gap <= x)
    BY <1>10 DEF Spaced
  <2>3. x < y + Gap /\ y < x + Gap  BY <1>11
  <2> HIDE DEF x, y
  <2>4. x = y  BY <1>1, <2>1, <2>2, <2>3
  <2> QED BY <2>4 DEF x, y
<1> QED BY <1>3, <1>9, <1>10, <1>12
-----------------------------------------------------------------------------
\* The initial states.
LEMMA InitInv == ASSUME NEW D, Init PROVE Inv(D)
<1> USE LinkAssumption DEF Init, Slots
<1>1. LinkTypeOK
  <2>1. passed = [c \in {} |-> 0] /\ DOMAIN passed = {}  OBVIOUS
  <2> QED BY <2>1 DEF LinkTypeOK
<1>2. RingPassed  BY DEF RingPassed
<1>3. RingSent /\ SentByNow /\ Spaced
  BY DEF RingSent, SentByNow, Spaced
<1>4. Ahead(D)  BY DEF Ahead
<1>5. InOrder(D)  BY DEF InOrder
<1>6. Remembered  BY DEF Remembered
<1> QED BY <1>1, <1>2, <1>3, <1>4, <1>5, <1>6 DEF Inv

\* The steps other than the arrival of a coin at the master leave the ring and the coins
\* passed on alone, and time only makes coins older.
LEMMA OtherSteps ==
  ASSUME NEW D \in Nat, Inv(D), UNCHANGED <<seen, idx, passed>>,
         now' >= now, net \subseteq net', LinkTypeOK', SentByNow', Spaced'
  PROVE  Inv(D)'
<1> USE LinkAssumption DEF Inv
<1>1. now \in Nat /\ now' \in Nat  BY DEF LinkTypeOK
<1>2. RingPassed'  BY DEF RingPassed
<1>3. RingSent'  BY DEF RingSent, Report, Packet
<1>4. Ahead(D)'
  <2> SUFFICES ASSUME NEW i \in Slots, seen[i] # NoCoin PROVE seen[i][2] <= now' + D
    BY DEF Ahead
  <2>1. seen[i][2] <= now + D  BY DEF Ahead
  <2>2. seen[i][2] \in Int  BY DEF LinkTypeOK, Coins
  <2> QED BY <1>1, <2>1, <2>2
<1>5. InOrder(D)'  BY DEF InOrder, Older
<1>6. Remembered'
  <2> SUFFICES ASSUME NEW c \in DOMAIN passed, c[2] + Fresh < now
               PROVE  c[2] + Fresh < now'
    BY DEF Remembered
  <2>1. c[2] \in Int  BY DEF LinkTypeOK, Coins
  <2> QED BY <1>1, <2>1
<1> QED BY <1>2, <1>3, <1>4, <1>5, <1>6

\* Among the slots, the age: the one overwritten becomes the youngest, the others keep
\* their order, and the one at idx was older than all others.
LEMMA SlotAges ==
  ASSUME idx \in Slots, idx' = (idx + 1) % RingSize
  PROVE  /\ idx' \in Slots
         /\ \A i \in Slots \ {idx} : Older(idx, i)
         /\ \A i, j \in Slots : Older(i, j)' => i # idx /\ (j = idx \/ Older(i, j))
<1>1. RingSize \in Nat \ {0}  BY LinkAssumption
<1>2. idx' = IF idx + 1 = RingSize THEN 0 ELSE idx + 1  BY NextSlot
<1> QED BY <1>1, <1>2 DEF Slots, Older

\* A coin written to the ring and passed on: the types, and that the ring holds nothing
\* else than coins passed on.
LEMMA RingStep ==
  ASSUME LinkTypeOK, RingPassed, NEW c \in Coins,
         seen' = [seen EXCEPT ![idx] = c], idx' = (idx + 1) % RingSize, PassOn(c),
         UNCHANGED <<now, net, lastCoin>>
  PROVE  LinkTypeOK' /\ RingPassed' /\ DOMAIN passed' = DOMAIN passed \cup {c}
<1>1. DOMAIN passed' = DOMAIN passed \cup {c}  BY DEF PassOn
<1>2. passed' \in [DOMAIN passed' -> Nat]
  <2>1. \A b \in DOMAIN passed' : passed'[b] \in Nat  BY <1>1 DEF PassOn, LinkTypeOK
  <2> QED BY <2>1 DEF PassOn
<1>3. idx' \in Slots  BY SlotAges DEF LinkTypeOK
<1>4. seen' \in [Slots -> Coins \cup {NoCoin}]  BY DEF LinkTypeOK
<1>5. LinkTypeOK'  BY <1>1, <1>2, <1>3, <1>4 DEF LinkTypeOK
<1>6. RingPassed'  BY <1>1 DEF RingPassed, LinkTypeOK
<1> QED BY <1>1, <1>5, <1>6

\* A coin that arrives in time and is not in the ring takes the oldest slot.
LEMMA CoinPassedOn ==
  ASSUME NEW D, RingSuffices(D), Inv(D), NEW c \in Coins,
         c[2] <= now + D, now <= c[2] + Fresh, ~IsReplay(c), Report(c) \in net,
         seen' = [seen EXCEPT ![idx] = c], idx' = (idx + 1) % RingSize, PassOn(c),
         UNCHANGED <<now, net, lastCoin>>
  PROVE  Inv(D)'
<1> USE LinkAssumption DEF Inv
<1>0. /\ Fresh \in Nat /\ D \in Nat /\ now \in Nat /\ c[2] \in Int /\ RingSize \in Nat
      /\ seen \in [Slots -> Coins \cup {NoCoin}] /\ idx \in Slots /\ c # NoCoin
  BY DEF RingSuffices, LinkTypeOK, Coins
<1>1. \A i \in Slots : seen'[i] = IF i = idx THEN c ELSE seen[i]
  BY <1>0
<1>2. \A i \in Slots : seen[i] # c
  BY <1>0 DEF IsReplay
<1>3. \A i \in Slots : seen[i] # NoCoin => seen[i] \in Coins /\ seen[i][2] \in Int
  BY <1>0 DEF Coins
\* What is overwritten is no longer fresh: otherwise the ring and the new coin would hold
\* more distinct coins of two freshness windows than there can be.
<1>4. ASSUME seen[idx] # NoCoin, now <= seen[idx][2] + Fresh PROVE FALSE
  <2> DEFINE o == seen[idx]
             f == [k \in 0 .. RingSize |-> IF k = RingSize THEN c ELSE seen[k]]
  <2>1. o \in Coins /\ o[2] \in Int /\ o[2] <= now + D
    BY <1>0, <1>3, <1>4 DEF Ahead
  <2>2. \A k \in Slots : /\ seen[k] # NoCoin
                         /\ o[2] <= seen[k][2] + Fresh + D /\ seen[k][2] <= o[2] + Fresh + D
    <3> SUFFICES ASSUME NEW k \in Slots
                 PROVE  /\ seen[k] # NoCoin
                        /\ o[2] <= seen[k][2] + Fresh + D /\ seen[k][2] <= o[2] + Fresh + D
      OBVIOUS
    <3>1. CASE k = idx  BY <1>0, <1>4, <2>1, <3>1
    <3>2. CASE k # idx
      <4>1. Older(idx, k)  BY <1>0, <3>2, SlotAges
      <4>2. seen[k] # NoCoin /\ o[2] <= seen[k][2] + Fresh + D
        BY <1>0, <1>4, <4>1 DEF InOrder
      <4>3. seen[k][2] <= now + D /\ seen[k][2] \in Int  BY <1>3, <4>2 DEF Ahead
      <4> QED BY <1>0, <1>4, <2>1, <4>2, <4>3
    <3> QED BY <3>1, <3>2
  <2>3. o[2] <= c[2] + Fresh + D /\ c[2] <= o[2] + Fresh + D
    BY <1>0, <1>4, <2>1
  <2> HIDE DEF o
  <2>4. \A k \in 0 .. RingSize : k = RingSize \/ k \in Slots
    BY <1>0 DEF Slots
  <2>5. f \in [0 .. RingSize -> Coins]
    BY <1>3, <2>2, <2>4
  <2>6. \A k \in 0 .. RingSize :
          /\ Report(f[k]) \in net
          /\ f[k][2] <= o[2] + Fresh + D /\ o[2] <= f[k][2] + Fresh + D
    BY <2>2, <2>3, <2>4 DEF RingSent
  <2>7. PICK i \in 0 .. RingSize, j \in 0 .. RingSize : i # j /\ f[i] = f[j]
    <3> HIDE DEF f
    <3> QED BY <2>1, <2>5, <2>6, RingHoldsFresh
  <2>8. \A k, l \in Slots : k # l => seen[k] # seen[l]
    <3> SUFFICES ASSUME NEW k \in Slots, NEW l \in Slots, k # l PROVE seen[k] # seen[l]
      OBVIOUS
    <3>1. Older(k, l) \/ Older(l, k)  BY <1>0 DEF Older, Slots
    <3> QED BY <2>2, <3>1 DEF InOrder
  <2>9. CASE i = RingSize
    BY <1>2, <2>4, <2>7, <2>9
  <2>10. CASE j = RingSize
    BY <1>2, <2>4, <2>7, <2>10
  <2>11. CASE i # RingSize /\ j # RingSize
    BY <2>4, <2>7, <2>8, <2>11
  <2> QED BY <2>9, <2>10, <2>11
\* The coin had not been passed on before: it is fresh and not in the ring.
<1>5. c \notin DOMAIN passed
  BY <1>0, <1>2 DEF Remembered
<1>6. /\ DOMAIN passed' = DOMAIN passed \cup {c} /\ passed'[c] = 1
      /\ \A b \in DOMAIN passed : passed'[b] = passed[b]
  <2>1. \A b \in DOMAIN passed : passed[b] \in Nat  BY DEF LinkTypeOK
  <2> QED BY <1>5, <2>1 DEF PassOn
<1>7. LinkTypeOK' /\ RingPassed'  BY RingStep
<1>8. RingSent' /\ SentByNow' /\ Spaced'
  BY <1>1 DEF RingSent, SentByNow, Spaced, Report, Packet
<1>9. Ahead(D)'  BY <1>1 DEF Ahead
<1>10. InOrder(D)'
  <2> SUFFICES ASSUME NEW i \in Slots, NEW j \in Slots, Older(i, j)', seen'[i] # NoCoin
               PROVE  /\ seen'[j] # NoCoin /\ seen'[i] # seen'[j]
                      /\ seen'[i][2] <= seen'[j][2] + Fresh + D
    BY DEF InOrder
  <2>1. i # idx /\ (j = idx \/ Older(i, j))  BY <1>0, SlotAges
  <2>2. seen'[i] = seen[i] /\ seen[i][2] \in Int  BY <1>1, <1>3, <2>1
  <2>3. CASE j = idx
    <3>1. seen'[j] = c  BY <1>1, <2>3
    <3>2. seen[i][2] <= now + D  BY <2>2 DEF Ahead
    <3>3. seen[i][2] <= c[2] + Fresh + D  BY <1>0, <2>2, <3>2
    <3> QED BY <1>0, <1>2, <2>2, <3>1, <3>3
  <2>4. CASE j # idx
    BY <1>1, <2>1, <2>2, <2>4 DEF InOrder
  <2> QED BY <2>3, <2>4
<1>11. Remembered'
  <2> SUFFICES ASSUME NEW b \in DOMAIN passed'
               PROVE  passed'[b] = 1 /\ (b[2] + Fresh < now \/ \E i \in Slots : seen'[i] = b)
    BY DEF Remembered
  <2>1. CASE b = c  BY <1>0, <1>1, <1>6, <2>1
  <2>2. CASE b # c
    <3>1. b \in DOMAIN passed /\ passed'[b] = 1  BY <1>6, <2>2 DEF Remembered
    <3>2. b \in Coins /\ b[2] \in Int /\ b # NoCoin  BY <3>1 DEF LinkTypeOK, Coins
    <3>3. CASE b[2] + Fresh < now  BY <3>1, <3>3
    <3>4. CASE ~(b[2] + Fresh < now)
      <4>1. PICK i \in Slots : seen[i] = b  BY <3>1, <3>4 DEF Remembered
      <4>2. now <= b[2] + Fresh  BY <1>0, <3>2, <3>4
      <4>3. i # idx  BY <1>4, <3>2, <4>1, <4>2
      <4> QED BY <1>1, <3>1, <4>1, <4>3
    <3> QED BY <3>3, <3>4
  <2> QED BY <2>1, <2>2
<1> QED BY <1>7, <1>8, <1>9, <1>10, <1>11
-----------------------------------------------------------------------------
\* Clock, windows and slaves leave the ring alone; only a slave's coin adds a report, and
\* its filter lets it come no sooner than Gap after the last.
LEMMA WorldSteps ==
  ASSUME LinkTypeOK,
         Tick \/ OpenWindow \/ CloseWindow \/ (\E s \in Slaves : SlaveCoin(s))
           \/ (\E p \in net : SlaveReceives(p)) \/ UNCHANGED vars
  PROVE  /\ UNCHANGED <<seen, idx, passed, arrived>>
         /\ now' >= now /\ net \subseteq net' /\ LinkTypeOK'
         /\ SentByNow /\ Spaced => SentByNow' /\ Spaced'
<1> USE LinkAssumption
<1>1. ASSUME UNCHANGED <<seen, idx, passed, lastCoin>>, now' \in Nat, now' >= now,
             net \subseteq net',
             net' \subseteq [type : {"START", "END", "COIN"}, ts : Int, node : Slaves],
             \A p \in net' : p.type = "COIN" => p \in net
      PROVE  LinkTypeOK' /\ (SentByNow /\ Spaced => SentByNow' /\ Spaced')
  <2>1. LinkTypeOK'  BY <1>1 DEF LinkTypeOK
  <2>2. SentByNow => SentByNow'
    <3> SUFFICES ASSUME SentByNow PROVE SentByNow' OBVIOUS
    <3>1. \A s \in Slaves : lastCoin[s] <= now'  BY <1>1 DEF SentByNow, LinkTypeOK
    <3> QED BY <1>1, <3>1 DEF SentByNow
  <2>3. \A c \in Coins : Report(c)' \in net' => Report(c) \in net
    BY <1>1 DEF Report, Packet
  <2>4. Spaced => Spaced'  BY <2>3 DEF Spaced, Report, Packet
  <2> QED BY <2>1, <2>2, <2>4
<1>2. CASE Tick  BY <1>1, <1>2 DEF Tick, LinkTypeOK
<1>3. CASE OpenWindow \/ CloseWindow
  BY <1>1, <1>3 DEF OpenWindow, CloseWindow, ToAll, Packet, LinkTypeOK
<1>4. ASSUME NEW s \in Slaves, SlaveCoin(s)
      PROVE  /\ UNCHANGED <<seen, idx, passed, arrived, now>> /\ net \subseteq net'
             /\ LinkTypeOK' /\ (SentByNow /\ Spaced => SentByNow' /\ Spaced')
  <2> DEFINE ts == now + Skew[s]
  <2>1. /\ UNCHANGED <<seen, idx, passed, arrived, now>>
        /\ lastCoin' = [lastCoin EXCEPT ![s] = now] /\ lastCoin[s] + Gap <= now
        /\ net' = net \cup {[type |-> "COIN", ts |-> ts, node |-> s]}
    BY <1>4 DEF SlaveCoin, Packet, Clock
  <2>2. ts \in Int /\ now \in Int /\ lastCoin[s] \in Int /\ Skew[s] \in Int /\ Gap \in Nat \ {0}
    BY DEF LinkTypeOK
  <2>3. LinkTypeOK'
    BY <2>1, <2>2 DEF LinkTypeOK
  <2>4. SentByNow => SentByNow'
    <3> SUFFICES ASSUME SentByNow PROVE SentByNow' OBVIOUS
    <3>1. \A r \in Slaves : lastCoin'[r] = IF r = s THEN now ELSE lastCoin[r]
      BY <2>1 DEF LinkTypeOK
    <3>2. \A r \in Slaves : lastCoin'[r] <= now'
      BY <2>1, <2>2, <3>1 DEF SentByNow
    <3>3. ASSUME NEW p \in net', p.type = "COIN"
          PROVE  p.ts <= lastCoin'[p.node] + Skew[p.node]
      <4>1. CASE p \in net
        <5>1. p.ts <= lastCoin[p.node] + Skew[p.node]  BY <3>3, <4>1 DEF SentByNow
        <5>2. p.node \in Slaves /\ p.ts \in Int /\ lastCoin[p.node] \in Int
          BY <4>1 DEF LinkTypeOK
        <5> QED BY <2>2, <3>1, <5>1, <5>2 DEF SentByNow
      <4>2. CASE p = [type |-> "COIN", ts |-> ts, node |-> s]
        BY <2>2, <3>1, <4>2
      <4> QED BY <2>1, <4>1, <4>2
    <3> QED BY <3>2, <3>3 DEF SentByNow
  <2>5. SentByNow /\ Spaced => Spaced'
    <3> SUFFICES ASSUME SentByNow, Spaced, NEW b \in Coins, NEW c \in Coins,
                        Report(b) \in net', Report(c) \in net', b[1] = c[1], b[2] < c[2]
                 PROVE  b[2] + Gap <= c[2]
      BY DEF Spaced, Report, Packet
    <3>1. \A a \in Coins : a[2] \in Int /\ (Report(a) \in net' => Report(a) \in net \/ (a[1] = s /\ a[2] = ts))
      BY <2>1 DEF Coins, Report, Packet
    <3>2. \A a \in Coins : Report(a) \in net /\ a[1] = s => a[2] + Gap <= ts
      <4> SUFFICES ASSUME NEW a \in Coins, Report(a) \in net, a[1] = s PROVE a[2] + Gap <= ts
        OBVIOUS
      <4>1. a[2] <= lastCoin[s] + Skew[s]  BY DEF SentByNow, Report, Packet
      <4> HIDE DEF Report
      <4> QED BY <2>1, <2>2, <3>1, <4>1
    <3>3. CASE Report(b) \in net /\ Report(c) \in net  BY <3>3 DEF Spaced
    <3>4. CASE ~(Report(b) \in net /\ Report(c) \in net)
      <4>1. b[2] \in Int /\ c[2] \in Int /\ b[1] = s /\ c[1] = s  BY <3>1, <3>4
      <4>2. CASE b[2] = ts
        <5>1. c[2] = ts \/ c[2] + Gap <= ts  BY <3>1, <3>2, <4>1
        <5> QED BY <2>2, <4>1, <4>2, <5>1
      <4>3. CASE b[2] # ts
        <5>1. Report(b) \in net /\ c[2] = ts  BY <3>1, <3>4, <4>3
        <5> QED BY <3>2, <4>1, <5>1
      <4> QED BY <4>2, <4>3
    <3> QED BY <3>3, <3>4
  <2> QED BY <2>1, <2>3, <2>4, <2>5
<1>5. CASE \E s \in Slaves : SlaveCoin(s)
  <2>1. now' >= now  BY <1>4, <1>5 DEF LinkTypeOK
  <2> QED BY <1>4, <1>5, <2>1
<1>6. CASE \E p \in net : SlaveReceives(p)  BY <1>1, <1>6 DEF SlaveReceives, LinkTypeOK
<1>7. CASE UNCHANGED vars  BY <1>1, <1>7 DEF vars, LinkTypeOK
<1> QED BY <1>2, <1>3, <1>5, <1>6, <1>7

\* The packets of the slaves' coins.
LEMMA CoinPackets ==
  ASSUME LinkTypeOK, NEW p \in net
  PROVE  <<p.node, p.ts>> \in Coins /\ p.ts \in Int /\ p.node \in Slaves
  BY DEF LinkTypeOK, Coins

\* What is needed for the first arrival of a coin to count.
ArrivedPassed == LinkTypeOK /\ RingPassed /\ FirstArrivalCounts

\* Every step passes on what arrives in time, or finds it in the ring.
LEMMA ArrivedStep == ArrivedPassed /\ [Next]_vars => ArrivedPassed'
<1> SUFFICES ASSUME ArrivedPassed, [Next]_vars PROVE ArrivedPassed' OBVIOUS
<1> USE DEF ArrivedPassed
<1>1. CASE ~\E p \in net : MasterReceives(p)
  <2>1. UNCHANGED <<seen, idx, passed, arrived>> /\ LinkTypeOK'
    BY <1>1, WorldSteps DEF Next
  <2> QED BY <2>1 DEF RingPassed, FirstArrivalCounts
<1>2. ASSUME NEW p \in net, MasterReceives(p) PROVE ArrivedPassed'
  <2> DEFINE c == <<p.node, p.ts>>
  <2>1. c \in Coins /\ c # NoCoin  BY CoinPackets, LinkAssumption DEF Coins
  <2>2. arrived' \subseteq arrived \cup {c} /\ UNCHANGED <<now, net, lastCoin>>
    BY <1>2 DEF MasterReceives
  <2>3. CASE IsFresh(p.ts, now) /\ ~IsReplay(c)
    <3>1. /\ seen' = [seen EXCEPT ![idx] = c] /\ idx' = (idx + 1) % RingSize /\ PassOn(c)
      BY <1>2, <2>3 DEF MasterReceives
    <3> HIDE DEF c
    <3>2. LinkTypeOK' /\ RingPassed' /\ DOMAIN passed' = DOMAIN passed \cup {c}
      BY <2>1, <2>2, <3>1, RingStep
    <3> QED BY <2>2, <3>2 DEF FirstArrivalCounts
  <2>4. CASE ~(IsFresh(p.ts, now) /\ ~IsReplay(c))
    <3>1. UNCHANGED <<seen, idx, passed>>
      BY <1>2, <2>4 DEF MasterReceives
    <3>2. arrived' = arrived \/ IsReplay(c)
      BY <1>2, <2>4 DEF MasterReceives
    <3>3. IsReplay(c) => c \in DOMAIN passed
      BY <2>1 DEF IsReplay, RingPassed, LinkTypeOK
    <3> QED BY <2>2, <3>1, <3>2, <3>3 DEF LinkTypeOK, RingPassed, FirstArrivalCounts
  <2> QED BY <2>3, <2>4
<1> QED BY <1>1, <1>2

\* Every step keeps the invariant, if the ring is large enough.
LEMMA InvStep == ASSUME NEW D, RingSuffices(D), Inv(D), [Next]_vars PROVE Inv(D)'
<1>0. D \in Nat /\ LinkTypeOK  BY DEF RingSuffices, Inv
<1>1. CASE ~\E p \in net : MasterReceives(p)
  <2>1. /\ UNCHANGED <<seen, idx, passed>> /\ now' >= now /\ net \subseteq net'
        /\ LinkTypeOK' /\ SentByNow' /\ Spaced'
    BY <1>0, <1>1, WorldSteps DEF Next, Inv
  <2> QED BY <1>0, <2>1, OtherSteps
<1>2. ASSUME NEW p \in net, MasterReceives(p) PROVE Inv(D)'
  <2> DEFINE c == <<p.node, p.ts>>
  <2>1. c \in Coins /\ c[2] = p.ts /\ p.ts \in Int /\ p.node \in Slaves
    BY <1>0, CoinPackets
  <2>2. UNCHANGED <<now, net, lastCoin>> /\ now \in Nat  BY <1>0, <1>2 DEF MasterReceives, LinkTypeOK
  <2>3. CASE IsFresh(p.ts, now) /\ ~IsReplay(c)
    <3>1. /\ seen' = [seen EXCEPT ![idx] = c] /\ idx' = (idx + 1) % RingSize /\ PassOn(c)
      BY <1>2, <2>3 DEF MasterReceives
    <3>2. now <= p.ts + Fresh /\ p.ts <= now + Fresh
      BY <2>1, <2>2, <2>3, FreshBounds
    <3>3. p.ts <= now + Skew[p.node]
      <4>1. p.ts <= lastCoin[p.node] + Skew[p.node] /\ lastCoin[p.node] <= now
        BY <1>2, <2>1 DEF Inv, SentByNow, MasterReceives
      <4> QED BY <1>0, <2>1, <2>2, <4>1, LinkAssumption DEF LinkTypeOK
    <3>4. p.ts <= now + D
      <4>1. Skew[p.node] <= D \/ Fresh <= D  BY <2>1 DEF RingSuffices
      <4> QED BY <1>0, <2>1, <2>2, <3>2, <3>3, <4>1, LinkAssumption
    <3>5. Report(c) \in net
      BY <1>0, <1>2 DEF MasterReceives, Report, Packet, LinkTypeOK
    <3> HIDE DEF c
    <3> QED BY <2>1, <2>2, <2>3, <3>1, <3>2, <3>4, <3>5, CoinPassedOn
  <2>4. CASE ~(IsFresh(p.ts, now) /\ ~IsReplay(c))
    <3>1. UNCHANGED <<seen, idx, passed>>
      BY <1>2, <2>4 DEF MasterReceives
    <3>2. LinkTypeOK' /\ SentByNow' /\ Spaced'
      BY <2>2, <3>1 DEF Inv, LinkTypeOK, SentByNow, Spaced, Report, Packet
    <3> QED BY <1>0, <2>2, <3>1, <3>2, OtherSteps
  <2> QED BY <2>3, <2>4
<1> QED BY <1>1, <1>2
-----------------------------------------------------------------------------
\* Every coin that arrived in time was passed on, whatever the size of the ring, the
\* clocks and the order, repetition or loss of datagrams.
THEOREM NoCoinMistaken == Spec => []FirstArrivalCounts
<1>1. Init => ArrivedPassed
  <2> SUFFICES ASSUME Init PROVE ArrivedPassed OBVIOUS
  <2>1. Inv(0)  BY InitInv
  <2>2. FirstArrivalCounts  BY DEF Init, FirstArrivalCounts
  <2> QED BY <2>1, <2>2 DEF Inv, ArrivedPassed
<1>2. ArrivedPassed => FirstArrivalCounts  BY DEF ArrivedPassed
<1> QED BY <1>1, <1>2, ArrivedStep, PTL DEF Spec

\* If the ring has room for the coins that all slaves can send in two freshness windows,
\* each widened by the skew D of the slaves' clocks, no coin is passed on twice, however
\* often and in whatever order its datagrams arrive.  Where the skew is not known, D may
\* be Fresh.
THEOREM NoCoinTwice == ASSUME NEW D, RingSuffices(D) PROVE Spec => []CountedOnce
<1>1. Init => Inv(D)  BY InitInv
<1>2. Inv(D) /\ [Next]_vars => Inv(D)'  BY InvStep
<1>3. Inv(D) => CountedOnce  BY DEF Inv, Remembered, CountedOnce
<1> QED BY <1>1, <1>2, <1>3, PTL DEF Spec
=============================================================================
