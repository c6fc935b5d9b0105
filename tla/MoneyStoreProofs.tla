------------------------- MODULE MoneyStoreProofs ---------------------------
(***************************************************************************)
(* Proofs about MoneyStore, for any groups, calendar and bounds.           *)
(*                                                                         *)
(* Inv: what the record says of voucher groups.  It follows a group's      *)
(* count through all its copies: the controller has the highest, an answer *)
(* under way and a backup are earlier states of it, and neither RAM nor    *)
(* NVS is below what a rollup has saved, but for a group of which an       *)
(* answer lost a part.                                                     *)
(*                                                                         *)
(* VendoInv: the coin income.  The log is a part of the sales, no month    *)
(* has more income than sales, and RAM falls below NVS only in a month of  *)
(* which the log has lost a part or which an import lowered.               *)
(*                                                                         *)
(* VoucherInv: the voucher income.  Every copy of a month's is at most     *)
(* what was redeemed.                                                      *)
(*                                                                         *)
(* Income is a sum over days or groups: module Sums.                       *)
(***************************************************************************)
EXTENDS MoneyStore, Sums

Entry  == [in : BOOLEAN, used : Nat, month : Nat \cup {NoMonth}, deleted : BOOLEAN]
Read   == [used : Nat, month : Nat \cup {NoMonth}]
Rolls  == [pc : {"idle", "apply", "income"}, sent : SUBSET Groups, read : [Groups -> Read]]

\* A record, without a type for its sums.
RecordOK(rec) ==
    /\ DOMAIN rec = {"groups", "vendo", "voucher", "migrated"}
    /\ rec.groups \in [Groups -> Entry]

Types ==
    /\ ctl \in [Groups -> [live : BOOLEAN, used : Nat]]
    /\ RecordOK(ram) /\ RecordOK(nvs)
    /\ roll \in Rolls
    /\ rolled \in [Groups -> Nat]
    /\ leftOut \in SUBSET Groups /\ cutOff \in SUBSET Groups

\* A group may be frozen: the controller has lost it, or an answer left it out.
Absent(g) == ~ctl[g].live \/ g \in leftOut

\* A count and a month for a group, in RAM, NVS or an answer.
CountOK(n, m, g) ==
    /\ rolled[g] <= n \/ g \in cutOff
    /\ n <= ctl[g].used
    /\ m \in {Created[g], NoMonth}

\* What a copy of the record says of a group.
EntryOK(e, g) ==
    /\ rolled[g] <= e.used \/ g \in cutOff
    /\ e.used <= ctl[g].used
    /\ e.month \in {Created[g], NoMonth}
    /\ ~e.in => e.used = 0
    /\ e.deleted => Absent(g)

\* The answer under way was right when it was given, but for a part that was cut off,
\* and no rollup was saved since.
AnswerOK(g) ==
    roll.pc = "apply" =>
        IF g \in roll.sent THEN CountOK(roll.read[g].used, roll.read[g].month, g) ELSE Absent(g)

Counts == \A g \in Groups :
    /\ EntryOK(ram.groups[g], g) /\ EntryOK(nvs.groups[g], g) /\ AnswerOK(g)
    /\ rolled[g] <= ctl[g].used

Inv == Types /\ Counts

\* Nothing is counted at first.
LEMMA InitInv == Init => Inv
<1> SUFFICES ASSUME Init PROVE Inv
  OBVIOUS
<1>1. RecordOK(EmptyRecord) /\ \A g \in Groups : EmptyRecord.groups[g] = NewGroup
  BY DEF RecordOK, EmptyRecord, NewGroup, Entry
<1>2. NoRoll \in Rolls /\ NoRoll.pc = "idle"
  BY DEF NoRoll, NothingRead, Rolls, Read
<1>3. Types
  BY <1>1, <1>2 DEF Init, Types, NoCounts
<1>4. Counts
  BY <1>1, <1>2 DEF Init, Counts, EntryOK, AnswerOK, NewGroup, NoCounts
<1> QED
  BY <1>3, <1>4 DEF Inv

\* The month a group was created in is a number.
LEMMA CreatedMonth == \A g \in Groups : Created[g] \in Nat
BY StoreAssumption

\* Replacing the groups or the income of a record leaves a record.
LEMMA NewRecord ==
  ASSUME NEW rec, RecordOK(rec), NEW grp \in [Groups -> Entry], NEW v, NEW w
  PROVE  /\ RecordOK([rec EXCEPT !.groups = grp])
         /\ [rec EXCEPT !.groups = grp].groups = grp
         /\ [rec EXCEPT !.groups = grp].vendo = rec.vendo
         /\ [rec EXCEPT !.groups = grp].voucher = rec.voucher
         /\ RecordOK([rec EXCEPT !.groups = grp, !.vendo = v, !.voucher = w])
         /\ [rec EXCEPT !.groups = grp, !.vendo = v, !.voucher = w].groups = grp
         /\ [rec EXCEPT !.groups = grp, !.vendo = v, !.voucher = w].vendo = v
         /\ [rec EXCEPT !.groups = grp, !.vendo = v, !.voucher = w].voucher = w
         /\ RecordOK([rec EXCEPT !.vendo = v, !.voucher = w])
         /\ [rec EXCEPT !.vendo = v, !.voucher = w].groups = rec.groups
         /\ [rec EXCEPT !.vendo = v, !.voucher = w].vendo = v
         /\ [rec EXCEPT !.vendo = v, !.voucher = w].voucher = w
         /\ RecordOK([rec EXCEPT !.migrated = TRUE])
         /\ [rec EXCEPT !.migrated = TRUE].groups = rec.groups
         /\ [rec EXCEPT !.migrated = TRUE].vendo = rec.vendo
         /\ [rec EXCEPT !.migrated = TRUE].voucher = rec.voucher
BY DEF RecordOK

\* The controller moves on: counts rise, groups go, answers leave groups out or cut them.
LEMMA WorldStep ==
  ASSUME Inv, UNCHANGED <<ram, nvs, rolled>>,
         ctl' \in [Groups -> [live : BOOLEAN, used : Nat]],
         leftOut' \in SUBSET Groups, leftOut \subseteq leftOut',
         cutOff' \in SUBSET Groups, cutOff \subseteq cutOff',
         roll' \in Rolls,
         \A g \in Groups : ctl[g].used <= ctl'[g].used /\ (ctl'[g].live => ctl[g].live),
         \A g \in Groups : AnswerOK(g)'
  PROVE  Inv'
<1>1. RecordOK(ram)' /\ RecordOK(nvs)'
  BY DEF Inv, Types, RecordOK
<1>2. \A g \in Groups : Absent(g) => Absent(g)'
  BY DEF Absent
<1>3. ASSUME NEW g \in Groups
      PROVE  EntryOK(ram.groups[g], g)' /\ EntryOK(nvs.groups[g], g)' /\ rolled'[g] <= ctl'[g].used
  <2>1. /\ ram.groups[g] \in Entry /\ nvs.groups[g] \in Entry
        /\ rolled[g] \in Nat /\ ctl[g].used \in Nat /\ ctl'[g].used \in Nat
        /\ ram.groups[g].used \in Nat /\ nvs.groups[g].used \in Nat
    BY DEF Inv, Types, RecordOK, Entry
  <2>2. EntryOK(ram.groups[g], g) /\ EntryOK(nvs.groups[g], g) /\ rolled[g] <= ctl[g].used
    BY DEF Inv, Counts
  <2>3. ctl[g].used <= ctl'[g].used
    OBVIOUS
  <2>4. rolled'[g] <= ctl'[g].used
    BY <2>1, <2>2, <2>3
  <2>5. ASSUME NEW e, e.used \in Nat, EntryOK(e, g) PROVE e.used <= ctl'[g].used
    BY <2>1, <2>3, <2>5 DEF EntryOK
  <2>6. EntryOK(ram.groups[g], g)'
    BY <1>2, <2>1, <2>2, <2>5 DEF EntryOK
  <2>7. EntryOK(nvs.groups[g], g)'
    BY <1>2, <2>1, <2>2, <2>5 DEF EntryOK
  <2> QED
    BY <2>4, <2>6, <2>7
<1>4. Types'
  BY <1>1 DEF Inv, Types
<1> QED
  BY <1>3, <1>4 DEF Inv, Counts

\* What the controller answers is right for every group in it.
LEMMA AnswerCounts ==
  ASSUME Inv, NEW sent \in SUBSET Groups
  PROVE  /\ Answer(sent) \in [Groups -> Read]
         /\ \A g \in sent : CountOK(Answer(sent)[g].used, Answer(sent)[g].month, g)
<1>1. ASSUME NEW g \in Groups
      PROVE  /\ Answer(sent)[g] \in Read
             /\ g \in sent => Answer(sent)[g].used = ctl[g].used /\ Answer(sent)[g].month = Created[g]
  <2>1. ctl[g].used \in Nat /\ Created[g] \in Nat
    BY CreatedMonth DEF Inv, Types
  <2> QED
    BY <2>1 DEF Answer, NothingRead, Read
<1>2. Answer(sent) \in [Groups -> Read]
  BY <1>1 DEF Answer
<1>3. \A g \in Groups : rolled[g] <= ctl[g].used /\ ctl[g].used \in Nat
  BY DEF Inv, Types, Counts
<1> QED
  BY <1>1, <1>2, <1>3 DEF CountOK

\* An answer, whole or cut off inside one group's entry.
LEMMA FetchInv ==
  ASSUME Inv
  PROVE  /\ \A sent \in SUBSET Groups : Fetch(sent) => Inv'
         /\ \A sent \in SUBSET Groups, h \in Groups, n \in 0 .. MaxUsed :
              \A m \in {Created[h], NoMonth} : FetchCut(sent, h, n, m) => Inv'
<1>t. /\ ctl \in [Groups -> [live : BOOLEAN, used : Nat]]
      /\ leftOut \in SUBSET Groups /\ cutOff \in SUBSET Groups
  BY DEF Inv, Types
<1>1. ASSUME NEW sent \in SUBSET Groups, Fetch(sent) PROVE Inv'
  <2>1. /\ UNCHANGED <<ctl, ram, nvs, rolled, cutOff>>
        /\ leftOut' \in SUBSET Groups /\ leftOut \subseteq leftOut'
        /\ roll' = [pc |-> "apply", sent |-> sent, read |-> Answer(sent)]
    BY <1>1, <1>t DEF Fetch, world
  <2>2. roll' \in Rolls
    BY <2>1, AnswerCounts DEF Rolls
  <2>3. ASSUME NEW g \in Groups PROVE AnswerOK(g)'
    <3>1. CASE g \in sent
      BY <2>1, <3>1, AnswerCounts DEF AnswerOK, CountOK
    <3>2. CASE g \notin sent
      BY <1>1, <2>1, <3>2 DEF AnswerOK, Absent, Fetch
    <3> QED
      BY <3>1, <3>2
  <2>4. \A g \in Groups : ctl[g].used <= ctl'[g].used /\ (ctl'[g].live => ctl[g].live)
    BY <1>t, <2>1
  <2> QED
    BY <1>t, <2>1, <2>2, <2>3, <2>4, WorldStep
<1>2. ASSUME NEW sent \in SUBSET Groups, NEW h \in Groups, NEW n \in 0 .. MaxUsed,
             NEW m \in {Created[h], NoMonth}, FetchCut(sent, h, n, m)
      PROVE  Inv'
  <2> DEFINE new == [Answer(sent) EXCEPT ![h] = [used |-> n, month |-> m]]
  <2>1. /\ UNCHANGED <<ctl, ram, nvs, rolled>>
        /\ leftOut' \in SUBSET Groups /\ leftOut \subseteq leftOut'
        /\ cutOff' = cutOff \cup {h} /\ h \in sent /\ n <= ctl[h].used
        /\ roll' = [pc |-> "apply", sent |-> sent, read |-> new]
    BY <1>2, <1>t DEF FetchCut, world
  <2>2. n \in Nat /\ [used |-> n, month |-> m] \in Read
    BY CreatedMonth, StoreAssumption DEF Read
  <2>3. /\ new \in [Groups -> Read]
        /\ new[h] = [used |-> n, month |-> m]
        /\ \A g \in Groups : g # h => new[g] = Answer(sent)[g]
    BY <2>2, AnswerCounts
  <2> HIDE DEF new
  <2>4. roll' \in Rolls
    BY <2>1, <2>3 DEF Rolls
  <2>5. ASSUME NEW g \in Groups PROVE AnswerOK(g)'
    <3>1. CASE g = h
      <4>1. new[h].used = n /\ new[h].month = m
        BY <2>3
      <4> QED
        BY <2>1, <3>1, <4>1 DEF AnswerOK, CountOK
    <3>2. CASE g \in sent /\ g # h
      BY <2>1, <2>3, <3>2, AnswerCounts DEF AnswerOK, CountOK
    <3>3. CASE g \notin sent
      BY <1>2, <2>1, <3>3 DEF AnswerOK, Absent, FetchCut
    <3> QED
      BY <3>1, <3>2, <3>3
  <2>6. \A g \in Groups : ctl[g].used <= ctl'[g].used /\ (ctl'[g].live => ctl[g].live)
    BY <1>t, <2>1
  <2> QED
    BY <1>t, <2>1, <2>4, <2>5, <2>6, WorldStep
<1> QED
  BY <1>1, <1>2

\* Actions that change nothing the invariant mentions, or only the world around it.
LEMMA WorldInv ==
  ASSUME Inv
  PROVE  /\ UNCHANGED <<ctl, ram, nvs, roll, rolled, leftOut, cutOff>> => Inv'
         /\ FetchFailed => Inv'
         /\ \A g \in Groups : Redeem(g) \/ DeleteGroup(g) => Inv'
<1>t. /\ ctl \in [Groups -> [live : BOOLEAN, used : Nat]]
      /\ leftOut \in SUBSET Groups /\ cutOff \in SUBSET Groups /\ roll \in Rolls
  BY DEF Inv, Types
<1>1. ASSUME UNCHANGED <<ctl, ram, nvs, roll, rolled, leftOut, cutOff>> PROVE Inv'
  BY <1>1 DEF Inv, Types, RecordOK, Counts, EntryOK, AnswerOK, CountOK, Absent
<1>2. ASSUME FetchFailed PROVE Inv'
  <2>1. /\ UNCHANGED <<ctl, ram, nvs, rolled, leftOut, cutOff>>
        /\ roll' \in Rolls /\ roll'.pc = "income"
    BY <1>2 DEF FetchFailed, NoRoll, NothingRead, Rolls, Read, world, history
  <2>2. \A g \in Groups : AnswerOK(g)'
    BY <2>1 DEF AnswerOK
  <2>3. \A g \in Groups : ctl[g].used <= ctl'[g].used /\ (ctl'[g].live => ctl[g].live)
    BY <1>t, <2>1
  <2> QED
    BY <1>t, <2>1, <2>2, <2>3, WorldStep
<1>3. ASSUME NEW h \in Groups, Redeem(h) \/ DeleteGroup(h) PROVE Inv'
  <2>1. UNCHANGED <<ram, nvs, roll, rolled, leftOut, cutOff>>
    BY <1>3 DEF Redeem, DeleteGroup, history
  <2>2. /\ ctl' \in [Groups -> [live : BOOLEAN, used : Nat]]
        /\ \A g \in Groups : ctl[g].used <= ctl'[g].used /\ (ctl'[g].live => ctl[g].live)
    <3>1. CASE Redeem(h)
      <4>1. ctl' = [ctl EXCEPT ![h].used = ctl[h].used + 1]
        BY <3>1 DEF Redeem
      <4> QED
        BY <4>1, <1>t
    <3>2. CASE DeleteGroup(h)
      <4>1. ctl' = [ctl EXCEPT ![h].live = FALSE]
        BY <3>2 DEF DeleteGroup
      <4>2. [ctl[h] EXCEPT !.live = FALSE] \in [live : BOOLEAN, used : Nat]
        BY <1>t
      <4>3. ctl' \in [Groups -> [live : BOOLEAN, used : Nat]]
        BY <4>1, <4>2, <1>t
      <4>4. ctl'[h].live = FALSE /\ ctl'[h].used = ctl[h].used
        BY <4>1, <1>t
      <4>5. \A g \in Groups : g # h => ctl'[g] = ctl[g]
        BY <4>1, <1>t
      <4>6. \A g \in Groups : ctl[g].used \in Nat
        BY <1>t
      <4> QED
        BY <4>3, <4>4, <4>5, <4>6
    <3> QED
      BY <1>3, <3>1, <3>2
  <2>3. ASSUME NEW g \in Groups PROVE AnswerOK(g)'
    <3>1. AnswerOK(g) /\ (Absent(g) => Absent(g)')
      BY <2>1, <2>2 DEF Inv, Counts, Absent
    <3>2. roll.read[g].used \in Nat /\ ctl[g].used \in Nat /\ ctl'[g].used \in Nat
      BY <1>t, <2>2 DEF Rolls, Read
    <3>3. ctl[g].used <= ctl'[g].used
      BY <2>2
    <3>4. roll.read[g].used <= ctl[g].used => roll.read[g].used <= ctl'[g].used
      BY <3>2, <3>3
    <3> QED
      BY <2>1, <3>1, <3>4 DEF AnswerOK, CountOK
  <2> QED
    BY <1>t, <2>1, <2>2, <2>3, WorldStep
<1> QED
  BY <1>1, <1>2, <1>3

\* A record whose groups are right may replace RAM, NVS or both.
LEMMA RecordStep ==
  ASSUME Inv, RecordOK(ram)', RecordOK(nvs)',
         UNCHANGED <<ctl, rolled, leftOut, cutOff>>,
         \A g \in Groups : EntryOK(ram'.groups[g], g) /\ EntryOK(nvs'.groups[g], g),
         \/ UNCHANGED roll
         \/ roll' = NoRoll
         \/ roll' = [NoRoll EXCEPT !.pc = "income"]
  PROVE  Inv'
<1>1. roll' \in Rolls /\ (roll'.pc = "apply" => roll' = roll)
  <2>1. roll \in Rolls
    BY DEF Inv, Types
  <2>2. NoRoll \in Rolls /\ NoRoll.pc = "idle"
    BY DEF Rolls, Read, NoRoll, NothingRead
  <2>3. [NoRoll EXCEPT !.pc = "income"] \in Rolls /\ [NoRoll EXCEPT !.pc = "income"].pc = "income"
    BY DEF Rolls, Read, NoRoll, NothingRead
  <2> QED
    BY <2>1, <2>2, <2>3
<1>2. Types'
  BY <1>1 DEF Inv, Types
<1>3. \A g \in Groups : AnswerOK(g)' /\ rolled'[g] <= ctl'[g].used
  BY <1>1 DEF Inv, Counts, AnswerOK, CountOK, Absent
<1>4. \A g \in Groups : EntryOK(ram.groups[g], g)' /\ EntryOK(nvs.groups[g], g)'
  BY DEF EntryOK, Absent
<1> QED
  BY <1>2, <1>3, <1>4 DEF Inv, Counts

\* The groups of the record after an import.
AfterImport(copy) == [g \in Groups |-> IF Imported(copy, g) THEN copy[g] ELSE ram.groups[g]]

\* moneyImport changes groups and income, and saves or does not.
LEMMA ImportRecord ==
  ASSUME NEW copy, NEW vendo, NEW voucher, NEW saved \in BOOLEAN,
         MoneyImport(copy, vendo, voucher, saved)
  PROVE  /\ ram' = [ram EXCEPT !.groups = AfterImport(copy), !.vendo = Over(vendo, ram.vendo),
                               !.voucher = Over(voucher, ram.voucher)]
         /\ nvs' = ram' \/ nvs' = nvs
         /\ lowered \subseteq lowered'
         /\ \A m \in Months : ram'.vendo[m] < ram.vendo[m] => m \in lowered'
BY DEF MoneyImport, Save, AfterImport

\* An import takes over counts that are higher, or of groups the record lacks.
LEMMA ImportEntries ==
  ASSUME Inv, NEW copy,
         \A g \in Groups : copy[g] = NewGroup \/ copy[g] \in GroupBackups(g)
  PROVE  AfterImport(copy) \in [Groups -> Entry]
         /\ \A g \in Groups : EntryOK(AfterImport(copy)[g], g)
<1>1. ASSUME NEW g \in Groups
      PROVE  AfterImport(copy)[g] \in Entry /\ EntryOK(AfterImport(copy)[g], g)
  <2>1. /\ ram.groups[g] \in Entry /\ EntryOK(ram.groups[g], g)
        /\ rolled[g] \in Nat /\ ctl[g].used \in Nat /\ ctl[g].live \in BOOLEAN
        /\ ram.groups[g].used \in Nat /\ Created[g] \in Nat
    BY CreatedMonth DEF Inv, Types, Counts, RecordOK, Entry
  <2>2. CASE Imported(copy, g)
    <3>1. copy[g] # NewGroup
      BY <2>2 DEF Imported, NewGroup
    <3>2. /\ copy[g] \in [in : {TRUE}, used : 0 .. ctl[g].used,
                          month : {Created[g]} \cup LostMonths, deleted : BOOLEAN]
          /\ copy[g].deleted => Absent(g)
      BY <3>1 DEF GroupBackups, Absent
    <3>3. copy[g].used \in Nat /\ copy[g].used <= ctl[g].used
      <4>1. copy[g].used \in 0 .. ctl[g].used
        BY <3>2
      <4> QED
        BY <2>1, <4>1
    <3>6. copy[g].in
      BY <2>2 DEF Imported
    <3>4. copy[g].month \in {Created[g], NoMonth}
      <4>1. copy[g].month \in {Created[g]} \cup LostMonths
        BY <3>2
      <4> QED
        BY <4>1, StoreAssumption
    <3>5. copy[g] \in Entry
      <4>1. ASSUME NEW e \in [in : {TRUE}, used : 0 .. ctl[g].used,
                          month : {Created[g]} \cup LostMonths, deleted : BOOLEAN],
                   e.used \in Nat, e.month \in Nat \cup {NoMonth}
            PROVE  e \in Entry
        BY <4>1 DEF Entry
      <4> QED
        BY <2>1, <3>2, <3>3, <3>4, <4>1
    <3>7. rolled[g] <= copy[g].used \/ g \in cutOff
      <4>1. ram.groups[g].in => ram.groups[g].used < copy[g].used
        BY <2>2 DEF Imported
      <4>2. ~ram.groups[g].in => ram.groups[g].used = 0
        BY <2>1 DEF EntryOK
      <4>3. ram.groups[g].used <= copy[g].used
        BY <2>1, <3>3, <4>1, <4>2
      <4> QED
        BY <2>1, <3>3, <4>3 DEF EntryOK
    <3>8. AfterImport(copy)[g] = copy[g]
      BY <2>2 DEF AfterImport
    <3> QED
      BY <3>2, <3>3, <3>4, <3>5, <3>6, <3>7, <3>8 DEF EntryOK
  <2>3. CASE ~Imported(copy, g)
    BY <2>1, <2>3 DEF AfterImport
  <2> QED
    BY <2>2, <2>3
<1> QED
  BY <1>1 DEF AfterImport

\* Imports, and the migration, which imports no groups.
LEMMA ImportInv ==
  ASSUME Inv, UNCHANGED <<ctl, roll, rolled, leftOut, cutOff>>,
         NEW copy, NEW vendo, NEW voucher, NEW saved \in BOOLEAN,
         MoneyImport(copy, vendo, voucher, saved),
         \A g \in Groups : copy[g] = NewGroup \/ copy[g] \in GroupBackups(g)
  PROVE  Inv'
<1> DEFINE grp == AfterImport(copy)
<1>1. grp \in [Groups -> Entry] /\ \A g \in Groups : EntryOK(grp[g], g)
  BY ImportEntries
<1>2. /\ ram' = [ram EXCEPT !.groups = grp, !.vendo = Over(vendo, ram.vendo),
                            !.voucher = Over(voucher, ram.voucher)]
      /\ nvs' = ram' \/ nvs' = nvs
  BY DEF MoneyImport, Save, AfterImport
<1> HIDE DEF grp
<1>3. RecordOK(ram)' /\ ram'.groups = grp
  BY <1>1, <1>2, NewRecord DEF Inv, Types, RecordOK
<1>4. RecordOK(nvs)' /\ nvs'.groups \in {grp, nvs.groups}
  BY <1>2, <1>3 DEF Inv, Types, RecordOK
<1>5. \A g \in Groups : EntryOK(nvs.groups[g], g)
  BY DEF Inv, Counts
<1> QED
  BY <1>1, <1>3, <1>4, <1>5, RecordStep

\* The mark of a migration, too, leaves the groups alone.
LEMMA MarkInv ==
  ASSUME Inv, NEW saved \in BOOLEAN, MigrateMark(saved)
  PROVE  Inv'
<1>1. /\ ram' = [ram EXCEPT !.migrated = TRUE]
      /\ nvs' = ram' \/ nvs' = nvs
      /\ UNCHANGED <<ctl, roll, rolled, leftOut, cutOff>>
  BY DEF MigrateMark, Save, world, history
<1>2. RecordOK(ram)' /\ ram'.groups = ram.groups
  BY <1>1 DEF Inv, Types, RecordOK
<1>3. RecordOK(nvs)' /\ nvs'.groups \in {ram.groups, nvs.groups}
  BY <1>1, <1>2 DEF Inv, Types, RecordOK
<1> QED
  BY <1>1, <1>2, <1>3, RecordStep DEF Inv, Counts

\* The rollup's answer raises counts but for a group it cut, and freezes only what is
\* absent.
LEMMA ApplyInv ==
  ASSUME Inv, Apply
  PROVE  Inv'
<1> DEFINE grp == [g \in Groups |->
      IF g \in roll.sent THEN Upserted(roll.read[g].used, roll.read[g].month, FALSE)
                         ELSE Frozen(ram.groups[g])]
<1>1. ASSUME NEW g \in Groups PROVE grp[g] \in Entry /\ EntryOK(grp[g], g)
  <2>1. /\ ram.groups[g] \in Entry /\ EntryOK(ram.groups[g], g) /\ AnswerOK(g)
        /\ roll.read[g].used \in Nat /\ roll.read[g].month \in Nat \cup {NoMonth}
        /\ roll.pc = "apply"
    BY DEF Inv, Types, Counts, RecordOK, Apply, Rolls, Read
  <2>2. CASE g \in roll.sent
    <3>1. grp[g] = Upserted(roll.read[g].used, roll.read[g].month, FALSE)
      BY <2>2
    <3> HIDE DEF grp
    <3>2. grp[g] \in Entry
      BY <2>1, <3>1 DEF Upserted, Entry
    <3>4. /\ grp[g].in = TRUE /\ grp[g].used = roll.read[g].used
          /\ grp[g].month = roll.read[g].month /\ grp[g].deleted = FALSE
      BY <3>1 DEF Upserted
    <3>3. CountOK(roll.read[g].used, roll.read[g].month, g)
      BY <2>1, <2>2 DEF AnswerOK
    <3> QED
      BY <3>2, <3>3, <3>4 DEF EntryOK, CountOK
  <2>3. CASE g \notin roll.sent
    <3>1. grp[g] = Frozen(ram.groups[g])
      BY <2>3
    <3>2. Absent(g)
      BY <2>1, <2>3 DEF AnswerOK
    <3>3. ASSUME NEW e \in Entry
          PROVE  Frozen(e) \in Entry /\ Frozen(e).in = e.in /\ Frozen(e).used = e.used
                 /\ Frozen(e).month = e.month
      BY DEF Frozen, Entry
    <3> QED
      BY <2>1, <3>1, <3>2, <3>3 DEF EntryOK
  <2> QED
    BY <2>2, <2>3
<1>2. /\ ram' = [ram EXCEPT !.groups = grp]
      /\ roll' = [NoRoll EXCEPT !.pc = "income"]
      /\ UNCHANGED <<ctl, nvs, rolled, leftOut, cutOff>>
  BY DEF Apply, world, history
<1>3. grp \in [Groups -> Entry]
  BY <1>1
<1> HIDE DEF grp
<1>4. RecordOK(ram)' /\ ram'.groups = grp
  BY <1>2, <1>3, NewRecord DEF Inv, Types, RecordOK
<1>5. RecordOK(nvs)' /\ nvs'.groups = nvs.groups
  BY <1>2 DEF Inv, Types, RecordOK
<1> QED
  BY <1>1, <1>2, <1>4, <1>5, RecordStep DEF Inv, Counts

\* The end of a rollup: what it saves is what RAM says, and a group whose count is what
\* it was, or higher, is made good.
LEMMA IncomeInv ==
  ASSUME Inv, NEW saved \in BOOLEAN, Income(saved)
  PROVE  Inv'
<1>1. /\ ram' = IncomeSet(ram)
      /\ nvs' = IF saved THEN ram' ELSE nvs
      /\ roll' = NoRoll
      /\ UNCHANGED <<ctl, leftOut>>
  BY DEF Income, Save, world
<1>2. RecordOK(ram)' /\ ram'.groups = ram.groups
  BY <1>1, NewRecord DEF IncomeSet, Inv, Types, RecordOK
<1>3. RecordOK(nvs)' /\ nvs'.groups = IF saved THEN ram.groups ELSE nvs.groups
  BY <1>1, <1>2 DEF Inv, Types, RecordOK
<1>4. \A g \in Groups : /\ EntryOK(ram.groups[g], g) /\ EntryOK(nvs.groups[g], g)
                        /\ ram.groups[g] \in Entry /\ ram.groups[g].used \in Nat
                        /\ rolled[g] \in Nat /\ ctl[g].used \in Nat /\ rolled[g] <= ctl[g].used
  BY DEF Inv, Types, Counts, RecordOK, Entry
<1>5. /\ rolled' \in [Groups -> Nat] /\ cutOff' \in SUBSET Groups
      /\ ~saved => rolled' = rolled /\ cutOff' = cutOff
      /\ saved => \A g \in Groups :
           /\ rolled'[g] = IF ram.groups[g].used > rolled[g] THEN ram.groups[g].used ELSE rolled[g]
           /\ g \in cutOff /\ ram.groups[g].used < rolled[g] => g \in cutOff'
  BY <1>4 DEF Income, Inv, Types
<1>6. Types'
  <2>1. roll' \in Rolls
    BY <1>1 DEF Rolls, Read, NoRoll, NothingRead
  <2> QED
    BY <1>1, <1>2, <1>3, <1>5, <2>1 DEF Inv, Types
<1>7. ASSUME NEW g \in Groups
      PROVE  (/\ EntryOK(ram.groups[g], g) /\ EntryOK(nvs.groups[g], g)
              /\ AnswerOK(g) /\ rolled[g] <= ctl[g].used)'
  <2>1. AnswerOK(g)'
    BY <1>1 DEF AnswerOK, NoRoll
  <2>2. ASSUME saved
        PROVE  rolled'[g] <= ctl[g].used /\ (rolled'[g] <= ram.groups[g].used \/ g \in cutOff')
    <3>1. ram.groups[g].used <= ctl[g].used
          /\ (rolled[g] <= ram.groups[g].used \/ g \in cutOff)
      BY <1>4 DEF EntryOK
    <3> QED
      BY <1>4, <1>5, <2>2, <3>1
  <2>3. CASE saved
    <3>1. EntryOK(ram.groups[g], g)'
      BY <1>1, <1>2, <1>4, <2>2, <2>3 DEF EntryOK, Absent
    <3> QED
      BY <1>1, <1>2, <1>3, <2>1, <2>2, <2>3, <3>1
  <2>4. CASE ~saved
    BY <1>1, <1>2, <1>3, <1>4, <1>5, <2>1, <2>4 DEF EntryOK, Absent
  <2> QED
    BY <2>3, <2>4
<1> QED
  BY <1>6, <1>7 DEF Inv, Counts

\* A restart falls back to what is saved.
LEMMA BootInv ==
  ASSUME Inv, NEW l, Boot(l)
  PROVE  Inv'
<1>1. ram' = nvs /\ roll' = NoRoll /\ UNCHANGED <<ctl, nvs, rolled, leftOut, cutOff>>
  BY DEF Boot
<1>2. RecordOK(ram)' /\ RecordOK(nvs)'
  BY <1>1 DEF Inv, Types, RecordOK
<1> QED
  BY <1>1, <1>2, RecordStep DEF Inv, Counts

\* Every step keeps the invariant.
LEMMA NextInv == Inv /\ [Next]_vars => Inv'
<1> SUFFICES ASSUME Inv, [Next]_vars PROVE Inv'
  OBVIOUS
<1>1. ASSUME \/ UNCHANGED vars \/ DayPasses \/ FsUpload \/ MigrateStart
             \/ \E ok \in BOOLEAN : Sale(ok)
      PROVE  Inv'
  BY <1>1, WorldInv DEF vars, world, history, DayPasses, Sale, FsUpload, MigrateStart
<1>2. ASSUME Restart \/ FsFlash PROVE Inv'
  BY <1>2, BootInv DEF Restart, FsFlash
<1>3. ASSUME NEW ok \in BOOLEAN, Import(ok) PROVE Inv'
  <2>1. PICK copy \in Backups, vendo \in VendoBackups, voucher \in VoucherBackups :
          MoneyImport(copy, vendo, voucher, ok)
    BY <1>3 DEF Import
  <2>2. UNCHANGED <<ctl, roll, rolled, leftOut, cutOff>>
    BY <1>3 DEF Import, world
  <2>3. \A g \in Groups : copy[g] \in GroupBackups(g)
    BY DEF Backups
  <2> QED
    BY <2>1, <2>2, <2>3, ImportInv
<1>4. ASSUME NEW m \in Months, NEW ok \in BOOLEAN, MigrateMonth(m, ok) PROVE Inv'
  <2>1. /\ MoneyImport(EmptyRecord.groups, [k \in {m} |-> mig.total[k]], NoIncome, ok)
        /\ UNCHANGED <<ctl, roll, rolled, leftOut, cutOff>>
    BY <1>4 DEF MigrateMonth, world
  <2>2. \A g \in Groups : EmptyRecord.groups[g] = NewGroup
    BY DEF EmptyRecord
  <2> QED
    BY <2>1, <2>2, ImportInv
<1>5. ASSUME \E ok \in BOOLEAN : MigrateMark(ok) \/ Income(ok) PROVE Inv'
  BY <1>5, MarkInv, IncomeInv
<1>6. ASSUME \/ FetchFailed
             \/ \E g \in Groups : Redeem(g) \/ DeleteGroup(g)
      PROVE  Inv'
  BY <1>6, WorldInv
<1>7. ASSUME \/ \E sent \in SUBSET Groups : Fetch(sent)
             \/ \E sent \in SUBSET Groups, h \in Groups, n \in 0 .. MaxUsed :
                  \E m \in {Created[h], NoMonth} : FetchCut(sent, h, n, m)
      PROVE  Inv'
  BY <1>7, FetchInv
<1> QED
  BY <1>1, <1>2, <1>3, <1>4, <1>5, <1>6, <1>7, ApplyInv DEF Next

\* The invariant holds throughout.
LEMMA AlwaysInv == Spec => []Inv
BY InitInv, NextInv, PTL DEF Spec
-----------------------------------------------------------------------------
(* The coin income.                                                          *)

MonthDays(m) == {d \in Days : MonthOf(d) = m}
DayCounts == [Days -> Nat]

\* The types of what the income is made of.
IncomeTypes ==
    /\ day \in Days
    /\ log \in DayCounts /\ sold \in DayCounts /\ flash.saved \in DayCounts
    /\ mig.todo \in SUBSET Months
    /\ ram.vendo \in [Months -> Nat] /\ nvs.vendo \in [Months -> Nat]

\* The sale log, and a copy of it, hold no sale that was not made.
LogWithin == \A d \in Days : log[d] <= sold[d] /\ flash.saved[d] <= sold[d]

\* No month has more coin income than coins were sold in it, in a migration either.
VendoWithin ==
    \A m \in Months : /\ ram.vendo[m] <= LogTotal(sold, m) /\ nvs.vendo[m] <= LogTotal(sold, m)
                      /\ mig.total[m] \in Nat /\ mig.total[m] <= LogTotal(sold, m)

\* RAM falls below NVS with a part of a month's sales in the log, or by an import.
VendoBehind ==
    \A m \in Months : ram.vendo[m] < nvs.vendo[m] =>
        \/ LogTotal(log, m) > 0 /\ \E d \in MonthDays(m) : log[d] < sold[d]
        \/ m \in lowered

VendoInv == IncomeTypes /\ LogWithin /\ VendoWithin /\ VendoBehind

\* What a step may do to the saved coin income.
VendoFalls ==
    \A m \in Months : nvs'.vendo[m] < nvs.vendo[m] =>
        \/ LogTotal(log, m) > 0 /\ LogTotal(log, m) < LogTotal(sold, m)
        \/ m \in lowered \cup lowered'

\* The days of a month are finitely many.
LEMMA MonthFinite == ASSUME NEW m PROVE IsFiniteSet(MonthDays(m)) /\ MonthDays(m) \subseteq Days
<1>1. IsFiniteSet(Days)  BY FS_Interval, StoreAssumption DEF Days
<1>2. MonthDays(m) \subseteq Days  BY DEF MonthDays
<1> QED BY <1>1, <1>2, FS_Subset

\* moneyVendoMonths on two logs of which one holds no more than the other.
LEMMA LogTotals ==
  ASSUME NEW l \in DayCounts, NEW k \in DayCounts, \A d \in Days : l[d] <= k[d], NEW m
  PROVE  /\ LogTotal(l, m) \in Nat /\ LogTotal(k, m) \in Nat
         /\ LogTotal(l, m) <= LogTotal(k, m)
         /\ LogTotal(l, m) < LogTotal(k, m) <=> \E d \in MonthDays(m) : l[d] < k[d]
<1>0. IsFiniteSet(MonthDays(m)) /\ MonthDays(m) \subseteq Days  BY MonthFinite
<1>1. /\ LogTotal(l, m) = SumFunctionOnSet(l, MonthDays(m))
      /\ LogTotal(k, m) = SumFunctionOnSet(k, MonthDays(m))
  BY DEF LogTotal, MonthDays
<1>2. \A d \in MonthDays(m) : l[d] \in Nat /\ k[d] \in Nat /\ l[d] <= k[d]
  BY <1>0 DEF DayCounts
<1>3. LogTotal(l, m) \in Nat /\ LogTotal(k, m) \in Nat
  BY <1>0, <1>1, <1>2, SumNat
<1>4. /\ LogTotal(l, m) <= LogTotal(k, m)
      /\ (\E d \in MonthDays(m) : l[d] < k[d]) => LogTotal(l, m) < LogTotal(k, m)
  BY <1>0, <1>1, <1>2, SumOrder
<1>5. (\A d \in MonthDays(m) : k[d] <= l[d]) => LogTotal(k, m) <= LogTotal(l, m)
  BY <1>0, <1>1, <1>2, SumOrder
<1>6. ~(\E d \in MonthDays(m) : l[d] < k[d]) => \A d \in MonthDays(m) : k[d] <= l[d]
  BY <1>2
<1> QED BY <1>3, <1>4, <1>5, <1>6

\* A step of the record: a month falls by an import or to the log's total, none rises above
\* the sales, and NVS follows or does not.  This is all that imports, migrations and
\* rollups do to the coin income.
LEMMA RecordVendo ==
  ASSUME VendoInv, UNCHANGED <<day, log, sold, flash>>,
         mig'.todo \in SUBSET Months,
         \A m \in Months : mig'.total[m] \in Nat /\ mig'.total[m] <= LogTotal(sold, m),
         ram'.vendo \in [Months -> Nat],
         \A m \in Months : ram'.vendo[m] <= LogTotal(sold, m),
         \A m \in Months : ram'.vendo[m] < ram.vendo[m] =>
            \/ m \in lowered'
            \/ LogTotal(log, m) > 0 /\ ram'.vendo[m] = LogTotal(log, m),
         nvs'.vendo = ram'.vendo \/ nvs'.vendo = nvs.vendo,
         lowered \subseteq lowered' \/ nvs'.vendo = ram'.vendo
  PROVE  VendoInv' /\ VendoFalls
<1> USE DEF VendoInv
<1>1. \A m \in Months : /\ LogTotal(log, m) \in Nat /\ LogTotal(sold, m) \in Nat
                        /\ LogTotal(log, m) <= LogTotal(sold, m)
                        /\ LogTotal(log, m) < LogTotal(sold, m)
                             <=> \E d \in MonthDays(m) : log[d] < sold[d]
  BY LogTotals DEF IncomeTypes, LogWithin
<1>2. \A m \in Months : ram.vendo[m] \in Nat /\ nvs.vendo[m] \in Nat /\ ram'.vendo[m] \in Nat
  BY DEF IncomeTypes
<1>3. ASSUME NEW m \in Months, ram'.vendo[m] < nvs.vendo[m]
      PROVE  \/ LogTotal(log, m) > 0 /\ \E d \in MonthDays(m) : log[d] < sold[d]
             \/ m \in lowered \cup lowered'
  <2>1. CASE ram'.vendo[m] < ram.vendo[m]
    <3>1. CASE m \in lowered'
      BY <3>1
    <3>2. CASE LogTotal(log, m) > 0 /\ ram'.vendo[m] = LogTotal(log, m)
      <4>1. nvs.vendo[m] <= LogTotal(sold, m)
        BY DEF VendoWithin
      <4>2. LogTotal(log, m) < LogTotal(sold, m)
        BY <1>1, <1>2, <1>3, <3>2, <4>1
      <4> QED BY <1>1, <3>2, <4>2
    <3> QED BY <2>1, <3>1, <3>2
  <2>2. CASE ~(ram'.vendo[m] < ram.vendo[m])
    <3>1. ram.vendo[m] < nvs.vendo[m]
      BY <1>2, <1>3, <2>2
    <3> QED BY <3>1 DEF VendoBehind
  <2> QED BY <2>1, <2>2
<1>4. IncomeTypes' /\ LogWithin'
  BY DEF IncomeTypes, LogWithin
<1>5. \A m \in Months : ram'.vendo[m] <= LogTotal(sold, m) /\ nvs'.vendo[m] <= LogTotal(sold, m)
  BY DEF VendoWithin
<1>6. VendoWithin'  BY <1>5 DEF VendoWithin
<1>7. ASSUME NEW m \in Months, ram'.vendo[m] < nvs'.vendo[m]
      PROVE  \/ LogTotal(log, m) > 0 /\ \E d \in MonthDays(m) : log[d] < sold[d]
             \/ m \in lowered'
  <2>1. nvs'.vendo # ram'.vendo
    BY <1>2, <1>7
  <2> QED BY <1>3, <1>7, <2>1
<1>8. VendoBehind'  BY <1>7 DEF VendoBehind, MonthDays
<1>9. \A m \in Months : nvs'.vendo[m] < nvs.vendo[m] => ram'.vendo[m] < nvs.vendo[m]
  BY <1>2
<1>10. VendoFalls  BY <1>1, <1>3, <1>9 DEF VendoFalls
<1> QED BY <1>4, <1>6, <1>8, <1>10

\* Sales are made: the log may follow, and no total falls.
LEMMA SaleVendo == ASSUME VendoInv, NEW written \in BOOLEAN, Sale(written) PROVE VendoInv'
<1> USE DEF VendoInv
<1>1. UNCHANGED <<day, ram, nvs, flash, mig, lowered>>  BY DEF Sale, history
<1>2. sold' \in DayCounts /\ log' \in DayCounts
  BY DEF Sale, IncomeTypes, DayCounts
<1>3. ASSUME NEW d \in Days
      PROVE  /\ sold[d] <= sold'[d] /\ log[d] <= log'[d] /\ log'[d] <= sold'[d]
             /\ log[d] < sold[d] => log'[d] < sold'[d]
             /\ flash.saved[d] <= sold'[d]
  <2>1. /\ log[d] \in Nat /\ sold[d] \in Nat /\ flash.saved[d] \in Nat
        /\ log[d] <= sold[d] /\ flash.saved[d] <= sold[d]
    BY DEF IncomeTypes, DayCounts, LogWithin
  <2>2. sold'[d] = IF d = day THEN sold[d] + 1 ELSE sold[d]
    BY DEF Sale, IncomeTypes, DayCounts
  <2>3. log'[d] = IF written /\ d = day THEN log[d] + 1 ELSE log[d]
    BY DEF Sale, IncomeTypes, DayCounts
  <2> QED BY <2>1, <2>2, <2>3
<1>4. IncomeTypes'  BY <1>1, <1>2 DEF IncomeTypes
<1>5. LogWithin'  BY <1>1, <1>3 DEF LogWithin
<1>6. ASSUME NEW m \in Months
      PROVE  /\ LogTotal(sold, m) \in Nat /\ LogTotal(sold', m) \in Nat
             /\ LogTotal(log, m) \in Nat /\ LogTotal(log', m) \in Nat
             /\ LogTotal(sold, m) <= LogTotal(sold', m) /\ LogTotal(log, m) <= LogTotal(log', m)
             /\ ram.vendo[m] \in Nat /\ nvs.vendo[m] \in Nat
  BY <1>2, <1>3, LogTotals DEF IncomeTypes
<1>7. \A m \in Months : /\ ram.vendo[m] <= LogTotal(sold', m) /\ nvs.vendo[m] <= LogTotal(sold', m)
                        /\ mig.total[m] \in Nat /\ mig.total[m] <= LogTotal(sold', m)
  BY <1>6 DEF VendoWithin
<1>8. VendoWithin'  BY <1>1, <1>7 DEF VendoWithin
<1>9. \A m \in Months : ram.vendo[m] < nvs.vendo[m] =>
        \/ LogTotal(log', m) > 0 /\ \E d \in MonthDays(m) : log'[d] < sold'[d]
        \/ m \in lowered
  BY <1>3, <1>6, MonthFinite DEF VendoBehind
<1>10. VendoBehind'  BY <1>1, <1>9 DEF VendoBehind, MonthDays
<1> QED BY <1>4, <1>5, <1>8, <1>10

\* A restart with the files l: what is left of the log is part of what was sold, and RAM
\* is what NVS says.
LEMMA BootVendo ==
  ASSUME VendoInv, NEW l \in DayCounts, \A d \in Days : l[d] <= sold[d], Boot(l)
  PROVE  VendoInv' /\ nvs' = nvs
<1> USE DEF VendoInv
<1>1. /\ ram' = nvs /\ flash' = NoFlash /\ mig' = NoMig /\ UNCHANGED <<day, sold, nvs>>
      /\ log' \in Purged(l)
  BY DEF Boot
<1>2. EmptyLog \in DayCounts /\ \A d \in Days : EmptyLog[d] <= sold[d]
  BY DEF EmptyLog, DayCounts, IncomeTypes
<1>3. log' \in DayCounts /\ \A d \in Days : log'[d] <= sold[d]
  BY <1>1, <1>2 DEF Purged, DayCounts, IncomeTypes
<1>4. flash'.saved = EmptyLog /\ mig'.todo = {}  BY <1>1 DEF NoFlash, NoMig
<1>5. IncomeTypes'  BY <1>1, <1>2, <1>3, <1>4 DEF IncomeTypes
<1>6. LogWithin'  BY <1>1, <1>2, <1>3, <1>4 DEF LogWithin
<1>7. VendoWithin'
  <2>1. \A m \in Months : LogTotal(sold, m) \in Nat
    BY LogTotals DEF IncomeTypes, DayCounts
  <2>2. \A m \in Months : mig'.total[m] = 0
    BY <1>1 DEF NoMig
  <2> QED BY <1>1, <2>1, <2>2 DEF VendoWithin
<1>8. VendoBehind'  BY <1>1 DEF VendoBehind, IncomeTypes
<1> QED BY <1>1, <1>5, <1>6, <1>7, <1>8

\* What an import makes of either side of the income: the months it has, over the stored.
LEMMA IncomeOver ==
  ASSUME NEW M, M \subseteq Months, NEW b \in [M -> Nat], NEW old \in [Months -> Nat]
  PROVE  /\ Over(b, old) \in [Months -> Nat]
         /\ \A m \in Months : Over(b, old)[m] = IF m \in M THEN b[m] ELSE old[m]
BY DEF Over

\* An import is a step of the record as RecordVendo describes it.
LEMMA ImportVendo ==
  ASSUME Inv, VendoInv, UNCHANGED <<day, log, sold, flash>>,
         mig'.todo \in SUBSET Months, mig'.total = mig.total,
         NEW copy, NEW voucher, NEW saved \in BOOLEAN,
         NEW M, M \subseteq Months, NEW vendo \in [M -> Nat],
         \A m \in M : vendo[m] <= LogTotal(sold, m),
         MoneyImport(copy, vendo, voucher, saved)
  PROVE  VendoInv' /\ VendoFalls
<1>1. ram'.vendo = Over(vendo, ram.vendo)
  BY DEF MoneyImport, Save, Inv, Types, RecordOK
<1>2. /\ nvs' = ram' \/ nvs' = nvs
      /\ lowered \subseteq lowered'
      /\ \A m \in Months : ram'.vendo[m] < ram.vendo[m] => m \in lowered'
  BY DEF MoneyImport, Save
<1>3. ram.vendo \in [Months -> Nat]
  BY DEF VendoInv, IncomeTypes
<1>4. /\ ram'.vendo \in [Months -> Nat]
      /\ \A m \in Months : ram'.vendo[m] = IF m \in M THEN vendo[m] ELSE ram.vendo[m]
  BY <1>1, <1>3, IncomeOver
<1>5. \A m \in Months : /\ ram'.vendo[m] <= LogTotal(sold, m)
                        /\ mig'.total[m] \in Nat /\ mig'.total[m] <= LogTotal(sold, m)
  BY <1>4 DEF VendoInv, VendoWithin
<1>6. nvs'.vendo = ram'.vendo \/ nvs'.vendo = nvs.vendo
  BY <1>2
<1> QED BY <1>2, <1>4, <1>5, <1>6, RecordVendo

\* Applying an answer and marking the migration leave the coin income in RAM alone, and a
\* rollup takes the log's totals.
LEMMA RecordSteps ==
  ASSUME Inv, VendoInv,
         Apply \/ \E ok \in BOOLEAN : MigrateMark(ok) \/ Income(ok)
  PROVE  VendoInv' /\ VendoFalls
<1>1. /\ DOMAIN ram = {"groups", "vendo", "voucher", "migrated"}
      /\ ram.vendo \in [Months -> Nat] /\ mig.todo \in SUBSET Months
  BY DEF Inv, Types, RecordOK, VendoInv, IncomeTypes
<1>2. \A m \in Months : /\ LogTotal(log, m) \in Nat /\ LogTotal(log, m) <= LogTotal(sold, m)
                        /\ LogTotal(sold, m) \in Nat
                        /\ ram.vendo[m] <= LogTotal(sold, m)
                        /\ mig.total[m] \in Nat /\ mig.total[m] <= LogTotal(sold, m)
                        /\ NoMig.total[m] = 0
  BY LogTotals DEF VendoInv, IncomeTypes, LogWithin, VendoWithin, NoMig
<1>3. ASSUME UNCHANGED <<day, log, sold, flash, lowered>>, mig' \in {mig, NoMig},
             ram'.vendo = ram.vendo, nvs' = ram' \/ nvs' = nvs
      PROVE  VendoInv' /\ VendoFalls
  <2>1. /\ mig'.todo \in SUBSET Months
        /\ \A m \in Months : mig'.total[m] \in Nat /\ mig'.total[m] <= LogTotal(sold, m)
    BY <1>1, <1>2, <1>3 DEF NoMig
  <2>2. \A m \in Months : ~(ram'.vendo[m] < ram.vendo[m])
    BY <1>1, <1>3
  <2>3. nvs'.vendo = ram'.vendo \/ nvs'.vendo = nvs.vendo
    BY <1>3
  <2> QED BY <1>1, <1>2, <1>3, <2>1, <2>2, <2>3, RecordVendo
<1>4. CASE Apply
  <2>1. PICK grp : ram' = [ram EXCEPT !.groups = grp]  BY <1>4 DEF Apply
  <2>2. ram'.vendo = ram.vendo  BY <1>1, <2>1
  <2>3. UNCHANGED <<day, log, sold, flash, nvs, mig, lowered>>  BY <1>4 DEF Apply, world, history
  <2> QED BY <1>3, <2>2, <2>3
<1>5. ASSUME NEW ok \in BOOLEAN, MigrateMark(ok) PROVE VendoInv' /\ VendoFalls
  <2>1. ram' = [ram EXCEPT !.migrated = TRUE]  BY <1>5 DEF MigrateMark, Save
  <2>2. ram'.vendo = ram.vendo  BY <1>1, <2>1
  <2>3. UNCHANGED <<day, log, sold, flash, lowered>> /\ mig' = NoMig /\ (nvs' = ram' \/ nvs' = nvs)
    BY <1>5 DEF MigrateMark, Save, world, history
  <2> QED BY <1>3, <2>2, <2>3
<1>6. ASSUME NEW ok \in BOOLEAN, Income(ok) PROVE VendoInv' /\ VendoFalls
  <2> DEFINE v == [m \in Months |->
                     IF LogTotal(log, m) > 0 THEN LogTotal(log, m) ELSE ram.vendo[m]]
  <2>1. PICK w : ram' = [ram EXCEPT !.vendo = v, !.voucher = w]
    BY <1>6 DEF Income, Save, IncomeSet, VendoIncome
  <2>2. ram'.vendo = v
    <3> HIDE DEF v
    <3> QED BY <1>1, <2>1
  <2>3. v \in [Months -> Nat]  BY <1>1, <1>2
  <2>4. \A m \in Months : /\ v[m] <= LogTotal(sold, m)
                          /\ v[m] < ram.vendo[m] => LogTotal(log, m) > 0 /\ v[m] = LogTotal(log, m)
    BY <1>1, <1>2
  <2> HIDE DEF v
  <2>5. UNCHANGED <<day, log, sold, flash, mig>>
    BY <1>6 DEF Income, world
  <2>6. /\ nvs'.vendo = ram'.vendo \/ nvs'.vendo = nvs.vendo
        /\ lowered \subseteq lowered' \/ nvs'.vendo = ram'.vendo
    BY <1>6 DEF Income, Save
  <2> QED BY <1>1, <1>2, <2>2, <2>3, <2>4, <2>5, <2>6, RecordVendo
<1> QED BY <1>4, <1>5, <1>6

\* Every step keeps the invariant, and lowers a month of NVS only for a part of the month
\* in the log or by an import.
LEMMA VendoStep == ASSUME Inv, VendoInv, [Next]_vars PROVE VendoInv' /\ VendoFalls
<1>0. ASSUME nvs' = nvs, VendoInv' PROVE VendoInv' /\ VendoFalls
  BY <1>0 DEF VendoInv, IncomeTypes, VendoFalls
<1>1. ASSUME UNCHANGED <<log, sold, flash, ram, nvs, mig, lowered>>, day' \in Days
      PROVE  VendoInv' /\ VendoFalls
  <2>1. VendoInv'
    BY <1>1 DEF VendoInv, IncomeTypes, LogWithin, VendoWithin, VendoBehind, MonthDays, LogTotal
  <2> QED BY <1>0, <1>1, <2>1
<1>2. CASE DayPasses
  <2>1. day' \in Days  BY <1>2, StoreAssumption DEF DayPasses, VendoInv, IncomeTypes, Days
  <2> QED BY <1>1, <1>2, <2>1 DEF DayPasses, history
<1>3. CASE \/ FetchFailed \/ UNCHANGED vars
           \/ \E g \in Groups : Redeem(g) \/ DeleteGroup(g)
           \/ \E sent \in SUBSET Groups : Fetch(sent)
           \/ \E sent \in SUBSET Groups, h \in Groups, n \in 0 .. MaxUsed :
                \E m \in {Created[h], NoMonth} : FetchCut(sent, h, n, m)
  <2>1. UNCHANGED <<day, log, sold, flash, ram, nvs, mig, lowered>>
    BY <1>3 DEF FetchFailed, Redeem, DeleteGroup, Fetch, FetchCut, vars, world, history
  <2> QED BY <1>1, <2>1 DEF VendoInv, IncomeTypes
<1>4. CASE \E ok \in BOOLEAN : Sale(ok)
  <2>1. nvs' = nvs  BY <1>4 DEF Sale
  <2> QED BY <1>0, <1>4, <2>1, SaleVendo
<1>5. CASE Apply \/ \E ok \in BOOLEAN : MigrateMark(ok) \/ Income(ok)
  BY <1>5, RecordSteps
<1>6. CASE FsUpload
  <2>1. UNCHANGED <<day, log, sold, ram, nvs, mig, lowered>> /\ flash'.saved = log
    BY <1>6 DEF FsUpload, world, history
  <2>2. IncomeTypes' /\ LogWithin'
    BY <2>1 DEF VendoInv, IncomeTypes, LogWithin
  <2>3. VendoWithin' /\ VendoBehind'
    BY <2>1 DEF VendoInv, VendoWithin, VendoBehind, MonthDays, LogTotal
  <2> QED BY <1>0, <2>1, <2>2, <2>3 DEF VendoInv
<1>7. CASE Restart \/ FsFlash
  <2>1. PICK l \in {log, EmptyLog, flash.saved} : Boot(l)
    BY <1>7 DEF Restart, FsFlash
  <2>2. l \in DayCounts /\ \A d \in Days : l[d] <= sold[d]
    BY DEF EmptyLog, DayCounts, VendoInv, IncomeTypes, LogWithin
  <2> QED BY <1>0, <2>1, <2>2, BootVendo
<1>8. CASE MigrateStart
  <2>1. /\ UNCHANGED <<day, log, sold, flash, ram, nvs, lowered>>
        /\ mig' = [on |-> TRUE, todo |-> {m \in Months : LogTotal(log, m) > 0},
                   total |-> [m \in Months |-> LogTotal(log, m)]]
    BY <1>8 DEF MigrateStart, world, history
  <2>2. /\ mig'.todo \in SUBSET Months
        /\ \A m \in Months : mig'.total[m] = LogTotal(log, m)
    BY <2>1
  <2>3. \A m \in Months : LogTotal(log, m) \in Nat /\ LogTotal(log, m) <= LogTotal(sold, m)
    BY LogTotals DEF VendoInv, IncomeTypes, LogWithin
  <2>4. IncomeTypes' /\ LogWithin'
    BY <2>1, <2>2 DEF VendoInv, IncomeTypes, LogWithin
  <2>5. VendoWithin'
    BY <2>1, <2>2, <2>3 DEF VendoInv, VendoWithin
  <2>6. VendoBehind'
    BY <2>1 DEF VendoInv, VendoBehind, MonthDays
  <2> QED BY <1>0, <2>1, <2>4, <2>5, <2>6 DEF VendoInv
<1>9. ASSUME NEW ok \in BOOLEAN, Import(ok) PROVE VendoInv' /\ VendoFalls
  <2>1. PICK copy \in Backups, vendo \in VendoBackups, voucher \in VoucherBackups :
          MoneyImport(copy, vendo, voucher, ok)
    BY <1>9 DEF Import
  <2>2. UNCHANGED <<day, log, sold, flash, mig>>
    BY <1>9 DEF Import, world
  <2>3. PICK M \in SUBSET Months : vendo \in [M -> 0 .. MaxIncome]
    BY DEF VendoBackups, IncomeBackups
  <2>4. \A m \in M : vendo[m] <= LogTotal(sold, m)
    BY <2>3 DEF VendoBackups, IncomeBackups
  <2>5. vendo \in [M -> Nat]
    BY <2>3, StoreAssumption
  <2>6. mig'.todo \in SUBSET Months /\ mig'.total = mig.total
    BY <2>2 DEF VendoInv, IncomeTypes
  <2> QED BY <2>1, <2>2, <2>4, <2>5, <2>6, ImportVendo
<1>10. ASSUME NEW m \in Months, NEW ok \in BOOLEAN, MigrateMonth(m, ok)
       PROVE  VendoInv' /\ VendoFalls
  <2> DEFINE v == [k \in {m} |-> mig.total[k]]
  <2>1. MoneyImport(EmptyRecord.groups, v, NoIncome, ok) /\ UNCHANGED <<day, log, sold, flash>>
    BY <1>10 DEF MigrateMonth, world
  <2>2. mig.total[m] \in Nat /\ mig.total[m] <= LogTotal(sold, m) /\ mig.todo \in SUBSET Months
    BY DEF VendoInv, VendoWithin, IncomeTypes
  <2>3. v \in [{m} -> Nat] /\ v[m] <= LogTotal(sold, m)
    BY <2>2
  <2>4. mig'.todo \in SUBSET Months /\ mig'.total = mig.total
    <3>1. mig' = [mig EXCEPT !.todo = mig.todo \ {m}] /\ m \in mig.todo
      BY <1>10 DEF MigrateMonth
    <3>2. mig.on /\ mig.todo # {}
      BY <1>10 DEF MigrateMonth
    <3> QED BY <2>2, <3>1
  <2> HIDE DEF v
  <2> QED BY <2>1, <2>3, <2>4, ImportVendo
<1> QED BY <1>2, <1>3, <1>4, <1>5, <1>6, <1>7, <1>8, <1>9, <1>10 DEF Next
-----------------------------------------------------------------------------
(* The voucher income.                                                       *)

\* No month of a record has more voucher income than was redeemed of its groups.
VoucherInv ==
    /\ ram.voucher \in [Months -> Nat] /\ nvs.voucher \in [Months -> Nat]
    /\ \A m \in Months : ram.voucher[m] <= Spent(m) /\ nvs.voucher[m] <= Spent(m)

\* What was redeemed is a number, and only grows.
LEMMA SpentGrows ==
  ASSUME Inv, Inv', NEW m, \A g \in Groups : ctl[g].used <= ctl'[g].used
  PROVE  Spent(m) \in Nat /\ Spent(m)' \in Nat /\ Spent(m) <= Spent(m)'
<1> DEFINE f == [g \in Groups |-> IF Created[g] = m THEN ctl[g].used ELSE 0]
           h == [g \in Groups |-> IF Created[g] = m THEN ctl'[g].used ELSE 0]
<1>1. \A g \in Groups : ctl[g].used \in Nat /\ ctl'[g].used \in Nat
  BY DEF Inv, Types
<1>2. \A g \in Groups : f[g] \in Nat /\ h[g] \in Nat /\ f[g] <= h[g]
  BY <1>1
<1>3. Spent(m) = SumFunctionOnSet(f, Groups) /\ Spent(m)' = SumFunctionOnSet(h, Groups)
  BY DEF Spent
<1> HIDE DEF f, h
<1> QED BY <1>2, <1>3, StoreAssumption, SumNat, SumOrder

\* A month's income from the groups of the record, for all the entries that may be too
\* low, or have lost their month, is at most what was redeemed.
LEMMA RedeemedSpent ==
  ASSUME Inv, NEW m \in Months
  PROVE  /\ Redeemed(ram.groups, m) \in Nat
         /\ Redeemed(ram.groups, m) <= Spent(m)
<1> DEFINE f == [g \in Groups |->
                   IF ram.groups[g].month = m THEN ram.groups[g].used ELSE 0]
           h == [g \in Groups |-> IF Created[g] = m THEN ctl[g].used ELSE 0]
<1>1. m # NoMonth
  <2>1. m \in Nat
    <3>1. PICK d \in Days : m = d \div MonthLength
      BY DEF Months, MonthOf
    <3>2. d \in Nat /\ MonthLength \in Nat \ {0}
      BY StoreAssumption DEF Days
    <3> QED BY <3>1, <3>2
  <2> QED BY <2>1, StoreAssumption
<1>2. ASSUME NEW g \in Groups PROVE f[g] \in Nat /\ h[g] \in Nat /\ f[g] <= h[g]
  <2>1. /\ ram.groups[g].used \in Nat /\ ctl[g].used \in Nat
        /\ ram.groups[g].used <= ctl[g].used
        /\ ram.groups[g].month \in {Created[g], NoMonth}
    BY DEF Inv, Types, Counts, EntryOK, RecordOK, Entry
  <2>2. ram.groups[g].month = m => Created[g] = m
    BY <1>1, <2>1
  <2> QED BY <2>1, <2>2
<1>3. /\ Redeemed(ram.groups, m) = SumFunctionOnSet(f, Groups)
      /\ Spent(m) = SumFunctionOnSet(h, Groups)
  BY DEF Spent, Redeemed
<1> HIDE DEF f, h
<1> QED BY <1>2, <1>3, StoreAssumption, SumNat, SumOrder

\* A record that has no more income than was redeemed may replace RAM, and NVS with it.
LEMMA RecordVoucher ==
  ASSUME Inv, VoucherInv, UNCHANGED ctl,
         ram'.voucher \in [Months -> Nat],
         \A m \in Months : ram'.voucher[m] <= Spent(m),
         nvs' = ram' \/ nvs'.voucher = nvs.voucher
  PROVE  VoucherInv'
<1>1. \A m : Spent(m)' = Spent(m)
  BY DEF Spent
<1> QED BY <1>1 DEF VoucherInv

\* An import of months of income, of which no backup has more than was redeemed.
LEMMA ImportVoucher ==
  ASSUME Inv, VoucherInv, UNCHANGED ctl, NEW copy, NEW vendo, NEW saved \in BOOLEAN,
         NEW M, M \subseteq Months, NEW voucher \in [M -> Nat],
         \A m \in M : voucher[m] <= Spent(m),
         MoneyImport(copy, vendo, voucher, saved)
  PROVE  VoucherInv'
<1>1. /\ ram'.voucher = Over(voucher, ram.voucher)
      /\ nvs' = ram' \/ nvs' = nvs
  BY DEF MoneyImport, Save, Inv, Types, RecordOK
<1>2. /\ ram.voucher \in [Months -> Nat]
      /\ \A m \in Months : ram.voucher[m] <= Spent(m)
  BY DEF VoucherInv
<1>3. /\ ram'.voucher \in [Months -> Nat]
      /\ \A m \in Months : ram'.voucher[m] = IF m \in M THEN voucher[m] ELSE ram.voucher[m]
  BY <1>1, <1>2, IncomeOver
<1>4. \A m \in Months : ram'.voucher[m] <= Spent(m)
  BY <1>2, <1>3
<1> QED BY <1>1, <1>3, <1>4, RecordVoucher

\* The end of a rollup adds up the counts RAM has.
LEMMA IncomeVoucher ==
  ASSUME Inv, VoucherInv, NEW ok \in BOOLEAN, Income(ok)
  PROVE  VoucherInv'
<1> DEFINE w == [m \in Months |-> Redeemed(ram.groups, m)]
<1>1. DOMAIN ram = {"groups", "vendo", "voucher", "migrated"}
  BY DEF Inv, Types, RecordOK
<1>2. PICK v : ram' = [ram EXCEPT !.vendo = v, !.voucher = w]
  BY DEF Income, Save, IncomeSet, VoucherIncome
<1>3. ram'.voucher = w
  <2> HIDE DEF w
  <2> QED BY <1>1, <1>2
<1>4. \A m \in Months : w[m] \in Nat /\ w[m] <= Spent(m)
  BY RedeemedSpent
<1>5. w \in [Months -> Nat]
  BY <1>4
<1> HIDE DEF w
<1>6. UNCHANGED ctl /\ (nvs' = ram' \/ nvs' = nvs)
  BY DEF Income, Save, world
<1> QED BY <1>3, <1>4, <1>5, <1>6, RecordVoucher

\* Every step keeps the income of the months within what was redeemed.
LEMMA VoucherStep == ASSUME Inv, VoucherInv, [Next]_vars PROVE VoucherInv'
<1>0. Inv' /\ ctl \in [Groups -> [live : BOOLEAN, used : Nat]]
  BY NextInv DEF Inv, Types
<1>1. ASSUME UNCHANGED <<nvs, ctl>>, ram'.voucher \in {ram.voucher, nvs.voucher}
      PROVE  VoucherInv'
  <2>1. \A m : Spent(m)' = Spent(m)
    BY <1>1 DEF Spent
  <2> QED BY <1>1, <2>1 DEF VoucherInv
<1>2. ASSUME \/ DayPasses \/ FetchFailed \/ FsUpload \/ MigrateStart \/ UNCHANGED vars
             \/ \E ok \in BOOLEAN : Sale(ok)
             \/ \E g \in Groups : DeleteGroup(g) \/ Redeem(g)
             \/ \E sent \in SUBSET Groups : Fetch(sent)
             \/ \E sent \in SUBSET Groups, h \in Groups, n \in 0 .. MaxUsed :
                  \E m \in {Created[h], NoMonth} : FetchCut(sent, h, n, m)
      PROVE  VoucherInv'
  <2>1. UNCHANGED <<ram, nvs>>
    BY <1>2 DEF DayPasses, FetchFailed, FsUpload, MigrateStart, Sale, DeleteGroup, Redeem,
                Fetch, FetchCut, vars, world
  <2>2. ASSUME NEW g \in Groups PROVE ctl[g].used <= ctl'[g].used
    <3>1. ctl[g].used \in Nat
      BY <1>0
    <3>2. ctl' = ctl \/ \E h \in Groups : DeleteGroup(h) \/ Redeem(h)
      BY <1>2 DEF DayPasses, FetchFailed, FsUpload, MigrateStart, Sale, Fetch, FetchCut,
                  vars, world
    <3>3. CASE ctl' = ctl
      BY <3>1, <3>3
    <3>4. ASSUME NEW h \in Groups, DeleteGroup(h) PROVE ctl[g].used <= ctl'[g].used
      <4>1. ctl' = [ctl EXCEPT ![h].live = FALSE]
        BY <3>4 DEF DeleteGroup
      <4>2. ctl'[g].used = ctl[g].used
        BY <1>0, <4>1
      <4> QED BY <3>1, <4>2
    <3>5. ASSUME NEW h \in Groups, Redeem(h) PROVE ctl[g].used <= ctl'[g].used
      <4>1. ctl' = [ctl EXCEPT ![h].used = ctl[h].used + 1]
        BY <3>5 DEF Redeem
      <4> QED BY <1>0, <3>1, <4>1
    <3> QED BY <3>2, <3>3, <3>4, <3>5
  <2>3. \A m \in Months : Spent(m) \in Nat /\ Spent(m)' \in Nat /\ Spent(m) <= Spent(m)'
    BY <1>0, <2>2, SpentGrows
  <2>4. \A m \in Months : ram.voucher[m] \in Nat /\ nvs.voucher[m] \in Nat
                          /\ ram.voucher[m] <= Spent(m) /\ nvs.voucher[m] <= Spent(m)
    BY DEF VoucherInv
  <2>5. \A m \in Months : ram.voucher[m] <= Spent(m)' /\ nvs.voucher[m] <= Spent(m)'
    BY <2>3, <2>4
  <2> QED BY <2>1, <2>5 DEF VoucherInv
<1>3. CASE Apply \/ \E ok \in BOOLEAN : MigrateMark(ok)
  <2>1. DOMAIN ram = {"groups", "vendo", "voucher", "migrated"}
    BY DEF Inv, Types, RecordOK
  <2>2. CASE Apply
    <3>1. PICK grp : ram' = [ram EXCEPT !.groups = grp]  BY <2>2 DEF Apply
    <3>2. ram'.voucher = ram.voucher  BY <2>1, <3>1
    <3>3. UNCHANGED <<ctl, nvs>>  BY <2>2 DEF Apply, world
    <3> QED BY <1>1, <3>2, <3>3
  <2>3. ASSUME NEW ok \in BOOLEAN, MigrateMark(ok) PROVE VoucherInv'
    <3>1. ram' = [ram EXCEPT !.migrated = TRUE]  BY <2>3 DEF MigrateMark, Save
    <3>2. ram'.voucher = ram.voucher  BY <2>1, <3>1
    <3>3. UNCHANGED ctl /\ (nvs' = ram' \/ nvs' = nvs)
      BY <2>3 DEF MigrateMark, Save, world
    <3> QED BY <3>2, <3>3, RecordVoucher DEF VoucherInv
  <2> QED BY <1>3, <2>2, <2>3
<1>4. CASE \E ok \in BOOLEAN : Income(ok)  BY <1>4, IncomeVoucher
<1>5. CASE Restart \/ FsFlash
  <2>1. ram' = nvs /\ UNCHANGED <<nvs, ctl>>
    BY <1>5 DEF Restart, FsFlash, Boot
  <2> QED BY <1>1, <2>1
<1>6. ASSUME NEW ok \in BOOLEAN, Import(ok) PROVE VoucherInv'
  <2>1. PICK copy \in Backups, vendo \in VendoBackups, voucher \in VoucherBackups :
          MoneyImport(copy, vendo, voucher, ok)
    BY <1>6 DEF Import
  <2>2. UNCHANGED ctl
    BY <1>6 DEF Import, world
  <2>3. PICK M \in SUBSET Months : voucher \in [M -> 0 .. MaxIncome]
    BY DEF VoucherBackups, IncomeBackups
  <2>4. \A m \in M : voucher[m] <= Spent(m)
    BY <2>3 DEF VoucherBackups, IncomeBackups
  <2>5. voucher \in [M -> Nat]
    BY <2>3, StoreAssumption
  <2> QED BY <2>1, <2>2, <2>4, <2>5, ImportVoucher
<1>7. ASSUME NEW m \in Months, NEW ok \in BOOLEAN, MigrateMonth(m, ok) PROVE VoucherInv'
  <2>1. MoneyImport(EmptyRecord.groups, [k \in {m} |-> mig.total[k]], NoIncome, ok)
        /\ UNCHANGED ctl
    BY <1>7 DEF MigrateMonth, world
  <2>2. NoIncome \in [{} -> Nat]
    BY DEF NoIncome
  <2> QED BY <2>1, <2>2, ImportVoucher
<1> QED BY <1>2, <1>3, <1>4, <1>5, <1>6, <1>7 DEF Next
-----------------------------------------------------------------------------
\* What a rollup saved of a group is not lowered or dropped again (moneyImport,
\* moneyNightlyRollup, moneyStoreSave and a restart between any two of their steps),
\* but for a group inside whose entry an answer was cut off (getVoucherGroupsJson), and
\* for that one only until a rollup has saved a count as high as before.
THEOREM RollupsAreKept == Spec => []RolledUpKept
<1>1. Inv => RolledUpKept
  <2> SUFFICES ASSUME Inv, NEW g \in Groups
               PROVE  nvs.groups[g].used >= rolled[g] \/ g \in cutOff
    BY DEF RolledUpKept
  <2>1. EntryOK(nvs.groups[g], g) /\ rolled[g] \in Nat /\ nvs.groups[g].used \in Nat
    BY DEF Inv, Types, Counts, RecordOK, Entry
  <2> QED
    BY <2>1 DEF EntryOK
<1> QED
  BY <1>1, AlwaysInv, PTL

\* moneyMarkAbsent freezes a group only when the controller no longer has it or an
\* answer has left it out, through any imports, restarts and answers cut off.
THEOREM FreezesOnlyAbsent == Spec => []FrozenWhenAbsent
<1>1. Inv => FrozenWhenAbsent
  BY DEF Inv, Counts, EntryOK, Absent, FrozenWhenAbsent
<1> QED
  BY <1>1, AlwaysInv, PTL

\* The voucher income saved for a month is at most what was redeemed of its groups, for
\* any number of groups: rollups cut short, repeated or overtaken by imports of groups
\* and of income (moneySetIncome, moneyImport, a restart) count nothing twice.
THEOREM IncomeIsBacked == Spec => []VoucherBacked
<1>1. Init => VoucherInv
  <2> SUFFICES ASSUME Init PROVE VoucherInv  OBVIOUS
  <2>1. Inv  BY InitInv
  <2>2. ram.voucher = [m \in Months |-> 0] /\ nvs.voucher = [m \in Months |-> 0]
    BY DEF Init, EmptyRecord
  <2>3. ASSUME NEW m \in Months PROVE Spent(m) \in Nat
    <3>1. Redeemed(ram.groups, m) \in Nat /\ Redeemed(ram.groups, m) <= Spent(m)
      BY <2>1, RedeemedSpent
    <3> DEFINE h == [g \in Groups |-> IF Created[g] = m THEN ctl[g].used ELSE 0]
    <3>2. \A g \in Groups : h[g] \in Nat
      BY <2>1 DEF Inv, Types
    <3>3. Spent(m) = SumFunctionOnSet(h, Groups)
      BY DEF Spent
    <3> HIDE DEF h
    <3> QED BY <3>2, <3>3, StoreAssumption, SumNat
  <2> QED BY <2>2, <2>3 DEF VoucherInv
<1>2. Inv /\ VoucherInv => VoucherBacked
  BY DEF VoucherInv, VoucherBacked
<1>3. Inv /\ VoucherInv /\ [Next]_vars => VoucherInv'
  BY VoucherStep
<1> QED
  BY <1>1, <1>2, <1>3, AlwaysInv, PTL DEF Spec

\* No step lowers the saved coin income of a month unless the sale log holds a part of
\* the month's sales (moneyVendoMonths, moneySetIncome, a lost log) or moneyImport has
\* lowered it since the last rollup.
THEOREM CoinIncomeIsKept == Spec => VendoKept
<1>1. Init => VendoInv
  <2> SUFFICES ASSUME Init PROVE VendoInv  OBVIOUS
  <2>1. IncomeTypes /\ LogWithin
    BY StoreAssumption
    DEF Init, IncomeTypes, LogWithin, DayCounts, EmptyLog, EmptyRecord, NoFlash, NoMig, Days
  <2>2. \A m \in Months : ram.vendo[m] = 0 /\ nvs.vendo[m] = 0 /\ mig.total[m] = 0
    BY DEF Init, EmptyRecord, NoMig
  <2>3. \A m \in Months : LogTotal(sold, m) \in Nat
    BY <2>1, LogTotals DEF IncomeTypes, DayCounts
  <2> QED BY <2>1, <2>2, <2>3 DEF VendoInv, VendoWithin, VendoBehind
<1>2. Inv /\ VendoInv /\ [Next]_vars => VendoInv'
  BY VendoStep
<1>3. Inv /\ VendoInv /\ [Next]_vars =>
        [\A m \in Months : nvs'.vendo[m] < nvs.vendo[m] =>
           \/ LogTotal(log, m) > 0 /\ LogTotal(log, m) < LogTotal(sold, m)
           \/ m \in lowered \cup lowered']_vars
  BY VendoStep DEF VendoFalls
<1> QED
  BY <1>1, <1>2, <1>3, AlwaysInv, PTL DEF Spec, VendoKept
=============================================================================
