----------------------------- MODULE MoneyStore -----------------------------
(***************************************************************************)
(* The money record: an entry per voucher group and per month, kept in RAM *)
(* (MONEY) and saved to NVS as one blob.  Every night loop() runs moneyNi- *)
(* ghtlyRollup: it reads the groups' use counts from the controller, adds  *)
(* what each seller sold to a journal, refreshes the months' income from   *)
(* the sale log and from the groups, and saves.  Beside it the HTTP task   *)
(* imports backups, migrates the sale log and flashes a new filesystem     *)
(* image, coinSessionTask appends sales, and a restart purges old entries. *)
(*                                                                         *)
(* The record is in NVS because the files do not last: the properties are  *)
(* about what it still says after groups were deleted, entries purged,     *)
(* files lost, answers cut short and the node restarted between two steps. *)
(* One sale is one coin, and a voucher costs one peso.                     *)
(***************************************************************************)
EXTENDS Naturals, FiniteSets, Functions

CONSTANTS
    Groups,       \* the AUTOGEN voucher groups
    Created,      \* the month a group was created in
    NoMonth,      \* an entry whose creation time or price an answer lost: no month's income
    MaxDay,       \* bound: the calendar stops there
    MonthLength,  \* days in a month
    KeepDays,     \* age at which setupLogs purges a sale
    MaxUsed,      \* bound: vouchers redeemed per group
    MaxSales,     \* bound: coins sold per day
    MaxIncome,    \* bound: income of a month in a backup
    LostMonths,   \* {NoMonth}, or {} as a bound: no backup has such an entry
    MaxJobs       \* bound: rollups, imports and migrations, in all

ASSUME StoreAssumption ==
    /\ MaxDay \in Nat /\ MonthLength \in Nat \ {0} /\ KeepDays \in Nat
    /\ MaxUsed \in Nat /\ MaxSales \in Nat /\ MaxJobs \in Nat
    /\ MaxIncome \in Nat
    /\ IsFiniteSet(Groups) /\ Created \in [Groups -> Nat] /\ NoMonth \notin Nat
    /\ LostMonths \subseteq {NoMonth}

Days       == 0 .. MaxDay
MonthOf(d) == d \div MonthLength
Months     == {MonthOf(d) : d \in Days}

VARIABLES
    day,
    ctl,       \* the controller's groups: live, used
    log,       \* /vendo_history.json: coins per day
    sold,      \* history: coins sold per day
    ram,       \* MONEY
    nvs,       \* the saved record
    mig,       \* handleAdminMoneyMigrate: on, the months left to write, their totals
    roll,      \* loop() inside moneyNightlyRollup: pc, the groups it was sent, what it read
    flash,     \* a scheduled filesystem update: due, and its copy of the sale log
    rolled,    \* history: the use counts saved by rollups
    leftOut,   \* history: groups the controller had when an answer left them out
    cutOff,    \* history: groups whose entry an answer lost a part of, until it is made good
    lowered,   \* history: months moneyImport lowered since a rollup or restart
    jobs       \* rollups, imports and migrations so far

world == <<day, ctl, log, sold>>
history == <<rolled, leftOut, cutOff, lowered>>
vars == <<world, ram, nvs, mig, roll, flash, history, jobs>>

NewGroup    == [in |-> FALSE, used |-> 0, month |-> NoMonth, deleted |-> FALSE]
\* moneyUpsertGroup replaces the whole entry.
Upserted(n, m, gone) == [in |-> TRUE, used |-> n, month |-> m, deleted |-> gone]
EmptyRecord == [groups |-> [g \in Groups |-> NewGroup],
                vendo |-> [m \in Months |-> 0], voucher |-> [m \in Months |-> 0],
                migrated |-> FALSE]
EmptyLog    == [d \in Days |-> 0]
NoCounts    == [g \in Groups |-> 0]
NothingRead == [g \in Groups |-> [used |-> 0, month |-> NoMonth]]
NoRoll      == [pc |-> "idle", sent |-> {}, read |-> NothingRead]
NoMig       == [on |-> FALSE, todo |-> {}, total |-> [m \in Months |-> 0]]
NoFlash     == [due |-> FALSE, saved |-> EmptyLog]

NoIncome    == [m \in {} |-> 0]

\* moneyVendoMonths.
LogTotal(l, m) == SumFunctionOnSet(l, {d \in Days : MonthOf(d) = m})

\* What was redeemed of the groups created in a month.
Spent(m) ==
    SumFunctionOnSet([g \in Groups |-> IF Created[g] = m THEN ctl[g].used ELSE 0], Groups)

Init ==
    /\ day = 0
    /\ ctl = [g \in Groups |-> [live |-> TRUE, used |-> 0]]
    /\ log = EmptyLog /\ sold = EmptyLog
    /\ ram = EmptyRecord /\ nvs = EmptyRecord
    /\ mig = NoMig /\ roll = NoRoll /\ flash = NoFlash
    /\ rolled = NoCounts /\ leftOut = {} /\ cutOff = {} /\ lowered = {} /\ jobs = 0
-----------------------------------------------------------------------------
(* The world around the record.                                            *)

OneMore == jobs < MaxJobs /\ jobs' = jobs + 1

DayPasses ==
    /\ day < MaxDay
    /\ day' = day + 1
    /\ UNCHANGED <<ctl, log, sold, ram, nvs, mig, roll, flash, history, jobs>>

Redeem(g) ==
    /\ ctl[g].live /\ ctl[g].used < MaxUsed
    /\ ctl' = [ctl EXCEPT ![g].used = @ + 1]
    /\ UNCHANGED <<day, log, sold, ram, nvs, mig, roll, flash, history, jobs>>

\* deleteVoucherGroup, from the admin page or on the controller.
DeleteGroup(g) ==
    /\ ctl[g].live
    /\ ctl' = [ctl EXCEPT ![g].live = FALSE]
    /\ UNCHANGED <<day, log, sold, ram, nvs, mig, roll, flash, history, jobs>>

\* appendSaleLog; a sale whose line cannot be written is lost.
Sale(written) ==
    /\ sold[day] < MaxSales
    /\ sold' = [sold EXCEPT ![day] = @ + 1]
    /\ log' = IF written THEN [log EXCEPT ![day] = @ + 1] ELSE log
    /\ UNCHANGED <<day, ctl, ram, nvs, mig, roll, flash, history, jobs>>
-----------------------------------------------------------------------------
(* The HTTP task: one request at a time.                                   *)

\* moneyStoreSave, which may fail.
Save(rec, saved) ==
    /\ ram' = rec
    /\ nvs' = IF saved THEN rec ELSE nvs

\* What a backup may say of a group (voucher_backup.py's archive, or the record as
\* handleAdminMoney exported it): nothing, or what was so at an earlier time.
GroupBackups(g) ==
    {NewGroup} \cup
    {e \in [in : {TRUE}, used : 0 .. ctl[g].used, month : {Created[g]} \cup LostMonths,
            deleted : BOOLEAN] : e.deleted => ~ctl[g].live \/ g \in leftOut}

Backups == {c \in [Groups -> UNION {GroupBackups(g) : g \in Groups}] :
              \A g \in Groups : c[g] \in GroupBackups(g)}

\* What it may say of either side of the income: any months, an earlier total for each.
IncomeBackups(total) ==
    {b \in UNION {[M -> 0 .. MaxIncome] : M \in SUBSET Months} :
        \A m \in DOMAIN b : b[m] <= total[m]}
VendoBackups   == IncomeBackups([m \in Months |-> LogTotal(sold, m)])
VoucherBackups == IncomeBackups([m \in Months |-> Spent(m)])

\* Fault: an import replaces whatever count the record has.
ImportedAlways(copy, g) == copy[g].in

\* moneyImport takes a group over when the record lacks it or has a lower count.
Imported(copy, g) ==
    copy[g].in /\ (~ram.groups[g].in \/ ram.groups[g].used < copy[g].used)

\* A side of the income that an import has of a month replaces what is stored.
Over(income, stored) == [m \in Months |-> IF m \in DOMAIN income THEN income[m] ELSE stored[m]]

\* moneyImport: groups are merged, income is replaced, and it ends in a save.
MoneyImport(copy, vendo, voucher, saved) ==
    /\ Save([ram EXCEPT
           !.groups  = [g \in Groups |-> IF Imported(copy, g) THEN copy[g] ELSE @[g]],
           !.vendo   = Over(vendo, @),
           !.voucher = Over(voucher, @)], saved)
    /\ lowered' = lowered \cup {m \in Months : ram'.vendo[m] < ram.vendo[m]}

\* handleAdminMoneyImport of a backup.
Import(saved) ==
    /\ ~mig.on /\ OneMore
    /\ LET v == VendoBackups
           w == VoucherBackups
       IN  \E copy \in Backups : \E vendo \in v, voucher \in w :
             MoneyImport(copy, vendo, voucher, saved)
    /\ UNCHANGED <<world, mig, roll, flash, rolled, leftOut, cutOff>>

\* handleAdminMoneyMigrate, unless it was done: the months of the sale log are added up.
MigrateStart ==
    /\ ~mig.on /\ ~ram.migrated /\ OneMore
    /\ mig' = [on |-> TRUE, todo |-> {m \in Months : LogTotal(log, m) > 0},
               total |-> [m \in Months |-> LogTotal(log, m)]]
    /\ UNCHANGED <<world, ram, nvs, roll, flash, history>>

\* One month after the other is imported and saved, with the total it had at the start.
MigrateMonth(m, saved) ==
    /\ mig.on /\ m \in mig.todo /\ \A k \in mig.todo : m <= k
    /\ MoneyImport(EmptyRecord.groups, [k \in {m} |-> mig.total[k]], NoIncome, saved)
    /\ mig' = [mig EXCEPT !.todo = @ \ {m}]
    /\ UNCHANGED <<world, roll, flash, rolled, leftOut, cutOff, jobs>>

\* The migration is marked as done, and the mark saved.
MigrateMark(saved) ==
    /\ mig.on /\ mig.todo = {}
    /\ Save([ram EXCEPT !.migrated = TRUE], saved)
    /\ mig' = NoMig
    /\ UNCHANGED <<world, roll, flash, history, jobs>>

\* /update-fs: the sale log is copied to PSRAM and the flash is scheduled.  (Without room
\* for the copy the flash loses the log, as it may with one.)
FsUpload ==
    /\ ~mig.on /\ ~flash.due
    /\ flash' = [due |-> TRUE, saved |-> log]
    /\ UNCHANGED <<world, ram, nvs, mig, roll, history, jobs>>
-----------------------------------------------------------------------------
(* moneyNightlyRollup, on loop()'s task.                                   *)

\* Fault: a failed fetch counts as an answer with no groups.
FetchFailedEmpty ==
    /\ roll.pc = "idle" /\ OneMore
    /\ roll' = [NoRoll EXCEPT !.pc = "apply"]
    /\ UNCHANGED <<world, ram, nvs, mig, flash, history>>

\* getVoucherGroupsJson fails, and the groups are left as they are.
FetchFailed ==
    /\ roll.pc = "idle" /\ OneMore
    /\ roll' = [NoRoll EXCEPT !.pc = "income"]
    /\ UNCHANGED <<world, ram, nvs, mig, flash, history>>

\* What an answer says of the groups in it.
Answer(sent) == [g \in Groups |-> IF g \in sent
                   THEN [used |-> ctl[g].used, month |-> Created[g]] ELSE NothingRead[g]]

\* It answers with the groups of its first page.
Fetch(sent) ==
    /\ roll.pc = "idle" /\ OneMore
    /\ \A g \in sent : ctl[g].live
    /\ roll' = [pc |-> "apply", sent |-> sent, read |-> Answer(sent)]
    /\ leftOut' = leftOut \cup {g \in Groups \ sent : ctl[g].live}
    /\ UNCHANGED <<world, ram, nvs, mig, flash, rolled, cutOff, lowered>>

\* The body is cut off inside the entry of group h, and used as far as it was parsed:
\* the count may be missing or cut short, the time or price missing.
FetchCut(sent, h, n, m) ==
    /\ roll.pc = "idle" /\ OneMore
    /\ h \in sent /\ \A g \in sent : ctl[g].live
    /\ n <= ctl[h].used
    /\ roll' = [pc |-> "apply", sent |-> sent,
                read |-> [Answer(sent) EXCEPT ![h] = [used |-> n, month |-> m]]]
    /\ leftOut' = leftOut \cup {g \in Groups \ sent : ctl[g].live}
    /\ cutOff' = cutOff \cup {h}
    /\ UNCHANGED <<world, ram, nvs, mig, flash, rolled, lowered>>

\* moneyMarkAbsent: an entry the controller did not send is frozen.
Frozen(entry) == [entry EXCEPT !.deleted = @ \/ entry.in]

\* The groups that were sent are brought up to date, the others frozen.
Apply ==
    /\ roll.pc = "apply"
    /\ ram' = [ram EXCEPT !.groups = [g \in Groups |->
                 IF g \in roll.sent THEN Upserted(roll.read[g].used, roll.read[g].month, FALSE)
                                    ELSE Frozen(@[g])]]
    /\ roll' = [NoRoll EXCEPT !.pc = "income"]
    /\ UNCHANGED <<world, nvs, mig, flash, history, jobs>>

\* Fault: a month without sales in the log has no income.
VendoFromLog(m) == LogTotal(log, m)

\* A month's coin income: the log's total, or what the record has when the log
\* holds nothing of that month.
VendoIncome(m) == IF LogTotal(log, m) > 0 THEN LogTotal(log, m) ELSE ram.vendo[m]

\* What the groups created in a month have brought in.
Redeemed(grp, m) ==
    SumFunctionOnSet([g \in Groups |-> IF grp[g].month = m THEN grp[g].used ELSE 0], Groups)

\* Fault: the income of a month is added up night after night.
VoucherIncomeAdded(m) == ram.voucher[m] + Redeemed(ram.groups, m)

\* A month's voucher income.
VoucherIncome(m) == Redeemed(ram.groups, m)

\* moneySetIncome for every month.
IncomeSet(rec) ==
    [rec EXCEPT !.vendo   = [m \in Months |-> VendoIncome(m)],
                !.voucher = [m \in Months |-> VoucherIncome(m)]]

\* The months are refreshed and the record is saved.
Income(saved) ==
    /\ roll.pc = "income"
    /\ Save(IncomeSet(ram), saved)
    /\ rolled' = IF saved THEN [g \in Groups |-> IF ram.groups[g].used > rolled[g]
                                  THEN ram.groups[g].used ELSE rolled[g]] ELSE rolled
    /\ cutOff' = IF saved THEN {g \in cutOff : ram.groups[g].used < rolled[g]} ELSE cutOff
    /\ lowered' = IF saved THEN {} ELSE lowered
    /\ roll' = NoRoll
    /\ UNCHANGED <<world, mig, flash, leftOut, jobs>>
-----------------------------------------------------------------------------
(* Restarts.                                                               *)

\* What purgeOldLogEntries makes of the sale log: old sales go; with the clock not
\* yet set nothing is old; with the power cut between remove and rename all is gone.
Purged(l) == {l, EmptyLog, [d \in Days |-> IF d + KeepDays < day THEN 0 ELSE l[d]]}

\* The node boots with the files l.
Boot(l) ==
    /\ log' \in Purged(l)
    /\ ram' = nvs
    /\ mig' = NoMig /\ roll' = NoRoll /\ flash' = NoFlash
    /\ lowered' = {}
    /\ UNCHANGED <<day, ctl, sold, nvs, rolled, leftOut, cutOff, jobs>>

Restart == Boot(log)

\* The timer of a scheduled filesystem update: nothing written, all lost, or the
\* copy restored.
FsFlash ==
    /\ flash.due
    /\ \E l \in {log, EmptyLog, flash.saved} : Boot(l)

Next ==
    \/ DayPasses \/ MigrateStart \/ FetchFailed \/ Apply \/ FsUpload \/ Restart \/ FsFlash
    \/ \E g \in Groups : Redeem(g) \/ DeleteGroup(g)
    \/ \E sent \in SUBSET Groups : Fetch(sent)
    \/ \E sent \in SUBSET Groups, h \in Groups, n \in 0 .. MaxUsed :
         \E m \in {Created[h], NoMonth} : FetchCut(sent, h, n, m)
    \/ \E ok \in BOOLEAN : Sale(ok) \/ Import(ok) \/ MigrateMark(ok) \/ Income(ok)
    \/ \E m \in Months, ok \in BOOLEAN : MigrateMonth(m, ok)

Spec == Init /\ [][Next]_vars
-----------------------------------------------------------------------------
\* What a rollup has saved of a group is not lowered or dropped again: not by deleting
\* the group, an import of an older backup, an answer that leaves it out, a
\* failed save, or a restart in the middle of a rollup.  An answer cut off inside the
\* group's entry can lower it (getVoucherGroupsJson keeps the part that was parsed),
\* until a rollup has made it good.
RolledUpKept == \A g \in Groups : nvs.groups[g].used >= rolled[g] \/ g \in cutOff

\* A group is frozen only when the controller no longer has it or an answer has left
\* it out; a controller that does not answer freezes nothing.
FrozenWhenAbsent ==
    \A g \in Groups : (ram.groups[g].deleted \/ nvs.groups[g].deleted)
                        => ~ctl[g].live \/ g \in leftOut

\* The saved voucher income of a month is never more than was redeemed of its groups:
\* however often rollups run, are cut short or overlap with imports of groups and of
\* income (moneySetIncome, moneyImport), nothing counts twice.
VoucherBacked == \A m \in Months : nvs.voucher[m] <= Spent(m)

\* The saved coin income of a month falls only while the sale log holds a part of the
\* month, or because moneyImport wrote a lower one: a backup from earlier in the month,
\* or a migration that added the log up before the newest sales.
VendoKept ==
    [][\A m \in Months : nvs'.vendo[m] < nvs.vendo[m] =>
         \/ LogTotal(log, m) > 0 /\ LogTotal(log, m) < LogTotal(sold, m)
         \/ m \in lowered \cup lowered']_vars
=============================================================================
