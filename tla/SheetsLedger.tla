---------------------------- MODULE SheetsLedger ----------------------------
(***************************************************************************)
(* The rewards ledger of the sheets exporter: the recurring catch-up run,  *)
(* the one-shot backfill, the two Google Sheets tabs they write and the    *)
(* cursor file that hands one run over to the next.                        *)
(* src/sheets-exporter/{index,cursor,sheet-writer}.ts and                  *)
(* src/core/components/rewards-ledger.ts.                                  *)
(*                                                                         *)
(* One coinbase stands for all of them: every coinbase goes through the    *)
(* same formula, and a day's total is the sum of its rows.  Days count     *)
(* from the genesis day, 1.  A tab is the sequence of its data rows.       *)
(***************************************************************************)
EXTENDS Integers, FiniteSets, SequencesExt

CONSTANTS
  MaxDay,         \* bound: complete days
  SlotsPerDay,    \* slots of AVG_BLOCK_SEC seconds in a day
  FirstSlot,      \* the slot of the genesis day with the floor block, block 0
  MaxMissed,      \* bound: slots that pass without a block
  EarnedBy,       \* rewards the coinbase has earned up to a block
  ClaimedBy,      \* rewards claimed from it after block 0, up to a block
  MaxFaults,      \* bound: failed requests, failed reads, crashes
  MaxBackfills,   \* bound: operator backfills
  Runs,           \* the runs of one process that may be in flight together
  NoCursor,       \* the cursor file does not exist
  Torn            \* the cursor file holds a partial write

Days == 1..MaxDay
NoDay == 0
Blocks == 0..(SlotsPerDay * MaxDay)
\* Where a period ends: the block, the day it closes, the balance read there.
Boundary == [block : Blocks, day : 0..MaxDay, bal : Int]
Cursor == [at : Boundary, pending : 0..MaxDay]
Tabs == {"ledger", "totals"}

ASSUME LedgerAssumption ==
  /\ MaxDay \in Nat \ {0} /\ SlotsPerDay \in Nat \ {0}
  /\ FirstSlot \in 0..(SlotsPerDay - 1) /\ MaxMissed \in Nat
  /\ EarnedBy \in [Blocks -> Nat] /\ ClaimedBy \in [Blocks -> Nat]
  /\ \A b \in Blocks : ClaimedBy[b] <= EarnedBy[b]
  /\ ClaimedBy[0] = 0
  /\ MaxFaults \in Nat /\ MaxBackfills \in Nat /\ Runs # {}
  /\ NoCursor \notin Cursor /\ Torn \notin Cursor /\ NoCursor # Torn

VARIABLES
  lastComplete,   \* yesterday, by the timestamp of the newest block
  slot,           \* the slot of its day the newest block is in
  missed,         \* slots without a block between the floor block and it
  cursor,         \* the cursor file
  tabs,           \* the two tabs of the spreadsheet
  service,        \* the recurring service: down, starting (first run), ticking
  runs,           \* the runs in flight, catch-up or backfill
  top,            \* rows just PUT by each run: its clear starts below them
  faults, backfills,
  intact,         \* observer: no backfill has died half-way through its writes
  seamless        \* observer: every committed period starts where the last one
                  \* ended, and none ends before it starts

chain == <<lastComplete, slot, missed>>

vars == <<lastComplete, slot, missed, cursor, tabs, service, runs, top, faults, backfills,
          intact, seamless>>

-----------------------------------------------------------------------------
\* estimateBlock: counted back from the run's newest block as if every slot had
\* one, so a boundary is off by the slots missed since then, and never before the
\* floor block.  Day 0 ends at the floor block.
EndBlock(day, lost) ==
  LET estimate == SlotsPerDay * day - FirstSlot - lost
  IN IF day = 0 \/ estimate < 0 THEN 0 ELSE estimate

\* computeLedgerPeriod: a balance read that fails counts as zero.
BalanceAt(block, ok) == IF ok THEN EarnedBy[block] - ClaimedBy[block] ELSE 0

\* Mutant: the claims of the boundary block are counted in both periods.
ClaimsInclusive(from, to) ==
  IF from > to THEN 0 ELSE ClaimedBy[to] - IF from = 0 THEN 0 ELSE ClaimedBy[from - 1]

\* scanClaims: the claims in (from, to]; none where an estimate fell back.
Claims(from, to) == IF from >= to THEN 0 ELSE ClaimedBy[to] - ClaimedBy[from]

\* buildLedgerRows: accrued = end - prev + claims.
Accrued(open, close) == close.bal - open.bal + Claims(open.block, close.block)

Row(open, close) == [day |-> close.day, accrued |-> Accrued(open, close)]

\* The boundary of a day as a run estimates and reads it; before the first day
\* there is no balance.
BoundaryOf(day, lost, ok) ==
  [block |-> EndBlock(day, lost), day |-> day,
   bal |-> IF day = 0 THEN 0 ELSE BalanceAt(EndBlock(day, lost), ok)]

Genesis == [block |-> 0, day |-> 0, bal |-> 0]

\* What a run writes to each tab, and what it goes on with after both.
Write(mode, rows, from, then) ==
  [mode |-> mode, rows |-> rows, from |-> from, then |-> then]

Idle == [kind |-> "none", pc |-> "off", day |-> NoDay, target |-> 0, lost |-> 0,
         repair |-> NoDay, open |-> Genesis, close |-> Genesis, tab |-> "ledger",
         write |-> Write("append", <<>>, NoDay, "commit")]

Init ==
  /\ lastComplete = 0 /\ slot = FirstSlot /\ missed = 0
  /\ cursor = NoCursor
  /\ tabs = [t \in Tabs |-> <<>>]
  /\ service = "down"
  /\ runs = [r \in Runs |-> Idle]
  /\ top = [r \in Runs |-> 0]
  /\ faults = 0 /\ backfills = 0
  /\ intact = TRUE /\ seamless = TRUE

\* The chain's next block, after any number of midnights, in a later slot.
NewBlock ==
  \E days \in 0..(MaxDay - lastComplete), in \in 0..(SlotsPerDay - 1) :
    /\ SlotsPerDay * days + in > slot
    /\ lastComplete' = lastComplete + days
    /\ slot' = in
    /\ missed' = missed + (SlotsPerDay * days + in - slot - 1)
    /\ missed' <= MaxMissed
    /\ UNCHANGED <<cursor, tabs, service, runs, top, faults, backfills, intact, seamless>>

-----------------------------------------------------------------------------
\* The recurring service.
NoneInFlight == \A r \in Runs : runs[r].kind = "none"

StartService ==
  /\ service = "down" /\ NoneInFlight
  /\ service' = "starting"
  /\ UNCHANGED <<chain, cursor, tabs, runs, top, faults, backfills, intact, seamless>>

\* resolveCatchUpStart: the day after the cursor, or the genesis day.
FromDay == IF cursor = NoCursor THEN 1 ELSE cursor.at.day + 1

\* Mutant: the timer is never set, only the first run happens.
MayRunOnce(r) == runs[r].kind = "none" /\ service = "starting" /\ NoneInFlight

\* The first run is awaited before the timer is set; the timer then starts a
\* run whether or not the one before has ended.
MayRun(r) ==
  /\ runs[r].kind = "none"
  /\ service = "ticking" \/ (service = "starting" /\ NoneInFlight)

\* The run reads the cursor, and on a cold start first resets both tabs.
BeginCatchUp(r) ==
  /\ MayRun(r)
  /\ cursor # Torn
  /\ FromDay <= lastComplete
  /\ LET cold == cursor = NoCursor
     IN runs' = [runs EXCEPT ![r] =
          [Idle EXCEPT !.kind = "catchup", !.lost = missed,
                       !.pc = IF cold THEN "put" ELSE "compute",
                       !.day = FromDay, !.target = lastComplete,
                       !.open = IF cold THEN Genesis ELSE cursor.at,
                       !.repair = IF cold THEN NoDay ELSE cursor.pending,
                       !.write = Write("overwrite", <<>>, NoDay, "compute")]]
  /\ UNCHANGED <<chain, cursor, tabs, service, top, faults, backfills, intact, seamless>>

\* upToDate: the first run returns at once and the timer starts.
NothingToDo(r) ==
  /\ MayRun(r)
  /\ cursor # Torn
  /\ FromDay > lastComplete
  /\ service' = "ticking"
  /\ UNCHANGED <<chain, cursor, tabs, runs, top, faults, backfills, intact, seamless>>

\* loadCursor throws on a file it cannot parse: at start-up the process ends,
\* in a tick the error is logged.
CursorUnreadable(r) ==
  /\ MayRun(r)
  /\ cursor = Torn
  /\ service' = IF service = "starting" THEN "down" ELSE service
  /\ UNCHANGED <<chain, cursor, tabs, runs, top, faults, backfills, intact, seamless>>

\* One day is computed and marked in flight before anything is written.
ComputeAndMark(r) ==
  /\ runs[r].kind = "catchup" /\ runs[r].pc = "compute"
  /\ \E ok \in BOOLEAN :
       /\ ok \/ faults < MaxFaults
       /\ faults' = IF ok THEN faults ELSE faults + 1
       /\ LET run == runs[r]
              close == BoundaryOf(run.day, run.lost, ok)
              mode == IF run.day = run.repair THEN "splice" ELSE "append"
              write == Write(mode, <<Row(run.open, close)>>, run.day, "commit")
          IN runs' = [runs EXCEPT ![r] = [run EXCEPT
                        !.pc = "put", !.tab = "ledger", !.close = close, !.write = write]]
       /\ cursor' = [at |-> runs[r].open, pending |-> runs[r].day]
  /\ UNCHANGED <<chain, tabs, service, top, backfills, intact, seamless>>

-----------------------------------------------------------------------------
\* Writing the tabs: the ledger first, then the daily totals.

\* The first rows of a tab: row i is day i wherever the ledger is intact.
UpTo(tab, n) == SubSeq(tab, 1, IF n <= Len(tab) THEN n ELSE Len(tab))

\* The rows at these places, by day; rows of one day stay in their order.
ByDay(rows, places) ==
  LET Before(i) == {j \in places : \/ rows[j].day < rows[i].day
                                   \/ rows[j].day = rows[i].day /\ j < i}
  IN [k \in 1..Cardinality(places) |->
        rows[CHOOSE i \in places : Cardinality(Before(i)) = k - 1]]

\* Mutant: the rows of the window are not dropped first.
SpliceRowsOnTop(existing, replacement, from, to) ==
  ByDay(existing \o replacement, DOMAIN (existing \o replacement))

\* spliceRows: drop the window's rows, add the new ones, sort by date.
SpliceRows(existing, replacement, from, to) ==
  LET all == existing \o replacement
  IN ByDay(all, {i \in DOMAIN all : i > Len(existing) \/ all[i].day \notin from..to})

\* Mutant: a splice PUTs the window's rows alone.
NewRowsUnmerged(r) == runs[r].write.rows

\* What overwriteSheet or spliceSheet PUTs at the top of the tab.
NewRows(r) ==
  LET run == runs[r] IN
  IF run.write.mode = "splice"
    THEN SpliceRows(tabs[run.tab], run.write.rows, run.write.from, run.day)
    ELSE run.write.rows

\* The tab is written: go on with the other one, or with what comes after.
TabWritten(r) ==
  /\ runs' = [runs EXCEPT ![r] = IF @.tab = "ledger"
                                 THEN [@ EXCEPT !.tab = "totals", !.pc = "put"]
                                 ELSE [@ EXCEPT !.pc = runs[r].write.then]]
  \* a cold start has emptied both tabs
  /\ LET rebuilt == runs[r].tab = "totals" /\ runs[r].write.then = "compute"
     IN intact' = (intact \/ rebuilt) /\ seamless' = (seamless \/ rebuilt)

Append_(r) ==
  /\ runs[r].kind # "none" /\ runs[r].pc = "put" /\ runs[r].write.mode = "append"
  /\ tabs' = [tabs EXCEPT ![runs[r].tab] = @ \o runs[r].write.rows]
  /\ TabWritten(r)
  /\ UNCHANGED <<chain, cursor, service, top, faults, backfills>>

\* overwriteSheet, first request: the old rows below the new ones stay.
Put(r) ==
  /\ runs[r].kind # "none" /\ runs[r].pc = "put" /\ runs[r].write.mode # "append"
  /\ LET old == tabs[runs[r].tab]
     IN tabs' = [tabs EXCEPT ![runs[r].tab] =
                   NewRows(r) \o SubSeq(old, Len(NewRows(r)) + 1, Len(old))]
  /\ runs' = [runs EXCEPT ![r].pc = "clear"]
  /\ top' = [top EXCEPT ![r] = Len(NewRows(r))]
  /\ UNCHANGED <<chain, cursor, service, faults, backfills, intact, seamless>>

\* overwriteSheet, second request: the stale rows below are cleared.
ClearTail(r) ==
  /\ runs[r].kind # "none" /\ runs[r].pc = "clear"
  /\ tabs' = [tabs EXCEPT ![runs[r].tab] = UpTo(@, top[r])]
  /\ top' = [top EXCEPT ![r] = 0]
  /\ TabWritten(r)
  /\ UNCHANGED <<chain, cursor, service, faults, backfills>>

\* Mutant: the commit names the day after the one written.
CommittedTomorrow(run) == [at |-> [run.close EXCEPT !.day = @ + 1], pending |-> NoDay]

\* Mutant: the commit does not clear the mark.
CommittedKeepsMark(run) == [at |-> run.close, pending |-> run.day]

Committed(run) == [at |-> run.close, pending |-> NoDay]

CommitDay(r) ==
  /\ runs[r].kind = "catchup" /\ runs[r].pc = "commit"
  /\ cursor' = Committed(runs[r])
  /\ seamless' = (seamless /\ runs[r].open.block <= runs[r].close.block)
  /\ IF runs[r].day < runs[r].target
     THEN /\ runs' = [runs EXCEPT ![r] = [@ EXCEPT
                        !.pc = "compute", !.day = runs[r].day + 1, !.open = runs[r].close]]
          /\ UNCHANGED service
     ELSE /\ runs' = [runs EXCEPT ![r] = Idle]
          /\ service' = "ticking"
  /\ UNCHANGED <<chain, tabs, top, faults, backfills, intact>>

-----------------------------------------------------------------------------
\* The operator's backfill, with the service stopped.

\* A ranged window corrects days that are already in both tabs.
Correcting(first) == first = 1 \/ \A t \in Tabs : first <= Len(tabs[t])

\* Every day of the window is computed before anything is written; a window
\* that does not start at genesis reads its opening balance first.
BeginBackfill(r, first, failed) ==
  /\ service = "down" /\ NoneInFlight
  /\ backfills < MaxBackfills
  /\ Correcting(first)
  /\ faults + Cardinality(failed) <= MaxFaults
  /\ LET At(day) == BoundaryOf(day, missed, day \notin failed)
         rows == [i \in 1..(lastComplete - first + 1) |-> Row(At(first + i - 2), At(first + i - 1))]
         mode == IF first > 1 THEN "splice" ELSE "overwrite"
     IN runs' = [runs EXCEPT ![r] =
          [Idle EXCEPT !.kind = "backfill", !.pc = "put", !.day = lastComplete,
                       !.close = At(lastComplete), !.write = Write(mode, rows, first, "commit")]]
  /\ faults' = faults + Cardinality(failed)
  /\ backfills' = backfills + 1
  /\ UNCHANGED <<chain, cursor, tabs, service, top, intact, seamless>>

Backfill ==
  \E r \in Runs, first \in 1..lastComplete :
    \E failed \in SUBSET ((IF first = 1 THEN 1 ELSE first - 1)..lastComplete) :
      BeginBackfill(r, first, failed)

CommitBackfill(r) ==
  /\ runs[r].kind = "backfill" /\ runs[r].pc = "commit"
  /\ cursor' = Committed(runs[r])
  /\ runs' = [runs EXCEPT ![r] = Idle]
  /\ intact' = (intact \/ runs[r].write.from = 1)
  /\ seamless' = (runs[r].write.from = 1)
  /\ UNCHANGED <<chain, tabs, service, top, faults, backfills>>

-----------------------------------------------------------------------------
\* Faults.  A request whose answer is lost is one that was applied and then
\* failed: the run stops after the step instead of before it.
HalfWritten(run) ==
  run.kind = "backfill" /\ (run.tab = "totals" \/ run.pc \in {"clear", "commit"})

Stop(stopped) ==
  /\ faults < MaxFaults
  /\ faults' = faults + 1
  /\ runs' = [r \in Runs |-> IF r \in stopped THEN Idle ELSE runs[r]]
  /\ top' = [r \in Runs |-> IF r \in stopped THEN 0 ELSE top[r]]
  /\ intact' = (intact /\ \A r \in stopped : ~HalfWritten(runs[r]))

\* A request throws: a tick logs it, the first run or a backfill ends the process.
RunFails(r) ==
  /\ runs[r].kind # "none"
  /\ Stop({r})
  /\ service' = IF service = "ticking" THEN "ticking" ELSE "down"
  /\ UNCHANGED <<chain, cursor, tabs, backfills, seamless>>

\* SIGTERM calls process.exit; a crash is the same.
Die ==
  /\ service # "down" \/ ~NoneInFlight
  /\ Stop(Runs)
  /\ service' = "down"
  /\ UNCHANGED <<chain, cursor, tabs, backfills, seamless>>

\* saveCursor is one writeFile over the old file.
DieSavingCursor ==
  /\ \E r \in Runs : runs[r].pc \in {"compute", "commit"}
  /\ Stop(Runs)
  /\ cursor' = Torn
  /\ service' = "down"
  /\ UNCHANGED <<chain, tabs, backfills, seamless>>

RunStep(r) ==
  \/ BeginCatchUp(r) \/ NothingToDo(r) \/ CursorUnreadable(r) \/ ComputeAndMark(r)
  \/ Append_(r) \/ Put(r) \/ ClearTail(r) \/ CommitDay(r) \/ CommitBackfill(r)

Next ==
  \/ NewBlock \/ StartService \/ Backfill \/ Die \/ DieSavingCursor
  \/ \E r \in Runs : RunStep(r) \/ RunFails(r)

Spec == Init /\ [][Next]_vars

\* The service is restarted by systemd, its timer keeps firing, and a request
\* that is neither refused nor lost is answered.
FairSpec == Spec /\ WF_vars(StartService) /\ \A r \in Runs : WF_vars(RunStep(r))

-----------------------------------------------------------------------------
RowT == [day : Days, accrued : Int]

WriteT == [mode : {"append", "splice", "overwrite"}, rows : Seq(RowT),
           from : 0..MaxDay, then : {"compute", "commit"}]

Run == [kind : {"none", "catchup", "backfill"},
        pc : {"off", "compute", "put", "clear", "commit"},
        day : 0..MaxDay, target : 0..MaxDay, lost : 0..MaxMissed, repair : 0..MaxDay,
        open : Boundary, close : Boundary, tab : Tabs, write : WriteT]

TypeOK ==
  /\ lastComplete \in 0..MaxDay /\ slot \in 0..(SlotsPerDay - 1) /\ missed \in 0..MaxMissed
  /\ cursor \in Cursor \cup {NoCursor, Torn}
  /\ tabs \in [Tabs -> Seq(RowT)] /\ top \in [Runs -> Nat]
  /\ service \in {"down", "starting", "ticking"}
  /\ runs \in [Runs -> Run]
  /\ faults \in 0..MaxFaults /\ backfills \in 0..MaxBackfills
  /\ intact \in BOOLEAN /\ seamless \in BOOLEAN

\* The day in flight is the one after the last committed day, so the run that
\* finds the mark starts with it and repairs exactly what was interrupted.
PendingIsNextDay ==
  cursor \in Cursor => cursor.pending \in {NoDay, cursor.at.day + 1}

\* Row i of each tab is day i: no day twice, no day missing, in order, whatever
\* request failed and wherever the service was killed, as long as no backfill
\* died half-way through its writes.
OneRowPerDay ==
  intact => \A t \in Tabs : \A i \in DOMAIN tabs[t] : tabs[t][i].day = i

Backfilling == \E r \in Runs : runs[r].kind = "backfill"

Sum(rows) ==
  LET sum[n \in 0..Len(rows)] == IF n = 0 THEN 0 ELSE sum[n - 1] + rows[n].accrued
  IN sum[Len(rows)]

\* The ledger does not drift: what it has accrued up to the committed day is the
\* balance recorded at the boundary and all claims until then, even when a
\* balance read failed and counted as zero, a day was written twice, or the
\* estimates of two runs put one boundary at different blocks; an estimate that
\* falls back behind the last one breaks it for good.
NoDrift ==
  (cursor \in Cursor /\ intact /\ seamless /\ ~Backfilling) =>
    \A t \in Tabs :
      Sum(UpTo(tabs[t], cursor.at.day)) = cursor.at.bal + ClaimedBy[cursor.at.block]

\* The part of the ledger that the cursor vouches for.
Settled == cursor \in Cursor /\ intact /\ ~Backfilling
SettledAt == IF Settled THEN cursor.at ELSE Genesis
SettledRows(tab) == IF Settled THEN UpTo(tabs[tab], cursor.at.day) ELSE <<>>

LedgerTab == INSTANCE DailyLedger WITH
  settled <- Settled, at <- SettledAt, rows <- SettledRows("ledger")
TotalsTab == INSTANCE DailyLedger WITH
  settled <- Settled, at <- SettledAt, rows <- SettledRows("totals")

\* Each tab implements the daily ledger: what the cursor calls committed is there,
\* grows by the next day only, computed from where the last one ended, and is never
\* rewritten by the service, whatever requests fail and wherever it is killed.
ImplementsDailyLedger == LedgerTab!Spec /\ TotalsTab!Spec

\* Without a torn cursor file the ledger becomes current and stays so.
CatchesUp ==
  <>[](\/ cursor = Torn
       \/ lastComplete = 0
       \/ cursor \in Cursor /\ cursor.at.day = lastComplete /\ cursor.pending = NoDay)

\* "RewardsDailyTotal: one row per day" (docs/sheets-exporter.md), whatever happens.
OneRowPerDayAlways ==
  NoneInFlight =>
    \A i, j \in DOMAIN tabs["totals"] :
      tabs["totals"][i].day = tabs["totals"][j].day => i = j
=============================================================================
