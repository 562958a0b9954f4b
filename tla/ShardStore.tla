----------------------------- MODULE ShardStore -----------------------------
(***************************************************************************)
(* The daily shards (internal/storage/sqlite.go): InsertBatch writes a     *)
(* batch to the shards of its dates through handles kept in s.dbs, the     *)
(* retention cron deletes expired shard files and reopens the others to    *)
(* vacuum them, Search attaches the files of a date range, LastSeen scans  *)
(* files backwards from today, and the process may end at any point and    *)
(* start again on the same files.                                          *)
(*                                                                         *)
(* Unlinking a file takes its name away and those who have it open keep    *)
(* it, so a date has a sequence of files of which its path names one or    *)
(* none.  A shard's -wal and -shm files belong to it.                      *)
(* A row is its container and its timestamp, in ticks and a fraction of a  *)
(* tick; queries, ranking and pages are left out.                          *)
(*                                                                         *)
(* The clock is the local wall time, whose day names a shard.  Retention   *)
(* reads that name as midnight UTC, UTCOffset ticks later by this clock:   *)
(* the local time is UTCOffset ahead of UTC (behind it when negative), all *)
(* year round.                                                             *)
(***************************************************************************)
EXTENDS Integers, Sequences, FiniteSetsExt

CONSTANTS
  TicksPerDay,     \* resolution of the clock
  UTCOffset,       \* ticks by which the local time is ahead of UTC
  ThreeAM,         \* the tick of the day at which the cron is due
  RetentionDays,   \* RETENTION_DAYS
  SearchDays,      \* for how many days back from today searches ask
  MaxAttached,     \* maxAttachedShards
  Lookback,        \* markerLookbackDays
  Containers,
  Fractions,       \* number of fractions of a tick a timestamp can show
  Legacy,          \* TRUE: day 0 may have a shard from before v0.3.0
  Readers,         \* which of "search", "known" and "lastSeen" are called
  MaxReaders,      \* bound: number of their calls in progress together
  MaxBatch,        \* bound: number of rows in a batch
  MaxAge,          \* bound: ticks a batch waits for its transaction
  MaxLate,         \* bound: ticks the cron's timer may fire late
  MaxClock,        \* bound: ticks of the clock
  MaxRows,         \* bound: number of rows stored
  MaxExits         \* bound: number of times the process ends

ASSUME StoreAssumption ==
  /\ TicksPerDay \in Nat \ {0}
  /\ ThreeAM \in 0 .. TicksPerDay - 1
  /\ UTCOffset \in Int
  /\ RetentionDays \in Nat \ {0}
  /\ SearchDays \subseteq Nat \ {0}
  /\ MaxAttached \in Nat \ {0}
  /\ Lookback \in Nat
  /\ Fractions \in Nat \ {0}
  /\ Legacy \in BOOLEAN
  /\ {MaxReaders, MaxLate} \subseteq Nat
  /\ {MaxBatch, MaxAge} \subseteq Nat \ {0}
  /\ MaxClock \in Nat /\ MaxClock >= TicksPerDay
  /\ MaxRows \in Nat
  /\ MaxExits \in Nat

(* A batch reaches its shards before retention can expire their dates: at  *)
(* most BATCH_INTERVAL and a few INSERT_TIMEOUTs pass between stamping a   *)
(* line and committing it, against the three hours from the end of a day   *)
(* to the first cleanup that may delete it when RETENTION_DAYS is 1.       *)
ASSUME BatchAgeAssumption ==
  MaxAge <= (RetentionDays - 1) * TicksPerDay + ThreeAM

(* The timer fires before the local time reaches midnight UTC of the next  *)
(* day: in UTC it may be 21 hours late, eight hours west of it 13.         *)
ASSUME NightAssumption ==
  ThreeAM + MaxLate <= TicksPerDay + UTCOffset

VARIABLES
  clock,
  files,      \* every shard file ever created for a date, in order
  dir,        \* the index of the file a date's path names, 0 if none
  handle,     \* s.dbs: the file a date's write handle has open, 0 if none
  mu,         \* s.mu: who holds it across getOrOpenDB
  pc, day, db, \* of "run" (InsertBatch) and of "cron": control and locals
  batch,      \* the rows of InsertBatch that are not committed yet
  cron,       \* the cron's timer and what CleanupOldDBs has left to do
  search,     \* the Search or KnownPods call in progress
  seen,       \* the LastSeen call in progress
  exits,
  committed   \* history: the rows of every transaction that committed

diskVars   == <<files, dir>>
openVars   == <<handle, mu>>
actorVars  == <<pc, day, db>>
vars       == <<clock, diskVars, openVars, actorVars, batch, cron, search,
                seen, exits, committed>>

Actors   == {"run", "cron"}
Day(t)   == t \div TicksPerDay
Days     == 0 .. Day(MaxClock)
Row      == [c : Containers, sec : 0 .. MaxClock, frac : 0 .. Fractions - 1]
DayOf(r) == Day(r.sec)

\* "none": the file exists but CREATE VIRTUAL TABLE has not committed
File == [table : {"none", "legacy", "current"}, rows : SUBSET Row]

NoSearch == [at |-> "idle", range |-> {}, todo |-> {}, found |-> {},
             attached |-> {}, before |-> {}, skipped |-> {}, missing |-> {},
             rows |-> {}]
NoSeen   == [at |-> "idle", c |-> {}, day |-> 0, first |-> 0, before |-> {},
             ans |-> {}]

SearchCall ==
  [at : {"idle", "stat", "attach", "done", "failed"},
   range : SUBSET Days, todo : SUBSET Days, found : SUBSET Days,
   attached : SUBSET (Days \X Nat), before : SUBSET Row,
   skipped : SUBSET Days, missing : SUBSET Days, rows : SUBSET Row]

SeenCall ==
  [at : {"idle", "stat", "read", "done", "failed"},
   c : Containers \union {{}}, day : Days, first : Days,
   before : SUBSET Row, ans : SUBSET Row]

\* the labels of getOrOpenDB under s.mu, of InsertBatch and of the cron
OpenLabels == {"create", "schema", "migrate", "recreate"}
RunLabels  == {"idle", "get", "got", "tx"} \union OpenLabels
CronLabels == {"wait", "close", "remove", "get", "got"} \union OpenLabels

TypeOK ==
  /\ clock \in 0 .. MaxClock
  /\ files \in [Days -> Seq(File)]
  /\ dir \in [Days -> Nat]
  /\ handle \in [Days -> Nat]
  /\ \A d \in Days : {dir[d], handle[d]} \subseteq 0 .. Len(files[d])
  /\ mu \in Actors \union {"free"}
  /\ pc \in [Actors -> RunLabels \union CronLabels]
  /\ pc["run"] \in RunLabels
  /\ pc["cron"] \in CronLabels
  /\ day \in [Actors -> Days]
  /\ db \in [Actors -> Nat]
  /\ \A a \in Actors : db[a] \in 0 .. Len(files[day[a]])
  /\ batch \subseteq Row
  /\ cron \in [next : Nat, expired : SUBSET Days, remaining : SUBSET Days]
  /\ search \in SearchCall
  /\ Cardinality(search.attached) <= MaxAttached
  /\ seen \in SeenCall
  /\ exits \in 0 .. MaxExits
  /\ committed \subseteq Row

\* nextThreeAM
NextThreeAM(now) ==
  LET today == Day(now) * TicksPerDay + ThreeAM
  IN  IF today > now THEN today ELSE today + TicksPerDay

\* what a process starts with
NoHandles   == [d \in Days |-> 0]
Started     == [a \in Actors |-> IF a = "run" THEN "idle" ELSE "wait"]
NoneInHand  == [a \in Actors |-> 0]
TimerSet    == [next |-> NextThreeAM(clock), expired |-> {}, remaining |-> {}]

NoFiles == [d \in Days |-> <<>>]

LegacyFile(c) == [table |-> "legacy",
                  rows |-> {[c |-> c, sec |-> 0, frac |-> 0]}]

Init ==
  /\ clock = TicksPerDay
  /\ \/ files = NoFiles
     \/ /\ Legacy
        /\ \E c \in Containers :
             files = [NoFiles EXCEPT ![0] = <<LegacyFile(c)>>]
  /\ dir = [d \in Days |-> Len(files[d])]
  /\ exits = 0
  /\ committed = {}
  /\ handle = NoHandles /\ mu = "free"
  /\ pc = Started /\ day = NoneInHand /\ db = NoneInHand
  /\ batch = {} /\ cron = TimerSet
  /\ search = NoSearch /\ seen = NoSeen

-----------------------------------------------------------------------------
(***************************************************************************)
(* Opening a path creates a missing file, without a table: SQLite opens    *)
(* for reading, writing and creating, for ATTACH as for sql.Open.          *)
(***************************************************************************)
PathOpened(d) ==
  IF dir[d] # 0
    THEN UNCHANGED diskVars
    ELSE /\ files' = [files EXCEPT ![d] =
                        Append(@, [table |-> "none", rows |-> {}])]
         /\ dir' = [dir EXCEPT ![d] = Len(files[d]) + 1]

Goto(a, label) == pc' = [pc EXCEPT ![a] = label]

\* for a's next date, with no file in its hands
GotoDate(a, label, d) ==
  /\ Goto(a, label)
  /\ day' = [day EXCEPT ![a] = d]
  /\ db' = [db EXCEPT ![a] = 0]

\* the file a has in its hands, and the files when it has become f
FileOf(a) == files[day[a]][db[a]]

FileSet(a, f) == files' = [files EXCEPT ![day[a]][db[a]] = f]

(***************************************************************************)
(* getOrOpenDB, by InsertBatch or vacuumShard.  s.mu is held from the miss *)
(* in s.dbs to the return; readers of the file come between its steps.     *)
(***************************************************************************)
GetHandle(a) ==
  /\ pc[a] = "get"
  /\ mu = "free"
  /\ \/ /\ handle[day[a]] # 0
        /\ db' = [db EXCEPT ![a] = handle[day[a]]]
        /\ Goto(a, "got")
        /\ UNCHANGED mu
     \/ /\ handle[day[a]] = 0
        /\ mu' = a
        /\ Goto(a, "create")
        /\ UNCHANGED db
  /\ UNCHANGED <<clock, diskVars, handle, day, batch, cron, search, seen,
                 exits, committed>>

\* the connection db.Exec(schema) opens
CreateFile(a) ==
  /\ pc[a] = "create"
  /\ PathOpened(day[a])
  /\ db' = [db EXCEPT ![a] = dir'[day[a]]]
  /\ Goto(a, "schema")
  /\ UNCHANGED <<clock, openVars, day, batch, cron, search, seen, exits,
                 committed>>

CreateTable(a) ==
  /\ pc[a] = "schema"
  /\ FileSet(a, [FileOf(a) EXCEPT !.table =
                   IF @ = "none" THEN "current" ELSE @])
  /\ Goto(a, "migrate")
  /\ UNCHANGED <<clock, dir, openVars, day, db, batch, cron, search, seen,
                 exits, committed>>

Register(a) ==
  /\ handle' = [handle EXCEPT ![day[a]] = db[a]]
  /\ mu' = "free"
  /\ Goto(a, "got")

\* Mutant: every shard that is opened is rebuilt.
HasLevel_Never(f) == FALSE

HasLevel(f) == f.table = "current"

\* migrateLegacySchema: nothing to do, or DROP TABLE fts with all its rows
Migrate(a) ==
  /\ pc[a] = "migrate"
  /\ \/ /\ HasLevel(FileOf(a))
        /\ Register(a)
        /\ UNCHANGED files
     \/ /\ ~HasLevel(FileOf(a))
        /\ FileSet(a, [table |-> "none", rows |-> {}])
        /\ Goto(a, "recreate")
        /\ UNCHANGED openVars
  /\ UNCHANGED <<clock, dir, day, db, batch, cron, search, seen, exits,
                 committed>>

Recreate(a) ==
  /\ pc[a] = "recreate"
  /\ FileSet(a, [FileOf(a) EXCEPT !.table = "current"])
  /\ Register(a)
  /\ UNCHANGED <<clock, dir, day, db, batch, cron, search, seen, exits,
                 committed>>

-----------------------------------------------------------------------------
(***************************************************************************)
(* InsertBatch on the queue's run goroutine: one transaction per date, in  *)
(* the arbitrary order of a map, and the first error ends the call.        *)
(***************************************************************************)
RowsOn(rows, d) == {r \in rows : DayOf(r) = d}

\* the next date of byDate, or the return
NextGroup(rows) ==
  \/ /\ rows = {}
     /\ GotoDate("run", "idle", 0)
  \/ /\ rows # {}
     /\ \E d \in {DayOf(r) : r \in rows} : GotoDate("run", "get", d)

\* lines stamped by ingest in this tick or the one before
Recent == {r \in Row : r.sec \in {clock - 1, clock}} \ committed

InsertBatch ==
  /\ pc["run"] = "idle"
  /\ \E n \in 1 .. MaxBatch :
       /\ Cardinality(committed) + n <= MaxRows
       /\ batch' \in kSubset(n, Recent)
  /\ NextGroup(batch')
  /\ UNCHANGED <<clock, diskVars, openVars, cron, search, seen, exits,
                 committed>>

\* the handle was closed, or not, since getOrOpenDB returned it
BeginTx ==
  /\ pc["run"] = "got"
  /\ handle[day["run"]] = db["run"]
  /\ Goto("run", "tx")
  /\ UNCHANGED <<clock, diskVars, openVars, day, db, batch, cron, search, seen,
                 exits, committed>>

Commit ==
  /\ pc["run"] = "tx"
  /\ LET group == RowsOn(batch, day["run"])
     IN  /\ FileSet("run", [FileOf("run") EXCEPT !.rows = @ \union group])
         /\ committed' = committed \union group
         /\ batch' = batch \ group
  /\ NextGroup(batch')
  /\ UNCHANGED <<clock, dir, openVars, cron, search, seen, exits>>

\* an error of getOrOpenDB or of insertGroup, whose transaction rolls back
InsertFails ==
  /\ pc["run"] \in OpenLabels \union {"got", "tx"}
  /\ mu' = IF mu = "run" THEN "free" ELSE mu
  /\ batch' = {}
  /\ NextGroup({})
  /\ UNCHANGED <<clock, diskVars, handle, cron, search, seen, exits,
                 committed>>

-----------------------------------------------------------------------------
(***************************************************************************)
(* StartRetentionCron and CleanupOldDBs.  The timer may fire late.         *)
(***************************************************************************)

\* Mutant: a day too few is kept.
Before_DayEarly(d, t) ==
  (d + RetentionDays - 1) * TicksPerDay + UTCOffset < t

\* date.Before(cutoff): midnight UTC of d against RetentionDays before t
Before(d, t) == (d + RetentionDays) * TicksPerDay + UTCOffset < t

Listed == {d \in Days : dir[d] # 0}

\* the next file of the sorted listing, then of remaining, or the next night
NextEntry(expired, remaining) ==
  IF expired \union remaining = {}
    THEN /\ cron' = [next |-> NextThreeAM(clock), expired |-> {},
                     remaining |-> {}]
         /\ GotoDate("cron", "wait", 0)
    ELSE LET todo == IF expired # {} THEN expired ELSE remaining
         IN  /\ cron' = [cron EXCEPT !.expired = expired,
                                     !.remaining = remaining]
             /\ GotoDate("cron", IF expired # {} THEN "close" ELSE "get",
                         Min(todo))

\* the error of ReadDir ends the call as an empty listing does
CleanupOldDBs ==
  /\ pc["cron"] = "wait"
  /\ clock >= cron.next
  /\ \/ LET expired == {d \in Listed : Before(d, clock)}
        IN  NextEntry(expired, Listed \ expired)
     \/ NextEntry({}, {})
  /\ UNCHANGED <<clock, diskVars, openVars, batch, search, seen, exits,
                 committed>>

\* Mutant: the file is removed under an open handle.
Closed_NotAtAll == handle

Closed == [handle EXCEPT ![day["cron"]] = 0]

CloseShard ==
  /\ pc["cron"] = "close"
  /\ mu = "free"
  /\ handle' = Closed
  /\ Goto("cron", "remove")
  /\ UNCHANGED <<clock, diskVars, mu, day, db, batch, cron, search, seen,
                 exits, committed>>

\* os.Remove, whose error is ignored
RemoveFile ==
  /\ pc["cron"] = "remove"
  /\ \/ dir' = [dir EXCEPT ![day["cron"]] = 0]
     \/ UNCHANGED dir
  /\ NextEntry(cron.expired \ {day["cron"]}, cron.remaining)
  /\ UNCHANGED <<clock, files, openVars, batch, search, seen, exits,
                 committed>>

\* vacuumShard after getOrOpenDB, or its error: a warning either way
Vacuumed ==
  /\ pc["cron"] \in OpenLabels \union {"got"}
  /\ mu' = IF mu = "cron" THEN "free" ELSE mu
  /\ NextEntry({}, cron.remaining \ {day["cron"]})
  /\ UNCHANGED <<clock, diskVars, handle, batch, search, seen, exits,
                 committed>>

-----------------------------------------------------------------------------
(***************************************************************************)
(* Search and KnownPods: existingShardDates stats the dates oldest first,  *)
(* the newest MaxAttached of them are attached in turn, then one query     *)
(* reads them.                                                             *)
(***************************************************************************)
InProgress ==
  Cardinality({r \in {"search", "seen"} :
                 IF r = "search" THEN search.at # "idle" ELSE seen.at # "idle"})

\* Search and KnownPods differ in their query only
SearchKinds == {"search", "known"} \intersect Readers

SearchStart ==
  /\ search.at = "idle"
  /\ InProgress < MaxReaders
  /\ SearchKinds # {}
  /\ \E n \in SearchDays :
       LET range == Max({0, Day(clock) - n + 1}) .. Day(clock)
       IN  search' = [NoSearch EXCEPT !.at = "stat", !.range = range,
                                      !.todo = range, !.before = committed]
  /\ UNCHANGED <<clock, diskVars, openVars, actorVars, batch, cron, seen,
                 exits, committed>>

\* Mutant: no cap on the shards attached.
Newest_Uncapped(dates) == dates

\* Mutant: the oldest shards are kept.
Newest_Oldest(dates) ==
  {d \in dates : Cardinality({e \in dates : e < d}) < MaxAttached}

\* dates[len(dates)-maxAttachedShards:]
Newest(dates) ==
  {d \in dates : Cardinality({e \in dates : e > d}) < MaxAttached}

StatDate ==
  /\ search.at = "stat"
  /\ LET d     == Min(search.todo)
         left  == search.todo \ {d}
         found == search.found \union {e \in {d} : dir[e] # 0}
     IN  search' = [search EXCEPT
                      !.todo  = left,
                      !.found = IF left = {} THEN Newest(found) ELSE found,
                      !.at    = IF left = {} THEN "attach" ELSE "stat"]
  /\ UNCHANGED <<clock, diskVars, openVars, actorVars, batch, cron, seen,
                 exits, committed>>

Attach ==
  /\ search.at = "attach"
  /\ search.found # {}
  /\ LET d == Min(search.found)
     IN  \/ /\ PathOpened(d)
            /\ search' = [search EXCEPT
                            !.found    = @ \ {d},
                            !.attached = @ \union {<<d, dir'[d]>>},
                            !.missing  = IF dir[d] = 0 THEN @ \union {d}
                                                       ELSE @]
         \/ /\ search' = [search EXCEPT !.found   = @ \ {d},
                                        !.skipped = @ \union {d}]
            /\ UNCHANGED diskVars
  /\ UNCHANGED <<clock, openVars, actorVars, batch, cron, seen, exits,
                 committed>>

AttachedFiles == {files[a[1]][a[2]] : a \in search.attached}

\* what the query names: KnownPods does not ask for the level
Readable(f, kind) ==
  f.table = "current" \/ (kind = "known" /\ f.table = "legacy")

\* the union fails as a whole if one shard is not Readable
Query ==
  /\ search.at = "attach"
  /\ search.found = {}
  /\ \E kind \in SearchKinds :
       search' =
         IF \A f \in AttachedFiles : Readable(f, kind)
           THEN [search EXCEPT !.at   = "done",
                               !.rows = UNION {f.rows : f \in AttachedFiles}]
           ELSE [search EXCEPT !.at = "failed"]
  /\ UNCHANGED <<clock, diskVars, openVars, actorVars, batch, cron, seen,
                 exits, committed>>

\* the answer is read, or the request's context ends the search before it
SearchEnd ==
  /\ search.at # "idle"
  /\ search' = NoSearch
  /\ UNCHANGED <<clock, diskVars, openVars, actorVars, batch, cron, seen,
                 exits, committed>>

-----------------------------------------------------------------------------
(***************************************************************************)
(* LastSeen: back from today, day by day, to the first day that has a row  *)
(* of the container.                                                       *)
(***************************************************************************)
LastSeenStart ==
  /\ "lastSeen" \in Readers
  /\ seen.at = "idle"
  /\ InProgress < MaxReaders
  /\ \E c \in Containers :
       seen' = [NoSeen EXCEPT !.at = "stat", !.c = c, !.day = Day(clock),
                              !.first = Day(clock), !.before = committed]
  /\ UNCHANGED <<clock, diskVars, openVars, actorVars, batch, cron, search,
                 exits, committed>>

InLookback(d) == d >= 0 /\ d > seen.first - Lookback

Yesterday ==
  seen' = IF InLookback(seen.day - 1)
            THEN [seen EXCEPT !.at = "stat", !.day = @ - 1]
            ELSE [seen EXCEPT !.at = "done"]

StatDay ==
  /\ seen.at = "stat"
  /\ \/ dir[seen.day] # 0 /\ seen' = [seen EXCEPT !.at = "read"]
     \/ dir[seen.day] = 0 /\ Yesterday
  /\ UNCHANGED <<clock, diskVars, openVars, actorVars, batch, cron, search,
                 exits, committed>>

(* RFC3339Nano drops trailing zeros and ends in the offset.  In UTC that   *)
(* is "Z", which sorts after "." and the digits: of two timestamps in the  *)
(* same second, one that shows fewer digits is the greater text.  The sign *)
(* of any other offset sorts before them.                                  *)
TextLess(q, r) ==
  \/ q.sec < r.sec
  \/ q.sec = r.sec /\ (IF UTCOffset = 0 THEN q.frac > r.frac
                                        ELSE q.frac < r.frac)

\* Mutant: MIN for MAX.
TextMax_Min(rows) == {r \in rows : \A q \in rows \ {r} : TextLess(r, q)}

\* SELECT MAX(timestamp): a singleton
TextMax(rows) == {r \in rows : \A q \in rows \ {r} : TextLess(q, r)}

ReadShard ==
  /\ seen.at = "read"
  /\ PathOpened(seen.day)
  /\ LET f    == files'[seen.day][dir'[seen.day]]
         rows == {r \in f.rows : r.c = seen.c}
     IN  \/ f.table = "none" /\ seen' = [seen EXCEPT !.at = "failed"]
         \/ f.table # "none" /\ rows = {} /\ Yesterday
         \/ f.table # "none" /\ rows # {}
            /\ seen' = [seen EXCEPT !.at = "done", !.ans = TextMax(rows)]
  /\ UNCHANGED <<clock, openVars, actorVars, batch, cron, search, exits,
                 committed>>

LastSeenEnd ==
  /\ seen.at \in {"done", "failed"}
  /\ seen' = NoSeen
  /\ UNCHANGED <<clock, diskVars, openVars, actorVars, batch, cron, search,
                 exits, committed>>

-----------------------------------------------------------------------------
(* The process ends, killed or after Store.Close, and another starts on    *)
(* the same files; what a transaction has not committed is gone.           *)
Exit ==
  /\ exits < MaxExits
  /\ exits' = exits + 1
  /\ handle' = NoHandles /\ mu' = "free"
  /\ pc' = Started /\ day' = NoneInHand /\ db' = NoneInHand
  /\ batch' = {} /\ cron' = TimerSet
  /\ search' = NoSearch /\ seen' = NoSeen
  /\ UNCHANGED <<clock, diskVars, committed>>

Tick ==
  /\ clock < MaxClock
  /\ \A r \in batch : clock + 1 - r.sec <= MaxAge
  /\ pc["cron"] = "wait" => clock + 1 <= cron.next + MaxLate
  /\ clock' = clock + 1
  /\ UNCHANGED <<diskVars, openVars, actorVars, batch, cron, search, seen,
                 exits, committed>>

GetOrOpenDB(a) ==
  GetHandle(a) \/ CreateFile(a) \/ CreateTable(a) \/ Migrate(a) \/ Recreate(a)

Insert   == InsertBatch \/ BeginTx \/ Commit \/ InsertFails
Cleanup  == CleanupOldDBs \/ CloseShard \/ RemoveFile \/ Vacuumed
Search   == SearchStart \/ StatDate \/ Attach \/ Query \/ SearchEnd
LastSeen == LastSeenStart \/ StatDay \/ ReadShard \/ LastSeenEnd

Next ==
  \/ \E a \in Actors : GetOrOpenDB(a)
  \/ Insert
  \/ Cleanup
  \/ Search
  \/ LastSeen
  \/ Exit
  \/ Tick

Spec == Init /\ [][Next]_vars

-----------------------------------------------------------------------------
(***************************************************************************)
(* Properties                                                              *)
(***************************************************************************)

(* README.md:70: "Shards older than this are deleted nightly at 03:00      *)
(* local time", whatever the shard's name is compared with: RetentionDays  *)
(* days are kept, today included, until the cleanup of the night after.    *)
Expired(d) == clock >= (d + RetentionDays) * TicksPerDay + ThreeAM

OnDisk(d) == IF dir[d] = 0 THEN {} ELSE files[d][dir[d]].rows

(* Once InsertBatch has reported a group stored it stays in the file of    *)
(* its date until the date expires by the local calendar: through handles  *)
(* closed and reopened, the schema's migration, the nightly cleanup and    *)
(* its cutoff in UTC, readers that recreate a file, and any number of      *)
(* exits.                                                                  *)
StoredUntilExpired ==
  \A r \in committed : r \in OnDisk(DayOf(r)) \/ Expired(DayOf(r))

(* No write handle is left on an unlinked file, where transactions would   *)
(* commit without an error and never be found: neither in s.dbs nor in the *)
(* hands of InsertBatch between getOrOpenDB and the commit.                *)
NoStaleHandle ==
  /\ \A d \in Days : handle[d] \in {0, dir[d]}
  /\ pc["run"] = "tx" => db["run"] = dir[day["run"]]

(* A search that succeeds has every row stored before it began, on the     *)
(* newest MaxAttached days of its range, of the shards it could attach and *)
(* retention has not expired, whatever is written, created, deleted or     *)
(* rebuilt while it stats, attaches and reads.                             *)
Covered(d) ==
  /\ d \in search.range
  /\ Cardinality({e \in search.range : e > d}) < MaxAttached
  /\ d \notin search.skipped
  /\ ~Expired(d)

SearchComplete ==
  search.at = "done" =>
    \A r \in search.before : Covered(DayOf(r)) => r \in search.rows

(* The first day that has a match has the newest one (sqlite.go:618-624):  *)
(* LastSeen's answer is not a tick older than any row stored before the    *)
(* call, and it finds none only if there is none, so a tailer that resumes *)
(* from it repeats less than a second of a container's log.                *)
LastSeenRecent ==
  seen.at = "done" =>
    \A r \in seen.before :
      r.c = seen.c /\ InLookback(DayOf(r)) /\ ~Expired(DayOf(r))
        => \E a \in seen.ans : a.sec >= r.sec

(* sqlite.go:370-371: "Shards with no file on disk for a given date are    *)
(* skipped silently": a shard deleted before Search comes to attach it     *)
(* does not fail the search.                                               *)
MissingShardSkipped == search.at = "failed" => search.missing = {}
=============================================================================
