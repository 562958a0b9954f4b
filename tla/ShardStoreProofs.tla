-------------------------- MODULE ShardStoreProofs --------------------------
(***************************************************************************)
(* Theorems about the daily shards for every retention, every number of    *)
(* days, rows and exits, and every search range and limit of attachments.  *)
(***************************************************************************)
EXTENDS ShardStore, FiniteSetTheorems, SequenceTheorems,
        WellFoundedInduction, TLAPS

(***************************************************************************)
(* What the types rest on: who writes a file has one, and a search never   *)
(* has more shards to attach than the limit leaves it.                     *)
(***************************************************************************)
HasFile ==
  \A a \in Actors :
    pc[a] \in {"schema", "migrate", "recreate", "got", "tx"} => db[a] # 0

SearchShape ==
  /\ search.at = "stat" =>
       /\ search.todo # {} /\ search.todo \subseteq search.range
       /\ search.found \subseteq search.range
       /\ search.attached = {}
  /\ search.at = "attach" =>
       /\ Cardinality(search.found) + Cardinality(search.attached)
            <= MaxAttached
       /\ IsFiniteSet(search.attached)
       /\ \A f \in search.attached : f[2] \in 1 .. Len(files[f[1]])

TypeInv == TypeOK /\ HasFile /\ SearchShape

(***************************************************************************)
(* The inductive invariant of the writers.                                 *)
(***************************************************************************)

\* s.mu is held exactly while a file is being opened, by who opens it.
Locked == \A a \in Actors : pc[a] \in OpenLabels <=> mu = a

\* Who opens a shard found no handle, and has the file its path names.
Opening ==
  \A a \in Actors :
    /\ pc[a] \in OpenLabels => handle[day[a]] = 0
    /\ pc[a] \in OpenLabels \ {"create"} =>
         db[a] # 0 /\ db[a] = dir[day[a]]

\* What InsertBatch holds is registered, until its transaction ends.
Holding ==
  pc["run"] \in {"got", "tx"} =>
    db["run"] # 0 /\ db["run"] = handle[day["run"]]

\* A registered file is the one its path names, and has the fts table.
HandlesCurrent ==
  \A d \in Days : handle[d] # 0 =>
    handle[d] = dir[d] /\ files[d][dir[d]].table = "current"

\* The rows of a batch are younger than any expired date.
BatchYoung ==
  /\ \A r \in batch : r.sec <= clock /\ clock - r.sec <= MaxAge
  /\ pc["run"] # "idle" => \E r \in batch : DayOf(r) = day["run"]

\* Retention closes and removes nothing but expired dates.
OnlyExpired ==
  /\ \A d \in cron.expired : Expired(d)
  /\ pc["cron"] \in {"close", "remove"} => day["cron"] \in cron.expired
  /\ pc["cron"] = "remove" => handle[day["cron"]] = 0

\* StoredUntilExpired, in a file that migrateLegacySchema leaves alone
Kept(r) ==
  \/ Expired(DayOf(r))
  \/ /\ dir[DayOf(r)] # 0
     /\ files[DayOf(r)][dir[DayOf(r)]].table = "current"
     /\ r \in files[DayOf(r)][dir[DayOf(r)]].rows

Stored == \A r \in committed : Kept(r)

\* A row is filed under its date.
Filed ==
  \A d \in Days : \A i \in 1 .. Len(files[d]) :
    \A r \in files[d][i].rows : DayOf(r) = d

WriteInv ==
  /\ Locked /\ Opening /\ Holding /\ HandlesCurrent
  /\ BatchYoung /\ OnlyExpired /\ Stored /\ Filed

(***************************************************************************)
(* The inductive invariant of the readers.                                 *)
(***************************************************************************)
Attached(d) == \E f \in search.attached : f[1] = d

SearchInv ==
  /\ search.before \subseteq committed
  /\ search.at = "stat" =>
       \A r \in search.before :
         DayOf(r) \in search.range \ search.todo /\ ~Expired(DayOf(r))
           => DayOf(r) \in search.found
  /\ search.at = "attach" =>
       \A r \in search.before :
         /\ Covered(DayOf(r))
              => DayOf(r) \in search.found \/ Attached(DayOf(r))
         /\ \A f \in search.attached :
              f[1] = DayOf(r) /\ ~Expired(f[1]) => f[2] = dir[f[1]]
  /\ SearchComplete

\* the rows LastSeen has to answer for
Asked(r) ==
  /\ r \in seen.before
  /\ r.c = seen.c
  /\ InLookback(DayOf(r))
  /\ ~Expired(DayOf(r))

\* No row stored is from the future.
Past == \A r \in committed : r.sec <= clock

SeenInv ==
  /\ Past
  /\ seen.before \subseteq committed
  /\ seen.at \in {"stat", "read"} =>
       /\ seen.ans = {}
       /\ \A r \in Row : Asked(r) => DayOf(r) <= seen.day
  /\ LastSeenRecent

-----------------------------------------------------------------------------
(***************************************************************************)
(* Days, and the least of a set of them.                                   *)
(***************************************************************************)
LEMMA DayBounds ==
  ASSUME NEW t \in Nat
  PROVE  /\ Day(t) \in Nat
         /\ Day(t) * TicksPerDay <= t
         /\ t < (Day(t) + 1) * TicksPerDay
BY StoreAssumption DEF Day

LEMMA DayMonotone ==
  ASSUME NEW s \in Nat, NEW t \in Nat, s <= t
  PROVE  Day(s) <= Day(t)
BY StoreAssumption DEF Day

LEMMA DayOfClock ==
  ASSUME NEW t \in 0 .. MaxClock
  PROVE  Day(t) \in Days
<1>1. t \in Nat /\ MaxClock \in Nat /\ t <= MaxClock
  BY StoreAssumption
<1>. QED
  BY <1>1, DayBounds, DayMonotone DEF Days

LEMMA DaysFinite == Days \subseteq Nat /\ IsFiniteSet(Days) /\ 0 \in Days
<1>1. MaxClock \in Nat /\ Day(MaxClock) \in Nat
  BY StoreAssumption, DayBounds
<1>. QED
  BY <1>1, FS_Interval DEF Days

LEMMA MinLeast ==
  ASSUME NEW S \in SUBSET Nat, S # {}
  PROVE  Min(S) \in S /\ \A x \in S : Min(S) <= x
<1> DEFINE R == OpToRel(<, Nat)
<1>1. \A x, y \in Nat : <<y, x>> \in R <=> y < x
  BY DEF OpToRel
<1>2. IsWellFoundedOn(R, Nat)
  BY NatLessThanWellFounded
<1> HIDE DEF R
<1>3. PICK x \in S : \A y \in S : ~ (<<y, x>> \in R)
  BY <1>2, WFMin
<1>4. ASSUME NEW y \in S PROVE x <= y
  <2>1. x \in Nat /\ y \in Nat
    OBVIOUS
  <2>2. ~ (y < x)
    BY <1>1, <1>3, <2>1, Zenon
  <2>. QED
    BY <2>1, <2>2
<1>. QED
  BY <1>4 DEF Min

-----------------------------------------------------------------------------
(***************************************************************************)
(* The three things that happen to the files: a path is opened, the        *)
(* contents of a file change, a name is unlinked.                          *)
(***************************************************************************)
DiskTypes ==
  /\ files \in [Days -> Seq(File)]
  /\ dir \in [Days -> Nat]
  /\ \A d \in Days : dir[d] \in 0 .. Len(files[d])

\* No file is shortened, renamed to another or, but for d's, named anew.
Opened(d) ==
  /\ DiskTypes'
  /\ dir'[d] # 0
  /\ \A e \in Days :
       /\ Len(files'[e]) >= Len(files[e])
       /\ \A i \in 1 .. Len(files[e]) : files'[e][i] = files[e][i]
       /\ \A i \in 1 .. Len(files'[e]) :
            \/ i \in 1 .. Len(files[e])
            \/ files'[e][i] = [table |-> "none", rows |-> {}]
       /\ dir[e] # 0 => dir'[e] = dir[e]
       /\ e # d => dir'[e] = dir[e]

LEMMA LenFiles ==
  ASSUME DiskTypes, NEW d \in Days
  PROVE  /\ files[d] \in Seq(File) /\ Len(files[d]) \in Nat
         /\ \A i \in 1 .. Len(files[d]) : files[d][i] \in File
<1>1. files[d] \in Seq(File)
  BY DEF DiskTypes
<1>. QED
  BY <1>1, LenProperties, ElementOfSeq

LEMMA OpeningOpens ==
  ASSUME DiskTypes, NEW d \in Days, PathOpened(d)
  PROVE  Opened(d)
<1>1. CASE dir[d] # 0
  <2>1. UNCHANGED <<files, dir>>
    BY <1>1 DEF PathOpened, diskVars
  <2>. QED
    BY <1>1, <2>1, LenFiles DEF Opened, DiskTypes
<1>2. CASE dir[d] = 0
  <2> DEFINE f == [table |-> "none", rows |-> {}]
             s == Append(files[d], f)
  <2>1. /\ files' = [files EXCEPT ![d] = s]
        /\ dir' = [dir EXCEPT ![d] = Len(files[d]) + 1]
    BY <1>2 DEF PathOpened
  <2>2. f \in File
    BY DEF File
  <2> HIDE DEF f
  <2>3. /\ s \in Seq(File) /\ Len(s) = Len(files[d]) + 1
        /\ \A i \in 1 .. Len(files[d]) : s[i] = files[d][i]
        /\ s[Len(files[d]) + 1] = f /\ Len(files[d]) \in Nat
    BY <2>2, LenFiles, AppendProperties
  <2> HIDE DEF s
  <2>4. \A e \in Days : /\ files'[e] = IF e = d THEN s ELSE files[e]
                        /\ dir'[e] = IF e = d THEN Len(s) ELSE dir[e]
    BY <2>1, <2>3 DEF DiskTypes
  <2>5. DiskTypes'
    <3>1. files' \in [Days -> Seq(File)]
      BY <2>1, <2>3 DEF DiskTypes
    <3>2. dir' \in [Days -> Nat]
      BY <2>1, <2>3 DEF DiskTypes
    <3>3. \A e \in Days : dir'[e] \in 0 .. Len(files'[e])
      BY <2>3, <2>4, LenFiles DEF DiskTypes
    <3>. QED
      BY <3>1, <3>2, <3>3 DEF DiskTypes
  <2>6. dir'[d] # 0
    BY <2>3, <2>4
  <2>7. ASSUME NEW e \in Days
        PROVE  /\ Len(files'[e]) >= Len(files[e])
               /\ \A i \in 1 .. Len(files[e]) : files'[e][i] = files[e][i]
               /\ \A i \in 1 .. Len(files'[e]) :
                    i \in 1 .. Len(files[e]) \/ files'[e][i] = f
    <3>1. CASE e = d
      <4>1. files'[e] = s /\ Len(s) = Len(files[e]) + 1
        BY <2>3, <2>4, <3>1
      <4>2. \A i \in 1 .. Len(s) : i \in 1 .. Len(files[e])
                                   \/ i = Len(files[e]) + 1
        BY <4>1, LenFiles
      <4>. QED
        BY <2>3, <3>1, <4>1, <4>2
    <3>2. CASE e # d
      BY <2>4, <3>2, LenFiles
    <3>. QED
      BY <3>1, <3>2
  <2>. QED
    BY <1>2, <2>4, <2>5, <2>6, <2>7 DEF Opened, f
<1>. QED
  BY <1>1, <1>2

\* File i of day d has become f.
Replaced(d, i, f) ==
  /\ DiskTypes'
  /\ \A e \in Days :
       /\ Len(files'[e]) = Len(files[e])
       /\ \A j \in 1 .. Len(files[e]) :
            files'[e][j] = IF e = d /\ j = i THEN f ELSE files[e][j]

LEMMA SettingReplaces ==
  ASSUME DiskTypes, NEW a \in Actors, NEW f \in File, FileSet(a, f),
         day[a] \in Days, db[a] \in 1 .. Len(files[day[a]]), UNCHANGED dir
  PROVE  Replaced(day[a], db[a], f)
<1> DEFINE d == day[a]
           i == db[a]
           s == [files[d] EXCEPT ![i] = f]
<1>1. files' = [files EXCEPT ![d] = s]
  BY DEF FileSet
<1>2. /\ s \in Seq(File) /\ Len(s) = Len(files[d])
      /\ \A j \in 1 .. Len(files[d]) : s[j] = IF j = i THEN f
                                                      ELSE files[d][j]
  BY LenFiles, ExceptSeq
<1> HIDE DEF s
<1>3. \A e \in Days : files'[e] = IF e = d THEN s ELSE files[e]
  BY <1>1 DEF DiskTypes
<1>4. files' \in [Days -> Seq(File)]
  BY <1>1, <1>2 DEF DiskTypes
<1>5. \A e \in Days : Len(files'[e]) = Len(files[e])
  BY <1>2, <1>3
<1>6. DiskTypes'
  BY <1>4, <1>5 DEF DiskTypes
<1>. QED
  BY <1>2, <1>3, <1>5, <1>6 DEF Replaced

-----------------------------------------------------------------------------
(***************************************************************************)
(* Types of the readers' steps                                             *)
(***************************************************************************)
LEMMA NewestBound ==
  ASSUME NEW S \in SUBSET Days
  PROVE  /\ Newest(S) \subseteq S
         /\ IsFiniteSet(Newest(S))
         /\ Cardinality(Newest(S)) <= MaxAttached
<1>1. Newest(S) \subseteq S /\ S \subseteq Nat /\ IsFiniteSet(S)
  BY DaysFinite, FS_Subset DEF Newest
<1>2. IsFiniteSet(Newest(S)) /\ MaxAttached \in Nat
  BY <1>1, FS_Subset, StoreAssumption
<1>3. CASE Newest(S) = {}
  BY <1>2, <1>3, FS_EmptySet
<1>4. CASE Newest(S) # {}
  <2> DEFINE m == Min(Newest(S))
             Above == {e \in S : e > m}
  <2>1. m \in Newest(S) /\ \A x \in Newest(S) : m <= x
    BY <1>1, <1>4, MinLeast
  <2>2. Cardinality(Above) < MaxAttached
    BY <2>1 DEF Newest
  <2> HIDE DEF m
  <2>3. Newest(S) \ {m} \subseteq Above
    <3> SUFFICES ASSUME NEW x \in Newest(S) \ {m} PROVE x \in Above
      OBVIOUS
    <3>1. x \in S /\ x \in Nat /\ m \in Nat /\ m <= x /\ x # m
      BY <1>1, <2>1
    <3>. QED
      BY <3>1
  <2>4. IsFiniteSet(Above)
    BY <1>1, FS_Subset
  <2>5. Cardinality(Newest(S) \ {m}) <= Cardinality(Above)
    BY <2>3, <2>4, FS_Subset
  <2>6. /\ Cardinality(Newest(S) \ {m}) = Cardinality(Newest(S)) - 1
        /\ Cardinality(Newest(S)) \in Nat /\ Cardinality(Above) \in Nat
    BY <1>2, <2>1, <2>4, FS_RemoveElement, FS_CardinalityType
  <2> HIDE DEF Above
  <2>7. Cardinality(Newest(S)) <= MaxAttached
    BY <1>2, <2>2, <2>5, <2>6
  <2>. QED
    BY <1>1, <1>2, <2>7
<1>. QED
  BY <1>1, <1>2, <1>3, <1>4

LEMMA MaxWithZero ==
  ASSUME NEW x \in Int
  PROVE  Max({0, x}) = IF x > 0 THEN x ELSE 0
<1> DEFINE m == IF x > 0 THEN x ELSE 0
<1>1. m \in {0, x} /\ \A y \in {0, x} : m >= y
  OBVIOUS
<1>2. \A z \in {0, x} : (\A y \in {0, x} : z >= y) => z = m
  OBVIOUS
<1> HIDE DEF m
<1>3. Max({0, x}) = m
  BY <1>1, <1>2 DEF Max
<1>. QED
  BY <1>3 DEF m

\* A step of a reader leaves everything else alone, but may create a file.
ReaderFrame ==
  /\ DiskTypes'
  /\ \A e \in Days : Len(files'[e]) >= Len(files[e])
  /\ UNCHANGED <<clock, openVars, actorVars, batch, cron, exits, committed>>

LEMMA DiskOfTypeOK ==
  ASSUME TypeOK
  PROVE  DiskTypes
BY DEF TypeOK, DiskTypes

LEMMA ReaderTypes ==
  ASSUME TypeOK, HasFile, ReaderFrame, search' \in SearchCall, seen' \in SeenCall,
         Cardinality(search'.attached) <= MaxAttached
  PROVE  TypeOK' /\ HasFile'
<1>1. ASSUME NEW d \in Days
      PROVE  {dir'[d], handle'[d]} \subseteq 0 .. Len(files'[d])
  <2>1. handle'[d] \in 0 .. Len(files[d]) /\ dir'[d] \in 0 .. Len(files'[d])
    BY DEF ReaderFrame, DiskTypes, openVars, TypeOK
  <2>2. Len(files[d]) \in Nat /\ Len(files'[d]) \in Nat
    BY DiskOfTypeOK, LenFiles, LenProperties DEF ReaderFrame, DiskTypes
  <2>. QED
    BY <2>1, <2>2 DEF ReaderFrame
<1>2. ASSUME NEW a \in Actors
      PROVE  db'[a] \in 0 .. Len(files'[day'[a]])
  <2>1. db'[a] \in 0 .. Len(files[day[a]]) /\ day'[a] = day[a] /\ day[a] \in Days
    BY DEF ReaderFrame, actorVars, TypeOK
  <2>2. Len(files[day[a]]) \in Nat /\ Len(files'[day[a]]) \in Nat
    BY <2>1, DiskOfTypeOK, LenFiles, LenProperties DEF ReaderFrame, DiskTypes
  <2>. QED
    BY <2>1, <2>2 DEF ReaderFrame
<1>3. HasFile'
  BY DEF HasFile, ReaderFrame, actorVars
<1>. QED
  BY <1>1, <1>2, <1>3
     DEF ReaderFrame, DiskTypes, openVars, actorVars, TypeOK

LEMMA NoDiskChange ==
  ASSUME TypeOK, UNCHANGED diskVars
  PROVE  DiskTypes' /\ \A e \in Days : Len(files'[e]) >= Len(files[e])
<1>1. UNCHANGED <<files, dir>> /\ DiskTypes
  BY DiskOfTypeOK DEF diskVars
<1>. QED
  BY <1>1, LenFiles DEF DiskTypes

LEMMA SearchStartTypes ==
  ASSUME TypeInv, SearchStart
  PROVE  TypeInv'
<1>1. ReaderFrame /\ UNCHANGED <<seen, files>>
  BY NoDiskChange DEF SearchStart, ReaderFrame, TypeInv, diskVars
<1>2. PICK n \in SearchDays :
        LET range == Max({0, Day(clock) - n + 1}) .. Day(clock)
        IN  search' = [NoSearch EXCEPT !.at = "stat", !.range = range,
                                       !.todo = range, !.before = committed]
  BY DEF SearchStart
<1> DEFINE range == Max({0, Day(clock) - n + 1}) .. Day(clock)
<1>3. Day(clock) \in Days /\ Day(clock) \in Nat /\ n \in Nat \ {0}
  BY DayOfClock, DaysFinite, StoreAssumption DEF TypeInv, TypeOK
<1>4. /\ Max({0, Day(clock) - n + 1}) \in Nat
      /\ Max({0, Day(clock) - n + 1}) <= Day(clock)
  BY <1>3, MaxWithZero
<1>5. range # {} /\ range \subseteq Days
  <2> DEFINE m == Max({0, Day(clock) - n + 1})
  <2>1. m \in Nat /\ m <= Day(clock)
    BY <1>4
  <2>2. Day(MaxClock) \in Nat /\ Day(clock) <= Day(MaxClock)
    BY <1>3, DayBounds, StoreAssumption DEF Days
  <2> HIDE DEF m
  <2>3. Day(clock) \in m .. Day(clock) /\ m .. Day(clock) \subseteq Days
    BY <1>3, <2>1, <2>2 DEF Days
  <2>. QED
    BY <2>3 DEF m
<1> HIDE DEF range
<1>6. committed \subseteq Row
  BY DEF TypeInv, TypeOK
<1>7. /\ search' \in SearchCall /\ search'.at = "stat"
      /\ search'.todo = range /\ search'.range = range
      /\ search'.found = {} /\ search'.attached = {}
  BY <1>2, <1>5, <1>6 DEF NoSearch, SearchCall, range
<1>8. Cardinality(search'.attached) <= MaxAttached
  BY <1>7, FS_EmptySet, StoreAssumption
<1>9. SearchShape'
  BY <1>5, <1>7 DEF SearchShape
<1>. QED
  BY <1>1, <1>7, <1>8, <1>9, ReaderTypes DEF TypeInv, TypeOK

LEMMA StatDateTypes ==
  ASSUME TypeInv, StatDate
  PROVE  TypeInv'
<1>1. ReaderFrame /\ UNCHANGED <<seen, files>>
  BY NoDiskChange DEF StatDate, ReaderFrame, TypeInv, diskVars
<1> DEFINE d     == Min(search.todo)
           left  == search.todo \ {d}
           found == search.found \union {e \in {d} : dir[e] # 0}
<1>2. search' = [search EXCEPT
                   !.todo  = left,
                   !.found = IF left = {} THEN Newest(found) ELSE found,
                   !.at    = IF left = {} THEN "attach" ELSE "stat"]
  BY DEF StatDate
<1>3. /\ search \in SearchCall /\ search.at = "stat" /\ search.todo # {}
      /\ search.todo \subseteq search.range /\ search.range \subseteq Days
      /\ search.found \subseteq search.range /\ search.attached = {}
  BY DEF StatDate, TypeInv, TypeOK, SearchShape, SearchCall
<1>4. d \in search.todo
  BY <1>3, DaysFinite, MinLeast
<1>5. left \subseteq search.range /\ found \subseteq search.range
  BY <1>3, <1>4
<1> HIDE DEF d, left, found
<1>6. /\ Newest(found) \subseteq found /\ IsFiniteSet(Newest(found))
      /\ Cardinality(Newest(found)) <= MaxAttached
  BY <1>3, <1>5, NewestBound
<1>7. /\ search' \in SearchCall
      /\ search'.attached = {} /\ search'.range = search.range
      /\ search'.todo = left
      /\ search'.found = IF left = {} THEN Newest(found) ELSE found
      /\ search'.at = IF left = {} THEN "attach" ELSE "stat"
  BY <1>2, <1>3, <1>5, <1>6 DEF SearchCall
<1>8. Cardinality(search'.attached) = 0 /\ IsFiniteSet(search'.attached)
  BY <1>7, FS_EmptySet
<1>9. Cardinality(search'.attached) <= MaxAttached
  BY <1>8, StoreAssumption
<1>10. SearchShape'
  <2>1. CASE left = {}
    <3>1. Cardinality(Newest(found)) \in Nat
      BY <1>6, FS_CardinalityType
    <3>. QED
      BY <1>6, <1>7, <1>8, <2>1, <3>1 DEF SearchShape
  <2>2. CASE left # {}
    BY <1>5, <1>7, <2>2 DEF SearchShape
  <2>. QED
    BY <2>1, <2>2
<1>. QED
  BY <1>1, <1>7, <1>9, <1>10, ReaderTypes DEF TypeInv, TypeOK

LEMMA AttachTypes ==
  ASSUME TypeInv, Attach
  PROVE  TypeInv'
<1> DEFINE d == Min(search.found)
<1>1. /\ search \in SearchCall /\ search.at = "attach" /\ search.found # {}
      /\ search.found \subseteq Days /\ search.found \subseteq Nat
      /\ IsFiniteSet(search.found) /\ IsFiniteSet(search.attached)
      /\ Cardinality(search.found) + Cardinality(search.attached)
           <= MaxAttached
      /\ \A f \in search.attached : f[2] \in 1 .. Len(files[f[1]])
  BY DaysFinite, FS_Subset
     DEF Attach, TypeInv, TypeOK, SearchShape, SearchCall
<1>2. d \in search.found /\ d \in Days
  BY <1>1, MinLeast
<1>3. /\ Cardinality(search.found \ {d}) = Cardinality(search.found) - 1
      /\ Cardinality(search.found) \in Nat
      /\ Cardinality(search.attached) \in Nat
      /\ MaxAttached \in Nat
  BY <1>1, <1>2, FS_RemoveElement, FS_CardinalityType, StoreAssumption
<1> HIDE DEF d
<1>4. CASE /\ PathOpened(d)
           /\ search' = [search EXCEPT
                           !.found    = @ \ {d},
                           !.attached = @ \union {<<d, dir'[d]>>},
                           !.missing  = IF dir[d] = 0 THEN @ \union {d}
                                                      ELSE @]
  <2> DEFINE f == <<d, dir'[d]>>
  <2>1. Opened(d)
    BY <1>2, <1>4, OpeningOpens, DiskOfTypeOK DEF TypeInv
  <2>2. dir'[d] \in 1 .. Len(files'[d]) /\ Len(files'[d]) \in Nat
    BY <1>2, <2>1, LenProperties DEF Opened, DiskTypes
  <2>3. f \in Days \X Nat
    BY <1>2, <2>2
  <2>4. ReaderFrame /\ UNCHANGED seen
    BY <2>1 DEF Attach, ReaderFrame, Opened
  <2>5. /\ search' \in SearchCall /\ search'.at = "attach"
        /\ search'.found = search.found \ {d}
        /\ search'.attached = search.attached \union {f}
    BY <1>1, <1>2, <1>4, <2>3 DEF SearchCall
  <2>6. /\ IsFiniteSet(search'.attached)
        /\ Cardinality(search'.attached) <= Cardinality(search.attached) + 1
        /\ Cardinality(search'.attached) \in Nat
    <3> HIDE DEF f
    <3>1. /\ IsFiniteSet(search.attached \union {f})
          /\ Cardinality(search.attached \union {f}) =
                IF f \in search.attached THEN Cardinality(search.attached)
                                          ELSE Cardinality(search.attached) + 1
      BY <1>1, FS_AddElement
    <3>. QED
      BY <1>3, <2>5, <3>1
  <2>7. /\ Cardinality(search'.found) + Cardinality(search'.attached)
             <= MaxAttached
        /\ Cardinality(search'.attached) <= MaxAttached
    <3>1. Cardinality(search'.found) = Cardinality(search.found) - 1
      BY <1>3, <2>5
    <3>2. Cardinality(search.found) # 0
      BY <1>1, FS_EmptySet
    <3>. QED
      BY <1>1, <1>3, <2>6, <3>1, <3>2
  <2>8. ASSUME NEW g \in search'.attached
        PROVE  g[2] \in 1 .. Len(files'[g[1]])
    <3>1. CASE g = f
      BY <2>2, <3>1
    <3>2. CASE g \in search.attached
      <4>1. g[1] \in Days /\ g[2] \in 1 .. Len(files[g[1]])
        BY <1>1, <3>2 DEF SearchCall
      <4>2. Len(files'[g[1]]) >= Len(files[g[1]])
        BY <4>1, <2>1 DEF Opened
      <4>3. Len(files'[g[1]]) \in Nat /\ Len(files[g[1]]) \in Nat
        BY <2>1, <4>1, DiskOfTypeOK, LenFiles, LenProperties
           DEF Opened, DiskTypes, TypeInv
      <4>. QED
        BY <4>1, <4>2, <4>3
    <3>. QED
      BY <2>5, <3>1, <3>2
  <2>9. SearchShape'
    BY <2>5, <2>6, <2>7, <2>8 DEF SearchShape
  <2>. QED
    BY <2>4, <2>5, <2>7, <2>9, ReaderTypes DEF TypeInv, TypeOK
<1>5. CASE /\ search' = [search EXCEPT !.found   = @ \ {d},
                                       !.skipped = @ \union {d}]
           /\ UNCHANGED diskVars
  <2>1. ReaderFrame /\ UNCHANGED <<seen, files>>
    BY <1>5, NoDiskChange DEF Attach, ReaderFrame, TypeInv, diskVars
  <2>2. /\ search' \in SearchCall /\ search'.at = "attach"
        /\ search'.found = search.found \ {d}
        /\ search'.attached = search.attached
    BY <1>1, <1>2, <1>5 DEF SearchCall
  <2>3. /\ Cardinality(search'.found) + Cardinality(search'.attached)
             <= MaxAttached
        /\ Cardinality(search'.attached) <= MaxAttached
    BY <1>1, <1>3, <2>2
  <2>4. SearchShape'
    BY <1>1, <2>1, <2>2, <2>3 DEF SearchShape
  <2>. QED
    BY <2>1, <2>2, <2>3, <2>4, ReaderTypes DEF TypeInv, TypeOK
<1>. QED
  BY <1>4, <1>5 DEF Attach, d

LEMMA QueryTypes ==
  ASSUME TypeInv, Query
  PROVE  TypeInv'
<1>1. ReaderFrame /\ UNCHANGED <<seen, files>>
  BY NoDiskChange DEF Query, ReaderFrame, TypeInv, diskVars
<1>2. /\ search \in SearchCall /\ search.at = "attach"
      /\ Cardinality(search.attached) <= MaxAttached
      /\ \A f \in search.attached : f[2] \in 1 .. Len(files[f[1]])
  BY DEF Query, TypeInv, TypeOK, SearchShape
<1>3. \A f \in AttachedFiles : f.rows \subseteq Row
  <2> SUFFICES ASSUME NEW a \in search.attached
               PROVE  files[a[1]][a[2]].rows \subseteq Row
    BY DEF AttachedFiles
  <2>1. a[1] \in Days /\ a[2] \in 1 .. Len(files[a[1]])
    BY <1>2 DEF SearchCall
  <2>2. files[a[1]][a[2]] \in File
    BY <2>1, DiskOfTypeOK, LenFiles DEF TypeInv
  <2>. QED
    BY <2>2 DEF File
<1>4. UNION {f.rows : f \in AttachedFiles} \subseteq Row
  BY <1>3
<1>5. \/ search' = [search EXCEPT !.at = "failed"]
      \/ search' = [search EXCEPT !.at = "done",
                         !.rows = UNION {f.rows : f \in AttachedFiles}]
  BY DEF Query
<1>6. /\ search' \in SearchCall /\ search'.at \in {"done", "failed"}
      /\ search'.attached = search.attached
  BY <1>2, <1>4, <1>5 DEF SearchCall
<1>7. SearchShape'
  BY <1>6 DEF SearchShape
<1>. QED
  BY <1>1, <1>2, <1>6, <1>7, ReaderTypes DEF TypeInv, TypeOK

LEMMA NoCalls ==
  /\ NoSearch \in SearchCall /\ NoSearch.at = "idle"
  /\ Cardinality(NoSearch.attached) <= MaxAttached
  /\ NoSeen \in SeenCall
<1>1. NoSearch \in SearchCall /\ NoSearch.at = "idle"
  BY DEF NoSearch, SearchCall
<1>2. NoSearch.attached = {}
  BY DEF NoSearch
<1>3. Cardinality(NoSearch.attached) <= MaxAttached
  BY <1>2, FS_EmptySet, StoreAssumption
<1>4. NoSeen \in SeenCall
  BY DaysFinite DEF NoSeen, SeenCall
<1>. QED
  BY <1>1, <1>3, <1>4

LEMMA SearchTypes ==
  ASSUME TypeInv, Search
  PROVE  TypeInv'
<1>1. CASE SearchEnd
  <2>1. ReaderFrame /\ UNCHANGED seen /\ search' = NoSearch
    BY <1>1, NoDiskChange DEF SearchEnd, ReaderFrame, TypeInv
  <2>2. SearchShape'
    BY <2>1, NoCalls DEF SearchShape
  <2>. QED
    BY <2>1, <2>2, NoCalls, ReaderTypes DEF TypeInv, TypeOK
<1>. QED
  BY <1>1, SearchStartTypes, StatDateTypes, AttachTypes, QueryTypes DEF Search

\* LastSeen's own steps leave the search alone, whatever file they create.
LEMMA SeenOnly ==
  ASSUME TypeInv, ReaderFrame, UNCHANGED search, seen' \in SeenCall
  PROVE  TypeInv'
<1>1. SearchShape'
  <2>1. ASSUME search.at = "attach", NEW f \in search.attached
        PROVE  f[2] \in 1 .. Len(files'[f[1]])
    <3>1. f[1] \in Days /\ f[2] \in 1 .. Len(files[f[1]])
      BY <2>1 DEF TypeInv, TypeOK, SearchShape, SearchCall
    <3>2. /\ Len(files'[f[1]]) >= Len(files[f[1]])
          /\ Len(files'[f[1]]) \in Nat /\ Len(files[f[1]]) \in Nat
      BY <3>1, DiskOfTypeOK, LenFiles, LenProperties
         DEF ReaderFrame, DiskTypes, TypeInv
    <3>. QED
      BY <3>1, <3>2
  <2>. QED
    BY <2>1 DEF TypeInv, SearchShape
<1>. QED
  BY <1>1, ReaderTypes DEF TypeInv, TypeOK

LEMMA YesterdayTypes ==
  ASSUME TypeInv, Yesterday
  PROVE  seen' \in SeenCall
<1>1. seen \in SeenCall /\ seen.day \in Days /\ seen.day \in Nat
  BY DaysFinite DEF TypeInv, TypeOK, SeenCall
<1>2. CASE InLookback(seen.day - 1)
  <2>1. seen.day - 1 \in Days
    BY <1>1, <1>2, DayBounds, StoreAssumption DEF InLookback, Days
  <2>. QED
    BY <1>1, <1>2, <2>1 DEF Yesterday, SeenCall
<1>3. CASE ~InLookback(seen.day - 1)
  BY <1>1, <1>3 DEF Yesterday, SeenCall
<1>. QED
  BY <1>2, <1>3

LEMMA LastSeenTypes ==
  ASSUME TypeInv, LastSeen
  PROVE  TypeInv'
<1>1. CASE LastSeenStart
  <2>1. ReaderFrame /\ UNCHANGED search
    BY <1>1, NoDiskChange DEF LastSeenStart, ReaderFrame, TypeInv
  <2>2. Day(clock) \in Days /\ committed \subseteq Row
    BY DayOfClock DEF TypeInv, TypeOK
  <2>3. seen' \in SeenCall
    BY <1>1, <2>2 DEF LastSeenStart, NoSeen, SeenCall
  <2>. QED
    BY <2>1, <2>3, SeenOnly
<1>2. CASE StatDay
  <2>1. ReaderFrame /\ UNCHANGED search
    BY <1>2, NoDiskChange DEF StatDay, ReaderFrame, TypeInv
  <2>2. CASE seen' = [seen EXCEPT !.at = "read"]
    BY <2>1, <2>2, SeenOnly DEF TypeInv, TypeOK, SeenCall
  <2>3. CASE Yesterday
    BY <2>1, <2>3, SeenOnly, YesterdayTypes
  <2>. QED
    BY <1>2, <2>2, <2>3 DEF StatDay
<1>3. CASE ReadShard
  <2> DEFINE d    == seen.day
             f    == files'[d][dir'[d]]
             rows == {r \in f.rows : r.c = seen.c}
  <2>1. d \in Days /\ PathOpened(d) /\ seen \in SeenCall
    BY <1>3 DEF ReadShard, TypeInv, TypeOK, SeenCall
  <2>2. Opened(d)
    BY <2>1, OpeningOpens, DiskOfTypeOK DEF TypeInv
  <2>3. ReaderFrame /\ UNCHANGED search
    BY <1>3, <2>2 DEF ReadShard, ReaderFrame, Opened
  <2>4. f \in File
    <3>1. files'[d] \in Seq(File) /\ dir'[d] \in 1 .. Len(files'[d])
      BY <2>1, <2>2, LenProperties DEF Opened, DiskTypes
    <3>. QED
      BY <3>1, ElementOfSeq
  <2>5. TextMax(rows) \subseteq Row
    BY <2>4 DEF TextMax, File
  <2> HIDE DEF rows
  <2>6. \/ seen' = [seen EXCEPT !.at = "failed"]
        \/ Yesterday
        \/ seen' = [seen EXCEPT !.at = "done", !.ans = TextMax(rows)]
    BY <1>3 DEF ReadShard, rows
  <2>7. seen' \in SeenCall
    BY <2>1, <2>5, <2>6, YesterdayTypes DEF SeenCall
  <2>. QED
    BY <2>3, <2>7, SeenOnly
<1>4. CASE LastSeenEnd
  <2>1. ReaderFrame /\ UNCHANGED search
    BY <1>4, NoDiskChange DEF LastSeenEnd, ReaderFrame, TypeInv
  <2>. QED
    BY <1>4, <2>1, SeenOnly, NoCalls DEF LastSeenEnd
<1>. QED
  BY <1>1, <1>2, <1>3, <1>4 DEF LastSeen

-----------------------------------------------------------------------------
(***************************************************************************)
(* Types of the writers' steps                                             *)
(***************************************************************************)
LabelsOf(a) == IF a = "run" THEN RunLabels ELSE CronLabels

WithFile == {"schema", "migrate", "recreate", "got", "tx"}

CronTypes == [next : Nat, expired : SUBSET Days, remaining : SUBSET Days]

\* where a goes, on which date, with which file
Goes(a, label, d, i) ==
  /\ pc' \in [Actors -> RunLabels \union CronLabels]
  /\ day' \in [Actors -> Days]
  /\ db' \in [Actors -> Nat]
  /\ pc'[a] = label /\ day'[a] = d /\ db'[a] = i
  /\ label \in LabelsOf(a)
  /\ label \in WithFile => i # 0
  /\ \A b \in Actors \ {a} : pc'[b] = pc[b] /\ day'[b] = day[b] /\ db'[b] = db[b]

LEMMA GotoGoes ==
  ASSUME TypeOK, NEW a \in Actors, NEW label \in LabelsOf(a), Goto(a, label),
         UNCHANGED <<day, db>>, label \in WithFile => db[a] # 0
  PROVE  Goes(a, label, day[a], db[a])
<1>1. pc' = [pc EXCEPT ![a] = label] /\ label \in RunLabels \union CronLabels
  BY DEF Goto, LabelsOf
<1>. QED
  BY <1>1 DEF Goes, TypeOK

LEMMA GotoWithGoes ==
  ASSUME TypeOK, NEW a \in Actors, NEW label \in LabelsOf(a), Goto(a, label),
         NEW i \in Nat \ {0}, db' = [db EXCEPT ![a] = i], UNCHANGED day
  PROVE  Goes(a, label, day[a], i)
<1>1. pc' = [pc EXCEPT ![a] = label] /\ label \in RunLabels \union CronLabels
  BY DEF Goto, LabelsOf
<1>. QED
  BY <1>1 DEF Goes, TypeOK

LEMMA GotoDateGoes ==
  ASSUME TypeOK, NEW a \in Actors, NEW label \in LabelsOf(a) \ WithFile,
         NEW d \in Days, GotoDate(a, label, d)
  PROVE  Goes(a, label, d, 0)
<1>1. /\ pc' = [pc EXCEPT ![a] = label] /\ day' = [day EXCEPT ![a] = d]
      /\ db' = [db EXCEPT ![a] = 0] /\ label \in RunLabels \union CronLabels
  BY DEF GotoDate, Goto, LabelsOf
<1>. QED
  BY <1>1 DEF Goes, TypeOK

LEMMA DayOfRow ==
  ASSUME NEW r \in Row
  PROVE  DayOf(r) \in Days /\ r.sec \in Nat
<1>1. r.sec \in 0 .. MaxClock /\ MaxClock \in Nat
  BY StoreAssumption DEF Row
<1>. QED
  BY <1>1, DayOfClock DEF DayOf

LEMMA NextGroupGoes ==
  ASSUME TypeOK, NEW rows \in SUBSET Row, NextGroup(rows)
  PROVE  \/ rows = {} /\ Goes("run", "idle", 0, 0)
         \/ \E r \in rows : Goes("run", "get", DayOf(r), 0)
<1>1. {"idle", "get"} \subseteq LabelsOf("run") \ WithFile /\ "run" \in Actors
  BY DEF LabelsOf, RunLabels, WithFile, Actors
<1>2. CASE rows = {} /\ GotoDate("run", "idle", 0)
  BY <1>1, <1>2, DaysFinite, GotoDateGoes
<1>3. ASSUME NEW r \in rows, GotoDate("run", "get", DayOf(r))
      PROVE  Goes("run", "get", DayOf(r), 0)
  BY <1>1, <1>3, DayOfRow, GotoDateGoes
<1>. QED
  BY <1>2, <1>3 DEF NextGroup

LEMMA NextThreeAMNat ==
  ASSUME NEW t \in Nat
  PROVE  NextThreeAM(t) \in Nat
<1>1. Day(t) \in Nat /\ TicksPerDay \in Nat /\ ThreeAM \in Nat
  BY DayBounds, StoreAssumption
<1>2. Day(t) * TicksPerDay \in Nat
  BY <1>1
<1>. QED
  BY <1>1, <1>2 DEF NextThreeAM

LEMMA NextThreeAMDue ==
  ASSUME NEW t \in Nat
  PROVE  /\ NextThreeAM(t) > t
         /\ \E n \in Nat : NextThreeAM(t) = n * TicksPerDay + ThreeAM
<1> DEFINE d == Day(t)
<1>1. /\ d \in Nat /\ TicksPerDay \in Nat /\ ThreeAM \in Nat
      /\ t < (d + 1) * TicksPerDay
  BY DayBounds, StoreAssumption
<1>2. NextThreeAM(t) = IF d * TicksPerDay + ThreeAM > t
                         THEN d * TicksPerDay + ThreeAM
                         ELSE d * TicksPerDay + ThreeAM + TicksPerDay
  BY DEF NextThreeAM
<1> HIDE DEF d
<1>3. /\ (d + 1) * TicksPerDay = d * TicksPerDay + TicksPerDay
      /\ d * TicksPerDay \in Nat /\ d + 1 \in Nat
  BY <1>1
<1>4. CASE d * TicksPerDay + ThreeAM > t
  BY <1>1, <1>2, <1>4
<1>5. CASE ~(d * TicksPerDay + ThreeAM > t)
  <2>1. NextThreeAM(t) = (d + 1) * TicksPerDay + ThreeAM
    BY <1>1, <1>2, <1>3, <1>5
  <2>. QED
    BY <1>1, <1>3, <2>1
<1>. QED
  BY <1>4, <1>5

LEMMA NextEntryGoes ==
  ASSUME TypeOK, NEW expired \in SUBSET Days, NEW remaining \in SUBSET Days,
         NextEntry(expired, remaining)
  PROVE  /\ cron' \in CronTypes /\ cron'.expired \subseteq expired
         /\ \/ Goes("cron", "wait", 0, 0)
            \/ \E d \in expired : Goes("cron", "close", d, 0)
                                 /\ d \in cron'.expired
            \/ \E d \in remaining : Goes("cron", "get", d, 0)
<1>1. {"wait", "close", "get"} \subseteq LabelsOf("cron") \ WithFile
      /\ "cron" \in Actors
  BY DEF LabelsOf, CronLabels, WithFile, Actors
<1>2. CASE expired \union remaining = {}
  <2>1. /\ cron' = [next |-> NextThreeAM(clock), expired |-> {},
                     remaining |-> {}]
        /\ GotoDate("cron", "wait", 0)
    BY <1>2 DEF NextEntry
  <2>2. NextThreeAM(clock) \in Nat
    <3>1. clock \in Nat
      BY DEF TypeOK
    <3>. QED
      BY <3>1, NextThreeAMNat
  <2>. QED
    BY <1>1, <2>1, <2>2, DaysFinite, GotoDateGoes DEF CronTypes
<1>3. CASE expired \union remaining # {}
  <2>1. cron' = [cron EXCEPT !.expired = expired, !.remaining = remaining]
    BY <1>3 DEF NextEntry
  <2>2. cron' \in CronTypes /\ cron'.expired = expired
    BY <2>1 DEF TypeOK, CronTypes
  <2>3. CASE expired # {}
    <3>1. Min(expired) \in expired
      BY <2>3, DaysFinite, MinLeast
    <3>2. GotoDate("cron", "close", Min(expired))
      BY <1>3, <2>3 DEF NextEntry
    <3>. QED
      BY <1>1, <2>2, <3>1, <3>2, GotoDateGoes
  <2>4. CASE expired = {}
    <3>1. Min(remaining) \in remaining
      BY <1>3, <2>4, DaysFinite, MinLeast
    <3>2. GotoDate("cron", "get", Min(remaining))
      BY <1>3, <2>4 DEF NextEntry
    <3>. QED
      BY <1>1, <2>2, <3>1, <3>2, GotoDateGoes
  <2>. QED
    BY <2>3, <2>4
<1>. QED
  BY <1>2, <1>3

\* What is common to a step of an actor that leaves the readers alone.
WriterFrame ==
  /\ DiskTypes'
  /\ \A e \in Days : Len(files'[e]) >= Len(files[e])
  /\ UNCHANGED <<clock, search, seen, exits>>

LEMMA WriterTypes ==
  ASSUME TypeInv, WriterFrame, NEW a \in Actors, NEW label, NEW d, NEW i,
         Goes(a, label, d, i), i \in 0 .. Len(files'[d]),
         handle' \in [Days -> Nat],
         \A e \in Days : handle'[e] \in 0 .. Len(files'[e]),
         mu' \in Actors \union {"free"}, batch' \subseteq Row,
         cron' \in CronTypes, committed' \subseteq Row
  PROVE  TypeInv'
<1>1. ASSUME NEW e \in Days
      PROVE  {dir'[e], handle'[e]} \subseteq 0 .. Len(files'[e])
  BY DEF WriterFrame, DiskTypes
<1>2. ASSUME NEW b \in Actors
      PROVE  db'[b] \in 0 .. Len(files'[day'[b]])
  <2>1. CASE b = a
    BY <2>1 DEF Goes
  <2>2. CASE b # a
    <3>1. /\ db'[b] = db[b] /\ day'[b] = day[b] /\ day[b] \in Days
          /\ db[b] \in 0 .. Len(files[day[b]])
      BY <2>2 DEF Goes, TypeInv, TypeOK
    <3>2. /\ Len(files'[day[b]]) >= Len(files[day[b]])
          /\ Len(files'[day[b]]) \in Nat /\ Len(files[day[b]]) \in Nat
      BY <3>1, DiskOfTypeOK, LenFiles, LenProperties
         DEF WriterFrame, DiskTypes, TypeInv
    <3>. QED
      BY <3>1, <3>2
  <2>. QED
    BY <2>1, <2>2
<1>3. pc'["run"] \in RunLabels /\ pc'["cron"] \in CronLabels
  BY DEF Goes, LabelsOf, Actors, TypeInv, TypeOK
<1>4. HasFile'
  BY DEF Goes, WithFile, HasFile, TypeInv
<1>5. SearchShape'
  <2>1. ASSUME search.at = "attach", NEW f \in search.attached
        PROVE  f[2] \in 1 .. Len(files'[f[1]])
    <3>1. f[1] \in Days /\ f[2] \in 1 .. Len(files[f[1]])
      BY <2>1 DEF TypeInv, TypeOK, SearchShape, SearchCall
    <3>2. /\ Len(files'[f[1]]) >= Len(files[f[1]])
          /\ Len(files'[f[1]]) \in Nat /\ Len(files[f[1]]) \in Nat
      BY <3>1, DiskOfTypeOK, LenFiles, LenProperties
         DEF WriterFrame, DiskTypes, TypeInv
    <3>. QED
      BY <3>1, <3>2
  <2>. QED
    BY <2>1 DEF WriterFrame, TypeInv, SearchShape
<1>6. TypeOK'
  BY <1>1, <1>2, <1>3
     DEF WriterFrame, DiskTypes, Goes, CronTypes, TypeInv, TypeOK
<1>. QED
  BY <1>4, <1>5, <1>6 DEF TypeInv

LEMMA Unwritten ==
  ASSUME TypeInv, UNCHANGED <<clock, diskVars, search, seen, exits>>
  PROVE  /\ WriterFrame
         /\ \A e \in Days : files'[e] = files[e]
BY NoDiskChange DEF WriterFrame, diskVars, TypeInv

LEMMA HandlesGrow ==
  ASSUME TypeInv, WriterFrame
  PROVE  \A e \in Days : handle[e] \in 0 .. Len(files'[e])
<1> SUFFICES ASSUME NEW e \in Days PROVE handle[e] \in 0 .. Len(files'[e])
  OBVIOUS
<1>1. handle[e] \in 0 .. Len(files[e]) /\ Len(files'[e]) >= Len(files[e])
  BY DEF TypeInv, TypeOK, WriterFrame
<1>2. Len(files'[e]) \in Nat /\ Len(files[e]) \in Nat
  BY DiskOfTypeOK, LenFiles, LenProperties DEF WriterFrame, DiskTypes, TypeInv
<1>. QED
  BY <1>1, <1>2

LEMMA LabelFacts ==
  ASSUME NEW a \in Actors
  PROVE  /\ {"create", "schema", "migrate", "recreate", "got", "get"}
              \subseteq LabelsOf(a)
         /\ OpenLabels = {"create", "schema", "migrate", "recreate"}
BY DEF LabelsOf, RunLabels, CronLabels, OpenLabels

\* the file a has open
LEMMA FileInHand ==
  ASSUME TypeInv, NEW a \in Actors, pc[a] \in WithFile
  PROVE  /\ day[a] \in Days /\ db[a] \in 1 .. Len(files[day[a]])
         /\ db[a] \in Nat \ {0}
         /\ FileOf(a) \in File
<1>1. /\ day[a] \in Days /\ db[a] \in 0 .. Len(files[day[a]]) /\ db[a] # 0
      /\ db[a] \in Nat
  BY DEF TypeInv, TypeOK, HasFile, WithFile
<1>2. Len(files[day[a]]) \in Nat
  BY <1>1, DiskOfTypeOK, LenFiles DEF TypeInv
<1>3. db[a] \in 1 .. Len(files[day[a]])
  BY <1>1, <1>2
<1>. QED
  BY <1>1, <1>3, DiskOfTypeOK, LenFiles DEF FileOf, TypeInv

LEMMA ReplacingFrame ==
  ASSUME TypeInv, NEW d \in Days, NEW i, NEW f, Replaced(d, i, f),
         UNCHANGED <<clock, search, seen, exits>>
  PROVE  WriterFrame /\ \A e \in Days : Len(files'[e]) = Len(files[e])
<1>1. \A e \in Days : Len(files'[e]) = Len(files[e]) /\ Len(files[e]) \in Nat
  BY DiskOfTypeOK, LenFiles DEF Replaced, TypeInv
<1>. QED
  BY <1>1 DEF Replaced, WriterFrame

LEMMA RestTyped ==
  ASSUME TypeInv
  PROVE  /\ handle \in [Days -> Nat] /\ mu \in Actors \union {"free"}
         /\ batch \subseteq Row /\ cron \in CronTypes /\ committed \subseteq Row
         /\ day \in [Actors -> Days] /\ TypeOK
BY DEF TypeInv, TypeOK, CronTypes

LEMMA GetHandleSteps ==
  ASSUME TypeInv, NEW a \in Actors, GetHandle(a)
  PROVE  /\ TypeInv'
         /\ \/ /\ handle[day[a]] # 0 /\ UNCHANGED mu
               /\ Goes(a, "got", day[a], handle[day[a]])
            \/ /\ handle[day[a]] = 0 /\ mu' = a
               /\ Goes(a, "create", day[a], db[a])
<1>1. /\ WriterFrame /\ day[a] \in Days /\ UNCHANGED <<handle, batch, cron, committed>>
      /\ \A e \in Days : files'[e] = files[e]
  BY Unwritten, RestTyped DEF GetHandle
<1>2. handle[day[a]] \in 0 .. Len(files'[day[a]]) /\ handle[day[a]] \in Nat
  BY <1>1, HandlesGrow, RestTyped
<1>3. CASE /\ handle[day[a]] # 0 /\ Goto(a, "got") /\ UNCHANGED mu
           /\ db' = [db EXCEPT ![a] = handle[day[a]]]
  <2>1. Goes(a, "got", day[a], handle[day[a]])
    BY <1>2, <1>3, GotoWithGoes, LabelFacts, RestTyped DEF GetHandle
  <2>. QED
    BY <1>1, <1>2, <1>3, <2>1, HandlesGrow, WriterTypes, RestTyped
<1>4. CASE /\ handle[day[a]] = 0 /\ mu' = a /\ Goto(a, "create")
           /\ UNCHANGED db
  <2>1. Goes(a, "create", day[a], db[a])
    BY <1>4, GotoGoes, LabelFacts, RestTyped DEF GetHandle, WithFile
  <2>2. db[a] \in 0 .. Len(files'[day[a]])
    BY <1>1 DEF TypeInv, TypeOK
  <2>. QED
    BY <1>1, <1>4, <2>1, <2>2, HandlesGrow, WriterTypes, RestTyped
<1>. QED
  BY <1>3, <1>4 DEF GetHandle

LEMMA CreateFileSteps ==
  ASSUME TypeInv, NEW a \in Actors, CreateFile(a)
  PROVE  /\ TypeInv'
         /\ Opened(day[a])
         /\ Goes(a, "schema", day[a], dir'[day[a]])
<1> DEFINE d == day[a]
<1>1. d \in Days /\ PathOpened(d) /\ UNCHANGED <<handle, mu, batch, cron, committed>>
  BY RestTyped DEF CreateFile, openVars
<1>2. Opened(d)
  BY <1>1, OpeningOpens, DiskOfTypeOK DEF TypeInv
<1>3. WriterFrame
  BY <1>2 DEF CreateFile, WriterFrame, Opened
<1>4. dir'[d] \in Nat \ {0} /\ dir'[d] \in 0 .. Len(files'[d])
  BY <1>1, <1>2 DEF Opened, DiskTypes
<1>5. Goes(a, "schema", d, dir'[d])
  BY <1>4, GotoWithGoes, LabelFacts, RestTyped DEF CreateFile
<1>. QED
  BY <1>1, <1>2, <1>3, <1>4, <1>5, HandlesGrow, WriterTypes, RestTyped

LEMMA SettingFrame ==
  ASSUME TypeInv, NEW a \in Actors, NEW f \in File, FileSet(a, f),
         pc[a] \in WithFile, UNCHANGED <<clock, dir, search, seen, exits>>
  PROVE  /\ Replaced(day[a], db[a], f) /\ WriterFrame
         /\ db[a] \in 0 .. Len(files'[day[a]])
<1>1. Replaced(day[a], db[a], f)
  BY FileInHand, SettingReplaces, DiskOfTypeOK DEF TypeInv
<1>2. WriterFrame /\ \A e \in Days : Len(files'[e]) = Len(files[e])
  BY <1>1, FileInHand, ReplacingFrame
<1>3. db[a] \in 0 .. Len(files[day[a]]) /\ day[a] \in Days
  BY DEF TypeInv, TypeOK
<1>. QED
  BY <1>1, <1>2, <1>3

LEMMA CreateTableSteps ==
  ASSUME TypeInv, NEW a \in Actors, CreateTable(a)
  PROVE  /\ TypeInv'
         /\ Replaced(day[a], db[a],
              [FileOf(a) EXCEPT !.table = IF @ = "none" THEN "current" ELSE @])
         /\ Goes(a, "migrate", day[a], db[a])
<1> DEFINE f == [FileOf(a) EXCEPT !.table =
                   IF @ = "none" THEN "current" ELSE @]
<1>1. pc[a] = "schema" /\ pc[a] \in WithFile
  BY DEF CreateTable, WithFile
<1>2. f \in File
  BY <1>1, FileInHand DEF File
<1>3. FileSet(a, f) /\ UNCHANGED <<clock, dir, search, seen, exits>>
  BY DEF CreateTable
<1> HIDE DEF f
<1>4. /\ Replaced(day[a], db[a], f) /\ WriterFrame
      /\ db[a] \in 0 .. Len(files'[day[a]])
  BY <1>1, <1>2, <1>3, SettingFrame
<1>5. Goes(a, "migrate", day[a], db[a])
  BY <1>1, FileInHand, GotoGoes, LabelFacts, RestTyped DEF CreateTable
<1>6. TypeInv'
  BY <1>4, <1>5, HandlesGrow, WriterTypes, RestTyped DEF CreateTable, openVars
<1>. QED
  BY <1>4, <1>5, <1>6 DEF f

\* Register makes a's file the handle of its date.
Registered(a) ==
  /\ mu' = "free"
  /\ handle' = [handle EXCEPT ![day[a]] = db[a]]
  /\ Goes(a, "got", day[a], db[a])

LEMMA RegisterTypes ==
  ASSUME TypeInv, NEW a \in Actors, pc[a] \in WithFile, Register(a), WriterFrame,
         UNCHANGED <<day, db, batch, cron, committed>>
  PROVE  TypeInv' /\ Registered(a)
<1>1. /\ mu' = "free" /\ Goto(a, "got")
      /\ handle' = [handle EXCEPT ![day[a]] = db[a]]
  BY DEF Register
<1>2. Goes(a, "got", day[a], db[a])
  BY <1>1, FileInHand, GotoGoes, LabelFacts, RestTyped
<1>3. db[a] \in Nat /\ day[a] \in Days /\ db[a] \in 0 .. Len(files'[day[a]])
  <2>1. /\ db[a] \in 0 .. Len(files[day[a]]) /\ day[a] \in Days
        /\ Len(files'[day[a]]) >= Len(files[day[a]])
    BY DEF TypeInv, TypeOK, WriterFrame
  <2>2. Len(files'[day[a]]) \in Nat /\ Len(files[day[a]]) \in Nat
    BY <2>1, DiskOfTypeOK, LenFiles, LenProperties
       DEF WriterFrame, DiskTypes, TypeInv
  <2>. QED
    BY <2>1, <2>2
<1>4. handle' \in [Days -> Nat]
  BY <1>1, <1>3, RestTyped
<1>5. \A e \in Days : handle'[e] \in 0 .. Len(files'[e])
  BY <1>1, <1>3, HandlesGrow, RestTyped
<1>6. TypeInv'
  BY <1>1, <1>2, <1>3, <1>4, <1>5, WriterTypes, RestTyped
<1>. QED
  BY <1>1, <1>2, <1>6 DEF Registered

LEMMA MigrateSteps ==
  ASSUME TypeInv, NEW a \in Actors, Migrate(a)
  PROVE  /\ TypeInv' /\ UNCHANGED dir
         /\ \/ /\ FileOf(a).table = "current" /\ UNCHANGED files
               /\ Registered(a)
            \/ /\ FileOf(a).table # "current" /\ UNCHANGED openVars
               /\ Replaced(day[a], db[a], [table |-> "none", rows |-> {}])
               /\ Goes(a, "recreate", day[a], db[a])
<1> DEFINE f == [table |-> "none", rows |-> {}]
<1>1. /\ pc[a] = "migrate" /\ pc[a] \in WithFile
      /\ UNCHANGED <<clock, dir, day, db, batch, cron, search, seen, exits,
                     committed>>
  BY DEF Migrate, WithFile
<1>2. CASE HasLevel(FileOf(a)) /\ Register(a) /\ UNCHANGED files
  <2>1. WriterFrame
    BY <1>1, <1>2, Unwritten DEF diskVars
  <2>. QED
    BY <1>1, <1>2, <2>1, RegisterTypes DEF HasLevel
<1>3. CASE /\ ~HasLevel(FileOf(a)) /\ FileSet(a, f) /\ Goto(a, "recreate")
           /\ UNCHANGED openVars
  <2>1. f \in File
    BY DEF File
  <2> HIDE DEF f
  <2>2. /\ Replaced(day[a], db[a], f) /\ WriterFrame
        /\ db[a] \in 0 .. Len(files'[day[a]])
    BY <1>1, <1>3, <2>1, SettingFrame
  <2>3. Goes(a, "recreate", day[a], db[a])
    BY <1>1, <1>3, FileInHand, GotoGoes, LabelFacts, RestTyped
  <2>4. TypeInv'
    BY <1>1, <1>3, <2>2, <2>3, HandlesGrow, WriterTypes, RestTyped DEF openVars
  <2>. QED
    BY <1>1, <1>3, <2>2, <2>3, <2>4 DEF f, HasLevel
<1>. QED
  BY <1>2, <1>3 DEF Migrate

LEMMA RecreateSteps ==
  ASSUME TypeInv, NEW a \in Actors, Recreate(a)
  PROVE  /\ TypeInv' /\ UNCHANGED dir
         /\ Replaced(day[a], db[a], [FileOf(a) EXCEPT !.table = "current"])
         /\ Registered(a)
<1> DEFINE f == [FileOf(a) EXCEPT !.table = "current"]
<1>1. /\ pc[a] = "recreate" /\ pc[a] \in WithFile /\ Register(a)
      /\ UNCHANGED <<clock, dir, day, db, batch, cron, search, seen, exits,
                     committed>>
  BY DEF Recreate, WithFile
<1>2. f \in File
  BY <1>1, FileInHand DEF File
<1>3. FileSet(a, f)
  BY DEF Recreate
<1> HIDE DEF f
<1>4. Replaced(day[a], db[a], f) /\ WriterFrame
  BY <1>1, <1>2, <1>3, SettingFrame
<1>5. TypeInv' /\ Registered(a)
  BY <1>1, <1>4, RegisterTypes
<1>. QED
  BY <1>1, <1>4, <1>5 DEF f

LEMMA InsertBatchSteps ==
  ASSUME TypeInv, InsertBatch
  PROVE  /\ TypeInv' /\ batch' \subseteq Recent
         /\ \E r \in batch' : Goes("run", "get", DayOf(r), 0)
<1>1. PICK n \in 1 .. MaxBatch : batch' \in kSubset(n, Recent)
  BY DEF InsertBatch
<1>2. batch' \subseteq Recent /\ Cardinality(batch') = n
  BY <1>1 DEF kSubset
<1>3. batch' # {}
  BY <1>1, <1>2, FS_EmptySet, StoreAssumption
<1>4. batch' \in SUBSET Row
  BY <1>2 DEF Recent
<1>5. NextGroup(batch') /\ UNCHANGED openVars /\ WriterFrame
      /\ UNCHANGED <<cron, committed>>
  BY Unwritten DEF InsertBatch
<1>6. PICK r \in batch' : Goes("run", "get", DayOf(r), 0)
  BY <1>3, <1>4, <1>5, NextGroupGoes, RestTyped
<1>7. "run" \in Actors /\ DayOf(r) \in Days
  BY <1>4, DayOfRow DEF Actors
<1>8. 0 \in 0 .. Len(files'[DayOf(r)])
  BY <1>5, <1>7, LenProperties DEF WriterFrame, DiskTypes
<1>9. TypeInv'
  BY <1>4, <1>5, <1>6, <1>7, <1>8, HandlesGrow, WriterTypes, RestTyped
     DEF openVars
<1>. QED
  BY <1>2, <1>6, <1>9

LEMMA BeginTxSteps ==
  ASSUME TypeInv, BeginTx
  PROVE  TypeInv' /\ Goes("run", "tx", day["run"], db["run"])
<1>1. /\ "run" \in Actors /\ "tx" \in LabelsOf("run") /\ pc["run"] \in WithFile
      /\ UNCHANGED openVars /\ UNCHANGED <<day, db, batch, cron, committed>>
  BY DEF Actors, LabelsOf, RunLabels, BeginTx, WithFile
<1>2. WriterFrame
  BY Unwritten DEF BeginTx
<1>3. Goes("run", "tx", day["run"], db["run"])
  BY <1>1, FileInHand, GotoGoes, RestTyped DEF BeginTx
<1>4. db["run"] \in 0 .. Len(files'[day["run"]])
  BY <1>1, Unwritten, RestTyped DEF BeginTx, TypeInv, TypeOK
<1>. QED
  BY <1>1, <1>2, <1>3, <1>4, HandlesGrow, WriterTypes, RestTyped DEF openVars

\* after a group: the next date of the batch, or the return
NextDate ==
  \/ batch' = {} /\ Goes("run", "idle", 0, 0)
  \/ \E r \in batch' : Goes("run", "get", DayOf(r), 0)

LEMMA NextDateTypes ==
  ASSUME TypeInv, NextGroup(batch'), batch' \in SUBSET Row, WriterFrame,
         UNCHANGED <<handle, cron>>, mu' \in Actors \union {"free"},
         committed' \subseteq Row
  PROVE  TypeInv' /\ NextDate
<1>1. NextDate
  BY NextGroupGoes, RestTyped DEF NextDate
<1>2. \A d \in Days : 0 \in 0 .. Len(files'[d])
  BY LenProperties DEF WriterFrame, DiskTypes
<1>3. "run" \in Actors /\ 0 \in Days
  BY DaysFinite DEF Actors
<1>4. CASE batch' = {} /\ Goes("run", "idle", 0, 0)
  BY <1>1, <1>2, <1>3, <1>4, HandlesGrow, WriterTypes, RestTyped
<1>5. ASSUME NEW r \in batch', Goes("run", "get", DayOf(r), 0)
      PROVE  TypeInv'
  <2>1. DayOf(r) \in Days
    BY DayOfRow
  <2>. QED
    BY <1>2, <1>3, <1>5, <2>1, HandlesGrow, WriterTypes, RestTyped
<1>. QED
  BY <1>1, <1>4, <1>5 DEF NextDate

LEMMA CommitSteps ==
  ASSUME TypeInv, Commit
  PROVE  LET group == RowsOn(batch, day["run"])
         IN  /\ TypeInv' /\ UNCHANGED dir
             /\ batch' = batch \ group /\ committed' = committed \union group
             /\ Replaced(day["run"], db["run"],
                  [FileOf("run") EXCEPT !.rows = @ \union group])
             /\ NextDate
<1> DEFINE group == RowsOn(batch, day["run"])
           f     == [FileOf("run") EXCEPT !.rows = @ \union group]
<1>1. /\ "run" \in Actors /\ pc["run"] \in WithFile /\ FileSet("run", f)
      /\ committed' = committed \union group /\ batch' = batch \ group
      /\ NextGroup(batch') /\ UNCHANGED <<handle, mu, dir, cron>>
      /\ UNCHANGED <<clock, search, seen, exits>>
  BY DEF Commit, Actors, WithFile, openVars
<1>2. group \subseteq Row /\ batch \subseteq Row
  BY RestTyped DEF RowsOn
<1> HIDE DEF group
<1>3. f \in File
  BY <1>1, <1>2, FileInHand DEF File
<1> HIDE DEF f
<1>4. Replaced(day["run"], db["run"], f) /\ WriterFrame
  BY <1>1, <1>3, SettingFrame
<1>5. TypeInv' /\ NextDate
  BY <1>1, <1>2, <1>4, NextDateTypes, RestTyped
<1>. QED
  BY <1>1, <1>4, <1>5 DEF group, f

LEMMA InsertFailsSteps ==
  ASSUME TypeInv, InsertFails
  PROVE  TypeInv' /\ Goes("run", "idle", 0, 0)
<1>1. /\ NextGroup({}) /\ batch' = {} /\ WriterFrame
      /\ UNCHANGED <<handle, cron, committed>>
  BY Unwritten DEF InsertFails
<1>2. mu' \in Actors \union {"free"}
  BY RestTyped DEF InsertFails
<1>3. TypeInv' /\ NextDate
  BY <1>1, <1>2, NextDateTypes, RestTyped
<1>. QED
  BY <1>1, <1>3 DEF NextDate

\* the next entry of the listing, or of what is left to vacuum, or the night
NextNight(expired) ==
  /\ cron'.expired \subseteq expired
  /\ \/ Goes("cron", "wait", 0, 0)
     \/ \E d \in expired : Goes("cron", "close", d, 0) /\ d \in cron'.expired
     \/ \E d \in Days : Goes("cron", "get", d, 0)

LEMMA NextNightTypes ==
  ASSUME TypeInv, NEW expired \in SUBSET Days, NEW remaining \in SUBSET Days,
         NextEntry(expired, remaining), WriterFrame,
         UNCHANGED <<handle, batch, committed>>, mu' \in Actors \union {"free"}
  PROVE  TypeInv' /\ NextNight(expired)
<1>1. /\ cron' \in CronTypes /\ cron'.expired \subseteq expired
      /\ \/ Goes("cron", "wait", 0, 0)
         \/ \E d \in expired : Goes("cron", "close", d, 0)
                              /\ d \in cron'.expired
         \/ \E d \in remaining : Goes("cron", "get", d, 0)
  BY NextEntryGoes, RestTyped
<1>2. \A d \in Days : 0 \in 0 .. Len(files'[d])
  BY LenProperties DEF WriterFrame, DiskTypes
<1>3. "cron" \in Actors /\ 0 \in Days
  BY DaysFinite DEF Actors
<1>4. ASSUME NEW label, NEW d \in Days, Goes("cron", label, d, 0)
      PROVE  TypeInv'
  BY <1>1, <1>2, <1>3, <1>4, HandlesGrow, WriterTypes, RestTyped
<1>5. TypeInv'
  BY <1>1, <1>3, <1>4
<1>. QED
  BY <1>1, <1>5 DEF NextNight

LEMMA CleanupOldDBsSteps ==
  ASSUME TypeInv, CleanupOldDBs
  PROVE  /\ TypeInv' /\ pc["cron"] = "wait"
         /\ NextNight({d \in Listed : Before(d, clock)})
<1> DEFINE expired == {d \in Listed : Before(d, clock)}
<1>1. expired \in SUBSET Days /\ Listed \in SUBSET Days
  BY DEF Listed
<1> HIDE DEF expired
<1>2. /\ NextEntry(expired, Listed \ expired) \/ NextEntry({}, {})
      /\ WriterFrame /\ UNCHANGED openVars /\ UNCHANGED <<batch, committed>>
  BY Unwritten DEF CleanupOldDBs, expired
<1>3. UNCHANGED handle /\ mu' \in Actors \union {"free"}
  BY <1>2, RestTyped DEF openVars
<1>4. CASE NextEntry(expired, Listed \ expired)
  <2>1. TypeInv' /\ NextNight(expired)
    BY <1>1, <1>2, <1>3, <1>4, NextNightTypes
  <2>. QED
    BY <2>1 DEF CleanupOldDBs, expired
<1>5. CASE NextEntry({}, {})
  <2>1. TypeInv' /\ NextNight({})
    BY <1>2, <1>3, <1>5, NextNightTypes
  <2>2. NextNight(expired)
    BY <2>1 DEF NextNight
  <2>. QED
    BY <2>1, <2>2 DEF CleanupOldDBs, expired
<1>. QED
  BY <1>2, <1>4, <1>5

LEMMA CloseShardSteps ==
  ASSUME TypeInv, CloseShard
  PROVE  TypeInv' /\ Goes("cron", "remove", day["cron"], db["cron"])
<1>1. /\ "cron" \in Actors /\ "remove" \in LabelsOf("cron")
      /\ "remove" \notin WithFile /\ day["cron"] \in Days
      /\ handle' = [handle EXCEPT ![day["cron"]] = 0]
  BY RestTyped DEF Actors, LabelsOf, CronLabels, WithFile, CloseShard, Closed
<1>2. WriterFrame /\ \A e \in Days : files'[e] = files[e]
  BY Unwritten DEF CloseShard
<1>3. Goes("cron", "remove", day["cron"], db["cron"])
  BY <1>1, GotoGoes, RestTyped DEF CloseShard
<1>4. /\ handle' \in [Days -> Nat]
      /\ \A e \in Days : handle'[e] = IF e = day["cron"] THEN 0 ELSE handle[e]
  BY <1>1, RestTyped
<1>5. \A e \in Days : 0 \in 0 .. Len(files'[e])
  BY <1>2, LenProperties DEF WriterFrame, DiskTypes
<1>6. \A e \in Days : handle'[e] \in 0 .. Len(files'[e])
  BY <1>2, <1>4, <1>5, HandlesGrow
<1>7. db["cron"] \in 0 .. Len(files'[day["cron"]])
  BY <1>1, <1>2 DEF TypeInv, TypeOK
<1>. QED
  BY <1>1, <1>2, <1>3, <1>4, <1>6, <1>7, WriterTypes, RestTyped DEF CloseShard

LEMMA RemoveFileSteps ==
  ASSUME TypeInv, RemoveFile
  PROVE  /\ TypeInv' /\ NextNight(cron.expired \ {day["cron"]})
         /\ \A d \in Days : dir'[d] = dir[d] \/ (d = day["cron"] /\ dir'[d] = 0)
<1>1. /\ dir' = [dir EXCEPT ![day["cron"]] = 0] \/ UNCHANGED dir
      /\ NextEntry(cron.expired \ {day["cron"]}, cron.remaining)
      /\ UNCHANGED <<clock, files, handle, mu, batch, search, seen, exits,
                     committed>>
  BY DEF RemoveFile, openVars
<1>2. /\ dir' \in [Days -> Nat]
      /\ \A d \in Days : dir'[d] = dir[d] \/ (d = day["cron"] /\ dir'[d] = 0)
  BY <1>1, DiskOfTypeOK DEF DiskTypes, TypeInv
<1>3. \A d \in Days : Len(files[d]) \in Nat /\ files'[d] = files[d]
  BY <1>1, DiskOfTypeOK, LenFiles DEF TypeInv
<1>4. \A d \in Days : dir'[d] \in 0 .. Len(files'[d])
  BY <1>2, <1>3, DiskOfTypeOK DEF DiskTypes, TypeInv
<1>5. WriterFrame
  BY <1>1, <1>2, <1>3, <1>4, DiskOfTypeOK DEF WriterFrame, DiskTypes, TypeInv
<1>6. cron.expired \in SUBSET Days /\ cron.remaining \in SUBSET Days
  BY RestTyped DEF CronTypes
<1>7. TypeInv' /\ NextNight(cron.expired \ {day["cron"]})
  BY <1>1, <1>5, <1>6, NextNightTypes, RestTyped
<1>. QED
  BY <1>2, <1>7

LEMMA VacuumedSteps ==
  ASSUME TypeInv, Vacuumed
  PROVE  TypeInv' /\ NextNight({})
<1>1. /\ NextEntry({}, cron.remaining \ {day["cron"]}) /\ WriterFrame
      /\ UNCHANGED <<handle, batch, committed>>
  BY Unwritten DEF Vacuumed
<1>2. cron.remaining \in SUBSET Days /\ mu' \in Actors \union {"free"}
  BY RestTyped DEF CronTypes, Vacuumed
<1>. QED
  BY <1>1, <1>2, NextNightTypes

-----------------------------------------------------------------------------
(***************************************************************************)
(* Type correctness                                                        *)
(***************************************************************************)

\* what a process starts with, on the files it finds
Fresh ==
  /\ handle = NoHandles /\ mu = "free"
  /\ pc = Started /\ day = NoneInHand /\ db = NoneInHand
  /\ batch = {} /\ cron = TimerSet
  /\ search = NoSearch /\ seen = NoSeen

StartOn ==
  /\ DiskTypes /\ Fresh /\ clock \in 0 .. MaxClock /\ exits \in 0 .. MaxExits
  /\ committed \subseteq Row

LEMMA FreshTypes == StartOn => TypeInv
<1> SUFFICES ASSUME StartOn PROVE TypeInv
  OBVIOUS
<1> USE DEF StartOn
<1>1. \A d \in Days : 0 \in 0 .. Len(files[d])
  BY LenFiles
<1>2. 0 \in Days /\ MaxAttached \in Nat /\ {} \in SUBSET Days
  BY DaysFinite, StoreAssumption
<1>3. handle \in [Days -> Nat] /\ \A d \in Days : handle[d] = 0
  BY DEF Fresh, NoHandles
<1>4. /\ pc \in [Actors -> RunLabels \union CronLabels]
      /\ pc["run"] = "idle" /\ pc["cron"] = "wait"
      /\ "idle" \in RunLabels /\ "wait" \in CronLabels
  BY DEF Fresh, Started, Actors, RunLabels, CronLabels
<1>5. day \in [Actors -> Days] /\ db \in [Actors -> Nat]
      /\ \A a \in Actors : day[a] = 0 /\ db[a] = 0
  BY <1>2 DEF Fresh, NoneInHand
<1>6. cron \in CronTypes
  <2>1. NextThreeAM(clock) \in Nat
    <3>1. clock \in Nat
      BY StoreAssumption
    <3>. QED
      BY <3>1, NextThreeAMNat
  <2>. QED
    BY <2>1 DEF Fresh, TimerSet, CronTypes
<1>7. /\ search \in SearchCall /\ seen \in SeenCall
      /\ Cardinality(search.attached) <= MaxAttached /\ SearchShape
  BY <1>2, NoCalls, FS_EmptySet DEF Fresh, SearchShape, NoSearch
<1>8. HasFile
  BY <1>4 DEF HasFile, Actors
<1>9. TypeOK
  BY <1>1, <1>2, <1>3, <1>4, <1>5, <1>6, <1>7
     DEF TypeOK, DiskTypes, Fresh, CronTypes
<1>. QED
  BY <1>7, <1>8, <1>9 DEF TypeInv

LEMMA InitFiles ==
  ASSUME Init
  PROVE  /\ DiskTypes
         /\ \A d \in Days : \A i \in 1 .. Len(files[d]) :
              d = 0 /\ \A r \in files[d][i].rows : r.sec = 0
<1>1. 0 \in Days /\ 0 .. MaxClock # {} /\ 0 \in 0 .. MaxClock
      /\ 0 \in 0 .. Fractions - 1
  BY DaysFinite, StoreAssumption
<1>2. CASE files = NoFiles
  <2>1. files \in [Days -> Seq(File)]
    BY <1>2 DEF NoFiles
  <2>2. \A d \in Days : Len(files[d]) = 0
    BY <1>2 DEF NoFiles
  <2>. QED
    BY <2>1, <2>2 DEF DiskTypes, Init
<1>3. ASSUME NEW c \in Containers,
             files = [NoFiles EXCEPT ![0] = <<LegacyFile(c)>>]
      PROVE  /\ DiskTypes
             /\ \A d \in Days : \A i \in 1 .. Len(files[d]) :
                  d = 0 /\ \A r \in files[d][i].rows : r.sec = 0
  <2> DEFINE f == LegacyFile(c)
             s == <<f>>
             row == [c |-> c, sec |-> 0, frac |-> 0]
  <2>1. f \in File /\ \A q \in f.rows : q.sec = 0
    <3>1. row \in Row /\ row.sec = 0
      BY <1>1 DEF Row
    <3>2. f = [table |-> "legacy", rows |-> {row}]
      BY DEF LegacyFile
    <3> HIDE DEF row, f
    <3>3. f \in File
      BY <3>1, <3>2 DEF File
    <3>4. f.rows = {row}
      BY <3>2
    <3>. QED
      BY <3>1, <3>3, <3>4
  <2> HIDE DEF f
  <2>2. s \in Seq(File) /\ Len(s) = 1 /\ s[1] = f
    <3>1. \A S, x : x \in S => <<x>> \in Seq(S)
      BY SMT
    <3>2. Len(s) = 1 /\ s[1] = f
      BY SMT
    <3>. QED
      BY <2>1, <3>1, <3>2, Zenon
  <2> HIDE DEF s
  <2>3. files = [NoFiles EXCEPT ![0] = s] /\ <<>> \in Seq(File)
    BY <1>3 DEF s, f
  <2>4. /\ files \in [Days -> Seq(File)]
        /\ \A d \in Days : files[d] = IF d = 0 THEN s ELSE <<>>
    BY <2>2, <2>3 DEF NoFiles
  <2>5. \A d \in Days : Len(files[d]) = IF d = 0 THEN 1 ELSE 0
    BY <2>2, <2>4
  <2>6. DiskTypes
    BY <2>4, <2>5 DEF DiskTypes, Init
  <2>7. ASSUME NEW d \in Days, NEW i \in 1 .. Len(files[d])
        PROVE  d = 0 /\ \A r \in files[d][i].rows : r.sec = 0
    <3>1. d = 0 /\ i = 1
      BY <2>5
    <3>. QED
      BY <2>1, <2>2, <2>4, <3>1
  <2>. QED
    BY <2>6, <2>7
<1>. QED
  BY <1>2, <1>3 DEF Init

LEMMA InitTypes == Init => TypeInv
<1> SUFFICES ASSUME Init PROVE TypeInv
  OBVIOUS
<1>1. Fresh /\ DiskTypes
  BY InitFiles DEF Init, Fresh
<1>2. clock \in 0 .. MaxClock /\ exits \in 0 .. MaxExits /\ committed \subseteq Row
  BY StoreAssumption DEF Init
<1>. QED
  BY <1>1, <1>2, FreshTypes DEF StartOn

LEMMA ExitTypes ==
  ASSUME TypeInv, Exit
  PROVE  TypeInv' /\ Fresh'
<1>1. Fresh'
  BY DEF Exit, Fresh, TimerSet
<1>2. DiskTypes'
  BY NoDiskChange DEF Exit, TypeInv
<1>3. /\ clock' \in 0 .. MaxClock /\ exits' \in 0 .. MaxExits
      /\ committed' \subseteq Row
  <2>1. MaxExits \in Nat /\ exits \in 0 .. MaxExits
    BY StoreAssumption DEF TypeInv, TypeOK
  <2>. QED
    BY <2>1 DEF Exit, TypeInv, TypeOK
<1>4. TypeInv'
  <2>1. StartOn'
    BY <1>1, <1>2, <1>3 DEF StartOn
  <2>2. StartOn' => TypeInv'
    BY FreshTypes, PTL
  <2>. QED
    BY <2>1, <2>2
<1>. QED
  BY <1>1, <1>4

LEMMA TickTypes ==
  ASSUME TypeInv, Tick
  PROVE  TypeInv'
<1>1. clock' \in 0 .. MaxClock
  BY StoreAssumption DEF Tick, TypeInv, TypeOK
<1>2. UNCHANGED <<files, dir, handle, mu, pc, day, db, batch, cron, search, seen,
                  exits, committed>>
  BY DEF Tick, diskVars, openVars, actorVars
<1>. QED
  BY <1>1, <1>2 DEF TypeInv, TypeOK, HasFile, SearchShape

LEMMA StepTypes == TypeInv /\ [Next]_vars => TypeInv'
<1> SUFFICES ASSUME TypeInv, [Next]_vars PROVE TypeInv'
  OBVIOUS
<1>1. ASSUME NEW a \in Actors, GetOrOpenDB(a) PROVE TypeInv'
  BY <1>1, GetHandleSteps, CreateFileSteps, CreateTableSteps, MigrateSteps,
     RecreateSteps DEF GetOrOpenDB
<1>2. CASE Insert
  BY <1>2, InsertBatchSteps, BeginTxSteps, CommitSteps, InsertFailsSteps
     DEF Insert
<1>3. CASE Cleanup
  BY <1>3, CleanupOldDBsSteps, CloseShardSteps, RemoveFileSteps, VacuumedSteps
     DEF Cleanup
<1>4. CASE UNCHANGED vars
  BY <1>4 DEF vars, diskVars, openVars, actorVars, TypeInv, TypeOK, HasFile,
              SearchShape
<1>. QED
  BY <1>1, <1>2, <1>3, <1>4, SearchTypes, LastSeenTypes, ExitTypes, TickTypes
     DEF Next

(* Every shard file, handle, call in progress and count keeps its type,    *)
(* and whoever writes to a file has one in hand: getOrOpenDB, InsertBatch, *)
(* the cron, Search and LastSeen never use a date outside the store's or   *)
(* an index past the files of a date (sqlite.go:114-755).                  *)
THEOREM TypeCorrect == Spec => [](TypeOK /\ HasFile /\ SearchShape)
<1>1. Spec => []TypeInv
  BY InitTypes, StepTypes, PTL DEF Spec
<1>. QED
  BY <1>1 DEF TypeInv

-----------------------------------------------------------------------------
(***************************************************************************)
(* The invariant of the writers, step by step                              *)
(***************************************************************************)

(* The timer is set for 03:00 of some day, and does not wait longer than   *)
(* it may be late.                                                         *)
NightInv ==
  /\ \E n \in Nat : cron.next = n * TicksPerDay + ThreeAM
  /\ pc["cron"] = "wait" => clock <= cron.next + MaxLate

Inv == TypeInv /\ NightInv /\ WriteInv

LEMMA ExpiredStays ==
  ASSUME TypeInv, NEW d \in Days, Expired(d), clock' \in Nat, clock' >= clock
  PROVE  Expired(d)'
<1>1. /\ clock \in Nat /\ d \in Nat /\ RetentionDays \in Nat
      /\ TicksPerDay \in Nat /\ ThreeAM \in Nat
  BY DaysFinite, StoreAssumption DEF TypeInv, TypeOK
<1>2. (d + RetentionDays) * TicksPerDay \in Nat
  BY <1>1
<1>. QED
  BY <1>1, <1>2 DEF Expired

LEMMA TimesMonotone ==
  ASSUME NEW m \in Nat, NEW n \in Nat, m <= n
  PROVE  /\ m * TicksPerDay \in Nat /\ n * TicksPerDay \in Nat
         /\ m * TicksPerDay <= n * TicksPerDay
<1>1. PICK k \in Nat : n = m + k
  <2>1. n - m \in Nat /\ n = m + (n - m)
    OBVIOUS
  <2>. QED
    BY <2>1
<1>2. TicksPerDay \in Nat
  BY StoreAssumption
<1>3. n * TicksPerDay = m * TicksPerDay + k * TicksPerDay
  BY <1>1, <1>2
<1>4. /\ m * TicksPerDay \in Nat /\ n * TicksPerDay \in Nat
      /\ k * TicksPerDay \in Nat
  BY <1>2
<1>. QED
  BY <1>3, <1>4

\* What the cutoff in UTC takes is expired: NightAssumption.
LEMMA CutoffIsExpired ==
  ASSUME TypeInv, NightInv, pc["cron"] = "wait", clock >= cron.next,
         NEW d \in Days, Before(d, clock)
  PROVE  Expired(d)
<1> DEFINE last == d + RetentionDays
<1>1. PICK n \in Nat : cron.next = n * TicksPerDay + ThreeAM
  BY DEF NightInv
<1>2. /\ TicksPerDay \in Nat /\ ThreeAM \in Nat /\ MaxLate \in Nat
      /\ UTCOffset \in Int /\ clock \in Nat /\ last \in Nat \ {0}
  BY DaysFinite, StoreAssumption DEF TypeInv, TypeOK
<1>3. /\ clock <= cron.next + MaxLate
      /\ last * TicksPerDay + UTCOffset < clock
  BY DEF NightInv, Before
<1> HIDE DEF last
<1>4. CASE last <= n
  <2>1. /\ last * TicksPerDay \in Nat /\ n * TicksPerDay \in Nat
        /\ last * TicksPerDay <= n * TicksPerDay
    BY <1>2, <1>4, TimesMonotone
  <2>2. clock >= last * TicksPerDay + ThreeAM
    BY <1>1, <1>2, <2>1
  <2>. QED
    BY <2>2 DEF Expired, last
<1>5. CASE ~(last <= n)
  <2>1. last - 1 \in Nat /\ n <= last - 1
    BY <1>2, <1>5
  <2>2. /\ (last - 1) * TicksPerDay \in Nat /\ n * TicksPerDay \in Nat
        /\ n * TicksPerDay <= (last - 1) * TicksPerDay
    BY <2>1, TimesMonotone
  <2>3. last * TicksPerDay = (last - 1) * TicksPerDay + TicksPerDay
    BY <1>2
  <2>. QED
    BY <1>1, <1>2, <1>3, <2>2, <2>3, NightAssumption
<1>. QED
  BY <1>4, <1>5

\* The date of a batch is not expired: BatchAgeAssumption.
LEMMA NotYetExpired ==
  ASSUME Inv, pc["run"] # "idle"
  PROVE  ~Expired(day["run"])
<1>1. PICK r \in batch : DayOf(r) = day["run"]
  BY DEF Inv, WriteInv, BatchYoung
<1> DEFINE d == day["run"]
<1>2. r.sec \in Nat /\ clock \in Nat /\ clock - r.sec <= MaxAge
  BY DayOfRow, StoreAssumption DEF Inv, TypeInv, TypeOK, WriteInv, BatchYoung
<1>3. d \in Nat /\ r.sec < (d + 1) * TicksPerDay
  BY <1>1, <1>2, DayBounds DEF DayOf
<1> HIDE DEF d
<1>4. /\ MaxAge \in Nat /\ TicksPerDay \in Nat /\ ThreeAM \in Nat
      /\ RetentionDays \in Nat \ {0}
  BY StoreAssumption
<1>5. (d + RetentionDays) * TicksPerDay
        = (d + 1) * TicksPerDay + (RetentionDays - 1) * TicksPerDay
  BY <1>3, <1>4
<1>6. /\ (d + 1) * TicksPerDay \in Nat
      /\ (RetentionDays - 1) * TicksPerDay \in Nat
  BY <1>3, <1>4
<1>7. ~(clock >= (d + RetentionDays) * TicksPerDay + ThreeAM)
  BY <1>2, <1>3, <1>4, <1>5, <1>6, BatchAgeAssumption
<1>. QED
  BY <1>7 DEF Expired, d

LEMMA ApartFromCron ==
  ASSUME Inv, pc["run"] # "idle", pc["cron"] \in {"close", "remove"}
  PROVE  day["run"] # day["cron"]
<1>1. Expired(day["cron"])
  BY DEF Inv, WriteInv, OnlyExpired
<1>. QED
  BY <1>1, NotYetExpired

LEMMA OneOpens ==
  ASSUME Inv, NEW a \in Actors, NEW b \in Actors \ {a}, pc[a] \in OpenLabels
  PROVE  pc[b] \notin OpenLabels
BY DEF Inv, WriteInv, Locked

\* Nothing that has a name changes.
DiskKept ==
  /\ DiskTypes'
  /\ \A e \in Days :
       /\ dir[e] # 0 => dir'[e] = dir[e]
       /\ \A i \in 1 .. Len(files[e]) : files'[e][i] = files[e][i]
       /\ \A i \in 1 .. Len(files'[e]) :
            i \in 1 .. Len(files[e]) \/ files'[e][i].rows = {}

LEMMA OpenedIsKept ==
  ASSUME NEW d \in Days, Opened(d)
  PROVE  DiskKept
<1>1. \A i : [table |-> "none", rows |-> {}].rows = {}
  OBVIOUS
<1>. QED
  BY <1>1 DEF Opened, DiskKept

LEMMA UnchangedIsKept ==
  ASSUME TypeInv, UNCHANGED diskVars
  PROVE  DiskKept
BY NoDiskChange DEF DiskKept, diskVars, TypeInv

LEMMA NamedFile ==
  ASSUME TypeInv, NEW d \in Days, dir[d] # 0
  PROVE  dir[d] \in 1 .. Len(files[d]) /\ files[d][dir[d]] \in File
<1>1. dir[d] \in 0 .. Len(files[d]) /\ Len(files[d]) \in Nat
  BY LenFiles, DiskOfTypeOK DEF TypeInv, DiskTypes
<1>2. dir[d] \in 1 .. Len(files[d])
  BY <1>1
<1>. QED
  BY <1>2, LenFiles, DiskOfTypeOK DEF TypeInv

LEMMA KeptDisk ==
  ASSUME Inv, DiskKept, UNCHANGED <<clock, committed>>
  PROVE  /\ Stored' /\ Filed'
         /\ UNCHANGED handle => HandlesCurrent'
<1>1. \A d \in Days : dir[d] # 0 =>
        dir'[d] = dir[d] /\ files'[d][dir'[d]] = files[d][dir[d]]
  BY NamedFile DEF Inv, DiskKept
<1>2. Stored'
  <2> SUFFICES ASSUME NEW r \in committed PROVE Kept(r)'
    BY DEF Stored
  <2>1. DayOf(r) \in Days /\ Kept(r)
    BY DayOfRow, RestTyped DEF Inv, WriteInv, Stored
  <2>. QED
    BY <1>1, <2>1 DEF Kept, Expired
<1>3. Filed'
  <2> SUFFICES ASSUME NEW d \in Days, NEW i \in 1 .. Len(files'[d]),
                      NEW r \in files'[d][i].rows
               PROVE  DayOf(r) = d
    BY DEF Filed
  <2>1. i \in 1 .. Len(files[d]) /\ files'[d][i] = files[d][i]
    BY DEF DiskKept
  <2>. QED
    BY <2>1 DEF Inv, WriteInv, Filed
<1>4. ASSUME UNCHANGED handle PROVE HandlesCurrent'
  <2> SUFFICES ASSUME NEW d \in Days, handle[d] # 0
               PROVE  /\ handle[d] = dir'[d]
                      /\ files'[d][dir'[d]].table = "current"
    BY <1>4 DEF HandlesCurrent
  <2>. QED
    BY <1>1 DEF Inv, WriteInv, HandlesCurrent
<1>. QED
  BY <1>2, <1>3, <1>4

LEMMA ReadersKeep ==
  ASSUME Inv, DiskKept,
         UNCHANGED <<clock, openVars, actorVars, batch, cron, exits, committed>>
  PROVE  WriteInv'
<1>1. UNCHANGED <<handle, mu, pc, day, db>>
  BY DEF openVars, actorVars
<1>2. Stored' /\ Filed' /\ HandlesCurrent'
  BY <1>1, KeptDisk
<1>3. Opening'
  BY <1>1 DEF Inv, TypeInv, TypeOK, WriteInv, Opening, DiskKept
<1>. QED
  BY <1>1, <1>2, <1>3
     DEF Inv, WriteInv, Locked, Holding, BatchYoung, OnlyExpired, Expired

LEMMA SearchKeeps ==
  ASSUME Inv, Search
  PROVE  DiskKept /\ WriteInv'
<1>1. UNCHANGED <<clock, openVars, actorVars, batch, cron, exits, committed>>
  BY DEF Search, SearchStart, StatDate, Attach, Query, SearchEnd
<1>2. CASE UNCHANGED diskVars
  BY <1>1, <1>2, UnchangedIsKept, ReadersKeep DEF Inv
<1>3. CASE Attach /\ search.found # {} /\ PathOpened(Min(search.found))
  <2>1. Min(search.found) \in Days
    <3>1. search.found \in SUBSET Nat /\ search.found \subseteq Days
      BY DaysFinite DEF Inv, TypeInv, TypeOK, SearchCall
    <3>. QED
      BY <1>3, <3>1, MinLeast
  <2>2. DiskKept
    BY <1>3, <2>1, OpeningOpens, OpenedIsKept, DiskOfTypeOK DEF Inv, TypeInv
  <2>. QED
    BY <1>1, <2>2, ReadersKeep
<1>. QED
  BY <1>2, <1>3 DEF Search, SearchStart, StatDate, Attach, Query, SearchEnd

LEMMA LastSeenKeeps ==
  ASSUME Inv, LastSeen
  PROVE  DiskKept /\ WriteInv'
<1>1. UNCHANGED <<clock, openVars, actorVars, batch, cron, exits, committed>>
  BY DEF LastSeen, LastSeenStart, StatDay, ReadShard, LastSeenEnd
<1>2. CASE UNCHANGED diskVars
  BY <1>1, <1>2, UnchangedIsKept, ReadersKeep DEF Inv
<1>3. CASE PathOpened(seen.day)
  <2>1. seen.day \in Days
    BY DEF Inv, TypeInv, TypeOK, SeenCall
  <2>2. DiskKept
    BY <1>3, <2>1, OpeningOpens, OpenedIsKept, DiskOfTypeOK DEF Inv, TypeInv
  <2>. QED
    BY <1>1, <2>2, ReadersKeep
<1>. QED
  BY <1>2, <1>3 DEF LastSeen, LastSeenStart, StatDay, ReadShard, LastSeenEnd

LEMMA GetHandleKeeps ==
  ASSUME Inv, NEW a \in Actors, GetHandle(a)
  PROVE  WriteInv'
<1>1. /\ pc[a] = "get" /\ mu = "free"
      /\ UNCHANGED <<clock, diskVars, handle, batch, cron, committed>>
  BY DEF GetHandle
<1>2. \/ UNCHANGED mu /\ handle[day[a]] # 0
         /\ Goes(a, "got", day[a], handle[day[a]])
      \/ mu' = a /\ handle[day[a]] = 0 /\ Goes(a, "create", day[a], db[a])
  BY GetHandleSteps DEF Inv
<1>3. Stored' /\ Filed' /\ HandlesCurrent'
  BY <1>1, UnchangedIsKept, KeptDisk DEF Inv
<1>4. Locked'
  BY <1>1, <1>2, LabelFacts DEF Inv, WriteInv, Locked, Goes, Actors
<1>5. Opening'
  BY <1>1, <1>2, LabelFacts DEF Inv, WriteInv, Locked, Opening, Goes, diskVars
<1>6. Holding'
  BY <1>1, <1>2 DEF Inv, WriteInv, Holding, Goes, Actors
<1>7. BatchYoung' /\ OnlyExpired'
  BY <1>1, <1>2 DEF Inv, WriteInv, BatchYoung, OnlyExpired, Expired, Goes, Actors
<1>. QED
  BY <1>3, <1>4, <1>5, <1>6, <1>7 DEF WriteInv

LEMMA CreateFileKeeps ==
  ASSUME Inv, NEW a \in Actors, CreateFile(a)
  PROVE  WriteInv' /\ DiskKept
<1>1. /\ pc[a] = "create" /\ pc[a] \in OpenLabels /\ day[a] \in Days
      /\ UNCHANGED <<clock, handle, mu, batch, cron, committed>>
  BY RestTyped DEF CreateFile, openVars, OpenLabels, Inv
<1>2. Opened(day[a]) /\ Goes(a, "schema", day[a], dir'[day[a]])
  BY CreateFileSteps DEF Inv
<1>3. DiskKept /\ Stored' /\ Filed' /\ HandlesCurrent'
  BY <1>1, <1>2, OpenedIsKept, KeptDisk
<1>4. Locked'
  BY <1>1, <1>2, LabelFacts DEF Inv, WriteInv, Locked, Goes, Actors
<1>5. Opening'
  <2>1. \A b \in Actors \ {a} : pc'[b] \notin OpenLabels
    BY <1>1, <1>2, OneOpens DEF Goes
  <2>2. handle'[day'[a]] = 0 /\ db'[a] = dir'[day'[a]] /\ db'[a] # 0
    BY <1>1, <1>2 DEF Inv, WriteInv, Opening, Goes, Opened
  <2>. QED
    BY <2>1, <2>2 DEF Opening
<1>6. Holding'
  BY <1>1, <1>2 DEF Inv, WriteInv, Holding, Goes, Actors
<1>7. BatchYoung' /\ OnlyExpired'
  BY <1>1, <1>2 DEF Inv, WriteInv, BatchYoung, OnlyExpired, Expired, Goes, Actors
<1>. QED
  BY <1>3, <1>4, <1>5, <1>6, <1>7 DEF WriteInv

\* A named file of another date stays as it is, and a's own becomes f.
LEMMA NamedReplaced ==
  ASSUME Inv, NEW d \in Days, NEW i, NEW f, Replaced(d, i, f), UNCHANGED dir
  PROVE  \A e \in Days : dir[e] # 0 =>
           files'[e][dir'[e]] = IF e = d /\ dir[e] = i THEN f
                                                       ELSE files[e][dir[e]]
BY NamedFile DEF Replaced, Inv

LEMMA ReplacedFiled ==
  ASSUME Inv, NEW d \in Days, NEW i \in 1 .. Len(files[d]), NEW f,
         Replaced(d, i, f), \A r \in f.rows : DayOf(r) = d
  PROVE  Filed'
<1> SUFFICES ASSUME NEW e \in Days, NEW j \in 1 .. Len(files'[e]),
                    NEW r \in files'[e][j].rows
             PROVE  DayOf(r) = e
  BY DEF Filed
<1>1. /\ j \in 1 .. Len(files[e])
      /\ files'[e][j] = IF e = d /\ j = i THEN f ELSE files[e][j]
  BY DEF Replaced
<1>. QED
  BY <1>1 DEF Inv, WriteInv, Filed

(***************************************************************************)
(* A file being opened has no handle, so getOrOpenDB may write to it; what *)
(* has been stored in it is kept unless it is wiped, which happens only to *)
(* a file without the level column.                                        *)
(***************************************************************************)
LEMMA OpeningReplaces ==
  ASSUME Inv, NEW a \in Actors, pc[a] \in OpenLabels \ {"create"}, NEW f,
         Replaced(day[a], db[a], f), UNCHANGED <<clock, committed, dir>>,
         f.rows \subseteq FileOf(a).rows,
         FileOf(a).table = "current" =>
           f.table = "current" /\ f.rows = FileOf(a).rows
  PROVE  /\ Stored' /\ Filed'
         /\ UNCHANGED handle => HandlesCurrent'
         /\ files'[day[a]][dir'[day[a]]] = f
<1> DEFINE d == day[a]
<1>1. /\ d \in Days /\ handle[d] = 0 /\ dir[d] # 0 /\ db[a] = dir[d]
      /\ db[a] \in 1 .. Len(files[d]) /\ FileOf(a) = files[d][dir[d]]
  BY NamedFile, RestTyped DEF Inv, WriteInv, Opening, FileOf
<1>2. \A e \in Days : dir[e] # 0 =>
        files'[e][dir'[e]] = IF e = d THEN f ELSE files[e][dir[e]]
  BY <1>1, NamedReplaced
<1>3. Filed'
  <2>1. \A r \in FileOf(a).rows : DayOf(r) = d
    BY <1>1 DEF Inv, WriteInv, Filed
  <2>. QED
    BY <1>1, <2>1, ReplacedFiled
<1>4. Stored'
  <2> SUFFICES ASSUME NEW r \in committed PROVE Kept(r)'
    BY DEF Stored
  <2>1. DayOf(r) \in Days /\ Kept(r)
    BY DayOfRow, RestTyped DEF Inv, WriteInv, Stored
  <2>2. CASE DayOf(r) = d
    BY <1>1, <1>2, <2>1, <2>2 DEF Kept, Expired
  <2>3. CASE DayOf(r) # d
    BY <1>2, <2>1, <2>3 DEF Kept, Expired
  <2>. QED
    BY <2>2, <2>3
<1>5. ASSUME UNCHANGED handle PROVE HandlesCurrent'
  <2> SUFFICES ASSUME NEW e \in Days, handle[e] # 0
               PROVE  /\ handle[e] = dir[e]
                      /\ files'[e][dir'[e]].table = "current"
    BY <1>5 DEF HandlesCurrent
  <2>. QED
    BY <1>1, <1>2 DEF Inv, WriteInv, HandlesCurrent
<1>. QED
  BY <1>1, <1>2, <1>3, <1>4, <1>5

\* The opener goes on to another step of the opening.
LEMMA StillOpening ==
  ASSUME Inv, NEW a \in Actors, NEW label \in OpenLabels \ {"create"},
         pc[a] \in OpenLabels \ {"create"}, Goes(a, label, day[a], db[a]),
         UNCHANGED <<clock, dir, handle, mu, batch, cron>>
  PROVE  Locked' /\ Opening' /\ Holding' /\ BatchYoung' /\ OnlyExpired'
<1>1. Locked'
  BY DEF Inv, WriteInv, Locked, Goes, Actors
<1>2. Opening'
  <2>1. \A b \in Actors \ {a} : pc'[b] \notin OpenLabels
    BY OneOpens DEF Goes
  <2>2. handle'[day'[a]] = 0 /\ db'[a] = dir'[day'[a]] /\ db'[a] # 0
    BY DEF Inv, WriteInv, Opening, Goes
  <2>. QED
    BY <2>1, <2>2 DEF Opening
<1>3. Holding'
  BY LabelFacts DEF Inv, WriteInv, Holding, Goes, Actors
<1>4. BatchYoung' /\ OnlyExpired'
  BY LabelFacts DEF Inv, WriteInv, BatchYoung, OnlyExpired, Expired, Goes, Actors
<1>. QED
  BY <1>1, <1>2, <1>3, <1>4

LEMMA CreateTableKeeps ==
  ASSUME Inv, NEW a \in Actors, CreateTable(a)
  PROVE  WriteInv'
<1> DEFINE f == [FileOf(a) EXCEPT !.table =
                   IF @ = "none" THEN "current" ELSE @]
<1>1. /\ pc[a] = "schema" /\ pc[a] \in OpenLabels \ {"create"}
      /\ "migrate" \in OpenLabels \ {"create"} /\ pc[a] \in WithFile
      /\ UNCHANGED <<clock, dir, handle, mu, batch, cron, committed>>
  BY DEF CreateTable, openVars, OpenLabels, WithFile
<1>2. Replaced(day[a], db[a], f) /\ Goes(a, "migrate", day[a], db[a])
  BY CreateTableSteps DEF Inv
<1>3. /\ f.rows \subseteq FileOf(a).rows
      /\ FileOf(a).table = "current" =>
           f.table = "current" /\ f.rows = FileOf(a).rows
  BY <1>1, FileInHand DEF File, Inv
<1> HIDE DEF f
<1>4. Stored' /\ Filed' /\ HandlesCurrent'
  BY <1>1, <1>2, <1>3, OpeningReplaces
<1>5. Locked' /\ Opening' /\ Holding' /\ BatchYoung' /\ OnlyExpired'
  BY <1>1, <1>2, StillOpening
<1>. QED
  BY <1>4, <1>5 DEF WriteInv

\* The opener returns with its file registered for its date.
LEMMA RegisteredKeeps ==
  ASSUME Inv, NEW a \in Actors, pc[a] \in OpenLabels \ {"create"}, Registered(a),
         UNCHANGED <<clock, dir, batch, cron>>, HandlesCurrent', Stored', Filed'
  PROVE  WriteInv'
<1>1. /\ mu = a /\ mu' = "free" /\ Goes(a, "got", day[a], db[a])
      /\ day[a] \in Days /\ "free" \notin Actors
      /\ \A d \in Days : handle'[d] = IF d = day[a] THEN db[a] ELSE handle[d]
  BY RestTyped DEF Inv, WriteInv, Locked, Registered, Actors
<1>2. \A b \in Actors : pc'[b] \notin OpenLabels
  BY <1>1, OneOpens, LabelFacts DEF Goes
<1>3. Locked' /\ Opening'
  BY <1>1, <1>2 DEF Locked, Opening
<1>4. Holding'
  <2>1. CASE a = "run"
    BY <1>1, <2>1 DEF Inv, WriteInv, Opening, Holding, Goes
  <2>2. CASE a = "cron" /\ pc["run"] \in {"got", "tx"}
    <3>1. day["run"] # day["cron"] /\ day["run"] \in Days
      BY <2>2, RestTyped
         DEF Inv, WriteInv, Opening, Holding, Actors
    <3>. QED
      BY <1>1, <2>2, <3>1 DEF Inv, WriteInv, Holding, Goes, Actors
  <2>3. CASE a = "cron" /\ pc["run"] \notin {"got", "tx"}
    BY <1>1, <2>3 DEF Holding, Goes, Actors
  <2>. QED
    BY <2>1, <2>2, <2>3 DEF Actors
<1>5. BatchYoung'
  BY <1>1, LabelFacts DEF Inv, WriteInv, BatchYoung, Goes, Actors
<1>6. OnlyExpired'
  <2>1. CASE a = "cron"
    BY <1>1, <2>1 DEF Inv, WriteInv, OnlyExpired, Expired, Goes
  <2>2. CASE a = "run"
    <3>1. /\ pc'["cron"] = pc["cron"] /\ day'["cron"] = day["cron"]
          /\ pc["run"] # "idle" /\ day["cron"] \in Days
      BY <1>1, <2>2, LabelFacts, RestTyped DEF Goes, Actors, Inv
    <3>2. pc["cron"] = "remove" => handle'[day["cron"]] = 0
      BY <1>1, <2>2, <3>1, ApartFromCron DEF Inv, WriteInv, OnlyExpired
    <3>. QED
      BY <3>1, <3>2 DEF Inv, WriteInv, OnlyExpired, Expired
  <2>. QED
    BY <2>1, <2>2 DEF Actors
<1>. QED
  BY <1>3, <1>4, <1>5, <1>6 DEF WriteInv

LEMMA MigrateKeeps ==
  ASSUME Inv, NEW a \in Actors, Migrate(a)
  PROVE  WriteInv'
<1>1. /\ pc[a] \in OpenLabels \ {"create"} /\ pc[a] \in WithFile
      /\ UNCHANGED <<clock, dir, batch, cron, committed>>
  BY DEF Migrate, OpenLabels, WithFile
<1>2. CASE FileOf(a).table = "current" /\ UNCHANGED files /\ Registered(a)
  <2>1. /\ day[a] \in Days /\ handle' = [handle EXCEPT ![day[a]] = db[a]]
        /\ db[a] = dir[day[a]]
    BY <1>1, <1>2, RestTyped DEF Registered, Inv, WriteInv, Opening
  <2>2. Stored' /\ Filed'
    BY <1>1, <1>2, UnchangedIsKept, KeptDisk DEF Inv, diskVars
  <2>3. HandlesCurrent'
    BY <1>1, <1>2, <2>1, RestTyped DEF Inv, WriteInv, HandlesCurrent, FileOf
  <2>. QED
    BY <1>1, <1>2, <2>2, <2>3, RegisteredKeeps
<1>3. CASE /\ FileOf(a).table # "current" /\ UNCHANGED openVars
           /\ Replaced(day[a], db[a], [table |-> "none", rows |-> {}])
           /\ Goes(a, "recreate", day[a], db[a])
  <2> DEFINE f == [table |-> "none", rows |-> {}]
  <2>1. /\ f.rows = {} /\ UNCHANGED handle /\ UNCHANGED mu
        /\ "recreate" \in OpenLabels \ {"create"}
    BY <1>3 DEF openVars, OpenLabels
  <2> HIDE DEF f
  <2>2. Replaced(day[a], db[a], f)
    BY <1>3 DEF f
  <2>3. Stored' /\ Filed' /\ HandlesCurrent'
    BY <1>1, <1>3, <2>1, <2>2, OpeningReplaces
  <2>4. Locked' /\ Opening' /\ Holding' /\ BatchYoung' /\ OnlyExpired'
    BY <1>1, <1>3, <2>1, StillOpening
  <2>. QED
    BY <2>3, <2>4 DEF WriteInv
<1>. QED
  BY <1>2, <1>3, MigrateSteps DEF Inv

LEMMA RecreateKeeps ==
  ASSUME Inv, NEW a \in Actors, Recreate(a)
  PROVE  WriteInv'
<1> DEFINE f == [FileOf(a) EXCEPT !.table = "current"]
<1>1. /\ pc[a] \in OpenLabels \ {"create"} /\ pc[a] \in WithFile
      /\ UNCHANGED <<clock, dir, batch, cron, committed>>
  BY DEF Recreate, OpenLabels, WithFile
<1>2. Replaced(day[a], db[a], f) /\ Registered(a)
  BY RecreateSteps DEF Inv
<1>3. f.table = "current" /\ f.rows = FileOf(a).rows
  BY <1>1, FileInHand DEF File, Inv
<1> HIDE DEF f
<1>4. Stored' /\ Filed' /\ files'[day[a]][dir'[day[a]]] = f
  BY <1>1, <1>2, <1>3, OpeningReplaces
<1>5. HandlesCurrent'
  <2> SUFFICES ASSUME NEW d \in Days, handle'[d] # 0
               PROVE  /\ handle'[d] = dir'[d]
                      /\ files'[d][dir'[d]].table = "current"
    BY DEF HandlesCurrent
  <2>1. /\ handle'[d] = IF d = day[a] THEN db[a] ELSE handle[d]
        /\ day[a] \in Days /\ db[a] = dir[day[a]]
    BY <1>1, <1>2, RestTyped DEF Registered, Inv, WriteInv, Opening
  <2>2. CASE d = day[a]
    BY <1>1, <1>3, <1>4, <2>1, <2>2
  <2>3. CASE d # day[a]
    <3>1. handle[d] # 0 /\ handle[d] = dir[d] /\ dir[d] # 0
          /\ files[d][dir[d]].table = "current"
      BY <2>1, <2>3 DEF Inv, WriteInv, HandlesCurrent
    <3>2. files'[d][dir'[d]] = files[d][dir[d]]
      BY <1>1, <1>2, <2>1, <2>3, <3>1, NamedReplaced
    <3>. QED
      BY <1>1, <2>1, <2>3, <3>1, <3>2
  <2>. QED
    BY <2>2, <2>3
<1>. QED
  BY <1>1, <1>2, <1>4, <1>5, RegisteredKeeps

LEMMA InsertBatchKeeps ==
  ASSUME Inv, InsertBatch
  PROVE  WriteInv'
<1>1. /\ pc["run"] = "idle" /\ pc'["run"] = "get"
      /\ UNCHANGED <<clock, diskVars, handle, mu, cron, committed>>
  BY InsertBatchSteps DEF InsertBatch, openVars, Inv, Goes
<1>2. PICK r \in batch' : Goes("run", "get", DayOf(r), 0)
  BY InsertBatchSteps DEF Inv
<1>3. Stored' /\ Filed' /\ HandlesCurrent'
  BY <1>1, UnchangedIsKept, KeptDisk DEF Inv
<1>4. Locked' /\ Opening' /\ Holding' /\ OnlyExpired'
  BY <1>1, <1>2, LabelFacts
     DEF Inv, WriteInv, Locked, Opening, Holding, OnlyExpired, Expired, Goes,
         Actors, diskVars
<1>5. BatchYoung'
  <2>1. ASSUME NEW q \in batch'
        PROVE  q.sec <= clock /\ clock - q.sec <= MaxAge
    <3>1. /\ q.sec \in {clock - 1, clock} /\ clock \in Nat
          /\ MaxAge \in Nat \ {0}
      BY InsertBatchSteps, StoreAssumption DEF Inv, TypeInv, TypeOK, Recent
    <3>. QED
      BY <3>1
  <2>2. day'["run"] = DayOf(r)
    BY <1>2 DEF Goes
  <2>. QED
    BY <1>1, <1>2, <2>1, <2>2 DEF BatchYoung
<1>. QED
  BY <1>3, <1>4, <1>5 DEF WriteInv

LEMMA BeginTxKeeps ==
  ASSUME Inv, BeginTx
  PROVE  WriteInv'
<1>1. /\ pc["run"] = "got" /\ Goes("run", "tx", day["run"], db["run"])
      /\ UNCHANGED <<clock, diskVars, handle, mu, batch, cron, committed>>
  BY BeginTxSteps DEF BeginTx, openVars, Inv
<1>2. Stored' /\ Filed' /\ HandlesCurrent'
  BY <1>1, UnchangedIsKept, KeptDisk DEF Inv
<1>3. Locked' /\ Opening' /\ Holding' /\ BatchYoung' /\ OnlyExpired'
  BY <1>1, LabelFacts
     DEF Inv, WriteInv, Locked, Opening, Holding, BatchYoung, OnlyExpired,
         Expired, Goes, Actors, diskVars
<1>. QED
  BY <1>2, <1>3 DEF WriteInv

\* InsertBatch goes on to the next date of what is left of the batch.
LEMMA NextDateKeeps ==
  ASSUME Inv, NextDate, batch' \subseteq batch, UNCHANGED <<clock, dir, cron, handle>>,
         mu' = IF mu = "run" THEN "free" ELSE mu
  PROVE  Locked' /\ Opening' /\ Holding' /\ BatchYoung' /\ OnlyExpired'
<1>1. /\ pc'["run"] \in {"idle", "get"} /\ pc'["cron"] = pc["cron"]
      /\ day'["cron"] = day["cron"] /\ db'["cron"] = db["cron"]
      /\ pc'["run"] # "idle" => \E r \in batch' : DayOf(r) = day'["run"]
  BY DEF NextDate, Goes, Actors
<1>2. Locked' /\ Opening'
  BY <1>1, LabelFacts DEF Inv, WriteInv, Locked, Opening, Actors
<1>3. Holding' /\ BatchYoung' /\ OnlyExpired'
  BY <1>1 DEF Inv, WriteInv, Holding, BatchYoung, OnlyExpired, Expired
<1>. QED
  BY <1>2, <1>3

LEMMA CommitKeeps ==
  ASSUME Inv, Commit
  PROVE  WriteInv'
<1> DEFINE d     == day["run"]
           group == RowsOn(batch, d)
           f     == [FileOf("run") EXCEPT !.rows = @ \union group]
<1>1. /\ pc["run"] = "tx" /\ pc["run"] \in WithFile /\ "run" \in Actors
      /\ UNCHANGED <<clock, dir, handle, mu, cron>> /\ mu # "run"
  BY DEF Commit, openVars, WithFile, Actors, OpenLabels, Inv, WriteInv, Locked
<1>2. /\ batch' = batch \ group /\ committed' = committed \union group
      /\ Replaced(d, db["run"], f) /\ NextDate
  BY CommitSteps DEF Inv
<1>3. /\ d \in Days /\ db["run"] \in 1 .. Len(files[d]) /\ db["run"] = dir[d]
      /\ dir[d] # 0 /\ files[d][dir[d]].table = "current"
      /\ FileOf("run") = files[d][dir[d]]
  BY <1>1, FileInHand DEF Inv, WriteInv, Holding, HandlesCurrent, FileOf
<1>4. /\ f.table = "current" /\ f.rows = files[d][dir[d]].rows \union group
      /\ \A r \in group : DayOf(r) = d
  BY <1>1, <1>3, FileInHand DEF File, RowsOn, Inv
<1> HIDE DEF f, group, d
<1>5. \A e \in Days : dir[e] # 0 =>
        files'[e][dir'[e]] = IF e = d THEN f ELSE files[e][dir[e]]
  BY <1>1, <1>2, <1>3, NamedReplaced
<1>6. Filed'
  <2>1. \A r \in f.rows : DayOf(r) = d
    BY <1>3, <1>4 DEF Inv, WriteInv, Filed
  <2>. QED
    BY <1>2, <1>3, <2>1, ReplacedFiled
<1>7. Stored'
  <2> SUFFICES ASSUME NEW r \in committed' PROVE Kept(r)'
    BY DEF Stored
  <2>1. CASE r \in group
    BY <1>1, <1>3, <1>4, <1>5, <2>1 DEF Kept
  <2>2. CASE r \notin group
    <3>1. r \in committed /\ DayOf(r) \in Days /\ Kept(r)
      BY <1>2, <2>2, DayOfRow, RestTyped DEF Inv, WriteInv, Stored
    <3>2. CASE DayOf(r) = d
      BY <1>1, <1>3, <1>4, <1>5, <3>1, <3>2 DEF Kept, Expired
    <3>3. CASE DayOf(r) # d
      BY <1>1, <1>5, <3>1, <3>3 DEF Kept, Expired
    <3>. QED
      BY <3>2, <3>3
  <2>. QED
    BY <2>1, <2>2
<1>8. HandlesCurrent'
  <2> SUFFICES ASSUME NEW e \in Days, handle[e] # 0
               PROVE  /\ handle[e] = dir[e]
                      /\ files'[e][dir'[e]].table = "current"
    BY <1>1 DEF HandlesCurrent
  <2>. QED
    BY <1>4, <1>5 DEF Inv, WriteInv, HandlesCurrent
<1>9. Locked' /\ Opening' /\ Holding' /\ BatchYoung' /\ OnlyExpired'
  BY <1>1, <1>2, NextDateKeeps
<1>. QED
  BY <1>6, <1>7, <1>8, <1>9 DEF WriteInv

LEMMA InsertFailsKeeps ==
  ASSUME Inv, InsertFails
  PROVE  WriteInv'
<1>1. /\ batch' = {} /\ mu' = IF mu = "run" THEN "free" ELSE mu
      /\ UNCHANGED <<clock, diskVars, dir, handle, cron, committed>>
  BY DEF InsertFails, diskVars
<1>2. NextDate
  BY <1>1, InsertFailsSteps DEF NextDate, Inv
<1>3. Stored' /\ Filed' /\ HandlesCurrent'
  BY <1>1, UnchangedIsKept, KeptDisk DEF Inv
<1>4. Locked' /\ Opening' /\ Holding' /\ BatchYoung' /\ OnlyExpired'
  BY <1>1, <1>2, NextDateKeeps
<1>. QED
  BY <1>3, <1>4 DEF WriteInv

\* The cron goes on to its next entry.
LEMMA NextNightKeeps ==
  ASSUME Inv, NEW expired \in SUBSET Days, NextNight(expired),
         \A d \in expired : Expired(d), UNCHANGED <<clock, batch, handle>>,
         mu' = IF mu = "cron" THEN "free" ELSE mu,
         \A d \in Days : d # day["run"] \/ dir'[d] = dir[d] \/ pc["run"] = "idle"
  PROVE  Locked' /\ Opening' /\ Holding' /\ BatchYoung' /\ OnlyExpired'
<1>1. /\ pc'["cron"] \in {"wait", "close", "get"} /\ pc'["run"] = pc["run"]
      /\ day'["run"] = day["run"] /\ db'["run"] = db["run"]
      /\ pc'["cron"] = "close" => day'["cron"] \in cron'.expired
  BY DEF NextNight, Goes, Actors
<1>2. Locked'
  BY <1>1, LabelFacts DEF Inv, WriteInv, Locked, Actors
<1>3. Opening'
  <2>1. pc["run"] \in OpenLabels => dir'[day["run"]] = dir[day["run"]]
    BY RestTyped DEF Inv, Actors, OpenLabels
  <2>2. pc'["cron"] \notin OpenLabels
    BY <1>1 DEF OpenLabels
  <2>. QED
    BY <1>1, <2>1, <2>2 DEF Inv, WriteInv, Opening, Actors
<1>4. Holding' /\ BatchYoung'
  BY <1>1 DEF Inv, WriteInv, Holding, BatchYoung
<1>5. OnlyExpired'
  BY <1>1 DEF NextNight, OnlyExpired, Expired
<1>. QED
  BY <1>2, <1>3, <1>4, <1>5

LEMMA CleanupOldDBsKeeps ==
  ASSUME Inv, CleanupOldDBs
  PROVE  WriteInv'
<1> DEFINE expired == {d \in Listed : Before(d, clock)}
<1>1. /\ expired \in SUBSET Days
      /\ NextNight(expired) /\ pc["cron"] = "wait"
      /\ UNCHANGED <<clock, diskVars, dir, handle, mu, batch, committed>>
  BY CleanupOldDBsSteps
     DEF Listed, Inv, CleanupOldDBs, diskVars, openVars
<1>5. \A d \in expired : Expired(d)
  BY <1>1, CutoffIsExpired DEF Inv, CleanupOldDBs
<1> HIDE DEF expired
<1>2. mu # "cron"
  BY <1>1, LabelFacts DEF Inv, WriteInv, Locked, Actors
<1>3. Stored' /\ Filed' /\ HandlesCurrent'
  BY <1>1, UnchangedIsKept, KeptDisk DEF Inv
<1>4. Locked' /\ Opening' /\ Holding' /\ BatchYoung' /\ OnlyExpired'
  BY <1>1, <1>2, <1>5, NextNightKeeps
<1>. QED
  BY <1>3, <1>4 DEF WriteInv

LEMMA CloseShardKeeps ==
  ASSUME Inv, CloseShard
  PROVE  WriteInv'
<1>1. /\ pc["cron"] = "close" /\ mu = "free" /\ day["cron"] \in Days
      /\ Goes("cron", "remove", day["cron"], db["cron"])
      /\ \A d \in Days : handle'[d] = IF d = day["cron"] THEN 0 ELSE handle[d]
      /\ UNCHANGED <<clock, diskVars, files, dir, mu, batch, cron, committed>>
  BY CloseShardSteps, RestTyped DEF CloseShard, Closed, Inv, Actors, diskVars
<1>2. /\ pc'["cron"] = "remove" /\ pc'["run"] = pc["run"]
      /\ day'["run"] = day["run"] /\ db'["run"] = db["run"]
      /\ day'["cron"] = day["cron"] /\ day["run"] \in Days
  BY <1>1, RestTyped DEF Goes, Actors, Inv
<1>3. Stored' /\ Filed'
  BY <1>1, UnchangedIsKept, KeptDisk DEF Inv
<1>4. HandlesCurrent'
  BY <1>1 DEF Inv, WriteInv, HandlesCurrent
<1>5. Locked' /\ Opening'
  <2>1. \A a \in Actors : pc[a] \notin OpenLabels /\ pc'[a] \notin OpenLabels
    BY <1>1, <1>2, LabelFacts DEF Inv, WriteInv, Locked, Actors
  <2>2. mu' \notin Actors
    BY <1>1 DEF Actors
  <2>. QED
    BY <2>1, <2>2 DEF Locked, Opening
<1>6. Holding'
  BY <1>1, <1>2, ApartFromCron DEF Inv, WriteInv, Holding
<1>7. BatchYoung' /\ OnlyExpired'
  BY <1>1, <1>2 DEF Inv, WriteInv, BatchYoung, OnlyExpired, Expired
<1>. QED
  BY <1>3, <1>4, <1>5, <1>6, <1>7 DEF WriteInv

LEMMA RemoveFileKeeps ==
  ASSUME Inv, RemoveFile
  PROVE  WriteInv'
<1> DEFINE left == cron.expired \ {day["cron"]}
<1>1. /\ pc["cron"] = "remove" /\ day["cron"] \in Days /\ NextNight(left)
      /\ \A d \in Days : dir'[d] = dir[d] \/ (d = day["cron"] /\ dir'[d] = 0)
      /\ UNCHANGED <<clock, files, handle, mu, batch, committed>>
  BY RemoveFileSteps, RestTyped DEF RemoveFile, Inv, Actors, openVars
<1>2. /\ left \in SUBSET Days /\ \A d \in left : Expired(d)
      /\ Expired(day["cron"]) /\ handle[day["cron"]] = 0
  BY <1>1 DEF Inv, WriteInv, OnlyExpired, TypeInv, TypeOK
<1> HIDE DEF left
<1>3. mu # "cron"
  BY <1>1, LabelFacts DEF Inv, WriteInv, Locked, Actors
<1>4. Stored'
  <2> SUFFICES ASSUME NEW r \in committed PROVE Kept(r)'
    BY <1>1 DEF Stored
  <2>1. DayOf(r) \in Days /\ Kept(r)
    BY DayOfRow, RestTyped DEF Inv, WriteInv, Stored
  <2>. QED
    BY <1>1, <1>2, <2>1 DEF Kept, Expired
<1>5. Filed' /\ HandlesCurrent'
  BY <1>1, <1>2 DEF Inv, WriteInv, Filed, HandlesCurrent
<1>6. \A d \in Days : d # day["run"] \/ dir'[d] = dir[d] \/ pc["run"] = "idle"
  BY <1>1, ApartFromCron
<1>7. Locked' /\ Opening' /\ Holding' /\ BatchYoung' /\ OnlyExpired'
  BY <1>1, <1>2, <1>3, <1>6, NextNightKeeps
<1>. QED
  BY <1>4, <1>5, <1>7 DEF WriteInv

LEMMA VacuumedKeeps ==
  ASSUME Inv, Vacuumed
  PROVE  WriteInv'
<1>1. /\ NextNight({}) /\ mu' = IF mu = "cron" THEN "free" ELSE mu
      /\ UNCHANGED <<clock, diskVars, dir, handle, batch, committed>>
  BY VacuumedSteps DEF Vacuumed, Inv, diskVars
<1>2. Stored' /\ Filed' /\ HandlesCurrent'
  BY <1>1, UnchangedIsKept, KeptDisk DEF Inv
<1>3. Locked' /\ Opening' /\ Holding' /\ BatchYoung' /\ OnlyExpired'
  BY <1>1, NextNightKeeps
<1>. QED
  BY <1>2, <1>3 DEF WriteInv

\* Nothing is in progress when a process starts.
LEMMA FreshWrites ==
  Fresh => Locked /\ Opening /\ Holding /\ HandlesCurrent /\ BatchYoung
             /\ OnlyExpired
<1> SUFFICES ASSUME Fresh
             PROVE  Locked /\ Opening /\ Holding /\ HandlesCurrent /\ BatchYoung
                      /\ OnlyExpired
  OBVIOUS
<1>1. /\ pc["run"] = "idle" /\ pc["cron"] = "wait" /\ mu = "free"
      /\ \A d \in Days : handle[d] = 0
      /\ batch = {} /\ cron.expired = {}
  BY DEF Fresh, Started, NoHandles, TimerSet, Actors
<1>. QED
  BY <1>1
     DEF Locked, Opening, Holding, HandlesCurrent, BatchYoung, OnlyExpired,
         OpenLabels, Actors

LEMMA InitInv == Init => Inv
<1> SUFFICES ASSUME Init PROVE Inv
  OBVIOUS
<1>1. TypeInv /\ Fresh
  BY InitTypes DEF Init, Fresh
<1>2. Stored
  BY DEF Init, Stored
<1>3. Filed
  <2> SUFFICES ASSUME NEW d \in Days, NEW i \in 1 .. Len(files[d]),
                      NEW r \in files[d][i].rows
               PROVE  DayOf(r) = d
    BY DEF Filed
  <2>1. d = 0 /\ r.sec = 0 /\ TicksPerDay \in Nat \ {0}
    BY InitFiles, StoreAssumption
  <2>. QED
    BY <2>1 DEF DayOf, Day
<1>4. NightInv
  <2>1. clock \in Nat /\ MaxLate \in Nat /\ cron.next = NextThreeAM(clock)
        /\ NextThreeAM(clock) \in Nat
    BY NextThreeAMNat, StoreAssumption DEF Init, TimerSet
  <2>. QED
    BY <2>1, NextThreeAMDue DEF NightInv
<1>. QED
  BY <1>1, <1>2, <1>3, <1>4, FreshWrites DEF Inv, WriteInv

LEMMA ExitKeeps ==
  ASSUME Inv, Exit
  PROVE  WriteInv'
<1>1. Fresh' /\ DiskKept /\ UNCHANGED <<clock, committed>>
  BY ExitTypes, UnchangedIsKept DEF Exit, Inv
<1>2. Fresh' => /\ Locked' /\ Opening' /\ Holding' /\ HandlesCurrent'
                /\ BatchYoung' /\ OnlyExpired'
  BY FreshWrites, PTL
<1>3. Stored' /\ Filed'
  BY <1>1, KeptDisk
<1>. QED
  BY <1>1, <1>2, <1>3 DEF WriteInv

LEMMA TickKeeps ==
  ASSUME Inv, Tick
  PROVE  WriteInv'
<1>1. /\ UNCHANGED <<files, dir, handle, mu, pc, day, db, batch, cron, committed>>
      /\ clock \in Nat /\ clock' = clock + 1
      /\ \A r \in batch : clock + 1 - r.sec <= MaxAge
  BY StoreAssumption
     DEF Tick, diskVars, openVars, actorVars, Inv, TypeInv, TypeOK
<1>2. \A d \in Days : Expired(d) => Expired(d)'
  BY <1>1, ExpiredStays DEF Inv
<1>3. Stored'
  <2> SUFFICES ASSUME NEW r \in committed PROVE Kept(r)'
    BY <1>1 DEF Stored
  <2>1. DayOf(r) \in Days /\ Kept(r)
    BY DayOfRow, RestTyped DEF Inv, WriteInv, Stored
  <2>. QED
    BY <1>1, <1>2, <2>1 DEF Kept
<1>4. BatchYoung'
  <2>1. ASSUME NEW r \in batch
        PROVE  r.sec <= clock' /\ clock' - r.sec <= MaxAge
    <3>1. r.sec \in Nat /\ r.sec <= clock /\ MaxAge \in Nat
          /\ clock + 1 - r.sec <= MaxAge
      BY <1>1, DayOfRow, RestTyped, StoreAssumption
         DEF Inv, WriteInv, BatchYoung
    <3>. QED
      BY <1>1, <3>1
  <2>. QED
    BY <1>1, <2>1 DEF Inv, WriteInv, BatchYoung
<1>5. OnlyExpired'
  <2>1. cron.expired \subseteq Days
    BY DEF Inv, TypeInv, TypeOK
  <2>. QED
    BY <1>1, <1>2, <2>1 DEF Inv, WriteInv, OnlyExpired
<1>. QED
  BY <1>1, <1>3, <1>4, <1>5
     DEF Inv, WriteInv, Locked, Opening, Holding, HandlesCurrent, Filed

LEMMA StepNight == Inv /\ [Next]_vars => NightInv'
<1> SUFFICES ASSUME Inv, [Next]_vars PROVE NightInv'
  OBVIOUS
<1>1. /\ clock \in Nat /\ MaxLate \in Nat /\ cron.next \in Nat
      /\ NextThreeAM(clock) \in Nat
  <2>1. clock \in Nat /\ cron.next \in Nat
    BY StoreAssumption DEF Inv, TypeInv, TypeOK
  <2>2. MaxLate \in Nat
    BY StoreAssumption
  <2>. QED
    BY <2>1, <2>2, NextThreeAMNat
<1>2. ASSUME cron'.next = NextThreeAM(clock), UNCHANGED clock
      PROVE  NightInv'
  BY <1>1, <1>2, NextThreeAMDue DEF NightInv
<1>3. ASSUME NEW expired, NEW remaining, NextEntry(expired, remaining),
             UNCHANGED clock
      PROVE  NightInv'
  <2>1. CASE expired \union remaining = {}
    BY <1>2, <1>3, <2>1 DEF NextEntry
  <2>2. CASE expired \union remaining # {}
    <3>1. cron'.next = cron.next
      BY <1>3, <2>2 DEF NextEntry, Inv, TypeInv, TypeOK
    <3>2. pc'["cron"] \in {"close", "get"}
      BY <1>3, <2>2 DEF NextEntry, GotoDate, Goto, Inv, TypeInv, TypeOK, Actors
    <3>. QED
      BY <3>1, <3>2 DEF Inv, NightInv
  <2>. QED
    BY <2>1, <2>2
<1>4. CASE CleanupOldDBs \/ RemoveFile \/ Vacuumed
  BY <1>3, <1>4 DEF CleanupOldDBs, RemoveFile, Vacuumed
<1>5. ASSUME UNCHANGED <<clock, cron>>,
             pc'["cron"] = "wait" => pc["cron"] = "wait"
      PROVE  NightInv'
  BY <1>5 DEF Inv, NightInv
<1>6. CASE CloseShard
  BY <1>5, <1>6 DEF CloseShard, Goto, Inv, TypeInv, TypeOK, Actors
<1>7. ASSUME NEW a \in Actors, GetOrOpenDB(a) PROVE NightInv'
  <2>1. UNCHANGED <<clock, cron>>
    BY <1>7 DEF GetOrOpenDB, GetHandle, CreateFile, CreateTable, Migrate,
                Recreate
  <2>2. \/ UNCHANGED pc
        \/ \E label \in OpenLabels \union {"got"} : Goto(a, label)
    BY <1>7 DEF GetOrOpenDB, GetHandle, CreateFile, CreateTable, Migrate,
                Recreate, Register, OpenLabels
  <2>3. pc'["cron"] = "wait" => pc["cron"] = "wait"
    BY <2>2 DEF Goto, OpenLabels, Inv, TypeInv, TypeOK, Actors
  <2>. QED
    BY <1>5, <2>1, <2>3
<1>8. CASE Insert
  <2>1. UNCHANGED <<clock, cron>>
    BY <1>8 DEF Insert, InsertBatch, BeginTx, Commit, InsertFails
  <2>2. pc'["cron"] = pc["cron"]
    BY <1>8 DEF Insert, InsertBatch, BeginTx, Commit, InsertFails, NextGroup,
                GotoDate, Goto, Inv, TypeInv, TypeOK, Actors
  <2>. QED
    BY <1>5, <2>1, <2>2
<1>9. CASE Search \/ LastSeen \/ UNCHANGED vars
  <2>1. UNCHANGED <<clock, cron, pc>>
    BY <1>9 DEF Search, SearchStart, StatDate, Attach, Query, SearchEnd,
                LastSeen, LastSeenStart, StatDay, ReadShard, LastSeenEnd,
                actorVars, vars
  <2>. QED
    BY <1>5, <2>1
<1>10. CASE Exit
  BY <1>2, <1>10 DEF Exit, TimerSet
<1>11. CASE Tick
  BY <1>1, <1>11 DEF Tick, actorVars, Inv, NightInv
<1>. QED
  BY <1>4, <1>6, <1>7, <1>8, <1>9, <1>10, <1>11 DEF Next, Cleanup

LEMMA StepInv == Inv /\ [Next]_vars => Inv'
<1> SUFFICES ASSUME Inv, [Next]_vars PROVE Inv'
  OBVIOUS
<1>1. TypeInv'
  BY StepTypes DEF Inv
<1>2. WriteInv'
  <2>1. ASSUME NEW a \in Actors, GetOrOpenDB(a) PROVE WriteInv'
    BY <2>1, GetHandleKeeps, CreateFileKeeps, CreateTableKeeps, MigrateKeeps,
       RecreateKeeps DEF GetOrOpenDB
  <2>2. CASE Insert
    BY <2>2, InsertBatchKeeps, BeginTxKeeps, CommitKeeps, InsertFailsKeeps
       DEF Insert
  <2>3. CASE Cleanup
    BY <2>3, CleanupOldDBsKeeps, CloseShardKeeps, RemoveFileKeeps,
       VacuumedKeeps DEF Cleanup
  <2>4. CASE UNCHANGED vars
    BY <2>4, UnchangedIsKept, ReadersKeep DEF vars, Inv
  <2>. QED
    BY <2>1, <2>2, <2>3, <2>4, SearchKeeps, LastSeenKeeps, ExitKeeps, TickKeeps
       DEF Next
<1>. QED
  BY <1>1, <1>2, StepNight DEF Inv

LEMMA Invariant == Spec => []Inv
BY InitInv, StepInv, PTL DEF Spec

(* What InsertBatch has stored stays in the file of its date, through      *)
(* closed handles, migrations, cleanups, readers that recreate a file and  *)
(* any number of exits, until the date expires (sqlite.go:151-267).        *)
THEOREM AlwaysStoredUntilExpired == Spec => []StoredUntilExpired
<1>1. Inv => StoredUntilExpired
  BY DEF Inv, WriteInv, Stored, Kept, StoredUntilExpired, OnDisk
<1>. QED
  BY <1>1, Invariant, PTL

(* No write handle is left on an unlinked file, neither in s.dbs nor in    *)
(* the hands of InsertBatch: retention closes and removes only expired     *)
(* dates, and no batch is that old (sqlite.go:151-240, 676-741).           *)
THEOREM HandleNeverStale == Spec => []NoStaleHandle
<1>1. Inv => NoStaleHandle
  <2> SUFFICES ASSUME Inv PROVE NoStaleHandle
    OBVIOUS
  <2>1. day["run"] \in Days
    BY RestTyped DEF Inv, Actors
  <2>. QED
    BY <2>1 DEF Inv, WriteInv, HandlesCurrent, Holding, NoStaleHandle
<1>. QED
  BY <1>1, Invariant, PTL

-----------------------------------------------------------------------------
(***************************************************************************)
(* What a reader in progress may rely on: a file that is not expired keeps *)
(* its name, and what is stored stays stored, whoever takes a step.        *)
(***************************************************************************)
Steady ==
  /\ committed \subseteq committed'
  /\ clock' \in Nat /\ clock' >= clock
  /\ \A d \in Days : dir[d] # 0 /\ ~Expired(d) => dir'[d] = dir[d]

LEMMA StepSteady ==
  ASSUME Inv, [Next]_vars
  PROVE  Steady
<1>1. clock \in Nat
  BY StoreAssumption DEF Inv, TypeInv, TypeOK
<1>2. CASE UNCHANGED clock /\ committed \subseteq committed' /\ DiskKept
  BY <1>1, <1>2 DEF Steady, DiskKept
<1>3. CASE UNCHANGED clock /\ committed \subseteq committed' /\ UNCHANGED dir
  BY <1>1, <1>3 DEF Steady
<1>4. ASSUME NEW a \in Actors, GetOrOpenDB(a) PROVE Steady
  BY <1>2, <1>3, <1>4, CreateFileKeeps
     DEF GetOrOpenDB, GetHandle, CreateFile, CreateTable, Migrate, Recreate,
         diskVars
<1>5. CASE Insert
  BY <1>3, <1>5 DEF Insert, InsertBatch, BeginTx, Commit, InsertFails, diskVars
<1>6. CASE RemoveFile
  <2>1. /\ Expired(day["cron"])
        /\ \A d \in Days : dir'[d] = dir[d] \/ d = day["cron"]
        /\ UNCHANGED clock /\ UNCHANGED committed
    BY <1>6, RemoveFileSteps DEF RemoveFile, Inv, WriteInv, OnlyExpired
  <2>. QED
    BY <1>1, <2>1 DEF Steady
<1>7. CASE CleanupOldDBs \/ CloseShard \/ Vacuumed
  BY <1>3, <1>7 DEF CleanupOldDBs, CloseShard, Vacuumed, diskVars
<1>8. CASE Search
  <2>1. UNCHANGED clock /\ UNCHANGED committed
    BY <1>8 DEF Search, SearchStart, StatDate, Attach, Query, SearchEnd
  <2>. QED
    BY <1>2, <1>8, <2>1, SearchKeeps
<1>9. CASE LastSeen
  <2>1. UNCHANGED clock /\ UNCHANGED committed
    BY <1>9 DEF LastSeen, LastSeenStart, StatDay, ReadShard, LastSeenEnd
  <2>. QED
    BY <1>2, <1>9, <2>1, LastSeenKeeps
<1>10. CASE Exit
  BY <1>3, <1>10 DEF Exit, diskVars
<1>11. CASE Tick
  BY <1>1, <1>11 DEF Tick, Steady, diskVars
<1>12. CASE UNCHANGED vars
  BY <1>3, <1>12 DEF vars, diskVars
<1>. QED
  BY <1>4, <1>5, <1>6, <1>7, <1>8, <1>9, <1>10, <1>11, <1>12 DEF Next, Cleanup

\* A row stored on a day that is not expired is in the file the path names.
LEMMA StoredThere ==
  ASSUME Inv, NEW r \in committed, ~Expired(DayOf(r))
  PROVE  /\ DayOf(r) \in Days /\ r \in Row /\ dir[DayOf(r)] # 0
         /\ r \in files[DayOf(r)][dir[DayOf(r)]].rows
BY DayOfRow, RestTyped DEF Inv, WriteInv, Stored, Kept

LEMMA SteadyExpired ==
  ASSUME Inv, Steady, NEW d \in Days, ~Expired(d)'
  PROVE  ~Expired(d)
BY ExpiredStays DEF Inv, Steady

-----------------------------------------------------------------------------
(***************************************************************************)
(* The invariant of the searches                                           *)
(***************************************************************************)
LEMMA SearchIdle ==
  ASSUME search' = NoSearch
  PROVE  SearchInv'
BY DEF SearchInv, SearchComplete, NoSearch

LEMMA SearchWaits ==
  ASSUME Inv, SearchInv, Steady, UNCHANGED search
  PROVE  SearchInv'
<1> SUFFICES ASSUME NEW r \in search.before
             PROVE  /\ r \in committed'
                    /\ search.at = "stat" =>
                         (DayOf(r) \in search.range \ search.todo
                            /\ ~Expired(DayOf(r))' => DayOf(r) \in search.found)
                    /\ search.at = "attach" =>
                         /\ Covered(DayOf(r))'
                              => DayOf(r) \in search.found \/ Attached(DayOf(r))
                         /\ \A f \in search.attached :
                              f[1] = DayOf(r) /\ ~Expired(f[1])'
                                => f[2] = dir'[f[1]]
                    /\ search.at = "done" =>
                         (Covered(DayOf(r))' => r \in search.rows)
  BY DEF SearchInv, SearchComplete, Attached
<1>1. r \in committed /\ r \in committed' /\ DayOf(r) \in Days
  BY DayOfRow, RestTyped DEF SearchInv, Steady, Inv
<1>2. ~Expired(DayOf(r))' => ~Expired(DayOf(r))
  BY <1>1, SteadyExpired
<1>3. Covered(DayOf(r))' => Covered(DayOf(r))
  BY <1>2 DEF Covered
<1>4. ~Expired(DayOf(r))' => dir'[DayOf(r)] = dir[DayOf(r)]
  BY <1>1, <1>2, StoredThere DEF Steady
<1>. QED
  BY <1>1, <1>2, <1>3, <1>4 DEF SearchInv, SearchComplete

LEMMA SearchStartInv ==
  ASSUME Inv, SearchStart
  PROVE  SearchInv'
BY DEF SearchStart, SearchInv, SearchComplete, NoSearch

LEMMA StatDateInv ==
  ASSUME Inv, SearchInv, StatDate
  PROVE  SearchInv'
<1> DEFINE d     == Min(search.todo)
           left  == search.todo \ {d}
           found == search.found \union {e \in {d} : dir[e] # 0}
<1>1. /\ search.at = "stat" /\ UNCHANGED <<clock, dir, committed>>
      /\ search' = [search EXCEPT
                      !.todo  = left,
                      !.found = IF left = {} THEN Newest(found) ELSE found,
                      !.at    = IF left = {} THEN "attach" ELSE "stat"]
  BY DEF StatDate, diskVars
<1>2. /\ search \in SearchCall /\ search.attached = {}
      /\ search.found \subseteq search.range /\ search.range \subseteq Days
      /\ search.todo # {} /\ search.todo \subseteq search.range
  BY <1>1 DEF Inv, TypeInv, TypeOK, SearchShape, SearchCall
<1>3. d \in search.todo
  <2>1. search.todo \in SUBSET Nat
    BY <1>2, DaysFinite
  <2>. QED
    BY <1>2, <2>1, MinLeast
<1>4. found \subseteq search.range
  BY <1>2, <1>3
<1> HIDE DEF d
<1>5. ASSUME NEW r \in search.before, ~Expired(DayOf(r)),
             DayOf(r) \in search.range \ left
      PROVE  DayOf(r) \in found
  <2>1. r \in committed /\ dir[DayOf(r)] # 0
    BY <1>5, StoredThere DEF SearchInv
  <2>. QED
    BY <1>1, <1>5, <2>1 DEF SearchInv
<1> HIDE DEF left, found
<1>6. /\ search'.before = search.before /\ search'.range = search.range
      /\ search'.skipped = search.skipped /\ search'.todo = left
      /\ search'.attached = {}
      /\ search'.found = IF left = {} THEN Newest(found) ELSE found
      /\ search'.at = IF left = {} THEN "attach" ELSE "stat"
  BY <1>1, <1>2 DEF SearchCall
<1>7. CASE left = {}
  <2> SUFFICES ASSUME NEW r \in search.before, Covered(DayOf(r))'
               PROVE  DayOf(r) \in Newest(found)
    BY <1>1, <1>6, <1>7 DEF SearchInv, SearchComplete
  <2>1. /\ DayOf(r) \in search.range /\ ~Expired(DayOf(r))
        /\ Cardinality({e \in search.range : e > DayOf(r)}) < MaxAttached
    BY <1>1, <1>6 DEF Covered, Expired
  <2>2. DayOf(r) \in found
    BY <1>5, <1>7, <2>1
  <2>3. IsFiniteSet(search.range)
    BY <1>2, DaysFinite, FS_Subset
  <2> DEFINE A == {e \in found : e > DayOf(r)}
             B == {e \in search.range : e > DayOf(r)}
  <2>4. A \subseteq B /\ IsFiniteSet(B)
    BY <1>4, <2>3, FS_Subset
  <2> HIDE DEF A, B
  <2>5. Cardinality(A) <= Cardinality(B) /\ IsFiniteSet(A)
    BY <2>4, FS_Subset
  <2>6. Cardinality(A) \in Nat /\ Cardinality(B) \in Nat /\ MaxAttached \in Nat
    BY <2>4, <2>5, FS_CardinalityType, StoreAssumption
  <2>7. Cardinality(A) < MaxAttached
    BY <2>1, <2>5, <2>6 DEF B
  <2>. QED
    BY <2>2, <2>7 DEF Newest, A
<1>8. CASE left # {}
  <2> SUFFICES ASSUME NEW r \in search.before, ~Expired(DayOf(r)),
                      DayOf(r) \in search.range \ left
               PROVE  DayOf(r) \in found
    BY <1>1, <1>6, <1>8 DEF SearchInv, SearchComplete, Expired
  <2>. QED
    BY <1>5
<1>. QED
  BY <1>7, <1>8

LEMMA AttachInv ==
  ASSUME Inv, SearchInv, Attach
  PROVE  SearchInv'
<1> DEFINE d == Min(search.found)
<1>1. /\ search.at = "attach" /\ UNCHANGED <<clock, committed>>
      /\ search \in SearchCall /\ search.found # {}
  BY DEF Attach, Inv, TypeInv, TypeOK
<1>2. d \in search.found
  <2>1. search.found \in SUBSET Nat
    BY <1>1, DaysFinite DEF SearchCall
  <2>. QED
    BY <1>1, <2>1, MinLeast
<1>3. \A r \in search.before : ~Expired(DayOf(r))' =>
        ~Expired(DayOf(r)) /\ dir[DayOf(r)] # 0
  BY <1>1, StoredThere DEF SearchInv, Expired
<1> HIDE DEF d
<1>4. CASE /\ PathOpened(d)
           /\ search' = [search EXCEPT
                           !.found    = @ \ {d},
                           !.attached = @ \union {<<d, dir'[d]>>},
                           !.missing  = IF dir[d] = 0 THEN @ \union {d} ELSE @]
  <2>1. DiskKept
    BY <1>1, SearchKeeps DEF Search, Attach
  <2>2. /\ search'.at = "attach" /\ search'.before = search.before
        /\ search'.range = search.range /\ search'.skipped = search.skipped
        /\ search'.found = search.found \ {d}
        /\ search'.attached = search.attached \union {<<d, dir'[d]>>}
    BY <1>1, <1>4 DEF SearchCall
  <2> SUFFICES ASSUME NEW r \in search.before
               PROVE  /\ Covered(DayOf(r))' =>
                           DayOf(r) \in search'.found \/ Attached(DayOf(r))'
                      /\ \A f \in search'.attached :
                           f[1] = DayOf(r) /\ ~Expired(f[1])'
                             => f[2] = dir'[f[1]]
    BY <1>1, <2>2 DEF SearchInv, SearchComplete
  <2>3. ASSUME Covered(DayOf(r))'
        PROVE  DayOf(r) \in search'.found \/ Attached(DayOf(r))'
    <3>1. Covered(DayOf(r))
      BY <1>1, <2>2, <2>3 DEF Covered, Expired
    <3>2. CASE DayOf(r) = d
      <4>1. <<d, dir'[d]>> \in search'.attached /\ <<d, dir'[d]>>[1] = d
        BY <2>2
      <4>. QED
        BY <3>2, <4>1 DEF Attached
    <3>3. CASE DayOf(r) # d
      BY <1>1, <2>2, <3>1, <3>3 DEF SearchInv, Attached
    <3>. QED
      BY <3>2, <3>3
  <2>4. ASSUME NEW f \in search'.attached, f[1] = DayOf(r), ~Expired(f[1])'
        PROVE  f[2] = dir'[f[1]]
    <3>1. CASE f = <<d, dir'[d]>>
      BY <3>1
    <3>2. CASE f \in search.attached
      <4>1. f[2] = dir[f[1]] /\ dir[f[1]] # 0
        BY <1>1, <1>3, <2>4, <3>2 DEF SearchInv, Expired
      <4>2. f[1] \in Days
        BY <1>1, <3>2 DEF SearchCall
      <4>. QED
        BY <2>1, <4>1, <4>2 DEF DiskKept
    <3>. QED
      BY <2>2, <3>1, <3>2
  <2>. QED
    BY <2>3, <2>4
<1>5. CASE /\ UNCHANGED diskVars
           /\ search' = [search EXCEPT !.found   = @ \ {d},
                                       !.skipped = @ \union {d}]
  <2>1. /\ search'.at = "attach" /\ search'.before = search.before
        /\ search'.range = search.range /\ UNCHANGED dir
        /\ search'.skipped = search.skipped \union {d}
        /\ search'.found = search.found \ {d}
        /\ search'.attached = search.attached
    BY <1>1, <1>5 DEF SearchCall, diskVars
  <2>2. ASSUME NEW r \in search.before, Covered(DayOf(r))'
        PROVE  Covered(DayOf(r)) /\ DayOf(r) # d
    BY <1>1, <2>1, <2>2 DEF Covered, Expired
  <2>. QED
    BY <1>1, <2>1, <2>2 DEF SearchInv, SearchComplete, Attached, Expired
<1>. QED
  BY <1>4, <1>5 DEF Attach, d

LEMMA QueryInv ==
  ASSUME Inv, SearchInv, Query
  PROVE  SearchInv'
<1> DEFINE answer == UNION {f.rows : f \in AttachedFiles}
<1>1. /\ search.at = "attach" /\ search.found = {} /\ search \in SearchCall
      /\ UNCHANGED <<clock, committed>>
      /\ \/ search' = [search EXCEPT !.at = "done", !.rows = answer]
         \/ search' = [search EXCEPT !.at = "failed"]
  BY DEF Query, Inv, TypeInv, TypeOK
<1>2. ASSUME NEW r \in search.before, Covered(DayOf(r))
      PROVE  r \in answer
  <2>1. PICK f \in search.attached : f[1] = DayOf(r)
    BY <1>1, <1>2 DEF SearchInv, Attached
  <2>2. ~Expired(DayOf(r)) /\ r \in committed
    BY <1>2 DEF Covered, SearchInv
  <2>3. f[2] = dir[DayOf(r)]
    BY <1>1, <2>1, <2>2 DEF SearchInv
  <2>4. r \in files[f[1]][f[2]].rows
    BY <2>1, <2>2, <2>3, StoredThere
  <2>. QED
    BY <2>4 DEF AttachedFiles
<1> HIDE DEF answer
<1>3. /\ search'.before = search.before /\ search'.range = search.range
      /\ search'.skipped = search.skipped
      /\ \/ search'.at = "done" /\ search'.rows = answer
         \/ search'.at = "failed"
  BY <1>1 DEF SearchCall
<1>4. \A r \in search.before : Covered(DayOf(r))' => Covered(DayOf(r))
  BY <1>1, <1>3 DEF Covered, Expired
<1>. QED
  BY <1>1, <1>2, <1>3, <1>4 DEF SearchInv, SearchComplete

LEMMA StepSearchInv == Inv /\ SearchInv /\ [Next]_vars => SearchInv'
<1> SUFFICES ASSUME Inv, SearchInv, [Next]_vars PROVE SearchInv'
  OBVIOUS
<1>1. UNCHANGED search \/ Search \/ search' = NoSearch
  BY DEF Next, GetOrOpenDB, GetHandle, CreateFile, CreateTable, Migrate,
         Recreate, Insert, InsertBatch, BeginTx, Commit, InsertFails, Cleanup,
         CleanupOldDBs, CloseShard, RemoveFile, Vacuumed, LastSeen,
         LastSeenStart, StatDay, ReadShard, LastSeenEnd, Exit, Tick, vars
<1>2. Steady
  BY StepSteady
<1>. QED
  BY <1>1, <1>2, SearchIdle, SearchWaits, SearchStartInv, StatDateInv,
     AttachInv, QueryInv DEF Search, SearchEnd

(* A search that succeeds has every row stored before it began on the days *)
(* it covers, whatever is created, deleted or rebuilt between its stats,   *)
(* its attachments and its query (sqlite.go:114-150, 376-546).             *)
THEOREM SearchAlwaysComplete == Spec => []SearchComplete
<1>1. Init => SearchInv
  BY DEF Init, SearchInv, SearchComplete, NoSearch
<1>2. SearchInv => SearchComplete
  BY DEF SearchInv
<1>. QED
  BY <1>1, <1>2, Invariant, StepSearchInv, PTL DEF Spec

-----------------------------------------------------------------------------
(***************************************************************************)
(* The invariant of LastSeen                                               *)
(***************************************************************************)

(* SELECT MAX finds a row of those of one container, however many there    *)
(* are: timestamps take finitely many values.                              *)
LEMMA TextMaxFinds ==
  ASSUME NEW rows \in SUBSET Row, NEW c, \A r \in rows : r.c = c, rows # {}
  PROVE  TextMax(rows) # {}
<1> DEFINE secs  == {MaxClock - r.sec : r \in rows}
<1>1. MaxClock \in Nat /\ Fractions \in Nat
  BY StoreAssumption
<1>2. \A r \in rows : r.sec \in Nat /\ r.sec <= MaxClock /\ r.frac \in Nat
  BY <1>1 DEF Row
<1>3. secs \in SUBSET Nat /\ secs # {}
  BY <1>1, <1>2
<1>4. PICK p \in rows : \A r \in rows : MaxClock - p.sec <= MaxClock - r.sec
  <2>1. Min(secs) \in secs /\ \A x \in secs : Min(secs) <= x
    BY <1>3, MinLeast
  <2>. QED
    BY <2>1
<1> HIDE DEF secs
<1>5. \A r \in rows : r.sec <= p.sec
  BY <1>1, <1>2, <1>4
<1> DEFINE last  == {r \in rows : r.sec = p.sec}
           text(r) == IF UTCOffset = 0 THEN r.frac ELSE Fractions - r.frac
           texts == {text(r) : r \in last}
<1>6. texts \in SUBSET Nat /\ texts # {}
  <2>1. \A r \in last : text(r) \in Nat
    BY <1>1, <1>2 DEF Row
  <2>. QED
    BY <2>1
<1>7. PICK q \in last : \A r \in last : text(q) <= text(r)
  <2>1. Min(texts) \in texts /\ \A x \in texts : Min(texts) <= x
    BY <1>6, MinLeast
  <2>. QED
    BY <2>1
<1> HIDE DEF texts
<1>8. ASSUME NEW r \in rows \ {q} PROVE TextLess(r, q)
  <2>1. /\ q \in rows /\ q.sec = p.sec /\ r.sec <= q.sec
        /\ r.sec \in Nat /\ q.sec \in Nat /\ r.frac \in Nat /\ q.frac \in Nat
    BY <1>2, <1>5, <1>7
  <2>2. CASE r.sec # q.sec
    BY <2>1, <2>2 DEF TextLess
  <2>3. CASE r.sec = q.sec
    <3>1. text(q) <= text(r)
      BY <1>7, <2>1, <2>3
    <3>2. r.frac # q.frac
      <4>1. r = [c |-> r.c, sec |-> r.sec, frac |-> r.frac] /\ r.c = c
        BY DEF Row
      <4>2. q = [c |-> q.c, sec |-> q.sec, frac |-> q.frac] /\ q.c = c
        BY <2>1 DEF Row
      <4>. QED
        BY <2>3, <4>1, <4>2
    <3>. QED
      BY <1>1, <2>1, <2>3, <3>1, <3>2 DEF TextLess
  <2>. QED
    BY <2>2, <2>3
<1>9. q \in TextMax(rows)
  BY <1>7, <1>8 DEF TextMax
<1>. QED
  BY <1>9

\* and no row of them is a tick newer.
LEMMA TextMaxNewest ==
  ASSUME NEW rows \in SUBSET Row, NEW a \in TextMax(rows), NEW r \in rows
  PROVE  a \in rows /\ a.sec >= r.sec
<1>1. a \in rows /\ (r = a \/ TextLess(r, a)) /\ a.sec \in Nat /\ r.sec \in Nat
  BY DayOfRow DEF TextMax
<1>. QED
  BY <1>1 DEF TextLess

LEMMA PastStays ==
  ASSUME Inv, Past, [Next]_vars
  PROVE  Past'
<1>1. /\ Steady /\ clock \in Nat
      /\ \A r \in committed \union batch : r.sec \in Nat /\ r.sec <= clock
  BY StepSteady, DayOfRow, RestTyped, StoreAssumption
     DEF Past, Inv, TypeInv, TypeOK, WriteInv, BatchYoung
<1>2. committed' \subseteq committed \union batch
  <2>1. CASE Commit
    BY <2>1 DEF Commit, RowsOn
  <2>2. CASE UNCHANGED committed
    BY <2>2
  <2>. QED
    BY <2>1, <2>2
       DEF Next, GetOrOpenDB, GetHandle, CreateFile, CreateTable, Migrate,
           Recreate, Insert, InsertBatch, BeginTx, InsertFails, Cleanup,
           CleanupOldDBs, CloseShard, RemoveFile, Vacuumed, Search,
           SearchStart, StatDate, Attach, Query, SearchEnd, LastSeen,
           LastSeenStart, StatDay, ReadShard, LastSeenEnd, Exit, Tick, vars
<1> SUFFICES ASSUME NEW r \in committed' PROVE r.sec <= clock'
  BY DEF Past
<1>3. r.sec \in Nat /\ r.sec <= clock /\ clock' \in Nat /\ clock <= clock'
  BY <1>1, <1>2 DEF Steady
<1>. QED
  BY <1>1, <1>3

LEMMA SeenIdle ==
  ASSUME Past', seen' = NoSeen
  PROVE  SeenInv'
BY DEF SeenInv, LastSeenRecent, NoSeen

LEMMA SeenWaits ==
  ASSUME Inv, SeenInv, Steady, Past', UNCHANGED seen
  PROVE  SeenInv'
<1>1. \A d \in Days : ~Expired(d)' => ~Expired(d)
  BY SteadyExpired
<1>2. \A r \in Row : Asked(r)' => Asked(r)
  BY <1>1, DayOfRow DEF Asked, InLookback
<1>3. seen.before \subseteq Row
  BY DEF Inv, TypeInv, TypeOK, SeenCall
<1>4. LastSeenRecent'
  BY <1>1, <1>3, DayOfRow DEF SeenInv, LastSeenRecent, InLookback
<1>. QED
  BY <1>2, <1>4 DEF SeenInv, Steady

LEMMA LastSeenStartInv ==
  ASSUME Inv, SeenInv, LastSeenStart, Past'
  PROVE  SeenInv'
<1>1. PICK c \in Containers :
        seen' = [NoSeen EXCEPT !.at = "stat", !.c = c, !.day = Day(clock),
                               !.first = Day(clock), !.before = committed]
  BY DEF LastSeenStart
<1>2. /\ seen'.at = "stat" /\ seen'.ans = {} /\ seen'.day = Day(clock)
      /\ seen'.before = committed /\ UNCHANGED committed
  BY <1>1 DEF NoSeen, LastSeenStart
<1>3. ASSUME NEW r \in Row, Asked(r)' PROVE DayOf(r) <= Day(clock)
  <2>1. r.sec <= clock
    BY <1>2, <1>3 DEF Asked, SeenInv, Past
  <2>2. clock \in Nat
    BY StoreAssumption DEF Inv, TypeInv, TypeOK
  <2>. QED
    BY <2>1, <2>2, DayOfRow, DayMonotone DEF DayOf
<1>. QED
  BY <1>2, <1>3 DEF SeenInv, LastSeenRecent

(* A day without a row LastSeen has to answer for is passed, and the scan  *)
(* ends where the lookback does.                                           *)
LEMMA YesterdayInv ==
  ASSUME Inv, SeenInv, Yesterday, Past', seen.at \in {"stat", "read"},
         UNCHANGED <<clock, committed>>,
         \A r \in Row : Asked(r) => DayOf(r) # seen.day
  PROVE  SeenInv'
<1>1. /\ seen \in SeenCall /\ seen.day \in Nat /\ seen.first \in Nat
      /\ Lookback \in Nat
  BY DaysFinite, StoreAssumption DEF Inv, TypeInv, TypeOK, SeenCall
<1>2. ASSUME NEW r \in Row, Asked(r)
      PROVE  DayOf(r) <= seen.day - 1 /\ InLookback(seen.day - 1)
  <2>1. DayOf(r) \in Nat /\ DayOf(r) <= seen.day /\ DayOf(r) # seen.day
    BY <1>2, DayOfRow, DaysFinite DEF SeenInv
  <2>2. DayOf(r) <= seen.day - 1
    BY <1>1, <2>1
  <2>. QED
    BY <1>1, <1>2, <2>1, <2>2 DEF Asked, InLookback
<1>3. CASE InLookback(seen.day - 1)
  <2>1. seen' = [seen EXCEPT !.at = "stat", !.day = @ - 1]
    BY <1>3 DEF Yesterday
  <2>2. /\ seen'.at = "stat" /\ seen'.day = seen.day - 1 /\ seen'.ans = {}
        /\ seen'.before = seen.before /\ seen'.c = seen.c
        /\ seen'.first = seen.first
    BY <1>1, <2>1 DEF SeenCall, SeenInv
  <2>3. \A r \in Row : Asked(r)' => Asked(r)
    BY <2>2 DEF Asked, InLookback, Expired
  <2>. QED
    BY <1>2, <2>2, <2>3 DEF SeenInv, LastSeenRecent
<1>4. CASE ~InLookback(seen.day - 1)
  <2>1. seen' = [seen EXCEPT !.at = "done"]
    BY <1>4 DEF Yesterday
  <2>2. /\ seen'.at = "done" /\ seen'.before = seen.before
        /\ seen'.c = seen.c /\ seen'.first = seen.first
        /\ seen.before \subseteq Row
    BY <1>1, <2>1 DEF SeenCall
  <2>3. \A r \in Row : ~Asked(r)
    BY <1>2, <1>4
  <2>4. LastSeenRecent'
    BY <2>2, <2>3 DEF LastSeenRecent, Asked, InLookback, Expired
  <2>. QED
    BY <2>2, <2>4 DEF SeenInv
<1>. QED
  BY <1>3, <1>4

LEMMA StatDayInv ==
  ASSUME Inv, SeenInv, StatDay, Past'
  PROVE  SeenInv'
<1>1. seen.at = "stat" /\ UNCHANGED <<clock, committed>> /\ seen \in SeenCall
  BY DEF StatDay, Inv, TypeInv, TypeOK
<1>2. CASE dir[seen.day] # 0 /\ seen' = [seen EXCEPT !.at = "read"]
  <2>1. /\ seen'.at = "read" /\ seen'.ans = seen.ans /\ seen'.day = seen.day
        /\ seen'.before = seen.before /\ seen'.c = seen.c
        /\ seen'.first = seen.first
    BY <1>1, <1>2 DEF SeenCall
  <2>2. \A r \in Row : Asked(r)' => Asked(r)
    BY <1>1, <2>1 DEF Asked, InLookback, Expired
  <2>. QED
    BY <1>1, <2>1, <2>2 DEF SeenInv, LastSeenRecent
<1>3. CASE dir[seen.day] = 0 /\ Yesterday
  <2>1. \A r \in Row : Asked(r) => DayOf(r) # seen.day
    BY <1>3, StoredThere DEF Asked, SeenInv
  <2>. QED
    BY <1>1, <1>3, <2>1, YesterdayInv
<1>. QED
  BY <1>2, <1>3 DEF StatDay

LEMMA ReadShardInv ==
  ASSUME Inv, SeenInv, ReadShard, Past'
  PROVE  SeenInv'
<1> DEFINE d    == seen.day
           f    == files'[d][dir'[d]]
           rows == {r \in f.rows : r.c = seen.c}
<1>1. /\ seen.at = "read" /\ UNCHANGED <<clock, committed>>
      /\ seen \in SeenCall /\ d \in Days /\ PathOpened(d)
      /\ \/ seen' = [seen EXCEPT !.at = "failed"]
         \/ rows = {} /\ Yesterday
         \/ rows # {} /\ seen' = [seen EXCEPT !.at = "done",
                                              !.ans = TextMax(rows)]
  BY DEF ReadShard, Inv, TypeInv, TypeOK, SeenCall
<1>2. DiskKept /\ Filed' /\ Opened(d)
  BY <1>1, LastSeenKeeps, OpeningOpens, DiskOfTypeOK
     DEF LastSeen, Inv, TypeInv, WriteInv
<1>3. dir'[d] \in 1 .. Len(files'[d]) /\ f \in File
  <2>1. files'[d] \in Seq(File) /\ dir'[d] \in 1 .. Len(files'[d])
    BY <1>1, <1>2, LenProperties DEF Opened, DiskTypes
  <2>. QED
    BY <2>1, ElementOfSeq
<1>4. rows \in SUBSET Row /\ \A r \in rows : r.c = seen.c /\ DayOf(r) = d
  BY <1>1, <1>2, <1>3 DEF File, Filed
<1>5. ASSUME NEW r \in Row, Asked(r), DayOf(r) = d
      PROVE  r \in rows
  <2>1. dir[d] # 0 /\ r \in files[d][dir[d]].rows /\ r.c = seen.c
    BY <1>5, StoredThere DEF Asked, SeenInv
  <2>2. files'[d][dir'[d]] = files[d][dir[d]]
    BY <1>1, <1>2, <2>1, NamedFile DEF DiskKept, Inv
  <2>. QED
    BY <2>1, <2>2
<1> HIDE DEF f, rows
<1>6. CASE seen' = [seen EXCEPT !.at = "failed"]
  <2>1. seen'.at = "failed" /\ seen'.before = seen.before
    BY <1>1, <1>6 DEF SeenCall
  <2>. QED
    BY <1>1, <2>1 DEF SeenInv, LastSeenRecent
<1>7. CASE rows = {} /\ Yesterday
  <2>1. \A r \in Row : Asked(r) => DayOf(r) # d
    BY <1>5, <1>7
  <2>. QED
    BY <1>1, <1>7, <2>1, YesterdayInv
<1>8. CASE rows # {} /\ seen' = [seen EXCEPT !.at = "done", !.ans = TextMax(rows)]
  <2>1. /\ seen'.at = "done" /\ seen'.ans = TextMax(rows)
        /\ seen'.before = seen.before /\ seen'.c = seen.c
        /\ seen'.first = seen.first /\ seen.before \subseteq Row
    BY <1>1, <1>8 DEF SeenCall
  <2>2. PICK a \in TextMax(rows) : TRUE
    BY <1>4, <1>8, TextMaxFinds
  <2>3. a \in rows /\ a.sec \in Nat /\ DayOf(a) = d /\ d \in Nat
    <3>1. a \in rows
      BY DEF TextMax
    <3>. QED
      BY <1>1, <1>4, <3>1, DayOfRow, DaysFinite
  <2>4. ASSUME NEW r \in Row, Asked(r) PROVE a.sec >= r.sec
    <3>1. r.sec \in Nat /\ DayOf(r) \in Nat /\ DayOf(r) <= d
      BY <1>1, <2>4, DayOfRow, DaysFinite DEF SeenInv
    <3>2. CASE DayOf(r) = d
      BY <1>4, <1>5, <2>2, <2>4, <3>2, TextMaxNewest
    <3>3. CASE DayOf(r) # d
      <4>1. ~(Day(a.sec) <= Day(r.sec))
        BY <2>3, <3>1, <3>3 DEF DayOf
      <4>2. ~(a.sec <= r.sec)
        BY <2>3, <3>1, <4>1, DayMonotone
      <4>. QED
        BY <2>3, <3>1, <4>2
    <3>. QED
      BY <3>2, <3>3
  <2>5. LastSeenRecent'
    <3> SUFFICES ASSUME NEW r \in seen.before, r.c = seen.c,
                        InLookback(DayOf(r))', ~Expired(DayOf(r))'
                 PROVE  a.sec >= r.sec
      BY <2>1, <2>2 DEF LastSeenRecent
    <3>1. r \in Row /\ Asked(r)
      BY <1>1, <2>1 DEF Asked, InLookback, Expired
    <3>. QED
      BY <2>4, <3>1
  <2>. QED
    BY <1>1, <2>1, <2>5 DEF SeenInv
<1>. QED
  BY <1>1, <1>6, <1>7, <1>8

LEMMA StepSeenInv == Inv /\ SeenInv /\ [Next]_vars => SeenInv'
<1> SUFFICES ASSUME Inv, SeenInv, [Next]_vars PROVE SeenInv'
  OBVIOUS
<1>1. UNCHANGED seen \/ LastSeen \/ seen' = NoSeen
  BY DEF Next, GetOrOpenDB, GetHandle, CreateFile, CreateTable, Migrate,
         Recreate, Insert, InsertBatch, BeginTx, Commit, InsertFails, Cleanup,
         CleanupOldDBs, CloseShard, RemoveFile, Vacuumed, Search, SearchStart,
         StatDate, Attach, Query, SearchEnd, Exit, Tick, vars
<1>2. Steady /\ Past'
  BY StepSteady, PastStays DEF SeenInv
<1>. QED
  BY <1>1, <1>2, SeenIdle, SeenWaits, LastSeenStartInv, StatDayInv, ReadShardInv
     DEF LastSeen, LastSeenEnd

(* The first day with a match has the newest one: what LastSeen answers is *)
(* not a tick older than any row of the container stored before the call   *)
(* on a day of the lookback, whatever retention and the writer do while it *)
(* scans (sqlite.go:629-674).                                              *)
THEOREM LastSeenAlwaysRecent == Spec => []LastSeenRecent
<1>1. Init => SeenInv
  BY DEF Init, SeenInv, LastSeenRecent, NoSeen, Past
<1>2. SeenInv => LastSeenRecent
  BY DEF SeenInv
<1>. QED
  BY <1>1, <1>2, Invariant, StepSeenInv, PTL DEF Spec

=============================================================================
