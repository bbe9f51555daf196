---------------------------- MODULE FollowerNum -----------------------------
(***************************************************************************)
(* The follower numbers of the anchors: the job that asks bilibili for     *)
(* them and upserts today's row (bilibili/task_follower_num.go), and the   *)
(* two cached queries of services/anchor_follower_num.go.                  *)
(*                                                                         *)
(* A number is the moment at which bilibili showed it.  The job is one     *)
(* goroutine, started when the process starts and every four hours; a run  *)
(* makes a few calls of at most ten seconds, so it never meets itself.     *)
(***************************************************************************)
EXTENDS JobClock

CONSTANTS Anchors,   \* anchors whose feature "follower" is on
          PastDays   \* the days a reader asks for, 30 by default

\* An anchor is a bid, no part of a key's name.
ASSUME FollowerAssumption == PastDays \in Nat \ {0} /\ "past" \notin Anchors

VARIABLES row,       \* row[a][d]: anchor_follower_num of anchor a and day d
          fetch,     \* FetchAndUpsertFollowerNum
          numCache, numFill,
          crossed    \* ghost: the days that ended while the job was running

numvars == <<row, fetch, numCache, numFill, crossed>>

\* The keys of the two queries: ...:past:<bid>:<days> and ...:<bid>:latest.
PastKey(a) == <<"past", a>>
LatestKey(a) == <<a, "latest">>
NumKeys == {PastKey(a) : a \in Anchors} \cup {LatestKey(a) : a \in Anchors}

Num == INSTANCE CacheData WITH Keys <- NumKeys, cached <- numCache, fill <- numFill

NoRow == LastMoment + 1
Off == [at |-> "off"]
Loop(day, left) == [at |-> "loop", today |-> day, left |-> left]
Held(at, day, left, a, num) ==
  [at |-> at, today |-> day, left |-> left, of |-> a, num |-> num]

NumInit ==
  /\ row = [a \in Anchors |-> [d \in Days |-> NoRow]]
  /\ fetch = Off
  /\ Num!CacheInit
  /\ crossed = {}

-----------------------------------------------------------------------------
(* FetchAndUpsertFollowerNum.                                              *)

\* The anchors and the cookies of a random account are read, and today is taken
\* for the whole run.  An error here, or no cookie, and the run never begins.
FetchStarts ==
  /\ fetch = Off
  /\ fetch' = Loop(Day(now), Anchors)
  /\ UNCHANGED <<row, numCache, numFill, crossed>>
\* FetchUserRelation: an error, or an answer without data, and on to the next.
FetchUserRelation ==
  /\ fetch.at = "loop"
  /\ \E a \in fetch.left :
       LET rest == fetch.left \ {a}
       IN \/ fetch' = Held("upsert", fetch.today, rest, a, now)
          \/ fetch' = Loop(fetch.today, rest)
  /\ UNCHANGED <<row, numCache, numFill, crossed>>

\* One row for an anchor and a day: the second number of a day replaces the first.
UpsertOn(day) ==
  /\ fetch.at = "upsert"
  /\ row' = [row EXCEPT ![fetch.of][day] = fetch.num]
  /\ fetch' = [fetch EXCEPT !.at = "unlink"]
  /\ numFill' = [k \in NumKeys |->
                   IF k \in {PastKey(fetch.of), LatestKey(fetch.of)}
                   THEN Num!Raced(numFill[k]) ELSE numFill[k]]
  /\ UNCHANGED <<numCache, crossed>>
UpsertOnNow == UpsertOn(Day(now))
Upsert == UpsertOn(fetch.today)
UpsertFails ==
  /\ fetch.at = "upsert"
  /\ fetch' = Loop(fetch.today, fetch.left)
  /\ UNCHANGED <<row, numCache, numFill, crossed>>

\* ScanUnlinkKeys with two patterns, of which the second names no key.
UnlinkedNone(a) == {<<a, "past">>} \cap NumKeys
Unlinked(a) == {PastKey(a), <<"latest", a>>} \cap NumKeys
\* The function runs as one step, or fails with a log line.
Unlink ==
  /\ fetch.at = "unlink"
  /\ \/ numCache' = [k \in NumKeys |->
                       IF k \in Unlinked(fetch.of) THEN Num!None ELSE numCache[k]]
     \/ numCache' = [k \in NumKeys |->
                       IF k \in {PastKey(fetch.of), LatestKey(fetch.of)}
                       THEN Num!Raced(numCache[k]) ELSE numCache[k]]
  /\ fetch' = Loop(fetch.today, fetch.left)
  /\ UNCHANGED <<row, numFill, crossed>>
FetchEnds ==
  /\ fetch.at = "loop" /\ fetch.left = {}
  /\ fetch' = Off
  /\ UNCHANGED <<row, numCache, numFill, crossed>>

-----------------------------------------------------------------------------
(* The two queries, each cached for defaultCacheTTL.                       *)

\* cnt_date >= now - pastDays: the column is a DATE, so the day of that moment counts
\* whole, and there are PastDays + 1 days, today among them.
InPast(d, t) == d <= Day(t) /\ Day(t) <= d + PastDays
PastRows(a) == [d \in Days |-> IF InPast(d, now) THEN row[a][d] ELSE NoRow]
\* The row of the latest day; zero if there is none.
LatestRow(a) ==
  LET days == {d \in Days : row[a][d] # NoRow}
  IN IF days = {} THEN NoRow ELSE row[a][CHOOSE d \in days : \A e \in days : e <= d]

GetPastFollowerNum(a) == Num!Miss(PastKey(a), PastRows(a), FALSE)
GetLatestFollowerNum(a) == Num!Miss(LatestKey(a), LatestRow(a), FALSE)
Query ==
  /\ \/ \E a \in Anchors : GetPastFollowerNum(a) \/ GetLatestFollowerNum(a)
     \/ \E k \in NumKeys : Num!CacheStep(k)
  /\ UNCHANGED <<row, fetch, crossed>>

-----------------------------------------------------------------------------
FetchStep == FetchUserRelation \/ Upsert \/ UpsertFails \/ Unlink \/ FetchEnds
NumStep == FetchStarts \/ FetchStep \/ Query

\* What a day that ends and a process that dies do to the numbers.
NumTick ==
  /\ crossed' = IF fetch # Off /\ Day(now') # Day(now) THEN crossed \cup {Day(now)} ELSE crossed
  /\ UNCHANGED <<row, fetch, numCache, numFill>>
NumDies ==
  /\ fetch' = Off
  /\ numCache' = [k \in NumKeys |->
                    IF fetch.at = "unlink" /\ k \in {PastKey(fetch.of), LatestKey(fetch.of)}
                    THEN Num!Raced(numCache[k]) ELSE numCache[k]]
  /\ numFill' = [k \in NumKeys |-> Num!None]
  /\ UNCHANGED <<row, crossed>>

NumNext ==
  \/ NumStep /\ UNCHANGED now
  \/ Tick /\ NumTick
  \/ NumDies /\ UNCHANGED now
NumSpec == now = 0 /\ NumInit /\ [][NumNext]_<<now, numvars>>

-----------------------------------------------------------------------------
(* Properties.                                                             *)

Unlinking(a) == fetch.at = "unlink" /\ fetch.of = a

\* A cached answer about the past days that no upsert overtook agrees with the
\* table on every day a reader may still ask for, save while the job that wrote
\* is about to clear it.
PastStaleOnlyByRace ==
  \A a \in Anchors :
    LET e == numCache[PastKey(a)]
    IN e # Num!None /\ ~e.raced /\ ~Unlinking(a) =>
         \A d \in Days : InPast(d, now) => e.data[d] = row[a][d]

\* A day's row holds a number bilibili showed on that day, or the next ones if a
\* run was under way when the day ended: nothing is ever recorded for a day to
\* come, and a day over in peace is not written any more.
NumberOfItsDay ==
  \A a \in Anchors, d \in Days :
    row[a][d] # NoRow =>
      Day(row[a][d]) = d \/ (Day(row[a][d]) > d /\ d \in crossed)

\* "Clear the anchor's follower caches; written in GetLatestFollowerNum": the
\* latest number a reader is served is as new as the table's, under the same
\* excuses as the past ones.
LatestIsCleared ==
  \A a \in Anchors :
    LET e == numCache[LatestKey(a)]
    IN e # Num!None /\ ~e.raced /\ ~Unlinking(a) => e.data = LatestRow(a)
=============================================================================
