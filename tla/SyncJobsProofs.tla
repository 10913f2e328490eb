--------------------------- MODULE SyncJobsProofs ---------------------------
(***************************************************************************)
(* For any number of rows, any horizon, overlap and length of chunks: no   *)
(* delivery and no correction falls out of the reach of the next import,   *)
(* and a job that is done has imported what its window promised.           *)
(***************************************************************************)
EXTENDS SyncJobs, SetFacts

Gap(t) == got[t] # source[t]
Running == {"import", "fetched", "stored", "forecast"}

\* The table is never ahead of EEG-Faktura, and that has nothing of the future.
Sound ==
    \A t \in Intervals : got[t] <= source[t] /\ (source[t] > 0 => t < now)

\* The worker's job is open, and no saved progress lies in the future.
Rows ==
    /\ mine # NoJob => mine \in Open
    /\ \A j \in Jobs : jobs[j].chunkEnd <= now

\* Neither do the window and the request under way.
Window ==
    /\ worker \in Running => upto <= now
    /\ worker \in {"fetched", "stored"} => chunk <= upto

\* How far the import has got: what is stored already lies before it.
Reached == IF worker = "stored" THEN chunk ELSE start

\* What is missing behind that came after the window had been determined, and so
\* lies in the overlap of the next one.
BehindAt(t) == Gap(t) => t >= Reached \/ t >= upto - OVERLAP
Behind == worker \in Running => \A t \in Intervals : BehindAt(t)

\* NothingOutOfReach without maxima: an interval is not older than the overlap
\* before anything measured and before any progress saved by an open job.
Within(t) ==
    /\ \A m \in Measured : t >= m - OVERLAP
    /\ \A j \in Open : jobs[j].chunkEnd # NoTime => t >= jobs[j].chunkEnd - OVERLAP

InReach == \A t \in Intervals : Gap(t) => Within(t)

\* An answer is what EEG-Faktura had when it was asked: newer than the table, and
\* overtaken by late deliveries only.
AnsweredAt(t) ==
    /\ payload[t] > 0 => t \in start..(chunk - 1) /\ got[t] <= payload[t] /\ payload[t] <= source[t]
    /\ t \in start..(chunk - 1) =>
          /\ promised[t] <= payload[t]
          /\ payload[t] # source[t] => t >= upto - OVERLAP /\ Within(t)
Answered == worker = "fetched" => \A t \in Intervals : AnsweredAt(t)

\* What the window promised is in the table up to where the import has got.
KeptAt(t) ==
    /\ promised[t] <= source[t]
    /\ promised[t] > 0 => t < upto
    /\ got[t] < promised[t] => t >= Reached /\ worker # "forecast"
Kept == worker \in Running => \A t \in Intervals : KeptAt(t)

SyncInv == TypeOK /\ Sound /\ Rows /\ Window /\ InReach /\ Behind /\ Answered /\ Kept

-----------------------------------------------------------------------------
(***************************************************************************)
(* Where an import starts and ends.                                        *)
(***************************************************************************)

\* The last interval measured, and it with the progress of a job.
LEMMA LastMeasured ==
    ASSUME TypeOK, NEW S, S \in {Measured, Delivered}, S # {}
    PROVE  Max(S) \in S /\ (\A m \in S : m <= Max(S)) /\ Min(S) \in S /\ \A m \in S : Min(S) <= m
<1>1. S \in SUBSET Int /\ (\A m \in S : m <= HORIZON) /\ \A m \in S : 0 <= m
  BY SyncAssumption DEF Measured, Delivered, Intervals
<1>2. HORIZON \in Int /\ 0 \in Int
  BY SyncAssumption
<1> QED
  BY <1>1, <1>2, MaxFact, MinFact

LEMMA LastProgress ==
    ASSUME TypeOK, NEW j \in Jobs
    PROVE  LET S == {jobs[j].chunkEnd} \cup Measured
           IN  Max(S) \in S /\ \A m \in S : m <= Max(S)
<1> DEFINE S == {jobs[j].chunkEnd} \cup Measured
<1>1. S \in SUBSET Int /\ S # {} /\ \A m \in S : m <= HORIZON
  BY SyncAssumption DEF Measured, Intervals, TypeOK, JobRow, NoTime
<1>2. HORIZON \in Int
  BY SyncAssumption
<1> QED
  BY <1>1, <1>2, MaxFact

\* Nothing missing lies before the start of any open job's window, and everything
\* missing that is there lies before its end.
LEMMA WindowFacts ==
    ASSUME TypeOK, Sound, Rows, InReach, NEW j \in Open, TakesAll(j) => Delivered # {}
    PROVE  /\ WindowStart(j) \in Int /\ WindowStart(j) <= HORIZON
           /\ WindowEnd(j) \in Int /\ WindowEnd(j) <= now /\ 0 <= WindowEnd(j)
           /\ \A t \in Intervals : Gap(t) => t >= WindowStart(j) /\ t < WindowEnd(j)
<1> USE SyncAssumption
<1>1. j \in Jobs /\ jobs[j].chunkEnd \in NoTime..HORIZON /\ now \in 0..HORIZON
  BY DEF Open, TypeOK, JobRow
<1>2. \A t \in Intervals : t \in Int /\ 0 <= t /\ t < HORIZON
  BY DEF Intervals
<1>3. \A t \in Intervals : Gap(t) => t \in Delivered
  BY DEF Gap, Sound, Delivered, TypeOK, Versions
<1>4. \A t \in Delivered : t \in Intervals /\ t < now
  BY DEF Sound, Delivered
<1>5. CASE TakesAll(j)
  <2>1. Delivered # {}
    BY <1>5
  <2>2. /\ Max(Delivered) \in Delivered /\ \A m \in Delivered : m <= Max(Delivered)
        /\ Min(Delivered) \in Delivered /\ \A m \in Delivered : Min(Delivered) <= m
    BY <2>1, LastMeasured
  <2>3. WindowStart(j) = Min(Delivered) /\ WindowEnd(j) = Min({now, Max(Delivered) + 1})
    BY <1>5 DEF WindowStart, WindowEnd
  <2>4. WindowEnd(j) = IF now <= Max(Delivered) + 1 THEN now ELSE Max(Delivered) + 1
    BY <1>1, <1>2, <1>4, <2>2, <2>3, OfTwo
  <2> QED
    BY <1>1, <1>2, <1>3, <1>4, <2>2, <2>3, <2>4
<1>6. CASE ~TakesAll(j) /\ jobs[j].chunkEnd = NoTime
  <2>1. Measured # {}
    BY <1>6 DEF TakesAll
  <2>2. Max(Measured) \in Measured
    BY <2>1, LastMeasured
  <2>3. WindowStart(j) = Max(Measured) - OVERLAP /\ WindowEnd(j) = now
    BY <1>6 DEF WindowStart, WindowEnd
  <2>4. Max(Measured) \in Intervals
    BY <2>2 DEF Measured
  <2> QED
    BY <1>1, <1>2, <1>3, <1>4, <2>2, <2>3, <2>4 DEF InReach, Within
<1>7. CASE jobs[j].chunkEnd # NoTime
  <2> DEFINE last == Max({jobs[j].chunkEnd} \cup Measured)
  <2>1. last \in {jobs[j].chunkEnd} \cup Measured
    BY <1>1, LastProgress
  <2>2. WindowStart(j) = last - OVERLAP /\ WindowEnd(j) = now
    BY <1>7 DEF WindowStart, WindowEnd, TakesAll, ResumeSince
  <2>3. last \in Int /\ last <= HORIZON
    BY <1>1, <1>2, <2>1 DEF Measured, NoTime
  <2>4. \A t \in Intervals : Gap(t) => t >= last - OVERLAP
    BY <1>7, <2>1 DEF InReach, Within
  <2> HIDE DEF last
  <2> QED
    BY <1>1, <1>2, <1>3, <1>4, <2>2, <2>3, <2>4
<1> QED
  BY <1>5, <1>6, <1>7

\* So the invariant says what the property says.
LEMMA ReachEnough == SyncInv => NothingOutOfReach
<1> SUFFICES ASSUME SyncInv, NEW t \in Intervals, Gap(t)
             PROVE  /\ Measured # {} => t >= Max(Measured) - OVERLAP
                    /\ \A j \in Open : t >= WindowStart(j)
  BY DEF NothingOutOfReach, Gap
<1>1. Measured # {} => t >= Max(Measured) - OVERLAP
  BY LastMeasured DEF SyncInv, InReach, Within
<1>2. Delivered # {}
  BY DEF SyncInv, Gap, Sound, Delivered, TypeOK, Versions
<1> QED
  BY <1>1, <1>2, WindowFacts DEF SyncInv

-----------------------------------------------------------------------------
(***************************************************************************)
(* Types.                                                                  *)
(***************************************************************************)

\* What a worker without a job has.
LEMMA LeavesType ==
    ASSUME TypeOK, NEW w \in Idle, Leaves(w)
    PROVE  /\ worker' \in Idle /\ mine' = NoJob
           /\ start' \in 0..HORIZON /\ upto' \in 0..HORIZON /\ chunk' \in 0..HORIZON
           /\ payload' \in [Intervals -> Versions] /\ promised' \in [Intervals -> Versions]
BY SyncAssumption DEF Leaves, Nothing, Versions

\* A new row goes where none is open.
LEMMA InsertedFacts ==
    ASSUME TypeOK, NEW full \in BOOLEAN, Inserted(full)
    PROVE  \E j \in Jobs \ Open : jobs' = [jobs EXCEPT ![j] =
               [phase |-> "queued", full |-> full, alive |-> FALSE, chunkEnd |-> NoTime]]
<1>1. (CHOOSE j \in Jobs : j \notin Open) \in Jobs \ Open
  BY DEF Inserted
<1> QED
  BY <1>1 DEF Inserted

LEMMA InsertedType ==
    ASSUME TypeOK, NEW full \in BOOLEAN, Inserted(full)
    PROVE  jobs' \in [Jobs -> JobRow]
<1>1. [phase |-> "queued", full |-> full, alive |-> FALSE, chunkEnd |-> NoTime] \in JobRow
  BY SyncAssumption DEF JobRow, Active, NoTime
<1> QED
  BY <1>1, InsertedFacts DEF TypeOK

\* A row keeps its type when it changes hands.
LEMMA HandedOn ==
    ASSUME TypeOK, NEW i \in Jobs, NEW p \in Active, NEW b \in BOOLEAN,
           jobs' = [jobs EXCEPT ![i].alive = b, ![i].phase = p]
    PROVE  jobs' \in [Jobs -> JobRow]
<1>1. jobs \in [Jobs -> JobRow]
  BY DEF TypeOK
<1>2. [jobs[i] EXCEPT !.alive = b, !.phase = p] \in JobRow
  BY <1>1 DEF JobRow
<1>3. jobs' = [jobs EXCEPT ![i] = [jobs[i] EXCEPT !.alive = b, !.phase = p]]
  BY <1>1
<1> QED
  BY <1>1, <1>2, <1>3

LEMMA TypesInitially == Init => TypeOK
<1> SUFFICES ASSUME Init PROVE TypeOK
  OBVIOUS
<1>1. Nothing \in [Intervals -> Versions]
  BY DEF Nothing, Versions
<1>2. Closed \in JobRow
  BY SyncAssumption DEF Closed, JobRow, NoTime
<1>3. jobs \in [Jobs -> JobRow] /\ source = Nothing /\ got = Nothing /\ payload = Nothing /\ promised = Nothing
  BY <1>2 DEF Init
<1>4. now = 0 /\ start = 0 /\ upto = 0 /\ chunk = 0 /\ 0 \in 0..HORIZON
  BY SyncAssumption DEF Init
<1>5. worker \in Idle /\ mine = NoJob /\ login = "none" /\ stop \in BOOLEAN
  BY DEF Init, Idle
<1> QED
  BY <1>1, <1>3, <1>4, <1>5 DEF TypeOK

LEMMA TypesStep == SyncInv /\ [Next]_vars => TypeOK'
<1> SUFFICES ASSUME SyncInv, [Next]_vars PROVE TypeOK'
  OBVIOUS
<1> USE SyncAssumption DEF SyncInv
<1> USE DEF JobRow, Active, Idle, Versions, NoTime, dataVars, importVars
<1>1. CASE TimePasses
  BY <1>1 DEF TimePasses, TypeOK
<1>2. ASSUME NEW t \in Intervals, Delivers(t) PROVE TypeOK'
  BY <1>2 DEF Delivers, TypeOK
<1>3. CASE LoginChecks \/ LoginCounts
  BY <1>3 DEF LoginChecks, LoginCounts, TypeOK
<1>4. CASE LoginInserts
  <2>1. (login = "empty") \in BOOLEAN /\ Inserted(login = "empty")
    BY <1>4 DEF LoginInserts
  <2> HIDE DEF Active, Idle
  <2>2. jobs' \in [Jobs -> JobRow]
    BY <2>1, InsertedType
  <2> QED
    BY <1>4, <2>2 DEF LoginInserts, TypeOK
<1>5. CASE MaintenanceChecks
  BY <1>5 DEF MaintenanceChecks, TypeOK
<1>6. CASE MaintenanceInserts
  <2>1. jobs' \in [Jobs -> JobRow]
    BY <1>6, InsertedType DEF MaintenanceInserts
  <2> QED
    BY <1>6, <2>1 DEF MaintenanceInserts, TypeOK
<1>7. ASSUME NEW j \in Jobs, Claim(j) PROVE TypeOK'
  <2>1. jobs[j].phase \in Active /\ (IF jobs[j].phase = "queued" THEN "masterdata" ELSE jobs[j].phase) \in Active
    BY <1>7 DEF Claim, Claimable, Open
  <2>2. jobs' = [jobs EXCEPT ![j].alive = TRUE,
                   ![j].phase = IF jobs[j].phase = "queued" THEN "masterdata" ELSE jobs[j].phase]
    BY <1>7 DEF Claim, TypeOK
  <2> HIDE DEF JobRow, Active
  <2>3. jobs' \in [Jobs -> JobRow]
    BY <2>1, <2>2, HandedOn
  <2> QED
    BY <1>7, <2>3 DEF Claim, TypeOK
<1>8. CASE ImportMasterdata
  <2>1. mine \in Jobs
    BY <1>8 DEF ImportMasterdata, TypeOK
  <2>2. UNCHANGED <<now, source, got, login, stop>>
    BY <1>8 DEF ImportMasterdata
  <2>3. CASE Release("energy")
    <3>1. jobs' \in [Jobs -> JobRow]
      BY <2>1, <2>3, HandedOn DEF Release
    <3> QED
      BY <2>2, <2>3, <3>1, LeavesType DEF Release, TypeOK
  <2>4. CASE ~Release("energy")
    <3>1. /\ jobs' = [jobs EXCEPT ![mine].alive = TRUE, ![mine].phase = "energy"]
          /\ worker' = "window" /\ UNCHANGED importVars
      BY <1>8, <2>4 DEF ImportMasterdata
    <3>2. jobs' \in [Jobs -> JobRow]
      BY <2>1, <3>1, HandedOn
    <3> QED
      BY <1>8, <2>1, <2>2, <3>1, <3>2 DEF ImportMasterdata, TypeOK
  <2> QED
    BY <2>3, <2>4
<1>9. CASE DetermineWindow
  <2>1. mine \in Open
    BY <1>9 DEF DetermineWindow, TypeOK, Rows
  <2>2. /\ WindowStart(mine) \in Int /\ WindowStart(mine) <= HORIZON
        /\ WindowEnd(mine) \in Int /\ WindowEnd(mine) <= now /\ 0 <= WindowEnd(mine)
    BY <1>9, <2>1, WindowFacts DEF DetermineWindow
  <2>3. /\ start' = Max({0, WindowStart(mine)}) /\ upto' = WindowEnd(mine)
        /\ now \in 0..HORIZON
    BY <1>9 DEF DetermineWindow, TypeOK
  <2>4. start' = IF 0 >= WindowStart(mine) THEN 0 ELSE WindowStart(mine)
    BY <2>2, <2>3, OfTwo
  <2>5. start' \in 0..HORIZON /\ upto' \in 0..HORIZON
    BY <2>2, <2>3, <2>4
  <2>6. promised' \in [Intervals -> Versions]
    BY <1>9 DEF DetermineWindow, TypeOK
  <2> QED
    BY <1>9, <2>5, <2>6 DEF DetermineWindow, TypeOK
<1>10. CASE RequestChunk
  <2>1. PICK days \in 1..CHUNK_MAX : chunk' = Min({start + days, upto})
    BY <1>10 DEF RequestChunk
  <2>2. chunk' \in 0..HORIZON
    BY <2>1, OfTwo DEF TypeOK
  <2>3. payload' \in [Intervals -> Versions]
    BY <1>10 DEF RequestChunk, TypeOK
  <2> QED
    BY <1>10, <2>2, <2>3 DEF RequestChunk, TypeOK
<1>11. CASE Interrupted
  <2>1. mine \in Jobs
    BY <1>11 DEF Interrupted, TypeOK
  <2>2. jobs' \in [Jobs -> JobRow]
    BY <1>11, <2>1, HandedOn DEF Interrupted, Release
  <2> QED
    BY <1>11, <2>2, LeavesType DEF Interrupted, Release, TypeOK
<1>12. CASE StoreChunk
  BY <1>12 DEF StoreChunk, TypeOK, Nothing
<1>13. CASE SaveProgress
  <2>1. mine \in Jobs /\ jobs \in [Jobs -> JobRow] /\ chunk \in NoTime..HORIZON /\ chunk \in 0..HORIZON
    BY <1>13 DEF SaveProgress, TypeOK
  <2>2. jobs' = [jobs EXCEPT ![mine] = [jobs[mine] EXCEPT !.alive = TRUE, !.chunkEnd = chunk]]
    BY <1>13, <2>1 DEF SaveProgress
  <2>3. jobs' \in [Jobs -> JobRow]
    BY <2>1, <2>2
  <2> QED
    BY <1>13, <2>1, <2>3 DEF SaveProgress, TypeOK
<1>14. CASE Imported
  BY <1>14 DEF Imported, TypeOK
<1>15. CASE Finish
  BY <1>15, LeavesType DEF Finish, TypeOK, Closed
<1>16. CASE Fail
  BY <1>16, LeavesType DEF Fail, TypeOK, Closed
<1>17. CASE Exit
  BY <1>17 DEF Exit, TypeOK
<1>18. CASE StopSignal
  BY <1>18 DEF StopSignal, TypeOK
<1>19. CASE Crash
  BY <1>19, LeavesType DEF Crash, TypeOK
<1>20. CASE Starts
  BY <1>20 DEF Starts, TypeOK
<1>21. ASSUME NEW j \in Jobs, GoesStale(j) PROVE TypeOK'
  BY <1>21 DEF GoesStale, TypeOK
<1>22. CASE UNCHANGED vars
  BY <1>22 DEF vars, TypeOK
<1> QED
  BY <1>1, <1>2, <1>3, <1>4, <1>5, <1>6, <1>7, <1>8, <1>9, <1>10, <1>11, <1>12, <1>13, <1>14,
     <1>15, <1>16, <1>17, <1>18, <1>19, <1>20, <1>21, <1>22 DEF Next, WorkerStep

-----------------------------------------------------------------------------
(***************************************************************************)
(* Rows, times and what is in reach.                                       *)
(***************************************************************************)

\* The rows a step may touch: progress is saved by SaveProgress only, rows are
\* opened by an insertion, and only the worker closes one, its own.
RowsKept ==
    /\ \A j \in Jobs : j \in Open' /\ jobs'[j].chunkEnd # NoTime => j \in Open
    /\ \A j \in Jobs : jobs'[j].chunkEnd \in {NoTime, jobs[j].chunkEnd}

LEMMA InsertedKeeps ==
    ASSUME TypeOK, NEW full \in BOOLEAN, Inserted(full)
    PROVE  RowsKept /\ Open \subseteq Open'
<1>1. PICK i \in Jobs \ Open : jobs' = [jobs EXCEPT ![i] =
               [phase |-> "queued", full |-> full, alive |-> FALSE, chunkEnd |-> NoTime]]
  BY InsertedFacts
<1>2. jobs \in [Jobs -> JobRow] /\ jobs'[i].chunkEnd = NoTime /\ \A j \in Jobs : j # i => jobs'[j] = jobs[j]
  BY <1>1 DEF TypeOK
<1> QED
  BY <1>2 DEF RowsKept, Open

LEMMA RowsStep == SyncInv /\ TypeOK' /\ [Next]_vars /\ ~SaveProgress => RowsKept /\ (mine' # NoJob => mine' \in Open')
<1> SUFFICES ASSUME SyncInv, TypeOK', [Next]_vars, ~SaveProgress
             PROVE  RowsKept /\ (mine' # NoJob => mine' \in Open')
  OBVIOUS
<1> USE SyncAssumption DEF SyncInv
<1>0. jobs \in [Jobs -> JobRow] /\ (mine # NoJob => mine \in Open /\ mine \in Jobs)
  BY DEF TypeOK, Rows, Open
<1>1. CASE UNCHANGED <<jobs, mine>>
  BY <1>0, <1>1 DEF RowsKept, Open
<1>2. CASE LoginInserts \/ MaintenanceInserts
  <2>1. (login = "empty") \in BOOLEAN /\ FALSE \in BOOLEAN
    OBVIOUS
  <2>2. RowsKept /\ Open \subseteq Open'
    BY <1>2, <2>1, InsertedKeeps DEF LoginInserts, MaintenanceInserts
  <2>3. UNCHANGED mine
    BY <1>2 DEF LoginInserts, MaintenanceInserts, importVars
  <2> QED
    BY <1>0, <2>2, <2>3
<1>3. ASSUME NEW i \in Jobs, Claim(i) PROVE RowsKept /\ (mine' # NoJob => mine' \in Open')
  <2>1. i \in Open /\ mine' = i
    BY <1>3 DEF Claim, Claimable
  <2>2. jobs' = [jobs EXCEPT ![i] = [jobs[i] EXCEPT !.alive = TRUE,
                     !.phase = IF @ = "queued" THEN "masterdata" ELSE @]]
    BY <1>0, <1>3 DEF Claim
  <2>3. jobs[i] \in JobRow /\ jobs[i].phase \in Active
    BY <1>0, <2>1 DEF Open
  <2>4. /\ jobs'[i].chunkEnd = jobs[i].chunkEnd /\ jobs'[i].phase \in Active
        /\ \A j \in Jobs : j # i => jobs'[j] = jobs[j]
    BY <1>0, <2>2, <2>3 DEF JobRow, Active
  <2> QED
    BY <1>0, <2>1, <2>3, <2>4 DEF RowsKept, Open
<1>4. ASSUME NEW i \in Jobs, GoesStale(i) PROVE RowsKept /\ (mine' # NoJob => mine' \in Open')
  <2>1. jobs' = [jobs EXCEPT ![i] = [jobs[i] EXCEPT !.alive = FALSE]] /\ UNCHANGED mine
    BY <1>0, <1>4 DEF GoesStale, importVars
  <2>2. \A j \in Jobs : jobs'[j].chunkEnd = jobs[j].chunkEnd /\ jobs'[j].phase = jobs[j].phase
    BY <1>0, <2>1 DEF JobRow
  <2> QED
    BY <1>0, <2>1, <2>2 DEF RowsKept, Open
<1>5. ASSUME mine \in Jobs, mine \in Open, NEW p \in Active, NEW b \in BOOLEAN,
             jobs' = [jobs EXCEPT ![mine].alive = b, ![mine].phase = p], mine' \in {mine, NoJob}
      PROVE  RowsKept /\ (mine' # NoJob => mine' \in Open')
  <2>1. jobs' = [jobs EXCEPT ![mine] = [jobs[mine] EXCEPT !.alive = b, !.phase = p]]
    BY <1>0, <1>5
  <2>2. /\ jobs'[mine].chunkEnd = jobs[mine].chunkEnd /\ jobs'[mine].phase = p
        /\ \A j \in Jobs : j # mine => jobs'[j] = jobs[j]
    BY <1>0, <1>5, <2>1 DEF JobRow
  <2> QED
    BY <1>0, <1>5, <2>2 DEF RowsKept, Open
<1>6. CASE Finish \/ Fail
  <2>1. jobs' = [jobs EXCEPT ![mine] = Closed] /\ mine' = NoJob
    BY <1>6 DEF Finish, Fail, Leaves
  <2>2. mine \in Jobs
    BY <1>6 DEF Finish, Fail, TypeOK, Idle
  <2>3. \A j \in Jobs : jobs'[j] = IF j = mine THEN Closed ELSE jobs[j]
    BY <1>0, <2>1, <2>2
  <2> QED
    BY <1>0, <2>1, <2>2, <2>3 DEF RowsKept, Open, Closed, Active, JobRow
<1>7. CASE Crash
  BY <1>0, <1>7 DEF Crash, Leaves, RowsKept, Open
<1>8. CASE ImportMasterdata \/ Interrupted
  <2>1. mine \in Jobs /\ mine \in Open
    BY <1>8, <1>0 DEF ImportMasterdata, Interrupted, TypeOK, Idle
  <2>2. CASE Release("energy")
    BY <1>5, <2>1, <2>2 DEF Release, Leaves, Active
  <2>3. CASE ~Release("energy")
    <3>1. jobs' = [jobs EXCEPT ![mine].alive = TRUE, ![mine].phase = "energy"] /\ UNCHANGED mine
      BY <1>8, <2>3 DEF ImportMasterdata, Interrupted, importVars
    <3> QED
      BY <1>5, <2>1, <3>1 DEF Active
  <2> QED
    BY <2>2, <2>3
<1>9. CASE TimePasses \/ (\E t \in Intervals : Delivers(t)) \/ LoginChecks \/ LoginCounts \/ MaintenanceChecks
  BY <1>1, <1>9 DEF TimePasses, Delivers, LoginChecks, LoginCounts, MaintenanceChecks, importVars
<1>10. CASE DetermineWindow \/ RequestChunk \/ StoreChunk \/ Imported
  BY <1>1, <1>10 DEF DetermineWindow, RequestChunk, StoreChunk, Imported, importVars
<1>11. CASE Exit \/ StopSignal \/ Starts \/ UNCHANGED vars
  BY <1>1, <1>11 DEF Exit, StopSignal, Starts, importVars, vars
<1> QED
  BY <1>2, <1>3, <1>4, <1>6, <1>7, <1>8, <1>9, <1>10, <1>11 DEF Next, WorkerStep

\* Saving progress moves the worker's row only, to the end of its chunk.
LEMMA SavedRow ==
    ASSUME SyncInv, SaveProgress
    PROVE  /\ Open' = Open /\ mine \in Open /\ mine' = mine /\ start' = chunk
           /\ jobs'[mine].chunkEnd = chunk /\ \A j \in Jobs : j # mine => jobs'[j] = jobs[j]
<1>1. mine \in Jobs /\ mine \in Open /\ jobs \in [Jobs -> JobRow]
  BY DEF SyncInv, SaveProgress, TypeOK, Rows, Idle
<1>2. jobs' = [jobs EXCEPT ![mine] = [jobs[mine] EXCEPT !.alive = TRUE, !.chunkEnd = chunk]]
  BY <1>1 DEF SaveProgress
<1>3. /\ jobs'[mine].chunkEnd = chunk /\ jobs'[mine].phase = jobs[mine].phase
      /\ \A j \in Jobs : j # mine => jobs'[j] = jobs[j]
  BY <1>1, <1>2 DEF JobRow
<1> QED
  BY <1>1, <1>3 DEF Open, SaveProgress

LEMMA TimesStep == SyncInv /\ TypeOK' /\ [Next]_vars => Sound' /\ Rows' /\ Window'
<1> SUFFICES ASSUME SyncInv, TypeOK', [Next]_vars PROVE Sound' /\ Rows' /\ Window'
  OBVIOUS
<1> USE SyncAssumption DEF SyncInv
<1>1. /\ now \in 0..HORIZON /\ now' \in 0..HORIZON /\ now <= now'
      /\ upto \in 0..HORIZON /\ chunk \in 0..HORIZON
  <2>1. now' \in {now, now + 1}
    BY DEF Next, vars, dataVars, WorkerStep, TimePasses, Delivers, LoginChecks, LoginCounts, LoginInserts,
           MaintenanceChecks, MaintenanceInserts, Claim, ImportMasterdata, DetermineWindow,
           RequestChunk, Interrupted, StoreChunk, SaveProgress, Imported, Finish, Fail, Exit,
           StopSignal, Crash, Starts, GoesStale
  <2> QED
    BY <2>1 DEF TypeOK
\* EEG-Faktura has what has ended, and the table what it answered.
<1>2. Sound'
  <2> SUFFICES ASSUME NEW t \in Intervals
               PROVE  got'[t] <= source'[t] /\ (source'[t] > 0 => t < now')
    BY DEF Sound, Intervals
  <2>1. /\ got[t] \in 0..2 /\ source[t] \in 0..2 /\ payload[t] \in 0..2 /\ t \in Nat
        /\ got[t] <= source[t] /\ (source[t] > 0 => t < now)
    BY DEF TypeOK, Sound, Versions, Intervals
  <2>2. CASE UNCHANGED <<got, source>>
    BY <1>1, <2>1, <2>2
  <2>3. ASSUME NEW i \in Intervals, Delivers(i) PROVE got'[t] <= source'[t] /\ (source'[t] > 0 => t < now')
    <3>1. got' = got /\ now' = now /\ i < now /\ source'[t] = IF t = i THEN source[t] + 1 ELSE source[t]
      BY <2>3 DEF Delivers, dataVars, TypeOK
    <3> QED
      BY <1>1, <2>1, <3>1
  <2>4. CASE StoreChunk
    <3>1. UNCHANGED <<now, source>> /\ got'[t] = IF payload[t] > 0 THEN payload[t] ELSE got[t]
      BY <2>4 DEF StoreChunk, dataVars
    <3>2. payload[t] > 0 => payload[t] <= source[t]
      BY <2>4 DEF StoreChunk, Answered, AnsweredAt
    <3> QED
      BY <1>1, <2>1, <3>1, <3>2
  <2> QED
    BY <2>2, <2>3, <2>4 DEF Next, vars, dataVars, WorkerStep, TimePasses, LoginChecks, LoginCounts, LoginInserts,
           MaintenanceChecks, MaintenanceInserts, Claim, ImportMasterdata, DetermineWindow,
           RequestChunk, Interrupted, SaveProgress, Imported, Finish, Fail, Exit,
           StopSignal, Crash, Starts, GoesStale
\* Progress is a time that has passed.
<1>3. Rows'
  <2>1. CASE SaveProgress
    <3>1. chunk <= now
      BY <1>1, <2>1 DEF SaveProgress, Window, Running
    <3> QED
      BY <1>1, <2>1, <3>1, SavedRow DEF Rows, TypeOK, JobRow, NoTime
  <2>2. CASE ~SaveProgress
    <3>1. RowsKept /\ (mine' # NoJob => mine' \in Open')
      BY <2>2, RowsStep
    <3>2. \A j \in Jobs : jobs[j].chunkEnd \in NoTime..HORIZON /\ jobs[j].chunkEnd <= now
      BY DEF TypeOK, JobRow, Rows
    <3>3. \A j \in Jobs : jobs'[j].chunkEnd <= now'
      BY <1>1, <3>1, <3>2 DEF RowsKept, NoTime
    <3> QED
      BY <3>1, <3>3 DEF Rows
  <2> QED
    BY <2>1, <2>2
\* A window ends where it was determined, a request within it.
<1>4. Window'
  <2>1. CASE worker' \notin Running
    BY <2>1 DEF Window, Running
  <2>2. CASE DetermineWindow
    <3>1. mine \in Open /\ (TakesAll(mine) => Delivered # {})
      BY <2>2 DEF DetermineWindow, TypeOK, Rows, Idle
    <3>2. upto' <= now /\ upto' \in Int
      BY <2>2, <3>1, WindowFacts DEF DetermineWindow
    <3> QED
      BY <1>1, <2>2, <3>2 DEF Window, DetermineWindow, dataVars
  <2>3. CASE RequestChunk
    <3>1. PICK days \in 1..CHUNK_MAX : chunk' = Min({start + days, upto})
      BY <2>3 DEF RequestChunk
    <3>2. chunk' <= upto
      BY <3>1, OfTwo DEF TypeOK
    <3> QED
      BY <1>1, <2>3, <3>2 DEF Window, RequestChunk, Running, dataVars
  <2>4. CASE worker' \in Running /\ ~DetermineWindow /\ ~RequestChunk
    <3>1. /\ upto' = upto /\ worker \in Running
          /\ worker' \in {"fetched", "stored"} => chunk' = chunk /\ worker \in {"fetched", "stored"}
      BY <2>4 DEF Next, vars, importVars, WorkerStep, TimePasses, Delivers, LoginChecks, LoginCounts, LoginInserts,
           MaintenanceChecks, MaintenanceInserts, Claim, ImportMasterdata, Release, Leaves, Interrupted,
           StoreChunk, SaveProgress, Imported, Finish, Fail, Exit, StopSignal, Crash, Starts, GoesStale,
           Running
    <3> QED
      BY <1>1, <3>1 DEF Window
  <2> QED
    BY <2>1, <2>2, <2>3, <2>4
<1> QED
  BY <1>2, <1>3, <1>4

\* The state a proof about one interval reads, in numbers.
LEMMA Numbers ==
    ASSUME TypeOK
    PROVE  /\ now \in 0..HORIZON /\ upto \in 0..HORIZON /\ chunk \in 0..HORIZON /\ start \in 0..HORIZON
           /\ HORIZON \in Nat /\ OVERLAP \in Nat /\ LATE \in Nat /\ LATE <= OVERLAP
           /\ \A t \in Intervals : /\ got[t] \in 0..2 /\ source[t] \in 0..2 /\ payload[t] \in 0..2
                                    /\ promised[t] \in 0..2 /\ t \in Nat
           /\ \A j \in Jobs : jobs[j].chunkEnd \in Int
BY SyncAssumption DEF TypeOK, Versions, Intervals, JobRow, NoTime

\* What becomes missing by a delivery is young; nothing else becomes missing.
LEMMA NewGap ==
    ASSUME SyncInv, NEW t \in Intervals, NEW i \in Intervals, Delivers(i), Gap(t)'
    PROVE  Gap(t) \/ t >= now - OVERLAP
<1>1. got' = got /\ (t # i => source'[t] = source[t]) /\ now <= i + LATE
  BY DEF SyncInv, Delivers, TypeOK
<1> QED
  BY <1>1, Numbers DEF Gap, SyncInv

\* After a chunk is stored, what is missing lies behind it or in the overlap.
LEMMA StoredGap ==
    ASSUME SyncInv, StoreChunk, NEW t \in Intervals, Gap(t)'
    PROVE  t >= chunk \/ t >= upto - OVERLAP
<1> USE DEF SyncInv
<1>1. source'[t] = source[t] /\ got'[t] = (IF payload[t] > 0 THEN payload[t] ELSE got[t]) /\ worker = "fetched"
  BY DEF StoreChunk, dataVars
<1>2. /\ payload[t] > 0 => t \in start..(chunk - 1)
      /\ t \in start..(chunk - 1) /\ payload[t] # source[t] => t >= upto - OVERLAP
  BY <1>1 DEF Answered, AnsweredAt
<1>3. Gap(t) => t >= start \/ t >= upto - OVERLAP
  BY <1>1 DEF Behind, BehindAt, Running, Reached
<1>4. got[t] <= source[t]
  BY DEF Sound
<1>5. CASE payload[t] > 0
  BY <1>1, <1>2, <1>5 DEF Gap
<1>6. CASE ~(payload[t] > 0)
  BY <1>1, <1>2, <1>3, <1>4, <1>6, Numbers DEF Gap
<1> QED
  BY <1>5, <1>6

\* Time, rows and table unchanged, an interval stays within reach.
LEMMA WithinStays ==
    ASSUME NEW t, Within(t), RowsKept, Measured' = Measured
    PROVE  Within(t)'
BY DEF Within, RowsKept, Open

\* So does a young one, whatever is measured or saved.
LEMMA YoungIsWithin ==
    ASSUME SyncInv, NEW t \in Intervals, t >= now - OVERLAP
    PROVE  Within(t)
<1>1. \A m \in Measured : m \in Nat /\ m < now
  BY Numbers DEF Measured, Sound, SyncInv
<1>2. \A j \in Open : jobs[j].chunkEnd <= now /\ j \in Jobs
  BY DEF Rows, Open, SyncInv
<1> QED
  BY <1>1, <1>2, Numbers DEF Within, SyncInv

LEMMA ReachStep == SyncInv /\ TypeOK' /\ [Next]_vars => InReach'
<1> SUFFICES ASSUME SyncInv, TypeOK', [Next]_vars, NEW t \in Intervals, Gap(t)' PROVE Within(t)'
  BY DEF InReach, Intervals
<1> USE DEF SyncInv
\* A delivery is younger than the overlap.
<1>1. ASSUME NEW i \in Intervals, Delivers(i) PROVE Within(t)'
  <2>1. RowsKept /\ Measured' = Measured
    BY <1>1, RowsStep DEF Delivers, Measured, SaveProgress
  <2>2. Within(t)
    BY <1>1, NewGap, YoungIsWithin DEF InReach
  <2> QED
    BY <2>1, <2>2, WithinStays
\* What is stored lies before the end of the chunk.
<1>2. CASE StoreChunk
  <2>1. jobs' = jobs /\ Open' = Open /\ UNCHANGED <<now, source, upto, chunk>> /\ worker = "fetched"
    BY <1>2 DEF StoreChunk, Open, dataVars
  <2>2. t >= chunk - OVERLAP
    BY <1>2, <2>1, StoredGap, Numbers DEF Window
  <2>3. \A m \in Measured' : m \in Nat /\ (m \in Measured \/ m < chunk)
    BY <1>2, Numbers DEF Measured, StoreChunk, Answered, AnsweredAt
  <2>4. Within(t)
    <3>1. CASE payload[t] > 0
      BY <1>2, <3>1, Numbers DEF StoreChunk, Answered, AnsweredAt, Gap, dataVars
    <3>2. CASE ~(payload[t] > 0)
      BY <1>2, <3>2 DEF StoreChunk, Gap, dataVars, InReach
    <3> QED
      BY <3>1, <3>2
  <2> QED
    BY <2>1, <2>2, <2>3, <2>4, Numbers DEF Within
\* The progress saved is the end of the chunk.
<1>3. CASE SaveProgress
  <2>1. got' = got /\ source' = source /\ Measured' = Measured /\ Open' = Open
    BY <1>3, SavedRow DEF SaveProgress, Measured, dataVars
  <2>2. Gap(t) /\ (t >= chunk \/ t >= upto - OVERLAP) /\ chunk <= upto
    BY <1>3, <2>1 DEF Gap, SaveProgress, Behind, BehindAt, Running, Reached, Window
  <2>3. t >= chunk - OVERLAP /\ Within(t)
    BY <2>2, Numbers DEF InReach
  <2>4. \A j \in Open : j \in Jobs
    BY DEF Open
  <2> QED
    BY <1>3, <2>1, <2>3, <2>4, SavedRow DEF Within
<1>4. CASE UNCHANGED <<got, source>> /\ ~SaveProgress
  <2>1. RowsKept /\ Gap(t) /\ Measured' = Measured
    BY <1>4, RowsStep DEF Gap, Measured
  <2> QED
    BY <2>1, WithinStays DEF InReach
<1> QED
  BY <1>1, <1>2, <1>3, <1>4 DEF Next, vars, dataVars, WorkerStep, TimePasses, LoginChecks, LoginCounts, LoginInserts,
       MaintenanceChecks, MaintenanceInserts, Claim, ImportMasterdata, DetermineWindow,
       RequestChunk, Interrupted, Imported, Finish, Fail, Exit, StopSignal, Crash, Starts, GoesStale

-----------------------------------------------------------------------------
(***************************************************************************)
(* The import of a window.                                                 *)
(***************************************************************************)
ImportParts == worker \in Running /\ UNCHANGED <<worker, got, start, upto, chunk, payload, promised>>

\* Everything else in the system can only deliver something while an import runs.
LEMMA Beside ==
    ASSUME SyncInv, TypeOK', [Next]_vars, ImportParts
    PROVE  Behind' /\ Answered' /\ Kept'
<1> USE DEF SyncInv
<1>1. RowsKept /\ Measured' = Measured /\ Reached' = Reached
  BY RowsStep DEF ImportParts, Measured, Reached, SaveProgress
<1>2. UNCHANGED source \/ \E i \in Intervals : Delivers(i)
  BY DEF Next, vars, dataVars, WorkerStep, TimePasses, LoginChecks, LoginCounts, LoginInserts,
       MaintenanceChecks, MaintenanceInserts, Claim, ImportMasterdata, DetermineWindow,
       RequestChunk, Interrupted, StoreChunk, SaveProgress, Imported, Finish, Fail, Exit,
       StopSignal, Crash, Starts, GoesStale
<1>3. upto <= now
  BY DEF ImportParts, Window
<1> SUFFICES ASSUME NEW t \in Intervals
             PROVE  BehindAt(t)' /\ (worker = "fetched" => AnsweredAt(t)') /\ KeptAt(t)'
  BY <1>1 DEF ImportParts, Behind, Answered, Kept, Intervals
<1>4. BehindAt(t) /\ (worker = "fetched" => AnsweredAt(t)) /\ KeptAt(t)
  BY DEF ImportParts, Behind, Answered, Kept
<1>5. source'[t] = source[t] \/ (source'[t] = source[t] + 1 /\ t >= now - OVERLAP)
  <2>1. ASSUME NEW i \in Intervals, Delivers(i)
        PROVE  source'[t] = source[t] \/ (source'[t] = source[t] + 1 /\ t >= now - OVERLAP)
    BY <2>1, Numbers DEF Delivers, TypeOK
  <2> QED
    BY <1>2, <2>1
<1>6. t >= now - OVERLAP => t >= upto - OVERLAP /\ Within(t)
  BY <1>3, Numbers, YoungIsWithin
<1>7. BehindAt(t)' /\ KeptAt(t)'
  BY <1>1, <1>4, <1>5, <1>6, Numbers DEF ImportParts, BehindAt, KeptAt, Gap
<1>8. worker = "fetched" => AnsweredAt(t)'
  <2>1. Within(t) => Within(t)'
    BY <1>1, WithinStays
  <2> QED
    BY <1>4, <1>5, <1>6, <2>1, Numbers DEF ImportParts, AnsweredAt
<1> QED
  BY <1>7, <1>8

LEMMA ImportStep == SyncInv /\ TypeOK' /\ [Next]_vars => Behind' /\ Answered' /\ Kept'
<1> SUFFICES ASSUME SyncInv, TypeOK', [Next]_vars PROVE Behind' /\ Answered' /\ Kept'
  OBVIOUS
<1> USE DEF SyncInv
<1>1. CASE worker' \notin Running
  BY <1>1 DEF Behind, Answered, Kept, Running
\* The window is determined: it starts before everything missing, and what it
\* promises is there.
<1>2. CASE DetermineWindow
  <2>1. mine \in Open /\ (TakesAll(mine) => Delivered # {})
    BY <1>2 DEF DetermineWindow, TypeOK, Rows, Idle
  <2>2. /\ WindowStart(mine) \in Int
        /\ \A t \in Intervals : Gap(t) => t >= WindowStart(mine) /\ t < WindowEnd(mine)
    BY <2>1, WindowFacts
  <2>3. start' = IF 0 >= WindowStart(mine) THEN 0 ELSE WindowStart(mine)
    BY <1>2, <2>2, OfTwo DEF DetermineWindow
  <2>4. worker' = "import" /\ upto' = WindowEnd(mine) /\ UNCHANGED <<got, source>>
    BY <1>2 DEF DetermineWindow, dataVars
  <2>5. ASSUME NEW t \in Intervals PROVE BehindAt(t)' /\ KeptAt(t)'
    <3>1. promised'[t] = IF Gap(t) THEN source[t] ELSE 0
      BY <1>2 DEF DetermineWindow, Gap
    <3>2. Gap(t) => t >= start' /\ t < upto'
      BY <2>2, <2>3, <2>4, Numbers
    <3> QED
      BY <2>4, <3>1, <3>2, Numbers DEF BehindAt, KeptAt, Reached, Gap
  <2> QED
    BY <2>4, <2>5 DEF Behind, Answered, Kept, Intervals
\* The answer is what EEG-Faktura has now.
<1>3. CASE RequestChunk
  <2>1. /\ worker = "import" /\ worker' = "fetched"
        /\ UNCHANGED <<got, source, start, upto, promised>>
        /\ \A t \in Intervals : payload'[t] = IF t \in start..(chunk' - 1) THEN source[t] ELSE 0
    BY <1>3 DEF RequestChunk, dataVars
  <2>2. ASSUME NEW t \in Intervals PROVE BehindAt(t)' /\ AnsweredAt(t)' /\ KeptAt(t)'
    <3>1. BehindAt(t) /\ KeptAt(t) /\ got[t] <= source[t]
      BY <2>1 DEF Behind, Kept, Running, Sound
    <3>2. BehindAt(t)' /\ KeptAt(t)'
      BY <2>1, <3>1 DEF BehindAt, KeptAt, Reached, Gap
    <3>3. AnsweredAt(t)'
      BY <2>1, <3>1, Numbers DEF AnsweredAt, KeptAt
    <3> QED
      BY <3>2, <3>3
  <2> QED
    BY <2>1, <2>2 DEF Behind, Answered, Kept, Intervals
\* The chunk is stored.
<1>4. CASE StoreChunk
  <2>1. /\ worker = "fetched" /\ worker' = "stored" /\ UNCHANGED <<source, upto, chunk, promised>>
        /\ \A t \in Intervals : got'[t] = IF payload[t] > 0 THEN payload[t] ELSE got[t]
    BY <1>4 DEF StoreChunk, dataVars
  <2>2. ASSUME NEW t \in Intervals PROVE BehindAt(t)' /\ KeptAt(t)'
    <3>1. AnsweredAt(t) /\ KeptAt(t)
      BY <2>1 DEF Answered, Kept, Running
    <3>2. BehindAt(t)'
      BY <1>4, <2>1, StoredGap DEF BehindAt, Reached
    <3>3. KeptAt(t)'
      BY <2>1, <3>1, Numbers DEF AnsweredAt, KeptAt, Reached
    <3> QED
      BY <3>2, <3>3
  <2> QED
    BY <2>1, <2>2 DEF Behind, Answered, Kept, Intervals
\* The next chunk starts where this one ended.
<1>5. CASE SaveProgress
  <2>1. /\ worker = "stored" /\ worker' = "import" /\ start' = chunk
        /\ UNCHANGED <<got, source, upto, promised>>
    BY <1>5 DEF SaveProgress, dataVars
  <2> QED
    BY <2>1 DEF Behind, BehindAt, Answered, Kept, KeptAt, Running, Reached, Gap, Intervals
\* Nothing is left of the window.
<1>6. CASE Imported
  <2>1. /\ worker = "import" /\ worker' = "forecast" /\ start >= upto
        /\ UNCHANGED <<got, source, start, upto, promised>>
    BY <1>6 DEF Imported, dataVars, importVars
  <2>2. ASSUME NEW t \in Intervals PROVE BehindAt(t)' /\ KeptAt(t)'
    <3>1. BehindAt(t) /\ KeptAt(t)
      BY <2>1 DEF Behind, Kept, Running
    <3>2. ~(got[t] < promised[t])
      BY <2>1, <3>1, Numbers DEF KeptAt, Reached
    <3> QED
      BY <2>1, <3>1, <3>2 DEF BehindAt, KeptAt, Reached, Gap
  <2> QED
    BY <2>1, <2>2 DEF Behind, Answered, Kept, Intervals
<1>7. CASE ImportParts
  BY <1>7, Beside
<1>8. CASE worker' \in Running /\ ~DetermineWindow /\ ~RequestChunk /\ ~StoreChunk /\ ~SaveProgress /\ ~Imported
  <2>1. ImportParts
    BY <1>8 DEF ImportParts, Running, Next, vars, dataVars, importVars, WorkerStep, TimePasses, Delivers,
       LoginChecks, LoginCounts, LoginInserts, MaintenanceChecks, MaintenanceInserts, Claim, ImportMasterdata,
       Interrupted, Release, Leaves, Finish, Fail, Exit, StopSignal, Crash, Starts, GoesStale
  <2> QED
    BY <2>1, Beside
<1> QED
  BY <1>1, <1>2, <1>3, <1>4, <1>5, <1>6, <1>8

-----------------------------------------------------------------------------
(***************************************************************************)
(* Theorems.                                                               *)
(***************************************************************************)
LEMMA SyncInitially == Init => SyncInv
<1> SUFFICES ASSUME Init PROVE SyncInv
  OBVIOUS
<1>1. \A t \in Intervals : got[t] = 0 /\ source[t] = 0
  BY DEF Init, Nothing
<1>2. Sound /\ InReach
  BY <1>1 DEF Sound, InReach, Gap
<1>3. Rows
  BY DEF Init, Rows, Closed, NoTime
<1>4. Window /\ Behind /\ Answered /\ Kept
  BY DEF Init, Window, Behind, Answered, Kept, Running
<1> QED
  BY <1>2, <1>3, <1>4, TypesInitially DEF SyncInv

LEMMA SyncStep == SyncInv /\ [Next]_vars => SyncInv'
BY TypesStep, TimesStep, ReachStep, ImportStep DEF SyncInv

LEMMA SyncAlways == Spec => []SyncInv
BY SyncInitially, SyncStep, PTL DEF Spec

\* Every variable of the import stays within its type.
THEOREM TypeCorrect == Spec => []TypeOK
<1>1. SyncInv => TypeOK
  BY DEF SyncInv
<1> QED
  BY <1>1, SyncAlways, PTL

\* No late delivery and no correction is lost between two windows: whatever
\* crashes, stops, resumes or fails, and however many jobs are open, the next
\* import asks for everything the table lacks - for every overlap that is not
\* shorter than the latest delivery.
THEOREM NothingIsLost == Spec => []NothingOutOfReach
BY SyncAlways, ReachEnough, PTL

\* A job that is done has imported all that was there when its window was
\* determined, as it was then or newer.
THEOREM DoneIsImported == Spec => DoneMeansImported
<1>1. SyncInv => (worker = "forecast" => \A t \in Intervals : got[t] >= promised[t])
  <2> SUFFICES ASSUME SyncInv, worker = "forecast", NEW t \in Intervals PROVE got[t] >= promised[t]
    OBVIOUS
  <2>1. KeptAt(t)
    BY DEF SyncInv, Kept, Running
  <2> QED
    BY <2>1, Numbers DEF KeptAt, SyncInv
<1>2. SyncInv /\ [Next]_vars =>
        [worker = "forecast" /\ worker' = "poll" => \A t \in Intervals : got[t] >= promised[t]]_vars
  BY <1>1
<1> QED
  BY <1>2, SyncAlways, PTL DEF Spec, DoneMeansImported
=============================================================================
