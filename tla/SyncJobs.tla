------------------------------ MODULE SyncJobs ------------------------------
(***************************************************************************)
(* The import of energy data from EEG-Faktura for one community: the jobs  *)
(* in eegfaktura_sync_job, put there by an operator's login                *)
(* (platform/src/lib/server/eegfaktura-login.js) and by the worker itself, *)
(* and the worker that claims, interrupts, resumes and finishes them       *)
(* (pipeline/stromkreis_pipeline/worker.py, eegfaktura/sync.py).           *)
(*                                                                         *)
(* Time is counted in units of the overlap window's resolution; interval t *)
(* of the measurements lies between time t and time t + 1.  EEG-Faktura    *)
(* delivers an interval after it ended and corrects it later (substitute   *)
(* values): its data is a version number per interval, 0 for none.         *)
(***************************************************************************)
EXTENDS Integers, FiniteSetsExt

CONSTANTS
    Jobs,        \* rows of eegfaktura_sync_job, reused once closed
    HORIZON,     \* bound: time ends here
    CORRECTED,   \* bound: intervals delivered twice, the others once
    OVERLAP,     \* sync.OVERLAP
    CHUNK_MAX,   \* sync.CHUNK_MAX; large communities get shorter chunks
    LATE         \* the latest delivery or correction after an interval's begin

NoJob == "none"

ASSUME SyncAssumption ==
    /\ HORIZON \in Nat /\ CORRECTED \subseteq Nat
    /\ OVERLAP \in Nat /\ CHUNK_MAX \in Nat \ {0}
    /\ LATE \in 0..OVERLAP
    /\ NoJob \notin Jobs

VARIABLES
    now,        \* time
    source,     \* version of every interval at EEG-Faktura
    got,        \* version of every interval in table measurement
    jobs,       \* the rows: phase, full_import, alive (heartbeat_at is younger
                \* than STALE_MINUTES), progress.chunk_end
    login,      \* an operator's login between its check and its insert, with
                \* what its count of the measurements was
    worker,     \* where the worker process is
    mine,       \* the job it runs
    start,      \* next chunk_start of its import
    upto,       \* end of its window
    chunk,      \* chunk_end of the request under way
    payload,    \* what the request answered
    stop,       \* STOP is set
    promised    \* history: what source had and got did not when the running
                \* window was determined

dataVars   == <<now, source>>
importVars == <<mine, start, upto, chunk, payload, promised>>
vars == <<now, source, got, jobs, login, worker, mine, start, upto, chunk,
          payload, stop, promised>>

Intervals == 0..(HORIZON - 1)
Versions  == 0..2
Nothing   == [t \in Intervals |-> 0]
NoTime    == -1

Active   == {"queued", "masterdata", "energy"}
Idle     == {"down", "poll", "due"}

\* A closed row is one whose job is done or failed, or that does not exist yet.
Closed == [phase |-> "closed", full |-> FALSE, alive |-> FALSE, chunkEnd |-> NoTime]

JobRow == [phase : Active \cup {"closed"}, full : BOOLEAN,
           alive : BOOLEAN, chunkEnd : NoTime..HORIZON]

TypeOK ==
    /\ now \in 0..HORIZON
    /\ source \in [Intervals -> Versions]
    /\ got \in [Intervals -> Versions]
    /\ jobs \in [Jobs -> JobRow]
    /\ login \in {"none", "checked", "empty", "measured"}
    /\ worker \in Idle \cup {"masterdata", "window", "import", "fetched",
                             "stored", "forecast"}
    /\ mine \in Jobs \cup {NoJob} /\ (mine = NoJob <=> worker \in Idle)
    /\ start \in 0..HORIZON /\ upto \in 0..HORIZON /\ chunk \in 0..HORIZON
    /\ payload \in [Intervals -> Versions]
    /\ stop \in BOOLEAN
    /\ promised \in [Intervals -> Versions]

Init ==
    /\ now = 0 /\ source = Nothing /\ got = Nothing
    /\ jobs = [j \in Jobs |-> Closed]
    /\ login = "none" /\ worker = "down" /\ stop = FALSE
    /\ mine = NoJob /\ start = 0 /\ upto = 0 /\ chunk = 0
    /\ payload = Nothing /\ promised = Nothing

-----------------------------------------------------------------------------
(***************************************************************************)
(* EEG-Faktura.                                                            *)
(***************************************************************************)
TimePasses ==
    /\ now < HORIZON
    /\ now' = now + 1
    /\ UNCHANGED <<source, got, jobs, login, worker, importVars, stop>>

Delivers(t) ==
    /\ t < now /\ now <= t + LATE
    /\ source[t] < IF t \in CORRECTED THEN 2 ELSE 1
    /\ source' = [source EXCEPT ![t] = @ + 1]
    /\ UNCHANGED <<now, got, jobs, login, worker, importVars, stop>>

Delivered == {t \in Intervals : source[t] > 0}
Measured  == {t \in Intervals : got[t] > 0}

-----------------------------------------------------------------------------
(***************************************************************************)
(* Jobs are put in the queue.                                              *)
(***************************************************************************)
Open == {j \in Jobs : jobs[j].phase \in Active}

Inserted(full) ==
    LET j == CHOOSE j \in Jobs : j \notin Open
    IN  /\ Jobs \ Open # {}
        /\ jobs' = [jobs EXCEPT ![j] = [phase |-> "queued", full |-> full,
                                        alive |-> FALSE, chunkEnd |-> NoTime]]

\* ensureTenantForRc: the transactions of two logins exclude each other (the
\* row of the tenant), but not the worker's.
LoginChecks ==
    /\ login = "none" /\ Open = {}
    /\ login' = "checked"
    /\ UNCHANGED <<dataVars, got, jobs, worker, importVars, stop>>

LoginCounts ==
    /\ login = "checked"
    /\ login' = IF Measured = {} THEN "empty" ELSE "measured"
    /\ UNCHANGED <<dataVars, got, jobs, worker, importVars, stop>>

\* What it inserts is of what it has counted, not of what is there by now.
LoginInserts ==
    /\ login \in {"empty", "measured"}
    /\ Inserted(login = "empty")
    /\ login' = "none"
    /\ UNCHANGED <<dataVars, got, worker, importVars, stop>>

\* Mutant: an orphaned job is nobody's.
MutClaimable == {j \in Jobs : jobs[j].phase = "queued"}

Claimable == {j \in Open : jobs[j].phase = "queued" \/ ~jobs[j].alive}

\* enqueue_due_syncs, when the queue is empty.
MaintenanceChecks ==
    /\ worker = "poll" /\ ~stop /\ Claimable = {}
    /\ Open = {}
    /\ worker' = "due"
    /\ UNCHANGED <<dataVars, got, jobs, login, importVars, stop>>

MaintenanceInserts ==
    /\ worker = "due"
    /\ Inserted(FALSE)
    /\ worker' = "poll"
    /\ UNCHANGED <<dataVars, got, login, importVars, stop>>

-----------------------------------------------------------------------------
(***************************************************************************)
(* The worker runs a job.                                                  *)
(***************************************************************************)
Claim(j) ==
    /\ worker = "poll" /\ ~stop /\ j \in Claimable
    /\ jobs' = [jobs EXCEPT ![j].alive = TRUE,
                            ![j].phase = IF @ = "queued" THEN "masterdata" ELSE @]
    /\ mine' = j
    /\ worker' = IF jobs[j].phase = "energy" THEN "window" ELSE "masterdata"
    /\ UNCHANGED <<dataVars, got, login, start, upto, chunk, payload, stop, promised>>

\* The worker lets go of its job.
Leaves(where) ==
    /\ worker' = where /\ mine' = NoJob
    /\ start' = 0 /\ upto' = 0 /\ chunk' = 0
    /\ payload' = Nothing /\ promised' = Nothing

\* release_job, after a stop signal.
Release(phase) ==
    /\ jobs' = [jobs EXCEPT ![mine].alive = FALSE, ![mine].phase = phase]
    /\ Leaves("poll")

ImportMasterdata ==
    /\ worker = "masterdata"
    /\ \/ /\ stop /\ Release("energy")
       \/ /\ ~stop
          /\ jobs' = [jobs EXCEPT ![mine].alive = TRUE, ![mine].phase = "energy"]
          /\ worker' = "window"
          /\ UNCHANGED importVars
    /\ UNCHANGED <<dataVars, got, login, stop>>

\* Mutant: the job goes on where its last chunk ended.
MutResumeSince(j) == Max({jobs[j].chunkEnd} \cup Measured)

\* resume_since: the last chunk saved or the last interval measured, less the
\* overlap.
ResumeSince(j) == Max({jobs[j].chunkEnd} \cup Measured) - OVERLAP

\* The job takes everything: its own wish, or nothing has been measured yet.
TakesAll(j) == jobs[j].chunkEnd = NoTime /\ (jobs[j].full \/ Measured = {})

\* Mutant: the incremental import starts at the last interval measured.
MutWindowStart(j) ==
    IF TakesAll(j) THEN Min(Delivered)
    ELSE IF jobs[j].chunkEnd = NoTime THEN Max(Measured) + 1
    ELSE ResumeSince(j)

\* Where the import of job j would start now (determine_window), and where it
\* would end.
WindowStart(j) ==
    IF TakesAll(j) THEN Min(Delivered)
    ELSE IF jobs[j].chunkEnd = NoTime THEN Max(Measured) - OVERLAP
    ELSE ResumeSince(j)

WindowEnd(j) == IF TakesAll(j) THEN Min({now, Max(Delivered) + 1}) ELSE now

\* Without data at EEG-Faktura its metadata are refused: the job fails.
DetermineWindow ==
    /\ worker = "window"
    /\ TakesAll(mine) => Delivered # {}
    /\ worker' = "import"
    /\ start' = Max({0, WindowStart(mine)})
    /\ upto' = WindowEnd(mine)
    /\ promised' = [t \in Intervals |-> IF got[t] = source[t] THEN 0 ELSE source[t]]
    /\ UNCHANGED <<dataVars, got, jobs, login, mine, chunk, payload, stop>>

\* One request at a time; a stop signal counts before a request.
RequestChunk ==
    /\ worker = "import" /\ start < upto /\ ~stop
    /\ \E days \in 1..CHUNK_MAX : chunk' = Min({start + days, upto})
    /\ payload' = [t \in Intervals |-> IF t \in start..(chunk' - 1) THEN source[t] ELSE 0]
    /\ worker' = "fetched"
    /\ UNCHANGED <<dataVars, got, jobs, login, mine, start, upto, stop, promised>>

Interrupted ==
    /\ worker = "import" /\ start < upto /\ stop
    /\ Release("energy")
    /\ UNCHANGED <<dataVars, got, login, stop>>

\* upsert_measurements and commit; an interval not delivered leaves no row.
StoreChunk ==
    /\ worker = "fetched"
    /\ got' = [t \in Intervals |-> IF payload[t] > 0 THEN payload[t] ELSE got[t]]
    /\ payload' = Nothing
    /\ worker' = "stored"
    /\ UNCHANGED <<dataVars, jobs, login, mine, start, upto, chunk, stop, promised>>

\* on_chunk.
SaveProgress ==
    /\ worker = "stored"
    /\ jobs' = [jobs EXCEPT ![mine].alive = TRUE, ![mine].chunkEnd = chunk]
    /\ start' = chunk
    /\ worker' = "import"
    /\ UNCHANGED <<dataVars, got, login, mine, upto, chunk, payload, stop, promised>>

\* Mutant: the last chunk is left for the next job.
MutImported ==
    /\ worker = "import" /\ start + 1 >= upto
    /\ worker' = "forecast"
    /\ UNCHANGED <<dataVars, got, jobs, login, importVars, stop>>

\* The window is imported; weather and forecast follow and cannot fail the job.
Imported ==
    /\ worker = "import" /\ start >= upto
    /\ worker' = "forecast"
    /\ UNCHANGED <<dataVars, got, jobs, login, importVars, stop>>

Finish ==
    /\ worker = "forecast"
    /\ jobs' = [jobs EXCEPT ![mine] = Closed]
    /\ Leaves("poll")
    /\ UNCHANGED <<dataVars, got, login, stop>>

\* The login at Keycloak, a request or the normalisation fails: run_once rolls
\* the open transaction back and closes the job.
Fail ==
    /\ worker \in {"masterdata", "window", "import", "fetched"}
    /\ jobs' = [jobs EXCEPT ![mine] = Closed]
    /\ Leaves("poll")
    /\ UNCHANGED <<dataVars, got, login, stop>>

-----------------------------------------------------------------------------
(***************************************************************************)
(* The process.                                                            *)
(***************************************************************************)
StopSignal ==
    /\ worker # "down" /\ ~stop
    /\ stop' = TRUE
    /\ UNCHANGED <<dataVars, got, jobs, login, worker, importVars>>

Exit ==
    /\ worker = "poll" /\ stop
    /\ worker' = "down" /\ stop' = FALSE
    /\ UNCHANGED <<dataVars, got, jobs, login, importVars>>

\* Killed, or the database is lost: the open transaction is rolled back.
Crash ==
    /\ worker # "down"
    /\ Leaves("down") /\ stop' = FALSE
    /\ UNCHANGED <<dataVars, got, jobs, login>>

Starts ==
    /\ worker = "down"
    /\ worker' = "poll"
    /\ UNCHANGED <<dataVars, got, jobs, login, importVars, stop>>

\* STALE_MINUTES without a heartbeat.
GoesStale(j) ==
    /\ jobs[j].alive /\ j # mine
    /\ jobs' = [jobs EXCEPT ![j].alive = FALSE]
    /\ UNCHANGED <<dataVars, got, login, worker, importVars, stop>>

WorkerStep ==
    \/ \E j \in Jobs : Claim(j)
    \/ MaintenanceInserts
    \/ ImportMasterdata \/ DetermineWindow
    \/ RequestChunk \/ Interrupted \/ StoreChunk \/ SaveProgress
    \/ Imported \/ Finish \/ Fail
    \/ Exit

Next ==
    \/ TimePasses
    \/ \E t \in Intervals : Delivers(t)
    \/ LoginChecks \/ LoginCounts \/ LoginInserts
    \/ MaintenanceChecks
    \/ WorkerStep
    \/ StopSignal \/ Crash \/ Starts
    \/ \E j \in Jobs : GoesStale(j)

Spec == Init /\ [][Next]_vars

\* The worker keeps working while it runs (its loop polls, and its maintenance
\* comes round), the container is started again, a login's transaction ends,
\* and time without a heartbeat makes it stale.  Crashes, stop signals and
\* failing imports are not bounded.
Fairness ==
    /\ WF_vars(WorkerStep)
    /\ WF_vars(MaintenanceChecks)
    /\ WF_vars(Starts)
    /\ WF_vars(LoginCounts) /\ WF_vars(LoginInserts)
    /\ \A j \in Jobs : WF_vars(GoesStale(j))

FairSpec == Spec /\ Fairness

-----------------------------------------------------------------------------
\* What the next import will not ask for again is what EEG-Faktura has: no
\* late delivery or correction is lost between two windows, and none through
\* crashes, stop signals, resumed jobs or two jobs in the queue (OVERLAP,
\* resume_since, on_chunk after the commit).
NothingOutOfReach ==
    \A t \in Intervals : got[t] # source[t] =>
        /\ Measured # {} => t >= Max(Measured) - OVERLAP
        /\ \A j \in Open : t >= WindowStart(j)

\* A job that is done has imported all that was there when its last window
\* was determined.
DoneMeansImported ==
    [][worker = "forecast" /\ worker' = "poll"
         => \A t \in Intervals : got[t] >= promised[t]]_vars

LeftAlone == <>[](worker # "down" /\ ~stop)

\* Once the worker is left alone every job ends: an orphaned one is claimed
\* again, a released one too, and the login and the worker do not keep the
\* queue filled (claim_job, STALE_MINUTES, release_job).
JobsEnd ==
    LeftAlone => \A j \in Jobs : []<>(j \notin Open)

\* If imports stop failing as well, everything EEG-Faktura ever delivered or
\* corrected is in the table in the end, whatever crashed before (the module
\* comments of worker.py and sync.py: resumed jobs, scheduled imports, overlap).
EverythingArrives ==
    (LeftAlone /\ <>[][~Fail]_vars) => <>[](got = source)
=============================================================================
