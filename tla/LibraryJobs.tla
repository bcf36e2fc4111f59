------------------------------ MODULE LibraryJobs ------------------------------
(***************************************************************************)
(* Library jobs: the single-flight runner (jobs/runner.py), the phases of  *)
(* a job (scan/jobs.py), the processes that hold the data-dir lock         *)
(* (cli/serve.py, main.py, runtime/), the callers of the runner (HTTP,     *)
(* control socket, command line) and the one status row they share.        *)
(*                                                                         *)
(* The runner's lock keeps starts and cancels apart; the job's thread      *)
(* writes the row without it.  request_cancel reads the row and commits it *)
(* in two steps.                                                           *)
(***************************************************************************)
EXTENDS Sequences, Enrichment

CONSTANTS
    MaxJobs,      \* bound: jobs that are ever begun
    MaxLives,     \* bound: processes that ever take the lock
    MaxFaults     \* bound: phases and writes that raise

ASSUME LibraryJobsAssumption ==
    MaxJobs \in Nat /\ MaxLives \in Nat /\ MaxFaults \in Nat

VARIABLES
    proc,       \* who holds the lock: "none", "boot", "serve", "stopping", "local"
    running,    \* _running
    cancel,     \* the event _cancel
    job,        \* the job's thread
    status,     \* of the row ScanState
    canceler,   \* request_cancel has read "running" and holds the lock
    cli,        \* a command that runs a library job
    call,       \* its start request on the control socket, or the answer to it
    probe,      \* another command found the lock free and is about to migrate
    begun, lives, faults,   \* how many of the bounded events have happened
    wanted,     \* ghost: a cancel was accepted for the job that runs
    crossed     \* ghost: two writers of the row have crossed

runner == <<running, cancel, job, canceler>>
bounds == <<begun, lives, faults>>
vars == <<enrichment, proc, runner, status, cli, call, probe, bounds, wanted, crossed>>

Kind == {"scan", "regen-covers", "regen-artist-images", "regen-lyrics"}
Phase == {"index", "finalize", "covers", "artist_images", "lyrics"}
Phases == [scan |-> <<"index", "finalize", "covers", "artist_images", "lyrics">>,
           regenCovers |-> <<"covers">>,
           regenArtists |-> <<"artist_images">>,
           regenLyrics |-> <<"lyrics">>]
PhasesOf(kind) == CASE kind = "scan" -> Phases.scan
                    [] kind = "regen-covers" -> Phases.regenCovers
                    [] kind = "regen-artist-images" -> Phases.regenArtists
                    [] kind = "regen-lyrics" -> Phases.regenLyrics

\* pc: between two phases, in a batch, about to write how it about to
\* clear _running.
NoJob == [pc |-> "none", force |-> FALSE, left |-> <<>>]
Job == [pc : {"none", "between", "batch", "idle", "failed", "leave"},
        force : BOOLEAN, left : Seq(Phase)]
Busy == {"running", "canceling"}
Status == Busy \cup {"idle", "failed"}
Call == {"none", "asked", "ok", "refused"}
\* Not run yet, starts its job through the server, polls it, takes the lock,
\* runs the job itself, has exited.
Cli == {"off", "remote", "poll", "lock", "local", "done"}

TypeOK ==
    /\ EnrichmentTypeOK
    /\ proc \in {"none", "boot", "serve", "stopping", "local"}
    /\ running \in BOOLEAN /\ cancel \in BOOLEAN /\ canceler \in BOOLEAN /\ probe \in BOOLEAN
    /\ job \in Job /\ status \in Status /\ cli \in Cli /\ call \in Call
    /\ begun \in 0..MaxJobs /\ lives \in 0..MaxLives /\ faults \in 0..MaxFaults
    /\ wanted \in BOOLEAN /\ crossed \in BOOLEAN

Init ==
    /\ EnrichmentInit
    /\ proc = "none" /\ running = FALSE /\ cancel = FALSE /\ job = NoJob /\ canceler = FALSE
    /\ status = "idle" /\ cli = "off" /\ call = "none" /\ probe = FALSE
    /\ begun = 0 /\ lives = 0 /\ faults = 0
    /\ wanted = FALSE /\ crossed = FALSE

Locked == canceler   \* LibraryJobRunner._lock, between two of its steps

(***************************************************************************)
(* start and run_sync: _begin writes the row under the lock.               *)
(***************************************************************************)
\* Mutant: the event of the last job is not cleared.
LaunchUncleared(kind, force) ==
    /\ ~Locked /\ ~running /\ begun < MaxJobs
    /\ running' = TRUE
    /\ begun' = begun + 1
    /\ status' = "running"
    /\ job' = [pc |-> "between", force |-> force, left |-> PhasesOf(kind)]
    /\ wanted' = FALSE
    /\ UNCHANGED <<cancel, canceler, lives, faults, enrichment, crossed>>

Launch(kind, force) ==
    /\ ~Locked /\ ~running /\ begun < MaxJobs
    /\ running' = TRUE /\ cancel' = FALSE
    /\ begun' = begun + 1
    /\ status' = "running"
    /\ job' = [pc |-> "between", force |-> force, left |-> PhasesOf(kind)]
    /\ wanted' = FALSE
    /\ UNCHANGED <<canceler, lives, faults, enrichment, crossed>>

\* The commit of _begin raises: the runner stays busy without a thread.
LaunchFails ==
    /\ ~Locked /\ ~running /\ faults < MaxFaults
    /\ running' = TRUE /\ cancel' = FALSE
    /\ faults' = faults + 1
    /\ wanted' = FALSE
    /\ UNCHANGED <<canceler, job, status, begun, lives, enrichment, crossed>>

HttpStart ==
    /\ proc = "serve"
    /\ \E mode \in {"quick", "full"} : Launch("scan", mode = "full")
    /\ UNCHANGED <<proc, cli, call, probe>>

HttpStartFails ==
    /\ proc = "serve" /\ LaunchFails
    /\ UNCHANGED <<proc, cli, call, probe>>

(***************************************************************************)
(* request_cancel, by HTTP, the control socket or the shutdown.            *)
(***************************************************************************)
RequestCancel ==
    /\ ~Locked /\ running
    /\ cancel' = TRUE
    /\ wanted' = TRUE
    /\ canceler' = (status = "running")
    /\ UNCHANGED <<running, job, status, cli, probe, bounds, enrichment, crossed>>

\* By HTTP; and by the command scan cancel, once the control socket listens.
HttpCancel == proc = "serve" /\ RequestCancel /\ UNCHANGED <<proc, call>>
Listening == proc \in {"boot", "serve"}
CliCancel == Listening /\ RequestCancel /\ UNCHANGED <<proc, call>>

CommitCancel ==
    /\ canceler
    /\ canceler' = FALSE
    /\ status' = "canceling"
    /\ crossed' = (crossed \/ status # "running")
    /\ UNCHANGED <<proc, running, cancel, job, cli, call, probe, bounds, enrichment, wanted>>

(***************************************************************************)
(* The job's thread.                                                       *)
(***************************************************************************)
\* The answer to a request that the server will not handle any more.
Hangup == IF call = "asked" THEN "refused" ELSE call

Other == <<proc, running, cancel, canceler, cli, call, probe, begun, lives, wanted>>

\* Between two phases: a cancel or the last phase ends the job, a phase begins.
EndPhases ==
    /\ job.pc = "between" /\ (cancel \/ job.left = <<>>)
    /\ job' = [job EXCEPT !.pc = "idle", !.left = <<>>]
    /\ UNCHANGED <<Other, enrichment, status, faults, crossed>>

PhaseBegins == job.pc = "between" /\ ~cancel /\ job.left # <<>>

\* index (may find retagged tracks) and finalize, told elsewhere.
WalkPhase ==
    /\ PhaseBegins /\ Head(job.left) \in {"index", "finalize"}
    /\ job' = [job EXCEPT !.left = Tail(@)]
    /\ IF Head(job.left) = "index" THEN \E tracks \in SUBSET Track : Retag(tracks)
                                   ELSE UNCHANGED enrichment
    /\ UNCHANGED <<Other, status, faults, crossed>>

BatchPhase ==
    /\ PhaseBegins /\ Head(job.left) \in {"covers", "artist_images", "lyrics"}
    /\ job' = [job EXCEPT !.pc = "batch", !.left = Tail(@)]
    /\ CASE Head(job.left) = "covers" -> StartCovers(job.force)
         [] Head(job.left) = "artist_images" -> StartPortraits(job.force)
         [] Head(job.left) = "lyrics" -> StartLyrics(job.force)
    /\ UNCHANGED <<Other, status, faults, crossed>>

InBatch ==
    /\ job.pc = "batch"
    /\ \/ EnrichmentStep(cancel) /\ UNCHANGED job
       \/ FinishBatch(cancel) /\ job' = [job EXCEPT !.pc = "between"]
    /\ UNCHANGED <<Other, status, faults, crossed>>

\* Mutant: an exception ends the thread and nobody writes the row.
RaiseThrough ==
    /\ job.pc \in {"between", "batch", "idle"} /\ faults < MaxFaults
    /\ faults' = faults + 1
    /\ job' = [job EXCEPT !.pc = "leave", !.left = <<>>]
    /\ RaiseBatch
    /\ UNCHANGED <<Other, status, crossed>>

\* A phase, a commit of it or the last write of the row raises.
Raise ==
    /\ job.pc \in {"between", "batch", "idle"} /\ faults < MaxFaults
    /\ faults' = faults + 1
    /\ job' = [job EXCEPT !.pc = "failed", !.left = <<>>]
    /\ RaiseBatch
    /\ UNCHANGED <<Other, status, crossed>>

\* Mutant: a job that was canceled leaves the row to the one who canceled it.
WriteEndUnlessCanceled ==
    /\ job.pc \in {"idle", "failed"}
    /\ status' = IF cancel THEN status ELSE job.pc
    /\ job' = [job EXCEPT !.pc = "leave"]
    /\ UNCHANGED <<Other, enrichment, faults, crossed>>

WriteEnd ==
    /\ job.pc \in {"idle", "failed"}
    /\ status' = job.pc
    /\ job' = [job EXCEPT !.pc = "leave"]
    /\ UNCHANGED <<Other, enrichment, faults, crossed>>

Leave ==
    /\ job.pc = "leave" /\ ~Locked
    /\ running' = FALSE
    /\ job' = NoJob
    /\ UNCHANGED <<proc, cancel, canceler, status, cli, call, probe, bounds, enrichment,
                   wanted, crossed>>

(***************************************************************************)
(* Processes: serve, its lifespan, and a command that runs its own job.    *)
(***************************************************************************)
\* init_database under migrate: a row that a process left busy is reset.
Migrated == IF status \in Busy THEN "idle" ELSE status

TakeLock(holder) ==
    /\ proc = "none" /\ lives < MaxLives
    /\ proc' = holder
    /\ lives' = lives + 1

Serve ==
    /\ TakeLock("boot")
    /\ status' = Migrated
    /\ UNCHANGED <<enrichment, runner, cli, call, probe, begun, faults, wanted, crossed>>

\* The lifespan listens on the control socket, then starts a quick scan; a
\* command may have been first.
BootScan ==
    /\ proc = "boot" /\ ~Locked
    /\ proc' = "serve"
    /\ IF running \/ begun = MaxJobs
       THEN UNCHANGED <<runner, status, bounds, enrichment, wanted, crossed>>
       ELSE Launch("scan", FALSE)
    /\ UNCHANGED <<cli, call, probe>>

\* The process is gone: its threads die, an open session is rolled back.
Gone ==
    /\ proc' = "none"
    /\ running' = FALSE /\ cancel' = FALSE /\ job' = NoJob /\ canceler' = FALSE
    /\ EndAll
    /\ UNCHANGED <<status, bounds, wanted, crossed>>

\* The control socket closes; jobs.shutdown cancels a job that runs, and waits at
\* most 30 s for its thread.
Stop ==
    /\ proc = "serve" /\ ~Locked
    /\ proc' = "stopping"
    /\ call' = Hangup
    /\ IF running THEN RequestCancel
                  ELSE UNCHANGED <<runner, status, cli, probe, bounds, enrichment,
                                   wanted, crossed>>

Exit ==
    /\ proc = "stopping" /\ ~Locked
    /\ Gone
    /\ UNCHANGED <<cli, call, probe>>

\* A crash, or a lifespan whose radio worker had died and that skips the rest.
Crash ==
    /\ proc \in {"boot", "serve", "local"} /\ lives < MaxLives
    /\ Gone
    /\ cli' = IF proc = "local" THEN "done" ELSE cli
    /\ call' = Hangup
    /\ UNCHANGED probe

(***************************************************************************)
(* run_library_job: through the server if it is there, else locally.       *)
(***************************************************************************)
Still == <<proc, runner, status, enrichment, probe, bounds, wanted, crossed>>

CliHealth ==
    /\ cli = "off"
    /\ cli' = IF Listening THEN "remote" ELSE "lock"
    /\ UNCHANGED <<call, Still>>

CliAsk ==
    /\ cli = "remote" /\ call = "none"
    /\ IF Listening THEN call' = "asked" /\ UNCHANGED cli
                    ELSE cli' = "done" /\ UNCHANGED call
    /\ UNCHANGED Still

\* The control thread starts the job, is busy with one, or fails; it reads the
\* row for its answer.  The command may have given up by now.
HandleStart ==
    /\ Listening /\ call = "asked"
    /\ \E answer \in {"ok", "refused"} :
           /\ \/ \E kind \in Kind, force \in BOOLEAN : Launch(kind, force)
              \/ answer = "refused" /\ LaunchFails
              \/ /\ answer = "refused"
                 /\ (running /\ ~Locked) \/ begun = MaxJobs
                 /\ UNCHANGED <<runner, status, enrichment, bounds, wanted, crossed>>
           /\ call' = IF cli = "remote" THEN answer ELSE "none"
    /\ UNCHANGED <<proc, cli, probe>>

CliAnswered ==
    /\ cli = "remote" /\ call \in {"ok", "refused"}
    /\ cli' = IF call = "ok" THEN "poll" ELSE "done"
    /\ call' = "none"
    /\ UNCHANGED Still

\* No answer within the 10 s of the socket.
CliGivesUp ==
    /\ (cli = "remote" /\ call = "asked") \/ cli = "poll"
    /\ cli' = "done"
    /\ UNCHANGED <<call, Still>>

CliPoll ==
    /\ cli = "poll"
    /\ ~Listening \/ status \notin Busy
    /\ cli' = "done"
    /\ UNCHANGED <<call, Still>>

\* exclusive_maintenance: the lock or an error, a migration, then run_sync.
CliLock ==
    /\ cli = "lock"
    /\ \/ /\ TakeLock("local") /\ begun < MaxJobs
          /\ running' = TRUE /\ cancel' = FALSE /\ begun' = begun + 1
          /\ status' = "running"
          /\ \E kind \in Kind, force \in BOOLEAN :
                 job' = [pc |-> "between", force |-> force, left |-> PhasesOf(kind)]
          /\ cli' = "local"
          /\ wanted' = FALSE
          /\ UNCHANGED <<canceler, faults>>
       \/ /\ proc # "none" \/ lives = MaxLives \/ begun = MaxJobs
          /\ cli' = "done"
          /\ UNCHANGED <<proc, runner, status, bounds, wanted>>
    /\ UNCHANGED <<enrichment, call, probe, crossed>>

\* Ctrl-C raises in the job on the caller's thread; the row is left idle.
CliInterrupt ==
    /\ cli = "local" /\ job.pc \in {"between", "batch"}
    /\ status' = "idle"
    /\ cli' = "done"
    /\ proc' = "none" /\ running' = FALSE /\ cancel' = FALSE /\ job' = NoJob
    /\ RaiseBatch
    /\ UNCHANGED <<canceler, call, probe, bounds, wanted, crossed>>

CliReturn ==
    /\ cli = "local" /\ proc = "local" /\ ~running
    /\ proc' = "none"
    /\ cli' = "done"
    /\ UNCHANGED <<runner, status, enrichment, call, probe, bounds, wanted, crossed>>

\* Any other command: should_migrate_for_cli finds the lock free, and
\* init_database migrates later ("Brief race window is acceptable").
ProbeLock ==
    /\ proc = "none" /\ ~probe /\ status \in Busy
    /\ probe' = TRUE
    /\ UNCHANGED <<proc, runner, status, enrichment, cli, call, bounds, wanted, crossed>>

ProbeMigrates ==
    /\ probe
    /\ probe' = FALSE
    /\ status' = Migrated
    /\ crossed' = (crossed \/ (running /\ status \in Busy))
    /\ UNCHANGED <<proc, runner, enrichment, cli, call, bounds, wanted>>

RetryDaysPass ==
    /\ ~running /\ CoolDownEnds
    /\ UNCHANGED <<proc, runner, status, cli, call, probe, bounds, wanted, crossed>>

\* A request for a cover, while HTTP is served.
CoverRequest ==
    /\ \/ proc = "serve" /\ \E c \in Album : FillCover(c)
       \/ CommitFill
    /\ UNCHANGED <<proc, runner, status, cli, call, probe, bounds, wanted, crossed>>

JobStep == EndPhases \/ WalkPhase \/ BatchPhase \/ InBatch \/ WriteEnd \/ Leave
CliGoesOn == CliAsk \/ CliAnswered \/ CliPoll \/ CliLock \/ CliReturn
CliStep == CliHealth \/ CliGoesOn \/ CliGivesUp \/ CliInterrupt

Next ==
    \/ HttpStart \/ HttpStartFails \/ HttpCancel \/ CliCancel \/ CommitCancel
    \/ JobStep \/ Raise
    \/ Serve \/ BootScan \/ Stop \/ Exit \/ Crash
    \/ CliStep \/ HandleStart \/ ProbeLock \/ ProbeMigrates
    \/ CoverRequest \/ RetryDaysPass

Spec == Init /\ [][Next]_vars

\* The job's thread and the control thread run, a cancel under way commits, a
\* command goes on, and a process that boots or stops gets on with it.
FairSpec ==
    /\ Spec
    /\ WF_vars(JobStep) /\ WF_vars(CommitCancel) /\ WF_vars(CliGoesOn)
    /\ WF_vars(HandleStart) /\ WF_vars(BootScan) /\ WF_vars(Exit)

-----------------------------------------------------------------------------
\* The row a user and a command look at is true: while a process lives, the row
\* is busy exactly while the job it names runs (jobs/runner.py).  It fails only
\* after two writers have crossed: request_cancel's commit on the idle row, or
\* a migration by a command that found the lock free.
RowTellsTheJob ==
    proc # "none" /\ ~crossed =>
        status \in Busy <=> job.pc \in {"between", "batch", "idle", "failed"}

\* A cancel ends the job it was accepted for and no later one, though the one
\* event serves them all; a job nobody canceled is never cut short.
CancelHitsItsJob == job.pc \in {"between", "batch"} /\ cancel => wanted

\* A command that turned to the server returns, whatever comes of its request,
\* of the job or of the server, unless writers of the row have crossed.
CliReturns == cli \in {"remote", "poll"} ~> (cli = "done" \/ crossed)

-----------------------------------------------------------------------------
(* What these rest on.                                                     *)

\* A job has a process and keeps the runner busy, a batch has its job, a
\* cancel under way holds the lock of a runner that is busy, and a process
\* that a command is in is that command's.
JobControl ==
    /\ job.pc # "none" => running
    /\ running => proc # "none"
    /\ job.pc = "batch" <=> batch.kind # "none"
    /\ canceler => running /\ proc # "local"
    /\ cli = "local" <=> proc = "local"

\* The invariant that the proofs show to be inductive.
IInv ==
    /\ TypeOK /\ EnrichmentInv
    /\ JobControl
    /\ RowTellsTheJob /\ CancelHitsItsJob
=============================================================================
