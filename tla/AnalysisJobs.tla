---------------------------- MODULE AnalysisJobs ----------------------------
(***************************************************************************)
(* The asynchronous analysis jobs of the api-server: JobService            *)
(* (services/analysis_job.go) together with the run it executes            *)
(* (services/contingency_analysis.go), the handlers that start and cancel  *)
(* jobs (handlers/contingency.go) and the sink that turns job events into  *)
(* events of the session's analysis topic (handlers/api.go).               *)
(*                                                                         *)
(* One job is one goroutine running JobService.execute.  pc[j] says how    *)
(* far it got, starting with the HTTP handler that submits it.  Around it  *)
(* run the consumer goroutine of the progress tailer (reporter[j]), the    *)
(* Cancel calls (cancelling), and the removal of sessions.                 *)
(*                                                                         *)
(* Left out: the powerflow topic on which progress ticks travel (nothing   *)
(* else reads them), and the progress figures themselves.                  *)
(***************************************************************************)
EXTENDS Integers, FiniteSets, Sequences

CONSTANTS
    Sessions,       \* session ids; a removed session's id is never reused
    Jobs,           \* one element per StartContingencyAnalysis request
    MaxConcurrent,  \* the argument of NewJobService
    MaxReports,     \* bound: progress events the solver of one job writes
    NoJob,          \* no job has written the input file
    NoSession       \* the job's request has not been made

ASSUME MaxConcurrentAssumption == MaxConcurrent \in Int
ASSUME MaxReportsAssumption == MaxReports \in Nat
ASSUME JobsAssumption == IsFiniteSet(Jobs) /\ NoJob \notin Jobs
ASSUME SessionsAssumption == NoSession \notin Sessions

Active == {"queued", "running"}
Terminal == {"completed", "failed", "cancelled"}

\* NewJobService clamps a non-positive bound to one slot.
Slots == IF MaxConcurrent < 1 THEN 1 ELSE MaxConcurrent

VARIABLES
    live,         \* sessions the SessionService knows
    session,      \* the session a request names
    state,        \* AnalysisJob.State, "none" before Submit registers the job
    resultPath,   \* jobs with a result path (and so a StudyResultID)
    pc,           \* where the request, and then the goroutine of the job, is
    sem,          \* tokens in the semaphore channel
    ctxDone,      \* jobs whose context is cancelled
    cancelling,   \* jobs with a Cancel call that found the job unfinished
    verdict,      \* outcome execute chose, before finish records it
    reporter,     \* the goroutine consuming the tailed progress of a run
    reports,      \* progress events consumed
    runsDir,      \* sessions whose runs directory exists
    inputOf,      \* job whose contingency-input.json is in that directory
    output,       \* jobs whose solver output file exists
    record,       \* the study-result record of a job: none, meta only, full,
                  \* deleted by the user after it was full
    topic         \* events published on the analysis topic for a job

vars == <<live, session, state, resultPath, pc, sem, ctxDone, cancelling,
          verdict, reporter, reports, runsDir, inputOf, output, record, topic>>

outerVars == <<live, ctxDone, cancelling>>
registryVars == <<session, state, resultPath>>
execVars == <<sem, verdict>>
reporterVars == <<reporter, reports>>
storeVars == <<runsDir, inputOf, output>>
runVars == <<reporterVars, storeVars, record>>

\* The places between taking a semaphore token and giving it back.
Holding == {"slot", "begin", "makeDir", "writeInput", "solving", "solved",
            "crashed", "readOutput", "saveMeta", "saveReport", "ok", "err",
            "finishing", "finished", "announced"}
PC == {"idle", "validated", "queued", "rejected", "exited"} \cup Holding

TypeOK ==
    /\ live \subseteq Sessions
    /\ session \in [Jobs -> Sessions \cup {NoSession}]
    /\ state \in [Jobs -> {"none"} \cup Active \cup Terminal]
    /\ resultPath \subseteq Jobs
    /\ pc \in [Jobs -> PC]
    /\ sem \in 0 .. Slots
    /\ ctxDone \subseteq Jobs
    /\ cancelling \subseteq Jobs
    /\ verdict \in [Jobs -> {"none"} \cup Terminal]
    /\ reporter \in [Jobs -> {"off", "ranging", "emitting", "done"}]
    /\ reports \in [Jobs -> 0 .. MaxReports]
    /\ runsDir \subseteq Sessions
    /\ inputOf \in [Sessions -> Jobs \cup {NoJob}]
    /\ output \subseteq Jobs
    /\ record \in [Jobs -> {"none", "meta", "full", "deleted"}]
    /\ topic \in [Jobs -> Seq({"started"} \cup Terminal)]

Init ==
    /\ live = Sessions
    /\ session = [j \in Jobs |-> NoSession]
    /\ state = [j \in Jobs |-> "none"]
    /\ resultPath = {}
    /\ pc = [j \in Jobs |-> "idle"]
    /\ sem = 0
    /\ ctxDone = {}
    /\ cancelling = {}
    /\ verdict = [j \in Jobs |-> "none"]
    /\ reporter = [j \in Jobs |-> "off"]
    /\ reports = [j \in Jobs |-> 0]
    /\ runsDir = {}
    /\ inputOf = [s \in Sessions |-> NoJob]
    /\ output = {}
    /\ record = [j \in Jobs |-> "none"]
    /\ topic = [j \in Jobs |-> <<>>]

Goto(j, from, to) ==
    /\ pc[j] = from
    /\ pc' = [pc EXCEPT ![j] = to]

\* Only the place of the job changes.
QuietStep == UNCHANGED <<outerVars, registryVars, execVars, runVars, topic>>
-----------------------------------------------------------------------------
(* The request: ContingencyService.Start, Submit and the started event.    *)

\* Start finds the session and the study files in place.
Validate(j, s) ==
    /\ Goto(j, "idle", "validated")
    /\ s \in live
    /\ session' = [session EXCEPT ![j] = s]
    /\ UNCHANGED <<runVars, outerVars, execVars, state, resultPath, topic>>

\* Mutant: a job waiting for its slot does not count.
HasActiveJob_RunningOnly(s) ==
    \E k \in Jobs : session[k] = s /\ state[k] = "running"

HasActiveJob(s) == \E k \in Jobs : session[k] = s /\ state[k] \in Active

\* Submit, under its mutex, registers the job unless the session has one
\* that is queued or running, and spawns its goroutine.
Submit(j) ==
    /\ Goto(j, "validated", "queued")
    /\ ~HasActiveJob(session[j])
    /\ state' = [state EXCEPT ![j] = "queued"]
    /\ UNCHANGED <<runVars, outerVars, execVars, session, resultPath, topic>>

SubmitRejected(j) ==
    /\ Goto(j, "validated", "rejected")
    /\ HasActiveJob(session[j])
    /\ QuietStep

\* The handler announces the job after Submit returned: by then the job may
\* already have finished.
PublishStarted(j) ==
    /\ state[j] # "none"
    /\ \A i \in DOMAIN topic[j] : topic[j][i] # "started"
    /\ topic' = [topic EXCEPT ![j] = Append(@, "started")]
    /\ UNCHANGED <<runVars, outerVars, registryVars, execVars, pc>>
-----------------------------------------------------------------------------
(* Cancel: the registry is read under the mutex, the context is cancelled  *)
(* after the mutex is released.                                            *)

CancelCheck(j) ==
    /\ state[j] \in Active
    /\ j \notin cancelling
    /\ cancelling' = cancelling \cup {j}
    /\ UNCHANGED <<runVars, registryVars, execVars, live, pc, ctxDone, topic>>

\* Mutant: Cancel itself records the outcome, after the mutex was released.
CancelFire_RecordsState(j) ==
    /\ j \in cancelling
    /\ cancelling' = cancelling \ {j}
    /\ ctxDone' = ctxDone \cup {j}
    /\ state' = [state EXCEPT ![j] = "cancelled"]
    /\ UNCHANGED <<runVars, execVars, live, session, resultPath, pc, topic>>

CancelFire(j) ==
    /\ j \in cancelling
    /\ cancelling' = cancelling \ {j}
    /\ ctxDone' = ctxDone \cup {j}
    /\ UNCHANGED <<runVars, registryVars, execVars, live, pc, topic>>
-----------------------------------------------------------------------------
(* JobService.execute.                                                     *)

\* Mutant: the channel has one place too many.
AcquireSlot_OneTooMany(j) ==
    /\ Goto(j, "queued", "slot")
    /\ sem <= Slots
    /\ sem' = sem + 1
    /\ UNCHANGED <<runVars, outerVars, registryVars, verdict, topic>>

AcquireSlot(j) ==
    /\ Goto(j, "queued", "slot")
    /\ sem < Slots
    /\ sem' = sem + 1
    /\ UNCHANGED <<runVars, outerVars, registryVars, verdict, topic>>

\* Mutant: a job cancelled in the queue is reported like a failed run.
CancelledWhileQueued_Fails(j) ==
    /\ Goto(j, "slot", "finishing")
    /\ j \in ctxDone
    /\ verdict' = [verdict EXCEPT ![j] = "failed"]
    /\ UNCHANGED <<runVars, outerVars, registryVars, sem, topic>>

CancelledWhileQueued(j) ==
    /\ Goto(j, "slot", "finishing")
    /\ j \in ctxDone
    /\ verdict' = [verdict EXCEPT ![j] = "cancelled"]
    /\ UNCHANGED <<runVars, outerVars, registryVars, sem, topic>>

\* Mutant: the context is not looked at once the slot is acquired.
BeginRun_Unchecked(j) ==
    /\ Goto(j, "slot", "begin")
    /\ state' = [state EXCEPT ![j] = "running"]
    /\ UNCHANGED <<runVars, outerVars, execVars, session, resultPath, topic>>

BeginRun(j) ==
    /\ Goto(j, "slot", "begin")
    /\ j \notin ctxDone
    /\ state' = [state EXCEPT ![j] = "running"]
    /\ UNCHANGED <<runVars, outerVars, execVars, session, resultPath, topic>>

\* Mutant: an error is looked at before the context.
Decide_ErrorFirst(j) ==
    /\ pc[j] \in {"ok", "err"}
    /\ pc' = [pc EXCEPT ![j] = "finishing"]
    /\ verdict' = [verdict EXCEPT ![j] =
                     IF pc[j] = "err" THEN "failed"
                     ELSE IF j \in ctxDone THEN "cancelled" ELSE "completed"]
    /\ UNCHANGED <<runVars, outerVars, registryVars, sem, topic>>

\* The run returned: a cancelled context wins over an error, an error over
\* a result.
Decide(j) ==
    /\ pc[j] \in {"ok", "err"}
    /\ pc' = [pc EXCEPT ![j] = "finishing"]
    /\ verdict' = [verdict EXCEPT ![j] =
                     IF j \in ctxDone THEN "cancelled"
                     ELSE IF pc[j] = "err" THEN "failed" ELSE "completed"]
    /\ UNCHANGED <<runVars, outerVars, registryVars, sem, topic>>

Finish(j) ==
    /\ Goto(j, "finishing", "finished")
    /\ state' = [state EXCEPT ![j] = verdict[j]]
    /\ resultPath' = IF verdict[j] = "completed" THEN resultPath \cup {j}
                                                 ELSE resultPath
    /\ UNCHANGED <<runVars, outerVars, execVars, session, topic>>

\* The sink wired in SetEventPublisher: an event carrying a terminal state
\* is also published on the analysis topic.
Sink(j, snapshot) ==
    topic' = IF snapshot \in Terminal
             THEN [topic EXCEPT ![j] = Append(@, snapshot)]
             ELSE topic

EmitDone(j) ==
    /\ Goto(j, "finished", "announced")
    /\ Sink(j, state[j])
    /\ UNCHANGED <<runVars, outerVars, registryVars, execVars>>

\* Mutant: both the deferred function and the end of execute give it back.
ReleaseSlot_Twice(j) ==
    /\ Goto(j, "announced", "exited")
    /\ sem' = sem - 2
    /\ UNCHANGED <<runVars, outerVars, registryVars, verdict, topic>>

ReleaseSlot(j) ==
    /\ Goto(j, "announced", "exited")
    /\ sem' = sem - 1
    /\ UNCHANGED <<runVars, outerVars, registryVars, verdict, topic>>
-----------------------------------------------------------------------------
(* The run: ContingencyService.makeRun.                                    *)

\* AllocateRunPaths looks the session up under the read lock ...
AllocateRunPaths(j) ==
    /\ \/ session[j] \in live /\ Goto(j, "begin", "makeDir")
       \/ session[j] \notin live /\ Goto(j, "begin", "err")
    /\ QuietStep

\* ... and creates the runs directory after releasing it.
MakeRunsDir(j) ==
    /\ Goto(j, "makeDir", "writeInput")
    /\ runsDir' = runsDir \cup {session[j]}
    /\ UNCHANGED <<outerVars, registryVars, execVars, reporterVars, inputOf,
                   output, record, topic>>

\* The input file has a fixed name in the directory all runs of the session
\* share.  The tailer and its consumer start right after it is written.
WriteInput(j) ==
    /\ Goto(j, "writeInput", "solving")
    /\ session[j] \in runsDir
    /\ inputOf' = [inputOf EXCEPT ![session[j]] = j]
    /\ reporter' = [reporter EXCEPT ![j] = "ranging"]
    /\ UNCHANGED <<outerVars, registryVars, execVars, reports, runsDir,
                   output, record, topic>>

WriteInputFails(j) ==
    /\ Goto(j, "writeInput", "err")
    /\ session[j] \notin runsDir
    /\ QuietStep

\* The solver exits 0 after writing its output, whose directory must exist.
SolverSucceeds(j) ==
    /\ Goto(j, "solving", "solved")
    /\ session[j] \in runsDir
    /\ output' = output \cup {j}
    /\ UNCHANGED <<outerVars, registryVars, execVars, reporterVars, runsDir,
                   inputOf, record, topic>>

\* A non-zero exit, the 30 minute deadline, or the kill that follows the
\* cancellation of the context.
SolverFails(j) ==
    /\ Goto(j, "solving", "crashed")
    /\ QuietStep

\* Mutant: the run goes on without waiting for the consumer.
AwaitTail_NoWait(j) ==
    /\ pc[j] \in {"solved", "crashed"}
    /\ pc' = [pc EXCEPT ![j] = IF @ = "solved" THEN "readOutput" ELSE "err"]
    /\ QuietStep

\* makeRun waits for the consumer of the tailer before it goes on, so that
\* no progress is reported once the run has returned.
AwaitTail(j) ==
    /\ pc[j] \in {"solved", "crashed"}
    /\ reporter[j] = "done"
    /\ pc' = [pc EXCEPT ![j] = IF @ = "solved" THEN "readOutput" ELSE "err"]
    /\ QuietStep

\* The output may be unparseable even when it is there.
ReadOutput(j) ==
    /\ \/ j \in output /\ Goto(j, "readOutput", "saveMeta")
       \/ Goto(j, "readOutput", "err")
    /\ QuietStep

\* StudyResultService.Save writes meta.json, then report.json.
SaveMeta(j) ==
    /\ Goto(j, "saveMeta", "saveReport")
    /\ record' = [record EXCEPT ![j] = "meta"]
    /\ UNCHANGED <<outerVars, registryVars, execVars, reporterVars,
                   storeVars, topic>>

\* The report is written into the directory Save made: without it the write
\* fails (SaveFails).
SaveReport(j) ==
    /\ Goto(j, "saveReport", "ok")
    /\ record[j] = "meta"
    /\ record' = [record EXCEPT ![j] = "full"]
    /\ UNCHANGED <<outerVars, registryVars, execVars, reporterVars,
                   storeVars, topic>>

\* Mutant: the error of Save is logged and the run goes on.
SaveFails_Ignored(j) ==
    /\ pc[j] \in {"saveMeta", "saveReport"}
    /\ pc' = [pc EXCEPT ![j] = "ok"]
    /\ QuietStep

SaveFails(j) ==
    /\ pc[j] \in {"saveMeta", "saveReport"}
    /\ pc' = [pc EXCEPT ![j] = "err"]
    /\ QuietStep
\* StudyResultService.Delete, on behalf of the user, who may see a result in
\* the list as soon as its meta.json is there.  The job's entry in the
\* registry is not told.
DeleteResult(j) ==
    /\ record[j] \in {"meta", "full"}
    /\ record' = [record EXCEPT ![j] = IF @ = "full" THEN "deleted" ELSE "none"]
    /\ UNCHANGED <<outerVars, registryVars, execVars, reporterVars,
                   storeVars, pc, topic>>
-----------------------------------------------------------------------------
(* The consumer of the tailed progress events, which calls report.         *)

\* The reporter records the progress; the event is fanned out only when the
\* last one is progressInterval old.
Report(j) ==
    /\ reporter[j] = "ranging"
    /\ reports[j] < MaxReports
    /\ reports' = [reports EXCEPT ![j] = @ + 1]
    /\ \E r \in {"ranging", "emitting"} : reporter' = [reporter EXCEPT ![j] = r]
    /\ UNCHANGED <<outerVars, registryVars, execVars, storeVars, pc, record,
                   topic>>

\* emit takes the job's state at the time it runs.
EmitProgress(j) ==
    /\ reporter[j] = "emitting"
    /\ Sink(j, state[j])
    /\ reporter' = [reporter EXCEPT ![j] = "ranging"]
    /\ UNCHANGED <<outerVars, registryVars, execVars, storeVars, pc,
                   reports, record>>

\* Mutant: the tailer is not cancelled when the solver failed.
TailEnds_OnSuccess(j) ==
    /\ reporter[j] = "ranging"
    /\ pc[j] = "solved"
    /\ reporter' = [reporter EXCEPT ![j] = "done"]
    /\ UNCHANGED <<outerVars, registryVars, execVars, storeVars, pc,
                   reports, record, topic>>

\* The tailer's context derives from the job's: it ends when the solver has
\* exited or when the job is cancelled.
TailEnds(j) ==
    /\ reporter[j] = "ranging"
    /\ pc[j] \in {"solved", "crashed"} \/ j \in ctxDone
    /\ reporter' = [reporter EXCEPT ![j] = "done"]
    /\ UNCHANGED <<outerVars, registryVars, execVars, storeVars, pc,
                   reports, record, topic>>
-----------------------------------------------------------------------------
(* SessionService removing a session (eviction, expiry): the session leaves *)
(* the map and its directory is removed with everything in it.             *)
RemoveSession(s) ==
    /\ s \in live
    /\ live' = live \ {s}
    /\ runsDir' = runsDir \ {s}
    /\ inputOf' = [inputOf EXCEPT ![s] = NoJob]
    /\ output' = {j \in output : session[j] # s}
    /\ UNCHANGED <<registryVars, execVars, reporterVars, pc, ctxDone,
                   cancelling, record, topic>>
-----------------------------------------------------------------------------
\* What the goroutines of an accepted job do on their own.
Execute(j) ==
    \/ AcquireSlot(j) \/ CancelledWhileQueued(j) \/ BeginRun(j)
    \/ Decide(j) \/ Finish(j) \/ EmitDone(j) \/ ReleaseSlot(j)
    \/ AllocateRunPaths(j) \/ MakeRunsDir(j) \/ WriteInput(j)
    \/ WriteInputFails(j) \/ SolverSucceeds(j) \/ SolverFails(j)
    \/ AwaitTail(j) \/ ReadOutput(j) \/ SaveMeta(j) \/ SaveReport(j)
    \/ SaveFails(j)

Consume(j) == Report(j) \/ EmitProgress(j) \/ TailEnds(j)

Handle(j) == Submit(j) \/ SubmitRejected(j) \/ PublishStarted(j)

Cancel(j) == CancelCheck(j) \/ CancelFire(j)

Next ==
    \/ \E j \in Jobs :
          \/ \E s \in Sessions : Validate(j, s)
          \/ Handle(j) \/ Cancel(j) \/ Execute(j) \/ Consume(j)
          \/ DeleteResult(j)
    \/ \E s \in Sessions : RemoveSession(s)

Spec == Init /\ [][Next]_vars

\* Goroutines are scheduled, and the solver ends within its deadline.
\* Nothing obliges a client to start or cancel a job.
Fairness == \A j \in Jobs : WF_vars(Execute(j)) /\ WF_vars(Consume(j))

FairSpec == Spec /\ Fairness
-----------------------------------------------------------------------------
(* Properties.                                                             *)

\* A session never has two jobs that are queued or running, although
\* requests for it validate concurrently (Submit, analysis_job.go:91).
OneActiveJobPerSession ==
    \A j, k \in Jobs :
        /\ session[j] = session[k]
        /\ state[j] \in Active
        /\ state[k] \in Active
        => j = k

\* The solver of a job never reads the input of another job, although the
\* runs of a session write it under one fixed name (makeRun): only the rule
\* of one active job per session keeps them apart.
InputIsOwn ==
    \A j \in Jobs : pc[j] = "solving" => inputOf[session[j]] \in {j, NoJob}

Running == {j \in Jobs : pc[j] \in Holding \ {"slot"} /\ pc[j] # "announced"}

\* No more runs are in progress than the service was built for
\* (NewJobService): a job gives its slot back only when it is over.
RunsBounded == Cardinality(Running) <= Slots

\* A job reported as completed had its whole report saved before it said so,
\* and only such a job has a result id (finish, StudyResultService.Save): a
\* report that is not there any more was deleted by the user, the one cause
\* left for GetAnalysisReport's "completed but the report is unreadable"
\* (contingency.go:96).
CompletedHasReport ==
    \A j \in Jobs :
        /\ state[j] = "completed" => record[j] \in {"full", "deleted"}
        /\ j \in resultPath <=> state[j] = "completed"

TerminalEvents(j) == {i \in DOMAIN topic[j] : topic[j][i] \in Terminal}

\* Subscribers get at most one terminal event for a job and it tells the
\* state the job is in ("exactly one terminal event per job",
\* eventPublisher.go:295), whatever the progress reporter and Cancel do.
OneTerminalEvent ==
    \A j \in Jobs :
        /\ Cardinality(TerminalEvents(j)) <= 1
        /\ \A i \in TerminalEvents(j) : topic[j][i] = state[j]

\* A run is promoted to the durable store only by a job that ran, and a job
\* cancelled before it got a slot leaves no trace in the store.
QueuedCancelLeavesNothing ==
    \A j \in Jobs : [](pc[j] \in {"queued", "slot"} /\ j \in ctxDone
                        => [](record[j] = "none" /\ state[j] # "running"))

\* A finished job stays as it is: neither a late Cancel nor a late progress
\* report changes its state or withdraws its result.
FinishedIsFinal ==
    [][\A j \in Jobs : state[j] \in Terminal =>
            state'[j] = state[j] /\ (j \in resultPath => j \in resultPath')]_vars

\* Every accepted job comes to an end, gives its slot back and has its
\* outcome announced, even when its session is removed meanwhile.
JobsEnd ==
    \A j \in Jobs : state[j] = "queued" ~>
                       pc[j] = "exited" /\ TerminalEvents(j) # {}

\* A cancellation that lands before execute looks at the context after the
\* run ends the job as cancelled (execute, analysis_job.go:157 and 170).
CancelTakesEffect ==
    \A j \in Jobs : state[j] \in Active /\ j \in ctxDone /\ verdict[j] = "none"
                        ~> state[j] = "cancelled"

Owner == [j \in Jobs |-> IF state[j] = "none" THEN NoSession ELSE session[j]]

OutcomeOf(events) ==
    LET told == {i \in DOMAIN events : events[i] \in Terminal}
    IN  IF told = {} THEN "none" ELSE events[CHOOSE i \in told : TRUE]

Announced == [j \in Jobs |-> OutcomeOf(topic[j])]

\* The promise to clients: see AnalysisLifecycle.
Lifecycle == INSTANCE AnalysisLifecycle
             WITH owner <- Owner, phase <- state, announced <- Announced

\* The job service implements the lifecycle it promises.
ImplementsLifecycle == Lifecycle!Spec

\* "Cancelling a finished job is an error" (analysis_job.go:133): Cancel
\* reports success only for a job that has not finished.
CancelOfFinishedIsError ==
    [][\A j \in Jobs : j \in cancelling \ cancelling' => state[j] \notin Terminal]_vars
=============================================================================
