------------------------ MODULE AnalysisJobs_proofs ------------------------
(***************************************************************************)
(* Proofs about AnalysisJobs, for any sets of sessions and jobs and any    *)
(* number of slots.                                                        *)
(***************************************************************************)
EXTENDS AnalysisJobs, FiniteSetTheorems, SequenceTheorems, TLAPS

Requesting == {"idle", "validated", "rejected"}
Working == {"begin", "makeDir", "writeInput", "solving", "solved", "crashed",
            "readOutput", "saveMeta", "saveReport", "ok", "err"}
Over == {"finished", "announced", "exited"}

\* What the place of a job's goroutine says about its registry entry, its
\* verdict and its record.
PlaceInv ==
    \A j \in Jobs :
        /\ session[j] \in Sessions <=> pc[j] # "idle"
        /\ pc[j] \in Requesting => state[j] = "none"
        /\ pc[j] \in {"queued", "slot"} => state[j] = "queued"
        /\ pc[j] \in Working => state[j] = "running"
        /\ pc[j] = "finishing" =>
              /\ state[j] \in Active
              /\ verdict[j] \in Terminal
              /\ state[j] = "queued" => verdict[j] = "cancelled"
        /\ pc[j] \in Over => state[j] = verdict[j] /\ verdict[j] \in Terminal
        /\ pc[j] = "ok" => record[j] \in {"full", "deleted"}
        /\ pc[j] \in {"finishing"} \cup Over /\ verdict[j] = "completed"
              => record[j] \in {"full", "deleted"}
        /\ j \in resultPath <=> state[j] = "completed"

\* The consumer of the tailed progress lives within the run.
ReporterInv ==
    \A j \in Jobs :
        reporter[j] \in {"ranging", "emitting"}
            => pc[j] \in {"solving", "solved", "crashed"}

\* The analysis topic holds the outcome of a job once it was announced.
Untold == {<<>>, <<"started">>}
Told(outcome) == {<<outcome>>, <<"started", outcome>>, <<outcome, "started">>}

TopicInv ==
    \A j \in Jobs :
        /\ pc[j] \in {"announced", "exited"} => topic[j] \in Told(state[j])
        /\ pc[j] \notin {"announced", "exited"} => topic[j] \in Untold

Holders == {j \in Jobs : pc[j] \in Holding}

\* The semaphore counts the jobs that hold a slot.
SemInv == sem = Cardinality(Holders)

IInv ==
    /\ TypeOK
    /\ PlaceInv
    /\ ReporterInv
    /\ TopicInv
    /\ SemInv
    /\ OneActiveJobPerSession
    /\ InputIsOwn
-----------------------------------------------------------------------------
(* The invariant is inductive: one lemma per conjunct, one case per group  *)
(* of actions.                                                             *)

Start(j) == \E s \in Sessions : Validate(j, s)
Step(j) == Start(j) \/ Handle(j) \/ Cancel(j) \/ Execute(j) \/ Consume(j)

Prepare(j) == AllocateRunPaths(j) \/ MakeRunsDir(j) \/ WriteInput(j)
                \/ WriteInputFails(j) \/ SolverSucceeds(j) \/ SolverFails(j)
Collect(j) == AwaitTail(j) \/ ReadOutput(j) \/ SaveMeta(j) \/ SaveReport(j)
                \/ SaveFails(j)
Enter(j) == AcquireSlot(j) \/ CancelledWhileQueued(j) \/ BeginRun(j)

\* The steps of the goroutine, grouped.
LEMMA ExecuteCases ==
    ASSUME NEW j, Execute(j)
    PROVE  \/ Enter(j) \/ Prepare(j) \/ Collect(j) \/ Decide(j) \/ Finish(j)
           \/ EmitDone(j) \/ ReleaseSlot(j)
BY DEF Execute, Enter, Prepare, Collect

LEMMA TypeStep ==
    ASSUME IInv, NEW j \in Jobs, Step(j)
    PROVE  TypeOK'
<1> USE DEF TypeOK, PC, Holding, Active, Terminal, Goto,
        outerVars, registryVars, execVars, reporterVars, storeVars, runVars,
        QuietStep
<1>0. TypeOK
  BY DEF IInv
<1>s. Slots \in Nat
  BY MaxConcurrentAssumption DEF Slots
<1>1. CASE Start(j)
  BY <1>0, <1>1 DEF Start, Validate
<1>2. CASE Handle(j)
  <2>1. CASE Submit(j) \/ SubmitRejected(j)
    BY <1>0, <2>1 DEF Submit, SubmitRejected
  <2>2. CASE PublishStarted(j)
    BY <1>0, <2>2 DEF PublishStarted
  <2> QED
    BY <1>2, <2>1, <2>2 DEF Handle
<1>3. CASE Cancel(j)
  BY <1>0, <1>3 DEF Cancel, CancelCheck, CancelFire
<1>4. CASE Execute(j)
  <2>1. CASE Enter(j)
    <3>1. CASE AcquireSlot(j)
      BY <1>0, <1>s, <3>1 DEF AcquireSlot
    <3>2. CASE CancelledWhileQueued(j) \/ BeginRun(j)
      BY <1>0, <3>2 DEF CancelledWhileQueued, BeginRun
    <3> QED
      BY <2>1, <3>1, <3>2 DEF Enter
  <2>2. CASE Prepare(j)
    <3>1. CASE AllocateRunPaths(j) \/ WriteInputFails(j)
      BY <1>0, <3>1 DEF AllocateRunPaths, WriteInputFails
    <3>4. CASE MakeRunsDir(j)
      BY <1>0, <3>4 DEF IInv, PlaceInv, MakeRunsDir
    <3>2. CASE WriteInput(j)
      BY <1>0, <3>2 DEF WriteInput
    <3>3. CASE SolverSucceeds(j) \/ SolverFails(j)
      BY <1>0, <3>3 DEF SolverSucceeds, SolverFails
    <3> QED
      BY <2>2, <3>1, <3>2, <3>3, <3>4 DEF Prepare
  <2>3. CASE Collect(j)
    BY <1>0, <2>3 DEF Collect, AwaitTail, ReadOutput, SaveMeta, SaveReport,
                      SaveFails
  <2>4. CASE Decide(j)
    BY <1>0, <2>4 DEF Decide
  <2>5. CASE Finish(j)
    BY <1>0, <2>5 DEF IInv, PlaceInv, Finish
  <2>6. CASE EmitDone(j)
    BY <1>0, <2>6 DEF EmitDone, Sink
  <2>7. CASE ReleaseSlot(j)
    <3>1. j \in Holders /\ IsFiniteSet(Holders)
      BY <2>7, JobsAssumption, FS_Subset DEF ReleaseSlot, Holders
    <3>2. sem # 0
      BY <3>1, FS_EmptySet DEF IInv, SemInv
    <3> QED
      BY <1>0, <1>s, <2>7, <3>2 DEF ReleaseSlot
  <2> QED
    BY <1>4, <2>1, <2>2, <2>3, <2>4, <2>5, <2>6, <2>7, ExecuteCases
<1>5. CASE Consume(j)
  <2>1. CASE Report(j)
    BY <1>0, <2>1, MaxReportsAssumption DEF Report
  <2>2. CASE EmitProgress(j)
    BY <1>0, <2>2 DEF EmitProgress, Sink
  <2>3. CASE TailEnds(j)
    BY <1>0, <2>3 DEF TailEnds
  <2> QED
    BY <1>5, <2>1, <2>2, <2>3 DEF Consume
<1> QED
  BY <1>1, <1>2, <1>3, <1>4, <1>5 DEF Step

LEMMA PlaceStep ==
    ASSUME IInv, NEW j \in Jobs, Step(j)
    PROVE  PlaceInv'
<1> USE DEF TypeOK, PlaceInv, PC, Holding, Active, Terminal, Goto, Requesting,
        Working, Over,
        outerVars, registryVars, execVars, reporterVars, storeVars, runVars,
        QuietStep
<1>0. TypeOK /\ PlaceInv
  BY DEF IInv
<1>1. CASE Start(j)
  BY <1>0, <1>1, SessionsAssumption DEF Start, Validate
<1>2. CASE Handle(j)
  BY <1>0, <1>2 DEF Handle, Submit, SubmitRejected, PublishStarted
<1>3. CASE Cancel(j)
  BY <1>0, <1>3 DEF Cancel, CancelCheck, CancelFire
<1>4. CASE Execute(j)
  <2>1. CASE Enter(j)
    BY <1>0, <2>1 DEF Enter, AcquireSlot, CancelledWhileQueued, BeginRun
  <2>2. CASE Prepare(j)
    BY <1>0, <2>2 DEF Prepare, AllocateRunPaths, MakeRunsDir, WriteInput,
                      WriteInputFails, SolverSucceeds, SolverFails
  <2>3. CASE Collect(j)
    BY <1>0, <2>3 DEF Collect, AwaitTail, ReadOutput, SaveMeta, SaveReport,
                      SaveFails
  <2>4. CASE Decide(j)
    BY <1>0, <2>4 DEF Decide
  <2>5. CASE Finish(j)
    BY <1>0, <2>5 DEF Finish
  <2>6. CASE EmitDone(j)
    BY <1>0, <2>6 DEF EmitDone
  <2>7. CASE ReleaseSlot(j)
    BY <1>0, <2>7 DEF ReleaseSlot
  <2> QED
    BY <1>4, <2>1, <2>2, <2>3, <2>4, <2>5, <2>6, <2>7, ExecuteCases
<1>5. CASE Consume(j)
  BY <1>0, <1>5 DEF Consume, Report, EmitProgress, TailEnds
<1> QED
  BY <1>1, <1>2, <1>3, <1>4, <1>5 DEF Step

LEMMA ReporterStep ==
    ASSUME IInv, NEW j \in Jobs, Step(j)
    PROVE  ReporterInv'
<1> USE DEF TypeOK, ReporterInv, PC, Holding, Goto,
        outerVars, registryVars, execVars, reporterVars, storeVars, runVars,
        QuietStep
<1>0. TypeOK /\ ReporterInv
  BY DEF IInv
<1>1. CASE Start(j) \/ Handle(j) \/ Cancel(j)
  BY <1>0, <1>1 DEF Start, Validate, Handle, Submit, SubmitRejected, PublishStarted,
                    Cancel, CancelCheck, CancelFire
<1>2. CASE Enter(j) \/ Decide(j) \/ Finish(j) \/ EmitDone(j) \/ ReleaseSlot(j)
  BY <1>0, <1>2 DEF Enter, AcquireSlot, CancelledWhileQueued, BeginRun,
                    Decide, Finish, EmitDone, ReleaseSlot
<1>3. CASE Prepare(j)
  BY <1>0, <1>3 DEF Prepare, AllocateRunPaths, MakeRunsDir, WriteInput,
                    WriteInputFails, SolverSucceeds, SolverFails
<1>4. CASE Collect(j)
  BY <1>0, <1>4 DEF Collect, AwaitTail, ReadOutput, SaveMeta, SaveReport,
                    SaveFails
<1>5. CASE Consume(j)
  BY <1>0, <1>5 DEF Consume, Report, EmitProgress, TailEnds
<1> QED
  BY <1>1, <1>2, <1>3, <1>4, <1>5, ExecuteCases DEF Step

LEMMA AppendToOne ==
    ASSUME NEW a, NEW b
    PROVE  Append(<<a>>, b) = <<a, b>>
<1> DEFINE S == {a, b}
           s == Append(<<a>>, b)
           t == <<a, b>>
<1>1. <<a>> \in Seq(S) /\ Len(<<a>>) = 1 /\ <<a>>[1] = a
  OBVIOUS
<1>2. s \in Seq(S) /\ Len(s) = 2 /\ s[1] = a /\ s[2] = b
  BY <1>1, AppendProperties
<1>3. t \in Seq(S) /\ Len(t) = 2 /\ t[1] = a /\ t[2] = b
  OBVIOUS
<1>4. \A i \in 1 .. Len(s) : s[i] = t[i]
  BY <1>2, <1>3
<1> QED
  BY <1>2, <1>3, <1>4, SeqEqual

LEMMA AppendToNone ==
    ASSUME NEW a
    PROVE  Append(<<>>, a) = <<a>>
<1> DEFINE S == {a}
           s == Append(<<>>, a)
           t == <<a>>
<1>1. <<>> \in Seq(S) /\ Len(<<>>) = 0
  OBVIOUS
<1>2. s \in Seq(S) /\ Len(s) = 1 /\ s[1] = a
  BY <1>1, AppendProperties
<1>3. t \in Seq(S) /\ Len(t) = 1 /\ t[1] = a
  OBVIOUS
<1>4. \A i \in 1 .. Len(s) : s[i] = t[i]
  BY <1>2, <1>3
<1> QED
  BY <1>2, <1>3, <1>4, SeqEqual

\* What the two kinds of publication do to the events of a job.
LEMMA StartedOnce ==
    ASSUME NEW events, \A i \in DOMAIN events : events[i] # "started"
    PROVE  /\ events \in Untold => Append(events, "started") \in Untold
           /\ \A o : events \in Told(o) => Append(events, "started") \in Told(o)
<1>1. Append(<<>>, "started") = <<"started">>
  BY AppendToNone
<1>2. events # <<"started">>
  <2>1. 1 \in DOMAIN <<"started">> /\ <<"started">>[1] = "started"
    OBVIOUS
  <2> QED
    BY <2>1
<1>3. ASSUME NEW o
      PROVE  /\ Append(<<o>>, "started") = <<o, "started">>
             /\ events # <<"started", o>>
             /\ events # <<o, "started">>
  <2>1. Append(<<o>>, "started") = <<o, "started">>
    BY AppendToOne
  <2>2. 1 \in DOMAIN <<"started", o>> /\ <<"started", o>>[1] = "started"
    OBVIOUS
  <2>3. 2 \in DOMAIN <<o, "started">> /\ <<o, "started">>[2] = "started"
    OBVIOUS
  <2> QED
    BY <2>1, <2>2, <2>3
<1> QED
  BY <1>1, <1>2, <1>3 DEF Untold, Told

LEMMA OutcomeAppended ==
    ASSUME NEW o, NEW events \in Untold
    PROVE  Append(events, o) \in Told(o)
<1>1. Append(<<>>, o) = <<o>>
  BY AppendToNone
<1>2. Append(<<"started">>, o) = <<"started", o>>
  BY AppendToOne
<1> QED
  BY <1>1, <1>2 DEF Untold, Told

LEMMA TopicStep ==
    ASSUME IInv, NEW j \in Jobs, Step(j)
    PROVE  TopicInv'
<1> DEFINE Events == Seq({"started"} \cup Terminal)
<1>0. /\ TopicInv
      /\ pc \in [Jobs -> PC]
      /\ state \in [Jobs -> {"none"} \cup Active \cup Terminal]
      /\ verdict \in [Jobs -> {"none"} \cup Terminal]
      /\ topic \in [Jobs -> Events]
  BY DEF IInv, TypeOK
<1> HIDE DEF Events
<1> USE DEF TopicInv, PC, Holding, Active, Terminal, Goto,
        outerVars, registryVars, execVars, reporterVars, storeVars, runVars,
        QuietStep
<1>1. CASE Start(j) \/ Cancel(j) \/ Submit(j) \/ SubmitRejected(j)
  BY <1>0, <1>1 DEF Start, Validate, Cancel, CancelCheck, CancelFire, Submit,
                    SubmitRejected
<1>2. CASE PublishStarted(j)
  <2>1. topic'[j] = Append(topic[j], "started")
    BY <1>0, <1>2 DEF PublishStarted
  <2>2. \A i \in DOMAIN topic[j] : topic[j][i] # "started"
    BY <1>2 DEF PublishStarted
  <2>4. topic[j] \in Untold => topic'[j] \in Untold
    BY <1>0, <2>1, <2>2, StartedOnce
  <2>5. topic[j] \in Told(state[j]) => topic'[j] \in Told(state[j])
    BY <1>0, <2>1, <2>2, StartedOnce
  <2>3. /\ UNCHANGED <<pc, state>>
        /\ \A k \in Jobs : k # j => topic'[k] = topic[k]
    BY <1>0, <1>2 DEF PublishStarted
  <2> QED
    BY <1>0, <2>3, <2>4, <2>5
<1>3. CASE Enter(j) \/ Decide(j)
  BY <1>0, <1>3 DEF Enter, AcquireSlot, CancelledWhileQueued, BeginRun, Decide
<1>4. CASE Finish(j) \/ ReleaseSlot(j)
  BY <1>0, <1>4 DEF Finish, ReleaseSlot
<1>5. CASE EmitDone(j)
  <2>1. state[j] \in Terminal
    BY <1>0, <1>5 DEF IInv, PlaceInv, Over, EmitDone
  <2>4. topic'[j] = Append(topic[j], state[j])
    BY <1>0, <1>5, <2>1 DEF EmitDone, Sink
  <2>2. topic[j] \in Untold => topic'[j] \in Told(state[j])
    BY <1>0, <2>4, OutcomeAppended
  <2>3. /\ UNCHANGED state
        /\ pc[j] = "finished" /\ pc'[j] = "announced"
        /\ \A k \in Jobs : k # j => pc'[k] = pc[k] /\ topic'[k] = topic[k]
    BY <1>0, <1>5 DEF EmitDone, Sink
  <2> QED
    BY <1>0, <2>2, <2>3
<1>6. CASE Prepare(j)
  BY <1>0, <1>6 DEF Prepare, AllocateRunPaths, MakeRunsDir, WriteInput,
                    WriteInputFails, SolverSucceeds, SolverFails
<1>7. CASE Collect(j)
  BY <1>0, <1>7 DEF Collect, AwaitTail, ReadOutput, SaveMeta, SaveReport,
                    SaveFails
<1>8. CASE Consume(j)
  \* The reporter only runs while the job is running.
  <2>1. reporter[j] = "emitting" => state[j] = "running"
    BY DEF IInv, ReporterInv, PlaceInv, Working
  <2>2. UNCHANGED <<topic, pc, state>>
    BY <1>8, <2>1 DEF Consume, Report, EmitProgress, TailEnds, Sink
  <2> QED
    BY <1>0, <2>2
<1> QED
  BY <1>1, <1>2, <1>3, <1>4, <1>5, <1>6, <1>7, <1>8, ExecuteCases
     DEF Step, Handle

LEMMA SemStep ==
    ASSUME IInv, NEW j \in Jobs, Step(j)
    PROVE  SemInv'
<1> USE DEF TypeOK, SemInv, Holders, PC, Holding, Goto,
        outerVars, registryVars, execVars, reporterVars, storeVars, runVars,
        QuietStep
<1>0. TypeOK /\ SemInv
  BY DEF IInv
<1>f. IsFiniteSet(Holders)
  BY JobsAssumption, FS_Subset
<1>1. CASE AcquireSlot(j)
  <2>1. Holders' = Holders \cup {j} /\ j \notin Holders
    BY <1>0, <1>1 DEF AcquireSlot
  <2>2. Cardinality(Holders') = Cardinality(Holders) + 1
    BY <1>f, <2>1, FS_AddElement
  <2> QED
    BY <1>0, <1>1, <2>2 DEF AcquireSlot
<1>2. CASE ReleaseSlot(j)
  <2>1. Holders' = Holders \ {j} /\ j \in Holders
    BY <1>0, <1>2 DEF ReleaseSlot
  <2>2. Cardinality(Holders') = Cardinality(Holders) - 1
    BY <1>f, <2>1, FS_RemoveElement
  <2> QED
    BY <1>0, <1>2, <2>2 DEF ReleaseSlot
<1>3. CASE Start(j) \/ Handle(j) \/ Cancel(j)
  <2>1. Holders' = Holders /\ sem' = sem
    BY <1>0, <1>3 DEF Start, Validate, Handle, Submit, SubmitRejected,
                      PublishStarted, Cancel, CancelCheck, CancelFire
  <2> QED
    BY <1>0, <2>1
<1>4. CASE CancelledWhileQueued(j) \/ BeginRun(j) \/ Decide(j) \/ Finish(j)
             \/ EmitDone(j)
  <2>1. Holders' = Holders /\ sem' = sem
    BY <1>0, <1>4 DEF CancelledWhileQueued, BeginRun, Decide, Finish, EmitDone
  <2> QED
    BY <1>0, <2>1
<1>5. CASE Prepare(j)
  <2>1. Holders' = Holders /\ sem' = sem
    BY <1>0, <1>5 DEF Prepare, AllocateRunPaths, MakeRunsDir, WriteInput,
                      WriteInputFails, SolverSucceeds, SolverFails
  <2> QED
    BY <1>0, <2>1
<1>6. CASE Collect(j)
  <2>1. Holders' = Holders /\ sem' = sem
    BY <1>0, <1>6 DEF Collect, AwaitTail, ReadOutput, SaveMeta, SaveReport,
                      SaveFails
  <2> QED
    BY <1>0, <2>1
<1>7. CASE Consume(j)
  <2>1. Holders' = Holders /\ sem' = sem
    BY <1>0, <1>7 DEF Consume, Report, EmitProgress, TailEnds
  <2> QED
    BY <1>0, <2>1
<1> QED
  BY <1>1, <1>2, <1>3, <1>4, <1>5, <1>6, <1>7, ExecuteCases DEF Step, Enter

\* Only Submit makes a job active, and it looks at all of them first.
LEMMA OneActiveStep ==
    ASSUME IInv, NEW j \in Jobs, Step(j)
    PROVE  OneActiveJobPerSession'
<1> USE DEF TypeOK, OneActiveJobPerSession, PC, Holding, Active, Terminal,
        Goto,
        outerVars, registryVars, execVars, reporterVars, storeVars, runVars,
        QuietStep
<1>0. TypeOK /\ OneActiveJobPerSession
  BY DEF IInv
<1>1. CASE Start(j)
  <2>1. state'[j] = "none"
    BY <1>1 DEF IInv, PlaceInv, Requesting, Start, Validate
  <2> QED
    BY <1>0, <1>1, <2>1 DEF Start, Validate
<1>2. CASE Submit(j)
  BY <1>0, <1>2 DEF Submit, HasActiveJob
<1>3. CASE SubmitRejected(j) \/ PublishStarted(j) \/ Cancel(j)
  BY <1>0, <1>3 DEF SubmitRejected, PublishStarted, Cancel, CancelCheck,
                    CancelFire
<1>4. CASE Enter(j)
  <2>1. pc[j] = "slot" => state[j] \in Active
    BY DEF IInv, PlaceInv
  <2> QED
    BY <1>0, <1>4, <2>1 DEF Enter, AcquireSlot, CancelledWhileQueued, BeginRun
<1>5. CASE Finish(j)
  <2>1. state[j] \in Active
    BY <1>5 DEF IInv, PlaceInv, Finish
  <2> QED
    BY <1>0, <1>5, <2>1 DEF Finish
<1>6. CASE Decide(j) \/ EmitDone(j) \/ ReleaseSlot(j)
  BY <1>0, <1>6 DEF Decide, EmitDone, ReleaseSlot
<1>7. CASE Prepare(j)
  BY <1>0, <1>7 DEF Prepare, AllocateRunPaths, MakeRunsDir, WriteInput,
                    WriteInputFails, SolverSucceeds, SolverFails
<1>8. CASE Collect(j)
  BY <1>0, <1>8 DEF Collect, AwaitTail, ReadOutput, SaveMeta, SaveReport,
                    SaveFails
<1>9. CASE Consume(j)
  BY <1>0, <1>9 DEF Consume, Report, EmitProgress, TailEnds
<1> QED
  BY <1>1, <1>2, <1>3, <1>4, <1>5, <1>6, <1>7, <1>8, <1>9, ExecuteCases
     DEF Step, Handle

\* Two runs of one session never overlap, so the file in place while a
\* solver runs is its own, or was removed with the session.
LEMMA InputStep ==
    ASSUME IInv, NEW j \in Jobs, Step(j)
    PROVE  InputIsOwn'
<1> USE DEF TypeOK, InputIsOwn, PC, Holding, Active, Goto,
        outerVars, registryVars, execVars, reporterVars, storeVars, runVars,
        QuietStep
<1>0. TypeOK /\ InputIsOwn
  BY DEF IInv
<1>1. CASE Start(j)
  BY <1>0, <1>1 DEF Start, Validate
<1>2. CASE Handle(j) \/ Cancel(j)
  BY <1>0, <1>2 DEF Handle, Submit, SubmitRejected, PublishStarted, Cancel,
                    CancelCheck, CancelFire
<1>3. CASE WriteInput(j)
  <2>1. \A k \in Jobs : k # j /\ pc[k] = "solving" => session[k] # session[j]
    BY <1>3 DEF IInv, PlaceInv, Working, OneActiveJobPerSession, WriteInput
  <2>2. /\ \A k \in Jobs : k # j => pc'[k] = pc[k]
        /\ session[j] \in Sessions
        /\ session' = session
        /\ inputOf' = [inputOf EXCEPT ![session[j]] = j]
    BY <1>0, <1>3 DEF IInv, PlaceInv, WriteInput
  <2> QED
    BY <1>0, <2>1, <2>2
<1>4. CASE \/ AllocateRunPaths(j) \/ MakeRunsDir(j) \/ WriteInputFails(j)
           \/ SolverSucceeds(j) \/ SolverFails(j)
  BY <1>0, <1>4 DEF AllocateRunPaths, MakeRunsDir, WriteInputFails,
                    SolverSucceeds, SolverFails
<1>5. CASE Enter(j) \/ Decide(j) \/ Finish(j) \/ EmitDone(j) \/ ReleaseSlot(j)
  BY <1>0, <1>5 DEF Enter, AcquireSlot, CancelledWhileQueued, BeginRun,
                    Decide, Finish, EmitDone, ReleaseSlot
<1>6. CASE Collect(j)
  BY <1>0, <1>6 DEF Collect, AwaitTail, ReadOutput, SaveMeta, SaveReport,
                    SaveFails
<1>7. CASE Consume(j)
  BY <1>0, <1>7 DEF Consume, Report, EmitProgress, TailEnds
<1> QED
  BY <1>1, <1>2, <1>3, <1>4, <1>5, <1>6, <1>7, ExecuteCases
     DEF Step, Prepare

LEMMA RemoveStep ==
    ASSUME IInv, NEW s \in Sessions, RemoveSession(s)
    PROVE  IInv'
<1> USE DEF RemoveSession, outerVars, registryVars, execVars, reporterVars, runVars
<1>1. TypeOK'
  BY DEF IInv, TypeOK
<1>2. PlaceInv' /\ ReporterInv' /\ TopicInv' /\ OneActiveJobPerSession'
  BY DEF IInv, PlaceInv, ReporterInv, TopicInv, OneActiveJobPerSession
<1>3. SemInv'
  BY DEF IInv, SemInv, Holders
<1>4. InputIsOwn'
  BY DEF IInv, TypeOK, PlaceInv, InputIsOwn
<1> QED
  BY <1>1, <1>2, <1>3, <1>4 DEF IInv

\* A deletion of a record changes nothing else.
LEMMA DeleteIsAside ==
    ASSUME NEW j, DeleteResult(j)
    PROVE  /\ UNCHANGED <<outerVars, registryVars, execVars, reporterVars,
                         storeVars, pc, topic>>
           /\ record[j] \in {"meta", "full"}
           /\ record' = [record EXCEPT ![j] =
                           IF @ = "full" THEN "deleted" ELSE "none"]
BY DEF DeleteResult

LEMMA DeleteStep ==
    ASSUME IInv, NEW j \in Jobs, DeleteResult(j)
    PROVE  IInv'
<1> USE DeleteIsAside DEF outerVars, registryVars, execVars, reporterVars,
                          storeVars
<1>0. TypeOK /\ PlaceInv
  BY DEF IInv
<1>1. TypeOK'
  BY <1>0 DEF TypeOK
<1>2. PlaceInv'
  BY <1>0 DEF TypeOK, PlaceInv
<1>3. ReporterInv' /\ TopicInv' /\ OneActiveJobPerSession' /\ InputIsOwn'
  BY DEF IInv, ReporterInv, TopicInv, OneActiveJobPerSession, InputIsOwn
<1>4. SemInv'
  BY DEF IInv, SemInv, Holders
<1> QED
  BY <1>1, <1>2, <1>3, <1>4 DEF IInv
-----------------------------------------------------------------------------
(* The theorems.                                                           *)

LEMMA InitIInv == Init => IInv
<1> SUFFICES ASSUME Init PROVE IInv
  OBVIOUS
<1> USE DEF Init
<1>1. TypeOK
  <2>1. Slots \in Nat
    BY MaxConcurrentAssumption DEF Slots
  <2>2. \A j \in Jobs : topic[j] = <<>>
    OBVIOUS
  <2> QED
    BY <2>1, <2>2, MaxReportsAssumption DEF TypeOK, PC
<1>2. PlaceInv /\ ReporterInv
  BY SessionsAssumption
     DEF PlaceInv, ReporterInv, Requesting, Working, Over, Active, Terminal
<1>3. TopicInv
  BY DEF TopicInv, Untold
<1>4. SemInv
  <2>1. Holders = {}
    BY DEF Holders, Holding
  <2> QED
    BY <2>1, FS_EmptySet DEF SemInv
<1>5. OneActiveJobPerSession /\ InputIsOwn
  BY DEF OneActiveJobPerSession, InputIsOwn, Active
<1> QED
  BY <1>1, <1>2, <1>3, <1>4, <1>5 DEF IInv

LEMMA NextIInv == IInv /\ [Next]_vars => IInv'
<1>1. CASE UNCHANGED vars
  BY <1>1 DEF IInv, vars, TypeOK, PlaceInv, ReporterInv, TopicInv, SemInv,
              Holders, OneActiveJobPerSession, InputIsOwn
<1>2. ASSUME IInv, NEW j \in Jobs, Step(j)
      PROVE  IInv'
  BY <1>2, TypeStep, PlaceStep, ReporterStep, TopicStep, SemStep,
     OneActiveStep, InputStep DEF IInv
<1>3. ASSUME IInv, NEW s \in Sessions, RemoveSession(s)
      PROVE  IInv'
  BY <1>3, RemoveStep
<1>4. ASSUME IInv, NEW j \in Jobs, DeleteResult(j)
      PROVE  IInv'
  BY <1>4, DeleteStep
<1> QED
  BY <1>1, <1>2, <1>3, <1>4 DEF Next, Step, Start

\* The invariant of the job service, from which the rest follows.
THEOREM InductiveInvariant == Spec => []IInv
BY InitIInv, NextIInv, PTL DEF Spec

\* The registry, the semaphore and the files have the types the code gives
\* them, for any sessions, jobs and number of slots.
THEOREM TypeCorrect == Spec => []TypeOK
BY InductiveInvariant, PTL DEF IInv

\* However requests, cancellations and runs interleave, a session has at most
\* one job that is queued or running (JobService.Submit).
THEOREM OneActiveJob == Spec => []OneActiveJobPerSession
BY InductiveInvariant, PTL DEF IInv

\* The fixed name of the input file never makes a solver read the input of
\* another job (makeRun).
THEOREM OwnInput == Spec => []InputIsOwn
BY InductiveInvariant, PTL DEF IInv

\* The semaphore bounds the runs in progress (NewJobService, execute).
THEOREM BoundedRuns == Spec => []RunsBounded
<1>1. ASSUME IInv PROVE RunsBounded
  <2>1. IsFiniteSet(Holders) /\ Running \in SUBSET Holders
    BY JobsAssumption, FS_Subset DEF Holders, Running, Holding
  <2>2. Cardinality(Running) <= Cardinality(Holders)
    BY <2>1, FS_Subset
  <2>3. Cardinality(Holders) <= Slots /\ Cardinality(Holders) \in Nat
    BY <1>1, <2>1, FS_CardinalityType, MaxConcurrentAssumption
       DEF IInv, TypeOK, SemInv, Slots
  <2>4. Cardinality(Running) \in Nat
    BY <2>1, FS_Subset, FS_CardinalityType
  <2> QED
    BY <2>2, <2>3, <2>4, MaxConcurrentAssumption DEF RunsBounded, Slots
<1> QED
  BY <1>1, InductiveInvariant, PTL

\* A completed job had its full report saved, which only the user's deletion
\* takes away, and only a completed job has a result path (finish,
\* StudyResultService.Save and Delete).
THEOREM ReportOfCompleted == Spec => []CompletedHasReport
<1>1. ASSUME IInv PROVE CompletedHasReport
  BY <1>1 DEF IInv, TypeOK, PlaceInv, CompletedHasReport, PC, Holding,
              Requesting, Working, Over, Active, Terminal
<1> QED
  BY <1>1, InductiveInvariant, PTL

\* Subscribers of the analysis topic learn the outcome of a job at most once,
\* and it is the job's outcome (PublishAnalysisFinished).
THEOREM OutcomeToldOnce == Spec => []OneTerminalEvent
<1>1. ASSUME IInv PROVE OneTerminalEvent
  <2> SUFFICES ASSUME NEW j \in Jobs
               PROVE  /\ Cardinality(TerminalEvents(j)) <= 1
                      /\ \A i \in TerminalEvents(j) : topic[j][i] = state[j]
    BY DEF OneTerminalEvent
  <2>1. CASE topic[j] \in Untold
    <3>1. TerminalEvents(j) = {}
      BY <2>1 DEF TerminalEvents, Untold, Terminal
    <3> QED
      BY <3>1, FS_EmptySet
  <2>2. CASE topic[j] \in Told(state[j])
    <3>1. \E n \in {1, 2} : /\ TerminalEvents(j) \subseteq {n}
                            /\ topic[j][n] = state[j]
      BY <2>2 DEF TerminalEvents, Told, Terminal
    <3>2. PICK n \in {1, 2} : /\ TerminalEvents(j) \subseteq {n}
                              /\ topic[j][n] = state[j]
      BY <3>1
    <3>3. Cardinality({n}) = 1 /\ IsFiniteSet({n})
      BY FS_Singleton
    <3>4. /\ Cardinality(TerminalEvents(j)) <= Cardinality({n})
      BY <3>2, <3>3, FS_Subset
    <3> QED
      BY <3>2, <3>3, <3>4
  <2> QED
    BY <1>1, <2>1, <2>2 DEF IInv, TopicInv
<1> QED
  BY <1>1, InductiveInvariant, PTL
-----------------------------------------------------------------------------
(* Steps: what a step may do to a job, and the lifecycle it implements.    *)

\* The only steps that touch the registry, the sessions of the requests or
\* the analysis topic.
LEMMA VisibleSteps ==
    ASSUME NEW j, Step(j)
    PROVE  \/ Start(j) \/ Submit(j) \/ PublishStarted(j) \/ BeginRun(j)
           \/ Finish(j) \/ EmitDone(j) \/ EmitProgress(j)
           \/ UNCHANGED <<session, state, resultPath, topic>>
<1> USE DEF registryVars, QuietStep
<1>1. CASE Handle(j) \/ Cancel(j) \/ Consume(j)
  BY <1>1 DEF Handle, SubmitRejected, Cancel, CancelCheck, CancelFire,
              Consume, Report, TailEnds
<1>2. CASE Enter(j) \/ Decide(j) \/ ReleaseSlot(j)
  BY <1>2 DEF Enter, AcquireSlot, CancelledWhileQueued, Decide, ReleaseSlot
<1>3. CASE Prepare(j)
  BY <1>3 DEF Prepare, AllocateRunPaths, MakeRunsDir, WriteInput,
              WriteInputFails, SolverSucceeds, SolverFails
<1>4. CASE Collect(j)
  BY <1>4 DEF Collect, AwaitTail, ReadOutput, SaveMeta, SaveReport, SaveFails
<1> QED
  BY <1>1, <1>2, <1>3, <1>4, ExecuteCases DEF Step

\* The reporter finds the job running, so it publishes nothing here.
LEMMA ProgressIsSilent ==
    ASSUME IInv, NEW j \in Jobs, EmitProgress(j)
    PROVE  UNCHANGED <<session, state, resultPath, topic>>
<1>1. state[j] = "running"
  BY DEF IInv, ReporterInv, PlaceInv, Working, EmitProgress
<1> QED
  BY <1>1 DEF EmitProgress, Sink, Terminal, registryVars

\* A finished job keeps its state and its result, whatever happens later
\* (finish, Cancel).
THEOREM FinishedStays == Spec => FinishedIsFinal
<1> DEFINE Kept == \A j \in Jobs : state[j] \in Terminal =>
            state'[j] = state[j] /\ (j \in resultPath => j \in resultPath')
<1>1. ASSUME IInv, NEW j \in Jobs, Step(j) PROVE Kept
  <2>0. TypeOK /\ PlaceInv
    BY <1>1 DEF IInv
  <2>1. CASE Submit(j) \/ BeginRun(j)
    BY <2>0, <2>1 DEF TypeOK, PlaceInv, Requesting, Terminal, Submit,
                      BeginRun, Goto
  <2>2. CASE Finish(j)
    BY <2>0, <2>2 DEF TypeOK, PlaceInv, Active, Terminal, Finish, Goto
  <2>3. CASE Start(j) \/ PublishStarted(j) \/ EmitDone(j) \/ EmitProgress(j)
    BY <2>3 DEF Start, Validate, PublishStarted, EmitDone, EmitProgress,
                registryVars
  <2>4. CASE UNCHANGED <<session, state, resultPath, topic>>
    BY <2>4
  <2> QED
    BY <1>1, <2>1, <2>2, <2>3, <2>4, VisibleSteps
<1>2. ASSUME NEW s \in Sessions, RemoveSession(s) PROVE Kept
  BY <1>2 DEF RemoveSession, registryVars
<1>4. ASSUME NEW j \in Jobs, DeleteResult(j) PROVE Kept
  BY <1>4, DeleteIsAside DEF registryVars
<1>3. IInv /\ [Next]_vars => [Kept]_vars
  BY <1>1, <1>2, <1>4 DEF Next, Step, Start
<1> QED
  BY <1>3, InductiveInvariant, PTL DEF Spec, FinishedIsFinal

\* A job that has not run has no record yet.
Unrun == {"idle", "validated", "rejected", "queued", "slot"}
RecordInv == \A j \in Jobs : pc[j] \in Unrun => record[j] = "none"

\* A job cancelled in the queue goes from there straight to its end.
Parked(j) ==
    /\ pc[j] \in {"queued", "slot", "finishing"} \cup Over
    /\ j \in ctxDone
    /\ record[j] = "none"
    /\ state[j] # "running"

\* What a step of one job leaves alone, and what it does to a queued one.
LEMMA QueuedStep ==
    ASSUME IInv, NEW j \in Jobs, Step(j)
    PROVE  /\ \A k \in Jobs \ {j} : pc'[k] = pc[k] /\ state'[k] = state[k]
           /\ \A k \in Jobs \ {j} : record'[k] = record[k]
           /\ ctxDone \subseteq ctxDone'
           /\ pc[j] \in Unrun \/ pc'[j] \in Unrun =>
                pc[j] \in Unrun /\ record' = record
           /\ Parked(j) => Parked(j)'
<1> USE DEF Goto, Over, Parked, Unrun,
        outerVars, registryVars, execVars, reporterVars, storeVars, runVars,
        QuietStep
<1>0. TypeOK /\ PlaceInv
  BY DEF IInv
<1>1. CASE Start(j) \/ Handle(j)
  BY <1>0, <1>1 DEF TypeOK, Start, Validate, Handle, Submit, SubmitRejected,
                    PublishStarted
<1>2. CASE Cancel(j)
  BY <1>0, <1>2 DEF TypeOK, Cancel, CancelCheck, CancelFire
<1>3. CASE Execute(j)
  <2>1. CASE Enter(j)
    BY <1>0, <2>1 DEF TypeOK, Enter, AcquireSlot, CancelledWhileQueued, BeginRun
  <2>2. CASE Prepare(j)
    BY <1>0, <2>2 DEF TypeOK, Prepare, AllocateRunPaths, MakeRunsDir,
                      WriteInput, WriteInputFails, SolverSucceeds, SolverFails
  <2>3. CASE Collect(j)
    BY <1>0, <2>3 DEF TypeOK, Collect, AwaitTail, ReadOutput, SaveMeta,
                      SaveReport, SaveFails
  <2>4. CASE Decide(j) \/ ReleaseSlot(j)
    BY <1>0, <2>4 DEF TypeOK, Decide, ReleaseSlot
  <2>5. CASE Finish(j) \/ EmitDone(j)
    BY <1>0, <2>5 DEF TypeOK, PlaceInv, Terminal, Finish, EmitDone
  <2> QED
    BY <1>3, <2>1, <2>2, <2>3, <2>4, <2>5, ExecuteCases
<1>4. CASE Consume(j)
  BY <1>0, <1>4 DEF TypeOK, Consume, Report, EmitProgress, TailEnds
<1> QED
  BY <1>1, <1>2, <1>3, <1>4 DEF Step

\* Removing a session touches none of this.
LEMMA RemovalIsAside ==
    ASSUME NEW s \in Sessions, RemoveSession(s)
    PROVE  UNCHANGED <<pc, state, record, ctxDone>>
BY DEF RemoveSession, registryVars

\* A job cancelled in the queue never runs and leaves no record (execute
\* looks at the context once it has its slot).
THEOREM QueuedCancel == Spec => QueuedCancelLeavesNothing
<1>1. Init => RecordInv
  BY DEF Init, RecordInv
<1>2. IInv /\ RecordInv /\ [Next]_vars => RecordInv'
  <2> SUFFICES ASSUME IInv, RecordInv, [Next]_vars PROVE RecordInv'
    OBVIOUS
  <2>1. ASSUME NEW j \in Jobs, Step(j) PROVE RecordInv'
    BY <2>1, QueuedStep DEF RecordInv
  <2>2. ASSUME NEW s \in Sessions, RemoveSession(s) PROVE RecordInv'
    BY <2>2, RemovalIsAside DEF RecordInv
  <2>3. CASE UNCHANGED vars
    BY <2>3 DEF RecordInv, vars
  <2>4. ASSUME NEW j \in Jobs, DeleteResult(j) PROVE RecordInv'
    BY <2>4, DeleteIsAside DEF IInv, TypeOK, RecordInv
  <2> QED
    BY <2>1, <2>2, <2>3, <2>4 DEF Next, Step, Start
<1>3. SUFFICES ASSUME NEW j \in Jobs
               PROVE  Spec => [](pc[j] \in {"queued", "slot"} /\ j \in ctxDone
                          => [](record[j] = "none" /\ state[j] # "running"))
  BY DEF QueuedCancelLeavesNothing
<1>4. IInv /\ RecordInv /\ pc[j] \in {"queued", "slot"} /\ j \in ctxDone
        => Parked(j)
  BY DEF IInv, PlaceInv, RecordInv, Unrun, Parked
<1>5. IInv /\ Parked(j) /\ [Next]_vars => Parked(j)'
  <2> SUFFICES ASSUME IInv, Parked(j), [Next]_vars PROVE Parked(j)'
    OBVIOUS
  <2>1. ASSUME NEW k \in Jobs, Step(k) PROVE Parked(j)'
    BY <2>1, QueuedStep DEF Parked
  <2>2. ASSUME NEW s \in Sessions, RemoveSession(s) PROVE Parked(j)'
    BY <2>2, RemovalIsAside DEF Parked
  <2>3. CASE UNCHANGED vars
    BY <2>3 DEF Parked, vars
  <2>4. ASSUME NEW k \in Jobs, DeleteResult(k) PROVE Parked(j)'
    BY <2>4, DeleteIsAside DEF IInv, TypeOK, Parked, outerVars, registryVars
  <2> QED
    BY <2>1, <2>2, <2>3, <2>4 DEF Next, Step, Start
<1>6. Parked(j) => record[j] = "none" /\ state[j] # "running"
  BY DEF Parked
<1> QED
  BY <1>1, <1>2, <1>4, <1>5, <1>6, InductiveInvariant, PTL DEF Spec

LEMMA OutcomeValue ==
    ASSUME NEW events
    PROVE  /\ events \in Untold => OutcomeOf(events) = "none"
           /\ \A o \in Terminal : events \in Told(o) => OutcomeOf(events) = o
<1> DEFINE told == {i \in DOMAIN events : events[i] \in Terminal}
<1>1. ASSUME events \in Untold PROVE OutcomeOf(events) = "none"
  <2>1. told = {}
    BY <1>1 DEF Untold, Terminal
  <2> QED
    BY <2>1 DEF OutcomeOf
<1>2. ASSUME NEW o \in Terminal, events \in Told(o) PROVE OutcomeOf(events) = o
  <2>1. \A i \in told : events[i] = o
    BY <1>2 DEF Told, Terminal
  <2>2. told # {}
    BY <1>2 DEF Told, Terminal
  <2> QED
    BY <2>1, <2>2 DEF OutcomeOf
<1> QED
  BY <1>1, <1>2

\* Every step of the job service is a step of the lifecycle or none.
LEMMA StepSimulates ==
    ASSUME IInv, IInv', NEW j \in Jobs, Step(j)
    PROVE  [Lifecycle!Next]_(Lifecycle!vars)
<1> USE DEF Lifecycle!vars
<1>0. TypeOK /\ PlaceInv /\ TopicInv
  BY DEF IInv
<1>1. UNCHANGED topic => UNCHANGED Announced
  BY DEF Announced
<1>2. UNCHANGED <<session, state>> => UNCHANGED Owner
  BY DEF Owner
<1>3. CASE Start(j)
  <2>1. PICK s \in Sessions : Validate(j, s)
    BY <1>3 DEF Start
  <2>2. state[j] = "none"
    BY <1>0, <2>1 DEF PlaceInv, Requesting, Validate, Goto
  <2>3. Owner' = Owner
    BY <1>0, <2>1, <2>2 DEF Owner, Validate, TypeOK
  <2> QED
    BY <1>1, <2>1, <2>3 DEF Validate
<1>4. CASE Submit(j)
  <2>1. /\ state[j] = "none"
        /\ session[j] \in Sessions
        /\ UNCHANGED <<session, topic>>
        /\ state' = [state EXCEPT ![j] = "queued"]
    BY <1>0, <1>4 DEF PlaceInv, Requesting, Submit, Goto
  <2>2. Owner' = [Owner EXCEPT ![j] = session[j]]
    BY <1>0, <2>1 DEF Owner, TypeOK
  <2>3. \A k \in Jobs : Owner[k] = session[j] => state[k] \notin Lifecycle!Active
    BY <1>4, <2>1, SessionsAssumption
       DEF Owner, Submit, HasActiveJob, Active, Lifecycle!Active
  <2>4. Lifecycle!Accept(j, session[j])
    BY <1>1, <2>1, <2>2, <2>3 DEF Lifecycle!Accept
  <2> QED
    BY <2>1, <2>4 DEF Lifecycle!Next
<1>5. CASE PublishStarted(j)
  <2>1. Announced' = Announced
    <3>1. ASSUME NEW k \in Jobs PROVE Announced'[k] = Announced[k]
      <4>1. CASE pc[k] \in {"announced", "exited"}
        <5>1. state[k] \in Terminal
          BY <1>0, <4>1 DEF PlaceInv, Over
        <5>2. topic[k] \in Told(state[k]) /\ topic'[k] \in Told(state[k])
          BY <1>5, <4>1 DEF IInv, TopicInv, PublishStarted, registryVars
        <5> QED
          BY <5>1, <5>2, OutcomeValue DEF Announced
      <4>2. CASE pc[k] \notin {"announced", "exited"}
        <5>1. topic[k] \in Untold /\ topic'[k] \in Untold
          BY <1>5, <4>2 DEF IInv, TopicInv, PublishStarted, registryVars
        <5> QED
          BY <5>1, OutcomeValue DEF Announced
      <4> QED
        BY <4>1, <4>2
    <3> QED
      BY <3>1 DEF Announced
  <2> QED
    BY <1>2, <1>5, <2>1 DEF PublishStarted, registryVars
<1>6. CASE BeginRun(j)
  <2>1. state[j] = "queued" /\ state' = [state EXCEPT ![j] = "running"]
    BY <1>0, <1>6 DEF PlaceInv, BeginRun, Goto
  <2>2. Owner' = Owner
    BY <1>0, <1>6, <2>1 DEF Owner, TypeOK, BeginRun
  <2>3. Lifecycle!Begin(j)
    BY <1>1, <1>6, <2>1, <2>2 DEF BeginRun, Lifecycle!Begin
  <2> QED
    BY <2>3 DEF Lifecycle!Next
<1>7. CASE Finish(j)
  <2>1. /\ state[j] \in Active /\ verdict[j] \in Terminal
        /\ state[j] = "queued" => verdict[j] = "cancelled"
        /\ state' = [state EXCEPT ![j] = verdict[j]]
        /\ UNCHANGED <<session, topic>>
    BY <1>0, <1>7 DEF PlaceInv, Finish, Goto
  <2>2. Owner' = Owner
    BY <1>0, <2>1 DEF Owner, TypeOK, Active, Terminal
  <2>3. Lifecycle!Conclude(j, verdict[j])
    BY <1>1, <2>1, <2>2 DEF Lifecycle!Conclude, Lifecycle!Active, Active
  <2> QED
    BY <2>1, <2>3 DEF Lifecycle!Next, Lifecycle!Outcome, Terminal
<1>8. CASE EmitDone(j)
  <2>1. pc[j] = "finished" /\ pc'[j] = "announced" /\ state' = state
    BY <1>0, <1>8 DEF TypeOK, EmitDone, Goto, registryVars
  <2>2. state[j] \in Terminal
    BY <1>0, <2>1 DEF PlaceInv, Over
  <2>3. Announced[j] = "none"
    BY <1>0, <2>1, OutcomeValue DEF TopicInv, Announced
  <2>4. Announced'[j] = state[j]
    BY <2>1, <2>2, OutcomeValue DEF IInv, TopicInv, Announced
  <2>5. \A k \in Jobs : k # j => topic'[k] = topic[k]
    BY <1>0, <1>8 DEF TypeOK, EmitDone, Sink
  <2>6. Announced' = [Announced EXCEPT ![j] = state[j]]
    BY <2>4, <2>5 DEF Announced
  <2>7. Lifecycle!Announce(j)
    BY <1>2, <1>8, <2>1, <2>2, <2>3, <2>6
       DEF Lifecycle!Announce, Lifecycle!Outcome, Terminal, EmitDone, registryVars
  <2> QED
    BY <2>7 DEF Lifecycle!Next
<1>9. CASE EmitProgress(j) \/ UNCHANGED <<session, state, resultPath, topic>>
  BY <1>1, <1>2, <1>9, ProgressIsSilent
<1> QED
  BY <1>3, <1>4, <1>5, <1>6, <1>7, <1>8, <1>9, VisibleSteps

\* The job service implements the lifecycle promised to clients, for any
\* sessions, jobs and number of slots.
THEOREM Refinement == Spec => ImplementsLifecycle
<1>1. Init => Lifecycle!Init
  <2> SUFFICES ASSUME Init PROVE Lifecycle!Init
    OBVIOUS
  <2>1. \A j \in Jobs : topic[j] \in Untold
    BY DEF Init, Untold
  <2> QED
    BY <2>1, OutcomeValue DEF Init, Lifecycle!Init, Owner, Announced
<1>2. ASSUME IInv, IInv', NEW s \in Sessions, RemoveSession(s)
      PROVE  UNCHANGED Lifecycle!vars
  BY <1>2 DEF RemoveSession, registryVars, Lifecycle!vars, Owner, Announced
<1>5. ASSUME NEW j \in Jobs, DeleteResult(j) PROVE UNCHANGED Lifecycle!vars
  BY <1>5, DeleteIsAside DEF registryVars, Lifecycle!vars, Owner, Announced
<1>3. ASSUME UNCHANGED vars PROVE UNCHANGED Lifecycle!vars
  BY <1>3 DEF vars, Lifecycle!vars, Owner, Announced
<1>4. IInv /\ IInv' /\ [Next]_vars => [Lifecycle!Next]_(Lifecycle!vars)
  BY <1>2, <1>3, <1>5, StepSimulates DEF Next, Step, Start
<1> QED
  BY <1>1, <1>4, InductiveInvariant, PTL
     DEF Spec, ImplementsLifecycle, Lifecycle!Spec
=============================================================================
