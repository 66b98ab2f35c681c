---------------------------- MODULE AsyncRuntime ----------------------------
(***************************************************************************)
(* Asynchronous Apex (src/runtime/asynchronous.rs): one FIFO of submitted  *)
(* jobs, run only when code calls Test.stopTest.  The call may come from   *)
(* the entry point, from a trigger inside a DML statement, from a runAs    *)
(* block or from a job that is itself being drained, so drains nest, and   *)
(* each job runs in a unit of work nested in whatever is open there.       *)
(*                                                                         *)
(* `stack' is the interpreter's control stack, innermost last.  Apex code  *)
(* runs when an "entry", "scope" (a runAs block or a method of a class     *)
(* with its own sharing), "statement" (a trigger body of a DML statement)  *)
(* or "job" frame is on top; every step of it is chosen freely.  An        *)
(* exception that reaches such code may be caught (the code goes on) or    *)
(* not (the code ends by one of its throwing steps).                       *)
(***************************************************************************)
EXTENDS Integers, FiniteSetsExt, SequencesExt

CONSTANTS
    Users,       \* the users runAs may name
    HostUser,    \* PlatformHost::user_context
    Sharings,    \* sharing modes
    Plain,       \* WithoutSharing, the mode of triggers and entry points
    Null,        \* no user override, no current job
    MaxDrain,    \* MAX_ASYNC_JOBS_PER_DRAIN, 100 in the code
    MaxJobs,     \* bound: jobs submitted in one execution
    Writers,     \* bound: the jobs (0: the entry point) that write to the database
    MaxFrames    \* bound: height of the control stack that code calls from

ASSUME AsyncAssumption ==
    /\ HostUser \in Users /\ Plain \in Sharings
    /\ Null \notin Users /\ Null \notin Nat
    /\ MaxDrain \in Nat \ {0} /\ MaxJobs \in Nat /\ MaxFrames \in Nat
    /\ Writers \subseteq 0..MaxJobs

VARIABLES
    queue,         \* async_queue
    nextId,        \* next_async_sequence
    current,       \* the Id of current_async, or Null
    context,       \* user_override and the sharing of execution_context
    stack,         \* the control stack
    db,            \* the database: which jobs (0: the entry point) wrote to it
    checkpoints,   \* the host's snapshots of it, innermost last
    events         \* the lifecycle events sent to the host

vars == <<queue, nextId, current, context, stack, db, checkpoints, events>>

Top == stack[Len(stack)]
Below == Front(stack)

BeginUnit == checkpoints' = Append(checkpoints, db)
CommitUnit == checkpoints' = Front(checkpoints) /\ db' = db

\* Mutant: the checkpoint is dropped but not restored.
UnrestoredUnit == checkpoints' = Front(checkpoints) /\ db' = db
RollbackUnit == checkpoints' = Front(checkpoints) /\ db' = Last(checkpoints)

EntryContext == [user |-> Null, sharing |-> Plain]

Init ==
    /\ queue = <<>>
    /\ nextId = 1
    /\ current = Null
    /\ context = EntryContext
    /\ stack = <<[kind |-> "entry", context |-> EntryContext]>>
    /\ db = {}
    /\ checkpoints = <<db>>
    /\ events = <<>>

-----------------------------------------------------------------------------
(* Apex code.                                                              *)

CodeRuns == stack # <<>> /\ Top.kind # "drain"

CanCall == CodeRuns /\ Len(stack) < MaxFrames

Event(id, stage) == [job |-> id, stage |-> stage]

\* A job carries the effective user and the mode of its submission.
Captured == [context EXCEPT !.user = IF @ = Null THEN HostUser ELSE @]

HasRoom == Len(queue) < MaxDrain

\* Beyond MaxDrain pending jobs a submission throws and changes nothing.
Submit ==
    /\ CodeRuns
    /\ nextId <= MaxJobs
    /\ HasRoom
    /\ queue' = Append(queue, [id |-> nextId, parent |-> current, context |-> Captured])
    /\ nextId' = nextId + 1
    /\ events' = Append(events, Event(nextId, "Queued"))
    /\ UNCHANGED <<current, context, stack, db, checkpoints>>

WriteRecord ==
    /\ CodeRuns
    /\ \E writer \in Writers :
           /\ writer = IF current = Null THEN 0 ELSE current
           /\ db' = db \cup {writer}
    /\ UNCHANGED <<queue, nextId, current, context, stack, checkpoints, events>>

Enter(kind, installed) ==
    /\ context' = installed
    /\ stack' = Append(stack, [kind |-> kind, saved |-> context, context |-> installed])

EnterScope ==
    /\ CanCall
    /\ \/ \E u \in Users : Enter("scope", [context EXCEPT !.user = u])
       \/ \E s \in Sharings : Enter("scope", [context EXCEPT !.sharing = s])
    /\ UNCHANGED <<queue, nextId, current, db, checkpoints, events>>

\* It returns or throws.
LeaveScope ==
    /\ CodeRuns /\ Top.kind = "scope"
    /\ context' = Top.saved
    /\ stack' = Below
    /\ UNCHANGED <<queue, nextId, current, db, checkpoints, events>>

\* A DML statement reaches the body of a trigger.
BeginStatement ==
    /\ CanCall
    /\ Enter("statement", [context EXCEPT !.sharing = Plain])
    /\ BeginUnit
    /\ UNCHANGED <<queue, nextId, current, db, events>>

\* The queue is not part of what a failed statement rolls back.
EndStatement ==
    /\ CodeRuns /\ Top.kind = "statement"
    /\ CommitUnit \/ RollbackUnit
    /\ context' = Top.saved
    /\ stack' = Below
    /\ UNCHANGED <<queue, nextId, current, events>>

\* The entry point returns, or throws.
EndEntry ==
    /\ CodeRuns /\ Top.kind = "entry"
    /\ CommitUnit \/ RollbackUnit
    /\ stack' = <<>>
    /\ UNCHANGED <<queue, nextId, current, context, events>>

-----------------------------------------------------------------------------
(* Test.stopTest: drain_async_jobs.                                        *)

StopTest ==
    /\ CanCall
    /\ stack' = Append(stack, [kind |-> "drain", drained |-> 0])
    /\ UNCHANGED <<queue, nextId, current, context, db, checkpoints, events>>

Draining == stack # <<>> /\ Top.kind = "drain"

\* Mutants: the newest job first; a bound
\* compared the wrong way.
NewestJob == Last(queue)
NextJob == Head(queue)
RestOfQueue == Tail(queue)
StopsEarly == Top.drained >= MaxDrain - 1
BoundReached == Top.drained >= MaxDrain

StartJob ==
    /\ Draining /\ queue # <<>> /\ ~BoundReached
    /\ LET job == NextJob
       IN  /\ stack' = Append(Append(Below, [Top EXCEPT !.drained = @ + 1]),
                              [kind    |-> "job",
                               job     |-> job,
                               context |-> job.context,
                               saved   |-> context,
                               outer   |-> current,
                               start   |-> db])   \* for a property
           /\ current' = job.id
           /\ context' = job.context
           /\ events' = Append(events, Event(job.id, "Started"))
    /\ queue' = RestOfQueue
    /\ BeginUnit
    /\ UNCHANGED <<nextId, db>>

\* The job that would exceed the bound has left the queue when the drain throws.
ExceedDrain ==
    /\ Draining /\ queue # <<>> /\ BoundReached
    /\ queue' = RestOfQueue
    /\ stack' = Below
    /\ UNCHANGED <<nextId, current, context, db, checkpoints, events>>

\* Mutant: a drain may return after its first job.
DrainedEnough == queue = <<>> \/ Top.drained > 0
NothingPending == queue = <<>>

EndDrain ==
    /\ Draining /\ NothingPending
    /\ stack' = Below
    /\ UNCHANGED <<queue, nextId, current, context, db, checkpoints, events>>

InJob == CodeRuns /\ Top.kind = "job"

\* Mutant: a failed job leaves its context installed.
LeakedContext == IF Last(events').stage = "Failed" THEN context ELSE Top.saved
SavedContext == Top.saved

LeaveJob(stage, rest) ==
    /\ stack' = rest
    /\ current' = Top.outer
    /\ events' = Append(events, Event(Top.job.id, stage))
    /\ context' = SavedContext
    /\ UNCHANGED <<queue, nextId>>

CompleteJob == InJob /\ CommitUnit /\ LeaveJob("Completed", Below)

\* The job is rolled back and its drain throws: the rest stays pending.
FailJob == InJob /\ RollbackUnit /\ LeaveJob("Failed", Front(Below))

Terminated == stack = <<>> /\ UNCHANGED vars

Next ==
    \/ Submit \/ WriteRecord \/ EnterScope \/ LeaveScope
    \/ BeginStatement \/ EndStatement \/ EndEntry
    \/ StopTest \/ StartJob \/ ExceedDrain \/ EndDrain \/ CompleteJob \/ FailJob
    \/ Terminated

Spec == Init /\ [][Next]_vars

\* The loop of a drain goes on when control comes back to it.
DrainStep == StartJob \/ ExceedDrain \/ EndDrain

FairSpec == Spec /\ WF_vars(DrainStep)

-----------------------------------------------------------------------------
(* Properties                                                              *)

At(stage) == {i \in DOMAIN events : events[i].stage = stage}

JobsAt(stage) == {events[i].job : i \in At(stage)}

\* Jobs start in the order they were submitted in, whether the entry point, a
\* trigger, a job or a drain nested in a job submits or starts them, and after
\* drains that failed with jobs still pending; and no job starts twice.
JobsStartOnceInSubmissionOrder ==
    \A i, j \in At("Started") : i < j => events[i].job < events[j].job

\* Code always runs as the job, the user and the mode of the innermost frame:
\* a job those of its submission, and the caller of a drain its own again,
\* after success, failure and an exceeded bound alike.  One checkpoint is open
\* for the entry point, each DML statement and each running job.
ContextAndUnitsFollowStack ==
    LET jobs  == {i \in DOMAIN stack : stack[i].kind = "job"}
        code  == {i \in DOMAIN stack : stack[i].kind # "drain"}
        units == {i \in DOMAIN stack : stack[i].kind \in {"entry", "statement", "job"}}
    IN  /\ Len(checkpoints) = Cardinality(units)
        /\ stack # <<>> =>
               /\ current = IF jobs = {} THEN Null ELSE stack[Max(jobs)].job.id
               /\ context = stack[Max(code)].context

\* A failed job leaves the database as it was when the job started, the work of
\* jobs that completed in a drain nested in it included.
FailedJobsLeaveNoEffect ==
    [][Len(events') > Len(events) /\ Last(events').stage = "Failed" => db' = Top.start]_vars

Unaccounted ==
    (1..(nextId - 1)) \ ({queue[i].id : i \in DOMAIN queue} \cup JobsAt("Started"))

\* A job that is neither pending nor ever started was dropped by a drain that
\* had started MaxDrain jobs itself, and each such drain dropped one.
JobsAreDroppedByFullDrainsOnly ==
    Cardinality(Unaccounted) * MaxDrain <= Cardinality(JobsAt("Started"))

IsPending(id) == \E i \in DOMAIN queue : queue[i].id = id

DrainRuns == \E i \in DOMAIN stack : stack[i].kind = "drain"

\* How often a drain threw: a job failed in it, or it dropped one.
Throws == Cardinality(JobsAt("Failed") \cup Unaccounted)

\* Control comes back to a drain as long as one runs: code that ends.
CodeComesBack == []<>(Draining \/ ~DrainRuns)

\* A job that is pending while a drain runs is started, by that drain or one
\* nested in it, also when the drains before it had failed and other jobs keep
\* being submitted; or it is the one a full drain drops, or the last drain goes
\* by throwing. Test.stopTest never just returns with the job left behind.
PendingJobsRun ==
    CodeComesBack =>
        \A id \in 1..MaxJobs, throws \in 0..(MaxJobs - 1) :
            DrainRuns /\ IsPending(id) /\ Throws = throws
                ~> \/ id \in JobsAt("Started") \cup Unaccounted
                   \/ ~DrainRuns /\ Throws > throws

=============================================================================
