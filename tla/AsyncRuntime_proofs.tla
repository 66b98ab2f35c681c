------------------------- MODULE AsyncRuntime_proofs ------------------------
(***************************************************************************)
(* What holds of AsyncRuntime for every set of users and sharing modes,    *)
(* every drain bound, and any number of jobs and nested frames.  What      *)
(* `context', `current' and `checkpoints' should be is a function of the   *)
(* stack; the invariant says so for every part of the stack, because that  *)
(* is what code that ends goes back to.                                    *)
(***************************************************************************)
EXTENDS AsyncRuntime, SequenceTheorems, FiniteSetTheorems, TLAPS

Contexts == [user : Users \cup {Null}, sharing : Sharings]
Jobs == [id : Nat, parent : Nat \cup {Null}, context : Contexts]
Events == [job : Nat, stage : {"Queued", "Started", "Completed", "Failed"}]
Databases == SUBSET Writers

EntryFrames == [kind : {"entry"}, context : Contexts]
CallFrames == [kind : {"scope", "statement"}, saved : Contexts, context : Contexts]
DrainFrames == [kind : {"drain"}, drained : 0..MaxDrain]
JobFrames == [kind : {"job"}, job : Jobs, context : Contexts, saved : Contexts,
              outer : Nat \cup {Null}, start : Databases]
Frames == EntryFrames \cup CallFrames \cup DrainFrames \cup JobFrames

AsyncTypes ==
    /\ queue \in Seq(Jobs)
    /\ nextId \in Nat \ {0}
    /\ current \in Nat \cup {Null}
    /\ context \in Contexts
    /\ stack \in Seq(Frames)
    /\ db \in Databases
    /\ checkpoints \in Seq(Databases)
    /\ events \in Seq(Events)

\* Jobs have started in the order of their numbers, and those that are pending
\* will: a job that ever started comes before every pending one.
QueueIsOrdered ==
    /\ \A i, j \in DOMAIN queue : i < j => queue[i].id < queue[j].id
    /\ \A i \in DOMAIN queue : queue[i].id \in 1..(nextId - 1)
    /\ \A e \in At("Started") : events[e].job \in 1..(nextId - 1)
    /\ \A e \in At("Started") : \A i \in DOMAIN queue : events[e].job < queue[i].id

\* c is the context of the innermost frame of code among the first n of s.
IsContext(s, n, c) ==
    \E i \in 1..n :
        /\ s[i].kind # "drain" /\ s[i].context = c
        /\ \A j \in (i + 1)..n : s[j].kind = "drain"

\* x is the innermost job among the first n frames of s.
IsCurrent(s, n, x) ==
    \/ x = Null /\ \A j \in 1..n : s[j].kind # "job"
    \/ \E i \in 1..n :
           /\ s[i].kind = "job" /\ s[i].job.id = x
           /\ \A j \in (i + 1)..n : s[j].kind # "job"

\* The entry point is at the bottom only, a job runs for the drain below it, and
\* what a frame has saved is what the frame below it asks for.
IsNested(s, m) ==
    /\ s[m].kind = "entry" <=> m = 1
    /\ s[m].kind \in {"scope", "statement", "job"} => IsContext(s, m - 1, s[m].saved)
    /\ s[m].kind = "job" =>
           m > 1 /\ s[m - 1].kind = "drain" /\ IsCurrent(s, m - 1, s[m].outer)

\* What is installed is what the innermost frame asks for.
ContextFollowsStack ==
    /\ \A m \in 1..Len(stack) : IsNested(stack, m)
    /\ stack # <<>> =>
           IsContext(stack, Len(stack), context) /\ IsCurrent(stack, Len(stack), current)

UnitKinds == {"entry", "statement", "job"}

Units(s, n) == {i \in 1..n : s[i].kind \in UnitKinds}

\* Each open unit has its checkpoint, and a job's is the database it started on.
HasCheckpoint(s, points, m) ==
    s[m].kind = "job" => points[Cardinality(Units(s, m))] = s[m].start

CheckpointsFollowStack ==
    /\ Len(checkpoints) = Cardinality(Units(stack, Len(stack)))
    /\ \A m \in 1..Len(stack) : HasCheckpoint(stack, checkpoints, m)

\* One element for every job that a drain still open has started itself.
OpenStarts ==
    {p \in (1..Len(stack)) \X (1..MaxDrain) :
        stack[p[1]].kind = "drain" /\ p[2] <= stack[p[1]].drained}

\* A drain that dropped a job had started MaxDrain jobs, which no other drain
\* had, nor any that is still open.
DropsAreAccounted ==
    Cardinality(Unaccounted) * MaxDrain + Cardinality(OpenStarts)
        <= Cardinality(JobsAt("Started"))

AsyncInvariant ==
    /\ AsyncTypes
    /\ QueueIsOrdered
    /\ JobsStartOnceInSubmissionOrder
    /\ ContextFollowsStack
    /\ CheckpointsFollowStack
    /\ DropsAreAccounted

-----------------------------------------------------------------------------
(* The stack and its types                                                 *)

LEMMA FrontProperties ==
    ASSUME NEW S, NEW s \in Seq(S), s # <<>>
    PROVE  /\ Len(s) \in Nat \ {0}
           /\ Front(s) \in Seq(S) /\ Len(Front(s)) = Len(s) - 1
           /\ \A i \in 1..(Len(s) - 1) : Front(s)[i] = s[i]
           /\ Last(s) \in S /\ Last(s) = s[Len(s)]
<1>1. Len(s) \in Nat \ {0} /\ \A i \in 1..Len(s) : s[i] \in S
  BY ElementOfSeq, EmptySeq
<1>2. \A n \in Nat : n <= Len(s) =>
         /\ SubSeq(s, 1, n) \in Seq(S) /\ Len(SubSeq(s, 1, n)) = n
         /\ \A i \in 1..n : SubSeq(s, 1, n)[i] = s[i]
  <2> TAKE n \in Nat
  <2> HAVE n <= Len(s)
  <2>1. \A i \in 1..n : s[i] \in S
    BY <1>1
  <2> QED
    BY <2>1, SubSeqProperties
<1>3. Len(s) - 1 \in Nat /\ Len(s) - 1 <= Len(s)
  BY <1>1
<1>4. /\ Front(s) \in Seq(S) /\ Len(Front(s)) = Len(s) - 1
      /\ \A i \in 1..(Len(s) - 1) : Front(s)[i] = s[i]
  BY <1>2, <1>3 DEF Front
<1>5. Last(s) \in S /\ Last(s) = s[Len(s)]
  BY <1>1 DEF Last
<1> QED
  BY <1>1, <1>4, <1>5

\* The frame on top, and the stack without it.
LEMMA TopFrame ==
    ASSUME AsyncTypes, stack # <<>>
    PROVE  /\ Len(stack) \in Nat \ {0} /\ Top \in Frames
           /\ Below \in Seq(Frames) /\ Len(Below) = Len(stack) - 1
           /\ \A i \in 1..(Len(stack) - 1) : Below[i] = stack[i]
BY FrontProperties DEF AsyncTypes, Top, Below, Last

\* A job that starts is the first one pending; the rest of the queue stays.
LEMMA QueueHead ==
    ASSUME AsyncTypes, queue # <<>>
    PROVE  /\ Len(queue) \in Nat \ {0} /\ queue[1] \in Jobs
           /\ NextJob = queue[1]
           /\ RestOfQueue \in Seq(Jobs) /\ Len(RestOfQueue) = Len(queue) - 1
           /\ \A i \in 1..(Len(queue) - 1) : RestOfQueue[i] = queue[i + 1]
BY HeadTailProperties, EmptySeq DEF AsyncTypes, NextJob, RestOfQueue

\* The frames below the drain stay; the drain counts the job, which is on top.
LEMMA StartJobStack ==
    ASSUME AsyncTypes, StartJob
    PROVE  LET job == stack'[Len(stack) + 1]
           IN  /\ Len(stack) \in Nat \ {0} /\ Top \in DrainFrames /\ Top.drained < MaxDrain
               /\ stack' \in Seq(Frames) /\ Len(stack') = Len(stack) + 1
               /\ \A i \in 1..(Len(stack) - 1) : stack'[i] = stack[i]
               /\ stack'[Len(stack)] = [kind |-> "drain", drained |-> Top.drained + 1]
               /\ job \in JobFrames
               /\ job.job = queue[1] /\ job.context = queue[1].context
               /\ job.saved = context /\ job.outer = current /\ job.start = db
<1>1. stack # <<>> /\ Top.kind = "drain" /\ queue # <<>> /\ ~(Top.drained >= MaxDrain)
  BY DEF StartJob, Draining, BoundReached
<1>2. Top \in DrainFrames
  BY <1>1, TopFrame DEF Frames, EntryFrames, CallFrames, DrainFrames, JobFrames
<1>3. Top.drained \in 0..MaxDrain /\ Top.drained < MaxDrain
  BY <1>1, <1>2, AsyncAssumption DEF DrainFrames
<1> DEFINE drain == [Top EXCEPT !.drained = @ + 1]
           job == [kind |-> "job", job |-> NextJob, context |-> NextJob.context,
                   saved |-> context, outer |-> current, start |-> db]
<1>4. /\ drain = [kind |-> "drain", drained |-> Top.drained + 1]
      /\ drain \in Frames
  BY <1>2, <1>3, AsyncAssumption DEF DrainFrames, Frames
<1>5. job \in JobFrames /\ NextJob = queue[1]
  BY <1>1, QueueHead DEF JobFrames, Jobs, AsyncTypes
<1>6. stack' = Append(Append(Below, drain), job)
  BY DEF StartJob
<1> HIDE DEF drain
<1>7. /\ Append(Below, drain) \in Seq(Frames)
      /\ Len(Append(Below, drain)) = Len(stack)
      /\ \A i \in 1..(Len(stack) - 1) : Append(Below, drain)[i] = stack[i]
      /\ Append(Below, drain)[Len(stack)] = drain
  BY <1>1, <1>4, TopFrame, AppendProperties
<1>8. /\ job.job = queue[1] /\ job.context = queue[1].context
      /\ job.saved = context /\ job.outer = current /\ job.start = db
  BY <1>5
<1> HIDE DEF job
<1>9. /\ stack' \in Seq(Frames) /\ Len(stack') = Len(stack) + 1
      /\ \A i \in 1..Len(stack) : stack'[i] = Append(Below, drain)[i]
      /\ stack'[Len(stack) + 1] = job
  <2>1. job \in Frames
    BY <1>5 DEF Frames
  <2> QED
    BY <1>6, <1>7, <2>1, AppendProperties
<1> QED
  BY <1>1, <1>2, <1>3, <1>4, <1>5, <1>7, <1>8, <1>9, TopFrame

-----------------------------------------------------------------------------
(* Types                                                                   *)

LEMMA CapturedType == AsyncTypes => Captured \in Contexts
BY AsyncAssumption DEF AsyncTypes, Captured, Contexts

LEMMA InitTypes == Init => AsyncTypes
<1> SUFFICES ASSUME Init PROVE AsyncTypes
  OBVIOUS
<1>1. EntryContext \in Contexts
  BY AsyncAssumption DEF EntryContext, Contexts
<1>2. [kind |-> "entry", context |-> EntryContext] \in Frames
  BY <1>1 DEF Frames, EntryFrames
<1>3. stack \in Seq(Frames)
  BY <1>2 DEF Init
<1>4. db \in Databases /\ checkpoints \in Seq(Databases)
  BY DEF Init, Databases
<1>5. queue \in Seq(Jobs) /\ events \in Seq(Events)
  BY EmptySeq DEF Init
<1> QED
  BY <1>1, <1>3, <1>4, <1>5 DEF Init, AsyncTypes

\* There is a checkpoint to go back to while a unit is open.
LEMMA UnitTypes ==
    ASSUME AsyncTypes
    PROVE  /\ BeginUnit => checkpoints' \in Seq(Databases)
           /\ checkpoints # <<>> /\ (CommitUnit \/ RollbackUnit) =>
                  checkpoints' \in Seq(Databases) /\ db' \in Databases
<1>1. BeginUnit => checkpoints' \in Seq(Databases)
  BY AppendProperties DEF AsyncTypes, BeginUnit
<1>2. ASSUME checkpoints # <<>>, CommitUnit \/ RollbackUnit
      PROVE  checkpoints' \in Seq(Databases) /\ db' \in Databases
  <2>1. Front(checkpoints) \in Seq(Databases) /\ Last(checkpoints) \in Databases
    BY <1>2, FrontProperties DEF AsyncTypes
  <2> QED
    BY <1>2, <2>1 DEF AsyncTypes, CommitUnit, RollbackUnit
<1> QED
  BY <1>1, <1>2

\* A saved context is a context.
LEMMA SavedType ==
    ASSUME AsyncTypes, stack # <<>>
    PROVE  /\ Top.kind \in {"scope", "statement", "job"} => Top.saved \in Contexts
           /\ Top.kind = "job" => Top \in JobFrames
BY TopFrame DEF Frames, EntryFrames, CallFrames, DrainFrames, JobFrames

LEMMA EnterTypes ==
    ASSUME AsyncTypes, NEW kind \in {"scope", "statement"}, NEW c \in Contexts, Enter(kind, c)
    PROVE  stack' \in Seq(Frames) /\ context' \in Contexts
<1>1. [kind |-> kind, saved |-> context, context |-> c] \in Frames
  BY DEF AsyncTypes, Frames, CallFrames
<1> QED
  BY <1>1, AppendProperties DEF Enter, AsyncTypes

\* A step keeps the types, given that a unit that ends has a checkpoint.
LEMMA NextTypes ==
    ASSUME AsyncTypes, [Next]_vars,
           stack # <<>> /\ Top.kind \in UnitKinds => checkpoints # <<>>,
           stack # <<>> /\ Top.kind = "job" => Below # <<>>
    PROVE  AsyncTypes'
<1>1. CASE Submit
  <2>1. nextId \in Nat /\ current \in Nat \cup {Null} /\ Captured \in Contexts
    BY CapturedType DEF AsyncTypes
  <2>2. [id |-> nextId, parent |-> current, context |-> Captured] \in Jobs
    BY <2>1 DEF Jobs
  <2>3. Event(nextId, "Queued") \in Events
    BY <2>1 DEF Event, Events
  <2> QED
    BY <1>1, <2>1, <2>2, <2>3, AppendProperties DEF Submit, AsyncTypes
<1>2. CASE WriteRecord
  BY <1>2 DEF WriteRecord, AsyncTypes, Databases
<1>3. CASE EnterScope
  <2>1. \A u \in Users : [context EXCEPT !.user = u] \in Contexts
    BY DEF AsyncTypes, Contexts
  <2>2. \A s \in Sharings : [context EXCEPT !.sharing = s] \in Contexts
    BY DEF AsyncTypes, Contexts
  <2>3. stack' \in Seq(Frames) /\ context' \in Contexts
    BY <1>3, <2>1, <2>2, EnterTypes DEF EnterScope
  <2> QED
    BY <1>3, <2>3 DEF EnterScope, AsyncTypes
<1>4. CASE LeaveScope
  BY <1>4, TopFrame, SavedType DEF LeaveScope, CodeRuns, AsyncTypes
<1>5. CASE BeginStatement
  <2>1. [context EXCEPT !.sharing = Plain] \in Contexts
    BY AsyncAssumption DEF AsyncTypes, Contexts
  <2>2. stack' \in Seq(Frames) /\ context' \in Contexts
    BY <1>5, <2>1, EnterTypes DEF BeginStatement
  <2> QED
    BY <1>5, <2>2, UnitTypes DEF BeginStatement, AsyncTypes
<1>6. CASE EndStatement
  BY <1>6, TopFrame, SavedType, UnitTypes DEF EndStatement, CodeRuns, AsyncTypes, UnitKinds
<1>7. CASE EndEntry
  BY <1>7, UnitTypes, EmptySeq DEF EndEntry, CodeRuns, AsyncTypes, UnitKinds
<1>8. CASE StopTest
  <2>1. [kind |-> "drain", drained |-> 0] \in Frames
    BY AsyncAssumption DEF Frames, DrainFrames
  <2> QED
    BY <1>8, <2>1, AppendProperties DEF StopTest, AsyncTypes
<1>9. CASE StartJob
  <2>1. queue # <<>> /\ queue[1] \in Jobs /\ NextJob = queue[1] /\ RestOfQueue \in Seq(Jobs)
    BY <1>9, QueueHead DEF StartJob
  <2>2. queue[1].id \in Nat /\ queue[1].context \in Contexts
    BY <2>1 DEF Jobs
  <2>3. Event(queue[1].id, "Started") \in Events
    BY <2>2 DEF Event, Events
  <2>4. events' \in Seq(Events)
    BY <1>9, <2>1, <2>3, AppendProperties DEF StartJob, AsyncTypes
  <2> QED
    BY <1>9, <2>1, <2>2, <2>4, StartJobStack, UnitTypes DEF StartJob, AsyncTypes
<1>10. CASE ExceedDrain
  BY <1>10, TopFrame, QueueHead DEF ExceedDrain, Draining, AsyncTypes
<1>11. CASE EndDrain
  BY <1>11, TopFrame DEF EndDrain, Draining, AsyncTypes
<1>12. ASSUME InJob, NEW stage \in {"Completed", "Failed"}, NEW rest \in {Below, Front(Below)},
              CommitUnit \/ RollbackUnit, LeaveJob(stage, rest),
              rest = Below \/ Below # <<>>
       PROVE  AsyncTypes'
  <2>1. stack # <<>> /\ Top.kind = "job" /\ Top \in JobFrames
    BY <1>12, SavedType DEF InJob, CodeRuns
  <2>2. rest \in Seq(Frames)
    BY <1>12, <2>1, TopFrame, FrontProperties
  <2>3. Event(Top.job.id, stage) \in Events
    BY <2>1 DEF Event, Events, JobFrames, Jobs
  <2>4. events' \in Seq(Events)
    BY <1>12, <2>3, AppendProperties DEF LeaveJob, AsyncTypes
  <2>5. checkpoints' \in Seq(Databases) /\ db' \in Databases
    BY <1>12, <2>1, UnitTypes DEF UnitKinds
  <2> QED
    BY <1>12, <2>1, <2>2, <2>4, <2>5 DEF LeaveJob, SavedContext, JobFrames, AsyncTypes
<1>13. CASE CompleteJob
  BY <1>12, <1>13 DEF CompleteJob
<1>14. CASE FailJob
  BY <1>12, <1>14 DEF FailJob, InJob, CodeRuns
<1>15. CASE UNCHANGED vars
  BY <1>15 DEF vars, AsyncTypes
<1> QED
  BY <1>1, <1>2, <1>3, <1>4, <1>5, <1>6, <1>7, <1>8, <1>9, <1>10, <1>11, <1>13, <1>14, <1>15
  DEF Next, Terminated

-----------------------------------------------------------------------------
(* The queue                                                               *)

\* An event sent to the host adds its job to those at its stage.
LEMMA EventSent ==
    ASSUME AsyncTypes, NEW e \in Events, events' = Append(events, e)
    PROVE  /\ Len(events) \in Nat /\ DOMAIN events = 1..Len(events)
           /\ DOMAIN events' = 1..(Len(events) + 1)
           /\ \A i \in 1..Len(events) : events'[i] = events[i]
           /\ events'[Len(events) + 1] = e
           /\ At("Started")' = IF e.stage = "Started" THEN At("Started") \cup {Len(events) + 1}
                                                      ELSE At("Started")
<1>1. /\ Len(events) \in Nat /\ DOMAIN events = 1..Len(events)
      /\ events' \in Seq(Events) /\ Len(events') = Len(events) + 1
      /\ \A i \in 1..Len(events) : events'[i] = events[i]
      /\ events'[Len(events) + 1] = e
  BY AppendProperties, LenProperties DEF AsyncTypes
<1>2. DOMAIN events' = 1..(Len(events) + 1)
  BY <1>1, LenProperties
<1> QED
  BY <1>1, <1>2 DEF At

\* Steps that leave the queue alone start no job.
LEMMA QueueKept ==
    ASSUME AsyncTypes, QueueIsOrdered, JobsStartOnceInSubmissionOrder, UNCHANGED <<queue, nextId>>,
           \/ UNCHANGED events
           \/ \E e \in Events : e.stage # "Started" /\ events' = Append(events, e)
    PROVE  QueueIsOrdered' /\ JobsStartOnceInSubmissionOrder'
<1>1. CASE UNCHANGED events
  BY <1>1 DEF QueueIsOrdered, JobsStartOnceInSubmissionOrder, At
<1>2. ASSUME NEW e \in Events, e.stage # "Started", events' = Append(events, e)
      PROVE  QueueIsOrdered' /\ JobsStartOnceInSubmissionOrder'
  <2>1. At("Started")' = At("Started") /\ \A i \in At("Started") : events'[i] = events[i]
    BY <1>2, EventSent DEF At
  <2> QED
    BY <2>1 DEF QueueIsOrdered, JobsStartOnceInSubmissionOrder
<1> QED
  BY <1>1, <1>2

\* A new job gets the next number and the last place.
LEMMA SubmitQueue ==
    ASSUME AsyncTypes, QueueIsOrdered, JobsStartOnceInSubmissionOrder, Submit
    PROVE  QueueIsOrdered' /\ JobsStartOnceInSubmissionOrder'
<1> DEFINE job == [id |-> nextId, parent |-> current, context |-> Captured]
<1>1. nextId \in Nat \ {0} /\ job \in Jobs /\ job.id = nextId
  BY CapturedType DEF AsyncTypes, Jobs
<1>2. queue' = Append(queue, job) /\ nextId' = nextId + 1
  BY DEF Submit
<1> HIDE DEF job
<1>3. /\ Len(queue) \in Nat /\ DOMAIN queue = 1..Len(queue)
      /\ DOMAIN queue' = 1..(Len(queue) + 1)
      /\ \A i \in 1..Len(queue) : queue'[i] = queue[i]
      /\ queue'[Len(queue) + 1].id = nextId
  BY <1>1, <1>2, AppendProperties, LenProperties DEF AsyncTypes
<1>4. At("Started")' = At("Started") /\ \A i \in At("Started") : events'[i] = events[i]
  <2>1. Event(nextId, "Queued") \in Events /\ Event(nextId, "Queued").stage # "Started"
    BY <1>1 DEF Event, Events
  <2> QED
    BY <2>1, EventSent DEF Submit, At
<1>5. /\ \A i \in 1..Len(queue) : queue[i].id \in 1..(nextId - 1)
      /\ \A e \in At("Started") : events[e].job \in 1..(nextId - 1)
  BY <1>3 DEF QueueIsOrdered
<1>6. \A i, j \in DOMAIN queue' : i < j => queue'[i].id < queue'[j].id
  BY <1>1, <1>3, <1>5 DEF QueueIsOrdered
<1>7. \A i \in DOMAIN queue' : queue'[i].id \in 1..(nextId' - 1)
  BY <1>1, <1>2, <1>3, <1>5
<1>8. \A e \in At("Started") : events[e].job \in 1..(nextId' - 1)
  BY <1>1, <1>2, <1>5
<1>9. \A e \in At("Started") : \A i \in DOMAIN queue' : events[e].job < queue'[i].id
  BY <1>1, <1>3, <1>5 DEF QueueIsOrdered
<1>10. QueueIsOrdered'
  BY <1>4, <1>6, <1>7, <1>8, <1>9 DEF QueueIsOrdered
<1>11. JobsStartOnceInSubmissionOrder'
  BY <1>4 DEF JobsStartOnceInSubmissionOrder
<1> QED
  BY <1>10, <1>11

\* The job that leaves the queue, started or dropped, comes before those that stay.
LEMMA TakeQueue ==
    ASSUME AsyncTypes, QueueIsOrdered, queue # <<>>, queue' = RestOfQueue
    PROVE  /\ 1 \in DOMAIN queue /\ DOMAIN queue = 1..Len(queue) /\ Len(queue) \in Nat
           /\ DOMAIN queue' = 1..(Len(queue) - 1)
           /\ \A i \in DOMAIN queue' : queue'[i] = queue[i + 1] /\ i + 1 \in DOMAIN queue
           /\ \A i, j \in DOMAIN queue' : i < j => queue'[i].id < queue'[j].id
           /\ \A i \in DOMAIN queue' : queue'[i].id \in 1..(nextId - 1)
           /\ \A i \in DOMAIN queue' : queue[1].id < queue'[i].id
           /\ \A e \in At("Started") : \A i \in DOMAIN queue' : events[e].job < queue'[i].id
<1>1. /\ Len(queue) \in Nat \ {0} /\ DOMAIN queue = 1..Len(queue)
      /\ DOMAIN queue' = 1..(Len(queue) - 1)
      /\ \A i \in 1..(Len(queue) - 1) : queue'[i] = queue[i + 1]
  BY QueueHead, LenProperties DEF AsyncTypes
<1>2. \A i \in DOMAIN queue' : queue'[i] = queue[i + 1] /\ i + 1 \in DOMAIN queue
  BY <1>1
<1>3. \A i, j \in DOMAIN queue' : i < j => queue'[i].id < queue'[j].id
  <2> TAKE i, j \in DOMAIN queue'
  <2> HAVE i < j
  <2>1. i + 1 \in DOMAIN queue /\ j + 1 \in DOMAIN queue /\ i + 1 < j + 1
    BY <1>1, <1>2
  <2> QED
    BY <1>2, <2>1 DEF QueueIsOrdered
<1>4. \A i \in DOMAIN queue' : queue[1].id < queue'[i].id
  <2> TAKE i \in DOMAIN queue'
  <2>1. 1 \in DOMAIN queue /\ i + 1 \in DOMAIN queue /\ 1 < i + 1
    BY <1>1
  <2> QED
    BY <1>2, <2>1 DEF QueueIsOrdered
<1>5. \A i \in DOMAIN queue' : queue'[i].id \in 1..(nextId - 1)
  BY <1>2 DEF QueueIsOrdered
<1>6. \A e \in At("Started") : \A i \in DOMAIN queue' : events[e].job < queue'[i].id
  BY <1>2 DEF QueueIsOrdered
<1> QED
  BY <1>1, <1>2, <1>3, <1>4, <1>5, <1>6

LEMMA StartJobQueue ==
    ASSUME AsyncTypes, QueueIsOrdered, JobsStartOnceInSubmissionOrder, StartJob
    PROVE  QueueIsOrdered' /\ JobsStartOnceInSubmissionOrder'
<1>1. queue # <<>> /\ queue' = RestOfQueue /\ nextId' = nextId
  BY DEF StartJob
<1>2. NextJob = queue[1] /\ queue[1] \in Jobs
  BY <1>1, QueueHead
<1> DEFINE e == Event(queue[1].id, "Started")
           n == Len(events) + 1
<1>3. e \in Events /\ events' = Append(events, e) /\ e.job = queue[1].id /\ e.stage = "Started"
  BY <1>2 DEF StartJob, Event, Events, Jobs
<1> HIDE DEF e
<1>4. /\ n \in Nat /\ DOMAIN events = 1..(n - 1)
      /\ \A i \in 1..(n - 1) : events'[i] = events[i]
      /\ events'[n].job = queue[1].id
      /\ At("Started")' = At("Started") \cup {n}
  BY <1>3, EventSent
<1>5. At("Started") \subseteq 1..(n - 1)
  BY <1>4 DEF At
<1>6. 1 \in DOMAIN queue /\ \A i \in At("Started") : events[i].job < queue[1].id
  BY <1>1, TakeQueue DEF QueueIsOrdered
<1> HIDE DEF n
<1>7. JobsStartOnceInSubmissionOrder'
  <2> SUFFICES ASSUME NEW i \in At("Started") \cup {n}, NEW j \in At("Started") \cup {n}, i < j
               PROVE  events'[i].job < events'[j].job
    BY <1>4 DEF JobsStartOnceInSubmissionOrder
  <2>1. i \in At("Started") /\ events'[i] = events[i]
    BY <1>4, <1>5
  <2>2. CASE j = n
    BY <1>4, <1>6, <2>1, <2>2
  <2>3. CASE j \in At("Started")
    BY <1>4, <1>5, <2>1, <2>3 DEF JobsStartOnceInSubmissionOrder
  <2> QED
    BY <2>2, <2>3
<1>8. QueueIsOrdered'
  <2>1. \A i \in At("Started")' : events'[i].job \in 1..(nextId' - 1)
    BY <1>1, <1>4, <1>5, <1>6 DEF QueueIsOrdered
  <2>2. \A i \in At("Started")' : \A j \in DOMAIN queue' : events'[i].job < queue'[j].id
    BY <1>1, <1>4, <1>5, TakeQueue
  <2> QED
    BY <1>1, <2>1, <2>2, TakeQueue DEF QueueIsOrdered
<1> QED
  BY <1>7, <1>8

\* A step keeps the queue in order, and the jobs that have started before it.
LEMMA NextQueue ==
    ASSUME AsyncTypes, QueueIsOrdered, JobsStartOnceInSubmissionOrder, [Next]_vars
    PROVE  QueueIsOrdered' /\ JobsStartOnceInSubmissionOrder'
<1>1. CASE Submit
  BY <1>1, SubmitQueue
<1>2. CASE StartJob
  BY <1>2, StartJobQueue
<1>3. CASE ExceedDrain
  <2>1. queue # <<>> /\ queue' = RestOfQueue /\ UNCHANGED <<nextId, events>>
    BY <1>3 DEF ExceedDrain
  <2>2. At("Started")' = At("Started")
    BY <2>1 DEF At
  <2> QED
    BY <2>1, <2>2, TakeQueue DEF QueueIsOrdered, JobsStartOnceInSubmissionOrder
<1>4. ASSUME InJob, NEW stage \in {"Completed", "Failed"}, NEW rest, LeaveJob(stage, rest)
      PROVE  QueueIsOrdered' /\ JobsStartOnceInSubmissionOrder'
  <2>1. Top \in JobFrames
    BY <1>4, SavedType DEF InJob, CodeRuns
  <2>2. Event(Top.job.id, stage) \in Events /\ Event(Top.job.id, stage).stage # "Started"
    BY <2>1 DEF Event, Events, JobFrames, Jobs
  <2> QED
    BY <1>4, <2>2, QueueKept DEF LeaveJob
<1>5. CASE CompleteJob \/ FailJob
  BY <1>4, <1>5 DEF CompleteJob, FailJob
<1>6. CASE UNCHANGED <<queue, nextId, events>>
  BY <1>6, QueueKept
<1> QED
  BY <1>1, <1>2, <1>3, <1>5, <1>6
  DEF Next, vars, Terminated, WriteRecord, EnterScope, LeaveScope, BeginStatement,
      EndStatement, EndEntry, StopTest, EndDrain

-----------------------------------------------------------------------------
(* What the frames ask for                                                 *)

\* The first n frames of s and t agree, but for the count of a drain.
SameCode(s, t, n) ==
    \A i \in 1..n : t[i].kind = s[i].kind /\ (s[i].kind # "drain" => t[i] = s[i])

LEMMA SameCodeAsksTheSame ==
    ASSUME NEW s, NEW t, NEW n \in Nat, SameCode(s, t, n)
    PROVE  /\ Units(t, n) = Units(s, n)
           /\ \A c : IsContext(s, n, c) => IsContext(t, n, c)
           /\ \A x : IsCurrent(s, n, x) => IsCurrent(t, n, x)
<1>1. Units(t, n) = Units(s, n)
  BY DEF SameCode, Units
<1>2. \A c : IsContext(s, n, c) => IsContext(t, n, c)
  BY DEF SameCode, IsContext
<1>3. \A x : IsCurrent(s, n, x) => IsCurrent(t, n, x)
  BY DEF SameCode, IsCurrent
<1> QED
  BY <1>1, <1>2, <1>3

\* A frame of code asks for its own context, and a drain for that of its caller.
LEMMA ContextOfTop ==
    ASSUME NEW s, NEW n \in Nat \ {0}
    PROVE  /\ s[n].kind # "drain" => IsContext(s, n, s[n].context)
           /\ s[n].kind = "drain" => \A c : IsContext(s, n, c) <=> IsContext(s, n - 1, c)
<1>1. ASSUME s[n].kind # "drain" PROVE IsContext(s, n, s[n].context)
  BY <1>1 DEF IsContext
<1>2. ASSUME s[n].kind = "drain", NEW c, IsContext(s, n, c) PROVE IsContext(s, n - 1, c)
  BY <1>2 DEF IsContext
<1>3. ASSUME s[n].kind = "drain", NEW c, IsContext(s, n - 1, c) PROVE IsContext(s, n, c)
  BY <1>3 DEF IsContext
<1> QED
  BY <1>1, <1>2, <1>3

\* A job is current, and other frames leave their caller's job current.
LEMMA CurrentOfTop ==
    ASSUME NEW s, NEW n \in Nat \ {0}
    PROVE  /\ s[n].kind = "job" => IsCurrent(s, n, s[n].job.id)
           /\ s[n].kind # "job" => \A x : IsCurrent(s, n, x) <=> IsCurrent(s, n - 1, x)
<1>1. ASSUME s[n].kind = "job" PROVE IsCurrent(s, n, s[n].job.id)
  BY <1>1 DEF IsCurrent
<1>2. ASSUME s[n].kind # "job", NEW x, IsCurrent(s, n, x) PROVE IsCurrent(s, n - 1, x)
  BY <1>2 DEF IsCurrent
<1>3. ASSUME s[n].kind # "job", NEW x, IsCurrent(s, n - 1, x) PROVE IsCurrent(s, n, x)
  BY <1>3 DEF IsCurrent
<1> QED
  BY <1>1, <1>2, <1>3

\* Frames that stay where they are stay nested.
LEMMA KeptNesting ==
    ASSUME NEW s, NEW t, NEW n \in Nat, SameCode(s, t, n),
           \A m \in 1..n : IsNested(s, m)
    PROVE  \A m \in 1..n : IsNested(t, m)
<1> SUFFICES ASSUME NEW m \in 1..n PROVE IsNested(t, m)
  OBVIOUS
<1>1. IsNested(s, m) /\ t[m].kind = s[m].kind /\ (s[m].kind # "drain" => t[m] = s[m])
  BY DEF SameCode
<1>2. SameCode(s, t, m - 1) /\ m - 1 \in Nat
  BY DEF SameCode
<1>3. m > 1 => t[m - 1].kind = s[m - 1].kind
  BY DEF SameCode
<1> QED
  BY <1>1, <1>2, <1>3, SameCodeAsksTheSame DEF IsNested

\* Code that calls: a frame of code goes on top of the stack.
LEMMA PushCode ==
    ASSUME AsyncTypes, ContextFollowsStack, stack # <<>>,
           NEW kind \in {"scope", "statement"}, NEW c \in Contexts, Enter(kind, c),
           UNCHANGED current
    PROVE  ContextFollowsStack'
<1> DEFINE f == [kind |-> kind, saved |-> context, context |-> c]
           n == Len(stack) + 1
<1>1. f \in Frames /\ f.kind = kind /\ f.saved = context /\ f.context = c
  BY DEF AsyncTypes, Frames, CallFrames
<1>2. stack' = Append(stack, f) /\ context' = c
  BY DEF Enter
<1> HIDE DEF f
<1>3. /\ Len(stack) \in Nat \ {0} /\ Len(stack') = n /\ stack'[n] = f
      /\ \A i \in 1..Len(stack) : stack'[i] = stack[i]
  BY <1>1, <1>2, AppendProperties, TopFrame DEF AsyncTypes
<1>4. SameCode(stack, stack', Len(stack))
  BY <1>3 DEF SameCode
<1>5. \A m \in 1..Len(stack) : IsNested(stack', m)
  BY <1>3, <1>4, KeptNesting DEF ContextFollowsStack
<1>6. IsContext(stack', n - 1, context) /\ IsCurrent(stack', n - 1, current)
  BY <1>3, <1>4, SameCodeAsksTheSame DEF ContextFollowsStack
<1>7. IsNested(stack', n)
  BY <1>1, <1>3, <1>6 DEF IsNested
<1>8. IsContext(stack', n, context') /\ IsCurrent(stack', n, current')
  <2>1. n \in Nat \ {0} /\ stack'[n].kind = kind /\ stack'[n].context = c
    BY <1>1, <1>3
  <2> HIDE DEF n
  <2> QED
    BY <1>2, <1>6, <2>1, ContextOfTop, CurrentOfTop
<1> QED
  BY <1>3, <1>5, <1>7, <1>8 DEF ContextFollowsStack

\* Code that ends goes back to what it has saved.
LEMMA PopCode ==
    ASSUME AsyncTypes, ContextFollowsStack, stack # <<>>,
           Top.kind \in {"scope", "statement"}, stack' = Below,
           context' = Top.saved, UNCHANGED current
    PROVE  ContextFollowsStack'
<1> DEFINE n == Len(stack)
<1>1. /\ n \in Nat \ {0} /\ Len(stack') = n - 1 /\ stack[n] = Top
      /\ \A i \in 1..(n - 1) : stack'[i] = stack[i]
  BY TopFrame DEF Top
<1>2. IsNested(stack, n) /\ IsCurrent(stack, n, current)
  BY <1>1 DEF ContextFollowsStack
<1>3. IsContext(stack, n - 1, Top.saved) /\ IsCurrent(stack, n - 1, current)
  BY <1>1, <1>2, CurrentOfTop DEF IsNested
<1>4. SameCode(stack, stack', n - 1) /\ n - 1 \in Nat
  BY <1>1 DEF SameCode
<1>5. \A m \in 1..(n - 1) : IsNested(stack, m)
  BY <1>1 DEF ContextFollowsStack
<1>6. \A m \in 1..(n - 1) : IsNested(stack', m)
  BY <1>4, <1>5, KeptNesting
<1>7. IsContext(stack', n - 1, context') /\ IsCurrent(stack', n - 1, current')
  BY <1>3, <1>4, SameCodeAsksTheSame
<1> QED
  BY <1>1, <1>6, <1>7 DEF ContextFollowsStack

\* A drain leaves everything as its caller has it.
LEMMA PushDrain ==
    ASSUME AsyncTypes, ContextFollowsStack, stack # <<>>,
           stack' = Append(stack, [kind |-> "drain", drained |-> 0]),
           UNCHANGED <<context, current>>
    PROVE  ContextFollowsStack'
<1> DEFINE f == [kind |-> "drain", drained |-> 0]
           n == Len(stack) + 1
<1>1. f \in Frames /\ f.kind = "drain"
  BY AsyncAssumption DEF Frames, DrainFrames
<1>2. stack' = Append(stack, f)
  OBVIOUS
<1> HIDE DEF f
<1>3. /\ Len(stack) \in Nat \ {0} /\ Len(stack') = n /\ stack'[n] = f
      /\ \A i \in 1..Len(stack) : stack'[i] = stack[i]
  BY <1>1, <1>2, AppendProperties, TopFrame DEF AsyncTypes
<1>4. SameCode(stack, stack', Len(stack))
  BY <1>3 DEF SameCode
<1>5. \A m \in 1..Len(stack) : IsNested(stack', m)
  BY <1>3, <1>4, KeptNesting DEF ContextFollowsStack
<1>6. IsContext(stack', n - 1, context) /\ IsCurrent(stack', n - 1, current)
  BY <1>3, <1>4, SameCodeAsksTheSame DEF ContextFollowsStack
<1>7. IsNested(stack', n)
  BY <1>1, <1>3 DEF IsNested
<1>8. IsContext(stack', n, context') /\ IsCurrent(stack', n, current')
  <2>1. n \in Nat \ {0} /\ stack'[n].kind = "drain"
    BY <1>1, <1>3
  <2> HIDE DEF n
  <2> QED
    BY <1>6, <2>1, ContextOfTop, CurrentOfTop
<1> QED
  BY <1>3, <1>5, <1>7, <1>8 DEF ContextFollowsStack

LEMMA PopDrain ==
    ASSUME AsyncTypes, ContextFollowsStack, stack # <<>>, Top.kind = "drain",
           stack' = Below, UNCHANGED <<context, current>>
    PROVE  ContextFollowsStack'
<1> DEFINE n == Len(stack)
<1>1. /\ n \in Nat \ {0} /\ Len(stack') = n - 1 /\ stack[n] = Top
      /\ \A i \in 1..(n - 1) : stack'[i] = stack[i]
  BY TopFrame DEF Top
<1>2. IsContext(stack, n, context) /\ IsCurrent(stack, n, current)
  BY <1>1 DEF ContextFollowsStack
<1>3. IsContext(stack, n - 1, context) /\ IsCurrent(stack, n - 1, current)
  BY <1>1, <1>2, ContextOfTop, CurrentOfTop
<1>4. SameCode(stack, stack', n - 1) /\ n - 1 \in Nat
  BY <1>1 DEF SameCode
<1>5. \A m \in 1..(n - 1) : IsNested(stack, m)
  BY <1>1 DEF ContextFollowsStack
<1>6. \A m \in 1..(n - 1) : IsNested(stack', m)
  BY <1>4, <1>5, KeptNesting
<1>7. IsContext(stack', n - 1, context') /\ IsCurrent(stack', n - 1, current')
  BY <1>3, <1>4, SameCodeAsksTheSame
<1> QED
  BY <1>1, <1>6, <1>7 DEF ContextFollowsStack

\* A job runs as it was submitted, and has saved what its drain was called with.
LEMMA StartJobContext ==
    ASSUME AsyncTypes, ContextFollowsStack, StartJob
    PROVE  ContextFollowsStack'
<1> DEFINE n == Len(stack) + 1
           job == stack'[n]
<1>1. /\ n \in Nat \ {0, 1} /\ Len(stack') = n /\ stack # <<>>
      /\ stack[n - 1].kind = "drain" /\ stack'[n - 1].kind = "drain"
      /\ \A i \in 1..(n - 2) : stack'[i] = stack[i]
  <2>1. stack # <<>> /\ Len(stack) \in Nat \ {0} /\ stack[Len(stack)].kind = "drain"
    BY TopFrame DEF StartJob, Draining, Top
  <2>2. /\ Len(stack') = Len(stack) + 1 /\ stack'[Len(stack)].kind = "drain"
        /\ \A i \in 1..(Len(stack) - 1) : stack'[i] = stack[i]
    BY StartJobStack
  <2>3. n - 1 = Len(stack) /\ n - 2 = Len(stack) - 1
    BY <2>1
  <2> QED
    BY <2>1, <2>2, <2>3
<1>2. /\ job.kind = "job" /\ job.saved = context /\ job.outer = current
      /\ job.context = context' /\ job.job.id = current'
  BY StartJobStack, QueueHead DEF StartJob, JobFrames
<1>3. SameCode(stack, stack', n - 1) /\ n - 1 \in Nat
  BY <1>1 DEF SameCode
<1>4. \A m \in 1..(n - 1) : IsNested(stack, m)
  BY <1>1 DEF ContextFollowsStack
<1>5. \A m \in 1..(n - 1) : IsNested(stack', m)
  BY <1>3, <1>4, KeptNesting
<1>6. IsContext(stack, n - 1, context) /\ IsCurrent(stack, n - 1, current)
  BY <1>1 DEF ContextFollowsStack
<1>7. IsContext(stack', n - 1, context) /\ IsCurrent(stack', n - 1, current)
  BY <1>3, <1>6, SameCodeAsksTheSame
<1> HIDE DEF n
<1>8. IsNested(stack', n)
  BY <1>1, <1>2, <1>7 DEF IsNested
<1>9. IsContext(stack', n, context') /\ IsCurrent(stack', n, current')
  BY <1>1, <1>2, ContextOfTop, CurrentOfTop
<1> QED
  BY <1>1, <1>5, <1>8, <1>9 DEF ContextFollowsStack

\* A job that ends goes back to the context its drain was called with, and one
\* that fails takes its drain with it, back to the drain's caller.
LEMMA EndJobContext ==
    ASSUME AsyncTypes, ContextFollowsStack, stack # <<>>, Top.kind = "job",
           context' = Top.saved, current' = Top.outer,
           stack' \in {Below, Front(Below)}
    PROVE  Below # <<>> /\ ContextFollowsStack'
<1> DEFINE n == Len(stack)
<1>1. n \in Nat \ {0} /\ stack[n] = Top
  BY TopFrame DEF Top
<1>2. IsNested(stack, n)
  BY <1>1 DEF ContextFollowsStack
<1>3. /\ n > 1 /\ stack[n - 1].kind = "drain"
      /\ IsContext(stack, n - 1, Top.saved) /\ IsCurrent(stack, n - 1, Top.outer)
  BY <1>1, <1>2 DEF IsNested
<1>4. /\ Below \in Seq(Frames) /\ Len(Below) = n - 1
      /\ \A i \in 1..(n - 1) : Below[i] = stack[i]
  BY TopFrame
<1>5. Below # <<>>
  BY <1>1, <1>3, <1>4
<1>6. /\ Len(Front(Below)) = n - 2
      /\ \A i \in 1..(n - 2) : Front(Below)[i] = stack[i]
  <2>1. /\ Len(Front(Below)) = Len(Below) - 1
        /\ \A i \in 1..(Len(Below) - 1) : Front(Below)[i] = Below[i]
    BY <1>4, <1>5, FrontProperties
  <2> QED
    BY <1>1, <1>4, <2>1
<1>7. ASSUME NEW k \in {n - 2, n - 1}, Len(stack') = k, \A i \in 1..k : stack'[i] = stack[i]
      PROVE  ContextFollowsStack'
  <2>1. n - 1 \in Nat \ {0} /\ n - 2 \in Nat /\ k \in Nat
    BY <1>1, <1>3
  <2>2. IsContext(stack, k, Top.saved) /\ IsCurrent(stack, k, Top.outer)
    <3>1. (n - 1) - 1 = n - 2
      BY <1>1
    <3>2. IsContext(stack, (n - 1) - 1, Top.saved) /\ IsCurrent(stack, (n - 1) - 1, Top.outer)
      BY <1>3, <2>1, ContextOfTop, CurrentOfTop
    <3> QED
      BY <1>3, <3>1, <3>2
  <2>3. SameCode(stack, stack', k)
    BY <1>7 DEF SameCode
  <2>4. \A m \in 1..k : IsNested(stack, m)
    BY <1>1, <2>1 DEF ContextFollowsStack
  <2>5. \A m \in 1..k : IsNested(stack', m)
    BY <2>1, <2>3, <2>4, KeptNesting
  <2>6. IsContext(stack', k, context') /\ IsCurrent(stack', k, current')
    BY <2>1, <2>2, <2>3, SameCodeAsksTheSame
  <2> QED
    BY <1>7, <2>5, <2>6 DEF ContextFollowsStack
<1> QED
  BY <1>1, <1>4, <1>5, <1>6, <1>7

\* A step keeps what is installed in step with the stack.
LEMMA NextContext ==
    ASSUME AsyncTypes, ContextFollowsStack, [Next]_vars
    PROVE  ContextFollowsStack'
<1>1. CASE EnterScope
  <2>1. \A u \in Users : [context EXCEPT !.user = u] \in Contexts
    BY DEF AsyncTypes, Contexts
  <2>2. \A s \in Sharings : [context EXCEPT !.sharing = s] \in Contexts
    BY DEF AsyncTypes, Contexts
  <2> QED
    BY <1>1, <2>1, <2>2, PushCode DEF EnterScope, CanCall, CodeRuns
<1>2. CASE BeginStatement
  <2>1. [context EXCEPT !.sharing = Plain] \in Contexts
    BY AsyncAssumption DEF AsyncTypes, Contexts
  <2> QED
    BY <1>2, <2>1, PushCode DEF BeginStatement, CanCall, CodeRuns
<1>3. CASE LeaveScope \/ EndStatement
  BY <1>3, PopCode DEF LeaveScope, EndStatement, CodeRuns
<1>4. CASE EndEntry
  BY <1>4 DEF EndEntry, ContextFollowsStack
<1>5. CASE StopTest
  BY <1>5, PushDrain DEF StopTest, CanCall, CodeRuns
<1>6. CASE StartJob
  BY <1>6, StartJobContext
<1>7. CASE ExceedDrain \/ EndDrain
  BY <1>7, PopDrain DEF ExceedDrain, EndDrain, Draining
<1>8. CASE CompleteJob \/ FailJob
  BY <1>8, EndJobContext DEF CompleteJob, FailJob, InJob, CodeRuns, LeaveJob, SavedContext
<1>9. CASE UNCHANGED <<stack, context, current>>
  BY <1>9 DEF ContextFollowsStack
<1> QED
  BY <1>1, <1>2, <1>3, <1>4, <1>5, <1>6, <1>7, <1>8, <1>9
  DEF Next, vars, Terminated, Submit, WriteRecord

-----------------------------------------------------------------------------
(* Checkpoints                                                             *)

\* The units among n frames, counted from the bottom.
LEMMA UnitCount ==
    ASSUME NEW s, NEW n \in Nat
    PROVE  /\ Cardinality(Units(s, n)) \in Nat
           /\ n = 0 => Cardinality(Units(s, n)) = 0
           /\ s[n + 1].kind \in UnitKinds =>
                  Cardinality(Units(s, n + 1)) = Cardinality(Units(s, n)) + 1
           /\ s[n + 1].kind \notin UnitKinds =>
                  Cardinality(Units(s, n + 1)) = Cardinality(Units(s, n))
           /\ \A m \in 1..n : /\ Cardinality(Units(s, m)) <= Cardinality(Units(s, n))
                              /\ s[m].kind \in UnitKinds => Cardinality(Units(s, m)) \in Nat \ {0}
<1>1. \A m \in Nat : IsFiniteSet(Units(s, m)) /\ Cardinality(Units(s, m)) \in Nat
  <2> TAKE m \in Nat
  <2>1. IsFiniteSet(1..m) /\ Units(s, m) \in SUBSET (1..m)
    BY FS_Interval DEF Units
  <2> QED
    BY <2>1, FS_Subset, FS_CardinalityType
<1>2. n = 0 => Cardinality(Units(s, n)) = 0
  <2>1. n = 0 => Units(s, n) = {}
    BY DEF Units
  <2> QED
    BY <2>1, FS_EmptySet
<1>3. ASSUME s[n + 1].kind \in UnitKinds
      PROVE  Cardinality(Units(s, n + 1)) = Cardinality(Units(s, n)) + 1
  <2>1. Units(s, n + 1) = Units(s, n) \cup {n + 1} /\ n + 1 \notin Units(s, n)
    BY <1>3 DEF Units
  <2> QED
    BY <1>1, <2>1, FS_AddElement
<1>4. ASSUME s[n + 1].kind \notin UnitKinds
      PROVE  Cardinality(Units(s, n + 1)) = Cardinality(Units(s, n))
  <2>1. Units(s, n + 1) = Units(s, n)
    BY <1>4 DEF Units
  <2> QED
    BY <2>1
<1>5. ASSUME NEW m \in 1..n
      PROVE  /\ Cardinality(Units(s, m)) <= Cardinality(Units(s, n))
             /\ s[m].kind \in UnitKinds => Cardinality(Units(s, m)) \in Nat \ {0}
  <2>1. Units(s, m) \in SUBSET Units(s, n) /\ m \in Nat
    BY DEF Units
  <2>2. s[m].kind \in UnitKinds => m \in Units(s, m)
    BY DEF Units
  <2> QED
    BY <1>1, <2>1, <2>2, FS_Subset, FS_EmptySet
<1> QED
  BY <1>1, <1>2, <1>3, <1>4, <1>5

\* The checkpoints of the units that stay open stay where they are.
LEMMA KeptCheckpoints ==
    ASSUME NEW s, NEW t, NEW n \in Nat, SameCode(s, t, n), NEW points, NEW kept,
           \A m \in 1..n : HasCheckpoint(s, points, m),
           \A d \in 1..Cardinality(Units(s, n)) : kept[d] = points[d]
    PROVE  \A m \in 1..n : HasCheckpoint(t, kept, m)
<1> SUFFICES ASSUME NEW m \in 1..n, t[m].kind = "job"
             PROVE  kept[Cardinality(Units(t, m))] = t[m].start
  BY DEF HasCheckpoint
<1>1. s[m].kind = "job" /\ t[m] = s[m] /\ s[m].kind \in UnitKinds
  BY DEF SameCode, UnitKinds
<1>2. Units(t, m) = Units(s, m)
  <2>1. SameCode(s, t, m) /\ m \in Nat
    BY DEF SameCode
  <2> QED
    BY <2>1, SameCodeAsksTheSame
<1>3. Cardinality(Units(s, m)) \in 1..Cardinality(Units(s, n))
  BY <1>1, UnitCount
<1> QED
  BY <1>1, <1>2, <1>3 DEF HasCheckpoint

\* A frame that opens no unit comes or goes, and the checkpoints stay.
LEMMA NoUnitMoves ==
    ASSUME AsyncTypes, CheckpointsFollowStack, UNCHANGED checkpoints, stack # <<>>,
           \/ /\ Len(stack') = Len(stack) + 1
              /\ \A i \in 1..Len(stack) : stack'[i] = stack[i]
              /\ stack'[Len(stack) + 1].kind \notin UnitKinds
           \/ Top.kind \notin UnitKinds /\ stack' = Below
    PROVE  CheckpointsFollowStack'
<1>1. Len(stack) \in Nat \ {0} /\ Len(stack) - 1 \in Nat
  BY TopFrame
<1>2. CASE /\ Len(stack') = Len(stack) + 1
           /\ \A i \in 1..Len(stack) : stack'[i] = stack[i]
           /\ stack'[Len(stack) + 1].kind \notin UnitKinds
  <2>1. SameCode(stack, stack', Len(stack))
    BY <1>2 DEF SameCode
  <2>2. Units(stack', Len(stack)) = Units(stack, Len(stack))
    BY <1>1, <2>1, SameCodeAsksTheSame
  <2>3. Cardinality(Units(stack', Len(stack'))) = Len(checkpoints)
    BY <1>1, <1>2, <2>2, UnitCount DEF CheckpointsFollowStack
  <2>4. \A m \in 1..Len(stack) : HasCheckpoint(stack', checkpoints, m)
    BY <1>1, <2>1, KeptCheckpoints DEF CheckpointsFollowStack
  <2>5. HasCheckpoint(stack', checkpoints, Len(stack) + 1)
    BY <1>2 DEF HasCheckpoint, UnitKinds
  <2> QED
    BY <1>1, <1>2, <2>3, <2>4, <2>5 DEF CheckpointsFollowStack
<1>3. CASE Top.kind \notin UnitKinds /\ stack' = Below
  <2> DEFINE n == Len(stack) - 1
  <2>1. Len(stack') = n /\ \A i \in 1..n : stack'[i] = stack[i]
    BY <1>3, TopFrame
  <2>2. SameCode(stack, stack', n) /\ n \in Nat /\ stack[n + 1] = Top /\ Len(stack) = n + 1
    BY <1>1, <2>1 DEF SameCode, Top
  <2> HIDE DEF n
  <2>3. Units(stack', n) = Units(stack, n)
    BY <2>2, SameCodeAsksTheSame
  <2>4. Cardinality(Units(stack, n)) = Len(checkpoints)
    BY <1>3, <2>2, UnitCount DEF CheckpointsFollowStack
  <2>5. \A m \in 1..n : HasCheckpoint(stack, checkpoints, m)
    BY <2>2 DEF CheckpointsFollowStack
  <2>6. \A m \in 1..n : HasCheckpoint(stack', checkpoints, m)
    BY <2>2, <2>5, KeptCheckpoints
  <2> QED
    BY <2>1, <2>3, <2>4, <2>6 DEF CheckpointsFollowStack
<1> QED
  BY <1>2, <1>3

\* A unit that opens takes the database as its checkpoint.
LEMMA UnitOpens ==
    ASSUME AsyncTypes, CheckpointsFollowStack, BeginUnit, stack # <<>>,
           Len(stack') = Len(stack) + 1, SameCode(stack, stack', Len(stack)),
           stack'[Len(stack) + 1].kind \in UnitKinds,
           stack'[Len(stack) + 1].kind = "job" => stack'[Len(stack) + 1].start = db
    PROVE  CheckpointsFollowStack'
<1> DEFINE n == Len(stack)
           depth == Cardinality(Units(stack, n))
<1>1. n \in Nat \ {0}
  BY TopFrame
<1>2. depth \in Nat /\ Len(checkpoints) = depth
  BY <1>1, UnitCount DEF CheckpointsFollowStack
<1>3. /\ Len(checkpoints') = depth + 1 /\ checkpoints'[depth + 1] = db
      /\ \A d \in 1..depth : checkpoints'[d] = checkpoints[d]
  BY <1>2, AppendProperties DEF BeginUnit, AsyncTypes
<1>4. Cardinality(Units(stack', n + 1)) = depth + 1
  BY <1>1, SameCodeAsksTheSame, UnitCount
<1>5. \A m \in 1..n : HasCheckpoint(stack', checkpoints', m)
  BY <1>1, <1>3, KeptCheckpoints DEF CheckpointsFollowStack
<1>6. HasCheckpoint(stack', checkpoints', n + 1)
  BY <1>3, <1>4 DEF HasCheckpoint
<1> QED
  BY <1>1, <1>3, <1>4, <1>5, <1>6 DEF CheckpointsFollowStack

\* The unit on top has the last checkpoint.
LEMMA TopCheckpoint ==
    ASSUME AsyncTypes, CheckpointsFollowStack, stack # <<>>, Top.kind \in UnitKinds
    PROVE  /\ Len(checkpoints) = Cardinality(Units(stack, Len(stack) - 1)) + 1
           /\ Cardinality(Units(stack, Len(stack) - 1)) \in Nat
           /\ checkpoints # <<>>
           /\ Top.kind = "job" => Last(checkpoints) = Top.start
<1> DEFINE n == Len(stack) - 1
<1>1. n \in Nat /\ Len(stack) = n + 1 /\ stack[n + 1] = Top
  BY TopFrame DEF Top
<1> HIDE DEF n
<1>2. /\ Cardinality(Units(stack, n)) \in Nat
      /\ Len(checkpoints) = Cardinality(Units(stack, n)) + 1
      /\ Len(checkpoints) = Cardinality(Units(stack, n + 1))
  BY <1>1, UnitCount DEF CheckpointsFollowStack
<1>3. HasCheckpoint(stack, checkpoints, n + 1)
  BY <1>1 DEF CheckpointsFollowStack
<1>4. checkpoints # <<>>
  BY <1>2
<1> QED
  BY <1>1, <1>2, <1>3, <1>4 DEF HasCheckpoint, Last, n

\* A unit that closes takes its checkpoint with it; what else leaves the stack
\* is the drain of a failed job.
LEMMA UnitCloses ==
    ASSUME AsyncTypes, CheckpointsFollowStack, stack # <<>>, Top.kind \in UnitKinds,
           checkpoints' = Front(checkpoints), NEW k \in Nat, Len(stack') = k,
           \A i \in 1..k : stack'[i] = stack[i],
           \/ k = Len(stack) - 1
           \/ k = Len(stack) - 2 /\ stack[k + 1].kind \notin UnitKinds
    PROVE  CheckpointsFollowStack'
<1> DEFINE n == Len(stack) - 1
           depth == Cardinality(Units(stack, n))
<1>1. n \in Nat /\ Len(stack) = n + 1 /\ stack[n + 1] = Top
  BY TopFrame DEF Top
<1>2. depth \in Nat /\ Len(checkpoints) = depth + 1 /\ checkpoints # <<>>
  BY TopCheckpoint
<1> HIDE DEF n
<1>3. Cardinality(Units(stack, k)) = depth
  <2>1. k = n \/ (k + 1 = n /\ stack[k + 1].kind \notin UnitKinds)
    BY <1>1
  <2> QED
    BY <1>1, <2>1, UnitCount
<1> HIDE DEF depth
<1>4. Len(checkpoints') = depth /\ \A d \in 1..depth : checkpoints'[d] = checkpoints[d]
  <2>1. /\ Len(checkpoints') = Len(checkpoints) - 1
        /\ \A d \in 1..(Len(checkpoints) - 1) : checkpoints'[d] = checkpoints[d]
    BY <1>2, FrontProperties DEF AsyncTypes
  <2>2. Len(checkpoints) - 1 = depth
    BY <1>2
  <2> QED
    BY <2>1, <2>2
<1>5. SameCode(stack, stack', k)
  BY DEF SameCode
<1>6. \A m \in 1..k : HasCheckpoint(stack, checkpoints, m)
  BY <1>1 DEF CheckpointsFollowStack
<1>7. \A m \in 1..k : HasCheckpoint(stack', checkpoints', m)
  BY <1>3, <1>4, <1>5, <1>6, KeptCheckpoints
<1>8. Units(stack', k) = Units(stack, k)
  BY <1>5, SameCodeAsksTheSame
<1> QED
  BY <1>3, <1>4, <1>7, <1>8 DEF CheckpointsFollowStack

\* A step keeps one checkpoint for each open unit.
LEMMA NextCheckpoints ==
    ASSUME AsyncTypes, ContextFollowsStack, CheckpointsFollowStack, [Next]_vars
    PROVE  CheckpointsFollowStack'
<1>1. ASSUME NEW kind \in {"scope", "statement"}, NEW c, Enter(kind, c)
      PROVE  c \in Contexts =>
                /\ Len(stack') = Len(stack) + 1
                /\ \A i \in 1..Len(stack) : stack'[i] = stack[i]
                /\ stack'[Len(stack) + 1].kind = kind
                /\ SameCode(stack, stack', Len(stack))
  <2> SUFFICES ASSUME c \in Contexts
               PROVE  /\ Len(stack') = Len(stack) + 1
                      /\ \A i \in 1..Len(stack) : stack'[i] = stack[i]
                      /\ stack'[Len(stack) + 1].kind = kind
    BY DEF SameCode
  <2> DEFINE f == [kind |-> kind, saved |-> context, context |-> c]
  <2>1. f \in Frames /\ f.kind = kind
    BY DEF AsyncTypes, Frames, CallFrames
  <2>2. stack' = Append(stack, f)
    BY <1>1 DEF Enter
  <2> HIDE DEF f
  <2> QED
    BY <2>1, <2>2, AppendProperties DEF AsyncTypes
<1>2. CASE EnterScope
  <2>1. \A u \in Users : [context EXCEPT !.user = u] \in Contexts
    BY DEF AsyncTypes, Contexts
  <2>2. \A s \in Sharings : [context EXCEPT !.sharing = s] \in Contexts
    BY DEF AsyncTypes, Contexts
  <2> QED
    BY <1>1, <1>2, <2>1, <2>2, NoUnitMoves DEF EnterScope, CanCall, CodeRuns, UnitKinds
<1>3. CASE BeginStatement
  <2>1. [context EXCEPT !.sharing = Plain] \in Contexts
    BY AsyncAssumption DEF AsyncTypes, Contexts
  <2> QED
    BY <1>1, <1>3, <2>1, UnitOpens DEF BeginStatement, CanCall, CodeRuns, UnitKinds
<1>4. CASE LeaveScope
  BY <1>4, NoUnitMoves DEF LeaveScope, CodeRuns, UnitKinds
<1>5. ASSUME stack # <<>>, Top.kind \in UnitKinds, CommitUnit \/ RollbackUnit, stack' = Below
      PROVE  CheckpointsFollowStack'
  <2>1. /\ Len(stack) - 1 \in Nat /\ Len(stack') = Len(stack) - 1
        /\ \A i \in 1..(Len(stack) - 1) : stack'[i] = stack[i]
    BY <1>5, TopFrame
  <2> QED
    BY <1>5, <2>1, UnitCloses DEF CommitUnit, RollbackUnit
<1>6. CASE EndStatement
  BY <1>5, <1>6 DEF EndStatement, CodeRuns, UnitKinds
<1>7. CASE EndEntry
  <2>1. Len(stack) \in Nat \ {0} /\ IsNested(stack, Len(stack)) /\ stack[Len(stack)] = Top
    BY <1>7, TopFrame DEF EndEntry, CodeRuns, ContextFollowsStack, Top
  <2>2. Len(stack) = 1
    BY <1>7, <2>1 DEF EndEntry, IsNested
  <2>3. Len(stack') = 0
    BY <1>7 DEF EndEntry
  <2> QED
    BY <1>7, <2>2, <2>3, UnitCloses DEF EndEntry, CodeRuns, CommitUnit, RollbackUnit, UnitKinds
<1>8. CASE StopTest
  <2> DEFINE f == [kind |-> "drain", drained |-> 0]
  <2>1. f \in Frames /\ f.kind = "drain"
    BY AsyncAssumption DEF Frames, DrainFrames
  <2>2. stack' = Append(stack, f)
    BY <1>8 DEF StopTest
  <2> HIDE DEF f
  <2>3. /\ Len(stack') = Len(stack) + 1
        /\ \A i \in 1..Len(stack) : stack'[i] = stack[i]
        /\ stack'[Len(stack) + 1].kind = "drain"
    BY <2>1, <2>2, AppendProperties DEF AsyncTypes
  <2> QED
    BY <1>8, <2>3, NoUnitMoves DEF StopTest, CanCall, CodeRuns, UnitKinds
<1>9. CASE StartJob
  <2>1. stack[Len(stack)].kind = "drain" /\ stack # <<>>
    BY <1>9 DEF StartJob, Draining, Top
  <2>2. SameCode(stack, stack', Len(stack))
    BY <1>9, <2>1, StartJobStack DEF SameCode
  <2>3. stack'[Len(stack) + 1].kind = "job"
    BY <1>9, StartJobStack DEF JobFrames
  <2> QED
    BY <1>9, <2>1, <2>2, <2>3, StartJobStack, UnitOpens DEF StartJob, UnitKinds
<1>10. CASE ExceedDrain \/ EndDrain
  BY <1>10, NoUnitMoves DEF ExceedDrain, EndDrain, Draining, UnitKinds
<1>11. CASE CompleteJob
  BY <1>5, <1>11 DEF CompleteJob, InJob, CodeRuns, LeaveJob, UnitKinds
<1>12. CASE FailJob
  <2> DEFINE n == Len(stack)
  <2>1. stack # <<>> /\ Top.kind = "job" /\ checkpoints' = Front(checkpoints)
        /\ stack' = Front(Below)
    BY <1>12 DEF FailJob, InJob, CodeRuns, LeaveJob, RollbackUnit
  <2>2. /\ n \in Nat \ {0} /\ stack[n] = Top
        /\ Below \in Seq(Frames) /\ Len(Below) = n - 1
        /\ \A i \in 1..(n - 1) : Below[i] = stack[i]
    BY <2>1, TopFrame DEF Top
  <2>3. n > 1 /\ stack[n - 1].kind = "drain"
    <3>1. IsNested(stack, n)
      BY <2>2 DEF ContextFollowsStack
    <3> QED
      BY <2>1, <2>2, <3>1 DEF IsNested
  <2>4. Below # <<>>
    BY <2>2, <2>3
  <2>5. /\ Len(stack') = Len(Below) - 1
        /\ \A i \in 1..(Len(Below) - 1) : stack'[i] = Below[i]
    BY <2>1, <2>2, <2>4, FrontProperties
  <2>6. /\ n - 2 \in Nat /\ Len(stack') = n - 2 /\ (n - 2) + 1 = n - 1
        /\ \A i \in 1..(n - 2) : stack'[i] = stack[i]
    BY <2>2, <2>3, <2>5
  <2> QED
    BY <2>1, <2>3, <2>6, UnitCloses DEF UnitKinds
<1>13. CASE UNCHANGED <<stack, checkpoints>>
  BY <1>13 DEF CheckpointsFollowStack
<1> QED
  BY <1>2, <1>3, <1>4, <1>6, <1>7, <1>8, <1>9, <1>10, <1>11, <1>12, <1>13
  DEF Next, vars, Terminated, Submit, WriteRecord

-----------------------------------------------------------------------------
(* Dropped jobs                                                            *)

\* The counts that are compared are counts of finite sets.
LEMMA AccountsAreFinite ==
    ASSUME AsyncTypes, QueueIsOrdered
    PROVE  /\ IsFiniteSet(Unaccounted) /\ Cardinality(Unaccounted) \in Nat
           /\ IsFiniteSet(JobsAt("Started")) /\ Cardinality(JobsAt("Started")) \in Nat
           /\ IsFiniteSet(OpenStarts) /\ Cardinality(OpenStarts) \in Nat
<1>1. IsFiniteSet(1..(nextId - 1))
  BY FS_Interval DEF AsyncTypes
<1>2. Unaccounted \in SUBSET (1..(nextId - 1))
  BY DEF Unaccounted
<1>3. JobsAt("Started") \in SUBSET (1..(nextId - 1))
  BY DEF JobsAt, QueueIsOrdered
<1>4. IsFiniteSet((1..Len(stack)) \X (1..MaxDrain))
  <2>1. Len(stack) \in Int /\ MaxDrain \in Int
    BY LenProperties, AsyncAssumption DEF AsyncTypes
  <2>2. IsFiniteSet(1..Len(stack)) /\ IsFiniteSet(1..MaxDrain)
    BY <2>1, FS_Interval
  <2> QED
    BY <2>2, FS_Product
<1>5. OpenStarts \in SUBSET ((1..Len(stack)) \X (1..MaxDrain))
  BY DEF OpenStarts
<1> QED
  BY <1>1, <1>2, <1>3, <1>4, <1>5, FS_Subset, FS_CardinalityType

LEMMA OneMoreAtMost ==
    ASSUME NEW S, NEW x, IsFiniteSet(S), Cardinality(S) \in Nat, NEW T \in SUBSET (S \cup {x})
    PROVE  Cardinality(T) \in Nat /\ Cardinality(T) <= Cardinality(S) + 1
<1>1. IsFiniteSet(S \cup {x}) /\ Cardinality(S \cup {x}) <= Cardinality(S) + 1
  BY FS_AddElement
<1>2. IsFiniteSet(T) /\ Cardinality(T) <= Cardinality(S \cup {x})
  BY <1>1, FS_Subset
<1>3. Cardinality(T) \in Nat /\ Cardinality(S \cup {x}) \in Nat
  BY <1>1, <1>2, FS_CardinalityType
<1> QED
  BY <1>1, <1>2, <1>3

\* Steps that start and drop no job, and count none for an open drain.
LEMMA AccountsKept ==
    ASSUME AsyncTypes, QueueIsOrdered, DropsAreAccounted,
           Unaccounted' = Unaccounted, JobsAt("Started")' = JobsAt("Started"),
           \A i \in 1..Len(stack') :
               stack'[i].kind = "drain" =>
                   stack'[i].drained = 0 \/ (i \in 1..Len(stack) /\ stack'[i] = stack[i])
    PROVE  DropsAreAccounted'
<1>1. OpenStarts' \in SUBSET OpenStarts
  <2> SUFFICES ASSUME NEW p \in OpenStarts' PROVE p \in OpenStarts
    OBVIOUS
  <2>1. /\ p \in (1..Len(stack')) \X (1..MaxDrain)
        /\ stack'[p[1]].kind = "drain" /\ p[2] <= stack'[p[1]].drained
    BY DEF OpenStarts
  <2>2. p[1] \in 1..Len(stack') /\ p[2] \in 1..MaxDrain /\ p = <<p[1], p[2]>>
    BY <2>1
  <2>3. stack'[p[1]].drained # 0
    BY <2>1, <2>2
  <2>4. p[1] \in 1..Len(stack) /\ stack'[p[1]] = stack[p[1]]
    BY <2>1, <2>2, <2>3
  <2> QED
    BY <2>1, <2>2, <2>4 DEF OpenStarts
<1>2. Cardinality(OpenStarts') \in Nat /\ Cardinality(OpenStarts') <= Cardinality(OpenStarts)
  BY <1>1, AccountsAreFinite, FS_Subset, FS_CardinalityType
<1> DEFINE u == Cardinality(Unaccounted) * MaxDrain
<1>3. u \in Nat /\ Cardinality(OpenStarts) \in Nat /\ Cardinality(JobsAt("Started")) \in Nat
  BY AccountsAreFinite, AsyncAssumption
<1>4. u + Cardinality(OpenStarts) <= Cardinality(JobsAt("Started"))
  BY DEF DropsAreAccounted
<1>5. DropsAreAccounted' <=> u + Cardinality(OpenStarts') <= Cardinality(JobsAt("Started"))
  BY DEF DropsAreAccounted
<1> HIDE DEF u
<1> QED
  BY <1>2, <1>3, <1>4, <1>5

\* Steps that leave the queue alone start and drop no job.
LEMMA JobsKept ==
    ASSUME AsyncTypes, UNCHANGED <<queue, nextId>>,
           \/ UNCHANGED events
           \/ \E e \in Events : e.stage # "Started" /\ events' = Append(events, e)
    PROVE  Unaccounted' = Unaccounted /\ JobsAt("Started")' = JobsAt("Started")
<1>1. JobsAt("Started")' = JobsAt("Started")
  <2>1. CASE UNCHANGED events
    BY <2>1 DEF JobsAt, At
  <2>2. ASSUME NEW e \in Events, e.stage # "Started", events' = Append(events, e)
        PROVE  JobsAt("Started")' = JobsAt("Started")
    <3>1. At("Started")' = At("Started") /\ \A i \in At("Started") : events'[i] = events[i]
      BY <2>2, EventSent DEF At
    <3> QED
      BY <3>1 DEF JobsAt
  <2> QED
    BY <2>1, <2>2
<1> QED
  BY <1>1 DEF Unaccounted

\* A submitted job is pending.
LEMMA SubmitDrops ==
    ASSUME AsyncTypes, QueueIsOrdered, DropsAreAccounted, Submit
    PROVE  DropsAreAccounted'
<1> DEFINE job == [id |-> nextId, parent |-> current, context |-> Captured]
<1>1. nextId \in Nat \ {0} /\ job \in Jobs /\ job.id = nextId
  BY CapturedType DEF AsyncTypes, Jobs
<1>2. queue' = Append(queue, job) /\ nextId' = nextId + 1 /\ stack' = stack
  BY DEF Submit
<1> HIDE DEF job
<1>3. /\ Len(queue) \in Nat /\ DOMAIN queue = 1..Len(queue)
      /\ DOMAIN queue' = 1..(Len(queue) + 1)
      /\ \A i \in 1..Len(queue) : queue'[i] = queue[i]
      /\ queue'[Len(queue) + 1].id = nextId
  BY <1>1, <1>2, AppendProperties, LenProperties DEF AsyncTypes
<1>4. JobsAt("Started")' = JobsAt("Started")
  <2>1. Event(nextId, "Queued") \in Events /\ Event(nextId, "Queued").stage # "Started"
    BY <1>1 DEF Event, Events
  <2>2. At("Started")' = At("Started") /\ \A i \in At("Started") : events'[i] = events[i]
    BY <2>1, EventSent DEF Submit, At
  <2> QED
    BY <2>2 DEF JobsAt
<1>5. {queue'[i].id : i \in DOMAIN queue'} = {queue[i].id : i \in DOMAIN queue} \cup {nextId}
  BY <1>3
<1>6. Unaccounted' = Unaccounted
  BY <1>1, <1>2, <1>4, <1>5 DEF Unaccounted
<1> QED
  BY <1>2, <1>4, <1>6, AccountsKept

\* A drain that starts a job counts it.
LEMMA StartJobDrops ==
    ASSUME AsyncTypes, QueueIsOrdered, DropsAreAccounted, StartJob
    PROVE  DropsAreAccounted'
<1>1. /\ queue # <<>> /\ queue' = RestOfQueue /\ nextId' = nextId
      /\ NextJob = queue[1] /\ queue[1] \in Jobs
  BY QueueHead DEF StartJob
<1> DEFINE e == Event(queue[1].id, "Started")
           n == Len(events) + 1
<1>2. e \in Events /\ events' = Append(events, e) /\ e.job = queue[1].id /\ e.stage = "Started"
  BY <1>1 DEF StartJob, Event, Events, Jobs
<1> HIDE DEF e
<1>3. /\ n \in Nat /\ DOMAIN events = 1..(n - 1)
      /\ \A i \in 1..(n - 1) : events'[i] = events[i]
      /\ events'[n].job = queue[1].id
      /\ At("Started")' = At("Started") \cup {n}
      /\ At("Started") \subseteq 1..(n - 1)
  BY <1>2, EventSent DEF At
<1> HIDE DEF n
<1>4. JobsAt("Started")' = JobsAt("Started") \cup {queue[1].id}
  BY <1>3 DEF JobsAt
<1>5. queue[1].id \notin JobsAt("Started")
  <2>1. \A i \in At("Started") : events[i].job < queue[1].id
    BY <1>1, TakeQueue DEF QueueIsOrdered
  <2>2. \A i \in At("Started") : events[i].job # queue[1].id
    BY <1>1, <2>1 DEF QueueIsOrdered, Jobs
  <2> QED
    BY <2>2 DEF JobsAt
<1>6. {queue[i].id : i \in DOMAIN queue} = {queue'[i].id : i \in DOMAIN queue'} \cup {queue[1].id}
  <2>1. /\ \A i \in DOMAIN queue' : queue'[i] = queue[i + 1] /\ i + 1 \in DOMAIN queue
        /\ 1 \in DOMAIN queue
    BY <1>1, TakeQueue
  <2>2. \A i \in DOMAIN queue : i = 1 \/ (i - 1 \in DOMAIN queue' /\ queue'[i - 1] = queue[i])
    <3> TAKE i \in DOMAIN queue
    <3>1. DOMAIN queue = 1..Len(queue) /\ Len(queue) \in Nat /\ DOMAIN queue' = 1..(Len(queue) - 1)
      BY <1>1, TakeQueue
    <3>2. i = 1 \/ (i - 1 \in DOMAIN queue' /\ (i - 1) + 1 = i)
      BY <3>1
    <3> QED
      BY <2>1, <3>2
  <2> QED
    BY <2>1, <2>2
<1>7. Unaccounted' = Unaccounted
  BY <1>1, <1>4, <1>6 DEF Unaccounted
<1>8. OpenStarts' \in SUBSET (OpenStarts \cup {<<Len(stack), Top.drained + 1>>})
  <2> DEFINE m == Len(stack)
  <2>1. /\ m \in Nat \ {0} /\ Len(stack') = m + 1
        /\ \A i \in 1..(m - 1) : stack'[i] = stack[i]
        /\ stack'[m] = [kind |-> "drain", drained |-> Top.drained + 1]
        /\ stack'[m + 1].kind = "job"
        /\ stack[m] = Top /\ Top.kind = "drain" /\ Top.drained \in Nat
    BY StartJobStack, AsyncAssumption DEF JobFrames, DrainFrames, Top
  <2> HIDE DEF m
  <2> SUFFICES ASSUME NEW p \in OpenStarts', p # <<m, Top.drained + 1>>
               PROVE  p \in OpenStarts
    BY DEF m
  <2>2. /\ p[1] \in 1..(m + 1) /\ p[2] \in 1..MaxDrain /\ p = <<p[1], p[2]>>
        /\ stack'[p[1]].kind = "drain" /\ p[2] <= stack'[p[1]].drained
    BY <2>1 DEF OpenStarts
  <2>3. p[1] # m + 1
    BY <2>1, <2>2
  <2>4. p[1] \in 1..m /\ stack[p[1]].kind = "drain" /\ p[2] <= stack[p[1]].drained
    <3>1. CASE p[1] = m
      <4>1. p[2] # Top.drained + 1 /\ p[2] <= Top.drained + 1
        BY <2>1, <2>2, <3>1
      <4> QED
        BY <2>1, <2>2, <3>1, <4>1
    <3>2. CASE p[1] # m
      <4>1. p[1] \in 1..(m - 1)
        BY <2>1, <2>2, <2>3, <3>2
      <4> QED
        BY <2>1, <2>2, <4>1
    <3> QED
      BY <3>1, <3>2
  <2> QED
    BY <2>2, <2>4 DEF OpenStarts, m
<1>9. /\ Cardinality(OpenStarts') \in Nat
      /\ Cardinality(OpenStarts') <= Cardinality(OpenStarts) + 1
  <2>1. IsFiniteSet(OpenStarts) /\ Cardinality(OpenStarts) \in Nat
    BY AccountsAreFinite
  <2> QED
    BY <1>8, <2>1, OneMoreAtMost
<1>10. Cardinality(JobsAt("Started")') = Cardinality(JobsAt("Started")) + 1
  BY <1>4, <1>5, AccountsAreFinite, FS_AddElement
<1> DEFINE u == Cardinality(Unaccounted) * MaxDrain
<1>11. u \in Nat /\ Cardinality(OpenStarts) \in Nat /\ Cardinality(JobsAt("Started")) \in Nat
  BY AccountsAreFinite, AsyncAssumption
<1>12. u + Cardinality(OpenStarts) <= Cardinality(JobsAt("Started"))
  BY DEF DropsAreAccounted
<1>13. DropsAreAccounted' <=> u + Cardinality(OpenStarts') <= Cardinality(JobsAt("Started")')
  BY <1>7 DEF DropsAreAccounted
<1> HIDE DEF u
<1> QED
  BY <1>9, <1>10, <1>11, <1>12, <1>13

\* The drain that drops a job is full, and is no longer counted as open.
LEMMA ExceedDrainDrops ==
    ASSUME AsyncTypes, QueueIsOrdered, DropsAreAccounted, ExceedDrain
    PROVE  DropsAreAccounted'
<1>1. /\ queue # <<>> /\ queue' = RestOfQueue /\ UNCHANGED <<nextId, events>>
      /\ stack # <<>> /\ Top.kind = "drain" /\ Top.drained >= MaxDrain /\ stack' = Below
  BY DEF ExceedDrain, Draining, BoundReached
<1>2. JobsAt("Started")' = JobsAt("Started")
  BY <1>1 DEF JobsAt, At
<1>3. Unaccounted' \in SUBSET (Unaccounted \cup {queue[1].id})
  <2>1. \A i \in DOMAIN queue : i = 1 \/ (i - 1 \in DOMAIN queue' /\ queue'[i - 1] = queue[i])
    <3> TAKE i \in DOMAIN queue
    <3>1. /\ DOMAIN queue = 1..Len(queue) /\ Len(queue) \in Nat
          /\ DOMAIN queue' = 1..(Len(queue) - 1)
          /\ \A j \in DOMAIN queue' : queue'[j] = queue[j + 1]
      BY <1>1, TakeQueue
    <3>2. i = 1 \/ (i - 1 \in DOMAIN queue' /\ (i - 1) + 1 = i)
      BY <3>1
    <3> QED
      BY <3>1, <3>2
  <2> QED
    BY <1>1, <1>2, <2>1 DEF Unaccounted
<1>4. Cardinality(Unaccounted') \in Nat /\ Cardinality(Unaccounted') <= Cardinality(Unaccounted) + 1
  <2>1. IsFiniteSet(Unaccounted) /\ Cardinality(Unaccounted) \in Nat
    BY AccountsAreFinite
  <2> QED
    BY <1>3, <2>1, OneMoreAtMost
<1> DEFINE m == Len(stack)
           own == {m} \X (1..MaxDrain)
<1>5. /\ m \in Nat \ {0} /\ Len(stack') = m - 1 /\ stack[m] = Top
      /\ \A i \in 1..(m - 1) : stack'[i] = stack[i]
  BY <1>1, TopFrame DEF Top
<1>6. Top.drained = MaxDrain
  <2>1. Top \in DrainFrames
    BY <1>1, TopFrame DEF Frames, EntryFrames, CallFrames, DrainFrames, JobFrames
  <2> QED
    BY <1>1, <2>1, AsyncAssumption DEF DrainFrames
<1>7. IsFiniteSet(own) /\ Cardinality(own) = MaxDrain
  <2>1. IsFiniteSet(1..MaxDrain) /\ Cardinality(1..MaxDrain) = MaxDrain
    BY AsyncAssumption, FS_Interval
  <2>2. IsFiniteSet({m}) /\ Cardinality({m}) = 1
    BY FS_Singleton
  <2>3. IsFiniteSet(own) /\ Cardinality(own) = 1 * MaxDrain
    BY <2>1, <2>2, FS_Product
  <2> QED
    BY <2>3, AsyncAssumption
<1>8. own \in SUBSET OpenStarts
  <2> SUFFICES ASSUME NEW d \in 1..MaxDrain PROVE <<m, d>> \in OpenStarts
    OBVIOUS
  <2>1. m \in 1..Len(stack) /\ d <= MaxDrain
    BY <1>5, AsyncAssumption
  <2> QED
    BY <1>1, <1>5, <1>6, <2>1 DEF OpenStarts
<1>9. OpenStarts' \in SUBSET (OpenStarts \ own)
  <2> SUFFICES ASSUME NEW p \in OpenStarts' PROVE p \in OpenStarts /\ p \notin own
    OBVIOUS
  <2>1. /\ p[1] \in 1..(m - 1) /\ p[2] \in 1..MaxDrain /\ p = <<p[1], p[2]>>
        /\ stack'[p[1]].kind = "drain" /\ p[2] <= stack'[p[1]].drained
    BY <1>5 DEF OpenStarts
  <2>2. p[1] \in 1..m /\ p[1] # m /\ stack'[p[1]] = stack[p[1]]
    BY <1>5, <2>1
  <2>3. p \notin own
    BY <2>2
  <2> QED
    BY <2>1, <2>2, <2>3 DEF OpenStarts
<1> HIDE DEF own
<1>10. /\ Cardinality(OpenStarts') \in Nat
       /\ Cardinality(OpenStarts') <= Cardinality(OpenStarts) - MaxDrain
  <2>1. OpenStarts \cap own = own
    BY <1>8
  <2>2. /\ IsFiniteSet(OpenStarts \ own)
        /\ Cardinality(OpenStarts \ own) = Cardinality(OpenStarts) - MaxDrain
    BY <1>7, <2>1, AccountsAreFinite, FS_Difference
  <2> QED
    BY <1>9, <2>2, FS_Subset, FS_CardinalityType
<1>11. /\ Cardinality(Unaccounted) \in Nat /\ Cardinality(OpenStarts) \in Nat
       /\ Cardinality(JobsAt("Started")) \in Nat /\ MaxDrain \in Nat
  BY AccountsAreFinite, AsyncAssumption
<1>12. Cardinality(Unaccounted) * MaxDrain + Cardinality(OpenStarts) <= Cardinality(JobsAt("Started"))
  BY DEF DropsAreAccounted
<1>13. Cardinality(Unaccounted') * MaxDrain <= Cardinality(Unaccounted) * MaxDrain + MaxDrain
  <2>1. \A u, v, k \in Nat : v <= u + 1 => v * k <= u * k + k
    OBVIOUS
  <2> QED
    BY <1>4, <1>11, <2>1
<1>14. Cardinality(Unaccounted') * MaxDrain \in Nat /\ Cardinality(Unaccounted) * MaxDrain \in Nat
  BY <1>4, <1>11
<1>15. Cardinality(Unaccounted') * MaxDrain + Cardinality(OpenStarts') <= Cardinality(JobsAt("Started"))
  BY <1>10, <1>11, <1>12, <1>13, <1>14
<1> QED
  BY <1>2, <1>15 DEF DropsAreAccounted

\* A step keeps the count.
LEMMA NextDrops ==
    ASSUME AsyncTypes, QueueIsOrdered, DropsAreAccounted, [Next]_vars,
           stack # <<>> /\ Top.kind = "job" => Below # <<>>
    PROVE  DropsAreAccounted'
<1>1. CASE Submit
  BY <1>1, SubmitDrops
<1>2. CASE StartJob
  BY <1>2, StartJobDrops
<1>3. CASE ExceedDrain
  BY <1>3, ExceedDrainDrops
<1>4. ASSUME NEW f \in Frames, stack' = Append(stack, f), f.kind = "drain" => f.drained = 0,
             UNCHANGED <<queue, nextId, events>>
      PROVE  DropsAreAccounted'
  <2>1. /\ Len(stack) \in Nat /\ Len(stack') = Len(stack) + 1 /\ stack'[Len(stack) + 1] = f
        /\ \A i \in 1..Len(stack) : stack'[i] = stack[i]
    BY <1>4, AppendProperties DEF AsyncTypes
  <2>2. \A i \in 1..Len(stack') :
            stack'[i].kind = "drain" =>
                stack'[i].drained = 0 \/ (i \in 1..Len(stack) /\ stack'[i] = stack[i])
    BY <1>4, <2>1
  <2> QED
    BY <1>4, <2>2, AccountsKept, JobsKept
<1>5. ASSUME NEW kind \in {"scope", "statement"}, NEW c \in Contexts, Enter(kind, c),
             UNCHANGED <<queue, nextId, events>>
      PROVE  DropsAreAccounted'
  <2> DEFINE f == [kind |-> kind, saved |-> context, context |-> c]
  <2>1. f \in Frames /\ f.kind # "drain" /\ stack' = Append(stack, f)
    BY <1>5 DEF AsyncTypes, Frames, CallFrames, Enter
  <2> HIDE DEF f
  <2> QED
    BY <1>4, <1>5, <2>1
<1>6. CASE EnterScope
  <2>1. \A u \in Users : [context EXCEPT !.user = u] \in Contexts
    BY DEF AsyncTypes, Contexts
  <2>2. \A s \in Sharings : [context EXCEPT !.sharing = s] \in Contexts
    BY DEF AsyncTypes, Contexts
  <2> QED
    BY <1>5, <1>6, <2>1, <2>2 DEF EnterScope
<1>7. CASE BeginStatement
  <2>1. [context EXCEPT !.sharing = Plain] \in Contexts
    BY AsyncAssumption DEF AsyncTypes, Contexts
  <2> QED
    BY <1>5, <1>7, <2>1 DEF BeginStatement
<1>8. CASE StopTest
  <2> DEFINE f == [kind |-> "drain", drained |-> 0]
  <2>1. f \in Frames /\ f.drained = 0 /\ stack' = Append(stack, f)
    BY <1>8, AsyncAssumption DEF Frames, DrainFrames, StopTest
  <2>2. UNCHANGED <<queue, nextId, events>>
    BY <1>8 DEF StopTest
  <2> HIDE DEF f
  <2> QED
    BY <1>4, <2>1, <2>2
<1>9. ASSUME \/ stack' = <<>>
             \/ stack # <<>> /\ stack' = Below
             \/ stack # <<>> /\ Below # <<>> /\ stack' = Front(Below),
             UNCHANGED <<queue, nextId>>,
             \/ UNCHANGED events
             \/ \E e \in Events : e.stage # "Started" /\ events' = Append(events, e)
      PROVE  DropsAreAccounted'
  <2>1. \A i \in 1..Len(stack') : i \in 1..Len(stack) /\ stack'[i] = stack[i]
    <3>1. CASE stack' = <<>>
      BY <3>1
    <3>2. CASE stack # <<>> /\ stack' = Below
      BY <3>2, TopFrame
    <3>3. CASE stack # <<>> /\ Below # <<>> /\ stack' = Front(Below)
      <4>1. /\ Len(stack) \in Nat \ {0} /\ Below \in Seq(Frames) /\ Len(Below) = Len(stack) - 1
            /\ \A i \in 1..(Len(stack) - 1) : Below[i] = stack[i]
        BY <3>3, TopFrame
      <4>2. /\ Len(stack') = Len(Below) - 1
            /\ \A i \in 1..(Len(Below) - 1) : stack'[i] = Below[i]
        BY <3>3, <4>1, FrontProperties
      <4> QED
        BY <4>1, <4>2
    <3> QED
      BY <1>9, <3>1, <3>2, <3>3
  <2>2. \A i \in 1..Len(stack') :
            stack'[i].kind = "drain" =>
                stack'[i].drained = 0 \/ (i \in 1..Len(stack) /\ stack'[i] = stack[i])
    BY <2>1
  <2>3. Unaccounted' = Unaccounted /\ JobsAt("Started")' = JobsAt("Started")
    BY <1>9, JobsKept
  <2> QED
    BY <2>2, <2>3, AccountsKept
<1>10. CASE LeaveScope \/ EndStatement \/ EndDrain \/ EndEntry
  BY <1>9, <1>10 DEF LeaveScope, EndStatement, EndDrain, EndEntry, CodeRuns, Draining
<1>11. ASSUME InJob, NEW stage \in {"Completed", "Failed"}, NEW rest, LeaveJob(stage, rest)
       PROVE  \E e \in Events : e.stage # "Started" /\ events' = Append(events, e)
  <2>1. Top \in JobFrames
    BY <1>11, SavedType DEF InJob, CodeRuns
  <2>2. Event(Top.job.id, stage) \in Events /\ Event(Top.job.id, stage).stage # "Started"
    BY <2>1 DEF Event, Events, JobFrames, Jobs
  <2> QED
    BY <1>11, <2>2 DEF LeaveJob
<1>12. CASE CompleteJob
  <2>1. \E e \in Events : e.stage # "Started" /\ events' = Append(events, e)
    BY <1>11, <1>12 DEF CompleteJob
  <2> QED
    BY <1>9, <1>12, <2>1 DEF CompleteJob, LeaveJob, InJob, CodeRuns
<1>13. CASE FailJob
  <2>1. \E e \in Events : e.stage # "Started" /\ events' = Append(events, e)
    BY <1>11, <1>13 DEF FailJob
  <2> QED
    BY <1>9, <1>13, <2>1 DEF FailJob, LeaveJob, InJob, CodeRuns
<1>14. CASE UNCHANGED <<queue, nextId, events, stack>>
  <2>1. \A i \in 1..Len(stack') : i \in 1..Len(stack) /\ stack'[i] = stack[i]
    BY <1>14
  <2> QED
    BY <1>14, <2>1, JobsKept, AccountsKept
<1> QED
  BY <1>1, <1>2, <1>3, <1>6, <1>7, <1>8, <1>10, <1>12, <1>13, <1>14
  DEF Next, vars, Terminated, WriteRecord

-----------------------------------------------------------------------------
(* The invariant                                                           *)

LEMMA InitAsyncInvariant == Init => AsyncInvariant
<1> SUFFICES ASSUME Init PROVE AsyncInvariant
  OBVIOUS
<1> DEFINE f == [kind |-> "entry", context |-> EntryContext]
<1>1. /\ queue = <<>> /\ nextId = 1 /\ current = Null /\ context = EntryContext
      /\ stack = <<f>> /\ checkpoints = <<db>> /\ events = <<>>
  BY DEF Init
<1>2. Len(stack) = 1 /\ stack[1] = f /\ stack # <<>>
  BY <1>1
<1>3. f.kind = "entry" /\ f.context = EntryContext
  OBVIOUS
<1> HIDE DEF f
<1>4. At("Started") = {} /\ DOMAIN queue = {}
  BY <1>1 DEF At
<1>5. QueueIsOrdered /\ JobsStartOnceInSubmissionOrder
  BY <1>4 DEF QueueIsOrdered, JobsStartOnceInSubmissionOrder
<1>6. ContextFollowsStack
  BY <1>1, <1>2, <1>3 DEF ContextFollowsStack, IsNested, IsContext, IsCurrent
<1>7. CheckpointsFollowStack
  <2>1. Cardinality(Units(stack, 0)) = 0 /\ stack[0 + 1].kind \in UnitKinds
    BY <1>2, <1>3, UnitCount DEF UnitKinds
  <2>2. Cardinality(Units(stack, 0 + 1)) = Cardinality(Units(stack, 0)) + 1
    BY <2>1, UnitCount
  <2>3. Cardinality(Units(stack, 1)) = 1
    BY <2>1, <2>2
  <2> QED
    BY <1>1, <1>2, <1>3, <2>3 DEF CheckpointsFollowStack, HasCheckpoint
<1>8. DropsAreAccounted
  <2>1. Unaccounted = {} /\ JobsAt("Started") = {} /\ OpenStarts = {}
    BY <1>1, <1>2, <1>3, <1>4 DEF Unaccounted, JobsAt, OpenStarts
  <2>2. 0 * MaxDrain + 0 <= 0
    BY AsyncAssumption
  <2> QED
    BY <2>1, <2>2, FS_EmptySet DEF DropsAreAccounted
<1> QED
  BY <1>5, <1>6, <1>7, <1>8, InitTypes DEF AsyncInvariant

\* What a unit or a job that ends relies on.
LEMMA TopIsNested ==
    ASSUME AsyncInvariant, stack # <<>>
    PROVE  /\ Top.kind \in UnitKinds => checkpoints # <<>>
           /\ Top.kind = "job" => Len(stack) > 1 /\ Below # <<>> /\ Last(checkpoints) = Top.start
<1>1. AsyncTypes /\ CheckpointsFollowStack /\ ContextFollowsStack
  BY DEF AsyncInvariant
<1>2. /\ Top.kind \in UnitKinds => checkpoints # <<>>
      /\ Top.kind = "job" => Last(checkpoints) = Top.start
  BY <1>1, TopCheckpoint DEF UnitKinds
<1>3. Len(stack) \in Nat \ {0} /\ stack[Len(stack)] = Top /\ Len(Below) = Len(stack) - 1
  BY <1>1, TopFrame DEF Top
<1>4. IsNested(stack, Len(stack))
  BY <1>1, <1>3 DEF ContextFollowsStack
<1>5. Top.kind = "job" => Len(stack) > 1
  BY <1>3, <1>4 DEF IsNested
<1>6. Len(stack) > 1 => Below # <<>>
  BY <1>3
<1> QED
  BY <1>2, <1>5, <1>6

LEMMA NextAsyncInvariant ==
    ASSUME AsyncInvariant, [Next]_vars
    PROVE  AsyncInvariant'
<1>1. /\ AsyncTypes /\ QueueIsOrdered /\ JobsStartOnceInSubmissionOrder
      /\ ContextFollowsStack /\ CheckpointsFollowStack /\ DropsAreAccounted
  BY DEF AsyncInvariant
<1>2. AsyncTypes'
  BY <1>1, TopIsNested, NextTypes
<1>3. QueueIsOrdered' /\ JobsStartOnceInSubmissionOrder'
  BY <1>1, NextQueue
<1>4. ContextFollowsStack'
  BY <1>1, NextContext
<1>5. CheckpointsFollowStack'
  BY <1>1, NextCheckpoints
<1>6. DropsAreAccounted'
  BY <1>1, TopIsNested, NextDrops
<1> QED
  BY <1>2, <1>3, <1>4, <1>5, <1>6 DEF AsyncInvariant

\* The invariant of the asynchronous runtime: its types, the order of the
\* queue, what every frame asks for, one checkpoint for each open unit, and the
\* account of the jobs that were dropped.
THEOREM AsyncStateFollowsStack == Spec => []AsyncInvariant
<1>1. Init => AsyncInvariant
  BY InitAsyncInvariant
<1>2. AsyncInvariant /\ [Next]_vars => AsyncInvariant'
  BY NextAsyncInvariant
<1> QED
  BY <1>1, <1>2, PTL DEF Spec

\* Jobs start in the order of their submission and never twice, however drains
\* nest and fail: drain_async_jobs takes from the front of the one queue.
THEOREM JobsAlwaysStartInOrder == Spec => []JobsStartOnceInSubmissionOrder
<1>1. AsyncInvariant => JobsStartOnceInSubmissionOrder
  BY DEF AsyncInvariant
<1> QED
  BY <1>1, AsyncStateFollowsStack, PTL

LEMMA GreatestElement ==
    ASSUME NEW S \in SUBSET Nat, NEW n \in S, \A m \in S : m <= n
    PROVE  Max(S) = n
<1>1. n \in S /\ \A m \in S : n >= m
  OBVIOUS
<1>2. \A x \in S : (\A m \in S : x >= m) => x = n
  <2> SUFFICES ASSUME NEW x \in S, \A m \in S : x >= m PROVE x = n
    OBVIOUS
  <2>1. x \in Nat /\ n \in Nat /\ x >= n /\ n >= x
    BY <1>1
  <2> QED
    BY <2>1
<1> QED
  BY <1>1, <1>2 DEF Max

\* Code runs with the job, the user and the sharing mode of its innermost frame,
\* and one checkpoint is open for each unit of work: what drain_async_jobs saves
\* before a job it restores on each of its ways out.
THEOREM ContextAlwaysFollowsStack == Spec => []ContextAndUnitsFollowStack
<1>1. ASSUME AsyncInvariant PROVE ContextAndUnitsFollowStack
  <2> DEFINE jobs == {i \in DOMAIN stack : stack[i].kind = "job"}
             code == {i \in DOMAIN stack : stack[i].kind # "drain"}
             units == {i \in DOMAIN stack : stack[i].kind \in {"entry", "statement", "job"}}
             n == Len(stack)
  <2>1. AsyncTypes /\ ContextFollowsStack /\ CheckpointsFollowStack
    BY <1>1 DEF AsyncInvariant
  <2>2. n \in Nat /\ DOMAIN stack = 1..n
    BY <2>1, LenProperties DEF AsyncTypes
  <2>3. units = Units(stack, n)
    BY <2>2 DEF Units, UnitKinds
  <2>4. Len(checkpoints) = Cardinality(units)
    BY <2>1, <2>3 DEF CheckpointsFollowStack
  <2>5. ASSUME stack # <<>>
        PROVE  /\ current = IF jobs = {} THEN Null ELSE stack[Max(jobs)].job.id
               /\ context = stack[Max(code)].context
    <3>1. IsContext(stack, n, context) /\ IsCurrent(stack, n, current)
      BY <2>1, <2>5 DEF ContextFollowsStack
    <3>2. context = stack[Max(code)].context
      <4>1. PICK i \in 1..n : /\ stack[i].kind # "drain" /\ stack[i].context = context
                              /\ \A j \in (i + 1)..n : stack[j].kind = "drain"
        BY <3>1 DEF IsContext
      <4>2. i \in code /\ code \in SUBSET Nat /\ \A j \in code : j <= i
        BY <2>2, <4>1
      <4>3. Max(code) = i
        BY <4>2, GreatestElement
      <4> QED
        BY <4>1, <4>3
    <3>3. CASE current = Null /\ \A j \in 1..n : stack[j].kind # "job"
      BY <2>2, <3>2, <3>3
    <3>4. CASE \E i \in 1..n : /\ stack[i].kind = "job" /\ stack[i].job.id = current
                               /\ \A j \in (i + 1)..n : stack[j].kind # "job"
      <4>1. PICK i \in 1..n : /\ stack[i].kind = "job" /\ stack[i].job.id = current
                              /\ \A j \in (i + 1)..n : stack[j].kind # "job"
        BY <3>4
      <4>2. i \in jobs /\ jobs \in SUBSET Nat /\ \A j \in jobs : j <= i
        BY <2>2, <4>1
      <4>3. Max(jobs) = i /\ jobs # {}
        BY <4>2, GreatestElement
      <4> QED
        BY <3>2, <4>1, <4>3
    <3> QED
      BY <3>1, <3>3, <3>4 DEF IsCurrent
  <2> QED
    BY <2>4, <2>5 DEF ContextAndUnitsFollowStack
<1> QED
  BY <1>1, AsyncStateFollowsStack, PTL

\* Each job that is neither pending nor ever started is answered for by MaxDrain
\* jobs that the drain which dropped it had started: no other way loses a job.
THEOREM OnlyFullDrainsDropJobs == Spec => []JobsAreDroppedByFullDrainsOnly
<1>1. ASSUME AsyncInvariant PROVE JobsAreDroppedByFullDrainsOnly
  <2>1. AsyncTypes /\ QueueIsOrdered /\ DropsAreAccounted
    BY <1>1 DEF AsyncInvariant
  <2>2. /\ Cardinality(Unaccounted) * MaxDrain \in Nat /\ Cardinality(OpenStarts) \in Nat
        /\ Cardinality(JobsAt("Started")) \in Nat
    BY <2>1, AccountsAreFinite, AsyncAssumption
  <2> QED
    BY <2>1, <2>2 DEF DropsAreAccounted, JobsAreDroppedByFullDrainsOnly
<1> QED
  BY <1>1, AsyncStateFollowsStack, PTL

\* A job that fails leaves the database as it found it: the checkpoint it is
\* rolled back to is the one taken when it started, because every unit opened
\* inside it is closed by then.
THEOREM FailedJobsAreUndone == Spec => FailedJobsLeaveNoEffect
<1>1. ASSUME AsyncInvariant, [Next]_vars,
             Len(events') > Len(events), Last(events').stage = "Failed"
      PROVE  db' = Top.start
  <2>1. AsyncTypes
    BY <1>1 DEF AsyncInvariant
  <2>2. \A e \in Events : events' = Append(events, e) => e.stage = "Failed"
    BY <1>1, <2>1, EventSent, AppendProperties DEF Last, AsyncTypes
  <2>3. ~UNCHANGED events
    BY <1>1, <2>1 DEF AsyncTypes
  <2>4. ~Submit
    <3>1. Submit => Event(nextId, "Queued") \in Events
      BY <2>1 DEF AsyncTypes, Event, Events
    <3> QED
      BY <2>2, <3>1 DEF Submit, Event
  <2>5. ~StartJob
    <3>1. StartJob => Event(NextJob.id, "Started") \in Events
      BY <2>1, QueueHead DEF StartJob, Jobs, Event, Events
    <3> QED
      BY <2>2, <3>1 DEF StartJob, Event
  <2>6. ~CompleteJob
    <3>1. CompleteJob => Event(Top.job.id, "Completed") \in Events
      BY <2>1, SavedType DEF CompleteJob, InJob, CodeRuns, JobFrames, Jobs, Event, Events
    <3> QED
      BY <2>2, <3>1 DEF CompleteJob, LeaveJob, Event
  <2>7. FailJob
    BY <1>1, <2>3, <2>4, <2>5, <2>6
    DEF Next, vars, Terminated, WriteRecord, EnterScope, LeaveScope, BeginStatement,
        EndStatement, EndEntry, StopTest, ExceedDrain, EndDrain
  <2> QED
    BY <1>1, <2>7, TopIsNested DEF FailJob, RollbackUnit, InJob, CodeRuns
<1> QED
  BY <1>1, AsyncStateFollowsStack, PTL DEF Spec, FailedJobsLeaveNoEffect

=============================================================================
