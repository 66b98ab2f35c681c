----------------------------- MODULE DmlEngine -----------------------------
(***************************************************************************)
(* The interpreter's DML engine (src/runtime/database.rs) over the local   *)
(* database and its host: DML requests of several rows, all-or-none and    *)
(* partial, split into groups by concrete operation, with before and after *)
(* triggers whose bodies may themselves run DML, query, write SObjects and *)
(* throw, and partial groups retried on their surviving rows.              *)
(*                                                                         *)
(* The interpreter's control stack is the variable `stack'.  Its bottom    *)
(* frame is the entry point; a "statement" frame is one execute_dml_value; *)
(* a "trigger" frame is one running trigger body.  Apex code runs when an  *)
(* entry or trigger frame is on top: every step of it is chosen freely,    *)
(* within `fuel', and an exception that reaches it may be caught (the code *)
(* goes on) or not (the code throws).                                      *)
(***************************************************************************)
EXTENDS Records, SequencesExt

CONSTANTS
    object,            \* the SObject type all rows have
    Handles,           \* the SObjects Apex code holds (SObjectId)
    Globals,           \* those that trigger bodies reach besides Trigger.new
    InitialImages,     \* the images they may start with
    Fixture,           \* the records stored at the start
    Requests,          \* the lists of handles (Null for a null row) sent to DML
    RequestOps,        \* the operations requested
    ExternalId,        \* the external-Id field upserts name, or Null
    TriggerCount,      \* how many triggers each operation and phase has
    HostMayFail,       \* whether the host may refuse a whole write
    MaxTriggerDepth,   \* 16 in the code
    MaxAttempts,       \* MAX_PARTIAL_DML_ATTEMPTS, 3 in the code
    MaxFuel            \* bound: steps of Apex code in one execution

Phases == {"before", "after"}

\* The image of an SObject: its Id, Null when it has none, and its fields.
Images == [id : Ids \cup {Null}, fields : CarriedFields]

ASSUME DmlEngineAssumption ==
    /\ object \in Objects
    /\ Globals \subseteq Handles
    /\ Null \notin Handles
    /\ InitialImages \subseteq Images
    /\ \A inputs \in Requests : inputs \in Seq(Handles \cup {Null})
    /\ IsTable(Fixture)
    /\ RequestOps \subseteq Operations
    /\ ExternalId \in Fields \cup {Null}
    /\ TriggerCount \in [Operations \X Phases -> Nat]
    /\ HostMayFail \in BOOLEAN
    /\ MaxTriggerDepth \in Nat /\ MaxAttempts \in Nat /\ MaxFuel \in Nat

VARIABLES
    db,            \* the host's database
    checkpoints,   \* the host's snapshots, innermost last
    image,         \* the image of every SObject: its Id and the fields it carries
    readOnly,      \* the SObjects that may not be written (read_only_sobjects)
    depth,         \* trigger_depth
    stack,         \* the control stack, innermost last
    queries,       \* the query counter of the host
    baselines,     \* dml_retry_limit_baselines
    fuel           \* steps of Apex code left

vars == <<db, checkpoints, image, readOnly, depth, stack, queries, baselines, fuel>>

Top == stack[Len(stack)]
Below == Front(stack)
Push(frame) == Append(stack, frame)

\* f laid over g.
Over(f, g) == [x \in DOMAIN f \cup DOMAIN g |-> IF x \in DOMAIN f THEN f[x] ELSE g[x]]
Become(frame) == Append(Below, frame)

BeginUnit == checkpoints' = Append(checkpoints, db)
CommitUnit == checkpoints' = Front(checkpoints) /\ db' = db
RollbackUnit == checkpoints' = Front(checkpoints) /\ db' = Last(checkpoints)

Init ==
    /\ db = [live     |-> Fixture,
             bin      |-> [id \in {} |-> Blank],
             sequence |-> [o \in Objects |-> 0]]
    /\ checkpoints = <<db>>
    /\ image \in [Handles -> InitialImages]
    /\ readOnly = {}
    /\ depth = 0
    /\ stack = <<[kind |-> "entry"]>>
    /\ queries = 0
    /\ baselines = <<>>
    /\ fuel = MaxFuel

-----------------------------------------------------------------------------
(* Apex code: the entry point and the trigger bodies.                      *)

CodeRuns == stack # <<>> /\ Top.kind \in {"entry", "trigger"}

\* Trigger.new holds the SObjects the phase is about, but is null in a delete.
TriggerNew == IF Head(Last(Below).pending) = "delete" THEN {} ELSE Top.context

Reach == IF Top.kind = "entry" THEN Handles ELSE TriggerNew \cup Globals

Spend == CodeRuns /\ fuel > 0 /\ fuel' = fuel - 1

\* Writing a read-only SObject throws instead (see ThrowInTrigger).
SetField ==
    /\ Spend
    /\ \E h \in Reach \ readOnly, f \in Fields, v \in Values \cup {Null} :
           image' = [image EXCEPT ![h].fields = Put(@, f, v)]
    /\ UNCHANGED <<db, checkpoints, readOnly, depth, stack, queries, baselines>>

RunQuery ==
    /\ Spend
    /\ queries' = queries + 1
    /\ UNCHANGED <<db, checkpoints, image, readOnly, depth, stack, baselines>>

\* The recursion bound on triggers, looked at before each request.
MayIssue == depth < MaxTriggerDepth

\* execute_dml_value up to its transaction: a request at the depth limit, and
\* an all-or-none request with a null row, throw before anything is touched.
IssueDml ==
    /\ Spend
    /\ MayIssue
    /\ \E inputs \in Requests, op \in RequestOps, atomic \in BOOLEAN :
           LET given == {i \in DOMAIN inputs : inputs[i] # Null}
           IN  /\ \A i \in given : inputs[i] \in Reach
               /\ atomic => given = DOMAIN inputs
               /\ stack' = Push(
                    [kind      |-> "statement",
                     stage     |-> "preflight",
                     op        |-> op,
                     atomic    |-> atomic,
                     inputs    |-> inputs,
                     originals |-> Restrict(image, {inputs[i] : i \in given}),
                     outcomes  |-> [i \in DOMAIN inputs \ given |-> "MISSING_ARGUMENT"],
                     ready     |-> <<>>,
                     pending   |-> <<>>,
                     group     |-> {},
                     attempt   |-> 0,
                     held      |-> <<>>,
                     results   |-> <<>>,
                     start     |-> [db |-> db, queries |-> queries]])  \* for properties
    /\ BeginUnit
    /\ UNCHANGED <<db, image, readOnly, depth, queries, baselines>>

\* The entry point returns, or an exception leaves it.
FinishEntry ==
    /\ Len(stack) = 1 /\ CodeRuns
    /\ CommitUnit \/ RollbackUnit
    /\ stack' = <<>>
    /\ UNCHANGED <<image, readOnly, depth, queries, baselines, fuel>>

-----------------------------------------------------------------------------
(* One DML statement.                                                      *)

At(stage) == stack # <<>> /\ Top.kind = "statement" /\ Top.stage = stage

RowOf(h) == [object |-> object, id |-> image[h].id, fields |-> image[h].fields]

Given(frame) == {i \in DOMAIN frame.inputs : frame.inputs[i] # Null}

\* outcomes of some rows added to those already settled
Settled(frame, extra) == Over(extra, frame.outcomes)

\* execute_dml_transaction: rows that fail their preflight fail the whole
\* all-or-none request, and become outcomes of a partial one.
Preflight ==
    /\ At("preflight")
    /\ LET prepared == [i \in Given(Top) |->
                           PrepareRow(db, Top.op, ExternalId, RowOf(Top.inputs[i]))]
           denied   == {i \in Given(Top) : prepared[i].status # "OK"}
       IN  stack' = Become(
             IF Top.atomic /\ denied # {} THEN [Top EXCEPT !.stage = "failing"]
             ELSE [Top EXCEPT
                     !.stage = "choose",
                     !.outcomes = Settled(Top, [i \in denied |-> prepared[i].status]),
                     !.ready = Restrict(prepared, Given(Top) \ denied),
                     !.pending = <<"insert", "update", "delete", "undelete">>])
    /\ UNCHANGED <<db, checkpoints, image, readOnly, depth, queries, baselines, fuel>>

RowsFor(frame, operation) == {i \in DOMAIN frame.ready : frame.ready[i].op = operation}

GroupOp == Head(Top.pending)

\* The groups run in a fixed order of operations; a partial one opens a retry
\* scope of the host.
ChooseGroup ==
    /\ At("choose") /\ Top.pending # <<>>
    /\ LET rows == RowsFor(Top, GroupOp)
       IN  IF rows = {}
           THEN /\ stack' = Become([Top EXCEPT !.pending = Tail(@)])
                /\ UNCHANGED baselines
           ELSE /\ stack' = Become([Top EXCEPT !.stage = "attempt", !.group = rows,
                                              !.attempt = 1, !.start.queries = queries])
                /\ baselines' = IF Top.atomic THEN baselines ELSE Append(baselines, queries)
    /\ UNCHANGED <<db, checkpoints, image, readOnly, depth, queries, fuel>>

GroupHandles == {Top.inputs[i] : i \in Top.group}

\* The image h takes from the rows of the group: the last of its rows decides.
PreparedImage(h) ==
    LET rows == {i \in Top.group : Top.inputs[i] = h /\ Top.ready[i].new # NoImage}
    IN  IF rows = {} THEN image[h] ELSE Top.ready[Max(rows)].new

BeginAttempt ==
    /\ At("attempt")
    /\ BeginUnit
    /\ image' = [h \in Handles |-> IF h \in GroupHandles THEN PreparedImage(h) ELSE image[h]]
    /\ stack' = Become([Top EXCEPT !.stage = "before", !.results = <<>>,
                                   !.held = Restrict(image, GroupHandles)])
    /\ UNCHANGED <<db, readOnly, depth, queries, baselines, fuel>>
-----------------------------------------------------------------------------
(* Triggers: execute_trigger_phase.                                        *)

Succeeded(frame) == {i \in DOMAIN frame.results : frame.results[i] = "OK"}

\* The SObjects a phase is about, of a delete too: those of the group before the
\* write, those of the rows written after it.
PhaseHandles(phase) ==
    IF phase = "before" THEN GroupHandles ELSE {Top.inputs[i] : i \in Succeeded(Top)}

NextStage(phase) == IF phase = "before" THEN "write" ELSE "settle"

\* After triggers run only when some row was written.
SkipTriggers ==
    /\ \E phase \in Phases :
           /\ At(phase)
           /\ \/ TriggerCount[<<GroupOp, phase>>] = 0
              \/ phase = "after" /\ Succeeded(Top) = {}
           /\ stack' = Become([Top EXCEPT !.stage = NextStage(phase)])
    /\ UNCHANGED <<db, checkpoints, image, readOnly, depth, queries, baselines, fuel>>

Entered(phase, context, saved, left) ==
    [kind |-> "trigger", phase |-> phase, context |-> context, saved |-> saved, left |-> left]

ReadOnlyIn(phase, context, saved) == IF phase = "after" THEN saved \cup context ELSE saved

EnterTriggers ==
    /\ \E phase \in Phases :
           /\ At(phase)
           /\ TriggerCount[<<GroupOp, phase>>] > 0
           /\ phase = "after" => Succeeded(Top) # {}
           /\ stack' = Push(Entered(phase, PhaseHandles(phase), readOnly,
                                    TriggerCount[<<GroupOp, phase>>] - 1))
           /\ readOnly' = ReadOnlyIn(phase, PhaseHandles(phase), readOnly)
    /\ depth' = depth + 1
    /\ UNCHANGED <<db, checkpoints, image, queries, baselines, fuel>>

\* The read-only set a body's end puts back.
LeakedReadOnly == readOnly
SavedReadOnly == Top.saved

\* A body ends: the next trigger of the phase starts, or the phase is over.
InTrigger == stack # <<>> /\ Top.kind = "trigger"

LeaveTrigger(stage) == Append(Front(Below), [Last(Below) EXCEPT !.stage = stage])

NextTrigger ==
    /\ InTrigger /\ Top.left > 0
    /\ stack' = Become([Top EXCEPT !.left = @ - 1])
    /\ readOnly' = ReadOnlyIn(Top.phase, Top.context, Top.saved)
    /\ UNCHANGED <<db, checkpoints, image, depth, queries, baselines, fuel>>

ReturnFromTrigger ==
    /\ InTrigger /\ Top.left = 0
    /\ stack' = LeaveTrigger(NextStage(Top.phase))
    /\ readOnly' = SavedReadOnly
    /\ depth' = depth - 1
    /\ UNCHANGED <<db, checkpoints, image, queries, baselines, fuel>>

\* An exception the body does not catch: its own, a write to a read-only
\* SObject, or that of a DML statement it ran.
ThrowInTrigger ==
    /\ InTrigger
    /\ stack' = LeaveTrigger("failed")
    /\ readOnly' = SavedReadOnly
    /\ depth' = depth - 1
    /\ UNCHANGED <<db, checkpoints, image, queries, baselines, fuel>>

-----------------------------------------------------------------------------
(* The write: RecordingHost::dml and apply_dml_outcomes.                   *)

\* The image a row leaves behind: a written update or undelete has every
\* field of the stored record, an insert those it carried.
Written(result, row) ==
    IF result.status # "OK" THEN NoImage
    ELSE [id     |-> result.id,
          fields |-> IF GroupOp \in {"update", "undelete"}
                     THEN result.db.live[result.id] ELSE row.fields]

\* Mutant: the row finds its record again when it is written.
RunRowRematched(done, i) ==
    LET own    == RowOf(Top.inputs[i])
        found  == IF GroupOp = "update" THEN Matches(done.db, ExternalId, own) ELSE {}
        row    == [own EXCEPT !.id = IF found = {} THEN @ ELSE CHOOSE id \in found : TRUE]
        result == RowResult(done.db, GroupOp, row)
    IN  [db       |-> result.db,
         statuses |-> Put(done.statuses, i, result.status),
         images   |-> IF result.status = "OK"
                      THEN Put(done.images, Top.inputs[i], Written(result, row))
                      ELSE done.images]

RunRow(done, i) ==
    LET row    == RowOf(Top.inputs[i])
        result == RowResult(done.db, GroupOp, row)
    IN  [db       |-> result.db,
         statuses |-> Put(done.statuses, i, result.status),
         images   |-> IF result.status = "OK"
                      THEN Put(done.images, Top.inputs[i], Written(result, row))
                      ELSE done.images]

\* What is done after each input row: those of the group run, in order.
Done ==
    LET done[i \in 0..Len(Top.inputs)] ==
            IF i = 0 THEN [db |-> db, statuses |-> <<>>, images |-> <<>>]
            ELSE IF i \in Top.group THEN RunRow(done[i - 1], i) ELSE done[i - 1]
    IN  done

\* Bound: a group that would exhaust the sequences is not written.
MayDraw ==
    \A i \in Top.group :
        DrawsId(GroupOp, RowOf(Top.inputs[i])) => CanDraw(Done[i - 1].db, object)

Write ==
    /\ At("write")
    /\ MayDraw
    /\ LET run == Done[Len(Top.inputs)]
       IN  /\ db' = run.db
           /\ image' = Over(run.images, image)
           /\ stack' = Become([Top EXCEPT !.stage = "after", !.results = run.statuses])
    /\ UNCHANGED <<checkpoints, readOnly, depth, queries, baselines, fuel>>

HostFails ==
    /\ HostMayFail
    /\ At("write")
    /\ stack' = Become([Top EXCEPT !.stage = "failed"])
    /\ UNCHANGED <<db, checkpoints, image, readOnly, depth, queries, baselines, fuel>>

-----------------------------------------------------------------------------
(* The end of an attempt: execute_dml_group, execute_partial_dml_attempt.  *)

AllSucceeded == Succeeded(Top) = DOMAIN Top.results

GroupDone(outcomes) == [Top EXCEPT !.stage = "choose", !.pending = Tail(@), !.group = {},
                                   !.results = <<>>, !.held = <<>>, !.attempt = 0,
                                   !.outcomes = Settled(Top, outcomes)]

Fails == [Top EXCEPT !.stage = "failing", !.group = {}, !.results = <<>>, !.held = <<>>]

\* The group is kept, then an all-or-none one with a failed row fails the
\* statement around it.
SettleAtomic ==
    /\ At("settle") /\ Top.atomic
    /\ CommitUnit
    /\ stack' = Become(IF AllSucceeded THEN GroupDone(Top.results) ELSE Fails)
    /\ UNCHANGED <<image, readOnly, depth, queries, baselines, fuel>>

SettlePartial ==
    /\ At("settle") /\ ~Top.atomic /\ AllSucceeded
    /\ CommitUnit
    /\ baselines' = Front(baselines)
    /\ stack' = Become(GroupDone(Top.results))
    /\ UNCHANGED <<image, readOnly, depth, queries, fuel>>

\* capture_sobject_images and restore_sobject_images around an attempt.
UnrestoredImages == image
RestoredImages == Over(Top.held, image)

\* reset_dml_retry_limits: the innermost scope's baseline.
ResetCount == Last(baselines)

\* The rows attempted again, and the outcomes kept of the others.
NoSurvivors == {}
Survivors == Succeeded(Top)

KeptOutcomes == Restrict(Top.results, DOMAIN Top.results \ Survivors)

\* A partial attempt with failed rows is undone; its survivors, if any, are
\* attempted again from the query count the scope began with.
RetrySurvivors ==
    /\ At("settle") /\ ~Top.atomic /\ ~AllSucceeded
    /\ RollbackUnit
    /\ image' = RestoredImages
    /\ \/ /\ Top.attempt = MaxAttempts
          /\ stack' = Become(Fails)
          /\ baselines' = Front(baselines)
          /\ UNCHANGED queries
       \/ /\ Top.attempt < MaxAttempts /\ Survivors = {}
          /\ stack' = Become(GroupDone(KeptOutcomes))
          /\ baselines' = Front(baselines)
          /\ UNCHANGED queries
       \/ /\ Top.attempt < MaxAttempts /\ Survivors # {}
          /\ stack' = Become([Top EXCEPT !.stage = "attempt", !.attempt = @ + 1,
                                         !.group = Survivors, !.held = <<>>,
                                         !.results = <<>>,
                                         !.outcomes = Settled(Top, KeptOutcomes)])
          /\ queries' = ResetCount
          /\ UNCHANGED baselines
    /\ UNCHANGED <<readOnly, depth, fuel>>

\* A trigger threw or the host refused: the attempt is undone.  A partial
\* group then fails row by row, except on the last attempt, which throws.
FailAttempt ==
    /\ At("failed")
    /\ RollbackUnit
    /\ image' = RestoredImages
    /\ \/ Top.atomic /\ stack' = Become(Fails) /\ UNCHANGED baselines
       \/ /\ ~Top.atomic /\ Top.attempt = MaxAttempts
          /\ stack' = Become(Fails)
          /\ baselines' = Front(baselines)
       \/ /\ ~Top.atomic /\ Top.attempt < MaxAttempts
          /\ stack' = Become(GroupDone([i \in Top.group |->
                                 "CANNOT_INSERT_UPDATE_ACTIVATE_ENTITY"]))
          /\ baselines' = Front(baselines)
    /\ UNCHANGED <<readOnly, depth, queries, fuel>>

-----------------------------------------------------------------------------
(* The end of the statement: execute_dml_value.                            *)

CompleteStatement ==
    /\ At("choose") /\ Top.pending = <<>>
    /\ CommitUnit
    /\ stack' = Below
    /\ UNCHANGED <<image, readOnly, depth, queries, baselines, fuel>>

\* The images the SObjects of the request had when it was issued.
UnrestoredOriginals == image
RestoredOriginals == Over(Top.originals, image)

\* The caller's SObjects and the database are put back, then the exception
\* reaches the code that issued the statement.
FailStatement ==
    /\ At("failing")
    /\ RollbackUnit
    /\ image' = RestoredOriginals
    /\ stack' = Below
    /\ UNCHANGED <<readOnly, depth, queries, baselines, fuel>>

Terminated == stack = <<>> /\ UNCHANGED vars

Next ==
    \/ SetField \/ RunQuery \/ IssueDml \/ FinishEntry
    \/ Preflight \/ ChooseGroup \/ BeginAttempt
    \/ SkipTriggers \/ EnterTriggers \/ NextTrigger \/ ReturnFromTrigger \/ ThrowInTrigger
    \/ Write \/ HostFails
    \/ SettleAtomic \/ SettlePartial \/ RetrySurvivors \/ FailAttempt
    \/ CompleteStatement \/ FailStatement
    \/ Terminated

Spec == Init /\ [][Next]_vars

-----------------------------------------------------------------------------
(* Properties                                                              *)

FramesThat(Test(_)) == Cardinality({i \in DOMAIN stack : Test(stack[i])})

IsStatement(frame) == frame.kind = "statement"
IsTriggerBody(frame) == frame.kind = "trigger"
HasOpenAttempt(frame) ==
    IsStatement(frame) /\ frame.stage \in {"before", "write", "after", "settle", "failed"}
HasOpenScope(frame) ==
    IsStatement(frame) /\ ~frame.atomic /\ (frame.stage = "attempt" \/ HasOpenAttempt(frame))

\* Whatever path a request takes (success, denied preflight, failed rows, a
\* throw in a trigger on any attempt, a caught exception), the host's nesting
\* follows the interpreter's: one checkpoint for the entry, each statement and
\* each open attempt, one retry scope for each partial group, and a trigger
\* depth and read-only set that are those of the bodies running. Each attempt
\* of a partial group starts from the query count of the first, also after
\* attempts whose triggers ran partial requests with retry scopes of their own.
HostFollowsStack ==
    /\ Len(checkpoints) = (IF stack = <<>> THEN 0 ELSE 1)
                            + FramesThat(IsStatement) + FramesThat(HasOpenAttempt)
    /\ Len(baselines) = FramesThat(HasOpenScope)
    /\ depth = FramesThat(IsTriggerBody)
    /\ At("attempt") => queries = Top.start.queries
    /\ readOnly = UNION {stack[i].context : i \in {j \in DOMAIN stack :
                        IsTriggerBody(stack[j]) /\ stack[j].phase = "after"}}

Popped(kind) == stack # <<>> /\ Len(stack') < Len(stack) /\ Top.kind = kind

\* A DML statement that throws leaves the database, and the caller SObjects of
\* the request, as they were when it was issued, whatever its triggers and the
\* statements nested in them had written or committed.
FailedStatementsLeaveNoTrace ==
    [][Popped("statement") /\ Top.stage = "failing" =>
           /\ db' = Top.start.db
           /\ Restrict(image', DOMAIN Top.originals) = Top.originals]_vars

\* A DML statement that returns has one outcome for every input row, and a row
\* reported as written is in the database under the Id its SObject has: no
\* success survives an attempt that was rolled back.
OutcomesAreTrue ==
    [][Popped("statement") /\ Top.stage # "failing" =>
           /\ DOMAIN Top.outcomes = DOMAIN Top.inputs
           /\ \A i \in DOMAIN Top.outcomes : Top.outcomes[i] = "OK" =>
                  image'[Top.inputs[i]].id \in DOMAIN db'.live \cup DOMAIN db'.bin]_vars

\* A row whose SObject nothing but the row itself is about: no other row of the
\* request has it, and triggers do not reach it by other ways.
IsAlone(frame, i) ==
    /\ i \in Given(frame) /\ frame.inputs[i] \in Handles \ Globals
    /\ \A j \in Given(frame) : frame.inputs[j] = frame.inputs[i] => j = i

\* ADR 0027: failed rows of a partial request keep their exact state, whatever
\* the attempts they were part of and the triggers of these had done to it.
FailedRowsKeepTheirState ==
    [][Popped("statement") /\ Top.stage # "failing" =>
           \A i \in Given(Top) : IsAlone(Top, i) /\ Top.outcomes[i] # "OK" =>
               image'[Top.inputs[i]] = Top.originals[Top.inputs[i]]]_vars

\* The record a row of an external-Id upsert is about, of those there were when
\* the statement began: the one its SObject names, else those with its value.
AimsOf(frame, i) ==
    LET given == frame.originals[frame.inputs[i]]
        row   == [object |-> object, id |-> given.id, fields |-> given.fields]
    IN  IF given.id # Null THEN {given.id} ELSE Matches(frame.start.db, ExternalId, row)

\* An external-Id upsert finds its records before its triggers run and writes them
\* after these have changed the values matched, the SObjects and the database.
\* Whatever they did, a row that is written has the Id of the single record it was
\* about when the statement began, or one that no record had if it was about none.
UpsertsWriteTheirMatches ==
    [][At("write") /\ Last(stack').stage = "after" /\ Top.op = "upsert" /\ ExternalId # Null =>
           \A i \in Succeeded(Last(stack')) :
               LET id == image'[Top.inputs[i]].id
               IN  AimsOf(Top, i) = IF id \in DOMAIN db.live THEN {id} ELSE {}]_vars

=============================================================================
