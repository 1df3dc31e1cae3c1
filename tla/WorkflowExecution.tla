------------------------- MODULE WorkflowExecution -------------------------
(***************************************************************************)
(* The handlers of ExecutionManager that change the row of an execution    *)
(* that has been launched: CreateWorkflowEvent, TerminateExecution and     *)
(* GetExecutionData (pkg/manager/impl/execution_manager.go), with the      *)
(* asynchronous writer of execution events.                                *)
(*                                                                         *)
(* Every handler reads the row, works on its copy and writes the copy      *)
(* back, each in a database statement of its own: nothing locks the row or *)
(* checks that it is still what was read.  A handler of the model is a     *)
(* goroutine serving one request; its steps are the statements and calls   *)
(* other goroutines can come between.  A request the code answers with an  *)
(* error before it changes anything is not an action.                      *)
(***************************************************************************)
EXTENDS Naturals, Sequences, ExecutionModel

CONSTANTS Executions,       \* executions that have been launched
          Handlers,         \* goroutines that serve requests
          Events,           \* the events clusters send, a subset of Event
          BufferSize,       \* asyncEventsBufferSize, capacity of the channel
          Notifying         \* phases some notification of an execution names

ASSUME EventsAssumption == Events \subseteq Event
ASSUME BufferAssumption == BufferSize \in Nat \ {0}
ASSUME NotifyingAssumption == Notifying \subseteq Phases

VARIABLES db,               \* the executions table
          handler,          \* the request each goroutine is serving
          events,           \* the channel of the event writer
          reported,         \* phases in the execution_events table, in the
                            \* notifications queue or on the event bus
          aborted,          \* clusters told to delete the workflow
          terminations,     \* decrements of ActiveExecutions, counted to two
          tainted           \* executions a stale copy was written to

vars == <<db, handler, events, reported, aborted, terminations, tainted>>

\* tainted and the field "stale" of a request are history: no guard of an
\* action reads them.

MaxTerminations == 2

Idle == [pc |-> "idle"]

\* "read" is the row as the handler read it; "stale" holds once another
\* handler has written the row since.
Request == [kind: {"event", "terminate", "getData"},
            pc: {"abort", "update", "write", "notify", "publish"},
            exec: Executions, event: Event, read: Execution, stale: BOOLEAN]

NoEvent == [phase |-> "UNDEFINED", producer |-> NoProducer, result |-> "none"]

Serving(h, kinds, pc) == handler[h].pc = pc /\ handler[h].kind \in kinds

-----------------------------------------------------------------------------

Init ==
    /\ db \in [Executions -> {CreateExecutionModel(c, offloaded) :
                                  c \in Clusters, offloaded \in BOOLEAN}]
    /\ handler = [h \in Handlers |-> Idle]
    /\ events = <<>>
    /\ reported = {}
    /\ aborted = [e \in Executions |-> {}]
    /\ terminations = [e \in Executions |-> 0]
    /\ tainted = {}

Start(h, kind, pc, e, event) ==
    handler' = [handler EXCEPT ![h] =
                  [kind |-> kind, pc |-> pc, exec |-> e, event |-> event,
                   read |-> db[e], stale |-> FALSE]]

Return(h) == handler' = [handler EXCEPT ![h] = Idle]

\* Variant that forgets that a terminal phase is final.
PhaseRefusedNotTerminal(phase, event) ==
    \/ phase = event.phase /\ event.phase # "QUEUED"
    \/ phase = "RUNNING" /\ event.phase = "QUEUED"

\* Variant that lets a running execution be queued again.
PhaseRefusedNotQueued(phase, event) ==
    \/ phase = event.phase /\ event.phase # "QUEUED"
    \/ IsExecutionTerminal(phase)

\* The three tests of CreateWorkflowEvent on the phase on record.
PhaseRefused(phase, event) ==
    \/ phase = event.phase /\ event.phase # "QUEUED"
    \/ IsExecutionTerminal(phase)
    \/ phase = "RUNNING" /\ event.phase = "QUEUED"

\* CreateWorkflowEvent up to the database write: it reads the row, refuses
\* the event or computes the new row.
CreateWorkflowEvent(h, e, event) ==
    /\ handler[h] = Idle
    /\ ~PhaseRefused(db[e].phase, event)
    /\ ~IncompatibleCluster(db[e], event)
    /\ Start(h, "event", "update", e, event)
    /\ UNCHANGED <<db, events, reported, aborted, terminations, tainted>>

\* Variant that saves the abort without having told the cluster.
TerminateExecutionSavesFirst(h, e) ==
    /\ handler[h] = Idle
    /\ Start(h, "terminate", "update", e, NoEvent)
    /\ UNCHANGED <<db, events, reported, aborted, terminations, tainted>>

\* TerminateExecution reads the row whatever its phase.
TerminateExecution(h, e) ==
    /\ handler[h] = Idle
    /\ Start(h, "terminate", "abort", e, NoEvent)
    /\ UNCHANGED <<db, events, reported, aborted, terminations, tainted>>

\* Executor.Abort deletes the FlyteWorkflow in the cluster of the copy.
Abort(h) ==
    /\ Serving(h, {"terminate"}, "abort")
    /\ aborted' = [aborted EXCEPT ![handler[h].exec] =
                                      @ \cup {handler[h].read.cluster}]
    /\ handler' = [handler EXCEPT ![h].pc = "update"]
    /\ UNCHANGED <<db, events, reported, terminations, tainted>>

\* GetExecutionData of a row without InputsURI offloads the inputs it finds
\* in the closure and goes on to save their location.
GetExecutionData(h, e) ==
    /\ handler[h] = Idle
    /\ ~db[e].inputsURI
    /\ Start(h, "getData", "update", e, NoEvent)
    /\ UNCHANGED <<db, events, reported, aborted, terminations, tainted>>

\* The row a handler writes, computed from the row it read.
Computed(r) ==
    IF r.kind = "event" THEN UpdateExecutionModelState(r.read, r.event)
    ELSE IF r.kind = "terminate" THEN SetExecutionAborted(r.read)
    ELSE [r.read EXCEPT !.inputsURI = TRUE]

\* The handlers other than h that are still to write their copy of the same
\* row: the write of h makes that copy stale.
MarkStale(h) ==
    [g \in Handlers |->
       IF /\ g # h
          /\ handler[g].pc \in {"abort", "update"}
          /\ handler[g].exec = handler[h].exec
       THEN [handler[g] EXCEPT !.stale = TRUE]
       ELSE handler[g]]

\* ExecutionRepo.Update.  An event handler goes on, the others return.
Update(h) ==
    LET r == handler[h]
        e == r.exec
    IN  /\ Serving(h, {"event", "terminate", "getData"}, "update")
        /\ db' = [db EXCEPT ![e] = Updates(@, Computed(r))]
        /\ handler' = [MarkStale(h) EXCEPT ![h] =
                         IF r.kind = "event" THEN [r EXCEPT !.pc = "write"]
                                             ELSE Idle]
        /\ tainted' = IF r.stale THEN tainted \cup {e} ELSE tainted
        /\ UNCHANGED <<events, reported, aborted, terminations>>

\* A send on the channel goes through.
HasRoom == Len(events) < BufferSize

\* dbEventWriter.Write blocks while the channel is full.  What follows it, up
\* to the publishers, only touches the metrics.
Write(h) ==
    LET r    == handler[h]
        last == IsExecutionTerminal(r.event.phase)
    IN  /\ Serving(h, {"event"}, "write")
        /\ HasRoom
        /\ events' = Append(events, <<r.exec, r.event.phase>>)
        /\ terminations' =
             IF last /\ terminations[r.exec] < MaxTerminations
             THEN [terminations EXCEPT ![r.exec] = @ + 1] ELSE terminations
        /\ handler' = [handler EXCEPT ![h].pc =
                          IF last THEN "notify" ELSE "publish"]
        /\ UNCHANGED <<db, reported, aborted, tainted>>

\* publishNotifications of a terminal event.  A publisher that fails is only
\* counted; a notification of an unsupported type ends the request with an
\* error.
PublishNotifications(h) ==
    LET r == handler[h]
    IN  /\ Serving(h, {"event"}, "notify")
        /\ \/ /\ r.event.phase \in Notifying
              /\ reported' = reported \cup {<<r.exec, r.event.phase>>}
              /\ handler' = [handler EXCEPT ![h].pc = "publish"]
           \/ /\ reported' = reported
              /\ handler' = [handler EXCEPT ![h].pc = "publish"]
           \/ /\ r.event.phase \in Notifying
              /\ reported' = reported
              /\ Return(h)
        /\ UNCHANGED <<db, events, aborted, terminations, tainted>>

\* eventPublisher.Publish, whose errors are only counted, ends the request.
Publish(h) ==
    LET r == handler[h]
    IN  /\ Serving(h, {"event"}, "publish")
        /\ \/ reported' = reported \cup {<<r.exec, r.event.phase>>}
           \/ UNCHANGED reported
        /\ Return(h)
        /\ UNCHANGED <<db, events, aborted, terminations, tainted>>

\* Before the write a statement or the call to kubernetes may fail, and the
\* handler returns the error; at any point its process may die.
Fail(h) ==
    /\ handler[h] # Idle
    /\ Return(h)
    /\ UNCHANGED <<db, events, reported, aborted, terminations, tainted>>

\* One round of the event writer's loop.  An insert that fails, as that of a
\* second event of the same phase does, is only logged; and what the channel
\* holds is lost when the process dies.
RunEventWriter ==
    /\ events # <<>>
    /\ events' = Tail(events)
    /\ \/ reported' = reported \cup {Head(events)}
       \/ UNCHANGED reported
    /\ UNCHANGED <<db, handler, aborted, terminations, tainted>>

Continue(h) ==
    \/ Abort(h)
    \/ Update(h)
    \/ Write(h)
    \/ PublishNotifications(h)
    \/ Publish(h)

Next ==
    \/ \E h \in Handlers, e \in Executions :
          \/ \E event \in Events : CreateWorkflowEvent(h, e, event)
          \/ TerminateExecution(h, e)
          \/ GetExecutionData(h, e)
    \/ \E h \in Handlers : Continue(h) \/ Fail(h)
    \/ RunEventWriter

Spec == Init /\ [][Next]_vars

-----------------------------------------------------------------------------

\* Every variable has the type of the data it models (models.Execution, the
\* channel of the event writer and its capacity, the execution_events table).
TypeOK ==
    /\ db \in [Executions -> Execution]
    /\ handler \in [Handlers -> Request \cup {Idle}]
    /\ events \in Seq(Executions \X Phases)
    /\ Len(events) <= BufferSize
    /\ reported \subseteq Executions \X Phases
    /\ aborted \in [Executions -> SUBSET Clusters]
    /\ terminations \in [Executions -> 0..MaxTerminations]
    /\ tainted \subseteq Executions

Lifecycle == INSTANCE ExecutionLifecycle
                 WITH phase <- [e \in Executions |-> db[e].phase],
                      lost  <- tainted

\* Whatever the interleaving of the handlers, the phase of an execution obeys
\* the lifecycle (terminal phases are final, RUNNING is not followed by
\* QUEUED) until a handler writes a copy another handler has made stale:
\* the guards of CreateWorkflowEvent are defeated by stale copies only.
ImplementsLifecycle == Lifecycle!Spec

\* The start time of an execution that has had no stale write is in its
\* column exactly when it is in its closure: UpdateExecutionModelState sets
\* both, and no handler's write-back separates them.
StartTimesAgree ==
    \A e \in Executions \ tainted :
        db[e].startedAt = db[e].closure.startedAt

ColumnsKept(row, next) ==
    /\ row.startedAt  => next.startedAt
    /\ row.inputsURI  => next.inputsURI
    /\ row.abortCause => next.abortCause
    /\ row.errorKind  => next.errorKind

\* No interleaving of handlers, stale copies included, clears a column once
\* it is set: Updates leaves out the zero fields of the struct it is given.
ColumnsNeverCleared ==
    [][\A e \in Executions : ColumnsKept(db[e], db'[e])]_vars

\* What CreateWorkflowEvent leaves behind for others after its write (the
\* event in the channel or in execution_events, notifications, published
\* events) names a terminal phase only if the row is in that very phase, as
\* long as no stale copy was written.
SideEffectsAgree ==
    \A i \in reported \cup {events[n] : n \in DOMAIN events} :
        i[1] \notin tainted /\ IsExecutionTerminal(i[2])
            => db[i[1]].phase = i[2]

\* ActiveExecutions is decremented at most once for an execution that has had
\* no stale write, and only when its row is terminal.
TerminatedOnce ==
    \A e \in Executions \ tainted :
        /\ terminations[e] <= 1
        /\ terminations[e] = 1 => IsExecutionTerminal(db[e].phase)

\* When TerminateExecution saves its abort metadata and nothing has come
\* between, the cluster on record has been told to delete the workflow.
AbortReachedCluster ==
    [][\A e \in Executions \ tainted' :
         db[e].closure.result # "abortMetadata"
           /\ db'[e].closure.result = "abortMetadata"
             => db'[e].cluster \in aborted'[e]]_vars

\* "Cannot go backwards in time from a terminal state to anything else"
\* (CreateWorkflowEvent), whatever handlers run at the same time.
TerminalIsFinal ==
    [][\A e \in Executions :
         IsExecutionTerminal(db[e].phase) => db'[e].phase = db[e].phase]_vars

=============================================================================
