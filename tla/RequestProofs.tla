--------------------------- MODULE RequestProofs ---------------------------
(***************************************************************************)
(* Requests: what those that are served do to executions, and the sessions *)
(* in which a browser makes them.                                          *)
(*                                                                         *)
(* First the proofs about WorkflowExecution, for any number of executions, *)
(* handlers and clusters, any set of events and any capacity of the        *)
(* channel; then those about Session.  The two components have their own   *)
(* constants, variables and specifications, Spec of WorkflowExecution and  *)
(* SessionSpec of Session.                                                 *)
(***************************************************************************)
EXTENDS WorkflowExecution, Session, TLAPS

-----------------------------------------------------------------------------
(* The inductive invariant.                                                *)

\* A copy that no other handler has made stale is the row itself.
FreshCopies ==
    \A h \in Handlers :
        handler[h].pc \in {"abort", "update"} /\ ~handler[h].stale
            => db[handler[h].exec] = handler[h].read

\* An event about to be written has passed the tests on the copy.
CheckedEvents ==
    \A h \in Handlers :
        handler[h].pc = "update" /\ handler[h].kind = "event"
            => ~PhaseRefused(handler[h].read.phase, handler[h].event)

\* Only event handlers go on after the write.
OnlyEventsGoOn ==
    \A h \in Handlers :
        handler[h].pc \in {"write", "notify", "publish"}
            => handler[h].kind = "event"

\* Handler h has written a terminal phase of e and has not finished.
Finishing(h, e) ==
    /\ handler[h].pc \in {"write", "notify", "publish"}
    /\ handler[h].exec = e
    /\ IsExecutionTerminal(handler[h].event.phase)

\* The phase a finishing handler is about to report is the phase on record.
FinishingAgree ==
    \A h \in Handlers, e \in Executions \ tainted :
        Finishing(h, e) => db[e].phase = handler[h].event.phase

\* The decrement of ActiveExecutions that is still to come is the first.
DecrementsAgree ==
    \A e \in Executions \ tainted :
        \A h \in Handlers :
            Finishing(h, e) /\ handler[h].pc = "write"
                => /\ terminations[e] = 0
                   /\ \A g \in Handlers :
                        Finishing(g, e) /\ handler[g].pc = "write" => g = h

IInv ==
    /\ TypeOK
    /\ FreshCopies
    /\ CheckedEvents
    /\ OnlyEventsGoOn
    /\ StartTimesAgree
    /\ FinishingAgree
    /\ SideEffectsAgree
    /\ DecrementsAgree
    /\ TerminatedOnce

-----------------------------------------------------------------------------
(* The rows the transformers compute.                                      *)

\* UpdateExecutionModelState returns a row.
LEMMA UpdateStateType ==
    ASSUME NEW x \in Execution, NEW event \in Event
    PROVE  UpdateExecutionModelState(x, event) \in Execution
<1> DEFINE started == event.phase = "RUNNING"
           cluster == IF /\ event.producer # NoProducer
                         /\ event.phase \in clusterReassignablePhases
                      THEN event.producer ELSE x.cluster
           closure == [startedAt |-> x.closure.startedAt \/ started,
                       result    |-> IF event.result = "none"
                                     THEN x.closure.result ELSE event.result]
<1>1. event.phase \in Phases /\ cluster \in Clusters /\ closure \in Closure
  BY DEF Event, Execution, Closure, Results
<1>2. UpdateExecutionModelState(x, event)
        = [x EXCEPT !.phase     = event.phase,
                    !.startedAt = @ \/ started,
                    !.cluster   = cluster,
                    !.errorKind = @ \/ event.result = "error",
                    !.closure   = closure]
  BY DEF UpdateExecutionModelState
<1> HIDE DEF started, cluster, closure
<1>3. QED
  BY <1>1, <1>2, Zenon DEF Execution

\* SetExecutionAborted returns a row.
LEMMA SetAbortedType ==
    ASSUME NEW x \in Execution
    PROVE  SetExecutionAborted(x) \in Execution
BY Zenon DEF SetExecutionAborted, Execution, Closure, Results

\* Every handler computes a row from the row it read.
LEMMA ComputedType ==
    ASSUME NEW r \in Request
    PROVE  Computed(r) \in Execution
<1>1. r.read \in Execution /\ r.event \in Event
  BY DEF Request
<1>2. CASE r.kind = "event"
  BY <1>1, <1>2, UpdateStateType DEF Computed
<1>3. CASE r.kind = "terminate"
  BY <1>1, <1>3, SetAbortedType DEF Computed
<1>4. CASE r.kind = "getData"
  BY <1>1, <1>4, Zenon DEF Computed, Execution
<1>5. QED
  BY <1>2, <1>3, <1>4 DEF Request

\* Merging a row into a row gives a row.
LEMMA UpdatesType ==
    ASSUME NEW row \in Execution, NEW x \in Execution
    PROVE  Updates(row, x) \in Execution
BY DEF Updates, Execution

\* Merging a row that has every column the old one has replaces the old one.
LEMMA UpdatesReplaces ==
    ASSUME NEW row \in Execution, NEW x \in Execution,
           row.startedAt => x.startedAt,
           row.inputsURI => x.inputsURI,
           row.abortCause => x.abortCause,
           row.errorKind => x.errorKind
    PROVE  Updates(row, x) = x
BY DEF Updates, Execution

\* The transformers set columns and never clear one.
LEMMA ComputedKeeps ==
    ASSUME NEW r \in Request
    PROVE  /\ r.read.startedAt => Computed(r).startedAt
           /\ r.read.inputsURI => Computed(r).inputsURI
           /\ r.read.abortCause => Computed(r).abortCause
           /\ r.read.errorKind => Computed(r).errorKind
<1>1. r.read \in Execution /\ r.event \in Event
  BY DEF Request
<1>2. CASE r.kind = "event"
  BY <1>1, <1>2 DEF Computed, UpdateExecutionModelState, Execution
<1>3. CASE r.kind = "terminate"
  BY <1>1, <1>3 DEF Computed, SetExecutionAborted, Execution
<1>4. CASE r.kind = "getData"
  BY <1>1, <1>4 DEF Computed, Execution
<1>5. QED
  BY <1>2, <1>3, <1>4 DEF Request

\* So a fresh copy written back leaves the computed row.
LEMMA FreshUpdate ==
    ASSUME NEW r \in Request
    PROVE  Updates(r.read, Computed(r)) = Computed(r)
<1>1. r.read \in Execution
  BY DEF Request
<1>2. QED
  BY <1>1, ComputedType, ComputedKeeps, UpdatesReplaces

\* What the computed row of a request is in terms of the row it read.
LEMMA ComputedPhase ==
    ASSUME NEW r \in Request
    PROVE  /\ r.kind = "event" => Computed(r).phase = r.event.phase
           /\ r.kind # "event" => Computed(r).phase = r.read.phase
           /\ r.read.startedAt = r.read.closure.startedAt
                => Computed(r).startedAt = Computed(r).closure.startedAt
<1>1. r.read \in Execution /\ r.event \in Event
  BY DEF Request
<1>2. CASE r.kind = "event"
  BY <1>1, <1>2 DEF Computed, UpdateExecutionModelState, Execution, Closure
<1>3. CASE r.kind = "terminate"
  BY <1>1, <1>3 DEF Computed, SetExecutionAborted, Execution, Closure
<1>4. CASE r.kind = "getData"
  BY <1>1, <1>4 DEF Computed, Execution, Closure
<1>5. QED
  BY <1>2, <1>3, <1>4 DEF Request

-----------------------------------------------------------------------------
(* The invariant is inductive.                                             *)

\* It holds when every row is as its launch left it and nothing is in flight.
LEMMA InitInv == Init => IInv
<1> SUFFICES ASSUME Init PROVE IInv
  OBVIOUS
<1>0. ASSUME NEW c \in Clusters, NEW offloaded \in BOOLEAN
      PROVE  /\ CreateExecutionModel(c, offloaded) \in Execution
             /\ CreateExecutionModel(c, offloaded).startedAt
                  = CreateExecutionModel(c, offloaded).closure.startedAt
  BY Zenon DEF CreateExecutionModel, Execution, Closure, Phases, Results
<1>1. /\ db \in [Executions -> Execution]
      /\ \A e \in Executions : db[e].startedAt = db[e].closure.startedAt
  BY <1>0 DEF Init
<1>2. TypeOK
  BY <1>1, BufferAssumption DEF Init, TypeOK, MaxTerminations
<1>3. \A h \in Handlers : handler[h].pc = "idle"
  BY DEF Init, Idle
<1>4. StartTimesAgree
  BY <1>1 DEF StartTimesAgree
<1>5. SideEffectsAgree /\ TerminatedOnce
  BY DEF Init, SideEffectsAgree, TerminatedOnce
<1>6. QED
  BY <1>2, <1>3, <1>4, <1>5
     DEF IInv, FreshCopies, CheckedEvents, OnlyEventsGoOn, FinishingAgree,
         DecrementsAgree, Finishing

\* A request that is read and checked adds a fresh copy and nothing else.
LEMMA StartInv ==
    ASSUME IInv, NEW h \in Handlers, NEW e \in Executions,
           NEW kind, NEW pc, NEW event \in Event,
           \/ kind = "event" /\ pc = "update"
              /\ ~PhaseRefused(db[e].phase, event)
           \/ kind = "terminate" /\ pc = "abort"
           \/ kind = "getData" /\ pc = "update",
           Start(h, kind, pc, e, event),
           UNCHANGED <<db, events, reported, aborted, terminations, tainted>>
    PROVE  IInv'
<1> DEFINE new == [kind |-> kind, pc |-> pc, exec |-> e, event |-> event,
                   read |-> db[e], stale |-> FALSE]
<1> USE DEF IInv
<1>1. new \in Request /\ handler' = [handler EXCEPT ![h] = new]
  BY DEF TypeOK, Request, Start
<1> HIDE DEF new
<1>2. TypeOK'
  BY <1>1 DEF TypeOK
<1>3. /\ new.exec = e /\ new.read = db[e] /\ new.event = event
      /\ new.pc = pc /\ new.kind = kind
  BY DEF new
<1>4. \A g \in Handlers : handler'[g] = IF g = h THEN new ELSE handler[g]
  BY <1>1 DEF TypeOK
<1>5. FreshCopies'
  BY <1>3, <1>4 DEF FreshCopies
<1>6. CheckedEvents'
  BY <1>3, <1>4 DEF CheckedEvents
<1>7. OnlyEventsGoOn'
  BY <1>3, <1>4 DEF OnlyEventsGoOn
<1>8. FinishingAgree' /\ DecrementsAgree'
  BY <1>3, <1>4 DEF FinishingAgree, DecrementsAgree, Finishing
<1>9. StartTimesAgree' /\ SideEffectsAgree' /\ TerminatedOnce'
  BY DEF StartTimesAgree, SideEffectsAgree, TerminatedOnce
<1>10. QED
  BY <1>2, <1>5, <1>6, <1>7, <1>8, <1>9

\* A handler that returns takes its copy and its obligations with it; what it
\* reports last is the phase of the event it has written.
LEMMA ReturnInv ==
    ASSUME IInv, NEW h \in Handlers, Return(h),
           \/ reported' = reported
           \/ /\ handler[h] \in Request
              /\ handler[h].pc \in {"write", "notify", "publish"}
              /\ reported' = reported \cup
                               {<<handler[h].exec, handler[h].event.phase>>},
           UNCHANGED <<db, events, aborted, terminations, tainted>>
    PROVE  IInv'
<1> USE DEF IInv
<1>1. \A g \in Handlers : handler'[g] = IF g = h THEN Idle ELSE handler[g]
  BY DEF Return, TypeOK
<1>2. Idle.pc = "idle"
  BY DEF Idle
<1>3. handler[h] \in Request =>
         handler[h].exec \in Executions /\ handler[h].event.phase \in Phases
  BY DEF Request, Event
<1>4. TypeOK'
  BY <1>3 DEF TypeOK, Return
<1>5. FreshCopies' /\ CheckedEvents' /\ OnlyEventsGoOn'
  BY <1>1, <1>2 DEF FreshCopies, CheckedEvents, OnlyEventsGoOn
<1>6. FinishingAgree' /\ DecrementsAgree'
  BY <1>1, <1>2 DEF FinishingAgree, DecrementsAgree, Finishing
<1>7. SideEffectsAgree'
  BY <1>3 DEF SideEffectsAgree, FinishingAgree, Finishing
<1>8. StartTimesAgree' /\ TerminatedOnce'
  BY DEF StartTimesAgree, TerminatedOnce
<1>9. QED
  BY <1>4, <1>5, <1>6, <1>7, <1>8

\* A handler in the middle of a request is one of the requests.
LEMMA InFlight ==
    ASSUME TypeOK, NEW h \in Handlers, handler[h].pc # "idle"
    PROVE  /\ handler[h] \in Request
           /\ handler[h].exec \in Executions
           /\ handler[h].event \in Event
           /\ handler[h].event.phase \in Phases
           /\ handler[h].read \in Execution
BY DEF TypeOK, Request, Event, Idle

\* Executor.Abort touches no row and keeps the copy.
LEMMA AbortInv ==
    ASSUME IInv, NEW h \in Handlers, Abort(h)
    PROVE  IInv'
<1> DEFINE new == [handler[h] EXCEPT !.pc = "update"]
<1> USE DEF IInv
<1>1. handler[h].pc = "abort" /\ handler[h].kind = "terminate"
  BY DEF Abort, Serving
<1>2. handler[h] \in Request /\ handler[h].read.cluster \in Clusters
  BY <1>1, InFlight DEF Execution
<1>3. /\ new \in Request /\ new.pc = "update" /\ new.kind = "terminate"
      /\ new.exec = handler[h].exec /\ new.read = handler[h].read
      /\ new.stale = handler[h].stale
  BY <1>1, <1>2 DEF Request
<1>4. \A g \in Handlers : handler'[g] = IF g = h THEN new ELSE handler[g]
  BY DEF Abort, TypeOK
<1> HIDE DEF new
<1>5. TypeOK'
  BY <1>2, <1>3, Zenon DEF TypeOK, Abort, new
<1>6. FreshCopies' /\ CheckedEvents' /\ OnlyEventsGoOn'
  BY <1>1, <1>3, <1>4
     DEF Abort, FreshCopies, CheckedEvents, OnlyEventsGoOn
<1>7. FinishingAgree' /\ DecrementsAgree'
  BY <1>3, <1>4 DEF Abort, FinishingAgree, DecrementsAgree, Finishing
<1>8. StartTimesAgree' /\ SideEffectsAgree' /\ TerminatedOnce'
  BY DEF Abort, StartTimesAgree, SideEffectsAgree, TerminatedOnce
<1>9. QED
  BY <1>5, <1>6, <1>7, <1>8

\* The channel gets the phase that the handler has written, and the decrement
\* is the first for the execution.
LEMMA WriteInv ==
    ASSUME IInv, NEW h \in Handlers, Write(h)
    PROVE  IInv'
<1> DEFINE e    == handler[h].exec
           p    == handler[h].event.phase
           next == IF IsExecutionTerminal(p) THEN "notify" ELSE "publish"
           new  == [handler[h] EXCEPT !.pc = next]
<1> USE DEF IInv
<1>1. handler[h].pc = "write" /\ handler[h].kind = "event"
  BY DEF Write, Serving
<1>2. handler[h] \in Request /\ e \in Executions /\ p \in Phases
  BY <1>1, InFlight
<1>3. /\ new \in Request /\ new.pc = next /\ new.kind = "event"
      /\ new.exec = e /\ new.event = handler[h].event
  BY <1>1, <1>2 DEF Request
<1>4. \A g \in Handlers : handler'[g] = IF g = h THEN new ELSE handler[g]
  BY DEF Write, HasRoom, TypeOK
<1>5. /\ events' = Append(events, <<e, p>>)
      /\ Len(events) < BufferSize
      /\ terminations' =
           IF IsExecutionTerminal(p) /\ terminations[e] < MaxTerminations
           THEN [terminations EXCEPT ![e] = @ + 1] ELSE terminations
      /\ handler' = [handler EXCEPT ![h] = new]
      /\ UNCHANGED <<db, reported, aborted, tainted>>
  BY DEF Write, HasRoom
<1>6. next \in {"notify", "publish"}
  OBVIOUS
<1> HIDE DEF new, next, e, p
<1>7. TypeOK'
  <2>1. events' \in Seq(Executions \X Phases) /\ Len(events') <= BufferSize
    BY <1>2, <1>5, BufferAssumption DEF TypeOK
  <2>2. terminations' \in [Executions -> 0..MaxTerminations]
    BY <1>2, <1>5 DEF TypeOK, MaxTerminations
  <2>3. QED
    BY <1>3, <1>5, <2>1, <2>2 DEF TypeOK
<1>8. FreshCopies' /\ CheckedEvents' /\ OnlyEventsGoOn'
  BY <1>3, <1>4, <1>5, <1>6 DEF FreshCopies, CheckedEvents, OnlyEventsGoOn
<1>9. FinishingAgree'
  BY <1>1, <1>3, <1>4, <1>5 DEF FinishingAgree, Finishing, e
<1>10. DecrementsAgree'
  BY <1>1, <1>2, <1>3, <1>4, <1>5, <1>6
     DEF DecrementsAgree, Finishing, TypeOK, e, p
<1>11. e \notin tainted /\ IsExecutionTerminal(p)
         => db[e].phase = p /\ terminations[e] = 0
  BY <1>1, <1>2 DEF FinishingAgree, DecrementsAgree, Finishing, e, p
<1>12. SideEffectsAgree'
  <2>1. \A n \in DOMAIN events' :
            events'[n] = <<e, p>> \/ \E m \in DOMAIN events : events'[n] = events[m]
    BY <1>2, <1>5 DEF TypeOK
  <2>2. QED
    BY <1>5, <1>11, <2>1 DEF SideEffectsAgree
<1>13. TerminatedOnce'
  BY <1>2, <1>5, <1>11 DEF TerminatedOnce, TypeOK, MaxTerminations,
                           IsExecutionTerminal
<1>14. StartTimesAgree'
  BY <1>5 DEF StartTimesAgree
<1>15. QED
  BY <1>7, <1>8, <1>9, <1>10, <1>12, <1>13, <1>14

\* Notifications report the phase that the handler has written.
LEMMA NotifyInv ==
    ASSUME IInv, NEW h \in Handlers, PublishNotifications(h)
    PROVE  IInv'
<1> DEFINE e   == handler[h].exec
           p   == handler[h].event.phase
           new == [handler[h] EXCEPT !.pc = "publish"]
<1> USE DEF IInv
<1>1. handler[h].pc = "notify" /\ handler[h].kind = "event"
  BY DEF PublishNotifications, Serving
<1>2. handler[h] \in Request /\ e \in Executions /\ p \in Phases
  BY <1>1, InFlight
<1>3. CASE Return(h) /\ reported' = reported
  BY <1>3, ReturnInv DEF PublishNotifications
<1>4. CASE /\ handler' = [handler EXCEPT ![h] = new]
           /\ reported' \in {reported, reported \cup {<<e, p>>}}
  <2>1. /\ new \in Request /\ new.pc = "publish" /\ new.kind = "event"
        /\ new.exec = e /\ new.event = handler[h].event
    BY <1>1, <1>2 DEF Request
  <2>2. \A g \in Handlers : handler'[g] = IF g = h THEN new ELSE handler[g]
    BY <1>4 DEF TypeOK
  <2>3. UNCHANGED <<db, events, aborted, terminations, tainted>>
    BY DEF PublishNotifications
  <2> HIDE DEF new, e, p
  <2>4. TypeOK'
    BY <1>2, <1>4, <2>1, <2>3 DEF TypeOK
  <2>5. FreshCopies' /\ CheckedEvents' /\ OnlyEventsGoOn'
    BY <2>1, <2>2, <2>3 DEF FreshCopies, CheckedEvents, OnlyEventsGoOn
  <2>6. FinishingAgree' /\ DecrementsAgree'
    BY <1>1, <2>1, <2>2, <2>3
       DEF FinishingAgree, DecrementsAgree, Finishing, e
  <2>7. SideEffectsAgree'
    BY <1>1, <1>2, <1>4, <2>3
       DEF SideEffectsAgree, FinishingAgree, Finishing, e, p
  <2>8. StartTimesAgree' /\ TerminatedOnce'
    BY <2>3 DEF StartTimesAgree, TerminatedOnce
  <2>9. QED
    BY <2>4, <2>5, <2>6, <2>7, <2>8
<1>5. QED
  BY <1>3, <1>4 DEF PublishNotifications

\* The event writer moves the first event of the channel or drops it.
LEMMA RunEventWriterInv ==
    ASSUME IInv, RunEventWriter
    PROVE  IInv'
<1> USE DEF IInv
<1>1. /\ events \in Seq(Executions \X Phases) /\ events # <<>>
      /\ events' = Tail(events)
      /\ reported' \in {reported, reported \cup {Head(events)}}
      /\ UNCHANGED <<db, handler, aborted, terminations, tainted>>
  BY DEF RunEventWriter, TypeOK
<1>2. /\ Head(events) = events[1] /\ 1 \in DOMAIN events
      /\ Head(events) \in Executions \X Phases
      /\ events' \in Seq(Executions \X Phases)
      /\ Len(events') <= Len(events)
      /\ \A n \in DOMAIN events' :
             \E m \in DOMAIN events : events'[n] = events[m]
  BY <1>1
<1>3. TypeOK'
  BY <1>1, <1>2, BufferAssumption DEF TypeOK
<1>4. SideEffectsAgree'
  BY <1>1, <1>2 DEF SideEffectsAgree
<1>5. FreshCopies' /\ CheckedEvents' /\ OnlyEventsGoOn'
  BY <1>1 DEF FreshCopies, CheckedEvents, OnlyEventsGoOn
<1>6. FinishingAgree' /\ DecrementsAgree' /\ StartTimesAgree'
        /\ TerminatedOnce'
  BY <1>1 DEF FinishingAgree, DecrementsAgree, Finishing, StartTimesAgree,
              TerminatedOnce
<1>7. QED
  BY <1>3, <1>4, <1>5, <1>6

\* What ExecutionRepo.Update does to the row and to the history.
LEMMA UpdateRow ==
    ASSUME IInv, NEW h \in Handlers, Update(h)
    PROVE  /\ handler[h] \in Request
           /\ handler[h].pc = "update"
           /\ handler[h].exec \in Executions
           /\ db' \in [Executions -> Execution]
           /\ \A e \in Executions : e # handler[h].exec => db'[e] = db[e]
           /\ db'[handler[h].exec]
                = Updates(db[handler[h].exec], Computed(handler[h]))
           /\ tainted' = IF handler[h].stale
                         THEN tainted \cup {handler[h].exec} ELSE tainted
           /\ UNCHANGED <<events, reported, aborted, terminations>>
<1> DEFINE r == handler[h]
           x == Updates(db[r.exec], Computed(r))
<1>1. TypeOK /\ r.pc = "update"
  BY DEF IInv, Update, Serving
<1>2. r \in Request /\ r.exec \in Executions
  BY <1>1, InFlight
<1>3. db' = [db EXCEPT ![r.exec] = x]
  BY DEF Update
<1>4. db \in [Executions -> Execution]
  BY <1>1 DEF TypeOK
<1>5. x \in Execution
  BY <1>2, <1>4, ComputedType, UpdatesType
<1>6. /\ tainted' = IF r.stale THEN tainted \cup {r.exec} ELSE tainted
      /\ UNCHANGED <<events, reported, aborted, terminations>>
  BY DEF Update
<1> HIDE DEF x
<1>7. /\ db' \in [Executions -> Execution] /\ db'[r.exec] = x
      /\ \A e \in Executions : e # r.exec => db'[e] = db[e]
  BY <1>2, <1>3, <1>4, <1>5
<1>8. QED
  BY <1>1, <1>2, <1>6, <1>7 DEF x

\* The handlers other than h keep their requests, but for the mark of those
\* that are still to write a copy of the same row.
OthersMarked(h) ==
    \A g \in Handlers \ {h} :
        /\ handler'[g].pc = handler[g].pc
        /\ handler[g].pc # "idle" =>
             /\ handler'[g].kind = handler[g].kind
             /\ handler'[g].exec = handler[g].exec
             /\ handler'[g].event = handler[g].event
             /\ handler'[g].read = handler[g].read
        /\ handler[g].pc \in {"abort", "update"} =>
             handler'[g].stale = (\/ handler[g].stale
                                  \/ handler[g].exec = handler[h].exec)

\* What ExecutionRepo.Update does to the handlers.
LEMMA UpdateRequests ==
    ASSUME IInv, NEW h \in Handlers, Update(h)
    PROVE  /\ handler' \in [Handlers -> Request \cup {Idle}]
           /\ handler[h].kind # "event" => handler'[h] = Idle
           /\ handler[h].kind = "event" =>
                handler'[h] = [handler[h] EXCEPT !.pc = "write"]
           /\ OthersMarked(h)
<1> DEFINE r == handler[h]
           marked(g) == IF /\ g # h
                           /\ handler[g].pc \in {"abort", "update"}
                           /\ handler[g].exec = r.exec
                        THEN [handler[g] EXCEPT !.stale = TRUE]
                        ELSE handler[g]
<1>1. TypeOK /\ r.pc = "update"
  BY DEF IInv, Update, Serving
<1>2. r \in Request
  BY <1>1, InFlight
<1>3. handler' = [g \in Handlers |->
                    IF g = h THEN IF r.kind = "event"
                                  THEN [r EXCEPT !.pc = "write"] ELSE Idle
                    ELSE marked(g)]
  BY Zenon DEF Update, MarkStale
<1>4. [r EXCEPT !.pc = "write"] \in Request
  BY <1>2 DEF Request
<1>5. ASSUME NEW g \in Handlers, g # h
      PROVE  /\ marked(g) \in Request \cup {Idle}
             /\ marked(g).pc = handler[g].pc
             /\ handler[g].pc # "idle" =>
                  /\ marked(g).kind = handler[g].kind
                  /\ marked(g).exec = handler[g].exec
                  /\ marked(g).event = handler[g].event
                  /\ marked(g).read = handler[g].read
             /\ handler[g].pc \in {"abort", "update"} =>
                  marked(g).stale = (handler[g].stale \/ handler[g].exec = r.exec)
  <2>1. CASE handler[g].pc = "idle"
    BY <1>1, <2>1 DEF TypeOK
  <2>2. CASE handler[g].pc # "idle"
    <3>1. handler[g] \in Request
      BY <1>1, <2>2, InFlight
    <3>2. QED
      BY <2>2, <3>1, <1>5, Zenon DEF Request
  <2>3. QED
    BY <2>1, <2>2, Zenon
<1> HIDE DEF marked
<1>6. handler' \in [Handlers -> Request \cup {Idle}]
  BY <1>3, <1>4, <1>5
<1>7. /\ r.kind # "event" => handler'[h] = Idle
      /\ r.kind = "event" => handler'[h] = [r EXCEPT !.pc = "write"]
      /\ \A g \in Handlers \ {h} : handler'[g] = marked(g)
  BY <1>3
<1>8. OthersMarked(h)
  <2>1. ASSUME NEW g \in Handlers \ {h}
        PROVE  /\ handler'[g].pc = handler[g].pc
               /\ handler[g].pc # "idle" =>
                    /\ handler'[g].kind = handler[g].kind
                    /\ handler'[g].exec = handler[g].exec
                    /\ handler'[g].event = handler[g].event
                    /\ handler'[g].read = handler[g].read
               /\ handler[g].pc \in {"abort", "update"} =>
                    handler'[g].stale = (\/ handler[g].stale
                                         \/ handler[g].exec = handler[h].exec)
    <3>1. handler'[g] = marked(g) /\ g \in Handlers /\ g # h
      BY <1>7
    <3>2. QED
      BY <1>5, <3>1, Zenon
  <2>2. QED
    BY <2>1, Zenon DEF OthersMarked
<1>9. QED
  BY <1>6, <1>7, <1>8

\* The row after the write of a copy that is fresh: the phase of a row whose
\* event is written was not terminal, and the phase only changes by events.
LEMMA FreshWrite ==
    ASSUME IInv, NEW h \in Handlers, Update(h), ~handler[h].stale
    PROVE  /\ db'[handler[h].exec] = Computed(handler[h])
           /\ db[handler[h].exec] = handler[h].read
           /\ handler[h].kind = "event" =>
                /\ db'[handler[h].exec].phase = handler[h].event.phase
                /\ ~PhaseRefused(db[handler[h].exec].phase, handler[h].event)
           /\ handler[h].kind # "event" =>
                db'[handler[h].exec].phase = db[handler[h].exec].phase
<1>1. /\ handler[h] \in Request /\ handler[h].pc = "update"
      /\ db'[handler[h].exec] = Updates(db[handler[h].exec],
                                        Computed(handler[h]))
  BY UpdateRow
<1>2. db[handler[h].exec] = handler[h].read
  BY <1>1 DEF IInv, FreshCopies
<1>3. db'[handler[h].exec] = Computed(handler[h])
  BY <1>1, <1>2, FreshUpdate
<1>4. handler[h].kind = "event" =>
        ~PhaseRefused(handler[h].read.phase, handler[h].event)
  BY <1>1 DEF IInv, CheckedEvents
<1>5. QED
  BY <1>1, <1>2, <1>3, <1>4, ComputedPhase

\* ExecutionRepo.Update preserves the invariant: a stale write taints its
\* execution, a fresh one moves a phase that nobody has reported as final.
LEMMA UpdateInv ==
    ASSUME IInv, NEW h \in Handlers, Update(h)
    PROVE  IInv'
<1> DEFINE r == handler[h]
           e == r.exec
<1>1. /\ TypeOK /\ FreshCopies /\ CheckedEvents /\ OnlyEventsGoOn
      /\ StartTimesAgree /\ FinishingAgree /\ SideEffectsAgree
      /\ DecrementsAgree /\ TerminatedOnce
  BY DEF IInv
<1>2. /\ r \in Request /\ r.pc = "update" /\ e \in Executions
      /\ r.stale \in BOOLEAN
  BY UpdateRow DEF Request
<1>3. /\ db' \in [Executions -> Execution]
      /\ \A x \in Executions : x # e => db'[x] = db[x]
      /\ db'[e] = Updates(db[e], Computed(r))
  BY UpdateRow
<1>4. /\ handler' \in [Handlers -> Request \cup {Idle}]
      /\ r.kind # "event" => handler'[h] = Idle
      /\ r.kind = "event" => handler'[h] = [r EXCEPT !.pc = "write"]
  BY UpdateRequests
<1>5. \A g \in Handlers \ {h} :
        /\ handler'[g].pc = handler[g].pc
        /\ handler[g].pc # "idle" =>
             /\ handler'[g].kind = handler[g].kind
             /\ handler'[g].exec = handler[g].exec
             /\ handler'[g].event = handler[g].event
             /\ handler'[g].read = handler[g].read
        /\ handler[g].pc \in {"abort", "update"} =>
             handler'[g].stale = (handler[g].stale \/ handler[g].exec = e)
  BY UpdateRequests, Zenon DEF OthersMarked
<1>6. /\ tainted' = IF r.stale THEN tainted \cup {e} ELSE tainted
      /\ UNCHANGED <<events, reported, aborted, terminations>>
  BY UpdateRow
<1>7. /\ handler'[h].pc \in {"idle", "write"}
      /\ handler'[h].pc = "write" =>
           /\ r.kind = "event" /\ handler'[h].kind = "event"
           /\ handler'[h].exec = e /\ handler'[h].event = r.event
  BY <1>2, <1>4 DEF Request, Idle
<1>8. ~r.stale => /\ db'[e] = Computed(r) /\ db[e] = r.read
                  /\ r.kind = "event" =>
                       /\ db'[e].phase = r.event.phase
                       /\ ~IsExecutionTerminal(db[e].phase)
                  /\ r.kind # "event" => db'[e].phase = db[e].phase
  BY FreshWrite DEF PhaseRefused
<1>9. /\ \A i \in reported : i[1] \in Executions
      /\ \A n \in DOMAIN events : events[n][1] \in Executions
  BY <1>1 DEF TypeOK
<1> HIDE DEF r, e
<1>10. TypeOK'
  BY <1>1, <1>2, <1>3, <1>4, <1>6 DEF TypeOK
<1>11. FreshCopies'
  <2>1. \A g \in Handlers :
          handler[g].pc \in {"abort", "update"} => handler[g].exec \in Executions
    BY <1>1, InFlight
  <2>2. ASSUME NEW g \in Handlers, g # h,
               handler'[g].pc \in {"abort", "update"}, ~handler'[g].stale
        PROVE  db'[handler'[g].exec] = handler'[g].read
    <3>1. handler[g].pc \in {"abort", "update"} /\ handler[g].pc # "idle"
      BY <1>5, <2>2
    <3>2. /\ ~handler[g].stale /\ handler[g].exec # e
          /\ handler'[g].exec = handler[g].exec
          /\ handler'[g].read = handler[g].read
      BY <1>5, <2>2, <3>1, Zenon
    <3>3. db[handler[g].exec] = handler[g].read
      BY <1>1, <3>1, <3>2 DEF FreshCopies
    <3>4. QED
      BY <1>3, <2>1, <3>1, <3>2, <3>3
  <2>3. QED
    BY <1>7, <2>2 DEF FreshCopies
<1>12. CheckedEvents' /\ OnlyEventsGoOn'
  BY <1>1, <1>5, <1>7 DEF CheckedEvents, OnlyEventsGoOn
<1>13. \A x \in Executions \ tainted' :
         /\ x \notin tainted
         /\ x # e => db'[x] = db[x]
         /\ x = e => ~r.stale
  BY <1>2, <1>3, <1>6
<1>14. \A g \in Handlers, x \in Executions :
         Finishing(g, x)' =>
           \/ /\ g = h /\ x = e /\ handler'[g].event = r.event
              /\ r.kind = "event" /\ IsExecutionTerminal(r.event.phase)
           \/ /\ Finishing(g, x) /\ g # h
              /\ handler'[g].pc = handler[g].pc
              /\ handler'[g].event = handler[g].event
  BY <1>5, <1>7 DEF Finishing
<1>15. e \notin tainted' /\ r.kind = "event" =>
         /\ \A g \in Handlers : ~Finishing(g, e)
         /\ terminations[e] = 0
  <2> SUFFICES ASSUME e \notin tainted', r.kind = "event"
               PROVE  /\ \A g \in Handlers : ~Finishing(g, e)
                      /\ terminations[e] = 0
    OBVIOUS
  <2>1. e \in Executions \ tainted /\ ~IsExecutionTerminal(db[e].phase)
    BY <1>2, <1>8, <1>13
  <2>2. \A g \in Handlers : ~Finishing(g, e)
    BY <1>1, <2>1 DEF FinishingAgree, Finishing
  <2>3. terminations[e] \in 0..2 /\ terminations[e] <= 1 /\ terminations[e] # 1
    BY <1>1, <2>1 DEF TerminatedOnce, TypeOK, MaxTerminations
  <2>4. QED
    BY <2>2, <2>3
<1>16. FinishingAgree'
  <2> SUFFICES ASSUME NEW g \in Handlers, NEW x \in Executions, x \notin tainted', Finishing(g, x)'
               PROVE  db'[x].phase = handler'[g].event.phase
    BY Zenon DEF FinishingAgree
  <2>1. x \notin tainted /\ (x # e => db'[x] = db[x]) /\ (x = e => ~r.stale)
    BY <1>13, Zenon
  <2>2. CASE g = h /\ x = e /\ handler'[g].event = r.event /\ r.kind = "event"
    BY <1>8, <2>1, <2>2, Zenon
  <2>3. CASE Finishing(g, x) /\ handler'[g].event = handler[g].event
    <3>1. db[x].phase = handler[g].event.phase
      BY <1>1, <2>1, <2>3, Zenon DEF FinishingAgree
    <3>2. CASE x = e /\ r.kind = "event"
      BY <1>15, <2>3, <3>2, Zenon
    <3>3. CASE x # e \/ r.kind # "event"
      <4>1. db'[x].phase = db[x].phase
        BY <1>8, <2>1, <3>3, Zenon
      <4>2. QED
        BY <2>3, <3>1, <4>1, Zenon
    <3>4. QED
      BY <3>2, <3>3, Zenon
  <2>4. QED
    BY <1>14, <2>2, <2>3, Zenon
<1>17. DecrementsAgree'
  BY <1>1, <1>6, <1>13, <1>14, <1>15 DEF DecrementsAgree
<1>18. TerminatedOnce'
  BY <1>1, <1>6, <1>8, <1>13, <1>15, Zenon DEF TerminatedOnce
<1>19. SideEffectsAgree'
  BY <1>1, <1>6, <1>8, <1>9, <1>13 DEF SideEffectsAgree
<1>20. StartTimesAgree'
  <2>1. e \notin tainted' => db'[e].startedAt = db'[e].closure.startedAt
    BY <1>1, <1>2, <1>8, <1>13, ComputedPhase DEF StartTimesAgree
  <2>2. QED
    BY <1>1, <1>13, <2>1 DEF StartTimesAgree
<1>21. QED
  BY <1>10, <1>11, <1>12, <1>16, <1>17, <1>18, <1>19, <1>20 DEF IInv

\* Every step preserves the invariant.
LEMMA StepInv == IInv /\ [Next]_vars => IInv'
<1> SUFFICES ASSUME IInv, [Next]_vars PROVE IInv'
  OBVIOUS
<1>1. NoEvent \in Event
  BY DEF NoEvent, Event, Phases
<1>2. ASSUME NEW h \in Handlers, NEW e \in Executions, NEW event \in Events,
             CreateWorkflowEvent(h, e, event)
      PROVE  IInv'
  <2>1. event \in Event
    BY EventsAssumption
  <2>2. QED
    BY <1>2, <2>1, StartInv DEF CreateWorkflowEvent
<1>3. ASSUME NEW h \in Handlers, NEW e \in Executions, TerminateExecution(h, e)
      PROVE  IInv'
  BY <1>1, <1>3, StartInv DEF TerminateExecution
<1>4. ASSUME NEW h \in Handlers, NEW e \in Executions, GetExecutionData(h, e)
      PROVE  IInv'
  BY <1>1, <1>4, StartInv DEF GetExecutionData
<1>5. ASSUME NEW h \in Handlers, Continue(h)
      PROVE  IInv'
  <2>1. CASE Publish(h)
    <3>1. handler[h].pc = "publish" /\ handler[h] \in Request
      BY <2>1, InFlight DEF Publish, Serving, IInv
    <3>2. QED
      BY <2>1, <3>1, ReturnInv DEF Publish
  <2>2. QED
    BY <1>5, <2>1, AbortInv, UpdateInv, WriteInv, NotifyInv DEF Continue
<1>6. ASSUME NEW h \in Handlers, Fail(h)
      PROVE  IInv'
  BY <1>6, ReturnInv DEF Fail
<1>7. CASE RunEventWriter
  BY <1>7, RunEventWriterInv
<1>8. CASE UNCHANGED vars
  <2>1. TypeOK'
    BY <1>8 DEF vars, IInv, TypeOK
  <2>2. FreshCopies' /\ CheckedEvents' /\ OnlyEventsGoOn'
    BY <1>8 DEF vars, IInv, FreshCopies, CheckedEvents, OnlyEventsGoOn
  <2>3. FinishingAgree' /\ DecrementsAgree'
    BY <1>8 DEF vars, IInv, FinishingAgree, DecrementsAgree, Finishing
  <2>4. StartTimesAgree' /\ SideEffectsAgree' /\ TerminatedOnce'
    BY <1>8, Zenon DEF vars, IInv, StartTimesAgree, SideEffectsAgree, TerminatedOnce
  <2>5. QED
    BY <2>1, <2>2, <2>3, <2>4 DEF IInv
<1>9. QED
  BY <1>2, <1>3, <1>4, <1>5, <1>6, <1>7, <1>8 DEF Next

\* The invariant holds in every reachable state.
LEMMA Invariance == Spec => []IInv
BY InitInv, StepInv, PTL DEF Spec

-----------------------------------------------------------------------------
(* The theorems.                                                           *)

\* The table, the requests in flight, the channel and its length stay within
\* their types, whatever the interleaving of the handlers.
THEOREM TypeCorrect == Spec => []TypeOK
<1>1. IInv => TypeOK
  BY DEF IInv
<1>2. QED
  BY <1>1, Invariance, PTL

\* Column and closure agree on the start time until a stale copy is written.
THEOREM StartTimesAlwaysAgree == Spec => []StartTimesAgree
<1>1. IInv => StartTimesAgree
  BY DEF IInv
<1>2. QED
  BY <1>1, Invariance, PTL

\* Events, notifications and published messages name a terminal phase only if
\* it is the one on record, until a stale copy is written.
THEOREM SideEffectsAlwaysAgree == Spec => []SideEffectsAgree
<1>1. IInv => SideEffectsAgree
  BY DEF IInv
<1>2. QED
  BY <1>1, Invariance, PTL

\* ActiveExecutions is decremented once per execution, until a stale copy is
\* written.
THEOREM TerminatedAtMostOnce == Spec => []TerminatedOnce
<1>1. IInv => TerminatedOnce
  BY DEF IInv
<1>2. QED
  BY <1>1, Invariance, PTL

\* A step that is not the write of a row leaves table and history alone.
LEMMA OnlyUpdateWrites ==
    ASSUME [Next]_vars, ~\E h \in Handlers : Update(h)
    PROVE  db' = db /\ tainted' = tainted
BY Zenon DEF Next, vars, CreateWorkflowEvent, TerminateExecution, GetExecutionData,
       Continue, Abort, Write, PublishNotifications, Publish, Fail,
       RunEventWriter

\* The handlers implement the lifecycle: a terminal phase is left, or a
\* running execution queued again, by the write of a stale copy only.
THEOREM LifecycleImplemented == Spec => ImplementsLifecycle
<1> DEFINE phase == [e \in Executions |-> db[e].phase]
<1>1. Init => Lifecycle!Init
  <2> SUFFICES ASSUME Init PROVE Lifecycle!Init
    OBVIOUS
  <2>1. \A e \in Executions : db[e].phase = "UNDEFINED"
    BY DEF Init, CreateExecutionModel
  <2>2. QED
    BY <2>1 DEF Init, Lifecycle!Init
<1>2. IInv /\ [Next]_vars => [Lifecycle!Next]_<<phase, tainted>>
  <2> SUFFICES ASSUME IInv, [Next]_vars
               PROVE  [Lifecycle!Next]_<<phase, tainted>>
    OBVIOUS
  <2>1. CASE ~\E h \in Handlers : Update(h)
    BY <2>1, OnlyUpdateWrites
  <2>2. ASSUME NEW h \in Handlers, Update(h)
        PROVE  [Lifecycle!Next]_<<phase, tainted>>
    <3> DEFINE r == handler[h]
    <3>e. PICK e \in Executions : e = r.exec
      BY <2>2, UpdateRow
    <3>p. PICK p \in Phases : p = db'[e].phase
      BY <2>2, <3>e, UpdateRow, Zenon DEF Execution
    <3>1. /\ \A x \in Executions : x # e => db'[x] = db[x]
          /\ tainted' = IF r.stale THEN tainted \cup {e} ELSE tainted
          /\ p \in Lifecycle!Phases
      BY <2>2, <3>e, UpdateRow, Zenon
         DEF Phases, Lifecycle!Phases, TerminalPhases,
             Lifecycle!TerminalPhases
    <3>2. phase' = [phase EXCEPT ![e] = p] /\ phase[e] = db[e].phase
      BY <3>1, <3>p, Zenon
    <3>3. CASE r.stale
      <4>1. Lifecycle!LoseUpdate(e, p)
        BY <3>1, <3>2, <3>3 DEF Lifecycle!LoseUpdate
      <4>2. QED
        BY <3>1, <4>1, Zenon DEF Lifecycle!Next
    <3>4. CASE ~r.stale /\ r.kind = "event"
      <4>1. ~PhaseRefused(db[e].phase, r.event) /\ p = r.event.phase
        BY <2>2, <3>4, <3>e, <3>p, FreshWrite, Zenon
      <4>2. Lifecycle!Advance(e, p)
        BY <3>1, <3>2, <3>4, <4>1
           DEF Lifecycle!Advance, PhaseRefused, IsExecutionTerminal,
               Lifecycle!IsExecutionTerminal, TerminalPhases,
               Lifecycle!TerminalPhases
      <4>3. QED
        BY <3>1, <4>2 DEF Lifecycle!Next
    <3>5. CASE ~r.stale /\ r.kind # "event"
      <4>1. p = db[e].phase /\ tainted' = tainted
        BY <2>2, <3>1, <3>5, <3>e, <3>p, FreshWrite, Zenon
      <4>2. phase' = phase
        BY <3>1, <3>p, <4>1, Zenon
      <4>3. QED
        BY <4>1, <4>2
    <3>6. QED
      BY <3>3, <3>4, <3>5
  <2>3. QED
    BY <2>1, <2>2
<1>3. QED
  BY <1>1, <1>2, Invariance, PTL
     DEF Spec, ImplementsLifecycle, Lifecycle!Spec

\* No interleaving, stale writes included, clears a column that was set: the
\* merge of Updates is why.
THEOREM ColumnsAlwaysKept == Spec => ColumnsNeverCleared
<1>1. ASSUME IInv, [Next]_vars
      PROVE  \A e \in Executions : ColumnsKept(db[e], db'[e])
  <2>1. CASE ~\E h \in Handlers : Update(h)
    BY <1>1, <2>1, OnlyUpdateWrites DEF ColumnsKept
  <2>2. ASSUME NEW h \in Handlers, Update(h), NEW e \in Executions
        PROVE  ColumnsKept(db[e], db'[e])
    <3>1. CASE e # handler[h].exec
      <4>1. db'[e] = db[e]
        BY <1>1, <2>2, <3>1, UpdateRow
      <4>2. QED
        BY <4>1 DEF ColumnsKept
    <3>2. CASE e = handler[h].exec
      <4> DEFINE x == Computed(handler[h])
      <4>1. db'[e] = Updates(db[e], x)
        BY <1>1, <2>2, <3>2, UpdateRow
      <4> HIDE DEF x
      <4>2. /\ db'[e].startedAt = (db[e].startedAt \/ x.startedAt)
            /\ db'[e].inputsURI = (db[e].inputsURI \/ x.inputsURI)
            /\ db'[e].abortCause = (db[e].abortCause \/ x.abortCause)
            /\ db'[e].errorKind = (db[e].errorKind \/ x.errorKind)
        BY <4>1 DEF Updates
      <4>3. QED
        BY <4>2, Zenon DEF ColumnsKept
    <3>3. QED
      BY <3>1, <3>2
  <2>3. QED
    BY <2>1, <2>2
<1>2. QED
  BY <1>1, Invariance, PTL DEF Spec, ColumnsNeverCleared

\* A terminate request that is about to save has told the cluster of its copy.
AbortsSent ==
    \A h \in Handlers :
        handler[h].pc = "update" /\ handler[h].kind = "terminate"
            => handler[h].read.cluster \in aborted[handler[h].exec]

\* Abort establishes it and nothing takes it away.
LEMMA AbortsSentInv ==
    ASSUME IInv, AbortsSent, [Next]_vars
    PROVE  AbortsSent'
<1>1. TypeOK
  BY DEF IInv
<1>2. CASE UNCHANGED vars
  BY <1>2 DEF vars, AbortsSent
<1>3. CASE RunEventWriter
  BY <1>3 DEF RunEventWriter, AbortsSent
<1>4. ASSUME NEW h \in Handlers, NEW new, new.pc = "idle" \/
                                           new.pc # "update" \/
                                           new.kind # "terminate",
             handler' = [handler EXCEPT ![h] = new], aborted' = aborted
      PROVE  AbortsSent'
  BY <1>1, <1>4 DEF AbortsSent, TypeOK
<1>5. ASSUME NEW h \in Handlers,
             \/ \E e \in Executions, event \in Events :
                    CreateWorkflowEvent(h, e, event)
             \/ \E e \in Executions :
                    TerminateExecution(h, e) \/ GetExecutionData(h, e)
      PROVE  AbortsSent'
  BY <1>4, <1>5, Zenon DEF CreateWorkflowEvent, TerminateExecution, GetExecutionData,
                    Start
<1>6. ASSUME NEW h \in Handlers, Fail(h) \/ Publish(h)
      PROVE  AbortsSent'
  BY <1>4, <1>6 DEF Fail, Publish, Return, Idle
<1>7. ASSUME NEW h \in Handlers, Write(h)
      PROVE  AbortsSent'
  <2> DEFINE new == [handler[h] EXCEPT !.pc =
                       IF IsExecutionTerminal(handler[h].event.phase)
                       THEN "notify" ELSE "publish"]
  <2>1. handler[h].pc = "write"
    BY <1>7 DEF Write, Serving
  <2>2. handler[h] \in Request
    BY <1>1, <2>1, InFlight
  <2>3. new.pc # "update"
    BY <2>2 DEF Request
  <2>4. QED
    BY <1>4, <1>7, <2>3, Zenon DEF Write
<1>8. ASSUME NEW h \in Handlers, PublishNotifications(h)
      PROVE  AbortsSent'
  <2> DEFINE new == [handler[h] EXCEPT !.pc = "publish"]
  <2>1. handler[h].pc = "notify"
    BY <1>8 DEF PublishNotifications, Serving
  <2>2. handler[h] \in Request
    BY <1>1, <2>1, InFlight
  <2>3. new.pc # "update" /\ Idle.pc = "idle"
    BY <2>2 DEF Request, Idle
  <2>4. QED
    BY <1>4, <1>8, <2>3, Zenon DEF PublishNotifications, Return
<1>9. ASSUME NEW h \in Handlers, Abort(h)
      PROVE  AbortsSent'
  <2> DEFINE e   == handler[h].exec
             new == [handler[h] EXCEPT !.pc = "update"]
  <2>1. handler[h] \in Request /\ e \in Executions
    BY <1>1, <1>9, InFlight DEF Abort, Serving
  <2>2. new.exec = e /\ new.read = handler[h].read
    BY <2>1 DEF Request
  <2>3. \A g \in Handlers : handler'[g] = IF g = h THEN new ELSE handler[g]
    BY <1>1, <1>9 DEF Abort, TypeOK
  <2>4. \A x \in Executions :
          aborted'[x] = IF x = e THEN aborted[x] \cup {handler[h].read.cluster}
                                 ELSE aborted[x]
    BY <1>1, <1>9, <2>1, Zenon DEF Abort, TypeOK
  <2>5. \A g \in Handlers :
          handler[g].pc = "update" => handler[g].exec \in Executions
    BY <1>1, InFlight
  <2> HIDE DEF new, e
  <2>6. ASSUME NEW g \in Handlers, handler'[g].pc = "update",
               handler'[g].kind = "terminate"
        PROVE  handler'[g].read.cluster \in aborted'[handler'[g].exec]
    <3>1. CASE g = h
      BY <2>1, <2>2, <2>3, <2>4, <3>1, Zenon
    <3>2. CASE g # h
      BY <2>3, <2>4, <2>5, <2>6, <3>2, Zenon DEF AbortsSent
    <3>3. QED
      BY <3>1, <3>2
  <2>7. QED
    BY <2>6, Zenon DEF AbortsSent
<1>10. ASSUME NEW h \in Handlers, Update(h)
       PROVE  AbortsSent'
  <2>1. /\ aborted' = aborted
        /\ handler'[h] = Idle \/ handler'[h] = [handler[h] EXCEPT !.pc = "write"]
        /\ handler[h] \in Request
    BY <1>10, UpdateRow, UpdateRequests
  <2>2. handler'[h].pc # "update"
    BY <2>1 DEF Idle, Request
  <2>3. OthersMarked(h)
    BY <1>10, UpdateRequests, Zenon
  <2>4. QED
    BY <2>1, <2>2, <2>3, Zenon DEF AbortsSent, OthersMarked
<1>11. QED
  BY <1>2, <1>3, <1>5, <1>6, <1>7, <1>8, <1>9, <1>10 DEF Next, Continue

\* Abort metadata appears on an execution without stale writes only after the
\* cluster on record was told to delete the workflow.
THEOREM AbortReaches == Spec => AbortReachedCluster
<1>1. Init => AbortsSent
  BY DEF Init, Idle, AbortsSent
<1>2. Spec => []AbortsSent
  BY <1>1, Invariance, AbortsSentInv, PTL DEF Spec
<1>3. ASSUME IInv, AbortsSent, [Next]_vars
      PROVE  \A e \in Executions \ tainted' :
               db[e].closure.result # "abortMetadata"
                 /\ db'[e].closure.result = "abortMetadata"
                   => db'[e].cluster \in aborted'[e]
  <2>1. CASE ~\E h \in Handlers : Update(h)
    BY <1>3, <2>1, OnlyUpdateWrites
  <2>2. ASSUME NEW h \in Handlers, Update(h), NEW e \in Executions \ tainted',
               db[e].closure.result # "abortMetadata",
               db'[e].closure.result = "abortMetadata"
        PROVE  db'[e].cluster \in aborted'[e]
    <3> DEFINE r == handler[h]
    <3>1. /\ r \in Request /\ r.pc = "update" /\ aborted' = aborted
          /\ e # r.exec => db'[e] = db[e]
          /\ tainted' = IF r.stale THEN tainted \cup {r.exec} ELSE tainted
      BY <1>3, <2>2, UpdateRow, Zenon
    <3>2. e = r.exec /\ ~r.stale
      BY <2>2, <3>1
    <3>3. db'[e] = Computed(r) /\ db[e] = r.read
      BY <1>3, <2>2, <3>2, FreshWrite, Zenon
    <3> HIDE DEF r
    <3>4. /\ r.read \in Execution /\ r.event \in Event
          /\ r.kind \in {"event", "terminate", "getData"}
      BY <3>1 DEF Request
    <3>5. r.kind # "event"
      <4> SUFFICES ASSUME r.kind = "event" PROVE FALSE
        OBVIOUS
      <4>1. Computed(r).closure.result
              = IF r.event.result = "none" THEN r.read.closure.result
                                           ELSE r.event.result
        BY <3>4 DEF Computed, UpdateExecutionModelState, Execution
      <4>2. r.event.result # "abortMetadata"
        BY <3>4 DEF Event
      <4>3. QED
        BY <2>2, <3>3, <4>1, <4>2
    <3>6. r.kind # "getData"
      <4> SUFFICES ASSUME r.kind = "getData" PROVE FALSE
        OBVIOUS
      <4>1. Computed(r).closure = r.read.closure
        BY <3>4 DEF Computed, Execution
      <4>2. QED
        BY <2>2, <3>3, <4>1
    <3>7. Computed(r).cluster = r.read.cluster
      BY <3>4, <3>5, <3>6 DEF Computed, SetExecutionAborted, Execution
    <3>8. r.read.cluster \in aborted[r.exec]
      BY <1>3, <3>1, <3>4, <3>5, <3>6 DEF AbortsSent, r
    <3>9. QED
      BY <3>1, <3>2, <3>3, <3>7, <3>8
  <2>3. QED
    BY <2>1, <2>2
<1>4. QED
  BY <1>2, <1>3, Invariance, PTL DEF Spec, AbortReachedCluster

-----------------------------------------------------------------------------
(* Requests served one at a time.                                          *)

NothingStale ==
    /\ tainted = {}
    /\ \A h \in Handlers :
         handler[h].pc \in {"abort", "update"} => handler[h].stale = FALSE

\* With a single handler nobody can write between a read and its write.
LEMMA NothingStaleInv ==
    ASSUME IInv, NothingStale, [Next]_vars,
           \A g, h \in Handlers : g = h
    PROVE  NothingStale'
<1>1. TypeOK
  BY DEF IInv
<1>2. CASE UNCHANGED vars
  BY <1>2 DEF vars, NothingStale
<1>3. CASE RunEventWriter
  BY <1>3 DEF RunEventWriter, NothingStale
<1>4. ASSUME NEW h \in Handlers, NEW new,
             new.pc \in {"abort", "update"} => new.stale = FALSE,
             handler' = [handler EXCEPT ![h] = new], tainted' = tainted
      PROVE  NothingStale'
  BY <1>1, <1>4 DEF NothingStale, TypeOK
<1>5. ASSUME NEW h \in Handlers,
             \/ \E e \in Executions, event \in Events :
                    CreateWorkflowEvent(h, e, event)
             \/ \E e \in Executions :
                    TerminateExecution(h, e) \/ GetExecutionData(h, e)
      PROVE  NothingStale'
  BY <1>4, <1>5, Zenon DEF CreateWorkflowEvent, TerminateExecution, GetExecutionData,
                    Start
<1>6. ASSUME NEW h \in Handlers, Fail(h) \/ Publish(h)
      PROVE  NothingStale'
  BY <1>4, <1>6, Zenon DEF Fail, Publish, Return, Idle
<1>7. ASSUME NEW h \in Handlers, Write(h)
      PROVE  NothingStale'
  <2> DEFINE new == [handler[h] EXCEPT !.pc =
                       IF IsExecutionTerminal(handler[h].event.phase)
                       THEN "notify" ELSE "publish"]
  <2>1. handler[h].pc = "write"
    BY <1>7 DEF Write, Serving
  <2>2. handler[h] \in Request
    BY <1>1, <2>1, InFlight
  <2>3. new.pc \notin {"abort", "update"}
    BY <2>2 DEF Request
  <2>4. QED
    BY <1>4, <1>7, <2>3, Zenon DEF Write
<1>8. ASSUME NEW h \in Handlers, PublishNotifications(h)
      PROVE  NothingStale'
  <2> DEFINE new == [handler[h] EXCEPT !.pc = "publish"]
  <2>1. handler[h].pc = "notify"
    BY <1>8 DEF PublishNotifications, Serving
  <2>2. handler[h] \in Request
    BY <1>1, <2>1, InFlight
  <2>3. new.pc = "publish" /\ Idle.pc = "idle"
    BY <2>2 DEF Request, Idle
  <2>4. QED
    BY <1>4, <1>8, <2>3, Zenon DEF PublishNotifications, Return
<1>9. ASSUME NEW h \in Handlers, Abort(h)
      PROVE  NothingStale'
  <2> DEFINE new == [handler[h] EXCEPT !.pc = "update"]
  <2>1. handler[h].pc = "abort" /\ handler[h] \in Request
    BY <1>1, <1>9, InFlight DEF Abort, Serving
  <2>2. new.stale = FALSE
    BY <2>1 DEF Request, NothingStale
  <2>3. QED
    BY <1>4, <1>9, <2>2, Zenon DEF Abort
<1>10. ASSUME NEW h \in Handlers, Update(h)
       PROVE  NothingStale'
  <2>1. /\ handler[h] \in Request /\ handler[h].pc = "update"
        /\ handler'[h] = Idle \/ handler'[h] = [handler[h] EXCEPT !.pc = "write"]
        /\ handler[h].stale \in BOOLEAN
        /\ ~handler[h].stale => tainted' = tainted
    BY <1>10, UpdateRow, UpdateRequests DEF Request
  <2>2. handler'[h].pc \notin {"abort", "update"}
    BY <2>1 DEF Idle, Request
  <2>3. tainted' = {}
    BY <2>1 DEF NothingStale
  <2>4. QED
    BY <2>2, <2>3 DEF NothingStale
<1>11. QED
  BY <1>2, <1>3, <1>5, <1>6, <1>7, <1>8, <1>9, <1>10 DEF Next, Continue

\* "Cannot go backwards in time from a terminal state": CreateWorkflowEvent,
\* TerminateExecution and GetExecutionData keep the promise when requests are
\* served one at a time; it takes a second handler to break it.
THEOREM SerialTerminalIsFinal ==
    ASSUME \A g, h \in Handlers : g = h
    PROVE  Spec => TerminalIsFinal
<1>1. Init => NothingStale
  BY DEF Init, Idle, NothingStale
<1>2. IInv /\ NothingStale /\ [Next]_vars => NothingStale'
  BY NothingStaleInv
<1>3. Spec => []NothingStale
  BY <1>1, <1>2, Invariance, PTL DEF Spec
<1>4. ASSUME IInv, NothingStale, [Next]_vars
      PROVE  \A e \in Executions :
               IsExecutionTerminal(db[e].phase) => db'[e].phase = db[e].phase
  <2>1. CASE ~\E h \in Handlers : Update(h)
    BY <1>4, <2>1, OnlyUpdateWrites
  <2>2. ASSUME NEW h \in Handlers, Update(h), NEW e \in Executions,
               IsExecutionTerminal(db[e].phase)
        PROVE  db'[e].phase = db[e].phase
    <3>1. /\ handler[h].pc = "update"
          /\ e # handler[h].exec => db'[e] = db[e]
      BY <1>4, <2>2, UpdateRow, Zenon
    <3>2. ~handler[h].stale
      BY <1>4, <3>1 DEF NothingStale
    <3>3. e = handler[h].exec =>
            /\ handler[h].kind # "event" => db'[e].phase = db[e].phase
            /\ handler[h].kind = "event" =>
                 ~PhaseRefused(db[e].phase, handler[h].event)
      BY <1>4, <2>2, <3>2, FreshWrite, Zenon
    <3>4. QED
      BY <2>2, <3>1, <3>3 DEF PhaseRefused
  <2>3. QED
    BY <2>1, <2>2
<1>5. QED
  BY <1>3, <1>4, Invariance, PTL DEF Spec, TerminalIsFinal

-----------------------------------------------------------------------------
(***************************************************************************)
(* Sessions.  Sign-ins end as they were asked to and calls are served in   *)
(* the name of one user, for any number of tabs, users, pages, grants and  *)
(* faults.                                                                 *)
(***************************************************************************)

Ends == {"landed", "refused", "served", "code", "loggedOut"}
Paths == {"login", "authorize", "api", "logout", "callback", AuthorizeCallback}

SessionTypeOK ==
    /\ jar = [c \in Cookies |-> jar[c]]
    /\ tab = [t \in Tabs |-> tab[t]]
    /\ grants \in Seq(Users)
    /\ csrf \in Nat
    /\ \E plan \in Plans : pages \subseteq plan

\* The cookies k of the jar or of a request: tokens are of a grant, the user
\* information is that of the id token, and the access token is of the same grant,
\* unless the answer that set them failed halfway.  The place has a path.
Tokens(k) ==
    /\ k["id"] # None => k["id"] \in DOMAIN grants
    /\ k["refresh"] # None => k["refresh"] \in DOMAIN grants
    /\ k["id"] # None /\ k["id"] \notin halfway => k["info"] = grants[k["id"]]
    /\ k["access"] # None /\ k["access"] \notin halfway => k["access"] = k["id"]
    /\ k["location"] \notin Pathless

\* The cookies f that an answer sets: these are set together.
SetsTokens(f) ==
    /\ "id" \in DOMAIN f => f["id"] \in DOMAIN grants
    /\ "refresh" \in DOMAIN f => f["refresh"] \in DOMAIN grants \cup {None}
    /\ "id" \in DOMAIN f => "access" \in DOMAIN f /\ f["access"] = f["id"]
    /\ "access" \in DOMAIN f /\ "id" \notin DOMAIN f => f["access"] \in halfway \cup {None}
    /\ "id" \in DOMAIN f /\ f["id"] \notin halfway => "info" \in DOMAIN f
    /\ "info" \in DOMAIN f => "id" \in DOMAIN f /\ f["info"] = grants[f["id"]]
    /\ "location" \in DOMAIN f => f["location"] \notin Pathless

\* A tab between /login and /callback, and the state it comes back with.
Pending(p) ==
    \/ p.pc = "answered" /\ p.path = "idp"
    \/ p.pc = "idp"
    \/ p.pc = "sent" /\ p.path = "callback"
State(p) ==
    IF p.pc = "answered" THEN p.query ELSE IF p.pc = "idp" THEN p.state ELSE p.query.state

\* As long as the cookies k hold the CSRF token of a tab, they hold the place it
\* asked for.
Places(k, p) ==
    k["csrf"] # None /\ HashCsrfState(k["csrf"]) = State(p) /\ HasPath(p.flow.asked) =>
       k["location"] = p.flow.asked

\* They hold the request of the client the tab authorizes.
Requests(k, p) == ~overlapped /\ p.flow.client # None => k["request"] = p.flow.client

\* A flow that ends in the page end, with a result.
GoodIdentity(i) == i.tokens \cap halfway = {} => i.subject = i.user
Fits(asked, place) == place = asked \/ (~HasPath(asked) /\ HasPath(place))
EndsWell(flow, end, result) ==
    /\ end = "landed" => Fits(flow.asked, result)
    /\ end = "code" => /\ HasPath(flow.asked) => flow.asked = AuthorizeCallback
                       /\ ~overlapped => flow.client \in {None, result.client}
                       /\ GoodIdentity(result.identity)
    /\ end = "served" => GoodIdentity(result)

\* A request, a tab at the identity provider, and an answer.
Sent(p) ==
    /\ p.path \in Paths /\ Tokens(p.cookies)
    /\ p.path = "login" => p.query = p.flow.asked
    /\ p.path = "authorize" =>
          p.flow.asked = AuthorizeCallback /\ p.query = p.flow.client /\ p.flow.client # None
    /\ p.path = "callback" => Places(p.cookies, p) /\ p.query.user \in Users
    /\ p.path = AuthorizeCallback => (HasPath(p.flow.asked) => p.flow.asked = AuthorizeCallback)
    /\ p.path \in {"login", "callback", AuthorizeCallback} =>
          Requests(p.cookies, p) /\ Requests(jar, p)
Away(p) == Places(jar, p) /\ Requests(jar, p)
Answered(p) ==
    /\ p.path \in {"login", "idp", AuthorizeCallback} \cup Ends
    /\ DOMAIN p.set \subseteq Cookies /\ SetsTokens(p.set)
    /\ "csrf" \in DOMAIN p.set \/ "location" \in DOMAIN p.set => p.path = "idp"
    /\ "request" \in DOMAIN p.set => p.path = "login"
    /\ p.path = "idp" =>
          /\ "csrf" \in DOMAIN p.set /\ HashCsrfState(p.set["csrf"]) = p.query
          /\ HasPath(p.flow.asked) =>
                "location" \in DOMAIN p.set /\ p.set["location"] = p.flow.asked
    /\ p.path = "login" =>
          /\ p.flow.asked = AuthorizeCallback /\ p.query = p.flow.asked /\ p.flow.client # None
          /\ "request" \in DOMAIN p.set /\ p.set["request"] = p.flow.client
    /\ p.path = AuthorizeCallback => (HasPath(p.flow.asked) => p.flow.asked = AuthorizeCallback)
    /\ p.path \in {"idp", AuthorizeCallback} => Requests(jar, p)
    /\ EndsWell(p.flow, p.path, p.query)

Right(p) ==
    /\ p.pc \in {"blank", "sent", "idp", "answered"} \cup Ends
    /\ p.pc = "sent" => Sent(p)
    /\ p.pc = "idp" => Away(p)
    /\ p.pc = "answered" => Answered(p)
    /\ p.pc \in Ends => EndsWell(p.flow, p.pc, p.result)

\* No two tabs come back with the same state, and the next one is new.
Fresh ==
    /\ \A t \in Tabs : Pending(tab[t]) => \E n \in 1 .. csrf : State(tab[t]) = HashCsrfState(n)
    /\ \A t, u \in Tabs : Pending(tab[t]) /\ Pending(tab[u]) /\ State(tab[t]) = State(tab[u]) => t = u

\* Unless two clients were being authorized at once, one is at most.
Exclusive == ~overlapped => \A t, u \in Tabs : Authorizing(t) /\ Authorizing(u) => t = u

SessionInv == /\ SessionTypeOK /\ Tokens(jar) /\ Fresh /\ Exclusive
        /\ \A t \in Tabs : Right(tab[t])

-----------------------------------------------------------------------------
(* What the steps leave as it is.                                          *)

\* HashCsrfState tells two tokens apart.
LEMMA HashFacts == \A m, n : HashCsrfState(m) = HashCsrfState(n) => m = n
BY DEF HashCsrfState

LEMMA BothFacts ==
    ASSUME NEW f, NEW g
    PROVE  /\ DOMAIN Both(f, g) = DOMAIN f \cup DOMAIN g
           /\ \A c \in DOMAIN f : Both(f, g)[c] = f[c]
           /\ \A c \in DOMAIN g : c \notin DOMAIN f => Both(f, g)[c] = g[c]
           /\ Both(f, g) = [c \in DOMAIN f \cup DOMAIN g |-> Both(f, g)[c]]
BY DEF Both

\* Grants stay, and so do the exceptions.
Grows ==
    /\ \A n \in DOMAIN grants : n \in DOMAIN grants' /\ grants'[n] = grants[n]
    /\ halfway \subseteq halfway'
    /\ ~overlapped' => ~overlapped

LEMMA TokensStay ==
    ASSUME Grows, NEW k, Tokens(k)
    PROVE  Tokens(k)'
BY Zenon DEF Grows, Tokens

LEMMA SetsStay ==
    ASSUME Grows, NEW f, SetsTokens(f)
    PROVE  SetsTokens(f)'
BY Zenon DEF Grows, SetsTokens

LEMMA EndsStay ==
    ASSUME Grows, NEW flow, NEW end, NEW result, EndsWell(flow, end, result)
    PROVE  EndsWell(flow, end, result)'
<1>1. \A i : GoodIdentity(i) => GoodIdentity(i)'
  BY DEF Grows, GoodIdentity
<1>. QED  BY <1>1, Zenon DEF Grows, EndsWell, Fits, HasPath

\* A tab p that does nothing, while another asks the server.
LEMMA RightStays ==
    ASSUME Grows, UNCHANGED jar, NEW p, Right(p)
    PROVE  Right(p)'
<1>1. \A k : Places(k, p) => Places(k, p)'
  BY Zenon DEF Places, State, HashCsrfState, HasPath
<1>2. \A k : Requests(k, p) => Requests(k, p)'
  BY Zenon DEF Requests, Grows
<1>3. Requests(jar, p) => Requests(jar, p)'
  BY Zenon DEF Requests, Grows
<1>4. Places(jar, p) => Places(jar, p)'
  BY Zenon DEF Places, State, HashCsrfState, HasPath
<1>5. Sent(p) => Sent(p)'
  BY <1>1, <1>2, <1>3, TokensStay, Zenon DEF Sent, HasPath
<1>6. Away(p) => Away(p)'
  BY <1>3, <1>4, Zenon DEF Away
<1>7. Answered(p) => Answered(p)'
  BY <1>3, SetsStay, EndsStay, Zenon DEF Answered, HashCsrfState, HasPath
<1>8. p.pc \in Ends /\ EndsWell(p.flow, p.pc, p.result) => EndsWell(p.flow, p.pc, p.result)'
  BY EndsStay, Zenon
<1>. QED  BY <1>5, <1>6, <1>7, <1>8, Zenon DEF Right

\* New tokens are of the user they are given to.
LEMMA Granting ==
    ASSUME SessionTypeOK, NEW user \in Users, Grant(user)
    PROVE  /\ grants' \in Seq(Users)
           /\ \A n \in DOMAIN grants : n \in DOMAIN grants' /\ grants'[n] = grants[n]
           /\ New \in DOMAIN grants' /\ grants'[New] = user
BY DEF SessionTypeOK, Grant, New

-----------------------------------------------------------------------------
(* Answers.                                                                *)

\* The answer q to the request of tab t; one that sends it to the identity
\* provider has a new CSRF token.
Replies(t, q) ==
    /\ tab' = [tab EXCEPT ![t] = q]
    /\ q.pc = "answered" /\ q.flow = tab[t].flow
    /\ \/ q.path # "idp" /\ csrf' = csrf
       \/ q.path = "idp" /\ csrf' = csrf + 1 /\ q.query = HashCsrfState(csrf')
    /\ grants' \in Seq(Users)
    /\ UNCHANGED <<jar, pages, overlapped>>

LEMMA Replying ==
    ASSUME SessionInv, Grows, NEW t \in Tabs, tab[t].pc = "sent", NEW q, Replies(t, q), Answered(q)'
    PROVE  SessionInv'
<1>1. tab'[t] = q /\ \A u \in Tabs : u # t => tab'[u] = tab[u]
  BY Zenon DEF SessionInv, SessionTypeOK, Replies
<1>2. SessionTypeOK'
  <2>1. tab' = [u \in Tabs |-> tab'[u]]
    BY Zenon DEF SessionInv, SessionTypeOK, Replies
  <2>2. csrf' \in Nat
    BY DEF SessionInv, SessionTypeOK, Replies
  <2>. QED  BY <2>1, <2>2, Zenon DEF SessionInv, SessionTypeOK, Replies
<1>3. Tokens(jar)'
  <2>. PICK k : k = jar
    BY Zenon
  <2>. QED  BY TokensStay, Zenon DEF SessionInv, Replies
<1>4. \A u \in Tabs : Right(tab[u])'
  <2>1. Right(q)'
    BY Zenon DEF Replies, Right, Ends
  <2>2. ASSUME NEW u \in Tabs, u # t PROVE Right(tab[u])'
    <3>. PICK p : p = tab[u]
      BY Zenon
    <3>1. Right(p)'
      BY RightStays, Zenon DEF SessionInv, Replies
    <3>. QED  BY <1>1, <2>2, <3>1, Zenon
  <2>. QED  BY <1>1, <2>1, <2>2, Zenon
<1>5. Fresh'
  <2>1. \A n \in 1 .. csrf : n \in 1 .. csrf' /\ n # csrf + 1
    BY DEF SessionInv, SessionTypeOK, Replies
  <2>2. \A u \in Tabs : u # t => (Pending(tab[u])' <=> Pending(tab[u])) /\ State(tab[u])' = State(tab[u])
    BY <1>1, Zenon DEF Pending, State
  <2>3. Pending(tab[t])' => q.path = "idp" /\ State(tab[t])' = HashCsrfState(csrf + 1) /\ csrf' = csrf + 1
    BY <1>1, Zenon DEF Pending, State, Replies
  <2>4. csrf' = csrf + 1 => csrf + 1 \in 1 .. csrf'
    BY DEF SessionInv, SessionTypeOK
  <2>5. \A n \in 1 .. csrf : HashCsrfState(n) # HashCsrfState(csrf + 1)
    BY <2>1, HashFacts, Zenon
  <2>6. \A u \in Tabs : Pending(tab[u])' => \E n \in 1 .. csrf' : State(tab[u])' = HashCsrfState(n)
    BY <2>1, <2>2, <2>3, <2>4, Zenon DEF SessionInv, Fresh
  <2>7. \A u \in Tabs : u # t /\ Pending(tab[u])' => State(tab[u])' # HashCsrfState(csrf + 1)
    BY <2>2, <2>5, Zenon DEF SessionInv, Fresh
  <2>8. ASSUME NEW u \in Tabs, NEW v \in Tabs, Pending(tab[u])', Pending(tab[v])',
               State(tab[u])' = State(tab[v])'
        PROVE  u = v
    <3>1. CASE u = t \/ v = t
      BY <2>3, <2>7, <2>8, <3>1, Zenon
    <3>2. CASE u # t /\ v # t
      BY <2>2, <2>8, <3>2, Zenon DEF SessionInv, Fresh
    <3>. QED  BY <3>1, <3>2, Zenon
  <2>. QED  BY <2>6, <2>8, Zenon DEF Fresh, HashCsrfState
<1>6. Exclusive'
  <2>1. \A u \in Tabs : Authorizing(u)' => Authorizing(u)
    BY <1>1, Zenon DEF Authorizing, Replies
  <2>. QED  BY <2>1, Zenon DEF SessionInv, Exclusive, Replies
<1>. QED  BY <1>2, <1>3, <1>4, <1>5, <1>6, Zenon DEF SessionInv

Answer(flow, set, path, query) ==
    [pc |-> "answered", set |-> set, path |-> path, query |-> query, flow |-> flow]

\* What the handlers have in common.
Answering ==
    /\ Grows /\ grants' \in Seq(Users)
    /\ UNCHANGED <<jar, pages, overlapped>>

\* The cookies of a session.
TokenCookies == {"access", "id", "refresh", "info"}
SetsSession(f) == DOMAIN f \subseteq TokenCookies /\ SetsTokens(f)

LEMMA SessionCookies ==
    ASSUME NEW f, SetsSession(f)'
    PROVE  /\ DOMAIN f \subseteq Cookies /\ SetsTokens(f)'
           /\ "csrf" \notin DOMAIN f /\ "location" \notin DOMAIN f /\ "request" \notin DOMAIN f
<1>1. DOMAIN f \subseteq TokenCookies /\ SetsTokens(f)'
  BY Zenon DEF SetsSession
<1>2. TokenCookies \subseteq Cookies
  BY Zenon DEF TokenCookies, Cookies
<1>3. "csrf" \notin TokenCookies /\ "location" \notin TokenCookies /\ "request" \notin TokenCookies
  BY Zenon DEF TokenCookies
<1>. QED  BY <1>1, <1>2, <1>3, Zenon

\* An answer that ends the flow.
LEMMA Ending ==
    ASSUME SessionInv, Answering, NEW t \in Tabs, tab[t].pc = "sent", csrf' = csrf,
           NEW set, SetsSession(set)', NEW path \in Ends, NEW query, Reply(t, set, path, query),
           NEW flow, flow = tab[t].flow, EndsWell(flow, path, query)'
    PROVE  SessionInv'
<1>. PICK q : q = Answer(flow, set, path, query)
  BY Zenon
<1>1. /\ q.pc = "answered" /\ q.set = set /\ q.path = path /\ q.query = query
      /\ q.flow = flow
  BY Zenon DEF Answer
<1>2. path \notin {"idp", "login", AuthorizeCallback}
  BY DEF Ends, AuthorizeCallback
<1>3. Answered(q)'
  BY <1>1, <1>2, SessionCookies, Zenon DEF Answered
<1>4. tab' = [tab EXCEPT ![t] = q]
  BY Zenon DEF Reply, Answer
<1>5. Replies(t, q)
  BY <1>1, <1>2, <1>4, Zenon DEF Replies, Answering
<1>. QED  BY <1>3, <1>5, Replying, Zenon DEF Answering

\* An answer that sends the user where the flow ends.
LEMMA Landing ==
    ASSUME SessionInv, Answering, NEW t \in Tabs, tab[t].pc = "sent", csrf' = csrf,
           tab[t].path \in {"login", "callback"},
           NEW set, SetsSession(set)', NEW location, Land(t, set, location),
           NEW to, to = getAuthFlowEndRedirect(tab[t].cookies, location),
           Fits(tab[t].flow.asked, to)
    PROVE  SessionInv'
<1>. PICK flow : flow = tab[t].flow
  BY Zenon
<1>1. CASE to = AuthorizeCallback
  <2>. PICK q : q = Answer(flow, set, to, None)
    BY Zenon
  <2>1. /\ q.pc = "answered" /\ q.set = set /\ q.path = to /\ q.query = None
        /\ q.flow = flow
    BY Zenon DEF Answer
  <2>2. Requests(jar, q)'
    <3>1. Requests(jar, tab[t])
      BY Zenon DEF SessionInv, Right, Sent
    <3>. QED  BY <2>1, <3>1, Zenon DEF Requests, Answering
  <2>3. EndsWell(q.flow, q.path, q.query)'
    BY <1>1, <2>1, Zenon DEF EndsWell, AuthorizeCallback
  <2>4. AuthorizeCallback \notin {"idp", "login"}
    BY Zenon DEF AuthorizeCallback
  <2>5. Answered(q)'
    BY <1>1, <2>1, <2>2, <2>3, <2>4, SessionCookies, Zenon DEF Answered, Fits, HasPath
  <2>6. tab' = [tab EXCEPT ![t] = q]
    BY <1>1, Zenon DEF Land, Reply, Answer
  <2>7. Replies(t, q)
    BY <1>1, <2>1, <2>4, <2>6, Zenon DEF Replies, Answering
  <2>. QED  BY <2>5, <2>7, Replying, Zenon DEF Answering
<1>2. CASE to # AuthorizeCallback
  <2>1. Reply(t, set, "landed", to)
    BY <1>2, Zenon DEF Land
  <2>2. EndsWell(flow, "landed", to)'
    BY Zenon DEF EndsWell, Fits, HasPath
  <2>. QED  BY <2>1, <2>2, Ending, Zenon DEF Ends
<1>. QED  BY <1>1, <1>2, Zenon

\* An answer that sends the user to the identity provider.
LEMMA LoggingIn ==
    ASSUME SessionInv, Answering, NEW t \in Tabs, tab[t].pc = "sent", tab[t].path = "login",
           NEW set, SetsSession(set)', GetLoginHandler(t, set)
    PROVE  SessionInv'
<1>. PICK flow : flow = tab[t].flow
  BY Zenon
<1>. PICK place : place = tab[t].query
  BY Zenon
<1>1. place = flow.asked /\ Requests(jar, tab[t])
  BY Zenon DEF SessionInv, Right, Sent
<1>. PICK token : token = csrf'
  BY Zenon
<1>. PICK f : f = Both(set, Both(Cookie("csrf", token), NewRedirectCookie(place)))
  BY Zenon
<1>2. /\ DOMAIN f \subseteq TokenCookies \cup {"csrf", "location"}
      /\ "csrf" \in DOMAIN f /\ f["csrf"] = token
      /\ HasPath(place) => "location" \in DOMAIN f /\ f["location"] = place
      /\ "location" \in DOMAIN f => f["location"] \notin Pathless
      /\ \A c \in TokenCookies : c \in DOMAIN f <=> c \in DOMAIN set
      /\ \A c \in TokenCookies \cap DOMAIN f : f[c] = set[c]
  <2>1. DOMAIN set \subseteq TokenCookies
    BY Zenon DEF SetsSession
  <2>2. CASE ~HasPath(place)
    <3>1. f = [c \in DOMAIN set \cup {"csrf"} |-> IF c \in DOMAIN set THEN set[c] ELSE token]
      BY <2>2 DEF Both, Cookie, NewRedirectCookie, NoCookies
    <3>. QED  BY <2>1, <2>2, <3>1 DEF TokenCookies
  <2>3. CASE HasPath(place)
    <3>1. f = [c \in DOMAIN set \cup {"csrf", "location"} |->
                  IF c \in DOMAIN set THEN set[c] ELSE IF c = "csrf" THEN token ELSE place]
      BY <2>3, Zenon DEF Both, Cookie, NewRedirectCookie
    <3>. QED  BY <2>1, <2>3, <3>1, Zenon DEF TokenCookies, HasPath
  <2>. QED  BY <2>2, <2>3, Zenon
<1>3. SetsTokens(f)'
  BY <1>2, Zenon DEF SetsSession, SetsTokens, TokenCookies
<1>. PICK q : q = Answer(flow, f, "idp", HashCsrfState(token))
  BY Zenon
<1>4. /\ q.pc = "answered" /\ q.set = f /\ q.path = "idp" /\ q.query = HashCsrfState(token)
      /\ q.flow = flow
  BY Zenon DEF Answer
<1>5. Requests(jar, q)'
  BY <1>1, <1>4, Zenon DEF Requests, Answering
<1>6. Answered(q)'
  <2>1. DOMAIN f \subseteq Cookies /\ "request" \notin DOMAIN f
    BY <1>2, Zenon DEF TokenCookies, Cookies
  <2>2. EndsWell(q.flow, q.path, q.query)'
    BY <1>4, Zenon DEF EndsWell
  <2>3. "idp" \notin {"login", AuthorizeCallback}
    BY Zenon DEF AuthorizeCallback
  <2>4. HashCsrfState(f["csrf"])' = q.query
    BY <1>2, <1>4, Zenon DEF HashCsrfState
  <2>5. DOMAIN q.set \subseteq Cookies /\ SetsTokens(q.set)'
    BY <1>3, <1>4, <2>1, Zenon
  <2>6. "csrf" \in DOMAIN q.set /\ HashCsrfState(q.set["csrf"])' = q.query /\ "request" \notin DOMAIN q.set
    BY <1>2, <1>4, <2>1, <2>4, Zenon
  <2>7. HasPath(q.flow.asked) => "location" \in DOMAIN q.set /\ q.set["location"] = q.flow.asked
    <3>1. HasPath(flow.asked) => "location" \in DOMAIN f /\ f["location"] = flow.asked
      BY <1>1, <1>2, Zenon
    <3>. QED  BY <1>4, <3>1, Zenon
  <2>. QED  BY <1>4, <1>5, <2>2, <2>3, <2>5, <2>6, <2>7, Zenon DEF Answered, HasPath
<1>7. tab' = [tab EXCEPT ![t] = q] /\ csrf' = csrf + 1
  BY Zenon DEF GetLoginHandler, Reply, Answer
<1>8. Replies(t, q)
  BY <1>4, <1>7, Zenon DEF Replies, Answering
<1>. QED  BY <1>6, <1>8, Replying, Zenon DEF Answering

\* The cookies that the handlers set.
LEMMA NothingSet == SetsSession(NoCookies)'
BY DEF SetsSession, SetsTokens, NoCookies

LEMMA DeletedSet == SetsSession(DeleteCookies)'
BY DEF SetsSession, SetsTokens, DeleteCookies, TokenCookies

LEMMA TokensSet ==
    ASSUME NEW n, n \in DOMAIN grants', n \in halfway', NEW f \in SetSomeCookies(n)
    PROVE  SetsSession(f)'
<1>1. /\ DOMAIN f \subseteq {"access", "id", "refresh"} /\ \A c \in DOMAIN f : f[c] = n
      /\ "access" \in DOMAIN f
  BY DEF SetSomeCookies, SetTokenCookies, Cookie
<1>. QED  BY <1>1 DEF SetsSession, SetsTokens, TokenCookies

LEMMA SessionSet ==
    ASSUME NEW n, n \in DOMAIN grants', NEW user, user = grants'[n],
           NEW offline \in BOOLEAN, NEW f, f = Both(SetTokenCookies(n, offline), SetUserInfoCookie(user))
    PROVE  SetsSession(f)'
<1>0. PICK g : g = SetTokenCookies(n, offline)
  BY Zenon
<1>1. /\ DOMAIN g \subseteq {"access", "id", "refresh"} /\ {"access", "id"} \subseteq DOMAIN g
      /\ \A c \in DOMAIN g : g[c] = n
  BY <1>0 DEF SetTokenCookies
<1>2. f = [c \in DOMAIN g \cup {"info"} |-> IF c \in DOMAIN g THEN g[c] ELSE user]
  BY <1>0, Zenon DEF Both, SetUserInfoCookie, Cookie
<1>3. /\ DOMAIN f \subseteq TokenCookies
      /\ "id" \in DOMAIN f /\ "info" \in DOMAIN f /\ f["id"] = n /\ f["info"] = user
      /\ "access" \in DOMAIN f /\ f["access"] = n /\ "location" \notin DOMAIN f
      /\ "refresh" \in DOMAIN f => f["refresh"] = n
  BY <1>1, <1>2 DEF TokenCookies
<1>. QED  BY <1>3, Zenon DEF SetsSession, SetsTokens

\* What the tokens of a request say.
LEMMA RequestFacts ==
    ASSUME SessionInv, NEW t \in Tabs, NEW path, At(t, path)
    PROVE  /\ tab[t].pc = "sent" /\ tab[t].path = path /\ Sent(tab[t])
           /\ Tokens(tab[t].cookies)
BY Zenon DEF SessionInv, Right, Sent, At

-----------------------------------------------------------------------------
(* The handlers.                                                           *)

\* Nothing is granted.
LEMMA ServingIdle ==
    ASSUME SessionInv, UNCHANGED <<jar, grants, pages, halfway, overlapped>>
    PROVE  Answering
BY Zenon DEF SessionInv, SessionTypeOK, Answering, Grows

LEMMA ServingGrant ==
    ASSUME SessionInv, NEW user \in Users, Grant(user), UNCHANGED <<jar, pages, overlapped>>,
           halfway \subseteq halfway'
    PROVE  Answering /\ New \in DOMAIN grants' /\ grants'[New] = user
<1>1. SessionTypeOK
  BY Zenon DEF SessionInv
<1>2. /\ grants' \in Seq(Users)
      /\ \A n \in DOMAIN grants : n \in DOMAIN grants' /\ grants'[n] = grants[n]
      /\ New \in DOMAIN grants' /\ grants'[New] = user
  BY <1>1, Granting
<1>. QED  BY <1>2, Zenon DEF Answering, Grows

\* A login asks for the place its flow is to end at.
LEMMA LoginPlace ==
    ASSUME SessionInv, NEW t \in Tabs, At(t, "login")
    PROVE  Fits(tab[t].flow.asked, getAuthFlowEndRedirect(tab[t].cookies, tab[t].query))
BY RequestFacts, PathlessAssumption, Zenon DEF Sent, Tokens, getAuthFlowEndRedirect, Fits, HasPath

LEMMA Landed ==
    ASSUME SessionInv, Answering, NEW t \in Tabs, At(t, "login"), csrf' = csrf,
           NEW set, SetsSession(set)', Land(t, set, tab[t].query)
    PROVE  SessionInv'
<1>. PICK location : location = tab[t].query
  BY Zenon
<1>. PICK to : to = getAuthFlowEndRedirect(tab[t].cookies, location)
  BY Zenon
<1>1. Land(t, set, location) /\ Fits(tab[t].flow.asked, to)
  BY LoginPlace, Zenon
<1>2. tab[t].pc = "sent" /\ tab[t].path \in {"login", "callback"}
  BY RequestFacts, Zenon
<1>. QED  BY <1>1, <1>2, Landing, Zenon

LEMMA Refreshing ==
    ASSUME SessionInv, NEW t \in Tabs, RefreshTokensIfExists(t)
    PROVE  SessionInv'
<1>1. At(t, "login") /\ UNCHANGED <<jar, grants, pages, halfway, overlapped>>
  BY Zenon DEF RefreshTokensIfExists
<1>2. tab[t].pc = "sent" /\ tab[t].path = "login"
  BY <1>1, Zenon DEF At
<1>3. Answering
  BY <1>1, ServingIdle, Zenon
<1>. PICK set : set = NoCookies
  BY Zenon
<1>4. SetsSession(set)'
  BY NothingSet, Zenon DEF NoCookies
<1>5. \/ Land(t, set, tab[t].query) /\ csrf' = csrf
      \/ GetLoginHandler(t, set)
  BY Zenon DEF RefreshTokensIfExists
<1>. QED  BY <1>1, <1>2, <1>3, <1>4, <1>5, Landed, LoggingIn, Zenon

LEMMA Renewing ==
    ASSUME SessionInv, NEW t \in Tabs, GetRefreshedToken(t)
    PROVE  SessionInv'
<1>. PICK user : user = grants[tab[t].cookies["refresh"]]
  BY Zenon
<1>. PICK n : n = New
  BY Zenon
<1>1. /\ At(t, "login") /\ UNCHANGED <<jar, pages, overlapped>>
      /\ tab[t].cookies["refresh"] # None
  BY Zenon DEF GetRefreshedToken, Expired
<1>2. tab[t].pc = "sent" /\ tab[t].path = "login"
  BY <1>1, Zenon DEF At
<1>3. user \in Users
  <2>1. tab[t].cookies["refresh"] \in DOMAIN grants /\ grants \in Seq(Users)
    BY <1>1, RequestFacts, Zenon DEF Tokens, SessionInv, SessionTypeOK
  <2>. QED  BY <2>1
<1>4. CASE GetLoginHandler(t, NoCookies) /\ UNCHANGED <<grants, halfway>>
  <2>. PICK set : set = NoCookies
    BY Zenon
  <2>1. SetsSession(set)' /\ GetLoginHandler(t, set)
    BY <1>4, NothingSet, Zenon DEF NoCookies
  <2>. QED  BY <1>1, <1>2, <1>4, <2>1, ServingIdle, LoggingIn, Zenon
<1>5. CASE /\ Grant(user) /\ UNCHANGED <<csrf, halfway>>
           /\ \E offline \in BOOLEAN : Land(t, SetSession(n, offline), tab[t].query)
  <2>1. Answering /\ n \in DOMAIN grants' /\ grants'[n] = user
    BY <1>1, <1>3, <1>5, ServingGrant, Zenon
  <2>4. PICK offline \in BOOLEAN : Land(t, SetSession(n, offline), tab[t].query)
    BY <1>5, Zenon
  <2>5. PICK set : set = Both(SetTokenCookies(n, offline), SetUserInfoCookie(user))
    BY Zenon
  <2>2. SetsSession(set)'
    BY <2>1, <2>5, SessionSet, Zenon
  <2>3. Land(t, set, tab[t].query)
    BY <2>1, <2>4, <2>5, Zenon DEF SetSession, QueryUserInfoUsingAccessToken
  <2>. QED  BY <1>1, <1>5, <2>1, <2>2, <2>3, Landed, Zenon
<1>6. CASE /\ Grant(user) /\ halfway' = halfway \cup {n}
           /\ \E f \in SetSomeCookies(n) : GetLoginHandler(t, f)
  <2>1. Answering /\ n \in DOMAIN grants'
    BY <1>1, <1>3, <1>6, ServingGrant, Zenon
  <2>2. PICK set \in SetSomeCookies(n) : GetLoginHandler(t, set)
    BY <1>6, Zenon
  <2>3. SetsSession(set)'
    BY <1>6, <2>1, TokensSet, Zenon
  <2>. QED  BY <1>2, <2>1, <2>2, <2>3, LoggingIn, Zenon
<1>. QED  BY <1>4, <1>5, <1>6, Zenon DEF GetRefreshedToken

\* Who comes back with the CSRF token of the cookies finds the place they asked
\* for in them.
LEMMA CallbackPlace ==
    ASSUME SessionInv, NEW t \in Tabs, At(t, "callback"),
           VerifyCsrfCookie(tab[t].cookies, tab[t].query.state)
    PROVE  Fits(tab[t].flow.asked, getAuthFlowEndRedirect(tab[t].cookies, None))
<1>1. /\ Places(tab[t].cookies, tab[t]) /\ State(tab[t]) = tab[t].query.state
      /\ tab[t].cookies["location"] \notin Pathless
  BY RequestFacts, Zenon DEF Sent, State, Tokens
<1>2. HasPath(getAuthFlowEndRedirect(tab[t].cookies, None))
  BY <1>1, PathlessAssumption, Zenon DEF getAuthFlowEndRedirect, HasPath
<1>3. HasPath(tab[t].flow.asked) => getAuthFlowEndRedirect(tab[t].cookies, None) = tab[t].flow.asked
  BY <1>1, Zenon DEF Places, VerifyCsrfCookie, getAuthFlowEndRedirect, HasPath
<1>. QED  BY <1>2, <1>3, Zenon DEF Fits

\* A refusal ends a flow as it may.
LEMMA Refusing ==
    ASSUME SessionInv, Answering, NEW t \in Tabs, tab[t].pc = "sent", csrf' = csrf,
           NEW set, SetsSession(set)', Refuse(t, set)
    PROVE  SessionInv'
<1>. PICK flow : flow = tab[t].flow
  BY Zenon
<1>. PICK query : query = tab[t].path
  BY Zenon
<1>1. EndsWell(flow, "refused", query)'
  BY Zenon DEF EndsWell
<1>2. Reply(t, set, "refused", query)
  BY Zenon DEF Refuse
<1>. QED  BY <1>1, <1>2, Ending, Zenon DEF Ends

LEMMA ComingBack ==
    ASSUME SessionInv, NEW t \in Tabs, GetCallbackHandler(t)
    PROVE  SessionInv'
<1>. PICK user : user = tab[t].query.user
  BY Zenon
<1>. PICK n : n = New
  BY Zenon
<1>1. At(t, "callback") /\ UNCHANGED <<jar, csrf, pages, overlapped>>
  BY Zenon DEF GetCallbackHandler
<1>2. tab[t].pc = "sent" /\ tab[t].path = "callback" /\ user \in Users
  BY <1>1, RequestFacts, Zenon DEF Sent
<1>3. CASE Refuse(t, NoCookies) /\ UNCHANGED <<grants, halfway>>
  <2>. PICK set : set = NoCookies
    BY Zenon
  <2>1. SetsSession(set)' /\ Refuse(t, set)
    BY <1>3, NothingSet, Zenon DEF NoCookies
  <2>. QED  BY <1>1, <1>2, <1>3, <2>1, ServingIdle, Refusing, Zenon
<1>4. CASE /\ VerifyCsrfCookie(tab[t].cookies, tab[t].query.state) /\ Grant(user)
           /\ \E offline \in BOOLEAN : Land(t, SetSession(n, offline), None)
           /\ UNCHANGED halfway
  <2>1. Answering /\ n \in DOMAIN grants' /\ grants'[n] = user
    BY <1>1, <1>2, <1>4, ServingGrant, Zenon
  <2>5. PICK offline \in BOOLEAN : Land(t, SetSession(n, offline), None)
    BY <1>4, Zenon
  <2>6. PICK set : set = Both(SetTokenCookies(n, offline), SetUserInfoCookie(user))
    BY Zenon
  <2>2. SetsSession(set)'
    BY <2>1, <2>6, SessionSet, Zenon
  <2>3. Land(t, set, None)
    BY <2>1, <2>5, <2>6, Zenon DEF SetSession, QueryUserInfoUsingAccessToken
  <2>. PICK to : to = getAuthFlowEndRedirect(tab[t].cookies, None)
    BY Zenon
  <2>4. Fits(tab[t].flow.asked, to)
    BY <1>1, <1>4, CallbackPlace, Zenon
  <2>. QED  BY <1>1, <1>2, <2>1, <2>2, <2>3, <2>4, Landing, Zenon
<1>5. CASE /\ Grant(user) /\ halfway' = halfway \cup {n}
           /\ \E f \in SetSomeCookies(n) : Refuse(t, f)
  <2>1. Answering /\ n \in DOMAIN grants'
    BY <1>1, <1>2, <1>5, ServingGrant, Zenon
  <2>2. PICK set \in SetSomeCookies(n) : Refuse(t, set)
    BY <1>5, Zenon
  <2>3. SetsSession(set)'
    BY <1>5, <2>1, TokensSet, Zenon
  <2>. QED  BY <1>1, <1>2, <2>1, <2>2, <2>3, Refusing, Zenon
<1>. QED  BY <1>3, <1>4, <1>5, Zenon DEF GetCallbackHandler

LEMMA LoggingOut ==
    ASSUME SessionInv, NEW t \in Tabs, GetLogoutEndpointHandler(t)
    PROVE  SessionInv'
<1>1. /\ At(t, "logout") /\ Reply(t, DeleteCookies, "loggedOut", None)
      /\ UNCHANGED <<jar, grants, csrf, pages, halfway, overlapped>>
  BY Zenon DEF GetLogoutEndpointHandler
<1>. PICK set : set = DeleteCookies
  BY Zenon
<1>. PICK flow : flow = tab[t].flow
  BY Zenon
<1>2. SetsSession(set)'
  BY DeletedSet, Zenon DEF DeleteCookies
<1>3. EndsWell(flow, "loggedOut", None)'
  BY Zenon DEF EndsWell
<1>4. tab[t].pc = "sent" /\ Answering
  BY <1>1, ServingIdle, Zenon DEF At
<1>. QED  BY <1>1, <1>2, <1>3, <1>4, Ending, Zenon DEF Ends

\* Cookies that belong together make one identity.
LEMMA OneIdentity ==
    ASSUME SessionInv, NEW t \in Tabs, tab[t].pc = "sent",
           NEW i, i # None,
           \/ i = GRPCGetIdentityFromIDToken(GetHTTPRequestCookieToMetadataHandler(tab[t].cookies))
           \/ i = IdentityContextFromRequest(tab[t].cookies)
    PROVE  /\ GoodIdentity(i) /\ i.user = grants[tab[t].cookies["id"]]
           /\ i = [user |-> i.user, subject |-> i.subject, tokens |-> {tab[t].cookies["id"]}]
           /\ Tokens(tab[t].cookies) /\ tab[t].cookies["access"] # None
<1>. PICK k : k = tab[t].cookies
  BY Zenon
<1>. PICK user : user = grants[k["id"]]
  BY Zenon
<1>1. RetrieveTokenValues(k) /\ i = NewIdentityContext(k["id"], k["info"])
  <2>1. CASE i = IdentityContextFromRequest(k)
    BY <2>1, Zenon DEF IdentityContextFromRequest, IdentityContextFromIDTokenToken, RetrieveUserInfo,
       retrieveSecureCookie
  <2>2. CASE i = GRPCGetIdentityFromIDToken(GetHTTPRequestCookieToMetadataHandler(k))
    <3>1. RetrieveTokenValues(k)
      BY <2>2, Zenon DEF GRPCGetIdentityFromIDToken, GetHTTPRequestCookieToMetadataHandler
    <3>. PICK meta : meta = [id |-> k["id"], info |-> RetrieveUserInfo(k)]
      BY Zenon
    <3>2. GetHTTPRequestCookieToMetadataHandler(k) = meta
      BY <3>1, Zenon DEF GetHTTPRequestCookieToMetadataHandler
    <3>3. i = IdentityContextFromIDTokenToken(meta.id, meta.info)
      BY <2>2, <3>2, Zenon DEF GRPCGetIdentityFromIDToken
    <3>4. meta.id = k["id"] /\ meta.info = k["info"]
      BY Zenon DEF RetrieveUserInfo, retrieveSecureCookie
    <3>. QED  BY <3>1, <3>3, <3>4, Zenon DEF IdentityContextFromIDTokenToken
  <2>. QED  BY <2>1, <2>2, Zenon
<1>2. k["id"] # None /\ Tokens(k) /\ grants \in Seq(Users)
  BY <1>1, Zenon DEF RetrieveTokenValues, retrieveSecureCookie, SessionInv, Right, Sent, SessionTypeOK
<1>3. k["id"] \notin halfway => k["info"] = user
  BY <1>2, Zenon DEF Tokens
<1>4. /\ i.user = user /\ i.tokens = {k["id"]} /\ i.subject \in {user, k["info"]}
      /\ i = [user |-> i.user, subject |-> i.subject, tokens |-> i.tokens]
  BY <1>1 DEF NewIdentityContext
<1>5. GoodIdentity(i)
  BY <1>3, <1>4 DEF GoodIdentity
<1>6. k["access"] # None
  BY <1>1, Zenon DEF RetrieveTokenValues, retrieveSecureCookie
<1>. QED  BY <1>2, <1>4, <1>5, <1>6, Zenon

LEMMA Calling ==
    ASSUME SessionInv, NEW t \in Tabs, GetAuthenticationInterceptor(t)
    PROVE  SessionInv'
<1>. PICK i : i = GRPCGetIdentityFromIDToken(GetHTTPRequestCookieToMetadataHandler(tab[t].cookies))
  BY Zenon
<1>1. /\ tab[t].pc = "sent"
      /\ UNCHANGED <<jar, grants, csrf, pages, halfway, overlapped>>
      /\ \/ i # None /\ Reply(t, NoCookies, "served", i)
         \/ Refuse(t, NoCookies)
  BY Zenon DEF GetAuthenticationInterceptor, At
<1>2. Answering
  BY <1>1, ServingIdle, Zenon
<1>. PICK set : set = NoCookies
  BY Zenon
<1>3. SetsSession(set)'
  BY NothingSet, Zenon DEF NoCookies
<1>4. CASE i # None /\ Reply(t, NoCookies, "served", i)
  <2>. PICK flow : flow = tab[t].flow
    BY Zenon
  <2>1. GoodIdentity(i)
    BY <1>1, <1>4, OneIdentity, Zenon
  <2>2. EndsWell(flow, "served", i)'
    BY <1>1, <2>1, Zenon DEF EndsWell, GoodIdentity
  <2>. QED  BY <1>1, <1>2, <1>3, <1>4, <2>2, Ending, Zenon DEF Ends
<1>. QED  BY <1>1, <1>2, <1>3, <1>4, Refusing, Zenon

\* The cookie of the request is set, and the user sent to /login.
LEMMA Asking ==
    ASSUME SessionInv, NEW t \in Tabs, authEndpoint(t)
    PROVE  SessionInv'
<1>. PICK flow : flow = tab[t].flow
  BY Zenon
<1>. PICK set : set = Cookie("request", tab[t].query)
  BY Zenon
<1>. PICK q : q = Answer(flow, set, "login", AuthorizeCallback)
  BY Zenon
<1>1. /\ At(t, "authorize") /\ tab' = [tab EXCEPT ![t] = q]
      /\ UNCHANGED <<jar, grants, csrf, pages, halfway, overlapped>>
  BY Zenon DEF authEndpoint, Reply, Answer, SetAuthCodeCookie
<1>2. /\ q.pc = "answered" /\ q.set = set /\ q.path = "login" /\ q.query = AuthorizeCallback
      /\ q.flow = flow
  BY Zenon DEF Answer
<1>3. tab[t].pc = "sent" /\ Answering
  BY <1>1, ServingIdle, Zenon DEF At
<1>4. flow.asked = AuthorizeCallback /\ tab[t].query = flow.client /\ flow.client # None
  BY <1>1, RequestFacts, Zenon DEF Sent
<1>5. DOMAIN set = {"request"} /\ set["request"] = flow.client
  BY <1>4 DEF Cookie
<1>6. Answered(q)'
  <2>1. EndsWell(q.flow, q.path, q.query)'
    BY <1>2, Zenon DEF EndsWell
  <2>2. SetsTokens(q.set)'
    <3>1. DOMAIN q.set = {"request"}
      BY <1>2, <1>5, Zenon
    <3>2. /\ "id" \notin DOMAIN q.set /\ "refresh" \notin DOMAIN q.set /\ "info" \notin DOMAIN q.set
          /\ "access" \notin DOMAIN q.set /\ "location" \notin DOMAIN q.set
      BY <3>1, Zenon
    <3>. QED  BY <3>2, Zenon DEF SetsTokens
  <2>3. DOMAIN q.set \subseteq Cookies /\ "csrf" \notin DOMAIN q.set /\ "location" \notin DOMAIN q.set
    <3>1. DOMAIN q.set = {"request"}
      BY <1>2, <1>5, Zenon
    <3>. QED  BY <3>1 DEF Cookies
  <2>4. "login" \notin {"idp", AuthorizeCallback}
    BY DEF AuthorizeCallback
  <2>. QED  BY <1>2, <1>4, <1>5, <2>1, <2>2, <2>3, <2>4, Zenon DEF Answered
<1>7. Replies(t, q)
  BY <1>1, <1>2, <1>3, Zenon DEF Replies, Answering
<1>. QED  BY <1>3, <1>6, <1>7, Replying, Zenon DEF Answering

\* The access token that user information is asked for with is of the same grant.
LEMMA OneOwner ==
    ASSUME SessionInv, NEW t \in Tabs, tab[t].pc = "sent", UNCHANGED grants,
           NEW i, i # None, i = IdentityContextFromRequest(tab[t].cookies),
           NEW owner \in QueryUserInfo(i, tab[t].cookies)
    PROVE  GoodIdentity(owner)
<1>. PICK k : k = tab[t].cookies
  BY Zenon
<1>1. /\ GoodIdentity(i) /\ i.user = grants[k["id"]]
      /\ i = [user |-> i.user, subject |-> i.subject, tokens |-> {k["id"]}]
      /\ Tokens(k) /\ k["access"] # None
  BY OneIdentity, Zenon
<1>2. CASE owner = [i EXCEPT !.subject = grants'[k["access"]], !.tokens = @ \cup {k["access"]}]
  <2>1. /\ owner.user = i.user /\ owner.subject = grants[k["access"]]
        /\ owner.tokens = {k["id"], k["access"]}
    BY <1>1, <1>2
  <2>2. k["access"] \notin halfway => k["access"] = k["id"]
    BY <1>1, Zenon DEF Tokens
  <2>. QED  BY <1>1, <2>1, <2>2 DEF GoodIdentity
<1>. QED  BY <1>1, <1>2, Zenon DEF QueryUserInfo, QueryUserInfoUsingAccessToken

LEMMA Coding ==
    ASSUME SessionInv, NEW t \in Tabs, authCallbackEndpoint(t)
    PROVE  SessionInv'
<1>. PICK i : i = IdentityContextFromRequest(tab[t].cookies)
  BY Zenon
<1>. PICK client : client = tab[t].cookies["request"]
  BY Zenon
<1>1. /\ At(t, AuthorizeCallback)
      /\ UNCHANGED <<jar, grants, csrf, pages, halfway, overlapped>>
      /\ \/ /\ i # None
            /\ \E owner \in QueryUserInfo(i, tab[t].cookies) :
                  Reply(t, NoCookies, "code", [identity |-> owner, client |-> client])
         \/ Refuse(t, NoCookies)
  BY Zenon DEF authCallbackEndpoint, retrieveSecureCookie
<1>2. Answering /\ tab[t].pc = "sent"
  BY <1>1, ServingIdle, Zenon DEF At
<1>. PICK set : set = NoCookies
  BY Zenon
<1>3. SetsSession(set)'
  BY NothingSet, Zenon DEF NoCookies
<1>4. ASSUME i # None, NEW owner \in QueryUserInfo(i, tab[t].cookies),
             Reply(t, NoCookies, "code", [identity |-> owner, client |-> client])
      PROVE  SessionInv'
  <2>. PICK flow : flow = tab[t].flow
    BY Zenon
  <2>. PICK code : code = [identity |-> owner, client |-> client]
    BY Zenon
  <2>1. GoodIdentity(owner)
    BY <1>1, <1>2, <1>4, OneOwner, Zenon
  <2>2. /\ HasPath(flow.asked) => flow.asked = AuthorizeCallback
        /\ ~overlapped' => flow.client \in {None, client}
    BY <1>1, RequestFacts, Zenon DEF Sent, Requests
  <2>3. code.identity = owner /\ code.client = client
    BY Zenon
  <2>4. EndsWell(flow, "code", code)'
    BY <1>1, <2>1, <2>2, <2>3, Zenon DEF EndsWell, GoodIdentity, HasPath
  <2>. QED  BY <1>1, <1>2, <1>3, <1>4, <2>4, Ending, Zenon DEF Ends
<1>. QED  BY <1>1, <1>2, <1>3, <1>4, Refusing, Zenon

-----------------------------------------------------------------------------
(* The browser.                                                            *)

\* Tab t goes to q.
Goes(t, q) ==
    /\ tab' = [tab EXCEPT ![t] = q]
    /\ UNCHANGED <<grants, csrf, halfway>> /\ pages' \subseteq pages
    /\ ~overlapped' => ~overlapped

LEMMA GoesFacts ==
    ASSUME SessionInv, NEW t \in Tabs, NEW q, Goes(t, q), jar' = [c \in Cookies |-> jar'[c]]
    PROVE  /\ SessionTypeOK' /\ Grows
           /\ tab'[t] = q /\ \A u \in Tabs : u # t => tab'[u] = tab[u]
<1>1. tab' = [u \in Tabs |-> tab'[u]]
  BY Zenon DEF SessionInv, SessionTypeOK, Goes
<1>2. tab'[t] = q /\ \A u \in Tabs : u # t => tab'[u] = tab[u]
  BY Zenon DEF SessionInv, SessionTypeOK, Goes
<1>3. Grows
  BY Zenon DEF Grows, Goes
<1>. QED  BY <1>1, <1>2, <1>3, Zenon DEF SessionInv, SessionTypeOK, Goes

\* It comes back with the state it had, if with any.
LEMMA StaysFresh ==
    ASSUME SessionInv, NEW t \in Tabs, NEW q, Goes(t, q), jar' = [c \in Cookies |-> jar'[c]],
           Pending(q) => Pending(tab[t]) /\ State(q) = State(tab[t])
    PROVE  Fresh'
<1>1. tab'[t] = q /\ \A u \in Tabs : u # t => tab'[u] = tab[u]
  BY GoesFacts, Zenon
<1>2. \A u \in Tabs : Pending(tab[u])' => Pending(tab[u]) /\ State(tab[u])' = State(tab[u])
  BY <1>1, Zenon DEF Pending, State
<1>3. csrf' = csrf
  BY Zenon DEF Goes
<1>. QED  BY <1>2, <1>3, Zenon DEF SessionInv, Fresh, HashCsrfState

\* It goes there without a change of the cookies.
LEMMA Going ==
    ASSUME SessionInv, NEW t \in Tabs, NEW q, Goes(t, q), UNCHANGED jar, Right(q)', Exclusive',
           Pending(q) => Pending(tab[t]) /\ State(q) = State(tab[t])
    PROVE  SessionInv'
<1>1. jar' = [c \in Cookies |-> jar'[c]]
  BY Zenon DEF SessionInv, SessionTypeOK
<1>2. /\ SessionTypeOK' /\ Grows
      /\ tab'[t] = q /\ \A u \in Tabs : u # t => tab'[u] = tab[u]
  BY <1>1, GoesFacts, Zenon
<1>3. Fresh'
  BY <1>1, StaysFresh, Zenon
<1>4. Tokens(jar)'
  <2>. PICK k : k = jar
    BY Zenon
  <2>. QED  BY <1>2, TokensStay, Zenon DEF SessionInv
<1>5. ASSUME NEW u \in Tabs, u # t PROVE Right(tab[u])'
  <2>. PICK p : p = tab[u]
    BY Zenon
  <2>1. Right(p)'
    BY <1>2, RightStays, Zenon DEF SessionInv
  <2>. QED  BY <1>2, <1>5, <2>1, Zenon
<1>. QED  BY <1>2, <1>3, <1>4, <1>5, Zenon DEF SessionInv

\* What users open.
LEMMA PageFacts ==
    ASSUME SessionInv, NEW page \in pages
    PROVE  /\ page.path \in {"login", "authorize", "api", "logout"}
           /\ page.path = "login" => page.query = page.flow.asked
           /\ page.path = "authorize" =>
                 page.flow.asked = AuthorizeCallback /\ page.query = page.flow.client
                 /\ page.flow.client # None
           /\ page.path # "authorize" => page.flow.client = None
<1>1. \/ page = Login(page.query) \/ page \in {Api, Logout}
      \/ page = Authorize(page.query) /\ page.query # None
  BY PlansAssumption, Zenon DEF SessionInv, SessionTypeOK
<1>2. CASE page = Login(page.query)
  BY <1>2 DEF Login, Page, Flow
<1>3. CASE page \in {Api, Logout}
  BY <1>3 DEF Api, Logout, Page, Flow
<1>4. CASE page = Authorize(page.query) /\ page.query # None
  BY <1>4 DEF Authorize, Page, Flow
<1>. QED  BY <1>1, <1>2, <1>3, <1>4, Zenon

LEMMA Opening ==
    ASSUME SessionInv, NEW t \in Tabs, NEW page \in pages, Open(t, page)
    PROVE  SessionInv'
<1>. PICK k : k = jar
  BY Zenon
<1>. PICK q : q = Send(page.path, page.query, page.flow, k)
  BY Zenon
<1>1. /\ q.pc = "sent" /\ q.path = page.path /\ q.query = page.query /\ q.flow = page.flow
      /\ q.cookies = k
  BY Zenon DEF Send
<1>2. /\ tab' = [tab EXCEPT ![t] = q] /\ UNCHANGED <<jar, grants, csrf, halfway>>
      /\ pages' = pages \ {page}
      /\ overlapped' = (overlapped \/ (page.flow.client # None /\ \E u \in Tabs \ {t} : Authorizing(u)))
  BY Zenon DEF Open
<1>3. Goes(t, q)
  <2>1. pages' \subseteq pages
    BY <1>2, Zenon
  <2>2. ~overlapped' => ~overlapped
    BY <1>2, Zenon
  <2>. QED  BY <1>2, <2>1, <2>2, Zenon DEF Goes
<1>4. Sent(q)'
  <2>1. Tokens(k)'
    BY <1>2, Zenon DEF SessionInv, Tokens
  <2>2. page.path \in Paths /\ page.path \notin {"callback", AuthorizeCallback}
    BY PageFacts DEF Paths, AuthorizeCallback
  <2>3. page.path = "login" => page.flow.client = None
    BY PageFacts
  <2>. QED  BY <1>1, <2>1, <2>2, <2>3, PageFacts, Zenon DEF Sent, Requests
<1>5. Right(q)' /\ ~Pending(q)
  <2>1. page.path # "callback"
    BY PageFacts, Zenon
  <2>. QED  BY <1>1, <1>4, <2>1, Zenon DEF Right, Pending, Ends
<1>6. Exclusive'
  <2>1. /\ tab'[t] = q /\ \A u \in Tabs : u # t => tab'[u] = tab[u]
    BY <1>2, Zenon DEF SessionInv, SessionTypeOK
  <2>2. \A u \in Tabs : u # t => (Authorizing(u)' <=> Authorizing(u))
    BY <2>1, Zenon DEF Authorizing
  <2>3. Authorizing(t)' => page.flow.client # None
    BY <1>1, <2>1, Zenon DEF Authorizing
  <2>4. ~overlapped' => ~overlapped /\ (page.flow.client = None \/ \A u \in Tabs \ {t} : ~Authorizing(u))
    BY <1>2, Zenon
  <2>. QED  BY <2>2, <2>3, <2>4, Zenon DEF SessionInv, Exclusive
<1>. QED  BY <1>2, <1>3, <1>5, <1>6, Going, Zenon

LEMMA SigningIn ==
    ASSUME SessionInv, NEW t \in Tabs, NEW user \in Users, SignIn(t, user)
    PROVE  SessionInv'
<1>. PICK k : k = jar
  BY Zenon
<1>. PICK p : p = tab[t]
  BY Zenon
<1>. PICK query : query = [state |-> p.state, user |-> user]
  BY Zenon
<1>. PICK q : q = Send("callback", query, p.flow, k)
  BY Zenon
<1>1. /\ q.pc = "sent" /\ q.path = "callback" /\ q.query = query /\ q.flow = p.flow
      /\ q.cookies = k
  BY Zenon DEF Send
<1>2. query.state = p.state /\ query.user = user
  BY Zenon
<1>3. /\ p.pc = "idp" /\ tab' = [tab EXCEPT ![t] = q]
      /\ UNCHANGED <<jar, grants, csrf, pages, halfway, overlapped>>
  BY Zenon DEF SignIn
<1>4. Goes(t, q)
  BY <1>3, Zenon DEF Goes
<1>5. State(q) = State(p) /\ Pending(p)
  BY <1>1, <1>2, <1>3, Zenon DEF State, Pending
<1>6. Sent(q)'
  <2>1. Tokens(k)'
    BY <1>3, Zenon DEF SessionInv, Tokens
  <2>2. Away(p)
    BY <1>3, Zenon DEF SessionInv, Right
  <2>3. Places(k, q)' /\ Requests(k, q)' /\ Requests(jar, q)'
    <3>1. Places(k, q) /\ Requests(k, q)
      BY <1>1, <1>5, <2>2, Zenon DEF Away, Places, Requests
    <3>2. Places(k, q)'
      BY <3>1, Zenon DEF Places, State, HashCsrfState, HasPath
    <3>. QED  BY <1>3, <3>1, <3>2, Zenon DEF Requests
  <2>4. "callback" \in Paths /\ "callback" \notin {"login", "authorize", AuthorizeCallback}
    BY DEF Paths, AuthorizeCallback
  <2>. QED  BY <1>1, <1>2, <2>1, <2>3, <2>4, Zenon DEF Sent
<1>7. Right(q)'
  BY <1>1, <1>6, Zenon DEF Right, Ends
<1>8. Exclusive'
  <2>1. tab'[t] = q /\ \A u \in Tabs : u # t => tab'[u] = tab[u]
    BY <1>3, Zenon DEF SessionInv, SessionTypeOK
  <2>2. Authorizing(t)' => Authorizing(t)
    BY <1>1, <1>3, <2>1, Zenon DEF Authorizing
  <2>3. \A u \in Tabs : u # t /\ Authorizing(u)' => Authorizing(u)
    BY <2>1, Zenon DEF Authorizing
  <2>. QED  BY <1>3, <2>2, <2>3, Zenon DEF SessionInv, Exclusive
<1>. QED  BY <1>3, <1>4, <1>5, <1>7, <1>8, Going, Zenon

\* The answer p of tab t sets its cookies.
Arrives(t, p) == p = tab[t] /\ p.pc = "answered" /\ jar' = Both(p.set, jar)

LEMMA ArrivesFacts ==
    ASSUME SessionInv, NEW t \in Tabs, NEW p, Arrives(t, p)
    PROVE  /\ Answered(p) /\ jar' = [c \in Cookies |-> jar'[c]]
           /\ \A c \in DOMAIN p.set : jar'[c] = p.set[c]
           /\ \A c \in Cookies : c \notin DOMAIN p.set => jar'[c] = jar[c]
<1>1. Answered(p) /\ DOMAIN jar = Cookies
  BY Zenon DEF SessionInv, Right, SessionTypeOK, Arrives
<1>2. DOMAIN p.set \cup DOMAIN jar = Cookies
  BY <1>1, Zenon DEF Answered
<1>. PICK f, g, k : f = p.set /\ g = jar /\ k = Both(f, g)
  BY Zenon
<1>3. /\ k = [c \in DOMAIN f \cup DOMAIN g |-> k[c]]
      /\ \A c \in DOMAIN f : k[c] = f[c]
      /\ \A c \in DOMAIN g : c \notin DOMAIN f => k[c] = g[c]
  BY DEF Both
<1>4. jar' = k
  BY Zenon DEF Arrives
<1>. QED  BY <1>1, <1>2, <1>3, <1>4, Zenon

LEMMA JarRight ==
    ASSUME SessionInv, NEW t \in Tabs, NEW p, Arrives(t, p), UNCHANGED <<grants, halfway>>
    PROVE  Tokens(jar)'
<1>1. SetsTokens(p.set) /\ Tokens(jar)
  BY ArrivesFacts, Zenon DEF Answered, SessionInv
<1>2. \A c \in {"id", "refresh", "info", "access", "location"} :
         /\ c \in DOMAIN p.set => jar'[c] = p.set[c]
         /\ c \notin DOMAIN p.set => jar'[c] = jar[c]
  BY ArrivesFacts DEF Cookies
<1>3. /\ jar'["id"] # None => jar'["id"] \in DOMAIN grants
      /\ jar'["refresh"] # None => jar'["refresh"] \in DOMAIN grants
  BY <1>1, <1>2, Zenon DEF Tokens, SetsTokens
<1>4. jar'["id"] # None /\ jar'["id"] \notin halfway => jar'["info"] = grants[jar'["id"]]
  BY <1>1, <1>2, Zenon DEF Tokens, SetsTokens
<1>5. jar'["access"] # None /\ jar'["access"] \notin halfway => jar'["access"] = jar'["id"]
  BY <1>1, <1>2, Zenon DEF Tokens, SetsTokens
<1>6. jar'["location"] \notin Pathless
  BY <1>1, <1>2, Zenon DEF Tokens, SetsTokens
<1>. QED  BY <1>3, <1>4, <1>5, <1>6, Zenon DEF Tokens

\* The other tabs have another CSRF token, and are of no other client.
LEMMA OthersStay ==
    ASSUME SessionInv, NEW t \in Tabs, NEW p, Arrives(t, p), Grows, UNCHANGED overlapped,
           NEW u \in Tabs, u # t, NEW o, o = tab[u]
    PROVE  Right(o)'
<1>1. Answered(p) /\ Right(o)
  BY ArrivesFacts, Zenon DEF SessionInv
<1>2. /\ \A c \in DOMAIN p.set : jar'[c] = p.set[c]
      /\ \A c \in {"csrf", "location", "request"} : c \notin DOMAIN p.set => jar'[c] = jar[c]
  BY ArrivesFacts DEF Cookies
<1>3. o.pc = "idp" /\ Places(jar, o) => Places(jar, o)'
  <2>1. CASE p.path = "idp"
    <3>1. Pending(tab[t]) /\ State(tab[t]) = p.query
      BY <2>1, Zenon DEF Arrives, Pending, State
    <3>2. HashCsrfState(jar'["csrf"]) = p.query
      BY <1>1, <1>2, <2>1, Zenon DEF Answered
    <3>3. o.pc = "idp" => State(o) # p.query
      BY <3>1, Zenon DEF SessionInv, Fresh, Pending
    <3>. QED  BY <3>2, <3>3, Zenon DEF Places, State, HashCsrfState, HasPath
  <2>2. CASE p.path # "idp"
    <3>1. jar'["csrf"] = jar["csrf"] /\ jar'["location"] = jar["location"]
      BY <1>1, <1>2, <2>2, Zenon DEF Answered
    <3>. QED  BY <3>1, Zenon DEF Places, State, HashCsrfState, HasPath
  <2>. QED  BY <2>1, <2>2, Zenon
<1>4. o.pc \in {"sent", "answered", "idp"} /\ Requests(jar, o) => Requests(jar, o)'
  <2>1. CASE "request" \in DOMAIN p.set
    <3>1. Authorizing(t)
      BY <1>1, <2>1, Zenon DEF Answered, Authorizing, Arrives
    <3>2. o.pc \in {"sent", "answered", "idp"} /\ o.flow.client # None => Authorizing(u)
      BY Zenon DEF Authorizing
    <3>. QED  BY <3>1, <3>2, Zenon DEF SessionInv, Exclusive, Requests
  <2>2. CASE "request" \notin DOMAIN p.set
    BY <1>2, <2>2, Zenon DEF Requests
  <2>. QED  BY <2>1, <2>2, Zenon
<1>5. \A k : Places(k, o) => Places(k, o)'
  BY Zenon DEF Places, State, HashCsrfState, HasPath
<1>6. \A k : Requests(k, o) => Requests(k, o)'
  BY Zenon DEF Requests, Grows
<1>7. o.pc = "sent" /\ Sent(o) => Sent(o)'
  BY <1>4, <1>5, <1>6, TokensStay, Zenon DEF Sent, HasPath
<1>8. o.pc = "answered" /\ Answered(o) => Answered(o)'
  BY <1>4, SetsStay, EndsStay, Zenon DEF Answered, HashCsrfState, HasPath
<1>9. o.pc = "idp" /\ Away(o) => Away(o)'
  BY <1>3, <1>4, Zenon DEF Away
<1>10. o.pc \in Ends /\ EndsWell(o.flow, o.pc, o.result) => EndsWell(o.flow, o.pc, o.result)'
  BY EndsStay, Zenon
<1>. QED  BY <1>1, <1>7, <1>8, <1>9, <1>10, Zenon DEF Right

LEMMA Delivering ==
    ASSUME SessionInv, NEW t \in Tabs, Deliver(t)
    PROVE  SessionInv'
<1>. PICK p : p = tab[t]
  BY Zenon
<1>. PICK k : k = Both(p.set, jar)
  BY Zenon
<1>0. PICK q : q = IF p.path = "idp"
                   THEN [pc |-> "idp", state |-> p.query, flow |-> p.flow]
                   ELSE IF p.path \in {"login", AuthorizeCallback}
                   THEN Send(p.path, p.query, p.flow, k)
                   ELSE [pc |-> p.path, result |-> p.query, flow |-> p.flow]
  BY Zenon
<1>1. /\ p.pc = "answered" /\ jar' = k /\ tab' = [tab EXCEPT ![t] = q]
      /\ UNCHANGED <<grants, csrf, pages, halfway, overlapped>>
  BY <1>0, Zenon DEF Deliver
<1>2. Arrives(t, p) /\ Goes(t, q)
  BY <1>1, Zenon DEF Arrives, Goes
<1>3. /\ Answered(p) /\ jar' = [c \in Cookies |-> jar'[c]]
      /\ \A c \in DOMAIN p.set : jar'[c] = p.set[c]
      /\ "request" \notin DOMAIN p.set => jar'["request"] = jar["request"]
  BY <1>2, ArrivesFacts DEF Cookies
<1>4. /\ SessionTypeOK' /\ Grows
      /\ tab'[t] = q /\ \A u \in Tabs : u # t => tab'[u] = tab[u]
  BY <1>2, <1>3, GoesFacts, Zenon
<1>5. Tokens(jar)'
  BY <1>1, <1>2, JarRight, Zenon
<1>6. q.flow = p.flow /\ Right(q)' /\ (Pending(q) => Pending(p) /\ State(q) = State(p))
  <2>1. CASE p.path = "idp"
    <3>1. q.pc = "idp" /\ q.state = p.query /\ q.flow = p.flow
      BY <1>0, <2>1, Zenon
    <3>2. Places(jar, q)'
      BY <1>3, <2>1, <3>1, Zenon DEF Answered, Places, HasPath
    <3>3. Requests(jar, q)'
      <4>1. "request" \notin DOMAIN p.set /\ Requests(jar, p)
        BY <1>3, <2>1, Zenon DEF Answered
      <4>. QED  BY <1>1, <1>3, <3>1, <4>1, Zenon DEF Requests
    <3>4. Right(q)'
      BY <3>1, <3>2, <3>3, Zenon DEF Right, Away, Ends
    <3>5. Pending(q) => Pending(p) /\ State(q) = State(p)
      BY <1>1, <2>1, <3>1, Zenon DEF Pending, State
    <3>. QED  BY <3>1, <3>4, <3>5, Zenon
  <2>2. CASE p.path \in {"login", AuthorizeCallback}
    <3>1. p.path \notin {"idp", "authorize", "callback"} /\ p.path \in Paths
      BY <2>2, Zenon DEF AuthorizeCallback, Paths
    <3>2. q.pc = "sent" /\ q.path = p.path /\ q.query = p.query /\ q.flow = p.flow /\ q.cookies = k
      BY <1>0, <2>2, <3>1, Zenon DEF Send
    <3>3. Requests(jar, q)'
      <4>1. CASE "request" \in DOMAIN p.set
        BY <1>3, <3>2, <4>1, Zenon DEF Answered, Requests
      <4>2. CASE "request" \notin DOMAIN p.set
        <5>1. Requests(jar, p)
          BY <1>3, <2>2, <4>2, Zenon DEF Answered
        <5>. QED  BY <1>1, <1>3, <3>2, <4>2, <5>1, Zenon DEF Requests
      <4>. QED  BY <4>1, <4>2, Zenon
    <3>4. Requests(k, q)' /\ Tokens(k)'
      BY <1>1, <1>5, <3>3, Zenon DEF Requests, Tokens
    <3>5. Sent(q)'
      BY <1>3, <3>1, <3>2, <3>3, <3>4, Zenon DEF Answered, Sent, HasPath
    <3>6. Right(q)' /\ ~Pending(q)
      BY <3>1, <3>2, <3>5, Zenon DEF Right, Ends, Pending
    <3>. QED  BY <3>2, <3>6, Zenon
  <2>3. CASE p.path \notin {"idp", "login", AuthorizeCallback}
    <3>1. q.pc = p.path /\ q.result = p.query /\ q.flow = p.flow
      BY <1>0, <2>3, Zenon
    <3>2. p.path \in Ends /\ EndsWell(p.flow, p.path, p.query)
      BY <1>3, <2>3, Zenon DEF Answered
    <3>3. EndsWell(q.flow, q.pc, q.result)'
      BY <1>4, <3>1, <3>2, EndsStay, Zenon
    <3>4. Right(q)' /\ ~Pending(q)
      BY <3>1, <3>2, <3>3, Zenon DEF Right, Ends, Pending
    <3>. QED  BY <3>1, <3>4, Zenon
  <2>. QED  BY <2>1, <2>2, <2>3, Zenon
<1>7. Fresh'
  BY <1>2, <1>3, <1>6, StaysFresh, Zenon
<1>8. Exclusive'
  <2>1. Authorizing(t)' => Authorizing(t)
    BY <1>1, <1>4, <1>6, Zenon DEF Authorizing
  <2>2. \A u \in Tabs : u # t /\ Authorizing(u)' => Authorizing(u)
    BY <1>4, Zenon DEF Authorizing
  <2>. QED  BY <1>1, <2>1, <2>2, Zenon DEF SessionInv, Exclusive
<1>9. ASSUME NEW u \in Tabs, u # t PROVE Right(tab[u])'
  <2>. PICK o : o = tab[u]
    BY Zenon
  <2>1. Right(o)'
    BY <1>1, <1>2, <1>4, <1>9, OthersStay, Zenon
  <2>. QED  BY <1>4, <1>9, <2>1, Zenon
<1>. QED  BY <1>4, <1>5, <1>6, <1>7, <1>8, <1>9, Zenon DEF SessionInv

-----------------------------------------------------------------------------
(* The invariant.                                                          *)

\* Tokens expire, or nothing happens.
LEMMA Staying ==
    ASSUME SessionInv, UNCHANGED <<jar, tab, grants, csrf, pages, halfway, overlapped>>
    PROVE  SessionInv'
<1>1. SessionTypeOK' /\ Tokens(jar)'
  BY Zenon DEF SessionInv, SessionTypeOK, Tokens
<1>2. Fresh'
  <2>1. \A t \in Tabs : Pending(tab[t])' = Pending(tab[t]) /\ State(tab[t])' = State(tab[t])
    BY Zenon DEF Pending, State
  <2>. QED  BY <2>1, Zenon DEF SessionInv, Fresh, HashCsrfState
<1>3. Exclusive'
  BY Zenon DEF SessionInv, Exclusive, Authorizing
<1>4. ASSUME NEW t \in Tabs PROVE Right(tab[t])'
  <2>. PICK p : p = tab[t]
    BY Zenon
  <2>1. Grows
    BY Zenon DEF Grows
  <2>2. Right(p)'
    BY <2>1, RightStays, Zenon DEF SessionInv
  <2>. QED  BY <2>2, Zenon
<1>. QED  BY <1>1, <1>2, <1>3, <1>4, Zenon DEF SessionInv

LEMMA Initially == SessionInit => SessionInv
<1>. SUFFICES ASSUME SessionInit PROVE SessionInv
  OBVIOUS
<1>0. PICK user \in Users \cup {None}, offline \in BOOLEAN :
        /\ grants = IF user = None THEN << >> ELSE <<user>>
        /\ jar = Both(IF user = None THEN NoCookies
                      ELSE Both(SetTokenCookies(1, offline), SetUserInfoCookie(user)),
                      [c \in Cookies |-> None])
  BY Zenon DEF SessionInit
<1>1. tab = [t \in Tabs |-> Blank] /\ pages \in Plans /\ csrf = 0
  BY Zenon DEF SessionInit
<1>2. grants \in Seq(Users)
  <2>1. grants = IF user = None THEN << >> ELSE <<user>>
    BY <1>0, Zenon
  <2>. QED  BY <2>1
<1>3. jar = [c \in Cookies |-> jar[c]] /\ Tokens(jar)
  <2>1. CASE user = None
    BY <1>0, <2>1, PathlessAssumption, Zenon DEF Both, NoCookies, Tokens, Cookies
  <2>2. CASE user # None
    <3>0. PICK f : f = Both(SetTokenCookies(1, offline), SetUserInfoCookie(user))
      BY Zenon
    <3>1. /\ DOMAIN f \subseteq Cookies /\ "id" \in DOMAIN f /\ f["id"] = 1
          /\ "info" \in DOMAIN f /\ f["info"] = user
          /\ "access" \in DOMAIN f /\ f["access"] = 1 /\ "location" \notin DOMAIN f
          /\ "refresh" \in DOMAIN f => f["refresh"] = 1
      BY <3>0 DEF Both, SetTokenCookies, SetUserInfoCookie, Cookie, Cookies
    <3>2. jar = Both(f, [c \in Cookies |-> None])
      BY <1>0, <2>2, <3>0, Zenon
    <3>3. jar = [c \in Cookies |-> IF c \in DOMAIN f THEN f[c] ELSE None]
      <4>1. DOMAIN f \cup Cookies = Cookies
        BY <3>1
      <4>. QED  BY <3>2, <4>1, Zenon DEF Both
    <3>4. /\ jar = [c \in Cookies |-> jar[c]]
          /\ jar["id"] = 1 /\ jar["info"] = user /\ jar["refresh"] \in {1, None}
          /\ jar["access"] = 1 /\ jar["location"] = None
      BY <3>1, <3>3 DEF Cookies
    <3>5. grants = <<user>> /\ 1 \in DOMAIN grants /\ grants[1] = user
      BY <1>0, <2>2
    <3>. QED  BY <3>4, <3>5, PathlessAssumption DEF Tokens
  <2>. QED  BY <2>1, <2>2, Zenon
<1>4. SessionTypeOK
  BY <1>1, <1>2, <1>3 DEF SessionTypeOK
<1>5. \A t \in Tabs : tab[t].pc = "blank"
  BY <1>1 DEF Blank
<1>6. \A t \in Tabs : ~Pending(tab[t]) /\ ~Authorizing(t) /\ Right(tab[t])
  BY <1>5, Zenon DEF Pending, Authorizing, Right, Ends
<1>. QED  BY <1>3, <1>4, <1>6, Zenon DEF SessionInv, Fresh, Exclusive

\* The cookies of the browser agree with each other and with the tabs that
\* rely on them, whatever tabs do at the same time: tokens and user
\* information are of one user (SetTokenCookies, SetUserInfoCookie), and the
\* CSRF token a tab comes back with never stands beside the place another tab
\* asked for (GetLoginHandler, NewRedirectCookie).
THEOREM Invariant == SessionSpec => []SessionInv
<1>1. ASSUME SessionInv, [SessionNext]_sessionVars PROVE SessionInv'
  <2>1. ASSUME NEW n \in DOMAIN grants, Expire(n) PROVE SessionInv'
    BY <1>1, <2>1, Staying, Zenon DEF Expire
  <2>2. ASSUME NEW t \in Tabs, NEW page \in pages, Open(t, page) PROVE SessionInv'
    BY <1>1, <2>2, Opening, Zenon
  <2>3. ASSUME NEW t \in Tabs, NEW user \in Users, SignIn(t, user) PROVE SessionInv'
    BY <1>1, <2>3, SigningIn, Zenon
  <2>4. ASSUME NEW t \in Tabs, Deliver(t) PROVE SessionInv'
    BY <1>1, <2>4, Delivering, Zenon
  <2>5. ASSUME NEW t \in Tabs, RefreshTokensIfExists(t) PROVE SessionInv'
    BY <1>1, <2>5, Refreshing, Zenon
  <2>6. ASSUME NEW t \in Tabs, GetRefreshedToken(t) PROVE SessionInv'
    BY <1>1, <2>6, Renewing, Zenon
  <2>7. ASSUME NEW t \in Tabs, GetCallbackHandler(t) PROVE SessionInv'
    BY <1>1, <2>7, ComingBack, Zenon
  <2>8. ASSUME NEW t \in Tabs, GetLogoutEndpointHandler(t) PROVE SessionInv'
    BY <1>1, <2>8, LoggingOut, Zenon
  <2>9. ASSUME NEW t \in Tabs, GetAuthenticationInterceptor(t) PROVE SessionInv'
    BY <1>1, <2>9, Calling, Zenon
  <2>10. ASSUME NEW t \in Tabs, authEndpoint(t) PROVE SessionInv'
    BY <1>1, <2>10, Asking, Zenon
  <2>11. ASSUME NEW t \in Tabs, authCallbackEndpoint(t) PROVE SessionInv'
    BY <1>1, <2>11, Coding, Zenon
  <2>12. CASE UNCHANGED sessionVars
    BY <1>1, <2>12, Staying, Zenon DEF sessionVars
  <2>. QED
    BY <1>1, <2>1, <2>2, <2>3, <2>4, <2>5, <2>6, <2>7, <2>8, <2>9, <2>10, <2>11, <2>12, Zenon
       DEF SessionNext
<1>. QED  BY <1>1, Initially, PTL DEF SessionSpec

\* A sign-in that asked for a place with a path lands there, however many tabs
\* sign in at once, and the code goes to the client that asked for it unless two
\* were authorized at the same time (GetLoginHandler, NewRedirectCookie,
\* GetCallbackHandler, getAuthFlowEndRedirect, authCallbackEndpoint).
THEOREM AlwaysEndsAsAsked == SessionSpec => []EndsAsAsked
<1>1. SessionInv => EndsAsAsked
  BY Zenon DEF SessionInv, Right, EndsWell, Fits, EndsAsAsked, Ends
<1>. QED  BY <1>1, Invariant, PTL

\* A call is served, and a code given, in the name of one user
\* (IdentityContextFromRequest, GRPCGetIdentityFromIDToken, QueryUserInfo), unless
\* it rests on tokens of an answer that failed before it set the user information.
THEOREM IdentityAlwaysWhole == SessionSpec => []IdentityIsWhole
<1>1. SessionInv => IdentityIsWhole
  BY Zenon DEF SessionInv, Right, EndsWell, GoodIdentity, IdentityIsWhole, Ends
<1>. QED  BY <1>1, Invariant, PTL

=============================================================================
