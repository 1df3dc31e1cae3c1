--------------------------- MODULE QueueConsumers ---------------------------
(***************************************************************************)
(* The processes that take messages off a queue: the workflow executor of  *)
(* the AWS scheduler (pkg/async/schedule/aws/workflow_executor.go), which  *)
(* launches the active version of a launch plan when CloudWatch says so,   *)
(* and the processors of notifications                                     *)
(* (pkg/async/notifications/implementations), which send email.            *)
(*                                                                         *)
(* A queue delivers a message at least once, to any replica, and again     *)
(* until it is marked as done; a replica may crash at any step.            *)
(***************************************************************************)
EXTENDS CloudWatchScheduler, FiniteSets

CONSTANTS Workloads,         \* what to consider: the consumer ("executor", "aws", "gcp"),
                             \* the configured email service, the active version, how
                             \* many requests and times at which a schedule fires are
                             \* to come, and whether AWSSchedulerConfig has a prefix
          Replicas,          \* processes that consume
          KickoffTimeArg,    \* the kickoff time argument each version's schedule names
          ExpectedInputs,    \* the inputs each version requires
          Notifications,     \* what is published: a record each
          EmailTemplate,     \* the parameters the configured email mentions
          ReconnectAttempts  \* the configured number of reconnections

ASSUME WorkloadAssumption ==
    \A w \in Workloads :
       /\ w.kind \in {"executor", "aws", "gcp"}
       /\ w.active \in Versions \cup {None}
       /\ w.requests \in Nat /\ w.times \in Nat /\ w.prefix \in BOOLEAN

VARIABLES kind,        \* the consumer of the deployment, never changed
          service,     \* the email service of the deployment, never changed
          clock,       \* how many times at which a schedule fires are to come
          queue,       \* where each message is
          replica,     \* what each process is doing
          emailMessage,\* the variable of run each process decodes into
          executions,  \* the executions launched
          sent,        \* the emails sent
          settled      \* history: messages given up on, and why

deployment == <<kind, service>>
consumers == <<deployment, clock, queue, replica, emailMessage, executions, sent, settled>>
vars == <<schedules, faults, consumers>>

\* A scheduled message is sent at a time, with the argument of the target.
Scheduled(t, arg) == [time |-> t, arg |-> arg]

Waiting == [pc |-> "waiting"]
Connecting(n) == [pc |-> "connecting", attempt |-> n]

\* A fault costs one of those allowed.
Faulty == faults < MaxFaults /\ faults' = faults + 1
Sound == UNCHANGED faults

At(r, pc) == replica[r].pc = pc
Become(r, state) == replica' = [replica EXCEPT ![r] = state]
To(r, pc) == replica' = [replica EXCEPT ![r].pc = pc]

-----------------------------------------------------------------------------
(* The queue.                                                              *)

Put(m) == queue' = [x \in DOMAIN queue \cup {m} |-> IF x = m THEN "queued" ELSE queue[x]]

\* CloudWatch fires a rule with the target it has.
Fire ==
    /\ kind = "executor" /\ clock > 0
    /\ clock' = clock - 1
    /\ IF rule # None /\ target # None
       THEN Put(Scheduled(clock, KickoffTimeArg[target]))
       ELSE UNCHANGED queue
    /\ UNCHANGED <<schedules, faults, deployment, replica, emailMessage, executions, sent, settled>>

\* The message for a notification of an execution that ended.
Publish(m) ==
    /\ kind # "executor" /\ m \notin DOMAIN queue
    /\ \/ Sound /\ Put(m) /\ UNCHANGED settled
       \/ Faulty /\ settled' = settled \cup {<<m, "unpublished">>}
          /\ queue' = [x \in DOMAIN queue \cup {m} |-> IF x = m THEN "gone" ELSE queue[x]]
    /\ UNCHANGED <<schedules, deployment, clock, replica, emailMessage, executions, sent>>

Receive(r, m) ==
    /\ At(r, "waiting") /\ m \in DOMAIN queue /\ queue[m] = "queued"
    /\ queue' = [queue EXCEPT ![m] = "received"]
    /\ Become(r, [pc |-> "received", message |-> m])
    /\ UNCHANGED <<schedules, faults, deployment, clock, emailMessage, executions, sent, settled>>

\* What was received and is not done shows up again after a while, also while
\* a replica is still working on it.
Redeliver(m) ==
    /\ queue[m] = "received"
    /\ queue' = [queue EXCEPT ![m] = "queued"]
    /\ UNCHANGED <<schedules, faults, deployment, clock, replica, emailMessage, executions, sent, settled>>

\* The connection of a new process is tried ReconnectAttempts times again;
\* then the process panics, and is started anew.
Retry(r) ==
    IF replica[r].attempt < ReconnectAttempts
    THEN Connecting(replica[r].attempt + 1)
    ELSE Connecting(0)

Connect(r) ==
    /\ At(r, "connecting")
    /\ \/ Sound /\ Become(r, Waiting)
       \/ Faulty /\ Become(r, Retry(r))
    /\ UNCHANGED <<schedules, deployment, clock, queue, emailMessage, executions, sent, settled>>

\* The subscriber closes its channel: run returns, and is called again.
ChannelCloses(r) ==
    /\ At(r, "waiting") /\ Faulty
    /\ Become(r, [pc |-> "closed"])
    /\ UNCHANGED <<schedules, deployment, clock, queue, emailMessage, executions, sent, settled>>

Run(r) ==
    /\ At(r, "closed")
    /\ Become(r, Waiting)
    /\ UNCHANGED <<schedules, faults, deployment, clock, queue, emailMessage, executions, sent, settled>>

Restarted(r) ==
    /\ Become(r, Connecting(0))
    /\ emailMessage' = [emailMessage EXCEPT ![r] = None]

Crash(r) ==
    /\ Faulty
    /\ Restarted(r)
    /\ UNCHANGED <<schedules, deployment, clock, queue, executions, sent, settled>>

Delete(m) == queue' = [queue EXCEPT ![m] = "gone"]

-----------------------------------------------------------------------------
(* The workflow executor.                                                  *)

\* The argument is put in the payload as it is, and one that is not proper
\* JSON makes a payload that cannot be read.
Odd == "odd"

\* A message that cannot be read is not marked as done.
DeserializeScheduleWorkflowPayload(r) ==
    /\ kind = "executor" /\ At(r, "received")
    /\ IF replica[r].message.arg = Odd THEN Become(r, Waiting) ELSE To(r, "lookUp")
    /\ UNCHANGED <<schedules, faults, deployment, clock, queue, emailMessage, executions, sent, settled>>

\* A failure to look for the active version is taken for there being none.
getActiveLaunchPlanVersion(r) ==
    /\ At(r, "lookUp")
    /\ \/ /\ Sound /\ active # None
          /\ Become(r, [pc |-> "create", message |-> replica[r].message, version |-> active])
          /\ UNCHANGED settled
       \/ /\ \/ Sound /\ active = None
             \/ Faulty /\ active # None
          /\ To(r, "drop")
          /\ settled' = settled \cup {<<replica[r].message, "no active version">>}
    /\ UNCHANGED <<schedules, deployment, clock, queue, emailMessage, executions, sent>>

\* GetExecutionName draws from the generator it has seeded with the kickoff time
\* and the launch plan, without its version.  The generator is the one of the
\* process: a request handler that seeds it, or draws from it, at the same time
\* disturbs what is drawn, and makes another name each time.
VariantNameHasVersion(version, time, disturbed) == <<time, version>>
generateExecutionName(version, time, disturbed) == IF disturbed THEN <<time, faults>> ELSE <<time>>

resolveKickoffTimeArg(message, version) == ExpectedInputs[version] \cap {message.arg}

formulateExecutionCreateRequest(r, disturbed) ==
    LET message == replica[r].message
        version == replica[r].version
    IN  [name |-> generateExecutionName(version, message.time, disturbed), disturbed |-> disturbed,
         time |-> message.time, version |-> version, inputs |-> resolveKickoffTimeArg(message, version)]

Named(name) == {e \in executions : e.name = name}

\* An error leaves the message for another time.
VariantErrorIsDone(r) == [replica[r] EXCEPT !.pc = "done"]
AfterError(r) == Waiting

\* CreateExecution refuses a name it has, which is as good as success, and a
\* request that lacks inputs, which is not.  An error that is not one of this
\* program's own, from building the workflow, passes for success.
CreateExecution(r) ==
    /\ At(r, "create")
    /\ \E disturbed \in BOOLEAN :
          LET e == formulateExecutionCreateRequest(r, disturbed)
              message == replica[r].message
          IN  \/ /\ IF disturbed THEN Faulty ELSE Sound
                 /\ e.inputs = ExpectedInputs[e.version]
                 /\ executions' = IF Named(e.name) = {} THEN executions \cup {e} ELSE executions
                 /\ To(r, "done") /\ UNCHANGED settled
              \/ /\ \/ Sound /\ e.inputs # ExpectedInputs[e.version]
                       /\ settled' = settled \cup {<<message, "refused">>}
                    \/ Faulty /\ UNCHANGED settled
                 /\ Become(r, AfterError(r)) /\ UNCHANGED executions
              \/ /\ Faulty /\ e.inputs = ExpectedInputs[e.version]
                 /\ settled' = settled \cup {<<message, "not built">>}
                 /\ To(r, "done") /\ UNCHANGED executions
    /\ UNCHANGED <<schedules, deployment, clock, queue, emailMessage, sent>>

\* message.Done: a failure after dropping a message panics.
Drop(r) ==
    /\ At(r, "drop")
    /\ \/ /\ Sound /\ Delete(replica[r].message)
          /\ Become(r, Waiting) /\ UNCHANGED emailMessage
       \/ Faulty /\ Restarted(r) /\ UNCHANGED queue
    /\ UNCHANGED <<schedules, deployment, clock, executions, sent, settled>>

-----------------------------------------------------------------------------
(* The processors of notifications.                                        *)

\* The email of a notification, with the parameters of its template filled in
\* from the event and from the execution.
getTemplateValue(p, event, execution) ==
    IF p = "phase" THEN event.phase
    ELSE IF p = "error" THEN event.error
    ELSE execution[p]

substituteEmailParameters(template, event, execution) ==
    [p \in template |-> getTemplateValue(p, event, execution)]

ToEmailMessageFromWorkflowExecutionEvent(n) ==
    [recipients |-> n.recipients, body |-> substituteEmailParameters(EmailTemplate, n.event, n.execution)]

\* What a message goes through to become an email.  On AWS the bytes of the
\* notification are encoded in a field of an SNS message.
Layers == IF kind = "aws" THEN {"json", "field", "string", "base64", "proto"} ELSE {"proto"}

\* proto.Unmarshal resets what it decodes into, the one variable of the loop.
VariantUnmarshalMerges(old, new) ==
    IF old = None THEN new ELSE [new EXCEPT !.recipients = @ \cup old.recipients]
Unmarshal(old, new) == new

\* A malformed message is marked as done.
VariantMalformedStays(r) == Waiting
AfterMalformed(r) == [replica[r] EXCEPT !.pc = "done"]

Decode(r) ==
    /\ At(r, "received")
    /\ LET m == replica[r].message
       IN  IF m.broken \cap Layers = {}
           THEN /\ emailMessage' = [emailMessage EXCEPT ![r] =
                       Unmarshal(@, ToEmailMessageFromWorkflowExecutionEvent(m))]
                /\ To(r, "send") /\ UNCHANGED settled
           ELSE /\ settled' = settled \cup {<<m, "malformed">>}
                /\ Become(r, AfterMalformed(r)) /\ UNCHANGED emailMessage
    /\ UNCHANGED <<schedules, faults, deployment, clock, queue, executions, sent>>

Processor(r) == kind = "aws" /\ Decode(r)
GcpProcessor(r) == kind = "gcp" /\ Decode(r)

\* An external service is used wherever it is configured; without one AWS has
\* its own, and elsewhere emails go nowhere.
GetEmailer ==
    IF service # None THEN service ELSE IF kind = "aws" THEN "ses" ELSE "noop"

FlyteEmailToSesEmailInput(email) == [toAddresses |-> email.recipients, html |-> email.body]

getSendgridEmail(email) == [tos |-> email.recipients, content |-> email.body]

\* What the emailer hands to its service.
SesSendEmail(m, email) == {[message |-> m, mail |-> FlyteEmailToSesEmailInput(email)]}
SendgridSendEmail(m, email) == {[message |-> m, mail |-> getSendgridEmail(email)]}

\* An email that could not be sent is not tried again.
SendEmail(r) ==
    /\ At(r, "send")
    /\ \/ /\ Sound /\ GetEmailer = "ses"
          /\ sent' = sent \cup SesSendEmail(replica[r].message, emailMessage[r])
          /\ UNCHANGED settled
       \/ /\ Sound /\ GetEmailer = "sendgrid"
          /\ sent' = sent \cup SendgridSendEmail(replica[r].message, emailMessage[r])
          /\ UNCHANGED settled
       \/ /\ Sound /\ GetEmailer = "noop"
          /\ settled' = settled \cup {<<replica[r].message, "no emailer">>}
          /\ UNCHANGED sent
       \/ /\ Faulty /\ GetEmailer # "noop"
          /\ settled' = settled \cup {<<replica[r].message, "not sent">>}
          /\ UNCHANGED sent
    /\ To(r, "done")
    /\ UNCHANGED <<schedules, deployment, clock, queue, emailMessage, executions>>

\* message.Done of the executor and markMessageDone of the processors: a
\* failure is only logged, and the message will come again.
markMessageDone(r) ==
    /\ At(r, "done")
    /\ \/ Sound /\ Delete(replica[r].message)
       \/ Faulty /\ UNCHANGED queue
    /\ Become(r, Waiting)
    /\ UNCHANGED <<schedules, deployment, clock, emailMessage, executions, sent, settled>>

-----------------------------------------------------------------------------
Init ==
    /\ \E w \in Workloads : CWInit(w.active, w.requests, w.prefix) /\ kind = w.kind
                         /\ service = w.service /\ clock = w.times
    /\ faults = 0
    /\ queue = << >>
    /\ replica = [r \in Replicas |-> Connecting(0)]
    /\ emailMessage = [r \in Replicas |-> None]
    /\ executions = {} /\ sent = {} /\ settled = {}

Work(r) ==
    \/ Connect(r) \/ Run(r)
    \/ \E m \in DOMAIN queue : Receive(r, m)
    \/ DeserializeScheduleWorkflowPayload(r) \/ getActiveLaunchPlanVersion(r)
    \/ CreateExecution(r) \/ Drop(r)
    \/ Processor(r) \/ GcpProcessor(r) \/ SendEmail(r) \/ markMessageDone(r)

Next ==
    \/ kind = "executor" /\ CWNext /\ UNCHANGED consumers
    \/ Fire
    \/ \E m \in Notifications : Publish(m)
    \/ \E m \in DOMAIN queue : Redeliver(m)
    \/ \E r \in Replicas : Work(r) \/ ChannelCloses(r) \/ Crash(r)

\* Messages the executor cannot make anything of, now or later.
Hopeless == {m \in DOMAIN queue : kind = "executor" /\ (m.arg = Odd \/ <<m, "refused">> \in settled)}

\* A replica works on, and is started again when it crashes; the queue delivers
\* again what nobody marks as done, and does not keep a message for ever for
\* the sake of hopeless ones.
Spec ==
    /\ Init /\ [][Next]_vars
    /\ \A r \in Replicas : WF_vars(Work(r))
    /\ WF_vars(\E m \in DOMAIN queue \ Hopeless : Redeliver(m))
    /\ SF_vars(\E m \in DOMAIN queue \ Hopeless, r \in Replicas : Receive(r, m))

-----------------------------------------------------------------------------
Handled(m) ==
    IF kind = "executor" THEN \E e \in executions : e.time = m.time
    ELSE \E s \in sent : s.message = m

\* A message is marked as done only when its execution exists or its email has
\* been sent, whatever replica crashes at whatever step, or when one of the
\* reasons to give it up was met: there was no active version, or it could not
\* be looked up; the workflow could not be built; the message is malformed; the
\* email could not be sent, there is no service to send it, or the message could
\* not be published.
HandledBeforeDone ==
    \A m \in DOMAIN queue :
        queue[m] = "gone" =>
            \/ Handled(m)
            \/ \E why \in {"no active version", "not built", "malformed", "not sent",
                            "no emailer", "unpublished"} :
                  <<m, why>> \in settled

\* A time at which a schedule fires launches one execution, although its
\* message comes several times, to several replicas, and other versions of the
\* launch plan become active meanwhile (generateExecutionName): one, and one
\* more for each time that a request of the same process disturbed the
\* generator of the name.
FiredOnce ==
    \A e, f \in executions : e.time = f.time /\ ~e.disturbed /\ ~f.disturbed => e = f

\* An email has the recipients and the contents of its own notification,
\* whatever service sends it, although the processor decodes all of them into
\* one variable.
EmailIsRight ==
    \A s \in sent :
        LET right == ToEmailMessageFromWorkflowExecutionEvent(s.message)
        IN  s.mail \in {[toAddresses |-> right.recipients, html |-> right.body],
                       [tos |-> right.recipients, content |-> right.body]}

\* Every message is marked as done some time, none comes again and again for
\* ever, except those for the executor that it cannot read, or whose version
\* lacks inputs.
Settles == <>[](\A m \in DOMAIN queue \ Hopeless : queue[m] = "gone")

=============================================================================
