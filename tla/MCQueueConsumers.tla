-------------------------- MODULE MCQueueConsumers --------------------------
(***************************************************************************)
(* Three versions of a launch plan: two with kickoff arguments the others  *)
(* do not know, and one with an argument that is not proper JSON.          *)
(***************************************************************************)
EXTENDS QueueConsumers

MCWorkload(consumer, emailer, version, updates, times, prefix) ==
    [kind |-> consumer, service |-> emailer, active |-> version, requests |-> updates,
     times |-> times, prefix |-> prefix]

\* Requests that interleave their calls, whether disableSchedule has the name of
\* the rule or not; a schedule that fires twice and a request meanwhile; and
\* notifications.
MCWorkloads ==
    {MCWorkload("executor", None, "v1", 2, 0, prefix) : prefix \in BOOLEAN} \cup
    {MCWorkload("executor", None, "v1", 1, 2, FALSE), MCWorkload("aws", None, None, 0, 0, FALSE),
     MCWorkload("gcp", "sendgrid", None, 0, 0, FALSE), MCWorkload("gcp", None, None, 0, 0, FALSE)}

MCKickoffTimeArg == [v1 |-> "a", v2 |-> "odd", v3 |-> "b"]
MCExpectedInputs == [v1 |-> {"a"}, v2 |-> {}, v3 |-> {"b"}]

MCNotification(recipient, name, phase, broken) ==
    [recipients |-> {recipient}, broken |-> broken,
     event |-> [phase |-> phase, error |-> "error"], execution |-> [name |-> name]]

\* Notifications of two executions, and something else that is on the queue.
MCNotifications ==
    {MCNotification("x", "e1", "FAILED", {}), MCNotification("y", "e2", "SUCCEEDED", {}),
     MCNotification("x", "e2", "SUCCEEDED", {"base64"})}

=============================================================================
