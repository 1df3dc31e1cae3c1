-------------------------- MODULE MCNativeScheduler --------------------------
(* NativeScheduler for TLC.                                                *)
EXTENDS NativeScheduler, TLC

CONSTANTS cron, rate, r1

\* Due at every time, and at every second time after the entry was added to cron.
MCCronTimes == [s \in Cron |-> 1 .. Horizon]
MCRate == [s \in Schedules \ Cron |-> 2]
=============================================================================
