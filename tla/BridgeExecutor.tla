--------------------------- MODULE BridgeExecutor ---------------------------
(***************************************************************************)
(* One command-line run inside the Desktop Bridge, from the spawn of the   *)
(* agent to its terminal report (apps/desktop/src/index.mjs:               *)
(* runInvocation).                                                         *)
(*                                                                         *)
(* The main flow awaits the close of the child, drains its output and      *)
(* reports.  Four handlers may end the child before: the total timeout,    *)
(* the watchdog of a silent command, a cancellation found by the shared    *)
(* watcher, and the retirement of the bridge process.  They share flags    *)
(* with the main flow and interleave with it at every await: the posts to  *)
(* the server and the termination of the process tree.                     *)
(***************************************************************************)
EXTENDS Naturals, FiniteSets

CONSTANTS
    PostsMayFail,   \* a post of an event may be refused or lost
    KillsMayFail    \* a signal may be refused (EPERM, a failing taskkill)

ASSUME FailureAssumption == PostsMayFail \in BOOLEAN /\ KillsMayFail \in BOOLEAN

Timer == {"timeout", "command"}
Handler == Timer \cup {"cancel", "shutdown"}

VARIABLES
    windows,        \* the platform: taskkill is awaited, signals are not
    child,          \* the agent's process
    exitCode,       \* how it exited
    main,           \* where the main flow is
    handler,        \* where each handler is
    timedOut, cancelled, bridgeStopped,     \* the flags of the run
    cancelResult,   \* the outcome of the last terminateProcessTree
    report          \* the status of the terminal report

flags == <<timedOut, cancelled, bridgeStopped>>
vars == <<windows, child, exitCode, main, handler, flags, cancelResult, report>>

\* "exited" is known by exitCode; "closed" when the output pipes are done too.
ChildState == {"running", "signalled", "killed", "exited", "closed"}

\* "due": the callback is queued.  "posting": its first event is awaited.
\* "terminating", "grace", "forcing", "taskkill": inside terminateProcessTree, and
\* "lingering", "orphaned" when a signal had ended the agent before.
\* "killReport", "failReport": the events after it are awaited.
\* "failed": a post failed, and the rest of the handler with it.
HandlerPc == {"idle", "due", "posting", "terminating", "grace", "forcing", "taskkill",
              "lingering", "orphaned", "killReport", "failReport", "failed", "done"}

FinalStatus == {"succeeded", "failed", "cancelled", "timed_out"}

TypeOK ==
    /\ windows \in BOOLEAN
    /\ child \in ChildState
    /\ exitCode \in {"none", "zero", "nonzero", "signal"}
    /\ main \in {"awaiting", "flushing", "reporting", "over"}
    /\ handler \in [Handler -> HandlerPc]
    /\ timedOut \in BOOLEAN /\ cancelled \in BOOLEAN /\ bridgeStopped \in BOOLEAN
    /\ cancelResult \in {"none", "ok", "failed"}
    /\ report \in FinalStatus \cup {"none"}
    /\ report # "none" => child = "closed"

Init ==
    /\ windows \in BOOLEAN
    /\ child = "running" /\ exitCode = "none"
    /\ main = "awaiting"
    /\ handler = [h \in Handler |-> "idle"]
    /\ timedOut = FALSE /\ cancelled = FALSE /\ bridgeStopped = FALSE
    /\ cancelResult = "none"
    /\ report = "none"

settled == main # "awaiting"
Gone == child \in {"exited", "closed"}

\* What the handlers look at: child.exitCode, which stays null when a signal ended it.
HasExited == exitCode \in {"zero", "nonzero"}

Step(h, from, to) ==
    handler[h] = from /\ handler' = [handler EXCEPT ![h] = to]

-----------------------------------------------------------------------------
(* The agent's process.                                                    *)

\* It ends by itself, or by a signal: one of the bridge's or any other.
ChildExits ==
    /\ ~Gone
    /\ child' = "exited"
    /\ exitCode' \in {"zero", "nonzero"} \cup (IF windows THEN {} ELSE {"signal"})
    /\ UNCHANGED <<main, handler, flags, cancelResult, report, windows>>

ChildCloses ==
    /\ child = "exited"
    /\ child' = "closed"
    /\ UNCHANGED <<exitCode, main, handler, flags, cancelResult, report, windows>>

-----------------------------------------------------------------------------
(* The main flow.                                                          *)

\* The close event: settled, the watcher and the timers are detached.
Settle ==
    /\ main = "awaiting" /\ child = "closed"
    /\ main' = "flushing"
    /\ handler' = [h \in Handler |-> IF handler[h] = "idle" THEN "done" ELSE handler[h]]
    /\ UNCHANGED <<child, exitCode, flags, cancelResult, report, windows>>

Flush ==
    /\ main = "flushing"
    /\ main' = "reporting"
    /\ UNCHANGED <<child, exitCode, handler, flags, cancelResult, report, windows>>

Outcome_ExitFirst ==
    IF exitCode = "zero" THEN "succeeded"
    ELSE IF timedOut THEN "timed_out"
    ELSE IF cancelled /\ cancelResult # "failed" THEN "cancelled"
    ELSE "failed"

\* The branches after the flush, in their order.
Outcome ==
    IF bridgeStopped THEN "failed"
    ELSE IF timedOut THEN "timed_out"
    ELSE IF cancelled THEN IF cancelResult = "failed" THEN "failed" ELSE "cancelled"
    ELSE IF exitCode = "zero" THEN "succeeded" ELSE "failed"

\* POST /api/bridge/complete.  A hook event that fails before it, like the post
\* itself, rejects runInvocation, and the run is never reported.
Report ==
    /\ main = "reporting"
    /\ main' = "over"
    /\ report' \in {Outcome} \cup (IF PostsMayFail THEN {"none"} ELSE {})
    /\ UNCHANGED <<child, exitCode, handler, flags, cancelResult, windows>>

-----------------------------------------------------------------------------
(* The handlers.                                                           *)

\* A timer fires, the watcher finds the run, or the pool aborts it.
Fire(h) ==
    /\ ~settled
    /\ Step(h, "idle", "due")
    /\ UNCHANGED <<child, exitCode, main, flags, cancelResult, report, windows>>

Ignored_SettledUnchecked(h) ==
    \/ timedOut \/ cancelled
    \/ h = "shutdown" /\ bridgeStopped

Ignored_CancelUnchecked(h) ==
    \/ settled \/ timedOut
    \/ h \in Timer /\ HasExited
    \/ h = "shutdown" /\ bridgeStopped

\* What each callback checks first.
Ignored(h) ==
    \/ settled \/ timedOut \/ cancelled
    \/ h \in Timer /\ HasExited
    \/ h = "shutdown" /\ bridgeStopped

FirstAwait_AlwaysPost(h) == "posting"

\* The retirement terminates at once, the others announce it first.
FirstAwait(h) == IF h = "shutdown" THEN "terminating" ELSE "posting"

\* Its guard, and the flag that names the cause.
Decide(h) ==
    /\ \/ Ignored(h) /\ Step(h, "due", "done") /\ UNCHANGED flags
       \/ /\ ~Ignored(h)
          /\ Step(h, "due", FirstAwait(h))
          /\ timedOut' = (timedOut \/ h \in Timer)
          /\ cancelled' = (cancelled \/ h = "cancel")
          /\ bridgeStopped' = (bridgeStopped \/ h = "shutdown")
    /\ UNCHANGED <<child, exitCode, main, cancelResult, report, windows>>

\* The event that announces the termination; when it fails, so does the handler.
Posted(h) ==
    /\ \/ Step(h, "posting", "terminating")
       \/ PostsMayFail /\ Step(h, "posting", "failed")
    /\ UNCHANGED <<child, exitCode, main, flags, cancelResult, report, windows>>

Finish(h, from, result, forced) ==
    /\ cancelResult' = result
    /\ Step(h, from,
            IF h = "shutdown" THEN "done"
            ELSE IF forced THEN "killReport"
            ELSE IF h = "cancel" /\ result = "failed" THEN "failReport"
            ELSE "done")

\* SIGTERM to the process group, or taskkill without /f.  When a signal has ended the
\* agent, its group is gone (ESRCH), or others of the group live on.
Terminate(h) ==
    /\ \/ HasExited /\ Finish(h, "terminating", "ok", FALSE) /\ UNCHANGED child
       \/ /\ ~Gone
          /\ child' = IF child = "running" THEN "signalled" ELSE child
          /\ Step(h, "terminating", "grace")
          /\ UNCHANGED cancelResult
       \/ /\ KillsMayFail /\ ~Gone
          /\ UNCHANGED child
          /\ \/ windows /\ Step(h, "terminating", "forcing") /\ UNCHANGED cancelResult
             \/ ~windows /\ Finish(h, "terminating", "failed", FALSE)
       \/ /\ Gone /\ ~HasExited
          /\ UNCHANGED child
          /\ \/ Finish(h, "terminating", "failed", FALSE)
             \/ /\ Step(h, "terminating", IF child = "exited" THEN "lingering" ELSE "orphaned")
                /\ UNCHANGED cancelResult
    /\ UNCHANGED <<exitCode, main, flags, report, windows>>

\* SIGKILL, or taskkill /f.
Kill ==
    \/ child' = IF Gone THEN child ELSE "killed"
    \/ KillsMayFail /\ UNCHANGED child

KillResult_Assumed(c) == "ok"

KillResult(c) == IF c \in {"killed", "exited", "closed"} THEN "ok" ELSE "failed"

Escalates_Never(h) == FALSE

\* The grace is over and the child has not exited.
Escalates(h) == handler[h] = "grace" /\ ~Gone

\* awaitChildExit: the child exits in time, or is forced to; a signal is sent at
\* once, a second taskkill is a process of its own.
AwaitExit(h) ==
    /\ \/ Gone /\ Finish(h, "grace", "ok", FALSE) /\ UNCHANGED child
       \/ /\ Escalates(h) /\ ~windows
          /\ Kill
          /\ Finish(h, "grace", KillResult(child'), TRUE)
       \/ /\ Escalates(h) /\ windows
          /\ Step(h, "grace", "forcing")
          /\ UNCHANGED <<child, cancelResult>>
    /\ UNCHANGED <<exitCode, main, flags, report, windows>>

\* The same wait for an agent that had ended: the close of its pipes ends it, if that
\* is still to come, or else a SIGKILL to what is left of the group.
Linger(h) ==
    /\ Gone
    /\ \/ child = "closed" /\ Finish(h, "lingering", "ok", FALSE)
       \/ \E pc \in {"lingering", "orphaned"}, result \in {"ok", "failed"} :
             Finish(h, pc, result, TRUE)
    /\ UNCHANGED <<child, exitCode, main, flags, report, windows>>

ForceKill(h) ==
    /\ Step(h, "forcing", "taskkill")
    /\ Kill
    /\ UNCHANGED <<exitCode, main, flags, cancelResult, report, windows>>

\* The second taskkill has ended.
Forced(h) ==
    /\ Finish(h, "taskkill", KillResult(child), TRUE)
    /\ UNCHANGED <<child, exitCode, main, flags, report, windows>>

\* reportForcedKill, then the cancel handler's report of a failure.
Reported(h) ==
    /\ \/ /\ Step(h, "killReport",
                  IF h = "cancel" /\ cancelResult = "failed" THEN "failReport" ELSE "done")
       \/ Step(h, "failReport", "done")
       \/ PostsMayFail /\ (Step(h, "killReport", "failed") \/ Step(h, "failReport", "failed"))
    /\ UNCHANGED <<child, exitCode, main, flags, cancelResult, report, windows>>

HandlerStep(h) ==
    \/ Decide(h) \/ Posted(h) \/ Terminate(h) \/ AwaitExit(h) \/ Linger(h) \/ ForceKill(h)
    \/ Forced(h) \/ Reported(h)

MainStep == Settle \/ Flush \/ Report

Next ==
    \/ ChildExits \/ ChildCloses \/ MainStep
    \/ \E h \in Handler : Fire(h) \/ HandlerStep(h)

Spec == Init /\ [][Next]_vars

\* Callbacks and awaits go on, a killed process exits and its pipes close; an
\* agent that was not killed may run for ever.
FairSpec ==
    /\ Spec
    /\ WF_vars(MainStep) /\ WF_vars(ChildCloses)
    /\ WF_vars(child = "killed" /\ ChildExits)
    /\ \A h \in Handler : WF_vars(HandlerStep(h))

-----------------------------------------------------------------------------

\* Once the child has closed, the cause of the run's outcome is fixed: no timer and
\* no cancellation that was already on its way changes it while the output is
\* drained and the report is sent (index.mjs:1029-1034, 1368-1375).
CauseFixedOnceSettled == [][settled => UNCHANGED flags]_vars

\* A run is never both timed out and cancelled, however the callbacks overlap, so
\* the status the server gets has one cause (index.mjs:1242, 1269, 1292, 1318).
OneCause == ~(timedOut /\ cancelled)

\* A run that a handler decided to end is never reported as a success, even when
\* its agent exits with code 0 meanwhile (index.mjs:1386-1464).
InterruptedNeverSucceeds ==
    report = "succeeded" => ~timedOut /\ ~cancelled /\ ~bridgeStopped

PostFailed == \E h \in Handler : handler[h] = "failed"
KillFailed == cancelResult = "failed" /\ ~Gone

Interrupted == timedOut \/ cancelled \/ bridgeStopped

AtWork == {"posting", "terminating", "grace", "forcing", "taskkill"}

\* A handler is at work on the agent, or it failed, or the end of the agent is certain.
Pursued ==
    \/ \E h \in Handler : handler[h] \in AtWork
    \/ PostFailed \/ KillFailed \/ child = "killed" \/ Gone

\* A run that was told to stop is not forgotten while its agent lives: at every await
\* some handler still owes it the next signal, although the first flag turns all the
\* others away (index.mjs:1242, 1269, 1292, 1318, 3308-3397); the exceptions are a post
\* that failed and a kill that did.
NeverAbandoned == Interrupted => Pursued

\* A run that is timed out, cancelled or retired comes to its report, whatever its
\* agent does, unless an event could not be posted or the agent not be killed.
InterruptedIsReported ==
    Interrupted ~> (main = "over" \/ PostFailed \/ KillFailed)

\* The retirement of the bridge ends the agent, or has tried to, whatever the
\* server answers: its handler posts nothing before it terminates the tree
\* (index.mjs:1317-1328).
RetirementEndsAgent == bridgeStopped ~> (Gone \/ KillFailed)

\* "Timeouts: the bridge kills a run at adapter.timeoutSeconds"
\* (docs/engineering/AUTORUN_PILOT_RUNBOOK.md:113).
TimeoutEndsAgent == timedOut ~> Gone

\* "so they stop posting events once the run is settling" (index.mjs:1030-1033).
NoPostOnceSettled ==
    [][\A h \in Handler :
          handler[h] # handler'[h] /\ handler'[h] \in {"posting", "killReport", "failReport"}
            => ~settled]_vars

-----------------------------------------------------------------------------
(* The run as the delivery of invocations sees it.                          *)

Phase ==
    IF main = "over" THEN "ended"
    ELSE IF cancelled THEN IF settled THEN "killed" ELSE "killing"
    ELSE IF settled THEN "exited" ELSE "executing"

Run == INSTANCE AgentRun WITH
    ExitVerdict <- {"succeeded", "failed", "timed_out"},
    KillVerdict <- {"cancelled", "failed"},
    Unreported <- "none",
    phase <- Phase,
    agent <- IF Gone THEN "gone" ELSE "alive",
    verdict <- report

\* Whatever the timers, the watcher, the retirement and the signals do at the awaits of
\* the main flow, a run goes through the phases a delivery counts on: a request to stop
\* makes the report "cancelled" or "failed" or has no effect at all, and an agent that
\* may still run is neither over nor reported (index.mjs:1029-1034, 1368-1483).
KeepsRun == Run!Spec
=============================================================================
