----------------------- MODULE BridgeExecutor_proofs -----------------------
(***************************************************************************)
(* Theorems about BridgeExecutor, on either platform and whether posts and *)
(* signals can fail or not.                                                *)
(*                                                                         *)
(* The argument: a handler sets its flag only while the main flow awaits   *)
(* the child and no timeout or cancellation was decided; the report is     *)
(* computed from flags that no longer change.  A handler that set a flag   *)
(* leaves its work only when the agent has ended, or is certain to, or when*)
(* a post or a kill failed; so an interrupted run is pursued to its end,   *)
(* and what the delivery sees of a run is an AgentRun.                     *)
(***************************************************************************)
EXTENDS BridgeExecutor, TLAPS

\* The main flow goes on only when the child has closed, and reports last; what the
\* handlers see of an exit is one.
MainOK ==
    /\ HasExited => Gone
    /\ settled => child = "closed"
    /\ report # "none" => main = "over"

EInv == TypeOK /\ MainOK /\ OneCause /\ InterruptedNeverSucceeds

-----------------------------------------------------------------------------

LEMMA StepType ==
  ASSUME TypeOK, NEW h \in Handler, NEW from, NEW to \in HandlerPc, Step(h, from, to)
  PROVE  handler' \in [Handler -> HandlerPc]
  BY DEF TypeOK, Step

LEMMA FinishType ==
  ASSUME TypeOK, NEW h \in Handler, NEW from, NEW result \in {"ok", "failed"},
         NEW forced \in BOOLEAN, Finish(h, from, result, forced)
  PROVE  handler' \in [Handler -> HandlerPc] /\ cancelResult' \in {"none", "ok", "failed"}
<1>1. PICK to \in HandlerPc : Step(h, from, to)
  BY DEF Finish, HandlerPc
<1> QED
  BY <1>1, StepType DEF Finish

\* A step of a handler that is past its decision.
LEMMA LateStep ==
  ASSUME EInv, NEW h \in Handler,
         Posted(h) \/ Terminate(h) \/ AwaitExit(h) \/ Linger(h) \/ ForceKill(h)
           \/ Forced(h) \/ Reported(h)
  PROVE  EInv'
<1>1. UNCHANGED <<exitCode, main, timedOut, cancelled, bridgeStopped, report, windows>>
  BY DEF Posted, Terminate, AwaitExit, Linger, ForceKill, Forced, Reported, flags
<1>2. child' = child \/ (~Gone /\ child' \in {"signalled", "killed"})
  BY DEF Posted, Terminate, AwaitExit, Linger, ForceKill, Forced, Reported, Kill, Gone
<1>3. child' \in ChildState /\ (child = "closed" => child' = "closed")
  BY <1>2 DEF EInv, TypeOK, ChildState, Gone
<1>4. handler' \in [Handler -> HandlerPc] /\ cancelResult' \in {"none", "ok", "failed"}
  <2> TypeOK
    BY DEF EInv
  <2>0. \A c : KillResult(c) \in {"ok", "failed"}
    BY DEF KillResult
  <2>1. CASE Posted(h) \/ ForceKill(h) \/ Reported(h)
    <3>1. PICK from, to \in HandlerPc : Step(h, from, to)
      BY <2>1 DEF Posted, ForceKill, Reported, HandlerPc
    <3> QED
      BY <2>1, <3>1, StepType DEF Posted, ForceKill, Reported, TypeOK
  <2>2. CASE Terminate(h)
    <3>1. CASE \E to \in HandlerPc : Step(h, "terminating", to) /\ cancelResult' = cancelResult
      BY <3>1, StepType DEF TypeOK
    <3>2. CASE \E r \in {"ok", "failed"} : Finish(h, "terminating", r, FALSE)
      BY <3>2, FinishType
    <3> QED
      BY <2>2, <3>1, <3>2 DEF Terminate, HandlerPc
  <2>3. CASE AwaitExit(h)
    <3>1. CASE Step(h, "grace", "forcing") /\ cancelResult' = cancelResult
      BY <3>1, StepType DEF TypeOK, HandlerPc
    <3>2. CASE \E r \in {"ok", "failed"}, f \in BOOLEAN : Finish(h, "grace", r, f)
      BY <3>2, FinishType
    <3> QED
      BY <2>0, <2>3, <3>1, <3>2 DEF AwaitExit
  <2>4. CASE Forced(h)
    BY <2>0, <2>4, FinishType DEF Forced
  <2>5. CASE Linger(h)
    BY <2>5, FinishType DEF Linger
  <2> QED
    BY <2>1, <2>2, <2>3, <2>4, <2>5
<1>5. TypeOK'
  BY <1>1, <1>3, <1>4 DEF EInv, TypeOK
<1>6. MainOK' /\ OneCause' /\ InterruptedNeverSucceeds'
  BY <1>1, <1>2, <1>3 DEF EInv, MainOK, HasExited, Gone, settled, OneCause, InterruptedNeverSucceeds
<1> QED
  BY <1>5, <1>6 DEF EInv

LEMMA DecideStep ==
  ASSUME EInv, NEW h \in Handler, Decide(h)
  PROVE  EInv' /\ (settled => UNCHANGED flags)
<1>1. UNCHANGED <<child, exitCode, main, cancelResult, report, windows>>
  BY DEF Decide
<1>2. CASE Ignored(h) /\ Step(h, "due", "done") /\ UNCHANGED flags
  <2>1. handler' \in [Handler -> HandlerPc]
    BY <1>2, StepType DEF EInv, HandlerPc
  <2> QED
    BY <1>1, <1>2, <2>1 DEF EInv, TypeOK, MainOK, HasExited, Gone, settled, OneCause,
                            InterruptedNeverSucceeds, flags
<1>3. CASE ~Ignored(h)
  <2>1. ~settled /\ ~timedOut /\ ~cancelled
    BY <1>3 DEF Ignored
  <2>2. /\ handler' \in [Handler -> HandlerPc]
        /\ timedOut' = (timedOut \/ h \in Timer)
        /\ cancelled' = (cancelled \/ h = "cancel")
        /\ bridgeStopped' = (bridgeStopped \/ h = "shutdown")
    BY <1>3, StepType DEF Decide, EInv, HandlerPc, FirstAwait
  <2>3. ~(timedOut' /\ cancelled')
    BY <2>1, <2>2 DEF Timer
  <2>4. report = "none"
    BY <2>1 DEF EInv, MainOK, HasExited, Gone, settled
  <2>5. timedOut' \in BOOLEAN /\ cancelled' \in BOOLEAN /\ bridgeStopped' \in BOOLEAN
    BY <2>2
  <2>6. TypeOK'
    BY <1>1, <2>2, <2>4, <2>5 DEF EInv, TypeOK
  <2>7. MainOK' /\ OneCause' /\ InterruptedNeverSucceeds'
    BY <1>1, <2>3, <2>4 DEF EInv, MainOK, HasExited, Gone, settled, OneCause, InterruptedNeverSucceeds
  <2> QED
    BY <2>1, <2>6, <2>7 DEF EInv
<1> QED
  BY <1>2, <1>3 DEF Decide

LEMMA FireStep ==
  ASSUME EInv, NEW h \in Handler, Fire(h)
  PROVE  EInv' /\ UNCHANGED flags
<1>1. handler' \in [Handler -> HandlerPc]
  BY StepType DEF EInv, Fire, HandlerPc
<1> QED
  BY <1>1 DEF EInv, TypeOK, Fire, MainOK, HasExited, Gone, settled, OneCause, InterruptedNeverSucceeds, flags

LEMMA OutcomeType == Outcome \in FinalStatus
  BY DEF Outcome, FinalStatus

LEMMA MainMove ==
  ASSUME EInv, ChildExits \/ ChildCloses \/ MainStep
  PROVE  EInv' /\ UNCHANGED flags
<1>1. CASE ChildExits \/ ChildCloses
  BY <1>1 DEF ChildExits, ChildCloses, Gone, EInv, TypeOK, ChildState, MainOK, HasExited, Gone, settled,
              OneCause, InterruptedNeverSucceeds, flags
<1>2. CASE Settle
  <2>1. handler' \in [Handler -> HandlerPc]
    BY <1>2 DEF Settle, EInv, TypeOK, HandlerPc
  <2> QED
    BY <1>2, <2>1 DEF Settle, EInv, TypeOK, MainOK, HasExited, Gone, settled, OneCause,
                      InterruptedNeverSucceeds, flags
<1>3. CASE Flush
  BY <1>3 DEF Flush, EInv, TypeOK, MainOK, HasExited, Gone, settled, OneCause, InterruptedNeverSucceeds, flags
<1>4. CASE Report
  <2>1. /\ main = "reporting" /\ main' = "over"
        /\ report' = Outcome \/ report' = "none"
        /\ UNCHANGED <<child, exitCode, handler, cancelResult, windows>>
        /\ UNCHANGED flags
    BY <1>4 DEF Report
  <2>2. child = "closed"
    BY <2>1 DEF EInv, MainOK, HasExited, Gone, settled
  <2>3. TypeOK'
    BY <2>1, <2>2, OutcomeType DEF EInv, TypeOK, flags
  <2>4. report' = "succeeded" => ~timedOut /\ ~cancelled /\ ~bridgeStopped
    BY <2>1 DEF Outcome
  <2> QED
    BY <2>1, <2>2, <2>3, <2>4 DEF EInv, MainOK, HasExited, Gone, settled, OneCause,
                                  InterruptedNeverSucceeds, flags
<1> QED
  BY <1>1, <1>2, <1>3, <1>4 DEF MainStep

LEMMA LateFlags ==
  ASSUME NEW h \in Handler,
         Posted(h) \/ Terminate(h) \/ AwaitExit(h) \/ Linger(h) \/ ForceKill(h)
           \/ Forced(h) \/ Reported(h)
  PROVE  UNCHANGED flags
  BY DEF Posted, Terminate, AwaitExit, Linger, ForceKill, Forced, Reported

LEMMA NextEInv == EInv /\ [Next]_vars => EInv' /\ (settled => UNCHANGED flags)
<1> SUFFICES ASSUME EInv, [Next]_vars PROVE EInv' /\ (settled => UNCHANGED flags)
  OBVIOUS
<1>1. CASE ChildExits \/ ChildCloses \/ MainStep
  BY <1>1, MainMove
<1>2. ASSUME NEW h \in Handler, Fire(h) \/ HandlerStep(h)
      PROVE  EInv' /\ (settled => UNCHANGED flags)
  BY <1>2, FireStep, DecideStep, LateStep, LateFlags DEF HandlerStep
<1>3. CASE UNCHANGED vars
  BY <1>3 DEF vars, flags, EInv, TypeOK, MainOK, HasExited, Gone, settled, OneCause, InterruptedNeverSucceeds
<1> QED
  BY <1>1, <1>2, <1>3 DEF Next

LEMMA EInvariant == Spec => []EInv
<1>1. Init => EInv
  BY DEF Init, EInv, TypeOK, ChildState, HandlerPc, FinalStatus, MainOK, HasExited, Gone, settled, OneCause,
         InterruptedNeverSucceeds
<1>2. EInv /\ [Next]_vars => EInv'
  BY NextEInv
<1> QED
  BY <1>1, <1>2, PTL DEF Spec

\* A run that a timer, a cancellation or the retirement of the bridge decided to end
\* is never reported to the server as a success (index.mjs:1386-1464).
THEOREM InterruptedIsNoSuccess == Spec => []InterruptedNeverSucceeds
<1>1. EInv => InterruptedNeverSucceeds
  BY DEF EInv
<1> QED
  BY <1>1, EInvariant, PTL

\* After the child has closed no callback changes the cause of the run's outcome,
\* through all awaits of the drain and the report (index.mjs:1029-1034, 1368-1375).
THEOREM CauseIsFixed == Spec => CauseFixedOnceSettled
<1>1. EInv /\ [Next]_vars => [settled => UNCHANGED flags]_vars
  BY NextEInv
<1> QED
  BY <1>1, EInvariant, PTL DEF Spec, CauseFixedOnceSettled

\* Whatever callbacks, awaits and failing signals do, the run's variables keep their
\* types, and a report is sent only for a child that has closed (index.mjs:1368-1375).
THEOREM ExecutorTypeOK == Spec => []TypeOK
<1>1. EInv => TypeOK
  BY DEF EInv
<1> QED
  BY <1>1, EInvariant, PTL

\* A timeout and a cancellation never both claim the run (index.mjs:1242, 1292).
THEOREM OneCauseOnly == Spec => []OneCause
<1>1. EInv => OneCause
  BY DEF EInv
<1> QED
  BY <1>1, EInvariant, PTL

-----------------------------------------------------------------------------
(* The refinement of AgentRun.                                              *)

LEMMA SameRun ==
  ASSUME Gone' = Gone, UNCHANGED <<main, cancelled, report>>
  PROVE  UNCHANGED Run!vars
  BY DEF Run!vars, Phase, settled

\* A cancelled run has no other cause, so that what it reports says no more than that.
LEMMA OutcomeOfPhase ==
  ASSUME OneCause
  PROVE  Outcome \in IF cancelled THEN {"cancelled", "failed"}
                                  ELSE {"succeeded", "failed", "timed_out"}
  BY DEF OneCause, Outcome

LEMMA ReportEndsRun ==
  ASSUME EInv, Report
  PROVE  Run!End
<1>1. /\ main = "reporting" /\ main' = "over"
      /\ report' \in {Outcome, "none"}
      /\ child' = child /\ cancelled' = cancelled
  BY DEF Report, flags
<1>2. Phase = (IF cancelled THEN "killed" ELSE "exited") /\ Phase' = "ended"
  BY <1>1 DEF Phase, settled
<1>3. report' \in IF cancelled THEN {"cancelled", "failed"} \cup {"none"}
                               ELSE {"succeeded", "failed", "timed_out"} \cup {"none"}
  BY <1>1, OutcomeOfPhase DEF EInv
<1> QED
  BY <1>1, <1>2, <1>3 DEF Run!End, Gone

LEMMA MainRun ==
  ASSUME EInv, ChildExits \/ ChildCloses \/ MainStep
  PROVE  [Run!Next]_(Run!vars)
<1>1. CASE ChildExits
  BY <1>1 DEF ChildExits, Gone, flags, Phase, settled, Run!AgentEnds, Run!Next
<1>2. CASE ChildCloses
  BY <1>2, SameRun DEF ChildCloses, Gone, flags
<1>3. CASE Settle
  <2>1. Phase = (IF cancelled THEN "killing" ELSE "executing")
    BY <1>3 DEF Settle, Phase, settled
  <2>2. Phase' = (IF cancelled THEN "killed" ELSE "exited")
    BY <1>3 DEF Settle, Phase, settled, flags
  <2> QED
    BY <1>3, <2>1, <2>2 DEF Settle, Gone, Run!Over, Run!Next
<1>4. CASE Flush
  <2>1. Phase' = Phase /\ UNCHANGED <<child, report>>
    BY <1>4 DEF Flush, Phase, settled, flags
  <2> QED
    BY <2>1 DEF Run!vars, Gone
<1>5. CASE Report
  BY <1>5, ReportEndsRun DEF Run!Next
<1> QED
  BY <1>1, <1>2, <1>3, <1>4, <1>5 DEF MainStep

\* Of the handlers only the cancellation's decision is a step of the run: the request
\* to stop.
LEMMA HandlerRun ==
  ASSUME EInv, NEW h \in Handler, Fire(h) \/ HandlerStep(h)
  PROVE  [Run!Next]_(Run!vars)
<1>1. CASE Fire(h)
  BY <1>1, SameRun DEF Fire, Gone, flags
<1>2. CASE Decide(h)
  <2>1. UNCHANGED <<child, main, report>>
    BY <1>2 DEF Decide
  <2>2. CASE cancelled' = cancelled
    BY <2>1, <2>2, SameRun DEF Gone
  <2>3. CASE cancelled' # cancelled
    <3>1. ~Ignored(h) /\ cancelled' = (cancelled \/ h = "cancel")
      BY <1>2, <2>3 DEF Decide, flags
    <3>2. ~settled /\ ~cancelled /\ cancelled'
      BY <2>3, <3>1 DEF Ignored, EInv, TypeOK
    <3>3. Phase = "executing" /\ Phase' = "killing"
      BY <2>1, <3>2 DEF Phase, settled
    <3> QED
      BY <2>1, <3>3 DEF Run!Stop, Run!Next, Gone
  <2> QED
    BY <2>2, <2>3
<1>3. CASE Posted(h) \/ Terminate(h) \/ AwaitExit(h) \/ Linger(h) \/ ForceKill(h)
           \/ Forced(h) \/ Reported(h)
  <2>1. UNCHANGED <<main, cancelled, report>>
    BY <1>3 DEF Posted, Terminate, AwaitExit, Linger, ForceKill, Forced, Reported, flags
  <2>2. child' = child \/ (~Gone /\ child' \in {"signalled", "killed"})
    BY <1>3 DEF Posted, Terminate, AwaitExit, Linger, ForceKill, Forced, Reported, Kill, Gone
  <2>3. Gone' = Gone
    BY <2>2 DEF Gone
  <2> QED
    BY <2>1, <2>3, SameRun
<1> QED
  BY <1>1, <1>2, <1>3 DEF HandlerStep

\* For every interleaving of the handlers with the awaits of the main flow, on both
\* platforms and with failing posts and signals, the bridge runs an agent as the
\* delivery of invocations assumes (index.mjs:1029-1034, 1210-1330, 1368-1483).
THEOREM ExecutorKeepsRun == Spec => KeepsRun
<1>1. Init => Run!Init
  BY DEF Init, Run!Init, Phase, settled, Gone
<1>2. EInv /\ [Next]_vars => [Run!Next]_(Run!vars)
  <2> SUFFICES ASSUME EInv, [Next]_vars PROVE [Run!Next]_(Run!vars)
    OBVIOUS
  <2>1. CASE UNCHANGED vars
    BY <2>1, SameRun DEF vars, flags, Gone
  <2> QED
    BY <2>1, MainRun, HandlerRun DEF Next
<1> QED
  BY <1>1, <1>2, EInvariant, PTL DEF Spec, KeepsRun, Run!Spec

-----------------------------------------------------------------------------
(* Nobody forgets an interrupted run.                                       *)

LEMMA StepPcs ==
  ASSUME TypeOK, NEW h \in Handler, NEW from, NEW to, Step(h, from, to)
  PROVE  /\ handler[h] = from /\ handler'[h] = to
         /\ \A k \in Handler : k # h => handler'[k] = handler[k]
  BY DEF TypeOK, Step

\* What a termination that is over leaves behind.
LEMMA FinishPursues ==
  ASSUME TypeOK, NEW h \in Handler, NEW from, NEW result, NEW forced,
         Finish(h, from, result, forced),
         result = "failed" \/ (child \in {"killed", "exited", "closed"})'
  PROVE  Pursued'
  BY DEF Finish, Pursued, KillFailed, Gone

LEMMA LatePursues ==
  ASSUME EInv, NEW h \in Handler,
         Posted(h) \/ Terminate(h) \/ AwaitExit(h) \/ Linger(h) \/ ForceKill(h)
           \/ Forced(h) \/ Reported(h),
         Pursued
  PROVE  Pursued'
<1> TypeOK
  BY DEF EInv
<1>1. /\ child = "killed" => child' = "killed"
      /\ Gone => Gone'
  BY DEF Posted, Terminate, AwaitExit, Linger, ForceKill, Forced, Reported, Kill, Gone
<1>2. \A c : KillResult(c) = "failed" \/ c \in {"killed", "exited", "closed"}
  BY DEF KillResult
<1>3. ASSUME NEW from, NEW to, Step(h, from, to), cancelResult' = cancelResult,
             from # "failed", from \in AtWork => to \in AtWork \cup {"failed"}
      PROVE  Pursued'
  <2>1. /\ handler[h] = from /\ handler'[h] = to
        /\ \A k \in Handler : k # h => handler'[k] = handler[k]
    BY <1>3, StepPcs
  <2>2. PostFailed => PostFailed'
    BY <1>3, <2>1 DEF PostFailed
  <2>3. KillFailed => KillFailed' \/ Gone'
    BY <1>3 DEF KillFailed
  <2>4. ASSUME NEW k \in Handler, handler[k] \in AtWork PROVE Pursued'
    BY <1>3, <2>1, <2>4 DEF Pursued, PostFailed
  <2> QED
    BY <1>1, <2>2, <2>3, <2>4 DEF Pursued
<1>4. CASE Posted(h) \/ ForceKill(h) \/ Reported(h)
  <2>1. cancelResult' = cancelResult
    BY <1>4 DEF Posted, ForceKill, Reported
  <2>2. CASE Posted(h)
    BY <1>3, <2>1, <2>2 DEF Posted, AtWork
  <2>3. CASE ForceKill(h)
    BY <1>3, <2>1, <2>3 DEF ForceKill, AtWork
  <2>4. CASE Reported(h)
    BY <1>3, <2>1, <2>4 DEF Reported, AtWork
  <2> QED
    BY <1>4, <2>2, <2>3, <2>4
<1>5. CASE Terminate(h)
  <2>1. CASE Gone \/ HasExited
    BY <1>1, <2>1 DEF Pursued, EInv, MainOK
  <2>2. CASE \E to \in {"grace", "forcing"} :
                Step(h, "terminating", to) /\ cancelResult' = cancelResult
    BY <1>3, <2>2 DEF AtWork
  <2>3. CASE Finish(h, "terminating", "failed", FALSE)
    BY <2>3, FinishPursues
  <2> QED
    BY <1>5, <2>1, <2>2, <2>3 DEF Terminate
<1>6. CASE AwaitExit(h)
  <2>1. CASE Gone
    BY <1>1, <2>1 DEF Pursued
  <2>2. CASE Finish(h, "grace", KillResult(child'), TRUE)
    BY <1>2, <2>2, FinishPursues
  <2>3. CASE Step(h, "grace", "forcing") /\ cancelResult' = cancelResult
    BY <1>3, <2>3 DEF AtWork
  <2> QED
    BY <1>6, <2>1, <2>2, <2>3 DEF AwaitExit
<1>7. CASE Linger(h)
  BY <1>1, <1>7 DEF Linger, Pursued
<1>8. CASE Forced(h)
  <2>1. Finish(h, "taskkill", KillResult(child), TRUE) /\ child' = child
    BY <1>8 DEF Forced
  <2> QED
    BY <1>2, <2>1, FinishPursues
<1> QED
  BY <1>4, <1>5, <1>6, <1>7, <1>8

LEMMA DecidePursues ==
  ASSUME TypeOK, NEW h \in Handler, Decide(h), NeverAbandoned
  PROVE  NeverAbandoned'
<1>1. UNCHANGED <<child, cancelResult>>
  BY DEF Decide
<1>2. CASE Ignored(h) /\ Step(h, "due", "done") /\ UNCHANGED flags
  <2>1. handler[h] = "due" /\ \A k \in Handler : k # h => handler'[k] = handler[k]
    BY <1>2, StepPcs
  <2>2. ASSUME NEW k \in Handler, handler[k] \in AtWork \cup {"failed"}
        PROVE  handler'[k] = handler[k]
    BY <2>1, <2>2 DEF AtWork
  <2> QED
    BY <1>1, <1>2, <2>2 DEF NeverAbandoned, Pursued, Interrupted, Gone, PostFailed, KillFailed, flags
<1>3. CASE Step(h, "due", FirstAwait(h))
  <2>1. handler'[h] \in AtWork
    BY <1>3, StepPcs DEF FirstAwait, AtWork
  <2> QED
    BY <2>1 DEF NeverAbandoned, Pursued
<1> QED
  BY <1>2, <1>3 DEF Decide

\* A firing callback and the main flow only add to what is due, or find the child gone.
LEMMA OtherPursues ==
  ASSUME EInv, NeverAbandoned, ChildExits \/ ChildCloses \/ MainStep \/ \E h \in Handler : Fire(h)
  PROVE  NeverAbandoned'
<1>1. CASE ChildExits \/ ChildCloses
  BY <1>1 DEF ChildExits, ChildCloses, NeverAbandoned, Pursued, Gone
<1>2. CASE MainStep
  <2>1. child = "closed" /\ child' = "closed"
    BY <1>2 DEF EInv, MainOK, HasExited, Gone, settled, MainStep, Settle, Flush, Report
  <2> QED
    BY <2>1 DEF NeverAbandoned, Pursued, Gone
<1>3. ASSUME NEW h \in Handler, Fire(h) PROVE NeverAbandoned'
  <2>1. handler[h] = "idle" /\ \A k \in Handler : k # h => handler'[k] = handler[k]
    BY <1>3, StepPcs DEF Fire, EInv
  <2>2. ASSUME NEW k \in Handler, handler[k] \in AtWork \cup {"failed"}
        PROVE  handler'[k] = handler[k]
    BY <2>1, <2>2 DEF AtWork
  <2> QED
    BY <1>3, <2>2 DEF Fire, NeverAbandoned, Pursued, Interrupted, Gone, PostFailed,
                          KillFailed, flags
<1> QED
  BY <1>1, <1>2, <1>3

\* The part of InterruptedIsReported that no scheduling can repair: while the agent of an
\* interrupted run lives, some handler still owes it the next signal, although the first
\* of them turns the others away (index.mjs:1242, 1269, 1292, 1318, 3308-3397).
THEOREM InterruptedIsPursued == Spec => []NeverAbandoned
<1>1. Init => NeverAbandoned
  BY DEF Init, NeverAbandoned, Interrupted
<1>2. EInv /\ NeverAbandoned /\ [Next]_vars => NeverAbandoned'
  <2> SUFFICES ASSUME EInv, NeverAbandoned, [Next]_vars PROVE NeverAbandoned'
    OBVIOUS
  <2>1. TypeOK
    BY DEF EInv
  <2>2. ASSUME NEW h \in Handler,
               Posted(h) \/ Terminate(h) \/ AwaitExit(h) \/ Linger(h) \/ ForceKill(h)
           \/ Forced(h) \/ Reported(h)
        PROVE  NeverAbandoned'
    <3>1. Interrupted' = Interrupted
      BY <2>2, LateFlags DEF Interrupted, flags
    <3>2. Pursued => Pursued'
      BY <2>1, <2>2, LatePursues
    <3> QED
      BY <3>1, <3>2 DEF NeverAbandoned
  <2>3. CASE UNCHANGED vars
    BY <2>3 DEF vars, flags, NeverAbandoned, Pursued, Interrupted, Gone, PostFailed,
                KillFailed
  <2> QED
    BY <2>1, <2>2, <2>3, DecidePursues, OtherPursues DEF Next, HandlerStep
<1> QED
  BY <1>1, <1>2, EInvariant, PTL DEF Spec
=============================================================================
