# Formal model of the agent control plane

TLA+ specifications of the parts of *myagenttool* that decide whether an agent
runs, how often, where, and how its run ends, with TLC configurations that check
them on small instances and TLAPS proofs of the most important results.  Paths
below are relative to `src/`; the server is `apps/server/src`, the Desktop Bridge
`apps/desktop/src`.

## 1. The system

A Node server keeps one state object in memory and serves a web console and one
*Desktop Bridge* per device.  A user creates an *invocation* of an agent; the
server queues it, hands it to the bridge of the device, and the bridge runs the
agent as a process and reports how it ended.

Two facts shape every model.  In the server a synchronous handler is atomic and
handlers interleave at every `await`.  The whole state is written at once, either
synchronously (`persistStateNow`) or by a timer 20 ms later (`persistStateSoon`),
which a crash forestalls.

| Component | State | Operations | Hard behaviour | What makes it correct |
|---|---|---|---|---|
| Single-writer lock (`runtime/state-lock.mjs`) | a file with pid and host | acquire, reclaim, release | racing starters, crash between create and write, stale pids, pid reuse | one writer; an ordinary restart is never blocked |
| Acceptance and approval (`services/invocations/creation.mjs`, `approval.mjs`) | invocation, approval request | create, approve, deny | crash after the answer; a decision that races a cancellation | a refused invocation never runs; an accepted one is not lost |
| Dispatch (`services/invocations/dispatch.mjs`, `dispatch-eligibility.mjs`) | status, delivery state, attempts, lease | next, ack, redeliver, reclaim | lapsed leases, lost answers, cap and directory exclusion over restarts | one execution, one writer per directory, cap, progress |
| Cancellation (`services/invocations/cancellation.mjs`) | cancellation record | queued, in-flight, unlink | races with ack, completion, unlink | auditable and final |
| Completion (`services/invocations/completion.mjs`) | outcome, charge | complete | duplicates, late reports, deadline | decided once, charged once |
| Bridge routes and credentials (`routes/bridge.mjs`, `routes/agents.mjs`, `runtime/bridge-auth.mjs`) | credential, session id | register, next, ack, refuse, complete | authenticated before the body is awaited | a superseded process has no say |
| Device (`runtime/service-composer.mjs`) | online, linked | liveness sweep, supersede, unlink, relink | timers against late answers | no work on an unlinked device |
| Persistence (`runtime/persistence.mjs`, `state-transaction.mjs`) | store | flush now, flush soon, restore | crash between answer and write | what was answered survives |
| Bridge run (`index.mjs: runInvocation`) | child process, flags | timeout, watchdog, cancel, retire, report | handlers interleave at awaits; posts and signals fail | one cause, reported, agent ended |
| Fair selection (`dispatch-fairness.mjs`) | - | choose | starvation | least loaded, then oldest |
| Budget reservations (`services/m3.mjs`) | holds, spend | reserve, release, reconcile | released by several paths, some of which a cancelled run does not take | spend and holds within the limit, a hold for whatever may still spend |
| Approval grants (`services/approval-grants.mjs`) | grants | issue, use, expire | a grant for another text or another thing | used once, for what its issuer was shown |
| Cancellation signal (`services/cancellation-signal.mjs`) | waiters | wait, notify, time out | lost wake-up | every waiter is answered |
| Direct HTTP agents (`direct-http.mjs`) | request, slots, queue, all in memory | start, park, drain, time out, abort | answer, timeout, abort and reclaim in any order; a restart | one request, one outcome, one charge; exact slots; nobody forgotten in the queue |
| Issue claims, auto-run, work-item scheduler | leases, stages | claim, renew, take over, resume | crash between stages | one worker per issue |
| Channel delivery (`services/channel-delivery.mjs`) | rows with attempts and claims | enqueue, sweep, retry, resend, acknowledge | awaited sends that overlap with people and other sweeps; a crash with a row claimed | shown as often as a human asked, true and final receipts, every row ends |
| Mail sending (`services/mail-send.mjs`) | draft, its run | edit, confirm, send, fold of the end | three commits, late and unknown ends | every mail was approved as shown, no silent second mail |
| Alert outbox | outbox | enqueue, send, retry | unknown outcome | at least once |
| Loop registry (`tools/ai/src/loop/registry.mjs`) | files | claim, release | processes race | one owner per loop |

Components interact by calls inside the server, by HTTP between server and bridge
(the bridge always asks: poll, ack, complete, long poll for cancellations), and
through the file system (state file, lock, worktree directories).  `PROJECT.json`
lists every component, the ones that are not modelled too, and the hazards.

## 2. Modules

| Module | Models | Holds |
|---|---|---|
| `StateLock` | `state-lock.mjs` and its call in `index.mjs` | specification and properties |
| `StateLock_proofs` | | types; mutual exclusion and refusals for serial starts |
| `RunOnce` | abstract: what delivery promises of an invocation | specification |
| `AgentRun` | abstract: what a delivery relies on in the run of one agent | specification |
| `Outbox` | abstract: what an outbox promises of each message | specification |
| `InvocationDelivery` | acceptance, approval, dispatch, cancellation, completion, bridge routes, sessions, sweep, and the bridge's side of a delivery | specification, properties, refinement of `RunOnce` |
| `InvocationDelivery_proofs` | | types, single execution, permission, time-outs, unlink, attempts, that nothing strands |
| `ExecutorSafety_proofs` | | what holds of the agents on the device, whenever the timers run out: directories, the cap, no start after the end, `RunOnce` |
| `InvocationDurability` | `InvocationDelivery` on a server that crashes, with the moments of each write | specification, properties, refinement of `RunOnce` by the store |
| `InvocationDurability_proofs` | | what a crash of the server keeps; the theorems about the delivery over restarts; that the store implements `RunOnce` |
| `BridgeExecutor` | one command-line run inside the bridge | specification, properties, refinement of `AgentRun` |
| `BridgeExecutor_proofs` | | types, one cause, its outcome, its pursuit, and that `BridgeExecutor` implements `AgentRun` |
| `BudgetReservations` | the gate, the holds and their release in `m3.mjs` | operators on holds and spend |
| `DirectHttp` | remote HTTP agents: acceptance with a hold, slots, queue, request, cancellation, charge, restart; uses `BudgetReservations` | specification, properties, refinement of `RunOnce` |
| `DirectHttp_proofs` | | types, slots and queue, that nobody waits in vain, the budget, and that `DirectHttp` implements `RunOnce` |
| `ChannelDelivery` | outbound messages of one conversation and the notification of one result | specification, properties, refinement of `Outbox` |
| `ChannelDelivery_proofs` | | receipts, the number of times a message is shown, and that `ChannelDelivery` implements `Outbox` |
| `ApprovalGrants` | the grants of `approval-grants.mjs` | operators on one grant |
| `MailSend` | the send of one draft; uses `ApprovalGrants` | specification and properties |
| `MailSend_proofs` | | approval, number of mails, finality, that a draft being sent is awaited |
| `MCStateLock`, `MCInvocationDelivery`, `MCInvocationDurability`, `MCDirectHttp` | | definitions of directories, agents and symmetries for TLC |

Operators named `Operator_Change` are plausible mistakes in `Operator`.  No
specification uses them; they show that the properties would notice.

### StateLock

A process is one server with a pid.  `Open` is `openSync(.., "wx")`, `WriteOwner`
the write that follows it (between the two the file is empty and `ReadLock` is
null), `ReadHolder` and `Decide` the judgement of an existing file, `UnlinkStale`
and the second `Open` the reclaim.  `ReadOwn` and `UnlinkOwn` are `release()`,
which runs in the shutdown handler and again in the exit handler.  An unlink that fails
is swallowed (`state-lock.mjs:103-107`): the second create then finds the file still there
(`retry`) and refuses the start, which is the one exception of `RefusedForACause` and
`RestartServes`.  `Crash` skips both releases.  `Recycle` gives the pid of a dead server to
another program.

`SerialStarts` restricts `Start` to moments at which no other process is inside
the acquisition.  The code does not enforce it.  With it the lock is exclusive;
without it (`state_lock_concurrent`) it is not: a starter that meets a file that
is created but not yet written judges it stale.

### InvocationDelivery

`inv` is the server's record of each invocation: status, delivery state, dispatch
attempts, approval, cancellation state, whether a supersession or a deadline is
pending, and the number of ledger entries.  `current`, `online`, `linked` and
`paired` are the device: the session id of the bridge process that registered
last, liveness, link state, and whether a token is valid.  `proc` is what each
bridge process does.  `task[i]` has one entry per hand-over of invocation `i`, with
the session it went to and where it is: claimed, asking for the ack, granted,
executing, being killed, reporting, over.

One action is one handler.  Those whose effects differ only in which record they
touch are functions of a record, named as in the code (`Completed`,
`QueuedCancelled`, `Fenced`, `LeaseLapsed`, ...), so a poll is their composition:
`Poll` redelivers lapsed leases, drains supersessions, reclaims stuck
cancellations, and leases one of `Dispatchable`.  A request with a body has two
actions, `SendAck` (authenticated) and `HandleAck` (applied), because
`requireBridgeCredential` runs before `await readJson`.  The poll has no body and
is one step.  `Lose` loses any request or answer.  `ExitBridge` is a crash or a
retirement; agents of a dead bridge go on until the process-tree guardian ends
them (`OrphanEnds`).

Time is abstracted: a poll or a sweep chooses which leases, graces and deadlines
have run out, and any may run out at any time, because the server measures them by its
own clock and knows nothing of the agents.  The code does not keep them apart either: a
supersession grants 5 s (`service-composer.mjs:1952`), the drain of the superseded process
takes up to 10 s (desktop `index.mjs:4002`).  So a reclaim may end the record of an agent
that lives.  `WrittenOff` says what is then on record: nothing charged, and timed out, or
cancelled by request, or failed after another session took over.  The properties about
agents say that two share a directory, or are one too many, only if one of them bears that
mark.  Nothing else may lead there: not a lost answer, a late report, a lapse, a decision
or a restart.  The claim of `dispatch-eligibility.mjs:26-27` itself, without the exception,
is `NoTwoWriters`, and fails (section 4).

What is abstracted or left out: which of the dispatchable invocations the fair
selection takes (any); agents that are disabled, unhealthy or missing and
worktrees kept busy by a reaction (agents are enabled and healthy); agents that run
off the device (direct HTTP and platform agents); the reasons for which acceptance
rejects; the bridge's own capacity; several devices; token rotation and idle
expiry; an operator who changes `maxConcurrency` (it is a constant).  The delivery
states `exhausted` and `refused`, which the code uses, are part of the model
although the vocabulary in `packages/protocol` does not list them.

### RunOnce and the refinement

`RunOnce` says what the client of the whole apparatus gets: a permit to execute
is issued at most once, while the outcome is open, and used at most once; the outcome is
decided once; a charge comes with the outcome and only for a used permit.  A permit is
not called back: over an outcome in `GivenUp` it may still be used, and is not charged
then.  `InvocationDelivery!KeepsPromise` is that specification under the mapping
`outcome` = the terminal status, `permit` = what became of the granted delivery,
`charges` = the ledger entries.

For bridges, `GivenUp` is cancelled, failed or timed out: a superseded process may have
been granted its start, and use it after the sweep has ended the record.  What was
rejected, denied or withdrawn before the ack has no permit, and what succeeded used it.
For remote runs, whose requests the server makes itself, `GivenUp` is empty.

### InvocationDurability

`durable` is what the store holds.  `Commits` lists the transitions that end in
`persistStateNow`: acceptance, decisions, lease, ack, completion.  Because the
whole state is written at once, a committing step makes every earlier debounced
change durable too.  `Flush` is the debounce timer.  `CrashRestart` restores the
store, marks the device offline and loses the requests being read; the bridge
processes and their agents live on.  `withdrawn` is what a user was told: the
invocations whose cancellation was confirmed while they waited.

A write is assumed to succeed.  The code logs one that fails and answers all the same
(`persistence.mjs:688-695`); then a crash loses what was answered, and no property of the
store could hold.  The hazard is listed without a property.

`KeepsStoredPromise` maps `RunOnce` onto what a restart would read: outcome and charges
are those of the store, the permit is what became of the granted delivery on the device,
which survives the server.  So the promise is not one that a crash takes back.

### BridgeExecutor

`main` is the main flow of `runInvocation` after the spawn: it awaits the close of
the child, drains the output, reports.  The handlers are the total timeout, the
watchdog of a silent command, the cancellation and the retirement of the process.
`Fire` queues a callback, `Decide` is its guard and the flag it sets, and the
other actions are the parts between its awaits: the post that announces it, the
signal or `taskkill`, the wait for the exit, the forced kill, the posts afterwards.
On Windows `taskkill` is a process that is awaited; elsewhere signals are sent at
once; `windows` is chosen at the start.  A child that a signal ended has no `exitCode`, and
the handlers take it for alive (`index.mjs:3279-3281`, `HasExited` against `Gone`): they
signal a group that is gone, which fails, or wait for its pipes and kill what is left of it
(`Linger`).  `PostsMayFail` and `KillsMayFail` enable failures.  The MCP, A2A, container,
Claude SDK and Codex app-server runtimes are not modelled.

`AgentRun` is the run as `InvocationDelivery` assumes it (`DeliverCancel`,
`ExecutorEnds`, `SendComplete`): it executes, or is being killed, until its agent is
gone, and then reports once.  `KeepsRun` maps `phase` by `Phase`: *killing* is the time
between the flag of a cancellation and the close of the child, *ended* the end of the
main flow.  A cancelled run reports `cancelled` or `failed`, any other what its exit or
its timeout says.

### BudgetReservations and DirectHttp

`Invocation` stands for every run of one project whose budget has the policy
"block" and for which holds are switched on (`reservationEstimateUsd` is set;
without it `reserveBudget` places none).  `hold` belongs to the invocation; the
holds an auto-run places under its own id, and the team pool, which is the same
test over the projects of a team, are not modelled.

`call[i]` is the request of `i`, `place[i]` its place in the array `pending`,
`scheduled` the set that keeps an invocation from being started twice.  None of
them is stored.  `Create` and `Approve` commit and leave `handler = i`: the process
may die before `Start(i)`.  `Settle` is `runHttpInvocation` from the answer (or the
error its `catch` sees) to the end of `launch`'s `finally`: `Settled` is what
`completeInvocation` does to the ledger, `GiveBack` the slot and the drain.  `Drained`
says which set a pass through the queue launches, without walking through it.
`store` holds record, holds and ledger; `Commit` marks the handlers that write at
once.  `Cancel` and `Unlink` are only debounced.  `CrashAfterHold` is a crash
between the two transactions of `createInvocation`.

`KeepsPromise` maps `RunOnce` onto the *store*: the outcome is the stored one, the
permit is issued when the stored record was accepted and approved, and used by the
first request.

Unlinking a device cancels every open invocation, the remote ones too
(`cancellation.mjs:64-76`), although `docs/vision/INVOCATION_DELIVERY.md:119` speaks
of the ones "for that device"; it does not abort their requests.

### ChannelDelivery

`row[d]` is a row of `state.channelDeliveries`.  `sweep[w]` is a pass of the sweep: `Begin`
collects what is due, `Attempt` is `attemptDelivery` up to its `await`, `Answer` the
rest.  `Free` says that no synchronous handler is between two of its commits.  `BeginWith`
chooses which claims are stale and which backoffs are over; a second pass does not begin
while one is under way.  `Crash` leaves the rows, and the start-up runs the recovery of
notifications first.  `EnqueueNotice` may fail to write its row, and then releases the
notification key (`channel-delivery.mjs:610-619`).  The attempts of a row may exceed
`MAX_DELIVERY_ATTEMPTS` by one for each crash, because the claim of a stale row
(`channel-delivery.mjs:457-466`) does not ask whether it is exhausted.  Message bodies,
provider payloads and the choice of a sender are left out.

A request that left is in `wire` until the provider takes it (`Accept`) or refuses it.
It stays there when its sender gives up, after the timeout of its `fetch` (10 s for most)
or by a crash: the provider may take it afterwards, when the row has been retried.
`doubted` collects the requests that were given up without an answer, `shown` the ones the
user saw.  `IdempotencyKey` is the client id of the row, which only a manual retry changes.
`attemptDelivery` passes it on, but of the six senders only iLink's puts it into its request
(`ilink-client.mjs:277`); the ones for Slack, Feishu, Teams, DingTalk and WeCom drop it (WeCom
has a check of contents for 600 s).  `ProviderDedupes` says whether the provider is sent
the id and uses it.  The run sets it to FALSE, the proofs leave it open.

So a message *can* be shown twice without being asked for.  `ShownAsAsked` says when: only if
one of the two requests was given up without an answer, and never where the provider
dedupes.  A refusal, an overlapping pass, a stale claim by itself or a second look at the
row shows nothing twice.  The unconditional claim of the comment at `:453-456` is
`ResendIsDeduped`, and fails (section 4).

`Outbox` is what the rest of the server gets of a message: one request at a time, made
while the message is open; each shown once at most, perhaps after its sender gave it up; a
receipt only for a request that arrived, taken back only by asking again.  In `KeepsOutbox`
a row was asked for `client + 1` times, `awaited` is the request of the sweep that holds the
row, and a row that is queued, claimed or backing off is "open".  The mapping holds whatever
the provider makes of client ids.

### ApprovalGrants and MailSend

A grant is issued, consumed, and binds to a scope: here the revision of the draft,
or something else (`Foreign`).  A grant that expired or was pruned is one that nobody
uses.  The confirming dialog issues for the revision it shows; `seen[g]` is what the
draft said then, `text` numbers the wordings.  Drafts made of a reviewed reply start at
revision 0 (`mail-reply-draft.mjs:170`).

`sendConfirmedDraft` has three commits, so it is `Confirm`, `CreateRun`, `Dispatched`,
and a denial is `Deny`, `AfterDenial`; a crash may come between any two.  A run is
seen as what `InvocationDelivery` promises: it begins once and ends once, and its mail
may leave after the server has decided its outcome.  `Ending` lists how it may end and
`May` what is then true of the mail; `Folded` is what the draft becomes.

An error tells nothing of the mail.  The tool throws when the receipt has no id
(`tools/mail-mcp/src/send-163.mjs:31-32`) and when the connection breaks after the data, both
after the provider took it; the tool's server and the bridge make a failed run of either
(`tools/mail-mcp/src/server.mjs:103-106`, desktop `mcp-client.mjs:386-393`), and
`recordMailSendResult` takes a failed run for one that sent nothing.  So `May` allows a
failure at any time, and `MailedOnce` sets the failed runs aside and says that nothing
*else* makes a mailed draft sendable again.  `untold` collects what the code cannot know:
the runs whose creation the draft was never told of, because the server crashed before the
third commit.  `SendableIsUnsent`, the claim of `mail-send.mjs:203-204`, fails (section 4).

What no property calls wrong: after a crash between the creation of the run and the commit
of the draft the draft is sendable while its run is alive (`untold`), and after one between
a denial and its hook the draft stays `sending`.  `recordMailSendResult` looks at the status
of the draft and not at `sendInvocationId` (`mail-send.mjs:180-184`), so an answer of an
earlier run settles the draft; `ResolvedForGood` holds all the same.  That a caller of
`createInvocation` could put `mailSendDraftId` into the metadata of a run of its own, since
the key is not reserved, is not modelled: every run here is one of `sendConfirmedDraft`.

## 3. Checks

All bounds are constants of the configurations; no state constraint is used.

| Run | Bounds | Shows |
|---|---|---|
| `state_lock_serial` | 3 servers, any number of starts and crashes | one writer, its record on file, no refusal without a cause, a restart that is left alone serves |
| `state_lock_concurrent` (violation) | 2 servers | two owners when starts overlap |
| `delivery_once` | 1 invocation, 2 bridge processes, 2 attempts | one execution, nothing unpermitted or unlinked starts, attempts bounded, nothing that no reclaim would find, deadline outcome, final outcome, `RunOnce`, an end while a bridge polls |
| `delivery_directory` | 2 invocations in one directory, 2 processes, cap 2 | two agents in the directory only over a run that a reclaim wrote off |
| `delivery_contention` | 2 invocations in two directories, 1 process, cap 1 | agents within the cap, written-off ones aside, and both end |
| `delivery_stale_ack` (violation) | 1 invocation, 2 processes | an ack granted to a superseded process |
| `durability_crash` | 1 invocation, 2 processes, 2 crashes | acceptance, decisions, starts and outcomes are durable, no second execution, `RunOnce` kept by the store |
| `executor_run` | all four handlers, both platforms, failing posts and signals | `AgentRun`, a cause fixed at close, no success and no neglect of an interrupted run, its report, an agent that ends with its bridge |
| `executor_timeout` (violation) | failing posts | a timed-out agent that is not killed |
| `remote_http` | 3 invocations of 2 agents, 2 slots, 1 per agent, holds of 2 against a limit of 5, cost 0 or 3, 1 crash | slots and queue, nobody scheduled in vain, budget in memory and store, `RunOnce` over the restart, accepted runs settle |
| `channel_sweep` | 2 rows, 2 attempts, 1 manual retry of the first row, 2 sweeps, 1 crash, 1 late request, no dedupe by the provider | shown again only for want of an answer, `Outbox`, every row ends |
| `mail_send` | 3 grants, 3 runs, revisions up to 2, 1 crash | approved as shown, no second mail but over failed and untold runs, finality, a sent draft's end |

Why the bounds are enough to be interesting.  Two bridge processes are the fewest
for a delivery that meets a supersession while its ack is on the way.  Two attempts
are the fewest for a lapse that requeues and one that exhausts; with the one attempt
a supersession adds, an invocation is handed out up to three times.  The hand-overs
are bounded by attempts plus processes, so `task` needs no bound of its own, and
`AttemptsBounded` is that fact.  Directory and cap are relations of two invocations.
Two crashes allow one before and one after the delivery that survived the first.
For `remote_http`: a third invocation is the fewest that waits for a global slot, two
of one agent the fewest for the limit per agent, and a limit of 5 admits two holds of
2 and not a third, so every gate both admits and refuses; a cost of 3 exceeds its
hold.  For `channel_sweep`: two rows are needed for a pass that goes on after a slow
send and for a notice beside an ordinary row, and the crash strands the row and leaves
its request on the wire; the second crash, a retry of the second row and a provider that
dedupes add no case of their own, and sweeps are numbered so that the lowest idle one
begins.  `delivery_contention` has one bridge process, because liveness without symmetry
over two is out of reach; the same bounds with two processes are
`InvocationDelivery_handover`, and the theorem holds for any number.  For
`mail_send`: three runs are the fewest in which a lost run, its successor and a late
answer meet.  What is proved is proved for every bound; the
type invariants are theorems of their modules, so only the lock's is also a property of a
run.  TLC uses the symmetry of processes (and of invocations
where `DirOf` does not tell them apart) in the runs without liveness.  Deadlock is
not checked where the system may stop: every invocation over, every bridge process
gone, or the run reported.  It is checked for the lock.

### Fairness

- `StateLock!FairSpec`: weak fairness of `Step`.  Acquisition is straight-line
  synchronous code.
- `InvocationDelivery!FairSpec`: a bridge that is up and can authenticate keeps
  polling (`setInterval(poll)`), and what has run out is found run out by some later poll
  (`PollAll`); the sweep is a timer of the server (`SweepStep`).  Nothing is assumed of the user,
  of acks, reports or registrations, nor of agents: `EverythingEnds` holds although every
  ack and report may be lost and an agent may never end, because the server's clock ends
  its record.  Its condition `<>[]Serving` says that some bridge
  process stays up with a valid session; without it `CancellingEnds` fails.
- `InvocationDelivery!CancelSpec` adds the delivery of the cancellation, to ask whether
  the cancellation arrives.
- `DirectHttp!FairSpec`: the server goes on, the timer of a request fires (each
  `launch` sets one) and an aborted request settles; an agent may leave its request
  unanswered for ever, nobody is assumed to poll.  `RunsSettle` is about runs that the
  last process took up; a restart forgets the others (`DirectHttp_restart`).
- `ChannelDelivery!FairSpec`: the sweep is an interval, sends have a timeout, so an
  attempt is answered or fails.  That some pass finds every stale claim and backoff over
  is *strong* fairness, because a pass is under way again and again.  Nothing is assumed
  of people or of acceptance by the provider.
- `MailSend!FairSpec`: a handler goes on, and a run that was handed out ends: the promise
  `EverythingEnds` of `InvocationDelivery`.  Approval, edits and withdrawals are not fair.
- `BridgeExecutor!FairSpec`: callbacks and awaited operations go on, a killed process
  exits and its pipes close.  An agent that was not killed may run for ever.
  `InterruptedIsReported` and `RetirementEndsAgent` name the failures that excuse them.

## 4. What disagrees with the comments and the documentation

Three are runs whose expected result is a violation, and `findings`:

1. `state_lock_concurrent`: overlapping starts, against `state-lock.mjs:9-10`.
2. `delivery_stale_ack`: the session is compared before the body is read, not when
   the ack is applied, against `bridge-auth.mjs:95-98`.  `AtMostOneExecution` still
   holds: the new lease is used up by the old process.
3. `executor_timeout`: the kill follows a post that may fail, against
   `docs/engineering/AUTORUN_PILOT_RUNBOOK.md:113`.

Thirteen more are kept as configurations that end in a violation when they are run by
hand; each states one property of its module:

| Configuration | Property | Disagrees with |
|---|---|---|
| `InvocationDelivery_cancelling` | `CancellingEnds`: the reclaim runs in polls only | `dispatch.mjs:50-52` |
| `InvocationDelivery_late_cancel` | `NoTwoWriters`: a grace of 5 s after a supersession (`service-composer.mjs:1952`) against a drain of up to 10 s (desktop `index.mjs:4002`) | `dispatch-eligibility.mjs:26-27` |
| `InvocationDelivery_unlink` | `UnlinkReachesExecutor`: credentials are revoked before the bridge could ask for its cancellations | `docs/vision/INVOCATION_DELIVERY.md:121` |
| `InvocationDurability_cancel` | `WithdrawnNeverRuns`: the cancellation of a queued invocation is only debounced | `docs/vision/STATE_MACHINE.md:338` |
| `BridgeExecutor_late_post` | `NoPostOnceSettled`: no check after the awaits | `apps/desktop/src/index.mjs:1030-1033` |
| `DirectHttp_restart` | `AcceptedEnds`: after a restart nothing starts a remote run again or times it out | `creation.mjs:467-469` |
| `DirectHttp_reclaim` | `HeldWhileInFlight`: the reclaim of a cancellation releases the hold of a request that may still answer | `m3.mjs:1597-1598` |
| `ChannelDelivery_lost_notice` | `ResultIsNotified`: a crash between the claim and the row of a notification | `channel-delivery.mjs:627-628` |
| `ChannelDelivery_duplicate` | `ResendIsDeduped`: five of six senders send no client id, and a send that was given up may arrive | `channel-delivery.mjs:453-456` |
| `ChannelDelivery_order` | `ShownInOrder`: a later row is sent while an earlier one backs off | `channel-delivery.mjs:432-434` |
| `MailSend_withdrawn` | `AlwaysResolved`: a queued run that is withdrawn leaves its draft `sending` | `completion.mjs:183-185` |
| `MailSend_lost` | `NeverSilentlySent`: a run given up without an answer makes the draft sendable though its mail left | `mail-send.mjs:21-24` |
| `MailSend_misreported` | `SendableIsUnsent`: the tool fails after the mail was accepted, and the draft is sendable again | `mail-send.mjs:203-204` |

Two wider instances pass by hand: `InvocationDelivery_handover` (`ExecutorsWithinCap` with two
bridge processes, 3.1 million states) and `ChannelDelivery_dedupe` (`ShownAsAsked` and
`KeepsOutbox` with a provider that dedupes).

## 5. Proofs

TLAPS checks the following for every value of the constants that satisfies the
`ASSUME`s of the modules.

**Lock** (`StateLock_proofs`).  Assumption: `SerialStarts`.  `SingleWriter` alone is
not inductive: a step of the acquirer may unlink the file of an owner.  The invariant
adds that at most one process is inside the acquisition, that an owner's record is in
the file, and that a process about to unlink judged a file no owner has.  The last
clause needs the first: nobody can become owner between the judgement and the unlink.
`SerialRefusedForACause` is about the step of a refusal: `CauseOnRecord` adds that a lock
of another host stays from its reading to the judgement, and that nobody creates the
file between the unlink of a stale lock and the second attempt; where that unlink fails,
the refusal has its cause in the step before.  `LockTypeOK` needs no assumption on the starts.

**Single execution** (`InvocationDelivery_proofs`).  No assumption on timing.
`AtMostOneExecution` is not inductive, because an ack could be granted again.  `IInv`
adds `RecordOK` (which delivery states a status allows), and `GrantedIsAcknowledged`:
once a delivery was granted, the record is acknowledged for ever.  A second grant
needs the delivery state `dispatching`, which only a lease sets, which needs a queued
record, which an acknowledged one is never again.  `DirectoryExclusion` (two in-flight
records have different directories) is preserved along with it.  Each action has one
lemma; functions of a record have lemmas of their own, so that `Poll` and `Register`,
which apply several of them to every record, follow from them.

**Permission, time-outs, unlink, attempts** (`InvocationDelivery_proofs`, second half).
Each action changes a record in one of seven ways (`Ends`, `Reclaim`, `Lease`, `Submit`,
`Decision`, `Stop`, `Plain`), and every step is ordinary, registers a session or takes
leases (`StepKind`).  `Sound` adds to `IInv` that an interrupted run is being
stopped or timed out, and that what is not permitted neither waits for a bridge nor was
acknowledged; an invariant of a record is then seven short cases rather than one per
action.  `UnlinkedHoldsNothing` adds `Idle` (nothing is
leased while the device is unlinked).  `AttemptsAreBounded` adds `AttemptInv`: a record that
waits has an attempt to spare, since a lapse requeues only below the limit and a
hand-over, which counts nothing, comes with a session that had not registered before;
it assumes finitely many sessions, to count them.  `NobodyStrands` (`NothingStrands`) is
inductive with `IInv`: each of the changes keeps a record's status and delivery state a
pair that some handler still looks for.

**Directory exclusion and cap** (`ExecutorSafety_proofs`).  No assumption on timing; for the
cap, that there are finitely many invocations.  `AgentsKnown` says what is on record of a
delivery whose agent lives or is about to start: running or cancelling, or written off with
nothing charged and one of the three marks.  It is inductive with `AllFresh` (nothing of a
run is on record before the ack) and `SessionsStarted`.  `Ages` collects what a record may do
once it was acknowledged, other than by its own report, which comes only when the agent is
gone; each action has a lemma that its records age, and one that its deliveries do no more
than be granted, go on or end.  `OneWriter` follows with `DirectoryExclusion`; `WithinTheCap`
with an invariant that bounds the in-flight records, which the dispatch preserves because
it leases only below the cap.  From the same invariant, nothing starts after the end but
what was granted before and written off (`OverIsOver`), and delivery implements `RunOnce`
(`DeliveryKeepsPromise`): for each invocation every step is one of the cases of `PStep`.

**Crashes** (`InvocationDurability_proofs`).  The store is a past state of the memory, so
it is as sound as the memory (`StoreOK`), and a restart, which makes the store the memory,
keeps `IInv`.  Each change of a record either commits at once, with all that still waited
for the timer, or touches no acknowledgement, outcome, charge or decision of the approver
(`Onward`).  `MaxCrashes` is any number.

**The delivery over restarts** (same module).  Every invariant that the runs of the
delivery check holds over restarts too, although many of the steps that keep it are only
debounced.  `TerminalStaysOver` does not: a crash may take back a confirmed cancellation of
a queued invocation (`InvocationDurability_cancel`); that what is *stored* as over stays over
is part of the refinement below.
`StoreKind` is the shape of these proofs: a step leaves the store alone, replaces it by
the memory, or replaces the memory by it, so it is enough that the invariant of the memory
(`SoundRecords`, `UnlinkedIdle`, `AttemptInv`, `WithinCap`, `NothingStrands`) holds of the
store as well.  Attempts need one relation more, because the store may not know of the session
that registered last: `AttemptStore` counts the processes that have started and the stored
session, and uses that a lease is stored together with the session it was given to.  What the
agents do (`OneWriterOverRestarts`, `CapOverRestarts`, and the refinement) needs `StoreLive`:
what `AgentsKnown` says of the memory is true of the store, with the stored session in
place of the current one, since an agent lives only after a grant, which commits.  And it
needs `StoreBehind`: what the store calls over is over in memory with the same outcome,
and charges never differ.  So a restart forgets no agent.

**The store implements `RunOnce`** (`StoredPromiseKept`).  For each invocation every step
is a case of `PStep` or none, and a crash is none: it changes memory and not the store,
and no permit.  `PaidOnceOverRestarts` is the consequence for money: nothing is charged
twice, or without a permit that was used.

**Outcome of a run** (`BridgeExecutor_proofs`).  `OneCauseOnly` is inductive with the
types: a handler sets its flag in the step in which it finds no other.  `InterruptedIsNoSuccess` needs that
a report is sent only when the run is settled, and `CauseIsFixed` that no handler
sets a flag from then on.  `InterruptedIsPursued` looks at the handlers at work: the one that
set the flag leaves each of its awaits either to another one, or because the agent has
ended or was killed, or because a post or a signal failed.  `ExecutorKeepsRun` takes the main flow
and the handlers separately: a handler's step is `Stop`, the end of the agent, or a
stutter, and the main flow's are the others.

**Slots, queue and budget of remote runs** (`DirectHttp_proofs`).  No assumption but
those on the constants (finitely many invocations).  `IInv` adds to `CapacityKept` that
a request in flight is scheduled and holds no place (`Placed`), and that no two waiters
share a place: then the last one that a drain launches has counted all the others it
launched (`LastOf`, `DrainFits`), which is why the limits hold although the drain is
described as a set.  For the budget it adds `Covered`: whatever is open has an active
hold, in memory and in the store.  Since a run is charged only as it leaves the open
statuses, the charge replaces a hold that is there, and exceeds it by what `unforeseen`
counts.  `Quiet` collects the steps that leave slots and queue alone.

**Nobody waits in vain** (`HttpNobodyWaitsInVain`, same module).  `RunsOK` adds the
statuses that go with a request, with a place in the queue and with the handler between
its two commits.  `SomebodyAhead` is the reason why a queue moves: where nothing is in
flight both counts are zero by `Counted`, so there is capacity, and by `NobodyForgotten`
nobody waits where there is.

**Refinement by remote runs** (end of `DirectHttp_proofs`).  `PermitInv` relates store and memory: the store
may lag behind, but permits and charges never differ, and what the store says is over
is over in memory with the same status.  Every step is then one of six cases of
`PStep` for each invocation, committing or not, and a restart is the case "nothing
changes" for all.  `HttpKeepsPromise` is the initial condition and the step simulation;
`HttpPaidOnce` draws from it what `PromiseChargesOnce` proves of `RunOnce` alone, that no
invocation is charged twice or without a request that was sent.

**Messages** (`ChannelDelivery_proofs`).  No assumption on the provider.  One sweep at a
time is under way (`SweepsOK`), so the row of a request whose answer is awaited stays claimed,
under the client id and the attempt of the request, until its answer; client ids and attempts
only grow, and the provider knows no id above the present one (`RowOK`).  `RequestsOK` says
of every other request on the wire that it was given up, and of every one that was shown
and not given up that it is awaited, has its receipt or belongs to an earlier manual
retry.  From this `TwinsOK`, the
first part of `ShownAsAsked`, is kept when a request arrives: a twin of it that was shown
and not given up would be awaited as well, or would have its receipt, and then nothing else
was sent under that client id.  For `ChannelKeepsOutbox`, every handler
changes one row in one of a few ways (`OneRowBoxed`, `SendBoxed`, `AnswerBoxed`), acceptance
is `Show`, and a restart gives up the requests that were awaited.

**Mail** (`MailSend_proofs`).  A grant that is good for the draft's revision was issued
for its text, because every edit raises the revision; the handler that consumed it is
the only one that runs until its run exists.  `MailedOnce` counts *hot* runs (`HotRuns`), those
that did not fail and whose mail may leave or has left: a step that makes the draft sendable
again either removes a hot run, by a refusal or a failure, or adds to `untold`.  `SendingAwaited`
follows `draft.run` through the three commits: an answer or a denial that ends the run also
moves the draft, in the same handler or in the hook that comes next, and which only a crash
prevents.

**The safety side of the liveness properties.**  Liveness itself is not proved, but the
part of it that no fairness repairs is: that no reachable state is one from which
nobody would go on.  `NothingStrands` is that part of `EverythingEnds`, `NeverAbandoned` of
`InterruptedIsReported`, `NobodyWaitsInVain` of `RunsSettle` and `SendingIsAwaited` of
`SendingEnds`.  The last is a theorem and no run's property; TLC agrees with it on the
bounds of `mail_send`.

Model-checked only: the liveness properties `RestartServes`, `EverythingEnds`,
`InterruptedIsReported`, `RetirementEndsAgent`, `RunsSettle`, `EveryRowEnds` and
`SendingEnds`, because temporal fairness is out of this prover's reach.  Every safety property
of a passing run is a theorem, and so is every refinement: of `RunOnce` by the delivery, by
its store and by remote runs, of `AgentRun` by the bridge, and of `Outbox` by the channel.

## 6. Plan

In this order; the first ones extend what exists.

1. `FairSelection`: the selection of `dispatch-fairness.mjs:51-76` as an operator,
   against a reference definition (lexicographic minimum of load, age, position) over
   bounded candidates; then `Dispatchable` refined by it, a cap that changes, and the
   starvation question under a stream of new invocations.
2. `CancellationSignal`: waiters, timeouts, wake-ups; every waiter answered once and no
   cancellation missed by a watcher that comes back.
3. Holds of auto-runs and the team pool in `BudgetReservations`.
4. `IssueClaims` and `LoopRegistry`: leases in records and in files.
5. `AlertOutbox`, as a second implementation of `Outbox`.
6. `AutoRun` over the abstract `RunOnce` rather than over the detailed delivery.

## 7. Not modelled

The reasons are in `components`.  In short: user interface, packaging, chat
gateways, read models, HTTP plumbing and storage back ends decide nothing about
the order of events; product features (tutor, mail library, sites, local content)
are request-response code over their own records; the remaining control-plane
components are in the plan.

How much of the code this is.  The definitions stand for about 3600 lines of source,
one per cent of a repository that consists for the most part of product features,
routes, user interface and scripts.  The files that are about invocations (dispatch,
cancellation, lock, approval, eligibility, direct HTTP, state transaction) and about
the two outboxes that are modelled (channel delivery, mail sending, grants) are covered
for the most part.  Of four large files only some functions are:
`apps/server/src/runtime/service-composer.mjs` (the sweep, supersession, unlink and
relink: about 200 of 8500 lines, the others wire services together),
`apps/desktop/src/index.mjs` (registration, polling, `runInvocation` and the
process-tree kill: about 450 of 4000), `services/m3.mjs` (the reservations) and
`runtime/persistence.mjs` (when the state is written and restored: about 80 of 820).
The largest services (`channel-conversation.mjs`, `work-items.mjs`, `private-tutor.mjs`,
`business-routines.mjs`, `article-imports.mjs`) are request-response code in which one
handler validates, changes its records and commits; what they do over time they do by
creating invocations, whose delivery is modelled.  `auto-run.mjs` is the exception, and
is last in the plan because it builds on everything before it.
