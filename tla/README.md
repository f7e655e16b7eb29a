# Kontext in TLA+

Kontext runs bounded agent executions on Kubernetes. A custom resource `AgentRun`
is one execution; an `Agent` makes runs on a schedule, keeps one standing run alive
as a service, or serves as a template for single tasks. This directory holds TLA+
models of its controllers, of its reference runtime and of the reporter that wraps
other runtimes, the TLC runs that check them on small instances, and proofs of the
central results for every value of the parameters. File names without a directory
are in `src/internal/controller/`.

## 1. Inventory

| Component | State it keeps | Operations | What is hard about it | What makes it correct |
|---|---|---|---|---|
| Pod-backed AgentRun controller (`agentrun_controller.go`, `status.go`, `internal/status`, `internal/conditions`) | `AgentRun.status`, the Pod, the credential Secret | one `Reconcile`: read run and Pod, build or delete the Pod, patch the status | every call is separate; reads come from caches that lag; status patches have no precondition; only a delayed requeue watches the clock | outcomes are final and earned; one Pod per run; budgets are enforced; runs do not get stuck |
| Scheduled Agents (`agent_scheduled.go`, `internal/scheduler`, `internal/scheduledrun`) | `Agent.status` (next slot, counters), the runs minted so far | prune history, decide about the due slot, create the run, patch | Create and patch can be torn apart; counters are recomputed from what pruning left; the spec changes under a reconcile | a slot is minted once and in time, numbers increase, `Forbid` is respected, pruning spares live and recent runs |
| Service and Task Agents (`agent_controller.go`) | `Agent.status`, standing runs `<agent>-1, -2, ...` | observe runs, back off, create the next run, patch | the list of runs is cached; the next name is the only lock | at most one live standing run, recast after its backoff and never before |
| Warm delivery (`agentrun_delivery.go`, `agentrun_delivery_credential.go`, `pkg/delivery`) | status of a delivered run | resolve the target (four reads), patch Running, send, resolve again, patch the outcome | the Service is recast, its address reused and the run recreated while the request is out | only the target's signed answer counts; outcomes are final; no request without a record; every delivery ends |
| Webhook certificates (`internal/webhooktls`) | the Secret, the registration's CA bundle, each replica's loaded certificate | `Ensure` on every replica, every minute | all replicas write; the registration is force-applied | keys are not replaced by a competing replica; the served certificate is trusted; replicas converge |
| Admission and run resolution (`internal/admission`, `internal/runfactory`) | none | resolve a sparse `AgentRun` against its Agent | pure function of its input and one read | the resolved run is complete and immutable |
| Pod builder (`internal/podbuilder`, `internal/runtimepolicy`) | none | build a Pod from a run | names and limits | the Pod's name, owner and restart policy |
| Reference runtime engine (`runtimes/reference/main.go`, `internal/engine`, `internal/conversation`) | conversation, token, turn, tool and output counters, the tool executor, the result | provider turns, tool batches, limits, cleanup, the result line | limits are checked at different moments with different comparisons; the context ends while something is out | no limit is overrun, every tool call is answered, failures have the right cause, the exit code agrees with the result |
| Model providers (`internal/provider`, `internal/runtimeapi`) | none | build a request, classify an HTTP exchange, normalise and validate the answer | two wire formats, many kinds of failure | what goes out is a conversation the API accepts; usage that does not add up is refused |
| Tool registry, shell and MCP client (`internal/tools`, `internal/mcpclient`) | a session and a process group per server, frozen tool lists | start, discover, call, reconnect, close | processes die, leave descendants or hang at every step; contexts end | no call is carried out twice or on other tools than those shown; no process is left behind; nothing outlasts its context |
| Stdout reporter (`runtimes/reporter`, `internal/procgroup`) | child process group, captured line, pending signals | start, forward signals, copy streams, reap, write the envelope | signals, pipes and reaping race | the report is what happened; signals arrive; no endless wait |
| Result envelope (`pkg/result`, `internal/tooloutput`) | none | parse, validate, compact to a byte limit | several formats, truncation | what is written is valid, fits and keeps its outcome |
| Evaluation harness (`internal/eval`) | case results | create runs, poll, score | concurrent cases | every case is reported once |
| Manager start-up (`cmd/main.go`), CRDs, RBAC, docs, CI | none | wiring | - | - |

Interactions. Controllers share nothing but the API server: the Agent controllers
create `AgentRun`s and read their status; the AgentRun controller creates Pods and
reads theirs; delivery reads the Agent, its standing run, its Pod and its Secret and
talks HTTP to the Pod. Watches fill caches and wake workers (one worker per object
name). Inside a Pod the engine calls the provider and the tools one at a time; its
result line, or an agent's last line, is captured by the reporter, cut to the size of
a termination message, and turned into a run status by `internal/status`.

`PROJECT.json` lists the hazards of this code line by line; the properties below
were chosen from that list.

## 2. Modules

A reconcile is a sequence of API calls. In every controller module each call is an
action: the worker's record (`worker`) holds what the reconcile has read and decided
so far, `pc` the call it makes next, and anything may happen between two calls. Pure
decisions (`Decide`, `Begin`, `Conclude`) are operators over that record. The names
are those of the Go functions.

The surroundings are the same throughout: a server copy of each object, a cache
copy, and the sequence of versions still on their way to the cache; the work queue
(`dirty`), the delayed queue (`timer`), which keeps the earliest delay, and the clock. A
reconcile may start only when at most `RunLag` (`AgentLag`, `ListLag`) events are
missing from the cache: 0 is the ideal the code relies on, 1 or 2 show what a real
informer may do. `ApiCallFails` is a call without effect, `Replied` lets a call take
effect and lose its reply, `Crash` empties worker and queues and lists the caches
afresh (restart, or a new leader). A status write is a JSON merge patch
(`MergePatch`): the fields in which the new status differs from the one *read* are
written over whatever the server has *now*, without a resource version or UID
precondition, as `patchStatus` does.

* `AgentRunPod` - one run name, its incarnations and its Pods under the canonical and
  the legacy name. `Reconcile`/`FirstCall`, `GetPod`, `GetLivePod`,
  `EnsureDeliveryCredential`, `CreatePod`, `PatchRunStatus`, `DeletePod`,
  `DeleteInvalidPod` and `DeleteBudgetExceededPod` are the calls of `Reconcile` and its
  helpers. `ObservePod` translates `internal/status/pod.go`. External: kubelet,
  garbage collector, users, strangers' Pods.
* `AgentRunLifecycle` - the abstract specification: phases move freely until one
  terminal phase, stamped in the same write, and freeze. `FollowsLifecycle` is the
  refinement `INSTANCE ... WITH`, of `AgentRunPod` and, for phase and completion time, of
  `AgentRunDelivery`, which models conditions only by a reason.
* `ScheduledAgent` - one Agent and the runs of its slots. A cron expression is the set
  of its slots; time zones and parsing are abstracted with it. `made` is a history of
  the runs minted.
* `ServiceAgent` - one Agent and its runs by suffix, including delivered runs and
  strangers' runs that hold a name.
* `AgentRunDelivery` - one delivered run and the Service it goes to (Agent, standing
  runs, their Pods, addresses and Secrets). An HTTP exchange is reduced to who
  answered and how `deliver` classifies it; only the target can sign. The limit is the one
  parsed when the reconcile began, whatever the run is when it is read again (`Reread`), and
  any failure to load the credential except a missing Secret ends the run (`ReadSecret`).
* `WebhookTLS` - the Secret, the registration, and each replica's `Ensure` and store. A
  CA is a number, a bundle a sequence of them; time appears as certificates falling due.
* `Provider` - the two API clients as operators: `WireMessages` puts a conversation on the
  wire, `CompleteJSON` turns one HTTP exchange, or a failure before it (a request that is
  not encoded, a bad endpoint), into an error or a normalised answer, `ValidResponse` is
  `ValidateResponse`. A transport's own deadline under a live context is `provider_timeout`, its
  own cancellation is passed on. Texts are "text", "blank" or "none"; a count that is not
  reported is distinct from every number.
* `Engine` (extends `Provider`) - the loop of `loop.go` with the checks of `limits.go`, each
  call of a provider or tool split in two so that the context may end while it is out,
  and `finish` and the result line after it. A provider's error is made and judged in two
  steps (`CompleteFails`, `TurnFails`), since `normalizeError` reads the context again.
  `CallIsHeld` is a shell command whose termination waits without limit. `spent` counts tokens without saturation,
  to compare with what the code counts.
* `Envelope` - an envelope as the sizes of its parts; `Valid`, `Compact`, `Parse`.
* `Reporter` (extends `Envelope`) - main thread, copying goroutine, signal goroutine, the
  agent and its descendants, each a process with a state, a group and perhaps the write
  end of the pipe. A line of exactly the size limit may count as cut or not, by where the
  reads fall (`CompleteLine`). `stuck` are processes that SIGKILL does not end within the reap timeout.
* `ToolCalls` - what an executor promises the engine: calls one at a time, each carried out
  at most once, and an answer that says truly whether it can have been.
* `ToolExecutor` - the registry, the shell and one entry per MCP server. `op` holds the
  operation under way for each server (closing, terminating, connecting, calling), so that
  `Close` works on all of them side by side; `procs` holds the process groups. A kill or a
  wait may report an error; a process that SIGKILL cannot reach counts as escaped.
  `CarriesOutAtMostOnce` is its refinement of `ToolCalls`.
* `..._proofs` - the theorems of section 5, one module per component.
* `MC...` - small instances for TLC.

`Mut_...` operators are broken variants of the definition that follows them (a
dropped guard, an off-by-one). Each property is violated when its mutant is put in
place of the original, which shows that the property depends on that code.

## 3. Runs

| Run | States | What it shows |
|---|---|---|
| `agentrun_core` | 3.0 M | one incarnation; specs: budget 1 s, invalid budget, not buildable, warm; four ways for the runtime to end; a Pod cache one event behind, one fault, one Pod deleted or made by hand. Outcomes are final (`TerminalStays`), described by the conditions (`ConditionsMatchPhase`) and earned (`BudgetExceededIsEarned`, `ProgressNeedsOwnPod`, which also asks for the credential before the Pod); no second Pod once one is recorded (`NoPodAfterTheRecordedOne`) |
| `agentrun_recreated` | 2.2 M | two incarnations of the name, one fault: the inductive invariant `FreshInv` and the refinement `FollowsLifecycle` |
| `agentrun_live` | 881 k | fair scheduling, one fault, one Pod deleted or made by hand: ended Pods end their run, budgets are enforced, the Pod of a run over its budget is deleted |
| `agentrun_v_terminal` | violation | finding 1 |
| `agentrun_v_initfails` | violation | finding 2 |
| `scheduled` | 431 k | specs with a slot at every instant under `Forbid`, sparse and suspended, and invalid, one edit among them, one fault, one intervention: `NeverBackfills` (neither late, nor twice, nor for an older spec), `PruningIsSafe`, `ForbidMeansNoOverlap`, `ProgressIsKept`; under fair scheduling `ScheduleMovesOn`, `RunsAreRecorded` |
| `service` | 1.02 M | three suffixes to exhaustion, a list one event behind, one fault, one intervention: `OneStandingRun` holds because the name is taken; `RecastWaits`; `ServiceIsRecast`. TLC also evaluates the assumption that doubling gives the closed form of the capped backoff |
| `delivery` | 1.3 M | two incarnations of the run, two standing runs sharing one address, one fault or disturbance: `OnlyTheTargetCounts`, `CutOffInTime`, `TerminalStays`, and fairly `DeliveryEnds` |
| `tls` | 438 k | one or two replicas, any two of {CA due, certificate due, Secret lost, registration lost, fault}: `KeyIsHandedOver`, `ReplicasConverge`; with a single replica `ServedIsTrusted` |
| `engine` | 145 k | two APIs, three sets of limits, three turns, exchanges of every kind (answers valid and not, statuses, transport errors, failures before the exchange), the context ending at any moment, shell commands that hold their call: `LimitsHold`, `SpendingStops`, `CallsAreAnswered`, `ContextIsBlamed`, `ExitAgrees`, `EndedContextEndsRun` |
| `reporter` | 1.05 M | both formats, one descendant, two lines around both size limits, one signal, one failing call: `ReportIsFaithful`, `AgentEndEndsReporter`, `SignalArrives` |
| `tools` | 699 k | a stdio and an HTTP server, two calls, three kinds of descendants: `NothingIsLeftBehind`, `CallsUseVerifiedSessions`, `CarriesOutAtMostOnce`, `EndsWithItsContext` |

Bounds. Every hazard of a controller needs at most one fault and one intervention; each is
bounded by 1 so that it may strike between any two calls of any reconcile. In `delivery`
faults and disturbances share a bound of 1 (`MaxTroubles`), beside the deletion and
recreation of the run, which is always possible. Budgets are 1 s and the clock reaches the
instant after the limit (`elapsed > limit` and `elapsed = limit` both occur). Three slots are
the fewest for which history of length 1 is pruned while a third is decided; history limits
of 0 and a run counter at its end are not in the instance. The
clock of `service` reaches 4, when the backoffs 1, 1 and 2 of three runs in a row have passed
and the suffixes run out; the cap at 3 is met only by the evaluated assumption. Two replicas suffice for every race over the
Secret, since a third competes with either in the same way. The largest integer of `engine`
is small enough for token counts to reach it in two answers, its byte limits lie on both
sides of the 14 bytes of an empty partial result. The reporter's message limit of 16 lies
between envelopes that fit, need one part dropped and need all dropped. One descendant
suffices in `reporter` and one per process group in `tools`: what matters is whether there is
one that stays, one that escapes, or one that holds the pipe. `CHECK_DEADLOCK FALSE` is set
where the system comes to rest: a finished run, an exhausted clock, an exited process.

### Fairness

In the controllers `FairSpec` asks for weak fairness of the worker's calls, of the delivery
of watch events, of the delayed queue, of the clock and, for Pods, of the end of a graceful
deletion. controller-runtime justifies it: workers loop, a failed reconcile is queued again,
informers resync, and `RequeueAfter` is kept in a timer heap. Nothing is asked of users,
of the kubelet's other reports, of a Service's runs, or of faults. In `WebhookTLS` every
replica's `Ensure` is fair, since a ticker calls it for ever. In `Engine` nothing is
fair before the context has ended. From then on the runtime's own steps are, start-up included,
and so is the return of a provider's request (`http.NewRequestWithContext`). A tool call under
way returns or comes to be held: `shell.go` 136-142 terminates a command under
`context.Background()` and waits for its pipes. Nothing is asked of a held call, so
`EndedContextEndsRun` exempts the runs held for ever, as `EndsWithItsContext` of `ToolExecutor`
does with `ShellIsHeld`. In `Reporter` only
the reporter's own goroutines are fair, nothing is asked of the agent, its descendants or
SIGKILL. In `ToolExecutor` goroutines and timers are fair, calls of the MCP SDK return once
their context has ended, and SIGKILL ends a process; servers, `session.Close` and processes
that left their group may hang for ever.

Several liveness properties have the form `[]<>(~P \/ Q)`: "it is not so that from some time
on P holds and Q does not". Where P, once true, is only ended by Q or by leaving the scope of
the property, this says the same as `P ~> Q`, and TLC checks it much faster.

## 4. Findings

1. *A terminal status can be overwritten* (`agentrun_v_terminal`). `Reconcile` tests
   `IsTerminal` on the cached run and its patch has no precondition. With a cache one event
   behind, the next reconcile sees the old phase and replaces, for instance,
   `BudgetExceeded` by `Failed: Pod lost`.
2. *A failed init container leaves the run Pending* (`agentrun_v_initfails`). The Pod is
   `Failed` while the runtime container is still `Waiting`; `ObservePod` looks at the
   container first.

Observed while modelling, without a run of their own (each appears when the constants
named are changed and the property in question is stated):

* Pods: when the reply to `Create` is lost and the Pod is deleted by hand before the next
  reconcile, the run gets a second Pod (`AgentRunPod`, `made`); a patch computed for one
  incarnation may complete the next one (`MaxUid = 2`; hence `ProgressNeedsOwnPod` is
  checked for one incarnation only).
* Schedules: pruning precedes the look-up of the due slot, so with a history limit of 0 a
  run that ended before its creation was recorded is pruned, its number may be lost, and its
  slot is minted again within the starting deadline, although `SPEC.md:119` says "Creation is
  idempotent across retries and leader changes" (`KeepsHistory` in `NeverBackfills` and
  `RunsAreRecorded`). A run deleted by hand within its deadline may be minted again (hence
  `meddling = 0`). A list of runs that lags from one slot to the next, together with a lost
  patch, gives two runs the same number (`ListLag = 1`).
* Services: with `ListLag = 1` and a user who deletes the run that has ended, suffix 1 is
  free again and a second live run is made; deleting the newest runs lowers the counters.
* Delivery: with `RunLag = 1` a finished run may be sent again and its outcome
  overwritten; `startTime` is written before the request leaves, so a budget can be
  exceeded without any request; the UID check does not cover the last reads before the
  patch; a Running patch that lands on a recreated run returns that run, and the request is
  then made for it without its target being on record (hence "the first incarnation" in
  `OnlyTheTargetCounts`). A Secret that cannot be read for the moment fails the run for good,
  as a configuration error (`agentrun_delivery.go` 313-324), where other failed reads are retried.
* Certificates: with two replicas a slow replica's forced apply can take the new CA out
  of the registration between publication and promotion, so the second half of
  `KeyIsHandedOver` is stated for one replica; a CA that falls due while the registration is
  missing is never rotated, because `publishRotationTrust` fails without a registration (the
  exception in `ReplicasConverge`).
* Engine: after `pause_turn` with the token budget exactly used up another request is made,
  for one token (`request.maxTokens = 1` in `SpendingStops`). Usage that is valid in every
  answer can add up to more reasoning than output tokens, because a count may be missing from
  an answer: the envelope then fails `Validate`, no result line is written and the exit code
  is 1. `main` sets no deadline on its context: only SIGTERM ends it.
  `runtimes/reference/README.md:265` says "Terminal output is emitted only after cleanup
  succeeds.", while `engine.go` 140-145 and 170-176 turn the success into
  `tool_cleanup_failed` and emit its output all the same, which `engine_test.go` 389-394 expects.
  Code and test disagree with that sentence; `ExitAgrees` allows the output after a failed
  cleanup and does not assert it, and claims only that no other failure has one. A transport
  that reports a cancellation of its own makes the run `cancelled` although nobody
  cancelled it (`http.go` 169-171; the last disjunct of `ContextIsBlamed`). A held shell command
  (see Tools) keeps the runtime from exiting after SIGTERM.
* Envelope: `Compact` replaces an existing truncation record, so an envelope that was cut once
  by a runtime and again by the reporter keeps only the second set of marks, although
  `compact.go:24` says it "always marks data loss explicitly".
* Reporter: a descendant that left the group and lives on makes reaping time out, and the
  reporter reports `reporter_internal` with exit code 125 even if the agent succeeded. A line
  of exactly the size limit is marked as truncated when its newline comes with the next read
  (`capture.go` 66-71), although nothing was lost.
* Tools: `shellTool` terminates its group under `context.Background()`, so a process that left
  the group and holds its pipe keeps the call waiting after the context has ended
  (`ShellIsHeld`); a background process in the group holds a call until then. The close of a
  stale session is not limited by the server's timeout, only by the run's context.

## 5. Proofs

Each state machine has a module `..._proofs` of its own. The theorems hold for
every value of the constants that satisfies the named `ASSUME`s of the modules (TLC evaluates
those in every run): any number of incarnations, replicas, servers, slots, suffixes, turns,
any specs and limits, any number of faults and interventions.

| Module | Theorem | Result | Hypothesis |
|---|---|---|---|
| `AgentRunPod_proofs` | `TypeCorrect` | `[]TypeOK` | - |
| | `ConditionsCorrect` | `[]ConditionsMatchPhase` | - |
| | `FreshCorrect`, `CompletionCorrect` | `[]FreshInv`, `[]CompletionMarksTheEnd` | `RunLag = 0` |
| | `TerminalCorrect` | `TerminalStays` | `RunLag = 0` |
| | `NoSecondPod` | `NoPodAfterTheRecordedOne` | `RunLag = 0` |
| | `ImplementsLifecycle` | `FollowsLifecycle`, the refinement of `AgentRunLifecycle` | `RunLag = 0` |
| | `OwnCorrect` | `[]OwnInv` | `RunLag = 0` |
| | `BudgetCorrect` | `BudgetExceededIsEarned` of the first incarnation | `RunLag = 0` |
| | `ProgressCorrect` | `ProgressNeedsOwnPod` of the first incarnation; its second half (the credential comes before the Pod) of every one | `RunLag = 0` |
| `ScheduledAgent_proofs` | `TypeCorrect` | `[]TypeOK` | - |
| | `ProgressKept` | `ProgressIsKept` | `AgentLag = 0` |
| | `NoOverlap` | `ForbidMeansNoOverlap` | `ListLag = 0` |
| | `PruningSafe` | `PruningIsSafe` | `ListLag = 0` |
| | `NoBackfill` | `[]NeverBackfills` | `AgentLag = 0`, `ListLag = 0` |
| `ServiceAgent_proofs` | `BackoffIsCapped` | doubling that stops before it overflows is the capped power | - |
| | `TypeCorrect` | `[]TypeOK` | - |
| | `OnlyOneStandingRun` | `[]OneStandingRun` | - (any lag) |
| | `RecastsWait` | `RecastWaits` | - (any lag) |
| `AgentRunDelivery_proofs` | `TypeCorrect` | `[]TypeOK` | - |
| | `OutcomeStays` | `TerminalStays` | `RunLag = 0` |
| | `TargetCounts` | `[]OnlyTheTargetCounts` | `RunLag = 0` |
| | `NoneIsCutOffEarly` | `[]CutOffInTime` | `RunLag = 0` |
| | `ImplementsLifecycle` | `FollowsLifecycle`, the refinement of `AgentRunLifecycle` (phase and completion) | `RunLag = 0` |
| `WebhookTLS_proofs` | `TypeCorrect` | `[]TypeOK` | - |
| | `AlwaysTrusted` | `[]ServedIsTrusted` | - |
| | `HandedOver` | `KeyIsHandedOver` | - |
| `Engine_proofs` | `TypeCorrect` | `[]TypeOK` | - |
| | `LimitsAlwaysHold` | `[]LimitsHold` | - |
| | `SpendingAlwaysStops` | `[]SpendingStops` | - |
| | `ContextAlwaysBlamed` | `[]ContextIsBlamed` | - |
| | `ExitAlwaysAgrees` | `[]ExitAgrees` | - |
| | `ConversationAnswered` | every request's conversation answers all its calls | - |
| | `CallsAlwaysAnswered` | `[]CallsAreAnswered`: also on either API's wire | - |
| `Reporter_proofs` | `CompactFits` | what `Compact` makes is valid, fits and keeps the outcome | - |
| | `TypeCorrect` | `[]TypeOK` | - |
| | `ReportFaithful` | `[]ReportIsFaithful` | - |
| `ToolExecutor_proofs` | `TypeCorrect` | `[]TypeOK` | - |
| | `NothingLeftBehind` | `[]NothingIsLeftBehind` | - |
| | `SessionsVerified` | `[]CallsUseVerifiedSessions` | - |
| | `AtMostOnce` | `CarriesOutAtMostOnce`, the refinement of `ToolCalls` | - |

A hypothesis `...Lag = 0` says that a reconcile starts only once the cache in question shows
what the API server holds; between its calls anything may still happen. It is stated where
the property needs it, never more widely: with `RunLag = 1` TLC refutes `TerminalStays` of
both run controllers, `OnlyTheTargetCounts` and the refinement of the lifecycle by delivery.
So these theorems say that a stale cache is the *only* way to lose an outcome.
`meddling = 0` and "a single replica" are part of the properties themselves (section 4 says
why).

The arguments:

* *Pod-backed runs.* `ConditionsMatchPhase` is not inductive, since a patch mixes three copies
  of the status; `CoherentEverywhere` asks it of every copy, and a merge patch then changes
  phase and conditions together or not at all (`MergePatchCoherent`). The rest needs that
  nobody writes the status between the worker's read and its patch. `FreshInv` says so: the
  cache shows the server's run once its events are delivered (`CacheFollows`), and the
  incarnation that was read is exactly as read, gone, or replaced by one whose status is still
  empty (`WorkerOwnsStatus`). A patch therefore writes `next` (`MergePatchOnBase`) or its
  changes on an empty status (`MergePatchOnEmpty`); both are steps of the lifecycle.
  `OwnInv` adds what a patch says: what `Decide` concludes is justified by the Pod it saw
  (`DecideHonest`), every Pod seen anywhere with an incarnation as its owner was made for it
  (`PodsAccounted`), and the first incarnation can only be hit by patches computed for it. A
  later one can be hit by a patch for its predecessor (section 4), so the two theorems about
  the recorded outcome stop at the first, which is all `agentrun_core` has.
* *Schedules.* `Inv` holds whatever the caches miss: caches plus events lead to the server's
  objects, nothing is dated in the future, and a reconcile that is about to write has a status
  that waits for a slot after the clock it read (`PatchOK`). `AgentInv` adds that the worker
  alone writes the status while users write the spec, so that a schedule in force waits for a
  slot after the last one done and after its spec was written. `SeenInv` adds that after a
  complete list runs only end or disappear until the reconcile creates one: hence nothing active
  that was not seen (`NoOverlap`), and what pruning leaves above a run it deletes is still there
  (`ExcessLeaves`). `MadeInv`, for `NoBackfill`, classifies each run made: the status waits for a
  slot after it, its spec has been replaced, or it is not recorded yet; in the last case looking
  again finds its slot or one that came later (`LaterDue`), and if its slot, the run is still
  there unless history of length 0 let it be pruned (`LastKept`).
* *Services.* `HistoryInv`: without intervention every view of the runs (cache, events, what a
  reconcile saw) is an earlier state of them, runs have consecutive suffixes and all but the last
  have ended. Whoever creates a run from a stale list therefore asks for a name that is taken.
  `BackoffIsCapped` is induction over the restarts, made by the least counterexample.
* *Delivery.* `WorkerOK` follows the target through the four reads, the request and the reads
  after it: what has been found is a standing run with this Pod and this Secret, and an answer
  that counts was signed by it. `FreshInv` is as for Pods, with the record of the target on the
  run while its request is out (`Sent`). A run read again is the one read first in all but the
  limit, which may be another incarnation's once a patch has landed on it (`SameRun`). `LifeInv` adds that what is about to be written names a phase,
  and a terminal one with its time, so that either patch, on the run it was made for or on a newer
  one, is a step of the lifecycle.
* *Certificates.* A resource version stands for one content of the Secret, so a conditional write
  succeeds only on what was seen; for one replica the registration contains what is served at
  every step of a rotation.
* *Engine.* `LimitInv` keeps room for the calls of a batch still to be made, `TokenInv` relates
  the saturating counter to the tokens really spent, `EndInv` fixes result and tools at the end.
  For the context, `ErrorFits` says what an error made earlier may be under the context of now:
  a context ends once and stays ended, so that reading it again only adds to the blame. For
  the exit code, `AnswerInv` keeps the final answer at the end of the conversation from the
  moment it becomes the output. `ConversationInv` follows a batch from its message to its results. On the wire this is a
  statement about `FlattenSeq`, which is recursive: OpenAI's messages are the concatenation of
  what each message becomes. `FlattenSeqIs` takes out the function that `FlattenSeq` chooses,
  `InductionUpTo` is induction up to a number, stated for a *set* of numbers and proved from the
  least number outside it (`LeastNumber`, by `WFMin`), and with it `FlattenSeqParts` says where
  the parts of a concatenation lie. `RolesInv` (calls in messages of the assistant, results in those
  of role tool) then tells which messages they become.
* *Tools.* `OpsInv` says which operations may be under way at a program counter, `EntriesInv`
  relates an entry (session, staleness, tools frozen or verified) to its operation, and `SentInv`
  says that a call given to a tool is under way there and was given once. Judged per server, a
  step of `Close` on one entry leaves the others alone.
* *Reporter.* Each thing `Compact` drops keeps type, validity and outcome
  (`DroppingKeepsOutcome`), each early return has just been seen to fit, and the last resort fits
  by `EnvelopeAssumption` (`MinimalFits`). Of the reporter itself: a line is in the pipe until it has
  been seen (`CountInv`); the copy ends without an error only when the pipe is empty and nobody
  can write any more (`CopierInv`); and past the reaping every process is gone or an error says
  that one may be left (`ReapInv`). A report without errors has thus seen everything written and leaves
  no process. `ReporterAssumption` asks of `Lines` only that they have the type of a line.

Every inductive invariant was model-checked on small instances like those of section 3 before it was
proved. `CompletionMarksTheEnd` and `ConversationIsAnswered` have no run of their own: TLC checks
the first as part of `FollowsLifecycle`, the second as `CallsAreAnswered`, which speaks of the
messages on the wire. Nor has `FollowsLifecycle` of `AgentRunDelivery`; on the instance of `delivery`
TLC confirms it as well.

Only model-checked: all liveness, since the prover has neither fairness nor `ENABLED`. Every
other property of a passing run is stated by a theorem of the table.

## 6. Not modelled

* `reconcileTask`, admission and run resolution: stateless functions of one object and one
  read, without an order of steps to get wrong; `NewForAgent` appears as `NewRun`.
* The Pod's environment, volumes and security context; the data of CRDs and RBAC.
* The fake provider, the evaluation harness and its graders: test tools beside the system.
* Redaction, HTTP wire limits and stdio framing of the MCP client, the path checks of
  `read_knowledge` and the resource table of `kubernetes_read`: text handling without state.
  Their refusals are among the outcomes of a call.
* States only a user's or stranger's edit brings about, and error returns beside them: a run made for a slot
  without its annotations and a refusal of `NewForAgent` (`agent_scheduled.go` 146-149), a
  terminal standing run without completion time, which gets no backoff (`agent_controller.go`
  156-157), a stranger's Secret under the name of a run's credential.
* The parsing of the runtime's environment (`config`): `LoadFails` is any refusal.
* The reporter's install command, manager start-up, manifests, CI and docs.
* The delivery controller's pool of eight workers: the model has one run.

## 7. Plan

Every property of the runs that the prover can express is proved; liveness stays with TLC.
Extensions worth making: several delivered runs that share the pool of workers;
`ServiceAgent` with `AgentRunLifecycle` in place of `RunEnds`; `AgentRunDelivery` with
`ServiceAgent` in place of `ServiceRecasts`.
