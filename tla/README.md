# DeepResearcher in TLA+

This directory specifies, model-checks and in part proves DeepResearcher: how a research
run is admitted, delivered to a worker, executed, taken over, cancelled and settled; how its
progress reaches the browser; the graph of agents inside a run, from the question to the
reviewed report; and what the runs of a worker share, the model's rate limits and the health
of search providers. The modules are translated from the Python sources under
`src/src/deepresearcher`; `PROJECT.json` names the lines behind every definition.

## 1. The system

An API process accepts research questions and stores a row per *run* in PostgreSQL.
A RocketMQ message points at the row. Worker processes receive messages, claim the
row, execute a LangGraph graph (route, clarify, supervise, research, write, review, render)
with checkpoints in PostgreSQL, and write the outcome. Events of the run go through an
in-process buffer into the table `run_events`, from which SSE streams feed browsers.

| Component | State it keeps | Operations | Talks to | Hard behaviour | What makes it correct | Module |
|---|---|---|---|---|---|---|
| Run row (`runs/store.py`, `transitions.py`) | status, owner, fence token, cancellation flag, pending answer, reason | insert, claim, release, settle, persist, reopen, answer, cancel | every process, by conditional UPDATEs | many writers with stale knowledge | terminal is final; owner and answer agree with the status | RunRow |
| Dispatch (`messaging/`) | half messages, receipts, delivery attempts at the broker | transactional send, check, pull, ack, expire | broker, manager, consumer | at least once, lost acks and reports, early checks | no unfinished row without a message | RunDispatch |
| Consumer (`execution/consumer.py`) | tasks, claims and slots per worker; lease tasks | accept, claim, hold the lease, cancel, exhaust, shutdown | store, executor, receiver | races of deliveries, lease task, cancellation, shutdown | one holder of the current token; adopt only what was abandoned | RunDispatch |
| Executor (`execution/executor.py`) | `_lost_leases`, `_shutdown_interrupts`, periodic flush | execute, persist the outcome, settle a cancellation, finally block | row, buffer, graph | cancellation at any await, flags per run and not per task | a zombie changes nothing; the outcome matches what happened | RunDispatch, RunEvents |
| Manager (`runs/manager.py`) | none | start, cancel, resume_with_input | row, publisher, buffer | its writes race with the worker's | an accepted cancellation ends the run | RunRow, RunDispatch, RunEvents, Admission |
| Event buffer and store (`events/`) | seats and pending frames per process; numbered rows, `event_seq` | open, write, flush, requeue, evict; append | executor, manager, streams | concurrent transactions, cancelled flushes, lost commits | dense numbers, keys once, nothing lost, done last | EventLog, RunEvents |
| SSE stream and client (`web/routes/events.py`, `static/app.js`) | `last_seq`, `lastSeq` | tail, terminate, reconnect | store, row | connection breaks, done may never be stored | no gap; every stream of a settled run ends | RunEvents |
| Admission (`runs/admission.py`) | none; counts rows under an advisory lock | create with quotas and an idempotency key | row, publisher | API replicas race with each other and with whatever moves rows | the quotas are exact, one run per key | Admission |
| Retention (`runs/retention.py`) | `retention_pruned_at` | mark, delete checkpoints | rows, checkpoints | two stores, a reopened run | a run that waits for its user keeps its checkpoint | Admission |
| Limits and budget (`execution/limits.py`, `usage.py`) | gate, window of calls, usage rows | check, wait, acquire, release, record, retry | model calls of all runs of a worker | cancelled waiters, check before record | slots come back, the window is kept, bounded overshoot | ModelCalls |
| Provider health (`provider_health.py`) | a row per provider with two accounts | record failure and success, trip, ask | search tool | transactions of all runs interleave | no failure is lost | Search |
| Search (`tools/web/search`, `transport`) | query cache and semaphores per run, HTTP slots per worker | search, fail over, retry | health, providers, Researcher | many queries share what one of them learns | all providers are tried, "exhausted" has a cause | Search |
| Graph and nodes (`graph.py`, `routing.py`, `nodes/`) | channels of the run | route, run a node, review, render | all agents, checkpoint | loops, failures of any node, crash and replay | a finished report was reviewed, the run ends | Pipeline |
| Clarifier (`agents/clarifier`) | staged question, log of answers | ask, interrupt, resume, finalize | user through the row | replay after an interrupt, takeover with an old answer | the user is not asked too often | Clarifier |
| Writer (`agents/writer`) | drafts and reads in the channels and in a context object | read, submit, plain text, nudge, rebuild | model, evidence | crash after acceptance, two copies of the state | cites what was read, an accepted draft survives | Writer |
| Supervisor (`agents/supervisor`) | workbench in the channels and in memory, register and handles of research tasks | delegate, wait, update, freeze, drain, next round | model, researchers, checkpoint | crash with tasks in flight, two copies of the state, a model free to call anything | a task is settled once, a stale synthesis never ends a round | Supervisor |
| Researcher (`agents/researcher`) | task state in the channels and in memory, documents in a store that forgets | search, read, quote, release, finish | model, search, stores | tools of one reply run together and stop at awaits | limits, nothing accepted is lost | Researcher |
| Middleware (`agents/middleware`) | counters of the loop | rebuild, receive, guard, limit, exit, retry | model, channels | hooks that see different messages | loops are bounded | with the loops that use it |
| Login limiter (`web/login_rate_limit.py`) | counters by account and address | consume, clear | auth route | concurrent attempts | budget is never exceeded | planned |
| Parsing, rendering, UI, bootstrap, observability | caches, none | fetch, parse, render | network | mostly pure or plain I/O | | not modelled, section 7 |

`PROJECT.json` lists all components with their status and every hazard with its line.

## 2. Modules

```
RunRow ──────────┬── RunDispatch ── MCRunDispatch        RunPromise (abstract)
                 │        └─ INSTANCE RunPromise (refinement)
EventLog ────────┴── RunEvents ──── MCRunEvents          StreamPromise (abstract)
                          └─ INSTANCE StreamPromise (refinement)
RunDispatch ───── RunDispatch_proofs  RunEvents ───── RunEvents_proofs

Clarifier ──┬── Pipeline ──┬── MCPipeline
Writer ─────┘              └── Pipeline_proofs

Supervisor ──┬── MCSupervisor         Researcher ──┬── MCResearcher
             └── Supervisor_proofs                 └── Researcher_proofs
Admission ───┬── MCAdmission          ModelCalls ──┬── MCModelCalls
             └── Admission_proofs                  └── ModelCalls_proofs
Search ──────┬── MCSearch
             └── Search_proofs
```

A run of Pipeline is what `Finish` of RunDispatch stands for; a round of Supervisor is
`HandToWriter` or `StopResearch` of Pipeline; a task of Supervisor that finishes is a
behaviour of Researcher; a search of Researcher is a call in Search; and every model call of
an agent goes through ModelCalls. These are the seams along which the system is cut: each
module takes every outcome the module below may have.

**RunRow** is the `runs` table. Each action is one SQL statement or transaction with
its WHERE clause as guard: `Claim` is `RunStore.acquire`, `Persist` and
`PersistAwaiting` are the executor's writes under `Owned` (`_owned`: running, my
worker, my token), `ReleaseRow` the shutdown, `SettleCancelled` and `SettleExhausted`
the transitions of the same name, `Reopen`, `Answer` and `RequestCancel` those of the
store and the manager. Time stamps and result columns are left out. `RowSpec` lets
anybody issue any write at any time with any token.

**RunDispatch** drives the row. Its unit is a *delivery*: the pulled copy, `_accept`
and the task of `_execute_claimed` are one thread of control, so they share one
program counter; each step ends at an await of the database or the broker.
`cancelling`..`settled` are the branches of `_accept`; `starting`..`acking` those of
the task. `lost` and `stopping` are the executor's two sets, kept per worker and run
as in the code; `task` and `handover` are what the consumer's dictionary and
`shutdown()` hold. `sig` is a `task.cancel()` not yet delivered: asyncio raises it at
the next await, so almost every step has a twin for a pending cancellation. `watch` is the lease task;
it looks at the row (`LeaseCheck`) and gives up after its failure budget (`LeaseGiveUp`). The broker
(`mstate`, `attempt`, `latest`, `Expire`, `Acknowledge`) is modelled from the
way publisher and receiver use it: half messages, checks, receipts that a newer
delivery invalidates, counted attempts. Environment failures are chosen
by `Hazards` and counted by `faults`: crash, shutdown, failing transaction, lost
acknowledgement, lost report, early check, a copy that outstays its invisibility
(in the prefetch queue or unrenewed), a failed renewal, a database outage as long as the
lease budget, and a failed redispatch. What an execution of the graph does is one step,
with the outcomes it may have: completed, failed, or a question.

**RunPromise** is what a user may rely on, with two variables: the phase of the run
and whether its cancellation was asked for. `RunDispatch!Promise` maps row to
phase.

**EventLog** is `RunEventStore.append` as the transaction it is: an unlocked read of
stored keys (`BeginAppend`, `DropStored`), the UPDATE that takes numbers and holds
the row lock (`Number`), the commit under the unique constraint (`Commit`, or `Clash`
with one more attempt), and failures before or after the commit (`AppendRaises`).

**RunEvents** composes RunRow and EventLog: buffers with their seats, the coroutines
that flush (the periodic one in lane `side`; `resuming`, `headline`, `final`,
`settle` and `announce` inline), the finally block of `execute()`, and SSE
streams with the two reads of the tail and the read of the row. A worker may claim
whenever the row allows it, so zombies arise without the machinery of RunDispatch.
Abstractions: taking a batch and the first read of `append` are one step; a second
IntegrityError is an `AppendRaises`; the `running` frame after `resuming` is left
out; API handlers are not cancelled; preview frames are not stored and not modelled.

**StreamPromise** is what the page may rely on: rows only grow at their end and have no hole, a
client has a beginning of them that gets longer, and is told the end only after there is one.
`RunEvents!Stream` maps the stored rows and what a client has received to it.

**Admission** has API processes (`Handler`) that go through `RunAdmissionService.create`
one statement at a time: the lookup of the key, the advisory lock of the transaction, the
count of the user's runs, the count of the queue, the insert under the unique index, and the
second lookup after a clash. The lock goes with its transaction. Meanwhile rows move (`Move`, `Exhaust`,
`Answer`, `Reopen`), and the sweep marks finished rows (`Expire`) and deletes their
checkpoints later (`SweepThread`), each as one statement of its own. `thread` of a row is
whether it has a checkpoint, `reopened` whether the operator brought it back.

**ModelCalls** follows a coroutine that calls the model: first check of the budget, the
limiter's critical section and its sleep, the second check, the gate, the call, the usage
record and the gate's release in the callbacks, and the retries of the middleware. `log`
is the limiter's window: how long ago each call was admitted and the tokens it reserved; `Prune`
drops its head as `acquire` does, before it looks for room, and `Tick` is the clock. A cancellation
may come at any await; inside `ainvoke` the library may end the call without any callback,
which is the branch that loses a slot.

**Search** runs the queries of a call of the search tool (`Search` is a caller with a
query). One program counter per search goes through the providers: the unlocked read of
the row, the semaphore of the run, the slot of the worker, the request with its
attempts, and the transactions of the ledger, which take the row lock of the statement
that writes first and hold it to the commit. `errs` and `blocked` are the two lists of
`asearch`, `Verdict` its last lines; `reply` is what the tool hands to the model.

**Pipeline** is the graph of a run. `st` holds the channels the nodes and the router read,
`Goto` the runner's way of making a node's result the state (`validate_state_invariants`,
then `RouteAfter`), `NodeFails` and `BudgetRefused` its two exception paths, `Rendered` the
cases of the last node in their order. Clarifier and Writer run inside it step by step, each
with the graph saved between its steps; `Crash` throws away what is not saved. The row
appears with status and answer, since the answer travels in it: `UserAnswers` puts it there
and `Claim` gives it to every worker that takes the run, until the next pause.

**Clarifier** has the turns of the agent with its two tools and the outer nodes that ask and
finalize. `pending` is the question staged, `dialogue` the log. **Writer** has two copies of
its state, the channels (`readCh`, `draftCh`) and the context object (`readMem`, `draftMem`)
which a crash loses; `inline` is the text of a reply without tool calls, which becomes a draft
if it binds. `Settled` is the rebuild after the loop. A draft is the set of
evidence it cites; `Binds` says which sets pass the check.

**Supervisor** is one inner graph of the agent: the model's turns, the tools, and what
happens before and after. Its central fact is that the workbench exists twice. `channel`
is the graph's saved state, written through the reducers of `state.py` and `reducers.py`
with the increments the tools return; `board` is the object in memory that the tools read
and change. So every tool has two assignments, one per copy, each translated from its own
code. `Refresh` is the pair of hooks before the model (rebuild, then receive finished
tasks), `Reply` is everything the model and the hooks after it may do, `Execute` hands a
batch to the tools, and `Delegate`..`BatchDone` run its calls in their order. `Drain`,
`Fail`, `Close` and `NextRound` are the end of `Supervisor.run` and the next entry after a
rejected report; `entry` is the outer state in between. `handle` holds the asyncio tasks,
which only `Finish` moves. `Crash` throws away board, handles and counters and resumes
where the saved step was.
The variables `aged` and `astray` are not in the code. They record that the loop stands
on a board of before a crash, and that tools have run on such a board or a serial tool in
company. Both are reachable, section 6 tells what the first leads to, and
the properties that depend on them are stated for all other executions.
Abstractions: a task and the evidence it may find share an index; results are found,
failed or exhausted (the provider gave up); texts, the plan and details of failures are left
out; a framing is the set of fields filled in; every operation order that
`UpdateWorkbench` may produce is the choice of `Refills`; `WaitTask` returns with the end of
any task, not only of those it names; the calls of a batch run one after another although
the graph may overlap them, because only `wait` awaits between its reads and its writes and it
shares a batch only past the serial guard.

**Researcher** has the same two copies, `board` and `channel`, but its tools do await
between reading and writing, so the calls of one reply are threads (`call`) whose steps
interleave: a search registers its queries, waits, registers candidates; a read marks its
sources, waits for their texts; a submission looks for one quote after the other in the
texts, then adds what fits in one go. What they return is merged at the end of the batch (`Merge`). `store` is the store
of texts, from which `Expires` takes; `Fault` makes a store or the model fail; a model
may stop answering, and the task's time limit cancels it. A source has one document and
a document has `Quote` passages; what the model selects, reads and quotes is any choice.

**MC modules** define symmetry sets and the replies and crash points of an instance,
nothing else; no .cfg replaces a definition.

## 3. What TLC checks

| Run | Instance | Shows |
|---|---|---|
| fencing | 1 run, 2 workers, 2 deliveries, 2 messages, two out of 7 failures | `UniqueHolder`, `ZombieIsHarmless` |
| promise | the same size, two out of 7 other failures | `KeepsPromise`: refinement of RunPromise |
| delivery | 1 run, 2 workers, 3 deliveries, 1 message, three out of 5 failures, fair | `NoOrphan`, `AdoptsOnlyAbandoned`, `ExhaustSparesHolder`, `Progress` |
| stored | API, 2 workers, 5 frames or failures, batches of 2, 2 claims, one key | `OncePerKey`, `SeqDense`, `FramesKept`, `DoneTellsRow`, `DoneIsLast` |
| streams | API, 1 worker, 1 client, 5 frames or failures, fair client | `KeepsStream`: refinement of StreamPromise; `StreamsEnd` |
| supervisor | 2 tasks, 1 active slot, 2 rounds of 2 turns, 1 crash anywhere, pairs of calls | `BoardMirrorsChannels`, `FrozenIsCurrent`, `ActiveWithinLimit`, `TasksRegistered`, `ResultsAreFinal` |
| supervisor_ends | 1 task, a round budget of 1 and 2 rounds, 1 crash anywhere, fair | `RoundEnds` |
| pipeline | 3 evidence, one of it too weak, reads of one at a time, 3 turns and 1 nudge of the Writer, 2 questions, 2 turns of the Clarifier, 2 reviews, 1 crash anywhere, fair | `QuestionsBounded`, `CitesAreRead`, `ReportIsReviewed`, `AcceptedDraftSurvives`, `RunSettles` |
| calls | 3 coroutines of 2 runs with 2 calls each, 2 slots, 2 calls and 3 tokens in a window of 2, budget 2, 1 retry, estimates 1 and 4, one failure and one cancellation | `SlotsAccounted`, `NoOversleep`, `OvershootBounded` |
| admission | 2 API processes, 1 user, 3 runs, 2 per user, 1 in the queue, one key, 1 reopening | `QuotasKept`, `AnswerableKeepsThread` |
| researcher | 2 queries, 2 sources, 2 quotes of each, 1 query, 1 active and 2 archived allowed, 1 per source, 5 turns, 2 calls at a time, one failure, one expiry, fair | `WithinLimits`, `ChannelsCatchUp`, `NothingLost`, `StopTellsTruth`, `TaskEnds` |
| search | 2 runs of a worker, 3 searches, 2 providers, 1 slot, 2 attempts, threshold 2, one failure of the table, an earlier failure or none, fair | `FailuresCounted`, `BurstBounded`, `TriesAll`, `ExhaustedHasCause`, `SearchesEnd` |

*What the properties say.* The comment above each definition names the code it is about.
In short, of the modules of the run service: the token of a row has one holder and everybody
else changes nothing; a run ends once, as the user was told; no unfinished row is without
a message; a take-over hits only what was abandoned; numbers of events are dense,
keys once, frames kept, done last and true; and the stream a client sees is a growing
beginning of the stored one. Of the agents: both copies of a
workbench agree between two turns whatever failed in between; results of tasks are final;
a frozen synthesis is the newest; what a model was told is accepted is handed on, over
crashes of the Writer and failures of the Researcher; nothing is cited that was not read; a
report passes for finished only if that very draft was approved; the user is asked at most
so often; every loop ends. Of what runs share: quotas, slots and windows are exact under
races, overspending is bounded by the calls in flight, the failures of a provider are all
counted, and a provider is left alone but for requests already past the check.

*Types.* Every component's module states its `TypeOK`, and it is proved (section 5).
It is not among the properties of the runs, which are the ones that could fail for a reason
of the code.

*Why the bounds suffice.* Rows do not interact except through a worker's slots and its
per-run sets, which no property relates across runs, so one run is enough. Every
property about ownership involves a holder and one rival; two workers and two
deliveries give a rival at the same and at another worker, two messages give the
redelivery after an answer as well as a redispatch. Three deliveries in `delivery`
allow a zombie, its adopter and a third copy. `MaxAttempts` is 2 or 3, so that
dead-lettering happens within the bound. Five frames make more batches than
one, a failed one included, beside the frame of the API, and two claims make a
zombie with a successor. In `supervisor` two tasks compete for the one slot of the active
set and number themselves one after another; the second round begins with the synthesis and
the numbers of the first, and its evidence with a full active set; a batch of two
delegations can be interrupted between them; a turn may begin before and after each event,
and a second crash of a round would find a board the first already left behind. One aspect
and one framing field tell a complete synthesis from an incomplete one, and an edit of one
operation in each call leaves every combination to sequences of calls.
In `pipeline` two reviews make one revision and a used-up limit; three turns are a read of
each usable piece and a submission, and one more than a bad submission and its nudge; two
questions are one with an answer in the row while the next is staged. In `calls` two
coroutines share a run and its budget and the third competes for window and gate; an
estimate of 4 is more than the window ever holds, one of 1 leaves room for others. In
`admission` two processes are the race, the same user is the harder case since both counts
meet, three runs are more than the user's quota and the queue together. In `researcher` two
calls are the race and every limit is at its edge after one or two quotes. In `search`
two queries of one call share the run's semaphore, the other run shares only slots and
table; two attempts make a retry, and an earlier failure puts the circuit one below
its threshold.

## 4. Bounds, faults and fairness

*Why `delivery` has one dispatch.* With a second message (an answered run) the
properties `AdoptsOnlyAbandoned` and `NoOrphan` fail without any fault: see 1 in section 6
and the remark on `_lost_leases` there. The run keeps the part that holds.
*Why `delivery` has no outage, overstay or renewal failure.* 2 in section 6 is
the first; a copy that outstays its invisibility, and a renewal the broker
refuses, by themselves contradict "a lapse means that the holder is gone".
*Why `promise` has no shutdown, outage and overstay.* The flag of an interruption is kept per
run and not per task, so that the end of an older task of the run can make a shutdown look like
the user's cancellation, which the code then records; and the two others let a second worker
into a healthy execution. `fencing` has all three: whoever is let in, ownership stays unique.
*Why every module counts its faults.* A fault counter in each module (`MaxFaults`, `MaxCrashes`,
`MaxCancels`, `MaxExpiries`, `Budget` of RunEvents) keeps the instances finite. The invariants of
section 5 are proved without regard to its value.

*Histories.* Variables named as such in their modules record what has happened for a
property to refer to (`noted`, `late`, `refused`, `told`, `asked`, `fetched`, `shown`, `written`,
`judged`, `blind`, `leaked`, `answered`, `reopened`); no guard of the model reads them. The length of
`written` numbers the drafts, and `asked` of Clarifier is not one of them but
`clarification_rounds` of the state.

Deadlock checking is off because the bounds stop the model and because a finished run
has nothing left to do. Symmetry is used in safety runs only, over workers and deliveries,
API processes and run ids, and coroutines of the same run, which the specifications treat alike.

*Fairness.* `Fairness` of RunDispatch has weak fairness for every step a coroutine can
take by itself (the event loop schedules it), for the broker's delivery, its check
of half messages and the lapse of copies nobody holds, and for the restart of workers
(compose restarts them). Users, failures, shutdowns, lapses of held copies and the
delivery of notifications are not fair. The graph is taken to end (`Finish`): Pipeline shows
that it does. `FairSpec` of RunEvents has weak fairness only for the
client, which reconnects for ever (`app.js:1698`), and the stream, which polls every second.
`FairSpec` of Supervisor has it for the steps of the loop, for an answer of the model (calls
have timeouts and retries) and for the end of every research task (Researcher shows
that it comes); crashes, failures and the time limit of `WaitTask`, which the model
may leave out, are not fair. `FairSpec` of Pipeline has it for the graph as a whole and for
the worker that claims a run (RunDispatch shows that one does), not for the user: a run may
wait for an answer for ever. `FairSpec` of Researcher has it for the hooks, the answers of
the model and each tool call, which all have time limits, not for failures and expiry.
`FairSpec` of Search has it for the searches together: any of them is always able to go on, and
only finitely many steps of the others can come before. Admission and ModelCalls claim no
progress: a request may be refused, and a coroutine may wait for a window as long as others fill it.

## 5. What is proved

TLAPS proves the following for every value of the constants: any number of runs, workers,
deliveries, messages, handlers, users, callers, tasks, pieces of evidence, turns, crashes and
failures. The assumptions are those named in the modules: nulls differ from ordinary
values, bounds are naturals, some sets are finite.

* `RowConsistent`, `RowTerminalIsFinal` (RunDispatch_proofs): `RowShape` and
  `TerminalIsFinal` hold of any sequence of row writes. The inductive invariant is
  `RowTypeOK /\ RowShape`; `RowShape` is inductive because every writer that changes
  the status also sets or clears owner and answer.
* `TypeCorrect`, `ImplementsRow`, `RowStaysConsistent`, `TerminalStaysFinal`
  (RunDispatch_proofs): every action of RunDispatch is a row write or leaves the row
  alone, so it implements `RowSpec` and inherits the two results; its own types are proved action by action.
* `HolderIsUnique`, `ZombiesAreHarmless` (RunDispatch_proofs). `UniqueHolder` is not
  inductive by itself: a task could hold a token the row has yet to issue. The
  strengthening says that no task holds a token beyond the row's, that tokens of
  different tasks of a run differ, and that a task with the current token
  of a running row is at its owner. `Claim` issues a token larger than all before;
  all other writes leave tokens alone or raise them.
* `PromiseIsKept` (RunDispatch_proofs): the refinement of RunPromise, for any number of
  messages of a run, under `OnlyUserCancels`, which says that no worker shuts down and no lease task gives up: the
  instance `promise` has the same failures (section 4 says why). Row writes map to steps of
  RunPromise as soon as no run becomes cancelled that its user did not cancel (`Honest`). That
  needs to know what a cancelled task was cancelled for (`SignalsMeant`): the user asked, or the
  row has another holder. For this the consumer's dictionary must hold the task that
  executes, not a dead one (`Registered`), and a pending signal a live task (`Signalled`).
* `NoRunIsOrphaned`, `AdoptionWaits`, `DeadLetterWaits` (RunDispatch_proofs) under
  `OnlyAbandonedLapse`: one dispatch of each run, and no message taken from a delivery that is
  alive, as in the instance `delivery`. The invariant `Signpost` ties row, message and delivery together: what API
  and broker know of the message agrees with the row (`Sent`), every delivery holds the valid
  copy (`Valid`), so that a run has one delivery at a time, a delivery that is about to
  acknowledge has a run that ended or waits (`Concluded`), and one that still works for the run can
  tell so by token and status (`Carrying`). `lost` names only runs that are over (`LateOnly`), which is what
  makes swallowing a cancellation harmless.
* `StoredOnce`, `NumbersAreDense` (RunEvents_proofs). The visible length of the log is
  `event_seq`, or what it was before the transaction that holds the row lock. A transaction is
  `numbered` exactly while it has the lock (`Locked`), numbers without a hole end at the visible length (`Numbering`), and what it is to insert has each
  key once and stands, with what is stored, for the whole of its batch (`Chosen`). That a
  rival may have stored a key in between is what the unique constraint of the commit is for.
* `NothingIsLost` (RunEvents_proofs). For each process, the frames accepted are covered by what waits,
  what its two coroutines carry and what is stored (`SentKept`). Every step only moves frames along
  (`Flows`): a flush takes them, a failed one puts them back in front, deduplication drops
  those whose key is stored. A seat that was given up has no claim (`SeatsCount`).
* `DoneIsTrue`, `DoneComesLast` (RunEvents_proofs). A done frame is written by whoever knows the
  outcome, after the row became terminal, and a terminal row stays as it is
  (`OutcomeKnown`, `DoneKnown`). For the order: the done frame of a worker is the last of
  its sequence and of each batch (`DoneEnds`), and once it is on its way the worker's other
  coroutine has nothing left to append (`Coroutines`, `LastWord`): `execute()` awaits the
  periodic flush before it writes the last one.
* `StreamIsKept` (RunEvents_proofs): the refinement of StreamPromise. The stored frames, sorted by
  number, are a sequence that grows at its end as numbers are dense; a reader has the frames up to its
  own number (`Reading`); the end it was told is the row's (`EndIsReal`).
* `TypeCorrect` of RunEvents, Supervisor, Search, Researcher, Pipeline and ModelCalls say
  that every variable keeps its type, counters and slots their bounds.
* `TasksStayRegistered` (Supervisor_proofs): whatever the model answers and wherever
  the process dies, a task in memory is in the register of the channels. The invariant adds to
  `TasksRegistered` that workbenches are records with a register and handles have their
  values. What carries it: `SettleChannels` takes from the register exactly what
  `Ready` names, and `Received` leaves no handle of those behind.
* `BoardIsMirrored`, `FrozenStaysCurrent`, `ActiveStaysInLimit`, `ResultsStayFinal` (Supervisor_proofs).
  Board and channels are equal between batches, and an aged board is the entry of its round
  (`Mirror`, `Ordered`). A batch with a serial tool is that tool alone, so what it reads on the
  board is what it writes to the channels. The limit of the active set survives because
  absorption and release count with the evidence that is already active, and a refill is
  ranked and cut. Results are final as an index is handed out above all earlier ones
  (`Numbered`), which the entry of the round knows of, a crash within it included (`Known`).
* `TypeCorrect`, `LimitsHold`, `ChannelsHoldTheBoard`, `AcceptedIsReturned`, `NoSecondReading`,
  `ReasonIsTrue` (Researcher_proofs). While tools run, board and channels differ by what is
  still under way; the invariant says by how much: channels and hand-overs together hold what is
  on the board, but for what the calls under way have put there themselves. A source is
  marked as chosen before its text is awaited, so reads of one reply never meet. What the
  model was told is on the board from the commit on, and the salvage after a failure
  takes the board, not the channels.
* `QuotasHold`, `OneRunForOneRequest`, `AnswersAreTaken` (Admission_proofs). Between count and
  insert a handler holds the lock (`Exclusive`), and what it counted is still an upper
  bound (`Counted`): rows outside of the lock only leave the counted states, or come back by an
  answer or the operator, which no quota counts. For the checkpoint, what the sweep is still
  to delete is finished or was reopened (`Threads`).
* `SlotsNeverLost`, `OvershootHolds`, `NobodyOversleeps` (ModelCalls_proofs). Slots are counted over the callers that
  hold one, whose number changes by one at a time. The budget needs a promise: what is spent,
  plus a call for each caller past its check, stays within the bound (`Promised`), and a
  caller joins these only while the run is within its budget or as a blind call, which raises the bound. A
  sleeper has been turned down by calls that are still counted and wakes no later than the first of
  them leaves the window (`Sleeping`); as the log is in the order of admission, none of
  them leaves before, and calls admitted meanwhile only add to them. What the window counts
  is a sum over a sequence: the lemmas about it do by the least number for which a claim
  fails (`LeastNumber`) what an induction theorem would do.
* `FailuresAreKept`, `ClosedProviderIsSpared`, `AllProvidersAreTried`, `ExhaustionIsReal`
  (Search_proofs). The semaphore of a run and the slots of the worker are counted by those who hold them (`Gated`,
  `Lined`). A search that holds the lock of a row has read that row as it is (`Table`), so each
  commit adds exactly what was noted. Searches that may still call a provider after its window opened
  had passed the check and hold a slot (`Burst`). Errors and blocks of a search number the
  providers behind it (`Progress`), and as long as no account was refused nothing in the
  table, the lists or the cache says so (`Cause`).
* `DeliveredIsReviewed`, `NothingUnreadIsCited`, `ReviewsAreCounted`, `UserIsNotPestered`,
  `AcceptedIsHandedOn` (Pipeline_proofs). The invariant says node by node which drafts are
  written and judged: before the review the last one is unread, after it each is judged, and attempts
  count the judged ones. Of the Writer it says that channels and memory hold only
  what was offered and read, and that an accepted draft is in the channels before the loop
  ends, which is what survives a crash.

Only model-checked: liveness, which rests on fairness and ENABLED and is out of the
prover's reach: `Progress`, `StreamsEnd`, `RoundEnds`, `RunSettles`, `TaskEnds`, `SearchesEnd`.
Every other property of section 3 has a theorem. What a theorem has as
hypothesis beyond the assumptions of the modules is in its statement: `OnlyUserCancels` and
`OnlyAbandonedLapse`, of RunDispatch only.

## 6. Where code and words disagree

1. A run that asks a question is acknowledged only after its final flush
   (`executor.py:261`). An answer that arrives before that is claimed with a new token, the lease task
   of the first execution cancels it inside its finally block, and its message comes
   back and adopts the healthy holder; `AdoptsOnlyAbandoned` fails with two dispatches.
2. After an outage as long as the lease budget a healthy execution is
   ended like a lost one and its message acknowledged; the row stays running
   (`consumer.py:270`). `NoOrphan` fails with the hazard `outage`.
3. A run flagged for cancellation may still park itself as
   `awaiting_input`; nothing then settles the request (`manager.py:123`).
4. A stream reads the tail, then the row; between the two the done frame
   can be stored, and the client is sent a made-up one instead (`routes/events.py:96`).
5. A loop of the Supervisor that resumes after a crash beyond the hook that rebuilds the
   board works on the board of the beginning of the round (`supervisor/agent.py:233`). In a
   later round that board holds the synthesis of the rejected report as fresh, and
   `ResearchComplete` freezes it although the channels hold a newer one.

*Seen while modelling the service.* A cancellation inside the
finally block of `execute()` skips the lines that discard the run from `_lost_leases`, so
that the next cancellation of the run at this worker is swallowed, its message acknowledged
and the row left running; a copy waiting in the prefetch queue is
not renewed, so that its later acceptance adopts from a healthy holder; deliveries
count as attempts even if no execution was tried (failed transactions, prefetch), so a run can
be dead-lettered that never started; `_shutdown_interrupts` shared by two tasks of a
run can turn a shutdown into a recorded user cancellation; the inline flush of the
headline overtakes a batch of the periodic flush, so that numbers do not follow the
order of writing.

*Of Admission.* A run that is reopened after it was pruned keeps `retention_pruned_at`, and the sweep
under way may still delete its checkpoint, so that its user cannot answer (`AnswerableKeepsThread` excludes
it); a crash between the mark and `adelete_thread` leaves checkpoints for ever; an
answered run goes back to the queue whatever its length; reopening may hit the unique index.

*Of ModelCalls.* If the library ends a cancelled `ainvoke` without a callback, its slot is lost for the
life of the worker (`leaked`); the window is consulted before the gate, so that calls admitted
at different times may start at once; the first check of the budget propagates an error of
the database, the second lets the call pass.

*Of Search.* `trip` reads without a lock and may shorten a longer window, which its docstring denies
(`provider_health.py:80`); a late success deletes even the window of an account out of
credit; a row deleted in between makes `trip` raise StaleDataError, a second IntegrityError
is not caught, and neither is an error the tool understands, so the whole call of the tool
fails; of providers left out the first decides the verdict, so that one account
out of credit and another merely rate-limited are reported as exhausted; that report
drops what other queries of the call have found.

*Of Researcher.* A search that fails hands over nothing, and the next rebuild forgets that its queries
were sent, so they do not count against the limit; a text that has expired, or an error of the
store in a submission, fails the task and not just the call; a source whose reading failed
stays chosen and cannot be read again; an interrupted task is never resumed, the
Supervisor settles it as failed.

*Of Pipeline.* A budget used up inside the Supervisor's loop is reported as incomplete research, not as
`budget_exhausted`; the log of the clarification is doubled by its reducer when the agent's
inner graph returns it; the answer stays in the row until the next pause, so that a takeover
resumes with an answer that was taken before, which `QuestionsBounded` shows to be harmless.

*Of Supervisor.* The check that aspects bind active evidence is made
when the draft is edited only (`services.py:725`), so that releasing evidence and then
acknowledging the draft lets `ResearchComplete` freeze a synthesis that cites what was
released; the serial guard looks at the last message only (`serial_tools.py:19`), which is
not the reply when `ToolCallLimit` has appended its refusals; an exhausted round budget is
noted on the board only (`services.py:71`) and lost with the next rebuild; the comment
`reducers.py:27` says that removals from the active set come from a batch of their own, while
`UpdateWorkbench`, which releases, is not a serial tool.

## 7. Not modelled, and the plan

Contents of reports and prompts, parsing of pages, ranking, paging, rendering, projection for the
web page, wiring of processes, prices, evaluation and scripts are data or I/O: they
read state others own, or compute a text from a text. Previews are lossy by design and
nothing depends on them. Reads of the web are any outcome.

| Next | Module | Content | Runs and theorems |
|---|---|---|---|
| 1 | LoginRateLimiter | the two budgets of failed logins under sorted advisory locks | budget never exceeded, no deadlock |
| 2 | proofs | `PromiseIsKept` with shutdowns, for executions that are the only one of their run at the worker | |
| 3 | ResearchPromise | abstract Supervisor: a task is handed out once and settled once | `Supervisor` implements it |
| 4 | LeaseTiming | invisibility, renewal period and failure budget on an explicit clock | the assumption behind `delivery` |
| 5 | Compaction | the middleware that shortens messages and keeps pairs of calls and results | |
