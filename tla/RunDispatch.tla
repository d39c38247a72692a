----------------------------- MODULE RunDispatch -----------------------------
(***************************************************************************)
(* How a run gets executed: the API writes the row together with a         *)
(* transactional RocketMQ message, the broker delivers the message at      *)
(* least once, worker processes decide each delivery against the row,      *)
(* claim the row under a fence token, execute it while a lease task keeps  *)
(* checking the row, write the outcome and acknowledge.                    *)
(*                                                                         *)
(* The unit of work is one DELIVERY of a message: the pull task that holds *)
(* it, RunConsumer._accept and the task running _execute_claimed are one   *)
(* thread of control and share one program counter, pc[h].  A step ends    *)
(* where the coroutine awaits the database or the broker.                  *)
(***************************************************************************)
EXTENDS RunRow, FiniteSets

CONSTANTS Deliveries,   \* concurrent deliveries (bound of the model)
          NoDelivery, NoMsg,
          MaxDispatch,  \* dispatch messages per run (bound of the model)
          MaxAttempts,  \* rocketmq_dispatch_max_attempts
          MaxRunning,   \* worker_max_running_runs, the slots of one worker
          PrefetchCap,  \* copies a worker may hold before a slot is free
          Hazards,      \* which failures of the environment may happen
          MaxFaults     \* how many in total (bound of the model)

Msgs == Runs \X (1..MaxDispatch)
HazardKinds == {"crash", "shutdown", "db", "ack", "report", "earlycheck",
                "overstay", "renewal", "outage", "redispatch"}

ASSUME BoundsAssumption ==
  /\ MaxDispatch \in Nat \ {0} /\ MaxAttempts \in Nat \ {0, 1}
  /\ MaxRunning \in Nat \ {0}  /\ PrefetchCap \in Nat \ {0}
  /\ MaxFaults \in Nat         /\ Hazards \subseteq HazardKinds
ASSUME NullsAssumption == NoDelivery \notin Deliveries /\ NoMsg \notin Msgs

VARIABLES
  mstate,    \* broker: where message m is
  attempt,   \* broker: deliveries of m so far; saturates at MaxAttempts
  latest,    \* broker: the delivery whose receipt of m is the valid one
  op,        \* API: RunManager's coroutine that dispatches m
  up,        \* worker process: "up", "closing", "teardown" or "down"
  lost,      \* RunExecutor._lost_leases of the worker
  stopping,  \* RunExecutor._shutdown_interrupts of the worker
  task,      \* RunConsumer._tasks (and _claims): run -> its delivery
  handover,  \* fence tokens shutdown() still has to release; 0 is none
  pc, at, msg, att, \* a delivery: control, worker, message, delivery_attempt
  token,     \* work.fence_token of a delivery; 0 before the claim
  sig,       \* task.cancel() has been called and not yet been delivered
  watch,     \* the lease task of this delivery is alive
  faults

brokerVars   == <<mstate, attempt, latest, op>>
workerVars   == <<up, lost, stopping, task, handover>>
deliveryVars == <<pc, at, msg, att, token, sig, watch>>
vars == <<rowVars, brokerVars, workerVars, deliveryVars, faults>>

AcceptPcs == {"cancelling", "exhausting", "lapsing", "acquiring", "settled"}
TaskPcs   == {"starting", "executing", "settling", "closing", "unwinding", "acking"}
LeasePcs  == TaskPcs \ {"acking"}

BrokerTypeOK ==
  /\ mstate  \in [Msgs -> {"none", "half", "ready", "leased", "acked", "void"}]
  /\ attempt \in [Msgs -> 0..MaxAttempts]
  /\ latest  \in [Msgs -> Deliveries \cup {NoDelivery}]
  /\ op      \in [Msgs -> {"idle", "sent", "applied", "refused", "reopened", "done"}]

WorkerTypeOK ==
  /\ up       \in [Workers -> {"up", "closing", "teardown", "down"}]
  /\ lost     \in [Workers -> SUBSET Runs]
  /\ stopping \in [Workers -> SUBSET Runs]
  /\ task     \in [Workers -> [Runs -> Deliveries \cup {NoDelivery}]]
  /\ handover \in [Workers -> [Runs -> Nat]]

DeliveryTypeOK ==
  /\ pc    \in [Deliveries -> {"free", "prefetched"} \cup AcceptPcs \cup TaskPcs]
  /\ at    \in [Deliveries -> Workers \cup {Nobody}]
  /\ msg   \in [Deliveries -> Msgs \cup {NoMsg}]
  /\ att   \in [Deliveries -> 0..MaxAttempts]
  /\ token \in [Deliveries -> Nat]
  /\ sig   \in [Deliveries -> BOOLEAN]
  /\ watch \in [Deliveries -> BOOLEAN]

TypeOK == RowTypeOK /\ BrokerTypeOK /\ WorkerTypeOK /\ DeliveryTypeOK /\ faults \in Nat

Init ==
  /\ RowInit
  /\ mstate   = [m \in Msgs |-> "none"]
  /\ attempt  = [m \in Msgs |-> 0]
  /\ latest   = [m \in Msgs |-> NoDelivery]
  /\ op       = [m \in Msgs |-> "idle"]
  /\ up       = [w \in Workers |-> "up"]
  /\ lost     = [w \in Workers |-> {}]
  /\ stopping = [w \in Workers |-> {}]
  /\ task     = [w \in Workers |-> [r \in Runs |-> NoDelivery]]
  /\ handover = [w \in Workers |-> [r \in Runs |-> 0]]
  /\ pc       = [h \in Deliveries |-> "free"]
  /\ at       = [h \in Deliveries |-> Nobody]
  /\ msg      = [h \in Deliveries |-> NoMsg]
  /\ att      = [h \in Deliveries |-> 0]
  /\ token    = [h \in Deliveries |-> 0]
  /\ sig      = [h \in Deliveries |-> FALSE]
  /\ watch    = [h \in Deliveries |-> FALSE]
  /\ faults   = 0

-----------------------------------------------------------------------------
Fault(k) == k \in Hazards /\ faults < MaxFaults /\ faults' = faults + 1
NoFault  == UNCHANGED faults

run(h)   == msg[h][1]
Fresh(h) == mstate[msg[h]] = "leased" /\ latest[msg[h]] = h
AtWorker(w, pcs) == {h \in Deliveries : at[h] = w /\ pc[h] \in pcs}

Goto(h, p) ==
  /\ pc' = [pc EXCEPT ![h] = p]
  /\ UNCHANGED <<at, msg, att, token, sig, watch>>

(* The coroutines of the deliveries in H end; their receipts, if any is    *)
(* still valid, are held by nobody from now on.                            *)
Vanish(H) ==
  /\ pc'    = [h \in Deliveries |-> IF h \in H THEN "free" ELSE pc[h]]
  /\ at'    = [h \in Deliveries |-> IF h \in H THEN Nobody ELSE at[h]]
  /\ msg'   = [h \in Deliveries |-> IF h \in H THEN NoMsg ELSE msg[h]]
  /\ att'   = [h \in Deliveries |-> IF h \in H THEN 0 ELSE att[h]]
  /\ token' = [h \in Deliveries |-> IF h \in H THEN 0 ELSE token[h]]
  /\ watch' = [h \in Deliveries |-> IF h \in H THEN FALSE ELSE watch[h]]
  /\ latest' = [m \in Msgs |-> IF latest[m] \in H THEN NoDelivery ELSE latest[m]]

Unsignal(H) == sig' = [h \in Deliveries |-> IF h \in H THEN FALSE ELSE sig[h]]
Drop(h)     == Vanish({h}) /\ Unsignal({h}) /\ UNCHANGED <<mstate, attempt, op>>

(* Acknowledging with a receipt that is no longer valid has no effect.     *)
Acknowledge(h) ==
  /\ mstate' = [mstate EXCEPT ![msg[h]] = IF Fresh(h) THEN "acked" ELSE @]
  /\ Vanish({h}) /\ Unsignal({h})
  /\ UNCHANGED <<attempt, op>>

(* _on_task_done: pops whatever the dictionaries hold for this run.        *)
TaskDone(h) == task' = [task EXCEPT ![at[h]][run(h)] = NoDelivery]

Unflag(h) ==
  /\ lost'     = [lost EXCEPT ![at[h]] = @ \ {run(h)}]
  /\ stopping' = [stopping EXCEPT ![at[h]] = @ \ {run(h)}]
MarkLost(h) == lost' = [lost EXCEPT ![at[h]] = @ \cup {run(h)}]

-----------------------------------------------------------------------------
(* THE API PROCESS: RocketMQDispatchPublisher.dispatch sends a half        *)
(* message, runs the local transaction and reports the result.             *)
NextMsg(m) ==
  /\ mstate[m] = "none" /\ op[m] = "idle"
  /\ \A k \in 1..(m[2] - 1) : op[<<m[1], k>>] # "idle"

(* The first message of a run creates it; later ones carry an answer.      *)
SendHalf(m) ==
  /\ NextMsg(m)
  /\ status[m[1]] = (IF m[2] = 1 THEN "absent" ELSE "awaiting_input")
  /\ mstate' = [mstate EXCEPT ![m] = "half"]
  /\ op' = [op EXCEPT ![m] = "sent"]
  /\ UNCHANGED <<rowVars, attempt, latest, workerVars, deliveryVars, faults>>

LocalTransaction(m) ==
  /\ op[m] = "sent"
  /\ \/ /\ IF m[2] = 1 THEN Insert(m[1]) ELSE Answer(m[1])
        /\ op' = [op EXCEPT ![m] = "applied"]
     \/ /\ m[2] > 1 /\ ~Answerable(m[1])
        /\ op' = [op EXCEPT ![m] = "refused"]
        /\ UNCHANGED rowVars
  /\ UNCHANGED <<mstate, attempt, latest, workerVars, deliveryVars, faults>>

(* A report that arrives after the broker settled the message is ignored.  *)
Report(m) ==
  /\ op[m] \in {"applied", "refused"}
  /\ mstate' = [mstate EXCEPT ![m] =
                  IF @ # "half" THEN @
                  ELSE IF op[m] = "applied" THEN "ready" ELSE "void"]
  /\ op' = [op EXCEPT ![m] = "done"]
  /\ UNCHANGED <<rowVars, attempt, latest, workerVars, deliveryVars, faults>>

(* The report is lost, or the API process dies before sending it.          *)
ReportLost(m) ==
  /\ op[m] \in {"sent", "applied", "refused"}
  /\ Fault("report")
  /\ op' = [op EXCEPT ![m] = "done"]
  /\ UNCHANGED <<rowVars, mstate, attempt, latest, workerVars, deliveryVars>>

(* Mutant: the checker takes a committed creation for a failed one.        *)
BrokerCheck_Discards(m) ==
  /\ mstate[m] = "half" /\ op[m] = "done"
  /\ mstate' = [mstate EXCEPT ![m] = "void"]
  /\ UNCHANGED <<rowVars, attempt, latest, op, workerVars, deliveryVars, faults>>

(* RunExistsChecker: asked about a half message, it looks for the row.     *)
BrokerCheck(m) ==
  /\ mstate[m] = "half"
  /\ op[m] = "done" \/ "earlycheck" \in Hazards
  /\ mstate' = [mstate EXCEPT ![m] =
                  IF status[m[1]] # "absent" THEN "ready" ELSE "void"]
  /\ UNCHANGED <<rowVars, attempt, latest, op, workerVars, deliveryVars, faults>>

UserCancel(r) ==
  /\ RequestCancel(r)
  /\ UNCHANGED <<brokerVars, workerVars, deliveryVars, faults>>

(* WorkerRuntime.recover_run: reopen the row, then send a plain message.   *)
RecoverRun(m) ==
  /\ NextMsg(m) /\ m[2] > 1
  /\ Reopen(m[1])
  /\ op' = [op EXCEPT ![m] = "reopened"]
  /\ UNCHANGED <<mstate, attempt, latest, workerVars, deliveryVars, faults>>

Redispatch(m) ==
  /\ op[m] = "reopened"
  /\ mstate' = [mstate EXCEPT ![m] = "ready"]
  /\ op' = [op EXCEPT ![m] = "done"]
  /\ UNCHANGED <<rowVars, attempt, latest, workerVars, deliveryVars, faults>>

RedispatchFails(m) ==
  /\ op[m] = "reopened"
  /\ Fault("redispatch")
  /\ op' = [op EXCEPT ![m] = "done"]
  /\ UNCHANGED <<rowVars, mstate, attempt, latest, workerVars, deliveryVars>>

-----------------------------------------------------------------------------
(* THE BROKER AND THE RECEIVER.                                            *)
Pull(h, w, m) ==
  /\ up[w] = "up" /\ mstate[m] = "ready" /\ pc[h] = "free"
  /\ Cardinality(AtWorker(w, {"prefetched"})) < PrefetchCap
  /\ mstate'  = [mstate EXCEPT ![m] = "leased"]
  /\ attempt' = [attempt EXCEPT ![m] = IF @ = MaxAttempts THEN @ ELSE @ + 1]
  /\ latest'  = [latest EXCEPT ![m] = h]
  /\ pc'  = [pc EXCEPT ![h] = "prefetched"]
  /\ at'  = [at EXCEPT ![h] = w]
  /\ msg' = [msg EXCEPT ![h] = m]
  /\ att' = [att EXCEPT ![h] = attempt'[m]]
  /\ UNCHANGED <<rowVars, op, workerVars, token, sig, watch, faults>>

(* Mutant: an executing delivery never renews its invisibility.            *)
Expire_NoRenewal(m) ==
  /\ mstate[m] = "leased"
  /\ latest[m] # NoDelivery => pc[latest[m]] \in TaskPcs
  /\ mstate' = [mstate EXCEPT ![m] = "ready"]
  /\ latest' = [latest EXCEPT ![m] = NoDelivery]
  /\ UNCHANGED <<rowVars, attempt, op, workerVars, deliveryVars, faults>>

(* The invisibility lapses.  Nothing renews a copy that waits in the       *)
(* prefetch queue or in _accept ("overstay"); an executing copy lapses     *)
(* only when its renewals fail ("renewal").                                *)
Expire(m) ==
  /\ mstate[m] = "leased"
  /\ \/ latest[m] = NoDelivery /\ NoFault
     \/ /\ latest[m] # NoDelivery
        /\ Fault(IF pc[latest[m]] \in TaskPcs THEN "renewal" ELSE "overstay")
  /\ mstate' = [mstate EXCEPT ![m] = "ready"]
  /\ latest' = [latest EXCEPT ![m] = NoDelivery]
  /\ UNCHANGED <<rowVars, attempt, op, workerVars, deliveryVars>>

-----------------------------------------------------------------------------
(* RunConsumer._accept.  The receive loop handles one delivery at a time   *)
(* and only when a slot is free; what it does next is fixed by the         *)
(* snapshot it reads here, each verdict being carried out in a later step. *)
Verdict(h) ==
  LET r == run(h) IN
  CASE status[r] \in Terminal \cup {"absent"} -> "settled"
    [] status[r] \in Outstanding /\ cancelReq[r] -> "cancelling"
    [] status[r] = "awaiting_input" /\ ~cancelReq[r] -> "settled"
    [] status[r] \in Exhaustible /\ ~cancelReq[r] /\ att[h] >= MaxAttempts -> "exhausting"
    [] OTHER -> "acquiring"

MayAccept(h) ==
  /\ pc[h] = "prefetched" /\ up[at[h]] = "up"
  /\ AtWorker(at[h], AcceptPcs) = {}
  /\ Cardinality(AtWorker(at[h], TaskPcs)) < MaxRunning

Inspect(h) ==
  /\ MayAccept(h)
  /\ Goto(h, Verdict(h))
  /\ UNCHANGED <<rowVars, brokerVars, workerVars, faults>>

InspectFails(h) ==
  /\ MayAccept(h) /\ Fault("db")
  /\ Drop(h)
  /\ UNCHANGED <<rowVars, workerVars>>

AcceptCancelled(h) ==
  /\ pc[h] = "cancelling"
  /\ \/ /\ SettleCancelled(run(h))
        /\ Goto(h, "settled") /\ UNCHANGED brokerVars
     \/ /\ ~CancelSettles(run(h))
        /\ Drop(h) /\ UNCHANGED rowVars
  /\ UNCHANGED <<workerVars, faults>>

(* settle_exhausted is two transactions: cancellation first.               *)
AcceptExhausted(h) ==
  /\ pc[h] = "exhausting"
  /\ \/ SettleCancelled(run(h)) /\ Goto(h, "settled")
     \/ ~CancelSettles(run(h)) /\ Goto(h, "lapsing") /\ UNCHANGED rowVars
  /\ UNCHANGED <<brokerVars, workerVars, faults>>

AcceptLapsed(h) ==
  /\ pc[h] = "lapsing"
  /\ \/ /\ SettleExhausted(run(h))
        /\ Goto(h, "settled") /\ UNCHANGED brokerVars
     \/ /\ ~ExhaustHits(run(h))
        /\ Drop(h) /\ UNCHANGED rowVars
  /\ UNCHANGED <<workerVars, faults>>

(* RunStore.acquire, and the task that starts when it succeeds.            *)
Acquire(h) ==
  /\ pc[h] = "acquiring"
  /\ LET r == run(h)
         w == at[h]
     IN \/ /\ Claim(r, w)
           /\ pc'    = [pc EXCEPT ![h] = IF ResumesOnClaim(r) THEN "starting" ELSE "executing"]
           /\ token' = [token EXCEPT ![h] = fence'[r]]
           /\ watch' = [watch EXCEPT ![h] = TRUE]
           /\ task'  = [task EXCEPT ![w][r] = h]
           /\ UNCHANGED <<brokerVars, at, msg, att, sig, up, lost, stopping, handover>>
        \/ /\ ~Claimable(r)
           /\ Drop(h) /\ UNCHANGED <<rowVars, workerVars>>
  /\ NoFault

(* The claim commits but its answer never arrives: no task is created.     *)
AcquireUnseen(h) ==
  /\ pc[h] = "acquiring" /\ Fault("db")
  /\ Claim(run(h), at[h])
  /\ Drop(h)
  /\ UNCHANGED workerVars

(* A transaction of _accept raises: no acknowledgement, the slot is freed. *)
AcceptFails(h) ==
  /\ pc[h] \in AcceptPcs \ {"settled"} /\ Fault("db")
  /\ Drop(h)
  /\ UNCHANGED <<rowVars, workerVars>>

AcceptAck(h) ==
  /\ pc[h] = "settled"
  /\ Acknowledge(h)
  /\ UNCHANGED <<rowVars, workerVars, faults>>

AcceptAckLost(h) ==
  /\ pc[h] = "settled" /\ Fault("ack")
  /\ Drop(h)
  /\ UNCHANGED <<rowVars, workerVars>>

-----------------------------------------------------------------------------
(* RunConsumer._hold_lease: the lease task of an executing delivery.  A    *)
(* verdict "held" changes nothing here (renewing is why Expire spares an   *)
(* executing copy); the other verdicts cancel the task and end this one.   *)
Signal(H) == sig' = [h \in Deliveries |-> sig[h] \/ h \in H]

LeaseCheck(h) ==
  /\ pc[h] \in LeasePcs /\ watch[h]
  /\ \/ fence[run(h)] # token[h] /\ MarkLost(h)
     \/ fence[run(h)] = token[h] /\ cancelReq[run(h)] /\ UNCHANGED lost
  /\ Signal({h})
  /\ watch' = [watch EXCEPT ![h] = FALSE]
  /\ UNCHANGED <<rowVars, brokerVars, up, stopping, task, handover, pc, at, msg, att, token, faults>>

(* The row could not be read for the whole failure budget.                 *)
LeaseGiveUp(h) ==
  /\ pc[h] \in LeasePcs /\ watch[h] /\ Fault("outage")
  /\ MarkLost(h) /\ Signal({h})
  /\ watch' = [watch EXCEPT ![h] = FALSE]
  /\ UNCHANGED <<rowVars, brokerVars, up, stopping, task, handover, pc, at, msg, att, token>>

(* A cancel notification: the worker looks the run up in its dictionaries, *)
(* confirms the intent in the row and cancels the task it finds.           *)
CancelIfConfirmed(w, r) ==
  /\ up[w] = "up" /\ task[w][r] # NoDelivery
  /\ fence[r] = token[task[w][r]] /\ cancelReq[r]
  /\ Signal({task[w][r]})
  /\ UNCHANGED <<rowVars, brokerVars, workerVars, pc, at, msg, att, token, watch, faults>>

-----------------------------------------------------------------------------
(* The task: _execute_claimed and RunExecutor.execute.                     *)
TaskEnds(h) == TaskDone(h) /\ UNCHANGED <<up, stopping, handover>>

(* Flushing the `resuming` frame is the only await before execute().       *)
Started(h) ==
  /\ pc[h] = "starting" /\ ~sig[h]
  /\ Goto(h, "executing")
  /\ UNCHANGED <<rowVars, brokerVars, workerVars, faults>>

StartCancelled(h) ==
  /\ pc[h] = "starting" /\ sig[h]
  /\ Drop(h) /\ TaskEnds(h)
  /\ UNCHANGED <<rowVars, lost, faults>>

(* The outcomes of the graph that a holder writes; a miss means it has     *)
(* lost the row, which it remembers in _lost_leases.                       *)
WriteOutcome(h) ==
  \/ \E s \in {"completed", "failed"} : Persist(run(h), at[h], token[h], s, "engine")
  \/ PersistAwaiting(run(h), at[h], token[h])

Finish(h) ==
  /\ pc[h] = "executing" /\ ~sig[h]
  /\ \/ WriteOutcome(h) /\ UNCHANGED lost
     \/ /\ ~Owned(run(h), at[h], token[h])
        /\ MarkLost(h) /\ UNCHANGED rowVars
  /\ Goto(h, "closing")
  /\ UNCHANGED <<brokerVars, up, stopping, task, handover, faults>>

(* The write raises: execute() runs its finally block and propagates.      *)
FinishFails(h) ==
  /\ (pc[h] = "executing" /\ ~sig[h]) \/ pc[h] = "settling"
  /\ Fault("db")
  /\ Goto(h, "unwinding")
  /\ UNCHANGED <<rowVars, brokerVars, workerVars>>

(* The outcome commits while the cancellation is already on its way.       *)
FinishUnseen(h) ==
  /\ pc[h] = "executing" /\ sig[h]
  /\ WriteOutcome(h)
  /\ UNCHANGED <<brokerVars, workerVars, deliveryVars, faults>>

(* except asyncio.CancelledError: a shutdown propagates, a lost lease is   *)
(* swallowed, anything else is taken for the user's cancellation.          *)
Cancelled(h) ==
  /\ pc[h] = "executing" /\ sig[h]
  /\ LET p == IF run(h) \in stopping[at[h]] THEN "unwinding"
              ELSE IF run(h) \in lost[at[h]] THEN "closing" ELSE "settling"
     IN pc' = [pc EXCEPT ![h] = p]
  /\ Unsignal({h})
  /\ UNCHANGED <<rowVars, brokerVars, workerVars, at, msg, att, token, watch, faults>>

SettleOwn(h) == Persist(run(h), at[h], token[h], "cancelled", "user_cancelled")

Settled(h) ==
  /\ pc[h] = "settling" /\ ~sig[h]
  /\ \/ SettleOwn(h) /\ UNCHANGED lost
     \/ /\ ~Owned(run(h), at[h], token[h])
        /\ MarkLost(h) /\ UNCHANGED rowVars
  /\ Goto(h, "closing")
  /\ UNCHANGED <<brokerVars, up, stopping, task, handover, faults>>

(* A second cancellation: the shielded write goes on, or dies with the     *)
(* event loop, while the task unwinds without it.                          *)
SettledAlone(h) ==
  /\ pc[h] = "settling" /\ sig[h]
  /\ SettleOwn(h) \/ UNCHANGED rowVars
  /\ pc' = [pc EXCEPT ![h] = "unwinding"] /\ Unsignal({h})
  /\ UNCHANGED <<brokerVars, workerVars, at, msg, att, token, watch, faults>>

(* The finally block: flush, then forget the flags of this RUN.  A normal  *)
(* return leads to the acknowledgement, an exception does not.             *)
Closed(h) ==
  /\ pc[h] = "closing" /\ ~sig[h]
  /\ pc' = [pc EXCEPT ![h] = "acking"]
  /\ watch' = [watch EXCEPT ![h] = FALSE]
  /\ Unflag(h)
  /\ UNCHANGED <<rowVars, brokerVars, up, task, handover, at, msg, att, token, sig, faults>>

(* Mutant: an execution interrupted by the shutdown is acknowledged.       *)
Unwound_Acks(h) ==
  /\ pc[h] = "unwinding" /\ ~sig[h]
  /\ Acknowledge(h) /\ TaskDone(h) /\ Unflag(h)
  /\ UNCHANGED <<rowVars, up, handover, faults>>

Unwound(h) ==
  /\ pc[h] = "unwinding" /\ ~sig[h]
  /\ Drop(h) /\ TaskDone(h) /\ Unflag(h)
  /\ UNCHANGED <<rowVars, up, handover, faults>>

(* A cancellation inside the finally block skips the rest of it.           *)
CloseCancelled(h) ==
  /\ pc[h] \in {"closing", "unwinding"} /\ sig[h]
  /\ Drop(h) /\ TaskEnds(h)
  /\ UNCHANGED <<rowVars, lost, faults>>

Ack(h) ==
  /\ pc[h] = "acking" /\ up[at[h]] # "teardown"
  /\ Acknowledge(h) /\ TaskEnds(h)
  /\ UNCHANGED <<rowVars, lost, faults>>

(* Cancelled on the way, receiver already closed, or refused by the broker.*)
AckLost(h) ==
  /\ pc[h] = "acking"
  /\ \/ (sig[h] \/ up[at[h]] = "teardown") /\ NoFault
     \/ ~sig[h] /\ up[at[h]] # "teardown" /\ Fault("ack")
  /\ Drop(h) /\ TaskEnds(h)
  /\ UNCHANGED <<rowVars, lost>>

-----------------------------------------------------------------------------
(* The worker process.  shutdown() stops the receive loop, marks and       *)
(* cancels the tasks its dictionary holds, waits for them, and releases    *)
(* their rows; asyncio.run then cancels whatever task is left.             *)
BeginShutdown(w) ==
  /\ up[w] = "up" /\ Fault("shutdown")
  /\ up' = [up EXCEPT ![w] = "closing"]
  /\ stopping' = [stopping EXCEPT ![w] = @ \cup {r \in Runs : task[w][r] # NoDelivery}]
  /\ handover' = [handover EXCEPT ![w] =
       [r \in Runs |-> IF task[w][r] = NoDelivery THEN 0 ELSE token[task[w][r]]]]
  /\ LET waiting == AtWorker(w, {"prefetched"} \cup AcceptPcs)
     IN /\ Vanish(waiting)
        /\ Signal({task[w][r] : r \in Runs} \ waiting)
  /\ UNCHANGED <<rowVars, mstate, attempt, op, lost, task>>

Gathered(w) ==
  \A h \in AtWorker(w, TaskPcs) : handover[w][run(h)] # token[h]

ReleaseRun(w, r) ==
  /\ up[w] = "closing" /\ Gathered(w) /\ handover[w][r] # 0
  /\ \/ ReleaseRow(r, w, handover[w][r]) /\ NoFault
     \/ ~Owned(r, w, handover[w][r]) /\ UNCHANGED rowVars /\ NoFault
     \/ Fault("db") /\ UNCHANGED rowVars
  /\ handover' = [handover EXCEPT ![w][r] = 0]
  /\ UNCHANGED <<brokerVars, up, lost, stopping, task, deliveryVars>>

Teardown(w) ==
  /\ up[w] = "closing" /\ Gathered(w) /\ \A r \in Runs : handover[w][r] = 0
  /\ up' = [up EXCEPT ![w] = "teardown"]
  /\ Signal(AtWorker(w, TaskPcs))
  /\ watch' = [h \in Deliveries |-> watch[h] /\ h \notin AtWorker(w, TaskPcs)]
  /\ UNCHANGED <<rowVars, brokerVars, lost, stopping, task, handover, pc, at, msg, att, token, faults>>

Forget(w) ==
  /\ up'       = [up EXCEPT ![w] = "down"]
  /\ lost'     = [lost EXCEPT ![w] = {}]
  /\ stopping' = [stopping EXCEPT ![w] = {}]
  /\ task'     = [task EXCEPT ![w] = [r \in Runs |-> NoDelivery]]
  /\ handover' = [handover EXCEPT ![w] = [r \in Runs |-> 0]]

Stop(w) ==
  /\ up[w] = "teardown" /\ AtWorker(w, TaskPcs) = {}
  /\ Forget(w)
  /\ UNCHANGED <<rowVars, brokerVars, deliveryVars, faults>>

Crash(w) ==
  /\ up[w] # "down" /\ Fault("crash")
  /\ Forget(w)
  /\ LET H == {h \in Deliveries : at[h] = w} IN Vanish(H) /\ Unsignal(H)
  /\ UNCHANGED <<rowVars, mstate, attempt, op>>

Restart(w) ==
  /\ up[w] = "down"
  /\ up' = [up EXCEPT ![w] = "up"]
  /\ UNCHANGED <<rowVars, brokerVars, lost, stopping, task, handover, deliveryVars, faults>>

-----------------------------------------------------------------------------
Api(m) ==
  \/ SendHalf(m) \/ LocalTransaction(m) \/ Report(m) \/ ReportLost(m)
  \/ BrokerCheck(m) \/ RecoverRun(m) \/ Redispatch(m) \/ RedispatchFails(m)

Accept(h) ==
  \/ Inspect(h) \/ InspectFails(h) \/ AcceptCancelled(h) \/ AcceptExhausted(h)
  \/ AcceptLapsed(h) \/ Acquire(h) \/ AcquireUnseen(h) \/ AcceptFails(h) \/ AcceptAck(h)
  \/ AcceptAckLost(h)

Execute(h) ==
  \/ Started(h) \/ StartCancelled(h) \/ Finish(h) \/ FinishFails(h) \/ FinishUnseen(h)
  \/ Cancelled(h) \/ Settled(h) \/ SettledAlone(h) \/ Closed(h) \/ Unwound(h)
  \/ CloseCancelled(h) \/ Ack(h) \/ AckLost(h)

Process(w) ==
  \/ BeginShutdown(w) \/ Teardown(w) \/ Stop(w) \/ Crash(w) \/ Restart(w)

Next ==
  \/ \E m \in Msgs : Api(m) \/ Expire(m)
  \/ \E r \in Runs : UserCancel(r)
  \/ \E h \in Deliveries, w \in Workers, m \in Msgs : Pull(h, w, m)
  \/ \E h \in Deliveries : Accept(h) \/ Execute(h) \/ LeaseCheck(h) \/ LeaseGiveUp(h)
  \/ \E w \in Workers : Process(w)
  \/ \E w \in Workers, r \in Runs : CancelIfConfirmed(w, r) \/ ReleaseRun(w, r)

Spec == Init /\ [][Next]_vars
-----------------------------------------------------------------------------
(* WHAT HOLDS WHATEVER THE ENVIRONMENT DOES.                               *)

Holds(h) == pc[h] \in TaskPcs /\ token[h] = fence[run(h)]

(* Fencing (RunStore.acquire increments fence_token): however often a      *)
(* message is redelivered and the row adopted, at most one task carries    *)
(* the row's current token, and while the row is running it is that task   *)
(* that the owner column names.                                            *)
UniqueHolder ==
  /\ \A h, g \in Deliveries : Holds(h) /\ Holds(g) /\ run(h) = run(g) => h = g
  /\ \A h \in Deliveries :
       Holds(h) /\ status[run(h)] = "running" => owner[run(h)] = at[h]

(* A task whose token is no longer the row's never changes the row by its  *)
(* own steps, whatever it still does (write an outcome, handle a cancel,   *)
(* unwind, acknowledge).                                                   *)
ZombieIsHarmless ==
  [][\A h \in Deliveries, r \in Runs :
       pc[h] \in TaskPcs /\ run(h) = r /\ ~Holds(h) /\ pc'[h] # pc[h]
         => UNCHANGED <<status[r], owner[r], reason[r], fence[r]>>]_vars

-----------------------------------------------------------------------------
(* WHAT HOLDS WITH ONE DISPATCH WHILE ONLY ABANDONED DELIVERIES LAPSE.     *)

(* A task that holds the row, keeps renewing and was not told to stop.     *)
Renewing(h) == Holds(h) /\ watch[h] /\ ~sig[h] /\ pc[h] \in {"starting", "executing"}

(* No orphan: a row that waits to be executed, or is being executed, has a *)
(* message that will still be delivered ("the message is the only signpost *)
(* of this row", RunConsumer._exhaust), across crashes, shutdowns, lost    *)
(* acknowledgements, failed transactions and lost commit reports.          *)
NoOrphan ==
  \A r \in Runs : status[r] \in {"queued", "interrupted", "running"} =>
    \E m \in Msgs : /\ m[1] = r
                    /\ mstate[m] \in {"half", "ready", "leased"} \/ op[m] = "reopened"

(* Adoption only takes a row over from a holder that has stopped renewing  *)
(* (transition "adopt").                                                   *)
AdoptsOnlyAbandoned ==
  [][\A h \in Deliveries : Renewing(h) /\ status[run(h)] = "running" =>
       fence'[run(h)] = fence[run(h)]]_vars

(* Dead-lettering only ends a run whose holder is gone (transition         *)
(* "settle_exhausted").                                                    *)
ExhaustSparesHolder ==
  [][\A h \in Deliveries : Renewing(h) =>
       reason'[run(h)] # Exhausted \/ reason[run(h)] = Exhausted]_vars

(* What RunPromise sees of the row.                                        *)
Phase(r) ==
  CASE status[r] = "absent"         -> "none"
    [] status[r] = "awaiting_input" -> "waiting"
    [] status[r] \in {"queued", "running", "interrupted"} -> "working"
    [] status[r] = "failed" /\ reason[r] = Exhausted      -> "deadletter"
    [] OTHER -> status[r]

Promise == INSTANCE RunPromise WITH phase <- [r \in Runs |-> Phase(r)], wanted <- cancelReq

(* The workers, the broker and their failures implement what the service   *)
(* promises the user about a run (RunPromise), as long as no worker is     *)
(* shut down while it executes.                                            *)
KeepsPromise == Promise!Spec

-----------------------------------------------------------------------------
(* LIVENESS.  Every coroutine that is not waiting for the environment is   *)
(* scheduled, the graph ends, the broker delivers, checks and lets         *)
(* abandoned copies lapse; users, shutdowns and failures owe nothing.      *)
Fairness ==
  /\ \A m \in Msgs :
       /\ WF_vars(LocalTransaction(m)) /\ WF_vars(Report(m)) /\ WF_vars(Redispatch(m))
       /\ WF_vars(BrokerCheck(m)) /\ WF_vars(latest[m] = NoDelivery /\ Expire(m))
       /\ WF_vars(\E h \in Deliveries, w \in Workers : Pull(h, w, m))
  /\ \A h \in Deliveries :
       /\ WF_vars(Inspect(h) \/ AcceptCancelled(h) \/ AcceptExhausted(h) \/ AcceptLapsed(h)
                  \/ Acquire(h) \/ AcceptAck(h))
       /\ WF_vars(Started(h) \/ StartCancelled(h) \/ Finish(h) \/ Cancelled(h) \/ Settled(h)
                  \/ SettledAlone(h) \/ Closed(h) \/ Unwound(h) \/ CloseCancelled(h) \/ Ack(h))
       /\ WF_vars(NoFault /\ AckLost(h))
  /\ \A w \in Workers :
       /\ WF_vars(Teardown(w)) /\ WF_vars(Stop(w)) /\ WF_vars(Restart(w))
       /\ \A r \in Runs : WF_vars(ReleaseRun(w, r))

FairSpec == Spec /\ Fairness

(* A run that was accepted reaches an outcome or a question to the user,   *)
(* whatever crashes, shutdowns and failed calls happen on the way.         *)
Progress ==
  \A r \in Runs : status[r] \in {"queued", "interrupted", "running"}
                  ~> status[r] \in Terminal \cup {"awaiting_input"}
=============================================================================
