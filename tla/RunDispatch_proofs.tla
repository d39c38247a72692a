------------------------- MODULE RunDispatch_proofs -------------------------
(***************************************************************************)
(* Theorems about RunRow, and about RunDispatch for any number of runs,    *)
(* workers, deliveries and messages, any attempt limit and any set of      *)
(* failures.  First what any sequence of the conditional writes of the row *)
(* preserves; then that every step of RunDispatch changes the rows by one  *)
(* such write at most, and so inherits it; then why at most one task holds *)
(* a run; then, under the failures named by OnlyUserCancels, that the      *)
(* whole implements RunPromise; last, under those of OnlyAbandonedLapse,   *)
(* that a run never loses its message nor a holder that renews its row.    *)
(***************************************************************************)
EXTENDS RunDispatch, TLAPS

-----------------------------------------------------------------------------
(* THE ROW, whoever writes it                                              *)

LEMMA RowInitOK == RowInit => RowTypeOK /\ RowShape
BY NobodyIsNoWorker DEF RowInit, RowTypeOK, RowShape, Reasons

(* Every write keeps the columns in their types.                           *)
LEMMA RowTypeStep ==
  ASSUME RowTypeOK, NEW r \in Runs, RowWrite(r) PROVE RowTypeOK'
<1> USE DEF RowTypeOK, Terminal, Outstanding, Reasons, Exhausted
<1>1. CASE Insert(r)
  BY <1>1 DEF Insert
<1>2. CASE Answer(r)
  BY <1>2 DEF Answer
<1>3. CASE Reopen(r)
  BY <1>3 DEF Reopen
<1>4. CASE RequestCancel(r)
  BY <1>4 DEF RequestCancel
<1>5. CASE SettleCancelled(r) \/ SettleExhausted(r)
  BY <1>5 DEF SettleCancelled, SettleExhausted, WriteTerminal
<1>6. ASSUME NEW w \in Workers, Claim(r, w) PROVE RowTypeOK'
  BY <1>6 DEF Claim
<1>7. ASSUME NEW w \in Workers, NEW f \in Nat, PersistAwaiting(r, w, f) \/ ReleaseRow(r, w, f)
      PROVE RowTypeOK'
  BY <1>7 DEF PersistAwaiting, ReleaseRow
<1>8. ASSUME NEW w \in Workers, NEW f \in Nat, NEW s \in Terminal,
             NEW why \in {"engine", "user_cancelled"}, Persist(r, w, f, s, why)
      PROVE RowTypeOK'
  BY <1>8 DEF Persist, WriteTerminal
<1> QED BY <1>1, <1>2, <1>3, <1>4, <1>5, <1>6, <1>7, <1>8 DEF RowWrite

(* Every write keeps owner and pending answer consistent with the status.  *)
LEMMA RowShapeStep ==
  ASSUME RowTypeOK, RowShape, NEW r \in Runs, RowWrite(r) PROVE RowShape'
<1> USE NobodyIsNoWorker DEF RowTypeOK, RowShape, Terminal, Exhausted
<1>1. CASE Insert(r)
  BY <1>1 DEF Insert
<1>2. CASE Answer(r)
  BY <1>2 DEF Answer, Answerable
<1>3. CASE Reopen(r)
  BY <1>3 DEF Reopen, Reopenable
<1>4. CASE RequestCancel(r)
  BY <1>4 DEF RequestCancel, CancelPending, Outstanding
<1>5. CASE SettleCancelled(r) \/ SettleExhausted(r)
  BY <1>5 DEF SettleCancelled, SettleExhausted, WriteTerminal
<1>6. ASSUME NEW w \in Workers, Claim(r, w) PROVE RowShape'
  BY <1>6 DEF Claim
<1>7. ASSUME NEW w \in Workers, NEW f \in Nat, PersistAwaiting(r, w, f) \/ ReleaseRow(r, w, f)
      PROVE RowShape'
  BY <1>7 DEF PersistAwaiting, ReleaseRow, Owned
<1>8. ASSUME NEW w \in Workers, NEW f \in Nat, NEW s \in Terminal,
             NEW why \in {"engine", "user_cancelled"}, Persist(r, w, f, s, why)
      PROVE RowShape'
  BY <1>8 DEF Persist, WriteTerminal
<1> QED BY <1>1, <1>2, <1>3, <1>4, <1>5, <1>6, <1>7, <1>8 DEF RowWrite

(* Every write finds the row unsettled, except the one that reopens it.    *)
LEMMA TerminalWrite ==
  ASSUME RowTypeOK, NEW r \in Runs, RowWrite(r) PROVE TerminalStep
<1> USE DEF RowTypeOK, TerminalStep, Terminal, Exhausted
<1>1. CASE Insert(r)
  BY <1>1 DEF Insert
<1>2. CASE Answer(r)
  BY <1>2 DEF Answer, Answerable
<1>3. CASE Reopen(r)
  BY <1>3 DEF Reopen
<1>4. CASE RequestCancel(r)
  BY <1>4 DEF RequestCancel, Outstanding
<1>5. CASE SettleCancelled(r) \/ SettleExhausted(r)
  BY <1>5 DEF SettleCancelled, SettleExhausted, WriteTerminal, CancelSettles, ExhaustHits,
              CancelPending, CancelRunning, Exhaustible
<1>6. ASSUME NEW w \in Workers, Claim(r, w) PROVE TerminalStep
  BY <1>6 DEF Claim, Claimable, Startable, Takeover
<1>7. ASSUME NEW w \in Workers, NEW f \in Nat, PersistAwaiting(r, w, f) \/ ReleaseRow(r, w, f)
      PROVE TerminalStep
  BY <1>7 DEF PersistAwaiting, ReleaseRow, Owned
<1>8. ASSUME NEW w \in Workers, NEW f \in Nat, NEW s \in Terminal,
             NEW why \in {"engine", "user_cancelled"}, Persist(r, w, f, s, why)
      PROVE TerminalStep
  BY <1>8 DEF Persist, WriteTerminal, Owned
<1> QED BY <1>1, <1>2, <1>3, <1>4, <1>5, <1>6, <1>7, <1>8 DEF RowWrite

(* Fence tokens never shrink, and a row that is running after a write      *)
(* either was running under the same owner and token or has a new token.   *)
FenceStep ==
  \A r \in Runs :
    /\ fence'[r] \in Nat /\ fence[r] <= fence'[r]
    /\ status'[r] = "running" /\ fence'[r] = fence[r] =>
         status[r] = "running" /\ owner'[r] = owner[r]

LEMMA FenceWrite ==
  ASSUME RowTypeOK, NEW r \in Runs, RowWrite(r) PROVE FenceStep
<1> USE DEF RowTypeOK, FenceStep, Terminal
<1>1. CASE Insert(r)
  BY <1>1 DEF Insert
<1>2. CASE Answer(r)
  BY <1>2 DEF Answer
<1>3. CASE Reopen(r)
  BY <1>3 DEF Reopen
<1>4. CASE RequestCancel(r)
  BY <1>4 DEF RequestCancel
<1>5. CASE SettleCancelled(r) \/ SettleExhausted(r)
  BY <1>5 DEF SettleCancelled, SettleExhausted, WriteTerminal
<1>6. ASSUME NEW w \in Workers, Claim(r, w) PROVE FenceStep
  BY <1>6 DEF Claim
<1>7. ASSUME NEW w \in Workers, NEW f \in Nat, PersistAwaiting(r, w, f) \/ ReleaseRow(r, w, f)
      PROVE FenceStep
  BY <1>7 DEF PersistAwaiting, ReleaseRow
<1>8. ASSUME NEW w \in Workers, NEW f \in Nat, NEW s \in Terminal,
             NEW why \in {"engine", "user_cancelled"}, Persist(r, w, f, s, why)
      PROVE FenceStep
  BY <1>8 DEF Persist, WriteTerminal
<1> QED BY <1>1, <1>2, <1>3, <1>4, <1>5, <1>6, <1>7, <1>8 DEF RowWrite

(* The columns of the row keep their types and stay consistent with each   *)
(* other under any sequence of the conditional writes.                     *)
THEOREM RowConsistent == RowSpec => [](RowTypeOK /\ RowShape)
<1>1. ASSUME RowTypeOK /\ RowShape, [\E r \in Runs : RowWrite(r)]_rowVars
      PROVE  RowTypeOK' /\ RowShape'
  <2>1. CASE UNCHANGED rowVars
    BY <1>1, <2>1 DEF rowVars, RowTypeOK, RowShape
  <2>2. CASE \E r \in Runs : RowWrite(r)
    BY <1>1, <2>2, RowTypeStep, RowShapeStep
  <2> QED BY <1>1, <2>1, <2>2
<1> QED BY <1>1, RowInitOK, PTL DEF RowSpec

(* No sequence of the conditional writes changes a terminal row, except    *)
(* the reopening of a dead-lettered one.                                   *)
THEOREM RowTerminalIsFinal == RowSpec => TerminalIsFinal
<1>1. RowTypeOK /\ [\E r \in Runs : RowWrite(r)]_rowVars => [TerminalStep]_rowVars
  BY TerminalWrite
<1> QED BY <1>1, RowConsistent, PTL DEF RowSpec, TerminalIsFinal

-----------------------------------------------------------------------------
(* A delivery that exists is held by a worker and is of some message.      *)
Located ==
  \A h \in Deliveries : pc[h] # "free" => at[h] \in Workers /\ msg[h] \in Msgs

-----------------------------------------------------------------------------
(* Every step of RunDispatch changes the rows by at most one write of      *)
(* RunRow: the detailed specification implements RowSpec.                  *)
LEMMA MsgRun == ASSUME NEW m \in Msgs PROVE m[1] \in Runs
BY DEF Msgs

LEMMA DeliveryRun ==
  ASSUME Located, NEW h \in Deliveries, pc[h] # "free"
  PROVE  run(h) \in Runs /\ at[h] \in Workers
BY DEF Located, run, Msgs

LEMMA ApiRows ==
  ASSUME NEW m \in Msgs, Api(m) PROVE UNCHANGED rowVars \/ \E r \in Runs : RowWrite(r)
<1> m[1] \in Runs
  BY MsgRun
<1>1. CASE LocalTransaction(m)
  BY <1>1 DEF LocalTransaction, RowWrite
<1>2. CASE RecoverRun(m)
  BY <1>2 DEF RecoverRun, RowWrite
<1>3. CASE SendHalf(m) \/ Report(m) \/ ReportLost(m) \/ BrokerCheck(m) \/ Redispatch(m)
           \/ RedispatchFails(m)
  BY <1>3 DEF SendHalf, Report, ReportLost, BrokerCheck, Redispatch, RedispatchFails
<1> QED BY <1>1, <1>2, <1>3 DEF Api

LEMMA AcceptRows ==
  ASSUME Located, NEW h \in Deliveries, Accept(h)
  PROVE  UNCHANGED rowVars \/ \E r \in Runs : RowWrite(r)
<1>1. pc[h] # "free"
  BY DEF Accept, Inspect, InspectFails, MayAccept, AcceptCancelled, AcceptExhausted,
         AcceptLapsed, Acquire, AcquireUnseen, AcceptFails, AcceptAck, AcceptAckLost, AcceptPcs
<1>2. run(h) \in Runs /\ at[h] \in Workers
  BY <1>1, DeliveryRun
<1>3. CASE AcceptCancelled(h) \/ AcceptExhausted(h) \/ AcceptLapsed(h)
  BY <1>2, <1>3 DEF AcceptCancelled, AcceptExhausted, AcceptLapsed, RowWrite
<1>4. CASE Acquire(h) \/ AcquireUnseen(h)
  BY <1>2, <1>4 DEF Acquire, AcquireUnseen, RowWrite
<1>5. CASE Inspect(h) \/ InspectFails(h) \/ AcceptFails(h) \/ AcceptAck(h) \/ AcceptAckLost(h)
  BY <1>5 DEF Inspect, InspectFails, AcceptFails, AcceptAck, AcceptAckLost
<1> QED BY <1>3, <1>4, <1>5 DEF Accept

LEMMA ExecuteRows ==
  ASSUME DeliveryTypeOK, Located, NEW h \in Deliveries, Execute(h)
  PROVE  UNCHANGED rowVars \/ \E r \in Runs : RowWrite(r)
<1>1. pc[h] # "free"
  BY DEF Execute, Started, StartCancelled, Finish, FinishFails, FinishUnseen, Cancelled,
         Settled, SettledAlone, Closed, Unwound, CloseCancelled, Ack, AckLost
<1>2. run(h) \in Runs /\ at[h] \in Workers
  BY <1>1, DeliveryRun
<1>3. token[h] \in Nat
  BY DEF DeliveryTypeOK
<1>4. ASSUME WriteOutcome(h) PROVE RowWrite(run(h))
  BY <1>2, <1>3, <1>4 DEF WriteOutcome, RowWrite, Terminal
<1>5. CASE Finish(h) \/ FinishUnseen(h)
  BY <1>2, <1>4, <1>5 DEF Finish, FinishUnseen
<1>6. CASE Settled(h) \/ SettledAlone(h)
  BY <1>2, <1>3, <1>6 DEF Settled, SettledAlone, SettleOwn, RowWrite, Terminal
<1>7. CASE \/ Started(h) \/ StartCancelled(h) \/ FinishFails(h) \/ Cancelled(h) \/ Closed(h)
           \/ Unwound(h) \/ CloseCancelled(h) \/ Ack(h) \/ AckLost(h)
  BY <1>7 DEF Started, StartCancelled, FinishFails, Cancelled, Closed, Unwound, CloseCancelled,
              Ack, AckLost
<1> QED BY <1>5, <1>6, <1>7 DEF Execute

LEMMA ReleaseRows ==
  ASSUME WorkerTypeOK, NEW w \in Workers, NEW r \in Runs, ReleaseRun(w, r)
  PROVE  UNCHANGED rowVars \/ RowWrite(r)
<1>1. handover[w][r] \in Nat
  BY DEF WorkerTypeOK
<1> QED BY <1>1 DEF ReleaseRun, RowWrite

LEMMA RowStep ==
  ASSUME TypeOK, Located, [Next]_vars
  PROVE  [\E r \in Runs : RowWrite(r)]_rowVars
<1>1. ASSUME NEW m \in Msgs, Api(m) \/ Expire(m)
      PROVE  UNCHANGED rowVars \/ \E r \in Runs : RowWrite(r)
  BY <1>1, ApiRows DEF Expire
<1>2. ASSUME NEW r \in Runs, UserCancel(r) PROVE RowWrite(r)
  BY <1>2 DEF UserCancel, RowWrite
<1>3. ASSUME NEW h \in Deliveries, NEW w \in Workers, NEW m \in Msgs, Pull(h, w, m)
      PROVE  UNCHANGED rowVars
  BY <1>3 DEF Pull
<1>4. ASSUME NEW h \in Deliveries, Accept(h) \/ Execute(h) \/ LeaseCheck(h) \/ LeaseGiveUp(h)
      PROVE  UNCHANGED rowVars \/ \E r \in Runs : RowWrite(r)
  BY <1>4, AcceptRows, ExecuteRows DEF LeaseCheck, LeaseGiveUp, TypeOK
<1>5. ASSUME NEW w \in Workers, Process(w) PROVE UNCHANGED rowVars
  BY <1>5 DEF Process, BeginShutdown, Teardown, Stop, Crash, Restart
<1>6. ASSUME NEW w \in Workers, NEW r \in Runs, CancelIfConfirmed(w, r) \/ ReleaseRun(w, r)
      PROVE  UNCHANGED rowVars \/ RowWrite(r)
  BY <1>6, ReleaseRows DEF CancelIfConfirmed, TypeOK
<1>7. CASE UNCHANGED vars
  BY <1>7 DEF vars, rowVars
<1> QED BY <1>1, <1>2, <1>3, <1>4, <1>5, <1>6, <1>7 DEF Next

-----------------------------------------------------------------------------
(* Types.                                                                  *)
LEMMA InitTypes == Init => TypeOK /\ Located
<1> SUFFICES ASSUME Init PROVE TypeOK /\ Located
  OBVIOUS
<1>1. RowTypeOK
  BY RowInitOK DEF Init
<1>2. BrokerTypeOK /\ WorkerTypeOK
  BY BoundsAssumption DEF Init, BrokerTypeOK, WorkerTypeOK
<1>3. DeliveryTypeOK /\ Located /\ faults \in Nat
  BY BoundsAssumption DEF Init, DeliveryTypeOK, Located, AcceptPcs, TaskPcs
<1> QED BY <1>1, <1>2, <1>3 DEF TypeOK

(* The deliveries that vanish are free, the others are as they were.       *)
LEMMA VanishTypes ==
  ASSUME BrokerTypeOK, DeliveryTypeOK, Located, NEW H, Vanish(H),
         sig' \in [Deliveries -> BOOLEAN]
  PROVE  DeliveryTypeOK' /\ Located' /\ latest' \in [Msgs -> Deliveries \cup {NoDelivery}]
<1>1. DeliveryTypeOK'
  <2>1. /\ pc' \in [Deliveries -> {"free", "prefetched"} \cup AcceptPcs \cup TaskPcs]
        /\ at' \in [Deliveries -> Workers \cup {Nobody}]
        /\ msg' \in [Deliveries -> Msgs \cup {NoMsg}]
    BY DEF Vanish, DeliveryTypeOK
  <2>2. att' \in [Deliveries -> 0..MaxAttempts] /\ token' \in [Deliveries -> Nat]
    BY BoundsAssumption DEF Vanish, DeliveryTypeOK
  <2>3. watch' \in [Deliveries -> BOOLEAN]
    BY Zenon DEF Vanish, DeliveryTypeOK
  <2> QED BY <2>1, <2>2, <2>3 DEF DeliveryTypeOK
<1>2. Located'
  BY DEF Vanish, DeliveryTypeOK, Located
<1>3. latest' \in [Msgs -> Deliveries \cup {NoDelivery}]
  BY DEF Vanish, BrokerTypeOK
<1> QED BY <1>1, <1>2, <1>3

LEMMA DropTypes ==
  ASSUME BrokerTypeOK, DeliveryTypeOK, Located, NEW h \in Deliveries, Drop(h) \/ Acknowledge(h)
  PROVE  BrokerTypeOK' /\ DeliveryTypeOK' /\ Located'
<1>1. Vanish({h}) /\ Unsignal({h}) /\ UNCHANGED <<attempt, op>>
  BY DEF Drop, Acknowledge
<1>2. sig' \in [Deliveries -> BOOLEAN]
  BY <1>1 DEF Unsignal, DeliveryTypeOK
<1>3. mstate' \in [Msgs -> {"none", "half", "ready", "leased", "acked", "void"}]
  BY DEF Drop, Acknowledge, BrokerTypeOK
<1> QED BY <1>1, <1>2, <1>3, VanishTypes DEF BrokerTypeOK

LEMMA GotoTypes ==
  ASSUME DeliveryTypeOK, Located, NEW h \in Deliveries, pc[h] # "free",
         NEW p \in AcceptPcs \cup TaskPcs, Goto(h, p)
  PROVE  DeliveryTypeOK' /\ Located'
BY DEF Goto, DeliveryTypeOK, Located, AcceptPcs, TaskPcs

LEMMA ApiTypes ==
  ASSUME TypeOK, Located, NEW m \in Msgs, Api(m) \/ Expire(m)
  PROVE  BrokerTypeOK' /\ WorkerTypeOK' /\ DeliveryTypeOK' /\ Located' /\ faults' \in Nat
<1>1. BrokerTypeOK'
  BY DEF TypeOK, BrokerTypeOK, Api, SendHalf, LocalTransaction, Report, ReportLost, BrokerCheck,
         RecoverRun, Redispatch, RedispatchFails, Expire
<1>2. UNCHANGED <<workerVars, deliveryVars>>
  BY DEF Api, SendHalf, LocalTransaction, Report, ReportLost, BrokerCheck,
         RecoverRun, Redispatch, RedispatchFails, Expire
<1>3. WorkerTypeOK' /\ DeliveryTypeOK' /\ Located'
  BY <1>2 DEF TypeOK, workerVars, deliveryVars, WorkerTypeOK, DeliveryTypeOK, Located
<1>4. faults' \in Nat
  BY DEF TypeOK, Api, SendHalf, LocalTransaction, Report, ReportLost, BrokerCheck,
         RecoverRun, Redispatch, RedispatchFails, Expire, Fault, NoFault
<1> QED BY <1>1, <1>3, <1>4

LEMMA PullTypes ==
  ASSUME TypeOK, Located, NEW h \in Deliveries, NEW w \in Workers, NEW m \in Msgs, Pull(h, w, m)
  PROVE  BrokerTypeOK' /\ WorkerTypeOK' /\ DeliveryTypeOK' /\ Located' /\ faults' \in Nat
<1>1. attempt' \in [Msgs -> 0..MaxAttempts] /\ attempt'[m] \in 0..MaxAttempts
  BY BoundsAssumption DEF Pull, TypeOK, BrokerTypeOK
<1>2. BrokerTypeOK'
  BY <1>1 DEF Pull, TypeOK, BrokerTypeOK
<1>3. DeliveryTypeOK' /\ Located'
  BY <1>1 DEF Pull, TypeOK, DeliveryTypeOK, Located
<1>4. WorkerTypeOK' /\ faults' \in Nat
  BY DEF Pull, TypeOK, workerVars, WorkerTypeOK
<1> QED BY <1>2, <1>3, <1>4

LEMMA AcceptTypes ==
  ASSUME TypeOK, Located, NEW h \in Deliveries, Accept(h)
  PROVE  BrokerTypeOK' /\ WorkerTypeOK' /\ DeliveryTypeOK' /\ Located' /\ faults' \in Nat
<1> USE DEF TypeOK
<1>1. pc[h] # "free" /\ at[h] \in Workers /\ run(h) \in Runs
  <2>1. pc[h] # "free"
    BY DEF Accept, Inspect, InspectFails, MayAccept, AcceptCancelled, AcceptExhausted,
           AcceptLapsed, Acquire, AcquireUnseen, AcceptFails, AcceptAck, AcceptAckLost, AcceptPcs
  <2> QED BY <2>1, DeliveryRun
<1>2. faults' \in Nat
  BY DEF Accept, Inspect, InspectFails, AcceptCancelled, AcceptExhausted, AcceptLapsed, Acquire,
         AcquireUnseen, AcceptFails, AcceptAck, AcceptAckLost, Fault, NoFault
<1>3. CASE Inspect(h)
  <2>1. Verdict(h) \in AcceptPcs
    BY DEF Verdict, AcceptPcs
  <2> QED BY <1>1, <1>2, <1>3, <2>1, GotoTypes
          DEF Inspect, workerVars, brokerVars, WorkerTypeOK, BrokerTypeOK
<1>4. CASE AcceptCancelled(h) \/ AcceptExhausted(h) \/ AcceptLapsed(h)
  <2>1. WorkerTypeOK'
    BY <1>4 DEF AcceptCancelled, AcceptExhausted, AcceptLapsed, workerVars, WorkerTypeOK
  <2>2. \/ \E p \in AcceptPcs : Goto(h, p) /\ UNCHANGED brokerVars
        \/ Drop(h)
    BY <1>4 DEF AcceptCancelled, AcceptExhausted, AcceptLapsed, AcceptPcs
  <2>3. CASE Drop(h)
    BY <1>2, <2>1, <2>3, DropTypes
  <2>4. CASE \E p \in AcceptPcs : Goto(h, p) /\ UNCHANGED brokerVars
    <3>1. BrokerTypeOK'
      BY <2>4 DEF brokerVars, BrokerTypeOK
    <3> QED BY <1>1, <1>2, <2>1, <2>4, <3>1, GotoTypes
  <2> QED BY <2>2, <2>3, <2>4
<1>5. CASE InspectFails(h) \/ AcceptFails(h) \/ AcceptAck(h) \/ AcceptAckLost(h) \/ AcquireUnseen(h)
  <2>1. WorkerTypeOK'
    BY <1>5 DEF InspectFails, AcceptFails, AcceptAck, AcceptAckLost, AcquireUnseen, workerVars,
                WorkerTypeOK
  <2>2. Drop(h) \/ Acknowledge(h)
    BY <1>5 DEF InspectFails, AcceptFails, AcceptAck, AcceptAckLost, AcquireUnseen
  <2> QED BY <1>2, <2>1, <2>2, DropTypes
<1>6. CASE Acquire(h)
  <2>1. CASE Drop(h) /\ UNCHANGED workerVars
    BY <1>2, <2>1, DropTypes DEF workerVars, WorkerTypeOK
  <2>2. CASE /\ Claim(run(h), at[h])
             /\ pc' = [pc EXCEPT ![h] = IF ResumesOnClaim(run(h)) THEN "starting" ELSE "executing"]
             /\ token' = [token EXCEPT ![h] = fence'[run(h)]]
             /\ watch' = [watch EXCEPT ![h] = TRUE]
             /\ task' = [task EXCEPT ![at[h]][run(h)] = h]
             /\ UNCHANGED <<brokerVars, at, msg, att, sig, up, lost, stopping, handover>>
    <3>1. fence'[run(h)] \in Nat
      BY <1>1, <2>2 DEF Claim, RowTypeOK
    <3>2. BrokerTypeOK'
      BY <2>2 DEF brokerVars, BrokerTypeOK
    <3>3. WorkerTypeOK'
      BY <1>1, <2>2 DEF WorkerTypeOK
    <3>4. DeliveryTypeOK' /\ Located'
      BY <1>1, <2>2, <3>1 DEF DeliveryTypeOK, Located, TaskPcs
    <3> QED BY <1>2, <3>2, <3>3, <3>4
  <2> QED BY <1>6, <2>1, <2>2 DEF Acquire
<1> QED BY <1>3, <1>4, <1>5, <1>6 DEF Accept

LEMMA FlagTypes ==
  ASSUME WorkerTypeOK, NEW h \in Deliveries, run(h) \in Runs, MarkLost(h) \/ Unflag(h)
  PROVE  lost' \in [Workers -> SUBSET Runs]
BY DEF WorkerTypeOK, MarkLost, Unflag

LEMMA TaskDoneTypes ==
  ASSUME WorkerTypeOK, NEW h \in Deliveries, at[h] \in Workers, run(h) \in Runs, TaskDone(h)
  PROVE  task' \in [Workers -> [Runs -> Deliveries \cup {NoDelivery}]]
<1> DEFINE t == [task[at[h]] EXCEPT ![run(h)] = NoDelivery]
<1>1. t \in [Runs -> Deliveries \cup {NoDelivery}]
  BY DEF WorkerTypeOK
<1>2. task' = [task EXCEPT ![at[h]] = t]
  BY DEF TaskDone
<1> HIDE DEF t
<1> QED BY <1>1, <1>2 DEF WorkerTypeOK

LEMMA ForgetTypes == ASSUME WorkerTypeOK, NEW w \in Workers, Forget(w) PROVE WorkerTypeOK'
<1>1. /\ [r \in Runs |-> NoDelivery] \in [Runs -> Deliveries \cup {NoDelivery}]
      /\ [r \in Runs |-> 0] \in [Runs -> Nat]
  OBVIOUS
<1> DEFINE t == [r \in Runs |-> NoDelivery]
           z == [r \in Runs |-> 0]
<1>2. task' = [task EXCEPT ![w] = t] /\ handover' = [handover EXCEPT ![w] = z]
  BY DEF Forget
<1> HIDE DEF t, z
<1>3. /\ task' \in [Workers -> [Runs -> Deliveries \cup {NoDelivery}]]
      /\ handover' \in [Workers -> [Runs -> Nat]]
  BY <1>1, <1>2 DEF t, z, WorkerTypeOK
<1>4. /\ up' \in [Workers -> {"up", "closing", "teardown", "down"}]
      /\ lost' \in [Workers -> SUBSET Runs] /\ stopping' \in [Workers -> SUBSET Runs]
  BY DEF Forget, WorkerTypeOK
<1> QED BY <1>3, <1>4 DEF WorkerTypeOK

LEMMA ExecuteTypes ==
  ASSUME TypeOK, Located, NEW h \in Deliveries, Execute(h)
  PROVE  BrokerTypeOK' /\ WorkerTypeOK' /\ DeliveryTypeOK' /\ Located' /\ faults' \in Nat
<1> USE DEF TypeOK
<1>1. pc[h] # "free" /\ at[h] \in Workers /\ run(h) \in Runs
  <2>1. pc[h] # "free"
    BY DEF Execute, Started, StartCancelled, Finish, FinishFails, FinishUnseen, Cancelled,
           Settled, SettledAlone, Closed, Unwound, CloseCancelled, Ack, AckLost
  <2> QED BY <2>1, DeliveryRun
<1>2. faults' \in Nat
  BY DEF Execute, Started, StartCancelled, Finish, FinishFails, FinishUnseen, Cancelled,
         Settled, SettledAlone, Closed, Unwound, CloseCancelled, Ack, AckLost, Fault, NoFault
<1>3. CASE Started(h)
  BY <1>1, <1>2, <1>3, GotoTypes
     DEF Started, workerVars, brokerVars, WorkerTypeOK, BrokerTypeOK, TaskPcs
<1>4. CASE StartCancelled(h) \/ CloseCancelled(h) \/ Ack(h) \/ AckLost(h)
  <2>1. Drop(h) \/ Acknowledge(h)
    BY <1>4 DEF StartCancelled, CloseCancelled, Ack, AckLost
  <2>2. WorkerTypeOK'
    BY <1>1, <1>4, TaskDoneTypes
       DEF StartCancelled, CloseCancelled, Ack, AckLost, TaskEnds, WorkerTypeOK
  <2> QED BY <1>2, <2>1, <2>2, DropTypes
<1>5. CASE Finish(h) \/ Settled(h)
  <2>1. lost' \in [Workers -> SUBSET Runs]
    BY <1>1, <1>5, FlagTypes DEF Finish, Settled, WorkerTypeOK
  <2>2. WorkerTypeOK' /\ BrokerTypeOK'
    BY <1>5, <2>1 DEF Finish, Settled, WorkerTypeOK, brokerVars, BrokerTypeOK
  <2> QED BY <1>1, <1>2, <1>5, <2>2, GotoTypes DEF Finish, Settled, TaskPcs
<1>6. CASE FinishFails(h) \/ FinishUnseen(h)
  <2>1. WorkerTypeOK' /\ BrokerTypeOK'
    BY <1>6 DEF FinishFails, FinishUnseen, WorkerTypeOK, BrokerTypeOK, workerVars, brokerVars
  <2>2. DeliveryTypeOK' /\ Located'
    BY <1>1, <1>6, GotoTypes
       DEF FinishFails, FinishUnseen, deliveryVars, DeliveryTypeOK, Located, TaskPcs
  <2> QED BY <1>2, <2>1, <2>2
<1>7. CASE Cancelled(h) \/ SettledAlone(h)
  <2>1. WorkerTypeOK' /\ BrokerTypeOK'
    BY <1>7 DEF Cancelled, SettledAlone, workerVars, WorkerTypeOK, brokerVars, BrokerTypeOK
  <2>2. pc' \in [Deliveries -> {"free", "prefetched"} \cup AcceptPcs \cup TaskPcs]
    BY <1>7 DEF Cancelled, SettledAlone, DeliveryTypeOK, TaskPcs
  <2>3. DeliveryTypeOK'
    BY <1>7, <2>2 DEF Cancelled, SettledAlone, DeliveryTypeOK, Unsignal
  <2>4. Located'
    BY <1>1, <1>7 DEF Cancelled, SettledAlone, DeliveryTypeOK, Located
  <2> QED BY <1>2, <2>1, <2>3, <2>4
<1>8. CASE Closed(h)
  <2>1. WorkerTypeOK' /\ BrokerTypeOK'
    BY <1>1, <1>8 DEF Closed, Unflag, WorkerTypeOK, BrokerTypeOK, brokerVars
  <2>2. watch' \in [Deliveries -> BOOLEAN]
    BY Zenon, <1>8 DEF Closed, DeliveryTypeOK
  <2>3. DeliveryTypeOK' /\ Located'
    BY <1>8, <2>2 DEF Closed, DeliveryTypeOK, Located, TaskPcs
  <2> QED BY <1>2, <2>1, <2>3
<1>9. CASE Unwound(h)
  <2>1. WorkerTypeOK'
    BY <1>1, <1>9, TaskDoneTypes DEF Unwound, Unflag, WorkerTypeOK
  <2> QED BY <1>2, <1>9, <2>1, DropTypes DEF Unwound
<1> QED BY <1>3, <1>4, <1>5, <1>6, <1>7, <1>8, <1>9 DEF Execute

(* The steps of the lease task, of the notification and of the release     *)
(* leave the control, place, message and token of every delivery alone.    *)
LEMMA SignalTypes ==
  ASSUME DeliveryTypeOK, NEW H, Signal(H) PROVE sig' \in [Deliveries -> BOOLEAN]
BY Zenon DEF Signal, DeliveryTypeOK

LEMMA LeaseTypes ==
  ASSUME TypeOK, Located, NEW h \in Deliveries, LeaseCheck(h) \/ LeaseGiveUp(h)
  PROVE  BrokerTypeOK' /\ WorkerTypeOK' /\ DeliveryTypeOK' /\ Located' /\ faults' \in Nat
<1> USE DEF TypeOK
<1>1. pc[h] # "free" /\ at[h] \in Workers /\ run(h) \in Runs
  <2>1. pc[h] # "free"
    BY DEF LeaseCheck, LeaseGiveUp, LeasePcs, TaskPcs
  <2> QED BY <2>1, DeliveryRun
<1>2. lost' \in [Workers -> SUBSET Runs]
  BY <1>1, FlagTypes DEF LeaseCheck, LeaseGiveUp, WorkerTypeOK
<1>3. sig' \in [Deliveries -> BOOLEAN]
  BY SignalTypes DEF LeaseCheck, LeaseGiveUp
<1>4. BrokerTypeOK' /\ WorkerTypeOK' /\ faults' \in Nat
  BY <1>2 DEF LeaseCheck, LeaseGiveUp, brokerVars, BrokerTypeOK, WorkerTypeOK, Fault
<1>5. watch' \in [Deliveries -> BOOLEAN]
  BY DEF LeaseCheck, LeaseGiveUp, DeliveryTypeOK
<1>6. DeliveryTypeOK' /\ Located'
  BY <1>3, <1>5 DEF LeaseCheck, LeaseGiveUp, DeliveryTypeOK, Located
<1> QED BY <1>4, <1>6

LEMMA ProcessTypes ==
  ASSUME TypeOK, Located, NEW w \in Workers, Process(w)
  PROVE  BrokerTypeOK' /\ WorkerTypeOK' /\ DeliveryTypeOK' /\ Located' /\ faults' \in Nat
<1> USE DEF TypeOK
<1>1. faults' \in Nat
  BY DEF Process, BeginShutdown, Teardown, Stop, Crash, Restart, Fault
<1>2. CASE BeginShutdown(w)
  <2>1. sig' \in [Deliveries -> BOOLEAN]
    BY <1>2, SignalTypes DEF BeginShutdown
  <2>2. PICK H : Vanish(H)
    BY <1>2 DEF BeginShutdown
  <2>3. BrokerTypeOK' /\ DeliveryTypeOK' /\ Located'
    BY <1>2, <2>1, <2>2, VanishTypes DEF BeginShutdown, BrokerTypeOK
  <2>4. [r \in Runs |-> IF task[w][r] = NoDelivery THEN 0 ELSE token[task[w][r]]]
          \in [Runs -> Nat]
    BY DEF WorkerTypeOK, DeliveryTypeOK
  <2>5. WorkerTypeOK'
    BY <1>2, <2>4 DEF BeginShutdown, WorkerTypeOK
  <2> QED BY <1>1, <2>3, <2>5
<1>3. CASE Crash(w)
  <2>1. PICK H : Vanish(H) /\ Unsignal(H)
    BY <1>3 DEF Crash
  <2>2. sig' \in [Deliveries -> BOOLEAN]
    BY Zenon, <2>1 DEF Unsignal, DeliveryTypeOK
  <2>3. BrokerTypeOK' /\ DeliveryTypeOK' /\ Located'
    BY <1>3, <2>1, <2>2, VanishTypes DEF Crash, BrokerTypeOK
  <2>4. WorkerTypeOK'
    BY <1>3, ForgetTypes DEF Crash
  <2> QED BY <1>1, <2>3, <2>4
<1>4. CASE Teardown(w)
  <2>1. sig' \in [Deliveries -> BOOLEAN]
    BY <1>4, SignalTypes DEF Teardown
  <2>2. watch' \in [Deliveries -> BOOLEAN]
    BY Zenon, <1>4 DEF Teardown, DeliveryTypeOK
  <2>3. BrokerTypeOK' /\ WorkerTypeOK'
    BY <1>4 DEF Teardown, brokerVars, BrokerTypeOK, WorkerTypeOK
  <2>4. DeliveryTypeOK' /\ Located'
    BY <1>4, <2>1, <2>2 DEF Teardown, DeliveryTypeOK, Located
  <2> QED BY <1>1, <2>3, <2>4
<1>5. CASE Stop(w) \/ Restart(w)
  <2>1. WorkerTypeOK'
    BY <1>5, ForgetTypes DEF Stop, Restart, WorkerTypeOK
  <2>2. BrokerTypeOK' /\ DeliveryTypeOK' /\ Located'
    BY <1>5 DEF Stop, Restart, brokerVars, deliveryVars, BrokerTypeOK, DeliveryTypeOK, Located
  <2> QED BY <1>1, <2>1, <2>2
<1> QED BY <1>2, <1>3, <1>4, <1>5 DEF Process

LEMMA RunSideTypes ==
  ASSUME TypeOK, Located, NEW w \in Workers, NEW r \in Runs,
         CancelIfConfirmed(w, r) \/ ReleaseRun(w, r)
  PROVE  BrokerTypeOK' /\ WorkerTypeOK' /\ DeliveryTypeOK' /\ Located' /\ faults' \in Nat
<1> USE DEF TypeOK
<1>1. sig' \in [Deliveries -> BOOLEAN]
  BY SignalTypes DEF CancelIfConfirmed, ReleaseRun, deliveryVars, DeliveryTypeOK
<1>2. BrokerTypeOK' /\ faults' \in Nat
  BY DEF CancelIfConfirmed, ReleaseRun, brokerVars, BrokerTypeOK, Fault, NoFault
<1>4. WorkerTypeOK'
  <2>1. CASE ReleaseRun(w, r)
    <3> DEFINE z == [handover[w] EXCEPT ![r] = 0]
    <3>1. z \in [Runs -> Nat] /\ handover' = [handover EXCEPT ![w] = z]
      BY <2>1 DEF ReleaseRun, WorkerTypeOK
    <3> HIDE DEF z
    <3> QED BY <2>1, <3>1 DEF ReleaseRun, WorkerTypeOK
  <2> QED BY <2>1 DEF CancelIfConfirmed, ReleaseRun, workerVars, WorkerTypeOK
<1>3. DeliveryTypeOK' /\ Located'
  BY <1>1 DEF CancelIfConfirmed, ReleaseRun, deliveryVars, DeliveryTypeOK, Located
<1> QED BY <1>2, <1>3, <1>4

LEMMA TypeStep ==
  ASSUME TypeOK, Located, [Next]_vars PROVE TypeOK' /\ Located'
<1>1. RowTypeOK'
  <2>1. [\E r \in Runs : RowWrite(r)]_rowVars
    BY RowStep
  <2>2. CASE UNCHANGED rowVars
    BY <2>2 DEF rowVars, TypeOK, RowTypeOK
  <2> QED BY <2>1, <2>2, RowTypeStep DEF TypeOK
<1> DEFINE Rest == BrokerTypeOK /\ WorkerTypeOK /\ DeliveryTypeOK /\ Located /\ faults \in Nat
<1>2. ASSUME UNCHANGED <<brokerVars, workerVars, deliveryVars, faults>> PROVE Rest'
  BY <1>2 DEF brokerVars, workerVars, deliveryVars, TypeOK, BrokerTypeOK, WorkerTypeOK,
              DeliveryTypeOK, Located
<1>3. CASE UNCHANGED vars
  BY <1>1, <1>2, <1>3 DEF vars, TypeOK
<1>4. CASE Next
  <2>1. ASSUME NEW r \in Runs, UserCancel(r) PROVE Rest'
    BY <1>2, <2>1 DEF UserCancel
  <2>2. Rest'
    BY <1>4, <2>1, ApiTypes, PullTypes, AcceptTypes, ExecuteTypes, LeaseTypes, ProcessTypes,
       RunSideTypes DEF Next
  <2> QED BY <1>1, <2>2 DEF TypeOK
<1> QED BY <1>3, <1>4

(* Every variable stays in its type, and every delivery that exists is at  *)
(* a worker, whatever fails and however often.                             *)
THEOREM TypeCorrect == Spec => [](TypeOK /\ Located)
BY InitTypes, TypeStep, PTL DEF Spec

(* RunDispatch implements RowSpec: the API, the broker and the workers     *)
(* touch a row by the conditional writes of RunRow alone.                  *)
THEOREM ImplementsRow == Spec => RowSpec
<1>1. Init => RowInit
  BY DEF Init
<1>2. TypeOK /\ Located /\ [Next]_vars => [\E r \in Runs : RowWrite(r)]_rowVars
  BY RowStep
<1> QED BY <1>1, <1>2, TypeCorrect, PTL DEF Spec, RowSpec

(* In every state of RunDispatch the owner and the pending answer of a row *)
(* agree with its status: no interleaving of executors, settlements and    *)
(* user calls leaves either of them behind.                                *)
THEOREM RowStaysConsistent == Spec => []RowShape
BY ImplementsRow, RowConsistent, PTL

(* No zombie, stale delivery or late cancellation changes a terminal row   *)
(* of RunDispatch; only recover_run reopens a dead-lettered one.           *)
THEOREM TerminalStaysFinal == Spec => TerminalIsFinal
BY ImplementsRow, RowTerminalIsFinal, PTL

-----------------------------------------------------------------------------
(* THE FENCE.  The token of a task was the row's fence when the task       *)
(* claimed it; the fence only grows, and every claim takes a value no task *)
(* has had.                                                                *)

Task(h) == pc[h] \in TaskPcs

(* The inductive invariant.  UniqueHolder speaks of the tasks with the     *)
(* current token only; that a claim cannot revive an old token needs the   *)
(* bound on, and the distinctness of, the tokens of all tasks.             *)
Bounded  == \A h \in Deliveries : Task(h) => token[h] <= fence[run(h)]
Distinct == \A h, g \in Deliveries :
              Task(h) /\ Task(g) /\ run(h) = run(g) /\ token[h] = token[g] => h = g
Owning   == \A h \in Deliveries :
              Holds(h) /\ status[run(h)] = "running" => owner[run(h)] = at[h]
Fencing  == Bounded /\ Distinct /\ Owning

LEMMA InitFencing == Init => Fencing
BY DEF Init, Fencing, Bounded, Distinct, Owning, Task, Holds, TaskPcs

LEMMA FencingUnique == Fencing => UniqueHolder
BY DEF Fencing, Distinct, Owning, UniqueHolder, Holds, Task

(* A claim: the task of h starts with the row's next token.                *)
Takes(h) ==
  /\ Claim(run(h), at[h])
  /\ pc[h] = "acquiring"
  /\ pc'    = [pc EXCEPT ![h] = IF ResumesOnClaim(run(h)) THEN "starting" ELSE "executing"]
  /\ token' = [token EXCEPT ![h] = fence'[run(h)]]
  /\ UNCHANGED <<at, msg, sig>>

(* Every other step starts no task and moves none.                         *)
NoNewTask ==
  \A h \in Deliveries : Task(h)' =>
    Task(h) /\ msg'[h] = msg[h] /\ at'[h] = at[h] /\ token'[h] = token[h]

LEMMA VanishTasks == ASSUME NEW H, Vanish(H) PROVE NoNewTask
BY DEF Vanish, NoNewTask, Task, TaskPcs

LEMMA DropTasks == ASSUME NEW h, Drop(h) \/ Acknowledge(h) PROVE NoNewTask
BY VanishTasks DEF Drop, Acknowledge

LEMMA StillTasks == ASSUME UNCHANGED <<pc, at, msg, token>> PROVE NoNewTask
BY DEF NoNewTask, Task

LEMMA GotoTasks ==
  ASSUME DeliveryTypeOK, NEW h \in Deliveries, NEW p,
         pc' = [pc EXCEPT ![h] = p], UNCHANGED <<at, msg, token>>,
         pc[h] \in TaskPcs \/ p \notin TaskPcs
  PROVE  NoNewTask
BY DEF DeliveryTypeOK, NoNewTask, Task

LEMMA AcceptTasks ==
  ASSUME DeliveryTypeOK, NEW h \in Deliveries, Accept(h) PROVE NoNewTask \/ Takes(h)
<1>1. CASE Inspect(h)
  <2>1. Verdict(h) \notin TaskPcs
    BY DEF Verdict, TaskPcs
  <2> QED BY <1>1, <2>1, GotoTasks DEF Inspect, Goto
<1>2. CASE AcceptCancelled(h) \/ AcceptExhausted(h) \/ AcceptLapsed(h)
  <2>1. Drop(h) \/ Goto(h, "settled") \/ Goto(h, "lapsing")
    BY <1>2 DEF AcceptCancelled, AcceptExhausted, AcceptLapsed
  <2> QED BY <2>1, DropTasks, GotoTasks DEF Goto, TaskPcs
<1>3. CASE InspectFails(h) \/ AcceptFails(h) \/ AcceptAck(h) \/ AcceptAckLost(h) \/ AcquireUnseen(h)
  BY <1>3, DropTasks DEF InspectFails, AcceptFails, AcceptAck, AcceptAckLost, AcquireUnseen
<1>4. CASE Acquire(h)
  BY <1>4, DropTasks DEF Acquire, Takes
<1> QED BY <1>1, <1>2, <1>3, <1>4 DEF Accept

LEMMA ExecuteTasks ==
  ASSUME DeliveryTypeOK, NEW h \in Deliveries, Execute(h) PROVE NoNewTask
<1>1. CASE StartCancelled(h) \/ Unwound(h) \/ CloseCancelled(h) \/ Ack(h) \/ AckLost(h)
  BY <1>1, DropTasks DEF StartCancelled, Unwound, CloseCancelled, Ack, AckLost
<1>2. CASE FinishUnseen(h)
  BY <1>2, StillTasks DEF FinishUnseen, deliveryVars
<1>3. CASE Started(h) \/ Finish(h) \/ FinishFails(h) \/ Cancelled(h) \/ Settled(h)
           \/ SettledAlone(h) \/ Closed(h)
  <2>1. \E p : pc' = [pc EXCEPT ![h] = p] /\ UNCHANGED <<at, msg, token>>
    BY <1>3 DEF Started, Finish, FinishFails, Cancelled, Settled, SettledAlone, Closed, Goto
  <2>2. pc[h] \in TaskPcs
    BY <1>3 DEF Started, Finish, FinishFails, Cancelled, Settled, SettledAlone, Closed, TaskPcs
  <2> QED BY <2>1, <2>2, GotoTasks
<1> QED BY <1>1, <1>2, <1>3 DEF Execute

LEMMA TaskStep ==
  ASSUME TypeOK, [Next]_vars PROVE NoNewTask \/ \E h \in Deliveries : Takes(h)
<1> USE DEF TypeOK
<1>1. ASSUME NEW m \in Msgs, Api(m) \/ Expire(m) PROVE NoNewTask
  BY <1>1, StillTasks DEF Api, SendHalf, LocalTransaction, Report, ReportLost, BrokerCheck,
     RecoverRun, Redispatch, RedispatchFails, Expire, deliveryVars
<1>2. ASSUME NEW r \in Runs, UserCancel(r) PROVE NoNewTask
  BY <1>2, StillTasks DEF UserCancel, deliveryVars
<1>3. ASSUME NEW h \in Deliveries, NEW w \in Workers, NEW m \in Msgs, Pull(h, w, m)
      PROVE  NoNewTask
  BY <1>3 DEF Pull, DeliveryTypeOK, NoNewTask, Task, TaskPcs
<1>4. ASSUME NEW h \in Deliveries, LeaseCheck(h) \/ LeaseGiveUp(h) PROVE NoNewTask
  BY <1>4, StillTasks DEF LeaseCheck, LeaseGiveUp
<1>5. ASSUME NEW w \in Workers, Process(w) PROVE NoNewTask
  <2>1. CASE BeginShutdown(w) \/ Crash(w)
    BY <2>1, VanishTasks DEF BeginShutdown, Crash
  <2>2. CASE Teardown(w) \/ Stop(w) \/ Restart(w)
    BY <2>2, StillTasks DEF Teardown, Stop, Restart, deliveryVars
  <2> QED BY <1>5, <2>1, <2>2 DEF Process
<1>6. ASSUME NEW w \in Workers, NEW r \in Runs, CancelIfConfirmed(w, r) \/ ReleaseRun(w, r)
      PROVE  NoNewTask
  BY <1>6, StillTasks DEF CancelIfConfirmed, ReleaseRun, deliveryVars
<1>7. CASE UNCHANGED vars
  BY <1>7, StillTasks DEF vars, deliveryVars
<1> QED BY <1>1, <1>2, <1>3, <1>4, <1>5, <1>6, <1>7, AcceptTasks, ExecuteTasks DEF Next

LEMMA FencingStep ==
  ASSUME TypeOK, Located, Fencing, [Next]_vars PROVE Fencing'
<1>1. FenceStep
  <2>1. CASE UNCHANGED rowVars
    BY <2>1 DEF rowVars, FenceStep, TypeOK, RowTypeOK
  <2> QED BY <2>1, RowStep, FenceWrite DEF TypeOK
<1> USE DEF Fencing
<1>2. \A h \in Deliveries : Task(h) => run(h) \in Runs
  BY DeliveryRun DEF Task, TaskPcs
<1>3. \A h \in Deliveries : token[h] \in Nat
  BY DEF TypeOK, DeliveryTypeOK
<1>4. \A r \in Runs : fence[r] \in Nat
  BY DEF TypeOK, RowTypeOK
<1>5. CASE NoNewTask
  <2>1. Bounded'
    BY <1>1, <1>2, <1>3, <1>4, <1>5 DEF Bounded, NoNewTask, FenceStep, run
  <2>2. Distinct'
    BY <1>5 DEF Distinct, NoNewTask, run
  <2>3. Owning'
    <3> SUFFICES ASSUME NEW h \in Deliveries, Holds(h)', status'[run(h)'] = "running"
                 PROVE  owner'[run(h)'] = at'[h]
      BY DEF Owning
    <3>1. Task(h) /\ run(h)' = run(h) /\ at'[h] = at[h] /\ token'[h] = token[h]
      BY <1>5 DEF Holds, Task, NoNewTask, run
    <3>2. token[h] = fence'[run(h)]
      BY <3>1 DEF Holds
    <3>3. fence'[run(h)] = fence[run(h)]
      BY <1>1, <1>2, <1>3, <1>4, <3>1, <3>2 DEF FenceStep, Bounded
    <3>4. status[run(h)] = "running" /\ owner'[run(h)] = owner[run(h)]
      BY <1>1, <1>2, <3>1, <3>3 DEF FenceStep
    <3> QED BY <3>1, <3>2, <3>3, <3>4 DEF Owning, Holds, Task
  <2> QED BY <2>1, <2>2, <2>3
<1>6. ASSUME NEW h \in Deliveries, Takes(h) PROVE Fencing'
  <2>1. /\ run(h) \in Runs /\ fence' = [fence EXCEPT ![run(h)] = @ + 1]
        /\ owner' = [owner EXCEPT ![run(h)] = at[h]]
    BY <1>6, DeliveryRun DEF Takes, Claim
  <2>2. token'[h] = fence[run(h)] + 1 /\ run(h)' = run(h) /\ at'[h] = at[h]
    BY <1>6, <2>1 DEF Takes, TypeOK, RowTypeOK, DeliveryTypeOK, run
  <2>3. \A g \in Deliveries \ {h} :
           /\ Task(g)' <=> Task(g)
           /\ run(g)' = run(g) /\ at'[g] = at[g] /\ token'[g] = token[g]
    BY <1>6 DEF Takes, TypeOK, DeliveryTypeOK, Task, run
  <2>4. \A r \in Runs : fence'[r] = IF r = run(h) THEN fence[r] + 1 ELSE fence[r]
    BY <2>1 DEF TypeOK, RowTypeOK
  <2>5. \A g \in Deliveries \ {h} : Task(g) /\ run(g) = run(h) => token[g] < token'[h]
    BY <1>2, <1>3, <1>4, <2>1, <2>2 DEF Bounded
  <2>6. Bounded'
    BY <1>2, <1>3, <1>4, <2>1, <2>2, <2>3, <2>4 DEF Bounded
  <2>7. Distinct'
    BY <1>3, <1>4, <2>1, <2>2, <2>3, <2>5 DEF Distinct
  <2>8. Owning'
    <3> SUFFICES ASSUME NEW g \in Deliveries, Holds(g)', status'[run(g)'] = "running"
                 PROVE  owner'[run(g)'] = at'[g]
      BY DEF Owning
    <3>1. CASE g = h
      BY <2>1, <2>2, <3>1 DEF TypeOK, RowTypeOK
    <3>2. CASE g # h
      <4>1. Task(g) /\ run(g)' = run(g) /\ at'[g] = at[g] /\ token[g] = fence'[run(g)]
        BY <2>3, <3>2 DEF Holds, Task
      <4>2. run(g) # run(h)
        BY <1>3, <1>4, <2>1, <2>2, <2>4, <2>5, <3>2, <4>1
      <4>3. fence'[run(g)] = fence[run(g)] /\ owner'[run(g)] = owner[run(g)]
            /\ status[run(g)] = "running"
        BY <1>1, <1>2, <2>4, <4>1, <4>2 DEF FenceStep
      <4> QED BY <4>1, <4>3 DEF Owning, Holds, Task
    <3> QED BY <3>1, <3>2
  <2> QED BY <2>6, <2>7, <2>8
<1> QED BY <1>5, <1>6, TaskStep

(* At any time at most one task carries the row's current fence token, and *)
(* the owner column of a running row names that task's worker, whatever    *)
(* crashes, lapsed receipts, duplicated deliveries and lost answers there  *)
(* have been.                                                              *)
THEOREM HolderIsUnique == Spec => []UniqueHolder
<1>1. Spec => []Fencing
  BY InitFencing, FencingStep, TypeCorrect, PTL DEF Spec
<1> QED BY <1>1, FencingUnique, PTL

-----------------------------------------------------------------------------
(* A task that has lost the row: its own steps leave the row alone.        *)
ZombieStep ==
  \A h \in Deliveries, r \in Runs :
    pc[h] \in TaskPcs /\ run(h) = r /\ ~Holds(h) /\ pc'[h] # pc[h]
      => UNCHANGED <<status[r], owner[r], reason[r], fence[r]>>

LEMMA KeepsRows == ASSUME UNCHANGED rowVars PROVE ZombieStep
BY DEF rowVars, ZombieStep

LEMMA KeepsTasks ==
  ASSUME \A h \in Deliveries : Task(h) => pc'[h] = pc[h] PROVE ZombieStep
BY DEF ZombieStep, Task

LEMMA AcceptZombie ==
  ASSUME DeliveryTypeOK, NEW h \in Deliveries, Accept(h) PROVE ZombieStep
<1>1. pc[h] \notin TaskPcs
  BY DEF Accept, Inspect, InspectFails, MayAccept, AcceptCancelled, AcceptExhausted, AcceptLapsed,
         Acquire, AcquireUnseen, AcceptFails, AcceptAck, AcceptAckLost, AcceptPcs, TaskPcs
<1>2. \A g \in Deliveries \ {h} : pc'[g] = pc[g]
  <2>1. Drop(h) \/ Acknowledge(h) \/ \E p : pc' = [pc EXCEPT ![h] = p]
    BY DEF Accept, Inspect, InspectFails, AcceptCancelled, AcceptExhausted, AcceptLapsed,
           Acquire, AcquireUnseen, AcceptFails, AcceptAck, AcceptAckLost, Goto
  <2> QED BY <2>1 DEF Drop, Acknowledge, Vanish, DeliveryTypeOK
<1> QED BY <1>1, <1>2, KeepsTasks DEF Task

LEMMA ExecuteZombie ==
  ASSUME TypeOK, Located, NEW h \in Deliveries, Execute(h) PROVE ZombieStep
<1>1. CASE \/ Started(h) \/ StartCancelled(h) \/ FinishFails(h) \/ Cancelled(h) \/ Closed(h)
           \/ Unwound(h) \/ CloseCancelled(h) \/ Ack(h) \/ AckLost(h)
  BY <1>1, KeepsRows
     DEF Started, StartCancelled, FinishFails, Cancelled, Closed, Unwound, CloseCancelled, Ack, AckLost
<1>2. CASE FinishUnseen(h)
  BY <1>2, KeepsTasks DEF FinishUnseen, deliveryVars
<1>3. CASE Finish(h) \/ Settled(h) \/ SettledAlone(h)
  <2>1. CASE Holds(h)
    <3>1. \A g \in Deliveries \ {h} : pc'[g] = pc[g]
      BY <1>3 DEF Finish, Settled, SettledAlone, Goto, TypeOK, DeliveryTypeOK
    <3> QED BY <2>1, <3>1 DEF ZombieStep
  <2>2. CASE ~Holds(h)
    <3>1. ~Owned(run(h), at[h], token[h])
      BY <1>3, <2>2 DEF Finish, Settled, SettledAlone, Holds, Owned, TaskPcs
    <3>2. UNCHANGED rowVars
      BY <1>3, <3>1 DEF Finish, Settled, SettledAlone, SettleOwn, WriteOutcome, Persist, PersistAwaiting
    <3> QED BY <3>2, KeepsRows
  <2> QED BY <2>1, <2>2
<1> QED BY <1>1, <1>2, <1>3 DEF Execute

LEMMA NextZombie == ASSUME TypeOK, Located, [Next]_vars PROVE ZombieStep
<1>1. ASSUME NEW m \in Msgs, Api(m) \/ Expire(m) PROVE ZombieStep
  BY <1>1, KeepsTasks DEF Api, SendHalf, LocalTransaction, Report, ReportLost, BrokerCheck,
     RecoverRun, Redispatch, RedispatchFails, Expire, deliveryVars
<1>2. ASSUME NEW r \in Runs, UserCancel(r) PROVE ZombieStep
  BY <1>2, KeepsTasks DEF UserCancel, deliveryVars
<1>3. ASSUME NEW h \in Deliveries, NEW w \in Workers, NEW m \in Msgs, Pull(h, w, m)
      PROVE  ZombieStep
  BY <1>3, KeepsRows DEF Pull
<1>4. ASSUME NEW h \in Deliveries, LeaseCheck(h) \/ LeaseGiveUp(h) PROVE ZombieStep
  BY <1>4, KeepsRows DEF LeaseCheck, LeaseGiveUp
<1>5. ASSUME NEW w \in Workers, Process(w) PROVE ZombieStep
  BY <1>5, KeepsRows DEF Process, BeginShutdown, Teardown, Stop, Crash, Restart
<1>6. ASSUME NEW w \in Workers, NEW r \in Runs, CancelIfConfirmed(w, r) \/ ReleaseRun(w, r)
      PROVE  ZombieStep
  BY <1>6, KeepsTasks DEF CancelIfConfirmed, ReleaseRun, deliveryVars
<1>7. CASE UNCHANGED vars
  BY <1>7, KeepsRows DEF vars
<1> QED BY <1>1, <1>2, <1>3, <1>4, <1>5, <1>6, <1>7, AcceptZombie, ExecuteZombie DEF Next, TypeOK

(* A task whose token is no longer the row's changes nothing of the row by *)
(* whatever it still does (finishing, handling a cancellation, unwinding,  *)
(* acknowledging).                                                         *)
THEOREM ZombiesAreHarmless == Spec => ZombieIsHarmless
<1>1. TypeOK /\ Located /\ [Next]_vars => [ZombieStep]_vars
  BY NextZombie
<1>2. ZombieIsHarmless <=> [][ZombieStep]_vars
  BY DEF ZombieIsHarmless, ZombieStep
<1> QED BY <1>1, <1>2, TypeCorrect, PTL DEF Spec

-----------------------------------------------------------------------------
(* THE DICTIONARY OF A WORKER AND ITS SIGNALS.  What task[w][r] holds is a *)
(* live task of r at w, and only tasks carry a cancellation.               *)
Registered ==
  \A w \in Workers, r \in Runs : task[w][r] # NoDelivery =>
    /\ task[w][r] \in Deliveries /\ Task(task[w][r])
    /\ run(task[w][r]) = r /\ at[task[w][r]] = w
Signalled == \A h \in Deliveries : sig[h] => Task(h)
Books == Registered /\ Signalled

(* A step that ends no task and forgets none but keeps the dictionaries.   *)
LEMMA BooksKept ==
  ASSUME Books, UNCHANGED <<task, at, msg>>,
         \A h \in Deliveries : Task(h) => Task(h)',
         \A h \in Deliveries : sig'[h] => sig[h] \/ Task(h)'
  PROVE  Books'
BY DEF Books, Registered, Signalled, run

(* The delivery h ends, and the dictionary forgets its run.                *)
LEMMA BooksClosed ==
  ASSUME TypeOK, Books, Located, NEW h \in Deliveries, pc[h] # "free",
         Drop(h) \/ Acknowledge(h), \/ TaskDone(h)
                                    \/ UNCHANGED task /\ ~Task(h)
  PROVE  Books'
<1>1. run(h) \in Runs /\ at[h] \in Workers
  BY DeliveryRun
<1>2. Vanish({h}) /\ Unsignal({h})
  BY DEF Drop, Acknowledge
<1>3. \A g \in Deliveries \ {h} :
         pc'[g] = pc[g] /\ msg'[g] = msg[g] /\ at'[g] = at[g] /\ sig'[g] = sig[g]
  BY <1>2 DEF Vanish, Unsignal
<1>4. ~sig'[h]
  BY <1>2 DEF Unsignal
<1>5. Signalled'
  BY <1>3, <1>4 DEF Books, Signalled, Task
<1>6. \A w \in Workers, r \in Runs :
         /\ task'[w][r] = task[w][r] \/ task'[w][r] = NoDelivery
         /\ task'[w][r] # NoDelivery => task[w][r] # h
  <2>1. CASE TaskDone(h)
    BY <1>1, <2>1 DEF TaskDone, TypeOK, WorkerTypeOK, Books, Registered
  <2>2. CASE UNCHANGED task /\ ~Task(h)
    BY <2>2 DEF Books, Registered
  <2> QED BY <2>1, <2>2
<1>7. Registered'
  <2> SUFFICES ASSUME NEW w \in Workers, NEW r \in Runs, task'[w][r] # NoDelivery
               PROVE  /\ task'[w][r] \in Deliveries /\ Task(task[w][r])'
                      /\ run(task[w][r])' = r /\ at'[task'[w][r]] = w
    BY DEF Registered
  <2>1. task'[w][r] = task[w][r] /\ task[w][r] # h /\ task[w][r] # NoDelivery
    BY <1>6
  <2> QED BY <1>3, <2>1 DEF Books, Registered, Task, run
<1> QED BY <1>5, <1>7 DEF Books

LEMMA InitBooks == Init => Books
BY DEF Init, Books, Registered, Signalled

LEMMA AcceptBooks ==
  ASSUME TypeOK, Located, Books, NEW h \in Deliveries, Accept(h) PROVE Books'
<1>1. pc[h] # "free" /\ ~Task(h)
  BY DEF Accept, Inspect, InspectFails, MayAccept, AcceptCancelled, AcceptExhausted, AcceptLapsed,
         Acquire, AcquireUnseen, AcceptFails, AcceptAck, AcceptAckLost, AcceptPcs, TaskPcs, Task
<1>2. CASE (Drop(h) \/ Acknowledge(h)) /\ UNCHANGED task
  BY <1>1, <1>2, BooksClosed
<1>3. CASE \E p : Goto(h, p) /\ UNCHANGED task
  BY <1>1, <1>3, BooksKept DEF Goto, Task, TypeOK, DeliveryTypeOK
<1>4. CASE Claim(run(h), at[h]) /\ Acquire(h)
  <2>1. run(h) \in Runs /\ at[h] \in Workers
    BY <1>1, DeliveryRun
  <2>2. CASE task' = [task EXCEPT ![at[h]][run(h)] = h]
    <3>1. /\ pc' = [pc EXCEPT ![h] = IF ResumesOnClaim(run(h)) THEN "starting" ELSE "executing"]
          /\ UNCHANGED <<at, msg, sig>>
      BY <1>4, <2>2, NullsAssumption DEF Acquire, Claim
    <3>2. /\ Task(h)' /\ \A g \in Deliveries : Task(g) => Task(g)'
      BY <3>1 DEF TypeOK, DeliveryTypeOK, Task, TaskPcs
    <3>3. \A w \in Workers, r \in Runs :
             task'[w][r] = IF w = at[h] /\ r = run(h) THEN h ELSE task[w][r]
      BY <2>1, <2>2 DEF TypeOK, WorkerTypeOK
    <3> QED BY <3>1, <3>2, <3>3 DEF Books, Registered, Signalled, run
  <2> QED BY <1>4, <2>2 DEF Acquire, Claim
<1>5. CASE Inspect(h) \/ AcceptCancelled(h) \/ AcceptExhausted(h) \/ AcceptLapsed(h)
  BY <1>2, <1>3, <1>5
     DEF Inspect, AcceptCancelled, AcceptExhausted, AcceptLapsed, workerVars
<1>6. CASE InspectFails(h) \/ AcquireUnseen(h) \/ AcceptFails(h) \/ AcceptAck(h) \/ AcceptAckLost(h)
  BY <1>2, <1>6 DEF InspectFails, AcquireUnseen, AcceptFails, AcceptAck, AcceptAckLost, workerVars
<1>7. CASE Acquire(h)
  BY <1>2, <1>4, <1>7 DEF Acquire, workerVars
<1> QED BY <1>5, <1>6, <1>7 DEF Accept

LEMMA ExecuteBooks ==
  ASSUME TypeOK, Located, Books, NEW h \in Deliveries, Execute(h) PROVE Books'
<1>1. Task(h) /\ pc[h] # "free"
  BY DEF Execute, Started, StartCancelled, Finish, FinishFails, FinishUnseen, Cancelled,
         Settled, SettledAlone, Closed, Unwound, CloseCancelled, Ack, AckLost, Task, TaskPcs
<1>2. CASE StartCancelled(h) \/ Unwound(h) \/ CloseCancelled(h) \/ Ack(h) \/ AckLost(h)
  <2>1. (Drop(h) \/ Acknowledge(h)) /\ TaskDone(h)
    BY <1>2 DEF StartCancelled, Unwound, CloseCancelled, Ack, AckLost, TaskEnds
  <2> QED BY <1>1, <2>1, BooksClosed
<1>3. CASE FinishUnseen(h)
  BY <1>3, BooksKept DEF FinishUnseen, workerVars, deliveryVars, Task
<1>4. CASE Started(h) \/ Finish(h) \/ FinishFails(h) \/ Cancelled(h) \/ Settled(h)
           \/ SettledAlone(h) \/ Closed(h)
  <2>1. /\ \E p \in TaskPcs : pc' = [pc EXCEPT ![h] = p]
        /\ UNCHANGED <<task, at, msg>>
        /\ UNCHANGED sig \/ Unsignal({h})
    BY <1>4 DEF Started, Finish, FinishFails, Cancelled, Settled, SettledAlone, Closed, Goto,
                TaskPcs, workerVars
  <2>2. \A g \in Deliveries : sig'[g] => sig[g]
    BY <2>1 DEF Unsignal
  <2> QED BY <2>1, <2>2, BooksKept DEF TypeOK, DeliveryTypeOK, Task
<1> QED BY <1>2, <1>3, <1>4 DEF Execute

LEMMA ProcessBooks ==
  ASSUME TypeOK, Located, Books, NEW w \in Workers, Process(w) PROVE Books'
<1>1. CASE BeginShutdown(w)
  <2> DEFINE H == AtWorker(w, {"prefetched"} \cup AcceptPcs)
             G == {task[w][r] : r \in Runs} \ H
  <2>1. Vanish(H) /\ Signal(G) /\ UNCHANGED task
    BY <1>1 DEF BeginShutdown
  <2>2. \A h \in Deliveries : Task(h) => h \notin H
    BY DEF AtWorker, AcceptPcs, TaskPcs, Task
  <2>3. \A h \in Deliveries : Task(h) => Task(h)' /\ msg'[h] = msg[h] /\ at'[h] = at[h]
    <3> HIDE DEF H
    <3> QED BY <2>1, <2>2 DEF Vanish, Task
  <2>4. \A h \in Deliveries : h \in G => Task(h)
    <3>1. \A h \in Deliveries : h # NoDelivery
      BY NullsAssumption
    <3> QED BY <3>1 DEF Books, Registered
  <2>5. Signalled'
    <3> HIDE DEF G
    <3> QED BY <2>1, <2>3, <2>4 DEF Signal, Books, Signalled
  <2>6. Registered'
    BY <2>1, <2>3 DEF Books, Registered, run
  <2> QED BY <2>5, <2>6 DEF Books
<1>2. CASE Crash(w)
  <2> DEFINE H == {h \in Deliveries : at[h] = w}
  <2>1. Vanish(H) /\ Unsignal(H) /\ Forget(w)
    BY <1>2 DEF Crash
  <2>2. \A h \in Deliveries \ H :
           pc'[h] = pc[h] /\ msg'[h] = msg[h] /\ at'[h] = at[h] /\ sig'[h] = sig[h]
    <3> HIDE DEF H
    <3> QED BY <2>1 DEF Vanish, Unsignal
  <2>3. \A h \in H : ~sig'[h]
    BY <2>1 DEF Unsignal
  <2>4. Signalled'
    <3> HIDE DEF H
    <3> QED BY <2>2, <2>3 DEF Books, Signalled, Task
  <2>5. \A v \in Workers, r \in Runs :
           task'[v][r] # NoDelivery => task'[v][r] = task[v][r] /\ task[v][r] \notin H
    BY <2>1 DEF Forget, TypeOK, WorkerTypeOK, Books, Registered
  <2>6. Registered'
    <3> HIDE DEF H
    <3> QED BY <2>2, <2>5 DEF Books, Registered, Task, run
  <2> QED BY <2>4, <2>6 DEF Books
<1>3. CASE Teardown(w)
  <2>1. UNCHANGED <<task, pc, at, msg>> /\ Signal(AtWorker(w, TaskPcs))
    BY <1>3 DEF Teardown
  <2>2. \A h \in Deliveries : sig'[h] => sig[h] \/ Task(h)
    BY <2>1 DEF Signal, AtWorker, Task
  <2> QED BY <2>1, <2>2, BooksKept DEF Task
<1>4. CASE Stop(w)
  <2>1. Forget(w) /\ UNCHANGED <<pc, at, msg, sig>>
    BY <1>4 DEF Stop, deliveryVars
  <2>2. \A v \in Workers, r \in Runs : task'[v][r] # NoDelivery => task'[v][r] = task[v][r]
    BY <2>1 DEF Forget, TypeOK, WorkerTypeOK
  <2> QED BY <2>1, <2>2 DEF Books, Registered, Signalled, Task, run
<1>5. CASE Restart(w)
  BY <1>5, BooksKept DEF Restart, deliveryVars, Task
<1> QED BY <1>1, <1>2, <1>3, <1>4, <1>5 DEF Process

LEMMA BooksStep == ASSUME TypeOK, Located, Books, [Next]_vars PROVE Books'
<1>1. ASSUME NEW m \in Msgs, Api(m) \/ Expire(m) PROVE Books'
  BY <1>1, BooksKept DEF Api, SendHalf, LocalTransaction, Report, ReportLost, BrokerCheck,
     RecoverRun, Redispatch, RedispatchFails, Expire, deliveryVars, workerVars, Task
<1>2. ASSUME NEW r \in Runs, UserCancel(r) PROVE Books'
  BY <1>2, BooksKept DEF UserCancel, deliveryVars, workerVars, Task
<1>3. ASSUME NEW h \in Deliveries, NEW w \in Workers, NEW m \in Msgs, Pull(h, w, m)
      PROVE  Books'
  <2>1. ~Task(h) /\ \A g \in Deliveries \ {h} :
           pc'[g] = pc[g] /\ msg'[g] = msg[g] /\ at'[g] = at[g]
    BY <1>3 DEF Pull, Task, TaskPcs, TypeOK, DeliveryTypeOK
  <2>2. UNCHANGED <<task, sig>>
    BY <1>3 DEF Pull, workerVars
  <2> QED BY <2>1, <2>2 DEF Books, Registered, Signalled, Task, run
<1>4. ASSUME NEW h \in Deliveries, LeaseCheck(h) \/ LeaseGiveUp(h) PROVE Books'
  <2>1. Task(h) /\ Signal({h}) /\ UNCHANGED <<task, pc, at, msg>>
    BY <1>4 DEF LeaseCheck, LeaseGiveUp, LeasePcs, Task
  <2> QED BY <2>1, BooksKept DEF Signal, Task
<1>5. ASSUME NEW w \in Workers, NEW r \in Runs, CancelIfConfirmed(w, r) PROVE Books'
  <2>1. Task(task[w][r]) /\ Signal({task[w][r]}) /\ UNCHANGED <<task, pc, at, msg>>
    BY <1>5 DEF CancelIfConfirmed, workerVars, Books, Registered
  <2> QED BY <2>1, BooksKept DEF Signal, Task
<1>6. ASSUME NEW w \in Workers, NEW r \in Runs, ReleaseRun(w, r) PROVE Books'
  BY <1>6, BooksKept DEF ReleaseRun, deliveryVars, Task
<1>7. CASE UNCHANGED vars
  BY <1>7, BooksKept DEF vars, workerVars, deliveryVars, Task
<1> QED BY <1>1, <1>2, <1>3, <1>4, <1>5, <1>6, <1>7, AcceptBooks, ExecuteBooks, ProcessBooks
        DEF Next

-----------------------------------------------------------------------------
(* THE PROMISE.  As long as nothing but a cancellation of the user makes a *)
(* worker cancel the task that holds the run, a row ends as cancelled only *)
(* after the user has asked for it.                                        *)
OnlyUserCancels == Hazards \cap {"shutdown", "outage"} = {}

(* The user wants this task to end, or the row is no longer its own.       *)
Meant(h) == cancelReq[run(h)] \/ token[h] < fence[run(h)]

NeverClosing == \A w \in Workers : up[w] \in {"up", "down"}
SignalsMeant ==
  \A h \in Deliveries : Task(h) /\ (sig[h] \/ pc[h] = "settling") => Meant(h)
Wanted == NeverClosing /\ SignalsMeant

LEMMA InitWanted == Init => Wanted
BY DEF Init, Wanted, NeverClosing, SignalsMeant, Task, TaskPcs

(* What the user has asked for stays asked for, and tokens only grow.      *)
Lasting ==
  \A r \in Runs : /\ cancelReq[r] => cancelReq'[r]
                  /\ fence[r] <= fence'[r]

LEMMA LastingStep == ASSUME TypeOK, Located, [Next]_vars PROVE Lasting
<1>1. [\E r \in Runs : RowWrite(r)]_rowVars
  BY RowStep
<1>2. CASE UNCHANGED rowVars
  BY <1>2 DEF rowVars, Lasting, TypeOK, RowTypeOK
<1>3. ASSUME NEW r \in Runs, RowWrite(r) PROVE Lasting
  <2>1. \A q \in Runs : fence[q] <= fence'[q]
    <3>1. FenceStep
      BY <1>3, FenceWrite DEF TypeOK
    <3> QED BY <3>1 DEF FenceStep
  <2>2. UNCHANGED cancelReq \/ cancelReq' = [cancelReq EXCEPT ![r] = TRUE]
    BY <1>3 DEF RowWrite, Insert, Answer, Reopen, RequestCancel, SettleCancelled, SettleExhausted,
                WriteTerminal, Claim, PersistAwaiting, ReleaseRow, Persist
  <2>3. \A q \in Runs : cancelReq[q] => cancelReq'[q]
    <3>1. cancelReq \in [Runs -> BOOLEAN]
      BY DEF TypeOK, RowTypeOK
    <3> QED BY <2>2, <3>1, Zenon
  <2> QED BY <2>1, <2>3 DEF Lasting
<1> QED BY <1>1, <1>2, <1>3

LEMMA ClosingStep ==
  ASSUME OnlyUserCancels, TypeOK, NeverClosing, [Next]_vars PROVE NeverClosing'
<1>1. CASE UNCHANGED up
  BY <1>1 DEF NeverClosing
<1>2. ASSUME NEW w \in Workers, Process(w) PROVE NeverClosing'
  <2>1. ~BeginShutdown(w) /\ ~Teardown(w) /\ ~Stop(w)
    BY DEF BeginShutdown, Teardown, Stop, Fault, OnlyUserCancels, NeverClosing
  <2>2. Crash(w) \/ Restart(w)
    BY <1>2, <2>1 DEF Process
  <2>3. up' = [up EXCEPT ![w] = "down"] \/ up' = [up EXCEPT ![w] = "up"]
    BY <2>2 DEF Crash, Restart, Forget
  <2> QED BY <2>3 DEF NeverClosing, TypeOK, WorkerTypeOK
<1>3. ASSUME NEW m \in Msgs, Api(m) \/ Expire(m) PROVE UNCHANGED up
  BY <1>3 DEF Api, SendHalf, LocalTransaction, Report, ReportLost, BrokerCheck,
     RecoverRun, Redispatch, RedispatchFails, Expire, workerVars
<1>4. ASSUME NEW r \in Runs, UserCancel(r) PROVE UNCHANGED up
  BY <1>4 DEF UserCancel, workerVars
<1>5. ASSUME NEW h \in Deliveries, NEW w \in Workers, NEW m \in Msgs, Pull(h, w, m)
      PROVE  UNCHANGED up
  BY <1>5 DEF Pull, workerVars
<1>6. ASSUME NEW h \in Deliveries, Accept(h) PROVE UNCHANGED up
  BY <1>6 DEF Accept, Inspect, InspectFails, AcceptCancelled, AcceptExhausted, AcceptLapsed,
              Acquire, AcquireUnseen, AcceptFails, AcceptAck, AcceptAckLost, workerVars
<1>7. ASSUME NEW h \in Deliveries, Execute(h) PROVE UNCHANGED up
  BY <1>7 DEF Execute, Started, StartCancelled, Finish, FinishFails, FinishUnseen, Cancelled,
              Settled, SettledAlone, Closed, Unwound, CloseCancelled, Ack, AckLost, TaskEnds,
              workerVars
<1>8. ASSUME NEW h \in Deliveries, LeaseCheck(h) \/ LeaseGiveUp(h) PROVE UNCHANGED up
  BY <1>8 DEF LeaseCheck, LeaseGiveUp
<1>9. ASSUME NEW w \in Workers, NEW r \in Runs, CancelIfConfirmed(w, r) \/ ReleaseRun(w, r)
      PROVE  UNCHANGED up
  BY <1>9 DEF CancelIfConfirmed, ReleaseRun, workerVars
<1>10. CASE UNCHANGED vars
  BY <1>1, <1>10 DEF vars, workerVars
<1> QED BY <1>1, <1>2, <1>3, <1>4, <1>5, <1>6, <1>7, <1>8, <1>9, <1>10 DEF Next

(* A task that stays one gets a signal, or goes to settle a cancellation,  *)
(* for the user's sake or because it has lost the row.                     *)
NewSignalsMeant ==
  \A h \in Deliveries :
    Task(h) /\ Task(h)' /\ (sig'[h] \/ pc'[h] = "settling")
      => sig[h] \/ pc[h] = "settling" \/ Meant(h)

LEMMA QuietStep ==
  ASSUME TypeOK, \A h \in Deliveries : sig'[h] => sig[h] \/ Meant(h),
         \A h \in Deliveries : Task(h) /\ Task(h)' /\ pc'[h] # pc[h]
                                 => pc'[h] # "settling" \/ sig[h]
  PROVE  NewSignalsMeant
BY DEF NewSignalsMeant

LEMMA NewSignals ==
  ASSUME OnlyUserCancels, TypeOK, Located, Books, Fencing, NeverClosing, [Next]_vars
  PROVE  NewSignalsMeant
<1>1. ASSUME NEW m \in Msgs, Api(m) \/ Expire(m) PROVE NewSignalsMeant
  BY <1>1, QuietStep DEF Api, SendHalf, LocalTransaction, Report, ReportLost, BrokerCheck,
     RecoverRun, Redispatch, RedispatchFails, Expire, deliveryVars
<1>2. ASSUME NEW r \in Runs, UserCancel(r) PROVE NewSignalsMeant
  BY <1>2, QuietStep DEF UserCancel, deliveryVars
<1>3. ASSUME NEW h \in Deliveries, NEW w \in Workers, NEW m \in Msgs, Pull(h, w, m)
      PROVE  NewSignalsMeant
  BY <1>3, QuietStep DEF Pull, TypeOK, DeliveryTypeOK
<1>4. ASSUME NEW h \in Deliveries, Drop(h) \/ Acknowledge(h) PROVE NewSignalsMeant
  BY <1>4, QuietStep DEF Drop, Acknowledge, Vanish, Unsignal, Task, TaskPcs
<1>5. ASSUME NEW h \in Deliveries, Accept(h) PROVE NewSignalsMeant
  <2>1. CASE Drop(h) \/ Acknowledge(h)
    BY <1>4, <2>1
  <2>2. CASE UNCHANGED sig /\ ~Task(h) /\ \E p : pc' = [pc EXCEPT ![h] = p]
    BY <2>2, QuietStep DEF TypeOK, DeliveryTypeOK
  <2>3. ~Task(h)
    BY <1>5 DEF Accept, Inspect, InspectFails, MayAccept, AcceptCancelled, AcceptExhausted,
          AcceptLapsed, Acquire, AcquireUnseen, AcceptFails, AcceptAck, AcceptAckLost, AcceptPcs,
          TaskPcs, Task
  <2>4. \/ Drop(h) \/ Acknowledge(h)
        \/ UNCHANGED sig /\ \E p : pc' = [pc EXCEPT ![h] = p]
    BY <1>5 DEF Accept, Inspect, InspectFails, AcceptCancelled, AcceptExhausted,
          AcceptLapsed, Acquire, AcquireUnseen, AcceptFails, AcceptAck, AcceptAckLost, Goto
  <2> QED BY <2>1, <2>2, <2>3, <2>4
<1>6. ASSUME NEW h \in Deliveries, Execute(h) PROVE NewSignalsMeant
  <2>1. CASE StartCancelled(h) \/ Unwound(h) \/ CloseCancelled(h) \/ Ack(h) \/ AckLost(h)
    BY <1>4, <2>1 DEF StartCancelled, Unwound, CloseCancelled, Ack, AckLost
  <2>2. CASE FinishUnseen(h)
    BY <2>2, QuietStep DEF FinishUnseen, deliveryVars
  <2>3. CASE Started(h) \/ Finish(h) \/ FinishFails(h) \/ Settled(h) \/ SettledAlone(h) \/ Closed(h)
    <3>1. /\ \E p \in TaskPcs \ {"settling"} : pc' = [pc EXCEPT ![h] = p]
          /\ UNCHANGED sig \/ Unsignal({h})
      BY <2>3 DEF Started, Finish, FinishFails, Settled, SettledAlone, Closed, Goto, TaskPcs
    <3>2. \A g \in Deliveries : sig'[g] => sig[g]
      BY <3>1 DEF Unsignal
    <3> QED BY <3>1, <3>2, QuietStep DEF TypeOK, DeliveryTypeOK
  <2>4. CASE Cancelled(h)
    <3>1. /\ sig[h] /\ Unsignal({h})
          /\ \E p : pc' = [pc EXCEPT ![h] = p]
      BY <2>4 DEF Cancelled
    <3>2. \A g \in Deliveries : sig'[g] => sig[g]
      BY <3>1 DEF Unsignal
    <3> QED BY <3>1, <3>2, QuietStep DEF TypeOK, DeliveryTypeOK
  <2> QED BY <1>6, <2>1, <2>2, <2>3, <2>4 DEF Execute
<1>7. ASSUME NEW h \in Deliveries, LeaseCheck(h) \/ LeaseGiveUp(h) PROVE NewSignalsMeant
  <2>1. LeaseCheck(h)
    BY <1>7 DEF LeaseGiveUp, Fault, OnlyUserCancels
  <2>2. Task(h) /\ run(h) \in Runs
    BY <2>1, DeliveryRun DEF LeaseCheck, LeasePcs, Task, TaskPcs
  <2>3. Meant(h)
    BY <2>1, <2>2 DEF LeaseCheck, Meant, Fencing, Bounded, TypeOK, RowTypeOK, DeliveryTypeOK
  <2> QED BY <2>1, <2>3, QuietStep DEF LeaseCheck, Signal
<1>8. ASSUME NEW w \in Workers, Process(w) PROVE NewSignalsMeant
  <2>1. ~BeginShutdown(w) /\ ~Teardown(w) /\ ~Stop(w)
    BY DEF BeginShutdown, Teardown, Stop, Fault, OnlyUserCancels, NeverClosing
  <2>2. CASE Crash(w)
    <3>1. PICK H : Vanish(H) /\ Unsignal(H)
      BY <2>2 DEF Crash
    <3> QED BY <3>1, QuietStep DEF Vanish, Unsignal, Task, TaskPcs
  <2>3. CASE Restart(w)
    BY <2>3, QuietStep DEF Restart, deliveryVars
  <2> QED BY <1>8, <2>1, <2>2, <2>3 DEF Process
<1>9. ASSUME NEW w \in Workers, NEW r \in Runs, CancelIfConfirmed(w, r) PROVE NewSignalsMeant
  <2>1. run(task[w][r]) = r /\ cancelReq[r] /\ Signal({task[w][r]}) /\ UNCHANGED pc
    BY <1>9 DEF CancelIfConfirmed, Books, Registered
  <2> QED BY <2>1, QuietStep DEF Signal, Meant
<1>10. ASSUME NEW w \in Workers, NEW r \in Runs, ReleaseRun(w, r) PROVE NewSignalsMeant
  BY <1>10, QuietStep DEF ReleaseRun, deliveryVars
<1>11. CASE UNCHANGED vars
  BY <1>11, QuietStep DEF vars, deliveryVars
<1> QED BY <1>1, <1>2, <1>3, <1>5, <1>6, <1>7, <1>8, <1>9, <1>10, <1>11 DEF Next

LEMMA WantedStep ==
  ASSUME OnlyUserCancels, TypeOK, Located, Books, Fencing, Wanted, [Next]_vars PROVE Wanted'
<1>1. NeverClosing'
  BY ClosingStep DEF Wanted
<1>2. Lasting
  BY LastingStep
<1>3. NewSignalsMeant
  BY NewSignals DEF Wanted
<1>4. ASSUME NEW h \in Deliveries, Task(h)', sig'[h] \/ pc'[h] = "settling" PROVE Meant(h)'
  <2>1. CASE NoNewTask
    <3>1. Task(h) /\ run(h)' = run(h) /\ token'[h] = token[h] /\ run(h) \in Runs
      BY <1>4, <2>1, DeliveryRun DEF NoNewTask, run, Task, TaskPcs
    <3>2. Meant(h)
      BY <1>3, <1>4, <3>1 DEF NewSignalsMeant, Wanted, SignalsMeant
    <3> QED BY <1>2, <3>1, <3>2, TypeStep
           DEF Meant, Lasting, TypeOK, RowTypeOK, DeliveryTypeOK
  <2>2. ASSUME NEW g \in Deliveries, Takes(g), g # h PROVE Meant(h)'
    <3>1. Task(h) /\ run(h)' = run(h) /\ token'[h] = token[h] /\ run(h) \in Runs
      BY <1>4, <2>2, DeliveryRun DEF Takes, Task, run, TaskPcs, TypeOK, DeliveryTypeOK
    <3>2. Meant(h)
      BY <1>3, <1>4, <3>1 DEF NewSignalsMeant, Wanted, SignalsMeant
    <3> QED BY <1>2, <3>1, <3>2, TypeStep
           DEF Meant, Lasting, TypeOK, RowTypeOK, DeliveryTypeOK
  <2>3. CASE Takes(h)
    <3>1. pc[h] = "acquiring" /\ ~sig[h] /\ pc'[h] # "settling"
      BY <2>3 DEF Takes, Books, Signalled, Task, TaskPcs, TypeOK, DeliveryTypeOK
    <3>2. ~sig'[h]
      BY <2>3, <3>1 DEF Takes
    <3> QED BY <1>4, <3>1, <3>2
  <2> QED BY <2>1, <2>2, <2>3, TaskStep
<1> QED BY <1>1, <1>4 DEF Wanted, SignalsMeant

(* A row becomes cancelled only for the user.                              *)
Honest ==
  \A r \in Runs : status'[r] = "cancelled" /\ status[r] # "cancelled" => cancelReq'[r]

LEMMA HonestSame == ASSUME UNCHANGED status PROVE Honest
BY DEF Honest

LEMMA HonestTask ==
  ASSUME TypeOK, Located, Fencing, Wanted, NEW h \in Deliveries, Execute(h) PROVE Honest
<1>1. Task(h) /\ pc[h] # "free" /\ token[h] \in Nat
  BY DEF Execute, Started, StartCancelled, Finish, FinishFails, FinishUnseen, Cancelled,
         Settled, SettledAlone, Closed, Unwound, CloseCancelled, Ack, AckLost, Task, TaskPcs,
         TypeOK, DeliveryTypeOK
<1>2. run(h) \in Runs
  BY <1>1, DeliveryRun
<1>3. CASE WriteOutcome(h)
  <2>1. \E s \in {"completed", "failed", "awaiting_input"} : status' = [status EXCEPT ![run(h)] = s]
    BY <1>3 DEF WriteOutcome, Persist, PersistAwaiting, WriteTerminal
  <2> QED BY <2>1 DEF Honest, TypeOK, RowTypeOK
<1>4. CASE SettleOwn(h) /\ pc[h] = "settling"
  <2>1. Meant(h) /\ token[h] = fence[run(h)] /\ fence[run(h)] \in Nat
    BY <1>1, <1>2, <1>4
       DEF Wanted, SignalsMeant, SettleOwn, Persist, Owned, TypeOK, RowTypeOK
  <2>2. cancelReq[run(h)] /\ UNCHANGED cancelReq
    BY <1>4, <2>1 DEF Meant, SettleOwn, Persist, WriteTerminal
  <2>3. status' = [status EXCEPT ![run(h)] = "cancelled"]
    BY <1>4 DEF SettleOwn, Persist, WriteTerminal
  <2> QED BY <2>2, <2>3 DEF Honest, TypeOK, RowTypeOK
<1>5. CASE \/ Started(h) \/ StartCancelled(h) \/ FinishFails(h) \/ Cancelled(h) \/ Closed(h)
           \/ Unwound(h) \/ CloseCancelled(h) \/ Ack(h) \/ AckLost(h)
  BY <1>5, HonestSame DEF Started, StartCancelled, FinishFails, Cancelled, Closed, Unwound,
     CloseCancelled, Ack, AckLost, rowVars
<1>6. CASE Finish(h) \/ FinishUnseen(h) \/ Settled(h) \/ SettledAlone(h)
  <2>1. WriteOutcome(h) \/ (SettleOwn(h) /\ pc[h] = "settling") \/ UNCHANGED status
    BY <1>6 DEF Finish, FinishUnseen, Settled, SettledAlone, rowVars
  <2> QED BY <1>3, <1>4, <2>1, HonestSame
<1> QED BY <1>5, <1>6 DEF Execute

LEMMA HonestStep ==
  ASSUME TypeOK, Located, Fencing, Wanted, [Next]_vars PROVE Honest
<1>1. ASSUME NEW m \in Msgs, Api(m) \/ Expire(m) PROVE Honest
  <2>1. m[1] \in Runs
    BY MsgRun
  <2>2. \/ UNCHANGED status
        \/ \E s \in {"queued", "interrupted"} : status' = [status EXCEPT ![m[1]] = s]
    BY <1>1 DEF Api, SendHalf, LocalTransaction, Report, ReportLost, BrokerCheck,
       RecoverRun, Redispatch, RedispatchFails, Expire, rowVars, Insert, Answer, Reopen
  <2> QED BY <2>1, <2>2 DEF Honest, TypeOK, RowTypeOK
<1>2. ASSUME NEW r \in Runs, UserCancel(r) PROVE Honest
  BY <1>2 DEF UserCancel, RequestCancel, Honest, TypeOK, RowTypeOK
<1>3. ASSUME NEW h \in Deliveries, NEW w \in Workers, NEW m \in Msgs, Pull(h, w, m) PROVE Honest
  BY <1>3, HonestSame DEF Pull, rowVars
<1>4. ASSUME NEW h \in Deliveries, Accept(h) PROVE Honest
  <2>1. pc[h] # "free"
    BY <1>4 DEF Accept, Inspect, InspectFails, MayAccept, AcceptCancelled, AcceptExhausted,
       AcceptLapsed, Acquire, AcquireUnseen, AcceptFails, AcceptAck, AcceptAckLost, AcceptPcs
  <2>2. run(h) \in Runs
    BY <2>1, DeliveryRun
  <2>3. \/ UNCHANGED status \/ SettleCancelled(run(h)) \/ SettleExhausted(run(h))
        \/ Claim(run(h), at[h])
    BY <1>4 DEF Accept, Inspect, InspectFails, AcceptCancelled, AcceptExhausted,
       AcceptLapsed, Acquire, AcquireUnseen, AcceptFails, AcceptAck, AcceptAckLost, rowVars
  <2>4. CASE SettleCancelled(run(h))
    BY <2>2, <2>4 DEF SettleCancelled, CancelSettles, WriteTerminal, Honest, TypeOK, RowTypeOK
  <2>5. CASE SettleExhausted(run(h)) \/ Claim(run(h), at[h])
    BY <2>2, <2>5 DEF SettleExhausted, WriteTerminal, Claim, Honest, TypeOK, RowTypeOK
  <2> QED BY <2>3, <2>4, <2>5, HonestSame
<1>5. ASSUME NEW h \in Deliveries, LeaseCheck(h) \/ LeaseGiveUp(h) PROVE Honest
  BY <1>5, HonestSame DEF LeaseCheck, LeaseGiveUp, rowVars
<1>6. ASSUME NEW w \in Workers, Process(w) PROVE Honest
  BY <1>6, HonestSame DEF Process, BeginShutdown, Teardown, Stop, Crash, Restart, rowVars
<1>7. ASSUME NEW w \in Workers, NEW r \in Runs, CancelIfConfirmed(w, r) \/ ReleaseRun(w, r)
      PROVE  Honest
  <2>1. UNCHANGED status \/ status' = [status EXCEPT ![r] = "interrupted"]
    BY <1>7 DEF CancelIfConfirmed, ReleaseRun, ReleaseRow, rowVars
  <2> QED BY <2>1 DEF Honest, TypeOK, RowTypeOK
<1>8. CASE UNCHANGED vars
  BY <1>8, HonestSame DEF vars, rowVars
<1> QED BY <1>1, <1>2, <1>3, <1>4, <1>5, <1>6, <1>7, <1>8, HonestTask DEF Next

-----------------------------------------------------------------------------
(* An honest write of the row is a step of the promise, or none at all.    *)
LEMMA Seen ==
  ASSUME RowTypeOK, NEW r \in Runs,
         \A q \in Runs \ {r} : status'[q] = status[q] /\ reason'[q] = reason[q]
  PROVE  [q \in Runs |-> Phase(q)]' = [[q \in Runs |-> Phase(q)] EXCEPT ![r] = Phase(r)']
<1>1. \A q \in Runs \ {r} : Phase(q)' = Phase(q)
  BY DEF Phase
<1> QED BY <1>1

LEMMA PromiseWrite ==
  ASSUME RowTypeOK, NEW r \in Runs, RowWrite(r), Honest
  PROVE  [Promise!Next]_(Promise!promiseVars)
<1> DEFINE seen == [q \in Runs |-> Phase(q)]
<1>1. \A q \in Runs \ {r} : status'[q] = status[q] /\ reason'[q] = reason[q]
  BY DEF RowWrite, Insert, Answer, Reopen, RequestCancel, SettleCancelled, SettleExhausted,
         WriteTerminal, Claim, PersistAwaiting, ReleaseRow, Persist, RowTypeOK
<1>2. seen' = [seen EXCEPT ![r] = Phase(r)']
  BY <1>1, Seen
<1>3. ASSUME NEW from, NEW to, Phase(r) \in from, Phase(r)' = to
      PROVE  Promise!Moves(r, from, to)
  BY <1>2, <1>3 DEF Promise!Moves
<1>4. Phase(r)' = Phase(r) => UNCHANGED seen
  BY <1>2
<1>5. /\ status'[r] \in {"queued", "running", "interrupted"} => Phase(r)' = "working"
      /\ status[r] \in {"queued", "running", "interrupted"} => Phase(r) = "working"
      /\ status'[r] = "awaiting_input" => Phase(r)' = "waiting"
      /\ status[r] = "awaiting_input" => Phase(r) = "waiting"
      /\ status[r] = "absent" => Phase(r) = "none"
      /\ status'[r] = "completed" => Phase(r)' = "completed"
      /\ status'[r] = "cancelled" => Phase(r)' = "cancelled"
      /\ status'[r] = "failed" =>
           Phase(r)' = IF reason'[r] = Exhausted THEN "deadletter" ELSE "failed"
      /\ status[r] = "failed" =>
           Phase(r) = IF reason[r] = Exhausted THEN "deadletter" ELSE "failed"
  BY DEF Phase
<1> HIDE DEF seen
<1>6. CASE Insert(r)
  <2>1. Promise!Create(r)
    BY <1>3, <1>5, <1>6 DEF Insert, RowTypeOK, Promise!Create
  <2> QED BY <2>1 DEF Promise!Next
<1>7. CASE Answer(r)
  <2>1. Promise!Answered(r)
    BY <1>3, <1>5, <1>7 DEF Answer, Answerable, RowTypeOK, Promise!Answered
  <2> QED BY <2>1 DEF Promise!Next
<1>8. CASE Reopen(r)
  <2>1. Promise!Revive(r)
    BY <1>3, <1>5, <1>8 DEF Reopen, Reopenable, RowTypeOK, Promise!Revive
  <2> QED BY <2>1 DEF Promise!Next
<1>9. CASE SettleExhausted(r)
  <2>1. Promise!GiveUp(r)
    BY <1>3, <1>5, <1>9 DEF SettleExhausted, ExhaustHits, Exhaustible, WriteTerminal, RowTypeOK,
                            Promise!GiveUp
  <2> QED BY <2>1 DEF Promise!Next
<1>10. CASE SettleCancelled(r)
  <2>1. Promise!Cancel(r)
    BY <1>3, <1>5, <1>10 DEF SettleCancelled, CancelSettles, CancelPending, CancelRunning,
       WriteTerminal, RowTypeOK, Promise!Cancel, Promise!Open
  <2> QED BY <2>1 DEF Promise!Next
<1>11. CASE RequestCancel(r)
  <2>1. Phase(r) \in {"working", "waiting"} /\ cancelReq' = [cancelReq EXCEPT ![r] = TRUE]
    BY <1>5, <1>11 DEF RequestCancel, Outstanding
  <2>2. UNCHANGED seen \/ Promise!Moves(r, {"working", "waiting"}, "cancelled")
    <3>1. CASE status' = [status EXCEPT ![r] = "cancelled"]
      BY <1>3, <1>5, <2>1, <3>1 DEF RowTypeOK
    <3>2. CASE UNCHANGED <<status, reason>>
      BY <1>4, <3>2 DEF Phase
    <3> QED BY <1>11, <3>1, <3>2 DEF RequestCancel
  <2>3. Promise!Request(r)
    BY <2>1, <2>2 DEF Promise!Request, Promise!Open, seen
  <2> QED BY <2>3 DEF Promise!Next
<1>12. ASSUME NEW w \in Workers, Claim(r, w) PROVE UNCHANGED <<seen, cancelReq>>
  BY <1>4, <1>5, <1>12 DEF Claim, Claimable, Startable, Takeover, RowTypeOK
<1>13. ASSUME NEW w \in Workers, NEW f \in Nat, ReleaseRow(r, w, f)
       PROVE  UNCHANGED <<seen, cancelReq>>
  BY <1>4, <1>5, <1>13 DEF ReleaseRow, Owned, RowTypeOK
<1>14. ASSUME NEW w \in Workers, NEW f \in Nat, PersistAwaiting(r, w, f) PROVE Promise!Ask(r)
  BY <1>3, <1>5, <1>14 DEF PersistAwaiting, Owned, RowTypeOK, Promise!Ask
<1>15. ASSUME NEW w \in Workers, NEW f \in Nat, NEW s \in Terminal,
              NEW why \in {"engine", "user_cancelled"}, Persist(r, w, f, s, why)
       PROVE  Promise!Conclude(r) \/ Promise!Cancel(r)
  <2>1. /\ status[r] = "running" /\ status'[r] = s /\ reason'[r] = why /\ why # Exhausted
        /\ UNCHANGED cancelReq
    BY <1>15 DEF Persist, Owned, WriteTerminal, RowTypeOK, Exhausted
  <2>2. CASE s = "cancelled"
    <3>1. cancelReq[r]
      BY <2>1, <2>2 DEF Honest
    <3> QED BY <1>3, <1>5, <2>1, <2>2, <3>1 DEF Promise!Cancel, Promise!Open
  <2>3. CASE s \in {"completed", "failed"}
    <3>1. Promise!Moves(r, {"working"}, s)
      BY <1>3, <1>5, <2>1, <2>3
    <3> QED BY <2>1, <2>3, <3>1 DEF Promise!Conclude
  <2> QED BY <2>2, <2>3 DEF Terminal
<1>16. CASE UNCHANGED <<seen, cancelReq>>
  BY <1>16 DEF Promise!promiseVars, seen
<1>17. CASE Promise!Ask(r) \/ Promise!Conclude(r) \/ Promise!Cancel(r)
  BY <1>17 DEF Promise!Next
<1> QED BY <1>6, <1>7, <1>8, <1>9, <1>10, <1>11, <1>12, <1>13, <1>14, <1>15, <1>16, <1>17
        DEF RowWrite

(* RunDispatch implements RunPromise as long as no worker is shut down or  *)
(* gives up its lease task: whatever crashes, lapses, fails or arrives     *)
(* twice, an accepted run is worked on, ends once, ends as cancelled only  *)
(* for the user, and is not given up for dead after the user asked to      *)
(* cancel it.                                                              *)
THEOREM PromiseIsKept == OnlyUserCancels => (Spec => KeepsPromise)
<1> SUFFICES ASSUME OnlyUserCancels PROVE Spec => KeepsPromise
  OBVIOUS
<1>1. Spec => [](Books /\ Fencing)
  BY InitBooks, BooksStep, InitFencing, FencingStep, TypeCorrect, PTL DEF Spec
<1>2. TypeOK /\ Located /\ Books /\ Fencing /\ Wanted /\ [Next]_vars => Wanted'
  BY WantedStep
<1>3. Spec => []Wanted
  BY <1>1, <1>2, InitWanted, TypeCorrect, PTL DEF Spec
<1>4. Init => Promise!Init
  BY DEF Init, RowInit, Promise!Init, Phase
<1>5. TypeOK /\ Located /\ Fencing /\ Wanted /\ [Next]_vars
        => [Promise!Next]_(Promise!promiseVars)
  <2> SUFFICES ASSUME TypeOK, Located, Fencing, Wanted, [Next]_vars
               PROVE  [Promise!Next]_(Promise!promiseVars)
    OBVIOUS
  <2>1. CASE UNCHANGED rowVars
    BY <2>1 DEF rowVars, Promise!promiseVars, Phase
  <2>2. ASSUME NEW r \in Runs, RowWrite(r) PROVE [Promise!Next]_(Promise!promiseVars)
    BY <2>2, HonestStep, PromiseWrite DEF TypeOK
  <2> QED BY <2>1, <2>2, RowStep
<1> QED BY <1>1, <1>3, <1>4, <1>5, TypeCorrect, PTL DEF Spec, KeepsPromise, Promise!Spec

-----------------------------------------------------------------------------
(* THE MESSAGE OF A RUN.  With one dispatch per run, and as long as only   *)
(* abandoned copies lapse, the copy a delivery holds is always the valid   *)
(* one: no two deliveries of a run exist at a time, and no task is ever a  *)
(* zombie.                                                                 *)
OnlyAbandonedLapse ==
  MaxDispatch = 1 /\ Hazards \cap {"overstay", "renewal", "outage", "earlycheck"} = {}

(* The run waits for the user, or has ended: no one has to execute it.     *)
Done(r) == status[r] \in Terminal \cup {"awaiting_input"}

(* What the API and the broker know of a message tells about the row.      *)
Sent(m) ==
  /\ op[m] \in {"idle", "sent", "applied", "done"}
  /\ op[m] = "idle" <=> mstate[m] = "none"
  /\ op[m] \in {"sent", "applied"} => mstate[m] = "half"
  /\ op[m] \in {"idle", "sent"} \/ mstate[m] = "void" => status[m[1]] = "absent"
  /\ op[m] = "applied" \/ mstate[m] \in {"ready", "leased", "acked"} => status[m[1]] # "absent"
  /\ mstate[m] = "void" => op[m] = "done"
  /\ mstate[m] = "acked" => Done(m[1])

(* The copy a delivery holds is the valid one.                             *)
Valid(h) == pc[h] # "free" => mstate[msg[h]] = "leased" /\ latest[msg[h]] = h

(* A delivery on the way to its acknowledgement has nothing left to do.    *)
Concluded(h) == pc[h] \in {"settled", "closing", "acking"} => Done(run(h))

(* A task has the current token, and the row until its outcome is written. *)
Carrying(h) ==
  Task(h) => /\ token[h] = fence[run(h)]
             /\ pc[h] \in {"starting", "executing", "settling"} =>
                  \/ Done(run(h))
                  \/ status[run(h)] = "running" /\ owner[run(h)] = at[h]

(* A worker marks a run as lost only when its task is late.                *)
LateOnly == \A w \in Workers, r \in Runs : r \in lost[w] => Done(r)

Signpost ==
  /\ \A m \in Msgs : Sent(m)
  /\ \A h \in Deliveries : Valid(h) /\ Concluded(h) /\ Carrying(h)
  /\ LateOnly

LEMMA InitSignpost == Init => Signpost
<1> SUFFICES ASSUME Init PROVE Signpost
  OBVIOUS
<1>1. \A m \in Msgs : Sent(m)
  BY MsgRun DEF Init, RowInit, Sent
<1>2. \A h \in Deliveries : Valid(h) /\ Concluded(h) /\ Carrying(h)
  BY DEF Init, Valid, Concluded, Carrying, Task, TaskPcs
<1>3. LateOnly
  BY DEF Init, LateOnly
<1> QED BY <1>1, <1>2, <1>3 DEF Signpost

LEMMA OneMessage ==
  ASSUME OnlyAbandonedLapse, NEW m \in Msgs
  PROVE  m[1] \in Runs /\ m[2] = 1 /\ m = <<m[1], 1>>
BY DEF OnlyAbandonedLapse, Msgs

(* No two deliveries of a run.                                             *)
LEMMA OneDelivery ==
  ASSUME OnlyAbandonedLapse, Located, Signpost,
         NEW h \in Deliveries, NEW g \in Deliveries,
         pc[h] # "free", pc[g] # "free", run(h) = run(g)
  PROVE  h = g
<1>1. msg[h] \in Msgs /\ msg[g] \in Msgs
  BY DEF Located
<1>2. msg[h] = msg[g]
  BY <1>1, OneMessage DEF run
<1> QED BY <1>2 DEF Signpost, Valid

-----------------------------------------------------------------------------
(* What is done stays done, and what is there stays there.                 *)
DoneStays ==
  \A r \in Runs : /\ Done(r) => Done(r)'
                  /\ status[r] # "absent" => status'[r] # "absent"

LEMMA DoneSame == ASSUME UNCHANGED status PROVE DoneStays
BY DEF DoneStays, Done

LEMMA DoneWrite ==
  ASSUME RowTypeOK, NEW r \in Runs,
         \/ Insert(r) \/ RequestCancel(r) \/ SettleCancelled(r) \/ SettleExhausted(r)
         \/ \E w, f : \/ Claim(r, w) \/ PersistAwaiting(r, w, f) \/ ReleaseRow(r, w, f)
                      \/ \E why : \E s \in Terminal : Persist(r, w, f, s, why)
  PROVE  DoneStays
<1> USE DEF RowTypeOK, DoneStays, Done, Terminal
<1>1. CASE Insert(r) \/ RequestCancel(r)
  BY <1>1 DEF Insert, RequestCancel, CancelPending
<1>2. CASE SettleCancelled(r) \/ SettleExhausted(r)
  BY <1>2 DEF SettleCancelled, SettleExhausted, WriteTerminal
<1>3. ASSUME NEW w, NEW f, Claim(r, w) \/ PersistAwaiting(r, w, f) \/ ReleaseRow(r, w, f)
      PROVE  DoneStays
  BY <1>3 DEF Claim, Claimable, Startable, Takeover, PersistAwaiting, ReleaseRow, Owned
<1>4. ASSUME NEW w, NEW f, NEW s \in Terminal, NEW why, Persist(r, w, f, s, why) PROVE DoneStays
  BY <1>4 DEF Persist, WriteTerminal
<1> QED BY <1>1, <1>2, <1>3, <1>4

(* With one dispatch per run no answer is sent and no run is reopened.     *)
LEMMA ApiWrites ==
  ASSUME OnlyAbandonedLapse, Signpost, NEW m \in Msgs, Api(m) \/ Expire(m)
  PROVE  UNCHANGED rowVars \/ Insert(m[1])
<1>1. m[2] = 1
  BY OneMessage
<1>2. CASE Expire(m)
  BY <1>2 DEF Expire
<1>3. CASE Api(m)
  BY <1>1, <1>3 DEF Api, SendHalf, LocalTransaction, Report, ReportLost, BrokerCheck,
     RecoverRun, Redispatch, RedispatchFails
<1> QED BY <1>2, <1>3

LEMMA AcceptWrites ==
  ASSUME NEW h \in Deliveries, Accept(h)
  PROVE  \/ UNCHANGED rowVars \/ SettleCancelled(run(h)) \/ SettleExhausted(run(h))
         \/ Claim(run(h), at[h])
BY DEF Accept, Inspect, InspectFails, AcceptCancelled, AcceptExhausted,
       AcceptLapsed, Acquire, AcquireUnseen, AcceptFails, AcceptAck, AcceptAckLost

LEMMA ExecuteWrites ==
  ASSUME NEW h \in Deliveries, Execute(h)
  PROVE  UNCHANGED rowVars \/ WriteOutcome(h) \/ SettleOwn(h)
BY DEF Execute, Started, StartCancelled, Finish, FinishFails, FinishUnseen, Cancelled,
       Settled, SettledAlone, Closed, Unwound, CloseCancelled, Ack, AckLost

LEMMA AcceptActive == ASSUME NEW h \in Deliveries, Accept(h) PROVE pc[h] # "free" /\ ~Task(h)
BY DEF Accept, Inspect, InspectFails, MayAccept, AcceptCancelled, AcceptExhausted, AcceptLapsed,
       Acquire, AcquireUnseen, AcceptFails, AcceptAck, AcceptAckLost, AcceptPcs, TaskPcs, Task

LEMMA ExecuteActive == ASSUME NEW h \in Deliveries, Execute(h) PROVE pc[h] # "free" /\ Task(h)
BY DEF Execute, Started, StartCancelled, Finish, FinishFails, FinishUnseen, Cancelled,
       Settled, SettledAlone, Closed, Unwound, CloseCancelled, Ack, AckLost, Task, TaskPcs

LEMMA DoneStep ==
  ASSUME OnlyAbandonedLapse, TypeOK, Located, Signpost, [Next]_vars PROVE DoneStays
<1>1. ASSUME NEW m \in Msgs, Api(m) \/ Expire(m) PROVE DoneStays
  BY <1>1, ApiWrites, OneMessage, DoneSame, DoneWrite DEF rowVars, TypeOK
<1>2. ASSUME NEW r \in Runs, UserCancel(r) PROVE DoneStays
  BY <1>2, DoneWrite DEF UserCancel, TypeOK
<1>3. ASSUME NEW h \in Deliveries, NEW w \in Workers, NEW m \in Msgs, Pull(h, w, m)
      PROVE  DoneStays
  BY <1>3, DoneSame DEF Pull, rowVars
<1>4. ASSUME NEW h \in Deliveries, Accept(h) PROVE DoneStays
  BY <1>4, AcceptWrites, AcceptActive, DeliveryRun, DoneSame, DoneWrite DEF rowVars, TypeOK
<1>5. ASSUME NEW h \in Deliveries, Execute(h) PROVE DoneStays
  <2>1. run(h) \in Runs
    BY <1>5, ExecuteActive, DeliveryRun
  <2>2. CASE WriteOutcome(h) \/ SettleOwn(h)
    BY <2>1, <2>2, DoneWrite DEF WriteOutcome, SettleOwn, Terminal, TypeOK
  <2> QED BY <1>5, <2>2, ExecuteWrites, DoneSame DEF rowVars
<1>6. ASSUME NEW h \in Deliveries, LeaseCheck(h) \/ LeaseGiveUp(h) PROVE DoneStays
  BY <1>6, DoneSame DEF LeaseCheck, LeaseGiveUp, rowVars
<1>7. ASSUME NEW w \in Workers, Process(w) PROVE DoneStays
  BY <1>7, DoneSame DEF Process, BeginShutdown, Teardown, Stop, Crash, Restart, rowVars
<1>8. ASSUME NEW w \in Workers, NEW r \in Runs, CancelIfConfirmed(w, r) \/ ReleaseRun(w, r)
      PROVE  DoneStays
  <2>1. UNCHANGED status \/ ReleaseRow(r, w, handover[w][r])
    BY <1>8 DEF CancelIfConfirmed, ReleaseRun, rowVars
  <2> QED BY <2>1, DoneSame, DoneWrite DEF TypeOK
<1>9. CASE UNCHANGED vars
  BY <1>9, DoneSame DEF vars, rowVars
<1> QED BY <1>1, <1>2, <1>3, <1>4, <1>5, <1>6, <1>7, <1>8, <1>9 DEF Next

-----------------------------------------------------------------------------
(* THE COPIES.  Messages move by the API and the broker; a copy is handed  *)
(* out, acknowledged, or let go.                                           *)
LEMMA CopiesSame ==
  ASSUME Signpost, DoneStays, UNCHANGED <<mstate, op>>,
         \A m \in Msgs : status[m[1]] = "absent" => status'[m[1]] = "absent",
         \A h \in Deliveries : pc'[h] # "free" =>
            pc[h] # "free" /\ msg'[h] = msg[h] /\ latest'[msg[h]] = latest[msg[h]],
         Located
  PROVE  (\A m \in Msgs : Sent(m)') /\ (\A h \in Deliveries : Valid(h)')
<1>1. \A m \in Msgs : m[1] \in Runs
  BY MsgRun
<1>2. \A m \in Msgs : Sent(m)'
  BY <1>1 DEF Signpost, Sent, DoneStays
<1>3. \A h \in Deliveries : Valid(h)'
  BY DEF Signpost, Valid, Located
<1> QED BY <1>2, <1>3

(* Only the API brings a row into being.                                   *)
AbsentStays == \A r \in Runs : status[r] = "absent" => status'[r] = "absent"

LEMMA AbsentWrite ==
  ASSUME RowTypeOK, NEW r \in Runs,
         \/ RequestCancel(r) \/ SettleCancelled(r) \/ SettleExhausted(r)
         \/ \E w, f : \/ Claim(r, w) \/ PersistAwaiting(r, w, f) \/ ReleaseRow(r, w, f)
                      \/ \E why : \E s \in Terminal : Persist(r, w, f, s, why)
  PROVE  AbsentStays
<1> USE DEF RowTypeOK, AbsentStays
<1>1. CASE RequestCancel(r)
  BY <1>1 DEF RequestCancel, Outstanding
<1>2. CASE SettleCancelled(r) \/ SettleExhausted(r)
  BY <1>2 DEF SettleCancelled, CancelSettles, CancelPending, CancelRunning, SettleExhausted,
              ExhaustHits, Exhaustible, WriteTerminal
<1>3. ASSUME NEW w, NEW f, Claim(r, w) \/ PersistAwaiting(r, w, f) \/ ReleaseRow(r, w, f)
      PROVE  AbsentStays
  BY <1>3 DEF Claim, Claimable, Startable, Takeover, PersistAwaiting, ReleaseRow, Owned
<1>4. ASSUME NEW w, NEW f, NEW s \in Terminal, NEW why, Persist(r, w, f, s, why)
      PROVE  AbsentStays
  BY <1>4 DEF Persist, Owned, WriteTerminal
<1> QED BY <1>1, <1>2, <1>3, <1>4

LEMMA AbsentSame == ASSUME UNCHANGED status PROVE AbsentStays
BY DEF AbsentStays

Copies == (\A m \in Msgs : Sent(m)) /\ (\A h \in Deliveries : Valid(h))

(* Copies are let go, or stay where they are.                              *)
LEMMA CopiesKept ==
  ASSUME Located, Signpost, DoneStays, AbsentStays, UNCHANGED <<mstate, op>>,
         \A h \in Deliveries : pc'[h] # "free" =>
            pc[h] # "free" /\ msg'[h] = msg[h] /\ latest'[msg[h]] = latest[msg[h]]
  PROVE  Copies'
<1>1. \A m \in Msgs : m[1] \in Runs
  BY MsgRun
<1>2. \A m \in Msgs : status[m[1]] = "absent" => status'[m[1]] = "absent"
  BY <1>1 DEF AbsentStays
<1> QED BY <1>2, CopiesSame DEF Copies

LEMMA CopiesVanish ==
  ASSUME BrokerTypeOK, Located, Signpost, DoneStays, AbsentStays, UNCHANGED <<mstate, op>>,
         NEW H, Vanish(H)
  PROVE  Copies'
<1>1. \A h \in Deliveries : pc'[h] # "free" => pc[h] # "free" /\ h \notin H /\ msg'[h] = msg[h]
  BY DEF Vanish
<1>2. \A h \in Deliveries : pc'[h] # "free" => msg[h] \in Msgs /\ latest[msg[h]] = h
  BY <1>1 DEF Located, Signpost, Valid
<1>3. \A m \in Msgs : latest[m] \notin H => latest'[m] = latest[m]
  BY DEF Vanish
<1> QED BY <1>1, <1>2, <1>3, CopiesKept

LEMMA CopiesAcked ==
  ASSUME OnlyAbandonedLapse, TypeOK, Located, Signpost, DoneStays, UNCHANGED status,
         NEW h \in Deliveries, pc[h] # "free", Done(run(h)), Acknowledge(h)
  PROVE  Copies'
<1>1. msg[h] \in Msgs /\ mstate[msg[h]] = "leased" /\ latest[msg[h]] = h
  BY DEF Located, Signpost, Valid
<1>2. /\ mstate' = [mstate EXCEPT ![msg[h]] = "acked"] /\ UNCHANGED op
      /\ Vanish({h})
  BY <1>1 DEF Acknowledge, Fresh
<1>3. \A m \in Msgs : Sent(m)'
  <2> SUFFICES ASSUME NEW m \in Msgs PROVE Sent(m)'
    OBVIOUS
  <2>1. CASE m = msg[h]
    <3>1. mstate'[m] = "acked" /\ op'[m] = op[m] /\ mstate[m] = "leased" /\ Sent(m) /\ Done(m[1])'
      BY <1>1, <1>2, <2>1 DEF Signpost, TypeOK, BrokerTypeOK, run, Done
    <3> QED BY <3>1 DEF Sent
  <2>2. CASE m # msg[h]
    <3>1. mstate'[m] = mstate[m] /\ op'[m] = op[m] /\ Sent(m)
      BY <1>2, <2>2 DEF Signpost, TypeOK, BrokerTypeOK
    <3> QED BY <3>1 DEF Sent, Done
  <2> QED BY <2>1, <2>2
<1>4. \A g \in Deliveries : Valid(g)'
  <2> SUFFICES ASSUME NEW g \in Deliveries, pc'[g] # "free"
               PROVE  mstate'[msg'[g]] = "leased" /\ latest'[msg'[g]] = g
    BY DEF Valid
  <2>1. g # h /\ pc[g] # "free" /\ msg'[g] = msg[g]
    BY <1>2 DEF Vanish
  <2>2. msg[g] \in Msgs /\ mstate[msg[g]] = "leased" /\ latest[msg[g]] = g
    BY <2>1 DEF Located, Signpost, Valid
  <2>3. msg[g] # msg[h]
    BY <1>1, <2>1, <2>2
  <2> QED BY <1>2, <2>1, <2>2, <2>3 DEF Vanish, TypeOK, BrokerTypeOK
<1> QED BY <1>3, <1>4 DEF Copies

LEMMA CopiesApi ==
  ASSUME OnlyAbandonedLapse, TypeOK, Located, Signpost, DoneStays,
         NEW m \in Msgs, Api(m) \/ Expire(m)
  PROVE  Copies'
<1> USE DEF TypeOK
<1>1. m[1] \in Runs /\ m[2] = 1 /\ m = <<m[1], 1>> /\ \A n \in Msgs \ {m} : n[1] # m[1]
  <2>1. \A n \in Msgs : n[1] \in Runs /\ n = <<n[1], 1>>
    BY OneMessage
  <2> QED BY <2>1, OneMessage
<1>2. /\ \A n \in Msgs \ {m} : mstate'[n] = mstate[n] /\ op'[n] = op[n]
      /\ \A n \in Msgs \ {m} : status'[n[1]] = status[n[1]]
      /\ UNCHANGED <<pc, msg>>
      /\ \A n \in Msgs \ {m} : latest'[n] = latest[n]
  <2>1. \A n \in Msgs \ {m} : mstate'[n] = mstate[n] /\ op'[n] = op[n] /\ latest'[n] = latest[n]
    BY DEF Api, SendHalf, LocalTransaction, Report, ReportLost, BrokerCheck, RecoverRun,
       Redispatch, RedispatchFails, Expire, BrokerTypeOK
  <2>2. UNCHANGED status \/ Insert(m[1])
    BY ApiWrites DEF rowVars
  <2>3. \A n \in Msgs \ {m} : status'[n[1]] = status[n[1]]
    <3>1. CASE Insert(m[1])
      <4>1. status' = [status EXCEPT ![m[1]] = "queued"]
        BY <3>1 DEF Insert
      <4>2. \A r \in Runs \ {m[1]} : status'[r] = status[r]
        BY <4>1 DEF RowTypeOK
      <4>3. \A n \in Msgs \ {m} : n[1] \in Runs
        BY MsgRun
      <4> QED BY <1>1, <4>2, <4>3
    <3> QED BY <2>2, <3>1
  <2>4. UNCHANGED <<pc, msg>>
    BY DEF Api, SendHalf, LocalTransaction, Report, ReportLost, BrokerCheck, RecoverRun,
       Redispatch, RedispatchFails, Expire, deliveryVars
  <2> QED BY <2>1, <2>3, <2>4
<1>3. \A n \in Msgs \ {m} : Sent(n)'
  BY <1>2 DEF Signpost, Sent, Done
<1>4. Sent(m) /\ Sent(m)' /\ (mstate[m] = "leased" => UNCHANGED <<mstate, latest>> \/ latest[m] = NoDelivery)
  <2>1. Sent(m)
    BY DEF Signpost
  <2>2. CASE SendHalf(m)
    BY <1>1, <2>1, <2>2 DEF SendHalf, NextMsg, Sent, BrokerTypeOK, rowVars
  <2>3. CASE LocalTransaction(m)
    <3>1. /\ Insert(m[1]) /\ op[m] = "sent" /\ op' = [op EXCEPT ![m] = "applied"]
          /\ UNCHANGED <<mstate, latest>>
      BY <1>1, <2>3 DEF LocalTransaction
    <3>2. status'[m[1]] = "queued"
      BY <1>1, <3>1 DEF Insert, RowTypeOK
    <3> QED BY <2>1, <3>1, <3>2 DEF Sent, BrokerTypeOK
  <2>4. CASE Report(m) \/ ReportLost(m)
    BY <1>1, <2>1, <2>4 DEF Report, ReportLost, Sent, BrokerTypeOK, rowVars, Done
  <2>5. CASE BrokerCheck(m)
    <3>1. op[m] = "done" /\ mstate[m] = "half" /\ UNCHANGED <<op, status>>
      BY <2>5 DEF BrokerCheck, OnlyAbandonedLapse, rowVars
    <3>2. mstate'[m] = IF status[m[1]] # "absent" THEN "ready" ELSE "void"
      BY <2>5 DEF BrokerCheck, BrokerTypeOK
    <3> QED BY <2>1, <3>1, <3>2 DEF Sent
  <2>6. CASE RecoverRun(m) \/ Redispatch(m) \/ RedispatchFails(m)
    BY <1>1, <2>1, <2>6 DEF RecoverRun, Redispatch, RedispatchFails, Sent
  <2>7. CASE Expire(m)
    <3>1. mstate[m] = "leased" /\ latest[m] = NoDelivery
      BY <2>7 DEF Expire, Fault, OnlyAbandonedLapse
    <3>2. mstate'[m] = "ready" /\ UNCHANGED <<op, status>>
      BY <2>7 DEF Expire, BrokerTypeOK, rowVars
    <3> QED BY <2>1, <3>1, <3>2 DEF Sent
  <2> QED BY <2>1, <2>2, <2>3, <2>4, <2>5, <2>6, <2>7 DEF Api
<1>5. \A h \in Deliveries : Valid(h)'
  <2> SUFFICES ASSUME NEW h \in Deliveries, pc'[h] # "free"
               PROVE  mstate'[msg'[h]] = "leased" /\ latest'[msg'[h]] = h
    BY DEF Valid
  <2>1. /\ msg'[h] = msg[h] /\ msg[h] \in Msgs
        /\ mstate[msg[h]] = "leased" /\ latest[msg[h]] = h /\ h # NoDelivery
    BY <1>2, NullsAssumption DEF Located, Signpost, Valid
  <2>2. CASE msg[h] = m
    BY <1>4, <2>1, <2>2
  <2>3. CASE msg[h] # m
    BY <1>2, <2>1, <2>3
  <2> QED BY <2>2, <2>3
<1> QED BY <1>3, <1>4, <1>5 DEF Copies

LEMMA CopiesStep ==
  ASSUME OnlyAbandonedLapse, TypeOK, Located, Signpost, [Next]_vars PROVE Copies'
<1> USE DEF TypeOK
<1>1. DoneStays
  BY DoneStep
<1>2. ASSUME NEW r \in Runs, UserCancel(r) PROVE Copies'
  BY <1>1, <1>2, CopiesKept, AbsentWrite DEF UserCancel, brokerVars, deliveryVars
<1>3. ASSUME NEW h \in Deliveries, NEW w \in Workers, NEW m \in Msgs, Pull(h, w, m) PROVE Copies'
  <2>1. /\ mstate' = [mstate EXCEPT ![m] = "leased"] /\ mstate[m] = "ready" /\ pc[h] = "free"
        /\ latest' = [latest EXCEPT ![m] = h] /\ msg' = [msg EXCEPT ![h] = m]
        /\ pc' = [pc EXCEPT ![h] = "prefetched"] /\ UNCHANGED <<op, status>>
    BY <1>3 DEF Pull, rowVars
  <2>2. \A n \in Msgs : Sent(n)'
    <3>1. Sent(m) /\ mstate'[m] = "leased" /\ UNCHANGED <<op, status>>
      BY <2>1 DEF Signpost, BrokerTypeOK
    <3>2. Sent(m)'
      BY <2>1, <3>1 DEF Sent
    <3>3. \A n \in Msgs \ {m} : Sent(n) /\ mstate'[n] = mstate[n]
      BY <2>1 DEF Signpost, BrokerTypeOK
    <3> QED BY <3>1, <3>2, <3>3 DEF Sent, Done
  <2>3. \A g \in Deliveries : Valid(g)'
    <3>1. ASSUME NEW g \in Deliveries, g # h, pc'[g] # "free"
          PROVE  mstate'[msg'[g]] = "leased" /\ latest'[msg'[g]] = g
      <4>1. pc[g] # "free" /\ msg'[g] = msg[g] /\ msg[g] \in Msgs
        BY <2>1, <3>1 DEF Located
      <4>2. mstate[msg[g]] = "leased" /\ latest[msg[g]] = g
        BY <4>1 DEF Signpost, Valid
      <4> QED BY <2>1, <4>1, <4>2 DEF BrokerTypeOK
    <3>2. mstate'[msg'[h]] = "leased" /\ latest'[msg'[h]] = h
      BY <2>1 DEF BrokerTypeOK, DeliveryTypeOK
    <3> QED BY <3>1, <3>2 DEF Valid
  <2> QED BY <2>2, <2>3 DEF Copies
<1>4. ASSUME NEW h \in Deliveries, NEW p, p # "free", pc[h] # "free", AbsentStays,
             pc' = [pc EXCEPT ![h] = p], UNCHANGED <<msg, brokerVars>>
      PROVE  Copies'
  BY <1>1, <1>4, CopiesKept DEF brokerVars
<1>5. ASSUME NEW h \in Deliveries, AbsentStays, Drop(h) PROVE Copies'
  BY <1>1, <1>5, CopiesVanish DEF Drop
<1>6. ASSUME NEW h \in Deliveries, Accept(h) PROVE Copies'
  <2>1. pc[h] # "free" /\ run(h) \in Runs
    BY <1>6, AcceptActive, DeliveryRun
  <2>2. AbsentStays
    BY <1>6, <2>1, AcceptWrites, AbsentWrite, AbsentSame DEF rowVars
  <2>3. CASE AcceptAck(h)
    BY <1>1, <2>1, <2>3, CopiesAcked DEF AcceptAck, Signpost, Concluded, rowVars
  <2>4. CASE ~AcceptAck(h)
    <3>1. Drop(h) \/ \E p \in AcceptPcs \cup TaskPcs :
             pc' = [pc EXCEPT ![h] = p] /\ UNCHANGED <<msg, brokerVars>>
      BY <1>6, <2>4 DEF Accept, Inspect, InspectFails, AcceptCancelled, AcceptExhausted,
         AcceptLapsed, Acquire, AcquireUnseen, AcceptFails, AcceptAckLost, Goto, Verdict,
         AcceptPcs, TaskPcs, brokerVars
    <3> QED BY <1>4, <1>5, <2>1, <2>2, <3>1 DEF AcceptPcs, TaskPcs
  <2> QED BY <2>3, <2>4
<1>7. ASSUME NEW h \in Deliveries, Execute(h) PROVE Copies'
  <2>1. pc[h] # "free" /\ run(h) \in Runs
    BY <1>7, ExecuteActive, DeliveryRun
  <2>2. AbsentStays
    <3>1. CASE WriteOutcome(h) \/ SettleOwn(h)
      BY <2>1, <3>1, AbsentWrite DEF WriteOutcome, SettleOwn, Terminal
    <3> QED BY <1>7, <3>1, ExecuteWrites, AbsentSame DEF rowVars
  <2>3. CASE Ack(h)
    BY <1>1, <2>1, <2>3, CopiesAcked DEF Ack, Signpost, Concluded, rowVars
  <2>4. CASE FinishUnseen(h)
    BY <1>1, <2>2, <2>4, CopiesKept DEF FinishUnseen, brokerVars, deliveryVars
  <2>5. CASE ~Ack(h) /\ ~FinishUnseen(h)
    <3>1. Drop(h) \/ \E p \in TaskPcs : pc' = [pc EXCEPT ![h] = p] /\ UNCHANGED <<msg, brokerVars>>
      BY <1>7, <2>5 DEF Execute, Started, StartCancelled, Finish, FinishFails, Cancelled,
         Settled, SettledAlone, Closed, Unwound, CloseCancelled, AckLost, Goto, TaskPcs, brokerVars
    <3> QED BY <1>4, <1>5, <2>1, <2>2, <3>1 DEF TaskPcs
  <2> QED BY <2>3, <2>4, <2>5
<1>8. ASSUME NEW h \in Deliveries, LeaseCheck(h) \/ LeaseGiveUp(h) PROVE Copies'
  BY <1>1, <1>8, CopiesKept, AbsentSame DEF LeaseCheck, LeaseGiveUp, rowVars, brokerVars
<1>9. ASSUME NEW w \in Workers, Process(w) PROVE Copies'
  <2>1. AbsentStays
    BY <1>9, AbsentSame DEF Process, BeginShutdown, Teardown, Stop, Crash, Restart, rowVars
  <2>2. CASE BeginShutdown(w) \/ Crash(w)
    <3>1. PICK H : Vanish(H) /\ UNCHANGED <<mstate, op>>
      BY <2>2 DEF BeginShutdown, Crash
    <3> QED BY <1>1, <2>1, <3>1, CopiesVanish
  <2>3. CASE Teardown(w) \/ Stop(w) \/ Restart(w)
    BY <1>1, <2>1, <2>3, CopiesKept DEF Teardown, Stop, Restart, brokerVars, deliveryVars
  <2> QED BY <1>9, <2>2, <2>3 DEF Process
<1>10. ASSUME NEW w \in Workers, NEW r \in Runs, CancelIfConfirmed(w, r) \/ ReleaseRun(w, r)
       PROVE  Copies'
  <2>1. UNCHANGED rowVars \/ ReleaseRow(r, w, handover[w][r])
    BY <1>10 DEF CancelIfConfirmed, ReleaseRun
  <2>2. AbsentStays
    BY <2>1, AbsentSame, AbsentWrite DEF rowVars
  <2> QED BY <1>1, <1>10, <2>2, CopiesKept DEF CancelIfConfirmed, ReleaseRun, brokerVars, deliveryVars
<1>11. CASE UNCHANGED vars
  BY <1>1, <1>11, CopiesKept, AbsentSame DEF vars, rowVars, brokerVars, deliveryVars
<1> QED BY <1>1, <1>2, <1>3, <1>6, <1>7, <1>8, <1>9, <1>10, <1>11, CopiesApi DEF Next

(* A step that leaves a delivery and the row of its run alone, or ends it. *)
LEMMA OnItsWay ==
  ASSUME Signpost, NEW g \in Deliveries,
         \/ pc'[g] = "free"
         \/ /\ pc'[g] = pc[g] /\ msg'[g] = msg[g] /\ at'[g] = at[g] /\ token'[g] = token[g]
            /\ pc[g] # "free" => /\ status'[run(g)] = status[run(g)]
                                 /\ owner'[run(g)] = owner[run(g)]
                                 /\ fence'[run(g)] = fence[run(g)]
  PROVE  Concluded(g)' /\ Carrying(g)'
<1>1. CASE pc'[g] = "free"
  BY <1>1 DEF Concluded, Carrying, Task, TaskPcs
<1>2. CASE pc'[g] # "free"
  <2>1. run(g)' = run(g) /\ pc'[g] = pc[g] /\ Concluded(g) /\ Carrying(g)
    BY <1>2 DEF Signpost, run
  <2>2. Concluded(g)'
    BY <1>2, <2>1 DEF Concluded, Done
  <2>3. Carrying(g)'
    BY <1>2, <2>1 DEF Carrying, Done, Task
  <2> QED BY <2>2, <2>3
<1> QED BY <1>1, <1>2

(* A write of one row leaves the others alone.                             *)
LEMMA OtherRows ==
  ASSUME RowTypeOK, NEW r \in Runs, NEW q \in Runs \ {r},
         \/ Insert(r) \/ RequestCancel(r) \/ SettleCancelled(r) \/ SettleExhausted(r)
         \/ \E w, f : \/ Claim(r, w) \/ PersistAwaiting(r, w, f) \/ ReleaseRow(r, w, f)
                      \/ \E why : \E s \in Terminal : Persist(r, w, f, s, why)
         \/ UNCHANGED rowVars
  PROVE  status'[q] = status[q] /\ owner'[q] = owner[q] /\ fence'[q] = fence[q]
BY DEF Insert, RequestCancel, SettleCancelled, SettleExhausted, Claim, PersistAwaiting, ReleaseRow,
       Persist, WriteTerminal, RowTypeOK, rowVars

(* A step of one delivery leaves those of other runs alone.                *)
LEMMA OtherDeliveries ==
  ASSUME OnlyAbandonedLapse, TypeOK, Located, Signpost,
         NEW h \in Deliveries, NEW g \in Deliveries \ {h}, pc[h] # "free",
         \/ pc'[g] = "free"
         \/ pc'[g] = pc[g] /\ msg'[g] = msg[g] /\ at'[g] = at[g] /\ token'[g] = token[g],
         \/ SettleCancelled(run(h)) \/ SettleExhausted(run(h)) \/ Claim(run(h), at[h])
         \/ WriteOutcome(h) \/ SettleOwn(h) \/ UNCHANGED rowVars
  PROVE  Concluded(g)' /\ Carrying(g)'
<1>1. run(h) \in Runs
  BY DeliveryRun
<1>2. ASSUME pc[g] # "free"
      PROVE  /\ status'[run(g)] = status[run(g)] /\ owner'[run(g)] = owner[run(g)]
             /\ fence'[run(g)] = fence[run(g)]
  <2>1. run(g) \in Runs \ {run(h)}
    BY <1>2, OneDelivery, DeliveryRun
  <2>2. CASE WriteOutcome(h) \/ SettleOwn(h)
    BY <1>1, <2>1, <2>2, OtherRows DEF WriteOutcome, SettleOwn, Terminal, TypeOK
  <2> QED BY <1>1, <2>1, <2>2, OtherRows DEF TypeOK
<1> QED BY <1>2, OnItsWay

Ways == \A h \in Deliveries : Concluded(h) /\ Carrying(h)

LEMMA AcceptWays ==
  ASSUME OnlyAbandonedLapse, TypeOK, Located, Signpost, DoneStays,
         NEW h \in Deliveries, Accept(h)
  PROVE  Ways'
<1> USE DEF TypeOK
<1>1. pc[h] # "free" /\ ~Task(h) /\ run(h) \in Runs /\ at[h] \in Workers
  BY AcceptActive, DeliveryRun
<1>2. \/ Drop(h) \/ Acknowledge(h)
      \/ \E p : pc' = [pc EXCEPT ![h] = p] /\ UNCHANGED <<at, msg>>
                /\ (UNCHANGED token \/ \E f : token' = [token EXCEPT ![h] = f])
  BY DEF Accept, Inspect, InspectFails, AcceptCancelled, AcceptExhausted,
         AcceptLapsed, Acquire, AcquireUnseen, AcceptFails, AcceptAck, AcceptAckLost, Goto
<1>3. \A g \in Deliveries \ {h} :
         \/ pc'[g] = "free"
         \/ pc'[g] = pc[g] /\ msg'[g] = msg[g] /\ at'[g] = at[g] /\ token'[g] = token[g]
  BY <1>2 DEF Drop, Acknowledge, Vanish, DeliveryTypeOK
<1>4. \A g \in Deliveries \ {h} : Concluded(g)' /\ Carrying(g)'
  BY <1>1, <1>3, AcceptWrites, OtherDeliveries
<1>5. Concluded(h)' /\ Carrying(h)'
  <2>1. CASE Drop(h) \/ Acknowledge(h)
    BY <2>1, OnItsWay DEF Drop, Acknowledge, Vanish
  <2>2. ASSUME NEW p \in {"cancelling", "exhausting", "lapsing", "acquiring"},
               pc' = [pc EXCEPT ![h] = p]
        PROVE  Concluded(h)' /\ Carrying(h)'
    BY <2>2 DEF Concluded, Carrying, Task, TaskPcs, DeliveryTypeOK
  <2>3. ASSUME Goto(h, "settled"), Done(run(h)) \/ Done(run(h))'
        PROVE  Concluded(h)' /\ Carrying(h)'
    <3>1. pc'[h] = "settled" /\ run(h)' = run(h)
      BY <2>3 DEF Goto, run, DeliveryTypeOK
    <3>2. Done(run(h))'
      BY <1>1, <2>3, <3>1 DEF DoneStays, Done
    <3> QED BY <3>1, <3>2 DEF Concluded, Carrying, Task, TaskPcs
  <2>4. CASE Inspect(h)
    <3>1. Goto(h, Verdict(h))
      BY <2>4 DEF Inspect
    <3>2. status[run(h)] # "absent"
      <4>1. msg[h] \in Msgs /\ mstate[msg[h]] = "leased" /\ Sent(msg[h])
        BY <1>1 DEF Located, Signpost, Valid
      <4> QED BY <4>1 DEF Sent, run
    <3>3. \/ Verdict(h) \in {"cancelling", "exhausting", "lapsing", "acquiring"}
          \/ Verdict(h) = "settled" /\ Done(run(h))
      BY <3>2 DEF Verdict, Done
    <3> QED BY <2>2, <2>3, <3>1, <3>3 DEF Goto
  <2>5. CASE SettleCancelled(run(h)) /\ Goto(h, "settled")
    <3>1. status'[run(h)] = "cancelled" /\ run(h)' = run(h)
      BY <1>1, <2>5 DEF SettleCancelled, WriteTerminal, RowTypeOK, Goto, run
    <3> QED BY <2>3, <2>5, <3>1 DEF Done, Terminal
  <2>6. CASE SettleExhausted(run(h)) /\ Goto(h, "settled")
    <3>1. status'[run(h)] = "failed" /\ run(h)' = run(h)
      BY <1>1, <2>6 DEF SettleExhausted, WriteTerminal, RowTypeOK, Goto, run
    <3> QED BY <2>3, <2>6, <3>1 DEF Done, Terminal
  <2>7. CASE Takes(h)
    <3>1. /\ run(h)' = run(h) /\ at'[h] = at[h]
          /\ pc'[h] \in {"starting", "executing"} /\ token'[h] = fence'[run(h)]
      BY <2>7 DEF Takes, DeliveryTypeOK, run
    <3>2. status'[run(h)] = "running" /\ owner'[run(h)] = at[h]
      BY <1>1, <2>7 DEF Takes, Claim, RowTypeOK
    <3> QED BY <3>1, <3>2 DEF Concluded, Carrying, Done
  <2>8. CASE AcceptCancelled(h) \/ AcceptExhausted(h) \/ AcceptLapsed(h)
    BY <2>1, <2>2, <2>5, <2>6, <2>8 DEF AcceptCancelled, AcceptExhausted, AcceptLapsed, Goto
  <2>9. CASE Acquire(h)
    BY <2>1, <2>7, <2>9 DEF Acquire, Takes
  <2>10. CASE InspectFails(h) \/ AcquireUnseen(h) \/ AcceptFails(h) \/ AcceptAck(h) \/ AcceptAckLost(h)
    BY <2>1, <2>10 DEF InspectFails, AcquireUnseen, AcceptFails, AcceptAck, AcceptAckLost
  <2> QED BY <2>4, <2>8, <2>9, <2>10 DEF Accept
<1> QED BY <1>4, <1>5 DEF Ways

LEMMA ExecuteWays ==
  ASSUME OnlyAbandonedLapse, TypeOK, Located, Signpost, DoneStays,
         NEW h \in Deliveries, Execute(h)
  PROVE  Ways'
<1> USE DEF TypeOK
<1>1. pc[h] # "free" /\ Task(h) /\ run(h) \in Runs /\ at[h] \in Workers
  BY ExecuteActive, DeliveryRun
<1>2. Concluded(h) /\ Carrying(h) /\ LateOnly
  BY DEF Signpost
<1>3. \/ Drop(h) \/ Acknowledge(h)
      \/ /\ \E p \in TaskPcs : pc' = [pc EXCEPT ![h] = p]
         /\ UNCHANGED <<at, msg, token>>
  <2>1. FinishUnseen(h) => pc' = [pc EXCEPT ![h] = "executing"]
    BY DEF FinishUnseen, deliveryVars, DeliveryTypeOK
  <2>2. CASE FinishUnseen(h)
    BY <2>1, <2>2 DEF FinishUnseen, deliveryVars, TaskPcs
  <2> QED BY <2>2 DEF Execute, Started, StartCancelled, Finish, FinishFails, Cancelled,
        Settled, SettledAlone, Closed, Unwound, CloseCancelled, Ack, AckLost, Goto, TaskPcs
<1>4. \A g \in Deliveries \ {h} :
         \/ pc'[g] = "free"
         \/ pc'[g] = pc[g] /\ msg'[g] = msg[g] /\ at'[g] = at[g] /\ token'[g] = token[g]
  BY <1>3 DEF Drop, Acknowledge, Vanish, DeliveryTypeOK
<1>5. \A g \in Deliveries \ {h} : Concluded(g)' /\ Carrying(g)'
  BY <1>1, <1>4, ExecuteWrites, OtherDeliveries
<1>6. fence' = fence
  BY ExecuteWrites DEF WriteOutcome, SettleOwn, Persist, PersistAwaiting, WriteTerminal, rowVars
<1>7. ASSUME Done(run(h)) \/ Done(run(h))' \/ pc'[h] = "unwinding"
             \/ (pc'[h] = "executing" /\ UNCHANGED rowVars /\ pc[h] = "starting")
             \/ (pc'[h] = "settling" /\ UNCHANGED rowVars /\ pc[h] = "executing"),
             UNCHANGED <<at, msg, token>>
      PROVE  Concluded(h)' /\ Carrying(h)'
  <2>1. run(h)' = run(h)
    BY <1>7 DEF run
  <2>2. Done(run(h)) => Done(run(h))'
    BY <1>1, <2>1 DEF DoneStays, Done
  <2> QED BY <1>1, <1>2, <1>6, <1>7, <2>1, <2>2 DEF Concluded, Carrying, Done, rowVars
<1>8. Concluded(h)' /\ Carrying(h)'
  <2>1. CASE Drop(h) \/ Acknowledge(h)
    BY <2>1, OnItsWay DEF Drop, Acknowledge, Vanish
  <2>2. CASE WriteOutcome(h) /\ UNCHANGED <<at, msg, token>>
    <3>1. Done(run(h))'
      <4>1. \E s \in Terminal \cup {"awaiting_input"} : status' = [status EXCEPT ![run(h)] = s]
        BY <2>2 DEF WriteOutcome, Persist, PersistAwaiting, WriteTerminal, Terminal
      <4> QED BY <1>1, <2>2, <4>1 DEF Done, RowTypeOK, run
    <3> QED BY <1>7, <2>2, <3>1
  <2>3. CASE SettleOwn(h) /\ UNCHANGED <<at, msg, token>>
    <3>1. Done(run(h))'
      <4>1. status' = [status EXCEPT ![run(h)] = "cancelled"]
        BY <2>3 DEF SettleOwn, Persist, WriteTerminal
      <4> QED BY <1>1, <2>3, <4>1 DEF Done, RowTypeOK, run, Terminal
    <3> QED BY <1>7, <2>3, <3>1
  <2>4. CASE Started(h)
    BY <1>7, <2>4 DEF Started, Goto, DeliveryTypeOK
  <2>5. pc[h] \in {"starting", "executing", "settling"} /\ ~Owned(run(h), at[h], token[h])
          => Done(run(h))
    BY <1>1, <1>2 DEF Carrying, Owned
  <2>6. CASE Finish(h) \/ Settled(h)
    BY <1>7, <2>2, <2>3, <2>5, <2>6 DEF Finish, Settled, Goto
  <2>7. CASE FinishUnseen(h)
    BY <2>2, <2>7 DEF FinishUnseen, deliveryVars
  <2>8. CASE FinishFails(h)
    BY <1>7, <2>8 DEF FinishFails, Goto, DeliveryTypeOK
  <2>9. CASE SettledAlone(h)
    BY <1>7, <2>9 DEF SettledAlone, DeliveryTypeOK
  <2>10. CASE Cancelled(h)
    <3>1. \/ pc'[h] = "unwinding" \/ pc'[h] = "settling"
          \/ pc'[h] = "closing" /\ run(h) \in lost[at[h]]
      BY <2>10 DEF Cancelled, DeliveryTypeOK
    <3>2. run(h) \in lost[at[h]] => Done(run(h))
      BY <1>1, <1>2 DEF LateOnly
    <3> QED BY <1>7, <2>10, <3>1, <3>2 DEF Cancelled
  <2>11. CASE Closed(h)
    BY <1>2, <1>7, <2>11 DEF Closed, Concluded
  <2>12. CASE StartCancelled(h) \/ Unwound(h) \/ CloseCancelled(h) \/ Ack(h) \/ AckLost(h)
    BY <2>1, <2>12 DEF StartCancelled, Unwound, CloseCancelled, Ack, AckLost
  <2> QED BY <2>4, <2>6, <2>7, <2>8, <2>9, <2>10, <2>11, <2>12 DEF Execute
<1> QED BY <1>5, <1>8 DEF Ways

LEMMA WaysStep ==
  ASSUME OnlyAbandonedLapse, TypeOK, Located, Signpost, [Next]_vars PROVE Ways'
<1> USE DEF TypeOK
<1>1. DoneStays
  BY DoneStep
<1>2. ASSUME UNCHANGED rowVars,
             \A g \in Deliveries : \/ pc'[g] = "free"
                                   \/ /\ pc'[g] = pc[g] /\ msg'[g] = msg[g]
                                      /\ at'[g] = at[g] /\ token'[g] = token[g]
      PROVE  Ways'
  BY <1>2, OnItsWay DEF Ways, rowVars
<1>3. ASSUME NEW r \in Runs, UNCHANGED <<pc, at, msg, token>>,
             \A q \in Runs \ {r} : /\ status'[q] = status[q] /\ owner'[q] = owner[q]
                                   /\ fence'[q] = fence[q],
             \A g \in Deliveries : pc[g] # "free" /\ run(g) = r => Concluded(g)' /\ Carrying(g)'
      PROVE  Ways'
  <2> SUFFICES ASSUME NEW g \in Deliveries PROVE Concluded(g)' /\ Carrying(g)'
    BY DEF Ways
  <2>1. CASE pc[g] # "free" /\ run(g) = r
    BY <1>3, <2>1
  <2>2. CASE ~(pc[g] # "free" /\ run(g) = r)
    <3>1. pc[g] # "free" => run(g) \in Runs \ {r}
      BY <2>2, DeliveryRun
    <3> QED BY <1>3, <3>1, OnItsWay
  <2> QED BY <2>1, <2>2
<1>4. ASSUME NEW m \in Msgs, Api(m) \/ Expire(m) PROVE Ways'
  <2>1. UNCHANGED <<pc, at, msg, token>> /\ m[1] \in Runs
    BY <1>4, MsgRun DEF Api, SendHalf, LocalTransaction, Report, ReportLost, BrokerCheck,
       RecoverRun, Redispatch, RedispatchFails, Expire, deliveryVars
  <2>2. CASE UNCHANGED rowVars
    BY <1>2, <2>1, <2>2
  <2>3. CASE Insert(m[1])
    <3>1. status[m[1]] = "absent" /\ UNCHANGED <<owner, fence>>
      BY <2>3 DEF Insert
    <3>2. \A g \in Deliveries : pc[g] # "free" => run(g) # m[1]
      <4> SUFFICES ASSUME NEW g \in Deliveries, pc[g] # "free" PROVE status[run(g)] # "absent"
        BY <3>1
      <4>1. msg[g] \in Msgs /\ mstate[msg[g]] = "leased" /\ Sent(msg[g])
        BY DEF Located, Signpost, Valid
      <4> QED BY <4>1 DEF Sent, run
    <3>3. \A q \in Runs \ {m[1]} : status'[q] = status[q] /\ owner'[q] = owner[q] /\ fence'[q] = fence[q]
      BY <2>1, <2>3, OtherRows
    <3> QED BY <1>3, <2>1, <3>2, <3>3
  <2> QED BY <1>4, <2>2, <2>3, ApiWrites
<1>5. ASSUME NEW r \in Runs, UserCancel(r) PROVE Ways'
  <2>1. RequestCancel(r) /\ UNCHANGED <<pc, at, msg, token>>
    BY <1>5 DEF UserCancel, deliveryVars
  <2>2. \A q \in Runs \ {r} : status'[q] = status[q] /\ owner'[q] = owner[q] /\ fence'[q] = fence[q]
    BY <2>1, OtherRows
  <2>3. ASSUME NEW g \in Deliveries, pc[g] # "free", run(g) = r
        PROVE  Concluded(g)' /\ Carrying(g)'
    <3>1. run(g)' = r /\ Concluded(g) /\ Carrying(g)
      BY <2>1, <2>3 DEF Signpost, run
    <3>2. \/ status'[r] = "cancelled"
          \/ status[r] = "running" /\ status'[r] = status[r] /\ owner'[r] = owner[r]
      BY <2>1 DEF RequestCancel, CancelPending, Outstanding, RowTypeOK
    <3>3. fence' = fence
      BY <2>1 DEF RequestCancel
    <3> QED BY <2>1, <2>3, <3>1, <3>2, <3>3 DEF Concluded, Carrying, Done, Terminal, Task
  <2> QED BY <1>3, <2>1, <2>2, <2>3
<1>6. ASSUME NEW h \in Deliveries, NEW w \in Workers, NEW m \in Msgs, Pull(h, w, m) PROVE Ways'
  <2>1. /\ UNCHANGED rowVars /\ pc'[h] = "prefetched"
        /\ \A g \in Deliveries \ {h} :
              pc'[g] = pc[g] /\ msg'[g] = msg[g] /\ at'[g] = at[g] /\ token'[g] = token[g]
    BY <1>6 DEF Pull, DeliveryTypeOK
  <2>2. Concluded(h)' /\ Carrying(h)'
    BY <2>1 DEF Concluded, Carrying, Task, TaskPcs
  <2>3. \A g \in Deliveries \ {h} : Concluded(g)' /\ Carrying(g)'
    BY <2>1, OnItsWay DEF rowVars
  <2> QED BY <2>2, <2>3 DEF Ways
<1>7. ASSUME NEW h \in Deliveries, LeaseCheck(h) \/ LeaseGiveUp(h) PROVE Ways'
  BY <1>2, <1>7 DEF LeaseCheck, LeaseGiveUp
<1>8. ASSUME NEW w \in Workers, Process(w) PROVE Ways'
  <2>1. UNCHANGED rowVars
    BY <1>8 DEF Process, BeginShutdown, Teardown, Stop, Crash, Restart
  <2>2. CASE BeginShutdown(w) \/ Crash(w)
    <3>1. PICK H : Vanish(H)
      BY <2>2 DEF BeginShutdown, Crash
    <3> QED BY <1>2, <2>1, <3>1 DEF Vanish
  <2>3. CASE Teardown(w) \/ Stop(w) \/ Restart(w)
    BY <1>2, <2>1, <2>3 DEF Teardown, Stop, Restart, deliveryVars
  <2> QED BY <1>8, <2>2, <2>3 DEF Process
<1>9. ASSUME NEW w \in Workers, NEW r \in Runs, CancelIfConfirmed(w, r) PROVE Ways'
  BY <1>2, <1>9 DEF CancelIfConfirmed
<1>10. ASSUME NEW w \in Workers, NEW r \in Runs, ReleaseRun(w, r) PROVE Ways'
  <2>1. UNCHANGED <<pc, at, msg, token>>
    BY <1>10 DEF ReleaseRun, deliveryVars
  <2>2. CASE ReleaseRow(r, w, handover[w][r])
    <3>1. Owned(r, w, handover[w][r]) /\ UNCHANGED fence
      BY <2>2 DEF ReleaseRow
    <3>2. ASSUME NEW g \in Deliveries, pc[g] # "free", run(g) = r
          PROVE  Concluded(g)' /\ Carrying(g)'
      <4>1. Concluded(g) /\ Carrying(g) /\ run(g)' = r
        BY <2>1, <3>2 DEF Signpost, run
      <4>2. ~Done(r)
        BY <3>1 DEF Owned, Done, Terminal
      <4>3. CASE Task(g) /\ at[g] = w
        <5>1. handover[w][run(g)] # token[g]
          BY <1>10, <4>3 DEF ReleaseRun, Gathered, AtWorker, Task
        <5> QED BY <3>1, <3>2, <4>1, <4>3, <5>1 DEF Carrying, Owned
      <4>4. CASE Task(g) /\ at[g] # w
        BY <2>1, <3>1, <3>2, <4>1, <4>2, <4>4 DEF Concluded, Carrying, Owned, Task
      <4>5. CASE ~Task(g)
        BY <2>1, <3>2, <4>1, <4>2, <4>5 DEF Concluded, Carrying, Task
      <4> QED BY <4>3, <4>4, <4>5
    <3>3. \A q \in Runs \ {r} : status'[q] = status[q] /\ owner'[q] = owner[q] /\ fence'[q] = fence[q]
      BY <2>2, OtherRows
    <3> QED BY <1>3, <2>1, <3>2, <3>3
  <2> QED BY <1>2, <1>10, <2>1, <2>2 DEF ReleaseRun
<1>11. CASE UNCHANGED vars
  BY <1>2, <1>11 DEF vars, deliveryVars
<1>12. ASSUME NEW h \in Deliveries, Accept(h) \/ Execute(h) PROVE Ways'
  BY <1>1, <1>12, AcceptWays, ExecuteWays
<1> QED BY <1>4, <1>5, <1>6, <1>7, <1>8, <1>9, <1>10, <1>11, <1>12 DEF Next

(* A worker marks a run as lost after a write that came too late.          *)
LEMMA LateStep ==
  ASSUME OnlyAbandonedLapse, TypeOK, Located, Signpost, [Next]_vars PROVE LateOnly'
<1> USE DEF TypeOK
<1>1. DoneStays /\ LateOnly
  BY DoneStep DEF Signpost
<1>2. ASSUME \A w \in Workers, r \in Runs : r \in lost'[w] => r \in lost[w] \/ Done(r)
      PROVE  LateOnly'
  BY <1>1, <1>2 DEF LateOnly, DoneStays
<1>3. CASE UNCHANGED lost
  BY <1>2, <1>3
<1>4. ASSUME NEW h \in Deliveries, Accept(h) PROVE UNCHANGED lost
  BY <1>4 DEF Accept, Inspect, InspectFails, AcceptCancelled, AcceptExhausted, AcceptLapsed,
              Acquire, AcquireUnseen, AcceptFails, AcceptAck, AcceptAckLost, workerVars
<1>5. ASSUME NEW h \in Deliveries, Execute(h) PROVE LateOnly'
  <2>1. /\ pc[h] # "free" /\ run(h) \in Runs /\ at[h] \in Workers /\ Carrying(h) /\ Task(h)
    BY <1>5, ExecuteActive, DeliveryRun DEF Signpost
  <2>2. CASE Finish(h) \/ Settled(h)
    <3>1. CASE MarkLost(h) /\ ~Owned(run(h), at[h], token[h])
      <4>1. Done(run(h))
        BY <2>1, <2>2, <3>1 DEF Finish, Settled, Carrying, Owned
      <4>2. lost' = [lost EXCEPT ![at[h]] = @ \cup {run(h)}]
        BY <3>1 DEF MarkLost
      <4> QED BY <1>2, <2>1, <4>1, <4>2 DEF WorkerTypeOK
    <3> QED BY <1>3, <2>2, <3>1 DEF Finish, Settled
  <2>3. CASE Closed(h) \/ Unwound(h)
    <3>1. lost' = [lost EXCEPT ![at[h]] = @ \ {run(h)}]
      BY <2>3 DEF Closed, Unwound, Unflag
    <3> QED BY <1>2, <2>1, <3>1 DEF WorkerTypeOK
  <2>4. CASE \/ Started(h) \/ StartCancelled(h) \/ FinishFails(h) \/ FinishUnseen(h)
             \/ Cancelled(h) \/ SettledAlone(h) \/ CloseCancelled(h) \/ Ack(h) \/ AckLost(h)
    BY <1>3, <2>4 DEF Started, StartCancelled, FinishFails, FinishUnseen, Cancelled, SettledAlone,
       CloseCancelled, Ack, AckLost, workerVars
  <2> QED BY <1>5, <2>2, <2>3, <2>4 DEF Execute
<1>6. ASSUME NEW h \in Deliveries, LeaseCheck(h) \/ LeaseGiveUp(h) PROVE UNCHANGED lost
  <2>1. LeaseCheck(h)
    BY <1>6 DEF LeaseGiveUp, Fault, OnlyAbandonedLapse
  <2>2. Task(h) /\ Carrying(h)
    BY <2>1 DEF LeaseCheck, LeasePcs, Task, Signpost
  <2> QED BY <2>1, <2>2 DEF LeaseCheck, Carrying
<1>7. ASSUME NEW w \in Workers, Process(w) PROVE LateOnly'
  <2>1. UNCHANGED lost \/ lost' = [lost EXCEPT ![w] = {}]
    BY <1>7 DEF Process, BeginShutdown, Teardown, Stop, Crash, Restart, Forget
  <2> QED BY <1>2, <2>1 DEF WorkerTypeOK
<1>8. ASSUME NEW m \in Msgs, Api(m) \/ Expire(m) PROVE UNCHANGED lost
  BY <1>8 DEF Api, SendHalf, LocalTransaction, Report, ReportLost, BrokerCheck,
     RecoverRun, Redispatch, RedispatchFails, Expire, workerVars
<1>9. ASSUME NEW r \in Runs, UserCancel(r) PROVE UNCHANGED lost
  BY <1>9 DEF UserCancel, workerVars
<1>10. ASSUME NEW h \in Deliveries, NEW w \in Workers, NEW m \in Msgs, Pull(h, w, m)
       PROVE  UNCHANGED lost
  BY <1>10 DEF Pull, workerVars
<1>11. ASSUME NEW w \in Workers, NEW r \in Runs, CancelIfConfirmed(w, r) \/ ReleaseRun(w, r)
       PROVE  UNCHANGED lost
  BY <1>11 DEF CancelIfConfirmed, ReleaseRun, workerVars
<1>12. CASE UNCHANGED vars
  BY <1>3, <1>12 DEF vars, workerVars
<1> QED BY <1>3, <1>4, <1>5, <1>6, <1>7, <1>8, <1>9, <1>10, <1>11, <1>12 DEF Next

LEMMA AlwaysSignpost == OnlyAbandonedLapse => (Spec => []Signpost)
<1> SUFFICES ASSUME OnlyAbandonedLapse PROVE Spec => []Signpost
  OBVIOUS
<1>1. TypeOK /\ Located /\ Signpost /\ [Next]_vars => Signpost'
  <2> SUFFICES ASSUME TypeOK, Located, Signpost, [Next]_vars PROVE Signpost'
    OBVIOUS
  <2>1. Copies' /\ Ways' /\ LateOnly'
    BY CopiesStep, WaysStep, LateStep
  <2> QED BY <2>1 DEF Copies, Ways, Signpost
<1> QED BY <1>1, InitSignpost, TypeCorrect, PTL DEF Spec

(* A run that waits to be executed, or is being executed, always has a     *)
(* message that will still be delivered: no crash, shutdown, lost          *)
(* acknowledgement, failed transaction or lost report leaves it without    *)
(* its signpost, as long as only abandoned copies lapse.                   *)
THEOREM NoRunIsOrphaned == OnlyAbandonedLapse => (Spec => []NoOrphan)
<1> SUFFICES ASSUME OnlyAbandonedLapse PROVE Spec => []NoOrphan
  OBVIOUS
<1>1. TypeOK /\ Signpost => NoOrphan
  <2> SUFFICES ASSUME TypeOK, Signpost, NEW r \in Runs,
                      status[r] \in {"queued", "interrupted", "running"}
               PROVE  \E m \in Msgs : m[1] = r /\ mstate[m] \in {"half", "ready", "leased"}
    BY DEF NoOrphan
  <2> DEFINE m == <<r, 1>>
  <2>1. m \in Msgs /\ m[1] = r
    BY DEF Msgs, OnlyAbandonedLapse
  <2>2. Sent(m) /\ mstate[m] \in {"none", "half", "ready", "leased", "acked", "void"}
    BY <2>1 DEF Signpost, TypeOK, BrokerTypeOK
  <2>3. ~Done(m[1]) /\ status[m[1]] # "absent"
    BY <2>1 DEF Done, Terminal
  <2> HIDE DEF m
  <2>4. mstate[m] \in {"half", "ready", "leased"}
    BY <2>2, <2>3 DEF Sent
  <2> QED BY <2>1, <2>4
<1> QED BY <1>1, AlwaysSignpost, TypeCorrect, PTL

-----------------------------------------------------------------------------
(* A holder that renews is not disturbed: nobody else has a copy.          *)
AdoptStep ==
  \A h \in Deliveries : Renewing(h) /\ status[run(h)] = "running" =>
    fence'[run(h)] = fence[run(h)]
ExhaustStep ==
  \A h \in Deliveries : Renewing(h) =>
    reason'[run(h)] # Exhausted \/ reason[run(h)] = Exhausted

(* A step that neither claims a row nor gives it up for dead.              *)
LEMMA Undisturbed ==
  ASSUME RowTypeOK, Located, UNCHANGED fence,
         UNCHANGED reason \/ \E r, why : why # Exhausted /\ reason' = [reason EXCEPT ![r] = why]
  PROVE  AdoptStep /\ ExhaustStep
<1>1. AdoptStep
  BY DEF AdoptStep
<1>2. \A h \in Deliveries : Renewing(h) => run(h) \in Runs
  BY DeliveryRun DEF Renewing
<1>3. \A r \in Runs : reason'[r] # Exhausted \/ reason[r] = Exhausted
  BY DEF RowTypeOK
<1> QED BY <1>1, <1>2, <1>3 DEF ExhaustStep

LEMMA HolderSpared ==
  ASSUME OnlyAbandonedLapse, TypeOK, Located, Signpost, [Next]_vars PROVE AdoptStep /\ ExhaustStep
<1> USE DEF TypeOK, Exhausted
<1>1. ASSUME UNCHANGED rowVars PROVE AdoptStep /\ ExhaustStep
  BY <1>1, Undisturbed DEF rowVars
<1>2. ASSUME NEW m \in Msgs, Api(m) \/ Expire(m) PROVE AdoptStep /\ ExhaustStep
  BY <1>1, <1>2, ApiWrites, Undisturbed DEF Insert
<1>3. ASSUME NEW r \in Runs, UserCancel(r) PROVE AdoptStep /\ ExhaustStep
  BY <1>3, Undisturbed DEF UserCancel, RequestCancel
<1>4. ASSUME NEW h \in Deliveries, Accept(h) PROVE AdoptStep /\ ExhaustStep
  <2>1. pc[h] # "free" /\ ~Task(h) /\ run(h) \in Runs
    BY <1>4, AcceptActive, DeliveryRun
  <2>2. \A g \in Deliveries : Renewing(g) => run(g) \in Runs /\ run(g) # run(h)
    <3> SUFFICES ASSUME NEW g \in Deliveries, Renewing(g) PROVE run(g) \in Runs /\ run(g) # run(h)
      OBVIOUS
    <3>1. pc[g] # "free" /\ g # h
      BY <2>1 DEF Renewing, Task, TaskPcs
    <3> QED BY <2>1, <3>1, OneDelivery, DeliveryRun
  <2>3. \A r \in Runs \ {run(h)} : fence'[r] = fence[r] /\ reason'[r] = reason[r]
    BY <1>4, <2>1, AcceptWrites
       DEF rowVars, SettleCancelled, SettleExhausted, WriteTerminal, Claim, RowTypeOK
  <2> QED BY <2>2, <2>3 DEF AdoptStep, ExhaustStep
<1>5. ASSUME NEW h \in Deliveries, Execute(h) PROVE AdoptStep /\ ExhaustStep
  BY <1>1, <1>5, ExecuteWrites, Undisturbed
     DEF WriteOutcome, SettleOwn, Persist, PersistAwaiting, WriteTerminal
<1>6. ASSUME \/ \E h \in Deliveries, w \in Workers, m \in Msgs : Pull(h, w, m)
             \/ \E h \in Deliveries : LeaseCheck(h) \/ LeaseGiveUp(h)
             \/ \E w \in Workers : Process(w)
      PROVE  UNCHANGED rowVars
  BY <1>6 DEF Pull, LeaseCheck, LeaseGiveUp, Process, BeginShutdown, Teardown, Stop, Crash, Restart
<1>7. ASSUME NEW w \in Workers, NEW r \in Runs, CancelIfConfirmed(w, r) \/ ReleaseRun(w, r)
      PROVE  AdoptStep /\ ExhaustStep
  <2>1. UNCHANGED rowVars \/ ReleaseRow(r, w, handover[w][r])
    BY <1>7 DEF CancelIfConfirmed, ReleaseRun
  <2> QED BY <1>1, <2>1, Undisturbed DEF ReleaseRow
<1>8. CASE UNCHANGED vars
  BY <1>1, <1>8 DEF vars
<1> QED BY <1>1, <1>2, <1>3, <1>4, <1>5, <1>6, <1>7, <1>8 DEF Next

(* Nobody adopts a running row from a holder that renews its copy.         *)
THEOREM AdoptionWaits == OnlyAbandonedLapse => (Spec => AdoptsOnlyAbandoned)
<1> SUFFICES ASSUME OnlyAbandonedLapse PROVE Spec => AdoptsOnlyAbandoned
  OBVIOUS
<1>1. TypeOK /\ Located /\ Signpost /\ [Next]_vars => [AdoptStep]_vars
  BY HolderSpared
<1>2. AdoptsOnlyAbandoned <=> [][AdoptStep]_vars
  BY DEF AdoptsOnlyAbandoned, AdoptStep
<1> QED BY <1>1, <1>2, AlwaysSignpost, TypeCorrect, PTL DEF Spec

(* A run is given up for dead only when its holder has stopped renewing.   *)
THEOREM DeadLetterWaits == OnlyAbandonedLapse => (Spec => ExhaustSparesHolder)
<1> SUFFICES ASSUME OnlyAbandonedLapse PROVE Spec => ExhaustSparesHolder
  OBVIOUS
<1>1. TypeOK /\ Located /\ Signpost /\ [Next]_vars => [ExhaustStep]_vars
  BY HolderSpared
<1>2. ExhaustSparesHolder <=> [][ExhaustStep]_vars
  BY DEF ExhaustSparesHolder, ExhaustStep
<1> QED BY <1>1, <1>2, AlwaysSignpost, TypeCorrect, PTL DEF Spec
=============================================================================
