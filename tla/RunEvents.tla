----------------------------- MODULE RunEvents -----------------------------
(***************************************************************************)
(* The progress stream of one run, end to end: the API and the workers put *)
(* frames into their RunEventBuffer, coroutines flush them into the store  *)
(* (EventLog), and SSE streams of the API replay and tail what is stored,  *)
(* until they see the done frame or make one up from the row.              *)
(*                                                                         *)
(* Who executes the run, and with which token, is decided by the writes of *)
(* RunRow; how deliveries lead to them is RunDispatch.  Here a worker may  *)
(* claim whenever the row allows it, so a zombie can always be around.     *)
(***************************************************************************)
EXTENDS RunRow, EventLog

CONSTANTS run, Api,
          Readers,     \* SSE clients
          BatchMax,    \* _FLUSH_BATCH_MAX
          MaxClaims,   \* claims of the run (bound of the model)
          Hazards      \* which failures of the environment may happen

ASSUME OneRun      == Runs = {run}
ASSUME ProcsAre    == Api \notin Workers /\ Procs = Workers \cup {Api}
ASSUME EventBounds == /\ BatchMax \in Nat \ {0} /\ MaxClaims \in Nat
                      /\ Hazards \subseteq {"crash", "shutdown", "db", "evict",
                                           "exhaust", "disconnect"}

VARIABLES
  open,     \* the run has a seat in the process's buffer (_open)
  pending,  \* _pending of the run
  sent,     \* frames accepted since the seat was opened (history)
  made,     \* frames the process has produced
  pc,       \* where each coroutine is
  token,    \* worker: work.fence_token; kept after an interrupted execution
  written,  \* worker: the terminal status it has written, "none" before
  lost,     \* worker: the run is in _lost_leases
  titled,   \* Run.headline is not NULL
  rpc,      \* an SSE stream: "off", "tail", "again", "status" or "ended"
  last,     \* last_seq of the stream
  seen,     \* lastSeq of the client
  got,      \* numbers of the frames the client has received (history)
  faults    \* failures, and requests to cancel a running run, so far

bufferVars == <<open, pending, sent, made>>
taskVars   == <<pc, token, written, lost, titled>>
readerVars == <<rpc, last, seen, got>>
vars == <<rowVars, logVars, bufferVars, taskVars, readerVars, faults>>

FlushPcs == {"periodic", "resuming", "headline", "final", "settle", "announce"}
GraphPcs == {"early", "graph"}

TypeOK ==
  /\ RowTypeOK /\ LogTypeOK
  /\ open    \in [Procs -> BOOLEAN]
  /\ pending \in [Procs -> Seq(Frame)]
  /\ sent    \in [Procs -> SUBSET Frame]
  /\ made    \in [Procs -> Nat]
  /\ pc      \in [Writers -> {"off", "cancelled", "stopping"} \cup FlushPcs \cup GraphPcs]
  /\ token   \in [Workers -> Nat]
  /\ written \in [Workers -> {"none"} \cup Terminal]
  /\ lost    \in [Workers -> BOOLEAN]
  /\ titled  \in BOOLEAN
  /\ rpc     \in [Readers -> {"off", "tail", "again", "status", "ended"}]
  /\ last    \in [Readers -> Nat]
  /\ seen    \in [Readers -> Nat]
  /\ got     \in [Readers -> SUBSET Nat]
  /\ faults  \in Nat

Init ==
  /\ RowInit /\ LogInit
  /\ open    = [p \in Procs |-> FALSE]
  /\ pending = [p \in Procs |-> <<>>]
  /\ sent    = [p \in Procs |-> {}]
  /\ made    = [p \in Procs |-> 0]
  /\ pc      = [c \in Writers |-> "off"]
  /\ token   = [w \in Workers |-> 0]
  /\ written = [w \in Workers |-> "none"]
  /\ lost    = [w \in Workers |-> FALSE]
  /\ titled  = FALSE
  /\ rpc     = [i \in Readers |-> "off"]
  /\ last    = [i \in Readers |-> 0]
  /\ seen    = [i \in Readers |-> 0]
  /\ got     = [i \in Readers |-> {}]
  /\ faults  = 0

-----------------------------------------------------------------------------
Spent    == MapThenSumSet(LAMBDA p : made[p], Procs) + faults
Counted  == Spent < Budget /\ faults' = faults + 1
Fault(k) == k \in Hazards /\ Counted
NoFault  == UNCHANGED faults

Main(p) == <<p, "main">>
Side(p) == <<p, "side">>
Goto(c, where) == pc' = [pc EXCEPT ![c] = where]

(* What a process writes: pairs of a dedup key and a done status.          *)
Plain   == <<NoKey, "none">>
Done(s) == <<DoneKey, s>>

(* open() and then write() of each of ws, after what is pending already.   *)
OpenAndWriteAfter(p, q, ws) ==
  /\ Spent + Len(ws) <= Budget
  /\ LET fs == [i \in 1..Len(ws) |-> [by |-> p, n |-> made[p] + i,
                                      key |-> ws[i][1], says |-> ws[i][2]]]
     IN /\ pending' = [pending EXCEPT ![p] = q \o fs]
        /\ sent'    = [sent EXCEPT ![p] = @ \cup Range(fs)]
  /\ made' = [made EXCEPT ![p] = @ + Len(ws)]
  /\ open' = [open EXCEPT ![p] = TRUE]

OpenAndWrite(p, ws) == OpenAndWriteAfter(p, pending[p], ws)

(* write() alone drops the frames when there is no seat.                   *)
Write(p, ws) ==
  IF open[p] THEN OpenAndWrite(p, ws) ELSE UNCHANGED bufferVars

DropSeat(p) ==
  /\ open'    = [open EXCEPT ![p] = FALSE]
  /\ pending' = [pending EXCEPT ![p] = <<>>]
  /\ sent'    = [sent EXCEPT ![p] = {}]
  /\ UNCHANGED made

-----------------------------------------------------------------------------
(* THE API: RunManager.start, resume_with_input and cancel.                *)
Create ==
  /\ Insert(run)
  /\ OpenAndWrite(Api, <<Plain>>) /\ Goto(Main(Api), "announce")
  /\ UNCHANGED <<logVars, token, written, lost, titled, readerVars, faults>>

ResumeWithInput ==
  /\ pc[Main(Api)] = "off"
  /\ Answer(run)
  /\ OpenAndWrite(Api, <<Plain>>) /\ Goto(Main(Api), "announce")
  /\ UNCHANGED <<logVars, token, written, lost, titled, readerVars, faults>>

(* A cancelled pending row is announced here, a running one by its worker. *)
Cancel ==
  /\ pc[Side(Api)] = "off"
  /\ RequestCancel(run)
  /\ IF status'[run] = "cancelled"
     THEN OpenAndWrite(Api, <<Done("cancelled")>>) /\ Goto(Side(Api), "settle")
          /\ UNCHANGED faults
     ELSE Counted /\ UNCHANGED <<bufferVars, pc>>
  /\ UNCHANGED <<logVars, token, written, lost, titled, readerVars>>

-----------------------------------------------------------------------------
(* A WORKER: a claim opens the seat.  A resumed run first flushes its      *)
(* `resuming` frame; execute() starts the periodic flush.  (The `running`  *)
(* frame that follows `resuming` in an answered run is left out.)          *)
Executing(w) == pc[Main(w)] \in GraphPcs
Starts(w)    == pc' = [pc EXCEPT ![Main(w)] = "early", ![Side(w)] = "periodic"]

ClaimRun(w) ==
  /\ pc[Main(w)] = "off" /\ token[w] = 0 /\ fence[run] < MaxClaims
  /\ Claim(run, w)
  /\ token' = [token EXCEPT ![w] = fence'[run]]
  /\ OpenAndWrite(w, <<Plain>>)
  /\ IF ~ResumesOnClaim(run) THEN Starts(w)
     ELSE Goto(Main(w), "resuming")
  /\ UNCHANGED <<logVars, written, lost, titled, readerVars, faults>>

(* A delivery of a run whose cancellation nobody carries out any more.     *)
SettleFromDelivery(w) ==
  /\ pc[Main(w)] = "off" /\ token[w] = 0
  /\ SettleCancelled(run)
  /\ OpenAndWrite(w, <<Done("cancelled")>>) /\ Goto(Main(w), "settle")
  /\ UNCHANGED <<logVars, token, written, lost, titled, readerVars, faults>>

(* Dead-lettering writes no frame at all.                                  *)
Exhaust ==
  /\ Fault("exhaust")
  /\ SettleExhausted(run)
  /\ UNCHANGED <<logVars, bufferVars, taskVars, readerVars>>

Emit(w, k) ==
  /\ Executing(w)
  /\ open[w] /\ Write(w, <<<<k, "none">>>>)
  /\ UNCHANGED <<rowVars, logVars, taskVars, readerVars, faults>>

(* The title of the run: written to the row, announced, flushed inline.    *)
Headline(w) ==
  /\ pc[Main(w)] = "early"
  /\ \/ /\ Owned(run, w, token[w]) /\ ~titled
        /\ titled' = TRUE
        /\ Write(w, <<Plain>>) /\ Goto(Main(w), "headline")
     \/ /\ ~Owned(run, w, token[w]) \/ titled
        /\ Goto(Main(w), "graph") /\ UNCHANGED <<bufferVars, titled>>
  /\ UNCHANGED <<rowVars, logVars, token, written, lost, readerVars, faults>>

(* The execution writes its outcome.  From here on the periodic flush is   *)
(* being cancelled.                                                        *)
Conclude(w, s) ==
  /\ Executing(w) \/ (pc[Main(w)] = "cancelled" /\ s = "cancelled")
  /\ s = "cancelled" => cancelReq[run]
  /\ \/ /\ Persist(run, w, token[w], s, IF s = "cancelled" THEN "user_cancelled" ELSE "engine")
        /\ written' = [written EXCEPT ![w] = s]
        /\ UNCHANGED lost
     \/ /\ ~Owned(run, w, token[w])
        /\ lost' = [lost EXCEPT ![w] = TRUE]
        /\ UNCHANGED <<rowVars, written>>
  /\ token' = [token EXCEPT ![w] = 0]
  /\ Goto(Main(w), "stopping")
  /\ UNCHANGED <<logVars, bufferVars, titled, readerVars, faults>>

AwaitInput(w) ==
  /\ Executing(w)
  /\ PersistAwaiting(run, w, token[w])
  /\ Write(w, <<Plain, Plain>>)
  /\ token' = [token EXCEPT ![w] = 0]
  /\ Goto(Main(w), "stopping")
  /\ UNCHANGED <<logVars, written, lost, titled, readerVars, faults>>

(* Shutdown cancels the execution, which writes nothing; shutdown()        *)
(* releases the row with the token afterwards.                             *)
Interrupt(w) ==
  /\ Executing(w) /\ Fault("shutdown")
  /\ Goto(Main(w), "stopping")
  /\ UNCHANGED <<rowVars, logVars, bufferVars, token, written, lost, titled, readerVars>>

Release(w) ==
  /\ pc[Main(w)] = "off" /\ token[w] # 0
  /\ \/ ReleaseRow(run, w, token[w])
     \/ ~Owned(run, w, token[w]) /\ UNCHANGED rowVars
  /\ token' = [token EXCEPT ![w] = 0]
  /\ UNCHANGED <<logVars, bufferVars, pc, written, lost, titled, readerVars, faults>>

Announces(w) == IF written[w] # "none" /\ ~lost[w] THEN <<Done(written[w])>> ELSE <<>>

(* Mutant: the done frame is written while the periodic flush still runs.  *)
FlusherStopped_NotAwaited(w) ==
  /\ pc[Main(w)] = "stopping"
  /\ Write(w, Announces(w))
  /\ pc' = [pc EXCEPT ![Main(w)] = "final", ![Side(w)] = "off"]
  /\ UNCHANGED <<rowVars, logVars, token, written, lost, titled, readerVars, faults>>

(* Mutant: a done frame is written even when the outcome was not.          *)
FlusherStopped_AlwaysDone(w) ==
  /\ pc[Main(w)] = "stopping" /\ step[Side(w)] = "idle"
  /\ Write(w, <<Done(IF written[w] = "none" THEN "failed" ELSE written[w])>>)
  /\ pc' = [pc EXCEPT ![Main(w)] = "final", ![Side(w)] = "off"]
  /\ UNCHANGED <<rowVars, logVars, token, written, lost, titled, readerVars, faults>>

(* execute()'s finally block: with the periodic flush gone, done is the    *)
(* last frame written before the final flush.                              *)
FlusherStopped(w) ==
  /\ pc[Main(w)] = "stopping" /\ step[Side(w)] = "idle"
  /\ Write(w, Announces(w))
  /\ pc' = [pc EXCEPT ![Main(w)] = "final", ![Side(w)] = "off"]
  /\ UNCHANGED <<rowVars, logVars, token, written, lost, titled, readerVars, faults>>

-----------------------------------------------------------------------------
(* FLUSHING: RunEventBuffer.flush, in whatever coroutine runs it.          *)
proc(c)     == c[1]
Flushing(c) == pc[c] \in FlushPcs
Stopped(c)  == pc[c] = "periodic" /\ pc[Main(proc(c))] = "stopping"

Take(c) ==
  /\ Flushing(c) /\ pending[proc(c)] # <<>> /\ ~Stopped(c)
  /\ LET p == proc(c)
         k == IF Len(pending[p]) < BatchMax THEN Len(pending[p]) ELSE BatchMax
     IN /\ BeginAppend(c, SubSeq(pending[p], 1, k))
        /\ pending' = [pending EXCEPT ![p] = SubSeq(@, k + 1, Len(@))]
  /\ UNCHANGED <<rowVars, open, sent, made, taskVars, readerVars, faults>>

AppendStep(c) ==
  /\ StoreStep(c) /\ ~Stopped(c)
  /\ UNCHANGED <<rowVars, bufferVars, taskVars, readerVars, faults>>

Pends(p, q) == pending' = [pending EXCEPT ![p] = q] /\ UNCHANGED <<open, sent, made>>
Moves(c, where) == Goto(c, where) /\ UNCHANGED <<token, written, lost, titled>>

(* Where coroutine c goes when its flush returns; q is pending then.       *)
Return(c, q) ==
  LET p == proc(c) IN
  \/ pc[c] = "periodic" /\ Pends(p, q) /\ UNCHANGED taskVars
  \/ pc[c] = "announce" /\ Pends(p, q) /\ Moves(c, "off")
  \/ pc[c] = "headline" /\ Pends(p, q) /\ Moves(c, "graph")
  \/ pc[c] = "settle"   /\ DropSeat(p) /\ Moves(c, "off")
  \/ /\ pc[c] = "resuming"
     /\ OpenAndWriteAfter(p, q, <<>>)
     /\ Starts(p) /\ UNCHANGED <<token, written, lost, titled>>
  \/ /\ pc[c] = "final"
     /\ IF lost[p] THEN Pends(p, q) ELSE DropSeat(p)
     /\ Goto(c, "off")
     /\ written' = [written EXCEPT ![p] = "none"]
     /\ lost'    = [lost EXCEPT ![p] = FALSE]
     /\ UNCHANGED <<token, titled>>

(* Nothing is left: flush returns.                                         *)
FlushReturns(c) ==
  /\ Flushing(c) /\ step[c] = "idle" /\ pending[proc(c)] = <<>>
  /\ pc[c] # "periodic"
  /\ Return(c, <<>>)
  /\ UNCHANGED <<rowVars, logVars, readerVars, faults>>

(* Mutant: a failed batch is not put back.                                 *)
Requeued_Forgets(c) == pending[proc(c)]

(* _requeue: a failed batch goes back to the head of pending if the run    *)
(* still has a seat.                                                       *)
Requeued(c) ==
  IF open[proc(c)] THEN batch[c] \o pending[proc(c)] ELSE pending[proc(c)]

(* append has failed: the batch goes back and flush returns false.         *)
FlushFails(c) ==
  /\ AppendRaises(c) /\ ~Stopped(c) /\ Fault("db")
  /\ Return(c, Requeued(c))
  /\ UNCHANGED <<rowVars, readerVars>>

(* A cancellation lands inside append, and the batch goes back, too: that  *)
(* of the periodic flush, and that of the task while it flushes inline, by *)
(* a shutdown, which keeps the token, or by the lease task.                *)
Signalled(w) == cancelReq[run] \/ fence[run] # token[w]

FlushCancelled(c) ==
  LET w == proc(c) IN
  /\ w \in Workers
  /\ AppendRaises(c)
  /\ Pends(w, Requeued(c))
  /\ \/ Stopped(c) /\ UNCHANGED taskVars /\ NoFault
     \/ pc[c] = "headline" /\ \/ Fault("shutdown") /\ Moves(c, "stopping")
                              \/ Signalled(w) /\ Moves(c, "cancelled") /\ NoFault
     \/ /\ pc[c] = "resuming"
        /\ \/ Fault("shutdown") /\ UNCHANGED token
           \/ Signalled(w) /\ token' = [token EXCEPT ![w] = 0] /\ NoFault
        /\ Goto(c, "off")
        /\ UNCHANGED <<written, lost, titled>>
  /\ UNCHANGED <<rowVars, readerVars>>

(* 2048 other runs have been opened since: the seat is taken away.         *)
Evict(p) ==
  /\ open[p] /\ Fault("evict")
  /\ DropSeat(p)
  /\ UNCHANGED <<rowVars, logVars, taskVars, readerVars>>

(* The process dies and starts again with nothing in memory.               *)
Crash(p) ==
  /\ Fault("crash")
  /\ DropSeat(p) /\ Abandon({p} \X Lanes)
  /\ pc' = [c \in Writers |-> IF proc(c) = p THEN "off" ELSE pc[c]]
  /\ token'   = [w \in Workers |-> IF w = p THEN 0 ELSE token[w]]
  /\ written' = [w \in Workers |-> IF w = p THEN "none" ELSE written[w]]
  /\ lost'    = [w \in Workers |-> lost[w] /\ w # p]
  /\ rpc' = [i \in Readers |-> IF p = Api /\ rpc[i] # "ended" THEN "off" ELSE rpc[i]]
  /\ UNCHANGED <<rowVars, titled, last, seen, got>>

-----------------------------------------------------------------------------
(* THE SSE STREAMS.  A client reconnects with the last number it has.      *)
After(n)   == {e \in log : e.seq > n}
HasDone(R) == \E e \in R : e.frame.key = DoneKey
Latest(n, R) == IF R = {} THEN n ELSE (CHOOSE e \in R : \A d \in R : d.seq <= e.seq).seq
Receives(i, R) == got' = [got EXCEPT ![i] = @ \cup {e.seq : e \in R}]
At(i, where) == rpc' = [rpc EXCEPT ![i] = where]

Connect(i) ==
  /\ rpc[i] = "off" /\ status[run] # "absent"
  /\ At(i, "tail")
  /\ last' = [last EXCEPT ![i] = seen[i]]
  /\ UNCHANGED <<rowVars, logVars, bufferVars, taskVars, seen, got, faults>>

(* The connection breaks; frames read but not yet sent are lost with it.   *)
Disconnect(i) ==
  /\ rpc[i] \notin {"off", "ended"} /\ Fault("disconnect")
  /\ At(i, "off")
  /\ UNCHANGED <<rowVars, logVars, bufferVars, taskVars, last, seen, got>>

(* A stream that ends closes the API's seat of the run (events.py:58, 65). *)
Ends(i) == At(i, "ended") /\ DropSeat(Api)

ReadTail(i) ==
  /\ rpc[i] = "tail"
  /\ LET R == After(last[i])
     IN /\ last' = [last EXCEPT ![i] = Latest(@, R)]
        /\ seen' = [seen EXCEPT ![i] = Latest(@, R)]
        /\ Receives(i, R)
        /\ \/ HasDone(R) /\ Ends(i)
           \/ ~HasDone(R) /\ R # {} /\ At(i, "tail") /\ UNCHANGED bufferVars
           \/ R = {} /\ At(i, "again") /\ UNCHANGED bufferVars
  /\ UNCHANGED <<rowVars, logVars, taskVars, faults>>

(* _terminate_if_settled reads the tail again, then the row.               *)
ReadAgain(i) ==
  /\ rpc[i] = "again"
  /\ LET R == After(last[i])
     IN /\ last' = [last EXCEPT ![i] = Latest(@, R)]
        /\ \/ /\ HasDone(R) /\ Ends(i)
              /\ seen' = [seen EXCEPT ![i] = Latest(@, R)] /\ Receives(i, R)
           \/ /\ ~HasDone(R) /\ At(i, "status")
              /\ UNCHANGED <<bufferVars, seen, got>>
  /\ UNCHANGED <<rowVars, logVars, taskVars, faults>>

(* Mutant: the stream of a settled run waits for the stored done frame.    *)
ReadStatus_NeverSynthesizes(i) ==
  /\ rpc[i] = "status"
  /\ seen' = [seen EXCEPT ![i] = last[i]]
  /\ Receives(i, {e \in log : e.seq > seen[i] /\ e.seq <= last[i]})
  /\ At(i, "tail")
  /\ UNCHANGED <<rowVars, logVars, bufferVars, taskVars, last, faults>>

(* Mutant: the client does not get what the second read found.             *)
ReadStatus_SkipsTail(i) ==
  /\ rpc[i] = "status"
  /\ seen' = [seen EXCEPT ![i] = last[i]]
  /\ IF status[run] \in Terminal THEN Ends(i) ELSE At(i, "tail") /\ UNCHANGED bufferVars
  /\ UNCHANGED <<rowVars, logVars, taskVars, last, got, faults>>

(* A settled row ends the stream with a done frame numbered last_seq + 1.  *)
ReadStatus(i) ==
  /\ rpc[i] = "status"
  /\ seen' = [seen EXCEPT ![i] = last[i]]
  /\ Receives(i, {e \in log : e.seq > seen[i] /\ e.seq <= last[i]})
  /\ IF status[run] \in Terminal
     THEN Ends(i)
     ELSE At(i, "tail") /\ UNCHANGED bufferVars
  /\ UNCHANGED <<rowVars, logVars, taskVars, last, faults>>

-----------------------------------------------------------------------------
Announcing == Create \/ ResumeWithInput \/ Cancel

Working(w) ==
  \/ ClaimRun(w) \/ SettleFromDelivery(w) \/ Headline(w)
  \/ AwaitInput(w) \/ Interrupt(w) \/ Release(w) \/ FlusherStopped(w)
  \/ \E k \in Keys : Emit(w, k)
  \/ \E s \in Terminal : Conclude(w, s)

FlushStep(c) ==
  Take(c) \/ AppendStep(c) \/ FlushReturns(c) \/ FlushFails(c) \/ FlushCancelled(c)
Streaming(i) == Connect(i) \/ ReadTail(i) \/ ReadAgain(i) \/ ReadStatus(i)

Next ==
  \/ Announcing \/ Exhaust
  \/ \E w \in Workers : Working(w)
  \/ \E c \in Writers : FlushStep(c)
  \/ \E p \in Procs : Evict(p) \/ Crash(p)
  \/ \E i \in Readers : Streaming(i) \/ Disconnect(i)

Spec == Init /\ [][Next]_vars

(* The client reconnects for ever (app.js:1698) and a stream is polled     *)
(* every second (SSE_DB_POLL_SECONDS), whatever the writers do.            *)
FairSpec == Spec /\ \A i \in Readers : WF_vars(Streaming(i))

-----------------------------------------------------------------------------
Held(p) == UNION {Range(pending[p]), Range(batch[Main(p)]), Range(batch[Side(p)])}
Stored  == {e.frame : e \in log}

(* A frame accepted by a buffer is never lost while the run keeps its      *)
(* seat, whatever flushes fail, are cancelled or meet a frame with the     *)
(* same key: it waits, is being appended, or is stored (flush, _requeue;   *)
(* test_events.py:176 and 201).                                            *)
FramesKept ==
  \A p \in Procs : open[p] =>
    \A f \in sent[p] :
      \/ f \in Held(p) \cup Stored
      \/ f.key # NoKey /\ \E g \in Held(p) \cup Stored : g.key = f.key

(* A done frame, waiting or stored, announces the status the row has: only *)
(* who has written the row announces it (executor.py:250-260).             *)
DoneTellsRow ==
  \A f \in (UNION {Held(p) : p \in Procs}) \cup Stored :
    f.key = DoneKey => f.says = status[run]

(* Nothing a worker has produced is stored after its done frame, so a      *)
(* client that stops at done has had all of that execution: the periodic   *)
(* flush has ended and put back its batch before done is written.          *)
DoneIsLast ==
  \A d, e \in log :
    d.frame.key = DoneKey /\ e.frame.by = d.frame.by /\ d.frame.by \in Workers => e.seq <= d.seq

(* The stream keeps the promise of StreamPromise: rows become visible at   *)
(* the end and without a hole, and a client has a beginning of them that   *)
(* grows, with breaks at any point of a read (seq under the lock on the    *)
(* row; the two reads of _terminate_if_settled; app.js:1727).              *)
Stream == INSTANCE StreamPromise WITH
            Clients <- Readers, rows <- log, settled <- status[run] \in Terminal,
            has <- got, told <- [i \in Readers |-> rpc[i] = "ended"]
KeepsStream == Stream!Spec

(* A client of a settled run gets to see its end even if the done frame    *)
(* was never stored: dead-lettered, lost in a flush, with a crash or an    *)
(* evicted seat (events.py:87).                                            *)
StreamsEnd == \A i \in Readers : (status[run] \in Terminal) ~> (rpc[i] = "ended")
=============================================================================
