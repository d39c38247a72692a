----------------------------- MODULE Supervisor -----------------------------
(***************************************************************************)
(* The tool loop of the Supervisor agent (agents/supervisor): a model,     *)
(* free to answer anything, sends out background research tasks, edits a   *)
(* workbench, waits for results and freezes a synthesis for the Writer.    *)
(*                                                                         *)
(* The workbench exists twice.  The channels of the inner graph are saved  *)
(* after every step and survive the process; the board in memory, which    *)
(* the tools read and change, is rebuilt from the channels before every    *)
(* turn of the model.  A tool hands its change to the channels by their    *)
(* reducers.  The research tasks live in memory only, and the channels     *)
(* keep a register of those not yet settled.                               *)
(*                                                                         *)
(* A task and the piece of evidence it may find share an index.  A crash   *)
(* that loses the last saved steps as well lands where an earlier crash    *)
(* would have, so every step counts as saved when it is taken.             *)
(***************************************************************************)
EXTENDS Naturals, FiniteSets, Sequences

CONSTANTS
  Aspect, Field,   \* aspects and framing fields of a synthesis
  NoDraft,         \* there is no synthesis yet
  ActiveLimit,     \* supervisor_max_active_evidences
  MaxPerRound,     \* max_tasks_per_round: what ToolCallLimit lets through
  MaxRounds,       \* max_research_rounds
  MaxReviews,      \* max_review_attempts
  MaxTurns,        \* supervisor_max_turns
  MaxRejections,   \* rejections of a bare ending (SubmissionGuard)
  MaxTask,         \* bound: research tasks
  Replies,         \* bound: the sequences of tools that one reply may call
  MaxOps,          \* bound: operations in one UpdateWorkbench
  MaxCrashes,      \* bound: crashes of the process
  CrashPoints      \* where the loop may stand when the process crashes

Tool   == {"delegate", "update", "wait", "complete"}
Serial == {"wait", "complete"}

ASSUME SupervisorAssumption ==
  /\ {ActiveLimit, MaxPerRound, MaxRounds, MaxReviews, MaxTurns} \subseteq Nat \ {0}
  /\ {MaxRejections, MaxTask, MaxOps, MaxCrashes} \subseteq Nat
  /\ Replies \subseteq Seq(Tool)
  /\ IsFiniteSet(Aspect) /\ IsFiniteSet(Field)
  /\ CrashPoints \subseteq {"refresh", "model", "tools", "drain"}

Task == 1 .. MaxTask

VARIABLES
  entry,      \* the state of the run in which the round began or ended
  channel,    \* the workbench in the channels of the inner graph
  board,      \* the workbench in memory (SupervisorContext.round_state)
  handle,     \* the asyncio task behind a research task, and its result
  next,       \* the step of the loop that comes next
  batch,      \* calls of the model's reply not yet executed, and their index base
  turns, quota, rejections,   \* counters of this process, forgotten by a crash
  capped,     \* the loop ended at the limit of model calls
  round, verdict, crashes,
  aged,       \* the board is the one the round began with, not the channels'
  astray      \* a batch ran on an aged board, or a serial tool in company

vars == <<entry, channel, board, handle, next, batch, turns, quota, rejections,
          capped, round, verdict, crashes, aged, astray>>

(* Reasons to stop the research and their authority.                       *)
Rank == [none |-> 0, ended |-> 20, round_budget |-> 25, model_calls |-> 30,
         provider |-> 40, failed |-> 45, completed |-> 50]
Stop == DOMAIN Rank
AllowsPartial == {"ended", "round_budget", "model_calls"}
Stronger(old, new) == IF Rank[new] >= Rank[old] /\ new # "none" THEN new ELSE old

Larger(m, n) == IF m >= n THEN m ELSE n
Smaller(m, n) == IF m <= n THEN m ELSE n

(* A synthesis: its framing, the evidence its aspects bind, and the        *)
(* revision of the workbench it was stamped with.                          *)
Synthesis == [framing : SUBSET Field,
              aspects : UNION {[A -> SUBSET Task] : A \in SUBSET Aspect},
              based   : Nat]
AspectsOf(d) == IF d = NoDraft THEN [a \in {} |-> {}] ELSE d.aspects
FramingOf(d) == IF d = NoDraft THEN {} ELSE d.framing
Bound(d) == UNION {AspectsOf(d)[a] : a \in DOMAIN AspectsOf(d)}
Fresh(b) == b.draft # NoDraft /\ b.draft.based = b.revision

Settlements == {"none", "found", "failed", "exhausted"}
Workbench == [archive : SUBSET Task, active : SUBSET Task, settled : [Task -> Settlements],
              revision : Nat, draft : Synthesis \cup {NoDraft}, frozen : Synthesis \cup {NoDraft},
              exhausted : BOOLEAN, stop : Stop, counter : Nat, pending : SUBSET Task]

EmptyBoard == [archive |-> {}, active |-> {}, settled |-> [t \in Task |-> "none"],
               revision |-> 0, draft |-> NoDraft, frozen |-> NoDraft, exhausted |-> FALSE,
               stop |-> "none", counter |-> 0, pending |-> {}]

(* The largest index a result or a registration uses.                      *)
LargestOf(used) == IF used = {} THEN 0 ELSE CHOOSE t \in used : \A u \in used : u <= t
UsedIndex(b) == LargestOf(b.pending \cup {t \in Task : b.settled[t] # "none"})

(* What the round starts from: the run's evidence, results and synthesis,  *)
(* with everything that belongs to one round reset.                        *)
Seed(s) == [s EXCEPT !.frozen = NoDraft, !.exhausted = FALSE, !.stop = "none",
                     !.counter = UsedIndex([s EXCEPT !.pending = {}]), !.pending = {}]

NoVerdict == [mode |-> "open", stop |-> "none", cites |-> {}]
NoBatch   == [calls |-> <<>>, base |-> 0]

Init ==
  /\ entry = EmptyBoard /\ channel = EmptyBoard /\ board = EmptyBoard
  /\ handle = [t \in Task |-> "none"]
  /\ next = "refresh" /\ batch = NoBatch
  /\ turns = 0 /\ quota = 0 /\ rejections = 0 /\ capped = FALSE
  /\ round = 1 /\ verdict = NoVerdict /\ crashes = 0
  /\ aged = FALSE /\ astray = FALSE

-----------------------------------------------------------------------------
(* RESEARCH TASKS *)

Live == {t \in Task : handle[t] = "live"}
Done == {t \in Task : handle[t] \in {"found", "failed", "exhausted"}}

(* The task body returns a result whatever happens to the Researcher.      *)
Finish(t) ==
  /\ handle[t] = "live"
  /\ \E r \in {"found", "failed", "exhausted"} : handle' = [handle EXCEPT ![t] = r]
  /\ UNCHANGED <<entry, channel, board, next, batch, turns, quota, rejections, capped, round,
                 verdict, crashes, aged, astray>>

(* Evidence enters the active set in the order of the tasks while there is *)
(* a slot.  Mutant: the slots are not counted.                             *)
Admitted_Unlimited(b, found) == found
Admitted(b, found) ==
  {t \in found : Cardinality(b.active) + Cardinality({u \in found : u < t}) < ActiveLimit}

(* Registrations without a task in this process are settled as failed;     *)
(* then the finished tasks are taken in.                                   *)
Lost(b) == {t \in b.pending : handle[t] = "none"}
Ready(b) == Lost(b) \cup Done
Absorb(b) ==
  LET found == {t \in Done : handle[t] = "found"}
  IN  [b EXCEPT
        !.archive   = @ \cup found,
        !.active    = @ \cup Admitted(b, found),
        !.settled   = [t \in Task |-> IF t \in Done THEN handle[t]
                                      ELSE IF t \in Lost(b) THEN "failed" ELSE @[t]],
        !.exhausted = @ \/ \E t \in Done : handle[t] = "exhausted",
        !.revision  = @ + Cardinality(Ready(b)),
        !.pending   = @ \ Ready(b)]

(* The channels' view of it: before and after are the board's.  Mutant:    *)
(* the active set before is read when it has changed already.              *)
Gained_TooLate(before, after) == {}
Gained(before, after) == after.active \ before.active
SettleChannels(c, before, after) ==
  [c EXCEPT
    !.archive   = @ \cup after.archive,
    !.active    = @ \cup Gained(before, after),
    !.settled   = [t \in Task |-> IF after.settled[t] = "none" THEN @[t] ELSE after.settled[t]],
    !.exhausted = @ \/ after.exhausted,
    !.stop      = Stronger(@, after.stop),
    !.revision  = Larger(@, after.revision),
    !.pending   = @ \ Ready(before)]

Received == handle' = [t \in Task |-> IF t \in Done THEN "none" ELSE handle[t]]

-----------------------------------------------------------------------------
(* A TURN OF THE MODEL *)

(* Before the model is called the board is rebuilt from the channels, and  *)
(* what has finished meanwhile is received.                                *)
Refresh ==
  /\ next = "refresh"
  /\ board' = Absorb(channel)
  /\ channel' = SettleChannels(channel, channel, Absorb(channel))
  /\ Received
  /\ next' = "model" /\ aged' = FALSE
  /\ UNCHANGED <<entry, batch, turns, quota, rejections, capped, round, verdict, crashes, astray>>

Asked == next = "model" /\ channel.frozen = NoDraft /\ turns < MaxTurns

(* The loop is left when a synthesis is frozen, or at the limit of calls.  *)
Submitted ==
  /\ next = "model" /\ channel.frozen # NoDraft
  /\ next' = "drain"
  /\ UNCHANGED <<entry, channel, board, handle, batch, turns, quota, rejections, capped, round,
                 verdict, crashes, aged, astray>>
CallLimit ==
  /\ next = "model" /\ channel.frozen = NoDraft /\ turns >= MaxTurns
  /\ next' = "drain" /\ capped' = TRUE
  /\ UNCHANGED <<entry, channel, board, handle, batch, turns, quota, rejections, round, verdict,
                 crashes, aged, astray>>

(* A reply without a tool call ends the loop when nothing is in flight and *)
(* there is something to show for it, or when the guard has given up.      *)
MayConclude(b) ==
  /\ b.pending = {}
  /\ \/ b.draft # NoDraft
     \/ \E t \in Task : b.settled[t] # "none"
     \/ b.exhausted
     \/ b.stop \in {"round_budget", "ended"}
Conclude ==
  /\ Asked
  /\ MayConclude(board) \/ rejections >= MaxRejections
  /\ next' = "drain" /\ turns' = turns + 1
  /\ UNCHANGED <<entry, channel, board, handle, batch, quota, rejections, capped, round, verdict,
                 crashes, aged, astray>>
RejectBareEnd ==
  /\ Asked
  /\ ~MayConclude(board) /\ rejections < MaxRejections
  /\ next' = "refresh" /\ turns' = turns + 1 /\ rejections' = rejections + 1
  /\ UNCHANGED <<entry, channel, board, handle, batch, quota, capped, round, verdict, crashes,
                 aged, astray>>
(* The text the retry middleware puts in place of a failed call passes.    *)
ModelUnavailable ==
  /\ Asked
  /\ next' = "drain" /\ turns' = turns + 1
  /\ UNCHANGED <<entry, channel, board, handle, batch, quota, rejections, capped, round, verdict,
                 crashes, aged, astray>>

Delegates(calls) == Cardinality({i \in DOMAIN calls : calls[i] = "delegate"})
InCompany(calls) == Len(calls) > 1 /\ \E i \in DOMAIN calls : calls[i] \in Serial

(* Indices go on from the largest one handed out.  Mutant: from the board. *)
BatchBase_Board == UsedIndex(board)
BatchBase == Larger(channel.counter, UsedIndex(board))

(* A reply with tool calls, those of ResearchDelegate beyond the quota     *)
(* already answered by ToolCallLimit.  The serial guard looks at the last  *)
(* message only, and sees the reply itself just when nothing was blocked.  *)
Execute(calls, blocked) ==
  /\ Asked
  /\ quota + Delegates(calls) <= MaxPerRound
  /\ blocked => quota + Delegates(calls) = MaxPerRound
  /\ InCompany(calls) => blocked
  /\ next' = "tools"
  /\ batch' = [calls |-> calls, base |-> BatchBase]
  /\ turns' = turns + 1 /\ quota' = quota + Delegates(calls)
  /\ astray' = (astray \/ (aged /\ calls # <<>>) \/ InCompany(calls))
  /\ UNCHANGED <<entry, channel, board, handle, rejections, capped, round, verdict, crashes, aged>>

(* ReadWorkbench, and a reply the serial guard sends back as a whole.      *)
IdleTurn ==
  /\ Asked
  /\ next' = "refresh" /\ turns' = turns + 1
  /\ UNCHANGED <<entry, channel, board, handle, batch, quota, rejections, capped, round, verdict,
                 crashes, aged, astray>>

Reply ==
  \/ Conclude \/ RejectBareEnd \/ ModelUnavailable \/ IdleTurn
  \/ \E calls \in Replies, blocked \in BOOLEAN : Execute(calls, blocked)

-----------------------------------------------------------------------------
(* THE TOOLS *)

Calls(tool) == next = "tools" /\ batch.calls # <<>> /\ Head(batch.calls) = tool
Called == /\ batch' = [batch EXCEPT !.calls = Tail(@)]
          /\ UNCHANGED <<entry, next, turns, quota, rejections, capped, round, verdict, crashes,
                         aged, astray>>
(* A call that is answered and changes nothing.                            *)
Refused == Called /\ UNCHANGED <<channel, board, handle>>

(* ResearchDelegate: the index comes from the position of the call, so a   *)
(* call that is executed again gets the same one.                          *)
Index == batch.base + 1
Delegate ==
  /\ Calls("delegate") /\ round <= MaxRounds
  /\ Index \in Task
  /\ batch' = [calls |-> Tail(batch.calls), base |-> Index]
  /\ channel' = [channel EXCEPT !.pending = @ \cup {Index}, !.counter = Larger(@, Index)]
  /\ board' = [board EXCEPT !.counter = Larger(@, Index)]
  /\ handle' = [handle EXCEPT ![Index] = "live"]
  /\ UNCHANGED <<entry, next, turns, quota, rejections, capped, round, verdict, crashes, aged, astray>>
(* Beyond the round budget the reason to stop is noted on the board only.  *)
DelegateBlocked ==
  /\ Calls("delegate") /\ round > MaxRounds
  /\ board' = [board EXCEPT !.stop = Stronger(@, "round_budget")]
  /\ Called /\ UNCHANGED <<channel, handle>>
DelegateBound == Calls("delegate") /\ round <= MaxRounds /\ Index \notin Task /\ Refused

(* WaitTask returns with what can be received, or with nothing when no     *)
(* task is running.  In the code it waits for those it was asked for only, *)
(* each of which ends; here the end of any task will do.                   *)
(* Mutant: with no task in flight the call hangs.                          *)
WaitReturns_Hangs == Ready(board) # {}
WaitReturns == Ready(board) # {} \/ Live = {}
Wait ==
  /\ Calls("wait") /\ WaitReturns
  /\ board' = Absorb(board)
  /\ channel' = IF Ready(board) = {} THEN channel
                ELSE SettleChannels(channel, board, Absorb(board))
  /\ Received
  /\ Called
(* Its time is up, or none of the tasks it was asked for is running.       *)
WaitInVain == Calls("wait") /\ Ready(board) = {} /\ Live # {} /\ Refused

(* One UpdateWorkbench: the operations it carries, at most one per target. *)
Edit == [frame : SUBSET Field, blank : SUBSET Field, upsert : UNION {[A -> SUBSET Task] : A \in SUBSET Aspect},
         drop : SUBSET Aspect, add : SUBSET Task, remove : SUBSET Task, ack : BOOLEAN]
OpsOf(e) == (IF e.frame \cup e.blank # {} THEN 1 ELSE 0) + Cardinality(DOMAIN e.upsert) + Cardinality(e.drop)
            + (IF e.add \cup e.remove # {} THEN 1 ELSE 0) + (IF e.ack THEN 1 ELSE 0)
Edits == {e \in Edit : OpsOf(e) \in 1 .. MaxOps /\ e.add \cap e.remove = {}
                      /\ e.frame \cap e.blank = {}}

EditsDraft(e) == e.frame \cup e.blank # {} \/ DOMAIN e.upsert # {} \/ e.drop # {}
Released(b, e)   == e.remove \cap b.active
Candidates(b, e) == e.add \ b.active
(* The slots left after the release are refilled in the order of the call. *)
Refills(b, e) ==
  LET used  == Cardinality(b.active \ e.remove)
      slots == IF used < ActiveLimit THEN ActiveLimit - used ELSE 0
  IN  {back \in SUBSET Candidates(b, e) :
         Cardinality(back) = Smaller(Cardinality(Candidates(b, e)), slots)}
EditedActive(b, e, back) == (b.active \ e.remove) \cup back

(* The current draft with the changes applied; no draft when nothing is    *)
(* left of it.                                                             *)
Candidate(b, e, revision) ==
  LET old  == AspectsOf(b.draft)
      kept == (DOMAIN old) \ e.drop
      new  == [a \in kept \cup DOMAIN e.upsert |->
                 IF a \in DOMAIN e.upsert THEN e.upsert[a] ELSE old[a]]
      framing == (FramingOf(b.draft) \ e.blank) \cup e.frame
  IN  IF DOMAIN new = {} /\ framing = {} THEN NoDraft
      ELSE [framing |-> framing, aspects |-> new, based |-> revision]

EditedRevision(b, e, back) ==
  b.revision + (IF Released(b, e) # {} THEN 1 ELSE 0) + (IF back # {} THEN 1 ELSE 0)
Edited(b, e, back) ==
  LET revision == EditedRevision(b, e, back)
  IN  [b EXCEPT !.active = EditedActive(b, e, back), !.revision = revision,
                !.draft = IF EditsDraft(e) THEN Candidate(b, e, revision)
                          ELSE IF e.ack THEN [@ EXCEPT !.based = revision] ELSE @]

Accepts(b, e, back) ==
  /\ e.add \cup e.remove \subseteq b.archive
  /\ e.drop \subseteq DOMAIN AspectsOf(b.draft)
  /\ e.ack => b.draft # NoDraft /\ ~EditsDraft(e)
  /\ EditsDraft(e) => Bound(Candidate(b, e, 0)) \subseteq EditedActive(b, e, back)

UpdateWith(e, back) ==
  /\ Accepts(board, e, back)
  /\ board' = Edited(board, e, back)
  /\ channel' = [channel EXCEPT !.draft    = board'.draft,
                                !.revision = Larger(@, board'.revision),
                                !.active   = (@ \cup back) \ Released(board, e)]
Update == /\ Calls("update") /\ Called /\ UNCHANGED handle
          /\ \E e \in Edits : \E back \in Refills(board, e) : UpdateWith(e, back)
UpdateRejected == Calls("update") /\ Refused

(* ResearchComplete.                                                       *)
Complete(d) == d # NoDraft /\ d.framing = Field /\ DOMAIN d.aspects # {}
(* Mutant: tasks in flight are overlooked.                                 *)
Freezable_InFlight(b) ==
  /\ Complete(b.draft) /\ Fresh(b)
  /\ Bound(b.draft) # {} \/ b.exhausted
Freezable(b) ==
  /\ b.pending = {}
  /\ Complete(b.draft) /\ Fresh(b)
  /\ Bound(b.draft) # {} \/ b.exhausted
FreezeChannels(c, b) ==
  [c EXCEPT !.frozen = IF b.frozen = NoDraft THEN @ ELSE b.frozen, !.stop = Stronger(@, b.stop)]
Freeze ==
  /\ Calls("complete") /\ Freezable(board)
  /\ board' = [board EXCEPT !.frozen = board.draft,
                 !.stop = Stronger(@, IF Bound(board.draft) = {} THEN "provider" ELSE "completed")]
  /\ channel' = FreezeChannels(channel, board') /\ Called /\ UNCHANGED handle
FreezeRejected ==
  /\ Calls("complete") /\ ~Freezable(board)
  /\ channel' = FreezeChannels(channel, board) /\ Called /\ UNCHANGED <<board, handle>>

BatchDone ==
  /\ next = "tools" /\ batch.calls = <<>>
  /\ next' = "refresh" /\ batch' = NoBatch
  /\ UNCHANGED <<entry, channel, board, handle, turns, quota, rejections, capped, round, verdict,
                 crashes, aged, astray>>

Tools == \/ Delegate \/ DelegateBlocked \/ DelegateBound \/ Wait \/ WaitInVain \/ Update \/ UpdateRejected
         \/ Freeze \/ FreezeRejected \/ BatchDone

-----------------------------------------------------------------------------
(* THE END OF A ROUND *)

(* What the Writer gets to cite: the frozen synthesis; failing that, where *)
(* the reason to stop allows it, the draft or else all active evidence.    *)
FinalStop(b) == IF b.frozen # NoDraft \/ b.stop # "none" THEN b.stop
                ELSE IF b.exhausted THEN "provider" ELSE "ended"
PartialCites(b) ==
  IF Bound(b.draft) # {} /\ Bound(b.draft) \subseteq b.active THEN Bound(b.draft) ELSE b.active
Verdict(b) ==
  [mode  |-> IF b.frozen # NoDraft THEN "full"
             ELSE IF FinalStop(b) \in AllowsPartial /\ PartialCites(b) # {} THEN "partial"
             ELSE "none",
   stop  |-> FinalStop(b),
   cites |-> IF b.frozen # NoDraft THEN Bound(b.frozen)
             ELSE IF FinalStop(b) \in AllowsPartial THEN PartialCites(b) ELSE {}]

(* What still runs when the round is left is cancelled and waited for.     *)
(* Mutant: it is left alone.                                               *)
StopResidual_Escapes == UNCHANGED handle
StopResidual == handle' = [t \in Task |-> "none"]

Close(b) ==
  /\ verdict' = Verdict(b)
  /\ entry' = [b EXCEPT !.archive = @ \cup entry.archive,
                 !.settled = [t \in Task |-> IF @[t] = "none" THEN entry.settled[t] ELSE @[t]]]
  /\ StopResidual
  /\ next' = "over"
  /\ UNCHANGED <<channel, batch, turns, quota, rejections, capped, round, crashes, aged, astray>>

(* After a normal end what is in flight is waited for and taken in.        *)
Drained == [channel EXCEPT !.stop = IF capped /\ channel.frozen = NoDraft
                                    THEN Stronger(@, "model_calls") ELSE @]
Drain ==
  /\ next = "drain" /\ Live = {}
  /\ board' = Absorb(Drained)
  /\ Close(Absorb(Drained))

(* An exception ends the round with the board as it is; the tasks still    *)
(* running are cancelled and finished results not yet received are lost.   *)
Fail ==
  /\ next \in {"model", "tools"}
  /\ board' = [board EXCEPT !.stop = Stronger(@, "failed")]
  /\ Close(board')

(* The reviewer rejects the report and attempts are left.                  *)
NextRound ==
  /\ next = "over" /\ verdict.mode # "none" /\ round < MaxReviews
  /\ round' = round + 1 /\ verdict' = NoVerdict
  /\ entry' = Seed(entry) /\ channel' = Seed(entry) /\ board' = Seed(entry)
  /\ next' = "refresh" /\ batch' = NoBatch
  /\ turns' = 0 /\ quota' = 0 /\ rejections' = 0 /\ capped' = FALSE
  /\ UNCHANGED <<handle, crashes, aged, astray>>

(* The process dies, or the node is cancelled; another execution resumes   *)
(* the inner graph at the step it stood at.  Its board is the one the      *)
(* round began with, and only a refresh replaces it.                       *)
Crash ==
  /\ next \in CrashPoints /\ crashes < MaxCrashes
  /\ crashes' = crashes + 1
  /\ board' = entry
  /\ handle' = [t \in Task |-> "none"]
  /\ turns' = 0 /\ quota' = 0 /\ rejections' = 0
  /\ aged' = (next \in {"model", "tools"})
  /\ astray' = (astray \/ (next = "tools" /\ batch.calls # <<>>))
  /\ UNCHANGED <<entry, channel, next, batch, capped, round, verdict>>

Next ==
  \/ Refresh \/ Submitted \/ CallLimit \/ Reply \/ Tools \/ Drain \/ Fail \/ NextRound \/ Crash
  \/ \E t \in Task : Finish(t)

Spec == Init /\ [][Next]_vars

(* The loop goes on, the model answers, and every research task ends.  A   *)
(* call of WaitTask need not have a limit of time.                         *)
FairSpec == /\ Spec
            /\ WF_vars(Refresh) /\ WF_vars(Submitted) /\ WF_vars(CallLimit) /\ WF_vars(Reply)
            /\ WF_vars(Tools /\ ~WaitInVain) /\ WF_vars(Drain)
            /\ \A t \in Task : WF_vars(Finish(t))

-----------------------------------------------------------------------------
(* PROPERTIES *)

TypeOK ==
  /\ {entry, channel, board} \subseteq Workbench
  /\ handle \in [Task -> {"none", "live", "found", "failed", "exhausted"}]
  /\ next \in {"refresh", "model", "tools", "drain", "over"}
  /\ batch.calls \in Seq(Tool) /\ batch.base \in Nat
  /\ turns \in 0 .. MaxTurns /\ quota \in 0 .. MaxPerRound /\ rejections \in 0 .. MaxRejections
  /\ round \in 1 .. MaxReviews /\ crashes \in 0 .. MaxCrashes
  /\ verdict \in [mode : {"open", "full", "partial", "none"}, stop : Stop, cites : SUBSET Task]
  /\ {capped, aged, astray} \subseteq BOOLEAN

(* While the model thinks and the tools run, the board and the channels    *)
(* hold the same workbench: what a tool does to the one in place, the      *)
(* reducers do to the other from the increments it returns (state.py,      *)
(* from_channel_values; reducers.py).  Only the tasks of the running batch *)
(* are registered in the channels alone, and a reason to stop may be noted *)
(* on the board alone.  A board older than the channels is excepted.       *)
BoardMirrorsChannels ==
  next \in {"model", "tools"} /\ ~aged =>
    /\ [board EXCEPT !.stop = channel.stop, !.pending = channel.pending] = channel
    /\ board.pending \subseteq channel.pending
    /\ Rank[board.stop] >= Rank[channel.stop]

(* A frozen synthesis is the latest one, complete, drawn up over the       *)
(* present working set, with no task in flight, and stays so until the     *)
(* round is over (services.py, freeze_synthesis) - unless a tool has       *)
(* worked on an aged board or a serial tool has run in company.            *)
FrozenIsCurrent ==
  channel.frozen # NoDraft /\ ~astray =>
    /\ channel.pending = {} /\ Live = {}
    /\ channel.frozen = channel.draft
    /\ Fresh(channel) /\ Complete(channel.frozen)

(* The active set respects its limit and holds archived evidence only,     *)
(* whatever tasks bring in and the model releases and restores (state.py,  *)
(* absorb, restore_evidence) - with the same exception.                    *)
ActiveWithinLimit ==
  ~astray => Cardinality(channel.active) <= ActiveLimit /\ channel.active \subseteq channel.archive

(* A task in memory is registered in the channels, so that a crash cannot  *)
(* make it disappear, and no task outlives the round (agent.py,            *)
(* _stop_residual_tasks).                                                  *)
TasksRegistered ==
  {t \in Task : handle[t] # "none"} \subseteq IF next = "over" THEN {} ELSE channel.pending

(* The result of a task is final: no later task gets its index and         *)
(* replaces it, within a round not even after a crash, and in the next     *)
(* round with the exception above (state.py, _used_task_index).            *)
ResultsAreFinal ==
  [][\A t \in Task : channel.settled[t] # "none" /\ (round' = round \/ ~astray)
                     => channel'.settled[t] = channel.settled[t]]_vars

(* A round ends: the model may do what it likes, its calls are counted.    *)
RoundEnds == next # "over" ~> next = "over"
=============================================================================
