------------------------------ MODULE Pipeline ------------------------------
(***************************************************************************)
(* One run of the research graph (graph.py, routing.py, nodes,             *)
(* node_runner.py): router, clarification, quick answer, Supervisor,       *)
(* Writer, reviewer and the final rendering, with the row of the run as    *)
(* far as the user's answers travel in it.                                 *)
(*                                                                         *)
(* The graph is saved after every step of a node's own graph; a crash      *)
(* loses what is in memory, and the run goes on from what was saved.  The  *)
(* Supervisor's rounds are those of module Supervisor and appear here by   *)
(* their verdict.  A draft is a number; the history below tells what it    *)
(* cites and what the reviewer said of it.                                 *)
(***************************************************************************)
EXTENDS Clarifier, Writer

CONSTANTS
  Usable,        \* evidence that has the minimum support for writing
  NoDirective,
  MaxReviews,    \* max_review_attempts
  Replies,       \* bound: the sets of tool calls a reply of the Writer's model may be
  Texts,         \* bound: the plain texts it may write
  MaxCrashes     \* bound: crashes of the worker

ASSUME PipelineAssumption ==
  /\ Usable \subseteq Evidence
  /\ MaxReviews \in Nat \ {0} /\ MaxCrashes \in Nat
  /\ \A reply \in Replies : reply \subseteq Call
  /\ Texts \subseteq Cites \cup {NoDraft}

VARIABLES
  node,       \* the node of the graph that runs next
  st,         \* the channels of the graph (RunState)
  row,        \* status and resume_payload of the run's row
  host,       \* whether a worker runs the graph
  resume,     \* the answer this worker resumes the graph with, 0 if none
  shown,      \* history: the questions put to the user
  written,    \* history: for each draft, what it cites and was offered
  judged,     \* history: for each draft, the reviewer's decision
  crashes

runVars == <<node, st, row, host, resume, shown, written, judged, crashes>>
vars == <<clarVars, writerVars, runVars>>

NodeName == {"router", "clarify", "quick_answer", "supervisor", "writer", "review",
             "render_final_report", "end"}
TerminalPhases == {"failed", "rendering", "completed"}
Draft == 1 .. MaxReviews

(* RunStatus.phase; RenderOutcome, the Supervisor's reasons as one, and    *)
(* those of a failure.                                                     *)
Phase == {"routing", "researching", "writing", "reviewing"} \cup TerminalPhases
Outcome == {"quick_answer", "writer_exhausted", "research_incomplete",
            "review_recovery_exhausted", "review_rejected", "review_failed",
            "missing_report_draft", "report_rendered"}
Failure == {"node_failed", "budget_exhausted"}

State == [phase : Phase, reason : Outcome \cup Failure \cup {"none", "stopped"},
          error : BOOLEAN,
          route : {"none", "quick_answer", "deep_research"},
          mode : {"none", "quick_answer", "deep_research", "research_incomplete", "review_limited"},
          research : {"not_started", "completed", "incomplete"},
          next : {"writer", "render_final_report"},
          directive : (SUBSET Evidence) \cup {NoDirective},
          draft : 0 .. MaxReviews, citations : 0 .. MaxReviews,
          writer : {"not_started", "completed", "failed", "exhausted"},
          review : {"pending", "approved", "rejected", "failed"},
          attempts : Nat,
          report : {"none", "answer", "incomplete", "draft"}]

Init ==
  /\ ClarInit /\ WriterInit
  /\ node = "router"
  /\ st = [phase |-> "routing", reason |-> "none", error |-> FALSE, route |-> "none", mode |-> "none",
           research |-> "not_started", next |-> "writer", directive |-> NoDirective,
           draft |-> 0, citations |-> 0, writer |-> "not_started", review |-> "pending",
           attempts |-> 0, report |-> "none"]
  /\ row = [status |-> "running", payload |-> 0] /\ host = "up" /\ resume = 0
  /\ shown = {} /\ written = <<>> /\ judged = [d \in Draft |-> "unread"]
  /\ crashes = 0

-----------------------------------------------------------------------------
(* THE RUNNER OF THE NODES *)

Set(s, phase, reason) == [s EXCEPT !.phase = phase, !.reason = reason]

(* validate_state_invariants on the state as it would be.                  *)
Valid(s) == /\ s.phase = "failed" => s.error
            /\ s.reason # "none" => s.phase \in TerminalPhases

(* An ordinary exception ends the run with what was written so far.        *)
Failed(s, reason) ==
  [Set(s, "failed", reason) EXCEPT
     !.error = TRUE, !.mode = "research_incomplete", !.next = "render_final_report",
     !.report = IF s.draft # 0 /\ s.citations # 0 THEN "draft" ELSE "incomplete"]

(* The node's result becomes the state, and the router picks what is next. *)
RouteAfter(s, normal) == IF s.phase \in TerminalPhases THEN "render_final_report" ELSE normal
Goto(s, normal) ==
  LET after == IF Valid(s) THEN s ELSE Failed(st, "node_failed")
  IN st' = after /\ node' = RouteAfter(after, normal)

At(n) == host = "up" /\ node = n
Quiet == UNCHANGED <<row, host, resume, shown, crashes>>
Still == Quiet /\ UNCHANGED <<clarVars, writerVars, written, judged>>

(* Any node may raise; a run whose budget is used up raises at a model     *)
(* call.  The loop of the Supervisor catches both itself (see StopResearch)*)
(* and only what it does before and after the loop can still fail the node.*)
Callers == {"router", "clarify", "quick_answer", "writer", "review"}
AskingModel == /\ node = "clarify" => clarPc = "agent"
               /\ node = "writer" => loop = "model"

NodeFails ==
  /\ host = "up" /\ node # "end"
  /\ st' = Failed(st, "node_failed")
  /\ node' = IF node = "render_final_report" THEN "end" ELSE "render_final_report"
  /\ row' = IF node' = "end" THEN [status |-> "completed", payload |-> 0] ELSE row
  /\ UNCHANGED <<clarVars, writerVars, host, resume, shown, written, judged, crashes>>

BudgetRefused ==
  /\ host = "up" /\ node \in Callers /\ AskingModel
  /\ st' = Failed(st, "budget_exhausted") /\ node' = "render_final_report"
  /\ Quiet /\ UNCHANGED <<clarVars, writerVars, written, judged>>

-----------------------------------------------------------------------------
(* ROUTER, QUICK ANSWER, CLARIFICATION *)

(* A model that cannot be reached sends the query to deep research.        *)
Route(r) ==
  /\ At("router")
  /\ Goto([Set(st, "routing", "none") EXCEPT !.route = r],
          IF r = "quick_answer" THEN "quick_answer" ELSE "clarify")
  /\ Still

QuickAnswer ==
  /\ At("quick_answer")
  /\ Goto([Set(st, "writing", "none") EXCEPT !.mode = "quick_answer", !.research = "completed"],
          "writer")
  /\ Still

InClarifier == At("clarify") /\ UNCHANGED <<writerVars, written, judged>>

ClarifierStep ==
  /\ InClarifier
  /\ \/ (ClarStart \/ AgentTurn \/ Finalize) /\ Quiet /\ UNCHANGED <<node, st>>
     \/ /\ resume # 0 /\ TakeAnswer(resume) /\ resume' = 0
        /\ UNCHANGED <<node, st, row, host, shown, crashes>>

(* No answer came with the resume: the graph is interrupted, the executor  *)
(* writes the pause to the row and the user sees the question.             *)
Interrupt ==
  /\ InClarifier /\ clarPc = "ask" /\ resume = 0
  /\ row' = [status |-> "awaiting_input", payload |-> 0] /\ host' = "none"
  /\ shown' = shown \cup {pending}
  /\ UNCHANGED <<clarVars, node, st, resume, crashes>>

ClarifyEnds ==
  /\ InClarifier /\ clarPc = "over"
  /\ Goto([Set(st, "researching", "none") EXCEPT !.mode = "deep_research"], "supervisor")
  /\ Quiet /\ UNCHANGED clarVars

(* The user answers the question on the page; the row carries the answer.  *)
UserAnswers ==
  /\ row.status = "awaiting_input"
  /\ row' = [status |-> "queued", payload |-> pending]
  /\ UNCHANGED <<clarVars, writerVars, node, st, host, resume, shown, written, judged, crashes>>

(* A worker claims the run.  The answer stays in the row until the next    *)
(* pause, and every worker that claims the run resumes with it.  Mutant:   *)
(* a running row is never taken over.                                      *)
Claimable_NoTakeover == row.status = "queued"
Claimable == row.status \in {"queued", "running"}

Claim ==
  /\ host = "none" /\ Claimable
  /\ host' = "up" /\ row' = [row EXCEPT !.status = "running"] /\ resume' = row.payload
  /\ UNCHANGED <<clarVars, writerVars, node, st, shown, written, judged, crashes>>

Crash ==
  /\ host = "up" /\ node # "end" /\ crashes < MaxCrashes
  /\ crashes' = crashes + 1
  /\ host' = "none" /\ resume' = 0
  /\ WriterCrash
  /\ clarTurns' = 0
  /\ UNCHANGED <<clarPc, asked, pending, intent, dialogue, node, st, row, shown, written,
                 judged>>

-----------------------------------------------------------------------------
(* SUPERVISOR *)

(* Mutant: a review too early.                                             *)
ReviewsUsedUp_Early == st.review = "rejected" /\ st.attempts >= MaxReviews - 1
ReviewsUsedUp == st.review = "rejected" /\ st.attempts >= MaxReviews

(* The review rounds are used up: the last draft is delivered.             *)
GiveUpRevising ==
  /\ At("supervisor") /\ ReviewsUsedUp
  /\ Goto([Set(st, "rendering", "review_recovery_exhausted") EXCEPT
             !.directive = NoDirective, !.next = "render_final_report"],
          "render_final_report")
  /\ Still

(* A round that ends with a full or a partial synthesis.                   *)
HandToWriter(chosen, status) ==
  /\ At("supervisor") /\ ~ReviewsUsedUp
  /\ Goto([Set(st, "writing", "none") EXCEPT
             !.directive = chosen, !.research = status, !.writer = "not_started",
             !.next = "writer"], "writer")
  /\ Still

(* A round that ends with nothing to write.  An exception of the loop is   *)
(* such an end, the refusal of the budget among them.                      *)
StopResearch ==
  /\ At("supervisor") /\ ~ReviewsUsedUp
  /\ Goto([Set(st, "rendering", "stopped") EXCEPT
             !.directive = NoDirective, !.research = "incomplete", !.writer = "not_started",
             !.next = "render_final_report"], "render_final_report")
  /\ Quiet /\ UNCHANGED <<clarVars, writerVars, written, judged>>

-----------------------------------------------------------------------------
(* WRITER *)

InWriter == At("writer") /\ st.mode # "quick_answer"

WriteQuickAnswer ==
  /\ At("writer") /\ st.mode = "quick_answer"
  /\ Goto([Set(st, "rendering", "none") EXCEPT !.citations = 0, !.report = "answer",
             !.writer = "completed"], "review")
  /\ Still

Catalogue == st.directive \cap Usable

NothingUsable ==
  /\ InWriter /\ loop = "off" /\ Catalogue = {}
  /\ Goto([Set(st, "rendering", "none") EXCEPT
             !.citations = 0, !.mode = "research_incomplete", !.report = "incomplete",
             !.writer = "failed"], "review")
  /\ Still

BeginWriting ==
  /\ InWriter /\ loop = "off" /\ Catalogue # {}
  /\ WriterStart(Catalogue)
  /\ Quiet /\ UNCHANGED <<clarVars, node, st, written, judged>>

KeepWriting ==
  /\ InWriter /\ WriterStep(Replies, Texts)
  /\ Quiet /\ UNCHANGED <<clarVars, node, st, written, judged>>

WriterOff == WriterReset("off", {})

(* A new draft waits for its review; the attempts go on counting.          *)
Drafted(d) ==
  [Set(st, "reviewing", "none") EXCEPT
     !.draft = d, !.citations = d, !.mode = "deep_research", !.writer = "completed",
     !.review = "pending"]

DraftReady ==
  /\ InWriter /\ loop = "over" /\ Settled # NoDraft
  /\ written' = Append(written, [cites |-> Settled, offered |-> offered, read |-> readCh])
  /\ Goto(Drafted(Len(written')), "review")
  /\ WriterOff
  /\ Quiet /\ UNCHANGED <<clarVars, judged>>

WritingExhausted ==
  /\ InWriter /\ loop = "over" /\ Settled = NoDraft
  /\ Goto([Set(st, "rendering", "none") EXCEPT !.writer = "exhausted", !.review = "pending"],
          "review")
  /\ WriterOff
  /\ Quiet /\ UNCHANGED <<clarVars, written, judged>>

-----------------------------------------------------------------------------
(* REVIEW AND RENDERING *)

(* failed: the reviewer's answer was cut off at the length limit.          *)
Review(decision) ==
  /\ At("review") /\ st.draft # 0
  /\ Goto([st EXCEPT !.review = decision, !.attempts = @ + 1],
          IF decision \in {"approved", "failed"} THEN "render_final_report" ELSE "supervisor")
  /\ judged' = [judged EXCEPT ![st.draft] = decision]
  /\ Quiet /\ UNCHANGED <<clarVars, writerVars, written>>

Complete(reason, mode, report) ==
  [Set(st, "completed", reason) EXCEPT !.mode = mode, !.report = report]

Deliverable == st.citations # 0 /\ st.draft # 0

(* render_final_report_node, case by case.                                 *)
Rendered ==
  LET incomplete(reason) == Complete(reason, "research_incomplete", "incomplete")
      limited(reason)    == Complete(reason, "review_limited", "draft")
  IN IF st.phase = "failed" THEN st
     ELSE IF st.mode = "quick_answer" THEN Complete("quick_answer", st.mode, st.report)
     ELSE IF st.writer \in {"failed", "exhausted"} THEN incomplete("writer_exhausted")
     ELSE IF st.research = "incomplete" /\ st.draft = 0 THEN incomplete("research_incomplete")
     ELSE IF st.mode = "research_incomplete"
          THEN Complete("research_incomplete", st.mode, st.report)
     ELSE IF st.reason = "review_recovery_exhausted" /\ Deliverable
          THEN limited("review_recovery_exhausted")
     ELSE IF st.review = "failed" /\ Deliverable THEN limited("review_failed")
     ELSE IF st.review = "rejected" THEN incomplete("review_rejected")
     ELSE IF ~Deliverable THEN incomplete("missing_report_draft")
     ELSE Complete("report_rendered", st.mode, "draft")

Render ==
  /\ At("render_final_report")
  /\ st' = (IF Valid(Rendered) THEN Rendered ELSE Failed(st, "node_failed"))
  /\ node' = "end" /\ row' = [status |-> "completed", payload |-> 0]
  /\ UNCHANGED <<clarVars, writerVars, host, resume, shown, written, judged, crashes>>

-----------------------------------------------------------------------------
Step ==
  \/ \E r \in {"quick_answer", "deep_research"} : Route(r)
  \/ QuickAnswer
  \/ ClarifierStep \/ Interrupt \/ ClarifyEnds
  \/ GiveUpRevising
  \/ \E chosen \in (SUBSET Evidence) \ {{}}, status \in {"completed", "incomplete"} :
        HandToWriter(chosen, status)
  \/ StopResearch
  \/ WriteQuickAnswer \/ NothingUsable \/ BeginWriting \/ KeepWriting
  \/ DraftReady \/ WritingExhausted
  \/ \E decision \in {"approved", "rejected", "failed"} : Review(decision)
  \/ Render
  \/ NodeFails \/ BudgetRefused

Next == Step \/ UserAnswers \/ Claim \/ Crash

Spec == Init /\ [][Next]_vars

(* A worker that runs the graph goes on, and a run that waits for a worker *)
(* gets one; users need not answer.                                        *)
FairSpec == Spec /\ WF_vars(Step) /\ WF_vars(Claim)

-----------------------------------------------------------------------------
(* PROPERTIES *)

(* Types of the variables.                                                 *)
TypeOK ==
  /\ clarPc \in {"off", "agent", "ask", "finalize", "over"}
  /\ clarTurns \in 0 .. ClarifierTurns /\ asked \in Nat
  /\ pending \in Nat /\ intent \in BOOLEAN /\ dialogue \in Seq(Entry)
  /\ loop \in {"off", "refresh", "model", "tools", "over"}
  /\ {offered, readCh, readMem} \subseteq SUBSET Evidence
  /\ {draftCh, draftMem, inline} \subseteq Cites \cup {NoDraft}
  /\ calls \subseteq Call
  /\ writerTurns \in 0 .. WriterTurns /\ nudges \in 0 .. WriterNudges
  /\ node \in NodeName /\ st \in State
  /\ row \in [status : {"running", "awaiting_input", "queued", "completed"},
              payload : Nat]
  /\ host \in {"up", "none"} /\ resume \in Nat /\ shown \subseteq Question
  /\ written \in Seq([cites : Cites, offered : SUBSET Evidence, read : SUBSET Evidence])
  /\ judged \in [Draft -> {"unread", "approved", "rejected", "failed"}]
  /\ crashes \in 0 .. MaxCrashes

Ended == node = "end"

(* A report delivered as complete is the draft the reviewer approved, with *)
(* the citations of that same draft; a draft it rejected, or did not get   *)
(* to judge, is delivered only under an outcome that says so (nodes/render *)
(* and routing.py over all the ways through the graph).                    *)
ReportIsReviewed ==
  Ended =>
    /\ st.reason = "report_rendered" =>
         st.draft # 0 /\ st.citations = st.draft /\ judged[st.draft] = "approved"
    /\ st.report = "draft" /\ judged[st.draft] = "rejected" =>
         \/ st.reason = "review_recovery_exhausted" /\ st.attempts = MaxReviews
         \/ st.phase = "failed"
    /\ st.report = "draft" /\ judged[st.draft] \in {"unread", "failed"} =>
         st.reason = "review_failed" \/ st.phase = "failed"

(* What a draft cites was handed over by the Supervisor for that very      *)
(* writing, has the minimum support, and was read by the Writer in it:     *)
(* nothing invented and nothing left over from an earlier draft, whatever  *)
(* a crash took from memory.                                               *)
CitesAreRead ==
  \A d \in DOMAIN written :
    written[d].cites # {} /\ written[d].cites \subseteq
      written[d].read \cap written[d].offered \cap Usable

(* Every draft is counted by exactly one review, over crashes and          *)
(* revisions, so that the limit of reviews is one of the whole run         *)
(* (state_update_for_ready_result keeps the count).                        *)
AttemptsCountReviews ==
  /\ st.attempts = Cardinality({d \in Draft : judged[d] # "unread"})
  /\ Len(written) <= MaxReviews

(* The user sees at most MaxQuestions different questions, over crashes    *)
(* and resumptions, and no question after the research has begun.          *)
QuestionsBounded ==
  /\ shown \subseteq 1 .. asked /\ Cardinality(shown) <= MaxQuestions
  /\ row.status \in {"awaiting_input", "queued"} => node = "clarify" /\ pending = asked

(* A draft that the Writer's loop has accepted is the one the node hands   *)
(* on, also if the process dies after it was accepted (the rebuild after   *)
(* the loop in Writer.run); only a failure of the node loses it.           *)
AcceptedDraftSurvives ==
  [][node = "writer" /\ draftCh # NoDraft /\ node' # node =>
       \/ st'.phase = "failed"
       \/ st'.phase = "reviewing" /\ written'[st'.draft].cites = draftCh]_vars

(* A run ends, or waits for the user and for nothing else.                 *)
RunSettles == <>[](Ended \/ row.status = "awaiting_input")
=============================================================================
