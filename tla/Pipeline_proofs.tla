--------------------------- MODULE Pipeline_proofs ---------------------------
(***************************************************************************)
(* What the graph of a run promises of its report and of its questions,    *)
(* for any evidence, any limits and any number of crashes.                 *)
(***************************************************************************)
EXTENDS Pipeline, FiniteSetTheorems, SequenceTheorems, TLAPS

(* QUESTIONS: who waits for the user waits at the node that asked.         *)
Questions ==
  /\ asked \in 0 .. MaxQuestions
  /\ clarPc = "ask" => asked > 0 /\ pending = asked
  /\ shown \subseteq 1 .. asked
  /\ row.status \in {"awaiting_input", "queued"} =>
       node = "clarify" /\ clarPc = "ask" /\ host = "none"

(* READING: the context knows no more than the channels do, and what was   *)
(* accepted is among what was read of what was offered.                    *)
Reading == [cites : SUBSET Usable, offered : SUBSET Usable, read : SUBSET Usable]

Reads ==
  /\ offered \subseteq Usable /\ readCh \subseteq offered /\ readMem \subseteq readCh
  /\ draftCh # NoDraft => draftCh # {} /\ draftCh \subseteq readCh
  /\ written \in Seq(Reading) /\ CitesAreRead

(* The Writer's loop runs in its node and holds nothing outside of it.     *)
Loops ==
  /\ loop = "off" => draftCh = NoDraft
  /\ loop # "off" => \/ node = "writer" /\ st.mode # "quick_answer"
                     \/ node \in {"render_final_report", "end"}

(* COUNTING: drafts, reviews and attempts agree, node by node.             *)
Early == {"router", "clarify", "quick_answer"}

Field == {"phase", "reason", "error", "route", "mode", "research", "next", "directive",
          "draft", "citations", "writer", "review", "attempts", "report"}

HasFields(s) == DOMAIN s = Field

Decision == {"approved", "rejected", "failed"}

Types ==
  /\ HasFields(st) /\ st.attempts \in Nat /\ node \in NodeName
  /\ st.review \in {"pending"} \cup Decision
  /\ judged \in [Draft -> {"unread"} \cup Decision]

Counts ==
  /\ st.draft = Len(written) /\ st.draft <= MaxReviews
  /\ st.draft \in {st.attempts, st.attempts + 1} /\ st.citations \in {0, st.draft}
  /\ \A d \in Draft : judged[d] = "unread" <=> d > st.attempts
  /\ st.review # "pending" =>
       st.attempts > 0 /\ st.draft = st.attempts /\ judged[st.attempts] = st.review
  /\ st.reason = "review_recovery_exhausted" =>
       st.attempts = MaxReviews /\ st.review = "rejected"

Nodes ==
  /\ node \in Early => st.draft = 0 /\ st.attempts = 0
  /\ node = "supervisor" =>
       st.draft = st.attempts /\ (st.draft # 0 => st.review = "rejected")
  /\ node = "writer" => st.draft = st.attempts /\ st.attempts < MaxReviews
  /\ node = "review" => st.phase = "reviewing" /\ st.draft = st.attempts + 1
  /\ node = "render_final_report" /\ st.phase # "failed" =>
       \/ st.review # "pending" \/ st.draft = 0
       \/ st.writer \in {"failed", "exhausted"} \/ st.mode = "quick_answer"
  /\ st.phase \in TerminalPhases => node \in {"render_final_report", "end"}

Reports ==
  /\ Valid(st)
  /\ node # "end" =>
       st.reason # "report_rendered" /\ (st.report = "draft" => st.phase = "failed")
  /\ ReportIsReviewed

Inv == Questions /\ Reads /\ Loops /\ Types /\ Counts /\ Nodes /\ Reports

-----------------------------------------------------------------------------
(* THE STEPS *)

LEMMA Limits == MaxReviews \in Nat /\ MaxReviews > 0
BY PipelineAssumption

LEMMA InitInv == Init => Inv
<1> SUFFICES ASSUME Init PROVE Inv
  OBVIOUS
<1>1. Questions
  <2>1. asked = 0 /\ clarPc = "off" /\ shown = {} /\ row.status = "running"
    BY DEF Init, ClarInit
  <2> QED
    BY <2>1, ClarifierAssumption DEF Questions
<1>2. Reads /\ Loops
  <2>1. /\ loop = "off" /\ offered = {} /\ readCh = {} /\ readMem = {} /\ draftCh = NoDraft
        /\ written = <<>>
    BY DEF Init, WriterInit
  <2> QED
    BY <2>1 DEF Reads, Loops, CitesAreRead
<1>3. /\ node = "router" /\ written = <<>>
      /\ st.phase = "routing" /\ st.reason = "none" /\ st.draft = 0 /\ st.citations = 0
      /\ st.review = "pending" /\ st.attempts = 0 /\ st.report = "none"
      /\ judged = [d \in Draft |-> "unread"]
  <2>1. node = "router" /\ written = <<>> /\ judged = [d \in Draft |-> "unread"]
    BY DEF Init
  <2>3. st.phase = "routing" /\ st.reason = "none" /\ st.report = "none"
    BY DEF Init
  <2>4. st.review = "pending" /\ st.attempts = 0
    BY DEF Init
  <2>5. st.draft = 0
    BY DEF Init
  <2>6. st.citations = 0
    BY DEF Init
  <2> QED
    BY <2>1, <2>3, <2>4, <2>5, <2>6
<1>31. HasFields(st)
  BY DEF Init, HasFields, Field
<1>4. Types /\ Counts
  BY <1>3, <1>31, Limits DEF Types, Counts, NodeName, Decision, Draft
<1>5. Nodes /\ Reports
  BY <1>3 DEF Nodes, Reports, Early, Valid, TerminalPhases, ReportIsReviewed, Ended
<1> QED
  BY <1>1, <1>2, <1>4, <1>5 DEF Inv

(* The actions that leave the graph's own state alone.                     *)
Inner ==
  \/ ClarifierStep \/ Interrupt \/ BeginWriting \/ KeepWriting
  \/ UserAnswers \/ Claim \/ Crash

(* The actions that end a node's run.                                      *)
Outer ==
  \/ \E r \in {"quick_answer", "deep_research"} : Route(r)
  \/ QuickAnswer \/ ClarifyEnds \/ GiveUpRevising
  \/ \E chosen \in (SUBSET Evidence) \ {{}}, status \in {"completed", "incomplete"} :
        HandToWriter(chosen, status)
  \/ StopResearch \/ WriteQuickAnswer \/ NothingUsable \/ DraftReady \/ WritingExhausted
  \/ \E decision \in {"approved", "rejected", "failed"} : Review(decision)
  \/ Render \/ NodeFails \/ BudgetRefused

LEMMA InnerOrOuter == Next => Inner \/ Outer
BY DEF Next, Step, Inner, Outer

LEMMA InnerKeeps == Inner => UNCHANGED <<node, st, written, judged>>
BY DEF Inner, ClarifierStep, InClarifier, Interrupt, BeginWriting, KeepWriting, UserAnswers,
       Claim, Crash, Quiet

(* The outcome of a node that returns a state which is valid.              *)
LEMMA Goes ==
  ASSUME NEW s, NEW n, Goto(s, n), Valid(s)
  PROVE  st' = s /\ node' = RouteAfter(s, n)
BY DEF Goto

(* What a failure of a node leaves.                                        *)
LEMMA FailedState ==
  ASSUME NEW s, HasFields(s), NEW reason \in Failure
  PROVE  /\ HasFields(Failed(s, reason)) /\ Valid(Failed(s, reason))
         /\ Failed(s, reason).phase = "failed" /\ Failed(s, reason).reason = reason
         /\ Failed(s, reason).attempts = s.attempts /\ Failed(s, reason).draft = s.draft
         /\ Failed(s, reason).citations = s.citations
         /\ Failed(s, reason).review = s.review
BY DEF Failed, Set, HasFields, Field, Failure, Valid, TerminalPhases

LEMMA ReviewedRest ==
  ASSUME node' # "end" PROVE ReportIsReviewed'
BY DEF ReportIsReviewed, Ended

(* A node that fails: nothing is counted, and the way leads to the end.    *)
LEMMA FailureKeeps ==
  ASSUME Inv, NEW reason \in Failure, st' = Failed(st, reason),
         node' \in {"render_final_report", "end"}, UNCHANGED <<written, judged>>
  PROVE  (Types /\ Counts /\ Nodes /\ Reports)'
<1>1. /\ HasFields(st)' /\ Valid(st)' /\ st'.phase = "failed" /\ st'.reason = reason
      /\ st'.attempts = st.attempts /\ st'.draft = st.draft
      /\ st'.citations = st.citations /\ st'.review = st.review
  BY FailedState DEF Inv, Types, Valid
<1>2. reason \notin {"review_recovery_exhausted", "report_rendered"}
  BY DEF Failure
<1>3. Types' /\ Counts'
  BY <1>1, <1>2 DEF Inv, Types, Counts, NodeName
<1>4. Nodes'
  BY <1>1 DEF Nodes, Early, TerminalPhases
<1>5. ReportIsReviewed'
  BY <1>1, <1>2 DEF ReportIsReviewed
<1>6. Reports'
  BY <1>1, <1>2, <1>5 DEF Reports
<1> QED
  BY <1>3, <1>4, <1>6

LEMMA OuterCounts ==
  ASSUME Inv, Outer
  PROVE  (Types /\ Counts /\ Nodes /\ Reports)'
<1> USE DEF Inv
<1> DEFINE Keeps == (Types /\ Counts /\ Nodes /\ Reports)'
           Counted(s) == /\ HasFields(s) /\ s.attempts = st.attempts /\ s.draft = st.draft
                         /\ s.citations = st.citations /\ s.review = st.review
(* A step to another node that counts nothing and ends nothing.            *)
<1>0. ASSUME NEW s, NEW n, Goto(s, n), Counted(s), UNCHANGED <<written, judged>>,
             s.reason = "none", s.phase \notin TerminalPhases, s.report = st.report,
             n \in {"clarify", "quick_answer", "supervisor", "writer"},
             node \in {"router", "clarify", "quick_answer", "supervisor"},
             n \in {"clarify", "quick_answer"} => node = "router",
             n = "supervisor" => node = "clarify",
             n = "writer" => st.attempts < MaxReviews
      PROVE  Keeps
  <2>1. Valid(s)
    BY <1>0 DEF Valid, TerminalPhases
  <2>2. st' = s /\ node' = n
    BY <1>0, <2>1, Goes DEF RouteAfter
  <2>3. st.report # "draft"
    BY <1>0 DEF Reports, Nodes, TerminalPhases
  <2>4. Types' /\ Counts'
    BY <1>0, <2>2 DEF Types, Counts, NodeName, Decision
  <2>5. Nodes'
    BY <1>0, <2>2 DEF Nodes, Early
  <2>6. Reports'
    BY <1>0, <2>1, <2>2, <2>3, ReviewedRest DEF Reports, Valid
  <2> QED
    BY <2>4, <2>5, <2>6
(* A step that ends the work on the run without failing.                   *)
<1>1. ASSUME NEW s, NEW n, Goto(s, n), UNCHANGED <<written, judged>>,
             HasFields(s), s.attempts = st.attempts, s.draft = st.draft,
             s.citations \in {0, st.citations}, s.review \in {"pending", st.review},
             s.phase = "rendering", s.report # "draft",
             \/ s.reason \in {"none", "stopped"}
             \/ /\ s.reason = "review_recovery_exhausted" /\ s.review = "rejected"
                /\ s.attempts = MaxReviews,
             \/ s.review # "pending" \/ s.draft = 0
             \/ s.writer \in {"failed", "exhausted"} \/ s.mode = "quick_answer"
      PROVE  Keeps
  <2>1. Valid(s)
    BY <1>1 DEF Valid, TerminalPhases
  <2>2. st' = s /\ node' = "render_final_report"
    BY <1>1, <2>1, Goes DEF RouteAfter, TerminalPhases
  <2>3. Types'
    BY <1>1, <2>2 DEF Types, NodeName, Decision
  <2>4. Counts'
    BY <1>1, <2>2 DEF Counts
  <2>5. Nodes'
    BY <1>1, <2>2 DEF Nodes, Early, TerminalPhases
  <2>6. Reports'
    BY <1>1, <2>1, <2>2, ReviewedRest DEF Reports, Valid
  <2> QED
    BY <2>3, <2>4, <2>5, <2>6
<1>2. ASSUME NEW r \in {"quick_answer", "deep_research"}, Route(r) PROVE Keeps
  <2> DEFINE s == [Set(st, "routing", "none") EXCEPT !.route = r]
  <2>1. /\ Counted(s) /\ s.reason = "none" /\ s.phase = "routing" /\ s.report = st.report
    BY DEF Types, Set, HasFields, Field
  <2>2. /\ Goto(s, IF r = "quick_answer" THEN "quick_answer" ELSE "clarify")
        /\ node = "router" /\ UNCHANGED <<written, judged>>
    BY <1>2 DEF Route, At, Still, writerVars
  <2> HIDE DEF s
  <2> QED
    BY <1>0, <2>1, <2>2 DEF TerminalPhases
<1>3. ASSUME QuickAnswer PROVE Keeps
  <2> DEFINE s == [Set(st, "writing", "none") EXCEPT !.mode = "quick_answer", !.research = "completed"]
  <2>1. /\ Counted(s) /\ s.reason = "none" /\ s.phase = "writing" /\ s.report = st.report
    BY DEF Types, Set, HasFields, Field
  <2>2. Goto(s, "writer") /\ node = "quick_answer" /\ UNCHANGED <<written, judged>>
    BY <1>3 DEF QuickAnswer, At, Still
  <2>3. st.attempts < MaxReviews
    BY <2>2, Limits DEF Nodes, Early
  <2> HIDE DEF s
  <2> QED
    BY <1>0, <2>1, <2>2, <2>3 DEF TerminalPhases
<1>4. ASSUME ClarifyEnds PROVE Keeps
  <2> DEFINE s == [Set(st, "researching", "none") EXCEPT !.mode = "deep_research"]
  <2>1. /\ Counted(s) /\ s.reason = "none" /\ s.phase = "researching" /\ s.report = st.report
    BY DEF Types, Set, HasFields, Field
  <2>2. Goto(s, "supervisor") /\ node = "clarify" /\ UNCHANGED <<written, judged>>
    BY <1>4 DEF ClarifyEnds, InClarifier, At
  <2> HIDE DEF s
  <2> QED
    BY <1>0, <2>1, <2>2 DEF TerminalPhases
<1>5. ASSUME NEW chosen, NEW status, HandToWriter(chosen, status) PROVE Keeps
  <2> DEFINE s == [Set(st, "writing", "none") EXCEPT
                     !.directive = chosen, !.research = status, !.writer = "not_started",
                     !.next = "writer"]
  <2>1. /\ Counted(s) /\ s.reason = "none" /\ s.phase = "writing" /\ s.report = st.report
    BY DEF Types, Set, HasFields, Field
  <2>2. Goto(s, "writer") /\ node = "supervisor" /\ UNCHANGED <<written, judged>>
    BY <1>5 DEF HandToWriter, At, Still
  <2>3. st.attempts < MaxReviews
    BY <1>5, <2>2, Limits DEF HandToWriter, ReviewsUsedUp, Nodes, Types
  <2> HIDE DEF s
  <2> QED
    BY <1>0, <2>1, <2>2, <2>3 DEF TerminalPhases
<1>6. st.report # "draft" \/ node \in {"render_final_report", "end"}
  BY DEF Reports, Nodes, TerminalPhases
<1>7. ASSUME GiveUpRevising PROVE Keeps
  <2> DEFINE s == [Set(st, "rendering", "review_recovery_exhausted") EXCEPT
                     !.directive = NoDirective, !.next = "render_final_report"]
  <2>1. /\ Counted(s) /\ s.reason = "review_recovery_exhausted" /\ s.phase = "rendering"
        /\ s.report = st.report
    BY DEF Types, Set, HasFields, Field
  <2>2. Goto(s, "render_final_report") /\ node = "supervisor" /\ UNCHANGED <<written, judged>>
    BY <1>7 DEF GiveUpRevising, At, Still
  <2>3. st.review = "rejected" /\ st.attempts = MaxReviews
    BY <1>7, Limits DEF GiveUpRevising, ReviewsUsedUp, Counts, Types
  <2> HIDE DEF s
  <2> QED
    BY <1>1, <1>6, <2>1, <2>2, <2>3
<1>8. ASSUME StopResearch PROVE Keeps
  <2> DEFINE s == [Set(st, "rendering", "stopped") EXCEPT
                     !.directive = NoDirective, !.research = "incomplete",
                     !.writer = "not_started", !.next = "render_final_report"]
  <2>1. /\ Counted(s) /\ s.reason = "stopped" /\ s.phase = "rendering"
        /\ s.report = st.report
    BY DEF Types, Set, HasFields, Field
  <2>2. Goto(s, "render_final_report") /\ node = "supervisor" /\ UNCHANGED <<written, judged>>
    BY <1>8 DEF StopResearch, At
  <2>3. st.review # "pending" \/ st.draft = 0
    BY <2>2 DEF Nodes
  <2> HIDE DEF s
  <2> QED
    BY <1>1, <1>6, <2>1, <2>2, <2>3
<1>9. ASSUME WriteQuickAnswer PROVE Keeps
  <2> DEFINE s == [Set(st, "rendering", "none") EXCEPT
                     !.citations = 0, !.report = "answer", !.writer = "completed"]
  <2>1. /\ HasFields(s) /\ s.attempts = st.attempts /\ s.draft = st.draft
        /\ s.citations = 0 /\ s.review = st.review /\ s.reason = "none"
        /\ s.phase = "rendering" /\ s.report = "answer" /\ s.mode = st.mode
    BY DEF Types, Set, HasFields, Field
  <2>2. Goto(s, "review") /\ st.mode = "quick_answer" /\ UNCHANGED <<written, judged>>
    BY <1>9 DEF WriteQuickAnswer, Still
  <2> HIDE DEF s
  <2> QED
    BY <1>1, <2>1, <2>2
<1>10. ASSUME NothingUsable PROVE Keeps
  <2> DEFINE s == [Set(st, "rendering", "none") EXCEPT
                     !.citations = 0, !.mode = "research_incomplete", !.report = "incomplete",
                     !.writer = "failed"]
  <2>1. /\ HasFields(s) /\ s.attempts = st.attempts /\ s.draft = st.draft
        /\ s.citations = 0 /\ s.review = st.review /\ s.reason = "none"
        /\ s.phase = "rendering" /\ s.report = "incomplete" /\ s.writer = "failed"
    BY DEF Types, Set, HasFields, Field
  <2>2. Goto(s, "review") /\ UNCHANGED <<written, judged>>
    BY <1>10 DEF NothingUsable, Still
  <2> HIDE DEF s
  <2> QED
    BY <1>1, <2>1, <2>2
<1>11. ASSUME WritingExhausted PROVE Keeps
  <2> DEFINE s == [Set(st, "rendering", "none") EXCEPT !.writer = "exhausted", !.review = "pending"]
  <2>1. /\ HasFields(s) /\ s.attempts = st.attempts /\ s.draft = st.draft
        /\ s.citations = st.citations /\ s.review = "pending" /\ s.reason = "none"
        /\ s.phase = "rendering" /\ s.report = st.report /\ s.writer = "exhausted"
    BY DEF Types, Set, HasFields, Field
  <2>2. Goto(s, "review") /\ node = "writer" /\ UNCHANGED <<written, judged>>
    BY <1>11 DEF WritingExhausted, InWriter, At
  <2> HIDE DEF s
  <2> QED
    BY <1>1, <1>6, <2>1, <2>2
<1>12. ASSUME NodeFails PROVE Keeps
  <2>1. st' = Failed(st, "node_failed") /\ UNCHANGED <<written, judged>>
    BY <1>12 DEF NodeFails
  <2>2. node' \in {"render_final_report", "end"} /\ "node_failed" \in Failure
    BY <1>12 DEF NodeFails, Failure
  <2> QED
    BY <2>1, <2>2, FailureKeeps
<1>13. ASSUME BudgetRefused PROVE Keeps
  <2>1. st' = Failed(st, "budget_exhausted") /\ UNCHANGED <<written, judged>>
    BY <1>13 DEF BudgetRefused
  <2>2. node' \in {"render_final_report", "end"} /\ "budget_exhausted" \in Failure
    BY <1>13 DEF BudgetRefused, Failure
  <2> QED
    BY <2>1, <2>2, FailureKeeps
<1>14. ASSUME DraftReady PROVE Keeps
  <2> DEFINE n == Len(written')
             s == Drafted(n)
  <2>1. /\ node = "writer" /\ UNCHANGED judged /\ Goto(s, "review")
        /\ n = st.draft + 1
    BY <1>14 DEF DraftReady, InWriter, At, Reads, Counts
  <2>2. /\ HasFields(s) /\ s.attempts = st.attempts /\ s.draft = n /\ s.citations = n
        /\ s.review = "pending" /\ s.reason = "none" /\ s.phase = "reviewing"
        /\ s.report = st.report
    BY DEF Types, Set, HasFields, Field, Drafted
  <2>3. st.draft = st.attempts /\ st.attempts < MaxReviews /\ st.report # "draft"
    BY <1>6, <2>1 DEF Nodes
  <2> HIDE DEF s
  <2>4. Valid(s)
    BY <2>2 DEF Valid, TerminalPhases
  <2>5. st' = s /\ node' = "review"
    BY <2>1, <2>2, <2>4, Goes DEF RouteAfter, TerminalPhases
  <2>6. Types'
    BY <2>1, <2>2, <2>5 DEF Types, NodeName, Decision
  <2>7. Counts'
    BY <2>1, <2>2, <2>3, <2>5, Limits DEF Types, Counts
  <2>8. Nodes'
    BY <2>1, <2>2, <2>3, <2>5 DEF Nodes, Early, TerminalPhases, Types
  <2>9. Reports'
    BY <2>2, <2>3, <2>4, <2>5, ReviewedRest DEF Reports, Valid
  <2> QED
    BY <2>6, <2>7, <2>8, <2>9
<1>15. ASSUME NEW decision \in Decision, Review(decision) PROVE Keeps
  <2> DEFINE s == [st EXCEPT !.review = decision, !.attempts = @ + 1]
             n == IF decision \in {"approved", "failed"} THEN "render_final_report" ELSE "supervisor"
  <2>1. /\ node = "review" /\ UNCHANGED written /\ Goto(s, n)
        /\ judged' = [judged EXCEPT ![st.draft] = decision]
    BY <1>15 DEF Review, At
  <2>2. /\ HasFields(s) /\ s.attempts = st.attempts + 1 /\ s.draft = st.draft
        /\ s.citations = st.citations /\ s.review = decision /\ s.reason = st.reason
        /\ s.phase = st.phase /\ s.report = st.report
    BY DEF Types, Set, HasFields, Field
  <2>3. /\ st.draft = st.attempts + 1 /\ st.phase = "reviewing" /\ st.reason = "none"
        /\ st.report # "draft"
    BY <1>6, <2>1 DEF Nodes, Reports, Valid, TerminalPhases
  <2> HIDE DEF s
  <2>4. Valid(s)
    BY <2>2, <2>3 DEF Valid, TerminalPhases
  <2>5. st' = s /\ node' = n
    BY <2>1, <2>2, <2>3, <2>4, Goes DEF RouteAfter, TerminalPhases
  <2>6. Types'
    <3>1. judged' \in [Draft -> {"unread"} \cup Decision]
      BY <2>1 DEF Types
    <3>2. HasFields(st') /\ st'.attempts \in Nat /\ st'.review \in Decision
      BY <2>2, <2>5 DEF Types
    <3>3. node' \in NodeName
      BY <2>5 DEF NodeName
    <3> QED
      BY <3>1, <3>2, <3>3 DEF Types
  <2>7. st.draft \in Draft /\ judged'[st.draft] = decision
    BY <2>1, <2>3, Limits DEF Types, Counts, Draft
  <2>8. \A d \in Draft : d # st.draft => judged'[d] = judged[d]
    BY <2>1 DEF Types
  <2>9. \A d \in Draft : judged'[d] = "unread" <=> d > st.attempts + 1
    BY <2>3, <2>7, <2>8, Limits DEF Types, Counts, Draft, Decision
  <2>10. Counts'
    BY <2>1, <2>2, <2>3, <2>5, <2>7, <2>9, Limits DEF Counts, Types
  <2>11. Nodes'
    BY <2>2, <2>3, <2>5 DEF Nodes, Early, TerminalPhases, Decision
  <2>12. Reports'
    BY <2>2, <2>3, <2>4, <2>5, ReviewedRest DEF Reports, Valid
  <2> QED
    BY <2>6, <2>10, <2>11, <2>12
(* Whatever is rendered ends the run.                                      *)
<1>16. ASSUME NEW r, NEW m, NEW p, st' = Complete(r, m, p), node' = "end",
              UNCHANGED <<written, judged>>,
              r = "report_rendered" =>
                st.draft # 0 /\ st.citations = st.draft /\ judged[st.draft] = "approved",
              r = "review_recovery_exhausted" =>
                st.attempts = MaxReviews /\ st.review = "rejected",
              p = "draft" /\ judged[st.draft] = "rejected" => r = "review_recovery_exhausted",
              p = "draft" /\ judged[st.draft] \in {"unread", "failed"} => r = "review_failed"
       PROVE  Keeps
  <2>1. /\ HasFields(st)' /\ st'.attempts = st.attempts /\ st'.draft = st.draft
        /\ st'.citations = st.citations /\ st'.review = st.review /\ st'.reason = r
        /\ st'.phase = "completed" /\ st'.report = p
    BY <1>16 DEF Complete, Set, Types, HasFields, Field
  <2>2. Types' /\ Counts'
    BY <1>16, <2>1 DEF Types, Counts, NodeName, Decision
  <2>3. Nodes'
    BY <1>16, <2>1 DEF Nodes, Early
  <2>4. Reports'
    BY <1>16, <2>1 DEF Reports, ReportIsReviewed, Ended, Valid, TerminalPhases
  <2> QED
    BY <2>2, <2>3, <2>4
<1>17. ASSUME Render PROVE Keeps
  <2>1. /\ node = "render_final_report" /\ node' = "end" /\ UNCHANGED <<written, judged>>
        /\ st' = IF Valid(Rendered) THEN Rendered ELSE Failed(st, "node_failed")
    BY <1>17 DEF Render, At
  <2>2. CASE st.phase = "failed"
    <3>1. st' = st
      BY <2>1, <2>2 DEF Rendered, Reports
    <3>2. Types' /\ Counts' /\ Nodes'
      BY <2>1, <3>1 DEF Types, Counts, Nodes, NodeName, Early
    <3>3. Reports'
      BY <2>1, <2>2, <3>1 DEF Reports, Valid, ReportIsReviewed
    <3> QED
      BY <3>2, <3>3
  <2>3. CASE st.phase # "failed"
    <3>1. \A r, m, p : Valid(Complete(r, m, p))
      BY DEF Valid, Complete, Set, Types, HasFields, Field, TerminalPhases
    <3>2. st.report # "draft"
      BY <2>1, <2>3 DEF Reports
    <3>3. st.review # "pending" => judged[st.draft] = st.review
      BY DEF Counts
    <3>4. st.reason = "review_recovery_exhausted" =>
            st.attempts = MaxReviews /\ st.review = "rejected"
      BY DEF Counts
    <3>5. Deliverable => st.draft # 0 /\ st.citations = st.draft
      BY DEF Deliverable, Counts
    <3>6. \/ st.review # "pending" \/ st.draft = 0
          \/ st.writer \in {"failed", "exhausted"} \/ st.mode = "quick_answer"
      BY <2>1, <2>3 DEF Nodes
    <3>7. st.review \in {"pending", "approved", "rejected", "failed"}
      BY DEF Types, Decision
    <3>8. ASSUME NEW r, NEW m, NEW p, Rendered = Complete(r, m, p) PROVE st' = Complete(r, m, p)
      BY <2>1, <3>1, <3>8
    <3>9. CASE st.mode = "quick_answer"
      <4>1. st' = Complete("quick_answer", st.mode, st.report)
        BY <2>3, <3>8, <3>9 DEF Rendered
      <4> QED
        BY <1>16, <2>1, <3>2, <4>1
    <3>10. CASE /\ st.mode # "quick_answer"
                /\ \/ st.writer \in {"failed", "exhausted"}
                   \/ st.research = "incomplete" /\ st.draft = 0
                   \/ st.mode = "research_incomplete"
      <4>1. \E r \in {"writer_exhausted", "research_incomplete"}, p \in {"incomplete", st.report} :
              \E m : st' = Complete(r, m, p)
        <5>1. CASE st.writer \in {"failed", "exhausted"}
          BY <2>3, <3>8, <3>10, <5>1 DEF Rendered
        <5>2. CASE st.writer \notin {"failed", "exhausted"} /\ st.research = "incomplete" /\ st.draft = 0
          BY <2>3, <3>8, <3>10, <5>2 DEF Rendered
        <5>3. CASE /\ st.writer \notin {"failed", "exhausted"}
                   /\ ~(st.research = "incomplete" /\ st.draft = 0)
          BY <2>3, <3>8, <3>10, <5>3 DEF Rendered
        <5> QED
          BY <5>1, <5>2, <5>3
      <4> QED
        BY <1>16, <2>1, <3>2, <4>1
    <3> DEFINE Delivering ==
          /\ st.mode \notin {"quick_answer", "research_incomplete"}
          /\ st.writer \notin {"failed", "exhausted"}
          /\ ~(st.research = "incomplete" /\ st.draft = 0)
    <3>11. CASE Delivering /\ st.reason = "review_recovery_exhausted" /\ Deliverable
      <4>1. st' = Complete("review_recovery_exhausted", "review_limited", "draft")
        BY <2>3, <3>8, <3>11 DEF Rendered
      <4> QED
        BY <1>16, <2>1, <3>3, <3>4, <3>11, <4>1
    <3>12. CASE /\ Delivering /\ ~(st.reason = "review_recovery_exhausted" /\ Deliverable)
                /\ st.review = "failed" /\ Deliverable
      <4>1. st' = Complete("review_failed", "review_limited", "draft")
        BY <2>3, <3>8, <3>12 DEF Rendered
      <4> QED
        BY <1>16, <2>1, <3>3, <3>12, <4>1
    <3>13. CASE /\ Delivering /\ ~(st.reason = "review_recovery_exhausted" /\ Deliverable)
                /\ ~(st.review = "failed" /\ Deliverable)
      <4>1. CASE st.review = "rejected"
        <5>1. st' = Complete("review_rejected", "research_incomplete", "incomplete")
          BY <2>3, <3>8, <3>13, <4>1 DEF Rendered
        <5> QED
          BY <1>16, <2>1, <5>1
      <4>2. CASE st.review # "rejected" /\ ~Deliverable
        <5>1. st' = Complete("missing_report_draft", "research_incomplete", "incomplete")
          BY <2>3, <3>8, <3>13, <4>2 DEF Rendered
        <5> QED
          BY <1>16, <2>1, <5>1
      <4>3. CASE st.review # "rejected" /\ Deliverable
        <5>1. st' = Complete("report_rendered", st.mode, "draft")
          BY <2>3, <3>8, <3>13, <4>3 DEF Rendered
        <5>2. st.review = "approved"
          BY <3>5, <3>6, <3>7, <3>13, <4>3
        <5> QED
          BY <1>16, <2>1, <3>3, <3>5, <4>3, <5>1, <5>2
      <4> QED
        BY <4>1, <4>2, <4>3
    <3> QED
      BY <3>9, <3>10, <3>11, <3>12, <3>13
  <2> QED
    BY <2>2, <2>3
<1> QED
  BY <1>2, <1>3, <1>4, <1>5, <1>7, <1>8, <1>9, <1>10, <1>11, <1>12, <1>13, <1>14, <1>15, <1>17
     DEF Outer, Decision

LEMMA CountsStep == Inv /\ Next => (Types /\ Counts /\ Nodes /\ Reports)'
<1> SUFFICES ASSUME Inv, Next PROVE (Types /\ Counts /\ Nodes /\ Reports)'
  OBVIOUS
<1>1. CASE Inner
  <2>1. UNCHANGED <<node, st, written, judged>>
    BY <1>1, InnerKeeps
  <2> QED
    BY <2>1 DEF Inv, Types, Counts, Nodes, Reports, Valid, ReportIsReviewed, Ended
<1> QED
  BY <1>1, OuterCounts, InnerOrOuter

-----------------------------------------------------------------------------
(* QUESTIONS *)

(* The end of a node's run: a worker runs the graph, the Clarifier's own   *)
(* state stays, and a row that changes is done.                            *)
LEMMA OuterRow ==
  ASSUME Outer
  PROVE  /\ host = "up" /\ UNCHANGED <<clarPc, asked, pending, shown>>
         /\ row' = row \/ row'.status = "completed"
<1> USE DEF Still, Quiet, At, clarVars
<1>1. ASSUME Render \/ NodeFails
      PROVE  /\ host = "up" /\ UNCHANGED <<clarPc, asked, pending, shown>>
             /\ row' = row \/ row'.status = "completed"
  BY <1>1 DEF Render, NodeFails
<1>2. ASSUME \/ \E r \in {"quick_answer", "deep_research"} : Route(r)
             \/ QuickAnswer \/ ClarifyEnds \/ GiveUpRevising \/ StopResearch \/ BudgetRefused
             \/ \E chosen \in (SUBSET Evidence) \ {{}}, status \in {"completed", "incomplete"} :
                   HandToWriter(chosen, status)
      PROVE  host = "up" /\ UNCHANGED <<clarPc, asked, pending, shown, row>>
  BY <1>2 DEF Route, QuickAnswer, ClarifyEnds, GiveUpRevising, HandToWriter, StopResearch,
              BudgetRefused, InClarifier
<1>3. ASSUME \/ WriteQuickAnswer \/ NothingUsable \/ DraftReady \/ WritingExhausted
             \/ \E decision \in Decision : Review(decision)
      PROVE  host = "up" /\ UNCHANGED <<clarPc, asked, pending, shown, row>>
  BY <1>3 DEF WriteQuickAnswer, NothingUsable, DraftReady, WritingExhausted, Review, InWriter
<1> QED
  BY <1>1, <1>2, <1>3 DEF Outer, Decision

LEMMA QuestionsStep == Inv /\ Next => Questions'
<1> SUFFICES ASSUME Inv, Next PROVE Questions'
  OBVIOUS
<1> USE DEF Inv, Questions
<1>1. MaxQuestions \in Nat
  BY ClarifierAssumption
<1>2. CASE Outer
  BY <1>2, OuterRow
<1>3. ASSUME ClarifierStep PROVE Questions'
  <2>1. host = "up" /\ UNCHANGED <<row, host, shown>>
    BY <1>3 DEF ClarifierStep, InClarifier, At, Quiet
  <2>2. CASE AskStaged
    BY <1>1, <2>1, <2>2 DEF AskStaged, EndAgent, RoundsLeft
  <2>3. CASE ClarStart \/ AskRefused \/ ClarificationComplete \/ Fumble \/ GiveUp \/ Finalize
    BY <2>1, <2>3 DEF ClarStart, AskRefused, ClarificationComplete, Fumble, GiveUp, Finalize,
                      EndAgent, CanThink
  <2>4. CASE TakeAnswer(resume)
    BY <2>1, <2>4 DEF TakeAnswer
  <2> QED
    BY <1>3, <2>2, <2>3, <2>4 DEF ClarifierStep, AgentTurn
<1>4. ASSUME Interrupt PROVE Questions'
  <2>1. /\ node = "clarify" /\ node' = node /\ clarPc = "ask" /\ host' = "none"
        /\ UNCHANGED <<asked, pending, clarPc>> /\ shown' = shown \cup {pending}
    BY <1>4 DEF Interrupt, InClarifier, At, clarVars
  <2>2. pending = asked /\ asked > 0
    BY <2>1
  <2>3. pending \in 1 .. asked
    BY <1>1, <2>2
  <2> HIDE DEF Questions
  <2>4. /\ asked' \in 0 .. MaxQuestions /\ (clarPc' = "ask" => asked' > 0 /\ pending' = asked')
        /\ shown' \subseteq 1 .. asked'
    BY <1>1, <2>1, <2>2, <2>3 DEF Questions
  <2> QED
    BY <2>1, <2>4 DEF Questions
<1>5. ASSUME UserAnswers PROVE Questions'
  BY <1>5 DEF UserAnswers, clarVars
<1>6. ASSUME Claim PROVE Questions'
  <2>1. row'.status = "running"
    <3>1. row' = [row EXCEPT !.status = "running"] /\ row.status \in {"queued", "running"}
      BY <1>6 DEF Claim, Claimable
    <3> QED
      BY <3>1
  <2> QED
    BY <1>6, <2>1 DEF Claim, clarVars
<1>7. ASSUME BeginWriting \/ KeepWriting \/ Crash PROVE Questions'
  <2>1. /\ host = "up" /\ UNCHANGED <<clarPc, asked, pending, shown, row>>
    BY <1>7 DEF BeginWriting, KeepWriting, Crash, InWriter, At, Quiet, clarVars
  <2> QED
    BY <2>1
<1> QED
  BY <1>2, <1>3, <1>4, <1>5, <1>6, <1>7, InnerOrOuter DEF Inner

-----------------------------------------------------------------------------
(* READING AND WRITING *)

LEMMA CitesKept ==
  ASSUME CitesAreRead, written' = written PROVE CitesAreRead'
BY DEF CitesAreRead

(* What the Writer's loop does to what it has read.                        *)
LEMMA WriterKeeps ==
  ASSUME Reads, NEW replies, NEW texts, WriterStep(replies, texts), written' = written
  PROVE  Reads' /\ loop # "off" /\ loop' # "off"
<1>0. CitesAreRead'
  BY CitesKept DEF Reads
<1> USE DEF Reads, writerChannels, writerContext
<1>1. CASE Refresh
  BY <1>0, <1>1 DEF Refresh
<1>2. CASE Misuse \/ ModelDown
  BY <1>0, <1>2 DEF Misuse, ModelDown
<1>3. ASSUME NEW reply, CallTools(reply) PROVE Reads' /\ loop # "off" /\ loop' # "off"
  BY <1>0, <1>3 DEF CallTools
<1>4. ASSUME NEW text, Talk(text) PROVE Reads' /\ loop # "off" /\ loop' # "off"
  BY <1>0, <1>4 DEF Talk
<1>5. ASSUME NEW c, ReadEvidence(c) PROVE Reads' /\ loop # "off" /\ loop' # "off"
  <2>1. PICK ids \in Handed(c) : readMem' = readMem \cup ids /\ readCh' = readCh \cup ids
    BY <1>5 DEF ReadEvidence
  <2>2. ids \subseteq offered
    BY <2>1 DEF Handed
  <2>3. /\ loop = "tools" /\ loop' \in {"refresh", "tools"}
        /\ UNCHANGED <<draftCh, draftMem, offered>>
    BY <1>5 DEF ReadEvidence, Finished
  <2> QED
    BY <1>0, <2>1, <2>2, <2>3
<1>6. ASSUME NEW c, ReportComplete(c) PROVE Reads' /\ loop # "off" /\ loop' # "off"
  <2>1. /\ loop = "tools" /\ loop' \in {"refresh", "tools"}
        /\ UNCHANGED <<readCh, readMem, offered>>
    BY <1>6 DEF ReportComplete, Finished
  <2>2. CASE draftCh' = draftCh
    BY <1>0, <2>1, <2>2
  <2>3. CASE Binds(c.ids) /\ draftCh' = c.ids
    BY <1>0, <2>1, <2>3 DEF Binds
  <2> QED
    BY <1>6, <2>2, <2>3 DEF ReportComplete
<1> QED
  BY <1>1, <1>2, <1>3, <1>4, <1>5, <1>6 DEF WriterStep

LEMMA ResetKeeps ==
  ASSUME NEW at, NEW by, WriterReset(at, by), by \subseteq Usable, written' \in Seq(Reading),
         CitesAreRead'
  PROVE  Reads' /\ draftCh' = NoDraft /\ loop' = at
BY DEF WriterReset, Reads

LEMMA StillReads ==
  ASSUME Reads, UNCHANGED <<writerVars, written>> PROVE Reads'
BY CitesKept DEF Reads, writerVars

(* The draft the node hands on.                                            *)
LEMMA SettledIsRead ==
  ASSUME Reads, Settled # NoDraft
  PROVE  Settled # {} /\ Settled \subseteq readCh
BY DEF Reads, Settled

LEMMA DraftReadyReads == Inv /\ DraftReady => Reads'
<1> SUFFICES ASSUME Inv, DraftReady PROVE Reads'
  OBVIOUS
<1> DEFINE new == [cites |-> Settled, offered |-> offered, read |-> readCh]
<1>1. /\ written' = Append(written, new) /\ Settled # NoDraft /\ WriterReset("off", {})
  BY DEF DraftReady, WriterOff
<1>2. Settled # {} /\ Settled \subseteq readCh /\ readCh \subseteq offered /\ offered \subseteq Usable
  BY <1>1, SettledIsRead DEF Inv, Reads
<1>3. new \in Reading /\ new.cites = Settled /\ new.offered = offered /\ new.read = readCh
  BY <1>2 DEF Reading
<1> HIDE DEF new
<1>4. written \in Seq(Reading)
  BY DEF Inv, Reads
<1>5. /\ written' \in Seq(Reading) /\ DOMAIN written' = 1 .. Len(written) + 1
      /\ DOMAIN written = 1 .. Len(written)
      /\ \A d \in 1 .. Len(written) : written'[d] = written[d]
      /\ written'[Len(written) + 1] = new
  BY <1>1, <1>3, <1>4
<1>6. \A d \in DOMAIN written' : d \in DOMAIN written \/ d = Len(written) + 1
  BY <1>4, <1>5
<1>7. CitesAreRead'
  <2> SUFFICES ASSUME NEW d \in DOMAIN written'
               PROVE  written'[d].cites # {} /\ written'[d].cites \subseteq
                        written'[d].read \cap written'[d].offered \cap Usable
    BY DEF CitesAreRead
  <2>1. CASE d \in DOMAIN written
    <3>1. written'[d] = written[d]
      BY <1>5, <2>1
    <3> QED
      BY <2>1, <3>1 DEF Inv, Reads, CitesAreRead
  <2>2. CASE d = Len(written) + 1
    BY <1>2, <1>3, <1>5, <2>2
  <2> QED
    BY <1>6, <2>1, <2>2
<1> QED
  BY <1>1, <1>5, <1>7, ResetKeeps

LEMMA ReadsStep == Inv /\ Next => Reads'
<1> SUFFICES ASSUME Inv, Next PROVE Reads'
  OBVIOUS
<1>0. Reads
  BY DEF Inv
<1> USE DEF Still, writerVars
<1>1. CASE KeepWriting
  BY <1>0, <1>1, WriterKeeps DEF KeepWriting
<1>2. CASE BeginWriting
  <2>1. WriterReset("refresh", Catalogue) /\ written' = written
    BY <1>2 DEF BeginWriting, WriterStart
  <2> QED
    BY <1>0, <2>1, ResetKeeps, CitesKept DEF Catalogue, Reads
<1>3. CASE DraftReady
  BY <1>3, DraftReadyReads
<1>4. CASE WritingExhausted
  <2>1. WriterReset("off", {}) /\ written' = written
    BY <1>4 DEF WritingExhausted, WriterOff
  <2> QED
    BY <1>0, <2>1, ResetKeeps, CitesKept DEF Reads
<1>5. CASE Crash
  <2>1. readMem' = {} /\ UNCHANGED <<offered, readCh, draftCh, written>>
    BY <1>5 DEF Crash, WriterCrash, writerChannels
  <2> QED
    BY <1>0, <2>1, CitesKept DEF Reads
<1>6. CASE ClarifierStep \/ Interrupt \/ UserAnswers \/ Claim
  BY <1>0, <1>6, StillReads DEF ClarifierStep, InClarifier, Interrupt, UserAnswers, Claim
<1>7. CASE \/ \E r \in {"quick_answer", "deep_research"} : Route(r)
           \/ QuickAnswer \/ ClarifyEnds \/ GiveUpRevising \/ StopResearch \/ BudgetRefused
           \/ \E chosen \in (SUBSET Evidence) \ {{}}, status \in {"completed", "incomplete"} :
                 HandToWriter(chosen, status)
  BY <1>0, <1>7, StillReads
     DEF Route, QuickAnswer, ClarifyEnds, InClarifier, GiveUpRevising, StopResearch,
         BudgetRefused, HandToWriter
<1>8. CASE \/ WriteQuickAnswer \/ NothingUsable \/ Render \/ NodeFails
           \/ \E decision \in {"approved", "rejected", "failed"} : Review(decision)
  BY <1>0, <1>8, StillReads DEF WriteQuickAnswer, NothingUsable, Render, NodeFails, Review
<1> QED
  BY <1>1, <1>2, <1>3, <1>4, <1>5, <1>6, <1>7, <1>8, InnerOrOuter DEF Inner, Outer

LEMMA LoopsStep == Inv /\ Next => Loops'
<1> SUFFICES ASSUME Inv, Next PROVE Loops'
  OBVIOUS
<1>0. Loops /\ Reads
  BY DEF Inv
<1>1. CASE KeepWriting
  <2>1. loop # "off" /\ loop' # "off" /\ UNCHANGED <<node, st>>
    BY <1>0, <1>1, WriterKeeps DEF KeepWriting
  <2> QED
    BY <1>0, <2>1 DEF Loops
<1>2. CASE BeginWriting
  <2>1. /\ loop' = "refresh" /\ node = "writer" /\ st.mode # "quick_answer"
        /\ UNCHANGED <<node, st>>
    BY <1>2 DEF BeginWriting, WriterStart, WriterReset, InWriter, At
  <2> QED
    BY <2>1 DEF Loops
<1>3. CASE DraftReady \/ WritingExhausted
  <2>1. loop' = "off" /\ draftCh' = NoDraft
    BY <1>3 DEF DraftReady, WritingExhausted, WriterOff, WriterReset
  <2> QED
    BY <2>1 DEF Loops
<1>4. CASE ClarifierStep \/ Interrupt \/ UserAnswers \/ Claim \/ Crash
  <2>1. UNCHANGED <<loop, draftCh>>
    BY <1>4 DEF ClarifierStep, InClarifier, Interrupt, UserAnswers, Claim, Crash, WriterCrash,
                writerChannels, writerVars
  <2>2. UNCHANGED <<node, st>>
    BY <1>4, InnerKeeps DEF Inner
  <2> QED
    BY <1>0, <2>1, <2>2 DEF Loops
<1>5. CASE Render \/ NodeFails \/ BudgetRefused
  <2>1. UNCHANGED <<loop, draftCh>> /\ node' \in {"render_final_report", "end"}
    BY <1>5 DEF Render, NodeFails, BudgetRefused, writerVars
  <2> QED
    BY <1>0, <2>1 DEF Loops
<1>6. ASSUME UNCHANGED <<loop, draftCh>>, loop = "off" PROVE Loops'
  BY <1>0, <1>6 DEF Loops
<1>7. CASE \/ \E r \in {"quick_answer", "deep_research"} : Route(r)
           \/ QuickAnswer \/ ClarifyEnds \/ GiveUpRevising \/ StopResearch
           \/ \E chosen \in (SUBSET Evidence) \ {{}}, status \in {"completed", "incomplete"} :
                 HandToWriter(chosen, status)
  <2>1. UNCHANGED <<loop, draftCh>> /\ node \in {"router", "quick_answer", "clarify", "supervisor"}
    BY <1>7 DEF Route, QuickAnswer, ClarifyEnds, InClarifier, GiveUpRevising, StopResearch,
                HandToWriter, At, Still, writerVars
  <2>2. loop = "off"
    BY <1>0, <2>1 DEF Loops
  <2> QED
    BY <1>6, <2>1, <2>2
<1>8. CASE \/ WriteQuickAnswer \/ NothingUsable
           \/ \E decision \in {"approved", "rejected", "failed"} : Review(decision)
  <2>1. /\ UNCHANGED <<loop, draftCh>>
        /\ \/ node = "writer" /\ st.mode = "quick_answer"
           \/ loop = "off" \/ node = "review"
    BY <1>8 DEF WriteQuickAnswer, NothingUsable, Review, At, Still, writerVars
  <2>2. loop = "off"
    BY <1>0, <2>1 DEF Loops
  <2> QED
    BY <1>6, <2>1, <2>2
<1> QED
  BY <1>1, <1>2, <1>3, <1>4, <1>5, <1>7, <1>8, InnerOrOuter DEF Inner, Outer

-----------------------------------------------------------------------------
(* THE THEOREMS *)

LEMMA Invariance == Spec => []Inv
<1>1. Inv /\ Next => Inv'
  BY CountsStep, QuestionsStep, ReadsStep, LoopsStep DEF Inv
<1>2. Inv /\ UNCHANGED vars => Inv'
  BY DEF Inv, Questions, Reads, CitesAreRead, Loops, Types, Counts, Nodes, Reports, Valid,
         ReportIsReviewed, Ended, vars, clarVars, writerVars, runVars
<1> QED
  BY <1>1, <1>2, InitInv, PTL DEF Spec

(* What is delivered as a complete report is the draft the reviewer        *)
(* approved, with that draft's own citations, and any other draft goes out *)
(* under an outcome that says so (nodes/render, routing.py), for any limit *)
(* of reviews and any number of crashes.                                   *)
THEOREM DeliveredIsReviewed == Spec => []ReportIsReviewed
<1>1. Inv => ReportIsReviewed
  BY DEF Inv, Reports
<1> QED
  BY <1>1, Invariance, PTL

(* A draft cites nothing that was not offered for that writing, supported  *)
(* well enough and read in it, whatever tools the model calls together and *)
(* whenever the worker dies (Writer.run, validate_and_bind).               *)
THEOREM NothingUnreadIsCited == Spec => []CitesAreRead
<1>1. Inv => CitesAreRead
  BY DEF Inv, Reads
<1> QED
  BY <1>1, Invariance, PTL

(* Every draft is counted by one review, and there are never more drafts   *)
(* than the limit of reviews allows (state_update_for_ready_result).       *)
THEOREM ReviewsAreCounted == Spec => []AttemptsCountReviews
<1>1. Inv => AttemptsCountReviews
  <2> SUFFICES ASSUME Inv PROVE AttemptsCountReviews
    OBVIOUS
  <2>1. /\ st.attempts \in Nat /\ st.attempts <= MaxReviews /\ Len(written) <= MaxReviews
        /\ MaxReviews \in Nat
    BY Limits DEF Inv, Types, Counts
  <2>2. {d \in Draft : judged[d] # "unread"} = 1 .. st.attempts
    BY <2>1 DEF Inv, Counts, Draft
  <2>3. Cardinality(1 .. st.attempts) = st.attempts
    BY <2>1, FS_Interval
  <2> QED
    BY <2>1, <2>2, <2>3 DEF AttemptsCountReviews
<1> QED
  BY <1>1, Invariance, PTL

(* The user is never asked more than MaxQuestions questions, and only the  *)
(* Clarifier, waiting for that very answer, lets a run pause (ask node,    *)
(* MAX_CLARIFICATION_ROUNDS).                                              *)
THEOREM UserIsNotPestered == Spec => []QuestionsBounded
<1>1. Inv => QuestionsBounded
  <2> SUFFICES ASSUME Inv PROVE QuestionsBounded
    OBVIOUS
  <2>1. asked \in Nat /\ asked <= MaxQuestions /\ MaxQuestions \in Nat /\ shown \subseteq 1 .. asked
    BY ClarifierAssumption DEF Inv, Questions
  <2>2. IsFiniteSet(1 .. asked) /\ Cardinality(1 .. asked) = asked
    BY <2>1, FS_Interval
  <2>3. Cardinality(shown) <= asked /\ Cardinality(shown) \in Nat
    BY <2>1, <2>2, FS_Subset, FS_CardinalityType
  <2>4. Cardinality(shown) <= MaxQuestions
    BY <2>1, <2>3
  <2> QED
    BY <2>1, <2>4 DEF QuestionsBounded, Inv, Questions
<1> QED
  BY <1>1, Invariance, PTL

(* A draft the loop has accepted is the draft the Writer's node hands on,  *)
(* or the node fails and says so: no crash and no reply loses or replaces  *)
(* it (the rebuild after the loop in Writer.run).                          *)
THEOREM AcceptedIsHandedOn == Spec => AcceptedDraftSurvives
<1> DEFINE Survives == node = "writer" /\ draftCh # NoDraft /\ node' # node =>
                         \/ st'.phase = "failed"
                         \/ st'.phase = "reviewing" /\ written'[st'.draft].cites = draftCh
<1>1. Inv /\ Next => Survives
  <2> SUFFICES ASSUME Inv, Next, node = "writer", draftCh # NoDraft, node' # node
               PROVE  \/ st'.phase = "failed"
                      \/ st'.phase = "reviewing" /\ written'[st'.draft].cites = draftCh
    OBVIOUS
  <2>1. Outer
    BY InnerOrOuter, InnerKeeps
  <2>2. loop # "off" /\ st.mode # "quick_answer"
    BY DEF Inv, Loops
  <2>3. DraftReady \/ NodeFails \/ BudgetRefused
    <3>1. ~WritingExhausted
      BY DEF WritingExhausted, Settled
    <3> QED
      BY <2>1, <2>2, <3>1 DEF Outer, Route, QuickAnswer, ClarifyEnds, InClarifier, GiveUpRevising,
         StopResearch, HandToWriter, WriteQuickAnswer, NothingUsable, Review, Render, At
  <2>4. CASE NodeFails \/ BudgetRefused
    <3>1. \E reason \in Failure : st' = Failed(st, reason)
      BY <2>4 DEF NodeFails, BudgetRefused, Failure
    <3> QED
      BY <3>1, FailedState DEF Inv, Types
  <2>5. CASE DraftReady
    <3> DEFINE n == Len(written')
               new == [cites |-> Settled, offered |-> offered, read |-> readCh]
    <3>1. /\ written' = Append(written, new) /\ Goto(Drafted(n), "review")
          /\ Settled = draftCh
      BY <2>5 DEF DraftReady, Settled
    <3>2. Drafted(n).phase = "reviewing" /\ Drafted(n).draft = n /\ Drafted(n).reason = "none"
      BY DEF Inv, Types, HasFields, Field, Drafted, Set
    <3>3. st' = Drafted(n)
      <4>1. Valid(Drafted(n))
        BY <3>2 DEF Valid, TerminalPhases
      <4> QED
        BY <3>1, <4>1, Goes
    <3>4. written'[n].cites = draftCh
      <4>1. written \in Seq(Reading) /\ new.cites = draftCh
        BY <3>1 DEF Inv, Reads
      <4> HIDE DEF new
      <4>2. written'[n] = new
        BY <3>1, <4>1
      <4> QED
        BY <4>1, <4>2
    <3> QED
      BY <3>2, <3>3, <3>4
  <2> QED
    BY <2>3, <2>4, <2>5
<1>2. Inv /\ [Next]_vars => [Survives]_vars
  BY <1>1
<1> QED
  BY <1>2, Invariance, PTL DEF Spec, AcceptedDraftSurvives

-----------------------------------------------------------------------------
(* TYPES.  The invariant above has those of what is read, drafted, counted *)
(* and judged; the rest is here.                                           *)

Clarifying ==
  /\ clarPc \in {"off", "agent", "ask", "finalize", "over"}
  /\ clarTurns \in 0 .. ClarifierTurns /\ pending \in Nat /\ intent \in BOOLEAN
  /\ dialogue \in Seq(Entry)

Writing ==
  /\ loop \in {"off", "refresh", "model", "tools", "over"}
  /\ {draftCh, draftMem, inline} \subseteq Cites \cup {NoDraft} /\ calls \subseteq Call
  /\ writerTurns \in 0 .. WriterTurns /\ nudges \in 0 .. WriterNudges
  /\ loop = "model" => writerTurns < WriterTurns

Hosting ==
  /\ row \in [status : {"running", "awaiting_input", "queued", "completed"}, payload : Nat]
  /\ host \in {"up", "none"} /\ resume \in Nat /\ crashes \in 0 .. MaxCrashes

(* The values of the channels, by name.                                    *)
Reasons    == Outcome \cup Failure \cup {"none", "stopped"}
Routes     == {"none", "quick_answer", "deep_research"}
Modes      == {"none", "quick_answer", "deep_research", "research_incomplete", "review_limited"}
Researched == {"not_started", "completed", "incomplete"}
Handing    == {"writer", "render_final_report"}
Directives == (SUBSET Evidence) \cup {NoDirective}
Numbers    == 0 .. MaxReviews
Writers    == {"not_started", "completed", "failed", "exhausted"}
Reviews    == {"pending", "approved", "rejected", "failed"}
Texted     == {"none", "answer", "incomplete", "draft"}

LEMMA StateIs ==
  State = [phase : Phase, reason : Reasons, error : BOOLEAN, route : Routes, mode : Modes,
           research : Researched, next : Handing, directive : Directives, draft : Numbers,
           citations : Numbers, writer : Writers, review : Reviews, attempts : Nat,
           report : Texted]
BY DEF State, Reasons, Routes, Modes, Researched, Handing, Directives, Numbers, Writers, Reviews,
       Texted

LEMMA Values ==
  /\ {"routing", "researching", "writing", "reviewing", "rendering", "failed", "completed"}
       \subseteq Phase
  /\ {"none", "stopped", "review_recovery_exhausted", "node_failed", "budget_exhausted"}
       \subseteq Reasons
  /\ {"quick_answer", "deep_research"} \subseteq Routes
  /\ {"quick_answer", "deep_research", "research_incomplete", "review_limited"} \subseteq Modes
  /\ {"completed", "incomplete"} \subseteq Researched
  /\ "writer" \in Handing /\ "render_final_report" \in Handing
  /\ (SUBSET Evidence) \subseteq Directives /\ NoDirective \in Directives /\ 0 \in Numbers
  /\ {"not_started", "completed", "failed", "exhausted"} \subseteq Writers
  /\ {"pending", "approved", "rejected", "failed"} \subseteq Reviews
  /\ {"none", "answer", "incomplete", "draft"} \subseteq Texted
BY Limits DEF Phase, TerminalPhases, Outcome, Failure, Reasons, Routes, Modes, Researched, Handing,
  Directives, Numbers, Writers, Reviews, Texted

LEMMA SetState ==
  ASSUME NEW s \in State, NEW phase \in Phase, NEW reason \in Reasons
  PROVE  Set(s, phase, reason) \in State
BY StateIs DEF Set

LEMMA FailedIsState ==
  ASSUME NEW s \in State, NEW reason \in {"node_failed", "budget_exhausted"}
  PROVE  Failed(s, reason) \in State
<1> DEFINE f == Set(s, "failed", reason)
           report == IF s.draft # 0 /\ s.citations # 0 THEN "draft" ELSE "incomplete"
<1>1. f \in State /\ report \in Texted
  BY SetState, Values
<1> HIDE DEF f, report
<1>2. [f EXCEPT !.error = TRUE, !.mode = "research_incomplete", !.next = "render_final_report",
                !.report = report] \in State
  BY <1>1, StateIs, Values
<1> QED BY <1>2 DEF Failed, f, report

LEMMA GotoState ==
  ASSUME st \in State, NEW s \in State, NEW normal, Goto(s, normal)
  PROVE  st' \in State
<1>1. Failed(st, "node_failed") \in State
  BY FailedIsState
<1> QED BY <1>1 DEF Goto

LEMMA RenderedState ==
  ASSUME st \in State PROVE Rendered \in State
<1>1. ASSUME NEW reason \in Outcome, NEW mode \in Modes, NEW report \in Texted
      PROVE  Complete(reason, mode, report) \in State
  <2> DEFINE f == Set(st, "completed", reason)
  <2>1. f \in State
    <3>1. reason \in Reasons
      BY DEF Reasons
    <3> QED BY <3>1, SetState, Values
  <2> HIDE DEF f
  <2>2. [f EXCEPT !.mode = mode, !.report = report] \in State
    BY <2>1, StateIs
  <2> QED BY <2>2 DEF Complete, f
<1>2. st.mode \in Modes /\ st.report \in Texted
  BY StateIs
<1>3. {"quick_answer", "writer_exhausted", "research_incomplete", "review_recovery_exhausted",
       "review_rejected", "review_failed", "missing_report_draft", "report_rendered"} \subseteq Outcome
  BY DEF Outcome
<1> QED BY <1>1, <1>2, <1>3, Values DEF Rendered

LEMMA StateStep == Inv /\ Inv' /\ st \in State /\ Next => st' \in State
<1> SUFFICES ASSUME Inv, Inv', st \in State, Next PROVE st' \in State
  OBVIOUS
<1>1. \A phase \in Phase, reason \in Reasons : Set(st, phase, reason) \in State
  BY SetState
<1>2. CASE UNCHANGED st
  BY <1>2
<1>3. ASSUME NEW r \in {"quick_answer", "deep_research"}, Route(r) PROVE st' \in State
  <2> DEFINE s == Set(st, "routing", "none")
  <2>0. s \in State
    BY <1>1, Values
  <2> HIDE DEF s
  <2>1. [s EXCEPT !.route = r] \in State
    BY <2>0, StateIs, Values
  <2> QED BY <1>3, <2>1, GotoState DEF Route, s
<1>4. CASE QuickAnswer
  <2> DEFINE s == Set(st, "writing", "none")
  <2>0. s \in State
    BY <1>1, Values
  <2> HIDE DEF s
  <2>1. [s EXCEPT !.mode = "quick_answer", !.research = "completed"] \in State
    BY <2>0, StateIs, Values
  <2> QED BY <1>4, <2>1, GotoState DEF QuickAnswer, s
<1>5. CASE ClarifyEnds
  <2> DEFINE s == Set(st, "researching", "none")
  <2>0. s \in State
    BY <1>1, Values
  <2> HIDE DEF s
  <2>1. [s EXCEPT !.mode = "deep_research"] \in State
    BY <2>0, StateIs, Values
  <2> QED BY <1>5, <2>1, GotoState DEF ClarifyEnds, s
<1>6. CASE GiveUpRevising
  <2> DEFINE s == Set(st, "rendering", "review_recovery_exhausted")
  <2>0. s \in State
    BY <1>1, Values
  <2> HIDE DEF s
  <2>1. [s EXCEPT
           !.directive = NoDirective, !.next = "render_final_report"] \in State
    BY <2>0, StateIs, Values
  <2> QED BY <1>6, <2>1, GotoState DEF GiveUpRevising, s
<1>7. ASSUME NEW chosen \in (SUBSET Evidence) \ {{}}, NEW how \in {"completed", "incomplete"},
             HandToWriter(chosen, how)
      PROVE  st' \in State
  <2> DEFINE s == Set(st, "writing", "none")
  <2>0. s \in State
    BY <1>1, Values
  <2> HIDE DEF s
  <2>1. [s EXCEPT
           !.directive = chosen, !.research = how, !.writer = "not_started",
           !.next = "writer"] \in State
    BY <2>0, StateIs, Values
  <2> QED BY <1>7, <2>1, GotoState DEF HandToWriter, s
<1>8. CASE StopResearch
  <2> DEFINE s == Set(st, "rendering", "stopped")
  <2>0. s \in State
    BY <1>1, Values
  <2> HIDE DEF s
  <2>1. [s EXCEPT
           !.directive = NoDirective, !.research = "incomplete", !.writer = "not_started",
           !.next = "render_final_report"] \in State
    BY <2>0, StateIs, Values
  <2> QED BY <1>8, <2>1, GotoState DEF StopResearch, s
<1>9. CASE WriteQuickAnswer
  <2> DEFINE s == Set(st, "rendering", "none")
  <2>0. s \in State
    BY <1>1, Values
  <2> HIDE DEF s
  <2>1. [s EXCEPT !.citations = 0, !.report = "answer",
           !.writer = "completed"] \in State
    BY <2>0, StateIs, Values
  <2> QED BY <1>9, <2>1, GotoState DEF WriteQuickAnswer, s
<1>10. CASE NothingUsable
  <2> DEFINE s == Set(st, "rendering", "none")
  <2>0. s \in State
    BY <1>1, Values
  <2> HIDE DEF s
  <2>1. [s EXCEPT
           !.citations = 0, !.mode = "research_incomplete", !.report = "incomplete",
           !.writer = "failed"] \in State
    BY <2>0, StateIs, Values
  <2> QED BY <1>10, <2>1, GotoState DEF NothingUsable, s
<1>11. CASE DraftReady
  <2>1. Len(written') \in 0 .. MaxReviews
    <3>1. st'.draft = Len(written') /\ st'.draft <= MaxReviews
      BY DEF Inv, Counts
    <3>2. written' \in Seq(Reading)
      BY DEF Inv, Reads
    <3>3. Len(written') \in Nat
      BY <3>2
    <3> QED BY <3>1, <3>3, Limits
  <2> DEFINE d == Len(written')
  <2> HIDE DEF d
  <2> DEFINE s == Set(st, "reviewing", "none")
  <2>0. s \in State
    BY <1>1, Values
  <2> HIDE DEF s
  <2>2. d \in Numbers
    BY <2>1 DEF d, Numbers
  <2>3. [s EXCEPT !.draft = d, !.citations = d, !.mode = "deep_research", !.writer = "completed",
                  !.review = "pending"] \in State
    BY <2>0, <2>2, StateIs, Values
  <2> QED BY <1>11, <2>3, GotoState DEF DraftReady, Drafted, d, s
<1>12. CASE WritingExhausted
  <2> DEFINE s == Set(st, "rendering", "none")
  <2>0. s \in State
    BY <1>1, Values
  <2> HIDE DEF s
  <2>1. [s EXCEPT !.writer = "exhausted", !.review = "pending"] \in State
    BY <2>0, StateIs, Values
  <2> QED BY <1>12, <2>1, GotoState DEF WritingExhausted, s
<1>13. ASSUME NEW decision \in {"approved", "rejected", "failed"}, Review(decision)
       PROVE  st' \in State
  <2>0. st.attempts + 1 \in Nat
    BY DEF Inv, Types
  <2>1. [st EXCEPT !.review = decision, !.attempts = @ + 1] \in State
    BY <2>0, StateIs, Values
  <2> QED BY <1>13, <2>1, GotoState DEF Review
<1>14. CASE Render
  BY <1>14, RenderedState, FailedIsState DEF Render
<1>15. CASE NodeFails \/ BudgetRefused
  BY <1>15, FailedIsState DEF NodeFails, BudgetRefused
<1>16. CASE ClarifierStep \/ Interrupt \/ BeginWriting \/ KeepWriting \/ UserAnswers \/ Claim \/ Crash
  <2>1. UNCHANGED st
    BY <1>16 DEF ClarifierStep, Interrupt, BeginWriting, KeepWriting, UserAnswers, Claim, Crash
  <2> QED BY <2>1
<1> QED
  BY <1>3, <1>4, <1>5, <1>6, <1>7, <1>8, <1>9, <1>10, <1>11, <1>12, <1>13, <1>14, <1>15, <1>16
     DEF Next, Step

LEMMA ClarifyingStep == Inv /\ Clarifying /\ Hosting /\ Next => Clarifying'
<1> SUFFICES ASSUME Inv, Clarifying, Hosting, Next PROVE Clarifying'
  OBVIOUS
<1> USE DEF Clarifying
<1>0. ClarifierTurns \in Nat \ {0}
  BY ClarifierAssumption
<1>1. CASE UNCHANGED clarVars
  BY <1>1 DEF clarVars
<1>2. CASE ClarStart \/ Finalize
  BY <1>2 DEF ClarStart, Finalize
<1>3. CASE AgentTurn
  <2>1. asked \in Nat
    BY DEF Inv, Questions
  <2>2. dialogue \o dialogue \in Seq(Entry)
    OBVIOUS
  <2>3. CASE Fumble
    BY <1>0, <2>3 DEF Fumble, CanThink
  <2>4. CASE AskStaged \/ AskRefused \/ ClarificationComplete \/ GiveUp
    <3>1. \E to \in {"ask", "finalize"} : EndAgent(to)
      BY <2>4 DEF AskStaged, AskRefused, ClarificationComplete, GiveUp
    <3>2. pending' \in {pending, asked + 1} /\ (intent' = intent \/ intent' = TRUE)
      BY <2>4, Zenon DEF AskStaged, AskRefused, ClarificationComplete, GiveUp
    <3>3. PICK to \in {"ask", "finalize"} : EndAgent(to)
      BY <3>1
    <3>4. clarPc' \in {"off", "agent", "ask", "finalize", "over"} /\ clarTurns' \in 0 .. ClarifierTurns
      BY <1>0, <3>3 DEF EndAgent
    <3>5. dialogue' \in Seq(Entry)
      BY <2>2, <3>3 DEF EndAgent
    <3>6. pending' \in Nat
      BY <2>1, <3>2
    <3>7. intent' \in BOOLEAN
      BY <3>2
    <3> QED BY <3>4, <3>5, <3>6, <3>7
  <2> QED BY <1>3, <2>3, <2>4 DEF AgentTurn
<1>4. CASE ClarifierStep
  <2>1. ASSUME resume # 0, TakeAnswer(resume) PROVE Clarifying'
    <3>1. pending \in Question /\ resume \in Question
      BY <2>1 DEF Inv, Questions, TakeAnswer, Hosting, Question
    <3>2. [question |-> pending, answer |-> resume] \in Entry
      BY <3>1 DEF Entry
    <3> QED BY <2>1, <3>2 DEF TakeAnswer
  <2> QED BY <1>2, <1>3, <1>4, <2>1 DEF ClarifierStep
<1>5. CASE Crash
  BY <1>0, <1>5 DEF Crash
<1> QED
  BY <1>1, <1>4, <1>5 DEF Next, Step, Still, Route, QuickAnswer, Interrupt, ClarifyEnds, GiveUpRevising,
     HandToWriter, StopResearch, WriteQuickAnswer, NothingUsable, BeginWriting, KeepWriting,
     DraftReady, WritingExhausted, Review, Render, NodeFails, BudgetRefused, UserAnswers, Claim

LEMMA WriterStepTypes ==
  ASSUME Writing, WriterStep(Replies, Texts) PROVE Writing'
<1> USE DEF Writing
<1>0. WriterTurns \in Nat \ {0} /\ WriterNudges \in Nat
  BY WriterAssumption
<1>1. CASE Refresh
  BY <1>0, <1>1 DEF Refresh, writerChannels
<1>2. CASE Misuse
  BY <1>0, <1>2 DEF Misuse, writerChannels, writerContext
<1>3. CASE ModelDown
  BY <1>3 DEF ModelDown, writerChannels, writerContext
<1>4. ASSUME NEW reply \in Replies, CallTools(reply) PROVE Writing'
  <2>1. reply \subseteq Call
    BY PipelineAssumption
  <2> QED BY <1>0, <1>4, <2>1 DEF CallTools, writerChannels, writerContext
<1>5. ASSUME NEW text \in Texts, Talk(text) PROVE Writing'
  <2>1. text \in Cites \cup {NoDraft}
    BY PipelineAssumption
  <2> QED BY <1>0, <1>5, <2>1 DEF Talk, writerChannels, writerContext
<1>6. ASSUME NEW c \in calls, ReadEvidence(c) PROVE Writing'
  BY <1>6 DEF ReadEvidence, Finished
<1>7. ASSUME NEW c \in calls, ReportComplete(c) PROVE Writing'
  <2>1. c.ids \in Cites
    BY DEF Call
  <2>2. {draftCh', draftMem'} \subseteq Cites \cup {NoDraft}
    BY <1>7, <2>1 DEF ReportComplete
  <2> QED BY <1>7, <2>2 DEF ReportComplete, Finished
<1> QED BY <1>1, <1>2, <1>3, <1>4, <1>5, <1>6, <1>7 DEF WriterStep

LEMMA WritingStep == Writing /\ Next => Writing'
<1> SUFFICES ASSUME Writing, Next PROVE Writing'
  OBVIOUS
<1>0. WriterTurns \in Nat \ {0} /\ WriterNudges \in Nat
  BY WriterAssumption
<1>1. CASE UNCHANGED writerVars
  BY <1>1 DEF Writing, writerVars
<1>2. CASE KeepWriting
  BY <1>2, WriterStepTypes DEF KeepWriting
<1>3. CASE BeginWriting \/ DraftReady \/ WritingExhausted
  <2>1. \E to \in {"off", "refresh"}, by \in {{}, Catalogue} : WriterReset(to, by)
    BY <1>3 DEF BeginWriting, DraftReady, WritingExhausted, WriterStart, WriterOff
  <2> QED BY <1>0, <2>1 DEF WriterReset, Writing
<1>4. CASE Crash
  BY <1>0, <1>4 DEF Crash, WriterCrash, writerChannels, Writing
<1> QED
  BY <1>1, <1>2, <1>3, <1>4 DEF Next, Step, Still, Route, QuickAnswer, ClarifierStep, InClarifier,
     Interrupt, ClarifyEnds, GiveUpRevising, HandToWriter, StopResearch, WriteQuickAnswer,
     NothingUsable, Review, Render, NodeFails, BudgetRefused, UserAnswers, Claim

LEMMA HostingStep == Clarifying /\ Hosting /\ Next => Hosting'
<1> SUFFICES ASSUME Clarifying, Hosting, Next PROVE Hosting'
  OBVIOUS
<1>1. CASE UNCHANGED <<row, host, resume, crashes>>
  BY <1>1 DEF Hosting
<1>2. CASE ClarifierStep
  BY <1>2 DEF ClarifierStep, Quiet, Hosting
<1>3. CASE Interrupt \/ Render \/ NodeFails \/ UserAnswers
  BY <1>3 DEF Interrupt, Render, NodeFails, UserAnswers, Hosting, Clarifying
<1>4. CASE Claim
  BY <1>4 DEF Claim, Hosting
<1>5. CASE Crash
  BY <1>5, PipelineAssumption DEF Crash, Hosting
<1> QED
  BY <1>1, <1>2, <1>3, <1>4, <1>5 DEF Next, Step, Still, Quiet, Route, QuickAnswer, ClarifyEnds,
     GiveUpRevising, HandToWriter, StopResearch, WriteQuickAnswer, NothingUsable, BeginWriting,
     KeepWriting, DraftReady, WritingExhausted, Review, BudgetRefused

(* Every variable of the graph, the Clarifier and the Writer keeps its     *)
(* type: each channel one of the values its schema names, turns, nudges,   *)
(* drafts and citations within their limits, whatever the models reply.    *)
THEOREM TypeCorrect == Spec => []TypeOK
<1> DEFINE All == Inv /\ Clarifying /\ Writing /\ Hosting /\ st \in State
<1>1. Init => All
  <2> SUFFICES ASSUME Init PROVE All
    OBVIOUS
  <2>1. Inv
    BY InitInv
  <2>2. Clarifying /\ Hosting
    <3>1. MaxCrashes \in Nat /\ ClarifierTurns \in Nat
      BY PipelineAssumption, ClarifierAssumption
    <3>2. clarTurns = 0 /\ pending = 0 /\ dialogue = <<>> /\ clarPc = "off" /\ intent = FALSE
      BY Zenon DEF Init, ClarInit
    <3>3. row = [status |-> "running", payload |-> 0] /\ host = "up" /\ resume = 0 /\ crashes = 0
      BY Zenon DEF Init
    <3>4. <<>> \in Seq(Entry)
      OBVIOUS
    <3>5. Clarifying
      <4>1. intent \in BOOLEAN
        BY <3>2, Zenon
      <4>2. pending \in Nat /\ clarTurns \in 0 .. ClarifierTurns
        BY <3>1, <3>2
      <4>3. dialogue \in Seq(Entry)
        BY <3>2, <3>4, Zenon
      <4>4. clarPc \in {"off", "agent", "ask", "finalize", "over"}
        BY <3>2, Zenon
      <4> QED BY <4>1, <4>2, <4>3, <4>4, Zenon DEF Clarifying
    <3>6. row \in [status : {"running", "awaiting_input", "queued", "completed"}, payload : Nat]
      BY <3>3
    <3>7. Hosting
      BY <3>1, <3>3, <3>6 DEF Hosting
    <3> QED BY <3>5, <3>7
  <2>3. Writing
    BY WriterAssumption DEF Init, WriterInit, Writing
  <2>4. st \in State
    BY StateIs, Values DEF Init, Routes, Modes, Researched
  <2> QED BY <2>1, <2>2, <2>3, <2>4
<1>2. Inv' /\ All /\ [Next]_vars => All'
  <2>1. ASSUME Inv', All, Next PROVE All'
    BY <2>1, ClarifyingStep, WritingStep, HostingStep, StateStep
  <2>2. ASSUME Inv', All, UNCHANGED vars PROVE All'
    BY <2>2 DEF vars, clarVars, writerVars, runVars, Clarifying, Writing, Hosting
  <2> QED BY <2>1, <2>2
<1>3. All => TypeOK
  <2> SUFFICES ASSUME All PROVE TypeOK
    OBVIOUS
  <2>1. asked \in Nat /\ shown \subseteq Question
    BY DEF Inv, Questions, Question
  <2>2. {offered, readCh, readMem} \subseteq SUBSET Evidence
    BY PipelineAssumption DEF Inv, Reads
  <2>3. written \in Seq([cites : Cites, offered : SUBSET Evidence, read : SUBSET Evidence])
    <3>1. Reading \subseteq [cites : Cites, offered : SUBSET Evidence, read : SUBSET Evidence]
      BY PipelineAssumption DEF Reading, Cites
    <3>2. written \in Seq(Reading)
      BY DEF Inv, Reads
    <3> DEFINE Wide == [cites : Cites, offered : SUBSET Evidence, read : SUBSET Evidence]
    <3>3. \A i \in 1 .. Len(written) : written[i] \in Wide
      BY <3>1, <3>2
    <3> HIDE DEF Wide, All
    <3>4. written \in Seq(Wide)
      BY <3>2, <3>3, SeqDef
    <3> QED BY <3>4 DEF Wide
  <2>4. node \in NodeName /\ judged \in [Draft -> {"unread", "approved", "rejected", "failed"}]
    BY DEF Inv, Types, Decision
  <2> QED BY <2>1, <2>2, <2>3, <2>4 DEF TypeOK, Clarifying, Writing, Hosting
<1> HIDE DEF All
<1> QED BY <1>1, <1>2, <1>3, Invariance, PTL DEF Spec
=============================================================================
