----------------------------- MODULE Researcher -----------------------------
(***************************************************************************)
(* The tool loop of a Researcher (agents/researcher), which works on one   *)
(* research task: the model searches, reads what it selects, submits       *)
(* evidence quoted from what it has read, and completes the task.          *)
(*                                                                         *)
(* The calls of one reply run at the same time.  They share the task state *)
(* in memory, `board', and stop at every await; what each hands over when  *)
(* it returns is merged into the channels of the graph after the last one, *)
(* and the next turn starts from a board built from the channels.  The     *)
(* texts lie in a store (ResearchMaterialStore) that forgets.              *)
(***************************************************************************)
EXTENDS Naturals, FiniteSets

CONSTANTS
  Query,
  Candidate,     \* sources a search may find
  Quote,         \* passages of a text
  MaxQueries,    \* research_agent_max_queries
  ActiveLimit, ArchiveLimit,    \* active_evidence_limit, evidence_archive_limit
  PerSource,     \* evidence_max_per_source
  BatchSize,     \* evidence_add_batch_size
  MaxTurns,      \* research_agent_max_turns + 1
  MaxRejections, \* submission_max_rejections
  MaxParallel,   \* bound: calls of one reply
  MaxAsked,      \* bound: queries or submissions of one call
  MaxFaults,     \* bound: failures of the stores and of the model
  MaxExpiries    \* bound: texts that expire

ASSUME ResearcherAssumption ==
  /\ IsFiniteSet(Query) /\ IsFiniteSet(Candidate) /\ IsFiniteSet(Quote)
  /\ {ActiveLimit, ArchiveLimit, PerSource, BatchSize, MaxTurns, MaxParallel, MaxAsked}
       \subseteq Nat \ {0}
  /\ {MaxQueries, MaxRejections, MaxFaults, MaxExpiries} \subseteq Nat

(* The document of a source is its text, or what the search told of it.    *)
Document == Candidate
Evidence == Document \X Quote
SourceOf(e) == e[1]
DocumentOf(e) == e[1]
Call == 1 .. MaxParallel

VARIABLES
  board,       \* ResearcherTaskState, in memory
  channel,     \* the channels of the inner graph
  call,        \* the tool calls of the reply being executed
  writes,      \* what finished calls hand over to the channels
  next,        \* what the loop does next
  turns, rejections,
  store,       \* documents whose text the store still has
  result,      \* what run() returned
  asked,       \* history: queries sent to the search tool
  fetched,     \* history: how often a source was read
  told,        \* history: evidence the model was told is accepted
  faults, expiries

histVars == <<asked, fetched, told>>
envVars  == <<store, expiries>>
loopVars == <<turns, rejections>>
vars == <<board, channel, call, writes, next, loopVars, envVars, result, histVars, faults>>

Stop == {"budget", "complete", "blocked", "fallback", "failed", "cancelled"}
Submitted == {"complete", "blocked"}
State == [queries : SUBSET Query, known : SUBSET Candidate, chosen : SUBSET Candidate,
          docs : SUBSET Document, evidences : SUBSET Evidence, active : SUBSET Evidence,
          exhausted : BOOLEAN, stop : Stop]
Empty == [queries |-> {}, known |-> {}, chosen |-> {}, docs |-> {}, evidences |-> {},
          active |-> {}, exhausted |-> FALSE, stop |-> "budget"]

(* Tools: search SearchSources, read ReadSources, add AddEvidence, look    *)
(* ReadDocument and GrepDocument.  What a call was asked for, what of it   *)
(* is still to be done, what came of it, and what it saw when it began.    *)
NoCall == [tool |-> "none", stage |-> "none", queries |-> {}, cands |-> {}, subs |-> {},
           valid |-> {}, seen |-> Empty]
NoResult == [status |-> "none", stop |-> "budget", evidences |-> {}, selected |-> {}]

Init ==
  /\ board = Empty /\ channel = Empty /\ writes = Empty
  /\ call = [i \in Call |-> NoCall] /\ next = "refresh"
  /\ turns = 0 /\ rejections = 0
  /\ store = {} /\ result = NoResult
  /\ asked = 0 /\ fetched = [c \in Candidate |-> 0] /\ told = {}
  /\ faults = 0 /\ expiries = 0

Smaller(m, n) == IF m <= n THEN m ELSE n
Left(limit, used) == IF used < limit THEN limit - used ELSE 0
SomeOf(set, n) == {s \in SUBSET set : Cardinality(s) = Smaller(n, Cardinality(set))}
Few(set) == {s \in SUBSET set : Cardinality(s) \in 1 .. MaxAsked}

-----------------------------------------------------------------------------
(* HOW IT ENDS: run() *)

(* What is left when nothing was submitted: the evidence at hand, or, with *)
(* none at hand, the first of the archive.  Mutant: what was released      *)
(* stays away.                                                             *)
Revived_Never(s) == {s.active}
Revived(s) == IF s.active = {} THEN SomeOf(s.evidences, ActiveLimit) ELSE {s.active}

MinimumStop(s, selected) ==
  IF s.stop = "failed" THEN "failed" ELSE IF selected = {} THEN "blocked" ELSE "fallback"

Return(status, s) ==
  /\ next' = "over"
  /\ IF s.stop \in Submitted
     THEN result' = [status |-> status, stop |-> s.stop, evidences |-> s.evidences,
                     selected |-> s.active]
     ELSE \E selected \in Revived(s) :
            result' = [status |-> status, stop |-> MinimumStop(s, selected),
                       evidences |-> s.evidences, selected |-> selected]
  /\ call' = [i \in Call |-> NoCall] /\ writes' = Empty

(* The loop is left in good order: the channels count.                     *)
Leave == Return("completed", channel) /\ UNCHANGED <<board, channel, envVars, histVars, faults>>

(* An exception comes through: what is in memory counts.  Mutant: the      *)
(* channels do, which know nothing of the batch that failed.               *)
Salvage_Channels == channel
Salvage == board
Break ==
  /\ Return("failed", [Salvage EXCEPT !.stop = "failed"])
  /\ UNCHANGED <<board, channel, loopVars, envVars, histVars>>

Fault == faults < MaxFaults /\ faults' = faults + 1

Cancel ==
  /\ next # "over" /\ next' = "over"
  /\ result' = [NoResult EXCEPT !.status = "cancelled", !.stop = "cancelled"]
  /\ call' = [i \in Call |-> NoCall] /\ writes' = Empty
  /\ UNCHANGED <<board, channel, loopVars, envVars, histVars, faults>>

-----------------------------------------------------------------------------
(* A TURN OF THE MODEL *)

(* ModelCallLimit.                                                         *)
OutOfTurns == turns >= MaxTurns

(* StateRebuild, SubmittedExit and ModelCallLimit before the call.         *)
Refresh ==
  /\ next = "refresh"
  /\ IF channel.stop \in Submitted \/ OutOfTurns
     THEN Leave /\ UNCHANGED loopVars
     ELSE /\ board' = channel /\ next' = "model" /\ turns' = turns + 1
          /\ UNCHANGED <<channel, call, writes, rejections, envVars, result, histVars, faults>>

(* A reply without a tool call is sent back until the guard gives up; the  *)
(* text that stands for a failed call ends the loop at once.               *)
Text ==
  /\ next = "model"
  /\ \/ /\ rejections < MaxRejections
        /\ rejections' = rejections + 1 /\ next' = "refresh"
        /\ UNCHANGED <<board, channel, call, writes, turns, envVars, result, histVars, faults>>
     \/ Leave /\ UNCHANGED loopVars

(* What is not tried again (a spent budget, a rejected key).               *)
ModelBreaks == next = "model" /\ Fault /\ Break

(* What calls may ask for.                                                 *)
Ask(tool) == [NoCall EXCEPT !.tool = tool, !.stage = "asked"]
Asks ==
  {[Ask("search") EXCEPT !.queries = q] : q \in Few(Query)}
  \cup {[Ask("read") EXCEPT !.cands = c] : c \in Few(Candidate)}
  \cup {[Ask("add") EXCEPT !.subs = s] : s \in Few(Evidence)}
  \cup {[Ask("look") EXCEPT !.subs = {e}] : e \in Evidence}

(* Only what may come to something, and in the order of the tools: calls   *)
(* that run at the same time may be listed in any.                         *)
Rank == [search |-> 1, read |-> 2, add |-> 3, look |-> 4]
Sensible(a) ==
  CASE a.tool = "search" -> board.queries # Query
    [] a.tool = "read"   -> a.cands \subseteq board.known
    [] OTHER -> \A e \in a.subs : DocumentOf(e) \in board.docs
Parallel(asks) ==
  /\ next = "model"
  /\ \A i, j \in DOMAIN asks : i < j => Rank[asks[i].tool] <= Rank[asks[j].tool]
  /\ call' = [i \in Call |-> IF i \in DOMAIN asks THEN asks[i] ELSE NoCall]
  /\ next' = "tools"
  /\ UNCHANGED <<board, channel, writes, loopVars, envVars, result, histVars, faults>>

-----------------------------------------------------------------------------
(* TOOLS THAT RUN AT THE SAME TIME *)

At(i, tool, stage) == next = "tools" /\ call[i].tool = tool /\ call[i].stage = stage
Hands(what) ==
  writes' = [queries |-> writes.queries \cup what.queries, known |-> writes.known \cup what.known,
             chosen |-> writes.chosen \cup what.chosen, docs |-> writes.docs \cup what.docs,
             evidences |-> writes.evidences \cup what.evidences,
             active |-> writes.active \cup what.active,
             exhausted |-> writes.exhausted \/ what.exhausted, stop |-> "budget"]
Ends(i) == call' = [call EXCEPT ![i] = NoCall]
InTools == UNCHANGED <<channel, next, loopVars, expiries, result>>

(* The queries count from the moment they are sent.                        *)
Sent(queries) == board.queries \cup queries

(* Queries that are new, as far as the quota goes.                         *)
SearchStarts(i) ==
  /\ At(i, "search", "asked")
  /\ \E new \in SomeOf(call[i].queries \ board.queries,
                       Left(MaxQueries, Cardinality(board.queries))) :
       IF new = {}
       THEN Ends(i) /\ Hands([Empty EXCEPT !.queries = board.queries])
            /\ UNCHANGED <<board, asked>>
       ELSE /\ board' = [board EXCEPT !.queries = Sent(new)]
            /\ asked' = asked + Cardinality(new)
            /\ call' = [call EXCEPT ![i].stage = "waiting", ![i].queries = new,
                                    ![i].seen = [Empty EXCEPT !.known = board.known]]
            /\ UNCHANGED writes
  /\ InTools /\ UNCHANGED <<store, fetched, told, faults>>

(* The search tool returns candidates, a failure, or that no provider will *)
(* answer any more.                                                        *)
SearchEnds(i) ==
  /\ At(i, "search", "waiting")
  /\ \E found \in SUBSET Candidate, spent \in BOOLEAN :
       /\ spent => found = {}
       /\ LET b == [board EXCEPT !.known = @ \cup found, !.exhausted = @ \/ spent,
                                 !.queries = @ \cup call[i].queries]
          IN  /\ board' = b
              /\ Hands([Empty EXCEPT !.queries = b.queries, !.exhausted = b.exhausted,
                                     !.known = b.known \ call[i].seen.known])
  /\ Ends(i)
  /\ InTools /\ UNCHANGED <<store, histVars, faults>>

(* The store does not take the results: the retry middleware answers in    *)
(* place of the tool, which hands over nothing.                            *)
SearchBreaks(i) ==
  /\ At(i, "search", "waiting") /\ Fault
  /\ Ends(i)
  /\ InTools /\ UNCHANGED <<board, writes, store, histVars>>

(* What is selected is marked before it is read.                           *)
Marked(cands) == board.chosen \cup cands

ReadStarts(i) ==
  /\ At(i, "read", "asked")
  /\ LET new == (call[i].cands \cap board.known) \ board.chosen
     IN  /\ board' = [board EXCEPT !.chosen = Marked(new)]
         /\ fetched' = [c \in Candidate |-> fetched[c] + (IF c \in new THEN 1 ELSE 0)]
         /\ call' = [call EXCEPT ![i].stage = "waiting", ![i].cands = new,
                                 ![i].seen = [Empty EXCEPT !.docs = board.docs]]
  /\ InTools /\ UNCHANGED <<writes, store, asked, told, faults>>

(* Each source gives a document, its text or what the search told of it,   *)
(* or nothing; with the time limit of a source over, nothing.              *)
Got(i, docs) ==
  LET b == [board EXCEPT !.docs = @ \cup docs, !.chosen = @ \cup call[i].cands]
  IN  /\ board' = b /\ store' = store \cup docs
      /\ Hands([Empty EXCEPT !.chosen = b.chosen, !.docs = b.docs \ call[i].seen.docs])
ReadEnds(i) ==
  /\ At(i, "read", "waiting")
  /\ \E docs \in SUBSET call[i].cands : Got(i, docs)
  /\ Ends(i)
  /\ InTools /\ UNCHANGED <<histVars, faults>>

(* Mutant: there is no limit.                                              *)
TimesOut_Never(i) == FALSE
TimesOut(i) == TRUE
ReadTimesOut(i) ==
  /\ At(i, "read", "waiting") /\ TimesOut(i)
  /\ Got(i, {})
  /\ Ends(i)
  /\ InTools /\ UNCHANGED <<histVars, faults>>

(* A text that is known but has expired is an error nobody handles.        *)
Look(i) ==
  /\ At(i, "look", "asked")
  /\ \A e \in call[i].subs : DocumentOf(e) \notin board.docs \/ DocumentOf(e) \in store
  /\ Ends(i)
  /\ InTools /\ UNCHANGED <<board, writes, store, histVars, faults>>
LookBreaks(i) ==
  /\ At(i, "look", "asked")
  /\ \E e \in call[i].subs : DocumentOf(e) \in board.docs \ store
  /\ Break /\ UNCHANGED faults

-----------------------------------------------------------------------------
(* AddEvidence *)

AddStarts(i) ==
  /\ At(i, "add", "asked")
  /\ call' = [call EXCEPT ![i].stage = "checking",
                ![i].seen = [Empty EXCEPT !.evidences = board.evidences, !.active = board.active]]
  /\ InTools /\ UNCHANGED <<board, writes, store, histVars, faults>>

(* One submission after the other is looked for in its text.               *)
Check(i, e) ==
  /\ At(i, "add", "checking") /\ e \in call[i].subs
  /\ call' = [call EXCEPT ![i].subs = @ \ {e},
                ![i].valid = IF DocumentOf(e) \in board.docs \cap store THEN @ \cup {e} ELSE @]
  /\ InTools /\ UNCHANGED <<board, writes, store, histVars, faults>>
CheckMisses(i, e) ==
  /\ At(i, "add", "checking") /\ e \in call[i].subs
  /\ call' = [call EXCEPT ![i].subs = @ \ {e}]
  /\ InTools /\ UNCHANGED <<board, writes, store, histVars, faults>>
CheckBreaks(i) == At(i, "add", "checking") /\ Fault /\ Break

(* Where the limits are looked up: what is in the archive when the         *)
(* evidence is added.  Mutant: what was there when the call began.         *)
Archive_Stale(i) == call[i].seen.evidences
Archive(i) == board.evidences

(* The best of them, as many as a batch may have, are taken one after the  *)
(* other while the archive and their source have room: whatever their      *)
(* order, what is left out no longer fits.                                 *)
OfSource(set, e) == {f \in set : SourceOf(f) = SourceOf(e)}
Roomy(set) ==
  /\ Cardinality(set) <= ArchiveLimit
  /\ \A e \in set : Cardinality(OfSource(set, e)) <= PerSource
Taken(known, batch) ==
  {new \in SUBSET (batch \ known) :
     /\ Roomy(known \cup new)
     /\ \A e \in batch \ (known \cup new) : ~Roomy(known \cup new \cup {e})}

(* The change of the active set is told apart from the set the call found. *)
(* Mutant: from the set it leaves.                                         *)
Activated_Late(i, active) == {}
Activated(i, active) == active \ call[i].seen.active

AddEnds(i) ==
  /\ At(i, "add", "checking") /\ call[i].subs = {}
  /\ \E batch \in SomeOf(call[i].valid, BatchSize) : \E new \in Taken(Archive(i), batch) :
       \E up \in SomeOf(new, Left(ActiveLimit, Cardinality(board.active))) :
         /\ board' = [board EXCEPT !.evidences = @ \cup new, !.active = @ \cup up]
         /\ told' = told \cup new
         /\ Hands([Empty EXCEPT
                     !.evidences = (board.evidences \cup new) \ call[i].seen.evidences,
                     !.active = Activated(i, board.active \cup up)])
  /\ Ends(i)
  /\ InTools /\ UNCHANGED <<store, asked, fetched, faults>>

(* The reducers, after the last call.                                      *)
Merge ==
  /\ next = "tools" /\ \A i \in Call : call[i] = NoCall
  /\ channel' = [channel EXCEPT
       !.queries = @ \cup writes.queries, !.known = @ \cup writes.known,
       !.chosen = @ \cup writes.chosen, !.docs = @ \cup writes.docs,
       !.evidences = @ \cup writes.evidences, !.active = @ \cup writes.active,
       !.exhausted = @ \/ writes.exhausted]
  /\ writes' = Empty /\ next' = "refresh"
  /\ UNCHANGED <<board, call, loopVars, envVars, result, histVars, faults>>

-----------------------------------------------------------------------------
(* TOOLS THAT RUN ALONE *)

(* What they change goes to the channels as a difference.                  *)
Alone(b) ==
  /\ next = "model" /\ next' = "refresh"
  /\ board' = b
  /\ channel' = [channel EXCEPT
       !.active = (@ \cup (b.active \ board.active)) \ (board.active \ b.active),
       !.stop = b.stop]
  /\ UNCHANGED <<call, writes, loopVars, envVars, result, histVars, faults>>

Release(set) == Alone([board EXCEPT !.active = @ \ set])
Restore(set) ==
  \E back \in SomeOf((set \cap board.evidences) \ board.active,
                     Left(ActiveLimit, Cardinality(board.active))) :
    Alone([board EXCEPT !.active = @ \cup back])

(* Without a selection everything active counts as selected.               *)
StopOf(active) == IF active = {} THEN "blocked" ELSE "complete"
Complete(set) ==
  /\ set \subseteq board.active
  /\ LET active == IF set = {} THEN board.active ELSE set
     IN  Alone([board EXCEPT !.active = active, !.stop = StopOf(active)])
CompleteRefused == Alone(board)

-----------------------------------------------------------------------------
(* The store forgets a text.                                               *)
Expire(d) ==
  /\ d \in store /\ next # "over" /\ expiries < MaxExpiries
  /\ store' = store \ {d} /\ expiries' = expiries + 1
  /\ UNCHANGED <<board, channel, call, writes, next, loopVars, result, histVars, faults>>

(* What a call does of its own accord; whether a source gives its text is   *)
(* up to the source.                                                       *)
Runs(i) ==
  \/ SearchStarts(i) \/ SearchEnds(i) \/ ReadStarts(i) \/ ReadTimesOut(i)
  \/ AddStarts(i) \/ AddEnds(i) \/ Look(i) \/ LookBreaks(i)
  \/ \E e \in Evidence : Check(i, e)
Step(i) ==
  \/ Runs(i) \/ ReadEnds(i) \/ SearchBreaks(i) \/ CheckBreaks(i)
  \/ \E e \in Evidence : CheckMisses(i, e)

Reply ==
  \/ Text \/ ModelBreaks \/ CompleteRefused
  \/ \E n \in Call : \E asks \in [1 .. n -> {a \in Asks : Sensible(a)}] : Parallel(asks)
  \/ \E set \in SUBSET board.evidences : Release(set) \/ Restore(set) \/ Complete(set)

Next ==
  \/ Refresh \/ Reply \/ Merge \/ Cancel
  \/ \E i \in Call : Step(i)
  \/ \E d \in Document : Expire(d)

Spec == Init /\ [][Next]_vars
(* The loop goes on, the model answers, the search tool returns.           *)
FairSpec ==
  /\ Spec /\ WF_vars(Refresh) /\ WF_vars(Reply) /\ WF_vars(Merge)
  /\ \A i \in Call : WF_vars(Runs(i))

-----------------------------------------------------------------------------
(* PROPERTIES *)

CallType == [tool : {"none", "search", "read", "add", "look"},
             stage : {"none", "asked", "waiting", "checking"},
             queries : SUBSET Query, cands : SUBSET Candidate,
             subs : SUBSET Evidence, valid : SUBSET Evidence, seen : State]
ResultType == [status : {"none", "completed", "failed", "cancelled"}, stop : Stop,
               evidences : SUBSET Evidence, selected : SUBSET Evidence]

(* Types of the variables.                                                 *)
TypeOK ==
  /\ board \in State /\ channel \in State /\ writes \in State
  /\ call \in [Call -> CallType]
  /\ next \in {"refresh", "model", "tools", "over"}
  /\ turns \in 0 .. MaxTurns /\ rejections \in 0 .. MaxRejections
  /\ store \subseteq Document
  /\ result \in ResultType
  /\ asked \in Nat /\ fetched \in [Candidate -> Nat] /\ told \subseteq Evidence
  /\ faults \in 0 .. MaxFaults /\ expiries \in 0 .. MaxExpiries

Bounded(evidences, active) == Roomy(evidences) /\ Cardinality(active) <= ActiveLimit

(* However the calls of AddEvidence of one reply overlap, the archive, the *)
(* share of a source in it and the active set stay within their limits, in *)
(* memory, in the channels and in what the task returns (add_evidence      *)
(* validates for a while and adds without an await).                       *)
WithinLimits ==
  /\ Bounded(board.evidences, board.active)
  /\ Bounded(channel.evidences, channel.active)
  /\ Bounded(result.evidences, result.selected)

(* When the calls of a reply have been merged, the channels hold what the  *)
(* board holds, although each call handed over a difference of its own to  *)
(* a state the others were changing; of the queries they may lack those of *)
(* a call whose answer was lost (tools.py, reducers.py).                   *)
ChannelsCatchUp ==
  next = "refresh" => /\ channel = [board EXCEPT !.queries = channel.queries]
                      /\ channel.queries \subseteq board.queries

(* Evidence the model was told is accepted is in what the task returns,    *)
(* however the loop ends short of a cancellation, a failure in the middle  *)
(* of a batch included (run() takes the channels or the memory).           *)
NothingLost == result.status \in {"completed", "failed"} => told \subseteq result.evidences

(* No source is read twice for a task, be it selected by two calls at once.*)
ReadOnce == \A c \in Candidate : fetched[c] <= 1

(* The reason to stop agrees with what is handed over: complete means      *)
(* evidence, blocked means none, and a task that was ended for the model   *)
(* never leaves evidence of the archive behind with nothing selected.      *)
StopTellsTruth ==
  /\ result.selected \subseteq result.evidences
  /\ result.stop = "complete" => result.selected # {}
  /\ result.stop = "blocked" => result.selected = {}
  /\ result.stop \in {"fallback", "failed"} => (result.selected = {} <=> result.evidences = {})

(* Every task comes to an end, sources that never answer included          *)
(* (source_total_timeout).                                                 *)
TaskEnds == <>(next = "over")
=============================================================================
