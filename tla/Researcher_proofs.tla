-------------------------- MODULE Researcher_proofs --------------------------
(***************************************************************************)
(* The state of a Researcher stays together whatever the model asks for,   *)
(* however the calls of a reply overlap and wherever the loop breaks.      *)
(***************************************************************************)
EXTENDS Researcher, FiniteSetTheorems, TLAPS

LEMMA EmptyIsState == Empty \in State
BY DEF Empty, State, Stop

LEMMA NoCallType == NoCall \in CallType
BY EmptyIsState DEF NoCall, CallType

LEMMA HandsType ==
  ASSUME writes \in State, NEW w \in State, Hands(w)
  PROVE  writes' \in State
BY DEF Hands, State, Stop

LEMMA EndsType ==
  ASSUME call \in [Call -> CallType], NEW i \in Call, Ends(i)
  PROVE  call' \in [Call -> CallType]
BY NoCallType DEF Ends

LEMMA ReturnType ==
  ASSUME NEW s \in State, NEW status \in {"completed", "failed"}, Return(status, s)
  PROVE  /\ next' = "over" /\ result' \in ResultType
         /\ call' \in [Call -> CallType] /\ writes' \in State
<1>1. \A selected \in Revived(s) : selected \in SUBSET Evidence
  BY DEF Revived, SomeOf, State
<1>2. \A selected \in SUBSET Evidence : MinimumStop(s, selected) \in Stop
  BY DEF MinimumStop, Stop
<1>3. result' \in ResultType
  BY <1>1, <1>2 DEF Return, ResultType, State, Submitted, Stop
<1> QED
  BY <1>3, EmptyIsState, NoCallType DEF Return

LEMMA BreakType ==
  ASSUME TypeOK, Break, faults' \in 0 .. MaxFaults
  PROVE  TypeOK'
<1>1. [Salvage EXCEPT !.stop = "failed"] \in State
  BY DEF TypeOK, Salvage, State, Stop
<1> QED
  BY <1>1, ReturnType DEF TypeOK, Break, loopVars, envVars, histVars

LEMMA FaultType ==
  ASSUME TypeOK, Fault
  PROVE  faults' \in 0 .. MaxFaults
BY ResearcherAssumption DEF TypeOK, Fault

LEMMA AloneType ==
  ASSUME TypeOK, NEW b \in State, Alone(b)
  PROVE  TypeOK'
BY DEF TypeOK, Alone, State, loopVars, envVars, histVars

(* What the tools that run at the same time do to the types.               *)
LEMMA StepType ==
  ASSUME TypeOK, NEW i \in Call, Step(i)
  PROVE  TypeOK'
<1> USE DEF TypeOK
<1>0. /\ call[i] \in CallType /\ board \in State
  OBVIOUS
<1>1. CASE SearchStarts(i)
  <2>1. PICK new \in SomeOf(call[i].queries \ board.queries,
                           Left(MaxQueries, Cardinality(board.queries))) :
          IF new = {}
          THEN Ends(i) /\ Hands([Empty EXCEPT !.queries = board.queries])
               /\ UNCHANGED <<board, asked>>
          ELSE /\ board' = [board EXCEPT !.queries = Sent(new)]
               /\ asked' = asked + Cardinality(new)
               /\ call' = [call EXCEPT ![i].stage = "waiting", ![i].queries = new,
                              ![i].seen = [Empty EXCEPT !.known = board.known]]
               /\ UNCHANGED writes
    BY <1>1 DEF SearchStarts
  <2>2. new \subseteq Query /\ IsFiniteSet(new)
    <3>1. new \subseteq Query
      BY <1>0 DEF SomeOf, CallType
    <3> QED
      BY <3>1, FS_Subset, ResearcherAssumption
  <2>3. CASE new = {}
    <3>1. [Empty EXCEPT !.queries = board.queries] \in State
      BY EmptyIsState DEF State
    <3> QED
      BY <1>1, <2>1, <2>3, <3>1, HandsType, EndsType DEF SearchStarts, InTools, loopVars
  <2>4. CASE new # {}
    <3>1. [Empty EXCEPT !.known = board.known] \in State
      BY EmptyIsState DEF State
    <3>2. board' \in State
      BY <2>1, <2>2, <2>4 DEF Sent, State
    <3>3. call' \in [Call -> CallType]
      BY <2>1, <2>2, <2>4, <3>1 DEF CallType
    <3>4. asked' \in Nat
      BY <2>1, <2>2, <2>4, FS_CardinalityType
    <3> QED
      BY <1>1, <2>1, <2>4, <3>2, <3>3, <3>4 DEF SearchStarts, InTools, loopVars
  <2> QED
    BY <2>3, <2>4
<1>2. CASE SearchEnds(i)
  <2>1. PICK found \in SUBSET Candidate, spent \in BOOLEAN :
          LET b == [board EXCEPT !.known = @ \cup found, !.exhausted = @ \/ spent,
                                 !.queries = @ \cup call[i].queries]
          IN  /\ board' = b
              /\ Hands([Empty EXCEPT !.queries = b.queries, !.exhausted = b.exhausted,
                                     !.known = b.known \ call[i].seen.known])
    BY <1>2 DEF SearchEnds
  <2>2. board' \in State
    BY <1>0, <2>1 DEF State, CallType
  <2>3. Hands([Empty EXCEPT !.queries = board'.queries, !.exhausted = board'.exhausted,
                            !.known = board'.known \ call[i].seen.known])
    BY <2>1
  <2>4. [Empty EXCEPT !.queries = board'.queries, !.exhausted = board'.exhausted,
                      !.known = board'.known \ call[i].seen.known] \in State
    BY <2>2, EmptyIsState DEF State
  <2> QED
    BY <1>2, <2>2, <2>3, <2>4, HandsType, EndsType DEF SearchEnds, InTools, loopVars, histVars
<1>3. CASE SearchBreaks(i)
  BY <1>3, EndsType, FaultType DEF SearchBreaks, InTools, loopVars, histVars
<1>4. CASE ReadStarts(i)
  <2> DEFINE new == (call[i].cands \cap board.known) \ board.chosen
  <2>1. [Empty EXCEPT !.docs = board.docs] \in State
    BY EmptyIsState DEF State
  <2>2. board' \in State
    BY <1>0, <1>4 DEF ReadStarts, Marked, State, CallType
  <2>3. call' \in [Call -> CallType]
    BY <1>0, <1>4, <2>1 DEF ReadStarts, CallType
  <2>4. fetched' \in [Candidate -> Nat]
    BY <1>4 DEF ReadStarts
  <2> QED
    BY <1>4, <2>2, <2>3, <2>4 DEF ReadStarts, InTools, loopVars
<1>5. ASSUME NEW docs \in SUBSET call[i].cands, Got(i, docs)
      PROVE  board' \in State /\ store' \subseteq Document /\ writes' \in State
  <2> DEFINE b == [board EXCEPT !.docs = @ \cup docs, !.chosen = @ \cup call[i].cands]
             w == [Empty EXCEPT !.chosen = b.chosen, !.docs = b.docs \ call[i].seen.docs]
  <2>1. docs \subseteq Document
    BY <1>0 DEF CallType, Document
  <2>2. b \in State
    BY <1>0, <2>1 DEF State, CallType
  <2>3. w \in State
    BY <2>2, EmptyIsState DEF State
  <2> HIDE DEF w
  <2>4. Hands(w)
    BY <1>5 DEF Got, w
  <2> QED
    BY <1>5, <2>1, <2>2, <2>3, <2>4, HandsType DEF Got
<1>6. CASE ReadEnds(i)
  BY <1>5, <1>6, EndsType DEF ReadEnds, InTools, loopVars, histVars
<1>7. CASE ReadTimesOut(i)
  BY <1>5, <1>7, EndsType DEF ReadTimesOut, InTools, loopVars, histVars
<1>8. CASE AddStarts(i)
  <2>1. [Empty EXCEPT !.evidences = board.evidences, !.active = board.active] \in State
    BY EmptyIsState DEF State
  <2>2. call' \in [Call -> CallType]
    BY <1>0, <1>8, <2>1 DEF AddStarts, CallType
  <2> QED
    BY <1>8, <2>2 DEF AddStarts, InTools, loopVars, histVars
<1>9. ASSUME NEW e \in Evidence, Check(i, e) \/ CheckMisses(i, e)
      PROVE  TypeOK'
  <2>1. call' \in [Call -> CallType]
    BY <1>0, <1>9 DEF Check, CheckMisses, CallType
  <2> QED
    BY <1>9, <2>1 DEF Check, CheckMisses, InTools, loopVars, histVars
<1>10. CASE CheckBreaks(i)
  BY <1>10, BreakType, FaultType DEF CheckBreaks
<1>11. CASE AddEnds(i)
  <2>1. PICK batch \in SomeOf(call[i].valid, BatchSize) : \E new \in Taken(Archive(i), batch) :
       \E up \in SomeOf(new, Left(ActiveLimit, Cardinality(board.active))) :
         /\ board' = [board EXCEPT !.evidences = @ \cup new, !.active = @ \cup up]
         /\ told' = told \cup new
         /\ Hands([Empty EXCEPT
                     !.evidences = (board.evidences \cup new) \ call[i].seen.evidences,
                     !.active = Activated(i, board.active \cup up)])
    BY <1>11 DEF AddEnds
  <2>2. PICK new \in Taken(Archive(i), batch) :
       \E up \in SomeOf(new, Left(ActiveLimit, Cardinality(board.active))) :
         /\ board' = [board EXCEPT !.evidences = @ \cup new, !.active = @ \cup up]
         /\ told' = told \cup new
         /\ Hands([Empty EXCEPT
                     !.evidences = (board.evidences \cup new) \ call[i].seen.evidences,
                     !.active = Activated(i, board.active \cup up)])
    BY <2>1
  <2>3. PICK up \in SomeOf(new, Left(ActiveLimit, Cardinality(board.active))) :
         /\ board' = [board EXCEPT !.evidences = @ \cup new, !.active = @ \cup up]
         /\ told' = told \cup new
         /\ Hands([Empty EXCEPT
                     !.evidences = (board.evidences \cup new) \ call[i].seen.evidences,
                     !.active = Activated(i, board.active \cup up)])
    BY <2>2
  <2>4. new \subseteq Evidence /\ up \subseteq Evidence
    BY <1>0 DEF SomeOf, Taken, CallType
  <2>5. board' \in State /\ told' \subseteq Evidence
    BY <2>3, <2>4 DEF State
  <2>6. [Empty EXCEPT !.evidences = (board.evidences \cup new) \ call[i].seen.evidences,
                      !.active = Activated(i, board.active \cup up)] \in State
    BY <2>4, EmptyIsState DEF State, Activated
  <2> QED
    BY <1>11, <2>3, <2>5, <2>6, HandsType, EndsType DEF AddEnds, InTools, loopVars
<1>12. CASE Look(i)
  BY <1>12, EndsType DEF Look, InTools, loopVars, histVars
<1>13. CASE LookBreaks(i)
  BY <1>13, BreakType DEF LookBreaks
<1> QED
  BY <1>1, <1>2, <1>3, <1>4, <1>6, <1>7, <1>8, <1>9, <1>10, <1>11, <1>12, <1>13 DEF Step, Runs

LEMMA ReplyType ==
  ASSUME TypeOK, Reply
  PROVE  TypeOK'
<1> USE DEF TypeOK
<1>1. CASE Text
  BY <1>1, ReturnType, ResearcherAssumption DEF Text, Leave, loopVars, envVars, histVars
<1>2. CASE ModelBreaks
  BY <1>2, BreakType, FaultType DEF ModelBreaks
<1>3. CASE CompleteRefused
  BY <1>3, AloneType DEF CompleteRefused
<1>4. ASSUME NEW n \in Call, NEW asks \in [1 .. n -> {a \in Asks : Sensible(a)}], Parallel(asks)
      PROVE  TypeOK'
  <2>1. Asks \subseteq CallType
    <3>1. \A tool \in {"search", "read", "add", "look"} : Ask(tool) \in CallType
      BY NoCallType DEF Ask, CallType
    <3>2. \A set : \A few \in Few(set) : few \subseteq set
      BY DEF Few
    <3>3. \A q \in Few(Query) : [Ask("search") EXCEPT !.queries = q] \in CallType
      BY <3>1, <3>2 DEF CallType
    <3>4. \A c \in Few(Candidate) : [Ask("read") EXCEPT !.cands = c] \in CallType
      BY <3>1, <3>2 DEF CallType
    <3>5. \A e \in Few(Evidence) : [Ask("add") EXCEPT !.subs = e] \in CallType
      BY <3>1, <3>2 DEF CallType
    <3>6. \A e \in Evidence : [Ask("look") EXCEPT !.subs = {e}] \in CallType
      BY <3>1 DEF CallType
    <3> QED
      BY <3>3, <3>4, <3>5, <3>6 DEF Asks
  <2>2. call' \in [Call -> CallType]
    BY <1>4, <2>1, NoCallType DEF Parallel
  <2> QED
    BY <1>4, <2>2 DEF Parallel, loopVars, envVars, histVars
<1>5. ASSUME NEW set \in SUBSET board.evidences, Release(set)
      PROVE  TypeOK'
  <2>1. [board EXCEPT !.active = @ \ set] \in State
    BY DEF State
  <2> QED
    BY <1>5, <2>1, AloneType DEF Release
<1>6. ASSUME NEW set \in SUBSET board.evidences, Restore(set)
      PROVE  TypeOK'
  <2>1. PICK back \in SomeOf((set \cap board.evidences) \ board.active,
                            Left(ActiveLimit, Cardinality(board.active))) :
          Alone([board EXCEPT !.active = @ \cup back])
    BY <1>6 DEF Restore
  <2>2. [board EXCEPT !.active = @ \cup back] \in State
    BY DEF State, SomeOf
  <2> QED
    BY <2>1, <2>2, AloneType
<1>7. ASSUME NEW set \in SUBSET board.evidences, Complete(set)
      PROVE  TypeOK'
  <2> DEFINE active == IF set = {} THEN board.active ELSE set
  <2>1. [board EXCEPT !.active = active, !.stop = StopOf(active)] \in State
    BY DEF State, StopOf, Stop
  <2> QED
    BY <1>7, <2>1, AloneType DEF Complete
<1> QED
  BY <1>1, <1>2, <1>3, <1>4, <1>5, <1>6, <1>7 DEF Reply

LEMMA StepsKeepType == TypeOK /\ [Next]_vars => TypeOK'
<1> SUFFICES ASSUME TypeOK, [Next]_vars PROVE TypeOK'
  OBVIOUS
<1> USE DEF TypeOK
<1>1. CASE Refresh
  BY <1>1, ReturnType, ResearcherAssumption DEF Refresh, OutOfTurns, Leave, loopVars, envVars, histVars
<1>2. CASE Reply
  BY <1>2, ReplyType
<1>3. CASE Merge
  <2>1. channel' \in State
    BY <1>3 DEF Merge, State
  <2> QED
    BY <1>3, <2>1, EmptyIsState DEF Merge, loopVars, envVars, histVars
<1>4. CASE Cancel
  <2>1. result' \in ResultType
    BY <1>4 DEF Cancel, NoResult, ResultType, Stop
  <2> QED
    BY <1>4, <2>1, EmptyIsState, NoCallType DEF Cancel, loopVars, envVars, histVars
<1>5. ASSUME NEW i \in Call, Step(i) PROVE TypeOK'
  BY <1>5, StepType
<1>6. ASSUME NEW d \in Document, Expire(d) PROVE TypeOK'
  BY <1>6, ResearcherAssumption DEF Expire, loopVars, histVars
<1>7. CASE UNCHANGED vars
  BY <1>7 DEF vars, loopVars, envVars, histVars
<1> QED
  BY <1>1, <1>2, <1>3, <1>4, <1>5, <1>6, <1>7 DEF Next

LEMMA InitType == Init => TypeOK
<1>1. NoResult \in ResultType
  BY DEF NoResult, ResultType, Stop
<1> QED
  BY <1>1, EmptyIsState, NoCallType, ResearcherAssumption DEF Init, TypeOK

(* The variables keep their types.                                         *)
THEOREM TypeCorrect == Spec => []TypeOK
BY InitType, StepsKeepType, PTL DEF Spec

-----------------------------------------------------------------------------
(* THE BOARD IS THE CHANNELS WITH WHAT CALLS HAVE HANDED OVER *)

(* Only sources that are being read are marked before they are handed over,*)
(* and only queries may be missing from what is.                           *)
Together ==
  /\ next # "tools" => writes = Empty
  /\ next # "over" =>
       /\ board.known = channel.known \cup writes.known
       /\ board.docs = channel.docs \cup writes.docs
       /\ board.evidences = channel.evidences \cup writes.evidences
       /\ board.active = channel.active \cup writes.active
       /\ board.exhausted = (channel.exhausted \/ writes.exhausted)
       /\ board.stop = channel.stop
       /\ channel.queries \cup writes.queries \subseteq board.queries
       /\ channel.chosen \cup writes.chosen \subseteq board.chosen
       /\ \A c \in board.chosen : \/ c \in channel.chosen \cup writes.chosen
                                \/ \E i \in Call : At(i, "read", "waiting") /\ c \in call[i].cands

(* What a call saw when it began is still there.                           *)
Sight ==
  \A i \in Call :
    /\ At(i, "search", "waiting") => call[i].seen.known \subseteq board.known
    /\ At(i, "read", "waiting") => /\ call[i].seen.docs \subseteq board.docs
                                  /\ call[i].cands \subseteq board.chosen
    /\ At(i, "add", "checking") => /\ call[i].seen.evidences \subseteq board.evidences
                                  /\ call[i].seen.active \subseteq board.active

LEMMA HandsFields ==
  ASSUME NEW w, Hands(w)
  PROVE  /\ writes'.queries = writes.queries \cup w.queries
         /\ writes'.known = writes.known \cup w.known
         /\ writes'.chosen = writes.chosen \cup w.chosen
         /\ writes'.docs = writes.docs \cup w.docs
         /\ writes'.evidences = writes.evidences \cup w.evidences
         /\ writes'.active = writes.active \cup w.active
         /\ writes'.exhausted = (writes.exhausted \/ w.exhausted)
BY DEF Hands

(* The calls but one are where they were; the one has ended.               *)
LEMMA EndsElsewhere ==
  ASSUME TypeOK, NEW i \in Call, Ends(i), next' = next
  PROVE  \A j \in Call, tool \in {"search", "read", "add", "look"}, stage \in {"asked", "waiting", "checking"} :
           /\ At(j, tool, stage)' <=> (At(j, tool, stage) /\ j # i)
           /\ j # i => call'[j] = call[j]
BY DEF TypeOK, Ends, At, NoCall

(* The condition that remains when what a call had marked is handed over.  *)
LEMMA SearchTogether ==
  ASSUME TypeOK, TypeOK', Together, Sight, NEW i \in Call,
         SearchStarts(i) \/ SearchEnds(i) \/ SearchBreaks(i)
  PROVE  Together' /\ Sight'
<1>0. next = "tools" /\ next' = "tools" /\ channel' = channel
  BY DEF SearchStarts, SearchEnds, SearchBreaks, At, InTools
<1>1. CASE SearchStarts(i)
  <2>1. PICK new \in SomeOf(call[i].queries \ board.queries,
                           Left(MaxQueries, Cardinality(board.queries))) :
          IF new = {}
          THEN Ends(i) /\ Hands([Empty EXCEPT !.queries = board.queries])
               /\ UNCHANGED <<board, asked>>
          ELSE /\ board' = [board EXCEPT !.queries = Sent(new)]
               /\ asked' = asked + Cardinality(new)
               /\ call' = [call EXCEPT ![i].stage = "waiting", ![i].queries = new,
                              ![i].seen = [Empty EXCEPT !.known = board.known]]
               /\ UNCHANGED writes
    BY <1>1 DEF SearchStarts
  <2>2. CASE new = {}
    <3> DEFINE w == [Empty EXCEPT !.queries = board.queries]
    <3>1. /\ w.queries = board.queries /\ w.known = {} /\ w.chosen = {} /\ w.docs = {}
          /\ w.evidences = {} /\ w.active = {} /\ w.exhausted = FALSE
      BY DEF Empty
    <3>2. Hands(w) /\ board' = board /\ Ends(i)
      BY <2>1, <2>2
    <3> HIDE DEF w
    <3>3. /\ writes'.known = writes.known /\ writes'.docs = writes.docs
          /\ writes'.evidences = writes.evidences /\ writes'.active = writes.active
          /\ writes'.chosen = writes.chosen /\ writes'.queries = writes.queries \cup board.queries
      BY <3>1, <3>2, HandsFields
    <3>4. writes'.exhausted = writes.exhausted
      BY <3>1, <3>2, HandsFields DEF TypeOK, State
    <3>5. \A j \in Call : At(j, "read", "waiting") => At(j, "read", "waiting")' /\ call'[j] = call[j]
      BY <1>0, <1>1, <3>2, EndsElsewhere DEF At, SearchStarts
    <3>6. Together'
      BY <1>0, <3>2, <3>3, <3>4, <3>5 DEF Together
    <3>7. Sight'
      BY <1>0, <3>2, EndsElsewhere DEF Sight
    <3> QED
      BY <3>6, <3>7
  <2>3. CASE new # {}
    <3>1. /\ board' = [board EXCEPT !.queries = Sent(new)] /\ writes' = writes
          /\ call' = [call EXCEPT ![i].stage = "waiting", ![i].queries = new,
                              ![i].seen = [Empty EXCEPT !.known = board.known]]
      BY <2>1, <2>3
    <3>2. /\ call'[i].tool = "search" /\ call'[i].seen.known = board.known
          /\ \A j \in Call : j # i => call'[j] = call[j]
      <4>1. [Empty EXCEPT !.known = board.known].known = board.known
        BY DEF Empty
      <4> QED
        BY <1>1, <3>1, <4>1 DEF TypeOK, CallType, SearchStarts, At
    <3>3. /\ board'.known = board.known /\ board'.docs = board.docs
          /\ board'.evidences = board.evidences /\ board'.active = board.active
          /\ board'.exhausted = board.exhausted /\ board'.stop = board.stop
          /\ board'.chosen = board.chosen /\ board.queries \subseteq board'.queries
      BY <3>1 DEF TypeOK, State, Sent
    <3>4. \A j \in Call : At(j, "read", "waiting") => At(j, "read", "waiting")' /\ call'[j] = call[j]
      BY <1>0, <1>1, <3>2 DEF At, SearchStarts
    <3>5. Together'
      BY <1>0, <3>1, <3>3, <3>4 DEF Together
    <3>6. Sight'
      BY <1>0, <3>2, <3>3 DEF Sight, At
    <3> QED
      BY <3>5, <3>6
  <2> QED
    BY <2>2, <2>3
<1>2. CASE SearchEnds(i)
  <2>1. PICK found \in SUBSET Candidate, spent \in BOOLEAN :
          LET b == [board EXCEPT !.known = @ \cup found, !.exhausted = @ \/ spent,
                                 !.queries = @ \cup call[i].queries]
          IN  /\ board' = b
              /\ Hands([Empty EXCEPT !.queries = b.queries, !.exhausted = b.exhausted,
                                     !.known = b.known \ call[i].seen.known])
    BY <1>2 DEF SearchEnds
  <2> DEFINE w == [Empty EXCEPT !.queries = board'.queries, !.exhausted = board'.exhausted,
                                !.known = board'.known \ call[i].seen.known]
  <2>2. /\ board'.known = board.known \cup found /\ board'.docs = board.docs
        /\ board'.evidences = board.evidences /\ board'.active = board.active
        /\ board'.exhausted = (board.exhausted \/ spent) /\ board'.stop = board.stop
        /\ board'.chosen = board.chosen /\ board.queries \subseteq board'.queries
    BY <2>1 DEF TypeOK, State
  <2>3. Hands(w)
    BY <2>1
  <2>4. /\ w.queries = board'.queries /\ w.known = board'.known \ call[i].seen.known
        /\ w.chosen = {} /\ w.docs = {} /\ w.evidences = {} /\ w.active = {}
        /\ w.exhausted = board'.exhausted
    BY DEF Empty
  <2> HIDE DEF w
  <2>5. Ends(i) /\ At(i, "search", "waiting") /\ ~At(i, "read", "waiting")
    BY <1>2 DEF SearchEnds, At
  <2>6. Together'
    <3>0. /\ writes'.known = writes.known \cup (board'.known \ call[i].seen.known)
          /\ writes'.docs = writes.docs /\ writes'.evidences = writes.evidences
          /\ writes'.active = writes.active /\ writes'.chosen = writes.chosen
          /\ writes'.queries = writes.queries \cup board'.queries
          /\ writes'.exhausted = (writes.exhausted \/ board'.exhausted)
      BY <2>3, <2>4, HandsFields
    <3>1. /\ board'.known = channel.known \cup writes'.known
          /\ board'.docs = channel.docs \cup writes'.docs
          /\ board'.evidences = channel.evidences \cup writes'.evidences
          /\ board'.active = channel.active \cup writes'.active
      BY <1>0, <2>2, <2>5, <3>0 DEF Together, Sight
    <3>2. board'.exhausted = (channel.exhausted \/ writes'.exhausted)
      <4>1. board.exhausted = (channel.exhausted \/ writes.exhausted)
        BY <1>0 DEF Together
      <4> QED
        BY <2>2, <3>0, <4>1, Zenon
    <3>3. channel.queries \cup writes'.queries \subseteq board'.queries
      BY <1>0, <2>2, <3>0 DEF Together
    <3>4. writes'.chosen = writes.chosen /\ board'.stop = channel.stop
      BY <1>0, <2>2, <3>0 DEF Together
    <3>5. \A j \in Call : At(j, "read", "waiting") => At(j, "read", "waiting")' /\ call'[j] = call[j]
      BY <1>0, <2>5, EndsElsewhere
    <3> QED
      BY <1>0, <2>2, <3>1, <3>2, <3>3, <3>4, <3>5 DEF Together
  <2>7. Sight'
    BY <1>0, <2>2, <2>5, EndsElsewhere DEF Sight
  <2> QED
    BY <2>6, <2>7
<1>3. CASE SearchBreaks(i)
  <2>1. /\ Ends(i) /\ board' = board /\ writes' = writes /\ ~At(i, "read", "waiting")
    BY <1>3 DEF SearchBreaks, At
  <2>2. \A j \in Call : At(j, "read", "waiting") => At(j, "read", "waiting")' /\ call'[j] = call[j]
    BY <1>0, <2>1, EndsElsewhere
  <2>3. Sight'
    BY <1>0, <2>1, EndsElsewhere DEF Sight
  <2> QED
    BY <1>0, <2>1, <2>2, <2>3 DEF Together
<1> QED
  BY <1>1, <1>2, <1>3

LEMMA OverTogether ==
  ASSUME next' = "over", writes' = Empty
  PROVE  Together' /\ Sight'
BY DEF Together, Sight, At

LEMMA ReadTogether ==
  ASSUME TypeOK, TypeOK', Together, Sight, NEW i \in Call,
         ReadStarts(i) \/ ReadEnds(i) \/ ReadTimesOut(i)
  PROVE  Together' /\ Sight'
<1>0. next = "tools" /\ next' = "tools" /\ channel' = channel
  BY DEF ReadStarts, ReadEnds, ReadTimesOut, At, InTools
<1>1. CASE ReadStarts(i)
  <2> DEFINE new == (call[i].cands \cap board.known) \ board.chosen
  <2>1. /\ board' = [board EXCEPT !.chosen = Marked(new)] /\ writes' = writes
        /\ call' = [call EXCEPT ![i].stage = "waiting", ![i].cands = new,
                            ![i].seen = [Empty EXCEPT !.docs = board.docs]]
    BY <1>1 DEF ReadStarts
  <2>2. /\ board'.known = board.known /\ board'.docs = board.docs
        /\ board'.evidences = board.evidences /\ board'.active = board.active
        /\ board'.exhausted = board.exhausted /\ board'.stop = board.stop
        /\ board'.queries = board.queries /\ board'.chosen = board.chosen \cup new
    BY <2>1 DEF TypeOK, State, Marked
  <2>3. /\ At(i, "read", "waiting")' /\ call'[i].seen.docs = board.docs /\ call'[i].cands = new
        /\ call'[i].tool = "read" /\ ~At(i, "read", "waiting")
        /\ \A j \in Call : j # i => call'[j] = call[j]
    <3>1. [Empty EXCEPT !.docs = board.docs].docs = board.docs
      BY DEF Empty
    <3> QED
      BY <1>0, <1>1, <2>1, <3>1 DEF TypeOK, CallType, ReadStarts, At
  <2> HIDE DEF new
  <2>4. \A j \in Call : At(j, "read", "waiting") => At(j, "read", "waiting")' /\ call'[j] = call[j]
    BY <1>0, <2>3 DEF At
  <2>5. Together'
    BY <1>0, <2>1, <2>2, <2>3, <2>4 DEF Together
  <2>6. Sight'
    BY <1>0, <2>2, <2>3 DEF Sight, At
  <2> QED
    BY <2>5, <2>6
<1>2. ASSUME NEW docs \in SUBSET call[i].cands, Got(i, docs), At(i, "read", "waiting"), Ends(i)
      PROVE  Together' /\ Sight'
  <2> DEFINE w == [Empty EXCEPT !.chosen = board'.chosen, !.docs = board'.docs \ call[i].seen.docs]
  <2>1. /\ board'.known = board.known /\ board'.docs = board.docs \cup docs
        /\ board'.evidences = board.evidences /\ board'.active = board.active
        /\ board'.exhausted = board.exhausted /\ board'.stop = board.stop
        /\ board'.queries = board.queries /\ board'.chosen = board.chosen \cup call[i].cands
    BY <1>2 DEF Got, TypeOK, State
  <2>2. Hands(w)
    BY <1>2 DEF Got
  <2>3. /\ w.queries = {} /\ w.known = {} /\ w.evidences = {} /\ w.active = {}
        /\ w.docs = board'.docs \ call[i].seen.docs /\ w.chosen = board'.chosen
        /\ w.exhausted = FALSE
    BY DEF Empty
  <2> HIDE DEF w
  <2>4. /\ writes'.known = writes.known /\ writes'.queries = writes.queries
        /\ writes'.evidences = writes.evidences /\ writes'.active = writes.active
        /\ writes'.docs = writes.docs \cup (board'.docs \ call[i].seen.docs)
        /\ writes'.chosen = writes.chosen \cup board'.chosen
    BY <2>2, <2>3, HandsFields
  <2>5. writes'.exhausted = writes.exhausted
    BY <2>2, <2>3, HandsFields DEF TypeOK, State
  <2>6. Together'
    <3>1. board'.docs = channel.docs \cup writes'.docs
      BY <1>0, <1>2, <2>1, <2>4 DEF Together, Sight
    <3> QED
      BY <1>0, <2>1, <2>4, <2>5, <3>1 DEF Together
  <2>7. Sight'
    BY <1>0, <1>2, <2>1, EndsElsewhere DEF Sight
  <2> QED
    BY <2>6, <2>7
<1>3. CASE ReadEnds(i)
  BY <1>2, <1>3 DEF ReadEnds
<1>4. CASE ReadTimesOut(i)
  <2>1. {} \in SUBSET call[i].cands
    OBVIOUS
  <2> QED
    BY <1>2, <1>4, <2>1 DEF ReadTimesOut
<1> QED
  BY <1>1, <1>3, <1>4

(* What AddEvidence takes is new, and it becomes active only as long as    *)
(* there is room.                                                          *)
Adds(i, new, up) ==
  /\ new \subseteq Evidence /\ up \subseteq new
  /\ up \in SomeOf(new, Left(ActiveLimit, Cardinality(board.active)))
  /\ Roomy(board.evidences \cup new)
  /\ board' = [board EXCEPT !.evidences = @ \cup new, !.active = @ \cup up]
  /\ told' = told \cup new
  /\ writes'.evidences = writes.evidences
                           \cup ((board.evidences \cup new) \ call[i].seen.evidences)
  /\ writes'.active = writes.active \cup ((board.active \cup up) \ call[i].seen.active)
  /\ writes'.queries = writes.queries /\ writes'.known = writes.known
  /\ writes'.chosen = writes.chosen /\ writes'.docs = writes.docs
  /\ writes'.exhausted = writes.exhausted

LEMMA AddFields ==
  ASSUME TypeOK, NEW i \in Call, AddEnds(i)
  PROVE  \E new, up : Adds(i, new, up)
<1>1. PICK batch \in SomeOf(call[i].valid, BatchSize) : \E new \in Taken(Archive(i), batch) :
       \E up \in SomeOf(new, Left(ActiveLimit, Cardinality(board.active))) :
         /\ board' = [board EXCEPT !.evidences = @ \cup new, !.active = @ \cup up]
         /\ told' = told \cup new
         /\ Hands([Empty EXCEPT
                     !.evidences = (board.evidences \cup new) \ call[i].seen.evidences,
                     !.active = Activated(i, board.active \cup up)])
  BY DEF AddEnds
<1>2. batch \in SUBSET Evidence
  BY DEF SomeOf, TypeOK, CallType
<1>3. PICK new \in Taken(Archive(i), batch) :
       \E up \in SomeOf(new, Left(ActiveLimit, Cardinality(board.active))) :
         /\ board' = [board EXCEPT !.evidences = @ \cup new, !.active = @ \cup up]
         /\ told' = told \cup new
         /\ Hands([Empty EXCEPT
                     !.evidences = (board.evidences \cup new) \ call[i].seen.evidences,
                     !.active = Activated(i, board.active \cup up)])
  BY <1>1
<1>4. PICK up \in SomeOf(new, Left(ActiveLimit, Cardinality(board.active))) :
         /\ board' = [board EXCEPT !.evidences = @ \cup new, !.active = @ \cup up]
         /\ told' = told \cup new
         /\ Hands([Empty EXCEPT
                     !.evidences = (board.evidences \cup new) \ call[i].seen.evidences,
                     !.active = Activated(i, board.active \cup up)])
  BY <1>3
<1>5. /\ new \subseteq Evidence /\ up \subseteq new /\ Roomy(board.evidences \cup new)
      /\ up \in SomeOf(new, Left(ActiveLimit, Cardinality(board.active)))
  BY <1>2, <1>3, <1>4 DEF Archive, Taken, SomeOf
<1> DEFINE w == [Empty EXCEPT !.evidences = (board.evidences \cup new) \ call[i].seen.evidences,
                              !.active = Activated(i, board.active \cup up)]
<1>6. /\ w.evidences = (board.evidences \cup new) \ call[i].seen.evidences
      /\ w.active = (board.active \cup up) \ call[i].seen.active
      /\ w.queries = {} /\ w.known = {} /\ w.chosen = {} /\ w.docs = {} /\ w.exhausted = FALSE
  BY DEF Empty, Activated
<1>7. Hands(w)
  BY <1>4
<1> HIDE DEF w
<1>8. writes'.exhausted = writes.exhausted
  BY <1>6, <1>7, HandsFields DEF TypeOK, State
<1>9. /\ writes'.evidences = writes.evidences
                               \cup ((board.evidences \cup new) \ call[i].seen.evidences)
      /\ writes'.active = writes.active \cup ((board.active \cup up) \ call[i].seen.active)
      /\ writes'.queries = writes.queries /\ writes'.known = writes.known
      /\ writes'.chosen = writes.chosen /\ writes'.docs = writes.docs
  <2>1. /\ writes'.evidences = writes.evidences \cup w.evidences
        /\ writes'.active = writes.active \cup w.active
        /\ writes'.queries = writes.queries \cup w.queries
        /\ writes'.known = writes.known \cup w.known
        /\ writes'.chosen = writes.chosen \cup w.chosen
        /\ writes'.docs = writes.docs \cup w.docs
    BY <1>7, HandsFields
  <2>2. /\ writes'.queries = writes.queries /\ writes'.known = writes.known
        /\ writes'.chosen = writes.chosen /\ writes'.docs = writes.docs
    BY <1>6, <2>1
  <2> QED
    BY <1>6, <2>1, <2>2, Zenon
<1>10. board' = [board EXCEPT !.evidences = @ \cup new, !.active = @ \cup up] /\ told' = told \cup new
  BY <1>4
<1>11. Adds(i, new, up)
  BY <1>5, <1>8, <1>9, <1>10 DEF Adds
<1> QED
  BY <1>11

LEMMA AddTogether ==
  ASSUME TypeOK, TypeOK', Together, Sight, NEW i \in Call, AddEnds(i)
  PROVE  Together' /\ Sight'
<1>1. PICK new, up : Adds(i, new, up)
  BY AddFields
<1>2. /\ next = "tools" /\ next' = "tools" /\ channel' = channel /\ Ends(i)
      /\ At(i, "add", "checking") /\ ~At(i, "read", "waiting")
  BY DEF AddEnds, At, InTools
<1>3. /\ board'.known = board.known /\ board'.docs = board.docs
      /\ board'.evidences = board.evidences \cup new /\ board'.active = board.active \cup up
      /\ board'.exhausted = board.exhausted /\ board'.stop = board.stop
      /\ board'.queries = board.queries /\ board'.chosen = board.chosen
  BY <1>1 DEF Adds, TypeOK, State
<1>4. \A j \in Call : At(j, "read", "waiting") => At(j, "read", "waiting")' /\ call'[j] = call[j]
  BY <1>2, EndsElsewhere
<1>5. /\ call[i].seen.evidences \subseteq board.evidences
      /\ call[i].seen.active \subseteq board.active
  BY <1>2 DEF Sight
<1>6. /\ board'.evidences = channel.evidences \cup writes'.evidences
      /\ board'.active = channel.active \cup writes'.active
  BY <1>1, <1>2, <1>3, <1>5 DEF Adds, Together
<1>7. Together'
  BY <1>1, <1>2, <1>3, <1>4, <1>6 DEF Adds, Together
<1>8. Sight'
  BY <1>2, <1>3, EndsElsewhere DEF Sight
<1> QED
  BY <1>7, <1>8

LEMMA StepTogether ==
  ASSUME TypeOK, TypeOK', Together, Sight, NEW i \in Call, Step(i)
  PROVE  Together' /\ Sight'
<1>1. CASE SearchStarts(i) \/ SearchEnds(i) \/ SearchBreaks(i)
  BY <1>1, SearchTogether
<1>2. CASE ReadStarts(i) \/ ReadEnds(i) \/ ReadTimesOut(i)
  BY <1>2, ReadTogether
<1>3. CASE AddEnds(i)
  BY <1>3, AddTogether
<1>4. CASE LookBreaks(i) \/ CheckBreaks(i)
  BY <1>4, OverTogether DEF LookBreaks, CheckBreaks, Break, Return
<1>5. CASE AddStarts(i)
  <2>1. /\ next = "tools" /\ next' = "tools" /\ channel' = channel /\ board' = board
        /\ writes' = writes /\ ~At(i, "read", "waiting")
    BY <1>5 DEF AddStarts, At, InTools
  <2>2. /\ call'[i].tool = "add" /\ call'[i].seen.evidences = board.evidences
        /\ call'[i].seen.active = board.active
        /\ \A j \in Call : j # i => call'[j] = call[j]
    <3> DEFINE w == [Empty EXCEPT !.evidences = board.evidences, !.active = board.active]
    <3>1. w.evidences = board.evidences /\ w.active = board.active
      BY DEF Empty
    <3>2. call' = [call EXCEPT ![i].stage = "checking", ![i].seen = w]
      BY <1>5 DEF AddStarts
    <3> HIDE DEF w
    <3> QED
      BY <1>5, <3>1, <3>2 DEF TypeOK, CallType, AddStarts, At
  <2>3. \A j \in Call : At(j, "read", "waiting") => At(j, "read", "waiting")' /\ call'[j] = call[j]
    BY <2>1, <2>2 DEF At
  <2>4. Together'
    BY <2>1, <2>3 DEF Together
  <2>5. Sight'
    BY <2>1, <2>2 DEF Sight, At
  <2> QED
    BY <2>4, <2>5
<1>6. ASSUME NEW e \in Evidence, Check(i, e) \/ CheckMisses(i, e)
      PROVE  Together' /\ Sight'
  <2>1. /\ next = "tools" /\ next' = "tools" /\ channel' = channel /\ board' = board
        /\ writes' = writes /\ At(i, "add", "checking")
    BY <1>6 DEF Check, CheckMisses, At, InTools
  <2>2. /\ call'[i].tool = "add" /\ call'[i].seen = call[i].seen
        /\ \A j \in Call : j # i => call'[j] = call[j]
    BY <1>6 DEF TypeOK, CallType, Check, CheckMisses, At
  <2>3. \A j \in Call : At(j, "read", "waiting") => At(j, "read", "waiting")' /\ call'[j] = call[j]
    BY <2>1, <2>2 DEF At
  <2>4. Together'
    BY <2>1, <2>3 DEF Together
  <2>5. Sight'
    BY <2>1, <2>2 DEF Sight, At
  <2> QED
    BY <2>4, <2>5
<1>7. CASE Look(i)
  <2>1. /\ next = "tools" /\ next' = "tools" /\ channel' = channel /\ board' = board
        /\ writes' = writes /\ Ends(i) /\ ~At(i, "read", "waiting")
    BY <1>7 DEF Look, At, InTools
  <2>2. \A j \in Call : At(j, "read", "waiting") => At(j, "read", "waiting")' /\ call'[j] = call[j]
    BY <2>1, EndsElsewhere
  <2>3. Together'
    BY <2>1, <2>2 DEF Together
  <2>4. Sight'
    BY <2>1, EndsElsewhere DEF Sight
  <2> QED
    BY <2>3, <2>4
<1> QED
  BY <1>1, <1>2, <1>3, <1>4, <1>5, <1>6, <1>7 DEF Step, Runs

LEMMA QuietTogether ==
  ASSUME Together, Sight, board' = board, channel' = channel, writes' = writes,
         call' = call, next' = next \/ next' = "over" \/ {next, next'} \subseteq {"refresh", "model"},
         next' = "over" => writes' = Empty
  PROVE  Together' /\ Sight'
BY DEF Together, Sight, At

LEMMA AloneTogether ==
  ASSUME TypeOK, Together, NEW active, NEW stop, Alone([board EXCEPT !.active = active, !.stop = stop])
  PROVE  /\ Together' /\ Sight' /\ next = "model" /\ next' = "refresh"
         /\ channel'.active = active /\ channel'.stop = stop
         /\ channel'.evidences = channel.evidences
<1> DEFINE b == [board EXCEPT !.active = active, !.stop = stop]
<1>1. /\ b.known = board.known /\ b.docs = board.docs /\ b.evidences = board.evidences
      /\ b.exhausted = board.exhausted /\ b.queries = board.queries /\ b.chosen = board.chosen
      /\ b.active = active /\ b.stop = stop
  BY DEF TypeOK, State
<1>2. Alone(b)
  OBVIOUS
<1> HIDE DEF b
<1>3. /\ next = "model" /\ next' = "refresh" /\ board' = b /\ writes' = writes
  BY <1>2 DEF Alone
<1>4. /\ channel'.known = channel.known /\ channel'.docs = channel.docs
      /\ channel'.evidences = channel.evidences /\ channel'.exhausted = channel.exhausted
      /\ channel'.queries = channel.queries /\ channel'.chosen = channel.chosen
      /\ channel'.stop = b.stop
      /\ channel'.active = (channel.active \cup (b.active \ board.active)) \ (board.active \ b.active)
  BY <1>2 DEF Alone, TypeOK, State
<1>5. writes = Empty /\ channel.active \cup writes.active = channel.active
  BY <1>3 DEF Together, Empty
<1>6. channel'.active = active
  BY <1>1, <1>3, <1>4, <1>5 DEF Together
<1>7. \A c \in board.chosen : c \in channel.chosen \cup writes.chosen
  BY <1>3 DEF Together, At
<1>8. Together'
  <2>1. writes.active = {}
    BY <1>5 DEF Empty
  <2> QED
    BY <1>1, <1>3, <1>4, <1>5, <1>6, <1>7, <2>1 DEF Together
<1>9. Sight'
  BY <1>3 DEF Sight, At
<1> QED
  BY <1>1, <1>3, <1>4, <1>6, <1>8, <1>9

(* The three tools that run alone and change something, in one form.       *)
AloneForm(active, stop) ==
  /\ Alone([board EXCEPT !.active = active, !.stop = stop])
  /\ active \subseteq board.evidences \cup board.active
  /\ Cardinality(board.active) <= ActiveLimit => Cardinality(active) <= ActiveLimit
  /\ \/ stop = board.stop
     \/ stop = "complete" /\ active # {}
     \/ stop = "blocked" /\ active = {}

LEMMA ActiveIsFinite ==
  ASSUME TypeOK
  PROVE  /\ IsFiniteSet(Evidence)
         /\ \A set \in SUBSET Evidence : IsFiniteSet(set) /\ Cardinality(set) \in Nat
<1>1. IsFiniteSet(Evidence)
  BY FS_Product, ResearcherAssumption DEF Evidence, Document
<1> QED
  BY <1>1, FS_Subset, FS_CardinalityType

(* As many as there is room for.                                           *)
LEMMA RoomIsKept ==
  ASSUME NEW have \in SUBSET Evidence, NEW set \in SUBSET Evidence, TypeOK,
         NEW up \in SomeOf(set, Left(ActiveLimit, Cardinality(have))),
         Cardinality(have) <= ActiveLimit
  PROVE  Cardinality(have \cup up) <= ActiveLimit
<1>1. ActiveLimit \in Nat
  BY ResearcherAssumption
<1>2. up \in SUBSET Evidence
  BY DEF SomeOf
<1>3. /\ IsFiniteSet(have) /\ IsFiniteSet(up) /\ Cardinality(have) \in Nat
      /\ Cardinality(up) \in Nat /\ Cardinality(set) \in Nat /\ Cardinality(have \cap up) \in Nat
  BY <1>2, ActiveIsFinite
<1>4. Cardinality(up) <= ActiveLimit - Cardinality(have)
  BY <1>1, <1>3 DEF SomeOf, Left, Smaller
<1>5. Cardinality(have \cup up) = Cardinality(have) + Cardinality(up) - Cardinality(have \cap up)
  BY <1>3, FS_Union
<1> QED
  BY <1>1, <1>3, <1>4, <1>5

LEMMA ReplyForms ==
  ASSUME TypeOK, Reply
  PROVE  \/ Text \/ ModelBreaks
         \/ \E n \in Call : \E asks \in [1 .. n -> Asks] : Parallel(asks)
         \/ \E active, stop : AloneForm(active, stop)
<1>0. board \in State /\ ActiveLimit \in Nat
  BY ResearcherAssumption DEF TypeOK
<1>1. CASE CompleteRefused
  <2>1. [board EXCEPT !.active = board.active, !.stop = board.stop] = board
    BY <1>0 DEF State
  <2>2. AloneForm(board.active, board.stop)
    BY <1>1, <2>1 DEF CompleteRefused, AloneForm
  <2> QED
    BY <2>2
<1>2. ASSUME NEW set \in SUBSET board.evidences, Release(set)
      PROVE  \E active, stop : AloneForm(active, stop)
  <2>1. [board EXCEPT !.active = @ \ set] = [board EXCEPT !.active = board.active \ set, !.stop = board.stop]
    BY <1>0 DEF State
  <2>2. Cardinality(board.active \ set) <= Cardinality(board.active)
    BY <1>0, ActiveIsFinite, FS_Subset DEF State
  <2>3. Cardinality(board.active \ set) \in Nat /\ Cardinality(board.active) \in Nat
    BY <1>0, ActiveIsFinite DEF State
  <2>4. AloneForm(board.active \ set, board.stop)
    BY <1>0, <1>2, <2>1, <2>2, <2>3 DEF Release, AloneForm
  <2> QED
    BY <2>4
<1>3. ASSUME NEW set \in SUBSET board.evidences, Restore(set)
      PROVE  \E active, stop : AloneForm(active, stop)
  <2>1. PICK back \in SomeOf((set \cap board.evidences) \ board.active,
                            Left(ActiveLimit, Cardinality(board.active))) :
          Alone([board EXCEPT !.active = @ \cup back])
    BY <1>3 DEF Restore
  <2>2. [board EXCEPT !.active = @ \cup back]
          = [board EXCEPT !.active = board.active \cup back, !.stop = board.stop]
    BY <1>0 DEF State
  <2>3. Cardinality(board.active) <= ActiveLimit => Cardinality(board.active \cup back) <= ActiveLimit
    BY <1>0, RoomIsKept DEF State
  <2>4. back \subseteq board.evidences
    BY DEF SomeOf
  <2>5. AloneForm(board.active \cup back, board.stop)
    BY <2>1, <2>2, <2>3, <2>4 DEF AloneForm
  <2> QED
    BY <2>5
<1>4. ASSUME NEW set \in SUBSET board.evidences, Complete(set)
      PROVE  \E active, stop : AloneForm(active, stop)
  <2> DEFINE active == IF set = {} THEN board.active ELSE set
  <2>1. active \subseteq board.active /\ active \subseteq Evidence
    BY <1>0, <1>4 DEF Complete, State
  <2>2. Cardinality(active) <= Cardinality(board.active)
    BY <1>0, <2>1, ActiveIsFinite, FS_Subset DEF State
  <2>3. Cardinality(active) \in Nat /\ Cardinality(board.active) \in Nat
    BY <1>0, <2>1, ActiveIsFinite DEF State
  <2>4. Alone([board EXCEPT !.active = active, !.stop = StopOf(active)])
    BY <1>4 DEF Complete
  <2> HIDE DEF active
  <2>5. AloneForm(active, StopOf(active))
    BY <1>0, <2>1, <2>2, <2>3, <2>4 DEF AloneForm, StopOf
  <2> QED
    BY <2>5
<1>5. ASSUME NEW n \in Call, NEW asks \in [1 .. n -> {a \in Asks : Sensible(a)}], Parallel(asks)
      PROVE  \E m \in Call : \E q \in [1 .. m -> Asks] : Parallel(q)
  BY <1>5
<1> QED
  BY <1>1, <1>2, <1>3, <1>4, <1>5 DEF Reply

-----------------------------------------------------------------------------
(* LIMITS, WHAT IS KEPT, AND HOW IT ENDS *)

Ample ==
  /\ board.active \subseteq board.evidences
  /\ Bounded(board.evidences, board.active)
  /\ Bounded(channel.evidences, channel.active)
  /\ Bounded(result.evidences, result.selected)

(* Nothing is returned before the end.                                     *)
Kept ==
  /\ told \subseteq board.evidences /\ NothingLost
  /\ next # "over" => result = NoResult

Once == \A c \in Candidate : fetched[c] <= 1 /\ (c \notin board.chosen => fetched[c] = 0)

(* A reason to stop is one the active set bears out, and ends the loop.    *)
Reasoned(s) ==
  /\ s.stop \in {"budget", "complete", "blocked"}
  /\ s.stop = "complete" => s.active # {}
  /\ s.stop = "blocked" => s.active = {}
Ending ==
  /\ next \in {"model", "tools"} => channel.stop = "budget"
  /\ next = "refresh" => Reasoned(channel)
  /\ StopTellsTruth

Inv == Together /\ Sight /\ Ample /\ Kept /\ Once /\ Ending

LEMMA RoomySubset ==
  ASSUME TypeOK, NEW large \in SUBSET Evidence, NEW small \in SUBSET large, Roomy(large)
  PROVE  Roomy(small)
<1>1. \A e : OfSource(small, e) \subseteq OfSource(large, e) /\ OfSource(large, e) \in SUBSET Evidence
  BY DEF OfSource
<1>2. \A b \in SUBSET Evidence, a \in SUBSET Evidence : a \subseteq b => Cardinality(a) <= Cardinality(b)
  BY ActiveIsFinite, FS_Subset
<1>3. \A b \in SUBSET Evidence : Cardinality(b) \in Nat
  BY ActiveIsFinite
<1>4. ArchiveLimit \in Nat /\ PerSource \in Nat
  BY ResearcherAssumption
<1>5. Cardinality(small) <= ArchiveLimit
  BY <1>2, <1>3, <1>4 DEF Roomy
<1>6. ASSUME NEW e \in small PROVE Cardinality(OfSource(small, e)) <= PerSource
  <2>1. Cardinality(OfSource(large, e)) <= PerSource
    BY DEF Roomy
  <2>2. OfSource(small, e) \in SUBSET Evidence
    BY <1>1
  <2>3. Cardinality(OfSource(small, e)) <= Cardinality(OfSource(large, e))
    BY <1>1, <1>2, <2>2
  <2> QED
    BY <1>1, <1>3, <1>4, <2>1, <2>2, <2>3
<1> QED
  BY <1>5, <1>6 DEF Roomy

LEMMA NothingIsBounded == Bounded({}, {})
<1>1. Cardinality({}) = 0
  BY FS_EmptySet
<1> QED
  BY <1>1, ResearcherAssumption DEF Bounded, Roomy

(* What a task returns, from a state that is in order.                     *)
LEMMA ReturnGood ==
  ASSUME TypeOK, NEW s \in State, NEW status \in {"completed", "failed"}, Return(status, s),
         s.active \subseteq s.evidences, Bounded(s.evidences, s.active),
         s.stop = "failed" \/ Reasoned(s), told' \subseteq s.evidences
  PROVE  /\ Bounded(result'.evidences, result'.selected)
         /\ NothingLost' /\ StopTellsTruth'
<1>1. ActiveLimit \in Nat \ {0} /\ s.evidences \in SUBSET Evidence /\ s.active \in SUBSET Evidence
  BY ResearcherAssumption DEF State
<1>2. CASE s.stop \in Submitted
  <2>1. result' = [status |-> status, stop |-> s.stop, evidences |-> s.evidences,
                   selected |-> s.active]
    BY <1>2 DEF Return
  <2> QED
    BY <1>2, <2>1 DEF Submitted, Reasoned, NothingLost, StopTellsTruth
<1>3. CASE s.stop \notin Submitted
  <2>1. PICK selected \in Revived(s) :
          result' = [status |-> status, stop |-> MinimumStop(s, selected),
                     evidences |-> s.evidences, selected |-> selected]
    BY <1>3 DEF Return
  <2>2. /\ selected \subseteq s.evidences
        /\ Cardinality(selected) <= ActiveLimit
        /\ selected = {} <=> s.evidences = {}
    <3>1. CASE s.active = {}
      <4>1. selected \in SomeOf(s.evidences, ActiveLimit)
        BY <2>1, <3>1 DEF Revived
      <4>2. selected \subseteq s.evidences /\ IsFiniteSet(selected) /\ Cardinality(s.evidences) \in Nat
            /\ IsFiniteSet(s.evidences) /\ Cardinality(selected) = Smaller(ActiveLimit, Cardinality(s.evidences))
        BY <1>1, <4>1, ActiveIsFinite DEF SomeOf
      <4>3. /\ Cardinality(selected) = 0 <=> selected = {}
            /\ Cardinality(s.evidences) = 0 <=> s.evidences = {}
        BY <4>2, FS_EmptySet
      <4> QED
        BY <1>1, <4>2, <4>3 DEF Smaller
    <3>2. CASE s.active # {}
      BY <2>1, <3>2 DEF Revived, Bounded
    <3> QED
      BY <3>1, <3>2
  <2>3. NothingLost' /\ Bounded(result'.evidences, result'.selected)
    BY <2>1, <2>2 DEF NothingLost, Bounded
  <2>4. StopTellsTruth'
    BY <2>1, <2>2 DEF StopTellsTruth, MinimumStop
  <2> QED
    BY <2>3, <2>4
<1> QED
  BY <1>2, <1>3

LEMMA LeaveGood ==
  ASSUME TypeOK, TypeOK', Inv, Leave, next \in {"refresh", "model"}
  PROVE  Inv'
<1>1. /\ writes.evidences = {} /\ writes.active = {}
  BY DEF Inv, Together, Empty
<1>2. channel.evidences = board.evidences /\ channel.active = board.active
  BY <1>1 DEF Inv, Together
<1>3. /\ Return("completed", channel) /\ board' = board /\ channel' = channel
      /\ told' = told /\ fetched' = fetched /\ next' = "over" /\ writes' = Empty
  BY DEF Leave, Return, histVars
<1>4. Reasoned(channel)
  BY DEF Inv, Ending, Reasoned
<1>5. /\ Bounded(result'.evidences, result'.selected) /\ NothingLost' /\ StopTellsTruth'
  BY <1>2, <1>3, <1>4, ReturnGood DEF Inv, Ample, Kept, TypeOK
<1>6. Together' /\ Sight'
  BY <1>3, OverTogether
<1>7. Ample' /\ Kept' /\ Once' /\ Ending'
  BY <1>3, <1>5 DEF Inv, Ample, Kept, Once, Ending
<1> QED
  BY <1>6, <1>7 DEF Inv

LEMMA BreakGood ==
  ASSUME TypeOK, TypeOK', Inv, Break
  PROVE  Inv'
<1> DEFINE s == [board EXCEPT !.stop = "failed"]
<1>1. /\ s \in State /\ s.stop = "failed" /\ s.evidences = board.evidences /\ s.active = board.active
  BY DEF TypeOK, State, Stop
<1>2. /\ Return("failed", s) /\ board' = board /\ channel' = channel
      /\ told' = told /\ fetched' = fetched /\ next' = "over" /\ writes' = Empty
  BY DEF Break, Salvage, Return, histVars
<1> HIDE DEF s
<1>3. /\ Bounded(result'.evidences, result'.selected) /\ NothingLost' /\ StopTellsTruth'
  BY <1>1, <1>2, ReturnGood DEF Inv, Ample, Kept
<1>4. Together' /\ Sight'
  BY <1>2, OverTogether
<1>5. Ample' /\ Kept' /\ Once' /\ Ending'
  BY <1>2, <1>3 DEF Inv, Ample, Kept, Once, Ending
<1> QED
  BY <1>4, <1>5 DEF Inv

LEMMA AloneGood ==
  ASSUME TypeOK, Inv, NEW active, NEW stop, AloneForm(active, stop)
  PROVE  Inv'
<1>1. /\ Together' /\ Sight' /\ next = "model" /\ next' = "refresh"
      /\ channel'.active = active /\ channel'.stop = stop
      /\ channel'.evidences = channel.evidences
  BY AloneTogether DEF Inv, AloneForm
<1>2. /\ board'.active = active /\ board'.evidences = board.evidences
      /\ board'.chosen = board.chosen
      /\ result' = result /\ told' = told /\ fetched' = fetched
  BY DEF AloneForm, Alone, TypeOK, State, histVars
<1>4. active \subseteq board.evidences /\ Cardinality(active) <= ActiveLimit
  <2>1. /\ board.active \subseteq board.evidences
        /\ Cardinality(board.active) <= ActiveLimit
    BY DEF Inv, Ample, Bounded
  <2> QED
    BY <2>1 DEF AloneForm
<1>5. Ample'
  BY <1>1, <1>2, <1>4 DEF Inv, Ample, Bounded
<1>6. Kept' /\ Once'
  BY <1>1, <1>2 DEF Inv, Kept, Once, NothingLost
<1>7. stop = "budget" \/ (stop = "complete" /\ active # {}) \/ (stop = "blocked" /\ active = {})
  BY <1>1 DEF AloneForm, Inv, Together, Ending
<1>8. Ending'
  BY <1>1, <1>2, <1>7 DEF Inv, Ending, Reasoned, StopTellsTruth
<1> QED
  BY <1>1, <1>5, <1>6, <1>8 DEF Inv

(* What a step does not touch stays in order.                              *)
LEMMA CalmGood ==
  ASSUME Inv, Together', Sight', next' \in {next, "refresh"} \ {"over"},
         next # "over", next' = "refresh" => channel.stop = "budget" \/ next = "refresh",
         channel'.stop = channel.stop, told' = told, fetched' = fetched, result' = result,
         board'.evidences = board.evidences, board'.active = board.active,
         board.chosen \subseteq board'.chosen,
         Bounded(channel'.evidences, channel'.active),
         next = "refresh" => channel' = channel
  PROVE  Inv'
<1>1. Ample' /\ Kept' /\ Once'
  BY DEF Inv, Ample, Kept, Once, NothingLost
<1>2. Ending'
  BY DEF Inv, Ending, Reasoned, StopTellsTruth
<1> QED
  BY <1>1, <1>2 DEF Inv

LEMMA MergeGood ==
  ASSUME TypeOK, Inv, Merge
  PROVE  Inv'
<1>1. /\ next = "tools" /\ next' = "refresh" /\ board' = board /\ writes' = Empty
      /\ told' = told /\ fetched' = fetched /\ result' = result
      /\ \A i \in Call : call[i].tool = "none" /\ call'[i].tool = "none"
  BY DEF Merge, NoCall, histVars
<1>2. /\ channel'.queries = channel.queries \cup writes.queries
      /\ channel'.known = channel.known \cup writes.known
      /\ channel'.chosen = channel.chosen \cup writes.chosen
      /\ channel'.docs = channel.docs \cup writes.docs
      /\ channel'.evidences = channel.evidences \cup writes.evidences
      /\ channel'.active = channel.active \cup writes.active
      /\ channel'.exhausted = (channel.exhausted \/ writes.exhausted)
      /\ channel'.stop = channel.stop
  BY DEF Merge, TypeOK, State
<1>3. /\ writes'.queries = {} /\ writes'.known = {} /\ writes'.chosen = {} /\ writes'.docs = {}
      /\ writes'.evidences = {} /\ writes'.active = {} /\ writes'.exhausted = FALSE
  BY <1>1 DEF Empty
<1>4. \A c \in board.chosen : c \in channel.chosen \cup writes.chosen
  BY <1>1 DEF Inv, Together, At
<1>5. /\ channel'.known = board.known /\ channel'.docs = board.docs
      /\ channel'.evidences = board.evidences /\ channel'.active = board.active
      /\ channel'.stop = board.stop /\ channel'.queries \subseteq board.queries
      /\ channel'.chosen \subseteq board.chosen
  BY <1>1, <1>2 DEF Inv, Together
<1>6. board.exhausted = channel'.exhausted
  BY <1>1, <1>2, ZenonT(30) DEF Inv, Together
<1>7. board'.exhausted = (channel'.exhausted \/ writes'.exhausted)
  <2>1. board.exhausted \in BOOLEAN
    BY DEF TypeOK, State
  <2> QED
    BY <1>1, <1>3, <1>6, <2>1
<1>8. Together'
  BY <1>1, <1>2, <1>3, <1>4, <1>5, <1>7 DEF Together
<1>9. Sight'
  BY <1>1 DEF Sight, At
<1> QED
  BY <1>1, <1>2, <1>5, <1>8, <1>9, CalmGood DEF Inv, Ample, Ending

LEMMA ParallelGood ==
  ASSUME TypeOK, Inv, NEW n \in Call, NEW asks \in [1 .. n -> Asks], Parallel(asks)
  PROVE  Inv'
<1>1. \A a \in Asks : a.stage = "asked"
  BY DEF Asks, Ask, NoCall
<1>2. \A i \in Call : call'[i].stage \in {"asked", "none"}
  BY <1>1 DEF Parallel, NoCall
<1>3. /\ next = "model" /\ next' = "tools" /\ board' = board /\ channel' = channel
      /\ writes' = writes /\ told' = told /\ fetched' = fetched /\ result' = result
  BY DEF Parallel, histVars
<1>4. \A c \in board.chosen : c \in channel.chosen \cup writes.chosen
  BY <1>3 DEF Inv, Together, At
<1>5. Together'
  BY <1>3, <1>4 DEF Inv, Together
<1>6. Sight'
  BY <1>2 DEF Sight, At
<1>7. Ample' /\ Kept' /\ Once' /\ Ending'
  BY <1>3 DEF Inv, Ample, Kept, Once, Ending, NothingLost, StopTellsTruth
<1> QED
  BY <1>5, <1>6, <1>7 DEF Inv

LEMMA RefreshGood ==
  ASSUME TypeOK, TypeOK', Inv, Refresh
  PROVE  Inv'
<1>1. CASE channel.stop \in Submitted \/ OutOfTurns
  BY <1>1, LeaveGood DEF Refresh
<1>2. CASE ~(channel.stop \in Submitted \/ OutOfTurns)
  <2>1. /\ next = "refresh" /\ next' = "model" /\ board' = channel /\ channel' = channel
        /\ writes' = writes /\ told' = told /\ fetched' = fetched /\ result' = result
    BY <1>2 DEF Refresh, histVars
  <2>2. /\ writes.queries = {} /\ writes.known = {} /\ writes.chosen = {} /\ writes.docs = {}
        /\ writes.evidences = {} /\ writes.active = {} /\ writes.exhausted = FALSE
        /\ writes = Empty
    BY <2>1 DEF Inv, Together, Empty
  <2>3. /\ channel.evidences = board.evidences /\ channel.active = board.active
        /\ board.chosen \subseteq channel.chosen
    BY <2>1, <2>2 DEF Inv, Together, At
  <2>4. channel.exhausted = (channel.exhausted \/ writes.exhausted)
    BY <2>2, ZenonT(30) DEF TypeOK, State
  <2>5. Together'
    BY <2>1, <2>2, <2>4 DEF Together
  <2>6. Sight'
    BY <2>1 DEF Sight, At
  <2>7. Ample' /\ Kept' /\ Once'
    BY <2>1, <2>3 DEF Inv, Ample, Kept, Once, NothingLost
  <2>8. channel.stop = "budget"
    BY <1>2, <2>1 DEF Inv, Ending, Reasoned, Submitted
  <2>9. Ending'
    BY <2>1, <2>8 DEF Inv, Ending, StopTellsTruth
  <2> QED
    BY <2>5, <2>6, <2>7, <2>9 DEF Inv
<1> QED
  BY <1>1, <1>2

LEMMA TextGood ==
  ASSUME TypeOK, TypeOK', Inv, Text
  PROVE  Inv'
<1>1. next = "model" /\ channel.stop = "budget"
  BY DEF Text, Inv, Ending
<1>2. CASE Leave
  BY <1>1, <1>2, LeaveGood
<1>3. CASE ~Leave
  <2>1. /\ next' = "refresh" /\ board' = board /\ channel' = channel /\ call' = call
        /\ writes' = writes /\ told' = told /\ fetched' = fetched /\ result' = result
    BY <1>3 DEF Text, histVars
  <2>2. Together' /\ Sight'
    BY <1>1, <2>1, QuietTogether DEF Inv
  <2> QED
    BY <1>1, <2>1, <2>2, CalmGood DEF Inv, Ample
<1> QED
  BY <1>2, <1>3

LEMMA ReplyGood ==
  ASSUME TypeOK, TypeOK', Inv, Reply
  PROVE  Inv'
<1>1. CASE Text
  BY <1>1, TextGood
<1>2. CASE ModelBreaks
  BY <1>2, BreakGood DEF ModelBreaks
<1>3. ASSUME NEW n \in Call, NEW asks \in [1 .. n -> Asks], Parallel(asks)
      PROVE  Inv'
  BY <1>3, ParallelGood
<1>4. ASSUME NEW active, NEW stop, AloneForm(active, stop)
      PROVE  Inv'
  BY <1>4, AloneGood
<1> QED
  BY <1>1, <1>2, <1>3, <1>4, ReplyForms

LEMMA StepGood ==
  ASSUME TypeOK, TypeOK', Inv, NEW i \in Call, Step(i)
  PROVE  Inv'
<1>1. Together' /\ Sight'
  BY StepTogether DEF Inv
<1>2. CASE LookBreaks(i) \/ CheckBreaks(i)
  BY <1>2, BreakGood DEF LookBreaks, CheckBreaks
<1>3. CASE ReadStarts(i)
  <2> DEFINE new == (call[i].cands \cap board.known) \ board.chosen
  <2>1. /\ next = "tools" /\ next' = "tools" /\ channel' = channel /\ result' = result
        /\ told' = told
        /\ fetched' = [c \in Candidate |-> fetched[c] + (IF c \in new THEN 1 ELSE 0)]
    BY <1>3 DEF ReadStarts, At, InTools
  <2>2. /\ board'.evidences = board.evidences /\ board'.active = board.active
        /\ board'.chosen = board.chosen \cup new
    BY <1>3 DEF ReadStarts, Marked, TypeOK, State
  <2>3. Once'
    <3> SUFFICES ASSUME NEW c \in Candidate
                 PROVE  fetched'[c] <= 1 /\ (c \notin board'.chosen => fetched'[c] = 0)
      BY DEF Once
    <3>1. fetched[c] \in Nat /\ fetched[c] <= 1 /\ (c \notin board.chosen => fetched[c] = 0)
      BY DEF TypeOK, Inv, Once
    <3>2. fetched'[c] = fetched[c] + (IF c \in new THEN 1 ELSE 0)
      BY <2>1
    <3> QED
      BY <2>2, <3>1, <3>2
  <2>4. Ample' /\ Kept' /\ Ending'
    BY <2>1, <2>2 DEF Inv, Ample, Kept, Ending, NothingLost, StopTellsTruth
  <2> QED
    BY <1>1, <2>3, <2>4 DEF Inv
<1>4. CASE AddEnds(i)
  <2>1. PICK new, up : Adds(i, new, up)
    BY <1>4, AddFields
  <2>2. /\ next = "tools" /\ next' = "tools" /\ channel' = channel /\ result' = result
        /\ fetched' = fetched /\ told' = told \cup new
    BY <1>4, <2>1 DEF AddEnds, At, InTools, Adds
  <2>3. /\ board'.evidences = board.evidences \cup new
        /\ board'.active = board.active \cup up /\ board'.chosen = board.chosen
    BY <2>1 DEF Adds, TypeOK, State
  <2>4. Cardinality(board.active \cup up) <= ActiveLimit
    <3>1. board.active \in SUBSET Evidence /\ new \in SUBSET Evidence
      BY <2>1 DEF Adds, TypeOK, State
    <3> QED
      BY <2>1, <3>1, RoomIsKept DEF Adds, Inv, Ample, Bounded
  <2>5. Ample'
    BY <2>1, <2>2, <2>3, <2>4 DEF Adds, Inv, Ample, Bounded
  <2>6. Kept' /\ Once' /\ Ending'
    BY <2>2, <2>3 DEF Inv, Kept, Once, Ending, NothingLost, StopTellsTruth, NoResult
  <2> QED
    BY <1>1, <2>5, <2>6 DEF Inv
<1>5. ASSUME NEW docs \in SUBSET call[i].cands, Got(i, docs)
      PROVE  /\ board'.evidences = board.evidences /\ board'.active = board.active
             /\ board.chosen \subseteq board'.chosen
  BY <1>5 DEF Got, TypeOK, State
<1>6. CASE ReadEnds(i) \/ ReadTimesOut(i)
  <2>1. {} \in SUBSET call[i].cands
    OBVIOUS
  <2>2. /\ board'.evidences = board.evidences /\ board'.active = board.active
        /\ board.chosen \subseteq board'.chosen
    BY <1>5, <1>6, <2>1 DEF ReadEnds, ReadTimesOut
  <2>3. /\ next = "tools" /\ next' = "tools" /\ channel' = channel /\ result' = result
        /\ told' = told /\ fetched' = fetched
    BY <1>6 DEF ReadEnds, ReadTimesOut, At, InTools, histVars
  <2> QED
    BY <1>1, <2>2, <2>3, CalmGood DEF Inv, Ample
<1>7. CASE SearchStarts(i) \/ SearchEnds(i) \/ SearchBreaks(i)
  <2>1. /\ next = "tools" /\ next' = "tools" /\ channel' = channel /\ result' = result
        /\ told' = told /\ fetched' = fetched
    BY <1>7 DEF SearchStarts, SearchEnds, SearchBreaks, At, InTools, histVars
  <2>2. /\ board'.evidences = board.evidences /\ board'.active = board.active
        /\ board.chosen = board'.chosen
    BY <1>7 DEF SearchStarts, SearchEnds, SearchBreaks, TypeOK, State
  <2> QED
    BY <1>1, <2>1, <2>2, CalmGood DEF Inv, Ample
<1>8. CASE AddStarts(i) \/ Look(i) \/ \E e \in Evidence : Check(i, e) \/ CheckMisses(i, e)
  <2>1. /\ next = "tools" /\ next' = "tools" /\ channel' = channel /\ result' = result
        /\ told' = told /\ fetched' = fetched /\ board' = board
    BY <1>8 DEF AddStarts, Look, Check, CheckMisses, At, InTools, histVars
  <2> QED
    BY <1>1, <2>1, CalmGood DEF Inv, Ample
<1> QED
  BY <1>2, <1>3, <1>4, <1>6, <1>7, <1>8 DEF Step, Runs

LEMMA InitGood == Init => Inv
<1> SUFFICES ASSUME Init PROVE Inv
  OBVIOUS
<1>1. Together /\ Sight
  BY DEF Init, Together, Sight, At, Empty
<1>2. Ample
  BY NothingIsBounded DEF Init, Ample, Empty, NoResult
<1>3. Kept /\ Once /\ Ending
  BY DEF Init, Kept, Once, Ending, Reasoned, NothingLost, StopTellsTruth, Empty, NoResult
<1> QED
  BY <1>1, <1>2, <1>3 DEF Inv

LEMMA NextGood == TypeOK /\ TypeOK' /\ Inv /\ [Next]_vars => Inv'
<1> SUFFICES ASSUME TypeOK, TypeOK', Inv, [Next]_vars PROVE Inv'
  OBVIOUS
<1>1. CASE Refresh
  BY <1>1, RefreshGood
<1>2. CASE Reply
  BY <1>2, ReplyGood
<1>3. CASE Merge
  BY <1>3, MergeGood
<1>4. CASE Cancel
  <2>1. /\ next' = "over" /\ writes' = Empty /\ board' = board /\ channel' = channel
        /\ told' = told /\ fetched' = fetched
        /\ result' = [NoResult EXCEPT !.status = "cancelled", !.stop = "cancelled"]
    BY <1>4 DEF Cancel, histVars
  <2>2. /\ result'.status = "cancelled" /\ result'.stop = "cancelled"
        /\ result'.evidences = {} /\ result'.selected = {}
    BY <2>1 DEF NoResult
  <2>3. Together' /\ Sight'
    BY <2>1, OverTogether
  <2>4. Ample' /\ Kept' /\ Once' /\ Ending'
    BY <2>1, <2>2, NothingIsBounded
       DEF Inv, Ample, Kept, Once, Ending, NothingLost, StopTellsTruth
  <2> QED
    BY <2>3, <2>4 DEF Inv
<1>5. ASSUME NEW i \in Call, Step(i) PROVE Inv'
  BY <1>5, StepGood
<1>6. CASE (\E d \in Document : Expire(d)) \/ UNCHANGED vars
  <2>1. /\ board' = board /\ channel' = channel /\ call' = call /\ writes' = writes
        /\ next' = next /\ result' = result /\ told' = told /\ fetched' = fetched
    BY <1>6 DEF Expire, vars, histVars
  <2>2. Together' /\ Sight'
    BY <2>1 DEF Inv, Together, Sight, At
  <2>3. Ample' /\ Kept' /\ Once' /\ Ending'
    BY <2>1 DEF Inv, Ample, Kept, Once, Ending, Reasoned, NothingLost, StopTellsTruth
  <2> QED
    BY <2>2, <2>3 DEF Inv
<1> QED
  BY <1>1, <1>2, <1>3, <1>4, <1>5, <1>6 DEF Next

LEMMA Invariance == Spec => [](TypeOK /\ Inv)
<1>1. Init => TypeOK /\ Inv
  BY InitType, InitGood
<1>2. (TypeOK /\ Inv) /\ [Next]_vars => (TypeOK /\ Inv)'
  BY StepsKeepType, NextGood
<1> QED
  BY <1>1, <1>2, PTL DEF Spec

(* The archive, the share of a source in it and the active set stay within *)
(* their limits in memory, in the channels and in what is returned.        *)
THEOREM LimitsHold == Spec => []WithinLimits
<1>1. TypeOK /\ Inv => WithinLimits
  BY DEF Inv, Ample, WithinLimits
<1> QED
  BY <1>1, Invariance, PTL

(* Between two turns the channels hold what the board holds, the queries   *)
(* of a lost answer aside.                                                 *)
THEOREM ChannelsHoldTheBoard == Spec => []ChannelsCatchUp
<1>1. TypeOK /\ Inv => ChannelsCatchUp
  <2> SUFFICES ASSUME TypeOK, Inv, next = "refresh" PROVE ChannelsCatchUp
    BY DEF ChannelsCatchUp
  <2>1. /\ writes.queries = {} /\ writes.known = {} /\ writes.chosen = {} /\ writes.docs = {}
        /\ writes.evidences = {} /\ writes.active = {} /\ writes.exhausted = FALSE
    BY DEF Inv, Together, Empty
  <2>2. /\ channel.known = board.known /\ channel.chosen = board.chosen
        /\ channel.docs = board.docs /\ channel.evidences = board.evidences
        /\ channel.active = board.active /\ channel.stop = board.stop
        /\ channel.queries \subseteq board.queries
    BY <2>1 DEF Inv, Together, At
  <2>3. channel.exhausted = board.exhausted
    BY <2>1, ZenonT(30) DEF Inv, Together, TypeOK, State
  <2>4. channel = [board EXCEPT !.queries = channel.queries]
    BY <2>2, <2>3 DEF TypeOK, State
  <2> QED
    BY <2>2, <2>4 DEF ChannelsCatchUp
<1> QED
  BY <1>1, Invariance, PTL

(* What the model was told is accepted is in what a task returns that was  *)
(* not cancelled.                                                          *)
THEOREM AcceptedIsReturned == Spec => []NothingLost
<1>1. TypeOK /\ Inv => NothingLost
  BY DEF Inv, Kept
<1> QED
  BY <1>1, Invariance, PTL

(* No source is read twice for a task.                                     *)
THEOREM NoSecondReading == Spec => []ReadOnce
<1>1. TypeOK /\ Inv => ReadOnce
  BY DEF Inv, Once, ReadOnce
<1> QED
  BY <1>1, Invariance, PTL

(* The reason to stop agrees with what a task hands over.                  *)
THEOREM ReasonIsTrue == Spec => []StopTellsTruth
<1>1. TypeOK /\ Inv => StopTellsTruth
  BY DEF Inv, Ending
<1> QED
  BY <1>1, Invariance, PTL
=============================================================================
