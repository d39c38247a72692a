--------------------------- MODULE Admission_proofs --------------------------
(***************************************************************************)
(* Quotas and request keys hold for any number of API processes, users and *)
(* runs, and so does the promise to a user that an answer will be taken.   *)
(***************************************************************************)
EXTENDS Admission, FiniteSetTheorems, TLAPS

Critical == {"counting", "queueing", "inserting"}

(* The lock is held by the handler between its first count and its commit, *)
(* and by nobody else.                                                     *)
Exclusive == \A h \in Handler : pc[h] \in Critical <=> lock = h

(* What a handler has counted still holds when it inserts: every other     *)
(* writer can only lower the numbers.                                      *)
Counted ==
  \A h \in Handler :
    /\ pc[h] \in {"queueing", "inserting"} => Cardinality(Unfinished(Asked(h))) < MaxPerUser
    /\ pc[h] = "inserting" => Cardinality(Waiting) < MaxQueued

(* A run a worker has worked on has its checkpoint, and the sweep is after *)
(* finished runs, as far as the operator did not bring them back.          *)
Threads ==
  \A r \in RunId :
    /\ Is(r, {"running", "awaiting_input"}) => runs[r].thread \/ runs[r].reopened
    /\ r \in todo => Is(r, Terminal) \/ (runs[r].reopened /\ ~Is(r, {"none"}))

Inv == Exclusive /\ Counted /\ QuotasKept /\ OneRunPerRequest /\ Threads

-----------------------------------------------------------------------------
(* TYPES *)

LEMMA NoRequestType == NoRequest \in [user : User, key : RequestKey \cup {NoKey}]
BY AdmissionAssumption DEF NoRequest

LEMMA NoRowYetType == NoRowYet \in Row
BY NoRequestType DEF NoRowYet, NoRequest, Row

LEMMA InitType == Init => TypeOK
<1>1. "idle" \in Pc
  BY DEF Pc
<1> QED
  BY <1>1, NoRequestType, NoRowYetType, AdmissionAssumption DEF Init, TypeOK

LEMMA CreateType ==
  ASSUME TypeOK, NEW h \in Handler, NEW u \in User, NEW key \in RequestKey \cup {NoKey},
         Create(h, u, key)
  PROVE  TypeOK'
<1>1. {"seeking", "locking"} \subseteq Pc
  BY DEF Pc
<1> QED
  BY <1>1 DEF Create, Creating, Goto, TypeOK

LEMMA StepType ==
  ASSUME TypeOK, NEW h \in Handler, CreateStep(h) \/ CreateFails(h)
  PROVE  TypeOK'
<1>1. {"idle", "seeking", "locking", "counting", "queueing", "inserting", "clashed"} \subseteq Pc
  BY DEF Pc
<1> USE <1>1, NoRequestType DEF TypeOK, Creating, Goto, Return, Unlock
<1>2. CASE Seek(h)
  BY <1>2 DEF Seek
<1>3. CASE TakeLock(h)
  BY <1>3 DEF TakeLock
<1>4. CASE CountUser(h)
  BY <1>4 DEF CountUser, Refuse
<1>5. CASE CountQueue(h)
  BY <1>5 DEF CountQueue, Refuse
<1>6. ASSUME NEW r \in RunId, Insert(h, r) PROVE TypeOK'
  <2>1. Submitted(Asked(h), KeyOf(h)) \in Row
    BY NoRowYetType DEF Submitted, Asked, KeyOf, Row, Outstanding
  <2> QED
    BY <1>6, <2>1 DEF Insert
<1>7. CASE InsertClashes(h)
  BY <1>7 DEF InsertClashes
<1>8. CASE LookAgain(h)
  BY <1>8 DEF LookAgain
<1>9. CASE CreateFails(h)
  BY <1>9 DEF CreateFails
<1> QED
  BY <1>2, <1>3, <1>4, <1>5, <1>6, <1>7, <1>8, <1>9 DEF CreateStep

LEMMA FieldTypes ==
  ASSUME NEW w \in Row, NEW to \in Terminal \cup Outstanding
  PROVE  /\ [w EXCEPT !.status = to, !.aged = FALSE] \in Row
         /\ [w EXCEPT !.thread = TRUE, !.traces = TRUE] \in Row
         /\ [w EXCEPT !.exhausted = TRUE] \in Row
         /\ [w EXCEPT !.answered = TRUE] \in Row
         /\ [w EXCEPT !.exhausted = FALSE, !.reopened = TRUE] \in Row
         /\ [w EXCEPT !.aged = TRUE] \in Row
         /\ [w EXCEPT !.thread = FALSE] \in Row
         /\ [w EXCEPT !.traces = FALSE, !.pruned = TRUE] \in Row
BY DEF Row

LEMMA BecomeType ==
  ASSUME TypeOK, NEW r \in RunId, NEW to \in Terminal \cup Outstanding
  PROVE  Become(r, to) \in Row
BY FieldTypes DEF TypeOK, Become

LEMMA MoveType ==
  ASSUME TypeOK, NEW r \in RunId, NEW to \in Terminal \cup Outstanding, Move(r, to)
  PROVE  TypeOK'
<1>1. [Become(r, to) EXCEPT !.thread = TRUE, !.traces = TRUE] \in Row
  BY BecomeType, FieldTypes
<1> QED
  BY <1>1, BecomeType DEF Move, Elsewhere, handlerVars, TypeOK

LEMMA RowsType ==
  ASSUME TypeOK, NEW r \in RunId,
         Exhaust(r) \/ Answer(r) \/ Reopen(r) \/ Expire(r) \/ SweepThread(r)
  PROVE  TypeOK'
<1>1. \A to \in {"failed", "queued", "interrupted"} : Become(r, to) \in Row
  BY BecomeType DEF Terminal, Outstanding
<1>2. runs[r] \in Row
  BY DEF TypeOK
<1>3. PICK w \in Row : runs' = [runs EXCEPT ![r] = w]
  <2>1. CASE Exhaust(r)
    BY <2>1, <1>1, FieldTypes DEF Exhaust, Terminal
  <2>2. CASE Answer(r)
    BY <2>2, <1>1, FieldTypes DEF Answer, Terminal
  <2>3. CASE Reopen(r)
    BY <2>3, <1>1, FieldTypes DEF Reopen, Terminal
  <2>4. CASE Expire(r)
    BY <2>4, <1>2, FieldTypes DEF Expire, Terminal
  <2>5. CASE SweepThread(r)
    BY <2>5, <1>2, FieldTypes DEF SweepThread, Terminal
  <2> QED
    BY <2>1, <2>2, <2>3, <2>4, <2>5
<1>4. runs' \in [RunId -> Row]
  BY <1>3 DEF TypeOK
<1>5. reopens' \in 0 .. Reopens
  BY AdmissionAssumption DEF TypeOK, Exhaust, Answer, Reopen, Expire, SweepThread
<1> QED
  BY <1>4, <1>5 DEF TypeOK, Exhaust, Answer, Reopen, Expire, SweepThread, Elsewhere, handlerVars

LEMMA SweepType ==
  ASSUME TypeOK, NEW batch \in SUBSET RunId, Sweep(batch)
  PROVE  TypeOK'
<1>1. \A r \in RunId : [runs[r] EXCEPT !.traces = FALSE, !.pruned = TRUE] \in Row
  BY FieldTypes DEF TypeOK, Terminal
<1>2. runs' \in [RunId -> Row]
  BY <1>1 DEF TypeOK, Sweep
<1> QED
  BY <1>2 DEF TypeOK, Elsewhere, handlerVars, Sweep

LEMMA SweeperDiesType == TypeOK /\ SweeperDies => TypeOK'
BY DEF TypeOK, Elsewhere, handlerVars, SweeperDies

LEMMA NextType == TypeOK /\ [Next]_vars => TypeOK'
<1> SUFFICES ASSUME TypeOK, [Next]_vars PROVE TypeOK'
  OBVIOUS
<1>1. CASE UNCHANGED vars
  BY <1>1 DEF vars, handlerVars, TypeOK
<1>2. CASE Next
  BY <1>2, StepType, CreateType, MoveType, RowsType, SweepType, SweeperDiesType DEF Next
<1> QED
  BY <1>1, <1>2

-----------------------------------------------------------------------------
(* QUOTAS AND KEYS *)

(* A step after which there are no more runs of any kind that is counted.  *)
Lowers ==
  \A r \in RunId :
    /\ runs'[r].status \in Outstanding /\ ~runs'[r].reopened =>
         /\ runs[r].status \in Outstanding /\ ~runs[r].reopened
         /\ runs'[r].user = runs[r].user
    /\ runs'[r].status = "queued" /\ ~runs'[r].answered =>
         runs[r].status = "queued" /\ ~runs[r].answered

LEMMA SubsetsOfRuns ==
  ASSUME NEW S \in SUBSET RunId, NEW T \in SUBSET S
  PROVE  /\ IsFiniteSet(S) /\ IsFiniteSet(T)
         /\ Cardinality(S) \in Nat /\ Cardinality(T) \in Nat
         /\ Cardinality(T) <= Cardinality(S)
<1>1. IsFiniteSet(S) /\ IsFiniteSet(T)
  BY FS_Subset, AdmissionAssumption
<1> QED
  BY <1>1, FS_Subset, FS_CardinalityType

LEMMA LoweredNumbers ==
  ASSUME Lowers
  PROVE  /\ \A u \in User : Cardinality(Unfinished(u)') <= Cardinality(Unfinished(u))
         /\ Cardinality(Waiting') <= Cardinality(Waiting)
         /\ \A u \in User : Cardinality(Unfinished(u)') \in Nat /\ Cardinality(Unfinished(u)) \in Nat
         /\ Cardinality(Waiting') \in Nat /\ Cardinality(Waiting) \in Nat
<1>1. Waiting' \subseteq Waiting /\ Waiting \subseteq RunId
  BY DEF Lowers, Waiting, Is
<1>2. \A u \in User : Unfinished(u)' \subseteq Unfinished(u) /\ Unfinished(u) \subseteq RunId
  BY DEF Lowers, Unfinished, Is
<1> QED
  BY <1>1, <1>2, SubsetsOfRuns

(* Numbers that were counted bind the handlers also after such a step.     *)
LEMMA LowersKeeps ==
  ASSUME TypeOK, Exclusive, Counted, QuotasKept, Lowers, UNCHANGED <<pc, req, lock>>
  PROVE  Exclusive' /\ Counted' /\ QuotasKept'
<1>1. \A h \in Handler : Asked(h)' = Asked(h) /\ Asked(h) \in User
  BY DEF TypeOK, Asked
<1> USE AdmissionAssumption, LoweredNumbers
<1>2. Exclusive'
  BY DEF Exclusive
<1>3. QuotasKept'
  BY DEF QuotasKept
<1>4. Counted'
  BY <1>1 DEF Counted
<1> QED
  BY <1>2, <1>3, <1>4

(* The status and the marks of a row after a step of those that move it.   *)
LEMMA MovesLower ==
  ASSUME TypeOK, NEW r \in RunId,
         \/ \E to \in Terminal \cup Outstanding : Move(r, to)
         \/ Exhaust(r) \/ Answer(r) \/ Reopen(r) \/ Expire(r) \/ SweepThread(r)
  PROVE  Lowers
<1>1. /\ runs[r] \in Row
      /\ runs' \in [RunId -> Row]
      /\ \A q \in RunId \ {r} : runs'[q] = runs[q]
  BY MoveType, RowsType
     DEF TypeOK, Move, Exhaust, Answer, Reopen, Expire, SweepThread
<1> DEFINE Same == runs'[r].user = runs[r].user /\ runs'[r].answered = runs[r].answered
                   /\ runs'[r].reopened = runs[r].reopened
<1>2. ASSUME NEW to \in Terminal \cup Outstanding, Move(r, to)
      PROVE  runs'[r].status = to /\ Same
  BY <1>1, <1>2 DEF TypeOK, Row, Move, Become
<1>3. ASSUME Exhaust(r)
      PROVE  runs'[r].status = "failed" /\ Same
  BY <1>1, <1>3 DEF TypeOK, Row, Exhaust, Become
<1>4. ASSUME Answer(r)
      PROVE  runs'[r].answered /\ runs'[r].status = "queued" /\ runs[r].status = "awaiting_input"
             /\ runs'[r].user = runs[r].user /\ runs'[r].reopened = runs[r].reopened
  BY <1>1, <1>4 DEF TypeOK, Row, Answer, Become, Is
<1>5. ASSUME Reopen(r)
      PROVE  runs'[r].reopened /\ runs'[r].status = "interrupted"
  BY <1>1, <1>5 DEF TypeOK, Row, Reopen, Become
<1>6. ASSUME Expire(r) \/ SweepThread(r)
      PROVE  runs'[r].status = runs[r].status /\ Same
  BY <1>1, <1>6 DEF TypeOK, Row, Expire, SweepThread
<1>7. ASSUME NEW to \in Terminal \cup Outstanding, Move(r, to)
      PROVE  /\ to # "queued"
             /\ runs[r].status \in Outstanding
  BY <1>7 DEF Move, Moves, Outstanding, Terminal
<1> QED
  <2>1. CASE \E to \in Terminal \cup Outstanding : Move(r, to)
    BY <2>1, <1>1, <1>2, <1>7 DEF Lowers
  <2>2. CASE Exhaust(r)
    BY <2>2, <1>1, <1>3 DEF Lowers, Outstanding
  <2>3. CASE Answer(r)
    BY <2>3, <1>1, <1>4 DEF Lowers, Outstanding
  <2>4. CASE Reopen(r)
    BY <2>4, <1>1, <1>5 DEF Lowers
  <2>5. CASE Expire(r) \/ SweepThread(r)
    BY <2>5, <1>1, <1>6 DEF Lowers
  <2> QED
    BY <2>1, <2>2, <2>3, <2>4, <2>5

LEMMA SweepLowers ==
  ASSUME TypeOK, NEW batch \in SUBSET RunId, Sweep(batch)
  PROVE  Lowers
<1>1. \A r \in RunId : runs[r] \in Row
  BY DEF TypeOK
<1>2. \A r \in RunId : /\ runs'[r].status = runs[r].status /\ runs'[r].user = runs[r].user
                       /\ runs'[r].answered = runs[r].answered
                       /\ runs'[r].reopened = runs[r].reopened
  BY <1>1 DEF Sweep, Row
<1> QED
  BY <1>2 DEF Lowers

(* Handlers on their way to the insert.                                    *)
LEMMA WaysKeep ==
  ASSUME TypeOK, Exclusive, Counted, QuotasKept, NEW h \in Handler,
         \/ Seek(h) \/ TakeLock(h) \/ CountUser(h) \/ CountQueue(h) \/ InsertClashes(h)
         \/ LookAgain(h) \/ CreateFails(h)
         \/ \E u \in User, key \in RequestKey \cup {NoKey} : Create(h, u, key)
  PROVE  Exclusive' /\ Counted' /\ QuotasKept'
<1>1. UNCHANGED runs /\ pc' \in [Handler -> Pc] /\ \A g \in Handler \ {h} : pc'[g] = pc[g]
  BY StepType, CreateType
     DEF TypeOK, CreateStep, Seek, TakeLock, CountUser, CountQueue, InsertClashes, LookAgain,
         CreateFails, Create, Refuse, Return, Goto
<1>2. \A u \in User : Unfinished(u)' = Unfinished(u)
  BY <1>1 DEF Unfinished, Is
<1>3. Waiting' = Waiting
  BY <1>1 DEF Waiting, Is
<1>4. QuotasKept'
  BY <1>2, <1>3 DEF QuotasKept
<1>5. Exclusive'
  BY <1>1, AdmissionAssumption
     DEF TypeOK, Exclusive, Critical, Seek, TakeLock, CountUser, CountQueue, InsertClashes,
         LookAgain, CreateFails, Create, Refuse, Return, Unlock, Goto, MayEnter
<1>6. \A g \in Handler \ {h} : Asked(g)' = Asked(g)
  BY DEF TypeOK, Asked, Seek, TakeLock, CountUser, CountQueue, InsertClashes, LookAgain,
         CreateFails, Create, Refuse, Return
<1>7. pc'[h] \in {"queueing", "inserting"} =>
        /\ Asked(h)' = Asked(h)
        /\ pc'[h] = "queueing" => pc[h] = "counting" /\ CountUser(h)
        /\ pc'[h] = "inserting" => pc[h] = "queueing" /\ CountQueue(h)
  BY DEF TypeOK, Asked, Seek, TakeLock, CountUser, CountQueue, InsertClashes, LookAgain,
         CreateFails, Create, Refuse, Return, Goto
<1>8. ASSUME pc'[h] = "queueing"
      PROVE  Cardinality(Unfinished(Asked(h))) < MaxPerUser
  <2> DEFINE counted == {r \in RunId : Is(r, Counts) /\ runs[r].user = Asked(h)}
  <2>1. Unfinished(Asked(h)) \subseteq counted /\ counted \subseteq RunId
    BY DEF Unfinished, Counts
  <2>2. ~(Cardinality(counted) >= MaxPerUser)
    BY <1>7, <1>8 DEF TypeOK, CountUser, Refuse, Return, Goto
  <2> QED
    BY <2>1, <2>2, SubsetsOfRuns, AdmissionAssumption
<1>9. ASSUME pc'[h] = "inserting"
      PROVE  /\ Cardinality(Unfinished(Asked(h))) < MaxPerUser
             /\ Cardinality(Waiting) < MaxQueued
  <2>1. Waiting \subseteq {r \in RunId : Is(r, {"queued"})}
    BY DEF Waiting
  <2>2. ~QueueFull
    BY <1>7, <1>9 DEF TypeOK, CountQueue, Refuse, Return, Goto
  <2>3. Cardinality(Waiting) < MaxQueued
    BY <2>1, <2>2, SubsetsOfRuns, AdmissionAssumption DEF QueueFull
  <2> QED
    BY <1>7, <1>9, <2>3 DEF Counted
<1>10. Asked(h) \in User /\ \A g \in Handler : Asked(g) \in User
  BY DEF TypeOK, Asked
<1>11. Counted'
  BY <1>1, <1>2, <1>3, <1>6, <1>7, <1>8, <1>9, <1>10 DEF Counted
<1> QED
  BY <1>4, <1>5, <1>11

LEMMA OneMoreRun ==
  ASSUME NEW S \in SUBSET RunId, NEW r \in RunId, NEW T \in SUBSET (S \cup {r}), NEW n \in Nat,
         Cardinality(S) < n
  PROVE  Cardinality(T) <= n
<1>1. IsFiniteSet(S) /\ Cardinality(S) \in Nat
  BY SubsetsOfRuns
<1>2. Cardinality(S \cup {r}) <= Cardinality(S) + 1
  <2>1. Cardinality(S \cup {r}) = IF r \in S THEN Cardinality(S) ELSE Cardinality(S) + 1
    BY <1>1, FS_AddElement, Zenon
  <2> QED
    BY <1>1, <2>1
<1>3. /\ Cardinality(S \cup {r}) \in Nat /\ Cardinality(T) \in Nat
      /\ Cardinality(T) <= Cardinality(S \cup {r})
  BY SubsetsOfRuns
<1> QED
  BY <1>1, <1>2, <1>3

LEMMA InsertKeeps ==
  ASSUME TypeOK, Exclusive, Counted, QuotasKept, NEW h \in Handler, NEW r \in RunId, Insert(h, r)
  PROVE  Exclusive' /\ Counted' /\ QuotasKept'
<1>1. Asked(h) \in User /\ KeyOf(h) \in RequestKey \cup {NoKey}
  BY DEF TypeOK, Asked, KeyOf
<1>2. /\ runs'[r].status = "queued" /\ runs'[r].user = Asked(h)
      /\ \A q \in RunId \ {r} : runs'[q] = runs[q]
  BY DEF TypeOK, Insert, Submitted, NoRowYet
<1>3. lock = h /\ lock' = NoHandler /\ \A g \in Handler \ {h} : pc'[g] = pc[g]
  BY DEF TypeOK, Exclusive, Critical, Insert, Unlock, Return, Goto
<1>4. pc'[h] = "idle"
  BY DEF TypeOK, Insert, Return, Goto
<1>5. Exclusive'
  BY <1>3, <1>4, AdmissionAssumption DEF TypeOK, Exclusive, Critical
<1>6. Counted'
  BY <1>3, <1>5, AdmissionAssumption DEF Counted, Exclusive, Critical
<1>7. Cardinality(Unfinished(Asked(h))) < MaxPerUser /\ Cardinality(Waiting) < MaxQueued
  BY DEF Counted, Insert
<1>8. \A u \in User : /\ Unfinished(u)' \subseteq Unfinished(u) \cup {r}
                      /\ u # Asked(h) => Unfinished(u)' \subseteq Unfinished(u)
  BY <1>2 DEF Unfinished, Is
<1>9. Waiting' \subseteq Waiting \cup {r} /\ Waiting \subseteq RunId
  BY <1>2 DEF Waiting, Is
<1>10. \A u \in User : Cardinality(Unfinished(u)') <= MaxPerUser
  <2> SUFFICES ASSUME NEW u \in User PROVE Cardinality(Unfinished(u)') <= MaxPerUser
    OBVIOUS
  <2>1. Unfinished(u) \in SUBSET RunId
    BY DEF Unfinished
  <2>2. CASE u = Asked(h)
    BY <2>1, <2>2, <1>7, <1>8, OneMoreRun, AdmissionAssumption
  <2>3. CASE u # Asked(h)
    BY <2>1, <2>3, <1>8, SubsetsOfRuns, AdmissionAssumption DEF QuotasKept
  <2> QED
    BY <2>2, <2>3
<1>11. Cardinality(Waiting') <= MaxQueued
  BY <1>7, <1>9, OneMoreRun, AdmissionAssumption
<1> QED
  BY <1>5, <1>6, <1>10, <1>11 DEF QuotasKept

LEMMA FewerRequests ==
  ASSUME OneRunPerRequest, NEW u \in User, NEW key \in RequestKey,
         Active(u, key)' \subseteq Active(u, key)
  PROVE  Cardinality(Active(u, key)') <= 1
<1>1. Active(u, key) \in SUBSET RunId
  BY DEF Active
<1> QED
  BY <1>1, SubsetsOfRuns DEF OneRunPerRequest

(* A step that changes one row: it stays unfinished for its request, or it *)
(* ends, or it passes the index.                                           *)
LEMMA RowKeepsRequest ==
  ASSUME OneRunPerRequest, NEW r \in RunId, \A q \in RunId \ {r} : runs'[q] = runs[q],
         \/ runs'[r].status \notin Outstanding
         \/ /\ runs[r].status \in Outstanding
            /\ runs'[r].user = runs[r].user /\ runs'[r].key = runs[r].key
         \/ ~Clashes(runs'[r].user, runs'[r].key)
  PROVE  OneRunPerRequest'
<1> SUFFICES ASSUME NEW u \in User, NEW key \in RequestKey
             PROVE  Cardinality(Active(u, key)') <= 1
  BY DEF OneRunPerRequest
<1>1. CASE Active(u, key)' \subseteq Active(u, key)
  BY <1>1, FewerRequests
<1>2. CASE Active(u, key) = {}
  <2>1. Active(u, key)' \in SUBSET ({} \cup {r})
    BY <1>2 DEF Active, Is
  <2>2. Cardinality({}) = 0
    BY FS_EmptySet
  <2> QED
    BY <2>1, <2>2, OneMoreRun
<1>3. Active(u, key)' \subseteq Active(u, key) \/ Active(u, key) = {}
  BY AdmissionAssumption DEF Active, Is, Clashes
<1> QED
  BY <1>1, <1>2, <1>3

LEMMA RowsUnchangedKeepRequests ==
  ASSUME OneRunPerRequest,
         \A r \in RunId : /\ runs'[r].status = runs[r].status
                          /\ runs'[r].user = runs[r].user /\ runs'[r].key = runs[r].key
  PROVE  OneRunPerRequest'
<1>1. \A u \in User, key \in RequestKey : Active(u, key)' \subseteq Active(u, key)
  BY DEF Active, Is
<1> QED
  BY <1>1, FewerRequests DEF OneRunPerRequest

LEMMA MovesKeepRequests ==
  ASSUME TypeOK, OneRunPerRequest, NEW r \in RunId,
         \/ \E to \in Terminal \cup Outstanding : Move(r, to)
         \/ Exhaust(r) \/ Answer(r) \/ Reopen(r) \/ Expire(r) \/ SweepThread(r)
  PROVE  OneRunPerRequest'
<1>1. /\ runs[r] \in Row
      /\ \A q \in RunId \ {r} : runs'[q] = runs[q]
  BY DEF TypeOK, Move, Exhaust, Answer, Reopen, Expire, SweepThread
<1> DEFINE Same == runs'[r].user = runs[r].user /\ runs'[r].key = runs[r].key
<1>2. ASSUME NEW to \in Terminal \cup Outstanding, Move(r, to)
      PROVE  runs[r].status \in Outstanding /\ Same
  <2>1. Same
    BY <1>1, <1>2 DEF TypeOK, Row, Move, Become
  <2> QED
    BY <1>2, <2>1 DEF Move, Moves, Outstanding
<1>3. ASSUME Exhaust(r)
      PROVE  runs[r].status \in Outstanding /\ Same
  BY <1>1, <1>3 DEF TypeOK, Row, Exhaust, Become, Is, Outstanding
<1>4. ASSUME Answer(r)
      PROVE  runs[r].status \in Outstanding /\ Same
  BY <1>1, <1>4 DEF TypeOK, Row, Answer, Become, Is, Outstanding
<1>5. ASSUME Reopen(r)
      PROVE  ~Clashes(runs'[r].user, runs'[r].key)
  <2>1. Same
    BY <1>1, <1>5 DEF TypeOK, Row, Reopen, Become
  <2> QED
    BY <1>5, <2>1 DEF Reopen, Refuses
<1>6. ASSUME Expire(r)
      PROVE  runs'[r].status \notin Outstanding
  BY <1>1, <1>6 DEF TypeOK, Row, Expire, Is, Outstanding, Terminal
<1>7. ASSUME SweepThread(r)
      PROVE  runs'[r].status = runs[r].status /\ Same
  BY <1>1, <1>7 DEF TypeOK, Row, SweepThread
<1>8. CASE SweepThread(r)
  BY <1>1, <1>7, <1>8, RowsUnchangedKeepRequests
<1> QED
  BY <1>1, <1>2, <1>3, <1>4, <1>5, <1>6, <1>8, RowKeepsRequest

LEMMA InsertKeepsRequests ==
  ASSUME TypeOK, OneRunPerRequest, NEW h \in Handler, NEW r \in RunId, Insert(h, r)
  PROVE  OneRunPerRequest'
<1>1. /\ runs'[r].user = Asked(h) /\ runs'[r].key = KeyOf(h)
      /\ \A q \in RunId \ {r} : runs'[q] = runs[q]
  BY DEF TypeOK, Insert, Submitted, NoRowYet
<1> QED
  BY <1>1, RowKeepsRequest DEF Insert, Refuses

LEMMA SweepKeepsRequests ==
  ASSUME TypeOK, OneRunPerRequest, NEW batch \in SUBSET RunId, Sweep(batch)
  PROVE  OneRunPerRequest'
<1>1. \A r \in RunId : runs[r] \in Row
  BY DEF TypeOK
<1>2. \A r \in RunId : /\ runs'[r].status = runs[r].status
                       /\ runs'[r].user = runs[r].user /\ runs'[r].key = runs[r].key
  BY <1>1 DEF Sweep, Row
<1> QED
  BY <1>2, RowsUnchangedKeepRequests

-----------------------------------------------------------------------------
(* CHECKPOINTS *)

LEMMA ThreadsKept ==
  ASSUME TypeOK, Threads, NEW r \in RunId,
         \/ \E to \in Terminal \cup Outstanding : Move(r, to)
         \/ Exhaust(r) \/ Answer(r) \/ Reopen(r) \/ Expire(r) \/ SweepThread(r)
  PROVE  Threads'
<1>1. /\ runs[r] \in Row
      /\ \A q \in RunId \ {r} : runs'[q] = runs[q]
      /\ todo' \subseteq todo
  BY DEF TypeOK, Move, Exhaust, Answer, Reopen, Expire, SweepThread
<1>2. ASSUME NEW to \in Terminal \cup Outstanding, Move(r, to)
      PROVE  /\ runs'[r].status = to /\ runs'[r].reopened = runs[r].reopened
             /\ to = "running" => runs'[r].thread
             /\ to # "running" => runs'[r].thread = runs[r].thread
             /\ to = "awaiting_input" => runs[r].status = "running"
             /\ runs[r].status \notin Terminal
  BY <1>1, <1>2 DEF TypeOK, Row, Move, Moves, Become, Terminal, Outstanding
<1>3. ASSUME Exhaust(r)
      PROVE  runs'[r].status = "failed" /\ runs'[r].reopened = runs[r].reopened
  BY <1>1, <1>3 DEF TypeOK, Row, Exhaust, Become
<1>4. ASSUME Answer(r)
      PROVE  /\ runs'[r].status = "queued" /\ runs[r].status = "awaiting_input"
             /\ runs'[r].reopened = runs[r].reopened
  BY <1>1, <1>4 DEF TypeOK, Row, Answer, Become, Is
<1>5. ASSUME Reopen(r)
      PROVE  runs'[r].reopened /\ runs'[r].status = "interrupted"
  BY <1>1, <1>5 DEF TypeOK, Row, Reopen, Become
<1>6. ASSUME Expire(r)
      PROVE  runs'[r].status = runs[r].status /\ runs[r].status \in Terminal
  BY <1>1, <1>6 DEF TypeOK, Row, Expire, Is
<1>7. ASSUME SweepThread(r)
      PROVE  /\ runs'[r].status = runs[r].status /\ runs'[r].reopened = runs[r].reopened
             /\ r \in todo /\ r \notin todo'
  BY <1>1, <1>7 DEF TypeOK, Row, SweepThread
<1> SUFFICES ASSUME NEW q \in RunId
             PROVE  /\ Is(q, {"running", "awaiting_input"})' =>
                         (runs[q].thread \/ runs[q].reopened)'
                    /\ q \in todo' => Is(q, Terminal)' \/ (runs'[q].reopened /\ ~Is(q, {"none"})')
  BY DEF Threads
<1>8. CASE q # r
  BY <1>1, <1>8 DEF Threads, Is
<1>9. CASE q = r
  <2> USE <1>1, <1>9 DEF Threads, Is, Terminal
  <2>1. CASE \E to \in Terminal \cup Outstanding : Move(r, to)
    BY <1>2, <2>1 DEF Outstanding
  <2>2. CASE Exhaust(r)
    BY <1>3, <2>2
  <2>3. CASE Answer(r)
    BY <1>4, <2>3
  <2>4. CASE Reopen(r)
    BY <1>5, <2>4
  <2>5. CASE Expire(r)
    BY <1>6, <2>5
  <2>6. CASE SweepThread(r)
    BY <1>7, <2>6
  <2> QED
    BY <2>1, <2>2, <2>3, <2>4, <2>5, <2>6
<1> QED
  BY <1>8, <1>9

LEMMA OthersKeepThreads ==
  ASSUME TypeOK, Threads,
         \/ \E h \in Handler, r \in RunId : Insert(h, r)
         \/ \E batch \in SUBSET RunId : Sweep(batch)
         \/ SweeperDies
         \/ UNCHANGED <<runs, todo>>
  PROVE  Threads'
<1>1. ASSUME NEW h \in Handler, NEW r \in RunId, Insert(h, r) PROVE Threads'
  <2>1. runs'[r].status = "queued" /\ runs[r].status = "none" /\ todo' = todo
        /\ \A q \in RunId \ {r} : runs'[q] = runs[q]
    BY <1>1 DEF TypeOK, Insert, Submitted, NoRowYet, Is, Creating
  <2>2. r \notin todo
    BY <2>1 DEF Threads, Is, Terminal
  <2> QED
    BY <2>1, <2>2 DEF Threads, Is
<1>2. ASSUME NEW batch \in SUBSET RunId, Sweep(batch) PROVE Threads'
  <2>1. \A r \in RunId : runs[r] \in Row
    BY DEF TypeOK
  <2>2. \A r \in RunId : /\ runs'[r].status = runs[r].status
                         /\ runs'[r].thread = runs[r].thread
                         /\ runs'[r].reopened = runs[r].reopened
    BY <1>2, <2>1 DEF Sweep, Row
  <2>3. \A r \in todo' : runs[r].status \in Terminal
    BY <1>2 DEF Sweep, Sweepable, Is
  <2>4. \A r \in RunId : runs[r].status \in {"running", "awaiting_input"} =>
                           runs[r].thread \/ runs[r].reopened
    BY DEF Threads, Is
  <2>5. \A r \in RunId :
          /\ runs'[r].status \in {"running", "awaiting_input"} =>
               runs'[r].thread \/ runs'[r].reopened
          /\ r \in todo' => runs'[r].status \in Terminal
    BY <2>2, <2>3, <2>4
  <2> QED
    BY <2>5 DEF Threads, Is, Terminal
<1> QED
  BY <1>1, <1>2 DEF SweeperDies, Threads, Is

-----------------------------------------------------------------------------
(* THEOREMS *)

LEMMA InitInv == Init => Inv
<1> SUFFICES ASSUME Init PROVE Inv
  OBVIOUS
<1>1. \A r \in RunId : runs[r].status = "none"
  BY DEF Init, NoRowYet
<1>2. (\A u \in User : Unfinished(u) = {}) /\ Waiting = {}
      /\ \A u \in User, key \in RequestKey : Active(u, key) = {}
  BY <1>1 DEF Unfinished, Waiting, Active, Is, Outstanding
<1>3. QuotasKept /\ OneRunPerRequest
  BY <1>2, FS_EmptySet, AdmissionAssumption DEF QuotasKept, OneRunPerRequest
<1>4. Exclusive /\ Counted
  BY AdmissionAssumption DEF Init, Exclusive, Critical, Counted
<1>5. Threads
  BY <1>1 DEF Init, Threads, Is
<1> QED
  BY <1>3, <1>4, <1>5 DEF Inv

LEMMA NextInv == TypeOK /\ Inv /\ [Next]_vars => Inv'
<1> SUFFICES ASSUME TypeOK, Inv, [Next]_vars PROVE Inv'
  OBVIOUS
<1> USE DEF Inv
<1>1. ASSUME NEW h \in Handler,
             \/ Seek(h) \/ TakeLock(h) \/ CountUser(h) \/ CountQueue(h) \/ InsertClashes(h)
             \/ LookAgain(h) \/ CreateFails(h)
             \/ \E u \in User, key \in RequestKey \cup {NoKey} : Create(h, u, key)
      PROVE  Inv'
  <2>1. UNCHANGED <<runs, todo>>
    BY <1>1 DEF Creating, Seek, TakeLock, CountUser, CountQueue, InsertClashes, LookAgain,
                CreateFails, Create
  <2> QED
    BY <1>1, <2>1, WaysKeep, RowsUnchangedKeepRequests, OthersKeepThreads
<1>2. ASSUME NEW h \in Handler, NEW r \in RunId, Insert(h, r) PROVE Inv'
  BY <1>2, InsertKeeps, InsertKeepsRequests, OthersKeepThreads
<1>3. ASSUME NEW r \in RunId,
             \/ \E to \in Terminal \cup Outstanding : Move(r, to)
             \/ Exhaust(r) \/ Answer(r) \/ Reopen(r) \/ Expire(r) \/ SweepThread(r)
      PROVE  Inv'
  <2>1. UNCHANGED <<pc, req, lock>>
    BY <1>3 DEF Elsewhere, handlerVars, Move, Exhaust, Answer, Reopen, Expire, SweepThread
  <2> QED
    BY <1>3, <2>1, MovesLower, LowersKeeps, MovesKeepRequests, ThreadsKept
<1>4. ASSUME NEW batch \in SUBSET RunId, Sweep(batch) PROVE Inv'
  <2>1. UNCHANGED <<pc, req, lock>>
    BY <1>4 DEF Elsewhere, handlerVars, Sweep
  <2> QED
    BY <1>4, <2>1, SweepLowers, LowersKeeps, SweepKeepsRequests, OthersKeepThreads
<1>5. CASE SweeperDies \/ UNCHANGED vars
  <2>1. UNCHANGED <<pc, req, runs, lock>>
    BY <1>5 DEF SweeperDies, vars, Elsewhere, handlerVars
  <2>2. Lowers
    BY <2>1 DEF Lowers
  <2>3. Threads'
    BY <1>5, OthersKeepThreads DEF vars
  <2> QED
    BY <2>1, <2>2, <2>3, LowersKeeps, RowsUnchangedKeepRequests
<1> QED
  BY <1>1, <1>2, <1>3, <1>4, <1>5 DEF Next, CreateStep

LEMMA Invariance == Spec => [](TypeOK /\ Inv)
<1>1. Init => TypeOK /\ Inv
  BY InitType, InitInv
<1>2. TypeOK /\ Inv /\ [Next]_vars => (TypeOK /\ Inv)'
  BY NextType, NextInv
<1> QED
  BY <1>1, <1>2, PTL DEF Spec

(* However many API processes admit runs at once, and whatever workers,    *)
(* users and the operator do to the rows between the counts and the        *)
(* insert, the quotas of users and of the queue hold.                      *)
THEOREM QuotasHold == Spec => []QuotasKept
BY Invariance, PTL DEF Inv

(* A request, however often it is sent, has one unfinished run, also when  *)
(* the operator brings an older run of it back.                            *)
THEOREM OneRunForOneRequest == Spec => []OneRunPerRequest
BY Invariance, PTL DEF Inv

(* No sweep takes the checkpoint of a run that waits for its user, unless  *)
(* the operator had reopened the run.                                      *)
THEOREM AnswersAreTaken == Spec => []AnswerableKeepsThread
<1>1. Inv => AnswerableKeepsThread
  BY DEF Inv, Threads, AnswerableKeepsThread, Is
<1> QED
  BY <1>1, Invariance, PTL
=============================================================================
