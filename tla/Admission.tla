----------------------------- MODULE Admission ------------------------------
(***************************************************************************)
(* How runs are admitted (runs/admission.py) by several API processes,     *)
(* beside the workers, the users' answers and the operator that move the   *)
(* rows meanwhile, and the retention sweep (retention.py) that clears away *)
(* what finished runs leave.                                               *)
(*                                                                         *)
(* A row is what admission, the request key and the sweep look at; who may *)
(* move it from which status to which is the table of transitions.py, and  *)
(* module RunRow has the details.                                          *)
(***************************************************************************)
EXTENDS Naturals, FiniteSets

CONSTANTS
  Handler,      \* requests in flight, at any API process
  User,
  RunId,
  RequestKey, NoKey,    \* request_id, and its absence
  NoHandler,
  MaxPerUser,    \* max_concurrent_runs_per_user
  MaxQueued,     \* max_global_queued_runs
  Reopens        \* bound: runs the operator reopens

ASSUME AdmissionAssumption ==
  /\ IsFiniteSet(Handler) /\ IsFiniteSet(RunId) /\ User # {}
  /\ NoHandler \notin Handler /\ NoKey \notin RequestKey
  /\ {MaxPerUser, MaxQueued} \subseteq Nat \ {0} /\ Reopens \in Nat

VARIABLES
  pc,          \* where a handler is
  req,         \* the user and the key it was asked for
  runs,        \* the rows of runs with what hangs on them
  lock,        \* who holds RUN_ADMISSION_LOCK_ID
  todo,        \* run_ids of a sweep whose checkpoints are still there
  reopens      \* runs reopened so far

handlerVars == <<pc, req>>
vars == <<handlerVars, runs, lock, todo, reopens>>

Terminal == {"completed", "failed", "cancelled"}
Outstanding == {"queued", "running", "awaiting_input", "interrupted"}

(* key: request_id; thread: its checkpoint is there; traces: so are its    *)
(* events and usage; aged: it ended before the cutoff.  answered, reopened:*)
(* history.                                                                *)
Row == [status : Terminal \cup Outstanding \cup {"none"}, user : User,
        key : RequestKey \cup {NoKey}, exhausted : BOOLEAN,
        thread : BOOLEAN, traces : BOOLEAN, aged : BOOLEAN, pruned : BOOLEAN,
        answered : BOOLEAN, reopened : BOOLEAN]

NoRequest == [user |-> CHOOSE u \in User : TRUE, key |-> NoKey]
NoRowYet == [status |-> "none", user |-> NoRequest.user, key |-> NoKey, exhausted |-> FALSE,
             thread |-> FALSE, traces |-> FALSE, aged |-> FALSE, pruned |-> FALSE,
             answered |-> FALSE, reopened |-> FALSE]

Pc == {"idle", "seeking", "locking", "counting", "queueing", "inserting", "clashed"}

Init ==
  /\ pc = [h \in Handler |-> "idle"] /\ req = [h \in Handler |-> NoRequest]
  /\ runs = [r \in RunId |-> NoRowYet]
  /\ lock = NoHandler /\ todo = {} /\ reopens = 0

Is(r, statuses) == runs[r].status \in statuses
Active(u, key) == {r \in RunId : Is(r, Outstanding) /\ runs[r].user = u /\ runs[r].key = key}
Clashes(u, key) == key # NoKey /\ Active(u, key) # {}

-----------------------------------------------------------------------------
(* ADMISSION: RunAdmission.create *)

Creating == UNCHANGED <<todo, reopens>>
Goto(h, to) == pc' = [pc EXCEPT ![h] = to]
Return(h) == Goto(h, "idle") /\ req' = [req EXCEPT ![h] = NoRequest]
Asked(h) == req[h].user
KeyOf(h) == req[h].key

(* (The bound on the ids leaves one for every request that is under way.)  *)
IdsLeft == Cardinality({h \in Handler : pc[h] # "idle"})
             < Cardinality({r \in RunId : Is(r, {"none"})})

Create(h, u, key) ==
  /\ pc[h] = "idle" /\ IdsLeft
  /\ Goto(h, IF key = NoKey THEN "locking" ELSE "seeking")
  /\ req' = [req EXCEPT ![h] = [user |-> u, key |-> key]]
  /\ UNCHANGED <<runs, lock>> /\ Creating

(* The same request is under way: its run is the answer.                   *)
Seek(h) ==
  /\ pc[h] = "seeking"
  /\ IF Clashes(Asked(h), KeyOf(h)) THEN Return(h) ELSE Goto(h, "locking") /\ UNCHANGED req
  /\ UNCHANGED <<runs, lock>> /\ Creating

(* acquire_xact_lock.                                                      *)
MayEnter == lock = NoHandler

TakeLock(h) ==
  /\ pc[h] = "locking" /\ MayEnter
  /\ lock' = h /\ Goto(h, "counting")
  /\ UNCHANGED <<req, runs>> /\ Creating

Unlock(h) == lock' = IF lock = h THEN NoHandler ELSE lock

(* A quota is used up.                                                     *)
Refuse(h) == Return(h) /\ Unlock(h)

(* Mutant: a run that waits for its user does not count.                   *)
Counts_Waiting == Outstanding \ {"awaiting_input"}
Counts == Outstanding

CountUser(h) ==
  /\ pc[h] = "counting"
  /\ IF Cardinality({r \in RunId : Is(r, Counts) /\ runs[r].user = Asked(h)}) >= MaxPerUser
     THEN Refuse(h)
     ELSE Goto(h, "queueing") /\ UNCHANGED <<req, lock>>
  /\ UNCHANGED runs /\ Creating

QueueFull == Cardinality({r \in RunId : Is(r, {"queued"})}) >= MaxQueued

CountQueue(h) ==
  /\ pc[h] = "queueing"
  /\ IF QueueFull
     THEN Refuse(h)
     ELSE Goto(h, "inserting") /\ UNCHANGED <<req, lock>>
  /\ UNCHANGED runs /\ Creating

(* The unique index over what is not terminal.                             *)
Refuses(u, key) == Clashes(u, key)

Submitted(u, key) == [NoRowYet EXCEPT !.status = "queued", !.user = u, !.key = key]

Insert(h, r) ==
  /\ pc[h] = "inserting" /\ Is(r, {"none"}) /\ ~Refuses(Asked(h), KeyOf(h))
  /\ runs' = [runs EXCEPT ![r] = Submitted(Asked(h), KeyOf(h))]
  /\ Return(h) /\ Unlock(h)
  /\ Creating

InsertClashes(h) ==
  /\ pc[h] = "inserting" /\ Refuses(Asked(h), KeyOf(h))
  /\ Goto(h, "clashed") /\ Unlock(h)
  /\ UNCHANGED <<req, runs>> /\ Creating

(* The run that was in the way is the answer, or, if it has ended by now,  *)
(* the request fails.                                                      *)
LookAgain(h) ==
  /\ pc[h] = "clashed"
  /\ Return(h)
  /\ UNCHANGED <<runs, lock>> /\ Creating

(* The connection or the process is lost, and the transaction with it.     *)
CreateFails(h) ==
  /\ pc[h] # "idle"
  /\ Return(h) /\ Unlock(h)
  /\ UNCHANGED runs /\ Creating

CreateStep(h) ==
  \/ Seek(h) \/ TakeLock(h) \/ CountUser(h) \/ CountQueue(h)
  \/ \E r \in RunId : Insert(h, r)
  \/ InsertClashes(h) \/ LookAgain(h)

-----------------------------------------------------------------------------
(* WHAT MOVES THE ROWS *)

Become(r, status) == [runs[r] EXCEPT !.status = status, !.aged = FALSE]
Elsewhere == UNCHANGED <<handlerVars, lock>>

(* TRANSITIONS: claim_resume, await_input, release, finish, fail,          *)
(* cancel_pending and cancel_running.                                      *)
Moves == ({"queued", "interrupted"} \X {"running"})
         \cup ({"running"} \X {"awaiting_input", "interrupted", "completed", "failed"})
         \cup (Outstanding \X {"cancelled"})

(* A run that is executed saves checkpoints and events.                    *)
Move(r, to) ==
  /\ <<runs[r].status, to>> \in Moves
  /\ runs' = [runs EXCEPT ![r] =
                IF to = "running" THEN [Become(r, to) EXCEPT !.thread = TRUE, !.traces = TRUE]
                ELSE Become(r, to)]
  /\ Elsewhere /\ UNCHANGED <<todo, reopens>>

Exhaust(r) ==
  /\ Is(r, {"queued", "interrupted", "running"})
  /\ runs' = [runs EXCEPT ![r] = [Become(r, "failed") EXCEPT !.exhausted = TRUE]]
  /\ Elsewhere /\ UNCHANGED <<todo, reopens>>

(* resume_with_input; without a checkpoint the answer is refused.          *)
Answer(r) ==
  /\ Is(r, {"awaiting_input"}) /\ runs[r].thread
  /\ runs' = [runs EXCEPT ![r] = [Become(r, "queued") EXCEPT !.answered = TRUE]]
  /\ Elsewhere /\ UNCHANGED <<todo, reopens>>

(* The operator brings a dead-lettered run back; the index refuses it if   *)
(* its request was made again since.                                       *)
Reopen(r) ==
  /\ Is(r, {"failed"}) /\ runs[r].exhausted /\ reopens < Reopens
  /\ ~Refuses(runs[r].user, runs[r].key)
  /\ runs' = [runs EXCEPT ![r] = [Become(r, "interrupted") EXCEPT
                                    !.exhausted = FALSE, !.reopened = TRUE]]
  /\ reopens' = reopens + 1
  /\ Elsewhere /\ UNCHANGED todo

-----------------------------------------------------------------------------
(* RETENTION: sweep_run_traces *)

Expire(r) ==
  /\ Is(r, Terminal) /\ ~runs[r].aged
  /\ runs' = [runs EXCEPT ![r].aged = TRUE]
  /\ Elsewhere /\ UNCHANGED <<todo, reopens>>

(* Mutant: a run that waits for its user is swept like a finished one.     *)
Sweepable_Waiting(r) ==
  \/ runs[r].status = "awaiting_input"
  \/ runs[r].aged /\ Is(r, Terminal) /\ ~runs[r].pruned
Sweepable(r) == runs[r].aged /\ Is(r, Terminal) /\ ~runs[r].pruned

(* One transaction under a lock nobody waits for.                          *)
Sweep(batch) ==
  /\ todo = {} /\ batch # {} /\ \A r \in batch : Sweepable(r)
  /\ runs' = [r \in RunId |-> IF r \in batch
                              THEN [runs[r] EXCEPT !.traces = FALSE, !.pruned = TRUE]
                              ELSE runs[r]]
  /\ todo' = batch
  /\ Elsewhere /\ UNCHANGED reopens

(* adelete_thread, one run after the other, with no look at the row.       *)
SweepThread(r) ==
  /\ r \in todo /\ todo' = todo \ {r}
  /\ runs' = [runs EXCEPT ![r].thread = FALSE]
  /\ Elsewhere /\ UNCHANGED reopens

SweeperDies ==
  /\ todo # {} /\ todo' = {}
  /\ Elsewhere /\ UNCHANGED <<runs, reopens>>

-----------------------------------------------------------------------------
Next ==
  \/ \E h \in Handler :
       CreateStep(h) \/ CreateFails(h)
       \/ \E u \in User, key \in RequestKey \cup {NoKey} : Create(h, u, key)
  \/ \E r \in RunId :
       \/ \E to \in Terminal \cup Outstanding : Move(r, to)
       \/ Exhaust(r) \/ Answer(r) \/ Reopen(r) \/ Expire(r) \/ SweepThread(r)
  \/ \E batch \in SUBSET RunId : Sweep(batch)
  \/ SweeperDies

Spec == Init /\ [][Next]_vars

-----------------------------------------------------------------------------
(* PROPERTIES *)

(* Types of the variables.                                                 *)
TypeOK ==
  /\ pc \in [Handler -> Pc]
  /\ req \in [Handler -> [user : User, key : RequestKey \cup {NoKey}]]
  /\ runs \in [RunId -> Row] /\ lock \in Handler \cup {NoHandler}
  /\ todo \subseteq RunId /\ reopens \in 0 .. Reopens

(* However many API processes admit at once, a user has at most MaxPerUser *)
(* unfinished runs, those the operator brought back aside, and the queue   *)
(* holds at most MaxQueued, beside those that came back with an answer,    *)
(* which no quota holds up (counts and insert of RunAdmission.create under *)
(* one lock, while all the other writers ignore it).                       *)
Unfinished(u) == {r \in RunId : Is(r, Outstanding) /\ runs[r].user = u /\ ~runs[r].reopened}
Waiting == {r \in RunId : Is(r, {"queued"}) /\ ~runs[r].answered}

QuotasKept ==
  /\ \A u \in User : Cardinality(Unfinished(u)) <= MaxPerUser
  /\ Cardinality(Waiting) <= MaxQueued

(* A request that is sent twice, or repeated while its run is reopened,    *)
(* has one unfinished run (uq_runs_request_active).                        *)
OneRunPerRequest ==
  \A u \in User, key \in RequestKey : Cardinality(Active(u, key)) <= 1

(* A run that waits for its user keeps the checkpoint without which the    *)
(* answer would be refused, unless it was reopened under the sweep.        *)
AnswerableKeepsThread ==
  \A r \in RunId : Is(r, {"awaiting_input"}) => runs[r].thread \/ runs[r].reopened

=============================================================================
