------------------------------ MODULE EventLog ------------------------------
(***************************************************************************)
(* The stored event stream of one run (RunEventStore): coroutines of       *)
(* several processes append batches, each in a transaction that drops the  *)
(* frames whose key is stored already, takes numbers from Run.event_seq    *)
(* and inserts the rows.  Readers only ever ask for rows beyond a number.  *)
(***************************************************************************)
EXTENDS Naturals, Sequences, SequencesExt

CONSTANTS Procs,       \* processes: the API and the workers
          Keys,        \* dedup keys of the frames a graph emits; NoKey may be one
          Budget       \* frames written and faults, in all (bound of the model)

ASSUME BudgetAssumption == Budget \in Nat \ {0}

NoKey   == "none"
DoneKey == "terminal"
Lanes   == {"main", "side"}    \* the coroutines of a process that may flush
Writers == Procs \X Lanes
Free    == <<>>                \* nobody holds the lock on the row

(* The keys of a graph name an event type and an object (dedup.py:96).     *)
ASSUME KeysAssumption == DoneKey \notin Keys

(* A frame: its producer, its number among the producer's frames, its      *)
(* dedup key, and the status it announces if it is a done frame.           *)
Frame == [by : Procs, n : Nat, key : Keys \cup {NoKey, DoneKey},
          says : {"none", "completed", "failed", "cancelled"}]

VARIABLES
  log,       \* run_events of the run: a set of numbered frames
  eventSeq,  \* Run.event_seq as the next transaction that locks the row sees it
  lock,      \* whose transaction holds the row lock on the run
  batch,     \* the records a writer's append was given
  todo,      \* to_insert: those of them it did not find stored
  first,     \* first_seq
  step,      \* where the writer's append is
  retried    \* append has already had one IntegrityError

storeVars == <<log, eventSeq, lock>>
txVars    == <<batch, todo, first, step, retried>>
logVars   == <<storeVars, txVars>>

InTx == {"checking", "checked", "numbered"}

LogTypeOK ==
  /\ log      \in SUBSET [seq : Nat, frame : Frame]
  /\ eventSeq \in Nat
  /\ lock     \in Writers \cup {Free}
  /\ batch    \in [Writers -> Seq(Frame)]
  /\ todo     \in [Writers -> Seq(Frame)]
  /\ first    \in [Writers -> Nat]
  /\ step     \in [Writers -> {"idle"} \cup InTx]
  /\ retried  \in [Writers -> BOOLEAN]

LogInit ==
  /\ log = {} /\ eventSeq = 0 /\ lock = Free
  /\ batch   = [c \in Writers |-> <<>>]
  /\ todo    = [c \in Writers |-> <<>>]
  /\ first   = [c \in Writers |-> 0]
  /\ step    = [c \in Writers |-> "idle"]
  /\ retried = [c \in Writers |-> FALSE]

-----------------------------------------------------------------------------
StoredKeys == {e.frame.key : e \in log} \ {NoKey}

(* The elements of s at the positions in I, in their order.                *)
Kept(s, I) ==
  [k \in 1..Cardinality(I) |-> s[CHOOSE i \in I : Cardinality({j \in I : j <= i}) = k]]

(* _dedup_within_batch: of the frames with one key, the first stays.       *)
FirstPerKey(s) ==
  {i \in 1..Len(s) : s[i].key = NoKey \/ \A j \in 1..(i-1) : s[j].key # s[i].key}

Rows(c)    == {[seq |-> first[c] + i - 1, frame |-> todo[c][i]] : i \in 1..Len(todo[c])}
Clashes(c) == \E i \in 1..Len(todo[c]) : todo[c][i].key \in StoredKeys

Goes(c, s) == step' = [step EXCEPT ![c] = s]

(* append returns or raises in the coroutines of C.                        *)
Leave(C) ==
  /\ step'  = [c \in Writers |-> IF c \in C THEN "idle" ELSE step[c]]
  /\ batch' = [c \in Writers |-> IF c \in C THEN <<>> ELSE batch[c]]
  /\ todo'  = [c \in Writers |-> IF c \in C THEN <<>> ELSE todo[c]]
  /\ first' = [c \in Writers |-> IF c \in C THEN 0 ELSE first[c]]
  /\ retried' = [c \in Writers |-> IF c \in C THEN FALSE ELSE retried[c]]

New(records) ==
  Kept(records, {i \in FirstPerKey(records) : records[i].key \notin StoredKeys})

(* append is called: _drop_already_stored is a plain read, it locks        *)
(* nothing.  If every record is stored already, append returns at once.    *)
BeginAppend(c, records) ==
  /\ step[c] = "idle"
  /\ IF New(records) = <<>> THEN UNCHANGED txVars
     ELSE /\ Goes(c, "checked")
          /\ batch' = [batch EXCEPT ![c] = records]
          /\ todo'  = [todo EXCEPT ![c] = New(records)]
          /\ UNCHANGED <<first, retried>>
  /\ UNCHANGED storeVars

(* The same read of the second attempt.                                    *)
DropStored(c) ==
  /\ step[c] = "checking"
  /\ IF New(batch[c]) = <<>> THEN Leave({c})
     ELSE /\ Goes(c, "checked")
          /\ todo' = [todo EXCEPT ![c] = New(batch[c])]
          /\ UNCHANGED <<batch, first, retried>>
  /\ UNCHANGED storeVars

(* Mutant: numbers are taken for the frames that are then left out, too.   *)
Number_WholeBatch(c) ==
  /\ step[c] = "checked" /\ lock = Free
  /\ lock' = c
  /\ eventSeq' = eventSeq + Len(batch[c])
  /\ first' = [first EXCEPT ![c] = eventSeq + 1]
  /\ Goes(c, "numbered")
  /\ UNCHANGED <<log, batch, todo, retried>>

(* UPDATE runs SET event_seq = event_seq + n: the row stays locked until   *)
(* the transaction ends, so nobody else takes numbers meanwhile.           *)
Number(c) ==
  /\ step[c] = "checked" /\ lock = Free
  /\ lock' = c
  /\ eventSeq' = eventSeq + Len(todo[c])
  /\ first' = [first EXCEPT ![c] = eventSeq + 1]
  /\ Goes(c, "numbered")
  /\ UNCHANGED <<log, batch, todo, retried>>

Rollback(C) ==
  /\ lock' = IF lock \in C THEN Free ELSE lock
  /\ eventSeq' = IF lock \in C THEN first[lock] - 1 ELSE eventSeq
  /\ UNCHANGED log

(* Mutant: run_events has no unique constraint on the dedup key.           *)
Commits_NotUnique(c) ==
  /\ step[c] = "numbered"
  /\ log' = log \cup Rows(c)
  /\ lock' = Free
  /\ UNCHANGED eventSeq

(* The rows become visible; a key stored meanwhile makes the commit fail.  *)
Commits(c) ==
  /\ step[c] = "numbered" /\ ~Clashes(c)
  /\ log' = log \cup Rows(c)
  /\ lock' = Free
  /\ UNCHANGED eventSeq

Commit(c) == Commits(c) /\ Leave({c})

(* IntegrityError: the transaction is rolled back and run once more.       *)
Clash(c) ==
  /\ step[c] = "numbered" /\ Clashes(c) /\ ~retried[c]
  /\ Rollback({c})
  /\ Goes(c, "checking")
  /\ retried' = [retried EXCEPT ![c] = TRUE]
  /\ UNCHANGED <<batch, todo, first>>

(* append raises: before the commit (a second IntegrityError included), or *)
(* after it, when only its answer is lost.                                 *)
AppendRaises(c) ==
  /\ step[c] \in InTx
  /\ Rollback({c}) \/ Commits(c)
  /\ Leave({c})

(* The coroutines in C are gone; the database rolls their work back.       *)
Abandon(C) == Rollback(C) /\ Leave(C)

StoreStep(c) == DropStored(c) \/ Number(c) \/ Commit(c) \/ Clash(c)

-----------------------------------------------------------------------------
(* A frame that carries a dedup key is stored once, whichever processes    *)
(* produce it, replay it or write it again after an unseen commit          *)
(* (uq_run_events_dedup with the retry in append); so there is one done.   *)
OncePerKey ==
  \A d, e \in log : d.frame.key = e.frame.key /\ d.frame.key # NoKey => d = e

(* Deduplication, failed transactions and concurrent writers leave no hole *)
(* in the numbers ("seq 只为实际写入的条数分配，去重不留下空洞").          *)
SeqDense == lock = Free => {e.seq : e \in log} = 1..eventSeq
=============================================================================
