------------------------------- MODULE RunRow -------------------------------
(***************************************************************************)
(* The `runs` table: one row per research run, and the conditional writes  *)
(* (UPDATE ... WHERE) through which RunStore, RunExecutor and RunManager   *)
(* change it.  Every write is one SQL transaction, hence one step.  The    *)
(* columns kept are those the conditions read.                             *)
(***************************************************************************)
EXTENDS Naturals

CONSTANTS Runs,      \* run ids
          Workers,   \* worker processes, the values of lease_owner
          Nobody     \* NULL in lease_owner

ASSUME NobodyIsNoWorker == Nobody \notin Workers

VARIABLES status,     \* Run.status; "absent" before the INSERT
          owner,      \* Run.lease_owner
          fence,      \* Run.fence_token
          cancelReq,  \* Run.cancellation_requested_at is not NULL
          payload,    \* Run.resume_payload is not NULL
          reason      \* Run.terminal_reason

rowVars == <<status, owner, fence, cancelReq, payload, reason>>

Terminal    == {"completed", "failed", "cancelled"}
Outstanding == {"queued", "running", "awaiting_input", "interrupted"}
Exhausted   == "dispatch_attempts_exhausted"
Reasons     == {"none", "engine", "user_cancelled", "server_shutdown", Exhausted}

RowTypeOK ==
  /\ status    \in [Runs -> {"absent"} \cup Outstanding \cup Terminal]
  /\ owner     \in [Runs -> Workers \cup {Nobody}]
  /\ fence     \in [Runs -> Nat]
  /\ cancelReq \in [Runs -> BOOLEAN]
  /\ payload   \in [Runs -> BOOLEAN]
  /\ reason    \in [Runs -> Reasons]

RowInit ==
  /\ status    = [r \in Runs |-> "absent"]
  /\ owner     = [r \in Runs |-> Nobody]
  /\ fence     = [r \in Runs |-> 0]
  /\ cancelReq = [r \in Runs |-> FALSE]
  /\ payload   = [r \in Runs |-> FALSE]
  /\ reason    = [r \in Runs |-> "none"]

-----------------------------------------------------------------------------
(* The sources of the named transitions. *)
Startable     == {"queued", "interrupted"}
Takeover      == {"running"}
CancelPending == {"queued", "awaiting_input", "interrupted"}
CancelRunning == {"running"}
Exhaustible   == {"queued", "interrupted", "running"}

(* Mutant: the predicate of a write forgets the fence token.               *)
Owned_NoFence(r, w, f) == status[r] = "running" /\ owner[r] = w

(* The predicate of every write an executor makes for itself. *)
Owned(r, w, f) == status[r] = "running" /\ owner[r] = w /\ fence[r] = f

Claimable(r)     == ~cancelReq[r] /\ status[r] \in Startable \cup Takeover
CancelSettles(r) == cancelReq[r] /\ status[r] \in CancelPending \cup CancelRunning
(* Mutant: dead-lettering does not exclude a row with a cancellation.      *)
ExhaustHits_NoCancelCheck(r) == status[r] \in Exhaustible

ExhaustHits(r)   == ~cancelReq[r] /\ status[r] \in Exhaustible
Reopenable(r)    == status[r] = "failed" /\ reason[r] = Exhausted
Answerable(r)    == status[r] = "awaiting_input" /\ ~payload[r]

(* A claim counts as a resume unless the row was queued without an answer. *)
ResumesOnClaim(r) == status[r] # "queued" \/ payload[r]

-----------------------------------------------------------------------------
(* The writes.  Terminal statuses drop the owner and the pending answer.   *)
Insert(r) ==
  /\ status[r] = "absent"
  /\ status' = [status EXCEPT ![r] = "queued"]
  /\ UNCHANGED <<owner, fence, cancelReq, payload, reason>>

(* Mutant: adopting a row does not renew its token.                        *)
Claim_SameToken(r, w) ==
  /\ Claimable(r)
  /\ status' = [status EXCEPT ![r] = "running"]
  /\ owner'  = [owner EXCEPT ![r] = w]
  /\ UNCHANGED <<fence, cancelReq, payload, reason>>

Claim(r, w) ==
  /\ Claimable(r)
  /\ status' = [status EXCEPT ![r] = "running"]
  /\ owner'  = [owner EXCEPT ![r] = w]
  /\ fence'  = [fence EXCEPT ![r] = @ + 1]
  /\ UNCHANGED <<cancelReq, payload, reason>>

WriteTerminal(r, s, why) ==
  /\ status'  = [status EXCEPT ![r] = s]
  /\ owner'   = [owner EXCEPT ![r] = Nobody]
  /\ payload' = [payload EXCEPT ![r] = FALSE]
  /\ reason'  = [reason EXCEPT ![r] = why]
  /\ UNCHANGED <<fence, cancelReq>>

Persist(r, w, f, s, why) == Owned(r, w, f) /\ WriteTerminal(r, s, why)

PersistAwaiting(r, w, f) ==
  /\ Owned(r, w, f)
  /\ status'  = [status EXCEPT ![r] = "awaiting_input"]
  /\ owner'   = [owner EXCEPT ![r] = Nobody]
  /\ payload' = [payload EXCEPT ![r] = FALSE]
  /\ reason'  = [reason EXCEPT ![r] = "none"]
  /\ UNCHANGED <<fence, cancelReq>>

ReleaseRow(r, w, f) ==
  /\ Owned(r, w, f)
  /\ status' = [status EXCEPT ![r] = "interrupted"]
  /\ owner'  = [owner EXCEPT ![r] = Nobody]
  /\ reason' = [reason EXCEPT ![r] = "server_shutdown"]
  /\ UNCHANGED <<fence, cancelReq, payload>>

SettleCancelled(r) ==
  CancelSettles(r) /\ WriteTerminal(r, "cancelled", "user_cancelled")

SettleExhausted(r) == ExhaustHits(r) /\ WriteTerminal(r, "failed", Exhausted)

Reopen(r) ==
  /\ Reopenable(r)
  /\ status' = [status EXCEPT ![r] = "interrupted"]
  /\ owner'  = [owner EXCEPT ![r] = Nobody]
  /\ fence'  = [fence EXCEPT ![r] = @ + 1]
  /\ reason' = [reason EXCEPT ![r] = "none"]
  /\ UNCHANGED <<cancelReq, payload>>

Answer(r) ==
  /\ Answerable(r)
  /\ status'  = [status EXCEPT ![r] = "queued"]
  /\ payload' = [payload EXCEPT ![r] = TRUE]
  /\ UNCHANGED <<owner, fence, cancelReq, reason>>

(* RunManager.cancel: one transaction under a row lock.  Nobody executes a *)
(* pending row, so it is settled at once; a running one is only flagged.   *)
RequestCancel(r) ==
  /\ status[r] \in Outstanding
  /\ cancelReq' = [cancelReq EXCEPT ![r] = TRUE]
  /\ \/ /\ status[r] \in CancelPending
        /\ status'  = [status EXCEPT ![r] = "cancelled"]
        /\ owner'   = [owner EXCEPT ![r] = Nobody]
        /\ payload' = [payload EXCEPT ![r] = FALSE]
        /\ reason'  = [reason EXCEPT ![r] = "user_cancelled"]
     \/ /\ status[r] \notin CancelPending
        /\ UNCHANGED <<status, owner, payload, reason>>
  /\ UNCHANGED fence
-----------------------------------------------------------------------------
(* Any sequence of these writes, by any worker with any fence token: what  *)
(* the row goes through whatever the processes around it do.               *)
RowWrite(r) ==
  \/ Insert(r) \/ Answer(r) \/ Reopen(r) \/ RequestCancel(r)
  \/ SettleCancelled(r) \/ SettleExhausted(r)
  \/ \E w \in Workers :
       \/ Claim(r, w)
       \/ \E f \in Nat : \/ PersistAwaiting(r, w, f) \/ ReleaseRow(r, w, f)
                         \/ \E s \in Terminal, why \in {"engine", "user_cancelled"} :
                              Persist(r, w, f, s, why)

RowSpec == RowInit /\ [][\E r \in Runs : RowWrite(r)]_rowVars

(* lease_owner is set exactly while the row is running, and an unconsumed  *)
(* answer exists only between answer_resume and the end of the execution   *)
(* it feeds (side_effects, acquire, _write_terminal): no path of several   *)
(* writers leaves an owner or an answer behind.                            *)
RowShape ==
  \A r \in Runs :
    /\ status[r] = "running" <=> owner[r] # Nobody
    /\ payload[r] => status[r] \in {"queued", "running", "interrupted"}

(* A terminal status is final, against every late writer (zombies, stale   *)
(* deliveries, late cancellations, answers), except that a dead-lettered   *)
(* run can be reopened.                                                    *)
TerminalStep ==
  \A r \in Runs : status[r] \in Terminal =>
    \/ status'[r] = status[r] /\ reason'[r] = reason[r]
    \/ Reopenable(r) /\ status'[r] = "interrupted"
TerminalIsFinal == [][TerminalStep]_rowVars
=============================================================================
