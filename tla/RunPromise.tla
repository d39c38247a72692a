----------------------------- MODULE RunPromise -----------------------------
(***************************************************************************)
(* What the service promises the user about a run, whatever its delivery,  *)
(* its workers and their failures do: an accepted run is worked on, may    *)
(* ask a question, ends once, ends as cancelled only if the user asked for *)
(* it, and is never given up for dead after the user asked to cancel it.   *)
(***************************************************************************)
CONSTANT Runs

VARIABLES phase,   \* what the run is to the user
          wanted   \* the user has asked to cancel it

promiseVars == <<phase, wanted>>

Open  == {"working", "waiting"}
Ended == {"completed", "failed", "cancelled", "deadletter"}

Init == /\ phase  = [r \in Runs |-> "none"]
        /\ wanted = [r \in Runs |-> FALSE]

Moves(r, from, to) ==
  /\ phase[r] \in from
  /\ phase' = [phase EXCEPT ![r] = to]

Create(r)   == Moves(r, {"none"}, "working") /\ UNCHANGED wanted
Conclude(r) == \E e \in {"completed", "failed"} :
                 Moves(r, {"working"}, e) /\ UNCHANGED wanted
Ask(r)      == Moves(r, {"working"}, "waiting") /\ UNCHANGED wanted
Answered(r) == Moves(r, {"waiting"}, "working") /\ UNCHANGED wanted

(* The request may end the run at once or later, when a worker sees it.    *)
Request(r) ==
  /\ phase[r] \in Open
  /\ wanted' = [wanted EXCEPT ![r] = TRUE]
  /\ UNCHANGED phase \/ Moves(r, Open, "cancelled")
Cancel(r) == wanted[r] /\ Moves(r, Open, "cancelled") /\ UNCHANGED wanted

GiveUp(r) == ~wanted[r] /\ Moves(r, {"working"}, "deadletter") /\ UNCHANGED wanted
Revive(r) == Moves(r, {"deadletter"}, "working") /\ UNCHANGED wanted

Next == \E r \in Runs :
  \/ Create(r) \/ Conclude(r) \/ Ask(r) \/ Answered(r)
  \/ Request(r) \/ Cancel(r) \/ GiveUp(r) \/ Revive(r)

Spec == Init /\ [][Next]_promiseVars
=============================================================================
