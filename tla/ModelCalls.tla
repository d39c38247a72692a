----------------------------- MODULE ModelCalls -----------------------------
(***************************************************************************)
(* The way of a model call through one worker: the budget of its run       *)
(* (UsageStore.enforce_budget), the sliding window of the provider         *)
(* (ProviderRateLimiter), the gate of concurrent calls (CapacityGate), the *)
(* call itself, the record of its usage and the retries of the agent.      *)
(*                                                                         *)
(* A caller is a coroutine of some run that makes one call after another.  *)
(* Time is kept as ages: the window knows how many ticks ago a call was    *)
(* admitted, a sleeper how many ticks it has left.                         *)
(***************************************************************************)
EXTENDS Integers, FiniteSets, FiniteSetsExt, SequencesExt

CONSTANTS
  Caller, Run,
  RunOf,        \* the run a caller works for
  Slots,        \* max_concurrent_requests
  Rpm, Tpm,     \* requests and tokens per window
  Window,       \* window_seconds
  Budget,       \* max_tokens_per_run
  Retries,      \* max_retries of ModelRetryMiddleware
  Estimates,    \* bound: what a call may be estimated to need
  PerCall,      \* bound: the most tokens one call uses
  MaxCalls,     \* bound: calls a caller makes
  MaxFaults,    \* bound: failures of the database
  MaxCancels    \* bound: cancelled callers

ASSUME CallsAssumption ==
  /\ IsFiniteSet(Caller) /\ RunOf \in [Caller -> Run]
  /\ {Slots, Rpm, Tpm, Window, Budget, PerCall} \subseteq Nat \ {0}
  /\ {Retries, MaxCalls, MaxFaults, MaxCancels} \subseteq Nat
  /\ Estimates \subseteq Nat \ {0}

VARIABLES
  pc,        \* where a caller is
  need,      \* estimated_tokens of its call
  used,      \* the tokens its finished call has used
  verdict,   \* how its call went
  tries,     \* failures of this turn so far
  made,      \* turns taken
  sleep,     \* ticks until it asks the window again
  log,       \* _requests and _tokens: the calls admitted, oldest first
  free,      \* the semaphore of the gate
  active,    \* CapacityGate._active
  spent,     \* input_tokens + output_tokens of a run's row
  blind,     \* history: calls of a run admitted without a check
  leaked,    \* history: calls that were cancelled unseen
  faults, cancels

callVars  == <<need, used, verdict, tries, made, sleep>>
gateVars  == <<free, active>>
boundVars == <<faults, cancels>>
vars == <<pc, callVars, log, gateVars, spent, blind, leaked, boundVars>>

Entry == [age : Nat, tokens : Nat]
Pc    == {"idle", "start", "window", "gate", "calling", "ending", "off"}

Init ==
  /\ pc = [c \in Caller |-> "idle"]
  /\ need = [c \in Caller |-> 0] /\ used = [c \in Caller |-> 0]
  /\ verdict = [c \in Caller |-> "ok"]
  /\ tries = [c \in Caller |-> 0] /\ made = [c \in Caller |-> 0]
  /\ sleep = [c \in Caller |-> 0]
  /\ log = <<>> /\ free = Slots /\ active = 0
  /\ spent = [r \in Run |-> 0] /\ blind = [r \in Run |-> 0]
  /\ leaked = 0 /\ faults = 0 /\ cancels = 0

Goto(c, to) == pc' = [pc EXCEPT ![c] = to]
Fault == faults < MaxFaults /\ faults' = faults + 1

-----------------------------------------------------------------------------
(* BUDGET *)

(* enforce_budget.  Mutant: one call more than the budget allows.          *)
InBudget_OneMore(r) == spent[r] <= Budget
InBudget(r) == spent[r] < Budget

(* enforce_usage_budget, before a turn of an agent and before every call   *)
(* of ainvoke_text and ainvoke_structured: whatever it raises, a failing   *)
(* database included, ends the caller.                                     *)
Ask(c) ==
  /\ pc[c] = "idle" /\ made[c] < MaxCalls
  /\ made' = [made EXCEPT ![c] = @ + 1] /\ tries' = [tries EXCEPT ![c] = 0]
  /\ Goto(c, IF InBudget(RunOf[c]) THEN "start" ELSE "off")
  /\ UNCHANGED <<need, used, verdict, sleep, log, gateVars, spent, blind, leaked, boundVars>>

AskFails(c) ==
  /\ pc[c] = "idle" /\ made[c] < MaxCalls /\ Fault
  /\ Goto(c, "off")
  /\ UNCHANGED <<callVars, log, gateVars, spent, blind, leaked, cancels>>

(* on_chat_model_start looks once more, for every try.  A database that    *)
(* does not answer lets the call pass.                                     *)
Start(c, tokens) ==
  /\ pc[c] = "start"
  /\ need' = [need EXCEPT ![c] = tokens]
  /\ \/ /\ Goto(c, IF InBudget(RunOf[c]) THEN "window" ELSE "off")
        /\ UNCHANGED <<faults, blind>>
     \/ /\ Fault /\ Goto(c, "window")
        /\ blind' = [blind EXCEPT ![RunOf[c]] = @ + 1]
  /\ UNCHANGED <<used, verdict, tries, made, sleep, log, gateVars, spent, leaked, cancels>>

-----------------------------------------------------------------------------
(* THE WINDOW OF THE PROVIDER *)

(* The calls at the head of a log that have left the window, and what the  *)
(* window still counts.                                                    *)
Gone(entries) == Max({n \in 0 .. Len(entries) : \A i \in 1 .. n : entries[i].age >= Window})
Prune(entries) == SubSeq(entries, Gone(entries) + 1, Len(entries))
Live == Prune(log)

Smaller(a, b) == IF a < b THEN a ELSE b
Reserved(entries) ==
  LET sum[n \in 0 .. Len(entries)] == IF n = 0 THEN 0 ELSE sum[n - 1] + entries[n].tokens
  IN  sum[Len(entries)]

(* A call larger than the window takes the whole of it.                    *)
Reservation(c) == Smaller(need[c], Tpm)

Room(c) == Len(Live) < Rpm /\ Reserved(Live) + Reservation(c) <= Tpm

(* The earliest time at which something that is missing may come back:     *)
(* both queues begin with the same call.  Mutant: the latest.              *)
Delay_Latest == Window - Last(Live).age
Delay == IF Live = <<>> THEN 1 ELSE Window - Head(Live).age

Admit(c) ==
  /\ pc[c] = "window" /\ sleep[c] = 0
  /\ Room(c)
  /\ log' = Append(Live, [age |-> 0, tokens |-> Reservation(c)])
  /\ Goto(c, "gate")
  /\ UNCHANGED <<callVars, gateVars, spent, blind, leaked, boundVars>>

(* It drops what has left the window, sleeps outside of the lock and looks *)
(* again.                                                                  *)
Doze(c) ==
  /\ pc[c] = "window" /\ sleep[c] = 0
  /\ ~Room(c)
  /\ sleep' = [sleep EXCEPT ![c] = Delay] /\ log' = Live
  /\ UNCHANGED <<pc, need, used, verdict, tries, made, gateVars, spent, blind, leaked,
                 boundVars>>

(* The clock.  What has left the window grows no older.                    *)
Tick ==
  /\ log' = [i \in DOMAIN log |-> [log[i] EXCEPT !.age = Smaller(@ + 1, Window)]]
  /\ sleep' = [c \in Caller |-> IF sleep[c] = 0 THEN 0 ELSE sleep[c] - 1]
  /\ UNCHANGED <<pc, need, used, verdict, tries, made, gateVars, spent, blind, leaked, boundVars>>

-----------------------------------------------------------------------------
(* THE GATE AND THE CALL *)

Enter(c) ==
  /\ pc[c] = "gate" /\ free > 0
  /\ free' = free - 1 /\ active' = active + 1
  /\ Goto(c, "calling") /\ need' = [need EXCEPT ![c] = Smaller(@, PerCall)]
  /\ UNCHANGED <<used, verdict, tries, made, sleep, log, spent, blind, leaked, boundVars>>

(* The provider answers, fails, or refuses in a way that is not retried.   *)
Answered(c, tokens, how) ==
  /\ pc[c] = "calling"
  /\ used' = [used EXCEPT ![c] = tokens] /\ verdict' = [verdict EXCEPT ![c] = how]
  /\ Goto(c, "ending")
  /\ UNCHANGED <<need, tries, made, sleep, log, gateVars, spent, blind, leaked, boundVars>>

(* CapacityGate.release.                                                   *)
Release == free' = free + 1 /\ active' = (IF active > 0 THEN active - 1 ELSE 0)

(* Mutant: the slot comes back only if the usage was written.              *)
GiveBack_IfRecorded(recorded) == IF recorded THEN Release ELSE UNCHANGED gateVars
GiveBack(recorded) == Release

(* What the caller does next: a failure is tried again until the retries   *)
(* are used up, then the agent is told and goes on.                        *)
After(c) ==
  CASE verdict[c] = "ok"        -> "idle"
    [] verdict[c] = "transient" -> IF tries[c] < Retries THEN "start" ELSE "idle"
    [] OTHER                    -> "off"

(* on_llm_end and on_llm_error: the record may fail, the slot comes back.  *)
(* What is known of the call is forgotten.                                 *)
Forget(c) == /\ need' = [need EXCEPT ![c] = 0] /\ used' = [used EXCEPT ![c] = 0]
             /\ verdict' = [verdict EXCEPT ![c] = "ok"]

(* One row of usage more, and the totals of the run with it.               *)
Spend(c) == spent' = [spent EXCEPT ![RunOf[c]] = @ + used[c]]

Record(c) ==
  /\ pc[c] = "ending"
  /\ \/ /\ Spend(c)
        /\ GiveBack(TRUE) /\ UNCHANGED faults
     \/ Fault /\ GiveBack(FALSE) /\ UNCHANGED spent
  /\ tries' = [tries EXCEPT ![c] = IF After(c) = "start" THEN @ + 1 ELSE 0]
  /\ Goto(c, After(c)) /\ Forget(c)
  /\ UNCHANGED <<made, sleep, log, blind, leaked, cancels>>

-----------------------------------------------------------------------------
(* CANCELLATION *)

Cancels(c) == cancels < MaxCancels /\ cancels' = cancels + 1

(* While it waits: nothing is held but the place in the window.  While it  *)
(* records: the slot comes back in the finally block.                      *)
CancelWaiting(c) ==
  /\ pc[c] \in {"start", "window", "gate"} /\ Cancels(c)
  /\ Goto(c, "off") /\ Forget(c)
  /\ tries' = [tries EXCEPT ![c] = 0] /\ sleep' = [sleep EXCEPT ![c] = 0]
  /\ UNCHANGED <<made, log, gateVars, spent, blind, leaked, faults>>

CancelRecording(c) ==
  /\ pc[c] = "ending" /\ Cancels(c)
  /\ GiveBack(FALSE)
  /\ Goto(c, "off") /\ Forget(c) /\ tries' = [tries EXCEPT ![c] = 0]
  /\ UNCHANGED <<made, sleep, log, spent, blind, leaked, faults>>

(* During the call: the library may report an error to the callback, which *)
(* records it, or end the call without a word.                             *)
CancelCall(c) ==
  /\ pc[c] = "calling" /\ Cancels(c)
  /\ \/ /\ used' = [used EXCEPT ![c] = need[c]]
        /\ verdict' = [verdict EXCEPT ![c] = "cancelled"]
        /\ Goto(c, "ending") /\ UNCHANGED leaked
     \/ leaked' = leaked + 1 /\ Goto(c, "off") /\ UNCHANGED <<used, verdict>>
  /\ UNCHANGED <<need, tries, made, sleep, log, gateVars, spent, blind, faults>>

-----------------------------------------------------------------------------
Step(c) ==
  \/ Ask(c) \/ \E tokens \in Estimates : Start(c, tokens)
  \/ Admit(c) \/ Doze(c) \/ Enter(c)
  \/ \E tokens \in 1 .. PerCall, how \in {"ok", "transient", "fatal"} : Answered(c, tokens, how)
  \/ Record(c)

Next ==
  \/ Tick
  \/ \E c \in Caller :
       Step(c) \/ AskFails(c) \/ CancelWaiting(c) \/ CancelRecording(c) \/ CancelCall(c)

Spec == Init /\ [][Next]_vars

-----------------------------------------------------------------------------
(* PROPERTIES *)

(* Types of the variables.                                                 *)
TypeOK ==
  /\ pc \in [Caller -> Pc]
  /\ need \in [Caller -> Nat] /\ used \in [Caller -> 0 .. PerCall]
  /\ verdict \in [Caller -> {"ok", "transient", "fatal", "cancelled"}]
  /\ tries \in [Caller -> 0 .. Retries] /\ made \in [Caller -> 0 .. MaxCalls]
  /\ sleep \in [Caller -> 0 .. Window]
  /\ log \in Seq(Entry)
  /\ free \in 0 .. Slots /\ active \in Nat
  /\ spent \in [Run -> Nat] /\ blind \in [Run -> Nat]
  /\ leaked \in Nat /\ faults \in 0 .. MaxFaults /\ cancels \in 0 .. MaxCancels

Holds(c) == pc[c] \in {"calling", "ending"}
Passed(c) == pc[c] \in {"window", "gate", "calling", "ending"}
Of(r) == {c \in Caller : RunOf[c] = r}

(* A slot of the gate is free, in use by a call that goes on, or lost with *)
(* a call cancelled unseen: no other way out of a call keeps one, and none *)
(* gives one back twice (usage.py, on_llm_end, on_llm_error, _release).    *)
SlotsAccounted ==
  /\ free + Cardinality({c \in Caller : Holds(c)}) + leaked = Slots
  /\ active = Slots - free

(* Who sleeps would be turned down if it asked now: no one sleeps past     *)
(* room (the deadlines of ProviderRateLimiter.acquire).                    *)
NoOversleep ==
  \A c \in Caller : pc[c] = "window" /\ sleep[c] > 0 => ~Room(c)

(* The budget is checked long before the usage is recorded; yet what a run *)
(* spends beyond it is at most a call for each of its coroutines, and one  *)
(* for each call that passed without a check.                              *)
OvershootBounded ==
  \A r \in Run :
    spent[r] <= Budget - 1 + PerCall * (Cardinality(Of(r)) + blind[r])

=============================================================================
