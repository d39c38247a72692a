-------------------------- MODULE ModelCalls_proofs --------------------------
(***************************************************************************)
(* Slots of the gate are accounted for, and a run overspends by no more    *)
(* than a call for each of its coroutines, for any number of callers,      *)
(* runs, slots, failures and cancellations.  Nobody sleeps past room in    *)
(* the window, whatever it counts.                                         *)
(***************************************************************************)
EXTENDS ModelCalls, FiniteSetTheorems, SequenceTheorems, WellFoundedInduction, TLAPS

Holding == {c \in Caller : Holds(c)}
Passing(r) == {c \in Of(r) : Passed(c)}

(* The types of what is counted, and the size of a call under way.         *)
Sizes ==
  /\ pc \in [Caller -> Pc] /\ need \in [Caller -> Nat] /\ used \in [Caller -> 0 .. PerCall]
  /\ spent \in [Run -> Nat] /\ blind \in [Run -> Nat]
  /\ free \in Nat /\ active \in Nat /\ leaked \in Nat
  /\ \A c \in Caller : Holds(c) => need[c] <= PerCall

(* What a run has spent and what its calls under way may still cost.       *)
Promised ==
  \A r \in Run :
    spent[r] + PerCall * Cardinality(Passing(r))
      <= Budget - 1 + PerCall * (Cardinality(Of(r)) + blind[r])

Inv == Sizes /\ SlotsAccounted /\ Promised

-----------------------------------------------------------------------------
(* COUNTING CALLERS *)

LEMMA SetsOfCallers ==
  ASSUME NEW S \in SUBSET Caller, NEW c \in Caller
  PROVE  /\ IsFiniteSet(S) /\ Cardinality(S) \in Nat
         /\ c \notin S => Cardinality(S \cup {c}) = Cardinality(S) + 1
         /\ c \in S => Cardinality(S \ {c}) = Cardinality(S) - 1
         /\ c \in S => Cardinality(S) > 0
<1>1. IsFiniteSet(S)
  BY FS_Subset, CallsAssumption
<1>2. Cardinality(S) \in Nat
  BY <1>1, FS_CardinalityType
<1>3. ASSUME c \notin S PROVE Cardinality(S \cup {c}) = Cardinality(S) + 1
  BY <1>1, <1>3, FS_AddElement, Zenon
<1>4. ASSUME c \in S PROVE Cardinality(S \ {c}) = Cardinality(S) - 1
  BY <1>1, <1>4, FS_RemoveElement, Zenon
<1>5. ASSUME c \in S PROVE Cardinality(S) > 0
  <2>1. IsFiniteSet(S \ {c}) /\ Cardinality(S \ {c}) \in Nat
    BY <1>1, FS_Subset, FS_CardinalityType
  <2> QED
    BY <1>2, <1>4, <1>5, <2>1
<1> QED
  BY <1>1, <1>2, <1>3, <1>4, <1>5

LEMMA SomeCallers ==
  ASSUME NEW r \in Run
  PROVE  /\ Cardinality(Passing(r)) \in Nat /\ Cardinality(Of(r)) \in Nat
         /\ Cardinality(Passing(r)) <= Cardinality(Of(r))
<1>1. Of(r) \subseteq Caller /\ Passing(r) \subseteq Of(r)
  BY DEF Of, Passing
<1>2. IsFiniteSet(Of(r))
  BY <1>1, FS_Subset, CallsAssumption
<1> QED
  BY <1>1, <1>2, FS_Subset, FS_CardinalityType

LEMMA Costs ==
  ASSUME NEW k \in Nat, NEW m \in Nat, NEW n \in Nat
  PROVE  /\ k * m \in Nat /\ k * (m + 1) = k * m + k
         /\ m <= n => k * m <= k * n
         /\ k * (m + n) = k * m + k * n
OBVIOUS

-----------------------------------------------------------------------------
(* TYPES AND SIZES *)

LEMMA SizesStep == Sizes /\ [Next]_vars => Sizes'
<1> SUFFICES ASSUME Sizes, [Next]_vars PROVE Sizes'
  OBVIOUS
<1> USE CallsAssumption DEF Sizes, Goto, Holds
<1>1. {"idle", "start", "window", "gate", "calling", "ending", "off"} \subseteq Pc
  BY DEF Pc
<1>2. \A c \in Caller : After(c) \in {"idle", "start", "off"}
  BY DEF After
<1>3. CASE UNCHANGED vars
  BY <1>3 DEF vars, callVars, gateVars
<1>4. CASE Tick
  BY <1>4 DEF Tick, gateVars
<1>5. ASSUME NEW c \in Caller, Ask(c) \/ AskFails(c) \/ Admit(c) \/ Doze(c) PROVE Sizes'
  BY <1>1, <1>5 DEF Ask, AskFails, Admit, Doze, callVars, gateVars
<1>6. ASSUME NEW c \in Caller, NEW tokens \in Estimates, Start(c, tokens) PROVE Sizes'
  BY <1>1, <1>6 DEF Start, callVars, gateVars
<1>7. ASSUME NEW c \in Caller, Enter(c) PROVE Sizes'
  BY <1>1, <1>7 DEF Enter, Smaller
<1>8. ASSUME NEW c \in Caller, NEW tokens \in 1 .. PerCall, NEW how \in {"ok", "transient", "fatal"},
             Answered(c, tokens, how)
      PROVE  Sizes'
  BY <1>1, <1>8 DEF Answered, gateVars
<1>9. ASSUME NEW c \in Caller, Record(c) PROVE Sizes'
  <2>1. spent' \in [Run -> Nat] /\ blind' \in [Run -> Nat]
    <3>1. used[c] \in Nat /\ RunOf[c] \in Run
      BY DEF Sizes
    <3>2. CASE Spend(c)
      BY <1>9, <3>1, <3>2 DEF Record, Spend
    <3>3. CASE UNCHANGED spent
      BY <1>9, <3>3 DEF Record
    <3> QED
      BY <1>9, <3>2, <3>3 DEF Record
  <2>2. free' \in Nat /\ active' \in Nat /\ leaked' \in Nat
    BY <1>9 DEF Record, GiveBack, Release
  <2>3. pc' \in [Caller -> Pc] /\ ~Holds(c)'
    BY <1>1, <1>2, <1>9 DEF Record
  <2>4. need' \in [Caller -> Nat] /\ used' \in [Caller -> 0 .. PerCall]
    BY <1>9 DEF Record, Forget
  <2>5. \A d \in Caller \ {c} : pc'[d] = pc[d] /\ need'[d] = need[d]
    BY <1>9 DEF Record, Forget
  <2> QED
    BY <2>1, <2>2, <2>3, <2>4, <2>5
<1>10. ASSUME NEW c \in Caller, CancelWaiting(c) PROVE Sizes'
  BY <1>1, <1>10 DEF CancelWaiting, Forget, gateVars
<1>11. ASSUME NEW c \in Caller, CancelRecording(c) PROVE Sizes'
  BY <1>1, <1>11 DEF CancelRecording, Forget, GiveBack, Release
<1>12. ASSUME NEW c \in Caller, CancelCall(c) PROVE Sizes'
  BY <1>1, <1>12 DEF CancelCall, gateVars
<1> QED
  BY <1>3, <1>4, <1>5, <1>6, <1>7, <1>8, <1>9, <1>10, <1>11, <1>12 DEF Next, Step

-----------------------------------------------------------------------------
(* SLOTS *)

LEMMA SlotsKeep ==
  ASSUME SlotsAccounted, Holding' = Holding, UNCHANGED <<free, active, leaked>>
  PROVE  SlotsAccounted'
BY DEF SlotsAccounted, Holding

LEMMA SlotTaken ==
  ASSUME Sizes, SlotsAccounted, NEW c \in Caller, c \notin Holding,
         Holding' = Holding \cup {c}, free' = free - 1, active' = active + 1, leaked' = leaked
  PROVE  SlotsAccounted'
<1>1. Cardinality(Holding') = Cardinality(Holding) + 1 /\ Cardinality(Holding) \in Nat
  BY SetsOfCallers DEF Holding
<1> QED
  BY <1>1, CallsAssumption DEF Sizes, SlotsAccounted, Holding

LEMMA SlotLeft ==
  ASSUME Sizes, SlotsAccounted, NEW c \in Caller, c \in Holding, Holding' = Holding \ {c},
         \/ Release /\ leaked' = leaked
         \/ leaked' = leaked + 1 /\ UNCHANGED gateVars
  PROVE  SlotsAccounted'
<1>1. /\ Cardinality(Holding') = Cardinality(Holding) - 1
      /\ Cardinality(Holding) \in Nat /\ Cardinality(Holding) > 0
  BY SetsOfCallers DEF Holding
<1> QED
  BY <1>1, CallsAssumption DEF Sizes, SlotsAccounted, Holding, Release, gateVars

LEMMA SlotsStep == Sizes /\ SlotsAccounted /\ [Next]_vars => SlotsAccounted'
<1> SUFFICES ASSUME Sizes, SlotsAccounted, [Next]_vars PROVE SlotsAccounted'
  OBVIOUS
<1> USE DEF Goto, Holding, Holds
<1>1. \A c \in Caller : After(c) \in {"idle", "start", "off"}
  BY DEF After
<1>2. CASE UNCHANGED vars
  BY <1>2, SlotsKeep DEF vars, gateVars
<1>3. CASE Tick
  BY <1>3, SlotsKeep DEF Tick, gateVars
<1>4. ASSUME NEW c \in Caller,
             \/ Ask(c) \/ AskFails(c) \/ Admit(c) \/ Doze(c) \/ CancelWaiting(c)
             \/ \E tokens \in Estimates : Start(c, tokens)
             \/ \E tokens \in 1 .. PerCall, how \in {"ok", "transient", "fatal"} :
                   Answered(c, tokens, how)
      PROVE  SlotsAccounted'
  <2>1. Holding' = Holding
    BY <1>4 DEF Sizes, Ask, AskFails, Admit, Doze, CancelWaiting, Start, Answered
  <2>2. UNCHANGED <<free, active, leaked>>
    BY <1>4 DEF Ask, AskFails, Admit, Doze, CancelWaiting, Start, Answered, gateVars
  <2> QED
    BY <2>1, <2>2, SlotsKeep
<1>5. ASSUME NEW c \in Caller, Enter(c) PROVE SlotsAccounted'
  <2>1. c \notin Holding /\ Holding' = Holding \cup {c}
    BY <1>5 DEF Sizes, Enter
  <2> QED
    BY <1>5, <2>1, SlotTaken DEF Enter
<1>6. ASSUME NEW c \in Caller, Record(c) PROVE SlotsAccounted'
  <2>1. c \in Holding /\ Holding' = Holding \ {c}
    BY <1>1, <1>6 DEF Sizes, Record
  <2> QED
    BY <1>6, <2>1, SlotLeft DEF Record, GiveBack
<1>7. ASSUME NEW c \in Caller, CancelRecording(c) PROVE SlotsAccounted'
  <2>1. c \in Holding /\ Holding' = Holding \ {c}
    BY <1>7 DEF Sizes, CancelRecording
  <2> QED
    BY <1>7, <2>1, SlotLeft DEF CancelRecording, GiveBack
<1>8. ASSUME NEW c \in Caller, CancelCall(c) PROVE SlotsAccounted'
  <2>1. CASE pc' = [pc EXCEPT ![c] = "ending"]
    <3>1. Holding' = Holding
      BY <1>8, <2>1 DEF Sizes, CancelCall
    <3>2. UNCHANGED <<free, active, leaked>>
      BY <1>8, <2>1 DEF Sizes, CancelCall, gateVars
    <3> QED
      BY <3>1, <3>2, SlotsKeep
  <2>2. CASE pc' = [pc EXCEPT ![c] = "off"]
    <3>1. c \in Holding /\ Holding' = Holding \ {c}
      BY <1>8, <2>2 DEF Sizes, CancelCall
    <3>2. leaked' = leaked + 1 /\ UNCHANGED gateVars
      BY <1>8, <2>2 DEF Sizes, CancelCall
    <3> QED
      BY <3>1, <3>2, SlotLeft
  <2> QED
    BY <1>8, <2>1, <2>2 DEF CancelCall
<1> QED
  BY <1>2, <1>3, <1>4, <1>5, <1>6, <1>7, <1>8 DEF Next, Step

-----------------------------------------------------------------------------
(* THE BUDGET *)

(* A run none of whose callers passes anew.                                *)
LEMMA PromiseKept ==
  ASSUME Promised, NEW r \in Run, Sizes,
         Passing(r)' \subseteq Passing(r), spent'[r] = spent[r], blind'[r] = blind[r]
  PROVE  spent'[r] + PerCall * Cardinality(Passing(r)')
           <= Budget - 1 + PerCall * (Cardinality(Of(r)) + blind'[r])
<1>1. Passing(r) \subseteq Caller
  BY DEF Passing, Of
<1>2. IsFiniteSet(Passing(r))
  BY <1>1, FS_Subset, CallsAssumption
<1>3. /\ Cardinality(Passing(r)') <= Cardinality(Passing(r))
      /\ Cardinality(Passing(r)') \in Nat /\ Cardinality(Passing(r)) \in Nat
  BY <1>2, FS_Subset, FS_CardinalityType
<1>4. PerCall * Cardinality(Passing(r)') <= PerCall * Cardinality(Passing(r))
  BY <1>3, Costs, CallsAssumption
<1> DEFINE before == PerCall * Cardinality(Passing(r))
           after == PerCall * Cardinality(Passing(r)')
           limit == Budget - 1 + PerCall * (Cardinality(Of(r)) + blind[r])
<1>5. before \in Nat /\ after \in Nat /\ limit \in Int /\ spent[r] \in Nat
  BY <1>3, Costs, SomeCallers, CallsAssumption DEF Sizes
<1>6. spent[r] + before <= limit
  BY DEF Promised
<1>7. after <= before
  BY <1>4
<1> HIDE DEF before, after, limit
<1>8. spent[r] + after <= limit
  BY <1>5, <1>6, <1>7
<1> QED
  BY <1>8 DEF before, after, limit

(* A run one of whose callers passes anew, in the budget or unchecked.     *)
LEMMA PromiseMade ==
  ASSUME Promised, NEW c \in Caller, NEW r \in Run, RunOf[c] = r, Sizes,
         c \notin Passing(r), Passing(r)' = Passing(r) \cup {c}, spent'[r] = spent[r],
         \/ spent[r] < Budget /\ blind'[r] = blind[r]
         \/ blind'[r] = blind[r] + 1
  PROVE  spent'[r] + PerCall * Cardinality(Passing(r)')
           <= Budget - 1 + PerCall * (Cardinality(Of(r)) + blind'[r])
<1> DEFINE n == Cardinality(Passing(r))
           all == Cardinality(Of(r))
<1>1. Passing(r) \subseteq Of(r) \ {c} /\ c \in Of(r) /\ Of(r) \subseteq Caller
  BY DEF Passing, Of
<1>2. n \in Nat /\ Cardinality(Passing(r)') = n + 1
  BY <1>1, SetsOfCallers
<1>3. all \in Nat /\ n + 1 <= all
  <2>1. IsFiniteSet(Of(r)) /\ Passing(r) \cup {c} \subseteq Of(r)
    BY <1>1, FS_Subset, CallsAssumption
  <2>2. Cardinality(Passing(r) \cup {c}) <= Cardinality(Of(r))
    BY <2>1, FS_Subset
  <2> QED
    BY <1>2, <2>2, SomeCallers
<1>4. /\ spent[r] \in Nat /\ blind[r] \in Nat
      /\ spent[r] + PerCall * n <= Budget - 1 + PerCall * (all + blind[r])
  BY DEF Sizes, Promised
<1>5. /\ PerCall * (n + 1) = PerCall * n + PerCall
      /\ PerCall * (n + 1) <= PerCall * all
      /\ PerCall * (all + blind[r]) = PerCall * all + PerCall * blind[r]
      /\ PerCall * (all + (blind[r] + 1)) = PerCall * (all + blind[r]) + PerCall
      /\ {PerCall * n, PerCall * (n + 1), PerCall * all, PerCall * blind[r],
          PerCall * (all + blind[r])} \subseteq Nat
  <2>1. all + blind[r] \in Nat /\ n + 1 \in Nat /\ all + (blind[r] + 1) = (all + blind[r]) + 1
    BY <1>2, <1>3, <1>4
  <2> HIDE DEF n, all
  <2> QED
    BY <1>2, <1>3, <1>4, <2>1, Costs, CallsAssumption
<1> DEFINE a == PerCall * n
           b == PerCall * (n + 1)
           d == PerCall * all
           e == PerCall * blind[r]
           f == PerCall * (all + blind[r])
           g == PerCall * (all + (blind[r] + 1))
<1>6. /\ a \in Nat /\ b \in Nat /\ d \in Nat /\ e \in Nat /\ f \in Nat
      /\ b = a + PerCall /\ b <= d /\ f = d + e /\ g = f + PerCall
      /\ spent[r] + a <= Budget - 1 + f
  BY <1>4, <1>5
<1> HIDE DEF a, b, d, e, f, g
<1>7. CASE spent[r] < Budget /\ blind'[r] = blind[r]
  <2>1. spent[r] + b <= Budget - 1 + f
    BY <1>4, <1>6, <1>7, CallsAssumption
  <2> QED
    BY <1>2, <1>7, <2>1 DEF b, f, all
<1>8. CASE blind'[r] = blind[r] + 1
  <2>1. spent[r] + b <= Budget - 1 + g
    BY <1>4, <1>6, <1>8, CallsAssumption
  <2> QED
    BY <1>2, <1>8, <2>1 DEF b, g, all
<1> QED
  BY <1>7, <1>8

(* A run that pays for a call.                                             *)
LEMMA PromisePaid ==
  ASSUME Promised, NEW c \in Caller, NEW r \in Run, RunOf[c] = r, Sizes,
         c \in Passing(r), Passing(r)' = Passing(r) \ {c},
         spent'[r] <= spent[r] + PerCall, spent'[r] \in Nat, blind'[r] = blind[r]
  PROVE  spent'[r] + PerCall * Cardinality(Passing(r)')
           <= Budget - 1 + PerCall * (Cardinality(Of(r)) + blind'[r])
<1> DEFINE n == Cardinality(Passing(r)')
           limit == PerCall * (Cardinality(Of(r)) + blind[r])
<1>1. Passing(r) \subseteq Caller /\ Passing(r)' \subseteq Caller
  BY DEF Passing, Of
<1>2. Cardinality(Passing(r)) = n + 1 /\ n \in Nat
  <2>1. /\ Cardinality(Passing(r)') = Cardinality(Passing(r)) - 1
        /\ Cardinality(Passing(r)) \in Nat /\ n \in Nat
    BY <1>1, SetsOfCallers
  <2> QED
    BY <2>1
<1>3. PerCall * (n + 1) = PerCall * n + PerCall /\ PerCall * n \in Nat
  <2> HIDE DEF n
  <2> QED
    BY <1>2, Costs, CallsAssumption
<1>4. spent[r] \in Nat /\ spent[r] + PerCall * (n + 1) <= Budget - 1 + limit /\ limit \in Nat
  BY <1>2, Costs, SomeCallers, CallsAssumption DEF Sizes, Promised
<1> DEFINE a == PerCall * n
           b == PerCall * (n + 1)
<1>5. a \in Nat /\ b = a + PerCall /\ spent[r] + b <= Budget - 1 + limit
  BY <1>3, <1>4
<1> HIDE DEF a, b, limit
<1>6. spent'[r] + a <= Budget - 1 + limit
  BY <1>4, <1>5, CallsAssumption
<1> QED
  BY <1>6 DEF a, limit

LEMMA PromisedStep == Sizes /\ Promised /\ [Next]_vars => Promised'
<1> DEFINE Bounded(r) == spent'[r] + PerCall * Cardinality(Passing(r)')
                           <= Budget - 1 + PerCall * (Cardinality(Of(r)) + blind'[r])
<1> SUFFICES ASSUME Sizes, Promised, [Next]_vars, NEW r \in Run PROVE Bounded(r)
  BY DEF Promised, Of
<1>1. ASSUME Passing(r)' \subseteq Passing(r), spent'[r] = spent[r], blind'[r] = blind[r]
      PROVE  Bounded(r)
  BY <1>1, PromiseKept
<1> HIDE DEF Bounded
<1>2. CASE UNCHANGED vars
  <2>1. Passing(r)' = Passing(r) /\ spent' = spent /\ blind' = blind
    BY <1>2 DEF vars, callVars, gateVars, boundVars, Passing, Passed, Of
  <2> QED
    BY <1>1, <2>1
<1>3. CASE Tick
  <2>1. Passing(r)' = Passing(r) /\ spent' = spent /\ blind' = blind
    BY <1>3 DEF Tick, Passing, Passed, Of
  <2> QED
    BY <1>1, <2>1
<1>4. ASSUME NEW c \in Caller,
             \/ Ask(c) \/ AskFails(c) \/ Admit(c) \/ Doze(c) \/ Enter(c)
             \/ CancelWaiting(c) \/ CancelRecording(c) \/ CancelCall(c)
             \/ \E tokens \in 1 .. PerCall, how \in {"ok", "transient", "fatal"} :
                   Answered(c, tokens, how)
      PROVE  Bounded(r)
  <2>1. spent' = spent /\ blind' = blind
    BY <1>4 DEF Ask, AskFails, Admit, Doze, Enter, CancelWaiting, CancelRecording, CancelCall,
                Answered
  <2>2. \A d \in Caller : Passed(d)' => Passed(d)
    BY <1>4 DEF Sizes, Ask, AskFails, Admit, Doze, Enter, CancelWaiting, CancelRecording,
                CancelCall, Answered, Goto, Passed
  <2>3. Passing(r)' \subseteq Passing(r)
    BY <2>2 DEF Passing, Of
  <2> QED
    BY <1>1, <2>1, <2>3
<1>5. ASSUME NEW c \in Caller, NEW tokens \in Estimates, Start(c, tokens) PROVE Bounded(r)
  <2>1. spent' = spent /\ pc[c] = "start" /\ pc' \in [Caller -> {"window", "off"} \cup Pc]
    BY <1>5 DEF Start, Goto, Sizes
  <2>2. \A d \in Caller \ {c} : pc'[d] = pc[d]
    BY <1>5 DEF Start, Goto, Sizes
  <2>3. CASE RunOf[c] = r /\ pc'[c] = "window"
    <3>1. c \notin Passing(r) /\ Passing(r)' = Passing(r) \cup {c}
      BY <2>1, <2>2, <2>3 DEF Passing, Passed, Of
    <3>2. \/ spent[r] < Budget /\ blind'[r] = blind[r]
          \/ blind'[r] = blind[r] + 1
      BY <1>5, <2>3 DEF Start, Goto, InBudget, Sizes
    <3>3. RunOf[c] = r /\ spent'[r] = spent[r]
      BY <2>1, <2>3
    <3> QED
      BY <3>1, <3>2, <3>3, PromiseMade DEF Bounded
  <2>4. CASE ~(RunOf[c] = r /\ pc'[c] = "window")
    <3>1. Passing(r)' \subseteq Passing(r)
      <4>1. CASE RunOf[c] = r
        <5>1. pc'[c] \in {"window", "off"}
          BY <1>5 DEF Start, Goto, Sizes
        <5> QED
          BY <2>2, <2>4, <4>1, <5>1 DEF Passing, Passed, Of
      <4>2. CASE RunOf[c] # r
        BY <2>2, <4>2 DEF Passing, Passed, Of
      <4> QED
        BY <4>1, <4>2
    <3>2. blind'[r] = blind[r]
      <4>1. CASE RunOf[c] # r
        BY <1>5, <4>1 DEF Start, Sizes
      <4>2. CASE pc'[c] # "window"
        BY <1>5, <4>2 DEF Start, Goto, Sizes
      <4> QED
        BY <2>4, <4>1, <4>2
    <3> QED
      BY <1>1, <2>1, <3>1, <3>2
  <2> QED
    BY <2>3, <2>4
<1>6. ASSUME NEW c \in Caller, Record(c) PROVE Bounded(r)
  <2>1. pc[c] = "ending" /\ blind' = blind /\ pc' = [pc EXCEPT ![c] = After(c)]
    BY <1>6 DEF Record, Goto
  <2>2. After(c) \in {"idle", "start", "off"}
    BY DEF After
  <2>3. \A d \in Caller : Passed(d)' <=> Passed(d) /\ d # c
    BY <2>1, <2>2 DEF Sizes, Passed
  <2>4. CASE UNCHANGED spent
    <3>1. Passing(r)' \subseteq Passing(r)
      BY <2>3 DEF Passing, Of
    <3> QED
      BY <1>1, <2>1, <2>4, <3>1
  <2>5. CASE Spend(c) /\ RunOf[c] = r
    <3>1. c \in Passing(r) /\ Passing(r)' = Passing(r) \ {c}
      BY <2>1, <2>3, <2>5 DEF Passing, Passed, Of
    <3>2. used[c] \in Nat /\ used[c] <= PerCall /\ spent[r] \in Nat
      BY CallsAssumption DEF Sizes
    <3>3. spent'[r] = spent[r] + used[c]
      BY <2>5 DEF Spend, Sizes
    <3>4. spent'[r] <= spent[r] + PerCall /\ spent'[r] \in Nat
      BY <3>2, <3>3, CallsAssumption
    <3>5. RunOf[c] = r /\ blind'[r] = blind[r]
      BY <2>1, <2>5
    <3> QED
      BY <3>1, <3>4, <3>5, PromisePaid DEF Bounded
  <2>6. CASE Spend(c) /\ RunOf[c] # r
    <3>1. Passing(r)' \subseteq Passing(r)
      BY <2>3 DEF Passing, Of
    <3>2. spent'[r] = spent[r]
      BY <2>6 DEF Spend, Sizes
    <3> QED
      BY <1>1, <2>1, <3>1, <3>2
  <2> QED
    BY <1>6, <2>4, <2>5, <2>6 DEF Record
<1> QED
  BY <1>2, <1>3, <1>4, <1>5, <1>6 DEF Next, Step

-----------------------------------------------------------------------------
(* THE THEOREMS *)

LEMMA InitInv == Init => Inv
<1> SUFFICES ASSUME Init PROVE Inv
  OBVIOUS
<1> USE CallsAssumption DEF Init
<1>1. Sizes
  BY DEF Sizes, Pc, Holds
<1>2. SlotsAccounted
  <2>1. {c \in Caller : Holds(c)} = {}
    BY DEF Holds
  <2>2. Cardinality({c \in Caller : Holds(c)}) = 0
    BY <2>1, FS_EmptySet
  <2> QED
    BY <2>2 DEF SlotsAccounted
<1>3. ASSUME NEW r \in Run
      PROVE  spent[r] + PerCall * Cardinality(Passing(r))
               <= Budget - 1 + PerCall * (Cardinality(Of(r)) + blind[r])
  <2>1. Passing(r) = {}
    BY DEF Passing, Passed, Of
  <2>2. Cardinality(Passing(r)) = 0
    BY <2>1, FS_EmptySet
  <2>3. Cardinality(Of(r)) \in Nat /\ spent[r] = 0 /\ blind[r] = 0
    BY SomeCallers
  <2>4. PerCall * (Cardinality(Of(r)) + 0) \in Nat
    BY <2>3, Costs
  <2> QED
    BY <2>2, <2>3, <2>4
<1> QED
  BY <1>1, <1>2, <1>3 DEF Inv, Promised

LEMMA Invariance == Spec => []Inv
<1>1. Inv /\ [Next]_vars => Inv'
  BY SizesStep, SlotsStep, PromisedStep DEF Inv
<1> QED
  BY <1>1, InitInv, PTL DEF Spec

(* Whatever fails and whoever is cancelled, a slot of the gate is free, in *)
(* use or lost with a call cancelled unseen, and none is given back twice  *)
(* (CapacityGate, usage.py _release).                                      *)
THEOREM SlotsNeverLost == Spec => []SlotsAccounted
<1>1. Inv => SlotsAccounted
  BY DEF Inv
<1> QED
  BY <1>1, Invariance, PTL

(* However many coroutines of a run check the budget before any of them    *)
(* records what it used, the run goes over by at most a call for each of   *)
(* them and one for each call that passed unchecked (enforce_budget).      *)
THEOREM OvershootHolds == Spec => []OvershootBounded
<1>1. Inv => OvershootBounded
  <2> SUFFICES ASSUME Inv, NEW r \in Run
               PROVE  spent[r] <= Budget - 1 + PerCall * (Cardinality(Of(r)) + blind[r])
    BY DEF OvershootBounded
  <2> DEFINE before == PerCall * Cardinality(Passing(r))
             limit == Budget - 1 + PerCall * (Cardinality(Of(r)) + blind[r])
  <2>1. before \in Nat /\ limit \in Int /\ spent[r] \in Nat
    BY Costs, SomeCallers, CallsAssumption DEF Inv, Sizes
  <2>2. spent[r] + before <= limit
    BY DEF Inv, Promised
  <2> HIDE DEF before, limit
  <2>3. spent[r] <= limit
    BY <2>1, <2>2
  <2> QED
    BY <2>3 DEF limit
<1> QED
  BY <1>1, Invariance, PTL

-----------------------------------------------------------------------------
(* SUMS AND HEADS OF THE LOG.  A sum over a log of any length asks for     *)
(* induction, which is done here by the least number for which a claim     *)
(* fails.                                                                  *)

LEMMA LeastNumber ==
  ASSUME NEW T, T \subseteq Nat, T # {}
  PROVE  \E n \in T : \A k \in T : n <= k
<1> DEFINE less == {p \in Nat \X Nat : p[1] < p[2]}
<1>1. IsWellFoundedOn(less, Nat)
  BY NatLessThanWellFounded DEF OpToRel, IsWellFoundedOn
<1> HIDE DEF less
<1>2. PICK n \in T : \A k \in T : ~ (<<k, n>> \in less)
  BY <1>1, WFMin
<1>3. \A k \in T : n <= k
  <2> SUFFICES ASSUME NEW k \in T PROVE n <= k
    OBVIOUS
  <2>1. n \in Nat /\ k \in Nat /\ ~ (<<k, n>> \in less)
    BY <1>2
  <2> QED BY <2>1 DEF less
<1> QED BY <1>3

LEMMA EntryOf ==
  ASSUME NEW s \in Seq(Entry), NEW i \in 1 .. Len(s)
  PROVE  s[i] \in Entry /\ s[i].age \in Nat /\ s[i].tokens \in Nat
<1>1. s[i] \in Entry
  OBVIOUS
<1> QED BY <1>1 DEF Entry

(* A function that adds up the tokens of the first n entries.              *)
Adds(sum, entries, n) ==
  /\ sum \in [0 .. n -> Nat] /\ sum[0] = 0
  /\ \A i \in 1 .. n : sum[i] = sum[i - 1] + entries[i].tokens

LEMMA AddsAgree ==
  ASSUME NEW s \in Seq(Entry), NEW t \in Seq(Entry), NEW n \in Nat, n <= Len(s), n <= Len(t),
         \A i \in 1 .. n : s[i].tokens = t[i].tokens,
         NEW f, NEW g, Adds(f, s, n), Adds(g, t, n)
  PROVE  f[n] = g[n]
<1> DEFINE T == {i \in 0 .. n : f[i] # g[i]}
<1> SUFFICES ASSUME T # {} PROVE FALSE
  OBVIOUS
<1>1. PICK i \in T : \A k \in T : i <= k
  <2>1. T \subseteq Nat
    OBVIOUS
  <2> HIDE DEF T
  <2> QED BY <2>1, LeastNumber
<1>2. i # 0 /\ i \in 1 .. n /\ i - 1 \in 0 .. n
  BY DEF Adds
<1>3. f[i - 1] = g[i - 1]
  BY <1>1, <1>2
<1> QED
  BY <1>2, <1>3 DEF Adds

LEMMA AddsExists ==
  ASSUME NEW s \in Seq(Entry), NEW n \in 0 .. Len(s)
  PROVE  \E f : Adds(f, s, n)
<1> DEFINE T == {i \in 0 .. Len(s) : ~ \E f : Adds(f, s, i)}
<1> SUFFICES ASSUME T # {} PROVE FALSE
  OBVIOUS
<1>1. PICK i \in T : \A k \in T : i <= k
  <2>1. T \subseteq Nat
    OBVIOUS
  <2> HIDE DEF T
  <2> QED BY <2>1, LeastNumber
<1>2. i # 0
  <2>1. Adds([k \in 0 .. 0 |-> 0], s, 0)
    BY DEF Adds
  <2> QED BY <2>1
<1>3. i - 1 \in 0 .. Len(s) /\ i - 1 \notin T
  BY <1>1, <1>2
<1>4. PICK f : Adds(f, s, i - 1)
  BY <1>3
<1> DEFINE g == [k \in 0 .. i |-> IF k = i THEN f[i - 1] + s[i].tokens ELSE f[k]]
<1>5. s[i].tokens \in Nat
  BY <1>2, EntryOf
<1>6. Adds(g, s, i)
  BY <1>2, <1>4, <1>5 DEF Adds
<1> QED BY <1>6

(* Reserved is the last value of such a function.                          *)
LEMMA ReservedAdds ==
  ASSUME NEW s \in Seq(Entry)
  PROVE  \E f : Adds(f, s, Len(s)) /\ Reserved(s) = f[Len(s)]
<1> DEFINE body(g) == [n \in 0 .. Len(s) |-> IF n = 0 THEN 0 ELSE g[n - 1] + s[n].tokens]
           sum == CHOOSE g : g = body(g)
<1>1. PICK f : Adds(f, s, Len(s))
  BY AddsExists
<1>2. f = body(f)
  BY <1>1 DEF Adds
<1>3. sum = body(sum)
  BY <1>2
<1>4. Reserved(s) = sum[Len(s)]
  BY DEF Reserved
<1> HIDE DEF sum
<1>5. \A n \in 0 .. Len(s) : sum[n] = IF n = 0 THEN 0 ELSE sum[n - 1] + s[n].tokens
  BY <1>3
<1> DEFINE T == {i \in 0 .. Len(s) : sum[i] # f[i]}
<1>6. T = {}
  <2> SUFFICES ASSUME T # {} PROVE FALSE
    OBVIOUS
  <2>1. PICK i \in T : \A k \in T : i <= k
    <3>1. T \subseteq Nat
      OBVIOUS
    <3> HIDE DEF T
    <3> QED BY <3>1, LeastNumber
  <2>2. i # 0 /\ i \in 1 .. Len(s) /\ i - 1 \in 0 .. Len(s)
    BY <1>1, <1>5 DEF Adds
  <2>3. sum[i - 1] = f[i - 1]
    BY <2>1, <2>2
  <2> QED BY <1>1, <1>5, <2>2, <2>3 DEF Adds
<1>7. sum[Len(s)] = f[Len(s)]
  BY <1>6
<1> QED BY <1>1, <1>4, <1>7

LEMMA ReservedSame ==
  ASSUME NEW s \in Seq(Entry), NEW t \in Seq(Entry), Len(s) = Len(t),
         \A i \in 1 .. Len(s) : s[i].tokens = t[i].tokens
  PROVE  Reserved(s) = Reserved(t)
<1>1. PICK f : Adds(f, s, Len(s)) /\ Reserved(s) = f[Len(s)]
  BY ReservedAdds
<1>2. PICK g : Adds(g, t, Len(t)) /\ Reserved(t) = g[Len(t)]
  BY ReservedAdds
<1>3. Len(s) \in Nat
  OBVIOUS
<1>4. f[Len(s)] = g[Len(s)]
  BY <1>1, <1>2, <1>3, AddsAgree
<1> QED BY <1>1, <1>2, <1>4

LEMMA ReservedGrows ==
  ASSUME NEW s \in Seq(Entry), NEW e \in Entry
  PROVE  Reserved(Append(s, e)) = Reserved(s) + e.tokens
<1> DEFINE t == Append(s, e)
           n == Len(s)
<1>0. /\ n \in Nat /\ t \in Seq(Entry) /\ Len(t) = n + 1 /\ t[n + 1] = e
      /\ \A i \in 1 .. n : t[i] = s[i]
  OBVIOUS
<1> HIDE DEF t, n
<1>1. PICK f : Adds(f, s, n) /\ Reserved(s) = f[n]
  BY ReservedAdds DEF n
<1>2. PICK g : Adds(g, t, n + 1) /\ Reserved(t) = g[n + 1]
  BY <1>0, ReservedAdds
<1> DEFINE h == [i \in 0 .. n |-> g[i]]
<1>3. Adds(h, t, n)
  BY <1>0, <1>2 DEF Adds
<1>4. h[n] = g[n]
  BY <1>0
<1> HIDE DEF h
<1>5. n <= Len(s) /\ n <= Len(t) /\ \A i \in 1 .. n : t[i].tokens = s[i].tokens
  BY <1>0 DEF n
<1>6. h[n] = f[n]
  BY <1>0, <1>1, <1>3, <1>5, AddsAgree
<1>7. g[n + 1] = g[n] + e.tokens
  BY <1>0, <1>2 DEF Adds
<1> QED BY <1>1, <1>2, <1>4, <1>6, <1>7 DEF t

LEMMA ReservedNumber ==
  ASSUME NEW s \in Seq(Entry)
  PROVE  Reserved(s) \in Nat /\ (s = <<>> => Reserved(s) = 0)
<1>1. PICK f : Adds(f, s, Len(s)) /\ Reserved(s) = f[Len(s)]
  BY ReservedAdds
<1> QED BY <1>1 DEF Adds

(* Where a log is cut.                                                     *)
LEMMA GoneIs ==
  ASSUME NEW s \in Seq(Entry)
  PROVE  /\ Gone(s) \in 0 .. Len(s) /\ \A i \in 1 .. Gone(s) : s[i].age >= Window
         /\ Gone(s) < Len(s) => s[Gone(s) + 1].age < Window
<1> DEFINE Old(n) == \A i \in 1 .. n : s[i].age >= Window
           N == {n \in 0 .. Len(s) : Old(n)}
           T == {k \in 0 .. Len(s) : Old(Len(s) - k)}
<1>1. PICK k \in T : \A j \in T : k <= j
  <2>1. T \subseteq Nat /\ Len(s) \in T
    OBVIOUS
  <2> HIDE DEF T
  <2> QED BY <2>1, LeastNumber
<1>2. Len(s) - k \in N
  OBVIOUS
<1>3. \A n \in N : n <= Len(s) - k
  <2> SUFFICES ASSUME NEW n \in N PROVE n <= Len(s) - k
    OBVIOUS
  <2>1. Len(s) - n \in 0 .. Len(s) /\ Len(s) - (Len(s) - n) = n
    OBVIOUS
  <2>2. Len(s) - n \in T
    BY <2>1
  <2>3. k <= Len(s) - n
    <3> HIDE DEF T
    <3> QED BY <1>1, <2>2
  <2> QED BY <2>1, <2>3
<1>4. Gone(s) = CHOOSE x \in N : \A y \in N : x >= y
  BY DEF Gone, Max
<1>5. Gone(s) \in N /\ \A y \in N : Gone(s) >= y
  <2>1. Len(s) - k \in N /\ \A y \in N : Len(s) - k >= y
    BY <1>2, <1>3
  <2> HIDE DEF N
  <2> QED BY <1>4, <2>1
<1>6. ASSUME Gone(s) < Len(s) PROVE s[Gone(s) + 1].age < Window
  <2>1. Gone(s) + 1 \in 0 .. Len(s) /\ Gone(s) + 1 \notin N
    BY <1>5, <1>6
  <2>2. ~ (s[Gone(s) + 1].age >= Window)
    BY <1>5, <2>1
  <2>3. s[Gone(s) + 1].age \in Nat /\ Window \in Nat
    <3>1. Gone(s) + 1 \in 1 .. Len(s)
      BY <1>5, <2>1
    <3> QED BY <3>1, EntryOf, CallsAssumption
  <2> HIDE DEF N
  <2> QED BY <2>2, <2>3
<1> QED BY <1>5, <1>6

LEMMA GoneWhere ==
  ASSUME NEW s \in Seq(Entry), NEW n \in 0 .. Len(s), \A i \in 1 .. n : s[i].age >= Window,
         n < Len(s) => s[n + 1].age < Window
  PROVE  Gone(s) = n
<1>1. /\ Gone(s) \in 0 .. Len(s) /\ \A i \in 1 .. Gone(s) : s[i].age >= Window
      /\ Gone(s) < Len(s) => s[Gone(s) + 1].age < Window
  BY GoneIs
<1>2. \A i \in 1 .. Len(s) : s[i].age \in Nat
  BY EntryOf
<1>3. Window \in Nat /\ Len(s) \in Nat
  BY CallsAssumption
<1>4. ~ (Gone(s) < n) /\ ~ (n < Gone(s))
  <2>1. ASSUME Gone(s) < n PROVE FALSE
    <3>1. Gone(s) + 1 \in 1 .. n /\ Gone(s) + 1 \in 1 .. Len(s)
      BY <1>1, <1>3, <2>1
    <3> QED BY <1>1, <1>2, <1>3, <2>1, <3>1
  <2>2. ASSUME n < Gone(s) PROVE FALSE
    <3>1. n + 1 \in 1 .. Gone(s) /\ n + 1 \in 1 .. Len(s)
      BY <1>1, <1>3, <2>2
    <3> QED BY <1>1, <1>2, <1>3, <2>2, <3>1
  <2> QED BY <2>1, <2>2
<1> QED BY <1>1, <1>3, <1>4

(* What is left begins where the log is cut, and is cut no further.        *)
LEMMA PruneIs ==
  ASSUME NEW s \in Seq(Entry)
  PROVE  /\ Prune(s) \in Seq(Entry) /\ Len(Prune(s)) = Len(s) - Gone(s)
         /\ \A i \in 1 .. Len(Prune(s)) : Prune(s)[i] = s[Gone(s) + i]
<1>1. Gone(s) \in 0 .. Len(s)
  BY GoneIs
<1>2. \A i \in (Gone(s) + 1) .. Len(s) : s[i] \in Entry
  BY <1>1
<1>3. Gone(s) + 1 \in Int /\ Len(s) \in Int
  BY <1>1
<1> QED BY <1>1, <1>2, <1>3, SubSeqProperties DEF Prune

LEMMA PruneFresh ==
  ASSUME NEW s \in Seq(Entry), s # <<>> => s[1].age < Window
  PROVE  Prune(s) = s
<1>1. Gone(s) = 0
  BY GoneWhere
<1>2. Len(Prune(s)) = Len(s) /\ Prune(s) \in Seq(Entry)
  BY <1>1, PruneIs
<1>3. \A i \in 1 .. Len(s) : Prune(s)[i] = s[i]
  BY <1>1, <1>2, PruneIs
<1> QED BY <1>2, <1>3, SeqEqual

-----------------------------------------------------------------------------
(* SLEEPERS *)

(* The log is in the order of admission.                                   *)
Logged ==
  /\ log \in Seq(Entry) /\ need \in [Caller -> Nat] /\ sleep \in [Caller -> Nat]
  /\ \A i \in 1 .. Len(log) : \A j \in i .. Len(log) : log[i].age >= log[j].age

(* Who sleeps has been turned down by calls that are still counted, and    *)
(* wakes no later than the first of them leaves the window.                *)
Turned(c) == Len(Live) > 0 /\ sleep[c] + Live[1].age <= Window /\ ~Room(c)
Sleeping == \A c \in Caller : sleep[c] > 0 => pc[c] = "window" /\ Turned(c)

LEMMA WindowIs ==
  /\ Window \in Nat \ {0} /\ Tpm \in Nat \ {0} /\ Rpm \in Nat \ {0}
BY CallsAssumption

LEMMA ReservationIs ==
  ASSUME Logged, NEW c \in Caller
  PROVE  Reservation(c) \in Nat /\ Reservation(c) <= Tpm
BY WindowIs DEF Logged, Reservation, Smaller

LEMMA LiveIs ==
  ASSUME Logged
  PROVE  /\ Live \in Seq(Entry) /\ (Len(Live) > 0 => Live[1].age < Window)
         /\ \A i \in 1 .. Len(Live) : \A j \in i .. Len(Live) : Live[i].age >= Live[j].age
<1> USE DEF Logged, Live
<1>1. /\ Live \in Seq(Entry) /\ Len(Live) = Len(log) - Gone(log)
      /\ \A i \in 1 .. Len(Live) : Live[i] = log[Gone(log) + i]
  BY PruneIs
<1>2. Gone(log) \in 0 .. Len(log) /\ (Gone(log) < Len(log) => log[Gone(log) + 1].age < Window)
  BY GoneIs
<1> HIDE DEF Live
<1>3. ASSUME NEW i \in 1 .. Len(Live), NEW j \in i .. Len(Live)
      PROVE  Live[i].age >= Live[j].age
  <2>1. Gone(log) + i \in 1 .. Len(log) /\ Gone(log) + j \in (Gone(log) + i) .. Len(log)
    BY <1>1, <1>2
  <2>2. Live[i] = log[Gone(log) + i] /\ Live[j] = log[Gone(log) + j]
    BY <1>1
  <2> QED BY <2>1, <2>2
<1>4. ASSUME Len(Live) > 0 PROVE Live[1].age < Window
  <2>1. Gone(log) < Len(log) /\ Live[1] = log[Gone(log) + 1]
    BY <1>1, <1>2, <1>4
  <2> QED BY <1>2, <2>1
<1> QED BY <1>1, <1>3, <1>4

(* A window that counts nothing has room.                                  *)
LEMMA EmptyHasRoom ==
  ASSUME Logged, NEW c \in Caller, ~Room(c)
  PROVE  Len(Live) > 0
<1> SUFFICES ASSUME Len(Live) = 0 PROVE FALSE
  BY LiveIs
<1>1. Live = <<>>
  BY LiveIs
<1>2. Reserved(Live) = 0
  BY <1>1, LiveIs, ReservedNumber
<1> QED BY <1>2, WindowIs, ReservationIs DEF Room

(* A log that is counted as before turns down whoever it turned down.      *)
LEMMA SameLiveKeeps ==
  ASSUME Logged, Logged', NEW c \in Caller, Turned(c), Live' = Live,
         need'[c] = need[c], sleep'[c] = sleep[c]
  PROVE  Turned(c)'
BY DEF Turned, Room, Reservation, Smaller

(* So does one that counts a call more.                                    *)
LEMMA LongerKeeps ==
  ASSUME Logged, Logged', NEW c \in Caller, Turned(c), NEW e \in Entry, Live' = Append(Live, e),
         need'[c] = need[c], sleep'[c] = sleep[c]
  PROVE  Turned(c)'
<1>1. Live \in Seq(Entry)
  BY LiveIs
<1>2. Len(Live') = Len(Live) + 1 /\ Len(Live) \in Nat /\ (Len(Live) > 0 => Live'[1] = Live[1])
  BY <1>1
<1>3. Reserved(Live') = Reserved(Live) + e.tokens /\ Reserved(Live) \in Nat /\ e.tokens \in Nat
  BY <1>1, ReservedGrows, ReservedNumber DEF Entry
<1>4. Reservation(c)' = Reservation(c) /\ Reservation(c) \in Nat
  BY ReservationIs DEF Reservation, Smaller
<1>5. ~Room(c)'
  BY <1>2, <1>3, <1>4, WindowIs DEF Turned, Room
<1> QED BY <1>2, <1>5 DEF Turned

LEMMA AdmitKeeps ==
  ASSUME Logged, Sleeping, NEW c \in Caller, Admit(c) PROVE Logged' /\ Sleeping'
<1> DEFINE e == [age |-> 0, tokens |-> Reservation(c)]
<1>1. e \in Entry /\ log' = Append(Live, e) /\ need' = need /\ sleep' = sleep
  BY ReservationIs DEF Admit, callVars, Entry
<1>2. Live \in Seq(Entry) /\ Len(Live) \in Nat
  BY LiveIs
<1>3. /\ log' \in Seq(Entry) /\ Len(log') = Len(Live) + 1 /\ log'[Len(Live) + 1] = e
      /\ \A i \in 1 .. Len(Live) : log'[i] = Live[i]
  BY <1>1, <1>2
<1>4. Logged'
  <2>1. ASSUME NEW i \in 1 .. Len(log'), NEW j \in i .. Len(log')
        PROVE  log'[i].age >= log'[j].age
    <3>1. CASE j = Len(Live) + 1
      BY <1>3, <3>1, EntryOf
    <3>2. CASE j # Len(Live) + 1
      <4>1. i \in 1 .. Len(Live) /\ j \in i .. Len(Live)
        BY <1>2, <1>3, <3>2
      <4>2. log'[i] = Live[i] /\ log'[j] = Live[j]
        BY <1>2, <1>3, <4>1
      <4> QED BY <4>1, <4>2, LiveIs
    <3> QED BY <3>1, <3>2
  <2> QED BY <1>1, <1>3, <2>1 DEF Logged
<1>5. Live' = Append(Live, e)
  <2>1. log'[1].age < Window
    <3>1. CASE Len(Live) = 0
      BY <1>3, <3>1, WindowIs
    <3>2. CASE Len(Live) > 0
      <4>1. log'[1] = Live[1]
        BY <1>2, <1>3, <3>2
      <4> QED BY <3>2, <4>1, LiveIs
    <3> QED BY <1>2, <3>1, <3>2
  <2>2. Prune(log') = log'
    BY <1>3, <2>1, PruneFresh
  <2> QED BY <1>1, <2>2 DEF Live
<1>6. ASSUME NEW d \in Caller, sleep'[d] > 0 PROVE pc'[d] = "window" /\ Turned(d)'
  <2>1. sleep[d] > 0 /\ pc[d] = "window" /\ Turned(d) /\ d # c
    BY <1>1, <1>6 DEF Sleeping, Admit, Logged
  <2>2. Turned(d)'
    BY <1>1, <1>4, <1>5, <2>1, LongerKeeps
  <2>3. pc'[d] = pc[d]
    BY <2>1 DEF Admit, Goto
  <2> QED BY <2>1, <2>2, <2>3
<1> QED BY <1>4, <1>6 DEF Sleeping

LEMMA DozeKeeps ==
  ASSUME Logged, Sleeping, NEW c \in Caller, Doze(c) PROVE Logged' /\ Sleeping'
<1>1. log' = Live /\ need' = need /\ pc' = pc /\ pc[c] = "window" /\ ~Room(c)
  BY DEF Doze
<1>2. Len(Live) > 0 /\ Live \in Seq(Entry) /\ Live[1].age < Window /\ Live[1].age \in Nat
  BY <1>1, EmptyHasRoom, LiveIs, EntryOf
<1>3. Delay \in Nat /\ Delay + Live[1].age = Window
  BY <1>2, WindowIs DEF Delay
<1>4. sleep' = [sleep EXCEPT ![c] = Delay] /\ sleep' \in [Caller -> Nat]
  BY <1>3 DEF Doze, Logged
<1>5. Logged'
  BY <1>1, <1>4, LiveIs DEF Logged
<1>6. Live' = Live
  <2>1. Prune(Live) = Live
    BY <1>2, PruneFresh
  <2> QED BY <1>1, <2>1 DEF Live
<1>7. ASSUME NEW d \in Caller, sleep'[d] > 0 PROVE pc'[d] = "window" /\ Turned(d)'
  <2>1. CASE d = c
    <3>1. sleep'[c] = Delay
      BY <1>4 DEF Logged
    <3>2. ~Room(c)'
      BY <1>1, <1>6 DEF Room, Reservation, Smaller
    <3> QED BY <1>1, <1>2, <1>3, <1>6, <2>1, <3>1, <3>2 DEF Turned
  <2>2. CASE d # c
    <3>1. sleep'[d] = sleep[d]
      BY <1>4, <2>2 DEF Logged
    <3>2. pc[d] = "window" /\ Turned(d)
      BY <1>7, <3>1 DEF Sleeping
    <3> QED BY <1>1, <1>5, <1>6, <3>1, <3>2, SameLiveKeeps
  <2> QED BY <2>1, <2>2
<1> QED BY <1>5, <1>7 DEF Sleeping

(* The clock counts a sleeper down by one, and makes the calls that keep   *)
(* it out one older: none of them leaves before it wakes.                  *)
LEMMA TickKeeps ==
  ASSUME Logged, Sleeping, Tick PROVE Logged' /\ Sleeping'
<1> DEFINE older == [i \in DOMAIN log |-> [log[i] EXCEPT !.age = Smaller(@ + 1, Window)]]
<1>1. log' = older /\ need' = need /\ pc' = pc
  BY DEF Tick
<1>2. log \in Seq(Entry) /\ Len(log) \in Nat /\ DOMAIN log = 1 .. Len(log)
  BY DEF Logged
<1>3. ASSUME NEW i \in 1 .. Len(log)
      PROVE  /\ older[i] \in Entry /\ older[i].tokens = log[i].tokens
             /\ older[i].age = Smaller(log[i].age + 1, Window)
  <2>1. log[i] \in [age : Nat, tokens : Nat]
    BY <1>2, EntryOf DEF Entry
  <2>2. older[i] = [log[i] EXCEPT !.age = Smaller(log[i].age + 1, Window)]
    BY <1>2
  <2>3. Smaller(log[i].age + 1, Window) \in Nat
    BY <1>2, EntryOf, WindowIs DEF Smaller
  <2> HIDE DEF older
  <2> QED BY <2>1, <2>2, <2>3 DEF Entry
<1>4. older \in Seq(Entry) /\ Len(older) = Len(log)
  <2>1. older = [i \in 1 .. Len(log) |-> older[i]]
    BY <1>2
  <2> HIDE DEF older
  <2>2. older \in [1 .. Len(log) -> Entry]
    BY <1>3, <2>1
  <2> QED BY <1>2, <2>2
<1> HIDE DEF older
<1>5. \A d \in Caller : sleep'[d] = IF sleep[d] = 0 THEN 0 ELSE sleep[d] - 1
  BY DEF Tick
<1>6. sleep' \in [Caller -> Nat]
  BY DEF Tick, Logged
<1>7. Logged'
  <2>1. ASSUME NEW i \in 1 .. Len(log), NEW j \in i .. Len(log)
        PROVE  older[i].age >= older[j].age
    <3>1. j \in 1 .. Len(log)
      BY <1>2
    <3>2. log[i].age \in Nat /\ log[j].age \in Nat /\ log[i].age >= log[j].age
      BY <1>2, <3>1, EntryOf DEF Logged
    <3> QED BY <1>3, <3>1, <3>2, WindowIs DEF Smaller
  <2> QED BY <1>1, <1>4, <1>6, <2>1 DEF Logged
<1>8. ASSUME NEW c \in Caller, sleep'[c] > 0 PROVE pc'[c] = "window" /\ Turned(c)'
  <2>1. sleep[c] > 1 /\ sleep[c] \in Nat /\ sleep'[c] = sleep[c] - 1
    BY <1>5, <1>8 DEF Logged
  <2>2. pc[c] = "window" /\ Turned(c)
    BY <2>1 DEF Sleeping
  <2> DEFINE g == Gone(log)
  <2>3. /\ g \in 0 .. Len(log) /\ Live \in Seq(Entry) /\ Len(Live) = Len(log) - g
        /\ \A i \in 1 .. Len(Live) : Live[i] = log[g + i]
        /\ \A i \in 1 .. g : log[i].age >= Window
    BY <1>2, GoneIs, PruneIs DEF Live
  <2> HIDE DEF g
  <2>4. Len(Live) > 0 /\ sleep[c] + Live[1].age <= Window /\ Live[1].age \in Nat
    BY <2>2, <2>3, EntryOf DEF Turned
  <2>5. g + 1 \in 1 .. Len(log) /\ Live[1] = log[g + 1]
    BY <1>2, <2>3, <2>4
  <2>6. older[g + 1].age = Live[1].age + 1 /\ Live[1].age + 1 < Window
    BY <1>3, <2>1, <2>4, <2>5, WindowIs DEF Smaller
  <2>7. Gone(older) = g
    <3>1. \A i \in 1 .. g : older[i].age >= Window
      <4> SUFFICES ASSUME NEW i \in 1 .. g PROVE older[i].age >= Window
        OBVIOUS
      <4>1. i \in 1 .. Len(log) /\ log[i].age >= Window
        BY <1>2, <2>3
      <4> QED BY <1>2, <1>3, <4>1, EntryOf, WindowIs DEF Smaller
    <3> QED BY <1>4, <2>3, <2>6, <3>1, GoneWhere
  <2>8. /\ Live' \in Seq(Entry) /\ Len(Live') = Len(Live)
        /\ \A i \in 1 .. Len(Live) : Live'[i] = older[g + i]
    <3>1. Live' = Prune(older)
      BY <1>1 DEF Live
    <3>2. /\ Prune(older) \in Seq(Entry) /\ Len(Prune(older)) = Len(older) - g
          /\ \A i \in 1 .. Len(Prune(older)) : Prune(older)[i] = older[g + i]
      BY <1>4, <2>7, PruneIs
    <3> QED BY <1>4, <2>3, <3>1, <3>2
  <2>9. \A i \in 1 .. Len(Live) : Live'[i].tokens = Live[i].tokens
    <3> SUFFICES ASSUME NEW i \in 1 .. Len(Live) PROVE Live'[i].tokens = Live[i].tokens
      OBVIOUS
    <3>1. g + i \in 1 .. Len(log)
      BY <1>2, <2>3
    <3> QED BY <1>3, <2>3, <2>8, <3>1
  <2>10. Reserved(Live') = Reserved(Live)
    BY <2>3, <2>8, <2>9, ReservedSame
  <2>11. ~Room(c)'
    BY <1>1, <2>2, <2>8, <2>10 DEF Turned, Room, Reservation, Smaller
  <2>12. Live'[1].age = Live[1].age + 1
    BY <2>3, <2>4, <2>6, <2>8
  <2> QED BY <1>1, <2>1, <2>2, <2>4, <2>8, <2>11, <2>12 DEF Turned
<1> QED BY <1>7, <1>8 DEF Sleeping

(* Steps away from the window leave log and sleepers alone.                *)
LEMMA ElsewhereKeeps ==
  ASSUME Logged, Sleeping, log' = log, need' \in [Caller -> Nat], NEW c \in Caller,
         \A d \in Caller \ {c} : pc'[d] = pc[d] /\ need'[d] = need[d],
         \/ sleep' = sleep /\ pc[c] # "window"
         \/ sleep' = [sleep EXCEPT ![c] = 0]
  PROVE  Logged' /\ Sleeping'
<1>1. sleep' \in [Caller -> Nat] /\ \A d \in Caller \ {c} : sleep'[d] = sleep[d]
  <2>1. sleep \in [Caller -> Nat]
    BY DEF Logged
  <2>2. CASE sleep' = sleep
    BY <2>1, <2>2
  <2>3. CASE sleep' = [sleep EXCEPT ![c] = 0]
    BY <2>1, <2>3
  <2> QED BY <2>2, <2>3
<1>2. Logged'
  BY <1>1 DEF Logged
<1>3. sleep'[c] = 0
  BY DEF Sleeping, Logged
<1>4. ASSUME NEW d \in Caller, sleep'[d] > 0 PROVE pc'[d] = "window" /\ Turned(d)'
  <2>1. d \in Caller \ {c} /\ sleep[d] > 0
    BY <1>1, <1>3, <1>4
  <2>2. pc[d] = "window" /\ Turned(d)
    BY <2>1 DEF Sleeping
  <2>3. Live' = Live
    BY DEF Live
  <2> QED BY <1>1, <1>2, <2>1, <2>2, <2>3, SameLiveKeeps
<1> QED BY <1>2, <1>4 DEF Sleeping

LEMMA SleepStep ==
  Sizes /\ Logged /\ Sleeping /\ [Next]_vars => Logged' /\ Sleeping'
<1> SUFFICES ASSUME Sizes, Logged, Sleeping, [Next]_vars PROVE Logged' /\ Sleeping'
  OBVIOUS
<1>0. Sizes' /\ need' \in [Caller -> Nat]
  BY SizesStep DEF Sizes
<1>1. CASE UNCHANGED vars
  BY <1>1 DEF vars, callVars, Logged, Sleeping, Turned, Room, Live, Reservation
<1>2. CASE Tick
  BY <1>2, TickKeeps
<1>3. ASSUME NEW c \in Caller, Admit(c) \/ Doze(c) PROVE Logged' /\ Sleeping'
  BY <1>3, AdmitKeeps, DozeKeeps
<1>4. ASSUME NEW c \in Caller, Ask(c) \/ AskFails(c) PROVE Logged' /\ Sleeping'
  BY <1>0, <1>4, ElsewhereKeeps DEF Ask, AskFails, Goto, callVars, Sizes
<1>5. ASSUME NEW c \in Caller, NEW tokens \in Estimates, Start(c, tokens)
      PROVE  Logged' /\ Sleeping'
  BY <1>0, <1>5, ElsewhereKeeps DEF Start, Goto, Sizes
<1>6. ASSUME NEW c \in Caller, Enter(c) PROVE Logged' /\ Sleeping'
  BY <1>0, <1>6, ElsewhereKeeps DEF Enter, Goto, Sizes
<1>7. ASSUME NEW c \in Caller, NEW tokens \in 1 .. PerCall, NEW how \in {"ok", "transient", "fatal"},
             Answered(c, tokens, how)
      PROVE  Logged' /\ Sleeping'
  BY <1>0, <1>7, ElsewhereKeeps DEF Answered, Goto, Sizes
<1>8. ASSUME NEW c \in Caller, Record(c) \/ CancelRecording(c) PROVE Logged' /\ Sleeping'
  BY <1>0, <1>8, ElsewhereKeeps DEF Record, CancelRecording, Goto, Forget, Sizes
<1>9. ASSUME NEW c \in Caller, CancelWaiting(c) PROVE Logged' /\ Sleeping'
  BY <1>0, <1>9, ElsewhereKeeps DEF CancelWaiting, Goto, Forget, Sizes
<1>10. ASSUME NEW c \in Caller, CancelCall(c) PROVE Logged' /\ Sleeping'
  BY <1>0, <1>10, ElsewhereKeeps DEF CancelCall, Goto, Sizes
<1> QED
  BY <1>1, <1>2, <1>3, <1>4, <1>5, <1>6, <1>7, <1>8, <1>9, <1>10 DEF Next, Step

LEMMA InitSleeping == Init => Logged /\ Sleeping
<1> SUFFICES ASSUME Init PROVE Logged /\ Sleeping
  OBVIOUS
<1>1. log \in Seq(Entry) /\ Len(log) = 0
  BY DEF Init
<1> QED BY <1>1 DEF Init, Logged, Sleeping

(* Nobody sleeps while the window has room for it: the deadline it waits   *)
(* for is that of the first call counted against it, however many others   *)
(* are admitted, doze or are cancelled meanwhile.                          *)
THEOREM NobodyOversleeps == Spec => []NoOversleep
<1>1. Init => Logged /\ Sleeping
  BY InitSleeping
<1>2. Inv => Sizes
  BY DEF Inv
<1>3. Logged /\ Sleeping => NoOversleep
  BY DEF Sleeping, Turned, NoOversleep
<1> QED
  BY <1>1, <1>2, <1>3, SleepStep, Invariance, PTL DEF Spec
-----------------------------------------------------------------------------
(* TYPES *)

(* What is bounded by its own guards.                                      *)
Counters ==
  /\ verdict \in [Caller -> {"ok", "transient", "fatal", "cancelled"}]
  /\ tries \in [Caller -> 0 .. Retries] /\ made \in [Caller -> 0 .. MaxCalls]
  /\ faults \in 0 .. MaxFaults /\ cancels \in 0 .. MaxCancels

LEMMA CountersStep == Counters /\ [Next]_vars => Counters'
<1> SUFFICES ASSUME Counters, [Next]_vars PROVE Counters'
  OBVIOUS
<1>0. {Retries, MaxCalls, MaxFaults, MaxCancels} \subseteq Nat
  BY CallsAssumption
<1> USE <1>0 DEF Counters
<1>1. CASE UNCHANGED vars
  BY <1>1 DEF vars, callVars, boundVars
<1>2. CASE Tick
  BY <1>2 DEF Tick, boundVars
<1>3. ASSUME NEW c \in Caller, Ask(c) PROVE Counters'
  <2>1. /\ made[c] < MaxCalls /\ made' = [made EXCEPT ![c] = made[c] + 1]
        /\ tries' = [tries EXCEPT ![c] = 0] /\ UNCHANGED <<verdict, faults, cancels>>
    BY <1>3 DEF Ask, boundVars
  <2>2. made[c] + 1 \in 0 .. MaxCalls /\ 0 \in 0 .. Retries
    BY <2>1
  <2> QED
    BY <2>1, <2>2
<1>9. ASSUME NEW c \in Caller, AskFails(c) PROVE Counters'
  BY <1>9 DEF AskFails, Fault, callVars
<1>10. ASSUME NEW c \in Caller, Admit(c) \/ Doze(c) \/ Enter(c) PROVE Counters'
  <2>1. UNCHANGED <<verdict, tries, made, faults, cancels>>
    BY <1>10 DEF Admit, Doze, Enter, callVars, boundVars
  <2> QED
    BY <2>1
<1>4. ASSUME NEW c \in Caller, NEW tokens \in Estimates, Start(c, tokens) PROVE Counters'
  BY <1>4 DEF Start, Fault
<1>5. ASSUME NEW c \in Caller, NEW tokens \in 1 .. PerCall, NEW how \in {"ok", "transient", "fatal"},
             Answered(c, tokens, how)
      PROVE  Counters'
  BY <1>5 DEF Answered, boundVars
<1>6. ASSUME NEW c \in Caller, Record(c) PROVE Counters'
  <2>1. After(c) = "start" => tries[c] < Retries
    BY DEF After
  <2> DEFINE next == IF After(c) = "start" THEN tries[c] + 1 ELSE 0
  <2>2. next \in 0 .. Retries
    BY <2>1
  <2>3. tries' = [tries EXCEPT ![c] = next]
    BY <1>6 DEF Record
  <2> HIDE DEF next
  <2>4. tries' \in [Caller -> 0 .. Retries]
    BY <2>2, <2>3
  <2>5. faults' \in 0 .. MaxFaults
    <3>1. Fault \/ UNCHANGED faults
      BY <1>6, Zenon DEF Record
    <3> QED BY <3>1 DEF Fault
  <2>6. verdict' \in [Caller -> {"ok", "transient", "fatal", "cancelled"}]
    BY <1>6 DEF Record, Forget
  <2>7. made' = made /\ cancels' = cancels
    BY <1>6 DEF Record
  <2> QED
    BY <2>4, <2>5, <2>6, <2>7
<1>7. ASSUME NEW c \in Caller, CancelWaiting(c) \/ CancelRecording(c) PROVE Counters'
  <2>1. verdict' = [verdict EXCEPT ![c] = "ok"] /\ tries' = [tries EXCEPT ![c] = 0]
    BY <1>7 DEF CancelWaiting, CancelRecording, Forget
  <2>2. made' = made /\ faults' = faults /\ Cancels(c)
    BY <1>7, Zenon DEF CancelWaiting, CancelRecording
  <2>3. cancels' \in 0 .. MaxCancels
    BY <2>2 DEF Cancels
  <2> QED
    BY <2>1, <2>2, <2>3
<1>8. ASSUME NEW c \in Caller, CancelCall(c) PROVE Counters'
  BY <1>8 DEF CancelCall, Cancels
<1> QED
  BY <1>1, <1>2, <1>3, <1>4, <1>5, <1>6, <1>7, <1>8, <1>9, <1>10 DEF Next, Step

(* Every variable keeps its type; among them, no more slots are ever free  *)
(* than there are, no caller is retried beyond its retries, and none       *)
(* sleeps longer than a window.                                            *)
THEOREM TypeCorrect == Spec => []TypeOK
<1>1. Init => Counters
  BY CallsAssumption DEF Init, Counters
<1>2. Init => Logged /\ Sleeping
  BY InitSleeping
<1>3. Inv /\ Logged /\ Sleeping /\ Counters => TypeOK
  <2> SUFFICES ASSUME Inv, Logged, Sleeping, Counters PROVE TypeOK
    OBVIOUS
  <2>1. free \in 0 .. Slots
    <3>1. Cardinality(Holding) \in Nat
      <4>1. Holding \subseteq Caller
        BY DEF Holding
      <4> QED BY <4>1, FS_Subset, FS_CardinalityType, CallsAssumption
    <3> QED BY <3>1, CallsAssumption DEF Inv, Sizes, SlotsAccounted, Holding
  <2>2. sleep \in [Caller -> 0 .. Window]
    <3>1. ASSUME NEW c \in Caller PROVE sleep[c] \in 0 .. Window
      <4>1. sleep[c] \in Nat
        BY DEF Logged
      <4>2. CASE sleep[c] > 0
        <5>1. sleep[c] + Live[1].age <= Window /\ Live[1].age \in Nat
          BY <4>2, LiveIs, EntryOf DEF Sleeping, Turned
        <5> QED BY <4>1, <5>1, WindowIs
      <4>3. CASE sleep[c] = 0
        BY <4>3, WindowIs
      <4> QED BY <4>1, <4>2, <4>3
    <3> QED BY <3>1 DEF Logged
  <2> QED BY <2>1, <2>2 DEF Inv, Sizes, Logged, Counters, TypeOK
<1>4. Inv => Sizes
  BY DEF Inv
<1> QED
  BY <1>1, <1>2, <1>3, <1>4, SleepStep, CountersStep, Invariance, PTL DEF Spec
=============================================================================
