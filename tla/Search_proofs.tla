---------------------------- MODULE Search_proofs ----------------------------
(***************************************************************************)
(* What holds of the searches for any number of callers, runs, queries,    *)
(* providers and slots: no failure is lost, a closed provider is not       *)
(* rushed, every provider is tried, and "exhausted" has a cause.           *)
(***************************************************************************)
EXTENDS Search, FiniteSetTheorems, TLAPS

(* The steps between which a search has a slot of its provider, and those  *)
(* of them at which it has passed the second look.                         *)
Past == {"dial", "call", "success", "count", "insert", "counted", "trip", "trip_insert",
         "trip_write"}
Busy == Past \cup {"look", "queue", "again"}
Slotted == Past \cup {"again"}
Of(r, p, steps) == {s \in Search : RunOf(s) = r /\ Here(s) = p /\ pc[s] \in steps}
Calling == {s \in Search : pc[s] = "call"}

(* Types, without the upper bound of the slots.                            *)
Types ==
  /\ row \in [Provider -> Row \cup {NoRow}] /\ lock \in [Provider -> Search \cup {Nobody}]
  /\ now \in 0 .. MaxNow /\ pc \in [Search -> Busy \cup {"idle", "over"}]
  /\ at \in [Search -> DOMAIN Order]
  /\ tries \in [Search -> 0 .. MaxAttempts] /\ reset \in [Search -> Nat]
  /\ secs \in [Search -> Nat] /\ stamp \in [Search -> 0 .. MaxNow]
  /\ again \in [Search -> BOOLEAN] /\ saw \in [Search -> Row \cup {NoRow}]
  /\ errs \in [Search -> Seq(Reason)] /\ blocked \in [Search -> Seq(Reason)]
  /\ answer \in [Search -> {"none", "results", "failed", "exhausted", "broke"}]
  /\ gate \in [Run -> [Provider -> Int]] /\ http \in Int
  /\ calls \in [Caller -> 0 .. MaxCalls] /\ want \in [Caller -> SUBSET Query]
  /\ reply \in [Caller -> [status : {"none", "completed", "failed"}, exhausted : BOOLEAN,
                           found : SUBSET Query]]
  /\ cache \in [Run -> SUBSET Query]
  /\ noted \in [Provider -> Nat] /\ late \in [Provider -> SUBSET Search] /\ refused \subseteq Provider
  /\ faults \in 0 .. MaxFaults

(* A slot is free or with a search that is between the gate and the end.   *)
Gated ==
  \A r \in Run, p \in Provider :
    gate[r][p] >= 0 /\ gate[r][p] + Cardinality(Of(r, p, Slotted)) = Slots
Lined == http >= 0 /\ http + Cardinality(Calling) = Slots

(* Where the loop stands: so many providers are behind it.                 *)
Counts(s) == Len(errs[s]) + Len(blocked[s])
Progress ==
  \A s \in Search :
    /\ pc[s] = "idle" => at[s] = 1 /\ answer[s] = "none" /\ Counts(s) = 0
    /\ pc[s] \in Busy => answer[s] = "none" /\ Counts(s) = at[s] - 1
    /\ answer[s] \in {"failed", "exhausted"} => pc[s] = "over" /\ Counts(s) = Len(Order)

(* The transaction that has the lock has read what is still in the row, or *)
(* is the only one to insert it.                                           *)
Sees(s) ==
  /\ lock[Here(s)] = s /\ saw[s] # NoRow
  /\ IF row[Here(s)] = NoRow THEN saw[s].failures = 0 /\ saw[s].strikes = 0
                             ELSE saw[s] = row[Here(s)]
Table ==
  /\ FailuresCounted
  /\ \A p \in Provider : row[p] # NoRow => row[p].failures < Threshold
  /\ \A s \in Search : pc[s] = "counted" => Sees(s)

(* Nobody speaks of the account before it was refused.                     *)
Says(e) == \E k \in DOMAIN e : e[k] = AccountLevel
Tripping == {"trip", "trip_insert", "trip_write"}
Quiet(s) ==
  /\ pc[s] \in Tripping => reset[s] # 0
  /\ ~Says(errs[s]) /\ ~Says(blocked[s]) /\ answer[s] # "exhausted"
Silent ==
  /\ \A p \in Provider : row[p] # NoRow => row[p].reason # AccountLevel
  /\ \A s \in Search : Quiet(s)
  /\ \A c \in Caller : ~reply[c].exhausted
Cause == refused # {} \/ Silent

(* Who may still call a provider, or has called it, while its window is    *)
(* open.                                                                   *)
Rush(r, p) == {s \in late[p] : RunOf(s) = r} \cup Of(r, p, Past)
Burst ==
  \A p \in Provider :
    /\ ~Open(row[p]) => late[p] = {}
    /\ \A r \in Run : Cardinality(Rush(r, p)) <= Slots

Inv == Types /\ Gated /\ Lined /\ Progress /\ Table /\ Cause /\ Burst

-----------------------------------------------------------------------------
(* TYPES *)

LEMMA Places ==
  ASSUME at \in [Search -> DOMAIN Order], NEW s \in Search
  PROVE  /\ s[1] \in Caller /\ s[2] \in Query /\ RunOf(s) \in Run
         /\ Here(s) \in Provider /\ at[s] \in Nat \ {0} /\ at[s] <= Len(Order) /\ Len(Order) \in Nat
<1>1. s[1] \in Caller /\ s[2] \in Query
  BY DEF Search
<1>2. DOMAIN Order = 1 .. Len(Order) /\ Len(Order) \in Nat
  BY SearchAssumption
<1>3. Here(s) \in Provider
  BY SearchAssumption DEF Here
<1> QED
  BY <1>1, <1>2, <1>3, SearchAssumption DEF RunOf

LEMMA Limits ==
  /\ Slots \in Nat /\ Slots > 0 /\ MaxAttempts \in Nat /\ MaxAttempts > 0
  /\ Threshold \in Nat /\ Threshold > 0 /\ Base \in Nat /\ Longest \in Nat
  /\ Account \in Nat /\ RateWindow \in Nat /\ RateWindow > 0
  /\ MaxActive \in Nat /\ MaxCalls \in Nat /\ MaxNow \in Nat /\ MaxFaults \in Nat
BY SearchAssumption

LEMMA InitTypes == Init => Types
<1> USE SearchAssumption DEF Init, Types, Row, Reason, AccountLevel
<1> SUFFICES ASSUME Init PROVE Types
  OBVIOUS
<1>1. 1 \in DOMAIN Order
  OBVIOUS
<1>2. row \in [Provider -> Row \cup {NoRow}] /\ noted \in [Provider -> Nat]
  BY NullsAreNulls DEF Earlier
<1>3. reply \in [Caller -> [status : {"none", "completed", "failed"}, exhausted : BOOLEAN,
                           found : SUBSET Query]]
  BY DEF NoReply
<1> QED
  BY <1>1, <1>2, <1>3

(* The ends of a search, and what a step of the table writes.              *)
LEMMA ClearTypes ==
  ASSUME Types, NEW s \in Search, Clear(s)
  PROVE  /\ tries' \in [Search -> 0 .. MaxAttempts] /\ reset' \in [Search -> Nat]
         /\ secs' \in [Search -> Nat] /\ stamp' \in [Search -> 0 .. MaxNow]
         /\ again' \in [Search -> BOOLEAN] /\ saw' \in [Search -> Row \cup {NoRow}]
BY Limits DEF Types, Clear

LEMMA AdvanceTypes ==
  ASSUME Types, NEW s \in Search, NEW e \in Seq(Reason), NEW b \in Seq(Reason), Advance(s, e, b)
  PROVE  /\ at' \in [Search -> DOMAIN Order] /\ pc' \in [Search -> Busy \cup {"idle", "over"}]
         /\ errs' \in [Search -> Seq(Reason)] /\ blocked' \in [Search -> Seq(Reason)]
         /\ answer' \in [Search -> {"none", "results", "failed", "exhausted", "broke"}]
<1>1. Verdict(e, b) \in {"failed", "exhausted"}
  BY DEF Verdict
<1>2. More(s, e) => at[s] + 1 \in DOMAIN Order
  <2>1. DOMAIN Order = 1 .. Len(Order) /\ Len(Order) \in Nat
    BY SearchAssumption
  <2> QED
    BY <2>1 DEF Types, More
<1>3. pc' \in [Search -> Busy \cup {"idle", "over"}]
  BY DEF Types, Advance, Busy
<1>4. at' \in [Search -> DOMAIN Order]
  BY <1>2 DEF Types, Advance
<1>5. answer' \in [Search -> {"none", "results", "failed", "exhausted", "broke"}]
  BY <1>1 DEF Types, Advance
<1> QED
  BY <1>3, <1>4, <1>5 DEF Types, Advance

LEMMA EndsTypes ==
  ASSUME Types, NEW s \in Search, NEW what \in {"results", "broke"}, Ends(s, what)
  PROVE  /\ at' \in [Search -> DOMAIN Order] /\ pc' \in [Search -> Busy \cup {"idle", "over"}]
         /\ errs' \in [Search -> Seq(Reason)] /\ blocked' \in [Search -> Seq(Reason)]
         /\ answer' \in [Search -> {"none", "results", "failed", "exhausted", "broke"}]
BY DEF Types, Ends, Busy

LEMMA WriteTypes ==
  ASSUME Types, NEW s \in Search, NEW r \in Row \cup {NoRow}, Write(s, r)
  PROVE  row' \in [Provider -> Row \cup {NoRow}] /\ late' \in [Provider -> SUBSET Search]
BY DEF Types, Write

LEMMA GiveTypes ==
  ASSUME Types, NEW s \in Search, Give(s) PROVE gate' \in [Run -> [Provider -> Int]]
BY Places DEF Types, Give

LEMMA LoopTypes ==
  ASSUME Types, NEW s \in Search, Look(s) \/ Enter(s) \/ LookAgain(s) \/ Dial(s) PROVE Types'
<1> USE DEF ledger, loop, request, txn, slots, tool, history
<1>1. CASE Look(s)
  <2>1. CASE Blocked(Here(s))
    <3>1. row[Here(s)].reason \in Reason /\ errs[s] \in Seq(Reason) /\ blocked[s] \in Seq(Reason)
      BY <2>1, Places DEF Types, Blocked, Open, Row
    <3>2. Append(blocked[s], row[Here(s)].reason) \in Seq(Reason)
      BY <3>1
    <3>3. Advance(s, errs[s], Append(blocked[s], row[Here(s)].reason))
      BY <1>1, <2>1 DEF Look, Skips
    <3>4. Clear(s)
      BY <3>3 DEF Advance
    <3> QED
      BY <1>1, <3>1, <3>2, <3>3, <3>4, AdvanceTypes, ClearTypes DEF Types, Look
  <2>2. CASE ~Blocked(Here(s))
    BY <1>1, <2>2 DEF Types, Look, To, Busy
  <2> QED
    BY <2>1, <2>2
<1>2. CASE Enter(s)
  BY <1>2, Places DEF Types, Enter, To, Busy
<1>3. CASE LookAgain(s)
  <2>1. CASE Blocked(Here(s))
    <3>1. row[Here(s)].reason \in Reason /\ errs[s] \in Seq(Reason) /\ blocked[s] \in Seq(Reason)
      BY <2>1, Places DEF Types, Blocked, Open, Row
    <3>2. Append(blocked[s], row[Here(s)].reason) \in Seq(Reason)
      BY <3>1
    <3>3. Advance(s, errs[s], Append(blocked[s], row[Here(s)].reason)) /\ Give(s)
      BY <1>3, <2>1 DEF LookAgain, StillBlocked, Skips
    <3>4. Clear(s)
      BY <3>3 DEF Advance
    <3> QED
      BY <1>3, <3>1, <3>2, <3>3, <3>4, AdvanceTypes, ClearTypes, GiveTypes DEF Types, LookAgain
  <2>2. CASE ~Blocked(Here(s))
    BY <1>3, <2>2 DEF Types, LookAgain, StillBlocked, To, Busy, Past
  <2> QED
    BY <2>1, <2>2
<1>4. CASE Dial(s)
  BY <1>4, Places DEF Types, Dial, To, Busy, Past
<1> QED
  BY <1>1, <1>2, <1>3, <1>4

LEMMA RequestTypes ==
  ASSUME Types, NEW s \in Search,
         Succeeds(s) \/ Refused(s) \/ Rejected(s) \/ \E limited \in BOOLEAN : Falters(s, limited)
  PROVE  Types'
<1> USE Limits DEF ledger, loop, request, txn, tool, Hears, Told, Note, To, Busy, Past
<1>1. CASE Succeeds(s)
  BY <1>1 DEF Types, Succeeds
<1>2. CASE Refused(s)
  <2>1. refused' \subseteq Provider
    BY <1>2, Places DEF Types, Refused
  <2> QED
    BY <1>2, <2>1 DEF Types, Refused
<1>3. CASE Rejected(s)
  BY <1>3 DEF Types, Rejected
<1>4. ASSUME NEW limited \in BOOLEAN, Falters(s, limited) PROVE Types'
  <2> DEFINE until == IF limited THEN now + RateWindow ELSE reset[s]
             window == IF until > now THEN until - now ELSE 1
  <2>1. until \in Nat /\ window \in Nat
    BY DEF Types
  <2> HIDE DEF until, window
  <2>2. /\ Hears(s) /\ Told /\ UNCHANGED refused
        /\ reset' = [reset EXCEPT ![s] = until]
        /\ \/ tries[s] + 1 < MaxAttempts /\ To(s, "dial") /\ UNCHANGED txn
              /\ tries' = [tries EXCEPT ![s] = @ + 1]
           \/ Note(s, "trip", window) \/ Note(s, "count", 0)
    BY <1>4 DEF Falters, until, window
  <2>3. ASSUME NEW step \in {"trip", "count"}, NEW length \in Nat, Note(s, step, length) PROVE Types'
    BY <2>1, <2>2, <2>3 DEF Types
  <2>4. CASE tries[s] + 1 < MaxAttempts /\ To(s, "dial") /\ UNCHANGED txn
               /\ tries' = [tries EXCEPT ![s] = @ + 1]
    BY <2>1, <2>2, <2>4 DEF Types
  <2> QED
    BY <2>1, <2>2, <2>3, <2>4
<1> QED
  BY <1>1, <1>2, <1>3, <1>4

(* What a transaction does at its end, with the slot in hand.              *)
LEMMA FailsTypes ==
  ASSUME Types, NEW s \in Search, NEW kind \in Reason, Fails(s, kind), Give(s),
         row' \in [Provider -> Row \cup {NoRow}], lock' \in [Provider -> Search \cup {Nobody}],
         noted' \in [Provider -> Nat], late' \in [Provider -> SUBSET Search],
         UNCHANGED <<now, http, tool, refused, faults>>
  PROVE  Types'
<1>1. errs[s] \in Seq(Reason) /\ blocked[s] \in Seq(Reason)
  BY DEF Types
<1>2. Append(errs[s], kind) \in Seq(Reason)
  BY <1>1
<1>3. Advance(s, Append(errs[s], kind), blocked[s])
  BY DEF Fails
<1>4. Clear(s)
  BY <1>3 DEF Advance
<1> QED
  BY <1>1, <1>2, <1>3, <1>4, AdvanceTypes, ClearTypes, GiveTypes DEF Types, tool

LEMMA MoveTypes ==
  ASSUME Types, NEW s \in Search, NEW step \in Busy, To(s, step),
         lock' \in [Provider -> Search \cup {Nobody}], stamp' \in [Search -> 0 .. MaxNow],
         again' \in [Search -> BOOLEAN], saw' \in [Search -> Row \cup {NoRow}],
         UNCHANGED <<row, now, loop, request, secs, gate, http, tool, history, faults>>
  PROVE  Types'
BY DEF Types, To, loop, request, tool, history

LEMMA EndsKeepTypes ==
  ASSUME Types, NEW s \in Search, NEW what \in {"results", "broke"}, Ends(s, what),
         gate' \in [Run -> [Provider -> Int]],
         row' \in [Provider -> Row \cup {NoRow}], lock' \in [Provider -> Search \cup {Nobody}],
         noted' \in [Provider -> Nat], late' \in [Provider -> SUBSET Search], faults' \in 0 .. MaxFaults,
         UNCHANGED <<now, http, tool, refused>>
  PROVE  Types'
<1>1. Clear(s)
  BY DEF Ends
<1> QED
  BY <1>1, EndsTypes, ClearTypes DEF Types, tool

LEMMA ClashTypes ==
  ASSUME Types, NEW s \in Search, NEW step \in {"count", "trip"}, Clash(s, step), InTable
  PROVE  Types'
<1>1. CASE again[s]
  <2>1. Give(s) /\ Ends(s, "broke") /\ UNCHANGED <<ledger, noted, late>>
    BY <1>1 DEF Clash
  <2> QED
    BY <2>1, EndsKeepTypes, GiveTypes DEF InTable, ledger, Types
<1>2. CASE ~again[s]
  <2>1. /\ To(s, step) /\ again' = [again EXCEPT ![s] = TRUE] /\ stamp' = [stamp EXCEPT ![s] = now]
        /\ UNCHANGED <<loop, request, secs, saw, gate, ledger, noted, late>>
    BY <1>2 DEF Clash
  <2>2. again' \in [Search -> BOOLEAN] /\ stamp' \in [Search -> 0 .. MaxNow]
    BY <2>1 DEF Types
  <2>3. lock' \in [Provider -> Search \cup {Nobody}] /\ saw' \in [Search -> Row \cup {NoRow}]
    BY <2>1 DEF Types, ledger
  <2>4. UNCHANGED <<row, now, loop, request, secs, gate, http, tool, history, faults>>
    BY <2>1 DEF InTable, ledger, history
  <2> QED
    BY <2>1, <2>2, <2>3, <2>4, MoveTypes DEF Busy, Past
<1> QED
  BY <1>1, <1>2

LEMMA Cooldowns == ASSUME NEW n \in Nat PROVE Cooldown(n) \in Nat
<1>1. Larger(1, n) \in Nat
  BY DEF Larger
<1>2. Base * Larger(1, n) \in Nat
  BY <1>1, Limits
<1> QED
  BY <1>2, Limits DEF Cooldown, Smaller

LEMMA RowEdits ==
  ASSUME NEW r \in Row, NEW why \in Reason, NEW t \in Nat
  PROVE  /\ [r EXCEPT !.reason = why, !.open = t] \in Row
         /\ [r EXCEPT !.reason = why, !.failures = @ + 1] \in Row
         /\ [r EXCEPT !.failures = 0, !.strikes = @ + 1, !.open = t] \in Row
<1>1. r.failures + 1 \in Nat /\ r.strikes + 1 \in Nat
  BY DEF Row
<1>2. [r EXCEPT !.reason = why, !.open = t] \in Row
  BY DEF Row
<1>3. [r EXCEPT !.reason = why, !.failures = r.failures + 1] \in Row
  BY <1>1, Zenon DEF Row
<1>4. [r EXCEPT !.failures = 0, !.strikes = r.strikes + 1, !.open = t] \in Row
  BY <1>1 DEF Row
<1> QED
  BY <1>2, <1>3, <1>4

(* Every row a transaction writes is a row.                                *)
LEMMA Rows ==
  ASSUME Types, NEW s \in Search
  PROVE  /\ WhyOf(s) \in Reason /\ Until(s) \in Nat
         /\ [reason |-> WhyOf(s), open |-> Until(s), failures |-> 0, strikes |-> 0] \in Row
         /\ [reason |-> "tool_request", open |-> stamp[s], failures |-> 0, strikes |-> 0] \in Row
         /\ row[Here(s)] # NoRow =>
              [row[Here(s)] EXCEPT !.reason = WhyOf(s), !.open = Until(s)] \in Row
         /\ saw[s] # NoRow => Counted(s) \in Row
<1>1. WhyOf(s) \in Reason /\ "tool_request" \in Reason
  BY DEF WhyOf, Reason
<1>2. Until(s) \in Nat /\ stamp[s] \in Nat
  BY Limits DEF Types, Until
<1>3. ASSUME row[Here(s)] # NoRow
      PROVE  [row[Here(s)] EXCEPT !.reason = WhyOf(s), !.open = Until(s)] \in Row
  <2>1. row[Here(s)] \in Row
    BY <1>3, Places DEF Types
  <2> QED
    BY <1>1, <1>2, <2>1, RowEdits
<1>4. ASSUME saw[s] # NoRow PROVE Counted(s) \in Row
  <2>1. saw[s] \in Row
    BY <1>4 DEF Types
  <2> DEFINE r == [saw[s] EXCEPT !.reason = "tool_request", !.failures = @ + 1]
  <2>2. r \in Row
    <3>1. \A q \in Row, why \in Reason, t \in Nat :
            [q EXCEPT !.reason = why, !.failures = @ + 1] \in Row
      BY RowEdits
    <3> QED
      BY <1>1, <1>2, <2>1, <3>1
  <2> HIDE DEF r
  <2>3. Cooldown(r.strikes + 1) \in Nat
    <3>1. r.strikes + 1 \in Nat
      BY <2>2 DEF Row
    <3> QED
      BY <3>1, Cooldowns
  <2>4. [r EXCEPT !.failures = 0, !.strikes = @ + 1,
                  !.open = stamp[s] + Cooldown(r.strikes + 1)] \in Row
    <3>1. stamp[s] + Cooldown(r.strikes + 1) \in Nat
      BY <1>2, <2>3
    <3> QED
      BY <1>1, <2>2, <3>1, RowEdits, Zenon
  <2> QED
    BY <2>2, <2>4 DEF Counted, r
<1> QED
  BY <1>1, <1>2, <1>3, <1>4 DEF Row

LEMMA TableTypes ==
  ASSUME Types, NEW s \in Search, pc[s] = "counted" => saw[s] # NoRow,
         Success(s) \/ CountRead(s) \/ CountInsert(s) \/ CountCommit(s) \/ Outage(s)
  PROVE  Types'
<1> USE DEF InTable, ledger, loop, request, txn, tool, history
<1>1. CASE Success(s)
  <2>1. row' \in [Provider -> Row \cup {NoRow}] /\ late' \in [Provider -> SUBSET Search]
    BY <1>1, WriteTypes DEF Success
  <2>2. noted' \in [Provider -> Nat]
    BY <1>1 DEF Success, Types
  <2> QED
    BY <1>1, <2>1, <2>2, EndsKeepTypes, GiveTypes DEF Success, Types
<1>2. CASE CountRead(s)
  BY <1>2, Places DEF CountRead, Locked, To, Types, Busy, Past
<1>3. CASE CountInsert(s)
  <2>1. CASE Clash(s, "count")
    BY <1>3, <2>1, ClashTypes DEF CountInsert
  <2> DEFINE new == [reason |-> "tool_request", open |-> stamp[s], failures |-> 0, strikes |-> 0]
  <2>2. CASE /\ lock' = [lock EXCEPT ![Here(s)] = s] /\ saw' = [saw EXCEPT ![s] = new]
             /\ To(s, "counted") /\ UNCHANGED <<row, loop, request, secs, stamp, again, gate, noted, late>>
    <3>1. new \in Row
      BY Rows
    <3> HIDE DEF new
    <3>2. lock' \in [Provider -> Search \cup {Nobody}] /\ saw' \in [Search -> Row \cup {NoRow}]
      BY <2>2, <3>1 DEF Types
    <3>3. stamp' \in [Search -> 0 .. MaxNow] /\ again' \in [Search -> BOOLEAN]
      BY <2>2 DEF Types
    <3>4. UNCHANGED <<row, now, loop, request, secs, gate, http, tool, history, faults>>
      BY <1>3, <2>2 DEF CountInsert
    <3> QED
      BY <2>2, <3>2, <3>3, <3>4, MoveTypes DEF Busy, Past
  <2> QED
    BY <1>3, <2>1, <2>2 DEF CountInsert
<1>4. CASE CountCommit(s)
  <2>1. row' \in [Provider -> Row \cup {NoRow}] /\ late' \in [Provider -> SUBSET Search]
    BY <1>4, WriteTypes, Rows DEF CountCommit
  <2>2. noted' \in [Provider -> Nat] /\ lock' \in [Provider -> Search \cup {Nobody}]
    BY <1>4, Places DEF CountCommit, Types
  <2>3. "tool_request" \in Reason
    BY DEF Reason
  <2> QED
    BY <1>4, <2>1, <2>2, <2>3, FailsTypes DEF CountCommit
<1>5. CASE Outage(s)
  <2>1. gate' \in [Run -> [Provider -> Int]]
    BY <1>5, Places DEF Outage, Returned, Types
  <2>2. lock' \in [Provider -> Search \cup {Nobody}] /\ faults' \in 0 .. MaxFaults
    BY <1>5, Places, Limits DEF Outage, Types
  <2> QED
    BY <1>5, <2>1, <2>2, EndsKeepTypes DEF Outage, Types
<1> QED
  BY <1>1, <1>2, <1>3, <1>4, <1>5

LEMMA TripTypes ==
  ASSUME Types, NEW s \in Search, TripRead(s) \/ TripInsert(s) \/ TripWrite(s) PROVE Types'
<1> USE DEF InTable, ledger, loop, request, txn, tool, history
<1>1. CASE TripRead(s)
  <2>1. CASE Tripped(s)
    <3>1. WhyOf(s) \in Reason /\ Give(s) /\ Fails(s, WhyOf(s))
      BY <2>1, Rows DEF Tripped
    <3>2. UNCHANGED <<row, lock, noted, late, now, http, tool, refused, faults>>
      BY <1>1 DEF TripRead
    <3>3. /\ row' \in [Provider -> Row \cup {NoRow}] /\ lock' \in [Provider -> Search \cup {Nobody}]
          /\ noted' \in [Provider -> Nat] /\ late' \in [Provider -> SUBSET Search]
      BY <3>2 DEF Types
    <3> QED
      BY <3>1, <3>2, <3>3, FailsTypes
  <2>2. ASSUME NEW step \in {"trip_insert", "trip_write"}, To(s, step),
               UNCHANGED <<loop, request, txn, gate>>
        PROVE  Types'
    <3>1. UNCHANGED <<row, lock, stamp, again, saw, now, loop, request, secs, gate, http, tool, history,
                      faults>>
      BY <1>1, <2>2 DEF TripRead
    <3>2. /\ lock' \in [Provider -> Search \cup {Nobody}] /\ stamp' \in [Search -> 0 .. MaxNow]
          /\ again' \in [Search -> BOOLEAN] /\ saw' \in [Search -> Row \cup {NoRow}]
      BY <3>1 DEF Types
    <3> QED
      BY <2>2, <3>1, <3>2, MoveTypes DEF Busy, Past
  <2> QED
    BY <1>1, <2>1, <2>2 DEF TripRead
<1>2. CASE TripInsert(s)
  <2>1. CASE Clash(s, "trip")
    BY <1>2, <2>1, ClashTypes DEF TripInsert
  <2>2. CASE ~Clash(s, "trip")
    BY <1>2, <2>2, WriteTypes, Rows, FailsTypes DEF TripInsert, Tripped, Types
  <2> QED
    BY <2>1, <2>2
<1>3. CASE TripWrite(s)
  <2>1. CASE row[Here(s)] = NoRow
    BY <1>3, <2>1, EndsKeepTypes, GiveTypes DEF TripWrite, Types
  <2>2. CASE row[Here(s)] # NoRow
    BY <1>3, <2>2, WriteTypes, Rows, FailsTypes DEF TripWrite, Tripped, Types
  <2> QED
    BY <2>1, <2>2
<1> QED
  BY <1>1, <1>2, <1>3

LEMMA ToolTypes ==
  ASSUME Types, NEW c \in Caller, Finish(c) \/ \E queries \in SUBSET Topic[c] : Begin(c, queries)
  PROVE  Types'
<1> USE DEF ledger, loop, request, txn, slots, tool, history
<1>1. Topic[c] \subseteq Query /\ Home[c] \in Run
  BY SearchAssumption
<1>2. CASE Finish(c)
  <2> DEFINE mine  == {s \in Mine(c) : pc[s] = "over"}
             found == {s[2] : s \in {t \in mine : answer[t] = "results"}}
             known == found \cup (want[c] \ {s[2] : s \in mine})
  <2>1. found \subseteq Query /\ known \subseteq Query
    BY Places DEF Mine, Types
  <2>2. \/ reply' = [reply EXCEPT ![c] = [status |-> "failed", exhausted |-> TRUE, found |-> {}]]
           /\ UNCHANGED cache
        \/ reply' = [reply EXCEPT ![c] = [status |-> IF known = {} THEN "failed" ELSE "completed",
                                         exhausted |-> FALSE, found |-> known]]
           /\ cache' = [cache EXCEPT ![Home[c]] = @ \cup found]
    BY <1>2 DEF Finish
  <2>3. /\ pc' = Each(mine, pc, "idle") /\ at' = Each(mine, at, 1)
        /\ errs' = Each(mine, errs, <<>>) /\ blocked' = Each(mine, blocked, <<>>)
        /\ answer' = Each(mine, answer, "none") /\ want' = [want EXCEPT ![c] = {}]
        /\ UNCHANGED <<ledger, now, request, txn, slots, calls, history, faults>>
    BY <1>2 DEF Finish
  <2> HIDE DEF mine, found, known
  <2>4. reply' \in [Caller -> [status : {"none", "completed", "failed"}, exhausted : BOOLEAN,
                             found : SUBSET Query]] /\ cache' \in [Run -> SUBSET Query]
    <3> DEFINE result == [status : {"none", "completed", "failed"}, exhausted : BOOLEAN,
                          found : SUBSET Query]
    <3>1. /\ [status |-> "failed", exhausted |-> TRUE, found |-> {}] \in result
          /\ [status |-> IF known = {} THEN "failed" ELSE "completed",
              exhausted |-> FALSE, found |-> known] \in result
      BY <2>1
    <3>2. reply \in [Caller -> result] /\ cache \in [Run -> SUBSET Query]
      BY DEF Types
    <3> HIDE DEF result
    <3>3. reply' \in [Caller -> result]
      BY <2>2, <3>1, <3>2
    <3>4. cache' \in [Run -> SUBSET Query]
      BY <1>1, <2>1, <2>2, <3>2
    <3> QED
      BY <3>3, <3>4 DEF result
  <2>5. 1 \in DOMAIN Order
    BY SearchAssumption
  <2>6. pc' \in [Search -> Busy \cup {"idle", "over"}] /\ at' \in [Search -> DOMAIN Order]
    BY <2>3, <2>5 DEF Types, Each
  <2>7. errs' \in [Search -> Seq(Reason)] /\ blocked' \in [Search -> Seq(Reason)]
    BY <2>3 DEF Types, Each
  <2>8. /\ answer' \in [Search -> {"none", "results", "failed", "exhausted", "broke"}]
        /\ want' \in [Caller -> SUBSET Query]
    BY <2>3 DEF Types, Each
  <2> QED
    BY <2>3, <2>4, <2>6, <2>7, <2>8 DEF Types
<1>3. ASSUME NEW queries \in SUBSET Topic[c], Begin(c, queries) PROVE Types'
  <2>1. reply' \in [Caller -> [status : {"none", "completed", "failed"}, exhausted : BOOLEAN,
                             found : SUBSET Query]]
    BY <1>1, <1>3 DEF Begin, Types, NoReply
  <2>2. pc' \in [Search -> Busy \cup {"idle", "over"}]
    BY <1>3 DEF Begin, Types, Each, Busy
  <2>3. want' \in [Caller -> SUBSET Query] /\ calls' \in [Caller -> 0 .. MaxCalls]
    BY <1>1, <1>3, Limits DEF Begin, Types
  <2>4. UNCHANGED <<ledger, now, loop, request, txn, slots, cache, history, faults>>
    BY <1>3 DEF Begin
  <2> QED
    BY <2>1, <2>2, <2>3, <2>4 DEF Types
<1> QED
  BY <1>2, <1>3

LEMMA TypesStep == Types /\ Table /\ [Next]_vars => Types'
<1> SUFFICES ASSUME Types, Table, [Next]_vars PROVE Types'
  OBVIOUS
<1>1. CASE Tick
  BY <1>1, Limits DEF Tick, Types, ledger, loop, request, txn, slots, tool
<1>2. ASSUME NEW s \in Search, Steps(s) \/ Outage(s) PROVE Types'
  BY <1>2, LoopTypes, RequestTypes, TableTypes, TripTypes DEF Steps, Table, Sees
<1>3. CASE UNCHANGED vars
  BY <1>3 DEF vars, Types, ledger, loop, request, txn, slots, tool, history
<1> QED
  BY <1>1, <1>2, <1>3, ToolTypes DEF Next

-----------------------------------------------------------------------------
(* KINDS OF STEPS.  A step of a search goes on with its provider, or is    *)
(* done with it: the provider failed, was left out, or the search ends.    *)

Walks(s, step) ==
  /\ pc[s] \in Busy /\ To(s, step) /\ UNCHANGED loop
  /\ \/ Enter(s)
     \/ UNCHANGED gate /\ (pc[s] \in Slotted <=> step \in Slotted)
  /\ step \in Past /\ pc[s] \notin Past => pc[s] = "again" /\ ~Open(row[Here(s)])
Frees(s) ==
  \/ pc[s] = "look" /\ UNCHANGED gate
  \/ pc[s] \in Slotted /\ Give(s)
Leaves(s) ==
  /\ Frees(s)
  /\ \/ \E kind \in Reason :
          Fails(s, kind) /\ (kind = AccountLevel => pc[s] \in Tripping /\ reset[s] = 0)
     \/ Skips(s) /\ row[Here(s)] # NoRow
     \/ \E what \in {"results", "broke"} : Ends(s, what)
Kind(s) == ((\E step \in Busy : Walks(s, step)) \/ Leaves(s)) /\ UNCHANGED tool

LEMMA LoopKinds ==
  ASSUME Types, NEW s \in Search, Look(s) \/ Enter(s) \/ LookAgain(s) \/ Dial(s) PROVE Kind(s)
<1> USE DEF Kind, Busy, Past, Slotted
<1>1. CASE Look(s)
  <2>1. CASE Blocked(Here(s))
    BY <1>1, <2>1 DEF Look, Frees, Leaves, Blocked, Open, slots
  <2>2. CASE ~Blocked(Here(s))
    <3>1. Walks(s, "queue")
      BY <1>1, <2>2 DEF Look, Walks, slots
    <3> QED
      BY <1>1, <3>1 DEF Look
  <2> QED
    BY <2>1, <2>2
<1>2. CASE Enter(s)
  <2>1. Walks(s, "again")
    BY <1>2 DEF Enter, Walks
  <2> QED
    BY <1>2, <2>1 DEF Enter
<1>3. CASE LookAgain(s)
  <2>1. CASE Blocked(Here(s))
    BY <1>3, <2>1 DEF LookAgain, Frees, Leaves, StillBlocked, Blocked, Open
  <2>2. CASE ~Blocked(Here(s))
    <3>1. Walks(s, "dial")
      BY <1>3, <2>2 DEF LookAgain, Walks, StillBlocked, Blocked
    <3> QED
      BY <1>3, <3>1 DEF LookAgain
  <2> QED
    BY <2>1, <2>2
<1>4. CASE Dial(s)
  <2>1. Walks(s, "call")
    BY <1>4 DEF Dial, Walks
  <2> QED
    BY <1>4, <2>1 DEF Dial
<1> QED
  BY <1>1, <1>2, <1>3, <1>4

LEMMA RequestKinds ==
  ASSUME Types, NEW s \in Search,
         Succeeds(s) \/ Refused(s) \/ Rejected(s) \/ \E limited \in BOOLEAN : Falters(s, limited)
  PROVE  Kind(s) /\ Hears(s) /\ Told /\ pc'[s] # "call"
<1>1. PICK step \in {"success", "trip", "count", "dial"} : To(s, step)
  BY DEF Succeeds, Refused, Rejected, Falters, Note
<1>2. Hears(s) /\ Told
  BY DEF Succeeds, Refused, Rejected, Falters
<1>3. pc'[s] # "call"
  BY <1>1 DEF To, Types
<1>4. Walks(s, step)
  BY <1>1, <1>2 DEF Hears, Told, Walks, Busy, Past, Slotted
<1> QED
  BY <1>1, <1>2, <1>3, <1>4 DEF Kind, Told, Busy, Past

LEMMA TableKinds ==
  ASSUME Types, NEW s \in Search,
         Success(s) \/ CountRead(s) \/ CountInsert(s) \/ CountCommit(s) \/ Outage(s)
  PROVE  Kind(s)
<1> USE DEF Kind, Busy, Past, Slotted, InTable
<1>1. CASE Success(s)
  BY <1>1 DEF Success, Frees, Leaves
<1>2. CASE CountRead(s)
  <2>1. PICK step \in {"insert", "counted"} : To(s, step)
    BY <1>2 DEF CountRead
  <2>2. Walks(s, step)
    BY <1>2, <2>1 DEF CountRead, Walks
  <2> QED
    BY <1>2, <2>1, <2>2 DEF CountRead
<1>3. CASE CountInsert(s)
  <2>1. CASE Ends(s, "broke") /\ Give(s)
    BY <1>3, <2>1 DEF CountInsert, Frees, Leaves
  <2>2. ASSUME NEW step \in {"count", "counted"}, To(s, step), UNCHANGED <<loop, gate>> PROVE Kind(s)
    <3>1. Walks(s, step)
      BY <1>3, <2>2 DEF CountInsert, Walks
    <3> QED
      BY <1>3, <2>2, <3>1 DEF CountInsert
  <2> QED
    BY <1>3, <2>1, <2>2 DEF CountInsert, Clash
<1>4. CASE CountCommit(s)
  <2>1. "tool_request" \in Reason /\ "tool_request" # AccountLevel
    BY DEF Reason, AccountLevel
  <2> QED
    BY <1>4, <2>1 DEF CountCommit, Frees, Leaves
<1>5. CASE Outage(s)
  <2>1. Frees(s)
    BY <1>5 DEF Outage, Returned, Give, Frees
  <2> QED
    BY <1>5, <2>1 DEF Outage, Leaves
<1> QED
  BY <1>1, <1>2, <1>3, <1>4, <1>5

LEMMA TripKinds ==
  ASSUME Types, NEW s \in Search, TripRead(s) \/ TripInsert(s) \/ TripWrite(s) PROVE Kind(s)
<1> USE DEF Kind, Busy, Past, Slotted, InTable
<1>1. pc[s] \in {"trip", "trip_insert", "trip_write"} /\ UNCHANGED tool
  BY DEF TripRead, TripInsert, TripWrite
<1>2. CASE Tripped(s)
  <2>1. WhyOf(s) \in Reason /\ (WhyOf(s) = AccountLevel => reset[s] = 0)
    BY DEF WhyOf, Reason, AccountLevel
  <2> QED
    BY <1>1, <1>2, <2>1 DEF Tripped, Frees, Leaves, Tripping
<1>3. CASE Ends(s, "broke") /\ Give(s)
  BY <1>1, <1>3 DEF Frees, Leaves
<1>4. ASSUME NEW step \in {"trip", "trip_insert", "trip_write"}, To(s, step), UNCHANGED <<loop, gate>>
      PROVE  Kind(s)
  <2>1. Walks(s, step)
    BY <1>1, <1>4 DEF Walks
  <2> QED
    BY <1>1, <1>4, <2>1
<1> QED
  BY <1>2, <1>3, <1>4 DEF TripRead, TripInsert, TripWrite, Clash

LEMMA Kinds == ASSUME Types, NEW s \in Search, Steps(s) \/ Outage(s) PROVE Kind(s)
BY LoopKinds, RequestKinds, TableKinds, TripKinds DEF Steps

(* A search that leaves a provider has one more behind it, or ends.        *)
LEMMA Decided == ASSUME NEW e, NEW b PROVE Verdict(e, b) \in {"failed", "exhausted"}
BY DEF Verdict

Over(s, results) ==
  /\ pc' = [pc EXCEPT ![s] = "over"] /\ UNCHANGED at
  /\ \E what \in results : answer' = [answer EXCEPT ![s] = what]
Onward(s) ==
  /\ \/ /\ at[s] < Len(Order) /\ at' = [at EXCEPT ![s] = @ + 1]
        /\ pc' = [pc EXCEPT ![s] = "look"] /\ UNCHANGED answer
     \/ at[s] >= Len(Order) /\ Over(s, {"failed", "exhausted"})
  /\ errs' = [errs EXCEPT ![s] = errs'[s]] /\ blocked' = [blocked EXCEPT ![s] = blocked'[s]]
  /\ Counts(s)' = Counts(s) + 1

LEMMA AdvanceCounts ==
  ASSUME Types, NEW s \in Search, NEW e \in Seq(Reason), NEW b \in Seq(Reason), Advance(s, e, b),
         Len(e) + Len(b) = Counts(s) + 1
  PROVE  Onward(s)
<1>1. errs' = [errs EXCEPT ![s] = e] /\ blocked' = [blocked EXCEPT ![s] = b]
  BY DEF Advance
<1>2. errs'[s] = e /\ blocked'[s] = b
  BY <1>1 DEF Types
<1>3. Counts(s)' = Counts(s) + 1
  BY <1>2 DEF Counts
<1>4. CASE at[s] < Len(Order)
  BY <1>1, <1>2, <1>3, <1>4 DEF Advance, More, Onward
<1>5. CASE ~(at[s] < Len(Order))
  <2>1. at[s] >= Len(Order)
    BY <1>5, Places DEF Types
  <2>2. pc' = [pc EXCEPT ![s] = "over"] /\ answer' = [answer EXCEPT ![s] = Verdict(e, b)] /\ UNCHANGED at
    BY <1>5 DEF Advance, More
  <2>3. Over(s, {"failed", "exhausted"})
    BY <2>2, Decided DEF Over
  <2> QED
    BY <1>1, <1>2, <1>3, <2>1, <2>3 DEF Onward
<1> QED
  BY <1>4, <1>5

LEMMA OneMore ==
  ASSUME NEW e \in Seq(Reason), NEW why \in Reason
  PROVE  Append(e, why) \in Seq(Reason) /\ Len(Append(e, why)) = Len(e) + 1 /\ Len(e) \in Nat
OBVIOUS

LEMMA OneMoreOfTwo ==
  ASSUME NEW s \in Search, NEW e, NEW b, Len(errs[s]) \in Nat, Len(blocked[s]) \in Nat,
         \/ Len(e) = Len(errs[s]) + 1 /\ Len(b) = Len(blocked[s])
         \/ Len(e) = Len(errs[s]) /\ Len(b) = Len(blocked[s]) + 1
  PROVE  Len(e) + Len(b) = Counts(s) + 1
<1> DEFINE m == Len(errs[s])
           n == Len(blocked[s])
           k == Len(e)
           l == Len(b)
<1>1. m \in Nat /\ n \in Nat /\ ((k = m + 1 /\ l = n) \/ (k = m /\ l = n + 1))
  OBVIOUS
<1>2. Counts(s) = m + n
  BY DEF Counts
<1> HIDE DEF m, n, k, l
<1>3. k + l = Counts(s) + 1
  BY <1>1, <1>2
<1> QED
  BY <1>3 DEF k, l

LEMMA LeavesCounts ==
  ASSUME Types, NEW s \in Search, Leaves(s)
  PROVE  \/ Onward(s)
         \/ Over(s, {"results", "broke"}) /\ UNCHANGED <<errs, blocked>>
<1>1. errs[s] \in Seq(Reason) /\ blocked[s] \in Seq(Reason)
  BY DEF Types
<1>2. ASSUME NEW kind \in Reason, Fails(s, kind) PROVE Onward(s)
  <2> DEFINE e == Append(errs[s], kind)
  <2>1. /\ e \in Seq(Reason) /\ Len(e) = Len(errs[s]) + 1
        /\ Len(errs[s]) \in Nat /\ Len(blocked[s]) \in Nat
    BY <1>1, OneMore, Zenon
  <2>2. Advance(s, e, blocked[s])
    BY <1>2 DEF Fails
  <2> HIDE DEF e
  <2>3. Len(e) + Len(blocked[s]) = Counts(s) + 1
    BY <2>1, OneMoreOfTwo
  <2> QED
    BY <1>1, <2>1, <2>2, <2>3, AdvanceCounts
<1>3. ASSUME Skips(s), row[Here(s)] # NoRow PROVE Onward(s)
  <2> DEFINE b == Append(blocked[s], row[Here(s)].reason)
  <2>1. row[Here(s)].reason \in Reason
    BY <1>3, Places DEF Types, Row
  <2>2. /\ b \in Seq(Reason) /\ Len(b) = Len(blocked[s]) + 1
        /\ Len(errs[s]) \in Nat /\ Len(blocked[s]) \in Nat
    BY <1>1, <2>1, OneMore, Zenon
  <2>3. Advance(s, errs[s], b)
    BY <1>3 DEF Skips
  <2> HIDE DEF b
  <2>4. Len(errs[s]) + Len(b) = Counts(s) + 1
    BY <2>2, OneMoreOfTwo
  <2> QED
    BY <1>1, <2>2, <2>3, <2>4, AdvanceCounts
<1>4. ASSUME NEW what \in {"results", "broke"}, Ends(s, what)
      PROVE  Over(s, {"results", "broke"}) /\ UNCHANGED <<errs, blocked>>
  BY <1>4 DEF Ends, Over
<1> QED
  BY <1>2, <1>3, <1>4 DEF Leaves

-----------------------------------------------------------------------------
(* EVERY PROVIDER IS TRIED *)

LEMMA ProgressKeeps ==
  ASSUME Progress, UNCHANGED <<at, errs, blocked, answer>>,
         \A s \in Search : pc'[s] = pc[s] \/ (pc[s] \in Busy /\ pc'[s] \in Busy)
  PROVE  Progress'
BY DEF Progress, Counts, Busy, Past

LEMMA ProgressStep == Types /\ Progress /\ [Next]_vars => Progress'
<1> SUFFICES ASSUME Types, Progress, [Next]_vars PROVE Progress'
  OBVIOUS
<1>1. CASE Tick \/ UNCHANGED vars
  BY <1>1, ProgressKeeps DEF Tick, vars, loop
<1>2. ASSUME NEW s \in Search, Steps(s) \/ Outage(s) PROVE Progress'
  <2>1. ASSUME NEW step \in Busy, Walks(s, step) PROVE Progress'
    BY <2>1, ProgressKeeps DEF Walks, To, Types, loop
  <2>2. CASE Leaves(s)
    <3>1. pc[s] \in Busy
      BY <2>2 DEF Leaves, Frees, Busy, Slotted
    <3>2. answer[s] = "none" /\ Counts(s) = at[s] - 1 /\ at[s] \in Nat /\ at[s] <= Len(Order)
          /\ Len(Order) \in Nat
      BY <3>1, Places DEF Progress, Types
    <3>3. CASE Over(s, {"results", "broke"}) /\ UNCHANGED <<errs, blocked>>
      BY <3>3 DEF Over, Progress, Counts, Types, Busy, Past
    <3>4. CASE Onward(s)
      <4>1. \A t \in Search \ {s} : errs'[t] = errs[t] /\ blocked'[t] = blocked[t] /\ at'[t] = at[t]
                                  /\ pc'[t] = pc[t] /\ answer'[t] = answer[t]
        BY <3>4 DEF Onward, Over, Types
      <4>2. /\ pc'[s] \in Busy => answer'[s] = "none" /\ Counts(s)' = at'[s] - 1
            /\ pc'[s] \in {"look", "over"}
            /\ answer'[s] \in {"failed", "exhausted"} => pc'[s] = "over" /\ Counts(s)' = Len(Order)
        BY <3>2, <3>4 DEF Onward, Over, Types, Busy, Past
      <4>3. \A t \in Search \ {s} : Counts(t)' = Counts(t)
        BY <4>1 DEF Counts
      <4> QED
        BY <4>1, <4>2, <4>3 DEF Progress
    <3> QED
      BY <2>2, <3>3, <3>4, LeavesCounts
  <2> QED
    BY <1>2, <2>1, <2>2, Kinds DEF Kind
<1>3. ASSUME NEW c \in Caller, Finish(c) PROVE Progress'
  <2> DEFINE mine == {s \in Mine(c) : pc[s] = "over"}
  <2>1. /\ pc' = Each(mine, pc, "idle") /\ at' = Each(mine, at, 1)
        /\ errs' = Each(mine, errs, <<>>) /\ blocked' = Each(mine, blocked, <<>>)
        /\ answer' = Each(mine, answer, "none")
    BY <1>3 DEF Finish
  <2> HIDE DEF mine
  <2>2. Len(<<>>) = 0
    OBVIOUS
  <2>3. ASSUME NEW s \in Search
        PROVE  IF s \in mine
               THEN pc'[s] = "idle" /\ at'[s] = 1 /\ answer'[s] = "none" /\ Counts(s)' = 0
               ELSE pc'[s] = pc[s] /\ at'[s] = at[s] /\ answer'[s] = answer[s] /\ Counts(s)' = Counts(s)
    BY <2>1, <2>2 DEF Each, Counts
  <2> QED
    BY <2>3 DEF Progress, Busy, Past
<1>4. ASSUME NEW c \in Caller, NEW queries \in SUBSET Topic[c], Begin(c, queries) PROVE Progress'
  <2> DEFINE mine == {c} \X (queries \ cache[Home[c]])
  <2>1. pc' = Each(mine, pc, "look") /\ UNCHANGED <<at, errs, blocked, answer>>
    BY <1>4 DEF Begin, loop
  <2>2. \A s \in Search : s \in mine => pc[s] = "idle"
    BY <1>4 DEF Begin, Idle, Mine
  <2> HIDE DEF mine
  <2>3. \A s \in Search : Counts(s)' = Counts(s)
    BY <2>1 DEF Counts
  <2> QED
    BY <2>1, <2>2, <2>3 DEF Each, Progress, Busy, Past
<1> QED
  BY <1>1, <1>2, <1>3, <1>4 DEF Next

-----------------------------------------------------------------------------
(* SLOTS *)

LEMMA Finite ==
  ASSUME NEW S \in SUBSET Search, NEW s \in Search
  PROVE  /\ IsFiniteSet(S) /\ Cardinality(S) \in Nat
         /\ s \notin S => Cardinality(S \cup {s}) = Cardinality(S) + 1
         /\ s \in S => Cardinality(S \ {s}) = Cardinality(S) - 1
<1>1. IsFiniteSet(Caller \X Query)
  BY FS_Product, SearchAssumption
<1>2. S \subseteq Caller \X Query
  BY DEF Search
<1>3. IsFiniteSet(S)
  BY <1>1, <1>2, FS_Subset
<1>4. Cardinality(S) \in Nat
  BY <1>3, FS_CardinalityType
<1>5. ASSUME s \notin S PROVE Cardinality(S \cup {s}) = Cardinality(S) + 1
  BY <1>3, <1>5, FS_AddElement, Zenon
<1>6. ASSUME s \in S PROVE Cardinality(S \ {s}) = Cardinality(S) - 1
  BY <1>3, <1>6, FS_RemoveElement, Zenon
<1> QED
  BY <1>3, <1>4, <1>5, <1>6

LEMMA SubsetSize ==
  ASSUME NEW S \in SUBSET Search, NEW T \in SUBSET S
  PROVE  Cardinality(T) \in Nat /\ Cardinality(S) \in Nat /\ Cardinality(T) <= Cardinality(S)
<1>1. IsFiniteSet(Caller \X Query)
  BY FS_Product, SearchAssumption
<1>2. S \subseteq Caller \X Query
  BY DEF Search
<1>3. IsFiniteSet(S)
  BY <1>1, <1>2, FS_Subset
<1> QED
  BY <1>3, FS_Subset, FS_CardinalityType

LEMMA OfSize ==
  \A r, p, steps : Of(r, p, steps) \subseteq Search /\ Cardinality(Of(r, p, steps)) \in Nat
<1>1. \A r, p, steps : Of(r, p, steps) \subseteq Search
  BY DEF Of
<1> QED
  BY <1>1, SubsetSize

Others(s) == \A t \in Search \ {s} : pc'[t] = pc[t] /\ at'[t] = at[t]

LEMMA GateStays ==
  ASSUME Gated, UNCHANGED gate,
         \A s \in Search : (pc[s] \in Slotted <=> pc'[s] \in Slotted) /\ (pc[s] \in Slotted => at'[s] = at[s])
  PROVE  Gated'
<1>1. \A r \in Run, p \in Provider : Of(r, p, Slotted)' = Of(r, p, Slotted)
  BY DEF Of, Here, RunOf
<1> QED
  BY <1>1 DEF Gated

LEMMA GateTaken ==
  ASSUME Types, Gated, NEW s \in Search, Others(s), UNCHANGED at,
         pc[s] \notin Slotted, pc'[s] \in Slotted, gate[RunOf(s)][Here(s)] > 0,
         gate' = [gate EXCEPT ![RunOf(s)][Here(s)] = @ - 1]
  PROVE  Gated'
<1> SUFFICES ASSUME NEW r \in Run, NEW p \in Provider
             PROVE  gate'[r][p] >= 0 /\ gate'[r][p] + Cardinality(Of(r, p, Slotted)') = Slots
  BY DEF Gated
<1>1. gate[r][p] \in Int /\ Cardinality(Of(r, p, Slotted)) \in Nat
      /\ gate[r][p] >= 0 /\ gate[r][p] + Cardinality(Of(r, p, Slotted)) = Slots
  BY OfSize DEF Types, Gated
<1>2. CASE r = RunOf(s) /\ p = Here(s)
  <2>1. Of(r, p, Slotted)' = Of(r, p, Slotted) \cup {s} /\ s \notin Of(r, p, Slotted)
    BY <1>2 DEF Of, Here, RunOf, Others
  <2>2. Cardinality(Of(r, p, Slotted)') = Cardinality(Of(r, p, Slotted)) + 1
    BY <2>1, Finite DEF Of
  <2>3. gate'[r][p] = gate[r][p] - 1
    BY <1>2 DEF Types
  <2> QED
    BY <1>1, <2>2, <2>3, Limits
<1>3. CASE ~(r = RunOf(s) /\ p = Here(s))
  <2>1. Of(r, p, Slotted)' = Of(r, p, Slotted)
    BY <1>3 DEF Of, Here, RunOf, Others
  <2>2. gate'[r][p] = gate[r][p]
    BY <1>3, Places DEF Types
  <2> QED
    BY <1>1, <2>1, <2>2
<1> QED
  BY <1>2, <1>3

LEMMA GateGiven ==
  ASSUME Types, Gated, NEW s \in Search, Others(s), pc[s] \in Slotted, pc'[s] \notin Slotted, Give(s)
  PROVE  Gated'
<1> SUFFICES ASSUME NEW r \in Run, NEW p \in Provider
             PROVE  gate'[r][p] >= 0 /\ gate'[r][p] + Cardinality(Of(r, p, Slotted)') = Slots
  BY DEF Gated
<1>1. gate[r][p] \in Int /\ Cardinality(Of(r, p, Slotted)) \in Nat
      /\ gate[r][p] >= 0 /\ gate[r][p] + Cardinality(Of(r, p, Slotted)) = Slots
  BY OfSize DEF Types, Gated
<1>2. CASE r = RunOf(s) /\ p = Here(s)
  <2>1. Of(r, p, Slotted)' = Of(r, p, Slotted) \ {s} /\ s \in Of(r, p, Slotted)
    BY <1>2 DEF Of, Here, RunOf, Others
  <2>2. Cardinality(Of(r, p, Slotted)') = Cardinality(Of(r, p, Slotted)) - 1
    BY <2>1, Finite DEF Of
  <2>3. gate'[r][p] = gate[r][p] + 1
    BY <1>2 DEF Types, Give
  <2> QED
    BY <1>1, <2>2, <2>3, Limits
<1>3. CASE ~(r = RunOf(s) /\ p = Here(s))
  <2>1. Of(r, p, Slotted)' = Of(r, p, Slotted)
    BY <1>3 DEF Of, Here, RunOf, Others
  <2>2. gate'[r][p] = gate[r][p]
    BY <1>3, Places DEF Types, Give
  <2> QED
    BY <1>1, <2>1, <2>2
<1> QED
  BY <1>2, <1>3

(* A search that leaves its provider is next at the door of another, or    *)
(* over.                                                                   *)
LEMMA LeavesPlace ==
  ASSUME Types, NEW s \in Search, Leaves(s)
  PROVE  pc'[s] \in {"look", "over"} /\ Others(s) /\ Frees(s)
<1>1. CASE Onward(s)
  BY <1>1 DEF Onward, Over, Others, Types, Leaves
<1>2. CASE Over(s, {"results", "broke"})
  BY <1>2 DEF Over, Others, Types, Leaves
<1> QED
  BY <1>1, <1>2, LeavesCounts

LEMMA GatedStep == Types /\ Gated /\ [Next]_vars => Gated'
<1> SUFFICES ASSUME Types, Gated, [Next]_vars PROVE Gated'
  OBVIOUS
<1> USE DEF Slotted, Past
<1>1. CASE Tick \/ UNCHANGED vars
  <2>1. UNCHANGED <<pc, at, gate>>
    BY <1>1 DEF Tick, vars, loop, slots
  <2> QED
    BY <2>1, GateStays
<1>2. ASSUME NEW s \in Search, Steps(s) \/ Outage(s) PROVE Gated'
  <2>1. ASSUME NEW step \in Busy, Walks(s, step) PROVE Gated'
    <3>1. pc'[s] = step /\ Others(s) /\ UNCHANGED at
      BY <2>1 DEF Walks, To, Types, Others, loop
    <3>2. CASE Enter(s)
      <4>1. /\ gate' = [gate EXCEPT ![RunOf(s)][Here(s)] = @ - 1] /\ gate[RunOf(s)][Here(s)] > 0
            /\ pc[s] \notin Slotted /\ pc'[s] \in Slotted
        BY <3>2 DEF Enter, To, Types
      <4> QED
        BY <3>1, <4>1, GateTaken
    <3>3. CASE UNCHANGED gate /\ (pc[s] \in Slotted <=> step \in Slotted)
      BY <3>1, <3>3, GateStays DEF Others
    <3> QED
      BY <2>1, <3>2, <3>3 DEF Walks
  <2>2. CASE Leaves(s)
    <3>1. pc'[s] \notin Slotted /\ Others(s) /\ Frees(s)
      BY <2>2, LeavesPlace
    <3>2. CASE pc[s] = "look" /\ UNCHANGED gate
      BY <3>1, <3>2, GateStays DEF Others
    <3>3. CASE pc[s] \in Slotted /\ Give(s)
      BY <3>1, <3>3, GateGiven
    <3> QED
      BY <3>1, <3>2, <3>3 DEF Frees
  <2> QED
    BY <1>2, <2>1, <2>2, Kinds DEF Kind
<1>3. ASSUME NEW c \in Caller, Finish(c) PROVE Gated'
  <2>1. UNCHANGED gate
    BY <1>3 DEF Finish, slots
  <2>2. \A s \in Search : \/ pc'[s] = pc[s] /\ at'[s] = at[s]
                          \/ pc[s] = "over" /\ pc'[s] = "idle"
    BY <1>3 DEF Finish, Each
  <2> QED
    BY <2>1, <2>2, GateStays
<1>4. ASSUME NEW c \in Caller, NEW queries \in SUBSET Topic[c], Begin(c, queries) PROVE Gated'
  BY <1>4, GateStays DEF Begin, Each, Idle, Mine, slots, loop, Types
<1> QED
  BY <1>1, <1>2, <1>3, <1>4 DEF Next

LEMMA OthersStay == ASSUME Types, NEW s \in Search, Steps(s) \/ Outage(s) PROVE Others(s)
<1>1. ASSUME NEW step \in Busy, Walks(s, step) PROVE Others(s)
  BY <1>1 DEF Walks, To, Types, Others, loop
<1> QED
  BY <1>1, Kinds, LeavesPlace DEF Kind

LEMMA LineStays ==
  ASSUME Lined, UNCHANGED http, \A s \in Search : pc[s] = "call" <=> pc'[s] = "call"
  PROVE  Lined'
<1>1. Calling' = Calling
  BY DEF Calling
<1> QED
  BY <1>1 DEF Lined

LEMMA LinedStep == Types /\ Lined /\ [Next]_vars => Lined'
<1> SUFFICES ASSUME Types, Lined, [Next]_vars PROVE Lined'
  OBVIOUS
<1>1. CASE Tick \/ UNCHANGED vars
  <2>1. UNCHANGED <<pc, http>>
    BY <1>1 DEF Tick, vars, slots
  <2> QED
    BY <2>1, LineStays
<1>2. ASSUME NEW s \in Search, Steps(s) \/ Outage(s) PROVE Lined'
  <2>1. Others(s)
    BY <1>2, OthersStay
  <2>2. Calling \in SUBSET Search /\ Cardinality(Calling) \in Nat
    BY SubsetSize DEF Calling
  <2>3. CASE Dial(s)
    <3>1. Calling' = Calling \cup {s} /\ s \notin Calling
      BY <2>1, <2>3 DEF Dial, To, Types, Others, Calling
    <3>2. Cardinality(Calling') = Cardinality(Calling) + 1
      BY <2>2, <3>1, Finite
    <3> QED
      BY <2>2, <2>3, <3>2 DEF Dial, Lined, Types
  <2>4. CASE Succeeds(s) \/ Refused(s) \/ Rejected(s) \/ \E limited \in BOOLEAN : Falters(s, limited)
    <3>1. Hears(s) /\ pc'[s] # "call"
      BY <2>4, RequestKinds
    <3>2. Calling' = Calling \ {s} /\ s \in Calling
      BY <2>1, <3>1 DEF Hears, Others, Calling
    <3>3. Cardinality(Calling') = Cardinality(Calling) - 1
      BY <2>2, <3>2, Finite
    <3> QED
      BY <2>2, <3>1, <3>3 DEF Hears, Lined, Types
  <2>5. CASE Look(s) \/ Enter(s) \/ LookAgain(s)
    <3>1. pc[s] # "call" /\ UNCHANGED http
      BY <2>5 DEF Look, Enter, LookAgain, slots
    <3>2. CASE \E step \in {"queue", "again", "dial"} : To(s, step)
      BY <2>1, <3>1, <3>2, LineStays DEF To, Types, Others
    <3>3. CASE Leaves(s)
      BY <2>1, <3>1, <3>3, LineStays, LeavesPlace DEF Others
    <3> QED
      <4>1. CASE Look(s) /\ ~Blocked(Here(s))
        BY <3>2, <4>1 DEF Look
      <4>2. CASE Look(s) /\ Blocked(Here(s))
        BY <3>3, <4>2 DEF Look, Leaves, Frees, Blocked, Open, slots
      <4>3. CASE Enter(s)
        BY <3>2, <4>3 DEF Enter
      <4>4. CASE LookAgain(s) /\ ~Blocked(Here(s))
        BY <3>2, <4>4 DEF LookAgain, StillBlocked
      <4>5. CASE LookAgain(s) /\ Blocked(Here(s))
        BY <3>3, <4>5 DEF LookAgain, StillBlocked, Leaves, Frees, Blocked, Open, Slotted
      <4> QED
        BY <2>5, <4>1, <4>2, <4>3, <4>4, <4>5
  <2>6. CASE \/ Success(s) \/ CountRead(s) \/ CountInsert(s) \/ CountCommit(s) \/ Outage(s)
             \/ TripRead(s) \/ TripInsert(s) \/ TripWrite(s)
    <3>1. pc[s] # "call" /\ UNCHANGED http
      BY <2>6 DEF Success, CountRead, CountInsert, CountCommit, Outage, TripRead, TripInsert, TripWrite,
                  InTable
    <3>2. pc'[s] # "call"
      <4>1. CASE \E step \in {"insert", "counted", "count", "trip", "trip_insert", "trip_write"} : To(s, step)
        BY <4>1 DEF To, Types
      <4>2. CASE \E e, b : Advance(s, e, b)
        BY <4>2 DEF Advance, Types
      <4>3. CASE \E what : Ends(s, what)
        BY <4>3 DEF Ends, Types
      <4> QED
        BY <2>6, <4>1, <4>2, <4>3 DEF Success, CountRead, CountInsert, CountCommit, Outage, TripRead,
             TripInsert, TripWrite, Clash, Tripped, Fails
    <3> QED
      BY <2>1, <3>1, <3>2, LineStays DEF Others
  <2> QED
    BY <1>2, <2>3, <2>4, <2>5, <2>6 DEF Steps
<1>3. ASSUME NEW c \in Caller, Finish(c) PROVE Lined'
  <2>1. UNCHANGED http
    BY <1>3 DEF Finish, slots
  <2>2. \A s \in Search : pc'[s] = pc[s] \/ (pc[s] = "over" /\ pc'[s] = "idle")
    BY <1>3 DEF Finish, Each
  <2> QED
    BY <2>1, <2>2, LineStays
<1>4. ASSUME NEW c \in Caller, NEW queries \in SUBSET Topic[c], Begin(c, queries) PROVE Lined'
  BY <1>4, LineStays DEF Begin, Each, Idle, Mine, slots
<1> QED
  BY <1>1, <1>2, <1>3, <1>4 DEF Next

-----------------------------------------------------------------------------
(* NO FAILURE IS LOST *)

(* What a row with so many failures and strikes stands for.                *)
Worth(r) == IF r = NoRow THEN 0 ELSE r.failures + Threshold * r.strikes

(* The searches beside s see and hold what they did.                       *)
Aside(s) == Others(s) /\ \A t \in Search \ {s} : saw'[t] = saw[t]

LEMMA WorthOf ==
  ASSUME NEW r \in Row, NEW n \in Nat, n = r.failures + Threshold * r.strikes
  PROVE  /\ n + 1 = (r.failures + 1) + Threshold * r.strikes
         /\ r.failures + 1 = Threshold => n + 1 = 0 + Threshold * (r.strikes + 1)
<1>1. r.failures \in Nat /\ r.strikes \in Nat
  BY DEF Row
<1>2. \A i, j, k \in Nat : /\ (i + k * j) + 1 = (i + 1) + k * j
                          /\ i + 1 = k => (i + k * j) + 1 = 0 + k * (j + 1)
  OBVIOUS
<1> QED
  BY <1>1, <1>2, Limits

LEMMA TableStays ==
  ASSUME Table, NEW s \in Search, Aside(s), UNCHANGED <<row, lock, noted>>, pc'[s] # "counted"
  PROVE  Table'
<1>1. FailuresCounted'
  BY DEF Table, FailuresCounted
<1>2. ASSUME NEW t \in Search, pc'[t] = "counted" PROVE Sees(t)'
  BY <1>2 DEF Table, Aside, Others, Sees, Here
<1> QED
  BY <1>1, <1>2 DEF Table

(* The lock that is free is nobody's.                                      *)
LEMMA TableLocks ==
  ASSUME Types, Table, NEW s \in Search, Aside(s), Free(s), UNCHANGED <<row, noted, at>>,
         lock' = [lock EXCEPT ![Here(s)] = s], saw'[s] # NoRow,
         IF row[Here(s)] = NoRow THEN saw'[s].failures = 0 /\ saw'[s].strikes = 0
                                 ELSE saw'[s] = row[Here(s)]
  PROVE  Table'
<1>1. FailuresCounted'
  BY DEF Table, FailuresCounted
<1>2. Sees(s)'
  BY Places DEF Sees, Here, Types
<1>3. ASSUME NEW t \in Search \ {s}, pc'[t] = "counted" PROVE Sees(t)'
  <2>1. Sees(t) /\ saw'[t] = saw[t] /\ Here(t)' = Here(t)
    BY <1>3 DEF Table, Aside, Others, Here
  <2>2. Here(t) # Here(s)
    BY <2>1, NullsAreNulls DEF Sees, Free
  <2>3. lock'[Here(t)] = lock[Here(t)]
    BY <2>2, Places DEF Types
  <2> QED
    BY <2>1, <2>3 DEF Sees
<1> QED
  BY <1>1, <1>2, <1>3 DEF Table

LEMMA TableWrites ==
  ASSUME Types, Table, NEW s \in Search, NEW r, Aside(s), pc'[s] # "counted",
         row' = [row EXCEPT ![Here(s)] = r],
         r # NoRow => r.failures < Threshold,
         \A p \in Provider : noted'[p] = IF p = Here(s) THEN Worth(r) ELSE noted[p],
         \A p \in Provider : lock'[p] # lock[p] => lock[p] = s,
         \A t \in Search \ {s} : pc[t] = "counted" /\ Here(t) = Here(s) => r = row[Here(s)]
  PROVE  Table'
<1>1. \A p \in Provider : row'[p] = IF p = Here(s) THEN r ELSE row[p]
  BY DEF Types
<1>2. FailuresCounted'
  BY <1>1 DEF Table, FailuresCounted, Worth
<1>3. \A p \in Provider : row'[p] # NoRow => row'[p].failures < Threshold
  BY <1>1 DEF Table
<1>4. ASSUME NEW t \in Search, pc'[t] = "counted" PROVE Sees(t)'
  <2>1. t # s /\ Sees(t) /\ saw'[t] = saw[t] /\ Here(t)' = Here(t) /\ pc[t] = "counted"
    BY <1>4 DEF Table, Aside, Others, Here
  <2>2. Here(t) \in Provider
    BY Places DEF Types
  <2>3. row'[Here(t)] = row[Here(t)]
    BY <1>1, <2>1, <2>2
  <2>4. lock'[Here(t)] = lock[Here(t)]
    BY <2>1, <2>2 DEF Sees
  <2> QED
    BY <2>1, <2>3, <2>4 DEF Sees
<1> QED
  BY <1>2, <1>3, <1>4 DEF Table

LEMMA AsideOf == ASSUME Types, NEW s \in Search, Steps(s) \/ Outage(s) PROVE Aside(s)
<1>1. CASE UNCHANGED saw
  BY <1>1, OthersStay DEF Aside
<1>2. CASE \E v : saw' = [saw EXCEPT ![s] = v]
  BY <1>2, OthersStay DEF Aside, Types
<1>3. CASE Clear(s)
  BY <1>2, <1>3 DEF Clear
<1>4. CASE \E e, b : Advance(s, e, b)
  BY <1>3, <1>4 DEF Advance
<1>5. CASE \E what : Ends(s, what)
  BY <1>3, <1>5 DEF Ends
<1>6. CASE Look(s) \/ Enter(s) \/ LookAgain(s) \/ Dial(s)
  BY <1>1, <1>4, <1>6 DEF Look, Enter, LookAgain, Dial, Skips, txn
<1>7. CASE Succeeds(s) \/ Refused(s) \/ Rejected(s) \/ \E limited \in BOOLEAN : Falters(s, limited)
  BY <1>1, <1>7 DEF Succeeds, Refused, Rejected, Falters, Note, txn
<1>8. CASE Success(s) \/ CountRead(s) \/ CountInsert(s) \/ CountCommit(s) \/ Outage(s)
  BY <1>1, <1>2, <1>4, <1>5, <1>8 DEF Success, CountRead, CountInsert, Clash, CountCommit, Fails, Outage
<1>9. CASE TripRead(s) \/ TripInsert(s) \/ TripWrite(s)
  <2>1. CASE Tripped(s)
    BY <1>4, <2>1 DEF Tripped, Fails
  <2> QED
    BY <1>1, <1>5, <1>9, <2>1 DEF TripRead, TripInsert, TripWrite, Clash, txn
<1> QED
  BY <1>6, <1>7, <1>8, <1>9 DEF Steps

(* A search that does not write ends up outside of a transaction that has  *)
(* the lock.                                                               *)
LEMMA Uncounted ==
  ASSUME Types, NEW s \in Search,
         \/ \E step \in Busy \ {"counted"} : To(s, step)
         \/ \E kind : Fails(s, kind)
         \/ Skips(s)
         \/ \E what : Ends(s, what)
  PROVE  pc'[s] # "counted"
<1>1. CASE \E step \in Busy \ {"counted"} : To(s, step)
  BY <1>1 DEF To, Types
<1>2. CASE \E e, b : Advance(s, e, b)
  BY <1>2 DEF Advance, Types
<1>3. CASE \E what : Ends(s, what)
  BY <1>3 DEF Ends, Types
<1> QED
  BY <1>1, <1>2, <1>3 DEF Fails, Skips

LEMMA TableLoop ==
  ASSUME Types, Table, NEW s \in Search,
         \/ Look(s) \/ Enter(s) \/ LookAgain(s) \/ Dial(s)
         \/ Succeeds(s) \/ Refused(s) \/ Rejected(s) \/ \E limited \in BOOLEAN : Falters(s, limited)
         \/ TripRead(s)
  PROVE  Table'
<1> USE DEF ledger, history, InTable
<1>1. pc'[s] # "counted"
  <2>1. CASE Look(s) \/ Enter(s) \/ LookAgain(s) \/ Dial(s)
    BY <2>1, Uncounted DEF Look, Enter, LookAgain, Dial, Busy, Past
  <2>2. CASE Succeeds(s) \/ Refused(s) \/ Rejected(s) \/ \E limited \in BOOLEAN : Falters(s, limited)
    BY <2>2, Uncounted DEF Succeeds, Refused, Rejected, Falters, Note, Busy, Past
  <2>3. CASE TripRead(s)
    BY <2>3, Uncounted DEF TripRead, Tripped, Busy, Past
  <2> QED
    BY <2>1, <2>2, <2>3
<1>2. UNCHANGED <<row, lock, noted>>
  BY DEF Look, Enter, LookAgain, Dial, Succeeds, Refused, Rejected, Falters, TripRead, Told
<1> QED
  BY <1>1, <1>2, AsideOf, TableStays DEF Steps

LEMMA TableClash ==
  ASSUME Types, Table, NEW s \in Search, NEW step \in {"count", "trip"}, Clash(s, step), Aside(s)
  PROVE  Table'
<1>1. pc'[s] # "counted"
  BY Uncounted DEF Clash, Busy, Past
<1> QED
  BY <1>1, TableStays DEF Clash, ledger

LEMMA TableSuccess == ASSUME Types, Table, NEW s \in Search, Success(s) PROVE Table'
<1>1. Aside(s) /\ pc'[s] # "counted"
  BY AsideOf, Uncounted DEF Steps, Success
<1>2. row' = [row EXCEPT ![Here(s)] = NoRow] /\ UNCHANGED lock
  BY DEF Success, Write
<1>3. \A p \in Provider : noted'[p] = IF p = Here(s) THEN Worth(NoRow) ELSE noted[p]
  BY DEF Success, Types, Worth
<1>4. \A t \in Search \ {s} : pc[t] = "counted" /\ Here(t) = Here(s) => row[Here(s)] = NoRow
  BY NullsAreNulls DEF Success, Free, Table, Sees
<1> QED
  BY <1>1, <1>2, <1>3, <1>4, TableWrites

LEMMA TableRead == ASSUME Types, Table, NEW s \in Search, CountRead(s) PROVE Table'
<1>1. Aside(s)
  BY AsideOf DEF Steps
<1>2. CASE row[Here(s)] = NoRow
  <2>1. pc'[s] # "counted" /\ UNCHANGED <<row, lock, noted>>
    BY <1>2, Uncounted DEF CountRead, Busy, Past
  <2> QED
    BY <1>1, <2>1, TableStays
<1>3. CASE row[Here(s)] # NoRow
  <2>1. /\ Free(s) /\ UNCHANGED <<row, noted, at>> /\ lock' = [lock EXCEPT ![Here(s)] = s]
        /\ saw' = [saw EXCEPT ![s] = row[Here(s)]]
    BY <1>3 DEF CountRead, Locked, loop
  <2>2. saw'[s] = row[Here(s)]
    BY <2>1 DEF Types
  <2> QED
    BY <1>1, <1>3, <2>1, <2>2, TableLocks
<1> QED
  BY <1>2, <1>3

LEMMA TableInsert == ASSUME Types, Table, NEW s \in Search, CountInsert(s) PROVE Table'
<1>1. Aside(s)
  BY AsideOf DEF Steps
<1>2. CASE Clash(s, "count")
  BY <1>1, <1>2, TableClash
<1>3. CASE ~Clash(s, "count")
  <2> DEFINE new == [reason |-> "tool_request", open |-> stamp[s], failures |-> 0, strikes |-> 0]
  <2>1. /\ Free(s) /\ UNCHANGED <<row, noted, at>> /\ lock' = [lock EXCEPT ![Here(s)] = s]
        /\ saw' = [saw EXCEPT ![s] = new] /\ row[Here(s)] = NoRow
    BY <1>3 DEF CountInsert, loop
  <2>2. saw'[s] = new /\ new \in Row /\ new.failures = 0 /\ new.strikes = 0
    BY <2>1, Rows DEF Types
  <2> HIDE DEF new
  <2> QED
    BY <1>1, <2>1, <2>2, TableLocks, NullsAreNulls
<1> QED
  BY <1>2, <1>3

LEMMA TableCommit == ASSUME Types, Table, NEW s \in Search, CountCommit(s) PROVE Table'
<1>1. Aside(s) /\ pc'[s] # "counted"
  BY AsideOf, Uncounted DEF Steps, CountCommit
<1>2. Sees(s) /\ saw[s] \in Row
  BY DEF CountCommit, Table, Sees, Types
<1>3. Here(s) \in Provider /\ noted[Here(s)] \in Nat
  BY Places DEF Types
<1>4. noted[Here(s)] = saw[s].failures + Threshold * saw[s].strikes /\ saw[s].failures < Threshold
  <2>1. CASE row[Here(s)] = NoRow
    BY <1>2, <1>3, <2>1, Limits DEF Sees, Table, FailuresCounted
  <2>2. CASE row[Here(s)] # NoRow
    BY <1>2, <1>3, <2>2 DEF Sees, Table, FailuresCounted
  <2> QED
    BY <2>1, <2>2
<1>5. Counted(s) \in Row /\ Counted(s) # NoRow
  BY <1>2, Rows, NullsAreNulls
<1>6. /\ Counted(s).failures < Threshold
      /\ noted[Here(s)] + 1 = Counted(s).failures + Threshold * Counted(s).strikes
  <2>1. saw[s].failures \in Nat /\ saw[s].strikes \in Nat
    BY <1>2 DEF Row
  <2>2. CASE saw[s].failures + 1 < Threshold
    <3>1. Counted(s).failures = saw[s].failures + 1 /\ Counted(s).strikes = saw[s].strikes
      BY <1>2, <2>2 DEF Counted, Row
    <3> QED
      BY <1>2, <1>3, <1>4, <2>2, <3>1, WorthOf
  <2>3. CASE ~(saw[s].failures + 1 < Threshold)
    <3>1. Counted(s).failures = 0 /\ Counted(s).strikes = saw[s].strikes + 1
      BY <1>2, <2>3 DEF Counted, Row
    <3>2. saw[s].failures + 1 = Threshold
      BY <1>4, <2>1, <2>3, Limits
    <3> QED
      BY <1>2, <1>3, <1>4, <3>1, <3>2, WorthOf, Limits
  <2> QED
    BY <2>2, <2>3
<1>7. row' = [row EXCEPT ![Here(s)] = Counted(s)] /\ lock' = [lock EXCEPT ![Here(s)] = Nobody]
      /\ noted' = [noted EXCEPT ![Here(s)] = @ + 1]
  BY DEF CountCommit, Write
<1>8. \A p \in Provider : noted'[p] = IF p = Here(s) THEN Worth(Counted(s)) ELSE noted[p]
  BY <1>5, <1>6, <1>7 DEF Types, Worth
<1>9. \A p \in Provider : lock'[p] # lock[p] => lock[p] = s
  BY <1>2, <1>7 DEF Types, Sees
<1>10. \A t \in Search \ {s} : pc[t] = "counted" => Here(t) # Here(s)
  BY <1>2 DEF Table, Sees
<1> QED
  BY <1>1, <1>6, <1>7, <1>8, <1>9, <1>10, TableWrites

LEMMA TableTrip == ASSUME Types, Table, NEW s \in Search, TripInsert(s) \/ TripWrite(s) PROVE Table'
<1>1. Aside(s) /\ Free(s)
  BY AsideOf DEF Steps, TripInsert, TripWrite
<1>2. Here(s) \in Provider
  BY Places DEF Types
<1>3. \A t \in Search \ {s} : pc[t] = "counted" => Here(t) # Here(s)
  BY <1>1, NullsAreNulls DEF Table, Sees, Free
<1>4. CASE Clash(s, "trip")
  BY <1>1, <1>4, TableClash
<1>5. CASE TripInsert(s) /\ ~Clash(s, "trip")
  <2> DEFINE new == [reason |-> WhyOf(s), open |-> Until(s), failures |-> 0, strikes |-> 0]
  <2>1. /\ row' = [row EXCEPT ![Here(s)] = new] /\ row[Here(s)] = NoRow /\ UNCHANGED <<lock, noted>>
        /\ Tripped(s)
    BY <1>5 DEF TripInsert, Write
  <2>2. pc'[s] # "counted"
    BY <2>1, Uncounted DEF Tripped
  <2>3. new \in Row /\ new.failures = 0 /\ new.strikes = 0
    BY Rows
  <2>4. noted[Here(s)] = 0
    BY <1>2, <2>1 DEF Table, FailuresCounted
  <2> HIDE DEF new
  <2>5. Threshold * 0 = 0
    BY Limits
  <2>6. Worth(new) = 0
    BY <2>3, <2>5, NullsAreNulls DEF Worth
  <2> QED
    BY <1>1, <1>2, <1>3, <2>1, <2>2, <2>3, <2>4, <2>6, Limits, TableWrites
<1>6. CASE TripWrite(s) /\ row[Here(s)] # NoRow
  <2> DEFINE old == row[Here(s)]
             new == [old EXCEPT !.reason = WhyOf(s), !.open = Until(s)]
  <2>1. row' = [row EXCEPT ![Here(s)] = new] /\ UNCHANGED <<lock, noted>> /\ Tripped(s)
    BY <1>6 DEF TripWrite, Write
  <2>2. pc'[s] # "counted"
    BY <2>1, Uncounted DEF Tripped
  <2>3. new.failures = old.failures /\ new.strikes = old.strikes
    BY <1>2, <1>6 DEF Types, Row
  <2>4. new # NoRow
    BY <1>6, Rows, NullsAreNulls
  <2>5. noted[Here(s)] = old.failures + Threshold * old.strikes /\ old.failures < Threshold
    BY <1>2, <1>6 DEF Table, FailuresCounted
  <2> HIDE DEF old, new
  <2>6. Worth(new) = noted[Here(s)]
    BY <2>3, <2>4, <2>5 DEF Worth
  <2> QED
    BY <1>1, <1>2, <1>3, <2>1, <2>2, <2>3, <2>5, <2>6, TableWrites
<1>7. CASE TripWrite(s) /\ row[Here(s)] = NoRow
  <2>1. UNCHANGED <<row, lock, noted>> /\ Ends(s, "broke")
    BY <1>7 DEF TripWrite
  <2>2. pc'[s] # "counted"
    BY <2>1, Uncounted
  <2> QED
    BY <1>1, <2>1, <2>2, TableStays
<1> QED
  BY <1>4, <1>5, <1>6, <1>7

LEMMA TableOutage == ASSUME Types, Table, NEW s \in Search, Outage(s) PROVE Table'
<1>1. Aside(s) /\ pc'[s] # "counted"
  BY AsideOf, Uncounted DEF Outage
<1>2. UNCHANGED <<row, noted>> /\ lock' = [lock EXCEPT ![Here(s)] = IF @ = s THEN Nobody ELSE @]
  BY DEF Outage, history
<1>3. FailuresCounted'
  BY <1>2 DEF Table, FailuresCounted
<1>4. ASSUME NEW t \in Search, pc'[t] = "counted" PROVE Sees(t)'
  <2>1. t # s /\ Sees(t) /\ saw'[t] = saw[t] /\ Here(t)' = Here(t)
    BY <1>1, <1>4 DEF Table, Aside, Others, Here
  <2>2. lock'[Here(t)] = lock[Here(t)]
    BY <1>2, <2>1, Places DEF Types, Sees
  <2> QED
    BY <1>2, <2>1, <2>2 DEF Sees
<1> QED
  BY <1>2, <1>3, <1>4 DEF Table

LEMMA TableStep == Types /\ Table /\ [Next]_vars => Table'
<1> SUFFICES ASSUME Types, Table, [Next]_vars PROVE Table'
  OBVIOUS
<1>1. ASSUME UNCHANGED <<row, lock, noted, saw>>,
             \A s \in Search : pc'[s] = "counted" => pc[s] = "counted" /\ at'[s] = at[s]
      PROVE  Table'
  BY <1>1 DEF Table, FailuresCounted, Sees, Here
<1>2. CASE Tick \/ UNCHANGED vars
  <2>1. UNCHANGED <<row, lock, noted, saw, pc, at>>
    BY <1>2 DEF Tick, vars, ledger, history, txn, loop
  <2> QED
    BY <1>1, <2>1
<1>3. ASSUME NEW s \in Search, Steps(s) \/ Outage(s) PROVE Table'
  BY <1>3, TableLoop, TableSuccess, TableRead, TableInsert, TableCommit, TableTrip, TableOutage DEF Steps
<1>4. ASSUME NEW c \in Caller, Finish(c) PROVE Table'
  <2>1. UNCHANGED <<row, lock, noted, saw>>
    BY <1>4 DEF Finish, ledger, history, txn
  <2>2. \A s \in Search : (pc'[s] = pc[s] /\ at'[s] = at[s]) \/ pc'[s] = "idle"
    BY <1>4 DEF Finish, Each
  <2> QED
    BY <1>1, <2>1, <2>2
<1>5. ASSUME NEW c \in Caller, NEW queries \in SUBSET Topic[c], Begin(c, queries) PROVE Table'
  <2>1. UNCHANGED <<row, lock, noted, saw, at>>
    BY <1>5 DEF Begin, ledger, history, txn, loop
  <2>2. \A s \in Search : pc'[s] \in {pc[s], "look"}
    BY <1>5 DEF Begin, Each
  <2> QED
    BY <1>1, <2>1, <2>2
<1> QED
  BY <1>2, <1>3, <1>4, <1>5 DEF Next

-----------------------------------------------------------------------------
(* "EXHAUSTED" HAS A CAUSE *)

LEMMA SaysMore ==
  ASSUME NEW e \in Seq(Reason), NEW why \in Reason, Says(Append(e, why))
  PROVE  Says(e) \/ why = AccountLevel
<1>1. PICK k \in DOMAIN Append(e, why) : Append(e, why)[k] = AccountLevel
  BY DEF Says
<1>2. CASE k = Len(e) + 1
  BY <1>1, <1>2
<1>3. CASE k # Len(e) + 1
  BY <1>1, <1>3 DEF Says
<1> QED
  BY <1>2, <1>3

(* The verdict repeats what the providers said.                            *)
LEMMA VerdictHasCause ==
  ASSUME NEW e \in Seq(Reason), NEW b \in Seq(Reason), Verdict(e, b) = "exhausted"
  PROVE  Says(e) \/ Says(b)
<1>1. CASE AccountLevel \in {e[k] : k \in DOMAIN e}
  BY <1>1 DEF Says
<1>2. CASE b # <<>> /\ Head(b) = AccountLevel
  <2>1. 1 \in DOMAIN b
    BY <1>2
  <2>2. Head(b) = b[1]
    BY <1>2, <2>1
  <2> QED
    BY <1>2, <2>1, <2>2 DEF Says
<1> QED
  BY <1>1, <1>2 DEF Verdict

(* What the searches beside s say.                                         *)
Unheard(s) ==
  /\ Others(s)
  /\ \A t \in Search \ {s} : /\ errs'[t] = errs[t] /\ blocked'[t] = blocked[t]
                            /\ answer'[t] = answer[t] /\ reset'[t] = reset[t]

LEMMA UnheardOf == ASSUME Types, NEW s \in Search, Steps(s) \/ Outage(s) PROVE Unheard(s)
<1>1. \A t \in Search \ {s} : errs'[t] = errs[t] /\ blocked'[t] = blocked[t] /\ answer'[t] = answer[t]
  <2>1. CASE UNCHANGED loop
    BY <2>1 DEF loop
  <2>2. CASE \E e, b : Advance(s, e, b)
    BY <2>2 DEF Advance, Types
  <2>3. CASE \E what : Ends(s, what)
    BY <2>3 DEF Ends, Types
  <2> QED
    BY <2>1, <2>2, <2>3, Kinds DEF Kind, Walks, Leaves, Fails, Skips
<1>2. \A t \in Search \ {s} : reset'[t] = reset[t]
  <2>1. CASE UNCHANGED reset
    BY <2>1
  <2>2. CASE \E v : reset' = [reset EXCEPT ![s] = v]
    BY <2>2 DEF Types
  <2>3. CASE Clear(s)
    BY <2>2, <2>3 DEF Clear
  <2>4. CASE Leaves(s)
    BY <2>3, <2>4 DEF Leaves, Fails, Skips, Advance, Ends
  <2>5. CASE UNCHANGED request
    BY <2>1, <2>5 DEF request
  <2>6. CASE Look(s) \/ Enter(s) \/ LookAgain(s) \/ Dial(s)
    BY <2>3, <2>5, <2>6 DEF Look, Enter, LookAgain, Dial, Skips, Advance
  <2>7. CASE Succeeds(s) \/ Refused(s) \/ Rejected(s) \/ \E limited \in BOOLEAN : Falters(s, limited)
    BY <2>2, <2>5, <2>7 DEF Succeeds, Refused, Rejected, Falters
  <2>8. CASE Success(s) \/ CountRead(s) \/ CountInsert(s) \/ CountCommit(s) \/ Outage(s)
    BY <2>3, <2>5, <2>8 DEF Success, CountRead, CountInsert, Clash, CountCommit, Fails, Advance, Ends, Outage
  <2>9. CASE TripRead(s) \/ TripInsert(s) \/ TripWrite(s)
    <3>1. CASE Tripped(s)
      BY <2>3, <3>1 DEF Tripped, Fails, Advance
    <3> QED
      BY <2>3, <2>5, <2>9, <3>1 DEF TripRead, TripInsert, TripWrite, Clash, Ends
  <2> QED
    BY <2>6, <2>7, <2>8, <2>9 DEF Steps
<1> QED
  BY <1>1, <1>2, OthersStay DEF Unheard

LEMMA LeavesQuietly ==
  ASSUME Types, Silent, NEW s \in Search, Leaves(s) PROVE Quiet(s)'
<1>1. errs[s] \in Seq(Reason) /\ blocked[s] \in Seq(Reason) /\ Quiet(s)
  BY DEF Types, Silent
<1>2. pc'[s] \notin Tripping
  BY LeavesPlace DEF Tripping
<1>3. ASSUME NEW e \in Seq(Reason), NEW b \in Seq(Reason), Advance(s, e, b), ~Says(e), ~Says(b)
      PROVE  Quiet(s)'
  <2>1. errs'[s] = e /\ blocked'[s] = b
    BY <1>3 DEF Advance, Types
  <2>2. answer'[s] \in {answer[s], Verdict(e, b)}
    BY <1>3 DEF Advance, Types
  <2> QED
    BY <1>1, <1>2, <1>3, <2>1, <2>2, VerdictHasCause DEF Quiet, Says
<1>4. ASSUME NEW kind \in Reason, Fails(s, kind), kind = AccountLevel => pc[s] \in Tripping /\ reset[s] = 0
      PROVE  Quiet(s)'
  <2>1. ~Says(Append(errs[s], kind)) /\ ~Says(blocked[s]) /\ Append(errs[s], kind) \in Seq(Reason)
    BY <1>1, <1>4, SaysMore, OneMore DEF Quiet
  <2> QED
    BY <1>1, <1>3, <1>4, <2>1 DEF Fails
<1>5. ASSUME Skips(s), row[Here(s)] # NoRow PROVE Quiet(s)'
  <2> DEFINE why == row[Here(s)].reason
  <2>1. why \in Reason /\ why # AccountLevel
    BY <1>5, Places DEF Types, Row, Silent
  <2>2. Advance(s, errs[s], Append(blocked[s], why))
    BY <1>5 DEF Skips
  <2> HIDE DEF why
  <2>3. ~Says(errs[s]) /\ ~Says(Append(blocked[s], why)) /\ Append(blocked[s], why) \in Seq(Reason)
    BY <1>1, <2>1, SaysMore, OneMore DEF Quiet
  <2> QED
    BY <1>1, <1>3, <2>2, <2>3
<1>6. ASSUME NEW what \in {"results", "broke"}, Ends(s, what) PROVE Quiet(s)'
  BY <1>1, <1>2, <1>6 DEF Ends, Types, Quiet, Says
<1> QED
  BY <1>4, <1>5, <1>6 DEF Leaves

LEMMA WalksQuietly ==
  ASSUME Types, Silent, NEW s \in Search, refused' = {}, UNCHANGED loop, Steps(s)
  PROVE  Quiet(s)'
<1>1. Quiet(s) /\ UNCHANGED <<errs, blocked, answer>>
  BY DEF Silent, loop
<1>2. ASSUME NEW step \in Busy \ Tripping, To(s, step) PROVE Quiet(s)'
  BY <1>1, <1>2 DEF Quiet, Says, To, Types
<1>3. ASSUME UNCHANGED reset, pc[s] \in Tripping PROVE Quiet(s)'
  BY <1>1, <1>3 DEF Quiet, Says
<1>4. CASE Leaves(s)
  BY <1>4, LeavesQuietly
<1>5. CASE Look(s) \/ Enter(s) \/ LookAgain(s) \/ Dial(s)
  <2>1. CASE Look(s) /\ Blocked(Here(s))
    BY <1>4, <2>1 DEF Look, Leaves, Frees, Blocked, Open, slots
  <2>2. CASE LookAgain(s) /\ Blocked(Here(s))
    BY <1>4, <2>2 DEF LookAgain, StillBlocked, Leaves, Frees, Blocked, Open, Slotted
  <2>3. CASE (Look(s) /\ ~Blocked(Here(s))) \/ Enter(s) \/ (LookAgain(s) /\ ~Blocked(Here(s))) \/ Dial(s)
    BY <1>2, <2>3 DEF Look, Enter, LookAgain, StillBlocked, Dial, Busy, Past, Tripping
  <2> QED
    BY <1>5, <2>1, <2>2, <2>3
<1>6. CASE Succeeds(s) \/ Rejected(s)
  BY <1>2, <1>6 DEF Succeeds, Rejected, Note, Busy, Past, Tripping
<1>7. CASE Refused(s)
  BY <1>7 DEF Refused
<1>8. ASSUME NEW limited \in BOOLEAN, Falters(s, limited) PROVE Quiet(s)'
  <2> DEFINE until == IF limited THEN now + RateWindow ELSE reset[s]
  <2>1. \/ \E step \in {"dial", "count"} : To(s, step)
        \/ reset' = [reset EXCEPT ![s] = until] /\ until > 0
    BY <1>8 DEF Falters, Note
  <2>2. until \in Nat
    BY Limits DEF Types
  <2> HIDE DEF until
  <2>3. ASSUME reset' = [reset EXCEPT ![s] = until], until > 0 PROVE Quiet(s)'
    <3>1. reset'[s] # 0
      BY <2>2, <2>3 DEF Types
    <3> QED
      BY <1>1, <3>1 DEF Quiet, Says
  <2> QED
    BY <1>2, <2>1, <2>3 DEF Busy, Past, Tripping
<1>9. CASE Success(s) \/ CountRead(s) \/ CountInsert(s) \/ CountCommit(s)
  <2>1. CASE \E step \in {"insert", "counted", "count"} : To(s, step)
    BY <1>2, <2>1 DEF Busy, Past, Tripping
  <2>2. CASE Success(s) \/ CountCommit(s) \/ (Clash(s, "count") /\ pc[s] = "insert" /\ again[s])
    BY <1>4, <2>2 DEF Success, CountCommit, Clash, Leaves, Frees, Slotted, Past, Reason, AccountLevel
  <2> QED
    BY <1>9, <2>1, <2>2 DEF CountRead, CountInsert, Clash
<1>10. CASE TripRead(s) \/ TripInsert(s) \/ TripWrite(s)
  <2>1. pc[s] \in Tripping
    BY <1>10 DEF TripRead, TripInsert, TripWrite, Tripping
  <2>2. CASE Tripped(s)
    <3>1. WhyOf(s) \in Reason /\ (WhyOf(s) = AccountLevel => reset[s] = 0)
      BY DEF WhyOf, Reason, AccountLevel
    <3> QED
      BY <1>4, <2>1, <2>2, <3>1 DEF Tripped, Leaves, Frees, Slotted, Past, Tripping
  <2>3. CASE Ends(s, "broke") /\ Give(s)
    BY <1>4, <2>1, <2>3 DEF Leaves, Frees, Slotted, Past, Tripping
  <2>4. CASE UNCHANGED request
    BY <1>3, <2>1, <2>4 DEF request
  <2> QED
    BY <1>10, <2>2, <2>3, <2>4 DEF TripRead, TripInsert, TripWrite, Clash
<1> QED
  BY <1>5, <1>6, <1>7, <1>8, <1>9, <1>10 DEF Steps

(* No row of the account is written but for one who was told.              *)
LEMMA RowsQuietly ==
  ASSUME Types, Silent, Table, NEW s \in Search, Steps(s) \/ Outage(s)
  PROVE  \A p \in Provider : row'[p] # NoRow => row'[p].reason # AccountLevel
<1>1. ASSUME NEW r, Write(s, r), r # NoRow => r.reason # AccountLevel
      PROVE  \A p \in Provider : row'[p] # NoRow => row'[p].reason # AccountLevel
  BY <1>1 DEF Write, Types, Silent
<1>2. CASE UNCHANGED row
  BY <1>2 DEF Silent
<1>3. CASE CountCommit(s)
  <2>1. saw[s] \in Row
    BY <1>3 DEF CountCommit, Table, Sees, Types
  <2>2. Counted(s).reason = "tool_request"
    BY <2>1 DEF Counted, Row
  <2> QED
    BY <1>1, <1>3, <2>2 DEF CountCommit, AccountLevel
<1>4. CASE TripInsert(s) \/ TripWrite(s)
  <2>1. pc[s] \in Tripping
    BY <1>4 DEF TripInsert, TripWrite, Tripping
  <2>2. WhyOf(s) # AccountLevel
    BY <2>1 DEF Silent, Quiet, WhyOf, AccountLevel
  <2>3. CASE Clash(s, "trip")
    BY <1>2, <2>3 DEF Clash, ledger
  <2>4. CASE TripInsert(s) /\ ~Clash(s, "trip")
    BY <1>1, <2>2, <2>4 DEF TripInsert
  <2>5. CASE TripWrite(s) /\ row[Here(s)] # NoRow
    <3>1. row[Here(s)] \in Row
      BY <2>5, Places DEF Types
    <3>2. [row[Here(s)] EXCEPT !.reason = WhyOf(s), !.open = Until(s)].reason = WhyOf(s)
      BY <3>1 DEF Row
    <3> QED
      BY <1>1, <2>2, <2>5, <3>2 DEF TripWrite
  <2>6. CASE TripWrite(s) /\ row[Here(s)] = NoRow
    BY <1>2, <2>6 DEF TripWrite
  <2> QED
    BY <1>4, <2>3, <2>4, <2>5, <2>6
<1>5. CASE Success(s)
  BY <1>1, <1>5 DEF Success
<1>6. CASE \/ Look(s) \/ Enter(s) \/ LookAgain(s) \/ Dial(s)
           \/ Succeeds(s) \/ Refused(s) \/ Rejected(s) \/ \E limited \in BOOLEAN : Falters(s, limited)
  BY <1>2, <1>6 DEF Look, Enter, LookAgain, Dial, Succeeds, Refused, Rejected, Falters, Told, ledger
<1>7. CASE CountRead(s) \/ CountInsert(s) \/ TripRead(s) \/ Outage(s)
  BY <1>2, <1>7 DEF CountRead, CountInsert, Clash, TripRead, Outage, ledger
<1> QED
  BY <1>3, <1>4, <1>5, <1>6, <1>7 DEF Steps

LEMMA RefusedGrows == ASSUME Types, [Next]_vars PROVE refused \subseteq refused'
<1> USE DEF InTable, Told, history
<1>1. CASE Tick \/ UNCHANGED vars
  BY <1>1 DEF Tick, vars
<1>2. ASSUME NEW s \in Search, Steps(s) \/ Outage(s) PROVE refused \subseteq refused'
  <2>1. CASE \/ Look(s) \/ Enter(s) \/ LookAgain(s) \/ Dial(s)
             \/ Succeeds(s) \/ Refused(s) \/ Rejected(s) \/ \E limited \in BOOLEAN : Falters(s, limited)
    BY <2>1 DEF Look, Enter, LookAgain, Dial, Succeeds, Refused, Rejected, Falters
  <2>2. CASE \/ Success(s) \/ CountRead(s) \/ CountInsert(s) \/ CountCommit(s) \/ Outage(s)
             \/ TripRead(s) \/ TripInsert(s) \/ TripWrite(s)
    BY <2>2 DEF Success, CountRead, CountInsert, CountCommit, Outage, TripRead, TripInsert, TripWrite
  <2> QED
    BY <1>2, <2>1, <2>2 DEF Steps
<1>3. ASSUME NEW c \in Caller, Finish(c) \/ \E queries \in SUBSET Topic[c] : Begin(c, queries)
      PROVE  refused \subseteq refused'
  BY <1>3 DEF Finish, Begin
<1> QED
  BY <1>1, <1>2, <1>3 DEF Next

LEMMA CauseStep == Types /\ Table /\ Cause /\ [Next]_vars => Cause'
<1> SUFFICES ASSUME Types, Table, Silent, refused' = {}, [Next]_vars PROVE Silent'
  BY RefusedGrows DEF Cause
<1>1. CASE Tick \/ UNCHANGED vars
  <2>1. UNCHANGED <<row, pc, reset, errs, blocked, answer, reply>>
    BY <1>1 DEF Tick, vars, ledger, loop, request, tool
  <2> QED
    BY <2>1 DEF Silent, Quiet, Says
<1>2. ASSUME NEW s \in Search, Steps(s) \/ Outage(s) PROVE Silent'
  <2>1. Quiet(s)'
    <3>1. CASE Leaves(s)
      BY <3>1, LeavesQuietly
    <3>2. CASE UNCHANGED loop /\ Steps(s)
      BY <3>2, WalksQuietly
    <3>3. CASE Outage(s)
      BY <3>3, <3>1 DEF Outage, Returned, Leaves, Frees, Give, Slotted, Past
    <3> QED
      BY <1>2, <3>1, <3>2, <3>3, Kinds DEF Kind, Walks
  <2>2. \A t \in Search \ {s} : Quiet(t)'
    BY <1>2, UnheardOf DEF Unheard, Others, Silent, Quiet, Says
  <2>3. UNCHANGED reply
    BY <1>2, Kinds DEF Kind, tool
  <2> QED
    BY <1>2, <2>1, <2>2, <2>3, RowsQuietly DEF Silent
<1>3. ASSUME NEW c \in Caller, Finish(c) PROVE Silent'
  <2> DEFINE mine == {s \in Mine(c) : pc[s] = "over"}
  <2>1. /\ pc' = Each(mine, pc, "idle") /\ errs' = Each(mine, errs, <<>>)
        /\ blocked' = Each(mine, blocked, <<>>) /\ answer' = Each(mine, answer, "none")
        /\ UNCHANGED <<row, reset>>
    BY <1>3 DEF Finish, ledger, request
  <2>2. ~ \E s \in mine : answer[s] = "exhausted"
    BY DEF Silent, Quiet, Mine
  <2>3. \E known : reply' = [reply EXCEPT ![c] = [status |-> IF known = {} THEN "failed" ELSE "completed",
                                              exhausted |-> FALSE, found |-> known]]
    BY <1>3, <2>2 DEF Finish
  <2>4. \A d \in Caller : ~reply'[d].exhausted
    BY <2>3 DEF Silent, Types
  <2> HIDE DEF mine
  <2>5. ~Says(<<>>)
    BY DEF Says
  <2>6. \A s \in Search : Quiet(s)'
    <3> TAKE s \in Search
    <3>1. CASE s \in mine
      BY <2>1, <2>5, <3>1 DEF Each, Quiet, Tripping, Says
    <3>2. CASE s \notin mine
      BY <2>1, <3>2 DEF Each, Quiet, Silent, Says
    <3> QED
      BY <3>1, <3>2
  <2> QED
    BY <2>1, <2>4, <2>6 DEF Silent
<1>4. ASSUME NEW c \in Caller, NEW queries \in SUBSET Topic[c], Begin(c, queries) PROVE Silent'
  <2>1. UNCHANGED <<row, reset, errs, blocked, answer>> /\ \A s \in Search : pc'[s] \in {pc[s], "look"}
    BY <1>4 DEF Begin, ledger, request, loop, Each
  <2>2. \A d \in Caller : ~reply'[d].exhausted
    BY <1>4 DEF Begin, NoReply, Silent, Types
  <2> QED
    BY <2>1, <2>2 DEF Silent, Quiet, Says, Tripping
<1> QED
  BY <1>1, <1>2, <1>3, <1>4 DEF Next

-----------------------------------------------------------------------------
(* NO RUSH *)

LEMMA RushSize ==
  ASSUME Types, NEW r \in Run, NEW p \in Provider
  PROVE  Rush(r, p) \subseteq Search
BY DEF Types, Rush, Of

(* A provider is rushed by no more than before, or by those who hold a     *)
(* slot.                                                                   *)
LEMMA BurstKeeps ==
  ASSUME Types, Types', Gated', Burst,
         \A p \in Provider : ~Open(row[p])' => late'[p] = {},
         \A r \in Run, p \in Provider : late'[p] = {} \/ Rush(r, p)' \subseteq Rush(r, p)
  PROVE  Burst'
<1> SUFFICES ASSUME NEW r \in Run, NEW p \in Provider PROVE Cardinality(Rush(r, p)') <= Slots
  BY DEF Burst
<1>1. CASE Rush(r, p)' \subseteq Rush(r, p)
  <2>1. /\ Cardinality(Rush(r, p)) \in Nat /\ Cardinality(Rush(r, p)') \in Nat
        /\ Cardinality(Rush(r, p)') <= Cardinality(Rush(r, p))
    BY <1>1, RushSize, SubsetSize
  <2>2. Cardinality(Rush(r, p)) <= Slots
    BY DEF Burst
  <2> QED
    BY <2>1, <2>2, Limits
<1>2. CASE late'[p] = {}
  <2>1. Rush(r, p)' \subseteq Of(r, p, Slotted)' /\ Of(r, p, Slotted)' \subseteq Search
    BY <1>2 DEF Rush, Of, Slotted
  <2>2. /\ Cardinality(Rush(r, p)') \in Nat /\ Cardinality(Of(r, p, Slotted)') \in Nat
        /\ Cardinality(Rush(r, p)') <= Cardinality(Of(r, p, Slotted)')
    BY <2>1, SubsetSize
  <2>3. gate'[r][p] \in Int /\ gate'[r][p] >= 0 /\ gate'[r][p] + Cardinality(Of(r, p, Slotted)') = Slots
    BY DEF Gated, Types
  <2> QED
    BY <2>2, <2>3, Limits
<1> QED
  BY <1>1, <1>2

(* The table is left alone.                                                *)
LEMMA BurstStays ==
  ASSUME Types, Types', Gated', Burst, UNCHANGED <<row, now, late>>,
         \A s \in Search :
           pc'[s] \in Past =>
             /\ at'[s] = at[s]
             /\ pc[s] \in Past \/ ~Open(row[Here(s)])
  PROVE  Burst'
<1>1. \A p \in Provider : ~Open(row[p])' => late'[p] = {}
  BY DEF Burst, Open
<1>2. ASSUME NEW r \in Run, NEW p \in Provider, late'[p] # {} PROVE Rush(r, p)' \subseteq Rush(r, p)
  <2>1. Open(row[p])
    BY <1>2 DEF Burst
  <2>2. Of(r, p, Past)' \subseteq Of(r, p, Past)
    BY <2>1 DEF Of, Here, RunOf
  <2> QED
    BY <2>2 DEF Rush, RunOf
<1> QED
  BY <1>1, <1>2, BurstKeeps

(* A search that writes is done with its provider.                         *)
LEMMA BurstWrites ==
  ASSUME Types, Types', Gated', Burst, NEW s \in Search, NEW r, Write(s, r), UNCHANGED now, Others(s),
         pc[s] \in Past, pc'[s] \notin Past
  PROVE  Burst'
<1> DEFINE q == Here(s)
<1>1. q \in Provider
  BY Places DEF Types
<1>2. \A p \in Provider : row'[p] = IF p = q THEN r ELSE row[p]
  BY DEF Write, Types
<1>3. \A p \in Provider : late'[p] = IF p # q THEN late[p] ELSE IF ~Open(r) THEN {}
                                    ELSE IF Open(row[q]) THEN late[p] ELSE {s}
  BY DEF Write, Types
<1>4. s \in Of(RunOf(s), q, Past)
  BY DEF Of
<1>5. \A p \in Provider : Open(row[p])' <=> Open(row'[p])
  BY DEF Open
<1> HIDE DEF q
<1>6. \A p \in Provider : ~Open(row[p])' => late'[p] = {}
  BY <1>2, <1>3, <1>5 DEF Burst
<1>7. ASSUME NEW u \in Run, NEW p \in Provider PROVE late'[p] = {} \/ Rush(u, p)' \subseteq Rush(u, p)
  <2>1. Of(u, p, Past)' \subseteq Of(u, p, Past)
    BY DEF Of, Here, RunOf, Others
  <2>2. late'[p] = {} \/ late'[p] \subseteq late[p] \/ (p = q /\ late'[p] = {s})
    BY <1>3
  <2>3. CASE p = q /\ late'[p] = {s}
    <3>1. {t \in late'[p] : RunOf(t) = u} \subseteq Of(u, p, Past)
      BY <1>4, <2>3 DEF Of
    <3> QED
      BY <2>1, <3>1 DEF Rush, RunOf
  <2>4. CASE late'[p] \subseteq late[p]
    BY <2>1, <2>4 DEF Rush, RunOf
  <2> QED
    BY <2>2, <2>3, <2>4
<1> QED
  BY <1>6, <1>7, BurstKeeps

LEMMA BurstDial ==
  ASSUME Types, Types', Gated', Burst, NEW s \in Search, Dial(s), Others(s) PROVE Burst'
<1>1. /\ UNCHANGED <<row, now, at>> /\ pc[s] \in Past
      /\ late' = IF tries[s] = 0 /\ Blocked(Here(s)) THEN [late EXCEPT ![Here(s)] = @ \cup {s}] ELSE late
  BY DEF Dial, ledger, loop, Past
<1>2. s \in Of(RunOf(s), Here(s), Past) /\ Here(s) \in Provider
  BY <1>1, Places DEF Of, Types
<1>3. \A p \in Provider : late'[p] = late[p] \/ (p = Here(s) /\ Open(row[p]) /\ late'[p] = late[p] \cup {s})
  BY <1>1 DEF Types, Blocked
<1>4. \A p \in Provider : ~Open(row[p])' => late'[p] = {}
  BY <1>1, <1>3 DEF Burst, Open
<1>5. ASSUME NEW r \in Run, NEW p \in Provider PROVE Rush(r, p)' \subseteq Rush(r, p)
  <2>1. Of(r, p, Past)' \subseteq Of(r, p, Past)
    BY <1>1 DEF Of, Here, RunOf, Others
  <2>2. CASE late'[p] = late[p]
    BY <2>1, <2>2 DEF Rush, RunOf
  <2>3. CASE p = Here(s) /\ late'[p] = late[p] \cup {s}
    <3>1. {t \in late'[p] : RunOf(t) = r} \subseteq {t \in late[p] : RunOf(t) = r} \cup Of(r, p, Past)
      BY <1>2, <2>3 DEF Of
    <3> QED
      BY <2>1, <3>1 DEF Rush, RunOf
  <2> QED
    BY <1>3, <2>2, <2>3
<1> QED
  BY <1>4, <1>5, BurstKeeps

LEMMA BurstOfSearch ==
  ASSUME Types, Types', Gated', Burst, NEW s \in Search, Steps(s) \/ Outage(s) PROVE Burst'
<1> USE DEF InTable, Told, history, ledger
<1>1. Others(s)
  BY OthersStay
<1>2. pc'[s] \in Past => UNCHANGED at /\ (pc[s] \in Past \/ ~Open(row[Here(s)]))
  <2>1. ASSUME NEW step \in Busy, Walks(s, step), pc'[s] \in Past
        PROVE  UNCHANGED at /\ (pc[s] \in Past \/ ~Open(row[Here(s)]))
    BY <2>1 DEF Walks, To, Types, loop
  <2> QED
    BY <2>1, LeavesPlace, Kinds DEF Kind, Past
<1>3. CASE UNCHANGED <<row, now, late>>
  BY <1>1, <1>2, <1>3, BurstStays DEF Others
<1>4. ASSUME NEW r, Write(s, r), UNCHANGED now, pc[s] \in Past, pc'[s] \in {"look", "over"} PROVE Burst'
  BY <1>1, <1>4, BurstWrites DEF Past
<1>5. CASE Dial(s)
  BY <1>1, <1>5, BurstDial
<1>6. CASE Look(s) \/ Enter(s) \/ LookAgain(s)
  BY <1>3, <1>6 DEF Look, Enter, LookAgain
<1>7. CASE Succeeds(s) \/ Refused(s) \/ Rejected(s) \/ \E limited \in BOOLEAN : Falters(s, limited)
  BY <1>3, <1>7 DEF Succeeds, Refused, Rejected, Falters
<1>8. CASE CountRead(s) \/ TripRead(s) \/ Outage(s)
  BY <1>3, <1>8 DEF CountRead, TripRead, Outage
<1>9. CASE CountInsert(s)
  BY <1>3, <1>9 DEF CountInsert, Clash
<1>10. ASSUME \/ \E e, b : Advance(s, e, b)
              \/ \E what : Ends(s, what)
       PROVE  pc'[s] \in {"look", "over"}
  BY <1>10 DEF Advance, Ends, Types
<1>11. CASE Success(s) \/ CountCommit(s)
  BY <1>4, <1>10, <1>11 DEF Success, CountCommit, Fails, Past
<1>12. CASE TripInsert(s) \/ TripWrite(s)
  BY <1>3, <1>4, <1>10, <1>12 DEF TripInsert, TripWrite, Tripped, Clash, Fails, Past
<1> QED
  BY <1>5, <1>6, <1>7, <1>8, <1>9, <1>11, <1>12 DEF Steps

LEMMA BurstStep == Types /\ Types' /\ Gated' /\ Burst /\ [Next]_vars => Burst'
<1> SUFFICES ASSUME Types, Types', Gated', Burst, [Next]_vars PROVE Burst'
  OBVIOUS
<1>1. CASE Tick
  <2>1. /\ UNCHANGED <<row, pc, at>> /\ now' = now + 1
        /\ late' = [p \in Provider |-> IF row[p] # NoRow /\ row[p].open > now + 1 THEN late[p] ELSE {}]
    BY <1>1 DEF Tick, ledger, loop
  <2>2. \A p \in Provider : Open(row[p])' <=> row[p] # NoRow /\ row[p].open > now + 1
    BY <2>1 DEF Open
  <2>3. \A p \in Provider : ~Open(row[p])' => late'[p] = {}
    BY <2>1, <2>2
  <2>4. \A r \in Run, p \in Provider : Rush(r, p)' \subseteq Rush(r, p)
    BY <2>1 DEF Rush, Of, Here, RunOf
  <2> QED
    BY <2>3, <2>4, BurstKeeps
<1>2. CASE UNCHANGED vars
  <2>1. UNCHANGED <<row, now, late, pc, at>>
    BY <1>2 DEF vars, ledger, loop, history
  <2> QED
    BY <2>1, BurstStays
<1>3. ASSUME NEW s \in Search, Steps(s) \/ Outage(s) PROVE Burst'
  BY <1>3, BurstOfSearch
<1>4. ASSUME NEW c \in Caller, Finish(c) PROVE Burst'
  <2>1. /\ UNCHANGED <<row, now, late>>
        /\ \A s \in Search : (pc'[s] = pc[s] /\ at'[s] = at[s]) \/ pc'[s] = "idle"
    BY <1>4 DEF Finish, Each, ledger, history
  <2> QED
    BY <2>1, BurstStays DEF Past
<1>5. ASSUME NEW c \in Caller, NEW queries \in SUBSET Topic[c], Begin(c, queries) PROVE Burst'
  <2>1. UNCHANGED <<row, now, late, at>> /\ \A s \in Search : pc'[s] \in {pc[s], "look"}
    BY <1>5 DEF Begin, Each, ledger, history, loop
  <2> QED
    BY <2>1, BurstStays DEF Past
<1> QED
  BY <1>1, <1>2, <1>3, <1>4, <1>5 DEF Next

-----------------------------------------------------------------------------
(* THE THEOREMS *)

LEMMA InitInv == Init => Inv
<1> SUFFICES ASSUME Init PROVE Inv
  OBVIOUS
<1>1. Types
  BY InitTypes
<1>2. \A s \in Search : pc[s] = "idle" /\ at[s] = 1 /\ answer[s] = "none" /\ errs[s] = <<>> /\ blocked[s] = <<>>
  BY DEF Init
<1>3. Gated /\ Lined
  <2>1. Calling = {} /\ \A r \in Run, p \in Provider : Of(r, p, Slotted) = {}
    BY <1>2 DEF Calling, Of, Slotted, Past
  <2>2. http = Slots /\ \A r \in Run, p \in Provider : gate[r][p] = Slots
    BY DEF Init
  <2> QED
    BY <2>1, <2>2, FS_EmptySet, Limits DEF Gated, Lined
<1>4. Progress
  <2>1. Len(<<>>) = 0
    OBVIOUS
  <2>2. \A s \in Search : Counts(s) = 0
    <3> TAKE s \in Search
    <3>1. Len(errs[s]) = 0 /\ Len(blocked[s]) = 0
      <4>1. errs[s] = <<>> /\ blocked[s] = <<>>
        BY <1>2
      <4> QED
        BY <4>1, <2>1, Zenon
    <3>2. Counts(s) = Len(errs[s]) + Len(blocked[s])
      BY Zenon DEF Counts
    <3>3. Counts(s) = 0 + 0
      BY <3>1, <3>2, Zenon
    <3> QED
      BY <3>3
  <2> QED
    BY <1>2, <2>2 DEF Progress, Busy, Past
<1>5. \A p \in Provider : row[p] # NoRow => /\ row[p] \in Row /\ row[p].reason = "tool_request"
                                          /\ row[p].open = 0 /\ row[p].strikes = 0
                                          /\ row[p].failures \in 1 .. Threshold - 1
  BY <1>1 DEF Init, Earlier, Types
<1>6. Table
  <2>1. \A p \in Provider : noted[p] = IF row[p] = NoRow THEN 0 ELSE row[p].failures
    BY <1>5 DEF Init
  <2>2. \A p \in Provider : row[p] # NoRow => row[p].failures = row[p].failures + Threshold * row[p].strikes
                                        /\ row[p].failures < Threshold
    BY <1>5, Limits
  <2> QED
    BY <1>2, <2>1, <2>2 DEF Table, FailuresCounted
<1>7. Silent
  <2>1. ~Says(<<>>)
    BY DEF Says
  <2>2. \A c \in Caller : ~reply[c].exhausted
    BY DEF Init, NoReply
  <2> QED
    BY <1>2, <1>5, <2>1, <2>2 DEF Silent, Quiet, Tripping, AccountLevel
<1>8. Burst
  <2>1. \A p \in Provider : late[p] = {}
    BY DEF Init
  <2>2. \A r \in Run, p \in Provider : Rush(r, p) = {}
    BY <1>2, <2>1 DEF Rush, Of, Past
  <2> QED
    BY <2>1, <2>2, FS_EmptySet, Limits DEF Burst
<1> QED
  BY <1>1, <1>3, <1>4, <1>6, <1>7, <1>8 DEF Inv, Cause

LEMMA InvStep == Inv /\ [Next]_vars => Inv'
BY TypesStep, GatedStep, LinedStep, ProgressStep, TableStep, CauseStep, BurstStep DEF Inv

LEMMA Invariance == Spec => []Inv
BY InitInv, InvStep, PTL DEF Spec

LEMMA InvImplies ==
  Inv => TypeOK /\ FailuresCounted /\ BurstBounded /\ TriesAll /\ ExhaustedHasCause
<1> SUFFICES ASSUME Inv PROVE TypeOK /\ FailuresCounted /\ BurstBounded /\ TriesAll /\ ExhaustedHasCause
  OBVIOUS
<1> USE DEF Inv
<1>1. gate \in [Run -> [Provider -> 0 .. Slots]]
  <2>1. \A r \in Run, p \in Provider : gate[r][p] \in 0 .. Slots
    <3> TAKE r \in Run, p \in Provider
    <3>1. gate[r][p] \in Int /\ gate[r][p] >= 0 /\ gate[r][p] + Cardinality(Of(r, p, Slotted)) = Slots
      BY DEF Gated, Types
    <3> QED
      BY <3>1, OfSize, Limits
  <2> QED
    BY <2>1 DEF Types
<1>2. http \in 0 .. Slots
  <2>1. Cardinality(Calling) \in Nat
    BY SubsetSize DEF Calling
  <2> QED
    BY <2>1, Limits DEF Lined, Types
<1>3. TypeOK
  BY <1>1, <1>2 DEF TypeOK, Types, Busy, Past
<1>4. BurstBounded
  <2> SUFFICES ASSUME NEW p \in Provider, NEW r \in Run
               PROVE  Cardinality({s \in late[p] : RunOf(s) = r}) <= Slots
    BY DEF BurstBounded
  <2>1. {s \in late[p] : RunOf(s) = r} \subseteq Rush(r, p) /\ Rush(r, p) \subseteq Search
    BY RushSize DEF Rush
  <2>2. Cardinality(Rush(r, p)) <= Slots
    BY DEF Burst
  <2> HIDE DEF Inv
  <2> QED
    BY <2>1, <2>2, SubsetSize, Limits
<1>5. TriesAll
  BY DEF Progress, TriesAll, Counts
<1> QED
  BY <1>3, <1>4, <1>5 DEF Table, Cause, Silent, ExhaustedHasCause

(* Every variable stays in its type; a slot is never given back twice.     *)
THEOREM TypeCorrect == Spec => []TypeOK
BY Invariance, InvImplies, PTL

(* The counts of failures in the shared table add up, however the          *)
(* transactions of any number of runs interleave (provider_health.py).     *)
THEOREM FailuresAreKept == Spec => []FailuresCounted
BY Invariance, InvImplies, PTL

(* After the window of a provider opens it is called by no more searches   *)
(* of a run than the run has slots (service.py, asearch).                  *)
THEOREM ClosedProviderIsSpared == Spec => []BurstBounded
BY Invariance, InvImplies, PTL

(* A search that gives up has every provider behind it (asearch).          *)
THEOREM AllProvidersAreTried == Spec => []TriesAll
BY Invariance, InvImplies, PTL

(* Callers are told to stop only after an account was refused              *)
(* (arun_queries).                                                         *)
THEOREM ExhaustionIsReal == Spec => []ExhaustedHasCause
BY Invariance, InvImplies, PTL
=============================================================================
