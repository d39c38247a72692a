------------------------------- MODULE Search -------------------------------
(***************************************************************************)
(* Searching the web: the SearchTool of each run sends the queries of a    *)
(* call at the same time (tools/web/search/tool.py); the SearchService     *)
(* tries one provider after the other for each of them (service.py); the   *)
(* HttpClient of the worker repeats a request (transport/http_client.py).  *)
(* Which providers are to be left alone is told by rows of a table that    *)
(* all runs share (service/execution/provider_health.py), read and written *)
(* in transactions that interleave.                                        *)
(***************************************************************************)
EXTENDS Naturals, FiniteSets, Sequences

CONSTANTS
  Caller,       \* Researchers that use the search tool
  Run, Home,    \* runs, and the run of a caller
  Query, Topic, \* queries, and those a caller may ask for
  Provider,
  Order,        \* the providers, the preferred one first
  Nobody, NoRow,
  Slots,        \* search_max_concurrent_requests
  MaxAttempts,  \* requests for one search of a provider
  Threshold,    \* fail_threshold
  Base, Longest,\* cooldown_seconds and five times that
  Account,      \* _ACCOUNT_LEVEL_SECONDS
  RateWindow,   \* what a 429 asks for, at most retry_after_max_seconds
  MaxCalls,     \* bound: calls of the search tool by a caller
  MaxActive,    \* bound: searches at the same time
  MaxNow,       \* bound: the clock
  MaxFaults     \* bound: failures of the table

ASSUME SearchAssumption ==
  /\ IsFiniteSet(Caller) /\ IsFiniteSet(Run) /\ IsFiniteSet(Query)
  /\ Home \in [Caller -> Run] /\ Topic \in [Caller -> SUBSET Query]
  /\ Order \in Seq(Provider) /\ Provider = {Order[k] : k \in DOMAIN Order}
  /\ Order # <<>> /\ Len(Order) = Cardinality(Provider)
  /\ {Slots, MaxAttempts, Threshold, Base, Account, RateWindow} \subseteq Nat \ {0}
  /\ {Longest, MaxActive, MaxCalls, MaxNow, MaxFaults} \subseteq Nat

(* A search is what is done about one query of a caller.                   *)
Search == {s \in Caller \X Query : s[2] \in Topic[s[1]]}
RunOf(s) == Home[s[1]]

VARIABLES
  row, lock,      \* ProviderHealthRecord by provider, and who has it locked
  now,
  pc, at,         \* where a search stands, and with which provider
  tries, reset,   \* of arequest: attempts, and when the rate limit ends
  secs, stamp,    \* of the ledger: the window asked for, and when it was
  again,          \* the ledger's second attempt
  saw,            \* the row a transaction has read
  errs, blocked,  \* errors of providers, reasons why others were left out
  answer,         \* what asearch returned or raised
  gate,           \* free slots of the run's semaphore of a provider
  http,           \* free slots of the worker's client
  calls, want, reply,   \* of the search tool: calls, their queries, last result
  cache,                \* _query_cache of a run
  noted, late, refused, \* history, see the properties
  faults

ledger  == <<row, lock>>
loop    == <<at, errs, blocked, answer>>
request == <<tries, reset>>
txn     == <<secs, stamp, again, saw>>
slots   == <<gate, http>>
tool    == <<calls, want, reply, cache>>
history == <<noted, late, refused>>
vars == <<ledger, now, pc, loop, request, txn, slots, tool, history, faults>>

AccountLevel == "account"
Reason == {AccountLevel, "rate_limited", "tool_request"}
Row == [reason : Reason, open : Nat, failures : Nat, strikes : Nat]
ASSUME NullsAreNulls == Nobody \notin Search /\ NoRow \notin Row
NoReply == [status |-> "none", exhausted |-> FALSE, found |-> {}]

(* Failures that earlier runs have noted of the preferred provider, if any. *)
Earlier == {NoRow} \cup [reason : {"tool_request"}, open : {0}, failures : 1 .. Threshold - 1,
                        strikes : {0}]

Init ==
  /\ \E old \in Earlier :
       /\ row = [p \in Provider |-> IF p = Head(Order) THEN old ELSE NoRow]
       /\ noted = [p \in Provider |-> IF row[p] = NoRow THEN 0 ELSE row[p].failures]
  /\ lock = [p \in Provider |-> Nobody]
  /\ now = 0
  /\ pc = [s \in Search |-> "idle"] /\ at = [s \in Search |-> 1]
  /\ tries = [s \in Search |-> 0] /\ reset = [s \in Search |-> 0]
  /\ secs = [s \in Search |-> 0] /\ stamp = [s \in Search |-> 0]
  /\ again = [s \in Search |-> FALSE] /\ saw = [s \in Search |-> NoRow]
  /\ errs = [s \in Search |-> <<>>] /\ blocked = [s \in Search |-> <<>>]
  /\ answer = [s \in Search |-> "none"]
  /\ gate = [r \in Run |-> [p \in Provider |-> Slots]] /\ http = Slots
  /\ calls = [c \in Caller |-> 0] /\ want = [c \in Caller |-> {}]
  /\ reply = [c \in Caller |-> NoReply]
  /\ cache = [r \in Run |-> {}]
  /\ late = [p \in Provider |-> {}] /\ refused = {}
  /\ faults = 0

Smaller(m, n) == IF m <= n THEN m ELSE n
Larger(m, n) == IF m >= n THEN m ELSE n

(* delay_for                                                               *)
Cooldown(strikes) == Smaller(Base * Larger(1, strikes), Longest)

(* unavailable()                                                           *)
Open(r) == r # NoRow /\ r.open > now
Blocked(p) == Open(row[p])
Here(s) == Order[at[s]]

-----------------------------------------------------------------------------
(* THE LOOP OVER THE PROVIDERS *)

(* Errors that came in decide, the first reason for having been left out   *)
(* only when there are none.  Mutant: any reason does.                     *)
Verdict_AnyReason(e, b) ==
  IF b # <<>> \/ AccountLevel \in {e[k] : k \in DOMAIN e} THEN "exhausted" ELSE "failed"
Verdict(e, b) ==
  IF \/ AccountLevel \in {e[k] : k \in DOMAIN e}
     \/ e = <<>> /\ b # <<>> /\ Head(b) = AccountLevel
  THEN "exhausted" ELSE "failed"

(* The next provider, or, after the last, the error.  Mutant: an error is  *)
(* the end.                                                                *)
More_UnlessError(s, e) == at[s] < Len(Order) /\ e = <<>>
More(s, e) == at[s] < Len(Order)
Clear(s) ==
  /\ tries' = [tries EXCEPT ![s] = 0] /\ reset' = [reset EXCEPT ![s] = 0]
  /\ secs' = [secs EXCEPT ![s] = 0] /\ stamp' = [stamp EXCEPT ![s] = 0]
  /\ again' = [again EXCEPT ![s] = FALSE] /\ saw' = [saw EXCEPT ![s] = NoRow]
Advance(s, e, b) ==
  /\ errs' = [errs EXCEPT ![s] = e] /\ blocked' = [blocked EXCEPT ![s] = b]
  /\ Clear(s)
  /\ IF More(s, e)
     THEN /\ at' = [at EXCEPT ![s] = @ + 1] /\ pc' = [pc EXCEPT ![s] = "look"]
          /\ UNCHANGED answer
     ELSE /\ pc' = [pc EXCEPT ![s] = "over"]
          /\ answer' = [answer EXCEPT ![s] = Verdict(e, b)]
          /\ UNCHANGED at
Fails(s, kind) == Advance(s, Append(errs[s], kind), blocked[s])
Skips(s) == Advance(s, errs[s], Append(blocked[s], row[Here(s)].reason))

(* asearch returns, or raises what is not an error of a provider.          *)
Ends(s, what) ==
  /\ pc' = [pc EXCEPT ![s] = "over"] /\ answer' = [answer EXCEPT ![s] = what]
  /\ Clear(s) /\ UNCHANGED <<at, errs, blocked>>

To(s, step) == pc' = [pc EXCEPT ![s] = step]
Give(s) == gate' = [gate EXCEPT ![RunOf(s)][Here(s)] = @ + 1]

Look(s) ==
  /\ pc[s] = "look"
  /\ IF Blocked(Here(s)) THEN Skips(s) ELSE To(s, "queue") /\ UNCHANGED <<loop, request, txn>>
  /\ UNCHANGED <<ledger, now, slots, tool, history, faults>>

Enter(s) ==
  /\ pc[s] = "queue" /\ gate[RunOf(s)][Here(s)] > 0
  /\ gate' = [gate EXCEPT ![RunOf(s)][Here(s)] = @ - 1]
  /\ To(s, "again")
  /\ UNCHANGED <<ledger, now, loop, request, txn, http, tool, history, faults>>

(* The second look, with the slot in hand.  Mutant: there is none.         *)
StillBlocked_Never(p) == FALSE
StillBlocked(p) == Blocked(p)

LookAgain(s) ==
  /\ pc[s] = "again"
  /\ IF StillBlocked(Here(s))
     THEN Skips(s) /\ Give(s)
     ELSE To(s, "dial") /\ UNCHANGED <<loop, request, txn, gate>>
  /\ UNCHANGED <<ledger, now, http, tool, history, faults>>

-----------------------------------------------------------------------------
(* REQUESTS: arequest() *)

(* (History: calls of a provider that begin while its window is open.)     *)
Dial(s) ==
  /\ pc[s] = "dial" /\ http > 0
  /\ http' = http - 1 /\ To(s, "call")
  /\ late' = IF tries[s] = 0 /\ Blocked(Here(s)) THEN [late EXCEPT ![Here(s)] = @ \cup {s}] ELSE late
  /\ UNCHANGED <<ledger, now, loop, request, txn, gate, tool, noted, refused, faults>>

Hears(s) == pc[s] = "call" /\ http' = http + 1
Told == UNCHANGED <<ledger, now, loop, gate, tool, noted, late, faults>>

Succeeds(s) == Hears(s) /\ To(s, "success") /\ Told /\ UNCHANGED <<request, txn, refused>>

Note(s, step, window) ==
  /\ To(s, step) /\ tries' = [tries EXCEPT ![s] = 0]
  /\ secs' = [secs EXCEPT ![s] = window] /\ stamp' = [stamp EXCEPT ![s] = now]
  /\ UNCHANGED <<again, saw>>

(* The account is out of credit or the key is wrong.                       *)
Refused(s) ==
  /\ Hears(s) /\ refused' = refused \cup {Here(s)}
  /\ Note(s, "trip", Account)
  /\ reset' = [reset EXCEPT ![s] = 0] /\ Told

(* A status that is final for the request, but not for the provider.       *)
Rejected(s) ==
  /\ Hears(s) /\ reset' = [reset EXCEPT ![s] = 0]
  /\ Note(s, "count", 0)
  /\ Told /\ UNCHANGED refused

(* A timeout or a status worth another attempt; a rate limit tells when it *)
(* ends, and the last one seen is remembered.                              *)
Falters(s, limited) ==
  /\ Hears(s)
  /\ LET until == IF limited THEN now + RateWindow ELSE reset[s]
     IN  /\ reset' = [reset EXCEPT ![s] = until]
         /\ IF tries[s] + 1 < MaxAttempts
            THEN /\ To(s, "dial") /\ tries' = [tries EXCEPT ![s] = @ + 1]
                 /\ UNCHANGED txn
            ELSE IF until > 0
            THEN Note(s, "trip", IF until > now THEN until - now ELSE 1)
            ELSE Note(s, "count", 0)
  /\ Told /\ UNCHANGED refused

-----------------------------------------------------------------------------
(* TRANSACTIONS ON THE TABLE *)

Free(s) == lock[Here(s)] = Nobody
WhyOf(s) == IF reset[s] = 0 THEN AccountLevel ELSE "rate_limited"
(* (History: who opened the window comes first.)                           *)
Write(s, r) ==
  /\ row' = [row EXCEPT ![Here(s)] = r]
  /\ late' = [late EXCEPT ![Here(s)] =
       IF ~Open(r) THEN {} ELSE IF Open(row[Here(s)]) THEN @ ELSE {s}]
InTable == UNCHANGED <<now, http, tool, refused, faults>>

(* record_success, then the results (a row nobody sees yet is not deleted).*)
Success(s) ==
  /\ pc[s] = "success" /\ (Free(s) \/ row[Here(s)] = NoRow)
  /\ Write(s, NoRow) /\ noted' = [noted EXCEPT ![Here(s)] = 0]
  /\ Give(s) /\ Ends(s, "results")
  /\ InTable /\ UNCHANGED lock

(* A second insert of the same key ends this attempt, or, on the second,   *)
(* the search.                                                             *)
Clash(s, step) ==
  /\ row[Here(s)] # NoRow
  /\ IF again[s]
     THEN Give(s) /\ Ends(s, "broke")
     ELSE /\ To(s, step) /\ again' = [again EXCEPT ![s] = TRUE]
          /\ stamp' = [stamp EXCEPT ![s] = now]
          /\ UNCHANGED <<loop, request, secs, saw, gate>>
  /\ UNCHANGED <<ledger, noted, late>>

(* record_failure reads the row and locks it.  Mutant: without a lock.     *)
Locked_Not(s) == Nobody
Locked(s) == s
CountRead(s) ==
  /\ pc[s] = "count"
  /\ IF row[Here(s)] = NoRow
     THEN To(s, "insert") /\ UNCHANGED <<lock, saw>>
     ELSE /\ Free(s)
          /\ lock' = [lock EXCEPT ![Here(s)] = Locked(s)]
          /\ saw' = [saw EXCEPT ![s] = row[Here(s)]] /\ To(s, "counted")
  /\ InTable /\ UNCHANGED <<row, loop, request, secs, stamp, again, gate, noted, late>>
CountInsert(s) ==
  /\ pc[s] = "insert" /\ Free(s)
  /\ \/ /\ row[Here(s)] = NoRow
        /\ lock' = [lock EXCEPT ![Here(s)] = s]
        /\ saw' = [saw EXCEPT ![s] = [reason |-> "tool_request", open |-> stamp[s],
                                      failures |-> 0, strikes |-> 0]]
        /\ To(s, "counted")
        /\ UNCHANGED <<row, loop, request, secs, stamp, again, gate, noted, late>>
     \/ Clash(s, "count")
  /\ InTable

(* The threshold-th failure in a row opens a window, the longer the more   *)
(* often it has.                                                           *)
Counted(s) ==
  LET r == [saw[s] EXCEPT !.reason = "tool_request", !.failures = @ + 1]
  IN  IF r.failures < Threshold THEN r
      ELSE [r EXCEPT !.failures = 0, !.strikes = @ + 1,
                     !.open = stamp[s] + Cooldown(r.strikes + 1)]
CountCommit(s) ==
  /\ pc[s] = "counted"
  /\ Write(s, Counted(s)) /\ lock' = [lock EXCEPT ![Here(s)] = Nobody]
  /\ noted' = [noted EXCEPT ![Here(s)] = @ + 1]
  /\ Give(s) /\ Fails(s, "tool_request")
  /\ InTable

(* trip reads the row without a lock, and writes by its key.               *)
Until(s) == stamp[s] + secs[s]
Tripped(s) == Give(s) /\ Fails(s, WhyOf(s))
TripRead(s) ==
  /\ pc[s] = "trip"
  /\ CASE row[Here(s)] = NoRow ->
            To(s, "trip_insert") /\ UNCHANGED <<loop, request, txn, gate>>
       [] row[Here(s)] # NoRow /\ Until(s) > row[Here(s)].open ->
            To(s, "trip_write") /\ UNCHANGED <<loop, request, txn, gate>>
       [] OTHER -> Tripped(s)
  /\ InTable /\ UNCHANGED <<ledger, noted, late>>
TripInsert(s) ==
  /\ pc[s] = "trip_insert" /\ Free(s)
  /\ \/ /\ row[Here(s)] = NoRow
        /\ Write(s, [reason |-> WhyOf(s), open |-> Until(s), failures |-> 0, strikes |-> 0])
        /\ Tripped(s) /\ UNCHANGED <<lock, noted>>
     \/ Clash(s, "trip")
  /\ InTable
TripWrite(s) ==
  /\ pc[s] = "trip_write" /\ Free(s)
  /\ IF row[Here(s)] = NoRow     \* StaleDataError
     THEN Give(s) /\ Ends(s, "broke") /\ UNCHANGED <<row, late>>
     ELSE /\ Write(s, [row[Here(s)] EXCEPT !.reason = WhyOf(s), !.open = Until(s)])
          /\ Tripped(s)
  /\ InTable /\ UNCHANGED <<lock, noted>>

(* The table cannot be reached: no step of the loop handles that, the slot *)
(* goes back where there is one.  Mutant: it does not.                     *)
Returned_Kept(s) == gate
Returned(s) ==
  IF pc[s] = "look" THEN gate ELSE [gate EXCEPT ![RunOf(s)][Here(s)] = @ + 1]
Outage(s) ==
  /\ pc[s] \in {"look", "again", "success", "count", "insert", "counted", "trip",
                "trip_insert", "trip_write"}
  /\ faults < MaxFaults /\ faults' = faults + 1
  /\ gate' = Returned(s)
  /\ lock' = [lock EXCEPT ![Here(s)] = IF @ = s THEN Nobody ELSE @]
  /\ Ends(s, "broke")
  /\ UNCHANGED <<row, now, http, tool, history>>

-----------------------------------------------------------------------------
(* THE TOOL: arun_queries() *)

Mine(c) == {s \in Search : s[1] = c}
Idle(c) == \A s \in Mine(c) : pc[s] = "idle"

Each(set, f, x) == [s \in Search |-> IF s \in set THEN x ELSE f[s]]

Begin(c, queries) ==
  /\ Idle(c) /\ calls[c] < MaxCalls /\ queries # {}
  /\ Cardinality({s \in Search : pc[s] # "idle"} \cup ({c} \X queries)) <= MaxActive
  /\ calls' = [calls EXCEPT ![c] = @ + 1] /\ want' = [want EXCEPT ![c] = queries]
  /\ LET mine == {c} \X (queries \ cache[Home[c]])
     IN  /\ reply' = [reply EXCEPT ![c] = IF mine # {} THEN NoReply ELSE
                        [status |-> "completed", exhausted |-> FALSE, found |-> queries]]
         /\ pc' = Each(mine, pc, "look")
  /\ UNCHANGED <<ledger, now, loop, request, txn, slots, cache, history, faults>>

(* When all have ended: one account-level error is the result of all, and  *)
(* what the others found is dropped; otherwise what was found is kept, and *)
(* the call fails only if that is nothing.                                 *)
Finish(c) ==
  /\ ~Idle(c) /\ \A s \in Mine(c) : pc[s] \in {"idle", "over"}
  /\ LET mine  == {s \in Mine(c) : pc[s] = "over"}
         found == {s[2] : s \in {t \in mine : answer[t] = "results"}}
         known == found \cup (want[c] \ {s[2] : s \in mine})
     IN  /\ IF \E s \in mine : answer[s] = "exhausted"
            THEN /\ reply' = [reply EXCEPT ![c] =
                      [status |-> "failed", exhausted |-> TRUE, found |-> {}]]
                 /\ UNCHANGED cache
            ELSE /\ reply' = [reply EXCEPT ![c] =
                      [status |-> IF known = {} THEN "failed" ELSE "completed",
                       exhausted |-> FALSE, found |-> known]]
                 /\ cache' = [cache EXCEPT ![Home[c]] = @ \cup found]
         /\ pc' = Each(mine, pc, "idle") /\ at' = Each(mine, at, 1)
         /\ errs' = Each(mine, errs, <<>>) /\ blocked' = Each(mine, blocked, <<>>)
         /\ answer' = Each(mine, answer, "none")
         /\ want' = [want EXCEPT ![c] = {}]
  /\ UNCHANGED <<ledger, now, request, txn, slots, calls, history, faults>>

Tick == 
  /\ now < MaxNow /\ now' = now + 1
  /\ late' = [p \in Provider |-> IF row[p] # NoRow /\ row[p].open > now + 1 THEN late[p] ELSE {}]
  /\ UNCHANGED <<ledger, pc, loop, request, txn, slots, tool, noted, refused, faults>>

Steps(s) ==
  \/ Look(s) \/ Enter(s) \/ LookAgain(s) \/ Dial(s)
  \/ Succeeds(s) \/ Refused(s) \/ Rejected(s) \/ \E limited \in BOOLEAN : Falters(s, limited)
  \/ Success(s) \/ CountRead(s) \/ CountInsert(s) \/ CountCommit(s)
  \/ TripRead(s) \/ TripInsert(s) \/ TripWrite(s)

Next ==
  \/ Tick
  \/ \E s \in Search : Steps(s) \/ Outage(s)
  \/ \E c \in Caller : Finish(c) \/ \E queries \in SUBSET Topic[c] : Begin(c, queries)

Spec == Init /\ [][Next]_vars
(* Requests have a time limit, transactions come to an end: as long as     *)
(* something can be done about a search, something is.                     *)
Works == (\E s \in Search : Steps(s)) \/ \E c \in Caller : Finish(c)
FairSpec == Spec /\ WF_vars(Works)

-----------------------------------------------------------------------------
(* PROPERTIES *)

(* Types of the variables.                                                 *)
TypeOK ==
  /\ row \in [Provider -> Row \cup {NoRow}] /\ lock \in [Provider -> Search \cup {Nobody}]
  /\ now \in 0 .. MaxNow
  /\ pc \in [Search -> {"idle", "look", "queue", "again", "dial", "call", "success", "count",
                        "insert", "counted", "trip", "trip_insert", "trip_write", "over"}]
  /\ at \in [Search -> DOMAIN Order]
  /\ tries \in [Search -> 0 .. MaxAttempts] /\ reset \in [Search -> Nat]
  /\ secs \in [Search -> Nat] /\ stamp \in [Search -> 0 .. MaxNow]
  /\ again \in [Search -> BOOLEAN] /\ saw \in [Search -> Row \cup {NoRow}]
  /\ errs \in [Search -> Seq(Reason)] /\ blocked \in [Search -> Seq(Reason)]
  /\ answer \in [Search -> {"none", "results", "failed", "exhausted", "broke"}]
  /\ gate \in [Run -> [Provider -> 0 .. Slots]] /\ http \in 0 .. Slots
  /\ calls \in [Caller -> 0 .. MaxCalls] /\ want \in [Caller -> SUBSET Query]
  /\ reply \in [Caller -> [status : {"none", "completed", "failed"}, exhausted : BOOLEAN,
                           found : SUBSET Query]]
  /\ cache \in [Run -> SUBSET Query]
  /\ noted \in [Provider -> Nat] /\ late \in [Provider -> SUBSET Search] /\ refused \subseteq Provider
  /\ faults \in 0 .. MaxFaults

(* A failure that was noted is in the row, as one more failure in a row or *)
(* within one more strike, until a success clears both: failures that are  *)
(* noted at the same time are not lost (FOR UPDATE, and the retry of the   *)
(* first insert), nor are they by a trip in between, which writes the row  *)
(* without a lock (_record_failure_once, trip).                            *)
FailuresCounted ==
  \A p \in Provider :
    noted[p] = IF row[p] = NoRow THEN 0 ELSE row[p].failures + Threshold * row[p].strikes

(* Once the window of a provider opens, only those searches still call it  *)
(* that had passed the second look by then: with the one that opened it,   *)
(* no more of a run than it has slots.  Those in the queue do not follow   *)
(* one by one (asearch looks again with the slot in hand).                 *)
BurstBounded ==
  \A p \in Provider, r \in Run : Cardinality({s \in late[p] : RunOf(s) = r}) <= Slots

(* A search gives up only after every provider has failed it or was to be  *)
(* left alone, except when the table could not be reached.                 *)
TriesAll ==
  \A s \in Search : answer[s] \in {"failed", "exhausted"} =>
    Len(errs[s]) + Len(blocked[s]) = Len(Order)

(* The tool tells its callers to stop searching (provider_exhausted) only  *)
(* if some provider did turn down the account: a rate limit, an outage or  *)
(* a row of another reason is no cause.                                    *)
ExhaustedHasCause == \A c \in Caller : reply[c].exhausted => refused # {}

(* Every call of the tool returns: no search waits for ever for a slot, be *)
(* it that the one before it ended in an error of the table.               *)
SearchesEnd == \A c \in Caller : []<>Idle(c)
=============================================================================
