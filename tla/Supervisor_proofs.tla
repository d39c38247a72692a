-------------------------- MODULE Supervisor_proofs --------------------------
(***************************************************************************)
(* What holds of the Supervisor's loop for every number of tasks, turns,   *)
(* rounds and crashes and whatever the model answers: tasks in memory are  *)
(* registered, the board is that of the channels, a frozen synthesis is    *)
(* the current one, the active set keeps its limit, results are final.     *)
(***************************************************************************)
EXTENDS Supervisor, FiniteSetTheorems, SequenceTheorems, TLAPS

HasRegister(b) == "pending" \in DOMAIN b
Handles == {"none", "live", "found", "failed", "exhausted"}

(* The part of the types that the argument needs.                          *)
Shape == /\ HasRegister(entry) /\ HasRegister(channel) /\ HasRegister(board)
         /\ handle \in [Task -> Handles]

Registered == Shape /\ TasksRegistered

-----------------------------------------------------------------------------

LEMMA AbsorbKeepsShape ==
  ASSUME NEW b, HasRegister(b)
  PROVE  HasRegister(Absorb(b))
BY DEF HasRegister, Absorb

(* The channels lose exactly what was ready to be received.                *)
LEMMA SettleRegister ==
  ASSUME NEW c, HasRegister(c), NEW before, NEW after
  PROVE  /\ HasRegister(SettleChannels(c, before, after))
         /\ SettleChannels(c, before, after).pending = c.pending \ Ready(before)
BY DEF HasRegister, SettleChannels

(* A handle that outlives a reception is not ready, so its registration    *)
(* outlives it as well.                                                    *)
LEMMA ReceivedKeeps ==
  ASSUME handle \in [Task -> Handles], Received, NEW b
  PROVE  /\ handle' \in [Task -> Handles]
         /\ \A t \in Task : handle'[t] # "none" => handle[t] # "none" /\ t \notin Ready(b)
BY DEF Received, Handles, Ready, Lost, Done

LEMMA CloseKeeps ==
  ASSUME NEW b, HasRegister(b), Close(b)
  PROVE  /\ HasRegister(entry') /\ handle' \in [Task -> Handles] /\ TasksRegistered'
         /\ channel' = channel
BY DEF HasRegister, Close, StopResidual, Handles, TasksRegistered

(* A step that leaves handles and register alone, inside a round.          *)
LEMMA QuietStep ==
  ASSUME Registered, handle' = handle, HasRegister(channel'), HasRegister(board'),
         HasRegister(entry'), channel'.pending = channel.pending,
         next # "over", next' # "over"
  PROVE  Registered'
BY DEF Registered, Shape, TasksRegistered

LEMMA InitRegistered == Init => Registered
<1> SUFFICES ASSUME Init PROVE Registered
  OBVIOUS
<1>1. HasRegister(EmptyBoard)
  BY DEF HasRegister, EmptyBoard
<1>2. QED
  BY <1>1 DEF Init, Registered, Shape, TasksRegistered, Handles

LEMMA FinishKeeps ==
  ASSUME Registered, NEW t \in Task, Finish(t)
  PROVE  Registered'
BY DEF Registered, Shape, TasksRegistered, Finish, Handles

LEMMA RefreshKeeps == Registered /\ Refresh => Registered'
<1> SUFFICES ASSUME Registered, Refresh PROVE Registered'
  OBVIOUS
<1>1. /\ HasRegister(board') /\ HasRegister(channel') /\ HasRegister(entry')
      /\ channel'.pending = channel.pending \ Ready(channel)
  BY AbsorbKeepsShape, SettleRegister DEF Registered, Shape, Refresh
<1>2. /\ handle' \in [Task -> Handles]
      /\ \A t \in Task : handle'[t] # "none" => handle[t] # "none" /\ t \notin Ready(channel)
  BY ReceivedKeeps DEF Registered, Shape, Refresh
<1>3. next # "over" /\ next' # "over"
  BY DEF Refresh
<1>4. QED
  BY <1>1, <1>2, <1>3 DEF Registered, Shape, TasksRegistered

LEMMA ReplyKeeps == Registered /\ (Submitted \/ CallLimit \/ Reply) => Registered'
<1> SUFFICES ASSUME Registered, Submitted \/ CallLimit \/ Reply PROVE Registered'
  OBVIOUS
<1>1. UNCHANGED <<entry, channel, board, handle>> /\ next # "over" /\ next' # "over"
  <2>1. CASE Submitted
    BY <2>1 DEF Submitted
  <2>2. CASE CallLimit
    BY <2>2 DEF CallLimit
  <2>3. CASE Conclude
    BY <2>3 DEF Conclude, Asked
  <2>4. CASE RejectBareEnd
    BY <2>4 DEF RejectBareEnd, Asked
  <2>5. CASE ModelUnavailable
    BY <2>5 DEF ModelUnavailable, Asked
  <2>6. CASE IdleTurn
    BY <2>6 DEF IdleTurn, Asked
  <2>7. ASSUME NEW calls \in Replies, NEW blocked \in BOOLEAN, Execute(calls, blocked)
        PROVE  UNCHANGED <<entry, channel, board, handle>> /\ next # "over" /\ next' # "over"
    BY <2>7 DEF Execute, Asked
  <2>8. QED
    BY <2>1, <2>2, <2>3, <2>4, <2>5, <2>6, <2>7 DEF Reply
<1>2. QED
  BY <1>1, QuietStep DEF Registered, Shape

-----------------------------------------------------------------------------

LEMMA DelegateKeeps == Registered /\ Delegate => Registered'
<1> SUFFICES ASSUME Registered, Delegate PROVE Registered'
  OBVIOUS
<1>1. HasRegister(channel') /\ HasRegister(board') /\ HasRegister(entry')
  BY DEF Registered, Shape, Delegate, HasRegister
<1>2. channel'.pending = channel.pending \cup {Index}
  BY DEF Registered, Shape, Delegate, HasRegister
<1>3. handle' \in [Task -> Handles]
  BY DEF Registered, Shape, Delegate, Handles
<1>4. \A t \in Task : handle'[t] # "none" => handle[t] # "none" \/ t = Index
  BY DEF Registered, Shape, Delegate
<1>5. next # "over" /\ next' # "over"
  BY DEF Delegate, Calls
<1>6. QED
  BY <1>1, <1>2, <1>3, <1>4, <1>5 DEF Registered, Shape, TasksRegistered

LEMMA WaitKeeps == Registered /\ Wait => Registered'
<1> SUFFICES ASSUME Registered, Wait PROVE Registered'
  OBVIOUS
<1>1. HasRegister(board') /\ HasRegister(channel') /\ HasRegister(entry')
  BY AbsorbKeepsShape, SettleRegister DEF Registered, Shape, Wait, Called
<1>2. channel.pending \ Ready(board) \subseteq channel'.pending
  <2>1. CASE Ready(board) = {}
    BY <2>1 DEF Wait
  <2>2. CASE Ready(board) # {}
    BY <2>2, SettleRegister DEF Registered, Shape, Wait
  <2>3. QED
    BY <2>1, <2>2
<1>3. /\ handle' \in [Task -> Handles]
      /\ \A t \in Task : handle'[t] # "none" => handle[t] # "none" /\ t \notin Ready(board)
  BY ReceivedKeeps DEF Registered, Shape, Wait
<1>4. next # "over" /\ next' # "over"
  BY DEF Wait, Calls, Called
<1>5. QED
  BY <1>1, <1>2, <1>3, <1>4 DEF Registered, Shape, TasksRegistered

(* The tools that write neither handles nor register.                      *)
LEMMA QuietToolsKeep ==
  Registered /\ (\/ DelegateBlocked \/ DelegateBound \/ WaitInVain \/ Update \/ UpdateRejected
                 \/ Freeze \/ FreezeRejected \/ BatchDone) => Registered'
<1> SUFFICES ASSUME Registered,
                    \/ DelegateBlocked \/ DelegateBound \/ WaitInVain \/ Update \/ UpdateRejected
                    \/ Freeze \/ FreezeRejected \/ BatchDone
             PROVE  Registered'
  OBVIOUS
<1>1. /\ handle' = handle /\ entry' = entry /\ next # "over" /\ next' # "over"
      /\ HasRegister(board') /\ HasRegister(channel') /\ channel'.pending = channel.pending
  <2> USE DEF Registered, Shape, Calls, Called
  <2>1. CASE DelegateBlocked
    BY <2>1 DEF DelegateBlocked, HasRegister
  <2>2. CASE DelegateBound \/ WaitInVain \/ UpdateRejected
    BY <2>2 DEF DelegateBound, WaitInVain, UpdateRejected, Refused
  <2>3. CASE Update
    <3>1. PICK e \in Edits : \E back \in Refills(board, e) : UpdateWith(e, back)
      BY <2>3 DEF Update
    <3>2. PICK back \in Refills(board, e) : UpdateWith(e, back)
      BY <3>1
    <3>3. HasRegister(Edited(board, e, back))
      BY DEF Edited, HasRegister
    <3>4. QED
      BY <2>3, <3>2, <3>3 DEF Update, UpdateWith, HasRegister
  <2>4. CASE Freeze
    BY <2>4 DEF Freeze, FreezeChannels, HasRegister
  <2>5. CASE FreezeRejected
    BY <2>5 DEF FreezeRejected, FreezeChannels, HasRegister
  <2>6. CASE BatchDone
    BY <2>6 DEF BatchDone
  <2>7. QED
    BY <2>1, <2>2, <2>3, <2>4, <2>5, <2>6
<1>2. HasRegister(entry')
  BY <1>1 DEF Registered, Shape
<1>3. QED
  BY <1>1, <1>2, QuietStep

LEMMA ToolsKeep == Registered /\ Tools => Registered'
BY DelegateKeeps, WaitKeeps, QuietToolsKeep DEF Tools

-----------------------------------------------------------------------------

LEMMA EndKeeps == Registered /\ (Drain \/ Fail) => Registered'
<1> SUFFICES ASSUME Registered, Drain \/ Fail PROVE Registered'
  OBVIOUS
<1>1. PICK b : HasRegister(b) /\ board' = b /\ Close(b)
  <2>1. CASE Drain
    <3>1. HasRegister(Absorb(Drained))
      BY AbsorbKeepsShape DEF Drained, HasRegister, Registered, Shape
    <3>2. QED
      BY <2>1, <3>1 DEF Drain
  <2>2. CASE Fail
    BY <2>2 DEF Fail, HasRegister, Registered, Shape
  <2>3. QED
    BY <2>1, <2>2
<1>2. QED
  BY <1>1, CloseKeeps DEF Registered, Shape

LEMMA NextRoundKeeps == Registered /\ NextRound => Registered'
<1> SUFFICES ASSUME Registered, NextRound PROVE Registered'
  OBVIOUS
<1>1. HasRegister(Seed(entry))
  BY DEF Registered, Shape, Seed, HasRegister
<1>2. handle' = handle /\ \A t \in Task : handle[t] = "none"
  BY DEF Registered, TasksRegistered, NextRound
<1>3. QED
  BY <1>1, <1>2 DEF Registered, Shape, TasksRegistered, NextRound

LEMMA CrashKeeps == Registered /\ Crash => Registered'
BY DEF Registered, Shape, TasksRegistered, Crash, Handles

LEMMA StepKeeps == Registered /\ [Next]_vars => Registered'
<1> SUFFICES ASSUME Registered, [Next]_vars PROVE Registered'
  OBVIOUS
<1>1. CASE Next
  BY <1>1, RefreshKeeps, ReplyKeeps, ToolsKeep, EndKeeps, NextRoundKeeps, CrashKeeps, FinishKeeps
     DEF Next
<1>2. CASE UNCHANGED vars
  BY <1>2 DEF vars, Registered, Shape, TasksRegistered
<1>3. QED
  BY <1>1, <1>2

(* A task in memory is registered in the channels, so that a crash cannot  *)
(* make it disappear, and no task outlives the round.                      *)
THEOREM TasksStayRegistered == Spec => []TasksRegistered
<1>1. Registered => TasksRegistered
  BY DEF Registered
<1>2. QED
  BY <1>1, InitRegistered, StepKeeps, PTL DEF Spec

-----------------------------------------------------------------------------
(* TYPES *)

LEMMA Limits ==
  /\ ActiveLimit \in Nat /\ ActiveLimit > 0 /\ MaxPerRound \in Nat /\ MaxRounds \in Nat
  /\ MaxReviews \in Nat /\ MaxReviews > 0 /\ MaxTurns \in Nat /\ MaxRejections \in Nat
  /\ MaxTask \in Nat /\ MaxOps \in Nat /\ MaxCrashes \in Nat
<1>1. ActiveLimit \in Nat \ {0} /\ MaxPerRound \in Nat \ {0} /\ MaxRounds \in Nat \ {0}
      /\ MaxReviews \in Nat \ {0} /\ MaxTurns \in Nat \ {0}
  BY SupervisorAssumption, Zenon
<1>2. MaxRejections \in Nat /\ MaxTask \in Nat /\ MaxOps \in Nat /\ MaxCrashes \in Nat
  BY SupervisorAssumption, Zenon
<1> QED
  BY <1>1, <1>2

LEMMA TaskFinite == IsFiniteSet(Task) /\ Task \subseteq Nat
BY Limits, FS_Interval DEF Task

LEMMA Sized ==
  ASSUME NEW S, S \subseteq Task
  PROVE  IsFiniteSet(S) /\ Cardinality(S) \in Nat
BY TaskFinite, FS_Subset, FS_CardinalityType

(* What TypeOK says, one variable at a time.                               *)
Typed ==
  /\ entry \in Workbench /\ channel \in Workbench /\ board \in Workbench
  /\ handle \in [Task -> Handles]
  /\ next \in {"refresh", "model", "tools", "drain", "over"}
  /\ batch \in [calls : Seq(Tool), base : Nat]
  /\ turns \in 0 .. MaxTurns /\ quota \in 0 .. MaxPerRound /\ rejections \in 0 .. MaxRejections
  /\ round \in 1 .. MaxReviews /\ crashes \in 0 .. MaxCrashes
  /\ verdict \in [mode : {"open", "full", "partial", "none"}, stop : Stop, cites : SUBSET Task]
  /\ capped \in BOOLEAN /\ aged \in BOOLEAN /\ astray \in BOOLEAN

-----------------------------------------------------------------------------
(* THE INVARIANT                                                           *)
(*                                                                         *)
(* The board of a standing turn is the workbench of the channels, and an   *)
(* aged one is that of the beginning of the round; a serial tool is alone  *)
(* and finds every task received or registered on the board; indices never *)
(* come back; and the run knows what the channels have settled.            *)

Standing == next \in {"model", "tools"}
WithSerial(calls) == \E i \in DOMAIN calls : calls[i] \in Serial
Mirrored(b, c) ==
  /\ b.archive = c.archive /\ b.active = c.active /\ b.settled = c.settled
  /\ b.revision = c.revision /\ b.draft = c.draft /\ b.frozen = c.frozen
  /\ b.exhausted = c.exhausted /\ b.counter = c.counter
  /\ Rank[b.stop] >= Rank[c.stop]
Mirror == Standing /\ ~aged => Mirrored(board, channel)

Ordered ==
  ~astray =>
    /\ Standing /\ aged => board = entry
    /\ next = "tools" /\ (aged \/ channel.frozen # NoDraft) => batch.calls = <<>>
    /\ next = "model" /\ ~aged => board.pending = channel.pending
    /\ next = "tools" /\ WithSerial(batch.calls) =>
         Len(batch.calls) = 1 /\ board.pending = channel.pending

Numbered ==
  /\ \A t \in channel.pending : channel.settled[t] = "none"
  /\ \A t \in Task : t \in channel.pending \/ channel.settled[t] # "none" => t <= channel.counter
  /\ next = "tools" /\ batch.calls # <<>> => channel.counter <= batch.base

Knows(b, c) == \A t \in Task : c.settled[t] # "none" => b.settled[t] = c.settled[t]
Known ==
  /\ Standing => board.pending \subseteq channel.pending /\ Knows(channel, board)
  /\ next # "over" => entry.pending = {} /\ entry.frozen = NoDraft /\ Knows(channel, entry)
  /\ next = "over" /\ ~astray /\ verdict.mode # "none" => Knows(entry, channel)

InLimit(b) == Cardinality(b.active) <= ActiveLimit /\ b.active \subseteq b.archive
Active == ~astray => InLimit(entry) /\ InLimit(channel) /\ InLimit(board)
Frozen == FrozenIsCurrent

Inv == Typed /\ TasksRegistered /\ Mirror /\ Ordered /\ Numbered /\ Known /\ Active /\ Frozen

-----------------------------------------------------------------------------

LEMMA TypedIsTypeOK == Typed => TypeOK
<1> SUFFICES ASSUME Typed PROVE TypeOK
  OBVIOUS
<1>1. batch.calls \in Seq(Tool) /\ batch.base \in Nat
  BY DEF Typed
<1>2. {entry, channel, board} \subseteq Workbench /\ {capped, aged, astray} \subseteq BOOLEAN
  BY Zenon DEF Typed
<1> QED
  BY <1>1, <1>2 DEF Typed, TypeOK, Handles

LEMMA SynthesisElim ==
  ASSUME NEW d \in Synthesis
  PROVE  /\ d.framing \subseteq Field /\ d.based \in Nat /\ DOMAIN d.aspects \subseteq Aspect
         /\ d.aspects \in [DOMAIN d.aspects -> SUBSET Task]
<1>1. d.framing \in SUBSET Field /\ d.based \in Nat
      /\ d.aspects \in UNION {[A -> SUBSET Task] : A \in SUBSET Aspect}
  BY DEF Synthesis
<1>2. PICK A \in SUBSET Aspect : d.aspects \in [A -> SUBSET Task]
  BY <1>1
<1> QED
  BY <1>1, <1>2

LEMMA SynthesisIntro ==
  ASSUME NEW framing \in SUBSET Field, NEW A \in SUBSET Aspect, NEW f \in [A -> SUBSET Task],
         NEW n \in Nat
  PROVE  [framing |-> framing, aspects |-> f, based |-> n] \in Synthesis
BY DEF Synthesis

LEMMA Restamped ==
  ASSUME NEW d \in Synthesis, NEW n \in Nat
  PROVE  [d EXCEPT !.based = n] \in Synthesis
BY DEF Synthesis

LEMMA BoundType ==
  ASSUME NEW d \in Synthesis \cup {NoDraft}
  PROVE  Bound(d) \subseteq Task
<1>1. CASE d = NoDraft
  BY <1>1 DEF Bound, AspectsOf
<1>2. CASE d # NoDraft
  <2>1. d.aspects \in [DOMAIN d.aspects -> SUBSET Task]
    BY <1>2, SynthesisElim
  <2> QED
    BY <1>2, <2>1 DEF Bound, AspectsOf
<1> QED
  BY <1>1, <1>2

LEMMA StrongerType ==
  ASSUME NEW old \in Stop, NEW new \in Stop
  PROVE  Stronger(old, new) \in Stop
BY DEF Stronger

LEMMA StopMembers ==
  /\ Stop = {"none", "ended", "round_budget", "model_calls", "provider", "failed", "completed"}
  /\ \A s \in Stop : Rank[s] \in Nat
BY DEF Stop, Rank

LEMMA LargerType ==
  ASSUME NEW m \in Nat, NEW n \in Nat
  PROVE  Larger(m, n) \in Nat /\ Larger(m, n) >= m /\ Larger(m, n) >= n
         /\ (m >= n => Larger(m, n) = m) /\ (n >= m => Larger(m, n) = n)
BY DEF Larger

LEMMA ReadyType ==
  ASSUME NEW b \in Workbench
  PROVE  Ready(b) \subseteq Task /\ Cardinality(Ready(b)) \in Nat
<1>1. Ready(b) \subseteq Task
  BY DEF Workbench, Ready, Lost, Done
<1> QED
  BY <1>1, Sized

LEMMA AbsorbFields ==
  ASSUME NEW b \in Workbench
  PROVE  LET found == {t \in Done : handle[t] = "found"}
         IN  /\ Absorb(b).archive = b.archive \cup found
             /\ Absorb(b).active = b.active \cup Admitted(b, found)
             /\ Absorb(b).settled = [t \in Task |-> IF t \in Done THEN handle[t]
                                       ELSE IF t \in Lost(b) THEN "failed" ELSE b.settled[t]]
             /\ Absorb(b).exhausted = (b.exhausted \/ \E t \in Done : handle[t] = "exhausted")
             /\ Absorb(b).revision = b.revision + Cardinality(Ready(b))
             /\ Absorb(b).pending = b.pending \ Ready(b)
             /\ Absorb(b).draft = b.draft /\ Absorb(b).frozen = b.frozen
             /\ Absorb(b).stop = b.stop /\ Absorb(b).counter = b.counter
BY DEF Absorb, Workbench

LEMMA AbsorbType ==
  ASSUME NEW b \in Workbench, handle \in [Task -> Handles]
  PROVE  Absorb(b) \in Workbench
<1> DEFINE found == {t \in Done : handle[t] = "found"}
<1>1. found \subseteq Task /\ Admitted(b, found) \subseteq Task
  BY DEF Done, Admitted
<1>2. Cardinality(Ready(b)) \in Nat /\ b.revision + Cardinality(Ready(b)) \in Nat
  BY ReadyType DEF Workbench
<1>3. [t \in Task |-> IF t \in Done THEN handle[t]
                      ELSE IF t \in Lost(b) THEN "failed" ELSE b.settled[t]] \in [Task -> Settlements]
  BY DEF Done, Settlements, Workbench
<1> QED
  BY <1>1, <1>2, <1>3 DEF Absorb, Workbench

LEMMA SettleFields ==
  ASSUME NEW c \in Workbench, NEW before \in Workbench, NEW after \in Workbench
  PROVE  LET n == SettleChannels(c, before, after)
         IN  /\ n.archive = c.archive \cup after.archive
             /\ n.active = c.active \cup (after.active \ before.active)
             /\ n.settled = [t \in Task |-> IF after.settled[t] = "none" THEN c.settled[t]
                                            ELSE after.settled[t]]
             /\ n.exhausted = (c.exhausted \/ after.exhausted)
             /\ n.stop = Stronger(c.stop, after.stop)
             /\ n.revision = Larger(c.revision, after.revision)
             /\ n.pending = c.pending \ Ready(before)
             /\ n.draft = c.draft /\ n.frozen = c.frozen /\ n.counter = c.counter
BY DEF SettleChannels, Gained, Workbench

LEMMA SettleType ==
  ASSUME NEW c \in Workbench, NEW before \in Workbench, NEW after \in Workbench
  PROVE  SettleChannels(c, before, after) \in Workbench
<1>1. Stronger(c.stop, after.stop) \in Stop
  BY StrongerType DEF Workbench
<1>2. Larger(c.revision, after.revision) \in Nat
  BY LargerType DEF Workbench
<1>3. [t \in Task |-> IF after.settled[t] = "none" THEN c.settled[t] ELSE after.settled[t]]
        \in [Task -> Settlements]
  BY DEF Workbench
<1> QED
  BY <1>1, <1>2, <1>3 DEF SettleChannels, Gained, Workbench

(* The position of a member among the members below it tells them apart.   *)
Below(S, t) == Cardinality({u \in S : u < t})

LEMMA Positions ==
  ASSUME NEW S, S \subseteq Task, NEW t \in S
  PROVE  /\ Below(S, t) \in Nat /\ Below(S, t) < Cardinality(S)
         /\ \A u \in S : u < t => Below(S, u) < Below(S, t)
<1> DEFINE Under(x) == {u \in S : u < x}
<1>0. S \subseteq Nat /\ IsFiniteSet(S) /\ Cardinality(S) \in Nat
  BY Sized, TaskFinite
<1>1. \A x : Under(x) \in SUBSET Task
  OBVIOUS
<1>2. \A x : IsFiniteSet(Under(x)) /\ Cardinality(Under(x)) \in Nat
  BY <1>1, Sized
<1>3. Cardinality(Under(t)) < Cardinality(S)
  <2>1. Under(t) \in SUBSET S /\ t \notin Under(t)
    BY <1>0
  <2>2. Cardinality(Under(t)) <= Cardinality(S) /\ Cardinality(S) # Cardinality(Under(t))
    BY <1>0, <2>1, FS_Subset
  <2> QED
    BY <1>0, <1>2, <2>2
<1>4. ASSUME NEW u \in S, u < t PROVE Cardinality(Under(u)) < Cardinality(Under(t))
  <2>0. \A v \in S : v \in Nat /\ (v < u => v < t)
    BY <1>0, <1>4
  <2>3. Under(u) \in SUBSET Under(t)
    BY <2>0
  <2>4. ~(u < u)
    BY <2>0, <1>4
  <2>1. Under(u) \in SUBSET Under(t) /\ u \notin Under(u) /\ u \in Under(t)
    BY <1>4, <2>3, <2>4
  <2>2. Cardinality(Under(u)) <= Cardinality(Under(t)) /\ Cardinality(Under(u)) # Cardinality(Under(t))
    BY <1>2, <2>1, FS_Subset
  <2> QED
    BY <1>2, <2>2
<1> QED
  BY <1>2, <1>3, <1>4 DEF Below

LEMMA Ranking ==
  ASSUME NEW S, S \subseteq Task, NEW T, T \subseteq S, NEW n \in Nat,
         \A t \in T : Below(S, t) < n
  PROVE  /\ Cardinality(T) <= n
         /\ Cardinality(T) = n => \A k \in 0 .. (n - 1) : \E t \in T : Below(S, t) = k
<1> DEFINE f == [t \in T |-> Below(S, t)]
<1>1. \A t \in T : f[t] \in 0 .. (n - 1)
  BY Positions
<1>2. \A t, u \in T : f[t] = f[u] => t = u
  <2> SUFFICES ASSUME NEW t \in T, NEW u \in T, t # u PROVE f[t] # f[u]
    OBVIOUS
  <2>1. t \in Nat /\ u \in Nat /\ (t < u \/ u < t)
    BY TaskFinite
  <2>2. Below(S, t) \in Nat /\ Below(S, u) \in Nat
    BY Positions
  <2>3. Below(S, t) < Below(S, u) \/ Below(S, u) < Below(S, t)
    BY <2>1, Positions
  <2> QED
    BY <2>2, <2>3
<1>3. f \in Injection(T, 0 .. (n - 1))
  BY <1>1, <1>2 DEF Injection, IsInjective
<1>4. IsFiniteSet(0 .. (n - 1)) /\ Cardinality(0 .. (n - 1)) = n
  BY FS_Interval
<1>5. Cardinality(T) <= n /\ (Cardinality(T) = n => f \in Surjection(T, 0 .. (n - 1)))
  BY <1>3, <1>4, FS_Injection
<1> QED
  BY <1>5 DEF Surjection

LEMMA HasLargest ==
  ASSUME NEW S, S \subseteq Task, S # {}
  PROVE  \E t \in S : \A u \in S : u <= t
<1>0. S \subseteq Nat /\ IsFiniteSet(S) /\ Cardinality(S) \in Nat
  BY Sized, TaskFinite
<1>1. S \subseteq Nat /\ Cardinality(S) \in Nat /\ Cardinality(S) > 0
  BY <1>0, FS_EmptySet
<1> DEFINE n == Cardinality(S)
<1>2. \A t \in S : Below(S, t) < n
  BY Positions
<1>3. \A k \in 0 .. (n - 1) : \E t \in S : Below(S, t) = k
  BY <1>1, <1>2, Ranking
<1>4. PICK t \in S : Below(S, t) = n - 1
  BY <1>1, <1>3
<1>5. ASSUME NEW u \in S, ~(u <= t) PROVE FALSE
  <2>1. t < u /\ t \in Nat /\ u \in Nat
    BY <1>1, <1>5
  <2>2. Below(S, t) < Below(S, u) /\ Below(S, u) < n /\ Below(S, u) \in Nat /\ n \in Nat
    BY <1>1, <2>1, Positions
  <2> HIDE DEF n
  <2> QED
    BY <1>4, <2>2
<1> QED
  BY <1>5

LEMMA LargestType ==
  ASSUME NEW S, S \subseteq Task
  PROVE  LargestOf(S) \in Nat /\ \A u \in S : u <= LargestOf(S)
<1>1. CASE S = {}
  BY <1>1 DEF LargestOf
<1>2. CASE S # {}
  <2>1. \E t \in S : \A u \in S : u <= t
    BY <1>2, HasLargest
  <2>2. LargestOf(S) \in S /\ \A u \in S : u <= LargestOf(S)
    BY <1>2, <2>1 DEF LargestOf
  <2> QED
    BY <2>2, TaskFinite
<1> QED
  BY <1>1, <1>2

LEMMA UsedType ==
  ASSUME NEW b \in Workbench
  PROVE  /\ UsedIndex(b) \in Nat
         /\ \A t \in Task : t \in b.pending \/ b.settled[t] # "none" => t <= UsedIndex(b)
<1> DEFINE used == b.pending \cup {t \in Task : b.settled[t] # "none"}
<1>1. used \subseteq Task
  BY DEF Workbench
<1>2. LargestOf(used) \in Nat /\ \A u \in used : u <= LargestOf(used)
  BY <1>1, LargestType
<1> QED
  BY <1>2 DEF UsedIndex

LEMMA SeedFields ==
  ASSUME NEW s \in Workbench
  PROVE  /\ Seed(s) \in Workbench
         /\ Seed(s).archive = s.archive /\ Seed(s).active = s.active /\ Seed(s).settled = s.settled
         /\ Seed(s).frozen = NoDraft /\ Seed(s).pending = {}
         /\ \A t \in Task : s.settled[t] # "none" => t <= Seed(s).counter
<1> DEFINE bare == [s EXCEPT !.pending = {}]
<1>1. bare \in Workbench /\ bare.settled = s.settled
  BY DEF Workbench
<1>2. UsedIndex(bare) \in Nat /\ \A t \in Task : s.settled[t] # "none" => t <= UsedIndex(bare)
  BY <1>1, UsedType
<1>3. Seed(s) = [s EXCEPT !.frozen = NoDraft, !.exhausted = FALSE, !.stop = "none",
                          !.counter = UsedIndex(bare), !.pending = {}]
  BY DEF Seed
<1> HIDE DEF bare
<1>4. "none" \in Stop
  BY StopMembers
<1>5. Seed(s) \in Workbench
  BY <1>2, <1>3, <1>4 DEF Workbench
<1>6. Seed(s).counter = UsedIndex(bare)
  BY <1>3 DEF Workbench
<1>7. /\ Seed(s).archive = s.archive /\ Seed(s).active = s.active /\ Seed(s).settled = s.settled
      /\ Seed(s).frozen = NoDraft /\ Seed(s).pending = {}
  BY <1>3 DEF Workbench
<1> QED
  BY <1>2, <1>5, <1>6, <1>7

(* What is admitted fits into what is left of the active set.              *)
LEMMA AdmittedFits ==
  ASSUME NEW b \in Workbench, NEW found, found \subseteq Task, InLimit(b)
  PROVE  Cardinality(b.active \cup Admitted(b, found)) <= ActiveLimit
<1> DEFINE room == ActiveLimit - Cardinality(b.active)
           new == Admitted(b, found)
<1>1. b.active \subseteq Task /\ new \subseteq found /\ new \subseteq Task
  BY DEF Workbench, Admitted
<1>2. Cardinality(b.active) \in Nat /\ room \in Nat
  BY <1>1, Sized, Limits DEF InLimit
<1>3. \A t \in new : Cardinality(b.active) + Below(found, t) < ActiveLimit /\ Below(found, t) \in Nat
  BY Positions DEF Admitted, Below
<1>4. \A t \in new : Below(found, t) < room
  BY <1>2, <1>3, Limits
<1>5. Cardinality(new) <= room
  <2> HIDE DEF room, new
  <2> QED
    BY <1>1, <1>2, <1>4, Ranking
<1>6. IsFiniteSet(b.active) /\ IsFiniteSet(new) /\ Cardinality(new) \in Nat
      /\ Cardinality(b.active \cap new) \in Nat
  BY <1>1, Sized
<1>7. Cardinality(b.active \cup new) = Cardinality(b.active) + Cardinality(new) - Cardinality(b.active \cap new)
  BY <1>6, FS_Union
<1> QED
  BY <1>2, <1>5, <1>6, <1>7, Limits

-----------------------------------------------------------------------------
(* WHAT THE TOOLS MAKE OF A WORKBENCH *)

LEMMA EditType ==
  ASSUME NEW e \in Edits
  PROVE  /\ e.frame \subseteq Field /\ e.add \subseteq Task /\ e.remove \subseteq Task
         /\ DOMAIN e.upsert \subseteq Aspect /\ e.upsert \in [DOMAIN e.upsert -> SUBSET Task]
         /\ e.add \cap e.remove = {}
<1>1. e \in Edit /\ e.add \cap e.remove = {}
  BY DEF Edits
<1>2. e.frame \subseteq Field /\ e.add \subseteq Task /\ e.remove \subseteq Task
      /\ e.upsert \in UNION {[A -> SUBSET Task] : A \in SUBSET Aspect}
  BY <1>1 DEF Edit
<1>3. PICK A \in SUBSET Aspect : e.upsert \in [A -> SUBSET Task]
  BY <1>2
<1> QED
  BY <1>1, <1>2, <1>3

LEMMA CandidateType ==
  ASSUME NEW b \in Workbench, NEW e \in Edits, NEW n \in Nat
  PROVE  Candidate(b, e, n) \in Synthesis \cup {NoDraft}
<1> DEFINE old  == AspectsOf(b.draft)
           kept == (DOMAIN old) \ e.drop
           new  == [a \in kept \cup DOMAIN e.upsert |->
                      IF a \in DOMAIN e.upsert THEN e.upsert[a] ELSE old[a]]
           framing == (FramingOf(b.draft) \ e.blank) \cup e.frame
<1>1. DOMAIN old \subseteq Aspect /\ \A a \in DOMAIN old : old[a] \subseteq Task
  <2>1. CASE b.draft = NoDraft
    BY <2>1 DEF AspectsOf
  <2>2. CASE b.draft # NoDraft
    <3>1. b.draft \in Synthesis
      BY <2>2 DEF Workbench
    <3> QED
      BY <2>2, <3>1, SynthesisElim DEF AspectsOf
  <2> QED
    BY <2>1, <2>2
<1>2. FramingOf(b.draft) \subseteq Field
  <2>1. CASE b.draft = NoDraft
    BY <2>1 DEF FramingOf
  <2>2. CASE b.draft # NoDraft
    <3>1. b.draft \in Synthesis
      BY <2>2 DEF Workbench
    <3> QED
      BY <2>2, <3>1, SynthesisElim DEF FramingOf
  <2> QED
    BY <2>1, <2>2
<1>3. framing \in SUBSET Field
  BY <1>2, EditType
<1>4. kept \cup DOMAIN e.upsert \in SUBSET Aspect
  BY <1>1, EditType
<1>5. new \in [kept \cup DOMAIN e.upsert -> SUBSET Task]
  BY <1>1, EditType
<1>6. [framing |-> framing, aspects |-> new, based |-> n] \in Synthesis
  <2> HIDE DEF new, framing, kept
  <2> QED
    BY <1>3, <1>4, <1>5, SynthesisIntro
<1>7. Candidate(b, e, n) = IF DOMAIN new = {} /\ framing = {} THEN NoDraft
                           ELSE [framing |-> framing, aspects |-> new, based |-> n]
  BY DEF Candidate
<1> QED
  BY <1>6, <1>7

LEMMA EditedFields ==
  ASSUME NEW b \in Workbench, NEW e \in Edits, NEW back \in Refills(b, e), Accepts(b, e, back)
  PROVE  LET n == Edited(b, e, back)
         IN  /\ n \in Workbench
             /\ n.active = (b.active \ e.remove) \cup back
             /\ n.revision >= b.revision
             /\ n.archive = b.archive /\ n.settled = b.settled /\ n.frozen = b.frozen
             /\ n.exhausted = b.exhausted /\ n.stop = b.stop /\ n.counter = b.counter
             /\ n.pending = b.pending
<1> DEFINE r == EditedRevision(b, e, back)
           draft == IF EditsDraft(e) THEN Candidate(b, e, r)
                    ELSE IF e.ack THEN [b.draft EXCEPT !.based = r] ELSE b.draft
<1>1. r \in Nat /\ r >= b.revision
  BY DEF EditedRevision, Workbench
<1>2. draft \in Synthesis \cup {NoDraft}
  <2>1. CASE EditsDraft(e)
    BY <1>1, <2>1, CandidateType
  <2>2. CASE ~EditsDraft(e) /\ e.ack
    <3>1. b.draft \in Synthesis
      BY <2>2 DEF Accepts, Workbench
    <3> QED
      BY <1>1, <2>2, <3>1, Restamped
  <2>3. CASE ~EditsDraft(e) /\ ~e.ack
    BY <2>3 DEF Workbench
  <2> QED
    BY <2>1, <2>2, <2>3
<1>3. back \subseteq Task
  BY EditType DEF Refills, Candidates
<1>4. Edited(b, e, back) = [b EXCEPT !.active = EditedActive(b, e, back), !.revision = r, !.draft = draft]
  BY DEF Edited
<1> HIDE DEF r, draft
<1> QED
  BY <1>1, <1>2, <1>3, <1>4 DEF Workbench, EditedActive

LEMMA UpdatedChannels ==
  ASSUME NEW c \in Workbench, NEW b \in Workbench, NEW e \in Edits, NEW back \in Refills(b, e),
         Accepts(b, e, back),
         NEW n, n = [c EXCEPT !.draft    = Edited(b, e, back).draft,
                              !.revision = Larger(@, Edited(b, e, back).revision),
                              !.active   = (@ \cup back) \ Released(b, e)]
  PROVE  /\ n \in Workbench
         /\ n.active = (c.active \cup back) \ Released(b, e)
         /\ n.draft = Edited(b, e, back).draft
         /\ n.revision = Larger(c.revision, Edited(b, e, back).revision)
         /\ n.archive = c.archive /\ n.settled = c.settled /\ n.frozen = c.frozen
         /\ n.exhausted = c.exhausted /\ n.stop = c.stop /\ n.counter = c.counter
         /\ n.pending = c.pending
<1>1. Edited(b, e, back) \in Workbench
  BY EditedFields
<1>2. Edited(b, e, back).draft \in Synthesis \cup {NoDraft} /\ Edited(b, e, back).revision \in Nat
  BY <1>1 DEF Workbench
<1>3. Larger(c.revision, Edited(b, e, back).revision) \in Nat
  BY <1>2, LargerType DEF Workbench
<1>4. back \subseteq Task
  BY EditType DEF Refills, Candidates
<1> QED
  BY <1>2, <1>3, <1>4 DEF Workbench

(* What an edit leaves fits: the slots are counted after the release.      *)
LEMMA EditedFits ==
  ASSUME NEW b \in Workbench, NEW e \in Edits, NEW back \in Refills(b, e), Accepts(b, e, back),
         InLimit(b)
  PROVE  InLimit(Edited(b, e, back))
<1> DEFINE left == b.active \ e.remove
           used == Cardinality(left)
           slots == IF used < ActiveLimit THEN ActiveLimit - used ELSE 0
           n == Cardinality(Candidates(b, e))
<1>1. b.active \subseteq Task /\ left \subseteq Task /\ back \subseteq Candidates(b, e)
      /\ Candidates(b, e) \subseteq Task /\ back \subseteq e.add
  BY EditType DEF Workbench, Refills, Candidates
<1>2. IsFiniteSet(left) /\ IsFiniteSet(back) /\ used \in Nat /\ Cardinality(back) \in Nat
      /\ n \in Nat /\ Cardinality(left \cap back) \in Nat
  BY <1>1, Sized
<1>3. IsFiniteSet(b.active) /\ left \in SUBSET b.active /\ Cardinality(b.active) \in Nat
  BY <1>1, Sized
<1>4. used <= Cardinality(b.active) /\ Cardinality(b.active) <= ActiveLimit
  BY <1>3, FS_Subset DEF InLimit
<1>5. Cardinality(back) = Smaller(n, slots)
  BY DEF Refills
<1>6. used + Cardinality(back) <= ActiveLimit
  <2>1. used <= ActiveLimit
    BY <1>2, <1>3, <1>4, Limits
  <2>2. Smaller(n, slots) <= slots
    BY <1>2, Limits DEF Smaller
  <2>3. slots = ActiveLimit - used
    BY <1>2, <2>1, Limits
  <2> HIDE DEF used, n, slots
  <2> QED
    BY <1>2, <1>5, <2>1, <2>2, <2>3, Limits
<1>7. Cardinality(left \cup back) = used + Cardinality(back) - Cardinality(left \cap back)
  BY <1>2, FS_Union
<1>8. Cardinality(left \cup back) <= ActiveLimit
  <2> HIDE DEF used, left
  <2> QED
    BY <1>2, <1>6, <1>7, Limits
<1>9. Edited(b, e, back).active = left \cup back /\ Edited(b, e, back).archive = b.archive
  BY EditedFields
<1>10. left \cup back \subseteq b.archive
  BY <1>1 DEF InLimit, Accepts
<1> QED
  BY <1>8, <1>9, <1>10 DEF InLimit

LEMMA FinalStopType ==
  ASSUME NEW b \in Workbench
  PROVE  FinalStop(b) \in Stop
BY StopMembers DEF FinalStop, Workbench

LEMMA VerdictType ==
  ASSUME NEW b \in Workbench
  PROVE  Verdict(b) \in [mode : {"open", "full", "partial", "none"}, stop : Stop, cites : SUBSET Task]
<1>1. Bound(b.frozen) \subseteq Task /\ Bound(b.draft) \subseteq Task /\ b.active \subseteq Task
  BY BoundType DEF Workbench
<1>2. PartialCites(b) \subseteq Task
  BY <1>1 DEF PartialCites
<1> QED
  BY <1>1, <1>2, FinalStopType DEF Verdict

-----------------------------------------------------------------------------
(* EVERY VARIABLE STAYS IN ITS TYPE *)

LEMMA EmptyTyped == EmptyBoard \in Workbench
<1>1. "none" \in Stop /\ "none" \in Settlements
  BY StopMembers DEF Settlements
<1> QED
  BY <1>1 DEF EmptyBoard, Workbench

LEMMA InitTyped == Init => Typed
<1> SUFFICES ASSUME Init PROVE Typed
  OBVIOUS
<1>1. batch = [calls |-> <<>>, base |-> 0] /\ batch \in [calls : Seq(Tool), base : Nat]
  BY DEF Init, NoBatch
<1>2. verdict \in [mode : {"open", "full", "partial", "none"}, stop : Stop, cites : SUBSET Task]
  BY StopMembers DEF Init, NoVerdict
<1>3. 0 \in 0 .. MaxTurns /\ 0 \in 0 .. MaxPerRound /\ 0 \in 0 .. MaxRejections
      /\ 1 \in 1 .. MaxReviews /\ 0 \in 0 .. MaxCrashes
  BY Limits
<1>4. handle \in [Task -> Handles]
  BY DEF Init, Handles
<1>5. entry \in Workbench /\ channel \in Workbench /\ board \in Workbench
  BY EmptyTyped DEF Init
<1> QED
  BY <1>1, <1>2, <1>3, <1>4, <1>5 DEF Init, Typed

LEMMA ReceivedTyped ==
  ASSUME handle \in [Task -> Handles], Received
  PROVE  handle' \in [Task -> Handles]
BY DEF Received, Handles

LEMMA FinishTyped ==
  ASSUME Typed, NEW t \in Task, Finish(t)
  PROVE  Typed'
BY DEF Typed, Finish, Handles

LEMMA RefreshTyped == Typed /\ Refresh => Typed'
<1> SUFFICES ASSUME Typed, Refresh PROVE Typed'
  OBVIOUS
<1>1. Absorb(channel) \in Workbench
  BY AbsorbType DEF Typed
<1>2. SettleChannels(channel, channel, Absorb(channel)) \in Workbench
  BY <1>1, SettleType DEF Typed
<1>3. handle' \in [Task -> Handles]
  BY ReceivedTyped DEF Typed, Refresh
<1> QED
  BY <1>1, <1>2, <1>3 DEF Typed, Refresh

LEMMA ExecuteTyped ==
  ASSUME Typed, NEW calls \in Replies, NEW blocked \in BOOLEAN, Execute(calls, blocked)
  PROVE  Typed'
<1>1. BatchBase \in Nat
  BY UsedType, LargerType DEF BatchBase, Typed, Workbench
<1>2. calls \in Seq(Tool)
  BY SupervisorAssumption
<1>3. Delegates(calls) \in Nat
  <2>1. Len(calls) \in Nat /\ DOMAIN calls = 1 .. Len(calls)
    BY <1>2
  <2>2. IsFiniteSet(DOMAIN calls)
    BY <2>1, FS_Interval
  <2>3. IsFiniteSet({i \in DOMAIN calls : calls[i] = "delegate"})
    BY <2>2, FS_Subset
  <2> QED
    BY <2>3, FS_CardinalityType DEF Delegates
<1>4. quota' \in 0 .. MaxPerRound
  <2>1. quota \in Nat
    BY Limits DEF Typed
  <2>2. quota' = quota + Delegates(calls) /\ quota + Delegates(calls) <= MaxPerRound
    BY DEF Execute
  <2> QED
    BY <1>3, <2>1, <2>2, Limits
<1>5. batch' \in [calls : Seq(Tool), base : Nat]
  BY <1>1, <1>2 DEF Execute
<1>6. turns' \in 0 .. MaxTurns
  BY Limits DEF Execute, Asked, Typed
<1>7. astray' \in BOOLEAN
  BY DEF Execute, Typed
<1>8. UNCHANGED <<entry, channel, board, handle, rejections, capped, round, verdict, crashes, aged>>
      /\ next' = "tools"
  BY DEF Execute
<1> QED
  BY <1>4, <1>5, <1>6, <1>7, <1>8 DEF Typed

LEMMA ReplyTyped == Typed /\ (Submitted \/ CallLimit \/ Reply) => Typed'
<1> SUFFICES ASSUME Typed, Submitted \/ CallLimit \/ Reply PROVE Typed'
  OBVIOUS
<1> USE Limits DEF Typed
<1>1. CASE Submitted
  BY <1>1 DEF Submitted
<1>2. CASE CallLimit
  BY <1>2 DEF CallLimit
<1>3. CASE Conclude
  BY <1>3 DEF Conclude, Asked
<1>4. CASE RejectBareEnd
  BY <1>4 DEF RejectBareEnd, Asked
<1>5. CASE ModelUnavailable
  BY <1>5 DEF ModelUnavailable, Asked
<1>6. CASE IdleTurn
  BY <1>6 DEF IdleTurn, Asked
<1>7. ASSUME NEW calls \in Replies, NEW blocked \in BOOLEAN, Execute(calls, blocked)
      PROVE  Typed'
  BY <1>7, ExecuteTyped
<1> HIDE DEF Typed
<1> QED
  BY <1>1, <1>2, <1>3, <1>4, <1>5, <1>6, <1>7 DEF Reply

(* The call taken is off the batch.                                        *)
LEMMA Shortened ==
  ASSUME NEW tool, NEW s \in Seq(Tool), s # <<>>
  PROVE  /\ Tail(s) \in Seq(Tool) /\ Len(Tail(s)) = Len(s) - 1
         /\ (Len(s) = 1 => Tail(s) = <<>>)
         /\ (WithSerial(Tail(s)) => WithSerial(s))
         /\ \A i \in DOMAIN Tail(s) : Tail(s)[i] = s[i + 1]
<1>1. Tail(s) \in Seq(Tool) /\ Len(Tail(s)) = Len(s) - 1 /\ \A i \in 1 .. (Len(s) - 1) : Tail(s)[i] = s[i + 1]
  OBVIOUS
<1>2. Len(s) = 1 => Tail(s) = <<>>
  <2>1. \A q \in Seq(Tool) : q # <<>> => Len(q) \in Nat \ {0}
    BY EmptySeq, Zenon
  <2>2. Len(s) = 1 => Len(Tail(s)) = 0
    BY <1>1
  <2>3. Tail(s) # <<>> => Len(Tail(s)) \in Nat \ {0}
    BY <1>1, <2>1, Zenon
  <2>4. 0 \notin Nat \ {0}
    OBVIOUS
  <2> QED
    BY <2>2, <2>3, <2>4, Zenon
<1>3. DOMAIN Tail(s) = 1 .. (Len(s) - 1) /\ DOMAIN s = 1 .. Len(s) /\ Len(s) \in Nat
  BY <1>1
<1>4. WithSerial(Tail(s)) => WithSerial(s)
  <2> SUFFICES ASSUME NEW i \in DOMAIN Tail(s), Tail(s)[i] \in Serial PROVE WithSerial(s)
    BY DEF WithSerial
  <2>1. i + 1 \in DOMAIN s /\ s[i + 1] = Tail(s)[i]
    BY <1>1, <1>3
  <2> QED
    BY <2>1 DEF WithSerial
<1> QED
  BY <1>1, <1>2, <1>3, <1>4

LEMMA CalledTyped ==
  ASSUME Typed, NEW tool, Calls(tool), Called,
         channel' \in Workbench, board' \in Workbench, handle' \in [Task -> Handles]
  PROVE  Typed'
<1>1. batch' = [batch EXCEPT !.calls = Tail(@)] /\ batch.calls # <<>> /\ batch.calls \in Seq(Tool)
  BY DEF Calls, Called, Typed
<1>2. Tail(batch.calls) \in Seq(Tool)
  BY <1>1
<1>3. batch' \in [calls : Seq(Tool), base : Nat]
  BY <1>1, <1>2 DEF Typed
<1> QED
  BY <1>3 DEF Called, Typed

LEMMA DelegateTyped == Typed /\ Delegate => Typed'
<1> SUFFICES ASSUME Typed, Delegate PROVE Typed'
  OBVIOUS
<1>1. Index \in Task /\ Index \in Nat /\ batch.calls # <<>> /\ batch.calls \in Seq(Tool)
  BY TaskFinite DEF Delegate, Calls, Typed
<1>2. Larger(channel.counter, Index) \in Nat /\ Larger(board.counter, Index) \in Nat
  BY <1>1, LargerType DEF Typed, Workbench
<1>3. channel' \in Workbench /\ board' \in Workbench
  BY <1>1, <1>2 DEF Delegate, Typed, Workbench
<1>4. batch' \in [calls : Seq(Tool), base : Nat]
  BY <1>1 DEF Delegate
<1>5. handle' \in [Task -> Handles]
  BY DEF Delegate, Typed, Handles
<1>6. UNCHANGED <<entry, next, turns, quota, rejections, capped, round, verdict, crashes, aged, astray>>
  BY DEF Delegate
<1> QED
  BY <1>3, <1>4, <1>5, <1>6 DEF Typed

LEMMA WaitTyped == Typed /\ Wait => Typed'
<1> SUFFICES ASSUME Typed, Wait PROVE Typed'
  OBVIOUS
<1>1. Absorb(board) \in Workbench
  BY AbsorbType DEF Typed
<1>2. SettleChannels(channel, board, Absorb(board)) \in Workbench
  BY <1>1, SettleType DEF Typed
<1>3. handle' \in [Task -> Handles]
  BY ReceivedTyped DEF Typed, Wait
<1>4. channel' \in Workbench /\ board' \in Workbench /\ Called /\ Calls("wait")
  BY <1>1, <1>2 DEF Wait, Typed
<1> QED
  BY <1>3, <1>4, CalledTyped

LEMMA UpdateTyped == Typed /\ Update => Typed'
<1> SUFFICES ASSUME Typed, Update PROVE Typed'
  OBVIOUS
<1>1. PICK e \in Edits : \E back \in Refills(board, e) : UpdateWith(e, back)
  BY DEF Update
<1>2. PICK back \in Refills(board, e) : UpdateWith(e, back)
  BY <1>1
<1>3. board' \in Workbench
  BY <1>2, EditedFields DEF UpdateWith, Typed
<1>4. channel' \in Workbench
  <2>1. channel' = [channel EXCEPT !.draft = Edited(board, e, back).draft,
                                   !.revision = Larger(@, Edited(board, e, back).revision),
                                   !.active = (@ \cup back) \ Released(board, e)]
    BY <1>2 DEF UpdateWith
  <2> QED
    <3>1. channel \in Workbench /\ board \in Workbench /\ Accepts(board, e, back)
      BY <1>2 DEF UpdateWith, Typed
    <3> QED
      BY <2>1, <3>1, UpdatedChannels
<1>5. handle' \in [Task -> Handles] /\ Called /\ Calls("update")
  BY DEF Update, Typed
<1> QED
  BY <1>3, <1>4, <1>5, CalledTyped

LEMMA FreezeChannelsFields ==
  ASSUME NEW c \in Workbench, NEW b \in Workbench
  PROVE  LET n == FreezeChannels(c, b)
         IN  /\ n \in Workbench
             /\ n.frozen = (IF b.frozen = NoDraft THEN c.frozen ELSE b.frozen)
             /\ n.stop = Stronger(c.stop, b.stop)
             /\ n.archive = c.archive /\ n.active = c.active /\ n.settled = c.settled
             /\ n.revision = c.revision /\ n.draft = c.draft /\ n.exhausted = c.exhausted
             /\ n.counter = c.counter /\ n.pending = c.pending
<1>1. Stronger(c.stop, b.stop) \in Stop
  BY StrongerType DEF Workbench
<1> QED
  BY <1>1 DEF FreezeChannels, Workbench

LEMMA FreezeTyped == Typed /\ (Freeze \/ FreezeRejected) => Typed'
<1> SUFFICES ASSUME Typed, Freeze \/ FreezeRejected PROVE Typed'
  OBVIOUS
<1>1. CASE Freeze
  <2>1. \A s \in {"provider", "completed"} : Stronger(board.stop, s) \in Stop
    BY StrongerType, StopMembers DEF Typed, Workbench
  <2>2. board' \in Workbench
    BY <1>1, <2>1 DEF Freeze, Typed, Workbench
  <2>3. channel' \in Workbench
    BY <1>1, <2>2, FreezeChannelsFields DEF Freeze, Typed
  <2>4. handle' \in [Task -> Handles] /\ Called /\ Calls("complete")
    BY <1>1 DEF Freeze, Typed
  <2> QED
    BY <2>2, <2>3, <2>4, CalledTyped
<1>2. CASE FreezeRejected
  <2>1. channel' \in Workbench
    BY <1>2, FreezeChannelsFields DEF FreezeRejected, Typed
  <2>2. board' \in Workbench /\ handle' \in [Task -> Handles] /\ Called /\ Calls("complete")
    BY <1>2 DEF FreezeRejected, Typed
  <2> QED
    BY <2>1, <2>2, CalledTyped
<1> QED
  BY <1>1, <1>2

LEMMA ToolsTyped == Typed /\ Tools => Typed'
<1> SUFFICES ASSUME Typed, Tools PROVE Typed'
  OBVIOUS
<1>1. CASE DelegateBlocked
  <2>1. Stronger(board.stop, "round_budget") \in Stop
    BY StrongerType, StopMembers DEF Typed, Workbench
  <2>2. board' \in Workbench /\ channel' \in Workbench /\ handle' \in [Task -> Handles]
        /\ Called /\ Calls("delegate")
    BY <1>1, <2>1 DEF DelegateBlocked, Typed, Workbench
  <2> QED
    BY <2>2, CalledTyped
<1>2. CASE DelegateBound
  BY <1>2, CalledTyped DEF DelegateBound, Refused, Typed
<1>3. CASE WaitInVain
  BY <1>3, CalledTyped DEF WaitInVain, Refused, Typed
<1>4. CASE UpdateRejected
  BY <1>4, CalledTyped DEF UpdateRejected, Refused, Typed
<1>5. CASE BatchDone
  <2>1. batch' \in [calls : Seq(Tool), base : Nat]
    BY <1>5 DEF BatchDone, NoBatch
  <2> QED
    BY <1>5, <2>1 DEF BatchDone, Typed
<1> QED
  BY <1>1, <1>2, <1>3, <1>4, <1>5, DelegateTyped, WaitTyped, UpdateTyped, FreezeTyped DEF Tools

LEMMA DrainedType ==
  ASSUME Typed
  PROVE  /\ Drained \in Workbench
         /\ Drained.archive = channel.archive /\ Drained.active = channel.active
         /\ Drained.settled = channel.settled /\ Drained.pending = channel.pending
         /\ Drained.frozen = channel.frozen
<1>1. Stronger(channel.stop, "model_calls") \in Stop
  BY StrongerType, StopMembers DEF Typed, Workbench
<1> QED
  BY <1>1 DEF Drained, Typed, Workbench

LEMMA ClosedEntry ==
  ASSUME NEW b \in Workbench, entry \in Workbench, Close(b)
  PROVE  /\ entry' \in Workbench
         /\ entry'.archive = b.archive \cup entry.archive /\ entry'.active = b.active
         /\ \A t \in Task : b.settled[t] # "none" => entry'.settled[t] = b.settled[t]
BY DEF Close, Workbench

LEMMA CloseTyped ==
  ASSUME Typed, NEW b \in Workbench, board' = b, Close(b)
  PROVE  Typed'
<1>1. handle' \in [Task -> Handles]
  BY DEF Close, StopResidual, Handles
<1>2. entry' \in Workbench /\ verdict' = Verdict(b)
  BY ClosedEntry DEF Typed, Close
<1>3. verdict' \in [mode : {"open", "full", "partial", "none"}, stop : Stop, cites : SUBSET Task]
  BY <1>2, VerdictType
<1> QED
  BY <1>1, <1>2, <1>3 DEF Close, Typed

LEMMA FailBoard ==
  ASSUME Typed, Fail
  PROVE  /\ board' \in Workbench /\ board'.stop = Stronger(board.stop, "failed")
         /\ board'.archive = board.archive /\ board'.active = board.active
         /\ board'.settled = board.settled /\ board'.frozen = board.frozen
<1>1. Stronger(board.stop, "failed") \in Stop
  BY StrongerType, StopMembers DEF Typed, Workbench
<1> QED
  BY <1>1 DEF Fail, Typed, Workbench

LEMMA EndTyped == Typed /\ (Drain \/ Fail) => Typed'
<1> SUFFICES ASSUME Typed, Drain \/ Fail PROVE Typed'
  OBVIOUS
<1>1. CASE Drain
  <2>1. Absorb(Drained) \in Workbench
    BY DrainedType, AbsorbType DEF Typed
  <2> QED
    BY <1>1, <2>1, CloseTyped DEF Drain
<1>2. CASE Fail
  BY <1>2, FailBoard, CloseTyped DEF Fail
<1> QED
  BY <1>1, <1>2

LEMMA RestartTyped == Typed /\ (NextRound \/ Crash) => Typed'
<1> SUFFICES ASSUME Typed, NextRound \/ Crash PROVE Typed'
  OBVIOUS
<1>1. CASE NextRound
  <2>1. Seed(entry) \in Workbench
    BY SeedFields DEF Typed
  <2>2. batch' \in [calls : Seq(Tool), base : Nat]
    BY <1>1 DEF NextRound, NoBatch
  <2>3. verdict' \in [mode : {"open", "full", "partial", "none"}, stop : Stop, cites : SUBSET Task]
    BY <1>1, StopMembers DEF NextRound, NoVerdict
  <2>4. round' \in 1 .. MaxReviews
    BY <1>1, Limits DEF NextRound, Typed
  <2>5. turns' \in 0 .. MaxTurns /\ quota' \in 0 .. MaxPerRound /\ rejections' \in 0 .. MaxRejections
    BY <1>1, Limits DEF NextRound
  <2>6. /\ entry' \in Workbench /\ channel' \in Workbench /\ board' \in Workbench
        /\ next' = "refresh" /\ capped' = FALSE
        /\ UNCHANGED <<handle, crashes, aged, astray>>
    BY <1>1, <2>1 DEF NextRound
  <2> QED
    BY <2>2, <2>3, <2>4, <2>5, <2>6 DEF Typed
<1>2. CASE Crash
  BY <1>2, Limits DEF Crash, Typed, Handles
<1> QED
  BY <1>1, <1>2

LEMMA TypedStep == Typed /\ [Next]_vars => Typed'
<1> SUFFICES ASSUME Typed, [Next]_vars PROVE Typed'
  OBVIOUS
<1>1. CASE UNCHANGED vars
  BY <1>1 DEF vars, Typed
<1> QED
  BY <1>1, RefreshTyped, ReplyTyped, ToolsTyped, EndTyped, RestartTyped, FinishTyped DEF Next

-----------------------------------------------------------------------------
(* THE BOARD AND THE CHANNELS *)

Rest == Mirror /\ Ordered /\ Numbered /\ Known /\ Active /\ Frozen

LEMMA StrongerRank ==
  ASSUME NEW old \in Stop, NEW new \in Stop
  PROVE  /\ Rank[Stronger(old, new)] >= Rank[old]
         /\ (Rank[new] >= Rank[old] => Rank[new] >= Rank[Stronger(old, new)])
<1>1. Rank[old] \in Nat /\ Rank[new] \in Nat
  BY StopMembers
<1> QED
  BY <1>1 DEF Stronger

LEMMA MirroredReception ==
  ASSUME NEW b \in Workbench, NEW c \in Workbench, Mirrored(b, c), handle \in [Task -> Handles]
  PROVE  Mirrored(Absorb(b), SettleChannels(c, b, Absorb(b)))
<1> DEFINE a == Absorb(b)
           found == {t \in Done : handle[t] = "found"}
<1>1. a \in Workbench
  BY AbsorbType
<1>2. /\ a.archive = b.archive \cup found /\ a.active = b.active \cup Admitted(b, found)
      /\ \A t \in Task : a.settled[t] = "none" => b.settled[t] = "none"
      /\ a.exhausted = (b.exhausted \/ \E t \in Done : handle[t] = "exhausted")
      /\ a.revision = b.revision + Cardinality(Ready(b))
      /\ a.draft = b.draft /\ a.frozen = b.frozen /\ a.stop = b.stop /\ a.counter = b.counter
  <2>1. a.settled = [t \in Task |-> IF t \in Done THEN handle[t]
                                   ELSE IF t \in Lost(b) THEN "failed" ELSE b.settled[t]]
    BY AbsorbFields
  <2>2. \A t \in Done : handle[t] # "none"
    BY DEF Done
  <2>3. \A t \in Task : a.settled[t] = "none" => b.settled[t] = "none"
    BY <2>1, <2>2
  <2> HIDE DEF a
  <2> QED
    BY <2>3, AbsorbFields DEF a
<1> HIDE DEF a, found
<1> DEFINE n == SettleChannels(c, b, a)
<1>3. /\ n.archive = c.archive \cup a.archive /\ n.active = c.active \cup (a.active \ b.active)
      /\ n.settled = [t \in Task |-> IF a.settled[t] = "none" THEN c.settled[t] ELSE a.settled[t]]
      /\ n.exhausted = (c.exhausted \/ a.exhausted) /\ n.stop = Stronger(c.stop, a.stop)
      /\ n.revision = Larger(c.revision, a.revision)
      /\ n.draft = c.draft /\ n.frozen = c.frozen /\ n.counter = c.counter
  BY <1>1, SettleFields
<1> HIDE DEF n
<1>4. /\ b.archive = c.archive /\ b.active = c.active /\ b.settled = c.settled
      /\ b.revision = c.revision /\ b.draft = c.draft /\ b.frozen = c.frozen
      /\ b.exhausted = c.exhausted /\ b.counter = c.counter
      /\ Rank[b.stop] >= Rank[c.stop]
  BY DEF Mirrored
<1>5. a.archive = n.archive /\ a.active = n.active /\ a.draft = n.draft /\ a.frozen = n.frozen
      /\ a.counter = n.counter
  BY <1>2, <1>3, <1>4
<1>6. a.exhausted = n.exhausted
  <2>1. b.exhausted \in BOOLEAN /\ a.exhausted \in BOOLEAN
    BY <1>1 DEF Workbench
  <2> QED
    BY <1>2, <1>3, <1>4, <2>1
<1>7. a.revision = n.revision
  <2>1. Cardinality(Ready(b)) \in Nat /\ b.revision \in Nat
    BY ReadyType DEF Workbench
  <2> QED
    BY <1>2, <1>3, <1>4, <2>1 DEF Larger
<1>8. a.settled = n.settled
  <2>1. a.settled = [t \in Task |-> a.settled[t]]
    BY <1>1 DEF Workbench
  <2> QED
    BY <1>2, <1>3, <1>4, <2>1
<1>9. Rank[a.stop] >= Rank[n.stop]
  <2>1. b.stop \in Stop /\ c.stop \in Stop
    BY DEF Workbench
  <2> QED
    BY <1>2, <1>3, <1>4, <2>1, StrongerRank
<1>10. Mirrored(a, n)
  BY <1>5, <1>6, <1>7, <1>8, <1>9 DEF Mirrored
<1> QED
  BY <1>10 DEF a, n

(* With nothing to receive nothing changes.                                *)
LEMMA NothingReceived ==
  ASSUME NEW b \in Workbench, Ready(b) = {}, handle \in [Task -> Handles]
  PROVE  /\ Absorb(b).archive = b.archive /\ Absorb(b).active = b.active
         /\ Absorb(b).settled = b.settled /\ Absorb(b).exhausted = b.exhausted
         /\ Absorb(b).revision = b.revision /\ Absorb(b).pending = b.pending
         /\ Absorb(b).draft = b.draft /\ Absorb(b).frozen = b.frozen
         /\ Absorb(b).stop = b.stop /\ Absorb(b).counter = b.counter
<1>1. Done = {} /\ Lost(b) = {} /\ Admitted(b, {}) = {}
  BY DEF Ready, Admitted
<1>2. Cardinality(Ready(b)) = 0
  BY FS_EmptySet
<1>3. b.settled \in [Task -> Settlements] /\ b.revision \in Nat /\ b.exhausted \in BOOLEAN
  BY DEF Workbench
<1>4. Absorb(b).archive = b.archive /\ Absorb(b).active = b.active
  BY <1>1, AbsorbFields
<1>5. Absorb(b).settled = b.settled
  BY <1>1, <1>3, AbsorbFields
<1>6. Absorb(b).exhausted = b.exhausted
  <2>1. Absorb(b).exhausted = (b.exhausted \/ \E t \in Done : handle[t] = "exhausted")
    BY AbsorbFields
  <2> QED
    BY <1>1, <1>3, <2>1
<1>7. Absorb(b).revision = b.revision
  <2>1. Absorb(b).revision = b.revision + Cardinality(Ready(b))
    BY AbsorbFields
  <2>2. b.revision + 0 = b.revision
    BY <1>3
  <2> QED
    BY <1>2, <2>1, <2>2, Zenon
<1> QED
  BY <1>4, <1>5, <1>6, <1>7, AbsorbFields

(* A limit on the active set survives a reception.                         *)
LEMMA AbsorbInLimit ==
  ASSUME NEW b \in Workbench, InLimit(b), handle \in [Task -> Handles]
  PROVE  InLimit(Absorb(b))
<1> DEFINE found == {t \in Done : handle[t] = "found"}
<1>1. found \subseteq Task /\ Admitted(b, found) \subseteq found
  BY DEF Done, Admitted
<1>2. Cardinality(b.active \cup Admitted(b, found)) <= ActiveLimit
  BY <1>1, AdmittedFits
<1>3. Absorb(b).active = b.active \cup Admitted(b, found) /\ Absorb(b).archive = b.archive \cup found
  BY AbsorbFields
<1> QED
  BY <1>1, <1>2, <1>3 DEF InLimit

(* What a reception does to the results of the channels: the tasks that    *)
(* were ready leave the register and get a result, the others keep theirs. *)
LEMMA SettledByReception ==
  ASSUME NEW c \in Workbench, NEW b \in Workbench, handle \in [Task -> Handles], Knows(c, b)
  PROVE  LET n == SettleChannels(c, b, Absorb(b))
         IN  /\ \A t \in Task : t \notin Ready(b) => n.settled[t] = c.settled[t]
             /\ \A t \in Ready(b) : n.settled[t] # "none" /\ n.settled[t] = Absorb(b).settled[t]
             /\ n.pending = c.pending \ Ready(b) /\ n.counter = c.counter
             /\ Knows(n, Absorb(b))
<1> DEFINE a == Absorb(b)
<1>1. a \in Workbench
  BY AbsorbType
<1>2. \A t \in Task : a.settled[t] = IF t \in Done THEN handle[t]
                                     ELSE IF t \in Lost(b) THEN "failed" ELSE b.settled[t]
  BY AbsorbFields
<1> HIDE DEF a
<1> DEFINE n == SettleChannels(c, b, a)
<1>3. /\ \A t \in Task : n.settled[t] = IF a.settled[t] = "none" THEN c.settled[t] ELSE a.settled[t]
      /\ n.pending = c.pending \ Ready(b) /\ n.counter = c.counter
  <2>1. n.settled = [t \in Task |-> IF a.settled[t] = "none" THEN c.settled[t] ELSE a.settled[t]]
    BY <1>1, SettleFields
  <2>2. n.pending = c.pending \ Ready(b)
    BY DEF SettleChannels, Workbench
  <2>3. n.counter = c.counter
    BY DEF SettleChannels, Workbench
  <2> HIDE DEF n
  <2> QED
    BY <2>1, <2>2, <2>3
<1> HIDE DEF n
<1>4. \A t \in Task : t \notin Ready(b) => a.settled[t] = b.settled[t]
  BY <1>2 DEF Ready
<1>5. \A t \in Ready(b) : t \in Task /\ a.settled[t] # "none"
  BY <1>2, ReadyType DEF Ready, Done
<1>6. \A t \in Task : t \notin Ready(b) => n.settled[t] = c.settled[t]
  BY <1>3, <1>4 DEF Knows
<1>7. \A t \in Ready(b) : n.settled[t] # "none" /\ n.settled[t] = a.settled[t]
  BY <1>3, <1>5
<1>8. Knows(n, a)
  BY <1>3 DEF Knows
<1>9. /\ \A t \in Task : t \notin Ready(b) => n.settled[t] = c.settled[t]
      /\ \A t \in Ready(b) : n.settled[t] # "none" /\ n.settled[t] = a.settled[t]
      /\ n.pending = c.pending \ Ready(b) /\ n.counter = c.counter
      /\ Knows(n, a)
  BY <1>3, <1>6, <1>7, <1>8
<1> QED
  BY <1>9 DEF a, n

-----------------------------------------------------------------------------
(* EVERY STEP KEEPS THE REST *)

LEMMA NoSerialInNothing == ~WithSerial(<<>>)
BY DEF WithSerial

LEMMA MirroredLimit ==
  ASSUME NEW b, NEW c, Mirrored(b, c), InLimit(b)
  PROVE  InLimit(c)
BY DEF Mirrored, InLimit

(* A call of a tool outside a stray batch: the board is that of the        *)
(* channels, nothing is frozen, and a serial tool is the last of the batch. *)
LEMMA Together ==
  ASSUME Typed, Rest, NEW tool, Calls(tool), ~astray
  PROVE  /\ ~aged /\ Mirrored(board, channel) /\ channel.frozen = NoDraft
         /\ InLimit(entry) /\ InLimit(board) /\ InLimit(channel)
         /\ tool \in Serial => Tail(batch.calls) = <<>> /\ board.pending = channel.pending
         /\ ~WithSerial(Tail(batch.calls))
<1>1. next = "tools" /\ batch.calls # <<>> /\ Head(batch.calls) = tool /\ batch.calls \in Seq(Tool)
  BY DEF Calls, Typed
<1>2. ~aged /\ channel.frozen = NoDraft
  BY <1>1 DEF Rest, Ordered
<1>3. Mirrored(board, channel) /\ InLimit(entry) /\ InLimit(board) /\ InLimit(channel)
  BY <1>1, <1>2 DEF Rest, Mirror, Standing, Active
<1>4. WithSerial(batch.calls) => Len(batch.calls) = 1 /\ board.pending = channel.pending
  BY <1>1 DEF Rest, Ordered
<1>5. tool \in Serial => WithSerial(batch.calls)
  <2>1. Head(batch.calls) = batch.calls[1] /\ 1 \in DOMAIN batch.calls
    BY <1>1
  <2> QED
    BY <1>1, <2>1 DEF WithSerial
<1>6. /\ Len(batch.calls) = 1 => Tail(batch.calls) = <<>>
      /\ WithSerial(Tail(batch.calls)) => WithSerial(batch.calls)
  BY <1>1, Shortened
<1> QED
  BY <1>2, <1>3, <1>4, <1>5, <1>6, NoSerialInNothing, Zenon

LEMMA OrderedAfterTool ==
  ASSUME Typed, Rest, NEW tool, Calls(tool), batch'.calls = Tail(batch.calls),
         UNCHANGED <<entry, next, aged, astray>>,
         ~astray /\ channel'.frozen # NoDraft => tool \in Serial
  PROVE  Ordered'
<1> SUFFICES ASSUME ~astray
             PROVE  /\ ~aged' /\ next' = "tools" /\ ~WithSerial(batch'.calls)
                    /\ channel'.frozen # NoDraft => batch'.calls = <<>>
  BY DEF Ordered, Standing
<1> QED
  BY Together DEF Calls

(* Tools that settle and register nothing.                                 *)
LEMMA PlainTool ==
  ASSUME Typed, Rest, NEW tool, Calls(tool), Called,
         channel'.settled = channel.settled, channel'.pending = channel.pending,
         channel'.counter = channel.counter,
         board'.settled = board.settled, board'.pending = board.pending,
         Mirrored(board, channel) => Mirrored(board', channel'),
         Mirrored(board, channel) /\ InLimit(board) => InLimit(board'),
         \/ ~astray /\ channel.frozen = NoDraft /\ Mirrored(board, channel) => channel'.frozen = NoDraft
         \/ tool \in Serial /\ Frozen'
  PROVE  Rest'
<1>1. /\ next = "tools" /\ next' = "tools" /\ batch.calls # <<>>
      /\ UNCHANGED <<entry, aged, astray, verdict>>
  BY DEF Calls, Called
<1>2. batch' = [batch EXCEPT !.calls = Tail(@)] /\ batch'.calls = Tail(batch.calls) /\ batch'.base = batch.base
  BY DEF Called, Typed
<1>3. ~astray => /\ ~aged /\ Mirrored(board, channel) /\ channel.frozen = NoDraft
                 /\ InLimit(entry) /\ InLimit(board) /\ InLimit(channel)
  BY Together
<1>4. Mirror'
  BY <1>1 DEF Rest, Mirror, Standing
<1>5. Ordered'
  BY <1>1, <1>2, <1>3, OrderedAfterTool
<1>6. Numbered'
  BY <1>1, <1>2 DEF Rest, Numbered
<1>7. Known'
  BY <1>1 DEF Rest, Known, Knows, Standing
<1>8. Active'
  BY <1>1, <1>3, MirroredLimit DEF Active
<1>9. Frozen'
  BY <1>1, <1>3 DEF Frozen, FrozenIsCurrent
<1> QED
  BY <1>4, <1>5, <1>6, <1>7, <1>8, <1>9 DEF Rest

(* A turn is left without a change of workbench or handles.                *)
LEMMA LeaveTurn ==
  ASSUME Typed, Rest, Standing, next' \in {"refresh", "drain"},
         UNCHANGED <<entry, channel, board, handle, aged, astray>>
  PROVE  Rest'
<1>1. ~Standing' /\ next # "over" /\ next' # "over" /\ next' # "tools" /\ next' # "model"
  BY DEF Standing
<1>2. Mirror' /\ Ordered' /\ Numbered' /\ Known' /\ Active'
  BY <1>1 DEF Rest, Mirror, Ordered, Numbered, Known, Active, InLimit
<1>3. Frozen'
  BY DEF Rest, Frozen, FrozenIsCurrent, Live, Fresh
<1> QED
  BY <1>2, <1>3 DEF Rest

LEMMA ReplyRest == Typed /\ Rest /\ (Submitted \/ CallLimit \/ Reply) => Rest'
<1> SUFFICES ASSUME Typed, Rest, Submitted \/ CallLimit \/ Reply PROVE Rest'
  OBVIOUS
<1>1. CASE Submitted
  BY <1>1, LeaveTurn DEF Submitted, Standing
<1>2. CASE CallLimit
  BY <1>2, LeaveTurn DEF CallLimit, Standing
<1>3. CASE Conclude
  BY <1>3, LeaveTurn DEF Conclude, Asked, Standing
<1>4. CASE RejectBareEnd
  BY <1>4, LeaveTurn DEF RejectBareEnd, Asked, Standing
<1>5. CASE ModelUnavailable
  BY <1>5, LeaveTurn DEF ModelUnavailable, Asked, Standing
<1>6. CASE IdleTurn
  BY <1>6, LeaveTurn DEF IdleTurn, Asked, Standing
<1>7. ASSUME NEW calls \in Replies, NEW blocked \in BOOLEAN, Execute(calls, blocked)
      PROVE  Rest'
  <2>1. /\ next = "model" /\ next' = "tools" /\ channel.frozen = NoDraft
        /\ batch' = [calls |-> calls, base |-> BatchBase]
        /\ astray' = (astray \/ (aged /\ calls # <<>>) \/ InCompany(calls))
        /\ UNCHANGED <<entry, channel, board, handle, verdict, aged>>
    BY <1>7 DEF Execute, Asked
  <2>2. batch'.calls = calls /\ batch'.base = BatchBase /\ calls \in Seq(Tool)
    BY <2>1, SupervisorAssumption
  <2>3. ~astray' => ~astray /\ (aged => calls = <<>>) /\ ~InCompany(calls)
    BY <2>1
  <2>4. Mirror'
    BY <2>1 DEF Rest, Mirror, Standing
  <2>5. Ordered'
    <3> SUFFICES ASSUME ~astray'
                 PROVE  /\ aged' => board' = entry'
                        /\ aged' => batch'.calls = <<>>
                        /\ WithSerial(batch'.calls) =>
                             Len(batch'.calls) = 1 /\ board'.pending = channel'.pending
      BY <2>1 DEF Ordered
    <3>1. aged => board = entry
      BY <2>1, <2>3 DEF Rest, Ordered, Standing
    <3>2. ~aged => board.pending = channel.pending
      BY <2>1, <2>3 DEF Rest, Ordered
    <3>3. WithSerial(calls) => Len(calls) = 1
      <4>1. Len(calls) \in Nat /\ DOMAIN calls = 1 .. Len(calls)
        BY <2>2
      <4>2. WithSerial(calls) => Len(calls) > 0 /\ ~(Len(calls) > 1)
        BY <2>3, <4>1 DEF WithSerial, InCompany
      <4> QED
        BY <4>1, <4>2
    <3>4. aged => ~WithSerial(calls)
      BY <2>3, NoSerialInNothing
    <3> QED
      BY <2>1, <2>2, <2>3, <3>1, <3>2, <3>3, <3>4
  <2>6. Numbered'
    <3>1. channel.counter <= BatchBase
      BY LargerType, UsedType DEF BatchBase, Typed, Workbench
    <3> QED
      BY <2>1, <2>2, <3>1 DEF Rest, Numbered
  <2>7. Known'
    BY <2>1 DEF Rest, Known, Standing, Knows
  <2>8. Active'
    BY <2>1, <2>3 DEF Rest, Active, InLimit
  <2>9. Frozen'
    BY <2>1 DEF Frozen, FrozenIsCurrent
  <2> QED
    BY <2>4, <2>5, <2>6, <2>7, <2>8, <2>9 DEF Rest
<1> QED
  BY <1>1, <1>2, <1>3, <1>4, <1>5, <1>6, <1>7 DEF Reply

LEMMA FinishRest ==
  ASSUME Typed, Rest, NEW t \in Task, Finish(t)
  PROVE  Rest'
<1>1. UNCHANGED <<entry, channel, board, next, batch, aged, astray, verdict>> /\ handle[t] = "live"
  BY DEF Finish
<1>2. Mirror' /\ Ordered' /\ Numbered' /\ Known' /\ Active'
  BY <1>1 DEF Rest, Mirror, Ordered, Numbered, Known, Active, InLimit, Knows, Standing
<1>3. Frozen'
  BY <1>1 DEF Rest, Frozen, FrozenIsCurrent, Live
<1> QED
  BY <1>2, <1>3 DEF Rest

(* What the channels take in never changes a result they have.             *)
Grows == \A t \in Task : channel.settled[t] # "none" => channel'.settled[t] = channel.settled[t]

LEMMA Reception ==
  ASSUME Typed, Numbered, NEW b \in Workbench, Knows(channel, b), Ready(b) \subseteq channel.pending,
         channel' = SettleChannels(channel, b, Absorb(b))
  PROVE  /\ Grows /\ Knows(channel', Absorb(b))
         /\ \A t \in channel'.pending : channel'.settled[t] = "none"
         /\ \A t \in Task : t \in channel'.pending \/ channel'.settled[t] # "none" => t <= channel'.counter
<1>1. /\ \A t \in Task : t \notin Ready(b) => channel'.settled[t] = channel.settled[t]
      /\ channel'.pending = channel.pending \ Ready(b) /\ channel'.counter = channel.counter
      /\ Knows(channel', Absorb(b))
  BY SettledByReception DEF Typed
<1>2. channel.pending \subseteq Task
  BY DEF Typed, Workbench
<1>3. Grows
  BY <1>1 DEF Grows, Numbered
<1>4. \A t \in channel'.pending : channel'.settled[t] = "none"
  BY <1>1, <1>2 DEF Numbered
<1>5. \A t \in Task : t \in channel'.pending \/ channel'.settled[t] # "none" => t <= channel'.counter
  BY <1>1 DEF Numbered
<1> QED
  BY <1>1, <1>3, <1>4, <1>5

LEMMA DoneIsRegistered ==
  ASSUME TasksRegistered, next # "over"
  PROVE  /\ Done \subseteq channel.pending
         /\ channel.pending = {} => \A t \in Task : handle[t] = "none"
BY DEF TasksRegistered, Done

LEMMA RefreshRest == Typed /\ TasksRegistered /\ Rest /\ Refresh => Rest'
<1> SUFFICES ASSUME Typed, TasksRegistered, Rest, Refresh PROVE Rest'
  OBVIOUS
<1>1. /\ next = "refresh" /\ next' = "model" /\ board' = Absorb(channel) /\ ~aged'
      /\ channel' = SettleChannels(channel, channel, Absorb(channel))
      /\ UNCHANGED <<entry, batch, verdict, astray>> /\ Received
  BY DEF Refresh
<1>2. channel \in Workbench /\ handle \in [Task -> Handles]
  BY DEF Typed
<1>3. Mirrored(board', channel')
  <2>1. Mirrored(channel, channel)
    BY <1>2, StopMembers DEF Mirrored, Workbench
  <2> QED
    BY <1>1, <1>2, <2>1, MirroredReception
<1>4. Ready(channel) \subseteq channel.pending
  BY <1>1, DoneIsRegistered DEF Ready, Lost
<1>5. /\ Grows /\ Knows(channel', board')
      /\ \A t \in channel'.pending : channel'.settled[t] = "none"
      /\ \A t \in Task : t \in channel'.pending \/ channel'.settled[t] # "none" => t <= channel'.counter
  BY <1>1, <1>2, <1>4, Reception DEF Rest, Knows
<1>6. board'.pending = channel'.pending
  BY <1>1, <1>2, AbsorbFields, SettledByReception DEF Knows
<1>7. Mirror' /\ Ordered' /\ Numbered'
  BY <1>1, <1>3, <1>5, <1>6 DEF Mirror, Ordered, Numbered
<1>8. Known'
  BY <1>1, <1>5, <1>6 DEF Rest, Known, Knows, Grows
<1>9. Active'
  BY <1>1, <1>2, <1>3, AbsorbInLimit, MirroredLimit DEF Rest, Active
<1>10. Frozen'
  <2> SUFFICES ASSUME channel'.frozen # NoDraft, ~astray
               PROVE  /\ channel'.pending = {} /\ Live' = {}
                      /\ channel'.frozen = channel'.draft
                      /\ Fresh(channel)' /\ Complete(channel'.frozen)
    BY <1>1 DEF Frozen, FrozenIsCurrent
  <2>1. channel'.frozen = channel.frozen /\ channel'.draft = channel.draft
    BY <1>2, <1>3, AbsorbFields, <1>1 DEF Mirrored
  <2>2. /\ channel.pending = {} /\ channel.frozen = channel.draft
        /\ Fresh(channel) /\ Complete(channel.frozen)
    BY <2>1 DEF Rest, Frozen, FrozenIsCurrent
  <2>3. Ready(channel) = {} /\ \A t \in Task : handle[t] = "none"
    BY <1>1, <1>4, <2>2, DoneIsRegistered
  <2>4. channel'.revision = channel.revision /\ channel'.pending = {}
    BY <1>1, <1>2, <1>3, <1>6, <2>2, <2>3, NothingReceived DEF Mirrored
  <2>5. Live' = {}
    BY <1>1, <2>3 DEF Received, Live
  <2> QED
    BY <2>1, <2>2, <2>4, <2>5 DEF Fresh
<1> QED
  BY <1>7, <1>8, <1>9, <1>10 DEF Rest

LEMMA WaitRest == Typed /\ TasksRegistered /\ Rest /\ Wait => Rest'
<1> SUFFICES ASSUME Typed, TasksRegistered, Rest, Wait PROVE Rest'
  OBVIOUS
<1>1. /\ Calls("wait") /\ Called /\ board' = Absorb(board) /\ next = "tools" /\ next' = "tools"
      /\ UNCHANGED <<entry, aged, astray, verdict>> /\ batch.calls # <<>>
  BY DEF Wait, Calls, Called
<1>2. channel \in Workbench /\ board \in Workbench /\ handle \in [Task -> Handles]
  BY DEF Typed
<1>3. CASE Ready(board) = {}
  <2>1. channel' = channel
    BY <1>3 DEF Wait
  <2>2. /\ board'.archive = board.archive /\ board'.active = board.active
        /\ board'.settled = board.settled /\ board'.exhausted = board.exhausted
        /\ board'.revision = board.revision /\ board'.pending = board.pending
        /\ board'.draft = board.draft /\ board'.frozen = board.frozen
        /\ board'.stop = board.stop /\ board'.counter = board.counter
    BY <1>1, <1>2, <1>3, NothingReceived
  <2>3. Mirrored(board, channel) => Mirrored(board', channel')
    BY <2>1, <2>2 DEF Mirrored
  <2>4. InLimit(board) => InLimit(board')
    BY <2>2 DEF InLimit
  <2> QED
    BY <1>1, <2>1, <2>2, <2>3, <2>4, PlainTool
<1>4. CASE Ready(board) # {}
  <2>1. channel' = SettleChannels(channel, board, Absorb(board))
    BY <1>4 DEF Wait
  <2>2. Knows(channel, board) /\ board.pending \subseteq channel.pending
    BY <1>1 DEF Rest, Known, Standing
  <2>3. Ready(board) \subseteq channel.pending
    BY <1>1, <2>2, DoneIsRegistered DEF Ready, Lost
  <2>4. /\ Grows /\ Knows(channel', board')
        /\ \A t \in channel'.pending : channel'.settled[t] = "none"
        /\ \A t \in Task : t \in channel'.pending \/ channel'.settled[t] # "none" => t <= channel'.counter
    BY <1>1, <1>2, <2>1, <2>2, <2>3, Reception DEF Rest
  <2>5. board'.pending \subseteq channel'.pending /\ channel'.counter = channel.counter
        /\ channel'.frozen = channel.frozen
    <3>1. board'.pending = board.pending \ Ready(board)
      BY <1>1, <1>2, AbsorbFields
    <3>2. channel'.pending = channel.pending \ Ready(board) /\ channel'.counter = channel.counter
      BY <1>2, <2>1, <2>2, SettledByReception
    <3>3. channel'.frozen = channel.frozen
      BY <1>2, <2>1 DEF SettleChannels, Workbench
    <3> QED
      BY <2>2, <3>1, <3>2, <3>3
  <2>6. batch'.calls = Tail(batch.calls) /\ batch'.base = batch.base
    BY <1>1 DEF Called, Typed
  <2>7. ~aged => Mirrored(board', channel')
    <3>1. ~aged => Mirrored(board, channel)
      BY <1>1 DEF Rest, Mirror, Standing
    <3> QED
      BY <1>1, <1>2, <2>1, <3>1, MirroredReception
  <2>8. ~astray => ~aged /\ channel.frozen = NoDraft /\ InLimit(board) /\ InLimit(entry)
    BY <1>1, Together
  <2>9. Mirror' /\ Ordered'
    BY <1>1, <2>5, <2>6, <2>7, <2>8, OrderedAfterTool DEF Mirror
  <2>10. Numbered'
    BY <1>1, <2>4, <2>5, <2>6 DEF Rest, Numbered
  <2>11. Known'
    BY <1>1, <2>4, <2>5 DEF Rest, Known, Knows, Grows
  <2>12. Active'
    BY <1>1, <1>2, <2>7, <2>8, AbsorbInLimit, MirroredLimit DEF Active
  <2>13. Frozen'
    BY <1>1, <2>5, <2>8 DEF Frozen, FrozenIsCurrent
  <2> QED
    BY <2>9, <2>10, <2>11, <2>12, <2>13 DEF Rest
<1> QED
  BY <1>3, <1>4

LEMMA DelegateRest == Typed /\ Rest /\ Delegate => Rest'
<1> SUFFICES ASSUME Typed, Rest, Delegate PROVE Rest'
  OBVIOUS
<1>1. /\ Calls("delegate") /\ next = "tools" /\ next' = "tools" /\ batch.calls # <<>>
      /\ UNCHANGED <<entry, aged, astray, verdict>>
      /\ batch' = [calls |-> Tail(batch.calls), base |-> Index]
      /\ batch'.calls = Tail(batch.calls) /\ batch'.base = Index
  BY DEF Delegate, Calls
<1>2. channel \in Workbench /\ board \in Workbench
  BY DEF Typed
<1>3. /\ channel'.archive = channel.archive /\ channel'.active = channel.active
      /\ channel'.settled = channel.settled /\ channel'.revision = channel.revision
      /\ channel'.draft = channel.draft /\ channel'.frozen = channel.frozen
      /\ channel'.exhausted = channel.exhausted /\ channel'.stop = channel.stop
      /\ channel'.pending = channel.pending \cup {Index}
      /\ channel'.counter = Larger(channel.counter, Index)
  BY <1>2 DEF Delegate, Workbench
<1>4. /\ board'.archive = board.archive /\ board'.active = board.active
      /\ board'.settled = board.settled /\ board'.revision = board.revision
      /\ board'.draft = board.draft /\ board'.frozen = board.frozen
      /\ board'.exhausted = board.exhausted /\ board'.stop = board.stop
      /\ board'.pending = board.pending
      /\ board'.counter = Larger(board.counter, Index)
  BY <1>2 DEF Delegate, Workbench
<1>5. /\ channel.counter \in Nat /\ batch.base \in Nat /\ channel.counter <= batch.base
      /\ Index = batch.base + 1 /\ Index \in Task
  BY <1>1, <1>2 DEF Rest, Numbered, Typed, Workbench, Delegate, Index
<1>6. channel.counter < Index /\ channel'.counter = Index /\ Index \in Nat
  BY <1>3, <1>5 DEF Larger
<1>7. channel.settled[Index] = "none"
  BY <1>5, <1>6 DEF Rest, Numbered
<1>8. Mirror'
  <2>1. Mirrored(board, channel) => Mirrored(board', channel')
    BY <1>3, <1>4 DEF Mirrored
  <2> QED
    BY <1>1, <2>1 DEF Rest, Mirror, Standing
<1>9. ~astray => channel.frozen = NoDraft /\ InLimit(entry) /\ InLimit(board) /\ InLimit(channel)
  BY <1>1, Together
<1>10. Ordered'
  BY <1>1, <1>3, <1>9, OrderedAfterTool
<1>11. Numbered'
  <2>1. \A t \in channel'.pending : channel'.settled[t] = "none"
    BY <1>3, <1>7 DEF Rest, Numbered
  <2>2. \A t \in Task : t \in channel'.pending \/ channel'.settled[t] # "none" => t <= channel'.counter
    <3> SUFFICES ASSUME NEW t \in Task, t \in channel'.pending \/ channel'.settled[t] # "none"
                 PROVE  t <= Index
      BY <1>6
    <3>1. t = Index \/ t <= channel.counter
      BY <1>3 DEF Rest, Numbered
    <3> QED
      BY <1>5, <1>6, <3>1, TaskFinite
  <2>3. channel'.counter <= batch'.base
    BY <1>1, <1>6
  <2> QED
    BY <2>1, <2>2, <2>3 DEF Numbered
<1>12. Known'
  BY <1>1, <1>3, <1>4 DEF Rest, Known, Knows, Standing
<1>13. Active'
  BY <1>1, <1>3, <1>4, <1>9 DEF Active, InLimit
<1>14. Frozen'
  BY <1>1, <1>3, <1>9 DEF Frozen, FrozenIsCurrent
<1> QED
  BY <1>8, <1>10, <1>11, <1>12, <1>13, <1>14 DEF Rest

LEMMA UpdateRest == Typed /\ Rest /\ Update => Rest'
<1> SUFFICES ASSUME Typed, Rest, Update PROVE Rest'
  OBVIOUS
<1>1. PICK e \in Edits : \E back \in Refills(board, e) : UpdateWith(e, back)
  BY DEF Update
<1>2. PICK back \in Refills(board, e) : UpdateWith(e, back)
  BY <1>1
<1>3. channel \in Workbench /\ board \in Workbench /\ Accepts(board, e, back)
  BY <1>2 DEF UpdateWith, Typed
<1>4. board' = Edited(board, e, back) /\ Calls("update") /\ Called
  BY <1>2 DEF UpdateWith, Update
<1>5. channel' = [channel EXCEPT !.draft = Edited(board, e, back).draft,
                                 !.revision = Larger(@, Edited(board, e, back).revision),
                                 !.active = (@ \cup back) \ Released(board, e)]
  BY <1>2 DEF UpdateWith
<1>6. /\ board' \in Workbench
      /\ board'.active = (board.active \ e.remove) \cup back
      /\ board'.revision >= board.revision
      /\ board'.archive = board.archive /\ board'.settled = board.settled
      /\ board'.frozen = board.frozen /\ board'.exhausted = board.exhausted
      /\ board'.stop = board.stop /\ board'.counter = board.counter /\ board'.pending = board.pending
  BY <1>3, <1>4, EditedFields
<1>7. /\ channel'.active = (channel.active \cup back) \ Released(board, e)
      /\ channel'.draft = board'.draft
      /\ channel'.revision = Larger(channel.revision, board'.revision)
      /\ channel'.archive = channel.archive /\ channel'.settled = channel.settled
      /\ channel'.frozen = channel.frozen /\ channel'.exhausted = channel.exhausted
      /\ channel'.stop = channel.stop /\ channel'.counter = channel.counter
      /\ channel'.pending = channel.pending
  <2> DEFINE d == Edited(board, e, back)
  <2>1. /\ channel'.active = (channel.active \cup back) \ Released(board, e)
        /\ channel'.draft = d.draft /\ channel'.revision = Larger(channel.revision, d.revision)
        /\ channel'.archive = channel.archive /\ channel'.settled = channel.settled
        /\ channel'.frozen = channel.frozen /\ channel'.exhausted = channel.exhausted
        /\ channel'.stop = channel.stop /\ channel'.counter = channel.counter
        /\ channel'.pending = channel.pending
    <3>1. channel' = [channel EXCEPT !.draft = d.draft, !.revision = Larger(@, d.revision),
                                     !.active = (@ \cup back) \ Released(board, e)]
      BY <1>5
    <3> HIDE DEF d
    <3> QED
      BY <1>3, <3>1 DEF Workbench
  <2> HIDE DEF d
  <2>2. board' = d
    BY <1>4 DEF d
  <2> QED
    BY <2>1, <2>2
<1>8. Mirrored(board, channel) => Mirrored(board', channel')
  <2> SUFFICES ASSUME Mirrored(board, channel) PROVE Mirrored(board', channel')
    OBVIOUS
  <2>1. back \cap board.active = {}
    BY DEF Refills, Candidates
  <2>2. channel'.active = board'.active
    BY <1>6, <1>7, <2>1 DEF Mirrored, Released
  <2>3. channel'.revision = board'.revision
    BY <1>3, <1>6, <1>7 DEF Mirrored, Workbench, Larger
  <2> QED
    BY <1>6, <1>7, <2>2, <2>3 DEF Mirrored
<1>9. InLimit(board) => InLimit(board')
  BY <1>3, <1>4, EditedFits
<1> QED
  BY <1>4, <1>6, <1>7, <1>8, <1>9, PlainTool

LEMMA FrozenByTool ==
  ASSUME Typed, TasksRegistered, Rest, Freeze
  PROVE  Rest'
<1>1. /\ Calls("complete") /\ Called /\ Freezable(board) /\ handle' = handle
      /\ UNCHANGED <<next, astray>> /\ next = "tools"
  BY DEF Freeze, Called, Calls
<1>2. channel \in Workbench /\ board \in Workbench
  BY DEF Typed
<1> DEFINE why == IF Bound(board.draft) = {} THEN "provider" ELSE "completed"
<1>3. /\ Stronger(board.stop, why) \in Stop /\ Rank[Stronger(board.stop, why)] >= Rank[board.stop]
      /\ board.stop \in Stop
  BY <1>2, StrongerType, StrongerRank, StopMembers DEF Workbench
<1> HIDE DEF why
<1>4. board' = [board EXCEPT !.frozen = board.draft, !.stop = Stronger(@, why)]
  BY DEF Freeze, why
<1>5. /\ board'.frozen = board.draft /\ board'.stop = Stronger(board.stop, why)
      /\ board'.archive = board.archive /\ board'.active = board.active
      /\ board'.settled = board.settled /\ board'.revision = board.revision
      /\ board'.draft = board.draft /\ board'.exhausted = board.exhausted
      /\ board'.counter = board.counter /\ board'.pending = board.pending
      /\ board' \in Workbench
  BY <1>2, <1>3, <1>4 DEF Workbench
<1>6. board.draft # NoDraft /\ Complete(board.draft) /\ Fresh(board) /\ board.pending = {}
  BY <1>1 DEF Freezable, Fresh
<1>7. /\ channel'.frozen = board.draft /\ channel'.stop = Stronger(channel.stop, board'.stop)
      /\ channel'.archive = channel.archive /\ channel'.active = channel.active
      /\ channel'.settled = channel.settled /\ channel'.revision = channel.revision
      /\ channel'.draft = channel.draft /\ channel'.exhausted = channel.exhausted
      /\ channel'.counter = channel.counter /\ channel'.pending = channel.pending
  <2> DEFINE n == FreezeChannels(channel, board')
  <2>1. /\ n.frozen = (IF board'.frozen = NoDraft THEN channel.frozen ELSE board'.frozen)
        /\ n.stop = Stronger(channel.stop, board'.stop)
        /\ n.archive = channel.archive /\ n.active = channel.active
        /\ n.settled = channel.settled /\ n.revision = channel.revision
        /\ n.draft = channel.draft /\ n.exhausted = channel.exhausted
        /\ n.counter = channel.counter /\ n.pending = channel.pending
    BY <1>2, <1>5, FreezeChannelsFields
  <2> HIDE DEF n
  <2>2. channel' = n
    BY DEF Freeze, n
  <2> QED
    BY <1>5, <1>6, <2>1, <2>2
<1>8. Mirrored(board, channel) => Mirrored(board', channel')
  <2> SUFFICES ASSUME Mirrored(board, channel) PROVE Mirrored(board', channel')
    OBVIOUS
  <2>1. Rank[board'.stop] >= Rank[channel.stop]
    <3>1. Rank[board.stop] \in Nat /\ Rank[channel.stop] \in Nat /\ Rank[board'.stop] \in Nat
      BY <1>2, <1>3, <1>5, StopMembers DEF Workbench
    <3>2. Rank[board.stop] >= Rank[channel.stop] /\ Rank[board'.stop] >= Rank[board.stop]
      BY <1>3, <1>5 DEF Mirrored
    <3> QED
      BY <3>1, <3>2
  <2>2. Rank[board'.stop] >= Rank[channel'.stop]
    BY <1>2, <1>5, <1>7, <2>1, StrongerRank DEF Workbench
  <2> QED
    BY <1>5, <1>7, <2>2 DEF Mirrored
<1>9. InLimit(board) => InLimit(board')
  BY <1>5 DEF InLimit
<1>10. Frozen'
  <2> SUFFICES ASSUME ~astray
               PROVE  /\ channel'.pending = {} /\ Live' = {}
                      /\ channel'.frozen = channel'.draft
                      /\ Fresh(channel)' /\ Complete(channel'.frozen)
    BY <1>1 DEF Frozen, FrozenIsCurrent
  <2>1. Mirrored(board, channel) /\ board.pending = channel.pending
    BY <1>1, Together DEF Serial
  <2>2. channel.pending = {} /\ \A t \in Task : handle[t] = "none"
    BY <1>1, <1>6, <2>1, DoneIsRegistered
  <2> QED
    BY <1>1, <1>6, <1>7, <2>1, <2>2 DEF Mirrored, Fresh, Live
<1> QED
  BY <1>1, <1>5, <1>7, <1>8, <1>9, <1>10, PlainTool DEF Serial

LEMMA ToolsRest == Typed /\ TasksRegistered /\ Rest /\ Tools => Rest'
<1> SUFFICES ASSUME Typed, TasksRegistered, Rest, Tools PROVE Rest'
  OBVIOUS
<1>0. channel \in Workbench /\ board \in Workbench
  BY DEF Typed
<1>1. CASE DelegateBlocked
  <2>1. Calls("delegate") /\ Called /\ channel' = channel
    BY <1>1 DEF DelegateBlocked
  <2>2. /\ board'.archive = board.archive /\ board'.active = board.active
        /\ board'.settled = board.settled /\ board'.revision = board.revision
        /\ board'.draft = board.draft /\ board'.frozen = board.frozen
        /\ board'.exhausted = board.exhausted /\ board'.counter = board.counter
        /\ board'.pending = board.pending /\ board'.stop = Stronger(board.stop, "round_budget")
    BY <1>0, <1>1 DEF DelegateBlocked, Workbench
  <2>3. Mirrored(board, channel) => Mirrored(board', channel')
    <3> SUFFICES ASSUME Mirrored(board, channel) PROVE Mirrored(board', channel')
      OBVIOUS
    <3>1. board.stop \in Stop /\ channel.stop \in Stop /\ "round_budget" \in Stop
      BY <1>0, StopMembers DEF Workbench
    <3>2. Stronger(board.stop, "round_budget") \in Stop
      BY <3>1, StrongerType
    <3>3. /\ Rank[board.stop] \in Nat /\ Rank[channel.stop] \in Nat /\ Rank[board'.stop] \in Nat
          /\ Rank[board'.stop] >= Rank[board.stop] /\ Rank[board.stop] >= Rank[channel.stop]
      BY <2>2, <3>1, <3>2, StrongerRank, StopMembers DEF Mirrored
    <3>4. Rank[board'.stop] >= Rank[channel.stop]
      BY <3>3
    <3> QED
      BY <2>1, <2>2, <3>4 DEF Mirrored
  <2> QED
    BY <2>1, <2>2, <2>3, PlainTool DEF InLimit
<1>2. CASE DelegateBound
  BY <1>2, PlainTool DEF DelegateBound, Refused
<1>3. CASE WaitInVain
  BY <1>3, PlainTool DEF WaitInVain, Refused
<1>4. CASE UpdateRejected
  BY <1>4, PlainTool DEF UpdateRejected, Refused
<1>5. CASE FreezeRejected
  <2>1. Calls("complete") /\ Called /\ board' = board
    BY <1>5 DEF FreezeRejected
  <2>2. /\ channel'.frozen = (IF board.frozen = NoDraft THEN channel.frozen ELSE board.frozen)
        /\ channel'.stop = Stronger(channel.stop, board.stop)
        /\ channel'.archive = channel.archive /\ channel'.active = channel.active
        /\ channel'.settled = channel.settled /\ channel'.revision = channel.revision
        /\ channel'.draft = channel.draft /\ channel'.exhausted = channel.exhausted
        /\ channel'.counter = channel.counter /\ channel'.pending = channel.pending
    BY <1>0, <1>5, FreezeChannelsFields DEF FreezeRejected
  <2>3. Mirrored(board, channel) => Mirrored(board', channel')
    <3> SUFFICES ASSUME Mirrored(board, channel) PROVE Mirrored(board', channel')
      OBVIOUS
    <3>1. Rank[board.stop] >= Rank[channel'.stop]
      BY <1>0, <2>2, StrongerRank DEF Workbench, Mirrored
    <3> QED
      BY <2>1, <2>2, <3>1 DEF Mirrored
  <2>4. channel.frozen = NoDraft /\ Mirrored(board, channel) => channel'.frozen = NoDraft
    BY <2>2 DEF Mirrored
  <2> QED
    BY <2>1, <2>2, <2>3, <2>4, PlainTool DEF InLimit
<1>6. CASE BatchDone
  BY <1>6, LeaveTurn DEF BatchDone, Standing
<1> QED
  BY <1>1, <1>2, <1>3, <1>4, <1>5, <1>6, DelegateRest, WaitRest, UpdateRest, FrozenByTool DEF Tools

LEMMA DrainRest == Typed /\ TasksRegistered /\ Rest /\ Drain => Rest'
<1> SUFFICES ASSUME Typed, TasksRegistered, Rest, Drain PROVE Rest'
  OBVIOUS
<1> DEFINE b == Absorb(Drained)
<1>1. /\ next = "drain" /\ next' = "over" /\ channel' = channel /\ board' = b /\ Close(b)
      /\ \A t \in Task : handle'[t] = "none"
      /\ UNCHANGED <<batch, aged, astray>>
  BY DEF Drain, Close, StopResidual
<1>2. /\ Drained \in Workbench /\ b \in Workbench /\ handle \in [Task -> Handles]
      /\ Drained.archive = channel.archive /\ Drained.active = channel.active
      /\ Drained.settled = channel.settled /\ Drained.pending = channel.pending
      /\ entry \in Workbench
  BY DrainedType, AbsorbType DEF Typed
<1>3. Ready(Drained) \subseteq channel.pending
  BY <1>1, <1>2, DoneIsRegistered DEF Ready, Lost
<1>4. \A t \in Task : channel.settled[t] # "none" => b.settled[t] = channel.settled[t]
  <2> SUFFICES ASSUME NEW t \in Task, channel.settled[t] # "none"
               PROVE  b.settled[t] = channel.settled[t]
    OBVIOUS
  <2>1. t \notin Ready(Drained)
    BY <1>3 DEF Rest, Numbered
  <2>2. b.settled = [u \in Task |-> IF u \in Done THEN handle[u]
                       ELSE IF u \in Lost(Drained) THEN "failed" ELSE Drained.settled[u]]
    BY <1>2, AbsorbFields
  <2> QED
    BY <1>2, <2>1, <2>2 DEF Ready
<1>5. ~astray => InLimit(b) /\ InLimit(channel)
  <2>1. InLimit(channel) => InLimit(Drained)
    BY <1>2 DEF InLimit
  <2> QED
    BY <1>2, <2>1, AbsorbInLimit DEF Rest, Active
<1> HIDE DEF b
<1>6. /\ entry'.archive = b.archive \cup entry.archive /\ entry'.active = b.active
      /\ \A t \in Task : b.settled[t] # "none" => entry'.settled[t] = b.settled[t]
  BY <1>1, <1>2, ClosedEntry
<1>7. Mirror' /\ Ordered' /\ Numbered' /\ Known'
  BY <1>1, <1>4, <1>6 DEF Rest, Mirror, Ordered, Numbered, Known, Knows, Standing
<1>8. Active'
  BY <1>1, <1>5, <1>6 DEF Active, InLimit
<1>9. Frozen'
  BY <1>1 DEF Rest, Frozen, FrozenIsCurrent, Live, Fresh
<1> QED
  BY <1>7, <1>8, <1>9 DEF Rest

(* After an exception the round has a result only if it was frozen.        *)
LEMMA FailedVerdict ==
  ASSUME NEW old \in Stop, NEW b \in Workbench, b.stop = Stronger(old, "failed"),
         Verdict(b).mode # "none"
  PROVE  b.frozen # NoDraft
<1> SUFFICES ASSUME b.frozen = NoDraft PROVE FALSE
  OBVIOUS
<1>1. b.stop \in {"failed", "completed"}
  BY StopMembers DEF Stronger, Rank
<1>2. FinalStop(b) = b.stop
  BY <1>1 DEF FinalStop
<1>3. FinalStop(b) \notin AllowsPartial
  BY <1>1, <1>2 DEF AllowsPartial
<1> QED
  BY <1>3 DEF Verdict

LEMMA FailRest == Typed /\ Rest /\ Fail => Rest'
<1> SUFFICES ASSUME Typed, Rest, Fail PROVE Rest'
  OBVIOUS
<1>1. /\ Standing /\ next # "over" /\ next' = "over" /\ channel' = channel /\ Close(board')
      /\ \A t \in Task : handle'[t] = "none"
      /\ verdict' = Verdict(board') /\ UNCHANGED <<batch, aged, astray>>
  BY DEF Fail, Close, StopResidual, Standing
<1>2. /\ board' \in Workbench /\ board'.stop = Stronger(board.stop, "failed")
      /\ board'.archive = board.archive /\ board'.active = board.active
      /\ board'.settled = board.settled /\ board'.frozen = board.frozen
      /\ board.stop \in Stop /\ entry \in Workbench
  BY FailBoard DEF Typed, Workbench
<1>3. /\ entry'.archive = board'.archive \cup entry.archive /\ entry'.active = board'.active
      /\ \A t \in Task : board'.settled[t] # "none" => entry'.settled[t] = board'.settled[t]
  BY <1>1, <1>2, ClosedEntry
<1>4. ASSUME ~astray, verdict'.mode # "none" PROVE Knows(entry', channel')
  <2>1. board.frozen # NoDraft
    BY <1>1, <1>2, <1>4, FailedVerdict
  <2>2. aged => board = entry /\ entry.frozen = NoDraft
    BY <1>1, <1>4 DEF Rest, Ordered, Known
  <2>3. Mirrored(board, channel)
    BY <1>1, <2>1, <2>2 DEF Rest, Mirror
  <2> QED
    BY <1>1, <1>2, <1>3, <2>3 DEF Mirrored, Knows
<1>5. Mirror' /\ Ordered' /\ Numbered' /\ Known'
  BY <1>1, <1>4 DEF Rest, Mirror, Ordered, Numbered, Known, Standing
<1>6. Active'
  BY <1>1, <1>2, <1>3 DEF Rest, Active, InLimit
<1>7. Frozen'
  BY <1>1 DEF Rest, Frozen, FrozenIsCurrent, Live, Fresh
<1> QED
  BY <1>5, <1>6, <1>7 DEF Rest

LEMMA NextRoundRest == Typed /\ Rest /\ NextRound => Rest'
<1> SUFFICES ASSUME Typed, Rest, NextRound PROVE Rest'
  OBVIOUS
<1> DEFINE s == Seed(entry)
<1>1. /\ next = "over" /\ verdict.mode # "none" /\ next' = "refresh"
      /\ entry' = s /\ channel' = s /\ board' = s /\ UNCHANGED <<aged, astray>>
  BY DEF NextRound
<1>2. /\ s.archive = entry.archive /\ s.active = entry.active /\ s.settled = entry.settled
      /\ s.frozen = NoDraft /\ s.pending = {}
      /\ \A t \in Task : entry.settled[t] # "none" => t <= s.counter
  BY SeedFields DEF Typed
<1> HIDE DEF s
<1>3. Mirror' /\ Ordered' /\ Known'
  BY <1>1, <1>2 DEF Mirror, Ordered, Known, Knows, Standing
<1>4. Numbered'
  BY <1>1, <1>2 DEF Numbered
<1>5. Active'
  BY <1>1, <1>2 DEF Rest, Active, InLimit
<1>6. Frozen'
  BY <1>1, <1>2 DEF Frozen, FrozenIsCurrent
<1> QED
  BY <1>3, <1>4, <1>5, <1>6 DEF Rest

LEMMA CrashRest == Typed /\ Rest /\ Crash => Rest'
<1> SUFFICES ASSUME Typed, Rest, Crash PROVE Rest'
  OBVIOUS
<1>1. /\ next' = next /\ next # "over" /\ board' = entry /\ aged' = Standing
      /\ astray' = (astray \/ (next = "tools" /\ batch.calls # <<>>))
      /\ \A t \in Task : handle'[t] = "none"
      /\ UNCHANGED <<entry, channel, batch, verdict>>
  BY SupervisorAssumption DEF Crash, Standing
<1>2. ~astray' => ~astray /\ (next = "tools" => batch.calls = <<>>)
  BY <1>1
<1>3. Mirror' /\ Numbered'
  BY <1>1 DEF Rest, Mirror, Numbered, Standing
<1>4. Ordered'
  BY <1>1, <1>2, NoSerialInNothing DEF Ordered, Standing
<1>5. Known'
  BY <1>1 DEF Rest, Known, Knows, Standing
<1>6. Active'
  BY <1>1, <1>2 DEF Rest, Active, InLimit
<1>7. Frozen'
  BY <1>1, <1>2 DEF Rest, Frozen, FrozenIsCurrent, Live, Fresh
<1> QED
  BY <1>3, <1>4, <1>5, <1>6, <1>7 DEF Rest

LEMMA RestStep == Typed /\ TasksRegistered /\ Rest /\ [Next]_vars => Rest'
<1> SUFFICES ASSUME Typed, TasksRegistered, Rest, [Next]_vars PROVE Rest'
  OBVIOUS
<1>1. CASE UNCHANGED vars
  BY <1>1 DEF vars, Rest, Mirror, Ordered, Numbered, Known, Active, Frozen, FrozenIsCurrent,
              InLimit, Knows, Live, Standing, Fresh
<1> QED
  BY <1>1, RefreshRest, ReplyRest, ToolsRest, DrainRest, FailRest, NextRoundRest, CrashRest,
     FinishRest DEF Next

-----------------------------------------------------------------------------
(* THE THEOREMS *)

LEMMA InitRest == Init => Rest
<1> SUFFICES ASSUME Init PROVE Rest
  OBVIOUS
<1>1. /\ entry = EmptyBoard /\ channel = EmptyBoard /\ board = EmptyBoard
      /\ next = "refresh" /\ ~aged
  BY DEF Init
<1>2. /\ EmptyBoard.active = {} /\ EmptyBoard.archive = {} /\ EmptyBoard.pending = {}
      /\ EmptyBoard.frozen = NoDraft /\ \A t \in Task : EmptyBoard.settled[t] = "none"
  BY DEF EmptyBoard
<1>3. Cardinality({}) = 0
  BY FS_EmptySet
<1>4. Mirror /\ Ordered /\ Numbered /\ Known
  BY <1>1, <1>2 DEF Mirror, Ordered, Numbered, Known, Knows, Standing
<1>5. Active
  BY <1>1, <1>2, <1>3, Limits DEF Active, InLimit
<1>6. Frozen
  BY <1>1, <1>2 DEF Frozen, FrozenIsCurrent
<1> QED
  BY <1>4, <1>5, <1>6 DEF Rest

LEMMA Invariance == Spec => [](Typed /\ TasksRegistered /\ Rest)
<1>1. Init => Typed /\ Registered /\ Rest
  BY InitTyped, InitRegistered, InitRest
<1>2. Typed /\ Registered /\ Rest /\ [Next]_vars => Typed' /\ Registered' /\ Rest'
  BY TypedStep, StepKeeps, RestStep DEF Registered
<1>3. Registered => TasksRegistered
  BY DEF Registered
<1> QED
  BY <1>1, <1>2, <1>3, PTL DEF Spec

(* Every variable stays in its type: counters, workbenches, drafts.        *)
THEOREM TypeCorrect == Spec => []TypeOK
BY Invariance, TypedIsTypeOK, PTL

(* While the model thinks and the tools run, board and channels hold the   *)
(* same workbench, unless the board is older than the channels (state.py,  *)
(* from_channel_values; reducers.py).                                      *)
THEOREM BoardIsMirrored == Spec => []BoardMirrorsChannels
<1>1. Typed /\ Rest => BoardMirrorsChannels
  <2> SUFFICES ASSUME Typed, Rest, next \in {"model", "tools"}, ~aged
               PROVE  /\ [board EXCEPT !.stop = channel.stop, !.pending = channel.pending] = channel
                      /\ board.pending \subseteq channel.pending
                      /\ Rank[board.stop] >= Rank[channel.stop]
    BY DEF BoardMirrorsChannels
  <2>1. Mirrored(board, channel) /\ board.pending \subseteq channel.pending
    BY DEF Rest, Mirror, Known, Standing
  <2>2. channel \in Workbench /\ board \in Workbench
    BY DEF Typed
  <2>3. [board EXCEPT !.stop = channel.stop, !.pending = channel.pending] = channel
    BY <2>1, <2>2 DEF Workbench, Mirrored
  <2> QED
    BY <2>1, <2>3 DEF Mirrored
<1> QED
  BY <1>1, Invariance, PTL

(* What is handed to the Writer as frozen is the latest synthesis, drawn   *)
(* up over the present working set with no task in flight (services.py,    *)
(* freeze_synthesis), unless a tool worked on an aged board or a serial    *)
(* tool in company.                                                        *)
THEOREM FrozenStaysCurrent == Spec => []FrozenIsCurrent
<1>1. Rest => FrozenIsCurrent
  BY DEF Rest, Frozen
<1> QED
  BY <1>1, Invariance, PTL

(* The active set stays within its limit and the archive (state.py,        *)
(* absorb, restore_evidence), with the same exception.                     *)
THEOREM ActiveStaysInLimit == Spec => []ActiveWithinLimit
<1>1. Rest => ActiveWithinLimit
  BY DEF Rest, Active, InLimit, ActiveWithinLimit
<1> QED
  BY <1>1, Invariance, PTL

LEMMA ResultsStep ==
  Typed /\ TasksRegistered /\ Rest /\ [Next]_vars =>
    [\A t \in Task : channel.settled[t] # "none" /\ (round' = round \/ ~astray)
                     => channel'.settled[t] = channel.settled[t]]_vars
<1> SUFFICES ASSUME Typed, TasksRegistered, Rest, Next,
                    NEW t \in Task, channel.settled[t] # "none", round' = round \/ ~astray
             PROVE  channel'.settled[t] = channel.settled[t]
  BY DEF vars
<1>0. channel \in Workbench /\ board \in Workbench
  BY DEF Typed
<1>1. CASE Refresh
  <2>1. Ready(channel) \subseteq channel.pending
    BY <1>1, DoneIsRegistered DEF Refresh, Ready, Lost
  <2>2. Grows
    BY <1>0, <1>1, <2>1, Reception DEF Refresh, Rest, Knows
  <2> QED
    BY <2>2 DEF Grows
<1>2. CASE Submitted \/ CallLimit \/ Reply
  <2>1. channel' = channel
    BY <1>2 DEF Submitted, CallLimit, Reply, Conclude, RejectBareEnd, ModelUnavailable, IdleTurn, Execute
  <2> QED
    BY <2>1
<1>3. CASE Wait
  <2>1. next = "tools" /\ (channel' = channel \/ channel' = SettleChannels(channel, board, Absorb(board)))
    BY <1>3 DEF Wait, Calls
  <2>2. Knows(channel, board) /\ Ready(board) \subseteq channel.pending
    BY <2>1, DoneIsRegistered DEF Rest, Known, Standing, Ready, Lost
  <2>3. channel' = SettleChannels(channel, board, Absorb(board)) => Grows
    BY <1>0, <2>2, Reception DEF Rest
  <2> QED
    BY <2>1, <2>3 DEF Grows
<1>4. CASE Tools /\ ~Wait
  <2>1. CASE Delegate
    BY <1>0, <2>1 DEF Delegate, Workbench
  <2>2. CASE DelegateBlocked \/ DelegateBound \/ WaitInVain \/ UpdateRejected \/ BatchDone
    BY <2>2 DEF DelegateBlocked, DelegateBound, WaitInVain, UpdateRejected, BatchDone, Refused
  <2>3. CASE Update
    BY <1>0, <2>3 DEF Update, UpdateWith, Workbench
  <2>4. CASE Freeze \/ FreezeRejected
    BY <1>0, <2>4 DEF Freeze, FreezeRejected, FreezeChannels, Workbench
  <2> QED
    BY <1>4, <2>1, <2>2, <2>3, <2>4 DEF Tools
<1>5. CASE Drain \/ Fail \/ Crash
  BY <1>5 DEF Drain, Fail, Close, Crash
<1>6. CASE NextRound
  <2>1. round' # round /\ next = "over" /\ verdict.mode # "none" /\ channel' = Seed(entry)
    BY <1>6 DEF NextRound, Typed
  <2>2. Knows(entry, channel)
    BY <2>1 DEF Rest, Known
  <2>3. Seed(entry).settled = entry.settled
    BY SeedFields DEF Typed
  <2> QED
    BY <2>1, <2>2, <2>3 DEF Knows
<1>7. ASSUME NEW u \in Task, Finish(u) PROVE channel' = channel
  BY <1>7 DEF Finish
<1> QED
  BY <1>1, <1>2, <1>3, <1>4, <1>5, <1>6, <1>7 DEF Next

(* The result of a task is final: no later task gets its index (state.py,  *)
(* _used_task_index), not even after a crash.                              *)
THEOREM ResultsStayFinal == Spec => ResultsAreFinal
BY Invariance, ResultsStep, PTL DEF Spec, ResultsAreFinal
=============================================================================
