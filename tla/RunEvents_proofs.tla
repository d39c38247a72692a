--------------------------- MODULE RunEvents_proofs ---------------------------
(***************************************************************************)
(* Theorems about RunEvents for any number of workers, readers, claims and *)
(* frames, any batch size and any set of failures: what is stored is       *)
(* numbered without a hole and once per key, nothing accepted is lost,     *)
(* done is the last and true word of its worker, and what the SSE clients  *)
(* get keeps the promise of StreamPromise.                                 *)
(***************************************************************************)
EXTENDS RunEvents, FiniteSetTheorems, TLAPS

-----------------------------------------------------------------------------
(* THE STORE                                                               *)

(* The number of visible rows: a transaction that has taken numbers is     *)
(* rolled back to first_seq - 1.                                           *)
Length == IF lock = Free THEN eventSeq ELSE first[lock] - 1

(* Only the holder of the row lock has taken numbers.                      *)
Locked == \A c \in Writers : step[c] = "numbered" <=> lock = c

Numbering ==
  /\ Length \in Nat
  /\ {e.seq : e \in log} = 1..Length
  /\ \A d, e \in log : d.seq = e.seq => d = e
  /\ lock # Free => eventSeq = Length + Len(todo[lock])

Covers(S, f)  == f \in S \/ (f.key # NoKey /\ \E g \in S : g.key = f.key)
DistinctIn(s) == \A i, j \in 1..Len(s) : s[i].key = s[j].key /\ s[i].key # NoKey => i = j

(* What an append inserts stands for the whole batch.                      *)
Chosen ==
  \A c \in Writers :
    /\ DistinctIn(todo[c])
    /\ Range(todo[c]) \subseteq Range(batch[c])
    /\ step[c] = "idle" => batch[c] = <<>>
    /\ step[c] \in {"checked", "numbered"} =>
         \A f \in Range(batch[c]) : Covers(Range(todo[c]) \cup Stored, f)

LogInv == LogTypeOK /\ Locked /\ Numbering /\ OncePerKey /\ Chosen

-----------------------------------------------------------------------------
(* THE PROCESSES                                                           *)

SeatsCount == \A p \in Procs : ~open[p] => sent[p] = {}
OwnFrames  == \A p \in Procs : \A f \in Held(p) : f.by = p
SentKept   == \A p \in Procs : \A f \in sent[p] : Covers(Held(p) \cup Stored, f)

(* A done frame tells what the row says, for good.                         *)
TellsOutcome(f) == f.key = DoneKey => status[run] \in Terminal /\ f.says = status[run]
DoneKnown ==
  /\ \A p \in Procs : \A f \in Held(p) : TellsOutcome(f)
  /\ \A f \in Stored : TellsOutcome(f)

EndsDone(s) == \A i \in 1..Len(s) : s[i].key = DoneKey => i = Len(s)
SaysDone(S) == \E f \in S : f.key = DoneKey

(* Where the coroutines of worker w may be, and when they may append.      *)
Coroutines(w) ==
  /\ pc[Main(w)] # "announce" /\ pc[Side(w)] \in {"off", "periodic"}
  /\ pc[Main(w)] \in {"off", "resuming", "settle", "final"} => pc[Side(w)] = "off"
  /\ lost[w] \/ written[w] # "none" => pc[Main(w)] \in {"stopping", "final"}
  /\ ~(lost[w] /\ written[w] # "none")
  /\ ~Flushing(Main(w)) => step[Main(w)] = "idle"
  /\ ~Flushing(Side(w)) => step[Side(w)] = "idle"

(* The done frame of worker w is the last that it has, and then there is   *)
(* nothing more to come.                                                   *)
DoneLogged(w) == \E e \in log : e.frame.by = w /\ e.frame.key = DoneKey
LastWord(w) ==
  /\ SaysDone(Held(w)) => \/ pc[Main(w)] = "settle"
                          \/ pc[Main(w)] = "final" /\ ~lost[w]
  /\ EndsDone(pending[w]) /\ EndsDone(batch[Main(w)]) /\ EndsDone(todo[Main(w)])
  /\ SaysDone(Range(batch[Main(w)])) => pending[w] = <<>>
  /\ DoneLogged(w) => Held(w) = {} /\ pc[Main(w)] \in {"settle", "final", "off"}

-----------------------------------------------------------------------------
(* THE STREAMS                                                             *)

Reading ==
  \A i \in Readers :
    /\ got[i] = 1..seen[i] /\ seen[i] <= Length
    /\ rpc[i] \in {"tail", "again"} => last[i] = seen[i]
    /\ rpc[i] = "status" => seen[i] <= last[i] /\ last[i] <= Length

-----------------------------------------------------------------------------
(* KEPT ELEMENTS OF A SEQUENCE                                             *)

Rank(I, i) == Cardinality({j \in I : j <= i})

(* Ranks in a finite set of numbers are its first numbers, and rise.       *)
LEMMA RankRises ==
  ASSUME NEW n \in Nat, NEW I \in SUBSET (1..n)
  PROVE  /\ IsFiniteSet(I) /\ Cardinality(I) \in Nat
         /\ \A i \in I : Rank(I, i) \in 1..Cardinality(I)
         /\ \A i, j \in I : i < j => Rank(I, i) < Rank(I, j)
<1> DEFINE Upto(i) == {j \in I : j <= i}
<1>1. IsFiniteSet(I) /\ Cardinality(I) \in Nat
  <2>1. n \in Int /\ 1 \in Int
    OBVIOUS
  <2>2. IsFiniteSet(1..n)
    BY <2>1, FS_Interval
  <2>3. IsFiniteSet(I)
    BY <2>2, FS_Subset
  <2> QED
    BY <2>3, FS_CardinalityType
<1>2. ASSUME NEW i
      PROVE  /\ Upto(i) \in SUBSET I /\ IsFiniteSet(Upto(i)) /\ Cardinality(Upto(i)) \in Nat
             /\ Cardinality(Upto(i)) <= Cardinality(I)
  <2>1. Upto(i) \in SUBSET I
    OBVIOUS
  <2> QED
    BY <1>1, <2>1, FS_Subset, FS_CardinalityType
<1>3. ASSUME NEW i \in I PROVE Cardinality(Upto(i)) # 0
  <2>1. i \in Upto(i)
    OBVIOUS
  <2> QED
    BY <1>2, <2>1, FS_EmptySet
<1>4. ASSUME NEW i \in I, NEW j \in I, i < j
      PROVE  Cardinality(Upto(i)) < Cardinality(Upto(j))
  <2>0. /\ \A x \in I : x \in I /\ (x <= i => x <= j)
        /\ j <= j /\ ~(j <= i)
    BY <1>4
  <2>1. Upto(i) \in SUBSET Upto(j) /\ j \in Upto(j) /\ j \notin Upto(i)
    BY <2>0, Zenon
  <2>2. /\ Cardinality(Upto(i)) <= Cardinality(Upto(j))
        /\ Cardinality(Upto(i)) # Cardinality(Upto(j))
    BY <1>2, <2>1, FS_Subset
  <2> QED
    BY <1>2, <2>2
<1> QED
  BY <1>1, <1>2, <1>3, <1>4 DEF Rank

LEMMA RankHits ==
  ASSUME NEW n \in Nat, NEW I \in SUBSET (1..n), NEW k \in 1..Cardinality(I)
  PROVE  \E i \in I : Rank(I, i) = k
<1> DEFINE m == Cardinality(I)
           f == [i \in I |-> Rank(I, i)]
<1>0. m \in Nat
  BY RankRises
<1>1. IsFiniteSet(1..m) /\ Cardinality(1..m) = m
  <2> HIDE DEF m
  <2>1. m \in Int /\ 1 \in Int
    BY <1>0
  <2>2. IsFiniteSet(1..m) /\ Cardinality(1..m) = IF 1 > m THEN 0 ELSE m - 1 + 1
    BY <2>1, FS_Interval
  <2> QED
    BY <1>0, <2>2
<1>2. \A i \in I : f[i] \in 1..m
  BY RankRises
<1>3. \A i, j \in I : f[i] = f[j] => i = j
  <2> SUFFICES ASSUME NEW i \in I, NEW j \in I, i # j PROVE f[i] # f[j]
    OBVIOUS
  <2>1. i < j \/ j < i
    OBVIOUS
  <2>2. f[i] \in Nat /\ f[j] \in Nat
    BY <1>0, <1>2
  <2> QED
    BY <2>1, <2>2, RankRises
<1>4. f \in Injection(I, 1..m)
  BY <1>2, <1>3 DEF Injection, IsInjective
<1>5. f \in Surjection(I, 1..m)
  BY <1>1, <1>4, FS_Injection
<1> QED
  BY <1>5 DEF Surjection

(* Kept(s, I) is s at the positions in I, each once, in their order.       *)
Enumerates(at, m, I) ==
  /\ m \in Nat /\ at \in [1..m -> I]
  /\ \A i \in I : \E k \in 1..m : at[k] = i
  /\ \A k, l \in 1..m : k < l => at[k] < at[l]

IsAt(t, s, m, at) == Len(t) = m /\ \A k \in 1..m : t[k] = s[at[k]]

LEMMA KeptElements ==
  ASSUME NEW S, NEW s \in Seq(S), NEW I \in SUBSET (1..Len(s))
  PROVE  /\ Kept(s, I) \in Seq(S)
         /\ \E at : /\ Enumerates(at, Cardinality(I), I)
                    /\ IsAt(Kept(s, I), s, Cardinality(I), at)
<1> DEFINE m == Cardinality(I)
           at == [k \in 1..m |-> CHOOSE i \in I : Rank(I, i) = k]
<1>a. Len(s) \in Nat
  OBVIOUS
<1>b. m \in Nat
  BY <1>a, RankRises
<1>c. \A i \in I : i \in 1..Len(s) /\ i \in Nat
  BY <1>a
<1>0. Len(s) \in Nat /\ m \in Nat /\ \A i \in I : i \in 1..Len(s) /\ i \in Nat
  BY <1>a, <1>b, <1>c
<1>1. ASSUME NEW k \in 1..m PROVE at[k] \in I /\ Rank(I, at[k]) = k
  BY <1>0, RankHits
<1>2. at \in [1..m -> I]
  BY <1>1
<1>3. Kept(s, I) = [k \in 1..m |-> s[at[k]]]
  BY DEF Kept, Rank
<1>4. Kept(s, I) \in Seq(S) /\ Len(Kept(s, I)) = m /\ \A k \in 1..m : Kept(s, I)[k] = s[at[k]]
  <2> HIDE DEF at, m
  <2>1. \A k \in 1..m : s[at[k]] \in S
    <3> SUFFICES ASSUME NEW k \in 1..m PROVE s[at[k]] \in S
      OBVIOUS
    <3>1. at[k] \in 1..Len(s)
      BY <1>0, <1>2
    <3> QED
      BY <3>1
  <2>2. Kept(s, I) \in [1..m -> S]
    BY <1>3, <2>1
  <2> QED
    BY <1>0, <1>3, <2>2
<1>5. ASSUME NEW k \in 1..m, NEW l \in 1..m, k < l PROVE at[k] < at[l]
  <2>1. CASE at[l] < at[k]
    <3>1. Rank(I, at[l]) < Rank(I, at[k])
      BY <1>0, <1>1, <2>1, RankRises
    <3> QED
      BY <1>1, <1>5, <3>1
  <2>2. at[k] \in Nat /\ at[l] \in Nat /\ at[k] # at[l]
    <3> HIDE DEF at, m
    <3>1. at[k] \in I /\ at[l] \in I /\ Rank(I, at[k]) = k /\ Rank(I, at[l]) = l /\ k # l
      BY <1>0, <1>1, <1>5
    <3> QED
      BY <1>0, <3>1
  <2> QED
    BY <2>1, <2>2
<1>6. ASSUME NEW i \in I PROVE \E k \in 1..m : at[k] = i
  <2>1. Rank(I, i) \in 1..m
    BY <1>0, RankRises
  <2>2. PICK k \in 1..m : k = Rank(I, i)
    BY <2>1
  <2>3. Rank(I, at[k]) = Rank(I, i)
    BY <1>1, <2>2
  <2>4. at[k] \in I /\ i \in Nat /\ at[k] \in Nat
    BY <1>0, <1>1
  <2>5. at[k] < i => Rank(I, at[k]) < Rank(I, i)
    BY <1>0, <2>4, RankRises
  <2>6. i < at[k] => Rank(I, i) < Rank(I, at[k])
    BY <1>0, <2>4, RankRises
  <2>7. Rank(I, i) \in Nat
    BY <1>0, <2>1
  <2>8. at[k] = i
    BY <2>3, <2>4, <2>5, <2>6, <2>7
  <2> QED
    BY <2>8
<1> HIDE DEF at, m
<1>7. Enumerates(at, m, I)
  BY <1>0, <1>2, <1>5, <1>6 DEF Enumerates
<1>8. IsAt(Kept(s, I), s, m, at)
  BY <1>4 DEF IsAt
<1> QED
  BY <1>4, <1>7, <1>8 DEF m

LEMMA Smallest ==
  ASSUME NEW n \in Nat, NEW I \in SUBSET (1..n), I # {}
  PROVE  \E i \in I : \A j \in I : i <= j
<1>1. Cardinality(I) \in Nat /\ Cardinality(I) # 0
  BY RankRises, FS_EmptySet
<1>2. 1 \in 1..Cardinality(I)
  BY <1>1
<1>3. PICK i \in I : Rank(I, i) = 1
  BY <1>2, RankHits
<1>4. ASSUME NEW j \in I, ~(i <= j) PROVE FALSE
  <2>1. j < i
    BY <1>4
  <2>2. Rank(I, j) < Rank(I, i) /\ Rank(I, j) \in 1..Cardinality(I)
    BY <2>1, RankRises
  <2> QED
    BY <1>1, <1>3, <2>2
<1> QED
  BY <1>4

-----------------------------------------------------------------------------
(* WHAT AN APPEND INSERTS                                                  *)

(* The new frames of a batch are frames of it, no two with one key, in     *)
(* their order; the others have a key that is new as well, or stored.      *)
LEMMA NewFrames ==
  ASSUME NEW s \in Seq(Frame)
  PROVE  /\ New(s) \in Seq(Frame)
         /\ Range(New(s)) \subseteq Range(s)
         /\ DistinctIn(New(s))
         /\ \A f \in Range(s) : Covers(Range(New(s)) \cup Stored, f)
         /\ EndsDone(s) => EndsDone(New(s))
<1> DEFINE I == {i \in FirstPerKey(s) : s[i].key \notin StoredKeys}
           m == Cardinality(I)
<1>1. Len(s) \in Nat /\ I \in SUBSET (1..Len(s)) /\ New(s) = Kept(s, I)
  BY DEF FirstPerKey, New
<1>2. \A i \in I : /\ i \in 1..Len(s) /\ s[i].key \notin StoredKeys
                   /\ s[i].key = NoKey \/ \A j \in 1..(i-1) : s[j].key # s[i].key
  BY DEF FirstPerKey
<1>3. \A i \in 1..Len(s) : i \in FirstPerKey(s) /\ s[i].key \notin StoredKeys => i \in I
  OBVIOUS
<1> HIDE DEF I
<1>a. /\ Kept(s, I) \in Seq(Frame)
      /\ \E at : Enumerates(at, Cardinality(I), I) /\ IsAt(Kept(s, I), s, Cardinality(I), at)
  <2>1. I \in SUBSET (1..Len(s))
    BY <1>1
  <2> QED
    BY <2>1, KeptElements
<1>b. PICK at : Enumerates(at, m, I) /\ IsAt(New(s), s, m, at)
  BY <1>a, <1>1, Zenon
<1> HIDE DEF m
<1>4. /\ m \in Nat /\ New(s) \in Seq(Frame) /\ Len(New(s)) = m /\ at \in [1..m -> I]
      /\ \A k \in 1..m : New(s)[k] = s[at[k]]
      /\ \A i \in I : \E k \in 1..m : at[k] = i
      /\ \A k, l \in 1..m : k < l => at[k] < at[l]
  BY <1>a, <1>b, <1>1 DEF Enumerates, IsAt
<1>5. \A k \in 1..m : at[k] \in I /\ at[k] \in 1..Len(s) /\ at[k] \in Nat
  <2>1. \A i \in I : i \in 1..Len(s) /\ i \in Nat
    BY <1>1
  <2>2. \A k \in 1..m : at[k] \in I
    BY <1>4
  <2> QED
    BY <2>1, <2>2
<1>6. Range(New(s)) = {New(s)[k] : k \in 1..m} /\ Range(s) = {s[i] : i \in 1..Len(s)}
  BY <1>4 DEF Range
<1>7. Range(New(s)) \subseteq Range(s)
  BY <1>4, <1>5, <1>6
<1>8. DistinctIn(New(s))
  <2>1. ASSUME NEW k \in 1..m, NEW l \in 1..m, k < l,
               New(s)[k].key = New(s)[l].key, New(s)[k].key # NoKey
        PROVE  FALSE
    <3>1. s[at[k]].key = s[at[l]].key /\ s[at[l]].key # NoKey
      BY <1>4, <2>1
    <3>2. at[k] \in Nat /\ at[l] \in Nat /\ at[k] >= 1 /\ at[k] < at[l] /\ at[l] \in I
      BY <1>4, <1>5, <2>1
    <3>3. at[k] \in 1..(at[l] - 1)
      BY <3>2
    <3> QED
      BY <1>2, <3>1, <3>2, <3>3
  <2>2. \A k, l \in 1..m : k # l => k < l \/ l < k
    BY <1>4
  <2> QED
    BY <1>4, <2>1, <2>2 DEF DistinctIn
<1>9. ASSUME NEW f \in Range(s) PROVE Covers(Range(New(s)) \cup Stored, f)
  <2>1. PICK i \in 1..Len(s) : f = s[i]
    BY <1>6
  <2>2. \A j \in I : s[j] \in Range(New(s))
    BY <1>4, <1>6
  <2>3. CASE s[i].key = NoKey
    <3>1. i \in I
      BY <1>3, <2>3 DEF FirstPerKey, StoredKeys
    <3> QED
      BY <2>1, <2>2, <3>1 DEF Covers
  <2>4. CASE s[i].key # NoKey /\ s[i].key \in StoredKeys
    BY <2>1, <2>4 DEF StoredKeys, Stored, Covers
  <2>5. CASE s[i].key # NoKey /\ s[i].key \notin StoredKeys
    <3> DEFINE Same == {j \in 1..Len(s) : s[j].key = s[i].key}
    <3>1. PICK j \in Same : \A l \in Same : j <= l
      <4>1. Same \in SUBSET (1..Len(s)) /\ i \in Same
        OBVIOUS
      <4> HIDE DEF Same
      <4> QED
        BY <1>1, <4>1, Smallest
    <3>2. j \in 1..Len(s) /\ s[j].key = s[i].key
      OBVIOUS
    <3>3. \A l \in 1..(j-1) : s[l].key # s[j].key
      <4> SUFFICES ASSUME NEW l \in 1..(j-1), s[l].key = s[j].key PROVE FALSE
        OBVIOUS
      <4>1. l \in 1..Len(s) /\ l < j
        BY <1>1, <3>2
      <4>2. l \in Same
        BY <3>2, <4>1
      <4> QED
        BY <1>1, <3>1, <3>2, <4>1, <4>2
    <3>4. j \in I
      BY <1>3, <2>5, <3>2, <3>3 DEF FirstPerKey
    <3> QED
      BY <2>1, <2>2, <2>5, <3>2, <3>4 DEF Covers
  <2> QED
    BY <2>3, <2>4, <2>5
<1>10. ASSUME EndsDone(s) PROVE EndsDone(New(s))
  <2> SUFFICES ASSUME NEW k \in 1..m, New(s)[k].key = DoneKey, k # m PROVE FALSE
    BY <1>4 DEF EndsDone
  <2>1. m \in 1..m /\ k < m
    BY <1>4
  <2>2. at[k] = Len(s) /\ at[k] < at[m] /\ at[m] \in 1..Len(s)
    BY <1>4, <1>5, <1>10, <2>1 DEF EndsDone
  <2> QED
    BY <1>1, <2>2
<1> QED
  BY <1>4, <1>7, <1>8, <1>9, <1>10

-----------------------------------------------------------------------------
(* WHAT APPENDS DO TO THE STORE                                            *)

LEMMA FreeIsNobody == \A c \in Writers : c # Free
BY DEF Writers, Free

LEMMA Empties ==
  /\ <<>> \in Seq(Frame) /\ Len(<<>>) = 0 /\ Range(<<>>) = {}
  /\ DistinctIn(<<>>) /\ EndsDone(<<>>)
  /\ \A s \in Seq(Frame) : Len(s) \in Nat /\ (Len(s) = 0 <=> s = <<>>)
BY DEF Range, DistinctIn, EndsDone

LEMMA CoversMore ==
  ASSUME NEW S, NEW T, S \subseteq T, NEW f, Covers(S, f)
  PROVE  Covers(T, f)
BY DEF Covers

(* The log has grown, or is what it was; so have the visible numbers.      *)
Grows == log \subseteq log' /\ Length <= Length'

(* Appends that go away, and the transactions they had open.               *)
LEMMA BackOut ==
  ASSUME LogInv, NEW C \in SUBSET Writers, Rollback(C), Leave(C)
  PROVE  LogInv' /\ Grows
<1>1. LogTypeOK' /\ Length' = Length /\ log' = log
  <2>1. log' = log /\ lock' \in Writers \cup {Free}
    BY DEF LogInv, LogTypeOK, Rollback
  <2>2. Length' = Length /\ eventSeq' \in Nat
    <3>1. CASE lock \in C
      BY <3>1, FreeIsNobody DEF LogInv, LogTypeOK, Rollback, Length, Numbering
    <3>2. CASE lock \notin C
      <4>1. lock # Free => first'[lock] = first[lock]
        BY <3>2 DEF LogInv, LogTypeOK, Leave
      <4> QED
        BY <3>2, <4>1 DEF LogInv, LogTypeOK, Rollback, Length, Numbering
    <3> QED
      BY <3>1, <3>2
  <2>3. /\ batch' \in [Writers -> Seq(Frame)] /\ todo' \in [Writers -> Seq(Frame)]
        /\ first' \in [Writers -> Nat] /\ retried' \in [Writers -> BOOLEAN]
        /\ step' \in [Writers -> {"idle"} \cup InTx]
    BY Empties DEF LogInv, LogTypeOK, Leave
  <2> QED
    BY <2>1, <2>2, <2>3 DEF LogInv, LogTypeOK
<1>2. Locked'
  <2> SUFFICES ASSUME NEW c \in Writers PROVE step'[c] = "numbered" <=> lock' = c
    BY DEF Locked
  <2>1. (step[c] = "numbered" <=> lock = c) /\ c # Free
    BY FreeIsNobody DEF LogInv, Locked
  <2>2. CASE c \in C
    BY <2>1, <2>2 DEF Rollback, Leave
  <2>3. CASE c \notin C
    BY <2>1, <2>3 DEF Rollback, Leave
  <2> QED
    BY <2>2, <2>3
<1>3. Numbering'
  <2>1. lock' # Free => lock' = lock /\ lock \in Writers /\ lock \notin C
    BY FreeIsNobody DEF LogInv, LogTypeOK, Rollback
  <2>2. lock' # Free => eventSeq' = eventSeq /\ todo'[lock'] = todo[lock]
    BY <2>1 DEF Rollback, Leave
  <2>3. lock' # Free => eventSeq' = Length' + Len(todo'[lock'])
    BY <1>1, <2>1, <2>2 DEF LogInv, Numbering
  <2> QED
    BY <1>1, <2>3 DEF LogInv, Numbering
<1>4. OncePerKey'
  BY <1>1 DEF LogInv, OncePerKey
<1>5. Chosen'
  <2> SUFFICES ASSUME NEW c \in Writers
               PROVE  /\ DistinctIn(todo'[c])
                      /\ Range(todo'[c]) \subseteq Range(batch'[c])
                      /\ step'[c] = "idle" => batch'[c] = <<>>
                      /\ step'[c] \in {"checked", "numbered"} =>
                           \A f \in Range(batch'[c]) : Covers(Range(todo'[c]) \cup Stored', f)
    BY DEF Chosen
  <2>1. CASE c \in C
    BY <2>1, Empties DEF Leave
  <2>2. CASE c \notin C
    <3>1. todo'[c] = todo[c] /\ batch'[c] = batch[c] /\ step'[c] = step[c] /\ Stored' = Stored
      BY <1>1, <2>2 DEF Leave, Stored
    <3> QED
      BY <3>1 DEF LogInv, Chosen
  <2> QED
    BY <2>1, <2>2
<1> QED
  BY <1>1, <1>2, <1>3, <1>4, <1>5 DEF LogInv, Grows, Numbering

LEMMA Offset ==
  ASSUME NEW a \in Nat, NEW n \in Nat, NEW k \in a..(a - 1 + n)
  PROVE  \E i \in 1..n : k = a + i - 1
<1>1. k - a + 1 \in 1..n /\ k = a + (k - a + 1) - 1
  OBVIOUS
<1> QED
  BY <1>1

(* The rows of a transaction: its frames, numbered from first_seq.         *)
LEMMA RowsAre ==
  ASSUME LogInv, NEW c \in Writers, step[c] = "numbered"
  PROVE  /\ lock = c /\ first[c] \in Nat /\ eventSeq \in Nat /\ Length = first[c] - 1
         /\ eventSeq = first[c] - 1 + Len(todo[c]) /\ Len(todo[c]) \in Nat /\ first[c] >= 1
         /\ Rows(c) \subseteq [seq : Nat, frame : Frame]
         /\ {e.seq : e \in Rows(c)} = first[c]..eventSeq
         /\ \A e \in Rows(c) : \E i \in 1..Len(todo[c]) :
              e.seq = first[c] + i - 1 /\ e.frame = todo[c][i]
         /\ {e.frame : e \in Rows(c)} = Range(todo[c])
<1>1. /\ lock = c /\ first[c] \in Nat /\ eventSeq \in Nat /\ Length = first[c] - 1
      /\ todo[c] \in Seq(Frame) /\ Len(todo[c]) \in Nat
  BY FreeIsNobody DEF LogInv, LogTypeOK, Locked, Length
<1>2. eventSeq = first[c] - 1 + Len(todo[c]) /\ first[c] >= 1
  BY <1>1, FreeIsNobody DEF LogInv, Numbering
<1> DEFINE n == Len(todo[c])
           Row(i) == [seq |-> first[c] + i - 1, frame |-> todo[c][i]]
<1>3. Rows(c) = {Row(i) : i \in 1..n}
  BY DEF Rows
<1>4. \A i \in 1..n : Row(i) \in [seq : Nat, frame : Frame]
  <2>1. \A i \in 1..n : todo[c][i] \in Frame /\ first[c] + i - 1 \in Nat
    BY <1>1, <1>2
  <2> QED
    BY <2>1
<1>5. \A i \in 1..n : Row(i).seq = first[c] + i - 1 /\ Row(i).frame = todo[c][i]
  OBVIOUS
<1> HIDE DEF Row
<1>6. {e.seq : e \in Rows(c)} = first[c]..eventSeq
  <2>1. \A e \in Rows(c) : e.seq \in first[c]..eventSeq
    BY <1>1, <1>2, <1>3, <1>5
  <2>2. ASSUME NEW k \in first[c]..eventSeq PROVE \E e \in Rows(c) : e.seq = k
    <3>2. PICK i \in 1..n : k = first[c] + i - 1
      BY <1>1, <1>2, Offset
    <3>3. Row(i) \in Rows(c) /\ Row(i).seq = k
      BY <1>3, <1>5, <3>2
    <3> QED
      BY <3>3
  <2> QED
    BY <2>1, <2>2
<1>7. {e.frame : e \in Rows(c)} = Range(todo[c])
  <2>1. Range(todo[c]) = {todo[c][i] : i \in 1..n}
    BY <1>1 DEF Range
  <2> QED
    BY <1>3, <1>5, <2>1
<1> QED
  BY <1>1, <1>2, <1>3, <1>4, <1>5, <1>6, <1>7

(* A commit: the rows that become visible continue the sequence, and none  *)
(* of their keys was there.                                                *)
LEMMA CommitKeeps ==
  ASSUME LogInv, NEW c \in Writers, Commits(c), Leave({c})
  PROVE  /\ LogInv' /\ Grows
         /\ Stored' = Stored \cup Range(todo[c])
         /\ \A e \in log' : e \in log \/ e \in Rows(c)
<1>1. /\ step[c] = "numbered" /\ ~Clashes(c) /\ log' = log \cup Rows(c)
      /\ lock' = Free /\ eventSeq' = eventSeq
  BY DEF Commits
<1>2. /\ lock = c /\ first[c] \in Nat /\ eventSeq \in Nat /\ Length = first[c] - 1
      /\ eventSeq = first[c] - 1 + Len(todo[c]) /\ Len(todo[c]) \in Nat /\ first[c] >= 1
      /\ Rows(c) \subseteq [seq : Nat, frame : Frame]
      /\ {e.seq : e \in Rows(c)} = first[c]..eventSeq
      /\ {e.frame : e \in Rows(c)} = Range(todo[c])
  BY <1>1, RowsAre
<1>3. \A e \in Rows(c) : \E i \in 1..Len(todo[c]) :
        e.seq = first[c] + i - 1 /\ e.frame = todo[c][i]
  BY <1>1, RowsAre
<1>4. Length' = eventSeq /\ Length' \in Nat /\ Length <= Length'
  BY <1>1, <1>2 DEF Length
<1>5. {e.seq : e \in log} = 1..Length /\ \A d, e \in log : d.seq = e.seq => d = e
  BY DEF LogInv, Numbering
<1>6. LogTypeOK'
  <2>1. /\ batch' \in [Writers -> Seq(Frame)] /\ todo' \in [Writers -> Seq(Frame)]
        /\ first' \in [Writers -> Nat] /\ retried' \in [Writers -> BOOLEAN]
        /\ step' \in [Writers -> {"idle"} \cup InTx]
    BY Empties DEF LogInv, LogTypeOK, Leave
  <2>2. log' \in SUBSET [seq : Nat, frame : Frame]
    BY <1>1, <1>2 DEF LogInv, LogTypeOK
  <2> QED
    BY <1>1, <1>2, <2>1, <2>2 DEF LogTypeOK
<1>7. Locked'
  <2> SUFFICES ASSUME NEW d \in Writers PROVE step'[d] = "numbered" <=> lock' = d
    BY DEF Locked
  <2>1. (step[d] = "numbered" <=> lock = d) /\ d # Free
    BY FreeIsNobody DEF LogInv, Locked
  <2> QED
    BY <1>1, <1>2, <2>1 DEF Leave
<1>8. Numbering'
  <2>1. {e.seq : e \in log'} = {e.seq : e \in log} \cup {e.seq : e \in Rows(c)}
    BY <1>1
  <2>2. 1..(first[c] - 1) \cup first[c]..eventSeq = 1..eventSeq
    BY <1>2
  <2>3. {e.seq : e \in log'} = 1..Length'
    BY <1>2, <1>4, <1>5, <2>1, <2>2
  <2>4. ASSUME NEW d \in log, NEW e \in Rows(c) PROVE d.seq # e.seq
    <3>1. d.seq \in 1..Length /\ e.seq \in first[c]..eventSeq
      BY <1>2, <1>5
    <3> QED
      BY <1>2, <3>1
  <2>5. ASSUME NEW d \in Rows(c), NEW e \in Rows(c), d.seq = e.seq PROVE d = e
    <3>1. PICK i \in 1..Len(todo[c]) : d.seq = first[c] + i - 1 /\ d.frame = todo[c][i]
      BY <1>3
    <3>2. PICK j \in 1..Len(todo[c]) : e.seq = first[c] + j - 1 /\ e.frame = todo[c][j]
      BY <1>3
    <3>3. i = j
      <4>1. i \in Int /\ j \in Int /\ first[c] \in Int
        BY <1>2
      <4>2. first[c] + i - 1 = first[c] + j - 1
        BY <2>5, <3>1, <3>2
      <4> QED
        BY <4>1, <4>2
    <3>4. d \in [seq : Nat, frame : Frame] /\ e \in [seq : Nat, frame : Frame]
      BY <1>2
    <3> QED
      BY <2>5, <3>1, <3>2, <3>3, <3>4
  <2>6. \A d, e \in log' : d.seq = e.seq => d = e
    BY <1>1, <1>5, <2>4, <2>5
  <2> QED
    BY <1>1, <1>4, <2>3, <2>6 DEF Numbering
<1>9. OncePerKey'
  <2>1. ASSUME NEW d \in log, NEW e \in Rows(c), d.frame.key = e.frame.key, d.frame.key # NoKey
        PROVE  FALSE
    <3>1. d.frame.key \in StoredKeys
      BY <2>1 DEF StoredKeys
    <3> QED
      BY <1>1, <1>3, <2>1, <3>1 DEF Clashes
  <2>2. ASSUME NEW d \in Rows(c), NEW e \in Rows(c),
               d.frame.key = e.frame.key, d.frame.key # NoKey
        PROVE  d = e
    <3>1. PICK i \in 1..Len(todo[c]) : d.seq = first[c] + i - 1 /\ d.frame = todo[c][i]
      BY <1>3
    <3>2. PICK j \in 1..Len(todo[c]) : e.seq = first[c] + j - 1 /\ e.frame = todo[c][j]
      BY <1>3
    <3>3. i = j
      BY <2>2, <3>1, <3>2 DEF LogInv, Chosen, DistinctIn
    <3>4. d \in [seq : Nat, frame : Frame] /\ e \in [seq : Nat, frame : Frame]
      BY <1>2
    <3> QED
      BY <3>1, <3>2, <3>3, <3>4
  <2>3. \A d, e \in log : d.frame.key = e.frame.key /\ d.frame.key # NoKey => d = e
    BY DEF LogInv, OncePerKey
  <2> QED
    BY <1>1, <2>1, <2>2, <2>3 DEF OncePerKey
<1>10. Stored' = Stored \cup Range(todo[c])
  BY <1>1, <1>2 DEF Stored
<1>11. Chosen'
  <2> SUFFICES ASSUME NEW d \in Writers
               PROVE  /\ DistinctIn(todo'[d])
                      /\ Range(todo'[d]) \subseteq Range(batch'[d])
                      /\ step'[d] = "idle" => batch'[d] = <<>>
                      /\ step'[d] \in {"checked", "numbered"} =>
                           \A f \in Range(batch'[d]) : Covers(Range(todo'[d]) \cup Stored', f)
    BY DEF Chosen
  <2>1. CASE d = c
    BY <2>1, Empties DEF Leave
  <2>2. CASE d # c
    <3>1. todo'[d] = todo[d] /\ batch'[d] = batch[d] /\ step'[d] = step[d]
      BY <2>2 DEF Leave
    <3>2. Range(todo[d]) \cup Stored \subseteq Range(todo[d]) \cup Stored'
      BY <1>10
    <3> QED
      BY <3>1, <3>2, CoversMore DEF LogInv, Chosen
  <2> QED
    BY <2>1, <2>2
<1> QED
  BY <1>1, <1>4, <1>6, <1>7, <1>8, <1>9, <1>10, <1>11 DEF LogInv, Grows

(* A read of what is stored already chooses what to insert.                *)
LEMMA ReadKeeps ==
  ASSUME LogInv, NEW c \in Writers, NEW s \in Seq(Frame),
         step[c] \in {"idle", "checking"},
         step' = [step EXCEPT ![c] = "checked"],
         batch' = [batch EXCEPT ![c] = s], todo' = [todo EXCEPT ![c] = New(s)],
         UNCHANGED <<storeVars, first, retried>>
  PROVE  LogInv' /\ Grows
<1>1. UNCHANGED <<log, eventSeq, lock, first, retried>>
  BY DEF storeVars
<1>2. /\ New(s) \in Seq(Frame) /\ DistinctIn(New(s)) /\ Range(New(s)) \subseteq Range(s)
      /\ \A f \in Range(s) : Covers(Range(New(s)) \cup Stored, f)
  BY NewFrames
<1>3. lock # c
  BY DEF LogInv, Locked
<1>4. LogTypeOK'
  <2>1. /\ batch' \in [Writers -> Seq(Frame)] /\ todo' \in [Writers -> Seq(Frame)]
        /\ step' \in [Writers -> {"idle"} \cup InTx]
    BY <1>2 DEF LogInv, LogTypeOK, InTx
  <2> QED
    BY <1>1, <2>1 DEF LogInv, LogTypeOK
<1>5. Locked'
  BY <1>1, <1>3 DEF LogInv, LogTypeOK, Locked
<1>6. Length' = Length
  BY <1>1 DEF Length
<1>7. Numbering'
  <2>1. lock # Free => todo'[lock] = todo[lock]
    BY <1>3 DEF LogInv, LogTypeOK
  <2> QED
    BY <1>1, <1>6, <2>1 DEF LogInv, Numbering
<1>8. OncePerKey'
  BY <1>1 DEF LogInv, OncePerKey
<1>9. Chosen'
  <2> SUFFICES ASSUME NEW d \in Writers
               PROVE  /\ DistinctIn(todo'[d])
                      /\ Range(todo'[d]) \subseteq Range(batch'[d])
                      /\ step'[d] = "idle" => batch'[d] = <<>>
                      /\ step'[d] \in {"checked", "numbered"} =>
                           \A f \in Range(batch'[d]) : Covers(Range(todo'[d]) \cup Stored', f)
    BY DEF Chosen
  <2>0. Stored' = Stored
    BY <1>1 DEF Stored
  <2>1. CASE d = c
    <3>1. todo'[d] = New(s) /\ batch'[d] = s /\ step'[d] = "checked"
      BY <2>1 DEF LogInv, LogTypeOK
    <3> QED
      BY <1>2, <2>0, <3>1
  <2>2. CASE d # c
    <3>1. todo'[d] = todo[d] /\ batch'[d] = batch[d] /\ step'[d] = step[d]
      BY <2>2 DEF LogInv, LogTypeOK
    <3> QED
      BY <2>0, <3>1 DEF LogInv, Chosen
  <2> QED
    BY <2>1, <2>2
<1> QED
  BY <1>1, <1>4, <1>5, <1>6, <1>7, <1>8, <1>9 DEF LogInv, Grows, Numbering

LEMMA SameLog ==
  ASSUME LogInv, UNCHANGED logVars
  PROVE  LogInv' /\ Grows /\ Length' = Length
BY DEF logVars, storeVars, txVars, LogInv, LogTypeOK, Locked, Numbering, OncePerKey, Chosen,
       Stored, Covers, Length, Grows

LEMMA BeginKeeps ==
  ASSUME LogInv, NEW c \in Writers, NEW s \in Seq(Frame), BeginAppend(c, s)
  PROVE  LogInv' /\ Grows
<1>1. CASE New(s) = <<>>
  <2>1. UNCHANGED logVars
    BY <1>1 DEF BeginAppend, logVars
  <2> QED
    BY <2>1, SameLog
<1>2. CASE New(s) # <<>>
  <2>1. /\ step[c] \in {"idle", "checking"}
        /\ step' = [step EXCEPT ![c] = "checked"]
        /\ batch' = [batch EXCEPT ![c] = s] /\ todo' = [todo EXCEPT ![c] = New(s)]
        /\ UNCHANGED <<storeVars, first, retried>>
    BY <1>2 DEF BeginAppend, Goes
  <2> QED
    BY <2>1, ReadKeeps
<1> QED
  BY <1>1, <1>2

LEMMA DropKeeps ==
  ASSUME LogInv, NEW c \in Writers, DropStored(c)
  PROVE  LogInv' /\ Grows
<1>0. step[c] = "checking" /\ UNCHANGED storeVars /\ lock # c
  BY DEF DropStored, LogInv, Locked
<1>1. CASE New(batch[c]) = <<>>
  <2>1. Rollback({c}) /\ Leave({c}) /\ {c} \in SUBSET Writers
    BY <1>0, <1>1 DEF DropStored, Rollback, storeVars
  <2> QED
    BY <2>1, BackOut
<1>2. CASE New(batch[c]) # <<>>
  <2>1. batch[c] \in Seq(Frame) /\ batch = [batch EXCEPT ![c] = batch[c]]
    BY DEF LogInv, LogTypeOK
  <2>2. /\ step[c] \in {"idle", "checking"}
        /\ step' = [step EXCEPT ![c] = "checked"]
        /\ batch' = [batch EXCEPT ![c] = batch[c]] /\ todo' = [todo EXCEPT ![c] = New(batch[c])]
        /\ UNCHANGED <<storeVars, first, retried>>
    BY <1>2, <2>1 DEF DropStored, Goes
  <2> QED
    BY <2>1, <2>2, ReadKeeps
<1> QED
  BY <1>1, <1>2

LEMMA NumberKeeps ==
  ASSUME LogInv, NEW c \in Writers, Number(c)
  PROVE  LogInv' /\ Grows
<1>1. /\ step[c] = "checked" /\ lock = Free /\ lock' = c /\ c # Free
      /\ eventSeq' = eventSeq + Len(todo[c])
      /\ first' = [first EXCEPT ![c] = eventSeq + 1]
      /\ step' = [step EXCEPT ![c] = "numbered"]
      /\ UNCHANGED <<log, batch, todo, retried>>
  BY FreeIsNobody DEF Number, Goes
<1>2. eventSeq \in Nat /\ todo[c] \in Seq(Frame) /\ Len(todo[c]) \in Nat
  BY DEF LogInv, LogTypeOK
<1>3. first' \in [Writers -> Nat] /\ first'[c] = eventSeq + 1
  BY <1>1, <1>2 DEF LogInv, LogTypeOK
<1>4. LogTypeOK'
  <2>1. step' \in [Writers -> {"idle"} \cup InTx]
    BY <1>1 DEF LogInv, LogTypeOK, InTx
  <2>2. eventSeq' \in Nat
    BY <1>1, <1>2
  <2> QED
    BY <1>1, <1>3, <2>1, <2>2 DEF LogInv, LogTypeOK
<1>5. Length' = Length /\ Length = eventSeq
  BY <1>1, <1>2, <1>3 DEF Length
<1>6. Locked'
  BY <1>1, FreeIsNobody DEF LogInv, LogTypeOK, Locked
<1>7. Numbering'
  BY <1>1, <1>5 DEF LogInv, Numbering
<1>8. OncePerKey'
  BY <1>1 DEF LogInv, OncePerKey
<1>9. Chosen'
  <2>1. \A d \in Writers : step'[d] = step[d] \/ (step[d] = "checked" /\ step'[d] = "numbered")
    BY <1>1 DEF LogInv, LogTypeOK
  <2>2. Stored' = Stored
    BY <1>1 DEF Stored
  <2> QED
    BY <1>1, <2>1, <2>2 DEF LogInv, Chosen
<1> QED
  BY <1>1, <1>4, <1>5, <1>6, <1>7, <1>8, <1>9 DEF LogInv, Grows, Numbering

LEMMA ClashKeeps ==
  ASSUME LogInv, NEW c \in Writers, Clash(c)
  PROVE  LogInv' /\ Grows
<1>1. /\ step[c] = "numbered" /\ log' = log /\ lock = c /\ c # Free
      /\ lock' = Free /\ eventSeq' = first[c] - 1
      /\ step' = [step EXCEPT ![c] = "checking"]
      /\ retried' = [retried EXCEPT ![c] = TRUE]
      /\ UNCHANGED <<batch, todo, first>>
  BY FreeIsNobody DEF Clash, Goes, Rollback, LogInv, Locked
<1>2. Length' = Length /\ eventSeq' = Length
  BY <1>1 DEF Length
<1>3. LogTypeOK'
  <2>1. step' \in [Writers -> {"idle"} \cup InTx] /\ retried' \in [Writers -> BOOLEAN]
    BY <1>1 DEF LogInv, LogTypeOK, InTx
  <2>2. eventSeq' \in Nat
    BY <1>2 DEF LogInv, Numbering
  <2> QED
    BY <1>1, <2>1, <2>2 DEF LogInv, LogTypeOK
<1>4. Locked'
  BY <1>1, FreeIsNobody DEF LogInv, LogTypeOK, Locked
<1>5. Numbering'
  BY <1>1, <1>2 DEF LogInv, Numbering
<1>6. OncePerKey'
  BY <1>1 DEF LogInv, OncePerKey
<1>7. Chosen'
  <2>1. \A d \in Writers : step'[d] = IF d = c THEN "checking" ELSE step[d]
    BY <1>1 DEF LogInv, LogTypeOK
  <2>2. Stored' = Stored
    BY <1>1 DEF Stored
  <2>3. \A d \in Writers : step'[d] \in {"idle", "checked", "numbered"} => step'[d] = step[d]
    BY <2>1
  <2>4. \A d \in Writers : todo'[d] = todo[d] /\ batch'[d] = batch[d]
    BY <1>1
  <2> QED
    BY <2>2, <2>3, <2>4 DEF LogInv, Chosen
<1> QED
  BY <1>1, <1>2, <1>3, <1>4, <1>5, <1>6, <1>7 DEF LogInv, Grows, Numbering

(* Every step of a writer, and every loss of some of them.                 *)
LogStep ==
  \/ \E c \in Writers : \/ \E s \in Seq(Frame) : BeginAppend(c, s)
                        \/ StoreStep(c) \/ AppendRaises(c)
  \/ \E C \in SUBSET Writers : Abandon(C)
  \/ UNCHANGED logVars

LEMMA LogStepKeeps == LogInv /\ LogStep => LogInv' /\ Grows
<1> SUFFICES ASSUME LogInv, LogStep PROVE LogInv' /\ Grows
  OBVIOUS
<1>1. ASSUME NEW c \in Writers, NEW s \in Seq(Frame), BeginAppend(c, s) PROVE LogInv' /\ Grows
  BY <1>1, BeginKeeps
<1>2. ASSUME NEW c \in Writers, StoreStep(c) PROVE LogInv' /\ Grows
  BY <1>2, DropKeeps, NumberKeeps, CommitKeeps, ClashKeeps DEF StoreStep, Commit
<1>3. ASSUME NEW c \in Writers, AppendRaises(c) PROVE LogInv' /\ Grows
  <2>1. {c} \in SUBSET Writers
    OBVIOUS
  <2>2. CASE Rollback({c})
    BY <1>3, <2>1, <2>2, BackOut DEF AppendRaises
  <2>3. CASE Commits(c)
    BY <1>3, <2>3, CommitKeeps DEF AppendRaises
  <2> QED
    BY <1>3, <2>2, <2>3 DEF AppendRaises
<1>4. ASSUME NEW C \in SUBSET Writers, Abandon(C) PROVE LogInv' /\ Grows
  BY <1>4, BackOut DEF Abandon
<1>5. CASE UNCHANGED logVars
  BY <1>5, SameLog
<1> QED
  BY <1>1, <1>2, <1>3, <1>4, <1>5 DEF LogStep

LEMMA LogInitOK == LogInit => LogInv
<1> SUFFICES ASSUME LogInit PROVE LogInv
  OBVIOUS
<1>1. LogTypeOK
  BY Empties DEF LogInit, LogTypeOK
<1>2. Locked
  BY FreeIsNobody DEF LogInit, Locked
<1>3. Numbering
  BY DEF LogInit, Numbering, Length
<1>4. OncePerKey /\ Chosen
  BY Empties DEF LogInit, OncePerKey, Chosen
<1> QED
  BY <1>1, <1>2, <1>3, <1>4 DEF LogInv

-----------------------------------------------------------------------------
(* THE ROW                                                                 *)

RowMoves ==
  \/ UNCHANGED rowVars
  \/ Insert(run) \/ Answer(run) \/ RequestCancel(run)
  \/ SettleCancelled(run) \/ SettleExhausted(run)
  \/ \E w \in Workers :
       \/ Claim(run, w) \/ PersistAwaiting(run, w, token[w]) \/ ReleaseRow(run, w, token[w])
       \/ \E s \in Terminal, why \in {"engine", "user_cancelled"} :
            Persist(run, w, token[w], s, why)

LEMMA NextMovesRow == [Next]_vars => RowMoves
<1> SUFFICES ASSUME [Next]_vars PROVE RowMoves
  OBVIOUS
<1>1. CASE UNCHANGED vars
  BY <1>1 DEF vars, RowMoves
<1>2. CASE Announcing \/ Exhaust
  BY <1>2 DEF Announcing, Create, ResumeWithInput, Cancel, Exhaust, RowMoves
<1>3. ASSUME NEW w \in Workers, Working(w) PROVE RowMoves
  <2>1. CASE ClaimRun(w) \/ SettleFromDelivery(w) \/ Headline(w) \/ AwaitInput(w)
             \/ Interrupt(w) \/ Release(w) \/ FlusherStopped(w)
    BY <2>1 DEF ClaimRun, SettleFromDelivery, Headline, AwaitInput, Interrupt, Release,
                FlusherStopped, RowMoves
  <2>2. ASSUME NEW k \in Keys, Emit(w, k) PROVE RowMoves
    BY <2>2 DEF Emit, RowMoves
  <2>3. ASSUME NEW s \in Terminal, Conclude(w, s) PROVE RowMoves
    BY <2>3 DEF Conclude, RowMoves
  <2> QED
    BY <1>3, <2>1, <2>2, <2>3 DEF Working
<1>4. ASSUME NEW c \in Writers, FlushStep(c) PROVE RowMoves
  BY <1>4 DEF FlushStep, Take, AppendStep, FlushReturns, FlushFails, FlushCancelled, RowMoves
<1>5. ASSUME NEW p \in Procs, Evict(p) \/ Crash(p) PROVE RowMoves
  BY <1>5 DEF Evict, Crash, RowMoves
<1>6. ASSUME NEW i \in Readers, Streaming(i) \/ Disconnect(i) PROVE RowMoves
  BY <1>6 DEF Streaming, Connect, ReadTail, ReadAgain, ReadStatus, Disconnect, RowMoves
<1> QED
  BY <1>1, <1>2, <1>3, <1>4, <1>5, <1>6 DEF Next

(* Nothing here reopens a run: a terminal status stays.                    *)
LEMMA RowKeeps ==
  ASSUME RowTypeOK, RowMoves
  PROVE  RowTypeOK' /\ (status[run] \in Terminal => status'[run] = status[run])
<1>0. run \in Runs
  BY OneRun
<1> USE <1>0 DEF RowTypeOK, Terminal, Outstanding, Reasons, Exhausted
<1>1. CASE UNCHANGED rowVars
  BY <1>1 DEF rowVars
<1>2. CASE Insert(run)
  BY <1>2 DEF Insert
<1>3. CASE Answer(run)
  BY <1>3 DEF Answer, Answerable
<1>4. CASE RequestCancel(run)
  BY <1>4 DEF RequestCancel
<1>5. CASE SettleCancelled(run) \/ SettleExhausted(run)
  BY <1>5 DEF SettleCancelled, SettleExhausted, WriteTerminal, CancelSettles, ExhaustHits,
              CancelPending, CancelRunning, Exhaustible
<1>6. ASSUME NEW w \in Workers, Claim(run, w)
      PROVE  RowTypeOK' /\ (status[run] \in Terminal => status'[run] = status[run])
  BY <1>6 DEF Claim, Claimable, Startable, Takeover
<1>7. ASSUME NEW w \in Workers, PersistAwaiting(run, w, token[w]) \/ ReleaseRow(run, w, token[w])
      PROVE  RowTypeOK' /\ (status[run] \in Terminal => status'[run] = status[run])
  BY <1>7 DEF PersistAwaiting, ReleaseRow, Owned
<1>8. ASSUME NEW w \in Workers, NEW s \in Terminal,
             NEW why \in {"engine", "user_cancelled"}, Persist(run, w, token[w], s, why)
      PROVE  RowTypeOK' /\ (status[run] \in Terminal => status'[run] = status[run])
  BY <1>8 DEF Persist, WriteTerminal, Owned
<1> QED
  BY <1>1, <1>2, <1>3, <1>4, <1>5, <1>6, <1>7, <1>8 DEF RowMoves

-----------------------------------------------------------------------------
(* WHAT THE BUFFERS GO THROUGH                                             *)

BufferTypeOK ==
  /\ open    \in [Procs -> BOOLEAN]
  /\ pending \in [Procs -> Seq(Frame)]
  /\ sent    \in [Procs -> SUBSET Frame]
  /\ made    \in [Procs -> Nat]

Words == (Keys \cup {NoKey, DoneKey}) \X ({"none"} \cup Terminal)

(* Process p accepts the frames fs after q.                                *)
Accepts(p, q, fs) ==
  /\ fs \in Seq(Frame) /\ \A f \in Range(fs) : f.by = p
  /\ pending' = [pending EXCEPT ![p] = q \o fs]
  /\ sent'    = [sent EXCEPT ![p] = sent[p] \cup Range(fs)]
  /\ open'    = [open EXCEPT ![p] = TRUE]
  /\ made'    = [made EXCEPT ![p] = made[p] + Len(fs)]

(* fs says of itself what ws says.                                         *)
Wording(fs, ws) ==
  Len(fs) = Len(ws) /\ \A i \in 1..Len(ws) : fs[i].key = ws[i][1] /\ fs[i].says = ws[i][2]

LEMMA WriteEffect ==
  ASSUME BufferTypeOK, NEW p \in Procs, NEW q \in Seq(Frame), NEW ws \in Seq(Words),
         OpenAndWriteAfter(p, q, ws)
  PROVE  \E fs \in Seq(Frame) : Accepts(p, q, fs) /\ Wording(fs, ws)
<1> DEFINE Made(i) == [by |-> p, n |-> made[p] + i, key |-> ws[i][1], says |-> ws[i][2]]
           fs == [i \in 1..Len(ws) |-> Made(i)]
<1>1. Len(ws) \in Nat /\ made[p] \in Nat
  BY DEF BufferTypeOK
<1>2. ASSUME NEW i \in 1..Len(ws) PROVE Made(i) \in Frame
  <2>1. ws[i] \in Words
    BY <1>2
  <2>2. ws[i][1] \in Keys \cup {NoKey, DoneKey} /\ ws[i][2] \in {"none"} \cup Terminal
    BY <2>1 DEF Words
  <2>3. made[p] + i \in Nat
    BY <1>1
  <2> QED
    BY <2>2, <2>3 DEF Frame, Terminal
<1>3. /\ pending' = [pending EXCEPT ![p] = q \o fs]
      /\ sent'    = [sent EXCEPT ![p] = sent[p] \cup Range(fs)]
      /\ open'    = [open EXCEPT ![p] = TRUE]
      /\ made'    = [made EXCEPT ![p] = made[p] + Len(ws)]
  BY DEF OpenAndWriteAfter
<1>4. \A i \in 1..Len(ws) : Made(i).by = p /\ Made(i).key = ws[i][1] /\ Made(i).says = ws[i][2]
  OBVIOUS
<1> HIDE DEF Made
<1>5. fs \in Seq(Frame) /\ Len(fs) = Len(ws) /\ Range(fs) = {Made(i) : i \in 1..Len(ws)}
      /\ \A i \in 1..Len(ws) : fs[i] = Made(i)
  BY <1>1, <1>2 DEF Range
<1> HIDE DEF fs
<1>6. made' = [made EXCEPT ![p] = made[p] + Len(fs)]
  BY <1>3, <1>5
<1>7. Accepts(p, q, fs)
  BY <1>3, <1>4, <1>5, <1>6 DEF Accepts
<1>8. Wording(fs, ws)
  BY <1>4, <1>5 DEF Wording
<1> QED
  BY <1>5, <1>7, <1>8

TaskTypeOK ==
  /\ pc      \in [Writers -> {"off", "cancelled", "stopping"} \cup FlushPcs \cup GraphPcs]
  /\ token   \in [Workers -> Nat]
  /\ written \in [Workers -> {"none"} \cup Terminal]
  /\ lost    \in [Workers -> BOOLEAN]
  /\ titled  \in BOOLEAN

(* The outcome a worker has written is that of the row.                    *)
OutcomeKnown ==
  \A w \in Workers : written[w] # "none" =>
    status[run] \in Terminal /\ written[w] = status[run]

(* A done frame that is accepted tells what the row says then.             *)
TellsRow(key, says) == key = DoneKey => status'[run] \in Terminal /\ says = status'[run]
Truthful(fs) == \A f \in Range(fs) : TellsRow(f.key, f.says)

QuietStep  == UNCHANGED logVars /\ UNCHANGED bufferVars
AcceptStep == UNCHANGED logVars /\ \E p \in Procs, fs \in Seq(Frame) :
                                     Accepts(p, pending[p], fs) /\ Truthful(fs)
DropStep   == UNCHANGED logVars /\ \E p \in Procs : DropSeat(p)
TakeStep   == \E c \in Writers : Take(c)
StoreMove  == \E c \in Writers : StoreStep(c) /\ UNCHANGED bufferVars
BackStep   == \E c \in Writers :
                /\ AppendRaises(c)
                /\ \/ Pends(proc(c), Requeued(c))
                   \/ DropSeat(proc(c))
                   \/ Accepts(proc(c), Requeued(c), <<>>)
DieStep    == \E p \in Procs : DropSeat(p) /\ Abandon({p} \X Lanes)

BufferStep == QuietStep \/ AcceptStep \/ DropStep \/ TakeStep \/ StoreMove \/ BackStep \/ DieStep

LEMMA WriterIs ==
  /\ \A c \in Writers : proc(c) \in Procs /\ (c = Main(proc(c)) \/ c = Side(proc(c)))
  /\ \A p \in Procs : /\ Main(p) \in Writers /\ Side(p) \in Writers /\ Main(p) # Side(p)
                      /\ proc(Main(p)) = p /\ proc(Side(p)) = p
  /\ Api \in Procs /\ Workers \subseteq Procs /\ Api \notin Workers
BY ProcsAre DEF Writers, Lanes, proc, Main, Side

LEMMA WriteIsStep ==
  ASSUME BufferTypeOK, NEW p \in Procs, NEW ws \in Seq(Words),
         \A i \in 1..Len(ws) : TellsRow(ws[i][1], ws[i][2]),
         Write(p, ws) \/ OpenAndWrite(p, ws), UNCHANGED logVars
  PROVE  BufferStep
<1>1. CASE OpenAndWrite(p, ws)
  <2>1. pending[p] \in Seq(Frame)
    BY DEF BufferTypeOK
  <2>2. PICK fs \in Seq(Frame) : Accepts(p, pending[p], fs) /\ Wording(fs, ws)
    BY <1>1, <2>1, WriteEffect DEF OpenAndWrite
  <2>3. Truthful(fs)
    BY <2>2 DEF Truthful, Wording, TellsRow, Range
  <2> QED
    BY <2>2, <2>3 DEF BufferStep, AcceptStep
<1>2. CASE Write(p, ws)
  BY <1>1, <1>2 DEF Write, BufferStep, QuietStep
<1> QED
  BY <1>1, <1>2

(* The words that are written.                                             *)
LEMMA PlainWords ==
  /\ <<Plain>> \in Seq(Words) /\ <<Plain, Plain>> \in Seq(Words) /\ <<>> \in Seq(Words)
  /\ \A i \in 1..Len(<<Plain>>) : <<Plain>>[i][1] # DoneKey
  /\ \A i \in 1..Len(<<Plain, Plain>>) : <<Plain, Plain>>[i][1] # DoneKey
<1>1. Plain \in Words /\ Plain[1] # DoneKey
  BY DEF Plain, Words, NoKey, DoneKey
<1> HIDE DEF Plain
<1> QED
  BY <1>1

LEMMA KeyedWords ==
  ASSUME NEW k \in Keys
  PROVE  /\ <<<<k, "none">>>> \in Seq(Words)
         /\ \A i \in 1..Len(<<<<k, "none">>>>) : <<<<k, "none">>>>[i][1] # DoneKey
<1> DEFINE word == <<k, "none">>
<1>1. word \in Words /\ word[1] # DoneKey
  BY KeysAssumption DEF Words
<1> HIDE DEF word
<1>2. <<word>> \in Seq(Words) /\ \A i \in 1..Len(<<word>>) : <<word>>[i][1] # DoneKey
  BY <1>1
<1> QED
  BY <1>2 DEF word

LEMMA DoneWords ==
  ASSUME NEW s \in Terminal
  PROVE  /\ <<Done(s)>> \in Seq(Words) /\ Len(<<Done(s)>>) = 1
         /\ <<Done(s)>>[1][1] = DoneKey /\ <<Done(s)>>[1][2] = s
<1>1. Done(s) \in Words /\ Done(s)[1] = DoneKey /\ Done(s)[2] = s
  BY DEF Done, Words
<1> HIDE DEF Done
<1> QED
  BY <1>1

LEMMA ReturnEffect ==
  ASSUME BufferTypeOK, NEW c \in Writers, NEW q \in Seq(Frame), Return(c, q)
  PROVE  Pends(proc(c), q) \/ DropSeat(proc(c)) \/ Accepts(proc(c), q, <<>>)
<1>1. CASE OpenAndWriteAfter(proc(c), q, <<>>)
  <2>1. proc(c) \in Procs /\ <<>> \in Seq(Words)
    BY WriterIs, PlainWords
  <2>2. PICK fs \in Seq(Frame) : Accepts(proc(c), q, fs) /\ Wording(fs, <<>>)
    BY <1>1, <2>1, WriteEffect
  <2>3. fs = <<>>
    BY <2>2, Empties DEF Wording
  <2> QED
    BY <2>2, <2>3
<1> QED
  BY <1>1 DEF Return

LEMMA RequeuedIsSeq ==
  ASSUME LogTypeOK, BufferTypeOK, NEW c \in Writers
  PROVE  Requeued(c) \in Seq(Frame)
BY WriterIs DEF LogTypeOK, BufferTypeOK, Requeued

Ready == RowTypeOK /\ LogTypeOK /\ BufferTypeOK /\ TaskTypeOK /\ OutcomeKnown

(* Writing frames that are not done needs no more than the right types.    *)
LEMMA PlainIsStep ==
  ASSUME BufferTypeOK, NEW p \in Procs, UNCHANGED logVars,
         NEW ws \in Seq(Words), \A i \in 1..Len(ws) : ws[i][1] # DoneKey,
         Write(p, ws) \/ OpenAndWrite(p, ws)
  PROVE  BufferStep
<1>1. \A i \in 1..Len(ws) : TellsRow(ws[i][1], ws[i][2])
  BY DEF TellsRow
<1> QED
  BY <1>1, WriteIsStep

(* Announcing the status that the row has got.                             *)
LEMMA DoneIsStep ==
  ASSUME BufferTypeOK, NEW p \in Procs, UNCHANGED logVars,
         NEW s \in Terminal, status'[run] = s,
         Write(p, <<Done(s)>>) \/ OpenAndWrite(p, <<Done(s)>>)
  PROVE  BufferStep
<1>1. <<Done(s)>> \in Seq(Words) /\ \A i \in 1..Len(<<Done(s)>>) :
         TellsRow(<<Done(s)>>[i][1], <<Done(s)>>[i][2])
  BY DoneWords DEF TellsRow
<1> QED
  BY <1>1, WriteIsStep

LEMMA ApiMoves ==
  ASSUME Ready, Announcing \/ Exhaust
  PROVE  BufferStep
<1>1. CASE Create \/ ResumeWithInput
  BY <1>1, PlainIsStep, PlainWords, WriterIs DEF Create, ResumeWithInput, Ready
<1>2. CASE Cancel
  <2>1. CASE status'[run] = "cancelled"
    BY <1>2, <2>1, DoneIsStep, WriterIs DEF Cancel, Ready, Terminal
  <2>2. CASE status'[run] # "cancelled"
    BY <1>2, <2>2 DEF Cancel, BufferStep, QuietStep
  <2> QED
    BY <2>1, <2>2
<1>3. CASE Exhaust
  BY <1>3 DEF Exhaust, BufferStep, QuietStep
<1> QED
  BY <1>1, <1>2, <1>3 DEF Announcing

LEMMA WorkMoves ==
  ASSUME Ready, NEW w \in Workers, Working(w)
  PROVE  BufferStep
<1>0. w \in Procs /\ run \in Runs /\ BufferTypeOK
  BY WriterIs, OneRun DEF Ready
<1>1. CASE ClaimRun(w)
  BY <1>0, <1>1, PlainIsStep, PlainWords DEF ClaimRun
<1>2. CASE SettleFromDelivery(w)
  <2>1. status'[run] = "cancelled"
    BY <1>0, <1>2 DEF SettleFromDelivery, SettleCancelled, WriteTerminal, Ready, RowTypeOK
  <2> QED
    BY <1>0, <1>2, <2>1, DoneIsStep DEF SettleFromDelivery, Terminal
<1>3. CASE Headline(w)
  <2>1. CASE UNCHANGED bufferVars
    BY <1>3, <2>1 DEF Headline, BufferStep, QuietStep
  <2>2. CASE Write(w, <<Plain>>)
    BY <1>0, <1>3, <2>2, PlainIsStep, PlainWords DEF Headline
  <2> QED
    BY <1>3, <2>1, <2>2 DEF Headline
<1>4. CASE AwaitInput(w)
  BY <1>0, <1>4, PlainIsStep, PlainWords DEF AwaitInput
<1>5. CASE Interrupt(w) \/ Release(w)
  BY <1>5 DEF Interrupt, Release, BufferStep, QuietStep
<1>6. CASE FlusherStopped(w)
  <2>1. UNCHANGED logVars /\ Write(w, Announces(w)) /\ status' = status
    BY <1>6 DEF FlusherStopped, rowVars
  <2>2. CASE Announces(w) = <<>>
    <3>1. \A i \in 1..Len(<<>>) : <<>>[i][1] # DoneKey
      BY Empties
    <3> QED
      BY <1>0, <2>1, <2>2, <3>1, PlainIsStep, PlainWords
  <2>3. CASE Announces(w) # <<>>
    <3>1. Announces(w) = <<Done(written[w])>> /\ written[w] \in Terminal
          /\ status[run] = written[w]
      BY <2>3 DEF Announces, Ready, OutcomeKnown, TaskTypeOK
    <3> QED
      BY <1>0, <2>1, <3>1, DoneIsStep
  <2> QED
    BY <2>2, <2>3
<1>7. ASSUME NEW k \in Keys, Emit(w, k) PROVE BufferStep
  BY <1>0, <1>7, KeyedWords, PlainIsStep DEF Emit
<1>8. ASSUME NEW s \in Terminal, Conclude(w, s) PROVE BufferStep
  BY <1>8 DEF Conclude, BufferStep, QuietStep
<1> QED
  BY <1>1, <1>2, <1>3, <1>4, <1>5, <1>6, <1>7, <1>8 DEF Working

LEMMA FlushMoves ==
  ASSUME Ready, NEW c \in Writers, FlushStep(c)
  PROVE  BufferStep
<1>0. proc(c) \in Procs /\ Requeued(c) \in Seq(Frame) /\ <<>> \in Seq(Frame)
  BY WriterIs, RequeuedIsSeq, Empties DEF Ready
<1>1. CASE Take(c)
  BY <1>1 DEF BufferStep, TakeStep
<1>2. CASE AppendStep(c)
  BY <1>2 DEF AppendStep, BufferStep, StoreMove
<1>3. CASE FlushReturns(c)
  <2>1. pending[proc(c)] = <<>> /\ Return(c, <<>>) /\ UNCHANGED logVars
    BY <1>3 DEF FlushReturns
  <2>2. CASE Pends(proc(c), <<>>)
    <3>1. UNCHANGED bufferVars
      BY <1>0, <2>1, <2>2 DEF Pends, bufferVars, Ready, BufferTypeOK
    <3> QED
      BY <2>1, <3>1 DEF BufferStep, QuietStep
  <2>3. CASE DropSeat(proc(c))
    BY <1>0, <2>1, <2>3 DEF BufferStep, DropStep
  <2>4. CASE Accepts(proc(c), <<>>, <<>>)
    <3>1. Truthful(<<>>)
      BY Empties DEF Truthful
    <3> QED
      BY <1>0, <2>1, <2>4, <3>1 DEF BufferStep, AcceptStep
  <2> QED
    BY <1>0, <2>1, <2>2, <2>3, <2>4, ReturnEffect DEF Ready
<1>4. CASE FlushFails(c)
  <2>1. AppendRaises(c) /\ Return(c, Requeued(c))
    BY <1>4 DEF FlushFails
  <2>2. Pends(proc(c), Requeued(c)) \/ DropSeat(proc(c)) \/ Accepts(proc(c), Requeued(c), <<>>)
    BY <1>0, <2>1, ReturnEffect DEF Ready
  <2> QED
    BY <2>1, <2>2 DEF BufferStep, BackStep
<1>5. CASE FlushCancelled(c)
  BY <1>5 DEF FlushCancelled, BufferStep, BackStep
<1> QED
  BY <1>1, <1>2, <1>3, <1>4, <1>5 DEF FlushStep

LEMMA NextMovesBuffers == Ready /\ [Next]_vars => BufferStep
<1> SUFFICES ASSUME Ready, [Next]_vars PROVE BufferStep
  OBVIOUS
<1>1. CASE UNCHANGED vars
  BY <1>1 DEF vars, BufferStep, QuietStep
<1>2. ASSUME NEW p \in Procs, Evict(p) \/ Crash(p) PROVE BufferStep
  BY <1>2 DEF Evict, Crash, BufferStep, DropStep, DieStep
<1>3. ASSUME NEW i \in Readers, Streaming(i) \/ Disconnect(i) PROVE BufferStep
  <2>1. UNCHANGED logVars /\ (UNCHANGED bufferVars \/ DropSeat(Api))
    BY <1>3 DEF Streaming, Connect, ReadTail, ReadAgain, ReadStatus, Disconnect, Ends
  <2> QED
    BY <2>1, WriterIs DEF BufferStep, QuietStep, DropStep
<1> QED
  BY <1>1, <1>2, <1>3, ApiMoves, WorkMoves, FlushMoves DEF Next

-----------------------------------------------------------------------------
(* WHERE FRAMES GO                                                         *)

LEMMA RangeOf == \A s \in Seq(Frame) : Range(s) = {s[i] : i \in 1..Len(s)}
BY DEF Range

LEMMA Joined ==
  ASSUME NEW s \in Seq(Frame), NEW t \in Seq(Frame)
  PROVE  s \o t \in Seq(Frame) /\ Range(s \o t) = Range(s) \cup Range(t)
<1>1. /\ s \o t \in Seq(Frame) /\ Len(s) \in Nat /\ Len(t) \in Nat
      /\ Len(s \o t) = Len(s) + Len(t)
      /\ \A i \in 1..Len(s) : (s \o t)[i] = s[i]
      /\ \A i \in 1..Len(t) : (s \o t)[Len(s) + i] = t[i]
  OBVIOUS
<1>2. /\ Range(s) = {s[i] : i \in 1..Len(s)} /\ Range(t) = {t[i] : i \in 1..Len(t)}
      /\ Range(s \o t) = {(s \o t)[i] : i \in 1..Len(s \o t)}
  BY <1>1 DEF Range
<1> DEFINE u == s \o t
<1> HIDE DEF u
<1>3. ASSUME NEW i \in 1..Len(u) PROVE u[i] \in Range(s) \cup Range(t)
  <2>1. CASE i <= Len(s)
    BY <1>1, <1>2, <1>3, <2>1 DEF u
  <2>2. CASE i > Len(s)
    <3>1. i - Len(s) \in 1..Len(t) /\ i = Len(s) + (i - Len(s))
      BY <1>1, <1>3, <2>2 DEF u
    <3>2. PICK j \in 1..Len(t) : i = Len(s) + j
      BY <3>1, Zenon
    <3>3. u[i] = t[j]
      BY <1>1, <3>2 DEF u
    <3> QED
      BY <1>2, <3>3
  <2> QED
    BY <1>1, <1>3, <2>1, <2>2 DEF u
<1>4. ASSUME NEW i \in 1..Len(s) PROVE s[i] \in Range(u)
  <2>1. i \in 1..Len(u) /\ u[i] = s[i]
    BY <1>1 DEF u
  <2> QED
    BY <1>2, <2>1 DEF u
<1>5. ASSUME NEW i \in 1..Len(t) PROVE t[i] \in Range(u)
  <2>1. Len(s) + i \in 1..Len(u) /\ u[Len(s) + i] = t[i]
    BY <1>1 DEF u
  <2> QED
    BY <1>2, <2>1 DEF u
<1> QED
  BY <1>1, <1>2, <1>3, <1>4, <1>5 DEF u

(* The first k of a sequence, and the rest.                                *)
LEMMA Split ==
  ASSUME NEW s \in Seq(Frame), NEW k \in 0..Len(s)
  PROVE  /\ SubSeq(s, 1, k) \in Seq(Frame) /\ SubSeq(s, k + 1, Len(s)) \in Seq(Frame)
         /\ Range(s) = Range(SubSeq(s, 1, k)) \cup Range(SubSeq(s, k + 1, Len(s)))
         /\ k = Len(s) => SubSeq(s, k + 1, Len(s)) = <<>>
         /\ EndsDone(s) => /\ EndsDone(SubSeq(s, 1, k)) /\ EndsDone(SubSeq(s, k + 1, Len(s)))
                           /\ SaysDone(Range(SubSeq(s, 1, k))) => k = Len(s)
<1> DEFINE n == Len(s)
           a == SubSeq(s, 1, k)
           b == SubSeq(s, k + 1, n)
<1>1. n \in Nat /\ k \in Nat /\ k <= n
  OBVIOUS
<1>2. a \in Seq(Frame) /\ Len(a) = k /\ \A i \in 1..k : a[i] = s[i]
  BY <1>1
<1>3. b \in Seq(Frame) /\ Len(b) = n - k /\ \A i \in 1..(n - k) : b[i] = s[k + i]
  BY <1>1
<1>4. /\ Range(s) = {s[i] : i \in 1..n} /\ Range(a) = {a[i] : i \in 1..k}
      /\ Range(b) = {b[i] : i \in 1..(n - k)}
  <2> HIDE DEF a, b
  <2>1. s \in Seq(Frame) /\ a \in Seq(Frame) /\ b \in Seq(Frame)
    BY <1>2, <1>3
  <2>2. /\ Range(s) = {s[i] : i \in 1..Len(s)} /\ Range(a) = {a[i] : i \in 1..Len(a)}
        /\ Range(b) = {b[i] : i \in 1..Len(b)}
    BY <2>1, RangeOf
  <2> QED
    BY <1>2, <1>3, <2>2
<1> HIDE DEF a, b, n
<1>5. ASSUME NEW i \in 1..n PROVE s[i] \in Range(a) \cup Range(b)
  <2>1. CASE i <= k
    BY <1>1, <1>2, <1>4, <1>5, <2>1
  <2>2. CASE i > k
    <3>1. i - k \in 1..(n - k) /\ i = k + (i - k)
      BY <1>1, <1>5, <2>2
    <3>2. PICK j \in 1..(n - k) : i = k + j
      BY <3>1, Zenon
    <3> QED
      BY <1>3, <1>4, <3>2
  <2> QED
    BY <1>1, <2>1, <2>2
<1>6. \A i \in 1..k : i \in 1..n
  BY <1>1
<1>7. \A i \in 1..(n - k) : k + i \in 1..n
  BY <1>1
<1>8. Range(s) = Range(a) \cup Range(b)
  <2>1. ASSUME NEW i \in 1..k PROVE a[i] \in Range(s)
    BY <1>2, <1>4, <1>6
  <2>2. ASSUME NEW i \in 1..(n - k) PROVE b[i] \in Range(s)
    BY <1>3, <1>4, <1>7
  <2>3. Range(s) \subseteq Range(a) \cup Range(b)
    BY <1>4, <1>5
  <2>4. Range(a) \subseteq Range(s) /\ Range(b) \subseteq Range(s)
    BY <1>4, <2>1, <2>2
  <2> QED
    BY <2>3, <2>4
<1>9. k = n => b = <<>>
  BY <1>1, <1>3, Empties
<1>10. ASSUME EndsDone(s)
       PROVE  EndsDone(a) /\ EndsDone(b) /\ (SaysDone(Range(a)) => k = n)
  <2>1. \A i \in 1..n : s[i].key = DoneKey => i = n
    BY <1>10 DEF EndsDone, n
  <2>2. \A i \in 1..k : a[i].key = DoneKey => i = n
    BY <1>2, <1>6, <2>1
  <2>3. \A i \in 1..(n - k) : b[i].key = DoneKey => k + i = n
    BY <1>3, <1>7, <2>1
  <2>4. EndsDone(a) /\ (SaysDone(Range(a)) => k = n)
    BY <1>1, <1>2, <1>4, <2>2 DEF EndsDone, SaysDone
  <2>5. EndsDone(b)
    <3>1. \A i \in 1..(n - k) : k + i = n => i = n - k
      BY <1>1
    <3> QED
      BY <1>3, <2>3, <3>1 DEF EndsDone
  <2> QED
    BY <2>4, <2>5
<1> QED
  BY <1>2, <1>3, <1>8, <1>9, <1>10 DEF a, b, n

LEMMA CoversThrough ==
  ASSUME NEW S, NEW T, NEW f, Covers(S, f), \A g \in S : Covers(T, g)
  PROVE  Covers(T, f)
BY DEF Covers

Other(c) == IF c = Main(proc(c)) THEN Side(proc(c)) ELSE Main(proc(c))

LEMMA HeldIs ==
  ASSUME NEW c \in Writers
  PROVE  /\ Other(c) \in Writers /\ Other(c) # c
         /\ Held(proc(c)) = Range(pending[proc(c)]) \cup Range(batch[c]) \cup Range(batch[Other(c)])
         /\ Held(proc(c))' = Range(pending'[proc(c)]) \cup Range(batch'[c])
                               \cup Range(batch'[Other(c)])
BY WriterIs DEF Other, Held

LEMMA HeldElsewhere ==
  ASSUME NEW c \in Writers, NEW p \in Procs, p # proc(c)
  PROVE  Main(p) # c /\ Side(p) # c
BY WriterIs

(* What process p accepted is still there, unless its seat has gone, and   *)
(* what it holds it held before, or has just made.                         *)
Flow(p) ==
  /\ \/ sent'[p] = {}
     \/ /\ \A g \in Held(p) \cup Stored : Covers(Held(p)' \cup Stored', g)
        /\ \A f \in sent'[p] : f \in sent[p] \/ f \in Held(p)'
  /\ \A f \in Held(p)' : f \in Held(p) \/ /\ f.by = p /\ TellsRow(f.key, f.says)
                                           /\ made'[p] # made[p]
  /\ ~open'[p] => sent'[p] = {}

Flows == /\ \A p \in Procs : Flow(p)
         /\ Stored \subseteq Stored'
         /\ \A f \in Stored' : f \in Stored \/ \E p \in Procs : f \in Held(p)

(* A process whose buffer and batches stay as they are.                    *)
LEMMA Bystander ==
  ASSUME SeatsCount, NEW p \in Procs, Held(p)' = Held(p), Stored \subseteq Stored',
         sent'[p] = sent[p], open'[p] = open[p]
  PROVE  Flow(p)
BY DEF SeatsCount, Flow, Covers

(* A process that loses its seat.                                          *)
LEMMA Dropped ==
  ASSUME NEW p \in Procs, Held(p)' \subseteq Held(p), sent'[p] = {}
  PROVE  Flow(p)
BY DEF Flow

LEMMA Unread ==
  ASSUME UNCHANGED logVars
  PROVE  Stored' = Stored /\ UNCHANGED <<log, batch, todo, step>>
BY DEF logVars, storeVars, txVars, Stored

LEMMA QuietFlows == SeatsCount /\ QuietStep => Flows
<1> SUFFICES ASSUME SeatsCount, QuietStep PROVE Flows
  OBVIOUS
<1>1. Stored' = Stored /\ batch' = batch /\ UNCHANGED bufferVars
  BY Unread DEF QuietStep
<1>2. ASSUME NEW p \in Procs PROVE Flow(p)
  BY <1>1, Bystander DEF bufferVars, Held
<1> QED
  BY <1>1, <1>2 DEF Flows

LEMMA AcceptFlows == BufferTypeOK /\ SeatsCount /\ AcceptStep => Flows
<1> SUFFICES ASSUME BufferTypeOK, SeatsCount, AcceptStep PROVE Flows
  OBVIOUS
<1>1. Stored' = Stored /\ batch' = batch
  BY Unread DEF AcceptStep
<1>2. PICK p \in Procs, fs \in Seq(Frame) : Accepts(p, pending[p], fs) /\ Truthful(fs)
  BY DEF AcceptStep
<1>3. /\ pending'[p] = pending[p] \o fs /\ sent'[p] = sent[p] \cup Range(fs) /\ open'[p] = TRUE
      /\ \A q \in Procs \ {p} : pending'[q] = pending[q] /\ sent'[q] = sent[q] /\ open'[q] = open[q]
  BY <1>2 DEF Accepts, BufferTypeOK
<1>4. Held(p)' = Held(p) \cup Range(fs)
  <2>1. Range(pending'[p]) = Range(pending[p]) \cup Range(fs)
    BY <1>2, <1>3, Joined DEF BufferTypeOK
  <2> QED
    BY <1>1, <2>1 DEF Held
<1>5. Flow(p)
  <2>1. \A g \in Held(p) \cup Stored : Covers(Held(p)' \cup Stored', g)
    BY <1>1, <1>4 DEF Covers
  <2>2. \A f \in sent'[p] : f \in sent[p] \/ f \in Held(p)'
    BY <1>3, <1>4
  <2>3. \A f \in Range(fs) : f.by = p /\ TellsRow(f.key, f.says) /\ made'[p] # made[p]
    <3>1. \A f \in Range(fs) : f.by = p /\ TellsRow(f.key, f.says) /\ Len(fs) # 0
      BY <1>2, Empties DEF Accepts, Truthful
    <3>2. made'[p] = made[p] + Len(fs) /\ made[p] \in Nat /\ Len(fs) \in Nat
      BY <1>2, Empties DEF Accepts, BufferTypeOK
    <3> QED
      BY <3>1, <3>2
  <2> QED
    BY <1>3, <1>4, <2>1, <2>2, <2>3 DEF Flow
<1>6. ASSUME NEW q \in Procs \ {p} PROVE Flow(q)
  <2>1. Held(q)' = Held(q)
    BY <1>1, <1>3 DEF Held
  <2> QED
    BY <1>1, <1>3, <2>1, Bystander
<1> QED
  BY <1>1, <1>5, <1>6 DEF Flows

LEMMA DropFlows == BufferTypeOK /\ SeatsCount /\ DropStep => Flows
<1> SUFFICES ASSUME BufferTypeOK, SeatsCount, DropStep PROVE Flows
  OBVIOUS
<1>1. Stored' = Stored /\ batch' = batch
  BY Unread DEF DropStep
<1>2. PICK p \in Procs : DropSeat(p)
  BY DEF DropStep
<1>3. /\ pending'[p] = <<>> /\ sent'[p] = {}
      /\ \A q \in Procs \ {p} : pending'[q] = pending[q] /\ sent'[q] = sent[q] /\ open'[q] = open[q]
  BY <1>2 DEF DropSeat, BufferTypeOK
<1>4. Held(p)' \subseteq Held(p)
  BY <1>1, <1>3, Empties DEF Held
<1>5. ASSUME NEW q \in Procs \ {p} PROVE Flow(q)
  <2>1. Held(q)' = Held(q)
    BY <1>1, <1>3 DEF Held
  <2> QED
    BY <1>1, <1>3, <2>1, Bystander
<1> QED
  BY <1>1, <1>3, <1>4, <1>5, Dropped DEF Flows

(* What an append no longer has is stored, or one with its key is.         *)
LEMMA StoreEffect ==
  ASSUME LogInv, NEW c \in Writers, StoreStep(c)
  PROVE  /\ \A d \in Writers \ {c} : batch'[d] = batch[d] /\ todo'[d] = todo[d] /\ step'[d] = step[d]
         /\ batch'[c] = batch[c] \/ batch'[c] = <<>>
         /\ step[c] # "idle"
         /\ \A g \in Range(batch[c]) : Covers(Range(batch'[c]) \cup Stored', g)
         /\ Stored \subseteq Stored' /\ Stored' \subseteq Stored \cup Range(batch[c])
<1>0. batch[c] \in Seq(Frame)
  BY DEF LogInv, LogTypeOK
<1>1. CASE DropStored(c)
  <2>1. Stored' = Stored
    BY <1>1 DEF DropStored, storeVars, Stored
  <2>2. CASE New(batch[c]) = <<>>
    <3>1. Leave({c})
      BY <1>1, <2>2 DEF DropStored
    <3>2. \A g \in Range(batch[c]) : Covers(Stored, g)
      BY <1>0, <2>2, NewFrames, Empties
    <3> QED
      BY <1>1, <2>1, <3>1, <3>2, Empties DEF Leave, DropStored
  <2>3. CASE New(batch[c]) # <<>>
    <3>1. batch' = batch /\ step[c] # "idle"
          /\ \A d \in Writers \ {c} : todo'[d] = todo[d] /\ step'[d] = step[d]
      BY <1>1, <2>3 DEF DropStored, Goes, LogInv, LogTypeOK
    <3> QED
      BY <2>1, <3>1 DEF Covers
  <2> QED
    BY <2>2, <2>3
<1>2. CASE Number(c)
  BY <1>2 DEF Number, Goes, LogInv, LogTypeOK, Stored, Covers
<1>3. CASE Clash(c)
  BY <1>3 DEF Clash, Goes, Rollback, LogInv, LogTypeOK, Stored, Covers
<1>4. CASE Commit(c)
  <2>1. Commits(c) /\ Leave({c}) /\ step[c] = "numbered"
    BY <1>4 DEF Commit, Commits
  <2>2. Stored' = Stored \cup Range(todo[c])
    BY <2>1, CommitKeeps
  <2>3. /\ Range(todo[c]) \subseteq Range(batch[c])
        /\ \A g \in Range(batch[c]) : Covers(Range(todo[c]) \cup Stored, g)
    BY <2>1 DEF LogInv, Chosen
  <2> QED
    BY <2>1, <2>2, <2>3, CoversMore DEF Leave
<1> QED
  BY <1>1, <1>2, <1>3, <1>4 DEF StoreStep

LEMMA StoreFlows == LogInv /\ SeatsCount /\ StoreMove => Flows
<1> SUFFICES ASSUME LogInv, SeatsCount, StoreMove PROVE Flows
  OBVIOUS
<1>1. PICK c \in Writers : StoreStep(c) /\ UNCHANGED bufferVars
  BY DEF StoreMove
<1>2. UNCHANGED <<open, pending, sent>>
  BY <1>1 DEF bufferVars
<1> DEFINE p == proc(c)
<1>3. /\ \A d \in Writers \ {c} : batch'[d] = batch[d]
      /\ batch'[c] = batch[c] \/ batch'[c] = <<>>
      /\ \A g \in Range(batch[c]) : Covers(Range(batch'[c]) \cup Stored', g)
      /\ Stored \subseteq Stored' /\ Stored' \subseteq Stored \cup Range(batch[c])
  BY <1>1, StoreEffect
<1>4. /\ p \in Procs /\ Other(c) \in Writers /\ Other(c) # c
      /\ Held(p) = Range(pending[p]) \cup Range(batch[c]) \cup Range(batch[Other(c)])
      /\ Held(p)' = Range(pending[p]) \cup Range(batch'[c]) \cup Range(batch[Other(c)])
  BY <1>2, <1>3, WriterIs, HeldIs
<1> HIDE DEF p
<1>5. Flow(p)
  <2>1. ASSUME NEW g \in Held(p) \cup Stored PROVE Covers(Held(p)' \cup Stored', g)
    <3>1. CASE g \in Range(batch[c])
      <4>1. Range(batch'[c]) \cup Stored' \subseteq Held(p)' \cup Stored'
        BY <1>4
      <4> QED
        BY <1>3, <3>1, <4>1, CoversMore
    <3>2. CASE g \notin Range(batch[c])
      BY <1>3, <1>4, <2>1, <3>2 DEF Covers
    <3> QED
      BY <3>1, <3>2
  <2>2. Held(p)' \subseteq Held(p)
    BY <1>3, <1>4, Empties
  <2> QED
    BY <1>2, <1>4, <2>1, <2>2 DEF Flow, SeatsCount
<1>6. ASSUME NEW q \in Procs, q # p PROVE Flow(q)
  <2>1. Main(q) \in Writers \ {c} /\ Side(q) \in Writers \ {c}
    BY <1>6, WriterIs, HeldElsewhere DEF p
  <2>2. Held(q)' = Held(q)
    BY <1>2, <1>3, <2>1 DEF Held
  <2> QED
    BY <1>2, <1>3, <2>2, Bystander
<1> QED
  BY <1>3, <1>4, <1>5, <1>6 DEF Flows

LEMMA TakeEffect ==
  ASSUME LogInv, BufferTypeOK, NEW c \in Writers, Take(c)
  PROVE  \E k \in 0..Len(pending[proc(c)]) :
           LET p == proc(c)  s == pending[p]  IN
           /\ SubSeq(s, 1, k) \in Seq(Frame) /\ BeginAppend(c, SubSeq(s, 1, k))
           /\ pending'[p] = SubSeq(s, k + 1, Len(s))
           /\ pending' \in [Procs -> Seq(Frame)]
           /\ \A q \in Procs \ {p} : pending'[q] = pending[q]
           /\ UNCHANGED <<open, sent, made>>
           /\ batch[c] = <<>> /\ step[c] = "idle"
<1> DEFINE p == proc(c)
           s == pending[p]
           k == IF Len(s) < BatchMax THEN Len(s) ELSE BatchMax
<1>1. p \in Procs /\ s \in Seq(Frame) /\ Len(s) \in Nat
  BY WriterIs DEF BufferTypeOK
<1>2. k \in 0..Len(s)
  BY <1>1, EventBounds
<1>3. BeginAppend(c, SubSeq(s, 1, k)) /\ pending' = [pending EXCEPT ![p] = SubSeq(s, k + 1, Len(s))]
      /\ UNCHANGED <<open, sent, made>>
  BY DEF Take
<1>4. SubSeq(s, 1, k) \in Seq(Frame) /\ SubSeq(s, k + 1, Len(s)) \in Seq(Frame)
  <2> HIDE DEF k
  <2> QED
    BY <1>1, <1>2, Split
<1>5. step[c] = "idle" /\ batch[c] = <<>>
  BY <1>3 DEF BeginAppend, LogInv, Chosen
<1> HIDE DEF k
<1>6. /\ pending'[p] = SubSeq(s, k + 1, Len(s))
      /\ pending' \in [Procs -> Seq(Frame)]
      /\ \A q \in Procs \ {p} : pending'[q] = pending[q]
  <2> DEFINE t == SubSeq(s, k + 1, Len(s))
  <2>1. t \in Seq(Frame) /\ pending' = [pending EXCEPT ![p] = t]
    BY <1>3, <1>4
  <2> HIDE DEF t
  <2>2. /\ pending'[p] = t /\ pending' \in [Procs -> Seq(Frame)]
        /\ \A q \in Procs \ {p} : pending'[q] = pending[q]
    BY <1>1, <2>1 DEF BufferTypeOK
  <2> QED
    BY <2>2 DEF t
<1> QED
  BY <1>2, <1>3, <1>4, <1>5, <1>6

LEMMA TakeFlows == LogInv /\ BufferTypeOK /\ SeatsCount /\ TakeStep => Flows
<1> SUFFICES ASSUME LogInv, BufferTypeOK, SeatsCount, TakeStep PROVE Flows
  OBVIOUS
<1>1. PICK c \in Writers : Take(c)
  BY DEF TakeStep
<1> DEFINE p == proc(c)
           s == pending[p]
<1>2. PICK k \in 0..Len(s) :
        /\ SubSeq(s, 1, k) \in Seq(Frame) /\ BeginAppend(c, SubSeq(s, 1, k))
        /\ pending'[p] = SubSeq(s, k + 1, Len(s))
        /\ \A q \in Procs \ {p} : pending'[q] = pending[q]
        /\ UNCHANGED <<open, sent, made>>
        /\ batch[c] = <<>> /\ step[c] = "idle"
  BY <1>1, TakeEffect
<1> DEFINE a == SubSeq(s, 1, k)
           b == SubSeq(s, k + 1, Len(s))
<1>3. s \in Seq(Frame) /\ p \in Procs
  BY WriterIs DEF BufferTypeOK
<1>4. Range(s) = Range(a) \cup Range(b)
  BY <1>3, Split
<1>5. /\ Stored' = Stored
      /\ \A d \in Writers \ {c} : batch'[d] = batch[d]
      /\ \/ batch'[c] = a
         \/ New(a) = <<>> /\ batch'[c] = <<>>
  <2> HIDE DEF a
  <2>1. log' = log /\ (New(a) = <<>> => batch' = batch)
        /\ (New(a) # <<>> => batch' = [batch EXCEPT ![c] = a])
    BY <1>2 DEF BeginAppend, storeVars, txVars, a
  <2> QED
    BY <1>2, <2>1 DEF Stored, LogInv, LogTypeOK
<1>6. /\ Other(c) \in Writers /\ Other(c) # c
      /\ Held(p) = Range(s) \cup Range(batch[Other(c)])
      /\ Held(p)' = Range(b) \cup Range(batch'[c]) \cup Range(batch[Other(c)])
  BY <1>2, <1>5, HeldIs, Empties
<1>7. \A g \in Range(a) : Covers(Range(batch'[c]) \cup Stored, g)
  <2>1. CASE batch'[c] = a
    BY <2>1 DEF Covers
  <2>2. CASE New(a) = <<>>
    <3>1. \A g \in Range(a) : Covers(Range(New(a)) \cup Stored, g)
      BY <1>2, NewFrames
    <3>2. Range(New(a)) \cup Stored \subseteq Range(batch'[c]) \cup Stored
      BY <2>2, Empties
    <3> QED
      BY <3>1, <3>2, CoversMore
  <2> QED
    BY <1>5, <2>1, <2>2
<1> HIDE DEF p, s, a, b
<1>8. Flow(p)
  <2>1. ASSUME NEW g \in Held(p) \cup Stored PROVE Covers(Held(p)' \cup Stored', g)
    <3>1. CASE g \in Range(a)
      <4>1. Range(batch'[c]) \cup Stored \subseteq Held(p)' \cup Stored'
        BY <1>5, <1>6
      <4> QED
        BY <1>7, <3>1, <4>1, CoversMore
    <3>2. CASE g \notin Range(a)
      BY <1>4, <1>5, <1>6, <2>1, <3>2 DEF Covers
    <3> QED
      BY <3>1, <3>2
  <2>2. Held(p)' \subseteq Held(p)
    BY <1>4, <1>5, <1>6, Empties
  <2> QED
    BY <1>2, <1>3, <2>1, <2>2 DEF Flow, SeatsCount
<1>9. ASSUME NEW q \in Procs, q # p PROVE Flow(q)
  <2>1. Main(q) \in Writers \ {c} /\ Side(q) \in Writers \ {c}
    BY <1>9, WriterIs, HeldElsewhere DEF p
  <2>2. Held(q)' = Held(q)
    BY <1>2, <1>5, <1>9, <2>1 DEF Held, p
  <2> QED
    BY <1>2, <1>5, <2>2, Bystander
<1> QED
  BY <1>5, <1>8, <1>9 DEF Flows

LEMMA RaiseEffect ==
  ASSUME LogInv, NEW c \in Writers, AppendRaises(c)
  PROVE  /\ \A d \in Writers \ {c} : batch'[d] = batch[d] /\ todo'[d] = todo[d] /\ step'[d] = step[d]
         /\ batch'[c] = <<>> /\ step'[c] = "idle" /\ step[c] # "idle"
         /\ Stored \subseteq Stored' /\ Stored' \subseteq Stored \cup Range(batch[c])
<1>1. Leave({c}) /\ step[c] # "idle"
  BY DEF AppendRaises, InTx
<1>2. CASE Rollback({c})
  BY <1>1, <1>2 DEF Rollback, Leave, Stored
<1>3. CASE Commits(c)
  <2>1. Stored' = Stored \cup Range(todo[c])
    BY <1>1, <1>3, CommitKeeps
  <2>2. Range(todo[c]) \subseteq Range(batch[c])
    BY DEF LogInv, Chosen
  <2> QED
    BY <1>1, <2>1, <2>2 DEF Leave
<1> QED
  BY <1>2, <1>3 DEF AppendRaises

LEMMA BackFlows == LogInv /\ BufferTypeOK /\ SeatsCount /\ BackStep => Flows
<1> SUFFICES ASSUME LogInv, BufferTypeOK, SeatsCount, BackStep PROVE Flows
  OBVIOUS
<1>1. PICK c \in Writers :
        /\ AppendRaises(c)
        /\ \/ Pends(proc(c), Requeued(c))
           \/ DropSeat(proc(c))
           \/ Accepts(proc(c), Requeued(c), <<>>)
  BY DEF BackStep
<1> DEFINE p == proc(c)
<1>2. /\ \A d \in Writers \ {c} : batch'[d] = batch[d]
      /\ batch'[c] = <<>>
      /\ Stored \subseteq Stored' /\ Stored' \subseteq Stored \cup Range(batch[c])
  BY <1>1, RaiseEffect
<1>3. p \in Procs /\ batch[c] \in Seq(Frame) /\ pending[p] \in Seq(Frame)
  BY WriterIs DEF LogInv, LogTypeOK, BufferTypeOK
<1>4. /\ Other(c) \in Writers /\ Other(c) # c
      /\ Held(p) = Range(pending[p]) \cup Range(batch[c]) \cup Range(batch[Other(c)])
      /\ Held(p)' = Range(pending'[p]) \cup Range(batch[Other(c)])
  BY <1>2, HeldIs, Empties
<1>5. /\ Range(Requeued(c)) \subseteq Range(pending[p]) \cup Range(batch[c])
      /\ open[p] => Range(Requeued(c)) = Range(pending[p]) \cup Range(batch[c])
  BY <1>3, Joined DEF Requeued
<1> HIDE DEF p
<1>6. \A q \in Procs \ {p} : pending'[q] = pending[q] /\ sent'[q] = sent[q] /\ open'[q] = open[q]
  BY <1>1 DEF Pends, DropSeat, Accepts, BufferTypeOK, p
<1>7. Flow(p)
  <2>1. CASE DropSeat(p)
    <3>1. pending'[p] = <<>> /\ sent'[p] = {}
      BY <1>3, <2>1 DEF DropSeat, BufferTypeOK
    <3> QED
      BY <1>3, <1>4, <3>1, Empties, Dropped
  <2>2. CASE Pends(p, Requeued(c)) \/ Accepts(p, Requeued(c), <<>>)
    <3>1. sent'[p] = sent[p] /\ (open'[p] = open[p] \/ open'[p] = TRUE)
      <4>1. CASE Pends(p, Requeued(c))
        BY <4>1 DEF Pends
      <4>2. CASE Accepts(p, Requeued(c), <<>>)
        <5> HIDE DEF Requeued
        <5>1. sent' = [sent EXCEPT ![p] = sent[p] \cup {}] /\ open' = [open EXCEPT ![p] = TRUE]
          BY <4>2, Empties DEF Accepts
        <5> QED
          BY <1>3, <5>1 DEF BufferTypeOK
      <4> QED
        BY <2>2, <4>1, <4>2
    <3>2. Range(pending'[p]) = Range(Requeued(c))
      <4>1. CASE Pends(p, Requeued(c))
        BY <1>3, <4>1 DEF Pends, BufferTypeOK
      <4>2. CASE Accepts(p, Requeued(c), <<>>)
        <5>1. Requeued(c) \in Seq(Frame)
          BY RequeuedIsSeq DEF LogInv
        <5>2. Range(Requeued(c) \o <<>>) = Range(Requeued(c))
          BY <5>1, Joined, Empties
        <5>3. pending'[p] = Requeued(c) \o <<>>
          BY <1>3, <4>2 DEF Accepts, BufferTypeOK
        <5> QED
          BY <5>2, <5>3
      <4> QED
        BY <2>2, <4>1, <4>2
    <3>3. Held(p)' \subseteq Held(p)
      BY <1>4, <1>5, <3>2
    <3>4. CASE open[p]
      <4>1. Held(p)' = Held(p)
        BY <1>4, <1>5, <3>2, <3>4
      <4> QED
        BY <1>2, <3>1, <3>4, <4>1 DEF Flow, Covers
    <3>5. CASE ~open[p]
      <4>1. sent'[p] = {}
        BY <1>3, <3>1, <3>5 DEF SeatsCount
      <4> QED
        BY <1>3, <3>3, <4>1, Dropped
    <3> QED
      BY <3>4, <3>5
  <2> QED
    BY <1>1, <2>1, <2>2 DEF p
<1>8. ASSUME NEW q \in Procs, q # p PROVE Flow(q)
  <2>1. Main(q) \in Writers \ {c} /\ Side(q) \in Writers \ {c}
    BY <1>8, WriterIs, HeldElsewhere DEF p
  <2>2. Held(q)' = Held(q)
    BY <1>2, <1>6, <1>8, <2>1 DEF Held
  <2> QED
    BY <1>2, <1>6, <1>8, <2>2, Bystander
<1> QED
  BY <1>2, <1>3, <1>4, <1>7, <1>8 DEF Flows

LEMMA DieFlows == LogInv /\ BufferTypeOK /\ SeatsCount /\ DieStep => Flows
<1> SUFFICES ASSUME LogInv, BufferTypeOK, SeatsCount, DieStep PROVE Flows
  OBVIOUS
<1>1. PICK p \in Procs : DropSeat(p) /\ Abandon({p} \X Lanes)
  BY DEF DieStep
<1>2. Stored' = Stored /\ Leave({p} \X Lanes)
  BY <1>1 DEF Abandon, Rollback, Stored
<1>3. /\ pending'[p] = <<>> /\ sent'[p] = {}
      /\ \A q \in Procs \ {p} : pending'[q] = pending[q] /\ sent'[q] = sent[q] /\ open'[q] = open[q]
  BY <1>1 DEF DropSeat, BufferTypeOK
<1>4. Main(p) \in {p} \X Lanes /\ Side(p) \in {p} \X Lanes
  BY DEF Main, Side, Lanes
<1>5. Held(p)' \subseteq Held(p)
  <2>1. batch'[Main(p)] = <<>> /\ batch'[Side(p)] = <<>>
    BY <1>2, <1>4, WriterIs DEF Leave
  <2> QED
    BY <1>3, <2>1, Empties DEF Held
<1>6. ASSUME NEW q \in Procs, q # p PROVE Flow(q)
  <2>1. Main(q) \notin {p} \X Lanes /\ Side(q) \notin {p} \X Lanes
    BY <1>6 DEF Main, Side
  <2>2. batch'[Main(q)] = batch[Main(q)] /\ batch'[Side(q)] = batch[Side(q)]
    BY <1>2, <2>1, WriterIs DEF Leave
  <2>3. Held(q)' = Held(q)
    BY <1>3, <1>6, <2>2 DEF Held
  <2> QED
    BY <1>2, <1>3, <1>6, <2>3, Bystander
<1> QED
  BY <1>2, <1>3, <1>5, <1>6, Dropped DEF Flows

LEMMA BuffersFlow == LogInv /\ BufferTypeOK /\ SeatsCount /\ BufferStep => Flows
BY QuietFlows, AcceptFlows, DropFlows, TakeFlows, StoreFlows, BackFlows, DieFlows DEF BufferStep

-----------------------------------------------------------------------------

LEMMA BuffersKeepTypes == LogInv /\ BufferTypeOK /\ BufferStep => BufferTypeOK' /\ LogStep
<1> SUFFICES ASSUME LogInv, BufferTypeOK, BufferStep PROVE BufferTypeOK' /\ LogStep
  OBVIOUS
<1>0. ASSUME NEW p \in Procs, DropSeat(p) PROVE BufferTypeOK'
  BY <1>0, Empties DEF DropSeat, BufferTypeOK
<1>1. ASSUME NEW p \in Procs, NEW q \in Seq(Frame), NEW fs, Accepts(p, q, fs)
      PROVE  BufferTypeOK'
  <2>1. q \o fs \in Seq(Frame) /\ Range(fs) \subseteq Frame
    BY <1>1, Joined, RangeOf DEF Accepts
  <2>2. made' \in [Procs -> Nat]
    <3>1. fs \in Seq(Frame) /\ made' = [made EXCEPT ![p] = made[p] + Len(fs)]
      BY <1>1 DEF Accepts
    <3>2. made[p] + Len(fs) \in Nat
      BY <3>1 DEF BufferTypeOK
    <3> QED
      BY <3>1, <3>2 DEF BufferTypeOK
  <2> QED
    BY <1>1, <2>1, <2>2 DEF Accepts, BufferTypeOK
<1>2. CASE QuietStep
  BY <1>2 DEF QuietStep, bufferVars, BufferTypeOK, LogStep
<1>3. CASE AcceptStep
  <2>1. PICK p \in Procs, fs \in Seq(Frame) : Accepts(p, pending[p], fs)
    BY <1>3 DEF AcceptStep
  <2>2. pending[p] \in Seq(Frame)
    BY DEF BufferTypeOK
  <2> QED
    BY <1>1, <1>3, <2>1, <2>2 DEF AcceptStep, LogStep
<1>4. CASE DropStep
  BY <1>0, <1>4 DEF DropStep, LogStep
<1>5. CASE TakeStep
  <2>1. PICK c \in Writers : Take(c)
    BY <1>5 DEF TakeStep
  <2>2. PICK k \in 0..Len(pending[proc(c)]) :
          /\ SubSeq(pending[proc(c)], 1, k) \in Seq(Frame)
          /\ BeginAppend(c, SubSeq(pending[proc(c)], 1, k))
          /\ pending' \in [Procs -> Seq(Frame)]
          /\ UNCHANGED <<open, sent, made>>
    BY <2>1, TakeEffect
  <2> QED
    BY <2>2 DEF BufferTypeOK, LogStep
<1>6. CASE StoreMove
  BY <1>6 DEF StoreMove, bufferVars, BufferTypeOK, LogStep
<1>7. CASE BackStep
  <2>1. PICK c \in Writers :
          /\ AppendRaises(c)
          /\ \/ Pends(proc(c), Requeued(c))
             \/ DropSeat(proc(c))
             \/ Accepts(proc(c), Requeued(c), <<>>)
    BY <1>7 DEF BackStep
  <2>2. proc(c) \in Procs /\ Requeued(c) \in Seq(Frame)
    BY WriterIs, RequeuedIsSeq DEF LogInv
  <2>3. CASE Pends(proc(c), Requeued(c))
    <3> DEFINE p == proc(c)
               q == Requeued(c)
    <3>1. p \in Procs /\ q \in Seq(Frame) /\ pending' = [pending EXCEPT ![p] = q]
          /\ open' = open /\ sent' = sent /\ made' = made
      BY <2>2, <2>3 DEF Pends
    <3> HIDE DEF p, q
    <3>2. pending' \in [Procs -> Seq(Frame)]
      BY <3>1 DEF BufferTypeOK
    <3> QED
      BY <2>1, <3>1, <3>2 DEF BufferTypeOK, LogStep
  <2> QED
    BY <1>0, <1>1, <2>1, <2>2, <2>3 DEF LogStep
<1>8. CASE DieStep
  <2>1. PICK p \in Procs : DropSeat(p) /\ Abandon({p} \X Lanes)
    BY <1>8 DEF DieStep
  <2>2. {p} \X Lanes \in SUBSET Writers
    BY DEF Writers
  <2> QED
    BY <1>0, <2>1, <2>2 DEF LogStep
<1> QED
  BY <1>2, <1>3, <1>4, <1>5, <1>6, <1>7, <1>8 DEF BufferStep

-----------------------------------------------------------------------------
(* THE TASKS                                                               *)

LEMMA GotoKeeps ==
  ASSUME TaskTypeOK, NEW c, NEW where \in {"off", "cancelled", "stopping"} \cup FlushPcs \cup GraphPcs,
         Goto(c, where), UNCHANGED <<token, written, lost, titled>>
  PROVE  TaskTypeOK'
BY DEF TaskTypeOK, Goto

LEMMA StartsKeeps ==
  ASSUME TaskTypeOK, NEW w, Starts(w), UNCHANGED <<token, written, lost, titled>>
  PROVE  TaskTypeOK'
BY DEF TaskTypeOK, Starts, FlushPcs, GraphPcs

(* Where a flush returns to.                                               *)
LEMMA ReturnTasks ==
  ASSUME TaskTypeOK, NEW c \in Writers, NEW q, Return(c, q)
  PROVE  TaskTypeOK' /\ \A w \in Workers : written'[w] \in {"none", written[w]}
<1>1. CASE UNCHANGED taskVars
  BY <1>1 DEF taskVars, TaskTypeOK
<1>2. CASE Moves(c, "off") \/ Moves(c, "graph")
  BY <1>2, GotoKeeps DEF Moves, GraphPcs
<1>3. CASE Starts(proc(c)) /\ pc[c] = "resuming" /\ UNCHANGED <<token, written, lost, titled>>
  BY <1>3, StartsKeeps
<1>4. CASE /\ pc[c] = "final" /\ Goto(c, "off") /\ UNCHANGED <<token, titled>>
           /\ written' = [written EXCEPT ![proc(c)] = "none"]
           /\ lost'    = [lost EXCEPT ![proc(c)] = FALSE]
  BY <1>4 DEF TaskTypeOK, Goto
<1> QED
  BY <1>1, <1>2, <1>3, <1>4 DEF Return

(* The types of the tasks, and where an outcome that is known comes from.  *)
TasksKept ==
  /\ TaskTypeOK'
  /\ \A w \in Workers : \/ written'[w] \in {"none", written[w]}
                        \/ status'[run] \in Terminal /\ written'[w] = status'[run]

LEMMA StayingTasks == TaskTypeOK /\ UNCHANGED taskVars => TasksKept
BY DEF TaskTypeOK, taskVars, TasksKept

LEMMA GoneTasks ==
  ASSUME TaskTypeOK, NEW c, NEW where \in {"off", "cancelled", "stopping"} \cup FlushPcs \cup GraphPcs,
         Goto(c, where), UNCHANGED <<token, written, lost, titled>>
  PROVE  TasksKept
BY GotoKeeps DEF TasksKept

LEMMA ApiTasks ==
  ASSUME TaskTypeOK, Announcing \/ Exhaust
  PROVE  TasksKept
<1>1. CASE Exhaust
  BY <1>1, StayingTasks DEF Exhaust
<1>2. CASE Create \/ ResumeWithInput
  BY <1>2, GoneTasks DEF Create, ResumeWithInput, FlushPcs
<1>3. CASE Cancel
  <2>1. CASE Goto(Side(Api), "settle")
    BY <1>3, <2>1, GoneTasks DEF Cancel, FlushPcs
  <2>2. CASE UNCHANGED pc
    BY <1>3, <2>2, StayingTasks DEF Cancel, taskVars
  <2> QED
    BY <1>3, <2>1, <2>2 DEF Cancel
<1> QED
  BY <1>1, <1>2, <1>3 DEF Announcing

LEMMA ConcludeTasks ==
  ASSUME RowTypeOK, TaskTypeOK, NEW w \in Workers, NEW s \in Terminal, Conclude(w, s)
  PROVE  TasksKept
<1>1. /\ pc' \in [Writers -> {"off", "cancelled", "stopping"} \cup FlushPcs \cup GraphPcs]
      /\ token' \in [Workers -> Nat] /\ titled' = titled
  BY DEF Conclude, Goto, TaskTypeOK
<1>2. CASE /\ status'[run] = s /\ UNCHANGED lost
           /\ written' = [written EXCEPT ![w] = s]
  BY <1>1, <1>2 DEF TasksKept, TaskTypeOK
<1>3. CASE UNCHANGED written /\ lost' = [lost EXCEPT ![w] = TRUE]
  BY <1>1, <1>3 DEF TasksKept, TaskTypeOK
<1>4. ASSUME NEW why, Persist(run, w, token[w], s, why) PROVE status'[run] = s
  BY <1>4, OneRun DEF Persist, WriteTerminal, RowTypeOK
<1> QED
  BY <1>2, <1>3, <1>4 DEF Conclude

LEMMA WorkTasks ==
  ASSUME RowTypeOK, RowTypeOK', TaskTypeOK, NEW w \in Workers, Working(w)
  PROVE  TasksKept
<1>1. CASE ClaimRun(w)
  <2>1. token' \in [Workers -> Nat]
    <3>1. fence'[run] \in Nat
      BY OneRun DEF RowTypeOK
    <3> QED
      BY <1>1, <3>1 DEF ClaimRun, TaskTypeOK
  <2>2. pc' \in [Writers -> {"off", "cancelled", "stopping"} \cup FlushPcs \cup GraphPcs]
    BY <1>1 DEF ClaimRun, Starts, Goto, TaskTypeOK, FlushPcs, GraphPcs
  <2> QED
    BY <1>1, <2>1, <2>2 DEF ClaimRun, TaskTypeOK, TasksKept
<1>2. CASE SettleFromDelivery(w)
  BY <1>2, GoneTasks DEF SettleFromDelivery, FlushPcs
<1>3. CASE Headline(w)
  BY <1>3 DEF Headline, Goto, TaskTypeOK, TasksKept, FlushPcs, GraphPcs
<1>4. CASE AwaitInput(w)
  BY <1>4 DEF AwaitInput, Goto, TaskTypeOK, TasksKept
<1>5. CASE Interrupt(w)
  BY <1>5, GoneTasks DEF Interrupt
<1>6. CASE Release(w)
  BY <1>6 DEF Release, TaskTypeOK, TasksKept
<1>7. CASE FlusherStopped(w)
  BY <1>7 DEF FlusherStopped, TaskTypeOK, TasksKept, FlushPcs
<1>8. ASSUME NEW k \in Keys, Emit(w, k) PROVE TasksKept
  BY <1>8, StayingTasks DEF Emit
<1>9. ASSUME NEW s \in Terminal, Conclude(w, s) PROVE TasksKept
  BY <1>9, ConcludeTasks
<1> QED
  BY <1>1, <1>2, <1>3, <1>4, <1>5, <1>6, <1>7, <1>8, <1>9 DEF Working

LEMMA FlushTasks ==
  ASSUME TaskTypeOK, NEW c \in Writers, FlushStep(c)
  PROVE  TasksKept
<1>1. CASE Take(c) \/ AppendStep(c)
  BY <1>1, StayingTasks DEF Take, AppendStep
<1>2. CASE FlushReturns(c) \/ FlushFails(c)
  BY <1>2, ReturnTasks DEF FlushReturns, FlushFails, TasksKept
<1>3. CASE FlushCancelled(c)
  <2>1. CASE UNCHANGED taskVars
    BY <2>1, StayingTasks
  <2>2. CASE Moves(c, "stopping") \/ Moves(c, "cancelled")
    BY <2>2, GoneTasks DEF Moves
  <2>3. CASE /\ token' = token \/ token' = [token EXCEPT ![proc(c)] = 0]
             /\ Goto(c, "off") /\ UNCHANGED <<written, lost, titled>>
    BY <2>3 DEF Goto, TaskTypeOK, TasksKept
  <2> QED
    BY <1>3, <2>1, <2>2, <2>3 DEF FlushCancelled
<1> QED
  BY <1>1, <1>2, <1>3 DEF FlushStep

LEMMA NextKeepsTasks ==
  RowTypeOK /\ RowTypeOK' /\ TaskTypeOK /\ [Next]_vars => TasksKept
<1> SUFFICES ASSUME RowTypeOK, RowTypeOK', TaskTypeOK, [Next]_vars PROVE TasksKept
  OBVIOUS
<1>1. CASE UNCHANGED vars
  BY <1>1, StayingTasks DEF vars
<1>2. ASSUME NEW p \in Procs, Evict(p) PROVE TasksKept
  BY <1>2, StayingTasks DEF Evict
<1>3. ASSUME NEW p \in Procs, Crash(p) PROVE TasksKept
  BY <1>3 DEF Crash, TaskTypeOK, TasksKept
<1>4. ASSUME NEW i \in Readers, Streaming(i) \/ Disconnect(i) PROVE TasksKept
  BY <1>4, StayingTasks DEF Streaming, Connect, ReadTail, ReadAgain, ReadStatus, Disconnect
<1> QED
  BY <1>1, <1>2, <1>3, <1>4, ApiTasks, WorkTasks, FlushTasks DEF Next

-----------------------------------------------------------------------------
(* WHAT IS STORED                                                          *)

Core ==
  /\ RowTypeOK /\ LogInv /\ BufferTypeOK /\ TaskTypeOK
  /\ SeatsCount /\ SentKept /\ OwnFrames /\ OutcomeKnown /\ DoneKnown

LEMMA CoreInit == Init => Core
<1> SUFFICES ASSUME Init PROVE Core
  OBVIOUS
<1>1. LogInv
  BY LogInitOK DEF Init
<1>2. RowTypeOK
  BY NobodyIsNoWorker DEF Init, RowInit, RowTypeOK, Reasons
<1>3. BufferTypeOK /\ SeatsCount
  BY Empties DEF Init, BufferTypeOK, SeatsCount
<1>4. TaskTypeOK /\ OutcomeKnown
  BY DEF Init, TaskTypeOK, OutcomeKnown
<1>5. \A p \in Procs : Held(p) = {} /\ sent[p] = {}
  BY Empties, WriterIs DEF Init, LogInit, Held
<1>6. Stored = {}
  BY DEF Init, LogInit, Stored
<1>7. SentKept /\ OwnFrames /\ DoneKnown
  BY <1>5, <1>6 DEF SentKept, OwnFrames, DoneKnown, TellsOutcome
<1> QED
  BY <1>1, <1>2, <1>3, <1>4, <1>7 DEF Core

LEMMA CoreNext == Core /\ [Next]_vars => Core' /\ Flows /\ BufferStep /\ Grows
                                         /\ (status[run] \in Terminal => status'[run] = status[run])
<1> SUFFICES ASSUME Core, [Next]_vars
             PROVE  Core' /\ Flows /\ BufferStep /\ Grows
                    /\ (status[run] \in Terminal => status'[run] = status[run])
  OBVIOUS
<1>1. RowTypeOK' /\ (status[run] \in Terminal => status'[run] = status[run])
  BY NextMovesRow, RowKeeps DEF Core
<1>2. TasksKept
  BY <1>1, NextKeepsTasks DEF Core
<1>3. BufferStep
  BY NextMovesBuffers DEF Core, Ready, LogInv
<1>4. BufferTypeOK' /\ LogStep /\ Flows
  BY <1>3, BuffersKeepTypes, BuffersFlow DEF Core
<1>5. LogInv' /\ Grows
  BY <1>4, LogStepKeeps DEF Core
<1>6. OutcomeKnown'
  <2> SUFFICES ASSUME NEW w \in Workers, written'[w] # "none"
               PROVE  status'[run] \in Terminal /\ written'[w] = status'[run]
    BY DEF OutcomeKnown
  <2>1. CASE written'[w] = written[w]
    BY <1>1, <2>1 DEF Core, OutcomeKnown
  <2> QED
    BY <1>2, <2>1 DEF TasksKept
<1>7. SeatsCount'
  BY <1>4 DEF Flows, Flow, SeatsCount
<1>8. SentKept'
  <2> SUFFICES ASSUME NEW p \in Procs, NEW f \in sent'[p] PROVE Covers(Held(p)' \cup Stored', f)
    BY DEF SentKept
  <2>1. /\ \A g \in Held(p) \cup Stored : Covers(Held(p)' \cup Stored', g)
        /\ f \in sent[p] \/ f \in Held(p)'
    BY <1>4 DEF Flows, Flow
  <2>2. CASE f \in Held(p)'
    BY <2>2 DEF Covers
  <2>3. CASE f \in sent[p]
    BY <2>1, <2>3, CoversThrough DEF Core, SentKept
  <2> QED
    BY <2>1, <2>2, <2>3
<1>9. OwnFrames'
  BY <1>4 DEF Flows, Flow, Core, OwnFrames
<1>10. DoneKnown'
  <2>1. ASSUME NEW f, f.key = DoneKey,
               f \in Stored \/ \E p \in Procs : f \in Held(p)
        PROVE  status'[run] \in Terminal /\ f.says = status'[run]
    BY <1>1, <2>1 DEF Core, DoneKnown, TellsOutcome
  <2>2. ASSUME NEW f, f.key = DoneKey, NEW p \in Procs, f \in Held(p)'
        PROVE  status'[run] \in Terminal /\ f.says = status'[run]
    <3>1. f \in Held(p) \/ TellsRow(f.key, f.says)
      BY <1>4, <2>2 DEF Flows, Flow
    <3> QED
      BY <2>1, <2>2, <3>1 DEF TellsRow
  <2>3. ASSUME NEW f, f.key = DoneKey, f \in Stored'
        PROVE  status'[run] \in Terminal /\ f.says = status'[run]
    BY <1>4, <2>1, <2>3 DEF Flows
  <2> QED
    BY <2>2, <2>3 DEF DoneKnown, TellsOutcome
<1> QED
  BY <1>1, <1>2, <1>3, <1>4, <1>5, <1>6, <1>7, <1>8, <1>9, <1>10 DEF Core, TasksKept

LEMMA AlwaysCore == Spec => []Core
BY CoreInit, CoreNext, PTL DEF Spec

(* A keyed frame is stored once, however many processes write it and       *)
(* however often a lost commit makes them write it again.                  *)
THEOREM StoredOnce == Spec => []OncePerKey
<1>1. Core => OncePerKey
  BY DEF Core, LogInv
<1> QED
  BY <1>1, AlwaysCore, PTL

(* The numbers have no hole, whatever transactions fail or run at a time.  *)
THEOREM NumbersAreDense == Spec => []SeqDense
<1>1. Core => SeqDense
  BY DEF Core, LogInv, Numbering, Length, SeqDense
<1> QED
  BY <1>1, AlwaysCore, PTL

(* What a buffer with a seat has accepted waits, is being appended, or is  *)
(* stored, or a frame with its key is.                                     *)
THEOREM NothingIsLost == Spec => []FramesKept
<1>1. Core => FramesKept
  BY DEF Core, SentKept, Covers, FramesKept
<1> QED
  BY <1>1, AlwaysCore, PTL

(* A done frame tells the status of the row.                               *)
THEOREM DoneIsTrue == Spec => []DoneTellsRow
<1>1. Core => DoneTellsRow
  <2> SUFFICES ASSUME Core,
                      NEW f \in (UNION {Held(p) : p \in Procs}) \cup Stored, f.key = DoneKey
               PROVE  f.says = status[run]
    BY DEF DoneTellsRow
  <2>1. CASE f \in Stored
    BY <2>1 DEF Core, DoneKnown, TellsOutcome
  <2>2. CASE f \notin Stored
    <3>1. PICK S \in {Held(p) : p \in Procs} : f \in S
      BY <2>2
    <3>2. PICK p \in Procs : f \in Held(p)
      BY <3>1
    <3> QED
      BY <3>2 DEF Core, DoneKnown, TellsOutcome
  <2> QED
    BY <2>1, <2>2
<1> QED
  BY <1>1, AlwaysCore, PTL

-----------------------------------------------------------------------------
(* WHAT THE STREAMS SHOW                                                   *)

LEMMA SameCount == ASSUME NEW S PROVE Stream!Cardinality(S) = Cardinality(S)
BY DEF Stream!Cardinality, Cardinality, Stream!IsFiniteSet, IsFiniteSet

(* There are as many rows as numbers.                                      *)
LEMMA LogCount == LogInv => Cardinality(log) = Length /\ Length \in Nat /\ Stream!Whole(log)
<1> SUFFICES ASSUME LogInv PROVE Cardinality(log) = Length /\ Length \in Nat /\ Stream!Whole(log)
  OBVIOUS
<1> DEFINE n == Length
           f == [e \in log |-> e.seq]
<1>1. n \in Nat /\ {e.seq : e \in log} = 1..n /\ \A d, e \in log : d.seq = e.seq => d = e
  BY DEF LogInv, Numbering
<1> HIDE DEF n
<1>2. f \in [log -> 1..n] /\ \A d, e \in log : f[d] = f[e] => d = e
  BY <1>1
<1>3. \A k \in 1..n : \E e \in log : f[e] = k
  BY <1>1
<1> HIDE DEF f
<1>4. f \in Injection(log, 1..n) /\ f \in Surjection(log, 1..n)
  BY <1>2, <1>3 DEF Injection, IsInjective, Surjection
<1>5. IsFiniteSet(1..n) /\ Cardinality(1..n) = n
  <2>1. n \in Int /\ 1 \in Int
    BY <1>1
  <2>2. IsFiniteSet(1..n) /\ Cardinality(1..n) = IF 1 > n THEN 0 ELSE n - 1 + 1
    BY <2>1, FS_Interval
  <2> QED
    BY <1>1, <2>2
<1>6. Cardinality(log) = n
  BY <1>4, <1>5, FS_Injection
<1>7. Stream!Whole(log)
  BY <1>1, <1>6, SameCount DEF Stream!Whole, Stream!Numbers
<1> QED
  BY <1>1, <1>6, <1>7 DEF n

(* What a read finds after number k: the rest, or nothing.                 *)
LEMMA Finds ==
  ASSUME LogInv, NEW k \in 0..Length
  PROVE  /\ {e.seq : e \in After(k)} = (k + 1)..Length
         /\ Latest(k, After(k)) = Length
<1>1. /\ Length \in Nat /\ {e.seq : e \in log} = 1..Length
      /\ \A d, e \in log : d.seq = e.seq => d = e
  BY DEF LogInv, Numbering
<1>2. {e.seq : e \in After(k)} = (k + 1)..Length
  <2>1. {e.seq : e \in After(k)} \subseteq (k + 1)..Length
    BY <1>1 DEF After
  <2>2. ASSUME NEW m \in (k + 1)..Length PROVE \E e \in After(k) : e.seq = m
    <3>1. m \in 1..Length /\ m > k
      BY <1>1
    <3>2. PICK e \in log : e.seq = m
      BY <1>1, <3>1
    <3> QED
      BY <3>1, <3>2 DEF After
  <2> QED
    BY <2>1, <2>2
<1>3. Latest(k, After(k)) = Length
  <2>1. CASE k = Length
    <3>1. After(k) = {}
      BY <1>1, <1>2, <2>1
    <3> QED
      BY <2>1, <3>1 DEF Latest
  <2>2. CASE k < Length
    <3>1. Length \in (k + 1)..Length
      BY <1>1, <2>2
    <3>2. PICK e \in After(k) : e.seq = Length
      BY <1>2, <3>1
    <3>3. \A d \in After(k) : d.seq \in (k + 1)..Length
      BY <1>2
    <3>4. \A d \in After(k) : d.seq <= e.seq
      BY <1>1, <3>2, <3>3
    <3> DEFINE top == CHOOSE e2 \in After(k) : \A d \in After(k) : d.seq <= e2.seq
    <3>5. top \in After(k) /\ \A d \in After(k) : d.seq <= top.seq
      BY <3>4
    <3>6. Latest(k, After(k)) = top.seq
      BY <3>2 DEF Latest
    <3> HIDE DEF top
    <3>7. top.seq = Length
      BY <1>1, <3>2, <3>3, <3>5
    <3> QED
      BY <3>6, <3>7
  <2> QED
    BY <1>1, <2>1, <2>2
<1> QED
  BY <1>2, <1>3

LEMMA DoneIsSettled == ASSUME Core, NEW R \in SUBSET log, HasDone(R) PROVE status[run] \in Terminal
<1>1. PICK e \in R : e.frame.key = DoneKey
  BY DEF HasDone
<1>2. e.frame \in Stored
  BY DEF Stored
<1> QED
  BY <1>1, <1>2 DEF Core, DoneKnown, TellsOutcome

ReaderTypeOK ==
  /\ rpc  \in [Readers -> {"off", "tail", "again", "status", "ended"}]
  /\ last \in [Readers -> Nat]
  /\ seen \in [Readers -> Nat]
  /\ got  \in [Readers -> SUBSET Nat]

(* A client is told the end only of a settled run.                         *)
EndIsReal == \A i \in Readers : rpc[i] = "ended" => status[run] \in Terminal

(* What a step does to the streams.                                        *)
IdleReaders == UNCHANGED readerVars /\ (UNCHANGED rowVars \/ UNCHANGED log)
CutReaders  ==
  /\ UNCHANGED <<rowVars, log, last, seen, got>>
  /\ rpc' \in [Readers -> {"off", "tail", "again", "status", "ended"}]
  /\ \A i \in Readers : rpc'[i] \in {rpc[i], "off"} /\ (rpc'[i] = "ended" <=> rpc[i] = "ended")

LEMMA NextMovesReaders ==
  ReaderTypeOK /\ [Next]_vars =>
    IdleReaders \/ CutReaders \/ \E i \in Readers : Streaming(i)
<1> SUFFICES ASSUME ReaderTypeOK, [Next]_vars
             PROVE  IdleReaders \/ CutReaders \/ \E i \in Readers : Streaming(i)
  OBVIOUS
<1>1. CASE UNCHANGED vars
  BY <1>1 DEF vars, IdleReaders
<1>2. CASE Announcing \/ Exhaust
  BY <1>2 DEF Announcing, Create, ResumeWithInput, Cancel, Exhaust, IdleReaders,
              logVars, storeVars, readerVars
<1>3. ASSUME NEW w \in Workers, Working(w) PROVE IdleReaders
  <2>1. UNCHANGED logVars /\ UNCHANGED readerVars
    BY <1>3 DEF Working, ClaimRun, SettleFromDelivery, Headline, AwaitInput, Interrupt, Release,
                FlusherStopped, Emit, Conclude
  <2> QED
    BY <2>1 DEF IdleReaders, logVars, storeVars
<1>4. ASSUME NEW c \in Writers, FlushStep(c) PROVE IdleReaders
  BY <1>4 DEF FlushStep, Take, AppendStep, FlushReturns, FlushFails, FlushCancelled, IdleReaders
<1>5. ASSUME NEW p \in Procs, Evict(p) PROVE IdleReaders
  BY <1>5 DEF Evict, IdleReaders
<1>6. ASSUME NEW p \in Procs, Crash(p) PROVE CutReaders
  BY <1>6 DEF Crash, Abandon, Rollback, CutReaders, ReaderTypeOK
<1>7. ASSUME NEW i \in Readers, Disconnect(i) PROVE CutReaders
  BY <1>7 DEF Disconnect, At, CutReaders, ReaderTypeOK, logVars, storeVars
<1> QED
  BY <1>1, <1>2, <1>3, <1>4, <1>5, <1>6, <1>7 DEF Next

(* A read that ends with number k, and goes on where.                      *)
Receive(i, k, where) ==
  /\ k \in seen[i]..Length
  /\ seen' = [seen EXCEPT ![i] = k]
  /\ got' = [got EXCEPT ![i] = 1..k]
  /\ last' \in [Readers -> Nat] /\ \A j \in Readers \ {i} : last'[j] = last[j]
  /\ At(i, where) /\ rpc[i] # "ended"
  /\ where = "ended" => status[run] \in Terminal
  /\ where \in {"tail", "again"} => last'[i] = k
  /\ where = "status" => last'[i] \in k..Length
  /\ UNCHANGED <<rowVars, log, eventSeq, lock, first>>

LEMMA StreamingReceives ==
  ASSUME Core, ReaderTypeOK, Reading, NEW i \in Readers, Streaming(i)
  PROVE  \E k \in Nat, where \in {"tail", "again", "status", "ended"} : Receive(i, k, where)
<1> DEFINE R == After(last[i])
           n == Length
<1>0. n \in Nat /\ last[i] \in Nat /\ seen[i] \in Nat /\ got[i] = 1..seen[i] /\ seen[i] <= n
  BY LogCount DEF Core, ReaderTypeOK, Reading
<1>a. seen[i] \in seen[i]..n /\ n \in seen[i]..n
  BY <1>0
<1>1. UNCHANGED <<rowVars, log, eventSeq, lock, first>>
  BY DEF Streaming, Connect, ReadTail, ReadAgain, ReadStatus, logVars, storeVars, txVars
<1>2. R \in SUBSET log /\ (HasDone(R) => status[run] \in Terminal)
  BY DoneIsSettled DEF After
<1>3. last[i] <= n => {e.seq : e \in R} = (last[i] + 1)..n /\ Latest(last[i], R) = n
  <2>1. last[i] <= n => last[i] \in 0..n
    BY <1>0
  <2> QED
    BY <2>1, Finds DEF Core
<1>4. CASE Connect(i)
  <2>1. /\ At(i, "tail") /\ last' = [last EXCEPT ![i] = seen[i]] /\ UNCHANGED <<seen, got>>
        /\ rpc[i] = "off"
    BY <1>4 DEF Connect
  <2>2. /\ last' \in [Readers -> Nat] /\ last'[i] = seen[i]
        /\ \A j \in Readers \ {i} : last'[j] = last[j]
    BY <1>0, <2>1 DEF ReaderTypeOK
  <2>3. seen' = [seen EXCEPT ![i] = seen[i]] /\ got' = [got EXCEPT ![i] = 1..seen[i]]
    BY <1>0, <2>1 DEF ReaderTypeOK
  <2>4. Receive(i, seen[i], "tail")
    BY <1>a, <1>1, <2>1, <2>2, <2>3, Zenon DEF Receive
  <2> QED
    BY <1>0, <2>4
<1>5. CASE ReadTail(i)
  <2>1. last[i] = seen[i] /\ last[i] <= n
    BY <1>0, <1>5 DEF ReadTail, Reading
  <2>2. 1..seen[i] \cup (last[i] + 1)..n = 1..n
    BY <1>0, <2>1
  <2>3. /\ last' = [last EXCEPT ![i] = n] /\ seen' = [seen EXCEPT ![i] = n]
        /\ got' = [got EXCEPT ![i] = 1..n]
    BY <1>0, <1>3, <1>5, <2>1, <2>2 DEF ReadTail, Receives
  <2>4. PICK where \in {"tail", "again", "ended"} :
          At(i, where) /\ (where = "ended" => HasDone(R))
    BY <1>5 DEF ReadTail, Ends
  <2>5. /\ last' \in [Readers -> Nat] /\ last'[i] = n
        /\ \A j \in Readers \ {i} : last'[j] = last[j]
    BY <1>0, <2>3 DEF ReaderTypeOK
  <2>6. rpc[i] # "ended"
    BY <1>5 DEF ReadTail
  <2> HIDE DEF R
  <2>7. Receive(i, n, where)
    BY <1>0, <1>1, <1>2, <2>3, <2>4, <2>5, <2>6 DEF Receive
  <2> HIDE DEF n
  <2> QED
    BY <1>0, <2>4, <2>7
<1>6. CASE ReadAgain(i)
  <2>1. last[i] = seen[i] /\ last[i] <= n
    BY <1>0, <1>6 DEF ReadAgain, Reading
  <2>2. 1..seen[i] \cup (last[i] + 1)..n = 1..n
    BY <1>0, <2>1
  <2>3. last' = [last EXCEPT ![i] = n] /\ rpc[i] # "ended"
    BY <1>3, <1>6, <2>1 DEF ReadAgain
  <2>4. /\ last' \in [Readers -> Nat] /\ last'[i] = n
        /\ \A j \in Readers \ {i} : last'[j] = last[j]
    BY <1>0, <2>3 DEF ReaderTypeOK
  <2>5. CASE HasDone(R) /\ Ends(i) /\ seen' = [seen EXCEPT ![i] = Latest(seen[i], R)] /\ Receives(i, R)
    <3>1. seen' = [seen EXCEPT ![i] = n] /\ got' = [got EXCEPT ![i] = 1..n] /\ At(i, "ended")
      BY <1>0, <1>3, <2>1, <2>2, <2>5 DEF Receives, Ends
    <3> HIDE DEF R
    <3>2. Receive(i, n, "ended")
      BY <1>a, <1>1, <1>2, <2>3, <2>4, <2>5, <3>1, Zenon DEF Receive
    <3> QED
      BY <1>0, <3>2
  <2>6. CASE At(i, "status") /\ UNCHANGED <<seen, got>>
    <3>1. seen' = [seen EXCEPT ![i] = seen[i]] /\ got' = [got EXCEPT ![i] = 1..seen[i]]
      BY <1>0, <2>6 DEF ReaderTypeOK
    <3>2. last'[i] \in seen[i]..n
      BY <1>0, <2>4
    <3>3. Receive(i, seen[i], "status")
      BY <1>a, <1>1, <2>3, <2>4, <2>6, <3>1, <3>2, Zenon DEF Receive
    <3> QED
      BY <1>0, <3>3
  <2> QED
    BY <1>6, <2>5, <2>6 DEF ReadAgain
<1>7. CASE ReadStatus(i)
  <2> DEFINE k == last[i]
  <2>1. k \in seen[i]..n /\ last' = last /\ rpc[i] # "ended"
    BY <1>0, <1>7 DEF ReadStatus, Reading
  <2>2. {e.seq : e \in {e \in log : e.seq > seen[i] /\ e.seq <= k}} = (seen[i] + 1)..k
    <3>1. {e.seq : e \in log} = 1..n
      BY DEF Core, LogInv, Numbering
    <3>2. {e.seq : e \in {e \in log : e.seq > seen[i] /\ e.seq <= k}}
            = {m \in {e.seq : e \in log} : m > seen[i] /\ m <= k}
      OBVIOUS
    <3> QED
      BY <1>0, <2>1, <3>1, <3>2
  <2>3. 1..seen[i] \cup (seen[i] + 1)..k = 1..k
    BY <1>0, <2>1
  <2>4. seen' = [seen EXCEPT ![i] = k] /\ got' = [got EXCEPT ![i] = 1..k]
    BY <1>0, <1>7, <2>2, <2>3 DEF ReadStatus, Receives
  <2>5. PICK where \in {"tail", "ended"} :
          At(i, where) /\ (where = "ended" => status[run] \in Terminal)
    BY <1>7 DEF ReadStatus, Ends
  <2>6. last' \in [Readers -> Nat] /\ last'[i] = k /\ \A j \in Readers \ {i} : last'[j] = last[j]
    BY <2>1 DEF ReaderTypeOK
  <2>7. k \in Nat
    BY <1>0
  <2> HIDE DEF k
  <2>8. Receive(i, k, where)
    BY <1>1, <2>1, <2>4, <2>5, <2>6, <2>7 DEF Receive
  <2> QED
    BY <2>5, <2>7, <2>8
<1> QED
  BY <1>4, <1>5, <1>6, <1>7 DEF Streaming

StreamInv == Core /\ ReaderTypeOK /\ Reading /\ EndIsReal

LEMMA StreamInit == Init => StreamInv
<1> SUFFICES ASSUME Init PROVE StreamInv
  OBVIOUS
<1>1. Core
  BY CoreInit
<1>2. Length = 0
  BY DEF Init, LogInit, Length
<1>3. ReaderTypeOK /\ Reading /\ EndIsReal
  BY <1>2 DEF Init, ReaderTypeOK, Reading, EndIsReal
<1> QED
  BY <1>1, <1>3 DEF StreamInv

LEMMA StreamNext == StreamInv /\ [Next]_vars => StreamInv'
<1> SUFFICES ASSUME StreamInv, [Next]_vars PROVE StreamInv'
  OBVIOUS
<1>1. /\ Core /\ Core' /\ Length <= Length' /\ Length \in Nat /\ Length' \in Nat
      /\ status[run] \in Terminal => status'[run] = status[run]
  BY CoreNext DEF StreamInv, Grows, Core, LogInv, Numbering
<1>2. CASE IdleReaders
  <2>1. UNCHANGED <<rpc, last, seen, got>>
    BY <1>2 DEF IdleReaders, readerVars
  <2>2. ReaderTypeOK' /\ EndIsReal'
    BY <1>1, <2>1 DEF StreamInv, ReaderTypeOK, EndIsReal
  <2>3. Reading'
    <3> SUFFICES ASSUME NEW i \in Readers
                 PROVE  /\ got[i] = 1..seen[i] /\ seen[i] <= Length'
                        /\ rpc[i] \in {"tail", "again"} => last[i] = seen[i]
                        /\ rpc[i] = "status" => seen[i] <= last[i] /\ last[i] <= Length'
      BY <2>1 DEF Reading
    <3>1. seen[i] \in Nat /\ last[i] \in Nat
      BY DEF StreamInv, ReaderTypeOK
    <3> QED
      BY <1>1, <3>1 DEF StreamInv, Reading
  <2> QED
    BY <1>1, <2>2, <2>3 DEF StreamInv
<1>3. CASE CutReaders
  <2>1. UNCHANGED <<status, last, seen, got>>
    BY <1>3 DEF CutReaders, rowVars
  <2>2. ReaderTypeOK' /\ EndIsReal'
    BY <1>3, <2>1 DEF CutReaders, StreamInv, ReaderTypeOK, EndIsReal
  <2>3. Reading'
    <3> SUFFICES ASSUME NEW i \in Readers
                 PROVE  /\ got[i] = 1..seen[i] /\ seen[i] <= Length'
                        /\ rpc'[i] \in {"tail", "again"} => last[i] = seen[i]
                        /\ rpc'[i] = "status" => seen[i] <= last[i] /\ last[i] <= Length'
      BY <2>1 DEF Reading
    <3>1. seen[i] \in Nat /\ last[i] \in Nat /\ rpc'[i] \in {rpc[i], "off"}
      BY <1>3 DEF CutReaders, StreamInv, ReaderTypeOK
    <3> QED
      BY <1>1, <3>1 DEF StreamInv, Reading
  <2> QED
    BY <1>1, <2>2, <2>3 DEF StreamInv
<1>4. ASSUME NEW i \in Readers, Streaming(i) PROVE StreamInv'
  <2>1. PICK k \in Nat, where \in {"tail", "again", "status", "ended"} : Receive(i, k, where)
    BY <1>4, StreamingReceives DEF StreamInv
  <2>2. Length' = Length /\ UNCHANGED status
    BY <2>1 DEF Receive, Length, rowVars
  <2>3. ReaderTypeOK'
    BY <2>1 DEF Receive, At, StreamInv, ReaderTypeOK
  <2>4. EndIsReal'
    BY <2>1, <2>2 DEF Receive, At, StreamInv, ReaderTypeOK, EndIsReal
  <2>5. Reading'
    <3> SUFFICES ASSUME NEW j \in Readers
                 PROVE  /\ got'[j] = 1..seen'[j] /\ seen'[j] <= Length
                        /\ rpc'[j] \in {"tail", "again"} => last'[j] = seen'[j]
                        /\ rpc'[j] = "status" => seen'[j] <= last'[j] /\ last'[j] <= Length
      BY <2>2 DEF Reading
    <3>1. CASE j = i
      <4>1. seen'[i] = k /\ got'[i] = 1..k /\ rpc'[i] = where /\ seen[i] \in Nat
        BY <2>1 DEF Receive, At, StreamInv, ReaderTypeOK
      <4>2. k \in seen[i]..Length
        BY <2>1 DEF Receive
      <4>3. /\ where \in {"tail", "again"} => last'[i] = k
            /\ where = "status" => last'[i] \in k..Length
        BY <2>1 DEF Receive
      <4> QED
        BY <1>1, <3>1, <4>1, <4>2, <4>3
    <3>2. CASE j # i
      <4>1. seen'[j] = seen[j] /\ got'[j] = got[j] /\ rpc'[j] = rpc[j] /\ last'[j] = last[j]
        BY <2>1, <3>2 DEF Receive, At, StreamInv, ReaderTypeOK
      <4> QED
        BY <4>1 DEF StreamInv, Reading
    <3> QED
      BY <3>1, <3>2
  <2> QED
    BY <1>1, <2>3, <2>4, <2>5 DEF StreamInv
<1> QED
  BY <1>2, <1>3, <1>4, NextMovesReaders DEF StreamInv

LEMMA WholeNext == LogInv' => Stream!Whole(log)'
<1>1. LogInv => Stream!Whole(log)
  BY LogCount
<1> QED
  BY <1>1, PTL

(* What a step of the system is to its clients.                            *)
LEMMA StreamStep == StreamInv /\ [Next]_vars => [Stream!Next]_Stream!promiseVars
<1> SUFFICES ASSUME StreamInv, [Next]_vars PROVE [Stream!Next]_Stream!promiseVars
  OBVIOUS
<1> USE DEF Stream!Next, Stream!promiseVars
<1>0. /\ Core' /\ log \subseteq log' /\ LogInv /\ LogInv'
      /\ status[run] \in Terminal => status'[run] = status[run]
  BY CoreNext DEF StreamInv, Grows, Core
<1>1. CASE IdleReaders
  <2>1. UNCHANGED <<rpc, got>> /\ (UNCHANGED status \/ UNCHANGED log)
    BY <1>1 DEF IdleReaders, readerVars, rowVars
  <2>2. CASE UNCHANGED status
    <3>1. Stream!Store
      BY <1>0, <2>1, <2>2, WholeNext DEF Stream!Store, Stream!Whole
    <3> QED
      BY <3>1
  <2>3. CASE UNCHANGED log
    <3>1. CASE (status'[run] \in Terminal) = (status[run] \in Terminal)
      BY <2>1, <2>3, <3>1
    <3>2. CASE status[run] \notin Terminal /\ status'[run] \in Terminal
      <4>1. Stream!Settle
        BY <2>1, <2>3, <3>2 DEF Stream!Settle
      <4> QED
        BY <4>1
    <3> QED
      BY <1>0, <3>1, <3>2
  <2> QED
    BY <2>1, <2>2, <2>3
<1>2. CASE CutReaders
  <2>1. UNCHANGED <<log, status, got>> /\ \A i \in Readers : (rpc'[i] = "ended") = (rpc[i] = "ended")
    BY <1>2 DEF CutReaders, rowVars
  <2> QED
    BY <2>1
<1>3. ASSUME NEW i \in Readers, Streaming(i) PROVE Stream!Next
  <2>1. PICK k \in Nat, where \in {"tail", "again", "status", "ended"} : Receive(i, k, where)
    BY <1>3, StreamingReceives DEF StreamInv
  <2>2. UNCHANGED <<log, status>>
    BY <2>1 DEF Receive, rowVars
  <2>3. k \in 0..Stream!Cardinality(log) /\ got' = [got EXCEPT ![i] = 1..k]
    <3>1. k \in seen[i]..Length /\ seen[i] \in Nat /\ Length \in Nat
      BY <1>0, <2>1, LogCount DEF Receive, StreamInv, ReaderTypeOK
    <3>2. Stream!Cardinality(log) = Length
      BY <1>0, LogCount, SameCount
    <3> QED
      BY <2>1, <3>1, <3>2 DEF Receive
  <2>4. got[i] \subseteq got'[i]
    <3>1. k \in seen[i]..Length /\ seen[i] \in Nat /\ Length \in Nat
      BY <1>0, <2>1, LogCount DEF Receive, StreamInv, ReaderTypeOK
    <3>2. got[i] = 1..seen[i] /\ got'[i] = 1..k
      BY <2>1 DEF Receive, StreamInv, ReaderTypeOK, Reading
    <3> QED
      BY <3>1, <3>2
  <2>5. /\ where # "ended" => \A j \in Readers : (rpc'[j] = "ended") = (rpc[j] = "ended")
        /\ where = "ended" => /\ status[run] \in Terminal /\ rpc'[i] = "ended"
                              /\ \A j \in Readers \ {i} : rpc'[j] = rpc[j]
    BY <2>1 DEF Receive, At, StreamInv, ReaderTypeOK
  <2> DEFINE told  == [j \in Readers |-> rpc[j] = "ended"]
             told2 == [j \in Readers |-> rpc'[j] = "ended"]
  <2>6. told2 = told \/ (status[run] \in Terminal /\ told2 = [told EXCEPT ![i] = TRUE])
    <3>1. CASE where # "ended"
      BY <2>5, <3>1
    <3>2. CASE where = "ended"
      BY <2>5, <3>2
    <3> QED
      BY <3>1, <3>2
  <2>7. Stream!Deliver(i)
    BY <2>2, <2>3, <2>4, <2>6 DEF Stream!Deliver
  <2> QED
    BY <2>7
<1> QED
  BY <1>1, <1>2, <1>3, NextMovesReaders DEF StreamInv

LEMMA AlwaysStream == Spec => []StreamInv
BY StreamInit, StreamNext, PTL DEF Spec

(* Clients get a beginning of one sequence that only grows, over all       *)
(* breaks of their connections, and are told the end only when it is.      *)
THEOREM StreamIsKept == Spec => KeepsStream
<1>1. Init => Stream!Init
  <2> SUFFICES ASSUME Init PROVE Stream!Init
    OBVIOUS
  <2>1. log = {} /\ got = [i \in Readers |-> {}] /\ rpc = [i \in Readers |-> "off"]
    BY DEF Init, LogInit
  <2>2. (status[run] \in Terminal) = FALSE
    BY OneRun DEF Init, RowInit, Terminal
  <2>3. [i \in Readers |-> rpc[i] = "ended"] = [i \in Readers |-> FALSE]
    BY <2>1
  <2> QED
    BY <2>1, <2>2, <2>3 DEF Stream!Init
<1>2. StreamInv /\ [Next]_vars => [Stream!Next]_Stream!promiseVars
  BY StreamStep
<1> QED
  BY <1>1, <1>2, AlwaysStream, PTL DEF Spec, KeepsStream, Stream!Spec

-----------------------------------------------------------------------------
(* THE LAST WORD OF A WORKER                                               *)

(* Rows are added at the end, by a transaction that has taken numbers.     *)
LEMMA LogGrowth ==
  LogInv /\ LogStep =>
    \/ log' = log
    \/ \E c \in Writers : step[c] = "numbered" /\ step'[c] = "idle" /\ log' = log \cup Rows(c)
<1> SUFFICES ASSUME LogInv, LogStep, log' # log
             PROVE  \E c \in Writers : /\ step[c] = "numbered" /\ step'[c] = "idle"
                                      /\ log' = log \cup Rows(c)
  OBVIOUS
<1>1. PICK c \in Writers : Commits(c) /\ Leave({c})
  BY DEF LogStep, BeginAppend, storeVars, StoreStep, DropStored, Number, Clash, Commit,
         AppendRaises, Abandon, Rollback, logVars
<1>2. step'[c] = "idle"
  BY <1>1 DEF Leave
<1> QED
  BY <1>1, <1>2 DEF Commits

(* A step that leaves worker w alone.                                      *)
Same(w) ==
  /\ pending'[w] = pending[w] /\ lost'[w] = lost[w] /\ written'[w] = written[w]
  /\ \A c \in {Main(w), Side(w)} : /\ batch'[c] = batch[c] /\ todo'[c] = todo[c]
                                   /\ step'[c] = step[c] /\ pc'[c] = pc[c]

Acts(w) ==
  \/ Working(w) \/ FlushStep(Main(w)) \/ FlushStep(Side(w)) \/ Evict(w) \/ Crash(w)

(* The coroutines that belong to others.                                   *)
LEMMA OthersFlush ==
  ASSUME Core, NEW w \in Workers, NEW c \in Writers, proc(c) # w, FlushStep(c)
  PROVE  Same(w)
<1>1. w \in Procs /\ Main(w) \in Writers \ {c} /\ Side(w) \in Writers \ {c}
  BY WriterIs, HeldElsewhere
<1>2. proc(c) \in Procs
  BY WriterIs
<1>3. \A d \in Writers \ {c} : batch'[d] = batch[d] /\ todo'[d] = todo[d] /\ step'[d] = step[d]
  <2>1. CASE Take(c)
    <3>1. PICK k \in 0..Len(pending[proc(c)]) : BeginAppend(c, SubSeq(pending[proc(c)], 1, k))
      BY <2>1, TakeEffect DEF Core
    <3> QED
      BY <3>1 DEF BeginAppend, Goes, txVars, Core, LogInv, LogTypeOK
  <2>2. CASE AppendStep(c)
    BY <2>2, StoreEffect DEF AppendStep, Core
  <2>3. CASE FlushReturns(c)
    BY <2>3 DEF FlushReturns, logVars, txVars
  <2>4. CASE FlushFails(c) \/ FlushCancelled(c)
    BY <2>4, RaiseEffect DEF FlushFails, FlushCancelled, Core
  <2> QED
    BY <2>1, <2>2, <2>3, <2>4 DEF FlushStep
<1>4. pending'[w] = pending[w]
  <2>1. CASE Take(c)
    BY <1>1, <2>1, TakeEffect DEF Core
  <2>2. CASE AppendStep(c)
    BY <2>2 DEF AppendStep, bufferVars
  <2>3. CASE FlushReturns(c) \/ FlushFails(c) \/ FlushCancelled(c)
    <3>1. PICK q \in Seq(Frame) : Return(c, q) \/ Pends(proc(c), q)
      BY <2>3, Empties, RequeuedIsSeq
      DEF FlushReturns, FlushFails, FlushCancelled, Core, LogInv
    <3>2. Pends(proc(c), q) \/ DropSeat(proc(c)) \/ Accepts(proc(c), q, <<>>)
      BY <3>1, ReturnEffect DEF Core
    <3> QED
      BY <1>1, <3>2 DEF Pends, DropSeat, Accepts, Core, BufferTypeOK
  <2> QED
    BY <2>1, <2>2, <2>3 DEF FlushStep
<1>5. /\ pc'[Main(w)] = pc[Main(w)] /\ pc'[Side(w)] = pc[Side(w)]
      /\ lost'[w] = lost[w] /\ written'[w] = written[w]
  <2>1. CASE Take(c) \/ AppendStep(c)
    BY <2>1 DEF Take, AppendStep, taskVars
  <2>2. ASSUME NEW q, Return(c, q)
        PROVE  /\ pc'[Main(w)] = pc[Main(w)] /\ pc'[Side(w)] = pc[Side(w)]
               /\ lost'[w] = lost[w] /\ written'[w] = written[w]
    <3>1. Main(proc(c)) # Main(w) /\ Main(proc(c)) # Side(w)
          /\ Side(proc(c)) # Main(w) /\ Side(proc(c)) # Side(w)
      BY <1>1, <1>2, WriterIs
    <3>2. CASE UNCHANGED taskVars
      BY <3>2 DEF taskVars
    <3>3. CASE Moves(c, "off") \/ Moves(c, "graph")
      BY <1>1, <3>3 DEF Moves, Goto, Core, TaskTypeOK
    <3>4. CASE Starts(proc(c)) /\ UNCHANGED <<token, written, lost, titled>>
      BY <1>1, <3>1, <3>4 DEF Starts, Core, TaskTypeOK
    <3>5. CASE /\ Goto(c, "off")
               /\ written' = [written EXCEPT ![proc(c)] = "none"]
               /\ lost'    = [lost EXCEPT ![proc(c)] = FALSE]
      BY <1>1, <3>5 DEF Goto, Core, TaskTypeOK
    <3> QED
      BY <2>2, <3>2, <3>3, <3>4, <3>5 DEF Return
  <2>3. CASE FlushReturns(c) \/ FlushFails(c)
    BY <2>2, <2>3 DEF FlushReturns, FlushFails
  <2>4. CASE FlushCancelled(c)
    <3>1. CASE UNCHANGED taskVars
      BY <3>1 DEF taskVars
    <3>2. CASE \E where \in {"off", "stopping", "cancelled"} :
                 Goto(c, where) /\ UNCHANGED <<written, lost>>
      BY <1>1, <3>2 DEF Goto, Core, TaskTypeOK
    <3> QED
      BY <2>4, <3>1, <3>2 DEF FlushCancelled, Moves
  <2> QED
    BY <2>1, <2>3, <2>4 DEF FlushStep
<1> QED
  BY <1>1, <1>3, <1>4, <1>5 DEF Same

LEMMA SameOrActs ==
  ASSUME Core, NEW w \in Workers, [Next]_vars
  PROVE  Same(w) \/ Acts(w)
<1>0. w \in Procs /\ w # Api /\ Api \in Procs
  BY WriterIs
<1>1. /\ Main(w) \in Writers /\ Side(w) \in Writers
      /\ \A p \in Procs : /\ p # w => Main(p) \notin {Main(w), Side(w)}
                                      /\ Side(p) \notin {Main(w), Side(w)}
                          /\ Main(p) \in Writers /\ Side(p) \in Writers
  BY <1>0, WriterIs
<1>2. ASSUME UNCHANGED logVars, UNCHANGED <<lost, written>>, pending'[w] = pending[w],
             pc'[Main(w)] = pc[Main(w)], pc'[Side(w)] = pc[Side(w)]
      PROVE  Same(w)
  BY <1>2 DEF Same, logVars, txVars
<1>3. ASSUME NEW p \in Procs, p # w, DropSeat(p) PROVE pending'[w] = pending[w]
  BY <1>0, <1>3 DEF DropSeat, Core, BufferTypeOK
<1>4. ASSUME NEW p \in Procs, p # w, NEW ws, Write(p, ws) \/ OpenAndWrite(p, ws)
      PROVE  pending'[w] = pending[w]
  BY <1>0, <1>4 DEF Write, OpenAndWrite, OpenAndWriteAfter, bufferVars, Core, BufferTypeOK
<1>5. ASSUME NEW p \in Procs, p # w, NEW where, Goto(Main(p), where) \/ Goto(Side(p), where)
      PROVE  pc'[Main(w)] = pc[Main(w)] /\ pc'[Side(w)] = pc[Side(w)]
  BY <1>1, <1>5 DEF Goto, Core, TaskTypeOK
<1>6. CASE UNCHANGED vars
  BY <1>6, <1>2 DEF vars, bufferVars, taskVars
<1>7. CASE Announcing
  <2>1. CASE Create \/ ResumeWithInput
    BY <1>0, <1>2, <1>4, <1>5, <2>1 DEF Create, ResumeWithInput
  <2>2. CASE Cancel
    <3>1. CASE OpenAndWrite(Api, <<Done("cancelled")>>) /\ Goto(Side(Api), "settle")
      BY <1>0, <1>2, <1>4, <1>5, <2>2, <3>1 DEF Cancel
    <3>2. CASE UNCHANGED <<bufferVars, pc>>
      BY <1>2, <2>2, <3>2 DEF Cancel, bufferVars
    <3> QED
      BY <2>2, <3>1, <3>2 DEF Cancel
  <2> QED
    BY <1>7, <2>1, <2>2 DEF Announcing
<1>8. CASE Exhaust
  BY <1>2, <1>8 DEF Exhaust, bufferVars, taskVars
<1>9. ASSUME NEW v \in Workers, v # w, Working(v) PROVE Same(w)
  <2>0. v \in Procs
    BY WriterIs
  <2>1. UNCHANGED logVars
    BY <1>9 DEF Working, ClaimRun, SettleFromDelivery, Headline, AwaitInput, Interrupt, Release,
                FlusherStopped, Emit, Conclude
  <2>2. pending'[w] = pending[w]
    <3>1. CASE UNCHANGED bufferVars
      BY <3>1 DEF bufferVars
    <3>2. CASE \E ws : Write(v, ws) \/ OpenAndWrite(v, ws)
      BY <1>4, <1>9, <2>0, <3>2
    <3> QED
      BY <1>9, <3>1, <3>2 DEF Working, ClaimRun, SettleFromDelivery, Headline, AwaitInput,
            Interrupt, Release, FlusherStopped, Emit, Conclude
  <2>3. pc'[Main(w)] = pc[Main(w)] /\ pc'[Side(w)] = pc[Side(w)]
    <3>1. CASE UNCHANGED pc
      BY <3>1
    <3>2. CASE \E where : Goto(Main(v), where)
      BY <1>5, <1>9, <2>0, <3>2
    <3>3. CASE \E m, s : pc' = [pc EXCEPT ![Main(v)] = m, ![Side(v)] = s]
      BY <1>1, <1>9, <2>0, <3>3 DEF Core, TaskTypeOK
    <3> QED
      BY <1>9, <3>1, <3>2, <3>3 DEF Working, ClaimRun, SettleFromDelivery, Headline, AwaitInput,
            Interrupt, Release, FlusherStopped, Emit, Conclude, Starts, taskVars
  <2>4. lost'[w] = lost[w] /\ written'[w] = written[w]
    BY <1>9 DEF Working, ClaimRun, SettleFromDelivery, Headline, AwaitInput,
            Interrupt, Release, FlusherStopped, Emit, Conclude, taskVars, Core, TaskTypeOK
  <2> QED
    BY <2>1, <2>2, <2>3, <2>4 DEF Same, logVars, txVars
<1>10. ASSUME NEW c \in Writers, FlushStep(c) PROVE Same(w) \/ Acts(w)
  <2>1. CASE proc(c) # w
    BY <1>10, <2>1, OthersFlush
  <2>2. CASE proc(c) = w
    <3>1. c = Main(w) \/ c = Side(w)
      BY <2>2, WriterIs
    <3> QED
      BY <1>10, <3>1 DEF Acts
  <2> QED
    BY <2>1, <2>2
<1>11. ASSUME NEW p \in Procs, p # w, Evict(p) PROVE Same(w)
  BY <1>2, <1>3, <1>11 DEF Evict, taskVars
<1>12. ASSUME NEW p \in Procs, p # w, Crash(p) PROVE Same(w)
  <2>1. /\ pending'[w] = pending[w]
        /\ Leave({p} \X Lanes)
    BY <1>3, <1>12 DEF Crash, Abandon
  <2>2. Main(w) \notin {p} \X Lanes /\ Side(w) \notin {p} \X Lanes
    BY <1>12 DEF Main, Side
  <2>3. proc(Main(w)) # p /\ proc(Side(w)) # p
    BY <1>0, <1>12, WriterIs
  <2>4. /\ pc'[Main(w)] = pc[Main(w)] /\ pc'[Side(w)] = pc[Side(w)]
        /\ lost'[w] = lost[w] /\ written'[w] = written[w]
    BY <1>0, <1>1, <1>12, <2>3 DEF Crash, Core, TaskTypeOK
  <2> QED
    BY <1>1, <2>1, <2>2, <2>4 DEF Same, Leave
<1>13. ASSUME NEW i \in Readers, Streaming(i) \/ Disconnect(i) PROVE Same(w)
  <2>1. UNCHANGED logVars /\ UNCHANGED taskVars
    BY <1>13 DEF Streaming, Connect, ReadTail, ReadAgain, ReadStatus, Disconnect
  <2>2. UNCHANGED bufferVars \/ DropSeat(Api)
    BY <1>13 DEF Streaming, Connect, ReadTail, ReadAgain, ReadStatus, Disconnect, Ends, bufferVars
  <2>3. pending'[w] = pending[w]
    BY <1>0, <1>3, <2>2 DEF bufferVars
  <2> QED
    BY <1>2, <2>1, <2>3 DEF taskVars
<1> QED
  BY <1>6, <1>7, <1>8, <1>9, <1>10, <1>11, <1>12, <1>13 DEF Next, Acts

(* What the steps of a worker's coroutines leave of their appends.         *)
LEMMA FlushingSteps ==
  ASSUME Core, NEW c \in Writers, FlushStep(c)
  PROVE  /\ \A d \in Writers \ {c} : batch'[d] = batch[d] /\ todo'[d] = todo[d] /\ step'[d] = step[d]
         /\ \/ Take(c) /\ UNCHANGED taskVars
            \/ AppendStep(c) /\ step[c] # "idle" /\ UNCHANGED taskVars
            \/ FlushReturns(c) /\ step[c] = "idle" /\ step'[c] = "idle" /\ UNCHANGED logVars
            \/ (FlushFails(c) \/ FlushCancelled(c)) /\ step[c] # "idle" /\ step'[c] = "idle"
<1>1. CASE Take(c)
  <2>1. PICK k \in 0..Len(pending[proc(c)]) : BeginAppend(c, SubSeq(pending[proc(c)], 1, k))
    BY <1>1, TakeEffect DEF Core
  <2>2. UNCHANGED taskVars
    BY <1>1 DEF Take
  <2> QED
    BY <1>1, <2>1, <2>2 DEF BeginAppend, Goes, txVars, Core, LogInv, LogTypeOK
<1>2. CASE AppendStep(c)
  BY <1>2, StoreEffect DEF AppendStep, Core
<1>3. CASE FlushReturns(c)
  <2>1. UNCHANGED <<batch, todo, step>> /\ step[c] = "idle" /\ UNCHANGED logVars
    BY <1>3 DEF FlushReturns, logVars, txVars
  <2> QED
    BY <1>3, <2>1
<1>4. CASE FlushFails(c) \/ FlushCancelled(c)
  BY <1>4, RaiseEffect DEF FlushFails, FlushCancelled, Core
<1> QED
  BY <1>1, <1>2, <1>3, <1>4 DEF FlushStep

(* Where the flush of a worker's main coroutine leads to.                  *)
LEMMA MainFlush ==
  ASSUME Core, NEW w \in Workers, Coroutines(w), FlushStep(Main(w))
  PROVE  Coroutines(w)'
<1> DEFINE m == Main(w)
           s == Side(w)
<1>0. w \in Procs /\ m \in Writers /\ s \in Writers /\ s # m /\ proc(m) = w /\ proc(s) = w
  BY WriterIs
<1>1. step'[s] = step[s]
  BY <1>0, FlushingSteps
<1>2. CASE UNCHANGED taskVars /\ (Take(m) \/ step[m] # "idle")
  <2>1. UNCHANGED <<pc, lost, written>>
    BY <1>2 DEF taskVars
  <2>2. Flushing(m)
    BY <1>2 DEF Take, Coroutines
  <2> QED
    BY <1>0, <1>1, <2>1, <2>2 DEF Coroutines, Flushing
<1>3. CASE step'[m] = "idle" /\ \E q : Return(m, q)
  <2>1. CASE UNCHANGED taskVars
    BY <1>1, <1>3, <2>1 DEF taskVars, Coroutines, Flushing
  <2>2. CASE pc[m] \in {"settle", "announce"} /\ Moves(m, "off")
    <3>1. pc'[m] = "off" /\ pc'[s] = pc[s] /\ lost'[w] = lost[w] /\ written'[w] = written[w]
      BY <1>0, <2>2 DEF Moves, Goto, Core, TaskTypeOK
    <3> QED
      BY <1>1, <1>3, <2>2, <3>1 DEF Coroutines, Flushing
  <2>3. CASE pc[m] = "headline" /\ Moves(m, "graph")
    <3>1. pc'[m] = "graph" /\ pc'[s] = pc[s] /\ lost'[w] = lost[w] /\ written'[w] = written[w]
      BY <1>0, <2>3 DEF Moves, Goto, Core, TaskTypeOK
    <3> QED
      BY <1>1, <1>3, <2>3, <3>1 DEF Coroutines, Flushing
  <2>4. CASE pc[m] = "resuming" /\ Starts(w) /\ UNCHANGED <<token, written, lost, titled>>
    <3>1. pc'[m] = "early" /\ pc'[s] = "periodic" /\ lost'[w] = lost[w] /\ written'[w] = written[w]
      BY <1>0, <2>4 DEF Starts, Core, TaskTypeOK
    <3> QED
      BY <1>1, <1>3, <2>4, <3>1 DEF Coroutines, Flushing, FlushPcs
  <2>5. CASE /\ pc[m] = "final" /\ Goto(m, "off")
             /\ written' = [written EXCEPT ![w] = "none"]
             /\ lost'    = [lost EXCEPT ![w] = FALSE]
    <3>1. pc'[m] = "off" /\ pc'[s] = pc[s] /\ lost'[w] = FALSE /\ written'[w] = "none"
      BY <1>0, <2>5 DEF Goto, Core, TaskTypeOK
    <3> QED
      BY <1>1, <1>3, <2>5, <3>1 DEF Coroutines, Flushing
  <2> QED
    BY <1>0, <1>3, <2>1, <2>2, <2>3, <2>4, <2>5 DEF Return
<1>4. CASE FlushCancelled(m) /\ step'[m] = "idle"
  <2>1. CASE UNCHANGED taskVars
    BY <1>1, <1>4, <2>1 DEF taskVars, Coroutines, Flushing
  <2>2. CASE pc[m] = "headline" /\ \E where \in {"stopping", "cancelled"} : Moves(m, where)
    <3>1. pc'[m] \in {"stopping", "cancelled"} /\ pc'[s] = pc[s]
          /\ lost'[w] = lost[w] /\ written'[w] = written[w]
      BY <1>0, <2>2 DEF Moves, Goto, Core, TaskTypeOK
    <3> QED
      BY <1>1, <1>4, <2>2, <3>1 DEF Coroutines, Flushing
  <2>3. CASE pc[m] = "resuming" /\ Goto(m, "off") /\ UNCHANGED <<written, lost, titled>>
    <3>1. pc'[m] = "off" /\ pc'[s] = pc[s] /\ lost'[w] = lost[w] /\ written'[w] = written[w]
      BY <1>0, <2>3 DEF Goto, Core, TaskTypeOK
    <3> QED
      BY <1>1, <1>4, <2>3, <3>1 DEF Coroutines, Flushing
  <2> QED
    BY <1>4, <2>1, <2>2, <2>3 DEF FlushCancelled
<1> QED
  BY <1>0, <1>2, <1>3, <1>4, FlushingSteps DEF FlushReturns, FlushFails

(* The periodic flush stays where it is.                                   *)
LEMMA SideFlush ==
  ASSUME Core, NEW w \in Workers, Coroutines(w), FlushStep(Side(w))
  PROVE  /\ Coroutines(w)' /\ pc[Side(w)] = "periodic"
         /\ pc'[Main(w)] = pc[Main(w)]
<1> DEFINE m == Main(w)
           s == Side(w)
<1>0. w \in Procs /\ m \in Writers /\ s \in Writers /\ s # m /\ proc(m) = w /\ proc(s) = w
  BY WriterIs
<1>1. step'[m] = step[m]
  BY <1>0, FlushingSteps
<1>2. pc[s] = "periodic"
  BY <1>0, FlushingSteps DEF Coroutines, Flushing, Take, FlushReturns, FlushPcs
<1>3. UNCHANGED taskVars
  BY <1>0, <1>2, FlushingSteps DEF FlushReturns, FlushFails, FlushCancelled, Return
<1>4. UNCHANGED <<pc, lost, written>>
  BY <1>3 DEF taskVars
<1> QED
  BY <1>1, <1>2, <1>4 DEF Coroutines, Flushing, FlushPcs

LEMMA CoroutinesKept ==
  ASSUME Core, NEW w \in Workers, Coroutines(w), [Next]_vars
  PROVE  Coroutines(w)'
<1> DEFINE m == Main(w)
           s == Side(w)
<1>0. w \in Procs /\ m \in Writers /\ s \in Writers /\ s # m /\ proc(m) = w /\ proc(s) = w
  BY WriterIs
<1>1. CASE Same(w)
  BY <1>1 DEF Same, Coroutines, Flushing
<1>2. CASE FlushStep(m) \/ FlushStep(s)
  BY <1>2, MainFlush, SideFlush
<1>3. CASE Working(w)
  <2>1. UNCHANGED step
    BY <1>3 DEF Working, ClaimRun, SettleFromDelivery, Headline, AwaitInput, Interrupt, Release,
                FlusherStopped, Emit, Conclude, logVars, txVars
  <2> USE <1>0, <2>1 DEF Core, TaskTypeOK, Coroutines, Flushing, FlushPcs, Goto, Executing, GraphPcs
  <2>2. CASE ClaimRun(w)
    BY <2>2 DEF ClaimRun, Starts
  <2>3. CASE SettleFromDelivery(w)
    BY <2>3 DEF SettleFromDelivery
  <2>4. CASE Headline(w)
    BY <2>4 DEF Headline
  <2>5. CASE AwaitInput(w)
    BY <2>5 DEF AwaitInput
  <2>6. CASE Interrupt(w)
    BY <2>6 DEF Interrupt
  <2>7. CASE Release(w)
    BY <2>7 DEF Release
  <2>8. CASE FlusherStopped(w)
    BY <2>8 DEF FlusherStopped
  <2>9. ASSUME NEW k \in Keys, Emit(w, k) PROVE Coroutines(w)'
    BY <2>9 DEF Emit, taskVars
  <2>10. ASSUME NEW t \in Terminal, Conclude(w, t) PROVE Coroutines(w)'
    <3>1. pc'[m] = "stopping" /\ pc'[s] = pc[s] /\ ~Flushing(m)
      BY <2>10 DEF Conclude
    <3>2. lost[w] = FALSE /\ written[w] = "none"
      BY <2>10 DEF Conclude
    <3>3. lost'[w] = lost[w] \/ written'[w] = written[w]
      BY <2>10 DEF Conclude
    <3> QED
      BY <3>1, <3>2, <3>3
  <2> QED
    BY <1>3, <2>2, <2>3, <2>4, <2>5, <2>6, <2>7, <2>8, <2>9, <2>10 DEF Working
<1>4. CASE Evict(w)
  BY <1>4 DEF Evict, logVars, txVars, taskVars, Coroutines, Flushing
<1>5. CASE Crash(w)
  <2>1. pc'[m] = "off" /\ pc'[s] = "off" /\ lost'[w] = FALSE /\ written'[w] = "none"
    BY <1>0, <1>5 DEF Crash, Core, TaskTypeOK
  <2>2. step'[m] = "idle" /\ step'[s] = "idle"
    <3>1. m \in {w} \X Lanes /\ s \in {w} \X Lanes
      BY DEF Main, Side, Lanes
    <3> QED
      BY <1>0, <1>5, <3>1 DEF Crash, Abandon, Leave
  <2> QED
    BY <2>1, <2>2 DEF Coroutines
<1> QED
  BY <1>1, <1>2, <1>3, <1>4, <1>5, SameOrActs DEF Acts

(* Nothing is stored of a worker after its done frame.                     *)
DoneEnds(w) ==
  \A d, e \in log : d.frame.key = DoneKey /\ d.frame.by = w /\ e.frame.by = w => e.seq <= d.seq

LEMMA DoneEndsKept ==
  ASSUME Core, NEW w \in Workers, Coroutines(w), LastWord(w), DoneEnds(w), LogStep
  PROVE  DoneEnds(w)'
<1>1. CASE log' = log
  BY <1>1 DEF DoneEnds
<1>2. ASSUME NEW c \in Writers, step[c] = "numbered", log' = log \cup Rows(c)
      PROVE  DoneEnds(w)'
  <2> DEFINE t == todo[c]
  <2>1. /\ Length = first[c] - 1 /\ first[c] \in Nat /\ Len(t) \in Nat
        /\ \A e \in Rows(c) : \E i \in 1..Len(t) : e.seq = first[c] + i - 1 /\ e.frame = t[i]
        /\ {e.frame : e \in Rows(c)} = Range(t)
    BY <1>2, RowsAre DEF Core
  <2>2. /\ Range(t) \subseteq Range(batch[c]) /\ Range(batch[c]) \subseteq Held(proc(c))
    BY HeldIs DEF Core, LogInv, Chosen
  <2>3. \A e \in Rows(c) : e.frame \in Held(proc(c)) /\ e.frame.by = proc(c)
    BY <2>1, <2>2, WriterIs DEF Core, OwnFrames
  <2>4. \A e \in log : e.seq \in Nat /\ e.seq <= Length
    BY <2>1 DEF Core, LogInv, Numbering
  <2> HIDE DEF t
  <2>5. CASE proc(c) # w \/ DoneLogged(w)
    <3>1. \A e \in Rows(c) : e.frame.by # w
      BY <2>3, <2>5 DEF LastWord
    <3> QED
      BY <1>2, <3>1 DEF DoneEnds
  <2>6. CASE proc(c) = w /\ ~DoneLogged(w)
    <3> SUFFICES ASSUME NEW d \in log', NEW e \in log', d.frame.key = DoneKey, d.frame.by = w
                 PROVE  e.seq <= d.seq
      BY DEF DoneEnds
    <3>1. d \in Rows(c)
      BY <1>2, <2>6 DEF DoneLogged
    <3>2. PICK i \in 1..Len(t) : d.seq = first[c] + i - 1 /\ d.frame = t[i]
      BY <2>1, <3>1
    <3>3. c = Main(w)
      <4>1. SaysDone(Held(w))
        BY <2>3, <2>6, <3>1 DEF SaysDone
      <4>2. pc[Side(w)] = "off"
        BY <4>1 DEF LastWord, Coroutines
      <4>3. step[Side(w)] = "idle"
        BY <4>2 DEF Coroutines, Flushing, FlushPcs
      <4> QED
        BY <1>2, <2>6, <4>3, WriterIs
    <3>4. i = Len(t)
      BY <3>2, <3>3 DEF LastWord, EndsDone, t
    <3>5. CASE e \in log
      BY <2>1, <2>4, <3>2, <3>5
    <3>6. CASE e \in Rows(c)
      <4>1. PICK j \in 1..Len(t) : e.seq = first[c] + j - 1
        BY <2>1, <3>6
      <4> QED
        BY <2>1, <3>2, <3>4, <4>1
    <3> QED
      BY <1>2, <3>5, <3>6
  <2> QED
    BY <2>5, <2>6
<1> QED
  BY <1>1, <1>2, LogGrowth DEF Core

(* A worker of which no done frame is known has no last word yet.          *)
LEMMA Speechless ==
  ASSUME LogInv, NEW w \in Workers, ~SaysDone(Held(w)), ~DoneLogged(w),
         pending[w] \in Seq(Frame)
  PROVE  LastWord(w)
<1>0. Main(w) \in Writers
  BY WriterIs
<1>1. /\ batch[Main(w)] \in Seq(Frame) /\ todo[Main(w)] \in Seq(Frame)
      /\ Range(todo[Main(w)]) \subseteq Range(batch[Main(w)])
  BY <1>0 DEF LogInv, LogTypeOK, Chosen
<1>2. Range(pending[w]) \subseteq Held(w) /\ Range(batch[Main(w)]) \subseteq Held(w)
  BY DEF Held
<1>3. ASSUME NEW s \in Seq(Frame), Range(s) \subseteq Held(w) PROVE EndsDone(s)
  BY <1>3, RangeOf DEF EndsDone, SaysDone
<1> QED
  BY <1>1, <1>2, <1>3 DEF LastWord, SaysDone

(* A done frame that was not there before has just been made.              *)
Said(w) == SaysDone(Held(w)) \/ DoneLogged(w)

LEMMA SaidSince ==
  ASSUME Core, Core', NEW w \in Workers, Flows, Said(w)'
  PROVE  Said(w) \/ (SaysDone(Held(w)') /\ made'[w] # made[w])
<1>0. w \in Procs
  BY WriterIs
<1>1. CASE SaysDone(Held(w))'
  <2>1. PICK f \in Held(w)' : f.key = DoneKey
    BY <1>1 DEF SaysDone
  <2>2. f \in Held(w) \/ made'[w] # made[w]
    BY <1>0, <2>1 DEF Flows, Flow
  <2> QED
    BY <1>1, <2>1, <2>2 DEF Said, SaysDone
<1>2. CASE DoneLogged(w)'
  <2>1. PICK e \in log' : e.frame.by = w /\ e.frame.key = DoneKey
    BY <1>2 DEF DoneLogged
  <2>2. e.frame \in Stored'
    BY <2>1 DEF Stored
  <2>3. CASE e.frame \in Stored
    <3>1. PICK d \in log : d.frame = e.frame
      BY <2>3 DEF Stored
    <3> QED
      BY <2>1, <3>1 DEF Said, DoneLogged
  <2>4. ASSUME NEW p \in Procs, e.frame \in Held(p) PROVE Said(w)
    <3>1. p = w
      BY <2>1, <2>4 DEF Core, OwnFrames
    <3> QED
      BY <2>1, <2>4, <3>1 DEF Said, SaysDone
  <2> QED
    BY <2>2, <2>3, <2>4 DEF Flows
<1> QED
  BY <1>1, <1>2 DEF Said

LEMMA SpeechlessNext ==
  ASSUME NEW w \in Workers
  PROVE  LogInv' /\ ~Said(w)' /\ (pending[w] \in Seq(Frame))' => LastWord(w)'
<1>1. LogInv /\ ~Said(w) /\ pending[w] \in Seq(Frame) => LastWord(w)
  BY Speechless DEF Said
<1> QED
  BY <1>1, PTL

(* A worker that holds nothing has nothing more to say.                    *)
LEMMA Emptied ==
  ASSUME LogInv', NEW w \in Workers, (Held(w) = {})', (pending[w] \in Seq(Frame))',
         pc'[Main(w)] \in {"settle", "final", "off"}
  PROVE  LastWord(w)'
<1>0. Main(w) \in Writers
  BY WriterIs
<1>1. /\ (batch[Main(w)] \in Seq(Frame))' /\ (todo[Main(w)] \in Seq(Frame))'
      /\ (Range(todo[Main(w)]) \subseteq Range(batch[Main(w)]))'
  BY <1>0 DEF LogInv, LogTypeOK, Chosen
<1>2. Range(pending'[w]) = {} /\ Range(batch'[Main(w)]) = {} /\ Range(todo'[Main(w)]) = {}
  BY <1>1 DEF Held
<1>3. ASSUME NEW s \in Seq(Frame), Range(s) = {} PROVE EndsDone(s)
  <2>1. \A i \in 1..Len(s) : FALSE
    <3>1. {s[i] : i \in 1..Len(s)} = {}
      BY <1>3, RangeOf
    <3> QED
      BY <3>1
  <2> QED
    BY <2>1 DEF EndsDone
<1> QED
  BY <1>1, <1>2, <1>3 DEF LastWord, SaysDone

(* What is written without a done frame leaves none behind.                *)
LEMMA MuteWrite ==
  ASSUME BufferTypeOK, LogTypeOK, NEW w \in Workers, UNCHANGED logVars, NEW ws \in Seq(Words),
         \A i \in 1..Len(ws) : ws[i][1] # DoneKey,
         Write(w, ws) \/ OpenAndWrite(w, ws), SaysDone(Held(w)')
  PROVE  SaysDone(Held(w))
<1>0. w \in Procs /\ pending[w] \in Seq(Frame)
  BY WriterIs DEF BufferTypeOK
<1>1. UNCHANGED batch
  BY Unread
<1>2. CASE OpenAndWrite(w, ws)
  <2>1. PICK fs \in Seq(Frame) : Accepts(w, pending[w], fs) /\ Wording(fs, ws)
    BY <1>0, <1>2, WriteEffect DEF OpenAndWrite
  <2>2. \A f \in Range(fs) : f.key # DoneKey
    BY <2>1, RangeOf DEF Wording
  <2>3. pending'[w] = pending[w] \o fs
    BY <1>0, <2>1 DEF Accepts, BufferTypeOK
  <2>4. Held(w)' = Held(w) \cup Range(fs)
    BY <1>0, <1>1, <2>3, Joined DEF Held
  <2> QED
    BY <2>2, <2>4 DEF SaysDone
<1>3. CASE UNCHANGED bufferVars
  BY <1>1, <1>3 DEF bufferVars, Held
<1> QED
  BY <1>2, <1>3 DEF Write

(* A done frame that is written where there was none is the last.          *)
LEMMA DoneWrite ==
  ASSUME Core, Core', NEW w \in Workers, ~Said(w), UNCHANGED logVars, NEW s \in Terminal,
         Write(w, <<Done(s)>>) \/ OpenAndWrite(w, <<Done(s)>>),
         pc'[Main(w)] = "settle" \/ (pc'[Main(w)] = "final" /\ ~lost'[w])
  PROVE  LastWord(w)'
<1>0. w \in Procs /\ pending[w] \in Seq(Frame) /\ (pending[w] \in Seq(Frame))'
  BY WriterIs DEF Core, BufferTypeOK
<1>1. UNCHANGED <<log, batch, todo, step>>
  BY Unread
<1>2. CASE OpenAndWrite(w, <<Done(s)>>)
  <2>0. <<Done(s)>> \in Seq(Words) /\ Len(<<Done(s)>>) = 1
    BY DoneWords
  <2>1. PICK fs \in Seq(Frame) : Accepts(w, pending[w], fs) /\ Wording(fs, <<Done(s)>>)
    BY <1>0, <1>2, <2>0, WriteEffect DEF OpenAndWrite, Core
  <2>2. pending'[w] = pending[w] \o fs /\ Len(fs) = 1
    BY <1>0, <2>0, <2>1 DEF Accepts, Wording, Core, BufferTypeOK
  <2>3. EndsDone(pending'[w])
    <3> DEFINE p == pending[w]
    <3>1. \A i \in 1..Len(p) : p[i].key # DoneKey
      BY <1>0, RangeOf DEF Said, SaysDone, Held
    <3>2. p \in Seq(Frame)
      BY <1>0
    <3> HIDE DEF p
    <3>3. /\ Len(p) \in Nat /\ Len(p \o fs) = Len(p) + 1
          /\ \A i \in 1..Len(p) : (p \o fs)[i] = p[i]
      <4>1. /\ Len(p) \in Nat /\ Len(p \o fs) = Len(p) + Len(fs)
            /\ \A i \in 1..Len(p) : (p \o fs)[i] = p[i]
        BY <3>2
      <4>2. Len(fs) = 1
        BY <2>2
      <4> QED
        BY <4>1, <4>2
    <3> QED
      BY <2>2, <3>1, <3>3 DEF EndsDone, p
  <2>4. LastWord(w) /\ ~SaysDone(Range(batch[Main(w)]))
    BY <1>0, Speechless DEF Core, Said, SaysDone, Held
  <2>5. ~DoneLogged(w)'
    BY <1>1 DEF Said, DoneLogged
  <2> QED
    BY <1>1, <2>3, <2>4, <2>5 DEF LastWord
<1>3. CASE UNCHANGED bufferVars
  <2>1. ~Said(w)'
    BY <1>1, <1>3 DEF Said, SaysDone, DoneLogged, Held, bufferVars
  <2> QED
    BY <1>0, <2>1, SpeechlessNext DEF Core
<1> QED
  BY <1>2, <1>3 DEF Write

(* What a worker makes, and what of it can be a done frame.                *)
LEMMA MadeIsSaid ==
  ASSUME Core, Core', NEW w \in Workers, Coroutines(w), ~Said(w), Acts(w),
         SaysDone(Held(w)'), made'[w] # made[w]
  PROVE  LastWord(w)'
<1>0. w \in Procs /\ Main(w) \in Writers
  BY WriterIs
<1>1. ASSUME NEW c \in Writers, proc(c) = w, FlushStep(c) PROVE made'[w] = made[w]
  <2>1. CASE Take(c)
    BY <2>1 DEF Take
  <2>2. CASE AppendStep(c)
    BY <2>2 DEF AppendStep, bufferVars
  <2>3. CASE FlushReturns(c) \/ FlushFails(c) \/ FlushCancelled(c)
    <3>1. PICK q \in Seq(Frame) : Return(c, q) \/ Pends(w, q)
      BY <1>1, <2>3, Empties, RequeuedIsSeq
      DEF FlushReturns, FlushFails, FlushCancelled, Core, LogInv
    <3>2. Pends(w, q) \/ DropSeat(w) \/ Accepts(w, q, <<>>)
      BY <1>1, <3>1, ReturnEffect DEF Core
    <3>3. CASE Accepts(w, q, <<>>)
      <4>1. made' = [made EXCEPT ![w] = made[w] + 0] /\ made[w] \in Nat
        BY <1>0, <3>3, Empties DEF Accepts, Core, BufferTypeOK
      <4> QED
        BY <1>0, <4>1 DEF Core, BufferTypeOK
    <3> QED
      BY <3>2, <3>3 DEF Pends, DropSeat
  <2> QED
    BY <1>1, <2>1, <2>2, <2>3 DEF FlushStep
<1>2. ~FlushStep(Main(w)) /\ ~FlushStep(Side(w)) /\ ~Evict(w) /\ ~Crash(w)
  BY <1>0, <1>1, WriterIs DEF Evict, Crash, DropSeat
<1>3. Working(w)
  BY <1>2 DEF Acts
<1>4. ASSUME UNCHANGED logVars, NEW ws \in Seq(Words), \A i \in 1..Len(ws) : ws[i][1] # DoneKey,
             Write(w, ws) \/ OpenAndWrite(w, ws)
      PROVE  FALSE
  BY <1>4, MuteWrite DEF Core, LogInv, Said
<1>5. CASE ClaimRun(w) \/ AwaitInput(w)
  BY <1>4, <1>5, PlainWords DEF ClaimRun, AwaitInput
<1>6. CASE Headline(w)
  <2>1. CASE UNCHANGED bufferVars
    BY <2>1 DEF bufferVars
  <2>2. CASE Write(w, <<Plain>>)
    BY <1>4, <1>6, <2>2, PlainWords DEF Headline
  <2> QED
    BY <1>6, <2>1, <2>2 DEF Headline
<1>7. ASSUME NEW k \in Keys, Emit(w, k) PROVE FALSE
  BY <1>4, <1>7, KeyedWords DEF Emit
<1>8. CASE SettleFromDelivery(w)
  <2>1. pc'[Main(w)] = "settle" /\ UNCHANGED logVars /\ OpenAndWrite(w, <<Done("cancelled")>>)
    BY <1>0, <1>8 DEF SettleFromDelivery, Goto, Core, TaskTypeOK
  <2>2. "cancelled" \in Terminal
    BY DEF Terminal
  <2> QED
    BY <2>1, <2>2, DoneWrite
<1>9. CASE FlusherStopped(w)
  <2>1. pc'[Main(w)] = "final" /\ UNCHANGED logVars /\ lost' = lost
    BY <1>0, <1>9, WriterIs DEF FlusherStopped, Core, TaskTypeOK
  <2>2. CASE written[w] # "none" /\ ~lost[w]
    <3>1. written[w] \in Terminal /\ Write(w, <<Done(written[w])>>)
      BY <1>9, <2>2 DEF FlusherStopped, Announces, Core, TaskTypeOK
    <3> QED
      BY <2>1, <2>2, <3>1, DoneWrite
  <2>3. CASE ~(written[w] # "none" /\ ~lost[w])
    <3>1. Write(w, <<>>)
      BY <1>9, <2>3 DEF FlusherStopped, Announces
    <3>2. \A i \in 1..Len(<<>>) : <<>>[i][1] # DoneKey
      <4>1. \A i \in 1..Len(<<>>) : FALSE
        OBVIOUS
      <4> QED
        BY <4>1
    <3>3. <<>> \in Seq(Words)
      OBVIOUS
    <3> QED
      BY <1>4, <2>1, <3>1, <3>2, <3>3, Zenon
  <2> QED
    BY <2>2, <2>3
<1>10. CASE Interrupt(w) \/ Release(w)
  BY <1>10 DEF Interrupt, Release, bufferVars
<1>11. ASSUME NEW s \in Terminal, Conclude(w, s) PROVE FALSE
  BY <1>11 DEF Conclude, bufferVars
<1> QED
  BY <1>3, <1>5, <1>6, <1>7, <1>8, <1>9, <1>10, <1>11 DEF Working

(* Others cannot change the last word of a worker.                         *)
LEMMA SameWord ==
  ASSUME Core, NEW w \in Workers, LastWord(w), Same(w), LogStep
  PROVE  LastWord(w)'
<1>1. Held(w)' = Held(w)
  BY DEF Same, Held
<1>2. DoneLogged(w)' => DoneLogged(w)
  <2> SUFFICES ASSUME NEW e \in log', e.frame.by = w PROVE e \in log
    BY DEF DoneLogged
  <2>1. ASSUME NEW c \in Writers, step[c] = "numbered", step'[c] = "idle",
               log' = log \cup Rows(c), e \in Rows(c)
        PROVE  FALSE
    <3>1. {d.frame : d \in Rows(c)} = Range(todo[c])
      BY <2>1, RowsAre DEF Core
    <3>2. e.frame \in Held(proc(c))
      <4>1. e.frame \in Range(todo[c])
        BY <2>1, <3>1
      <4>2. Range(todo[c]) \subseteq Range(batch[c])
        BY DEF Core, LogInv, Chosen
      <4> QED
        BY <4>1, <4>2, HeldIs
    <3>3. proc(c) = w
      BY <3>2, WriterIs DEF Core, OwnFrames
    <3> QED
      BY <2>1, <3>3, WriterIs DEF Same
  <2> QED
    BY <2>1, LogGrowth DEF Core
<1> QED
  BY <1>1, <1>2 DEF LastWord, Same

(* Where a worker is that has made its done frame.                         *)
LEMMA AfterDone ==
  ASSUME Core, NEW w \in Workers, Coroutines(w), LastWord(w), Said(w)
  PROVE  /\ status[run] \in Terminal
         /\ pc[Main(w)] \in {"settle", "final", "off"} /\ pc[Side(w)] = "off"
         /\ step[Side(w)] = "idle" /\ batch[Side(w)] = <<>>
         /\ Held(w) = Range(pending[w]) \cup Range(batch[Main(w)])
         /\ Held(w) = {} \/ ~lost[w]
         /\ DoneLogged(w) => Held(w) = {}
<1>0. w \in Procs /\ Side(w) \in Writers
  BY WriterIs
<1>1. status[run] \in Terminal
  <2>1. CASE SaysDone(Held(w))
    BY <1>0, <2>1 DEF SaysDone, Core, DoneKnown, TellsOutcome
  <2>2. CASE DoneLogged(w)
    <3>1. PICK e \in log : e.frame.key = DoneKey
      BY <2>2 DEF DoneLogged
    <3>2. e.frame \in Stored
      BY DEF Stored
    <3> QED
      BY <3>1, <3>2 DEF Core, DoneKnown, TellsOutcome
  <2> QED
    BY <2>1, <2>2 DEF Said
<1>2. pc[Main(w)] \in {"settle", "final", "off"} /\ pc[Side(w)] = "off"
  BY DEF Said, LastWord, Coroutines
<1>3. step[Side(w)] = "idle"
  BY <1>2 DEF Coroutines, Flushing, FlushPcs
<1>4. batch[Side(w)] = <<>>
  BY <1>0, <1>3 DEF Core, LogInv, Chosen
<1>5. Held(w) = Range(pending[w]) \cup Range(batch[Main(w)])
  BY <1>4, Empties DEF Held
<1>6. Held(w) = {} \/ ~lost[w]
  BY <1>2 DEF Said, LastWord, Coroutines
<1> QED
  BY <1>1, <1>2, <1>3, <1>4, <1>5, <1>6 DEF LastWord

(* The final flushes of a worker: what they take is a beginning of what    *)
(* is pending, and with done they have taken all.                          *)
LEMMA TakeWord ==
  ASSUME Core, Core', NEW w \in Workers, Coroutines(w), LastWord(w), Said(w), Flows,
         Take(Main(w))
  PROVE  LastWord(w)'
<1> DEFINE c == Main(w)
           s == pending[w]
<1>0. w \in Procs /\ c \in Writers /\ proc(c) = w
  BY WriterIs
<1>1. PICK k \in 0..Len(s) :
        /\ SubSeq(s, 1, k) \in Seq(Frame) /\ BeginAppend(c, SubSeq(s, 1, k))
        /\ pending'[w] = SubSeq(s, k + 1, Len(s))
        /\ UNCHANGED made /\ batch[c] = <<>>
  BY <1>0, TakeEffect DEF Core
<1> DEFINE a == SubSeq(s, 1, k)
           b == SubSeq(s, k + 1, Len(s))
<1>2. /\ s \in Seq(Frame) /\ EndsDone(a) /\ EndsDone(b)
      /\ SaysDone(Range(a)) => b = <<>>
  BY <1>0, Split DEF Core, BufferTypeOK, LastWord
<1>3. /\ log' = log
      /\ \/ batch'[c] = a /\ todo'[c] = New(a)
         \/ batch'[c] = <<>> /\ todo'[c] = todo[c]
  <2> HIDE DEF a, c
  <2>1. BeginAppend(c, a) /\ batch[c] = <<>>
    BY <1>1 DEF a
  <2> QED
    BY <1>0, <2>1 DEF BeginAppend, storeVars, txVars, Core, LogInv, LogTypeOK
<1>4. EndsDone(New(a)) /\ EndsDone(todo[c]) /\ EndsDone(<<>>) /\ ~SaysDone(Range(<<>>))
  BY <1>1, <1>2, NewFrames, Empties DEF LastWord, SaysDone
<1>5. UNCHANGED <<pc, lost>>
  BY DEF Take, taskVars
<1>6. Held(w)' \subseteq Held(w)
  BY <1>0, <1>1 DEF Flows, Flow
<1>7. DoneLogged(w)' = DoneLogged(w)
  BY <1>3 DEF DoneLogged
<1>8. pending'[w] = b
  BY <1>1
<1> HIDE DEF a, b, s
<1>9. EndsDone(batch'[c]) /\ EndsDone(todo'[c]) /\ (SaysDone(Range(batch'[c])) => b = <<>>)
  BY <1>2, <1>3, <1>4
<1>10. SaysDone(Held(w))' => SaysDone(Held(w))
  BY <1>6 DEF SaysDone
<1> QED
  BY <1>2, <1>5, <1>6, <1>7, <1>8, <1>9, <1>10 DEF LastWord

LEMMA StoreWord ==
  ASSUME Core, Core', NEW w \in Workers, Coroutines(w), LastWord(w), Said(w), Flows,
         AppendStep(Main(w))
  PROVE  LastWord(w)'
<1> DEFINE c == Main(w)
<1>0. w \in Procs /\ c \in Writers /\ proc(c) = w /\ Side(w) \in Writers \ {c}
  BY WriterIs
<1>1. StoreStep(c) /\ UNCHANGED <<pending, made, pc, lost>>
  BY DEF AppendStep, bufferVars, taskVars
<1>2. /\ batch'[c] = batch[c] \/ batch'[c] = <<>>
      /\ batch'[Side(w)] = <<>>
  BY <1>0, <1>1, StoreEffect, AfterDone DEF Core
<1>3. batch[c] \in Seq(Frame) /\ EndsDone(batch[c]) /\ EndsDone(todo[c])
  BY <1>0 DEF Core, LogInv, LogTypeOK, LastWord
<1>4. EndsDone(todo'[c])
  <2> HIDE DEF c
  <2>1. CASE Leave({c})
    BY <1>0, <2>1, Empties DEF Leave
  <2>2. CASE todo' = [todo EXCEPT ![c] = New(batch[c])]
    <3> DEFINE t == New(batch[c])
    <3>1. EndsDone(t) /\ todo' = [todo EXCEPT ![c] = t]
      BY <1>3, <2>2, NewFrames
    <3> HIDE DEF t
    <3> QED
      BY <1>0, <3>1 DEF Core, LogInv, LogTypeOK
  <2>3. CASE UNCHANGED todo
    BY <1>3, <2>3
  <2> QED
    BY <1>1, <2>1, <2>2, <2>3 DEF StoreStep, DropStored, Number, Commit, Clash
<1>5. Held(w)' \subseteq Held(w)
  BY <1>0, <1>1 DEF Flows, Flow
<1>6. CASE DoneLogged(w)' /\ ~DoneLogged(w)
  <2>1. log' # log
    BY <1>6 DEF DoneLogged
  <2>2. Commits(c) /\ Leave({c})
    BY <1>1, <2>1 DEF StoreStep, DropStored, Number, Clash, Rollback, storeVars, Commit
  <2>3. batch'[c] = <<>>
    BY <1>0, <2>2 DEF Leave
  <2>4. SaysDone(Range(batch[c]))
    <3>1. PICK e \in log' : e.frame.key = DoneKey /\ e.frame.by = w /\ e \notin log
      BY <1>6 DEF DoneLogged
    <3>2. e \in Rows(c) /\ step[c] = "numbered"
      BY <2>2, <3>1 DEF Commits
    <3>3. e.frame \in Range(todo[c])
      <4>1. {d.frame : d \in Rows(c)} = Range(todo[c])
        BY <1>0, <3>2, RowsAre DEF Core
      <4> QED
        BY <3>2, <4>1
    <3>4. Range(todo[c]) \subseteq Range(batch[c])
      BY <1>0 DEF Core, LogInv, Chosen
    <3> QED
      BY <3>1, <3>3, <3>4 DEF SaysDone
  <2>5. pending'[w] = <<>>
    BY <1>1, <2>4 DEF LastWord
  <2>6. Held(w)' = {}
    BY <1>2, <2>3, <2>5, Empties DEF Held
  <2>7. pc'[c] \in {"settle", "final", "off"} /\ (pending[w] \in Seq(Frame))'
    BY <1>0, <1>1, AfterDone DEF Core, BufferTypeOK
  <2> QED
    BY <2>6, <2>7, Emptied DEF Core
<1>7. CASE DoneLogged(w)' => DoneLogged(w)
  <2>1. SaysDone(Held(w))' => SaysDone(Held(w))
    BY <1>5 DEF SaysDone
  <2>2. EndsDone(batch'[c]) /\ (SaysDone(Range(batch'[c])) => SaysDone(Range(batch[c])))
    BY <1>2, <1>3, Empties DEF SaysDone
  <2> QED
    BY <1>1, <1>4, <1>5, <1>7, <2>1, <2>2 DEF LastWord
<1> QED
  BY <1>6, <1>7

LEMMA ReturnWord ==
  ASSUME Core, Core', NEW w \in Workers, Coroutines(w), LastWord(w), Said(w),
         FlushReturns(Main(w)) \/ FlushFails(Main(w)) \/ FlushCancelled(Main(w))
  PROVE  LastWord(w)'
<1> DEFINE c == Main(w)
<1>0. w \in Procs /\ c \in Writers /\ proc(c) = w /\ Side(w) \in Writers \ {c}
  BY WriterIs
<1>1. /\ pc[c] \in {"settle", "final", "off"} /\ pc[Side(w)] = "off" /\ batch[Side(w)] = <<>>
      /\ Held(w) = Range(pending[w]) \cup Range(batch[c])
      /\ Held(w) = {} \/ ~lost[w]
  BY AfterDone
<1>2. ~FlushCancelled(c)
  BY <1>0, <1>1 DEF FlushCancelled, Stopped
<1>3. batch'[c] = <<>> /\ batch'[Side(w)] = <<>>
  <2>1. CASE FlushReturns(c)
    <3>1. step[c] = "idle" /\ UNCHANGED batch
      BY <2>1 DEF FlushReturns, logVars, txVars
    <3> QED
      BY <1>0, <1>1, <3>1 DEF Core, LogInv, Chosen
  <2>2. CASE FlushFails(c)
    BY <1>0, <1>1, <2>2, RaiseEffect DEF FlushFails, Core
  <2> QED
    BY <1>2, <2>1, <2>2
<1>4. PICK q \in Seq(Frame) : Return(c, q) /\ Range(q) \subseteq Held(w)
  <2>1. CASE FlushReturns(c)
    <3>1. Return(c, <<>>)
      BY <2>1 DEF FlushReturns
    <3> QED
      BY <3>1, Empties
  <2>2. CASE FlushFails(c)
    <3>1. Requeued(c) \in Seq(Frame) /\ Return(c, Requeued(c))
      BY <1>0, <2>2, RequeuedIsSeq DEF FlushFails, Core, LogInv
    <3>2. Range(Requeued(c)) \subseteq Held(w)
      <4>1. batch[c] \in Seq(Frame) /\ pending[w] \in Seq(Frame)
        BY <1>0 DEF Core, LogInv, LogTypeOK, BufferTypeOK
      <4> QED
        BY <1>0, <1>1, <4>1, Joined DEF Requeued
    <3> QED
      BY <3>1, <3>2
  <2> QED
    BY <1>2, <2>1, <2>2
<1>5. pc'[c] = "off"
  BY <1>0, <1>1, <1>4, FlushingSteps
  DEF Return, Moves, Goto, Core, TaskTypeOK, FlushReturns, FlushFails, Flushing, FlushPcs,
      Coroutines
<1>6. Range(pending'[w]) = {}
  <2>1. CASE DropSeat(w)
    BY <1>0, <2>1, Empties DEF DropSeat, Core, BufferTypeOK
  <2>2. CASE Pends(w, q) /\ lost[w]
    <3>1. pending'[w] = q /\ Range(q) = {}
      BY <1>0, <1>1, <1>4, <2>2 DEF Pends, Core, BufferTypeOK
    <3> QED
      BY <3>1
  <2> QED
    BY <1>0, <1>1, <1>4, <2>1, <2>2 DEF Return
<1>7. Held(w)' = {}
  BY <1>3, <1>6, Empties DEF Held
<1>8. (pending[w] \in Seq(Frame))'
  BY <1>0 DEF Core, BufferTypeOK
<1> QED
  BY <1>5, <1>7, <1>8, Emptied DEF Core

LEMMA SpokenWord ==
  ASSUME Core, Core', NEW w \in Workers, Coroutines(w), LastWord(w), Said(w), Flows, Acts(w)
  PROVE  LastWord(w)'
<1>0. /\ w \in Procs /\ Main(w) \in Writers /\ Side(w) \in Writers /\ Main(w) # Side(w)
      /\ proc(Main(w)) = w /\ proc(Side(w)) = w
  BY WriterIs
<1>1. /\ status[run] \in Terminal
      /\ pc[Main(w)] \in {"settle", "final", "off"} /\ pc[Side(w)] = "off"
      /\ batch[Side(w)] = <<>>
  BY AfterDone
<1>2. CASE Working(w)
  <2>1. ~ClaimRun(w)
    BY <1>1, OneRun DEF ClaimRun, Claim, Claimable, Startable, Takeover, Terminal
  <2>2. ~SettleFromDelivery(w)
    BY <1>1, OneRun DEF SettleFromDelivery, SettleCancelled, CancelSettles, CancelPending,
       CancelRunning, Terminal
  <2>3. /\ ~Headline(w) /\ ~AwaitInput(w) /\ ~Interrupt(w) /\ ~FlusherStopped(w)
        /\ \A k \in Keys : ~Emit(w, k)
        /\ \A s \in Terminal : ~Conclude(w, s)
    BY <1>1 DEF Headline, AwaitInput, Interrupt, FlusherStopped, Emit, Conclude, Executing, GraphPcs
  <2>4. Release(w)
    BY <1>2, <2>1, <2>2, <2>3 DEF Working
  <2>5. UNCHANGED <<pending, batch, todo, pc, lost, log>>
    BY <2>4 DEF Release, logVars, storeVars, txVars, bufferVars
  <2> QED
    BY <2>5 DEF LastWord, Held, DoneLogged
<1>3. CASE FlushStep(Main(w))
  BY <1>3, TakeWord, StoreWord, ReturnWord DEF FlushStep
<1>4. ~FlushStep(Side(w))
  BY <1>1, SideFlush
<1>5. CASE Evict(w)
  <2>1. pending'[w] = <<>> /\ UNCHANGED <<batch, todo, pc, lost, log>>
    BY <1>0, <1>5 DEF Evict, DropSeat, logVars, storeVars, txVars, taskVars, Core, BufferTypeOK
  <2>2. Held(w)' \subseteq Held(w)
    BY <2>1, Empties DEF Held
  <2> QED
    BY <2>1, <2>2, Empties DEF LastWord, SaysDone, DoneLogged
<1>6. CASE Crash(w)
  <2>1. pending'[w] = <<>> /\ pc'[Main(w)] = "off"
    BY <1>0, <1>6 DEF Crash, DropSeat, Core, BufferTypeOK, TaskTypeOK
  <2>2. batch'[Main(w)] = <<>> /\ batch'[Side(w)] = <<>>
    <3>1. Main(w) \in {w} \X Lanes /\ Side(w) \in {w} \X Lanes
      BY DEF Main, Side, Lanes
    <3> QED
      BY <1>0, <1>6, <3>1 DEF Crash, Abandon, Leave
  <2>3. Held(w)' = {} /\ (pending[w] \in Seq(Frame))'
    BY <2>1, <2>2, Empties DEF Held
  <2> QED
    BY <2>1, <2>3, Emptied DEF Core
<1> QED
  BY <1>2, <1>3, <1>4, <1>5, <1>6 DEF Acts

WordInv == Core /\ \A w \in Workers : Coroutines(w) /\ LastWord(w) /\ DoneEnds(w)

LEMMA WordInit == Init => WordInv
<1> SUFFICES ASSUME Init, NEW w \in Workers PROVE Coroutines(w) /\ LastWord(w) /\ DoneEnds(w)
  BY CoreInit DEF WordInv
<1>0. Core /\ w \in Procs /\ Main(w) \in Writers /\ Side(w) \in Writers
  BY CoreInit, WriterIs
<1>1. Coroutines(w)
  BY <1>0 DEF Init, LogInit, Coroutines
<1>2. log = {} /\ Held(w) = {} /\ pending[w] = <<>>
  BY <1>0, Empties DEF Init, LogInit, Held
<1>3. LastWord(w)
  BY <1>0, <1>2, Speechless, Empties DEF Core, SaysDone, DoneLogged
<1>4. DoneEnds(w)
  BY <1>2 DEF DoneEnds
<1> QED
  BY <1>1, <1>3, <1>4

LEMMA WordNext == WordInv /\ [Next]_vars => WordInv'
<1> SUFFICES ASSUME WordInv, [Next]_vars PROVE WordInv'
  OBVIOUS
<1>1. Core /\ Core' /\ Flows /\ LogStep
  BY CoreNext, BuffersKeepTypes DEF WordInv, Core
<1> SUFFICES ASSUME NEW w \in Workers PROVE Coroutines(w)' /\ LastWord(w)' /\ DoneEnds(w)'
  BY <1>1 DEF WordInv
<1>2. Coroutines(w) /\ LastWord(w) /\ DoneEnds(w)
  BY DEF WordInv
<1>3. Coroutines(w)' /\ DoneEnds(w)'
  BY <1>1, <1>2, CoroutinesKept, DoneEndsKept
<1>4. LastWord(w)'
  <2>1. CASE Same(w)
    BY <1>1, <1>2, <2>1, SameWord
  <2>2. CASE ~Said(w)'
    <3>1. (pending[w] \in Seq(Frame))'
      BY <1>1, WriterIs DEF Core, BufferTypeOK
    <3> QED
      BY <1>1, <2>2, <3>1, SpeechlessNext DEF Core
  <2>3. CASE Acts(w) /\ Said(w)
    BY <1>1, <1>2, <2>3, SpokenWord
  <2>4. CASE Acts(w) /\ Said(w)' /\ ~Said(w)
    BY <1>1, <1>2, <2>4, SaidSince, MadeIsSaid
  <2> QED
    BY <1>1, <2>1, <2>2, <2>3, <2>4, SameOrActs
<1> QED
  BY <1>3, <1>4

(* Nothing a worker made is stored after its done frame: a client that     *)
(* stops there has all of that execution.                                  *)
THEOREM DoneComesLast == Spec => []DoneIsLast
<1>1. WordInv => DoneIsLast
  BY DEF WordInv, DoneEnds, DoneIsLast
<1> QED
  BY <1>1, WordInit, WordNext, PTL DEF Spec

FaultsTyped == faults \in Nat

LEMMA FaultsCount == FaultsTyped /\ [Next]_vars => FaultsTyped'
<1> SUFFICES ASSUME faults \in Nat, [Next]_vars PROVE faults' \in Nat
  BY DEF FaultsTyped
<1>1. Counted => faults' \in Nat
  BY DEF Counted
<1>2. \A k : Fault(k) => faults' \in Nat
  BY <1>1 DEF Fault
<1>3. UNCHANGED faults => faults' \in Nat
  OBVIOUS
<1>4. CASE UNCHANGED vars
  BY <1>4 DEF vars
<1>5. CASE Announcing \/ Exhaust
  BY <1>1, <1>2, <1>5 DEF Announcing, Create, ResumeWithInput, Cancel, Exhaust
<1>6. ASSUME NEW w \in Workers, Working(w) PROVE faults' \in Nat
  BY <1>2, <1>3, <1>6 DEF Working, ClaimRun, SettleFromDelivery, Headline, AwaitInput, Interrupt,
       Release, FlusherStopped, Emit, Conclude
<1>7. ASSUME NEW c \in Writers, FlushStep(c) PROVE faults' \in Nat
  BY <1>2, <1>3, <1>7 DEF FlushStep, Take, AppendStep, FlushReturns, FlushFails, FlushCancelled, NoFault
<1>8. ASSUME NEW p \in Procs, Evict(p) \/ Crash(p) PROVE faults' \in Nat
  BY <1>2, <1>8 DEF Evict, Crash
<1>9. ASSUME NEW i \in Readers, Streaming(i) \/ Disconnect(i) PROVE faults' \in Nat
  BY <1>2, <1>3, <1>9 DEF Streaming, Connect, ReadTail, ReadAgain, ReadStatus, Disconnect
<1> QED
  BY <1>4, <1>5, <1>6, <1>7, <1>8, <1>9 DEF Next

(* Every variable of the row, the store, the buffers, the tasks and the    *)
(* streams keeps its type.                                                 *)
THEOREM TypeCorrect == Spec => []TypeOK
<1>1. Init => FaultsTyped
  BY DEF Init, FaultsTyped
<1>2. StreamInv /\ FaultsTyped => TypeOK
  BY DEF FaultsTyped, StreamInv, Core, LogInv, BufferTypeOK, TaskTypeOK, ReaderTypeOK, TypeOK
<1> QED
  BY <1>1, <1>2, FaultsCount, AlwaysStream, PTL DEF Spec
=============================================================================
