---------------------------- MODULE StreamPromise ----------------------------
(***************************************************************************)
(* What the event stream of a run promises its clients, whatever processes *)
(* write it, fail or read it: it is one sequence that only grows at its    *)
(* end, a client has a beginning of it that only gets longer, without a    *)
(* gap and over all breaks of the connection, and a client is told that    *)
(* the run is over only when it is.                                        *)
(***************************************************************************)
EXTENDS Naturals, FiniteSets

CONSTANT Clients

VARIABLES rows,     \* the frames stored, each with its number
          settled,  \* the run has its outcome
          has,      \* the numbers a client has received
          told      \* the client has been told the end

promiseVars == <<rows, settled, has, told>>

Numbers(set) == {e.seq : e \in set}
Whole(set)   == Numbers(set) = 1 .. Cardinality(set)

Init ==
  /\ rows = {} /\ settled = FALSE
  /\ has = [i \in Clients |-> {}] /\ told = [i \in Clients |-> FALSE]

Store ==
  /\ rows \subseteq rows' /\ Whole(rows')
  /\ UNCHANGED <<settled, has, told>>

Settle ==
  /\ settled' = TRUE
  /\ UNCHANGED <<rows, has, told>>

(* More of the sequence, up to any of its rows, and perhaps the end.       *)
Deliver(i) ==
  /\ \E n \in 0 .. Cardinality(rows) : has' = [has EXCEPT ![i] = 1 .. n]
  /\ has[i] \subseteq has'[i]
  /\ \/ UNCHANGED told
     \/ settled /\ told' = [told EXCEPT ![i] = TRUE]
  /\ UNCHANGED <<rows, settled>>

Next == Store \/ Settle \/ \E i \in Clients : Deliver(i)

Spec == Init /\ [][Next]_promiseVars
=============================================================================
