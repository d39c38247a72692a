----------------------------- MODULE Clarifier -----------------------------
(***************************************************************************)
(* The Clarifier subgraph (agents/clarifier): an agent that may put up to  *)
(* MaxQuestions questions to the user, each by an interrupt of the graph,  *)
(* and then hands the query to the research.                               *)
(*                                                                         *)
(* Everything here is a channel of the subgraph and survives a crash, but  *)
(* for the count of model calls.  The agent's turn and the tool it calls   *)
(* are one step: the two tools touch channels only.  Questions are named   *)
(* 1, 2, ... in the order they are staged; an answer is named by the       *)
(* question it was given to.                                               *)
(***************************************************************************)
EXTENDS Naturals, Sequences

CONSTANTS
  MaxQuestions,     \* MAX_CLARIFICATION_ROUNDS
  ClarifierTurns    \* max_turns of the agent, MAX_CLARIFICATION_ROUNDS + 4

ASSUME ClarifierAssumption == {MaxQuestions, ClarifierTurns} \subseteq Nat \ {0}

VARIABLES
  clarPc,      \* the step of the subgraph that comes next
  clarTurns,   \* model calls of this run of the agent
  asked,       \* clarification_rounds: questions staged so far
  pending,     \* pending_question: the staged question, 0 if none
  intent,      \* clarification_completed
  dialogue     \* clarification_log of the subgraph

clarVars == <<clarPc, clarTurns, asked, pending, intent, dialogue>>

Question == Nat \ {0}
Entry    == [question : Question, answer : Question]

ClarInit ==
  /\ clarPc = "off" /\ clarTurns = 0
  /\ asked = 0 /\ pending = 0 /\ intent = FALSE /\ dialogue = <<>>

ClarStart ==
  /\ clarPc = "off"
  /\ clarPc' = "agent"
  /\ UNCHANGED <<clarTurns, asked, pending, intent, dialogue>>

(* The agent is a graph of its own: it received the log with its input and *)
(* returns it with its output, where the log's reducer adds it once more.  *)
EndAgent(to) ==
  /\ clarPc' = to /\ clarTurns' = 0
  /\ dialogue' = dialogue \o dialogue

(* The agent has a model call left.                                       *)
CanThink == clarPc = "agent" /\ clarTurns < ClarifierTurns

(* AskClarification with three options: stages the question, or, with the  *)
(* rounds used up, completes on the default assumption.  Either ends the   *)
(* agent before its next turn.  Mutant: one round too many.                *)
RoundsLeft_OneMore == asked <= MaxQuestions
RoundsLeft == asked < MaxQuestions

AskStaged ==
  /\ CanThink /\ RoundsLeft
  /\ pending' = asked + 1 /\ asked' = asked + 1
  /\ EndAgent("ask")
  /\ UNCHANGED intent

AskRefused ==
  /\ CanThink /\ ~RoundsLeft
  /\ intent' = TRUE
  /\ EndAgent("finalize")
  /\ UNCHANGED <<asked, pending>>

ClarificationComplete ==
  /\ CanThink
  /\ intent' = TRUE
  /\ EndAgent("finalize")
  /\ UNCHANGED <<asked, pending>>

(* Options that are not three, or two serial tools in one reply: a turn is *)
(* used and nothing else happens.                                          *)
Fumble ==
  /\ CanThink
  /\ clarTurns' = clarTurns + 1
  /\ UNCHANGED <<clarPc, asked, pending, intent, dialogue>>

(* A reply without a tool, or the limit of model calls.                    *)
GiveUp ==
  /\ clarPc = "agent"
  /\ EndAgent("finalize")
  /\ UNCHANGED <<asked, pending, intent>>

AgentTurn == AskStaged \/ AskRefused \/ ClarificationComplete \/ Fumble \/ GiveUp

(* The node ask runs again when the graph is resumed and then finds the    *)
(* answer that came with the resume command.                               *)
TakeAnswer(a) ==
  /\ clarPc = "ask"
  /\ dialogue' = Append(dialogue, [question |-> pending, answer |-> a])
  /\ pending' = 0
  /\ clarPc' = "agent"
  /\ UNCHANGED <<clarTurns, asked, intent>>

Finalize ==
  /\ clarPc = "finalize"
  /\ clarPc' = "over"
  /\ UNCHANGED <<clarTurns, asked, pending, intent, dialogue>>
=============================================================================
