------------------------------- MODULE Writer -------------------------------
(***************************************************************************)
(* The tool loop of the Writer agent (agents/writer): a model that reads   *)
(* evidence from a catalogue and submits a draft, which is accepted only   *)
(* if it cites evidence that was read.                                     *)
(*                                                                         *)
(* What was read and the accepted draft live twice: in channels, which     *)
(* survive the process, and in the context the tools use, which is rebuilt *)
(* from the channels before each turn of the model.  A draft is            *)
(* represented by the set of evidence it cites.                            *)
(***************************************************************************)
EXTENDS Naturals, FiniteSets

CONSTANTS
  Evidence,
  Invented,         \* an id the model made up
  NoDraft,
  ReadBatch,        \* writer_read_batch_size
  WriterTurns,      \* writer_max_turns
  WriterNudges      \* submission_max_rejections

ASSUME WriterAssumption ==
  /\ IsFiniteSet(Evidence) /\ Invented \notin Evidence
  /\ {ReadBatch, WriterTurns} \subseteq Nat \ {0} /\ WriterNudges \in Nat

VARIABLES
  loop,        \* the step of the loop that comes next
  offered,     \* evidence_by_id
  readCh,      \* read_evidence_ids, the channel
  draftCh,     \* validated_draft, the channel
  readMem,     \* WriterContext.read_evidence_ids
  draftMem,    \* WriterContext.validated_draft
  calls,       \* tool calls of the last reply that have not run
  inline,      \* what the last long reply without a tool cites
  writerTurns, nudges     \* counters of this process

writerVars == <<loop, offered, readCh, draftCh, readMem, draftMem, calls, inline,
                writerTurns, nudges>>
writerChannels == <<readCh, draftCh>>
writerContext  == <<readMem, draftMem>>

Cites == SUBSET (Evidence \cup {Invented})
Call  == [tool : {"ReadEvidence"}, ids : Cites, sound : {TRUE}]
         \cup [tool : {"ReportComplete"}, ids : Cites, sound : BOOLEAN]

(* A call of ReportComplete; unsound when the title or the length of the   *)
(* text is refused before its citations are looked at.                     *)
Submission(ids, sound) == [tool |-> "ReportComplete", ids |-> ids, sound |-> sound]
Request(ids) == [tool |-> "ReadEvidence", ids |-> ids, sound |-> TRUE]

WriterInit ==
  /\ loop = "off" /\ offered = {} /\ readCh = {} /\ draftCh = NoDraft
  /\ readMem = {} /\ draftMem = NoDraft
  /\ calls = {} /\ inline = NoDraft /\ writerTurns = 0 /\ nudges = 0

(* A new loop; its channels begin with the values of a new context, and go *)
(* with it.                                                                *)
WriterReset(at, by) ==
  /\ loop' = at /\ offered' = by
  /\ readCh' = {} /\ draftCh' = NoDraft /\ readMem' = {} /\ draftMem' = NoDraft
  /\ calls' = {} /\ inline' = NoDraft /\ writerTurns' = 0 /\ nudges' = 0

WriterStart(by) == WriterReset("refresh", by)

(* StateRebuildMiddleware, then SubmittedExitMiddleware and the limit of   *)
(* model calls.                                                            *)
Refresh ==
  /\ loop = "refresh"
  /\ readMem' = readCh /\ draftMem' = draftCh
  /\ loop' = IF draftMem' # NoDraft \/ writerTurns >= WriterTurns THEN "over" ELSE "model"
  /\ UNCHANGED <<offered, writerChannels, calls, inline, writerTurns, nudges>>

(* The model asks for evidence, in one or more calls run concurrently, or  *)
(* submits a draft in a reply of its own.                                  *)
CallTools(reply) ==
  /\ loop = "model" /\ reply # {}
  /\ \/ \A c \in reply : c.tool = "ReadEvidence"
     \/ Cardinality(reply) = 1
  /\ calls' = reply /\ loop' = "tools" /\ writerTurns' = writerTurns + 1
  /\ UNCHANGED <<offered, writerChannels, writerContext, inline, nudges>>

(* ReportComplete in company: SerialToolMiddleware drops the whole reply.  *)
Misuse ==
  /\ loop = "model"
  /\ writerTurns' = writerTurns + 1 /\ loop' = "refresh"
  /\ UNCHANGED <<offered, writerChannels, writerContext, calls, inline, nudges>>

(* A reply without a tool is refused WriterNudges times, then ends the     *)
(* loop; text stands for what it cites, NoDraft for a short remark.        *)
Talk(text) ==
  /\ loop = "model"
  /\ inline' = IF text = NoDraft THEN inline ELSE text
  /\ writerTurns' = writerTurns + 1
  /\ IF nudges < WriterNudges
     THEN nudges' = nudges + 1 /\ loop' = "refresh"
     ELSE nudges' = nudges /\ loop' = "over"
  /\ UNCHANGED <<offered, writerChannels, writerContext, calls>>

(* The model's call failed for good: the text of the failure ends the loop.*)
ModelDown ==
  /\ loop = "model" /\ loop' = "over"
  /\ UNCHANGED <<offered, writerChannels, writerContext, calls, inline, writerTurns, nudges>>

Finished(c) == /\ calls' = calls \ {c}
               /\ loop' = IF calls' = {} THEN "refresh" ELSE "tools"
               /\ UNCHANGED <<offered, inline, writerTurns, nudges>>

(* ReadEvidence hands out at most a batch of what is new.                  *)
Capacity == LET left == Cardinality(offered) - Cardinality(readMem)
            IN IF left < ReadBatch THEN left ELSE ReadBatch
Handed(c) == LET fresh == (c.ids \cap offered) \ readMem
             IN {S \in SUBSET fresh :
                   Cardinality(S) = IF Cardinality(fresh) < Capacity
                                    THEN Cardinality(fresh) ELSE Capacity}

ReadEvidence(c) ==
  /\ loop = "tools" /\ c \in calls /\ c.tool = "ReadEvidence"
  /\ \E ids \in Handed(c) : readMem' = readMem \cup ids /\ readCh' = readCh \cup ids
  /\ Finished(c)
  /\ UNCHANGED <<draftCh, draftMem>>

(* validate_and_bind over the evidence read: at least one citation, and    *)
(* none of anything else.  Mutant: what was only offered will do.          *)
Binds_Offered(cites) == cites # {} /\ cites \subseteq offered
Binds(cites) == cites # {} /\ cites \subseteq readMem \cap offered

ReportComplete(c) ==
  /\ loop = "tools" /\ c \in calls /\ c.tool = "ReportComplete"
  /\ IF c.sound /\ Binds(c.ids)
     THEN draftMem' = c.ids /\ draftCh' = c.ids
     ELSE UNCHANGED <<draftMem, draftCh>>
  /\ Finished(c)
  /\ UNCHANGED <<readCh, readMem>>

(* After the loop the context is filled from the channels once more, and a *)
(* report written as plain text is accepted if it passes the same check.   *)
(* Mutant: the context is believed as it is.                               *)
Settled_Memory == draftMem
Settled ==
  IF draftCh # NoDraft THEN draftCh
  ELSE IF inline # NoDraft /\ inline # {} /\ inline \subseteq readCh \cap offered
       THEN inline ELSE NoDraft

(* What a crash leaves of the loop: its channels, the messages among them. *)
WriterCrash ==
  /\ readMem' = {} /\ draftMem' = NoDraft /\ writerTurns' = 0 /\ nudges' = 0
  /\ UNCHANGED <<loop, offered, writerChannels, calls, inline>>

WriterStep(replies, texts) ==
  \/ Refresh \/ Misuse \/ ModelDown
  \/ \E reply \in replies : CallTools(reply)
  \/ \E text \in texts : Talk(text)
  \/ \E c \in calls : ReadEvidence(c) \/ ReportComplete(c)
=============================================================================
