----------------------------- MODULE MCPipeline -----------------------------
(* Instances of Pipeline for TLC.                                          *)
EXTENDS Pipeline
CONSTANTS e1, e2, weak, invented

MCEvidence == {e1, e2, weak}
MCUsable   == {e1, e2}

(* One read of everything, two concurrent reads, good and bad submissions. *)
MCReplies ==
  {{Request({e1, e2, invented})}, {Request({e1}), Request({e2, weak})},
   {Submission({e1}, TRUE)}, {Submission({e1, e2}, TRUE)}, {Submission({e2, invented}, TRUE)},
   {Submission({e1}, FALSE)}}
MCTexts == {NoDraft, {e1}}
=============================================================================
