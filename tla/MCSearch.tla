------------------------------ MODULE MCSearch ------------------------------
(* Instances of Search for TLC.                                            *)
EXTENDS Search, TLC

CONSTANTS c1, c2, r1, r2, q1, q2, tavily, baidu

(* Two runs of one worker; the first asks for two queries at a time.       *)
TwoRuns  == c1 :> r1 @@ c2 :> r2
TwoTopics == c1 :> {q1, q2} @@ c2 :> {q1}
TwoProviders == <<tavily, baidu>>
=============================================================================
