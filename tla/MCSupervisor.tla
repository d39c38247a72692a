---------------------------- MODULE MCSupervisor ----------------------------
(* Instances of Supervisor for TLC.                                        *)
EXTENDS Supervisor
CONSTANTS a1, f1

MCAspect == {a1}
MCField  == {f1}
Anywhere == {"refresh", "model", "tools", "drain"}

(* One tool at a time, and pairs: what may share a batch, and what the     *)
(* serial guard misses when the quota of tasks is used up.                 *)
InPairs == {<<"delegate">>, <<"update">>, <<"wait">>, <<"complete">>,
            <<"delegate", "delegate">>, <<"update", "delegate">>,
            <<"delegate", "complete">>}
=============================================================================
