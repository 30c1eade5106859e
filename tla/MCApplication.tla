----------------------------- MODULE MCApplication -----------------------------
(***************************************************************************)
(* Two pool threads and a monitor; handlers wrapped in three of the orders.  *)
(***************************************************************************)
EXTENDS Application, TLC

MCChains == {<<"logging", "tracing", "validation", "use_case">>,
             <<"validation", "tracing", "logging", "use_case">>,
             <<"tracing", "logging", "use_case">>}

MCTasks == {[message |-> "command", ctx |-> "c1"], [message |-> "query", ctx |-> ""]}

Pool == Permutations(Workers)
=============================================================================
