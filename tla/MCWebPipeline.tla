----------------------------- MODULE MCWebPipeline -----------------------------
(***************************************************************************)
(* The pipeline with two server threads and seven kinds of request: two with *)
(* the same key from an allowed and from another origin, one without a key,  *)
(* a preflight, and one each that auth, the body limit and the routes refuse. *)
(***************************************************************************)
EXTENDS WebPipeline, TLC

Ordinary == [method |-> "Post", routed |-> TRUE, origin |-> "site", correlation_id |-> "c1",
             token |-> "valid", declared |-> 1, size |-> 1, key |-> "k1"]

MCKinds ==
    {Ordinary,
     [Ordinary EXCEPT !.origin = "elsewhere", !.correlation_id = NoHeader],
     [Ordinary EXCEPT !.key = NoKey, !.declared = -1],
     [Ordinary EXCEPT !.method = "Options"],
     [Ordinary EXCEPT !.token = "rejected"],
     [Ordinary EXCEPT !.declared = -1, !.size = 2],
     [Ordinary EXCEPT !.routed = FALSE]}

Threads == Permutations(Requests)
=============================================================================
