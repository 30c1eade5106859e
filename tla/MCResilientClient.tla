-------------------------- MODULE MCResilientClient --------------------------
(* ResilientClient for TLC: a backoff that doubles. *)
EXTENDS ResilientClient

MCMultiplier == <<2, 1>>
=============================================================================
