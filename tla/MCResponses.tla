------------------------------- MODULE MCResponses -------------------------------
(* Responses for TLC: Accept headers, supported types and orders of the middleware. *)
EXTENDS Responses

Html == <<"text", "html">>
Png == <<"image", "png">>
Anything == <<"*", "*">>
AnyApplication == <<"application", "*">>
MediaRange(type, tenths) == [range |-> type, q |-> tenths]

MCSupported == <<Json, Html>>
MCAccepts == {<<>>, <<MediaRange(Png, 10)>>, <<MediaRange(Html, 10), MediaRange(Anything, 1)>>,
              <<MediaRange(Html, 5), MediaRange(AnyApplication, 5)>>,
              <<MediaRange(Png, 10), MediaRange(Html, 5), MediaRange(Json, 8)>>}
MCStacks == {<<>>, <<"compression">>, <<"compression", "negotiation">>,
             <<"logging", "negotiation", "compression">>,
             <<"negotiation", "compression", "logging">>,
             <<"compression", "logging", "negotiation">>}
=============================================================================
