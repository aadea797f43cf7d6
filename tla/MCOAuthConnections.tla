------------------------- MODULE MCOAuthConnections -------------------------
(* Instances of OAuthConnections for TLC: one tool call beside the refresher, and *)
(* one handle that is delivered twice.                                          *)
EXTENDS OAuthConnections

CONSTANTS call, sweep, v1, v2

OneCall == {call}
TwoVisits == {v1, v2}

=============================================================================
