--------------------------- MODULE MCWorkRequests ---------------------------
(* Instances of WorkRequests for TLC: the requests of one turn, and the       *)
(* sessions that decide on them.                                              *)
EXTENDS WorkRequests

=============================================================================
