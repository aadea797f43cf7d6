-------------------------- MODULE MCSandboxRunner --------------------------
(* Instances of SandboxRunner for TLC: one call dispatched twice, and a second *)
(* call that wants the same workspace.                                         *)
EXTENDS SandboxRunner

CONSTANTS c1, c2

FirstCall == {<<c1, 1>>, <<c1, 2>>}
TwoCalls == FirstCall \cup {<<c2, 1>>}

=============================================================================
