--------------------------- MODULE MCToolGateway ---------------------------
(* Instances of ToolGateway for TLC.  Attempts are interchangeable, and so are
   approvals and policies: no definition names one of them.               *)
EXTENDS ToolGateway, TLC

Symmetry ==
  Permutations(Attempts) \cup Permutations(Approvals) \cup Permutations(Policies)

=============================================================================
