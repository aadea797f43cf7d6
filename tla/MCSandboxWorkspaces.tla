------------------------ MODULE MCSandboxWorkspaces ------------------------
(***************************************************************************)
(* Small instances of SandboxWorkspaces: two runs of an agent on its own   *)
(* disk, a third in a chat that has a disk of its own, and the disk that   *)
(* earlier runs of another agent have left.                                *)
(***************************************************************************)
EXTENDS SandboxWorkspaces, TLC

CONSTANTS r1, r2, r3, a1, a2, c1

MCAgentOf == r1 :> a1 @@ r2 :> a1 @@ r3 :> a1
MCChatOf  == r1 :> None @@ r2 :> None @@ r3 :> c1

Symmetry == Permutations({r1, r2})
=============================================================================
