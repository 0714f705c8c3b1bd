---------------------------- MODULE MCPyProfile ----------------------------
(***************************************************************************)
(* Model-checking instance of STLProfile for load_py, over the profiles   *)
(* of MCPyData.                                                            *)
(***************************************************************************)
EXTENDS STLProfile, MCPyData

=============================================================================
