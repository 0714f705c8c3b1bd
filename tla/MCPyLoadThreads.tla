-------------------------- MODULE MCPyLoadThreads --------------------------
(***************************************************************************)
(* Model-checking instance of PyLoadThreads: two threads loading the      *)
(* profiles of MCPyData while the user edits stl/udp.py.                  *)
(***************************************************************************)
EXTENDS PyLoadThreads, MCPyData

=============================================================================
