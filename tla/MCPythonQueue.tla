--------------------------- MODULE MCPythonQueue ---------------------------
(* Instances of PythonQueue for TLC.                                       *)
EXTENDS PythonQueue
=============================================================================
