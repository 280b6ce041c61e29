----------------------------- MODULE MCPythonClient -----------------------------
(* An instance of PythonClient for TLC.                                      *)
EXTENDS PythonClient

\* Every kind of call: answered at once, long without a word, streaming, ending.
MCMethods == {"query", "apply_updates", "apply_updates_stream", "shutdown"}
=============================================================================
