---------------------------- MODULE MCEngineProc ----------------------------
(* TLC instances of the engine-subprocess harness.                          *)
EXTENDS EngineProcProps

CONSTANTS j1, j2, s1, e1, c1, c2, none
=============================================================================
