--------------------------- MODULE MCAsyncRuntime ---------------------------
(* Instances of AsyncRuntime for TLC.                                      *)
EXTENDS AsyncRuntime

CONSTANTS admin, guest, plain, shared

=============================================================================
