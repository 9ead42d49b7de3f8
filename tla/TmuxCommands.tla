---------------------------- MODULE TmuxCommands -----------------------------
(***************************************************************************)
(* The commands that terminal input becomes: each call's input is cut into *)
(* chunks of 256 bytes, one send-keys each.                                *)
(***************************************************************************)
EXTENDS Naturals

CONSTANTS
  Calls,         \* executions of write_input on terminals of this client
  Chunks         \* the most send-keys commands one input is cut into (256 bytes each)

ASSUME ChunksAssumption == Chunks \in Nat

Commands == [call : Calls, chunk : 1 .. Chunks]
=============================================================================
