--------------------------- MODULE TerminalFrames ----------------------------
(***************************************************************************)
(* What the desktop's terminal input is made of, and how much of it there  *)
(* may be.  A key is a number, in the order the UI emitted them; a frame   *)
(* is what one WriteInput request carries to one terminal.                 *)
(***************************************************************************)
EXTENDS Naturals, Sequences

CONSTANTS
  PtyPanes,    \* terminals that are plain PTYs
  TmuxPanes,   \* terminals whose program runs in a tmux window
  MaxKeys,     \* bound: keys the UI emits
  FrameKeys,   \* TERMINAL_INPUT_FRAME_BYTES
  Capacity,    \* TERMINAL_INPUT_CAPACITY_BYTES
  MaxCrashes,  \* bound: times the service ends
  MaxRetries,  \* bound: times the user asks for Retry Undelivered Input
  NoFrame      \* nothing in flight

Panes == PtyPanes \cup TmuxPanes
Keys == 1 .. MaxKeys
Frame == [pane : Panes, keys : Seq(Keys)]

ASSUME FrameAssumption == NoFrame \notin Frame
ASSUME CapacitiesAssumption == {MaxKeys, FrameKeys, Capacity, MaxCrashes, MaxRetries} \subseteq Nat
=============================================================================
