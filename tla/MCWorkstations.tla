--------------------------- MODULE MCWorkstations ---------------------------
(***************************************************************************)
(* The workstations beside the tmux clients of the local ones: the tree of *)
(* workstations (Workstations) and, as Tmux, TmuxClients on its own names, *)
(* for the run of MCRegistry and the proofs of WorkstationsProofs.  They   *)
(* share the request threads and None, and no variable.                    *)
(***************************************************************************)
EXTENDS Workstations, Sequences

CONSTANTS
  LocalWorkstations,  \* those with a tmux session of this machine
  LocalPanes,         \* their terminals
  MaxWindows,         \* bound: windows opened
  MaxClients,         \* bound: control clients started
  MaxSessions         \* bound: sessions made

\* No client of a workstation, and no workstation of a closed window.
ASSUME NoClientAssumption == None \notin LocalWorkstations /\ None \notin Nat

VARIABLES
  tmux_clients, client, tmux_sinks, session, attached, windows, thread, healer, misjudged

Tmux == INSTANCE TmuxClients
  WITH Workstations <- LocalWorkstations, Panes <- LocalPanes, panes <- attached,
       request <- thread

\* When all is quiet every pane's connection is whole (TmuxClients).
PanesAreConnected == Tmux!PanesAreConnected
=============================================================================
