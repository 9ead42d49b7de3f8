---------------------------- MODULE MCPaneStream ----------------------------
(* One pane whose terminal changes and whose session is replaced, or two   *)
(* panes shown together that compete for the budget.                       *)
EXTENDS PaneStream

TwoTabs == [p \in Panes |-> IF p <= 2 THEN 1 ELSE 2]

Scenarios ==
  \/ Cardinality(open) = 1 /\ 1 \in open /\ changes = 0 /\ replaced = 0
  \/ Cardinality(open) = 2 /\ changes = MaxChanges /\ replaced = MaxReplaced

MCInit == Init /\ Scenarios

MCSpec == MCInit /\ [][Next]_vars /\ Fairness
=============================================================================
