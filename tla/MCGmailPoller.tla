--------------------------- MODULE MCGmailPoller ---------------------------
(* Small instances of GmailPoller for TLC.                                 *)
EXTENDS GmailPollerMirror, TLC

Inline   == [recent |-> FALSE, inline |-> TRUE]
Forced   == [recent |-> TRUE, inline |-> TRUE]
StoreOnly == [recent |-> FALSE, inline |-> FALSE]

InlineModes == {Inline, Forced}
HistoryOnly == {Inline}
SplitModes  == {StoreOnly}

Symmetry == Permutations(Messages) \cup Permutations(Pollers)

=============================================================================
