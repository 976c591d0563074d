----------------------------- MODULE MCNoteStore -----------------------------
EXTENDS NoteStore, TLC

Symmetry ==
  Permutations(Ids) \cup Permutations(Payments) \cup Permutations(Hashes)

\* Requests that can only be refused, whatever happens while they wait, are
\* not begun: an id in use stays in use.
Worthwhile ==
  \A c \in Calls : call'[c] # call[c] /\ call'[c] # NoCall =>
    /\ Distinct(call'[c].k1) /\ Distinct(call'[c].outs)
    /\ \A j \in DOMAIN call'[c].outs : ~IdInUse(call'[c].outs[j])

\* a request waits while a round does only as long as two ids are free
Room ==
  (at # NoHash /\ \E c \in Calls : call[c] # NoCall) =>
    Cardinality({i \in Ids : ~IdInUse(i)}) >= 2

=============================================================================
