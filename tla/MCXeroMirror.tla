---------------------------- MODULE MCXeroMirror ----------------------------
(***************************************************************************)
(* Instances of XeroMirror for TLC.  Records of a list are interchangeable *)
(* but for their order, so the workers alone are symmetric.                *)
(***************************************************************************)
EXTENDS XeroMirror, TLC

CONSTANTS w1, w2

MCIds == 1 .. 3
WorkerSymmetry == Permutations(Workers)

\* Bound: a list longer than the page cap changes once, a shorter one up to
\* MaxEdits times; without pages two records and a change are enough.
MCLongListChangesOnce == IF order = None THEN edits <= 1 /\ xero[3] = None
                                         ELSE edits <= 1 \/ xero[3] = None

\* The order changes during a pull, by a record that moves to the end, as an
\* edited one does in a list ordered by date of update.
MCMovesToTheEnd ==
  order' # order =>
    /\ \E w \in Workers : Running(w)
    /\ \E id \in Ids :
         /\ xero[id] # None /\ \E j \in Ids : xero[j] # None /\ order[j] > order[id]
         /\ order' = [j \in Ids |-> IF j = id THEN Cardinality(Ids)
                                    ELSE IF order[j] > order[id] THEN order[j] - 1 ELSE order[j]]
=============================================================================
