--------------------------- MODULE ReleaseLedger ---------------------------
(***************************************************************************)
(* What release scanning promises to one subscription, seen from outside:  *)
(* the tag recorded for it in the table and the release event published    *)
(* for it change together, in one step, and only from an older release to  *)
(* a newer one.  The saga of the scanner is the way the program gets this  *)
(* from two services that share no transaction.                            *)
(***************************************************************************)
EXTENDS Integers, Sequences

CONSTANTS Ids, Tags

VARIABLES
    seen,       \* the recorded tag, or Absent when there is no such row
    told        \* the baseline and every tag published since

Absent == -1

Init ==
    /\ seen = [i \in Ids |-> Absent]
    /\ told = [i \in Ids |-> <<>>]

Enrol(i, tag) ==
    /\ told[i] = <<>>
    /\ seen' = [seen EXCEPT ![i] = tag]
    /\ told' = [told EXCEPT ![i] = <<tag>>]

Notify(i, tag) ==
    /\ told[i] # <<>>
    /\ tag > told[i][Len(told[i])]
    /\ told' = [told EXCEPT ![i] = Append(@, tag)]
    /\ seen' = [seen EXCEPT ![i] = IF @ = Absent THEN Absent ELSE tag]

Leave(i) ==
    /\ seen' = [seen EXCEPT ![i] = Absent]
    /\ UNCHANGED told

Next ==
    \E i \in Ids : Leave(i) \/ \E tag \in Tags : Enrol(i, tag) \/ Notify(i, tag)

Spec == Init /\ [][Next]_<<seen, told>>

=============================================================================
