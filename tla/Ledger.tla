------------------------------- MODULE Ledger -------------------------------
(***************************************************************************)
(* What a collection promises about its documents, whoever asks for what   *)
(* and whatever fails: an id is used once, a document only grows while it  *)
(* exists, a deleted document stays deleted, and every change has a        *)
(* revision of its own, later than all before it.                          *)
(***************************************************************************)
EXTENDS Protocol

VARIABLES
    entry,    \* per document: the revision and the data of its last change
    clock     \* the last revision given out

Init ==
    /\ entry = [d \in Doc |-> [rev |-> 0, data |-> Null]]
    /\ clock = 0

Record(d, data) ==
    /\ clock' = clock + 1
    /\ entry' = [entry EXCEPT ![d] = [rev |-> clock + 1, data |-> data]]

Create(d) ==
    /\ entry[d].rev = 0
    /\ \E v \in Version : Record(d, v)

Extend(d) ==
    /\ entry[d].data # Null
    /\ \E v \in Version : entry[d].data \subseteq v /\ Record(d, v)

Delete(d) ==
    /\ entry[d].data # Null
    /\ Record(d, Null)

\* A revision that no document carries: its change failed half-way.
Skip ==
    /\ clock' = clock + 1
    /\ UNCHANGED entry

Next == Skip \/ \E d \in Doc : Create(d) \/ Extend(d) \/ Delete(d)

Spec == Init /\ [][Next]_<<entry, clock>>
=============================================================================
