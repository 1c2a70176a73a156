---------------------------- MODULE RecheckLedger ----------------------------
(* What the generation loop promises of rechecks, whatever queues, tasks and   *)
(* goroutines it keeps this promise with.                                      *)
(*                                                                             *)
(* A recheck that is enqueued during a generation is owed until the next one   *)
(* begins.  There it is due until its document has been compared, and the      *)
(* generation does not end before.  So nothing that is owed is forgotten, and  *)
(* nothing that is due is added to or put off.                                 *)
EXTENDS Naturals

CONSTANT Recheck  \* the rechecks that there can be

VARIABLES
    generation,
    owed,  \* what the next generation has to compare
    due    \* what this generation has still to compare

vars == <<generation, owed, due>>

\* In generation 0 any document may be due.
Init ==
    /\ generation = 0
    /\ owed = {}
    /\ due \subseteq Recheck

\* Rechecks are enqueued, for changes or for mismatches.
Owe ==
    /\ owed \subseteq owed'
    /\ owed' \subseteq Recheck
    /\ UNCHANGED <<generation, due>>

\* Some of what is due has been compared.
Compare ==
    /\ due' \subseteq due
    /\ owed \subseteq owed'
    /\ owed' \subseteq Recheck
    /\ UNCHANGED generation

\* The next generation begins.
Turn ==
    /\ due = {}
    /\ generation' = generation + 1
    /\ due' = owed
    /\ owed' = {}

Next == Owe \/ Compare \/ Turn

Spec == Init /\ [][Next]_vars

=============================================================================
