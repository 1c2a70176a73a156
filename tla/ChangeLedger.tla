---------------------------- MODULE ChangeLedger ----------------------------
(* What change handling promises of one cluster's changes, whatever readers,   *)
(* channels and persistors it keeps this promise with.                         *)
(*                                                                             *)
(* Changes are numbered in the order of the cluster's stream.  The first resume *)
(* token is of the present: generation 0 compares what was there before.  After *)
(* that a token covers a change only if its recheck is stored, though one token *)
(* may cover less than the one before.  A crash forgets what no token covers.   *)
(* Once the writes-off timestamp is known, change handling ends when all that   *)
(* happened up to it is stored, and then stores nothing more.                   *)
EXTENDS Integers

CONSTANT None  \* no value

VARIABLES
    happened,  \* how many changes the stream has
    stored,    \* those that are accounted for
    token,     \* the last of those that the persisted resume token covers, or None
    asked,     \* the writes-off timestamp is known
    due,       \* the changes up to it
    over       \* change handling has ended

vars == <<happened, stored, token, asked, due, over>>

Covers(t) == t \in 0..happened /\ 1..t \subseteq stored

Init ==
    /\ happened = 0 /\ stored = {}
    /\ token = None
    /\ ~asked /\ due = {}
    /\ ~over

Happen ==
    /\ happened' \in Nat /\ happened <= happened'
    /\ UNCHANGED <<stored, token, asked, due, over>>

\* The stream is opened for the first time, with a token of its own.
Open ==
    /\ token = None
    /\ token' = happened
    /\ stored' = stored \cup 1..happened
    /\ UNCHANGED <<happened, asked, due, over>>

Store ==
    /\ ~over
    /\ stored \subseteq stored' /\ stored' \subseteq 1..happened
    /\ UNCHANGED <<happened, token, asked, due, over>>

Persist ==
    /\ token # None
    /\ Covers(token')
    /\ UNCHANGED <<happened, stored, asked, due, over>>

\* Writes-off: its timestamp tells which changes are due.
Ask ==
    /\ ~asked /\ ~over
    /\ asked'
    /\ due' \subseteq 1..happened
    /\ UNCHANGED <<happened, stored, token, over>>

\* The last step may also persist a token.
Finish ==
    /\ ~over /\ over'
    /\ asked /\ due \subseteq stored
    /\ token' = token \/ Covers(token')
    /\ UNCHANGED <<happened, stored, asked, due>>

Crash ==
    /\ stored' \subseteq stored
    /\ token # None => 1..token \subseteq stored'
    /\ ~asked' /\ due' = {}
    /\ ~over'
    /\ UNCHANGED <<happened, token>>

Next == Happen \/ Open \/ Store \/ Persist \/ Ask \/ Finish \/ Crash

Spec == Init /\ [][Next]_vars

=============================================================================
