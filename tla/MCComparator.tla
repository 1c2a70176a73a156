---------------------------- MODULE MCComparator ----------------------------
\* Under _id partitioning every combination of conditions of the documents.  Under
\* natural partitioning, whose states are many more, those that make a difference
\* to the rounds: nothing wrong; everything missing, which fills the comparator;
\* a missing document before and after ones that are found, in one reply and in
\* two; and one that the source's scan does not meet.
EXTENDS Comparator

NaturalConditions ==
    {<<"same", "same", "same">>, <<"missing", "missing", "missing">>,
     <<"missing", "differs", "same">>, <<"differs", "missing", "missing">>,
     <<"same", "differs", "missing">>, <<"missing", "extra", "differs">>}

MCInit == Init /\ (natural => condition \in NaturalConditions)

MCSpec == MCInit /\ [][Next]_vars /\ Fairness
=============================================================================
