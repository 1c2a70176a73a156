--------------------------- MODULE MCChangeReader ---------------------------
\* WritesOff makes a new time on MongoDB and only reads the clock of DocumentDB,
\* which therefore needs one time fewer for the same events.
EXTENDS ChangeReader

ClockBound == kind = "documentDB" => clock < MaxTime
=============================================================================
