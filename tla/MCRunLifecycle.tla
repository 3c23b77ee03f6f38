----------------------------- MODULE MCRunLifecycle -----------------------------
\* Two secondaries that start, run and end together: instances for TLC.
EXTENDS RunLifecycle

Healthy == [socket |-> FALSE, daemon |-> TRUE, nixStore |-> TRUE, cacheServer |-> TRUE,
            registration |-> "valid"]

\* A host, and one whose image declares a registration that does not load.
TwoHosts == {Healthy, [Healthy EXCEPT !.registration = "rejected"]}
=============================================================================
