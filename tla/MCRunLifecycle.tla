--------------------------- MODULE MCRunLifecycle ---------------------------
EXTENDS RunLifecycle

\* Three of the six components of main-full.cc, which main constructs in one
\* order and writes in another.
Constructed == <<"utilization", "queue", "burst">>
Written == <<"burst", "utilization", "queue">>
=============================================================================
