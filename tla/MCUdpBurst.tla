----------------------------- MODULE MCUdpBurst -----------------------------
EXTENDS UdpBurst

Entry(from, to, rate, start, duration) ==
  [from |-> from, to |-> to, rate |-> rate, start |-> start, duration |-> duration]

\* Three bursts: two to the same endpoint, the second together with the first
\* or the third; one without duration or that outlives the simulation, one
\* that ends just when its next packet would be sent.
SoundSchedules ==
  {<<Entry(1, 3, 3, 0, 3), Entry(2, 1, 4, 1, 5), Entry(2, 3, 2, 1, 2)>>,
   <<Entry(1, 3, 3, 0, 3), Entry(2, 1, 4, 0, 0), Entry(2, 3, 2, 1, 2)>>}

\* A burst from or to number 4, which is no node; three bursts from a node with
\* two ports.
OtherSchedules ==
  {<<Entry(1, 3, 3, 0, 3), Entry(4, 1, 4, 1, 0)>>,
   <<Entry(1, 3, 3, 0, 3), Entry(2, 4, 4, 1, 0)>>,
   <<Entry(2, 1, 4, 0, 0), Entry(2, 3, 4, 0, 0), Entry(2, 1, 4, 1, 0)>>}

SomeSchedules == SoundSchedules \cup OtherSchedules

\* One process, and two in which one, the other or both ends of a burst are.
\* The assignment of a distributed run has as many entries as there are nodes,
\* so none for number 4; a process on its own does not look at it.
SomeAssignments ==
  {<<"A", "A", "A", "A">>, <<"A", "B", "A", "nobody">>, <<"A", "A", "B", "nobody">>}
=============================================================================
