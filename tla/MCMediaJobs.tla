---------------------------- MODULE MCMediaJobs ----------------------------
EXTENDS MediaJobs

CONSTANTS image, video, w1, w2

\* One worker with one slot, with two, and two workers of which one has two.
OneSlot == {<<w1, 1>>}
TwoSlots == {<<w1, 1>>, <<w1, 2>>}
ThreeSlots == {<<w1, 1>>, <<w1, 2>>, <<w2, 1>>}
=============================================================================
