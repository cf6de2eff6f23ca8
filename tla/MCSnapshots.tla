---------------------------- MODULE MCSnapshots ----------------------------
EXTENDS Snapshots, TLC
=============================================================================
