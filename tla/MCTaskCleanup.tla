---------------------------- MODULE MCTaskCleanup ----------------------------
EXTENDS TaskCleanup, TLC
=============================================================================
