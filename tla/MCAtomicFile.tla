---------------------------- MODULE MCAtomicFile ----------------------------
EXTENDS AtomicFile

CONSTANTS v1, v2

MCValue == {v1, v2}
=============================================================================
