---------------------------- MODULE MCBlockLog ----------------------------
\* The block log with a few blocks, for TLC.
EXTENDS BlockLog
=============================================================================
