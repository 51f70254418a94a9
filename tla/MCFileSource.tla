---------------------------- MODULE MCFileSource ----------------------------
EXTENDS FileSource, TLC
=============================================================================
