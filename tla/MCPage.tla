------------------------------- MODULE MCPage -------------------------------
EXTENDS PageWalk, TLC

=============================================================================
