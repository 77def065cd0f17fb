---------------------------- MODULE MCLeaderLock ----------------------------
EXTENDS LeaderLock
CONSTANTS i1, i2, i3
=============================================================================
