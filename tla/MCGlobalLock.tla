---------------------------- MODULE MCGlobalLock ----------------------------
EXTENDS GlobalLock, TLC

CONSTANTS t1, t2

TwoThreads == {t1, t2}
=============================================================================
