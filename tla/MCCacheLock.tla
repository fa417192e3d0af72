----------------------------- MODULE MCCacheLock ------------------------------
EXTENDS CacheLock

CONSTANTS r1, r2
==============================================================================
