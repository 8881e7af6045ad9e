----------------------------- MODULE MCSyncQueue -----------------------------
\* SyncQueue on small instances.
EXTENDS SyncQueue, TLC

==============================================================================
