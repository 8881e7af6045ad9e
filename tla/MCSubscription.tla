---------------------------- MODULE MCSubscription ----------------------------
\* Subscription on small instances.
EXTENDS Subscription, TLC
==============================================================================
