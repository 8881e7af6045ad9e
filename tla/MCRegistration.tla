---------------------------- MODULE MCRegistration ----------------------------
\* Registration on small instances.
EXTENDS Registration, TLC

RegistrationSymmetry == Permutations(Sessions) \cup Permutations(Scscfs)

==============================================================================
