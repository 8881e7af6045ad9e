------------------------------- MODULE MCGateway -------------------------------
\* Gateway on a small instance.
EXTENDS Gateway, TLC

==============================================================================
