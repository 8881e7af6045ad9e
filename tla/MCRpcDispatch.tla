---------------------------- MODULE MCRpcDispatch ----------------------------
\* RpcDispatch on small instances.
EXTENDS RpcDispatch

\* What SipMessage::getSipHeaderValue is documented to return a value for: the
\* well-known headers and all unknown ones.
AllHeaders == RequiredHeaders \cup {"Service-Route"}

\* What Sofia/SipMessage.cc returns a value for.
SofiaHeaders == {"Service-Route"}

==============================================================================
