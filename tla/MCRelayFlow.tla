---------------------------- MODULE MCRelayFlow ----------------------------
EXTENDS RelayFlow
=============================================================================
