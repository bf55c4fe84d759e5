--------------------------- MODULE MCRelayTunnel ---------------------------
EXTENDS RelayTunnel
=============================================================================
