---------------------------- MODULE MCTunnelClient ----------------------------
EXTENDS TunnelClient
=============================================================================
