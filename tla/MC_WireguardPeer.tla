-------------------------- MODULE MC_WireguardPeer --------------------------
EXTENDS WireguardPeer
=============================================================================
