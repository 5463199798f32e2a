---------------------------- MODULE MCRemoteGame ----------------------------
EXTENDS RemoteGame
=============================================================================
