-------------------------- MODULE MC_SecretWatcher --------------------------
EXTENDS SecretWatcher
=============================================================================
