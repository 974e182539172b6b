---------------------------- MODULE MC_LocalUsers ----------------------------
EXTENDS LocalUsers
==============================================================================
