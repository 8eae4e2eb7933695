---------------------------- MODULE MCChatSession ---------------------------
EXTENDS ChatSession, TLC

Symmetry == Permutations(Users)
=============================================================================
