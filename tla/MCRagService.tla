---------------------------- MODULE MCRagService ----------------------------
(* Small instances of RagService for TLC.                                   *)
EXTENDS RagServiceProps, TLC

NoFaults == {}
AllFaults == FaultKinds
OnlyDisconnects == {"disconnect"}
ProviderFaults == {"provider"}
FaultsForLiveness == {"disconnect", "crash", "recovery_crash"}

NoRateDenials == {}
BothRateDenials == {"ip_rate_limited", "rate_limited"}

\* Bills of 1 against reservations of 2.
CheapCalls == {1}

\* Tasks, keys and questions are interchangeable; not for liveness.
Symmetric == Permutations(Tasks) \cup Permutations(Keys) \cup Permutations(Questions)
SymmetricConversations == Symmetric \cup Permutations(Conversations)

=============================================================================
