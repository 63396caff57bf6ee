----------------------------- MODULE MCIssuance -----------------------------
(* Small instances of Issuance for TLC.                                     *)
EXTENDS IssuanceProps, TLC

OneEmail == {1}
OnePhone == {2}
\* One email hash sorts before the phone's, one after.
TwoEmails == {1, 3}

\* Registrations and exchanges are interchangeable; not for liveness.
Symmetric == Permutations(Registrations) \cup Permutations(Exchanges)

=============================================================================
