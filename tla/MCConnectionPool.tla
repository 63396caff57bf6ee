-------------------------- MODULE MCConnectionPool --------------------------
EXTENDS ConnectionPoolProps

=============================================================================
