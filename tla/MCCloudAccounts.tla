-------------------------- MODULE MCCloudAccounts --------------------------
\* Two redemptions of the code at once (a retry, a second card).
EXTENDS CloudAccounts

=============================================================================
