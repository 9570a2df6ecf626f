------------------------------- MODULE MCDeploy -------------------------------
EXTENDS Deploy
=============================================================================
