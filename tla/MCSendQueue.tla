------------------------------ MODULE MCSendQueue ------------------------------
\* Instance of SendQueue for TLC; every constant is given in the cfg.
EXTENDS SendQueue
================================================================================
