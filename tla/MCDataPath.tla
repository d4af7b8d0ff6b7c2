------------------------------- MODULE MCDataPath -------------------------------
\* Instance of DataPath for TLC; every constant is given in the cfg.
EXTENDS DataPath
================================================================================
