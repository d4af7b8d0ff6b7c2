-------------------------- MODULE MCCompletionQueue --------------------------
\* Instance of CqNotify, and of CompletionQueue below it, for TLC; every constant
\* is given in the cfg.
EXTENDS CqNotify
==============================================================================
