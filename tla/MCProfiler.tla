----------------------------- MODULE MCProfiler -----------------------------
\* Instance of Profiler for TLC.
EXTENDS Profiler
==============================================================================
