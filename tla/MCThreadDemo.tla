----------------------------- MODULE MCThreadDemo -----------------------------
EXTENDS ThreadDemo

\* The ids demo_rwlock gives its two writers.
DemoWriters == <<98, 99>>
=============================================================================
