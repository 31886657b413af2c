----------------------------- MODULE MCAsioEcho -----------------------------
\* Model-checking instance of AsioEcho: connections are interchangeable, and
\* so are the addresses of sessions.
EXTENDS AsioEcho, TLC

Interchangeable == Permutations(Conn) \cup Permutations(Session)
=============================================================================
