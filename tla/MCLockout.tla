----------------------------- MODULE MCLockout -----------------------------
\* A small instance of failing handshakes against the limiter.
EXTENDS Lockout
=============================================================================
