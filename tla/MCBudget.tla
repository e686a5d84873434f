------------------------------ MODULE MCBudget ------------------------------
\* A small instance of the limiter's two buckets.
EXTENDS Budget
=============================================================================
