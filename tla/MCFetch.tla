------------------------------ MODULE MCFetch ------------------------------
\* A small instance of a fetch.
EXTENDS Fetch
=============================================================================
