-------------------------- MODULE MCSearchManager --------------------------
\* SearchManager with two sessions for one place.
EXTENDS SearchManager
=============================================================================
