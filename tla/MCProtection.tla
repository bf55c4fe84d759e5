---------------------------- MODULE MCProtection ----------------------------
\* A small instance of Protection for TLC: two relays, two handlers.
EXTENDS Protection
=============================================================================
