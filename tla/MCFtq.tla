------------------------------- MODULE MCFtq -------------------------------
\* Three slots: a window may begin and end at any of them, and hold any number.
EXTENDS Ftq
=============================================================================
