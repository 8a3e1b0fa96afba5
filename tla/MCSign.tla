------------------------------- MODULE MCSign -------------------------------
\* A small instance of Sign for TLC.
EXTENDS Sign

MCSizes == 0..19
=============================================================================
