------------------------------ MODULE MCYmodem ------------------------------
\* Small instances of Ymodem for TLC; the numbers are in the cfg files.
EXTENDS Ymodem

\* Long enough for Size = 5, or for Size = 3.
MCLong == {5, 7}
MCExact == {3}

\* Size = 11, cut inside a block, inside the last one, and whole.
MCEnds == {5, 10, 11}
=============================================================================
