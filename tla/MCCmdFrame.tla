---------------------------- MODULE MCCmdFrame -----------------------------
\* A small instance of CmdFrame for TLC.
EXTENDS CmdFrame

\* A frame without data, and one whose data look like the start of a frame.
MCCommands == {[cmd |-> 240, dat |-> <<>>],
               [cmd |-> 225, dat |-> <<239, 190, 173, 222>>]}

\* Text that ends in a byte of the magic which is not the first.
MCTexts == {<<65, 190>>}

MCCrc(s) == (Len(s) * 1000 + s[7]) % 65536
=============================================================================
