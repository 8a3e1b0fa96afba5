------------------------------- MODULE MCCli --------------------------------
\* Small instances of Cli for TLC.
EXTENDS Cli

Short(text, keys, val) ==
  [text |-> text, name |-> <<>>, keys |-> keys, val |-> val]
Plain(text) == Short(text, <<>>, "")
Long(text, name, val) ==
  [text |-> text, name |-> name, keys |-> <<>>, val |-> val]

\* Options with a value, attached or not, two options in one element, names in
\* full, abbreviated and ambiguous, arguments that look like values, options
\* that do not exist or take no value.
MCVocabulary ==
  [ws63flash |-> {Short("-vf", <<"v", "f">>, ""), Long("--e", <<"e">>, ""),
                  Long("--w", <<"w">>, ""), Long("--write", <<"w", "rite">>, ""),
                  Long("--late-baud", <<"l", "ate-baud">>, ""),
                  Short("-b", <<"b">>, ""), Plain("tty"), Plain("921600")},
   ws63fwpkg |-> {Short("-i", <<"i">>, ""), Long("--o", <<"o">>, ""),
                  Short("-o-", <<"o">>, "-"), Plain("--"), Plain("fwpkg")},
   ws63sign |-> {Short("-o", <<"o">>, ""), Long("--out=x", <<"o", "ut">>, "x"),
                 Short("-x", <<"?">>, ""), Plain("--"), Plain("-"),
                 Plain("input"), Plain("other")}]

MCPrograms == DOMAIN MCVocabulary
MCMaxLen == [ws63flash |-> 4, ws63fwpkg |-> 5, ws63sign |-> 3]
MCBauds == {"921600"}

MCFewer == [ws63flash |-> 3, ws63fwpkg |-> 2, ws63sign |-> 1]
=============================================================================
