----------------------------- MODULE MCLibrary -----------------------------
EXTENDS Library

MCWords == {0, 1, 2, 3, 5, 7, 10, 16, 63, 64, 100, 126, 127, 128, 129, 130, 170, 192, 246, 253, 254, 255}
MCFields == {0, 85, 153, 255}
MCLongs == {0, 1, 2, 3, 7, 10, 255, 256, 257, 1000, 4095, 4096, 4097, 12345, 32766, 32767, 32768, 32769,
            43690, 61440, 65280, 65281, 65534, 65535}
MCMantissas == {2048, 2049, 2050, 2730, 3072, 3585, 4079, 4094, 4095}
MCExponents == {0, 1, 9, 31, 32, 33, 37, 43, 44, 45, 62, 63}
MCDays == (0..800) \cup (10950..11400) \cup (24800..24854)
MCTimes == {<<0, 0, 0>>, <<3, 14, 7>>, <<12, 34, 56>>}
MCStrings == {<<1>>, <<10, 2>>, <<3, 11, MINUS, 35>>, <<1, 2, 3, 4, 5, 6, 7, 8, 9>>}
MCDirectory == [u \in {"0", "1"} |-> IF u = "0" THEN <<<<"f", ".">>, <<"g", ".">>>> ELSE <<<<"f", ".">>>>]
MCName == <<"p">>
MCSpacing == {<<>>, <<" ">>, <<" ", CONT>>}
Item(kind, typed, says) == [kind |-> kind, typed |-> typed, says |-> says]
MCItems ==
  {Item(kind, text, text) : kind \in {"op"}, text \in {<<"<">>, <<">">>, <<">", ">">>}}
  \cup {Item(kind, text, text) : kind \in {"wild"}, text \in {<<"*">>, <<"z", "*">>, <<"1", ":", "*">>}}
  \cup {Item("word", <<"f", ".">>, <<"f", ".">>), Item("word", <<"b", CONT, "c">>, <<"b", "c">>),
        Item("word", <<"'", "a", " ", "b", "'">>, <<"a", " ", "b">>),
        Item("word", <<"\"", "*", "'", "\"">>, <<"*", "'">>),
        Item("word", <<"'", ">", "'">>, <<">">>),
        Item("word", <<"a", "'", ">", "'">>, <<"a", ">">>)}
=============================================================================
