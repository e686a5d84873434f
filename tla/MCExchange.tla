----------------------------- MODULE MCExchange -----------------------------
\* A small instance of an exchange: a store of four pastes, three words of one
\* or two letters, codes of three digits.
EXTENDS Exchange

SmallWords == {<<"a", "b">>, <<"a", "c">>, <<"d">>}

SmallCapital == [c \in {"a", "b", "c", "d"} |->
    CASE c = "a" -> "A" [] c = "b" -> "B" [] c = "c" -> "C" [] c = "d" -> "D"]

SmallCodes ==
    << << <<"a", "b">>, <<"d">>, <<"a", "c">> >>,
       << <<"0">>, <<"0">>, <<"1">> >>,
       << <<"a", "c">>, <<"d">>, <<"a", "c">> >>,
       << <<"0">>, <<"1">>, <<"0">> >> >>

SmallPrs == {SmallCodes[i] : i \in 1..4} \cup {<< <<"d">>, <<"d">>, <<"a", "b">> >>}
=============================================================================
