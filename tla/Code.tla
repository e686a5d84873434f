-------------------------------- MODULE Code --------------------------------
(***************************************************************************)
(* The codes of pastes (code.go): three words, or digits in three groups,  *)
(* separated by dashes, and what canonical makes of a code somebody types: *)
(* words may be cut short and in capitals, digits may be grouped in any    *)
(* way.  A text is the sequence of its parts between dashes (blanks around *)
(* it, which TrimSpace removes, are left out); a part is a sequence of     *)
(* characters.                                                             *)
(***************************************************************************)
EXTENDS Integers, Sequences, FiniteSets, SequencesExt

CONSTANTS
    Words,      \* wordlist: sequences of characters
    Digit,      \* the characters that are digits
    Capital,    \* the capital of each letter
    GroupLen    \* digits in a group

\* "No word is a prefix of another": expand would take a word cut down to
\* another one for that one.
ASSUME WordsAssumption ==
    /\ IsFiniteSet(Words) /\ GroupLen \in Nat \ {0}
    /\ Words \subseteq Seq(DOMAIN Capital) \ {<<>>}
    /\ \A v, w \in Words : IsPrefix(v, w) => v = w

\* Words are made of small letters, of which no capital is one, and there are
\* several: what starts no word at all could stand for the only one.
ASSUME LettersAssumption ==
    /\ \A c \in DOMAIN Capital : {c, Capital[c]} \cap Digit = {} /\ Capital[c] \notin DOMAIN Capital
    /\ \A c, d \in DOMAIN Capital : Capital[c] = Capital[d] => c = d
    /\ \A w \in Words : \E v \in Words : v # w

Refused == <<>>

\* newCode and newDigitCode
wordCodes == [1..3 -> Words]
digitCodes == [1..3 -> [1..GroupLen -> Digit]]

\* strings.ToLower
lower(part) ==
    [i \in DOMAIN part |->
        IF \E c \in DOMAIN Capital : Capital[c] = part[i]
        THEN CHOOSE c \in DOMAIN Capital : Capital[c] = part[i]
        ELSE part[i]]

\* Mutant: an ambiguous prefix stands for one of its words.
ExpandFirst(prefix) ==
    LET matches == {w \in Words : IsPrefix(prefix, w)}
    IN  IF matches = {} THEN Refused ELSE CHOOSE w \in matches : TRUE

\* expand: a word, or a prefix of one word only.
expand(prefix) ==
    LET matches == {w \in Words : IsPrefix(prefix, w)}
    IN  IF prefix \in Words THEN prefix
        ELSE IF Cardinality(matches) = 1 THEN CHOOSE w \in matches : TRUE
        ELSE Refused

\* digitCode: all the digits of a text that has the right number of them and,
\* but for dashes, nothing else.
isDigitCode(text) ==
    LET digits == FlattenSeq(text)
    IN  Len(digits) = 3 * GroupLen /\ \A i \in DOMAIN digits : digits[i] \in Digit

groupDigits(digits) ==
    [g \in 1..3 |-> SubSeq(digits, (g - 1) * GroupLen + 1, g * GroupLen)]

\* canonical, on the text in lower case.
resolved(text) ==
    LET parts == [i \in DOMAIN text |-> expand(text[i])]
    IN  IF isDigitCode(text) THEN groupDigits(FlattenSeq(text))
        ELSE IF Len(text) = 3 /\ \A i \in 1..3 : parts[i] # Refused THEN parts
        ELSE Refused

canonical(text) == resolved([i \in DOMAIN text |-> lower(text[i])])

-----------------------------------------------------------------------------
\* What people type for a code

\* Its words, or groups of digits, as they are or cut short.
shortened(code) ==
    {<<u, v, w>> : u \in Prefixes(code[1]), v \in Prefixes(code[2]), w \in Prefixes(code[3])}

\* Its digits without dashes, or with dashes in two other places.
regrouped(code) ==
    LET digits == FlattenSeq(code)
        n      == Len(digits)
    IN  {<<digits>>} \cup
        {<<SubSeq(digits, 1, i), SubSeq(digits, i + 1, j), SubSeq(digits, j + 1, n)>> :
            i \in 0..n, j \in 0..n}

capitals(text) ==
    [p \in DOMAIN text |->
        [i \in DOMAIN text[p] |->
            IF text[p][i] \in DOMAIN Capital THEN Capital[text[p][i]] ELSE text[p][i]]]

typed(code) ==
    LET small == shortened(code) \cup (IF isDigitCode(code) THEN regrouped(code) ELSE {})
    IN  small \cup {capitals(text) : text \in small}
=============================================================================
