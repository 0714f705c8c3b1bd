------------------------- MODULE MCMultiplierGrammar -------------------------
(***************************************************************************)
(* Model-checking instance of MultiplierGrammar: every text of up to two  *)
(* lexemes over numbers, '.', the units, the operators and a stray        *)
(* letter; the full forms number.fraction unit op; each full form with   *)
(* two neighbouring lexemes swapped or a lexeme doubled; non-strings.     *)
(* A client with ports 0 and 1; '--port' lists of up to two of 0, 1 and  *)
(* the unknown port 2, so repeats, order and one bad port among good     *)
(* ones all occur.                                                        *)
(***************************************************************************)
EXTENDS MultiplierGrammar

\* "1", "25" and the fraction digits "05".
Nums == {Digits(1, 1), Digits(25, 2), Digits(5, 2)}
Symbols == {Sym(s) : s \in UnitWords \cup OpWords \cup {".", "x"}}
Lexemes == Nums \cup Symbols

\* A digit lexeme is a maximal run: two are never adjacent.
Wellformed(t) == \A i \in 1..Len(t) - 1 : ~(IsDigits(t[i]) /\ IsDigits(t[i + 1]))

Short == {t \in UNION {[1..k -> Lexemes] : k \in 0..2} : Wellformed(t)}
Full == {<<n>> \o f \o u \o o :
           n \in {Digits(1, 1), Digits(25, 2)},
           f \in {<<>>, <<Sym("."), Digits(5, 2)>>, <<Sym("."), Digits(25, 2)>>},
           u \in {<<>>} \cup {<<Sym(w)>> : w \in UnitWords},
           o \in {<<>>, <<Sym("+")>>, <<Sym("-")>>}}

Swap(t, i) == [t EXCEPT ![i] = t[i + 1], ![i + 1] = t[i]]
Double(t, i) == SubSeq(t, 1, i) \o SubSeq(t, i, Len(t))
Near == {t \in UNION {{Swap(f, i) : i \in 1..Len(f) - 1} \cup {Double(f, i) : i \in 1..Len(f)} :
                       f \in Full} : Wellformed(t)}

MCTexts == Short \cup Full \cup Near \cup {None}

\* The port option sets a command's parser is built from: each option
\* alone, both added separately, and the mutually exclusive group.
MCClientPorts == <<0, 1>>

MCCommands == {{"PORT_LIST"}, {"ALL_PORTS"}, {"PORT_LIST", "ALL_PORTS"},
               {"PORT_LIST_WITH_ALL"}}

=============================================================================
