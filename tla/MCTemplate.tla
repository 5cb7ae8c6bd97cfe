----------------------------- MODULE MCTemplate -----------------------------
(***************************************************************************)
(* Template over every message made of a few pieces, in families: the text *)
(* of messages, positions in the WAL, quoted names and data, statements    *)
(* with lists, what follows a list of VALUES, and messages around the      *)
(* length at which a template is cut.                                      *)
(***************************************************************************)
EXTENDS Template

CONSTANTS TextLen, LSNLen, StmtLen, ListLen, CutLen, CutLimits

\* All sequences of at most n of the pieces, one after the other.
Joined(pieces, n) ==
  LET joined[k \in 0..n] ==
        IF k = 0 THEN {<<>>}
        ELSE {s \o p : s \in joined[k - 1], p \in pieces \cup {<<>>}}
  IN joined[n]

Of(texts, limits, classes) ==
  [text : texts, limit : limits, data : classes]

\* One piece for each symbol.
Ones(symbols) == {<<c>> : c \in symbols}

TextMessages ==
  Of(Joined(Ones({"w", "0", " ", "'", "$", "=", "-", "/", ".", ",", "pid", "ms"}),
            TextLen), {40}, {FALSE})

LSNMessages ==
  Of(Joined(Ones({"0", "e", "/", " "}), LSNLen), {40}, {FALSE})

NameMessages ==
  Of(Joined({<<"w">>, <<" ">>, <<":">>, <<"for", " ">>, <<"index", " ">>,
             <<"\"", "w", "\"">>, <<"\"", "0", "\"">>, <<"base", "/", "w">>,
             <<"0">>, <<"plan", ":">>},
            TextLen), {40}, BOOLEAN)

StmtMessages ==
  Of({m \o s :
        m \in {<<"statement", ":">>, <<"0", " ", "execute", " ", "w", ":", " ">>},
        s \in Joined({<<"in">>, <<"values">>, <<"(">>, <<")">>, <<",">>,
                      <<"(", "0", ")">>, <<"0">>, <<"w">>, <<"'">>, <<" ">>},
                     StmtLen)},
     {40}, {FALSE})

\* A VALUES list that may go on with another tuple.
ListMessages ==
  Of({<<"statement", ":", " ", "values", "(", "0", ")">> \o s :
        s \in Joined({<<",">>, <<"(">>, <<")">>, <<"'", "w", "'">>, <<"0", "w">>,
                      <<"w">>, <<"$">>, <<" ">>},
                     ListLen)},
     {40}, {FALSE})

CutMessages ==
  Of(Joined({<<"w">>, <<"0">>, <<" ">>, <<"lead", "cont">>, <<",">>}, CutLen),
     CutLimits, {FALSE})

MCMessages == {TextMessages, LSNMessages, NameMessages, StmtMessages, ListMessages, CutMessages}
=============================================================================
