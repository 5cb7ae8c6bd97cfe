------------------------------- MODULE Tokens -------------------------------
(***************************************************************************)
(* The tokenizer of message templates (template.go:835-1329).              *)
(*                                                                         *)
(* A message is a sequence of symbols.  A symbol is one byte, or a piece   *)
(* of text the rules treat as a whole: a keyword, a unit, the ellipsis, a  *)
(* fragment of a word.  Where the rules tell two bytes of a class apart    *)
(* both are symbols; where they do not ("+" and "-", the letters of a      *)
(* word, upper and lower case, guillemets and quotes) one stands for all.  *)
(*                                                                         *)
(* Positions count from 1 and the end of a token is the position after it. *)
(***************************************************************************)
EXTENDS Naturals, Sequences, FiniteSetsExt

CONSTANT MaxHexDigits \* of each half of an LSN

ASSUME HexAssumption == MaxHexDigits \in Nat \ {0}

Digits == {"0", "1"}

HexDigits == Digits \cup {"e", "C"}

Keywords == {"in", "values", "for", "pid", "index", "plan", "statement",
             "execute", "base"}

\* "w" is a fragment of a word, "C", "e" and "x" are letters of their own,
\* "ms" is a unit, "lead" and "cont" are the bytes of a two-byte character.
WordBytes ==
  Digits \cup Keywords \cup {"w", "C", "e", "x", "ms", "lead", "cont", "..."}

Spaces == {" ", "\n"}

IsDigit(c)    == c \in Digits
IsWordByte(c) == c \in WordBytes
IsSpace(c)    == c \in Spaces

\* s[i] is there and in set.
At(s, i, set) == i \in 1..Len(s) /\ s[i] \in set

\* The first position from i on that is not of the kind Keeps tells.
RunEnd(s, i, Keeps(_)) ==
  LET stops == {j \in i..Len(s) : ~Keeps(j)}
  IN IF stops = {} THEN Max({i, Len(s) + 1}) ELSE Min(stops)

RunOf(s, i, set) == RunEnd(s, i, LAMBDA j : s[j] \in set)

Slice(s, i, end) == SubSeq(s, i, end - 1)
-----------------------------------------------------------------------------
ContinuesWord(s, i) ==
  \/ At(s, i, WordBytes \cup {"$"})
  \/ At(s, i, {"."}) /\ At(s, i + 1, WordBytes)

ScanWord(s, i) == RunEnd(s, i, LAMBDA j : ContinuesWord(s, j))

ScanDigits(s, i) == RunOf(s, i, Digits)

ScanQuoted(s, i, q, backslash) ==
  LET end[j \in i..(Len(s) + 2)] ==
        IF j > Len(s) THEN Len(s) + 1
        ELSE IF backslash /\ s[j] = "\\" THEN end[j + 2]
        ELSE IF s[j] # q THEN end[j + 1]
        ELSE IF At(s, j + 1, {q}) THEN end[j + 2]
        ELSE j + 1
  IN end[i]

\* Comments nest; depth is that at position j.
ScanBlockComment(s, i) ==
  LET end[j \in i..(Len(s) + 2), depth \in 0..Len(s)] ==
        IF depth = 0 THEN j
        ELSE IF j >= Len(s) THEN Len(s) + 1
        ELSE IF s[j] = "/" /\ s[j + 1] = "*" THEN end[j + 2, depth + 1]
        ELSE IF s[j] = "*" /\ s[j + 1] = "/" THEN end[j + 2, depth - 1]
        ELSE end[j + 1, depth]
  IN end[i, 1]

(***************************************************************************)
(* An LSN such as 0/16B3748: the end of the token, or 0 when there is none.*)
(* Longer runs of digits are no halves of one, and followed by "/" it is   *)
(* left to the path rule.                                                  *)
(***************************************************************************)
ScanLSN(s, i) ==
  LET j == RunOf(s, i, HexDigits)
      k == RunOf(s, j + 1, HexDigits)
  IN IF /\ j - i \in 1..MaxHexDigits /\ At(s, j, {"/"})
        /\ k - (j + 1) \in 1..MaxHexDigits
        /\ ~ContinuesWord(s, k) /\ ~At(s, k, {"/"})
     THEN k ELSE 0

Tok(kind, end) == [kind |-> kind, end |-> end]

\* A placeholder, a dollar-quoted literal, or a lone "$".
ScanDollar(s, i) ==
  LET tagEnd == IF At(s, i + 1, WordBytes) THEN RunOf(s, i + 1, WordBytes)
                ELSE i + 1
      tag    == SubSeq(s, i, tagEnd)
      closes == {k \in (tagEnd + 1)..(Len(s) + 1 - Len(tag)) :
                   SubSeq(s, k, k + Len(tag) - 1) = tag}
  IN IF At(s, i + 1, Digits) THEN Tok("param", ScanDigits(s, i + 1))
     ELSE IF ~At(s, tagEnd, {"$"}) THEN Tok("punct", i + 1)
     ELSE Tok("dollar", IF closes = {} THEN Len(s) + 1
                        ELSE Min(closes) + Len(tag))

NumberAt(s, i) ==
  At(s, i, Digits) \/ (At(s, i, {"."}) /\ At(s, i + 1, Digits))

(***************************************************************************)
(* Does the sign at i belong to the number after it?  A statement looks    *)
(* back past white space, so "a -1" is a subtraction there.                *)
(***************************************************************************)
SignAllowed(s, i, stmt) ==
  LET before == {j \in 1..(i - 1) : ~IsSpace(s[j])}
  IN \/ ~stmt /\ At(s, i - 1, Spaces)
     \/ before = {}
     \/ s[Max(before)] \notin WordBytes \cup {")", "\"", "'", "$"}

\* digits, fraction and exponent, from the first digit or "." on
NumberEnd(s, i) ==
  LET whole == ScanDigits(s, i)
      frac  == IF At(s, whole, {"."}) /\ At(s, whole + 1, Digits)
               THEN ScanDigits(s, whole + 1) ELSE whole
      expo  == IF At(s, frac + 1, {"-"}) THEN frac + 2 ELSE frac + 1
  IN IF At(s, frac, {"e"}) /\ At(s, expo, Digits) THEN ScanDigits(s, expo)
     ELSE frac

\* A unit, and nothing that makes it part of a longer word.
UnitAt(s, i) ==
  LET j == RunOf(s, i, WordBytes)
  IN Slice(s, i, j) = <<"ms">> /\ ~ContinuesWord(s, j)

ScanNumeric(s, i, stmt) ==
  LET signed == s[i] = "-"
      end    == NumberEnd(s, IF signed THEN i + 1 ELSE i)
      lsn    == ScanLSN(s, i)
      hex    == RunOf(s, i + 2, HexDigits)
  IN IF ~signed /\ s[i] = "0" /\ At(s, i + 1, {"x"}) /\ At(s, i + 2, HexDigits)
     THEN IF ContinuesWord(s, hex) THEN Tok("word", ScanWord(s, i))
          ELSE Tok("hex", hex)
     ELSE IF ~signed /\ ~stmt /\ lsn > 0 THEN Tok("hex", lsn)
     ELSE IF At(s, end, WordBytes)
     THEN IF UnitAt(s, end) THEN Tok("number", RunOf(s, end, WordBytes))
          ELSE IF signed THEN Tok("punct", i + 1)
          ELSE Tok("word", ScanWord(s, i))
     ELSE IF ~stmt /\ At(s, end, {" "}) /\ UnitAt(s, end + 1)
     THEN Tok("number", RunOf(s, end + 1, WordBytes))
     ELSE Tok("number", end)

\* A prefixed literal of a statement, an LSN, or a word.
ScanWordish(s, i, stmt) ==
  IF stmt /\ s[i] \in {"e", "x"} /\ At(s, i + 1, {"'"})
  THEN Tok("string", ScanQuoted(s, i + 2, "'", s[i] = "e"))
  ELSE IF ~stmt /\ ScanLSN(s, i) > 0 THEN Tok("hex", ScanLSN(s, i))
  ELSE Tok("word", ScanWord(s, i))

(***************************************************************************)
(* tokenizer.next: the token at i, in message or in statement mode.  Every *)
(* symbol belongs to one token.                                            *)
(***************************************************************************)
TokenAt(s, i, stmt) ==
  LET c == s[i]
      apostrophe == ~stmt /\ At(s, i - 1, WordBytes)
      starts == \/ IsDigit(c)
                \/ c = "." /\ NumberAt(s, i) /\ ~At(s, i - 1, WordBytes)
                \/ c = "-" /\ NumberAt(s, i + 1) /\ SignAllowed(s, i, stmt)
  IN CASE IsSpace(c) -> Tok("space", RunOf(s, i, Spaces))
       [] stmt /\ c = "-" /\ At(s, i + 1, {"-"}) ->
            Tok("comment", RunEnd(s, i, LAMBDA j : s[j] # "\n"))
       [] stmt /\ c = "/" /\ At(s, i + 1, {"*"}) ->
            Tok("comment", ScanBlockComment(s, i + 2))
       [] c = "\"" -> Tok("ident", ScanQuoted(s, i + 1, "\"", FALSE))
       [] c = "'" /\ ~apostrophe ->
            Tok("string", ScanQuoted(s, i + 1, "'", FALSE))
       [] c = "$" -> ScanDollar(s, i)
       [] starts -> ScanNumeric(s, i, stmt)
       [] IsWordByte(c) /\ ~IsDigit(c) -> ScanWordish(s, i, stmt)
       [] OTHER -> Tok("punct", i + 1)
=============================================================================
