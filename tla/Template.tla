------------------------------ MODULE Template ------------------------------
(***************************************************************************)
(* AppendTemplate (template.go): a message is read once, token by token,   *)
(* and every value in it is replaced by a numbered placeholder.            *)
(*                                                                         *)
(* Three passes are made: over a message, over the template it gave, and   *)
(* over a message that differs from the first only by its values.  The     *)
(* properties compare the three templates.                                 *)
(***************************************************************************)
EXTENDS Tokens, Integers, SequencesExt

CONSTANTS
  Messages \* families of messages, each message with a templateLimit and
           \* whether r.SQLState is of class 22 or 23 (isDataClass):
           \* sets of [text, limit, data]

ASSUME TemplateAssumption ==
  \A family \in Messages : \A m \in family :
    m.limit \in Nat /\ m.data \in BOOLEAN

VARIABLES
  message,  \* the message chosen, with its limit and class
  pass,     \* which of the passes is being made: 1, 2, 3, or 4 after them
  msg,      \* r.Message of this pass
  pos,      \* tokenizer.pos
  stmt,     \* tokenizer.stmt
  out,      \* what is written: dst, p.n, and how dst ends: fuse, glued, space
  context,  \* prev, idNext, named, after, markerOK
  list,     \* listState
  literals, \* history: the spans of msg that were masked as literals
  templates \* history: the template of each pass made

vars == <<message, pass, msg, pos, stmt, out, context, list, literals,
          templates>>

Limit == message.limit
Ellipsis == <<"...">>
-----------------------------------------------------------------------------
(***************************************************************************)
(* Writing.  fuse is where the run of words and "$" that dst ends with     *)
(* starts (0: there is none); glued: dst ends with a placeholder.          *)
(***************************************************************************)
Nothing == [dst |-> <<>>, n |-> 0, fuse |-> 0, glued |-> FALSE, space |-> FALSE]

\* The digits of n: in binary, for numbers of several digits in short messages.
Numeral(n) ==
  LET digits[k \in 0..n] ==
        IF k = 0 THEN <<>>
        ELSE Append(digits[k \div 2], IF k % 2 = 0 THEN "0" ELSE "1")
  IN digits[n]

\* The next placeholder, in the place of the run that dst ends with.  (Past the
\* limit dst may have been cut before the run.)
Mask(o) ==
  LET kept == IF o.fuse > 0 THEN SubSeq(o.dst, 1, Min({o.fuse - 1, Len(o.dst)}))
              ELSE o.dst
  IN [o EXCEPT !.dst = kept \o <<"$">> \o Numeral(o.n + 1),
               !.n = @ + 1, !.fuse = 0, !.glued = TRUE]

\* White space before the next token becomes one space.
Flush(o) ==
  IF o.space
  THEN [o EXCEPT !.dst = Append(@, " "), !.fuse = 0, !.glued = FALSE,
                 !.space = FALSE]
  ELSE o

\* The list that starts at l.start becomes "(...)".
Collapse(o, l) ==
  [o EXCEPT !.dst = SubSeq(@, 1, l.start) \o <<"(", ".", ".", ".", ")">>,
            !.n = l.n, !.fuse = 0, !.glued = FALSE]

\* A token that stays, as far as it fits before the cut.
Copy(o, kind, tb) ==
  LET room == Limit + 1 - Len(o.dst)
      fits == IF Len(tb) > room THEN SubSeq(tb, 1, Max({room, 0})) ELSE tb
      fuses == kind = "word" \/ tb = <<"$">>
  IN [o EXCEPT !.dst = @ \o fits, !.glued = FALSE,
               !.fuse = IF ~fuses THEN 0 ELSE IF @ = 0 THEN Len(o.dst) + 1 ELSE @]
-----------------------------------------------------------------------------
(***************************************************************************)
(* listState: an IN or VALUES list of literals only.                       *)
(***************************************************************************)
NoList == [step |-> "none", values |-> FALSE, start |-> 0, n |-> 0,
           kw |-> "none", kwValues |-> FALSE]

IsLiteral(kind) == kind \in {"number", "hex", "string", "dollar", "param"}

\* What a token does outside a list, and setKeyword.
IsListKeyword(kind, tb) == kind = "word" /\ tb \in {<<"in">>, <<"values">>}
KeywordStep(kind, tb) == IF IsListKeyword(kind, tb) THEN "keyword" ELSE "none"

Outside(l, kind, tb) ==
  [l EXCEPT !.step = KeywordStep(kind, tb), !.values = tb = <<"values">>]

\* The last word of a run of words where an element may start.
Fusing(l, kind, tb) ==
  [l EXCEPT !.step = "fuse", !.kw = KeywordStep(kind, tb),
            !.kwValues = tb = <<"values">>]

\* The run is no element: go on as if its last word stood alone.
Unfused(l) == [l EXCEPT !.step = l.kw, !.values = l.kwValues]

Step(l, step, act) == [list |-> [l EXCEPT !.step = step], act |-> act]

\* Mutant: a word right after a placeholder is a word of its own.
Absorbed_Never(kind, tb) == FALSE

\* A word that the placeholder right before it takes.
Absorbed(kind, tb) == kind = "word" /\ IsDigit(tb[1])

(***************************************************************************)
(* listState.next: the state after a token, and what to do with the token: *)
(* keep, open (it is the "(" of a list), collapse (the VALUES list before  *)
(* it), close (it is the ")" of an IN list, which collapses).              *)
(***************************************************************************)
ListNext(l0, kind, tb, adjacent) ==
  LET joins == kind = "word" \/ tb = <<"$">>
      goesOn == l0.step = "fuse" /\ adjacent
      l == IF l0.step = "fuse" /\ ~(adjacent /\ (IsLiteral(kind) \/ joins))
           THEN Unfused(l0) ELSE l0
  IN CASE l.step \in {"keyword", "next"} /\ tb = <<"(">> ->
            Step(l, "elem", IF l.step = "keyword" THEN "open" ELSE "keep")
       [] (l.step = "elem" \/ goesOn) /\ IsLiteral(kind) ->
            Step(l, "sep", "keep")
       [] (l.step = "elem" \/ goesOn) /\ joins ->
            Step(Fusing(l, kind, tb), "fuse", "keep")
       [] l.step = "sep" /\ adjacent /\ Absorbed(kind, tb) ->
            Step(l, "sep", "keep")
       [] l.step = "sep" /\ tb = <<",">> -> Step(l, "elem", "keep")
       [] l.step = "sep" /\ tb = <<")">> ->
            IF l.values THEN Step(l, "closed", "keep")
            ELSE Step(l, "none", "close")
       [] l.step = "closed" /\ tb = <<",">> -> Step(l, "next", "keep")
       [] OTHER ->
            [list |-> Outside(l, kind, tb),
             act |-> IF l.step = "closed" THEN "collapse" ELSE "keep"]
-----------------------------------------------------------------------------
(***************************************************************************)
(* What a token means where it stands.                                     *)
(***************************************************************************)
IsIDWord(tb)   == tb = <<"pid">>
IsNameWord(tb) == tb = <<"index">>
HasDigit(tb)   == \E i \in 1..Len(tb) : IsDigit(tb[i])

\* forState.next: "for", words and quoted names, then ":".
ForNext(f, kind, tb) ==
  CASE kind = "word" /\ tb = <<"for">>                     -> "words"
    [] kind = "word" /\ tb # <<"for">> /\ f = "words"      -> "words"
    [] kind = "ident" /\ f = "words"                       -> "words"
    [] kind = "punct" /\ tb[1] = ":" /\ f = "words"        -> "data"
    [] OTHER                                               -> "none"

\* Does a file path start at i?
PathPrefix(s, i) ==
  LET j == RunOf(s, i, WordBytes)
  IN \/ At(s, i, {"/"}) /\ At(s, i + 1, WordBytes \cup {"."})
     \/ At(s, i, {"."}) /\ At(s, i + 1, {"/"})
     \/ At(s, i, {"."}) /\ At(s, i + 1, {"."}) /\ At(s, i + 2, {"/"})
     \/ At(s, i, {"C"}) /\ At(s, i + 1, {":"}) /\ At(s, i + 2, {"/"})
     \/ At(s, j, {"/"}) /\ Slice(s, i, j) = <<"base">>

\* The punctuation of the sentence around a path stays.
PathEnd(s, i) ==
  RunEnd(s, i, LAMBDA j :
    /\ s[j] \notin Spaces \cup {"\"", "'"}
    /\ s[j] \in {",", ":", ")", "."} => j < Len(s) /\ ~At(s, j + 1, Spaces))

PathAt(s, i) ==
  /\ ~At(s, i - 1, WordBytes \cup {"/", ".", ")", "\\", "$"})
  /\ PathPrefix(s, i)

\* A quoted token that holds a value rather than a name.
IsQuotedValue(tb) ==
  /\ Len(tb) > 1
  /\ \/ PathPrefix(tb, 2)
     \/ \E i \in 2..Len(tb) : tb[i] = "'"
     \/ tb[2] \in Digits \cup {"-", ".", ":", "$"}

\* ":" at the end of s or before white space.
ColonEnds(s, j) == At(s, j, {":"}) /\ (j = Len(s) \/ At(s, j + 1, Spaces))

\* The ":" of the statement marker that starts at i, and its name, if any.
NoMarker == [colon |-> 0, named |-> FALSE]
StmtMarker(s, i) ==
  LET head  == RunOf(s, i + 1, Spaces)
      colon == RunEnd(s, head, LAMBDA j : s[j] # ":" /\ ~IsSpace(s[j]))
  IN IF s[i] = "statement" /\ ColonEnds(s, i + 1)
     THEN [colon |-> i + 1, named |-> FALSE]
     ELSE IF /\ s[i] = "execute" /\ head > i + 1
             /\ colon > head /\ ColonEnds(s, colon)
     THEN [colon |-> colon, named |-> TRUE]
     ELSE NoMarker

\* tokenizer.skipValue: the end of the value of a key=value pair.
SkipValue(s, i) ==
  LET end[j \in i..(Len(s) + 1)] ==
        IF j > Len(s) THEN j
        ELSE LET t == TokenAt(s, j, FALSE)
             IN IF t.kind = "space" \/ (t.kind = "punct" /\ s[j] \in {",", ")"})
                THEN j ELSE end[t.end]
  IN end[i]
-----------------------------------------------------------------------------
(***************************************************************************)
(* cutTemplate.  Cuts are lengths: what is kept of dst.                    *)
(***************************************************************************)
\* The length before the "$" of the placeholder that ends at i, or -1.
PlaceholderBefore(dst, i, split) ==
  LET j == Max({0} \cup {k \in 1..i : ~IsDigit(dst[k])})
  IN IF (j < i \/ split) /\ At(dst, j, {"$"}) THEN j - 1 ELSE -1

TrimNonWord(dst, i) == Max({0} \cup {k \in 1..i : IsWordByte(dst[k])})

\* Mutant: the character at the limit is kept whole.
CutAt_RoundsUp(dst) ==
  LET c == Min({k \in Limit..Len(dst) : ~At(dst, k + 1, {"cont"})})
      j == PlaceholderBefore(dst, c, TRUE)
  IN TrimNonWord(dst, IF At(dst, c + 1, Digits) /\ j >= 0 THEN j ELSE c)

\* At the start of a character, and not inside a placeholder.
CutAt(dst) ==
  LET c == Max({0} \cup {k \in 1..Limit : dst[k + 1] # "cont"})
      j == PlaceholderBefore(dst, c, TRUE)
  IN TrimNonWord(dst, IF IsDigit(dst[c + 1]) /\ j >= 0 THEN j ELSE c)

CutTemplate(dst, planned) ==
  LET n   == IF IsSuffix(Ellipsis, dst) THEN Len(dst) - 1 ELSE Len(dst)
      c   == CutAt(dst)
      j   == PlaceholderBefore(dst, c, FALSE)
      cut == IF j >= 0 /\ c = Limit THEN TrimNonWord(dst, j) ELSE c
      gap == IF j >= 0 /\ PlaceholderBefore(dst, cut, FALSE) >= 0
             THEN <<" ">> ELSE <<>>
  IN IF n <= Limit THEN IF planned THEN dst \o Ellipsis ELSE dst
     ELSE SubSeq(dst, 1, cut) \o gap \o Ellipsis
-----------------------------------------------------------------------------
Fresh == [prev |-> "space", idNext |-> FALSE, named |-> FALSE,
          after |-> "none", markerOK |-> TRUE]

Begin(text) ==
  /\ msg' = text /\ pos' = 1 /\ stmt' = FALSE
  /\ out' = Nothing /\ context' = Fresh /\ list' = NoList

\* The first message with other values: one digit more in every number, one
\* symbol more in every string.
OtherValues ==
  LET text == message.text
      longer == {Min({k \in l.at..Len(text) :
                        text[k] \in IF l.kind = "string" THEN {"'"} ELSE Digits}) :
                   l \in literals}
  IN FlattenSeq([i \in 1..Len(text) |->
                   IF i \in longer THEN <<text[i], "1">> ELSE <<text[i]>>])

NextPass ==
  CASE pass = 1 -> Begin(templates'[1])
    [] pass = 2 -> Begin(OtherValues)
    [] OTHER    -> Begin(<<>>)

Finish(dst, planned) ==
  /\ templates' = Append(templates, CutTemplate(dst, planned))
  /\ pass' = pass + 1
  /\ NextPass
  /\ UNCHANGED <<message, literals>>

InList == list.step \in {"elem", "sep", "closed", "next", "fuse"}

\* Mutant: what bounds the work is the length of the message.
Reads_ByInput == pass < 4 /\ pos <= Limit + 1

(***************************************************************************)
(* Reading stops past the limit, except in a list that began within it.    *)
(***************************************************************************)
Reads ==
  /\ pass < 4
  /\ Len(out.dst) <= Limit \/ (InList /\ list.start <= Limit)

\* dst at the head of the loop: it does not grow with a list that is read on.
Written ==
  IF Len(out.dst) > Limit THEN [out EXCEPT !.dst = SubSeq(@, 1, Limit + 1)]
  ELSE out

AtPath == ~stmt /\ PathAt(msg, pos)

(***************************************************************************)
(* The token at pos with what the list makes of it, and dst as it is when  *)
(* the token is written.                                                   *)
(***************************************************************************)
Token ==
  LET tok == TokenAt(msg, pos, stmt)
  IN [kind |-> tok.kind, end |-> tok.end, text |-> Slice(msg, pos, tok.end)]

IsBlank(t) == t.kind \in {"space", "comment"}

Listed(t) == IF stmt THEN ListNext(list, t.kind, t.text, ~out.space)
             ELSE [list |-> list, act |-> "keep"]

Ready(act) ==
  Flush(IF act = "collapse" THEN Collapse(Written, list) ELSE Written)

\* A marker starts the message or follows a placeholder and white space.
MayBeMarker(t) ==
  /\ ~stmt /\ t.kind = "word"
  /\ context.markerOK /\ (out.space \/ out.dst = <<>>)

IsPlan(t) == /\ MayBeMarker(t) /\ out.dst # <<>>
             /\ t.text = <<"plan">> /\ ColonEnds(msg, t.end)

IsMarker(t) == MayBeMarker(t) /\ ~IsPlan(t) /\ StmtMarker(msg, pos).colon > 0

IsKeyValue(t) == ~stmt /\ t.text = <<"=">> /\ context.prev = "word"

IsId(t) == ~stmt /\ t.kind = "word" /\ context.idNext /\ HasDigit(t.text)

IsData(t) ==
  /\ ~stmt /\ t.kind = "ident"
  /\ \/ message.data /\ ~context.named
     \/ context.after = "data"
     \/ IsQuotedValue(t.text)

IsValue(t) == IsLiteral(t.kind) \/ IsId(t) \/ IsData(t)
-----------------------------------------------------------------------------
\* After a value that the tokenizer does not see as one token.
Skipped(end, markerOK) ==
  /\ pos' = end
  /\ context' = [prev |-> "param", idNext |-> FALSE, named |-> FALSE,
                 after |-> "none", markerOK |-> markerOK]
  /\ UNCHANGED <<message, pass, msg, stmt, list, literals, templates>>

MaskPath ==
  /\ out' = Mask(Flush(Written))
  /\ Skipped(PathEnd(msg, pos), TRUE)

SkipBlank(t) ==
  /\ out' = [Written EXCEPT !.space = out.dst # <<>>]
  /\ pos' = t.end
  /\ context' = [context EXCEPT !.prev = "space"]
  /\ UNCHANGED <<message, pass, msg, stmt, list, literals, templates>>

\* The ")" of an IN list: the space before it goes with the list.
CloseList(t, l) ==
  /\ out' = [Collapse(Written, list) EXCEPT !.space = FALSE]
  /\ list' = l
  /\ pos' = t.end
  /\ context' = [context EXCEPT !.prev = "punct", !.markerOK = FALSE]
  /\ UNCHANGED <<message, pass, msg, stmt, literals, templates>>

StopAtPlan(o) == Finish(o.dst \o <<"plan", ":", " ">>, TRUE)

\* The marker stays, the name of the statement is masked, SQL follows.
ReadMarker(o) ==
  LET m     == StmtMarker(msg, pos)
      words == IF m.named THEN <<msg[pos], " ">> ELSE <<msg[pos]>>
      head  == [o EXCEPT !.dst = @ \o words, !.fuse = 0]
      name  == IF m.named THEN Mask(head) ELSE head
  IN /\ out' = [name EXCEPT !.dst = Append(@, ":"), !.fuse = 0, !.glued = FALSE]
     /\ pos' = m.colon + 1
     /\ stmt' = TRUE
     /\ context' = [context EXCEPT !.prev = "punct"]
     /\ UNCHANGED <<message, pass, msg, list, literals, templates>>

\* The key stays, the value up to its end becomes one placeholder.
MaskKeyValue(t, o) ==
  /\ out' = Mask([o EXCEPT !.dst = Append(@, "="), !.fuse = 0])
  /\ Skipped(SkipValue(msg, t.end), FALSE)

MaskValue(t, o) ==
  /\ out' = Mask(o)
  /\ literals' = IF pass = 1 /\ t.kind \in {"number", "string", "param"}
                 THEN literals \cup {[at |-> pos, kind |-> t.kind]}
                 ELSE literals

\* The placeholder before the word takes it.
AbsorbWord(o) == out' = o /\ UNCHANGED literals

CopyToken(t, o) == out' = Copy(o, t.kind, t.text) /\ UNCHANGED literals

\* A token that is replaced, or written, where it stands.
PlainToken(t, l, o) ==
  /\ \/ IsValue(t) /\ MaskValue(t, o)
     \/ ~IsValue(t) /\ o.glued /\ Absorbed(t.kind, t.text) /\ AbsorbWord(o)
     \/ ~IsValue(t) /\ ~(o.glued /\ Absorbed(t.kind, t.text)) /\ CopyToken(t, o)
  /\ list' = IF l.act = "open"
             THEN [l.list EXCEPT !.start = Len(o.dst), !.n = o.n] ELSE l.list
  /\ pos' = t.end
  /\ context' = [prev |-> t.kind,
                 idNext |-> t.kind = "word" /\ IsIDWord(t.text),
                 named |-> t.kind = "word" /\ IsNameWord(t.text),
                 after |-> ForNext(context.after, t.kind, t.text),
                 markerOK |-> out'.glued]
  /\ UNCHANGED <<message, pass, msg, stmt, templates>>

\* One token: l is what the list makes of it, o is dst before it.
ReadToken(t, l, o) ==
  \/ l.act = "close" /\ CloseList(t, l.list)
  \/ /\ l.act # "close"
     /\ \/ IsPlan(t) /\ StopAtPlan(o)
        \/ IsMarker(t) /\ ReadMarker(o)
        \/ ~MayBeMarker(t) /\ IsKeyValue(t) /\ MaskKeyValue(t, o)
        \/ ~IsPlan(t) /\ ~IsMarker(t) /\ ~IsKeyValue(t) /\ PlainToken(t, l, o)

ReadNext ==
  \E t \in {Token} :
    \/ IsBlank(t) /\ SkipBlank(t)
    \/ ~IsBlank(t) /\ \E l \in {Listed(t)} : \E o \in {Ready(l.act)} :
                        ReadToken(t, l, o)

EndOfMessage ==
  Finish(IF list.step = "closed" THEN Collapse(Written, list).dst
         ELSE Written.dst, FALSE)

StopPastLimit == Finish(out.dst, FALSE)

Init ==
  /\ \E family \in Messages : message \in family
  /\ pass = 1
  /\ msg = message.text /\ pos = 1 /\ stmt = FALSE
  /\ out = Nothing /\ context = Fresh /\ list = NoList
  /\ literals = {} /\ templates = <<>>

Next ==
  \/ Reads /\ pos <= Len(msg) /\ AtPath /\ MaskPath
  \/ Reads /\ pos <= Len(msg) /\ ~AtPath /\ ReadNext
  \/ Reads /\ pos > Len(msg) /\ EndOfMessage
  \/ pass < 4 /\ ~Reads /\ StopPastLimit

Spec == Init /\ [][Next]_vars
-----------------------------------------------------------------------------
Symbols == WordBytes \cup Spaces \cup
           {"'", "\"", "$", "(", ")", ",", "=", ":", "/", "-", ".", "*", "\\"}

(***************************************************************************)
(* The type invariant, with the bounds AppendTemplate promises: what is    *)
(* written stays a few symbols past the limit whatever the message, and a  *)
(* finished template is at most the limit and an ellipsis (REQ-011).       *)
(***************************************************************************)
TypeOK ==
  /\ Limit \in Nat /\ message.data \in BOOLEAN /\ pass \in 1..4
  /\ msg \in Seq(Symbols) /\ pos \in 1..(Len(msg) + 1) /\ stmt \in BOOLEAN
  /\ out.dst \in Seq(Symbols) /\ out.n \in Nat
  /\ out.fuse \in Nat
  /\ out.glued \in BOOLEAN /\ out.space \in BOOLEAN
  /\ list.start <= Limit \/ ~InList \/ ~Reads
  /\ Len(out.dst) <= Limit + 8
  /\ \A i \in 1..Len(templates) : Len(templates[i]) <= Limit + 1

(***************************************************************************)
(* CON-002: masking a template again gives the same template.  A consumer  *)
(* that groups records by templates it stored, or masks twice, sees one    *)
(* group.  (All literals of the template are therefore placeholders,       *)
(* numbered from $1 in order.)                                             *)
(***************************************************************************)
Idempotent == Len(templates) >= 2 => templates[2] = templates[1]

(***************************************************************************)
(* template.go:29-31: two messages that differ only by values give the     *)
(* same template, wherever the values stand: in the sentence, in a list    *)
(* that collapses or does not, before the cut or after it.                 *)
(***************************************************************************)
ValuesDoNotMatter == Len(templates) >= 3 => templates[3] = templates[1]
=============================================================================
