---------------------------- MODULE MCCommandLine ----------------------------
(***************************************************************************)
(* CommandLine over small logs: the parse command over every prefix and    *)
(* entry shape, the other commands over the messages they look for.        *)
(***************************************************************************)
EXTENDS CommandLine

NoText == <<>>

\* log_line_prefix, as Prefix reads it.
Session == <<"%", "q", "%", "u", "@", "%", "d", " ">>
WithSession == <<"%", "m", " ", "[", "%", "p", "]", " ">> \o Session
WithApp     == WithSession \o <<"%", "a", " ">>
WithLine    == <<"%", "m", " ", "[", "%", "p", "-", "%", "l", "]", " ">> \o Session
Plain       == <<"%", "m", " ", "[", "%", "p", "]", " ">>
Named       == Candidates[4]
TimeOnly    == <<"%", "t", " ">>
Rebuilt     == <<"%", "t", " ", "(", "%", "p", ")", " ", "db=", "%", "d", " ">>
Coded       == <<"%", "m", " ", "%", "e", " ", "%", "q", "%", "u", "@", "%", "d", ",",
                 "%", "a", ",", "%", "h", " ">>
Undated     == <<"%", "p", " ">>
Everything  == <<"%", "n", " ", "%", "5", "p", " ", "%", "-", "2", "i", "|", "%", "e",
                 " ", "%", "c", " ", "%", "v", " ", "%", "x", " ", "%", "Q", " ",
                 "%", "P", " ", "%", "b", ",", "%", "r", " ", "%", "s", " ", "%", "%">>
BadEscape   == <<"%", "m", " ", "%", "k", " ">>

Values(session, time, user) ==
  [f \in PrefixFields |->
     CASE f = "time" -> <<time>>        [] f = "start" -> <<"T1">>
       [] f = "pid" -> <<"1", "2">>     [] f = "leader" -> <<"2">>
       [] f = "line" -> <<"1">>         [] f = "xid" -> <<"0">>
       [] f = "queryid" -> <<"2", "1">> [] f = "state" -> <<"00000">>
       [] f = "session" -> <<"a", "1", ".", "a">>
       [] f = "vxid" -> <<"1", "/", "2">>
       [] f = "backend" -> <<"client", " ", "backend">>
       [] f = "command" -> <<"SELECT">>
       [] f = "user" -> IF session THEN <<user>> ELSE <<>>
       [] f = "database" -> IF session THEN <<"shop">> ELSE <<>>
       [] f = "app" -> IF session THEN <<"psql">> ELSE <<>>
       [] f = "from" -> IF session THEN <<"host">> ELSE <<>>]

Entry(session, time, user, sections) ==
  [session |-> session, fields |-> Values(session, time, user), sections |-> sections]

Section(label, text) == [label |-> label, text |-> text]
One(label, message) == <<Section(label, <<message>>)>>

Log(state, written, head, entries) ==
  [state |-> state, written |-> written, head |-> head, entries |-> entries]

Upto(set, n) == UNION {[1..k -> set] : k \in 1..n}

Job(command, prefix, inputs) ==
  [command |-> command, prefix |-> prefix, format |-> "stderr", split |-> FALSE,
   inputs |-> inputs, begin |-> 0, end |-> 0, top |-> 1, minDuration |-> 0,
   bucket |-> 1, pattern |-> "", before |-> 0, after |-> 0, invert |-> FALSE]
-----------------------------------------------------------------------------
(***************************************************************************)
(* parse: how entries look in a log.                                       *)
(***************************************************************************)
Ready == One("LOG", <<"ready">>)
Failure ==
  <<Section("ERROR", <<<<"no", " ", "table">>, <<>>, <<"ERROR", ":", " ", "x">>>>),
    Section("DETAIL", <<<<"gone">>>>),
    Section("STATEMENT", <<<<"SELECT">>, <<"1">>>>)>>
Nested ==
  <<Section("FATAL", <<<<"1">>>>), Section("HINT", <<<<"x">>>>),
    Section("QUERY", <<<<"SELECT">>>>), Section("CONTEXT", <<<<"x">>, <<"x">>>>)>>

Shapes == {
  Ready, Failure, Nested,
  One("LOG", <<"HINT", ":", " ", "ready">>),
  One("FEHLER", <<"ready">>),
  One("ERROR", <<"ann", "@", "shop", " ", "left">>) }

\* The stamp a prefix writes.
StampOf(written) == IF "m" \in ToSet(written) THEN "M1" ELSE "T1"

Entries(written, sessions, shapes) ==
  {Entry(session, StampOf(written), "ann", shape) :
     session \in sessions, shape \in shapes}

ParseJobs(written, prefixes, sessions, heads, shapes, n) ==
  {[Job("parse", prefix, <<Log("ok", written, head, entries)>>) EXCEPT !.split = split] :
     prefix \in prefixes, head \in heads, split \in BOOLEAN,
     entries \in Upto(Entries(written, sessions, shapes), n)}

PrefixJobs ==
  UNION {ParseJobs(written, {Detected, written}, BOOLEAN, {""}, {Ready, Failure}, 3) :
           written \in {WithApp, WithLine, Plain, Named, TimeOnly}}
ShapeJobs == ParseJobs(WithSession, {Detected, WithSession}, BOOLEAN,
                       {"", "torn", "blank"}, Shapes, 2)
RebuiltJobs == ParseJobs(Rebuilt, {Detected}, {TRUE}, {"", "torn"}, Shapes, 2)
EscapeJobs == ParseJobs(Everything, {Everything}, {TRUE}, {""}, Shapes, 2)

-----------------------------------------------------------------------------
(***************************************************************************)
(* The other commands: logs of the entries each of them looks for.         *)
(***************************************************************************)
Coding(time, state, sections) ==
  [Entry(TRUE, time, "ann", sections) EXCEPT !.fields.state = <<state>>]
Said(label, message) == Coding("M1", "00000", One(label, message))
Failed(state, label, message) == Coding("M1", state, One(label, message))
ByProcess(entry) ==
  [entry EXCEPT !.session = FALSE,
                !.fields = [f \in PrefixFields |->
                              IF f \in {"time", "state"} THEN @[f] ELSE <<>>]]
ByUser(entry, user) == [entry EXCEPT !.fields.user = <<user>>]
Timed(entry, time) == [entry EXCEPT !.fields.time = <<time>>]

\* Jobs of one command over one log of at most n of the entries.
JobsOf(command, entries, n) ==
  {Job(command, Coded, <<Log("ok", Coded, "", log)>>) : log \in Upto(entries, n)}

With(jobs, option, values) == {[j EXCEPT ![option] = v] : j \in jobs, v \in values}

ErrorJobs == JobsOf("errors",
  {Failed("42P01", "ERROR", <<"table", " ", "1">>),
   Failed("42P01", "ERROR", <<"table", " ", "2", "0">>),
   Failed("22012", "WARNING", <<"\"", "x", "\"", " ", "is", " ", "'", "y">>),
   Said("ERROR", <<>>),
   Said("LOG", <<"ready">>)}, 4)

SlowJobs == With(JobsOf("slow",
  {Said("LOG", <<"duration:", " ", "1", " ", "ms">>),
   Coding("M1", "00000", <<Section("LOG", <<<<"duration:", " ", "2", "0">>>>),
                           Section("STATEMENT", <<<<"SELECT", " ", "1">>>>)>>),
   Coding("M1", "00000", <<Section("LOG", <<<<"duration:", " ", "2">>>>),
                           Section("STATEMENT", <<<<"SELECT", " ", "2">>>>)>>),
   Coding("M1", "00000", <<Section("LOG", <<<<"duration:", " ", "1", "0">>>>),
                           Section("STATEMENT", <<<<"UPDATE">>>>)>>)}, 4), "minDuration", {0, 2})

LockJobs == JobsOf("locks",
  {Said("LOG", <<"process", " ", "still waiting for ", "ShareLock", " on ", "tuple", " ", "1">>),
   Said("LOG", <<"process", " ", "still waiting for ", "lock", " ", "1">>),
   ByProcess(Failed("40P01", "ERROR", <<"deadlock">>)),
   Failed("57014", "ERROR", <<"conflict", " ", "recovery">>),
   Failed("57014", "ERROR", <<"cancelled">>),
   Failed("40001", "ERROR", <<"serialize">>)}, 3)

ConnectionJobs == JobsOf("connections",
  {Said("LOG", <<"connection authorized:", " ", "user=", "bob", " ">>),
   ByProcess(Said("LOG", <<"connection received:", " ", "user=", "bob", ",", "database=", "x">>)),
   [Said("LOG", <<"connection authenticated:">>) EXCEPT !.fields.from = <<"host", ":", "1", "2">>],
   ByUser(Failed("28P01", "FATAL", <<"no">>), "eve"),
   Said("LOG", <<"disconnection:">>), Said("LOG", <<"ready">>)}, 3)

SystemJobs == JobsOf("system",
  {ByProcess(Said("LOG", <<"checkpoint starting:">>)),
   ByProcess(Said("LOG", <<"automatic vacuum", " ", "of">>)),
   Said("LOG", <<"temporary file:", " ", "size ", "1", "2", " ">>),
   Failed("57P01", "FATAL", <<"terminating">>),
   ByProcess(Said("LOG", <<"database system is", " ", "ready">>)),
   Said("FATAL", <<"x">>), Said("LOG", <<"x">>)}, 3)

PeakJobs == With(With(JobsOf("peaks",
  {Timed(Said("LOG", <<"x">>), "T1"), Timed(Said("ERROR", <<"x">>), "T2"),
   Timed(Said("LOG", <<"duration:", " ", "1">>), "M2")}, 3),
  "bucket", {1, 2}), "begin", {0, 2})
  \cup {Job("peaks", Undated, <<Log("ok", Undated, "", <<Entry(TRUE, "T1", "ann", Ready)>>)>>)}

StatsJobs == With(JobsOf("stats",
  {Timed(Said("LOG", <<"x">>), "T1"), Timed(Said("FEHLER", <<"x">>), "T2"),
   Timed(Said("ERROR", <<"duration:", " ", "1">>), "T3")}, 3), "end", {0, 3})

Found == Failed("00000", "LOG", <<"x">>)
FoundBelow == Coding("M1", "00000", <<Section("LOG", <<<<"y">>>>), Section("HINT", <<<<"x">>>>)>>)
Missed == Timed(Said("LOG", <<"y">>), "M2")

GrepJobs ==
  {[Job("grep", Coded, <<Log("ok", Coded, "", first), Log("ok", Coded, "", second)>>)
      EXCEPT !.pattern = "x", !.before = before, !.after = after, !.invert = invert] :
     first \in Upto({Found, Missed}, 3), second \in Upto({FoundBelow, Missed}, 3),
     before \in 0..2, after \in 0..2, invert \in BOOLEAN}

\* Inputs that exist, are missing or cannot be opened.
InputJobs ==
  {[Job(command, prefix, inputs) EXCEPT !.format = format] :
     command \in {"parse", "errors"}, format \in {"auto", "stderr"},
     prefix \in {Coded, Detected, BadEscape},
     inputs \in Upto({Log(state, Coded, "", <<Said("ERROR", <<"x">>)>>) :
                        state \in {"ok", "missing", "unreadable"}}, 3)}

MCJobs == {PrefixJobs, ShapeJobs, RebuiltJobs, EscapeJobs,
           ErrorJobs, SlowJobs, LockJobs, ConnectionJobs, SystemJobs, PeakJobs,
           StatsJobs, GrepJobs, InputJobs}
=============================================================================
