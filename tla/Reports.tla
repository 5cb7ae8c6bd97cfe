------------------------------- MODULE Reports -------------------------------
(***************************************************************************)
(* What the commands of cmd/pglogwatch make of one record: what they       *)
(* count, and under which key of which counter.  A record is the fields    *)
(* ParseStderr returns.                                                    *)
(***************************************************************************)
EXTENDS StderrLog, Bags

\* When a record was written, in units of the smallest bucket; 0: unknown.
StampTime == [T1 |-> 1, T2 |-> 2, T3 |-> 3, M1 |-> 1, M2 |-> 3]

TimeOf(fields) ==
  LET time == fields.time
  IN IF time = <<>> THEN 0
     ELSE IF time[1] \in Stamps THEN StampTime[time[1]]
     ELSE NumberOf(Slice(time, 1, RunOf(time, 1, Digits)))

\* inRange; 0 for a bound that is not given.
InRange(job, fields) ==
  \/ TimeOf(fields) = 0
  \/ /\ job.begin = 0 \/ TimeOf(fields) >= job.begin
     /\ job.end = 0 \/ TimeOf(fields) < job.end

SeverityOf(fields) == Severity(fields.severity)
IsProblem(fields) == SeverityOf(fields) >= 2
IsError(fields) == SeverityOf(fields) >= 3
IsFatal(fields) == SeverityOf(fields) >= 4

\* normalizeMessage: quoted text and runs of digits become "?".
Normalized(message) ==
  LET Step(acc, c) ==
        IF acc.quote # ""
        THEN IF c = acc.quote
             THEN [acc EXCEPT !.quote = "", !.out = Append(@, "?")] ELSE acc
        ELSE IF c \in {"\"", "'"} THEN [acc EXCEPT !.quote = c]
        ELSE IF c \in Digits
        THEN [acc EXCEPT !.digit = TRUE,
                         !.out = IF acc.digit THEN @ ELSE Append(@, "?")]
        ELSE [acc EXCEPT !.digit = FALSE, !.out = Append(@, c)]
      end == FoldLeft(Step, [out |-> <<>>, quote |-> "", digit |-> FALSE], message)
  IN IF end.quote = "" THEN end.out ELSE Append(end.out, "?")
-----------------------------------------------------------------------------
(***************************************************************************)
(* classify: by SQLSTATE first, then by the words of the message.          *)
(***************************************************************************)
StateKind(state) ==
  CASE state = "40P01" -> "deadlock"
    [] state = "40001" -> "lock wait"
    [] state \in {"57P01", "57P02", "57P03", "57P04"} -> "system"
    [] state \in {"28P01", "28000"} -> "connection"
    [] OTHER -> "none"

LeadKind(lead) ==
  CASE lead \in {"connection authorized:", "connection received:",
                 "connection authenticated:"} -> "connection"
    [] lead = "disconnection:" -> "disconnection"
    [] lead \in {"checkpoint starting:", "checkpoint complete:"} -> "checkpoint"
    [] lead = "automatic vacuum" -> "autovacuum"
    [] lead = "temporary file:" -> "temp file"
    [] OTHER -> "none"

SystemLeads == {"database system is", "received ", "terminating"}

Classify(fields) ==
  LET words == ToSet(fields.message)
      lead == IF fields.message = <<>> THEN "" ELSE fields.message[1]
      state == IF fields.state = <<>> THEN "" ELSE fields.state[1]
  IN IF state = "57014"
     THEN IF "recovery" \in words THEN "conflict" ELSE "other"
     ELSE IF StateKind(state) # "none" THEN StateKind(state)
     ELSE IF LeadKind(lead) # "none" THEN LeadKind(lead)
     ELSE IF "still waiting for " \in words THEN "lock wait"
     ELSE IF "recovery" \in words THEN "conflict"
     ELSE IF lead \in SystemLeads THEN "system"
     ELSE IF DurationOf(fields) >= 0 THEN "slow" ELSE "other"

\* fieldAfter: the word after key in a message.
FieldAfter(message, key) ==
  LET i == IndexOf(message, 1, <<key>>)
  IN IF i = 0 THEN <<>>
     ELSE Slice(message, i + 1,
                Min({j \in (i + 1)..Len(message) : message[j] \in {" ", ","}}
                    \cup {Len(message) + 1}))

OrAfter(value, message, key) ==
  IF value # <<>> THEN value ELSE FieldAfter(message, key)

\* lockTarget: the kind of lock a message waits for.
LockTarget(message) ==
  LET i == IndexOf(message, 1, <<"still waiting for ">>)
      on == IndexOf(message, i + 1, <<" on ">>)
      Word(from) == Min({j \in from..Len(message) : message[j] = " "}
                        \cup {Len(message) + 1})
  IN IF i = 0 THEN <<>>
     ELSE Slice(message, i + 1, Word(IF on = 0 THEN i + 1 ELSE on + 1))

\* clientHost: without a trailing port.
ClientHost(from) ==
  LET colons == {i \in DOMAIN from :
                   from[i] = ":" /\ RunOf(from, i + 1, Digits) > Len(from)}
  IN IF colons = {} THEN from ELSE SubSeq(from, 1, Max(colons) - 1)
-----------------------------------------------------------------------------
(***************************************************************************)
(* What a command does with a record: counted is a bag of what it counts,  *)
(* keyed the groups it adds to.                                            *)
(***************************************************************************)
Keyed(counter, key, value) == {[counter |-> counter, key |-> key, value |-> value]}
IfPresent(counter, key) == IF key = <<>> THEN {} ELSE Keyed(counter, key, 0)

Ignored == [counted |-> EmptyBag, keyed |-> {}]
Noted(names, keyed) ==
  [counted |-> SetToBag({<<n>> : n \in names}), keyed |-> keyed]

SeverityName(fields) ==
  IF SeverityOf(fields) = 0 THEN "unrecognised" ELSE SeverityOrder[SeverityOf(fields)]

\* runStats
OnStats(fields) == Noted({"total", SeverityName(fields), Classify(fields)}, {})

\* runErrors
OnErrors(fields) ==
  IF ~IsProblem(fields) THEN Ignored
  ELSE Noted({"total", SeverityName(fields)},
             Keyed("message", Normalized(fields.message), 0)
             \cup IfPresent("state", fields.state))

\* statementText
StatementText(fields) ==
  IF fields.statement # <<>> THEN fields.statement ELSE fields.message

\* runSlow
OnSlow(job, fields) ==
  LET ms == DurationOf(fields)
      key == Normalized(StatementText(fields))
  IN IF ms \notin Nat \/ ms < job.minDuration THEN Ignored
     ELSE Noted({"count"}, Keyed("statement", key, ms) \cup Keyed("slowest", key, ms))

\* runLocks
OnLocks(fields) ==
  IF Classify(fields) \notin {"lock wait", "deadlock", "conflict"} THEN Ignored
  ELSE Noted({Classify(fields)},
             IfPresent("database", fields.database)
             \cup IfPresent("target", LockTarget(fields.message))
             \cup Keyed("message", Normalized(fields.message), 0))

\* runConnections
OnConnections(fields) ==
  CASE Classify(fields) = "disconnection" -> Noted({"disconnection"}, {})
    [] Classify(fields) = "connection" ->
         Noted({IF IsError(fields) THEN "failure" ELSE "connection"},
               IfPresent("database", OrAfter(fields.database, fields.message, "database="))
               \cup IfPresent("user", OrAfter(fields.user, fields.message, "user="))
               \cup IfPresent("app", fields.app)
               \cup IfPresent("client", ClientHost(fields.from)))
    [] OTHER -> Ignored

\* runPeaks: by time bucket.
OnPeaks(job, fields) ==
  LET bucket == TimeOf(fields) \div job.bucket
  IN IF TimeOf(fields) = 0 THEN Noted({"undated"}, {})
     ELSE [counted |->
             SetToBag({<<"records", bucket>>}
                      \cup {n \in {<<"problems", bucket>>} : IsProblem(fields)}
                      \cup {n \in {<<"slow", bucket>>} : DurationOf(fields) >= 0}),
           keyed |-> {}]

\* tempFileSize: 0 if the message names none.
TempFileSize(message) ==
  LET size == FieldAfter(message, "size ")
  IN IF size = <<>> THEN 0 ELSE NumberOf(size)

\* runSystem: what it counts, and the records it lists.
OnSystem(fields) ==
  LET kind == Classify(fields)
      bytes == TempFileSize(fields.message)
  IN IF kind \notin {"checkpoint", "autovacuum", "temp file"} THEN Ignored
     ELSE [counted |-> SetToBag({<<kind>>}) (+)
                       (IF kind = "temp file" /\ bytes \in Nat \ {0}
                        THEN [n \in {<<"temp bytes">>} |-> bytes]
                        ELSE EmptyBag),
           keyed |-> {}]

IsSystemEvent(fields) ==
  \/ Classify(fields) = "system"
  \/ Classify(fields) \notin {"checkpoint", "autovacuum", "temp file"} /\ IsFatal(fields)
=============================================================================
