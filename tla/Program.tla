------------------------------- MODULE Program --------------------------------
(***************************************************************************)
(* The program of Runtime with the archives, which also calls the message  *)
(* functions.                                                              *)
(***************************************************************************)
EXTENDS Runtime, Archive

CONSTANTS
    Messages,    \* messages: their type, the type of the members, the value
    Values       \* what is sent and what it is received into: types and values

SendMessage == \E i, j \in DOMAIN Messages :
    LET m == Messages[i]
        n == Messages[j]
        buf == to_buffer(m.type, m.members, m.value)
    IN  Calls("from_buffer", <<m, n>>, UNION {from_buffer(n.type, n.members, b) : b \in buf})

Cast == \E i, j \in DOMAIN Values :
    LET x == Values[i]
        y == Values[j]
        buf == build(x.types, x.value)
    IN  /\ x.types = y.types
        /\ Calls("cast", <<x, y>>, {cast(b, x.types, y.value) : b \in buf})

messages ==
    /\ uses = "strings" /\ call = NoCall
    /\ SendMessage \/ Cast

ProgramNext == Next \/ messages

ProgramSpec == Init /\ [][ProgramNext]_vars

-----------------------------------------------------------------------------
\* A message is received as what was sent, and never as one of another type, though the
\* type is looked at last.
MessageRight ==
    call.op = "from_buffer" =>
        LET m == call.args[1] n == call.args[2]
        IN  call.result = IF m.type = n.type THEN {m.value} ELSE {}

\* The size computed beforehand is the size written, and all of it is read again.  What
\* was in the objects before is gone, unless there are maps in them: these are merged.
CastRight ==
    call.op = "cast" =>
        LET x == call.args[1] y == call.args[2]
        IN  \E r \in call.result :
                /\ \A b \in build(x.types, x.value) : Len(b) = r.at
                /\ x.plain \/ y.value = Fresh(Struct(x.types)) => r.v = x.value

\* What is sent arrives, in messages and in objects that had other values.
BytesRight == MessageRight /\ CastRight

=============================================================================
