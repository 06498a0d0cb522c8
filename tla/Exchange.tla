------------------------------ MODULE Exchange ------------------------------
(***************************************************************************)
(* Clients ask over numbered lines and get answers on them: one for each   *)
(* request, in the order of the requests, or none from some request on.    *)
(* A client may ask any number of times when it gets an answer.            *)
(***************************************************************************)
EXTENDS Naturals, Sequences

CONSTANTS
    Client,   \* who asks
    Id,       \* the lines of each client
    Msg,      \* requests and answers
    Answer    \* Answer[i][m]: the answer to m on a line i

VARIABLES
    asked,     \* asked[c][i]: the requests of c on line i
    answered   \* answered[c][i]: the answers it got

Init ==
    /\ asked = [c \in Client |-> [i \in Id |-> <<>>]]
    /\ answered = [c \in Client |-> [i \in Id |-> <<>>]]

\* s is t, or t goes on from s.
Extends(t, s) == Len(s) <= Len(t) /\ s = SubSeq(t, 1, Len(s))

Asks(c) ==
    /\ asked' = [asked EXCEPT ![c] = asked'[c]]
    /\ \A i \in Id : /\ asked'[c][i] \in Seq(Msg)
                     /\ Extends(asked'[c][i], asked[c][i])

GetsAnswer(c, i) ==
    LET k == Len(answered[c][i]) + 1
    IN  /\ k <= Len(asked[c][i])
        /\ answered' = [answered EXCEPT ![c][i] = Append(@, Answer[i][asked[c][i][k]])]

Next ==
    \E c \in Client :
        /\ Asks(c)
        /\ UNCHANGED answered \/ \E i \in Id : GetsAnswer(c, i)

Spec == Init /\ [][Next]_<<asked, answered>>
=============================================================================
