---------------------------- MODULE MCConnection ----------------------------
(* Instances of Connection for TLC: how many messages each end sends; none  *)
(* is larger than the receive buffer.                                      *)
EXTENDS Connection

ServerSends(n) == [server |-> n, client |-> 0]
ClientSends(n) == [server |-> 0, client |-> n]

TwoOne == [server |-> 2, client |-> 1]
ServerThree == ServerSends(3)
ClientOne == ClientSends(1)

NoBig == {}
=============================================================================
