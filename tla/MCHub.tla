------------------------------- MODULE MCHub -------------------------------
(* Two clients for one address.                                            *)
EXTENDS Hub

CONSTANTS a, c, d

ToAddress == [x \in Conn |-> a]

SetPort == [cmd |-> "port", arg |-> 7]
Data == [cmd |-> "send", arg |-> 0]

Lines == [x \in Conn |-> <<SetPort, Data>>]

=============================================================================
