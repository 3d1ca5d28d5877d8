--------------------------- MODULE MCRoutingTable ---------------------------
(* Three pages of two entries and two bits, two entries to a packet.       *)
EXTENDS RoutingTable

a == {1}
b == {2}
TableOf(s) == [e \in Entry |-> IF e + 1 \in DOMAIN s THEN s[e + 1] ELSE Erased]

Blanks == { TableOf(<<>>) }
Olds == { TableOf(<<>>), TableOf(<<b, a, Null>>) }

(* Packets within a page and across two, pages left out, the last page;    *)
(* two tables of which there is nothing to send, and one with a 0.         *)
Wanteds == { TableOf(<<>>), TableOf(<<Null>>), TableOf(<<a, b>>), TableOf(<<a, Null, b>>),
             TableOf(<<a, Erased, b, a>>),
             TableOf(<<Erased, b, Erased, Erased, a>>),
             TableOf(<<a, b, b, a, b>>) }

==============================================================================
