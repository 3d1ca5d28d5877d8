------------------------------ MODULE MCHdUart ------------------------------
(* Two boards, the one with frames shorter and longer than the FIFO.       *)
EXTENDS HdUart

CONSTANTS p, q

x == {1}
y == {2}
Both == {1, 2}     \* 0xC0: more than one bit of it is 1
Flagged == {0}     \* not a byte

Frames ==
  [n \in Node |->
    IF n = p THEN { <<x, End>> }
             ELSE { <<End, y, x, End>> }]

==============================================================================
