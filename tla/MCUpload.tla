------------------------------ MODULE MCUpload ------------------------------
(* Two images and boards delivered blank or with one of them.              *)
EXTENDS Upload

CONSTANTS a, b

Images == {a, b}
Sizes == [im \in Images |-> IF im = a THEN 2 ELSE 3]
Board(im) == [p \in Page |-> IF im # NoImage /\ p < Size[im]
                               THEN PageOf(im, p) ELSE Blank]
Boards == { Board(NoImage), Board(b) }
Pages == { <<i, PageOf(im, i)>> : i \in Page, im \in Image }
=============================================================================
