---------------------------- MODULE MCBootloader ----------------------------
(* Small boards for TLC.                                                   *)
EXTENDS Bootloader

CONSTANTS a, b, c     \* images, c longer than the space below the clone area

TwoImages == {a, b}
TwoSizes == [im \in TwoImages |-> IF im = a THEN 3 ELSE 4]
ThreeImages == {a, b, c}
ThreeSizes == [im \in ThreeImages |-> IF im = a THEN 3 ELSE
                                      IF im = b THEN 4 ELSE 5]

(* A flash with image app in the application area (or nothing) and the     *)
(* first n pages of image clone in the clone area, body first as the       *)
(* uploader sends it.                                                      *)
Holds(im, base, n, p) ==
  IF im # NoImage /\ p - base \in 0 .. Size[im] - 1 /\
     (n = Size[im] \/ p - base \in 1 .. n)
    THEN PageOf(im, p - base) ELSE Blank
Board(app, clone, n) ==
  [p \in Page |->
    IF p < CloneStart THEN IF app = NoImage THEN Blank ELSE Holds(app, 0, Size[app], p)
                      ELSE Holds(clone, CloneStart, n, p)]

(* Delivered blank, with a firmware only, or with an update received as    *)
(* far as its header.                                                      *)
Boards ==
  { Board(NoImage, NoImage, 0), Board(a, NoImage, 0), Board(a, b, Size[b] - 1),
    Board(a, b, Size[b]), Board(b, a, Size[a]) }
LongBoards == { Board(a, c, Size[c]) }

(* The pages an uploader of an image sends to either area.                 *)
UploadsOf(images) ==
  { <<base + i, PageOf(im, i)>> : base \in {0, CloneStart}, im \in images,
                                  i \in 0 .. NPages - CloneStart - 1 }
AllUploads == { u \in UploadsOf(Image) : u[2][2] < Size[u[2][1]] }

==============================================================================
