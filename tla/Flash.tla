-------------------------------- MODULE Flash --------------------------------
(***************************************************************************)
(* The NOR flash behind libpqp_foreign.c, seen from APP_OFFSET upwards and *)
(* in units of 256-byte pages: page 0 holds the application header, the    *)
(* rest of the application, the clone area and free pages follow.  Erasing *)
(* works on whole sectors, programming on a page.  A page is Blank (every  *)
(* byte 0xFF), Torn (an erase or a program was cut short, or a cell is     *)
(* worn out: it is neither blank nor the page of any image), or page i of  *)
(* a firmware image.                                                       *)
(***************************************************************************)
EXTENDS Integers

CONSTANTS
  Image,        \* firmware images, as the linker and the uploader make them
  Size,         \* Size[im]: pages of im, its header page included
  NSectors,     \* sectors from APP_OFFSET to the end of the flash
  SectorPages,  \* pages of a sector (16 in the chip)
  Blank,        \* the content of an erased page
  Torn          \* the content of a page that verifies as nothing

NPages == NSectors * SectorPages
Page == 0 .. NPages - 1
Sector == 0 .. NSectors - 1

PageOf(im, i) == <<im, i>>
ImagePage == Image \X Page
Content == ImagePage \cup {Blank, Torn}

ASSUME FlashAssumption ==
  /\ NSectors \in Nat \ {0}
  /\ SectorPages \in Nat \ {0}
  /\ Size \in [Image -> 2 .. NPages]
  /\ Blank # Torn
  /\ Blank \notin ImagePage
  /\ Torn \notin ImagePage

PagesOf(s) == s * SectorPages .. (s + 1) * SectorPages - 1

(* Sectors that hold the first n pages.                                    *)
SectorsFor(n) == (n + SectorPages - 1) \div SectorPages

(* Nothing is programmed unless the page is erased or already holds the    *)
(* data.  Two torn pages do not hold the same bytes.                       *)
Programmable(old, new) == old = Blank \/ (old = new /\ new # Torn)

(* flash_range_program alone: bits can only be cleared, so programming a   *)
(* page that already holds something else leaves neither of the two.       *)
Overwritten(f, p, c) ==
  [f EXCEPT ![p] = IF Programmable(@, c) THEN c ELSE Torn]

(* The content of one page after flash_range_program_with_check.           *)
Programmed(f, p, c) == IF Programmable(f[p], c) THEN [f EXCEPT ![p] = c] ELSE f

Erased(f, s) == [p \in Page |-> IF p \in PagesOf(s) THEN Blank ELSE f[p]]
SectorBlank(f, s) == \A p \in PagesOf(s) : f[p] = Blank

(* What is left when the power fails while the pages of D change from f to *)
(* g: some are torn, some are changed, the others are as they were.        *)
CutShort(f, g, D) ==
  { [p \in Page |-> IF p \in broken THEN Torn
                    ELSE IF p \in changed THEN g[p] ELSE f[p]] :
    broken \in SUBSET D, changed \in SUBSET D }

(* The image im lies complete at page base: signature and length in its    *)
(* header, start marker in its body, and a checksum over all of it that    *)
(* agrees with the stored one.                                             *)
CompleteAt(f, base, im) ==
  /\ base + Size[im] <= NPages
  /\ \A i \in 0 .. Size[im] - 1 : f[base + i] = PageOf(im, i)

(* The header at page base carries the signature and a length in range.    *)
HeaderOf(f, base, im) == f[base] = PageOf(im, 0)
HeaderSane(f, base) == \E im \in Image : HeaderOf(f, base, im)
HeaderSize(f, base) == Size[CHOOSE im \in Image : HeaderOf(f, base, im)]

==============================================================================
