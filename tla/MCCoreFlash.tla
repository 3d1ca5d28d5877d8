----------------------------- MODULE MCCoreFlash -----------------------------
(* Two pages to a sector: bootloader 0-1, protected data 2-3, routing      *)
(* table 4-5, user configuration 6-7, firmware 8-10 and the page that      *)
(* fills its sector, free 12-15, and addresses behind the flash.           *)
EXTENDS CoreFlash

x == "x"

(* The protected data and the configuration have each a page that was      *)
(* written and one that is blank.                                          *)
Flashes == { [p \in Page |-> IF p \in Reserved \cup {2, 7} THEN x ELSE Blank] }

==============================================================================
