------------------------------ MODULE Install ------------------------------
(***************************************************************************)
(* What upload_fw promises, whatever is lost, late or reset on the way:    *)
(* the board has one of the images it was asked to take, or none.  The one *)
(* it has goes away only after somebody agreed to an erase, another one    *)
(* appears in one step, and success is reported only of an image that is   *)
(* there and stays there until the next upload.                            *)
(***************************************************************************)
CONSTANTS
  Image,
  NoImage       \* no image is installed

VARIABLES
  installed,    \* the image the bootloader would start
  offered,      \* the images that were installed or asked for so far
  wanted,       \* the image of this session
  agreed,       \* somebody agreed to an erase
  outcome       \* of this session, "open" while it goes on

vars == <<installed, offered, wanted, agreed, outcome>>

Init ==
  /\ installed \in Image \cup {NoImage}
  /\ offered = {installed} \ {NoImage}
  /\ wanted = NoImage
  /\ agreed = FALSE
  /\ outcome = "none"

Begin ==
  /\ outcome # "open"
  /\ wanted' \in Image
  /\ offered' = offered \cup {wanted'}
  /\ outcome' = "open"
  /\ UNCHANGED <<installed, agreed>>

Agree ==
  /\ outcome = "open"
  /\ agreed' = TRUE
  /\ UNCHANGED <<installed, offered, wanted, outcome>>

Withdraw ==
  /\ agreed
  /\ outcome # "done"
  /\ installed # NoImage
  /\ installed' = NoImage
  /\ UNCHANGED <<offered, wanted, agreed, outcome>>

Appear ==
  /\ outcome # "done"
  /\ installed = NoImage
  /\ installed' \in offered
  /\ UNCHANGED <<offered, wanted, agreed, outcome>>

Finish ==
  /\ outcome = "open"
  /\ outcome' \in {"done", "failed", "stopped"}
  /\ outcome' = "done" => installed = wanted
  /\ UNCHANGED <<installed, offered, wanted, agreed>>

Next == Begin \/ Agree \/ Withdraw \/ Appear \/ Finish

Spec == Init /\ [][Next]_vars

(* Success was said of an image that is there.  What is promised contains  *)
(* it.                                                                     *)
DoneIsInstalled == outcome = "done" => installed = wanted

=============================================================================
