------------------------------- MODULE MCCan -------------------------------
(* One board with small rings; the bounds are those of MCCan.cfg.          *)
EXTENDS Can

==============================================================================
