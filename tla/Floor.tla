-------------------------------- MODULE Floor --------------------------------
(***************************************************************************)
(* What the two models of a page have in common: the cabinets it may show  *)
(* and play (Session, DeltaSync), and the name of what is absent.          *)
(***************************************************************************)
CONSTANTS Cabinet, None
=============================================================================
