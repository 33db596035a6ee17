------------------------------- MODULE MCRooms -------------------------------
(* The ids, limits and bounds of the instances are in the cfg files.          *)
EXTENDS Rooms
=============================================================================
