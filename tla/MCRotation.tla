----------------------------- MODULE MCRotation -----------------------------
(* A small instance of Rotation: the service and one rotator run by hand, a  *)
(* token usable for one unit of time and stale after two, junk that tsroll   *)
(* takes for a time long ago.                                                *)
EXTENDS Rotation

=============================================================================
