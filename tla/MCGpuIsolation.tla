--------------------------- MODULE MCGpuIsolation ---------------------------
(* Instances of GpuIsolation for TLC. *)
EXTENDS GpuIsolation

TwoPids == {1, 2}
=============================================================================
