--------------------------- MODULE MCVendorPatch ---------------------------
(* VendorPatch for TLC: two trees with two patches each. *)
EXTENDS VendorPatch

CONSTANT build
=============================================================================
