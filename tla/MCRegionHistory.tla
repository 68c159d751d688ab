-------------------------- MODULE MCRegionHistory --------------------------
(* Instances of RegionHistory for TLC, on the files of MCRegion.            *)
EXTENDS MCRegion, RegionHistory
=============================================================================
