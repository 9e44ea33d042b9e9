----------------------------- MODULE MCCampaign -----------------------------
(* Instances of module Campaign for TLC. *)
EXTENDS Campaign, TLC

CONSTANTS k1, k2, a, z

MCManifest == <<a>>
=============================================================================
