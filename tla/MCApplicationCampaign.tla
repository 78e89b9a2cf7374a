------------------------- MODULE MCApplicationCampaign -------------------------
(* A job with two routes; the second lists again what the first listed.    *)
EXTENDS ApplicationCampaign

MCProfileOf == [c \in Runs |-> "p1"]
MCPages == << <<{"v1", "v2"}>>, <<{"v2", "v3"}>> >>

=============================================================================
