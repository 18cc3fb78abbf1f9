-------------------------- MODULE MCMetadataSync --------------------------
(* MetadataSync for TLC: two gateways; a session has one model or all. *)
EXTENDS MetadataSync, TLC

MCGateway == [p \in {"omnigent", "omnigent-other", "mine"} |->
                IF p = "omnigent-other" THEN "g2" ELSE "g1"]
MCSessions == {Ids, {<<"branded", "s">>}}
=============================================================================
