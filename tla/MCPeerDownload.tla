-------------------------- MODULE MCPeerDownload --------------------------
(***************************************************************************)
(* Two peers, on two forks of a short chain, for PeerDownload.             *)
(***************************************************************************)
EXTENDS PeerDownload, TLC

MCBlocks == {"g", "b1", "b2", "x2", "x3"}
MCParent == "g" :> Null @@ "b1" :> "g" @@ "b2" :> "b1" @@ "x2" :> "b1" @@ "x3" :> "x2"
MCHeight == "g" :> 0 @@ "b1" :> 1 @@ "b2" :> 2 @@ "x2" :> 2 @@ "x3" :> 3
MCServes == 1 :> {"b1", "x2", "x3"} @@ 2 :> {"b1", "b2"}
MCKindsOf == 1 :> {"outbound", "inbound"} @@ 2 :> {"manual"}
MCPeerTip == 2 :> "b2"
=============================================================================
