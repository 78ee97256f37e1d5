--------------------------- MODULE MCAgentSystem ---------------------------
(***************************************************************************)
(* A small instance of each component of AgentSystem for TLC.              *)
(***************************************************************************)
EXTENDS AgentSystem

MCPools == <<"p1">>

(* Prices in thousandths; one reference above the pool and one below it.   *)
MCChanges == {-700, 0, 700, 2100}
MCReferences == {[price |-> 1020, confidence |-> 90], [price |-> 970, confidence |-> 40]}

Layers(fields, kinds) == UNION {[fs -> kinds] : fs \in SUBSET fields}
MCFileLayers == Layers({"hookAddress", "strategyConfig", "pools"}, {"good"})
                    \cup Layers(Numbers, {"good", "zero"})
MCEnvLayers == Layers(Numbers, {"good", "NaN"}) \cup Layers({"strategyName", "batchInterval"}, {"good", "negative"})
                    \cup {l @@ "hookAddress" :> "good" : l \in Layers({"pollInterval"}, {"negative"})}
                    \cup {l @@ "hookAddress" :> k : l \in Layers(Numbers, {"good", "NaN"}), k \in {"good", "malformed"}}
=============================================================================
