---------------------------- MODULE AgentConfig ----------------------------
(***************************************************************************)
(* config/agentConfig.ts and main of run.ts: how the configuration of an   *)
(* agent is put together, checked and handed on.  A layer is a partial     *)
(* function from fields to values.  Fields that are treated alike are one: *)
(*    hookAddress    every required address                                *)
(*    strategyName, strategyConfig, pools                                  *)
(*    batchInterval  every number that must be positive                    *)
(*    maxRetries     every number that must not be negative                *)
(*    pollInterval   the one number that is only warned about; "good" is a *)
(*                   second or more, and a shorter positive one fares like *)
(*                   a negative one: it is warned about and kept           *)
(* A value is where it came from and what it is.                           *)
(***************************************************************************)
EXTENDS Naturals

CONSTANTS
    FileLayers,     \* what a JSON file can hold
    EnvLayers       \* what the AGENT_* variables can say, without strategyConfig

Numbers == {"batchInterval", "maxRetries", "pollInterval"}
Fields == Numbers \cup {"hookAddress", "strategyName", "strategyConfig", "pools"}
Kinds == {"good", "zero", "negative", "NaN", "malformed", "empty"}
Value == [from : {"default", "file", "env", "runner"}, is : Kinds]

(* A number is one: loadConfigFromFile takes the file to keep the types of *)
(* AgentConfig, and what parseInt cannot read is NaN.                      *)
NumberKinds == {"good", "zero", "negative", "NaN"}
KindsOf(f) == IF f \in Numbers THEN NumberKinds ELSE Kinds

ASSUME LayersAssumption ==
    \A layer \in FileLayers \cup EnvLayers :
        DOMAIN layer \subseteq Fields /\ \A f \in DOMAIN layer : layer[f] \in KindsOf(f)

VARIABLES
    boot,       \* what main does next
    config,
    fileLayer, envLayer,
    warned,     \* the validation has warned about the pollInterval
    limits      \* what the two managers are given: [manager, lifecycle]

configVars == <<boot, config, fileLayer, envLayer, warned, limits>>

From(where, layer) == [f \in DOMAIN layer |-> [from |-> where, is |-> layer[f]]]

(* DEFAULT_AGENT_CONFIG: addresses and pools are empty. *)
Defaults == From("default", [f \in Fields |->
                IF f \in {"hookAddress", "pools", "strategyConfig"} THEN "empty" ELSE "good"])

(* One level deep: in each section, field by field; strategy.config is one *)
(* field, so it is replaced.                                               *)
DeepMerge(target, source) ==
    [f \in DOMAIN target \cup DOMAIN source |-> IF f \in DOMAIN source THEN source[f] ELSE target[f]]

(* loadConfigFromEnv: a strategy name brings an empty strategy.config.     *)
LoadConfigFromEnv(env) ==
    From("env", IF "strategyName" \in DOMAIN env
                THEN DeepMerge(env, [f \in {"strategyConfig"} |-> "empty"])
                ELSE env)

(* validateAgentConfig: comparisons with NaN are false, so it passes.      *)
Valid(c) ==
    /\ c["hookAddress"].is = "good"
    /\ c["pools"].is \in {"good", "empty"}
    /\ c["batchInterval"].is \notin {"zero", "negative"}
    /\ c["maxRetries"].is # "negative"

(* A NaN is not less than 1000 either. *)
Warns(c) == c["pollInterval"].is \in {"zero", "negative"}

(* Mutant: ?? in place of ||. *)
OrDefault_nullish(v) == v

(* The constructor of AgentManager: x || default; of the life-cycle        *)
(* manager, which gets no batch interval: x ?? default.                    *)
OrDefault(v) == IF v \in {"zero", "NaN"} THEN "good" ELSE v
NullishDefault(v) == v

ConfigInit ==
    /\ boot = "file" /\ config = Defaults
    /\ fileLayer = <<>> /\ envLayer = <<>>
    /\ warned = FALSE /\ limits = <<>>

(* Without --config, without the file or with broken JSON in it. *)
NoFile == boot = "file" /\ boot' = "env" /\ UNCHANGED <<config, fileLayer, envLayer, warned, limits>>
BrokenFile == boot = "file" /\ boot' = "exit" /\ UNCHANGED <<config, fileLayer, envLayer, warned, limits>>

MergeFile(layer) ==
    /\ boot = "file" /\ boot' = "env"
    /\ fileLayer' = layer
    /\ config' = DeepMerge(config, From("file", layer))
    /\ UNCHANGED <<envLayer, warned, limits>>

MergeEnv(layer) ==
    /\ boot = "env" /\ boot' = "overrides"
    /\ envLayer' = layer
    /\ config' = DeepMerge(config, LoadConfigFromEnv(layer))
    /\ UNCHANGED <<fileLayer, warned, limits>>

(* main overrides the pools, with none when the token addresses are unset; *)
(* a pool has the hook address of the environment.                         *)
MergeOverrides(tokensSet) ==
    LET found == tokensSet /\ "hookAddress" \in DOMAIN envLayer
        pools == IF ~found THEN "empty"
                 ELSE IF envLayer["hookAddress"] = "good" THEN "good" ELSE "malformed"
    IN  /\ boot = "overrides" /\ boot' = "validate"
        /\ config' = DeepMerge(config, From("runner", [f \in {"pools"} |-> pools]))
        /\ UNCHANGED <<fileLayer, envLayer, warned, limits>>

Validate ==
    /\ boot = "validate"
    /\ warned' = Warns(config)
    /\ IF Valid(config)
       THEN /\ boot' = "live"
            /\ limits' = [manager   |-> [f \in Numbers |-> OrDefault(config[f].is)],
                          lifecycle |-> [f \in {"maxRetries", "pollInterval"} |-> NullishDefault(config[f].is)]]
       ELSE boot' = "exit" /\ UNCHANGED limits
    /\ UNCHANGED <<config, fileLayer, envLayer>>

ConfigNext ==
    \/ NoFile \/ BrokenFile \/ Validate
    \/ \E layer \in FileLayers : MergeFile(layer)
    \/ \E layer \in EnvLayers : MergeEnv(layer)
    \/ \E tokensSet \in BOOLEAN : MergeOverrides(tokensSet)

ConfigSpec == ConfigInit /\ [][ConfigNext]_configVars

ConfigTypeOK ==
    /\ boot \in {"file", "env", "overrides", "validate", "live", "exit"}
    /\ config \in [Fields -> Value] /\ warned \in BOOLEAN
    /\ \A f \in Numbers : config[f].is \in NumberKinds

(* Whatever a file of the right types and the environment say, an agent    *)
(* that goes live runs against the hook address of the highest layer that  *)
(* gives one, and monitors only pools of the hook in the environment.  Its *)
(* manager checks batches at an interval and retries a number of times     *)
(* that are positive numbers, even when the validation let a NaN pass; it  *)
(* monitors at an interval that is a number but may be negative, of which  *)
(* the validation has warned then (validateAgentConfig, main, the          *)
(* constructor of AgentManager).                                           *)
LiveIsConfigured ==
    boot = "live" =>
        /\ config["hookAddress"].from = (IF "hookAddress" \in DOMAIN envLayer THEN "env" ELSE "file")
        /\ config["pools"].is = "good" => config["hookAddress"].from = "env"
        /\ limits.manager["batchInterval"] = "good" /\ limits.manager["maxRetries"] = "good"
        /\ \/ limits.manager["pollInterval"] = "good"
           \/ limits.manager["pollInterval"] = "negative" /\ warned
=============================================================================
