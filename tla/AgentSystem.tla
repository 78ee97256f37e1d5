---------------------------- MODULE AgentSystem ----------------------------
(***************************************************************************)
(* The components of agents/ that run in one process, side by side.  Only  *)
(* the status of the agent is shared, and TradingAgent already lets        *)
(* anybody change it at any time; so a behaviour of all components is one  *)
(* of each, and one component at a time leaves its initial state: the one  *)
(* in focus.  AgentManager includes TradingAgent, Strategies includes      *)
(* MeanReversion.                                                          *)
(***************************************************************************)
EXTENDS AgentManager, AgentSupervision, AgentMessageBus, PoolMonitor,
        Strategies, TokenDistributionHandler, AgentConfig

VARIABLE focus

Components == {"manager", "supervision", "bus", "monitor", "strategies", "handler", "config"}

allVars == <<focus, managedVars, supervisionVars, busVars, monitorVars,
             strategyVars, handlerVars, configVars>>

SystemInit ==
    /\ focus \in Components
    /\ ManagerInit /\ SupervisionInit /\ BusInit /\ MonitorInit
    /\ StrategiesInit /\ HandlerInit /\ ConfigInit
    /\ focus \notin {"manager", "supervision"} => walletMatches

(* What an action of one component leaves alone. *)
Beside(component) ==
    /\ focus = component /\ UNCHANGED focus
    /\ component # "manager" => UNCHANGED <<tradeVars, managerVars>>
    /\ component # "supervision" => UNCHANGED <<managerSide, lifecycleSide, registered, phase>>
    /\ component \notin {"manager", "supervision"} => UNCHANGED statusVars
    /\ component # "bus" => UNCHANGED busVars
    /\ component # "monitor" => UNCHANGED monitorVars
    /\ component # "strategies" => UNCHANGED strategyVars
    /\ component # "handler" => UNCHANGED handlerVars
    /\ component # "config" => UNCHANGED configVars

SystemNext ==
    \/ Beside("manager") /\ ManagedNext
    \/ Beside("supervision") /\ SupervisionNext
    \/ Beside("bus") /\ BusNext
    \/ Beside("monitor") /\ MonitorNext
    \/ Beside("strategies") /\ StrategiesNext
    \/ Beside("handler") /\ HandlerNext
    \/ Beside("config") /\ ConfigNext

SystemSpec ==
    /\ SystemInit /\ [][SystemNext]_allVars
    /\ ManagedFairness /\ SupervisionFairness

(* The type invariants of all components. *)
AgentsTypeOK ==
    /\ focus \in Components
    /\ StatusTypeOK /\ TradeTypeOK /\ ManagerTypeOK /\ SupervisionTypeOK
    /\ BusTypeOK /\ MonitorTypeOK /\ StrategiesTypeOK /\ HandlerTypeOK /\ ConfigTypeOK
=============================================================================
