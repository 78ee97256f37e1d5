---------------------------- MODULE TradingAgent ----------------------------
(***************************************************************************)
(* agents/TradingAgent.ts with the cooldown of its strategy: one agent     *)
(* that polls its pools in turn and commits to trades.  An interval timer  *)
(* that does not wait for the poll before it starts monitorPools calls,    *)
(* which therefore overlap; each runs through the awaits                   *)
(*   fetchMarketData, shouldTrade, submitCommitment and tx.wait            *)
(* and a step is what runs between two of them.  The chain is external:    *)
(* it mines what it has accepted at any later time.                        *)
(***************************************************************************)
EXTENDS AgentStatus, Sequences

CONSTANTS
    PoolOrder,      \* config.pools
    Monitors,       \* bound: monitorPools calls in flight
    MaxNonce,       \* bound: nonces handed out per pool and start
    MaxStarts       \* bound: start() calls

ASSUME TradingAssumption ==
    /\ PoolOrder \in Seq(STRING)
    /\ MaxNonce \in Nat /\ MaxStarts \in Nat

VARIABLES
    starting,       \* start() calls that await the signer's address
    starts,         \* start() calls that have reset the nonce counters
    nonceCounter,   \* nonceCounter of each pool (absent is 0)
    monitor,        \* the monitorPools calls
    cooling,        \* pools whose lastTradeTimestamp is within the cooldown
    mempool,        \* accepted submitCommitment transactions, not mined yet
    chain,          \* commitments the hook holds
    commitments     \* the commitments map: what the agent can reveal

tradeVars == <<starting, starts, nonceCounter, monitor, cooling, mempool, chain, commitments>>
agentVars == <<statusVars, tradeVars>>

TradePools == {PoolOrder[i] : i \in 1..Len(PoolOrder)}

(* A commitment hash, by what tells two submissions of the agent apart.    *)
(* The hash has no start in it, but a deadline in seconds and amounts,     *)
(* which differ between starts.                                            *)
Commitment == [pool : TradePools, nonce : 1..MaxNonce, start : 1..MaxStarts]

AtRest == [at |-> "rest", i |-> 0, nonce |-> 0, start |-> 0]
Arriving(k) == [at |-> "fetch", i |-> k, nonce |-> 0, start |-> 0]

(* After pool k: the next one, whatever the status is by then. *)
After(k) == IF k < Len(PoolOrder) THEN Arriving(k + 1) ELSE AtRest

AgentPoolOf(m) == PoolOrder[monitor[m].i]
HashOfMonitor(m) == [pool |-> AgentPoolOf(m), nonce |-> monitor[m].nonce, start |-> monitor[m].start]

TradeInit ==
    /\ starting = 0 /\ starts = 0
    /\ nonceCounter = [p \in TradePools |-> 0]
    /\ monitor = [m \in Monitors |-> AtRest]
    /\ cooling = {} /\ mempool = {} /\ chain = {} /\ commitments = {}

AgentInit == StatusInit /\ TradeInit

(* monitorPools is entered; it would return at once unless RUNNING. *)
EnterMonitor ==
    \E m \in Monitors :
        /\ monitor[m].at = "rest"
        /\ monitor' = [monitor EXCEPT ![m] = After(0)]

Start ==
    /\ starting + starts < MaxStarts
    /\ AgentStartBegins
    /\ starting' = starting + 1
    /\ UNCHANGED <<starts, nonceCounter, monitor, cooling, mempool, chain, commitments>>

(* startMonitoring is called before the status is set, so its first poll   *)
(* only runs if another start() got there before.                          *)
Started ==
    /\ starting > 0
    /\ starting' = starting - 1
    /\ starts' = starts + 1
    /\ AgentStartEnds
    /\ IF walletMatches
       THEN /\ nonceCounter' = [p \in TradePools |-> 0]
            /\ IF status = "RUNNING" THEN EnterMonitor ELSE UNCHANGED monitor
       ELSE UNCHANGED <<nonceCounter, monitor>>
    /\ UNCHANGED <<cooling, mempool, chain, commitments>>

Stop == AgentStop /\ UNCHANGED tradeVars
Pause == AgentPause /\ UNCHANGED tradeVars

Resume ==
    /\ AgentResume
    /\ EnterMonitor
    /\ UNCHANGED <<starting, starts, nonceCounter, cooling, mempool, chain, commitments>>

Tick ==
    /\ intervals > 0 /\ status = "RUNNING"
    /\ EnterMonitor
    /\ UNCHANGED <<statusVars, starting, starts, nonceCounter, cooling, mempool, chain, commitments>>

(* fetchMarketData resolves; shouldTrade reads the cooldown and, on a      *)
(* signal, awaits the minimum amount out.                                  *)
Fetched(m) ==
    /\ monitor[m].at = "fetch"
    /\ \/ monitor' = [monitor EXCEPT ![m] = After(@.i)]
       \/ /\ AgentPoolOf(m) \notin cooling
          /\ monitor' = [monitor EXCEPT ![m].at = "decide"]
    /\ UNCHANGED <<statusVars, starting, starts, nonceCounter, cooling, mempool, chain, commitments>>

(* Mutant: the nonce that is drawn is not counted. *)
Decided_notCounted(m) ==
    LET p == AgentPoolOf(m)
        nonce == nonceCounter[p] + 1
    IN  /\ monitor[m].at = "decide"
        /\ nonce <= MaxNonce
        /\ cooling' = cooling \cup {p}
        /\ monitor' = [monitor EXCEPT ![m].at = "send", ![m].nonce = nonce, ![m].start = starts]
        /\ UNCHANGED <<statusVars, starting, starts, nonceCounter, mempool, chain, commitments>>

(* The decision is made: lastTradeTimestamp is set, and submitCommitment   *)
(* draws the nonce and sends the transaction.                              *)
Decided(m) ==
    LET p == AgentPoolOf(m)
        nonce == nonceCounter[p] + 1
    IN  /\ monitor[m].at = "decide"
        /\ nonce <= MaxNonce
        /\ cooling' = cooling \cup {p}
        /\ nonceCounter' = [nonceCounter EXCEPT ![p] = nonce]
        /\ monitor' = [monitor EXCEPT ![m].at = "send", ![m].nonce = nonce, ![m].start = starts]
        /\ UNCHANGED <<statusVars, starting, starts, mempool, chain, commitments>>

(* The node accepts the transaction, or the call fails and monitorPools    *)
(* goes on with the next pool.                                             *)
Sent(m) ==
    /\ monitor[m].at = "send"
    /\ \/ /\ mempool' = mempool \cup {HashOfMonitor(m)}
          /\ monitor' = [monitor EXCEPT ![m].at = "wait"]
       \/ /\ monitor' = [monitor EXCEPT ![m] = After(@.i)]
          /\ UNCHANGED mempool
    /\ UNCHANGED <<statusVars, starting, starts, nonceCounter, cooling, chain, commitments>>

Mine(h) ==
    /\ mempool' = mempool \ {h}
    /\ chain' = chain \cup {h}
    /\ UNCHANGED <<statusVars, starting, starts, nonceCounter, monitor, cooling, commitments>>

(* tx.wait() returns: only now is the intent stored. *)
Confirmed(m) ==
    /\ monitor[m].at = "wait" /\ HashOfMonitor(m) \in chain
    /\ commitments' = commitments \cup {HashOfMonitor(m)}
    /\ monitor' = [monitor EXCEPT ![m] = After(@.i)]
    /\ UNCHANGED <<statusVars, starting, starts, nonceCounter, cooling, mempool, chain>>

WaitFails(m) ==
    /\ monitor[m].at = "wait"
    /\ monitor' = [monitor EXCEPT ![m] = After(@.i)]
    /\ UNCHANGED <<statusVars, starting, starts, nonceCounter, cooling, mempool, chain, commitments>>

CooldownEnds(p) ==
    /\ cooling' = cooling \ {p}
    /\ UNCHANGED <<statusVars, starting, starts, nonceCounter, monitor, mempool, chain, commitments>>

AgentNext ==
    \/ Start \/ Started \/ Stop \/ Pause \/ Resume \/ Tick
    \/ \E m \in Monitors : Fetched(m) \/ Decided(m) \/ Sent(m) \/ Confirmed(m) \/ WaitFails(m)
    \/ \E h \in mempool : Mine(h)
    \/ \E p \in cooling : CooldownEnds(p)

AgentSpec == AgentInit /\ [][AgentNext]_agentVars

TradeTypeOK ==
    /\ starting \in Nat /\ starts \in Nat
    /\ nonceCounter \in [TradePools -> Nat]
    /\ monitor \in [Monitors -> [at : {"rest", "fetch", "decide", "send", "wait"},
                                 i : 0..Len(PoolOrder), nonce : Nat, start : Nat]]
    /\ \A m \in Monitors : monitor[m].at # "rest" => monitor[m].i > 0
    /\ cooling \subseteq TradePools
    /\ mempool \subseteq Commitment /\ chain \subseteq Commitment /\ commitments \subseteq Commitment

(* Polls overlap, so several submissions of one pool are in progress at a  *)
(* time, and one may be sent late.  Still no two of them draw one nonce,   *)
(* and none is sent with a nonce that the agent has used since that start  *)
(* (getNextNonce, submitCommitment).                                       *)
InSubmission(m) == monitor[m].at \in {"send", "wait"}
NonceUsedOnce ==
    \A m \in Monitors : monitor[m].at = "send" =>
        /\ HashOfMonitor(m) \notin mempool \cup chain
        /\ \A k \in Monitors \ {m} : InSubmission(k) => HashOfMonitor(k) # HashOfMonitor(m)
=============================================================================
