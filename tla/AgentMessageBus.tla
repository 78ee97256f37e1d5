-------------------------- MODULE AgentMessageBus --------------------------
(***************************************************************************)
(* coordination/AgentMessageBus.ts: publish and subscribe between agents   *)
(* in one process, and the state they share.  publish calls the handlers   *)
(* one after the other, without an await in between, and a handler may     *)
(* itself publish, subscribe, unsubscribe or clear: the calls in progress  *)
(* form a stack.  A step is what happens between two calls of handlers.    *)
(***************************************************************************)
EXTENDS Naturals, Sequences, FiniteSets, SequencesExt

CONSTANTS
    BusAgents, Topics, BusPools, StateKeys,
    NoPool,             \* a message or a subscription without a pool
    MaxHistory,         \* maxHistoryPerTopic
    MaxMessages,        \* bound: messages published since the last clear
    MaxSubscriptions,   \* bound: subscriptions at a time
    MaxDepth            \* bound: publish calls within each other

(* The default is 200; with 0, slice(-0) would keep everything.            *)
ASSUME BusAssumption ==
    /\ MaxHistory \in Nat \ {0}
    /\ MaxMessages \in Nat /\ MaxSubscriptions \in Nat /\ MaxDepth \in Nat

VARIABLES
    subscriptions,      \* in the order of subscribing
    history,            \* messages kept for each topic
    messageCounter,
    sharedState,        \* who set each key that has a value
    delivering          \* publish calls in progress, the innermost last

busVars == <<subscriptions, history, messageCounter, sharedState, delivering>>

Subscription == [agent : BusAgents, topic : Topics, pool : BusPools \cup {NoPool}]
Message == [id : 1..MaxMessages, from : BusAgents, topic : Topics, pool : BusPools \cup {NoPool}]

(* A publish call: the handlers it has still to call, those it has called, *)
(* and (due) those that matched.                                           *)
Call == [message : Message, toCall : Seq(Subscription), called : Seq(Subscription),
         due : Seq(Subscription), inHandler : BOOLEAN]

Matches(s, m) ==
    /\ s.topic = m.topic /\ s.agent # m.from
    /\ s.pool \in {NoPool, m.pool}

(* filter: what of s is in T, in the order of s. *)
Filtered(s, T) ==
    LET kept[i \in 0..Len(s)] ==
            IF i = 0 THEN <<>>
            ELSE IF s[i] \in T THEN Append(kept[i - 1], s[i]) ELSE kept[i - 1]
    IN  kept[Len(s)]

MatchingSubs(m) == Filtered(subscriptions, {s \in Subscription : Matches(s, m)})

BusInit ==
    /\ subscriptions = <<>> /\ history = [t \in Topics |-> <<>>]
    /\ messageCounter = 0 /\ sharedState = [k \in {} |-> NoPool]
    /\ delivering = <<>>

(* Other code runs while no handler is due, or inside the handler that the *)
(* innermost publish has called.                                           *)
MayCall == delivering # <<>> => Last(delivering).inHandler

LastOf(s, n) == IF Len(s) > n THEN SubSeq(s, Len(s) - n + 1, Len(s)) ELSE s
AddToHistory(m) == history' = [history EXCEPT ![m.topic] = LastOf(Append(@, m), MaxHistory)]

(* The handlers to call are selected once, before the first is called.     *)
Publish(from, t, p) ==
    LET m == [id |-> messageCounter + 1, from |-> from, topic |-> t, pool |-> p]
    IN  /\ MayCall /\ messageCounter < MaxMessages /\ Len(delivering) < MaxDepth
        /\ messageCounter' = m.id
        /\ AddToHistory(m)
        /\ delivering' = Append(delivering,
              [message |-> m, toCall |-> MatchingSubs(m), called |-> <<>>,
               due |-> MatchingSubs(m), inHandler |-> FALSE])
        /\ UNCHANGED <<subscriptions, sharedState>>

(* Mutant: a handler unsubscribed meanwhile is skipped. *)
Proceed_subscribed(frame) ==
    LET still == Filtered(frame.toCall, Range(subscriptions))
    IN  IF still = <<>>
        THEN delivering' = Front(delivering)
        ELSE delivering' = Append(Front(delivering),
                [frame EXCEPT !.toCall = Tail(still), !.called = Append(@, Head(still)),
                              !.inHandler = TRUE])

(* The next handler, or the end of the innermost publish.                  *)

Proceed(frame) ==
    IF frame.toCall = <<>>
    THEN delivering' = Front(delivering)
    ELSE delivering' = Append(Front(delivering),
            [frame EXCEPT !.toCall = Tail(@), !.called = Append(@, Head(frame.toCall)),
                          !.inHandler = TRUE])

(* The handler before it, if any, has returned (what it awaits is not      *)
(* waited for by the next one).                                            *)
Deliver ==
    /\ delivering # <<>> /\ Proceed(Last(delivering))
    /\ UNCHANGED <<subscriptions, history, messageCounter, sharedState>>

(* A handler that throws before its first await ends the delivery: only    *)
(* what it returns is guarded by catch.                                    *)
HandlerThrows ==
    /\ delivering # <<>> /\ Last(delivering).inHandler
    /\ delivering' = Front(delivering)
    /\ UNCHANGED <<subscriptions, history, messageCounter, sharedState>>

Subscribe(s) ==
    /\ MayCall /\ Len(subscriptions) < MaxSubscriptions
    /\ subscriptions' = Append(subscriptions, s)
    /\ UNCHANGED <<history, messageCounter, sharedState, delivering>>

(* The function that subscribe returned. *)
Unsubscribe(i) ==
    /\ MayCall
    /\ subscriptions' = RemoveAt(subscriptions, i)
    /\ UNCHANGED <<history, messageCounter, sharedState, delivering>>

UnsubscribeAll(a) ==
    /\ MayCall
    /\ subscriptions' = Filtered(subscriptions, {s \in Subscription : s.agent # a})
    /\ UNCHANGED <<history, messageCounter, sharedState, delivering>>

SetState(k, a) ==
    /\ MayCall
    /\ sharedState' = [x \in DOMAIN sharedState \cup {k} |-> IF x = k THEN a ELSE sharedState[x]]
    /\ UNCHANGED <<subscriptions, history, messageCounter, delivering>>

DeleteState(k) ==
    /\ MayCall
    /\ sharedState' = [x \in DOMAIN sharedState \ {k} |-> sharedState[x]]
    /\ UNCHANGED <<subscriptions, history, messageCounter, delivering>>

Clear ==
    /\ MayCall
    /\ subscriptions' = <<>> /\ history' = [t \in Topics |-> <<>>]
    /\ messageCounter' = 0 /\ sharedState' = [k \in {} |-> NoPool]
    /\ UNCHANGED delivering

BusNext ==
    \/ \E from \in BusAgents, t \in Topics, p \in BusPools \cup {NoPool} : Publish(from, t, p)
    \/ Deliver \/ HandlerThrows \/ Clear
    \/ \E s \in Subscription : Subscribe(s)
    \/ \E i \in 1..Len(subscriptions) : Unsubscribe(i)
    \/ \E a \in BusAgents : UnsubscribeAll(a)
    \/ \E k \in StateKeys, a \in BusAgents : SetState(k, a)
    \/ \E k \in DOMAIN sharedState : DeleteState(k)

BusSpec == BusInit /\ [][BusNext]_busVars

BusTypeOK ==
    /\ subscriptions \in Seq(Subscription) /\ messageCounter \in 0..MaxMessages
    /\ history \in [Topics -> Seq(Message)]
    /\ \A t \in Topics : Len(history[t]) <= MaxHistory
    /\ DOMAIN sharedState \subseteq StateKeys
    /\ \A k \in DOMAIN sharedState : sharedState[k] \in BusAgents
    /\ delivering \in Seq(Call)
    /\ \A i \in 1..Len(delivering) : i < Len(delivering) => delivering[i].inHandler

(* A delivery that no throw cuts short has called every handler that       *)
(* matched when the message was published, once and in order, although     *)
(* handlers subscribe, unsubscribe, publish or clear meanwhile (publish);  *)
(* and what a topic keeps is in the order of publishing and has the latest *)
(* message, although publish calls are nested (addToHistory).              *)
NobodySkipped ==
    (Deliver /\ Len(delivering') < Len(delivering)) => Last(delivering).called = Last(delivering).due
HistoryInOrder ==
    /\ \A t \in Topics : \A i, j \in 1..Len(history[t]) :
          i < j => history[t][i].id < history[t][j].id
    /\ messageCounter > 0 =>
          \E t \in Topics : history[t] # <<>> /\ Last(history[t]).id = messageCounter
BusDelivers == []HistoryInOrder /\ [][NobodySkipped]_busVars
=============================================================================
