---------------------- MODULE TokenDistributionHandler ----------------------
(***************************************************************************)
(* hooks/TokenDistributionHandler.ts: what the batches paid, as heard from *)
(* the hook's TokensDistributed events or queried from the chain.  Events  *)
(* are heard while the contract object has listeners; nothing says which   *)
(* were missed.  A payment stands for its amount.                          *)
(***************************************************************************)
EXTENDS Naturals, Sequences, Functions

CONSTANTS
    Holders,        \* agent identifiers
    Wallets,        \* wallet addresses
    MaxPayments,    \* bound on the payments of all batches
    MaxRecords      \* bound on the history, which the code never trims

ASSUME DistributionAssumption == MaxPayments \in Nat /\ MaxRecords \in Nat

VARIABLES
    agentBalances,  \* [wallet, credits] of the registered agents
    walletToAgent,  \* written by the code, never read
    isListening,
    hookListeners,      \* TokensDistributed listeners on the contract object
    emitted,        \* the recipients of the hook's TokensDistributed events
    heard,          \* events before this one are past for the provider
    query,          \* events fetchPastDistributions has still to record
    distributions   \* [event, via]

handlerVars == <<agentBalances, walletToAgent, isListening, hookListeners,
                 emitted, heard, query, distributions>>

HandlerInit ==
    /\ agentBalances = <<>> /\ walletToAgent = <<>>
    /\ isListening = FALSE /\ hookListeners = 0
    /\ emitted = <<>> /\ heard = 0
    /\ query = <<>> /\ distributions = <<>>

(* The hook hashes the packed address, 20 bytes; the handler the encoded   *)
(* one, 32 bytes.                                                          *)
RecipientHash(w) == <<"encodePacked", w>>
ExpectedHash(w) == <<"encode", w>>

(* registerAgent: a second registration keeps the first wallet. *)
RegisterHolder(a, w) ==
    /\ walletToAgent' = [x \in DOMAIN walletToAgent \cup {w} |->
                            IF x = w THEN a ELSE walletToAgent[x]]
    /\ agentBalances' =
          IF a \in DOMAIN agentBalances THEN agentBalances
          ELSE [x \in DOMAIN agentBalances \cup {a} |->
                   IF x = a THEN [wallet |-> w, credits |-> 0] ELSE agentBalances[x]]
    /\ UNCHANGED <<isListening, hookListeners, emitted, heard, query, distributions>>

(* unregisterAgent: another wallet the agent registered stays. *)
UnregisterHolder(a) ==
    /\ a \in DOMAIN agentBalances
    /\ walletToAgent' = Restrict(walletToAgent, DOMAIN walletToAgent \ {agentBalances[a].wallet})
    /\ agentBalances' = Restrict(agentBalances, DOMAIN agentBalances \ {a})
    /\ UNCHANGED <<isListening, hookListeners, emitted, heard, query, distributions>>

(* The provider polls for new logs from the first subscription on.         *)
AddListener == hookListeners' = hookListeners + 1 /\ heard' = (IF hookListeners = 0 THEN Len(emitted) ELSE heard)

(* Mutant: listening is started again while it is on. *)
StartListening_again ==
    /\ isListening' = TRUE
    /\ AddListener
    /\ UNCHANGED <<agentBalances, walletToAgent, emitted, query, distributions>>

StartListening ==
    /\ ~isListening
    /\ isListening' = TRUE
    /\ AddListener
    /\ UNCHANGED <<agentBalances, walletToAgent, emitted, query, distributions>>

(* removeAllListeners: also what other users of the client listen to. *)
StopListening ==
    /\ isListening
    /\ isListening' = FALSE /\ hookListeners' = 0
    /\ UNCHANGED <<agentBalances, walletToAgent, emitted, heard, query, distributions>>

Pay(w) ==
    /\ Len(emitted) < MaxPayments
    /\ emitted' = Append(emitted, w)
    /\ UNCHANGED <<agentBalances, walletToAgent, isListening, hookListeners, heard, query, distributions>>

Recorded(event, via) == [event |-> event, via |-> via]

HashMatches(a, event) == ExpectedHash(agentBalances[a].wallet) = RecipientHash(emitted[event])

(* matchDistributionToAgent: the first that matches, in registration order; *)
(* several match only when they share a wallet.                             *)
Credited(event, times) ==
    LET matching == {a \in DOMAIN agentBalances : HashMatches(a, event)}
    IN  IF matching = {} THEN {agentBalances}
        ELSE {[agentBalances EXCEPT ![a].credits = @ + times] : a \in matching}

(* handleDistributionEvent, once by every listener. *)
HearPayment ==
    /\ hookListeners > 0 /\ heard < Len(emitted)
    /\ Len(distributions) + hookListeners <= MaxRecords
    /\ heard' = heard + 1
    /\ distributions' = distributions \o [i \in 1..hookListeners |-> Recorded(heard + 1, "event")]
    /\ agentBalances' \in Credited(heard + 1, hookListeners)
    /\ UNCHANGED <<walletToAgent, isListening, hookListeners, emitted, query>>

(* fetchPastDistributions: a block read is awaited before each record; the *)
(* balances do not change, and what was heard before is recorded again.    *)
FetchPast(from) ==
    /\ query = <<>>
    /\ query' = [i \in 1..Len(emitted) - from |-> from + i]
    /\ UNCHANGED <<agentBalances, walletToAgent, isListening, hookListeners, emitted, heard, distributions>>

RecordPast ==
    /\ query # <<>> /\ Len(distributions) < MaxRecords
    /\ distributions' = Append(distributions, Recorded(Head(query), "query"))
    /\ query' = Tail(query)
    /\ UNCHANGED <<agentBalances, walletToAgent, isListening, hookListeners, emitted, heard>>

(* A block read fails: the records so far stay. *)
FetchPastFails ==
    /\ query # <<>> /\ query' = <<>>
    /\ UNCHANGED <<agentBalances, walletToAgent, isListening, hookListeners, emitted, heard, distributions>>

HandlerNext ==
    \/ \E a \in Holders, w \in Wallets : RegisterHolder(a, w)
    \/ \E a \in Holders : UnregisterHolder(a)
    \/ StartListening
    \/ StopListening
    \/ \E w \in Wallets : Pay(w)
    \/ HearPayment
    \/ \E from \in 0..Len(emitted) : FetchPast(from)
    \/ RecordPast
    \/ FetchPastFails

HandlerSpec == HandlerInit /\ [][HandlerNext]_handlerVars

HandlerTypeOK ==
    /\ DOMAIN agentBalances \subseteq Holders
    /\ agentBalances \in [DOMAIN agentBalances -> [wallet : Wallets, credits : Nat]]
    /\ DOMAIN walletToAgent \subseteq Wallets
    /\ isListening \in BOOLEAN /\ hookListeners \in Nat
    /\ emitted \in Seq(Wallets) /\ heard \in 0..Len(emitted)
    /\ query \in Seq(1..Len(emitted))
    /\ distributions \in Seq([event : 1..Len(emitted), via : {"event", "query"}])

(* However listening is started and stopped and whatever is queried in     *)
(* between, a payment is heard at most once and payments are heard in the  *)
(* order in which the batches made them (startListening, stopListening).   *)
HeardOnceInOrder ==
    \A i, j \in 1..Len(distributions) :
        (i < j /\ distributions[i].via = "event" /\ distributions[j].via = "event")
            => distributions[i].event < distributions[j].event

(* "The hook emits recipientHash = keccak256(abi.encode(recipient)), so we *)
(* compute the same hash for each registered agent address."               *)
HearCreditsRecipient ==
    [][(HearPayment /\ \E a \in DOMAIN agentBalances : agentBalances[a].wallet = emitted[heard + 1])
          => agentBalances' # agentBalances]_handlerVars
=============================================================================
