------------------------------ MODULE TokenCache ------------------------------
(***************************************************************************)
(* The OAuth token cache of one worker process: threads that apply the     *)
(* plugin look a token up, or fetch one without a lock and store it, the   *)
(* last write winning.  The endpoint counts a token's life from when it    *)
(* grants it; the cache from when the answer has arrived.                  *)
(***************************************************************************)
EXTENDS Integers

CONSTANTS
    Thread,      \* threads of the worker that apply the plugin
    Client,      \* the (token_url, client_id) pairs of the carriers' configs
    Lifetime,    \* values of expires_in the endpoint grants
    Margin,      \* _SAFETY_MARGIN_SECONDS
    Travel,      \* the longest a granted token takes to arrive
    Horizon      \* bound on the clock

NoClient == "no client"
ASSUME TokenAssumption ==
    /\ Lifetime \subseteq Nat
    /\ NoClient \notin Client
    /\ Margin \in Nat /\ Travel \in Nat /\ Horizon \in Nat

NoToken == [client |-> NoClient, dies |-> 0]
Token == [client : Client, dies : Nat] \union {NoToken}

VARIABLES
    clock,      \* the plugin's monotonic clock
    cached,     \* per client: the token stored and when the cache lets it expire
    tokenStep,  \* where each thread is
    client,     \* the client it authenticates as
    granted,    \* the token the endpoint granted it, its life and since when it travels
    bearer      \* the token it put on its request, and whether the cache served it

tokenVars == <<clock, cached, tokenStep, client, granted, bearer>>

TokenTypeOK ==
    /\ clock \in 0 .. Horizon
    /\ cached \in [Client -> [token : Token, expires_at : Int]]
    /\ tokenStep \in [Thread -> {"idle", "fetching", "granted", "sending"}]
    /\ client \in [Thread -> Client \union {NoClient}]
    /\ granted \in [Thread -> [token : Token, life : Nat, since : Nat]]
    /\ bearer \in [Thread -> [token : Token, hit : BOOLEAN]]

Nothing == [token |-> NoToken, expires_at |-> 0]
NoGrant == [token |-> NoToken, life |-> 0, since |-> 0]
NoBearer == [token |-> NoToken, hit |-> FALSE]
TokenInit ==
    /\ clock = 0
    /\ cached = [c \in Client |-> Nothing]
    /\ tokenStep = [t \in Thread |-> "idle"]
    /\ client = [t \in Thread |-> NoClient]
    /\ granted = [t \in Thread |-> NoGrant]
    /\ bearer = [t \in Thread |-> NoBearer]

-----------------------------------------------------------------------------
TokenGoto(t, where) == tokenStep' = [tokenStep EXCEPT ![t] = where]

\* Where the cache keeps a client's token.
KeyOf(c) == c
Fresh(c) == clock < cached[KeyOf(c)].expires_at

\* Without its config keys a call ends before this step (OAuthTokenError).
LookUp(t) == \E c \in Client :
    /\ tokenStep[t] = "idle"
    /\ client' = [client EXCEPT ![t] = c]
    /\ IF Fresh(c)
       THEN /\ bearer' = [bearer EXCEPT ![t] = [token |-> cached[KeyOf(c)].token, hit |-> TRUE]]
            /\ TokenGoto(t, "sending")
       ELSE TokenGoto(t, "fetching") /\ UNCHANGED bearer
    /\ UNCHANGED <<clock, cached, granted>>

\* The endpoint grants a token; its answer is on its way.
Grant(t) ==
    /\ tokenStep[t] = "fetching"
    /\ \E life \in Lifetime :
          granted' = [granted EXCEPT ![t] =
                         [token |-> [client |-> client[t], dies |-> clock + life],
                          life |-> life, since |-> clock]]
    /\ TokenGoto(t, "granted")
    /\ UNCHANGED <<clock, cached, client, bearer>>

\* The answer arrives: the token is stored, over whatever another thread stored meanwhile.
ExpiresAt_variant(life) == clock + life
ExpiresAt(life) == clock + life - Margin
Store(t) ==
    /\ tokenStep[t] = "granted"
    /\ cached' = [cached EXCEPT ![KeyOf(client[t])] =
                     [token |-> granted[t].token, expires_at |-> ExpiresAt(granted[t].life)]]
    /\ bearer' = [bearer EXCEPT ![t] = [token |-> granted[t].token, hit |-> FALSE]]
    /\ granted' = [granted EXCEPT ![t] = NoGrant]
    /\ TokenGoto(t, "sending")
    /\ UNCHANGED <<clock, client>>

\* A timeout, a non-200, a body that is no grant: OAuthTokenError, nothing stored.
FetchFails(t) ==
    /\ tokenStep[t] \in {"fetching", "granted"}
    /\ granted' = [granted EXCEPT ![t] = NoGrant]
    /\ client' = [client EXCEPT ![t] = NoClient]
    /\ TokenGoto(t, "idle")
    /\ UNCHANGED <<clock, cached, bearer>>

\* The carrier call leaves with the header; the thread goes on to its next one.
Send(t) ==
    /\ tokenStep[t] = "sending"
    /\ bearer' = [bearer EXCEPT ![t] = NoBearer]
    /\ client' = [client EXCEPT ![t] = NoClient]
    /\ TokenGoto(t, "idle")
    /\ UNCHANGED <<clock, cached, granted>>

\* Time passes, but an answer is on its way for at most Travel, and a request that has its
\* header leaves at once.
TokenTick ==
    /\ clock < Horizon
    /\ \A t \in Thread : /\ tokenStep[t] = "granted" => clock - granted[t].since < Travel
                         /\ tokenStep[t] # "sending"
    /\ clock' = clock + 1
    /\ UNCHANGED <<cached, tokenStep, client, granted, bearer>>

TokenNext ==
    \/ TokenTick
    \/ \E t \in Thread : LookUp(t) \/ Grant(t) \/ Store(t) \/ FetchFails(t) \/ Send(t)

TokenSpec == TokenInit /\ [][TokenNext]_tokenVars

-----------------------------------------------------------------------------
(* Safety. *)

\* A request carries a token granted to its own client; one the cache served is still good
\* for more than the margin less the time its grant travelled, although the two clocks
\* start apart and the cache is written without a lock: "a token never dies mid-flight" of
\* a call that is short enough.
BearerIsGood == \A t \in Thread : tokenStep[t] = "sending" =>
    /\ bearer[t].token.client = client[t]
    /\ bearer[t].hit => bearer[t].token.dies - clock > Margin - Travel
=============================================================================
