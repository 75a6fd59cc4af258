---------------------------- MODULE ProxyRequest ----------------------------
(***************************************************************************)
(* The request path of the session-budget proxy, proxy/app.py: calls of    *)
(* /v1/chat/completions, /v1/responses and /v1/embeddings handled by       *)
(* several tasks and replicas at once, over the ledger of SessionLedger.   *)
(* Every store access and every await is a step of its own, so anything    *)
(* may happen between two of them: another call, a close, the deadline, an *)
(* emergency block by the governor, the death of the process.              *)
(*                                                                         *)
(* Signed tokens are mandatory (require_session), as the control plane     *)
(* deploys the proxy, so every call has a session.  A call draws at most   *)
(* one reservation id: call c uses id c.                                   *)
(***************************************************************************)
EXTENDS SessionLedger

CONSTANTS
  Kinds,       \* the calls clients make, see Kind
  Keys,        \* X-Idempotency-Key values
  NoKey,       \* the header is absent
  Reports,     \* which fields the "usage" of an answer may carry, see Fields
  FailOpen     \* the sessions whose policy has fail_mode fail_open

Calls == Reservations

Kind == [session : Sessions, request : RequestIds, key : Keys \cup {NoKey},
         out : Estimates, stream : BOOLEAN]

\* The handler looks for these two fields and takes 0 for a missing one.  A chat
\* completion has both, an embedding the first, and an answer of /v1/responses
\* neither, since it names them input_tokens and output_tokens.
Fields == {"prompt_tokens", "completion_tokens"}

ASSUME ProxyConstants ==
  /\ Kinds \subseteq Kind /\ Kinds # {}
  /\ NoKey \notin Keys
  /\ Reports \subseteq SUBSET Fields
  /\ FailOpen \subseteq Sessions

VARIABLES
  call,     \* call[c]: where the handler of call c is, and what it knows
  used,     \* used[c]: what the upstream consumed for call c, and reports of it
  cache,    \* the idempotency table: which call's response a key replays
  blocked   \* the sessions is_proxy_blocked refuses

proxyVars == <<ledgerVars, call, used, cache, blocked>>

InFlight == {"lookup", "block_check", "reserve", "headers", "post", "charge",
             "refund", "store", "stream"}
Refused  == {"replayed", "blocked", "exhausted", "unavailable"}
Ended    == Refused \cup {"answered", "upstream_error", "failed", "lost"}

\* "tracked": the handler holds a reservation_id.  The last two fields are
\* history: "held" is true while the session has been blocked ever since the
\* call arrived, "answeredBefore" that the same key of the same session had
\* been answered when the call arrived; "sent" that the upstream got the call.
Call == [pc : {"new"} \cup InFlight \cup Ended, kind : Kinds, tracked : BOOLEAN,
         held : BOOLEAN, answeredBefore : BOOLEAN, sent : BOOLEAN]

NewCall == [pc |-> "new", kind |-> CHOOSE k \in Kinds : TRUE, tracked |-> FALSE,
            held |-> FALSE, answeredBefore |-> FALSE, sent |-> FALSE]

\* What the upstream consumed, and which of it the answer reports.
Usage == [in : InputTokens, out : OutputTokens, fields : Reports]

NoUsage == [in |-> 0, out |-> 0, fields |-> {}]

Consumed(c) == ChargeFor(used[c].in, used[c].out)

Reported(c) == ChargeFor(IF "prompt_tokens" \in used[c].fields THEN used[c].in ELSE 0,
                         IF "completion_tokens" \in used[c].fields THEN used[c].out ELSE 0)

Session(c) == call[c].kind.session
Key(c)     == call[c].kind.key

\* The idempotency table has a row per session and key.
\* Defect: keys are not scoped by session.
UnscopedCacheKey(c) == <<CHOOSE s \in Sessions : TRUE, Key(c)>>

CacheKey(c) == <<Session(c), Key(c)>>

ProxyInit ==
  /\ LedgerInit
  /\ call = [c \in Calls |-> NewCall]
  /\ used = [c \in Calls |-> NoUsage]
  /\ cache = [k \in Sessions \X Keys |-> 0]
  /\ blocked = {}

-----------------------------------------------------------------------------
At(c, pc) == call[c].pc = pc

Goto(c, pc) == call' = [call EXCEPT ![c].pc = pc]

AnsweredBefore(k) == \E d \in Calls :
  At(d, "answered") /\ ~call[d].kind.stream /\ k.key # NoKey
  /\ Session(d) = k.session /\ Key(d) = k.key

\* verify_session_token: the signature holds, so a session of this id has been
\* created.  A token lives on for the second in which its session expires; here
\* it lives on for good, and what follows must refuse the call.
Verified(k) == session[k.session] # "absent"

\* _resolve_session_id and get_session.  Ids are drawn in order of arrival.
Arrive(c, k) ==
  /\ At(c, "new") /\ \A d \in 1..(c - 1) : ~At(d, "new")
  /\ Verified(k)
  /\ call' = [call EXCEPT ![c] = [NewCall EXCEPT !.pc = "lookup", !.kind = k,
                !.held = k.session \in blocked, !.answeredBefore = AnsweredBefore(k)]]
  /\ UNCHANGED <<ledgerVars, used, cache, blocked>>

\* Defect: the key is looked up only while the session is open.
LookupOpen(c) ==
  /\ At(c, "lookup")
  /\ IF Key(c) # NoKey /\ Live(Session(c)) /\ cache[CacheKey(c)] # 0
     THEN Goto(c, "replayed") ELSE Goto(c, "block_check")
  /\ UNCHANGED <<ledgerVars, used, cache, blocked>>

Lookup(c) ==
  /\ At(c, "lookup")
  /\ IF Key(c) # NoKey /\ cache[CacheKey(c)] # 0
     THEN Goto(c, "replayed") ELSE Goto(c, "block_check")
  /\ UNCHANGED <<ledgerVars, used, cache, blocked>>

\* Defect: the block is looked up only for calls without a key.
BlockCheckWithoutKey(c) ==
  /\ At(c, "block_check")
  /\ IF Session(c) \in blocked /\ Key(c) = NoKey THEN Goto(c, "blocked") ELSE Goto(c, "reserve")
  /\ UNCHANGED <<ledgerVars, used, cache, blocked>>

\* is_proxy_blocked, then await request.json().
BlockCheck(c) ==
  /\ At(c, "block_check")
  /\ IF Session(c) \in blocked THEN Goto(c, "blocked") ELSE Goto(c, "reserve")
  /\ UNCHANGED <<ledgerVars, used, cache, blocked>>

ReserveGranted(c) ==
  /\ At(c, "reserve")
  /\ Reserve(Session(c), call[c].kind.request, c, EstimateOf(call[c].kind.out))
  /\ call' = [call EXCEPT ![c].pc = "headers", ![c].tracked = TRUE]
  /\ UNCHANGED <<used, cache, blocked>>

ReserveExhausted(c) ==
  /\ At(c, "reserve")
  /\ ~Live(Session(c)) \/ ~Fits(Session(c), EstimateOf(call[c].kind.out))
  /\ Goto(c, "exhausted")
  /\ UNCHANGED <<ledgerVars, used, cache, blocked>>

\* Defect: every policy fails open.
AlwaysFailOpen(c) == "headers"

\* After any other exception from reserve: 503, or on without a reservation.
FailMode(c) == IF Session(c) \in FailOpen THEN "headers" ELSE "unavailable"

\* A duplicate request id or an unreachable store.  A RuntimeError of the store
\* itself (a failed PostgreSQL operation, an exhausted pool) is taken for an
\* exhausted budget, whatever the fail_mode.
ReserveRaises(c) ==
  /\ At(c, "reserve")
  /\ Goto(c, FailMode(c)) \/ Goto(c, "exhausted")
  /\ UNCHANGED <<ledgerVars, used, cache, blocked>>

\* The store commits, but the handler gets an exception instead of the id.
ReserveAckLost(c) ==
  /\ At(c, "reserve")
  /\ Reserve(Session(c), call[c].kind.request, c, EstimateOf(call[c].kind.out))
  /\ Goto(c, FailMode(c)) \/ Goto(c, "exhausted")
  /\ UNCHANGED <<used, cache, blocked>>

\* upstream_headers_provider, which may raise, and then the upstream call.
Headers(c) ==
  /\ At(c, "headers")
  /\ \/ call' = [call EXCEPT ![c].pc = "post", ![c].sent = TRUE] /\ ~call[c].kind.stream
     \/ Goto(c, "stream") /\ call[c].kind.stream
     \/ Goto(c, "failed")
  /\ UNCHANGED <<ledgerVars, used, cache, blocked>>

\* The upstream answers 2xx.
UpstreamAnswers(c, usage) ==
  /\ At(c, "post")
  /\ used' = [used EXCEPT ![c] = usage]
  /\ Goto(c, "charge")
  /\ UNCHANGED <<ledgerVars, cache, blocked>>

\* The upstream answers 4xx or 5xx.
UpstreamRefuses(c) ==
  /\ At(c, "post")
  /\ Goto(c, "refund")
  /\ UNCHANGED <<ledgerVars, used, cache, blocked>>

\* client.post raises (connection, timeout), or a 2xx body is not JSON.  The
\* upstream may have done the work.
PostRaises(c, usage) ==
  /\ At(c, "post")
  /\ used' = [used EXCEPT ![c] = usage]
  /\ Goto(c, "failed")
  /\ UNCHANGED <<ledgerVars, cache, blocked>>

AfterCharge(c) == IF Key(c) # NoKey THEN "store" ELSE "answered"

\* SessionManager.finalize for a call that holds a reservation; next is where
\* the handler goes on.
FinalizeCall(c, charge, next) ==
  IF call[c].tracked
  THEN Finalize(c, charge) /\ Goto(c, next)
  ELSE Goto(c, next) /\ UNCHANGED ledgerVars

\* finalize with the usage the answer reports.
Charge(c) ==
  /\ At(c, "charge")
  /\ FinalizeCall(c, Reported(c), AfterCharge(c))
  /\ UNCHANGED <<used, cache, blocked>>

\* Defect: the error response is returned without finalize.
RefundForgotten(c) ==
  /\ At(c, "refund")
  /\ Goto(c, "upstream_error")
  /\ UNCHANGED <<ledgerVars, used, cache, blocked>>

Refund(c) ==
  /\ At(c, "refund")
  /\ FinalizeCall(c, ChargeFor(0, 0), "upstream_error")
  /\ UNCHANGED <<used, cache, blocked>>

StoreResponse(c) ==
  /\ At(c, "store")
  /\ cache' = [cache EXCEPT ![CacheKey(c)] = c]
  /\ Goto(c, "answered")
  /\ UNCHANGED <<ledgerVars, used, blocked>>

\* The generator of _stream_response runs after the handler has left "async
\* with httpx.AsyncClient", so client.stream raises at once on the closed
\* client: the except branch finalizes with max(completion_tokens, 1) = 1.
StreamFails(c) ==
  /\ At(c, "stream")
  /\ FinalizeCall(c, ChargeFor(0, 1), "failed")
  /\ UNCHANGED <<used, cache, blocked>>

\* A store access raises before its commit, or the answer's body has no usage
\* that can be read (null, or no object).
StoreRaises(c) ==
  /\ call[c].pc \in {"lookup", "block_check", "charge", "refund", "store", "stream"}
  /\ Goto(c, "failed")
  /\ UNCHANGED <<ledgerVars, used, cache, blocked>>

\* A store access raises after its commit.
FinalizeAckLost(c) ==
  /\ call[c].tracked
  /\ \/ At(c, "charge") /\ FinalizeCall(c, Reported(c), "failed")
     \/ At(c, "refund") /\ FinalizeCall(c, ChargeFor(0, 0), "failed")
  /\ UNCHANGED <<used, cache, blocked>>

StoreAckLost(c) ==
  /\ At(c, "store")
  /\ cache' = [cache EXCEPT ![CacheKey(c)] = c]
  /\ Goto(c, "failed")
  /\ UNCHANGED <<ledgerVars, used, blocked>>

\* The process dies, or the task is cancelled, with the call in flight.
ProcessDies(c) ==
  /\ call[c].pc \in InFlight
  /\ Goto(c, "lost")
  /\ UNCHANGED <<ledgerVars, used, cache, blocked>>

-----------------------------------------------------------------------------
(* The rest of the system, as a call sees it.                              *)

SessionApi(s) ==
  /\ CreateSession(s) \/ CloseSession(s) \/ Expire(s)
  /\ UNCHANGED <<call, used, cache, blocked>>

\* A governor enters a stage with block_proxy_traffic and without the
\* session's identity on its allowlist.
GovernorBlocks(s) ==
  /\ s \notin blocked
  /\ blocked' = blocked \cup {s}
  /\ UNCHANGED <<ledgerVars, call, used, cache>>

GovernorUnblocks(s) ==
  /\ s \in blocked
  /\ blocked' = blocked \ {s}
  /\ call' = [c \in Calls |-> [call[c] EXCEPT !.held = @ /\ Session(c) # s]]
  /\ UNCHANGED <<ledgerVars, used, cache>>

HandlerStep(c) ==
  \/ Lookup(c) \/ BlockCheck(c)
  \/ ReserveGranted(c) \/ ReserveExhausted(c) \/ ReserveRaises(c) \/ ReserveAckLost(c)
  \/ Headers(c)
  \/ \E usage \in Usage : UpstreamAnswers(c, usage) \/ PostRaises(c, usage)
  \/ UpstreamRefuses(c)
  \/ Charge(c) \/ Refund(c) \/ StoreResponse(c) \/ StreamFails(c)
  \/ StoreRaises(c) \/ FinalizeAckLost(c) \/ StoreAckLost(c)

ProxyNext ==
  \/ \E s \in Sessions : SessionApi(s) \/ GovernorBlocks(s) \/ GovernorUnblocks(s)
  \/ \E c \in Calls :
       HandlerStep(c) \/ ProcessDies(c) \/ \E k \in Kinds : Arrive(c, k)

ProxySpec == ProxyInit /\ [][ProxyNext]_proxyVars

-----------------------------------------------------------------------------
ProxyTypeOK ==
  /\ TypeOK
  /\ call \in [Calls -> Call]
  /\ used \in [Calls -> Usage \cup {NoUsage}]
  /\ cache \in [Sessions \X Keys -> Calls \cup {0}]
  /\ blocked \in SUBSET Sessions

\* A session whose policy fails closed never has a call at the upstream that
\* its ledger does not know: the call holds a reservation of its own session,
\* whatever the store did meanwhile.
ForwardedIsCovered ==
  \A c \in Calls : call[c].sent /\ Session(c) \notin FailOpen
    => rows[c].state # "none" /\ rows[c].session = Session(c)

\* A client that resends a request under the same id, while the first is
\* still running or after it, reaches the upstream once.
ResentReachesUpstreamOnce ==
  \A c, d \in Calls :
    /\ call[c].sent /\ call[d].sent
    /\ Session(c) = Session(d) /\ Session(c) \notin FailOpen
    /\ call[c].kind.request = call[d].kind.request
    => c = d

\* The reservation of call c is settled: at what the upstream consumed if the
\* answer reports every token it consumed, and never at more.
SettledAtUsage(c) ==
  /\ rows[c].state = "final"
  /\ \A u \in Units : rows[c].charge[u] <= Consumed(c)[u]
  /\ used[c].fields = Fields => rows[c].charge = Consumed(c)

\* When the client has the upstream's answer, good or bad, its reservation is
\* settled: no answer is handed out with the budget still held, or refunded,
\* and none is charged above its usage.
AnsweredIsSettled ==
  \A c \in Calls : call[c].pc \in {"answered", "upstream_error"} /\ call[c].tracked
    => SettledAtUsage(c)

\* A response is replayed only for the session and key it was produced for,
\* and is in the table only once the call that produced it has been settled.
ReplaysAreSettled ==
  \A s \in Sessions, k \in Keys : cache[<<s, k>>] # 0 =>
    LET c == cache[<<s, k>>]
    IN  /\ Session(c) = s /\ Key(c) = k
        /\ call[c].tracked => SettledAtUsage(c)

\* A call whose key has been answered before it arrived is never forwarded,
\* even if the session has been closed or blocked in between.
AnsweredKeysReplay == \A c \in Calls : call[c].sent => ~call[c].answeredBefore

\* A call of a session that has been blocked since before the call arrived
\* is not forwarded and reserves nothing.
BlockIsHonoured ==
  \A c \in Calls : call[c].held => ~call[c].sent /\ rows[c].state = "none"

-----------------------------------------------------------------------------
(* What README.md says of the proxy, and the code does not do.             *)

\* The proxy shall "reconcile the reservation with actual usage": a call that
\* has been settled is charged what the upstream used for it.
ChargeMatchesUsage ==
  \A c \in Calls : rows[c].state = "final" => rows[c].charge = Consumed(c)

\* And is settled at all: when the handler of a call that has reached the
\* upstream has ended, in a process that is still running, the session no
\* longer carries the reservation.
EndedCallsAreReconciled ==
  \A c \in Calls : call[c].sent /\ call[c].pc \in Ended \ {"lost"} => rows[c].state # "open"

=============================================================================
