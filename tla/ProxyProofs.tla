----------------------------- MODULE ProxyProofs -----------------------------
(***************************************************************************)
(* Theorems about the request path of the proxy, for every set of calls,   *)
(* sessions, keys and policies, every cap and every price.                 *)
(*                                                                         *)
(* The ledger under the proxy keeps the invariant of SessionLedgerProofs:  *)
(* the proxy draws on it through Reserve and Finalize only.  On top of it, *)
(* ProxyInv relates the place each handler is at to what the tables hold   *)
(* for its call.  The properties need that relation at every place: that a *)
(* forwarded call is covered, say, rests on what a call that is about to   *)
(* be forwarded holds.                                                     *)
(***************************************************************************)
EXTENDS ProxyRequest, SessionLedgerProofs

\* Where a call holds nothing yet; where it is on its way to its settlement;
\* where it has been settled.
BeforeReserve == {"new", "lookup", "block_check", "reserve", "replayed", "blocked"}
Unsettled     == {"headers", "post", "charge", "refund", "stream"}
Settled       == {"store", "answered", "upstream_error"}

\* Where a call may be whose response is in the table: StoreAckLost leaves one
\* at "failed".
Stored == {"answered", "failed"}

\* The row of a call's reservation, and what the handler knows of it.
RowOfCall(c) ==
  /\ call[c].pc \in BeforeReserve => rows[c].state = "none" /\ ~call[c].tracked /\ ~call[c].sent
  /\ rows[c].state # "none" =>
       rows[c].session = Session(c) /\ rows[c].request = call[c].kind.request
  /\ call[c].tracked => rows[c].state # "none"
  /\ call[c].sent \/ call[c].pc \in Unsettled \cup Settled
       => call[c].tracked \/ Session(c) \in FailOpen
  /\ call[c].tracked /\ call[c].pc \in Unsettled => rows[c].state = "open"
  /\ call[c].tracked /\ call[c].pc \in Settled => SettledAtUsage(c)
  /\ call[c].pc \in BeforeReserve \cup {"headers", "post", "refund"} => used[c] = NoUsage

\* A call whose key had been answered finds that answer.
KeyOfCall(c) ==
  /\ call[c].pc = "store" => Key(c) # NoKey
  /\ call[c].pc = "answered" /\ Key(c) # NoKey => cache[CacheKey(c)] # 0
  /\ call[c].answeredBefore =>
       /\ Key(c) # NoKey /\ cache[CacheKey(c)] # 0
       /\ call[c].pc \in {"lookup", "replayed", "failed", "lost"} /\ ~call[c].sent

\* A call of a session that has stayed blocked gets no further than the check.
BlockOfCall(c) ==
  call[c].held =>
    /\ Session(c) \in blocked /\ ~call[c].sent /\ rows[c].state = "none"
    /\ call[c].pc \in {"lookup", "block_check", "replayed", "blocked", "failed", "lost"}

CallInv(c) == RowOfCall(c) /\ KeyOfCall(c) /\ BlockOfCall(c)

\* A stored response is that of a settled call of that session and key.
StoredFor(c, s, k) ==
  /\ call[c].pc \in Stored /\ Session(c) = s /\ Key(c) = k
  /\ call[c].tracked => SettledAtUsage(c)

CacheInv == \A s \in Sessions, k \in Keys :
  cache[<<s, k>>] # 0 => StoredFor(cache[<<s, k>>], s, k)

\* What UNIQUE (session_id, request_id) keeps.
RequestsAreUnique == UniqueRequests => \A r, t \in Reservations :
  /\ rows[r].state # "none" /\ rows[t].state # "none"
  /\ rows[r].session = rows[t].session /\ rows[r].request = rows[t].request
  => r = t

ProxyInv ==
  /\ ProxyTypeOK /\ LedgerInv
  /\ \A c \in Calls : CallInv(c)
  /\ CacheInv /\ RequestsAreUnique

-----------------------------------------------------------------------------
(* What a step of one call leaves alone.                                   *)

Places == {"new"} \cup InFlight \cup Ended

\* The step is of call c: the other calls, their rows and their usage stay,
\* and no response or block is taken back.
StepOfCall(c) ==
  /\ \A d \in Calls \ {c} : call'[d] = call[d] /\ used'[d] = used[d] /\ rows'[d] = rows[d]
  /\ \A x \in Sessions \X Keys : cache[x] # 0 => cache'[x] # 0
  /\ blocked \subseteq blocked'

\* The handler of c goes on, and is still the handler of the same request.
Moved(c, pc) ==
  /\ call'[c].pc = pc /\ call'[c].kind = call[c].kind
  /\ call'[c].held = call[c].held /\ call'[c].answeredBefore = call[c].answeredBefore
  /\ \A d \in Calls \ {c} : call'[d] = call[d]

\* A step to another place leaves everything else of the call as it was.
LEMMA GotoMoves ==
  ASSUME ProxyTypeOK, NEW c \in Calls, NEW pc \in Places, Goto(c, pc)
  PROVE  /\ call' \in [Calls -> Call]
         /\ Moved(c, pc)
         /\ call'[c].tracked = call[c].tracked /\ call'[c].sent = call[c].sent
<1>1. call \in [Calls -> Call] /\ call[c] \in Call
  BY DEF ProxyTypeOK
<1>2. call' = [call EXCEPT ![c] = [call[c] EXCEPT !.pc = pc]]
  BY DEF Goto
<1>3. [call[c] EXCEPT !.pc = pc] \in Call
  BY <1>1 DEF Call, Places
<1>4. /\ call'[c] = [call[c] EXCEPT !.pc = pc]
      /\ \A d \in Calls \ {c} : call'[d] = call[d]
      /\ call' \in [Calls -> Call]
  BY <1>1, <1>2, <1>3
<1>5. /\ call'[c].pc = pc /\ call'[c].kind = call[c].kind
      /\ call'[c].held = call[c].held /\ call'[c].answeredBefore = call[c].answeredBefore
      /\ call'[c].tracked = call[c].tracked /\ call'[c].sent = call[c].sent
  BY <1>1, <1>4 DEF Call
<1> QED BY <1>4, <1>5 DEF Moved

\* The parts of a call that the tables are looked up with.
LEMMA CallTypes ==
  ASSUME ProxyTypeOK, NEW c \in Calls
  PROVE  /\ Session(c) \in Sessions /\ call[c].kind.request \in RequestIds
         /\ Key(c) \in Keys \cup {NoKey}
         /\ EstimateOf(call[c].kind.out) \in Balance
         /\ c \in Reservations
         /\ Key(c) # NoKey => CacheKey(c) \in Sessions \X Keys
<1>1. call[c].kind \in Kind
  BY ProxyConstants DEF ProxyTypeOK, Call
<1>2. /\ Session(c) \in Sessions /\ call[c].kind.request \in RequestIds
      /\ Key(c) \in Keys \cup {NoKey} /\ call[c].kind.out \in Estimates
  BY <1>1 DEF Kind, Session, Key
<1> QED BY <1>2, AmountTypes DEF Calls, CacheKey

\* A step of one call keeps the invariant of every other.
LEMMA OtherCallsKeep ==
  ASSUME ProxyTypeOK, NEW c \in Calls, StepOfCall(c), NEW d \in Calls, d # c, CallInv(d)
  PROVE  CallInv(d)'
<1>1. call'[d] = call[d] /\ used'[d] = used[d] /\ rows'[d] = rows[d]
  BY DEF StepOfCall
<1>2. Session(d)' = Session(d) /\ Key(d)' = Key(d) /\ CacheKey(d)' = CacheKey(d)
  BY <1>1 DEF Session, Key, CacheKey
<1>3. RowOfCall(d)'
  BY <1>1, <1>2 DEF CallInv, RowOfCall, SettledAtUsage, Consumed
<1>4. Key(d) # NoKey /\ cache[CacheKey(d)] # 0 => cache'[CacheKey(d)] # 0
  BY CallTypes DEF StepOfCall
<1>5. KeyOfCall(d)'
  BY <1>1, <1>2, <1>4 DEF CallInv, KeyOfCall
<1>6. BlockOfCall(d)'
  BY <1>1, <1>2 DEF CallInv, BlockOfCall, StepOfCall
<1> QED BY <1>3, <1>5, <1>6 DEF CallInv

\* So does a step that changes nothing of any call, its own included.
LEMMA CallKeeps ==
  ASSUME ProxyTypeOK, NEW d \in Calls, CallInv(d),
         call'[d] = call[d], UNCHANGED <<used, rows, cache>>, blocked \subseteq blocked'
  PROVE  CallInv(d)'
<1>1. Session(d)' = Session(d) /\ Key(d)' = Key(d) /\ CacheKey(d)' = CacheKey(d)
  BY DEF Session, Key, CacheKey
<1> QED BY <1>1 DEF CallInv, RowOfCall, KeyOfCall, BlockOfCall, SettledAtUsage, Consumed

\* The response table stays right in a step of a call that is not in it.
LEMMA CacheKeeps ==
  ASSUME ProxyTypeOK, CacheInv, UNCHANGED cache, NEW c \in Calls, call[c].pc \notin Stored,
         StepOfCall(c)
  PROVE  CacheInv'
<1>1. ASSUME NEW s \in Sessions, NEW k \in Keys, cache'[<<s, k>>] # 0
      PROVE  StoredFor(cache[<<s, k>>], s, k)'
  <2>1. PICK d \in Calls : d = cache[<<s, k>>] /\ StoredFor(d, s, k)
    BY <1>1 DEF ProxyTypeOK, CacheInv
  <2>2. d # c
    BY <2>1 DEF StoredFor
  <2>3. call'[d] = call[d] /\ used'[d] = used[d] /\ rows'[d] = rows[d]
    BY <2>1, <2>2 DEF StepOfCall
  <2> QED BY <2>1, <2>3 DEF StoredFor, Session, Key, SettledAtUsage, Consumed
<1> QED BY <1>1 DEF CacheInv

\* So does a step of no call, which may only end the blocks some are held by.
LEMMA CacheUntouched ==
  ASSUME ProxyTypeOK, CacheInv, UNCHANGED <<cache, used, rows>>,
         \A d \in Calls : /\ call'[d].pc = call[d].pc /\ call'[d].kind = call[d].kind
                         /\ call'[d].tracked = call[d].tracked
  PROVE  CacheInv'
<1>1. ASSUME NEW s \in Sessions, NEW k \in Keys, cache'[<<s, k>>] # 0
      PROVE  StoredFor(cache[<<s, k>>], s, k)'
  <2>1. cache[<<s, k>>] \in Calls /\ StoredFor(cache[<<s, k>>], s, k)
    BY <1>1 DEF ProxyTypeOK, CacheInv
  <2> QED BY <2>1 DEF StoredFor, Session, Key, SettledAtUsage, Consumed
<1> QED BY <1>1 DEF CacheInv

\* Requests stay unique when no row is added.
LEMMA UniqueKeeps ==
  ASSUME RequestsAreUnique,
         \A r \in Reservations : rows'[r].state # "none" =>
           /\ rows[r].state # "none"
           /\ rows'[r].session = rows[r].session /\ rows'[r].request = rows[r].request
  PROVE  RequestsAreUnique'
  BY DEF RequestsAreUnique

\* What is left to show for a step of one call that stores no response.
LEMMA StepKeeps ==
  ASSUME ProxyInv, NEW c \in Calls, call[c].pc \notin Stored, StepOfCall(c), UNCHANGED cache,
         ProxyTypeOK', LedgerInv', CallInv(c)', RequestsAreUnique'
  PROVE  ProxyInv'
<1>1. \A d \in Calls : CallInv(d)'
  BY OtherCallsKeep DEF ProxyInv
<1>2. CacheInv'
  BY CacheKeeps DEF ProxyInv
<1> QED BY <1>1, <1>2 DEF ProxyInv

\* What is left for a step that moves a handler and writes nothing.
LEMMA MoveKeeps ==
  ASSUME ProxyInv, NEW c \in Calls, call[c].pc \notin Stored, NEW pc \in Places, Goto(c, pc),
         UNCHANGED <<ledgerVars, used, cache, blocked>>, CallInv(c)'
  PROVE  ProxyInv'
<1>1. call' \in [Calls -> Call] /\ Moved(c, pc)
  BY GotoMoves DEF ProxyInv
<1>2. StepOfCall(c)
  BY <1>1 DEF StepOfCall, Moved, ledgerVars
<1>3. ProxyTypeOK'
  BY <1>1 DEF ProxyInv, ProxyTypeOK, TypeOK, ledgerVars, NaturalHolds
<1>4. LedgerInv'
  BY <1>3, QuietStep DEF ProxyInv, ProxyTypeOK, ledgerVars
<1>5. RequestsAreUnique'
  BY UniqueKeeps DEF ProxyInv, ledgerVars
<1> QED BY <1>2, <1>3, <1>4, <1>5, StepKeeps

-----------------------------------------------------------------------------
(* The handler, step by step.                                              *)

\* What is known of a call whose handler goes on.
LEMMA MoveFacts ==
  ASSUME ProxyInv, NEW c \in Calls, NEW pc \in Places, Goto(c, pc)
  PROVE  /\ call'[c].pc = pc /\ call'[c].kind = call[c].kind
         /\ call'[c].held = call[c].held /\ call'[c].answeredBefore = call[c].answeredBefore
         /\ call'[c].tracked = call[c].tracked /\ call'[c].sent = call[c].sent
         /\ Session(c)' = Session(c) /\ Key(c)' = Key(c) /\ CacheKey(c)' = CacheKey(c)
         /\ RowOfCall(c) /\ KeyOfCall(c) /\ BlockOfCall(c)
<1>1. /\ call'[c].pc = pc /\ call'[c].kind = call[c].kind
      /\ call'[c].held = call[c].held /\ call'[c].answeredBefore = call[c].answeredBefore
      /\ call'[c].tracked = call[c].tracked /\ call'[c].sent = call[c].sent
  BY GotoMoves DEF ProxyInv, Moved
<1> QED BY <1>1 DEF ProxyInv, CallInv, Session, Key, CacheKey

\* The call gives up, at a place where it has not been settled or after it.
LEMMA GiveUpStep ==
  ASSUME ProxyInv, NEW c \in Calls, NEW pc \in {"failed", "lost"}, call[c].pc \in InFlight,
         Goto(c, pc), UNCHANGED <<ledgerVars, used, cache, blocked>>
  PROVE  ProxyInv'
<1>1. pc \in Places /\ call[c].pc \notin Stored
  BY DEF Places, Ended, InFlight, Stored
<1>2. CallInv(c)'
  BY <1>1, MoveFacts DEF ledgerVars, CallInv, RowOfCall, KeyOfCall, BlockOfCall,
                         BeforeReserve, Unsettled, Settled, InFlight
<1> QED BY <1>1, <1>2, MoveKeeps

\* The lookup replays what has been answered, so a call whose key had been
\* answered goes no further.
LEMMA LookupStep ==
  ASSUME ProxyInv, NEW c \in Calls, Lookup(c)
  PROVE  ProxyInv'
<1> DEFINE hit == Key(c) # NoKey /\ cache[CacheKey(c)] # 0
           pc  == IF hit THEN "replayed" ELSE "block_check"
<1>1. call[c].pc = "lookup" /\ Goto(c, pc) /\ UNCHANGED <<ledgerVars, used, cache, blocked>>
  BY DEF Lookup, At
<1>2. pc \in Places /\ call[c].pc \notin Stored
  BY <1>1 DEF Places, Ended, InFlight, Refused, Stored
<1>3. CallInv(c)'
  BY <1>1, <1>2, MoveFacts DEF ledgerVars, CallInv, RowOfCall, KeyOfCall, BlockOfCall,
                               BeforeReserve, Unsettled, Settled
<1> QED BY <1>1, <1>2, <1>3, MoveKeeps

\* The block is looked up before anything is reserved.
LEMMA BlockCheckStep ==
  ASSUME ProxyInv, NEW c \in Calls, BlockCheck(c)
  PROVE  ProxyInv'
<1> DEFINE pc == IF Session(c) \in blocked THEN "blocked" ELSE "reserve"
<1>1. call[c].pc = "block_check" /\ Goto(c, pc) /\ UNCHANGED <<ledgerVars, used, cache, blocked>>
  BY DEF BlockCheck, At
<1>2. pc \in Places /\ call[c].pc \notin Stored
  BY <1>1 DEF Places, Ended, InFlight, Refused, Stored
<1>3. CallInv(c)'
  BY <1>1, <1>2, MoveFacts DEF ledgerVars, CallInv, RowOfCall, KeyOfCall, BlockOfCall,
                               BeforeReserve, Unsettled, Settled
<1> QED BY <1>1, <1>2, <1>3, MoveKeeps

\* A refusal by the ledger, or an exception, which lets only the calls of a
\* session that fails open go on.
LEMMA ReserveFailsStep ==
  ASSUME ProxyInv, NEW c \in Calls, ReserveExhausted(c) \/ ReserveRaises(c)
  PROVE  ProxyInv'
<1>1. PICK pc \in {"exhausted", "unavailable", "headers"} :
        /\ call[c].pc = "reserve" /\ Goto(c, pc) /\ UNCHANGED <<ledgerVars, used, cache, blocked>>
        /\ pc = "headers" => Session(c) \in FailOpen
  BY DEF ReserveExhausted, ReserveRaises, FailMode, At
<1>2. pc \in Places /\ call[c].pc \notin Stored
  BY <1>1 DEF Places, Ended, InFlight, Refused, Stored
<1>3. CallInv(c)'
  BY <1>1, <1>2, MoveFacts DEF ledgerVars, CallInv, RowOfCall, KeyOfCall, BlockOfCall,
                               BeforeReserve, Unsettled, Settled
<1> QED BY <1>1, <1>2, <1>3, MoveKeeps

\* An error status changes nothing yet.
LEMMA UpstreamRefusesStep ==
  ASSUME ProxyInv, NEW c \in Calls, UpstreamRefuses(c)
  PROVE  ProxyInv'
<1>1. call[c].pc = "post" /\ Goto(c, "refund") /\ UNCHANGED <<ledgerVars, used, cache, blocked>>
  BY DEF UpstreamRefuses, At
<1>2. "refund" \in Places /\ call[c].pc \notin Stored
  BY <1>1 DEF Places, InFlight, Stored
<1>3. CallInv(c)'
  BY <1>1, <1>2, MoveFacts DEF ledgerVars, CallInv, RowOfCall, KeyOfCall, BlockOfCall,
                               BeforeReserve, Unsettled, Settled
<1> QED BY <1>1, <1>2, <1>3, MoveKeeps

\* A call is sent only from where it is covered.
LEMMA HeadersStep ==
  ASSUME ProxyInv, NEW c \in Calls, Headers(c)
  PROVE  ProxyInv'
<1>1. call[c].pc = "headers" /\ UNCHANGED <<ledgerVars, used, cache, blocked>>
  BY DEF Headers, At
<1>2. "stream" \in Places /\ "failed" \in Places /\ call[c].pc \notin Stored
  BY <1>1 DEF Places, InFlight, Ended, Stored
<1>3. CASE Goto(c, "stream")
  <2>1. CallInv(c)'
    BY <1>1, <1>2, <1>3, MoveFacts
       DEF ledgerVars, CallInv, RowOfCall, KeyOfCall, BlockOfCall,
           BeforeReserve, Unsettled, Settled
  <2> QED BY <1>1, <1>2, <1>3, <2>1, MoveKeeps
<1>4. CASE Goto(c, "failed")
  <2>1. call[c].pc \in InFlight
    BY <1>1 DEF InFlight
  <2> QED BY <1>1, <1>4, <2>1, GiveUpStep
<1>5. CASE call' = [call EXCEPT ![c].pc = "post", ![c].sent = TRUE]
  <2> DEFINE new == [call[c] EXCEPT !.pc = "post", !.sent = TRUE]
  <2>1. call \in [Calls -> Call] /\ call[c] \in Call /\ CallInv(c)
    BY DEF ProxyInv, ProxyTypeOK
  <2>2. call' = [call EXCEPT ![c] = new] /\ new \in Call
    BY <1>5, <2>1 DEF Call, InFlight
  <2>3. /\ call' \in [Calls -> Call] /\ call'[c] = new
        /\ \A d \in Calls \ {c} : call'[d] = call[d]
    BY <2>1, <2>2
  <2>4. /\ new.pc = "post" /\ new.sent /\ new.kind = call[c].kind /\ new.held = call[c].held
        /\ new.answeredBefore = call[c].answeredBefore /\ new.tracked = call[c].tracked
    BY <2>1 DEF Call
  <2>5. ProxyTypeOK'
    BY <1>1, <2>3 DEF ProxyInv, ProxyTypeOK, TypeOK, ledgerVars, NaturalHolds
  <2>6. LedgerInv' /\ RequestsAreUnique'
    BY <1>1, <2>5, QuietStep, UniqueKeeps DEF ProxyInv, ProxyTypeOK, ledgerVars
  <2>7. StepOfCall(c)
    BY <1>1, <2>3 DEF StepOfCall, ledgerVars
  <2> HIDE DEF new
  <2>8. CallInv(c)'
    BY <1>1, <2>1, <2>3, <2>4
       DEF CallInv, RowOfCall, KeyOfCall, BlockOfCall, Session, Key, CacheKey,
           BeforeReserve, Unsettled, Settled, ledgerVars
  <2> QED BY <1>1, <1>2, <2>5, <2>6, <2>7, <2>8, StepKeeps
<1> QED BY <1>3, <1>4, <1>5 DEF Headers

\* What the upstream used is known before anything is settled with it.
LEMMA UpstreamWorksStep ==
  ASSUME ProxyInv, NEW c \in Calls, NEW usage \in Usage,
         UpstreamAnswers(c, usage) \/ PostRaises(c, usage)
  PROVE  ProxyInv'
<1>1. PICK pc \in {"charge", "failed"} : Goto(c, pc)
  BY DEF UpstreamAnswers, PostRaises
<1>2. /\ call[c].pc = "post" /\ used' = [used EXCEPT ![c] = usage]
      /\ UNCHANGED <<ledgerVars, cache, blocked>>
  BY DEF UpstreamAnswers, PostRaises, At
<1>3. pc \in Places /\ call[c].pc \notin Stored
  BY <1>2 DEF Places, InFlight, Ended, Stored
<1>4. call' \in [Calls -> Call] /\ Moved(c, pc)
  BY <1>1, <1>3, GotoMoves DEF ProxyInv
<1>5. ProxyTypeOK'
  BY <1>2, <1>3, <1>4 DEF ProxyInv, ProxyTypeOK, TypeOK, ledgerVars, NaturalHolds
<1>6. LedgerInv' /\ RequestsAreUnique'
  BY <1>2, <1>5, QuietStep, UniqueKeeps DEF ProxyInv, ProxyTypeOK, ledgerVars
<1>7. StepOfCall(c)
  BY <1>2, <1>4 DEF StepOfCall, Moved, ProxyInv, ProxyTypeOK, ledgerVars
<1>8. CallInv(c)'
  BY <1>1, <1>2, <1>3, MoveFacts
     DEF ledgerVars, CallInv, RowOfCall, KeyOfCall, BlockOfCall,
         BeforeReserve, Unsettled, Settled
<1> QED BY <1>2, <1>3, <1>5, <1>6, <1>7, <1>8, StepKeeps

-----------------------------------------------------------------------------
(* The steps that write to the ledger.                                     *)

\* Admission by reserve: the new row is the call's, and the only one of its
\* session and request.
LEMMA ReserveOfCall ==
  ASSUME ProxyInv, NEW c \in Calls, call[c].pc = "reserve",
         Reserve(Session(c), call[c].kind.request, c, EstimateOf(call[c].kind.out))
  PROVE  /\ TypeOK' /\ LedgerInv' /\ RequestsAreUnique'
         /\ \A d \in Calls \ {c} : rows'[d] = rows[d]
         /\ rows'[c].state = "open" /\ rows'[c].session = Session(c)
         /\ rows'[c].request = call[c].kind.request
<1> DEFINE s == Session(c)
           q == call[c].kind.request
           amount == EstimateOf(call[c].kind.out)
<1>1. ProxyTypeOK /\ TypeOK /\ LedgerInv /\ c \in Reservations
  BY CallTypes DEF ProxyInv, LedgerInv
<1>2. s \in Sessions /\ q \in RequestIds /\ amount \in Balance
  BY <1>1, CallTypes
<1> HIDE DEF s, q, amount
<1>3. Reserve(s, q, c, amount)
  BY DEF s, q, amount
<1>4. TypeOK'
  BY <1>1, <1>2, <1>3, ReserveAdmits, AdmissionTypes
<1>5. LedgerInv'
  BY <1>1, <1>2, <1>3, <1>4, ReserveAdmits, AdmissionStep
<1>6. /\ \A d \in Calls \ {c} : rows'[d] = rows[d]
      /\ rows'[c].state = "open" /\ rows'[c].session = s /\ rows'[c].request = q
  BY <1>1, <1>3 DEF Reserve, Admit, TypeOK, Calls
<1>7. RequestsAreUnique'
  <2>1. UniqueRequests => \A r \in Reservations :
          rows[r].state # "none" => ~ (rows[r].session = s /\ rows[r].request = q)
    BY <1>3 DEF Reserve, DuplicateRequest
  <2> QED BY <1>6, <2>1 DEF RequestsAreUnique, ProxyInv, Calls
<1> QED BY <1>4, <1>5, <1>6, <1>7 DEF s, q

\* The granted call holds its reservation.
LEMMA ReserveGrantedStep ==
  ASSUME ProxyInv, NEW c \in Calls, ReserveGranted(c)
  PROVE  ProxyInv'
<1>1. /\ call[c].pc = "reserve" /\ UNCHANGED <<used, cache, blocked>>
      /\ Reserve(Session(c), call[c].kind.request, c, EstimateOf(call[c].kind.out))
      /\ call' = [call EXCEPT ![c].pc = "headers", ![c].tracked = TRUE]
  BY DEF ReserveGranted, At
<1> DEFINE new == [call[c] EXCEPT !.pc = "headers", !.tracked = TRUE]
<1>2. call \in [Calls -> Call] /\ call[c] \in Call /\ CallInv(c)
  BY DEF ProxyInv, ProxyTypeOK
<1>3. call' = [call EXCEPT ![c] = new] /\ new \in Call
  BY <1>1, <1>2 DEF Call, InFlight
<1>4. /\ call' \in [Calls -> Call] /\ call'[c] = new
      /\ \A d \in Calls \ {c} : call'[d] = call[d]
  BY <1>2, <1>3
<1>5. /\ new.pc = "headers" /\ new.tracked /\ new.kind = call[c].kind /\ new.held = call[c].held
      /\ new.answeredBefore = call[c].answeredBefore /\ new.sent = call[c].sent
  BY <1>2 DEF Call
<1>6. /\ TypeOK' /\ LedgerInv' /\ RequestsAreUnique'
      /\ \A d \in Calls \ {c} : rows'[d] = rows[d]
      /\ rows'[c].state = "open" /\ rows'[c].session = Session(c)
      /\ rows'[c].request = call[c].kind.request
  BY <1>1, ReserveOfCall
<1>7. ProxyTypeOK'
  BY <1>1, <1>4, <1>6 DEF ProxyInv, ProxyTypeOK
<1>8. StepOfCall(c)
  BY <1>1, <1>4, <1>6 DEF StepOfCall
<1> HIDE DEF new
<1>9. CallInv(c)'
  BY <1>1, <1>2, <1>4, <1>5, <1>6
     DEF CallInv, RowOfCall, KeyOfCall, BlockOfCall, Session, Key, CacheKey,
         BeforeReserve, Unsettled, Settled
<1> QED BY <1>1, <1>6, <1>7, <1>8, <1>9, StepKeeps DEF Stored

\* The reservation is made but the handler does not know: the call goes on
\* only where the session fails open.
LEMMA ReserveAckLostStep ==
  ASSUME ProxyInv, NEW c \in Calls, ReserveAckLost(c)
  PROVE  ProxyInv'
<1>1. PICK pc \in {"unavailable", "headers", "exhausted"} :
        Goto(c, pc) /\ (pc = "headers" => Session(c) \in FailOpen)
  BY DEF ReserveAckLost, FailMode
<1>2. /\ call[c].pc = "reserve" /\ UNCHANGED <<used, cache, blocked>>
      /\ Reserve(Session(c), call[c].kind.request, c, EstimateOf(call[c].kind.out))
  BY DEF ReserveAckLost, At
<1>3. pc \in Places /\ call[c].pc \notin Stored
  BY <1>2 DEF Places, InFlight, Ended, Refused, Stored
<1>4. call' \in [Calls -> Call] /\ Moved(c, pc)
  BY <1>1, <1>3, GotoMoves DEF ProxyInv
<1>5. /\ TypeOK' /\ LedgerInv' /\ RequestsAreUnique'
      /\ \A d \in Calls \ {c} : rows'[d] = rows[d]
      /\ rows'[c].state = "open" /\ rows'[c].session = Session(c)
      /\ rows'[c].request = call[c].kind.request
  BY <1>2, ReserveOfCall
<1>6. ProxyTypeOK'
  BY <1>2, <1>4, <1>5 DEF ProxyInv, ProxyTypeOK
<1>7. StepOfCall(c)
  BY <1>2, <1>4, <1>5 DEF StepOfCall, Moved
<1>8. CallInv(c)'
  BY <1>1, <1>2, <1>3, <1>5, MoveFacts
     DEF CallInv, RowOfCall, KeyOfCall, BlockOfCall, BeforeReserve, Unsettled, Settled
<1> QED BY <1>3, <1>2, <1>5, <1>6, <1>7, <1>8, StepKeeps

\* Settlement of a call that is on its way to it: the row of a tracked call is
\* open, so finalize is not the repeated one that changes nothing.
LEMMA FinalizeOfCall ==
  ASSUME ProxyInv, NEW c \in Calls, call[c].pc \in Unsettled, NEW charge \in Amount,
         NEW pc \in Places, FinalizeCall(c, charge, pc), UNCHANGED <<used, cache, blocked>>
  PROVE  /\ Goto(c, pc) /\ StepOfCall(c)
         /\ ProxyTypeOK' /\ LedgerInv' /\ RequestsAreUnique'
         /\ rows'[c].session = rows[c].session /\ rows'[c].request = rows[c].request
         /\ IF call[c].tracked THEN rows'[c].state = "final" /\ rows'[c].charge = charge
                               ELSE rows' = rows
<1>1. ProxyTypeOK /\ TypeOK /\ LedgerInv /\ c \in Reservations /\ rows[c] \in Row
  BY CallTypes DEF ProxyInv, LedgerInv, TypeOK
<1>2. Goto(c, pc)
  BY DEF FinalizeCall
<1>3. call' \in [Calls -> Call] /\ Moved(c, pc)
  BY <1>1, <1>2, GotoMoves
<1>4. CASE call[c].tracked
  <2>1. Finalize(c, charge)
    BY <1>4 DEF FinalizeCall
  <2>2. TypeOK'
    BY <1>1, <2>1, FinalizeTypes
  <2>3. LedgerInv'
    BY <1>1, <2>1, <2>2, FinalizeStep
  <2>4. /\ \A d \in Calls \ {c} : rows'[d] = rows[d]
        /\ rows'[c].state = "final" /\ rows'[c].charge = charge
        /\ rows'[c].session = rows[c].session /\ rows'[c].request = rows[c].request
        /\ rows[c].state = "open"
    BY <1>1, <2>1 DEF Finalize, Settle, TypeOK, Row, Calls
  <2>5. RequestsAreUnique'
    BY <2>4, UniqueKeeps DEF ProxyInv, Calls
  <2>6. ProxyTypeOK'
    BY <1>1, <1>3, <2>2 DEF ProxyTypeOK
  <2>7. StepOfCall(c)
    BY <1>3, <2>4 DEF StepOfCall, Moved
  <2> QED BY <1>2, <1>4, <2>3, <2>4, <2>5, <2>6, <2>7
<1>5. CASE ~call[c].tracked
  <2>1. UNCHANGED ledgerVars
    BY <1>5 DEF FinalizeCall
  <2>2. ProxyTypeOK'
    BY <1>1, <1>3, <2>1 DEF ProxyTypeOK, TypeOK, ledgerVars, NaturalHolds
  <2>3. LedgerInv' /\ RequestsAreUnique'
    BY <2>1, <2>2, QuietStep, UniqueKeeps DEF ProxyInv, ProxyTypeOK, ledgerVars
  <2>4. StepOfCall(c)
    BY <1>3, <2>1 DEF StepOfCall, Moved, ledgerVars
  <2> QED BY <1>2, <1>5, <2>1, <2>2, <2>3, <2>4 DEF ledgerVars
<1> QED BY <1>4, <1>5

\* The charge is at most the usage, and the usage where it is fully reported.
ChargedWithin(c, charge) ==
  /\ \A u \in Units : charge[u] <= Consumed(c)[u]
  /\ used[c].fields = Fields => charge = Consumed(c)

\* The invariant's part of the same: right for a call that gives up after it,
\* and for one that goes on when it has been charged within its usage.
LEMMA FinalizeCallStep ==
  ASSUME ProxyInv, NEW c \in Calls, call[c].pc \in Unsettled, NEW charge \in Amount,
         NEW pc \in {"failed", "store", "answered", "upstream_error"},
         pc # "failed" => ChargedWithin(c, charge),
         pc = "store" => Key(c) # NoKey,
         pc = "answered" => Key(c) = NoKey,
         FinalizeCall(c, charge, pc), UNCHANGED <<used, cache, blocked>>
  PROVE  ProxyInv'
<1>1. pc \in Places /\ call[c].pc \notin Stored
  BY DEF Places, InFlight, Ended, Unsettled, Stored
<1>2. /\ Goto(c, pc) /\ StepOfCall(c)
      /\ ProxyTypeOK' /\ LedgerInv' /\ RequestsAreUnique'
      /\ rows'[c].session = rows[c].session /\ rows'[c].request = rows[c].request
      /\ IF call[c].tracked THEN rows'[c].state = "final" /\ rows'[c].charge = charge
                            ELSE rows' = rows
  BY <1>1, FinalizeOfCall
<1>3. pc # "failed" /\ call'[c].tracked => SettledAtUsage(c)'
  BY <1>1, <1>2, MoveFacts DEF ChargedWithin, SettledAtUsage, Consumed
<1>4. CallInv(c)'
  BY <1>1, <1>2, <1>3, MoveFacts
     DEF CallInv, RowOfCall, KeyOfCall, BlockOfCall, BeforeReserve, Unsettled, Settled
<1> QED BY <1>1, <1>2, <1>4, StepKeeps

\* What is charged when usage is reported, and what when it is not.
LEMMA UsageTypes ==
  ASSUME ProxyTypeOK, NEW c \in Calls
  PROVE  /\ Reported(c) \in Amount /\ ChargedWithin(c, Reported(c))
         /\ used[c] = NoUsage => ChargedWithin(c, ChargeFor(0, 0))
         /\ ChargeFor(0, 0) \in Amount /\ ChargeFor(0, 1) \in Amount
<1> DEFINE in    == used[c].in
           out   == used[c].out
           inR   == IF "prompt_tokens" \in used[c].fields THEN in ELSE 0
           outR  == IF "completion_tokens" \in used[c].fields THEN out ELSE 0
<1>1. in \in Nat /\ out \in Nat /\ InputPrice \in Nat /\ OutputPrice \in Nat
  <2>1. used[c] \in Usage \/ used[c] = NoUsage
    BY DEF ProxyTypeOK
  <2>2. CASE used[c] \in Usage
    BY <2>2, LedgerConstants DEF Usage
  <2>3. CASE used[c] = NoUsage
    BY <2>3, LedgerConstants DEF NoUsage
  <2> QED BY <2>1, <2>2, <2>3
<1>2. /\ inR \in Nat /\ outR \in Nat /\ inR \in {0, in} /\ outR \in {0, out}
      /\ used[c].fields = Fields => inR = in /\ outR = out
  BY <1>1 DEF Fields
<1>3. Consumed(c) = ChargeFor(in, out) /\ Reported(c) = ChargeFor(inR, outR)
  BY DEF Consumed, Reported
<1>4. used[c] = NoUsage => in = 0 /\ out = 0 /\ used[c].fields # Fields
  BY DEF NoUsage, Fields
<1> HIDE DEF in, out, inR, outR
<1>5. ASSUME NEW x \in Nat, NEW y \in Nat PROVE ChargeFor(x, y) \in Amount
  <2>1. x * InputPrice \in Nat /\ y * OutputPrice \in Nat
    BY <1>1
  <2> QED BY <2>1 DEF ChargeFor, Amount
<1>6. /\ in * InputPrice \in Nat /\ out * OutputPrice \in Nat
      /\ 0 * InputPrice = 0 /\ 0 * OutputPrice = 0
  BY <1>1
<1>7. \A u \in Units : Reported(c)[u] <= Consumed(c)[u]
  <2>1. inR * InputPrice \in {0, in * InputPrice} /\ outR * OutputPrice \in {0, out * OutputPrice}
    BY <1>2, <1>6
  <2>2. \A a, b, x, y \in Nat : x \in {0, a} /\ y \in {0, b} => x + y <= a + b
    OBVIOUS
  <2>3. /\ inR * InputPrice + outR * OutputPrice <= in * InputPrice + out * OutputPrice
        /\ inR + outR <= in + out
    BY ONLY <1>1, <1>2, <1>6, <2>1, <2>2
  <2> QED BY <1>3, <2>3 DEF ChargeFor, Units
<1>8. used[c].fields = Fields => Reported(c) = Consumed(c)
  BY <1>2, <1>3
<1>9. used[c] = NoUsage => Consumed(c) = ChargeFor(0, 0)
  BY <1>3, <1>4
<1>10. \A u \in Units : ChargeFor(0, 0)[u] <= ChargeFor(0, 0)[u]
  <2>1. ChargeFor(0, 0) \in [Units -> Nat]
    BY <1>5 DEF Amount
  <2> QED BY <2>1
<1> QED BY <1>2, <1>3, <1>4, <1>5, <1>7, <1>8, <1>9, <1>10 DEF ChargedWithin

\* The actions that finalize, each with what it charges and where it goes on.
LEMMA SettleStep ==
  ASSUME ProxyInv, NEW c \in Calls,
         Charge(c) \/ Refund(c) \/ StreamFails(c) \/ FinalizeAckLost(c)
  PROVE  ProxyInv'
<1>1. /\ Reported(c) \in Amount /\ ChargedWithin(c, Reported(c))
      /\ used[c] = NoUsage => ChargedWithin(c, ChargeFor(0, 0))
      /\ ChargeFor(0, 0) \in Amount /\ ChargeFor(0, 1) \in Amount
  BY UsageTypes DEF ProxyInv
<1>2. call[c].pc = "refund" => ChargedWithin(c, ChargeFor(0, 0))
  BY <1>1 DEF ProxyInv, CallInv, RowOfCall
<1> USE DEF At, Unsettled
<1>3. CASE Charge(c)
  <2>1. AfterCharge(c) \in {"store", "answered"}
    BY DEF AfterCharge
  <2>2. /\ AfterCharge(c) = "store" => Key(c) # NoKey
        /\ AfterCharge(c) = "answered" => Key(c) = NoKey
    BY DEF AfterCharge
  <2> QED BY <1>1, <1>3, <2>1, <2>2, FinalizeCallStep DEF Charge
<1>4. CASE Refund(c)
  BY <1>1, <1>2, <1>4, FinalizeCallStep DEF Refund
<1>5. CASE StreamFails(c)
  BY <1>1, <1>5, FinalizeCallStep DEF StreamFails
<1>6. CASE FinalizeAckLost(c)
  BY <1>1, <1>2, <1>6, FinalizeCallStep DEF FinalizeAckLost
<1> QED BY <1>3, <1>4, <1>5, <1>6

-----------------------------------------------------------------------------
\* The response is stored for the call's own session and key, whether or not
\* the handler hears of it.
LEMMA StoreStep ==
  ASSUME ProxyInv, NEW c \in Calls, StoreResponse(c) \/ StoreAckLost(c)
  PROVE  ProxyInv'
<1>1. PICK pc \in Stored :
        /\ call[c].pc = "store" /\ Goto(c, pc) /\ UNCHANGED <<ledgerVars, used, blocked>>
        /\ cache' = [cache EXCEPT ![CacheKey(c)] = c]
  BY DEF StoreResponse, StoreAckLost, At, Stored
<1>2. pc \in Places
  BY DEF Places, Ended, Stored
<1>3. ProxyTypeOK /\ call' \in [Calls -> Call] /\ Moved(c, pc)
  BY <1>1, <1>2, GotoMoves DEF ProxyInv
<1>4. Key(c) # NoKey /\ CacheKey(c) \in Sessions \X Keys
  BY <1>1, <1>2, <1>3, MoveFacts, CallTypes DEF KeyOfCall
<1>5. /\ cache' \in [Sessions \X Keys -> Calls \cup {0}]
      /\ cache'[CacheKey(c)] = c
      /\ \A x \in Sessions \X Keys : x # CacheKey(c) => cache'[x] = cache[x]
  BY <1>1, <1>3, <1>4 DEF ProxyTypeOK
<1>6. c # 0
  BY DEF Calls, Reservations
<1>7. ProxyTypeOK'
  BY <1>1, <1>3, <1>5 DEF ProxyTypeOK, TypeOK, ledgerVars, NaturalHolds
<1>8. LedgerInv' /\ RequestsAreUnique'
  BY <1>1, <1>7, QuietStep, UniqueKeeps DEF ProxyInv, ProxyTypeOK, ledgerVars
<1>9. StepOfCall(c)
  BY <1>1, <1>3, <1>5, <1>6 DEF StepOfCall, Moved, ledgerVars
<1>10. call[c].tracked => SettledAtUsage(c)
  BY <1>1, <1>2, MoveFacts DEF RowOfCall, Settled
<1>11. CallInv(c)'
  <2>1. call[c].tracked => SettledAtUsage(c)'
    BY <1>1, <1>10 DEF SettledAtUsage, Consumed, ledgerVars
  <2> QED BY <1>1, <1>2, <1>5, <1>6, <2>1, MoveFacts
          DEF ledgerVars, CallInv, RowOfCall, KeyOfCall, BlockOfCall,
              BeforeReserve, Unsettled, Settled, Stored
<1>12. ASSUME NEW s \in Sessions, NEW k \in Keys, cache'[<<s, k>>] # 0
       PROVE  StoredFor(cache[<<s, k>>], s, k)'
  <2>1. CASE <<s, k>> = CacheKey(c)
    <3>1. c = cache'[<<s, k>>] /\ s = Session(c) /\ k = Key(c)
      BY <1>5, <2>1 DEF CacheKey
    <3>2. /\ call'[c].pc \in Stored /\ call'[c].kind = call[c].kind
          /\ call'[c].tracked = call[c].tracked
      BY <1>1, <1>2, MoveFacts
    <3> QED BY <1>1, <1>10, <3>1, <3>2
            DEF StoredFor, Session, Key, SettledAtUsage, Consumed, ledgerVars
  <2>2. CASE <<s, k>> # CacheKey(c)
    <3>1. PICK d \in Calls : d = cache'[<<s, k>>] /\ d = cache[<<s, k>>] /\ StoredFor(d, s, k)
      BY <1>3, <1>5, <1>12, <2>2 DEF ProxyTypeOK, ProxyInv, CacheInv
    <3>2. d # c
      BY <1>1, <3>1 DEF StoredFor, Stored
    <3>3. call'[d] = call[d] /\ used'[d] = used[d] /\ rows'[d] = rows[d]
      BY <1>9, <3>1, <3>2 DEF StepOfCall
    <3> QED BY <3>1, <3>3 DEF StoredFor, Session, Key, SettledAtUsage, Consumed
  <2> QED BY <2>1, <2>2
<1>13. CacheInv'
  BY <1>12 DEF CacheInv
<1>14. \A d \in Calls : CallInv(d)'
  BY <1>3, <1>9, <1>11, OtherCallsKeep DEF ProxyInv
<1> QED BY <1>7, <1>8, <1>13, <1>14 DEF ProxyInv

\* A call that arrives holds nothing; if its key had been answered, the answer
\* is in the table.
LEMMA ArriveStep ==
  ASSUME ProxyInv, NEW c \in Calls, NEW k \in Kinds, Arrive(c, k)
  PROVE  ProxyInv'
<1> DEFINE heldNow == k.session \in blocked
           before  == AnsweredBefore(k)
           new     == [NewCall EXCEPT !.pc = "lookup", !.kind = k,
                         !.held = heldNow, !.answeredBefore = before]
<1>1. /\ call[c].pc = "new" /\ call' = [call EXCEPT ![c] = new]
      /\ UNCHANGED <<ledgerVars, used, cache, blocked>>
  BY DEF Arrive, At
<1>2. /\ ProxyTypeOK /\ call \in [Calls -> Call] /\ k \in Kind
      /\ rows[c].state = "none" /\ used[c] = NoUsage
  BY <1>1, ProxyConstants DEF ProxyInv, ProxyTypeOK, CallInv, RowOfCall, BeforeReserve
<1>3. before \in BOOLEAN /\ heldNow \in BOOLEAN
  BY DEF AnsweredBefore
<1>4. before => k.key # NoKey /\ cache[<<k.session, k.key>>] # 0
  <2> SUFFICES ASSUME NEW d \in Calls, call[d].pc = "answered", k.key # NoKey,
                      Session(d) = k.session, Key(d) = k.key
               PROVE  cache[<<k.session, k.key>>] # 0
    BY DEF AnsweredBefore, At
  <2> QED BY DEF ProxyInv, CallInv, KeyOfCall, CacheKey
<1> HIDE DEF heldNow, before
<1>5. NewCall \in Call /\ NewCall.tracked = FALSE /\ NewCall.sent = FALSE
  <2>1. (CHOOSE kind \in Kinds : TRUE) \in Kinds
    BY ProxyConstants
  <2> QED BY <2>1 DEF NewCall, Call
<1>6. /\ new \in Call /\ new.pc = "lookup" /\ new.kind = k /\ new.held = heldNow
      /\ new.answeredBefore = before /\ new.tracked = FALSE /\ new.sent = FALSE
  BY <1>3, <1>5 DEF Call, InFlight
<1> HIDE DEF new
<1>7. /\ call' \in [Calls -> Call] /\ call'[c] = new
      /\ \A d \in Calls \ {c} : call'[d] = call[d]
  BY <1>1, <1>2, <1>6
<1>8. ProxyTypeOK'
  BY <1>1, <1>2, <1>7 DEF ProxyTypeOK, TypeOK, ledgerVars, NaturalHolds
<1>9. LedgerInv' /\ RequestsAreUnique'
  BY <1>1, <1>8, QuietStep, UniqueKeeps DEF ProxyInv, ProxyTypeOK, ledgerVars
<1>10. StepOfCall(c)
  BY <1>1, <1>7 DEF StepOfCall, ledgerVars
<1>11. RowOfCall(c)'
  BY <1>1, <1>2, <1>6, <1>7 DEF RowOfCall, ledgerVars, BeforeReserve, Unsettled, Settled
<1>12. KeyOfCall(c)'
  BY <1>1, <1>4, <1>6, <1>7 DEF KeyOfCall, CacheKey, Session, Key
<1>13. BlockOfCall(c)'
  BY <1>1, <1>2, <1>6, <1>7 DEF BlockOfCall, Session, ledgerVars, heldNow
<1> QED BY <1>1, <1>8, <1>9, <1>10, <1>11, <1>12, <1>13, StepKeeps DEF CallInv, Stored

\* Nobody's call moves when a session is created, closed or expires, or is
\* blocked.
LEMMA QuietCallsStep ==
  ASSUME ProxyInv, NEW s \in Sessions, SessionApi(s) \/ GovernorBlocks(s)
  PROVE  ProxyInv'
<1>1. UNCHANGED <<spent, reserved, rows, call, used, cache>> /\ blocked \subseteq blocked'
  BY DEF SessionApi, CreateSession, CloseSession, Expire, GovernorBlocks, ledgerVars
<1>2. ProxyTypeOK'
  <2>1. CASE SessionApi(s)
    BY <2>1 DEF ProxyInv, ProxyTypeOK, TypeOK, SessionApi, CreateSession, CloseSession, Expire,
                 NaturalHolds
  <2>2. CASE GovernorBlocks(s)
    BY <2>2 DEF ProxyInv, ProxyTypeOK, TypeOK, GovernorBlocks, ledgerVars, NaturalHolds
  <2> QED BY <2>1, <2>2
<1>3. LedgerInv' /\ RequestsAreUnique'
  BY <1>1, <1>2, QuietStep, UniqueKeeps DEF ProxyInv, ProxyTypeOK
<1>4. \A c \in Calls : CallInv(c)'
  BY <1>1, CallKeeps DEF ProxyInv
<1>5. CacheInv'
  BY <1>1, CacheUntouched DEF ProxyInv
<1> QED BY <1>2, <1>3, <1>4, <1>5 DEF ProxyInv

\* When a block is lifted, the calls of that session no longer count as held.
LEMMA GovernorUnblocksStep ==
  ASSUME ProxyInv, NEW s \in Sessions, GovernorUnblocks(s)
  PROVE  ProxyInv'
<1>1. /\ blocked' = blocked \ {s} /\ UNCHANGED <<ledgerVars, used, cache>>
      /\ call' = [c \in Calls |-> [call[c] EXCEPT !.held = @ /\ Session(c) # s]]
  BY DEF GovernorUnblocks
<1>2. ASSUME NEW c \in Calls
      PROVE  /\ call'[c] \in Call /\ call'[c].pc = call[c].pc /\ call'[c].kind = call[c].kind
             /\ call'[c].tracked = call[c].tracked /\ call'[c].sent = call[c].sent
             /\ call'[c].answeredBefore = call[c].answeredBefore
             /\ call'[c].held => call[c].held /\ Session(c) # s
  <2> DEFINE still == call[c].held /\ Session(c) # s
  <2>1. call[c] \in Call /\ still \in BOOLEAN
    BY DEF ProxyInv, ProxyTypeOK
  <2>2. call'[c] = [call[c] EXCEPT !.held = still]
    BY <1>1
  <2>3. still => call[c].held /\ Session(c) # s
    OBVIOUS
  <2> HIDE DEF still
  <2> QED BY <2>1, <2>2, <2>3 DEF Call
<1>3. call' \in [Calls -> Call]
  BY <1>1, <1>2
<1>4. ProxyTypeOK'
  BY <1>1, <1>3 DEF ProxyInv, ProxyTypeOK, TypeOK, ledgerVars, NaturalHolds
<1>5. LedgerInv' /\ RequestsAreUnique'
  BY <1>1, <1>4, QuietStep, UniqueKeeps DEF ProxyInv, ProxyTypeOK, ledgerVars
<1>6. ASSUME NEW c \in Calls
      PROVE  CallInv(c)'
  <2>1. /\ RowOfCall(c) /\ KeyOfCall(c) /\ BlockOfCall(c)
        /\ Session(c)' = Session(c) /\ Key(c)' = Key(c) /\ CacheKey(c)' = CacheKey(c)
    BY <1>2 DEF ProxyInv, CallInv, Session, Key, CacheKey
  <2>2. RowOfCall(c)' /\ KeyOfCall(c)'
    BY <1>1, <1>2, <2>1 DEF RowOfCall, KeyOfCall, SettledAtUsage, Consumed, ledgerVars
  <2>3. BlockOfCall(c)'
    BY <1>1, <1>2, <2>1 DEF BlockOfCall, ledgerVars
  <2> QED BY <2>2, <2>3 DEF CallInv
<1>7. CacheInv'
  BY <1>1, <1>2, CacheUntouched DEF ProxyInv, ledgerVars
<1> QED BY <1>4, <1>5, <1>6, <1>7 DEF ProxyInv

-----------------------------------------------------------------------------
\* The proxy starts with an empty ledger and no calls.
LEMMA InitProxyInv == ProxyInit => ProxyInv
<1> SUFFICES ASSUME ProxyInit
             PROVE  ProxyInv
  OBVIOUS
<1>1. LedgerInv /\ TypeOK /\ \A r \in Reservations : rows[r].state = "none"
  BY InitLedgerInv DEF ProxyInit, LedgerInv, LedgerInit, NoReservation
<1>2. NewCall \in Call
  <2>1. (CHOOSE kind \in Kinds : TRUE) \in Kinds
    BY ProxyConstants
  <2> QED BY <2>1 DEF NewCall, Call
<1>3. ProxyTypeOK
  BY <1>1, <1>2, AmountTypes DEF ProxyInit, ProxyTypeOK
<1>4. ASSUME NEW c \in Calls
      PROVE  CallInv(c)
  <2>1. /\ call[c].pc = "new" /\ ~call[c].tracked /\ ~call[c].sent /\ ~call[c].held
        /\ ~call[c].answeredBefore /\ used[c] = NoUsage /\ rows[c].state = "none"
    BY <1>1 DEF ProxyInit, NewCall, Calls
  <2> QED BY <2>1 DEF CallInv, RowOfCall, KeyOfCall, BlockOfCall,
                      BeforeReserve, Unsettled, Settled
<1>5. CacheInv
  BY DEF ProxyInit, CacheInv
<1>6. RequestsAreUnique
  BY <1>1 DEF RequestsAreUnique
<1> QED BY <1>1, <1>3, <1>4, <1>5, <1>6 DEF ProxyInv

\* Every step of the proxy, of the clients and of the governor keeps it.
LEMMA NextProxyInv == ProxyInv /\ [ProxyNext]_proxyVars => ProxyInv'
<1> SUFFICES ASSUME ProxyInv, [ProxyNext]_proxyVars
             PROVE  ProxyInv'
  OBVIOUS
<1>1. ASSUME NEW s \in Sessions, SessionApi(s) \/ GovernorBlocks(s) \/ GovernorUnblocks(s)
      PROVE  ProxyInv'
  BY <1>1, QuietCallsStep, GovernorUnblocksStep
<1>2. ASSUME NEW c \in Calls, NEW k \in Kinds, Arrive(c, k)
      PROVE  ProxyInv'
  BY <1>2, ArriveStep
<1>3. ASSUME NEW c \in Calls, StoreRaises(c) \/ ProcessDies(c)
      PROVE  ProxyInv'
  BY <1>3, GiveUpStep DEF StoreRaises, ProcessDies, InFlight
<1>4. ASSUME NEW c \in Calls, HandlerStep(c)
      PROVE  ProxyInv'
  BY <1>3, <1>4, LookupStep, BlockCheckStep, ReserveGrantedStep, ReserveFailsStep,
     ReserveAckLostStep, HeadersStep, UpstreamWorksStep, UpstreamRefusesStep, SettleStep,
     StoreStep
     DEF HandlerStep
<1>5. CASE UNCHANGED proxyVars
  <2>1. ProxyTypeOK'
    BY <1>5 DEF ProxyInv, ProxyTypeOK, TypeOK, proxyVars, ledgerVars, NaturalHolds
  <2>2. LedgerInv' /\ RequestsAreUnique'
    BY <1>5, <2>1, QuietStep, UniqueKeeps DEF ProxyInv, ProxyTypeOK, proxyVars, ledgerVars
  <2>3. \A c \in Calls : CallInv(c)'
    BY <1>5, CallKeeps DEF ProxyInv, proxyVars, ledgerVars
  <2>4. CacheInv'
    BY <1>5, CacheUntouched DEF ProxyInv, proxyVars, ledgerVars
  <2> QED BY <2>1, <2>2, <2>3, <2>4 DEF ProxyInv
<1> QED BY <1>1, <1>2, <1>3, <1>4, <1>5 DEF ProxyNext

\* The inductive invariant holds in every reachable state of the proxy.
THEOREM ProxyInvariant == ProxySpec => []ProxyInv
<1> QED BY InitProxyInv, NextProxyInv, PTL DEF ProxySpec

\* Every reachable state of the proxy is well typed.
THEOREM ProxyTypeCorrect == ProxySpec => []ProxyTypeOK
<1>1. ProxyInv => ProxyTypeOK
  BY DEF ProxyInv
<1> QED BY <1>1, ProxyInvariant, PTL

\* Under the proxy, with its lost acknowledgements, failed finalizes and dying
\* processes, the balances stay the sums of the rows, and no session is
\* committed beyond its cap by more than what its requests used above their
\* estimates.
THEOREM ProxyKeepsBalances ==
  ProxySpec => [](ReservedMatchesOpenRows /\ SpentMatchesFinalRows /\ CapRespected)
<1>1. ProxyInv => ReservedMatchesOpenRows /\ SpentMatchesFinalRows /\ CapRespected
  BY DEF ProxyInv, LedgerInv
<1> QED BY <1>1, ProxyInvariant, PTL

\* A session that fails closed never has a call at the upstream without a
\* reservation of its own.
THEOREM ProxyCoversForwarded == ProxySpec => []ForwardedIsCovered
<1>1. ProxyInv => ForwardedIsCovered
  BY DEF ProxyInv, CallInv, RowOfCall, ForwardedIsCovered
<1> QED BY <1>1, ProxyInvariant, PTL

\* With UNIQUE (session_id, request_id), two calls of one session and one
\* request id never both reach the upstream.
THEOREM ProxySendsRequestOnce ==
  ASSUME UniqueRequests
  PROVE  ProxySpec => []ResentReachesUpstreamOnce
<1>1. ProxyInv => ResentReachesUpstreamOnce
  <2> SUFFICES ASSUME ProxyInv, NEW c \in Calls, NEW d \in Calls,
                      call[c].sent, call[d].sent, Session(c) = Session(d),
                      Session(c) \notin FailOpen, call[c].kind.request = call[d].kind.request
               PROVE  c = d
    BY DEF ResentReachesUpstreamOnce
  <2>1. /\ rows[c].state # "none" /\ rows[d].state # "none"
        /\ rows[c].session = rows[d].session /\ rows[c].request = rows[d].request
    BY DEF ProxyInv, CallInv, RowOfCall
  <2> QED BY <2>1 DEF ProxyInv, RequestsAreUnique, Calls
<1> QED BY <1>1, ProxyInvariant, PTL

\* A client that has its answer holds no reservation for it any more: the call
\* is settled, at its usage where the answer reports all of it, never above.
THEOREM ProxySettlesAnswered == ProxySpec => []AnsweredIsSettled
<1>1. ProxyInv => AnsweredIsSettled
  BY DEF ProxyInv, CallInv, RowOfCall, AnsweredIsSettled, Settled
<1> QED BY <1>1, ProxyInvariant, PTL

\* A stored response belongs to its session and key, and its call is settled.
THEOREM ProxySettlesReplayed == ProxySpec => []ReplaysAreSettled
<1>1. ProxyInv => ReplaysAreSettled
  BY DEF ProxyInv, CacheInv, StoredFor, ReplaysAreSettled
<1> QED BY <1>1, ProxyInvariant, PTL

\* A retry of an answered call is never forwarded again.
THEOREM ProxyReplaysAnswered == ProxySpec => []AnsweredKeysReplay
<1>1. ProxyInv => AnsweredKeysReplay
  BY DEF ProxyInv, CallInv, KeyOfCall, AnsweredKeysReplay
<1> QED BY <1>1, ProxyInvariant, PTL

\* A call that arrives at a blocked session is neither forwarded nor reserved
\* for while the block lasts.
THEOREM ProxyHonoursBlock == ProxySpec => []BlockIsHonoured
<1>1. ProxyInv => BlockIsHonoured
  BY DEF ProxyInv, CallInv, BlockOfCall, BlockIsHonoured
<1> QED BY <1>1, ProxyInvariant, PTL

=============================================================================
