---------------------------- MODULE SessionLedger ----------------------------
(***************************************************************************)
(* The session ledger: what a session store promises to its callers.  Each *)
(* store call is one atomic step.  That is literally so for the SQLite     *)
(* store (governor/state.py), whose reserve and finalize run under BEGIN   *)
(* IMMEDIATE; that the PostgreSQL store (governor/store.py) keeps the same *)
(* promise with row locks is checked in LakebaseLedger.                    *)
(*                                                                         *)
(* A session has a cap in two units, US dollars and tokens.  A request     *)
(* reserves an estimate before it is forwarded and is charged what it used *)
(* when it is finalized.  The estimate is the max_tokens of the request,   *)
(* which nothing checks: a negative one reserves a negative amount.        *)
(***************************************************************************)
EXTENDS Totals

CONSTANTS
  Sessions,          \* session ids
  RequestIds,        \* X-Request-Id values
  NumReservations,   \* bound: reservation ids (uuid4) drawn in a behaviour
  Cap,               \* max_usd and max_total_tokens of each session
  Estimates,         \* values of max_tokens in request bodies
  InputTokens,       \* prompt_tokens the upstream may report
  OutputTokens,      \* completion_tokens the upstream may report
  InputPrice,        \* ModelPrice, in dollars per token
  OutputPrice,
  UniqueRequests     \* the store has UNIQUE (session_id, request_id)

Units        == {"usd", "tokens"}
Amount       == [Units -> Nat]
Balance      == [Units -> Int]
Reservations == 1..NumReservations

ASSUME LedgerConstants ==
  /\ NumReservations \in Nat
  /\ Sessions # {} /\ RequestIds # {}
  /\ Cap \in [Sessions -> Amount]
  /\ Estimates \subseteq Int /\ InputTokens \subseteq Nat /\ OutputTokens \subseteq Nat
  /\ InputPrice \in Nat /\ OutputPrice \in Nat
  /\ UniqueRequests \in BOOLEAN

VARIABLES
  session,   \* session[s]: "absent", "open" or "closed"
  expired,   \* expired[s]: the clock has passed expires_at
  spent,     \* spent_usd and spent_tokens
  reserved,  \* reserved_usd and reserved_tokens
  rows       \* the reservations table, by reservation id

ledgerVars == <<session, expired, spent, reserved, rows>>

NoAmount == [u \in Units |-> 0]

\* A row of the reservations table.  "charge" is what finalize added to the
\* session for it: the table does not keep it, the properties need it.
Row == [state : {"none", "open", "final"}, session : Sessions, request : RequestIds,
        amount : Balance, charge : Amount]

NoReservation == [state |-> "none", session |-> CHOOSE s \in Sessions : TRUE,
                  request |-> CHOOSE q \in RequestIds : TRUE,
                  amount |-> NoAmount, charge |-> NoAmount]

-----------------------------------------------------------------------------
(* Prices: SessionManager.reserve estimates the output only, finalize      *)
(* charges input and output.                                               *)

EstimateOf(out) == [u \in Units |-> IF u = "usd" THEN out * OutputPrice ELSE out]

ChargeFor(in, out) ==
  [u \in Units |-> IF u = "usd" THEN in * InputPrice + out * OutputPrice ELSE in + out]

Charges == {ChargeFor(in, out) : in \in InputTokens, out \in OutputTokens}

-----------------------------------------------------------------------------
LedgerInit ==
  /\ session  = [s \in Sessions |-> "absent"]
  /\ expired  = [s \in Sessions |-> FALSE]
  /\ spent    = [s \in Sessions |-> NoAmount]
  /\ reserved = [s \in Sessions |-> NoAmount]
  /\ rows     = [r \in Reservations |-> NoReservation]

CreateSession(s) ==
  /\ session[s] = "absent"
  /\ session' = [session EXCEPT ![s] = "open"]
  /\ UNCHANGED <<expired, spent, reserved, rows>>

CloseSession(s) ==
  /\ session[s] # "absent"
  /\ session' = [session EXCEPT ![s] = "closed"]
  /\ UNCHANGED <<expired, spent, reserved, rows>>

\* The clock passes expires_at.  Nothing in the code reacts to it: the
\* stores compare the column with the time when they read the row.
Expire(s) ==
  /\ session[s] # "absent" /\ ~expired[s]
  /\ expired' = [expired EXCEPT ![s] = TRUE]
  /\ UNCHANGED <<session, spent, reserved, rows>>

\* Defect: the expiry is left out of the WHERE clause.
LiveUnlessClosed(s) == session[s] = "open"

Live(s) == session[s] = "open" /\ ~expired[s]

\* Defect: the balance ignores what other requests have reserved.
FitsSpent(s, amount) == \A u \in Units : spent[s][u] + amount[u] <= Cap[s][u]

Fits(s, amount) == \A u \in Units : spent[s][u] + reserved[s][u] + amount[u] <= Cap[s][u]

\* Defect: the uniqueness covers the open reservations only.
DuplicateOpenRequest(s, q) ==
  UniqueRequests /\ \E r \in Reservations :
     rows[r].state = "open" /\ rows[r].session = s /\ rows[r].request = q

DuplicateRequest(s, q) ==
  UniqueRequests /\ \E r \in Reservations :
     rows[r].state # "none" /\ rows[r].session = s /\ rows[r].request = q

\* The writes of reserve_budget.
Admit(s, q, r, amount) ==
  /\ reserved' = [reserved EXCEPT ![s] = [u \in Units |-> @[u] + amount[u]]]
  /\ rows' = [rows EXCEPT ![r] = [state |-> "open", session |-> s, request |-> q,
                                  amount |-> amount, charge |-> NoAmount]]
  /\ UNCHANGED <<session, expired, spent>>

\* reserve_budget returning True.  It returns False when the session is not
\* live or the amount does not fit, and raises on a duplicate request id;
\* neither changes the ledger.
Reserve(s, q, r, amount) ==
  /\ rows[r].state = "none"
  /\ Live(s) /\ Fits(s, amount) /\ ~DuplicateRequest(s, q)
  /\ Admit(s, q, r, amount)

\* The writes of finalize_reservation, which leave "balance" reserved.
Settle(r, charge, balance) ==
  LET s == rows[r].session
  IN  /\ spent' = [spent EXCEPT ![s] = [u \in Units |-> @[u] + charge[u]]]
      /\ reserved' = [reserved EXCEPT ![s] = balance]
      /\ rows' = [rows EXCEPT ![r].state = "final", ![r].charge = charge]
      /\ UNCHANGED <<session, expired>>

\* The reserved columns of s without amount, cut off at zero.
Released(s, amount) == [u \in Units |-> Minus(reserved[s][u], amount[u])]

\* Defects: the actual amount is released instead of the reserved one, without
\* and with the cut-off at zero; a finalized row is settled again.
FinalizeUnclamped(r, charge) ==
  /\ rows[r].state = "open"
  /\ Settle(r, charge, [u \in Units |-> reserved[rows[r].session][u] - charge[u]])

FinalizeReleasingCharge(r, charge) ==
  /\ rows[r].state = "open"
  /\ Settle(r, charge, Released(rows[r].session, charge))

FinalizeTwice(r, charge) ==
  /\ rows[r].state # "none"
  /\ Settle(r, charge, Released(rows[r].session, rows[r].amount))

\* finalize_reservation on an open row.  On a missing or finalized one it
\* returns without a change.
Finalize(r, charge) ==
  /\ rows[r].state = "open"
  /\ Settle(r, charge, Released(rows[r].session, rows[r].amount))

LedgerNext ==
  \/ \E s \in Sessions : CreateSession(s) \/ CloseSession(s) \/ Expire(s)
  \/ \E s \in Sessions, q \in RequestIds, r \in Reservations, out \in Estimates :
        Reserve(s, q, r, EstimateOf(out))
  \/ \E r \in Reservations, charge \in Charges : Finalize(r, charge)

LedgerSpec == LedgerInit /\ [][LedgerNext]_ledgerVars

-----------------------------------------------------------------------------
\* No request of session s has asked for a negative max_tokens.
NaturalHolds(s) == \A r \in Reservations :
  rows[r].state # "none" /\ rows[r].session = s => rows[r].amount \in Amount

\* The reserved columns are natural numbers unless a negative max_tokens made
\* them negative.
TypeOK ==
  /\ session  \in [Sessions -> {"absent", "open", "closed"}]
  /\ expired  \in [Sessions -> BOOLEAN]
  /\ spent    \in [Sessions -> Amount]
  /\ reserved \in [Sessions -> Balance]
  /\ rows     \in [Reservations -> Row]
  /\ \A s \in Sessions : NaturalHolds(s) => reserved[s] \in Amount

\* Columns of the reservations table, for session s and unit u.
OpenAmounts(s, u) == [r \in Reservations |->
  IF rows[r].state = "open" /\ rows[r].session = s THEN rows[r].amount[u] ELSE 0]

FinalCharges(s, u) == [r \in Reservations |->
  IF rows[r].state = "final" /\ rows[r].session = s THEN rows[r].charge[u] ELSE 0]

\* What the actual usage of a finalized request exceeded its estimate by.
Overruns(s, u) == [r \in Reservations |->
  IF rows[r].state = "final" /\ rows[r].session = s
  THEN Minus(rows[r].charge[u], rows[r].amount[u]) ELSE 0]

\* The reserved columns of a session are never less than the sum over its open
\* reservation rows, and equal it when no request asked for a negative
\* max_tokens: no reservation is released twice or dropped, and then the cut-off
\* at zero in finalize_reservation never hides a shortfall.  A negative row makes
\* the columns negative, and the cut-off then leaves too much reserved.
ReservedMatchesOpenRows ==
  \A s \in Sessions, u \in Units :
    LET inRows == Total(NumReservations, OpenAmounts(s, u))
    IN  inRows <= reserved[s][u] /\ (NaturalHolds(s) => inRows = reserved[s][u])

\* The spent columns of a session are the sum of the charges of its finalized
\* rows: every finalized request is charged once, to its own session.
SpentMatchesFinalRows ==
  \A s \in Sessions, u \in Units : spent[s][u] = Total(NumReservations, FinalCharges(s, u))

\* What a session has spent and what its open rows hold together exceed its cap
\* by at most what the finalized requests used above their own estimates:
\* admission by reserve_budget loses nothing to concurrency, close or expiry.
\* What a negative max_tokens lends to other requests is part of its overrun.
CapRespected ==
  \A s \in Sessions, u \in Units :
     spent[s][u] + Total(NumReservations, OpenAmounts(s, u))
       <= Cap[s][u] + Total(NumReservations, Overruns(s, u))

\* From the moment a session is closed or expired it admits nothing new, while
\* what was admitted can still be settled.
ClosedSessionsAdmitNothing ==
  [][\A s \in Sessions, r \in Reservations :
       /\ session[s] = "closed" \/ expired[s]
       /\ rows[r].state = "none" /\ rows'[r].state # "none"
       => rows'[r].session # s]_ledgerVars

=============================================================================
