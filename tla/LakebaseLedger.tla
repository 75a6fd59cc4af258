--------------------------- MODULE LakebaseLedger ---------------------------
(***************************************************************************)
(* The session tables of the Lakebase (PostgreSQL) store, governor/        *)
(* store.py: each store call is a transaction of several statements at the *)
(* READ COMMITTED level, and transactions of different proxy processes and *)
(* threads interleave statement by statement.  Row locks are taken by      *)
(* SELECT ... FOR UPDATE and by UPDATE and kept until commit or rollback;  *)
(* a statement that needs a locked row waits, then sees the row as last    *)
(* committed.  The variables of SessionLedger are the committed rows.      *)
(*                                                                         *)
(* RefinesLedger says that, seen from outside, the calls are atomic.       *)
(***************************************************************************)
EXTENDS SessionLedger

CONSTANTS
  Workers,   \* proxy threads and replicas, each with its own connection
  NoWorker   \* no transaction holds the lock

ASSUME WorkerConstants == NoWorker \notin Workers /\ NumReservations > 0

VARIABLES
  tx,           \* the call each worker is executing
  sessionLock,  \* which worker's transaction holds the lock of a session row
  rowLock       \* the same for a row of the reservations table

lakebaseVars == <<ledgerVars, tx, sessionLock, rowLock>>

ReservePcs  == {"reserve_select", "reserve_update", "reserve_insert", "reserve_commit"}
FinalizePcs == {"finalize_select", "finalize_charge", "finalize_mark", "finalize_commit"}
ClosePcs    == {"close_update", "close_commit"}

\* "amount" is what reserve_budget reserves or finalize_reservation charges;
\* "live" records that expires_at > NOW() held when the transaction began:
\* NOW() keeps the transaction's start time while it waits for a lock.
Tx == [pc : {"idle", "return"} \cup ReservePcs \cup FinalizePcs \cup ClosePcs,
       session : Sessions, request : RequestIds, row : Reservations,
       amount : Balance, live : BOOLEAN]

NoTx == [pc |-> "idle", session |-> CHOOSE s \in Sessions : TRUE,
         request |-> CHOOSE q \in RequestIds : TRUE, row |-> 1,
         amount |-> NoAmount, live |-> FALSE]

LakebaseInit ==
  /\ LedgerInit
  /\ tx = [w \in Workers |-> NoTx]
  /\ sessionLock = [s \in Sessions |-> NoWorker]
  /\ rowLock = [r \in Reservations |-> NoWorker]

-----------------------------------------------------------------------------
Begin(w, call) == tx[w].pc = "idle" /\ tx' = [tx EXCEPT ![w] = call]

Goto(w, pc) == tx' = [tx EXCEPT ![w].pc = pc]

\* Commit and rollback release every lock of the transaction.
ReleaseLocks(w) ==
  /\ sessionLock' = [s \in Sessions |-> IF sessionLock[s] = w THEN NoWorker ELSE sessionLock[s]]
  /\ rowLock' = [r \in Reservations |-> IF rowLock[r] = w THEN NoWorker ELSE rowLock[r]]

\* Defect: the early returns skip connection.rollback().
ReturnKeepingLocks(w) ==
  /\ tx' = [tx EXCEPT ![w] = NoTx]
  /\ UNCHANGED <<ledgerVars, sessionLock, rowLock>>

Rollback(w) ==
  /\ ReleaseLocks(w)
  /\ tx' = [tx EXCEPT ![w] = NoTx]
  /\ UNCHANGED ledgerVars

LockSession(w, s) ==
  /\ sessionLock[s] \in {NoWorker, w}
  /\ sessionLock' = [sessionLock EXCEPT ![s] = w]

\* Defect: a plain SELECT, which takes no lock.
SelectSession(w, s) == UNCHANGED sessionLock

\* SELECT ... FOR UPDATE of reserve_budget.
SelectSessionForUpdate(w, s) == LockSession(w, s)

\* SELECT ... FOR UPDATE of finalize_reservation.
SelectRowForUpdate(w, r) ==
  /\ rowLock[r] = NoWorker
  /\ rowLock' = [rowLock EXCEPT ![r] = w]

\* Reservation ids are uuid4: one that no row and no running call uses.
FreshRows == {r \in Reservations : rows[r].state = "none" /\ \A w \in Workers :
                 tx[w].row = r => tx[w].pc \notin ReservePcs}

-----------------------------------------------------------------------------
(* reserve_budget                                                          *)

BeginReserve(w, s, q, out) ==
  /\ session[s] # "absent"
  /\ \E r \in FreshRows :
       /\ \A k \in FreshRows : r <= k
       /\ Begin(w, [pc |-> "reserve_select", session |-> s, request |-> q, row |-> r,
                    amount |-> EstimateOf(out), live |-> ~expired[s]])
  /\ UNCHANGED <<ledgerVars, sessionLock, rowLock>>

\* The SELECT finds no row, or the amount does not fit: returns False.
ReserveRefused(w) ==
  LET s == tx[w].session
  IN  /\ tx[w].pc = "reserve_select" /\ sessionLock[s] = NoWorker
      /\ session[s] = "closed" \/ ~tx[w].live \/ ~Fits(s, tx[w].amount)
      /\ Rollback(w)

ReserveSelect(w) ==
  LET s == tx[w].session
  IN  /\ tx[w].pc = "reserve_select" /\ sessionLock[s] = NoWorker
      /\ session[s] = "open" /\ tx[w].live /\ Fits(s, tx[w].amount)
      /\ SelectSessionForUpdate(w, s)
      /\ Goto(w, "reserve_update")
      /\ UNCHANGED <<ledgerVars, rowLock>>

ReserveUpdate(w) ==
  /\ tx[w].pc = "reserve_update"
  /\ LockSession(w, tx[w].session)
  /\ Goto(w, "reserve_insert")
  /\ UNCHANGED <<ledgerVars, rowLock>>

ReserveInsert(w) ==
  /\ tx[w].pc = "reserve_insert"
  /\ ~DuplicateRequest(tx[w].session, tx[w].request)
  /\ Goto(w, "reserve_commit")
  /\ UNCHANGED <<ledgerVars, sessionLock, rowLock>>

\* UniqueViolation leaves the connection's block: rollback, and the call raises.
ReserveDuplicate(w) ==
  /\ tx[w].pc = "reserve_insert"
  /\ DuplicateRequest(tx[w].session, tx[w].request)
  /\ Rollback(w)

ReserveCommit(w) ==
  LET t == tx[w]
  IN  /\ t.pc = "reserve_commit"
      /\ Admit(t.session, t.request, t.row, t.amount)
      /\ ReleaseLocks(w)
      /\ Goto(w, "return")

-----------------------------------------------------------------------------
(* finalize_reservation                                                    *)

BeginFinalize(w, r, charge) ==
  /\ rows[r].state # "none"
  /\ Begin(w, [NoTx EXCEPT !.pc = "finalize_select", !.session = rows[r].session,
                           !.row = r, !.amount = charge])
  /\ UNCHANGED <<ledgerVars, sessionLock, rowLock>>

\* The row is already finalized: returns without a change.
FinalizeAgain(w) ==
  /\ tx[w].pc = "finalize_select" /\ rowLock[tx[w].row] = NoWorker
  /\ rows[tx[w].row].state = "final"
  /\ Rollback(w)

FinalizeSelect(w) ==
  /\ tx[w].pc = "finalize_select"
  /\ rows[tx[w].row].state = "open"
  /\ SelectRowForUpdate(w, tx[w].row)
  /\ Goto(w, "finalize_charge")
  /\ UNCHANGED <<ledgerVars, sessionLock>>

FinalizeCharge(w) ==
  /\ tx[w].pc = "finalize_charge"
  /\ LockSession(w, tx[w].session)
  /\ Goto(w, "finalize_mark")
  /\ UNCHANGED <<ledgerVars, rowLock>>

FinalizeMark(w) ==
  /\ tx[w].pc = "finalize_mark"
  /\ Goto(w, "finalize_commit")
  /\ UNCHANGED <<ledgerVars, sessionLock, rowLock>>

\* Defect: the actual amount is taken off the reserved columns.
FinalizeCommitUnclamped(w) ==
  LET t == tx[w]
  IN  /\ t.pc = "finalize_commit"
      /\ Settle(t.row, t.amount, [u \in Units |-> reserved[t.session][u] - t.amount[u]])
      /\ ReleaseLocks(w)
      /\ Goto(w, "return")

FinalizeCommit(w) ==
  LET t == tx[w]
  IN  /\ t.pc = "finalize_commit"
      /\ Settle(t.row, t.amount, Released(t.session, rows[t.row].amount))
      /\ ReleaseLocks(w)
      /\ Goto(w, "return")

-----------------------------------------------------------------------------
(* close_session                                                           *)

BeginClose(w, s) ==
  /\ session[s] # "absent"
  /\ Begin(w, [NoTx EXCEPT !.pc = "close_update", !.session = s])
  /\ UNCHANGED <<ledgerVars, sessionLock, rowLock>>

CloseUpdate(w) ==
  /\ tx[w].pc = "close_update"
  /\ LockSession(w, tx[w].session)
  /\ Goto(w, "close_commit")
  /\ UNCHANGED <<ledgerVars, rowLock>>

CloseCommit(w) ==
  /\ tx[w].pc = "close_commit"
  /\ session' = [session EXCEPT ![tx[w].session] = "closed"]
  /\ ReleaseLocks(w)
  /\ Goto(w, "return")
  /\ UNCHANGED <<expired, spent, reserved, rows>>

-----------------------------------------------------------------------------
\* The committed call returns to its caller.
Return(w) ==
  /\ tx[w].pc = "return"
  /\ tx' = [tx EXCEPT ![w] = NoTx]
  /\ UNCHANGED <<ledgerVars, sessionLock, rowLock>>

\* The connection or the process dies before the commit: the server rolls
\* the transaction back.
Crash(w) ==
  /\ tx[w].pc \notin {"idle", "return"}
  /\ Rollback(w)

\* Inserts a row under a new uuid: one statement, and nothing waits for it.
Create(s) ==
  /\ CreateSession(s)
  /\ UNCHANGED <<tx, sessionLock, rowLock>>

Clock(s) ==
  /\ Expire(s)
  /\ UNCHANGED <<tx, sessionLock, rowLock>>

WorkerStep(w) ==
  \/ ReserveRefused(w) \/ ReserveSelect(w) \/ ReserveUpdate(w)
  \/ ReserveInsert(w) \/ ReserveDuplicate(w) \/ ReserveCommit(w)
  \/ FinalizeAgain(w) \/ FinalizeSelect(w) \/ FinalizeCharge(w)
  \/ FinalizeMark(w) \/ FinalizeCommit(w)
  \/ CloseUpdate(w) \/ CloseCommit(w) \/ Return(w)

LakebaseNext ==
  \/ \E s \in Sessions : Create(s) \/ Clock(s)
  \/ \E w \in Workers :
       \/ WorkerStep(w) \/ Crash(w)
       \/ \E s \in Sessions, q \in RequestIds, out \in Estimates : BeginReserve(w, s, q, out)
       \/ \E r \in Reservations, charge \in Charges : BeginFinalize(w, r, charge)
       \/ \E s \in Sessions : BeginClose(w, s)

\* A running statement is executed eventually.  Strong fairness: PostgreSQL
\* queues the waiters of a row lock, so a worker is not passed over forever.
LakebaseFairness == \A w \in Workers : SF_lakebaseVars(WorkerStep(w))

LakebaseSpec == LakebaseInit /\ [][LakebaseNext]_lakebaseVars /\ LakebaseFairness

-----------------------------------------------------------------------------
LakebaseTypeOK ==
  /\ TypeOK
  /\ tx \in [Workers -> Tx]
  /\ sessionLock \in [Sessions -> Workers \cup {NoWorker}]
  /\ rowLock \in [Reservations -> Workers \cup {NoWorker}]

\* A session counts as expired once no call that began before the deadline
\* can still reserve on it.
ExpiredForAll == [s \in Sessions |->
  /\ expired[s]
  /\ \A w \in Workers : tx[w].session = s /\ tx[w].live => tx[w].pc \notin ReservePcs \cup {"return"}]

Ledger == INSTANCE SessionLedger WITH expired <- ExpiredForAll

\* Statement-by-statement transactions with row locks behave as the atomic
\* calls of SessionLedger: no interleaving of two proxies admits a request on
\* a stale balance, settles a reservation twice or loses an update.
RefinesLedger == Ledger!LedgerSpec

\* What NOW() leaves open: a session that is closed admits nothing, and one that
\* has expired admits a request only in a transaction that began before its
\* deadline and has waited for the row since.
LateGrantsBeganInTime ==
  [][\A s \in Sessions, r \in Reservations :
       rows[r].state = "none" /\ rows'[r].state # "none" /\ rows'[r].session = s
         => /\ session[s] = "open"
            /\ \E w \in Workers : /\ tx[w].row = r /\ tx[w].session = s
                                 /\ tx[w].live]_lakebaseVars

\* Every call returns: the order in which reserve, finalize and close take
\* their row locks never leaves two transactions waiting for each other, and
\* no path keeps a lock after its transaction has ended.
EveryCallReturns == \A w \in Workers : tx[w].pc # "idle" ~> tx[w].pc = "idle"

=============================================================================
