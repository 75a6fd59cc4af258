---------------------------- MODULE LakebaseProofs ----------------------------
(***************************************************************************)
(* The Lakebase store implements the session ledger, for every number of   *)
(* workers, sessions and reservations, every cap and every price: between  *)
(* them, the row locks make each transaction behave as one atomic call.    *)
(*                                                                         *)
(* LakebaseInv says what the lock a transaction holds protects: what the   *)
(* transaction has read, under the lock, is still true when it commits.    *)
(* That is the guard of the atomic call, so the commit is that call, and   *)
(* every other statement changes nothing a reader can see.                 *)
(***************************************************************************)
EXTENDS LakebaseLedger, SessionLedgerProofs

\* Past the SELECT ... FOR UPDATE of reserve_budget.
ReserveLocked == ReservePcs \ {"reserve_select"}

\* Past the SELECT ... FOR UPDATE of finalize_reservation.
FinalizeLocked == FinalizePcs \ {"finalize_select"}

\* What reserve_budget has read of the session stays true under its lock, and
\* nobody else draws its reservation id.
ReserveProtected(w) ==
  LET t == tx[w] IN
  /\ t.pc \in ReservePcs =>
       /\ session[t.session] # "absent" /\ rows[t.row].state = "none"
       /\ t.amount \in {EstimateOf(out) : out \in Estimates}
       /\ \A v \in Workers \ {w} : tx[v].pc \in ReservePcs => tx[v].row # t.row
  /\ t.pc \in ReserveLocked =>
       /\ sessionLock[t.session] = w
       /\ session[t.session] = "open" /\ t.live /\ Fits(t.session, t.amount)
  /\ t.pc = "reserve_commit" => ~DuplicateRequest(t.session, t.request)

\* What finalize_reservation has read of its row stays true under the lock of
\* the row, and it writes the balance under the lock of the session.
FinalizeProtected(w) ==
  LET t == tx[w] IN
  /\ t.pc \in FinalizePcs =>
       rows[t.row].state # "none" /\ t.session = rows[t.row].session /\ t.amount \in Charges
  /\ t.pc \in FinalizeLocked => rowLock[t.row] = w /\ rows[t.row].state = "open"
  /\ t.pc \in {"finalize_mark", "finalize_commit"} => sessionLock[t.session] = w

CloseProtected(w) ==
  LET t == tx[w] IN
  /\ t.pc \in ClosePcs => session[t.session] # "absent"
  /\ t.pc = "close_commit" => sessionLock[t.session] = w

\* Only reserve_budget asks whether the session is live.
LiveIsReserves(w) ==
  tx[w].live => tx[w].pc \in ReservePcs \cup {"return"} /\ session[tx[w].session] # "absent"

WorkerInv(w) ==
  ReserveProtected(w) /\ FinalizeProtected(w) /\ CloseProtected(w) /\ LiveIsReserves(w)

LakebaseInv == LakebaseTypeOK /\ \A w \in Workers : WorkerInv(w)

-----------------------------------------------------------------------------
(* What a step of one worker leaves to the others.                         *)

\* The step is of worker w: what the others have locked stays as it is and
\* stays locked, no row or session disappears, and the rows the others have
\* drawn are left to them.
StepOfWorker(w) ==
  /\ \A v \in Workers \ {w} : tx'[v] = tx[v]
  /\ \A s \in Sessions : session[s] # "absent" => session'[s] # "absent"
  /\ \A r \in Reservations :
       rows[r].state # "none" => rows'[r].state # "none" /\ rows'[r].session = rows[r].session
  /\ \A v \in Workers \ {w}, r \in Reservations :
       rowLock[r] = v => rowLock'[r] = v /\ (rows[r].state # "none" => rows'[r] = rows[r])
  /\ \A v \in Workers \ {w}, s \in Sessions : sessionLock[s] = v =>
       /\ sessionLock'[s] = v /\ session'[s] = session[s]
       /\ spent'[s] = spent[s] /\ reserved'[s] = reserved[s]
       /\ \A r \in Reservations : rows'[r].state # "none" /\ rows'[r].session = s =>
            /\ rows[r].state # "none" /\ rows[r].session = s
            /\ rows[r].request = rows'[r].request
  /\ \A v \in Workers \ {w} : tx[v].pc \in ReservePcs =>
       /\ rows'[tx[v].row] = rows[tx[v].row]
       /\ tx'[w].pc \in ReservePcs => tx'[w].row # tx[v].row

\* The empty transaction is a transaction.
LEMMA NoTxType == NoTx \in Tx
<1>1. (CHOOSE s \in Sessions : TRUE) \in Sessions /\ (CHOOSE q \in RequestIds : TRUE) \in RequestIds
  BY LedgerConstants
<1>2. 1 \in Reservations
  BY LedgerConstants, WorkerConstants DEF Reservations
<1> QED BY <1>1, <1>2, AmountTypes DEF NoTx, Tx

\* A step of one worker keeps what the transactions of the others rely on.
LEMMA OtherWorkersKeep ==
  ASSUME LakebaseTypeOK, NEW w \in Workers, StepOfWorker(w),
         NEW v \in Workers, v # w, WorkerInv(v)
  PROVE  WorkerInv(v)'
<1> DEFINE t == tx[v]
<1>1. tx'[v] = t /\ t \in Tx
  BY DEF StepOfWorker, LakebaseTypeOK
<1>2. /\ t.session \in Sessions /\ t.row \in Reservations
      /\ session[t.session] # "absent" => session'[t.session] # "absent"
  BY <1>1 DEF Tx, StepOfWorker
<1>3. ReserveProtected(v)'
  <2>1. CASE t.pc \notin ReservePcs
    BY <1>1, <2>1 DEF ReserveProtected, ReserveLocked, ReservePcs
  <2>2. CASE t.pc \in ReservePcs
    <3>1. /\ session[t.session] # "absent" /\ rows[t.row].state = "none"
          /\ t.amount \in {EstimateOf(out) : out \in Estimates}
          /\ \A u \in Workers \ {v} : tx[u].pc \in ReservePcs => tx[u].row # t.row
      BY <2>2 DEF WorkerInv, ReserveProtected
    <3>2. rows'[t.row] = rows[t.row] /\ (tx'[w].pc \in ReservePcs => tx'[w].row # t.row)
      BY <2>2 DEF StepOfWorker
    <3>3. \A u \in Workers \ {v} : tx'[u].pc \in ReservePcs => tx'[u].row # t.row
      BY <3>1, <3>2 DEF StepOfWorker
    <3>4. ASSUME t.pc \in ReserveLocked
          PROVE  /\ sessionLock'[t.session] = v /\ session'[t.session] = "open"
                 /\ t.live /\ Fits(t.session, t.amount)'
                 /\ t.pc = "reserve_commit" => ~DuplicateRequest(t.session, t.request)'
      <4>1. /\ sessionLock[t.session] = v /\ session[t.session] = "open"
            /\ t.live /\ Fits(t.session, t.amount)
            /\ t.pc = "reserve_commit" => ~DuplicateRequest(t.session, t.request)
        BY <3>4 DEF WorkerInv, ReserveProtected
      <4>2. /\ sessionLock'[t.session] = v /\ session'[t.session] = session[t.session]
            /\ spent'[t.session] = spent[t.session] /\ reserved'[t.session] = reserved[t.session]
            /\ \A r \in Reservations : rows'[r].state # "none" /\ rows'[r].session = t.session =>
                 /\ rows[r].state # "none" /\ rows[r].session = t.session
                 /\ rows[r].request = rows'[r].request
        BY <1>2, <4>1 DEF StepOfWorker
      <4>3. Fits(t.session, t.amount)'
        BY <1>1, <4>1, <4>2 DEF Fits
      <4>4. t.pc = "reserve_commit" => ~DuplicateRequest(t.session, t.request)'
        BY <1>1, <4>1, <4>2 DEF DuplicateRequest
      <4> QED BY <1>1, <4>1, <4>2, <4>3, <4>4
    <3>5. t.pc = "reserve_commit" => t.pc \in ReserveLocked
      BY DEF ReserveLocked, ReservePcs
    <3> QED BY <1>1, <1>2, <3>1, <3>2, <3>3, <3>4, <3>5 DEF ReserveProtected
  <2> QED BY <2>1, <2>2
<1>4. FinalizeProtected(v)'
  BY <1>1, <1>2 DEF StepOfWorker, WorkerInv, FinalizeProtected, FinalizeLocked, FinalizePcs
<1>5. CloseProtected(v)' /\ LiveIsReserves(v)'
  BY <1>1, <1>2 DEF StepOfWorker, WorkerInv, CloseProtected, ClosePcs, LiveIsReserves
<1> QED BY <1>3, <1>4, <1>5 DEF WorkerInv

\* What is left to show for a step of one worker.
LEMMA WorkerKeeps ==
  ASSUME LakebaseInv, NEW w \in Workers, StepOfWorker(w), LakebaseTypeOK', WorkerInv(w)'
  PROVE  LakebaseInv'
  BY OtherWorkersKeep DEF LakebaseInv

\* A statement that writes nothing leaves the others alone when it takes only
\* free locks and its reservation id is nobody's.
LEMMA StatementOfWorker ==
  ASSUME LakebaseInv, NEW w \in Workers, UNCHANGED ledgerVars,
         \A v \in Workers \ {w} : tx'[v] = tx[v],
         \A v \in Workers \ {w}, s \in Sessions : sessionLock[s] = v => sessionLock'[s] = v,
         \A v \in Workers \ {w}, r \in Reservations : rowLock[r] = v => rowLock'[r] = v,
         \A v \in Workers \ {w} :
           tx[v].pc \in ReservePcs /\ tx'[w].pc \in ReservePcs => tx'[w].row # tx[v].row
  PROVE  StepOfWorker(w)
  BY DEF StepOfWorker, ledgerVars

LakebasePcs == {"idle", "return"} \cup ReservePcs \cup FinalizePcs \cup ClosePcs

\* The next statement of a transaction: only its place changes.
LEMMA GotoStatement ==
  ASSUME LakebaseTypeOK, NEW w \in Workers, NEW pc \in LakebasePcs, Goto(w, pc)
  PROVE  /\ tx' \in [Workers -> Tx]
         /\ \A v \in Workers \ {w} : tx'[v] = tx[v]
         /\ tx'[w].pc = pc /\ tx'[w].session = tx[w].session /\ tx'[w].request = tx[w].request
         /\ tx'[w].row = tx[w].row /\ tx'[w].amount = tx[w].amount /\ tx'[w].live = tx[w].live
<1>1. tx \in [Workers -> Tx] /\ tx[w] \in Tx
  BY DEF LakebaseTypeOK
<1>2. tx' = [tx EXCEPT ![w] = [tx[w] EXCEPT !.pc = pc]]
  BY DEF Goto
<1>3. [tx[w] EXCEPT !.pc = pc] \in Tx
  BY <1>1 DEF Tx, LakebasePcs
<1>4. /\ tx'[w] = [tx[w] EXCEPT !.pc = pc] /\ tx' \in [Workers -> Tx]
      /\ \A v \in Workers \ {w} : tx'[v] = tx[v]
  BY <1>1, <1>2, <1>3
<1> QED BY <1>1, <1>4 DEF Tx

\* A transaction begins: the worker is executing the call.
LEMMA BeginStatement ==
  ASSUME LakebaseTypeOK, NEW w \in Workers, NEW t \in Tx, tx' = [tx EXCEPT ![w] = t]
  PROVE  /\ tx' \in [Workers -> Tx] /\ tx'[w] = t
         /\ \A v \in Workers \ {w} : tx'[v] = tx[v]
  BY DEF LakebaseTypeOK

\* Releasing locks takes none from another worker.
LEMMA ReleaseKeepsOthers ==
  ASSUME LakebaseTypeOK, NEW w \in Workers, ReleaseLocks(w)
  PROVE  /\ sessionLock' \in [Sessions -> Workers \cup {NoWorker}]
         /\ rowLock' \in [Reservations -> Workers \cup {NoWorker}]
         /\ \A v \in Workers \ {w}, s \in Sessions : sessionLock[s] = v => sessionLock'[s] = v
         /\ \A v \in Workers \ {w}, r \in Reservations : rowLock[r] = v => rowLock'[r] = v
  BY DEF LakebaseTypeOK, ReleaseLocks

\* Nor does taking a lock that is free or already held.
LEMMA LockKeepsOthers ==
  ASSUME LakebaseTypeOK, NEW w \in Workers, NEW s \in Sessions, LockSession(w, s)
  PROVE  /\ sessionLock' \in [Sessions -> Workers \cup {NoWorker}] /\ sessionLock'[s] = w
         /\ \A v \in Workers \ {w}, z \in Sessions : sessionLock[z] = v => sessionLock'[z] = v
  BY WorkerConstants DEF LakebaseTypeOK, LockSession

\* A transaction that has not begun relies on nothing.
LEMMA IdleWorker ==
  ASSUME NEW w \in Workers, tx[w].pc \in {"idle", "return"}, ~tx[w].live
  PROVE  WorkerInv(w)
  BY DEF WorkerInv, ReserveProtected, FinalizeProtected, CloseProtected, LiveIsReserves,
         ReserveLocked, FinalizeLocked, ReservePcs, FinalizePcs, ClosePcs

-----------------------------------------------------------------------------
(* Every statement keeps the invariant.                                    *)

\* A call that ends without a commit.
LEMMA RollbackStep ==
  ASSUME LakebaseInv, NEW w \in Workers, Rollback(w)
  PROVE  LakebaseInv'
<1>1. ReleaseLocks(w) /\ tx' = [tx EXCEPT ![w] = NoTx] /\ UNCHANGED ledgerVars
  BY DEF Rollback
<1>2. LakebaseTypeOK /\ TypeOK
  BY DEF LakebaseInv, LakebaseTypeOK
<1>3. tx' \in [Workers -> Tx] /\ tx'[w] = NoTx /\ \A v \in Workers \ {w} : tx'[v] = tx[v]
  BY <1>1, <1>2, NoTxType, BeginStatement
<1>4. NoTx.pc = "idle" /\ ~NoTx.live
  BY DEF NoTx
<1>5. LakebaseTypeOK'
  BY <1>1, <1>2, <1>3, ReleaseKeepsOthers DEF LakebaseTypeOK, TypeOK, NaturalHolds, ledgerVars
<1>6. StepOfWorker(w)
  <2>1. tx'[w].pc \notin ReservePcs
    BY <1>3, <1>4 DEF ReservePcs
  <2> QED BY <1>1, <1>2, <1>3, <2>1, ReleaseKeepsOthers, StatementOfWorker
<1>7. WorkerInv(w)'
  BY <1>3, <1>4
     DEF WorkerInv, ReserveProtected, FinalizeProtected, CloseProtected, LiveIsReserves,
         ReserveLocked, FinalizeLocked, ReservePcs, FinalizePcs, ClosePcs
<1> QED BY <1>5, <1>6, <1>7, WorkerKeeps

\* The result reaches the caller.
LEMMA ReturnStep ==
  ASSUME LakebaseInv, NEW w \in Workers, Return(w)
  PROVE  LakebaseInv'
<1>1. tx' = [tx EXCEPT ![w] = NoTx] /\ UNCHANGED <<ledgerVars, sessionLock, rowLock>>
  BY DEF Return
<1>2. LakebaseTypeOK /\ TypeOK
  BY DEF LakebaseInv, LakebaseTypeOK
<1>3. tx' \in [Workers -> Tx] /\ tx'[w] = NoTx /\ \A v \in Workers \ {w} : tx'[v] = tx[v]
  BY <1>1, <1>2, NoTxType, BeginStatement
<1>4. NoTx.pc = "idle" /\ ~NoTx.live
  BY DEF NoTx
<1>5. LakebaseTypeOK'
  BY <1>1, <1>2, <1>3 DEF LakebaseTypeOK, TypeOK, NaturalHolds, ledgerVars
<1>6. StepOfWorker(w)
  <2>1. tx'[w].pc \notin ReservePcs
    BY <1>3, <1>4 DEF ReservePcs
  <2> QED BY <1>1, <1>2, <1>3, <2>1, StatementOfWorker
<1>7. WorkerInv(w)'
  BY <1>3, <1>4
     DEF WorkerInv, ReserveProtected, FinalizeProtected, CloseProtected, LiveIsReserves,
         ReserveLocked, FinalizeLocked, ReservePcs, FinalizePcs, ClosePcs
<1> QED BY <1>5, <1>6, <1>7, WorkerKeeps

\* The statements of reserve_budget up to the commit: the SELECT reads under
\* the lock what the transaction relies on, and the INSERT finds no duplicate.
LEMMA ReserveStatementStep ==
  ASSUME LakebaseInv, NEW w \in Workers, ReserveSelect(w) \/ ReserveUpdate(w) \/ ReserveInsert(w)
  PROVE  LakebaseInv'
<1> DEFINE t == tx[w]
<1>1. PICK pc \in ReserveLocked : Goto(w, pc) /\ UNCHANGED <<ledgerVars, rowLock>>
  BY DEF ReserveSelect, ReserveUpdate, ReserveInsert, ReserveLocked, ReservePcs
<1>2. LakebaseTypeOK /\ TypeOK /\ t \in Tx /\ pc \in LakebasePcs
  BY <1>1 DEF LakebaseInv, LakebaseTypeOK, LakebasePcs, ReserveLocked
<1>3. /\ tx' \in [Workers -> Tx] /\ \A v \in Workers \ {w} : tx'[v] = tx[v]
      /\ tx'[w].pc = pc /\ tx'[w].session = t.session /\ tx'[w].request = t.request
      /\ tx'[w].row = t.row /\ tx'[w].amount = t.amount /\ tx'[w].live = t.live
  BY <1>1, <1>2, GotoStatement
<1>4. t.session \in Sessions /\ t.pc \in ReservePcs
  BY <1>2 DEF Tx, ReserveSelect, ReserveUpdate, ReserveInsert, ReservePcs
<1>5. /\ session[t.session] # "absent" /\ rows[t.row].state = "none"
      /\ t.amount \in {EstimateOf(out) : out \in Estimates}
      /\ \A v \in Workers \ {w} : tx[v].pc \in ReservePcs => tx[v].row # t.row
  BY <1>4 DEF LakebaseInv, WorkerInv, ReserveProtected
<1>6. /\ sessionLock' \in [Sessions -> Workers \cup {NoWorker}] /\ sessionLock'[t.session] = w
      /\ \A v \in Workers \ {w}, s \in Sessions : sessionLock[s] = v => sessionLock'[s] = v
  <2>1. CASE ReserveSelect(w) \/ ReserveUpdate(w)
    <3>1. LockSession(w, t.session)
      BY <2>1 DEF ReserveSelect, ReserveUpdate, SelectSessionForUpdate
    <3> QED BY <1>2, <1>4, <3>1, LockKeepsOthers
  <2>2. CASE ReserveInsert(w)
    <3>1. t.pc \in ReserveLocked /\ UNCHANGED sessionLock
      BY <2>2 DEF ReserveInsert, ReserveLocked, ReservePcs
    <3> QED BY <1>2, <3>1 DEF LakebaseInv, WorkerInv, ReserveProtected, LakebaseTypeOK
  <2> QED BY <2>1, <2>2
<1>7. session[t.session] = "open" /\ t.live /\ Fits(t.session, t.amount)
  <2>1. CASE ReserveSelect(w)
    BY <2>1 DEF ReserveSelect
  <2>2. CASE ReserveUpdate(w) \/ ReserveInsert(w)
    BY <2>2 DEF ReserveUpdate, ReserveInsert, ReserveLocked, ReservePcs,
                LakebaseInv, WorkerInv, ReserveProtected
  <2> QED BY <2>1, <2>2
<1>8. pc = "reserve_commit" => ~DuplicateRequest(t.session, t.request)
  <2>1. CASE ReserveSelect(w) \/ ReserveUpdate(w)
    <3>1. pc # "reserve_commit"
      BY <1>3, <2>1, <1>2 DEF ReserveSelect, ReserveUpdate, Goto, LakebaseTypeOK, Tx
    <3> QED BY <3>1
  <2>2. CASE ReserveInsert(w)
    BY <2>2 DEF ReserveInsert
  <2> QED BY <2>1, <2>2
<1>9. LakebaseTypeOK'
  BY <1>1, <1>2, <1>3, <1>6 DEF LakebaseTypeOK, TypeOK, NaturalHolds, ledgerVars
<1>10. StepOfWorker(w)
  BY <1>1, <1>3, <1>5, <1>6, StatementOfWorker
<1>11. /\ Fits(t.session, t.amount)'
       /\ pc = "reserve_commit" => ~DuplicateRequest(t.session, t.request)'
  BY <1>1, <1>3, <1>7, <1>8 DEF Fits, DuplicateRequest, ledgerVars
<1>12. ReserveProtected(w)'
  BY <1>1, <1>3, <1>5, <1>6, <1>7, <1>11 DEF ReserveProtected, ledgerVars
<1>13. FinalizeProtected(w)' /\ CloseProtected(w)' /\ LiveIsReserves(w)'
  BY <1>1, <1>3, <1>5
     DEF FinalizeProtected, CloseProtected, LiveIsReserves, ReserveLocked, FinalizeLocked,
         ReservePcs, FinalizePcs, ClosePcs, ledgerVars
<1> QED BY <1>9, <1>10, <1>12, <1>13, WorkerKeeps DEF WorkerInv

\* The statements of finalize_reservation up to the commit.
LEMMA FinalizeStatementStep ==
  ASSUME LakebaseInv, NEW w \in Workers,
         FinalizeSelect(w) \/ FinalizeCharge(w) \/ FinalizeMark(w)
  PROVE  LakebaseInv'
<1> DEFINE t == tx[w]
<1>1. PICK pc \in FinalizeLocked : Goto(w, pc) /\ UNCHANGED ledgerVars
  BY DEF FinalizeSelect, FinalizeCharge, FinalizeMark, FinalizeLocked, FinalizePcs
<1>2. LakebaseTypeOK /\ TypeOK /\ t \in Tx /\ pc \in LakebasePcs
  BY <1>1 DEF LakebaseInv, LakebaseTypeOK, LakebasePcs, FinalizeLocked
<1>3. /\ tx' \in [Workers -> Tx] /\ \A v \in Workers \ {w} : tx'[v] = tx[v]
      /\ tx'[w].pc = pc /\ tx'[w].session = t.session /\ tx'[w].request = t.request
      /\ tx'[w].row = t.row /\ tx'[w].amount = t.amount /\ tx'[w].live = t.live
  BY <1>1, <1>2, GotoStatement
<1>4. t.session \in Sessions /\ t.row \in Reservations /\ t.pc \in FinalizePcs
  BY <1>2 DEF Tx, FinalizeSelect, FinalizeCharge, FinalizeMark, FinalizePcs
<1>5. /\ rows[t.row].state # "none" /\ t.session = rows[t.row].session /\ t.amount \in Charges
      /\ ~t.live
  BY <1>4 DEF LakebaseInv, WorkerInv, FinalizeProtected, LiveIsReserves, FinalizePcs, ReservePcs
<1>6. /\ rowLock' \in [Reservations -> Workers \cup {NoWorker}] /\ rowLock'[t.row] = w
      /\ rows[t.row].state = "open"
      /\ \A v \in Workers \ {w}, r \in Reservations : rowLock[r] = v => rowLock'[r] = v
  <2>1. CASE FinalizeSelect(w)
    BY <1>2, <1>4, <2>1, WorkerConstants DEF FinalizeSelect, SelectRowForUpdate, LakebaseTypeOK
  <2>2. CASE FinalizeCharge(w) \/ FinalizeMark(w)
    <3>1. t.pc \in FinalizeLocked /\ UNCHANGED rowLock
      BY <2>2 DEF FinalizeCharge, FinalizeMark, FinalizeLocked, FinalizePcs
    <3> QED BY <1>2, <3>1 DEF LakebaseInv, WorkerInv, FinalizeProtected, LakebaseTypeOK
  <2> QED BY <2>1, <2>2
<1>7. /\ sessionLock' \in [Sessions -> Workers \cup {NoWorker}]
      /\ pc # "finalize_charge" => sessionLock'[t.session] = w
      /\ \A v \in Workers \ {w}, s \in Sessions : sessionLock[s] = v => sessionLock'[s] = v
  <2>1. CASE FinalizeSelect(w)
    <3>1. pc = "finalize_charge" /\ UNCHANGED sessionLock
      BY <1>2, <1>3, <2>1 DEF FinalizeSelect, Goto, LakebaseTypeOK, Tx
    <3> QED BY <1>2, <3>1 DEF LakebaseTypeOK
  <2>2. CASE FinalizeCharge(w)
    BY <1>2, <1>4, <2>2, LockKeepsOthers DEF FinalizeCharge
  <2>3. CASE FinalizeMark(w)
    BY <1>2, <2>3 DEF FinalizeMark, LakebaseInv, WorkerInv, FinalizeProtected, LakebaseTypeOK
  <2> QED BY <2>1, <2>2, <2>3
<1>8. LakebaseTypeOK'
  BY <1>1, <1>2, <1>3, <1>6, <1>7 DEF LakebaseTypeOK, TypeOK, NaturalHolds, ledgerVars
<1>9. StepOfWorker(w)
  <2>1. tx'[w].pc \notin ReservePcs
    BY <1>1, <1>3 DEF FinalizeLocked, FinalizePcs, ReservePcs
  <2> QED BY <1>1, <1>3, <1>6, <1>7, <2>1, StatementOfWorker
<1>10. FinalizeProtected(w)'
  BY <1>1, <1>3, <1>5, <1>6, <1>7 DEF FinalizeProtected, FinalizeLocked, FinalizePcs, ledgerVars
<1>11. ReserveProtected(w)' /\ CloseProtected(w)' /\ LiveIsReserves(w)'
  BY <1>1, <1>3, <1>5
     DEF ReserveProtected, CloseProtected, LiveIsReserves, ReserveLocked, FinalizeLocked,
         ReservePcs, FinalizePcs, ClosePcs
<1> QED BY <1>8, <1>9, <1>10, <1>11, WorkerKeeps DEF WorkerInv

\* The UPDATE of close_session.
LEMMA CloseUpdateStep ==
  ASSUME LakebaseInv, NEW w \in Workers, CloseUpdate(w)
  PROVE  LakebaseInv'
<1> DEFINE t == tx[w]
<1>1. /\ t.pc = "close_update" /\ LockSession(w, t.session) /\ Goto(w, "close_commit")
      /\ UNCHANGED <<ledgerVars, rowLock>>
  BY DEF CloseUpdate
<1>2. /\ LakebaseTypeOK /\ TypeOK /\ t \in Tx /\ "close_commit" \in LakebasePcs
      /\ t.session \in Sessions
  BY DEF LakebaseInv, LakebaseTypeOK, LakebasePcs, ClosePcs, Tx
<1>3. /\ tx' \in [Workers -> Tx] /\ \A v \in Workers \ {w} : tx'[v] = tx[v]
      /\ tx'[w].pc = "close_commit" /\ tx'[w].session = t.session /\ tx'[w].live = t.live
  BY <1>1, <1>2, GotoStatement
<1>4. session[t.session] # "absent" /\ ~t.live
  BY <1>1 DEF LakebaseInv, WorkerInv, CloseProtected, LiveIsReserves, ClosePcs, ReservePcs
<1>5. /\ sessionLock' \in [Sessions -> Workers \cup {NoWorker}] /\ sessionLock'[t.session] = w
      /\ \A v \in Workers \ {w}, s \in Sessions : sessionLock[s] = v => sessionLock'[s] = v
  BY <1>1, <1>2, LockKeepsOthers
<1>6. LakebaseTypeOK'
  BY <1>1, <1>2, <1>3, <1>5 DEF LakebaseTypeOK, TypeOK, NaturalHolds, ledgerVars
<1>7. StepOfWorker(w)
  <2>1. tx'[w].pc \notin ReservePcs
    BY <1>3 DEF ReservePcs
  <2> QED BY <1>1, <1>3, <1>5, <2>1, StatementOfWorker
<1>8. WorkerInv(w)'
  BY <1>1, <1>3, <1>4, <1>5
     DEF WorkerInv, ReserveProtected, FinalizeProtected, CloseProtected, LiveIsReserves,
         ReserveLocked, FinalizeLocked, ReservePcs, FinalizePcs, ClosePcs, ledgerVars
<1> QED BY <1>6, <1>7, <1>8, WorkerKeeps

\* A transaction of reserve_budget begins with a reservation id of its own.
LEMMA BeginReserveStep ==
  ASSUME LakebaseInv, NEW w \in Workers, NEW s \in Sessions, NEW q \in RequestIds,
         NEW out \in Estimates, BeginReserve(w, s, q, out)
  PROVE  LakebaseInv'
<1>1. PICK r \in FreshRows :
        Begin(w, [pc |-> "reserve_select", session |-> s, request |-> q, row |-> r,
                  amount |-> EstimateOf(out), live |-> ~expired[s]])
  BY DEF BeginReserve
<1> DEFINE live == ~expired[s]
           t == [pc |-> "reserve_select", session |-> s, request |-> q, row |-> r,
                 amount |-> EstimateOf(out), live |-> live]
<1>2. /\ session[s] # "absent" /\ tx' = [tx EXCEPT ![w] = t]
      /\ UNCHANGED <<ledgerVars, sessionLock, rowLock>>
  BY <1>1 DEF BeginReserve, Begin
<1>3. LakebaseTypeOK /\ TypeOK /\ EstimateOf(out) \in Balance /\ live \in BOOLEAN
  BY AmountTypes DEF LakebaseInv, LakebaseTypeOK
<1> HIDE DEF live
<1>4. /\ r \in Reservations /\ rows[r].state = "none"
      /\ \A v \in Workers : tx[v].row = r => tx[v].pc \notin ReservePcs
  BY DEF FreshRows
<1>5. t \in Tx
  BY <1>3, <1>4 DEF Tx, ReservePcs
<1>6. tx' \in [Workers -> Tx] /\ tx'[w] = t /\ \A v \in Workers \ {w} : tx'[v] = tx[v]
  BY <1>2, <1>3, <1>5, BeginStatement
<1>7. LakebaseTypeOK'
  BY <1>2, <1>3, <1>6 DEF LakebaseTypeOK, TypeOK, NaturalHolds, ledgerVars
<1>8. StepOfWorker(w)
  BY <1>2, <1>4, <1>6, StatementOfWorker
<1>9. WorkerInv(w)'
  BY <1>2, <1>4, <1>6
     DEF WorkerInv, ReserveProtected, FinalizeProtected, CloseProtected, LiveIsReserves,
         ReserveLocked, FinalizeLocked, ReservePcs, FinalizePcs, ClosePcs, ledgerVars
<1> QED BY <1>7, <1>8, <1>9, WorkerKeeps

\* So do those of finalize_reservation, of a row that exists, and close_session.
LEMMA BeginFinalizeStep ==
  ASSUME LakebaseInv, NEW w \in Workers, NEW r \in Reservations, NEW charge \in Charges,
         BeginFinalize(w, r, charge)
  PROVE  LakebaseInv'
<1> DEFINE t == [NoTx EXCEPT !.pc = "finalize_select", !.session = rows[r].session,
                             !.row = r, !.amount = charge]
<1>1. /\ rows[r].state # "none" /\ tx' = [tx EXCEPT ![w] = t]
      /\ UNCHANGED <<ledgerVars, sessionLock, rowLock>>
  BY DEF BeginFinalize, Begin
<1>2. LakebaseTypeOK /\ TypeOK /\ charge \in Balance /\ rows[r].session \in Sessions
  BY AmountTypes DEF LakebaseInv, LakebaseTypeOK, TypeOK, Row
<1>3. /\ t \in Tx /\ t.pc = "finalize_select" /\ t.session = rows[r].session
      /\ t.row = r /\ t.amount = charge /\ ~t.live
  <2>1. NoTx.live = FALSE
    BY DEF NoTx
  <2> QED BY <1>2, <2>1, NoTxType DEF Tx, FinalizePcs
<1> HIDE DEF t
<1>4. tx' \in [Workers -> Tx] /\ tx'[w] = t /\ \A v \in Workers \ {w} : tx'[v] = tx[v]
  BY <1>1, <1>2, <1>3, BeginStatement
<1>5. LakebaseTypeOK'
  BY <1>1, <1>2, <1>4 DEF LakebaseTypeOK, TypeOK, NaturalHolds, ledgerVars
<1>6. StepOfWorker(w)
  <2>1. tx'[w].pc \notin ReservePcs
    BY <1>3, <1>4 DEF ReservePcs
  <2> QED BY <1>1, <1>4, <2>1, StatementOfWorker
<1>7. WorkerInv(w)'
  BY <1>1, <1>3, <1>4
     DEF WorkerInv, ReserveProtected, FinalizeProtected, CloseProtected, LiveIsReserves,
         ReserveLocked, FinalizeLocked, ReservePcs, FinalizePcs, ClosePcs, ledgerVars
<1> QED BY <1>5, <1>6, <1>7, WorkerKeeps

\* close_session begins.
LEMMA BeginCloseStep ==
  ASSUME LakebaseInv, NEW w \in Workers, NEW s \in Sessions, BeginClose(w, s)
  PROVE  LakebaseInv'
<1> DEFINE t == [NoTx EXCEPT !.pc = "close_update", !.session = s]
<1>1. /\ session[s] # "absent" /\ tx' = [tx EXCEPT ![w] = t]
      /\ UNCHANGED <<ledgerVars, sessionLock, rowLock>>
  BY DEF BeginClose, Begin
<1>2. LakebaseTypeOK /\ TypeOK
  BY DEF LakebaseInv, LakebaseTypeOK
<1>3. t \in Tx /\ t.pc = "close_update" /\ t.session = s /\ ~t.live
  <2>1. NoTx.live = FALSE
    BY DEF NoTx
  <2> QED BY <2>1, NoTxType DEF Tx, ClosePcs
<1> HIDE DEF t
<1>4. tx' \in [Workers -> Tx] /\ tx'[w] = t /\ \A v \in Workers \ {w} : tx'[v] = tx[v]
  BY <1>1, <1>2, <1>3, BeginStatement
<1>5. LakebaseTypeOK'
  BY <1>1, <1>2, <1>4 DEF LakebaseTypeOK, TypeOK, NaturalHolds, ledgerVars
<1>6. StepOfWorker(w)
  <2>1. tx'[w].pc \notin ReservePcs
    BY <1>3, <1>4 DEF ReservePcs
  <2> QED BY <1>1, <1>4, <2>1, StatementOfWorker
<1>7. WorkerInv(w)'
  BY <1>1, <1>3, <1>4
     DEF WorkerInv, ReserveProtected, FinalizeProtected, CloseProtected, LiveIsReserves,
         ReserveLocked, FinalizeLocked, ReservePcs, FinalizePcs, ClosePcs, ledgerVars
<1> QED BY <1>5, <1>6, <1>7, WorkerKeeps

-----------------------------------------------------------------------------
(* The commits: each is the atomic call, and touches only what is locked.  *)

\* The transaction is over when its commit is.
LEMMA CommitEnds ==
  ASSUME LakebaseTypeOK, NEW w \in Workers, Goto(w, "return"), ReleaseLocks(w), TypeOK'
  PROVE  /\ LakebaseTypeOK'
         /\ \A v \in Workers \ {w} : tx'[v] = tx[v]
         /\ tx'[w].pc = "return" /\ tx'[w].session = tx[w].session /\ tx'[w].live = tx[w].live
<1>1. "return" \in LakebasePcs
  BY DEF LakebasePcs
<1>2. /\ tx' \in [Workers -> Tx] /\ \A v \in Workers \ {w} : tx'[v] = tx[v]
      /\ tx'[w].pc = "return" /\ tx'[w].session = tx[w].session /\ tx'[w].live = tx[w].live
  BY <1>1, GotoStatement
<1> QED BY <1>2, ReleaseKeepsOthers DEF LakebaseTypeOK

\* What the commit of reserve_budget does to the ledger is an admission.
LEMMA ReserveCommitAdmits ==
  ASSUME LakebaseInv, NEW w \in Workers, ReserveCommit(w)
  PROVE  LET t == tx[w] IN
         /\ Admission(t.session, t.request, t.row, t.amount)
         /\ t.session \in Sessions /\ t.request \in RequestIds /\ t.row \in Reservations
         /\ t.amount \in Balance /\ t.amount \in {EstimateOf(out) : out \in Estimates}
         /\ sessionLock[t.session] = w /\ session[t.session] = "open" /\ t.live
         /\ ~DuplicateRequest(t.session, t.request)
         /\ TypeOK'
<1> DEFINE t == tx[w]
<1>1. TypeOK /\ t \in Tx /\ t.pc = "reserve_commit"
  BY DEF LakebaseInv, LakebaseTypeOK, ReserveCommit
<1>2. /\ t.session \in Sessions /\ t.request \in RequestIds /\ t.row \in Reservations
      /\ t.amount \in Balance
  BY <1>1 DEF Tx
<1>3. t.pc \in ReservePcs /\ t.pc \in ReserveLocked
  BY <1>1 DEF ReservePcs, ReserveLocked
<1>4. /\ rows[t.row].state = "none" /\ t.amount \in {EstimateOf(out) : out \in Estimates}
      /\ sessionLock[t.session] = w /\ session[t.session] = "open" /\ t.live
      /\ Fits(t.session, t.amount) /\ ~DuplicateRequest(t.session, t.request)
  BY <1>1, <1>3 DEF LakebaseInv, WorkerInv, ReserveProtected
<1>5. Admission(t.session, t.request, t.row, t.amount)
  BY <1>4 DEF ReserveCommit, Admission
<1>6. TypeOK'
  BY <1>1, <1>2, <1>5, AdmissionTypes
<1> QED BY <1>2, <1>4, <1>5, <1>6

\* The commit of reserve_budget, its guard still true, keeps the invariant.
LEMMA ReserveCommitStep ==
  ASSUME LakebaseInv, NEW w \in Workers, ReserveCommit(w)
  PROVE  LakebaseInv'
<1> DEFINE t == tx[w]
<1>1. /\ LakebaseTypeOK /\ TypeOK /\ t.pc = "reserve_commit" /\ ReleaseLocks(w) /\ Goto(w, "return")
      /\ Admit(t.session, t.request, t.row, t.amount)
  BY DEF LakebaseInv, LakebaseTypeOK, ReserveCommit
<1>2. /\ t.session \in Sessions /\ t.row \in Reservations /\ sessionLock[t.session] = w
      /\ rows[t.row].state = "none" /\ TypeOK' /\ session[t.session] = "open"
  BY ReserveCommitAdmits DEF Admission
<1>3. /\ LakebaseTypeOK'
      /\ \A v \in Workers \ {w} : tx'[v] = tx[v]
      /\ tx'[w].pc = "return" /\ tx'[w].session = t.session /\ tx'[w].live = t.live
  BY <1>1, <1>2, CommitEnds
<1>4. /\ UNCHANGED <<session, spent>>
      /\ \A s \in Sessions : s # t.session => reserved'[s] = reserved[s]
      /\ \A r \in Reservations : r # t.row => rows'[r] = rows[r]
      /\ rows'[t.row].state = "open" /\ rows'[t.row].session = t.session
  BY <1>1, <1>2 DEF Admit, TypeOK
<1>5. \A v \in Workers \ {w} : tx[v].pc \in ReservePcs => tx[v].row \in Reservations /\ tx[v].row # t.row
  BY <1>1 DEF LakebaseInv, LakebaseTypeOK, Tx, WorkerInv, ReserveProtected, ReservePcs
<1>6. StepOfWorker(w)
  BY <1>1, <1>2, <1>3, <1>4, <1>5, ReleaseKeepsOthers DEF StepOfWorker, ReservePcs
<1>7. WorkerInv(w)'
  BY <1>2, <1>3, <1>4
     DEF WorkerInv, ReserveProtected, FinalizeProtected, CloseProtected, LiveIsReserves,
         ReserveLocked, FinalizeLocked, ReservePcs, FinalizePcs, ClosePcs
<1> QED BY <1>3, <1>6, <1>7, WorkerKeeps

\* The commit of finalize_reservation is Finalize, of an open row, with the
\* lock of its session held.
LEMMA FinalizeCommitSettles ==
  ASSUME LakebaseInv, NEW w \in Workers, FinalizeCommit(w)
  PROVE  LET t == tx[w] IN
         /\ Finalize(t.row, t.amount)
         /\ t.session \in Sessions /\ t.row \in Reservations /\ t.amount \in Charges
         /\ t.session = rows[t.row].session /\ sessionLock[t.session] = w /\ rowLock[t.row] = w
         /\ ~t.live /\ TypeOK'
<1> DEFINE t == tx[w]
<1>1. TypeOK /\ t \in Tx /\ t.pc = "finalize_commit"
  BY DEF LakebaseInv, LakebaseTypeOK, FinalizeCommit
<1>2. t.session \in Sessions /\ t.row \in Reservations
  BY <1>1 DEF Tx
<1>3. t.pc \in FinalizePcs /\ t.pc \in FinalizeLocked
  BY <1>1 DEF FinalizePcs, FinalizeLocked
<1>4. /\ t.session = rows[t.row].session /\ t.amount \in Charges /\ rowLock[t.row] = w
      /\ rows[t.row].state = "open" /\ sessionLock[t.session] = w /\ ~t.live
  BY <1>1, <1>3 DEF LakebaseInv, WorkerInv, FinalizeProtected, LiveIsReserves, ReservePcs
<1>5. Finalize(t.row, t.amount)
  BY <1>4 DEF FinalizeCommit, Finalize
<1>6. TypeOK'
  BY <1>1, <1>2, <1>4, <1>5, AmountTypes, FinalizeTypes
<1> QED BY <1>2, <1>4, <1>5, <1>6

\* So does that of finalize_reservation.
LEMMA FinalizeCommitStep ==
  ASSUME LakebaseInv, NEW w \in Workers, FinalizeCommit(w)
  PROVE  LakebaseInv'
<1> DEFINE t == tx[w]
<1>1. /\ LakebaseTypeOK /\ TypeOK /\ ReleaseLocks(w) /\ Goto(w, "return")
  BY DEF LakebaseInv, LakebaseTypeOK, FinalizeCommit
<1>2. /\ Finalize(t.row, t.amount) /\ t.session \in Sessions /\ t.row \in Reservations
      /\ t.session = rows[t.row].session /\ sessionLock[t.session] = w /\ rowLock[t.row] = w
      /\ ~t.live /\ TypeOK'
  BY FinalizeCommitSettles
<1>3. /\ LakebaseTypeOK'
      /\ \A v \in Workers \ {w} : tx'[v] = tx[v]
      /\ tx'[w].pc = "return" /\ ~tx'[w].live
  BY <1>1, <1>2, CommitEnds
<1>4. /\ UNCHANGED session /\ rows[t.row].state = "open"
      /\ \A s \in Sessions : s # t.session => reserved'[s] = reserved[s] /\ spent'[s] = spent[s]
      /\ \A r \in Reservations : r # t.row => rows'[r] = rows[r]
      /\ rows'[t.row].state = "final" /\ rows'[t.row].session = rows[t.row].session
  <2>1. rows[t.row] \in Row
    BY <1>1, <1>2 DEF TypeOK
  <2>2. UNCHANGED session /\ rows[t.row].state = "open"
    BY <1>2 DEF Finalize, Settle
  <2>3. \A s \in Sessions : s # t.session => reserved'[s] = reserved[s] /\ spent'[s] = spent[s]
    BY <1>1, <1>2 DEF Finalize, Settle, TypeOK
  <2>4. /\ \A r \in Reservations : r # t.row => rows'[r] = rows[r]
        /\ rows'[t.row].state = "final" /\ rows'[t.row].session = rows[t.row].session
    BY <1>1, <1>2, <2>1 DEF Finalize, Settle, TypeOK, Row
  <2> QED BY <2>2, <2>3, <2>4
<1>5. \A v \in Workers \ {w} : tx[v].pc \in ReservePcs => tx[v].row \in Reservations /\ tx[v].row # t.row
  BY <1>1, <1>4 DEF LakebaseInv, LakebaseTypeOK, Tx, WorkerInv, ReserveProtected
<1>6. StepOfWorker(w)
  BY <1>1, <1>2, <1>3, <1>4, <1>5, ReleaseKeepsOthers DEF StepOfWorker, ReservePcs
<1>7. WorkerInv(w)'
  BY <1>3
     DEF WorkerInv, ReserveProtected, FinalizeProtected, CloseProtected, LiveIsReserves,
         ReserveLocked, FinalizeLocked, ReservePcs, FinalizePcs, ClosePcs
<1> QED BY <1>3, <1>6, <1>7, WorkerKeeps

\* The commit of close_session is CloseSession.
LEMMA CloseCommitStep ==
  ASSUME LakebaseInv, NEW w \in Workers, CloseCommit(w)
  PROVE  LakebaseInv' /\ CloseSession(tx[w].session) /\ tx[w].session \in Sessions /\ ~tx[w].live
<1> DEFINE t == tx[w]
<1>1. /\ LakebaseTypeOK /\ TypeOK /\ ReleaseLocks(w) /\ Goto(w, "return") /\ t \in Tx
      /\ t.pc = "close_commit" /\ session' = [session EXCEPT ![t.session] = "closed"]
      /\ UNCHANGED <<expired, spent, reserved, rows>>
  BY DEF LakebaseInv, LakebaseTypeOK, CloseCommit
<1>2. /\ t.session \in Sessions /\ session[t.session] # "absent" /\ sessionLock[t.session] = w
      /\ ~t.live
  BY <1>1 DEF Tx, LakebaseInv, WorkerInv, CloseProtected, LiveIsReserves, ClosePcs, ReservePcs
<1>3. TypeOK'
  BY <1>1, <1>2 DEF TypeOK, NaturalHolds
<1>4. /\ LakebaseTypeOK'
      /\ \A v \in Workers \ {w} : tx'[v] = tx[v]
      /\ tx'[w].pc = "return" /\ ~tx'[w].live
  BY <1>1, <1>2, <1>3, CommitEnds
<1>5. /\ session'[t.session] = "closed"
      /\ \A s \in Sessions : s # t.session => session'[s] = session[s]
  BY <1>1, <1>2 DEF TypeOK
<1>6. StepOfWorker(w)
  BY <1>1, <1>2, <1>4, <1>5, ReleaseKeepsOthers DEF StepOfWorker, ReservePcs
<1>7. WorkerInv(w)'
  BY <1>4
     DEF WorkerInv, ReserveProtected, FinalizeProtected, CloseProtected, LiveIsReserves,
         ReserveLocked, FinalizeLocked, ReservePcs, FinalizePcs, ClosePcs
<1>8. LakebaseInv'
  BY <1>4, <1>6, <1>7, WorkerKeeps
<1>9. CloseSession(t.session)
  BY <1>1, <1>2 DEF CloseSession
<1> QED BY <1>2, <1>8, <1>9

\* The statements outside any transaction, and the clock, concern sessions no
\* transaction relies on, or a time it has already read.
LEMMA OutsideStep ==
  ASSUME LakebaseInv, NEW s \in Sessions, Create(s) \/ Clock(s)
  PROVE  LakebaseInv'
<1>1. UNCHANGED <<spent, reserved, rows, tx, sessionLock, rowLock>>
  BY DEF Create, Clock, CreateSession, Expire
<1>2. LakebaseTypeOK' /\ TypeOK
  BY DEF LakebaseInv, LakebaseTypeOK, TypeOK, NaturalHolds, Create, Clock, CreateSession, Expire
<1>3. \A z \in Sessions : session[z] # "absent" => session'[z] = session[z]
  BY <1>2 DEF Create, Clock, CreateSession, Expire, TypeOK
<1>4. ASSUME NEW v \in Workers
      PROVE  WorkerInv(v)'
  <2>1. tx[v].session \in Sessions
    BY DEF LakebaseInv, LakebaseTypeOK, Tx
  <2>2. /\ Fits(tx[v].session, tx[v].amount)' = Fits(tx[v].session, tx[v].amount)
        /\ DuplicateRequest(tx[v].session, tx[v].request)'
             = DuplicateRequest(tx[v].session, tx[v].request)
    BY <1>1 DEF Fits, DuplicateRequest
  <2>3. ReserveProtected(v)'
    BY <1>1, <1>3, <2>1, <2>2 DEF LakebaseInv, WorkerInv, ReserveProtected
  <2>4. FinalizeProtected(v)' /\ CloseProtected(v)' /\ LiveIsReserves(v)'
    BY <1>1, <1>3, <2>1
       DEF LakebaseInv, WorkerInv, FinalizeProtected, CloseProtected, LiveIsReserves
  <2> QED BY <2>3, <2>4 DEF WorkerInv
<1> QED BY <1>2, <1>4 DEF LakebaseInv

-----------------------------------------------------------------------------
\* The store starts with no sessions, no transactions and no locks.
LEMMA InitLakebaseInv == LakebaseInit => LakebaseInv
<1> SUFFICES ASSUME LakebaseInit
             PROVE  LakebaseInv
  OBVIOUS
<1>1. LakebaseTypeOK
  BY InitTypeOK, NoTxType DEF LakebaseInit, LakebaseTypeOK
<1>2. \A w \in Workers : tx[w].pc = "idle" /\ ~tx[w].live
  BY DEF LakebaseInit, NoTx
<1>3. \A w \in Workers : WorkerInv(w)
  BY <1>2, IdleWorker
<1> QED BY <1>1, <1>3 DEF LakebaseInv

\* Every step of every worker keeps the invariant.
LEMMA NextLakebaseInv == LakebaseInv /\ [LakebaseNext]_lakebaseVars => LakebaseInv'
<1> SUFFICES ASSUME LakebaseInv, [LakebaseNext]_lakebaseVars
             PROVE  LakebaseInv'
  OBVIOUS
<1>1. ASSUME NEW s \in Sessions, Create(s) \/ Clock(s)
      PROVE  LakebaseInv'
  BY <1>1, OutsideStep
<1>2. ASSUME NEW w \in Workers, NEW s \in Sessions, NEW q \in RequestIds, NEW out \in Estimates,
             BeginReserve(w, s, q, out)
      PROVE  LakebaseInv'
  BY <1>2, BeginReserveStep
<1>3. ASSUME NEW w \in Workers, NEW r \in Reservations, NEW charge \in Charges,
             BeginFinalize(w, r, charge)
      PROVE  LakebaseInv'
  BY <1>3, BeginFinalizeStep
<1>4. ASSUME NEW w \in Workers, NEW s \in Sessions, BeginClose(w, s)
      PROVE  LakebaseInv'
  BY <1>4, BeginCloseStep
<1>5. ASSUME NEW w \in Workers, WorkerStep(w) \/ Crash(w)
      PROVE  LakebaseInv'
  <2>1. CASE ReserveRefused(w) \/ ReserveDuplicate(w) \/ FinalizeAgain(w) \/ Crash(w)
    BY <2>1, RollbackStep DEF ReserveRefused, ReserveDuplicate, FinalizeAgain, Crash
  <2>2. CASE ReserveSelect(w) \/ ReserveUpdate(w) \/ ReserveInsert(w)
    BY <2>2, ReserveStatementStep
  <2>3. CASE FinalizeSelect(w) \/ FinalizeCharge(w) \/ FinalizeMark(w)
    BY <2>3, FinalizeStatementStep
  <2> QED BY <1>5, <2>1, <2>2, <2>3, ReserveCommitStep, FinalizeCommitStep, CloseUpdateStep,
             CloseCommitStep, ReturnStep DEF WorkerStep
<1>6. CASE UNCHANGED lakebaseVars
  <2>1. LakebaseTypeOK'
    BY <1>6 DEF LakebaseInv, LakebaseTypeOK, TypeOK, NaturalHolds, lakebaseVars, ledgerVars
  <2>2. ASSUME NEW v \in Workers
        PROVE  WorkerInv(v)'
    BY <1>6 DEF lakebaseVars, ledgerVars, LakebaseInv, WorkerInv, ReserveProtected,
                FinalizeProtected, CloseProtected, LiveIsReserves, Fits, DuplicateRequest
  <2> QED BY <2>1, <2>2 DEF LakebaseInv
<1> QED BY <1>1, <1>2, <1>3, <1>4, <1>5, <1>6 DEF LakebaseNext

\* The inductive invariant holds in every reachable state of the store.
THEOREM LakebaseInvariant == LakebaseSpec => []LakebaseInv
<1> QED BY InitLakebaseInv, NextLakebaseInv, PTL DEF LakebaseSpec

\* Every reachable state of the store is well typed.
THEOREM LakebaseTypeCorrect == LakebaseSpec => []LakebaseTypeOK
<1>1. LakebaseInv => LakebaseTypeOK
  BY DEF LakebaseInv
<1> QED BY <1>1, LakebaseInvariant, PTL

-----------------------------------------------------------------------------
(* The refinement: what each statement looks like from outside.            *)

\* A call of w that found s live before its deadline may still be admitted, or
\* has been and has not returned.
HoldsBack(w, s) == tx[w].session = s /\ tx[w].live /\ tx[w].pc \in ReservePcs \cup {"return"}

\* The deadline as the ledger sees it, before and after a step: passed when no
\* call holds it back.
LEMMA ExpiredForAllMeans ==
  /\ ExpiredForAll \in [Sessions -> BOOLEAN] /\ ExpiredForAll' \in [Sessions -> BOOLEAN]
  /\ \A s \in Sessions :
       /\ ExpiredForAll[s] <=> expired[s] /\ \A w \in Workers : ~HoldsBack(w, s)
       /\ ExpiredForAll'[s] <=> expired'[s] /\ \A w \in Workers : ~HoldsBack(w, s)'
<1>1. ExpiredForAll \in [Sessions -> BOOLEAN] /\ ExpiredForAll' \in [Sessions -> BOOLEAN]
  BY DEF ExpiredForAll
<1>2. ASSUME NEW s \in Sessions
      PROVE  /\ ExpiredForAll[s] <=> expired[s] /\ \A w \in Workers : ~HoldsBack(w, s)
             /\ ExpiredForAll'[s] <=> expired'[s] /\ \A w \in Workers : ~HoldsBack(w, s)'
  BY DEF ExpiredForAll, HoldsBack
<1> QED BY <1>1, <1>2

\* A table of flags that differs from another in one flag, which is set.
LEMMA OneFlagSet ==
  ASSUME NEW E \in [Sessions -> BOOLEAN], NEW F \in [Sessions -> BOOLEAN], NEW s \in Sessions,
         F[s], \A z \in Sessions \ {s} : F[z] <=> E[z]
  PROVE  F = [E EXCEPT ![s] = TRUE]
<1>1. \A z \in Sessions : F[z] = [E EXCEPT ![s] = TRUE][z]
  OBVIOUS
<1> QED BY <1>1

\* Nothing that moves from one place to another while its deadline stays held
\* back, or not, is seen at all.
LEMMA SameExpiry ==
  ASSUME UNCHANGED expired,
         \A w \in Workers, s \in Sessions : HoldsBack(w, s)' <=> HoldsBack(w, s)
  PROVE  ExpiredForAll' = ExpiredForAll
<1>1. \A s \in Sessions : ExpiredForAll'[s] <=> ExpiredForAll[s]
  BY ExpiredForAllMeans
<1> QED BY <1>1, ExpiredForAllMeans

\* A statement that writes nothing is a stutter of the ledger, or the moment
\* at which its session's deadline is passed for everyone.
LEMMA StatementRefines ==
  ASSUME LakebaseInv, NEW w \in Workers, UNCHANGED ledgerVars,
         \A v \in Workers \ {w} : tx'[v] = tx[v],
         \A s \in Sessions : HoldsBack(w, s)' => HoldsBack(w, s) \/ ~expired[s]
  PROVE  [Ledger!LedgerNext]_(Ledger!ledgerVars)
<1>1. UNCHANGED <<session, expired, spent, reserved, rows>>
  BY DEF ledgerVars
<1>2. tx[w].session \in Sessions
  BY DEF LakebaseInv, LakebaseTypeOK, Tx
<1>3. \A v \in Workers \ {w}, s \in Sessions : HoldsBack(v, s)' <=> HoldsBack(v, s)
  BY DEF HoldsBack
<1>4. \A s \in Sessions : ExpiredForAll[s] => ExpiredForAll'[s]
  BY <1>1, <1>3, ExpiredForAllMeans
<1>5. \A s \in Sessions \ {tx[w].session} : ExpiredForAll'[s] <=> ExpiredForAll[s]
  <2>1. \A s \in Sessions \ {tx[w].session} : ~HoldsBack(w, s)
    BY DEF HoldsBack
  <2> QED BY <1>1, <1>3, <1>4, <2>1, ExpiredForAllMeans
<1>6. CASE ExpiredForAll'[tx[w].session] <=> ExpiredForAll[tx[w].session]
  <2>1. ExpiredForAll' = ExpiredForAll
    <3>1. \A s \in Sessions : ExpiredForAll'[s] <=> ExpiredForAll[s]
      BY <1>5, <1>6
    <3> QED BY <3>1, ExpiredForAllMeans
  <2> QED BY <1>1, <2>1 DEF Ledger!ledgerVars
<1>7. CASE ExpiredForAll'[tx[w].session] /\ ~ExpiredForAll[tx[w].session]
  <2> DEFINE s == tx[w].session
  <2>1. ExpiredForAll' = [ExpiredForAll EXCEPT ![s] = TRUE]
    <3> HIDE DEF s
    <3>1. s \in Sessions /\ ExpiredForAll'[s] /\ \A z \in Sessions \ {s} : ExpiredForAll'[z] <=> ExpiredForAll[z]
      BY <1>2, <1>5, <1>7 DEF s
    <3> QED BY <3>1, ExpiredForAllMeans, OneFlagSet
  <2>2. \E v \in Workers : HoldsBack(v, s)
    BY <1>1, <1>2, <1>7, ExpiredForAllMeans
  <2>3. session[s] # "absent"
    BY <2>2 DEF HoldsBack, LakebaseInv, WorkerInv, LiveIsReserves
  <2>4. Ledger!Expire(s)
    BY <1>1, <1>7, <2>1, <2>3 DEF Ledger!Expire
  <2> QED BY <1>2, <2>4 DEF Ledger!LedgerNext
<1> QED BY <1>2, <1>4, <1>6, <1>7

\* The commit of reserve_budget is Reserve: the session is live, for the
\* ledger, as long as the call that found it so has not returned.
LEMMA ReserveCommitRefines ==
  ASSUME LakebaseInv, NEW w \in Workers, ReserveCommit(w)
  PROVE  Ledger!LedgerNext
<1> DEFINE t == tx[w]
<1>1. /\ Admission(t.session, t.request, t.row, t.amount)
      /\ t.session \in Sessions /\ t.request \in RequestIds /\ t.row \in Reservations
      /\ t.amount \in {EstimateOf(out) : out \in Estimates}
      /\ session[t.session] = "open" /\ t.live /\ ~DuplicateRequest(t.session, t.request)
  BY ReserveCommitAdmits
<1>2. /\ t.pc = "reserve_commit" /\ UNCHANGED <<session, expired, spent>>
      /\ Goto(w, "return")
  BY DEF ReserveCommit, Admit
<1>3. HoldsBack(w, t.session)
  BY <1>1, <1>2 DEF HoldsBack, ReservePcs
<1>4. UNCHANGED ExpiredForAll
  <2>1. /\ \A v \in Workers \ {w} : tx'[v] = tx[v]
        /\ tx'[w].pc = "return" /\ tx'[w].session = t.session /\ tx'[w].live = t.live
    BY <1>2, GotoStatement DEF LakebaseInv, LakebasePcs
  <2>2. \A v \in Workers, s \in Sessions : HoldsBack(v, s)' <=> HoldsBack(v, s)
    BY <1>2, <2>1 DEF HoldsBack, ReservePcs
  <2> QED BY <1>2, <2>2, SameExpiry
<1>5. ~ExpiredForAll[t.session]
  BY <1>1, <1>3, ExpiredForAllMeans
<1>6. PICK out \in Estimates : t.amount = EstimateOf(out)
  BY <1>1
<1>7. Ledger!EstimateOf(out) = EstimateOf(out)
  BY DEF Ledger!EstimateOf, EstimateOf, Ledger!Units, Units
<1>8. Ledger!Fits(t.session, t.amount) /\ ~Ledger!DuplicateRequest(t.session, t.request)
  BY <1>1 DEF Admission, Fits, Ledger!Fits, DuplicateRequest, Ledger!DuplicateRequest,
              Units, Ledger!Units, Reservations, Ledger!Reservations
<1>9. Ledger!Admit(t.session, t.request, t.row, t.amount)
  BY <1>1, <1>4 DEF Admission, Admit, Ledger!Admit, Units, Ledger!Units, NoAmount, Ledger!NoAmount
<1>10. Ledger!Reserve(t.session, t.request, t.row, Ledger!EstimateOf(out))
  BY <1>1, <1>5, <1>6, <1>7, <1>8, <1>9 DEF Admission, Ledger!Reserve, Ledger!Live
<1>11. t.row \in Ledger!Reservations
  BY <1>1 DEF Reservations, Ledger!Reservations
<1> HIDE DEF t
<1> QED BY <1>1, <1>10, <1>11 DEF Ledger!LedgerNext

\* The commit of finalize_reservation is Finalize.
LEMMA FinalizeCommitRefines ==
  ASSUME LakebaseInv, NEW w \in Workers, FinalizeCommit(w)
  PROVE  Ledger!LedgerNext
<1> DEFINE t == tx[w]
<1>1. Finalize(t.row, t.amount) /\ t.row \in Reservations /\ t.amount \in Charges /\ ~t.live
  BY FinalizeCommitSettles
<1>2. Goto(w, "return") /\ UNCHANGED expired
  BY DEF FinalizeCommit, Settle
<1>3. UNCHANGED ExpiredForAll
  <2>1. (\A v \in Workers \ {w} : tx'[v] = tx[v]) /\ tx'[w].live = t.live
    BY <1>2, GotoStatement DEF LakebaseInv, LakebasePcs
  <2>2. \A v \in Workers, s \in Sessions : HoldsBack(v, s)' <=> HoldsBack(v, s)
    BY <1>1, <2>1 DEF HoldsBack
  <2> QED BY <1>2, <2>2, SameExpiry
<1>4. Ledger!Finalize(t.row, t.amount)
  BY <1>1, <1>3 DEF Finalize, Settle, Released, Ledger!Finalize, Ledger!Settle, Ledger!Released,
                    Units, Ledger!Units, Minus, Ledger!Minus
<1>5. t.row \in Ledger!Reservations /\ t.amount \in Ledger!Charges
  BY <1>1 DEF Reservations, Ledger!Reservations, Charges, Ledger!Charges, ChargeFor,
              Ledger!ChargeFor, Units, Ledger!Units
<1> HIDE DEF t
<1> QED BY <1>4, <1>5 DEF Ledger!LedgerNext

\* The commit of close_session is CloseSession.
LEMMA CloseCommitRefines ==
  ASSUME LakebaseInv, NEW w \in Workers, CloseCommit(w)
  PROVE  Ledger!LedgerNext
<1> DEFINE t == tx[w]
<1>1. CloseSession(t.session) /\ t.session \in Sessions /\ ~t.live
  BY CloseCommitStep
<1>2. Goto(w, "return") /\ UNCHANGED expired
  BY DEF CloseCommit
<1>3. UNCHANGED ExpiredForAll
  <2>1. (\A v \in Workers \ {w} : tx'[v] = tx[v]) /\ tx'[w].live = t.live
    BY <1>2, GotoStatement DEF LakebaseInv, LakebasePcs
  <2>2. \A v \in Workers, s \in Sessions : HoldsBack(v, s)' <=> HoldsBack(v, s)
    BY <1>1, <2>1 DEF HoldsBack
  <2> QED BY <1>2, <2>2, SameExpiry
<1>4. Ledger!CloseSession(t.session)
  BY <1>1, <1>3 DEF CloseSession, Ledger!CloseSession
<1> HIDE DEF t
<1> QED BY <1>1, <1>4 DEF Ledger!LedgerNext

\* Creation is CreateSession; the clock is Expire, unless a call still holds
\* the deadline back.
LEMMA OutsideRefines ==
  ASSUME LakebaseInv, NEW s \in Sessions, Create(s) \/ Clock(s)
  PROVE  [Ledger!LedgerNext]_(Ledger!ledgerVars)
<1>1. \A v \in Workers, z \in Sessions : HoldsBack(v, z)' <=> HoldsBack(v, z)
  BY DEF Create, Clock, HoldsBack
<1>2. CASE Create(s)
  <2>1. UNCHANGED ExpiredForAll
    BY <1>1, <1>2, SameExpiry DEF Create, CreateSession
  <2>2. Ledger!CreateSession(s)
    BY <1>2, <2>1 DEF Create, CreateSession, Ledger!CreateSession
  <2> QED BY <2>2 DEF Ledger!LedgerNext
<1>3. CASE Clock(s)
  <2>1. /\ session[s] # "absent" /\ ~expired[s] /\ expired' = [expired EXCEPT ![s] = TRUE]
        /\ UNCHANGED <<session, spent, reserved, rows>>
    BY <1>3 DEF Clock, Expire
  <2>2. expired'[s] /\ \A z \in Sessions \ {s} : expired'[z] = expired[z]
    BY <2>1 DEF LakebaseInv, LakebaseTypeOK, TypeOK
  <2>3. ~ExpiredForAll[s] /\ \A z \in Sessions \ {s} : ExpiredForAll'[z] <=> ExpiredForAll[z]
    BY <1>1, <2>1, <2>2, ExpiredForAllMeans
  <2>4. CASE ExpiredForAll'[s]
    <3>1. ExpiredForAll' = [ExpiredForAll EXCEPT ![s] = TRUE]
      BY <2>3, <2>4, ExpiredForAllMeans, OneFlagSet
    <3>2. Ledger!Expire(s)
      BY <2>1, <2>3, <3>1 DEF Ledger!Expire
    <3> QED BY <3>2 DEF Ledger!LedgerNext
  <2>5. CASE ~ExpiredForAll'[s]
    <3>1. \A z \in Sessions : ExpiredForAll'[z] <=> ExpiredForAll[z]
      BY <2>3, <2>5
    <3>2. UNCHANGED ExpiredForAll
      BY <3>1, ExpiredForAllMeans
    <3> QED BY <2>1, <3>2 DEF Ledger!ledgerVars
  <2> QED BY <2>4, <2>5
<1> QED BY <1>2, <1>3

\* An empty store is an empty ledger.
LEMMA InitRefines == LakebaseInit => Ledger!LedgerInit
<1> SUFFICES ASSUME LakebaseInit
             PROVE  Ledger!LedgerInit
  OBVIOUS
<1>1. \A s \in Sessions : ~ExpiredForAll[s]
  BY ExpiredForAllMeans DEF LakebaseInit, LedgerInit
<1>2. ExpiredForAll = [s \in Sessions |-> FALSE]
  BY <1>1, ExpiredForAllMeans
<1> QED BY <1>2 DEF LakebaseInit, LedgerInit, Ledger!LedgerInit, NoAmount, Ledger!NoAmount,
                    NoReservation, Ledger!NoReservation, Units, Ledger!Units,
                    Reservations, Ledger!Reservations

\* Every step of the store is a step of the ledger, or is not seen.
LEMMA NextRefines ==
  LakebaseInv /\ [LakebaseNext]_lakebaseVars => [Ledger!LedgerNext]_(Ledger!ledgerVars)
<1> SUFFICES ASSUME LakebaseInv, [LakebaseNext]_lakebaseVars
             PROVE  [Ledger!LedgerNext]_(Ledger!ledgerVars)
  OBVIOUS
<1>1. ASSUME NEW s \in Sessions, Create(s) \/ Clock(s)
      PROVE  [Ledger!LedgerNext]_(Ledger!ledgerVars)
  BY <1>1, OutsideRefines
<1>2. ASSUME NEW w \in Workers, NEW t \in Tx, tx' = [tx EXCEPT ![w] = t], UNCHANGED ledgerVars,
             ~t.live \/ ~expired[t.session]
      PROVE  [Ledger!LedgerNext]_(Ledger!ledgerVars)
  <2>1. tx'[w] = t /\ \A v \in Workers \ {w} : tx'[v] = tx[v]
    BY <1>2, BeginStatement DEF LakebaseInv
  <2>2. \A s \in Sessions : HoldsBack(w, s)' => HoldsBack(w, s) \/ ~expired[s]
    BY <1>2, <2>1 DEF HoldsBack
  <2> QED BY <1>2, <2>1, <2>2, StatementRefines
<1>3. ASSUME NEW w \in Workers, NEW s \in Sessions, NEW q \in RequestIds, NEW out \in Estimates,
             BeginReserve(w, s, q, out)
      PROVE  [Ledger!LedgerNext]_(Ledger!ledgerVars)
  <2>1. PICK r \in FreshRows :
          Begin(w, [pc |-> "reserve_select", session |-> s, request |-> q, row |-> r,
                    amount |-> EstimateOf(out), live |-> ~expired[s]])
    BY <1>3 DEF BeginReserve
  <2> DEFINE live == ~expired[s]
             t == [pc |-> "reserve_select", session |-> s, request |-> q, row |-> r,
                   amount |-> EstimateOf(out), live |-> live]
  <2>2. tx' = [tx EXCEPT ![w] = t] /\ UNCHANGED ledgerVars
    BY <1>3, <2>1 DEF BeginReserve, Begin
  <2>3. live \in BOOLEAN /\ EstimateOf(out) \in Balance /\ r \in Reservations
    BY AmountTypes DEF LakebaseInv, LakebaseTypeOK, TypeOK, FreshRows
  <2>4. ~live \/ ~expired[s]
    OBVIOUS
  <2> HIDE DEF live
  <2>5. t \in Tx
    BY <2>3 DEF Tx, ReservePcs
  <2> QED BY <1>2, <2>2, <2>4, <2>5
<1>4. ASSUME NEW w \in Workers, NEW r \in Reservations, NEW charge \in Charges,
             BeginFinalize(w, r, charge)
      PROVE  [Ledger!LedgerNext]_(Ledger!ledgerVars)
  <2> DEFINE t == [NoTx EXCEPT !.pc = "finalize_select", !.session = rows[r].session,
                               !.row = r, !.amount = charge]
  <2>1. tx' = [tx EXCEPT ![w] = t] /\ UNCHANGED ledgerVars
    BY <1>4 DEF BeginFinalize, Begin
  <2>2. rows[r].session \in Sessions /\ charge \in Balance
    BY AmountTypes DEF LakebaseInv, LakebaseTypeOK, TypeOK, Row
  <2>3. NoTx \in Tx /\ NoTx.live = FALSE
    BY NoTxType DEF NoTx
  <2>4. t \in Tx /\ ~t.live
    BY <2>2, <2>3 DEF Tx, FinalizePcs
  <2> HIDE DEF t
  <2> QED BY <1>2, <2>1, <2>4
<1>5. ASSUME NEW w \in Workers, NEW s \in Sessions, BeginClose(w, s)
      PROVE  [Ledger!LedgerNext]_(Ledger!ledgerVars)
  <2> DEFINE t == [NoTx EXCEPT !.pc = "close_update", !.session = s]
  <2>1. tx' = [tx EXCEPT ![w] = t] /\ UNCHANGED ledgerVars
    BY <1>5 DEF BeginClose, Begin
  <2>2. NoTx \in Tx /\ NoTx.live = FALSE
    BY NoTxType DEF NoTx
  <2>3. t \in Tx /\ ~t.live
    BY <2>2 DEF Tx, ClosePcs
  <2> HIDE DEF t
  <2> QED BY <1>2, <2>1, <2>3
<1>6. ASSUME NEW w \in Workers, Rollback(w) \/ Return(w)
      PROVE  [Ledger!LedgerNext]_(Ledger!ledgerVars)
  <2>1. tx' = [tx EXCEPT ![w] = NoTx] /\ UNCHANGED ledgerVars
    BY <1>6 DEF Rollback, Return
  <2>2. NoTx \in Tx /\ ~NoTx.live
    BY NoTxType DEF NoTx
  <2> QED BY <1>2, <2>1, <2>2
<1>7. ASSUME NEW w \in Workers,
             \/ ReserveSelect(w) \/ ReserveUpdate(w) \/ ReserveInsert(w)
             \/ FinalizeSelect(w) \/ FinalizeCharge(w) \/ FinalizeMark(w) \/ CloseUpdate(w)
      PROVE  [Ledger!LedgerNext]_(Ledger!ledgerVars)
  <2>1. PICK pc \in LakebasePcs : Goto(w, pc) /\ UNCHANGED ledgerVars
    BY <1>7 DEF ReserveSelect, ReserveUpdate, ReserveInsert, FinalizeSelect, FinalizeCharge,
                FinalizeMark, CloseUpdate, LakebasePcs, ReservePcs, FinalizePcs, ClosePcs
  <2>2. tx[w].pc \in ReservePcs \/ ~tx[w].live
    BY <1>7 DEF ReserveSelect, ReserveUpdate, ReserveInsert, FinalizeSelect, FinalizeCharge,
                FinalizeMark, CloseUpdate, LakebaseInv, WorkerInv, LiveIsReserves, ReservePcs
  <2>3. /\ tx'[w].session = tx[w].session /\ tx'[w].live = tx[w].live
        /\ \A v \in Workers \ {w} : tx'[v] = tx[v]
    BY <2>1, GotoStatement DEF LakebaseInv
  <2>4. \A s \in Sessions : HoldsBack(w, s)' => HoldsBack(w, s)
    BY <2>2, <2>3 DEF HoldsBack
  <2> QED BY <2>1, <2>3, <2>4, StatementRefines
<1>8. ASSUME NEW w \in Workers, WorkerStep(w) \/ Crash(w)
      PROVE  [Ledger!LedgerNext]_(Ledger!ledgerVars)
  <2>1. CASE ReserveRefused(w) \/ ReserveDuplicate(w) \/ FinalizeAgain(w) \/ Crash(w) \/ Return(w)
    BY <1>6, <2>1 DEF ReserveRefused, ReserveDuplicate, FinalizeAgain, Crash
  <2>2. CASE ReserveCommit(w) \/ FinalizeCommit(w) \/ CloseCommit(w)
    BY <2>2, ReserveCommitRefines, FinalizeCommitRefines, CloseCommitRefines
  <2> QED BY <1>7, <1>8, <2>1, <2>2 DEF WorkerStep
<1>9. CASE UNCHANGED lakebaseVars
  <2>1. UNCHANGED <<session, expired, spent, reserved, rows, tx>>
    BY <1>9 DEF lakebaseVars, ledgerVars
  <2>2. UNCHANGED ExpiredForAll
    BY <2>1, SameExpiry DEF HoldsBack
  <2> QED BY <2>1, <2>2 DEF Ledger!ledgerVars
<1> QED BY <1>1, <1>3, <1>4, <1>5, <1>8, <1>9 DEF LakebaseNext

\* The store implements the ledger: its transactions, interleaved statement by
\* statement, waiting for locks, rolled back and crashing, behave as the
\* atomic calls of SessionLedger.
THEOREM LakebaseRefinesLedger == LakebaseSpec => RefinesLedger
<1> QED BY InitRefines, NextRefines, LakebaseInvariant, PTL
        DEF LakebaseSpec, RefinesLedger, Ledger!LedgerSpec

-----------------------------------------------------------------------------
(* What this gives the store.                                              *)

\* What a step does to the ledger: nothing, or one of the atomic calls.
LEMMA LedgerEffect ==
  ASSUME LakebaseInv, LakebaseNext
  PROVE  \/ UNCHANGED <<spent, reserved, rows>>
         \/ \E w \in Workers : ReserveCommit(w)
         \/ \E w \in Workers : FinalizeCommit(w)
<1>1. ASSUME NEW w \in Workers, WorkerStep(w) \/ Crash(w), ~ReserveCommit(w), ~FinalizeCommit(w)
      PROVE  UNCHANGED <<spent, reserved, rows>>
  BY <1>1 DEF WorkerStep, Crash, ReserveRefused, ReserveSelect, ReserveUpdate, ReserveInsert,
     ReserveDuplicate, FinalizeAgain, FinalizeSelect, FinalizeCharge, FinalizeMark, CloseUpdate,
     CloseCommit, Return, Rollback, ledgerVars
<1>2. ASSUME NEW s \in Sessions, Create(s) \/ Clock(s)
      PROVE  UNCHANGED <<spent, reserved, rows>>
  BY <1>2 DEF Create, Clock, CreateSession, Expire
<1> QED BY <1>1, <1>2 DEF LakebaseNext, BeginReserve, BeginFinalize, BeginClose, ledgerVars

\* The balances of the store are exact, and a session is committed beyond its
\* cap by at most what its requests used above their estimates.
THEOREM LakebaseKeepsBalances ==
  LakebaseSpec => [](ReservedMatchesOpenRows /\ SpentMatchesFinalRows /\ CapRespected)
<1>1. LakebaseInit => LedgerInv
  BY InitLedgerInv DEF LakebaseInit
<1>2. LakebaseInv /\ LedgerInv /\ [LakebaseNext]_lakebaseVars => LedgerInv'
  <2> SUFFICES ASSUME LakebaseInv, LedgerInv, [LakebaseNext]_lakebaseVars
               PROVE  LedgerInv'
    OBVIOUS
  <2>1. TypeOK'
    BY NextLakebaseInv DEF LakebaseInv, LakebaseTypeOK
  <2>2. CASE UNCHANGED <<spent, reserved, rows>>
    BY <2>1, <2>2, QuietStep
  <2>3. ASSUME NEW w \in Workers, ReserveCommit(w)
        PROVE  LedgerInv'
    BY <2>1, <2>3, ReserveCommitAdmits, AdmissionStep
  <2>4. ASSUME NEW w \in Workers, FinalizeCommit(w)
        PROVE  LedgerInv'
    BY <2>1, <2>4, FinalizeCommitSettles, AmountTypes, FinalizeStep
  <2>5. CASE UNCHANGED lakebaseVars
    BY <2>2, <2>5 DEF lakebaseVars, ledgerVars
  <2> QED BY <2>2, <2>3, <2>4, <2>5, LedgerEffect
<1>3. LedgerInv => ReservedMatchesOpenRows /\ SpentMatchesFinalRows /\ CapRespected
  BY DEF LedgerInv
<1> QED BY <1>1, <1>2, <1>3, LakebaseInvariant, PTL DEF LakebaseSpec

\* A reservation added after the deadline was begun before it, and none is added
\* to a closed session: the lock keeps what the SELECT found true until commit.
THEOREM LakebaseLateGrantsBeganInTime == LakebaseSpec => LateGrantsBeganInTime
<1>1. ASSUME LakebaseInv, [LakebaseNext]_lakebaseVars
      PROVE  [\A s \in Sessions, r \in Reservations :
                rows[r].state = "none" /\ rows'[r].state # "none" /\ rows'[r].session = s
                  => /\ session[s] = "open"
                     /\ \E w \in Workers : /\ tx[w].row = r /\ tx[w].session = s
                                          /\ tx[w].live]_lakebaseVars
  <2> SUFFICES ASSUME NEW r \in Reservations, rows[r].state = "none", rows'[r].state # "none"
               PROVE  LET s == rows'[r].session IN
                      /\ session[s] = "open"
                      /\ \E w \in Workers : tx[w].row = r /\ tx[w].session = s /\ tx[w].live
    OBVIOUS
  <2>1. rows \in [Reservations -> Row]
    BY <1>1 DEF LakebaseInv, LakebaseTypeOK, TypeOK
  <2>2. CASE UNCHANGED rows
    BY <2>2
  <2>3. ASSUME NEW w \in Workers, ReserveCommit(w)
        PROVE  LET s == rows'[r].session IN
               session[s] = "open" /\ tx[w].row = r /\ tx[w].session = s /\ tx[w].live
    <3>1. /\ session[tx[w].session] = "open" /\ tx[w].live
          /\ Admission(tx[w].session, tx[w].request, tx[w].row, tx[w].amount)
      BY <1>1, <2>3, ReserveCommitAdmits
    <3>2. r = tx[w].row /\ rows'[r].session = tx[w].session
      BY <2>1, <3>1 DEF Admission, Admit
    <3> QED BY <3>1, <3>2
  <2>4. ASSUME NEW w \in Workers, FinalizeCommit(w)
        PROVE  FALSE
    <3>1. Finalize(tx[w].row, tx[w].amount)
      BY <1>1, <2>4, FinalizeCommitSettles
    <3> QED BY <2>1, <3>1 DEF Finalize, Settle
  <2>5. CASE UNCHANGED lakebaseVars
    BY <2>2, <2>5 DEF lakebaseVars, ledgerVars
  <2> QED BY <1>1, <2>2, <2>3, <2>4, <2>5, LedgerEffect
<1> QED BY <1>1, LakebaseInvariant, PTL DEF LakebaseSpec, LateGrantsBeganInTime

===============================================================================
