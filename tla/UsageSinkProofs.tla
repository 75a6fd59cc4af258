--------------------------- MODULE UsageSinkProofs ---------------------------
(***************************************************************************)
(* The event sink, for every retry limit and any number of faults: an emit *)
(* that returns has delivered, and has delivered once if nothing went      *)
(* wrong meanwhile.                                                        *)
(***************************************************************************)
EXTENDS UsageSink, FiniteSetTheorems, TLAPS

SinkPcs == {"get", "ingest", "wait", "close"} \cup Ended

SinkTypeOK ==
  /\ maxRetries \in Nat /\ attempt \in Nat /\ faults \in Nat /\ disturbed \in BOOLEAN
  /\ stream \in {"none", "open", "broken"} /\ pc \in SinkPcs
  /\ flying \in SUBSET Nat /\ table \in SUBSET Nat

\* The attempts that have a record in the table or on its way to it.
Sent == table \cup flying

\* As long as nothing breaks or raises: an attempt that has sent its record is
\* acknowledged, so an attempt that follows a failed one is the first to send.
UndisturbedInv ==
  ~disturbed =>
    /\ pc \in {"get", "ingest", "close"} => Sent = {}
    /\ pc \in Ended \cup {"wait"} => Sent \subseteq {attempt}
    /\ pc = "wait" => stream = "open"

SinkInv == SinkTypeOK /\ ReturnedIsIngested /\ UndisturbedInv

-----------------------------------------------------------------------------
\* The invariant holds before the first event.
LEMMA InitSinkInv == SinkInit => SinkInv
<1> SUFFICES ASSUME SinkInit PROVE SinkInv
  OBVIOUS
<1>1. SinkTypeOK /\ ReturnedIsIngested
  BY SinkConstants DEF SinkInit, SinkTypeOK, SinkPcs, Ended, ReturnedIsIngested
<1>2. Sent = {}
  BY DEF SinkInit, Sent
<1>3. UndisturbedInv
  BY <1>2 DEF SinkInit, UndisturbedInv, Ended
<1> QED BY <1>1, <1>3 DEF SinkInv

\* Every step keeps the invariant.
LEMMA NextSinkInv == SinkInv /\ [SinkNext]_sinkVars => SinkInv'
<1> SUFFICES ASSUME SinkInv, [SinkNext]_sinkVars
             PROVE  SinkInv'
  OBVIOUS
<1> USE SinkConstants DEF SinkInv, SinkTypeOK, SinkPcs, Ended, ReturnedIsIngested,
                          UndisturbedInv, Sent
<1>1. CASE Emit
  <2>1. SinkTypeOK'
    BY <1>1 DEF Emit
  <2>2. ReturnedIsIngested'
    BY <1>1 DEF Emit
  <2>3. Sent' = {}
    BY <1>1 DEF Emit
  <2>4. pc' \in {"returned", "get"}
    BY <1>1 DEF Emit
  <2>5. UndisturbedInv'
    BY <2>3, <2>4
  <2> QED BY <2>1, <2>2, <2>5
<1>2. CASE GetStream
  BY <1>2 DEF GetStream
<1>3. CASE CreateRaises
  BY <1>3 DEF CreateRaises, Fault
<1>4. CASE Ingest
  BY <1>4 DEF Ingest
<1>5. CASE WaitForOffset
  BY <1>5 DEF WaitForOffset, Acknowledged, Return
<1>6. CASE Recover
  BY <1>6 DEF Recover, ClosedStream
<1>7. CASE CloseRaises
  BY <1>7 DEF CloseRaises, Fault
<1>8. CASE CloseSink
  BY <1>8 DEF CloseSink
<1>9. CASE StreamBreaks
  BY <1>9 DEF StreamBreaks, Fault
<1>10. CASE Arrives
  BY <1>10 DEF Arrives
<1>11. CASE Lost
  BY <1>11 DEF Lost
<1>12. CASE UNCHANGED sinkVars
  BY <1>12 DEF sinkVars
<1> QED BY <1>1, <1>2, <1>3, <1>4, <1>5, <1>6, <1>7, <1>8, <1>9, <1>10, <1>11, <1>12
        DEF SinkNext, EmitStep

\* Every behaviour of the sink keeps the invariant.
THEOREM SinkInvariant == SinkSpec => []SinkInv
<1> QED BY InitSinkInv, NextSinkInv, PTL DEF SinkSpec

\* At least once: emit returns only with its event in the table.
THEOREM SinkDelivers == SinkSpec => []ReturnedIsIngested
<1>1. SinkInv => ReturnedIsIngested
  BY DEF SinkInv
<1> QED BY <1>1, SinkInvariant, PTL

\* Exactly once when nothing breaks or raises during the emit.
THEOREM SinkDeliversOnce == SinkSpec => []UndisturbedIsOnce
<1>1. SinkInv => UndisturbedIsOnce
  <2> SUFFICES ASSUME SinkInv, ~disturbed
               PROVE  Cardinality(Sent) <= 1
    BY DEF UndisturbedIsOnce, Sent
  <2>1. Sent \subseteq {attempt}
    BY DEF SinkInv, SinkTypeOK, SinkPcs, UndisturbedInv
  <2>2. CASE Sent = {}
    BY <2>2, FS_EmptySet
  <2>3. CASE Sent # {}
    <3>1. Sent = {attempt}
      BY <2>1, <2>3
    <3> QED BY <3>1, FS_Singleton
  <2> QED BY <2>2, <2>3
<1> QED BY <1>1, SinkInvariant, PTL

==============================================================================
