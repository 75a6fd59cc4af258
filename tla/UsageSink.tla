----------------------------- MODULE UsageSink -----------------------------
(***************************************************************************)
(* ZerobusUsageEventSink (zerobus_events.py), called by one thread: emit   *)
(* sends an event on the stream of the sink and waits until it is          *)
(* acknowledged; after an exception it closes the stream and tries again   *)
(* on a new one, max_retries times in all.  Events are emitted one after   *)
(* the other, the model keeps the records of the current one.              *)
(*                                                                         *)
(* The Zerobus service is known from this use of its SDK: a stream breaks  *)
(* at any time, what was sent on it may arrive all the same or be lost,    *)
(* calls on a broken stream raise, close of any stream may.                *)
(***************************************************************************)
EXTENDS Integers, FiniteSets

CONSTANTS
  RetryLimits,   \* values of max_retries
  MaxFaults      \* bound: streams that break, calls of create_stream and close that raise

ASSUME SinkConstants == RetryLimits \subseteq Nat /\ MaxFaults \in Nat

VARIABLES
  maxRetries,  \* self._max_retries
  stream,      \* self._stream
  pc,          \* where emit is, or how it ended
  attempt,     \* of the current event, from 1
  flying,      \* attempts whose record is on its way
  table,       \* attempts whose record the table has
  faults,
  disturbed    \* history: something broke or raised since emit was called

sinkVars == <<maxRetries, stream, pc, attempt, flying, table, faults, disturbed>>

SinkInit ==
  /\ maxRetries \in RetryLimits
  /\ stream = "none" /\ pc = "idle" /\ attempt = 1
  /\ flying = {} /\ table = {} /\ faults = 0 /\ disturbed = FALSE

-----------------------------------------------------------------------------
Ended == {"idle", "returned", "raised"}

Fault == faults < MaxFaults /\ faults' = faults + 1 /\ disturbed' = TRUE

\* emit is called with the next event.  With max_retries of 0 its loop is empty.
Emit ==
  /\ pc \in Ended
  /\ pc' = IF maxRetries = 0 THEN "returned" ELSE "get"
  /\ attempt' = 1 /\ flying' = {} /\ table' = {}
  /\ disturbed' = FALSE
  /\ UNCHANGED <<maxRetries, stream, faults>>

\* _get_stream: the stream in place, whatever has become of it, or a new one.
GetStream ==
  /\ pc = "get" /\ pc' = "ingest"
  /\ stream' = IF stream = "none" THEN "open" ELSE stream
  /\ UNCHANGED <<maxRetries, attempt, flying, table, faults, disturbed>>

CreateRaises ==
  /\ pc = "get" /\ stream = "none" /\ pc' = "close" /\ Fault
  /\ UNCHANGED <<maxRetries, stream, attempt, flying, table>>

\* ingest_record_offset.
Ingest ==
  /\ pc = "ingest"
  /\ IF stream = "open" THEN pc' = "wait" /\ flying' = flying \cup {attempt}
     ELSE pc' = "close" /\ UNCHANGED flying
  /\ UNCHANGED <<maxRetries, stream, attempt, table, faults, disturbed>>

\* Defect: the offset is not waited for.
AckAtOnce == stream = "open"

\* The table has the record of this attempt, and the stream tells.
Acknowledged == stream = "open" /\ attempt \in table

\* Defect: the loop goes on after an acknowledgement.
NoReturn == IF attempt = maxRetries THEN pc' = "returned" /\ UNCHANGED attempt
            ELSE pc' = "get" /\ attempt' = attempt + 1

Return == pc' = "returned" /\ UNCHANGED attempt

\* wait_for_offset.
WaitForOffset ==
  /\ pc = "wait"
  /\ \/ Acknowledged /\ Return
     \/ stream = "broken" /\ pc' = "close" /\ UNCHANGED attempt
  /\ UNCHANGED <<maxRetries, stream, flying, table, faults, disturbed>>

\* Defect: the stream is kept.
KeptStream == stream

LastAttempt  == attempt = maxRetries
ClosedStream == "none"

\* The except branch: close, then raise or sleep and try again.
Recover ==
  /\ pc = "close"
  /\ stream' = ClosedStream
  /\ IF LastAttempt THEN pc' = "raised" /\ UNCHANGED attempt
     ELSE pc' = "get" /\ attempt' = attempt + 1
  /\ UNCHANGED <<maxRetries, flying, table, faults, disturbed>>

\* close raises: out of the except branch and of emit, whatever attempts are
\* left, and self._stream stays as it is.
CloseRaises ==
  /\ pc = "close" /\ stream # "none" /\ Fault
  /\ pc' = "raised"
  /\ UNCHANGED <<maxRetries, stream, attempt, flying, table>>

\* close, by the owner of the sink: the next emit opens a stream again.
CloseSink ==
  /\ pc \in Ended /\ stream # "none" /\ stream' = "none"
  /\ UNCHANGED <<maxRetries, pc, attempt, flying, table, faults, disturbed>>

-----------------------------------------------------------------------------
(* The service *)

StreamBreaks ==
  /\ stream = "open" /\ stream' = "broken" /\ Fault
  /\ UNCHANGED <<maxRetries, pc, attempt, flying, table>>

Arrives ==
  /\ \E a \in flying : flying' = flying \ {a} /\ table' = table \cup {a}
  /\ UNCHANGED <<maxRetries, stream, pc, attempt, faults, disturbed>>

\* Lost with its stream: it is broken, or has been replaced.
Lost ==
  /\ \E a \in flying : (stream # "open" \/ a # attempt) /\ flying' = flying \ {a}
  /\ UNCHANGED <<maxRetries, stream, pc, attempt, table, faults, disturbed>>

EmitStep == GetStream \/ Ingest \/ WaitForOffset \/ Recover

SinkNext ==
  \/ Emit \/ EmitStep \/ CreateRaises \/ CloseRaises \/ CloseSink
  \/ StreamBreaks \/ Arrives \/ Lost

\* Events keep coming, calls return or raise, what is sent on a stream that
\* stays open arrives.
SinkSpec ==
  /\ SinkInit /\ [][SinkNext]_sinkVars
  /\ WF_sinkVars(Emit) /\ WF_sinkVars(EmitStep)
  /\ WF_sinkVars(Arrives)

-----------------------------------------------------------------------------
\* At least once: an emit that returns has its event in the table, whatever
\* broke on the way; it may be there once per attempt.  max_retries must not be 0:
\* then emit returns and has done nothing.
ReturnedIsIngested == pc = "returned" /\ maxRetries > 0 => table # {}

\* Exactly once, unless something breaks or raises during the emit: a stream that
\* was broken before, or left broken by an earlier emit, costs an attempt but
\* makes no duplicate.
UndisturbedIsOnce == ~disturbed => Cardinality(table \cup flying) <= 1

\* Once nothing breaks any more events get through: no failure, not even that of
\* close, leaves a stream that later emits would use for ever.
DeliversAfterFaults == <>[](pc # "raised") /\ []<>(pc = "returned")

=============================================================================
