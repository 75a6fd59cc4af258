--------------------------- MODULE MCProxyRequest ---------------------------
(***************************************************************************)
(* Values of the constants for model-checking ProxyRequest.                *)
(***************************************************************************)
EXTENDS ProxyRequest

CONSTANTS closed, open, q1, q2, k1

MCCap == [s \in Sessions |-> [u \in Units |-> 2]]

ACall(s, q, k, stream) ==
  [session |-> s, request |-> q, key |-> k, out |-> 1, stream |-> stream]

\* The answers of chat completions, of embeddings and of /v1/responses.
MCReports == {Fields, {"prompt_tokens"}, {}}

\* A call with a key, a retry of it under the same and under a new request
\* id, a call of another session with the same key, and a stream.
MCKinds == {ACall(closed, q1, k1, FALSE), ACall(closed, q2, k1, FALSE),
            ACall(open, q1, k1, FALSE), ACall(closed, q1, NoKey, TRUE)}

\* Plain calls whose usage is reported in full, and streams, of one session.
PlainKinds  == {ACall(closed, q1, NoKey, FALSE)}
FullReports == {Fields}
StreamKinds == {ACall(closed, q1, NoKey, TRUE)}

=============================================================================
