------------------------------- MODULE Forwarding -------------------------------
(***************************************************************************)
(* One chat request on its way to a backend server and back: the field      *)
(* policy at the boundary (backend_request_policy.py), the forwarded body    *)
(* and the answer, whole or streamed (http_forwarding.py), and what the      *)
(* client and the request's record are told (app.py, _execute_streaming and  *)
(* _execute_non_streaming).  The adapter's slot and health are in Runtimes, a *)
(* client gone before the body starts is in Broker.                          *)
(*                                                                          *)
(* A field is [name, class, extension, null]: class "canonical", "internal"  *)
(* (a control prefix), "inference" (a sampling-like name) or "other", and    *)
(* extension, the adapter kinds that declare it.  The upstream sends lines;  *)
(* its n-th well-formed chunk is n.                                          *)
(***************************************************************************)
EXTENDS Naturals, Sequences, FiniteSets, SequencesExt

CONSTANTS
    FieldSets,      \* the sets of fields a request may carry
    AdapterKinds,   \* the adapter kinds
    MaxLines        \* bound: lines the upstream sends

VARIABLES
    exchange,   \* the request: [pc, kind, stream, fields, body, answer]
    record,     \* its lifecycle record, "none" before it begins
    token0,     \* its cancellation token is set
    sent0,      \* the lines the upstream has sent
    received,   \* the chunks the client has read
    closing,    \* how its stream was closed: "open", "[DONE]" or "error"
    socket,     \* the upstream response is open
    disconnects, \* total_stream_disconnects
    broken      \* ghost: the upstream broke its stream off

fwdVars == <<exchange, record, token0, sent0, received, closing, socket, disconnects, broken>>

------------------------------------------------------------------------------
(* The field policy.                                                        *)

\* sanitize_chat_request: an extension the adapter declares passes, a control name
\* is dropped, an inference-like name refuses the request, anything else is dropped.
Forwarded(fields, kind) ==
    {f \in fields : f.class = "canonical" /\ ~f.null}
    \cup {f \in fields : f.class # "canonical" /\ kind \in f.extension}

Rejected(fields, kind) ==
    {f \in fields : f.class = "inference" /\ kind \notin f.extension}

\* build_forward_body: null extensions stay behind too.
BuildForwardBody(fields, kind) == {f \in Forwarded(fields, kind) : ~f.null}

------------------------------------------------------------------------------
(* The upstream's answer.                                                   *)

Statuses0 == {200, 400, 404, 408, 429, 500, 504}

\* forward_streaming and forward_non_streaming raise by status, and
\* _classify_request_exception by the exception's name.
ErrorFor(status) ==
    CASE status = 400 -> 400
      [] status = 404 -> 404
      [] status \in {408, 504} -> 504
      [] status = 429 -> 425
      [] OTHER -> 502

Exceptions == {"connect", "timeout", "protocol"}
ErrorOf(exception) == CASE exception = "connect" -> 503 [] exception = "timeout" -> 504 [] exception = "protocol" -> 502

LineKinds == {"chunk", "malformed", "done", "noise"}
Chunks(lines) == Cardinality({i \in DOMAIN lines : lines[i] = "chunk"})

------------------------------------------------------------------------------
FwdTypeOK ==
    /\ exchange.pc \in {"new", "sending", "first", "ready", "body", "done", "over"}
    /\ exchange.answer \in {0, 200} \cup {400, 404, 425, 502, 503, 504}
    /\ record \in {"none", "running", "streaming", "completed", "cancelled", "failed"}
    /\ token0 \in BOOLEAN /\ socket \in BOOLEAN /\ disconnects \in 0..1 /\ broken \in BOOLEAN
    /\ sent0 \in BoundedSeq(LineKinds, MaxLines)
    /\ received \in BoundedSeq(1..MaxLines, MaxLines) /\ closing \in {"open", "[DONE]", "error"}

FwdInit ==
    /\ exchange \in [pc : {"new"}, kind : AdapterKinds, stream : BOOLEAN, fields : FieldSets, body : {{}}, answer : {0}]
    /\ record = "none" /\ token0 = FALSE /\ sent0 = << >> /\ received = << >> /\ closing = "open"
    /\ socket = FALSE /\ disconnects = 0 /\ broken = FALSE

\* complete_request leaves a record that ended otherwise; fail_request and
\* cancel_request do not look.
CompleteRequest == IF record \in {"cancelled", "failed"} THEN record ELSE "completed"

Over(answer) == exchange' = [exchange EXCEPT !.pc = "over", !.answer = answer]

\* chat_completions: the policy is applied before a record exists.
BeginExchange ==
    /\ exchange.pc = "new"
    /\ IF Rejected(exchange.fields, exchange.kind) # {}
       THEN Over(400) /\ UNCHANGED record
       ELSE /\ exchange' = [exchange EXCEPT !.pc = "sending",
                                            !.body = BuildForwardBody(exchange.fields, exchange.kind)]
            /\ record' = IF exchange.stream THEN "streaming" ELSE "running"
    /\ UNCHANGED <<token0, sent0, received, closing, socket, disconnects, broken>>

\* The upstream cannot be reached, or answers with an error status: the client
\* gets a plain error answer, no stream has started.
UpstreamRefuses(error) ==
    /\ exchange.pc = "sending" /\ Over(error) /\ record' = "failed"
    /\ UNCHANGED <<token0, sent0, received, closing, socket, disconnects, broken>>

\* forward_non_streaming with status 200; a body that does not parse is an error.
AnswerParsed ==
    /\ exchange.pc = "sending" /\ ~exchange.stream /\ Over(200) /\ record' = CompleteRequest
    /\ UNCHANGED <<token0, sent0, received, closing, socket, disconnects, broken>>

AnswerMalformed == ~exchange.stream /\ UpstreamRefuses(502)

StreamOpens ==
    /\ exchange.pc = "sending" /\ exchange.stream /\ socket' = TRUE
    /\ exchange' = [exchange EXCEPT !.pc = "first"]
    /\ UNCHANGED <<record, token0, sent0, received, closing, disconnects, broken>>

\* The generator is over: before the first chunk that is an empty stream, whose
\* record is completed at once; later the body yields its [DONE].
EndOfStream ==
    /\ closing' = "[DONE]" /\ socket' = FALSE /\ UNCHANGED received
    /\ \/ exchange.pc = "first" /\ Over(200) /\ record' = CompleteRequest
       \/ exchange.pc = "body" /\ exchange' = [exchange EXCEPT !.pc = "done"] /\ UNCHANGED record

\* The next line while someone awaits one.  A set token ends the stream at the
\* line it meets; lines without data, upstream's [DONE] and frames that do not
\* parse are skipped.
NextLine(line) ==
    /\ exchange.pc \in {"first", "body"} /\ Len(sent0) < MaxLines
    /\ sent0' = Append(sent0, line)
    /\ \/ token0 /\ EndOfStream
       \/ /\ ~token0 /\ line = "chunk" /\ UNCHANGED <<record, closing, socket>>
          /\ exchange' = [exchange EXCEPT !.pc = IF @ = "first" THEN "ready" ELSE @]
          /\ received' = IF exchange.pc = "first" THEN received ELSE Append(received, Chunks(sent0'))
       \/ ~token0 /\ line # "chunk" /\ UNCHANGED <<exchange, record, received, closing, socket>>
    /\ UNCHANGED <<token0, disconnects, broken>>

\* The body generator starts, and yields the chunk fetched ahead.
BodyStarts ==
    /\ exchange.pc = "ready" /\ exchange' = [exchange EXCEPT !.pc = "body", !.answer = 200]
    /\ received' = <<1>>
    /\ UNCHANGED <<record, token0, sent0, closing, socket, disconnects, broken>>

\* The upstream closes its stream, with or without a [DONE] of its own.
UpstreamCloses ==
    /\ exchange.pc \in {"first", "body"} /\ EndOfStream /\ UNCHANGED <<token0, sent0, disconnects, broken>>

\* Faulty variant: a stream that breaks ends like one that closes.
UpstreamBreaksQuietly(exception) ==
    /\ exchange.pc \in {"first", "body"} /\ broken' = TRUE
    /\ IF exchange.pc = "first"
       THEN Over(ErrorOf(exception)) /\ record' = "failed" /\ socket' = FALSE /\ UNCHANGED <<received, closing, disconnects>>
       ELSE EndOfStream /\ UNCHANGED disconnects
    /\ UNCHANGED <<token0, sent0>>

\* The stream breaks: before the first chunk a plain error answer, later an error
\* frame, and the record is cancelled as if the client had left.
UpstreamBreaks(exception) ==
    /\ exchange.pc \in {"first", "body"} /\ socket' = FALSE /\ broken' = TRUE
    /\ \/ /\ exchange.pc = "first" /\ Over(ErrorOf(exception)) /\ record' = "failed"
          /\ UNCHANGED <<closing, disconnects>>
       \/ /\ exchange.pc = "body" /\ Over(200) /\ record' = "cancelled"
          /\ closing' = "error" /\ disconnects' = disconnects + 1
    /\ UNCHANGED <<token0, sent0, received>>

\* The body goes on after its [DONE] and ends.
BodyEnds ==
    /\ exchange.pc = "done" /\ Over(200) /\ record' = CompleteRequest
    /\ UNCHANGED <<token0, sent0, received, closing, socket, disconnects, broken>>

\* The client leaves in the middle of the body, at its [DONE] too: GeneratorExit.
\* The generator that reads the upstream is left to its finalizer.
ClientLeaves ==
    /\ exchange.pc \in {"body", "done"} /\ Over(0) /\ record' = "cancelled"
    /\ disconnects' = disconnects + 1 /\ UNCHANGED <<token0, sent0, received, closing, socket, broken>>

FinalizerCloses ==
    /\ exchange.pc = "over" /\ socket /\ socket' = FALSE
    /\ UNCHANGED <<exchange, record, token0, sent0, received, closing, disconnects, broken>>

\* runtime_cancel_request
CancelExchange ==
    /\ record \in {"running", "streaming"} /\ token0' = TRUE /\ record' = "cancelled"
    /\ UNCHANGED <<exchange, sent0, received, closing, socket, disconnects, broken>>

FwdNext ==
    \/ BeginExchange
    \/ \E s \in Statuses0 \ {200} : UpstreamRefuses(ErrorFor(s))
    \/ \E x \in Exceptions : UpstreamRefuses(ErrorOf(x)) \/ UpstreamBreaks(x)
    \/ AnswerParsed \/ AnswerMalformed
    \/ StreamOpens \/ BodyStarts \/ UpstreamCloses \/ BodyEnds
    \/ ClientLeaves \/ FinalizerCloses \/ CancelExchange
    \/ \E line \in LineKinds : NextLine(line)

FwdSpec == FwdInit /\ [][FwdNext]_fwdVars

------------------------------------------------------------------------------
\* What the client reads of a stream is the upstream's well-formed chunks in their
\* order, the one fetched ahead included once; a stream closed with [DONE] that
\* nobody cancelled has lost none of them.
DeliveredInOrder ==
    /\ \A i \in DOMAIN received : received[i] = i
    /\ Len(received) <= Chunks(sent0)
    /\ closing = "[DONE]" /\ ~token0 => Len(received) = Chunks(sent0)

\* The answer and the record tell one story: a stream closed with [DONE] was never
\* broken off by the upstream, and completed unless it was cancelled on request or
\* its client left at the very end; a plain error answer follows no chunk and leaves
\* a failed record or none; and nothing answered keeps its record active, or its
\* upstream connection open once the finalizer of a stream that was left has run.
OutcomeAgrees ==
    exchange.pc = "over" =>
        /\ record \in {"none", "completed", "cancelled", "failed"} /\ (socket => exchange.answer = 0)
        /\ closing = "[DONE]" => ~broken /\ (record = "completed" <=> ~token0 /\ disconnects = 0)
        /\ broken => record # "completed" /\ (received # << >> => closing = "error")
        /\ exchange.answer >= 400 => record \in {"none", "failed"} /\ received = << >>
        /\ exchange.answer = 0 => record = "cancelled"

\* Nothing that shapes inference is dropped without a word: of a request that was
\* forwarded, every field that is neither null nor a control or unknown name is in
\* the body the upstream gets, and nothing else is.
InferenceFieldsArrive ==
    exchange.pc \in {"sending", "first", "ready", "body"} =>
        /\ \A f \in exchange.fields :
              f \in exchange.body <=> ~f.null /\ (f.class = "canonical" \/ exchange.kind \in f.extension)
        /\ \A f \in exchange.fields : f.class = "inference" => exchange.kind \in f.extension

\* The exchange is faithful both ways: what the upstream was asked is what the
\* client asked, and what the client was told is what happened.
ExchangeFaithful == InferenceFieldsArrive /\ DeliveredInOrder /\ OutcomeAgrees
================================================================================
