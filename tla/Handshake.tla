----------------------------- MODULE Handshake -----------------------------
(***************************************************************************)
(* The SignalR handshake of one connection (perform_handshake and its      *)
(* caller handle_socket, src/src/server.rs) against a client that sends a  *)
(* request, or something else, or nothing, and behind it data frames.      *)
(*                                                                         *)
(* Frame 1 is the client's first, the request; frames 2, 3 ... are data.   *)
(* The handshake reads through a frame collector with a buffer of its own, *)
(* and one read of the socket may bring in more than the frame it was for. *)
(* The stream is then taken out of the collector and given to a new        *)
(* WebSocket; what the collector had buffered goes with it.                *)
(***************************************************************************)
EXTENDS Integers, Sequences

CONSTANT MaxFrames          \* bound: frames the client sends

ASSUME MaxFramesPositive == MaxFrames \in Nat \ {0}

VARIABLES
    request,    \* what the client sends first
    patient,    \* the client sends data only once its request is accepted
    sent,       \* how many frames it has sent
    hs,         \* where handle_socket is
    verdict,    \* the outcome perform_handshake is about to answer
    answer,     \* what the client has been told
    taken,      \* how many frames the collector has read or buffered
    handled     \* the data frames that reached the reader task

vars == <<request, patient, sent, hs, verdict, answer, taken, handled>>

\* A text payload is one JSON request, or a request with something behind its
\* record separator, or not a request at all.
Requests == [opcode : {"text", "binary", "close"}, shape : {"request", "batched", "other"},
             protocol : {"json", "JSON", "messagepack", "bson"}, version : 0..2]

\* Protocol::parse, which ignores case
ProtocolOf(name) ==
    CASE name \in {"json", "JSON"} -> "Json"
      [] name = "messagepack"      -> "MessagePack"
      [] OTHER                     -> "none"

Errors == {"timeout", "opcode", "json", "version", "protocol"}

\* The request is examined without its version.
MutantVerdictOf(r) ==
    CASE r.opcode # "text"              -> "opcode"
      [] r.shape # "request"            -> "json"
      [] ProtocolOf(r.protocol) = "none" -> "protocol"
      [] OTHER                          -> "success"

\* The checks in their order.  Separators are cut off the end only, so that a
\* request with a message behind it is no JSON value.
VerdictOf(r) ==
    CASE r.opcode # "text"              -> "opcode"
      [] r.shape # "request"            -> "json"
      [] r.version # 1                  -> "version"
      [] ProtocolOf(r.protocol) = "none" -> "protocol"
      [] OTHER                          -> "success"

Init ==
    /\ request \in Requests /\ patient \in BOOLEAN
    /\ sent = 0 /\ taken = 0 /\ handled = <<>>
    /\ hs = "reading" /\ verdict = "none" /\ answer = "none"

----------------------------------------------------------------------------
ClientSends ==
    /\ sent < MaxFrames
    /\ patient /\ sent > 0 => answer = "success"
    /\ sent' = sent + 1
    /\ UNCHANGED <<request, patient, hs, verdict, answer, taken, handled>>

\* The collector waits until it has a frame behind the request as well.
MutantReadRequest ==
    /\ hs = "reading" /\ sent > 0
    /\ taken' \in 2..(sent + 1)
    /\ hs' = "answering" /\ verdict' = VerdictOf(request)
    /\ UNCHANGED <<request, patient, sent, answer, handled>>

\* The request is here, and as much of what is behind it as one read brought.
ReadRequest ==
    /\ hs = "reading" /\ sent > 0
    /\ taken' \in 1..sent
    /\ hs' = "answering" /\ verdict' = VerdictOf(request)
    /\ UNCHANGED <<request, patient, sent, answer, handled>>

\* The read is tried again.
MutantTimesOut ==
    hs = "reading" /\ UNCHANGED vars

\* HANDSHAKE_TIMEOUT; a request that arrives now is not looked at.
TimesOut ==
    /\ hs = "reading"
    /\ hs' = "answering" /\ verdict' = "timeout"
    /\ UNCHANGED <<request, patient, sent, answer, taken, handled>>

\* A read error, or the end of the stream, is answered with nothing.
ReadFails ==
    /\ hs = "reading"
    /\ hs' = "dropped"
    /\ UNCHANGED <<request, patient, sent, verdict, answer, taken, handled>>

\* The answer is written; with an error in it the connection is dropped.
WriteAnswer ==
    /\ hs = "answering"
    /\ answer' = verdict
    /\ hs' = IF verdict = "success" THEN "accepted" ELSE "dropped"
    /\ UNCHANGED <<request, patient, sent, verdict, taken, handled>>

\* A failed write is ignored, as that of an error response is.
MutantWriteFails ==
    /\ hs = "answering"
    /\ hs' = IF verdict = "success" THEN "accepted" ELSE "dropped"
    /\ UNCHANGED <<request, patient, sent, verdict, answer, taken, handled>>

WriteFails ==
    /\ hs = "answering"
    /\ hs' = "dropped"
    /\ UNCHANGED <<request, patient, sent, verdict, answer, taken, handled>>

\* The collector looks for another frame before it is given up.
MutantServe ==
    /\ hs = "accepted"
    /\ hs' = "serving" /\ taken' \in taken..sent
    /\ UNCHANGED <<request, patient, sent, verdict, answer, handled>>

\* into_inner, after_handshake: the stream, without the collector's buffer
Serve ==
    /\ hs = "accepted"
    /\ hs' = "serving"
    /\ UNCHANGED <<request, patient, sent, verdict, answer, taken, handled>>

Next1 == taken + Len(handled) + 1

HandleData ==
    /\ hs = "serving" /\ Next1 <= sent
    /\ handled' = Append(handled, Next1)
    /\ UNCHANGED <<request, patient, sent, hs, verdict, answer, taken>>

----------------------------------------------------------------------------
Server == ReadRequest \/ TimesOut \/ Serve \/ HandleData

Network == WriteAnswer \/ WriteFails

Next == ClientSends \/ ReadFails \/ Server \/ Network

Spec == Init /\ [][Next]_vars

\* The read is under a timeout, so that no luck with the client is needed; the
\* write of the answer is not, and is assumed to complete or fail.
FairSpec == Spec /\ WF_vars(Server) /\ WF_vars(Network)

----------------------------------------------------------------------------
TypeOK ==
    /\ request \in Requests /\ patient \in BOOLEAN
    /\ sent \in 0..MaxFrames /\ taken \in 0..sent
    /\ hs \in {"reading", "answering", "accepted", "serving", "dropped"}
    /\ verdict \in Errors \cup {"none", "success"}
    /\ answer \in Errors \cup {"none", "success"}
    /\ handled \in Seq(2..MaxFrames)

\* Client and server agree on the outcome: who is served was told so and asked,
\* in a request of its own, for version 1 of a protocol the server has; who was
\* told so is served; and nobody who was told an error is.
OutcomeAgreed ==
    /\ hs \in {"accepted", "serving"} <=> answer = "success"
    /\ answer = "success" => /\ request.opcode = "text" /\ request.shape = "request"
                             /\ request.version = 1
                             /\ ProtocolOf(request.protocol) # "none"
    /\ handled # <<>> => answer = "success"

\* A client that awaits the answer before it sends data loses none of it to the
\* buffer of the handshake's reader: its frames are handled from the first on.
NothingLostBehindAnswer ==
    patient => /\ hs = "serving" => taken = 1
               /\ \A i \in DOMAIN handled : handled[i] = i + 1

\* No client, and in particular no silent one, keeps the handshake waiting.
HandshakeEnds == (hs \in {"reading", "answering"}) ~> (hs \in {"serving", "dropped"})

============================================================================
