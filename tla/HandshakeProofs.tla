-------------------------- MODULE HandshakeProofs --------------------------
(***************************************************************************)
(* Proofs of the safety properties of Handshake, for every number of       *)
(* frames: client and server agree on the outcome, and a client that waits *)
(* for the answer loses none of its data to the buffer of the handshake's  *)
(* reader.                                                                 *)
(***************************************************************************)
EXTENDS Handshake, SequenceTheorems, TLAPS

\* What handle_socket knows at each stage: nothing is read before there is a
\* verdict, and an accepted connection read the request it was accepted for.
StageInv ==
    /\ hs = "reading" => taken = 0 /\ verdict = "none"
    /\ hs \in {"reading", "answering"} => answer = "none"
    /\ verdict = "success" => VerdictOf(request) = "success" /\ taken >= 1
    /\ hs \in {"accepted", "serving"} => verdict = "success" /\ answer = "success"
    /\ answer = "success" => hs \in {"accepted", "serving"}

\* The data frames handled are those behind what the collector took.
HandledInv ==
    /\ handled # <<>> => hs = "serving"
    /\ \A i \in 1..Len(handled) : handled[i] = taken + i

\* A patient client sends its request, and no more until it is accepted.
PatientInv ==
    patient => /\ answer # "success" => sent <= 1
               /\ taken <= 1

IInv == TypeOK /\ StageInv /\ HandledInv /\ PatientInv

----------------------------------------------------------------------------
LEMMA VerdictType == ASSUME NEW r \in Requests PROVE VerdictOf(r) \in Errors \cup {"success"}
  BY DEF VerdictOf, Errors

LEMMA VerdictSuccess ==
  ASSUME NEW r \in Requests, VerdictOf(r) = "success"
  PROVE  r.opcode = "text" /\ r.shape = "request" /\ r.version = 1 /\ ProtocolOf(r.protocol) # "none"
  BY DEF VerdictOf

LEMMA InitInv == Init => IInv
  <1> SUFFICES ASSUME Init PROVE IInv
    OBVIOUS
  <1> USE MaxFramesPositive DEF Init
  <1>1. TypeOK
    BY DEF TypeOK
  <1>2. StageInv /\ HandledInv /\ PatientInv
    BY DEF StageInv, HandledInv, PatientInv
  <1> QED BY <1>1, <1>2 DEF IInv

LEMMA StepInv == IInv /\ [Next]_vars => IInv'
  <1> SUFFICES ASSUME IInv, [Next]_vars PROVE IInv'
    OBVIOUS
  <1> USE MaxFramesPositive DEF IInv, TypeOK
  <1>1. CASE ClientSends
    <2> USE <1>1 DEF ClientSends
    <2>1. TypeOK' /\ StageInv'
      BY DEF StageInv
    <2>2. HandledInv' /\ PatientInv'
      BY DEF HandledInv, PatientInv
    <2> QED BY <2>1, <2>2
  <1>2. CASE ReadFails
    <2> USE <1>2 DEF ReadFails
    <2>1. TypeOK' /\ StageInv'
      BY DEF StageInv
    <2>2. HandledInv' /\ PatientInv'
      BY DEF HandledInv, PatientInv
    <2> QED BY <2>1, <2>2
  <1>3. CASE ReadRequest
    <2> USE <1>3, VerdictType DEF ReadRequest
    <2>1. TypeOK'
      OBVIOUS
    <2>2. StageInv'
      BY DEF StageInv
    <2>3. handled = <<>>
      BY DEF HandledInv
    <2>4. HandledInv'
      BY <2>3 DEF HandledInv
    <2>5. PatientInv'
      BY DEF PatientInv, StageInv
    <2> QED BY <2>1, <2>2, <2>4, <2>5
  <1>4. CASE TimesOut
    <2> USE <1>4 DEF TimesOut
    <2>1. TypeOK' /\ StageInv'
      BY DEF StageInv, Errors
    <2>2. HandledInv' /\ PatientInv'
      BY DEF HandledInv, PatientInv
    <2> QED BY <2>1, <2>2
  <1>5. CASE Serve
    <2> USE <1>5 DEF Serve
    <2>1. TypeOK' /\ StageInv'
      BY DEF StageInv
    <2>2. HandledInv' /\ PatientInv'
      BY DEF HandledInv, PatientInv
    <2> QED BY <2>1, <2>2
  <1>6. CASE HandleData
    <2> USE <1>6 DEF HandleData
    <2>1. taken >= 1
      BY DEF StageInv
    <2>2. Next1 \in 2..MaxFrames
      BY <2>1 DEF Next1
    <2>3. TypeOK'
      BY <2>2, AppendProperties
    <2>4. StageInv' /\ PatientInv'
      BY DEF StageInv, PatientInv
    <2>5. HandledInv'
      <3>1. /\ Len(handled') = Len(handled) + 1
            /\ \A i \in 1..Len(handled) : handled'[i] = handled[i]
            /\ handled'[Len(handled) + 1] = Next1
        BY <2>2, AppendProperties
      <3>2. ASSUME NEW i \in 1..Len(handled) PROVE handled'[i] = taken + i
        BY <3>1 DEF HandledInv
      <3>3. handled'[Len(handled) + 1] = taken + (Len(handled) + 1)
        BY <3>1 DEF Next1
      <3>4. 1..Len(handled') = 1..Len(handled) \cup {Len(handled) + 1}
        BY <3>1
      <3> QED BY <3>2, <3>3, <3>4 DEF HandledInv
    <2> QED BY <2>3, <2>4, <2>5
  <1>7. CASE WriteAnswer
    <2> USE <1>7 DEF WriteAnswer
    <2>1. TypeOK' /\ StageInv'
      BY DEF StageInv
    <2>2. HandledInv' /\ PatientInv'
      BY DEF HandledInv, PatientInv, StageInv
    <2> QED BY <2>1, <2>2
  <1>8. CASE WriteFails
    <2> USE <1>8 DEF WriteFails
    <2>1. TypeOK' /\ StageInv'
      BY DEF StageInv
    <2>2. HandledInv' /\ PatientInv'
      BY DEF HandledInv, PatientInv
    <2> QED BY <2>1, <2>2
  <1>9. CASE UNCHANGED vars
    BY <1>9 DEF vars, StageInv, HandledInv, PatientInv
  <1> QED BY <1>1, <1>2, <1>3, <1>4, <1>5, <1>6, <1>7, <1>8, <1>9 DEF Next, Server, Network

LEMMA Inductive == Spec => []IInv
  BY InitInv, StepInv, PTL DEF Spec

----------------------------------------------------------------------------
\* The state has its type; in particular only data frames reach the reader task.
THEOREM TypeCorrect == Spec => []TypeOK
  <1>1. IInv => TypeOK
    BY DEF IInv
  <1> QED BY <1>1, Inductive, PTL

\* Client and server agree on the outcome of the handshake, whatever the client
\* asked for, whatever timed out and whatever write failed.
THEOREM OutcomeShared == Spec => []OutcomeAgreed
  <1>1. ASSUME IInv PROVE OutcomeAgreed
    <2> USE <1>1 DEF IInv, TypeOK
    <2>1. hs \in {"accepted", "serving"} <=> answer = "success"
      BY DEF StageInv
    <2>2. answer = "success" => VerdictOf(request) = "success"
      BY DEF StageInv
    <2>3. handled # <<>> => answer = "success"
      BY DEF StageInv, HandledInv
    <2> QED BY <2>1, <2>2, <2>3, VerdictSuccess DEF OutcomeAgreed
  <1> QED BY <1>1, Inductive, PTL

\* The data of a client that waits for the answer is handled from its first
\* frame on, although the handshake's buffer is thrown away.
THEOREM PatientLosesNothing == Spec => []NothingLostBehindAnswer
  <1>1. ASSUME IInv PROVE NothingLostBehindAnswer
    <2> USE <1>1 DEF IInv, TypeOK
    <2> SUFFICES ASSUME patient
                 PROVE  /\ hs = "serving" => taken = 1
                        /\ \A i \in DOMAIN handled : handled[i] = i + 1
      BY DEF NothingLostBehindAnswer
    <2>1. hs = "serving" => taken = 1
      BY DEF StageInv, PatientInv
    <2>2. ASSUME NEW i \in DOMAIN handled PROVE handled[i] = i + 1
      <3>1. i \in 1..Len(handled) /\ handled # <<>>
        BY <2>2
      <3> QED BY <2>1, <3>1 DEF HandledInv
    <2> QED BY <2>1, <2>2
  <1> QED BY <1>1, Inductive, PTL

============================================================================
