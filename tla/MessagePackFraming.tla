------------------------- MODULE MessagePackFraming -------------------------
(***************************************************************************)
(* The length-prefixed frames of the MessagePack protocol (src/src/        *)
(* protocol.rs): what the sender makes of a list of payloads, and what the *)
(* reader makes of that, or of any bytes a client puts into a binary       *)
(* frame.  A prefix is the length of the payload in digits of seven bits,  *)
(* the least significant first, with the eighth bit set on all but the     *)
(* last.  Base is the number of values of such a digit, so that a byte is  *)
(* in 0..2 * Base - 1 and carries the flag from Base on.                   *)
(***************************************************************************)
EXTENDS Integers, Sequences

CONSTANTS
    Base,           \* 128 in the code
    MaxPrefix,      \* MESSAGEPACK_MAX_PREFIX_BYTES
    MaxLength,      \* MESSAGEPACK_MAX_FRAME_LENGTH
    Wild,           \* the byte strings a client may send
    Payloads,       \* the payloads a sender frames
    MaxPayloads     \* bound: payloads in one binary frame

Byte == 0..(2 * Base - 1)

\* What a shift by so many digits multiplies by.
Weight[i \in 0..MaxPrefix] == IF i = 0 THEN 1 ELSE Base * Weight[i - 1]

ASSUME BaseAtLeastTwo == Base \in Nat /\ Base >= 2
ASSUME PrefixHoldsEveryLength ==
    /\ MaxPrefix \in Nat \ {0} /\ MaxLength \in Nat
    /\ MaxLength < Weight[MaxPrefix]
ASSUME WildAreBytes == Wild \subseteq Seq(Byte)
ASSUME PayloadsAreBytes == Payloads \subseteq Seq(Byte)
ASSUME MaxPayloadsIsNat == MaxPayloads \in Nat

VARIABLES
    framed,     \* the payloads framed by the sender
    data,       \* the bytes of the binary frame
    status,     \* "writing", "reading", "split" or "rejected"
    offset,     \* how many bytes the reader has consumed
    frames      \* the slices of data it has found

vars == <<framed, data, status, offset, frames>>

Init ==
    /\ framed = <<>> /\ offset = 0 /\ frames = <<>>
    /\ \/ status = "writing" /\ data = <<>>
       \/ status = "reading" /\ data \in Wild

----------------------------------------------------------------------------
\* The sender

\* (Here as below a Mutant is a fault for the properties to notice.)  A length
\* that fills its last digit gets one digit too few.
MutantDigits(length) ==
    CHOOSE n \in 1..MaxPrefix :
        /\ length <= Weight[n]
        /\ \A m \in 1..(n - 1) : length > Weight[m]

\* How often write_varint_length goes round its loop.
Digits(length) ==
    CHOOSE n \in 1..MaxPrefix :
        /\ length < Weight[n]
        /\ \A m \in 1..(n - 1) : length >= Weight[m]

WriteVarint(length) ==
    LET n == Digits(length) IN
    [i \in 1..n |-> ((length \div Weight[i - 1]) % Base) + (IF i < n THEN Base ELSE 0)]

\* frame_messagepack_payload; a payload too long is an error and sends nothing.
Frame(payload) ==
    /\ status = "writing" /\ Len(framed) < MaxPayloads
    /\ Len(payload) <= MaxLength
    /\ framed' = Append(framed, payload)
    /\ data' = data \o WriteVarint(Len(payload)) \o payload
    /\ UNCHANGED <<status, offset, frames>>

Deliver ==
    /\ status = "writing" /\ status' = "reading"
    /\ UNCHANGED <<framed, data, offset, frames>>

----------------------------------------------------------------------------
\* The reader: split_messagepack_frames, an action a round of its loop

\* The number that the digits of a prefix make up.
Number(digits) ==
    LET v[i \in 0..Len(digits)] ==
        IF i = 0 THEN 0 ELSE v[i - 1] + (digits[i] % Base) * Weight[i - 1]
    IN  v[Len(digits)]

Value(n) == Number(SubSeq(data, offset + 1, offset + n))

\* read_varint_length ends at the first byte without the flag, if the first
\* MaxPrefix bytes have one.
PrefixEnds(n) ==
    /\ n \in 1..MaxPrefix /\ offset + n <= Len(data)
    /\ data[offset + n] < Base
    /\ \A i \in 1..(n - 1) : data[offset + i] >= Base

\* Frames may end beyond the data.
MutantFits(n) == Value(n) <= MaxLength

\* The last frame has to be followed by another.
Mutant2Fits(n) == Value(n) <= MaxLength /\ offset + n + Value(n) < Len(data)

Fits(n) == Value(n) <= MaxLength /\ offset + n + Value(n) <= Len(data)

ReadFrame(n) ==
    /\ status = "reading" /\ offset < Len(data)
    /\ PrefixEnds(n) /\ Fits(n)
    /\ frames' = Append(frames, [from |-> offset + n + 1, to |-> offset + n + Value(n)])
    /\ offset' = offset + n + Value(n)
    /\ UNCHANGED <<framed, data, status>>

\* An incomplete prefix is left for the next binary frame to complete.
MutantReject ==
    /\ status = "reading" /\ offset + MaxPrefix <= Len(data)
    /\ ~\E n \in 1..MaxPrefix : PrefixEnds(n) /\ Fits(n)
    /\ status' = "rejected" /\ frames' = <<>>
    /\ UNCHANGED <<framed, data, offset>>

\* A prefix cut short or too long, a length beyond the maximum or the data: the
\* error takes the frames before it along.
Reject ==
    /\ status = "reading" /\ offset < Len(data)
    /\ ~\E n \in 1..MaxPrefix : PrefixEnds(n) /\ Fits(n)
    /\ status' = "rejected" /\ frames' = <<>>
    /\ UNCHANGED <<framed, data, offset>>

Finish ==
    /\ status = "reading" /\ offset = Len(data)
    /\ status' = "split"
    /\ UNCHANGED <<framed, data, offset, frames>>

----------------------------------------------------------------------------
Reader == Reject \/ Finish \/ \E n \in 1..MaxPrefix : ReadFrame(n)

Next == Deliver \/ Reader \/ \E payload \in Payloads : Frame(payload)

Spec == Init /\ [][Next]_vars

FairSpec == Spec /\ WF_vars(Reader)

----------------------------------------------------------------------------
TypeOK ==
    /\ framed \in Seq(Payloads)
    /\ data \in Seq(Byte)
    /\ status \in {"writing", "reading", "split", "rejected"}
    /\ offset \in 0..Len(data)
    /\ frames \in Seq([from : 1..(Len(data) + 1), to : 0..offset])
    /\ \A i \in DOMAIN frames : frames[i].from <= frames[i].to + 1

\* What was framed is found again, payload by payload, whatever the payloads
\* look like, and nothing that was framed is rejected.
PayloadsRecovered ==
    framed # <<>> =>
        /\ status # "rejected"
        /\ status = "split" =>
             framed = [i \in DOMAIN frames |-> SubSeq(data, frames[i].from, frames[i].to)]

\* The reference: the bytes from lo to hi are one frame, with a prefix of any
\* number of digits up to MaxPrefix, a shortest one or not.
OneFrame(lo, hi) ==
    \E n \in 1..MaxPrefix :
        /\ lo + n - 1 <= hi
        /\ \A i \in 1..n : (data[lo + i - 1] < Base) <=> (i = n)
        /\ LET length == Number(SubSeq(data, lo, lo + n - 1)) IN
           length <= MaxLength /\ length = hi - lo - n + 1

\* There is a way to cut the data into frames (ends: the last byte of each).
Splittable(ends) ==
    \A e \in ends :
        \E b \in {0} \cup ends :
            b < e /\ (\A c \in ends : ~(b < c /\ c < e)) /\ OneFrame(b + 1, e)

\* The reader, which never goes back, finds the one way to cut the data into
\* frames, and rejects the data only when there is none.
SplitIffSplittable ==
    LET Cuts == {S \cup {Len(data)} : S \in SUBSET (1..(Len(data) - 1))} IN
    /\ status = "rejected" => ~\E ends \in Cuts : Splittable(ends)
    /\ status = "split" /\ data # <<>> =>
         \A ends \in Cuts : Splittable(ends) <=> ends = {frames[i].to : i \in DOMAIN frames}

\* The loop ends, whatever the bytes.
ReaderEnds == status = "reading" ~> status \in {"split", "rejected"}

============================================================================
