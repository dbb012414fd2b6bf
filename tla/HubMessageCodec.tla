-------------------------- MODULE HubMessageCodec --------------------------
(***************************************************************************)
(* The JSON and MessagePack codecs of the hub messages (src/src/message.rs *)
(* and src/src/protocol.rs): what is made of a message that arrives in     *)
(* either protocol, and what is left of it when it is sent on, as a hub    *)
(* sends arguments and results of one client to another, in either         *)
(* protocol, any number of times.                                          *)
(*                                                                         *)
(* An Option is a sequence, <<>> for None and <<x>> for Some(x); so is the *)
(* outcome of what may fail.  A text, or the body of a MessagePack frame,  *)
(* is the sequence of the values in it: <<>> when it is not well formed,   *)
(* and two when there is something behind the first.                       *)
(***************************************************************************)
EXTENDS Integers, SequencesExt

CONSTANTS
    I64Max,     \* the largest integer as_i64 has a value for
    Json,       \* the values in JSON messages, with the values in these
    MsgPack,    \* the values in MessagePack messages, with the values in these
    Depth,      \* how deep a value of either kind is nested
    Texts,      \* the JSON texts a client may send
    Bodies,     \* the MessagePack bodies a client may send
    MaxHops     \* bound: how often a message is sent on

VARIABLES
    protocol,   \* of the bytes on the wire
    wire,       \* the text or the body on the wire
    stage,      \* "received", "parsed", "invalid" or "unsendable"
    message,    \* the message parsed last, if any
    first,      \* the message parsed first, if any
    crossed     \* the protocols in which it was sent on, in order

vars == <<protocol, wire, stage, message, first, crossed>>

----------------------------------------------------------------------------
\* serde_json::Value and rmpv::Value.  Bytes, extensions, strings that are not
\* UTF-8, floats that are not finite and keys other than strings exist in
\* MessagePack only; F64 stands for its shorter floats as well.

Null == [t |-> "null"]
Bool(b) == [t |-> "bool", b |-> b]
Num(n) == [t |-> "int", n |-> n]
Float(x) == [t |-> "float", x |-> x]
Str(s) == [t |-> "str", s |-> s]
Arr(items) == [t |-> "arr", items |-> items]
Obj(fields) == [t |-> "obj", fields |-> fields]

Nil == [t |-> "nil"]
Boolean(b) == [t |-> "boolean", b |-> b]
Integer(n) == [t |-> "integer", n |-> n]
F64(x) == [t |-> "f64", x |-> x]
String(s, utf8) == [t |-> "string", s |-> s, utf8 |-> utf8]
Binary(bytes) == [t |-> "binary", bytes |-> bytes]
Array(items) == [t |-> "array", items |-> items]
Pairs(pairs) == [t |-> "map", pairs |-> pairs]
Ext == [t |-> "ext"]

IsText(v) == v.t = "string" /\ v.utf8

\* The Options of the values in S
Option(S) == {<<>>} \cup {<<x>> : x \in S}

\* JSON has no NaN, and an object has each key once.
IsJson(v) ==
    CASE v.t = "null"  -> v = Null
      [] v.t = "bool"  -> v = Bool(v.b)
      [] v.t = "int"   -> v = Num(v.n)
      [] v.t = "float" -> v = Float(v.x) /\ v.x # "nan"
      [] v.t = "str"   -> v = Str(v.s)
      [] v.t = "arr"   -> v = Arr(v.items) /\ v.items \in Seq(Json)
      [] v.t = "obj"   -> /\ v = Obj(v.fields) /\ v.fields \in [DOMAIN v.fields -> Json]
                          /\ IsFiniteSet(DOMAIN v.fields)
      [] OTHER         -> FALSE

\* The values that a value is made of
Parts(v) ==
    CASE v.t \in {"arr", "array"} -> {v.items[i] : i \in DOMAIN v.items}
      [] v.t = "obj"             -> {v.fields[k] : k \in DOMAIN v.fields}
      [] v.t = "map"             -> {v.pairs[i][2] : i \in DOMAIN v.pairs}
      [] OTHER                   -> {}

\* Json and MsgPack may be any sets of finitely nested values that hold, with a
\* value, what it is made of and what it is converted to.
ASSUME JsonValues == Arr(<<>>) \in Json /\ \A v \in Json : IsJson(v)
ASSUME MsgPackValues ==
    \A v \in MsgPack : v.t \in {"nil", "boolean", "integer", "f64", "string", "binary",
                               "array", "map", "ext"}
ASSUME ValuesAreNested ==
    /\ Depth \in [Json \cup MsgPack -> Nat]
    /\ \A v \in Json : \A part \in Parts(v) : part \in Json /\ Depth[part] < Depth[v]
    /\ \A v \in MsgPack : \A part \in Parts(v) : part \in MsgPack /\ Depth[part] < Depth[v]

\* json_to_messagepack_value
ToMsgPack[v \in Json] ==
    CASE v.t = "arr"   -> Array([i \in DOMAIN v.items |-> ToMsgPack[v.items[i]]])
      [] v.t = "obj"   ->
           LET keys == SetToSeq(DOMAIN v.fields) IN
           Pairs([i \in DOMAIN keys |-> <<String(keys[i], TRUE), ToMsgPack[v.fields[keys[i]]]>>])
      [] v.t = "null"  -> Nil
      [] v.t = "bool"  -> Boolean(v.b)
      [] v.t = "int"   -> Integer(v.n)
      [] v.t = "float" -> F64(v.x)
      [] v.t = "str"   -> String(v.s, TRUE)

\* Some of all the values, or None when one of them failed
Collect(opts) ==
    IF \E i \in DOMAIN opts : opts[i] = <<>> THEN <<>> ELSE <<[i \in DOMAIN opts |-> opts[i][1]]>>

\* messagepack_to_json_value.  Bytes turn into an array of numbers; of a key
\* that is there twice the last value stays.
FromMsgPack[v \in MsgPack] ==
    CASE v.t = "array"   ->
           LET items == Collect([i \in DOMAIN v.items |-> FromMsgPack[v.items[i]]]) IN
           IF items = <<>> THEN <<>> ELSE <<Arr(items[1])>>
      [] v.t = "nil"     -> <<Null>>
      [] v.t = "boolean" -> <<Bool(v.b)>>
      [] v.t = "integer" -> <<Num(v.n)>>
      [] v.t = "f64"     -> IF v.x = "nan" THEN <<>> ELSE <<Float(v.x)>>
      [] v.t = "string"  -> IF v.utf8 THEN <<Str(v.s)>> ELSE <<>>
      [] v.t = "binary"  -> <<Arr([i \in DOMAIN v.bytes |-> Num(v.bytes[i])])>>
      [] v.t = "map"     ->
           LET values == Collect([i \in DOMAIN v.pairs |-> FromMsgPack[v.pairs[i][2]]])
               keys == {v.pairs[i][1].s : i \in DOMAIN v.pairs}
               last(k) == CHOOSE i \in DOMAIN v.pairs :
                              /\ v.pairs[i][1].s = k
                              /\ \A j \in DOMAIN v.pairs : v.pairs[j][1].s = k => j <= i
           IN  IF values = <<>> \/ \E i \in DOMAIN v.pairs : ~IsText(v.pairs[i][1])
               THEN <<>> ELSE <<Obj([k \in keys |-> values[1][last(k)]])>>
      [] v.t = "ext"     -> <<>>

ASSUME ValuesCanBeConverted ==
    /\ \A v \in Json : ToMsgPack[v] \in MsgPack
    /\ \A v \in MsgPack : FromMsgPack[v] \in Option(Json)
ASSUME TextsHoldValues ==
    \A text \in Texts : Len(text) = 1 /\ text[1].t = "obj" =>
        text[1].fields \in [DOMAIN text[1].fields -> Json]
ASSUME BodiesHoldValues ==
    \A body \in Bodies : Len(body) = 1 /\ body[1].t = "array" => body[1].items \in Seq(MsgPack)

----------------------------------------------------------------------------
\* HubMessage: a kind, and the fields of that kind, each an Option.  The types
\* of the fields; a "?" is an Option in the code, the others are always Some.

Kinds == <<"Invocation", "StreamItem", "Completion", "StreamInvocation",
           "CancelInvocation", "Ping", "Close">>

Fields == [
    Invocation       |-> [invocationId |-> "string?", target |-> "string",
                          arguments |-> "values", streamIds |-> "strings?"],
    StreamItem       |-> [invocationId |-> "string", item |-> "value"],
    Completion       |-> [invocationId |-> "string", result |-> "value?", error |-> "string?"],
    StreamInvocation |-> [invocationId |-> "string", target |-> "string",
                          arguments |-> "values", streamIds |-> "strings?"],
    CancelInvocation |-> [invocationId |-> "string"],
    Ping             |-> <<>>,
    Close            |-> [error |-> "string?", allowReconnect |-> "bool?"]]

Optional == {"string?", "value?", "strings?", "bool?"}

IsA(v, type) ==
    CASE type \in {"string", "string?"} -> v.t = "str"
      [] type = "values"                -> v.t = "arr"
      [] type = "strings?"              -> v.t = "arr" /\ \A i \in DOMAIN v.items : v.items[i].t = "str"
      [] type = "bool?"                 -> v.t = "bool"
      [] type \in {"value", "value?"}   -> TRUE

Conforms(m) ==
    /\ m.kind \in ToSet(Kinds)
    /\ DOMAIN m.body = DOMAIN Fields[m.kind]
    /\ \A f \in DOMAIN m.body :
           LET type == Fields[m.kind][f] IN
           IF m.body[f] = <<>> THEN type \in Optional ELSE IsA(m.body[f][1], type)

ASSUME TypesAreI64 == I64Max \in Nat /\ I64Max >= Len(Kinds)

Code(m) == CHOOSE n \in DOMAIN Kinds : Kinds[n] = m.kind

----------------------------------------------------------------------------
\* JSON: Deserialize and Serialize for HubMessage

\* str::parse::<u8>, for the strings of the instances
U8Of == ("1" :> 1) @@ ("+3" :> 3) @@ ("007" :> 7) @@ ("9" :> 9)

\* An integer is cut to eight bits, a string is not.
TypeOf(v) ==
    CASE v.t = "int" /\ v.n <= I64Max      -> <<v.n % 256>>
      [] v.t = "str" /\ v.s \in DOMAIN U8Of -> <<U8Of[v.s]>>
      [] OTHER                             -> <<>>

\* A missing Option and a null one are None, missing arguments are none, and
\* nothing else may be missing.
JsonField(fields, f, type) ==
    CASE f \notin DOMAIN fields /\ type = "values"            -> <<Arr(<<>>)>>
      [] f \notin DOMAIN fields                               -> <<>>
      [] f \in DOMAIN fields /\ type \in Optional /\ fields[f] = Null -> <<>>
      [] OTHER                                                -> <<fields[f]>>

FromJson(text) ==
    IF ~(Len(text) = 1 /\ text[1].t = "obj" /\ "type" \in DOMAIN text[1].fields) THEN <<>>
    ELSE LET fields == text[1].fields
             type == TypeOf(fields["type"])
         IN  IF type = <<>> \/ ~(type[1] \in DOMAIN Kinds) THEN <<>>
             ELSE LET kind == Kinds[type[1]]
                      m == [kind |-> kind,
                            body |-> [f \in DOMAIN Fields[kind] |-> JsonField(fields, f, Fields[kind][f])]]
                  IN  IF Conforms(m) THEN <<m>> ELSE <<>>

\* Options that are None are left out.
ToJson(m) ==
    LET some == {f \in DOMAIN m.body : m.body[f] # <<>>} IN
    <<Obj([f \in some \cup {"type"} |-> IF f = "type" THEN Num(Code(m)) ELSE m.body[f][1]])>>

----------------------------------------------------------------------------
\* MessagePack: the positions of the fields in the array

HasHeaders(kind) == kind \notin {"Ping", "Close"}

OrNil(opt) == IF opt = <<>> THEN Nil ELSE ToMsgPack[opt[1]]

\* (A fault for the properties to notice, like each Mutant below.)  A null
\* result is taken for none.
MutantCompletionItems(b) ==
    CASE b.error # <<>>                     -> <<Integer(1), ToMsgPack[b.error[1]]>>
      [] b.error = <<>> /\ b.result \in {<<>>, <<Null>>} -> <<Integer(2)>>
      [] OTHER                              -> <<Integer(3), ToMsgPack[b.result[1]]>>

\* completion_to_messagepack: the kind of the result, and the result
CompletionItems(b) ==
    CASE b.error # <<>>                    -> <<Integer(1), ToMsgPack[b.error[1]]>>
      [] b.error = <<>> /\ b.result = <<>> -> <<Integer(2)>>
      [] OTHER                             -> <<Integer(3), ToMsgPack[b.result[1]]>>

\* The items behind the type and the headers
Items(m) ==
    LET b == m.body IN
    CASE m.kind \in {"Invocation", "StreamInvocation"} ->
             <<OrNil(b.invocationId), ToMsgPack[b.target[1]], ToMsgPack[b.arguments[1]],
               IF b.streamIds = <<>> THEN Array(<<>>) ELSE ToMsgPack[b.streamIds[1]]>>
      [] m.kind = "StreamItem"       -> <<ToMsgPack[b.invocationId[1]], ToMsgPack[b.item[1]]>>
      [] m.kind = "Completion"       -> <<ToMsgPack[b.invocationId[1]]>> \o CompletionItems(b)
      [] m.kind = "CancelInvocation" -> <<ToMsgPack[b.invocationId[1]]>>
      [] m.kind = "Ping"             -> <<>>
      [] m.kind = "Close"            ->
             <<OrNil(b.error)>> \o
             IF b.allowReconnect = <<>> THEN <<>> ELSE <<ToMsgPack[b.allowReconnect[1]]>>

\* message_to_messagepack_value fails for nothing but a completion with both.
ToMsgPackBody(m) ==
    IF m.kind = "Completion" /\ m.body.result # <<>> /\ m.body.error # <<>> THEN <<>>
    ELSE <<Array(<<Integer(Code(m))>> \o (IF HasHeaders(m.kind) THEN <<Pairs(<<>>)>> ELSE <<>>)
                 \o Items(m))>>

\* The kind of a completion's result, 0 for one that is no unsigned integer
ResultKind(items) ==
    IF Len(items) >= 4 /\ items[4].t = "integer" /\ items[4].n >= 0 THEN items[4].n ELSE 0

\* Stream ids are not expected.
MutantCounts(kind, items) ==
    CASE kind \in {"Invocation", "StreamInvocation"} -> {5}
      [] kind = "StreamItem"       -> {4}
      [] kind = "Completion"       -> {n \in {4, 5} : /\ ResultKind(items) \in {1, 2, 3}
                                                      /\ n = 4 <=> ResultKind(items) = 2}
      [] kind = "CancelInvocation" -> {3}
      [] kind = "Ping"             -> {1}
      [] kind = "Close"            -> {1, 2, 3}

\* How many items a message has, of a completion with its kind of result
Counts(kind, items) ==
    CASE kind \in {"Invocation", "StreamInvocation"} -> {5, 6}
      [] kind = "StreamItem"       -> {4}
      [] kind = "Completion"       -> {n \in {4, 5} : /\ ResultKind(items) \in {1, 2, 3}
                                                      /\ n = 4 <=> ResultKind(items) = 2}
      [] kind = "CancelInvocation" -> {3}
      [] kind = "Ping"             -> {1}
      [] kind = "Close"            -> {1, 2, 3}

\* Where a field is, and the type it must have there
Places(kind, items) ==
    CASE kind \in {"Invocation", "StreamInvocation"} ->
             [invocationId |-> 3, target |-> 4, arguments |-> 5, streamIds |-> 6]
      [] kind = "StreamItem" -> [invocationId |-> 3, item |-> 4]
      [] kind = "Completion" ->
             CASE ResultKind(items) = 1 -> [invocationId |-> 3, error |-> 5]
               [] ResultKind(items) = 3 -> [invocationId |-> 3, result |-> 5]
               [] OTHER -> [invocationId |-> 3]
      [] kind = "CancelInvocation" -> [invocationId |-> 3]
      [] kind = "Ping" -> <<>>
      [] kind = "Close" -> [error |-> 2, allowReconnect |-> 3]

TypeAt(kind, f) ==
    CASE kind = "Completion" /\ f = "error"  -> "string"
      [] kind = "Completion" /\ f = "result" -> "value"
      [] OTHER                               -> Fields[kind][f]

\* The items of an array are not looked at.
MutantMsgPackField(items, place, type) ==
    IF type \in Optional /\ (place > Len(items) \/ (place <= Len(items) /\ items[place] = Nil))
    THEN << <<>> >>
    ELSE LET j == FromMsgPack[items[place]] IN
         IF j # <<>> /\ (j[1].t = "arr" \/ IsA(j[1], type)) THEN <<j>> ELSE <<>>

\* The field's Option, in an Option.  An empty array of stream ids is None.
MsgPackField(items, place, type) ==
    LET absent == place > Len(items) \/ (place <= Len(items) /\ items[place] = Nil)
        empty == type = "strings?" /\ place <= Len(items) /\ items[place] = Array(<<>>)
    IN  IF type \in Optional /\ (absent \/ empty) THEN << <<>> >>
        ELSE IF type \in {"values", "strings?"} /\ items[place].t # "array" THEN <<>>
        ELSE LET j == FromMsgPack[items[place]] IN
             IF j # <<>> /\ IsA(j[1], type) THEN <<j>> ELSE <<>>

\* validate_messagepack_headers; what is in the headers is dropped.
HeadersOK(v) ==
    v.t = "map" /\ \A i \in DOMAIN v.pairs : IsText(v.pairs[i][1]) /\ IsText(v.pairs[i][2])

FromMsgPackItems(kind, items) ==
    IF Len(items) \notin Counts(kind, items) \/ (HasHeaders(kind) /\ ~HeadersOK(items[2])) THEN <<>>
    ELSE LET places == Places(kind, items)
             found == [f \in DOMAIN places |-> MsgPackField(items, places[f], TypeAt(kind, f))]
         IN  IF \E f \in DOMAIN found : found[f] = <<>> THEN <<>>
             ELSE <<[kind |-> kind,
                     body |-> [f \in DOMAIN Fields[kind] |->
                                   IF f \in DOMAIN found THEN found[f][1] ELSE <<>>]]>>

\* parse_messagepack_body, messagepack_value_to_message
FromMsgPackBody(body) ==
    IF /\ Len(body) = 1 /\ body[1].t = "array" /\ body[1].items # <<>>
       /\ body[1].items[1].t = "integer" /\ body[1].items[1].n \in DOMAIN Kinds
    THEN FromMsgPackItems(Kinds[body[1].items[1].n], body[1].items)
    ELSE <<>>

----------------------------------------------------------------------------
Init ==
    /\ \/ protocol = "json" /\ wire \in Texts
       \/ protocol = "messagepack" /\ wire \in Bodies
    /\ stage = "received" /\ message = <<>> /\ first = <<>> /\ crossed = <<>>

Parse ==
    /\ stage = "received"
    /\ message' = IF protocol = "json" THEN FromJson(wire) ELSE FromMsgPackBody(wire)
    /\ stage' = IF message' = <<>> THEN "invalid" ELSE "parsed"
    /\ first' = IF first = <<>> THEN message' ELSE first
    /\ UNCHANGED <<protocol, wire, crossed>>

\* serialize_outgoing_message; the writer logs an error and goes on.
Send(p) ==
    /\ stage = "parsed" /\ Len(crossed) < MaxHops
    /\ protocol' = p /\ crossed' = Append(crossed, p)
    /\ wire' = IF p = "json" THEN ToJson(message[1]) ELSE ToMsgPackBody(message[1])
    /\ stage' = IF wire' = <<>> THEN "unsendable" ELSE "received"
    /\ UNCHANGED <<message, first>>

Next == Parse \/ \E p \in {"json", "messagepack"} : Send(p)

Spec == Init /\ [][Next]_vars

----------------------------------------------------------------------------
TypeOK ==
    /\ protocol \in {"json", "messagepack"}
    /\ stage \in {"received", "parsed", "invalid", "unsendable"}
    /\ stage = "parsed" => message # <<>>
    /\ \A m \in ToSet(message) \cup ToSet(first) : Conforms(m)

\* However often a message is sent on, it keeps its meaning: its kind, its ids,
\* target, arguments and error to the last value in them.  Only an empty list of
\* stream ids is lost in MessagePack, and only a null result in JSON.
MeaningKept ==
    stage = "parsed" =>
        /\ message[1].kind = first[1].kind
        /\ \A f \in DOMAIN first[1].body :
             LET was == first[1].body[f]
                 lost == \/ f = "streamIds" /\ was = <<Arr(<<>>)>> /\ Contains(crossed, "messagepack")
                         \/ f = "result" /\ was = <<Null>> /\ Contains(crossed, "json")
             IN  message[1].body[f] = IF lost THEN <<>> ELSE was

\* What was accepted once can be sent on in either protocol and is accepted
\* again, unless it is a completion with both a result and an error: that is
\* accepted in JSON and lost when it is to be sent in MessagePack.
AcceptedStaysSendable ==
    /\ stage = "invalid" => first = <<>>
    /\ stage = "unsendable" =>
         /\ Last(crossed) = "messagepack"
         /\ first[1].kind = "Completion"
         /\ first[1].body.result # <<>> /\ first[1].body.error # <<>>

\* "Returns an error if the message ... does not match a supported SignalR hub
\* message shape": a type of 257 is no supported one.
OnlySupportedTypes ==
    stage = "parsed" /\ crossed = <<>> /\ protocol = "json" /\ wire[1].fields["type"].t = "int" =>
        wire[1].fields["type"].n \in DOMAIN Kinds

=============================================================================
