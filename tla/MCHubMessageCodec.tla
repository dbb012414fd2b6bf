-------------------------- MODULE MCHubMessageCodec --------------------------
(* Instance of HubMessageCodec for TLC: well-formed messages of each kind,    *)
(* with every kind of value in them, and what becomes of each when one field  *)
(* or item of it is taken away or replaced by something out of place.         *)
EXTENDS HubMessageCodec

Values == {Null, Bool(TRUE), Num(0), Num(-1), Num(I64Max + 1), Float("1.5"), Str("s"),
           Arr(<<>>), Arr(<<Str("s"), Null>>), Obj([a |-> Arr(<<Num(1)>>), b |-> Null])}

Opt(S) == {<<>>} \cup {<<x>> : x \in S}
Ids == {Str("i")}
Argument == {Arr(<<>>)} \cup {Arr(<<v>>) : v \in Values}
Streams == Opt({Arr(<<>>), Arr(<<Str("s")>>)})

Messages ==
    [kind : {"Invocation"}, body : [invocationId : Opt(Ids), target : {<<Str("m")>>},
                                    arguments : {<<a>> : a \in Argument}, streamIds : Streams]]
    \cup [kind : {"StreamInvocation"}, body : [invocationId : {<<Str("i")>>}, target : {<<Str("m")>>},
                                    arguments : {<<Arr(<<Num(1)>>)>>}, streamIds : Streams]]
    \cup [kind : {"StreamItem"}, body : [invocationId : {<<Str("i")>>}, item : {<<v>> : v \in Values}]]
    \cup [kind : {"Completion"}, body : [invocationId : {<<Str("i")>>}, result : Opt(Values),
                                         error : Opt({Str("e")})]]
    \cup [kind : {"CancelInvocation"}, body : [invocationId : {<<Str("i")>>}]]
    \cup [kind : {"Ping"}, body : {<<>>}]
    \cup [kind : {"Close"}, body : [error : Opt({Str("e")}), allowReconnect : Opt({Bool(TRUE)})]]

\* Types a JSON client may write: integers of more than eight bits, of either
\* sign, and beyond i64; strings; and values of other kinds.
Types == {Num(n) : n \in {-250, 0, 2, 8, 257, I64Max + 1}} \cup
         {Str(s) : s \in {"1", "+3", "007", "9", "257", "s"}} \cup {Null, Float("1.5")}

JsonOdd == {Null, Num(1), Str("s"), Bool(TRUE), Arr(<<Num(1)>>), Arr(<<Str("s")>>)}

MCTexts ==
    LET good == {ToJson(m)[1].fields : m \in Messages}
        without(fs, f) == [g \in DOMAIN fs \ {f} |-> fs[g]]
    IN  {<<>>, <<Null>>, <<Arr(<<>>)>>, <<Obj([type |-> Num(6)]), Obj([type |-> Num(6)])>>}
        \cup {<<Obj(fs)>> : fs \in good}
        \cup {<<Obj(without(fs, f))>> : fs \in good, f \in {"type", "invocationId", "target", "arguments", "item"}}
        \cup {<<Obj(("type" :> t) @@ without(fs, "type"))>> : fs \in good, t \in Types}
        \cup UNION {{<<Obj((f :> v) @@ fs)>> : f \in DOMAIN fs \ {"type"}, v \in JsonOdd} : fs \in good}

MsgPackOdd == {Nil, Ext, F64("nan"), String("s", FALSE), String("s", TRUE), Boolean(FALSE), Binary(<<7>>),
               Binary(<<>>), Integer(-1), Integer(2), Integer(257), Array(<<>>),
               Array(<<Integer(1)>>), Array(<<Ext>>),
               Pairs(<< <<Integer(1), Nil>> >>), Pairs(<< <<String("k", TRUE), Nil>> >>),
               Pairs(<< <<String("k", TRUE), String("v", TRUE)>>, <<String("k", TRUE), String("w", TRUE)>> >>)}

\* The values in these texts, and those that MessagePack values are converted to
MCJson ==
    LET found == {Null, Num(7), Arr(<<Num(7)>>), Obj(<<>>), Obj([k |-> Null]), Obj([k |-> Str("w")])}
        given == UNION {Types, JsonOdd, Values, found, {Num(n) : n \in 0..8},
                        {Bool(b) : b \in BOOLEAN}, {Str(s) : s \in {"v", "w"}},
                        UNION {Range(ToJson(m)[1].fields) : m \in Messages}}
    IN  given \cup UNION {Parts(v) : v \in given}

\* The values in these bodies
MCMsgPack ==
    MsgPackOdd \cup UNION {Parts(v) : v \in MsgPackOdd} \cup {ToMsgPack[v] : v \in MCJson}
    \cup {Integer(n) : n \in DOMAIN Kinds} \cup {Pairs(<<>>), Nil}

RECURSIVE DepthOf(_)
DepthOf(v) == IF Parts(v) = {} THEN 0 ELSE 1 + Max({DepthOf(part) : part \in Parts(v)})

MCDepth == [v \in MCJson \cup MCMsgPack |-> DepthOf(v)]

MCBodies ==
    LET good == {ToMsgPackBody(m)[1].items : m \in {n \in Messages : ToMsgPackBody(n) # <<>>}}
        body(items) == <<Array(items)>>
    IN  {<<>>, <<Nil>>, <<Array(<<>>)>>, <<Array(<<Integer(6)>>), Nil>>}
        \cup {body(is) : is \in good}
        \cup {body(Front(is)) : is \in good}
        \cup {body(Append(is, v)) : is \in good, v \in {Nil, Boolean(FALSE)}}
        \cup UNION {{body(ReplaceAt(is, i, v)) : i \in DOMAIN is, v \in MsgPackOdd} : is \in good}
=============================================================================
