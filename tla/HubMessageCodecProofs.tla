----------------------- MODULE HubMessageCodecProofs ------------------------
(***************************************************************************)
(* That a message keeps its meaning in whatever mix of the two protocols   *)
(* it is sent on.  First the values: the conversions are functions over    *)
(* nested values, so each is shown to be what its definition says, and a   *)
(* value is shown to come back from MessagePack as it was, by induction    *)
(* over its depth.  Then the messages: what ToJson and ToMsgPackBody make  *)
(* of a message is read back as the message, but for one field in one case *)
(* each (Relayed).  Then the wire: what the next parse will find there     *)
(* agrees with the message that was parsed first (IInv).                   *)
(***************************************************************************)
EXTENDS HubMessageCodec, SequenceTheorems, FiniteSetTheorems, TLAPS

----------------------------------------------------------------------------
\* Induction over how deep a value is nested, for a set instead of a predicate.
LEMMA DepthInduction ==
  ASSUME NEW V, NEW D \in [V -> Nat], NEW S,
         \A v \in V : (\A u \in V : D[u] < D[v] => u \in S) => v \in S
  PROVE  \A v \in V : v \in S
  <1> DEFINE Missing == V \ S
             R == OpToRel(<, Nat)
             Depths == {D[v] : v \in Missing}
  <1> SUFFICES ASSUME Missing # {} PROVE FALSE
    OBVIOUS
  <1>1. IsWellFoundedOn(R, Nat)
    BY NatLessThanWellFounded
  <1>2. \A x, y \in Nat : y < x => <<y, x>> \in R
    BY DEF OpToRel
  <1>3. Depths \subseteq Nat /\ Depths # {}
    OBVIOUS
  <1> HIDE DEF R, Depths
  <1>4. PICK d \in Depths : \A e \in Depths : ~(<<e, d>> \in R)
    BY <1>1, <1>3, WFMin
  <1>5. \A e \in Depths : ~(e < d)
    BY <1>2, <1>3, <1>4
  <1>6. PICK v \in V : v \notin S /\ D[v] = d
    BY <1>4 DEF Depths
  <1>7. ASSUME NEW u \in V, D[u] < D[v] PROVE u \in S
    <2>1. u \notin S => D[u] \in Depths
      BY DEF Depths
    <2> QED BY <1>5, <1>6, <1>7, <2>1
  <1> QED BY <1>6, <1>7

----------------------------------------------------------------------------
\* The conversion to MessagePack is the function its definition says it is.
JsonStep(f, v) ==
    CASE v.t = "arr"   -> Array([i \in DOMAIN v.items |-> f[v.items[i]]])
      [] v.t = "obj"   ->
           LET keys == SetToSeq(DOMAIN v.fields) IN
           Pairs([i \in DOMAIN keys |-> <<String(keys[i], TRUE), f[v.fields[keys[i]]]>>])
      [] v.t = "null"  -> Nil
      [] v.t = "bool"  -> Boolean(v.b)
      [] v.t = "int"   -> Integer(v.n)
      [] v.t = "float" -> F64(v.x)
      [] v.t = "str"   -> String(v.s, TRUE)

\* The keys of an object in some order, each once
LEMMA KeysFacts ==
  ASSUME NEW K, IsFiniteSet(K)
  PROVE  LET keys == SetToSeq(K) IN
         /\ keys \in Seq(K) /\ DOMAIN keys = 1..Len(keys)
         /\ \A i \in DOMAIN keys : keys[i] \in K
         /\ \A k \in K : \E i \in DOMAIN keys : keys[i] = k
         /\ \A i, j \in DOMAIN keys : keys[i] = keys[j] => i = j
  <1> DEFINE n == Cardinality(K)
             keys == SetToSeq(K)
  <1>1. n \in Nat /\ ExistsBijection(1..n, K)
    BY FS_CardinalityType
  <1>2. \E f \in [1..n -> K] : IsInjective(f)
    BY <1>1 DEF ExistsBijection, Bijection, Injection
  <1>3. keys \in [1..n -> K] /\ IsInjective(keys)
    BY <1>2, Zenon DEF SetToSeq
  <1> HIDE DEF keys
  <1>4. keys \in Injection(1..n, K)
    BY <1>3 DEF Injection
  <1>5. Cardinality(1..n) = n
    BY <1>1, FS_Interval
  <1>6. keys \in Surjection(1..n, K)
    <2> HIDE DEF n
    <2>1. Cardinality(1..n) = Cardinality(K)
      BY <1>5 DEF n
    <2> QED BY <1>4, <2>1, FS_Injection
  <1>7. \A k \in K : \E i \in 1..n : keys[i] = k
    BY <1>6 DEF Surjection
  <1>8. keys \in Seq(K) /\ DOMAIN keys = 1..n /\ Len(keys) = n
    BY <1>1, <1>3, SeqDef
  <1>9. \A i, j \in DOMAIN keys : keys[i] = keys[j] => i = j
    BY <1>3 DEF IsInjective
  <1> QED BY <1>3, <1>7, <1>8, <1>9 DEF keys

LEMMA JsonStepSame ==
  ASSUME NEW v \in Json, NEW f, NEW g, \A part \in Parts(v) : f[part] = g[part]
  PROVE  JsonStep(f, v) = JsonStep(g, v)
  <1>1. IsJson(v)
    BY JsonValues
  <1>2. v.t \in {"null", "bool", "int", "float", "str", "arr", "obj"}
    BY <1>1 DEF IsJson
  <1>3. CASE v.t \in {"null", "bool", "int", "float", "str"}
    BY <1>3 DEF JsonStep
  <1>4. CASE v.t = "arr"
    <2>1. \A i \in DOMAIN v.items : f[v.items[i]] = g[v.items[i]]
      BY <1>4 DEF Parts
    <2>2. [i \in DOMAIN v.items |-> f[v.items[i]]] = [i \in DOMAIN v.items |-> g[v.items[i]]]
      BY <2>1
    <2> QED BY <1>4, <2>2 DEF JsonStep
  <1>5. CASE v.t = "obj"
    <2> DEFINE keys == SetToSeq(DOMAIN v.fields)
               Keyed(h) == [i \in DOMAIN keys |-> <<String(keys[i], TRUE), h[v.fields[keys[i]]]>>]
    <2>1. IsFiniteSet(DOMAIN v.fields)
      BY <1>1, <1>5 DEF IsJson
    <2>2. \A i \in DOMAIN keys : keys[i] \in DOMAIN v.fields
      BY <2>1, KeysFacts
    <2>3. \A k \in DOMAIN v.fields : f[v.fields[k]] = g[v.fields[k]]
      BY <1>5 DEF Parts
    <2>4. JsonStep(f, v) = Pairs(Keyed(f)) /\ JsonStep(g, v) = Pairs(Keyed(g))
      BY <1>5 DEF JsonStep
    <2> HIDE DEF keys
    <2>5. Keyed(f) = Keyed(g)
      BY <2>2, <2>3
    <2> QED BY <2>4, <2>5
  <1> QED BY <1>2, <1>3, <1>4, <1>5

LEMMA JsonParts ==
  ASSUME NEW v \in Json, NEW part \in Parts(v)
  PROVE  part \in Json /\ Depth[part] \in Nat /\ Depth[v] \in Nat /\ Depth[part] < Depth[v]
  BY ValuesAreNested

\* f is the conversion of the values nested less than n deep.
JsonUpTo(f, n) == f = [v \in {u \in Json : Depth[u] < n} |-> JsonStep(f, v)]

LEMMA JsonUpToAgree ==
  ASSUME NEW n \in Nat, NEW m \in Nat, NEW f, NEW g, JsonUpTo(f, n), JsonUpTo(g, m)
  PROVE  \A v \in Json : Depth[v] < n /\ Depth[v] < m => f[v] = g[v]
  <1> DEFINE D == [v \in Json |-> Depth[v]]
             S == {v \in Json : Depth[v] < n /\ Depth[v] < m => f[v] = g[v]}
  <1>1. D \in [Json -> Nat]
    BY ValuesAreNested
  <1>2. ASSUME NEW v \in Json, \A u \in Json : D[u] < D[v] => u \in S PROVE v \in S
    <2> SUFFICES ASSUME Depth[v] < n, Depth[v] < m PROVE f[v] = g[v]
      OBVIOUS
    <2>1. f[v] = JsonStep(f, v) /\ g[v] = JsonStep(g, v)
      BY Zenon DEF JsonUpTo
    <2>2. \A part \in Parts(v) : f[part] = g[part]
      BY <1>2, JsonParts
    <2> QED BY <2>1, <2>2, JsonStepSame
  <1>3. \A v \in Json : v \in S
    <2> HIDE DEF D, S
    <2> QED BY <1>1, <1>2, DepthInduction
  <1> QED BY <1>3

LEMMA JsonUpToExists == \A n \in Nat : \E f : JsonUpTo(f, n)
  <1> DEFINE S == {n \in Nat : \E f : JsonUpTo(f, n)}
             D == [n \in Nat |-> n]
  <1>1. ASSUME NEW n \in Nat, \A m \in Nat : D[m] < D[n] => m \in S PROVE n \in S
    <2>1. CASE n = 0
      <3> DEFINE f == [v \in {} |-> 0]
      <3>1. {u \in Json : Depth[u] < n} = {}
        BY <2>1, ValuesAreNested
      <3>2. JsonUpTo(f, n)
        BY <3>1 DEF JsonUpTo
      <3> QED BY <3>2
    <2>2. CASE n # 0
      <3>1. n - 1 \in S
        BY <1>1, <2>2
      <3>2. PICK f : JsonUpTo(f, n - 1)
        BY <3>1
      <3> DEFINE J == {u \in Json : Depth[u] < n}
      <3>3. PICK g : g = [v \in J |-> JsonStep(f, v)]
        OBVIOUS
      <3>4. \A v \in Json : Depth[v] < n - 1 => g[v] = f[v]
        <4>1. \A v \in Json : Depth[v] < n - 1 => Depth[v] < n
          BY ValuesAreNested
        <4>2. \A v \in Json : Depth[v] < n - 1 => f[v] = JsonStep(f, v)
          BY <3>2, Zenon DEF JsonUpTo
        <4> QED BY <3>3, <4>1, <4>2
      <3>5. ASSUME NEW v \in J PROVE JsonStep(g, v) = JsonStep(f, v)
        <4>1. \A part \in Parts(v) : g[part] = f[part]
          <5> SUFFICES ASSUME NEW part \in Parts(v) PROVE g[part] = f[part]
            OBVIOUS
          <5>1. part \in Json /\ Depth[part] \in Nat /\ Depth[v] \in Nat /\ Depth[part] < Depth[v]
            BY JsonParts
          <5>2. Depth[part] < n - 1
            BY <5>1
          <5> QED BY <3>4, <5>1, <5>2
        <4> QED BY <4>1, JsonStepSame
      <3>6. g = [v \in J |-> JsonStep(g, v)]
        BY <3>3, <3>5
      <3> QED BY <3>6 DEF JsonUpTo
    <2> QED BY <2>1, <2>2
  <1>2. D \in [Nat -> Nat]
    OBVIOUS
  <1>3. \A n \in Nat : n \in S
    <2> HIDE DEF S, D
    <2> QED BY <1>1, <1>2, DepthInduction
  <1> QED BY <1>3

LEMMA ToMsgPackDef == \A v \in Json : ToMsgPack[v] = JsonStep(ToMsgPack, v)
  <1>1. PICK F : F = [v \in Json |-> (CHOOSE f : JsonUpTo(f, Depth[v] + 1))[v]]
    OBVIOUS
  <1>2. ASSUME NEW v \in Json, NEW n \in Nat, Depth[v] < n, NEW f, JsonUpTo(f, n)
        PROVE  F[v] = f[v]
    <2>1. Depth[v] \in Nat /\ Depth[v] + 1 \in Nat /\ Depth[v] < Depth[v] + 1
      BY ValuesAreNested
    <2> DEFINE g == CHOOSE h : JsonUpTo(h, Depth[v] + 1)
    <2>2. JsonUpTo(g, Depth[v] + 1)
      BY <2>1, JsonUpToExists, Zenon
    <2>3. F[v] = g[v]
      BY <1>1
    <2> HIDE DEF g
    <2>4. f[v] = g[v]
      BY <1>2, <2>1, <2>2, JsonUpToAgree
    <2> QED BY <2>3, <2>4
  <1>3. ASSUME NEW v \in Json PROVE F[v] = JsonStep(F, v)
    <2>1. Depth[v] \in Nat /\ Depth[v] + 1 \in Nat /\ Depth[v] < Depth[v] + 1
      BY ValuesAreNested
    <2>2. PICK f : JsonUpTo(f, Depth[v] + 1)
      BY <2>1, JsonUpToExists
    <2>3. F[v] = f[v]
      BY <1>2, <2>1, <2>2
    <2>4. f[v] = JsonStep(f, v)
      BY <2>1, <2>2, Zenon DEF JsonUpTo
    <2>5. \A part \in Parts(v) : F[part] = f[part]
      <3> SUFFICES ASSUME NEW part \in Parts(v) PROVE F[part] = f[part]
        OBVIOUS
      <3>1. part \in Json /\ Depth[part] < Depth[v] + 1
        BY <2>1, JsonParts
      <3> QED BY <1>2, <2>1, <2>2, <3>1
    <2>6. JsonStep(F, v) = JsonStep(f, v)
      BY <2>5, JsonStepSame
    <2> QED BY <2>3, <2>4, <2>6
  <1>4. F = [v \in Json |-> JsonStep(F, v)]
    BY <1>1, <1>3
  <1>5. ToMsgPack = CHOOSE f : f = [v \in Json |-> JsonStep(f, v)]
    BY DEF ToMsgPack, JsonStep
  <1>6. ToMsgPack = [v \in Json |-> JsonStep(ToMsgPack, v)]
    BY <1>4, <1>5, Zenon
  <1> QED BY <1>6, Zenon

----------------------------------------------------------------------------
\* So is the conversion from MessagePack.
MsgPackStep(f, v) ==
    CASE v.t = "array"   ->
           LET items == Collect([i \in DOMAIN v.items |-> f[v.items[i]]]) IN
           IF items = <<>> THEN <<>> ELSE <<Arr(items[1])>>
      [] v.t = "nil"     -> <<Null>>
      [] v.t = "boolean" -> <<Bool(v.b)>>
      [] v.t = "integer" -> <<Num(v.n)>>
      [] v.t = "f64"     -> IF v.x = "nan" THEN <<>> ELSE <<Float(v.x)>>
      [] v.t = "string"  -> IF v.utf8 THEN <<Str(v.s)>> ELSE <<>>
      [] v.t = "binary"  -> <<Arr([i \in DOMAIN v.bytes |-> Num(v.bytes[i])])>>
      [] v.t = "map"     ->
           LET values == Collect([i \in DOMAIN v.pairs |-> f[v.pairs[i][2]]])
               keys == {v.pairs[i][1].s : i \in DOMAIN v.pairs}
               last(k) == CHOOSE i \in DOMAIN v.pairs :
                              /\ v.pairs[i][1].s = k
                              /\ \A j \in DOMAIN v.pairs : v.pairs[j][1].s = k => j <= i
           IN  IF values = <<>> \/ \E i \in DOMAIN v.pairs : ~IsText(v.pairs[i][1])
               THEN <<>> ELSE <<Obj([k \in keys |-> values[1][last(k)]])>>
      [] v.t = "ext"     -> <<>>

\* What becomes of a map, given what becomes of its values
FromMap(v, converted) ==
    LET values == Collect(converted)
        keys == {v.pairs[i][1].s : i \in DOMAIN v.pairs}
        last(k) == CHOOSE i \in DOMAIN v.pairs :
                       /\ v.pairs[i][1].s = k
                       /\ \A j \in DOMAIN v.pairs : v.pairs[j][1].s = k => j <= i
    IN  IF values = <<>> \/ \E i \in DOMAIN v.pairs : ~IsText(v.pairs[i][1])
        THEN <<>> ELSE <<Obj([k \in keys |-> values[1][last(k)]])>>

LEMMA MsgPackStepSame ==
  ASSUME NEW v \in MsgPack, NEW f, NEW g, \A part \in Parts(v) : f[part] = g[part]
  PROVE  MsgPackStep(f, v) = MsgPackStep(g, v)
  <1>1. CASE v.t = "array"
    <2> DEFINE Elements(h) == [i \in DOMAIN v.items |-> h[v.items[i]]]
    <2>1. \A i \in DOMAIN v.items : f[v.items[i]] = g[v.items[i]]
      BY <1>1 DEF Parts
    <2>2. Elements(f) = Elements(g)
      BY <2>1
    <2> QED BY <1>1, <2>2 DEF MsgPackStep
  <1>2. CASE v.t = "map"
    <2> DEFINE Values(h) == [i \in DOMAIN v.pairs |-> h[v.pairs[i][2]]]
    <2>1. \A i \in DOMAIN v.pairs : f[v.pairs[i][2]] = g[v.pairs[i][2]]
      BY <1>2 DEF Parts
    <2>2. Values(f) = Values(g)
      BY <2>1
    <2>3. MsgPackStep(f, v) = FromMap(v, Values(f)) /\ MsgPackStep(g, v) = FromMap(v, Values(g))
      BY <1>2 DEF MsgPackStep, FromMap
    <2> QED BY <2>2, <2>3
  <1>3. CASE v.t \notin {"array", "map"}
    BY <1>3, MsgPackValues DEF MsgPackStep
  <1> QED BY <1>1, <1>2, <1>3

LEMMA MsgPackParts ==
  ASSUME NEW v \in MsgPack, NEW part \in Parts(v)
  PROVE  part \in MsgPack /\ Depth[part] \in Nat /\ Depth[v] \in Nat /\ Depth[part] < Depth[v]
  BY ValuesAreNested

\* f is the conversion of the values nested less than n deep.
MsgPackUpTo(f, n) == f = [v \in {u \in MsgPack : Depth[u] < n} |-> MsgPackStep(f, v)]

LEMMA MsgPackUpToAgree ==
  ASSUME NEW n \in Nat, NEW m \in Nat, NEW f, NEW g, MsgPackUpTo(f, n), MsgPackUpTo(g, m)
  PROVE  \A v \in MsgPack : Depth[v] < n /\ Depth[v] < m => f[v] = g[v]
  <1> DEFINE D == [v \in MsgPack |-> Depth[v]]
             S == {v \in MsgPack : Depth[v] < n /\ Depth[v] < m => f[v] = g[v]}
  <1>1. D \in [MsgPack -> Nat]
    BY ValuesAreNested
  <1>2. ASSUME NEW v \in MsgPack, \A u \in MsgPack : D[u] < D[v] => u \in S PROVE v \in S
    <2> SUFFICES ASSUME Depth[v] < n, Depth[v] < m PROVE f[v] = g[v]
      OBVIOUS
    <2>1. f[v] = MsgPackStep(f, v) /\ g[v] = MsgPackStep(g, v)
      BY Zenon DEF MsgPackUpTo
    <2>2. \A part \in Parts(v) : f[part] = g[part]
      BY <1>2, MsgPackParts
    <2> QED BY <2>1, <2>2, MsgPackStepSame
  <1>3. \A v \in MsgPack : v \in S
    <2> HIDE DEF D, S
    <2> QED BY <1>1, <1>2, DepthInduction
  <1> QED BY <1>3

LEMMA MsgPackUpToExists == \A n \in Nat : \E f : MsgPackUpTo(f, n)
  <1> DEFINE S == {n \in Nat : \E f : MsgPackUpTo(f, n)}
             D == [n \in Nat |-> n]
  <1>1. ASSUME NEW n \in Nat, \A m \in Nat : D[m] < D[n] => m \in S PROVE n \in S
    <2>1. CASE n = 0
      <3> DEFINE f == [v \in {} |-> 0]
      <3>1. {u \in MsgPack : Depth[u] < n} = {}
        BY <2>1, ValuesAreNested
      <3>2. MsgPackUpTo(f, n)
        BY <3>1 DEF MsgPackUpTo
      <3> QED BY <3>2
    <2>2. CASE n # 0
      <3>1. n - 1 \in S
        BY <1>1, <2>2
      <3>2. PICK f : MsgPackUpTo(f, n - 1)
        BY <3>1
      <3> DEFINE J == {u \in MsgPack : Depth[u] < n}
      <3>3. PICK g : g = [v \in J |-> MsgPackStep(f, v)]
        OBVIOUS
      <3>4. \A v \in MsgPack : Depth[v] < n - 1 => g[v] = f[v]
        <4>1. \A v \in MsgPack : Depth[v] < n - 1 => Depth[v] < n
          BY ValuesAreNested
        <4>2. \A v \in MsgPack : Depth[v] < n - 1 => f[v] = MsgPackStep(f, v)
          BY <3>2, Zenon DEF MsgPackUpTo
        <4> QED BY <3>3, <4>1, <4>2
      <3>5. ASSUME NEW v \in J PROVE MsgPackStep(g, v) = MsgPackStep(f, v)
        <4>1. \A part \in Parts(v) : g[part] = f[part]
          <5> SUFFICES ASSUME NEW part \in Parts(v) PROVE g[part] = f[part]
            OBVIOUS
          <5>1. part \in MsgPack /\ Depth[part] \in Nat /\ Depth[v] \in Nat /\ Depth[part] < Depth[v]
            BY MsgPackParts
          <5>2. Depth[part] < n - 1
            BY <5>1
          <5> QED BY <3>4, <5>1, <5>2
        <4> QED BY <4>1, MsgPackStepSame
      <3>6. g = [v \in J |-> MsgPackStep(g, v)]
        BY <3>3, <3>5
      <3> QED BY <3>6 DEF MsgPackUpTo
    <2> QED BY <2>1, <2>2
  <1>2. D \in [Nat -> Nat]
    OBVIOUS
  <1>3. \A n \in Nat : n \in S
    <2> HIDE DEF S, D
    <2> QED BY <1>1, <1>2, DepthInduction
  <1> QED BY <1>3

LEMMA FromMsgPackDef == \A v \in MsgPack : FromMsgPack[v] = MsgPackStep(FromMsgPack, v)
  <1>1. PICK F : F = [v \in MsgPack |-> (CHOOSE f : MsgPackUpTo(f, Depth[v] + 1))[v]]
    OBVIOUS
  <1>2. ASSUME NEW v \in MsgPack, NEW n \in Nat, Depth[v] < n, NEW f, MsgPackUpTo(f, n)
        PROVE  F[v] = f[v]
    <2>1. Depth[v] \in Nat /\ Depth[v] + 1 \in Nat /\ Depth[v] < Depth[v] + 1
      BY ValuesAreNested
    <2> DEFINE g == CHOOSE h : MsgPackUpTo(h, Depth[v] + 1)
    <2>2. MsgPackUpTo(g, Depth[v] + 1)
      BY <2>1, MsgPackUpToExists, Zenon
    <2>3. F[v] = g[v]
      BY <1>1
    <2> HIDE DEF g
    <2>4. f[v] = g[v]
      BY <1>2, <2>1, <2>2, MsgPackUpToAgree
    <2> QED BY <2>3, <2>4
  <1>3. ASSUME NEW v \in MsgPack PROVE F[v] = MsgPackStep(F, v)
    <2>1. Depth[v] \in Nat /\ Depth[v] + 1 \in Nat /\ Depth[v] < Depth[v] + 1
      BY ValuesAreNested
    <2>2. PICK f : MsgPackUpTo(f, Depth[v] + 1)
      BY <2>1, MsgPackUpToExists
    <2>3. F[v] = f[v]
      BY <1>2, <2>1, <2>2
    <2>4. f[v] = MsgPackStep(f, v)
      BY <2>1, <2>2, Zenon DEF MsgPackUpTo
    <2>5. \A part \in Parts(v) : F[part] = f[part]
      <3> SUFFICES ASSUME NEW part \in Parts(v) PROVE F[part] = f[part]
        OBVIOUS
      <3>1. part \in MsgPack /\ Depth[part] < Depth[v] + 1
        BY <2>1, MsgPackParts
      <3> QED BY <1>2, <2>1, <2>2, <3>1
    <2>6. MsgPackStep(F, v) = MsgPackStep(f, v)
      BY <2>5, MsgPackStepSame
    <2> QED BY <2>3, <2>4, <2>6
  <1>4. F = [v \in MsgPack |-> MsgPackStep(F, v)]
    BY <1>1, <1>3
  <1>5. FromMsgPack = CHOOSE f : f = [v \in MsgPack |-> MsgPackStep(f, v)]
    BY DEF FromMsgPack, MsgPackStep
  <1>6. FromMsgPack = [v \in MsgPack |-> MsgPackStep(FromMsgPack, v)]
    BY <1>4, <1>5, Zenon
  <1> QED BY <1>6, Zenon

----------------------------------------------------------------------------
\* When every value was converted, Collect has them all.
LEMMA CollectAll ==
  ASSUME NEW s, NEW I, s = [i \in I |-> s[i]], NEW opts, opts = [i \in I |-> <<s[i]>>]
  PROVE  Collect(opts) = <<s>>
  <1>1. \A i \in I : opts[i] = <<s[i]>> /\ opts[i] # <<>> /\ opts[i][1] = s[i]
    OBVIOUS
  <1>2. DOMAIN opts = I
    OBVIOUS
  <1>3. [i \in DOMAIN opts |-> opts[i][1]] = s
    BY <1>1, <1>2
  <1> QED BY <1>1, <1>2, <1>3 DEF Collect

LEMMA TextFacts == \A k : String(k, TRUE).s = k /\ IsText(String(k, TRUE))
  BY DEF String, IsText

\* json_to_messagepack_value loses nothing: messagepack_to_json_value makes of
\* its result the value it was, however deep the arrays and objects are nested.
THEOREM ThereAndBack == \A v \in Json : FromMsgPack[ToMsgPack[v]] = <<v>>
  <1> DEFINE D == [v \in Json |-> Depth[v]]
             S == {v \in Json : FromMsgPack[ToMsgPack[v]] = <<v>>}
  <1>1. D \in [Json -> Nat]
    BY ValuesAreNested
  <1>2. ASSUME NEW v \in Json, \A u \in Json : D[u] < D[v] => u \in S
        PROVE  FromMsgPack[ToMsgPack[v]] = <<v>>
    <2> DEFINE w == ToMsgPack[v]
    <2>1. IsJson(v) /\ w \in MsgPack
      BY JsonValues, ValuesCanBeConverted
    <2>2. w = JsonStep(ToMsgPack, v) /\ FromMsgPack[w] = MsgPackStep(FromMsgPack, w)
      BY <2>1, ToMsgPackDef, FromMsgPackDef
    <2>3. \A part \in Parts(v) : FromMsgPack[ToMsgPack[part]] = <<part>>
      BY <1>2, JsonParts
    <2> HIDE DEF w
    <2>4. v.t \in {"null", "bool", "int", "float", "str", "arr", "obj"}
      BY <2>1 DEF IsJson
    <2>5. ASSUME v.t = "null" PROVE FromMsgPack[w] = <<v>>
      <3>1. v = Null /\ w = Nil
        BY <2>1, <2>2, <2>5 DEF IsJson, JsonStep
      <3>2. w.t = "nil"
        BY <3>1 DEF Nil
      <3> QED BY <2>2, <3>1, <3>2 DEF MsgPackStep
    <2>6. ASSUME v.t = "bool" PROVE FromMsgPack[w] = <<v>>
      <3>1. v = Bool(v.b) /\ w = Boolean(v.b)
        BY <2>1, <2>2, <2>6 DEF IsJson, JsonStep
      <3> QED BY <2>2, <3>1 DEF MsgPackStep, Boolean
    <2>7. ASSUME v.t = "int" PROVE FromMsgPack[w] = <<v>>
      <3>1. v = Num(v.n) /\ w = Integer(v.n)
        BY <2>1, <2>2, <2>7 DEF IsJson, JsonStep
      <3> QED BY <2>2, <3>1 DEF MsgPackStep, Integer
    <2>8. ASSUME v.t = "float" PROVE FromMsgPack[w] = <<v>>
      <3>1. v = Float(v.x) /\ w = F64(v.x) /\ v.x # "nan"
        BY <2>1, <2>2, <2>8 DEF IsJson, JsonStep
      <3> QED BY <2>2, <3>1 DEF MsgPackStep, F64
    <2>9. ASSUME v.t = "str" PROVE FromMsgPack[w] = <<v>>
      <3>1. v = Str(v.s) /\ w = String(v.s, TRUE)
        BY <2>1, <2>2, <2>9 DEF IsJson, JsonStep
      <3> QED BY <2>2, <3>1 DEF MsgPackStep, String
    <2>10. ASSUME v.t = "arr" PROVE FromMsgPack[w] = <<v>>
      <3> DEFINE s == v.items
                 I == DOMAIN s
                 x == [i \in I |-> ToMsgPack[s[i]]]
      <3>1. v = Arr(s) /\ w = Array(x) /\ s \in Seq(Json)
        BY <2>1, <2>2, <2>10 DEF IsJson, JsonStep
      <3>2. s = [i \in I |-> s[i]]
        BY <3>1, LenProperties
      <3>3. \A i \in I : FromMsgPack[x[i]] = <<s[i]>>
        BY <2>3, <2>10 DEF Parts
      <3> DEFINE opts == [i \in DOMAIN x |-> FromMsgPack[x[i]]]
      <3>4. opts = [i \in I |-> <<s[i]>>]
        BY <3>3
      <3>5. w.t = "array" /\ w.items = x
        BY <3>1 DEF Array
      <3> HIDE DEF x
      <3>6. FromMsgPack[w] = LET items == Collect(opts) IN
                             IF items = <<>> THEN <<>> ELSE <<Arr(items[1])>>
        BY <2>2, <3>5 DEF MsgPackStep
      <3> HIDE DEF s, I, opts
      <3>7. Collect(opts) = <<s>>
        BY <3>2, <3>4, CollectAll
      <3> QED BY <3>1, <3>6, <3>7
    <2>11. ASSUME v.t = "obj" PROVE FromMsgPack[w] = <<v>>
      <3> DEFINE fields == v.fields
                 K == DOMAIN fields
                 keys == SetToSeq(K)
                 I == DOMAIN keys
                 x == [i \in I |-> <<String(keys[i], TRUE), ToMsgPack[fields[keys[i]]]>>]
                 s == [i \in I |-> fields[keys[i]]]
                 opts == [i \in DOMAIN x |-> FromMsgPack[x[i][2]]]
      <3>1. v = Obj(fields) /\ w = Pairs(x) /\ fields = [k \in K |-> fields[k]] /\ IsFiniteSet(K)
        BY <2>1, <2>2, <2>11 DEF IsJson, JsonStep
      <3>2. /\ keys \in Seq(K) /\ I = 1..Len(keys) /\ \A i \in I : keys[i] \in K
            /\ \A k \in K : \E i \in I : keys[i] = k
            /\ \A i, j \in I : keys[i] = keys[j] => i = j
        BY <3>1, KeysFacts
      <3>3. \A k \in K : FromMsgPack[ToMsgPack[fields[k]]] = <<fields[k]>>
        BY <2>3, <2>11 DEF Parts
      <3>4. w.t = "map" /\ w.pairs = x
        BY <3>1 DEF Pairs
      <3> HIDE DEF fields, K, keys
      <3>5. \A i \in I : x[i][1] = String(keys[i], TRUE) /\ x[i][2] = ToMsgPack[fields[keys[i]]]
        OBVIOUS
      <3>6. DOMAIN x = I /\ s = [i \in I |-> s[i]]
        OBVIOUS
      <3>7. \A i \in I : s[i] = fields[keys[i]]
        OBVIOUS
      <3> HIDE DEF x, s
      <3>8. opts = [i \in I |-> <<s[i]>>]
        <4>1. \A i \in I : FromMsgPack[x[i][2]] = <<s[i]>>
          <5> SUFFICES ASSUME NEW i \in I PROVE FromMsgPack[x[i][2]] = <<s[i]>>
            OBVIOUS
          <5>1. PICK k \in K : k = keys[i]
            BY <3>2
          <5>2. x[i][2] = ToMsgPack[fields[k]] /\ s[i] = fields[k]
            BY <3>5, <3>7, <5>1
          <5>3. FromMsgPack[ToMsgPack[fields[k]]] = <<fields[k]>>
            BY <3>3
          <5> QED BY <5>2, <5>3
        <4> QED BY <3>6, <4>1
      <3>9. FromMsgPack[w] = FromMap(w, opts)
        BY <2>2, <3>4 DEF MsgPackStep, FromMap
      <3> HIDE DEF opts
      <3>10. Collect(opts) = <<s>>
        BY <3>6, <3>8, CollectAll
      <3>11. \A i \in I : x[i][1].s = keys[i] /\ IsText(x[i][1])
        BY <3>5, TextFacts
      <3> DEFINE last(k) == CHOOSE i \in DOMAIN x : /\ x[i][1].s = k
                                                    /\ \A j \in DOMAIN x : x[j][1].s = k => j <= i
                 found == {x[i][1].s : i \in DOMAIN x}
      <3>12. found = K
        BY <3>2, <3>6, <3>11
      <3>13. ASSUME NEW k \in K PROVE s[last(k)] = fields[k]
        <4>1. PICK i \in I : keys[i] = k
          BY <3>2
        <4>2. \A j \in DOMAIN x : x[j][1].s = k => j = i
          BY <3>2, <3>6, <3>11, <4>1
        <4>3. i <= i
          BY <3>2
        <4>4. last(k) \in DOMAIN x /\ x[last(k)][1].s = k
          <5>1. \E j \in DOMAIN x : x[j][1].s = k /\ \A l \in DOMAIN x : x[l][1].s = k => l <= j
            BY <3>6, <3>11, <4>1, <4>2, <4>3
          <5> QED BY <5>1, Zenon
        <4>5. last(k) = i
          BY <4>2, <4>4
        <4> HIDE DEF last
        <4> QED BY <3>7, <4>1, <4>5
      <3>14. FromMap(w, opts) = <<Obj([k \in found |-> s[last(k)]])>>
        <4>1. w.pairs = x /\ Collect(opts) = <<s>> /\ Collect(opts) # <<>> /\ Collect(opts)[1] = s
          BY <3>4, <3>10
        <4>2. ~\E i \in DOMAIN x : ~IsText(x[i][1])
          BY <3>6, <3>11
        <4> QED BY <4>1, <4>2 DEF FromMap
      <3> HIDE DEF last, found
      <3>15. [k \in found |-> s[last(k)]] = fields
        BY <3>1, <3>12, <3>13
      <3> QED BY <3>1, <3>9, <3>14, <3>15
    <2> QED BY <2>4, <2>5, <2>6, <2>7, <2>8, <2>9, <2>10, <2>11 DEF w
  <1>3. \A v \in Json : (\A u \in Json : D[u] < D[v] => u \in S) => v \in S
    BY <1>2
  <1> HIDE DEF D
  <1>4. \A v \in Json : v \in S
    <2> HIDE DEF S
    <2> QED BY <1>1, <1>3, DepthInduction
  <1> QED BY <1>4

----------------------------------------------------------------------------
\* The kinds of messages and the types of their fields.
AllKinds == {"Invocation", "StreamItem", "Completion", "StreamInvocation",
             "CancelInvocation", "Ping", "Close"}

LEMMA KindsFacts ==
  /\ ToSet(Kinds) = AllKinds /\ Len(Kinds) = 7 /\ DOMAIN Kinds = 1..7
  /\ Kinds[1] = "Invocation" /\ Kinds[2] = "StreamItem" /\ Kinds[3] = "Completion"
  /\ Kinds[4] = "StreamInvocation" /\ Kinds[5] = "CancelInvocation" /\ Kinds[6] = "Ping"
  /\ Kinds[7] = "Close"
  <1>1. /\ Len(Kinds) = 7 /\ DOMAIN Kinds = 1..7
        /\ Kinds[1] = "Invocation" /\ Kinds[2] = "StreamItem" /\ Kinds[3] = "Completion"
        /\ Kinds[4] = "StreamInvocation" /\ Kinds[5] = "CancelInvocation" /\ Kinds[6] = "Ping"
        /\ Kinds[7] = "Close"
    BY DEF Kinds
  <1>2. \A i : i \in 1..7 <=> i \in {1, 2, 3, 4, 5, 6, 7}
    OBVIOUS
  <1>3. \A k : k \in ToSet(Kinds) <=> k \in AllKinds
    BY <1>1, <1>2 DEF ToSet, AllKinds
  <1> QED BY <1>1, <1>3

\* The number of a kind is its place in Kinds.
LEMMA CodeFacts ==
  ASSUME NEW m, m.kind \in AllKinds
  PROVE  Code(m) \in 1..7 /\ Kinds[Code(m)] = m.kind
  <1>1. \E n \in DOMAIN Kinds : Kinds[n] = m.kind
    BY KindsFacts DEF AllKinds
  <1>2. Code(m) \in DOMAIN Kinds /\ Kinds[Code(m)] = m.kind
    BY <1>1, Zenon DEF Code
  <1> QED BY <1>2, KindsFacts

LEMMA FieldsOfKinds ==
  /\ Fields["Invocation"] = [invocationId |-> "string?", target |-> "string",
                             arguments |-> "values", streamIds |-> "strings?"]
  /\ Fields["StreamItem"] = [invocationId |-> "string", item |-> "value"]
  /\ Fields["Completion"] = [invocationId |-> "string", result |-> "value?", error |-> "string?"]
  /\ Fields["StreamInvocation"] = [invocationId |-> "string", target |-> "string",
                                   arguments |-> "values", streamIds |-> "strings?"]
  /\ Fields["CancelInvocation"] = [invocationId |-> "string"]
  /\ Fields["Ping"] = <<>>
  /\ Fields["Close"] = [error |-> "string?", allowReconnect |-> "bool?"]
  BY DEF Fields

LEMMA FieldsFacts ==
  ASSUME NEW kind \in AllKinds, NEW f \in DOMAIN Fields[kind]
  PROVE  /\ f # "type"
         /\ Fields[kind][f] \in {"string", "string?", "value", "value?", "values", "strings?",
                                  "bool?"}
         /\ f = "result" <=> Fields[kind][f] = "value?"
         /\ f = "streamIds" <=> Fields[kind][f] = "strings?"
  <1>1. CASE kind = "Invocation"
    BY <1>1, FieldsOfKinds
  <1>2. CASE kind = "StreamItem"
    BY <1>2, FieldsOfKinds
  <1>3. CASE kind = "Completion"
    BY <1>3, FieldsOfKinds
  <1>4. CASE kind = "StreamInvocation"
    BY <1>4, FieldsOfKinds
  <1>5. CASE kind = "CancelInvocation"
    BY <1>5, FieldsOfKinds
  <1>6. CASE kind = "Ping"
    BY <1>6, FieldsOfKinds
  <1>7. CASE kind = "Close"
    BY <1>7, FieldsOfKinds
  <1> QED BY <1>1, <1>2, <1>3, <1>4, <1>5, <1>6, <1>7 DEF AllKinds

\* A message that was parsed: every field is there, and of its type.
Whole(m) ==
    /\ m = [kind |-> m.kind, body |-> m.body]
    /\ m.kind \in AllKinds
    /\ m.body \in [DOMAIN Fields[m.kind] -> Option(Json)]
    /\ Conforms(m)

\* What is lost of a message in either protocol
LostIn(p, f, opt) ==
    \/ p = "json" /\ f = "result" /\ opt = <<Null>>
    \/ p = "messagepack" /\ f = "streamIds" /\ opt = <<Arr(<<>>)>>

Relayed(m, p) ==
    [kind |-> m.kind,
     body |-> [f \in DOMAIN Fields[m.kind] |-> IF LostIn(p, f, m.body[f]) THEN <<>> ELSE m.body[f]]]

LEMMA RelayedWhole ==
  ASSUME NEW m, Whole(m), NEW p
  PROVE  Whole(Relayed(m, p))
  <1> DEFINE r == Relayed(m, p)
             F == DOMAIN Fields[m.kind]
             b == [f \in F |-> IF LostIn(p, f, m.body[f]) THEN <<>> ELSE m.body[f]]
  <1>1. r = [kind |-> m.kind, body |-> b] /\ r.kind = m.kind /\ r.body = b
    BY DEF Relayed
  <1>2. m.kind \in AllKinds /\ m.body \in [F -> Option(Json)] /\ DOMAIN m.body = F
    BY DEF Whole
  <1> HIDE DEF r, F
  <1>3. \A f \in F : b[f] = (IF LostIn(p, f, m.body[f]) THEN <<>> ELSE m.body[f])
    OBVIOUS
  <1>4. DOMAIN b = F
    OBVIOUS
  <1> HIDE DEF b
  <1>5. b \in [F -> Option(Json)]
    <2>1. \A f \in F : b[f] \in Option(Json)
      BY <1>2, <1>3 DEF Option
    <2>2. b = [f \in F |-> b[f]]
      BY DEF b
    <2> QED BY <2>1, <2>2
  <1>6. ASSUME NEW f \in F
        PROVE  LET type == Fields[m.kind][f] IN
               IF b[f] = <<>> THEN type \in Optional ELSE IsA(b[f][1], type)
    <2>1. IF m.body[f] = <<>> THEN Fields[m.kind][f] \in Optional
          ELSE IsA(m.body[f][1], Fields[m.kind][f])
      BY <1>2 DEF Whole, Conforms
    <2>2. CASE LostIn(p, f, m.body[f])
      <3>1. Fields[m.kind][f] \in {"value?", "strings?"}
        BY <1>2, <2>2, FieldsFacts DEF LostIn, F
      <3>2. b[f] = <<>>
        BY <1>3, <2>2
      <3> QED BY <3>1, <3>2 DEF Optional
    <2>3. CASE ~LostIn(p, f, m.body[f])
      BY <1>3, <2>1, <2>3
    <2> QED BY <2>2, <2>3
  <1>7. Conforms(r)
    <2>1. r.kind \in ToSet(Kinds) /\ DOMAIN r.body = DOMAIN Fields[r.kind]
      BY <1>1, <1>2, <1>4, KindsFacts DEF F
    <2> QED BY <1>1, <1>4, <1>6, <2>1 DEF Conforms
  <1> QED BY <1>1, <1>2, <1>5, <1>7 DEF Whole, r, F

----------------------------------------------------------------------------
\* JSON keeps all of a message but a null result.
LEMMA JsonFieldKeeps ==
  ASSUME NEW kind \in AllKinds, NEW f \in DOMAIN Fields[kind], NEW opt \in Option(Json),
         IF opt = <<>> THEN Fields[kind][f] \in Optional ELSE IsA(opt[1], Fields[kind][f]),
         NEW fields, f \in DOMAIN fields <=> opt # <<>>, opt # <<>> => fields[f] = opt[1]
  PROVE  JsonField(fields, f, Fields[kind][f]) = IF LostIn("json", f, opt) THEN <<>> ELSE opt
  <1> DEFINE type == Fields[kind][f]
  <1>1. /\ type \in {"string", "string?", "value", "value?", "values", "strings?", "bool?"}
        /\ f = "result" <=> type = "value?"
    BY FieldsFacts
  <1>2. opt = <<>> => type \in Optional
    OBVIOUS
  <1>3. opt # <<>> => IsA(opt[1], type)
    OBVIOUS
  <1> HIDE DEF type
  <1>4. CASE opt = <<>>
    <2>1. type # "values" /\ f \notin DOMAIN fields /\ ~LostIn("json", f, opt)
      BY <1>2, <1>4 DEF Optional, LostIn
    <2> QED BY <1>4, <2>1 DEF JsonField, type
  <1>5. CASE opt # <<>>
    <2>1. PICK v \in Json : opt = <<v>> /\ fields[f] = v /\ f \in DOMAIN fields
      BY <1>5 DEF Option
    <2>2. IsA(v, type)
      BY <1>3, <2>1
    <2>3. CASE v = Null
      <3>1. v.t = "null"
        BY <2>3 DEF Null
      <3>2. type \in {"value", "value?"}
        BY <1>1, <2>2, <3>1 DEF IsA
      <3>3. LostIn("json", f, opt) <=> type = "value?"
        BY <1>1, <2>1, <2>3 DEF LostIn
      <3>4. JsonField(fields, f, type) = IF type \in Optional THEN <<>> ELSE <<v>>
        BY <2>1, <2>3, <3>2 DEF JsonField
      <3> QED BY <2>1, <3>2, <3>3, <3>4 DEF Optional, type
    <2>4. CASE v # Null
      <3>1. ~LostIn("json", f, opt)
        BY <2>1, <2>4 DEF LostIn
      <3>2. JsonField(fields, f, type) = <<v>>
        BY <2>1, <2>4 DEF JsonField
      <3> QED BY <2>1, <3>1, <3>2 DEF type
    <2> QED BY <2>3, <2>4
  <1> QED BY <1>4, <1>5

LEMMA JsonRelay ==
  ASSUME NEW m, Whole(m)
  PROVE  FromJson(ToJson(m)) = <<Relayed(m, "json")>>
  <1> DEFINE c == Code(m)
             F == DOMAIN Fields[m.kind]
             some == {f \in DOMAIN m.body : m.body[f] # <<>>}
             fields == [f \in some \cup {"type"} |-> IF f = "type" THEN Num(c) ELSE m.body[f][1]]
             text == <<Obj(fields)>>
             r == Relayed(m, "json")
  <1>1. ToJson(m) = text
    BY DEF ToJson
  <1>2. /\ m.kind \in AllKinds /\ m.body \in [F -> Option(Json)] /\ DOMAIN m.body = F
        /\ \A f \in F : IF m.body[f] = <<>> THEN Fields[m.kind][f] \in Optional
                        ELSE IsA(m.body[f][1], Fields[m.kind][f])
    BY DEF Whole, Conforms
  <1>3. "type" \notin F
    BY <1>2, FieldsFacts
  <1>4. /\ DOMAIN fields = some \cup {"type"}
        /\ \A f \in some : fields[f] = m.body[f][1]
    BY <1>2, <1>3
  <1>5. fields["type"] = Num(c)
    BY <1>2, <1>3
  <1>6. c \in 1..7 /\ Kinds[c] = m.kind /\ DOMAIN Kinds = 1..7 /\ c <= I64Max /\ c % 256 = c
    <2>1. c \in 1..7 /\ Kinds[c] = m.kind
      BY <1>2, CodeFacts
    <2>2. I64Max \in Nat /\ I64Max >= 7
      BY KindsFacts, TypesAreI64
    <2> HIDE DEF c
    <2> QED BY <2>1, <2>2, KindsFacts
  <1> HIDE DEF fields, c
  <1>7. TypeOf(fields["type"]) = <<c>>
    <2>1. Num(c).t = "int" /\ Num(c).n = c
      BY DEF Num
    <2> QED BY <1>5, <1>6, <2>1 DEF TypeOf
  <1>8. ASSUME NEW f \in F
        PROVE  JsonField(fields, f, Fields[m.kind][f])
                 = IF LostIn("json", f, m.body[f]) THEN <<>> ELSE m.body[f]
    <2>1. f # "type" /\ (f \in DOMAIN fields <=> m.body[f] # <<>>)
      BY <1>2, <1>3, <1>4
    <2>2. m.body[f] # <<>> => fields[f] = m.body[f][1]
      BY <1>2, <1>4
    <2> QED BY <1>2, <2>1, <2>2, JsonFieldKeeps
  <1>9. [kind |-> m.kind, body |-> [f \in F |-> JsonField(fields, f, Fields[m.kind][f])]] = r
    BY <1>8 DEF Relayed
  <1>10. Conforms(r)
    BY RelayedWhole DEF Whole
  <1>11. Len(text) = 1 /\ text[1].t = "obj" /\ text[1].fields = fields /\ "type" \in DOMAIN fields
    BY <1>4 DEF Obj
  <1> HIDE DEF text, r, F
  <1>12. <<c>> # <<>> /\ <<c>>[1] = c
    OBVIOUS
  <1>13. FromJson(text) = <<r>>
    BY <1>6, <1>7, <1>9, <1>10, <1>11, <1>12 DEF FromJson, F
  <1> QED BY <1>1, <1>13 DEF r


----------------------------------------------------------------------------
\* MessagePack keeps all of a message but an empty list of stream ids.
LEMMA ConvertedFacts ==
  ASSUME NEW v \in Json
  PROVE  LET w == ToMsgPack[v] IN
         /\ v.t \in {"arr", "str", "bool"} => w.t # "nil" /\ w # Nil
         /\ v.t = "arr" => w.t = "array"
         /\ v.t = "arr" => (w = Array(<<>>) <=> v = Arr(<<>>))
  <1> DEFINE w == ToMsgPack[v]
  <1>1. w = JsonStep(ToMsgPack, v)
    BY ToMsgPackDef
  <1>2. CASE v.t = "arr"
    <2> DEFINE s == [i \in DOMAIN v.items |-> ToMsgPack[v.items[i]]]
    <2>1. w = Array(s)
      BY <1>1, <1>2 DEF JsonStep
    <2>2. v = Arr(v.items) /\ v.items \in Seq(Json)
      BY <1>2, JsonValues DEF IsJson
    <2>3. w.t = "array" /\ Nil.t = "nil" /\ w.items = s
      BY <2>1 DEF Array, Nil
    <2>4. v.items = <<>> => s = <<>>
      <3> SUFFICES ASSUME v.items = <<>> PROVE s = <<>>
        OBVIOUS
      <3>1. DOMAIN v.items = {}
        OBVIOUS
      <3>2. s \in Seq({}) /\ Len(s) = 0
        BY <3>1
      <3> QED BY <3>2
    <2>5. s = <<>> => v.items = <<>>
      <3> SUFFICES ASSUME s = <<>> PROVE v.items = <<>>
        OBVIOUS
      <3>1. DOMAIN s = {}
        OBVIOUS
      <3>2. 1..Len(v.items) = {} /\ Len(v.items) \in Nat
        BY <2>2, <3>1
      <3>3. Len(v.items) = 0
        BY <3>2
      <3> QED BY <2>2, <3>3
    <2> HIDE DEF s, w
    <2>6. w = Array(<<>>) <=> s = <<>>
      BY <2>1, <2>3 DEF Array
    <2>7. v = Arr(<<>>) <=> v.items = <<>>
      BY <2>2 DEF Arr
    <2> QED BY <1>2, <2>3, <2>4, <2>5, <2>6, <2>7 DEF w
  <1>3. CASE v.t = "str"
    <2>1. w = String(v.s, TRUE)
      BY <1>1, <1>3 DEF JsonStep
    <2>2. w.t = "string" /\ Nil.t = "nil"
      BY <2>1 DEF String, Nil
    <2> QED BY <1>3, <2>2
  <1>4. CASE v.t = "bool"
    <2>1. w = Boolean(v.b)
      BY <1>1, <1>4 DEF JsonStep
    <2>2. w.t = "boolean" /\ Nil.t = "nil"
      BY <2>1 DEF Boolean, Nil
    <2> QED BY <1>4, <2>2
  <1> QED BY <1>2, <1>3, <1>4

LEMMA MsgPackFieldSome ==
  ASSUME NEW v \in Json, NEW items, NEW place \in Nat, Len(items) \in Nat, place <= Len(items),
         items[place] = ToMsgPack[v],
         NEW type \in {"string", "string?", "value", "values", "strings?", "bool?"}, IsA(v, type)
  PROVE  MsgPackField(items, place, type)
           = IF type = "strings?" /\ v = Arr(<<>>) THEN << <<>> >> ELSE << <<v>> >>
  <1> DEFINE w == items[place]
             absent == place > Len(items) \/ (place <= Len(items) /\ items[place] = Nil)
             empty == type = "strings?" /\ place <= Len(items) /\ items[place] = Array(<<>>)
  <1>1. v.t = "arr" \/ type \notin {"values", "strings?"}
    BY DEF IsA
  <1>2. type \in Optional => v.t \in {"arr", "str", "bool"}
    BY DEF IsA, Optional
  <1>3. type \in Optional => ~absent
    BY <1>2, ConvertedFacts
  <1>4. empty <=> type = "strings?" /\ v = Arr(<<>>)
    BY <1>1, ConvertedFacts
  <1>5. ~(type \in {"values", "strings?"} /\ w.t # "array")
    BY <1>1, ConvertedFacts
  <1>6. FromMsgPack[w] = <<v>>
    BY ThereAndBack
  <1>7. <<v>> # <<>> /\ <<v>>[1] = v
    OBVIOUS
  <1>8. CASE empty
    BY <1>4, <1>8 DEF MsgPackField, Optional
  <1>9. CASE ~empty
    <2>1. ~(type \in Optional /\ (absent \/ empty))
      BY <1>3, <1>9
    <2> HIDE DEF absent
    <2>2. MsgPackField(items, place, type) = LET j == FromMsgPack[items[place]] IN
             IF j # <<>> /\ IsA(j[1], type) THEN <<j>> ELSE <<>>
      BY <1>5, <2>1 DEF MsgPackField, absent
    <2> QED BY <1>4, <1>6, <1>7, <1>9, <2>2
  <1> QED BY <1>8, <1>9

LEMMA MsgPackFieldNone ==
  ASSUME NEW items, NEW place \in Nat, Len(items) \in Nat, NEW type \in Optional,
         \/ place > Len(items)
         \/ items[place] = Nil
         \/ type = "strings?" /\ items[place] = Array(<<>>)
  PROVE  MsgPackField(items, place, type) = << <<>> >>
  BY DEF MsgPackField

\* A field that is put where it is looked for comes back.
LEMMA MsgPackFieldKeeps ==
  ASSUME NEW kind \in AllKinds, NEW f \in DOMAIN Fields[kind], NEW opt \in Option(Json),
         IF opt = <<>> THEN Fields[kind][f] \in Optional ELSE IsA(opt[1], Fields[kind][f]),
         kind = "Completion" => f = "invocationId" \/ opt # <<>>,
         NEW items, NEW place \in Nat, Len(items) \in Nat,
         opt # <<>> => place <= Len(items) /\ items[place] = ToMsgPack[opt[1]],
         opt = <<>> => \/ place > Len(items)
                       \/ items[place] = Nil
                       \/ Fields[kind][f] = "strings?" /\ items[place] = Array(<<>>)
  PROVE  MsgPackField(items, place, TypeAt(kind, f))
           = <<IF LostIn("messagepack", f, opt) THEN <<>> ELSE opt>>
  <1> DEFINE type == Fields[kind][f]
             at == TypeAt(kind, f)
  <1>1. /\ type \in {"string", "string?", "value", "value?", "values", "strings?", "bool?"}
        /\ f = "result" <=> type = "value?"
        /\ f = "streamIds" <=> type = "strings?"
    BY FieldsFacts
  <1>2. f = "result" => kind = "Completion"
    <2>1. CASE kind \in {"Invocation", "StreamItem", "StreamInvocation"}
      BY <2>1, FieldsOfKinds
    <2>2. CASE kind \in {"CancelInvocation", "Ping", "Close"}
      BY <2>2, FieldsOfKinds
    <2> QED BY <2>1, <2>2 DEF AllKinds
  <1>3. kind = "Completion" /\ f = "error" => type = "string?"
    BY FieldsOfKinds
  <1>4. /\ kind = "Completion" /\ f = "error" => at = "string"
        /\ kind = "Completion" /\ f = "result" => at = "value"
        /\ ~(kind = "Completion" /\ f \in {"error", "result"}) => at = type
    BY DEF TypeAt
  <1>5. kind = "Completion" /\ f = "invocationId" => at = "string" /\ type = "string"
    BY <1>4, FieldsOfKinds
  <1> HIDE DEF type, at
  <1>6. at \in {"string", "string?", "value", "values", "strings?", "bool?"}
    BY <1>1, <1>2, <1>4
  <1>7. at = "strings?" <=> f = "streamIds"
    BY <1>1, <1>2, <1>3, <1>4
  <1>8. CASE opt = <<>>
    <2>1. type \in Optional
      BY <1>8 DEF type
    <2>2. at = type
      <3>1. ~(kind = "Completion")
        BY <1>5, <1>8, <2>1 DEF Optional
      <3> QED BY <1>4, <3>1
    <2>3. MsgPackField(items, place, at) = << <<>> >>
      BY <1>8, <2>1, <2>2, MsgPackFieldNone DEF type
    <2> QED BY <1>8, <2>3 DEF LostIn, at
  <1>9. CASE opt # <<>>
    <2>1. PICK v \in Json : opt = <<v>> /\ opt[1] = v
      BY <1>9 DEF Option
    <2>2. IsA(v, type)
      BY <1>9, <2>1 DEF type
    <2>3. IsA(v, at)
      BY <1>1, <1>3, <1>4, <2>2 DEF IsA
    <2>4. place <= Len(items) /\ items[place] = ToMsgPack[v]
      BY <1>9, <2>1
    <2>5. MsgPackField(items, place, at)
            = IF at = "strings?" /\ v = Arr(<<>>) THEN << <<>> >> ELSE << <<v>> >>
      BY <1>6, <2>3, <2>4, MsgPackFieldSome
    <2>6. LostIn("messagepack", f, opt) <=> at = "strings?" /\ v = Arr(<<>>)
      BY <1>7, <2>1 DEF LostIn
    <2> QED BY <2>1, <2>5, <2>6 DEF at
  <1> QED BY <1>8, <1>9

LEMMA ItemsRead ==
  ASSUME NEW m, Whole(m), NEW items, NEW places, places = Places(m.kind, items),
         Len(items) \in Counts(m.kind, items), HasHeaders(m.kind) => HeadersOK(items[2]),
         DOMAIN places \subseteq DOMAIN Fields[m.kind],
         \A f \in DOMAIN places :
             MsgPackField(items, places[f], TypeAt(m.kind, f))
               = <<Relayed(m, "messagepack").body[f]>>,
         \A f \in DOMAIN Fields[m.kind] \ DOMAIN places : m.body[f] = <<>>
  PROVE  FromMsgPackItems(m.kind, items) = <<Relayed(m, "messagepack")>>
  <1> DEFINE F == DOMAIN Fields[m.kind]
             r == Relayed(m, "messagepack")
             found == [f \in DOMAIN places |-> MsgPackField(items, places[f], TypeAt(m.kind, f))]
             b == [f \in F |-> IF f \in DOMAIN found THEN found[f][1] ELSE <<>>]
             rb == [f \in F |-> IF LostIn("messagepack", f, m.body[f]) THEN <<>> ELSE m.body[f]]
  <1>1. r = [kind |-> m.kind, body |-> rb]
    BY DEF Relayed
  <1>2. r.body = rb
    BY <1>1
  <1>3. DOMAIN found = DOMAIN places
    OBVIOUS
  <1>4. \A f \in DOMAIN places : found[f] = <<r.body[f]>>
    OBVIOUS
  <1>5. ~(\E f \in DOMAIN found : found[f] = <<>>)
    <2>1. \A x : <<x>> # <<>>
      OBVIOUS
    <2> HIDE DEF found, r
    <2> QED BY <1>3, <1>4, <2>1
  <1>6. b = rb
    <2>1. ASSUME NEW f \in F PROVE b[f] = rb[f]
      <3>1. CASE f \in DOMAIN places
        <4>1. b[f] = found[f][1]
          BY <1>3, <3>1
        <4>2. found[f][1] = r.body[f]
          BY <1>4, <3>1
        <4> QED BY <1>2, <4>1, <4>2
      <3>2. CASE f \notin DOMAIN places
        <4>1. m.body[f] = <<>>
          BY <3>2
        <4>2. rb[f] = <<>>
          BY <4>1 DEF LostIn
        <4>3. b[f] = <<>>
          BY <1>3, <3>2
        <4> QED BY <4>2, <4>3
      <3> QED BY <3>1, <3>2
    <2>2. b = [f \in F |-> b[f]] /\ rb = [f \in F |-> rb[f]]
      OBVIOUS
    <2> HIDE DEF b, rb, F
    <2> QED BY <2>1, <2>2
  <1>7. FromMsgPackItems(m.kind, items) = <<[kind |-> m.kind, body |-> b]>>
    <2>1. ~(Len(items) \notin Counts(m.kind, items) \/ (HasHeaders(m.kind) /\ ~HeadersOK(items[2])))
      OBVIOUS
    <2> QED BY <1>5, <2>1 DEF FromMsgPackItems
  <1> QED BY <1>1, <1>6, <1>7

LEMMA NoHeaders == HeadersOK(Pairs(<<>>))
  BY DEF HeadersOK, Pairs

LEMMA FieldOf ==
  ASSUME NEW m, Whole(m), NEW f \in DOMAIN Fields[m.kind]
  PROVE  /\ m.body[f] \in Option(Json)
         /\ IF m.body[f] = <<>> THEN Fields[m.kind][f] \in Optional
            ELSE IsA(m.body[f][1], Fields[m.kind][f])
         /\ Relayed(m, "messagepack").body[f]
              = IF LostIn("messagepack", f, m.body[f]) THEN <<>> ELSE m.body[f]
  BY DEF Whole, Conforms, Relayed

\* The items have every field of the message where it is looked for.
Placed(m, items, places) ==
    /\ Len(items) \in Nat /\ Len(items) > 0
    /\ items[1] = Integer(Code(m))
    /\ HasHeaders(m.kind) => items[2] = Pairs(<<>>)
    /\ Len(items) \in Counts(m.kind, items)
    /\ places = Places(m.kind, items)
    /\ DOMAIN places \subseteq DOMAIN Fields[m.kind]
    /\ \A f \in DOMAIN Fields[m.kind] \ DOMAIN places : m.body[f] = <<>>
    /\ \A f \in DOMAIN places :
           /\ places[f] \in Nat
           /\ m.kind = "Completion" => f = "invocationId" \/ m.body[f] # <<>>
           /\ m.body[f] # <<>> =>
                  places[f] <= Len(items) /\ items[places[f]] = ToMsgPack[m.body[f][1]]
           /\ m.body[f] = <<>> =>
                  \/ places[f] > Len(items)
                  \/ items[places[f]] = Nil
                  \/ Fields[m.kind][f] = "strings?" /\ items[places[f]] = Array(<<>>)

LEMMA BodyRead ==
  ASSUME NEW m, Whole(m), NEW items, NEW places, Placed(m, items, places),
         ToMsgPackBody(m) = <<Array(items)>>
  PROVE  /\ ToMsgPackBody(m) # <<>>
         /\ FromMsgPackBody(ToMsgPackBody(m)) = <<Relayed(m, "messagepack")>>
  <1> DEFINE body == ToMsgPackBody(m)
             c == Code(m)
  <1>1. m.kind \in AllKinds
    BY DEF Whole
  <1>2. c \in DOMAIN Kinds /\ Kinds[c] = m.kind
    BY <1>1, CodeFacts, KindsFacts
  <1>3. /\ Len(body) = 1 /\ body[1].t = "array" /\ body[1].items = items
    BY DEF Array
  <1>4. items # <<>> /\ items[1].t = "integer" /\ items[1].n = c
    BY DEF Integer, Placed
  <1> HIDE DEF body, c
  <1>5. FromMsgPackBody(body) = FromMsgPackItems(m.kind, items)
    BY <1>2, <1>3, <1>4 DEF FromMsgPackBody
  <1>6. ASSUME NEW f \in DOMAIN places
        PROVE  MsgPackField(items, places[f], TypeAt(m.kind, f))
                 = <<Relayed(m, "messagepack").body[f]>>
    <2>1. f \in DOMAIN Fields[m.kind]
      BY DEF Placed
    <2>2. /\ m.body[f] \in Option(Json)
          /\ IF m.body[f] = <<>> THEN Fields[m.kind][f] \in Optional
             ELSE IsA(m.body[f][1], Fields[m.kind][f])
          /\ Relayed(m, "messagepack").body[f]
               = IF LostIn("messagepack", f, m.body[f]) THEN <<>> ELSE m.body[f]
      BY <2>1, FieldOf
    <2>3. MsgPackField(items, places[f], TypeAt(m.kind, f))
            = <<IF LostIn("messagepack", f, m.body[f]) THEN <<>> ELSE m.body[f]>>
      BY <1>1, <2>1, <2>2, MsgPackFieldKeeps DEF Placed
    <2> QED BY <2>2, <2>3
  <1>7. FromMsgPackItems(m.kind, items) = <<Relayed(m, "messagepack")>>
    BY <1>6, ItemsRead, NoHeaders DEF Placed
  <1> QED BY <1>5, <1>7 DEF body

\* What stands where in the items of a body, with headers and without
LEMMA Joined ==
  ASSUME NEW W, NEW s \in Seq(W), NEW t \in Seq(W)
  PROVE  /\ s \o t \in Seq(W) /\ Len(s \o t) = Len(s) + Len(t)
         /\ \A i \in 1..Len(s) : (s \o t)[i] = s[i]
         /\ \A i \in 1..Len(t) : (s \o t)[i + Len(s)] = t[i]
  <1>1. /\ s \o t \in Seq(W) /\ Len(s \o t) = Len(s) + Len(t)
        /\ \A i \in 1..(Len(s) + Len(t)) :
               (s \o t)[i] = IF i <= Len(s) THEN s[i] ELSE t[i - Len(s)]
    BY ConcatProperties
  <1>2. Len(s) \in Nat /\ Len(t) \in Nat
    OBVIOUS
  <1>3. ASSUME NEW i \in 1..Len(t) PROVE (s \o t)[i + Len(s)] = t[i]
    <2>1. i + Len(s) \in 1..(Len(s) + Len(t)) /\ ~(i + Len(s) <= Len(s)) /\ (i + Len(s)) - Len(s) = i
      BY <1>2
    <2> QED BY <1>1, <2>1
  <1> QED BY <1>1, <1>2, <1>3

LEMMA ItemsBehind ==
  ASSUME NEW a, NEW h, NEW U, NEW s \in Seq(U)
  PROVE  LET items == (<<a>> \o <<h>>) \o s IN
         /\ Len(items) = Len(s) + 2 /\ items[1] = a /\ items[2] = h
         /\ \A i \in 1..Len(s) : items[i + 2] = s[i]
  <1>1. PICK W : W = U \cup {a, h}
    OBVIOUS
  <1>2. PICK u : u = <<a>>
    OBVIOUS
  <1>3. PICK v : v = <<h>>
    OBVIOUS
  <1>4. /\ u \in Seq(W) /\ v \in Seq(W) /\ Len(u) = 1 /\ Len(v) = 1 /\ u[1] = a /\ v[1] = h
    BY <1>1, <1>2, <1>3
  <1>5. s \in Seq(W)
    BY <1>1
  <1>6. u \in Seq(W)
    BY <1>4
  <1>7. v \in Seq(W)
    BY <1>4
  <1>8. PICK uv : uv = u \o v
    OBVIOUS
  <1>9. uv \in Seq(W) /\ Len(uv) = 2 /\ uv[1] = a /\ uv[2] = h
    <2>1. /\ uv \in Seq(W) /\ Len(uv) = Len(u) + Len(v)
          /\ \A i \in 1..Len(u) : uv[i] = u[i]
          /\ \A i \in 1..Len(v) : uv[i + Len(u)] = v[i]
      BY <1>8, <1>6, <1>7, Joined
    <2> QED BY <1>4, <2>1
  <1>10. PICK w : w = uv \o s
    OBVIOUS
  <1>11. uv \in Seq(W)
    BY <1>9
  <1>12. /\ Len(w) = Len(uv) + Len(s)
         /\ \A i \in 1..Len(uv) : w[i] = uv[i]
         /\ \A i \in 1..Len(s) : w[i + Len(uv)] = s[i]
    BY <1>5, <1>10, <1>11, Joined
  <1>13. Len(s) \in Nat
    OBVIOUS
  <1>14. /\ Len(w) = Len(s) + 2 /\ w[1] = a /\ w[2] = h
         /\ \A i \in 1..Len(s) : w[i + 2] = s[i]
    BY <1>9, <1>12, <1>13
  <1>15. (<<a>> \o <<h>>) \o s = w
    BY <1>2, <1>3, <1>8, <1>10
  <1> QED BY <1>14, <1>15

LEMMA InvocationRelay ==
  ASSUME NEW m, Whole(m), m.kind \in {"Invocation", "StreamInvocation"}
  PROVE  /\ ToMsgPackBody(m) # <<>>
         /\ FromMsgPackBody(ToMsgPackBody(m)) = <<Relayed(m, "messagepack")>>
  <1> DEFINE b == m.body
             x1 == Integer(Code(m))
             x2 == Pairs(<<>>)
             x3 == OrNil(b.invocationId)
             x4 == ToMsgPack[b.target[1]]
             x5 == ToMsgPack[b.arguments[1]]
             x6 == IF b.streamIds = <<>> THEN Array(<<>>) ELSE ToMsgPack[b.streamIds[1]]
             s == <<x3, x4, x5, x6>>
             items == (<<x1>> \o <<x2>>) \o s
             places == [invocationId |-> 3, target |-> 4, arguments |-> 5, streamIds |-> 6]
  <1>1. ToMsgPackBody(m) = <<Array(items)>>
    BY DEF ToMsgPackBody, Items, HasHeaders
  <1>2. \A is : places = Places(m.kind, is) /\ Counts(m.kind, is) = {5, 6}
    BY DEF Places, Counts
  <1>3. DOMAIN Fields[m.kind] = {"invocationId", "target", "arguments", "streamIds"}
    BY FieldsOfKinds
  <1>4. /\ Fields[m.kind]["target"] \notin Optional
        /\ Fields[m.kind]["arguments"] \notin Optional
        /\ Fields[m.kind]["streamIds"] = "strings?"
    BY FieldsOfKinds DEF Optional
  <1>5. b.target # <<>> /\ b.arguments # <<>>
    BY <1>3, <1>4, FieldOf
  <1>6. /\ b.invocationId = <<>> => x3 = Nil
        /\ b.invocationId # <<>> => x3 = ToMsgPack[b.invocationId[1]]
    BY DEF OrNil
  <1>7. /\ b.streamIds = <<>> => x6 = Array(<<>>)
        /\ b.streamIds # <<>> => x6 = ToMsgPack[b.streamIds[1]]
    OBVIOUS
  <1>8. x4 = ToMsgPack[b.target[1]] /\ x5 = ToMsgPack[b.arguments[1]] /\ x1 = Integer(Code(m))
    OBVIOUS
  <1>9. m.kind # "Completion" /\ x2 = Pairs(<<>>)
    OBVIOUS
  <1>10. /\ DOMAIN places = {"invocationId", "target", "arguments", "streamIds"}
         /\ places["invocationId"] = 3 /\ places["target"] = 4
         /\ places["arguments"] = 5 /\ places["streamIds"] = 6
    OBVIOUS
  <1> HIDE DEF x1, x2, x3, x4, x5, x6, places
  <1>11. /\ s \in Seq({x3, x4, x5, x6}) /\ Len(s) = 4
         /\ s[1] = x3 /\ s[2] = x4 /\ s[3] = x5 /\ s[4] = x6
    OBVIOUS
  <1> HIDE DEF s
  <1>12. /\ Len(items) = 6 /\ items[1] = x1 /\ items[2] = x2
         /\ items[3] = x3 /\ items[4] = x4 /\ items[5] = x5 /\ items[6] = x6
    <2>1. s \in Seq({x3, x4, x5, x6})
      BY <1>11
    <2>2. /\ Len(items) = Len(s) + 2 /\ items[1] = x1 /\ items[2] = x2
          /\ \A i \in 1..Len(s) : items[i + 2] = s[i]
      BY <2>1, ItemsBehind
    <2> HIDE DEF items
    <2> QED BY <1>11, <2>2
  <1> HIDE DEF items
  <1>13. ASSUME NEW f \in DOMAIN places
         PROVE  /\ places[f] \in Nat
                /\ m.kind = "Completion" => f = "invocationId" \/ m.body[f] # <<>>
                /\ m.body[f] # <<>> =>
                       places[f] <= Len(items) /\ items[places[f]] = ToMsgPack[m.body[f][1]]
                /\ m.body[f] = <<>> =>
                       \/ places[f] > Len(items)
                       \/ items[places[f]] = Nil
                       \/ Fields[m.kind][f] = "strings?" /\ items[places[f]] = Array(<<>>)
    BY <1>4, <1>5, <1>6, <1>7, <1>8, <1>9, <1>10, <1>12
  <1>14. places = Places(m.kind, items) /\ Len(items) \in Counts(m.kind, items) /\ Len(items) \in Nat
    BY <1>2, <1>12
  <1>15. DOMAIN places \subseteq DOMAIN Fields[m.kind] /\ DOMAIN Fields[m.kind] \ DOMAIN places = {}
    BY <1>3, <1>10
  <1>16. Placed(m, items, places)
    BY <1>8, <1>9, <1>12, <1>13, <1>14, <1>15 DEF Placed
  <1> QED BY <1>1, <1>16, BodyRead

LEMMA FirstAnd ==
  ASSUME NEW a, NEW U, NEW s \in Seq(U)
  PROVE  /\ <<a>> \o s \in Seq(U \cup {a}) /\ Len(<<a>> \o s) = Len(s) + 1
         /\ (<<a>> \o s)[1] = a
         /\ \A i \in 1..Len(s) : (<<a>> \o s)[i + 1] = s[i]
  <1>1. PICK W : W = U \cup {a}
    OBVIOUS
  <1>2. PICK u : u = <<a>>
    OBVIOUS
  <1>3. Len(u) = 1 /\ u[1] = a /\ Len(s) \in Nat
    BY <1>2
  <1>4. u \in Seq(W)
    BY <1>1, <1>2
  <1>5. s \in Seq(W)
    BY <1>1
  <1>6. /\ u \o s \in Seq(W) /\ Len(u \o s) = Len(u) + Len(s)
        /\ \A i \in 1..Len(u) : (u \o s)[i] = u[i]
        /\ \A i \in 1..Len(s) : (u \o s)[i + Len(u)] = s[i]
    BY <1>4, <1>5, Joined
  <1>7. /\ u \o s \in Seq(W) /\ Len(u \o s) = Len(s) + 1 /\ (u \o s)[1] = a
        /\ \A i \in 1..Len(s) : (u \o s)[i + 1] = s[i]
    BY <1>3, <1>6
  <1> QED BY <1>1, <1>2, <1>7

LEMMA OneItem == \A v : Len(<<v>>) = 1 /\ <<v>>[1] = v /\ \E U : <<v>> \in Seq(U)
  <1> TAKE v
  <1>1. <<v>> \in Seq({v})
    OBVIOUS
  <1> QED BY <1>1

LEMMA TwoItems ==
  \A v, w : /\ Len(<<v, w>>) = 2 /\ <<v, w>>[1] = v /\ <<v, w>>[2] = w
            /\ \E U : <<v, w>> \in Seq(U)
  <1> TAKE v, w
  <1>1. <<v, w>> \in Seq({v, w})
    OBVIOUS
  <1> QED BY <1>1

LEMMA StreamItemRelay ==
  ASSUME NEW m, Whole(m), m.kind = "StreamItem"
  PROVE  /\ ToMsgPackBody(m) # <<>>
         /\ FromMsgPackBody(ToMsgPackBody(m)) = <<Relayed(m, "messagepack")>>
  <1> DEFINE b == m.body
             x1 == Integer(Code(m))
             x2 == Pairs(<<>>)
             x3 == ToMsgPack[b.invocationId[1]]
             x4 == ToMsgPack[b.item[1]]
             s == <<x3, x4>>
             items == (<<x1>> \o <<x2>>) \o s
             places == [invocationId |-> 3, item |-> 4]
  <1>1. ToMsgPackBody(m) = <<Array(items)>>
    BY DEF ToMsgPackBody, Items, HasHeaders
  <1>2. \A is : places = Places(m.kind, is) /\ Counts(m.kind, is) = {4}
    BY DEF Places, Counts
  <1>3. DOMAIN Fields[m.kind] = {"invocationId", "item"}
    BY FieldsOfKinds
  <1>4. Fields[m.kind]["invocationId"] \notin Optional /\ Fields[m.kind]["item"] \notin Optional
    BY FieldsOfKinds DEF Optional
  <1>5. b.invocationId # <<>> /\ b.item # <<>>
    BY <1>3, <1>4, FieldOf
  <1>6. x3 = ToMsgPack[b.invocationId[1]] /\ x4 = ToMsgPack[b.item[1]] /\ x1 = Integer(Code(m))
    OBVIOUS
  <1>7. m.kind # "Completion" /\ x2 = Pairs(<<>>)
    OBVIOUS
  <1>8. /\ DOMAIN places = {"invocationId", "item"}
        /\ places["invocationId"] = 3 /\ places["item"] = 4
    OBVIOUS
  <1> HIDE DEF x1, x2, x3, x4, places
  <1>9. Len(s) = 2 /\ s[1] = x3 /\ s[2] = x4
    OBVIOUS
  <1>10. s \in Seq({x3, x4})
    OBVIOUS
  <1> HIDE DEF s
  <1>11. /\ Len(items) = 4 /\ items[1] = x1 /\ items[2] = x2
         /\ items[3] = x3 /\ items[4] = x4
    <2>1. /\ Len(items) = Len(s) + 2 /\ items[1] = x1 /\ items[2] = x2
          /\ \A i \in 1..Len(s) : items[i + 2] = s[i]
      BY <1>10, ItemsBehind
    <2> HIDE DEF items
    <2> QED BY <1>9, <2>1
  <1> HIDE DEF items
  <1>12. places = Places(m.kind, items) /\ Len(items) \in Counts(m.kind, items) /\ Len(items) \in Nat
    BY <1>2, <1>11
  <1>13. DOMAIN places \subseteq DOMAIN Fields[m.kind] /\ DOMAIN Fields[m.kind] \ DOMAIN places = {}
    BY <1>3, <1>8
  <1>14. Placed(m, items, places)
    BY <1>5, <1>6, <1>7, <1>8, <1>11, <1>12, <1>13 DEF Placed
  <1> QED BY <1>1, <1>14, BodyRead

LEMMA CancelInvocationRelay ==
  ASSUME NEW m, Whole(m), m.kind = "CancelInvocation"
  PROVE  /\ ToMsgPackBody(m) # <<>>
         /\ FromMsgPackBody(ToMsgPackBody(m)) = <<Relayed(m, "messagepack")>>
  <1> DEFINE b == m.body
             x1 == Integer(Code(m))
             x2 == Pairs(<<>>)
             x3 == ToMsgPack[b.invocationId[1]]
             s == <<x3>>
             items == (<<x1>> \o <<x2>>) \o s
             places == [invocationId |-> 3]
  <1>1. ToMsgPackBody(m) = <<Array(items)>>
    BY DEF ToMsgPackBody, Items, HasHeaders
  <1>2. \A is : places = Places(m.kind, is) /\ Counts(m.kind, is) = {3}
    BY DEF Places, Counts
  <1>3. DOMAIN Fields[m.kind] = {"invocationId"}
    BY FieldsOfKinds
  <1>4. Fields[m.kind]["invocationId"] \notin Optional
    BY FieldsOfKinds DEF Optional
  <1>5. b.invocationId # <<>>
    BY <1>3, <1>4, FieldOf
  <1>6. x3 = ToMsgPack[b.invocationId[1]] /\ x1 = Integer(Code(m))
    OBVIOUS
  <1>7. m.kind # "Completion" /\ x2 = Pairs(<<>>)
    OBVIOUS
  <1>8. DOMAIN places = {"invocationId"} /\ places["invocationId"] = 3
    OBVIOUS
  <1> HIDE DEF x1, x2, x3, places
  <1>9. Len(s) = 1 /\ s[1] = x3
    OBVIOUS
  <1>10. s \in Seq({x3})
    OBVIOUS
  <1> HIDE DEF s
  <1>11. Len(items) = 3 /\ items[1] = x1 /\ items[2] = x2 /\ items[3] = x3
    <2>1. /\ Len(items) = Len(s) + 2 /\ items[1] = x1 /\ items[2] = x2
          /\ \A i \in 1..Len(s) : items[i + 2] = s[i]
      BY <1>10, ItemsBehind
    <2> HIDE DEF items
    <2> QED BY <1>9, <2>1
  <1> HIDE DEF items
  <1>12. places = Places(m.kind, items) /\ Len(items) \in Counts(m.kind, items) /\ Len(items) \in Nat
    BY <1>2, <1>11
  <1>13. DOMAIN places \subseteq DOMAIN Fields[m.kind] /\ DOMAIN Fields[m.kind] \ DOMAIN places = {}
    BY <1>3, <1>8
  <1>14. Placed(m, items, places)
    BY <1>5, <1>6, <1>7, <1>8, <1>11, <1>12, <1>13 DEF Placed
  <1> QED BY <1>1, <1>14, BodyRead

LEMMA PingRelay ==
  ASSUME NEW m, Whole(m), m.kind = "Ping"
  PROVE  /\ ToMsgPackBody(m) # <<>>
         /\ FromMsgPackBody(ToMsgPackBody(m)) = <<Relayed(m, "messagepack")>>
  <1> DEFINE x1 == Integer(Code(m))
             items == (<<x1>> \o <<>>) \o <<>>
  <1>1. ToMsgPackBody(m) = <<Array(items)>>
    BY DEF ToMsgPackBody, Items, HasHeaders
  <1>2. \A is : Places(m.kind, is) = <<>> /\ Counts(m.kind, is) = {1}
    BY DEF Places, Counts
  <1>3. Fields[m.kind] = <<>> /\ DOMAIN <<>> = {}
    BY FieldsOfKinds
  <1>4. x1 = Integer(Code(m)) /\ ~HasHeaders(m.kind)
    BY DEF HasHeaders
  <1> HIDE DEF x1
  <1>5. items = <<x1>>
    OBVIOUS
  <1>6. Len(items) = 1 /\ items[1] = x1
    BY <1>5
  <1> HIDE DEF items
  <1>7. Placed(m, items, <<>>)
    BY <1>2, <1>3, <1>4, <1>6 DEF Placed
  <1> QED BY <1>1, <1>7, BodyRead

LEMMA CloseRelay ==
  ASSUME NEW m, Whole(m), m.kind = "Close"
  PROVE  /\ ToMsgPackBody(m) # <<>>
         /\ FromMsgPackBody(ToMsgPackBody(m)) = <<Relayed(m, "messagepack")>>
  <1> DEFINE b == m.body
             x1 == Integer(Code(m))
             x2 == OrNil(b.error)
             s == IF b.allowReconnect = <<>> THEN <<>> ELSE <<ToMsgPack[b.allowReconnect[1]]>>
             t == <<x2>> \o s
             items == (<<x1>> \o <<>>) \o t
             places == [error |-> 2, allowReconnect |-> 3]
  <1>1. ToMsgPackBody(m) = <<Array(items)>>
    BY DEF ToMsgPackBody, Items, HasHeaders
  <1>2. \A is : places = Places(m.kind, is) /\ Counts(m.kind, is) = {1, 2, 3}
    BY DEF Places, Counts
  <1>3. DOMAIN Fields[m.kind] = {"error", "allowReconnect"}
    BY FieldsOfKinds
  <1>4. /\ b.error = <<>> => x2 = Nil
        /\ b.error # <<>> => x2 = ToMsgPack[b.error[1]]
    BY DEF OrNil
  <1>5. x1 = Integer(Code(m)) /\ m.kind # "Completion" /\ ~HasHeaders(m.kind)
    BY DEF HasHeaders
  <1>6. /\ DOMAIN places = {"error", "allowReconnect"}
        /\ places["error"] = 2 /\ places["allowReconnect"] = 3
    OBVIOUS
  <1> HIDE DEF x1, x2, places
  <1>7. PICK U : s \in Seq(U)
    <2>1. CASE b.allowReconnect = <<>>
      <3>1. s = <<>>
        BY <2>1
      <3>2. s \in Seq({x2})
        BY <3>1
      <3> QED BY <3>2
    <2>2. CASE b.allowReconnect # <<>>
      <3>1. PICK v : s = <<v>>
        BY <2>2
      <3> QED BY <3>1, OneItem
    <2> QED BY <2>1, <2>2
  <1>8. /\ b.allowReconnect = <<>> => Len(s) = 0
        /\ b.allowReconnect # <<>> => Len(s) = 1 /\ s[1] = ToMsgPack[b.allowReconnect[1]]
    OBVIOUS
  <1>9. Len(s) \in Nat
    BY <1>7
  <1> HIDE DEF s
  <1>10. /\ t \in Seq(U \cup {x2}) /\ Len(t) = Len(s) + 1 /\ t[1] = x2
         /\ \A i \in 1..Len(s) : t[i + 1] = s[i]
    BY <1>7, FirstAnd
  <1>11. t \in Seq(U \cup {x2})
    BY <1>10
  <1> HIDE DEF t
  <1>12. items = <<x1>> \o t
    OBVIOUS
  <1>13. /\ Len(<<x1>> \o t) = Len(t) + 1 /\ (<<x1>> \o t)[1] = x1
         /\ \A i \in 1..Len(t) : (<<x1>> \o t)[i + 1] = t[i]
    BY <1>11, FirstAnd
  <1>14. /\ Len(items) = Len(t) + 1 /\ items[1] = x1
         /\ \A i \in 1..Len(t) : items[i + 1] = t[i]
    BY <1>12, <1>13
  <1> HIDE DEF items
  <1>15. Len(items) = Len(s) + 2 /\ items[1] = x1 /\ items[2] = x2
    BY <1>9, <1>10, <1>14
  <1>16. /\ b.allowReconnect = <<>> => Len(items) = 2
         /\ b.allowReconnect # <<>> =>
               Len(items) = 3 /\ items[3] = ToMsgPack[b.allowReconnect[1]]
    BY <1>8, <1>10, <1>14
  <1>17. Len(items) \in {2, 3}
    <2>1. CASE b.allowReconnect = <<>>
      BY <1>16, <2>1
    <2>2. CASE b.allowReconnect # <<>>
      BY <1>16, <2>2
    <2> QED BY <2>1, <2>2
  <1>18. places = Places(m.kind, items) /\ Len(items) \in Counts(m.kind, items) /\ Len(items) \in Nat
    BY <1>2, <1>17
  <1>19. DOMAIN places \subseteq DOMAIN Fields[m.kind] /\ DOMAIN Fields[m.kind] \ DOMAIN places = {}
    BY <1>3, <1>6
  <1>20. Len(items) >= 2
    BY <1>17
  <1>21. Placed(m, items, places)
    BY <1>4, <1>5, <1>6, <1>15, <1>16, <1>18, <1>19, <1>20 DEF Placed
  <1> QED BY <1>1, <1>21, BodyRead

LEMMA CompletionRelay ==
  ASSUME NEW m, Whole(m), m.kind = "Completion",
         m.body.result = <<>> \/ m.body.error = <<>>
  PROVE  /\ ToMsgPackBody(m) # <<>>
         /\ FromMsgPackBody(ToMsgPackBody(m)) = <<Relayed(m, "messagepack")>>
  <1> DEFINE b == m.body
             x1 == Integer(Code(m))
             x2 == Pairs(<<>>)
             x3 == ToMsgPack[b.invocationId[1]]
             s == CompletionItems(b)
             t == <<x3>> \o s
             items == (<<x1>> \o <<x2>>) \o t
             kind == IF b.error # <<>> THEN 1 ELSE IF b.result = <<>> THEN 2 ELSE 3
             places == CASE kind = 1 -> [invocationId |-> 3, error |-> 5]
                         [] kind = 3 -> [invocationId |-> 3, result |-> 5]
                         [] OTHER -> [invocationId |-> 3]
  <1>1. ToMsgPackBody(m) = <<Array(items)>>
    BY DEF ToMsgPackBody, Items, HasHeaders
  <1>2. DOMAIN Fields[m.kind] = {"invocationId", "result", "error"}
    BY FieldsOfKinds
  <1>3. b.invocationId # <<>>
    <2>1. Fields[m.kind]["invocationId"] \notin Optional
      BY FieldsOfKinds DEF Optional
    <2> QED BY <1>2, <2>1, FieldOf
  <1>4. /\ kind = 1 => s = <<Integer(1), ToMsgPack[b.error[1]]>>
        /\ kind = 2 => s = <<Integer(2)>>
        /\ kind = 3 => s = <<Integer(3), ToMsgPack[b.result[1]]>>
    BY DEF CompletionItems
  <1>5. /\ kind \in {1, 2, 3}
        /\ kind = 1 <=> b.error # <<>>
        /\ kind = 3 <=> b.result # <<>>
    OBVIOUS
  <1>6. x1 = Integer(Code(m)) /\ x2 = Pairs(<<>>) /\ x3 = ToMsgPack[b.invocationId[1]]
    OBVIOUS
  <1> HIDE DEF x1, x2, x3, s, kind
  <1>7. /\ Len(s) = IF kind = 2 THEN 1 ELSE 2
        /\ s[1] = Integer(kind)
        /\ kind = 1 => s[2] = ToMsgPack[b.error[1]]
        /\ kind = 3 => s[2] = ToMsgPack[b.result[1]]
        /\ \E U : s \in Seq(U)
    <2>1. CASE kind = 1
      <3>1. PICK v : v = ToMsgPack[b.error[1]]
        OBVIOUS
      <3>2. s = <<Integer(1), v>>
        BY <1>4, <2>1, <3>1
      <3>3. Len(s) = 2 /\ s[1] = Integer(1) /\ s[2] = v /\ \E U : s \in Seq(U)
        BY <3>2, TwoItems
      <3> QED BY <2>1, <3>1, <3>3
    <2>2. CASE kind = 2
      <3>1. s = <<Integer(2)>>
        BY <1>4, <2>2
      <3>2. Len(s) = 1 /\ s[1] = Integer(2) /\ \E U : s \in Seq(U)
        BY <3>1, OneItem
      <3> QED BY <2>2, <3>2
    <2>3. CASE kind = 3
      <3>1. PICK v : v = ToMsgPack[b.result[1]]
        OBVIOUS
      <3>2. s = <<Integer(3), v>>
        BY <1>4, <2>3, <3>1
      <3>3. Len(s) = 2 /\ s[1] = Integer(3) /\ s[2] = v /\ \E U : s \in Seq(U)
        BY <3>2, TwoItems
      <3> QED BY <2>3, <3>1, <3>3
    <2> QED BY <1>5, <2>1, <2>2, <2>3
  <1>8. PICK U : s \in Seq(U)
    BY <1>7
  <1>9. /\ t \in Seq(U \cup {x3}) /\ Len(t) = Len(s) + 1 /\ t[1] = x3
        /\ \A i \in 1..Len(s) : t[i + 1] = s[i]
    BY <1>8, FirstAnd
  <1>10. t \in Seq(U \cup {x3})
    BY <1>9
  <1> HIDE DEF t
  <1>11. /\ Len(items) = Len(t) + 2 /\ items[1] = x1 /\ items[2] = x2
         /\ \A i \in 1..Len(t) : items[i + 2] = t[i]
    BY <1>10, ItemsBehind
  <1> HIDE DEF items
  <1>12. /\ Len(items) = IF kind = 2 THEN 4 ELSE 5
         /\ items[3] = x3 /\ items[4] = Integer(kind)
         /\ kind = 1 => items[5] = ToMsgPack[b.error[1]]
         /\ kind = 3 => items[5] = ToMsgPack[b.result[1]]
    <2>1. Len(s) >= 1 /\ Len(s) \in Nat /\ (kind # 2 => Len(s) = 2)
      BY <1>7
    <2>2. t[2] = s[1] /\ (kind # 2 => t[3] = s[2])
      BY <1>9, <2>1
    <2>3. items[3] = t[1] /\ items[4] = t[2] /\ (kind # 2 => items[5] = t[3])
      BY <1>9, <1>11, <2>1
    <2>4. Len(items) = Len(s) + 3
      BY <1>9, <1>11, <2>1
    <2> QED BY <1>7, <1>9, <2>2, <2>3, <2>4
  <1>13. ResultKind(items) = kind
    <2>1. Integer(kind).t = "integer" /\ Integer(kind).n = kind
      BY DEF Integer
    <2> QED BY <1>5, <1>12, <2>1 DEF ResultKind
  <1>14. places = Places(m.kind, items)
    BY <1>13 DEF Places
  <1>15. Len(items) \in Nat /\ Len(items) \in {4, 5} /\ (Len(items) = 4 <=> kind = 2)
    BY <1>12
  <1>16. Len(items) \in Counts(m.kind, items)
    BY <1>5, <1>13, <1>15 DEF Counts
  <1>17. /\ kind = 1 => DOMAIN places = {"invocationId", "error"} /\ places["error"] = 5
         /\ kind = 3 => DOMAIN places = {"invocationId", "result"} /\ places["result"] = 5
         /\ kind = 2 => DOMAIN places = {"invocationId"}
         /\ places["invocationId"] = 3
    BY <1>5
  <1> HIDE DEF places
  <1>18. DOMAIN places \subseteq DOMAIN Fields[m.kind]
    BY <1>2, <1>5, <1>17
  <1>19. \A f \in DOMAIN Fields[m.kind] \ DOMAIN places : m.body[f] = <<>>
    BY <1>2, <1>5, <1>17
  <1>20. ASSUME NEW f \in DOMAIN places
         PROVE  /\ places[f] \in Nat
                /\ f = "invocationId" \/ m.body[f] # <<>>
                /\ places[f] <= Len(items) /\ items[places[f]] = ToMsgPack[m.body[f][1]]
                /\ m.body[f] # <<>>
    <2>1. CASE kind = 1
      BY <1>3, <1>5, <1>6, <1>12, <1>17, <2>1
    <2>2. CASE kind = 2
      BY <1>3, <1>6, <1>12, <1>17, <2>2
    <2>3. CASE kind = 3
      BY <1>3, <1>5, <1>6, <1>12, <1>17, <2>3
    <2> QED BY <1>5, <2>1, <2>2, <2>3
  <1>21. Placed(m, items, places)
    <2>1. Len(items) > 0 /\ items[1] = Integer(Code(m)) /\ items[2] = Pairs(<<>>)
      BY <1>6, <1>11, <1>15
    <2> QED BY <1>14, <1>15, <1>16, <1>18, <1>19, <1>20, <2>1 DEF Placed
  <1> QED BY <1>1, <1>21, BodyRead

LEMMA MsgPackRelay ==
  ASSUME NEW m, Whole(m)
  PROVE  IF m.kind = "Completion" /\ m.body.result # <<>> /\ m.body.error # <<>>
         THEN ToMsgPackBody(m) = <<>>
         ELSE /\ ToMsgPackBody(m) # <<>>
              /\ FromMsgPackBody(ToMsgPackBody(m)) = <<Relayed(m, "messagepack")>>
  <1>1. CASE m.kind = "Completion" /\ m.body.result # <<>> /\ m.body.error # <<>>
    BY <1>1 DEF ToMsgPackBody
  <1>2. CASE m.kind = "Completion" /\ (m.body.result = <<>> \/ m.body.error = <<>>)
    BY <1>2, CompletionRelay
  <1>3. CASE m.kind \in {"Invocation", "StreamInvocation"}
    BY <1>3, InvocationRelay
  <1>4. CASE m.kind = "StreamItem"
    BY <1>4, StreamItemRelay
  <1>5. CASE m.kind = "CancelInvocation"
    BY <1>5, CancelInvocationRelay
  <1>6. CASE m.kind = "Ping"
    BY <1>6, PingRelay
  <1>7. CASE m.kind = "Close"
    BY <1>7, CloseRelay
  <1> QED BY <1>1, <1>2, <1>3, <1>4, <1>5, <1>6, <1>7 DEF Whole, AllKinds

----------------------------------------------------------------------------
\* What is parsed is whole.
LEMMA JsonParsesWhole ==
  ASSUME NEW text,
         Len(text) = 1 /\ text[1].t = "obj" =>
             text[1].fields \in [DOMAIN text[1].fields -> Json]
  PROVE  \/ FromJson(text) = <<>>
         \/ FromJson(text) = <<FromJson(text)[1]>> /\ Whole(FromJson(text)[1])
  <1> DEFINE fields == text[1].fields
             type == TypeOf(fields["type"])
             kind == Kinds[type[1]]
             b == [f \in DOMAIN Fields[kind] |-> JsonField(fields, f, Fields[kind][f])]
             m == [kind |-> kind, body |-> b]
  <1> SUFFICES ASSUME FromJson(text) # <<>>
               PROVE  FromJson(text) = <<FromJson(text)[1]>> /\ Whole(FromJson(text)[1])
    OBVIOUS
  <1>1. Len(text) = 1 /\ text[1].t = "obj"
    BY DEF FromJson
  <1>2. type # <<>> /\ type[1] \in DOMAIN Kinds
    BY <1>1 DEF FromJson
  <1>3. FromJson(text) = IF Conforms(m) THEN <<m>> ELSE <<>>
    BY <1>1, <1>2 DEF FromJson
  <1>4. kind \in AllKinds
    BY <1>2, KindsFacts DEF AllKinds
  <1>5. fields \in [DOMAIN fields -> Json]
    BY <1>1
  <1> HIDE DEF fields, kind
  <1>6. b \in [DOMAIN Fields[kind] -> Option(Json)]
    <2>1. ASSUME NEW f \in DOMAIN Fields[kind]
          PROVE  JsonField(fields, f, Fields[kind][f]) \in Option(Json)
      <3>1. <<>> \in Option(Json) /\ <<Arr(<<>>)>> \in Option(Json)
        BY JsonValues DEF Option
      <3>2. f \in DOMAIN fields => <<fields[f]>> \in Option(Json)
        BY <1>5 DEF Option
      <3> QED BY <3>1, <3>2 DEF JsonField
    <2> QED BY <2>1
  <1> HIDE DEF b
  <1>7. m = [kind |-> m.kind, body |-> m.body] /\ m.kind = kind /\ m.body = b
    OBVIOUS
  <1> HIDE DEF m
  <1>8. Conforms(m) /\ FromJson(text) = <<m>>
    BY <1>3
  <1>9. Whole(m)
    BY <1>4, <1>6, <1>7, <1>8 DEF Whole
  <1> QED BY <1>8, <1>9

\* A field that is found is an Option of its type.
LEMMA MsgPackFieldTyped ==
  ASSUME NEW items \in Seq(MsgPack), NEW place \in Nat \ {0}, NEW type,
         place > Len(items) => type \in Optional,
         MsgPackField(items, place, type) # <<>>
  PROVE  LET opt == MsgPackField(items, place, type)[1] IN
         /\ opt \in Option(Json)
         /\ IF opt = <<>> THEN type \in Optional ELSE IsA(opt[1], type)
  <1> DEFINE absent == place > Len(items) \/ (place <= Len(items) /\ items[place] = Nil)
             empty == type = "strings?" /\ place <= Len(items) /\ items[place] = Array(<<>>)
             j == FromMsgPack[items[place]]
             found == MsgPackField(items, place, type)
  <1>1. Len(items) \in Nat /\ place \in Nat
    OBVIOUS
  <1>2. CASE type \in Optional /\ (absent \/ empty)
    <2>1. found = << <<>> >>
      BY <1>2 DEF MsgPackField
    <2>2. found[1] = <<>> /\ <<>> \in Option(Json)
      BY <2>1 DEF Option
    <2> QED BY <1>2, <2>2
  <1>3. CASE ~(type \in Optional /\ (absent \/ empty))
    <2>1. place \in 1..Len(items)
      BY <1>1, <1>3
    <2>2. items[place] \in MsgPack
      BY <2>1
    <2>3. j \in Option(Json)
      BY <2>2, ValuesCanBeConverted
    <2> HIDE DEF absent, empty, j
    <2>4. j # <<>> /\ IsA(j[1], type) /\ found = <<j>>
      BY <1>3 DEF MsgPackField, absent, empty, j
    <2> HIDE DEF found
    <2>5. found[1] = j
      BY <2>4
    <2> QED BY <2>3, <2>4, <2>5 DEF found
  <1> QED BY <1>2, <1>3

\* Only an optional field may be missing at the end.
LEMMA PlacesFacts ==
  ASSUME NEW kind \in AllKinds, NEW items \in Seq(MsgPack), Len(items) \in Counts(kind, items),
         NEW places, places = Places(kind, items), NEW f \in DOMAIN Fields[kind]
  PROVE  /\ f \notin DOMAIN places => Fields[kind][f] \in Optional
         /\ f \in DOMAIN places =>
                /\ places[f] \in Nat \ {0}
                /\ places[f] > Len(items) => TypeAt(kind, f) \in Optional
  <1> DEFINE G == /\ f \notin DOMAIN places => Fields[kind][f] \in Optional
                  /\ f \in DOMAIN places =>
                         /\ places[f] \in Nat \ {0}
                         /\ places[f] > Len(items) => TypeAt(kind, f) \in Optional
  <1> SUFFICES G
    OBVIOUS
  <1>1. Len(items) \in Nat
    OBVIOUS
  <1>2. CASE kind \in {"Invocation", "StreamInvocation"}
    <2>1. Len(items) \in {5, 6}
      BY <1>2 DEF Counts
    <2>2. places = [invocationId |-> 3, target |-> 4, arguments |-> 5, streamIds |-> 6]
      BY <1>2 DEF Places
    <2>3. /\ DOMAIN Fields[kind] = {"invocationId", "target", "arguments", "streamIds"}
          /\ Fields[kind]["streamIds"] = "strings?"
      BY <1>2, FieldsOfKinds
    <2>4. TypeAt(kind, "streamIds") \in Optional
      BY <1>2, <2>3 DEF TypeAt, Optional
    <2>5. /\ DOMAIN places = {"invocationId", "target", "arguments", "streamIds"}
          /\ places["invocationId"] = 3 /\ places["target"] = 4 /\ places["arguments"] = 5
          /\ places["streamIds"] = 6
      BY <2>2
    <2>6. f \in DOMAIN places /\ places[f] \in {3, 4, 5, 6} /\ (f # "streamIds" => places[f] # 6)
      BY <2>3, <2>5
    <2>7. CASE f = "streamIds"
      BY <2>4, <2>6, <2>7
    <2>8. CASE f # "streamIds"
      <3>1. places[f] \in {3, 4, 5}
        BY <2>6, <2>8
      <3>2. PICK p, n : p = places[f] /\ n = Len(items)
        OBVIOUS
      <3>3. p <= n
        BY <2>1, <3>1, <3>2
      <3>4. ~(p > n)
        BY <2>1, <3>1, <3>2, <3>3
      <3> QED BY <1>1, <2>6, <3>1, <3>2, <3>4
    <2> QED BY <2>7, <2>8
  <1>3. CASE kind = "StreamItem"
    <2>1. Len(items) = 4
      BY <1>3 DEF Counts
    <2>2. places = [invocationId |-> 3, item |-> 4]
      BY <1>3 DEF Places
    <2>3. DOMAIN Fields[kind] = {"invocationId", "item"}
      BY <1>3, FieldsOfKinds
    <2>4. /\ DOMAIN places = {"invocationId", "item"}
          /\ places["invocationId"] = 3 /\ places["item"] = 4
      BY <2>2
    <2>5. f \in DOMAIN places /\ places[f] \in {3, 4}
      BY <2>3, <2>4
    <2> QED BY <2>1, <2>5
  <1>4. CASE kind = "Completion"
    <2> DEFINE rk == ResultKind(items)
    <2>1. Len(items) \in {4, 5} /\ rk \in {1, 2, 3} /\ (Len(items) = 4 <=> rk = 2)
      <3>1. \A n \in Counts(kind, items) :
                n \in {4, 5} /\ rk \in {1, 2, 3} /\ (n = 4 <=> rk = 2)
        BY <1>4 DEF Counts
      <3> HIDE DEF rk
      <3> QED BY <3>1
    <2>2. places = CASE rk = 1 -> [invocationId |-> 3, error |-> 5]
                     [] rk = 3 -> [invocationId |-> 3, result |-> 5]
                     [] OTHER -> [invocationId |-> 3]
      BY <1>4 DEF Places
    <2>3. /\ DOMAIN Fields[kind] = {"invocationId", "result", "error"}
          /\ Fields[kind]["result"] = "value?" /\ Fields[kind]["error"] = "string?"
      BY <1>4, FieldsOfKinds
    <2> HIDE DEF rk
    <2>4. CASE rk = 1
      <3>1. /\ DOMAIN places = {"invocationId", "error"}
            /\ places["invocationId"] = 3 /\ places["error"] = 5
        BY <2>2, <2>4
      <3>2. f \notin DOMAIN places => Fields[kind][f] \in Optional
        BY <2>3, <3>1 DEF Optional
      <3>3. f \in DOMAIN places => places[f] \in {3, 5}
        BY <3>1
      <3>4. Len(items) = 5
        BY <2>1, <2>4
      <3> QED BY <3>2, <3>3, <3>4
    <2>5. CASE rk = 2
      <3>1. DOMAIN places = {"invocationId"} /\ places["invocationId"] = 3
        BY <2>2, <2>5
      <3>2. f \notin DOMAIN places => Fields[kind][f] \in Optional
        BY <2>3, <3>1 DEF Optional
      <3>3. f \in DOMAIN places => places[f] = 3
        BY <3>1
      <3>4. Len(items) = 4
        BY <2>1, <2>5
      <3>5. f \in DOMAIN places => places[f] \in Nat \ {0} /\ ~(places[f] > Len(items))
        BY <3>3, <3>4
      <3> QED BY <3>2, <3>5
    <2>6. CASE rk = 3
      <3>1. /\ DOMAIN places = {"invocationId", "result"}
            /\ places["invocationId"] = 3 /\ places["result"] = 5
        BY <2>2, <2>6
      <3>2. f \notin DOMAIN places => Fields[kind][f] \in Optional
        BY <2>3, <3>1 DEF Optional
      <3>3. f \in DOMAIN places => places[f] \in {3, 5}
        BY <3>1
      <3>4. Len(items) = 5
        BY <2>1, <2>6
      <3> QED BY <3>2, <3>3, <3>4
    <2>7. rk = 1 \/ rk = 2 \/ rk = 3
      BY <2>1
    <2> HIDE DEF G
    <2> QED BY <2>4, <2>5, <2>6, <2>7
  <1>5. CASE kind = "CancelInvocation"
    <2>1. Len(items) = 3 /\ places = [invocationId |-> 3]
      BY <1>5 DEF Counts, Places
    <2>2. DOMAIN Fields[kind] = {"invocationId"}
      BY <1>5, FieldsOfKinds
    <2>3. f \in DOMAIN places /\ places[f] = 3
      BY <2>1, <2>2
    <2> QED BY <2>1, <2>3
  <1>6. CASE kind = "Ping"
    BY <1>6, FieldsOfKinds
  <1>7. CASE kind = "Close"
    <2>1. places = [error |-> 2, allowReconnect |-> 3]
      BY <1>7 DEF Places
    <2>2. /\ DOMAIN Fields[kind] = {"error", "allowReconnect"}
          /\ Fields[kind]["error"] = "string?" /\ Fields[kind]["allowReconnect"] = "bool?"
      BY <1>7, FieldsOfKinds
    <2>3. TypeAt(kind, "error") = "string?" /\ TypeAt(kind, "allowReconnect") = "bool?"
      BY <1>7, <2>2 DEF TypeAt
    <2> QED BY <2>1, <2>2, <2>3 DEF Optional
  <1> QED BY <1>2, <1>3, <1>4, <1>5, <1>6, <1>7 DEF AllKinds

\* The type a field has where it is found is the type of the field.
LEMMA TypeAtFits ==
  ASSUME NEW kind \in AllKinds, NEW f \in DOMAIN Fields[kind]
  PROVE  /\ TypeAt(kind, f) \in Optional => Fields[kind][f] \in Optional
         /\ \A v : IsA(v, TypeAt(kind, f)) => IsA(v, Fields[kind][f])
  <1>1. CASE kind = "Completion" /\ f = "error"
    <2>1. TypeAt(kind, f) = "string" /\ Fields[kind][f] = "string?"
      BY <1>1, FieldsOfKinds DEF TypeAt
    <2> QED BY <2>1 DEF IsA, Optional
  <1>2. CASE kind = "Completion" /\ f = "result"
    <2>1. TypeAt(kind, f) = "value" /\ Fields[kind][f] = "value?"
      BY <1>2, FieldsOfKinds DEF TypeAt
    <2> QED BY <2>1 DEF IsA, Optional
  <1>3. CASE ~(kind = "Completion" /\ f \in {"error", "result"})
    BY <1>3 DEF TypeAt
  <1> QED BY <1>1, <1>2, <1>3

LEMMA MsgPackItemsWhole ==
  ASSUME NEW kind \in AllKinds, NEW items \in Seq(MsgPack), FromMsgPackItems(kind, items) # <<>>
  PROVE  \E m : FromMsgPackItems(kind, items) = <<m>> /\ Whole(m)
  <1> DEFINE F == DOMAIN Fields[kind]
             places == Places(kind, items)
             found == [f \in DOMAIN places |-> MsgPackField(items, places[f], TypeAt(kind, f))]
             b == [f \in F |-> IF f \in DOMAIN found THEN found[f][1] ELSE <<>>]
             m == [kind |-> kind, body |-> b]
  <1>1. /\ Len(items) \in Counts(kind, items)
        /\ ~(\E f \in DOMAIN found : found[f] = <<>>)
        /\ FromMsgPackItems(kind, items) = <<m>>
    BY DEF FromMsgPackItems
  <1>2. DOMAIN found = DOMAIN places
    OBVIOUS
  <1>3. \A f \in DOMAIN places : found[f] = MsgPackField(items, places[f], TypeAt(kind, f))
    OBVIOUS
  <1>4. \A f \in F : b[f] = IF f \in DOMAIN found THEN found[f][1] ELSE <<>>
    OBVIOUS
  <1>5. b = [f \in F |-> b[f]]
    OBVIOUS
  <1>6. m = [kind |-> m.kind, body |-> m.body] /\ m.kind = kind /\ m.body = b
    OBVIOUS
  <1>7. \A f \in F : /\ f \notin DOMAIN places => Fields[kind][f] \in Optional
                     /\ f \in DOMAIN places =>
                            /\ places[f] \in Nat \ {0}
                            /\ places[f] > Len(items) => TypeAt(kind, f) \in Optional
    BY <1>1, PlacesFacts
  <1> HIDE DEF m, b, found, places
  <1>8. ASSUME NEW f \in F
        PROVE  /\ b[f] \in Option(Json)
               /\ IF b[f] = <<>> THEN Fields[kind][f] \in Optional ELSE IsA(b[f][1], Fields[kind][f])
    <2>1. CASE f \notin DOMAIN places
      <3>1. b[f] = <<>>
        BY <1>2, <1>4, <2>1
      <3> QED BY <1>7, <2>1, <3>1 DEF Option
    <2>2. CASE f \in DOMAIN places
      <3> DEFINE at == TypeAt(kind, f)
      <3>1. b[f] = MsgPackField(items, places[f], at)[1] /\ MsgPackField(items, places[f], at) # <<>>
        BY <1>1, <1>2, <1>3, <1>4, <2>2
      <3>2. places[f] \in Nat \ {0} /\ (places[f] > Len(items) => at \in Optional)
        BY <1>7, <2>2
      <3> HIDE DEF at
      <3>3. /\ b[f] \in Option(Json)
            /\ IF b[f] = <<>> THEN at \in Optional ELSE IsA(b[f][1], at)
        BY <3>1, <3>2, MsgPackFieldTyped
      <3> QED BY <3>3, TypeAtFits DEF at
    <2> QED BY <2>1, <2>2
  <1>9. b \in [F -> Option(Json)] /\ DOMAIN b = F
    BY <1>5, <1>8
  <1>10. Conforms(m)
    BY <1>6, <1>8, <1>9, KindsFacts DEF Conforms
  <1>11. Whole(m)
    BY <1>6, <1>9, <1>10 DEF Whole
  <1> QED BY <1>1, <1>11

LEMMA MsgPackParsesWhole ==
  ASSUME NEW body,
         Len(body) = 1 /\ body[1].t = "array" => body[1].items \in Seq(MsgPack)
  PROVE  \/ FromMsgPackBody(body) = <<>>
         \/ FromMsgPackBody(body) = <<FromMsgPackBody(body)[1]>> /\ Whole(FromMsgPackBody(body)[1])
  <1> SUFFICES ASSUME FromMsgPackBody(body) # <<>>
               PROVE  \E m : FromMsgPackBody(body) = <<m>> /\ Whole(m)
    OBVIOUS
  <1> DEFINE items == body[1].items
             kind == Kinds[items[1].n]
  <1>1. Len(body) = 1 /\ body[1].t = "array" /\ items[1].n \in DOMAIN Kinds
    BY DEF FromMsgPackBody
  <1>2. FromMsgPackBody(body) = FromMsgPackItems(kind, items)
    BY DEF FromMsgPackBody
  <1>3. items \in Seq(MsgPack)
    BY <1>1
  <1>4. kind \in AllKinds
    BY <1>1, KindsFacts DEF AllKinds
  <1> HIDE DEF items, kind
  <1> QED BY <1>2, <1>3, <1>4, MsgPackItemsWhole

----------------------------------------------------------------------------
\* The inductive invariant.

\* What is on the wire, as it will be parsed
Decoded == IF protocol = "json" THEN FromJson(wire) ELSE FromMsgPackBody(wire)

OneWhole(opt) == opt = <<opt[1]>> /\ Whole(opt[1])

\* What of a field that was given is lost on the way
LostSince(f, was, hops) ==
    \/ f = "streamIds" /\ was = <<Arr(<<>>)>> /\ Contains(hops, "messagepack")
    \/ f = "result" /\ was = <<Null>> /\ Contains(hops, "json")

Kept(m, given, hops) ==
    /\ m.kind = given.kind
    /\ \A f \in DOMAIN given.body :
           m.body[f] = IF LostSince(f, given.body[f], hops) THEN <<>> ELSE given.body[f]

\* A text or body of a client, not yet parsed
Arrived ==
    /\ stage = "received" /\ message = <<>> /\ first = <<>> /\ crossed = <<>>
    /\ \/ protocol = "json" /\ wire \in Texts
       \/ protocol = "messagepack" /\ wire \in Bodies

\* A message on its way, that will be parsed as what it was
Relaying ==
    /\ stage = "received" /\ OneWhole(message) /\ OneWhole(first) /\ OneWhole(Decoded)
    /\ Kept(Decoded[1], first[1], crossed)

Parsed ==
    /\ stage = "parsed" /\ OneWhole(message) /\ OneWhole(first)
    /\ Kept(message[1], first[1], crossed)

Refused == stage = "invalid" /\ message = <<>> /\ first = <<>>

Unsent ==
    /\ stage = "unsendable" /\ OneWhole(message) /\ OneWhole(first)
    /\ crossed # <<>> /\ Last(crossed) = "messagepack" /\ first[1].kind = "Completion"
    /\ first[1].body.result # <<>> /\ first[1].body.error # <<>>

IInv ==
    /\ protocol \in {"json", "messagepack"}
    /\ crossed \in Seq({"json", "messagepack"})
    /\ Arrived \/ Relaying \/ Parsed \/ Refused \/ Unsent

\* Sending a message on loses of it what the protocol loses, and no more.
LEMMA KeptRelayed ==
  ASSUME NEW m, Whole(m), NEW given, Whole(given),
         NEW hops \in Seq({"json", "messagepack"}), NEW p \in {"json", "messagepack"},
         Kept(m, given, hops)
  PROVE  Kept(Relayed(m, p), given, Append(hops, p))
  <1> DEFINE F == DOMAIN Fields[m.kind]
             r == Relayed(m, p)
             after == Append(hops, p)
  <1>1. m.kind = given.kind /\ DOMAIN given.body = F
    BY DEF Kept, Whole
  <1>2. r.kind = m.kind
        /\ \A f \in F : r.body[f] = IF LostIn(p, f, m.body[f]) THEN <<>> ELSE m.body[f]
    BY DEF Relayed
  <1>3. \A q : Contains(after, q) <=> Contains(hops, q) \/ p = q
    <2>1. Len(after) = Len(hops) + 1 /\ Len(hops) \in Nat
      BY AppendProperties
    <2>2. after[Len(hops) + 1] = p /\ \A i \in 1..Len(hops) : after[i] = hops[i]
      BY AppendProperties
    <2> HIDE DEF after
    <2>3. ASSUME NEW q, Contains(after, q) PROVE Contains(hops, q) \/ p = q
      <3>1. PICK i \in 1..Len(after) : after[i] = q
        BY <2>3 DEF Contains
      <3>2. i \in 1..Len(hops) \/ i = Len(hops) + 1
        BY <2>1
      <3> QED BY <2>2, <3>1, <3>2 DEF Contains
    <2>4. ASSUME NEW q, Contains(hops, q) \/ p = q PROVE Contains(after, q)
      <3>1. CASE Contains(hops, q)
        <4>1. PICK i \in 1..Len(hops) : hops[i] = q
          BY <3>1 DEF Contains
        <4>2. i \in 1..Len(after)
          BY <2>1
        <4> QED BY <2>2, <4>1, <4>2 DEF Contains
      <3>2. CASE p = q
        <4>1. Len(hops) + 1 \in 1..Len(after)
          BY <2>1
        <4> QED BY <2>2, <3>2, <4>1 DEF Contains
      <3> QED BY <2>4, <3>1, <3>2
    <2> QED BY <2>3, <2>4
  <1>4. ASSUME NEW f, NEW was
        PROVE  LostSince(f, was, after) <=> LostSince(f, was, hops) \/ LostIn(p, f, was)
    <2>1. /\ Contains(after, "json") <=> Contains(hops, "json") \/ p = "json"
          /\ Contains(after, "messagepack") <=> Contains(hops, "messagepack") \/ p = "messagepack"
      BY <1>3
    <2> HIDE DEF after
    <2> QED BY <2>1 DEF LostSince, LostIn
  <1> HIDE DEF r, after, F
  <1>5. ASSUME NEW f \in DOMAIN given.body
        PROVE  r.body[f] = IF LostSince(f, given.body[f], after) THEN <<>> ELSE given.body[f]
    <2> DEFINE was == given.body[f]
               now == m.body[f]
    <2>1. now = IF LostSince(f, was, hops) THEN <<>> ELSE was
      BY DEF Kept
    <2>2. r.body[f] = IF LostIn(p, f, now) THEN <<>> ELSE now
      BY <1>1, <1>2
    <2>3. LostSince(f, was, after) <=> LostSince(f, was, hops) \/ LostIn(p, f, was)
      BY <1>4
    <2> HIDE DEF was, now
    <2>4. CASE LostSince(f, was, hops)
      BY <2>1, <2>2, <2>3, <2>4 DEF was
    <2>5. CASE ~LostSince(f, was, hops)
      BY <2>1, <2>2, <2>3, <2>5 DEF was
    <2> QED BY <2>4, <2>5
  <1>6. r.kind = given.kind
    BY <1>1, <1>2
  <1> QED BY <1>5, <1>6 DEF Kept, r, after

LEMMA InitInv == ASSUME Init PROVE IInv
  BY DEF Init, IInv, Arrived

LEMMA ParseInv == ASSUME IInv, Parse PROVE IInv'
  <1>1. /\ stage = "received" /\ message' = Decoded
        /\ stage' = IF message' = <<>> THEN "invalid" ELSE "parsed"
        /\ first' = IF first = <<>> THEN message' ELSE first
        /\ protocol' = protocol /\ wire' = wire /\ crossed' = crossed
    BY DEF Parse, Decoded
  <1>2. protocol' \in {"json", "messagepack"} /\ crossed' \in Seq({"json", "messagepack"})
    BY <1>1 DEF IInv
  <1>3. CASE Arrived
    <2>1. Decoded = <<>> \/ OneWhole(Decoded)
      <3>1. CASE protocol = "json" /\ wire \in Texts
        <4>1. Decoded = FromJson(wire)
          BY <3>1 DEF Decoded
        <4>2. Len(wire) = 1 /\ wire[1].t = "obj" =>
                  wire[1].fields \in [DOMAIN wire[1].fields -> Json]
          BY <3>1, TextsHoldValues
        <4> QED BY <4>1, <4>2, JsonParsesWhole DEF OneWhole
      <3>2. CASE protocol = "messagepack" /\ wire \in Bodies
        <4>1. Decoded = FromMsgPackBody(wire)
          BY <3>2 DEF Decoded
        <4>2. Len(wire) = 1 /\ wire[1].t = "array" => wire[1].items \in Seq(MsgPack)
          BY <3>2, BodiesHoldValues
        <4> QED BY <4>1, <4>2, MsgPackParsesWhole DEF OneWhole
      <3> QED BY <1>3, <3>1, <3>2 DEF Arrived
    <2>2. first' = message' /\ crossed' = <<>>
      BY <1>1, <1>3 DEF Arrived
    <2>3. CASE Decoded = <<>>
      BY <1>1, <1>2, <2>2, <2>3 DEF IInv, Refused
    <2>4. CASE Decoded # <<>>
      <3>1. OneWhole(message') /\ OneWhole(first') /\ stage' = "parsed"
        BY <1>1, <2>1, <2>2, <2>4
      <3>2. \A q : ~Contains(<<>>, q)
        BY DEF Contains
      <3>3. Kept(message'[1], first'[1], crossed')
        BY <2>2, <3>2 DEF Kept, LostSince
      <3> QED BY <1>2, <3>1, <3>3 DEF IInv, Parsed
    <2> QED BY <2>3, <2>4
  <1>4. CASE Relaying
    <2>1. OneWhole(Decoded) /\ Decoded # <<>> /\ first # <<>> /\ OneWhole(first)
      BY <1>4 DEF Relaying, OneWhole
    <2>2. stage' = "parsed" /\ first' = first /\ message' = Decoded /\ crossed' = crossed
      BY <1>1, <2>1
    <2>3. Kept(message'[1], first'[1], crossed')
      BY <1>4, <2>2 DEF Relaying
    <2> QED BY <1>2, <2>1, <2>2, <2>3 DEF IInv, Parsed
  <1> QED BY <1>1, <1>3, <1>4 DEF IInv, Parsed, Refused, Unsent

LEMMA SendInv ==
  ASSUME IInv, NEW p \in {"json", "messagepack"}, Send(p) PROVE IInv'
  <1> DEFINE m == message[1]
             given == first[1]
             after == Append(crossed, p)
  <1>1. /\ stage = "parsed" /\ protocol' = p /\ crossed' = after
        /\ wire' = IF p = "json" THEN ToJson(m) ELSE ToMsgPackBody(m)
        /\ stage' = IF wire' = <<>> THEN "unsendable" ELSE "received"
        /\ message' = message /\ first' = first
    BY DEF Send
  <1>2. OneWhole(message) /\ OneWhole(first) /\ Kept(m, given, crossed)
    BY <1>1 DEF IInv, Arrived, Relaying, Parsed, Refused, Unsent
  <1>3. Whole(m) /\ Whole(given)
    BY <1>2 DEF OneWhole
  <1>4. crossed \in Seq({"json", "messagepack"})
    BY DEF IInv
  <1>5. after \in Seq({"json", "messagepack"}) /\ after # <<>> /\ Last(after) = p
    <2>1. /\ after \in Seq({"json", "messagepack"}) /\ Len(after) = Len(crossed) + 1
          /\ after[Len(crossed) + 1] = p
      BY <1>4, AppendProperties
    <2>2. Len(crossed) \in Nat
      BY <1>4
    <2> HIDE DEF after
    <2> QED BY <2>1, <2>2 DEF Last
  <1>6. Kept(Relayed(m, p), given, after)
    BY <1>2, <1>3, <1>4, KeptRelayed
  <1>7. Whole(Relayed(m, p))
    BY <1>3, RelayedWhole
  <1>8. protocol' \in {"json", "messagepack"} /\ crossed' \in Seq({"json", "messagepack"})
    BY <1>1, <1>5
  <1>9. OneWhole(message') /\ OneWhole(first')
    BY <1>1, <1>2
  <1> HIDE DEF m, after
  <1>10. ASSUME wire' # <<>>, Decoded' = <<Relayed(m, p)>> PROVE IInv'
    <2>1. Decoded'[1] = Relayed(m, p)
      BY <1>10
    <2>2. OneWhole(Decoded')
      BY <1>7, <1>10, <2>1 DEF OneWhole
    <2>3. Kept(Decoded'[1], first'[1], crossed')
      BY <1>1, <1>6, <2>1
    <2>4. stage' = "received"
      BY <1>1, <1>10
    <2> QED BY <1>8, <1>9, <2>2, <2>3, <2>4 DEF IInv, Relaying
  <1>11. CASE p = "json"
    <2>1. wire' = ToJson(m) /\ Decoded' = FromJson(wire')
      BY <1>1, <1>11 DEF Decoded
    <2>2. Decoded' = <<Relayed(m, p)>>
      BY <1>3, <1>11, <2>1, JsonRelay
    <2>3. wire' # <<>>
      BY <2>1 DEF ToJson
    <2> QED BY <1>10, <2>2, <2>3
  <1>12. CASE p = "messagepack"
    <2>1. wire' = ToMsgPackBody(m) /\ Decoded' = FromMsgPackBody(wire')
      BY <1>1, <1>12 DEF Decoded
    <2>2. CASE m.kind = "Completion" /\ m.body.result # <<>> /\ m.body.error # <<>>
      <3>1. wire' = <<>>
        BY <1>3, <2>1, <2>2, MsgPackRelay
      <3>2. stage' = "unsendable"
        BY <1>1, <3>1
      <3>3. given.kind = "Completion" /\ DOMAIN given.body = {"invocationId", "result", "error"}
        BY <1>2, <1>3, <2>2, FieldsOfKinds DEF Kept, Whole
      <3>4. given.body.result # <<>> /\ given.body.error # <<>>
        BY <1>2, <2>2, <3>3 DEF Kept
      <3> QED BY <1>1, <1>5, <1>8, <1>9, <1>12, <3>2, <3>3, <3>4 DEF IInv, Unsent
    <2>3. CASE ~(m.kind = "Completion" /\ m.body.result # <<>> /\ m.body.error # <<>>)
      <3>1. ToMsgPackBody(m) # <<>> /\ FromMsgPackBody(ToMsgPackBody(m)) = <<Relayed(m, p)>>
        BY <1>3, <1>12, <2>3, MsgPackRelay
      <3> QED BY <1>10, <2>1, <3>1
    <2> QED BY <2>2, <2>3
  <1> QED BY <1>11, <1>12

LEMMA StutterInv == ASSUME IInv, UNCHANGED vars PROVE IInv'
  BY DEF vars, IInv, Arrived, Relaying, Parsed, Refused, Unsent, Decoded

\* The bytes on the wire, once they come from a codec of the server, are parsed
\* as a message that differs from the first only in what MeaningKept allows.
THEOREM Invariance == Spec => []IInv
  <1>1. Init => IInv
    BY InitInv
  <1>2. IInv /\ [Next]_vars => IInv'
    BY ParseInv, SendInv, StutterInv DEF Next
  <1> QED BY <1>1, <1>2, PTL DEF Spec

----------------------------------------------------------------------------
\* Every message that was parsed conforms to its kind, in whatever order the two
\* protocols were crossed: nothing a codec writes is read back as something else.
THEOREM TypeCorrect == Spec => []TypeOK
  <1>1. IInv => TypeOK
    <2> SUFFICES ASSUME IInv PROVE TypeOK
      OBVIOUS
    <2>1. ToSet(<<>>) = {}
      BY DEF ToSet
    <2>2. ASSUME NEW opt, OneWhole(opt)
          PROVE  opt # <<>> /\ \A m \in ToSet(opt) : Conforms(m)
      BY <2>2 DEF OneWhole, Whole, ToSet
    <2>3. /\ message = <<>> \/ OneWhole(message)
          /\ first = <<>> \/ OneWhole(first)
          /\ stage = "parsed" => OneWhole(message)
          /\ stage \in {"received", "parsed", "invalid", "unsendable"}
      BY DEF IInv, Arrived, Relaying, Parsed, Refused, Unsent
    <2>4. \A m \in ToSet(message) \cup ToSet(first) : Conforms(m)
      BY <2>1, <2>2, <2>3
    <2> QED BY <2>2, <2>3, <2>4 DEF IInv, TypeOK
  <1> QED BY <1>1, Invariance, PTL

\* However often a message is sent on, and in whatever mix of the two protocols,
\* it keeps its meaning.
THEOREM MeaningSurvives == Spec => []MeaningKept
  <1>1. IInv => MeaningKept
    <2> SUFFICES ASSUME IInv, stage = "parsed" PROVE MeaningKept
      BY DEF MeaningKept
    <2>1. Kept(message[1], first[1], crossed)
      BY DEF IInv, Arrived, Relaying, Parsed, Refused, Unsent
    <2> QED BY <2>1 DEF MeaningKept, Kept, LostSince
  <1> QED BY <1>1, Invariance, PTL

\* What was accepted once is accepted again, and can be sent on in either
\* protocol unless it is a completion with both a result and an error.
THEOREM StaysSendable == Spec => []AcceptedStaysSendable
  <1>1. IInv => AcceptedStaysSendable
    BY DEF IInv, Arrived, Relaying, Parsed, Refused, Unsent, AcceptedStaysSendable
  <1> QED BY <1>1, Invariance, PTL
==============================================================================
