---------------------------- MODULE CloudRpcProofs ----------------------------
(***************************************************************************)
(* Proofs about calls from end to end, for any finite sets of arguments    *)
(* and objects and any number of calls, deliveries and restarts: first     *)
(* that XML carries every plain argument unchanged and can be read; then   *)
(* that what is published can be called, that what is replied to a client  *)
(* is what the service it meant returned to this call, that every step is  *)
(* one of RpcCall, and that no request taken is forgotten.                 *)
(***************************************************************************)
EXTENDS CloudRpc, FiniteSetTheorems, WellFoundedInduction, TLAPS

------------------------------------------------------------------------------
(* Arguments and objects are nested finitely, so that what is defined by    *)
(* recursion over them exists.  Domains of solutions are extended one by     *)
(* one until nothing is left.                                                *)

LEMMA Exhausts ==
    ASSUME NEW S, IsFiniteSet(S), NEW domains, domains \subseteq SUBSET S, {} \in domains,
           \A D \in domains : D # S => \E x \in S \ D : D \cup {x} \in domains
    PROVE  S \in domains
<1> DEFINE rest == {S \ D : D \in domains}
<1>1. FiniteSubsetsOf(S) = SUBSET S BY FS_FiniteSubsetsOfFinite
<1>2. IsWellFoundedOn(StrictSubsetOrdering(S), SUBSET S)
  <2>1. IsWellFoundedOn(StrictSubsetOrdering(S), FiniteSubsetsOf(S))
    BY FS_StrictSubsetOrderingWellFounded
  <2> QED BY <2>1, <1>1
<1>3. rest \subseteq SUBSET S /\ rest # {} OBVIOUS
<1> HIDE DEF rest
<1>4. PICK T \in rest : \A U \in rest : <<U, T>> \notin StrictSubsetOrdering(S)
  BY <1>2, <1>3, WFMin
<1>5. PICK D \in domains : T = S \ D BY <1>4 DEF rest
<1>6. ASSUME D # S PROVE FALSE
  <2>1. PICK x \in S \ D : D \cup {x} \in domains BY <1>6
  <2> DEFINE U == S \ (D \cup {x})
  <2>2. U \in rest BY <2>1 DEF rest
  <2>3. U \subseteq T /\ U # T /\ U \in SUBSET S /\ T \in SUBSET S BY <1>5
  <2>4. <<U, T>> \in StrictSubsetOrdering(S) BY <2>3 DEF StrictSubsetOrdering
  <2> QED BY <2>2, <2>4, <1>4
<1> QED BY <1>6

Nested(a) == {a.members[i] : i \in DOMAIN a.members}
Closed(D) == \A a \in D : Nested(a) \subseteq D

LEMMA InnermostLeft == ASSUME NEW D \in SUBSET Args, D # Args
                       PROVE  \E a \in Args \ D : Nested(a) \subseteq D
<1>1. PICK a \in Args \ D : \A i \in DOMAIN a.members : a.members[i] \notin Args \ D
  BY ArgsAssumption
<1>2. a.members \in Seq(Args) BY ArgsAssumption
<1>3. \A i \in DOMAIN a.members : a.members[i] \in Args BY <1>2
<1> QED BY <1>1, <1>3 DEF Nested

LEMMA ArgInduction == ASSUME NEW S, \A a \in Args : Nested(a) \subseteq S => a \in S
                      PROVE  Args \subseteq S
<1> SUFFICES ASSUME Args \cap S # Args PROVE FALSE OBVIOUS
<1>1. PICK a \in Args \ (Args \cap S) : Nested(a) \subseteq Args \cap S BY InnermostLeft
<1> QED BY <1>1

XmlOf(f, a) ==
    [name |-> IF a.type = "scalar_array" THEN "array" ELSE a.type,
     type |-> a.sig,
     nums |-> Printed(a),
     text |-> a.text,
     children |-> [i \in DOMAIN a.members |-> f[a.members[i]]]]

LEMMA ArgToXmlIs == /\ DOMAIN ArgToXml = Args
                    /\ \A a \in Args : ArgToXml[a] = XmlOf(ArgToXml, a)
<1> DEFINE Ok(D) == Closed(D) /\ \E f : f = [a \in D |-> XmlOf(f, a)]
           domains == {D \in SUBSET Args : Ok(D)}
<1>1. {} \in domains
  <2>1. [a \in {} |-> 0] = [a \in {} |-> XmlOf([b \in {} |-> 0], a)] OBVIOUS
  <2>2. Closed({}) BY DEF Closed
  <2> QED BY <2>1, <2>2
<1>2. ASSUME NEW D \in domains, D # Args PROVE \E x \in Args \ D : D \cup {x} \in domains
  <2>1. PICK f : f = [a \in D |-> XmlOf(f, a)] OBVIOUS
  <2>2. PICK x \in Args \ D : Nested(x) \subseteq D BY <1>2, InnermostLeft
  <2> DEFINE g == [a \in D \cup {x} |-> IF a = x THEN XmlOf(f, x) ELSE f[a]]
  <2>3. Closed(D) /\ Closed(D \cup {x}) BY <2>2 DEF Closed
  <2>4. \A a \in D \cup {x} : Nested(a) \subseteq D BY <2>2, <2>3 DEF Closed
  <2>5. ASSUME NEW a \in D \cup {x} PROVE XmlOf(g, a) = XmlOf(f, a)
    <3>1. \A i \in DOMAIN a.members : a.members[i] \in D BY <2>4 DEF Nested
    <3>2. \A b \in D : g[b] = f[b] OBVIOUS
    <3> HIDE DEF g
    <3>3. [i \in DOMAIN a.members |-> g[a.members[i]]] = [i \in DOMAIN a.members |-> f[a.members[i]]]
      BY <3>1, <3>2
    <3> QED BY <3>3 DEF XmlOf
  <2>6. \A a \in D : f[a] = XmlOf(f, a) BY <2>1
  <2>7. g = [a \in D \cup {x} |-> XmlOf(f, a)] BY <2>6
  <2>8. g = [a \in D \cup {x} |-> XmlOf(g, a)] BY <2>5, <2>7
  <2> HIDE DEF g
  <2>9. Ok(D \cup {x}) BY <2>3, <2>8
  <2> QED BY <2>9
<1>3. IsFiniteSet(Args) BY ArgsAssumption
<1>4. \A D \in domains : D # Args => \E x \in Args \ D : D \cup {x} \in domains BY <1>2
<1>d. domains \subseteq SUBSET Args OBVIOUS
<1> HIDE DEF domains
<1>5. Args \in domains BY <1>1, <1>3, <1>4, <1>d, Exhausts
<1>6. \E f : f = [a \in Args |-> XmlOf(f, a)] BY <1>5 DEF domains
<1> DEFINE P(f) == f = [a \in Args |-> XmlOf(f, a)]
<1>7. P(CHOOSE f : P(f)) BY <1>6
<1>8. ArgToXml = CHOOSE f : P(f) BY DEF ArgToXml, XmlOf
<1>9. ArgToXml = [a \in Args |-> XmlOf(ArgToXml, a)] BY <1>7, <1>8
<1> QED BY <1>9

\* The same over the elements that arguments become.
ArgWith(members, e) ==
    CASE e.name = "array" -> XmlToArray(e, members)
      [] e.name = "dict_entry" -> IF Len(members) = 2
                                  THEN DictEntry(members[1], members[2]) ELSE Unset
      [] e.name = "struct" -> IF members = <<>> THEN Unset ELSE Struct(members)
      [] e.name = "variant" -> Variant(members[1])
      [] e.name \in TextTypes -> Text(e.name, Trim(e.text))
      [] e.name \in NumberTypes -> Number(e.name, e.nums[1])
      [] OTHER -> Unset
ArgOf(f, e) == ArgWith([i \in DOMAIN e.children |-> f[e.children[i]]], e)

ElementsOf(D) == {ArgToXml[a] : a \in D}

LEMMA ChildrenOf == ASSUME NEW D, Closed(D), D \subseteq Args, NEW e \in ElementsOf(D)
                    PROVE  \A i \in DOMAIN e.children : e.children[i] \in ElementsOf(D)
<1>1. PICK a \in D : e = ArgToXml[a] BY DEF ElementsOf
<1>2. e.children = [i \in DOMAIN a.members |-> ArgToXml[a.members[i]]]
  BY <1>1, ArgToXmlIs DEF XmlOf
<1>3. \A i \in DOMAIN a.members : a.members[i] \in D BY DEF Closed, Nested
<1> QED BY <1>2, <1>3 DEF ElementsOf

LEMMA XmlToArgIs == \A e \in Elements : XmlToArg[e] = ArgOf(XmlToArg, e)
<1> DEFINE Ok(D) == Closed(D) /\ \E f : f = [e \in ElementsOf(D) |-> ArgOf(f, e)]
           domains == {D \in SUBSET Args : Ok(D)}
<1>1. {} \in domains
  <2>1. [e \in {} |-> 0] = [e \in {} |-> ArgOf([b \in {} |-> 0], e)] OBVIOUS
  <2>2. Closed({}) /\ ElementsOf({}) = {} BY DEF Closed, ElementsOf
  <2> QED BY <2>1, <2>2
<1>2. ASSUME NEW D \in domains, D # Args PROVE \E x \in Args \ D : D \cup {x} \in domains
  <2>1. PICK f : f = [e \in ElementsOf(D) |-> ArgOf(f, e)] OBVIOUS
  <2>2. PICK x \in Args \ D : Nested(x) \subseteq D BY <1>2, InnermostLeft
  <2> DEFINE X == ArgToXml[x]
             g == [e \in ElementsOf(D) \cup {X} |-> IF e \in ElementsOf(D) THEN f[e] ELSE ArgOf(f, e)]
  <2>3. Closed(D) /\ Closed(D \cup {x}) BY <2>2 DEF Closed
  <2>4. ElementsOf(D \cup {x}) = ElementsOf(D) \cup {X} BY DEF ElementsOf
  <2>5. \A i \in DOMAIN X.children : X.children[i] \in ElementsOf(D)
    <3>1. X.children = [i \in DOMAIN x.members |-> ArgToXml[x.members[i]]]
      BY ArgToXmlIs DEF XmlOf
    <3>2. \A i \in DOMAIN x.members : x.members[i] \in D BY <2>2 DEF Nested
    <3> QED BY <3>1, <3>2 DEF ElementsOf
  <2>6. \A e \in ElementsOf(D) \cup {X} : \A i \in DOMAIN e.children :
           e.children[i] \in ElementsOf(D)
    BY <2>3, <2>5, ChildrenOf
  <2>7. ASSUME NEW e \in ElementsOf(D) \cup {X} PROVE ArgOf(g, e) = ArgOf(f, e)
    <3>1. \A i \in DOMAIN e.children : e.children[i] \in ElementsOf(D) BY <2>6
    <3>2. \A b \in ElementsOf(D) : g[b] = f[b] OBVIOUS
    <3> HIDE DEF g, X
    <3>3. [i \in DOMAIN e.children |-> g[e.children[i]]] = [i \in DOMAIN e.children |-> f[e.children[i]]]
      BY <3>1, <3>2
    <3> QED BY <3>3 DEF ArgOf
  <2>8. \A e \in ElementsOf(D) : f[e] = ArgOf(f, e) BY <2>1
  <2>9. g = [e \in ElementsOf(D) \cup {X} |-> ArgOf(f, e)] BY <2>8
  <2>10. g = [e \in ElementsOf(D) \cup {X} |-> ArgOf(g, e)] BY <2>7, <2>9
  <2> HIDE DEF g, X
  <2>11. Ok(D \cup {x}) BY <2>3, <2>4, <2>10
  <2> QED BY <2>11
<1>3. IsFiniteSet(Args) BY ArgsAssumption
<1>4. \A D \in domains : D # Args => \E x \in Args \ D : D \cup {x} \in domains BY <1>2
<1>d. domains \subseteq SUBSET Args OBVIOUS
<1> HIDE DEF domains
<1>5. Args \in domains BY <1>1, <1>3, <1>4, <1>d, Exhausts
<1>6. Elements = ElementsOf(Args) BY DEF Elements, ElementsOf
<1>7. \E f : f = [e \in Elements |-> ArgOf(f, e)] BY <1>5, <1>6 DEF domains
<1> DEFINE P(f) == f = [e \in Elements |-> ArgOf(f, e)]
<1>8. P(CHOOSE f : P(f)) BY <1>7
<1>9. XmlToArg = CHOOSE f : P(f) BY DEF XmlToArg, ArgOf, ArgWith
<1>10. XmlToArg = [e \in Elements |-> ArgOf(XmlToArg, e)] BY <1>8, <1>9
<1> QED BY <1>10

PlainBy(f, a) ==
    /\ a.type # "invalid"
    /\ a.text \notin {Markup, Padded}
    /\ a.type = "scalar_array" => Len(a.nums) > 1 /\ a.sig \notin {"boolean", "double"}
    /\ a.type = "array" => /\ a.members # <<>>
                           /\ Branch(a.sig) = "other" /\ a.sig \notin TextSignatures
    /\ \A i \in DOMAIN a.members : f[a.members[i]]

LEMMA PlainIs == \A a \in Args : Plain[a] = PlainBy(Plain, a)
<1> DEFINE Ok(D) == Closed(D) /\ \E f : f = [a \in D |-> PlainBy(f, a)]
           domains == {D \in SUBSET Args : Ok(D)}
<1>1. {} \in domains
  <2>1. [a \in {} |-> 0] = [a \in {} |-> PlainBy([b \in {} |-> 0], a)] OBVIOUS
  <2>2. Closed({}) BY DEF Closed
  <2> QED BY <2>1, <2>2
<1>2. ASSUME NEW D \in domains, D # Args PROVE \E x \in Args \ D : D \cup {x} \in domains
  <2>1. PICK f : f = [a \in D |-> PlainBy(f, a)] OBVIOUS
  <2>2. PICK x \in Args \ D : Nested(x) \subseteq D BY <1>2, InnermostLeft
  <2> DEFINE g == [a \in D \cup {x} |-> IF a = x THEN PlainBy(f, x) ELSE f[a]]
  <2>3. Closed(D) /\ Closed(D \cup {x}) BY <2>2 DEF Closed
  <2>4. \A a \in D \cup {x} : Nested(a) \subseteq D BY <2>2, <2>3 DEF Closed
  <2>5. ASSUME NEW a \in D \cup {x} PROVE PlainBy(g, a) = PlainBy(f, a)
    <3>1. \A i \in DOMAIN a.members : a.members[i] \in D BY <2>4 DEF Nested
    <3>2. \A b \in D : g[b] = f[b] OBVIOUS
    <3> HIDE DEF g
    <3>3. (\A i \in DOMAIN a.members : g[a.members[i]]) <=> (\A i \in DOMAIN a.members : f[a.members[i]])
      BY <3>1, <3>2
    <3> QED BY <3>3, Zenon DEF PlainBy
  <2>6. \A a \in D : f[a] = PlainBy(f, a) BY <2>1
  <2>7. g = [a \in D \cup {x} |-> PlainBy(f, a)] BY <2>6
  <2>8. g = [a \in D \cup {x} |-> PlainBy(g, a)] BY <2>5, <2>7
  <2> HIDE DEF g
  <2>9. Ok(D \cup {x}) BY <2>3, <2>8
  <2> QED BY <2>9
<1>3. IsFiniteSet(Args) BY ArgsAssumption
<1>4. \A D \in domains : D # Args => \E x \in Args \ D : D \cup {x} \in domains BY <1>2
<1>d. domains \subseteq SUBSET Args OBVIOUS
<1> HIDE DEF domains
<1>5. Args \in domains BY <1>1, <1>3, <1>4, <1>d, Exhausts
<1>6. \E f : f = [a \in Args |-> PlainBy(f, a)] BY <1>5 DEF domains
<1> DEFINE P(f) == f = [a \in Args |-> PlainBy(f, a)]
<1>7. P(CHOOSE f : P(f)) BY <1>6
<1>8. Plain = CHOOSE f : P(f) BY DEF Plain, PlainBy
<1>9. Plain = [a \in Args |-> PlainBy(Plain, a)] BY <1>7, <1>8
<1> QED BY <1>9

\* No two labels of the switch are the same: a type's name takes its own branch.
LEMMA NamesBranch == \A t \in ElementTypes : Branch(t) = t
<1> SUFFICES ASSUME NEW t \in ElementTypes PROVE Branch(t) = t OBVIOUS
<1>1. \A u \in ElementTypes : Label[u] = Label[t] => u = t
  BY DEF Label, ElementTypes, NumberTypes
<1>2. CodeSum[t] = Label[t] BY CodeSumAssumption
<1> QED BY <1>1, <1>2 DEF Branch

\* A plain argument comes out of the XML as it went in.
LEMMA RoundTrip == \A a \in Args : Plain[a] => XmlToArg[ArgToXml[a]] = a
<1> DEFINE S == {a \in Args : Plain[a] => XmlToArg[ArgToXml[a]] = a}
<1>1. ASSUME NEW a \in Args, Nested(a) \subseteq S, Plain[a] PROVE XmlToArg[ArgToXml[a]] = a
  <2> DEFINE e == ArgToXml[a]
             back == [i \in DOMAIN e.children |-> XmlToArg[e.children[i]]]
  <2>1. PlainBy(Plain, a) BY <1>1, PlainIs
  <2>2. /\ e.name = IF a.type = "scalar_array" THEN "array" ELSE a.type
        /\ e.type = a.sig /\ e.nums = Printed(a) /\ e.text = a.text
        /\ e.children = [i \in DOMAIN a.members |-> ArgToXml[a.members[i]]]
    BY ArgToXmlIs DEF XmlOf
  <2>3. a.members \in Seq(Args) /\ a.nums \in Seq(Int) /\ IsMsgArg(a) BY ArgsAssumption
  <2>4. \A i \in DOMAIN a.members : XmlToArg[ArgToXml[a.members[i]]] = a.members[i]
    BY <1>1, <2>1 DEF Nested, PlainBy
  <2>5. back = a.members
    <3>1. DOMAIN e.children = DOMAIN a.members BY <2>2
    <3>2. \A i \in DOMAIN a.members : e.children[i] = ArgToXml[a.members[i]] BY <2>2
    <3> HIDE DEF e
    <3>3. back = [i \in DOMAIN a.members |-> a.members[i]] BY <3>1, <3>2, <2>4
    <3>4. a.members = [i \in DOMAIN a.members |-> a.members[i]] BY <2>3
    <3> QED BY <3>3, <3>4
  <2>6. e \in Elements BY DEF Elements
  <2>7. XmlToArg[e] = ArgWith(a.members, e) BY <2>5, <2>6, XmlToArgIs DEF ArgOf
  <2>u. XmlToArg[ArgToXml[a]] = ArgWith(a.members, e) BY <2>7
  <2> HIDE DEF e, back
  <2>8. CASE a.type \in NumberTypes /\ a = Number(a.type, a.nums[1])
    <3>1. e.name = a.type /\ e.nums = a.nums
      BY <2>2, <2>8 DEF Printed, NumberTypes
    <3>2. ArgWith(a.members, e) = Number(a.type, a.nums[1])
      BY <3>1, <2>8 DEF ArgWith, NumberTypes, TextTypes
    <3> QED BY <3>2, <2>u, <2>8
  <2>9. CASE a.type \in TextTypes /\ a = Text(a.type, a.text)
    <3>1. e.name = a.type /\ e.text = a.text /\ Trim(a.text) = a.text
      BY <2>1, <2>2, <2>9 DEF TextTypes, Trim, PlainBy
    <3>2. ArgWith(a.members, e) = Text(a.type, a.text)
      BY <3>1, <2>9 DEF ArgWith, NumberTypes, TextTypes
    <3> QED BY <3>2, <2>u, <2>9
  <2>10. CASE a.type = "scalar_array" /\ a.sig \in ElementTypes /\ a = ScalarArray(a.sig, a.nums)
    <3>1. Len(a.nums) > 1 /\ a.sig \notin {"boolean", "double"} BY <2>1, <2>10 DEF PlainBy
    <3>2. e.name = "array" /\ e.type = a.sig /\ e.nums = a.nums
      BY <3>1, <2>2, <2>10 DEF Printed
    <3>3. Branch(a.sig) = a.sig BY <2>10, NamesBranch
    <3>s. a.nums # <<>> /\ Len(a.nums) # 1
      <4>1. Len(a.nums) \in Nat /\ Len(<<>>) = 0 BY <2>3
      <4>2. \A n \in Nat : n > 1 => n # 0 /\ n # 1 OBVIOUS
      <4> QED BY <4>1, <4>2, <3>1, Zenon
    <3>4. StringSplit(a.nums) = a.nums BY <3>s DEF StringSplit
    <3>5. ArgWith(a.members, e) = XmlToArray(e, a.members) BY <3>2 DEF ArgWith, NumberTypes, TextTypes
    <3>6. XmlToArray(e, a.members) = ScalarArray(a.sig, a.nums)
      <4>1. Branch(e.type) \in ElementTypes \ {"boolean"} /\ Branch(e.type) # "other"
        BY <3>1, <3>2, <3>3, <2>10 DEF ElementTypes, NumberTypes
      <4>2. StringSplit(e.nums) = a.nums /\ Branch(e.type) = a.sig BY <3>2, <3>3, <3>4
      <4> QED BY <4>1, <4>2 DEF XmlToArray
    <3> QED BY <3>5, <3>6, <2>u, <2>10
  <2>11. CASE a.type = "array" /\ a = GenericArray(a.sig, a.members)
    <3>1. a.members # <<>> /\ Branch(a.sig) = "other" /\ a.sig \notin TextSignatures
      BY <2>1, <2>11 DEF PlainBy
    <3>2. e.name = "array" /\ e.type = a.sig BY <2>2, <2>11
    <3>3. ArgWith(a.members, e) = XmlToArray(e, a.members) BY <3>2 DEF ArgWith, NumberTypes, TextTypes
    <3>4. XmlToArray(e, a.members) = GenericArray(a.sig, a.members)
      BY <3>1, <3>2 DEF XmlToArray, ElementTypes, NumberTypes
    <3> QED BY <3>3, <3>4, <2>u, <2>11
  <2>12. CASE a.type = "struct" /\ a.members # <<>> /\ a = Struct(a.members)
    <3>1. e.name = "struct" BY <2>2, <2>12
    <3>2. ArgWith(a.members, e) = Struct(a.members) BY <3>1, <2>12 DEF ArgWith, NumberTypes, TextTypes
    <3> QED BY <3>2, <2>u, <2>12
  <2>13. CASE a.type = "dict_entry" /\ a = DictEntry(a.members[1], a.members[2])
    <3>1. e.name = "dict_entry" BY <2>2, <2>13
    <3>2. \A key, val : DictEntry(key, val).members = <<key, val>> BY DEF DictEntry, Argument
    <3>3. Len(a.members) = 2
      <4>1. \A key, val : Len(<<key, val>>) = 2 OBVIOUS
      <4> QED BY <4>1, <3>2, <2>13
    <3>4. ArgWith(a.members, e) = DictEntry(a.members[1], a.members[2])
      BY <3>1, <3>3 DEF ArgWith, NumberTypes, TextTypes
    <3> QED BY <3>4, <2>u, <2>13
  <2>14. CASE a.type = "variant" /\ a = Variant(a.members[1])
    <3>1. e.name = "variant" BY <2>2, <2>14
    <3>2. ArgWith(a.members, e) = Variant(a.members[1]) BY <3>1 DEF ArgWith, NumberTypes, TextTypes
    <3> QED BY <3>2, <2>u, <2>14
  <2>15. a # Unset
    <3>1. Unset.type = "invalid" BY DEF Unset, Argument
    <3> QED BY <3>1, <2>1 DEF PlainBy
  <2> QED
    BY <2>3, <2>8, <2>9, <2>10, <2>11, <2>12, <2>13, <2>14, <2>15, Zenon DEF IsMsgArg
<1>2. \A a \in Args : Nested(a) \subseteq S => a \in S BY <1>1
<1> HIDE DEF S
<1>3. Args \subseteq S BY <1>2, ArgInduction
<1> QED BY <1>3 DEF S

LEMMA ListsRoundTrip == ASSUME NEW list \in Seq(Args), PlainList(list) PROVE Wire(list) = list
<1>1. \A i \in DOMAIN list : list[i] \in Args OBVIOUS
<1>2. \A i \in DOMAIN list : XmlToArg[ArgToXml[list[i]]] = list[i]
  BY <1>1, RoundTrip DEF PlainList
<1> QED BY <1>2 DEF Wire

WellFormedBy(f, e) == e.text # Markup /\ \A i \in DOMAIN e.children : f[e.children[i]]

LEMMA WellFormedIs == \A e \in Elements : WellFormed[e] = WellFormedBy(WellFormed, e)
<1> DEFINE Ok(D) == Closed(D) /\ \E f : f = [e \in ElementsOf(D) |-> WellFormedBy(f, e)]
           domains == {D \in SUBSET Args : Ok(D)}
<1>1. {} \in domains
  <2>1. [e \in {} |-> 0] = [e \in {} |-> WellFormedBy([b \in {} |-> 0], e)] OBVIOUS
  <2>2. Closed({}) /\ ElementsOf({}) = {} BY DEF Closed, ElementsOf
  <2> QED BY <2>1, <2>2
<1>2. ASSUME NEW D \in domains, D # Args PROVE \E x \in Args \ D : D \cup {x} \in domains
  <2>1. PICK f : f = [e \in ElementsOf(D) |-> WellFormedBy(f, e)] OBVIOUS
  <2>2. PICK x \in Args \ D : Nested(x) \subseteq D BY <1>2, InnermostLeft
  <2> DEFINE X == ArgToXml[x]
             g == [e \in ElementsOf(D) \cup {X} |->
                     IF e \in ElementsOf(D) THEN f[e] ELSE WellFormedBy(f, e)]
  <2>3. Closed(D) /\ Closed(D \cup {x}) BY <2>2 DEF Closed
  <2>4. ElementsOf(D \cup {x}) = ElementsOf(D) \cup {X} BY DEF ElementsOf
  <2>5. \A i \in DOMAIN X.children : X.children[i] \in ElementsOf(D)
    <3>1. X.children = [i \in DOMAIN x.members |-> ArgToXml[x.members[i]]]
      BY ArgToXmlIs DEF XmlOf
    <3>2. \A i \in DOMAIN x.members : x.members[i] \in D BY <2>2 DEF Nested
    <3> QED BY <3>1, <3>2 DEF ElementsOf
  <2>6. \A e \in ElementsOf(D) \cup {X} : \A i \in DOMAIN e.children :
           e.children[i] \in ElementsOf(D)
    BY <2>3, <2>5, ChildrenOf
  <2>7. ASSUME NEW e \in ElementsOf(D) \cup {X} PROVE WellFormedBy(g, e) = WellFormedBy(f, e)
    <3>1. \A i \in DOMAIN e.children : e.children[i] \in ElementsOf(D) BY <2>6
    <3>2. \A b \in ElementsOf(D) : g[b] = f[b] OBVIOUS
    <3> HIDE DEF g, X
    <3>3. (\A i \in DOMAIN e.children : g[e.children[i]]) <=> (\A i \in DOMAIN e.children : f[e.children[i]])
      BY <3>1, <3>2
    <3> QED BY <3>3, Zenon DEF WellFormedBy
  <2>8. \A e \in ElementsOf(D) : f[e] = WellFormedBy(f, e) BY <2>1
  <2>9. g = [e \in ElementsOf(D) \cup {X} |-> WellFormedBy(f, e)] BY <2>8
  <2>10. g = [e \in ElementsOf(D) \cup {X} |-> WellFormedBy(g, e)] BY <2>7, <2>9
  <2> HIDE DEF g, X
  <2>11. Ok(D \cup {x}) BY <2>3, <2>4, <2>10
  <2> QED BY <2>11
<1>3. IsFiniteSet(Args) BY ArgsAssumption
<1>4. \A D \in domains : D # Args => \E x \in Args \ D : D \cup {x} \in domains BY <1>2
<1>d. domains \subseteq SUBSET Args OBVIOUS
<1> HIDE DEF domains
<1>5. Args \in domains BY <1>1, <1>3, <1>4, <1>d, Exhausts
<1>6. Elements = ElementsOf(Args) BY DEF Elements, ElementsOf
<1>7. \E f : f = [e \in Elements |-> WellFormedBy(f, e)] BY <1>5, <1>6 DEF domains
<1> DEFINE P(f) == f = [e \in Elements |-> WellFormedBy(f, e)]
<1>8. P(CHOOSE f : P(f)) BY <1>7
<1>9. WellFormed = CHOOSE f : P(f) BY DEF WellFormed, WellFormedBy
<1>10. WellFormed = [e \in Elements |-> WellFormedBy(WellFormed, e)] BY <1>8, <1>9
<1> QED BY <1>10

\* What a plain argument becomes can be read: neither gateway refuses it.
LEMMA PlainIsReadable == ASSUME NEW list \in Seq(Args), PlainList(list) PROVE Readable(list)
<1> DEFINE S == {a \in Args : Plain[a] => WellFormed[ArgToXml[a]]}
<1>1. ASSUME NEW a \in Args, Nested(a) \subseteq S, Plain[a] PROVE WellFormed[ArgToXml[a]]
  <2> DEFINE e == ArgToXml[a]
  <2>1. PlainBy(Plain, a) BY <1>1, PlainIs
  <2>2. e.text = a.text /\ e.children = [i \in DOMAIN a.members |-> ArgToXml[a.members[i]]]
    BY ArgToXmlIs DEF XmlOf
  <2>3. \A i \in DOMAIN a.members : WellFormed[ArgToXml[a.members[i]]]
    BY <1>1, <2>1 DEF Nested, PlainBy
  <2>4. e \in Elements BY DEF Elements
  <2>5. WellFormed[e] = WellFormedBy(WellFormed, e) BY <2>4, WellFormedIs
  <2>6. a.text # Markup BY <2>1 DEF PlainBy
  <2> HIDE DEF e
  <2>7. WellFormedBy(WellFormed, e) BY <2>2, <2>3, <2>6 DEF WellFormedBy
  <2>8. WellFormed[e] BY <2>5, <2>7
  <2> QED BY <2>8 DEF e
<1>2. \A a \in Args : Nested(a) \subseteq S => a \in S BY <1>1
<1> HIDE DEF S
<1>3. Args \subseteq S BY <1>2, ArgInduction
<1>4. \A i \in DOMAIN list : list[i] \in Args OBVIOUS
<1> QED BY <1>3, <1>4 DEF S, Readable, PlainList

\* The tree below an object is made of objects.
TreeOf(f, o) == {o} \cup UNION {f[c] : c \in Children[o]}

LEMMA SubtreeIs == \A o \in Objects : Subtree[o] = TreeOf(Subtree, o)
<1> DEFINE Ok(D) == (\A o \in D : Children[o] \subseteq D) /\ \E f : f = [o \in D |-> TreeOf(f, o)]
           domains == {D \in SUBSET Objects : Ok(D)}
<1>1. {} \in domains
  <2>1. [o \in {} |-> 0] = [o \in {} |-> TreeOf([b \in {} |-> 0], o)] OBVIOUS
  <2> QED BY <2>1
<1>2. ASSUME NEW D \in domains, D # Objects PROVE \E x \in Objects \ D : D \cup {x} \in domains
  <2>1. PICK f : f = [o \in D |-> TreeOf(f, o)] OBVIOUS
  <2>2. PICK x \in Objects \ D : Children[x] \subseteq D
    <3>1. PICK x \in Objects \ D : Children[x] \cap (Objects \ D) = {}
      BY <1>2, CloudRpcAssumption
    <3> QED BY <3>1, CloudRpcAssumption
  <2> DEFINE g == [o \in D \cup {x} |-> IF o = x THEN TreeOf(f, x) ELSE f[o]]
  <2>3. \A o \in D \cup {x} : Children[o] \subseteq D BY <2>2
  <2>4. ASSUME NEW o \in D \cup {x} PROVE TreeOf(g, o) = TreeOf(f, o)
    <3>1. \A b \in D : g[b] = f[b] OBVIOUS
    <3> HIDE DEF g
    <3>2. {g[c] : c \in Children[o]} = {f[c] : c \in Children[o]} BY <2>3, <3>1
    <3> QED BY <3>2 DEF TreeOf
  <2>5. \A o \in D : f[o] = TreeOf(f, o) BY <2>1
  <2>6. g = [o \in D \cup {x} |-> TreeOf(f, o)] BY <2>5
  <2>7. g = [o \in D \cup {x} |-> TreeOf(g, o)] BY <2>4, <2>6
  <2> HIDE DEF g
  <2>8. Ok(D \cup {x}) BY <2>3, <2>7
  <2> QED BY <2>8
<1>3. IsFiniteSet(Objects) BY CloudRpcAssumption
<1>4. \A D \in domains : D # Objects => \E x \in Objects \ D : D \cup {x} \in domains BY <1>2
<1>d. domains \subseteq SUBSET Objects OBVIOUS
<1> HIDE DEF domains
<1>5. Objects \in domains BY <1>1, <1>3, <1>4, <1>d, Exhausts
<1>6. \E f : f = [o \in Objects |-> TreeOf(f, o)] BY <1>5 DEF domains
<1> DEFINE P(f) == f = [o \in Objects |-> TreeOf(f, o)]
<1>7. P(CHOOSE f : P(f)) BY <1>6
<1>8. Subtree = CHOOSE f : P(f) BY DEF Subtree, TreeOf
<1>9. Subtree = [o \in Objects |-> TreeOf(Subtree, o)] BY <1>7, <1>8
<1> QED BY <1>9

LEMMA SubtreeType == \A o \in Objects : Subtree[o] \subseteq Objects
<1> DEFINE S == {o \in Objects : ~(Subtree[o] \subseteq Objects)}
<1> SUFFICES ASSUME S # {} PROVE FALSE OBVIOUS
<1>1. PICK o \in S : Children[o] \cap S = {} BY CloudRpcAssumption
<1>2. Children[o] \subseteq Objects BY CloudRpcAssumption
<1>3. \A c \in Children[o] : Subtree[c] \subseteq Objects BY <1>1, <1>2
<1>4. Subtree[o] \subseteq Objects BY <1>3, SubtreeIs DEF TreeOf
<1> QED BY <1>1, <1>4

------------------------------------------------------------------------------
(* Announcements: what is described, and what is published of it, has been  *)
(* saved, whatever else is announced or given up meanwhile.                  *)

AnnounceInv ==
    /\ proxies \subseteq Objects /\ known \subseteq Objects
    /\ announcing \subseteq Services
    /\ togo \in [Services -> SUBSET Objects]
    /\ described \in [Services -> SUBSET Objects]
    /\ published \in [Services -> SUBSET Objects]
    /\ \A s \in Services : described[s] \subseteq proxies
    /\ PublishedIsCallable

LEMMA InitAnnounce == Init => AnnounceInv
  BY DEF Init, AnnounceInv, PublishedIsCallable

LEMMA StepAnnounce == AnnounceInv /\ [Next]_vars => AnnounceInv'
<1> SUFFICES ASSUME AnnounceInv, [Next]_vars PROVE AnnounceInv' OBVIOUS
<1>u. ASSUME UNCHANGED announceVars PROVE AnnounceInv'
  BY <1>u DEF announceVars, AnnounceInv, PublishedIsCallable
<1>1. ASSUME NEW id \in CallIds, MakeCall(id) \/ CallRefused(id) \/ CallTimesOut(id)
                                 \/ CallReturns(id) \/ Deliver(id)
      PROVE  AnnounceInv'
  BY <1>1, <1>u DEF MakeCall, CallRefused, CallTimesOut, CallReturns, Deliver
<1>2. CASE ReadRequest \/ RefuseRequest
  BY <1>2, <1>u DEF ReadRequest, RefuseRequest
<1>3. ASSUME NEW n \in Deliveries, Work(n) PROVE AnnounceInv'
  BY <1>3, <1>u DEF Work, CallFails, CallService, ServiceReturned
<1>4. ASSUME NEW s \in Services, Announced(s) PROVE AnnounceInv'
  <2>1. TopObjects[s] \subseteq Objects BY CloudRpcAssumption
  <2> QED BY <1>4, <2>1 DEF Announced, AnnounceInv, PublishedIsCallable
<1>5. ASSUME NEW s \in Services, PublishAnnounced(s) PROVE AnnounceInv'
  BY <1>5 DEF PublishAnnounced, AnnounceInv, PublishedIsCallable
<1>6. ASSUME NEW s \in Services, AnnounceGivesUp(s) PROVE AnnounceInv'
  BY <1>6 DEF AnnounceGivesUp, AnnounceInv, PublishedIsCallable
<1>7. ASSUME NEW s \in Services, NEW o \in togo[s], DescribeObject(s, o) PROVE AnnounceInv'
  <2>1. o \in Objects BY DEF AnnounceInv
  <2>2. Subtree[o] \subseteq Objects BY <2>1, SubtreeType
  <2> DEFINE tree == Subtree[o]
  <2>3. /\ togo' = [togo EXCEPT ![s] = @ \ {o}]
        /\ described' = [described EXCEPT ![s] = @ \cup tree]
        /\ proxies' = proxies \cup tree
        /\ UNCHANGED <<announcing, published, known>>
    BY <1>7 DEF DescribeObject, SaveProxyBusObject
  <2> HIDE DEF tree
  <2>4. tree \subseteq Objects BY <2>2 DEF tree
  <2> QED BY <2>3, <2>4 DEF AnnounceInv, PublishedIsCallable
<1>8. ASSUME NEW s \in Services, NEW o \in togo[s], SkipObject(s, o) PROVE AnnounceInv'
  BY <1>8 DEF SkipObject, AnnounceInv, PublishedIsCallable
<1>9. CASE Restart BY <1>9 DEF Restart, AnnounceInv, PublishedIsCallable
<1>10. CASE UNCHANGED vars BY <1>10, <1>u DEF vars
<1> QED BY <1>1, <1>2, <1>3, <1>4, <1>5, <1>6, <1>7, <1>8, <1>9, <1>10 DEF Next

LEMMA AnnounceInvariance == Spec => []AnnounceInv
  BY InitAnnounce, StepAnnounce, PTL DEF Spec

\* Every object a gateway has published has its proxy, for any services, any trees of
\* objects and any order of announcements, failures and restarts.
THEOREM PublishedObjectsAreCallable == Spec => []PublishedIsCallable
<1>1. AnnounceInv => PublishedIsCallable BY DEF AnnounceInv
<1> QED BY <1>1, AnnounceInvariance, PTL

------------------------------------------------------------------------------
(* Calls: every body in an answer, or about to become one, is what the      *)
(* service returned to the call that the answer is for.                      *)

IsResult(id, body) == body = EmptyBody \/ \E run \in runs : run.id = id /\ run.out = body

CallsTyped ==
    /\ stage \in [CallIds -> {"idle", "outstanding", "returned"}]
    /\ answers \in [CallIds -> SUBSET Bodies]
    /\ outcome = [id \in CallIds |-> outcome[id]]
    /\ replies = [id \in CallIds |-> replies[id]]
    /\ pending \in Seq(CallIds) /\ got \in Seq(CallIds)
    /\ \A id \in CallIds : request[id] \in Requests[id]
    /\ net \subseteq CallIds
    /\ task \in [Deliveries -> [stage : {"none", "ready", "calling", "done"}, answer : Bodies]]
    /\ restarts \in 0 .. MaxRestarts

\* The service was called with what the request became on the way.
RunsServed == \A run \in runs :
    /\ run.id \in CallIds
    /\ run.served = Served(request[run.id])
    /\ run.out \in Seq(Args)

\* Of what is on the way back, in the order in which it gets there.
TasksHoldResults == \A n \in Deliveries :
    /\ task[n].stage \in {"ready", "calling"} => n \in DOMAIN got
    /\ task[n].stage = "calling" => IsResult(got[n], task[n].answer)

AnswersAreResults == \A id \in CallIds : \A body \in answers[id] : IsResult(id, body)

RepliedResult(id, reply) ==
    reply.args = <<>> \/ \E run \in runs : run.id = id /\ reply.args = Wire(run.out)

RepliesAreResults == \A id \in CallIds :
    \/ replies[id] \in {<<>>, <<ErrorReply, ErrorReply>>}
    \/ \E reply : replies[id] = <<reply>> /\ RepliedResult(id, reply)

ResultsInv == CallsTyped /\ RunsServed /\ TasksHoldResults /\ AnswersAreResults /\ RepliesAreResults

LEMMA InitResults == Init => ResultsInv
<1> SUFFICES ASSUME Init PROVE ResultsInv OBVIOUS
<1> USE CloudRpcAssumption DEF Init, Rpc!AInit, Inbox!MInit
<1>1. CallsTyped
  <2>1. EmptyBody \in Bodies BY DEF Bodies
  <2> QED BY <2>1 DEF CallsTyped
<1>2. RunsServed /\ TasksHoldResults /\ AnswersAreResults
  BY DEF RunsServed, TasksHoldResults, AnswersAreResults
<1>3. RepliesAreResults BY DEF RepliesAreResults
<1> QED BY <1>1, <1>2, <1>3 DEF ResultsInv

\* What holds a result keeps it while nothing but runs is added to.
LEMMA ResultsStay == ASSUME runs \subseteq runs', NEW id, NEW body, IsResult(id, body)
                     PROVE  IsResult(id, body)'
  BY DEF IsResult

LEMMA RunsUnchanged == ASSUME RunsServed, UNCHANGED <<runs, request>> PROVE RunsServed'
  BY DEF RunsServed, Served, CalledAddr

LEMMA RepliesUnchanged == ASSUME RepliesAreResults, runs \subseteq runs', UNCHANGED replies
                          PROVE  RepliesAreResults'
<1>1. \A id, reply : RepliedResult(id, reply) => RepliedResult(id, reply)'
  BY DEF RepliedResult
<1> QED BY <1>1 DEF RepliesAreResults

LEMMA TasksUnchanged == ASSUME TasksHoldResults, runs \subseteq runs', UNCHANGED <<task, got>>
                        PROVE  TasksHoldResults'
  BY ResultsStay DEF TasksHoldResults

LEMMA AnswersUnchanged == ASSUME AnswersAreResults, runs \subseteq runs', UNCHANGED answers
                          PROVE  AnswersAreResults'
  BY ResultsStay DEF AnswersAreResults

\* An answer may be sent with what is a result, or with nothing.
LEMMA AnswerKeeps == ASSUME CallsTyped, AnswersAreResults, runs \subseteq runs',
                            NEW id \in CallIds, NEW body \in Bodies, IsResult(id, body),
                            SendAnswer(id, body)
                     PROVE  /\ AnswersAreResults'
                            /\ answers' \in [CallIds -> SUBSET Bodies]
                            /\ UNCHANGED <<stage, outcome>>
<1>1. answers' = [answers EXCEPT ![id] = @ \cup {body}] /\ UNCHANGED <<stage, outcome>>
  BY DEF SendAnswer, Rpc!Answer
<1>2. answers \in [CallIds -> SUBSET Bodies] BY DEF CallsTyped
<1>3. ASSUME NEW id1 \in CallIds, NEW b \in answers'[id1] PROVE IsResult(id1, b)'
  <2>1. b \in answers[id1] \/ (id1 = id /\ b = body) BY <1>1, <1>2
  <2> QED BY <2>1, ResultsStay DEF AnswersAreResults
<1> QED BY <1>1, <1>2, <1>3 DEF AnswersAreResults

\* The calling gateway: MakeCall, CallRefused, CallTimesOut.
LEMMA ErrorKeeps == ASSUME ResultsInv, NEW id \in CallIds, ReplyErrorTwice(id), UNCHANGED runs
                    PROVE  RepliesAreResults' /\ replies' = [i \in CallIds |-> replies'[i]]
<1>1. replies = [i \in CallIds |-> replies[i]] BY DEF ResultsInv, CallsTyped
<1>2. replies' = [replies EXCEPT ![id] = <<ErrorReply, ErrorReply>>] BY DEF ReplyErrorTwice
<1>3. \A i \in CallIds : replies'[i] = IF i = id THEN <<ErrorReply, ErrorReply>> ELSE replies[i]
  BY <1>1, <1>2
<1>4. \A i, reply : RepliedResult(i, reply) => RepliedResult(i, reply)' BY DEF RepliedResult
<1>5. replies' = [i \in CallIds |-> replies'[i]] BY <1>1, <1>2
<1> QED BY <1>3, <1>4, <1>5 DEF RepliesAreResults, ResultsInv

LEMMA ReturnsError ==
    ASSUME ResultsInv, NEW id \in CallIds, CallRefused(id) \/ CallTimesOut(id)
    PROVE  ResultsInv'
<1>1. /\ stage' = [stage EXCEPT ![id] = "returned"]
      /\ \E r : outcome' = [outcome EXCEPT ![id] = r]
      /\ ReplyErrorTwice(id)
      /\ UNCHANGED <<answers, pending, got, request, net, task, runs, restarts>>
  BY DEF CallRefused, CallTimesOut, Rpc!Refuse, Rpc!GiveUp, Rpc!Return, inboxVars
<1>2. RepliesAreResults' /\ replies' = [i \in CallIds |-> replies'[i]] BY <1>1, ErrorKeeps
<1>3. CallsTyped'
  <2>1. outcome' = [i \in CallIds |-> outcome'[i]] BY <1>1 DEF ResultsInv, CallsTyped
  <2> QED BY <1>1, <1>2, <2>1 DEF ResultsInv, CallsTyped
<1>4. RunsServed' BY <1>1, RunsUnchanged DEF ResultsInv
<1>5. TasksHoldResults' BY <1>1, TasksUnchanged DEF ResultsInv
<1>6. AnswersAreResults' BY <1>1, AnswersUnchanged DEF ResultsInv
<1> QED BY <1>2, <1>3, <1>4, <1>5, <1>6 DEF ResultsInv

LEMMA MakeCallKeeps == ASSUME ResultsInv, NEW id \in CallIds, MakeCall(id) PROVE ResultsInv'
<1>1. /\ stage' = [stage EXCEPT ![id] = "outstanding"]
      /\ net' = net \cup {id}
      /\ UNCHANGED <<answers, outcome, replies, pending, got, request, task, runs, restarts>>
  BY DEF MakeCall, Rpc!Invoke, inboxVars
<1>2. CallsTyped' BY <1>1 DEF ResultsInv, CallsTyped
<1>3. RunsServed' BY <1>1, RunsUnchanged DEF ResultsInv
<1>4. TasksHoldResults' BY <1>1, TasksUnchanged DEF ResultsInv
<1>5. AnswersAreResults' BY <1>1, AnswersUnchanged DEF ResultsInv
<1>6. RepliesAreResults' BY <1>1, RepliesUnchanged DEF ResultsInv
<1> QED BY <1>2, <1>3, <1>4, <1>5, <1>6 DEF ResultsInv

\* A call that returns an answer replies what its own service returned.
LEMMA CallReturnsKeeps == ASSUME ResultsInv, NEW id \in CallIds, CallReturns(id)
                          PROVE  ResultsInv'
<1>1. /\ Rpc!Succeed(id)
      /\ replies' = [replies EXCEPT ![id] = <<Reply(outcome'[id].result)>>]
      /\ UNCHANGED <<answers, pending, got, request, net, task, runs, restarts>>
  BY DEF CallReturns, Rpc!Succeed, inboxVars
<1>2. PICK result :
        /\ stage' = [stage EXCEPT ![id] = "returned"]
        /\ outcome' = [outcome EXCEPT ![id] = [status |-> "IC_OK", result |-> result]]
        /\ \/ result = NoAnswer
           \/ \E body \in answers[id] \ {EmptyBody} :
                result = [peer |-> callee[id], id |-> id, body |-> body]
  BY <1>1 DEF Rpc!Succeed, Rpc!Return
<1>3. outcome' = [i \in CallIds |-> outcome'[i]] /\ outcome'[id].result = result
  BY <1>2 DEF ResultsInv, CallsTyped
<1>4. RepliedResult(id, Reply(result))
  <2>1. CASE result = NoAnswer BY <2>1 DEF Reply, RepliedResult
  <2>2. CASE result # NoAnswer
    <3>1. PICK body \in answers[id] \ {EmptyBody} : result.body = body BY <1>2, <2>2
    <3>2. IsResult(id, body) BY <3>1 DEF ResultsInv, AnswersAreResults
    <3>3. PICK run \in runs : run.id = id /\ run.out = body BY <3>1, <3>2 DEF IsResult
    <3>4. Reply(result).args \in {<<>>, Wire(result.body)} BY <2>2 DEF Reply, ErrorReply
    <3> QED BY <3>1, <3>3, <3>4 DEF RepliedResult
  <2> QED BY <2>1, <2>2
<1>5. RepliesAreResults' /\ replies' = [i \in CallIds |-> replies'[i]]
  <2> DEFINE reply == Reply(result)
  <2>1. replies' = [replies EXCEPT ![id] = <<reply>>] BY <1>1, <1>3
  <2>2. RepliedResult(id, reply) BY <1>4
  <2> HIDE DEF reply
  <2>3. replies = [i \in CallIds |-> replies[i]] BY DEF ResultsInv, CallsTyped
  <2>4. \A i \in CallIds : replies'[i] = IF i = id THEN <<reply>> ELSE replies[i] BY <2>1, <2>3
  <2>5. \A i, r : RepliedResult(i, r) => RepliedResult(i, r)' BY <1>1 DEF RepliedResult
  <2>6. replies' = [i \in CallIds |-> replies'[i]] BY <2>1, <2>3
  <2> QED BY <2>2, <2>4, <2>5, <2>6 DEF RepliesAreResults, ResultsInv
<1>6. CallsTyped' BY <1>1, <1>2, <1>3, <1>5 DEF ResultsInv, CallsTyped
<1>7. RunsServed' BY <1>1, RunsUnchanged DEF ResultsInv
<1>8. TasksHoldResults' BY <1>1, TasksUnchanged DEF ResultsInv
<1>9. AnswersAreResults' BY <1>1, AnswersUnchanged DEF ResultsInv
<1> QED BY <1>5, <1>6, <1>7, <1>8, <1>9 DEF ResultsInv

LEMMA DeliverKeeps == ASSUME ResultsInv, NEW id \in CallIds, Deliver(id) PROVE ResultsInv'
<1>1. /\ net' \subseteq net /\ pending' = Append(pending, id)
      /\ UNCHANGED <<stage, answers, outcome, got, replies, request, task, runs, restarts>>
  BY DEF Deliver, Inbox!Put, callVars
<1>2. CallsTyped' BY <1>1 DEF ResultsInv, CallsTyped
<1>3. RunsServed' BY <1>1, RunsUnchanged DEF ResultsInv
<1>4. TasksHoldResults' BY <1>1, TasksUnchanged DEF ResultsInv
<1>5. AnswersAreResults' BY <1>1, AnswersUnchanged DEF ResultsInv
<1>6. RepliesAreResults' BY <1>1, RepliesUnchanged DEF ResultsInv
<1> QED BY <1>2, <1>3, <1>4, <1>5, <1>6 DEF ResultsInv

\* What was taken before stays at its place.
LEMMA TakeKeeps == ASSUME CallsTyped, Inbox!Take
                   PROVE  /\ Head(pending) \in CallIds
                          /\ pending' \in Seq(CallIds) /\ got' \in Seq(CallIds)
                          /\ DOMAIN got \subseteq DOMAIN got' /\ Len(got) + 1 \in DOMAIN got'
                          /\ \A n \in DOMAIN got : got'[n] = got[n]
  BY DEF Inbox!Take, CallsTyped

LEMMA ReadKeeps == ASSUME ResultsInv, ReadRequest PROVE ResultsInv'
<1> DEFINE n == Len(got) + 1
<1>1. /\ Inbox!Take
      /\ task' = [task EXCEPT ![n] = [stage |-> "ready", answer |-> EmptyBody]]
      /\ UNCHANGED <<stage, answers, outcome, replies, request, net, runs, restarts>>
  BY DEF ReadRequest, SetTask, callVars
<1>2. /\ pending' \in Seq(CallIds) /\ got' \in Seq(CallIds)
      /\ DOMAIN got \subseteq DOMAIN got' /\ n \in DOMAIN got'
      /\ \A m \in DOMAIN got : got'[m] = got[m]
  BY <1>1, TakeKeeps DEF ResultsInv
<1> HIDE DEF n
<1>3. task \in [Deliveries -> [stage : {"none", "ready", "calling", "done"}, answer : Bodies]]
  BY DEF ResultsInv, CallsTyped
<1>4. CallsTyped'
  <2>1. EmptyBody \in Bodies BY DEF Bodies
  <2>2. task' \in [Deliveries -> [stage : {"none", "ready", "calling", "done"}, answer : Bodies]]
    BY <1>1, <1>3, <2>1
  <2> QED BY <1>1, <1>2, <2>2 DEF ResultsInv, CallsTyped
<1>5. TasksHoldResults'
  <2> SUFFICES ASSUME NEW m \in Deliveries
               PROVE  /\ task'[m].stage \in {"ready", "calling"} => m \in DOMAIN got'
                      /\ task'[m].stage = "calling" => IsResult(got[m], task[m].answer)'
    BY DEF TasksHoldResults
  <2>1. CASE m = n BY <2>1, <1>1, <1>2, <1>3
  <2>2. CASE m # n
    <3>1. task'[m] = task[m] BY <2>2, <1>1, <1>3
    <3> QED BY <3>1, <1>1, <1>2, ResultsStay DEF ResultsInv, TasksHoldResults
  <2> QED BY <2>1, <2>2
<1>6. RunsServed' BY <1>1, RunsUnchanged DEF ResultsInv
<1>7. AnswersAreResults' BY <1>1, AnswersUnchanged DEF ResultsInv
<1>8. RepliesAreResults' BY <1>1, RepliesUnchanged DEF ResultsInv
<1> QED BY <1>4, <1>5, <1>6, <1>7, <1>8 DEF ResultsInv

LEMMA RefuseKeeps == ASSUME ResultsInv, RefuseRequest PROVE ResultsInv'
<1>1. /\ Inbox!Take
      /\ SendAnswer(Head(pending), EmptyBody)
      /\ UNCHANGED <<replies, request, net, task, runs, restarts>>
  BY DEF RefuseRequest
<1>2. /\ Head(pending) \in CallIds
      /\ pending' \in Seq(CallIds) /\ got' \in Seq(CallIds)
      /\ DOMAIN got \subseteq DOMAIN got'
      /\ \A m \in DOMAIN got : got'[m] = got[m]
  BY <1>1, TakeKeeps DEF ResultsInv
<1>3. /\ AnswersAreResults' /\ answers' \in [CallIds -> SUBSET Bodies]
      /\ UNCHANGED <<stage, outcome>>
  <2>1. EmptyBody \in Bodies /\ IsResult(Head(pending), EmptyBody) BY DEF Bodies, IsResult
  <2> QED BY <1>1, <1>2, <2>1, AnswerKeeps DEF ResultsInv
<1>4. CallsTyped' BY <1>1, <1>2, <1>3 DEF ResultsInv, CallsTyped
<1>5. TasksHoldResults' BY <1>1, <1>2, ResultsStay DEF ResultsInv, TasksHoldResults
<1>6. RunsServed' BY <1>1, RunsUnchanged DEF ResultsInv
<1>7. RepliesAreResults' BY <1>1, RepliesUnchanged DEF ResultsInv
<1> QED BY <1>3, <1>4, <1>5, <1>6, <1>7 DEF ResultsInv

\* A step of one task: what it holds in the end is a result of its own call.
LEMMA TaskStep ==
    ASSUME ResultsInv, runs \subseteq runs', UNCHANGED got, NEW n \in Deliveries,
           NEW st \in {"calling", "done"}, NEW body \in Bodies,
           task[n].stage \in {"ready", "calling"},
           SetTask(n, st, body), st = "calling" => IsResult(got[n], body)'
    PROVE  /\ TasksHoldResults'
           /\ task' \in [Deliveries -> [stage : {"none", "ready", "calling", "done"}, answer : Bodies]]
<1>1. task \in [Deliveries -> [stage : {"none", "ready", "calling", "done"}, answer : Bodies]]
  BY DEF ResultsInv, CallsTyped
<1>2. task' = [task EXCEPT ![n] = [stage |-> st, answer |-> body]] BY DEF SetTask
<1>3. ASSUME NEW m \in Deliveries
      PROVE  /\ task'[m].stage \in {"ready", "calling"} => m \in DOMAIN got'
             /\ task'[m].stage = "calling" => IsResult(got[m], task[m].answer)'
  <2>1. CASE m = n
    <3>1. task'[m] = [stage |-> st, answer |-> body] BY <2>1, <1>1, <1>2
    <3>2. n \in DOMAIN got BY DEF ResultsInv, TasksHoldResults
    <3> QED BY <2>1, <3>1, <3>2
  <2>2. CASE m # n
    <3>1. task'[m] = task[m] BY <2>2, <1>1, <1>2
    <3> QED BY <3>1, ResultsStay DEF ResultsInv, TasksHoldResults
  <2> QED BY <2>1, <2>2
<1> QED BY <1>1, <1>2, <1>3 DEF TasksHoldResults

LEMMA WorksFor == ASSUME ResultsInv, NEW n \in Deliveries, task[n].stage \in {"ready", "calling"}
                  PROVE  n \in DOMAIN got /\ got[n] \in CallIds
  BY DEF ResultsInv, CallsTyped, TasksHoldResults

LEMMA CallFailsKeeps == ASSUME ResultsInv, NEW n \in Deliveries, CallFails(n) PROVE ResultsInv'
<1>1. /\ task[n].stage = "ready" /\ SetTask(n, "done", EmptyBody)
      /\ SendAnswer(got[n], EmptyBody)
      /\ UNCHANGED <<pending, got, replies, request, net, runs, restarts>>
  BY DEF CallFails, Id, inboxVars
<1>2. EmptyBody \in Bodies /\ IsResult(got[n], EmptyBody) BY DEF Bodies, IsResult
<1>3. TasksHoldResults'
      /\ task' \in [Deliveries -> [stage : {"none", "ready", "calling", "done"}, answer : Bodies]]
  BY <1>1, <1>2, TaskStep
<1>4. /\ AnswersAreResults' /\ answers' \in [CallIds -> SUBSET Bodies]
      /\ UNCHANGED <<stage, outcome>>
  BY <1>1, <1>2, WorksFor, AnswerKeeps DEF ResultsInv
<1>5. CallsTyped' BY <1>1, <1>3, <1>4 DEF ResultsInv, CallsTyped
<1>6. RunsServed' BY <1>1, RunsUnchanged DEF ResultsInv
<1>7. RepliesAreResults' BY <1>1, RepliesUnchanged DEF ResultsInv
<1> QED BY <1>3, <1>4, <1>5, <1>6, <1>7 DEF ResultsInv

LEMMA ServiceReturnedKeeps ==
    ASSUME ResultsInv, NEW n \in Deliveries, ServiceReturned(n) PROVE ResultsInv'
<1>1. /\ task[n].stage = "calling" /\ SetTask(n, "done", EmptyBody)
      /\ UNCHANGED <<pending, got, replies, request, net, runs, restarts>>
  BY DEF ServiceReturned, inboxVars
<1>2. PICK body \in {task[n].answer, EmptyBody} : SendAnswer(got[n], body)
  BY DEF ServiceReturned, Id
<1>3. EmptyBody \in Bodies /\ IsResult(got[n], EmptyBody) BY DEF Bodies, IsResult
<1>4. body \in Bodies /\ IsResult(got[n], body)
  BY <1>1, <1>3 DEF ResultsInv, CallsTyped, TasksHoldResults
<1>5. TasksHoldResults'
      /\ task' \in [Deliveries -> [stage : {"none", "ready", "calling", "done"}, answer : Bodies]]
  BY <1>1, <1>3, TaskStep
<1>6. /\ AnswersAreResults' /\ answers' \in [CallIds -> SUBSET Bodies]
      /\ UNCHANGED <<stage, outcome>>
  BY <1>1, <1>2, <1>4, WorksFor, AnswerKeeps DEF ResultsInv
<1>7. CallsTyped' BY <1>1, <1>5, <1>6 DEF ResultsInv, CallsTyped
<1>8. RunsServed' BY <1>1, RunsUnchanged DEF ResultsInv
<1>9. RepliesAreResults' BY <1>1, RepliesUnchanged DEF ResultsInv
<1> QED BY <1>5, <1>6, <1>7, <1>8, <1>9 DEF ResultsInv

LEMMA ReturnedType == ASSUME NEW r, NEW out \in Returned(r)
                      PROVE  out \in Seq(Args) /\ (IF out = <<>> THEN EmptyBody ELSE out) \in Bodies
<1>1. out = <<>> \/ out \in Results \/ \E v \in Values : out = <<v>> BY DEF Returned
<1>2. \A v \in Values : <<v>> \in Seq(Args) BY CloudRpcAssumption
<1>3. <<>> \in Seq(Args) OBVIOUS
<1>4. out \in Seq(Args) BY <1>1, <1>2, <1>3, CloudRpcAssumption
<1>5. CASE out = <<>> BY <1>4, <1>5 DEF Bodies
<1>6. CASE out # <<>> BY <1>1, <1>4, <1>6 DEF Bodies
<1> QED BY <1>5, <1>6

LEMMA CallServiceKeeps == ASSUME ResultsInv, NEW n \in Deliveries, CallService(n)
                          PROVE  ResultsInv'
<1> DEFINE id == got[n]
           served == Served(request[id])
<1>1. /\ task[n].stage = "ready"
      /\ UNCHANGED <<stage, answers, outcome, pending, got, replies, request, net, restarts>>
  BY DEF CallService, callVars, inboxVars
<1>2. PICK out \in Returned(request[id]) :
        /\ SetTask(n, "calling", IF out = <<>> THEN EmptyBody ELSE out)
        /\ runs' = runs \cup {[id |-> id, served |-> served, out |-> out]}
  BY DEF CallService, Id
<1>3. id \in CallIds BY <1>1, WorksFor
<1> DEFINE body == IF out = <<>> THEN EmptyBody ELSE out
<1>4. out \in Seq(Args) /\ body \in Bodies BY ReturnedType
<1>5. IsResult(got[n], body)'
  <2>1. [id |-> id, served |-> served, out |-> out] \in runs' BY <1>2
  <2>2. body = EmptyBody \/ \E run \in runs' : run.id = id /\ run.out = body BY <2>1
  <2> QED BY <1>1, <2>2 DEF IsResult
<1>6. runs \subseteq runs' /\ SetTask(n, "calling", body) BY <1>2
<1> HIDE DEF body
<1>7. TasksHoldResults'
      /\ task' \in [Deliveries -> [stage : {"none", "ready", "calling", "done"}, answer : Bodies]]
  BY <1>1, <1>4, <1>5, <1>6, TaskStep
<1>8. RunsServed'
  <2>1. \A i \in CallIds : Served(request[i])' = Served(request[i])
    BY <1>1 DEF Served, CalledAddr
  <2> HIDE DEF id, served
  <2>2. ASSUME NEW run \in runs'
        PROVE  run.id \in CallIds /\ run.served = Served(request[run.id]) /\ run.out \in Seq(Args)
    <3>1. run \in runs \/ run = [id |-> id, served |-> served, out |-> out] BY <1>2
    <3>2. CASE run \in runs BY <3>2 DEF ResultsInv, RunsServed
    <3>3. CASE run = [id |-> id, served |-> served, out |-> out]
      BY <3>3, <1>3, <1>4 DEF served
    <3> QED BY <3>1, <3>2, <3>3
  <2> QED BY <2>1, <2>2, <1>1 DEF RunsServed
<1>9. AnswersAreResults' BY <1>1, <1>6, AnswersUnchanged DEF ResultsInv
<1>10. RepliesAreResults' BY <1>1, <1>6, RepliesUnchanged DEF ResultsInv
<1>11. CallsTyped' BY <1>1, <1>7 DEF ResultsInv, CallsTyped
<1> QED BY <1>7, <1>8, <1>9, <1>10, <1>11 DEF ResultsInv

LEMMA RestartKeeps == ASSUME ResultsInv, Restart PROVE ResultsInv'
<1>1. /\ restarts < MaxRestarts /\ restarts' = restarts + 1 /\ pending' = <<>>
      /\ task' = [n \in Deliveries |-> [stage |-> "none", answer |-> EmptyBody]]
      /\ UNCHANGED <<stage, answers, outcome, got, replies, request, net, runs>>
  BY DEF Restart, callVars
<1>2. CallsTyped'
  <2>1. EmptyBody \in Bodies BY DEF Bodies
  <2> QED BY <1>1, <2>1, CloudRpcAssumption DEF ResultsInv, CallsTyped
<1>3. TasksHoldResults' BY <1>1 DEF TasksHoldResults
<1>4. RunsServed' BY <1>1, RunsUnchanged DEF ResultsInv
<1>5. AnswersAreResults' BY <1>1, AnswersUnchanged DEF ResultsInv
<1>6. RepliesAreResults' BY <1>1, RepliesUnchanged DEF ResultsInv
<1> QED BY <1>2, <1>3, <1>4, <1>5, <1>6 DEF ResultsInv

LEMMA StepResults == ResultsInv /\ [Next]_vars => ResultsInv'
<1> SUFFICES ASSUME ResultsInv, [Next]_vars PROVE ResultsInv' OBVIOUS
<1>u. ASSUME UNCHANGED <<callVars, inboxVars, request, replies, net, task, runs, restarts>>
      PROVE  ResultsInv'
  <2>1. UNCHANGED <<stage, answers, outcome, pending, got, request, replies, net, task, runs, restarts>>
    BY <1>u DEF callVars, inboxVars
  <2> QED BY <2>1, RunsUnchanged, TasksUnchanged, AnswersUnchanged, RepliesUnchanged
          DEF ResultsInv, CallsTyped
<1>1. ASSUME NEW id \in CallIds,
             MakeCall(id) \/ CallRefused(id) \/ CallTimesOut(id) \/ CallReturns(id) \/ Deliver(id)
      PROVE  ResultsInv'
  BY <1>1, MakeCallKeeps, ReturnsError, CallReturnsKeeps, DeliverKeeps
<1>2. CASE ReadRequest \/ RefuseRequest BY <1>2, ReadKeeps, RefuseKeeps
<1>3. ASSUME NEW n \in Deliveries, Work(n) PROVE ResultsInv'
  BY <1>3, CallFailsKeeps, CallServiceKeeps, ServiceReturnedKeeps DEF Work
<1>4. ASSUME NEW s \in Services, Announced(s) \/ PublishAnnounced(s) \/ AnnounceGivesUp(s)
      PROVE  ResultsInv'
  BY <1>4, <1>u DEF Announced, PublishAnnounced, AnnounceGivesUp
<1>5. ASSUME NEW s \in Services, NEW o \in togo[s], DescribeObject(s, o) \/ SkipObject(s, o)
      PROVE  ResultsInv'
  BY <1>5, <1>u DEF DescribeObject, SkipObject
<1>6. CASE Restart BY <1>6, RestartKeeps
<1>7. CASE UNCHANGED vars BY <1>7, <1>u DEF vars
<1> QED BY <1>1, <1>2, <1>3, <1>4, <1>5, <1>6, <1>7 DEF Next

LEMMA ResultsInvariance == Spec => []ResultsInv
  BY InitResults, StepResults, PTL DEF Spec

\* Both gateways keep what they hold of calls, tasks and announcements in its types.
THEOREM TypeCorrect == Spec => []TypeOK
<1>1. ASSUME RepliesAreResults PROVE \A id \in CallIds : Len(replies[id]) <= 2
  <2>1. Len(<<>>) = 0 /\ (\A x : Len(<<x>>) = 1) /\ \A x, y : Len(<<x, y>>) = 2 OBVIOUS
  <2>2. \A n \in {0, 1, 2} : n <= 2 OBVIOUS
  <2>3. ASSUME NEW id \in CallIds PROVE Len(replies[id]) \in {0, 1, 2}
    <3>1. CASE replies[id] = <<>> BY <2>1, <3>1
    <3>2. CASE replies[id] = <<ErrorReply, ErrorReply>> BY <2>1, <3>2, Zenon
    <3>3. CASE \E reply : replies[id] = <<reply>> BY <2>1, <3>3, Zenon
    <3> QED BY <1>1, <3>1, <3>2, <3>3 DEF RepliesAreResults
  <2> QED BY <2>2, <2>3
<1>2. AnnounceInv /\ ResultsInv => TypeOK
  BY <1>1 DEF AnnounceInv, ResultsInv, CallsTyped, TypeOK
<1> QED BY <1>2, AnnounceInvariance, ResultsInvariance, PTL

\* A plain request is served as it was meant: the service gets the arguments of the
\* client, though they were written as XML and read again.
LEMMA ServedAsMeant == ASSUME NEW r, r.args \in Seq(Args), PlainList(r.args)
                       PROVE  Served(r) = Intended(r)
<1>1. Wire(r.args) = r.args BY ListsRoundTrip
<1> QED BY <1>1 DEF Served, Intended, CalledAddr

\* From end to end: whatever is lost, repeated, overtaken, refused or cut off by a
\* restart, arguments replied to a client are what the service it meant returned to
\* this very call, and both are carried unchanged where they are plain; for any number
\* of calls, deliveries, threads and restarts and any arguments.
THEOREM RepliesAreOfTheCall == Spec => []ReplyIsResult
<1>1. ASSUME ResultsInv PROVE ReplyIsResult
  <2> SUFFICES ASSUME NEW id \in CallIds, NEW i \in DOMAIN replies[id],
                      replies[id][i].args # <<>>
               PROVE  \E run \in runs :
                        /\ run.id = id
                        /\ PlainList(request[id].args) => run.served = Intended(request[id])
                        /\ PlainList(run.out) => replies[id][i].args = run.out
    BY DEF ReplyIsResult
  <2>1. ErrorReply.args = <<>> BY DEF ErrorReply
  <2>2. PICK reply : replies[id] = <<reply>> /\ RepliedResult(id, reply)
    <3>1. replies[id] # <<>> OBVIOUS
    <3>2. replies[id] # <<ErrorReply, ErrorReply>> BY <2>1
    <3> QED BY <3>1, <3>2, <1>1 DEF ResultsInv, RepliesAreResults
  <2>3. replies[id][i] = reply BY <2>2
  <2>4. PICK run \in runs : run.id = id /\ reply.args = Wire(run.out)
    BY <2>2, <2>3 DEF RepliedResult
  <2>5. run.served = Served(request[id]) /\ run.out \in Seq(Args)
    BY <2>4, <1>1 DEF ResultsInv, RunsServed
  <2>6. request[id].args \in Seq(Args)
    BY <1>1, CloudRpcAssumption DEF ResultsInv, CallsTyped
  <2>7. PlainList(request[id].args) => run.served = Intended(request[id])
    BY <2>5, <2>6, ServedAsMeant
  <2>8. PlainList(run.out) => replies[id][i].args = run.out
    BY <2>3, <2>4, <2>5, ListsRoundTrip
  <2> QED BY <2>4, <2>7, <2>8
<1> QED BY <1>1, ResultsInvariance, PTL

\* The other half: an answer with plain arguments is never taken for unreadable, so that
\* the client of the call gets it as the service gave it.
PlainAnswersReplied == \A id \in CallIds :
    CallReturns(id) /\ outcome'[id].result # NoAnswer /\ PlainList(outcome'[id].result.body)
        => replies'[id] = <<[ok |-> TRUE, args |-> outcome'[id].result.body]>>

THEOREM PlainAnswersArrive == Spec => [][PlainAnswersReplied]_vars
<1>1. ASSUME ResultsInv PROVE PlainAnswersReplied
  <2> SUFFICES ASSUME NEW id \in CallIds, CallReturns(id), outcome'[id].result # NoAnswer,
                      PlainList(outcome'[id].result.body)
               PROVE  replies'[id] = <<[ok |-> TRUE, args |-> outcome'[id].result.body]>>
    BY DEF PlainAnswersReplied
  <2> DEFINE result == outcome'[id].result
  <2>1. replies' = [replies EXCEPT ![id] = <<Reply(result)>>] BY DEF CallReturns
  <2>2. \E body \in answers[id] \ {EmptyBody} : result.body = body
    BY <1>1 DEF CallReturns, Rpc!Succeed, Rpc!Return, ResultsInv, CallsTyped
  <2>3. result.body \in Seq(Args)
    BY <2>2, <1>1 DEF ResultsInv, AnswersAreResults, IsResult, RunsServed
  <2>4. result # NoAnswer /\ PlainList(result.body) OBVIOUS
  <2> HIDE DEF result
  <2>5. Readable(result.body) /\ Wire(result.body) = result.body
    BY <2>3, <2>4, PlainIsReadable, ListsRoundTrip
  <2>6. Reply(result) = [ok |-> TRUE, args |-> result.body] BY <2>4, <2>5 DEF Reply
  <2>7. replies = [i \in CallIds |-> replies[i]] BY <1>1 DEF ResultsInv, CallsTyped
  <2>8. replies'[id] = <<Reply(result)>> BY <2>1, <2>7
  <2> QED BY <2>6, <2>8 DEF result
<1> QED BY <1>1, ResultsInvariance, PTL

------------------------------------------------------------------------------
\* The serving gateway only ever answers calls that were made, with bodies there are:
\* seen from the calling thread, every step is one of RpcCall, which the dispatch
\* table implements, or leaves its calls alone.
THEOREM CallsAreRpcCalls == Spec => Rpc!AInit /\ [][Rpc!ANext]_callVars
<1>1. Init => Rpc!AInit BY DEF Init
<1>2. ResultsInv /\ [Next]_vars => [Rpc!ANext]_callVars
  <2> SUFFICES ASSUME ResultsInv, [Next]_vars PROVE Rpc!ANext \/ UNCHANGED callVars
    OBVIOUS
  <2>a. ASSUME NEW id \in CallIds, NEW body \in Bodies, SendAnswer(id, body) PROVE Rpc!ANext
    BY <2>a DEF SendAnswer, Rpc!ANext
  <2>e. EmptyBody \in Bodies BY DEF Bodies
  <2>1. ASSUME NEW id \in CallIds,
               MakeCall(id) \/ CallRefused(id) \/ CallTimesOut(id) \/ CallReturns(id)
        PROVE  Rpc!ANext
    BY <2>1 DEF MakeCall, CallRefused, CallTimesOut, CallReturns, Rpc!ANext
  <2>2. ASSUME NEW id \in CallIds, Deliver(id) PROVE UNCHANGED callVars BY <2>2 DEF Deliver
  <2>3. CASE ReadRequest BY <2>3 DEF ReadRequest
  <2>4. CASE RefuseRequest
    <3>1. Head(pending) \in CallIds BY <2>4, TakeKeeps DEF RefuseRequest, ResultsInv
    <3> QED BY <2>4, <2>a, <2>e, <3>1 DEF RefuseRequest
  <2>5. ASSUME NEW n \in Deliveries, CallFails(n) PROVE Rpc!ANext
    <3>1. got[n] \in CallIds BY <2>5, WorksFor DEF CallFails
    <3> QED BY <2>5, <2>a, <2>e, <3>1 DEF CallFails, Id
  <2>6. ASSUME NEW n \in Deliveries, CallService(n) PROVE UNCHANGED callVars
    BY <2>6 DEF CallService
  <2>7. ASSUME NEW n \in Deliveries, ServiceReturned(n) PROVE Rpc!ANext
    <3>1. got[n] \in CallIds BY <2>7, WorksFor DEF ServiceReturned
    <3>2. task[n].answer \in Bodies BY DEF ResultsInv, CallsTyped
    <3> QED BY <2>7, <2>a, <2>e, <3>1, <3>2 DEF ServiceReturned, Id
  <2>8. ASSUME NEW s \in Services, Announced(s) \/ PublishAnnounced(s) \/ AnnounceGivesUp(s)
        PROVE  UNCHANGED callVars
    BY <2>8 DEF Announced, PublishAnnounced, AnnounceGivesUp
  <2>9. ASSUME NEW s \in Services, NEW o \in togo[s], DescribeObject(s, o) \/ SkipObject(s, o)
        PROVE  UNCHANGED callVars
    BY <2>9 DEF DescribeObject, SkipObject
  <2>10. CASE Restart BY <2>10 DEF Restart
  <2>11. CASE UNCHANGED vars BY <2>11 DEF vars
  <2> QED
    BY <2>1, <2>2, <2>3, <2>4, <2>5, <2>6, <2>7, <2>8, <2>9, <2>10, <2>11 DEF Next, Work
<1> QED BY <1>1, <1>2, ResultsInvariance, PTL DEF Spec

------------------------------------------------------------------------------
(* Nothing is forgotten: what is taken has a task or an answer, unless the  *)
(* gateway was restarted.                                                    *)

\* A request taken from the queue is worked on until it has been answered, and only a
\* restart ever makes the gateway forget one.
TakenAreAnswered == \A i \in DOMAIN got :
    \/ answers[got[i]] # {}
    \/ task[i].stage \in {"ready", "calling"}
    \/ restarts > 0 /\ task[i].stage = "none"

\* Every request taken has a place among the deliveries.
RoomForAll == Len(pending) + Len(got) <= MaxDeliveries

AnsweredInv == RoomForAll /\ TakenAreAnswered

LEMMA HasRoom == ASSUME CallsTyped, RoomForAll PROVE DOMAIN got \subseteq Deliveries
<1>1. Len(pending) \in Nat /\ Len(got) \in Nat /\ DOMAIN got = 1 .. Len(got) BY DEF CallsTyped
<1>2. Len(got) <= MaxDeliveries BY <1>1, CloudRpcAssumption DEF RoomForAll
<1> QED BY <1>1, <1>2, CloudRpcAssumption DEF Deliveries

\* A step that leaves queue and tasks alone forgets nothing.
LEMMA QuietStep == ASSUME AnsweredInv, UNCHANGED <<pending, got, task, restarts, answers>>
                   PROVE  AnsweredInv'
  BY DEF AnsweredInv, RoomForAll, TakenAreAnswered

LEMMA AnswerGrows == ASSUME CallsTyped, NEW id \in CallIds, NEW body, SendAnswer(id, body)
                     PROVE  /\ answers'[id] # {}
                            /\ \A id1 \in CallIds : answers[id1] \subseteq answers'[id1]
  BY DEF CallsTyped, SendAnswer, Rpc!Answer

LEMMA TakeMoves == ASSUME CallsTyped, RoomForAll, Inbox!Take
                   PROVE  /\ RoomForAll'
                          /\ Len(got) + 1 \in Deliveries
                          /\ DOMAIN got' = DOMAIN got \cup {Len(got) + 1}
                          /\ Len(got) + 1 \notin DOMAIN got
                          /\ got'[Len(got) + 1] = Head(pending)
                          /\ \A i \in DOMAIN got : got'[i] = got[i]
<1>1. /\ pending \in Seq(CallIds) /\ pending # <<>> /\ got \in Seq(CallIds)
      /\ got' = Append(got, Head(pending)) /\ pending' = Tail(pending)
  BY DEF CallsTyped, Inbox!Take
<1>2. /\ Len(pending) \in Nat /\ Len(pending) > 0 /\ Len(got) \in Nat
      /\ Len(got') = Len(got) + 1 /\ Len(pending') = Len(pending) - 1
  BY <1>1
<1>3. RoomForAll' BY <1>2, CloudRpcAssumption DEF RoomForAll
<1>4. Len(got) + 1 \in Deliveries BY <1>2, CloudRpcAssumption DEF RoomForAll, Deliveries
<1> QED BY <1>1, <1>2, <1>3, <1>4

LEMMA TaskForgetsNothing ==
    ASSUME CallsTyped, AnsweredInv, NEW n \in Deliveries, NEW st, NEW body,
           SetTask(n, st, body), UNCHANGED <<pending, got, restarts>>,
           \A id \in CallIds : answers[id] \subseteq answers'[id],
           task[n].stage \in {"ready", "calling"},
           st \in {"ready", "calling"} \/ (n \in DOMAIN got => answers'[got[n]] # {})
    PROVE  AnsweredInv'
<1>1. RoomForAll' BY DEF AnsweredInv, RoomForAll
<1>2. \A i \in DOMAIN got : i \in Deliveries /\ got[i] \in CallIds
  BY HasRoom DEF AnsweredInv, CallsTyped
<1>3. ASSUME NEW i \in DOMAIN got
      PROVE  \/ answers'[got[i]] # {}
             \/ task'[i].stage \in {"ready", "calling"}
             \/ restarts > 0 /\ task'[i].stage = "none"
  <2>1. task' = [task EXCEPT ![n] = [stage |-> st, answer |-> body]] BY DEF SetTask
  <2>2. CASE i = n
    <3>1. task'[n] = [stage |-> st, answer |-> body] BY <2>1 DEF CallsTyped
    <3> QED BY <2>2, <3>1
  <2>3. CASE i # n
    <3>1. task'[i] = task[i] BY <2>1, <2>3, <1>2 DEF CallsTyped
    <3> QED BY <3>1, <1>2 DEF AnsweredInv, TakenAreAnswered
  <2> QED BY <2>2, <2>3
<1> QED BY <1>1, <1>3 DEF AnsweredInv, TakenAreAnswered

LEMMA StepAnswered == ResultsInv /\ AnsweredInv /\ [Next]_vars => AnsweredInv'
<1> SUFFICES ASSUME ResultsInv, AnsweredInv, [Next]_vars PROVE AnsweredInv' OBVIOUS
<1>t. CallsTyped BY DEF ResultsInv
<1>r. RoomForAll BY DEF AnsweredInv
<1>1. ASSUME NEW id \in CallIds,
             MakeCall(id) \/ CallRefused(id) \/ CallTimesOut(id) \/ CallReturns(id)
      PROVE  AnsweredInv'
  <2>1. UNCHANGED <<pending, got, task, restarts, answers>>
    BY <1>1 DEF MakeCall, CallRefused, CallTimesOut, CallReturns, inboxVars,
       Rpc!Invoke, Rpc!Refuse, Rpc!GiveUp, Rpc!Succeed
  <2> QED BY <2>1, QuietStep
<1>2. ASSUME NEW id \in CallIds, Deliver(id) PROVE AnsweredInv'
  <2>1. /\ Len(pending) + Len(got) < MaxDeliveries /\ pending' = Append(pending, id)
        /\ UNCHANGED <<got, task, restarts, answers>>
    BY <1>2 DEF Deliver, Inbox!Put, callVars
  <2>2. pending \in Seq(CallIds) /\ got \in Seq(CallIds) BY <1>t DEF CallsTyped
  <2>3. Len(pending') = Len(pending) + 1 /\ Len(pending) \in Nat /\ Len(got) \in Nat
    BY <2>1, <2>2
  <2>4. RoomForAll' BY <2>1, <2>3, CloudRpcAssumption DEF RoomForAll
  <2>5. TakenAreAnswered' BY <2>1 DEF AnsweredInv, TakenAreAnswered
  <2> QED BY <2>4, <2>5 DEF AnsweredInv
<1>3. CASE ReadRequest
  <2> DEFINE n == Len(got) + 1
  <2>1. Inbox!Take /\ UNCHANGED <<answers, restarts>>
        /\ task' = [task EXCEPT ![n] = [stage |-> "ready", answer |-> EmptyBody]]
    BY <1>3 DEF ReadRequest, SetTask, callVars
  <2>2. /\ RoomForAll' /\ n \in Deliveries /\ DOMAIN got' = DOMAIN got \cup {n}
        /\ n \notin DOMAIN got /\ \A i \in DOMAIN got : got'[i] = got[i]
    BY <2>1, <1>t, <1>r, TakeMoves
  <2> HIDE DEF n
  <2>3. task'[n].stage = "ready" BY <2>1, <2>2, <1>t DEF CallsTyped
  <2>4. \A i \in DOMAIN got : task'[i] = task[i]
    BY <2>1, <2>2, <1>t, <1>r, HasRoom DEF CallsTyped
  <2> QED BY <2>1, <2>2, <2>3, <2>4 DEF AnsweredInv, TakenAreAnswered
<1>4. CASE RefuseRequest
  <2> DEFINE n == Len(got) + 1
  <2>1. Inbox!Take /\ SendAnswer(Head(pending), EmptyBody) /\ UNCHANGED <<task, restarts>>
    BY <1>4 DEF RefuseRequest
  <2>2. /\ RoomForAll' /\ DOMAIN got' = DOMAIN got \cup {n} /\ got'[n] = Head(pending)
        /\ \A i \in DOMAIN got : got'[i] = got[i]
    BY <2>1, <1>t, <1>r, TakeMoves
  <2> HIDE DEF n
  <2>3. /\ answers'[Head(pending)] # {}
        /\ \A id \in CallIds : answers[id] \subseteq answers'[id]
    BY <2>1, <1>t, TakeKeeps, AnswerGrows
  <2>4. \A i \in DOMAIN got : got[i] \in CallIds BY <1>t DEF CallsTyped
  <2>5. \A i \in DOMAIN got : answers[got[i]] # {} => answers'[got'[i]] # {}
    BY <2>2, <2>3, <2>4
  <2> QED BY <2>1, <2>2, <2>3, <2>5 DEF AnsweredInv, TakenAreAnswered
<1>5. ASSUME NEW n \in Deliveries, CallFails(n) \/ ServiceReturned(n) PROVE AnsweredInv'
  <2>1. /\ task[n].stage \in {"ready", "calling"} /\ SetTask(n, "done", EmptyBody)
        /\ UNCHANGED <<pending, got, restarts>>
        /\ \E body : SendAnswer(got[n], body)
    BY <1>5 DEF CallFails, ServiceReturned, Id, inboxVars
  <2>2. got[n] \in CallIds BY <2>1, WorksFor
  <2>3. answers'[got[n]] # {} /\ \A id \in CallIds : answers[id] \subseteq answers'[id]
    BY <2>1, <2>2, <1>t, AnswerGrows
  <2> QED BY <2>1, <2>3, <1>t, TaskForgetsNothing
<1>6. ASSUME NEW n \in Deliveries, CallService(n) PROVE AnsweredInv'
  <2>1. task[n].stage = "ready" /\ UNCHANGED <<pending, got, restarts, answers>>
    BY <1>6 DEF CallService, callVars, inboxVars
  <2>2. \E body : SetTask(n, "calling", body) BY <1>6 DEF CallService
  <2> QED BY <2>1, <2>2, <1>t, TaskForgetsNothing
<1>7. ASSUME NEW s \in Services, Announced(s) \/ PublishAnnounced(s) \/ AnnounceGivesUp(s)
      PROVE  AnsweredInv'
  BY <1>7, QuietStep DEF Announced, PublishAnnounced, AnnounceGivesUp, callVars, inboxVars
<1>8. ASSUME NEW s \in Services, NEW o \in togo[s], DescribeObject(s, o) \/ SkipObject(s, o)
      PROVE  AnsweredInv'
  BY <1>8, QuietStep DEF DescribeObject, SkipObject, callVars, inboxVars
<1>9. CASE Restart
  <2>1. /\ pending' = <<>> /\ restarts' = restarts + 1 /\ UNCHANGED <<got, answers>>
        /\ task' = [n \in Deliveries |-> [stage |-> "none", answer |-> EmptyBody]]
    BY <1>9 DEF Restart, callVars
  <2>2. restarts' > 0 BY <2>1, <1>t, CloudRpcAssumption DEF CallsTyped
  <2>3. Len(pending) \in Nat /\ Len(got) \in Nat /\ Len(pending') = 0 BY <2>1, <1>t DEF CallsTyped
  <2>4. RoomForAll' BY <2>1, <2>3, <1>r, CloudRpcAssumption DEF RoomForAll
  <2>5. \A i \in DOMAIN got : task'[i].stage = "none" BY <2>1, <1>t, <1>r, HasRoom
  <2> QED BY <2>1, <2>2, <2>4, <2>5 DEF AnsweredInv, TakenAreAnswered
<1>10. CASE UNCHANGED vars BY <1>10, QuietStep DEF vars, callVars, inboxVars
<1> QED BY <1>1, <1>2, <1>3, <1>4, <1>5, <1>6, <1>7, <1>8, <1>9, <1>10 DEF Next, Work

\* No request that the receiver thread took is forgotten but by a restart, for any pool,
\* any deliveries and any services: the safety that EveryRequestAnswered builds on.
THEOREM NoRequestForgotten == Spec => []TakenAreAnswered
<1>1. Init => AnsweredInv
  BY CloudRpcAssumption DEF Init, Inbox!MInit, AnsweredInv, RoomForAll, TakenAreAnswered
<1>2. AnsweredInv => TakenAreAnswered BY DEF AnsweredInv
<1> QED BY <1>1, <1>2, StepAnswered, ResultsInvariance, PTL DEF Spec

==============================================================================
