-------------------------------- MODULE ArgXml --------------------------------
(***************************************************************************)
(* ArgToXml and XmlToArg (CommonUtils.cc), which carry the arguments of    *)
(* remote calls, properties and signals: what XML element an argument      *)
(* becomes, and what argument the other gateway makes of that element.     *)
(*                                                                         *)
(* An argument has a type, a type signature where it is an array, numbers  *)
(* (one, or the elements of a scalar array; a double is given in halves),  *)
(* a text, and members.  An element's content is the list of numbers or    *)
(* the text between its tags.  Operators marked "Faulty" are wrong         *)
(* versions of the one that follows them.                                  *)
(***************************************************************************)
EXTENDS Integers, Sequences, FiniteSets

CONSTANTS Args,      \* a finite set of arguments
          CodeSum    \* the sum of the character codes of each "type" attribute

Argument(type, sig, nums, text, members) ==
    [type |-> type, sig |-> sig, nums |-> nums, text |-> text, members |-> members]

Number(type, n) == Argument(type, "", <<n>>, "", <<>>)
Text(type, t) == Argument(type, "", <<>>, t, <<>>)
ScalarArray(elem, nums) == Argument("scalar_array", elem, nums, "", <<>>)
GenericArray(sig, members) == Argument("array", sig, <<>>, "", members)
Struct(members) == Argument("struct", "", <<>>, "", members)
DictEntry(key, val) == Argument("dict_entry", "", <<>>, "", <<key, val>>)
Variant(val) == Argument("variant", "", <<>>, "", <<val>>)

\* A MsgArg that was never Set.
Unset == Argument("invalid", "", <<>>, "", <<>>)

NumberTypes == {"boolean", "int16", "uint16", "int32", "uint32", "int64", "uint64", "byte"}
TextTypes == {"string", "object_path", "signature"}
ElementTypes == NumberTypes \cup {"double"}
TextSignatures == {"s", "o", "g"}

\* The MsgArgs of the bus but for doubles and handles by themselves; of an array, a
\* struct, an entry or a variant, given that of its members.  A struct has a member.
IsMsgArg(a) ==
    \/ a = Unset
    \/ a.type \in NumberTypes /\ a = Number(a.type, a.nums[1])
    \/ a.type \in TextTypes /\ a = Text(a.type, a.text)
    \/ a.type = "scalar_array" /\ a.sig \in ElementTypes /\ a = ScalarArray(a.sig, a.nums)
    \/ a.type = "array" /\ a = GenericArray(a.sig, a.members)
    \/ a.type = "struct" /\ a.members # <<>> /\ a = Struct(a.members)
    \/ a.type = "dict_entry" /\ a = DictEntry(a.members[1], a.members[2])
    \/ a.type = "variant" /\ a = Variant(a.members[1])

\* Members of arguments are arguments too, and no argument is nested in itself, so
\* that both conversions, which recurse over members, are functions on Args.
ASSUME ArgsAssumption ==
    /\ IsFiniteSet(Args)
    /\ \A a \in Args : IsMsgArg(a) /\ a.nums \in Seq(Int) /\ a.members \in Seq(Args)
    /\ \A S \in SUBSET Args : S # {} =>
          \E a \in S : \A i \in DOMAIN a.members : a.members[i] \notin S

\* The case labels of XmlToArg's switch over the type of an array are the sums of
\* the types' names.
Label == [boolean |-> 736, double |-> 635, int32 |-> 432, int16 |-> 434, uint16 |-> 551,
          uint64 |-> 554, uint32 |-> 549, int64 |-> 437, byte |-> 436]

ASSUME CodeSumAssumption == \A t \in ElementTypes : CodeSum[t] = Label[t]

------------------------------------------------------------------------------
(* ArgToXml.                                                                *)

\* Elements of a double array are cast to uint64_t: the half is cut off.
Printed(a) == IF a.type = "scalar_array" /\ a.sig = "double"
              THEN [i \in DOMAIN a.nums |-> 2 * (a.nums[i] \div 2)]
              ELSE a.nums

ArgToXml[a \in Args] ==
    [name |-> IF a.type = "scalar_array" THEN "array" ELSE a.type,
     type |-> a.sig,
     nums |-> Printed(a),
     text |-> a.text,
     children |-> [i \in DOMAIN a.members |-> ArgToXml[a.members[i]]]]

Elements == {ArgToXml[a] : a \in Args}

------------------------------------------------------------------------------
(* XmlElement of AllJoyn, which reads the message at the other gateway.     *)

\* A "<" or "&" is not escaped by ArgToXml, and the text is not XML then.
Markup == "a<b"
WellFormed[e \in Elements] ==
    /\ e.text # Markup
    /\ \A i \in DOMAIN e.children : WellFormed[e.children[i]]

\* White space around the content of an element is not part of it.
Padded == " a "
Trim(text) == IF text = Padded THEN "a" ELSE text

------------------------------------------------------------------------------
(* XmlToArg.                                                                *)

\* The type whose branch an array takes, or "other": also a signature may add up
\* to a label, as "(uuu)" does to that of int32 and "(sxx)" to that of byte.
Branch(type) == IF \E t \in ElementTypes : Label[t] = CodeSum[type]
                THEN CHOOSE t \in ElementTypes : Label[t] = CodeSum[type]
                ELSE "other"

\* Faulty: the last piece is lost.
StringSplitLosesLast(nums) == SubSeq(nums, 1, Len(nums) - 1)

\* A content without a space is found twice, and an empty one once, as 0.
StringSplit(nums) == CASE nums = <<>> -> <<0>>
                       [] Len(nums) = 1 -> nums \o nums
                       [] OTHER -> nums

\* A boolean for every character, the spaces between the digits included.
Booleans(nums) == [i \in 1 .. 2 * Len(nums) - 1 |->
                     IF i % 2 = 1 THEN nums[(i + 1) \div 2] ELSE 0]

\* MsgArg::Set takes an array of strings, paths or signatures as char pointers and
\* is given MsgArgs: as many texts, with whatever the pointers lead to.
Garbage == "?"
Misread(sig, members) == GenericArray(sig, [i \in DOMAIN members |-> Text("string", Garbage)])

XmlToArray(e, members) ==
    CASE Branch(e.type) = "boolean" ->
            IF e.nums = <<>> THEN Unset ELSE ScalarArray("boolean", Booleans(e.nums))
      [] Branch(e.type) \in ElementTypes \ {"boolean"} ->
            ScalarArray(Branch(e.type), StringSplit(e.nums))
      [] Branch(e.type) = "other" /\ members # <<>> ->
            IF e.type \in TextSignatures THEN Misread(e.type, members)
                                         ELSE GenericArray(e.type, members)
      [] OTHER -> Unset

\* An element without children sets no struct, one that has no two no entry.
XmlToArg[e \in Elements] ==
    LET members == [i \in DOMAIN e.children |-> XmlToArg[e.children[i]]] IN
    CASE e.name = "array" -> XmlToArray(e, members)
      [] e.name = "dict_entry" -> IF Len(members) = 2
                                  THEN DictEntry(members[1], members[2]) ELSE Unset
      [] e.name = "struct" -> IF members = <<>> THEN Unset ELSE Struct(members)
      [] e.name = "variant" -> Variant(members[1])
      [] e.name \in TextTypes -> Text(e.name, Trim(e.text))
      [] e.name \in NumberTypes -> Number(e.name, e.nums[1])
      [] OTHER -> Unset

------------------------------------------------------------------------------
(* Argument lists, which travel as the children of one <args> element.      *)

Readable(list) == \A i \in DOMAIN list : WellFormed[ArgToXml[list[i]]]
Wire(list) == [i \in DOMAIN list |-> XmlToArg[ArgToXml[list[i]]]]

\* The arguments the conversions are made for: no text that is XML or starts or
\* ends with a space, no scalar array of less than two elements, of booleans or of
\* doubles, no empty array, no array of strings, paths or signatures, and no array
\* whose signature adds up to a type's name.
Plain[a \in Args] ==
    /\ a.type # "invalid"
    /\ a.text \notin {Markup, Padded}
    /\ a.type = "scalar_array" => Len(a.nums) > 1 /\ a.sig \notin {"boolean", "double"}
    /\ a.type = "array" => /\ a.members # <<>>
                           /\ Branch(a.sig) = "other" /\ a.sig \notin TextSignatures
    /\ \A i \in DOMAIN a.members : Plain[a.members[i]]

PlainList(list) == \A i \in DOMAIN list : Plain[list[i]]

==============================================================================
