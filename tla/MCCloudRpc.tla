------------------------------ MODULE MCCloudRpc ------------------------------
\* CloudRpc on small instances.
EXTENDS CloudRpc, Functions, TLC

CONSTANTS i1, i2

One == Number("int32", 1)
Two == Number("uint16", 2)
Name == Text("string", "a")
Interface == Text("string", "if")
Numbers == ScalarArray("int32", <<1, 2>>)
Single == ScalarArray("int32", <<1>>)
Flags == ScalarArray("boolean", <<1, 0>>)
Pairs == GenericArray("(is)", <<Struct(<<One, Name>>)>>)
Large == Number("int64", 1)
Size == Number("uint32", 1)
Taken == GenericArray("(sxx)", <<Struct(<<Name, Large, Large>>)>>)
Sizes == GenericArray("(uuu)", <<Struct(<<Size, Size, Size>>)>>)
Names == GenericArray("s", <<Name, Interface>>)
Unescaped == Text("string", Markup)
Setting == Variant(Pairs)

ArgsDef == {Unset, One, Two, Name, Interface, Numbers, Single, Flags, Struct(<<One, Name>>),
    Pairs, Large, Size, Struct(<<Name, Large, Large>>), Struct(<<Size, Size, Size>>),
    Taken, Sizes, Names, Unescaped, Setting}

\* The character codes of the names and signatures above, and their sums.
Code == ("(" :> 40) @@ (")" :> 41) @@ ("1" :> 49) @@ ("2" :> 50) @@ ("3" :> 51)
     @@ ("4" :> 52) @@ ("6" :> 54) @@ ("a" :> 97) @@ ("b" :> 98) @@ ("d" :> 100)
     @@ ("e" :> 101) @@ ("i" :> 105) @@ ("l" :> 108) @@ ("n" :> 110) @@ ("o" :> 111)
     @@ ("s" :> 115) @@ ("t" :> 116) @@ ("u" :> 117) @@ ("x" :> 120) @@ ("y" :> 121)
CodeSumDef == [type \in ElementTypes \cup {"(is)", "(sxx)", "(uuu)", "s"} |->
                 FoldFunction(+, 0, [i \in 1 .. Len(type) |-> Code[SubSeq(type, i, i)]])]

\* A service with a top-level object that has a child.
ServicesDef == {"s"}
ObjectsDef == {"o", "o/c"}
TopObjectsDef == [s \in ServicesDef |-> {"o"}]
ChildrenDef == [o \in ObjectsDef |-> IF o = "o" THEN {"o/c"} ELSE {}]

Request(kind, args) ==
    [kind |-> kind, object |-> "o/c", interface |-> "if", member |-> "m", args |-> args]
RequestsDef == (i1 :> {Request("Set", <<Interface, Name, Setting>>)})
            @@ (i2 :> {Request("Method", <<Two, Names, Sizes>>), Request("Method", <<Unescaped>>)})
ResultsDef == {<<Numbers>>, <<Single, Flags, Names, Taken>>}
ValuesDef == {Setting}

==============================================================================
