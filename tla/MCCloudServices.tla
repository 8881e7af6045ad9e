---------------------------- MODULE MCCloudServices ----------------------------
\* CloudServices on small instances: two accounts, the name of one being a prefix
\* of the other's.
EXTENDS CloudServices, TLC

AccountsDef == {"lyh", "lyh2"}
StartsWithDef == "lyh" :> {"lyh", "lyh2"} @@ "lyh2" :> {"lyh2"}

\* Two objects with a common interface; the other is of a standard kind and bad in
\* one version.
Version(fault) ==
    <<About(7), Node("/a", "none"), Interface("/a", "if", "none"),
      Interface("/a", "properties", "none"), Node("/a/b", "none"),
      Interface("/a/b", "if", "none"), Interface("/a/b", "if2", fault)>>
DescriptionsDef == {Version("none"), Version("member")}

\* Documents: the service is open, closed, and open behind an element of another kind
\* and a tuple with a description that does not do.
Tuple(s, xml) == [service |-> s, xml |-> xml]
BodiesDef ==
    {<<Tuple("s", Version("none"))>>, <<Tuple("s", NoService)>>,
     <<Blank, Tuple("s", Version("member")), Tuple("s", Version("none"))>>}

==============================================================================
