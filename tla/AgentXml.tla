------------------------------- MODULE AgentXml -------------------------------
(***************************************************************************)
(* What CloudServiceAgentBusObject makes of the introspection XML of a     *)
(* cloud service: ParseXml, ParseNode and ParseInterface.  A description   *)
(* is the list of its elements in document order, as the three walk it.    *)
(* An element is the <about> data, a <node>, which becomes an object, or   *)
(* an <interface> of an object.  Operators marked "Faulty" are wrong       *)
(* versions of the one that follows them.                                  *)
(***************************************************************************)
EXTENDS Integers, Sequences

CONSTANTS Standard,       \* interfaces every bus object has by itself
          AgentInterface  \* by which other gateways' tasks know an agent

\* "fault" says what is wrong with an element: "name" an illegal path or interface
\* name, "member" a member, signature or argument that cannot be added.
About(entries) == [kind |-> "about", object |-> "/", name |-> entries, fault |-> "none"]
Node(object, fault) == [kind |-> "node", object |-> object, name |-> "", fault |-> fault]
Interface(object, name, fault) ==
    [kind |-> "interface", object |-> object, name |-> name, fault |-> fault]

\* ParseXml walks the children of the root and ParseNode those of a node, so that an
\* interface is met after the node it is in.
InDocumentOrder(description) ==
    /\ Len(description) \in Nat /\ DOMAIN description = 1 .. Len(description)
    /\ \A i \in DOMAIN description :
          /\ description[i].kind \in {"about", "node", "interface"}
          /\ description[i].kind = "interface" =>
                \/ description[i].object = "/"
                \/ \E j \in 1 .. i - 1 : /\ description[j].kind = "node"
                                        /\ description[j].object = description[i].object

\* The agent so far: its objects, the interfaces created on its bus attachment,
\* the interfaces of its objects, and the number of its about entries.
NewAgent(bus) == [ok |-> TRUE, objects |-> {"/"}, bus |-> bus, implements |-> {}, about |-> 0]

\* SupportedLanguages, Description, SoftwareVersion and AJSoftwareVersion.
AddedEntries == 4

ParseAbout(agent, e) == [agent EXCEPT !.about = e.name + AddedEntries]

\* A new child, with the interface that marks it as an agent.
ParseNode(agent, e) ==
    IF e.fault = "none"
    THEN [agent EXCEPT !.objects = @ \cup {e.object},
                       !.implements = @ \cup {<<e.object, AgentInterface>>}]
    ELSE [agent EXCEPT !.ok = FALSE]

\* An interface the bus attachment has already is taken for success, but only the
\* object that came first has it: the others get neither interface nor handlers.
ParseInterface(agent, e) ==
    CASE e.fault = "name" -> [agent EXCEPT !.ok = FALSE]
      [] e.fault # "name" /\ e.name \in Standard \cup agent.bus -> agent
      [] OTHER -> [agent EXCEPT !.ok = (e.fault = "none"),
                                !.bus = @ \cup {e.name},
                                !.implements = @ \cup {<<e.object, e.name>>}]

ParseElement(agent, e) ==
    CASE ~agent.ok -> agent
      [] agent.ok /\ e.kind = "about" -> ParseAbout(agent, e)
      [] agent.ok /\ e.kind = "node" -> ParseNode(agent, e)
      [] agent.ok /\ e.kind = "interface" -> ParseInterface(agent, e)

ParseXml(description, bus) ==
    LET parsed[i \in 0 .. Len(description)] ==
            IF i = 0 THEN NewAgent(bus) ELSE ParseElement(parsed[i - 1], description[i])
    IN parsed[Len(description)]

\* Faulty: the agents share one bus attachment.
PrepareOnSharedBus(description, agents) ==
    ParseXml(description, UNION {a.bus : a \in agents})

\* Every agent has a bus attachment of its own, on which no interface exists yet.
PrepareAgent(description, agents) == ParseXml(description, {})

\* The about data of an agent has entries the description has not.
Compare(agent, description) ==
    \E i \in DOMAIN description :
        description[i].kind = "about" /\ description[i].name = agent.about

\* The interfaces a description promises.
Described(description) ==
    {description[i].name : i \in {j \in DOMAIN description : description[j].kind = "interface"}}
        \ Standard

==============================================================================
