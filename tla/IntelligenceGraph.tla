-------------------------- MODULE IntelligenceGraph --------------------------
(***************************************************************************)
(* The graph of a tenant, graph() of search/service.py, over the rows the  *)
(* crawls of CrawlPipeline store.  The indicators and actors come from the *)
(* search index; of observations, events and alerts only the latest are    *)
(* read, so any of them may be missing.                                    *)
(***************************************************************************)
EXTENDS CrawlPipeline

CONSTANTS
    Iocs,     \* indexed indicators, with their tags
    Actors    \* indexed actors, with their techniques

Stored(kind) == {k \in DOMAIN rows : k.is = kind}

\* entity_id of an event: a keyword match names the first entity of its text, if there is one.
EntityOf(k) ==
    LET values == tx[rows[k].by].values
    IN  IF k.is = "event" THEN {k.id} ELSE IF values = <<>> THEN {} ELSE {EntityId(values[1])}

IndexNodes ==
    {<<"ioc", i.id>> : i \in Iocs} \cup {<<"actor", a.id>> : a \in Actors}
        \cup {<<"tag", t>> : t \in UNION {i.tags : i \in Iocs}}
        \cup {<<"technique", t>> : t \in UNION {a.techniques : a \in Actors}}

IndexEdges ==
    (UNION {{<< <<"ioc", i.id>>, <<"tag", t>> >> : t \in i.tags} : i \in Iocs})
        \cup (UNION {{<< <<"actor", a.id>>, <<"technique", t>> >> : t \in a.techniques} : a \in Actors})

\* Observations whose entity and document are found.
Joined(observations) ==
    {o \in observations : EntityKey(o.id) \in DOMAIN rows /\ DocumentKey(o.text) \in DOMAIN rows}

DocumentNode(k) == <<"document", k.text>>
EntityNode(id) == <<"entity", id>>
EventNode(k) == <<"event", k>>
AlertNode(k) == <<"alert", k>>

\* Mutant: events are shown whether or not their entity is.
AllEvents(events, observations) == {k \in events : EntityOf(k) # {}}

\* Events whose entity is in the graph.
ShownEvents(events, observations) ==
    {k \in events : \E o \in Joined(observations) : o.id \in EntityOf(k)}

\* The event an alert names.
MatchOf(k) == MatchKey(k.source, k.text, k.monitor)

\* Alerts whose event is in the graph.
ShownAlerts(alerts, shown) == {k \in alerts : MatchOf(k) \in shown}

Graph(observations, events, alerts) ==
    LET joined == Joined(observations)
        shownEvents == ShownEvents(events, observations)
        shownAlerts == ShownAlerts(alerts, shownEvents)
    IN  [nodes |-> IndexNodes
                     \cup {DocumentNode(o) : o \in joined} \cup {EntityNode(o.id) : o \in joined}
                     \cup {EventNode(k) : k \in shownEvents} \cup {AlertNode(k) : k \in shownAlerts},
         edges |-> IndexEdges
                     \cup {<<DocumentNode(o), EntityNode(o.id)>> : o \in joined}
                     \cup (UNION {{<<EventNode(k), EntityNode(id)>> : id \in EntityOf(k)} : k \in shownEvents})
                     \cup {<<AlertNode(k), EventNode(MatchOf(k))>> : k \in shownAlerts}]

Closed(graph) == \A edge \in graph.edges : edge[1] \in graph.nodes /\ edge[2] \in graph.nodes

\* What graph() shows can be traced, whatever is committed when.  Whichever rows the limits
\* cut off, no edge hangs in the air; and with none cut off every alert whose text holds an
\* entity leads to an event that observes an entity its own document contains.
GraphTraceable ==
    LET observations == Stored("observation")
        events == Stored("event") \cup Stored("match")
        alerts == Stored("alert")
        full == Graph(observations, events, alerts)
    IN  /\ \A some \in SUBSET observations : Closed(Graph(some, events, alerts))
        /\ \A k \in events : Closed(Graph(observations, events \ {k}, alerts))
        /\ \A k \in alerts :
              EntityOf(MatchOf(k)) # {} =>
                 \E id \in EntityOf(MatchOf(k)) :
                     /\ AlertNode(k) \in full.nodes
                     /\ <<EventNode(MatchOf(k)), EntityNode(id)>> \in full.edges
                     /\ <<DocumentNode(k), EntityNode(id)>> \in full.edges
=============================================================================
