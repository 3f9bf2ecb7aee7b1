--------------------------- MODULE EvidenceProof ---------------------------
(***************************************************************************)
(* What Evidence guarantees for any fleet, any routes, any number of       *)
(* request handlers and commands, and any number of kills: the lock of the *)
(* dashboard, the age of what it serves, the files an inspection leaves,   *)
(* and the truth of what `audit` answers and a page shows.  What `observe` *)
(* answers is proved for one observer at a time.                           *)
(***************************************************************************)
EXTENDS Evidence, FiniteSetTheorems, TLAPS

\* One `observe` at a time.
OneObserver == \A o, p \in Observer : o = p

\* What a file may hold: nothing, or one content.
Content == {{}} \cup {{c} : c \in Route \cup {Blank, Torn}}

Inspection ==
    [step : {"idle", "probing", "opening", "filling", "replacing"}, todo : SUBSET Domain,
     route : Route \cup {"none"}, in : {"temporary", "file", "gone"}]

\* The variables have the shape the actions rely on.
Shapes ==
    /\ clock \in Nat
    /\ project.is \in Fleet \cup {Broken}
    /\ routes \in [Domain -> [is : Route, since : Int]]
    /\ DOMAIN observed = Server
    /\ evidence \in [Domain -> Content]
    /\ temporary \in [Domain -> Content]
    /\ DOMAIN dashboard = {"up", "inspects", "holder", "cached"}
    /\ DOMAIN threads = Thread
    /\ \A t \in Thread :
         DOMAIN threads[t] = {"step", "arrived", "now", "read", "fleet", "snapshots",
                              "domains", "reply", "shown"}
    /\ DOMAIN observers = Observer
    /\ \A o \in Observer :
         DOMAIN observers[o] = {"step", "begun", "fleet", "requested", "todo",
                                "gathered", "result"}
    /\ inspections \in [Inspector -> Inspection]

\* Who writes a file has a domain left and what a probe of it found.
HasRoute(i) ==
    inspections[i].step \in {"opening", "filling", "replacing"} =>
        inspections[i].todo # {} /\ inspections[i].route \in Route

\* A thread holds the lock exactly while it builds, and inspects only while
\* it loads.
HoldsLock(t) ==
    /\ threads[t].step \in {"idle", "waiting", "validating", "loading", "loaded", "viewing"}
    /\ threads[t].step \notin {"idle", "waiting"} <=> dashboard.holder = {t}
    /\ inspections[t].step # "idle" => threads[t].step = "loading"
    /\ threads[t].shown = {} \/ \E v : threads[t].shown = {v}

TypeInv ==
    /\ Shapes
    /\ \A i \in Inspector : HasRoute(i)
    /\ \A t \in Thread : HoldsLock(t)

\* The times a thread has seen are in order.
InOrder(t) ==
    /\ threads[t].arrived \in Nat /\ threads[t].arrived <= clock
    /\ threads[t].step \notin {"idle", "waiting"} =>
         threads[t].now \in Nat /\ threads[t].arrived <= threads[t].now /\ threads[t].now <= clock
    /\ threads[t].step \in {"loading", "loaded", "viewing"} =>
         threads[t].read \in Nat /\ threads[t].now <= threads[t].read
    /\ \A v \in threads[t].shown : v.read \in Nat /\ v.read > threads[t].arrived - Refresh

TimesInv ==
    /\ \A t \in Thread : InOrder(t)
    /\ \A c \in dashboard.cached :
         c.builtAt \in Nat /\ c.view.read \in Nat /\ c.builtAt <= c.view.read

\* What a run has been through is observed.
HasObserved(o) ==
    /\ observers[o].begun \in Nat /\ observers[o].begun <= clock
    /\ observers[o].requested \subseteq Server
    /\ observers[o].todo \subseteq Server
    /\ observers[o].gathered # {} => observers[o].step = "playing"
    /\ observers[o].result = "ok" => observers[o].todo = {} /\ observers[o].gathered = {}
    /\ \A x \in observers[o].gathered : x.server \in Server /\ x.at >= observers[o].begun
    /\ observers[o].step = "playing" \/ observers[o].result = "ok" =>
         \A s \in observers[o].requested \ observers[o].todo :
            \E x \in observed[s] : x.at >= observers[o].begun

ObservedInv == \A o \in Observer : HasObserved(o)

\* What the one inspection at work has written so far.
HasWritten(i) ==
    /\ inspections[i].step = "filling" =>
         inspections[i].in = "temporary" /\ temporary[Current(i)] = {Blank}
    /\ inspections[i].step = "replacing" => temporary[Current(i)] = {inspections[i].route}

WholeInv ==
    ~overlapped =>
        /\ \A i, j \in Inspector : Inspecting(i) /\ Inspecting(j) => i = j
        /\ \A i \in Inspector : HasWritten(i)
        /\ \A d \in Domain : evidence[d] \subseteq Route

\* Nothing about the world is newer than now.
WorldInv ==
    /\ project.since \in Int /\ project.since <= clock
    /\ hosts \in [Server -> [is : Condition, since : Int]]
    /\ \A s \in Server : hosts[s].since <= clock
    /\ \A d \in Domain : routes[d].since <= clock

\* A snapshot of a server that has not changed since shows how it is.
ShowsServer(s, x) ==
    /\ x \in Snapshot /\ x.server = s /\ x.at <= clock
    /\ hosts[s].since < x.at => x.is = hosts[s].is

ShowServers(snapshots) ==
    \A s \in Server : \A x \in snapshots[s] : snapshots[s] = {x} /\ ShowsServer(s, x)

\* A project that has not changed since it was read is the one read.
IsProject(fleet, read) ==
    /\ fleet \in Fleet /\ read \in Nat /\ read <= clock
    /\ project.since < read => fleet = project.is

\* A view of what there was when it was read.
Faithful(view) ==
    /\ IsProject(view.fleet, view.read)
    /\ ShowServers(view.snapshots)
    /\ view.at \in Nat /\ view.read <= view.at

GathersTruly(o) ==
    /\ observers[o].step = "playing" =>
         /\ observers[o].fleet \in Fleet
         /\ observers[o].todo \subseteq {s.id : s \in Inventory(observers[o].fleet).servers}
    /\ \A x \in observers[o].gathered : x.server \in Server /\ ShowsServer(x.server, x)

BuildsTruly(t) ==
    /\ threads[t].step \in {"loading", "loaded", "viewing"} =>
         IsProject(threads[t].fleet, threads[t].read)
    /\ threads[t].step \in {"loaded", "viewing"} =>
         \A snapshots \in threads[t].snapshots : ShowServers(snapshots)
    /\ \A view \in threads[t].shown : Faithful(view)

TruthInv ==
    /\ WorldInv
    /\ \A snapshots \in {observed} : ShowServers(snapshots)
    /\ \A o \in Observer : GathersTruly(o)
    /\ \A t \in Thread : BuildsTruly(t)
    /\ \A c \in dashboard.cached : Faithful(c.view)

\* A probe of a route that has not changed since a time shows how it is.
ShowsRoute(d, route, read) == routes[d].since < read => route = routes[d].is

ShowRoutes(fleet, found, read) ==
    \A d \in DomainsOf(fleet) :
       \E route \in Route : found[d] = {route} /\ ShowsRoute(d, route, read)

\* What an inspection has found is not older than what a handler has read.
Tells(i, t) ==
    inspections[i].step \in {"opening", "filling", "replacing"} =>
        ShowsRoute(Current(i), inspections[i].route, threads[t].read)

\* Nor is a file, once the handler's own inspection has been there.
Stands(d, t) ==
    (threads[t].step = "loading" => d \notin inspections[t].todo) =>
        \E route \in Route : evidence[d] = {route} /\ ShowsRoute(d, route, threads[t].read)

InspectsTruly(t) ==
    /\ threads[t].step = "loading" => Inspecting(t)
    /\ threads[t].step \in {"loading", "loaded"} =>
         /\ \A i \in Inspector : Tells(i, t)
         /\ \A d \in DomainsOf(threads[t].fleet) : Stands(d, t)
    /\ threads[t].step = "viewing" =>
         \A found \in threads[t].domains : ShowRoutes(threads[t].fleet, found, threads[t].read)
    /\ \A view \in threads[t].shown : ShowRoutes(view.fleet, view.domains, view.read)

RoutesInv ==
    dashboard.inspects /\ ~overlapped =>
        /\ \A t \in Thread : InspectsTruly(t)
        /\ \A c \in dashboard.cached : ShowRoutes(c.view.fleet, c.view.domains, c.view.read)
-----------------------------------------------------------------------------
(* The operators of the model.                                             *)

\* The domains of a fleet are domains there are.
LEMMA DomainsThereAre ==
    ASSUME NEW f \in Fleet
    PROVE  DomainsOf(f) \subseteq Domain
BY EvidenceAssumption DEF DomainsOf, Inventory

\* An inspection with a domain left is at one of them.
LEMMA CurrentIsLeft ==
    ASSUME NEW i, inspections[i].todo # {}
    PROVE  Current(i) \in inspections[i].todo
BY DEF Current

\* What a write leaves in a file is one content.
LEMMA FilledIsContent ==
    ASSUME NEW content, NEW route \in Route, NEW c \in Filled(content, route)
    PROVE  c \in Content
BY DEF Filled, Content

-----------------------------------------------------------------------------
(* What an audit and a page conclude.                                     *)

\* One of the fleet's servers has the id it is looked up by.
LEMMA NamedIsThere ==
    ASSUME NEW S, NEW s \in S
    PROVE  Named(S, s.id) \in S /\ Named(S, s.id).id = s.id
BY DEF Named

\* What is read of a snapshot.
LEMMA FactsOfOne ==
    ASSUME NEW x
    PROVE  Facts({x}) = {[type |-> x.type, at |-> x.at, facts |-> FactsOf[x.is]]}
BY DEF Facts

\* The comparisons of a server do not depend on when it was observed.
LEMMA AuditIsTimeless ==
    ASSUME NEW inv, NEW server, NEW receipts, NEW x, NEW y,
           x.type = y.type, x.facts = y.facts
    PROVE  AuditServer(inv, server, receipts, {x}) = AuditServer(inv, server, receipts, {y})
<1>. DEFINE wanted == Named(inv.serverTypes, server.serverType)
            Seen(seenType, seenFacts) ==
              {Comparison("server_type.id", "", seenType = wanted.id)}
                \cup AuditOs(wanted, seenFacts) \cup AuditRaid(wanted, seenFacts)
                \cup AuditMounts(wanted, seenFacts) \cup AuditPackages(wanted, seenFacts)
                \cup AuditServices(wanted, seenFacts) \cup AuditFirewall(server, wanted, seenFacts)
                \cup AuditServiceBinds({v \in inv.services : v.server = server.id}, seenFacts)
                \cup AuditAlertRules(HostAlertRules(inv, server), seenFacts)
                \cup AuditComponentEnvironment(ComponentsOnServer(inv, server.id),
                                               receipts, seenFacts)
                \cup AuditConfiguration(wanted, seenFacts)
<1>1. ASSUME NEW z
      PROVE  AuditServer(inv, server, receipts, {z}) = Seen(z.type, z.facts)
    <2>1. {z} # {} /\ (CHOOSE w \in {z} : TRUE) = z
        OBVIOUS
    <2>2. AuditServer(inv, server, receipts, {z})
            = Seen((CHOOSE w \in {z} : TRUE).type, (CHOOSE w \in {z} : TRUE).facts)
        BY <2>1, Zenon DEF AuditServer
    <2>. HIDE DEF Seen
    <2>. QED
        BY <2>1, <2>2
<1>. HIDE DEF Seen
<1>. QED
    BY <1>1

\* A fleet is compliant only if each of its servers is.
LEMMA AllAreCompliant ==
    ASSUME NEW inv, NEW snapshots, NEW receipts,
           AuditInventory(inv, snapshots, receipts) = "compliant",
           NEW s \in inv.servers
    PROVE  ServerAudit(inv, s, receipts, snapshots[s.id]) = "compliant"
<1>. DEFINE verdict == ServerAudit(inv, s, receipts, snapshots[s.id])
            verdicts == {ServerAudit(inv, r, receipts, snapshots[r.id]) : r \in inv.servers}
<1>1. verdict \in {"drift", "unknown", "compliant"}
    BY DEF ServerAudit, AggregateStatus
<1>2. verdict \in verdicts
    OBVIOUS
<1>3. AggregateStatus(verdicts) = "compliant"
    BY DEF AuditInventory
<1>. HIDE DEF verdict, verdicts
<1>4. "drift" \notin verdicts /\ "unknown" \notin verdicts
    BY <1>3 DEF AggregateStatus
<1>5. verdict = "compliant"
    BY <1>1, <1>2, <1>4
<1>. QED
    BY <1>5 DEF verdict

\* A server nobody has observed is not compliant.
LEMMA UnobservedIsUnknown ==
    ASSUME NEW inv, NEW server, NEW receipts
    PROVE  ServerAudit(inv, server, receipts, {}) = "unknown"
<1>1. AuditServer(inv, server, receipts, {}) = {Unobserved}
    BY DEF AuditServer
<1>2. Unobserved.status = "unknown"
    BY DEF Unobserved
<1>3. {c.status : c \in {Unobserved}} = {"unknown"}
    BY <1>2
<1>. QED
    BY <1>1, <1>3 DEF ServerAudit, AggregateStatus

\* Every task has one of the severities.
LEMMA TasksAreSevere ==
    ASSUME NEW checks, NEW snapshot, NEW now, NEW t \in ServerTasks(checks, snapshot, now)
    PROVE  t.severity \in Severities
<1>1. \A kind, source : \A severity \in Severities : Task(kind, severity, source).severity \in Severities
    BY DEF Task
<1>2. CASE t \in {AuditTask(c) : c \in {x \in checks : x.status # "compliant"}}
    BY <1>1, <1>2 DEF AuditTask, Severities
<1>3. ASSUME NEW s \in snapshot,
             t \in ObservationTasks(s.at, now) \cup FilesystemTasks(s.facts)
                     \cup FailedServiceTasks(s.facts) \cup SmartTasks(s.facts.smart)
      PROVE  t.severity \in Severities
    <2>1. CASE t \in ObservationTasks(s.at, now)
        BY <1>1, <2>1 DEF ObservationTasks, Severities
    <2>2. CASE t \in FilesystemTasks(s.facts)
        <3>1. PICK f : t = Task("filesystem",
                IF Utilization(f.used, f.avail) >= 9500 THEN "critical" ELSE "warning",
                <<"filesystems", f.target>>)
            BY <2>2 DEF FilesystemTasks
        <3>. QED
            BY <1>1, <3>1 DEF Severities
    <2>3. CASE t \in FailedServiceTasks(s.facts)
        BY <1>1, <2>3 DEF FailedServiceTasks, Severities
    <2>4. CASE t \in SmartTasks(s.facts.smart)
        <3>1. PICK severity \in {"critical", "warning"} : \E source : t = Task("smart", severity, source)
            <4>1. CASE ~s.facts.smart.available
                BY <2>4, <4>1 DEF SmartTasks
            <4>2. CASE s.facts.smart.available
                <5>1. PICK d : t = Task("smart", IF IsDegraded(d) THEN "critical" ELSE "warning",
                                        <<"smart", d.path>>)
                    BY <2>4, <4>2 DEF SmartTasks
                <5>. QED
                    BY <5>1
            <4>. QED
                BY <4>1, <4>2
        <3>. QED
            BY <1>1, <3>1 DEF Severities
    <2>. QED
        BY <1>3, <2>1, <2>2, <2>3, <2>4
<1>. QED
    BY <1>2, <1>3 DEF ServerTasks

\* A healthy server has no tasks.
LEMMA HealthyHasNoTasks ==
    ASSUME NEW inv, NEW server, NEW snapshot, NEW now
    PROVE  ServerHealth(inv, server, snapshot, now) = "healthy" <=>
             ServerTasks(AuditServer(inv, server, [c \in {} |-> "none"], snapshot), snapshot, now) = {}
<1>. DEFINE tasks == ServerTasks(AuditServer(inv, server, [c \in {} |-> "none"], snapshot),
                                 snapshot, now)
<1>1. \A t \in tasks : t.severity \in Severities
    BY TasksAreSevere
<1>2. ServerHealth(inv, server, snapshot, now) = Worst({t.severity : t \in tasks})
    BY DEF ServerHealth
<1>. HIDE DEF tasks
<1>3. Worst({t.severity : t \in tasks}) = "healthy" <=> tasks = {}
    BY <1>1 DEF Worst, Severities
<1>. QED
    BY <1>2, <1>3 DEF tasks

\* A snapshot has a task as soon as it is stale.
LEMMA ObservationTasksAre ==
    \A at, now \in Int : ObservationTasks(at, now) = {} <=>
        ~(now - at > StaleCritical) /\ ~(now - at > StaleWarning)
<1>. DEFINE late == Task("observation", "critical", <<"observedAt", "">>)
            soon == Task("observation", "warning", <<"observedAt", "">>)
<1>. SUFFICES ASSUME NEW at \in Int, NEW now \in Int
              PROVE  ObservationTasks(at, now) = {} <=>
                       ~(now - at > StaleCritical) /\ ~(now - at > StaleWarning)
    OBVIOUS
<1>1. ObservationTasks(at, now) = IF now - at > StaleCritical THEN {late}
                                  ELSE IF now - at > StaleWarning THEN {soon} ELSE {}
    BY DEF ObservationTasks
<1>. HIDE DEF late, soon
<1>. QED
    BY <1>1

\* A server that is healthy in a view would be so if it was observed and
\* looked at at once; it was observed, and not long before.
LEMMA HealthyWasObserved ==
    ASSUME NEW inv, NEW server, NEW type, NEW at \in Int, NEW c, NEW now \in Int,
           ServerHealth(inv, server, {[type |-> type, at |-> at, facts |-> FactsOf[c]]}, now) = "healthy"
    PROVE  /\ now - at <= StaleWarning
           /\ ServerHealth(inv, server, Fresh(c, type), 0) = "healthy"
<1>. DEFINE x == [type |-> type, at |-> at, facts |-> FactsOf[c]]
            y == [type |-> type, at |-> 0, facts |-> FactsOf[c]]
            none == [e \in {} |-> "none"]
            checks == AuditServer(inv, server, none, {x})
<1>0. Fresh(c, type) = {y}
    BY DEF Fresh
<1>2. /\ x.at = at /\ x.facts = FactsOf[c] /\ x.type = type
      /\ y.at = 0 /\ y.facts = FactsOf[c] /\ y.type = type
    OBVIOUS
<1>3. ServerTasks(checks, {x}, now) = {}
    BY HealthyHasNoTasks
<1>. HIDE DEF x, y, none
<1>1. checks = AuditServer(inv, server, none, {y})
    BY <1>2, AuditIsTimeless
<1>. HIDE DEF checks
<1>4. /\ {AuditTask(k) : k \in {z \in checks : z.status # "compliant"}} = {}
      /\ ObservationTasks(at, now) = {} /\ FilesystemTasks(FactsOf[c]) = {}
      /\ FailedServiceTasks(FactsOf[c]) = {} /\ SmartTasks(FactsOf[c].smart) = {}
    BY <1>2, <1>3 DEF ServerTasks
<1>5. StaleWarning \in Nat /\ StaleCritical \in Nat /\ StaleWarning <= StaleCritical
    BY StaleAssumption
<1>6. now - at <= StaleWarning
    BY <1>4, <1>5, ObservationTasksAre
<1>7. ObservationTasks(0, 0) = {}
    BY <1>5, ObservationTasksAre
<1>8. ServerTasks(checks, {y}, 0) = {}
    BY <1>2, <1>4, <1>7 DEF ServerTasks
<1>9. ServerHealth(inv, server, {y}, 0) = "healthy"
    BY <1>1, <1>8, HealthyHasNoTasks DEF none
<1>. QED
    BY <1>0, <1>6, <1>9

\* A server nobody has observed is not healthy.
LEMMA UnobservedIsNotHealthy ==
    ASSUME NEW inv, NEW server, NEW now
    PROVE  ServerHealth(inv, server, {}, now) # "healthy"
<1>. DEFINE none == [e \in {} |-> "none"]
            nothing == {}
<1>1. AuditServer(inv, server, none, nothing) = {Unobserved}
    BY DEF AuditServer
<1>2. AuditTask(Unobserved) \in ServerTasks({Unobserved}, nothing, now)
    BY DEF ServerTasks, Unobserved
<1>. HIDE DEF nothing
<1>3. ServerTasks(AuditServer(inv, server, none, nothing), nothing, now) # {}
    BY <1>1, <1>2
<1>4. ServerHealth(inv, server, nothing, now) # "healthy"
    BY <1>3, HealthyHasNoTasks
<1>. QED
    BY <1>4 DEF nothing

\* The route of a domain that is healthy would pass every check at once.
LEMMA HealthyRoute ==
    ASSUME NEW inv, NEW domain, NEW seen, NEW r \in Route, seen.route = {RouteOf[r]},
           seen.now \in Nat, DomainHealth(inv, domain, seen) = "healthy"
    PROVE  DomainChecks(domain, {RouteOf[r]}, 0) \subseteq {"healthy"}
<1>. DEFINE route == {RouteOf[r]}
            dns == DnsCheck(domain, route)
            tls == TlsCheck(domain, route, seen.now)
            origin == EndpointCheck(domain, route, "origin")
            public == EndpointCheck(domain, route, "public")
<1>1. DomainChecks(domain, route, seen.now) = {dns, tls, origin, public}
    BY DEF DomainChecks
<1>2. /\ dns \in {"unknown", "healthy", "unhealthy"} /\ tls \in {"unknown", "healthy", "unhealthy"}
      /\ origin \in {"unknown", "healthy", "unhealthy"}
      /\ public \in {"unknown", "healthy", "unhealthy"}
    <2>1. \A b : Checked(b) \in {"healthy", "unhealthy"}
        BY DEF Checked
    <2>. QED
        BY <2>1 DEF DnsCheck, TlsCheck, EndpointCheck
<1>3. "unhealthy" \notin DomainChecks(domain, route, seen.now)
      /\ "unknown" \notin DomainChecks(domain, route, seen.now)
    BY DEF DomainHealth
<1>4. dns = "healthy" /\ tls = "healthy" /\ origin = "healthy" /\ public = "healthy"
    <2>. HIDE DEF dns, tls, origin, public, route
    <2>. QED
        BY <1>1, <1>2, <1>3
<1>5. TlsCheck(domain, route, 0) = "healthy"
    <2>1. CASE ~domain.tls
        BY <2>1 DEF TlsCheck
    <2>2. CASE domain.tls
        <3>1. RouteOf[r].valid /\ \E e \in RouteOf[r].expires : e - seen.now > ExpiryMargin
            BY <1>4, <2>2 DEF TlsCheck, Checked
        <3>2. \A e \in RouteOf[r].expires : e \in Int
            BY RouteAssumption
        <3>3. ExpiryMargin \in Nat
            BY StaleAssumption
        <3>4. \E e \in RouteOf[r].expires : e - 0 > ExpiryMargin
            BY <3>1, <3>2, <3>3
        <3>5. \A q \in route : q.valid /\ \E e \in q.expires : e - 0 > ExpiryMargin
            BY <3>1, <3>4
        <3>. QED
            BY <3>5 DEF TlsCheck, Checked
    <2>. QED
        BY <2>1, <2>2
<1>6. DomainChecks(domain, route, 0) = {dns, TlsCheck(domain, route, 0), origin, public}
    BY DEF DomainChecks
<1>. QED
    BY <1>4, <1>5, <1>6

\* A page does not compare the environment files, but that is all it misses:
\* of a server it shows as healthy, whatever is shown of it and whatever
\* receipts there are, `audit` reports nothing else.
THEOREM PagesMissOnlyEnvironments ==
    ASSUME NEW inv, NEW server, NEW receipts, NEW snapshot, NEW now,
           ServerHealth(inv, server, snapshot, now) = "healthy",
           NEW c \in AuditServer(inv, server, receipts, snapshot)
    PROVE  c.status = "compliant" \/ c.check = "environment"
<1>. DEFINE none == [e \in {} |-> "none"]
            seen == CHOOSE x \in snapshot : TRUE
            type == Named(inv.serverTypes, server.serverType)
            facts == seen.facts
            components == ComponentsOnServer(inv, server.id)
            others == {Comparison("server_type.id", "", seen.type = type.id)}
                \cup AuditOs(type, facts) \cup AuditRaid(type, facts)
                \cup AuditMounts(type, facts) \cup AuditPackages(type, facts)
                \cup AuditServices(type, facts) \cup AuditFirewall(server, type, facts)
                \cup AuditServiceBinds({v \in inv.services : v.server = server.id}, facts)
                \cup AuditAlertRules(HostAlertRules(inv, server), facts)
                \cup AuditConfiguration(type, facts)
<1>1. snapshot # {}
    BY UnobservedIsNotHealthy
<1>2. ASSUME NEW R
      PROVE  AuditServer(inv, server, R, snapshot)
               = others \cup AuditComponentEnvironment(components, R, facts)
    <2>. DEFINE others1 == {Comparison("server_type.id", "", seen.type = type.id)}
                  \cup AuditOs(type, facts) \cup AuditRaid(type, facts)
                  \cup AuditMounts(type, facts) \cup AuditPackages(type, facts)
                  \cup AuditServices(type, facts) \cup AuditFirewall(server, type, facts)
                  \cup AuditServiceBinds({v \in inv.services : v.server = server.id}, facts)
                  \cup AuditAlertRules(HostAlertRules(inv, server), facts)
                environments == AuditComponentEnvironment(components, R, facts)
                configured == AuditConfiguration(type, facts)
    <2>1. AuditServer(inv, server, R, snapshot) = (others1 \cup environments) \cup configured
        BY <1>1, Zenon DEF AuditServer
    <2>2. others = others1 \cup configured
        OBVIOUS
    <2>. HIDE DEF others, others1, environments, configured
    <2>3. AuditServer(inv, server, R, snapshot) = others \cup environments
        BY <2>1, <2>2
    <2>. QED
        BY <2>3 DEF environments
<1>3. \A x \in AuditServer(inv, server, none, snapshot) : x.status = "compliant"
    <2>1. ServerTasks(AuditServer(inv, server, none, snapshot), snapshot, now) = {}
        BY HealthyHasNoTasks
    <2>. HIDE DEF none
    <2>. QED
        BY <2>1 DEF ServerTasks
<1>. HIDE DEF none, others
<1>4. \A x \in others : x.status = "compliant"
    BY <1>2, <1>3
<1>5. \A x \in AuditComponentEnvironment(components, receipts, facts) : x.check = "environment"
    BY DEF AuditComponentEnvironment, Comparison
<1>. QED
    BY <1>2, <1>4, <1>5

-----------------------------------------------------------------------------
(* Types and the lock.                                                     *)

\* Everything starts empty, idle and unlocked.
LEMMA InitTypes == Init => TypeInv
<1>. SUFFICES ASSUME Init PROVE TypeInv
    OBVIOUS
<1>1. PICK start \in Starts :
        /\ project = [is |-> start.fleet, since |-> -start.age]
        /\ routes = [d \in Domain |-> [is |-> start.routes[d], since |-> -start.age]]
        /\ observed = start.observed
        /\ dashboard = [Down EXCEPT !.inspects = start.inspects]
    BY DEF Init
<1>2. start.fleet \in Fleet \cup {Broken} /\ DOMAIN start.observed = Server
      /\ start.routes \in [Domain -> Route] /\ start.age \in Nat
    BY EvidenceAssumption
<1>3. inspections \in [Inspector -> Inspection]
    BY DEF Init, NoInspection, Inspection
<1>4. evidence \in [Domain -> Content] /\ temporary \in [Domain -> Content]
    BY DEF Init, Content
<1>5. Shapes
    BY <1>1, <1>2, <1>3, <1>4 DEF Shapes, Init, Down, NoThread, NoObserver
<1>6. \A i \in Inspector : HasRoute(i)
    BY DEF HasRoute, Init, NoInspection
<1>7. \A t \in Thread : HoldsLock(t)
    BY <1>1 DEF HoldsLock, Init, NoInspection, NoThread, Down, Inspector
<1>. QED
    BY <1>5, <1>6, <1>7 DEF TypeInv

\* A handler that leaves gives the lock back and shows at most one view.
LEMMA LeaveKeepsLock ==
    ASSUME TypeInv, NEW t \in Thread, NEW reply, NEW shown,
           shown = {} \/ \E v : shown = {v},
           threads[t].step \notin {"idle", "waiting"} \/ dashboard.holder = {},
           Leave(t, reply, shown),
           inspections'[t].step = "idle",
           \A u \in Thread \ {t} : inspections'[u].step # "idle" => inspections[u].step # "idle"
    PROVE  /\ DOMAIN dashboard' = DOMAIN dashboard
           /\ DOMAIN threads' = Thread
           /\ \A u \in Thread : DOMAIN threads'[u] = DOMAIN threads[u]
           /\ \A u \in Thread : HoldsLock(u)'
<1>1. DOMAIN dashboard' = DOMAIN dashboard /\ dashboard'.holder = {}
    BY DEF TypeInv, Shapes, Leave
<1>2. /\ DOMAIN threads' = Thread
      /\ threads'[t].step = "idle" /\ threads'[t].shown = shown
      /\ DOMAIN threads'[t] = DOMAIN threads[t]
      /\ \A u \in Thread \ {t} : threads'[u] = threads[u]
    BY DEF TypeInv, Shapes, Leave, Replied, NoThread
<1>3. \A u \in Thread \ {t} : threads[u].step \in {"idle", "waiting"}
    <2>1. dashboard.holder \in {{}, {t}}
        BY DEF TypeInv, HoldsLock
    <2>. QED
        BY <2>1 DEF TypeInv, HoldsLock
<1>4. ASSUME NEW u \in Thread
      PROVE  HoldsLock(u)'
    <2>1. CASE u = t
        BY <1>1, <1>2, <2>1 DEF HoldsLock
    <2>2. CASE u # t
        BY <1>1, <1>2, <1>3, <2>2 DEF HoldsLock, TypeInv
    <2>. QED
        BY <2>1, <2>2
<1>. QED
    BY <1>1, <1>2, <1>4

\* A step that leaves the dashboard alone leaves the lock as it was.
LEMMA OthersKeepLock ==
    ASSUME TypeInv, UNCHANGED serving,
           \A u \in Thread : inspections'[u].step # "idle" => inspections[u].step # "idle"
    PROVE  \A u \in Thread : HoldsLock(u)'
BY DEF TypeInv, HoldsLock, serving

\* An inspection that ends leaves the others.
LEMMA EndKeepsTypes ==
    ASSUME TypeInv, NEW i \in Inspector, EndInspection(i)
    PROVE  /\ inspections' \in [Inspector -> Inspection]
           /\ \A j \in Inspector : HasRoute(j)'
           /\ \A u \in Inspector : inspections'[u].step # "idle" => inspections[u].step # "idle"
           /\ inspections'[i].step = "idle"
<1>1. NoInspection \in Inspection /\ NoInspection.step = "idle"
    BY DEF NoInspection, Inspection
<1>2. /\ inspections' \in [Inspector -> Inspection]
      /\ inspections'[i] = NoInspection
      /\ \A j \in Inspector \ {i} : inspections'[j] = inspections[j]
    BY <1>1 DEF TypeInv, Shapes, EndInspection
<1>. QED
    BY <1>1, <1>2 DEF TypeInv, HasRoute

\* So does one that raises, which drops the request of a handler.
LEMMA RaisingKeepsTypes ==
    ASSUME TypeInv, NEW i \in Inspector, inspections[i].step # "idle", InspectionRaises(i),
           UNCHANGED <<world, files, observers>>
    PROVE  TypeInv'
<1>1. /\ inspections' \in [Inspector -> Inspection]
      /\ \A j \in Inspector : HasRoute(j)'
      /\ \A u \in Inspector : inspections'[u].step # "idle" => inspections[u].step # "idle"
      /\ inspections'[i].step = "idle"
    BY EndKeepsTypes DEF InspectionRaises
<1>2. CASE i \in Thread
    <2>1. threads[i].step = "loading"
        BY <1>2 DEF TypeInv, HoldsLock
    <2>2. /\ DOMAIN dashboard' = DOMAIN dashboard
          /\ DOMAIN threads' = Thread
          /\ \A u \in Thread : DOMAIN threads'[u] = DOMAIN threads[u]
          /\ \A u \in Thread : HoldsLock(u)'
        BY <1>1, <1>2, <2>1, LeaveKeepsLock DEF InspectionRaises, Raise, Inspector
    <2>3. Shapes'
        BY <1>1, <2>2 DEF TypeInv, Shapes, world, files
    <2>. QED
        BY <1>1, <2>2, <2>3 DEF TypeInv
<1>3. CASE i \notin Thread
    <2>1. UNCHANGED serving
        BY <1>3 DEF InspectionRaises
    <2>2. \A u \in Thread : HoldsLock(u)'
        BY <1>1, <2>1, OthersKeepLock DEF Inspector
    <2>3. Shapes'
        BY <1>1, <2>1 DEF TypeInv, Shapes, world, files, serving
    <2>. QED
        BY <1>1, <2>2, <2>3 DEF TypeInv
<1>. QED
    BY <1>2, <1>3

\* A write of an inspection keeps the types of the rest.
LEMMA WritingKeepsTypes ==
    ASSUME TypeInv, UNCHANGED <<world, observed, serving, observers>>,
           evidence' \in [Domain -> Content], temporary' \in [Domain -> Content],
           inspections' \in [Inspector -> Inspection],
           \A j \in Inspector : HasRoute(j)',
           \A u \in Inspector : inspections'[u].step # "idle" => inspections[u].step # "idle"
    PROVE  TypeInv'
<1>1. \A u \in Thread : HoldsLock(u)'
    BY OthersKeepLock DEF Inspector
<1>2. Shapes'
    BY DEF TypeInv, Shapes, world, serving
<1>. QED
    BY <1>1, <1>2 DEF TypeInv

\* Inspecting keeps the types, whoever inspects.
LEMMA InspectingKeepsTypes ==
    ASSUME TypeInv, NEW i \in Inspector, InspectStep(i)
    PROVE  TypeInv'
<1>1. inspections \in [Inspector -> Inspection] /\ HasRoute(i)
    BY DEF TypeInv, Shapes
<1>2. CASE Probe(i)
    <2>. DEFINE found == routes[Current(i)].is
    <2>1. found \in Route
        BY <1>1, <1>2, CurrentIsLeft DEF Probe, TypeInv, Shapes, Inspection
    <2>2. CASE RouteOf[found].raises
        BY <1>2, <2>2, RaisingKeepsTypes DEF Probe
    <2>3. CASE ~RouteOf[found].raises
        <3>1. /\ inspections' = [inspections EXCEPT ![i].step = "opening", ![i].route = found]
              /\ UNCHANGED <<world, files, serving, observers>>
            BY <1>2, <2>3 DEF Probe
        <3>. HIDE DEF found
        <3>2. inspections' \in [Inspector -> Inspection]
            BY <1>1, <2>1, <3>1 DEF Inspection
        <3>3. \A j \in Inspector : HasRoute(j)'
            BY <1>1, <1>2, <2>1, <3>1 DEF Probe, TypeInv, HasRoute, Inspection
        <3>4. \A u \in Inspector : inspections'[u].step # "idle" => inspections[u].step # "idle"
            BY <1>1, <1>2, <3>1 DEF Probe, Inspection
        <3>5. evidence' \in [Domain -> Content] /\ temporary' \in [Domain -> Content]
            BY <3>1 DEF TypeInv, Shapes, files
        <3>. QED
            BY <3>1, <3>2, <3>3, <3>4, <3>5, WritingKeepsTypes DEF files
    <2>. QED
        BY <2>2, <2>3
<1>3. CASE OpenTemporary(i)
    <2>1. /\ inspections' = [inspections EXCEPT ![i].step = "filling", ![i].in = "temporary"]
          /\ UNCHANGED <<world, observed, evidence, serving, observers>>
        BY <1>3 DEF OpenTemporary
    <2>2. inspections' \in [Inspector -> Inspection]
        BY <1>1, <2>1 DEF Inspection
    <2>3. \A j \in Inspector : HasRoute(j)'
        BY <1>1, <1>3, <2>1 DEF OpenTemporary, TypeInv, HasRoute, Inspection
    <2>4. \A u \in Inspector : inspections'[u].step # "idle" => inspections[u].step # "idle"
        BY <1>1, <1>3, <2>1 DEF OpenTemporary, Inspection
    <2>5. evidence' \in [Domain -> Content] /\ temporary' \in [Domain -> Content]
        <3>1. {Blank} \in Content
            BY DEF Content
        <3>. QED
            BY <1>3, <3>1 DEF OpenTemporary, TypeInv, Shapes
    <2>. QED
        BY <2>1, <2>2, <2>3, <2>4, <2>5, WritingKeepsTypes
<1>4. CASE FillTemporary(i)
    <2>1. /\ inspections' = [inspections EXCEPT ![i].step = "replacing"]
          /\ UNCHANGED <<world, observed, serving, observers>>
        BY <1>4 DEF FillTemporary
    <2>2. inspections' \in [Inspector -> Inspection]
        BY <1>1, <2>1 DEF Inspection
    <2>3. \A j \in Inspector : HasRoute(j)'
        BY <1>1, <1>4, <2>1 DEF FillTemporary, TypeInv, HasRoute, Inspection
    <2>4. \A u \in Inspector : inspections'[u].step # "idle" => inspections[u].step # "idle"
        BY <1>1, <1>4, <2>1 DEF FillTemporary, Inspection
    <2>5. evidence' \in [Domain -> Content] /\ temporary' \in [Domain -> Content]
        <3>1. inspections[i].route \in Route
            BY <1>1, <1>4 DEF FillTemporary, HasRoute
        <3>. QED
            BY <1>4, <3>1, FilledIsContent DEF FillTemporary, TypeInv, Shapes
    <2>. QED
        BY <2>1, <2>2, <2>3, <2>4, <2>5, WritingKeepsTypes
<1>5. CASE ReplaceFile(i)
    <2>. DEFINE d == Current(i)
    <2>1. d \in Domain
        BY <1>1, <1>5, CurrentIsLeft DEF ReplaceFile, HasRoute, Inspection
    <2>2. CASE temporary[d] = {}
        BY <1>5, <2>2, RaisingKeepsTypes DEF ReplaceFile, files
    <2>3. CASE temporary[d] # {}
        <3>1. /\ evidence' = [evidence EXCEPT ![d] = temporary[d]]
              /\ temporary' = [temporary EXCEPT ![d] = {}]
              /\ inspections' = Moved(i, d)
              /\ UNCHANGED <<world, observed, serving, observers>>
            BY <1>5, <2>3 DEF ReplaceFile
        <3>. HIDE DEF d
        <3>2. evidence' \in [Domain -> Content] /\ temporary' \in [Domain -> Content]
            BY <2>1, <3>1 DEF TypeInv, Shapes, Content
        <3>3. ASSUME NEW j \in Inspector
              PROVE  /\ inspections'[j] \in Inspection
                     /\ HasRoute(j)'
                     /\ inspections'[j].step # "idle" => inspections[j].step # "idle"
            <4>1. CASE j = i
                <5>1. inspections'[j] =
                        [NoInspection EXCEPT !.step = "probing", !.todo = inspections[i].todo \ {d}]
                    BY <3>1, <4>1 DEF Moved
                <5>2. inspections'[j].step = "probing" /\ inspections'[j] \in Inspection
                    <6>1. inspections[i].todo \ {d} \in SUBSET Domain
                        BY <1>1 DEF Inspection
                    <6>. QED
                        BY <5>1, <6>1 DEF NoInspection, Inspection
                <5>. QED
                    BY <1>5, <4>1, <5>2 DEF ReplaceFile, HasRoute
            <4>2. CASE j # i /\ inspections[j].step = "filling" /\ Current(j) = d
                <5>1. PICK in \in {"file", "gone"} :
                          inspections'[j] = [inspections[j] EXCEPT !.in = in]
                    BY <3>1, <4>2 DEF Moved
                <5>2. inspections[j] \in Inspection /\ HasRoute(j)
                    BY DEF TypeInv, Shapes
                <5>. QED
                    BY <4>2, <5>1, <5>2 DEF Inspection, HasRoute
            <4>3. CASE j # i /\ ~(inspections[j].step = "filling" /\ Current(j) = d)
                <5>1. inspections'[j] = inspections[j]
                    BY <3>1, <4>3 DEF Moved
                <5>. QED
                    BY <5>1 DEF TypeInv, Shapes, HasRoute
            <4>. QED
                BY <4>1, <4>2, <4>3
        <3>4. inspections' = [j \in Inspector |-> inspections'[j]]
            BY <3>1 DEF Moved
        <3>5. inspections' \in [Inspector -> Inspection]
            BY <3>3, <3>4
        <3>. QED
            BY <3>1, <3>2, <3>3, <3>5, WritingKeepsTypes
    <2>. QED
        BY <2>2, <2>3
<1>. QED
    BY <1>2, <1>3, <1>4, <1>5 DEF InspectStep

\* The types hold in every step.
LEMMA NextTypes == TypeInv /\ [Next]_vars => TypeInv'
<1>. SUFFICES ASSUME TypeInv, [Next]_vars PROVE TypeInv'
    OBVIOUS
<1>. USE DEF world, files, serving
<1>1. CASE UNCHANGED vars
    BY <1>1 DEF TypeInv, Shapes, HasRoute, HoldsLock, vars
<1>2. CASE Tick
    BY <1>2, OthersKeepLock DEF Tick, TypeInv, Shapes, HasRoute
<1>3. CASE Change
    <2>1. routes' \in [Domain -> [is : Route, since : Int]]
        <3>1. CASE UNCHANGED routes
            BY <3>1 DEF TypeInv, Shapes
        <3>2. CASE \E d \in Domain, r \in Route :
                     routes' = [routes EXCEPT ![d] = [is |-> r, since |-> clock]]
            BY <3>2 DEF TypeInv, Shapes
        <3>. QED
            BY <1>3, <3>1, <3>2 DEF Change
    <2>2. project'.is \in Fleet \cup {Broken}
        <3>1. CASE UNCHANGED project
            BY <3>1 DEF TypeInv, Shapes
        <3>2. CASE \E f \in Fleet \cup {Broken} : project' = [is |-> f, since |-> clock]
            BY <3>2
        <3>. QED
            BY <1>3, <3>1, <3>2 DEF Change
    <2>. QED
        BY <1>3, <2>1, <2>2, OthersKeepLock DEF Change, TypeInv, Shapes, HasRoute
<1>4. ASSUME NEW o \in Observer,
             BeginObserve(o) \/ Gather(o) \/ WriteSnapshot(o) \/ EndObserve(o) \/ CutObserve(o)
      PROVE  TypeInv'
    <2>1. UNCHANGED <<world, evidence, temporary, serving, inspections>>
        BY <1>4 DEF BeginObserve, Gather, WriteSnapshot, EndObserve, CutObserve
    <2>2. DOMAIN observed' = Server
        BY <1>4 DEF BeginObserve, Gather, WriteSnapshot, EndObserve, CutObserve, TypeInv, Shapes
    <2>3. /\ DOMAIN observers' = Observer
          /\ \A p \in Observer : DOMAIN observers'[p] = DOMAIN observers[p]
        BY <1>4 DEF BeginObserve, Gather, WriteSnapshot, EndObserve, EndsWith, CutObserve,
                    NoObserver, TypeInv, Shapes
    <2>4. \A u \in Thread : HoldsLock(u)'
        BY <2>1, OthersKeepLock
    <2>. QED
        BY <2>1, <2>2, <2>3, <2>4 DEF TypeInv, Shapes, HasRoute
<1>5. ASSUME NEW p \in Prober, BeginProbe(p) \/ EndProbe(p) \/ CutProbe(p)
      PROVE  TypeInv'
    <2>1. p \in Inspector /\ p \notin Thread
        BY EvidenceAssumption DEF Inspector
    <2>2. /\ inspections' \in [Inspector -> Inspection]
          /\ \A j \in Inspector : HasRoute(j)'
          /\ \A u \in Thread : inspections'[u].step # "idle" => inspections[u].step # "idle"
        <3>1. CASE BeginProbe(p)
            <4>1. DomainsOf(project.is) \in SUBSET Domain
                BY <3>1, DomainsThereAre DEF BeginProbe, TypeInv, Shapes
            <4>2. PICK me \in Inspection :
                    me.step = "probing" /\ inspections' = [inspections EXCEPT ![p] = me]
                BY <3>1, <4>1 DEF BeginProbe, Inspect, NoInspection, Inspection
            <4>. QED
                BY <2>1, <4>2 DEF TypeInv, Shapes, HasRoute, Inspector
        <3>2. CASE EndProbe(p) \/ CutProbe(p)
            BY <2>1, <3>2, EndKeepsTypes DEF EndProbe, CutProbe, EndInspection, Inspector
        <3>. QED
            BY <1>5, <3>1, <3>2
    <2>3. UNCHANGED <<world, observed, evidence, temporary, serving, observers>>
        BY <1>5 DEF BeginProbe, EndProbe, CutProbe
    <2>4. \A u \in Thread : HoldsLock(u)'
        BY <2>2, <2>3, OthersKeepLock
    <2>. QED
        BY <2>2, <2>3, <2>4 DEF TypeInv, Shapes
<1>6. ASSUME NEW i \in Inspector, InspectStep(i)
      PROVE  TypeInv'
    BY <1>6, InspectingKeepsTypes
<1>7. ASSUME NEW t \in Thread, Request(t)
      PROVE  TypeInv'
    <2>1. /\ DOMAIN threads' = Thread
          /\ threads'[t].step = "waiting" /\ threads'[t].shown = {}
          /\ DOMAIN threads'[t] = DOMAIN threads[t]
          /\ \A u \in Thread \ {t} : threads'[u] = threads[u]
        BY <1>7 DEF Request, NoThread, TypeInv, Shapes
    <2>2. ASSUME NEW u \in Thread
          PROVE  HoldsLock(u)'
        BY <1>7, <2>1 DEF Request, TypeInv, HoldsLock
    <2>3. Shapes'
        BY <1>7, <2>1 DEF Request, TypeInv, Shapes
    <2>. QED
        BY <1>7, <2>2, <2>3 DEF Request, TypeInv, HasRoute
<1>8. ASSUME NEW t \in Thread, Enter(t)
      PROVE  TypeInv'
    <2>1. CASE \E c : Leave(t, "view", {c.view})
        <3>1. inspections[t].step = "idle" /\ UNCHANGED inspections
            BY <1>8 DEF Enter, TypeInv, HoldsLock
        <3>2. /\ DOMAIN dashboard' = DOMAIN dashboard
              /\ DOMAIN threads' = Thread
              /\ \A u \in Thread : DOMAIN threads'[u] = DOMAIN threads[u]
              /\ \A u \in Thread : HoldsLock(u)'
            BY <1>8, <2>1, <3>1, LeaveKeepsLock DEF Enter
        <3>3. Shapes'
            BY <1>8, <3>1, <3>2 DEF Enter, TypeInv, Shapes
        <3>. QED
            BY <3>1, <3>2, <3>3 DEF TypeInv, HasRoute
    <2>2. CASE /\ dashboard' = [dashboard EXCEPT !.holder = {t}]
               /\ threads' = [threads EXCEPT ![t].step = "validating", ![t].now = clock]
        <3>1. /\ DOMAIN threads' = Thread
              /\ threads'[t].step = "validating" /\ threads'[t].shown = threads[t].shown
              /\ DOMAIN threads'[t] = DOMAIN threads[t]
              /\ \A u \in Thread \ {t} : threads'[u] = threads[u]
            BY <2>2 DEF TypeInv, Shapes
        <3>2. DOMAIN dashboard' = DOMAIN dashboard /\ dashboard'.holder = {t}
            BY <2>2 DEF TypeInv, Shapes
        <3>3. ASSUME NEW u \in Thread
              PROVE  HoldsLock(u)'
            <4>1. dashboard.holder = {} /\ UNCHANGED inspections
                BY <1>8 DEF Enter
            <4>2. CASE u = t
                <5>1. /\ inspections[t].step = "idle"
                      /\ threads[t].shown = {} \/ \E v : threads[t].shown = {v}
                    BY <1>8 DEF Enter, TypeInv, HoldsLock
                <5>. QED
                    BY <3>1, <3>2, <4>1, <4>2, <5>1 DEF HoldsLock
            <4>3. CASE u # t
                BY <3>1, <3>2, <4>1, <4>3 DEF TypeInv, HoldsLock
            <4>. QED
                BY <4>2, <4>3
        <3>4. Shapes'
            BY <1>8, <3>1, <3>2 DEF Enter, TypeInv, Shapes
        <3>. QED
            BY <1>8, <3>3, <3>4 DEF Enter, TypeInv, HasRoute
    <2>. QED
        BY <1>8, <2>1, <2>2 DEF Enter
<1>9. ASSUME NEW t \in Thread, ReadProject(t)
      PROVE  TypeInv'
    <2>1. CASE project.is = Broken
        <3>1. inspections[t].step = "idle" /\ UNCHANGED inspections
            BY <1>9, <2>1 DEF ReadProject, TypeInv, HoldsLock
        <3>2. /\ DOMAIN dashboard' = DOMAIN dashboard
              /\ DOMAIN threads' = Thread
              /\ \A u \in Thread : DOMAIN threads'[u] = DOMAIN threads[u]
              /\ \A u \in Thread : HoldsLock(u)'
            BY <1>9, <2>1, <3>1, LeaveKeepsLock DEF ReadProject, Raise
        <3>3. Shapes'
            BY <1>9, <3>1, <3>2 DEF ReadProject, TypeInv, Shapes
        <3>. QED
            BY <3>1, <3>2, <3>3 DEF TypeInv, HasRoute
    <2>2. CASE project.is # Broken
        <3>1. /\ threads' = [threads EXCEPT ![t].fleet = project.is, ![t].read = clock,
                                            ![t].step = "loading"]
              /\ UNCHANGED <<world, observed, evidence, temporary, dashboard, observers>>
            BY <1>9, <2>2 DEF ReadProject
        <3>2. /\ DOMAIN threads' = Thread
              /\ threads'[t].step = "loading" /\ threads'[t].shown = threads[t].shown
              /\ DOMAIN threads'[t] = DOMAIN threads[t]
              /\ \A u \in Thread \ {t} : threads'[u] = threads[u]
            BY <3>1 DEF TypeInv, Shapes
        <3>3. /\ inspections' \in [Inspector -> Inspection]
              /\ \A j \in Inspector : HasRoute(j)'
              /\ \A u \in Thread \ {t} : inspections'[u] = inspections[u]
            <4>1. CASE dashboard.inspects
                <5>1. DomainsOf(project.is) \in SUBSET Domain
                    BY <2>2, DomainsThereAre DEF TypeInv, Shapes
                <5>2. PICK me \in Inspection :
                        me.step = "probing" /\ inspections' = [inspections EXCEPT ![t] = me]
                    BY <1>9, <2>2, <4>1, <5>1 DEF ReadProject, Inspect, NoInspection, Inspection
                <5>. QED
                    BY <5>2 DEF TypeInv, Shapes, HasRoute, Inspector
            <4>2. CASE ~dashboard.inspects
                BY <1>9, <2>2, <4>2 DEF ReadProject, TypeInv, Shapes, HasRoute
            <4>. QED
                BY <4>1, <4>2
        <3>4. ASSUME NEW u \in Thread
              PROVE  HoldsLock(u)'
            <4>1. HoldsLock(u) /\ threads[t].step = "validating"
                BY <1>9 DEF ReadProject, TypeInv
            <4>2. CASE u = t
                BY <3>1, <3>2, <4>1, <4>2 DEF HoldsLock
            <4>3. CASE u # t
                BY <3>1, <3>2, <3>3, <4>1, <4>3 DEF HoldsLock
            <4>. QED
                BY <4>2, <4>3
        <3>5. Shapes'
            BY <3>1, <3>2, <3>3 DEF TypeInv, Shapes
        <3>. QED
            BY <3>3, <3>4, <3>5 DEF TypeInv
    <2>. QED
        BY <2>1, <2>2
<1>10. ASSUME NEW t \in Thread, LoadObserved(t)
       PROVE  TypeInv'
    <2>1. /\ threads[t].step = "loading"
          /\ threads' = [threads EXCEPT ![t].snapshots = {observed}, ![t].step = "loaded"]
          /\ EndInspection(t)
          /\ UNCHANGED <<world, files, dashboard, observers>>
        BY <1>10 DEF LoadObserved, EndInspect
    <2>2. /\ DOMAIN threads' = Thread
          /\ threads'[t].step = "loaded" /\ threads'[t].shown = threads[t].shown
          /\ DOMAIN threads'[t] = DOMAIN threads[t]
          /\ \A u \in Thread \ {t} : threads'[u] = threads[u]
        BY <2>1 DEF TypeInv, Shapes
    <2>3. /\ inspections' \in [Inspector -> Inspection]
          /\ \A j \in Inspector : HasRoute(j)'
          /\ \A u \in Inspector : inspections'[u].step # "idle" => inspections[u].step # "idle"
          /\ inspections'[t].step = "idle"
        BY <2>1, EndKeepsTypes DEF Inspector
    <2>4. ASSUME NEW u \in Thread
          PROVE  HoldsLock(u)'
        <3>1. HoldsLock(u) /\ u \in Inspector
            BY DEF TypeInv, Inspector
        <3>2. CASE u = t
            BY <2>1, <2>2, <2>3, <3>1, <3>2 DEF HoldsLock
        <3>3. CASE u # t
            BY <2>1, <2>2, <2>3, <3>1, <3>3 DEF HoldsLock
        <3>. QED
            BY <3>2, <3>3
    <2>5. Shapes'
        BY <2>1, <2>2, <2>3 DEF TypeInv, Shapes
    <2>. QED
        BY <2>3, <2>4, <2>5 DEF TypeInv
<1>11. ASSUME NEW t \in Thread, LoadDomains(t)
       PROVE  TypeInv'
    <2>1. threads[t].step = "loaded" /\ inspections[t].step = "idle"
          /\ UNCHANGED <<world, files, observers, inspections>>
        BY <1>11 DEF LoadDomains, TypeInv, HoldsLock
    <2>2. /\ DOMAIN dashboard' = DOMAIN dashboard
          /\ DOMAIN threads' = Thread
          /\ \A u \in Thread : DOMAIN threads'[u] = DOMAIN threads[u]
          /\ \A u \in Thread : HoldsLock(u)'
        <3>1. CASE Raise(t, "invalid")
            BY <2>1, <3>1, LeaveKeepsLock DEF Raise
        <3>2. CASE /\ threads' = [threads EXCEPT ![t].domains = {evidence}, ![t].step = "viewing"]
                   /\ UNCHANGED dashboard
            <4>1. /\ DOMAIN threads' = Thread
                  /\ threads'[t].step = "viewing" /\ threads'[t].shown = threads[t].shown
                  /\ DOMAIN threads'[t] = DOMAIN threads[t]
                  /\ \A u \in Thread \ {t} : threads'[u] = threads[u]
                BY <3>2 DEF TypeInv, Shapes
            <4>2. ASSUME NEW u \in Thread
                  PROVE  HoldsLock(u)'
                BY <2>1, <3>2, <4>1 DEF TypeInv, HoldsLock
            <4>. QED
                BY <3>2, <4>1, <4>2
        <3>. QED
            BY <1>11, <3>1, <3>2 DEF LoadDomains
    <2>3. Shapes'
        BY <2>1, <2>2 DEF TypeInv, Shapes
    <2>. QED
        BY <2>1, <2>2, <2>3 DEF TypeInv, HasRoute
<1>12. ASSUME NEW t \in Thread, BuildView(t)
       PROVE  TypeInv'
    <2>1. /\ threads[t].step = "viewing" /\ inspections[t].step = "idle"
          /\ UNCHANGED <<world, files, observers, inspections>>
        BY <1>12 DEF BuildView, TypeInv, HoldsLock
    <2>2. PICK view, cached :
            /\ threads' = Replied(t, "view", {view})
            /\ dashboard' = [dashboard EXCEPT !.holder = {}, !.up = TRUE, !.cached = cached]
        BY <1>12 DEF BuildView
    <2>3. DOMAIN dashboard' = DOMAIN dashboard /\ dashboard'.holder = {}
        BY <2>2 DEF TypeInv, Shapes
    <2>4. /\ DOMAIN threads' = Thread
          /\ threads'[t].step = "idle" /\ threads'[t].shown = {view}
          /\ DOMAIN threads'[t] = DOMAIN threads[t]
          /\ \A u \in Thread \ {t} : threads'[u] = threads[u]
        BY <2>2 DEF TypeInv, Shapes, Replied, NoThread
    <2>5. ASSUME NEW u \in Thread
          PROVE  HoldsLock(u)'
        <3>1. dashboard.holder = {t}
            BY <2>1 DEF TypeInv, HoldsLock
        <3>2. CASE u = t
            BY <2>1, <2>3, <2>4, <3>2 DEF HoldsLock
        <3>3. CASE u # t
            <4>1. threads[u].step \in {"idle", "waiting"}
                BY <3>1, <3>3 DEF TypeInv, HoldsLock
            <4>. QED
                BY <2>1, <2>3, <2>4, <3>3, <4>1 DEF TypeInv, HoldsLock
        <3>. QED
            BY <3>2, <3>3
    <2>6. Shapes'
        BY <2>1, <2>3, <2>4 DEF TypeInv, Shapes
    <2>. QED
        BY <2>1, <2>5, <2>6 DEF TypeInv, HasRoute
<1>13. CASE CutDashboard
    <2>1. /\ DOMAIN dashboard' = DOMAIN dashboard /\ dashboard'.holder = {}
          /\ UNCHANGED <<world, files, observers>>
        BY <1>13 DEF CutDashboard, Down, TypeInv, Shapes
    <2>2. /\ DOMAIN threads' = Thread
          /\ \A u \in Thread : /\ threads'[u].step = "idle" /\ threads'[u].shown = {}
                               /\ DOMAIN threads'[u] = DOMAIN threads[u]
        BY <1>13 DEF CutDashboard, NoThread, TypeInv, Shapes
    <2>3. \A j \in Inspector :
            inspections'[j] = IF j \in Thread THEN NoInspection ELSE inspections[j]
        BY <1>13 DEF CutDashboard
    <2>4. NoInspection \in Inspection /\ NoInspection.step = "idle"
        BY DEF NoInspection, Inspection
    <2>5. inspections' \in [Inspector -> Inspection]
        BY <1>13, <2>4 DEF CutDashboard, TypeInv, Shapes
    <2>6. \A j \in Inspector : HasRoute(j)'
        BY <2>3, <2>4 DEF TypeInv, HasRoute
    <2>7. \A u \in Thread : HoldsLock(u)'
        BY <2>1, <2>2, <2>3, <2>4 DEF HoldsLock, Inspector
    <2>8. Shapes'
        BY <2>1, <2>2, <2>5 DEF TypeInv, Shapes
    <2>. QED
        BY <2>6, <2>7, <2>8 DEF TypeInv
<1>14. CASE Done
    BY <1>1, <1>14 DEF Done
<1>. QED
    BY <1>1, <1>2, <1>3, <1>4, <1>5, <1>6, <1>7, <1>8, <1>9, <1>10, <1>11, <1>12, <1>13, <1>14
    DEF Next, Handle, Inspector

\* The project, the files and the steps of the handlers have their types, a
\* handler holds the lock exactly while it builds a view, and answers with at
\* most one: no exception leaves it locked, whatever a build raises.
THEOREM TypeCorrect == Spec => []TypeOK
<1>1. TypeInv => TypeOK
    <2>1. ASSUME TypeInv, NEW t \in Thread PROVE Cardinality(threads[t].shown) <= 1
        <3>1. threads[t].shown = {} \/ \E v : threads[t].shown = {v}
            BY <2>1 DEF TypeInv, HoldsLock
        <3>2. CASE threads[t].shown = {}
            BY <3>2, FS_EmptySet
        <3>3. CASE \E v : threads[t].shown = {v}
            <4>1. PICK v : threads[t].shown = {v}
                BY <3>3
            <4>2. Cardinality({v}) = 1
                BY FS_Singleton
            <4>. QED
                BY <4>1, <4>2
        <3>. QED
            BY <3>1, <3>2, <3>3
    <2>2. ASSUME TypeInv, NEW d \in Domain
          PROVE  {evidence[d], temporary[d]} \subseteq
                     {{}} \cup {{c} : c \in Route \cup {Blank, Torn}}
        <3>1. evidence[d] \in Content /\ temporary[d] \in Content
            BY <2>2 DEF TypeInv, Shapes
        <3>. QED
            BY <3>1 DEF Content
    <2>3. ASSUME TypeInv, NEW t \in Thread
          PROVE  /\ threads[t].step \in {"idle", "waiting", "validating", "loading", "loaded",
                                         "viewing"}
                 /\ threads[t].step \notin {"idle", "waiting"} <=> dashboard.holder = {t}
        BY <2>3 DEF TypeInv, HoldsLock
    <2>. QED
        BY <2>1, <2>2, <2>3 DEF TypeInv, TypeOK, Shapes
<1>2. TypeInv /\ [Next]_vars => TypeInv'
    BY NextTypes
<1>. QED
    BY <1>1, <1>2, InitTypes, PTL DEF Spec

-----------------------------------------------------------------------------
(* The age of what is served.                                              *)

\* A view is served for at least a second.
LEMMA RefreshBound == Refresh \in Nat /\ Refresh >= 1
BY EvidenceAssumption

\* Every time is zero at first and nothing is cached.
LEMMA InitTimes == Init => TimesInv
BY DEF Init, TimesInv, InOrder, NoThread, Down

\* Time that passes while nobody does anything to a thread disturbs nothing.
LEMMA OthersKeepTimes ==
    ASSUME TypeInv, TimesInv, NEW u \in Thread, threads'[u] = threads[u],
           clock' \in Nat, clock' >= clock
    PROVE  InOrder(u)'
<1>1. clock \in Nat /\ InOrder(u)
    BY DEF TypeInv, Shapes, TimesInv
<1>. QED
    BY <1>1 DEF InOrder

\* A handler that leaves shows only what is recent.
LEMMA LeaveKeepsTimes ==
    ASSUME TypeInv, TimesInv, NEW t \in Thread, NEW reply, NEW shown,
           \A v \in shown : v.read \in Nat /\ v.read > threads[t].arrived - Refresh,
           threads' = Replied(t, reply, shown),
           UNCHANGED clock
    PROVE  \A u \in Thread : InOrder(u)'
<1>1. /\ threads'[t].step = "idle" /\ threads'[t].shown = shown
      /\ threads'[t].arrived = threads[t].arrived
      /\ \A u \in Thread \ {t} : threads'[u] = threads[u]
    BY DEF Replied, NoThread, TypeInv, Shapes
<1>2. InOrder(t)'
    BY <1>1 DEF TimesInv, InOrder
<1>3. clock \in Nat
    BY DEF TypeInv, Shapes
<1>4. \A u \in Thread \ {t} : InOrder(u)'
    BY <1>1, <1>3, OthersKeepTimes
<1>. QED
    BY <1>2, <1>4

\* The times stay in order.
LEMMA NextTimes == TypeInv /\ TimesInv /\ [Next]_vars => TimesInv'
<1>. SUFFICES ASSUME TypeInv, TimesInv, [Next]_vars PROVE TimesInv'
    OBVIOUS
<1>. USE DEF world, serving
<1>0. clock \in Nat /\ DOMAIN dashboard = {"up", "inspects", "holder", "cached"}
    BY DEF TypeInv, Shapes
<1>1. CASE clock' \in Nat /\ clock' >= clock /\ UNCHANGED serving
    BY <1>1, OthersKeepTimes DEF TimesInv
<1>2. CASE UNCHANGED vars \/ Done
    BY <1>0, <1>1, <1>2 DEF vars, Done
<1>3. CASE Tick \/ Change
    BY <1>0, <1>1, <1>3 DEF Tick, Change
<1>4. ASSUME NEW o \in Observer,
             BeginObserve(o) \/ Gather(o) \/ WriteSnapshot(o) \/ EndObserve(o) \/ CutObserve(o)
      PROVE  TimesInv'
    <2>1. UNCHANGED <<clock, dashboard, threads>>
        BY <1>4 DEF BeginObserve, Gather, WriteSnapshot, EndObserve, CutObserve
    <2>. QED
        BY <1>0, <1>1, <2>1
<1>5. ASSUME NEW p \in Prober, BeginProbe(p) \/ EndProbe(p) \/ CutProbe(p)
      PROVE  TimesInv'
    BY <1>0, <1>1, <1>5 DEF BeginProbe, EndProbe, CutProbe
<1>6. ASSUME NEW t \in Thread, NEW reply, Leave(t, reply, {}), UNCHANGED clock
      PROVE  TimesInv'
    <2>1. \A u \in Thread : InOrder(u)'
        BY <1>6, LeaveKeepsTimes DEF Leave
    <2>2. dashboard'.cached = dashboard.cached
        BY <1>0, <1>6 DEF Leave
    <2>. QED
        BY <2>1, <2>2 DEF TimesInv
<1>7. ASSUME NEW i \in Inspector, InspectStep(i)
      PROVE  TimesInv'
    <2>1. UNCHANGED clock
        BY <1>7 DEF InspectStep, Probe, OpenTemporary, FillTemporary, ReplaceFile
    <2>2. UNCHANGED serving \/ (i \in Thread /\ Leave(i, "dropped", {}))
        BY <1>7 DEF InspectStep, Probe, OpenTemporary, FillTemporary, ReplaceFile,
                    InspectionRaises, Raise
    <2>. QED
        BY <1>0, <1>1, <1>6, <2>1, <2>2
<1>8. ASSUME NEW t \in Thread, NEW me, threads' = [threads EXCEPT ![t] = me],
             me.shown = threads[t].shown, me.arrived = threads[t].arrived,
             me.step \notin {"idle", "waiting"} =>
               me.now \in Nat /\ me.arrived <= me.now /\ me.now <= clock,
             me.step \in {"loading", "loaded", "viewing"} =>
               me.read \in Nat /\ me.now <= me.read,
             dashboard'.cached = dashboard.cached, UNCHANGED clock
      PROVE  TimesInv'
    <2>1. threads'[t] = me /\ \A u \in Thread \ {t} : threads'[u] = threads[u]
        BY <1>8 DEF TypeInv, Shapes
    <2>2. InOrder(t)'
        BY <1>8, <2>1 DEF TimesInv, InOrder
    <2>3. \A u \in Thread \ {t} : InOrder(u)'
        BY <1>0, <1>8, <2>1, OthersKeepTimes
    <2>. QED
        BY <1>8, <2>2, <2>3 DEF TimesInv
<1>9. ASSUME NEW t \in Thread, Request(t)
      PROVE  TimesInv'
    <2>1. /\ threads'[t].step = "waiting" /\ threads'[t].shown = {}
          /\ threads'[t].arrived = clock
          /\ \A u \in Thread \ {t} : threads'[u] = threads[u]
          /\ UNCHANGED <<clock, dashboard>>
        BY <1>9 DEF Request, NoThread, TypeInv, Shapes
    <2>2. InOrder(t)'
        BY <1>0, <2>1 DEF InOrder
    <2>3. \A u \in Thread \ {t} : InOrder(u)'
        BY <1>0, <2>1, OthersKeepTimes
    <2>. QED
        BY <2>1, <2>2, <2>3 DEF TimesInv
<1>10. ASSUME NEW t \in Thread, Enter(t)
       PROVE  TimesInv'
    <2>. DEFINE current == {c \in dashboard.cached : clock - c.builtAt < Refresh}
    <2>1. CASE \E c \in current : Leave(t, "view", {c.view})
        <3>1. PICK c \in current : Leave(t, "view", {c.view})
            BY <2>1
        <3>2. /\ c.builtAt \in Nat /\ c.view.read \in Nat /\ c.builtAt <= c.view.read
              /\ clock - c.builtAt < Refresh
            BY <3>1 DEF TimesInv
        <3>3. threads[t].arrived \in Nat /\ threads[t].arrived <= clock
            BY DEF TimesInv, InOrder
        <3>4. c.view.read > threads[t].arrived - Refresh
            BY <1>0, <3>2, <3>3, RefreshBound
        <3>5. UNCHANGED clock
            BY <1>10 DEF Enter
        <3>6. \A v \in {c.view} : v.read \in Nat /\ v.read > threads[t].arrived - Refresh
            BY <3>2, <3>4
        <3>7. \A u \in Thread : InOrder(u)'
            BY <3>1, <3>5, <3>6, LeaveKeepsTimes DEF Leave
        <3>8. dashboard'.cached = dashboard.cached
            BY <1>0, <3>1 DEF Leave
        <3>. QED
            BY <3>7, <3>8 DEF TimesInv
    <2>2. CASE /\ dashboard' = [dashboard EXCEPT !.holder = {t}]
               /\ threads' = [threads EXCEPT ![t].step = "validating", ![t].now = clock]
        <3>. DEFINE me == [threads[t] EXCEPT !.step = "validating", !.now = clock]
        <3>1. me.step = "validating" /\ me.now = clock /\ me.shown = threads[t].shown
              /\ me.arrived = threads[t].arrived
            BY DEF TypeInv, Shapes
        <3>2. threads' = [threads EXCEPT ![t] = me]
            BY <2>2
        <3>. HIDE DEF me
        <3>3. threads[t].arrived \in Nat /\ threads[t].arrived <= clock
            BY DEF TimesInv, InOrder
        <3>4. UNCHANGED clock /\ dashboard'.cached = dashboard.cached
            BY <1>0, <1>10, <2>2 DEF Enter
        <3>5. /\ me.now \in Nat /\ me.arrived <= me.now /\ me.now <= clock
              /\ me.step \notin {"loading", "loaded", "viewing"}
            BY <1>0, <3>1, <3>3
        <3>. QED
            BY <1>8, <3>1, <3>2, <3>4, <3>5
    <2>. QED
        BY <1>10, <2>1, <2>2 DEF Enter
<1>11. ASSUME NEW t \in Thread, ReadProject(t)
       PROVE  TimesInv'
    <2>1. CASE project.is = Broken
        BY <1>6, <1>11, <2>1 DEF ReadProject, Raise
    <2>2. CASE project.is # Broken
        <3>. DEFINE me == [threads[t] EXCEPT !.fleet = project.is, !.read = clock,
                                             !.step = "loading"]
        <3>1. /\ me.step = "loading" /\ me.now = threads[t].now /\ me.shown = threads[t].shown
              /\ me.arrived = threads[t].arrived /\ me.read = clock
            BY DEF TypeInv, Shapes
        <3>2. threads' = [threads EXCEPT ![t] = me]
            BY <1>11, <2>2 DEF ReadProject
        <3>. HIDE DEF me
        <3>3. threads[t].now \in Nat /\ threads[t].arrived <= threads[t].now
              /\ threads[t].now <= clock
            BY <1>11 DEF ReadProject, TimesInv, InOrder
        <3>4. UNCHANGED <<clock, dashboard>>
            BY <1>11, <2>2 DEF ReadProject
        <3>. QED
            BY <1>0, <1>8, <3>1, <3>2, <3>3, <3>4
    <2>. QED
        BY <2>1, <2>2
<1>12. ASSUME NEW t \in Thread, LoadObserved(t)
       PROVE  TimesInv'
    <2>. DEFINE me == [threads[t] EXCEPT !.snapshots = {observed}, !.step = "loaded"]
    <2>1. /\ me.step = "loaded" /\ me.now = threads[t].now /\ me.shown = threads[t].shown
          /\ me.arrived = threads[t].arrived /\ me.read = threads[t].read
        BY DEF TypeInv, Shapes
    <2>2. threads' = [threads EXCEPT ![t] = me]
        BY <1>12 DEF LoadObserved
    <2>. HIDE DEF me
    <2>3. /\ threads[t].now \in Nat /\ threads[t].arrived <= threads[t].now
          /\ threads[t].now <= clock
          /\ threads[t].read \in Nat /\ threads[t].now <= threads[t].read
        BY <1>12 DEF LoadObserved, EndInspect, TimesInv, InOrder
    <2>4. UNCHANGED <<clock, dashboard>>
        BY <1>12 DEF LoadObserved
    <2>. QED
        BY <1>8, <2>1, <2>2, <2>3, <2>4
<1>13. ASSUME NEW t \in Thread, LoadDomains(t)
       PROVE  TimesInv'
    <2>1. CASE Raise(t, "invalid")
        BY <1>6, <1>13, <2>1 DEF LoadDomains, Raise
    <2>2. CASE /\ threads' = [threads EXCEPT ![t].domains = {evidence}, ![t].step = "viewing"]
               /\ UNCHANGED dashboard
        <3>. DEFINE me == [threads[t] EXCEPT !.domains = {evidence}, !.step = "viewing"]
        <3>1. /\ me.step = "viewing" /\ me.now = threads[t].now /\ me.shown = threads[t].shown
              /\ me.arrived = threads[t].arrived /\ me.read = threads[t].read
            BY DEF TypeInv, Shapes
        <3>2. threads' = [threads EXCEPT ![t] = me]
            BY <2>2
        <3>. HIDE DEF me
        <3>3. /\ threads[t].now \in Nat /\ threads[t].arrived <= threads[t].now
              /\ threads[t].now <= clock
              /\ threads[t].read \in Nat /\ threads[t].now <= threads[t].read
            BY <1>13 DEF LoadDomains, TimesInv, InOrder
        <3>4. UNCHANGED <<clock, dashboard>>
            BY <1>13, <2>2 DEF LoadDomains
        <3>. QED
            BY <1>8, <3>1, <3>2, <3>3, <3>4
    <2>. QED
        BY <1>13, <2>1, <2>2 DEF LoadDomains
<1>14. ASSUME NEW t \in Thread, BuildView(t)
       PROVE  TimesInv'
    <2>1. PICK snapshots, domains :
            LET view == [fleet |-> threads[t].fleet, read |-> threads[t].read, at |-> clock,
                         snapshots |-> snapshots, domains |-> domains]
            IN  /\ threads' = Replied(t, "view", {view})
                /\ dashboard' = [dashboard EXCEPT !.holder = {}, !.up = TRUE,
                                                  !.cached = {Cached(t, view)}]
        BY <1>14 DEF BuildView
    <2>. DEFINE view == [fleet |-> threads[t].fleet, read |-> threads[t].read, at |-> clock,
                         snapshots |-> snapshots, domains |-> domains]
    <2>2. /\ threads[t].arrived \in Nat /\ threads[t].now \in Nat
          /\ threads[t].arrived <= threads[t].now
          /\ threads[t].read \in Nat /\ threads[t].now <= threads[t].read
        BY <1>14 DEF BuildView, TimesInv, InOrder
    <2>3. threads[t].read > threads[t].arrived - Refresh
        BY <2>2, RefreshBound
    <2>4. view.read = threads[t].read
        OBVIOUS
    <2>5. threads' = Replied(t, "view", {view})
        BY <2>1
    <2>6. dashboard'.cached = {[view |-> view, builtAt |-> threads[t].now]}
        BY <1>0, <2>1 DEF Cached
    <2>. HIDE DEF view
    <2>7. \A v \in {view} : v.read \in Nat /\ v.read > threads[t].arrived - Refresh
        BY <2>2, <2>3, <2>4
    <2>8. UNCHANGED clock
        BY <1>14 DEF BuildView
    <2>9. \A u \in Thread : InOrder(u)'
        BY <2>5, <2>7, <2>8, LeaveKeepsTimes
    <2>10. \A c \in dashboard'.cached :
             c.builtAt \in Nat /\ c.view.read \in Nat /\ c.builtAt <= c.view.read
        BY <2>2, <2>4, <2>6
    <2>. QED
        BY <2>9, <2>10 DEF TimesInv
<1>15. CASE CutDashboard
    <2>1. dashboard'.cached = {}
        BY <1>0, <1>15 DEF CutDashboard, Down
    <2>2. \A u \in Thread : InOrder(u)'
        BY <1>0, <1>15 DEF CutDashboard, InOrder, NoThread
    <2>. QED
        BY <2>1, <2>2 DEF TimesInv
<1>. QED
    BY <1>2, <1>3, <1>4, <1>5, <1>7, <1>9, <1>10, <1>11, <1>12, <1>13, <1>14, <1>15
    DEF Next, Handle, Inspector

\* However many requests share a build, wait for it or see it fail, a page was
\* built from evidence read less than a refresh interval before its request
\* arrived.
THEOREM PagesAreRecent == Spec => []ServedIsRecent
<1>1. TimesInv => ServedIsRecent
    BY DEF TimesInv, InOrder, ServedIsRecent
<1>2. TypeInv /\ TimesInv /\ [Next]_vars => TypeInv' /\ TimesInv'
    BY NextTypes, NextTimes
<1>. QED
    BY <1>1, <1>2, InitTypes, InitTimes, PTL DEF Spec

-----------------------------------------------------------------------------
(* What `observe` answers.                                                 *)

\* The servers of a fleet are servers there are.
LEMMA ServersThereAre ==
    ASSUME NEW f \in Fleet
    PROVE  {s.id : s \in Inventory(f).servers} \subseteq Server
BY EvidenceAssumption DEF Inventory

\* Nothing was asked for at first.
LEMMA InitObserved == Init => ObservedInv
BY DEF Init, ObservedInv, HasObserved, NoObserver

\* What an observer that starts, gathers, writes or ends has observed.
LEMMA ObserverStep ==
    ASSUME TypeInv, ObservedInv, NEW o \in Observer,
           BeginObserve(o) \/ Gather(o) \/ WriteSnapshot(o) \/ EndObserve(o) \/ CutObserve(o)
    PROVE  HasObserved(o)'
<1>. USE DEF world
<1>0. /\ clock \in Nat /\ HasObserved(o) /\ DOMAIN observed = Server
      /\ DOMAIN observers = Observer
      /\ DOMAIN observers[o] = {"step", "begun", "fleet", "requested", "todo", "gathered",
                                "result"}
    BY DEF TypeInv, Shapes, ObservedInv
<1>1. CASE BeginObserve(o)
    <2>1. PICK requested \in SUBSET {s.id : s \in Inventory(project.is).servers} \ {{}} :
            observers' = [observers EXCEPT ![o] =
              [NoObserver EXCEPT !.step = "playing", !.begun = clock, !.fleet = project.is,
                                 !.requested = requested, !.todo = requested]]
        BY <1>1 DEF BeginObserve
    <2>2. requested \subseteq Server
        BY <1>1, <2>1, ServersThereAre DEF BeginObserve, TypeInv, Shapes
    <2>3. /\ observers'[o].begun = clock /\ observers'[o].requested = requested
          /\ observers'[o].todo = requested /\ observers'[o].gathered = {}
          /\ observers'[o].result = "none"
        BY <1>0, <2>1 DEF NoObserver
    <2>4. UNCHANGED clock
        BY <1>1 DEF BeginObserve
    <2>. QED
        BY <1>0, <2>2, <2>3, <2>4 DEF HasObserved
<1>2. CASE Gather(o)
    <2>0. PICK s \in observers[o].todo : \E is, type :
            observers' = [observers EXCEPT ![o].gathered =
                            {[server |-> s, at |-> clock, is |-> is, type |-> type]}]
        BY <1>2 DEF Gather
    <2>1. PICK is, type :
            observers' = [observers EXCEPT ![o].gathered =
                            {[server |-> s, at |-> clock, is |-> is, type |-> type]}]
        BY <2>0
    <2>2. /\ observers'[o].begun = observers[o].begun
          /\ observers'[o].requested = observers[o].requested
          /\ observers'[o].todo = observers[o].todo
          /\ observers'[o].gathered = {[server |-> s, at |-> clock, is |-> is, type |-> type]}
          /\ observers'[o].step = observers[o].step
          /\ observers'[o].result = observers[o].result
        BY <1>0, <2>1
    <2>3. observers[o].step = "playing" /\ UNCHANGED <<clock, observed>>
        BY <1>2 DEF Gather, files
    <2>4. observers[o].result # "ok"
        BY <1>0, <2>1 DEF HasObserved
    <2>5. \A x \in observers'[o].gathered : x.server \in Server /\ x.at >= observers[o].begun
        BY <1>0, <2>1, <2>2 DEF HasObserved
    <2>. QED
        BY <1>0, <2>2, <2>3, <2>4, <2>5 DEF HasObserved
<1>3. CASE WriteSnapshot(o)
    <2>1. PICK found \in observers[o].gathered :
            /\ observed' = [observed EXCEPT ![found.server] = {found}]
            /\ observers' = [observers EXCEPT ![o].gathered = {},
                                              ![o].todo = @ \ {found.server}]
            /\ UNCHANGED clock
        BY <1>3 DEF WriteSnapshot
    <2>2. found.server \in Server /\ found.at >= observers[o].begun
        BY <1>0 DEF HasObserved
    <2>3. /\ observers'[o].begun = observers[o].begun
          /\ observers'[o].requested = observers[o].requested
          /\ observers'[o].todo = observers[o].todo \ {found.server}
          /\ observers'[o].gathered = {}
          /\ observers'[o].step = observers[o].step
          /\ observers'[o].result = observers[o].result
        BY <1>0, <2>1
    <2>4. /\ observed'[found.server] = {found}
          /\ \A s \in Server \ {found.server} : observed'[s] = observed[s]
        BY <1>0, <2>1, <2>2
    <2>5. observers[o].step = "playing" /\ observers[o].result # "ok"
        BY <1>0, <2>1 DEF HasObserved
    <2>6. ASSUME NEW s \in observers'[o].requested \ observers'[o].todo
          PROVE  \E x \in observed'[s] : x.at >= observers'[o].begun
        <3>1. CASE s = found.server
            BY <2>2, <2>3, <2>4, <3>1
        <3>2. CASE s # found.server
            <4>1. s \in observers[o].requested \ observers[o].todo /\ s \in Server
                BY <1>0, <2>3, <2>6, <3>2 DEF HasObserved
            <4>. QED
                BY <1>0, <2>3, <2>4, <2>5, <3>2, <4>1 DEF HasObserved
        <3>. QED
            BY <3>1, <3>2
    <2>. QED
        BY <1>0, <2>1, <2>3, <2>5, <2>6 DEF HasObserved
<1>4. CASE EndObserve(o)
    <2>1. PICK result \in {"ok", "incomplete"} :
            /\ observers' = [observers EXCEPT ![o] =
                 [NoObserver EXCEPT !.begun = observers[o].begun,
                    !.requested = observers[o].requested, !.result = result]]
            /\ result = "ok" => observers[o].todo = {}
        BY <1>4 DEF EndObserve, EndsWith, Complete
    <2>2. /\ observers'[o].begun = observers[o].begun
          /\ observers'[o].requested = observers[o].requested
          /\ observers'[o].todo = {} /\ observers'[o].gathered = {}
          /\ observers'[o].step = "idle" /\ observers'[o].result = result
        BY <1>0, <2>1 DEF NoObserver
    <2>3. observers[o].step = "playing" /\ UNCHANGED <<clock, observed>>
        BY <1>4 DEF EndObserve, files
    <2>. QED
        BY <1>0, <2>1, <2>2, <2>3 DEF HasObserved
<1>5. CASE CutObserve(o)
    <2>1. observers'[o] = NoObserver /\ UNCHANGED clock
        BY <1>0, <1>5 DEF CutObserve
    <2>. QED
        BY <1>0, <2>1 DEF HasObserved, NoObserver
<1>. QED
    BY <1>1, <1>2, <1>3, <1>4, <1>5

\* What is observed stays so, with one observer.
LEMMA NextObserved == OneObserver /\ TypeInv /\ ObservedInv /\ [Next]_vars => ObservedInv'
<1>. SUFFICES ASSUME OneObserver, TypeInv, ObservedInv, [Next]_vars PROVE ObservedInv'
    OBVIOUS
<1>. USE DEF world, files
<1>0. clock \in Nat
    BY DEF TypeInv, Shapes
<1>1. CASE clock' \in Nat /\ clock' >= clock /\ UNCHANGED <<observed, observers>>
    <2>1. ASSUME NEW o \in Observer
          PROVE  HasObserved(o)'
        BY <1>0, <1>1 DEF ObservedInv, HasObserved
    <2>. QED
        BY <2>1 DEF ObservedInv
<1>2. CASE UNCHANGED <<clock, observed, observers>>
    BY <1>0, <1>1, <1>2
<1>3. CASE UNCHANGED vars \/ Done \/ CutDashboard
    BY <1>2, <1>3 DEF vars, Done, CutDashboard
<1>4. CASE Tick \/ Change
    BY <1>0, <1>1, <1>4 DEF Tick, Change
<1>5. ASSUME NEW o \in Observer,
             BeginObserve(o) \/ Gather(o) \/ WriteSnapshot(o) \/ EndObserve(o) \/ CutObserve(o)
      PROVE  ObservedInv'
    <2>1. \A p \in Observer : p = o
        BY DEF OneObserver
    <2>. QED
        BY <1>5, <2>1, ObserverStep DEF ObservedInv
<1>6. ASSUME NEW p \in Prober, BeginProbe(p) \/ EndProbe(p) \/ CutProbe(p)
      PROVE  ObservedInv'
    BY <1>2, <1>6 DEF BeginProbe, EndProbe, CutProbe
<1>7. ASSUME NEW i \in Inspector, InspectStep(i)
      PROVE  ObservedInv'
    BY <1>2, <1>7 DEF InspectStep, Probe, OpenTemporary, FillTemporary, ReplaceFile
<1>8. ASSUME NEW t \in Thread,
             \/ Request(t) \/ Enter(t) \/ ReadProject(t) \/ LoadObserved(t) \/ LoadDomains(t)
             \/ BuildView(t)
      PROVE  ObservedInv'
    BY <1>2, <1>8 DEF Request, Enter, ReadProject, LoadObserved, LoadDomains, BuildView
<1>. QED
    BY <1>3, <1>4, <1>5, <1>6, <1>7, <1>8 DEF Next, Handle, Inspector

\* `observe` answers "ok" only if each server it was asked for has a snapshot
\* of this run, while nobody else observes.
THEOREM OkIsObserved ==
    ASSUME OneObserver
    PROVE  Spec => []OkMeansObserved
<1>1. ObservedInv => OkMeansObserved
    BY DEF ObservedInv, HasObserved, OkMeansObserved
<1>2. TypeInv /\ ObservedInv /\ [Next]_vars => TypeInv' /\ ObservedInv'
    BY NextTypes, NextObserved
<1>. QED
    BY <1>1, <1>2, InitTypes, InitObserved, PTL DEF Spec

-----------------------------------------------------------------------------
(* The evidence files.                                                     *)

\* Nobody inspects at first.
LEMMA InitWhole == Init => WholeInv
BY DEF Init, WholeInv, HasWritten, Inspecting, NoInspection

\* An inspection that starts while no other does has written nothing.
LEMMA InspectKeepsWhole ==
    ASSUME TypeInv, WholeInv, NEW i \in Inspector, NEW domains \in SUBSET Domain,
           Inspect(i, domains), UNCHANGED <<evidence, temporary>>
    PROVE  WholeInv'
<1>. SUFFICES ASSUME ~overlapped'
              PROVE  /\ \A j, k \in Inspector : Inspecting(j)' /\ Inspecting(k)' => j = k
                     /\ \A j \in Inspector : HasWritten(j)'
                     /\ \A d \in Domain : evidence'[d] \subseteq Route
    BY DEF WholeInv
<1>1. ~overlapped /\ \A j \in Inspector \ {i} : ~Inspecting(j)
    BY DEF Inspect
<1>2. /\ inspections'[i].step = "probing"
      /\ \A j \in Inspector \ {i} : inspections'[j] = inspections[j]
    BY DEF Inspect, NoInspection, TypeInv, Shapes
<1>3. \A j \in Inspector \ {i} : inspections[j].step = "idle"
    BY <1>1 DEF Inspecting
<1>. QED
    BY <1>1, <1>2, <1>3 DEF WholeInv, Inspecting, HasWritten

\* Inspections that end, or stay as they are, leave the files as they were.
LEMMA EndKeepsWhole ==
    ASSUME TypeInv, WholeInv, UNCHANGED files,
           \A i \in Inspector : inspections'[i] = inspections[i] \/ inspections'[i].step = "idle"
    PROVE  WholeInv'
<1>. SUFFICES ASSUME ~overlapped'
              PROVE  /\ \A j, k \in Inspector : Inspecting(j)' /\ Inspecting(k)' => j = k
                     /\ \A j \in Inspector : HasWritten(j)'
                     /\ \A d \in Domain : evidence'[d] \subseteq Route
    BY DEF WholeInv
<1>1. \A i \in Inspector : Inspecting(i)' => Inspecting(i) /\ inspections'[i] = inspections[i]
    BY DEF Inspecting
<1>2. UNCHANGED <<evidence, temporary, overlapped>>
    BY DEF files
<1>3. ASSUME NEW j \in Inspector
      PROVE  HasWritten(j)'
    <2>1. CASE inspections'[j] = inspections[j]
        <3>1. Current(j)' = Current(j)
            BY <2>1 DEF Current
        <3>. QED
            BY <1>2, <2>1, <3>1 DEF WholeInv, HasWritten
    <2>2. CASE inspections'[j].step = "idle"
        BY <2>2 DEF HasWritten
    <2>. QED
        BY <2>1, <2>2
<1>. QED
    BY <1>1, <1>2, <1>3 DEF WholeInv

\* What the only inspection writes, it writes to the temporary file, and puts
\* in place once it is whole.
LEMMA WritingKeepsWhole ==
    ASSUME TypeInv, WholeInv, NEW i \in Inspector, inspections[i].step # "idle",
           UNCHANGED overlapped,
           \A j \in Inspector \ {i} : Inspecting(j) \/ inspections'[j] = inspections[j],
           ~overlapped => HasWritten(i)',
           ~overlapped => \A d \in Domain : evidence'[d] \subseteq Route
    PROVE  WholeInv'
<1>. SUFFICES ASSUME ~overlapped'
              PROVE  /\ \A j, k \in Inspector : Inspecting(j)' /\ Inspecting(k)' => j = k
                     /\ \A j \in Inspector : HasWritten(j)'
                     /\ \A d \in Domain : evidence'[d] \subseteq Route
    BY DEF WholeInv
<1>1. ~overlapped
    OBVIOUS
<1>2. \A j \in Inspector \ {i} : ~Inspecting(j)
    BY <1>1 DEF WholeInv, Inspecting
<1>3. \A j \in Inspector \ {i} : inspections'[j].step = "idle"
    BY <1>2 DEF Inspecting
<1>. QED
    BY <1>1, <1>3 DEF Inspecting, HasWritten

\* Inspecting keeps the files whole, whoever inspects.
LEMMA InspectingKeepsWhole ==
    ASSUME TypeInv, WholeInv, NEW i \in Inspector, InspectStep(i)
    PROVE  WholeInv'
<1>1. inspections \in [Inspector -> Inspection] /\ HasRoute(i)
    BY DEF TypeInv, Shapes
<1>2. ~overlapped => HasWritten(i) /\ \A d \in Domain : evidence[d] \subseteq Route
    BY DEF WholeInv
<1>3. CASE InspectionRaises(i) /\ UNCHANGED files
    BY <1>1, <1>3, EndKeepsWhole DEF InspectionRaises, EndInspection, NoInspection
<1>4. CASE Probe(i)
    <2>1. CASE RouteOf[routes[Current(i)].is].raises
        BY <1>3, <1>4, <2>1 DEF Probe
    <2>2. CASE ~RouteOf[routes[Current(i)].is].raises
        <3>1. /\ inspections'[i].step = "opening" /\ inspections[i].step = "probing"
              /\ \A j \in Inspector \ {i} : inspections'[j] = inspections[j]
              /\ UNCHANGED <<evidence, overlapped>>
            BY <1>1, <1>4, <2>2 DEF Probe, Inspection, files
        <3>2. HasWritten(i)'
            BY <3>1 DEF HasWritten
        <3>. QED
            BY <1>2, <3>1, <3>2, WritingKeepsWhole
    <2>. QED
        BY <2>1, <2>2
<1>5. CASE OpenTemporary(i)
    <2>1. /\ inspections'[i].step = "filling" /\ inspections[i].step = "opening"
          /\ inspections'[i].in = "temporary" /\ inspections'[i].todo = inspections[i].todo
          /\ \A j \in Inspector \ {i} : inspections'[j] = inspections[j]
          /\ UNCHANGED <<evidence, overlapped>>
        BY <1>1, <1>5 DEF OpenTemporary, Inspection
    <2>2. Current(i)' = Current(i) /\ Current(i) \in Domain
        BY <1>1, <2>1, CurrentIsLeft DEF Current, HasRoute, Inspection
    <2>3. temporary'[Current(i)] = {Blank}
        BY <1>5, <2>2 DEF OpenTemporary, TypeInv, Shapes
    <2>4. HasWritten(i)'
        BY <2>1, <2>2, <2>3 DEF HasWritten
    <2>. QED
        BY <1>2, <2>1, <2>4, WritingKeepsWhole
<1>6. CASE FillTemporary(i)
    <2>1. /\ inspections'[i].step = "replacing" /\ inspections[i].step = "filling"
          /\ inspections'[i].todo = inspections[i].todo
          /\ inspections'[i].route = inspections[i].route
          /\ \A j \in Inspector \ {i} : inspections'[j] = inspections[j]
          /\ UNCHANGED overlapped
        BY <1>1, <1>6 DEF FillTemporary, Inspection
    <2>2. Current(i)' = Current(i) /\ Current(i) \in Domain
        BY <1>1, <2>1, CurrentIsLeft DEF Current, HasRoute, Inspection
    <2>3. ASSUME ~overlapped
          PROVE  temporary'[Current(i)] = {inspections[i].route} /\ UNCHANGED evidence
        <3>1. inspections[i].in = "temporary" /\ temporary[Current(i)] = {Blank}
            BY <1>2, <2>1, <2>3 DEF HasWritten
        <3>2. PICK c \in Filled(temporary[Current(i)], inspections[i].route) :
                temporary' = [temporary EXCEPT ![Current(i)] = c] /\ UNCHANGED evidence
            BY <1>6, <3>1 DEF FillTemporary
        <3>3. c = {inspections[i].route}
            BY <3>1, <3>2 DEF Filled
        <3>4. inspections[i].route \in Route
            BY <1>1, <2>1 DEF HasRoute
        <3>. QED
            BY <2>2, <3>2, <3>3, <3>4 DEF TypeInv, Shapes
    <2>4. ~overlapped => HasWritten(i)'
        BY <2>1, <2>2, <2>3 DEF HasWritten
    <2>. QED
        BY <1>2, <2>1, <2>3, <2>4, WritingKeepsWhole
<1>7. CASE ReplaceFile(i)
    <2>. DEFINE d == Current(i)
    <2>1. d \in Domain /\ inspections[i].step = "replacing"
        BY <1>1, <1>7, CurrentIsLeft DEF ReplaceFile, HasRoute, Inspection
    <2>2. CASE temporary[d] = {}
        BY <1>3, <1>7, <2>2 DEF ReplaceFile, files
    <2>3. CASE temporary[d] # {}
        <3>1. /\ evidence' = [evidence EXCEPT ![d] = temporary[d]]
              /\ inspections' = Moved(i, d)
              /\ UNCHANGED overlapped
            BY <1>7, <2>3 DEF ReplaceFile
        <3>2. inspections'[i].step = "probing"
            BY <3>1 DEF Moved, NoInspection
        <3>3. \A j \in Inspector \ {i} : Inspecting(j) \/ inspections'[j] = inspections[j]
            BY <3>1 DEF Moved, Inspecting
        <3>4. ~overlapped => temporary[d] \subseteq Route
            BY <1>1, <1>2, <2>1 DEF HasWritten, HasRoute
        <3>. HIDE DEF d
        <3>5. ~overlapped => \A e \in Domain : evidence'[e] \subseteq Route
            BY <1>2, <2>1, <3>1, <3>4 DEF TypeInv, Shapes
        <3>6. HasWritten(i)'
            BY <3>2 DEF HasWritten
        <3>. QED
            BY <2>1, <3>1, <3>3, <3>5, <3>6, WritingKeepsWhole
    <2>. QED
        BY <2>2, <2>3
<1>. QED
    BY <1>4, <1>5, <1>6, <1>7 DEF InspectStep

\* The files stay whole.
LEMMA NextWhole == TypeInv /\ WholeInv /\ [Next]_vars => WholeInv'
<1>. SUFFICES ASSUME TypeInv, WholeInv, [Next]_vars PROVE WholeInv'
    OBVIOUS
<1>1. CASE UNCHANGED <<evidence, temporary, overlapped, inspections>>
    BY <1>1 DEF WholeInv, HasWritten, Inspecting, Current
<1>2. CASE UNCHANGED vars \/ Done
    BY <1>1, <1>2 DEF vars, Done
<1>3. CASE Tick \/ Change
    BY <1>1, <1>3 DEF Tick, Change, files
<1>4. ASSUME NEW o \in Observer,
             BeginObserve(o) \/ Gather(o) \/ WriteSnapshot(o) \/ EndObserve(o) \/ CutObserve(o)
      PROVE  WholeInv'
    <2>1. UNCHANGED <<evidence, temporary, overlapped, inspections>>
        BY <1>4 DEF BeginObserve, Gather, WriteSnapshot, EndObserve, CutObserve, files
    <2>. QED
        BY <1>1, <2>1
<1>5. ASSUME NEW i \in Inspector, EndInspection(i), UNCHANGED files
      PROVE  WholeInv'
    BY <1>5, EndKeepsWhole DEF EndInspection, NoInspection, TypeInv, Shapes
<1>6. ASSUME NEW p \in Prober, BeginProbe(p)
      PROVE  WholeInv'
    <2>1. DomainsOf(project.is) \in SUBSET Domain
        BY <1>6, DomainsThereAre DEF BeginProbe, TypeInv, Shapes
    <2>. QED
        BY <1>6, <2>1, InspectKeepsWhole DEF BeginProbe, Inspector
<1>7. ASSUME NEW p \in Prober, EndProbe(p) \/ CutProbe(p)
      PROVE  WholeInv'
    BY <1>5, <1>7 DEF EndProbe, CutProbe, EndInspection, Inspector
<1>8. ASSUME NEW i \in Inspector, InspectStep(i)
      PROVE  WholeInv'
    BY <1>8, InspectingKeepsWhole
<1>9. ASSUME NEW t \in Thread, ReadProject(t)
      PROVE  WholeInv'
    <2>1. CASE UNCHANGED <<inspections, overlapped>>
        BY <1>1, <1>9, <2>1 DEF ReadProject
    <2>2. CASE project.is # Broken /\ Inspect(t, DomainsOf(project.is))
        <3>1. DomainsOf(project.is) \in SUBSET Domain
            BY <2>2, DomainsThereAre DEF TypeInv, Shapes
        <3>. QED
            BY <1>9, <2>2, <3>1, InspectKeepsWhole DEF ReadProject, Inspector
    <2>. QED
        BY <1>9, <2>1, <2>2 DEF ReadProject
<1>10. ASSUME NEW t \in Thread, LoadObserved(t)
       PROVE  WholeInv'
    BY <1>5, <1>10 DEF LoadObserved, Inspector
<1>11. ASSUME NEW t \in Thread, Request(t) \/ Enter(t) \/ LoadDomains(t) \/ BuildView(t)
       PROVE  WholeInv'
    BY <1>1, <1>11 DEF Request, Enter, LoadDomains, BuildView, files
<1>12. CASE CutDashboard
    BY <1>12, EndKeepsWhole DEF CutDashboard, NoInspection
<1>. QED
    BY <1>2, <1>3, <1>4, <1>6, <1>7, <1>8, <1>9, <1>10, <1>11, <1>12 DEF Next, Handle, Inspector

\* A route's evidence file is a whole document whenever it can be read,
\* through kills and leftover temporary files, as long as no two inspections
\* overlap.
THEOREM FilesAreWhole == Spec => []EvidenceIsWhole
<1>1. WholeInv => EvidenceIsWhole
    BY DEF WholeInv, EvidenceIsWhole
<1>2. TypeInv /\ WholeInv /\ [Next]_vars => TypeInv' /\ WholeInv'
    BY NextTypes, NextWhole
<1>. QED
    BY <1>1, <1>2, InitTypes, InitWhole, PTL DEF Spec

-----------------------------------------------------------------------------
(* Evidence, the project and the views built from them are true of their   *)
(* time.                                                                   *)

\* What a step does to the world: time passes, and what changes is new now.
Ages ==
    /\ clock' \in Nat /\ clock' >= clock
    /\ project' = project \/ project'.since = clock
    /\ \A s \in Server : hosts'[s] = hosts[s] \/ hosts'[s].since = clock
    /\ \A d \in Domain : routes'[d] = routes[d] \/ routes'[d].since = clock

\* Every step does that.
LEMMA NextAges ==
    ASSUME TypeInv, WorldInv, [Next]_vars
    PROVE  Ages /\ WorldInv'
<1>. USE DEF world
<1>0. clock \in Nat /\ routes \in [Domain -> [is : Route, since : Int]]
    BY DEF TypeInv, Shapes
<1>1. CASE UNCHANGED world
    BY <1>0, <1>1 DEF WorldInv, Ages
<1>2. CASE Tick
    BY <1>0, <1>2 DEF Tick, WorldInv, Ages
<1>3. CASE Change
    <2>1. UNCHANGED clock
        BY <1>3 DEF Change
    <2>2. CASE \E f : project' = [is |-> f, since |-> clock] /\ UNCHANGED <<hosts, routes>>
        BY <1>0, <2>1, <2>2 DEF WorldInv, Ages
    <2>3. CASE \E s \in Server, c \in Condition :
                 /\ hosts' = [hosts EXCEPT ![s] = [is |-> c, since |-> clock]]
                 /\ UNCHANGED <<project, routes>>
        BY <1>0, <2>1, <2>3 DEF WorldInv, Ages
    <2>4. CASE \E d \in Domain, r \in Route :
                 /\ routes' = [routes EXCEPT ![d] = [is |-> r, since |-> clock]]
                 /\ UNCHANGED <<project, hosts>>
        BY <1>0, <2>1, <2>4 DEF WorldInv, Ages
    <2>. QED
        BY <1>3, <2>2, <2>3, <2>4 DEF Change
<1>4. CASE UNCHANGED vars \/ Done \/ CutDashboard
    BY <1>1, <1>4 DEF vars, Done, CutDashboard
<1>5. ASSUME NEW o \in Observer,
             BeginObserve(o) \/ Gather(o) \/ WriteSnapshot(o) \/ EndObserve(o) \/ CutObserve(o)
      PROVE  UNCHANGED world
    BY <1>5 DEF BeginObserve, Gather, WriteSnapshot, EndObserve, CutObserve
<1>6. ASSUME NEW p \in Prober, BeginProbe(p) \/ EndProbe(p) \/ CutProbe(p)
      PROVE  UNCHANGED world
    BY <1>6 DEF BeginProbe, EndProbe, CutProbe
<1>7. ASSUME NEW i \in Inspector, InspectStep(i)
      PROVE  UNCHANGED world
    BY <1>7 DEF InspectStep, Probe, OpenTemporary, FillTemporary, ReplaceFile
<1>8. ASSUME NEW t \in Thread,
             \/ Request(t) \/ Enter(t) \/ ReadProject(t) \/ LoadObserved(t) \/ LoadDomains(t)
             \/ BuildView(t)
      PROVE  UNCHANGED world
    BY <1>8 DEF Request, Enter, ReadProject, LoadObserved, LoadDomains, BuildView
<1>. QED
    BY <1>1, <1>2, <1>3, <1>4, <1>5, <1>6, <1>7, <1>8 DEF Next, Handle, Inspector

\* What was true of the past stays true of it.
LEMMA PastStays ==
    ASSUME TypeInv, WorldInv, Ages
    PROVE  /\ \A s \in Server : \A x : ShowsServer(s, x) => ShowsServer(s, x)'
           /\ \A snapshots : ShowServers(snapshots) => ShowServers(snapshots)'
           /\ \A fleet, read : IsProject(fleet, read) => IsProject(fleet, read)'
           /\ \A view : Faithful(view) => Faithful(view)'
<1>0. clock \in Nat
    BY DEF TypeInv, Shapes
<1>1. ASSUME NEW s \in Server, NEW x, ShowsServer(s, x)
      PROVE  ShowsServer(s, x)'
    <2>1. x \in Snapshot /\ x.at \in Int /\ x.server = s /\ x.at <= clock
          /\ (hosts[s].since < x.at => x.is = hosts[s].is)
        BY <1>1 DEF ShowsServer, Snapshot
    <2>2. x.at <= clock'
        BY <1>0, <2>1 DEF Ages
    <2>3. hosts'[s].since < x.at => x.is = hosts'[s].is
        BY <1>0, <2>1 DEF Ages
    <2>. QED
        BY <2>1, <2>2, <2>3 DEF ShowsServer
<1>2. ASSUME NEW snapshots, ShowServers(snapshots)
      PROVE  ShowServers(snapshots)'
    BY <1>1, <1>2 DEF ShowServers
<1>3. ASSUME NEW fleet, NEW read, IsProject(fleet, read)
      PROVE  IsProject(fleet, read)'
    <2>1. fleet \in Fleet /\ read \in Nat /\ read <= clock
        BY <1>3 DEF IsProject
    <2>2. read <= clock'
        BY <1>0, <2>1 DEF Ages
    <2>3. project'.since < read => fleet = project'.is
        BY <1>0, <1>3, <2>1 DEF Ages, IsProject
    <2>. QED
        BY <2>1, <2>2, <2>3 DEF IsProject
<1>4. ASSUME NEW view, Faithful(view)
      PROVE  Faithful(view)'
    BY <1>2, <1>3, <1>4 DEF Faithful
<1>. QED
    BY <1>1, <1>2, <1>3, <1>4

\* What is there at first is as the start says.
LEMMA InitTruth == Init => TruthInv
<1>. SUFFICES ASSUME Init PROVE TruthInv
    OBVIOUS
<1>1. PICK start \in Starts :
        /\ project = [is |-> start.fleet, since |-> -start.age]
        /\ hosts = [s \in Server |-> [is |-> start.hosts[s], since |-> -start.age]]
        /\ routes = [d \in Domain |-> [is |-> start.routes[d], since |-> -start.age]]
        /\ observed = start.observed
        /\ dashboard = [Down EXCEPT !.inspects = start.inspects]
    BY DEF Init
<1>2. start.hosts \in [Server -> Condition] /\ start.age \in Nat /\ clock = 0
    BY EvidenceAssumption DEF Init
<1>3. WorldInv
    BY <1>1, <1>2 DEF WorldInv
<1>4. ASSUME NEW s \in Server, NEW x \in observed[s]
      PROVE  observed[s] = {x} /\ ShowsServer(s, x)
    <2>1. /\ observed[s] = {x} /\ x \in Snapshot /\ x.server = s
          /\ x.at <= 0 /\ (-start.age < x.at => x.is = start.hosts[s])
        BY <1>1, <1>4, SnapshotAssumption
    <2>2. hosts[s].since = -start.age /\ hosts[s].is = start.hosts[s]
        BY <1>1
    <2>. QED
        BY <1>2, <2>1, <2>2 DEF ShowsServer
<1>5. \A snapshots \in {observed} : ShowServers(snapshots)
    BY <1>4 DEF ShowServers
<1>6. \A o \in Observer : GathersTruly(o)
    BY DEF GathersTruly, Init, NoObserver
<1>7. \A t \in Thread : BuildsTruly(t)
    BY DEF BuildsTruly, Init, NoThread
<1>8. dashboard.cached = {}
    BY <1>1 DEF Down
<1>. QED
    BY <1>3, <1>5, <1>6, <1>7, <1>8 DEF TruthInv

\* A handler that is not at work, or has not moved, builds nothing untrue.
LEMMA OthersBuildTruly ==
    ASSUME TypeInv, TruthInv, Ages, NEW u \in Thread, threads'[u] = threads[u]
    PROVE  BuildsTruly(u)'
<1>1. BuildsTruly(u) /\ WorldInv
    BY DEF TruthInv
<1>. QED
    BY <1>1, PastStays DEF BuildsTruly

LEMMA LeavingBuildsTruly ==
    ASSUME TypeInv, TruthInv, Ages, NEW t \in Thread, NEW reply, NEW shown,
           \A view \in shown : Faithful(view)',
           threads' = Replied(t, reply, shown)
    PROVE  \A u \in Thread : BuildsTruly(u)'
<1>1. /\ threads'[t].step = "idle" /\ threads'[t].shown = shown
      /\ \A u \in Thread \ {t} : threads'[u] = threads[u]
    BY DEF Replied, NoThread, TypeInv, Shapes
<1>2. BuildsTruly(t)'
    BY <1>1 DEF BuildsTruly
<1>. QED
    BY <1>1, <1>2, OthersBuildTruly

\* A run of `observe` records and writes what it finds.
LEMMA ObservesTruly ==
    ASSUME TypeInv, TruthInv, Ages, NEW o \in Observer,
           BeginObserve(o) \/ Gather(o) \/ WriteSnapshot(o) \/ EndObserve(o) \/ CutObserve(o)
    PROVE  /\ \A snapshots \in {observed'} : ShowServers(snapshots)'
           /\ \A p \in Observer : GathersTruly(p)'
<1>0. DOMAIN observed = Server /\ DOMAIN observers = Observer
      /\ DOMAIN observers[o] = {"step", "begun", "fleet", "requested", "todo", "gathered", "result"}
    BY DEF TypeInv, Shapes
<1>1. \A p \in Observer \ {o} : observers'[p] = observers[p]
    BY <1>0 DEF BeginObserve, Gather, WriteSnapshot, EndObserve, EndsWith, CutObserve
<1>2. WorldInv /\ \A p \in Observer : GathersTruly(p)
    BY DEF TruthInv
<1>3. \A p \in Observer \ {o} : GathersTruly(p)'
    BY <1>1, <1>2, PastStays DEF GathersTruly
<1>4. ASSUME UNCHANGED observed
      PROVE  \A snapshots \in {observed'} : ShowServers(snapshots)'
    BY <1>2, <1>4, PastStays DEF TruthInv
<1>5. CASE BeginObserve(o)
    <2>1. PICK requested \in SUBSET {s.id : s \in Inventory(project.is).servers} :
            observers'[o] = [NoObserver EXCEPT !.step = "playing", !.begun = clock,
                               !.fleet = project.is, !.requested = requested, !.todo = requested]
        BY <1>0, <1>5 DEF BeginObserve
    <2>2. /\ observers'[o].fleet = project.is /\ observers'[o].todo = requested
          /\ observers'[o].gathered = {}
        BY <2>1 DEF NoObserver
    <2>3. project.is \in Fleet
        BY <1>5 DEF BeginObserve, TypeInv, Shapes
    <2>4. GathersTruly(o)'
        BY <2>1, <2>2, <2>3 DEF GathersTruly
    <2>. QED
        BY <1>3, <1>4, <1>5, <2>4 DEF BeginObserve, files
<1>6. CASE Gather(o)
    <2>1. PICK s \in observers[o].todo :
            observers' = [observers EXCEPT ![o].gathered =
              {[server |-> s, at |-> clock, is |-> hosts[s].is,
                type |-> Named(Inventory(observers[o].fleet).servers, s).serverType]}]
        BY <1>6 DEF Gather
    <2>. DEFINE type == Named(Inventory(observers[o].fleet).servers, s).serverType
                x == [server |-> s, at |-> clock, is |-> hosts[s].is, type |-> type]
    <2>2. /\ observers'[o].fleet = observers[o].fleet /\ observers'[o].todo = observers[o].todo
          /\ observers'[o].step = observers[o].step
          /\ observers'[o].gathered = {x}
        BY <1>0, <2>1
    <2>3. /\ observers[o].fleet \in Fleet
          /\ s \in {r.id : r \in Inventory(observers[o].fleet).servers}
        BY <1>2, <1>6, <2>1 DEF Gather, GathersTruly
    <2>4. PICK r \in Inventory(observers[o].fleet).servers : r.id = s
        BY <2>3
    <2>5. Named(Inventory(observers[o].fleet).servers, s) \in Inventory(observers[o].fleet).servers
        BY <2>4, NamedIsThere
    <2>6. type \in TypeIds
        BY <2>3, <2>5 DEF TypeIds, Inventory
    <2>7. s \in Server
        BY <2>3, EvidenceAssumption DEF Inventory
    <2>8. clock \in Nat /\ UNCHANGED <<clock, hosts, observed>>
        BY <1>6 DEF Gather, TypeInv, Shapes, world, files
    <2>9. hosts[s].is \in Condition
        BY <1>2, <2>7 DEF WorldInv
    <2>. HIDE DEF type
    <2>10. x \in Snapshot /\ x.server = s /\ x.at = clock /\ x.is = hosts[s].is
        BY <2>6, <2>7, <2>8, <2>9 DEF Snapshot
    <2>. HIDE DEF x
    <2>11. PICK found : found = x
        OBVIOUS
    <2>12. ShowsServer(s, found)'
        BY <2>8, <2>10, <2>11 DEF ShowsServer
    <2>13. found.server = s /\ observers'[o].gathered = {found}
        BY <2>2, <2>10, <2>11
    <2>14. \A y \in observers'[o].gathered : y.server \in Server /\ ShowsServer(y.server, y)'
        BY <2>7, <2>12, <2>13
    <2>15. GathersTruly(o)'
        BY <1>2, <2>2, <2>14 DEF GathersTruly
    <2>. QED
        BY <1>3, <1>4, <2>8, <2>15
<1>7. CASE WriteSnapshot(o)
    <2>1. PICK x \in observers[o].gathered :
            /\ observed' = [observed EXCEPT ![x.server] = {x}]
            /\ observers' = [observers EXCEPT ![o].gathered = {}, ![o].todo = @ \ {x.server}]
        BY <1>7 DEF WriteSnapshot
    <2>2. x.server \in Server /\ ShowsServer(x.server, x)'
        BY <1>2, <2>1, PastStays DEF GathersTruly
    <2>3. ASSUME NEW s \in Server, NEW y \in observed'[s]
          PROVE  observed'[s] = {y} /\ ShowsServer(s, y)'
        <3>1. CASE s = x.server
            <4>1. observed'[s] = {x}
                BY <1>0, <2>1, <3>1
            <4>2. y = x
                BY <2>3, <4>1
            <4>. QED
                BY <2>2, <3>1, <4>1, <4>2
        <3>2. CASE s # x.server
            <4>1. observed'[s] = observed[s]
                BY <1>0, <2>1, <3>2
            <4>2. observed[s] = {y} /\ ShowsServer(s, y)
                BY <2>3, <4>1 DEF TruthInv, ShowServers
            <4>. QED
                BY <1>2, <4>1, <4>2, PastStays
        <3>. QED
            BY <3>1, <3>2
    <2>4. \A snapshots \in {observed'} : ShowServers(snapshots)'
        BY <2>3 DEF ShowServers
    <2>5. /\ observers'[o].fleet = observers[o].fleet /\ observers'[o].gathered = {}
          /\ observers'[o].todo \subseteq observers[o].todo
          /\ observers'[o].step = observers[o].step
        BY <1>0, <2>1
    <2>6. GathersTruly(o)'
        BY <1>2, <2>5 DEF GathersTruly
    <2>. QED
        BY <1>3, <2>4, <2>6
<1>8. CASE EndObserve(o) \/ CutObserve(o)
    <2>1. UNCHANGED observed
        BY <1>8 DEF EndObserve, CutObserve, files
    <2>2. observers'[o].step = "idle" /\ observers'[o].gathered = {}
        <3>1. CASE EndObserve(o)
            <4>1. PICK result :
                    observers' = [observers EXCEPT ![o] =
                      [NoObserver EXCEPT !.begun = observers[o].begun,
                         !.requested = observers[o].requested, !.result = result]]
                BY <3>1 DEF EndObserve, EndsWith
            <4>. QED
                BY <1>0, <4>1 DEF NoObserver
        <3>2. CASE CutObserve(o)
            BY <1>0, <3>2 DEF CutObserve, NoObserver
        <3>. QED
            BY <1>8, <3>1, <3>2
    <2>3. GathersTruly(o)'
        BY <2>2 DEF GathersTruly
    <2>. QED
        BY <1>3, <1>4, <2>1, <2>3
<1>. QED
    BY <1>5, <1>6, <1>7, <1>8

\* The evidence stays true of its time, and so do the views built from it.
LEMMA NextTruth == TypeInv /\ TimesInv /\ TruthInv /\ [Next]_vars => TruthInv'
<1>. SUFFICES ASSUME TypeInv, TimesInv, TruthInv, [Next]_vars PROVE TruthInv'
    OBVIOUS
<1>. USE DEF world, files, serving
<1>0. WorldInv /\ Ages /\ WorldInv'
    BY NextAges DEF TruthInv
<1>a. clock \in Nat /\ DOMAIN dashboard = {"up", "inspects", "holder", "cached"}
      /\ DOMAIN threads = Thread
    BY DEF TypeInv, Shapes
<1>b. ASSUME UNCHANGED <<observed, observers>>
      PROVE  /\ \A snapshots \in {observed'} : ShowServers(snapshots)'
             /\ \A o \in Observer : GathersTruly(o)'
    BY <1>0, <1>b, PastStays DEF TruthInv, GathersTruly
<1>c. ASSUME dashboard'.cached = dashboard.cached
      PROVE  \A c \in dashboard'.cached : Faithful(c.view)'
    BY <1>0, <1>c, PastStays DEF TruthInv
<1>d. ASSUME UNCHANGED threads
      PROVE  \A t \in Thread : BuildsTruly(t)'
    BY <1>0, <1>d, OthersBuildTruly
<1>1. CASE UNCHANGED <<observed, observers, serving>>
    BY <1>0, <1>1, <1>b, <1>c, <1>d DEF TruthInv
<1>2. CASE UNCHANGED vars \/ Done \/ Tick \/ Change
    BY <1>1, <1>2 DEF vars, Done, Tick, Change
<1>3. ASSUME NEW o \in Observer,
             BeginObserve(o) \/ Gather(o) \/ WriteSnapshot(o) \/ EndObserve(o) \/ CutObserve(o)
      PROVE  TruthInv'
    <2>1. UNCHANGED serving
        BY <1>3 DEF BeginObserve, Gather, WriteSnapshot, EndObserve, CutObserve
    <2>2. /\ \A snapshots \in {observed'} : ShowServers(snapshots)'
          /\ \A p \in Observer : GathersTruly(p)'
        BY <1>0, <1>3, ObservesTruly
    <2>. QED
        BY <1>0, <1>c, <1>d, <2>1, <2>2 DEF TruthInv
<1>4. ASSUME NEW p \in Prober, BeginProbe(p) \/ EndProbe(p) \/ CutProbe(p)
      PROVE  TruthInv'
    BY <1>1, <1>4 DEF BeginProbe, EndProbe, CutProbe
<1>5. ASSUME NEW t \in Thread, NEW reply, Leave(t, reply, {}), UNCHANGED <<observed, observers>>
      PROVE  TruthInv'
    <2>1. \A u \in Thread : BuildsTruly(u)'
        BY <1>0, <1>5, LeavingBuildsTruly DEF Leave
    <2>2. dashboard'.cached = dashboard.cached
        BY <1>a, <1>5 DEF Leave
    <2>. QED
        BY <1>0, <1>5, <1>b, <1>c, <2>1, <2>2 DEF TruthInv
<1>6. ASSUME NEW i \in Inspector, InspectStep(i)
      PROVE  TruthInv'
    <2>1. UNCHANGED <<observed, observers>>
        BY <1>6 DEF InspectStep, Probe, OpenTemporary, FillTemporary, ReplaceFile
    <2>2. UNCHANGED serving \/ (i \in Thread /\ Leave(i, "dropped", {}))
        BY <1>6 DEF InspectStep, Probe, OpenTemporary, FillTemporary, ReplaceFile,
                    InspectionRaises, Raise
    <2>. QED
        BY <1>1, <1>5, <2>1, <2>2
<1>7. ASSUME NEW t \in Thread, BuildsTruly(t)', dashboard'.cached = dashboard.cached,
             \A u \in Thread \ {t} : threads'[u] = threads[u],
             UNCHANGED <<observed, observers>>
      PROVE  TruthInv'
    <2>1. \A u \in Thread \ {t} : BuildsTruly(u)'
        BY <1>0, <1>7, OthersBuildTruly
    <2>. QED
        BY <1>0, <1>7, <1>b, <1>c, <2>1 DEF TruthInv
<1>8. ASSUME NEW t \in Thread, Request(t)
      PROVE  TruthInv'
    <2>1. /\ threads'[t].step = "waiting" /\ threads'[t].shown = {}
          /\ \A u \in Thread \ {t} : threads'[u] = threads[u]
          /\ UNCHANGED <<observed, observers, dashboard>>
        BY <1>a, <1>8 DEF Request, NoThread
    <2>2. BuildsTruly(t)'
        BY <2>1 DEF BuildsTruly
    <2>. QED
        BY <1>7, <2>1, <2>2
<1>9. ASSUME NEW t \in Thread, Enter(t)
      PROVE  TruthInv'
    <2>1. UNCHANGED <<observed, observers>>
        BY <1>9 DEF Enter
    <2>2. CASE \E c \in dashboard.cached : Leave(t, "view", {c.view})
        <3>1. PICK c \in dashboard.cached : Leave(t, "view", {c.view})
            BY <2>2
        <3>2. dashboard'.cached = dashboard.cached
            BY <1>a, <3>1 DEF Leave
        <3>3. \A view \in {c.view} : Faithful(view)'
            BY <1>0, <3>1, PastStays DEF TruthInv
        <3>4. \A u \in Thread : BuildsTruly(u)'
            BY <1>0, <3>1, <3>3, LeavingBuildsTruly DEF Leave
        <3>. QED
            BY <1>0, <1>b, <1>c, <2>1, <3>2, <3>4 DEF TruthInv
    <2>3. CASE /\ dashboard' = [dashboard EXCEPT !.holder = {t}]
               /\ threads' = [threads EXCEPT ![t].step = "validating", ![t].now = clock]
        <3>1. /\ threads'[t].step = "validating" /\ threads'[t].shown = threads[t].shown
              /\ \A u \in Thread \ {t} : threads'[u] = threads[u]
              /\ dashboard'.cached = dashboard.cached
            BY <1>a, <2>3 DEF TypeInv, Shapes
        <3>2. BuildsTruly(t)'
            BY <1>0, <3>1, PastStays DEF TruthInv, BuildsTruly
        <3>. QED
            BY <1>7, <2>1, <3>1, <3>2
    <2>. QED
        BY <1>9, <2>2, <2>3 DEF Enter
<1>10. ASSUME NEW t \in Thread, ReadProject(t)
       PROVE  TruthInv'
    <2>1. CASE project.is = Broken
        BY <1>5, <1>10, <2>1 DEF ReadProject, Raise
    <2>2. CASE project.is # Broken
        <3>1. /\ threads' = [threads EXCEPT ![t].fleet = project.is, ![t].read = clock,
                                            ![t].step = "loading"]
              /\ UNCHANGED <<world, observed, observers, dashboard>>
            BY <1>10, <2>2 DEF ReadProject
        <3>2. /\ threads'[t].step = "loading" /\ threads'[t].shown = threads[t].shown
              /\ threads'[t].fleet = project.is /\ threads'[t].read = clock
              /\ \A u \in Thread \ {t} : threads'[u] = threads[u]
            BY <1>a, <3>1 DEF TypeInv, Shapes
        <3>3. project.is \in Fleet
            BY <2>2 DEF TypeInv, Shapes
        <3>4. IsProject(project.is, clock)'
            BY <1>a, <3>1, <3>3 DEF IsProject
        <3>5. IsProject(threads[t].fleet, threads[t].read)'
            BY <1>a, <3>1, <3>2, <3>3 DEF IsProject
        <3>6. \A view \in threads'[t].shown : Faithful(view)'
            BY <1>0, <3>2, PastStays DEF TruthInv, BuildsTruly
        <3>7. BuildsTruly(t)'
            BY <3>2, <3>5, <3>6 DEF BuildsTruly
        <3>. QED
            BY <1>7, <3>1, <3>2, <3>7
    <2>. QED
        BY <2>1, <2>2
<1>11. ASSUME NEW t \in Thread, LoadObserved(t)
       PROVE  TruthInv'
    <2>1. /\ threads' = [threads EXCEPT ![t].snapshots = {observed}, ![t].step = "loaded"]
          /\ threads[t].step = "loading"
          /\ UNCHANGED <<observed, observers, dashboard>>
        BY <1>11 DEF LoadObserved, EndInspect
    <2>2. /\ threads'[t].step = "loaded" /\ threads'[t].shown = threads[t].shown
          /\ threads'[t].fleet = threads[t].fleet /\ threads'[t].read = threads[t].read
          /\ threads'[t].snapshots = {observed}
          /\ \A u \in Thread \ {t} : threads'[u] = threads[u]
        BY <1>a, <2>1 DEF TypeInv, Shapes
    <2>3. IsProject(threads[t].fleet, threads[t].read)'
        BY <1>0, <2>1, <2>2, PastStays DEF TruthInv, BuildsTruly, IsProject
    <2>4. \A view \in threads'[t].shown : Faithful(view)'
        BY <1>0, <2>2, PastStays DEF TruthInv, BuildsTruly
    <2>5. \A snapshots \in threads'[t].snapshots : ShowServers(snapshots)'
        BY <1>0, <2>2, PastStays DEF TruthInv
    <2>6. BuildsTruly(t)'
        BY <2>2, <2>3, <2>4, <2>5 DEF BuildsTruly
    <2>. QED
        BY <1>7, <2>1, <2>2, <2>6
<1>12. ASSUME NEW t \in Thread, LoadDomains(t)
       PROVE  TruthInv'
    <2>1. CASE Raise(t, "invalid")
        BY <1>5, <1>12, <2>1 DEF LoadDomains, Raise
    <2>2. CASE /\ threads' = [threads EXCEPT ![t].domains = {evidence}, ![t].step = "viewing"]
               /\ UNCHANGED dashboard
        <3>1. /\ threads'[t].step = "viewing" /\ threads'[t].shown = threads[t].shown
              /\ threads'[t].fleet = threads[t].fleet /\ threads'[t].read = threads[t].read
              /\ threads'[t].snapshots = threads[t].snapshots /\ threads[t].step = "loaded"
              /\ \A u \in Thread \ {t} : threads'[u] = threads[u]
            BY <1>a, <1>12, <2>2 DEF LoadDomains, TypeInv, Shapes
        <3>2. IsProject(threads[t].fleet, threads[t].read)'
            BY <1>0, <3>1, PastStays DEF TruthInv, BuildsTruly, IsProject
        <3>3. \A view \in threads'[t].shown : Faithful(view)'
            BY <1>0, <3>1, PastStays DEF TruthInv, BuildsTruly
        <3>4. \A snapshots \in threads'[t].snapshots : ShowServers(snapshots)'
            BY <1>0, <3>1, PastStays DEF TruthInv, BuildsTruly
        <3>5. BuildsTruly(t)'
            BY <3>1, <3>2, <3>3, <3>4 DEF BuildsTruly
        <3>. QED
            BY <1>7, <1>12, <2>2, <3>1, <3>5 DEF LoadDomains
    <2>. QED
        BY <1>12, <2>1, <2>2 DEF LoadDomains
<1>13. ASSUME NEW t \in Thread, BuildView(t)
       PROVE  TruthInv'
    <2>1. /\ threads[t].step = "viewing" /\ UNCHANGED <<world, observed, observers>>
        BY <1>13 DEF BuildView
    <2>2. PICK snapshots \in threads[t].snapshots, domains \in threads[t].domains :
            LET view == [fleet |-> threads[t].fleet, read |-> threads[t].read, at |-> clock,
                         snapshots |-> snapshots, domains |-> domains]
            IN  /\ threads' = Replied(t, "view", {view})
                /\ dashboard' = [dashboard EXCEPT !.holder = {}, !.up = TRUE,
                                                  !.cached = {Cached(t, view)}]
        BY <1>13 DEF BuildView
    <2>. DEFINE view == [fleet |-> threads[t].fleet, read |-> threads[t].read, at |-> clock,
                         snapshots |-> snapshots, domains |-> domains]
    <2>3. /\ view.fleet = threads[t].fleet /\ view.read = threads[t].read /\ view.at = clock
          /\ view.snapshots = snapshots
        OBVIOUS
    <2>4. /\ threads' = Replied(t, "view", {view})
          /\ dashboard'.cached = {Cached(t, view)}
        BY <1>a, <2>2
    <2>. HIDE DEF view
    <2>5. IsProject(view.fleet, view.read) /\ ShowServers(snapshots)
        BY <2>1, <2>2, <2>3 DEF TruthInv, BuildsTruly
    <2>6. Faithful(view)
        BY <1>a, <2>3, <2>5 DEF Faithful, IsProject
    <2>7. PICK v : v = view
        OBVIOUS
    <2>8. Faithful(v)'
        BY <1>0, <2>6, <2>7, PastStays
    <2>9. \A w \in {v} : Faithful(w)'
        BY <2>8
    <2>10. threads' = Replied(t, "view", {v})
        BY <2>4, <2>7
    <2>11. \A u \in Thread : BuildsTruly(u)'
        BY <1>0, <2>9, <2>10, LeavingBuildsTruly
    <2>12. \A c \in dashboard'.cached : c.view = v
        BY <2>4, <2>7 DEF Cached
    <2>13. \A c \in dashboard'.cached : Faithful(c.view)'
        BY <2>8, <2>12
    <2>. QED
        BY <1>0, <1>b, <2>1, <2>11, <2>13 DEF TruthInv
<1>14. CASE CutDashboard
    <2>1. /\ dashboard'.cached = {} /\ UNCHANGED <<observed, observers>>
          /\ \A t \in Thread : threads'[t].step = "idle" /\ threads'[t].shown = {}
        BY <1>14 DEF CutDashboard, Down, NoThread
    <2>2. \A t \in Thread : BuildsTruly(t)'
        BY <2>1 DEF BuildsTruly
    <2>. QED
        BY <1>0, <1>b, <2>1, <2>2 DEF TruthInv
<1>. QED
    BY <1>2, <1>3, <1>4, <1>6, <1>8, <1>9, <1>10, <1>11, <1>12, <1>13, <1>14
    DEF Next, Handle, Inspector

-----------------------------------------------------------------------------
(* What `audit` answers.                                                   *)

\* The later of two times.
LEMMA MostOfTwo ==
    ASSUME NEW a \in Int, NEW b \in Int
    PROVE  Most({a, b}) \in Int /\ Most({a, b}) >= a /\ Most({a, b}) >= b
<1>. DEFINE both == {a, b}
<1>1. \E n \in both : \A m \in both : n >= m
    <2>1. a >= b \/ b >= a
        OBVIOUS
    <2>. QED
        BY <2>1
<1>2. Most(both) = CHOOSE n \in both : \A m \in both : n >= m
    BY DEF Most
<1>. HIDE DEF both
<1>3. Most(both) \in both /\ \A m \in both : Most(both) >= m
    BY <1>1, <1>2
<1>. QED
    BY <1>3 DEF both

\* What an audit finds in the file of a server.
LEMMA AuditReadsFile ==
    ASSUME TypeInv, TruthInv, NEW f \in Fleet, NEW s \in Inventory(f).servers,
           ServerAudit(Inventory(f), s, ProjectOf[f].rendered, Facts(observed[s.id])) = "compliant"
    PROVE  \E x \in observed[s.id] :
             /\ x \in Snapshot
             /\ ServerAudit(Inventory(f), s, ProjectOf[f].rendered, Fresh(x.is, x.type)) = "compliant"
<1>. DEFINE inv == Inventory(f)
            receipts == ProjectOf[f].rendered
<1>1. s.id \in Server
    BY EvidenceAssumption DEF Inventory
<1>2. observed[s.id] # {}
    <2>1. ASSUME observed[s.id] = {}
          PROVE  Facts(observed[s.id]) = {}
        BY <2>1 DEF Facts
    <2>. QED
        BY <2>1, UnobservedIsUnknown
<1>3. PICK x : observed[s.id] = {x} /\ x \in Snapshot
    BY <1>1, <1>2 DEF TruthInv, ShowServers, ShowsServer
<1>. DEFINE read == [type |-> x.type, at |-> x.at, facts |-> FactsOf[x.is]]
            again == [type |-> x.type, at |-> 0, facts |-> FactsOf[x.is]]
<1>4. Facts(observed[s.id]) = {read} /\ Fresh(x.is, x.type) = {again}
    BY <1>3, FactsOfOne DEF Fresh
<1>5. read.type = again.type /\ read.facts = again.facts
    OBVIOUS
<1>. HIDE DEF inv, receipts, read, again
<1>6. AuditServer(inv, s, receipts, {read}) = AuditServer(inv, s, receipts, {again})
    BY <1>5, AuditIsTimeless
<1>7. ServerAudit(inv, s, receipts, {read}) = ServerAudit(inv, s, receipts, {again})
    BY <1>6 DEF ServerAudit
<1>. QED
    BY <1>3, <1>4, <1>7 DEF inv, receipts

\* `audit` answers "compliant" only if the inspection found every declared
\* server as the project wants it, given that it does not mistake one snapshot
\* of one server: nothing is lost in the files or in the sum.
THEOREM CompliantFleetIsSound ==
    ASSUME AuditIsSound
    PROVE  Spec => []CompliantIsSound
<1>1. ASSUME TypeInv, TruthInv PROVE CompliantIsSound
    <2>. DEFINE f == project.is
                snapshots == [s \in Server |-> Facts(observed[s])]
    <2>. SUFFICES ASSUME f # Broken,
                         AuditInventory(Inventory(f), snapshots, ProjectOf[f].rendered) = "compliant",
                         NEW s \in Inventory(f).servers
                  PROVE  \E x \in observed[s.id] : <<f, s.id, x.is>> \in Sound
        BY DEF CompliantIsSound
    <2>1. f \in Fleet
        BY <1>1 DEF TypeInv, Shapes
    <2>2. s.id \in Server
        BY <2>1, EvidenceAssumption DEF Inventory
    <2>3. snapshots[s.id] = Facts(observed[s.id])
        BY <2>2
    <2>. HIDE DEF f, snapshots
    <2>4. ServerAudit(Inventory(f), s, ProjectOf[f].rendered, snapshots[s.id]) = "compliant"
        BY AllAreCompliant
    <2>5. PICK x \in observed[s.id] :
            /\ x \in Snapshot
            /\ ServerAudit(Inventory(f), s, ProjectOf[f].rendered, Fresh(x.is, x.type)) = "compliant"
        BY <1>1, <2>1, <2>3, <2>4, AuditReadsFile
    <2>6. x.is \in Condition /\ x.type \in TypeIds
        BY <2>5 DEF Snapshot
    <2>7. <<f, s.id, x.is>> \in Sound
        BY <2>1, <2>5, <2>6 DEF AuditIsSound
    <2>. QED
        BY <2>5, <2>7
<1>2. TypeInv /\ TimesInv /\ TruthInv /\ [Next]_vars => TypeInv' /\ TimesInv' /\ TruthInv'
    BY NextTypes, NextTimes, NextTruth
<1>. QED
    BY <1>1, <1>2, InitTypes, InitTimes, InitTruth, PTL DEF Spec

-----------------------------------------------------------------------------
(* Servers on a page.                                                      *)

\* What a view shows of a server.
LEMMA ShownServer ==
    ASSUME NEW view, view.fleet \in Fleet, NEW id \in DOMAIN Shown(view).servers
    PROVE  LET inv == Inventory(view.fleet)
           IN  /\ id \in Server
               /\ Named(inv.servers, id) \in inv.servers /\ Named(inv.servers, id).id = id
               /\ Shown(view).servers[id] =
                    ServerHealth(inv, Named(inv.servers, id), Facts(view.snapshots[id]), view.at)
<1>. DEFINE inv == Inventory(view.fleet)
            ids == {s.id : s \in inv.servers}
            snapshots == [s \in Server |-> Facts(view.snapshots[s])]
            health(i) == ServerHealth(inv, Named(inv.servers, i), snapshots[i], view.at)
<1>1. Shown(view).servers = [i \in ids |-> health(i)]
    BY DEF Shown, OperationsView
<1>. HIDE DEF health
<1>2. id \in ids /\ Shown(view).servers[id] = health(id)
    BY <1>1
<1>3. PICK s \in inv.servers : s.id = id
    BY <1>2
<1>4. Named(inv.servers, id) \in inv.servers /\ Named(inv.servers, id).id = id
    BY <1>3, NamedIsThere
<1>5. id \in Server
    BY <1>3, EvidenceAssumption DEF Inventory
<1>6. snapshots[id] = Facts(view.snapshots[id])
    BY <1>5
<1>. HIDE DEF inv, snapshots
<1>7. health(id) = ServerHealth(inv, Named(inv.servers, id), Facts(view.snapshots[id]), view.at)
    BY <1>6 DEF health
<1>. QED
    BY <1>2, <1>4, <1>5, <1>7 DEF inv

\* A server shown as healthy was found sound and well, not long before.
LEMMA HealthyWasSound ==
    ASSUME HealthIsSound, TypeInv, TruthInv, NEW view, Faithful(view),
           NEW id \in DOMAIN Shown(view).servers, Shown(view).servers[id] = "healthy"
    PROVE  \E x \in view.snapshots[id] :
             /\ ShowsServer(id, x) /\ view.at - x.at <= StaleWarning
             /\ x.is \in Well /\ <<view.fleet, id, x.is>> \in Sound \cup Apart
<1>. DEFINE inv == Inventory(view.fleet)
            server == Named(inv.servers, id)
<1>1. view.fleet \in Fleet /\ view.at \in Int
    BY DEF Faithful, IsProject
<1>2. /\ id \in Server /\ server \in inv.servers /\ server.id = id
      /\ ServerHealth(inv, server, Facts(view.snapshots[id]), view.at) = "healthy"
    BY <1>1, ShownServer
<1>. HIDE DEF server
<1>3. view.snapshots[id] # {}
    <2>1. ASSUME view.snapshots[id] = {}
          PROVE  Facts(view.snapshots[id]) = {}
        BY <2>1 DEF Facts
    <2>. QED
        BY <1>2, <2>1, UnobservedIsNotHealthy
<1>4. PICK x : view.snapshots[id] = {x} /\ ShowsServer(id, x)
    BY <1>2, <1>3 DEF Faithful, ShowServers
<1>5. x.at \in Int /\ x.is \in Condition /\ x.type \in TypeIds
    BY <1>4 DEF ShowsServer, Snapshot
<1>6. Facts(view.snapshots[id]) = {[type |-> x.type, at |-> x.at, facts |-> FactsOf[x.is]]}
    BY <1>4, FactsOfOne
<1>7. /\ view.at - x.at <= StaleWarning
      /\ ServerHealth(inv, server, Fresh(x.is, x.type), 0) = "healthy"
    <2>. DEFINE type == x.type
                at == x.at
                c == x.is
                now == view.at
    <2>1. ServerHealth(inv, server, {[type |-> type, at |-> at, facts |-> FactsOf[c]]}, now) = "healthy"
        BY <1>2, <1>6
    <2>2. at \in Int /\ now \in Int
        BY <1>1, <1>5
    <2>. HIDE DEF inv, type, at, c, now
    <2>3. now - at <= StaleWarning /\ ServerHealth(inv, server, Fresh(c, type), 0) = "healthy"
        BY <2>1, <2>2, HealthyWasObserved
    <2>. QED
        BY <2>3 DEF type, at, c, now
<1>8. x.is \in Well /\ <<view.fleet, server.id, x.is>> \in Sound \cup Apart
    BY <1>1, <1>2, <1>5, <1>7 DEF HealthIsSound
<1>. QED
    BY <1>2, <1>4, <1>7, <1>8

\* So it is still, unless it has changed in the time it takes to notice.
LEMMA HealthyServersAreSound ==
    ASSUME HealthIsSound, TypeInv, TimesInv, TruthInv, NEW t \in Thread,
           NEW view \in threads[t].shown, NEW id \in DOMAIN Shown(view).servers,
           Shown(view).servers[id] = "healthy", NEW since \in OffSince(id)
    PROVE  ~(since <= threads[t].arrived - (Refresh + StaleWarning))
<1>. SUFFICES ASSUME since <= threads[t].arrived - (Refresh + StaleWarning)
              PROVE  FALSE
    OBVIOUS
<1>1. Faithful(view)
    BY DEF TruthInv, BuildsTruly
<1>2. id \in Server
    BY <1>1, ShownServer DEF Faithful, IsProject
<1>3. PICK x \in view.snapshots[id] :
        /\ ShowsServer(id, x) /\ view.at - x.at <= StaleWarning
        /\ x.is \in Well /\ <<view.fleet, id, x.is>> \in Sound \cup Apart
    BY <1>1, HealthyWasSound
<1>4. /\ hosts[id].since \in Int /\ hosts[id].is \in Condition /\ project.since \in Int
      /\ x.at \in Int /\ view.at \in Int /\ view.read \in Nat /\ view.read <= view.at
      /\ Refresh \in Nat /\ StaleWarning \in Nat /\ threads[t].arrived \in Nat
      /\ view.read > threads[t].arrived - Refresh
    BY <1>1, <1>2, <1>3, StaleAssumption, RefreshBound
    DEF TruthInv, WorldInv, ShowsServer, Snapshot, Faithful, TimesInv, InOrder
<1>5. since = Most({hosts[id].since, project.since})
      /\ ~(hosts[id].is \in Well /\ <<project.is, id, hosts[id].is>> \in Sound \cup Apart)
    BY DEF OffSince
<1>6. since \in Int /\ since >= hosts[id].since /\ since >= project.since
    BY <1>4, <1>5, MostOfTwo
<1>7. hosts[id].since < x.at /\ project.since < view.read
    BY <1>3, <1>4, <1>6
<1>8. x.is = hosts[id].is /\ view.fleet = project.is
    BY <1>1, <1>3, <1>7 DEF ShowsServer, Faithful, IsProject
<1>. QED
    BY <1>3, <1>5, <1>8

-----------------------------------------------------------------------------
(* Routes on a page.                                                       *)

\* The dashboard inspects always or never, and an overlap is remembered.
LEMMA NextInspects ==
    ASSUME TypeInv, [Next]_vars
    PROVE  dashboard'.inspects = dashboard.inspects /\ (overlapped => overlapped')
<1>. USE DEF files, serving
<1>0. DOMAIN dashboard = {"up", "inspects", "holder", "cached"}
    BY DEF TypeInv, Shapes
<1>1. CASE UNCHANGED <<dashboard, overlapped>>
    BY <1>1
<1>2. CASE UNCHANGED vars \/ Done \/ Tick \/ Change
    BY <1>2 DEF vars, Done, Tick, Change
<1>3. ASSUME NEW o \in Observer,
             BeginObserve(o) \/ Gather(o) \/ WriteSnapshot(o) \/ EndObserve(o) \/ CutObserve(o)
      PROVE  UNCHANGED <<dashboard, overlapped>>
    BY <1>3 DEF BeginObserve, Gather, WriteSnapshot, EndObserve, CutObserve
<1>4. ASSUME NEW p \in Prober, BeginProbe(p) \/ EndProbe(p) \/ CutProbe(p)
      PROVE  dashboard' = dashboard /\ (overlapped => overlapped')
    <2>1. CASE BeginProbe(p)
        <3>1. overlapped' = (overlapped \/ \E j \in Inspector \ {p} : Inspecting(j))
            BY <2>1 DEF BeginProbe, Inspect
        <3>. QED
            BY <2>1, <3>1 DEF BeginProbe
    <2>2. CASE EndProbe(p) \/ CutProbe(p)
        BY <2>2 DEF EndProbe, CutProbe
    <2>. QED
        BY <1>4, <2>1, <2>2
<1>5. ASSUME NEW t \in Thread, NEW reply, NEW shown, Leave(t, reply, shown)
      PROVE  dashboard'.inspects = dashboard.inspects
    BY <1>0, <1>5 DEF Leave
<1>6. ASSUME NEW i \in Inspector, InspectStep(i)
      PROVE  dashboard'.inspects = dashboard.inspects /\ overlapped' = overlapped
    <2>1. UNCHANGED overlapped
        BY <1>6 DEF InspectStep, Probe, OpenTemporary, FillTemporary, ReplaceFile
    <2>2. UNCHANGED serving \/ (i \in Thread /\ Leave(i, "dropped", {}))
        BY <1>6 DEF InspectStep, Probe, OpenTemporary, FillTemporary, ReplaceFile,
                    InspectionRaises, Raise
    <2>. QED
        BY <1>5, <2>1, <2>2
<1>7. ASSUME NEW t \in Thread, Request(t) \/ LoadObserved(t)
      PROVE  UNCHANGED <<dashboard, overlapped>>
    BY <1>7 DEF Request, LoadObserved
<1>8. ASSUME NEW t \in Thread, Enter(t)
      PROVE  dashboard'.inspects = dashboard.inspects /\ overlapped' = overlapped
    BY <1>0, <1>5, <1>8 DEF Enter
<1>9. ASSUME NEW t \in Thread, ReadProject(t)
      PROVE  dashboard'.inspects = dashboard.inspects /\ (overlapped => overlapped')
    BY <1>5, <1>9 DEF ReadProject, Raise, Inspect
<1>10. ASSUME NEW t \in Thread, LoadDomains(t)
       PROVE  dashboard'.inspects = dashboard.inspects /\ overlapped' = overlapped
    BY <1>5, <1>10 DEF LoadDomains, Raise
<1>11. ASSUME NEW t \in Thread, BuildView(t)
       PROVE  dashboard'.inspects = dashboard.inspects /\ overlapped' = overlapped
    BY <1>0, <1>11 DEF BuildView
<1>12. CASE CutDashboard
    BY <1>12 DEF CutDashboard, Down
<1>. QED
    BY <1>1, <1>2, <1>3, <1>4, <1>6, <1>7, <1>8, <1>9, <1>10, <1>11, <1>12
    DEF Next, Handle, Inspector

\* What was true of a route stays true of it.
LEMMA RoutesStay ==
    ASSUME TypeInv, WorldInv, Ages
    PROVE  /\ \A d \in Domain, read \in Nat : \A route :
                read <= clock /\ ShowsRoute(d, route, read) => ShowsRoute(d, route, read)'
           /\ \A fleet \in Fleet, read \in Nat : \A found :
                read <= clock /\ ShowRoutes(fleet, found, read) => ShowRoutes(fleet, found, read)'
<1>0. clock \in Nat
    BY DEF TypeInv, Shapes
<1>1. ASSUME NEW d \in Domain, NEW read \in Nat, NEW route, read <= clock,
             ShowsRoute(d, route, read)
      PROVE  ShowsRoute(d, route, read)'
    BY <1>0, <1>1 DEF ShowsRoute, Ages
<1>2. ASSUME NEW fleet \in Fleet, NEW read \in Nat, NEW found, read <= clock,
             ShowRoutes(fleet, found, read)
      PROVE  ShowRoutes(fleet, found, read)'
    <2>1. DomainsOf(fleet) \subseteq Domain
        BY DomainsThereAre
    <2>. QED
        BY <1>1, <1>2, <2>1 DEF ShowRoutes
<1>. QED
    BY <1>1, <1>2

\* Of a view that shows its routes they are shown for good.
LEMMA ViewsStay ==
    ASSUME TypeInv, TruthInv, Ages, NEW view, Faithful(view),
           ShowRoutes(view.fleet, view.domains, view.read)
    PROVE  ShowRoutes(view.fleet, view.domains, view.read)'
<1>. DEFINE fleet == view.fleet
            found == view.domains
            read == view.read
<1>1. fleet \in Fleet /\ read \in Nat /\ read <= clock /\ WorldInv
    BY DEF Faithful, IsProject, TruthInv
<1>. HIDE DEF fleet, found, read
<1>2. ShowRoutes(fleet, found, read) => ShowRoutes(fleet, found, read)'
    BY <1>1, RoutesStay
<1>. QED
    BY <1>2 DEF fleet, found, read

\* An inspection at work is at one of the domains.
LEMMA CurrentIsDomain ==
    ASSUME TypeInv, NEW i \in Inspector, inspections[i].step \in {"opening", "filling", "replacing"}
    PROVE  Current(i) \in Domain /\ inspections[i].route \in Route
<1>1. inspections[i] \in Inspection /\ HasRoute(i)
    BY DEF TypeInv, Shapes
<1>. QED
    BY <1>1, CurrentIsLeft DEF HasRoute, Inspection

\* A handler that has not moved has what it had, if the files and the
\* inspections that change show the routes as they are.
LEMMA OthersInspectTruly ==
    ASSUME TypeInv, TruthInv, Ages, NEW u \in Thread, InspectsTruly(u),
           threads'[u] = threads[u],
           threads[u].step \in {"loading", "loaded"} =>
             /\ threads[u].step = "loading" => Inspecting(u)'
             /\ \A i \in Inspector : inspections'[i] = inspections[i] \/ Tells(i, u)'
             /\ \A d \in DomainsOf(threads[u].fleet) :
                  \/ /\ evidence'[d] = evidence[d]
                     /\ d \notin inspections'[u].todo => d \notin inspections[u].todo
                  \/ Stands(d, u)'
    PROVE  InspectsTruly(u)'
<1>1. BuildsTruly(u) /\ WorldInv
    BY DEF TruthInv
<1>2. \A view \in threads'[u].shown : ShowRoutes(view.fleet, view.domains, view.read)'
    BY <1>1, ViewsStay DEF BuildsTruly, InspectsTruly
<1>3. ASSUME threads[u].step \in {"loading", "loaded", "viewing"}
      PROVE  /\ threads[u].fleet \in Fleet /\ threads[u].read \in Nat /\ threads[u].read <= clock
             /\ DomainsOf(threads[u].fleet) \subseteq Domain
    BY <1>1, <1>3, DomainsThereAre DEF BuildsTruly, IsProject
<1>4. CASE threads[u].step \in {"loading", "loaded"}
    <2>1. ASSUME NEW i \in Inspector, inspections'[i] = inspections[i]
          PROVE  Tells(i, u)'
        <3>1. Current(i)' = Current(i)
            BY <2>1 DEF Current
        <3>2. ASSUME inspections[i].step \in {"opening", "filling", "replacing"}
              PROVE  ShowsRoute(Current(i), inspections[i].route, threads[u].read)'
            <4>1. ShowsRoute(Current(i), inspections[i].route, threads[u].read)
                BY <1>4, <3>2 DEF InspectsTruly, Tells
            <4>2. Current(i) \in Domain
                BY <3>2, CurrentIsDomain
            <4>3. PICK d \in Domain, read \in Nat : d = Current(i) /\ read = threads[u].read
                BY <1>3, <1>4, <4>2
            <4>4. PICK route : route = inspections[i].route
                OBVIOUS
            <4>5. ShowsRoute(d, route, read)
                BY <4>1, <4>3, <4>4
            <4>6. ShowsRoute(d, route, read)'
                BY <1>1, <1>3, <1>4, <4>3, <4>5, RoutesStay
            <4>. QED
                BY <2>1, <3>1, <4>3, <4>4, <4>6 DEF ShowsRoute
        <3>. QED
            BY <2>1, <3>2 DEF Tells
    <2>2. ASSUME NEW d \in DomainsOf(threads[u].fleet), evidence'[d] = evidence[d],
                 d \notin inspections'[u].todo => d \notin inspections[u].todo
          PROVE  Stands(d, u)'
        <3>1. SUFFICES ASSUME threads[u].step = "loading" => d \notin inspections'[u].todo
                       PROVE  \E route \in Route :
                                evidence'[d] = {route} /\ ShowsRoute(d, route, threads[u].read)'
            BY DEF Stands
        <3>2. Stands(d, u)
            BY <1>4 DEF InspectsTruly
        <3>3. PICK route \in Route : evidence[d] = {route} /\ ShowsRoute(d, route, threads[u].read)
            BY <2>2, <3>1, <3>2 DEF Stands
        <3>4. PICK read \in Nat : read = threads[u].read
            BY <1>3, <1>4
        <3>5. ShowsRoute(d, route, read)
            BY <3>3, <3>4
        <3>6. d \in Domain
            BY <1>3, <1>4, <2>2
        <3>7. ShowsRoute(d, route, read)'
            BY <1>1, <1>3, <1>4, <3>4, <3>5, <3>6, RoutesStay
        <3>. QED
            BY <2>2, <3>3, <3>4, <3>7 DEF ShowsRoute
    <2>. QED
        BY <1>2, <1>4, <2>1, <2>2 DEF InspectsTruly
<1>5. CASE threads[u].step = "viewing"
    <2>1. ASSUME NEW found \in threads[u].domains
          PROVE  ShowRoutes(threads[u].fleet, found, threads[u].read)'
        <3>1. PICK fleet \in Fleet, read \in Nat : fleet = threads[u].fleet /\ read = threads[u].read
            BY <1>3, <1>5
        <3>2. ShowRoutes(fleet, found, read)
            BY <1>5, <2>1, <3>1 DEF InspectsTruly
        <3>3. ShowRoutes(fleet, found, read)'
            BY <1>1, <1>3, <1>5, <3>1, <3>2, RoutesStay
        <3>. QED
            BY <3>1, <3>3
    <2>. QED
        BY <1>2, <1>5, <2>1 DEF InspectsTruly
<1>6. CASE threads[u].step \notin {"loading", "loaded", "viewing"}
    BY <1>2, <1>6 DEF InspectsTruly
<1>. QED
    BY <1>4, <1>5, <1>6

\* Nobody shows anything at first.
LEMMA InitRoutes == Init => RoutesInv
<1>. SUFFICES ASSUME Init PROVE RoutesInv
    OBVIOUS
<1>1. \A t \in Thread : InspectsTruly(t)
    BY DEF InspectsTruly, Init, NoThread
<1>2. dashboard.cached = {}
    BY DEF Init, Down
<1>. QED
    BY <1>1, <1>2 DEF RoutesInv

\* A handler that leaves leaves nothing untrue behind.
LEMMA LeavingInspectsTruly ==
    ASSUME TypeInv, TruthInv, Ages, \A u \in Thread : InspectsTruly(u),
           NEW t \in Thread, NEW reply, NEW shown,
           \A view \in shown : ShowRoutes(view.fleet, view.domains, view.read)',
           threads' = Replied(t, reply, shown), evidence' = evidence,
           \A i \in Inspector \ {t} : inspections'[i] = inspections[i],
           inspections'[t] = inspections[t] \/ inspections'[t].step = "idle"
    PROVE  \A u \in Thread : InspectsTruly(u)'
<1>1. /\ threads'[t].step = "idle" /\ threads'[t].shown = shown
      /\ \A u \in Thread \ {t} : threads'[u] = threads[u]
    BY DEF Replied, NoThread, TypeInv, Shapes
<1>2. InspectsTruly(t)'
    BY <1>1 DEF InspectsTruly
<1>3. ASSUME NEW u \in Thread \ {t}
      PROVE  InspectsTruly(u)'
    <2>1. threads'[u] = threads[u] /\ inspections'[u] = inspections[u]
        BY <1>1, <1>3 DEF Inspector
    <2>2. threads[u].step = "loading" => Inspecting(u)'
        BY <2>1 DEF InspectsTruly, Inspecting
    <2>3. \A i \in Inspector : inspections'[i] = inspections[i] \/ Tells(i, u)'
        BY DEF Tells
    <2>. QED
        BY <2>1, <2>2, <2>3, OthersInspectTruly
<1>. QED
    BY <1>2, <1>3

\* An inspection writes what it found, and found what there was.
LEMMA InspectingTruly ==
    ASSUME TypeInv, TruthInv, WholeInv, Ages, ~overlapped, \A u \in Thread : InspectsTruly(u),
           NEW i \in Inspector, InspectStep(i)
    PROVE  \A u \in Thread : InspectsTruly(u)'
<1>. USE DEF world, files, serving
<1>0. inspections \in [Inspector -> Inspection] /\ evidence \in [Domain -> Content]
      /\ \A j \in Inspector : HasRoute(j)
    BY DEF TypeInv, Shapes
<1>1. /\ \A j \in Inspector : Inspecting(i) /\ Inspecting(j) => i = j
      /\ HasWritten(i)
    BY DEF WholeInv
<1>2. ASSUME InspectionRaises(i), UNCHANGED evidence
      PROVE  \A u \in Thread : InspectsTruly(u)'
    <2>1. /\ inspections'[i].step = "idle"
          /\ \A j \in Inspector \ {i} : inspections'[j] = inspections[j]
        BY <1>0, <1>2 DEF InspectionRaises, EndInspection, NoInspection
    <2>2. CASE i \in Thread
        <3>1. threads' = Replied(i, "dropped", {})
            BY <1>2, <2>2 DEF InspectionRaises, Raise, Leave
        <3>. QED
            BY <1>2, <2>1, <2>2, <3>1, LeavingInspectsTruly
    <2>3. CASE i \notin Thread
        <3>1. SUFFICES ASSUME NEW u \in Thread PROVE InspectsTruly(u)'
            OBVIOUS
        <3>2. threads'[u] = threads[u] /\ inspections'[u] = inspections[u]
            BY <1>2, <2>1, <2>3 DEF InspectionRaises, Inspector
        <3>3. threads[u].step = "loading" => Inspecting(u)'
            BY <3>2 DEF InspectsTruly, Inspecting
        <3>4. \A j \in Inspector : inspections'[j] = inspections[j] \/ Tells(j, u)'
            BY <2>1 DEF Tells
        <3>. QED
            BY <1>2, <3>2, <3>3, <3>4, OthersInspectTruly
    <2>. QED
        BY <2>2, <2>3
<1>3. ASSUME UNCHANGED <<routes, evidence, threads>>,
             inspections'[i].step \in {"opening", "filling", "replacing"},
             inspections'[i].todo = inspections[i].todo,
             \A j \in Inspector \ {i} : inspections'[j] = inspections[j],
             Current(i) \in Domain,
             \A u \in Thread : threads[u].step \in {"loading", "loaded"} =>
                ShowsRoute(Current(i), inspections'[i].route, threads[u].read)
      PROVE  \A u \in Thread : InspectsTruly(u)'
    <2>1. SUFFICES ASSUME NEW u \in Thread PROVE InspectsTruly(u)'
        OBVIOUS
    <2>2. threads'[u] = threads[u] /\ inspections'[u].todo = inspections[u].todo
        BY <1>3 DEF Inspector
    <2>3. threads[u].step = "loading" => Inspecting(u)'
        BY <1>3 DEF InspectsTruly, Inspecting, Inspector
    <2>4. Current(i)' = Current(i)
        BY <1>3 DEF Current
    <2>5. threads[u].step \in {"loading", "loaded"} => Tells(i, u)'
        BY <1>3, <2>4 DEF Tells, ShowsRoute
    <2>. QED
        BY <1>3, <2>2, <2>3, <2>5, OthersInspectTruly
<1>4. CASE Probe(i)
    <2>. DEFINE found == routes[Current(i)].is
    <2>1. CASE RouteOf[found].raises
        BY <1>2, <1>4, <2>1 DEF Probe
    <2>2. CASE ~RouteOf[found].raises
        <3>1. /\ inspections' = [inspections EXCEPT ![i].step = "opening", ![i].route = found]
              /\ UNCHANGED <<routes, evidence, threads>> /\ inspections[i].todo # {}
            BY <1>4, <2>2 DEF Probe
        <3>2. Current(i) \in Domain
            BY <1>0, <3>1, CurrentIsLeft DEF Inspection
        <3>3. \A read : ShowsRoute(Current(i), found, read)
            BY DEF ShowsRoute
        <3>. HIDE DEF found
        <3>4. /\ inspections'[i].step = "opening" /\ inspections'[i].route = found
              /\ inspections'[i].todo = inspections[i].todo
              /\ \A j \in Inspector \ {i} : inspections'[j] = inspections[j]
            BY <1>0, <3>1 DEF Inspection
        <3>. QED
            BY <1>3, <3>1, <3>2, <3>3, <3>4
    <2>. QED
        BY <2>1, <2>2
<1>5. ASSUME inspections[i].step \in {"opening", "filling", "replacing"}
      PROVE  /\ Current(i) \in Domain /\ inspections[i].route \in Route
             /\ \A u \in Thread : threads[u].step \in {"loading", "loaded"} =>
                  ShowsRoute(Current(i), inspections[i].route, threads[u].read)
    BY <1>5, CurrentIsDomain DEF InspectsTruly, Tells
<1>6. CASE OpenTemporary(i) \/ FillTemporary(i)
    <2>1. inspections[i].step \in {"opening", "filling"}
        BY <1>6 DEF OpenTemporary, FillTemporary
    <2>2. UNCHANGED <<routes, evidence, threads>>
        BY <1>1, <1>6 DEF OpenTemporary, FillTemporary, HasWritten
    <2>3. /\ inspections'[i].step \in {"filling", "replacing"}
          /\ inspections'[i].route = inspections[i].route
          /\ inspections'[i].todo = inspections[i].todo
          /\ \A j \in Inspector \ {i} : inspections'[j] = inspections[j]
        <3>1. CASE OpenTemporary(i)
            BY <1>0, <3>1 DEF OpenTemporary, Inspection
        <3>2. CASE FillTemporary(i)
            BY <1>0, <3>2 DEF FillTemporary, Inspection
        <3>. QED
            BY <1>6, <3>1, <3>2
    <2>. QED
        BY <1>3, <1>5, <2>1, <2>2, <2>3
<1>7. CASE ReplaceFile(i)
    <2>0. PICK d \in Domain, route \in Route : d = Current(i) /\ route = inspections[i].route
        BY <1>5, <1>7 DEF ReplaceFile
    <2>1. \A u \in Thread : threads[u].step \in {"loading", "loaded"} =>
            ShowsRoute(d, route, threads[u].read)
        BY <1>5, <1>7, <2>0 DEF ReplaceFile
    <2>2. temporary[d] = {route} /\ inspections[i].step = "replacing"
        BY <1>1, <1>7, <2>0 DEF ReplaceFile, HasWritten
    <2>3. /\ evidence' = [evidence EXCEPT ![d] = temporary[d]]
          /\ inspections' = Moved(i, d) /\ UNCHANGED <<routes, threads>>
        BY <1>7, <2>0, <2>2 DEF ReplaceFile
    <2>4. inspections'[i].step = "probing" /\ inspections'[i].todo = inspections[i].todo \ {d}
        BY <2>3 DEF Moved, NoInspection
    <2>5. ASSUME NEW j \in Inspector \ {i}
          PROVE  inspections'[j] = inspections[j]
        <3>1. inspections[j].step = "idle"
            BY <1>1, <2>2 DEF Inspecting
        <3>. QED
            BY <2>3, <3>1 DEF Moved
    <2>6. /\ evidence'[d] = {route}
          /\ \A e \in Domain \ {d} : evidence'[e] = evidence[e]
        BY <1>0, <2>2, <2>3
    <2>7. SUFFICES ASSUME NEW u \in Thread PROVE InspectsTruly(u)'
        OBVIOUS
    <2>8. threads'[u] = threads[u]
        BY <2>3
    <2>9. threads[u].step = "loading" => Inspecting(u)'
        BY <2>4, <2>5 DEF InspectsTruly, Inspecting, Inspector
    <2>10. \A j \in Inspector : inspections'[j] = inspections[j] \/ Tells(j, u)'
        BY <2>4, <2>5 DEF Tells
    <2>11. ASSUME threads[u].step \in {"loading", "loaded"},
                  NEW e \in DomainsOf(threads[u].fleet)
           PROVE  \/ /\ evidence'[e] = evidence[e]
                     /\ e \notin inspections'[u].todo => e \notin inspections[u].todo
                  \/ Stands(e, u)'
        <3>1. CASE e = d
            <4>1. ShowsRoute(d, route, threads[u].read)'
                BY <2>1, <2>3, <2>11 DEF ShowsRoute
            <4>. QED
                BY <2>6, <3>1, <4>1 DEF Stands
        <3>2. CASE e # d
            <4>1. threads[u].fleet \in Fleet
                BY <2>11 DEF TruthInv, BuildsTruly, IsProject
            <4>2. e \in Domain
                BY <2>11, <4>1, DomainsThereAre
            <4>3. e \notin inspections'[u].todo => e \notin inspections[u].todo
                BY <2>4, <2>5, <3>2 DEF Inspector
            <4>. QED
                BY <2>6, <3>2, <4>2, <4>3
        <3>. QED
            BY <3>1, <3>2
    <2>. QED
        BY <2>8, <2>9, <2>10, <2>11, OthersInspectTruly
<1>. QED
    BY <1>4, <1>6, <1>7 DEF InspectStep

\* Where no two inspections overlap, a page shows its routes as they were.
LEMMA NextRoutes ==
    TypeInv /\ WholeInv /\ TruthInv /\ RoutesInv /\ [Next]_vars => RoutesInv'
<1>. SUFFICES ASSUME TypeInv, WholeInv, TruthInv, RoutesInv, [Next]_vars,
                     dashboard'.inspects, ~overlapped'
              PROVE  /\ \A t \in Thread : InspectsTruly(t)'
                     /\ \A c \in dashboard'.cached :
                          ShowRoutes(c.view.fleet, c.view.domains, c.view.read)'
    BY DEF RoutesInv
<1>. USE DEF world, files, serving
<1>0. /\ dashboard.inspects /\ ~overlapped
      /\ \A t \in Thread : InspectsTruly(t)
      /\ \A c \in dashboard.cached : ShowRoutes(c.view.fleet, c.view.domains, c.view.read)
    BY NextInspects DEF RoutesInv
<1>a. Ages /\ WorldInv
    BY NextAges DEF TruthInv
<1>b. /\ clock \in Nat /\ DOMAIN dashboard = {"up", "inspects", "holder", "cached"}
      /\ DOMAIN threads = Thread /\ inspections \in [Inspector -> Inspection]
    BY DEF TypeInv, Shapes
<1>c. \A c \in dashboard.cached : ShowRoutes(c.view.fleet, c.view.domains, c.view.read)'
    <2>1. SUFFICES ASSUME NEW c \in dashboard.cached
                   PROVE  ShowRoutes(c.view.fleet, c.view.domains, c.view.read)'
        OBVIOUS
    <2>2. PICK view : view = c.view
        OBVIOUS
    <2>3. Faithful(view) /\ ShowRoutes(view.fleet, view.domains, view.read)
        BY <1>0, <2>2 DEF TruthInv
    <2>4. ShowRoutes(view.fleet, view.domains, view.read)'
        BY <1>a, <2>3, ViewsStay
    <2>. QED
        BY <2>2, <2>4
<1>d. ASSUME NEW u \in Thread
      PROVE  \A view \in threads[u].shown : ShowRoutes(view.fleet, view.domains, view.read)'
    BY <1>0, <1>a, ViewsStay DEF InspectsTruly, TruthInv, BuildsTruly
<1>1. CASE UNCHANGED <<evidence, inspections, threads, dashboard>>
    <2>1. ASSUME NEW u \in Thread
          PROVE  InspectsTruly(u)'
        <3>1. threads[u].step = "loading" => Inspecting(u)'
            BY <1>0, <1>1 DEF InspectsTruly, Inspecting
        <3>. QED
            BY <1>0, <1>1, <1>a, <3>1, OthersInspectTruly
    <2>. QED
        BY <1>1, <1>c, <2>1
<1>2. CASE UNCHANGED vars \/ Done \/ Tick \/ Change
    BY <1>1, <1>2 DEF vars, Done, Tick, Change
<1>3. ASSUME NEW o \in Observer,
             BeginObserve(o) \/ Gather(o) \/ WriteSnapshot(o) \/ EndObserve(o) \/ CutObserve(o)
      PROVE  UNCHANGED <<evidence, inspections, threads, dashboard>>
    BY <1>3 DEF BeginObserve, Gather, WriteSnapshot, EndObserve, CutObserve
<1>4. ASSUME NEW p \in Prober, BeginProbe(p) \/ EndProbe(p) \/ CutProbe(p)
      PROVE  \A u \in Thread : InspectsTruly(u)'
    <2>1. p \in Inspector /\ p \notin Thread
        BY EvidenceAssumption DEF Inspector
    <2>2. /\ inspections'[p].step \in {"idle", "probing"}
          /\ \A i \in Inspector \ {p} : inspections'[i] = inspections[i]
          /\ UNCHANGED <<evidence, threads>>
        <3>1. CASE BeginProbe(p)
            <4>1. PICK domains : inspections' = [inspections EXCEPT ![p] =
                                    [NoInspection EXCEPT !.step = "probing", !.todo = domains]]
                BY <3>1 DEF BeginProbe, Inspect
            <4>. QED
                BY <1>b, <2>1, <3>1, <4>1 DEF BeginProbe, NoInspection
        <3>2. CASE EndProbe(p) \/ CutProbe(p)
            BY <1>b, <2>1, <3>2 DEF EndProbe, CutProbe, EndInspection, NoInspection
        <3>. QED
            BY <1>4, <3>1, <3>2
    <2>3. SUFFICES ASSUME NEW u \in Thread PROVE InspectsTruly(u)'
        OBVIOUS
    <2>4. threads'[u] = threads[u] /\ inspections'[u] = inspections[u]
        BY <2>1, <2>2 DEF Inspector
    <2>5. threads[u].step = "loading" => Inspecting(u)'
        BY <1>0, <2>4 DEF InspectsTruly, Inspecting
    <2>6. \A i \in Inspector : inspections'[i] = inspections[i] \/ Tells(i, u)'
        BY <2>2 DEF Tells
    <2>. QED
        BY <1>0, <1>a, <2>2, <2>4, <2>5, <2>6, OthersInspectTruly
<1>5. ASSUME NEW t \in Thread, NEW reply, NEW shown, Leave(t, reply, shown),
             \A view \in shown : ShowRoutes(view.fleet, view.domains, view.read)',
             UNCHANGED <<evidence, inspections>>
      PROVE  /\ \A u \in Thread : InspectsTruly(u)'
             /\ dashboard'.cached = dashboard.cached
    <2>1. \A u \in Thread : InspectsTruly(u)'
        BY <1>0, <1>5, <1>a, LeavingInspectsTruly DEF Leave
    <2>. QED
        BY <1>5, <1>b, <2>1 DEF Leave
<1>6. ASSUME NEW i \in Inspector, InspectStep(i)
      PROVE  /\ \A u \in Thread : InspectsTruly(u)'
             /\ dashboard'.cached = dashboard.cached
    <2>1. UNCHANGED dashboard \/ dashboard' = [dashboard EXCEPT !.holder = {}]
        BY <1>6 DEF InspectStep, Probe, OpenTemporary, FillTemporary, ReplaceFile,
                    InspectionRaises, Raise, Leave
    <2>. QED
        BY <1>0, <1>6, <1>a, <1>b, <2>1, InspectingTruly
<1>7. ASSUME NEW t \in Thread, InspectsTruly(t)', UNCHANGED <<evidence, inspections>>,
             \A u \in Thread \ {t} : threads'[u] = threads[u]
      PROVE  \A u \in Thread : InspectsTruly(u)'
    <2>1. ASSUME NEW u \in Thread \ {t}
          PROVE  InspectsTruly(u)'
        <3>1. threads[u].step = "loading" => Inspecting(u)'
            BY <1>0, <1>7 DEF InspectsTruly, Inspecting
        <3>. QED
            BY <1>0, <1>7, <1>a, <3>1, OthersInspectTruly
    <2>. QED
        BY <1>7, <2>1
<1>8. ASSUME NEW t \in Thread, Request(t)
      PROVE  /\ \A u \in Thread : InspectsTruly(u)'
             /\ dashboard'.cached = dashboard.cached
    <2>1. threads' = [threads EXCEPT ![t] =
                        [NoThread EXCEPT !.step = "waiting", !.arrived = clock]]
        BY <1>8 DEF Request
    <2>2. /\ threads'[t].step = "waiting" /\ threads'[t].shown = {}
          /\ \A u \in Thread \ {t} : threads'[u] = threads[u]
        BY <1>b, <2>1 DEF NoThread
    <2>3. InspectsTruly(t)'
        BY <2>2 DEF InspectsTruly
    <2>. QED
        BY <1>7, <1>8, <2>2, <2>3 DEF Request
<1>9. ASSUME NEW t \in Thread, Enter(t)
      PROVE  /\ \A u \in Thread : InspectsTruly(u)'
             /\ dashboard'.cached = dashboard.cached
    <2>1. CASE \E c \in dashboard.cached : Leave(t, "view", {c.view})
        <3>1. PICK c \in dashboard.cached : Leave(t, "view", {c.view})
            BY <2>1
        <3>2. PICK v : v = c.view
            OBVIOUS
        <3>3. \A view \in {v} : ShowRoutes(view.fleet, view.domains, view.read)'
            BY <1>c, <3>2
        <3>. QED
            BY <1>5, <1>9, <3>1, <3>2, <3>3 DEF Enter
    <2>2. CASE /\ dashboard' = [dashboard EXCEPT !.holder = {t}]
               /\ threads' = [threads EXCEPT ![t].step = "validating", ![t].now = clock]
        <3>1. /\ threads'[t].step = "validating" /\ threads'[t].shown = threads[t].shown
              /\ \A u \in Thread \ {t} : threads'[u] = threads[u]
            BY <1>b, <2>2 DEF TypeInv, Shapes
        <3>2. InspectsTruly(t)'
            BY <1>d, <3>1 DEF InspectsTruly
        <3>3. dashboard'.cached = dashboard.cached
            BY <1>b, <2>2
        <3>. QED
            BY <1>7, <1>9, <3>1, <3>2, <3>3 DEF Enter
    <2>. QED
        BY <1>9, <2>1, <2>2 DEF Enter
<1>10. ASSUME NEW t \in Thread, NEW u \in Thread \ {t}, threads[t].step \notin {"idle", "waiting"}
       PROVE  threads[u].step \in {"idle", "waiting"}
    BY <1>10 DEF TypeInv, HoldsLock
<1>11. ASSUME NEW t \in Thread, threads[t].step \notin {"idle", "waiting"}, InspectsTruly(t)',
              \A u \in Thread \ {t} : threads'[u] = threads[u]
       PROVE  \A u \in Thread : InspectsTruly(u)'
    <2>1. ASSUME NEW u \in Thread \ {t}
          PROVE  InspectsTruly(u)'
        <3>1. threads[u].step \in {"idle", "waiting"} /\ threads'[u] = threads[u]
            BY <1>10, <1>11
        <3>. QED
            BY <1>0, <1>a, <3>1, OthersInspectTruly
    <2>. QED
        BY <1>11, <2>1
<1>12. ASSUME NEW t \in Thread, ReadProject(t)
       PROVE  /\ \A u \in Thread : InspectsTruly(u)'
              /\ dashboard'.cached = dashboard.cached
    <2>1. CASE project.is = Broken
        BY <1>5, <1>12, <2>1 DEF ReadProject, Raise
    <2>2. CASE project.is # Broken
        <3>1. /\ threads' = [threads EXCEPT ![t].fleet = project.is, ![t].read = clock,
                                            ![t].step = "loading"]
              /\ Inspect(t, DomainsOf(project.is))
              /\ UNCHANGED dashboard /\ threads[t].step = "validating"
            BY <1>0, <1>12, <2>2 DEF ReadProject
        <3>2. /\ threads'[t].step = "loading" /\ threads'[t].shown = threads[t].shown
              /\ threads'[t].fleet = project.is
              /\ \A u \in Thread \ {t} : threads'[u] = threads[u]
            BY <1>b, <3>1 DEF TypeInv, Shapes
        <3>. DEFINE domains == DomainsOf(project.is)
        <3>3. /\ inspections' = [inspections EXCEPT ![t] =
                                   [NoInspection EXCEPT !.step = "probing", !.todo = domains]]
              /\ \A i \in Inspector \ {t} : ~Inspecting(i)
            BY <3>1 DEF Inspect
        <3>. HIDE DEF domains
        <3>4. /\ inspections'[t].step = "probing" /\ inspections'[t].todo = domains
              /\ \A i \in Inspector \ {t} : inspections'[i] = inspections[i]
            BY <1>b, <3>3 DEF Inspector, NoInspection
        <3>5. Inspecting(t)'
            BY <3>4 DEF Inspecting
        <3>6. \A i \in Inspector : Tells(i, t)'
            BY <3>3, <3>4 DEF Tells, Inspecting
        <3>7. domains = DomainsOf(threads'[t].fleet)
            BY <3>2 DEF domains
        <3>8. \A d \in domains : Stands(d, t)'
            BY <3>2, <3>4 DEF Stands
        <3>9. InspectsTruly(t)'
            BY <1>d, <3>2, <3>5, <3>6, <3>7, <3>8 DEF InspectsTruly, DomainsOf, Inventory
        <3>. QED
            BY <1>11, <3>1, <3>2, <3>9
    <2>. QED
        BY <2>1, <2>2
<1>13. ASSUME NEW t \in Thread, LoadObserved(t)
       PROVE  /\ \A u \in Thread : InspectsTruly(u)'
              /\ dashboard'.cached = dashboard.cached
    <2>1. /\ threads' = [threads EXCEPT ![t].snapshots = {observed}, ![t].step = "loaded"]
          /\ threads[t].step = "loading" /\ inspections[t].todo = {}
          /\ inspections' = [inspections EXCEPT ![t] = NoInspection]
          /\ UNCHANGED <<world, evidence, dashboard>>
        BY <1>13 DEF LoadObserved, EndInspect, EndInspection
    <2>2. /\ threads'[t].step = "loaded" /\ threads'[t].shown = threads[t].shown
          /\ threads'[t].fleet = threads[t].fleet /\ threads'[t].read = threads[t].read
          /\ \A u \in Thread \ {t} : threads'[u] = threads[u]
        BY <1>b, <2>1 DEF TypeInv, Shapes
    <2>3. /\ inspections'[t].step = "idle"
          /\ \A i \in Inspector \ {t} : inspections'[i] = inspections[i]
        BY <1>b, <2>1 DEF Inspector, NoInspection
    <2>4. \A i \in Inspector : Tells(i, t)
        BY <1>0, <2>1 DEF InspectsTruly
    <2>5. ASSUME NEW i \in Inspector
          PROVE  Tells(i, t)'
        <3>1. CASE i = t
            BY <2>3, <3>1 DEF Tells
        <3>2. CASE i # t
            <4>1. inspections'[i] = inspections[i]
                BY <2>3, <3>2
            <4>2. Current(i)' = Current(i)
                BY <4>1 DEF Current
            <4>. QED
                BY <2>1, <2>2, <2>4, <4>1, <4>2 DEF Tells, ShowsRoute
        <3>. QED
            BY <3>1, <3>2
    <2>6. \A d \in DomainsOf(threads[t].fleet) : Stands(d, t)
        BY <1>0, <2>1 DEF InspectsTruly
    <2>7. \A d \in DomainsOf(threads[t].fleet) : Stands(d, t)'
        BY <2>1, <2>2, <2>6 DEF Stands, ShowsRoute
    <2>8. InspectsTruly(t)'
        BY <1>d, <2>2, <2>5, <2>7 DEF InspectsTruly, DomainsOf, Inventory
    <2>. QED
        BY <1>11, <2>1, <2>2, <2>8
<1>14. ASSUME NEW t \in Thread, LoadDomains(t)
       PROVE  /\ \A u \in Thread : InspectsTruly(u)'
              /\ dashboard'.cached = dashboard.cached
    <2>1. CASE Raise(t, "invalid")
        BY <1>5, <1>14, <2>1 DEF LoadDomains, Raise
    <2>2. CASE /\ threads' = [threads EXCEPT ![t].domains = {evidence}, ![t].step = "viewing"]
               /\ UNCHANGED dashboard
        <3>1. /\ threads'[t].step = "viewing" /\ threads'[t].shown = threads[t].shown
              /\ threads'[t].fleet = threads[t].fleet /\ threads'[t].read = threads[t].read
              /\ threads'[t].domains = {evidence} /\ threads[t].step = "loaded"
              /\ \A u \in Thread \ {t} : threads'[u] = threads[u]
            BY <1>b, <1>14, <2>2 DEF LoadDomains, TypeInv, Shapes
        <3>2. PICK fleet, read, found :
                fleet = threads[t].fleet /\ read = threads[t].read /\ found = evidence
            OBVIOUS
        <3>3. \A d \in DomainsOf(fleet) : Stands(d, t)
            BY <1>0, <3>1, <3>2 DEF InspectsTruly
        <3>4. ShowRoutes(fleet, found, read)
            BY <3>1, <3>2, <3>3 DEF Stands, ShowRoutes
        <3>5. UNCHANGED routes
            BY <1>14 DEF LoadDomains
        <3>6. ShowRoutes(fleet, found, read)'
            BY <3>4, <3>5 DEF ShowRoutes, ShowsRoute
        <3>7. \A f \in threads'[t].domains : ShowRoutes(threads[t].fleet, f, threads[t].read)'
            BY <3>1, <3>2, <3>6 DEF ShowRoutes, ShowsRoute, DomainsOf, Inventory
        <3>8. InspectsTruly(t)'
            BY <1>d, <3>1, <3>7 DEF InspectsTruly
        <3>. QED
            BY <1>11, <2>2, <3>1, <3>8
    <2>. QED
        BY <1>14, <2>1, <2>2 DEF LoadDomains
<1>15. ASSUME NEW t \in Thread, BuildView(t)
       PROVE  /\ \A u \in Thread : InspectsTruly(u)'
              /\ \A c \in dashboard'.cached :
                   ShowRoutes(c.view.fleet, c.view.domains, c.view.read)'
    <2>1. /\ threads[t].step = "viewing" /\ UNCHANGED <<world, evidence, inspections>>
        BY <1>15 DEF BuildView
    <2>2. PICK snapshots \in threads[t].snapshots, domains \in threads[t].domains :
            LET view == [fleet |-> threads[t].fleet, read |-> threads[t].read, at |-> clock,
                         snapshots |-> snapshots, domains |-> domains]
            IN  /\ threads' = Replied(t, "view", {view})
                /\ dashboard' = [dashboard EXCEPT !.holder = {}, !.up = TRUE,
                                                  !.cached = {Cached(t, view)}]
        BY <1>15 DEF BuildView
    <2>. DEFINE view == [fleet |-> threads[t].fleet, read |-> threads[t].read, at |-> clock,
                         snapshots |-> snapshots, domains |-> domains]
    <2>3. view.fleet = threads[t].fleet /\ view.read = threads[t].read /\ view.domains = domains
        OBVIOUS
    <2>4. /\ threads' = Replied(t, "view", {view})
          /\ dashboard'.cached = {Cached(t, view)}
        BY <1>b, <2>2
    <2>. HIDE DEF view
    <2>5. PICK v : v = view
        OBVIOUS
    <2>6. ShowRoutes(threads[t].fleet, domains, threads[t].read)
        BY <1>0, <2>1, <2>2 DEF InspectsTruly
    <2>7. ShowRoutes(v.fleet, v.domains, v.read)
        BY <2>3, <2>5, <2>6
    <2>8. ShowRoutes(v.fleet, v.domains, v.read)'
        BY <2>1, <2>7 DEF ShowRoutes, ShowsRoute
    <2>9. \A w \in {v} : ShowRoutes(w.fleet, w.domains, w.read)'
        BY <2>8
    <2>10. threads' = Replied(t, "view", {v})
        BY <2>4, <2>5
    <2>11. \A u \in Thread : InspectsTruly(u)'
        BY <1>0, <1>a, <2>1, <2>9, <2>10, LeavingInspectsTruly
    <2>12. \A c \in dashboard'.cached : c.view = v
        BY <2>4, <2>5 DEF Cached
    <2>13. \A c \in dashboard'.cached : ShowRoutes(c.view.fleet, c.view.domains, c.view.read)'
        BY <2>8, <2>12
    <2>. QED
        BY <2>11, <2>13
<1>16. CASE CutDashboard
    <2>1. /\ dashboard'.cached = {}
          /\ \A t \in Thread : threads'[t].step = "idle" /\ threads'[t].shown = {}
        BY <1>16 DEF CutDashboard, Down, NoThread
    <2>2. \A t \in Thread : InspectsTruly(t)'
        BY <2>1 DEF InspectsTruly
    <2>. QED
        BY <2>1, <2>2
<1>17. ASSUME NEW p \in Prober, BeginProbe(p) \/ EndProbe(p) \/ CutProbe(p)
       PROVE  UNCHANGED dashboard
    BY <1>17 DEF BeginProbe, EndProbe, CutProbe
<1>. QED
    BY <1>1, <1>2, <1>3, <1>4, <1>6, <1>8, <1>9, <1>12, <1>13, <1>14, <1>15, <1>16, <1>17, <1>c
    DEF Next, Handle, Inspector

\* What a view shows of a domain.
LEMMA ShownDomain ==
    ASSUME NEW view, view.fleet \in Fleet, NEW id \in DOMAIN Shown(view).domains
    PROVE  LET inv == Inventory(view.fleet)
           IN  /\ id \in DomainsOf(view.fleet) /\ id \in Domain
               /\ Named(inv.domains, id) \in inv.domains
               /\ \E seen : /\ seen.route = {RouteOf[r] : r \in view.domains[id]}
                            /\ seen.now = view.at
                            /\ Shown(view).domains[id]
                                 = DomainHealth(inv, Named(inv.domains, id), seen)
<1>. DEFINE inv == Inventory(view.fleet)
            ids == {d.id : d \in inv.domains}
            snapshots == [s \in Server |-> Facts(view.snapshots[s])]
            receipts == ProjectOf[view.fleet].deployed
            found == [d \in Domain |-> {RouteOf[r] : r \in view.domains[d]}]
            what(i) == [snapshot |-> snapshots[Named(inv.domains, i).proxy],
                        receipt |-> receipts[i], route |-> found[i], now |-> view.at]
            health(i) == DomainHealth(inv, Named(inv.domains, i), what(i))
<1>1. Shown(view).domains = [i \in ids |-> health(i)]
    BY DEF Shown, OperationsView
<1>2. what(id).route = found[id] /\ what(id).now = view.at
    OBVIOUS
<1>. HIDE DEF what
<1>3. Shown(view).domains[id] = DomainHealth(inv, Named(inv.domains, id), what(id))
    <2>. HIDE DEF health
    <2>1. id \in ids /\ Shown(view).domains[id] = health(id)
        BY <1>1
    <2>. QED
        BY <2>1 DEF health
<1>4. id \in ids
    <2>. HIDE DEF health
    <2>. QED
        BY <1>1
<1>5. PICK d \in inv.domains : d.id = id
    BY <1>4
<1>6. Named(inv.domains, id) \in inv.domains
    BY <1>5, NamedIsThere
<1>7. id \in DomainsOf(view.fleet)
    BY <1>4 DEF DomainsOf
<1>8. id \in Domain
    BY <1>7, DomainsThereAre
<1>9. found[id] = {RouteOf[r] : r \in view.domains[id]}
    BY <1>8
<1>. HIDE DEF inv, found
<1>10. what(id).route = {RouteOf[r] : r \in view.domains[id]}
    BY <1>2, <1>9
<1>. QED
    BY <1>2, <1>3, <1>6, <1>7, <1>8, <1>10 DEF inv

\* A route shown as healthy is sound, unless it has changed since or two
\* inspections overlapped.
LEMMA HealthyDomainsAreSound ==
    ASSUME RouteIsSound, TypeInv, TimesInv, TruthInv, RoutesInv, NEW t \in Thread,
           NEW view \in threads[t].shown, NEW id \in DOMAIN Shown(view).domains,
           Shown(view).domains[id] = "healthy", dashboard.inspects, ~overlapped,
           routes[id].since <= threads[t].arrived - Refresh
    PROVE  RouteOf[routes[id].is].sound
<1>1. /\ view.fleet \in Fleet /\ view.read \in Nat /\ view.at \in Nat
      /\ ShowRoutes(view.fleet, view.domains, view.read)
    BY DEF TruthInv, BuildsTruly, Faithful, IsProject, RoutesInv, InspectsTruly
<1>. DEFINE inv == Inventory(view.fleet)
            domain == Named(inv.domains, id)
<1>2. PICK seen :
        /\ seen.route = {RouteOf[r] : r \in view.domains[id]} /\ seen.now = view.at
        /\ Shown(view).domains[id] = DomainHealth(inv, domain, seen)
    BY <1>1, ShownDomain
<1>3. id \in DomainsOf(view.fleet) /\ id \in Domain /\ domain \in inv.domains
    BY <1>1, ShownDomain
<1>4. PICK r \in Route : view.domains[id] = {r} /\ ShowsRoute(id, r, view.read)
    BY <1>1, <1>3 DEF ShowRoutes
<1>5. r = routes[id].is
    <2>1. /\ routes[id].since \in Int /\ Refresh \in Nat /\ threads[t].arrived \in Nat
          /\ view.read > threads[t].arrived - Refresh
        BY <1>3, RefreshBound DEF TypeInv, Shapes, TimesInv, InOrder
    <2>2. routes[id].since < view.read
        BY <1>1, <2>1
    <2>. QED
        BY <1>4, <2>2 DEF ShowsRoute
<1>6. seen.route = {RouteOf[r]}
    BY <1>2, <1>4
<1>. HIDE DEF domain, inv
<1>7. DomainChecks(domain, {RouteOf[r]}, 0) \subseteq {"healthy"}
    BY <1>1, <1>2, <1>6, HealthyRoute
<1>8. RouteOf[r].sound
    BY <1>1, <1>3, <1>7 DEF RouteIsSound, inv
<1>. QED
    BY <1>5, <1>8

\* A page shows nothing as healthy that was known to be off for longer than
\* the evidence and the page may be old, given that one look at one server or
\* one route is not mistaken: whatever raced with the build of the page, it is
\* of the time it was read.
THEOREM ShownHealthIsEarned ==
    ASSUME HealthIsSound, RouteIsSound
    PROVE  Spec => []ShownHealthIsTrue
<1>1. ASSUME TypeInv, TimesInv, TruthInv, RoutesInv PROVE ShownHealthIsTrue
    <2>1. SUFFICES ASSUME NEW t \in Thread, NEW view \in threads[t].shown
                   PROVE  /\ \A s \in DOMAIN Shown(view).servers :
                               Shown(view).servers[s] = "healthy" =>
                                 \A since \in OffSince(s) :
                                   ~(since <= threads[t].arrived - (Refresh + StaleWarning))
                          /\ \A d \in DOMAIN Shown(view).domains :
                               /\ Shown(view).domains[d] = "healthy"
                               /\ dashboard.inspects /\ ~overlapped
                               /\ routes[d].since <= threads[t].arrived - Refresh
                               => RouteOf[routes[d].is].sound
        BY DEF ShownHealthIsTrue
    <2>2. ASSUME NEW s \in DOMAIN Shown(view).servers, Shown(view).servers[s] = "healthy",
                 NEW since \in OffSince(s)
          PROVE  ~(since <= threads[t].arrived - (Refresh + StaleWarning))
        BY <1>1, <2>2, HealthyServersAreSound
    <2>3. ASSUME NEW d \in DOMAIN Shown(view).domains, Shown(view).domains[d] = "healthy",
                 dashboard.inspects, ~overlapped, routes[d].since <= threads[t].arrived - Refresh
          PROVE  RouteOf[routes[d].is].sound
        BY <1>1, <2>3, HealthyDomainsAreSound
    <2>. QED
        BY <2>2, <2>3
<1>. DEFINE Inv == TypeInv /\ TimesInv /\ WholeInv /\ TruthInv /\ RoutesInv
<1>2. Init => Inv
    BY InitTypes, InitTimes, InitWhole, InitTruth, InitRoutes
<1>3. Inv /\ [Next]_vars => Inv'
    BY NextTypes, NextTimes, NextWhole, NextTruth, NextRoutes
<1>4. Inv => ShownHealthIsTrue
    BY <1>1
<1>. QED
    BY <1>2, <1>3, <1>4, PTL DEF Spec
=============================================================================
