--------------------------- MODULE RenderingProof ---------------------------
(***************************************************************************)
(* What a configuration that passes validation renders to, whatever        *)
(* documents it holds: every lookup that projecting and rendering it make  *)
(* finds its key, and hosts and groups of the rendered inventory agree.    *)
(* What an import makes of a blueprint, service after service; and that a  *)
(* configuration stays consistent when it grows by documents in order.     *)
(***************************************************************************)
EXTENDS Rendering, RenderImport, FiniteSetTheorems, SequenceTheorems,
        WellFoundedInduction, TLAPS

\* A set of naturals has a least element.
LEMMA LeastOf ==
    ASSUME NEW T, T \subseteq Nat, T # {}
    PROVE  \E m \in T : \A k \in T : m <= k
<1>. DEFINE R == OpToRel(<, Nat)
<1>1. IsWellFoundedOn(R, Nat)
    BY NatLessThanWellFounded
<1>2. \A k, m \in Nat : k < m => <<k, m>> \in R
    BY DEF OpToRel
<1>. HIDE DEF R
<1>3. PICK m \in T : \A k \in T : ~ (<<k, m>> \in R)
    BY <1>1, WFMin
<1>4. ASSUME NEW k \in T
      PROVE  m <= k
    <2>1. k \in Nat /\ m \in Nat /\ ~(k < m)
        BY <1>2, <1>3
    <2>. QED
        BY <2>1
<1>. QED
    BY <1>4

\* Induction over the naturals, as a property of a set.
LEMMA InductiveSet ==
    ASSUME NEW S, 0 \in S, \A n \in Nat : n \in S => n + 1 \in S
    PROVE  Nat \subseteq S
<1>. SUFFICES ASSUME Nat \ S # {} PROVE FALSE
    OBVIOUS
<1>1. PICK m \in Nat \ S : \A k \in Nat \ S : m <= k
    BY LeastOf
<1>2. m # 0 /\ m - 1 \in Nat /\ ~(m <= m - 1)
    OBVIOUS
<1>3. m - 1 \in S
    BY <1>1, <1>2
<1>. QED
    BY <1>2, <1>3

\* The largest of some indices of a list.
LEMMA LastOf ==
    ASSUME NEW n \in Nat, NEW S, S \subseteq 1..n, S # {}
    PROVE  \E i \in S : \A j \in S : j <= i
<1>. DEFINE T == {n - i : i \in S}
<1>0. \A i \in S : i \in Int /\ i <= n
    OBVIOUS
<1>1. T # {}
    OBVIOUS
<1>2. T \subseteq Nat
    BY <1>0
<1>. HIDE DEF T
<1>3. PICK m \in T : \A k \in T : m <= k
    BY <1>1, <1>2, LeastOf
<1>4. PICK i \in S : m = n - i
    BY DEF T
<1>5. ASSUME NEW j \in S PROVE j <= i
    <2>1. n - j \in T
        BY DEF T
    <2>2. n - i <= n - j
        BY <1>3, <1>4, <2>1
    <2>. QED
        BY <1>0, <2>2
<1>. QED
    BY <1>5

-----------------------------------------------------------------------------
(* Documents.                                                              *)

\* A kind and an id name one document (_build_index).
LEMMA OneDocument ==
    ASSUME NEW config, ~Duplicated(config), NEW kind,
           NEW a \in Resources(config, kind), NEW b \in Resources(config, kind), a.id = b.id
    PROVE  a = b
BY DEF Duplicated, Key, Resources, All

\* So the lookup by kind and id finds it.
LEMMA FoundDocument ==
    ASSUME NEW config, ~Duplicated(config), NEW kind, NEW d \in Resources(config, kind)
    PROVE  Exists(config, kind, d.id) /\ Resource(config, kind, d.id) = d
<1>1. PICK e \in Resources(config, kind) : e.id = d.id /\ e = Resource(config, kind, d.id)
    BY DEF Resource
<1>2. e = d
    BY <1>1, OneDocument
<1>. QED
    BY <1>1, <1>2 DEF Exists

\* Where there is one, the lookup gives one of its kind and id.
LEMMA LookedUp ==
    ASSUME NEW config, NEW kind, NEW id, Exists(config, kind, id)
    PROVE  Resource(config, kind, id) \in Resources(config, kind)
           /\ Resource(config, kind, id).id = id
BY DEF Exists, Resource

\* What validation says of the documents of each kind the inventory uses.
LEMMA ValidatedDocuments ==
    ASSUME NEW config, Consistent(config)
    PROVE  /\ \A d \in Resources(config, "server") : ServerOK(config, d)
           /\ \A d \in Resources(config, "component") : ComponentOK(config, d)
           /\ \A d \in Resources(config, "domain") : DomainOK(config, d)
           /\ \A d \in Resources(config, "service") : ServiceOK(config, d)
           /\ \A d \in Resources(config, "loggingStack") : LoggingStackOK(config, d)
           /\ \A d \in Resources(config, "alertRule") : AlertRuleOK(config, d)
           /\ ~Duplicated(config)
           /\ LoggingUnique(config)
BY DEF Consistent, ReferencesOK, Resources

-----------------------------------------------------------------------------
(* Lookups.                                                                *)

\* Projecting an accepted configuration finds the application of every
\* database (PlatformInventory.from_state).
LEMMA ProjectionSucceeds ==
    ASSUME NEW config, Consistent(config)
    PROVE  ~ProjectionRaises(config)
BY ValidatedDocuments DEF ProjectionRaises, ServiceOK

\* The inventory, kind by kind.
LEMMA InventoryOf ==
    ASSUME NEW config, NEW inv, inv = PlatformInventory(config)
    PROVE  /\ inv.servers = {ServerInventory(d) : d \in Resources(config, "server")}
           /\ inv.serverTypes = {ServerTypeInventory(d) : d \in Resources(config, "serverType")}
           /\ inv.applications = {ApplicationInventory(d) : d \in Resources(config, "application")}
           /\ inv.components = {ComponentInventory(d) : d \in Resources(config, "component")}
           /\ inv.domains = {DomainInventory(d) : d \in Resources(config, "domain")}
           /\ inv.loggingStacks =
                {LoggingStackInventory(d) : d \in Resources(config, "loggingStack")}
           /\ inv.alertRules = {AlertRuleInventory(d) : d \in Resources(config, "alertRule")}
           /\ inv.sshKeys = {SshPublicKeyInventory(d) : d \in Resources(config, "sshKey")}
BY DEF PlatformInventory

\* Rendering it finds the type of every server and the application of every
\* component (_host_variables).
LEMMA RenderingSucceeds ==
    ASSUME NEW config, Consistent(config)
    PROVE  ~RenderingRaises(PlatformInventory(config))
<1>. DEFINE inv == PlatformInventory(config)
<1>1. ASSUME NEW s \in inv.servers
      PROVE  \E t \in inv.serverTypes : t.id = s.serverType
    <2>1. PICK d \in Resources(config, "server") : s = ServerInventory(d)
        BY InventoryOf
    <2>2. PICK t \in Resources(config, "serverType") : t.id = d.serverType
        BY ValidatedDocuments DEF ServerOK, Exists
    <2>3. ServerTypeInventory(t) \in inv.serverTypes
        BY InventoryOf
    <2>4. ServerTypeInventory(t).id = t.id /\ s.serverType = d.serverType
        BY <2>1 DEF ServerTypeInventory, ServerInventory
    <2>. HIDE DEF inv
    <2>. QED
        BY <2>2, <2>3, <2>4
<1>2. ASSUME NEW c \in inv.components
      PROVE  \E a \in inv.applications : a.id = c.application
    <2>1. PICK d \in Resources(config, "component") : c = ComponentInventory(d)
        BY InventoryOf
    <2>2. PICK a \in Resources(config, "application") : a.id = d.application
        BY ValidatedDocuments DEF ComponentOK, Exists
    <2>3. ApplicationInventory(a) \in inv.applications
        BY InventoryOf
    <2>4. ApplicationInventory(a).id = a.id /\ c.application = d.application
        BY <2>1 DEF ApplicationInventory, ComponentInventory
    <2>. HIDE DEF inv
    <2>. QED
        BY <2>2, <2>3, <2>4
<1>. HIDE DEF inv
<1>3. ~RenderingRaises(inv)
    BY <1>1, <1>2 DEF RenderingRaises, ComponentsOnServer
<1>. QED
    BY <1>3 DEF inv

-----------------------------------------------------------------------------
(* Hosts and groups.                                                       *)

\* A name in a set of records gives one of that name.
LEMMA NamedIs ==
    ASSUME NEW records, NEW r \in records
    PROVE  Named(records, r.id) \in records /\ Named(records, r.id).id = r.id
BY DEF Named

\* The servers of the inventory are those of the documents, one for an id.
LEMMA ServerOfId ==
    ASSUME NEW config, Consistent(config), NEW inv, inv = PlatformInventory(config),
           NEW d \in Resources(config, "server")
    PROVE  ServerInventory(d) \in inv.servers
           /\ ServerInventory(d).id = d.id
           /\ Named(inv.servers, d.id) = ServerInventory(d)
<1>1. ServerInventory(d) \in inv.servers /\ ServerInventory(d).id = d.id
    BY InventoryOf DEF ServerInventory
<1>2. Named(inv.servers, d.id) \in inv.servers /\ Named(inv.servers, d.id).id = d.id
    BY <1>1, NamedIs
<1>3. PICK e \in Resources(config, "server") : Named(inv.servers, d.id) = ServerInventory(e)
    BY <1>2, InventoryOf
<1>4. e.id = d.id
    BY <1>2, <1>3 DEF ServerInventory
<1>5. e = d
    BY <1>4, OneDocument, ValidatedDocuments
<1>. QED
    BY <1>1, <1>3, <1>5

\* A host of the rendered inventory is a server document, by its id.
LEMMA HostOfId ==
    ASSUME NEW config, Consistent(config), NEW inv, inv = PlatformInventory(config)
    PROVE  /\ DOMAIN AnsibleInventory(inv).hosts = {d.id : d \in Resources(config, "server")}
           /\ \A d \in Resources(config, "server") :
                AnsibleInventory(inv).hosts[d.id] = HostVariables(inv, ServerInventory(d))
<1>1. {s.id : s \in inv.servers} = {d.id : d \in Resources(config, "server")}
    <2>1. ASSUME NEW d \in Resources(config, "server")
          PROVE  d.id \in {s.id : s \in inv.servers}
        BY ServerOfId
    <2>2. ASSUME NEW s \in inv.servers
          PROVE  s.id \in {d.id : d \in Resources(config, "server")}
        <3>1. PICK d \in Resources(config, "server") : s = ServerInventory(d)
            BY InventoryOf
        <3>. QED
            BY <3>1, ServerOfId
    <2>. QED
        BY <2>1, <2>2
<1>2. AnsibleInventory(inv).hosts =
        [id \in {s.id : s \in inv.servers} |-> HostVariables(inv, Named(inv.servers, id))]
    BY DEF AnsibleInventory
<1>. QED
    BY <1>1, <1>2, ServerOfId

\* Every group of the rendered inventory targets declared hosts
\* (render_ansible_inventory).
LEMMA GroupsTargetHosts ==
    ASSUME NEW config, Consistent(config), NEW inv, inv = PlatformInventory(config),
           NEW rendered, rendered = AnsibleInventory(inv)
    PROVE  /\ rendered.backends \subseteq DOMAIN rendered.hosts
           /\ rendered.collectors \subseteq DOMAIN rendered.hosts
           /\ rendered.origins \subseteq DOMAIN rendered.hosts
           /\ \A c \in DOMAIN rendered.components :
                rendered.components[c] \subseteq DOMAIN rendered.hosts
           /\ \A a \in DOMAIN rendered.applications :
                rendered.applications[a] \subseteq DOMAIN rendered.hosts
<1>1. ASSUME NEW id, Exists(config, "server", id)
      PROVE  id \in DOMAIN rendered.hosts
    BY <1>1, HostOfId DEF Exists
<1>2. rendered.backends \subseteq DOMAIN rendered.hosts
    <2>1. ASSUME NEW s \in inv.loggingStacks
          PROVE  s.backend \in DOMAIN rendered.hosts
        <3>1. PICK d \in Resources(config, "loggingStack") : s = LoggingStackInventory(d)
            BY InventoryOf
        <3>2. Exists(config, "server", d.backend)
            BY ValidatedDocuments DEF LoggingStackOK, InEnvironment
        <3>. QED
            BY <1>1, <3>1, <3>2 DEF LoggingStackInventory
    <2>2. rendered.backends = {s.backend : s \in inv.loggingStacks}
        BY DEF AnsibleInventory
    <2>. QED
        BY <2>1, <2>2
<1>3. rendered.collectors \subseteq DOMAIN rendered.hosts
    <2>1. ASSUME NEW s \in inv.loggingStacks, NEW h \in s.collectors
          PROVE  h \in DOMAIN rendered.hosts
        <3>1. PICK d \in Resources(config, "loggingStack") : s = LoggingStackInventory(d)
            BY InventoryOf
        <3>2. h \in d.collectors
            BY <3>1 DEF LoggingStackInventory
        <3>3. Exists(config, "server", h)
            BY <3>2, ValidatedDocuments DEF LoggingStackOK, InEnvironment
        <3>. QED
            BY <1>1, <3>3
    <2>2. rendered.collectors = UNION {s.collectors : s \in inv.loggingStacks}
        BY DEF AnsibleInventory
    <2>. QED
        BY <2>1, <2>2
<1>4. rendered.origins \subseteq DOMAIN rendered.hosts
    <2>1. ASSUME NEW s \in inv.domains
          PROVE  s.origin \in DOMAIN rendered.hosts
        <3>1. PICK d \in Resources(config, "domain") : s = DomainInventory(d)
            BY InventoryOf
        <3>2. Exists(config, "server", d.origin)
            BY ValidatedDocuments DEF DomainOK
        <3>. QED
            BY <1>1, <3>1, <3>2 DEF DomainInventory
    <2>2. rendered.origins = {d.origin : d \in inv.domains}
        BY DEF AnsibleInventory
    <2>. QED
        BY <2>1, <2>2
<1>5. ASSUME NEW c \in inv.components
      PROVE  c.servers \subseteq DOMAIN rendered.hosts
    <2>1. PICK d \in Resources(config, "component") : c = ComponentInventory(d)
        BY InventoryOf
    <2>2. \A s \in d.servers : Exists(config, "server", s)
        BY ValidatedDocuments DEF ComponentOK
    <2>. QED
        BY <1>1, <2>1, <2>2 DEF ComponentInventory
<1>6. ASSUME NEW c \in DOMAIN rendered.components
      PROVE  rendered.components[c] \subseteq DOMAIN rendered.hosts
    <2>1. rendered.components =
            [id \in {x.id : x \in inv.components} |-> Named(inv.components, id).servers]
        BY DEF AnsibleInventory
    <2>2. PICK x \in inv.components : c = x.id
        BY <1>6, <2>1
    <2>3. rendered.components[c] = Named(inv.components, c).servers
        BY <2>1, <2>2
    <2>. QED
        BY <1>5, <2>2, <2>3, NamedIs
<1>7. ASSUME NEW a \in DOMAIN rendered.applications
      PROVE  rendered.applications[a] \subseteq DOMAIN rendered.hosts
    <2>1. rendered.applications =
            [id \in {x.id : x \in inv.applications} |->
               ApplicationHosts(inv, Named(inv.applications, id))]
        BY DEF AnsibleInventory
    <2>2. rendered.applications[a] = ApplicationHosts(inv, Named(inv.applications, a))
        BY <1>7, <2>1
    <2>. QED
        BY <1>5, <2>2 DEF ApplicationHosts
<1>. QED
    BY <1>2, <1>3, <1>4, <1>6, <1>7

\* The user a component runs as is created on each host it runs on
\* (_host_variables: applications, components).
LEMMA UsersAreCreated ==
    ASSUME NEW config, Consistent(config), NEW inv, inv = PlatformInventory(config),
           NEW server, NEW c \in HostVariables(inv, server).components
    PROVE  [id |-> c.application, user |-> c.user] \in HostVariables(inv, server).applications
<1>1. PICK x \in ComponentsOnServer(inv, server.id) :
        c = HostComponent(x, Named(inv.applications, x.application))
    BY DEF HostVariables
<1>2. PICK d \in Resources(config, "component") : x = ComponentInventory(d)
    BY InventoryOf DEF ComponentsOnServer
<1>3. x.id = d.id /\ x.application = d.application
    BY <1>2 DEF ComponentInventory
<1>4. Exists(config, "application", d.application)
      /\ d.id \in Resource(config, "application", d.application).components
    BY ValidatedDocuments DEF ComponentOK
<1>. DEFINE listing == Resource(config, "application", d.application)
            a == Named(inv.applications, x.application)
<1>5. listing \in Resources(config, "application") /\ listing.id = d.application
    BY <1>4, LookedUp
<1>6. ApplicationInventory(listing) \in inv.applications
      /\ ApplicationInventory(listing).id = x.application
    BY <1>3, <1>5, InventoryOf DEF ApplicationInventory
<1>7. a \in inv.applications /\ a.id = x.application
    BY <1>6, NamedIs
<1>8. PICK e \in Resources(config, "application") : a = ApplicationInventory(e)
    BY <1>7, InventoryOf
<1>9. e.id = listing.id
    BY <1>3, <1>5, <1>7, <1>8 DEF ApplicationInventory
<1>10. e = listing
    BY <1>5, <1>9, OneDocument, ValidatedDocuments
<1>11. x.id \in a.components
    BY <1>3, <1>4, <1>8, <1>10 DEF ApplicationInventory
<1>. HIDE DEF listing, a
<1>12. ApplicationIsOnServer(inv, a, server)
    BY <1>11 DEF ApplicationIsOnServer
<1>13. [id |-> a.id, user |-> a.user] \in HostVariables(inv, server).applications
    BY <1>7, <1>12 DEF HostVariables
<1>14. c.application = x.application /\ c.user = a.user
    BY <1>1 DEF HostComponent, a
<1>. QED
    BY <1>7, <1>13, <1>14

\* A default-deny firewall leaves the port Ansible connects through open
\* (firewall_rules_for_server).
LEMMA FirewallsKeepTheWayIn ==
    ASSUME NEW inv, NEW server, NEW rules \in HostVariables(inv, server).firewall
    PROVE  <<server.port, "tcp">> \in rules
BY DEF HostVariables, HostFirewall, FirewallRules

\* A host backs at most one stack, and is in the environment of each stack
\* that collects from it.
LEMMA OneStackForAHost ==
    ASSUME NEW config, Consistent(config), NEW inv, inv = PlatformInventory(config),
           NEW s \in inv.loggingStacks, NEW t \in inv.loggingStacks
    PROVE  /\ s.backend = t.backend => s = t
           /\ s.environment = t.environment => s = t
           /\ \A d \in Resources(config, "server") :
                d.id \in s.collectors => s.environment = d.environment
           /\ \E d \in Resources(config, "server") : s.backend = d.id
<1>1. PICK a \in Resources(config, "loggingStack") : s = LoggingStackInventory(a)
    BY InventoryOf
<1>2. PICK b \in Resources(config, "loggingStack") : t = LoggingStackInventory(b)
    BY InventoryOf
<1>3. /\ s.backend = a.backend /\ s.environment = a.environment /\ s.collectors = a.collectors
      /\ t.backend = b.backend /\ t.environment = b.environment
    BY <1>1, <1>2 DEF LoggingStackInventory
<1>4. a # b => a.environment # b.environment /\ a.backend # b.backend
    BY ValidatedDocuments DEF LoggingUnique
<1>5. ASSUME NEW d \in Resources(config, "server"), d.id \in a.collectors
      PROVE  a.environment = d.environment
    <2>1. Resource(config, "server", d.id).environment = a.environment
        BY <1>5, ValidatedDocuments DEF LoggingStackOK, InEnvironment
    <2>. QED
        BY <2>1, FoundDocument, ValidatedDocuments
<1>6. \E d \in Resources(config, "server") : a.backend = d.id
    BY ValidatedDocuments DEF LoggingStackOK, InEnvironment, Exists
<1>. QED
    BY <1>1, <1>2, <1>3, <1>4, <1>5, <1>6

\* A host ships its logs to one stack at most, of its own environment.
LEMMA LogsGoToOneStack ==
    ASSUME NEW config, Consistent(config), NEW inv, inv = PlatformInventory(config),
           NEW d \in Resources(config, "server"),
           NEW collectors, collectors = HostVariables(inv, ServerInventory(d)).collectors
    PROVE  /\ Cardinality(collectors) <= 1
           /\ \A s \in inv.loggingStacks : s.id \in collectors => s.environment = d.environment
<1>1. collectors = {s.id : s \in HostCollector(inv, ServerInventory(d))}
    BY DEF HostVariables
<1>2. \A s \in HostCollector(inv, ServerInventory(d)) :
        s \in inv.loggingStacks /\ s.environment = d.environment
    BY OneStackForAHost DEF HostCollector, ServerInventory
<1>3. \A s, t \in HostCollector(inv, ServerInventory(d)) : s = t
    BY <1>2, OneStackForAHost
<1>4. Cardinality(collectors) <= 1
    <2>1. CASE collectors = {}
        BY <2>1, FS_EmptySet
    <2>2. CASE collectors # {}
        <3>1. PICK id : collectors = {id}
            BY <1>1, <1>3, <2>2
        <3>2. Cardinality({id}) = 1
            BY FS_Singleton
        <3>. QED
            BY <3>1, <3>2
    <2>. QED
        BY <2>1, <2>2
<1>5. ASSUME NEW s \in inv.loggingStacks, s.id \in collectors
      PROVE  s.environment = d.environment
    <2>1. PICK t \in HostCollector(inv, ServerInventory(d)) : s.id = t.id
        BY <1>1, <1>5
    <2>2. PICK a \in Resources(config, "loggingStack") : s = LoggingStackInventory(a)
        BY InventoryOf
    <2>3. PICK b \in Resources(config, "loggingStack") : t = LoggingStackInventory(b)
        BY <1>2, InventoryOf
    <2>4. a.id = b.id
        BY <2>1, <2>2, <2>3 DEF LoggingStackInventory
    <2>5. a = b
        BY <2>4, OneDocument, ValidatedDocuments
    <2>. QED
        BY <1>2, <2>2, <2>3, <2>5
<1>. QED
    BY <1>4, <1>5

\* An alert rule is evaluated on exactly one host, the backend of the stack of
\* its environment (_host_logging).
LEMMA OneHostEvaluates ==
    ASSUME NEW config, Consistent(config), NEW inv, inv = PlatformInventory(config),
           NEW hosts, hosts = AnsibleInventory(inv).hosts, NEW r \in inv.alertRules
    PROVE  Cardinality({h \in DOMAIN hosts : r.id \in hosts[h].rules}) = 1
<1>1. PICK rule \in Resources(config, "alertRule") : r = AlertRuleInventory(rule)
    BY InventoryOf
<1>2. r.id = rule.id /\ r.environment = rule.environment
    BY <1>1 DEF AlertRuleInventory
<1>3. PICK stack \in inv.loggingStacks : stack.environment = r.environment
    <2>1. PICK a \in Resources(config, "loggingStack") : a.environment = rule.environment
        BY ValidatedDocuments DEF AlertRuleOK, Monitored
    <2>2. LoggingStackInventory(a) \in inv.loggingStacks
          /\ LoggingStackInventory(a).environment = a.environment
        BY InventoryOf DEF LoggingStackInventory
    <2>. QED
        BY <1>2, <2>1, <2>2
<1>4. PICK d \in Resources(config, "server") : stack.backend = d.id
    BY OneStackForAHost
<1>5. ASSUME NEW e \in Resources(config, "server")
      PROVE  r.id \in hosts[e.id].rules <=> e.id = stack.backend
    <2>. DEFINE server == ServerInventory(e)
                backed == HostBackend(inv, server)
    <2>1. server.id = e.id
        BY ServerOfId
    <2>2. hosts[e.id].rules = HostAlertRules(inv, server)
        <3>1. hosts[e.id] = HostVariables(inv, server)
            BY HostOfId
        <3>. QED
            BY <3>1 DEF HostVariables
    <2>3. backed = {s \in inv.loggingStacks : s.backend = e.id}
        BY <2>1 DEF HostBackend
    <2>. HIDE DEF server
    <2>4. ASSUME e.id = stack.backend
          PROVE  r.id \in hosts[e.id].rules
        <3>1. backed = {stack}
            BY <2>3, <2>4, OneStackForAHost
        <3>2. HostAlertRules(inv, server) =
                {x.id : x \in {y \in inv.alertRules : y.environment = stack.environment}}
            BY <3>1 DEF HostAlertRules
        <3>. QED
            BY <1>3, <2>2, <3>2
    <2>5. ASSUME r.id \in hosts[e.id].rules
          PROVE  e.id = stack.backend
        <3>1. backed # {}
            BY <2>2, <2>5 DEF HostAlertRules
        <3>2. PICK s \in backed :
                HostAlertRules(inv, server) =
                  {x.id : x \in {y \in inv.alertRules : y.environment = s.environment}}
            BY <3>1 DEF HostAlertRules
        <3>3. PICK x \in inv.alertRules : x.id = r.id /\ x.environment = s.environment
            BY <2>2, <2>5, <3>2
        <3>4. PICK other \in Resources(config, "alertRule") : x = AlertRuleInventory(other)
            BY InventoryOf
        <3>5. other.id = rule.id
            BY <1>2, <3>3, <3>4 DEF AlertRuleInventory
        <3>6. other = rule
            BY <3>5, OneDocument, ValidatedDocuments
        <3>7. s.environment = stack.environment
            BY <1>1, <1>3, <3>3, <3>4, <3>6
        <3>8. s = stack
            BY <2>3, <3>7, OneStackForAHost
        <3>. QED
            BY <2>3, <3>8
    <2>. QED
        BY <2>4, <2>5
<1>6. {h \in DOMAIN hosts : r.id \in hosts[h].rules} = {stack.backend}
    BY <1>4, <1>5, HostOfId
<1>. QED
    BY <1>6, FS_Singleton

-----------------------------------------------------------------------------
(* The services in turn.                                                   *)

\* One service after the state `st` was reached, or none yet.
Turn(before, n, blueprint, targets) ==
    IF n = 0 THEN NothingImported(blueprint)
    ELSE ImportService(before, blueprint.services[n], targets, blueprint.groups)

\* After is the state after each service, as it says.
LEMMA AfterEach ==
    ASSUME NEW b, NEW t, Len(b.services) \in Nat
    PROVE  /\ After(b, t)[0] = NothingImported(b)
           /\ \A n \in 1..Len(b.services) :
                After(b, t)[n] = ImportService(After(b, t)[n - 1], b.services[n], t, b.groups)
<1>. DEFINE Is(h, n) == h = [i \in 0..n |-> Turn(h[i - 1], i, b, t)]
            S == {n \in Nat : \E h : Is(h, n)}
<1>1. 0 \in S
    <2>. DEFINE h == [i \in 0..0 |-> NothingImported(b)]
    <2>1. \A i \in 0..0 : h[i] = Turn(h[i - 1], i, b, t)
        BY DEF Turn
    <2>2. Is(h, 0)
        BY <2>1
    <2>. QED
        BY <2>2
<1>2. ASSUME NEW n \in Nat, n \in S PROVE n + 1 \in S
    <2>1. PICK h : Is(h, n)
        BY <1>2
    <2>. DEFINE g == [i \in 0..(n + 1) |-> IF i = n + 1 THEN Turn(h[n], n + 1, b, t) ELSE h[i]]
    <2>2. ASSUME NEW i \in 0..(n + 1) PROVE g[i] = Turn(g[i - 1], i, b, t)
        <3>1. CASE i = 0
            <4>1. g[i] = h[i] /\ h[i] = Turn(h[i - 1], i, b, t)
                BY <2>1, <3>1
            <4>. QED
                BY <3>1, <4>1 DEF Turn
        <3>2. CASE i # 0
            <4>1. g[i - 1] = h[i - 1]
                BY <3>2
            <4>2. CASE i = n + 1
                <5>1. g[i] = Turn(h[n], n + 1, b, t) /\ i - 1 = n
                    BY <4>2
                <5>. QED
                    BY <4>1, <4>2, <5>1
            <4>3. CASE i # n + 1
                <5>1. i \in 0..n /\ g[i] = h[i]
                    BY <4>3
                <5>. HIDE DEF g
                <5>2. h[i] = Turn(h[i - 1], i, b, t)
                    BY <2>1, <5>1
                <5>. QED
                    BY <4>1, <5>1, <5>2
            <4>. QED
                BY <4>2, <4>3
        <3>. QED
            BY <3>1, <3>2
    <2>3. g = [i \in 0..(n + 1) |-> g[i]]
        OBVIOUS
    <2>. HIDE DEF g
    <2>4. Is(g, n + 1)
        BY <2>2, <2>3
    <2>. QED
        BY <2>4
<1>3. Nat \subseteq S
    <2>. HIDE DEF S
    <2>. QED
        BY <1>1, <1>2, InductiveSet
<1>4. PICK h : h = [n \in 0..Len(b.services) |->
                      IF n = 0 THEN NothingImported(b)
                      ELSE ImportService(h[n - 1], b.services[n], t, b.groups)]
    BY <1>3 DEF Turn
<1>5. After(b, t) = [n \in 0..Len(b.services) |->
                       IF n = 0 THEN NothingImported(b)
                       ELSE ImportService(After(b, t)[n - 1], b.services[n], t, b.groups)]
    BY <1>4 DEF After
<1>. QED
    BY <1>5

-----------------------------------------------------------------------------
(* One service.                                                            *)

\* The parts of an import's state.
Recorded == {"failed", "ids", "next", "components", "domains", "lines", "ports", "gaps"}

\* What an import has built so far.
IsImport(st) ==
    /\ DOMAIN st = Recorded
    /\ st.components \in Seq(Components)
    /\ st.domains \in Seq(Domains)
    /\ st.next \in Nat

\* The services that become components.
Placed(service) == ~Unsupported(service) /\ ~Incomplete(service)

\* The import has placed a service, or says why not.
Accounts(st, service, groups) ==
    LET entries == Inlined(service, groups)
    IN  /\ Unsupported(service) => Gap("unsupported", service.name) \in st.gaps
        /\ ~Unsupported(service) /\ Incomplete(service) =>
             Gap("action", service.name) \in st.gaps
        /\ Placed(service) =>
             \E c \in Id :
               /\ service.slug = {c} /\ c \in st.ids
               /\ c \in DOMAIN st.lines /\ c \in DOMAIN st.ports
               /\ \E i \in DOMAIN st.components : st.components[i].id = c
               /\ EnvironmentLines(entries) \subseteq st.lines[c]
               /\ EnvironmentGaps(service, entries) \subseteq st.gaps
               /\ DeclaredPort(entries) = 0 =>
                    st.ports[c] = 0 \/ (st.ports[c] \in Nat /\ st.ports[c] < st.next)

\* Two services only share a port if one of them declares it.
Apart(st, u, v, groups) ==
    \A c \in u.slug, d \in v.slug :
      c # d /\ st.ports[c] # 0 /\ st.ports[c] = st.ports[d] =>
        \/ DeclaredPort(Inlined(u, groups)) # 0
        \/ DeclaredPort(Inlined(v, groups)) # 0

\* A slug names one id.
LEMMA OneOf ==
    ASSUME NEW x
    PROVE  TheOne({x}) = x
BY DEF TheOne

\* A function over the first numbers is a sequence.
LEMMA FunctionIsSeq ==
    ASSUME NEW n \in Nat, NEW S, NEW f \in [1..n -> S]
    PROVE  f \in Seq(S) /\ Len(f) = n
<1>1. f \in Seq(S)
    BY SeqDef
<1>2. Len(f) \in Nat /\ DOMAIN f = 1..Len(f) /\ DOMAIN f = 1..n
    BY <1>1, LenProperties
<1>. QED
    BY <1>1, <1>2

\* Ids that do not collide are there, and free.
LEMMA FreeClaims ==
    ASSUME NEW st, NEW service, IsService(service), ~Collides(st, service)
    PROVE  /\ \E c \in Id : service.slug = {c} /\ c \notin st.ids
           /\ Listens(service) => \A i \in DOMAIN service.domains :
                /\ \E d \in Id : service.domains[i].slug = {d} /\ d \notin st.ids
                /\ \E k \in DOMAIN Claims(service) : Claims(service)[k] = service.domains[i].slug
                /\ \A j \in DOMAIN service.domains :
                     service.domains[i].slug = service.domains[j].slug => i = j
           /\ \E i \in DOMAIN Claims(service) : Claims(service)[i] = service.slug
<1>. DEFINE slugs == [i \in DOMAIN service.domains |-> service.domains[i].slug]
            rest == IF Listens(service) THEN slugs ELSE <<>>
            S == {service.slug} \cup {service.domains[i].slug : i \in DOMAIN service.domains}
            n == Len(service.domains)
<1>1. n \in Nat /\ DOMAIN service.domains = 1..n
    BY DEF IsService, IsList
<1>2. slugs \in [1..n -> S]
    BY <1>1
<1>3. slugs \in Seq(S) /\ Len(slugs) = n
    <2>. HIDE DEF slugs, S, n
    <2>. QED
        BY <1>1, <1>2, FunctionIsSeq
<1>4. rest \in Seq(S) /\ <<service.slug>> \in Seq(S) /\ Len(<<service.slug>>) = 1
    BY <1>3
<1>5. Claims(service) = <<service.slug>> \o rest
    BY DEF Claims
<1>6. /\ Claims(service) \in Seq(S)
      /\ Len(Claims(service)) = 1 + Len(rest)
      /\ \A i \in 1..1 + Len(rest) :
           Claims(service)[i] = IF i <= 1 THEN <<service.slug>>[i] ELSE rest[i - 1]
    <2>. HIDE DEF rest, S
    <2>. QED
        BY <1>4, <1>5, ConcatProperties
<1>7. Len(rest) \in Nat /\ DOMAIN Claims(service) = 1..1 + Len(rest)
    <2>. HIDE DEF rest, S
    <2>. QED
        BY <1>4, <1>6, LenProperties
<1>8. \A i \in DOMAIN Claims(service) :
        Claims(service)[i] # {} /\ Claims(service)[i] \cap st.ids = {}
    BY DEF Collides
<1>9. 1 \in DOMAIN Claims(service) /\ Claims(service)[1] = service.slug
    <2>. HIDE DEF rest, S
    <2>. QED
        BY <1>6, <1>7
<1>10. \E c \in Id : service.slug = {c} /\ c \notin st.ids
    BY <1>8, <1>9 DEF IsService, IsSlug
<1>11. ASSUME Listens(service), NEW i \in DOMAIN service.domains
       PROVE  /\ i + 1 \in DOMAIN Claims(service)
              /\ Claims(service)[i + 1] = service.domains[i].slug
    <2>1. rest = slugs /\ Len(rest) = n
        BY <1>3, <1>11
    <2>2. i + 1 \in 1..1 + Len(rest) /\ ~(i + 1 <= 1) /\ i + 1 - 1 = i
        BY <1>1, <1>11, <2>1
    <2>3. Claims(service)[i + 1] = slugs[i] /\ i + 1 \in DOMAIN Claims(service)
        <3>. HIDE DEF slugs, S, rest
        <3>. QED
            BY <1>6, <1>7, <2>1, <2>2
    <2>. QED
        BY <1>11, <2>3
<1>12. ASSUME Listens(service), NEW i \in DOMAIN service.domains
       PROVE  \E d \in Id : service.domains[i].slug = {d} /\ d \notin st.ids
    <2>1. service.domains[i].slug # {} /\ service.domains[i].slug \cap st.ids = {}
        BY <1>8, <1>11, <1>12
    <2>. QED
        BY <2>1, <1>12 DEF IsService, IsSlug
<1>13. ASSUME Listens(service), NEW i \in DOMAIN service.domains,
              NEW j \in DOMAIN service.domains,
              service.domains[i].slug = service.domains[j].slug
       PROVE  i = j
    <2>1. Distinct(Claims(service))
        BY DEF Collides
    <2>2. i + 1 = j + 1
        BY <1>11, <1>13, <2>1 DEF Distinct
    <2>. QED
        BY <1>1, <2>2
<1>. QED
    BY <1>9, <1>10, <1>11, <1>12, <1>13

\* The domains a component brings.
NewDomains(service) ==
    LET domains == IF Listens(service) THEN service.domains ELSE <<>>
    IN  [i \in DOMAIN domains |-> DomainDocument(domains[i], Targets)]

\* What importing component `c` does to each part of the record.
Adds(result, st, service, groups, c) ==
    LET env == Inlined(service, groups)
    IN  /\ DOMAIN result = Recorded
        /\ result.failed = st.failed
        /\ st.ids \subseteq result.ids
        /\ \A i \in DOMAIN Claims(service) : Claims(service)[i] \subseteq result.ids
        /\ result.next = st.next \/ result.next = st.next + 1
        /\ result.components = Append(st.components, ComponentDocument(service, Targets))
        /\ result.domains = st.domains \o NewDomains(service)
        /\ st.gaps \subseteq result.gaps
        /\ EnvironmentGaps(service, env) \subseteq result.gaps
        /\ EnvironmentLines(env) \subseteq result.lines[c]
        /\ \A x \in DOMAIN st.lines : x # c => result.lines[x] = st.lines[x]
        /\ \A x \in DOMAIN st.ports : x # c => result.ports[x] = st.ports[x]
        /\ DeclaredPort(env) = 0 =>
             result.ports[c] = 0 \/ (result.ports[c] = st.next /\ result.next = st.next + 1)
        /\ DOMAIN result.lines = DOMAIN st.lines \cup {c}
        /\ DOMAIN result.ports = DOMAIN st.ports \cup {c}

\* That it does.
LEMMA ComponentParts ==
    ASSUME NEW st, IsImport(st), NEW service, NEW groups, NEW c \in Id, service.slug = {c}
    PROVE  Adds(ImportComponent(st, service, Targets, groups), st, service, groups, c)
<1>. DEFINE entries == Inlined(service, groups)
            declared == DeclaredPort(entries)
            after == ImportComponent(st, service, Targets, groups)
            lines == [x \in DOMAIN st.lines \cup {c} |->
                        IF x = c THEN EnvironmentLines(entries)
                                      \cup (IF Listens(service) THEN {"PORT"} ELSE {})
                        ELSE st.lines[x]]
            ports == [x \in DOMAIN st.ports \cup {c} |->
                        IF x # c THEN st.ports[x]
                        ELSE IF ~Listens(service) THEN 0
                        ELSE IF declared # 0 THEN declared ELSE st.next]
<1>1. TheOne(service.slug) = c
    BY OneOf
<1>2. DOMAIN st = Recorded
    BY DEF IsImport
<1>3. after = [st EXCEPT
         !.ids = @ \cup UNION {Claims(service)[i] : i \in DOMAIN Claims(service)},
         !.next = IF Listens(service) /\ declared = 0 THEN @ + 1 ELSE @,
         !.components = Append(@, ComponentDocument(service, Targets)),
         !.lines = lines,
         !.ports = ports,
         !.domains = @ \o NewDomains(service),
         !.gaps = @ \cup ComponentGaps(service, entries)
                    \cup {Gap("action", service.name) :
                            g \in UndeclaredGroups(service, groups)}]
    BY <1>1 DEF ImportComponent, NewDomains
<1>. HIDE DEF after, lines, ports
<1>4. /\ DOMAIN after = Recorded
      /\ after.failed = st.failed
    BY <1>2, <1>3 DEF Recorded
<1>5. after.ids = st.ids \cup UNION {Claims(service)[i] : i \in DOMAIN Claims(service)}
    BY <1>2, <1>3 DEF Recorded
<1>6. after.next = IF Listens(service) /\ declared = 0 THEN st.next + 1 ELSE st.next
    BY <1>2, <1>3 DEF Recorded
<1>7. after.components = Append(st.components, ComponentDocument(service, Targets))
    BY <1>2, <1>3 DEF Recorded
<1>8. after.lines = lines /\ after.ports = ports
    BY <1>2, <1>3 DEF Recorded
<1>9. after.domains = st.domains \o NewDomains(service)
    BY <1>2, <1>3 DEF Recorded
<1>10. after.gaps = st.gaps \cup ComponentGaps(service, entries)
                    \cup {Gap("action", service.name) :
                            g \in UndeclaredGroups(service, groups)}
    BY <1>2, <1>3 DEF Recorded
<1>18. st.gaps \subseteq after.gaps /\ EnvironmentGaps(service, entries) \subseteq after.gaps
    <2>1. EnvironmentGaps(service, entries) \subseteq ComponentGaps(service, entries)
        BY DEF ComponentGaps
    <2>. QED
        BY <1>10, <2>1
<1>19. /\ st.ids \subseteq after.ids
       /\ \A i \in DOMAIN Claims(service) : Claims(service)[i] \subseteq after.ids
    BY <1>5
<1>. HIDE DEF entries
<1>11. /\ EnvironmentLines(entries) \subseteq lines[c]
       /\ \A x \in DOMAIN st.lines : x # c => lines[x] = st.lines[x]
       /\ DOMAIN lines = DOMAIN st.lines \cup {c}
    BY DEF lines
<1>12. /\ ports[c] = IF ~Listens(service) THEN 0 ELSE IF declared # 0 THEN declared ELSE st.next
       /\ \A x \in DOMAIN st.ports : x # c => ports[x] = st.ports[x]
       /\ DOMAIN ports = DOMAIN st.ports \cup {c}
    BY DEF ports
<1>13. declared = 0 => ports[c] = 0 \/ (ports[c] = st.next /\ after.next = st.next + 1)
    BY <1>6, <1>12
<1>14. after.next = st.next \/ after.next = st.next + 1
    <2>. HIDE DEF declared
    <2>. QED
        BY <1>6
<1>. HIDE DEF declared
<1>16. after.lines = lines /\ after.ports = ports /\ declared = DeclaredPort(entries)
    BY <1>8 DEF declared
<1>17. /\ EnvironmentLines(entries) \subseteq after.lines[c]
       /\ \A x \in DOMAIN st.lines : x # c => after.lines[x] = st.lines[x]
       /\ \A x \in DOMAIN st.ports : x # c => after.ports[x] = st.ports[x]
       /\ DeclaredPort(entries) = 0 =>
            after.ports[c] = 0 \/ (after.ports[c] = st.next /\ after.next = st.next + 1)
       /\ DOMAIN after.lines = DOMAIN st.lines \cup {c}
       /\ DOMAIN after.ports = DOMAIN st.ports \cup {c}
    BY <1>16, <1>11, <1>12, <1>13
<1>. QED
    BY <1>4, <1>7, <1>9, <1>14, <1>17, <1>18, <1>19 DEF Adds, after, entries

\* A step accounts for a service and keeps the account of those before.
Continues(after, st, service, groups) ==
    /\ IsImport(after)
    /\ Accounts(after, service, groups)
    /\ \A v : Accounts(st, v, groups) => Accounts(after, v, groups)
    /\ \A v : Accounts(st, v, groups) /\ Placed(v) /\ Placed(service) =>
         Apart(after, service, v, groups) /\ Apart(after, v, service, groups)
    /\ \A u, v : /\ Accounts(st, u, groups) /\ Placed(u)
                 /\ Accounts(st, v, groups) /\ Placed(v)
                 /\ Apart(st, u, v, groups)
                 => Apart(after, u, v, groups)

\* Importing a component does.
LEMMA ComponentAccounts ==
    ASSUME NEW st, IsImport(st), NEW service, IsService(service), NEW groups,
           Placed(service), ~Collides(st, service)
    PROVE  Continues(ImportComponent(st, service, Targets, groups), st, service, groups)
<1>. DEFINE entries == Inlined(service, groups)
            after == ImportComponent(st, service, Targets, groups)
            new == NewDomains(service)
            n == Len(st.components)
<1>1. PICK c \in Id : service.slug = {c} /\ c \notin st.ids
    BY FreeClaims
<1>2. /\ DOMAIN after = Recorded
      /\ st.ids \subseteq after.ids /\ service.slug \subseteq after.ids
      /\ after.next = st.next \/ after.next = st.next + 1
      /\ after.components = Append(st.components, ComponentDocument(service, Targets))
      /\ after.domains = st.domains \o new
      /\ st.gaps \cup EnvironmentGaps(service, entries) \subseteq after.gaps
      /\ EnvironmentLines(entries) \subseteq after.lines[c]
      /\ \A x \in DOMAIN st.lines : x # c => after.lines[x] = st.lines[x]
      /\ \A x \in DOMAIN st.ports : x # c => after.ports[x] = st.ports[x]
      /\ DeclaredPort(entries) = 0 =>
           after.ports[c] = 0 \/ (after.ports[c] = st.next /\ after.next = st.next + 1)
      /\ DOMAIN after.lines = DOMAIN st.lines \cup {c}
      /\ DOMAIN after.ports = DOMAIN st.ports \cup {c}
    <2>1. /\ DOMAIN after = Recorded
          /\ st.ids \subseteq after.ids
          /\ \A i \in DOMAIN Claims(service) : Claims(service)[i] \subseteq after.ids
          /\ after.next = st.next \/ after.next = st.next + 1
          /\ after.components = Append(st.components, ComponentDocument(service, Targets))
          /\ after.domains = st.domains \o new
          /\ st.gaps \subseteq after.gaps
          /\ EnvironmentGaps(service, entries) \subseteq after.gaps
          /\ EnvironmentLines(entries) \subseteq after.lines[c]
          /\ \A x \in DOMAIN st.lines : x # c => after.lines[x] = st.lines[x]
          /\ \A x \in DOMAIN st.ports : x # c => after.ports[x] = st.ports[x]
          /\ DeclaredPort(entries) = 0 =>
               after.ports[c] = 0 \/ (after.ports[c] = st.next /\ after.next = st.next + 1)
          /\ DOMAIN after.lines = DOMAIN st.lines \cup {c}
          /\ DOMAIN after.ports = DOMAIN st.ports \cup {c}
        <3>1. Adds(after, st, service, groups, c)
            BY <1>1, ComponentParts
        <3>. HIDE DEF after
        <3>. QED
            BY <3>1 DEF Adds
    <2>2. \E i \in DOMAIN Claims(service) : Claims(service)[i] = service.slug
        BY FreeClaims
    <2>. HIDE DEF after, entries, new
    <2>. QED
        BY <2>1, <2>2
<1>. HIDE DEF after
<1>c. TheOne(service.slug) = c
    BY <1>1, OneOf
<1>3. ComponentDocument(service, Targets) \in Components
    <2>1. Targets.server \in Id /\ Targets.application \in Id
        BY TargetsAssumption
    <2>2. {Targets.server} \in SUBSET Id /\ {Targets.server} # {}
        BY <2>1
    <2>3. {Targets.server} \notin {{}}
        BY <2>2
    <2>4. {Targets.server} \in (SUBSET Id) \ {{}}
        BY <2>2, <2>3
    <2>. QED
        BY <1>c, <2>1, <2>4 DEF ComponentDocument, Components
<1>4. new \in Seq(Domains)
    <2>1. CASE Listens(service)
        <3>1. \A i \in DOMAIN service.domains :
                DomainDocument(service.domains[i], Targets) \in Domains
            <4>1. ASSUME NEW i \in DOMAIN service.domains
                  PROVE  DomainDocument(service.domains[i], Targets) \in Domains
                <5>1. PICK d \in Id : service.domains[i].slug = {d}
                    BY <2>1, FreeClaims
                <5>2. service.domains[i].name \in Name
                    BY DEF IsService
                <5>3. TheOne(service.domains[i].slug) = d
                    BY <5>1, OneOf
                <5>. QED
                    BY <5>2, <5>3, TargetsAssumption DEF DomainDocument, Domains
            <4>. QED
                BY <4>1
        <3>2. Len(service.domains) \in Nat /\ DOMAIN service.domains = 1..Len(service.domains)
            BY DEF IsService, IsList
        <3>3. new \in [1..Len(service.domains) -> Domains]
            BY <2>1, <3>1, <3>2 DEF NewDomains
        <3>. HIDE DEF new
        <3>. QED
            BY <3>2, <3>3, FunctionIsSeq
    <2>2. CASE ~Listens(service)
        <3>1. new = <<>>
            BY <2>2 DEF NewDomains
        <3>. QED
            BY <3>1
    <2>. QED
        BY <2>1, <2>2
<1>. HIDE DEF new, entries
<1>5. /\ after.components \in Seq(Components)
      /\ n \in Nat /\ DOMAIN st.components = 1..n
      /\ DOMAIN after.components = 1..n + 1
      /\ after.components[n + 1] = ComponentDocument(service, Targets)
      /\ \A i \in 1..n : after.components[i] = st.components[i]
    BY <1>2, <1>3 DEF IsImport
<1>6. IsImport(after)
    BY <1>2, <1>4, <1>5, ConcatProperties DEF IsImport
<1>7. Accounts(after, service, groups)
    <2>1. after.components[n + 1].id = c
        BY <1>c, <1>5 DEF ComponentDocument
    <2>2. n + 1 \in DOMAIN after.components
        BY <1>5
    <2>3. DeclaredPort(entries) = 0 =>
            after.ports[c] = 0 \/ (after.ports[c] \in Nat /\ after.ports[c] < after.next)
        BY <1>2 DEF IsImport
    <2>. QED
        BY <1>1, <1>2, <2>1, <2>2, <2>3 DEF Accounts, Placed, entries
<1>8. ASSUME NEW v, Accounts(st, v, groups)
      PROVE  Accounts(after, v, groups)
    <2>1. CASE Placed(v)
        <3>1. PICK d \in Id :
               /\ v.slug = {d} /\ d \in st.ids
               /\ d \in DOMAIN st.lines /\ d \in DOMAIN st.ports
               /\ \E i \in DOMAIN st.components : st.components[i].id = d
               /\ EnvironmentLines(Inlined(v, groups)) \subseteq st.lines[d]
               /\ EnvironmentGaps(v, Inlined(v, groups)) \subseteq st.gaps
               /\ DeclaredPort(Inlined(v, groups)) = 0 =>
                    st.ports[d] = 0 \/ (st.ports[d] \in Nat /\ st.ports[d] < st.next)
            BY <1>8, <2>1 DEF Accounts
        <3>2. d # c
            BY <1>1, <3>1
        <3>3. after.lines[d] = st.lines[d] /\ after.ports[d] = st.ports[d]
            BY <1>2, <3>1, <3>2
        <3>4. \E i \in DOMAIN after.components : after.components[i].id = d
            BY <1>5, <3>1
        <3>5. DeclaredPort(Inlined(v, groups)) = 0 =>
                after.ports[d] = 0 \/ (after.ports[d] \in Nat /\ after.ports[d] < after.next)
            BY <1>2, <3>1, <3>3 DEF IsImport
        <3>. QED
            BY <1>2, <2>1, <3>1, <3>3, <3>4, <3>5 DEF Accounts, Placed
    <2>2. CASE ~Placed(v)
        BY <1>2, <1>8, <2>2 DEF Accounts, Placed
    <2>. QED
        BY <2>1, <2>2
<1>9. ASSUME NEW v, Accounts(st, v, groups), Placed(v)
      PROVE  Apart(after, service, v, groups) /\ Apart(after, v, service, groups)
    <2>1. PICK d \in Id :
           /\ v.slug = {d} /\ d \in st.ids /\ d \in DOMAIN st.ports
           /\ DeclaredPort(Inlined(v, groups)) = 0 =>
                st.ports[d] = 0 \/ (st.ports[d] \in Nat /\ st.ports[d] < st.next)
        BY <1>9 DEF Accounts
    <2>2. d # c /\ after.ports[d] = st.ports[d]
        BY <1>1, <1>2, <2>1
    <2>3. DeclaredPort(entries) = 0 /\ DeclaredPort(Inlined(v, groups)) = 0
            /\ after.ports[d] # 0 /\ after.ports[c] # 0
          => after.ports[c] # after.ports[d]
        BY <1>2, <2>1, <2>2 DEF IsImport
    <2>. QED
        BY <1>1, <2>1, <2>3 DEF Apart, entries
<1>10. ASSUME NEW u, NEW v, Accounts(st, u, groups), Placed(u),
              Accounts(st, v, groups), Placed(v), Apart(st, u, v, groups)
       PROVE  Apart(after, u, v, groups)
    <2>1. PICK d \in Id : u.slug = {d} /\ d \in st.ids /\ d \in DOMAIN st.ports
        BY <1>10 DEF Accounts
    <2>2. PICK e \in Id : v.slug = {e} /\ e \in st.ids /\ e \in DOMAIN st.ports
        BY <1>10 DEF Accounts
    <2>3. after.ports[d] = st.ports[d] /\ after.ports[e] = st.ports[e]
        BY <1>1, <1>2, <2>1, <2>2
    <2>. QED
        BY <1>10, <2>1, <2>2, <2>3 DEF Apart
<1>. QED
    BY <1>6, <1>7, <1>8, <1>9, <1>10 DEF Continues, after

\* So does a service that only leaves a gap.
LEMMA GapAccounts ==
    ASSUME NEW st, IsImport(st), NEW service, NEW groups, ~Placed(service), NEW gap,
           Unsupported(service) => gap = Gap("unsupported", service.name),
           ~Unsupported(service) => gap = Gap("action", service.name)
    PROVE  Continues([st EXCEPT !.gaps = @ \cup {gap}], st, service, groups)
<1>. DEFINE after == [st EXCEPT !.gaps = @ \cup {gap}]
<1>1. DOMAIN st = Recorded
    BY DEF IsImport
<1>2. /\ DOMAIN after = Recorded /\ after.gaps = st.gaps \cup {gap}
      /\ after.components = st.components /\ after.domains = st.domains
      /\ after.next = st.next /\ after.ids = st.ids
      /\ after.lines = st.lines /\ after.ports = st.ports
    BY <1>1 DEF Recorded
<1>. HIDE DEF after
<1>3. IsImport(after)
    BY <1>2 DEF IsImport
<1>4. Accounts(after, service, groups)
    BY <1>2 DEF Accounts, Placed
<1>5. ASSUME NEW v, Accounts(st, v, groups) PROVE Accounts(after, v, groups)
    BY <1>2, <1>5 DEF Accounts
<1>6. ASSUME NEW u, NEW v, Apart(st, u, v, groups) PROVE Apart(after, u, v, groups)
    BY <1>2, <1>6 DEF Apart
<1>. QED
    BY <1>3, <1>4, <1>5, <1>6 DEF Continues, after

\* Every service that does not end the import does.
LEMMA ServiceAccounts ==
    ASSUME NEW st, ~st.failed, IsImport(st), NEW service, IsService(service), NEW groups,
           NEW after, after = ImportService(st, service, Targets, groups), ~after.failed
    PROVE  Continues(after, st, service, groups)
<1>1. CASE Unsupported(service)
    <2>1. after = [st EXCEPT !.gaps = @ \cup {Gap("unsupported", service.name)}]
        BY <1>1 DEF ImportService
    <2>. QED
        BY <1>1, <2>1, GapAccounts DEF Placed
<1>2. CASE ~Unsupported(service) /\ Incomplete(service)
    <2>1. after = [st EXCEPT !.gaps = @ \cup {Gap("action", service.name)}]
        BY <1>2 DEF ImportService
    <2>. QED
        BY <1>2, <2>1, GapAccounts DEF Placed
<1>3. CASE Placed(service)
    <2>1. ~Collides(st, service)
        <3>1. CASE Collides(st, service)
            <4>1. after = [st EXCEPT !.failed = TRUE]
                BY <1>3, <3>1 DEF ImportService, Placed
            <4>. QED
                BY <4>1 DEF IsImport, Recorded
        <3>. QED
            BY <3>1
    <2>2. after = ImportComponent(st, service, Targets, groups)
        BY <1>3, <2>1 DEF ImportService, Placed
    <2>. QED
        BY <1>3, <2>1, <2>2, ComponentAccounts
<1>. QED
    BY <1>1, <1>2, <1>3 DEF Placed

-----------------------------------------------------------------------------
(* The whole blueprint.                                                    *)

\* The first `n` services are accounted for.
AccountsForFirst(st, b, n) ==
    /\ IsImport(st)
    /\ \A i \in 1..n : Accounts(st, b.services[i], b.groups)
    /\ \A i, j \in 1..n : Placed(b.services[i]) /\ Placed(b.services[j]) /\ i # j =>
         Apart(st, b.services[i], b.services[j], b.groups)

\* So they all are once the import is through.
LEMMA ImportAccounts ==
    ASSUME NEW b, IsBlueprint(b), NEW n \in 0..Len(b.services),
           ~After(b, Targets)[n].failed
    PROVE  AccountsForFirst(After(b, Targets)[n], b, n)
<1>. DEFINE at(k) == After(b, Targets)[k]
            S == {k \in Nat : k <= Len(b.services) /\ ~at(k).failed =>
                                AccountsForFirst(at(k), b, k)}
<1>1. Len(b.services) \in Nat /\ DOMAIN b.services = 1..Len(b.services)
    BY DEF IsBlueprint, IsList
<1>2. /\ at(0) = NothingImported(b)
      /\ \A k \in 1..Len(b.services) :
           at(k) = ImportService(at(k - 1), b.services[k], Targets, b.groups)
    BY <1>1, AfterEach
<1>. HIDE DEF at
<1>3. 0 \in S
    <2>1. FirstPort \in Nat
        BY TargetsAssumption
    <2>2. IsImport(NothingImported(b))
        BY <2>1 DEF NothingImported, IsImport, Recorded
    <2>3. AccountsForFirst(at(0), b, 0)
        BY <1>2, <2>2 DEF AccountsForFirst
    <2>. QED
        BY <2>3
<1>4. ASSUME NEW k \in Nat, k \in S PROVE k + 1 \in S
    <2>. SUFFICES ASSUME k + 1 <= Len(b.services), ~at(k + 1).failed
                  PROVE  AccountsForFirst(at(k + 1), b, k + 1)
        OBVIOUS
    <2>1. k + 1 \in 1..Len(b.services) /\ k + 1 - 1 = k
        BY <1>1
    <2>2. at(k + 1) = ImportService(at(k), b.services[k + 1], Targets, b.groups)
        BY <1>2, <2>1
    <2>3. ~at(k).failed
        BY <2>2 DEF ImportService
    <2>4. AccountsForFirst(at(k), b, k)
        BY <1>1, <1>4, <2>3
    <2>5. IsService(b.services[k + 1])
        BY <1>1, <2>1 DEF IsBlueprint, IsService
    <2>6. Continues(at(k + 1), at(k), b.services[k + 1], b.groups)
        BY <2>2, <2>3, <2>4, <2>5, ServiceAccounts DEF AccountsForFirst
    <2>7. \A i \in 1..k + 1 : i \in 1..k \/ i = k + 1
        OBVIOUS
    <2>8. IsImport(at(k + 1)) /\ \A i \in 1..k + 1 : Accounts(at(k + 1), b.services[i], b.groups)
        BY <2>4, <2>6, <2>7 DEF AccountsForFirst, Continues
    <2>9. ASSUME NEW i \in 1..k + 1, NEW j \in 1..k + 1, i # j,
                 Placed(b.services[i]), Placed(b.services[j])
          PROVE  Apart(at(k + 1), b.services[i], b.services[j], b.groups)
        BY <2>4, <2>6, <2>7, <2>9 DEF AccountsForFirst, Continues
    <2>. QED
        BY <2>8, <2>9 DEF AccountsForFirst
<1>5. Nat \subseteq S
    <2>. HIDE DEF S
    <2>. QED
        BY <1>3, <1>4, InductiveSet
<1>6. n \in Nat /\ n <= Len(b.services) /\ ~at(n).failed
    BY <1>1 DEF at
<1>. QED
    BY <1>5, <1>6 DEF at

\* A database has the name its last slug gives it.
LEMMA NamesDatabases ==
    ASSUME NEW b, IsBlueprint(b), NEW i \in DOMAIN b.databases,
           \A j \in DOMAIN b.databases : b.databases[j].slug # {}
    PROVE  \E x \in Name : DatabaseName(b, b.databases[i].name) = {x}
<1>. DEFINE same == {j \in DOMAIN b.databases : b.databases[j].name = b.databases[i].name}
<1>1. Len(b.databases) \in Nat /\ DOMAIN b.databases = 1..Len(b.databases)
    BY DEF IsBlueprint, IsList
<1>2. same # {} /\ same \subseteq 1..Len(b.databases)
    BY <1>1
<1>3. \E k \in same : \A j \in same : j <= k
    <2>. HIDE DEF same
    <2>. QED
        BY <1>1, <1>2, LastOf
<1>4. (CHOOSE k \in same : \A j \in same : j <= k) \in same
    <2>. HIDE DEF same
    <2>. QED
        BY <1>3
<1>5. PICK k \in DOMAIN b.databases : DatabaseName(b, b.databases[i].name) = b.databases[k].slug
    BY <1>4 DEF DatabaseName
<1>. QED
    BY <1>5 DEF IsBlueprint, IsSlug

\* All documents.
Documents == Servers \cup ServerTypes \cup Applications \cup Components \cup Domains
               \cup Services \cup SshKeys \cup LoggingStacks \cup AlertRules \cup Policies

\* IsDocument, as membership.
LEMMA IsDocumentMeans == \A d : IsDocument(d) <=> d \in Documents
BY DEF IsDocument, Documents

\* The PostgreSQL service of a blueprint is a document.
LEMMA PostgresIsDocument ==
    ASSUME NEW b, IsBlueprint(b), \A j \in DOMAIN b.databases : b.databases[j].slug # {}
    PROVE  PostgresService(b, Targets) \in Services
<1>. DEFINE Database == [name: Name, application: Id]
            databases == [i \in DOMAIN b.databases |->
                            [name |-> TheOne(DatabaseName(b, b.databases[i].name)),
                             application |-> Targets.application]]
<1>1. Len(b.databases) \in Nat /\ DOMAIN b.databases = 1..Len(b.databases)
    BY DEF IsBlueprint, IsList
<1>2. ASSUME NEW i \in DOMAIN b.databases
      PROVE  TheOne(DatabaseName(b, b.databases[i].name)) \in Name
    <2>1. PICK x \in Name : DatabaseName(b, b.databases[i].name) = {x}
        BY NamesDatabases
    <2>. QED
        BY <2>1, OneOf
<1>3. databases \in [1..Len(b.databases) -> Database]
    BY <1>1, <1>2, TargetsAssumption
<1>4. databases \in Seq(Database)
    <2>. HIDE DEF databases, Database
    <2>. QED
        BY <1>1, <1>3, FunctionIsSeq
<1>5. PostgresService(b, Targets) =
        [kind |-> "service", id |-> PostgresId, serviceKind |-> "postgresql",
         environment |-> Production, server |-> Targets.server, port |-> 5432,
         databases |-> databases]
    BY DEF PostgresService
<1>. HIDE DEF databases
<1>. QED
    BY <1>4, <1>5, TargetsAssumption DEF Services

\* What a sequence holds.
Elements(s) == {s[i] : i \in DOMAIN s}

\* What a concatenation holds.
LEMMA ElementsOfConcat ==
    ASSUME NEW S, NEW s \in Seq(S), NEW t \in Seq(S)
    PROVE  Elements(s \o t) = Elements(s) \cup Elements(t)
<1>1. /\ Len(s) \in Nat /\ DOMAIN s = 1..Len(s)
      /\ Len(t) \in Nat /\ DOMAIN t = 1..Len(t)
    BY LenProperties
<1>2. /\ DOMAIN (s \o t) = 1..Len(s) + Len(t)
      /\ \A i \in 1..Len(s) + Len(t) :
           (s \o t)[i] = IF i <= Len(s) THEN s[i] ELSE t[i - Len(s)]
    BY ConcatProperties, LenProperties
<1>3. ASSUME NEW x \in Elements(s \o t) PROVE x \in Elements(s) \cup Elements(t)
    <2>1. PICK i \in 1..Len(s) + Len(t) : x = (s \o t)[i]
        BY <1>2, <1>3 DEF Elements
    <2>2. CASE i <= Len(s)
        BY <1>1, <1>2, <2>1, <2>2 DEF Elements
    <2>3. CASE ~(i <= Len(s))
        <3>1. i - Len(s) \in 1..Len(t)
            BY <1>1, <2>3
        <3>. QED
            BY <1>1, <1>2, <2>1, <2>3, <3>1 DEF Elements
    <2>. QED
        BY <2>2, <2>3
<1>4. ASSUME NEW x \in Elements(s) PROVE x \in Elements(s \o t)
    <2>1. PICK i \in 1..Len(s) : x = s[i]
        BY <1>1, <1>4 DEF Elements
    <2>2. i \in 1..Len(s) + Len(t) /\ i <= Len(s)
        BY <1>1
    <2>. QED
        BY <1>2, <2>1, <2>2 DEF Elements
<1>5. ASSUME NEW x \in Elements(t) PROVE x \in Elements(s \o t)
    <2>1. PICK i \in 1..Len(t) : x = t[i]
        BY <1>1, <1>5 DEF Elements
    <2>2. /\ Len(s) + i \in 1..Len(s) + Len(t) /\ ~(Len(s) + i <= Len(s))
          /\ Len(s) + i - Len(s) = i
        BY <1>1
    <2>3. (s \o t)[Len(s) + i] = t[i]
        BY <1>2, <2>2
    <2>. QED
        BY <1>2, <2>1, <2>2, <2>3 DEF Elements
<1>. QED
    BY <1>3, <1>4, <1>5

\* One document and three lists of them.
LEMMA DocumentsInTurn ==
    ASSUME NEW S, NEW x \in S, NEW s \in Seq(S), NEW t \in Seq(S), NEW u \in Seq(S)
    PROVE  /\ <<x>> \o s \o t \o u \in Seq(S)
           /\ <<x>> \o s \o t \o u # <<>>
           /\ Elements(<<x>> \o s \o t \o u) =
                {x} \cup Elements(s) \cup Elements(t) \cup Elements(u)
<1>0. DEFINE one == <<x>>
<1>1. one \in Seq(S) /\ Elements(one) = {x}
    BY DEF Elements
<1>. HIDE DEF one
<1>2. one \o s \in Seq(S) /\ Elements(one \o s) = {x} \cup Elements(s)
    <2>1. one \o s \in Seq(S)
        BY <1>1, ConcatProperties
    <2>2. Elements(one \o s) = Elements(one) \cup Elements(s)
        BY <1>1, ElementsOfConcat
    <2>. QED
        BY <1>1, <2>1, <2>2
<1>3. DEFINE two == one \o s
<1>. HIDE DEF two
<1>4. two \o t \in Seq(S) /\ Elements(two \o t) = {x} \cup Elements(s) \cup Elements(t)
    <2>0. two \in Seq(S) /\ Elements(two) = {x} \cup Elements(s)
        BY <1>2 DEF two
    <2>1. two \o t \in Seq(S)
        BY <2>0, ConcatProperties
    <2>2. Elements(two \o t) = Elements(two) \cup Elements(t)
        BY <2>0, ElementsOfConcat
    <2>. QED
        BY <2>0, <2>1, <2>2
<1>5. DEFINE three == two \o t
<1>. HIDE DEF three
<1>6. /\ three \o u \in Seq(S)
      /\ Elements(three \o u) = {x} \cup Elements(s) \cup Elements(t) \cup Elements(u)
    <2>0. three \in Seq(S) /\ Elements(three) = {x} \cup Elements(s) \cup Elements(t)
        BY <1>4 DEF three
    <2>1. three \o u \in Seq(S)
        BY <2>0, ConcatProperties
    <2>2. Elements(three \o u) = Elements(three) \cup Elements(u)
        BY <2>0, ElementsOfConcat
    <2>. QED
        BY <2>0, <2>1, <2>2
<1>7. three \o u # <<>>
    <2>1. Elements(<<>>) = {}
        BY DEF Elements
    <2>. QED
        BY <1>6, <2>1
<1>. QED
    BY <1>6, <1>7 DEF three, two, one

\* An import that goes through: its documents, and where each comes from.
LEMMA ImportedIs ==
    ASSUME NEW b, IsBlueprint(b), ~Imported(b, Targets).failed
    PROVE  LET st == After(b, Targets)[Len(b.services)]
               result == Imported(b, Targets)
               documents == {result.documents[i] : i \in DOMAIN result.documents}
           IN  /\ AccountsForFirst(st, b, Len(b.services))
               /\ \A j \in DOMAIN b.databases : b.databases[j].slug # {}
               /\ result.documents \in Seq(Documents) /\ result.documents # <<>>
               /\ \A i \in DOMAIN st.components : st.components[i] \in documents
               /\ b.databases # <<>> => PostgresService(b, Targets) \in documents
               /\ \A d \in documents : d.kind = "component" =>
                    \E i \in DOMAIN st.components : d = st.components[i]
               /\ result.lines = st.lines /\ result.ports = st.ports
               /\ st.gaps \subseteq result.gaps
<1>. DEFINE st == After(b, Targets)[Len(b.services)]
            result == Imported(b, Targets)
            services == IF b.databases = <<>> THEN <<>> ELSE <<PostgresService(b, Targets)>>
            application == ApplicationDocument(st, Targets)
            documents == {result.documents[i] : i \in DOMAIN result.documents}
<1>1. /\ ~st.failed
      /\ \A j \in DOMAIN b.databases : b.databases[j].slug # {}
      /\ result.documents = <<application>> \o st.components \o services \o st.domains
      /\ result.lines = st.lines /\ result.ports = st.ports
      /\ st.gaps \subseteq result.gaps
    BY DEF Imported
<1>2. Len(b.services) \in 0..Len(b.services)
    BY DEF IsBlueprint, IsList
<1>3. AccountsForFirst(st, b, Len(b.services))
    BY <1>1, <1>2, ImportAccounts
<1>. HIDE DEF st, result
<1>4. st.components \in Seq(Components) /\ st.domains \in Seq(Domains)
    BY <1>3 DEF AccountsForFirst, IsImport
<1>5. application \in Applications
    <2>1. ASSUME NEW i \in DOMAIN st.components
          PROVE  st.components[i].id \in Id
        <3>1. st.components[i] \in Components
            BY <1>4, ElementOfSeq, LenProperties
        <3>. QED
            BY <3>1 DEF Components
    <2>. QED
        BY <2>1, TargetsAssumption DEF ApplicationDocument, Applications
<1>6. services \in Seq(Services)
    BY <1>1, PostgresIsDocument
<1>7. /\ <<application>> \in Seq(Documents) /\ Len(<<application>>) = 1
      /\ st.components \in Seq(Documents) /\ services \in Seq(Documents)
      /\ st.domains \in Seq(Documents)
    <2>. HIDE DEF application, services
    <2>. QED
        BY <1>4, <1>5, <1>6, SeqMonotonic DEF Documents
<1>. HIDE DEF application, services
<1>8. /\ result.documents \in Seq(Documents) /\ result.documents # <<>>
      /\ Elements(result.documents) =
           {application} \cup Elements(st.components) \cup Elements(services)
             \cup Elements(st.domains)
    BY <1>1, <1>7, DocumentsInTurn
<1>10. ASSUME NEW d \in Elements(result.documents), d.kind = "component"
       PROVE  \E i \in DOMAIN st.components : d = st.components[i]
    <2>1. CASE d = application
        BY <1>5, <1>10, <2>1 DEF Applications
    <2>2. CASE d \in Elements(services)
        <3>1. d \in Services
            BY <1>6, <2>2, ElementOfSeq, LenProperties DEF Elements
        <3>. QED
            BY <1>10, <3>1 DEF Services
    <2>3. CASE d \in Elements(st.domains)
        <3>1. d \in Domains
            BY <1>4, <2>3, ElementOfSeq, LenProperties DEF Elements
        <3>. QED
            BY <1>10, <3>1 DEF Domains
    <2>4. CASE d \in Elements(st.components)
        BY <2>4 DEF Elements
    <2>. QED
        BY <1>8, <2>1, <2>2, <2>3, <2>4
<1>11. b.databases # <<>> => PostgresService(b, Targets) \in Elements(services)
    BY DEF services, Elements
<1>12. /\ documents = Elements(result.documents)
       /\ \A i \in DOMAIN st.components : st.components[i] \in Elements(st.components)
    BY DEF Elements
<1>. HIDE DEF documents
<1>14. /\ \A i \in DOMAIN st.components : st.components[i] \in documents
       /\ b.databases # <<>> => PostgresService(b, Targets) \in documents
       /\ \A d \in documents : d.kind = "component" =>
            \E i \in DOMAIN st.components : d = st.components[i]
    BY <1>8, <1>10, <1>11, <1>12
<1>. QED
    BY <1>1, <1>3, <1>8, <1>14 DEF st, result, documents

-----------------------------------------------------------------------------
(* A configuration that grows.                                             *)

\* What `add` and `import` write: nothing that watches or governs others.
Grown == {"server", "serverType", "application", "component", "domain", "service", "sshKey"}

\* A configuration that holds all another does.
Extends(new, old) ==
    /\ ~Duplicated(new)
    /\ All(old) \subseteq All(new)
    /\ \A d \in All(new) \ All(old) : d.kind \in Grown

\* Lookups that succeed find the same in it, and only kinds that grow have more.
LEMMA GrownLookups ==
    ASSUME NEW old, NEW new, ~Duplicated(old), Extends(new, old)
    PROVE  /\ \A kind : Resources(old, kind) \subseteq Resources(new, kind)
           /\ \A kind, id : Exists(old, kind, id) =>
                /\ Exists(new, kind, id)
                /\ Resource(new, kind, id) = Resource(old, kind, id)
           /\ \A kind : kind \notin Grown => Resources(new, kind) = Resources(old, kind)
           /\ \A environment : Monitored(old, environment) => Monitored(new, environment)
<1>1. \A kind : Resources(old, kind) \subseteq Resources(new, kind)
    BY DEF Resources, Extends
<1>2. ASSUME NEW kind, NEW id, Exists(old, kind, id)
      PROVE  Exists(new, kind, id) /\ Resource(new, kind, id) = Resource(old, kind, id)
    <2>1. Resource(old, kind, id) \in Resources(old, kind) /\ Resource(old, kind, id).id = id
        BY <1>2, LookedUp
    <2>2. Resource(old, kind, id) \in Resources(new, kind)
        BY <1>1, <2>1
    <2>. QED
        BY <2>1, <2>2, FoundDocument DEF Extends
<1>3. \A kind : kind \notin Grown => Resources(new, kind) = Resources(old, kind)
    BY <1>1 DEF Resources, Extends
<1>4. \A environment : Monitored(old, environment) => Monitored(new, environment)
    BY <1>1 DEF Monitored
<1>. QED
    BY <1>1, <1>2, <1>3, <1>4

\* What was in order stays in order.
LEMMA GrownReferences ==
    ASSUME NEW old, NEW new, ~Duplicated(old), Extends(new, old), NEW d, ReferencesOK(old, d)
    PROVE  ReferencesOK(new, d)
<1>1. /\ \A kind, id : Exists(old, kind, id) =>
           Exists(new, kind, id) /\ Resource(new, kind, id) = Resource(old, kind, id)
      /\ Resources(new, "policy") = Resources(old, "policy")
      /\ \A environment : Monitored(old, environment) => Monitored(new, environment)
    BY GrownLookups DEF Grown
<1>2. /\ ServerOK(old, d) => ServerOK(new, d)
      /\ ServerTypeOK(old, d) => ServerTypeOK(new, d)
      /\ ApplicationOK(old, d) => ApplicationOK(new, d)
      /\ ComponentOK(old, d) => ComponentOK(new, d)
      /\ DomainOK(old, d) => DomainOK(new, d)
    BY <1>1 DEF ServerOK, ServerTypeOK, ApplicationOK, ComponentOK, DomainOK
<1>3. ServiceOK(old, d) => ServiceOK(new, d)
    BY <1>1 DEF ServiceOK
<1>4. \A file : FileOwnerOK(old, file) => FileOwnerOK(new, file)
    BY <1>1 DEF FileOwnerOK
<1>5. LoggingStackOK(old, d) => LoggingStackOK(new, d)
    <2>1. \A s, e : InEnvironment(old, s, e) => InEnvironment(new, s, e)
        BY <1>1 DEF InEnvironment
    <2>. QED
        BY <1>4, <2>1 DEF LoggingStackOK
<1>6. /\ AlertRuleOK(old, d) => AlertRuleOK(new, d)
      /\ PolicyOK(old, d) => PolicyOK(new, d)
    BY <1>1 DEF AlertRuleOK, PolicyOK
<1>. QED
    BY <1>2, <1>3, <1>5, <1>6 DEF ReferencesOK

\* A consistent configuration stays so when documents that are in order are
\* added (validate_documents, _build_index).
LEMMA GrowthIsConsistent ==
    ASSUME NEW old, NEW new, Consistent(old), Extends(new, old), ServicesUnique(new),
           \A d \in All(new) \ All(old) : ReferencesOK(new, d)
    PROVE  Consistent(new)
<1>1. \A d \in All(old) : ReferencesOK(new, d)
    BY GrownReferences DEF Consistent
<1>2. LoggingUnique(new)
    <2>1. Resources(new, "loggingStack") = Resources(old, "loggingStack")
        BY GrownLookups DEF Consistent, Grown
    <2>. QED
        BY <2>1 DEF Consistent, LoggingUnique
<1>. QED
    BY <1>1, <1>2 DEF Consistent, Extends

-----------------------------------------------------------------------------
(* The documents of an import.                                             *)

\* Components and domains belong to the application and the server an import
\* is for.
ComponentInPlace(d) ==
    /\ d.kind = "component" /\ d.application = Targets.application
    /\ d.servers = {Targets.server} /\ InstallRootOK(d)

DomainInPlace(d) ==
    /\ d.kind = "domain" /\ d.proxy = Targets.server /\ d.origin = Targets.server
    /\ d.aliases = {} /\ d.health = "https"

\* No two documents of one key.
AreUnlike(documents) ==
    \A i, j \in DOMAIN documents : Key(documents[i]) = Key(documents[j]) => i = j

\* And all their ids are claimed.
AreClaimed(documents, ids) ==
    AreUnlike(documents) /\ \A i \in DOMAIN documents : documents[i].id \in ids

InPlace(st) ==
    /\ IsImport(st)
    /\ \A i \in DOMAIN st.components : ComponentInPlace(st.components[i])
    /\ \A i \in DOMAIN st.domains : DomainInPlace(st.domains[i])
    /\ AreClaimed(st.components, st.ids)
    /\ AreClaimed(st.domains, st.ids)

\* A list follows one that shares no key with it.
LEMMA ConcatUnlike ==
    ASSUME NEW S, NEW s \in Seq(S), NEW t \in Seq(S), AreUnlike(s), AreUnlike(t),
           \A x \in Elements(s), y \in Elements(t) : Key(x) # Key(y)
    PROVE  AreUnlike(s \o t)
<1>1. /\ Len(s) \in Nat /\ DOMAIN s = 1..Len(s)
      /\ Len(t) \in Nat /\ DOMAIN t = 1..Len(t)
    BY LenProperties
<1>. DEFINE u == s \o t
<1>2. /\ DOMAIN u = 1..Len(s) + Len(t)
      /\ \A i \in 1..Len(s) + Len(t) : u[i] = IF i <= Len(s) THEN s[i] ELSE t[i - Len(s)]
    BY ConcatProperties, LenProperties
<1>. HIDE DEF u
<1>3. \A i \in DOMAIN u :
        \/ i \in DOMAIN s /\ u[i] = s[i]
        \/ i - Len(s) \in DOMAIN t /\ u[i] = t[i - Len(s)]
    BY <1>1, <1>2
<1>4. ASSUME NEW i \in DOMAIN u, NEW j \in DOMAIN u, Key(u[i]) = Key(u[j])
      PROVE  i = j
    <2>0. i \in Int /\ j \in Int
        BY <1>1, <1>2
    <2>1. CASE i \in DOMAIN s /\ u[i] = s[i] /\ j \in DOMAIN s /\ u[j] = s[j]
        BY <1>4, <2>1 DEF AreUnlike
    <2>2. CASE /\ i - Len(s) \in DOMAIN t /\ u[i] = t[i - Len(s)]
               /\ j - Len(s) \in DOMAIN t /\ u[j] = t[j - Len(s)]
        <3>1. i - Len(s) = j - Len(s)
            BY <1>4, <2>2 DEF AreUnlike
        <3>. QED
            BY <1>1, <2>0, <3>1
    <2>3. CASE /\ i \in DOMAIN s /\ u[i] = s[i]
               /\ j - Len(s) \in DOMAIN t /\ u[j] = t[j - Len(s)]
        BY <1>4, <2>3 DEF Elements
    <2>4. CASE /\ j \in DOMAIN s /\ u[j] = s[j]
               /\ i - Len(s) \in DOMAIN t /\ u[i] = t[i - Len(s)]
        BY <1>4, <2>4 DEF Elements
    <2>. QED
        BY <1>3, <2>1, <2>2, <2>3, <2>4
<1>. QED
    BY <1>4 DEF AreUnlike, u

\* Documents of ids that were free are appended.
LEMMA ConcatClaimed ==
    ASSUME NEW S, NEW s \in Seq(S), NEW t \in Seq(S), NEW ids, NEW more, ids \subseteq more,
           AreClaimed(s, ids), AreClaimed(t, more), \A i \in DOMAIN t : t[i].id \notin ids
    PROVE  AreClaimed(s \o t, more)
<1>. DEFINE u == s \o t
<1>1. \A x \in Elements(s), y \in Elements(t) : Key(x) # Key(y)
    BY DEF AreClaimed, Elements, Key
<1>2. AreUnlike(u)
    BY <1>1, ConcatUnlike DEF AreClaimed
<1>3. Elements(u) = Elements(s) \cup Elements(t)
    BY ElementsOfConcat
<1>. HIDE DEF u
<1>4. \A x \in Elements(s) \cup Elements(t) : x.id \in more
    BY DEF AreClaimed, Elements
<1>5. \A i \in DOMAIN u : u[i].id \in more
    BY <1>3, <1>4 DEF Elements
<1>6. AreClaimed(u, more)
    BY <1>2, <1>5 DEF AreClaimed
<1>. QED
    BY <1>6 DEF u

\* The domains a component brings are of ids that were free.
LEMMA NewDomainsInPlace ==
    ASSUME NEW st, NEW service, IsService(service), ~Collides(st, service),
           NEW more, \A i \in DOMAIN Claims(service) : Claims(service)[i] \subseteq more
    PROVE  /\ NewDomains(service) \in Seq(Domains)
           /\ \A i \in DOMAIN NewDomains(service) :
                DomainInPlace(NewDomains(service)[i]) /\ NewDomains(service)[i].id \notin st.ids
           /\ AreClaimed(NewDomains(service), more)
<1>. DEFINE new == NewDomains(service)
            n == Len(service.domains)
<1>1. CASE ~Listens(service)
    <2>1. new = <<>>
        BY <1>1 DEF NewDomains
    <2>. HIDE DEF new
    <2>2. new \in Seq(Domains) /\ DOMAIN new = {}
        BY <2>1
    <2>3. AreClaimed(new, more)
        BY <2>2 DEF AreClaimed, AreUnlike
    <2>. QED
        BY <2>2, <2>3 DEF new
<1>2. CASE Listens(service)
    <2>1. n \in Nat /\ DOMAIN service.domains = 1..n
        BY DEF IsService, IsList
    <2>2. DOMAIN new = 1..n /\ \A i \in 1..n : new[i] = DomainDocument(service.domains[i], Targets)
        BY <1>2, <2>1 DEF NewDomains
    <2>0. new = [i \in 1..n |-> new[i]]
        BY <1>2, <2>1 DEF NewDomains
    <2>. HIDE DEF new, n
    <2>3. ASSUME NEW i \in 1..n
          PROVE  /\ new[i] \in Domains /\ DomainInPlace(new[i])
                 /\ service.domains[i].slug = {new[i].id}
                 /\ new[i].id \notin st.ids /\ new[i].id \in more
        <3>1. PICK d \in Id : service.domains[i].slug = {d} /\ d \notin st.ids
            BY <1>2, <2>1, FreeClaims
        <3>2. \E k \in DOMAIN Claims(service) : Claims(service)[k] = service.domains[i].slug
            BY <1>2, <2>1, FreeClaims
        <3>3. d \in more
            BY <3>1, <3>2
        <3>4. service.domains[i].name \in Name
            BY <2>1 DEF IsService
        <3>5. TheOne(service.domains[i].slug) = d
            BY <3>1, OneOf
        <3>6. DomainDocument(service.domains[i], Targets) \in Domains
            BY <3>4, <3>5, TargetsAssumption DEF DomainDocument, Domains
        <3>7. /\ DomainDocument(service.domains[i], Targets).id = d
              /\ DomainInPlace(DomainDocument(service.domains[i], Targets))
            BY <3>5 DEF DomainDocument, DomainInPlace
        <3>. QED
            BY <2>2, <3>1, <3>3, <3>6, <3>7
    <2>4. new \in Seq(Domains)
        <3>1. new \in [1..n -> Domains]
            BY <2>0, <2>3
        <3>. QED
            BY <2>1, <3>1, FunctionIsSeq
    <2>5. ASSUME NEW i \in 1..n, NEW j \in 1..n, new[i].id = new[j].id
          PROVE  i = j
        <3>1. service.domains[i].slug = {new[i].id} /\ service.domains[j].slug = {new[j].id}
            BY <2>3
        <3>2. service.domains[i].slug = service.domains[j].slug
            BY <2>5, <3>1
        <3>. QED
            BY <1>2, <2>1, <3>2, FreeClaims
    <2>6. AreClaimed(new, more)
        BY <2>2, <2>3, <2>5 DEF AreClaimed, AreUnlike, Key
    <2>. QED
        BY <2>2, <2>3, <2>4, <2>6 DEF new
<1>. QED
    BY <1>1, <1>2

\* Importing a component leaves everything in place.
LEMMA ComponentStaysInPlace ==
    ASSUME NEW st, InPlace(st), NEW service, IsService(service), NEW groups,
           ~Collides(st, service)
    PROVE  InPlace(ImportComponent(st, service, Targets, groups))
<1>. DEFINE after == ImportComponent(st, service, Targets, groups)
            component == ComponentDocument(service, Targets)
            one == <<component>>
            new == NewDomains(service)
<1>1. PICK c \in Id : service.slug = {c} /\ c \notin st.ids
    BY FreeClaims
<1>2. Adds(after, st, service, groups, c)
    BY <1>1, ComponentParts DEF InPlace
<1>. HIDE DEF after
<1>3. /\ DOMAIN after = Recorded
      /\ st.ids \subseteq after.ids
      /\ \A i \in DOMAIN Claims(service) : Claims(service)[i] \subseteq after.ids
      /\ after.next = st.next \/ after.next = st.next + 1
      /\ after.components = Append(st.components, component)
      /\ after.domains = st.domains \o new
    BY <1>2 DEF Adds
<1>4. c \in after.ids
    BY <1>1, <1>3, FreeClaims
<1>5. component \in Components /\ ComponentInPlace(component) /\ component.id = c
    <2>1. TheOne(service.slug) = c
        BY <1>1, OneOf
    <2>2. Targets.server \in Id /\ Targets.application \in Id
        BY TargetsAssumption
    <2>3. {Targets.server} \in SUBSET Id /\ {Targets.server} \notin {{}}
        BY <2>2
    <2>4. {Targets.server} \in (SUBSET Id) \ {{}}
        BY <2>3
    <2>. QED
        BY <2>1, <2>2, <2>4 DEF ComponentDocument, Components, ComponentInPlace, InstallRootOK
<1>. HIDE DEF component
<1>6. /\ new \in Seq(Domains)
      /\ \A i \in DOMAIN new : DomainInPlace(new[i]) /\ new[i].id \notin st.ids
      /\ AreClaimed(new, after.ids)
    BY <1>3, NewDomainsInPlace
<1>. HIDE DEF new
<1>7. st.components \in Seq(Components) /\ st.domains \in Seq(Domains) /\ st.next \in Nat
    BY DEF InPlace, IsImport
<1>8. /\ one \in Seq(Components) /\ DOMAIN one = {1} /\ one[1] = component
      /\ after.components = st.components \o one
    <2>1. one \in Seq(Components) /\ DOMAIN one = {1} /\ one[1] = component
        BY <1>5
    <2>2. Append(st.components, component) = st.components \o <<component>>
        BY <1>5, <1>7, AppendIsConcat
    <2>. QED
        BY <1>3, <2>1, <2>2
<1>. HIDE DEF one
<1>9. AreClaimed(after.components, after.ids)
    <2>1. AreClaimed(one, after.ids) /\ \A i \in DOMAIN one : one[i].id \notin st.ids
        BY <1>1, <1>4, <1>5, <1>8 DEF AreClaimed, AreUnlike
    <2>. QED
        BY <1>3, <1>7, <1>8, <2>1, ConcatClaimed DEF InPlace
<1>10. AreClaimed(after.domains, after.ids)
    BY <1>3, <1>6, <1>7, ConcatClaimed DEF InPlace
<1>11. IsImport(after)
    BY <1>3, <1>6, <1>7, <1>8, ConcatProperties DEF IsImport
<1>12. \A i \in DOMAIN after.components : ComponentInPlace(after.components[i])
    <2>1. Elements(after.components) = Elements(st.components) \cup Elements(one)
        BY <1>7, <1>8, ElementsOfConcat
    <2>2. \A d \in Elements(st.components) \cup Elements(one) : ComponentInPlace(d)
        BY <1>5, <1>8 DEF Elements, InPlace
    <2>. QED
        BY <2>1, <2>2 DEF Elements
<1>13. \A i \in DOMAIN after.domains : DomainInPlace(after.domains[i])
    <2>1. Elements(after.domains) = Elements(st.domains) \cup Elements(new)
        BY <1>3, <1>6, <1>7, ElementsOfConcat
    <2>2. \A d \in Elements(st.domains) \cup Elements(new) : DomainInPlace(d)
        BY <1>6 DEF Elements, InPlace
    <2>. QED
        BY <2>1, <2>2 DEF Elements
<1>14. InPlace(after)
    BY <1>9, <1>10, <1>11, <1>12, <1>13 DEF InPlace
<1>. QED
    BY <1>14 DEF after

\* So does every service that does not end the import.
LEMMA ServiceStaysInPlace ==
    ASSUME NEW st, ~st.failed, InPlace(st), NEW service, IsService(service), NEW groups,
           NEW after, after = ImportService(st, service, Targets, groups), ~after.failed
    PROVE  InPlace(after)
<1>1. ASSUME NEW gap, after = [st EXCEPT !.gaps = @ \cup {gap}]
      PROVE  InPlace(after)
    <2>1. /\ DOMAIN after = DOMAIN st /\ after.components = st.components
          /\ after.domains = st.domains /\ after.next = st.next /\ after.ids = st.ids
        BY <1>1
    <2>. QED
        BY <2>1 DEF InPlace, IsImport
<1>2. CASE Unsupported(service) \/ Incomplete(service)
    BY <1>1, <1>2 DEF ImportService
<1>3. CASE ~Unsupported(service) /\ ~Incomplete(service)
    <2>1. ~Collides(st, service)
        <3>1. CASE Collides(st, service)
            <4>1. after = [st EXCEPT !.failed = TRUE]
                BY <1>3, <3>1 DEF ImportService
            <4>. QED
                BY <4>1 DEF InPlace, IsImport, Recorded
        <3>. QED
            BY <3>1
    <2>2. after = ImportComponent(st, service, Targets, groups)
        BY <1>3, <2>1 DEF ImportService
    <2>. QED
        BY <2>1, <2>2, ComponentStaysInPlace
<1>. QED
    BY <1>2, <1>3

\* So everything is in place after each.
LEMMA ImportInPlace ==
    ASSUME NEW b, IsBlueprint(b), NEW n \in 0..Len(b.services),
           ~After(b, Targets)[n].failed
    PROVE  InPlace(After(b, Targets)[n])
<1>. DEFINE at(k) == After(b, Targets)[k]
            S == {k \in Nat : k <= Len(b.services) /\ ~at(k).failed => InPlace(at(k))}
<1>1. Len(b.services) \in Nat /\ DOMAIN b.services = 1..Len(b.services)
    BY DEF IsBlueprint, IsList
<1>2. /\ at(0) = NothingImported(b)
      /\ \A k \in 1..Len(b.services) :
           at(k) = ImportService(at(k - 1), b.services[k], Targets, b.groups)
    BY <1>1, AfterEach
<1>. HIDE DEF at
<1>3. 0 \in S
    <2>1. FirstPort \in Nat
        BY TargetsAssumption
    <2>2. InPlace(NothingImported(b))
        BY <2>1 DEF NothingImported, IsImport, Recorded, InPlace, AreClaimed, AreUnlike
    <2>. QED
        BY <1>2, <2>2
<1>4. ASSUME NEW k \in Nat, k \in S PROVE k + 1 \in S
    <2>. SUFFICES ASSUME k + 1 <= Len(b.services), ~at(k + 1).failed
                  PROVE  InPlace(at(k + 1))
        OBVIOUS
    <2>1. k + 1 \in 1..Len(b.services) /\ k + 1 - 1 = k
        BY <1>1
    <2>2. at(k + 1) = ImportService(at(k), b.services[k + 1], Targets, b.groups)
        BY <1>2, <2>1
    <2>3. ~at(k).failed
        BY <2>2 DEF ImportService
    <2>4. InPlace(at(k))
        BY <1>1, <1>4, <2>3
    <2>5. IsService(b.services[k + 1])
        BY <1>1, <2>1 DEF IsBlueprint, IsService
    <2>. QED
        BY <2>2, <2>3, <2>4, <2>5, ServiceStaysInPlace
<1>5. Nat \subseteq S
    <2>. HIDE DEF S
    <2>. QED
        BY <1>3, <1>4, InductiveSet
<1>6. n \in Nat /\ n <= Len(b.services) /\ ~at(n).failed
    BY <1>1 DEF at
<1>. QED
    BY <1>5, <1>6 DEF at

\* A service an import declares: one PostgreSQL, for the application.
ServiceInPlace(d) ==
    /\ d.kind = "service" /\ d.id = PostgresId
    /\ d.serviceKind = "postgresql" /\ d.environment = Production /\ d.server = Targets.server
    /\ \A i \in DOMAIN d.databases : d.databases[i].application = Targets.application

\* The application lists the components, and no other.
ApplicationInPlace(d, documents) ==
    /\ d.kind = "application" /\ d.id = Targets.application
    /\ d.components = {c.id : c \in {x \in documents : x.kind = "component"}}

\* The documents of an import.
AreInPlace(documents) ==
    /\ \E d \in documents : d.kind = "application"
    /\ \A d \in documents :
         \/ ApplicationInPlace(d, documents) \/ ComponentInPlace(d)
         \/ ServiceInPlace(d) \/ DomainInPlace(d)

\* An import yields such documents, no two of one key.
LEMMA ImportedInPlace ==
    ASSUME NEW b, IsBlueprint(b), ~Imported(b, Targets).failed
    PROVE  /\ Imported(b, Targets).documents \in Seq(Documents)
           /\ AreUnlike(Imported(b, Targets).documents)
           /\ AreInPlace(Elements(Imported(b, Targets).documents))
<1>. DEFINE st == After(b, Targets)[Len(b.services)]
            result == Imported(b, Targets)
            services == IF b.databases = <<>> THEN <<>> ELSE <<PostgresService(b, Targets)>>
            application == ApplicationDocument(st, Targets)
            one == <<application>>
            two == one \o st.components
            three == two \o services
            all == three \o st.domains
<1>1. /\ ~st.failed
      /\ \A j \in DOMAIN b.databases : b.databases[j].slug # {}
      /\ result.documents = <<application>> \o st.components \o services \o st.domains
    BY DEF Imported
<1>2. Len(b.services) \in 0..Len(b.services)
    BY DEF IsBlueprint, IsList
<1>3. InPlace(st)
    BY <1>1, <1>2, ImportInPlace
<1>4. result.documents \in Seq(Documents) /\ result.documents = all
    BY <1>1, ImportedIs
<1>. HIDE DEF st, result
<1>5. /\ st.components \in Seq(Components) /\ st.domains \in Seq(Domains)
      /\ AreUnlike(st.components) /\ AreUnlike(st.domains)
    BY <1>3 DEF InPlace, IsImport, AreClaimed
<1>6. /\ application.kind = "application" /\ application.id = Targets.application
      /\ application.components = {st.components[i].id : i \in DOMAIN st.components}
    BY DEF ApplicationDocument
<1>7. application \in Applications
    <2>1. ASSUME NEW i \in DOMAIN st.components
          PROVE  st.components[i].id \in Id
        <3>1. st.components[i] \in Components
            BY <1>5, <2>1, ElementOfSeq, LenProperties
        <3>. QED
            BY <3>1 DEF Components
    <2>. QED
        BY <2>1, TargetsAssumption DEF ApplicationDocument, Applications
<1>8. /\ services \in Seq(Services) /\ AreUnlike(services)
      /\ \A d \in Elements(services) : ServiceInPlace(d)
    <2>1. CASE b.databases = <<>>
        BY <2>1 DEF AreUnlike, Elements
    <2>2. CASE b.databases # <<>>
        <3>. DEFINE service == PostgresService(b, Targets)
                    only == <<service>>
        <3>1. service \in Services
            BY <1>1, PostgresIsDocument
        <3>2. ServiceInPlace(service)
            <4>. DEFINE databases == [i \in DOMAIN b.databases |->
                            [name |-> TheOne(DatabaseName(b, b.databases[i].name)),
                             application |-> Targets.application]]
            <4>1. \A i \in DOMAIN databases : databases[i].application = Targets.application
                OBVIOUS
            <4>2. /\ service.databases = databases
                  /\ service.kind = "service" /\ service.id = PostgresId
                  /\ service.serviceKind = "postgresql"
                  /\ service.environment = Production /\ service.server = Targets.server
                BY DEF PostgresService
            <4>. HIDE DEF databases, service
            <4>. QED
                BY <4>1, <4>2 DEF ServiceInPlace
        <3>. HIDE DEF service
        <3>3. only \in Seq(Services) /\ DOMAIN only = {1} /\ only[1] = service
            BY <3>1
        <3>4. services = only
            BY <2>2 DEF service
        <3>. HIDE DEF services, only
        <3>. QED
            BY <3>2, <3>3, <3>4 DEF AreUnlike, Elements
    <2>. QED
        BY <2>1, <2>2
<1>. HIDE DEF application, services
<1>9. one \in Seq(Documents) /\ AreUnlike(one) /\ Elements(one) = {application}
    <2>1. one \in Seq(Documents) /\ DOMAIN one = {1} /\ one[1] = application
        BY <1>7 DEF Documents
    <2>. HIDE DEF one
    <2>. QED
        BY <2>1 DEF AreUnlike, Elements
<1>. HIDE DEF one
<1>10. /\ st.components \in Seq(Documents) /\ services \in Seq(Documents)
       /\ st.domains \in Seq(Documents)
    BY <1>5, <1>8, SeqMonotonic DEF Documents
<1>11. /\ \A d \in Elements(st.components) : ComponentInPlace(d)
       /\ \A d \in Elements(st.domains) : DomainInPlace(d)
    BY <1>3 DEF InPlace, Elements
<1>12. /\ two \in Seq(Documents) /\ AreUnlike(two)
       /\ Elements(two) = {application} \cup Elements(st.components)
    <2>1. \A x \in Elements(one), y \in Elements(st.components) : Key(x) # Key(y)
        BY <1>6, <1>9, <1>11 DEF Key, ComponentInPlace
    <2>2. Elements(two) = Elements(one) \cup Elements(st.components)
        BY <1>9, <1>10, ElementsOfConcat
    <2>3. two \in Seq(Documents)
        BY <1>9, <1>10, ConcatProperties
    <2>4. AreUnlike(two)
        BY <1>5, <1>9, <1>10, <2>1, ConcatUnlike
    <2>. HIDE DEF two
    <2>. QED
        BY <1>9, <2>2, <2>3, <2>4
<1>. HIDE DEF two
<1>13. /\ three \in Seq(Documents) /\ AreUnlike(three)
       /\ Elements(three) = {application} \cup Elements(st.components) \cup Elements(services)
    <2>1. \A x \in Elements(two), y \in Elements(services) : Key(x) # Key(y)
        BY <1>6, <1>8, <1>11, <1>12 DEF Key, ComponentInPlace, ServiceInPlace
    <2>2. Elements(three) = Elements(two) \cup Elements(services)
        BY <1>12, <1>10, ElementsOfConcat
    <2>3. three \in Seq(Documents)
        BY <1>12, <1>10, ConcatProperties
    <2>4. AreUnlike(three)
        BY <1>8, <1>12, <1>10, <2>1, ConcatUnlike
    <2>. HIDE DEF three
    <2>. QED
        BY <1>12, <2>2, <2>3, <2>4
<1>. HIDE DEF three
<1>14. /\ AreUnlike(all)
       /\ Elements(all) = {application} \cup Elements(st.components) \cup Elements(services)
                            \cup Elements(st.domains)
    <2>1. \A x \in Elements(three), y \in Elements(st.domains) : Key(x) # Key(y)
        BY <1>6, <1>8, <1>11, <1>13 DEF Key, ComponentInPlace, ServiceInPlace, DomainInPlace
    <2>2. Elements(all) = Elements(three) \cup Elements(st.domains)
        BY <1>13, <1>10, ElementsOfConcat
    <2>4. AreUnlike(all)
        BY <1>5, <1>13, <1>10, <2>1, ConcatUnlike
    <2>. HIDE DEF all
    <2>. QED
        BY <1>13, <2>2, <2>4
<1>. HIDE DEF all
<1>15. AreInPlace(Elements(all))
    <2>1. {x \in Elements(all) : x.kind = "component"} = Elements(st.components)
        BY <1>6, <1>8, <1>11, <1>14 DEF ComponentInPlace, ServiceInPlace, DomainInPlace
    <2>2. {c.id : c \in Elements(st.components)} = {st.components[i].id : i \in DOMAIN st.components}
        BY DEF Elements
    <2>3. ApplicationInPlace(application, Elements(all))
        BY <1>6, <2>1, <2>2 DEF ApplicationInPlace
    <2>. QED
        BY <1>6, <1>8, <1>11, <1>14, <2>3 DEF AreInPlace
<1>. QED
    BY <1>4, <1>14, <1>15 DEF result

\* An import may be merged into a configuration that declares its server, for
\* production, has no such service on it, and where no two databases share a
\* name.
MayMerge(old, documents) ==
    /\ Exists(old, "server", Targets.server)
    /\ Resource(old, "server", Targets.server).environment = Production
    /\ \A d \in documents : d.kind = "service" =>
         /\ Distinct(Column(d.databases, "name"))
         /\ \A s \in Resources(old, "service") :
              s.server = d.server => s.serviceKind # d.serviceKind /\ s.port # d.port

\* And the configuration is as consistent as before.
LEMMA MergeIsConsistent ==
    ASSUME NEW old, Consistent(old), NEW documents, AreInPlace(documents),
           MayMerge(old, documents), NEW new, ~Duplicated(new),
           All(new) = All(old) \cup documents
    PROVE  Consistent(new)
<1>1. ~Duplicated(old)
    BY DEF Consistent
<1>2. \A d \in documents : d.kind \in {"application", "component", "service", "domain"}
    BY DEF AreInPlace, ApplicationInPlace, ComponentInPlace, ServiceInPlace, DomainInPlace
<1>3. Extends(new, old)
    BY <1>2 DEF Extends, Grown
<1>4. /\ Exists(new, "server", Targets.server)
      /\ Resource(new, "server", Targets.server).environment = Production
    BY <1>1, <1>3, GrownLookups DEF MayMerge
<1>5. PICK application \in documents : application.kind = "application"
    BY DEF AreInPlace
<1>6. ApplicationInPlace(application, documents)
    BY <1>5 DEF AreInPlace, ComponentInPlace, ServiceInPlace, DomainInPlace
<1>7. application \in Resources(new, "application")
    BY <1>5 DEF Resources
<1>8. /\ Exists(new, "application", Targets.application)
      /\ Resource(new, "application", Targets.application) = application
    BY <1>6, <1>7, FoundDocument DEF Extends, ApplicationInPlace
<1>9. ASSUME NEW d \in documents PROVE ReferencesOK(new, d)
    <2>1. CASE ApplicationInPlace(d, documents)
        <3>1. \A c \in d.components : Exists(new, "component", c)
            BY <2>1 DEF ApplicationInPlace, Exists, Resources
        <3>. QED
            BY <2>1, <3>1 DEF ReferencesOK, ApplicationOK, ApplicationInPlace
    <2>2. CASE ComponentInPlace(d)
        <3>1. d.id \in application.components
            BY <1>6, <2>2 DEF ApplicationInPlace, ComponentInPlace
        <3>. QED
            BY <1>4, <1>8, <2>2, <3>1 DEF ReferencesOK, ComponentOK, ComponentInPlace
    <2>3. CASE ServiceInPlace(d)
        <3>1. Distinct(Column(d.databases, "name"))
            BY <2>3 DEF MayMerge, ServiceInPlace
        <3>. QED
            BY <1>4, <1>8, <2>3, <3>1 DEF ReferencesOK, ServiceOK, ServiceInPlace
    <2>4. CASE DomainInPlace(d)
        BY <1>4, <2>4 DEF ReferencesOK, DomainOK, DomainInPlace
    <2>. QED
        BY <2>1, <2>2, <2>3, <2>4 DEF AreInPlace
<1>10. ServicesUnique(new)
    <2>. SUFFICES ASSUME NEW x \in Resources(new, "service"), NEW y \in Resources(new, "service"),
                         x # y, x.server = y.server
                  PROVE  x.serviceKind # y.serviceKind /\ x.port # y.port
        BY DEF ServicesUnique
    <2>1. \A d \in Resources(new, "service") :
            d \in Resources(old, "service") \/ (d \in documents /\ ServiceInPlace(d))
        BY DEF Resources, AreInPlace, ApplicationInPlace, ComponentInPlace, DomainInPlace
    <2>2. CASE x \in Resources(old, "service") /\ y \in Resources(old, "service")
        BY <2>2 DEF Consistent, ServicesUnique
    <2>3. CASE x \in documents /\ ServiceInPlace(x) /\ y \in documents /\ ServiceInPlace(y)
        <3>1. x.id = y.id
            BY <2>3 DEF ServiceInPlace
        <3>. QED
            BY <3>1, OneDocument
    <2>4. CASE x \in Resources(old, "service") /\ y \in documents /\ ServiceInPlace(y)
        BY <2>4 DEF MayMerge, ServiceInPlace
    <2>5. CASE y \in Resources(old, "service") /\ x \in documents /\ ServiceInPlace(x)
        BY <2>5 DEF MayMerge, ServiceInPlace
    <2>. QED
        BY <2>1, <2>2, <2>3, <2>4, <2>5
<1>. QED
    BY <1>3, <1>9, <1>10, GrowthIsConsistent
=============================================================================
