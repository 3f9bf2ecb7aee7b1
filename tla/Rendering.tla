----------------------------- MODULE Rendering -----------------------------
(***************************************************************************)
(* What an accepted configuration becomes: the typed inventory             *)
(* (PlatformInventory.from_state) and the static Ansible inventory the     *)
(* engine runs its playbooks against (render_ansible_inventory), and the   *)
(* other way round the documents read from an Ansible inventory that       *)
(* declares its hosts (read_fleet).                                        *)
(***************************************************************************)
EXTENDS Fleet

(***************************************************************************)
(* The inventory: one projection per kind.                                 *)
(***************************************************************************)

ServerInventory(d) ==
  [id |-> d.id, environment |-> d.environment, serverType |-> d.serverType,
   port |-> d.port]

ServerTypeInventory(d) ==
  [id |-> d.id, lists |-> d.lists, files |-> d.files, firewall |-> d.firewall]

ApplicationInventory(d) ==
  [id |-> d.id, user |-> d.user, components |-> d.components]

ComponentInventory(d) ==
  [id |-> d.id, application |-> d.application, servers |-> d.servers]

DomainInventory(d) == [id |-> d.id, proxy |-> d.proxy, origin |-> d.origin]

Named(records, id) == CHOOSE r \in records : r.id = id

(* A database is owned by the Linux user of the application it names.      *)
PostgresDatabase(database, applications) ==
  [name |-> database.name,
   owner |-> Named(applications, database.application).user]

ServiceInventory(d, applications) ==
  [id |-> d.id, server |-> d.server,
   databases |->
     IF d.serviceKind = "postgresql"
     THEN {PostgresDatabase(d.databases[i], applications) :
             i \in DOMAIN d.databases}
     ELSE {}]

SshPublicKeyInventory(d) ==
  [id |-> d.id, environment |-> d.environment, active |-> d.active]

LoggingStackInventory(d) ==
  [id |-> d.id, environment |-> d.environment, backend |-> d.backend,
   collectors |-> d.collectors, files |-> d.files]

AlertRuleInventory(d) == [id |-> d.id, environment |-> d.environment]

OperatorPolicyInventory(d) == [id |-> d.id, environment |-> d.environment]

PlatformInventory(config) ==
  LET applications == {ApplicationInventory(d) :
                         d \in Resources(config, "application")}
  IN  [servers |-> {ServerInventory(d) : d \in Resources(config, "server")},
       serverTypes |-> {ServerTypeInventory(d) :
                          d \in Resources(config, "serverType")},
       applications |-> applications,
       components |-> {ComponentInventory(d) :
                         d \in Resources(config, "component")},
       domains |-> {DomainInventory(d) : d \in Resources(config, "domain")},
       services |-> {ServiceInventory(d, applications) :
                       d \in Resources(config, "service")},
       sshKeys |-> {SshPublicKeyInventory(d) : d \in Resources(config, "sshKey")},
       loggingStacks |-> {LoggingStackInventory(d) :
                            d \in Resources(config, "loggingStack")},
       alertRules |-> {AlertRuleInventory(d) :
                         d \in Resources(config, "alertRule")},
       policies |-> {OperatorPolicyInventory(d) :
                       d \in Resources(config, "policy")}]

(***************************************************************************)
(* The lookups that raise a KeyError when their key is missing: the        *)
(* applications of databases while projecting, the type of each server and *)
(* the application of each component on it while rendering.                *)
(***************************************************************************)

ProjectionRaises(config) ==
  \E d \in Resources(config, "service") :
    /\ d.serviceKind = "postgresql"
    /\ \E i \in DOMAIN d.databases :
         ~Exists(config, "application", d.databases[i].application)

ComponentsOnServer(inv, s) == {c \in inv.components : s \in c.servers}

ServersForComponent(inv, c) == {s \in inv.servers : s.id \in c.servers}

RenderingRaises(inv) ==
  \E s \in inv.servers :
    \/ \A t \in inv.serverTypes : t.id # s.serverType
    \/ \E c \in ComponentsOnServer(inv, s.id) :
         \A a \in inv.applications : a.id # c.application

(***************************************************************************)
(* The rendered inventory.                                                 *)
(***************************************************************************)

(* firewall_rules_for_server: the server's own SSH port is always open.    *)
FirewallRules(firewall, port) ==
  LET declared == {firewall.allowed[i] : i \in DOMAIN firewall.allowed}
  IN  declared \cup {<<port, "tcp">>}

HostFirewall(server, type) ==
  IF type.firewall.declared
  THEN {FirewallRules(type.firewall, server.port)}
  ELSE {}

(* _host_logging: the first stack this server backs, with the alert rules  *)
(* of its environment, and the first stack that collects from it.          *)
HostBackend(inv, server) ==
  {s \in inv.loggingStacks : s.backend = server.id}

HostAlertRules(inv, server) ==
  IF HostBackend(inv, server) = {}
  THEN {}
  ELSE LET stack == CHOOSE s \in HostBackend(inv, server) : TRUE
       IN  {r.id : r \in {x \in inv.alertRules :
                            x.environment = stack.environment}}

HostCollector(inv, server) ==
  {s \in inv.loggingStacks : server.id \in s.collectors}

ApplicationIsOnServer(inv, a, server) ==
  \E c \in ComponentsOnServer(inv, server.id) : c.id \in a.components

HostComponent(c, application) ==
  [id |-> c.id, application |-> c.application, user |-> application.user]

HostVariables(inv, server) ==
  LET type == Named(inv.serverTypes, server.serverType)
  IN  [environment |-> server.environment,
       keys |-> {k.id : k \in {x \in inv.sshKeys :
                                 x.active /\ x.environment = server.environment}},
       firewall |-> HostFirewall(server, type),
       rules |-> HostAlertRules(inv, server),
       collectors |-> {s.id : s \in HostCollector(inv, server)},
       applications |->
         {[id |-> a.id, user |-> a.user] :
            a \in {x \in inv.applications : ApplicationIsOnServer(inv, x, server)}},
       components |->
         {HostComponent(c, Named(inv.applications, c.application)) :
            c \in ComponentsOnServer(inv, server.id)},
       services |-> {s \in inv.services : s.server = server.id},
       domains |-> {d.id : d \in {x \in inv.domains : x.proxy = server.id}},
       origins |-> {d.id : d \in {x \in inv.domains : x.origin = server.id}}]

ApplicationHosts(inv, a) ==
  UNION {c.servers : c \in {x \in inv.components : x.id \in a.components}}

(* render_ansible_inventory: the hosts, and the groups plays target.       *)
AnsibleInventory(inv) ==
  [hosts |-> [id \in {s.id : s \in inv.servers} |->
                HostVariables(inv, Named(inv.servers, id))],
   environments |-> [e \in {s.environment : s \in inv.servers} |->
                       {s.id : s \in {x \in inv.servers : x.environment = e}}],
   applications |-> [id \in {a.id : a \in inv.applications} |->
                       ApplicationHosts(inv, Named(inv.applications, id))],
   components |-> [id \in {c.id : c \in inv.components} |->
                     Named(inv.components, id).servers],
   backends |-> {s.backend : s \in inv.loggingStacks},
   collectors |-> UNION {s.collectors : s \in inv.loggingStacks},
   origins |-> {d.origin : d \in inv.domains}]

(***************************************************************************)
(* Reading a fleet from an Ansible inventory.  A host is a record of its   *)
(* name, the declarations that reach it (at most one, its group's defaults *)
(* already merged under it) and the catalog of server types it sees.       *)
(***************************************************************************)

Managed(hosts) == {h \in hosts : h.declared # {}}

CatalogsAgree(hosts) ==
  \A g, h \in Managed(hosts) : \A t \in DOMAIN g.catalog \cap DOMAIN h.catalog :
    g.catalog[t] = h.catalog[t]

(* _merged_declaration: what the host declares wins over its defaults.     *)
MergedDeclaration(h) ==
  LET declared == CHOOSE d \in h.declared : TRUE
  IN  [f \in DOMAIN declared \cup DOMAIN h.defaults |->
         IF f \in DOMAIN declared THEN declared[f] ELSE h.defaults[f]]

ServerDocument(h) ==
  [kind |-> "server", id |-> h.name,
   environment |-> MergedDeclaration(h).environment,
   serverType |-> MergedDeclaration(h).serverType,
   network |-> "none", port |-> h.port]

(* _server_type_documents, once the catalogs agree.                        *)
CatalogDocuments(hosts) ==
  UNION {{h.catalog[t] : t \in DOMAIN h.catalog} : h \in Managed(hosts)}

FleetDocuments(hosts) ==
  LET documents == CatalogDocuments(hosts) \cup {ServerDocument(h) : h \in Managed(hosts)}
  IN  [f \in {Key(d) : d \in documents} |-> CHOOSE d \in documents : Key(d) = f]

ReadableFleet(hosts) ==
  /\ Managed(hosts) # {}
  /\ CatalogsAgree(hosts)
  /\ Consistent(FleetDocuments(hosts))
=============================================================================
