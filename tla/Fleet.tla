------------------------------- MODULE Fleet -------------------------------
(***************************************************************************)
(* The desired state of the platform: the documents a project holds, the   *)
(* rules validation.py checks them by, the inventory that inventory.py     *)
(* projects from an accepted project, and the static Ansible inventory     *)
(* the engine renders from it.  A document keeps the fields that a rule or *)
(* a rendered host depends on.                                             *)
(***************************************************************************)
EXTENDS Integers, Sequences, FiniteSets

CONSTANTS
  Id,         \* resource ids, environments and Linux users
  Port,       \* TCP ports
  Name        \* host names, paths, packages, database names

Kinds == {"server", "serverType", "application", "component", "domain",
          "service", "sshKey", "loggingStack", "alertRule", "policy"}

(***************************************************************************)
(* Documents, by kind.                                                     *)
(***************************************************************************)

Servers ==
  [kind: {"server"}, id: Id, environment: Id, serverType: Id, port: Port,
   network: {"none", "canonical", "loose", "malformed"}]

ConfigurationFiles ==
  [path: Name, capture: {"hash", "metadata"}, digest: BOOLEAN]

Firewalls == [declared: BOOLEAN, allowed: Seq(Port \X {"tcp", "udp"})]

ServerTypes ==
  [kind: {"serverType"}, id: Id,
   lists: [{"mounts", "packages", "services"} -> Seq(Name)],
   files: Seq(ConfigurationFiles), firewall: Firewalls]

Applications ==
  [kind: {"application"}, id: Id, user: Id, components: SUBSET Id]

Components ==
  [kind: {"component"}, id: Id, application: Id, servers: (SUBSET Id) \ {{}},
   root: [of: Id, below: BOOLEAN]]

Domains ==
  [kind: {"domain"}, id: Id, primary: Name, aliases: SUBSET Name,
   proxy: Id, origin: Id, tls: {"required", "none"}, health: {"http", "https"}]

Services ==
  [kind: {"service"}, id: Id, serviceKind: {"postgresql", "redis"},
   environment: Id, server: Id, port: Port,
   databases: Seq([name: Name, application: Id])]

SshKeys ==
  [kind: {"sshKey"}, id: Id, environment: Id, active: BOOLEAN,
   canonical: BOOLEAN]

(* A file source may name an application, and then a component of it.      *)
FileSources ==
  [id: Id, servers: SUBSET Id,
   application: {{}} \cup {{i} : i \in Id},
   component: {{}} \cup {{i} : i \in Id}]

LoggingStacks ==
  [kind: {"loggingStack"}, id: Id, environment: Id, backend: Id,
   collectors: SUBSET Id, files: Seq(FileSources),
   secrets: Seq([path: Name, below: BOOLEAN]), listeners: Seq(Port)]

AlertRules == [kind: {"alertRule"}, id: Id, environment: Id]

Policies == [kind: {"policy"}, id: Id, environment: Id]

IsDocument(d) ==
  \/ d \in Servers \/ d \in ServerTypes \/ d \in Applications
  \/ d \in Components \/ d \in Domains \/ d \in Services \/ d \in SshKeys
  \/ d \in LoggingStacks \/ d \in AlertRules \/ d \in Policies

(***************************************************************************)
(* A configuration: the documents that loaded, by the file each came from, *)
(* <<kind of the directory, name>>.                                        *)
(***************************************************************************)

Key(d) == <<d.kind, d.id>>

All(config) == {config[f] : f \in DOMAIN config}

Resources(config, kind) == {d \in All(config) : d.kind = kind}

Exists(config, kind, id) == \E d \in Resources(config, kind) : d.id = id

(* Only called where the resource exists: index[key] raises otherwise.     *)
Resource(config, kind, id) ==
  CHOOSE d \in Resources(config, kind) : d.id = id

Distinct(s) == \A i, j \in DOMAIN s : s[i] = s[j] => i = j

Column(s, field) == [i \in DOMAIN s |-> s[i][field]]

Misplaced(config) == \E f \in DOMAIN config : f[1] # config[f].kind

Duplicated(config) ==
  \E f, g \in DOMAIN config : f # g /\ Key(config[f]) = Key(config[g])

(***************************************************************************)
(* The rule of each kind, given the whole configuration.                   *)
(***************************************************************************)

ServerNetworkOK(d) == d.network \in {"none", "canonical"}

(* Mutant: the type a server names is not looked up.                       *)
ServerOKOfAnyType(config, d) == ServerNetworkOK(d)

ServerOK(config, d) ==
  /\ Exists(config, "serverType", d.serverType)
  /\ ServerNetworkOK(d)

FirewallOK(d) == d.firewall.declared => Distinct(d.firewall.allowed)

ServerTypeOK(config, d) ==
  /\ \A list \in DOMAIN d.lists : Distinct(d.lists[list])
  /\ Distinct(Column(d.files, "path"))
  /\ \A i \in DOMAIN d.files : d.files[i].digest => d.files[i].capture = "hash"
  /\ FirewallOK(d)

ApplicationOK(config, d) ==
  \A c \in d.components : Exists(config, "component", c)

InstallRootOK(d) == d.root.of = d.application /\ d.root.below

(* Mutant: the application need not list the component.                    *)
ComponentOKUnlisted(config, d) ==
  /\ Exists(config, "application", d.application)
  /\ InstallRootOK(d)
  /\ \A s \in d.servers : Exists(config, "server", s)

ComponentOK(config, d) ==
  /\ Exists(config, "application", d.application)
  /\ InstallRootOK(d)
  /\ \A s \in d.servers : Exists(config, "server", s)
  /\ d.id \in Resource(config, "application", d.application).components

DomainOK(config, d) ==
  /\ Exists(config, "server", d.proxy)
  /\ Exists(config, "server", d.origin)
  /\ d.primary \notin d.aliases
  /\ d.tls = "required" => d.health = "https"

ServiceOK(config, d) ==
  /\ Exists(config, "server", d.server)
  /\ Resource(config, "server", d.server).environment = d.environment
  /\ d.serviceKind = "postgresql" =>
       /\ Distinct(Column(d.databases, "name"))
       /\ \A i \in DOMAIN d.databases :
            Exists(config, "application", d.databases[i].application)

SshKeyOK(d) == d.canonical

(* _require_server_environment, behind the reference check.                *)
InEnvironment(config, server, environment) ==
  /\ Exists(config, "server", server)
  /\ Resource(config, "server", server).environment = environment

SecretPathsOK(d) ==
  /\ \A i \in DOMAIN d.secrets : d.secrets[i].below
  /\ Distinct(Column(d.secrets, "path"))

ListenersOK(d) == Distinct(d.listeners)

FileOwnerOK(config, file) ==
  \A a \in file.application :
    /\ Exists(config, "application", a)
    /\ \A c \in file.component :
         /\ Exists(config, "component", c)
         /\ Resource(config, "component", c).application = a
         /\ file.servers \subseteq Resource(config, "component", c).servers

LoggingStackOK(config, d) ==
  /\ InEnvironment(config, d.backend, d.environment)
  /\ SecretPathsOK(d)
  /\ ListenersOK(d)
  /\ \A s \in d.collectors : InEnvironment(config, s, d.environment)
  /\ Distinct(Column(d.files, "id"))
  /\ \A i \in DOMAIN d.files :
       /\ d.files[i].servers \subseteq d.collectors
       /\ FileOwnerOK(config, d.files[i])

Monitored(config, environment) ==
  \E s \in Resources(config, "loggingStack") : s.environment = environment

AlertRuleOK(config, d) == Monitored(config, d.environment)

PolicyOK(config, d) ==
  /\ Monitored(config, d.environment)
  /\ \A p \in Resources(config, "policy") \ {d} : p.environment # d.environment

ReferencesOK(config, d) ==
  /\ d.kind = "server" => ServerOK(config, d)
  /\ d.kind = "serverType" => ServerTypeOK(config, d)
  /\ d.kind = "application" => ApplicationOK(config, d)
  /\ d.kind = "component" => ComponentOK(config, d)
  /\ d.kind = "domain" => DomainOK(config, d)
  /\ d.kind = "service" => ServiceOK(config, d)
  /\ d.kind = "sshKey" => SshKeyOK(d)
  /\ d.kind = "loggingStack" => LoggingStackOK(config, d)
  /\ d.kind = "alertRule" => AlertRuleOK(config, d)
  /\ d.kind = "policy" => PolicyOK(config, d)

(* Across documents: one stack for an environment and for a backend, one   *)
(* service of a kind and one listener of a port on a server.               *)
LoggingUnique(config) ==
  \A a, b \in Resources(config, "loggingStack") :
    a # b => a.environment # b.environment /\ a.backend # b.backend

ServicesUnique(config) ==
  \A a, b \in Resources(config, "service") :
    a # b /\ a.server = b.server =>
      a.serviceKind # b.serviceKind /\ a.port # b.port

(* StateValidator.validate_documents.                                      *)
Consistent(config) ==
  /\ ~Duplicated(config)
  /\ \A d \in All(config) : ReferencesOK(config, d)
  /\ LoggingUnique(config)
  /\ ServicesUnique(config)

(* validate_directory, once every listed file loaded.                      *)
Valid(config) ==
  /\ ~Misplaced(config)
  /\ Consistent(config)
=============================================================================
