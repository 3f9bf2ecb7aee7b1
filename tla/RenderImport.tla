---------------------------- MODULE RenderImport ----------------------------
(***************************************************************************)
(* The importer: one Render blueprint mapped onto the documents of an      *)
(* application, its components, their domains and a PostgreSQL service,    *)
(* with the environment files and the gaps of the report (importer.py).    *)
(* A slug is the id, or database name, derived from a Render name: a set   *)
(* of one, empty when the name yields none.                                *)
(***************************************************************************)
EXTENDS Fleet
Lists == INSTANCE SequencesExt

CONSTANTS
  Targets,          \* [application, server]: where imports are placed
  FirstPort,        \* _FIRST_COMPONENT_PORT
  Production        \* the environment every imported service is given

PostgresId == "postgresql-main"

ASSUME TargetsAssumption ==
  /\ {Targets.application, Targets.server, Production, PostgresId} \subseteq Id
  /\ 5432 \in Port
  /\ FirstPort \in Nat

(* What a blueprint may be, as far as its documents depend on it.          *)
IsSlug(slug, names) == slug = {} \/ \E n \in names : slug = {n}

IsList(s) == Len(s) \in Nat /\ DOMAIN s = 1..Len(s)

IsService(service) ==
  /\ IsSlug(service.slug, Id)
  /\ IsList(service.domains)
  /\ \A i \in DOMAIN service.domains :
       /\ service.domains[i].name \in Name
       /\ IsSlug(service.domains[i].slug, Id)

IsBlueprint(blueprint) ==
  /\ IsList(blueprint.services)
  /\ \A i \in DOMAIN blueprint.services : IsService(blueprint.services[i])
  /\ IsList(blueprint.databases)
  /\ \A i \in DOMAIN blueprint.databases : IsSlug(blueprint.databases[i].slug, Name)

Gap(category, subject) == [category |-> category, subject |-> subject]

When(condition, gap) == IF condition THEN {gap} ELSE {}

(***************************************************************************)
(* The environment of a service: entries with a value, entries to be       *)
(* filled in or resolved by hand, database connections, and groups.        *)
(***************************************************************************)

(* The entries of a declared group stand where the service refers to it.   *)
Inlined(service, groups) ==
  Lists!FlattenSeq([i \in DOMAIN service.env |->
    IF service.env[i].source # "group" THEN <<service.env[i]>>
    ELSE IF service.env[i].key \in DOMAIN groups THEN groups[service.env[i].key]
    ELSE <<>>])

UndeclaredGroups(service, groups) ==
  {service.env[i].key : i \in {j \in DOMAIN service.env :
     service.env[j].source = "group" /\ service.env[j].key \notin DOMAIN groups}}

EnvironmentLines(entries) ==
  {entries[i].key : i \in {j \in DOMAIN entries : entries[j].source # "keyless"}}

(* What a person has to look at: everything without a value of its own.    *)
EnvironmentGaps(service, entries) ==
  {Gap(IF entries[i].source = "connection" THEN "assumption" ELSE "action",
       service.name) :
     i \in {j \in DOMAIN entries : entries[j].source # "value"}}

(* resolved["PORT"]: the last value given; 0 is a value that is no port.   *)
DeclaredPort(entries) ==
  LET ports == SelectSeq(entries, LAMBDA e : e.key = "PORT" /\ e.source = "value")
  IN  IF ports = <<>> THEN 0 ELSE ports[Len(ports)].port

(***************************************************************************)
(* One service of the blueprint, after those before it.                    *)
(***************************************************************************)

Unsupported(service) ==
  \/ service.type \notin {"web", "worker", "pserv"}
  \/ service.runtime \notin {"python", "node"}

Incomplete(service) == ~service.repo \/ ~service.start

Listens(service) == service.type \in {"web", "pserv"}

(* claim_id, for the component and for each of its domains in turn.        *)
Claims(service) ==
  <<service.slug>> \o
  (IF Listens(service) THEN [i \in DOMAIN service.domains |-> service.domains[i].slug]
   ELSE <<>>)

Collides(st, service) ==
  LET claims == Claims(service)
  IN  \/ \E i \in DOMAIN claims : claims[i] = {} \/ claims[i] \cap st.ids # {}
      \/ ~Distinct(claims)

TheOne(set) == CHOOSE x \in set : TRUE

ComponentDocument(service, targets) ==
  [kind |-> "component", id |-> TheOne(service.slug),
   application |-> targets.application, servers |-> {targets.server},
   root |-> [of |-> targets.application, below |-> TRUE]]

DomainDocument(domain, targets) ==
  [kind |-> "domain", id |-> TheOne(domain.slug), primary |-> domain.name,
   aliases |-> {}, proxy |-> targets.server, origin |-> targets.server,
   tls |-> "required", health |-> "https"]

RuntimeGaps(service) ==
  {Gap("action", service.name)}
    \cup When(~service.versioned, Gap("assumption", service.name))

(* Left out: the two gaps that restate a build command and a branch.       *)
ComponentGaps(service, entries) ==
  EnvironmentGaps(service, entries) \cup RuntimeGaps(service)
    \cup When(Listens(service) /\ (DeclaredPort(entries) = 0 \/ ~service.healthPath),
              Gap("assumption", service.name))
    \cup When(~Listens(service) /\ service.domains # <<>>,
              Gap("action", TheOne(service.slug)))
    \cup {Gap("action", service.domains[i].name) :
            i \in {j \in DOMAIN service.domains : Listens(service)}}

ImportComponent(st, service, targets, groups) ==
  LET entries == Inlined(service, groups)
      declared == DeclaredPort(entries)
      id == TheOne(service.slug)
      domains == IF Listens(service) THEN service.domains ELSE <<>>
  IN  [st EXCEPT
         !.ids = @ \cup UNION {Claims(service)[i] : i \in DOMAIN Claims(service)},
         !.next = IF Listens(service) /\ declared = 0 THEN @ + 1 ELSE @,
         !.components = Append(@, ComponentDocument(service, targets)),
         !.lines = [c \in DOMAIN @ \cup {id} |->
                      IF c = id
                      THEN EnvironmentLines(entries)
                             \cup (IF Listens(service) THEN {"PORT"} ELSE {})
                      ELSE @[c]],
         !.ports = [c \in DOMAIN @ \cup {id} |->
                      IF c # id THEN @[c]
                      ELSE IF ~Listens(service) THEN 0
                      ELSE IF declared # 0 THEN declared ELSE st.next],
         !.domains = @ \o [i \in DOMAIN domains |->
                             DomainDocument(domains[i], targets)],
         !.gaps = @ \cup ComponentGaps(service, entries)
                    \cup {Gap("action", service.name) :
                            g \in UndeclaredGroups(service, groups)}]

(* Mutant: a service Cloudfall has no component for is skipped in silence. *)
ImportServiceSilently(st, service, targets, groups) ==
  IF st.failed \/ Unsupported(service) THEN st
  ELSE IF Incomplete(service)
  THEN [st EXCEPT !.gaps = @ \cup {Gap("action", service.name)}]
  ELSE IF Collides(st, service)
  THEN [st EXCEPT !.failed = TRUE]
  ELSE ImportComponent(st, service, targets, groups)

ImportService(st, service, targets, groups) ==
  IF st.failed THEN st
  ELSE IF Unsupported(service)
  THEN [st EXCEPT !.gaps = @ \cup {Gap("unsupported", service.name)}]
  ELSE IF Incomplete(service)
  THEN [st EXCEPT !.gaps = @ \cup {Gap("action", service.name)}]
  ELSE IF Collides(st, service)
  THEN [st EXCEPT !.failed = TRUE]
  ELSE ImportComponent(st, service, targets, groups)

(***************************************************************************)
(* The whole blueprint.                                                    *)
(***************************************************************************)

NothingImported(blueprint) ==
  [failed |-> FALSE, ids |-> {}, next |-> FirstPort, components |-> <<>>,
   domains |-> <<>>, lines |-> [c \in {} |-> {}], ports |-> [c \in {} |-> 0],
   gaps |-> {Gap("assumption", g) : g \in DOMAIN blueprint.groups}]

(* _database_name_map: a name that appears twice keeps its last slug.      *)
DatabaseName(blueprint, name) ==
  LET same == {i \in DOMAIN blueprint.databases : blueprint.databases[i].name = name}
  IN  blueprint.databases[CHOOSE i \in same : \A j \in same : j <= i].slug

(* Mutant: a database keeps the name it has in the blueprint.              *)
PostgresServiceAsNamed(blueprint, targets) ==
  [kind |-> "service", id |-> PostgresId, serviceKind |-> "postgresql",
   environment |-> Production, server |-> targets.server, port |-> 5432,
   databases |->
     [i \in DOMAIN blueprint.databases |->
        [name |-> blueprint.databases[i].name,
         application |-> targets.application]]]

PostgresService(blueprint, targets) ==
  [kind |-> "service", id |-> PostgresId, serviceKind |-> "postgresql",
   environment |-> Production, server |-> targets.server, port |-> 5432,
   databases |->
     [i \in DOMAIN blueprint.databases |->
        [name |-> TheOne(DatabaseName(blueprint, blueprint.databases[i].name)),
         application |-> targets.application]]]

DatabaseGaps(blueprint) ==
  IF blueprint.databases = <<>> THEN {}
  ELSE {Gap("action", PostgresId)}
         \cup {Gap("action", blueprint.databases[i].name) :
                 i \in {j \in DOMAIN blueprint.databases : blueprint.databases[j].user}}
         \cup When(\A i \in DOMAIN blueprint.databases : ~blueprint.databases[i].version,
                   Gap("assumption", PostgresId))

ApplicationDocument(st, targets) ==
  [kind |-> "application", id |-> targets.application,
   user |-> targets.application,
   components |-> {st.components[i].id : i \in DOMAIN st.components}]

(* The state after each service in turn.                                   *)
After(blueprint, targets) ==
  LET after[n \in 0..Len(blueprint.services)] ==
        IF n = 0 THEN NothingImported(blueprint)
        ELSE ImportService(after[n - 1], blueprint.services[n], targets,
                           blueprint.groups)
  IN  after

(* import_render_mapping, up to the first write.                           *)
Imported(blueprint, targets) ==
  LET unnamed == \E i \in DOMAIN blueprint.databases :
                   blueprint.databases[i].slug = {}
      st == After(blueprint, targets)[Len(blueprint.services)]
      services == IF blueprint.databases = <<>> THEN <<>>
                  ELSE <<PostgresService(blueprint, targets)>>
      failed == unnamed \/ st.failed \/ st.components = <<>>
  IN  [failed |-> failed,
       documents |->
         IF failed THEN <<>>
         ELSE <<ApplicationDocument(st, targets)>> \o st.components
              \o services \o st.domains,
       lines |-> st.lines,
       ports |-> st.ports,
       gaps |-> st.gaps \cup DatabaseGaps(blueprint)
                  \cup {Gap("action", c) :
                         c \in {x \in DOMAIN st.lines : st.lines[x] # {}}}]
=============================================================================
