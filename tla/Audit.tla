------------------------------- MODULE Audit -------------------------------
(***************************************************************************)
(* The audit: every check that compares what an inventory declares for a   *)
(* server with the facts one observation captured, and the verdict on the  *)
(* server and on the fleet (audit.py).  Inventories are those of Rendering,*)
(* with the requirements a server type, a service and a component carry    *)
(* added; optional values are sets of at most one.                         *)
(***************************************************************************)
EXTENDS Rendering

(***************************************************************************)
(* Checks.                                                                 *)
(***************************************************************************)

Comparison(check, subject, matches) ==
  [check |-> check, subject |-> subject,
   status |-> IF matches THEN "compliant" ELSE "drift"]

AggregateStatus(statuses) ==
  IF "drift" \in statuses THEN "drift"
  ELSE IF "unknown" \in statuses THEN "unknown"
  ELSE "compliant"

AuditOs(type, facts) ==
  {Comparison("os.distribution", "", facts.os.distribution = type.os.distribution),
   Comparison("os.majorVersion", "", facts.os.version \in type.os.versions),
   Comparison("os.serviceManager", "", facts.os.manager = type.os.manager)}

(* The level is looked for in the text of mdstat, where "active raid10"    *)
(* also starts with "active raid1".                                        *)
Reads(array, level) ==
  array.active /\ (array.level = level \/ (level = "raid1" /\ array.level = "raid10"))

Fewest(numbers) ==
  IF numbers = {} THEN 0 ELSE CHOOSE n \in numbers : \A m \in numbers : n <= m

Most(numbers) ==
  IF numbers = {} THEN 0 ELSE CHOOSE n \in numbers : \A m \in numbers : n >= m

(* The worst array decides on the active devices, the largest on the size. *)
AuditRaid(type, facts) ==
  UNION {{Comparison("raid.level", "",
                     \E a \in facts.arrays : Reads(a, raid.level)),
          Comparison("raid.activeDevices", "",
                     Fewest({a.up : a \in facts.arrays}) >= raid.devices),
          Comparison("raid.usableBytes", "",
                     Most({a.bytes : a \in {x \in facts.arrays :
                                              x.level = raid.level}}) >= raid.bytes)} :
           raid \in type.raid}

AuditMounts(type, facts) ==
  {Comparison("mount", m.path,
     \E f \in facts.filesystems :
       f.target = m.path /\ f.fstype = m.filesystem /\ f.size >= m.bytes) :
     m \in type.mounts}

AuditPackages(type, facts) ==
  {Comparison("package", p.name,
     \E found \in facts.packages :
       found[1] = p.name /\ (p.version = {} \/ found[2] \in p.version)) :
     p \in type.packages}
  \cup
  {Comparison("forbidden", name, \A found \in facts.packages : found[1] # name) :
     name \in type.forbidden}

AuditServices(type, facts) ==
  {Comparison("service", v.name,
     LET evidence == IF v.timer THEN facts.timers ELSE facts.services
     IN  v.name \in DOMAIN evidence /\ evidence[v.name] = v.unit) :
     v \in type.services}

(* Evidence of the managed table is there only if nft could list it; a rule*)
(* without an accepted TCP or UDP port is no endpoint.  Both sides are     *)
(* sorted lists, so an endpoint accepted twice differs.                    *)
AcceptedInbound(table) ==
  SelectSeq(table.rules, LAMBDA r : r.accepts /\ r.endpoint # {})

AuditFirewall(server, type, facts) ==
  IF ~type.firewall.declared THEN {}
  ELSE LET expected == FirewallRules(type.firewall, server.port)
       IN  {Comparison("firewall.managedTable", "", facts.firewall # {}),
            Comparison("firewall.inputPolicy", "",
                       \E t \in facts.firewall : t.policy = "drop"),
            Comparison("firewall.allowedInbound", "",
                       \E t \in facts.firewall :
                         LET accepted == Column(AcceptedInbound(t), "endpoint")
                         IN  /\ Distinct(accepted)
                             /\ UNION {accepted[i] : i \in DOMAIN accepted} = expected)}

Loopback == {"127.0.0.1", "::1"}

AuditServiceBinds(services, facts) ==
  {LET onPort == {l \in facts.listeners : l.protocol = "tcp" /\ l.port = v.port}
   IN  Comparison("bind", v.id,
         /\ \E l \in onPort : l.address = v.address
         /\ \A l \in onPort : l.address \in Loopback) :
     v \in services}

AuditAlertRules(rules, facts) ==
  {Comparison("rule", r,
     \E loaded \in facts.alerting : r \in DOMAIN loaded /\ loaded[r] = "ok") :
     r \in rules}

(* Only components with a receipt of a rendered environment are compared.  *)
AuditComponentEnvironment(components, receipts, facts) ==
  {Comparison("environment", c.id,
     \E e \in facts.environment :
       e.component = c.id /\ e.exists /\ e.sha256 = receipts[c.id]) :
     c \in {x \in components : x.id \in DOMAIN receipts}}

AuditConfiguration(type, facts) ==
  {Comparison("file", r.path,
     \E actual \in facts.configuration :
       /\ actual.path = r.path
       /\ actual.exists
       /\ r.desired.capture = "hash" => actual.sha256 # "none"
       /\ \A key \in DOMAIN r.desired : actual[key] = r.desired[key]) :
     r \in type.files}

(***************************************************************************)
(* A server, given the observations of it (at most one), and the fleet.    *)
(***************************************************************************)

Unobserved ==
  [check |-> "observation.available", subject |-> "", status |-> "unknown"]

AuditServer(inv, server, receipts, snapshot) ==
  IF snapshot = {} THEN {Unobserved}
  ELSE LET seen == CHOOSE x \in snapshot : TRUE
           type == Named(inv.serverTypes, server.serverType)
           facts == seen.facts
       IN  {Comparison("server_type.id", "", seen.type = type.id)}
             \cup AuditOs(type, facts) \cup AuditRaid(type, facts)
             \cup AuditMounts(type, facts) \cup AuditPackages(type, facts)
             \cup AuditServices(type, facts) \cup AuditFirewall(server, type, facts)
             \cup AuditServiceBinds({v \in inv.services : v.server = server.id}, facts)
             \cup AuditAlertRules(HostAlertRules(inv, server), facts)
             \cup AuditComponentEnvironment(ComponentsOnServer(inv, server.id),
                                            receipts, facts)
             \cup AuditConfiguration(type, facts)

ServerAudit(inv, server, receipts, snapshot) ==
  AggregateStatus({c.status : c \in AuditServer(inv, server, receipts, snapshot)})

(* Mutant: a server nobody observed is left out of the sum.                *)
AuditInventoryObserved(inv, snapshots, receipts) ==
  AggregateStatus({ServerAudit(inv, s, receipts, snapshots[s.id]) :
                     s \in {r \in inv.servers : snapshots[r.id] # {}}})

(* audit_inventory: `snapshots` holds what was observed of each server.    *)
AuditInventory(inv, snapshots, receipts) ==
  AggregateStatus({ServerAudit(inv, s, receipts, snapshots[s.id]) : s \in inv.servers})
=============================================================================
