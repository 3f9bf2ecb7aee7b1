----------------------------- MODULE Operations -----------------------------
(***************************************************************************)
(* The operations view (operations.py): the tasks that the audit and the   *)
(* monitoring thresholds open for each server, the lifecycle and the route *)
(* checks of each domain, and the health the dashboard shows for both and  *)
(* for the fleet.  Facts carry, besides what Audit compares, the state of  *)
(* the NVMe devices (smart); a domain observation is what a route probe    *)
(* wrote, where an endpoint is "skipped", "none" or the status it answered.*)
(***************************************************************************)
EXTENDS Audit

CONSTANTS
  StaleWarning, StaleCritical,  \* ages of a snapshot, 24 hours and 7 days
  ExpiryMargin                  \* validity a certificate must have left, 30 days

ASSUME StaleAssumption ==
  /\ {StaleWarning, StaleCritical, ExpiryMargin} \subseteq Nat
  /\ StaleWarning <= StaleCritical

Severities == {"critical", "warning", "unknown"}
Healths == Severities \cup {"healthy"}

Task(kind, severity, source) == [kind |-> kind, severity |-> severity, source |-> source]

(* _fleet_health and _health: what is not known outranks a warning.        *)
Worst(values) ==
  IF "critical" \in values THEN "critical"
  ELSE IF "unknown" \in values THEN "unknown"
  ELSE IF "warning" \in values THEN "warning"
  ELSE "healthy"

(***************************************************************************)
(* Servers.                                                                *)
(***************************************************************************)

AuditTask(c) ==
  Task(IF c.check = "observation.available" THEN "observation" ELSE "drift",
       IF c.status = "unknown" THEN "unknown"
       ELSE IF c.check = "raid.activeDevices" THEN "critical"
       ELSE "warning",
       <<c.check, c.subject>>)

(* Mutant: only evidence past the critical age opens a task.               *)
ObservationTasksLate(at, now) ==
  IF now - at > StaleCritical
  THEN {Task("observation", "critical", <<"observedAt", "">>)}
  ELSE {}

ObservationTasks(at, now) ==
  IF now - at > StaleCritical THEN {Task("observation", "critical", <<"observedAt", "">>)}
  ELSE IF now - at > StaleWarning THEN {Task("observation", "warning", <<"observedAt", "">>)}
  ELSE {}

Persistent == {"btrfs", "ext2", "ext3", "ext4", "f2fs", "xfs", "zfs"}

(* Basis points of what is visible to users, rounded half up.              *)
Utilization(used, avail) ==
  LET visible == used + avail
  IN  IF visible = 0 THEN 0
      ELSE Fewest({(used * 10000 + visible \div 2) \div visible, 10000})

FilesystemTasks(facts) ==
  {Task("filesystem",
        IF Utilization(f.used, f.avail) >= 9500 THEN "critical" ELSE "warning",
        <<"filesystems", f.target>>) :
     f \in {x \in facts.filesystems :
              /\ x.fstype \in Persistent
              /\ Utilization(x.used, x.avail) >= 8500}}

IsDegraded(device) ==
  \/ device.failed
  \/ device.warning # 0
  \/ device.unreliable
  \/ device.percentUsed >= 100
  \/ device.spare <= device.spareThreshold
  \/ device.mediaErrors > 0

SmartTasks(smart) ==
  IF ~smart.available
  THEN IF smart.expected THEN {Task("smart", "warning", <<"smart", "">>)} ELSE {}
  ELSE {Task("smart", IF IsDegraded(d) THEN "critical" ELSE "warning", <<"smart", d.path>>) :
          d \in {x \in smart.devices :
                   IsDegraded(x) \/ x.percentUsed >= 90 \/ x.exit # 0}}

FailedServiceTasks(facts) ==
  {Task("service", "warning", <<"services", name>>) :
     name \in {n \in DOMAIN facts.services : facts.services[n].state = "failed"}}

(* `checks` are those of the server's audit, which the view makes without  *)
(* receipts of rendered environments.                                      *)
ServerTasks(checks, snapshot, now) ==
  {AuditTask(c) : c \in {x \in checks : x.status # "compliant"}}
  \cup UNION {ObservationTasks(s.at, now) \cup FilesystemTasks(s.facts)
                \cup FailedServiceTasks(s.facts) \cup SmartTasks(s.facts.smart) :
                s \in snapshot}

ServerHealth(inv, server, snapshot, now) ==
  Worst({t.severity :
           t \in ServerTasks(AuditServer(inv, server, [c \in {} |-> "none"], snapshot),
                             snapshot, now)})

(***************************************************************************)
(* Domains.  `seen` is what is known of the domain's proxy server, of the  *)
(* deployment of its configuration and of its route, each a set of at most *)
(* one, and the time of the view.                                          *)
(***************************************************************************)

Ready(inv, domain) ==
  \A s \in inv.servers : s.id \in {domain.proxy, domain.origin} => s.active

Deployed(domain, receipt) ==
  \E r \in receipt : r.server = domain.proxy /\ r.path = domain.path

(* The proxy runs, and its configuration is there, as last deployed.       *)
ConfigurationStands(domain, facts, receipt) ==
  /\ domain.service \in DOMAIN facts.services
  /\ facts.services[domain.service] = [state |-> "running", status |-> "enabled"]
  /\ \E file \in facts.configuration :
       /\ file.path = domain.path
       /\ file.exists
       /\ \A r \in receipt : r.path = domain.path => file.sha256 = r.sha256

DomainConfiguration(domain, snapshot, receipt) ==
  IF snapshot = {} THEN "unknown"
  ELSE IF \A s \in snapshot : ConfigurationStands(domain, s.facts, receipt)
  THEN "compliant"
  ELSE "drifted"

Checked(healthy) == IF healthy THEN "healthy" ELSE "unhealthy"

DnsCheck(domain, route) ==
  IF route = {} THEN "unknown"
  ELSE Checked(\A r \in route :
                 /\ ~r.dnsError
                 /\ IF domain.proxied THEN r.edge ELSE r.proxyAddress)

TlsCheck(domain, route, now) ==
  IF ~domain.tls THEN "healthy"
  ELSE IF route = {} THEN "unknown"
  ELSE Checked(\A r \in route :
                 r.valid /\ \E e \in r.expires : e - now > ExpiryMargin)

EndpointCheck(domain, route, endpoint) ==
  IF route = {} THEN "unknown"
  ELSE Checked(\A r \in route :
                 r[endpoint] \in {"skipped"} \cup domain.expected)

DomainChecks(domain, route, now) ==
  {DnsCheck(domain, route), TlsCheck(domain, route, now),
   EndpointCheck(domain, route, "origin"), EndpointCheck(domain, route, "public")}

DomainHealth(inv, domain, seen) ==
  LET configuration == DomainConfiguration(domain, seen.snapshot, seen.receipt)
      checks == DomainChecks(domain, seen.route, seen.now)
  IN  IF \/ ~Ready(inv, domain) \/ ~Deployed(domain, seen.receipt)
         \/ configuration = "drifted" \/ "unhealthy" \in checks
      THEN "warning"
      ELSE IF configuration = "unknown" \/ "unknown" \in checks THEN "unknown"
      ELSE "healthy"

(***************************************************************************)
(* build_operations_view, given snapshots and receipts as functions.       *)
(***************************************************************************)

OperationsView(inv, snapshots, receipts, routes, now) ==
  LET servers == [id \in {s.id : s \in inv.servers} |->
                    ServerHealth(inv, Named(inv.servers, id), snapshots[id], now)]
      domains == [id \in {d.id : d \in inv.domains} |->
                    LET domain == Named(inv.domains, id)
                    IN  DomainHealth(inv, domain,
                          [snapshot |-> snapshots[domain.proxy], receipt |-> receipts[id],
                           route |-> routes[id], now |-> now])]
  IN  [at |-> now, servers |-> servers, domains |-> domains,
       health |-> Worst({servers[id] : id \in DOMAIN servers}
                          \cup {domains[id] : id \in DOMAIN domains})]
=============================================================================
