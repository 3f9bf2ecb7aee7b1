----------------------------- MODULE MCEvidence -----------------------------
(***************************************************************************)
(* Two servers and a domain for Evidence: a proxy and origin of each       *)
(* configuration feature, and every way one of them can be off by one      *)
(* thing.                                                                  *)
(***************************************************************************)
EXTENDS Evidence

MCServer == {"s1", "s2"}
MCDomain == {"www"}

(***************************************************************************)
(* Facts: a server as it should be, and its defects.                       *)
(***************************************************************************)

Unit(state, status) == [state |-> state, status |-> status]
Running == Unit("running", "enabled")
Array(level, up, bytes) == [level |-> level, active |-> TRUE, up |-> up, bytes |-> bytes]
Root(fstype, size, taken) ==
  [target |-> "/", fstype |-> fstype, size |-> size, used |-> taken, avail |-> size - taken]
File(path, sha256) ==
  [path |-> path, exists |-> TRUE, capture |-> "hash", sha256 |-> sha256]
Accept(port) == [accepts |-> TRUE, endpoint |-> {<<port, "tcp">>}]
Table(policy, rules) == {[policy |-> policy, rules |-> rules]}
Listener(address, port) == [protocol |-> "tcp", address |-> address, port |-> port]
Disk(percent, media, exit) ==
  [path |-> "/dev/nvme0", failed |-> FALSE, warning |-> 0, unreliable |-> FALSE,
   percentUsed |-> percent, spare |-> 100, spareThreshold |-> 10,
   mediaErrors |-> media, exit |-> exit]
Smart(available, devices) ==
  [available |-> available, expected |-> TRUE, devices |-> devices]
Units(nginx, cron) ==
  [n \in {"nginx", "cron"} |-> IF n = "nginx" THEN nginx ELSE cron]
Timers(unit) == [n \in {"backup"} |-> unit]
Rules(health) == {[r \in {"r1"} |-> health]}

Good ==
  [os |-> [distribution |-> "Debian", version |-> "12", manager |-> "systemd"],
   arrays |-> {Array("raid1", 2, 8)},
   filesystems |-> {Root("ext4", 100, 84)},
   packages |-> {<<"nginx", "1.22">>, <<"cron", "3">>},
   services |-> Units(Running, Running),
   timers |-> Timers(Unit("active", "enabled")),
   firewall |-> Table("drop", <<Accept(22), Accept(443)>>),
   listeners |-> {Listener("127.0.0.1", 5432), Listener("0.0.0.0", 443)},
   alerting |-> Rules("ok"),
   environment |-> {[component |-> "web", exists |-> TRUE, sha256 |-> "e1"]},
   configuration |-> {File("site", "c1")},
   smart |-> Smart(TRUE, {Disk(10, 0, 0)})]

MCCondition ==
  {"good", "os", "old", "degraded", "split", "small", "mirrorless", "xfs", "tiny",
   "bare", "version", "telnet", "stopped", "failed", "timer", "accept", "open",
   "closed", "twice", "flush", "public", "elsewhere", "rule", "silent", "stale",
   "edited", "removed", "full", "fullest", "worn", "media", "blind", "spare"}

MCFactsOf ==
  [c \in MCCondition |->
     CASE c = "os" -> [Good EXCEPT !.os.distribution = "Ubuntu"]
       [] c = "old" -> [Good EXCEPT !.os.version = "11"]
       [] c = "degraded" -> [Good EXCEPT !.arrays = {Array("raid1", 1, 8)}]
       [] c = "split" -> [Good EXCEPT !.arrays = {Array("raid1", 2, 8), Array("raid1", 1, 4)}]
       [] c = "small" -> [Good EXCEPT !.arrays = {Array("raid1", 2, 4)}]
       [] c = "mirrorless" -> [Good EXCEPT !.arrays = {Array("raid10", 4, 8)}]
       [] c = "xfs" -> [Good EXCEPT !.filesystems = {Root("xfs", 100, 84)}]
       [] c = "tiny" -> [Good EXCEPT !.filesystems = {Root("ext4", 50, 10)}]
       [] c = "bare" -> [Good EXCEPT !.packages = {<<"cron", "3">>}]
       [] c = "version" -> [Good EXCEPT !.packages = {<<"nginx", "1.18">>, <<"cron", "3">>}]
       [] c = "telnet" -> [Good EXCEPT !.packages = @ \cup {<<"telnetd", "1">>}]
       [] c = "stopped" -> [Good EXCEPT !.services = Units(Unit("stopped", "enabled"), Running)]
       [] c = "failed" -> [Good EXCEPT !.services = Units(Running, Unit("failed", "enabled"))]
       [] c = "timer" -> [Good EXCEPT !.timers = Timers(Unit("active", "disabled"))]
       [] c = "accept" -> [Good EXCEPT !.firewall = Table("accept", <<Accept(22), Accept(443)>>)]
       [] c = "open" -> [Good EXCEPT !.firewall = Table("drop", <<Accept(22), Accept(443), Accept(5432)>>)]
       [] c = "closed" -> [Good EXCEPT !.firewall = Table("drop", <<Accept(22)>>)]
       [] c = "twice" -> [Good EXCEPT !.firewall = Table("drop", <<Accept(22), Accept(443), Accept(22)>>)]
       [] c = "flush" -> [Good EXCEPT !.firewall = {}]
       [] c = "public" -> [Good EXCEPT !.listeners = @ \cup {Listener("0.0.0.0", 5432)}]
       [] c = "elsewhere" -> [Good EXCEPT !.listeners = {Listener("::1", 5432)}]
       [] c = "rule" -> [Good EXCEPT !.alerting = Rules("err")]
       [] c = "silent" -> [Good EXCEPT !.alerting = {}]
       [] c = "stale" -> [Good EXCEPT !.environment =
                            {[component |-> "web", exists |-> TRUE, sha256 |-> "e0"]}]
       [] c = "edited" -> [Good EXCEPT !.configuration = {File("site", "c0")}]
       [] c = "removed" -> [Good EXCEPT !.configuration = {}]
       [] c = "full" -> [Good EXCEPT !.filesystems = {Root("ext4", 100, 85)}]
       [] c = "fullest" -> [Good EXCEPT !.filesystems = {Root("ext4", 100, 100)}]
       [] c = "worn" -> [Good EXCEPT !.smart = Smart(TRUE, {Disk(90, 0, 0)})]
       [] c = "media" -> [Good EXCEPT !.smart = Smart(TRUE, {Disk(10, 1, 0)})]
       [] c = "blind" -> [Good EXCEPT !.smart = Smart(FALSE, {})]
       [] c = "spare" -> [Good EXCEPT !.configuration = @ \cup {File("extra", "c9")}]
       [] OTHER -> Good]

MCWell == MCCondition \ {"full", "fullest", "worn", "media", "blind", "failed"}

(***************************************************************************)
(* Two contents of the project: `later` asks one file more of s1's type    *)
(* and has no database.                                                    *)
(***************************************************************************)

MCFleet == {"now", "later"}

Wanted(path, sha256) ==
  [path |-> path, desired |-> [k \in {"exists", "capture", "sha256"} |->
     CASE k = "exists" -> TRUE [] k = "capture" -> "hash" [] OTHER -> sha256]]
Type(id, wanted) ==
  [id |-> id,
   os |-> [distribution |-> "Debian", versions |-> {"12"}, manager |-> "systemd"],
   raid |-> {[level |-> "raid1", devices |-> 2, bytes |-> 8]},
   mounts |-> {[path |-> "/", filesystem |-> "ext4", bytes |-> 100]},
   packages |-> {[name |-> "nginx", version |-> {"1.22"}], [name |-> "cron", version |-> {}]},
   forbidden |-> {"telnetd"},
   services |-> {[name |-> "nginx", timer |-> FALSE, unit |-> Running],
                 [name |-> "backup", timer |-> TRUE, unit |-> Unit("active", "enabled")]},
   firewall |-> [declared |-> TRUE, allowed |-> <<<<443, "tcp">>>>],
   files |-> wanted]
Plain == [Type("t2", {}) EXCEPT !.raid = {}, !.firewall.declared = FALSE]
MCServerInventory(id, type) ==
  [id |-> id, environment |-> "production", serverType |-> type, port |-> 22, active |-> TRUE]
Inv(wanted, services) ==
  [servers |-> {MCServerInventory("s1", "t1"), MCServerInventory("s2", "t2")},
   serverTypes |-> {Type("t1", wanted), Plain},
   applications |-> {},
   components |-> {[id |-> "web", application |-> "shop", servers |-> {"s1"}]},
   services |-> services,
   loggingStacks |-> {[id |-> "logs", environment |-> "production", backend |-> "s1",
                       collectors |-> {"s1"}]},
   alertRules |-> {[id |-> "r1", environment |-> "production"]},
   domains |-> {[id |-> "www", proxy |-> "s1", origin |-> "s2", service |-> "nginx",
                 path |-> "site", proxied |-> FALSE, tls |-> TRUE, expected |-> {"200"}]}]
MCProjectOf ==
  [f \in MCFleet |->
     [inventory |->
        IF f = "now"
        THEN Inv({Wanted("site", "c1")},
                 {[id |-> "main", server |-> "s1", port |-> 5432, address |-> "127.0.0.1"]})
        ELSE Inv({Wanted("site", "c1"), Wanted("extra", "c9")}, {}),
      rendered |-> [c \in {"web"} |-> "e1"],
      deployed |-> [d \in MCDomain |->
                      {[server |-> "s1", path |-> "site", sha256 |-> "c1"]}]]]

(* What is as desired, read off the two projects by hand.                  *)
MCSound ==
  ({"now"} \X {"s1"} \X {"good", "failed", "full", "fullest", "worn", "media", "blind", "spare"})
  \cup ({"later"} \X {"s1"} \X {"spare"})
  \cup (MCFleet \X {"s2"} \X
          (MCCondition \ {"os", "old", "xfs", "tiny", "bare", "version", "telnet",
                          "stopped", "timer"}))

(* Off in an environment file alone.                                       *)
MCApart == {<<"now", "s1", "stale">>}

(***************************************************************************)
(* Routes, and what may happen.                                            *)
(***************************************************************************)

MCRoute == {"up", "down", "expiring", "astray", "nameless"}
Answer(public, origin) ==
  [raises |-> FALSE, sound |-> TRUE, dnsError |-> FALSE, edge |-> FALSE,
   proxyAddress |-> TRUE, valid |-> TRUE, expires |-> {100},
   origin |-> origin, public |-> public]
MCRouteOf ==
  [r \in MCRoute |->
     CASE r = "up" -> Answer("200", "200")
       [] r = "down" -> [Answer("none", "200") EXCEPT !.sound = FALSE]
       [] r = "expiring" -> [Answer("200", "200") EXCEPT !.sound = FALSE, !.expires = {2}]
       [] r = "astray" -> [Answer("200", "200") EXCEPT !.sound = FALSE, !.proxyAddress = FALSE]
       [] OTHER -> [Answer("none", "none") EXCEPT !.sound = FALSE, !.raises = TRUE]]

Budget(ticks, observes, probes, requests, changes, cuts) ==
  [ticks |-> ticks, observes |-> observes, probes |-> probes, requests |-> requests,
   changes |-> changes, cuts |-> cuts]
Start(fleet, condition, route, budget) ==
  [fleet |-> fleet, inspects |-> FALSE, left |-> budget, age |-> 3,
   hosts |-> [s \in MCServer |-> IF s = "s1" THEN condition ELSE "good"],
   routes |-> [d \in MCDomain |-> route],
   observed |-> [s \in MCServer |-> {}]]

(* An earlier `observe` that found both as they should be.                 *)
Seen(start) ==
  [start EXCEPT !.observed =
     [s \in MCServer |-> {[server |-> s, at |-> 0, is |-> "good",
                           type |-> IF s = "s1" THEN "t1" ELSE "t2"]}]]

MCChanges == {<<"s1", "stopped">>, <<"www", "down">>}
(* Each defect, observed and shown.                                        *)
Defects == {Start("now", c, "up", Budget(0, 1, 0, 1, 0, 0)) : c \in MCCondition}
             \cup {Start("later", c, "up", Budget(0, 1, 0, 1, 0, 0)) :
                     c \in {"good", "spare", "open"}}
(* Runs of `observe` that are cut off, while a server or the project changes.*)
Observing == {Start("now", "good", "up", Budget(2, 2, 0, 0, 1, 1))}
(* Pages served from older and newer evidence while something changes.     *)
Serving == {Seen(Start("now", "good", "up", Budget(3, 0, 0, 2, 1, 0))),
            Seen(Start("now", "good", "up", Budget(2, 1, 0, 1, 1, 0)))}
(* Routes inspected by the dashboard and by a command.                     *)
Inspected(start) == [Seen(start) EXCEPT !.inspects = TRUE]
Routing == {Inspected(Start("now", "good", r, Budget(1, 0, 1, 1, 0, 0))) : r \in MCRoute}
             \cup {Inspected(Start("now", "good", "up", Budget(2, 0, 1, 1, 1, 0))),
                   Inspected(Start("now", "good", "up", Budget(3, 0, 0, 2, 1, 0)))}
Cutting == {Inspected(Start("now", "good", "up", Budget(0, 0, 2, 2, 0, 1)))}
MCStarts == Defects \cup Observing \cup Serving \cup Routing \cup Cutting

(***************************************************************************)
(* What the theorems about verdicts assume of Sound, Apart and Well: the   *)
(* judgement above held against the checks, one server and route at a time.*)
(***************************************************************************)

ASSUME JudgementAssumption == AuditIsSound /\ HealthIsSound /\ RouteIsSound
=============================================================================
