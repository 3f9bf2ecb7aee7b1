------------------------------ MODULE Evidence ------------------------------
(***************************************************************************)
(* Evidence and what is shown of it.  `observe` runs the inspection        *)
(* playbook over the fleet and leaves one snapshot file for each server;   *)
(* `services observe` and the dashboard probe the routes of the domains    *)
(* and write a file for each; `audit` compares the snapshots with the      *)
(* project; `dashboard serve` builds the operations view from all of it,   *)
(* at most once in a refresh interval, and serves it to many threads.      *)
(* Meanwhile time passes, servers and routes change, people edit the       *)
(* project, and processes are killed.                                      *)
(***************************************************************************)
EXTENDS Operations

CONSTANTS
  Server, Domain,       \* ids of the servers and domains there are
  Condition, FactsOf,   \* how a server may be, and what an inspection reads
  Route, RouteOf,       \* how a route may be, and what a probe reads
  Fleet, ProjectOf,     \* valid contents of the project: the inventory, and the
                        \* receipts of environments and deployments beside it
  Starts,               \* what the fleet may be at first and for how long it has
                        \* been so, the snapshots there are, whether the dashboard
                        \* inspects, and how often what may happen
  Changes,              \* <<server, condition>>, <<domain, route>> to come
  Sound, Apart, Well,   \* the <<fleet, server, condition>> as desired, those off
                        \* in nothing but an environment file, and the conditions
                        \* that leave nothing to do
  Thread, Observer, Prober,
  Refresh               \* seconds a built view is served for

Broken == "broken"      \* a project that does not validate

(* What is bounded: time, commands, requests, changes, kills.              *)
Bounded == {"ticks", "observes", "probes", "requests", "changes", "cuts"}

(* What a snapshot file holds.                                             *)
TypeIds == UNION {{s.serverType : s \in ProjectOf[f].inventory.servers} : f \in Fleet}
Snapshot == [server : Server, at : Int, is : Condition, type : TypeIds]

ASSUME EvidenceAssumption ==
  /\ Refresh \in Nat \ {0}
  /\ Thread \cap Prober = {}
  /\ \A f \in Fleet :
       /\ {s.id : s \in ProjectOf[f].inventory.servers} \subseteq Server
       /\ {d.id : d \in ProjectOf[f].inventory.domains} \subseteq Domain
  /\ Sound \cup Apart \subseteq Fleet \X Server \X Condition
  /\ Well \subseteq Condition
  /\ \A start \in Starts : \A what \in Bounded : start.left[what] \in Nat
  /\ \A start \in Starts :
       /\ start.fleet \in Fleet \cup {Broken}
       /\ start.hosts \in [Server -> Condition]
       /\ start.routes \in [Domain -> Route]
       /\ start.age \in Nat
       /\ DOMAIN start.observed = Server

(* A snapshot an earlier `observe` left shows how its server was then.     *)
ASSUME SnapshotAssumption ==
  \A start \in Starts : \A s \in Server : \A x \in start.observed[s] :
    /\ start.observed[s] = {x} /\ x \in Snapshot /\ x.server = s
    /\ x.at <= 0 /\ (-start.age < x.at => x.is = start.hosts[s])

ASSUME RouteAssumption == \A r \in Route : RouteOf[r].expires \subseteq Int

Blank == "blank"        \* an empty file
Torn == "torn"          \* a file with a mixture of two contents
Inspector == Thread \cup Prober

VARIABLES
  clock,
  project,      \* [is, since]: what the project holds
  hosts,        \* [is, since] of each server
  routes,       \* [is, since] of each domain
  observed,     \* the snapshot file of each server
  evidence,     \* the observation file of each domain
  temporary,    \* the file beside it that is written first
  overlapped,   \* whether two inspections of routes ever ran at once
  dashboard,    \* the serving process: lock and cached view
  threads,      \* its request handlers
  observers,    \* `observe` runs
  inspections,  \* what each inspector of routes is at
  left          \* how often each bounded thing may still happen

vars == <<clock, project, hosts, routes, observed, evidence, temporary, overlapped,
          dashboard, threads, observers, inspections, left>>

world == <<clock, project, hosts, routes>>
files == <<observed, evidence, temporary, overlapped>>
serving == <<dashboard, threads>>

NoThread ==
  [step |-> "idle", arrived |-> 0, now |-> 0, read |-> 0, fleet |-> Broken,
   snapshots |-> {}, domains |-> {}, reply |-> "none", shown |-> {}]
NoObserver ==
  [step |-> "idle", begun |-> 0, fleet |-> Broken, requested |-> {}, todo |-> {},
   gathered |-> {}, result |-> "none"]
NoInspection == [step |-> "idle", todo |-> {}, route |-> "none", in |-> "temporary"]
Down == [up |-> FALSE, inspects |-> FALSE, holder |-> {}, cached |-> {}]

Init ==
  /\ clock = 0
  /\ \E start \in Starts :
       /\ project = [is |-> start.fleet, since |-> -start.age]
       /\ hosts = [s \in Server |-> [is |-> start.hosts[s], since |-> -start.age]]
       /\ routes = [d \in Domain |-> [is |-> start.routes[d], since |-> -start.age]]
       /\ observed = start.observed
       /\ dashboard = [Down EXCEPT !.inspects = start.inspects]
       /\ left = start.left
  /\ evidence = [d \in Domain |-> {}]
  /\ temporary = [d \in Domain |-> {}]
  /\ overlapped = FALSE
  /\ threads = [t \in Thread |-> NoThread]
  /\ observers = [o \in Observer |-> NoObserver]
  /\ inspections = [i \in Inspector |-> NoInspection]

Spend(what) ==
  /\ left[what] > 0
  /\ left' = [left EXCEPT ![what] = @ - 1]

Inventory(fleet) == ProjectOf[fleet].inventory

(***************************************************************************)
(* The world.                                                              *)
(***************************************************************************)

Tick ==
  /\ Spend("ticks")
  /\ clock' = clock + 1
  /\ UNCHANGED <<project, hosts, routes, files, serving, observers, inspections>>

Change ==
  /\ Spend("changes")
  /\ \/ \E f \in (Fleet \cup {Broken}) \ {project.is} :
          project' = [is |-> f, since |-> clock] /\ UNCHANGED <<hosts, routes>>
     \/ \E s \in Server, c \in Condition :
          /\ <<s, c>> \in Changes /\ c # hosts[s].is
          /\ hosts' = [hosts EXCEPT ![s] = [is |-> c, since |-> clock]]
          /\ UNCHANGED <<project, routes>>
     \/ \E d \in Domain, r \in Route :
          /\ <<d, r>> \in Changes /\ r # routes[d].is
          /\ routes' = [routes EXCEPT ![d] = [is |-> r, since |-> clock]]
          /\ UNCHANGED <<project, hosts>>
  /\ UNCHANGED <<clock, files, serving, observers, inspections>>

(***************************************************************************)
(* `observe`.  The playbook takes the hosts one at a time and ends at the  *)
(* first that fails; copying a snapshot to the controller is atomic.       *)
(***************************************************************************)

(* requested_servers: all of the fleet, or those a --limit leaves.         *)
BeginObserve(o) ==
  /\ observers[o].step = "idle" /\ project.is # Broken
  /\ Spend("observes")
  /\ \E requested \in SUBSET {s.id : s \in Inventory(project.is).servers} \ {{}} :
       observers' = [observers EXCEPT ![o] =
         [NoObserver EXCEPT !.step = "playing", !.begun = clock, !.fleet = project.is,
                            !.requested = requested, !.todo = requested]]
  /\ UNCHANGED <<world, files, serving, inspections>>

(* The snapshot carries the time facts were gathered at, and the type the  *)
(* overlay gave the server.                                                *)
Gather(o) ==
  LET me == observers[o]
  IN  /\ me.step = "playing" /\ me.gathered = {}
      /\ \E s \in me.todo :
           observers' = [observers EXCEPT ![o].gathered =
             {[server |-> s, at |-> clock, is |-> hosts[s].is,
               type |-> Named(Inventory(me.fleet).servers, s).serverType]}]
      /\ UNCHANGED <<world, files, serving, inspections, left>>

WriteSnapshot(o) ==
  \E found \in observers[o].gathered :
    /\ observed' = [observed EXCEPT ![found.server] = {found}]
    /\ observers' = [observers EXCEPT ![o].gathered = {},
                                      ![o].todo = @ \ {found.server}]
    /\ UNCHANGED <<world, evidence, temporary, overlapped, serving, inspections, left>>

(* Mutant: a snapshot there is enough.                                     *)
CompleteIfFound(failed, requested) == \A s \in requested : observed[s] # {}

Complete(failed, requested) ==
  ~failed /\ \A s \in requested : observed[s] # {}

EndsWith(o, failed) ==
  observers' = [observers EXCEPT ![o] =
    [NoObserver EXCEPT !.begun = observers[o].begun,
       !.requested = observers[o].requested,
       !.result = IF Complete(failed, observers[o].requested)
                  THEN "ok" ELSE "incomplete"]]

EndObserve(o) ==
  /\ observers[o].step = "playing"
  /\ \/ observers[o].todo = {} /\ EndsWith(o, FALSE)
     \/ observers[o].todo # {} /\ EndsWith(o, TRUE)
  /\ UNCHANGED <<world, files, serving, inspections, left>>

CutObserve(o) ==
  /\ observers[o].step = "playing"
  /\ Spend("cuts")
  /\ observers' = [observers EXCEPT ![o] = NoObserver]
  /\ UNCHANGED <<world, files, serving, inspections>>

(***************************************************************************)
(* Inspecting routes: for each domain in turn, probe, write the temporary  *)
(* file of a fixed name, and put it in place.                              *)
(***************************************************************************)

Inspecting(i) == inspections[i].step # "idle"
Current(i) == CHOOSE d \in inspections[i].todo : TRUE

(* inspect_domains is called by a handler or by `services observe`.        *)
Inspect(i, domains) ==
  /\ inspections' = [inspections EXCEPT ![i] =
                       [NoInspection EXCEPT !.step = "probing", !.todo = domains]]
  /\ overlapped' = (overlapped \/ \E j \in Inspector \ {i} : Inspecting(j))

DomainsOf(fleet) == {d.id : d \in Inventory(fleet).domains}

BeginProbe(p) ==
  /\ ~Inspecting(p) /\ project.is # Broken
  /\ Spend("probes")
  /\ Inspect(p, DomainsOf(project.is))
  /\ UNCHANGED <<world, observed, evidence, temporary, serving, observers>>

CutProbe(p) ==
  /\ Inspecting(p)
  /\ Spend("cuts")
  /\ inspections' = [inspections EXCEPT ![p] = NoInspection]
  /\ UNCHANGED <<world, files, serving, observers>>

(* The lock is released on the way out of a handler, built or not.         *)
Replied(t, reply, shown) ==
  [threads EXCEPT ![t] = [NoThread EXCEPT !.arrived = threads[t].arrived,
                                          !.reply = reply, !.shown = shown]]

Leave(t, reply, shown) ==
  /\ threads' = Replied(t, reply, shown)
  /\ dashboard' = [dashboard EXCEPT !.holder = {}]

(* Mutant: an exception leaves it locked.                                  *)
RaiseLocked(t, reply) ==
  /\ threads' = Replied(t, reply, {})
  /\ UNCHANGED dashboard

(* A project or evidence that does not validate is answered with an error; *)
(* any other exception drops the connection.                               *)
Raise(t, reply) == Leave(t, reply, {})

EndInspection(i) == inspections' = [inspections EXCEPT ![i] = NoInspection]

InspectionRaises(i) ==
  /\ EndInspection(i)
  /\ IF i \in Thread THEN Raise(i, "dropped") ELSE UNCHANGED serving

Probe(i) ==
  /\ inspections[i].step = "probing"
  /\ inspections[i].todo # {}
  /\ LET found == routes[Current(i)].is
     IN  IF RouteOf[found].raises
         THEN InspectionRaises(i)
         ELSE /\ inspections' = [inspections EXCEPT ![i].step = "opening",
                                                    ![i].route = found]
              /\ UNCHANGED serving
  /\ UNCHANGED <<world, files, observers, left>>

(* Mutant: the file itself is opened.                                      *)
OpenTemporaryInPlace(i) ==
  /\ inspections[i].step = "opening"
  /\ evidence' = [evidence EXCEPT ![Current(i)] = {Blank}]
  /\ inspections' = [inspections EXCEPT ![i].step = "filling", ![i].in = "file"]
  /\ UNCHANGED <<world, observed, temporary, overlapped, serving, observers, left>>

OpenTemporary(i) ==
  /\ inspections[i].step = "opening"
  /\ temporary' = [temporary EXCEPT ![Current(i)] = {Blank}]
  /\ inspections' = [inspections EXCEPT ![i].step = "filling", ![i].in = "temporary"]
  /\ UNCHANGED <<world, observed, evidence, overlapped, serving, observers, left>>

(* What is written lands over what another process wrote to the same file. *)
Filled(content, route) ==
  IF content \subseteq {Blank} THEN {{route}} ELSE {{route}, {Torn}}

FillTemporary(i) ==
  LET me == inspections[i]
      d == Current(i)
  IN  /\ me.step = "filling"
      /\ \/ me.in = "temporary" /\ UNCHANGED evidence
            /\ \E c \in Filled(temporary[d], me.route) :
                 temporary' = [temporary EXCEPT ![d] = c]
         \/ me.in = "file" /\ UNCHANGED temporary
            /\ \E c \in Filled(evidence[d], me.route) :
                 evidence' = [evidence EXCEPT ![d] = c]
         \/ me.in = "gone" /\ UNCHANGED <<temporary, evidence>>
      /\ inspections' = [inspections EXCEPT ![i].step = "replacing"]
      /\ UNCHANGED <<world, observed, overlapped, serving, observers, left>>

(* Others that write to either file now write to the one it has become.    *)
Moved(i, d) ==
  [j \in Inspector |->
     IF j = i
     THEN [NoInspection EXCEPT !.step = "probing", !.todo = inspections[i].todo \ {d}]
     ELSE IF inspections[j].step = "filling" /\ Current(j) = d
     THEN [inspections[j] EXCEPT !.in = IF @ = "temporary" THEN "file" ELSE "gone"]
     ELSE inspections[j]]

ReplaceFile(i) ==
  LET d == Current(i)
  IN  /\ inspections[i].step = "replacing"
      /\ IF temporary[d] = {}
         THEN InspectionRaises(i) /\ UNCHANGED <<evidence, temporary>>
         ELSE /\ evidence' = [evidence EXCEPT ![d] = temporary[d]]
              /\ temporary' = [temporary EXCEPT ![d] = {}]
              /\ inspections' = Moved(i, d)
              /\ UNCHANGED serving
      /\ UNCHANGED <<world, observed, overlapped, observers, left>>

(* `services observe` answers once every domain has its file.              *)
EndProbe(p) ==
  /\ inspections[p].step = "probing" /\ inspections[p].todo = {}
  /\ EndInspection(p)
  /\ UNCHANGED <<world, files, serving, observers, left>>

(***************************************************************************)
(* `dashboard serve`.  The first view is built before the server listens.  *)
(***************************************************************************)

Request(t) ==
  /\ threads[t].step = "idle"
  /\ Spend("requests")
  /\ dashboard.up \/ \A other \in Thread : threads[other].step = "idle"
  /\ threads' = [threads EXCEPT ![t] =
                   [NoThread EXCEPT !.step = "waiting", !.arrived = clock]]
  /\ UNCHANGED <<world, files, dashboard, observers, inspections>>

(* SnapshotCache.current, once it has the lock.                            *)
Enter(t) ==
  /\ threads[t].step = "waiting" /\ dashboard.holder = {}
  /\ LET current == {c \in dashboard.cached : clock - c.builtAt < Refresh}
     IN  \/ \E c \in current : Leave(t, "view", {c.view})
         \/ /\ current = {}
            /\ dashboard' = [dashboard EXCEPT !.holder = {t}]
            /\ threads' = [threads EXCEPT ![t].step = "validating", ![t].now = clock]
  /\ UNCHANGED <<world, files, observers, inspections, left>>

(* operations_view: the project is read first, and its routes inspected.   *)
ReadProject(t) ==
  /\ threads[t].step = "validating"
  /\ IF project.is = Broken
     THEN Raise(t, "invalid") /\ UNCHANGED <<inspections, overlapped>>
     ELSE /\ threads' = [threads EXCEPT ![t].fleet = project.is, ![t].read = clock,
                                        ![t].step = "loading"]
          /\ IF dashboard.inspects
             THEN Inspect(t, DomainsOf(project.is))
             ELSE UNCHANGED <<inspections, overlapped>>
          /\ UNCHANGED dashboard
  /\ UNCHANGED <<world, observed, evidence, temporary, observers, left>>

EndInspect(t) == threads[t].step = "loading" /\ inspections[t].todo = {}

LoadObserved(t) ==
  /\ EndInspect(t)
  /\ threads' = [threads EXCEPT ![t].snapshots = {observed}, ![t].step = "loaded"]
  /\ EndInspection(t)
  /\ UNCHANGED <<world, files, dashboard, observers, left>>

(* A file that is no JSON document fails the build.                        *)
LoadDomains(t) ==
  /\ threads[t].step = "loaded"
  /\ IF \E d \in Domain : evidence[d] \cap {Blank, Torn} # {}
     THEN Raise(t, "invalid")
     ELSE /\ threads' = [threads EXCEPT ![t].domains = {evidence}, ![t].step = "viewing"]
          /\ UNCHANGED dashboard
  /\ UNCHANGED <<world, files, observers, inspections, left>>

Facts(snapshot) ==
  {[type |-> x.type, at |-> x.at, facts |-> FactsOf[x.is]] : x \in snapshot}

(* What a view shows: it is determined by the evidence it was built from.  *)
Shown(view) ==
  OperationsView(Inventory(view.fleet),
                 [s \in Server |-> Facts(view.snapshots[s])],
                 ProjectOf[view.fleet].deployed,
                 [d \in Domain |-> {RouteOf[r] : r \in view.domains[d]}], view.at)

(* Mutant: the view counts as new when it is ready.                        *)
CachedWhenReady(t, view) == [view |-> view, builtAt |-> clock]

(* The age of a view counts from when its build began.                     *)
Cached(t, view) == [view |-> view, builtAt |-> threads[t].now]

BuildView(t) ==
  LET me == threads[t]
  IN  /\ me.step = "viewing"
      /\ \E snapshots \in me.snapshots, domains \in me.domains :
           LET view == [fleet |-> me.fleet, read |-> me.read, at |-> clock,
                        snapshots |-> snapshots, domains |-> domains]
           IN  /\ threads' = Replied(t, "view", {view})
               /\ dashboard' = [dashboard EXCEPT !.holder = {}, !.up = TRUE,
                                                 !.cached = {Cached(t, view)}]
      /\ UNCHANGED <<world, files, observers, inspections, left>>

CutDashboard ==
  /\ dashboard.up
  /\ Spend("cuts")
  /\ dashboard' = [Down EXCEPT !.inspects = dashboard.inspects]
  /\ threads' = [t \in Thread |-> NoThread]
  /\ inspections' = [i \in Inspector |->
                       IF i \in Thread THEN NoInspection ELSE inspections[i]]
  /\ UNCHANGED <<world, files, observers>>

(***************************************************************************)
(* The whole.  People stop starting commands and opening pages.            *)
(***************************************************************************)

InspectStep(i) ==
  Probe(i) \/ OpenTemporary(i) \/ FillTemporary(i) \/ ReplaceFile(i)

Handle(t) ==
  \/ Enter(t) \/ ReadProject(t) \/ InspectStep(t)
  \/ LoadObserved(t) \/ LoadDomains(t) \/ BuildView(t)

(* The modelled time is over and everybody has stopped.                    *)
Done ==
  /\ left.ticks = 0
  /\ \A o \in Observer : observers[o].step = "idle"
  /\ \A p \in Prober : ~Inspecting(p)
  /\ \A t \in Thread : threads[t].step = "idle"
  /\ UNCHANGED vars

Next ==
  \/ Tick \/ Change
  \/ \E o \in Observer :
       \/ BeginObserve(o) \/ Gather(o) \/ WriteSnapshot(o) \/ EndObserve(o)
       \/ CutObserve(o)
  \/ \E p \in Prober :
       BeginProbe(p) \/ InspectStep(p) \/ EndProbe(p) \/ CutProbe(p)
  \/ \E t \in Thread : Request(t) \/ Handle(t)
  \/ CutDashboard
  \/ Done

Spec == Init /\ [][Next]_vars /\ \A t \in Thread : WF_vars(Handle(t))
-----------------------------------------------------------------------------
TypeOK ==
  /\ project.is \in Fleet \cup {Broken}
  /\ \A d \in Domain :
       {evidence[d], temporary[d]} \subseteq {{}} \cup {{c} : c \in Route \cup {Blank, Torn}}
  /\ \A t \in Thread :
       /\ threads[t].step \in {"idle", "waiting", "validating", "loading", "loaded",
                               "viewing"}
       /\ threads[t].step \notin {"idle", "waiting"} <=> dashboard.holder = {t}
       /\ Cardinality(threads[t].shown) <= 1

(* `audit` answers "compliant" (audit_inventory) only if the inspection    *)
(* found every declared server as the project wants it: no comparison is   *)
(* lost, passes for another server's facts, or is skipped for a server     *)
(* nobody observed.                                                        *)
CompliantIsSound ==
  project.is # Broken =>
    LET inv == Inventory(project.is)
    IN  AuditInventory(inv, [s \in Server |-> Facts(observed[s])],
                       ProjectOf[project.is].rendered) = "compliant"
          => \A s \in inv.servers :
               \E x \in observed[s.id] : <<project.is, s.id, x.is>> \in Sound

(* Since when a server is not what the project asks, or has work to do; a  *)
(* page does not compare the environment files that `audit` compares.      *)
OffSince(s) ==
  {Most({hosts[s].since, project.since}) :
     c \in {hosts[s].is} \ {c \in Well : <<project.is, s, c>> \in Sound \cup Apart}}

(* A page shows nothing as healthy that was known to be off for longer     *)
(* than the evidence and the page may be old: a server off its desired     *)
(* state for StaleWarning and Refresh when the request arrived is not      *)
(* healthy whatever raced with its build, and with --inspect-services a    *)
(* route that was down for Refresh is not either, unless two inspections   *)
(* overlapped.                                                             *)
ShownHealthIsTrue ==
  \A t \in Thread : \A view \in threads[t].shown :
    LET v == Shown(view)
        Known(since, age) == since <= threads[t].arrived - age
    IN  /\ \A s \in DOMAIN v.servers : v.servers[s] = "healthy" =>
             \A since \in OffSince(s) : ~Known(since, Refresh + StaleWarning)
        /\ \A d \in DOMAIN v.domains :
             /\ v.domains[d] = "healthy" /\ dashboard.inspects /\ ~overlapped
             /\ Known(routes[d].since, Refresh)
             => RouteOf[routes[d].is].sound

(* However many requests share a build, wait for it or see it fail, a page *)
(* was built from evidence read less than a refresh interval before its    *)
(* request arrived.                                                        *)
ServedIsRecent ==
  \A t \in Thread : \A v \in threads[t].shown : v.read > threads[t].arrived - Refresh

(* `observe` answers "ok" only if each server it was asked for has a       *)
(* snapshot of this run, not one that an earlier run left behind: the      *)
(* playbook may end at any host.                                           *)
OkMeansObserved ==
  \A o \in Observer : observers[o].result = "ok" =>
    \A s \in observers[o].requested : \E x \in observed[s] : x.at >= observers[o].begun

(* A route's evidence file is a whole document whenever it can be read,    *)
(* through kills and leftover temporary files, as long as no two           *)
(* inspections overlap (they share the temporary file's name).             *)
EvidenceIsWhole ==
  ~overlapped => \A d \in Domain : evidence[d] \subseteq Route

(* Every request is answered, refused or dropped: a build that raises does *)
(* not keep the others waiting for its lock.                               *)
RequestsAreAnswered ==
  \A t \in Thread : threads[t].step = "waiting" ~> threads[t].step = "idle"

(***************************************************************************)
(* What Sound, Apart and Well have to do with the checks: of one server,   *)
(* and one snapshot taken and judged at once, a verdict is not mistaken.   *)
(***************************************************************************)

Fresh(c, type) == {[type |-> type, at |-> 0, facts |-> FactsOf[c]]}

AuditIsSound ==
  \A f \in Fleet : \A s \in Inventory(f).servers :
    \A c \in Condition, type \in TypeIds :
      ServerAudit(Inventory(f), s, ProjectOf[f].rendered, Fresh(c, type)) = "compliant"
        => <<f, s.id, c>> \in Sound

HealthIsSound ==
  \A f \in Fleet : \A s \in Inventory(f).servers :
    \A c \in Condition, type \in TypeIds :
      ServerHealth(Inventory(f), s, Fresh(c, type), 0) = "healthy"
        => c \in Well /\ <<f, s.id, c>> \in Sound \cup Apart

RouteIsSound ==
  \A f \in Fleet : \A d \in Inventory(f).domains : \A r \in Route :
    DomainChecks(d, {RouteOf[r]}, 0) \subseteq {"healthy"} => RouteOf[r].sound
=============================================================================
