----------------------------- MODULE MCProject -----------------------------
(***************************************************************************)
(* Small projects for Project: two servers, a type, an application with a  *)
(* component, its database, a domain, a logging stack with a rule, a key   *)
(* and the operator policies.                                              *)
(***************************************************************************)
EXTENDS Project

MCId == {"s1", "s2", "t1", "spare", "shop", "web", "api", "www", PostgresId,
         "k1", "logs", "logs2", "r1", "p1", "jobs", "old", "production", "staging"}
MCPort == {22, 2222, 5432, 8100, 8101}
MCName == {"a", "b", "shop.example"}

S(id, env, net, port) ==
  [kind |-> "server", id |-> id, environment |-> env, serverType |-> "t1",
   port |-> port, network |-> net]
Type(rules) ==
  [Baseline("t1") EXCEPT !.firewall = [declared |-> TRUE, allowed |-> rules]]
Shop(components) ==
  [kind |-> "application", id |-> "shop", user |-> "shop", components |-> components]
Web(servers, root) ==
  [kind |-> "component", id |-> "web", application |-> "shop", servers |-> servers,
   root |-> [of |-> root, below |-> TRUE]]
Pg(env, names) ==
  [kind |-> "service", id |-> PostgresId, serviceKind |-> "postgresql",
   environment |-> env, server |-> "s1", port |-> 5432,
   databases |-> [i \in DOMAIN names |-> [name |-> names[i], application |-> "shop"]]]
K1 == [kind |-> "sshKey", id |-> "k1", environment |-> "production",
       active |-> TRUE, canonical |-> TRUE]
Stack(id, env, backend) ==
  [kind |-> "loggingStack", id |-> id, environment |-> env, backend |-> backend,
   collectors |-> {backend},
   files |-> <<[id |-> "web", servers |-> {backend}, application |-> {"shop"},
                component |-> {"web"}]>>,
   secrets |-> <<[path |-> "a", below |-> TRUE], [path |-> "b", below |-> TRUE]>>,
   listeners |-> <<8100, 8101>>]
Rule == [kind |-> "alertRule", id |-> "r1", environment |-> "production"]
Policy(id) == [kind |-> "policy", id |-> id, environment |-> "production"]

Options(f) ==
  CASE f = <<"server", "s2">> -> {S("s2", "staging", "none", 2222),
                                  S("s2", "production", "loose", 2222)}
    [] f = <<"serverType", "t1">> -> {Absent, Type(<<<<22, "tcp">>, <<22, "tcp">>>>)}
    [] f = <<"application", "shop">> -> {Shop({}), Absent}
    [] f = <<"component", "web">> -> {Web({"s1"}, "web")}
    [] f = <<"service", PostgresId>> -> {Pg("production", <<"a", "a">>)}
    [] f = <<"loggingStack", "logs2">> -> {Absent, Stack("logs2", "production", "s2")}
    [] OTHER -> {}

MCPath ==
  {<<"server", "s1">>, <<"server", "s2">>, <<"serverType", "t1">>,
   <<"serverType", "spare">>, <<"application", "shop">>, <<"component", "web">>,
   <<"component", "api">>, <<"domain", "www">>, <<"service", PostgresId>>,
   <<"loggingStack", "logs">>, <<"loggingStack", "logs2">>, <<"alertRule", "r1">>,
   <<"policy", "p1">>, <<"sshKey", "k1">>}

Empty == [f \in MCPath |-> Absent]

(* The first days of a project: one key; the type in a file of another     *)
(* name; another type in its file; one server.                             *)
Fresh == [Empty EXCEPT ![<<"sshKey", "k1">>] = K1]
Renamed == [Fresh EXCEPT ![<<"serverType", "spare">>] = Type(<<>>)]
Mislabelled == [Fresh EXCEPT ![<<"serverType", "t1">>] = [Type(<<>>) EXCEPT !.id = "spare"]]
Hosted == [Fresh EXCEPT ![<<"serverType", "t1">>] = Type(<<>>),
                        ![<<"server", "s1">>] = S("s1", "production", "none", 22)]

(* The coherent project, and every project at most one file away from it.  *)
Full == [f \in MCPath |->
  CASE f = <<"server", "s1">> -> S("s1", "production", "canonical", 22)
    [] f = <<"server", "s2">> -> S("s2", "production", "none", 2222)
    [] f = <<"serverType", "t1">> -> Type(<<<<22, "tcp">>>>)
    [] f = <<"application", "shop">> -> Shop({"web"})
    [] f = <<"component", "web">> -> Web({"s1"}, "shop")
    [] f = <<"service", PostgresId>> -> Pg("production", <<"a">>)
    [] f = <<"loggingStack", "logs">> -> Stack("logs", "production", "s1")
    [] f = <<"alertRule", "r1">> -> Rule
    [] f = <<"policy", "p1">> -> Policy("p1")
    [] OTHER -> Absent]
Near == UNION {{[Full EXCEPT ![f] = x] : x \in Options(f)} : f \in MCPath}

MCProjects == Near \cup {Fresh, Renamed, Mislabelled, Hosted}
MCFirst == {Fresh}

MCAdditions ==
  {S("s1", "production", "none", 22), S("s2", "production", "none", 22), Baseline("t1"), K1}
MCServers == {S("s1", "production", "none", 22), S("s2", "production", "none", 22)}

MCEdits == {<<<<"serverType", "t1">>, Absent>>}

Value(key, port) == [source |-> "value", key |-> key, port |-> port]
Entry(source, key) == [source |-> source, key |-> key, port |-> 0]
Service(name, slug, type, env) ==
  [name |-> name, slug |-> slug, type |-> type, runtime |-> "python", repo |-> TRUE,
   start |-> TRUE, versioned |-> TRUE, healthPath |-> FALSE, env |-> env,
   domains |-> <<[name |-> "shop.example", slug |-> {"www"}]>>]
Database(name, slug) ==
  [name |-> name, slug |-> {slug}, user |-> FALSE, version |-> TRUE]
Groups == [g \in {"common"} |-> <<Value("KEY", 0), Entry("connection", "URL")>>]

MCBlueprints ==
  {[services |-> <<Service("Web", {"web"}, "web", <<Entry("group", "common"),
                                                    Value("PORT", 8101)>>),
                   [Service("Jobs", {"jobs"}, "cron", <<>>) EXCEPT !.domains = <<>>]>>,
    databases |-> <<Database("main", "a"), Database("other", "b")>>,
    groups |-> Groups],
   [services |-> <<[Service("Web", {"web"}, "web", <<>>) EXCEPT !.domains = <<>>],
                   [Service("Api", {"api"}, "pserv", <<Entry("prompt", "TOKEN")>>)
                      EXCEPT !.domains = <<>>],
                   [Service("Old", {"old"}, "web", <<>>) EXCEPT !.repo = FALSE]>>,
    databases |-> <<Database("main", "a"), Database("other", "a")>>,
    groups |-> Groups],
   [services |-> <<Service("Web", {"web"}, "web", <<>>),
                   Service("WEB", {"web"}, "worker", <<Entry("group", "none")>>)>>,
    databases |-> <<>>, groups |-> Groups]}
MCTargets == [application |-> "shop", server |-> "s1"]

Host(name, declared, catalog) ==
  [name |-> name, declared |-> declared, catalog |-> catalog, port |-> 22,
   defaults |-> [f \in {"serverType", "environment"} |->
                   IF f = "serverType" THEN "t1" ELSE "production"]]
Staging == [f \in {"environment"} |-> "staging"]
Catalog(rules) == [t \in {"t1"} |-> Type(rules)]
MCFleets ==
  {{Host("s1", {Staging}, Catalog(<<>>)), Host("s2", {}, Catalog(<<<<22, "tcp">>>>))},
   {Host("s1", {Staging}, Catalog(<<>>)),
    Host("s2", {Staging}, Catalog(<<<<22, "tcp">>>>))},
   {Host("s1", {Staging}, [t \in {} |-> Baseline("t1")])},
   {Host("s1", {}, Catalog(<<>>))}}
=============================================================================
