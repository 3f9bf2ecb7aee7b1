------------------------------ MODULE Project ------------------------------
(***************************************************************************)
(* A project directory and the commands that run in it: `add` writes       *)
(* documents, validates the whole project and takes back what it wrote     *)
(* when that fails; `import` writes the documents of a Render blueprint,   *)
(* here with the project as its --output-dir (a person copying its         *)
(* fragments from tmp/import/config comes to the same);                    *)
(* every other command starts by reading and validating the project, or a  *)
(* fleet that a team's own Ansible inventory declares.  Files are written  *)
(* and read one at a time, while a person edits them and commands run.     *)
(***************************************************************************)
EXTENDS Rendering, RenderImport

CONSTANTS
  Author, Reader,   \* processes that run commands, those that write and others
  Path,             \* files, <<kind of the directory, name>>
  Projects,         \* contents the project may start with
  Additions,        \* documents a person asks `add` for
  Blueprints,       \* Render blueprints to import
  Fleets,           \* Ansible inventories to read
  Edits,            \* <<path, content>> a person may write by hand
  MaxCommands, MaxEdits, MaxKills,
  WritesFail        \* whether a write may fail

ASSUME PathAssumption == \A f \in Path : f \in Kinds \X Id
ASSUME BoundAssumption ==
  {MaxCommands, MaxEdits, MaxKills} \subseteq Nat /\ WritesFail \in BOOLEAN

Process == Author \cup Reader

Absent == [kind |-> "absent"]
Blank == [kind |-> "blank"]      \* an empty file: YAML with no document in it
Torn == [kind |-> "torn"]        \* the first part of a document

MayHold(content) == content \in {Absent, Blank, Torn} \/ IsDocument(content)

(* baseline_server_type_document.                                          *)
Baseline(id) ==
  [kind |-> "serverType", id |-> id,
   lists |-> [l \in {"mounts", "packages", "services"} |-> <<>>],
   files |-> <<>>,
   firewall |-> [declared |-> TRUE, allowed |-> <<>>]]

(* What `add` builds: a server, a baseline server type or a key.           *)
IsAddition(d) ==
  \/ d \in Servers /\ ServerNetworkOK(d)
  \/ d \in ServerTypes /\ d = Baseline(d.id)
  \/ d \in SshKeys /\ SshKeyOK(d)

(* What reaches the commands is well formed: the schemas of single fields  *)
(* have been checked.                                                      *)
ASSUME ContentsAssumption ==
  /\ \A contents \in Projects :
       DOMAIN contents = Path /\ \A f \in Path : MayHold(contents[f])
  /\ \A d \in Additions : IsAddition(d)
  /\ \A b \in Blueprints : IsBlueprint(b)
  /\ \A hosts \in Fleets : \A h \in hosts :
       /\ h.name \in Id /\ h.port \in Port
       /\ \A t \in DOMAIN h.catalog : h.catalog[t] \in ServerTypes
       /\ h.declared # {} =>
            {MergedDeclaration(h).environment, MergedDeclaration(h).serverType} \subseteq Id
  /\ \A edit \in Edits : MayHold(edit[2])

VARIABLES
  files,            \* what each path holds
  proc,             \* the command each process runs, or ran last
  commands, edits, kills

vars == <<files, proc, commands, edits, kills>>

Nothing == [f \in {} |-> Absent]

NoCommand ==
  [command |-> "none", step |-> "idle", plan |-> <<>>, written |-> <<>>,
   unread |-> {}, loaded |-> Nothing, before |-> Nothing,
   blueprints |-> {}, calm |-> TRUE, lost |-> FALSE, outcome |-> "none"]

Init ==
  /\ files \in Projects
  /\ proc = [p \in Process |-> NoCommand]
  /\ commands = 0 /\ edits = 0 /\ kills = 0

Held(contents) == {f \in DOMAIN contents : contents[f] # Absent}

(* The documents a directory's files load as; a torn file does not load.   *)
LoadedFrom(contents) ==
  [f \in {g \in DOMAIN contents : contents[g] \notin {Absent, Blank, Torn}} |->
     contents[f]]

Loadable(contents) ==
  /\ Held(contents) # {}
  /\ \A f \in DOMAIN contents : contents[f] # Torn
  /\ Valid(LoadedFrom(contents))

PathOf(d) == <<d.kind, d.id>>

(* The files commands write are among those modelled.                      *)
ASSUME WritesAssumption ==
  /\ \A d \in Additions :
       /\ PathOf(d) \in Path
       /\ d.kind = "server" => <<"serverType", d.serverType>> \in Path
  /\ \A b \in Blueprints :
       LET result == Imported(b, Targets)
       IN  \A i \in DOMAIN result.documents : PathOf(result.documents[i]) \in Path

(***************************************************************************)
(* Starting a command.                                                     *)
(***************************************************************************)

Active(p) == proc[p].step # "idle"

(* A record with other values of some of its fields.                       *)
With(record, fields) ==
  [field \in DOMAIN record |->
     IF field \in DOMAIN fields THEN fields[field] ELSE record[field]]

Start(p, command, fields) ==
  /\ ~Active(p)
  /\ commands < MaxCommands
  /\ commands' = commands + 1
  /\ proc' = [proc EXCEPT ![p] =
                With([NoCommand EXCEPT !.command = command, !.before = files], fields)]
  /\ UNCHANGED <<files, edits, kills>>

(* add_server brings the baseline type along when no file is named for it. *)
Planned(d) ==
  IF d.kind = "server" /\ files[<<"serverType", d.serverType>>] = Absent
  THEN <<Baseline(d.serverType), d>>
  ELSE <<d>>

(* _commit up to its first write: every planned path must be free.         *)
BeginAdd(p) ==
  \E d \in Additions :
    IF \E i \in DOMAIN Planned(d) : files[PathOf(Planned(d)[i])] # Absent
    THEN Start(p, "add", [outcome |-> "exists"])
    ELSE Start(p, "add", [step |-> "writing", plan |-> Planned(d)])

BeginImport(p) ==
  \E b \in Blueprints :
    LET result == Imported(b, Targets)
    IN  IF result.failed
        THEN Start(p, "import", [outcome |-> "refused"])
        ELSE Start(p, "import", [step |-> "writing", plan |-> result.documents,
                                 blueprints |-> {b}])

BeginRead(p) == Start(p, "read", [step |-> "listing"])

ReadAnsible(p) ==
  \E hosts \in Fleets :
    IF ReadableFleet(hosts)
    THEN Start(p, "read", [loaded |-> FleetDocuments(hosts), outcome |-> "read"])
    ELSE Start(p, "read", [outcome |-> "refused"])

(***************************************************************************)
(* Writing, one file after the other.                                      *)
(***************************************************************************)

Update(p, fields) == proc' = [proc EXCEPT ![p] = With(@, fields)]

End(p, outcome) ==
  proc' = [proc EXCEPT ![p] = [NoCommand EXCEPT !.command = proc[p].command,
             !.blueprints = proc[p].blueprints,
             !.outcome = outcome]]

Target(p) == PathOf(Head(proc[p].plan))

(* open("w") creates the file or truncates the one that is there.          *)
OpenFile(p) ==
  /\ proc[p].step = "writing"
  /\ files' = [files EXCEPT ![Target(p)] = Blank]
  /\ Update(p, [step |-> "opened", lost |-> FALSE])
  /\ UNCHANGED <<commands, edits, kills>>

(* Mutant: the file is not remembered among those to take back.            *)
FillFileUntracked(p) ==
  LET me == proc[p]
      last == Len(me.plan) = 1
  IN  /\ me.step = "opened"
      /\ files' = IF me.lost THEN files
                  ELSE [files EXCEPT ![Target(p)] = Head(me.plan)]
      /\ IF last /\ me.command = "import"
         THEN End(p, "imported")
         ELSE Update(p, [plan |-> Tail(me.plan),
                         step |-> IF last THEN "listing" ELSE "writing"])
      /\ UNCHANGED <<commands, edits, kills>>

(* The content reaches the file, unless that was unlinked meanwhile.       *)
FillFile(p) ==
  LET me == proc[p]
      last == Len(me.plan) = 1
  IN  /\ me.step = "opened"
      /\ files' = IF me.lost THEN files
                  ELSE [files EXCEPT ![Target(p)] = Head(me.plan)]
      /\ IF last /\ me.command = "import"
         THEN End(p, "imported")
         ELSE Update(p, [plan |-> Tail(me.plan),
                         written |-> Append(me.written, Target(p)),
                         step |-> IF last THEN "listing" ELSE "writing"])
      /\ UNCHANGED <<commands, edits, kills>>

(* A command that cannot go on: `add` takes its files back, an import      *)
(* leaves what it wrote, a reader only says why.                           *)
GiveUp(p) ==
  IF proc[p].command = "add"
  THEN Update(p, [step |-> "withdrawing"])
  ELSE End(p, "failed")

(* A read-only or full disk: nothing was created, or a file was that is    *)
(* not in `written` yet, with none or part of its content.                 *)
WriteFails(p) ==
  /\ WritesFail
  /\ \/ proc[p].step = "writing" /\ UNCHANGED files
     \/ /\ proc[p].step = "opened" /\ ~proc[p].lost
        /\ \E left \in {Blank, Torn} :
             files' = [files EXCEPT ![Target(p)] = left]
  /\ GiveUp(p)
  /\ UNCHANGED <<commands, edits, kills>>

(* path.unlink() of each written file in turn; a file that is gone already *)
(* raises out of the handler and the rest stays.                           *)
Withdraw(p) ==
  LET me == proc[p]
      path == Head(me.written)
  IN  /\ me.step = "withdrawing"
      /\ IF me.written = <<>>
         THEN End(p, "rejected") /\ UNCHANGED files
         ELSE IF files[path] = Absent
         THEN End(p, "crashed") /\ UNCHANGED files
         ELSE /\ files' = [files EXCEPT ![path] = Absent]
              /\ proc' = [q \in Process |->
                   IF q = p THEN [me EXCEPT !.written = Tail(@)]
                   ELSE IF proc[q].step = "opened" /\ Target(q) = path
                   THEN [proc[q] EXCEPT !.lost = TRUE]
                   ELSE proc[q]]
      /\ UNCHANGED <<commands, edits, kills>>

(***************************************************************************)
(* Reading the project: list its files, load them one by one in the order  *)
(* of their kinds, then check what was loaded.                             *)
(***************************************************************************)

ListFiles(p) ==
  /\ proc[p].step = "listing"
  /\ IF Held(files) = {}
     THEN GiveUp(p)
     ELSE Update(p, [step |-> "reading", unread |-> Held(files)])
  /\ UNCHANGED <<files, commands, edits, kills>>

Position ==
  [server |-> 1, serverType |-> 2, application |-> 3, component |-> 4, domain |-> 5,
   sshKey |-> 6, loggingStack |-> 7, service |-> 8, alertRule |-> 9, policy |-> 10]

NextFile(unread) ==
  CHOOSE f \in unread : \A g \in unread : Position[f[1]] <= Position[g[1]]

Loaded(contents, f) ==
  [g \in DOMAIN contents \cup {f} |-> IF g = f THEN files[f] ELSE contents[g]]

LoadFile(p) ==
  /\ proc[p].step = "reading"
  /\ proc[p].unread # {}
  /\ LET f == NextFile(proc[p].unread)
     IN  IF files[f] \in {Absent, Torn}
         THEN GiveUp(p)
         ELSE Update(p, [unread |-> proc[p].unread \ {f},
                         loaded |-> IF files[f] = Blank THEN proc[p].loaded
                                    ELSE Loaded(proc[p].loaded, f)])
  /\ UNCHANGED <<files, commands, edits, kills>>

Check(p) ==
  /\ proc[p].step = "reading"
  /\ proc[p].unread = {}
  /\ IF Valid(proc[p].loaded)
     THEN Update(p, [step |-> "idle", plan |-> <<>>, written |-> <<>>,
                     before |-> Nothing,
                     outcome |-> IF proc[p].command = "add" THEN "added" ELSE "read"])
     ELSE GiveUp(p)
  /\ UNCHANGED <<files, commands, edits, kills>>

(***************************************************************************)
(* Around the commands: those that write are killed, and people edit files. *)
(***************************************************************************)

Kill(p) ==
  /\ Active(p)
  /\ kills < MaxKills
  /\ kills' = kills + 1
  /\ End(p, "killed")
  /\ UNCHANGED <<files, commands, edits>>

(* Bound: people edit under the hands of a running command; what they do   *)
(* before is among the projects one starts with.                           *)
Edit ==
  /\ edits < MaxEdits
  /\ \E p \in Process : Active(p)
  /\ edits' = edits + 1
  /\ \E edit \in Edits : files' = [files EXCEPT ![edit[1]] = edit[2]]
  /\ proc' = [p \in Process |-> [proc[p] EXCEPT !.calm = FALSE]]
  /\ UNCHANGED <<commands, kills>>

Done ==
  /\ \A p \in Process : ~Active(p)
  /\ commands = MaxCommands
  /\ UNCHANGED vars

Next ==
  \/ \E p \in Author : BeginAdd(p) \/ BeginImport(p) \/ Kill(p)
  \/ \E p \in Reader : BeginRead(p) \/ ReadAnsible(p)
  \/ \E p \in Process :
       \/ OpenFile(p) \/ FillFile(p) \/ WriteFails(p) \/ Withdraw(p)
       \/ ListFiles(p) \/ LoadFile(p) \/ Check(p)
  \/ Edit
  \/ Done

Spec == Init /\ [][Next]_vars
-----------------------------------------------------------------------------
TypeOK ==
  /\ \A f \in Path : MayHold(files[f])
  /\ DOMAIN files = Path
  /\ \A p \in Process :
       /\ proc[p].step \in {"idle", "writing", "opened", "withdrawing",
                            "listing", "reading"}
       /\ proc[p].unread \subseteq Path
       /\ \A i \in DOMAIN proc[p].plan : IsDocument(proc[p].plan[i])
       /\ \A f \in DOMAIN proc[p].loaded : IsDocument(proc[p].loaded[f])

Answered(p) == proc[p].outcome \in {"read", "added"}

(* Whatever people and other commands did to the files while they were     *)
(* read, a configuration a command accepts projects and renders: no server *)
(* type, application or owner it looks up by key is missing (from_state,   *)
(* _host_variables), where the code would raise a KeyError.                *)
LookupsSucceed ==
  \A p \in Process : Answered(p) =>
    /\ ~ProjectionRaises(proc[p].loaded)
    /\ ~RenderingRaises(PlatformInventory(proc[p].loaded))

(* The rendered inventory of an accepted configuration is coherent across  *)
(* hosts and groups: every group targets declared hosts, the user a        *)
(* component runs as is created on each of its hosts, an alert rule is     *)
(* evaluated on exactly one host, a host ships its logs to one stack, of   *)
(* its own environment, and a default-deny firewall never closes the port  *)
(* Ansible connects through.                                               *)
HostsAgree ==
  \A p \in Process : Answered(p) =>
    LET inv == PlatformInventory(proc[p].loaded)
        rendered == AnsibleInventory(inv)
        hosts == rendered.hosts
        grouped == rendered.backends \cup rendered.collectors \cup rendered.origins
                   \cup (UNION {rendered.components[c] :
                                  c \in DOMAIN rendered.components})
                   \cup (UNION {rendered.applications[a] :
                                  a \in DOMAIN rendered.applications})
    IN  /\ grouped \subseteq DOMAIN hosts
        /\ \A h \in DOMAIN hosts : \A c \in hosts[h].components :
             [id |-> c.application, user |-> c.user] \in hosts[h].applications
        /\ \A r \in inv.alertRules :
             Cardinality({h \in DOMAIN hosts : r.id \in hosts[h].rules}) = 1
        /\ \A h \in DOMAIN hosts :
             /\ Cardinality(hosts[h].collectors) <= 1
             /\ \A s \in inv.loggingStacks :
                  s.id \in hosts[h].collectors => s.environment = hosts[h].environment
        /\ \A s \in inv.servers : \A rules \in hosts[s.id].firewall :
             <<s.port, "tcp">> \in rules

(* An import can only be merged where its server is a production server    *)
(* without a PostgreSQL of its own, where its ids and files are free, and  *)
(* if no two databases share a name.                                       *)
Fits(contents, documents) ==
  LET old == LoadedFrom(contents)
  IN  /\ \A d \in documents : \A f \in DOMAIN old : Key(old[f]) # Key(d) /\ f # PathOf(d)
      /\ Exists(old, "server", Targets.server)
      /\ Resource(old, "server", Targets.server).environment = Production
      /\ \A d \in documents : d.kind = "service" =>
           /\ Distinct(Column(d.databases, "name"))
           /\ \A s \in Resources(old, "service") :
                s.server = d.server =>
                  s.serviceKind # d.serviceKind /\ s.port # d.port

(* Where the file of a server type is, the type is: `add server` looks for *)
(* the one, validation for the other.                                      *)
TypesAreNamed(contents) ==
  \A f \in Held(contents) :
    f[1] = "serverType" => Exists(LoadedFrom(contents), "serverType", f[2])

Kept(me, outcome) ==
  LET changed == {f \in Path : files'[f] # me.before[f]}
      planned == {me.written[i] : i \in DOMAIN me.written}
                   \cup {PathOf(me.plan[i]) : i \in DOMAIN me.plan}
  IN  /\ outcome = "added" => Loadable(files')
      /\ outcome = "rejected" =>
           /\ Cardinality(changed) <= 1
           /\ \A f \in changed : me.before[f] = Absent /\ files'[f] \in {Blank, Torn}
      /\ (/\ outcome = "killed" /\ me.command = "add"
          /\ Loadable(me.before) /\ TypesAreNamed(me.before)
          /\ \A f \in Path : files'[f] # Torn
          /\ ~Duplicated(LoadedFrom(files')))
           => Loadable(files')
      /\ (/\ outcome = "imported"
          /\ Loadable(me.before)
          /\ Fits(me.before, {files'[f] : f \in planned}))
           => Loadable(files')

(* One writing command at a time, and nobody editing: an `add` that        *)
(* answers leaves a project that loads, one that is rejected leaves at     *)
(* most the single file its disk had no room for, one that is killed at    *)
(* any point does not make a loadable project fail, unless the id it adds  *)
(* was taken or the file of a server type is empty or holds another, and a *)
(* completed import into a project it fits leaves one that loads.          *)
CommandsKeepProject ==
  [][\A p \in Author : Active(p) /\ ~Active(p)' /\ proc[p].calm
         => Kept(proc[p], proc'[p].outcome)]_vars

(* The import report leaves nothing out: a service without a component has *)
(* a gap that names it, every variable of a component is in its            *)
(* environment file and has a gap unless the blueprint gave its value,     *)
(* ports the importer assigned are assigned once, and every database is    *)
(* declared for the application.                                           *)
Explained(b, result) ==
  LET documents == {result.documents[i] : i \in DOMAIN result.documents}
      subjects == {g.subject : g \in result.gaps}
      imported == {d.id : d \in {x \in documents : x.kind = "component"}}
      Own(i) == IF Unsupported(b.services[i]) \/ Incomplete(b.services[i]) THEN {}
                ELSE b.services[i].slug \cap imported
  IN  /\ \A i \in DOMAIN b.services :
           Own(i) = {} => \E g \in result.gaps :
                            /\ g.subject = b.services[i].name
                            /\ g.category \in {"unsupported", "action"}
      /\ \A i \in DOMAIN b.services : \A c \in Own(i) :
           LET entries == Inlined(b.services[i], b.groups)
           IN  \A e \in DOMAIN entries :
                 /\ entries[e].source # "keyless" => entries[e].key \in result.lines[c]
                 /\ entries[e].source # "value" => b.services[i].name \in subjects
      /\ \A i, j \in DOMAIN b.services : \A c \in Own(i), d \in Own(j) :
           /\ c # d /\ result.ports[c] # 0 /\ result.ports[c] = result.ports[d]
           => \E k \in {i, j} : DeclaredPort(Inlined(b.services[k], b.groups)) # 0
      /\ \A i \in DOMAIN b.databases : \E d \in documents :
           d.kind = "service" /\ \E k \in DOMAIN d.databases :
             /\ d.databases[k].name \in DatabaseName(b, b.databases[i].name)
             /\ d.databases[k].application = Targets.application

ImportsAreExplained ==
  \A p \in Process : \A b \in proc[p].blueprints : Explained(b, Imported(b, Targets))

(* "a failed validation removes what was written so the project never      *)
(* holds a resource it would reject" (authoring.py:7-8): once every        *)
(* command has ended, none of them killed and nothing edited by hand, a    *)
(* project that loaded still loads.                                        *)
NeverHoldsRejected ==
  (\A p \in Process : ~Active(p)) /\ kills = 0 /\ edits = 0 => Loadable(files)
=============================================================================
