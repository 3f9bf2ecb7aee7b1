---------------------------- MODULE ProjectProof ----------------------------
(***************************************************************************)
(* What Project guarantees for any files, any people editing them, any     *)
(* commands that write, and any number of kills and failed writes: what a  *)
(* command accepted can be projected and rendered, and its hosts agree;    *)
(* files hold documents or what a cut off write leaves; an import explains *)
(* all it does not translate; and, where one process writes and nobody     *)
(* edits, `add` and `import` leave a project that loads.                   *)
(***************************************************************************)
EXTENDS Project, RenderingProof

Fields == {"command", "step", "plan", "written", "unread", "loaded", "before",
           "blueprints", "calm", "lost", "outcome"}

\* A command has no answer while it runs, and only gives one on a
\* configuration that is consistent.
IsAnswered(me) ==
    /\ DOMAIN me = Fields
    /\ me.step # "idle" => me.outcome = "none"
    /\ me.outcome \in {"read", "added"} => Consistent(me.loaded)

AnsweredInv ==
    /\ DOMAIN proc = Process
    /\ \A p \in Process : IsAnswered(proc[p])

-----------------------------------------------------------------------------
(* The parts the actions are built from.                                   *)

\* With leaves the fields it is not given.
LEMMA WithFields ==
    ASSUME NEW record, NEW fields, DOMAIN fields \subseteq DOMAIN record
    PROVE  /\ DOMAIN With(record, fields) = DOMAIN record
           /\ \A f \in DOMAIN fields : With(record, fields)[f] = fields[f]
           /\ \A f \in DOMAIN record \ DOMAIN fields : With(record, fields)[f] = record[f]
BY DEF With

\* The fields of a record that no command fills in.
LEMMA NoCommandIs ==
    /\ DOMAIN NoCommand = Fields
    /\ NoCommand.step = "idle" /\ NoCommand.outcome = "none"
    /\ NoCommand.plan = <<>> /\ NoCommand.written = <<>>
    /\ NoCommand.unread = {} /\ NoCommand.loaded = Nothing
BY DEF NoCommand, Fields

\* One process does something.
LEMMA OneAnswers ==
    ASSUME AnsweredInv, NEW p \in Process, NEW me, IsAnswered(me),
           proc' = [proc EXCEPT ![p] = me]
    PROVE  AnsweredInv'
BY DEF AnsweredInv

\* A command that ends without an answer.
LEMMA EndAnswers ==
    ASSUME AnsweredInv, NEW p \in Process, NEW outcome, outcome \notin {"read", "added"},
           End(p, outcome)
    PROVE  AnsweredInv'
<1>. DEFINE me == [NoCommand EXCEPT !.command = proc[p].command,
                     !.blueprints = proc[p].blueprints, !.outcome = outcome]
<1>1. DOMAIN me = Fields /\ me.step = "idle" /\ me.outcome = outcome
    BY NoCommandIs DEF Fields
<1>2. proc' = [proc EXCEPT ![p] = me]
    BY DEF End
<1>. HIDE DEF me
<1>3. IsAnswered(me)
    BY <1>1 DEF IsAnswered
<1>. QED
    BY <1>2, <1>3, OneAnswers

\* A command that goes on.
LEMMA UpdateAnswers ==
    ASSUME AnsweredInv, NEW p \in Process, Active(p), NEW fields,
           DOMAIN fields \subseteq Fields \ {"outcome"}, Update(p, fields)
    PROVE  AnsweredInv'
<1>. DEFINE me == With(proc[p], fields)
<1>1. IsAnswered(proc[p]) /\ proc[p].outcome = "none" /\ DOMAIN proc[p] = Fields
    BY DEF AnsweredInv, Active, IsAnswered
<1>2. DOMAIN me = Fields
    BY <1>1, WithFields
<1>3. me["outcome"] = proc[p]["outcome"]
    <2>1. "outcome" \in DOMAIN proc[p] \ DOMAIN fields
        BY <1>1 DEF Fields
    <2>. QED
        BY <1>1, <2>1, WithFields
<1>4. me.outcome = "none"
    BY <1>1, <1>3
<1>5. proc' = [proc EXCEPT ![p] = me]
    BY <1>1 DEF Update, AnsweredInv
<1>. HIDE DEF me
<1>6. IsAnswered(me)
    BY <1>2, <1>4 DEF IsAnswered
<1>. QED
    BY <1>5, <1>6, OneAnswers

\* A command that starts, and may end at once.
LEMMA StartAnswers ==
    ASSUME AnsweredInv, NEW p \in Process, NEW command, NEW fields,
           DOMAIN fields \subseteq Fields, Start(p, command, fields),
           "outcome" \in DOMAIN fields =>
               /\ "step" \notin DOMAIN fields
               /\ fields.outcome \in {"read", "added"} =>
                    "loaded" \in DOMAIN fields /\ Consistent(fields.loaded)
    PROVE  AnsweredInv'
<1>. DEFINE base == [NoCommand EXCEPT !.command = command, !.before = files]
            me == With(base, fields)
<1>1. DOMAIN base = Fields /\ base["step"] = "idle" /\ base["outcome"] = "none"
    BY NoCommandIs DEF Fields
<1>2. proc' = [proc EXCEPT ![p] = me]
    BY DEF Start
<1>. HIDE DEF base
<1>3. /\ DOMAIN me = Fields
      /\ \A f \in DOMAIN fields : me[f] = fields[f]
      /\ \A f \in Fields \ DOMAIN fields : me[f] = base[f]
    BY <1>1, WithFields
<1>. HIDE DEF me
<1>4. IsAnswered(me)
    <2>1. {"step", "outcome", "loaded"} \subseteq Fields
        BY DEF Fields
    <2>2. CASE "outcome" \in DOMAIN fields
        <3>1. me["step"] = "idle" /\ me["outcome"] = fields["outcome"]
            BY <1>1, <1>3, <2>1, <2>2
        <3>2. fields["outcome"] \in {"read", "added"} =>
                me["loaded"] = fields["loaded"] /\ Consistent(fields["loaded"])
            BY <1>3, <2>2
        <3>. QED
            BY <1>3, <3>1, <3>2 DEF IsAnswered
    <2>3. CASE "outcome" \notin DOMAIN fields
        <3>1. me["outcome"] = "none"
            BY <1>1, <1>3, <2>1, <2>3
        <3>. QED
            BY <1>3, <3>1 DEF IsAnswered
    <2>. QED
        BY <2>2, <2>3
<1>. QED
    BY <1>2, <1>4, OneAnswers

\* Giving up is no answer.
LEMMA GiveUpAnswers ==
    ASSUME AnsweredInv, NEW p \in Process, Active(p), GiveUp(p)
    PROVE  AnsweredInv'
<1>1. CASE Update(p, [step |-> "withdrawing"])
    <2>. DEFINE fields == [step |-> "withdrawing"]
    <2>1. DOMAIN fields \subseteq Fields \ {"outcome"}
        BY DEF Fields
    <2>. QED
        BY <1>1, <2>1, UpdateAnswers
<1>2. CASE End(p, "failed")
    BY <1>2, EndAnswers
<1>. QED
    BY <1>1, <1>2 DEF GiveUp

-----------------------------------------------------------------------------
(* The invariant.                                                          *)

\* Nobody has answered at first.
LEMMA InitAnswers == Init => AnsweredInv
BY NoCommandIs DEF Init, AnsweredInv, IsAnswered

\* Every step keeps it.
LEMMA NextAnswers == AnsweredInv /\ [Next]_vars => AnsweredInv'
<1>. SUFFICES ASSUME AnsweredInv, [Next]_vars PROVE AnsweredInv'
    OBVIOUS
<1>1. CASE UNCHANGED proc
    BY <1>1 DEF AnsweredInv
<1>2. CASE UNCHANGED vars \/ Done
    BY <1>1, <1>2 DEF vars, Done
<1>3. ASSUME NEW p \in Author, BeginAdd(p)
      PROVE  AnsweredInv'
    <2>0. p \in Process
        BY DEF Process
    <2>1. CASE Start(p, "add", [outcome |-> "exists"])
        <3>. DEFINE fields == [outcome |-> "exists"]
        <3>1. DOMAIN fields = {"outcome"} /\ fields.outcome = "exists"
            OBVIOUS
        <3>. HIDE DEF fields
        <3>2. "outcome" \in Fields
            BY DEF Fields
        <3>. QED
            BY <2>0, <2>1, <3>1, <3>2, StartAnswers DEF fields
    <2>2. ASSUME NEW d, Start(p, "add", [step |-> "writing", plan |-> Planned(d)])
          PROVE  AnsweredInv'
        <3>. DEFINE fields == [step |-> "writing", plan |-> Planned(d)]
        <3>1. DOMAIN fields = {"step", "plan"}
            OBVIOUS
        <3>. HIDE DEF fields
        <3>2. {"step", "plan"} \subseteq Fields
            BY DEF Fields
        <3>3. Start(p, "add", fields)
            BY <2>2 DEF fields
        <3>. QED
            BY <2>0, <3>1, <3>2, <3>3, StartAnswers
    <2>. QED
        BY <1>3, <2>1, <2>2 DEF BeginAdd
<1>4. ASSUME NEW p \in Author, BeginImport(p)
      PROVE  AnsweredInv'
    <2>0. p \in Process
        BY DEF Process
    <2>1. CASE Start(p, "import", [outcome |-> "refused"])
        <3>. DEFINE fields == [outcome |-> "refused"]
        <3>1. DOMAIN fields = {"outcome"} /\ fields.outcome = "refused"
            OBVIOUS
        <3>2. Start(p, "import", fields)
            BY <2>1
        <3>. HIDE DEF fields
        <3>3. "outcome" \in Fields
            BY DEF Fields
        <3>. QED
            BY <2>0, <3>1, <3>2, <3>3, StartAnswers
    <2>2. ASSUME NEW documents, NEW b,
                 Start(p, "import", [step |-> "writing", plan |-> documents, blueprints |-> {b}])
          PROVE  AnsweredInv'
        <3>. DEFINE fields == [step |-> "writing", plan |-> documents, blueprints |-> {b}]
        <3>1. DOMAIN fields = {"step", "plan", "blueprints"}
            OBVIOUS
        <3>2. Start(p, "import", fields)
            BY <2>2
        <3>. HIDE DEF fields
        <3>3. {"step", "plan", "blueprints"} \subseteq Fields
            BY DEF Fields
        <3>. QED
            BY <2>0, <3>1, <3>2, <3>3, StartAnswers
    <2>3. PICK b \in Blueprints :
            \/ Start(p, "import", [outcome |-> "refused"])
            \/ Start(p, "import", [step |-> "writing", plan |-> Imported(b, Targets).documents,
                                   blueprints |-> {b}])
        BY <1>4 DEF BeginImport
    <2>. QED
        BY <2>1, <2>2, <2>3
<1>5. ASSUME NEW p \in Process, Kill(p)
      PROVE  AnsweredInv'
    BY <1>5, EndAnswers DEF Kill
<1>6. ASSUME NEW p \in Reader, BeginRead(p)
      PROVE  AnsweredInv'
    <2>. DEFINE fields == [step |-> "listing"]
    <2>1. DOMAIN fields = {"step"}
        OBVIOUS
    <2>2. Start(p, "read", fields)
        BY <1>6 DEF BeginRead
    <2>. HIDE DEF fields
    <2>3. "step" \in Fields /\ p \in Process
        BY DEF Fields, Process
    <2>. QED
        BY <2>1, <2>2, <2>3, StartAnswers
<1>7. ASSUME NEW p \in Reader, ReadAnsible(p)
      PROVE  AnsweredInv'
    <2>0. p \in Process /\ {"loaded", "outcome"} \subseteq Fields
        BY DEF Fields, Process
    <2>1. PICK hosts \in Fleets :
            \/ /\ ReadableFleet(hosts)
               /\ Start(p, "read", [loaded |-> FleetDocuments(hosts), outcome |-> "read"])
            \/ Start(p, "read", [outcome |-> "refused"])
        BY <1>7 DEF ReadAnsible
    <2>2. CASE /\ ReadableFleet(hosts)
               /\ Start(p, "read", [loaded |-> FleetDocuments(hosts), outcome |-> "read"])
        <3>. DEFINE fields == [loaded |-> FleetDocuments(hosts), outcome |-> "read"]
        <3>1. DOMAIN fields = {"loaded", "outcome"} /\ fields.loaded = FleetDocuments(hosts)
            OBVIOUS
        <3>2. Start(p, "read", fields)
            BY <2>2
        <3>. HIDE DEF fields
        <3>3. Consistent(fields.loaded)
            BY <2>2, <3>1 DEF ReadableFleet
        <3>. QED
            BY <2>0, <3>1, <3>2, <3>3, StartAnswers
    <2>3. CASE Start(p, "read", [outcome |-> "refused"])
        <3>. DEFINE fields == [outcome |-> "refused"]
        <3>1. DOMAIN fields = {"outcome"} /\ fields.outcome = "refused"
            OBVIOUS
        <3>2. Start(p, "read", fields)
            BY <2>3
        <3>. HIDE DEF fields
        <3>. QED
            BY <2>0, <3>1, <3>2, StartAnswers
    <2>. QED
        BY <2>1, <2>2, <2>3
<1>8. ASSUME NEW p \in Process, OpenFile(p)
      PROVE  AnsweredInv'
    <2>. DEFINE fields == [step |-> "opened", lost |-> FALSE]
    <2>1. DOMAIN fields \subseteq Fields \ {"outcome"}
        BY DEF Fields
    <2>2. Update(p, fields) /\ Active(p)
        BY <1>8 DEF OpenFile, Active
    <2>. HIDE DEF fields
    <2>. QED
        BY <2>1, <2>2, UpdateAnswers
<1>9. ASSUME NEW p \in Process, FillFile(p)
      PROVE  AnsweredInv'
    <2>1. CASE End(p, "imported")
        BY <2>1, EndAnswers
    <2>2. ASSUME NEW plan, NEW written, NEW step,
                 Update(p, [plan |-> plan, written |-> written, step |-> step])
          PROVE  AnsweredInv'
        <3>. DEFINE fields == [plan |-> plan, written |-> written, step |-> step]
        <3>1. DOMAIN fields \subseteq Fields \ {"outcome"}
            BY DEF Fields
        <3>2. Update(p, fields) /\ Active(p)
            BY <1>9, <2>2 DEF FillFile, Active
        <3>. HIDE DEF fields
        <3>. QED
            BY <3>1, <3>2, UpdateAnswers
    <2>. QED
        BY <1>9, <2>1, <2>2 DEF FillFile
<1>10. ASSUME NEW p \in Process, WriteFails(p) \/ ListFiles(p)
       PROVE  AnsweredInv'
    <2>1. Active(p)
        BY <1>10 DEF WriteFails, ListFiles, Active
    <2>2. CASE GiveUp(p)
        BY <2>1, <2>2, GiveUpAnswers
    <2>3. CASE Update(p, [step |-> "reading", unread |-> Held(files)])
        <3>. DEFINE fields == [step |-> "reading", unread |-> Held(files)]
        <3>1. DOMAIN fields \subseteq Fields \ {"outcome"}
            BY DEF Fields
        <3>2. Update(p, fields)
            BY <2>3
        <3>. HIDE DEF fields
        <3>. QED
            BY <2>1, <3>1, <3>2, UpdateAnswers
    <2>. QED
        BY <1>10, <2>2, <2>3 DEF WriteFails, ListFiles
<1>11. ASSUME NEW p \in Process, Withdraw(p)
       PROVE  AnsweredInv'
    <2>1. CASE End(p, "rejected") \/ End(p, "crashed")
        BY <2>1, EndAnswers
    <2>2. CASE \A q \in Process :
                 \/ proc'[q] = [proc[q] EXCEPT !.written = Tail(@)]
                 \/ proc'[q] = [proc[q] EXCEPT !.lost = TRUE]
                 \/ proc'[q] = proc[q]
        <3>1. DOMAIN proc' = Process
            BY <1>11, EndAnswers DEF Withdraw, AnsweredInv, End
        <3>2. ASSUME NEW q \in Process
              PROVE  IsAnswered(proc'[q])
            BY <2>2 DEF AnsweredInv, IsAnswered, Fields
        <3>. QED
            BY <3>1, <3>2 DEF AnsweredInv
    <2>. QED
        BY <1>11, <2>1, <2>2 DEF Withdraw
<1>12. ASSUME NEW p \in Process, LoadFile(p)
       PROVE  AnsweredInv'
    <2>1. Active(p)
        BY <1>12 DEF LoadFile, Active
    <2>2. CASE GiveUp(p)
        BY <2>1, <2>2, GiveUpAnswers
    <2>3. ASSUME NEW unread, NEW loaded, Update(p, [unread |-> unread, loaded |-> loaded])
          PROVE  AnsweredInv'
        <3>. DEFINE fields == [unread |-> unread, loaded |-> loaded]
        <3>1. DOMAIN fields \subseteq Fields \ {"outcome"}
            BY DEF Fields
        <3>2. Update(p, fields)
            BY <2>3
        <3>. HIDE DEF fields
        <3>. QED
            BY <2>1, <3>1, <3>2, UpdateAnswers
    <2>. QED
        BY <1>12, <2>2, <2>3 DEF LoadFile
<1>13. ASSUME NEW p \in Process, Check(p)
       PROVE  AnsweredInv'
    <2>1. Active(p)
        BY <1>13 DEF Check, Active
    <2>2. CASE GiveUp(p)
        BY <2>1, <2>2, GiveUpAnswers
    <2>3. ASSUME NEW outcome, Valid(proc[p].loaded),
                 Update(p, [step |-> "idle", plan |-> <<>>, written |-> <<>>,
                            before |-> Nothing, outcome |-> outcome])
          PROVE  AnsweredInv'
        <3>. DEFINE fields == [step |-> "idle", plan |-> <<>>, written |-> <<>>,
                               before |-> Nothing, outcome |-> outcome]
                    me == With(proc[p], fields)
        <3>1. DOMAIN fields = {"step", "plan", "written", "before", "outcome"}
              /\ fields["step"] = "idle"
            OBVIOUS
        <3>2. proc' = [proc EXCEPT ![p] = me] /\ DOMAIN proc[p] = Fields
            BY <2>3 DEF Update, AnsweredInv, IsAnswered
        <3>. HIDE DEF fields
        <3>3. /\ DOMAIN fields \subseteq Fields
              /\ "loaded" \in Fields \ DOMAIN fields
              /\ "step" \in DOMAIN fields
            BY <3>1 DEF Fields
        <3>4. DOMAIN me = Fields /\ me["step"] = "idle" /\ me["loaded"] = proc[p]["loaded"]
            BY <3>1, <3>2, <3>3, WithFields
        <3>. HIDE DEF me
        <3>5. IsAnswered(me)
            BY <2>3, <3>4 DEF IsAnswered, Valid
        <3>. QED
            BY <3>2, <3>5, OneAnswers
    <2>. QED
        BY <1>13, <2>2, <2>3 DEF Check
<1>14. CASE Edit
    <2>1. DOMAIN proc' = Process
        BY <1>14 DEF Edit
    <2>2. ASSUME NEW q \in Process
          PROVE  IsAnswered(proc'[q])
        <3>1. proc'[q] = [proc[q] EXCEPT !.calm = FALSE]
            BY <1>14 DEF Edit
        <3>. QED
            BY <3>1 DEF AnsweredInv, IsAnswered, Fields
    <2>. QED
        BY <2>1, <2>2 DEF AnsweredInv
<1>. QED
    BY <1>2, <1>3, <1>4, <1>5, <1>6, <1>7, <1>8, <1>9, <1>10, <1>11, <1>12, <1>13, <1>14
    DEF Next, Process

\* What a command answered on is consistent.
LEMMA AnswersAreConsistent == Spec => []AnsweredInv
BY InitAnswers, NextAnswers, PTL DEF Spec

\* Whatever people and other commands did to the files while they were read, a
\* configuration a command accepts projects and renders: every lookup by key
\* finds its key (from_state, _host_variables).
THEOREM AcceptedRenders == Spec => []LookupsSucceed
<1>1. AnsweredInv => LookupsSucceed
    BY ProjectionSucceeds, RenderingSucceeds DEF AnsweredInv, IsAnswered, LookupsSucceed, Answered
<1>. QED
    BY <1>1, AnswersAreConsistent, PTL

\* The hosts and groups of a consistent configuration agree.
LEMMA ConsistentAgrees ==
    ASSUME NEW p \in Process, Consistent(proc[p].loaded)
    PROVE  LET inv == PlatformInventory(proc[p].loaded)
               rendered == AnsibleInventory(inv)
               hosts == rendered.hosts
               grouped == rendered.backends \cup rendered.collectors \cup rendered.origins
                          \cup (UNION {rendered.components[c] :
                                         c \in DOMAIN rendered.components})
                          \cup (UNION {rendered.applications[a] :
                                         a \in DOMAIN rendered.applications})
           IN  /\ grouped \subseteq DOMAIN hosts
               /\ \A h \in DOMAIN hosts : \A c \in hosts[h].components :
                    [id |-> c.application, user |-> c.user] \in hosts[h].applications
               /\ \A r \in inv.alertRules :
                    Cardinality({h \in DOMAIN hosts : r.id \in hosts[h].rules}) = 1
               /\ \A h \in DOMAIN hosts :
                    /\ Cardinality(hosts[h].collectors) <= 1
                    /\ \A s \in inv.loggingStacks :
                         s.id \in hosts[h].collectors => s.environment = hosts[h].environment
               /\ \A s \in inv.servers : \A rules \in hosts[s.id].firewall :
                    <<s.port, "tcp">> \in rules
<1>. DEFINE config == proc[p].loaded
            inv == PlatformInventory(config)
            rendered == AnsibleInventory(inv)
            hosts == rendered.hosts
<1>. HIDE DEF config, inv, rendered
<1>0. Consistent(config) /\ inv = PlatformInventory(config) /\ rendered = AnsibleInventory(inv)
    BY DEF config, inv, rendered
<1>1. /\ DOMAIN hosts = {d.id : d \in Resources(config, "server")}
      /\ \A d \in Resources(config, "server") :
           hosts[d.id] = HostVariables(inv, ServerInventory(d))
    BY <1>0, HostOfId
<1>2. /\ rendered.backends \subseteq DOMAIN hosts
      /\ rendered.collectors \subseteq DOMAIN hosts
      /\ rendered.origins \subseteq DOMAIN hosts
      /\ \A c \in DOMAIN rendered.components : rendered.components[c] \subseteq DOMAIN hosts
      /\ \A a \in DOMAIN rendered.applications : rendered.applications[a] \subseteq DOMAIN hosts
    BY <1>0, GroupsTargetHosts
<1>3. ASSUME NEW h \in DOMAIN hosts, NEW c \in hosts[h].components
      PROVE  [id |-> c.application, user |-> c.user] \in hosts[h].applications
    <2>1. PICK d \in Resources(config, "server") : hosts[h] = HostVariables(inv, ServerInventory(d))
        BY <1>1
    <2>. QED
        BY <1>0, <2>1, UsersAreCreated
<1>4. \A r \in inv.alertRules : Cardinality({h \in DOMAIN hosts : r.id \in hosts[h].rules}) = 1
    BY <1>0, OneHostEvaluates
<1>5. ASSUME NEW h \in DOMAIN hosts
      PROVE  /\ Cardinality(hosts[h].collectors) <= 1
             /\ \A s \in inv.loggingStacks :
                  s.id \in hosts[h].collectors => s.environment = hosts[h].environment
    <2>1. PICK d \in Resources(config, "server") : hosts[h] = HostVariables(inv, ServerInventory(d))
        BY <1>1
    <2>2. hosts[h].environment = d.environment
        BY <2>1 DEF HostVariables, ServerInventory
    <2>. QED
        BY <1>0, <2>1, <2>2, LogsGoToOneStack
<1>6. ASSUME NEW s \in inv.servers, NEW rules \in hosts[s.id].firewall
      PROVE  <<s.port, "tcp">> \in rules
    <2>1. PICK d \in Resources(config, "server") : s = ServerInventory(d)
        BY <1>0, InventoryOf
    <2>2. s.id = d.id
        BY <2>1 DEF ServerInventory
    <2>3. hosts[s.id] = HostVariables(inv, s)
        BY <1>1, <2>1, <2>2
    <2>. QED
        BY <2>3, FirewallsKeepTheWayIn
<1>7. rendered.backends \cup rendered.collectors \cup rendered.origins
        \cup (UNION {rendered.components[c] : c \in DOMAIN rendered.components})
        \cup (UNION {rendered.applications[a] : a \in DOMAIN rendered.applications})
      \subseteq DOMAIN hosts
    <2>1. UNION {rendered.components[c] : c \in DOMAIN rendered.components} \subseteq DOMAIN hosts
        BY <1>2
    <2>2. UNION {rendered.applications[a] : a \in DOMAIN rendered.applications}
              \subseteq DOMAIN hosts
        BY <1>2
    <2>. QED
        BY <1>2, <2>1, <2>2
<1>8. /\ \A h \in DOMAIN hosts : \A c \in hosts[h].components :
           [id |-> c.application, user |-> c.user] \in hosts[h].applications
      /\ \A s \in inv.servers : \A rules \in hosts[s.id].firewall :
           <<s.port, "tcp">> \in rules
    BY <1>3, <1>6
<1>. QED
    BY <1>4, <1>5, <1>7, <1>8, Zenon DEF config, inv, rendered

\* The rendered inventory of an accepted configuration is coherent across
\* hosts and groups: targets, users, alert rules, log shipping and firewalls.
THEOREM AcceptedAgrees == Spec => []HostsAgree
<1>1. AnsweredInv => HostsAgree
    BY ConsistentAgrees DEF AnsweredInv, IsAnswered, HostsAgree, Answered
<1>. QED
    BY <1>1, AnswersAreConsistent, PTL

-----------------------------------------------------------------------------
(* Types: every file holds a document, or what is left of one, and every   *)
(* process only writes and loads such.                                     *)

\* The places a process can be at.
Steps == {"idle", "writing", "opened", "withdrawing", "listing", "reading"}

\* What a process holds: whole documents to write, at least one while it writes,
\* documents it has read, and a blueprint that imports.
IsTyped(me) ==
    /\ DOMAIN me = Fields
    /\ me.step \in Steps
    /\ me.unread \subseteq Path
    /\ me.plan \in Seq(Documents)
    /\ me.step \in {"writing", "opened"} => me.plan # <<>>
    /\ \A f \in DOMAIN me.loaded : IsDocument(me.loaded[f])
    /\ \A b \in me.blueprints : b \in Blueprints /\ ~Imported(b, Targets).failed

\* The invariant.
TypeInv ==
    /\ DOMAIN files = Path /\ \A f \in Path : MayHold(files[f])
    /\ DOMAIN proc = Process
    /\ \A p \in Process : IsTyped(proc[p])

\* Some fields changed.
LEMMA WithTypes ==
    ASSUME NEW me, IsTyped(me), NEW fields, DOMAIN fields \subseteq Fields,
           "step" \in DOMAIN fields => fields["step"] \in Steps,
           "unread" \in DOMAIN fields => fields["unread"] \subseteq Path,
           "plan" \in DOMAIN fields => fields["plan"] \in Seq(Documents),
           "loaded" \in DOMAIN fields =>
             \A f \in DOMAIN fields["loaded"] : IsDocument(fields["loaded"][f]),
           "blueprints" \in DOMAIN fields =>
             \A b \in fields["blueprints"] : b \in Blueprints /\ ~Imported(b, Targets).failed,
           "step" \in DOMAIN fields /\ fields["step"] \in {"writing", "opened"} =>
             IF "plan" \in DOMAIN fields THEN fields["plan"] # <<>> ELSE me["plan"] # <<>>,
           "plan" \in DOMAIN fields => "step" \in DOMAIN fields
    PROVE  IsTyped(With(me, fields))
<1>. DEFINE new == With(me, fields)
<1>1. /\ DOMAIN new = Fields
      /\ \A f \in DOMAIN fields : new[f] = fields[f]
      /\ \A f \in Fields \ DOMAIN fields : new[f] = me[f]
    BY WithFields DEF IsTyped
<1>2. {"step", "unread", "plan", "loaded", "blueprints"} \subseteq Fields
    BY DEF Fields
<1>. HIDE DEF new
<1>3. new["step"] = IF "step" \in DOMAIN fields THEN fields["step"] ELSE me["step"]
    BY <1>1, <1>2
<1>4. new["plan"] = IF "plan" \in DOMAIN fields THEN fields["plan"] ELSE me["plan"]
    BY <1>1, <1>2
<1>5. new["unread"] = IF "unread" \in DOMAIN fields THEN fields["unread"] ELSE me["unread"]
    BY <1>1, <1>2
<1>6. new["loaded"] = IF "loaded" \in DOMAIN fields THEN fields["loaded"] ELSE me["loaded"]
    BY <1>1, <1>2
<1>7. new["blueprints"] = IF "blueprints" \in DOMAIN fields THEN fields["blueprints"]
                          ELSE me["blueprints"]
    BY <1>1, <1>2
<1>8. new.step \in Steps
    BY <1>3 DEF IsTyped
<1>9. new.plan \in Seq(Documents)
    BY <1>4 DEF IsTyped
<1>10. new.unread \subseteq Path
    BY <1>5 DEF IsTyped
<1>11. \A f \in DOMAIN new.loaded : IsDocument(new.loaded[f])
    <2>1. CASE "loaded" \in DOMAIN fields
        BY <1>6, <2>1
    <2>2. CASE "loaded" \notin DOMAIN fields
        BY <1>6, <2>2 DEF IsTyped
    <2>. QED
        BY <2>1, <2>2
<1>12. \A b \in new.blueprints : b \in Blueprints /\ ~Imported(b, Targets).failed
    BY <1>7 DEF IsTyped
<1>13. new.step \in {"writing", "opened"} => new.plan # <<>>
    BY <1>3, <1>4 DEF IsTyped
<1>. QED
    BY <1>1, <1>8, <1>9, <1>10, <1>11, <1>12, <1>13 DEF IsTyped, new

\* A record no command has filled in, but for its command, contents and blueprints.
LEMMA BlankTypes ==
    ASSUME NEW me, DOMAIN me = Fields, me.step = "idle", me.plan = <<>>, me.unread = {},
           me.loaded = Nothing, NEW B, me.blueprints = B,
           \A b \in B : b \in Blueprints /\ ~Imported(b, Targets).failed
    PROVE  IsTyped(me)
BY EmptySeq DEF IsTyped, Steps, Nothing

\* One process does something.
LEMMA OneTypes ==
    ASSUME TypeInv, NEW p \in Process, NEW me, IsTyped(me),
           proc' = [proc EXCEPT ![p] = me],
           DOMAIN files' = Path, \A f \in Path : MayHold(files'[f])
    PROVE  TypeInv'
<1>1. DOMAIN proc' = Process /\ \A q \in Process : IsTyped(proc'[q])
    BY DEF TypeInv
<1>. QED
    BY <1>1 DEF TypeInv, IsTyped

\* A command ends.
LEMMA EndTypes ==
    ASSUME TypeInv, NEW p \in Process, NEW outcome, End(p, outcome),
           DOMAIN files' = Path, \A f \in Path : MayHold(files'[f])
    PROVE  TypeInv'
<1>. DEFINE me == [NoCommand EXCEPT !.command = proc[p].command,
                     !.blueprints = proc[p].blueprints, !.outcome = outcome]
<1>1. /\ DOMAIN me = Fields /\ me.step = "idle" /\ me.plan = <<>> /\ me.unread = {}
      /\ me.loaded = Nothing /\ me.blueprints = proc[p].blueprints
    BY NoCommandIs DEF Fields
<1>2. proc' = [proc EXCEPT ![p] = me]
    BY DEF End
<1>. HIDE DEF me
<1>3. IsTyped(me)
    BY <1>1, BlankTypes DEF TypeInv, IsTyped
<1>. QED
    BY <1>2, <1>3, OneTypes

\* A command goes on.
LEMMA UpdateTypes ==
    ASSUME TypeInv, NEW p \in Process, NEW fields, Update(p, fields),
           IsTyped(With(proc[p], fields)),
           DOMAIN files' = Path, \A f \in Path : MayHold(files'[f])
    PROVE  TypeInv'
<1>1. proc' = [proc EXCEPT ![p] = With(proc[p], fields)]
    BY DEF Update, TypeInv
<1>. QED
    BY <1>1, OneTypes

\* A command starts.
LEMMA StartTypes ==
    ASSUME TypeInv, NEW p \in Process, NEW command, NEW fields, Start(p, command, fields),
           DOMAIN fields \subseteq {"step", "plan", "blueprints", "loaded", "outcome"},
           "step" \in DOMAIN fields => fields["step"] \in Steps,
           "plan" \in DOMAIN fields => fields["plan"] \in Seq(Documents) /\ fields["plan"] # <<>>,
           "loaded" \in DOMAIN fields =>
             \A f \in DOMAIN fields["loaded"] : IsDocument(fields["loaded"][f]),
           "blueprints" \in DOMAIN fields =>
             \A b \in fields["blueprints"] : b \in Blueprints /\ ~Imported(b, Targets).failed,
           "step" \in DOMAIN fields /\ fields["step"] \in {"writing", "opened"} =>
             "plan" \in DOMAIN fields,
           "plan" \in DOMAIN fields => "step" \in DOMAIN fields
    PROVE  TypeInv'
<1>. DEFINE base == [NoCommand EXCEPT !.command = command, !.before = files]
<1>1. /\ DOMAIN base = Fields /\ base.step = "idle" /\ base.plan = <<>> /\ base.unread = {}
      /\ base.loaded = Nothing /\ base.blueprints = {}
    BY NoCommandIs DEF Fields, NoCommand
<1>2. proc' = [proc EXCEPT ![p] = With(base, fields)] /\ files' = files
    BY DEF Start
<1>. HIDE DEF base
<1>3. IsTyped(base)
    BY <1>1, BlankTypes
<1>4. DOMAIN fields \subseteq Fields /\ "unread" \notin DOMAIN fields
    BY DEF Fields
<1>5. IsTyped(With(base, fields))
    BY <1>3, <1>4, WithTypes
<1>. QED
    BY <1>2, <1>5, OneTypes DEF TypeInv

\* The documents of a blank project's baseline and of an addition.
LEMMA PlannedTypes ==
    ASSUME NEW d \in Additions
    PROVE  Planned(d) \in Seq(Documents) /\ Planned(d) # <<>>
<1>1. d \in Documents
    BY ContentsAssumption DEF IsAddition, Documents
<1>2. ASSUME d.kind = "server"
      PROVE  Baseline(d.serverType) \in Documents
    <2>1. d.serverType \in Id
        BY <1>1, <1>2 DEF Documents, Servers, ServerTypes, Applications, Components, Domains,
                          Services, SshKeys, LoggingStacks, AlertRules, Policies
    <2>2. [l \in {"mounts", "packages", "services"} |-> <<>>]
            \in [{"mounts", "packages", "services"} -> Seq(Name)]
        BY EmptySeq
    <2>3. [declared |-> TRUE, allowed |-> <<>>] \in Firewalls
        BY EmptySeq DEF Firewalls
    <2>4. Baseline(d.serverType) \in ServerTypes
        BY <2>1, <2>2, <2>3, EmptySeq DEF Baseline, ServerTypes
    <2>. QED
        BY <2>4 DEF Documents
<1>3. CASE d.kind = "server" /\ files[<<"serverType", d.serverType>>] = Absent
    <2>1. Planned(d) = <<Baseline(d.serverType), d>>
        BY <1>3 DEF Planned
    <2>2. Baseline(d.serverType) \in Documents
        BY <1>2, <1>3
    <2>. QED
        BY <1>1, <2>1, <2>2
<1>4. CASE ~(d.kind = "server" /\ files[<<"serverType", d.serverType>>] = Absent)
    <2>1. Planned(d) = <<d>>
        BY <1>4 DEF Planned
    <2>. QED
        BY <1>1, <2>1
<1>. QED
    BY <1>3, <1>4

\* What a fleet declares reads as documents.
LEMMA FleetTypes ==
    ASSUME NEW hosts \in Fleets
    PROVE  \A f \in DOMAIN FleetDocuments(hosts) : IsDocument(FleetDocuments(hosts)[f])
<1>. DEFINE documents == CatalogDocuments(hosts) \cup {ServerDocument(h) : h \in Managed(hosts)}
<1>1. ASSUME NEW h \in Managed(hosts)
      PROVE  /\ \A t \in DOMAIN h.catalog : h.catalog[t] \in ServerTypes
             /\ ServerDocument(h) \in Servers
    <2>1. /\ h.name \in Id /\ h.port \in Port
          /\ \A t \in DOMAIN h.catalog : h.catalog[t] \in ServerTypes
          /\ {MergedDeclaration(h).environment, MergedDeclaration(h).serverType} \subseteq Id
        BY <1>1, ContentsAssumption DEF Managed
    <2>. QED
        BY <2>1 DEF ServerDocument, Servers
<1>2. \A d \in documents : IsDocument(d)
    BY <1>1 DEF CatalogDocuments, IsDocument
<1>. HIDE DEF documents
<1>3. FleetDocuments(hosts) =
        [f \in {Key(d) : d \in documents} |-> CHOOSE d \in documents : Key(d) = f]
    BY DEF FleetDocuments, documents
<1>4. ASSUME NEW f \in DOMAIN FleetDocuments(hosts)
      PROVE  FleetDocuments(hosts)[f] \in documents
    <2>1. \E d \in documents : Key(d) = f
        BY <1>3, <1>4
    <2>. QED
        BY <1>3, <1>4, <2>1
<1>. QED
    BY <1>2, <1>4

\* The next file to load is one of those that were listed.
LEMMA NextIsUnread ==
    ASSUME NEW unread, unread \subseteq Path, unread # {}
    PROVE  NextFile(unread) \in unread
<1>. DEFINE T == {Position[f[1]] : f \in unread}
<1>1. \A f \in Path : f[1] \in DOMAIN Position /\ Position[f[1]] \in Nat
    BY PathAssumption DEF Kinds, Position
<1>2. T # {} /\ T \subseteq Nat
    BY <1>1
<1>3. PICK m \in T : \A k \in T : m <= k
    <2>. HIDE DEF T
    <2>. QED
        BY <1>2, LeastOf
<1>4. PICK f \in unread : m = Position[f[1]]
    OBVIOUS
<1>5. \A g \in unread : Position[f[1]] <= Position[g[1]]
    BY <1>3, <1>4
<1>. QED
    BY <1>4, <1>5 DEF NextFile

\* Giving up keeps what there is.
LEMMA GiveUpTypes ==
    ASSUME TypeInv, NEW p \in Process, GiveUp(p),
           DOMAIN files' = Path, \A f \in Path : MayHold(files'[f])
    PROVE  TypeInv'
<1>1. CASE Update(p, [step |-> "withdrawing"])
    <2>. DEFINE fields == [step |-> "withdrawing"]
    <2>1. DOMAIN fields = {"step"} /\ fields["step"] = "withdrawing" /\ Update(p, fields)
        BY <1>1
    <2>. HIDE DEF fields
    <2>2. IsTyped(With(proc[p], fields))
        BY <2>1, WithTypes DEF TypeInv, Fields, Steps
    <2>. QED
        BY <2>1, <2>2, UpdateTypes
<1>2. CASE End(p, "failed")
    BY <1>2, EndTypes
<1>. QED
    BY <1>1, <1>2 DEF GiveUp

\* The target of a process that writes holds a document to write.
LEMMA HeadTypes ==
    ASSUME TypeInv, NEW p \in Process, proc[p].step \in {"writing", "opened"}
    PROVE  /\ IsDocument(Head(proc[p].plan))
           /\ Tail(proc[p].plan) \in Seq(Documents)
           /\ Len(proc[p].plan) # 1 => Tail(proc[p].plan) # <<>>
<1>1. proc[p].plan \in Seq(Documents) /\ proc[p].plan # <<>>
    BY DEF TypeInv, IsTyped
<1>2. /\ Head(proc[p].plan) \in Documents /\ Tail(proc[p].plan) \in Seq(Documents)
      /\ Len(Tail(proc[p].plan)) = Len(proc[p].plan) - 1
    BY <1>1, HeadTailProperties
<1>3. Len(proc[p].plan) \in Nat
    BY <1>1, LenProperties
<1>4. Len(proc[p].plan) # 1 => Tail(proc[p].plan) # <<>>
    <2>1. ASSUME Len(proc[p].plan) # 1 PROVE Len(Tail(proc[p].plan)) # 0
        BY <1>2, <1>3, <2>1
    <2>. QED
        BY <2>1, EmptySeq
<1>. QED
    BY <1>2, <1>4, IsDocumentMeans

\* The commands that start.
LEMMA BeginTypes ==
    ASSUME TypeInv, NEW p \in Process,
           BeginAdd(p) \/ BeginImport(p) \/ BeginRead(p) \/ ReadAnsible(p)
    PROVE  TypeInv'
<1>1. ASSUME NEW command, NEW outcome, Start(p, command, [outcome |-> outcome])
      PROVE  TypeInv'
    <2>. DEFINE fields == [outcome |-> outcome]
    <2>1. DOMAIN fields = {"outcome"} /\ Start(p, command, fields)
        BY <1>1
    <2>. HIDE DEF fields
    <2>. QED
        BY <2>1, StartTypes
<1>2. CASE BeginAdd(p)
    <2>1. ASSUME NEW d \in Additions,
                 Start(p, "add", [step |-> "writing", plan |-> Planned(d)])
          PROVE  TypeInv'
        <3>. DEFINE fields == [step |-> "writing", plan |-> Planned(d)]
        <3>1. /\ DOMAIN fields = {"step", "plan"} /\ Start(p, "add", fields)
              /\ fields["step"] = "writing" /\ fields["plan"] = Planned(d)
            BY <2>1
        <3>. HIDE DEF fields
        <3>2. fields["plan"] \in Seq(Documents) /\ fields["plan"] # <<>>
            BY <3>1, PlannedTypes
        <3>. QED
            BY <3>1, <3>2, StartTypes DEF Steps
    <2>. QED
        BY <1>1, <1>2, <2>1 DEF BeginAdd
<1>3. CASE BeginImport(p)
    <2>1. PICK b \in Blueprints :
            \/ Start(p, "import", [outcome |-> "refused"])
            \/ /\ ~Imported(b, Targets).failed
               /\ Start(p, "import", [step |-> "writing", plan |-> Imported(b, Targets).documents,
                                      blueprints |-> {b}])
        BY <1>3 DEF BeginImport
    <2>2. ASSUME ~Imported(b, Targets).failed,
                 Start(p, "import", [step |-> "writing", plan |-> Imported(b, Targets).documents,
                                     blueprints |-> {b}])
          PROVE  TypeInv'
        <3>. DEFINE fields == [step |-> "writing", plan |-> Imported(b, Targets).documents,
                               blueprints |-> {b}]
        <3>1. /\ DOMAIN fields = {"step", "plan", "blueprints"} /\ Start(p, "import", fields)
              /\ fields["step"] = "writing" /\ fields["blueprints"] = {b}
              /\ fields["plan"] = Imported(b, Targets).documents
            BY <2>2
        <3>. HIDE DEF fields
        <3>2. fields["plan"] \in Seq(Documents) /\ fields["plan"] # <<>>
            BY <2>2, <3>1, ImportedIs, ContentsAssumption
        <3>. QED
            BY <2>2, <3>1, <3>2, StartTypes DEF Steps
    <2>. QED
        BY <1>1, <2>1, <2>2
<1>4. CASE BeginRead(p)
    <2>. DEFINE fields == [step |-> "listing"]
    <2>1. DOMAIN fields = {"step"} /\ fields["step"] = "listing" /\ Start(p, "read", fields)
        BY <1>4 DEF BeginRead
    <2>. HIDE DEF fields
    <2>. QED
        BY <2>1, StartTypes DEF Steps
<1>5. CASE ReadAnsible(p)
    <2>1. PICK hosts \in Fleets :
            \/ Start(p, "read", [loaded |-> FleetDocuments(hosts), outcome |-> "read"])
            \/ Start(p, "read", [outcome |-> "refused"])
        BY <1>5 DEF ReadAnsible
    <2>2. CASE Start(p, "read", [loaded |-> FleetDocuments(hosts), outcome |-> "read"])
        <3>. DEFINE fields == [loaded |-> FleetDocuments(hosts), outcome |-> "read"]
        <3>1. /\ DOMAIN fields = {"loaded", "outcome"} /\ Start(p, "read", fields)
              /\ fields["loaded"] = FleetDocuments(hosts)
            BY <2>2
        <3>. HIDE DEF fields
        <3>2. \A f \in DOMAIN fields["loaded"] : IsDocument(fields["loaded"][f])
            BY <3>1, FleetTypes
        <3>. QED
            BY <3>1, <3>2, StartTypes
    <2>. QED
        BY <1>1, <2>1, <2>2
<1>. QED
    BY <1>2, <1>3, <1>4, <1>5

\* The steps that write.
LEMMA WriteTypes ==
    ASSUME TypeInv, NEW p \in Process,
           OpenFile(p) \/ FillFile(p) \/ WriteFails(p) \/ Withdraw(p)
    PROVE  TypeInv'
<1>1. CASE OpenFile(p)
    <2>. DEFINE fields == [step |-> "opened", lost |-> FALSE]
    <2>1. DOMAIN fields = {"step", "lost"} /\ fields["step"] = "opened" /\ Update(p, fields)
        BY <1>1 DEF OpenFile
    <2>. HIDE DEF fields
    <2>2. proc[p]["plan"] # <<>>
        BY <1>1 DEF OpenFile, TypeInv, IsTyped
    <2>3. IsTyped(With(proc[p], fields))
        BY <2>1, <2>2, WithTypes DEF TypeInv, Fields, Steps
    <2>4. DOMAIN files' = Path /\ \A f \in Path : MayHold(files'[f])
        BY <1>1 DEF OpenFile, TypeInv, MayHold
    <2>. QED
        BY <2>1, <2>3, <2>4, UpdateTypes
<1>2. CASE FillFile(p)
    <2>1. /\ IsDocument(Head(proc[p].plan))
          /\ Tail(proc[p].plan) \in Seq(Documents)
          /\ Len(proc[p].plan) # 1 => Tail(proc[p].plan) # <<>>
        BY <1>2, HeadTypes DEF FillFile
    <2>2. DOMAIN files' = Path /\ \A f \in Path : MayHold(files'[f])
        BY <1>2, <2>1 DEF FillFile, TypeInv, MayHold
    <2>3. CASE End(p, "imported")
        BY <2>2, <2>3, EndTypes
    <2>4. ASSUME NEW written, NEW step,
                 step = IF Len(proc[p].plan) = 1 THEN "listing" ELSE "writing",
                 Update(p, [plan |-> Tail(proc[p].plan), written |-> written, step |-> step])
          PROVE  TypeInv'
        <3>. DEFINE fields == [plan |-> Tail(proc[p].plan), written |-> written, step |-> step]
        <3>1. /\ DOMAIN fields = {"plan", "written", "step"} /\ Update(p, fields)
              /\ fields["step"] = step /\ fields["plan"] = Tail(proc[p].plan)
            BY <2>4
        <3>. HIDE DEF fields
        <3>2. /\ step \in Steps
              /\ step \in {"writing", "opened"} => fields["plan"] # <<>>
            BY <2>1, <2>4, <3>1 DEF Steps
        <3>3. IsTyped(proc[p])
            BY DEF TypeInv
        <3>4. {"plan", "written", "step"} \subseteq Fields
              /\ {"unread", "loaded", "blueprints"} \cap {"plan", "written", "step"} = {}
            BY DEF Fields
        <3>5. IsTyped(With(proc[p], fields))
            BY <2>1, <3>1, <3>2, <3>3, <3>4, WithTypes
        <3>. QED
            BY <2>2, <3>1, <3>5, UpdateTypes
    <2>. QED
        BY <1>2, <2>3, <2>4 DEF FillFile
<1>3. CASE WriteFails(p)
    <2>1. DOMAIN files' = Path /\ \A f \in Path : MayHold(files'[f])
        BY <1>3 DEF WriteFails, TypeInv, MayHold
    <2>. QED
        BY <1>3, <2>1, GiveUpTypes DEF WriteFails
<1>4. CASE Withdraw(p)
    <2>1. DOMAIN files' = Path /\ \A f \in Path : MayHold(files'[f])
        BY <1>4 DEF Withdraw, TypeInv, MayHold
    <2>2. CASE End(p, "rejected") \/ End(p, "crashed")
        BY <2>1, <2>2, EndTypes
    <2>3. CASE /\ DOMAIN proc' = Process
               /\ \A q \in Process :
                    \/ proc'[q] = [proc[q] EXCEPT !.written = Tail(@)]
                    \/ proc'[q] = [proc[q] EXCEPT !.lost = TRUE]
                    \/ proc'[q] = proc[q]
        <3>1. ASSUME NEW q \in Process PROVE IsTyped(proc'[q])
            BY <2>3 DEF TypeInv, IsTyped, Fields
        <3>. QED
            BY <2>1, <2>3, <3>1 DEF TypeInv
    <2>. QED
        BY <1>4, <2>2, <2>3 DEF Withdraw
<1>. QED
    BY <1>1, <1>2, <1>3, <1>4

\* The steps that read.
LEMMA ReadTypes ==
    ASSUME TypeInv, NEW p \in Process, ListFiles(p) \/ LoadFile(p) \/ Check(p)
    PROVE  TypeInv'
<1>1. DOMAIN files' = Path /\ \A f \in Path : MayHold(files'[f])
    BY DEF ListFiles, LoadFile, Check, TypeInv
<1>2. CASE GiveUp(p)
    BY <1>1, <1>2, GiveUpTypes
<1>3. CASE Update(p, [step |-> "reading", unread |-> Held(files)])
    <2>. DEFINE fields == [step |-> "reading", unread |-> Held(files)]
    <2>1. /\ DOMAIN fields = {"step", "unread"} /\ fields["step"] = "reading"
          /\ fields["unread"] = Held(files) /\ Update(p, fields)
        BY <1>3
    <2>. HIDE DEF fields
    <2>2. Held(files) \subseteq Path
        BY DEF Held, TypeInv
    <2>3. IsTyped(With(proc[p], fields))
        BY <2>1, <2>2, WithTypes DEF TypeInv, Fields, Steps
    <2>. QED
        BY <1>1, <2>1, <2>3, UpdateTypes
<1>4. ASSUME NEW f, f = NextFile(proc[p].unread), proc[p].unread # {},
             files[f] \notin {Absent, Torn}, NEW loaded,
             loaded = IF files[f] = Blank THEN proc[p].loaded ELSE Loaded(proc[p].loaded, f),
             Update(p, [unread |-> proc[p].unread \ {f}, loaded |-> loaded])
      PROVE  TypeInv'
    <2>. DEFINE fields == [unread |-> proc[p].unread \ {f}, loaded |-> loaded]
    <2>1. /\ DOMAIN fields = {"unread", "loaded"} /\ Update(p, fields)
          /\ fields["unread"] = proc[p].unread \ {f} /\ fields["loaded"] = loaded
        BY <1>4
    <2>. HIDE DEF fields
    <2>2. /\ proc[p].unread \subseteq Path
          /\ \A g \in DOMAIN proc[p].loaded : IsDocument(proc[p].loaded[g])
        BY DEF TypeInv, IsTyped
    <2>3. f \in Path
        BY <1>4, <2>2, NextIsUnread
    <2>4. \A g \in DOMAIN loaded : IsDocument(loaded[g])
        <3>1. CASE files[f] = Blank
            BY <1>4, <2>2, <3>1
        <3>2. CASE files[f] # Blank
            <4>1. IsDocument(files[f])
                BY <1>4, <2>3, <3>2 DEF TypeInv, MayHold
            <4>. QED
                BY <1>4, <2>2, <3>2, <4>1 DEF Loaded
        <3>. QED
            BY <3>1, <3>2
    <2>5. IsTyped(With(proc[p], fields))
        BY <2>1, <2>2, <2>4, WithTypes DEF TypeInv, Fields
    <2>. QED
        BY <1>1, <2>1, <2>5, UpdateTypes
<1>5. ASSUME NEW outcome,
             Update(p, [step |-> "idle", plan |-> <<>>, written |-> <<>>,
                        before |-> Nothing, outcome |-> outcome])
      PROVE  TypeInv'
    <2>. DEFINE fields == [step |-> "idle", plan |-> <<>>, written |-> <<>>,
                           before |-> Nothing, outcome |-> outcome]
    <2>1. /\ DOMAIN fields = {"step", "plan", "written", "before", "outcome"}
          /\ fields["step"] = "idle" /\ fields["plan"] = <<>> /\ Update(p, fields)
        BY <1>5
    <2>. HIDE DEF fields
    <2>2. fields["plan"] \in Seq(Documents)
        BY <2>1, EmptySeq
    <2>3. IsTyped(With(proc[p], fields))
        BY <2>1, <2>2, WithTypes DEF TypeInv, Fields, Steps
    <2>. QED
        BY <1>1, <2>1, <2>3, UpdateTypes
<1>6. CASE ListFiles(p)
    BY <1>2, <1>3, <1>6 DEF ListFiles
<1>7. CASE LoadFile(p)
    BY <1>2, <1>4, <1>7 DEF LoadFile
<1>8. CASE Check(p)
    BY <1>2, <1>5, <1>8 DEF Check
<1>. QED
    BY <1>6, <1>7, <1>8

-----------------------------------------------------------------------------
\* They hold at first, as the projects one starts with are well formed.
LEMMA InitTypes == Init => TypeInv
<1>. SUFFICES ASSUME Init PROVE TypeInv
    OBVIOUS
<1>1. DOMAIN files = Path /\ \A f \in Path : MayHold(files[f])
    BY ContentsAssumption DEF Init
<1>2. NoCommand.blueprints = {}
    BY DEF NoCommand
<1>3. IsTyped(NoCommand)
    BY <1>2, NoCommandIs, BlankTypes
<1>. QED
    BY <1>1, <1>3 DEF Init, TypeInv

\* Every step keeps them.
LEMMA NextTypes == TypeInv /\ [Next]_vars => TypeInv'
<1>. SUFFICES ASSUME TypeInv, [Next]_vars PROVE TypeInv'
    OBVIOUS
<1>1. CASE UNCHANGED vars \/ Done
    BY <1>1 DEF vars, Done, TypeInv
<1>2. ASSUME NEW p \in Author, BeginAdd(p) \/ BeginImport(p)
      PROVE  TypeInv'
    BY <1>2, BeginTypes DEF Process
<1>3. ASSUME NEW p \in Author, Kill(p)
      PROVE  TypeInv'
    BY <1>3, EndTypes DEF Kill, Process, TypeInv
<1>4. ASSUME NEW p \in Reader, BeginRead(p) \/ ReadAnsible(p)
      PROVE  TypeInv'
    BY <1>4, BeginTypes DEF Process
<1>5. ASSUME NEW p \in Process,
             \/ OpenFile(p) \/ FillFile(p) \/ WriteFails(p) \/ Withdraw(p)
             \/ ListFiles(p) \/ LoadFile(p) \/ Check(p)
      PROVE  TypeInv'
    BY <1>5, WriteTypes, ReadTypes
<1>6. CASE Edit
    <2>1. DOMAIN files' = Path /\ \A f \in Path : MayHold(files'[f])
        BY <1>6, ContentsAssumption DEF Edit, TypeInv
    <2>2. DOMAIN proc' = Process
        BY <1>6 DEF Edit
    <2>3. ASSUME NEW q \in Process
          PROVE  IsTyped(proc'[q])
        <3>1. proc'[q] = [proc[q] EXCEPT !.calm = FALSE]
            BY <1>6 DEF Edit
        <3>. QED
            BY <3>1 DEF TypeInv, IsTyped, Fields
    <2>. QED
        BY <2>1, <2>2, <2>3 DEF TypeInv
<1>. QED
    BY <1>1, <1>2, <1>3, <1>4, <1>5, <1>6 DEF Next

\* So they always hold.
LEMMA AllTyped == Spec => []TypeInv
BY InitTypes, NextTypes, PTL DEF Spec

\* Whatever is cut short, edited or withdrawn, a file holds a whole document or is
\* absent, blank or torn, and commands only write and accept whole documents
\* (_commit, import_render, validate_directory).
THEOREM TypeCorrect == Spec => []TypeOK
<1>1. TypeInv => TypeOK
    <2>. SUFFICES ASSUME TypeInv PROVE TypeOK
        OBVIOUS
    <2>1. ASSUME NEW p \in Process, NEW i \in DOMAIN proc[p].plan
          PROVE  IsDocument(proc[p].plan[i])
        BY <2>1, ElementOfSeq, LenProperties, IsDocumentMeans DEF TypeInv, IsTyped
    <2>. QED
        BY <2>1 DEF TypeInv, IsTyped, TypeOK, Steps
<1>. QED
    BY <1>1, AllTyped, PTL

\* The report of an import that goes through leaves nothing out.
LEMMA ImportIsExplained ==
    ASSUME NEW b, IsBlueprint(b), ~Imported(b, Targets).failed
    PROVE  Explained(b, Imported(b, Targets))
<1>. DEFINE result == Imported(b, Targets)
            st == After(b, Targets)[Len(b.services)]
            documents == {result.documents[i] : i \in DOMAIN result.documents}
            subjects == {g.subject : g \in result.gaps}
            imported == {d.id : d \in {x \in documents : x.kind = "component"}}
            Own(i) == IF Unsupported(b.services[i]) \/ Incomplete(b.services[i]) THEN {}
                      ELSE b.services[i].slug \cap imported
            entries(i) == Inlined(b.services[i], b.groups)
<1>1. /\ AccountsForFirst(st, b, Len(b.services))
      /\ \A j \in DOMAIN b.databases : b.databases[j].slug # {}
      /\ \A i \in DOMAIN st.components : st.components[i] \in documents
      /\ b.databases # <<>> => PostgresService(b, Targets) \in documents
      /\ result.lines = st.lines /\ result.ports = st.ports
      /\ st.gaps \subseteq result.gaps
    BY ImportedIs
<1>2. Len(b.services) \in Nat /\ DOMAIN b.services = 1..Len(b.services)
    BY DEF IsBlueprint, IsList
<1>. HIDE DEF result, st, documents
<1>3. ASSUME NEW i \in DOMAIN b.services
      PROVE  /\ Unsupported(b.services[i]) =>
                  Gap("unsupported", b.services[i].name) \in result.gaps
             /\ ~Unsupported(b.services[i]) /\ Incomplete(b.services[i]) =>
                  Gap("action", b.services[i].name) \in result.gaps
             /\ Placed(b.services[i]) =>
                  \E c \in Id :
                    /\ b.services[i].slug = {c} /\ c \in imported
                    /\ EnvironmentLines(entries(i)) \subseteq result.lines[c]
                    /\ EnvironmentGaps(b.services[i], entries(i)) \subseteq result.gaps
    <2>1. Accounts(st, b.services[i], b.groups)
        BY <1>1, <1>2 DEF AccountsForFirst
    <2>2. ASSUME Placed(b.services[i])
          PROVE  \E c \in Id :
                    /\ b.services[i].slug = {c} /\ c \in imported
                    /\ EnvironmentLines(entries(i)) \subseteq result.lines[c]
                    /\ EnvironmentGaps(b.services[i], entries(i)) \subseteq result.gaps
        <3>1. PICK c \in Id :
                /\ b.services[i].slug = {c}
                /\ \E k \in DOMAIN st.components : st.components[k].id = c
                /\ EnvironmentLines(entries(i)) \subseteq st.lines[c]
                /\ EnvironmentGaps(b.services[i], entries(i)) \subseteq st.gaps
            BY <2>1, <2>2 DEF Accounts
        <3>2. PICK k \in DOMAIN st.components : st.components[k].id = c
            BY <3>1
        <3>3. st.components[k].kind = "component"
            <4>1. st.components \in Seq(Components)
                BY <1>1 DEF AccountsForFirst, IsImport
            <4>2. st.components[k] \in Components
                BY <4>1, ElementOfSeq, LenProperties
            <4>. QED
                BY <4>2 DEF Components
        <3>4. c \in imported
            BY <1>1, <3>2, <3>3
        <3>. QED
            BY <1>1, <3>1, <3>4
    <2>. QED
        BY <1>1, <2>1, <2>2 DEF Accounts
<1>4. ASSUME NEW i \in DOMAIN b.services, Own(i) = {}
      PROVE  \E g \in result.gaps : /\ g.subject = b.services[i].name
                                    /\ g.category \in {"unsupported", "action"}
    <2>1. ~Placed(b.services[i])
        BY <1>3, <1>4 DEF Placed
    <2>. QED
        BY <1>3, <2>1 DEF Placed, Gap
<1>5. ASSUME NEW i \in DOMAIN b.services, NEW c \in Own(i), NEW e \in DOMAIN entries(i)
      PROVE  /\ entries(i)[e].source # "keyless" => entries(i)[e].key \in result.lines[c]
             /\ entries(i)[e].source # "value" => b.services[i].name \in subjects
    <2>1. Placed(b.services[i]) /\ b.services[i].slug = {c}
        BY <1>3, <1>5 DEF Placed
    <2>2. /\ EnvironmentLines(entries(i)) \subseteq result.lines[c]
          /\ EnvironmentGaps(b.services[i], entries(i)) \subseteq result.gaps
        BY <1>3, <2>1
    <2>3. entries(i)[e].source # "keyless" => entries(i)[e].key \in result.lines[c]
        BY <1>5, <2>2 DEF EnvironmentLines
    <2>4. ASSUME entries(i)[e].source # "value"
          PROVE  b.services[i].name \in subjects
        <3>1. PICK category : Gap(category, b.services[i].name) \in result.gaps
            BY <1>5, <2>2, <2>4 DEF EnvironmentGaps
        <3>. QED
            BY <3>1 DEF Gap
    <2>. QED
        BY <2>3, <2>4
<1>6. ASSUME NEW i \in DOMAIN b.services, NEW j \in DOMAIN b.services,
             NEW c \in Own(i), NEW d \in Own(j),
             c # d, result.ports[c] # 0, result.ports[c] = result.ports[d]
      PROVE  \E k \in {i, j} : DeclaredPort(entries(k)) # 0
    <2>1. /\ Placed(b.services[i]) /\ b.services[i].slug = {c}
          /\ Placed(b.services[j]) /\ b.services[j].slug = {d}
        BY <1>3, <1>6 DEF Placed
    <2>2. i # j
        BY <1>6, <2>1
    <2>3. Apart(st, b.services[i], b.services[j], b.groups)
        BY <1>1, <1>2, <2>1, <2>2 DEF AccountsForFirst
    <2>. QED
        BY <1>1, <1>6, <2>1, <2>3 DEF Apart
<1>7. ASSUME NEW i \in DOMAIN b.databases
      PROVE  \E d \in documents :
               d.kind = "service" /\ \E k \in DOMAIN d.databases :
                 /\ d.databases[k].name \in DatabaseName(b, b.databases[i].name)
                 /\ d.databases[k].application = Targets.application
    <2>. DEFINE d == PostgresService(b, Targets)
    <2>1. d \in documents
        BY <1>1, <1>7 
    <2>2. PICK x \in Name : DatabaseName(b, b.databases[i].name) = {x}
        BY <1>1, NamesDatabases
    <2>3. /\ d.kind = "service" /\ i \in DOMAIN d.databases
          /\ d.databases[i].name = x
          /\ d.databases[i].application = Targets.application
        BY <2>2, OneOf DEF PostgresService
    <2>. QED
        BY <2>1, <2>2, <2>3
<1>. QED
    BY <1>4, <1>5, <1>6, <1>7 DEF Explained, result, documents

\* The report of every import leaves nothing out, for any blueprint: a service
\* without a component has a gap, every variable is in its environment file and
\* has a gap unless its value was given, a port the importer assigned is assigned
\* once, and every database is declared (import_render_mapping).
THEOREM ImportsExplained == Spec => []ImportsAreExplained
<1>1. TypeInv => ImportsAreExplained
    BY ImportIsExplained, ContentsAssumption DEF TypeInv, IsTyped, ImportsAreExplained
<1>. QED
    BY <1>1, AllTyped, PTL

-----------------------------------------------------------------------------
(* What a command that writes leaves.                                      *)

\* What an `add` of `d` would write where the files hold `contents`.
PlannedIn(contents, d) ==
    IF d.kind = "server" /\ contents[<<"serverType", d.serverType>>] = Absent
    THEN <<Baseline(d.serverType), d>>
    ELSE <<d>>

\* What a command that found `before` writes, in this order.
IsPlan(command, before, plan) ==
    /\ plan \in Seq(Documents) /\ plan # <<>>
    /\ AreUnlike(plan)
    /\ \A i \in DOMAIN plan : PathOf(plan[i]) \in Path
    /\ command = "add" =>
         /\ \A i \in DOMAIN plan : before[PathOf(plan[i])] = Absent
         /\ \E d \in Additions : plan = PlannedIn(before, d)
    /\ command = "import" =>
         \E b \in Blueprints : ~Imported(b, Targets).failed /\ plan = Imported(b, Targets).documents

\* The files once the documents up to `k` were written, and those up to `m`
\* taken back.
Over(before, plan, m, k) ==
    [f \in Path |-> IF \E i \in m + 1..k : PathOf(plan[i]) = f
                    THEN plan[CHOOSE i \in m + 1..k : PathOf(plan[i]) = f]
                    ELSE before[f]]

\* That is, the path of each document written is its own.
IsOver(over, before, plan, m, k) ==
    /\ DOMAIN over = Path
    /\ \A i \in m + 1..k :
         /\ i \in DOMAIN plan /\ PathOf(plan[i]) \in Path
         /\ over[PathOf(plan[i])] = plan[i]
    /\ \A f \in Path : (\A i \in m + 1..k : PathOf(plan[i]) # f) => over[f] = before[f]

\* They are so but for the next one, which may hold nothing or a part.
FilesAre(contents, before, plan, m, k, spoiled) ==
    /\ spoiled = {} \/ (k < Len(plan) /\ spoiled = {PathOf(plan[k + 1])})
    /\ \A f \in spoiled : contents[f] \in {Blank, Torn}
    /\ \A f \in Path \ spoiled : contents[f] = Over(before, plan, m, k)[f]

\* A document is no marker.
LEMMA DocumentsAreWhole ==
    ASSUME NEW d \in Documents
    PROVE  d \notin {Absent, Blank, Torn} /\ d.kind \in Kinds
BY DEF Documents, Servers, ServerTypes, Applications, Components, Domains, Services, SshKeys,
       LoggingStacks, AlertRules, Policies, Absent, Blank, Torn, Kinds

\* Its path is its key.
LEMMA PathIsKey == \A d : PathOf(d) = Key(d)
BY DEF PathOf, Key

\* The path of each document is its own.
LEMMA OverIs ==
    ASSUME NEW before, NEW plan \in Seq(Documents), AreUnlike(plan),
           \A i \in DOMAIN plan : PathOf(plan[i]) \in Path,
           NEW m \in Nat, NEW k \in Nat, k <= Len(plan)
    PROVE  IsOver(Over(before, plan, m, k), before, plan, m, k)
<1>1. Len(plan) \in Nat /\ DOMAIN plan = 1..Len(plan)
    BY LenProperties
<1>2. DOMAIN Over(before, plan, m, k) = Path
    BY DEF Over
<1>3. ASSUME NEW i \in m + 1..k
      PROVE  /\ i \in DOMAIN plan /\ PathOf(plan[i]) \in Path
             /\ Over(before, plan, m, k)[PathOf(plan[i])] = plan[i]
    <2>1. i \in DOMAIN plan
        BY <1>1
    <2>. DEFINE path == PathOf(plan[i])
                j == CHOOSE n \in m + 1..k : PathOf(plan[n]) = path
    <2>2. j \in m + 1..k /\ PathOf(plan[j]) = path
        OBVIOUS
    <2>3. path \in Path /\ Over(before, plan, m, k)[path] = plan[j]
        BY <2>1 DEF Over
    <2>. HIDE DEF j
    <2>4. j = i
        BY <1>1, <2>1, <2>2, PathIsKey DEF AreUnlike
    <2>. QED
        BY <2>1, <2>3, <2>4
<1>4. ASSUME NEW f \in Path, \A i \in m + 1..k : PathOf(plan[i]) # f
      PROVE  Over(before, plan, m, k)[f] = before[f]
    BY <1>4 DEF Over
<1>. QED
    BY <1>2, <1>3, <1>4 DEF IsOver

\* The written ones are in the files, and the others are as they were.
LEMMA FilesHold ==
    ASSUME NEW command, NEW before, NEW plan, IsPlan(command, before, plan), NEW contents,
           NEW m \in Nat, NEW k \in Nat, k <= Len(plan), NEW spoiled,
           FilesAre(contents, before, plan, m, k, spoiled)
    PROVE  /\ \A i \in m + 1..k :
                /\ i \in DOMAIN plan /\ PathOf(plan[i]) \in Path
                /\ contents[PathOf(plan[i])] = plan[i]
           /\ \A f \in Path :
                \/ contents[f] = before[f]
                \/ \E i \in m + 1..k : f = PathOf(plan[i])
                \/ \E i \in DOMAIN plan : f = PathOf(plan[i]) /\ contents[f] \in {Blank, Torn}
<1>0. /\ plan \in Seq(Documents) /\ AreUnlike(plan)
      /\ Len(plan) \in Nat /\ DOMAIN plan = 1..Len(plan)
      /\ \A i \in DOMAIN plan : PathOf(plan[i]) \in Path
    BY LenProperties DEF IsPlan
<1>. DEFINE over == Over(before, plan, m, k)
<1>1. /\ \A i \in m + 1..k : /\ i \in DOMAIN plan /\ PathOf(plan[i]) \in Path
                             /\ over[PathOf(plan[i])] = plan[i]
      /\ \A f \in Path : (\A i \in m + 1..k : PathOf(plan[i]) # f) => over[f] = before[f]
    <2>1. IsOver(Over(before, plan, m, k), before, plan, m, k)
        BY <1>0, OverIs
    <2>. QED
        BY <2>1 DEF IsOver
<1>. HIDE DEF over
<1>2. /\ spoiled = {} \/ (k < Len(plan) /\ spoiled = {PathOf(plan[k + 1])})
      /\ \A f \in spoiled : contents[f] \in {Blank, Torn}
      /\ \A f \in Path \ spoiled : contents[f] = over[f]
    BY DEF FilesAre, over
<1>3. ASSUME NEW i \in m + 1..k PROVE PathOf(plan[i]) \notin spoiled
    <2>1. CASE k < Len(plan) /\ spoiled = {PathOf(plan[k + 1])}
        <3>1. k + 1 \in DOMAIN plan /\ i \in DOMAIN plan /\ k + 1 # i
            BY <1>0, <2>1
        <3>2. PathOf(plan[k + 1]) # PathOf(plan[i])
            BY <3>1, PathIsKey DEF IsPlan, AreUnlike
        <3>. QED
            BY <2>1, <3>2
    <2>. QED
        BY <1>2, <2>1
<1>4. \A f \in spoiled : \E i \in DOMAIN plan : f = PathOf(plan[i])
    BY <1>0, <1>2
<1>. QED
    BY <1>1, <1>2, <1>3, <1>4

\* What loads then is what loaded before and what was written, each in its place.
Brings(before, contents, plan, m, k) ==
    /\ \A f \in DOMAIN LoadedFrom(contents) :
         \/ f \in DOMAIN LoadedFrom(before) /\ contents[f] = before[f]
         \/ \E i \in m + 1..k : f = PathOf(plan[i]) /\ contents[f] = plan[i]
    /\ \A f \in DOMAIN LoadedFrom(before) :
         f \in DOMAIN LoadedFrom(contents) /\ contents[f] = before[f]
    /\ All(LoadedFrom(contents)) = All(LoadedFrom(before)) \cup {plan[i] : i \in m + 1..k}
    /\ ~Misplaced(LoadedFrom(contents))
    /\ Held(contents) # {}

\* Where none of the written files held a document, what loads is what loaded
\* before and what was written, each in its place.
LEMMA WhatLoads ==
    ASSUME NEW command, NEW before, DOMAIN before = Path,
           NEW plan, IsPlan(command, before, plan),
           NEW contents, DOMAIN contents = Path,
           NEW m \in Nat, NEW k \in Nat, k <= Len(plan), NEW spoiled,
           FilesAre(contents, before, plan, m, k, spoiled),
           \A i \in DOMAIN plan : PathOf(plan[i]) \notin DOMAIN LoadedFrom(before),
           Loadable(before)
    PROVE  /\ Brings(before, contents, plan, m, k)
           /\ \A f \in Path : contents[f] # Torn \/ f \in spoiled
<1>. DEFINE old == LoadedFrom(before)
            new == LoadedFrom(contents)
            loaded == {f \in Path : contents[f] \notin {Absent, Blank, Torn}}
            once == {f \in Path : before[f] \notin {Absent, Blank, Torn}}
<1>0. /\ plan \in Seq(Documents) /\ AreUnlike(plan)
      /\ Len(plan) \in Nat /\ DOMAIN plan = 1..Len(plan)
      /\ \A i \in DOMAIN plan : PathOf(plan[i]) \in Path
    BY LenProperties DEF IsPlan
<1>1. /\ DOMAIN new = loaded /\ \A f \in loaded : new[f] = contents[f]
      /\ DOMAIN old = once /\ \A f \in once : old[f] = before[f]
    BY DEF LoadedFrom
<1>. HIDE DEF new, old
<1>2. /\ \A i \in m + 1..k :
           /\ i \in DOMAIN plan /\ PathOf(plan[i]) \in Path /\ contents[PathOf(plan[i])] = plan[i]
      /\ \A f \in Path :
           \/ contents[f] = before[f]
           \/ \E i \in m + 1..k : f = PathOf(plan[i])
           \/ \E i \in DOMAIN plan : f = PathOf(plan[i]) /\ contents[f] \in {Blank, Torn}
    BY FilesHold
<1>3. \A i \in DOMAIN plan : plan[i] \notin {Absent, Blank, Torn}
    <2>1. \A i \in DOMAIN plan : plan[i] \in Documents
        BY <1>0, ElementOfSeq
    <2>. QED
        BY <2>1, DocumentsAreWhole
<1>4. \A f \in loaded :
        \/ f \in once /\ contents[f] = before[f]
        \/ \E i \in m + 1..k : f = PathOf(plan[i]) /\ contents[f] = plan[i]
    BY <1>2
<1>5. \A f \in once : f \in loaded /\ contents[f] = before[f]
    <2>1. \A i \in DOMAIN plan : PathOf(plan[i]) \notin once
        BY <1>1 DEF old
    <2>. QED
        BY <1>2, <2>1
<1>6. \A i \in m + 1..k : PathOf(plan[i]) \in loaded /\ contents[PathOf(plan[i])] = plan[i]
    BY <1>2, <1>3
<1>7. All(new) = All(old) \cup {plan[i] : i \in m + 1..k}
    BY <1>1, <1>4, <1>5, <1>6 DEF All
<1>8. ~Misplaced(new)
    <2>1. \A f \in once : f[1] = before[f].kind
        BY <1>1 DEF Loadable, Valid, Misplaced, old
    <2>2. \A i \in DOMAIN plan : PathOf(plan[i])[1] = plan[i].kind
        BY DEF PathOf
    <2>. QED
        BY <1>1, <1>2, <1>4, <2>1, <2>2 DEF Misplaced
<1>9. Held(contents) # {}
    <2>1. PICK f \in Path : before[f] # Absent
        BY DEF Loadable, Held
    <2>2. contents[f] # Absent
        <3>1. Blank # Absent /\ Torn # Absent
            BY DEF Blank, Absent, Torn
        <3>. QED
            BY <1>2, <1>3, <2>1, <3>1
    <2>. QED
        BY <2>2 DEF Held
<1>10. \A f \in Path : contents[f] # Torn \/ f \in spoiled
    <2>1. ASSUME NEW f \in Path, f \notin spoiled PROVE contents[f] # Torn
        <3>1. contents[f] = Over(before, plan, m, k)[f]
            BY <2>1 DEF FilesAre
        <3>2. CASE \E i \in m + 1..k : PathOf(plan[i]) = f
            BY <1>2, <1>3, <3>2
        <3>3. CASE \A i \in m + 1..k : PathOf(plan[i]) # f
            <4>1. IsOver(Over(before, plan, m, k), before, plan, m, k)
                BY <1>0, OverIs
            <4>2. contents[f] = before[f]
                BY <3>1, <3>3, <4>1 DEF IsOver
            <4>. QED
                BY <4>2 DEF Loadable
        <3>. QED
            BY <3>2, <3>3
    <2>. QED
        BY <2>1
<1>. QED
    BY <1>1, <1>4, <1>5, <1>7, <1>8, <1>9, <1>10 DEF new, old, Brings

-----------------------------------------------------------------------------
(* What they write, step by step.                                          *)

\* What `add` plans where its files are free.
LEMMA AddPlans ==
    ASSUME NEW d \in Additions,
           \A i \in DOMAIN Planned(d) : files[PathOf(Planned(d)[i])] = Absent
    PROVE  IsPlan("add", files, Planned(d))
<1>1. Planned(d) \in Seq(Documents) /\ Planned(d) # <<>>
    BY PlannedTypes
<1>2. PathOf(d) \in Path /\ (d.kind = "server" => <<"serverType", d.serverType>> \in Path)
    BY WritesAssumption
<1>3. \A e : PathOf(Baseline(e)) = <<"serverType", e>> /\ Baseline(e).kind = "serverType"
    BY DEF PathOf, Baseline
<1>4. Planned(d) = PlannedIn(files, d)
    BY DEF Planned, PlannedIn
<1>5. AreUnlike(Planned(d)) /\ \A i \in DOMAIN Planned(d) : PathOf(Planned(d)[i]) \in Path
    <2>1. CASE d.kind = "server" /\ files[<<"serverType", d.serverType>>] = Absent
        <3>. DEFINE one == Baseline(d.serverType)
        <3>1. Planned(d) = <<one, d>>
            BY <2>1 DEF Planned
        <3>2. one.kind = "serverType" /\ PathOf(one) \in Path
            BY <1>2, <1>3, <2>1
        <3>. HIDE DEF one
        <3>3. Key(one) # Key(d)
            BY <2>1, <3>2 DEF Key
        <3>. QED
            BY <1>2, <3>1, <3>2, <3>3 DEF AreUnlike
    <2>2. CASE ~(d.kind = "server" /\ files[<<"serverType", d.serverType>>] = Absent)
        <3>1. Planned(d) = <<d>>
            BY <2>2 DEF Planned
        <3>. QED
            BY <1>2, <3>1 DEF AreUnlike
    <2>. QED
        BY <2>1, <2>2
<1>6. \E e \in Additions : Planned(d) = PlannedIn(files, e)
    BY <1>4
<1>. QED
    BY <1>1, <1>5, <1>6 DEF IsPlan

\* What an import plans.
LEMMA ImportPlans ==
    ASSUME NEW before, NEW b \in Blueprints, ~Imported(b, Targets).failed
    PROVE  IsPlan("import", before, Imported(b, Targets).documents)
<1>1. IsBlueprint(b)
    BY ContentsAssumption
<1>. DEFINE plan == Imported(b, Targets).documents
<1>2. plan \in Seq(Documents) /\ AreUnlike(plan)
    BY <1>1, ImportedInPlace
<1>3. plan # <<>>
    BY <1>1, ImportedIs
<1>4. \A i \in DOMAIN plan : PathOf(plan[i]) \in Path
    BY WritesAssumption
<1>. QED
    BY <1>2, <1>3, <1>4 DEF IsPlan

\* Nothing is written at first.
LEMMA NothingWritten ==
    ASSUME NEW command, NEW before, NEW plan, IsPlan(command, before, plan), NEW m \in Nat
    PROVE  \A f \in Path : Over(before, plan, m, m)[f] = before[f]
BY DEF Over

\* The facts about a plan that each step needs.
LEMMA PlanIs ==
    ASSUME NEW command, NEW before, NEW plan, IsPlan(command, before, plan),
           NEW m \in Nat, NEW k \in Nat, k <= Len(plan)
    PROVE  /\ Len(plan) \in Nat /\ DOMAIN plan = 1..Len(plan) /\ Len(plan) # 0
           /\ \A i \in 1..Len(plan) : PathOf(plan[i]) \in Path /\ plan[i] \in Documents
           /\ \A i, j \in 1..Len(plan) : PathOf(plan[i]) = PathOf(plan[j]) => i = j
           /\ IsOver(Over(before, plan, m, k), before, plan, m, k)
<1>1. plan \in Seq(Documents) /\ plan # <<>> /\ AreUnlike(plan)
      /\ \A i \in DOMAIN plan : PathOf(plan[i]) \in Path
    BY DEF IsPlan
<1>2. Len(plan) \in Nat /\ DOMAIN plan = 1..Len(plan) /\ Len(plan) # 0
    BY <1>1, LenProperties, EmptySeq
<1>3. IsOver(Over(before, plan, m, k), before, plan, m, k)
    BY <1>1, OverIs
<1>4. \A i, j \in 1..Len(plan) : PathOf(plan[i]) = PathOf(plan[j]) => i = j
    BY <1>1, <1>2, PathIsKey DEF AreUnlike
<1>5. \A i \in 1..Len(plan) : plan[i] \in Documents
    BY <1>1, <1>2, ElementOfSeq
<1>. QED
    BY <1>1, <1>2, <1>3, <1>4, <1>5

\* The next file is opened, or what goes wrong leaves none or a part of it.
LEMMA OneOpened ==
    ASSUME NEW command, NEW before, NEW plan, IsPlan(command, before, plan),
           NEW m \in Nat, NEW k \in Nat, k < Len(plan), NEW spoiled, NEW path,
           path = PathOf(plan[k + 1]), spoiled \subseteq {path},
           NEW contents, DOMAIN contents = Path, FilesAre(contents, before, plan, m, k, spoiled),
           NEW left \in {Blank, Torn}, NEW after, after = [contents EXCEPT ![path] = left]
    PROVE  FilesAre(after, before, plan, m, k, {path})
<1>1. Len(plan) \in Nat /\ PathOf(plan[k + 1]) \in Path
    BY PlanIs
<1>2. after[path] = left /\ \A f \in Path \ {path} : after[f] = contents[f]
    BY <1>1
<1>. QED
    BY <1>1, <1>2 DEF FilesAre

\* The next file is filled.
LEMMA OneFilled ==
    ASSUME NEW command, NEW before, NEW plan, IsPlan(command, before, plan),
           NEW m \in Nat, NEW k \in Nat, m <= k, k < Len(plan), NEW spoiled, NEW path,
           path = PathOf(plan[k + 1]), spoiled \subseteq {path},
           NEW contents, DOMAIN contents = Path, FilesAre(contents, before, plan, m, k, spoiled),
           NEW after, after = [contents EXCEPT ![path] = plan[k + 1]]
    PROVE  FilesAre(after, before, plan, m, k + 1, {})
<1>1. /\ Len(plan) \in Nat /\ k + 1 \in 1..Len(plan) /\ path \in Path
      /\ IsOver(Over(before, plan, m, k), before, plan, m, k)
    BY PlanIs
<1>2. IsOver(Over(before, plan, m, k + 1), before, plan, m, k + 1)
    BY <1>1, PlanIs
<1>. DEFINE over == Over(before, plan, m, k)
            next == Over(before, plan, m, k + 1)
<1>3. IsOver(over, before, plan, m, k) /\ IsOver(next, before, plan, m, k + 1)
    BY <1>1, <1>2
<1>4. \A f \in Path \ spoiled : contents[f] = over[f]
    BY DEF FilesAre
<1>. HIDE DEF over, next
<1>5. ASSUME NEW f \in Path PROVE after[f] = next[f]
    <2>1. CASE f = path
        <3>1. k + 1 \in m + 1..k + 1
            OBVIOUS
        <3>. QED
            BY <1>1, <1>3, <2>1, <3>1 DEF IsOver
    <2>2. CASE f # path
        <3>1. after[f] = over[f]
            BY <1>4, <2>2
        <3>2. CASE \E i \in m + 1..k : PathOf(plan[i]) = f
            <4>1. PICK i \in m + 1..k : PathOf(plan[i]) = f
                BY <3>2
            <4>2. i \in m + 1..k + 1
                OBVIOUS
            <4>3. over[f] = plan[i] /\ next[f] = plan[i]
                BY <1>3, <4>1, <4>2 DEF IsOver
            <4>. QED
                BY <3>1, <4>3
        <3>3. CASE \A i \in m + 1..k : PathOf(plan[i]) # f
            <4>1. \A i \in m + 1..k + 1 : PathOf(plan[i]) # f
                <5>1. \A i \in m + 1..k + 1 : i \in m + 1..k \/ i = k + 1
                    OBVIOUS
                <5>. QED
                    BY <2>2, <3>3, <5>1
            <4>2. over[f] = before[f] /\ next[f] = before[f]
                BY <1>3, <3>3, <4>1 DEF IsOver
            <4>. QED
                BY <3>1, <4>2
        <3>. QED
            BY <3>2, <3>3
    <2>. QED
        BY <2>1, <2>2
<1>. QED
    BY <1>5 DEF FilesAre, next

\* The first of the written files is taken back.
LEMMA OneTakenBack ==
    ASSUME NEW before, NEW plan, IsPlan("add", before, plan),
           NEW m \in Nat, NEW k \in Nat, m < k, k <= Len(plan), NEW spoiled, NEW path,
           path = PathOf(plan[m + 1]),
           NEW contents, DOMAIN contents = Path, FilesAre(contents, before, plan, m, k, spoiled),
           NEW after, after = [contents EXCEPT ![path] = Absent]
    PROVE  contents[path] # Absent /\ FilesAre(after, before, plan, m + 1, k, spoiled)
<1>1. /\ Len(plan) \in Nat /\ m + 1 \in 1..Len(plan) /\ path \in Path
      /\ DOMAIN plan = 1..Len(plan)
      /\ \A i, j \in 1..Len(plan) : PathOf(plan[i]) = PathOf(plan[j]) => i = j
      /\ IsOver(Over(before, plan, m, k), before, plan, m, k)
      /\ plan[m + 1] \in Documents
    BY PlanIs
<1>2. IsOver(Over(before, plan, m + 1, k), before, plan, m + 1, k)
    BY <1>1, PlanIs
<1>. DEFINE over == Over(before, plan, m, k)
            next == Over(before, plan, m + 1, k)
<1>3. IsOver(over, before, plan, m, k) /\ IsOver(next, before, plan, m + 1, k)
    BY <1>1, <1>2
<1>4. /\ \A f \in Path \ spoiled : contents[f] = over[f]
      /\ \A f \in spoiled : contents[f] \in {Blank, Torn}
      /\ spoiled = {} \/ (k < Len(plan) /\ spoiled = {PathOf(plan[k + 1])})
    BY DEF FilesAre
<1>. HIDE DEF over, next
<1>5. path \notin spoiled
    <2>1. CASE k < Len(plan) /\ spoiled = {PathOf(plan[k + 1])}
        <3>1. k + 1 \in 1..Len(plan) /\ m + 1 # k + 1
            BY <1>1, <2>1
        <3>. QED
            BY <1>1, <2>1, <3>1
    <2>. QED
        BY <1>4, <2>1
<1>6. contents[path] = plan[m + 1]
    <2>1. m + 1 \in m + 1..k
        OBVIOUS
    <2>2. over[path] = plan[m + 1]
        BY <1>3, <2>1 DEF IsOver
    <2>. QED
        BY <1>1, <1>4, <1>5, <2>2
<1>7. contents[path] # Absent
    BY <1>1, <1>6, DocumentsAreWhole
<1>8. before[path] = Absent
    BY <1>1 DEF IsPlan
<1>9. after[path] = Absent /\ \A f \in Path \ {path} : after[f] = contents[f]
    BY <1>1
<1>10. ASSUME NEW f \in Path \ spoiled PROVE after[f] = next[f]
    <2>1. CASE f = path
        <3>1. \A i \in (m + 1) + 1..k : PathOf(plan[i]) # path
            <4>1. \A i \in (m + 1) + 1..k : i \in 1..Len(plan) /\ i # m + 1
                BY <1>1
            <4>. QED
                BY <1>1, <4>1
        <3>2. next[path] = before[path]
            BY <1>1, <1>3, <3>1 DEF IsOver
        <3>. QED
            BY <1>8, <1>9, <2>1, <3>2
    <2>2. CASE f # path
        <3>1. after[f] = over[f]
            BY <1>4, <1>9, <2>2
        <3>2. CASE \E i \in m + 1..k : PathOf(plan[i]) = f
            <4>1. PICK i \in m + 1..k : PathOf(plan[i]) = f
                BY <3>2
            <4>2. i \in (m + 1) + 1..k
                BY <2>2, <4>1
            <4>3. over[f] = plan[i] /\ next[f] = plan[i]
                BY <1>3, <4>1, <4>2 DEF IsOver
            <4>. QED
                BY <3>1, <4>3
        <3>3. CASE \A i \in m + 1..k : PathOf(plan[i]) # f
            <4>1. \A i \in (m + 1) + 1..k : PathOf(plan[i]) # f
                BY <3>3
            <4>2. over[f] = before[f] /\ next[f] = before[f]
                BY <1>3, <3>3, <4>1 DEF IsOver
            <4>. QED
                BY <3>1, <4>2
        <3>. QED
            BY <3>2, <3>3
    <2>. QED
        BY <2>1, <2>2
<1>11. \A f \in spoiled : after[f] \in {Blank, Torn}
    <2>1. \A f \in spoiled : f \in Path /\ f # path
        <3>1. k < Len(plan) => PathOf(plan[k + 1]) \in Path
            <4>1. k < Len(plan) => k + 1 \in DOMAIN plan
                BY <1>1
            <4>. QED
                BY <4>1 DEF IsPlan
        <3>. QED
            BY <1>4, <1>5, <3>1
    <2>. QED
        BY <1>4, <1>9, <2>1
<1>. QED
    BY <1>4, <1>7, <1>10, <1>11 DEF FilesAre, next

-----------------------------------------------------------------------------
(* What they leave loads.                                                  *)

\* A baseline is in order on its own.
LEMMA BaselineIsOK ==
    ASSUME NEW config, NEW id
    PROVE  ReferencesOK(config, Baseline(id))
<1>. DEFINE d == Baseline(id)
<1>1. /\ d.kind = "serverType" /\ d.files = <<>> /\ d.firewall.allowed = <<>>
      /\ \A l \in DOMAIN d.lists : d.lists[l] = <<>>
    BY DEF Baseline
<1>. HIDE DEF d
<1>2. Distinct(<<>>) /\ Distinct(Column(<<>>, "path"))
    BY DEF Distinct, Column
<1>3. ServerTypeOK(config, d)
    BY <1>1, <1>2 DEF ServerTypeOK, FirewallOK
<1>. QED
    BY <1>1, <1>3 DEF ReferencesOK, d

\* What `add` plans, by kind.
LEMMA AddedIs ==
    ASSUME NEW before, NEW plan, IsPlan("add", before, plan)
    PROVE  \E d \in Additions :
             /\ \/ /\ d.kind = "server" /\ before[<<"serverType", d.serverType>>] = Absent
                   /\ Len(plan) = 2 /\ plan[1] = Baseline(d.serverType) /\ plan[2] = d
                \/ /\ d.kind = "server" => before[<<"serverType", d.serverType>>] # Absent
                   /\ Len(plan) = 1 /\ plan[1] = d
             /\ d.kind \in {"server", "serverType", "sshKey"}
             /\ d.kind = "server" => ServerNetworkOK(d)
             /\ d.kind = "serverType" => d = Baseline(d.id)
             /\ d.kind = "sshKey" => SshKeyOK(d)
<1>1. PICK d \in Additions : plan = PlannedIn(before, d)
    BY DEF IsPlan
<1>2. IsAddition(d)
    BY ContentsAssumption
<1>3. /\ d.kind \in {"server", "serverType", "sshKey"}
      /\ d.kind = "server" => ServerNetworkOK(d)
      /\ d.kind = "serverType" => d = Baseline(d.id)
      /\ d.kind = "sshKey" => SshKeyOK(d)
    BY <1>2 DEF IsAddition, Servers, ServerTypes, SshKeys
<1>4. CASE d.kind = "server" /\ before[<<"serverType", d.serverType>>] = Absent
    <2>. DEFINE one == Baseline(d.serverType)
    <2>1. plan = <<one, d>>
        BY <1>1, <1>4 DEF PlannedIn
    <2>. HIDE DEF one
    <2>2. Len(plan) = 2 /\ plan[1] = one /\ plan[2] = d
        BY <2>1
    <2>. QED
        BY <1>3, <1>4, <2>2 DEF one
<1>5. CASE ~(d.kind = "server" /\ before[<<"serverType", d.serverType>>] = Absent)
    <2>1. plan = <<d>>
        BY <1>1, <1>5 DEF PlannedIn
    <2>2. Len(plan) = 1 /\ plan[1] = d
        BY <2>1
    <2>. QED
        BY <1>3, <1>5, <2>2
<1>. QED
    BY <1>4, <1>5

\* The files an `add` writes were free.
LEMMA AddLoads ==
    ASSUME NEW command, NEW before, DOMAIN before = Path,
           NEW plan, IsPlan(command, before, plan),
           NEW contents, DOMAIN contents = Path,
           NEW m \in Nat, NEW k \in Nat, k <= Len(plan), NEW spoiled,
           FilesAre(contents, before, plan, m, k, spoiled),
           Loadable(before),
           command = "add" \/ \A i \in DOMAIN plan : PathOf(plan[i]) \notin DOMAIN LoadedFrom(before)
    PROVE  Brings(before, contents, plan, m, k)
<1>1. ASSUME NEW i \in DOMAIN plan PROVE PathOf(plan[i]) \notin DOMAIN LoadedFrom(before)
    <2>1. CASE command = "add"
        <3>1. before[PathOf(plan[i])] = Absent
            BY <2>1 DEF IsPlan
        <3>. QED
            BY <3>1 DEF LoadedFrom
    <2>. QED
        BY <2>1
<1>2. \A i \in DOMAIN plan : PathOf(plan[i]) \notin DOMAIN LoadedFrom(before)
    BY <1>1
<1>. QED
    BY <1>2, WhatLoads 

\* A server is taken back with its type's file gone first: only where validation
\* refused the two, as the type was declared already.
LEMMA TypeWasDeclared ==
    ASSUME NEW before, DOMAIN before = Path, Loadable(before),
           NEW plan, IsPlan("add", before, plan),
           NEW d, Len(plan) = 2, plan[1] = Baseline(d.serverType), plan[2] = d, d.kind = "server",
           NEW contents, DOMAIN contents = Path, NEW spoiled,
           FilesAre(contents, before, plan, 1, 2, spoiled),
           ~Duplicated(LoadedFrom(contents)),
           Duplicated(LoadedFrom(Over(before, plan, 0, 2)))
    PROVE  Exists(LoadedFrom(before), "serverType", d.serverType)
<1>. DEFINE whole == Over(before, plan, 0, 2)
            all == LoadedFrom(whole)
            old == LoadedFrom(before)
            new == LoadedFrom(contents)
<1>1. FilesAre(whole, before, plan, 0, 2, {}) /\ DOMAIN whole = Path
    BY DEF FilesAre, Over
<1>2. Brings(before, whole, plan, 0, 2)
    BY <1>1, AddLoads
<1>3. Brings(before, contents, plan, 1, 2)
    BY AddLoads
<1>4. /\ \A f \in DOMAIN all : all[f] = whole[f]
      /\ \A f \in DOMAIN new : new[f] = contents[f]
      /\ \A f \in DOMAIN old : old[f] = before[f]
    BY DEF LoadedFrom
<1>5. ~Duplicated(old)
    BY DEF Loadable, Valid, Consistent
<1>. HIDE DEF whole
<1>6. PICK f \in DOMAIN all, g \in DOMAIN all : f # g /\ Key(whole[f]) = Key(whole[g])
    BY <1>4 DEF Duplicated, whole
<1>. DEFINE Old(x) == x \in DOMAIN old /\ x \in DOMAIN new /\ whole[x] = before[x]
                      /\ contents[x] = before[x]
            Type(x) == whole[x] = plan[1] /\ x = PathOf(plan[1])
            Server(x) == whole[x] = plan[2] /\ x = PathOf(plan[2])
<1>7. \A x \in DOMAIN all : Old(x) \/ Type(x) \/ Server(x)
    <2>1. \A i \in 0 + 1..2 : i = 1 \/ i = 2
        OBVIOUS
    <2>. QED
        BY <1>2, <1>3, <2>1 DEF Brings, whole
<1>8. plan[2] \in All(new)
    <2>1. 2 \in 1 + 1..2
        OBVIOUS
    <2>. QED
        BY <1>3, <2>1 DEF Brings
<1>9. PICK s \in DOMAIN new : contents[s] = plan[2]
    BY <1>4, <1>8 DEF All
<1>10. Key(plan[1]) # Key(plan[2]) /\ plan[1].kind = "serverType" /\ plan[1].id = d.serverType
    BY DEF Key, Baseline
<1>11. \A x \in DOMAIN all : Server(x) => x \notin DOMAIN old
    <2>1. \A i \in DOMAIN plan : PathOf(plan[i]) \notin DOMAIN old
        BY DEF IsPlan, LoadedFrom
    <2>2. 2 \in DOMAIN plan
        BY LenProperties DEF IsPlan
    <2>. QED
        BY <2>1, <2>2
<1>12. ASSUME NEW x \in DOMAIN all, NEW y \in DOMAIN all, x # y, Old(x), Old(y)
       PROVE  Key(whole[x]) # Key(whole[y])
    BY <1>4, <1>5, <1>12 DEF Duplicated
<1>13. ASSUME NEW x \in DOMAIN all, NEW y \in DOMAIN all, Old(x), Server(y)
       PROVE  Key(whole[x]) # Key(whole[y])
    <2>1. x # s \/ contents[x] = plan[2]
        BY <1>9
    <2>2. CASE x # s
        <3>1. Key(contents[x]) # Key(contents[s])
            BY <1>4, <1>13, <2>2 DEF Duplicated
        <3>. QED
            BY <1>9, <1>13, <3>1
    <2>3. CASE x = s
        <3>1. before[x] = d
            BY <1>9, <1>13, <2>3
        <3>2. \A i \in 1 + 1..2 : i = 2
            OBVIOUS
        <3>3. y \notin DOMAIN old
            BY <1>11, <1>13
        <3>4. y = PathOf(plan[2])
            BY <1>13
        <3>5. contents[y] = plan[2] /\ y \in DOMAIN new
            <4>1. 2 \in 1 + 1..2 /\ 2 \in Nat /\ 1 \in Nat /\ 2 <= Len(plan)
                OBVIOUS
            <4>2. \A i \in 1 + 1..2 : i \in DOMAIN plan /\ PathOf(plan[i]) \in Path
                                      /\ contents[PathOf(plan[i])] = plan[i]
                BY <4>1, FilesHold
            <4>3. plan[2] \notin {Absent, Blank, Torn}
                BY <4>1, PlanIs, DocumentsAreWhole
            <4>. QED
                BY <3>4, <4>1, <4>2, <4>3 DEF LoadedFrom
        <3>6. x # y
            BY <1>13, <3>3
        <3>. QED
            BY <1>4, <1>13, <3>1, <3>5, <3>6 DEF Duplicated
    <2>. QED
        BY <2>2, <2>3
<1>14. ASSUME NEW x \in DOMAIN all, NEW y \in DOMAIN all, Old(x), Type(y),
              Key(whole[x]) = Key(whole[y])
       PROVE  Exists(old, "serverType", d.serverType)
    <2>1. before[x].kind = "serverType" /\ before[x].id = d.serverType
        BY <1>10, <1>14 DEF Key
    <2>2. before[x] \in All(old)
        BY <1>4, <1>14 DEF All
    <2>. QED
        BY <2>1, <2>2 DEF Exists, Resources
<1>. QED
    BY <1>6, <1>7, <1>10, <1>12, <1>13, <1>14

\* Wherever an `add` is cut short or stops to be taken back, a project that
\* loaded loads, unless a file is torn or the id it adds was taken.
LEMMA AddedLoads ==
    ASSUME NEW before, DOMAIN before = Path, Loadable(before), TypesAreNamed(before),
           NEW plan, IsPlan("add", before, plan),
           NEW contents, DOMAIN contents = Path,
           NEW m \in Nat, NEW k \in Nat, m <= k, k <= Len(plan), NEW spoiled,
           FilesAre(contents, before, plan, m, k, spoiled),
           \A f \in Path : contents[f] # Torn, ~Duplicated(LoadedFrom(contents)),
           m > 0 /\ k = Len(plan) => Duplicated(LoadedFrom(Over(before, plan, 0, k)))
    PROVE  Loadable(contents)
<1>. DEFINE old == LoadedFrom(before)
            new == LoadedFrom(contents)
<1>1. Brings(before, contents, plan, m, k)
    BY AddLoads
<1>2. Consistent(old)
    BY DEF Loadable, Valid
<1>3. PICK d \in Additions :
        /\ \/ /\ d.kind = "server" /\ before[<<"serverType", d.serverType>>] = Absent
              /\ Len(plan) = 2 /\ plan[1] = Baseline(d.serverType) /\ plan[2] = d
           \/ /\ d.kind = "server" => before[<<"serverType", d.serverType>>] # Absent
              /\ Len(plan) = 1 /\ plan[1] = d
        /\ d.kind \in {"server", "serverType", "sshKey"}
        /\ d.kind = "server" => ServerNetworkOK(d)
        /\ d.kind = "serverType" => d = Baseline(d.id)
        /\ d.kind = "sshKey" => SshKeyOK(d)
    BY AddedIs
<1>4. All(new) = All(old) \cup {plan[i] : i \in m + 1..k}
      /\ ~Misplaced(new) /\ Held(contents) # {}
    BY <1>1 DEF Brings
<1>5. \A i \in m + 1..k : \/ plan[i] = d
                          \/ Len(plan) = 2 /\ i = 1 /\ plan[i] = Baseline(d.serverType)
    <2>1. \A i \in m + 1..k : i \in 1..Len(plan)
        BY <1>3
    <2>. QED
        BY <1>3, <2>1
<1>6. \A e \in All(new) \ All(old) : e = d \/ e = Baseline(d.serverType)
    BY <1>4, <1>5
<1>7. \A id : Baseline(id).kind = "serverType" /\ Baseline(id).id = id
    BY DEF Baseline
<1>8. \A e \in All(new) \ All(old) : e.kind \in {"server", "serverType", "sshKey"}
    BY <1>3, <1>6, <1>7
<1>9. Extends(new, old)
    BY <1>4, <1>8 DEF Extends, Grown
<1>10. ServicesUnique(new)
    <2>1. Resources(new, "service") = Resources(old, "service")
        BY <1>4, <1>8 DEF Resources
    <2>. QED
        BY <1>2, <2>1 DEF Consistent, ServicesUnique
<1>11. \A kind, id : Exists(old, kind, id) => Exists(new, kind, id)
    BY <1>4 DEF Exists, Resources
<1>12. ASSUME d.kind = "server", d \in All(new) \ All(old)
       PROVE  Exists(new, "serverType", d.serverType)
    <2>1. CASE before[<<"serverType", d.serverType>>] # Absent
        <3>. DEFINE path == <<"serverType", d.serverType>>
        <3>1. path \in Held(before) /\ path[1] = "serverType" /\ path[2] = d.serverType
            BY <1>12, <2>1, WritesAssumption DEF Held
        <3>. HIDE DEF path
        <3>. QED
            BY <1>11, <3>1 DEF TypesAreNamed
    <2>2. CASE Len(plan) = 2 /\ plan[1] = Baseline(d.serverType) /\ plan[2] = d
        <3>1. 2 \in m + 1..k
            <4>1. PICK i \in m + 1..k : plan[i] = d
                BY <1>4, <1>12
            <4>2. i # 1
                BY <1>7, <1>12, <2>2, <4>1
            <4>3. i \in 1..2
                BY <2>2
            <4>. QED
                BY <4>2, <4>3
        <3>2. k = 2 /\ m \in {0, 1}
            BY <2>2, <3>1
        <3>3. CASE m = 0
            <4>1. 1 \in m + 1..k
                BY <3>2, <3>3
            <4>2. Baseline(d.serverType) \in All(new)
                BY <1>4, <2>2, <4>1
            <4>. QED
                BY <1>7, <4>2 DEF Exists, Resources
        <3>4. CASE m = 1
            <4>1. FilesAre(contents, before, plan, 1, 2, spoiled)
                BY <3>2, <3>4
            <4>2. Duplicated(LoadedFrom(Over(before, plan, 0, 2)))
                BY <2>2, <3>2, <3>4
            <4>3. Exists(old, "serverType", d.serverType)
                BY <1>12, <2>2, <4>1, <4>2, TypeWasDeclared
            <4>. QED
                BY <1>11, <4>3
        <3>. QED
            BY <3>2, <3>3, <3>4
    <2>. QED
        BY <1>3, <1>12, <2>1, <2>2
<1>13. ASSUME NEW e \in All(new) \ All(old) PROVE ReferencesOK(new, e)
    <2>1. CASE e.kind = "serverType"
        <3>1. \E id : e = Baseline(id)
            BY <1>3, <1>6, <2>1
        <3>. QED
            BY <3>1, BaselineIsOK
    <2>2. CASE e.kind = "server"
        <3>1. e = d
            BY <1>6, <1>7, <2>2
        <3>2. ServerOK(new, d)
            BY <1>3, <1>12, <2>2, <3>1 DEF ServerOK
        <3>. QED
            BY <2>2, <3>1, <3>2 DEF ReferencesOK
    <2>3. CASE e.kind = "sshKey"
        <3>1. e = d
            BY <1>6, <1>7, <2>3
        <3>. QED
            BY <1>3, <2>3, <3>1 DEF ReferencesOK
    <2>. QED
        BY <1>8, <2>1, <2>2, <2>3
<1>14. Consistent(new)
    BY <1>2, <1>9, <1>10, <1>13, GrowthIsConsistent
<1>. QED
    BY <1>4, <1>14 DEF Loadable, Valid

\* A completed import into a project it fits leaves one that loads.
LEMMA ImportedLoads ==
    ASSUME NEW before, DOMAIN before = Path, Loadable(before),
           NEW plan, IsPlan("import", before, plan),
           Fits(before, Elements(plan)),
           NEW contents, DOMAIN contents = Path,
           FilesAre(contents, before, plan, 0, Len(plan), {})
    PROVE  Loadable(contents)
<1>. DEFINE old == LoadedFrom(before)
            new == LoadedFrom(contents)
            documents == Elements(plan)
            k == Len(plan)
<1>0. k \in Nat /\ DOMAIN plan = 1..k
      /\ \A i \in 1..k : plan[i] \in documents
    <2>1. Len(plan) \in Nat /\ DOMAIN plan = 1..Len(plan)
        BY LenProperties DEF IsPlan
    <2>. QED
        BY <2>1 DEF Elements
<1>1. /\ \A d \in documents : \A f \in DOMAIN old : Key(old[f]) # Key(d) /\ f # PathOf(d)
      /\ MayMerge(old, documents)
    BY DEF Fits, MayMerge
<1>2. \A i \in DOMAIN plan : PathOf(plan[i]) \notin DOMAIN old
    BY <1>0, <1>1
<1>3. Brings(before, contents, plan, 0, k)
    BY <1>0, <1>2, AddLoads
<1>4. \A f \in Path : contents[f] # Torn
    <2>. DEFINE none == {}
    <2>1. k <= Len(plan) /\ 0 \in Nat /\ FilesAre(contents, before, plan, 0, k, none)
        BY <1>0
    <2>. HIDE DEF k, none
    <2>2. \A f \in Path : contents[f] # Torn \/ f \in none
        BY <1>0, <1>2, <2>1, WhatLoads
    <2>. QED
        BY <2>2 DEF none
<1>5. /\ All(new) = All(old) \cup documents
      /\ ~Misplaced(new) /\ Held(contents) # {}
    <2>1. {plan[i] : i \in 0 + 1..k} = documents
        BY <1>0 DEF Elements
    <2>. QED
        BY <1>3, <2>1 DEF Brings
<1>6. Consistent(old)
    BY DEF Loadable, Valid
<1>7. /\ \A f \in DOMAIN new : new[f] = contents[f]
      /\ \A f \in DOMAIN old : old[f] = before[f]
    BY DEF LoadedFrom
<1>8. \A f \in DOMAIN new :
        \/ f \in DOMAIN old /\ contents[f] = before[f]
        \/ \E i \in 1..k : f = PathOf(plan[i]) /\ contents[f] = plan[i]
    <2>1. \A i \in 0 + 1..k : i \in 1..k
        BY <1>0
    <2>. QED
        BY <1>3, <2>1 DEF Brings
<1>. HIDE DEF old, new, documents
<1>9. ~Duplicated(new)
    <2>. SUFFICES ASSUME NEW f \in DOMAIN new, NEW g \in DOMAIN new, f # g
                  PROVE  Key(contents[f]) # Key(contents[g])
        BY <1>7 DEF Duplicated
    <2>1. CASE /\ f \in DOMAIN old /\ contents[f] = before[f]
               /\ g \in DOMAIN old /\ contents[g] = before[g]
        BY <1>6, <1>7, <2>1 DEF Consistent, Duplicated
    <2>2. ASSUME NEW i \in 1..k, f = PathOf(plan[i]), contents[f] = plan[i],
                 NEW j \in 1..k, g = PathOf(plan[j]), contents[g] = plan[j]
          PROVE  Key(contents[f]) # Key(contents[g])
        BY <2>2, PathIsKey
    <2>3. ASSUME NEW i \in 1..k, contents[f] = plan[i], g \in DOMAIN old, contents[g] = before[g]
          PROVE  Key(contents[f]) # Key(contents[g])
        BY <1>0, <1>1, <1>7, <2>3
    <2>4. ASSUME NEW i \in 1..k, contents[g] = plan[i], f \in DOMAIN old, contents[f] = before[f]
          PROVE  Key(contents[f]) # Key(contents[g])
        BY <1>0, <1>1, <1>7, <2>4
    <2>. QED
        BY <1>8, <2>1, <2>2, <2>3, <2>4
<1>10. AreInPlace(documents)
    <2>1. PICK b \in Blueprints : ~Imported(b, Targets).failed
                                  /\ plan = Imported(b, Targets).documents
        BY DEF IsPlan
    <2>2. IsBlueprint(b)
        BY ContentsAssumption
    <2>. QED
        BY <2>1, <2>2, ImportedInPlace DEF documents
<1>11. Consistent(new)
    BY <1>1, <1>5, <1>6, <1>9, <1>10, MergeIsConsistent
<1>. QED
    BY <1>4, <1>5, <1>11 DEF Loadable, Valid, new

-----------------------------------------------------------------------------
\* A command reads the project it wrote: what it loaded is what the files it
\* has read hold, and it was asked to read them all.
IsRead(me, contents) ==
    /\ Held(contents) # {}
    /\ me.unread \subseteq Held(contents)
    /\ me.loaded = [f \in {g \in Held(contents) \ me.unread : contents[g] # Blank} |-> contents[f]]
    /\ \A f \in Held(contents) \ me.unread : contents[f] # Torn

\* So in the end it has loaded what there is.
LEMMA AllIsRead ==
    ASSUME NEW me, NEW contents, DOMAIN contents = Path, IsRead(me, contents), me.unread = {}
    PROVE  /\ me.loaded = LoadedFrom(contents) /\ Held(contents) # {}
           /\ \A f \in Path : contents[f] # Torn
<1>1. \A f \in Path : f \in Held(contents) <=> contents[f] # Absent
    BY DEF Held
<1>2. Torn # Absent
    BY DEF Torn, Absent
<1>3. \A f \in Path : contents[f] # Torn
    BY <1>1, <1>2 DEF IsRead
<1>4. Held(contents) \subseteq Path
    BY DEF Held
<1>5. {g \in Held(contents) \ me.unread : contents[g] # Blank}
        = {g \in DOMAIN contents : contents[g] \notin {Absent, Blank, Torn}}
    BY <1>1, <1>3, <1>4
<1>. QED
    BY <1>3, <1>5 DEF IsRead, LoadedFrom

-----------------------------------------------------------------------------
(* Where a writing command is.                                             *)

\* One process writes.
OneAuthor == \A p, q \in Author : p = q

\* Only authors write, `add` takes back, and an import reads nothing after it.
RoleOf(p, me) ==
    /\ me.command \in {"add", "import"} => p \in Author
    /\ me.step \in {"writing", "opened", "withdrawing"} => me.command \in {"add", "import"}
    /\ me.step = "withdrawing" => me.command = "add"
    /\ me.step = "opened" => ~me.lost
    /\ me.step \in {"listing", "reading"} => me.command # "import"
    /\ me.step \in {"writing", "opened", "listing"} => me.loaded = Nothing

\* It has written the first `k` documents of a plan and taken `m` back, and is
\* about to write the rest.  What is taken back once all was written was refused
\* as a duplicate, if the project loaded before and its types are named.
IsAt(me, contents, plan, m, k, spoiled) ==
    /\ IsPlan(me.command, me.before, plan)
    /\ m <= k /\ k <= Len(plan)
    /\ FilesAre(contents, me.before, plan, m, k, spoiled)
    /\ me.written \in Seq(Path) /\ Len(me.written) = k - m
    /\ \A i \in 1..k - m : me.written[i] = PathOf(plan[m + i])
    /\ me.step # "withdrawing" =>
         /\ m = 0 /\ Len(me.plan) = Len(plan) - k
         /\ \A i \in 1..Len(plan) - k : me.plan[i] = plan[k + i]
    /\ me.step = "opened" => k < Len(plan) /\ spoiled = {PathOf(plan[k + 1])}
    /\ me.step \in {"writing", "listing", "reading"} => spoiled = {}
    /\ me.step \in {"listing", "reading"} => k = Len(plan)
    /\ me.step = "withdrawing" /\ k = Len(plan) /\ Loadable(me.before) /\ TypesAreNamed(me.before)
         => Duplicated(LoadedFrom(Over(me.before, plan, 0, k)))

\* While nobody edits the files.
Working(me, contents) ==
    me.step # "idle" /\ me.calm /\ me.command \in {"add", "import"} =>
      /\ DOMAIN me.before = Path
      /\ \E plan \in Seq(Documents), m \in Nat, k \in Nat, spoiled \in SUBSET Path :
           IsAt(me, contents, plan, m, k, spoiled)
      /\ me.step = "reading" => IsRead(me, contents)

Keeps(p, me, contents) == RoleOf(p, me) /\ Working(me, contents)

KeepInv == \A p \in Process : Keeps(p, proc[p], files)

\* Nobody writes but the one author.
LEMMA OneKeeps ==
    ASSUME OneAuthor, TypeInv, KeepInv, NEW p \in Process, NEW me, NEW later, later = files',
           proc' = [proc EXCEPT ![p] = me], Keeps(p, me, later),
           later = files \/ proc[p].command \in {"add", "import"}
    PROVE  KeepInv'
<1>1. ASSUME NEW q \in Process PROVE Keeps(q, proc'[q], later)
    <2>1. CASE q = p
        BY <2>1 DEF TypeInv
    <2>2. CASE q # p
        <3>1. proc'[q] = proc[q] /\ Keeps(q, proc[q], files)
            BY <2>2 DEF TypeInv, KeepInv
        <3>2. CASE later = files
            BY <3>1, <3>2
        <3>3. CASE proc[p].command \in {"add", "import"}
            <4>1. p \in Author
                BY <3>3 DEF KeepInv, Keeps, RoleOf
            <4>2. proc[q].command \notin {"add", "import"}
                BY <2>2, <3>1, <4>1 DEF OneAuthor, Keeps, RoleOf
            <4>. QED
                BY <3>1, <4>2 DEF Keeps, Working
        <3>. QED
            BY <3>2, <3>3
    <2>. QED
        BY <2>1, <2>2
<1>. QED
    BY <1>1 DEF KeepInv

\* An idle process.
LEMMA IdleKeeps ==
    ASSUME NEW p, NEW me, NEW contents, me.step = "idle",
           me.command \in {"add", "import"} => p \in Author
    PROVE  Keeps(p, me, contents)
BY DEF Keeps, RoleOf, Working

\* The fields of a record with other values of some.
LEMMA WithIs ==
    ASSUME NEW me, DOMAIN me = Fields, NEW fields, DOMAIN fields \subseteq Fields
    PROVE  /\ DOMAIN With(me, fields) = Fields
           /\ \A f \in Fields :
                With(me, fields)[f] = IF f \in DOMAIN fields THEN fields[f] ELSE me[f]
BY DEF With

\* A command ends.
LEMMA EndKeeps ==
    ASSUME OneAuthor, TypeInv, KeepInv, NEW p \in Process, NEW outcome, End(p, outcome),
           files' = files \/ proc[p].command \in {"add", "import"}
    PROVE  KeepInv'
<1>. DEFINE me == [NoCommand EXCEPT !.command = proc[p].command,
                     !.blueprints = proc[p].blueprints, !.outcome = outcome]
<1>1. me.step = "idle" /\ me.command = proc[p].command
    BY NoCommandIs DEF Fields
<1>2. proc' = [proc EXCEPT ![p] = me]
    BY DEF End
<1>. HIDE DEF me
<1>. DEFINE later == files'
<1>3. Keeps(p, me, later)
    BY <1>1, IdleKeeps DEF KeepInv, Keeps, RoleOf
<1>4. later = files \/ proc[p].command \in {"add", "import"}
    OBVIOUS
<1>5. later = files'
    OBVIOUS
<1>. HIDE DEF later
<1>. QED
    BY <1>2, <1>3, <1>4, <1>5, OneKeeps

\* A command goes on, and writes nothing.
LEMMA UpdateKeeps ==
    ASSUME OneAuthor, TypeInv, KeepInv, NEW p \in Process, NEW fields, Update(p, fields),
           UNCHANGED files, Keeps(p, With(proc[p], fields), files)
    PROVE  KeepInv'
<1>. DEFINE me == With(proc[p], fields)
<1>1. proc' = [proc EXCEPT ![p] = me]
    BY DEF Update, TypeInv
<1>2. Keeps(p, me, files)
    OBVIOUS
<1>. HIDE DEF me
<1>. QED
    BY <1>1, <1>2, OneKeeps

-----------------------------------------------------------------------------
\* A command that starts and ends at once, or reads.
LEMMA ReadStarts ==
    ASSUME OneAuthor, TypeInv, KeepInv, NEW p \in Process, NEW command, NEW fields,
           Start(p, command, fields), DOMAIN fields \subseteq {"step", "loaded", "outcome"},
           \/ /\ "step" \notin DOMAIN fields
              /\ command \in {"add", "import"} => p \in Author
           \/ /\ "step" \in DOMAIN fields /\ fields["step"] = "listing"
              /\ "loaded" \notin DOMAIN fields
              /\ command \notin {"add", "import"}
    PROVE  KeepInv'
<1>. DEFINE base == [NoCommand EXCEPT !.command = command, !.before = files]
            me == With(base, fields)
<1>1. /\ DOMAIN base = Fields /\ base["command"] = command
      /\ base["step"] = "idle" /\ base["loaded"] = Nothing
    BY NoCommandIs DEF Fields
<1>2. proc' = [proc EXCEPT ![p] = me] /\ UNCHANGED files
    BY DEF Start
<1>. HIDE DEF base
<1>3. /\ DOMAIN me = Fields
      /\ \A f \in Fields : me[f] = IF f \in DOMAIN fields THEN fields[f] ELSE base[f]
    BY <1>1, WithIs DEF Fields
<1>. HIDE DEF me
<1>4. {"step", "loaded", "command"} \subseteq Fields /\ "command" \notin DOMAIN fields
    BY DEF Fields
<1>5. me["command"] = command
    BY <1>1, <1>3, <1>4
<1>6. Keeps(p, me, files)
    <2>1. CASE "step" \notin DOMAIN fields
        <3>1. me["step"] = "idle"
            BY <1>1, <1>3, <1>4, <2>1
        <3>. QED
            BY <1>5, <2>1, <3>1, IdleKeeps
    <2>2. CASE /\ "step" \in DOMAIN fields /\ fields["step"] = "listing"
               /\ "loaded" \notin DOMAIN fields
               /\ command \notin {"add", "import"}
        <3>1. me["step"] = "listing" /\ me["loaded"] = Nothing
            BY <1>1, <1>3, <1>4, <2>2
        <3>. QED
            BY <1>5, <2>2, <3>1 DEF Keeps, RoleOf, Working
    <2>. QED
        BY <2>1, <2>2
<1>. QED
    BY <1>2, <1>6, OneKeeps

\* A command that starts to write.
LEMMA WriteStarts ==
    ASSUME OneAuthor, TypeInv, KeepInv, NEW p \in Author, NEW command \in {"add", "import"},
           NEW plan, IsPlan(command, files, plan), NEW fields, Start(p, command, fields),
           DOMAIN fields \in {{"step", "plan"}, {"step", "plan", "blueprints"}},
           fields["step"] = "writing", fields["plan"] = plan
    PROVE  KeepInv'
<1>. DEFINE base == [NoCommand EXCEPT !.command = command, !.before = files]
            me == With(base, fields)
<1>1. /\ DOMAIN base = Fields /\ base["command"] = command /\ base["before"] = files
      /\ base["written"] = <<>> /\ base["loaded"] = Nothing /\ base["step"] = "idle"
    BY NoCommandIs DEF Fields
<1>2. proc' = [proc EXCEPT ![p] = me] /\ UNCHANGED files
    BY DEF Start
<1>. HIDE DEF base
<1>3. /\ DOMAIN me = Fields
      /\ \A f \in Fields : me[f] = IF f \in DOMAIN fields THEN fields[f] ELSE base[f]
    BY <1>1, WithIs DEF Fields
<1>. HIDE DEF me
<1>4. {"step", "plan", "command", "before", "written", "loaded"} \subseteq Fields
    BY DEF Fields
<1>5. /\ me["command"] = command /\ me["before"] = files /\ me["written"] = <<>>
      /\ me["loaded"] = Nothing /\ me["step"] = "writing" /\ me["plan"] = plan
    BY <1>1, <1>3, <1>4
<1>6. RoleOf(p, me)
    BY <1>5 DEF RoleOf
<1>7. plan \in Seq(Documents) /\ Len(plan) \in Nat
    BY LenProperties DEF IsPlan
<1>8. FilesAre(files, files, plan, 0, 0, {})
    BY NothingWritten DEF FilesAre
<1>9. IsAt(me, files, plan, 0, 0, {})
    <2>1. me.written \in Seq(Path) /\ Len(me.written) = 0
        BY <1>5, EmptySeq
    <2>2. \A i \in 1..Len(plan) - 0 : me.plan[i] = plan[0 + i]
        BY <1>5, <1>7
    <2>3. IsPlan(me.command, me.before, plan) /\ FilesAre(files, me.before, plan, 0, 0, {})
        BY <1>5, <1>8
    <2>4. me.step = "writing" /\ Len(me.plan) = Len(plan) - 0
        BY <1>5, <1>7
    <2>. QED
        BY <1>7, <2>1, <2>2, <2>3, <2>4 DEF IsAt
<1>10. Working(me, files)
    <2>1. DOMAIN files = Path
        BY DEF TypeInv
    <2>2. {} \in SUBSET Path /\ 0 \in Nat
        OBVIOUS
    <2>. QED
        BY <1>5, <1>7, <1>9, <2>1, <2>2 DEF Working
<1>. QED
    BY <1>2, <1>6, <1>10, OneKeeps DEF Keeps, Process

\* The commands that start.
LEMMA BeginKeeps ==
    ASSUME OneAuthor, TypeInv, KeepInv,
           \/ \E p \in Author : BeginAdd(p) \/ BeginImport(p)
           \/ \E p \in Reader : BeginRead(p) \/ ReadAnsible(p)
    PROVE  KeepInv'
<1>0. Author \subseteq Process /\ Reader \subseteq Process
    BY DEF Process
<1>1. ASSUME NEW p \in Process, NEW command, NEW outcome,
             command \in {"add", "import"} => p \in Author,
             Start(p, command, [outcome |-> outcome])
      PROVE  KeepInv'
    <2>. DEFINE fields == [outcome |-> outcome]
    <2>1. DOMAIN fields = {"outcome"} /\ Start(p, command, fields)
        BY <1>1
    <2>. HIDE DEF fields
    <2>. QED
        BY <1>1, <2>1, ReadStarts
<1>2. ASSUME NEW p \in Author, BeginAdd(p)
      PROVE  KeepInv'
    <2>1. ASSUME NEW d \in Additions,
                 \A i \in DOMAIN Planned(d) : files[PathOf(Planned(d)[i])] = Absent,
                 Start(p, "add", [step |-> "writing", plan |-> Planned(d)])
          PROVE  KeepInv'
        <3>. DEFINE fields == [step |-> "writing", plan |-> Planned(d)]
                    plan == Planned(d)
        <3>1. /\ DOMAIN fields = {"step", "plan"} /\ Start(p, "add", fields)
              /\ fields["step"] = "writing" /\ fields["plan"] = plan
            BY <2>1
        <3>2. IsPlan("add", files, plan)
            BY <2>1, AddPlans
        <3>. HIDE DEF fields, plan
        <3>. QED
            BY <3>1, <3>2, WriteStarts
    <2>. QED
        BY <1>0, <1>1, <1>2, <2>1 DEF BeginAdd
<1>3. ASSUME NEW p \in Author, BeginImport(p)
      PROVE  KeepInv'
    <2>1. PICK b \in Blueprints :
            \/ Start(p, "import", [outcome |-> "refused"])
            \/ /\ ~Imported(b, Targets).failed
               /\ Start(p, "import", [step |-> "writing", plan |-> Imported(b, Targets).documents,
                                      blueprints |-> {b}])
        BY <1>3 DEF BeginImport
    <2>2. ASSUME ~Imported(b, Targets).failed,
                 Start(p, "import", [step |-> "writing", plan |-> Imported(b, Targets).documents,
                                     blueprints |-> {b}])
          PROVE  KeepInv'
        <3>. DEFINE fields == [step |-> "writing", plan |-> Imported(b, Targets).documents,
                               blueprints |-> {b}]
                    plan == Imported(b, Targets).documents
        <3>1. /\ DOMAIN fields = {"step", "plan", "blueprints"} /\ Start(p, "import", fields)
              /\ fields["step"] = "writing" /\ fields["plan"] = plan
            BY <2>2
        <3>2. IsPlan("import", files, plan)
            BY <2>2, ImportPlans
        <3>. HIDE DEF fields, plan
        <3>. QED
            BY <3>1, <3>2, WriteStarts
    <2>. QED
        BY <1>0, <1>1, <2>1, <2>2
<1>4. ASSUME NEW p \in Reader, BeginRead(p)
      PROVE  KeepInv'
    <2>. DEFINE fields == [step |-> "listing"]
    <2>1. DOMAIN fields = {"step"} /\ fields["step"] = "listing" /\ Start(p, "read", fields)
        BY <1>4 DEF BeginRead
    <2>. HIDE DEF fields
    <2>. QED
        BY <1>0, <2>1, ReadStarts
<1>5. ASSUME NEW p \in Reader, ReadAnsible(p)
      PROVE  KeepInv'
    <2>1. PICK hosts \in Fleets :
            \/ Start(p, "read", [loaded |-> FleetDocuments(hosts), outcome |-> "read"])
            \/ Start(p, "read", [outcome |-> "refused"])
        BY <1>5 DEF ReadAnsible
    <2>2. CASE Start(p, "read", [loaded |-> FleetDocuments(hosts), outcome |-> "read"])
        <3>. DEFINE fields == [loaded |-> FleetDocuments(hosts), outcome |-> "read"]
        <3>1. DOMAIN fields = {"loaded", "outcome"} /\ Start(p, "read", fields)
            BY <2>2
        <3>. HIDE DEF fields
        <3>. QED
            BY <1>0, <3>1, ReadStarts
    <2>. QED
        BY <1>0, <1>1, <2>1, <2>2
<1>. QED
    BY <1>2, <1>3, <1>4, <1>5

-----------------------------------------------------------------------------
(* Its steps.                                                              *)

\* What a process that writes has in front of it.
LEMMA AheadIs ==
    ASSUME NEW me, IsTyped(me), me.step \in {"writing", "opened"},
           NEW contents, NEW plan \in Seq(Documents), NEW m \in Nat, NEW k \in Nat, NEW spoiled,
           IsAt(me, contents, plan, m, k, spoiled)
    PROVE  /\ m = 0 /\ k < Len(plan) /\ Len(plan) \in Nat
           /\ Head(me.plan) = plan[k + 1] /\ Len(me.plan) = Len(plan) - k
           /\ PathOf(plan[k + 1]) \in Path
           /\ spoiled \subseteq {PathOf(plan[k + 1])}
<1>1. me.plan \in Seq(Documents) /\ me.plan # <<>>
    BY DEF IsTyped
<1>2. Len(me.plan) \in Nat /\ Len(me.plan) # 0 /\ Head(me.plan) = me.plan[1]
    BY <1>1, LenProperties, EmptySeq, HeadTailProperties
<1>3. /\ m = 0 /\ Len(me.plan) = Len(plan) - k
      /\ \A i \in 1..Len(plan) - k : me.plan[i] = plan[k + i]
      /\ IsPlan(me.command, me.before, plan) /\ k <= Len(plan)
      /\ FilesAre(contents, me.before, plan, m, k, spoiled)
    BY DEF IsAt
<1>4. Len(plan) \in Nat
    BY LenProperties
<1>5. k < Len(plan) /\ 1 \in 1..Len(plan) - k
    BY <1>2, <1>3, <1>4
<1>6. PathOf(plan[k + 1]) \in Path
    BY <1>3, <1>4, <1>5, PlanIs
<1>7. spoiled \subseteq {PathOf(plan[k + 1])}
    BY <1>3 DEF FilesAre
<1>. QED
    BY <1>2, <1>3, <1>4, <1>5, <1>6, <1>7

\* It stops, and takes back from where it is.
LEMMA StopsAt ==
    ASSUME NEW me, DOMAIN me = Fields, me.command = "add", me.step # "withdrawing",
           NEW contents, NEW plan, NEW m, NEW k, NEW spoiled,
           IsAt(me, contents, plan, m, k, spoiled),
           NEW later, NEW left, FilesAre(later, me.before, plan, m, k, left),
           k = Len(plan) /\ Loadable(me.before) /\ TypesAreNamed(me.before)
             => Duplicated(LoadedFrom(Over(me.before, plan, 0, k))),
           NEW new, new = With(me, [step |-> "withdrawing"])
    PROVE  IsAt(new, later, plan, m, k, left)
<1>. DEFINE fields == [step |-> "withdrawing"]
<1>1. DOMAIN fields = {"step"} /\ fields["step"] = "withdrawing"
    OBVIOUS
<1>. HIDE DEF fields
<1>2. \A f \in Fields : new[f] = IF f \in DOMAIN fields THEN fields[f] ELSE me[f]
    BY <1>1, WithIs DEF fields, Fields
<1>3. /\ new["step"] = "withdrawing" /\ new["command"] = me["command"]
      /\ new["before"] = me["before"] /\ new["written"] = me["written"]
    BY <1>1, <1>2 DEF Fields
<1>. QED
    BY <1>3 DEF IsAt

\* An `add` that gives up takes back, any other command ends.
LEMMA GiveUpKeeps ==
    ASSUME OneAuthor, TypeInv, KeepInv, NEW p \in Process, Active(p), GiveUp(p),
           NEW later, later = files',
           later = files \/ proc[p].command \in {"add", "import"},
           proc[p].step # "withdrawing",
           proc[p].command = "add" /\ proc[p].calm =>
             \E plan \in Seq(Documents), m \in Nat, k \in Nat, spoiled \in SUBSET Path,
                left \in SUBSET Path :
               /\ IsAt(proc[p], files, plan, m, k, spoiled)
               /\ FilesAre(later, proc[p].before, plan, m, k, left)
               /\ k = Len(plan) /\ Loadable(proc[p].before) /\ TypesAreNamed(proc[p].before)
                    => Duplicated(LoadedFrom(Over(proc[p].before, plan, 0, k)))
    PROVE  KeepInv'
<1>1. CASE proc[p].command # "add"
    BY <1>1, EndKeeps DEF GiveUp
<1>2. CASE proc[p].command = "add"
    <2>. DEFINE me == proc[p]
                new == With(me, [step |-> "withdrawing"])
                fields == [step |-> "withdrawing"]
    <2>1. proc' = [proc EXCEPT ![p] = new]
        BY <1>2 DEF GiveUp, Update, TypeInv
    <2>2. DOMAIN me = Fields /\ Keeps(p, me, files)
        BY DEF TypeInv, IsTyped, KeepInv
    <2>3. \A f \in Fields : new[f] = IF f \in DOMAIN fields THEN fields[f] ELSE me[f]
        <3>1. DOMAIN fields \subseteq Fields
            BY DEF Fields
        <3>. QED
            BY <2>2, <3>1, WithIs
    <2>4. /\ new["step"] = "withdrawing" /\ new["command"] = me["command"]
          /\ new["before"] = me["before"] /\ new["calm"] = me["calm"]
        BY <2>3 DEF Fields
    <2>. HIDE DEF new
    <2>5. RoleOf(p, new)
        BY <1>2, <2>2, <2>4 DEF Keeps, RoleOf
    <2>6. Working(new, later)
        <3>. SUFFICES ASSUME new.calm
                      PROVE  /\ DOMAIN new.before = Path
                             /\ \E plan \in Seq(Documents), m \in Nat, k \in Nat,
                                   spoiled \in SUBSET Path :
                                  IsAt(new, later, plan, m, k, spoiled)
            BY <2>4 DEF Working
        <3>1. DOMAIN me.before = Path
            BY <1>2, <2>2, <2>4 DEF Keeps, Working, Active
        <3>2. PICK plan \in Seq(Documents), m \in Nat, k \in Nat, spoiled \in SUBSET Path,
                   left \in SUBSET Path :
                /\ IsAt(me, files, plan, m, k, spoiled)
                /\ FilesAre(later, me.before, plan, m, k, left)
                /\ k = Len(plan) /\ Loadable(me.before) /\ TypesAreNamed(me.before)
                     => Duplicated(LoadedFrom(Over(me.before, plan, 0, k)))
            BY <1>2, <2>4
        <3>3. IsAt(new, later, plan, m, k, left)
            BY <1>2, <2>2, <3>2, StopsAt DEF new
        <3>. QED
            BY <2>4, <3>1, <3>3
    <2>. HIDE DEF me
    <2>7. Keeps(p, new, later)
        BY <2>5, <2>6 DEF Keeps
    <2>. QED
        BY <2>1, <2>7, OneKeeps
<1>. QED
    BY <1>1, <1>2

\* What is known of a command that writes while nobody edits.
LEMMA WhileCalm ==
    ASSUME TypeInv, KeepInv, NEW p \in Process, Active(p), proc[p].calm,
           proc[p].command \in {"add", "import"}
    PROVE  /\ DOMAIN proc[p].before = Path /\ DOMAIN files = Path
           /\ \E plan \in Seq(Documents), m \in Nat, k \in Nat, spoiled \in SUBSET Path :
                IsAt(proc[p], files, plan, m, k, spoiled)
           /\ proc[p].step = "reading" => IsRead(proc[p], files)
BY DEF TypeInv, KeepInv, Keeps, Working, Active

\* A write that fails.
LEMMA FailKeeps ==
    ASSUME OneAuthor, TypeInv, KeepInv, NEW p \in Process, WriteFails(p)
    PROVE  KeepInv'
<1>. DEFINE me == proc[p]
            path == Target(p)
            later == files'
<1>1. Active(p) /\ me.step \in {"writing", "opened"} /\ GiveUp(p)
    BY DEF WriteFails, Active
<1>2. /\ me.command \in {"add", "import"} /\ IsTyped(me)
    BY <1>1 DEF KeepInv, Keeps, RoleOf, TypeInv
<1>3. \/ later = files
      \/ me.step = "opened" /\ \E left \in {Blank, Torn} : later = [files EXCEPT ![path] = left]
    BY DEF WriteFails
<1>4. ASSUME me.command = "add", me.calm
      PROVE  \E plan \in Seq(Documents), m \in Nat, k \in Nat, spoiled \in SUBSET Path,
                left \in SUBSET Path :
               /\ IsAt(me, files, plan, m, k, spoiled)
               /\ FilesAre(later, me.before, plan, m, k, left)
               /\ k = Len(plan) /\ Loadable(me.before) /\ TypesAreNamed(me.before)
                    => Duplicated(LoadedFrom(Over(me.before, plan, 0, k)))
    <2>1. PICK plan \in Seq(Documents), m \in Nat, k \in Nat, spoiled \in SUBSET Path :
            IsAt(me, files, plan, m, k, spoiled)
        BY <1>1, <1>2, <1>4, WhileCalm
    <2>2. DOMAIN files = Path
        BY DEF TypeInv
    <2>3. /\ IsPlan(me.command, me.before, plan)
          /\ FilesAre(files, me.before, plan, m, k, spoiled)
        BY <2>1 DEF IsAt
    <2>. HIDE DEF later, me
    <2>4. /\ k < Len(plan) /\ Len(plan) \in Nat /\ Head(me.plan) = plan[k + 1]
          /\ PathOf(plan[k + 1]) \in Path /\ spoiled \subseteq {PathOf(plan[k + 1])}
        BY <1>1, <1>2, <2>1, AheadIs
    <2>5. path = PathOf(plan[k + 1])
        BY <2>4 DEF Target, me
    <2>6. CASE later = files
        BY <2>1, <2>3, <2>4, <2>6
    <2>7. ASSUME NEW left \in {Blank, Torn}, later = [files EXCEPT ![path] = left]
          PROVE  FilesAre(later, me.before, plan, m, k, {path})
        BY <2>2, <2>3, <2>4, <2>5, <2>7, OneOpened
    <2>8. {path} \in SUBSET Path /\ k # Len(plan)
        BY <2>4, <2>5
    <2>. QED
        BY <1>3, <2>1, <2>6, <2>7, <2>8
<1>5. later = files' /\ (later = files \/ me.command \in {"add", "import"})
      /\ me.step # "withdrawing"
    BY <1>1, <1>2
<1>. HIDE DEF later
<1>. QED
    BY <1>1, <1>4, <1>5, GiveUpKeeps

\* A file is opened.
LEMMA OpenKeeps ==
    ASSUME OneAuthor, TypeInv, KeepInv, NEW p \in Process, OpenFile(p)
    PROVE  KeepInv'
<1>. DEFINE me == proc[p]
            fields == [step |-> "opened", lost |-> FALSE]
            new == With(me, fields)
            path == Target(p)
            later == files'
<1>1. /\ me.step = "writing" /\ Active(p)
      /\ later = [files EXCEPT ![path] = Blank] /\ proc' = [proc EXCEPT ![p] = new]
    BY DEF OpenFile, Active, Update, TypeInv
<1>2. IsTyped(me) /\ DOMAIN me = Fields /\ Keeps(p, me, files) /\ DOMAIN files = Path
    BY DEF TypeInv, IsTyped, KeepInv
<1>3. \A f \in Fields : new[f] = IF f \in DOMAIN fields THEN fields[f] ELSE me[f]
    <2>1. DOMAIN fields \subseteq Fields
        BY DEF Fields
    <2>. QED
        BY <1>2, <2>1, WithIs
<1>4. /\ new["step"] = "opened" /\ new["lost"] = FALSE /\ new["command"] = me["command"]
      /\ new["before"] = me["before"] /\ new["calm"] = me["calm"]
      /\ new["written"] = me["written"] /\ new["plan"] = me["plan"]
      /\ new["loaded"] = me["loaded"]
    BY <1>3 DEF Fields
<1>5. RoleOf(p, new)
    BY <1>1, <1>2, <1>4 DEF Keeps, RoleOf
<1>6. me.command \in {"add", "import"}
    BY <1>1, <1>2 DEF Keeps, RoleOf
<1>. HIDE DEF new, fields
<1>7. Working(new, later)
    <2>. SUFFICES ASSUME me.calm
                  PROVE  /\ DOMAIN new.before = Path
                         /\ \E plan \in Seq(Documents), m \in Nat, k \in Nat,
                               spoiled \in SUBSET Path : IsAt(new, later, plan, m, k, spoiled)
        BY <1>4 DEF Working
    <2>1. PICK plan \in Seq(Documents), m \in Nat, k \in Nat, spoiled \in SUBSET Path :
            IsAt(me, files, plan, m, k, spoiled)
        BY <1>1, <1>6, WhileCalm
    <2>2. DOMAIN me.before = Path
        BY <1>1, <1>6, WhileCalm
    <2>3. /\ IsPlan(me.command, me.before, plan)
          /\ FilesAre(files, me.before, plan, m, k, spoiled)
        BY <2>1 DEF IsAt
    <2>. HIDE DEF later, me
    <2>4. /\ m = 0 /\ k < Len(plan) /\ Len(plan) \in Nat /\ Head(me.plan) = plan[k + 1]
          /\ PathOf(plan[k + 1]) \in Path /\ spoiled \subseteq {PathOf(plan[k + 1])}
        BY <1>1, <1>2, <2>1, AheadIs
    <2>5. path = PathOf(plan[k + 1])
        BY <2>4 DEF Target, me
    <2>6. FilesAre(later, me.before, plan, m, k, {path})
        BY <1>1, <1>2, <2>3, <2>4, <2>5, OneOpened
    <2>7. IsAt(new, later, plan, m, k, {path})
        BY <1>1, <1>4, <2>1, <2>4, <2>5, <2>6 DEF IsAt
    <2>. QED
        BY <1>4, <2>2, <2>4, <2>5, <2>7
<1>8. Keeps(p, new, later) /\ later = files' /\ proc' = [proc EXCEPT ![p] = new]
    BY <1>1, <1>5, <1>7 DEF Keeps
<1>. HIDE DEF later
<1>. QED
    BY <1>6, <1>8, OneKeeps

\* A file is filled.
LEMMA FillKeeps ==
    ASSUME OneAuthor, TypeInv, KeepInv, NEW p \in Process, FillFile(p)
    PROVE  KeepInv'
<1>. DEFINE me == proc[p]
            last == Len(me.plan) = 1
            path == Target(p)
            later == files'
            step == IF last THEN "listing" ELSE "writing"
            fields == [plan |-> Tail(me.plan), written |-> Append(me.written, path), step |-> step]
            new == With(me, fields)
<1>1. IsTyped(me) /\ DOMAIN me = Fields /\ Keeps(p, me, files) /\ DOMAIN files = Path
    BY DEF TypeInv, IsTyped, KeepInv
<1>2. me.step = "opened" /\ Active(p) /\ ~me.lost
    BY <1>1 DEF FillFile, Active, Keeps, RoleOf
<1>3. me.command \in {"add", "import"}
    BY <1>1, <1>2 DEF Keeps, RoleOf
<1>4. CASE End(p, "imported")
    BY <1>3, <1>4, EndKeeps
<1>5. CASE ~(last /\ me.command = "import") /\ proc' = [proc EXCEPT ![p] = new]
    <2>1. later = [files EXCEPT ![path] = Head(me.plan)]
        BY <1>2 DEF FillFile
    <2>2. \A f \in Fields : new[f] = IF f \in DOMAIN fields THEN fields[f] ELSE me[f]
        <3>1. DOMAIN fields = {"plan", "written", "step"}
            OBVIOUS
        <3>. HIDE DEF fields
        <3>2. DOMAIN fields \subseteq Fields
            BY <3>1 DEF Fields
        <3>. QED
            BY <1>1, <3>2, WithIs
    <2>3. /\ new["step"] = step /\ new["command"] = me["command"]
          /\ new["before"] = me["before"] /\ new["calm"] = me["calm"]
          /\ new["written"] = Append(me.written, path) /\ new["plan"] = Tail(me.plan)
          /\ new["loaded"] = me["loaded"]
        BY <2>2 DEF Fields
    <2>. HIDE DEF new, fields
    <2>4. /\ step \in {"listing", "writing"}
          /\ step = "listing" => last /\ me.command # "import"
        BY <1>5
    <2>5. RoleOf(p, new)
        BY <1>1, <1>2, <1>3, <2>3, <2>4 DEF Keeps, RoleOf
    <2>6. Working(new, later)
        <3>. SUFFICES ASSUME me.calm
                      PROVE  /\ DOMAIN new.before = Path
                             /\ \E plan \in Seq(Documents), m \in Nat, k \in Nat,
                                   spoiled \in SUBSET Path : IsAt(new, later, plan, m, k, spoiled)
            BY <2>3, <2>4 DEF Working
        <3>1. PICK plan \in Seq(Documents), m \in Nat, k \in Nat, spoiled \in SUBSET Path :
                IsAt(me, files, plan, m, k, spoiled)
            BY <1>2, <1>3, WhileCalm
        <3>2. DOMAIN me.before = Path
            BY <1>2, <1>3, WhileCalm
        <3>3. /\ IsPlan(me.command, me.before, plan)
              /\ FilesAre(files, me.before, plan, m, k, spoiled)
              /\ me.written \in Seq(Path) /\ Len(me.written) = k - m
              /\ \A i \in 1..k - m : me.written[i] = PathOf(plan[m + i])
              /\ \A i \in 1..Len(plan) - k : me.plan[i] = plan[k + i]
            BY <1>2, <3>1 DEF IsAt
        <3>. HIDE DEF later, me, step
        <3>4. /\ m = 0 /\ k < Len(plan) /\ Len(plan) \in Nat /\ Head(me.plan) = plan[k + 1]
              /\ Len(me.plan) = Len(plan) - k
              /\ PathOf(plan[k + 1]) \in Path /\ spoiled \subseteq {PathOf(plan[k + 1])}
            BY <1>1, <1>2, <3>1, AheadIs
        <3>5. path = PathOf(plan[k + 1])
            BY <3>4 DEF Target, me
        <3>6. FilesAre(later, me.before, plan, m, k + 1, {})
            <4>1. m <= k
                BY <3>4
            <4>2. Head(me.plan) = plan[k + 1]
                BY <3>4
            <4>3. later = [files EXCEPT ![path] = Head(me.plan)]
                BY <2>1
            <4>. DEFINE one == Head(me.plan)
            <4>4. one = plan[k + 1] /\ later = [files EXCEPT ![path] = one]
                BY <4>2, <4>3
            <4>. HIDE DEF one, path
            <4>5. later = [files EXCEPT ![path] = plan[k + 1]]
                BY <4>4
            <4>. QED
                BY <1>1, <3>3, <3>4, <3>5, <4>1, <4>5, OneFilled
        <3>. HIDE DEF path
        <3>7. /\ new.written \in Seq(Path) /\ Len(new.written) = k + 1
              /\ \A i \in 1..k + 1 : new.written[i] = PathOf(plan[i])
            <4>1. path \in Path
                BY <3>4, <3>5
            <4>2. /\ Append(me.written, path) \in Seq(Path)
                  /\ Len(Append(me.written, path)) = k + 1
                  /\ \A i \in 1..k : Append(me.written, path)[i] = me.written[i]
                  /\ Append(me.written, path)[k + 1] = path
                BY <3>3, <3>4, <4>1, AppendProperties
            <4>3. \A i \in 1..k : me.written[i] = PathOf(plan[i])
                BY <3>3, <3>4
            <4>4. \A i \in 1..k + 1 : i \in 1..k \/ i = k + 1
                OBVIOUS
            <4>. QED
                BY <2>3, <3>5, <4>2, <4>3, <4>4
        <3>8. /\ Len(new.plan) = Len(plan) - (k + 1)
              /\ \A i \in 1..Len(plan) - (k + 1) : new.plan[i] = plan[(k + 1) + i]
            <4>1. me.plan \in Seq(Documents) /\ me.plan # <<>>
                BY <1>1, <1>2 DEF IsTyped
            <4>2. /\ Len(Tail(me.plan)) = Len(me.plan) - 1
                  /\ \A i \in 1..Len(Tail(me.plan)) : Tail(me.plan)[i] = me.plan[i + 1]
                BY <4>1, HeadTailProperties
            <4>3. ASSUME NEW i \in 1..Len(plan) - (k + 1)
                  PROVE  Tail(me.plan)[i] = plan[(k + 1) + i]
                <5>1. i \in 1..Len(Tail(me.plan)) /\ i + 1 \in 1..Len(plan) - k
                    BY <3>4, <4>2
                <5>2. me.plan[i + 1] = plan[k + (i + 1)]
                    BY <3>3, <5>1
                <5>3. k + (i + 1) = (k + 1) + i
                    OBVIOUS
                <5>. QED
                    BY <4>2, <5>1, <5>2, <5>3
            <4>4. new.plan = Tail(me.plan)
                BY <2>3
            <4>5. Len(new.plan) = Len(plan) - (k + 1)
                BY <3>4, <4>2, <4>4
            <4>. QED
                BY <4>3, <4>4, <4>5
        <3>9. step = "listing" => k + 1 = Len(plan)
            BY <2>4, <3>4 DEF me
        <3>10. IsAt(new, later, plan, 0, k + 1, {})
            <4>1. /\ (k + 1) - 0 = k + 1 /\ \A i \in 1..k + 1 : 0 + i = i
                  /\ 0 <= k + 1 /\ k + 1 <= Len(plan)
                BY <3>4
            <4>2. \A i \in 1..(k + 1) - 0 : new.written[i] = PathOf(plan[0 + i])
                BY <3>7, <4>1
            <4>3. IsPlan(new.command, new.before, plan)
                  /\ FilesAre(later, new.before, plan, 0, k + 1, {})
                BY <2>3, <3>3, <3>4, <3>6
            <4>. QED
                BY <2>3, <2>4, <3>7, <3>8, <3>9, <4>1, <4>2, <4>3 DEF IsAt
        <3>11. {} \in SUBSET Path /\ 0 \in Nat /\ k + 1 \in Nat
            OBVIOUS
        <3>. QED
            BY <2>3, <3>2, <3>10, <3>11
    <2>7. Keeps(p, new, later) /\ later = files'
        BY <2>5, <2>6 DEF Keeps
    <2>. HIDE DEF later
    <2>. QED
        BY <1>3, <1>5, <2>7, OneKeeps
<1>. QED
    BY <1>4, <1>5 DEF FillFile, Update

\* A written file is taken back.
LEMMA WithdrawKeeps ==
    ASSUME OneAuthor, TypeInv, KeepInv, NEW p \in Process, Withdraw(p)
    PROVE  KeepInv'
<1>. DEFINE me == proc[p]
            path == Head(me.written)
            later == files'
            new == [me EXCEPT !.written = Tail(@)]
<1>1. IsTyped(me) /\ DOMAIN me = Fields /\ Keeps(p, me, files) /\ DOMAIN files = Path
    BY DEF TypeInv, IsTyped, KeepInv
<1>2. me.step = "withdrawing" /\ Active(p)
    BY DEF Withdraw, Active
<1>3. me.command = "add" /\ p \in Author
    BY <1>1, <1>2 DEF Keeps, RoleOf
<1>4. CASE \E outcome : End(p, outcome)
    BY <1>3, <1>4, EndKeeps
<1>5. CASE /\ me.written # <<>>
           /\ later = [files EXCEPT ![path] = Absent]
           /\ proc' = [q \in Process |->
                         IF q = p THEN new
                         ELSE IF proc[q].step = "opened" /\ Target(q) = path
                         THEN [proc[q] EXCEPT !.lost = TRUE]
                         ELSE proc[q]]
    <2>1. \A q \in Process : q # p => proc[q].step # "opened"
        BY <1>3 DEF KeepInv, Keeps, RoleOf, OneAuthor
    <2>2. proc' = [q \in Process |-> IF q = p THEN new ELSE proc[q]]
        BY <1>5, <2>1
    <2>3. proc' = [proc EXCEPT ![p] = new]
        BY <2>2 DEF TypeInv
    <2>4. /\ new.step = me.step /\ new.command = me.command /\ new.before = me.before
          /\ new.calm = me.calm /\ new.written = Tail(me.written)
        BY <1>1 DEF Fields
    <2>. HIDE DEF new
    <2>5. RoleOf(p, new)
        BY <1>2, <1>3, <2>4 DEF RoleOf
    <2>6. Working(new, later)
        <3>. SUFFICES ASSUME me.calm
                      PROVE  /\ DOMAIN new.before = Path
                             /\ \E plan \in Seq(Documents), m \in Nat, k \in Nat,
                                   spoiled \in SUBSET Path : IsAt(new, later, plan, m, k, spoiled)
            BY <1>2, <2>4 DEF Working
        <3>1. PICK plan \in Seq(Documents), m \in Nat, k \in Nat, spoiled \in SUBSET Path :
                IsAt(me, files, plan, m, k, spoiled)
            BY <1>2, <1>3, WhileCalm
        <3>2. DOMAIN me.before = Path
            BY <1>2, <1>3, WhileCalm
        <3>3. /\ IsPlan("add", me.before, plan) /\ k <= Len(plan)
              /\ FilesAre(files, me.before, plan, m, k, spoiled)
              /\ me.written \in Seq(Path) /\ Len(me.written) = k - m
              /\ \A i \in 1..k - m : me.written[i] = PathOf(plan[m + i])
              /\ k = Len(plan) /\ Loadable(me.before) /\ TypesAreNamed(me.before)
                   => Duplicated(LoadedFrom(Over(me.before, plan, 0, k)))
            BY <1>2, <1>3, <3>1 DEF IsAt
        <3>. HIDE DEF later, me
        <3>4. Len(me.written) \in Nat /\ Len(me.written) # 0 /\ path = me.written[1]
            BY <1>5, <3>3, LenProperties, EmptySeq, HeadTailProperties DEF me
        <3>5. m < k /\ 1 \in 1..k - m /\ path = PathOf(plan[m + 1])
            <4>1. m < k /\ 1 \in 1..k - m
                BY <3>3, <3>4
            <4>2. me.written[1] = PathOf(plan[m + 1])
                BY <3>3, <4>1
            <4>. QED
                BY <3>4, <4>1, <4>2
        <3>. HIDE DEF path
        <3>6. FilesAre(later, me.before, plan, m + 1, k, spoiled)
            BY <1>1, <1>5, <3>3, <3>5, OneTakenBack
        <3>7. /\ new.written \in Seq(Path) /\ Len(new.written) = k - (m + 1)
              /\ \A i \in 1..k - (m + 1) : new.written[i] = PathOf(plan[(m + 1) + i])
            <4>1. me.written \in Seq(Path) /\ me.written # <<>>
                BY <1>5, <3>3
            <4>2. /\ Tail(me.written) \in Seq(Path)
                  /\ Len(Tail(me.written)) = Len(me.written) - 1
                  /\ \A i \in 1..Len(Tail(me.written)) : Tail(me.written)[i] = me.written[i + 1]
                BY <4>1, HeadTailProperties
            <4>3. ASSUME NEW i \in 1..k - (m + 1)
                  PROVE  Tail(me.written)[i] = PathOf(plan[(m + 1) + i])
                <5>1. i \in 1..Len(Tail(me.written)) /\ i + 1 \in 1..k - m
                    BY <3>3, <4>2
                <5>2. me.written[i + 1] = PathOf(plan[m + (i + 1)])
                    BY <3>3, <5>1
                <5>3. m + (i + 1) = (m + 1) + i
                    OBVIOUS
                <5>. QED
                    BY <4>2, <5>1, <5>2, <5>3
            <4>4. new.written = Tail(me.written)
                BY <2>4
            <4>5. Len(new.written) = k - (m + 1)
                BY <3>3, <4>2, <4>4
            <4>. QED
                BY <4>2, <4>3, <4>4, <4>5
        <3>8. IsAt(new, later, plan, m + 1, k, spoiled)
            <4>1. m + 1 <= k
                BY <3>5
            <4>. QED
                BY <1>2, <1>3, <2>4, <3>3, <3>6, <3>7, <4>1 DEF IsAt
        <3>. QED
            BY <2>4, <3>2, <3>8
    <2>7. Keeps(p, new, later) /\ later = files'
        BY <2>5, <2>6 DEF Keeps
    <2>. HIDE DEF later
    <2>. QED
        BY <1>3, <2>3, <2>7, OneKeeps
<1>. QED
    BY <1>4, <1>5 DEF Withdraw

-----------------------------------------------------------------------------
\* What an `add` that reads has before it: all it wrote.
LEMMA WhileReading ==
    ASSUME TypeInv, KeepInv, NEW p \in Process, proc[p].step \in {"listing", "reading"},
           proc[p].calm, proc[p].command = "add"
    PROVE  /\ DOMAIN proc[p].before = Path /\ DOMAIN files = Path
           /\ \E plan \in Seq(Documents), k \in Nat :
                /\ IsAt(proc[p], files, plan, 0, k, {})
                /\ IsPlan("add", proc[p].before, plan) /\ k = Len(plan)
                /\ FilesAre(files, proc[p].before, plan, 0, k, {})
           /\ proc[p].step = "reading" => IsRead(proc[p], files)
<1>1. Active(p)
    BY DEF Active
<1>2. PICK plan \in Seq(Documents), m \in Nat, k \in Nat, spoiled \in SUBSET Path :
        IsAt(proc[p], files, plan, m, k, spoiled)
    BY <1>1, WhileCalm
<1>3. m = 0 /\ spoiled = {}
    BY <1>2 DEF IsAt
<1>4. IsAt(proc[p], files, plan, 0, k, {})
    BY <1>2, <1>3
<1>5. /\ IsPlan("add", proc[p].before, plan) /\ k = Len(plan)
      /\ FilesAre(files, proc[p].before, plan, 0, k, {})
    BY <1>4 DEF IsAt
<1>. QED
    BY <1>1, <1>4, <1>5, WhileCalm

\* It only gives up on what it read where that is refused as a duplicate.
LEMMA RefusedKeeps ==
    ASSUME OneAuthor, TypeInv, KeepInv, NEW p \in Process, GiveUp(p), UNCHANGED files,
           proc[p].step \in {"listing", "reading"},
           ASSUME NEW plan, NEW k \in Nat, IsPlan("add", proc[p].before, plan), k = Len(plan),
                  DOMAIN proc[p].before = Path, DOMAIN files = Path,
                  FilesAre(files, proc[p].before, plan, 0, k, {}),
                  proc[p].step = "reading" => IsRead(proc[p], files),
                  Loadable(proc[p].before), TypesAreNamed(proc[p].before)
           PROVE  Duplicated(LoadedFrom(files))
    PROVE  KeepInv'
<1>. DEFINE me == proc[p]
<1>1. ASSUME me.command = "add", me.calm
      PROVE  \E plan \in Seq(Documents), m \in Nat, k \in Nat, spoiled \in SUBSET Path,
                left \in SUBSET Path :
               /\ IsAt(me, files, plan, m, k, spoiled)
               /\ FilesAre(files, me.before, plan, m, k, left)
               /\ k = Len(plan) /\ Loadable(me.before) /\ TypesAreNamed(me.before)
                    => Duplicated(LoadedFrom(Over(me.before, plan, 0, k)))
    <2>1. /\ DOMAIN me.before = Path /\ DOMAIN files = Path
          /\ me.step = "reading" => IsRead(me, files)
        BY <1>1, WhileReading
    <2>2. PICK plan \in Seq(Documents), k \in Nat :
            /\ IsAt(me, files, plan, 0, k, {})
            /\ IsPlan("add", me.before, plan) /\ k = Len(plan)
            /\ FilesAre(files, me.before, plan, 0, k, {})
        BY <1>1, WhileReading
    <2>3. ASSUME Loadable(me.before), TypesAreNamed(me.before)
          PROVE  Duplicated(LoadedFrom(Over(me.before, plan, 0, k)))
        <3>1. Duplicated(LoadedFrom(files))
            BY <2>1, <2>2, <2>3
        <3>2. \A f \in Path : files[f] = Over(me.before, plan, 0, k)[f]
            BY <2>2 DEF FilesAre
        <3>3. DOMAIN Over(me.before, plan, 0, k) = Path
            BY DEF Over
        <3>. DEFINE over == Over(me.before, plan, 0, k)
        <3>. HIDE DEF over
        <3>4. LoadedFrom(over) = LoadedFrom(files)
            BY <2>1, <3>2, <3>3 DEF LoadedFrom, over
        <3>. QED
            BY <3>1, <3>4 DEF over
    <2>4. {} \in SUBSET Path /\ 0 \in Nat
        OBVIOUS
    <2>. QED
        BY <2>2, <2>3, <2>4
<1>2. Active(p) /\ files = files'
    BY DEF Active
<1>. DEFINE later == files
<1>3. later = files'
    BY <1>2
<1>. QED
    BY <1>1, <1>2, <1>3, GiveUpKeeps

\* The project is listed.
LEMMA ListKeeps ==
    ASSUME OneAuthor, TypeInv, KeepInv, NEW p \in Process, ListFiles(p)
    PROVE  KeepInv'
<1>. DEFINE me == proc[p]
            fields == [step |-> "reading", unread |-> Held(files)]
            new == With(me, fields)
<1>1. IsTyped(me) /\ DOMAIN me = Fields /\ Keeps(p, me, files) /\ DOMAIN files = Path
    BY DEF TypeInv, IsTyped, KeepInv
<1>2. me.step = "listing" /\ Active(p) /\ UNCHANGED files
    BY DEF ListFiles, Active
<1>3. CASE Held(files) = {} /\ GiveUp(p)
    <2>1. ASSUME NEW plan, NEW k \in Nat, IsPlan("add", me.before, plan), k = Len(plan),
                 DOMAIN me.before = Path, DOMAIN files = Path,
                 FilesAre(files, me.before, plan, 0, k, {}), Loadable(me.before)
          PROVE  FALSE
        <3>1. 0 \in Nat /\ k <= Len(plan)
            BY <2>1
        <3>2. Brings(me.before, files, plan, 0, k)
            BY <2>1, <3>1, AddLoads
        <3>. QED
            BY <1>3, <3>2 DEF Brings
    <2>. QED
        BY <1>2, <1>3, <2>1, RefusedKeeps
<1>4. CASE Held(files) # {} /\ Update(p, fields)
    <2>1. \A f \in Fields : new[f] = IF f \in DOMAIN fields THEN fields[f] ELSE me[f]
        <3>1. DOMAIN fields = {"step", "unread"}
            OBVIOUS
        <3>. HIDE DEF fields
        <3>2. DOMAIN fields \subseteq Fields
            BY <3>1 DEF Fields
        <3>. QED
            BY <1>1, <3>2, WithIs
    <2>2. /\ new["step"] = "reading" /\ new["unread"] = Held(files)
          /\ new["command"] = me["command"] /\ new["before"] = me["before"]
          /\ new["calm"] = me["calm"] /\ new["written"] = me["written"]
          /\ new["plan"] = me["plan"] /\ new["loaded"] = me["loaded"]
        BY <2>1 DEF Fields
    <2>. HIDE DEF fields
    <2>3. Update(p, fields) /\ new = With(me, fields)
        BY <1>4
    <2>. HIDE DEF new
    <2>4. RoleOf(p, new) /\ me.loaded = Nothing
        BY <1>1, <1>2, <2>2 DEF Keeps, RoleOf
    <2>5. IsRead(new, files)
        <3>1. {g \in Held(files) \ new.unread : files[g] # Blank} = {}
            BY <2>2
        <3>2. [f \in {g \in Held(files) \ new.unread : files[g] # Blank} |-> files[f]] = Nothing
            BY <3>1 DEF Nothing
        <3>. QED
            BY <1>4, <2>2, <2>4, <3>2 DEF IsRead
    <2>6. Working(new, files)
        <3>. SUFFICES ASSUME me.calm, me.command \in {"add", "import"}
                      PROVE  /\ DOMAIN new.before = Path
                             /\ \E plan \in Seq(Documents), m \in Nat, k \in Nat,
                                   spoiled \in SUBSET Path : IsAt(new, files, plan, m, k, spoiled)
            BY <2>2, <2>5 DEF Working
        <3>1. me.command = "add"
            BY <1>1, <1>2 DEF Keeps, RoleOf
        <3>2. DOMAIN me.before = Path
            BY <1>2, <3>1, WhileReading
        <3>3. PICK plan \in Seq(Documents), k \in Nat :
                IsAt(me, files, plan, 0, k, {}) /\ k = Len(plan)
            BY <1>2, <3>1, WhileReading
        <3>. HIDE DEF me
        <3>4. IsAt(new, files, plan, 0, k, {})
            BY <1>2, <2>2, <3>3 DEF IsAt
        <3>5. {} \in SUBSET Path /\ 0 \in Nat
            OBVIOUS
        <3>. QED
            BY <2>2, <3>2, <3>4, <3>5
    <2>7. Keeps(p, With(proc[p], fields), files)
        BY <2>3, <2>4, <2>6 DEF Keeps
    <2>. QED
        BY <1>2, <2>3, <2>7, UpdateKeeps
<1>. QED
    BY <1>3, <1>4 DEF ListFiles

\* A file is loaded, or is not there or torn.
LEMMA LoadKeeps ==
    ASSUME OneAuthor, TypeInv, KeepInv, NEW p \in Process, LoadFile(p)
    PROVE  KeepInv'
<1>. DEFINE me == proc[p]
            f == NextFile(me.unread)
            loaded == IF files[f] = Blank THEN me.loaded ELSE Loaded(me.loaded, f)
            fields == [unread |-> me.unread \ {f}, loaded |-> loaded]
            new == With(me, fields)
<1>1. IsTyped(me) /\ DOMAIN me = Fields /\ Keeps(p, me, files) /\ DOMAIN files = Path
    BY DEF TypeInv, IsTyped, KeepInv
<1>2. me.step = "reading" /\ Active(p) /\ me.unread # {} /\ UNCHANGED files
    BY DEF LoadFile, Active
<1>3. f \in me.unread /\ f \in Path
    BY <1>1, <1>2, NextIsUnread DEF IsTyped
<1>4. CASE files[f] \in {Absent, Torn} /\ GiveUp(p)
    <2>. HIDE DEF f
    <2>1. ASSUME NEW plan, NEW k \in Nat, IsPlan("add", me.before, plan), k = Len(plan),
                 DOMAIN me.before = Path, DOMAIN files = Path,
                 FilesAre(files, me.before, plan, 0, k, {}),
                 IsRead(me, files), Loadable(me.before)
          PROVE  FALSE
        <3>. DEFINE none == {}
        <3>1. 0 \in Nat /\ k <= Len(plan) /\ FilesAre(files, me.before, plan, 0, k, none)
            BY <2>1
        <3>2. \A i \in DOMAIN plan : PathOf(plan[i]) \notin DOMAIN LoadedFrom(me.before)
            BY <2>1 DEF IsPlan, LoadedFrom
        <3>. HIDE DEF none, me
        <3>3. \A g \in Path : files[g] # Torn \/ g \in none
            BY <2>1, <3>1, <3>2, WhatLoads
        <3>4. files[f] # Torn
            BY <1>3, <3>3 DEF none
        <3>5. files[f] # Absent
            BY <1>3, <2>1 DEF IsRead, Held
        <3>. QED
            BY <1>4, <3>4, <3>5
    <2>. QED
        BY <1>2, <1>4, <2>1, RefusedKeeps
<1>5. CASE files[f] \notin {Absent, Torn} /\ Update(p, fields)
    <2>. HIDE DEF f
    <2>1. \A g \in Fields : new[g] = IF g \in DOMAIN fields THEN fields[g] ELSE me[g]
        <3>1. DOMAIN fields = {"unread", "loaded"}
            OBVIOUS
        <3>. HIDE DEF fields
        <3>2. DOMAIN fields \subseteq Fields
            BY <3>1 DEF Fields
        <3>. QED
            BY <1>1, <3>2, WithIs
    <2>2. /\ new["unread"] = me["unread"] \ {f} /\ new["loaded"] = loaded
          /\ new["step"] = me["step"] /\ new["command"] = me["command"]
          /\ new["before"] = me["before"] /\ new["calm"] = me["calm"]
          /\ new["written"] = me["written"] /\ new["plan"] = me["plan"]
        BY <2>1 DEF Fields
    <2>. HIDE DEF fields
    <2>3. Update(p, fields) /\ new = With(me, fields)
        BY <1>5
    <2>. HIDE DEF new
    <2>4. RoleOf(p, new)
        BY <1>1, <1>2, <2>2 DEF Keeps, RoleOf
    <2>5. ASSUME IsRead(me, files) PROVE IsRead(new, files)
        <3>. DEFINE Read(unread) == {g \in Held(files) \ unread : files[g] # Blank}
        <3>1. Held(files) # {} /\ new.unread \subseteq Held(files) /\ f \in Held(files)
            BY <1>3, <2>2, <2>5 DEF IsRead
        <3>2. \A g \in Held(files) \ new.unread : files[g] # Torn
            BY <1>5, <2>2, <2>5 DEF IsRead
        <3>3. me.loaded = [g \in Read(me.unread) |-> files[g]]
            BY <2>5 DEF IsRead
        <3>4. new.loaded = [g \in Read(new.unread) |-> files[g]]
            <4>1. CASE files[f] = Blank
                <5>1. Read(new.unread) = Read(me.unread)
                    BY <2>2, <4>1
                <5>. QED
                    BY <2>2, <3>3, <4>1, <5>1
            <4>2. CASE files[f] # Blank
                <5>1. Read(new.unread) = Read(me.unread) \cup {f}
                    BY <1>3, <2>2, <3>1, <4>2
                <5>2. new.loaded = Loaded(me.loaded, f)
                    BY <2>2, <4>2
                <5>3. new.loaded = [g \in DOMAIN me.loaded \cup {f} |->
                                      IF g = f THEN files[f] ELSE me.loaded[g]]
                    BY <5>2 DEF Loaded
                <5>. HIDE DEF Read, me
                <5>4. DOMAIN me.loaded = Read(me.unread)
                      /\ \A g \in Read(me.unread) : me.loaded[g] = files[g]
                    BY <3>3
                <5>. QED
                    BY <5>1, <5>3, <5>4
            <4>. QED
                BY <4>1, <4>2
        <3>. QED
            BY <3>1, <3>2, <3>4 DEF IsRead
    <2>6. Working(new, files)
        <3>. SUFFICES ASSUME me.calm, me.command \in {"add", "import"}
                      PROVE  /\ DOMAIN new.before = Path
                             /\ \E plan \in Seq(Documents), m \in Nat, k \in Nat,
                                   spoiled \in SUBSET Path : IsAt(new, files, plan, m, k, spoiled)
                             /\ IsRead(new, files)
            BY <2>2 DEF Working
        <3>1. me.command = "add"
            BY <1>1, <1>2 DEF Keeps, RoleOf
        <3>2. DOMAIN me.before = Path /\ IsRead(me, files)
            BY <1>2, <3>1, WhileReading
        <3>3. PICK plan \in Seq(Documents), k \in Nat :
                IsAt(me, files, plan, 0, k, {}) /\ k = Len(plan)
            BY <1>2, <3>1, WhileReading
        <3>. HIDE DEF me
        <3>4. IsAt(new, files, plan, 0, k, {})
            BY <1>2, <2>2, <3>3 DEF IsAt
        <3>5. {} \in SUBSET Path /\ 0 \in Nat
            OBVIOUS
        <3>. QED
            BY <2>2, <2>5, <3>2, <3>4, <3>5
    <2>7. Keeps(p, With(proc[p], fields), files)
        BY <2>3, <2>4, <2>6 DEF Keeps
    <2>. QED
        BY <1>2, <2>3, <2>7, UpdateKeeps
<1>. QED
    BY <1>4, <1>5 DEF LoadFile

\* What was loaded is checked.
LEMMA CheckKeeps ==
    ASSUME OneAuthor, TypeInv, KeepInv, NEW p \in Process, Check(p)
    PROVE  KeepInv'
<1>. DEFINE me == proc[p]
<1>1. IsTyped(me) /\ DOMAIN me = Fields /\ Keeps(p, me, files) /\ DOMAIN files = Path
    BY DEF TypeInv, IsTyped, KeepInv
<1>2. me.step = "reading" /\ Active(p) /\ me.unread = {} /\ UNCHANGED files
    BY DEF Check, Active
<1>3. CASE ~Valid(me.loaded) /\ GiveUp(p)
    <2>1. ASSUME NEW plan, NEW k \in Nat, IsPlan("add", me.before, plan), k = Len(plan),
                 DOMAIN me.before = Path, DOMAIN files = Path,
                 FilesAre(files, me.before, plan, 0, k, {}),
                 IsRead(me, files), Loadable(me.before), TypesAreNamed(me.before)
          PROVE  Duplicated(LoadedFrom(files))
        <3>. SUFFICES ASSUME ~Duplicated(LoadedFrom(files)) PROVE FALSE
            OBVIOUS
        <3>1. me.loaded = LoadedFrom(files) /\ \A f \in Path : files[f] # Torn
            BY <1>2, <2>1, AllIsRead
        <3>. DEFINE m == 0
        <3>2. m \in Nat /\ m <= k /\ k <= Len(plan) /\ ~(m > 0)
              /\ FilesAre(files, me.before, plan, m, k, {})
            BY <2>1
        <3>. HIDE DEF me, m
        <3>3. Loadable(files)
            BY <2>1, <3>1, <3>2, AddedLoads
        <3>. QED
            BY <1>3, <3>1, <3>3 DEF Loadable
    <2>. QED
        BY <1>2, <1>3, <2>1, RefusedKeeps
<1>4. ASSUME NEW outcome,
             Update(p, [step |-> "idle", plan |-> <<>>, written |-> <<>>,
                        before |-> Nothing, outcome |-> outcome])
      PROVE  KeepInv'
    <2>. DEFINE fields == [step |-> "idle", plan |-> <<>>, written |-> <<>>,
                           before |-> Nothing, outcome |-> outcome]
                new == With(me, fields)
    <2>1. DOMAIN fields = {"step", "plan", "written", "before", "outcome"}
          /\ fields["step"] = "idle" /\ Update(p, fields)
        BY <1>4
    <2>. HIDE DEF fields
    <2>2. DOMAIN fields \subseteq Fields
        BY <2>1 DEF Fields
    <2>3. \A g \in Fields : new[g] = IF g \in DOMAIN fields THEN fields[g] ELSE me[g]
        BY <1>1, <2>2, WithIs
    <2>4. new["step"] = "idle" /\ new["command"] = me["command"]
        BY <2>1, <2>3 DEF Fields
    <2>5. me.command \in {"add", "import"} => p \in Author
        BY <1>1 DEF Keeps, RoleOf
    <2>6. Keeps(p, new, files)
        <3>. HIDE DEF new
        <3>. QED
            BY <2>4, <2>5, IdleKeeps
    <2>. QED
        BY <1>2, <2>1, <2>6, UpdateKeeps
<1>. QED
    BY <1>3, <1>4 DEF Check

-----------------------------------------------------------------------------
\* Nobody works at first.
LEMMA InitKeeps == Init => KeepInv
<1>. SUFFICES ASSUME Init, NEW p \in Process PROVE Keeps(p, proc[p], files)
    BY DEF KeepInv
<1>1. NoCommand.step = "idle" /\ NoCommand.command = "none"
    BY DEF NoCommand
<1>2. proc[p] = NoCommand
    BY DEF Init
<1>. QED
    BY <1>1, <1>2, IdleKeeps

\* Every step keeps it.
LEMMA NextKeeps ==
    ASSUME OneAuthor
    PROVE  TypeInv /\ KeepInv /\ [Next]_vars => KeepInv'
<1>. SUFFICES ASSUME TypeInv, KeepInv, [Next]_vars PROVE KeepInv'
    OBVIOUS
<1>1. CASE UNCHANGED vars \/ Done
    <2>1. proc' = proc /\ files' = files
        BY <1>1 DEF vars, Done
    <2>. QED
        BY <2>1 DEF KeepInv
<1>2. CASE \/ \E p \in Author : BeginAdd(p) \/ BeginImport(p)
           \/ \E p \in Reader : BeginRead(p) \/ ReadAnsible(p)
    BY <1>2, BeginKeeps
<1>3. ASSUME NEW p \in Author, Kill(p) PROVE KeepInv'
    BY <1>3, EndKeeps DEF Kill, Process
<1>4. ASSUME NEW p \in Process,
             \/ OpenFile(p) \/ FillFile(p) \/ WriteFails(p) \/ Withdraw(p)
             \/ ListFiles(p) \/ LoadFile(p) \/ Check(p)
      PROVE  KeepInv'
    BY <1>4, OpenKeeps, FillKeeps, FailKeeps, WithdrawKeeps, ListKeeps, LoadKeeps, CheckKeeps
<1>5. CASE Edit
    <2>. DEFINE later == files'
    <2>1. ASSUME NEW q \in Process PROVE Keeps(q, proc'[q], later)
        <3>. DEFINE me == proc[q]
                    new == proc'[q]
        <3>1. new = [me EXCEPT !.calm = FALSE]
            BY <1>5 DEF Edit
        <3>2. DOMAIN me = Fields /\ Keeps(q, me, files)
            BY DEF TypeInv, IsTyped, KeepInv
        <3>3. /\ ~new.calm /\ new.step = me.step /\ new.command = me.command
              /\ new.lost = me.lost /\ new.loaded = me.loaded
            BY <3>1, <3>2 DEF Fields
        <3>. HIDE DEF new, me, later
        <3>4. RoleOf(q, new) /\ Working(new, later)
            BY <3>2, <3>3 DEF Keeps, RoleOf, Working
        <3>. QED
            BY <3>4 DEF Keeps, new
    <2>. QED
        BY <2>1 DEF KeepInv
<1>. QED
    BY <1>1, <1>2, <1>3, <1>4, <1>5 DEF Next

-----------------------------------------------------------------------------
(* What its endings leave.                                                 *)

\* An `add` that answers leaves what it accepted.
LEMMA AddedKept ==
    ASSUME TypeInv, KeepInv, NEW p \in Process, Check(p), Valid(proc[p].loaded),
           proc[p].calm, NEW outcome, outcome = IF proc[p].command = "add" THEN "added" ELSE "read"
    PROVE  Kept(proc[p], outcome)
<1>1. proc[p].step = "reading" /\ proc[p].unread = {} /\ files' = files
    BY DEF Check
<1>2. CASE proc[p].command = "add"
    <2>1. DOMAIN files = Path /\ IsRead(proc[p], files)
        BY <1>1, <1>2, WhileReading
    <2>2. /\ proc[p].loaded = LoadedFrom(files) /\ Held(files) # {}
          /\ \A f \in Path : files[f] # Torn
        BY <1>1, <2>1, AllIsRead
    <2>3. Loadable(files)
        BY <2>1, <2>2 DEF Loadable
    <2>4. Loadable(files')
        BY <1>1, <2>3
    <2>. QED
        BY <1>2, <2>4 DEF Kept
<1>3. CASE proc[p].command # "add"
    BY <1>3 DEF Kept
<1>. QED
    BY <1>2, <1>3

\* One that is rejected leaves at most the file that could not be written.
LEMMA RejectedKept ==
    ASSUME TypeInv, KeepInv, NEW p \in Process, Withdraw(p), proc[p].written = <<>>,
           proc[p].calm, files' = files
    PROVE  Kept(proc[p], "rejected")
<1>. DEFINE me == proc[p]
            changed == {f \in Path : files'[f] # me.before[f]}
<1>1. me.step = "withdrawing" /\ Active(p)
    BY DEF Withdraw, Active
<1>2. me.command = "add"
    BY <1>1 DEF KeepInv, Keeps, RoleOf
<1>3. PICK plan \in Seq(Documents), m \in Nat, k \in Nat, spoiled \in SUBSET Path :
        IsAt(me, files, plan, m, k, spoiled)
    BY <1>1, <1>2, WhileCalm
<1>4. /\ IsPlan("add", me.before, plan) /\ m <= k /\ k <= Len(plan)
      /\ FilesAre(files, me.before, plan, m, k, spoiled) /\ Len(me.written) = k - m
    BY <1>2, <1>3 DEF IsAt
<1>5. k = m
    <2>1. Len(me.written) = 0
        OBVIOUS
    <2>. QED
        BY <1>4, <2>1
<1>6. \A f \in Path : Over(me.before, plan, m, k)[f] = me.before[f]
    BY <1>4, <1>5, NothingWritten
<1>7. changed \subseteq spoiled
    BY <1>4, <1>6 DEF FilesAre
<1>8. \A f \in spoiled : f = PathOf(plan[k + 1]) /\ me.before[f] = Absent
                         /\ files[f] \in {Blank, Torn}
    <2>1. k < Len(plan) => k + 1 \in DOMAIN plan
        BY <1>4, PlanIs
    <2>. QED
        BY <1>4, <2>1 DEF FilesAre, IsPlan
<1>9. Cardinality(changed) <= 1
    <2>1. CASE changed = {}
        BY <2>1, FS_EmptySet
    <2>2. CASE changed # {}
        <3>1. changed = {PathOf(plan[k + 1])}
            BY <1>7, <1>8, <2>2
        <3>. HIDE DEF changed
        <3>. QED
            <4>. DEFINE one == PathOf(plan[k + 1])
            <4>1. changed = {one}
                BY <3>1
            <4>. HIDE DEF one
            <4>2. Cardinality({one}) = 1
                BY FS_Singleton
            <4>. QED
                BY <4>1, <4>2
    <2>. QED
        BY <2>1, <2>2
<1>10. \A f \in changed : me.before[f] = Absent /\ files'[f] \in {Blank, Torn}
    BY <1>7, <1>8
<1>. QED
    BY <1>9, <1>10 DEF Kept

\* One that is killed makes no project fail, but for what Kept names.
LEMMA KilledKept ==
    ASSUME TypeInv, KeepInv, NEW p \in Process, Active(p), proc[p].calm, files' = files
    PROVE  Kept(proc[p], "killed")
<1>. DEFINE me == proc[p]
<1>1. ASSUME me.command = "add", Loadable(me.before), TypesAreNamed(me.before),
             \A f \in Path : files[f] # Torn, ~Duplicated(LoadedFrom(files))
      PROVE  Loadable(files)
    <2>1. DOMAIN me.before = Path /\ DOMAIN files = Path
        BY <1>1, WhileCalm
    <2>2. PICK plan \in Seq(Documents), m \in Nat, k \in Nat, spoiled \in SUBSET Path :
            IsAt(me, files, plan, m, k, spoiled)
        BY <1>1, WhileCalm
    <2>. HIDE DEF me
    <2>3. /\ IsPlan("add", me.before, plan) /\ m <= k /\ k <= Len(plan)
          /\ FilesAre(files, me.before, plan, m, k, spoiled)
        BY <1>1, <2>2 DEF IsAt
    <2>4. m > 0 /\ k = Len(plan) => Duplicated(LoadedFrom(Over(me.before, plan, 0, k)))
        <3>1. m > 0 => me.step = "withdrawing"
            BY <2>2 DEF IsAt
        <3>. QED
            BY <1>1, <2>2, <3>1 DEF IsAt
    <2>. QED
        BY <1>1, <2>1, <2>3, <2>4, AddedLoads
<1>. QED
    BY <1>1 DEF Kept

\* An import that completes leaves its documents, in a project they fit one that
\* loads.
LEMMA ImportedKept ==
    ASSUME TypeInv, KeepInv, NEW p \in Process, FillFile(p), proc[p].calm,
           Len(proc[p].plan) = 1, proc[p].command = "import"
    PROVE  Kept(proc[p], "imported")
<1>. DEFINE me == proc[p]
            path == Target(p)
            later == files'
            planned == {me.written[i] : i \in DOMAIN me.written}
                         \cup {PathOf(me.plan[i]) : i \in DOMAIN me.plan}
<1>1. IsTyped(me) /\ Keeps(p, me, files) /\ DOMAIN files = Path
    BY DEF TypeInv, KeepInv
<1>2. me.step = "opened" /\ Active(p) /\ ~me.lost
    BY <1>1 DEF FillFile, Active, Keeps, RoleOf
<1>3. later = [files EXCEPT ![path] = Head(me.plan)]
    BY <1>2 DEF FillFile
<1>4. PICK plan \in Seq(Documents), m \in Nat, k \in Nat, spoiled \in SUBSET Path :
        IsAt(me, files, plan, m, k, spoiled)
    BY <1>2, WhileCalm
<1>5. DOMAIN me.before = Path
    BY <1>2, WhileCalm
<1>6. /\ IsPlan("import", me.before, plan)
      /\ FilesAre(files, me.before, plan, m, k, spoiled)
      /\ me.written \in Seq(Path) /\ Len(me.written) = k - m
      /\ \A i \in 1..k - m : me.written[i] = PathOf(plan[m + i])
    BY <1>4 DEF IsAt
<1>7. me.plan \in Seq(Documents) /\ Len(me.plan) = 1 /\ me.plan # <<>>
    BY <1>1, <1>2 DEF IsTyped
<1>. HIDE DEF me, later
<1>8. /\ m = 0 /\ k < Len(plan) /\ Len(plan) \in Nat /\ Head(me.plan) = plan[k + 1]
      /\ Len(me.plan) = Len(plan) - k
      /\ PathOf(plan[k + 1]) \in Path /\ spoiled \subseteq {PathOf(plan[k + 1])}
    BY <1>1, <1>2, <1>4, AheadIs
<1>9. path = PathOf(plan[k + 1])
    BY <1>8 DEF Target, me
<1>10. Len(plan) = k + 1
    <2>. DEFINE n == Len(plan)
    <2>1. n \in Nat /\ k < n
        BY <1>8
    <2>2. Len(me.plan) = n - k
        BY <1>8
    <2>3. 1 = n - k
        BY <1>7, <2>2
    <2>. HIDE DEF n
    <2>4. n = k + 1
        BY <2>1, <2>3
    <2>. QED
        BY <2>4 DEF n
<1>11. FilesAre(later, me.before, plan, 0, Len(plan), {}) /\ DOMAIN later = Path
    <2>. DEFINE one == Head(me.plan)
    <2>1. one = plan[k + 1] /\ later = [files EXCEPT ![path] = one]
        BY <1>3, <1>8
    <2>. HIDE DEF one, path
    <2>2. later = [files EXCEPT ![path] = plan[k + 1]] /\ m <= k
        BY <1>8, <2>1
    <2>3. FilesAre(later, me.before, plan, m, k + 1, {})
        BY <1>1, <1>6, <1>8, <1>9, <2>2, OneFilled
    <2>. QED
        BY <1>1, <1>8, <1>10, <2>2, <2>3
<1>12. {later[f] : f \in planned} = Elements(plan)
    <2>. HIDE DEF path
    <2>1. DOMAIN plan = 1..k + 1 /\ DOMAIN me.written = 1..k /\ DOMAIN me.plan = 1..1
        <3>1. Len(me.written) = k
            BY <1>6, <1>8
        <3>. QED
            BY <1>6, <1>7, <1>10, <3>1, LenProperties
    <2>2. \A i \in 1..k : me.written[i] = PathOf(plan[i])
        BY <1>6, <1>8
    <2>3. PathOf(me.plan[1]) = PathOf(plan[k + 1])
        <3>1. me.plan # <<>>
            BY <1>7
        <3>2. Head(me.plan) = me.plan[1]
            BY <1>7, <3>1, HeadTailProperties
        <3>. QED
            BY <1>8, <3>2
    <2>4. planned = {PathOf(plan[i]) : i \in DOMAIN plan}
        <3>1. {me.written[i] : i \in DOMAIN me.written} = {PathOf(plan[i]) : i \in 1..k}
            BY <2>1, <2>2
        <3>2. {PathOf(me.plan[i]) : i \in DOMAIN me.plan} = {PathOf(plan[k + 1])}
            BY <2>1, <2>3
        <3>3. \A i : i \in 1..k + 1 <=> i \in 1..k \/ i = k + 1
            OBVIOUS
        <3>. QED
            BY <2>1, <3>1, <3>2, <3>3
    <2>5. \A i \in DOMAIN plan : later[PathOf(plan[i])] = plan[i]
        <3>. DEFINE n == Len(plan)
        <3>1. 0 \in Nat /\ n \in Nat /\ n <= Len(plan)
            BY <1>8
        <3>. HIDE DEF n
        <3>2. FilesAre(later, me.before, plan, 0, n, {})
            BY <1>11 DEF n
        <3>3. \A i \in 0 + 1..n : later[PathOf(plan[i])] = plan[i]
            BY <1>6, <3>1, <3>2, FilesHold
        <3>4. \A i \in DOMAIN plan : i \in 0 + 1..n
            BY <1>10, <2>1 DEF n
        <3>. QED
            BY <3>3, <3>4
    <2>. HIDE DEF planned
    <2>. QED
        BY <2>4, <2>5 DEF Elements
<1>13. Loadable(me.before) /\ Fits(me.before, {later[f] : f \in planned}) => Loadable(later)
    <2>. HIDE DEF planned
    <2>. QED
        BY <1>5, <1>6, <1>11, <1>12, ImportedLoads
<1>. QED
    BY <1>13 DEF Kept, me, later

\* How a command of an author ends.
LEMMA EndsKept ==
    ASSUME TypeInv, KeepInv, [Next]_vars, NEW p \in Author,
           Active(p), proc'[p].step = "idle", proc[p].calm
    PROVE  Kept(proc[p], proc'[p].outcome)
<1>0. p \in Process /\ proc[p].step # "idle" /\ DOMAIN proc = Process /\ DOMAIN proc[p] = Fields
    BY DEF Process, Active, TypeInv, IsTyped
<1>1. \A outcome : End(p, outcome) => proc'[p].outcome = outcome
    BY <1>0, NoCommandIs DEF End, Fields
<1>2. \A fields : Update(p, fields) => proc'[p] = With(proc[p], fields)
    BY <1>0 DEF Update
<1>3. ASSUME NEW fields, Update(p, fields), {"step"} \subseteq DOMAIN fields,
             DOMAIN fields \subseteq Fields
      PROVE  /\ fields["step"] = "idle"
             /\ "outcome" \in DOMAIN fields => proc'[p].outcome = fields["outcome"]
    <2>1. proc'[p] = With(proc[p], fields)
        BY <1>2, <1>3
    <2>2. /\ With(proc[p], fields)["step"] = fields["step"]
          /\ "outcome" \in DOMAIN fields =>
               With(proc[p], fields)["outcome"] = fields["outcome"]
        BY <1>0, <1>3, WithIs DEF Fields
    <2>. QED
        BY <2>1, <2>2
<1>4. ASSUME GiveUp(p) PROVE Kept(proc[p], proc'[p].outcome)
    <2>1. CASE Update(p, [step |-> "withdrawing"])
        <3>. DEFINE fields == [step |-> "withdrawing"]
        <3>1. DOMAIN fields = {"step"} /\ fields["step"] = "withdrawing"
            OBVIOUS
        <3>. HIDE DEF fields
        <3>2. "step" \in Fields
            BY DEF Fields
        <3>3. fields["step"] = "idle"
            BY <1>3, <2>1, <3>1, <3>2 DEF fields
        <3>. QED
            BY <3>1, <3>3
    <2>2. CASE End(p, "failed")
        BY <1>1, <2>2 DEF Kept
    <2>. QED
        BY <1>4, <2>1, <2>2 DEF GiveUp
<1>5. CASE UNCHANGED vars \/ Done
    BY <1>0, <1>5 DEF vars, Done
<1>6. ASSUME NEW q, Active(q), proc' = [proc EXCEPT ![q] = proc'[q]] PROVE q = p
    BY <1>0, <1>6
<1>7. ASSUME NEW q \in Process,
             BeginAdd(q) \/ BeginImport(q) \/ BeginRead(q) \/ ReadAnsible(q)
      PROVE  FALSE
    <2>1. PICK command, fields : Start(q, command, fields)
        BY <1>7 DEF BeginAdd, BeginImport, BeginRead, ReadAnsible
    <2>2. ~Active(q) /\ proc'[p] = proc[p]
        BY <1>0, <2>1 DEF Start, Active
    <2>. QED
        BY <1>0, <2>2
<1>8. ASSUME NEW q \in Process, q # p,
             \/ OpenFile(q) \/ FillFile(q) \/ WriteFails(q) \/ Withdraw(q)
             \/ ListFiles(q) \/ LoadFile(q) \/ Check(q) \/ Kill(q)
      PROVE  FALSE
    <2>1. \A fields, outcome : Update(q, fields) \/ End(q, outcome) => proc'[p] = proc[p]
        BY <1>0, <1>8 DEF Update, End
    <2>2. GiveUp(q) => proc'[p] = proc[p]
        BY <2>1 DEF GiveUp
    <2>3. Withdraw(q) => proc'[p].step = proc[p].step
        BY <1>0, <1>8, <2>1 DEF Withdraw, Fields
    <2>. QED
        BY <1>0, <1>8, <2>1, <2>2, <2>3 DEF OpenFile, FillFile, WriteFails, ListFiles, LoadFile,
                                            Check, Kill
<1>9. CASE Edit
    BY <1>0, <1>9 DEF Edit, Fields
<1>10. CASE Kill(p)
    BY <1>1, <1>10, <1>0, KilledKept DEF Kill
<1>11. CASE OpenFile(p)
    <2>. DEFINE fields == [step |-> "opened", lost |-> FALSE]
    <2>1. DOMAIN fields = {"step", "lost"} /\ fields["step"] = "opened" /\ Update(p, fields)
        BY <1>11 DEF OpenFile
    <2>. HIDE DEF fields
    <2>2. {"step", "lost"} \subseteq Fields
        BY DEF Fields
    <2>. QED
        BY <1>3, <2>1, <2>2
<1>12. CASE FillFile(p)
    <2>1. CASE Len(proc[p].plan) = 1 /\ proc[p].command = "import" /\ End(p, "imported")
        BY <1>0, <1>1, <1>12, <2>1, ImportedKept
    <2>2. ASSUME NEW plan, NEW written, NEW step, step \in {"listing", "writing"},
                 Update(p, [plan |-> plan, written |-> written, step |-> step])
          PROVE  FALSE
        <3>. DEFINE fields == [plan |-> plan, written |-> written, step |-> step]
        <3>1. DOMAIN fields = {"plan", "written", "step"} /\ fields["step"] = step
              /\ Update(p, fields)
            BY <2>2
        <3>. HIDE DEF fields
        <3>2. {"plan", "written", "step"} \subseteq Fields
            BY DEF Fields
        <3>. QED
            BY <1>3, <2>2, <3>1, <3>2
    <2>. QED
        BY <1>12, <2>1, <2>2 DEF FillFile
<1>13. CASE WriteFails(p)
    BY <1>4, <1>13 DEF WriteFails
<1>14. CASE Withdraw(p)
    <2>1. CASE proc[p].written = <<>> /\ End(p, "rejected") /\ files' = files
        BY <1>0, <1>1, <1>14, <2>1, RejectedKept
    <2>2. CASE End(p, "crashed")
        BY <1>1, <2>2 DEF Kept
    <2>3. CASE proc'[p] = [proc[p] EXCEPT !.written = Tail(@)]
        BY <1>0, <2>3 DEF Fields
    <2>. QED
        BY <1>0, <1>14, <2>1, <2>2, <2>3 DEF Withdraw
<1>15. CASE ListFiles(p)
    <2>1. CASE Update(p, [step |-> "reading", unread |-> Held(files)])
        <3>. DEFINE fields == [step |-> "reading", unread |-> Held(files)]
        <3>1. DOMAIN fields = {"step", "unread"} /\ fields["step"] = "reading"
              /\ Update(p, fields)
            BY <2>1
        <3>. HIDE DEF fields
        <3>2. {"step", "unread"} \subseteq Fields
            BY DEF Fields
        <3>. QED
            BY <1>3, <3>1, <3>2
    <2>. QED
        BY <1>4, <1>15, <2>1 DEF ListFiles
<1>16. CASE LoadFile(p)
    <2>1. ASSUME NEW unread, NEW loaded, Update(p, [unread |-> unread, loaded |-> loaded])
          PROVE  FALSE
        <3>. DEFINE fields == [unread |-> unread, loaded |-> loaded]
        <3>1. DOMAIN fields = {"unread", "loaded"} /\ Update(p, fields)
            BY <2>1
        <3>. HIDE DEF fields
        <3>2. With(proc[p], fields)["step"] = proc[p]["step"]
            BY <1>0, <3>1, WithIs DEF Fields
        <3>. QED
            BY <1>0, <1>2, <3>1, <3>2
    <2>. QED
        BY <1>4, <1>16, <2>1 DEF LoadFile
<1>17. CASE Check(p)
    <2>. DEFINE outcome == IF proc[p].command = "add" THEN "added" ELSE "read"
    <2>1. CASE /\ Valid(proc[p].loaded)
               /\ Update(p, [step |-> "idle", plan |-> <<>>, written |-> <<>>,
                             before |-> Nothing, outcome |-> outcome])
        <3>. DEFINE fields == [step |-> "idle", plan |-> <<>>, written |-> <<>>,
                               before |-> Nothing, outcome |-> outcome]
        <3>1. DOMAIN fields = {"step", "plan", "written", "before", "outcome"}
              /\ fields["outcome"] = outcome /\ Update(p, fields)
            BY <2>1
        <3>. HIDE DEF fields
        <3>2. {"step", "plan", "written", "before", "outcome"} \subseteq Fields
            BY DEF Fields
        <3>3. proc'[p].outcome = outcome
            BY <1>3, <3>1, <3>2
        <3>4. Kept(proc[p], outcome)
            BY <1>0, <1>17, <2>1, AddedKept
        <3>. QED
            BY <3>3, <3>4
    <2>. QED
        BY <1>4, <1>17, <2>1 DEF Check
<1>. QED
    BY <1>5, <1>7, <1>8, <1>9, <1>10, <1>11, <1>12, <1>13, <1>14, <1>15, <1>16, <1>17
    DEF Next, Process

\* Where one process writes and nobody edits, an `add` that answers leaves a
\* project that loads, one that is rejected leaves at most the file its disk had
\* no room for, one that is killed at any point makes no project that loaded fail
\* but in the ways Kept names, and an import into a project it fits leaves one
\* that loads (_commit, import_render).
THEOREM CommandsKeep ==
    ASSUME OneAuthor
    PROVE  Spec => CommandsKeepProject
<1>1. Init => TypeInv /\ KeepInv
    BY InitTypes, InitKeeps
<1>2. TypeInv /\ KeepInv /\ [Next]_vars => TypeInv' /\ KeepInv'
    BY NextTypes, NextKeeps
<1>3. TypeInv /\ KeepInv /\ [Next]_vars =>
        [\A p \in Author : Active(p) /\ ~Active(p)' /\ proc[p].calm
             => Kept(proc[p], proc'[p].outcome)]_vars
    <2>. SUFFICES ASSUME TypeInv, KeepInv, [Next]_vars, NEW p \in Author,
                         Active(p), ~Active(p)', proc[p].calm
                  PROVE  Kept(proc[p], proc'[p].outcome)
        OBVIOUS
    <2>1. proc'[p].step = "idle"
        BY DEF Active
    <2>. QED
        BY <2>1, EndsKept
<1>. QED
    BY <1>1, <1>2, <1>3, PTL DEF Spec, CommandsKeepProject
=============================================================================
