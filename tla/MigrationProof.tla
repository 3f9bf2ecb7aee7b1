--------------------------- MODULE MigrationProof ---------------------------
(***************************************************************************)
(* What Migration guarantees for any releases, any options on the command  *)
(* that starts or resumes it, and any number of kills, torn writes and     *)
(* discarded plans.  The types hold for any number of processes;           *)
(* everything else for one at a time, which nothing in migrate.py ensures. *)
(***************************************************************************)
EXTENDS Migration, TLAPS

\* One process at a time migrates.
OneProcess == \A p, q \in Proc : p = q

TypeInv == TypeOK /\ \A p \in Proc : stage[p] # "idle" => plan[p] \in Plan

\* What the completed steps of a plan say of the servers.
Claims(aPlan) ==
    "deploy" \in aPlan.completed =>
        /\ fleet = aPlan.deployed
        /\ ~aPlan.pinned => "build" \in aPlan.completed /\ aPlan.deployed = aPlan.built

\* What succeeded since the plan was made is marked in it, but for one step
\* that is the next one, and for which something was cut off.
LosesOneAtMost(aPlan) ==
    \/ happened \subseteq aPlan.completed
    \/ /\ repeats < cuts
       /\ \E step \in Step : IsNext(aPlan, step) /\ happened \subseteq aPlan.completed \cup {step}

\* Between two commands the file is all there is.
IdleInv == file # None /\ ~torn => LosesOneAtMost(file)

\* A step runs on the plan that is in the file, or is the first of a new one.
RunningInv(p) ==
    \/ ~torn /\ file = plan[p] /\ LosesOneAtMost(file)
    \/ plan[p].completed = {} /\ happened = {}

\* A step that succeeded and is not saved is the next one of the plan in the
\* file, or the first of a new one.
SavingInv(p) ==
    /\ happened \subseteq plan[p].completed
    /\ \/ /\ ~torn /\ file \in Plan
          /\ \E step \in Step : IsNext(file, step) /\ happened \subseteq file.completed \cup {step}
       \/ happened \subseteq {"baseline"}

ProcInv(p) ==
    /\ stage[p] = "idle" => IdleInv
    /\ stage[p] = "running" => RunningInv(p)
    /\ stage[p] = "saving" => SavingInv(p)
    /\ stage[p] # "idle" =>
        /\ Claims(plan[p])
        /\ "build" \in plan[p].completed => release[p] = plan[p].built

\* The inductive invariant.
IInv ==
    /\ TypeInv
    /\ ResumesWhereItStopped
    /\ file # None /\ ~torn => Claims(file)
    /\ \A p \in Proc : ProcInv(p)

-----------------------------------------------------------------------------
(* The operators of the model.                                             *)

\* The places of three sequences in their concatenation.
LEMMA ThreeParts ==
    ASSUME NEW S, NEW a \in Seq(S), NEW b \in Seq(S), NEW c \in Seq(S)
    PROVE  /\ a \o b \o c \in Seq(S)
           /\ DOMAIN (a \o b \o c) = 1..(Len(a) + Len(b) + Len(c))
           /\ \A i \in 1..Len(a) : (a \o b \o c)[i] = a[i]
           /\ \A i \in 1..Len(b) : (a \o b \o c)[Len(a) + i] = b[i]
           /\ \A i \in 1..Len(c) : (a \o b \o c)[Len(a) + Len(b) + i] = c[i]
OBVIOUS

\* What the proofs use of the order of the steps, with and without a build
\* step (compute_plan).
LEMMA StepOrder ==
    ASSUME NEW pinned \in BOOLEAN
    PROVE  /\ DOMAIN Steps(pinned) \subseteq Nat /\ 1 \in DOMAIN Steps(pinned)
           /\ \A i \in DOMAIN Steps(pinned) : i >= 1 /\ Steps(pinned)[i] \in Step
           /\ Steps(pinned)[1] = "baseline"
           /\ \A i \in DOMAIN Steps(pinned) : Steps(pinned)[i] = "baseline" => i = 1
           /\ pinned => \A i \in DOMAIN Steps(pinned) : Steps(pinned)[i] # "build"
           /\ ~pinned => Steps(pinned)[4] = "build"
           /\ \A i \in DOMAIN Steps(pinned) :
                  Steps(pinned)[i] = "deploy" => i > 3 /\ (~pinned => i = 5)
<1>. DEFINE head == <<"baseline", "ttl-lower", "data">>
            middle == IF pinned THEN <<>> ELSE <<"build">>
            tail == <<"deploy", "parallel-run", "dns-verify", "domains-tls", "rollback-window">>
<1>1. head \in Seq(Step) /\ Len(head) = 3
    BY DEF Step
<1>2. tail \in Seq(Step) /\ Len(tail) = 5
    BY DEF Step
<1>3. middle \in Seq(Step) /\ Len(middle) \in {0, 1} /\ (pinned <=> Len(middle) = 0)
    <2>1. <<>> \in Seq(Step) /\ Len(<<>>) = 0 /\ <<"build">> \in Seq(Step) /\ Len(<<"build">>) = 1
        BY DEF Step
    <2>. QED
        BY <2>1
<1>4. head[1] = "baseline" /\ \A i \in 2..3 : head[i] \notin {"baseline", "build", "deploy"}
    OBVIOUS
<1>5. tail[1] = "deploy" /\ \A i \in 2..5 : tail[i] \notin {"baseline", "build", "deploy"}
    OBVIOUS
<1>6. ~pinned => middle[1] = "build"
    OBVIOUS
<1>7. Steps(pinned) = head \o middle \o tail
    BY DEF Steps
<1>. HIDE DEF head, middle, tail
<1>8. /\ Steps(pinned) \in Seq(Step)
      /\ DOMAIN Steps(pinned) = 1..(Len(head) + Len(middle) + Len(tail))
      /\ \A i \in 1..Len(head) : Steps(pinned)[i] = head[i]
      /\ \A i \in 1..Len(middle) : Steps(pinned)[Len(head) + i] = middle[i]
      /\ \A i \in 1..Len(tail) : Steps(pinned)[Len(head) + Len(middle) + i] = tail[i]
    <2>1. head \in Seq(Step) /\ middle \in Seq(Step) /\ tail \in Seq(Step)
        BY <1>1, <1>2, <1>3
    <2>. QED
        BY <1>7, <2>1, ThreeParts
<1>9. \A i \in DOMAIN Steps(pinned) : i \in Nat /\ i >= 1 /\ Steps(pinned)[i] \in Step
    BY <1>8, <1>1, <1>2, <1>3
<1>10. Steps(pinned)[1] = "baseline" /\ 1 \in DOMAIN Steps(pinned)
    BY <1>1, <1>2, <1>3, <1>4, <1>8
<1>11. CASE pinned
    <2>1. Len(head) + Len(middle) = 3 /\ Len(head) + Len(middle) + Len(tail) = 8
        BY <1>1, <1>2, <1>3, <1>11
    <2>. DOMAIN Steps(pinned) = 1..8
        BY <1>8, <2>1
    <2>2. \A i \in 1..3 : Steps(pinned)[i] = head[i]
        BY <1>1, <1>8
    <2>3. \A i \in 4..8 : i - 3 \in 1..5 /\ Steps(pinned)[i] = tail[i - 3]
        <3>1. \A k \in 1..5 : Steps(pinned)[3 + k] = tail[k]
            BY <1>2, <1>8, <2>1
        <3>2. \A i \in 4..8 : i - 3 \in 1..5 /\ 3 + (i - 3) = i
            OBVIOUS
        <3>. QED
            BY <3>1, <3>2
    <2>4. ASSUME NEW i \in 1..8, Steps(pinned)[i] \in {"baseline", "build", "deploy"}
          PROVE  i = 1 \/ (i = 4 /\ Steps(pinned)[i] = "deploy")
        <3>1. i \in 2..3 \/ i = 1 \/ i = 4 \/ (i \in 4..8 /\ i - 3 \in 2..5)
            OBVIOUS
        <3>2. CASE i \in 2..3
            BY <1>4, <2>2, <2>4, <3>2
        <3>3. CASE i = 4
            BY <1>5, <2>3, <3>3
        <3>4. CASE i \in 4..8 /\ i - 3 \in 2..5
            BY <1>5, <2>3, <2>4, <3>4
        <3>. QED
            BY <3>1, <3>2, <3>3, <3>4
    <2>5. \A i \in 1..8 : /\ Steps(pinned)[i] = "baseline" => i = 1
                          /\ Steps(pinned)[i] # "build"
                          /\ Steps(pinned)[i] = "deploy" => i > 3
        BY <1>10, <2>4
    <2>. QED
        BY <1>9, <1>10, <1>11, <2>5, Zenon
<1>12. CASE ~pinned
    <2>1. Len(head) + Len(middle) = 4 /\ Len(head) + Len(middle) + Len(tail) = 9
        <3>1. Len(middle) = 1
            BY <1>3, <1>12
        <3>. QED
            BY <1>1, <1>2, <3>1
    <2>. DOMAIN Steps(pinned) = 1..9
        BY <1>8, <2>1
    <2>2. \A i \in 1..3 : Steps(pinned)[i] = head[i]
        BY <1>1, <1>8
    <2>3. Steps(pinned)[4] = "build"
        BY <1>1, <1>3, <1>6, <1>8, <1>12
    <2>4. \A i \in 5..9 : i - 4 \in 1..5 /\ Steps(pinned)[i] = tail[i - 4]
        <3>1. \A k \in 1..5 : Steps(pinned)[4 + k] = tail[k]
            BY <1>2, <1>8, <2>1
        <3>2. \A i \in 5..9 : i - 4 \in 1..5 /\ 4 + (i - 4) = i
            OBVIOUS
        <3>. QED
            BY <3>1, <3>2
    <2>5. ASSUME NEW i \in 1..9, Steps(pinned)[i] \in {"baseline", "build", "deploy"}
          PROVE  \/ i = 1
                 \/ i = 4 /\ Steps(pinned)[i] = "build"
                 \/ i = 5 /\ Steps(pinned)[i] = "deploy"
        <3>1. i \in 2..3 \/ i = 1 \/ i = 4 \/ i = 5 \/ (i \in 5..9 /\ i - 4 \in 2..5)
            OBVIOUS
        <3>2. CASE i \in 2..3
            BY <1>4, <2>2, <2>5, <3>2
        <3>3. CASE i = 5
            BY <1>5, <2>4, <3>3
        <3>4. CASE i \in 5..9 /\ i - 4 \in 2..5
            BY <1>5, <2>4, <2>5, <3>4
        <3>. QED
            BY <2>3, <3>1, <3>2, <3>3, <3>4
    <2>. QED
        BY <1>9, <1>10, <1>12, <2>3, <2>5
<1>. QED
    BY <1>11, <1>12

\* A plan has one next step at most; the first is the baseline, and a step
\* comes after what it reads.
LEMMA NextSteps ==
    ASSUME NEW aPlan \in Plan, NEW step, IsNext(aPlan, step)
    PROVE  /\ step \in Step \ aPlan.completed
           /\ \A other : IsNext(aPlan, other) => other = step
           /\ aPlan.completed = {} => step = "baseline"
           /\ step = "deploy" =>
                /\ "baseline" \in aPlan.completed
                /\ ~aPlan.pinned => "build" \in aPlan.completed
<1>. aPlan.pinned \in BOOLEAN
    BY DEF Plan
<1>. DEFINE steps == Steps(aPlan.pinned)
<1>1. PICK i \in DOMAIN steps :
        /\ step = steps[i] /\ step \notin aPlan.completed
        /\ \A j \in 1..(i - 1) : steps[j] \in aPlan.completed
    BY DEF IsNext
<1>2. i \in Nat /\ i >= 1
    BY <1>1, StepOrder
<1>3. ASSUME NEW other, IsNext(aPlan, other) PROVE other = step
    <2>1. PICK k \in DOMAIN steps :
            /\ other = steps[k] /\ other \notin aPlan.completed
            /\ \A j \in 1..(k - 1) : steps[j] \in aPlan.completed
        BY <1>3 DEF IsNext
    <2>2. k \in Nat /\ k >= 1
        BY <2>1, StepOrder
    <2>3. ~(k < i) /\ ~(i < k)
        BY <1>1, <1>2, <2>1, <2>2
    <2>. QED
        BY <1>1, <1>2, <2>1, <2>2, <2>3
<1>4. aPlan.completed = {} => step = "baseline"
    <2>1. i # 1 => 1 \in 1..(i - 1)
        BY <1>2
    <2>. QED
        BY <1>1, <2>1, StepOrder
<1>5. ASSUME step = "deploy"
      PROVE  "baseline" \in aPlan.completed /\ (~aPlan.pinned => "build" \in aPlan.completed)
    <2>1. i > 3 /\ (~aPlan.pinned => i = 5)
        BY <1>1, <1>5, StepOrder
    <2>2. 1 \in 1..(i - 1) /\ (i = 5 => 4 \in 1..(i - 1))
        BY <1>2, <2>1
    <2>. QED
        BY <1>1, <2>1, <2>2, StepOrder
<1>. QED
    BY <1>1, <1>3, <1>4, <1>5, StepOrder

\* A plan without a baseline starts with it.
LEMMA BaselineFirst ==
    ASSUME NEW aPlan \in Plan, "baseline" \notin aPlan.completed
    PROVE  IsNext(aPlan, "baseline")
<1>1. aPlan.pinned \in BOOLEAN
    BY DEF Plan
<1>2. 1..(1 - 1) = {}
    OBVIOUS
<1>. QED
    BY <1>1, <1>2, StepOrder DEF IsNext

\* A plan made afresh, and one whose next step was marked, are plans.
LEMMA PlansArePlans ==
    /\ \A pinned \in BOOLEAN : ComputedPlan(pinned) \in Plan /\ ComputedPlan(pinned).completed = {}
    /\ \A aPlan \in Plan, step \in Step :
        LET marked == [aPlan EXCEPT !.completed = @ \cup {step}]
        IN  /\ marked \in Plan
            /\ marked.completed = aPlan.completed \cup {step}
            /\ marked.pinned = aPlan.pinned /\ marked.built = aPlan.built
            /\ marked.deployed = aPlan.deployed
BY DEF Plan, ComputedPlan, MaybeRelease

-----------------------------------------------------------------------------
(* The actions.                                                            *)

\* What a process does, as Next has it.
ProcStep(p) ==
    \/ Starts(p) \/ Discards(p) \/ Succeeds(p) \/ Save(p)
    \/ StepFails(p) \/ Killed(p) \/ SaveTorn(p)

\* A step of p that ends well turns its plan into marked, and counts.
Marked(p, step, marked) ==
    /\ stage[p] = "running" /\ IsNext(plan[p], step)
    /\ stage' = [stage EXCEPT ![p] = "saving"]
    /\ plan' = [plan EXCEPT ![p] = marked]
    /\ marked.completed = plan[p].completed \cup {step} /\ marked.pinned = plan[p].pinned
    /\ happened' = happened \cup {step}
    /\ repeats' = IF step \in happened THEN repeats + 1 ELSE repeats
    /\ UNCHANGED <<file, torn, cuts>>

\* What a step that ends well leaves: a build names its release in the plan
\* and hands it to the deployment, which names and installs the one it was
\* handed; no other step touches either.
Leaves(p, step, marked) ==
    /\ step = "build" => release' = [release EXCEPT ![p] = marked.built] /\ marked.built \in Release
    /\ step # "build" => release' = release /\ marked.built = plan[p].built
    /\ step = "deploy" => fleet' = release[p] /\ marked.deployed = release[p]
    /\ step # "deploy" => fleet' = fleet /\ marked.deployed = plan[p].deployed
    /\ target' \in {"empty", "filled"} /\ UNCHANGED <<dns, ttlLow>>

\* Every step that ends well is marked and leaves that.
LEMMA StepsThatSucceed ==
    ASSUME TypeInv, NEW p \in Proc, Succeeds(p)
    PROVE  \E step \in Step, marked \in Plan : Marked(p, step, marked) /\ Leaves(p, step, marked)
<1>1. ASSUME NEW step \in Step, NEW aPlan \in Plan, Completes(p, step, aPlan),
             aPlan.completed = plan[p].completed, aPlan.pinned = plan[p].pinned
      PROVE  \E marked \in Plan :
                /\ Marked(p, step, marked)
                /\ marked.built = aPlan.built /\ marked.deployed = aPlan.deployed
    <2>. DEFINE marked == [aPlan EXCEPT !.completed = @ \cup {step}]
    <2>1. /\ marked \in Plan /\ marked.completed = plan[p].completed \cup {step}
          /\ marked.pinned = plan[p].pinned
          /\ marked.built = aPlan.built /\ marked.deployed = aPlan.deployed
        BY <1>1, PlansArePlans
    <2>2. plan' = [plan EXCEPT ![p] = marked]
        BY <1>1 DEF Completes
    <2>. HIDE DEF marked
    <2>. QED
        BY <1>1, <2>1, <2>2 DEF Completes, Marked
<1>2. stage[p] = "running" /\ plan[p] \in Plan
    BY DEF TypeInv, Succeeds, Converge, LowerTtl, CopyData, Build, Deploy, ParallelRun,
           VerifyDns, IssueCertificates, RollbackWindow, Completes
<1>3. target \in {"empty", "filled"}
    BY DEF TypeInv, TypeOK
<1>4. CASE Converge(p)
    <2>1. "baseline" \in Step /\ Completes(p, "baseline", plan[p])
        BY <1>4 DEF Converge, Step
    <2>2. PICK marked \in Plan :
            /\ Marked(p, "baseline", marked)
            /\ marked.built = plan[p].built /\ marked.deployed = plan[p].deployed
        BY <1>1, <1>2, <2>1
    <2>3. Leaves(p, "baseline", marked)
        BY <1>3, <1>4, <2>2 DEF Converge, Leaves, world
    <2>. QED
        BY <2>1, <2>2, <2>3
<1>5. CASE LowerTtl(p)
    <2>. DEFINE aPlan == [plan[p] EXCEPT !.answers = dns]
    <2>1. /\ aPlan \in Plan /\ aPlan.completed = plan[p].completed /\ aPlan.pinned = plan[p].pinned
          /\ aPlan.built = plan[p].built /\ aPlan.deployed = plan[p].deployed
        BY <1>2 DEF Plan, MaybeRelease, TypeInv, TypeOK
    <2>2. "ttl-lower" \in Step /\ Completes(p, "ttl-lower", aPlan)
        BY <1>5 DEF LowerTtl, Step
    <2>. HIDE DEF aPlan
    <2>3. PICK marked \in Plan :
            /\ Marked(p, "ttl-lower", marked)
            /\ marked.built = aPlan.built /\ marked.deployed = aPlan.deployed
        BY <1>1, <2>1, <2>2
    <2>4. Leaves(p, "ttl-lower", marked)
        BY <1>3, <1>5, <2>1, <2>3 DEF LowerTtl, Leaves, world
    <2>. QED
        BY <2>2, <2>3, <2>4
<1>6. CASE CopyData(p)
    <2>1. "data" \in Step /\ Completes(p, "data", plan[p])
        BY <1>6 DEF CopyData, Step
    <2>2. PICK marked \in Plan :
            /\ Marked(p, "data", marked)
            /\ marked.built = plan[p].built /\ marked.deployed = plan[p].deployed
        BY <1>1, <1>2, <2>1
    <2>3. Leaves(p, "data", marked)
        BY <1>3, <1>6, <2>2 DEF CopyData, Leaves, world
    <2>. QED
        BY <2>1, <2>2, <2>3
<1>7. ASSUME NEW r \in Release, Build(p, r)
      PROVE  \E step \in Step, marked \in Plan : Marked(p, step, marked) /\ Leaves(p, step, marked)
    <2>. DEFINE aPlan == [plan[p] EXCEPT !.built = r]
    <2>1. /\ aPlan \in Plan /\ aPlan.completed = plan[p].completed /\ aPlan.pinned = plan[p].pinned
          /\ aPlan.built = r /\ aPlan.deployed = plan[p].deployed
        BY <1>2, <1>7 DEF Plan, MaybeRelease, TypeInv, TypeOK
    <2>2. "build" \in Step /\ Completes(p, "build", aPlan)
        BY <1>7 DEF Build, Step
    <2>. HIDE DEF aPlan
    <2>3. PICK marked \in Plan :
            /\ Marked(p, "build", marked)
            /\ marked.built = aPlan.built /\ marked.deployed = aPlan.deployed
        BY <1>1, <2>1, <2>2
    <2>4. Leaves(p, "build", marked)
        BY <1>3, <1>7, <2>1, <2>3 DEF Build, Leaves, world
    <2>. QED
        BY <2>2, <2>3, <2>4
<1>8. CASE Deploy(p)
    <2>. DEFINE aPlan == [plan[p] EXCEPT !.deployed = release[p]]
    <2>1. /\ aPlan \in Plan /\ aPlan.completed = plan[p].completed /\ aPlan.pinned = plan[p].pinned
          /\ aPlan.built = plan[p].built /\ aPlan.deployed = release[p]
        BY <1>2 DEF Plan, MaybeRelease, TypeInv, TypeOK
    <2>2. "deploy" \in Step /\ Completes(p, "deploy", aPlan)
        BY <1>8 DEF Deploy, Step
    <2>. HIDE DEF aPlan
    <2>3. PICK marked \in Plan :
            /\ Marked(p, "deploy", marked)
            /\ marked.built = aPlan.built /\ marked.deployed = aPlan.deployed
        BY <1>1, <2>1, <2>2
    <2>4. Leaves(p, "deploy", marked)
        BY <1>3, <1>8, <2>1, <2>3 DEF Deploy, Leaves, world
    <2>. QED
        BY <2>2, <2>3, <2>4
<1>9. CASE ParallelRun(p)
    <2>1. "parallel-run" \in Step /\ Completes(p, "parallel-run", plan[p])
        BY <1>9 DEF ParallelRun, Step
    <2>2. PICK marked \in Plan :
            /\ Marked(p, "parallel-run", marked)
            /\ marked.built = plan[p].built /\ marked.deployed = plan[p].deployed
        BY <1>1, <1>2, <2>1
    <2>3. Leaves(p, "parallel-run", marked)
        BY <1>3, <1>9, <2>2 DEF ParallelRun, Leaves, world
    <2>. QED
        BY <2>1, <2>2, <2>3
<1>10. CASE VerifyDns(p)
    <2>1. "dns-verify" \in Step /\ Completes(p, "dns-verify", plan[p])
        BY <1>10 DEF VerifyDns, Step
    <2>2. PICK marked \in Plan :
            /\ Marked(p, "dns-verify", marked)
            /\ marked.built = plan[p].built /\ marked.deployed = plan[p].deployed
        BY <1>1, <1>2, <2>1
    <2>3. Leaves(p, "dns-verify", marked)
        BY <1>3, <1>10, <2>2 DEF VerifyDns, Leaves, world
    <2>. QED
        BY <2>1, <2>2, <2>3
<1>11. CASE IssueCertificates(p)
    <2>1. "domains-tls" \in Step /\ Completes(p, "domains-tls", plan[p])
        BY <1>11 DEF IssueCertificates, Step
    <2>2. PICK marked \in Plan :
            /\ Marked(p, "domains-tls", marked)
            /\ marked.built = plan[p].built /\ marked.deployed = plan[p].deployed
        BY <1>1, <1>2, <2>1
    <2>3. Leaves(p, "domains-tls", marked)
        BY <1>3, <1>11, <2>2 DEF IssueCertificates, Leaves, world
    <2>. QED
        BY <2>1, <2>2, <2>3
<1>12. CASE RollbackWindow(p)
    <2>. DEFINE aPlan == [plan[p] EXCEPT !.recipe = plan[p].answers]
    <2>1. /\ aPlan \in Plan /\ aPlan.completed = plan[p].completed /\ aPlan.pinned = plan[p].pinned
          /\ aPlan.built = plan[p].built /\ aPlan.deployed = plan[p].deployed
        BY <1>2 DEF Plan, MaybeRelease, TypeInv, TypeOK
    <2>2. "rollback-window" \in Step /\ Completes(p, "rollback-window", aPlan)
        BY <1>12 DEF RollbackWindow, Step
    <2>. HIDE DEF aPlan
    <2>3. PICK marked \in Plan :
            /\ Marked(p, "rollback-window", marked)
            /\ marked.built = aPlan.built /\ marked.deployed = aPlan.deployed
        BY <1>1, <2>1, <2>2
    <2>4. Leaves(p, "rollback-window", marked)
        BY <1>3, <1>12, <2>1, <2>3 DEF RollbackWindow, Leaves, world
    <2>. QED
        BY <2>2, <2>3, <2>4
<1>. QED
    BY <1>4, <1>5, <1>6, <1>7, <1>8, <1>9, <1>10, <1>11, <1>12 DEF Succeeds

-----------------------------------------------------------------------------
(* Types, for any number of processes.                                     *)

\* What a command starts on is a plan, and the release its build recorded.
LEMMA RunsKeepsTypes ==
    ASSUME TypeInv, NEW p \in Proc, NEW aPlan \in Plan, NEW option \in Option,
           Runs(p, aPlan, option)
    PROVE  /\ stage' \in [Proc -> {"idle", "running", "saving"}]
           /\ plan' \in [Proc -> Plan \cup {None}]
           /\ release' \in [Proc -> MaybeRelease]
           /\ \A q \in Proc : stage'[q] # "idle" => plan'[q] \in Plan
<1>1. RecoverRelease(aPlan, option) \in MaybeRelease
    BY DEF RecoverRelease, Plan, Option
<1>. QED
    BY <1>1 DEF TypeInv, TypeOK, Runs

\* What a command leaves that ends.
LEMMA StopsKeepsTypes ==
    ASSUME TypeInv, NEW p \in Proc, Stops(p)
    PROVE  /\ stage' \in [Proc -> {"idle", "running", "saving"}]
           /\ plan' \in [Proc -> Plan \cup {None}]
           /\ release' \in [Proc -> MaybeRelease]
           /\ stage'[p] = "idle"
           /\ \A q \in Proc : stage'[q] # "idle" => plan'[q] \in Plan
BY DEF TypeInv, TypeOK, Stops, MaybeRelease

\* What is cut off is counted.
LEMMA CutsCount ==
    ASSUME TypeInv, CutShort
    PROVE  cuts' \in 0..MaxCuts /\ cuts' = cuts + 1 /\ cuts \in Nat
BY CutsAssumption DEF TypeInv, TypeOK, CutShort

\* A step that does not return leaves a world with its types.
LEMMA LeavesBehindKeepsTypes ==
    ASSUME TypeInv, NEW p \in Proc, LeavesBehind(p)
    PROVE  /\ fleet' \in MaybeRelease /\ target' \in {"empty", "filled"}
           /\ dns' \in Origin /\ ttlLow' \in BOOLEAN
BY DEF TypeInv, TypeOK, LeavesBehind

\* Every step of a process keeps the types.
LEMMA ProcStepKeepsTypes ==
    ASSUME TypeInv, NEW p \in Proc, ProcStep(p)
    PROVE  TypeInv'
<1>. USE DEF TypeInv, TypeOK
<1>1. CASE Starts(p)
    <2>1. PICK option \in Option : StartAfresh(p, option) \/ Resume(p, option)
        BY <1>1 DEF Starts
    <2>2. CASE StartAfresh(p, option)
        BY <2>2, PlansArePlans, RunsKeepsTypes DEF StartAfresh, world
    <2>3. CASE Resume(p, option)
        BY <2>3, RunsKeepsTypes DEF Resume, world
    <2>. QED
        BY <2>1, <2>2, <2>3
<1>2. CASE Discards(p)
    <2>1. PICK option \in Option : Discard(p, option)
        BY <1>2 DEF Discards
    <2>2. cuts' \in 0..MaxCuts
        BY <2>1, CutsCount DEF Discard
    <2>3. PICK aPlan \in Plan : Runs(p, aPlan, option)
        BY <2>1, PlansArePlans DEF Discard
    <2>. QED
        BY <2>1, <2>2, <2>3, RunsKeepsTypes DEF Discard, world
<1>3. CASE Succeeds(p)
    <2>1. PICK step \in Step, marked \in Plan : Marked(p, step, marked) /\ Leaves(p, step, marked)
        BY <1>3, StepsThatSucceed
    <2>. QED
        BY <2>1 DEF Marked, Leaves, MaybeRelease
<1>4. CASE Save(p)
    <2>1. file' \in Plan /\ torn' = FALSE
        BY <1>4 DEF Save, SavePlan
    <2>2. CASE Stops(p)
        BY <1>4, <2>1, <2>2, StopsKeepsTypes DEF Save, world
    <2>3. CASE stage' = [stage EXCEPT ![p] = "running"] /\ UNCHANGED <<plan, release>>
        BY <1>4, <2>1, <2>3 DEF Save, world
    <2>. QED
        BY <1>4, <2>2, <2>3 DEF Save
<1>5. CASE StepFails(p)
    <2>1. file' \in Plan /\ torn' = FALSE
        BY <1>5 DEF StepFails, SavePlan
    <2>. QED
        BY <1>5, <2>1, StopsKeepsTypes, LeavesBehindKeepsTypes DEF StepFails
<1>6. CASE Killed(p)
    <2>1. /\ fleet' \in MaybeRelease /\ target' \in {"empty", "filled"}
          /\ dns' \in Origin /\ ttlLow' \in BOOLEAN
        BY <1>6, LeavesBehindKeepsTypes DEF Killed, world
    <2>. QED
        BY <1>6, <2>1, StopsKeepsTypes, CutsCount DEF Killed
<1>7. CASE SaveTorn(p)
    <2>1. file' \in Plan
        BY <1>7 DEF SaveTorn
    <2>. QED
        BY <1>7, <2>1, StopsKeepsTypes, CutsCount DEF SaveTorn, world
<1>. QED
    BY <1>1, <1>2, <1>3, <1>4, <1>5, <1>6, <1>7 DEF ProcStep

\* What the person does, as Next has it, leaves the plan alone.
PersonStep == LowersTtl \/ PointsDns \/ PointsBack \/ EmptiesTarget

\* A person's step changes the world and what is counted, and no plan.
LEMMA PersonLeavesPlans ==
    ASSUME TypeInv, PersonStep
    PROVE  /\ TypeInv'
           /\ UNCHANGED <<file, torn, stage, plan, release, fleet, happened, repeats>>
           /\ cuts' >= cuts
<1>1. /\ UNCHANGED <<file, torn, stage, plan, release, fleet, happened, repeats>>
      /\ target' \in {target, "empty"} /\ dns' \in {dns, "old", "new"} /\ ttlLow' \in {ttlLow, TRUE}
      /\ cuts' = cuts \/ CutShort
    BY DEF PersonStep, LowersTtl, PointsDns, PointsBack, EmptiesTarget
<1>2. cuts \in 0..MaxCuts /\ cuts' \in 0..MaxCuts /\ cuts' >= cuts
    BY <1>1, CutsCount DEF TypeInv, TypeOK
<1>. QED
    BY <1>1, <1>2 DEF TypeInv, TypeOK, Origin

\* The initial states have their types.
LEMMA InitialTypes == Init => TypeInv
<1>. SUFFICES ASSUME Init PROVE TypeInv
    OBVIOUS
<1>1. cuts \in 0..MaxCuts /\ repeats \in Nat
    BY CutsAssumption DEF Init
<1>2. torn \in BOOLEAN /\ ttlLow \in BOOLEAN
    BY Zenon DEF Init
<1>3. /\ stage \in [Proc -> {"idle", "running", "saving"}]
      /\ \A p \in Proc : stage[p] = "idle"
    BY DEF Init
<1>4. plan \in [Proc -> Plan \cup {None}] /\ release \in [Proc -> MaybeRelease]
    BY DEF Init, MaybeRelease
<1>5. /\ file \in Plan \cup {None} /\ fleet \in MaybeRelease
      /\ target \in {"empty", "filled"} /\ dns \in Origin /\ happened \in SUBSET Step
    BY DEF Init, MaybeRelease, Origin
<1>. QED
    BY <1>1, <1>2, <1>3, <1>4, <1>5 DEF TypeInv, TypeOK

\* Every reachable state has its types, however many processes migrate.
THEOREM TypeCorrect == Spec => []TypeOK
<1>1. Init => TypeInv
    BY InitialTypes
<1>2. TypeInv /\ [Next]_vars => TypeInv'
    <2>1. CASE UNCHANGED vars
        BY <2>1 DEF vars, world, TypeInv, TypeOK
    <2>. QED
        BY <2>1, ProcStepKeepsTypes, PersonLeavesPlans DEF Next, ProcStep, PersonStep
<1>3. TypeInv => TypeOK
    BY DEF TypeInv
<1>. QED
    BY <1>1, <1>2, <1>3, PTL DEF Spec

-----------------------------------------------------------------------------
(* The plan and the servers, for one process.                              *)

\* The step a process runs is the next of the plan in the file, or the first
\* of a plan made afresh; what it adds is one step, the repeated one if there
\* is one.
LEMMA MarkedKeepsCount ==
    ASSUME TypeInv, ResumesWhereItStopped, NEW p \in Proc, RunningInv(p),
           NEW step \in Step, NEW marked \in Plan, plan[p] \in Plan,
           Marked(p, step, marked)
    PROVE  /\ repeats' <= cuts'
           /\ SavingInv(p)'
<1>1. plan'[p] = marked /\ marked.completed = plan[p].completed \cup {step}
    BY DEF Marked, TypeInv, TypeOK
<1>2. step \notin plan[p].completed /\ \A other : IsNext(plan[p], other) => other = step
    BY NextSteps DEF Marked
<1>3. /\ cuts' = cuts /\ cuts \in Nat /\ repeats \in Nat /\ repeats <= cuts
      /\ file' = file /\ torn' = torn
    BY CutsAssumption DEF Marked, TypeInv, TypeOK, ResumesWhereItStopped
<1>4. /\ happened' = happened \cup {step}
      /\ repeats' = IF step \in happened THEN repeats + 1 ELSE repeats
    BY DEF Marked
<1>5. CASE ~torn /\ file = plan[p] /\ LosesOneAtMost(file)
    <2>1. happened \subseteq plan[p].completed \cup {step}
        BY <1>2, <1>5 DEF LosesOneAtMost
    <2>2. step \in happened => repeats < cuts
        BY <1>2, <1>5 DEF LosesOneAtMost
    <2>3. repeats' <= cuts'
        BY <1>3, <1>4, <2>2
    <2>4. IsNext(file', step) /\ happened' \subseteq file'.completed \cup {step}
        BY <1>3, <1>4, <1>5, <2>1 DEF Marked
    <2>5. file' \in Plan
        BY <1>3, <1>5
    <2>6. happened' \subseteq plan'[p].completed
        BY <1>1, <1>4, <2>1
    <2>. QED
        BY <1>3, <1>5, <2>3, <2>4, <2>5, <2>6 DEF SavingInv
<1>6. CASE plan[p].completed = {} /\ happened = {}
    <2>1. step = "baseline"
        BY <1>6, NextSteps DEF Marked
    <2>. QED
        BY <1>1, <1>3, <1>4, <1>6, <2>1 DEF SavingInv
<1>. QED
    BY <1>5, <1>6 DEF RunningInv

\* Being cut off between a step and its save leaves the file one step behind.
LEMMA KilledUnsaved ==
    ASSUME TypeInv, ResumesWhereItStopped, NEW p \in Proc, SavingInv(p),
           CutShort, UNCHANGED <<file, torn, happened, repeats>>, file \in Plan, ~torn
    PROVE  LosesOneAtMost(file)'
<1>1. repeats' < cuts'
    BY CutsCount DEF TypeInv, TypeOK, ResumesWhereItStopped
<1>2. \/ happened \subseteq file.completed
      \/ \E step \in Step :
            IsNext(file, step) /\ happened \subseteq file.completed \cup {step}
    <2>1. "baseline" \in file.completed \/ IsNext(file, "baseline")
        BY BaselineFirst
    <2>2. "baseline" \in Step
        BY DEF Step
    <2>. QED
        BY <2>1, <2>2 DEF SavingInv
<1>. QED
    BY <1>1, <1>2 DEF LosesOneAtMost

\* A step that does not return touches the servers only when it deploys, and
\* then neither its plan nor the one in the file claims to have deployed.
LEMMA FailuresKeepClaims ==
    ASSUME TypeInv, NEW p \in Proc, plan[p] \in Plan, RunningInv(p), LeavesBehind(p),
           NEW aPlan, aPlan = plan[p] \/ (file # None /\ ~torn /\ aPlan = file), Claims(aPlan)
    PROVE  "deploy" \in aPlan.completed =>
             /\ fleet' = aPlan.deployed
             /\ ~aPlan.pinned => "build" \in aPlan.completed /\ aPlan.deployed = aPlan.built
<1>1. CASE fleet' = fleet
    BY <1>1 DEF Claims
<1>2. CASE IsNext(plan[p], "deploy")
    <2>1. "deploy" \notin plan[p].completed /\ plan[p].completed # {}
        BY <1>2, NextSteps
    <2>2. file = plan[p]
        BY <2>1 DEF RunningInv
    <2>. QED
        BY <2>1, <2>2
<1>. QED
    BY <1>1, <1>2 DEF LeavesBehind
\* The steps of the one process keep the invariant.
LEMMA ProcStepKeepsIInv ==
    ASSUME OneProcess, IInv, NEW p \in Proc, ProcStep(p)
    PROVE  IInv'
<1>. /\ TypeInv' /\ TypeInv /\ ResumesWhereItStopped /\ ProcInv(p)
     /\ file # None /\ ~torn => Claims(file)
    BY ProcStepKeepsTypes DEF IInv
<1>. SUFFICES /\ ResumesWhereItStopped'
              /\ (file # None /\ ~torn => Claims(file))'
              /\ ProcInv(p)'
    BY DEF OneProcess, IInv
<1>. /\ cuts \in Nat /\ repeats \in Nat /\ repeats <= cuts
     /\ stage \in [Proc -> {"idle", "running", "saving"}]
     /\ DOMAIN plan = Proc /\ DOMAIN release = Proc /\ plan[p] \in Plan \cup {None}
     /\ stage[p] # "idle" => plan[p] \in Plan
    BY CutsAssumption DEF TypeInv, TypeOK, ResumesWhereItStopped
<1>. USE DEF ResumesWhereItStopped
<1>1. CASE Starts(p)
    <2>1. PICK option \in Option : StartAfresh(p, option) \/ Resume(p, option)
        BY <1>1 DEF Starts
    <2>2. CASE StartAfresh(p, option)
        <3>1. stage'[p] = "running" /\ plan'[p].completed = {} /\ happened' = {}
            BY <2>2, PlansArePlans DEF StartAfresh, Runs
        <3>. QED
            BY <2>2, <3>1 DEF StartAfresh, ProcInv, RunningInv, Claims, world
    <2>3. CASE Resume(p, option)
        <3>1. /\ stage'[p] = "running" /\ plan'[p] = file /\ stage[p] = "idle"
              /\ "build" \in file.completed => release'[p] = file.built
            BY <2>3 DEF Resume, Runs, RecoverRelease
        <3>2. LosesOneAtMost(file)' /\ Claims(file)'
            BY <2>3, <3>1 DEF Resume, ProcInv, IdleInv, LosesOneAtMost, Claims, world
        <3>. QED
            BY <2>3, <3>1, <3>2 DEF Resume, ProcInv, RunningInv, Claims
    <2>. QED
        BY <2>1, <2>2, <2>3
<1>2. CASE Discards(p)
    <2>1. PICK option \in Option : Discard(p, option)
        BY <1>2 DEF Discards
    <2>2. stage'[p] = "running" /\ plan'[p].completed = {} /\ happened' = {}
        BY <2>1, PlansArePlans DEF Discard, Runs
    <2>3. cuts' >= cuts
        BY <2>1, CutsCount DEF Discard
    <2>4. cuts' \in Nat
        BY CutsAssumption DEF TypeInv, TypeOK
    <2>. QED
        BY <2>1, <2>2, <2>3, <2>4 DEF Discard, ProcInv, RunningInv, Claims, world
<1>3. CASE Succeeds(p)
    <2>1. PICK step \in Step, marked \in Plan : Marked(p, step, marked) /\ Leaves(p, step, marked)
        BY <1>3, StepsThatSucceed
    <2>2. /\ stage[p] = "running" /\ plan[p] \in Plan /\ RunningInv(p) /\ stage'[p] = "saving"
          /\ Claims(plan[p]) /\ ("build" \in plan[p].completed => release[p] = plan[p].built)
          /\ plan'[p] = marked /\ marked.completed = plan[p].completed \cup {step}
          /\ marked.pinned = plan[p].pinned
          /\ file' = file /\ torn' = torn
        BY <2>1 DEF Marked, ProcInv
    <2>3. repeats' <= cuts' /\ SavingInv(p)'
        BY <2>1, <2>2, MarkedKeepsCount
    <2>4. step \notin plan[p].completed
          /\ (step = "deploy" => /\ "baseline" \in plan[p].completed
                                 /\ ~plan[p].pinned => "build" \in plan[p].completed)
        BY <2>1, <2>2, NextSteps DEF Marked
    <2>5. Claims(marked)'
        <3>1. CASE step = "deploy"
            BY <2>1, <2>2, <2>4, <3>1 DEF Leaves, Claims
        <3>2. CASE step = "build"
            BY <2>1, <2>2, <2>4, <3>2 DEF Leaves, Claims
        <3>3. CASE step \notin {"build", "deploy"}
            BY <2>1, <2>2, <3>3 DEF Leaves, Claims
        <3>. QED
            BY <3>1, <3>2, <3>3
    <2>6. "build" \in marked.completed => release'[p] = marked.built
        BY <2>1, <2>2 DEF Leaves
    <2>7. (file # None /\ ~torn => Claims(file))'
        <3>1. CASE step = "deploy"
            BY <2>2, <2>4, <3>1 DEF RunningInv, Claims
        <3>2. CASE step # "deploy"
            BY <2>1, <2>2, <3>2 DEF Leaves, Claims
        <3>. QED
            BY <3>1, <3>2
    <2>8. Claims(plan[p])'
        BY <2>2, <2>5 DEF Claims
    <2>. QED
        BY <2>2, <2>3, <2>6, <2>7, <2>8 DEF ProcInv
<1>4. CASE Save(p)
    <2>1. /\ file' = plan[p] /\ torn' = FALSE /\ UNCHANGED <<world, cuts, happened, repeats>>
          /\ SavingInv(p) /\ Claims(plan[p]) /\ stage[p] = "saving"
          /\ "build" \in plan[p].completed => release[p] = plan[p].built
        BY <1>4 DEF Save, SavePlan, ProcInv
    <2>2. Claims(file)' /\ LosesOneAtMost(file)'
        BY <2>1 DEF Claims, LosesOneAtMost, SavingInv, world
    <2>3. CASE Stops(p)
        <3>1. stage'[p] = "idle"
            BY <2>3 DEF Stops
        <3>. QED
            BY <2>1, <2>2, <3>1 DEF ProcInv, IdleInv
    <2>4. CASE stage' = [stage EXCEPT ![p] = "running"] /\ UNCHANGED <<plan, release>>
        <3>1. stage'[p] = "running"
            BY <2>4
        <3>2. RunningInv(p)' /\ Claims(plan[p])'
            BY <2>1, <2>2, <2>4 DEF RunningInv, Claims
        <3>. QED
            BY <2>1, <2>2, <2>4, <3>1, <3>2 DEF ProcInv
    <2>. QED
        BY <1>4, <2>3, <2>4 DEF Save
<1>5. CASE StepFails(p)
    <2>1. /\ file' = plan[p] /\ torn' = FALSE /\ UNCHANGED <<cuts, happened, repeats>>
          /\ RunningInv(p) /\ Claims(plan[p]) /\ plan[p] \in Plan /\ stage'[p] = "idle"
          /\ LeavesBehind(p)
        BY <1>5 DEF StepFails, SavePlan, ProcInv, Stops
    <2>2. Claims(file)'
        BY <2>1, FailuresKeepClaims DEF Claims
    <2>3. LosesOneAtMost(file)'
        BY <2>1 DEF LosesOneAtMost, RunningInv
    <2>. QED
        BY <2>1, <2>2, <2>3 DEF ProcInv, IdleInv
<1>6. CASE Killed(p)
    <2>1. /\ UNCHANGED <<file, torn, happened, repeats>> /\ cuts' = cuts + 1
          /\ stage'[p] = "idle" /\ plan[p] \in Plan
        BY <1>6, CutsCount DEF Killed, Stops
    <2>2. CASE stage[p] = "running" /\ LeavesBehind(p)
        <3>1. RunningInv(p) /\ Claims(plan[p])
            BY <2>2 DEF ProcInv
        <3>2. (file # None /\ ~torn => Claims(file))'
            BY <2>1, <2>2, <3>1, FailuresKeepClaims DEF Claims
        <3>3. file # None /\ ~torn => LosesOneAtMost(file)'
            BY <2>1, <3>1 DEF RunningInv, LosesOneAtMost
        <3>. QED
            BY <2>1, <3>2, <3>3 DEF ProcInv, IdleInv
    <2>3. CASE stage[p] = "saving" /\ UNCHANGED world
        <3>1. SavingInv(p)
            BY <2>3 DEF ProcInv
        <3>2. file # None /\ ~torn => LosesOneAtMost(file)'
            BY <1>6, <2>1, <3>1, KilledUnsaved DEF Killed, TypeInv, TypeOK
        <3>. QED
            BY <2>1, <2>3, <3>2 DEF ProcInv, IdleInv, Claims, world
    <2>. QED
        BY <1>6, <2>2, <2>3 DEF Killed
<1>7. CASE SaveTorn(p)
    <2>1. torn' = TRUE /\ stage'[p] = "idle" /\ cuts' = cuts + 1 /\ repeats' = repeats
        BY <1>7, CutsCount DEF SaveTorn, Stops
    <2>. QED
        BY <2>1 DEF ProcInv, IdleInv
<1>. QED
    BY <1>1, <1>2, <1>3, <1>4, <1>5, <1>6, <1>7 DEF ProcStep

\* What the person does keeps it: at most, one more thing is counted as cut off.
LEMMA PersonKeepsIInv ==
    ASSUME IInv, PersonStep
    PROVE  IInv'
<1>1. /\ TypeInv /\ TypeInv'
      /\ UNCHANGED <<file, torn, stage, plan, release, fleet, happened, repeats>> /\ cuts' >= cuts
    BY PersonLeavesPlans DEF IInv
<1>2. cuts \in Nat /\ cuts' \in Nat /\ repeats \in Nat
    BY <1>1, CutsAssumption DEF TypeInv, TypeOK
<1>3. repeats < cuts => repeats' < cuts'
    BY <1>1, <1>2
<1>4. repeats <= cuts => repeats' <= cuts'
    BY <1>1, <1>2
<1>5. LosesOneAtMost(file) => LosesOneAtMost(file)'
    BY <1>1, <1>3 DEF LosesOneAtMost
<1>6. ASSUME NEW p \in Proc, ProcInv(p) PROVE ProcInv(p)'
    BY <1>1, <1>5, <1>6 DEF ProcInv, IdleInv, RunningInv, SavingInv, Claims
<1>. QED
    BY <1>1, <1>4, <1>6 DEF IInv, ResumesWhereItStopped, Claims

\* The invariant behind what this module says of one process.
LEMMA InductiveInvariant ==
    ASSUME OneProcess
    PROVE  Spec => []IInv
<1>1. ASSUME Init PROVE IInv
    <2>1. TypeInv /\ ResumesWhereItStopped
        BY <1>1, InitialTypes DEF Init, ResumesWhereItStopped
    <2>. QED
        BY <1>1, <2>1 DEF Init, IInv, ProcInv, IdleInv
<1>2. IInv /\ [Next]_vars => IInv'
    <2>1. CASE UNCHANGED vars
        BY <2>1
        DEF vars, world, IInv, TypeInv, TypeOK, ResumesWhereItStopped, Claims, ProcInv,
            IdleInv, RunningInv, SavingInv, LosesOneAtMost
    <2>. QED
        BY <2>1, ProcStepKeepsIInv, PersonKeepsIInv DEF Next, ProcStep, PersonStep
<1>. QED
    BY <1>1, <1>2, PTL DEF Spec

\* A plan that says the component is deployed names the release the servers
\* run, which its own build step made unless one was pinned: through failures,
\* kills, discarded plans and other options on the resuming command.
THEOREM PlansTellTheFleet ==
    ASSUME OneProcess
    PROVE  Spec => []FleetIsAsPlanned
<1>1. IInv => FleetIsAsPlanned
    BY DEF IInv, FleetIsAsPlanned, Claims
<1>. QED
    BY <1>1, InductiveInvariant, PTL

\* A migration repeats no more steps than were cut off (execute_migration and
\* its save after every step).
THEOREM NothingIsRepeated ==
    ASSUME OneProcess
    PROVE  Spec => []ResumesWhereItStopped
<1>1. IInv => ResumesWhereItStopped
    BY DEF IInv
<1>. QED
    BY <1>1, InductiveInvariant, PTL
=============================================================================
