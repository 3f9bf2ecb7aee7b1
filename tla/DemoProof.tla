------------------------------ MODULE DemoProof ------------------------------
(***************************************************************************)
(* What the records of investigations are worth, at terminals and in the   *)
(* demo, for every recording, model, number of runs, limit and clock.      *)
(***************************************************************************)
EXTENDS Demo, FiniteSetTheorems, WellFoundedInduction, TLAPS

-----------------------------------------------------------------------------
(* The inductive invariant.                                                *)

\* Ids of decisions, NoDecision among them, and the steps a run may keep.
DecisionId == ({"none"} \cup {OperationOf[CallOf[q]] : q \in Question}) \X Int

StepSet == [
    question: Question \cup {Refused},
    outcome: {"ran", "proposed", "failed", "repeated", "invalid"},
    decision: DecisionId
]

AgentFields == {"pc", "started", "turns", "told", "calls", "names", "shaped",
                "steps", "draft", "status", "exit"}

Drafting(r) == agent[r].pc \in {"checking", "writing"}

\* The state of a run: its steps, the decision it is checking, and no exit
\* code before it ended.
ShapeOf(r) ==
    /\ DOMAIN agent[r] = AgentFields
    /\ agent[r].steps \in Seq(StepSet)
    /\ agent[r].pc # "ended" => agent[r].exit = "none"
    /\ Drafting(r) =>
        /\ DOMAIN agent[r].draft = {"question", "id", "older", "clean"}
        /\ agent[r].draft.question \in Question
        /\ agent[r].draft.id \in
                {OperationOf[CallOf[agent[r].draft.question]]} \X Nat

\* A run that is served starts once: it is idle until it leaves the queue.
QueueInv ==
    /\ waiting \in Seq(Run)
    /\ \A i \in DOMAIN waiting : visit[waiting[i]] = "waiting"
    /\ \A i, j \in DOMAIN waiting : waiting[i] = waiting[j] => i = j
    /\ \A r \in Run : visit[r] # "none" => r \in served
    /\ \A r \in served : visit[r] \in {"none", "waiting"} => agent[r].pc = "idle"

ShapeInv ==
    /\ now \in Nat
    /\ served \subseteq Run
    /\ forgotten \subseteq Run
    /\ DOMAIN agent = Run
    /\ DOMAIN visit = Run
    /\ DOMAIN decisions = Directory
    /\ DOMAIN investigations = Directory
    /\ \A r \in Run : ShapeOf(r)

\* What a run wrote, and what it would claim to have proposed.
Wrote(r) == DecisionsOf(agent[r].steps, {"ran", "proposed", "failed"})
Claimed(r) == DecisionsOf(agent[r].steps, {"proposed"})

Over(r) == agent[r].pc \in {"closing", "ended"}

RecordOf(r, n) ==
    /\ n \in DOMAIN investigations[DirectoryOf(r)]
    /\ investigations[DirectoryOf(r)][n].by = r

\* A copy of a decision record, in its directory or in the hands of a run
\* that will supersede it, is known to the run that wrote it, for as long as
\* that runs and then by its investigation; it is clean if that claims it.
CopyIsKnown(d, i, x) ==
    /\ DOMAIN x = {"by", "call", "clean", "status", "replayed"}
    /\ i \in DOMAIN decisions[d]
    /\ i[1] = OperationOf[x.call]
    /\ x.status \in {"ran", "proposed", "superseded"}
    /\ x.status = "ran" <=> IsReading(x.call)
    /\ x.by \in Run /\ DirectoryOf(x.by) = d
    /\ ~Over(x.by) => i \in Wrote(x.by)
    /\ i \in Claimed(x.by) => x.clean
    /\ \A n \in DOMAIN investigations[d] : investigations[d][n].by = x.by =>
        /\ i \in investigations[d][n].decisions
        /\ i \in investigations[d][n].finding.proposed => x.clean

\* The decisions of a run are on record, what it claims waits for a person,
\* and it has one investigation once it is over, none before.
RunIsKnown(r) ==
    /\ Wrote(r) \subseteq DOMAIN decisions[DirectoryOf(r)]
    /\ \A i \in Claimed(r) : i[1] \notin Reading
    /\ \A n \in DOMAIN investigations[DirectoryOf(r)] : RecordOf(r, n) =>
        \A i \in investigations[DirectoryOf(r)][n].finding.proposed :
            i \in DOMAIN decisions[DirectoryOf(r)] /\ i[1] \notin Reading
    /\ ~Over(r) => \A n \in DOMAIN investigations[DirectoryOf(r)] : ~RecordOf(r, n)
    /\ agent[r].pc = "closing" \/ agent[r].exit \notin Unrecorded =>
        \E n \in DOMAIN investigations[DirectoryOf(r)] :
            RecordOf(r, n) /\ \A m \in DOMAIN investigations[DirectoryOf(r)] :
                                    RecordOf(r, m) => m = n

\* What a run is about to write is new to it, and the older records it will
\* mark are others.
DraftIsKnown(r) ==
    /\ \A i \in DOMAIN agent[r].draft.older :
        /\ CopyIsKnown(DirectoryOf(r), i, agent[r].draft.older[i])
        /\ agent[r].draft.older[i].status = "proposed"
    /\ agent[r].pc = "writing" =>
        agent[r].draft.id \notin Wrote(r) \cup DOMAIN agent[r].draft.older

RecordsInv ==
    /\ \A d \in Kept :
        /\ \A i \in DOMAIN decisions[d] : CopyIsKnown(d, i, decisions[d][i])
        /\ \A n \in DOMAIN investigations[d] :
            IF investigations[d][n].by \in Run
            THEN DirectoryOf(investigations[d][n].by) = d
            ELSE investigations[d][n].finding.proposed = {}
    /\ \A r \in Run : DirectoryOf(r) \in Kept =>
        /\ RunIsKnown(r)
        /\ Drafting(r) => DraftIsKnown(r)

IInv == ShapeInv /\ QueueInv /\ RecordsInv

-----------------------------------------------------------------------------
(* Sequences of steps and the queue of the demo.                           *)

\* A step that is kept adds its decision, when it has one of the outcomes.
LEMMA DecisionsOfAppend ==
    ASSUME NEW steps \in Seq(StepSet), NEW step \in StepSet, NEW outcomes
    PROVE  /\ Append(steps, step) \in Seq(StepSet)
           /\ DecisionsOf(Append(steps, step), outcomes) =
                DecisionsOf(steps, outcomes) \cup
                (IF step.outcome \in outcomes /\ step.decision # NoDecision
                 THEN {step.decision} ELSE {})
<1>. DEFINE more == Append(steps, step)
            n == Len(steps)
<1>1. /\ n \in Nat
      /\ more \in Seq(StepSet)
      /\ Len(more) = n + 1
      /\ more[n + 1] = step
      /\ \A i \in 1..n : more[i] = steps[i]
    OBVIOUS
<1>. HIDE DEF more
<1>2. 1..(n + 1) = (1..n) \cup {n + 1}
    BY <1>1
<1>3. DecisionsOf(more, outcomes) \subseteq DecisionsOf(steps, outcomes) \cup
        (IF step.outcome \in outcomes /\ step.decision # NoDecision
         THEN {step.decision} ELSE {})
    BY <1>1, <1>2 DEF DecisionsOf
<1>4. DecisionsOf(steps, outcomes) \subseteq DecisionsOf(more, outcomes)
    <2>. SUFFICES ASSUME NEW i \in 1..n, steps[i].outcome \in outcomes,
                         steps[i].decision # NoDecision
                  PROVE  steps[i].decision \in DecisionsOf(more, outcomes)
        BY DEF DecisionsOf
    <2>1. i \in 1..Len(more) /\ more[i] = steps[i]
        BY <1>1
    <2>. QED
        BY <2>1 DEF DecisionsOf
<1>5. step.outcome \in outcomes /\ step.decision # NoDecision =>
        step.decision \in DecisionsOf(more, outcomes)
    <2>1. n + 1 \in 1..Len(more)
        BY <1>1
    <2>. QED
        BY <1>1, <2>1 DEF DecisionsOf
<1>6. DecisionsOf(more, outcomes) = DecisionsOf(steps, outcomes) \cup
        (IF step.outcome \in outcomes /\ step.decision # NoDecision
         THEN {step.decision} ELSE {})
    BY <1>3, <1>4, <1>5
<1>. QED
    BY <1>1, <1>6 DEF more

\* A run without steps has no decisions.
LEMMA DecisionsOfNone == \A outcomes : DecisionsOf(<<>>, outcomes) = {}
BY DEF DecisionsOf

\* Whoever leaves the queue leaves the others in it, in their order.
LEMMA RemovedFromQueue ==
    ASSUME NEW S, NEW s \in Seq(S), NEW i \in DOMAIN s
    PROVE  /\ RemoveAt(s, i) \in Seq(S)
           /\ \A j \in DOMAIN RemoveAt(s, i) :
                LET k == IF j < i THEN j ELSE j + 1
                IN  k \in DOMAIN s /\ k # i /\ RemoveAt(s, i)[j] = s[k]
<1>1. i \in 1..Len(s) /\ Len(s) \in Nat
    OBVIOUS
<1>. DEFINE front == SubSeq(s, 1, i - 1)
            back == SubSeq(s, i + 1, Len(s))
<1>2. /\ front \in Seq(S) /\ Len(front) = i - 1
      /\ \A j \in 1..(i - 1) : front[j] = s[j]
    BY <1>1
<1>3. /\ back \in Seq(S) /\ Len(back) = Len(s) - i
      /\ \A j \in 1..(Len(s) - i) : back[j] = s[i + j]
    BY <1>1
<1>. HIDE DEF front, back
<1>4. /\ front \o back \in Seq(S)
      /\ Len(front \o back) = Len(s) - 1
      /\ \A j \in 1..(Len(s) - 1) :
            (front \o back)[j] = IF j < i THEN front[j] ELSE back[j - (i - 1)]
    <2>1. ASSUME NEW u \in Seq(S), NEW v \in Seq(S)
          PROVE  /\ u \o v \in Seq(S)
                 /\ Len(u \o v) = Len(u) + Len(v)
                 /\ \A j \in 1..(Len(u) + Len(v)) :
                    (u \o v)[j] = IF j <= Len(u) THEN u[j] ELSE v[j - Len(u)]
        OBVIOUS
    <2>2. (i - 1) + (Len(s) - i) = Len(s) - 1
        BY <1>1
    <2>3. /\ front \o back \in Seq(S)
          /\ Len(front \o back) = Len(s) - 1
          /\ \A j \in 1..(Len(s) - 1) : (front \o back)[j] =
                IF j <= Len(front) THEN front[j] ELSE back[j - Len(front)]
        <3>1. /\ front \o back \in Seq(S)
              /\ Len(front \o back) = Len(front) + Len(back)
              /\ \A j \in 1..(Len(front) + Len(back)) : (front \o back)[j] =
                    IF j <= Len(front) THEN front[j] ELSE back[j - Len(front)]
            BY <1>2, <1>3, <2>1
        <3>2. Len(front) + Len(back) = Len(s) - 1
            BY <1>2, <1>3, <2>2
        <3>. QED
            BY <3>1, <3>2, Zenon
    <2>4. ASSUME NEW j \in 1..(Len(s) - 1)
          PROVE  (front \o back)[j] = IF j < i THEN front[j] ELSE back[j - (i - 1)]
        <3>1. j < i <=> j <= i - 1
            BY <1>1
        <3>. QED
            BY <1>2, <2>3, <3>1
    <2>. QED
        BY <2>3, <2>4
<1>5. ASSUME NEW j \in 1..(Len(s) - 1)
      PROVE  LET k == IF j < i THEN j ELSE j + 1
             IN  k \in 1..Len(s) /\ k # i /\ (front \o back)[j] = s[k]
    <2>1. CASE j < i
        BY <1>1, <1>2, <1>4, <2>1
    <2>2. CASE ~(j < i)
        <3>1. j - (i - 1) \in 1..(Len(s) - i) /\ i + (j - (i - 1)) = j + 1
            BY <1>1, <2>2
        <3>2. (front \o back)[j] = s[j + 1]
            BY <1>3, <1>4, <2>2, <3>1
        <3>. QED
            BY <1>1, <2>2, <3>2
    <2>. QED
        BY <2>1, <2>2
<1>6. RemoveAt(s, i) = front \o back
    BY DEF RemoveAt, front, back
<1>7. DOMAIN (front \o back) = 1..(Len(s) - 1) /\ DOMAIN s = 1..Len(s)
    BY <1>1, <1>4
<1>. QED
    BY <1>4, <1>5, <1>6, <1>7

-----------------------------------------------------------------------------
(* Sums over runs.                                                         *)

\* A set of naturals has a least element.
LEMMA LeastOf ==
    ASSUME NEW T, T \subseteq Nat, T # {}
    PROVE  \E m \in T : \A k \in T : m <= k
<1>. DEFINE R == OpToRel(<, Nat)
<1>1. IsWellFoundedOn(R, Nat)
    BY NatLessThanWellFounded
<1>2. \A k, m \in Nat : k < m => <<k, m>> \in R
    BY DEF OpToRel
<1>. HIDE DEF R
<1>3. PICK m \in T : \A k \in T : ~ (<<k, m>> \in R)
    BY <1>1, WFMin
<1>4. ASSUME NEW k \in T
      PROVE  m <= k
    <2>1. k \in Nat /\ m \in Nat /\ ~(k < m)
        BY <1>2, <1>3
    <2>. QED
        BY <2>1
<1>. QED
    BY <1>4

\* Induction over the subsets of a finite set, as a property of a set.
LEMMA InductiveSubsets ==
    ASSUME NEW S, IsFiniteSet(S), NEW P, {} \in P,
           \A s \in SUBSET S : s # {} /\ (\A x \in s : s \ {x} \in P) => s \in P
    PROVE  SUBSET S \subseteq P
<1>. DEFINE Bad == {s \in SUBSET S : s \notin P}
            T == {Cardinality(s) : s \in Bad}
<1>. SUFFICES ASSUME Bad # {} PROVE FALSE
    OBVIOUS
<1>1. \A s \in SUBSET S : IsFiniteSet(s) /\ Cardinality(s) \in Nat
    BY FS_Subset, FS_CardinalityType
<1>2. T \subseteq Nat /\ T # {}
    BY <1>1
<1>3. PICK m \in T : \A k \in T : m <= k
    <2>. HIDE DEF T
    <2>. QED
        BY <1>2, LeastOf
<1>4. PICK s \in Bad : Cardinality(s) = m
    OBVIOUS
<1>5. ASSUME NEW x \in s PROVE s \ {x} \in P
    <2>1. Cardinality(s \ {x}) = Cardinality(s) - 1 /\ Cardinality(s) \in Nat
        BY <1>1, <1>5, FS_RemoveElement
    <2>2. s \ {x} \in SUBSET S
        OBVIOUS
    <2>3. s \ {x} \in Bad => m <= m - 1
        BY <1>3, <1>4, <2>1
    <2>4. ~(m <= m - 1)
        BY <1>4, <2>1
    <2>. QED
        BY <2>2, <2>3, <2>4
<1>6. s # {}
    OBVIOUS
<1>. QED
    BY <1>4, <1>5, <1>6

\* The sums of a function over the subsets of S, as the fold builds them: one
\* element after the other, whichever CHOOSE takes first.
Picked(s) == CHOOSE x \in s : TRUE
AreSums(sums, fun, S) ==
    sums = [s \in SUBSET S |-> IF s = {} THEN 0 ELSE fun[Picked(s)] + sums[s \ {Picked(s)}]]

LEMMA PickedIsIn == ASSUME NEW s, s # {} PROVE Picked(s) \in s
BY DEF Picked

\* Building up the sums of ever larger subsets reaches those of all.
LEMMA SumsExist ==
    ASSUME NEW S, IsFiniteSet(S), NEW fun
    PROVE  \E sums : AreSums(sums, fun, S)
<1>. DEFINE Next(g) == [s \in SUBSET S |->
                IF s = {} THEN 0 ELSE fun[Picked(s)] + g[s \ {Picked(s)}]]
            Until(n) == \E g : \A s \in SUBSET S : Cardinality(s) <= n => g[s] = Next(g)[s]
            P == {n \in Nat : Until(n)}
<1>0. \A s \in SUBSET S : IsFiniteSet(s) /\ Cardinality(s) \in Nat
    BY FS_Subset, FS_CardinalityType
<1>1. 0 \in P
    <2>1. ASSUME NEW s \in SUBSET S, Cardinality(s) <= 0
          PROVE  [u \in SUBSET S |-> 0][s] = Next([u \in SUBSET S |-> 0])[s]
        <3>1. s = {}
            BY <1>0, <2>1, FS_EmptySet
        <3>. QED
            BY <3>1
    <2>. QED
        BY <2>1
<1>2. ASSUME NEW n \in Nat, n \in P PROVE n + 1 \in P
    <2>1. PICK g : \A s \in SUBSET S : Cardinality(s) <= n => g[s] = Next(g)[s]
        BY <1>2
    <2>2. ASSUME NEW s \in SUBSET S, Cardinality(s) <= n + 1
          PROVE  Next(g)[s] = Next(Next(g))[s]
        <3>1. CASE s = {}
            BY <3>1
        <3>2. CASE s # {}
            <4>. DEFINE t == s \ {Picked(s)}
            <4>1. Picked(s) \in s /\ t \in SUBSET S
                BY <3>2, PickedIsIn
            <4>2. Cardinality(t) = Cardinality(s) - 1
                BY <1>0, <4>1, FS_RemoveElement
            <4>3. Cardinality(t) <= n
                BY <1>0, <2>2, <4>2
            <4>4. g[t] = Next(g)[t]
                BY <2>1, <4>1, <4>3
            <4>. QED
                BY <3>2, <4>1, <4>4
        <3>. QED
            BY <3>1, <3>2
    <2>3. Until(n + 1)
        <3>. DEFINE h == Next(g)
        <3>1. \A s \in SUBSET S : Cardinality(s) <= n + 1 => h[s] = Next(h)[s]
            BY <2>2
        <3>. HIDE DEF h, Next
        <3>. QED
            BY <3>1
    <2>. HIDE DEF Until
    <2>. QED
        BY <2>3
<1>3. \A n \in Nat : Until(n)
    <2>. DEFINE C == Nat \ P
    <2>. SUFFICES ASSUME C # {} PROVE FALSE
        BY DEF P
    <2>. HIDE DEF P
    <2>1. PICK m \in C : \A k \in C : m <= k
        BY LeastOf
    <2>2. m # 0 /\ m - 1 \in Nat /\ ~(m <= m - 1)
        BY <1>1
    <2>3. m - 1 \in P
        BY <2>1, <2>2
    <2>. QED
        BY <1>2, <2>2, <2>3
<1>4. PICK g : \A s \in SUBSET S : Cardinality(s) <= Cardinality(S) => g[s] = Next(g)[s]
    BY <1>0, <1>3
<1>5. \A s \in SUBSET S : g[s] = Next(g)[s]
    <2>1. \A s \in SUBSET S : Cardinality(s) <= Cardinality(S)
        BY FS_Subset
    <2>. QED
        BY <1>4, <2>1
<1>6. AreSums([s \in SUBSET S |-> g[s]], fun, S)
    <2>1. ASSUME NEW s \in SUBSET S
          PROVE  g[s] = IF s = {} THEN 0
                        ELSE fun[Picked(s)] + [u \in SUBSET S |-> g[u]][s \ {Picked(s)}]
        BY <1>5
    <2>. QED
        BY <2>1 DEF AreSums
<1>. QED
    BY <1>6

\* The sum over a set does not depend on the set it is taken from.
LEMMA SumsAgree ==
    ASSUME NEW S, IsFiniteSet(S), NEW T \in SUBSET S, NEW fun,
           NEW all, AreSums(all, fun, S), NEW some, AreSums(some, fun, T)
    PROVE  \A s \in SUBSET T : some[s] = all[s]
<1>. DEFINE P == {s \in SUBSET T : some[s] = all[s]}
<1>1. IsFiniteSet(T)
    BY FS_Subset
<1>2. {} \in P
    BY DEF AreSums
<1>3. ASSUME NEW s \in SUBSET T, s # {}, \A x \in s : s \ {x} \in P PROVE s \in P
    <2>1. Picked(s) \in s
        BY <1>3, PickedIsIn
    <2>2. some[s \ {Picked(s)}] = all[s \ {Picked(s)}]
        BY <1>3, <2>1
    <2>3. s \in SUBSET S
        OBVIOUS
    <2>. QED
        BY <1>3, <2>2, <2>3 DEF AreSums
<1>. HIDE DEF P
<1>4. SUBSET T \subseteq P
    BY <1>1, <1>2, <1>3, InductiveSubsets
<1>. QED
    BY <1>4 DEF P

\* Sums of naturals are naturals, and an element adds its value.
LEMMA SumsAdd ==
    ASSUME NEW S, IsFiniteSet(S), NEW fun \in [S -> Nat], NEW sums, AreSums(sums, fun, S)
    PROVE  /\ sums[{}] = 0
           /\ \A s \in SUBSET S : sums[s] \in Nat
           /\ \A s \in SUBSET S : \A x \in S \ s : sums[s \cup {x}] = fun[x] + sums[s]
<1>1. sums[{}] = 0
    BY DEF AreSums
<1>2. \A s \in SUBSET S : s # {} =>
        Picked(s) \in s /\ sums[s] = fun[Picked(s)] + sums[s \ {Picked(s)}]
    BY PickedIsIn DEF AreSums
<1>3. \A s \in SUBSET S : sums[s] \in Nat
    <2>. DEFINE P == {s \in SUBSET S : sums[s] \in Nat}
    <2>1. {} \in P
        BY <1>1
    <2>2. ASSUME NEW s \in SUBSET S, s # {}, \A x \in s : s \ {x} \in P PROVE s \in P
        <3>. DEFINE c == Picked(s)
        <3>1. c \in s /\ sums[s] = fun[c] + sums[s \ {c}]
            BY <1>2, <2>2
        <3>2. sums[s \ {c}] \in Nat /\ fun[c] \in Nat
            BY <2>2, <3>1
        <3>. HIDE DEF c
        <3>. QED
            BY <3>1, <3>2
    <2>. HIDE DEF P
    <2>3. SUBSET S \subseteq P
        BY <2>1, <2>2, InductiveSubsets
    <2>. QED
        BY <2>3 DEF P
<1>4. \A s \in SUBSET S : \A x \in s : sums[s] = fun[x] + sums[s \ {x}]
    <2>. DEFINE P == {s \in SUBSET S : \A x \in s : sums[s] = fun[x] + sums[s \ {x}]}
    <2>1. {} \in P
        OBVIOUS
    <2>2. ASSUME NEW s \in SUBSET S, s # {}, \A y \in s : s \ {y} \in P PROVE s \in P
        <3>1. SUFFICES ASSUME NEW x \in s PROVE sums[s] = fun[x] + sums[s \ {x}]
            OBVIOUS
        <3>. DEFINE c == Picked(s)
                    rest == (s \ {c}) \ {x}
        <3>2. c \in s /\ sums[s] = fun[c] + sums[s \ {c}]
            BY <1>2, <2>2
        <3>3. CASE x = c
            BY <3>2, <3>3
        <3>4. CASE x # c
            <4>1. sums[s \ {c}] = fun[x] + sums[rest]
                <5>1. s \ {c} \in P
                    BY <2>2, <3>2
                <5>. QED
                    BY <3>4, <5>1
            <4>2. sums[s \ {x}] = fun[c] + sums[(s \ {x}) \ {c}]
                <5>1. s \ {x} \in P /\ c \in s \ {x}
                    BY <2>2, <3>2, <3>4
                <5>. QED
                    BY <5>1
            <4>3. (s \ {x}) \ {c} = rest /\ rest \in SUBSET S
                OBVIOUS
            <4>4. fun[x] \in Nat /\ fun[c] \in Nat /\ sums[rest] \in Nat
                BY <1>3, <3>2, <4>3
            <4>. QED
                BY <3>2, <4>1, <4>2, <4>3, <4>4
        <3>. QED
            BY <3>3, <3>4
    <2>. HIDE DEF P
    <2>3. SUBSET S \subseteq P
        BY <2>1, <2>2, InductiveSubsets
    <2>. QED
        BY <2>3 DEF P
<1>5. ASSUME NEW s \in SUBSET S, NEW x \in S \ s PROVE sums[s \cup {x}] = fun[x] + sums[s]
    <2>1. (s \cup {x}) \ {x} = s /\ s \cup {x} \in SUBSET S
        OBVIOUS
    <2>. QED
        BY <1>4, <2>1
<1>. QED
    BY <1>1, <1>3, <1>5

\* A value that grows by one adds one to the sums it is part of.
OneMore(before, after, x, S) ==
    \A s \in SUBSET S : after[s] = before[s] + (IF x \in s THEN 1 ELSE 0)

LEMMA SumsGrow ==
    ASSUME NEW S, IsFiniteSet(S), NEW fun \in [S -> Nat], NEW x \in S,
           NEW more, more = [fun EXCEPT ![x] = @ + 1],
           NEW before, AreSums(before, fun, S), NEW after, AreSums(after, more, S)
    PROVE  OneMore(before, after, x, S)
<1>. DEFINE P == {s \in SUBSET S : after[s] = before[s] + (IF x \in s THEN 1 ELSE 0)}
<1>1. {} \in P
    BY DEF AreSums
<1>2. ASSUME NEW s \in SUBSET S, s # {}, \A y \in s : s \ {y} \in P PROVE s \in P
    <2>. DEFINE c == Picked(s)
    <2>1. c \in s
        BY <1>2, PickedIsIn
    <2>2. /\ before[s] = fun[c] + before[s \ {c}]
          /\ after[s] = more[c] + after[s \ {c}]
        BY <1>2, <2>1 DEF AreSums
    <2>3. after[s \ {c}] = before[s \ {c}] + (IF x \in s \ {c} THEN 1 ELSE 0)
        BY <1>2, <2>1
    <2>4. /\ more[c] = fun[c] + (IF x = c THEN 1 ELSE 0)
          /\ fun[c] \in Nat /\ before[s \ {c}] \in Nat
        BY <2>1, SumsAdd
    <2>. HIDE DEF c
    <2>. QED
        BY <2>1, <2>2, <2>3, <2>4
<1>. HIDE DEF P
<1>3. SUBSET S \subseteq P
    BY <1>1, <1>2, InductiveSubsets
<1>. QED
    BY <1>3 DEF P, OneMore

\* The turns read by some runs, as a sum over a function of all runs.
SumOver(fun, runs) == FoldFunctionOnSet(+, 0, fun, runs)

LEMMA SumsOverRuns ==
    ASSUME NEW fun
    PROVE  \E sums : /\ AreSums(sums, fun, Run)
                     /\ \A runs \in SUBSET Run : SumOver(fun, runs) = sums[runs]
<1>1. IsFiniteSet(Run)
    BY LimitsAssumption
<1>2. PICK sums : AreSums(sums, fun, Run)
    BY <1>1, SumsExist
<1>3. ASSUME NEW runs \in SUBSET Run PROVE SumOver(fun, runs) = sums[runs]
    <2>. DEFINE some == CHOOSE f : AreSums(f, fun, runs)
    <2>1. AreSums(some, fun, runs)
        <3>1. \E f : AreSums(f, fun, runs)
            BY <1>1, FS_Subset, SumsExist
        <3>. QED
            BY <3>1
    <2>2. SumOver(fun, runs) = some[runs]
        BY DEF SumOver, FoldFunctionOnSet, MapThenFoldSet, AreSums, Picked
    <2>. HIDE DEF some
    <2>. QED
        BY <1>1, <1>2, <2>1, <2>2, SumsAgree
<1>. QED
    BY <1>2, <1>3

\* What the sum over runs does as the server admits them and reads turns.
LEMMA SumOfTurns ==
    ASSUME NEW fun \in [Run -> Nat]
    PROVE  /\ SumOver(fun, {}) = 0
           /\ \A runs \in SUBSET Run : SumOver(fun, runs) \in Nat
           /\ \A runs \in SUBSET Run : \A r \in Run :
                fun[r] = 0 => SumOver(fun, runs \cup {r}) = SumOver(fun, runs)
           /\ \A runs \in SUBSET Run : \A r \in Run :
                SumOver([fun EXCEPT ![r] = @ + 1], runs) <= SumOver(fun, runs) + 1
<1>0. IsFiniteSet(Run)
    BY LimitsAssumption
<1>1. PICK sums : /\ AreSums(sums, fun, Run)
                  /\ \A runs \in SUBSET Run : SumOver(fun, runs) = sums[runs]
    BY SumsOverRuns
<1>2. /\ sums[{}] = 0
      /\ \A s \in SUBSET Run : sums[s] \in Nat
      /\ \A s \in SUBSET Run : \A x \in Run \ s : sums[s \cup {x}] = fun[x] + sums[s]
    BY <1>0, <1>1, SumsAdd
<1>3. ASSUME NEW runs \in SUBSET Run, NEW r \in Run, fun[r] = 0
      PROVE  SumOver(fun, runs \cup {r}) = SumOver(fun, runs)
    <2>1. CASE r \in runs
        <3>1. runs \cup {r} = runs
            BY <2>1
        <3>. QED
            BY <3>1
    <2>2. CASE r \notin runs
        <3>1. sums[runs \cup {r}] = 0 + sums[runs] /\ sums[runs] \in Nat
            BY <1>2, <1>3, <2>2
        <3>2. runs \cup {r} \in SUBSET Run
            OBVIOUS
        <3>. QED
            BY <1>1, <3>1, <3>2
    <2>. QED
        BY <2>1, <2>2
<1>4. ASSUME NEW runs \in SUBSET Run, NEW r \in Run
      PROVE  SumOver([fun EXCEPT ![r] = @ + 1], runs) <= SumOver(fun, runs) + 1
    <2>0. PICK more : more = [fun EXCEPT ![r] = @ + 1]
        OBVIOUS
    <2>1. PICK grown : /\ AreSums(grown, more, Run)
                       /\ \A s \in SUBSET Run : SumOver(more, s) = grown[s]
        BY SumsOverRuns
    <2>2. grown[runs] = sums[runs] + (IF r \in runs THEN 1 ELSE 0)
        <3>1. OneMore(sums, grown, r, Run)
            BY <1>0, <1>1, <2>0, <2>1, SumsGrow
        <3>. QED
            BY <3>1 DEF OneMore
    <2>3. sums[runs] \in Nat
        BY <1>2
    <2>4. grown[runs] <= sums[runs] + 1
        BY <2>2, <2>3
    <2>. QED
        BY <1>1, <2>0, <2>1, <2>4
<1>. QED
    BY <1>1, <1>2, <1>3, <1>4

-----------------------------------------------------------------------------
(* The records through the steps of a run.                                 *)

\* A copy stays known while its writer loses none of its decisions, claims no
\* more, and no investigation is added to the directory.
LEMMA CopyStaysKnown ==
    ASSUME NEW d, NEW i, NEW x, CopyIsKnown(d, i, x),
           DOMAIN decisions[d] \subseteq DOMAIN decisions'[d],
           investigations'[d] = investigations[d],
           UNCHANGED served,
           Over(x.by) => Over(x.by)',
           ~Over(x.by)' => Wrote(x.by) \subseteq Wrote(x.by)',
           Claimed(x.by)' \subseteq Claimed(x.by)
    PROVE  CopyIsKnown(d, i, x)'
BY DEF CopyIsKnown, DirectoryOf

\* A run that keeps no new decision, or ends, leaves every record known.
LEMMA MoveKeepsRecords ==
    ASSUME ShapeInv, RecordsInv, NEW r \in Run, NEW a,
           agent' = [agent EXCEPT ![r] = a],
           UNCHANGED <<served, decisions, investigations, forgotten>>,
           a.pc # "closing",
           a.pc # "ended" =>
               ~Over(r) /\ DecisionsOf(a.steps, {"ran", "proposed", "failed"}) = Wrote(r),
           a.exit \in Unrecorded \/ agent[r].pc = "closing",
           DecisionsOf(a.steps, {"ran", "proposed", "failed"}) \subseteq Wrote(r),
           DecisionsOf(a.steps, {"proposed"}) \subseteq Claimed(r),
           DirectoryOf(r) \in Kept /\ a.pc \in {"checking", "writing"} =>
               /\ \A i \in DOMAIN a.draft.older :
                    /\ CopyIsKnown(DirectoryOf(r), i, a.draft.older[i])
                    /\ a.draft.older[i].status = "proposed"
               /\ a.pc = "writing" =>
                    a.draft.id \notin Wrote(r) \cup DOMAIN a.draft.older
    PROVE  RecordsInv'
<1>1. /\ agent'[r] = a
      /\ \A s \in Run : s # r => agent'[s] = agent[s]
    BY DEF ShapeInv
<1>2. ASSUME NEW s \in Run
      PROVE  /\ Over(s) => Over(s)'
             /\ ~Over(s)' => Wrote(s)' = Wrote(s)
             /\ Wrote(s)' \subseteq Wrote(s)
             /\ Claimed(s)' \subseteq Claimed(s)
             /\ DirectoryOf(s)' = DirectoryOf(s)
    BY <1>1 DEF Over, Wrote, Claimed, DirectoryOf
<1>3. ASSUME NEW d, NEW i, NEW x, CopyIsKnown(d, i, x) PROVE CopyIsKnown(d, i, x)'
    <2>1. x.by \in Run
        BY <1>3 DEF CopyIsKnown
    <2>. QED
        BY <1>2, <1>3, <2>1, CopyStaysKnown
<1>4. Kept' = Kept
    BY DEF Kept
<1>5. ASSUME NEW s \in Run, DirectoryOf(s) \in Kept PROVE RunIsKnown(s)'
    <2>1. RunIsKnown(s)
        BY <1>5 DEF RecordsInv
    <2>2. agent'[s].pc = "closing" \/ agent'[s].exit \notin Unrecorded =>
            agent[s].pc = "closing" \/ agent[s].exit \notin Unrecorded
        BY <1>1
    <2>3. \A n : RecordOf(s, n)' <=> RecordOf(s, n)
        BY <1>2 DEF RecordOf
    <2>. QED
        BY <1>2, <2>1, <2>2, <2>3 DEF RunIsKnown
<1>6. ASSUME NEW s \in Run, DirectoryOf(s) \in Kept, Drafting(s)' PROVE DraftIsKnown(s)'
    <2>1. CASE s = r
        <3>1. \A i \in DOMAIN a.draft.older :
                /\ CopyIsKnown(DirectoryOf(r), i, a.draft.older[i])'
                /\ a.draft.older[i].status = "proposed"
            BY <1>1, <1>2, <1>3, <1>6, <2>1 DEF Drafting
        <3>2. a.pc = "writing" => a.draft.id \notin Wrote(r)' \cup DOMAIN a.draft.older
            BY <1>1, <1>2, <1>6, <2>1 DEF Drafting
        <3>. QED
            BY <1>1, <1>2, <2>1, <3>1, <3>2 DEF DraftIsKnown, CopyIsKnown
    <2>2. CASE s # r
        <3>1. Drafting(s) /\ DraftIsKnown(s) /\ agent'[s] = agent[s]
            BY <1>1, <1>6, <2>2 DEF Drafting, RecordsInv
        <3>2. ASSUME NEW d, d = DirectoryOf(s), NEW i \in DOMAIN agent[s].draft.older,
                     NEW x, x = agent[s].draft.older[i]
              PROVE  CopyIsKnown(d, i, x)' /\ x.status = "proposed"
            BY <1>3, <3>1, <3>2 DEF DraftIsKnown
        <3>3. Wrote(s)' = Wrote(s)
            BY <3>1 DEF Wrote
        <3>. QED
            BY <1>2, <3>1, <3>2, <3>3 DEF DraftIsKnown, CopyIsKnown
    <2>. QED
        BY <2>1, <2>2
<1>7. ASSUME NEW d \in Kept
      PROVE  /\ \A i \in DOMAIN decisions[d] : CopyIsKnown(d, i, decisions[d][i])'
             /\ \A n \in DOMAIN investigations[d] :
                    IF investigations[d][n].by \in Run
                    THEN DirectoryOf(investigations[d][n].by)' = d
                    ELSE investigations[d][n].finding.proposed = {}
    <2>1. /\ \A i \in DOMAIN decisions[d] : CopyIsKnown(d, i, decisions[d][i])
          /\ \A n \in DOMAIN investigations[d] :
                IF investigations[d][n].by \in Run
                THEN DirectoryOf(investigations[d][n].by) = d
                ELSE investigations[d][n].finding.proposed = {}
        BY <1>7 DEF RecordsInv
    <2>. QED
        BY <1>2, <1>3, <2>1
<1>. QED
    BY <1>2, <1>4, <1>5, <1>6, <1>7 DEF RecordsInv, CopyIsKnown

\* The step a decision leaves behind is one a run may keep, and it is told by
\* its id.
LEMMA SavedStep ==
    ASSUME ShapeInv, NEW r \in Run, agent[r].pc = "writing"
    PROVE  LET draft == agent[r].draft
               outcome == OutcomeOf(CallOf[draft.question], draft.clean)
           IN  /\ Step(draft.question, outcome, draft.id) \in StepSet
               /\ draft.id # NoDecision
               /\ draft.id[1] = OperationOf[CallOf[draft.question]]
               /\ outcome \in {"ran", "proposed", "failed"}
               /\ outcome = "proposed" =>
                    draft.clean /\ ~IsReading(CallOf[draft.question])
<1>. DEFINE draft == agent[r].draft
            operation == OperationOf[CallOf[draft.question]]
            outcome == OutcomeOf(CallOf[draft.question], draft.clean)
<1>1. draft.question \in Question /\ draft.id \in {operation} \X Nat
    BY DEF ShapeInv, ShapeOf, Drafting
<1>2. PICK second \in Nat : draft.id = <<operation, second>>
    BY <1>1
<1>3. draft.id \in DecisionId
    BY <1>1, <1>2 DEF DecisionId
<1>4. /\ outcome \in {"ran", "proposed", "failed"}
      /\ outcome = "proposed" => draft.clean /\ ~IsReading(CallOf[draft.question])
    BY DEF OutcomeOf
<1>5. draft.id # NoDecision /\ draft.id[1] = operation
    BY <1>2 DEF NoDecision, Never
<1>6. Step(draft.question, outcome, draft.id) \in StepSet
    BY <1>1, <1>3, <1>4 DEF Step, StepSet
<1>. QED
    BY <1>4, <1>5, <1>6

\* A decision is written, and the older ones of its call are marked.
LEMMA SaveDecisionKeepsRecords ==
    ASSUME ShapeInv, RecordsInv, NEW r \in Run, SaveDecision(r), forgotten' = forgotten
    PROVE  RecordsInv'
<1>. DEFINE d == DirectoryOf(r)
            draft == agent[r].draft
            id == draft.id
            call == CallOf[draft.question]
            outcome == OutcomeOf(call, draft.clean)
            step == Step(draft.question, outcome, id)
            new == Decision(r, call, draft.clean)
            saved == With(decisions[d], id, new)
            files == [i \in DOMAIN saved |->
                        IF i \in DOMAIN draft.older
                        THEN [draft.older[i] EXCEPT !.status = "superseded"]
                        ELSE saved[i]]
            next == [agent[r] EXCEPT !.pc = "step", !.steps = Append(@, step), !.draft = {}]
<1>1. /\ agent[r].pc = "writing"
      /\ decisions' = [decisions EXCEPT ![d] = files]
      /\ agent' = [agent EXCEPT ![r] = next]
      /\ UNCHANGED <<served, investigations>>
    BY DEF SaveDecision, Keeps, Becomes
<1>2. /\ step \in StepSet
      /\ id # NoDecision
      /\ id[1] = OperationOf[call]
      /\ outcome \in {"ran", "proposed", "failed"}
      /\ outcome = "proposed" => draft.clean /\ ~IsReading(call)
    BY <1>1, SavedStep
<1>3. /\ step.outcome = outcome
      /\ step.decision = id
    BY DEF Step
<1>4. /\ d \in Directory
      /\ DOMAIN agent[r] = AgentFields
      /\ agent[r].steps \in Seq(StepSet)
      /\ agent[r].exit = "none"
      /\ DOMAIN agent = Run /\ DOMAIN decisions = Directory
    BY <1>1 DEF ShapeInv, ShapeOf, DirectoryOf, Directory
<1>5. /\ agent'[r].pc = "step"
      /\ agent'[r].exit = "none"
      /\ agent'[r].steps = Append(agent[r].steps, step)
      /\ \A s \in Run : s # r => agent'[s] = agent[s]
    BY <1>1, <1>4 DEF AgentFields
<1>6. /\ decisions'[d] = files
      /\ \A e \in Directory : e # d => decisions'[e] = decisions[e]
    BY <1>1, <1>4
<1>. HIDE DEF new
<1>70. /\ DOMAIN saved = DOMAIN decisions[d] \cup {id}
       /\ \A i \in DOMAIN decisions[d] \cup {id} :
            saved[i] = IF i = id THEN new ELSE decisions[d][i]
    BY DEF With
<1>. HIDE DEF saved
<1>7. /\ DOMAIN files = DOMAIN decisions[d] \cup {id}
      /\ \A i \in DOMAIN decisions[d] \cup {id} : files[i] =
            IF i \in DOMAIN draft.older
            THEN [draft.older[i] EXCEPT !.status = "superseded"]
            ELSE IF i = id THEN new ELSE decisions[d][i]
    BY <1>70
<1>. HIDE DEF files, next
<1>8. /\ Wrote(r)' = Wrote(r) \cup {id}
      /\ Claimed(r)' = Claimed(r) \cup (IF outcome = "proposed" THEN {id} ELSE {})
    BY <1>2, <1>3, <1>4, <1>5, DecisionsOfAppend DEF Wrote, Claimed
<1>9. /\ \A s \in Run : s # r => Wrote(s)' = Wrote(s) /\ Claimed(s)' = Claimed(s)
      /\ \A s \in Run : Over(s)' <=> Over(s)
      /\ \A s \in Run : DirectoryOf(s)' = DirectoryOf(s)
      /\ ~Over(r)
    BY <1>1, <1>5 DEF Wrote, Claimed, Over, DirectoryOf
<1>10. d \in Kept => RunIsKnown(r) /\ DraftIsKnown(r)
    BY <1>1 DEF RecordsInv, Drafting
<1>11. Kept' = Kept
    BY DEF Kept
<1>12. ASSUME NEW e \in Kept, NEW i, NEW x, CopyIsKnown(e, i, x)
       PROVE  CopyIsKnown(e, i, x)'
    <2>1. i \in DOMAIN decisions'[e]
        BY <1>6, <1>7, <1>12 DEF CopyIsKnown, Kept
    <2>2. x.by \in Run /\ DirectoryOf(x.by) = e
        BY <1>12 DEF CopyIsKnown
    <2>3. i \in Claimed(x.by)' => i \in Claimed(x.by)
        <3>1. CASE x.by = r
            <4>1. i \in Wrote(r) /\ id \notin Wrote(r)
                BY <1>1, <1>9, <1>10, <1>12, <2>2, <3>1 DEF CopyIsKnown, DraftIsKnown
            <4>. QED
                BY <1>8, <3>1, <4>1
        <3>2. CASE x.by # r
            BY <1>9, <2>2, <3>2
        <3>. QED
            BY <3>1, <3>2
    <2>4. Wrote(x.by) \subseteq Wrote(x.by)'
        BY <1>8, <1>9, <2>2
    <2>. QED
        BY <1>1, <1>9, <1>12, <2>1, <2>2, <2>3, <2>4 DEF CopyIsKnown
<1>13. ASSUME d \in Kept, NEW i \in DOMAIN draft.older,
              NEW x, x = [draft.older[i] EXCEPT !.status = "superseded"]
       PROVE  CopyIsKnown(d, i, x)
    <2>1. /\ CopyIsKnown(d, i, draft.older[i])
          /\ draft.older[i].status = "proposed"
        BY <1>10, <1>13 DEF DraftIsKnown
    <2>2. DOMAIN draft.older[i] = {"by", "call", "clean", "status", "replayed"}
        BY <2>1 DEF CopyIsKnown
    <2>3. /\ DOMAIN x = {"by", "call", "clean", "status", "replayed"}
          /\ x.by = draft.older[i].by
          /\ x.call = draft.older[i].call
          /\ x.clean = draft.older[i].clean
          /\ x.status = "superseded"
        BY <1>13, <2>2
    <2>4. ~IsReading(draft.older[i].call)
        BY <2>1 DEF CopyIsKnown
    <2>. QED
        BY <2>1, <2>3, <2>4 DEF CopyIsKnown
<1>14. ASSUME d \in Kept, NEW e, e = d, NEW i, i = id, NEW x, x = new
       PROVE  CopyIsKnown(e, i, x)'
    <2>1. /\ DOMAIN x = {"by", "call", "clean", "status", "replayed"}
          /\ x.by = r /\ x.call = call /\ x.clean = draft.clean
          /\ x.status \in {"ran", "proposed"}
          /\ x.status = "ran" <=> IsReading(call)
        BY <1>14 DEF new, Decision
    <2>2. i \in DOMAIN decisions'[e]
        BY <1>6, <1>7, <1>14
    <2>3. i \in Wrote(r)'
        BY <1>8, <1>14
    <2>4. i \in Claimed(r)' => x.clean
        <3>1. id \notin Wrote(r)
            BY <1>1, <1>10, <1>14 DEF DraftIsKnown
        <3>2. id \notin Claimed(r)
            BY <3>1 DEF Wrote, Claimed, DecisionsOf
        <3>. QED
            BY <1>2, <1>8, <1>14, <2>1, <3>2
    <2>5. \A n \in DOMAIN investigations[e] : investigations[e][n].by # r
        BY <1>9, <1>10, <1>14 DEF RunIsKnown, RecordOf
    <2>6. DirectoryOf(r)' = e /\ investigations' = investigations
        BY <1>1, <1>9, <1>14
    <2>7. i[1] = OperationOf[x.call]
        BY <1>2, <1>14, <2>1
    <2>. QED
        BY <2>1, <2>2, <2>3, <2>4, <2>5, <2>6, <2>7 DEF CopyIsKnown
<1>15. ASSUME NEW e \in Kept, NEW i \in DOMAIN decisions'[e],
              NEW x, x = decisions'[e][i]
       PROVE  CopyIsKnown(e, i, x)'
    <2>1. CASE e # d
        <3>1. i \in DOMAIN decisions[e] /\ x = decisions[e][i]
            BY <1>6, <1>15, <2>1 DEF Kept
        <3>2. CopyIsKnown(e, i, x)
            BY <3>1 DEF RecordsInv
        <3>. QED
            BY <1>12, <3>2
    <2>2. CASE e = d
        <3>1. i \in DOMAIN decisions[d] \cup {id} /\ x = files[i]
            BY <1>6, <1>7, <1>15, <2>2
        <3>2. CASE i \in DOMAIN draft.older
            <4>1. x = [draft.older[i] EXCEPT !.status = "superseded"]
                BY <1>7, <3>1, <3>2
            <4>. QED
                BY <1>12, <1>13, <2>2, <3>2, <4>1
        <3>3. CASE i \notin DOMAIN draft.older /\ i = id
            BY <1>7, <1>14, <2>2, <3>1, <3>3
        <3>4. CASE i \notin DOMAIN draft.older /\ i # id
            <4>1. i \in DOMAIN decisions[e] /\ x = decisions[e][i]
                BY <1>7, <2>2, <3>1, <3>4
            <4>2. CopyIsKnown(e, i, x)
                BY <4>1 DEF RecordsInv
            <4>. QED
                BY <1>12, <4>2
        <3>. QED
            BY <3>2, <3>3, <3>4
    <2>. QED
        BY <2>1, <2>2
<1>16. ASSUME NEW s \in Run, DirectoryOf(s) \in Kept PROVE RunIsKnown(s)'
    <2>1. RunIsKnown(s)
        BY <1>16 DEF RecordsInv
    <2>2. DOMAIN decisions[DirectoryOf(s)] \subseteq DOMAIN decisions'[DirectoryOf(s)]
        BY <1>6, <1>7, <1>16 DEF Kept
    <2>3. s = r => id \in DOMAIN decisions'[DirectoryOf(s)]
        BY <1>6, <1>7
    <2>4. Wrote(s)' \subseteq DOMAIN decisions'[DirectoryOf(s)]
        BY <1>8, <1>9, <2>1, <2>2, <2>3 DEF RunIsKnown
    <2>5. \A i \in Claimed(s)' : i[1] \notin Reading
        BY <1>2, <1>8, <1>9, <2>1 DEF RunIsKnown, IsReading
    <2>6. agent'[s].pc = "closing" \/ agent'[s].exit \notin Unrecorded =>
            agent[s].pc = "closing" \/ agent[s].exit \notin Unrecorded
        BY <1>5 DEF Unrecorded
    <2>7. \A n : RecordOf(s, n)' <=> RecordOf(s, n)
        BY <1>1, <1>9 DEF RecordOf
    <2>. QED
        BY <1>1, <1>9, <2>1, <2>2, <2>4, <2>5, <2>6, <2>7 DEF RunIsKnown
<1>17. ASSUME NEW s \in Run, DirectoryOf(s) \in Kept, Drafting(s)' PROVE DraftIsKnown(s)'
    <2>1. s # r /\ agent'[s] = agent[s]
        BY <1>5, <1>17 DEF Drafting
    <2>2. Drafting(s) /\ DraftIsKnown(s)
        BY <1>17, <2>1 DEF Drafting, RecordsInv
    <2>3. ASSUME NEW e, e = DirectoryOf(s), NEW i \in DOMAIN agent[s].draft.older,
                 NEW x, x = agent[s].draft.older[i]
          PROVE  CopyIsKnown(e, i, x)' /\ x.status = "proposed"
        BY <1>12, <1>17, <2>2, <2>3 DEF DraftIsKnown
    <2>. QED
        BY <1>9, <2>1, <2>2, <2>3 DEF DraftIsKnown, CopyIsKnown
<1>18. ASSUME NEW e \in Kept, NEW n \in DOMAIN investigations[e]
       PROVE  IF investigations[e][n].by \in Run
              THEN DirectoryOf(investigations[e][n].by)' = e
              ELSE investigations[e][n].finding.proposed = {}
    BY <1>1, <1>9, <1>18 DEF RecordsInv
<1>19. ASSUME NEW e \in Kept, NEW i \in DOMAIN decisions'[e]
       PROVE  CopyIsKnown(e, i, decisions[e][i])'
    BY <1>15, <1>19 DEF CopyIsKnown
<1>. QED
    BY <1>1, <1>9, <1>11, <1>16, <1>17, <1>18, <1>19 DEF RecordsInv

\* A finding proposes nothing its run did not propose.
LEMMA FindingIsClaimed ==
    ASSUME NEW a
    PROVE  FindingOf(a).proposed \subseteq DecisionsOf(a.steps, {"proposed"})
BY DEF FindingOf, NoFinding

\* The investigation of a run that is about to end is put on record.
LEMMA SaveInvestigationKeepsRecords ==
    ASSUME ShapeInv, RecordsInv, NEW r \in Run, SaveInvestigation(r),
           forgotten' = forgotten
    PROVE  RecordsInv'
<1>. DEFINE d == DirectoryOf(r)
            record == InvestigationRecord(r)
<1>1. PICK name \in SaveName(r) :
        investigations' = [investigations EXCEPT ![d] =
            With(investigations[d], name, record)]
    BY DEF SaveInvestigation
<1>2. name \notin DOMAIN investigations[d]
    BY <1>1 DEF SaveName
<1>3. /\ agent[r].pc = "ending"
      /\ UNCHANGED <<served, decisions>>
    BY DEF SaveInvestigation
<1>4. /\ DOMAIN agent = Run
      /\ DOMAIN agent[r] = AgentFields
      /\ DOMAIN investigations = Directory
      /\ d \in Directory
    BY DEF ShapeInv, ShapeOf, DirectoryOf, Directory
<1>5. /\ \/ agent'[r].pc = "ended" /\ agent'[r].steps = <<>>
         \/ agent'[r].pc = "closing" /\ agent'[r].steps = agent[r].steps
      /\ \A s \in Run : s # r => agent'[s] = agent[s]
    <2>1. CASE agent[r].status = "stopped"
        <3>1. Ends(r, "stopped")
            BY <2>1 DEF SaveInvestigation
        <3>2. /\ agent'[r] = [Idle EXCEPT !.pc = "ended", !.told = agent[r].told,
                                          !.exit = "stopped"]
              /\ \A s \in Run : s # r => agent'[s] = agent[s]
            BY <1>4, <3>1 DEF Ends, Becomes
        <3>. QED
            BY <3>2 DEF Idle
    <2>2. CASE agent[r].status # "stopped"
        <3>1. Becomes(r, [agent[r] EXCEPT !.pc = "closing"])
            BY <2>2 DEF SaveInvestigation
        <3>. QED
            BY <1>4, <3>1 DEF Becomes, AgentFields
    <2>. QED
        BY <2>1, <2>2
<1>6. /\ record.by = r
      /\ record.decisions = Wrote(r)
      /\ record.finding.proposed \subseteq Claimed(r)
    BY FindingIsClaimed DEF InvestigationRecord, Wrote, Claimed
<1>. HIDE DEF record
<1>7. /\ DOMAIN investigations'[d] = DOMAIN investigations[d] \cup {name}
      /\ investigations'[d][name] = record
      /\ \A n \in DOMAIN investigations[d] :
            investigations'[d][n] = investigations[d][n]
    BY <1>1, <1>2, <1>4 DEF With
<1>8. \A e \in Directory : e # d => investigations'[e] = investigations[e]
    BY <1>1, <1>4
<1>9. /\ \A s \in Run : DirectoryOf(s)' = DirectoryOf(s)
      /\ \A s \in Run : Wrote(s)' \subseteq Wrote(s) /\ Claimed(s)' \subseteq Claimed(s)
      /\ \A s \in Run : s # r => Wrote(s)' = Wrote(s) /\ (Over(s)' <=> Over(s))
      /\ ~Over(r) /\ Over(r)'
    <2>1. \A s \in Run : DirectoryOf(s)' = DirectoryOf(s)
        BY <1>3 DEF DirectoryOf
    <2>2. /\ \A s \in Run : s # r => /\ Wrote(s)' = Wrote(s)
                                     /\ Claimed(s)' = Claimed(s)
                                     /\ Over(s)' <=> Over(s)
          /\ ~Over(r) /\ Over(r)'
        BY <1>3, <1>5 DEF Wrote, Claimed, Over
    <2>3. Wrote(r)' \subseteq Wrote(r) /\ Claimed(r)' \subseteq Claimed(r)
        BY <1>5, DecisionsOfNone DEF Wrote, Claimed
    <2>. QED
        BY <2>1, <2>2, <2>3
<1>10. d \in Kept => RunIsKnown(r)
    BY DEF RecordsInv
<1>11. ASSUME NEW e \in Kept, NEW i, NEW x, CopyIsKnown(e, i, x)
       PROVE  CopyIsKnown(e, i, x)'
    <2>1. x.by \in Run /\ DirectoryOf(x.by) = e /\ e \in Directory
        BY <1>11 DEF CopyIsKnown, Kept
    <2>2. /\ ~Over(x.by)' => i \in Wrote(x.by)'
          /\ i \in Claimed(x.by)' => x.clean
        BY <1>9, <1>11, <2>1 DEF CopyIsKnown
    <2>3. ASSUME NEW n \in DOMAIN investigations'[e], investigations'[e][n].by = x.by
          PROVE  /\ i \in investigations'[e][n].decisions
                 /\ i \in investigations'[e][n].finding.proposed => x.clean
        <3>1. CASE n \in DOMAIN investigations[e]
            <4>1. investigations'[e][n] = investigations[e][n]
                BY <1>7, <1>8, <2>1, <3>1
            <4>. QED
                BY <1>11, <2>3, <3>1, <4>1 DEF CopyIsKnown
        <3>2. CASE n \notin DOMAIN investigations[e]
            <4>1. e = d /\ investigations'[e][n] = record
                BY <1>7, <1>8, <2>1, <2>3, <3>2
            <4>2. x.by = r
                BY <1>6, <2>3, <4>1
            <4>. QED
                BY <1>6, <1>9, <1>11, <4>1, <4>2 DEF CopyIsKnown
        <3>. QED
            BY <3>1, <3>2
    <2>4. i \in DOMAIN decisions'[e]
        BY <1>3, <1>11 DEF CopyIsKnown
    <2>. QED
        BY <1>9, <1>11, <2>1, <2>2, <2>3, <2>4 DEF CopyIsKnown
<1>12. Kept' = Kept
    BY DEF Kept
<1>13. ASSUME NEW e \in Kept, NEW i \in DOMAIN decisions[e]
       PROVE  CopyIsKnown(e, i, decisions[e][i])'
    <2>1. ASSUME NEW x, x = decisions[e][i] PROVE CopyIsKnown(e, i, x)'
        BY <1>11, <1>13, <2>1 DEF RecordsInv
    <2>. QED
        BY <1>3, <2>1 DEF CopyIsKnown
<1>14. ASSUME NEW e \in Kept, NEW n \in DOMAIN investigations'[e]
       PROVE  IF investigations'[e][n].by \in Run
              THEN DirectoryOf(investigations[e][n].by)' = e
              ELSE investigations'[e][n].finding.proposed = {}
    <2>1. CASE n \in DOMAIN investigations[e]
        <3>1. investigations'[e][n] = investigations[e][n]
            BY <1>7, <1>8, <2>1 DEF Kept
        <3>. QED
            BY <1>9, <2>1, <3>1 DEF RecordsInv
    <2>2. CASE n \notin DOMAIN investigations[e]
        <3>1. e = d /\ investigations'[e][n] = record
            BY <1>7, <1>8, <1>14, <2>2 DEF Kept
        <3>. QED
            BY <1>6, <1>9, <3>1
    <2>. QED
        BY <2>1, <2>2
<1>15. ASSUME NEW s \in Run, DirectoryOf(s) \in Kept PROVE RunIsKnown(s)'
    <2>. DEFINE e == DirectoryOf(s)
    <2>1. RunIsKnown(s) /\ e \in Directory /\ DirectoryOf(s)' = e
        BY <1>9, <1>15 DEF RecordsInv, Kept
    <2>2. /\ Wrote(s)' \subseteq DOMAIN decisions'[e]
          /\ \A i \in Claimed(s)' : i[1] \notin Reading
        BY <1>3, <1>9, <2>1 DEF RunIsKnown
    <2>3. CASE s = r
        <3>1. \A n \in DOMAIN investigations[d] : investigations[d][n].by # r
            BY <1>9, <1>10, <1>15, <2>3 DEF RunIsKnown, RecordOf
        <3>2. \A n \in DOMAIN investigations'[d] :
                RecordOf(r, n)' => n = name /\ investigations'[d][n] = record
            BY <1>7, <3>1, <2>1, <2>3 DEF RecordOf
        <3>3. name \in DOMAIN investigations'[d] /\ RecordOf(r, name)'
            BY <1>6, <1>7, <2>1, <2>3 DEF RecordOf
        <3>4. \A i \in record.finding.proposed :
                i \in DOMAIN decisions'[d] /\ i[1] \notin Reading
            <4>1. Claimed(r) \subseteq Wrote(r)
                BY DEF Claimed, Wrote, DecisionsOf
            <4>. QED
                BY <1>3, <1>6, <2>1, <2>3, <4>1 DEF RunIsKnown
        <3>. QED
            BY <1>9, <2>1, <2>2, <2>3, <3>2, <3>3, <3>4 DEF RunIsKnown
    <2>4. CASE s # r
        <3>1. \A n : RecordOf(s, n)' <=> RecordOf(s, n)
            BY <1>6, <1>7, <1>8, <2>1, <2>4 DEF RecordOf
        <3>2. \A n \in DOMAIN investigations[e] :
                /\ n \in DOMAIN investigations'[e]
                /\ investigations'[e][n] = investigations[e][n]
            BY <1>7, <1>8, <2>1
        <3>3. agent'[s] = agent[s] /\ (Over(s)' <=> Over(s))
            BY <1>5, <1>9, <2>4
        <3>4. \A n : RecordOf(s, n) => n \in DOMAIN investigations[e]
            BY DEF RecordOf
        <3>5. ASSUME NEW n, RecordOf(s, n)', NEW i \in investigations'[e][n].finding.proposed
              PROVE  i \in DOMAIN decisions'[e] /\ i[1] \notin Reading
            BY <1>3, <2>1, <3>1, <3>2, <3>4, <3>5 DEF RunIsKnown
        <3>6. ~Over(s)' => \A n \in DOMAIN investigations'[e] : ~RecordOf(s, n)'
            BY <2>1, <3>1, <3>3, <3>4 DEF RunIsKnown
        <3>7. agent'[s].pc = "closing" \/ agent'[s].exit \notin Unrecorded =>
                \E n \in DOMAIN investigations'[e] :
                    RecordOf(s, n)' /\ \A m \in DOMAIN investigations'[e] :
                                            RecordOf(s, m)' => m = n
            BY <2>1, <3>1, <3>2, <3>3, <3>4 DEF RunIsKnown
        <3>. QED
            BY <2>1, <2>2, <3>5, <3>6, <3>7 DEF RunIsKnown
    <2>. QED
        BY <2>3, <2>4
<1>16. ASSUME NEW s \in Run, DirectoryOf(s) \in Kept, Drafting(s)' PROVE DraftIsKnown(s)'
    <2>1. s # r /\ agent'[s] = agent[s]
        BY <1>5, <1>16 DEF Drafting
    <2>2. Drafting(s) /\ DraftIsKnown(s)
        BY <1>16, <2>1 DEF Drafting, RecordsInv
    <2>3. ASSUME NEW e, e = DirectoryOf(s), NEW i \in DOMAIN agent[s].draft.older,
                 NEW x, x = agent[s].draft.older[i]
          PROVE  CopyIsKnown(e, i, x)' /\ x.status = "proposed"
        BY <1>11, <1>16, <2>2, <2>3 DEF DraftIsKnown
    <2>. QED
        BY <1>9, <2>1, <2>2, <2>3 DEF DraftIsKnown, CopyIsKnown
<1>. QED
    BY <1>3, <1>9, <1>12, <1>13, <1>14, <1>15, <1>16 DEF RecordsInv

\* Old directories are forgotten whole; the others stay as they are.
LEMMA ForgettingKeepsRecords ==
    ASSUME RecordsInv, UNCHANGED <<served, agent>>, Kept' \subseteq Kept,
           \A d \in Kept' :
                decisions'[d] = decisions[d] /\ investigations'[d] = investigations[d]
    PROVE  RecordsInv'
<1>1. Kept' \subseteq Kept
    OBVIOUS
<1>2. \A d \in Kept' : decisions'[d] = decisions[d] /\ investigations'[d] = investigations[d]
    OBVIOUS
<1>3. \A s \in Run : /\ DirectoryOf(s)' = DirectoryOf(s)
                     /\ Wrote(s)' = Wrote(s) /\ Claimed(s)' = Claimed(s)
                     /\ Over(s)' <=> Over(s)
                     /\ Drafting(s)' <=> Drafting(s)
    BY DEF DirectoryOf, Wrote, Claimed, Over, Drafting
<1>4. ASSUME NEW d \in Kept', NEW i, NEW x, CopyIsKnown(d, i, x) PROVE CopyIsKnown(d, i, x)'
    BY <1>2, <1>3, <1>4 DEF CopyIsKnown
<1>5. ASSUME NEW d \in Kept', NEW i \in DOMAIN decisions'[d]
      PROVE  CopyIsKnown(d, i, decisions[d][i])'
    <2>1. ASSUME NEW x, x = decisions[d][i] PROVE CopyIsKnown(d, i, x)'
        BY <1>1, <1>2, <1>4, <1>5, <2>1 DEF RecordsInv
    <2>. QED
        BY <1>2, <2>1 DEF CopyIsKnown
<1>6. ASSUME NEW d \in Kept', NEW n \in DOMAIN investigations'[d]
      PROVE  IF investigations'[d][n].by \in Run
             THEN DirectoryOf(investigations[d][n].by)' = d
             ELSE investigations'[d][n].finding.proposed = {}
    BY <1>1, <1>2, <1>3, <1>6 DEF RecordsInv
<1>7. ASSUME NEW s \in Run, DirectoryOf(s)' \in Kept' PROVE RunIsKnown(s)'
    <2>1. RunIsKnown(s) /\ DirectoryOf(s) \in Kept'
        BY <1>1, <1>3, <1>7 DEF RecordsInv
    <2>2. \A n : RecordOf(s, n)' <=> RecordOf(s, n)
        BY <1>2, <1>3, <2>1 DEF RecordOf
    <2>. QED
        BY <1>2, <1>3, <2>1, <2>2 DEF RunIsKnown
<1>8. ASSUME NEW s \in Run, DirectoryOf(s)' \in Kept', Drafting(s)' PROVE DraftIsKnown(s)'
    <2>1. DraftIsKnown(s) /\ DirectoryOf(s) \in Kept'
        BY <1>1, <1>3, <1>8 DEF RecordsInv
    <2>2. ASSUME NEW e, e = DirectoryOf(s), NEW i \in DOMAIN agent[s].draft.older,
                 NEW x, x = agent[s].draft.older[i]
          PROVE  CopyIsKnown(e, i, x)' /\ x.status = "proposed"
        BY <1>4, <2>1, <2>2 DEF DraftIsKnown
    <2>. QED
        BY <1>3, <2>1, <2>2 DEF DraftIsKnown, CopyIsKnown
<1>. QED
    BY <1>5, <1>6, <1>7, <1>8 DEF RecordsInv

-----------------------------------------------------------------------------
(* The steps of a run.                                                     *)

\* A run moves on without a new decision: it keeps its steps, or one more that
\* names none or repeats an earlier one.
QuietMove(r, a) ==
    /\ ~Over(r)
    /\ Becomes(r, a)
    /\ UNCHANGED <<now, served, decisions, investigations>>
    /\ DOMAIN a = AgentFields
    /\ a.pc \in {"asking", "turn", "calling", "step", "ending"}
    /\ a.exit = "none"
    /\ \/ a.steps = agent[r].steps
       \/ \E step \in StepSet :
            /\ a.steps = Append(agent[r].steps, step)
            /\ step.outcome \in {"repeated", "invalid"} \/ step.decision = NoDecision

\* A run ends, having told its record or without one.
BareEnd(r, exit) ==
    /\ Ends(r, exit)
    /\ UNCHANGED <<now, served, decisions, investigations>>
    /\ exit \in Unrecorded \/ agent[r].pc = "closing"

\* One run takes a step: the state of the others keeps its shape.
LEMMA OneRunMoves ==
    ASSUME ShapeInv, NEW r \in Run, NEW a, Becomes(r, a),
           now' \in Nat, UNCHANGED <<served, forgotten, visit>>,
           DOMAIN decisions' = Directory, DOMAIN investigations' = Directory,
           DOMAIN a = AgentFields,
           a.steps \in Seq(StepSet),
           a.pc # "ended" => a.exit = "none",
           a.pc \in {"checking", "writing"} =>
               /\ DOMAIN a.draft = {"question", "id", "older", "clean"}
               /\ a.draft.question \in Question
               /\ a.draft.id \in {OperationOf[CallOf[a.draft.question]]} \X Nat
    PROVE  ShapeInv'
<1>1. /\ agent'[r] = a
      /\ \A s \in Run : s # r => agent'[s] = agent[s]
      /\ DOMAIN agent' = Run
    BY DEF ShapeInv, Becomes
<1>2. ASSUME NEW s \in Run PROVE ShapeOf(s)'
    <2>1. CASE s = r
        BY <1>1, <2>1 DEF ShapeOf, Drafting
    <2>2. CASE s # r
        BY <1>1, <2>2 DEF ShapeInv, ShapeOf, Drafting
    <2>. QED
        BY <2>1, <2>2
<1>. QED
    BY <1>1, <1>2 DEF ShapeInv

\* A quiet step keeps the shape and the records.
LEMMA QuietMoveKeeps ==
    ASSUME ShapeInv, RecordsInv, NEW r \in Run, NEW a, QuietMove(r, a),
           UNCHANGED <<forgotten, visit>>
    PROVE  ShapeInv' /\ RecordsInv'
<1>1. agent[r].steps \in Seq(StepSet)
    BY DEF ShapeInv, ShapeOf
<1>2. /\ a.steps \in Seq(StepSet)
      /\ DecisionsOf(a.steps, {"ran", "proposed", "failed"}) = Wrote(r)
      /\ DecisionsOf(a.steps, {"proposed"}) = Claimed(r)
    <2>1. CASE a.steps = agent[r].steps
        BY <1>1, <2>1 DEF Wrote, Claimed
    <2>2. ASSUME NEW step \in StepSet, a.steps = Append(agent[r].steps, step),
                 step.outcome \in {"repeated", "invalid"} \/ step.decision = NoDecision
          PROVE  /\ a.steps \in Seq(StepSet)
                 /\ DecisionsOf(a.steps, {"ran", "proposed", "failed"}) = Wrote(r)
                 /\ DecisionsOf(a.steps, {"proposed"}) = Claimed(r)
        <3>1. \A outcomes : /\ a.steps \in Seq(StepSet)
                            /\ DecisionsOf(a.steps, outcomes) =
                                DecisionsOf(agent[r].steps, outcomes) \cup
                                (IF step.outcome \in outcomes /\ step.decision # NoDecision
                                 THEN {step.decision} ELSE {})
            BY <1>1, <2>2, DecisionsOfAppend
        <3>2. /\ ~(step.outcome \in {"ran", "proposed", "failed"} /\ step.decision # NoDecision)
              /\ ~(step.outcome \in {"proposed"} /\ step.decision # NoDecision)
            BY <2>2
        <3>. QED
            BY <3>1, <3>2 DEF Wrote, Claimed
    <2>. QED
        BY <2>1, <2>2 DEF QuietMove
<1>3. ShapeInv'
    BY <1>2, OneRunMoves DEF QuietMove, ShapeInv
<1>4. RecordsInv'
    BY <1>2, MoveKeepsRecords DEF QuietMove, Becomes, Unrecorded
<1>. QED
    BY <1>3, <1>4

\* So does an end.
LEMMA BareEndKeeps ==
    ASSUME ShapeInv, RecordsInv, NEW r \in Run, NEW exit, BareEnd(r, exit),
           UNCHANGED <<forgotten>>
    PROVE  RecordsInv' /\ (visit' = visit => ShapeInv')
<1>. DEFINE a == [Idle EXCEPT !.pc = "ended", !.told = agent[r].told, !.exit = exit]
<1>1. /\ a.pc = "ended" /\ a.steps = <<>> /\ a.exit = exit
      /\ DOMAIN a = AgentFields
    BY DEF Idle, AgentFields
<1>2. Becomes(r, a)
    BY DEF BareEnd, Ends
<1>. HIDE DEF a
<1>3. \A outcomes : DecisionsOf(a.steps, outcomes) = {}
    BY <1>1, DecisionsOfNone
<1>4. RecordsInv'
    BY <1>1, <1>2, <1>3, MoveKeepsRecords DEF BareEnd, Becomes
<1>5. a.steps \in Seq(StepSet)
    BY <1>1
<1>6. visit' = visit => ShapeInv'
    BY <1>1, <1>2, <1>5, OneRunMoves DEF BareEnd, ShapeInv
<1>. QED
    BY <1>4, <1>6

\* A call is checked: its run takes copies of the open records of the call,
\* which are known, as older ones to mark.
LEMMA CallProposedKeeps ==
    ASSUME ShapeInv, RecordsInv, NEW r \in Run, CallProposed(r),
           UNCHANGED <<forgotten, visit>>
    PROVE  ShapeInv' /\ RecordsInv'
<1>. DEFINE question == Head(agent[r].calls)
            call == CallOf[question]
            records == decisions[DirectoryOf(r)]
            olders == {i \in DOMAIN records :
                        /\ records[i].status = "proposed"
                        /\ records[i].call = call
                        /\ records[i].replayed = (r \in served)}
            draft == [question |-> question,
                      id |-> <<OperationOf[call], now>>,
                      older |-> [i \in olders |-> records[i]],
                      clean |-> FALSE]
            a == [agent[r] EXCEPT !.pc = "checking", !.draft = draft]
<1>1. /\ agent[r].pc = "calling"
      /\ question \in Question
      /\ Becomes(r, a)
      /\ UNCHANGED <<now, served, decisions, investigations>>
    BY DEF CallProposed
<1>2. /\ DOMAIN agent[r] = AgentFields
      /\ agent[r].steps \in Seq(StepSet)
      /\ agent[r].exit = "none"
      /\ now \in Nat
    BY <1>1 DEF ShapeInv, ShapeOf
<1>3. /\ DOMAIN a = AgentFields
      /\ a.pc = "checking" /\ a.exit = "none"
      /\ a.steps = agent[r].steps
      /\ a.draft = draft
    BY <1>2 DEF AgentFields
<1>4. /\ DOMAIN draft = {"question", "id", "older", "clean"}
      /\ draft.question \in Question
      /\ draft.id \in {OperationOf[CallOf[draft.question]]} \X Nat
      /\ draft.older = [i \in olders |-> records[i]]
    BY <1>1, <1>2
<1>5. ASSUME DirectoryOf(r) \in Kept, NEW i \in DOMAIN draft.older
      PROVE  /\ CopyIsKnown(DirectoryOf(r), i, draft.older[i])
             /\ draft.older[i].status = "proposed"
    BY <1>4, <1>5 DEF RecordsInv
<1>. HIDE DEF draft, a
<1>6. ShapeInv'
    BY <1>1, <1>2, <1>3, <1>4, OneRunMoves DEF ShapeInv
<1>7. RecordsInv'
    BY <1>1, <1>3, <1>5, MoveKeepsRecords DEF Becomes, Over, Wrote, Claimed, Unrecorded
<1>. QED
    BY <1>6, <1>7

\* A step that is kept without a decision is quiet.
LEMMA KeepsQuietly ==
    ASSUME ShapeInv, NEW r \in Run, agent[r].pc \in {"calling", "checking"},
           NEW step \in StepSet, Keeps(r, agent[r], step),
           step.outcome \in {"repeated", "invalid"} \/ step.decision = NoDecision,
           UNCHANGED <<now, served, decisions, investigations>>
    PROVE  \E a : QuietMove(r, a)
<1>. DEFINE a == [agent[r] EXCEPT !.pc = "step", !.steps = Append(@, step), !.draft = {}]
<1>1. DOMAIN agent[r] = AgentFields /\ agent[r].exit = "none"
    BY DEF ShapeInv, ShapeOf
<1>2. /\ DOMAIN a = AgentFields /\ a.pc = "step" /\ a.exit = "none"
      /\ a.steps = Append(agent[r].steps, step)
    BY <1>1 DEF AgentFields
<1>3. Becomes(r, a)
    BY DEF Keeps
<1>. HIDE DEF a
<1>4. QuietMove(r, a)
    BY <1>2, <1>3 DEF QuietMove, Over
<1>. QED
    BY <1>4

\* The check of a call ends: its name is taken, or the record is about to be
\* written under a name that is free.
LEMMA CheckEndsKeeps ==
    ASSUME ShapeInv, RecordsInv, NEW r \in Run, CheckEnds(r),
           UNCHANGED <<forgotten, visit>>
    PROVE  ShapeInv' /\ RecordsInv'
<1>. DEFINE draft == agent[r].draft
<1>1. /\ agent[r].pc = "checking"
      /\ UNCHANGED <<now, served, decisions, investigations>>
    BY DEF CheckEnds
<1>2. /\ DOMAIN agent[r] = AgentFields
      /\ agent[r].steps \in Seq(StepSet)
      /\ agent[r].exit = "none"
      /\ now \in Nat
      /\ DOMAIN draft = {"question", "id", "older", "clean"}
      /\ draft.question \in Question
      /\ draft.id \in {OperationOf[CallOf[draft.question]]} \X Nat
    BY <1>1 DEF ShapeInv, ShapeOf, Drafting
<1>3. CASE draft.id \in DOMAIN decisions[DirectoryOf(r)]
    <2>. DEFINE step == Step(draft.question, "failed", NoDecision)
    <2>1. Keeps(r, agent[r], step)
        BY <1>3 DEF CheckEnds
    <2>2. step \in StepSet /\ step.decision = NoDecision
        BY <1>2 DEF Step, StepSet, DecisionId, NoDecision, Never
    <2>. HIDE DEF step
    <2>. QED
        BY <1>1, <2>1, <2>2, KeepsQuietly, QuietMoveKeeps
<1>4. CASE draft.id \notin DOMAIN decisions[DirectoryOf(r)]
    <2>1. PICK clean : Becomes(r, [agent[r] EXCEPT !.pc = "writing", !.draft.clean = clean])
        BY <1>4 DEF CheckEnds
    <2>. DEFINE a == [agent[r] EXCEPT !.pc = "writing", !.draft.clean = clean]
    <2>2. /\ DOMAIN a = AgentFields
          /\ a.pc = "writing" /\ a.exit = "none"
          /\ a.steps = agent[r].steps
          /\ a.draft = [draft EXCEPT !.clean = clean]
        BY <1>2 DEF AgentFields
    <2>3. /\ DOMAIN a.draft = {"question", "id", "older", "clean"}
          /\ a.draft.question = draft.question
          /\ a.draft.id = draft.id
          /\ a.draft.older = draft.older
        BY <1>2, <2>2
    <2>7. Becomes(r, a)
        BY <2>1
    <2>. HIDE DEF a
    <2>4. ShapeInv'
        BY <1>1, <1>2, <2>2, <2>3, <2>7, OneRunMoves DEF ShapeInv
    <2>5. ASSUME DirectoryOf(r) \in Kept
          PROVE  /\ \A i \in DOMAIN draft.older :
                    /\ CopyIsKnown(DirectoryOf(r), i, draft.older[i])
                    /\ draft.older[i].status = "proposed"
                 /\ draft.id \notin Wrote(r) \cup DOMAIN draft.older
        <3>1. DraftIsKnown(r) /\ RunIsKnown(r)
            BY <1>1, <2>5 DEF RecordsInv, Drafting
        <3>2. DOMAIN draft.older \subseteq DOMAIN decisions[DirectoryOf(r)]
            BY <3>1 DEF DraftIsKnown, CopyIsKnown
        <3>. QED
            BY <1>4, <3>1, <3>2 DEF DraftIsKnown, RunIsKnown
    <2>6. RecordsInv'
        <3>1. ~Over(r) /\ agent' = [agent EXCEPT ![r] = a]
            BY <1>1, <2>7 DEF Over, Becomes
        <3>2. /\ DecisionsOf(a.steps, {"ran", "proposed", "failed"}) = Wrote(r)
              /\ DecisionsOf(a.steps, {"proposed"}) = Claimed(r)
              /\ a.exit \in Unrecorded
            BY <2>2 DEF Wrote, Claimed, Unrecorded
        <3>3. DirectoryOf(r) \in Kept =>
                /\ \A i \in DOMAIN a.draft.older :
                    /\ CopyIsKnown(DirectoryOf(r), i, a.draft.older[i])
                    /\ a.draft.older[i].status = "proposed"
                /\ a.draft.id \notin Wrote(r) \cup DOMAIN a.draft.older
            BY <2>3, <2>5
        <3>. QED
            BY <1>1, <2>2, <3>1, <3>2, <3>3, MoveKeepsRecords
    <2>. QED
        BY <2>4, <2>6
<1>. QED
    BY <1>3, <1>4

\* A decision or an investigation that is written keeps the shape.
LEMMA SavesKeepShape ==
    ASSUME ShapeInv, NEW r \in Run, SaveDecision(r) \/ SaveInvestigation(r),
           UNCHANGED <<forgotten, visit>>
    PROVE  ShapeInv'
<1>1. /\ DOMAIN agent[r] = AgentFields
      /\ agent[r].steps \in Seq(StepSet)
      /\ agent[r].pc \in {"writing", "ending"} => agent[r].exit = "none"
      /\ now \in Nat /\ DOMAIN decisions = Directory /\ DOMAIN investigations = Directory
    BY DEF ShapeInv, ShapeOf
<1>2. CASE SaveDecision(r)
    <2>. DEFINE draft == agent[r].draft
                step == Step(draft.question,
                             OutcomeOf(CallOf[draft.question], draft.clean), draft.id)
                a == [agent[r] EXCEPT !.pc = "step", !.steps = Append(@, step), !.draft = {}]
    <2>1. /\ agent[r].pc = "writing" /\ Becomes(r, a)
          /\ now' = now /\ UNCHANGED <<served, investigations>>
          /\ DOMAIN decisions' = Directory
        BY <1>1, <1>2 DEF SaveDecision, Keeps
    <2>2. step \in StepSet
        BY <2>1, SavedStep
    <2>. HIDE DEF step
    <2>3. /\ DOMAIN a = AgentFields /\ a.pc = "step" /\ a.exit = "none"
          /\ a.steps = Append(agent[r].steps, step)
        BY <1>1, <2>1 DEF AgentFields
    <2>4. a.steps \in Seq(StepSet)
        BY <1>1, <2>2, <2>3
    <2>. HIDE DEF a
    <2>. QED
        BY <1>1, <2>1, <2>3, <2>4, OneRunMoves
<1>3. CASE SaveInvestigation(r)
    <2>1. /\ agent[r].pc = "ending"
          /\ now' = now /\ UNCHANGED <<served, decisions>>
          /\ DOMAIN investigations' = Directory
        BY <1>1, <1>3 DEF SaveInvestigation
    <2>2. CASE agent[r].status = "stopped"
        <3>. DEFINE a == [Idle EXCEPT !.pc = "ended", !.told = agent[r].told,
                                      !.exit = "stopped"]
        <3>1. Becomes(r, a)
            BY <1>3, <2>2 DEF SaveInvestigation, Ends
        <3>2. a.pc = "ended" /\ a.steps = <<>> /\ DOMAIN a = AgentFields
            BY DEF Idle, AgentFields
        <3>. HIDE DEF a
        <3>3. a.steps \in Seq(StepSet)
            BY <3>2
        <3>. QED
            BY <1>1, <2>1, <3>1, <3>2, <3>3, OneRunMoves
    <2>3. CASE agent[r].status # "stopped"
        <3>. DEFINE a == [agent[r] EXCEPT !.pc = "closing"]
        <3>1. Becomes(r, a)
            BY <1>3, <2>3 DEF SaveInvestigation
        <3>2. /\ a.pc = "closing" /\ a.steps = agent[r].steps /\ a.exit = "none"
              /\ DOMAIN a = AgentFields
            BY <1>1, <2>1 DEF AgentFields
        <3>. HIDE DEF a
        <3>. QED
            BY <1>1, <2>1, <3>1, <3>2, OneRunMoves
    <2>. QED
        BY <2>2, <2>3
<1>. QED
    BY <1>2, <1>3

\* Whatever a run does on its own keeps the shape and the records.
LEMMA ProceedsKeeps ==
    ASSUME ShapeInv, RecordsInv, NEW r \in Run, Proceeds(r),
           UNCHANGED <<forgotten, visit>>
    PROVE  ShapeInv' /\ RecordsInv'
<1>. DEFINE same(a) == /\ DOMAIN a = AgentFields /\ a.exit = "none"
                       /\ a.steps = agent[r].steps
<1>1. /\ DOMAIN agent[r] = AgentFields
      /\ agent[r].steps \in Seq(StepSet)
      /\ agent[r].pc # "ended" => agent[r].exit = "none"
    BY DEF ShapeInv, ShapeOf
<1>2. ASSUME AnswerCalls(r) PROVE \E a : QuietMove(r, a)
    <2>1. PICK calls : Becomes(r, [agent[r] EXCEPT !.pc = "turn", !.turns = @ + 1,
                                                  !.calls = calls])
        BY <1>2, Zenon DEF AnswerCalls
    <2>3. /\ agent[r].pc = "asking"
          /\ UNCHANGED <<now, served, decisions, investigations>>
        BY <1>2, Zenon DEF AnswerCalls
    <2>. DEFINE a == [agent[r] EXCEPT !.pc = "turn", !.turns = @ + 1, !.calls = calls]
    <2>2. same(a) /\ a.pc = "turn"
        BY <1>1, <2>3 DEF AgentFields
    <2>. QED
        BY <2>1, <2>2, <2>3 DEF QuietMove, Over
<1>3. ASSUME Answer(r) PROVE \E a : QuietMove(r, a)
    <2>1. PICK shaped, names :
            Becomes(r, [agent[r] EXCEPT !.pc = "turn", !.turns = @ + 1,
                                        !.names = names, !.shaped = shaped])
        BY <1>3 DEF Answer
    <2>. DEFINE a == [agent[r] EXCEPT !.pc = "turn", !.turns = @ + 1,
                                      !.names = names, !.shaped = shaped]
    <2>2. same(a) /\ a.pc = "turn"
        BY <1>1, <1>3 DEF Answer, AgentFields
    <2>. QED
        BY <1>3, <2>1, <2>2 DEF Answer, QuietMove, Over
<1>4. ASSUME EndpointFails(r) PROVE \E a : QuietMove(r, a)
    <2>. DEFINE a == [agent[r] EXCEPT !.pc = "ending", !.turns = @ + 1,
                                      !.status = "model-unavailable"]
    <2>1. same(a) /\ a.pc = "ending"
        BY <1>1, <1>4 DEF EndpointFails, AgentFields
    <2>2. QuietMove(r, a)
        BY <1>4, <2>1 DEF EndpointFails, QuietMove, Over
    <2>. QED
        BY <2>2
<1>5. ASSUME TellTurn(r) PROVE \E a : QuietMove(r, a)
    <2>. DEFINE answered == agent[r].calls = <<>>
                a == [agent[r] EXCEPT
                        !.pc = IF answered THEN "ending" ELSE "calling",
                        !.told = @ + 1,
                        !.status = IF answered THEN "unstructured" ELSE @]
    <2>1. same(a) /\ a.pc \in {"ending", "calling"}
        BY <1>1, <1>5 DEF TellTurn, AgentFields
    <2>2. QuietMove(r, a)
        BY <1>5, <2>1 DEF TellTurn, QuietMove, Over
    <2>. QED
        BY <2>2
<1>6. ASSUME TellStep(r) PROVE \E a : QuietMove(r, a)
    <2>. DEFINE a0 == [agent[r] EXCEPT !.calls = Tail(@)]
                a == [a0 EXCEPT !.pc = AfterCalls(r, a0)]
    <2>1. /\ DOMAIN a0 = AgentFields /\ a0.exit = "none"
          /\ a0.steps = agent[r].steps
        BY <1>1, <1>6 DEF TellStep, AgentFields
    <2>2. AfterCalls(r, a0) \in {"calling", "asking", "ending"}
        BY DEF AfterCalls
    <2>3. Becomes(r, a) /\ agent[r].pc = "step"
          /\ UNCHANGED <<now, served, decisions, investigations>>
        BY <1>6 DEF TellStep
    <2>. HIDE DEF a0
    <2>4. same(a) /\ a.pc \in {"calling", "asking", "ending"}
        BY <2>1, <2>2 DEF AgentFields
    <2>5. QuietMove(r, a)
        BY <2>3, <2>4 DEF QuietMove, Over
    <2>. QED
        BY <2>5
<1>7. ASSUME Stop(r) PROVE \E a : QuietMove(r, a)
    <2>. DEFINE a == [agent[r] EXCEPT !.pc = "ending", !.status = "stopped"]
    <2>1. same(a) /\ a.pc = "ending"
        BY <1>1, <1>7 DEF Stop, AgentFields
    <2>2. QuietMove(r, a)
        BY <1>7, <2>1 DEF Stop, QuietMove, Over
    <2>. QED
        BY <2>2
<1>8. ASSUME CallBroken(r) PROVE \E a : QuietMove(r, a)
    <2>. DEFINE a == [agent[r] EXCEPT !.pc = "ending", !.status = "model-unavailable"]
    <2>1. same(a) /\ a.pc = "ending"
        BY <1>1, <1>8 DEF CallBroken, AgentFields
    <2>2. QuietMove(r, a)
        BY <1>8, <2>1 DEF CallBroken, QuietMove, Over
    <2>. QED
        BY <2>2
<1>9. NoDecision \in DecisionId
    BY DEF NoDecision, Never, DecisionId
<1>10. ASSUME CallRefused(r) PROVE \E a : QuietMove(r, a)
    <2>. DEFINE step == Step(Refused, "invalid", NoDecision)
    <2>1. step \in StepSet /\ step.outcome = "invalid"
        BY <1>9 DEF Step, StepSet
    <2>. HIDE DEF step
    <2>2. Keeps(r, agent[r], step)
        BY <1>10 DEF CallRefused, step
    <2>. QED
        BY <1>10, <2>1, <2>2, KeepsQuietly DEF CallRefused
<1>11. ASSUME CallRepeated(r) PROVE \E a : QuietMove(r, a)
    <2>1. PICK earlier \in Seen(r, Head(agent[r].calls)) :
            Keeps(r, agent[r], Step(earlier.question, "repeated", earlier.decision))
        BY <1>11 DEF CallRepeated
    <2>2. earlier \in StepSet
        BY <1>1, <2>1 DEF Seen
    <2>. DEFINE step == Step(earlier.question, "repeated", earlier.decision)
    <2>3. step \in StepSet /\ step.outcome = "repeated"
        BY <2>2 DEF Step, StepSet
    <2>. HIDE DEF step
    <2>4. Keeps(r, agent[r], step)
        BY <2>1 DEF step
    <2>. QED
        BY <1>11, <2>3, <2>4, KeepsQuietly DEF CallRepeated
<1>12. ASSUME CheckFails(r) PROVE \E a : QuietMove(r, a)
    <2>. DEFINE step == Step(agent[r].draft.question, "failed", NoDecision)
    <2>1. agent[r].pc = "checking" /\ Keeps(r, agent[r], step)
        BY <1>12 DEF CheckFails
    <2>2. agent[r].draft.question \in Question
        BY <2>1 DEF ShapeInv, ShapeOf, Drafting
    <2>3. step \in StepSet /\ step.decision = NoDecision
        BY <1>9, <2>2 DEF Step, StepSet
    <2>. HIDE DEF step
    <2>. QED
        BY <1>12, <2>1, <2>3, KeepsQuietly DEF CheckFails
<1>13. ASSUME NEW a, QuietMove(r, a) PROVE ShapeInv' /\ RecordsInv'
    BY <1>13, QuietMoveKeeps
<1>14. CASE NoNameLeft(r) \/ SaveUnwritable(r)
    <2>1. BareEnd(r, "precondition")
        BY <1>14 DEF NoNameLeft, SaveUnwritable, BareEnd, Unrecorded
    <2>. QED
        BY <2>1, BareEndKeeps
<1>15. CASE TellInvestigation(r)
    <2>1. PICK exit : BareEnd(r, exit)
        BY <1>15 DEF TellInvestigation, BareEnd
    <2>. QED
        BY <2>1, BareEndKeeps
<1>16. CASE SaveDecision(r) \/ SaveInvestigation(r)
    BY <1>16, SavesKeepShape, SaveDecisionKeepsRecords, SaveInvestigationKeepsRecords
<1>. QED
    BY <1>2, <1>3, <1>4, <1>5, <1>6, <1>7, <1>8, <1>10, <1>11, <1>12, <1>13, <1>14,
       <1>15, <1>16, CallProposedKeeps, CheckEndsKeeps
    DEF Proceeds

\* A run acts alone, and only once it has been started.
LEMMA ProceedsAlone ==
    ASSUME NEW r \in Run, Proceeds(r)
    PROVE  /\ agent[r].pc # "idle"
           /\ served' = served
           /\ \E a : Becomes(r, a)
<1>1. CASE AnswerCalls(r)
    <2>1. /\ agent[r].pc = "asking" /\ served' = served
          /\ \E a : Becomes(r, a)
        BY <1>1, Zenon DEF AnswerCalls
    <2>. QED
        BY <2>1
<1>2. CASE Answer(r) \/ EndpointFails(r) \/ TellTurn(r) \/ TellStep(r) \/ Stop(r)
    BY <1>2 DEF Answer, EndpointFails, TellTurn, TellStep, Stop
<1>3. CASE CallBroken(r) \/ CallRefused(r) \/ CallRepeated(r) \/ CallProposed(r)
    BY <1>3 DEF CallBroken, CallRefused, CallRepeated, CallProposed, Keeps
<1>4. CASE CheckEnds(r) \/ CheckFails(r) \/ SaveDecision(r)
    BY <1>4 DEF CheckEnds, CheckFails, SaveDecision, Keeps
<1>5. CASE SaveInvestigation(r)
    BY <1>5 DEF SaveInvestigation, Ends
<1>6. CASE NoNameLeft(r) \/ SaveUnwritable(r) \/ TellInvestigation(r)
    BY <1>6 DEF NoNameLeft, SaveUnwritable, TellInvestigation, Ends
<1>. QED
    BY <1>1, <1>2, <1>3, <1>4, <1>5, <1>6 DEF Proceeds

\* The queue stays what it was while a run that has left it moves.
LEMMA QueueKept ==
    ASSUME ShapeInv, QueueInv, NEW r \in Run, NEW a, Becomes(r, a),
           UNCHANGED <<served, visit, waiting>>,
           r \in served => agent[r].pc # "idle" \/ visit[r] \notin {"none", "waiting"}
    PROVE  QueueInv'
<1>1. \A s \in Run : s # r => agent'[s] = agent[s]
    BY DEF ShapeInv, Becomes
<1>2. \A s \in served : visit[s] \in {"none", "waiting"} => s # r /\ s \in Run
    BY DEF ShapeInv, QueueInv
<1>. QED
    BY <1>1, <1>2 DEF QueueInv

\* The first command finds one investigation, of the day before.
LEMMA InitIInv == DemoInit => IInv
<1>. SUFFICES ASSUME DemoInit PROVE IInv
    OBVIOUS
<1>1. /\ agent = [r \in Run |-> Idle]
      /\ decisions = [d \in Directory |-> <<>>]
      /\ investigations = [d \in Directory |-> IF d = Project THEN Earlier ELSE <<>>]
      /\ served \in {{}, Run} /\ now = 0
      /\ visit = [r \in Run |-> "none"] /\ waiting = <<>> /\ forgotten = {}
    BY DEF DemoInit, Init
<1>2. /\ DOMAIN Idle = AgentFields
      /\ Idle.steps = <<>> /\ Idle.pc = "idle" /\ Idle.exit = "none"
    BY DEF Idle, AgentFields
<1>3. ShapeInv
    <2>1. ASSUME NEW r \in Run PROVE ShapeOf(r)
        <3>1. agent[r] = Idle /\ <<>> \in Seq(StepSet)
            BY <1>1
        <3>. QED
            BY <1>2, <3>1 DEF ShapeOf, Drafting
    <2>. QED
        BY <1>1, <2>1 DEF ShapeInv
<1>4. QueueInv
    BY <1>1, <1>2 DEF QueueInv
<1>5. RecordsInv
    <2>1. \A d \in Directory : DOMAIN decisions[d] = {}
        BY <1>1
    <2>2. ASSUME NEW d \in Directory, NEW n \in DOMAIN investigations[d]
          PROVE  /\ d = Project
                 /\ investigations[d][n].by \notin Run
                 /\ investigations[d][n].finding.proposed = {}
        <3>1. d = Project
            BY <1>1, <2>2
        <3>2. investigations[d] = Earlier
            BY <1>1, <3>1
        <3>. QED
            BY <2>2, <3>1, <3>2, ProjectAssumption DEF Earlier, NoFinding
    <2>3. ASSUME NEW r \in Run
          PROVE  /\ RunIsKnown(r)
                 /\ ~Drafting(r)
        <3>1. /\ Wrote(r) = {} /\ Claimed(r) = {}
              /\ ~Drafting(r) /\ agent[r].pc = "idle" /\ agent[r].exit = "none"
            BY <1>1, <1>2, DecisionsOfNone DEF Wrote, Claimed, Drafting
        <3>2. DirectoryOf(r) \in Directory
            BY DEF DirectoryOf, Directory
        <3>3. \A n \in DOMAIN investigations[DirectoryOf(r)] : ~RecordOf(r, n)
            BY <2>2, <3>2 DEF RecordOf
        <3>. QED
            BY <3>1, <3>3 DEF RunIsKnown, Unrecorded
    <2>. QED
        BY <2>1, <2>2, <2>3 DEF RecordsInv, Kept
<1>. QED
    BY <1>3, <1>4, <1>5 DEF IInv

\* Every step of the terminals, of the visitors and of the server.
LEMMA NextKeepsIInv == IInv /\ [DemoNext]_allVars => IInv'
<1>. SUFFICES ASSUME IInv, [DemoNext]_allVars PROVE IInv'
    OBVIOUS
<1>0. ShapeInv /\ QueueInv /\ RecordsInv
    BY DEF IInv
<1>1. ASSUME NEW r \in Run, Proceeds(r), UNCHANGED demoVars PROVE IInv'
    <2>1. UNCHANGED <<forgotten, visit, waiting>>
        BY <1>1 DEF demoVars, streams, history
    <2>2. ShapeInv' /\ RecordsInv'
        BY <1>0, <1>1, <2>1, ProceedsKeeps
    <2>3. QueueInv'
        BY <1>0, <1>1, <2>1, ProceedsAlone, QueueKept
    <2>. QED
        BY <2>2, <2>3 DEF IInv
<1>2. ASSUME NEW r \in Run, Begin(r), agent[r].pc = "idle", forgotten' = forgotten
      PROVE  RecordsInv' /\ (visit' = visit => ShapeInv')
             /\ (\A s \in Run : s # r => agent'[s] = agent[s]) /\ DOMAIN agent' = Run
             /\ ShapeOf(r)'
    <2>. DEFINE a == [agent[r] EXCEPT !.pc = "asking", !.started = now]
    <2>1. /\ DOMAIN agent[r] = AgentFields /\ agent[r].exit = "none"
          /\ agent[r].steps \in Seq(StepSet)
          /\ now \in Nat /\ DOMAIN agent = Run
          /\ DOMAIN decisions = Directory /\ DOMAIN investigations = Directory
        BY <1>0, <1>2 DEF ShapeInv, ShapeOf
    <2>2. /\ DOMAIN a = AgentFields /\ a.pc = "asking" /\ a.exit = "none"
          /\ a.steps = agent[r].steps
        BY <2>1 DEF AgentFields
    <2>3. /\ Becomes(r, a)
          /\ UNCHANGED <<now, served, decisions, investigations>>
        BY <1>2 DEF Begin
    <2>. HIDE DEF a
    <2>4. QuietMove(r, a)
        BY <1>2, <2>2, <2>3 DEF QuietMove, Over
    <2>5. visit' = visit => ShapeInv'
        BY <1>0, <1>2, <2>4, QuietMoveKeeps
    <2>6. RecordsInv'
        BY <1>0, <1>2, <2>1, <2>2, <2>3, MoveKeepsRecords
        DEF Becomes, Over, Wrote, Claimed, Unrecorded
    <2>7. ShapeOf(r)'
        BY <2>1, <2>2, <2>3 DEF Becomes, ShapeOf, Drafting
    <2>. QED
        BY <2>1, <2>3, <2>5, <2>6, <2>7 DEF Becomes
<1>3. ASSUME NEW r \in Run, Start(r), UNCHANGED demoVars PROVE IInv'
    <2>1. UNCHANGED <<forgotten, visit, waiting>> /\ Begin(r) /\ agent[r].pc = "idle"
          /\ r \notin served
        BY <1>3 DEF demoVars, streams, history, Start
    <2>2. ShapeInv' /\ RecordsInv'
        BY <1>2, <2>1
    <2>3. QueueInv'
        BY <1>0, <2>1, QueueKept DEF Begin
    <2>. QED
        BY <2>2, <2>3 DEF IInv
<1>4. ASSUME NEW r \in Run, Kill(r), UNCHANGED demoVars PROVE IInv'
    <2>1. /\ UNCHANGED <<forgotten, visit, waiting>>
          /\ BareEnd(r, "killed") /\ r \notin served
        BY <1>4 DEF demoVars, streams, history, Kill, BareEnd, Unrecorded
    <2>2. ShapeInv' /\ RecordsInv'
        BY <1>0, <2>1, BareEndKeeps
    <2>3. QueueInv'
        BY <1>0, <2>1, QueueKept DEF BareEnd, Ends
    <2>. QED
        BY <2>2, <2>3 DEF IInv
<1>5. ASSUME UNCHANGED <<served, agent, decisions, investigations, forgotten>>,
             now' \in Nat, DOMAIN visit' = Run, QueueInv'
      PROVE  IInv'
    <2>1. RecordsInv'
        BY <1>0, <1>5, ForgettingKeepsRecords DEF Kept
    <2>2. ShapeInv'
        BY <1>0, <1>5 DEF ShapeInv, ShapeOf, Drafting
    <2>. QED
        BY <1>5, <2>1, <2>2 DEF IInv
<1>6. ASSUME UNCHANGED <<served, agent, decisions, investigations, forgotten, visit, waiting>>,
             now' \in Nat
      PROVE  IInv'
    <2>1. QueueInv'
        BY <1>0, <1>6 DEF QueueInv
    <2>. QED
        BY <1>0, <1>5, <1>6, <2>1 DEF ShapeInv
<1>7. now \in Nat
    BY <1>0 DEF ShapeInv
<1>8. ASSUME NEW r \in Run, ReaderLeaves(r), UNCHANGED demoVars PROVE IInv'
    BY <1>6, <1>7, <1>8 DEF ReaderLeaves, demoVars, streams, history
<1>9. ASSUME NEW r \in Run, Admit(r) PROVE IInv'
    <2>1. /\ r \in served /\ visit[r] = "none"
          /\ visit' = [visit EXCEPT ![r] = "waiting"]
          /\ waiting' = Append(waiting, r)
          /\ UNCHANGED <<now, served, agent>>
        BY <1>9 DEF Admit
    <2>2. QueueInv'
        <3>1. /\ waiting \in Seq(Run) /\ DOMAIN visit = Run
              /\ \A i \in DOMAIN waiting : waiting[i] # r
            BY <1>0, <2>1 DEF ShapeInv, QueueInv
        <3>2. /\ waiting' \in Seq(Run)
              /\ DOMAIN waiting' = DOMAIN waiting \cup {Len(waiting) + 1}
              /\ Len(waiting) + 1 \notin DOMAIN waiting
              /\ waiting'[Len(waiting) + 1] = r
              /\ \A i \in DOMAIN waiting : waiting'[i] = waiting[i]
            BY <2>1, <3>1
        <3>3. \A s \in Run : visit'[s] = IF s = r THEN "waiting" ELSE visit[s]
            BY <2>1, <3>1
        <3>4. /\ \A i \in DOMAIN waiting' : visit'[waiting'[i]] = "waiting"
              /\ \A i, j \in DOMAIN waiting' : waiting'[i] = waiting'[j] => i = j
            BY <1>0, <3>1, <3>2, <3>3 DEF QueueInv
        <3>5. /\ \A s \in Run : visit'[s] # "none" => s \in served
              /\ \A s \in served : visit'[s] \in {"none", "waiting"} => agent[s].pc = "idle"
            BY <1>0, <2>1, <3>3 DEF QueueInv, ShapeInv
        <3>. QED
            BY <2>1, <3>2, <3>4, <3>5 DEF QueueInv
    <2>3. RecordsInv'
        <3>1. /\ Kept' \subseteq Kept
              /\ \A d \in Kept' : decisions'[d] = decisions[d]
                                 /\ investigations'[d] = investigations[d]
            BY <1>9 DEF Admit, Kept
        <3>. QED
            BY <1>0, <2>1, <3>1, ForgettingKeepsRecords
    <2>4. ShapeInv'
        <3>1. /\ DOMAIN decisions' = Directory /\ DOMAIN investigations' = Directory
              /\ DOMAIN visit' = Run /\ forgotten' \subseteq Run
            BY <1>0, <1>9 DEF ShapeInv, Admit, Old
        <3>. QED
            BY <1>0, <2>1, <3>1 DEF ShapeInv, ShapeOf, Drafting
    <2>. QED
        BY <2>2, <2>3, <2>4 DEF IInv
<1>10. ASSUME NEW r \in Run, RefuseBudget(r) \/ RefuseAddress(r) \/ ReadTurn(r) PROVE IInv'
    BY <1>6, <1>7, <1>10
    DEF RefuseBudget, RefuseAddress, ReadTurn, vars, streams, history
<1>11. ASSUME NEW r \in Run, StreamEnds(r) PROVE IInv'
    <2>1. QueueInv'
        BY <1>0, <1>11 DEF StreamEnds, vars, QueueInv, ShapeInv
    <2>. QED
        BY <1>0, <1>5, <1>7, <1>11, <2>1 DEF StreamEnds, vars, history, ShapeInv
<1>12. ASSUME NEW r \in Run, LeaveWaiting(r) PROVE IInv'
    <2>1. PICK i \in DOMAIN waiting : waiting[i] = r /\ waiting' = RemoveAt(waiting, i)
        BY <1>12 DEF LeaveWaiting
    <2>2. /\ waiting' \in Seq(Run)
          /\ \A j \in DOMAIN waiting' :
                LET k == IF j < i THEN j ELSE j + 1
                IN  k \in DOMAIN waiting /\ k # i /\ waiting'[j] = waiting[k]
        BY <1>0, <2>1, RemovedFromQueue DEF QueueInv
    <2>3. /\ \A s \in Run : visit'[s] = IF s = r THEN "none" ELSE visit[s]
          /\ visit[r] = "waiting"
          /\ UNCHANGED <<agent, served>>
        BY <1>0, <1>12 DEF LeaveWaiting, vars, ShapeInv
    <2>4. ASSUME NEW j \in DOMAIN waiting' PROVE visit'[waiting'[j]] = "waiting"
        <3>1. PICK k \in DOMAIN waiting : k # i /\ waiting'[j] = waiting[k]
            BY <2>2
        <3>2. waiting[k] # r /\ waiting[k] \in Run /\ visit[waiting[k]] = "waiting"
            BY <1>0, <2>1, <3>1 DEF QueueInv
        <3>. QED
            BY <2>3, <3>1, <3>2
    <2>5. ASSUME NEW j \in DOMAIN waiting', NEW l \in DOMAIN waiting',
                 waiting'[j] = waiting'[l]
          PROVE  j = l
        <3>. DEFINE k(m) == IF m < i THEN m ELSE m + 1
        <3>1. /\ k(j) \in DOMAIN waiting /\ waiting'[j] = waiting[k(j)]
              /\ k(l) \in DOMAIN waiting /\ waiting'[l] = waiting[k(l)]
            BY <2>2
        <3>2. k(j) = k(l)
            BY <1>0, <2>5, <3>1 DEF QueueInv
        <3>3. j \in Int /\ l \in Int /\ i \in Int
            BY <1>0, <2>2 DEF QueueInv
        <3>. QED
            BY <3>2, <3>3
    <2>6. QueueInv'
        BY <1>0, <2>2, <2>3, <2>4, <2>5 DEF QueueInv, ShapeInv
    <2>. QED
        BY <1>0, <1>5, <1>7, <1>12, <2>6 DEF LeaveWaiting, vars, history, ShapeInv
<1>13. ASSUME NEW r \in Run, LeaveRunning(r) PROVE IInv'
    <2>1. /\ visit[r] = "streaming"
          /\ visit' = [visit EXCEPT ![r] = "ended"]
          /\ UNCHANGED <<now, served, decisions, investigations, waiting, forgotten>>
        BY <1>13 DEF LeaveRunning, history
    <2>2. \A s \in Run : visit'[s] = IF s = r THEN "ended" ELSE visit[s]
        BY <1>0, <2>1 DEF ShapeInv
    <2>3. CASE agent[r].pc = "ended"
        <3>1. agent' = agent
            BY <1>13, <2>3 DEF LeaveRunning
        <3>2. QueueInv'
            BY <1>0, <2>1, <2>2, <3>1 DEF QueueInv, ShapeInv
        <3>. QED
            BY <1>0, <1>5, <1>7, <2>1, <3>1, <3>2 DEF ShapeInv
    <2>4. CASE agent[r].pc # "ended"
        <3>1. BareEnd(r, "killed")
            BY <1>13, <2>1, <2>4 DEF LeaveRunning, BareEnd, Unrecorded
        <3>2. RecordsInv'
            BY <1>0, <2>1, <3>1, BareEndKeeps
        <3>3. /\ agent'[r] = [Idle EXCEPT !.pc = "ended", !.told = agent[r].told,
                                          !.exit = "killed"]
              /\ \A s \in Run : s # r => agent'[s] = agent[s]
              /\ DOMAIN agent' = Run
            BY <1>0, <3>1 DEF BareEnd, Ends, Becomes, ShapeInv
        <3>4. /\ DOMAIN agent'[r] = AgentFields
              /\ agent'[r].pc = "ended" /\ agent'[r].steps = <<>>
              /\ <<>> \in Seq(StepSet)
            BY <3>3 DEF Idle, AgentFields
        <3>5. ASSUME NEW s \in Run PROVE ShapeOf(s)'
            <4>1. CASE s = r
                BY <3>4, <4>1 DEF ShapeOf, Drafting
            <4>2. CASE s # r
                BY <1>0, <3>3, <4>2 DEF ShapeInv, ShapeOf, Drafting
            <4>. QED
                BY <4>1, <4>2
        <3>6. ShapeInv'
            BY <1>0, <1>7, <2>1, <3>3, <3>5 DEF ShapeInv
        <3>7. QueueInv'
            BY <1>0, <2>1, <2>2, <3>3 DEF QueueInv, ShapeInv
        <3>. QED
            BY <3>2, <3>6, <3>7 DEF IInv
    <2>. QED
        BY <2>3, <2>4
<1>14. ASSUME Launch PROVE IInv'
    <2>0. waiting # <<>> /\ waiting \in Seq(Run)
        BY <1>0, <1>14 DEF Launch, QueueInv
    <2>. PICK r \in Run : r = Head(waiting) /\ r = waiting[1]
        BY <2>0
    <2>1. /\ waiting # <<>> /\ Begin(r)
          /\ visit' = [visit EXCEPT ![r] = "streaming"]
          /\ waiting' = Tail(waiting)
          /\ forgotten' = forgotten
        BY <1>14 DEF Launch, history
    <2>2. waiting \in Seq(Run) /\ 1 \in DOMAIN waiting /\ r = waiting[1]
        BY <2>0
    <2>3. visit[r] = "waiting" /\ r \in served /\ agent[r].pc = "idle"
        BY <1>0, <2>2 DEF QueueInv
    <2>4. /\ waiting' \in Seq(Run)
          /\ \A j \in DOMAIN waiting' :
                j + 1 \in DOMAIN waiting /\ j + 1 # 1 /\ waiting'[j] = waiting[j + 1]
        BY <2>1, <2>2
    <2>5. /\ RecordsInv' /\ DOMAIN agent' = Run /\ ShapeOf(r)'
          /\ \A s \in Run : s # r => agent'[s] = agent[s]
        BY <1>2, <2>1, <2>2, <2>3
    <2>6. /\ UNCHANGED <<now, served, decisions, investigations>>
        BY <2>1 DEF Begin
    <2>7. \A s \in Run : visit'[s] = IF s = r THEN "streaming" ELSE visit[s]
        BY <1>0, <2>1 DEF ShapeInv
    <2>8. ASSUME NEW j \in DOMAIN waiting' PROVE visit'[waiting'[j]] = "waiting"
        <3>1. /\ j + 1 \in DOMAIN waiting /\ j + 1 # 1 /\ waiting'[j] = waiting[j + 1]
            BY <2>4
        <3>2. waiting[j + 1] # r /\ waiting[j + 1] \in Run
              /\ visit[waiting[j + 1]] = "waiting"
            BY <1>0, <2>2, <3>1 DEF QueueInv
        <3>. QED
            BY <2>7, <3>1, <3>2
    <2>9. ASSUME NEW j \in DOMAIN waiting', NEW l \in DOMAIN waiting',
                 waiting'[j] = waiting'[l]
          PROVE  j = l
        <3>1. j + 1 = l + 1
            BY <1>0, <2>4, <2>9 DEF QueueInv
        <3>2. j \in Int /\ l \in Int
            BY <2>4
        <3>. QED
            BY <3>1, <3>2
    <2>10. QueueInv'
        BY <1>0, <2>3, <2>4, <2>5, <2>6, <2>7, <2>8, <2>9 DEF QueueInv, ShapeInv
    <2>11. ASSUME NEW s \in Run PROVE ShapeOf(s)'
        <3>1. CASE s = r
            BY <2>5, <3>1 DEF ShapeOf, Drafting
        <3>2. CASE s # r
            BY <1>0, <2>5, <3>2 DEF ShapeInv, ShapeOf, Drafting
        <3>. QED
            BY <3>1, <3>2
    <2>12. ShapeInv'
        BY <1>0, <1>7, <2>1, <2>5, <2>6, <2>11 DEF ShapeInv
    <2>. QED
        BY <2>5, <2>10, <2>12 DEF IInv
<1>15. CASE TimePasses
    BY <1>6, <1>7, <1>15 DEF TimePasses, Tick, demoVars, streams, history
<1>16. CASE Rests \/ UNCHANGED allVars
    BY <1>6, <1>7, <1>16 DEF Rests, allVars, vars, demoVars, streams, history
<1>. QED
    BY <1>1, <1>3, <1>4, <1>8, <1>9, <1>10, <1>11, <1>12, <1>13, <1>14, <1>15, <1>16
    DEF DemoNext, Serves

-----------------------------------------------------------------------------
\* The inductive invariant holds throughout, fair or not.
THEOREM InductiveInvariant == DemoSpec => []IInv
BY InitIInv, NextKeepsIInv, PTL DEF DemoSpec

\* Every investigation that ends without saying otherwise is on record once,
\* with every decision it wrote: runs of the same second take names of their
\* own, and a record another run marks superseded is still its writer's.
THEOREM EndingsAreKept == DemoSpec => []EveryEndingIsOnRecord
<1>1. IInv => EveryEndingIsOnRecord
    <2>. SUFFICES ASSUME IInv, NEW r \in Run, agent[r].exit \notin Unrecorded,
                         DirectoryOf(r) \in Kept
                  PROVE  LET d == DirectoryOf(r)
                             mine == {n \in DOMAIN investigations[d] :
                                        investigations[d][n].by = r}
                             wrote == {i \in DOMAIN decisions[d] : decisions[d][i].by = r}
                         IN  /\ Cardinality(mine) = 1
                             /\ \A n \in mine : wrote \subseteq investigations[d][n].decisions
        BY DEF EveryEndingIsOnRecord, EndingsAreOnRecord
    <2>. DEFINE d == DirectoryOf(r)
                mine == {n \in DOMAIN investigations[d] : investigations[d][n].by = r}
                wrote == {i \in DOMAIN decisions[d] : decisions[d][i].by = r}
    <2>1. RunIsKnown(r)
        BY DEF IInv, RecordsInv
    <2>2. PICK n : mine = {n}
        BY <2>1 DEF RunIsKnown, RecordOf
    <2>3. Cardinality(mine) = 1
        BY <2>2, FS_Singleton
    <2>4. ASSUME NEW i \in wrote, NEW m \in mine
          PROVE  i \in investigations[d][m].decisions
        <3>1. CopyIsKnown(d, i, decisions[d][i]) /\ decisions[d][i].by = r
            BY <2>4 DEF IInv, RecordsInv
        <3>. QED
            BY <2>4, <3>1 DEF CopyIsKnown
    <2>. QED
        BY <2>3, <2>4
<1>. QED
    BY <1>1, InductiveInvariant, PTL

\* What a finding proposes is on record and waits for a person, and its check
\* ended clean unless a run of the same second took the record's place.
THEOREM FindingsAreAlwaysBacked == DemoSpec => []FindingsAreBacked
<1>1. IInv => FindingsAreBacked
    <2>. SUFFICES ASSUME IInv, NEW d \in Kept, NEW n \in DOMAIN investigations[d],
                         NEW i \in investigations[d][n].finding.proposed
                  PROVE  /\ i \in DOMAIN decisions[d]
                         /\ decisions[d][i].status \in {"proposed", "superseded"}
                         /\ decisions[d][i].by = investigations[d][n].by =>
                                decisions[d][i].clean
        BY DEF FindingsAreBacked, ProposedIsBacked
    <2>. DEFINE r == investigations[d][n].by
    <2>1. r \in Run /\ DirectoryOf(r) = d
        BY DEF IInv, RecordsInv
    <2>2. RunIsKnown(r) /\ RecordOf(r, n)
        BY <2>1 DEF IInv, RecordsInv, RecordOf
    <2>3. i \in DOMAIN decisions[d] /\ i[1] \notin Reading
        BY <2>1, <2>2 DEF RunIsKnown
    <2>4. CopyIsKnown(d, i, decisions[d][i])
        BY <2>3 DEF IInv, RecordsInv
    <2>5. decisions[d][i].status # "ran"
        BY <2>3, <2>4 DEF CopyIsKnown, IsReading
    <2>. QED
        BY <2>3, <2>4, <2>5 DEF CopyIsKnown
<1>. QED
    BY <1>1, InductiveInvariant, PTL
-----------------------------------------------------------------------------
(* The day's budget.                                                       *)

TodaysRuns == {s \in Run : admittedOn[s] = day}

\* The count is of the latest day a visitor came on, is at least what the
\* visitors of that day were told, and a run that has no slot was told nothing.
BudgetInv ==
    /\ now \in Nat
    /\ day \in Int /\ tokens \in Nat
    /\ day <= Day(now)
    /\ admittedOn \in [Run -> Int]
    /\ read \in [Run -> Nat]
    /\ DOMAIN visit = Run
    /\ \A s \in Run : admittedOn[s] <= day
    /\ \A s \in Run : visit[s] \in {"none", "waiting"} => read[s] = 0
    /\ day # Never => TurnsRead(TodaysRuns) <= tokens

\* Days come after one another.
LEMMA DaysPass ==
    ASSUME NEW n \in Nat
    PROVE  Day(n) \in Nat /\ Day(n) <= Day(n + 1)
BY LimitsAssumption DEF Day

LEMMA TurnsAreSums ==
    /\ \A runs : TurnsRead(runs) = SumOver(read, runs)
    /\ \A runs : TurnsRead(runs)' = SumOver(read', runs)
BY DEF TurnsRead, SumOver, FoldFunctionOnSet, MapThenFoldSet

LEMMA InitBudget == DemoInit => BudgetInv
<1>. SUFFICES ASSUME DemoInit PROVE BudgetInv
    OBVIOUS
<1>1. now = 0 /\ Day(0) \in Nat
    BY DaysPass DEF DemoInit, Init
<1>. QED
    BY <1>1 DEF DemoInit, BudgetInv, Never

\* What a step does to the count and to the visitors it is of.
LEMMA NextKeepsBudget == BudgetInv /\ [DemoNext]_allVars => BudgetInv'
<1>. SUFFICES ASSUME BudgetInv, [DemoNext]_allVars PROVE BudgetInv'
    OBVIOUS
<1>0. now \in Nat /\ Day(now) \in Nat /\ Day(now) # Never
    BY DaysPass DEF BudgetInv, Never
\* The clock and the streams move on.
<1>1. ASSUME now' \in Nat, Day(now) <= Day(now'), UNCHANGED <<day, tokens, read, admittedOn>>,
             DOMAIN visit' = Run,
             \A s \in Run : visit'[s] \in {"none", "waiting"} => read[s] = 0
      PROVE  BudgetInv'
    <2>1. day <= Day(now')
        <3>1. Day(now') \in Int
            BY <1>1, DaysPass
        <3>. QED
            BY <1>0, <1>1, <3>1 DEF BudgetInv
    <2>2. TurnsRead(TodaysRuns)' = TurnsRead(TodaysRuns)
        BY <1>1, TurnsAreSums DEF TodaysRuns
    <2>3. Day(now)' = Day(now')
        BY DEF Day
    <2>. QED
        BY <1>1, <2>1, <2>2, <2>3 DEF BudgetInv
\* A visitor comes, and is admitted or refused.
<1>2. ASSUME UNCHANGED <<now, read>>, day' = Day(now), tokens' = SpentToday,
             NEW new \in SUBSET Run, \A s \in new : read[s] = 0,
             new = {} \/ \E r \in Run : new = {r},
             admittedOn' = [s \in Run |-> IF s \in new THEN Day(now) ELSE admittedOn[s]],
             DOMAIN visit' = Run,
             \A s \in Run : visit'[s] \in {"none", "waiting"} => read[s] = 0
      PROVE  BudgetInv'
    <2>1. Day(now)' = Day(now)
        BY <1>2 DEF Day
    <2>2. tokens' \in Nat
        BY <1>2 DEF SpentToday, BudgetInv
    <2>3. TodaysRuns' = (IF day = Day(now) THEN TodaysRuns ELSE {}) \cup new
        <3>1. \A s \in Run : admittedOn[s] = Day(now) => day = Day(now)
            BY <1>0 DEF BudgetInv
        <3>. QED
            BY <1>2, <3>1 DEF TodaysRuns
    <2>4. TurnsRead(TodaysRuns)' = SumOver(read, IF day = Day(now) THEN TodaysRuns ELSE {})
        <3>. DEFINE before == IF day = Day(now) THEN TodaysRuns ELSE {}
        <3>1. TurnsRead(TodaysRuns)' = SumOver(read, before \cup new)
            BY <1>2, <2>3, TurnsAreSums
        <3>2. before \in SUBSET Run
            BY DEF TodaysRuns
        <3>3. before \cup {} = before
            OBVIOUS
        <3>4. \A r \in Run : read[r] = 0 => SumOver(read, before \cup {r}) = SumOver(read, before)
            BY <3>2, SumOfTurns DEF BudgetInv
        <3>5. CASE new = {}
            BY <3>1, <3>3, <3>5
        <3>6. CASE \E r \in Run : new = {r}
            <4>1. PICK r \in Run : new = {r}
                BY <3>6
            <4>. QED
                BY <1>2, <3>1, <3>4, <4>1
        <3>. HIDE DEF before
        <3>. QED
            BY <1>2, <3>5, <3>6
    <2>5. TurnsRead(TodaysRuns)' <= tokens'
        <3>1. CASE day = Day(now)
            BY <1>0, <1>2, <2>4, <3>1, TurnsAreSums DEF BudgetInv, SpentToday
        <3>2. CASE day # Day(now)
            BY <1>2, <2>4, <3>2, SumOfTurns DEF BudgetInv, SpentToday
        <3>. QED
            BY <3>1, <3>2
    <2>6. /\ admittedOn' \in [Run -> Int]
          /\ \A s \in Run : admittedOn'[s] <= day'
        BY <1>0, <1>2 DEF BudgetInv
    <2>. QED
        BY <1>0, <1>2, <2>1, <2>2, <2>5, <2>6 DEF BudgetInv
<1>3. ASSUME NEW r \in Run, ReadTurn(r) PROVE BudgetInv'
    <2>1. /\ visit[r] = "streaming"
          /\ read' = [read EXCEPT ![r] = @ + 1]
          /\ tokens' = tokens + 1
          /\ UNCHANGED <<now, day, visit, admittedOn>>
        BY <1>3 DEF ReadTurn, vars, history
    <2>2. day # Never => TurnsRead(TodaysRuns)' <= tokens'
        <3>. SUFFICES ASSUME day # Never PROVE TurnsRead(TodaysRuns)' <= tokens'
            OBVIOUS
        <3>1. TodaysRuns' = TodaysRuns /\ TodaysRuns \in SUBSET Run
            BY <2>1 DEF TodaysRuns
        <3>2. TurnsRead(TodaysRuns)' = SumOver([read EXCEPT ![r] = @ + 1], TodaysRuns)
            BY <2>1, <3>1, TurnsAreSums
        <3>3. /\ SumOver(read, TodaysRuns) \in Nat
              /\ SumOver([read EXCEPT ![r] = @ + 1], TodaysRuns) <= SumOver(read, TodaysRuns) + 1
            BY <3>1, SumOfTurns DEF BudgetInv
        <3>4. SumOver([read EXCEPT ![r] = @ + 1], TodaysRuns) \in Nat
            <4>1. [read EXCEPT ![r] = @ + 1] \in [Run -> Nat]
                BY DEF BudgetInv
            <4>. QED
                BY <3>1, <4>1, SumOfTurns
        <3>5. SumOver(read, TodaysRuns) <= tokens /\ tokens \in Nat
            BY TurnsAreSums DEF BudgetInv
        <3>. QED
            BY <2>1, <3>2, <3>3, <3>4, <3>5
    <2>3. /\ read' \in [Run -> Nat] /\ tokens' \in Nat
          /\ \A s \in Run : visit'[s] \in {"none", "waiting"} => read'[s] = 0
        BY <2>1 DEF BudgetInv
    <2>4. Day(now)' = Day(now)
        BY <2>1 DEF Day
    <2>. QED
        BY <2>1, <2>2, <2>3, <2>4 DEF BudgetInv
<1>4. ASSUME NEW r \in Run, Admit(r) PROVE BudgetInv'
    <2>1. /\ read[r] = 0
          /\ visit' = [visit EXCEPT ![r] = "waiting"]
          /\ admittedOn' = [admittedOn EXCEPT ![r] = Day(now)]
          /\ day' = Day(now) /\ tokens' = SpentToday
          /\ UNCHANGED <<now, read>>
        BY <1>4 DEF Admit, BudgetInv
    <2>2. /\ admittedOn' = [s \in Run |-> IF s \in {r} THEN Day(now) ELSE admittedOn[s]]
          /\ DOMAIN visit' = Run
          /\ \A s \in Run : visit'[s] \in {"none", "waiting"} => read[s] = 0
        BY <2>1 DEF BudgetInv
    <2>3. {r} \in SUBSET Run /\ (\A s \in {r} : read[s] = 0) /\ \E q \in Run : {r} = {q}
        BY <2>1
    <2>. QED
        BY <1>2, <2>1, <2>2, <2>3
<1>5. ASSUME NEW r \in Run, RefuseBudget(r) \/ RefuseAddress(r) PROVE BudgetInv'
    <2>1. /\ day' = Day(now) /\ tokens' = SpentToday
          /\ UNCHANGED <<now, read, visit, admittedOn>>
        BY <1>5 DEF RefuseBudget, RefuseAddress, vars, streams, history
    <2>2. admittedOn' = [s \in Run |-> IF s \in {} THEN Day(now) ELSE admittedOn[s]]
        BY <2>1 DEF BudgetInv
    <2>3. {} \in SUBSET Run /\ \A s \in {} : read[s] = 0
        OBVIOUS
    <2>. QED
        BY <1>2, <2>1, <2>2, <2>3 DEF BudgetInv
<1>6. ASSUME NEW r \in Run, StreamEnds(r) \/ LeaveWaiting(r) \/ LeaveRunning(r)
      PROVE  BudgetInv'
    <2>1. /\ UNCHANGED <<now, day, tokens, read, admittedOn>>
          /\ \/ visit' = [visit EXCEPT ![r] = "ended"]
             \/ visit[r] = "waiting" /\ visit' = [visit EXCEPT ![r] = "none"]
        BY <1>6 DEF StreamEnds, LeaveWaiting, LeaveRunning, vars, limits, history
    <2>2. /\ DOMAIN visit' = Run
          /\ \A s \in Run : visit'[s] \in {"none", "waiting"} => read[s] = 0
        BY <2>1 DEF BudgetInv
    <2>. QED
        BY <1>0, <1>1, <2>1, <2>2
<1>7. CASE Launch
    <2>1. /\ UNCHANGED <<now, day, tokens, read, admittedOn>>
          /\ visit' = [visit EXCEPT ![Head(waiting)] = "streaming"]
        BY <1>7 DEF Launch, Begin, limits, history
    <2>2. /\ DOMAIN visit' = Run
          /\ \A s \in Run : visit'[s] \in {"none", "waiting"} => read[s] = 0
        BY <2>1 DEF BudgetInv
    <2>. QED
        BY <1>0, <1>1, <2>1, <2>2
<1>8. CASE TimePasses
    <2>1. now' = now + 1 /\ UNCHANGED demoVars
        BY <1>8 DEF TimePasses, Tick
    <2>2. now' \in Nat /\ Day(now) <= Day(now')
        BY <1>0, <2>1, DaysPass
    <2>. QED
        BY <1>1, <2>1, <2>2 DEF demoVars, limits, streams, history, BudgetInv
<1>9. ASSUME UNCHANGED demoVars, now' = now PROVE BudgetInv'
    BY <1>0, <1>1, <1>9 DEF demoVars, limits, streams, history, BudgetInv
<1>10. ASSUME NEW r \in Run, Start(r) \/ Proceeds(r) \/ ReaderLeaves(r) \/ Kill(r)
       PROVE  now' = now
    BY <1>10 DEF Start, Begin, Proceeds, ReaderLeaves, Kill, AnswerCalls, Answer,
        EndpointFails, TellTurn, TellStep, Stop, CallBroken, CallRefused, CallRepeated,
        CallProposed, CheckEnds, CheckFails, SaveDecision, SaveInvestigation,
        NoNameLeft, SaveUnwritable, TellInvestigation
<1>11. CASE Rests \/ UNCHANGED allVars
    BY <1>9, <1>11 DEF Rests, allVars, vars
<1>. QED
    BY <1>3, <1>4, <1>5, <1>6, <1>7, <1>8, <1>9, <1>10, <1>11 DEF DemoNext, Serves

\* A visitor is admitted only while the turns the day's visitors were told are
\* within the budget: the count starts anew with a day's first visitor only,
\* and no turn is passed on without being counted.
THEOREM AdmissionsKeepTheBudget == DemoSpec => AdmissionsAreWithinBudget
<1>1. DemoSpec => []BudgetInv
    BY InitBudget, NextKeepsBudget, PTL DEF DemoSpec
<1>. DEFINE Within == \A r \in Run : visit[r] = "none" /\ visit'[r] = "waiting" =>
                        TurnsRead({s \in Run : admittedOn[s] = Day(now)}) < DailyTokens
<1>2. BudgetInv /\ [DemoNext]_allVars => [Within]_allVars
    <2>. SUFFICES ASSUME BudgetInv, DemoNext, NEW r \in Run,
                         visit[r] = "none", visit'[r] = "waiting"
                  PROVE  TurnsRead({s \in Run : admittedOn[s] = Day(now)}) < DailyTokens
        OBVIOUS
    <2>1. SpentToday < DailyTokens
        <3>1. CASE \E s \in Run : Admit(s)
            BY <3>1 DEF Admit
        <3>2. CASE ~ \E s \in Run : Admit(s)
            BY <3>2 DEF DemoNext, Serves, BudgetInv, demoVars, limits, streams,
                RefuseBudget, RefuseAddress, ReadTurn, StreamEnds, LeaveWaiting,
                LeaveRunning, Launch, TimePasses, Rests, allVars
        <3>. QED
            BY <3>1, <3>2
    <2>2. /\ now \in Nat /\ Day(now) \in Nat /\ Day(now) # Never
          /\ DailyTokens \in Nat \ {0}
        BY DaysPass, LimitsAssumption DEF BudgetInv, Never
    <2>3. CASE day = Day(now)
        <3>1. {s \in Run : admittedOn[s] = Day(now)} = TodaysRuns
            BY <2>3 DEF TodaysRuns
        <3>2. /\ SumOver(read, TodaysRuns) \in Nat
              /\ SumOver(read, TodaysRuns) <= tokens /\ tokens < DailyTokens /\ tokens \in Nat
            BY <2>1, <2>2, <2>3, SumOfTurns, TurnsAreSums DEF BudgetInv, SpentToday, TodaysRuns
        <3>. QED
            BY <2>2, <3>1, <3>2, TurnsAreSums
    <2>4. CASE day # Day(now)
        <3>1. {s \in Run : admittedOn[s] = Day(now)} = {}
            BY <2>2, <2>4 DEF BudgetInv
        <3>. QED
            BY <2>2, <3>1, SumOfTurns, TurnsAreSums DEF BudgetInv
    <2>. QED
        BY <2>3, <2>4
<1>. QED
    BY <1>1, <1>2, PTL DEF DemoSpec, AdmissionsAreWithinBudget
=============================================================================
