---------------------------- MODULE ReleaseProof ----------------------------
(***************************************************************************)
(* What Release guarantees for any number of servers, any releases, sound  *)
(* or not, any number of plays and any number of them cut off.  The types  *)
(* hold for any number of controllers; everything else for one at a time.  *)
(***************************************************************************)
EXTENDS Release, TLAPS

\* One controller at a time runs plays.
OneController == \A p, q \in Player : p = q

MaySound == Sound \cup {None}

\* Only a deployment unpacks and is rescued, only a restart has no release, and
\* it switches nothing.
KindInv(p) ==
    play[p] # "none" =>
        /\ step[p] \in {"arrived", "unpacked", "failed", "restored"} => play[p] = "deploy"
        /\ step[p] = "ready" => play[p] # "restart"
        /\ play[p] # "restart" => target[p] \in Release

TypeInv == TypeOK /\ \A p \in Player : KindInv(p)

\* The servers a play has left run what their link names, which answers, and
\* is the play's release unless the play only restarts.
BehindInv(p) ==
    \A s \in Server : s < at[p] =>
        /\ link[s] = active[s]
        /\ active[s] \in Sound
        /\ play[p] # "restart" => link[s] = target[p]

\* What link and service of the server a play has come to have to do with the
\* play's release and with what the play found there.
HereInv(p) ==
    LET s == at[p]
    IN  /\ step[p] \in {"arrived", "unpacked"} => link[s] = found[p]
        /\ step[p] \in {"switched", "restarted"} /\ play[p] # "restart" => link[s] = target[p]
        /\ step[p] = "restarted" => active[s] = link[s]
        /\ step[p] \notin {"arrived", "unpacked"} /\ play[p] = "deploy" => previous[p] = found[p]
        /\ step[p] = "restored" => link[s] = previous[p]

\* What a play finds behind the first server answers, if there is anything.
FoundInv(p) == at[p] # 1 => found[p] \in MaySound /\ previous[p] \in MaySound

PlayInv(p) == play[p] # "none" => BehindInv(p) /\ HereInv(p) /\ FoundInv(p)

\* The inductive invariant.
IInv ==
    /\ TypeInv
    /\ \A p \in Player : PlayInv(p)
    /\ UnsoundStaysOnFirst
    /\ ReceiptIsEarned

-----------------------------------------------------------------------------
(* The operators of the model.                                             *)

\* The assumptions in the form the proofs use, and the successor of a server.
LEMMA Constants ==
    /\ Servers \in Nat /\ 1 \in Server /\ MaxCuts \in Nat /\ Server \subseteq Nat
    /\ Sound \subseteq Release /\ None \notin Release
    /\ \A s \in Server : s # Servers => s + 1 \in Server
    /\ \A s \in Server : ~(s < 1) /\ (s # 1 => 1 < s)
BY ServersAssumption, ReleaseAssumption, CutsAssumption DEF Server

\* Where the tasks of each kind of play begin (main.yml, rollback.yml,
\* restart.yml).
LEMMA FirstSteps ==
    ASSUME NEW kind
    PROVE  /\ kind = "rollback" => FirstStep(kind) = "ready"
           /\ kind = "restart" => FirstStep(kind) = "switched"
           /\ kind \notin {"rollback", "restart"} => FirstStep(kind) = "arrived"
BY DEF FirstStep

\* A play that stops early leaves at most the directory of its release, and
\* only a deployment has one to leave.
LEMMA LeavesDirectories ==
    ASSUME TypeInv, NEW p \in Player, DirectoryLeft(p)
    PROVE  kept' \subseteq Server \X Release
<1>1. kept \subseteq Server \X Release
    BY DEF TypeInv, TypeOK
<1>2. CASE Standing(p, "arrived")
    <2>1. at[p] \in Server /\ target[p] \in Release
        BY <1>2 DEF TypeInv, TypeOK, KindInv, Standing
    <2>. QED
        BY <1>1, <1>2, <2>1 DEF DirectoryLeft
<1>3. CASE ~Standing(p, "arrived")
    BY <1>1, <1>3 DEF DirectoryLeft
<1>. QED
    BY <1>2, <1>3

-----------------------------------------------------------------------------
(* Types, for any number of controllers.                                   *)

\* Every play step keeps types and kinds.
LEMMA PlayStepKeepsTypes ==
    ASSUME TypeInv, NEW p \in Player, PlayStep(p)
    PROVE  TypeInv'
<1>. USE Constants DEF TypeInv, TypeOK, KindInv, MaybeRelease, Receipt
<1>1. ASSUME NEW kind \in {"deploy", "rollback", "restart"},
             NEW r \in MaybeRelease, kind # "restart" => r \in Release,
             Begin(p, kind, r)
      PROVE  TypeInv'
    BY <1>1, FirstSteps DEF Begin, ComesTo
<1>2. CASE Unpack(p)
    BY <1>2 DEF Unpack, Standing, GoesOn
<1>3. CASE Inspect(p)
    BY <1>3 DEF Inspect, Standing, GoesOn
<1>4. CASE TaskFails(p)
    BY <1>4, LeavesDirectories DEF TaskFails, PlayEnds
<1>5. CASE Switch(p)
    BY <1>5 DEF Switch, Standing, GoesOn
<1>6. CASE SwitchFails(p)
    BY <1>6 DEF SwitchFails, Standing, Fails, GoesOn
<1>7. CASE Restart(p)
    BY <1>7 DEF Restart, Standing, GoesOn
<1>8. CASE RestartFails(p)
    BY <1>8 DEF RestartFails, Standing, Fails, GoesOn, PlayEnds
<1>9. CASE GatePasses(p)
    <2>1. at[p] \in Server /\ active[at[p]] \in Release
        BY <1>9 DEF GatePasses, GateHolds, Answers
    <2>2. receipt' \in Receipt \cup {None} /\ passed' \subseteq Server \X Release
        BY <1>9, <2>1 DEF GatePasses, Standing, ReceiptOf
    <2>3. CASE PlayEnds(p)
        BY <1>9, <2>2, <2>3 DEF GatePasses, PlayEnds
    <2>4. CASE at[p] # Servers /\ ComesTo(p, at[p] + 1, play[p]) /\ UNCHANGED <<play, target>>
        <3>1. at[p] + 1 \in Server /\ link[at[p] + 1] \in MaybeRelease
            BY <2>1, <2>4
        <3>2. play[p] \in {"deploy", "rollback", "restart"}
            BY <1>9 DEF GatePasses, Standing
        <3>3. /\ FirstStep(play[p]) \in {"arrived", "ready", "switched"}
              /\ FirstStep(play[p]) = "arrived" => play[p] = "deploy"
              /\ FirstStep(play[p]) = "ready" => play[p] = "rollback"
            BY <3>2, FirstSteps
        <3>. QED
            BY <1>9, <2>2, <2>4, <3>1, <3>2, <3>3 DEF GatePasses, ComesTo
    <2>. QED
        BY <1>9, <2>3, <2>4 DEF GatePasses, MovesOn
<1>10. CASE ReceiptFails(p)
    BY <1>10 DEF ReceiptFails, GateHolds, Answers, Standing, PlayEnds
<1>11. CASE GateFails(p)
    BY <1>11 DEF GateFails, Standing, Fails, GoesOn, PlayEnds
<1>12. CASE RestoreLink(p)
    BY <1>12 DEF RestoreLink, Candidate, Standing, GoesOn
<1>13. CASE RestartRestored(p)
    BY <1>13 DEF RestartRestored, Standing, PlayEnds
<1>14. CASE StopFirst(p)
    BY <1>14 DEF StopFirst, Standing, PlayEnds
<1>15. CASE RescueFails(p)
    BY <1>15 DEF RescueFails, Standing, PlayEnds
<1>16. CASE CutOff(p)
    BY <1>16, LeavesDirectories DEF CutOff, PlayEnds
<1>. QED
    BY <1>1, <1>2, <1>3, <1>4, <1>5, <1>6, <1>7, <1>8, <1>9, <1>10, <1>11, <1>12, <1>13,
       <1>14, <1>15, <1>16
       DEF PlayStep

\* A crash or a boot keeps types and kinds.
LEMMA BootsKeepsTypes ==
    ASSUME TypeInv, NEW s \in Server, Boots(s)
    PROVE  TypeInv'
BY DEF TypeInv, TypeOK, KindInv, Boots, playVars

\* Every reachable state has its types, whatever controllers do at once.
THEOREM TypeCorrect == Spec => []TypeOK
<1>1. Init => TypeInv
    BY Constants DEF Init, TypeInv, TypeOK, KindInv, MaybeRelease
<1>2. TypeInv /\ [Next]_vars => TypeInv'
    <2>1. CASE UNCHANGED vars
        BY <2>1 DEF vars, playVars, TypeInv, TypeOK, KindInv
    <2>. QED
        BY <2>1, PlayStepKeepsTypes, BootsKeepsTypes DEF Next
<1>3. TypeInv => TypeOK
    BY DEF TypeInv
<1>. QED
    BY <1>1, <1>2, <1>3, PTL DEF Spec

-----------------------------------------------------------------------------
(* The rollout, for one controller.                                        *)

\* The steps of the one controller keep the invariant.
LEMMA PlayStepKeepsIInv ==
    ASSUME OneController, IInv, NEW p \in Player, PlayStep(p)
    PROVE  IInv'
<1>. TypeInv'
    BY PlayStepKeepsTypes DEF IInv
<1>. SUFFICES PlayInv(p)' /\ UnsoundStaysOnFirst' /\ ReceiptIsEarned'
    BY DEF OneController, IInv
<1>. USE Constants
   DEF IInv, TypeInv, TypeOK, KindInv, PlayInv, BehindInv, HereInv, FoundInv,
       UnsoundStaysOnFirst, ReceiptIsEarned, MaySound, MaybeRelease, Receipt
<1>1. ASSUME NEW kind \in {"deploy", "rollback", "restart"},
             NEW r \in MaybeRelease, Begin(p, kind, r)
      PROVE  PlayInv(p)' /\ UnsoundStaysOnFirst' /\ ReceiptIsEarned'
    BY <1>1, FirstSteps DEF Begin, ComesTo
<1>2. CASE Unpack(p)
    BY <1>2 DEF Unpack, Standing, GoesOn
<1>3. CASE Inspect(p)
    BY <1>3 DEF Inspect, Standing, GoesOn
<1>4. CASE TaskFails(p)
    BY <1>4, LeavesDirectories DEF TaskFails, PlayEnds
<1>5. CASE Switch(p)
    <2>1. /\ play[p] \notin {"none", "restart"}
          /\ at[p] \in Server /\ link' = [link EXCEPT ![at[p]] = target[p]]
        BY <1>5 DEF Switch, Standing
    <2>2. at[p] # 1 => target[p] \in Sound
        BY <2>1
    <2>3. UnsoundStaysOnFirst' /\ ReceiptIsEarned'
        BY <1>5, <2>1, <2>2 DEF Switch
    <2>. QED
        BY <1>5, <2>1, <2>3 DEF Switch, Standing, GoesOn
<1>6. CASE SwitchFails(p)
    BY <1>6 DEF SwitchFails, Standing, Fails, GoesOn
<1>7. CASE Restart(p)
    BY <1>7 DEF Restart, Standing, GoesOn
<1>8. CASE RestartFails(p)
    BY <1>8 DEF RestartFails, Standing, Fails, GoesOn, PlayEnds
<1>9. CASE GatePasses(p)
    <2>. play[p] \in {"deploy", "rollback", "restart"}
        BY <1>9 DEF GatePasses, Standing
    <2>1. active[at[p]] = link[at[p]] /\ active[at[p]] \in Sound
        BY <1>9 DEF GatePasses, GateHolds, Answers, Standing
    <2>2. play[p] # "restart" => link[at[p]] = target[p]
        BY <1>9 DEF GatePasses, Standing
    <2>3. UnsoundStaysOnFirst' /\ ReceiptIsEarned'
        BY <1>9, <2>1, <2>2 DEF GatePasses, Standing, ReceiptOf
    <2>4. CASE PlayEnds(p)
        BY <2>3, <2>4 DEF PlayEnds
    <2>5. CASE at[p] # Servers /\ ComesTo(p, at[p] + 1, play[p]) /\ UNCHANGED <<play, target>>
        <3>1. at[p] + 1 \in Server /\ at' = [at EXCEPT ![p] = at[p] + 1]
              /\ UNCHANGED <<link, active, play, target>>
            BY <1>9, <2>5 DEF GatePasses, ComesTo
        <3>2. at'[p] = at[p] + 1 /\ \A s \in Server : s < at'[p] => s < at[p] \/ s = at[p]
            BY <3>1 DEF Server
        <3>3. BehindInv(p)'
            BY <2>1, <2>2, <3>1, <3>2
        <3>4. /\ FirstStep(play[p]) \in {"arrived", "ready", "switched"}
              /\ FirstStep(play[p]) = "arrived" <=> play[p] = "deploy"
              /\ FirstStep(play[p]) = "switched" <=> play[p] = "restart"
            BY FirstSteps
        <3>5. step'[p] = FirstStep(play[p]) /\ found'[p] = link'[at'[p]] /\ previous'[p] = None
            BY <2>5, <3>1 DEF ComesTo
        <3>6. HereInv(p)'
            BY <3>1, <3>4, <3>5
        <3>7. FoundInv(p)'
            BY <3>1, <3>2, <3>5
        <3>. QED
            BY <2>3, <3>3, <3>6, <3>7
    <2>. QED
        BY <1>9, <2>4, <2>5 DEF GatePasses, MovesOn
<1>10. CASE ReceiptFails(p)
    BY <1>10 DEF ReceiptFails, GateHolds, Answers, Standing, PlayEnds
<1>11. CASE GateFails(p)
    BY <1>11 DEF GateFails, Standing, Fails, GoesOn, PlayEnds
<1>12. CASE RestoreLink(p)
    BY <1>12 DEF RestoreLink, Candidate, Standing, GoesOn
<1>13. CASE RestartRestored(p)
    <2>1. play'[p] = "none"
        BY <1>13 DEF RestartRestored, PlayEnds
    <2>2. PlayInv(p)'
        BY <2>1
    <2>3. UnsoundStaysOnFirst' /\ ReceiptIsEarned'
        BY <1>13 DEF RestartRestored
    <2>. QED
        BY <2>2, <2>3, Zenon
<1>14. CASE StopFirst(p)
    <2>1. PlayInv(p)'
        BY <1>14 DEF StopFirst, PlayEnds
    <2>2. UnsoundStaysOnFirst' /\ ReceiptIsEarned'
        BY <1>14 DEF StopFirst
    <2>. QED
        BY <2>1, <2>2, Zenon
<1>15. CASE RescueFails(p)
    <2>1. PlayInv(p)'
        BY <1>15 DEF RescueFails, PlayEnds
    <2>2. UnsoundStaysOnFirst' /\ ReceiptIsEarned'
        BY <1>15 DEF RescueFails, Standing
    <2>. QED
        BY <2>1, <2>2, Zenon
<1>16. CASE CutOff(p)
    BY <1>16, LeavesDirectories DEF CutOff, PlayEnds
<1>. QED
    BY <1>1, <1>2, <1>3, <1>4, <1>5, <1>6, <1>7, <1>8, <1>9, <1>10, <1>11, <1>12, <1>13,
       <1>14, <1>15, <1>16
       DEF PlayStep

\* A crash or a boot starts what the link names, which behind a play is what
\* already runs.
LEMMA BootsKeepsIInv ==
    ASSUME IInv, NEW s \in Server, Boots(s)
    PROVE  IInv'
<1>1. TypeInv'
    BY BootsKeepsTypes DEF IInv
<1>2. link' = link /\ \A t \in Server : active'[t] = IF t = s THEN link[t] ELSE active[t]
    BY DEF IInv, TypeInv, TypeOK, Boots
<1>3. ASSUME NEW p \in Player PROVE PlayInv(p)'
    <2>1. BehindInv(p) => BehindInv(p)'
        BY <1>2 DEF Boots, playVars, BehindInv
    <2>2. HereInv(p) => HereInv(p)'
        BY <1>2 DEF Boots, playVars, HereInv, IInv, TypeInv, TypeOK
    <2>. QED
        BY <2>1, <2>2 DEF IInv, PlayInv, FoundInv, Boots, playVars
<1>4. UnsoundStaysOnFirst' /\ ReceiptIsEarned'
    BY <1>2 DEF IInv, UnsoundStaysOnFirst, ReceiptIsEarned, Boots
<1>. QED
    BY <1>1, <1>3, <1>4 DEF IInv

\* The invariant behind everything this module says of one controller.
LEMMA InductiveInvariant ==
    ASSUME OneController
    PROVE  Spec => []IInv
<1>1. Init => IInv
    BY Constants
    DEF Init, IInv, TypeInv, TypeOK, KindInv, MaybeRelease, PlayInv,
        UnsoundStaysOnFirst, ReceiptIsEarned
<1>2. IInv /\ [Next]_vars => IInv'
    <2>1. CASE UNCHANGED vars
        BY <2>1
        DEF vars, playVars, IInv, TypeInv, TypeOK, KindInv, PlayInv, BehindInv,
            HereInv, FoundInv, UnsoundStaysOnFirst, ReceiptIsEarned
    <2>. QED
        BY <2>1, PlayStepKeepsIInv, BootsKeepsIInv DEF Next
<1>. QED
    BY <1>1, <1>2, PTL DEF Spec

\* A play leaves only servers behind that answer, with its release on all of
\* them, through every failure, cut and reboot (serial, any_errors_fatal).
THEOREM OneServerAtATime ==
    ASSUME OneController
    PROVE  Spec => []OneServerAtRisk
<1>1. IInv => OneServerAtRisk
    BY DEF IInv, OneServerAtRisk, PlayInv, BehindInv, Answers
<1>. QED
    BY <1>1, InductiveInvariant, PTL

\* A release that never answers gets no further than the first server, in any
\* sequence of deployments, rollbacks, restarts and rescues.
THEOREM UnsoundNeverSpreads ==
    ASSUME OneController
    PROVE  Spec => []UnsoundStaysOnFirst
<1>1. IInv => UnsoundStaysOnFirst
    BY DEF IInv
<1>. QED
    BY <1>1, InductiveInvariant, PTL

\* The receipt tells of a release that passed its gate where the receipt says.
THEOREM ReceiptsAreEarned ==
    ASSUME OneController
    PROVE  Spec => []ReceiptIsEarned
<1>1. IInv => ReceiptIsEarned
    BY DEF IInv
<1>. QED
    BY <1>1, InductiveInvariant, PTL

\* A deployment that reports success has its release active on every declared
\* server, and a receipt that names it (lifecycle.py deploy).
THEOREM DeployedEverywhere ==
    ASSUME OneController
    PROVE  Spec => DeployMeansEverywhere
<1>1. ASSUME IInv, NEW p \in Player, play[p] = "deploy", at[p] = Servers, GatePasses(p)
      PROVE  /\ \A s \in Server : active'[s] = target[p] /\ link'[s] = target[p]
             /\ receipt'.release = target[p]
    <2>1. BehindInv(p) /\ HereInv(p)
        BY <1>1 DEF IInv, PlayInv
    <2>2. \A s \in Server : s < at[p] \/ s = at[p]
        BY <1>1, ServersAssumption DEF Server
    <2>. QED
        BY <1>1, <2>1, <2>2 DEF GatePasses, Standing, BehindInv, HereInv, ReceiptOf
<1>2. IInv /\ [Next]_vars =>
        [\A p \in Player :
            play[p] = "deploy" /\ at[p] = Servers /\ GatePasses(p) =>
                /\ \A s \in Server : active'[s] = target[p] /\ link'[s] = target[p]
                /\ receipt'.release = target[p]]_vars
    BY <1>1
<1>. QED
    BY <1>2, InductiveInvariant, PTL DEF Spec, DeployMeansEverywhere

\* A failed deployment whose rescue completes leaves its server with the link
\* it found there, and running what that names (the rescue of main.yml).
THEOREM FailedDeployRestores ==
    ASSUME OneController
    PROVE  Spec => FailureRestores
<1>1. ASSUME IInv, NEW p \in Player, RestartRestored(p)
      PROVE  link'[at[p]] = found[p] /\ active'[at[p]] = found[p]
    BY <1>1
    DEF IInv, TypeInv, TypeOK, KindInv, PlayInv, HereInv, RestartRestored, Standing
<1>2. IInv /\ [Next]_vars =>
        [\A p \in Player : RestartRestored(p) =>
            link'[at[p]] = found[p] /\ active'[at[p]] = found[p]]_vars
    BY <1>1
<1>. QED
    BY <1>2, InductiveInvariant, PTL DEF Spec, FailureRestores
=============================================================================
