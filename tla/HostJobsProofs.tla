---------------------------- MODULE HostJobsProofs ----------------------------
(***************************************************************************)
(* Proofs about HostJobs: any number of deploys and purges interleave on a *)
(* host, commands fail and containers crash, and still the steps of every  *)
(* report are in order and only a job's own targets are removed.           *)
(***************************************************************************)
EXTENDS HostJobs, TLAPS

\* The chain of a report is in progress at step k: those before have gone
\* well, the others were not run.
Chain(order, status, k) ==
    \A i \in 1..Len(order) :
        /\ i < k => status[order[i]] \in {"ok", "skipped"}
        /\ i >= k => status[order[i]] = "not_run"

\* Where a deploy stands in DeploySteps.
Step(pc) ==
    IF pc = "login" THEN 1
    ELSE IF pc \in {"ps_name", "ps_image", "stop"} THEN 2
    ELSE IF pc = "rm" THEN 3
    ELSE IF pc \in {"inspect", "rmi"} THEN 4
    ELSE IF pc = "pull" THEN 5
    ELSE IF pc = "run" THEN 6 ELSE 7

InChain(run) ==
    IF run.pc = "done" THEN InOrder(DeploySteps, run.status)
    ELSE Chain(DeploySteps, run.status, Step(run.pc))

\* The ids a job holds are of containers that were its own when it saw them,
\* and a container keeps its name and image.
Target(c, name, ref) ==
    /\ containers[c] # NoContainer
    /\ Exists(c) => containers[c].name = name \/ containers[c].image = ref

Aiming == {"login", "ps_name", "ps_image", "stop", "rm"}

Aimed(run) ==
    run.pc \in Aiming => \A c \in run.ids : Target(c, run.name, run.ref)

DeployInv ==
    \A d \in Deploys : deploys[d] # NotStarted => InChain(deploys[d]) /\ Aimed(deploys[d])

-----------------------------------------------------------------------------
(* Reports. *)

LEMMA DeployStepsFacts ==
  /\ Len(DeploySteps) = 7
  /\ \A i \in 1..7 : DeploySteps[i] \in DeployStepNames
  /\ \A i, k \in 1..7 : DeploySteps[i] = DeploySteps[k] => i = k
  /\ DeploySteps[1] = "registry_login" /\ DeploySteps[2] = "stop_existing"
  /\ DeploySteps[3] = "remove_existing" /\ DeploySteps[4] = "remove_image"
  /\ DeploySteps[5] = "pull_image" /\ DeploySteps[6] = "run_container"
  /\ DeploySteps[7] = "verify_running"
<1>1. Len(DeploySteps) = 7
    BY DEF DeploySteps
<1>2. \A i \in 1..7 : DeploySteps[i] \in DeployStepNames
    BY <1>1 DEF DeployStepNames
<1>3. /\ DeploySteps[1] = "registry_login" /\ DeploySteps[2] = "stop_existing"
      /\ DeploySteps[3] = "remove_existing" /\ DeploySteps[4] = "remove_image"
      /\ DeploySteps[5] = "pull_image" /\ DeploySteps[6] = "run_container"
      /\ DeploySteps[7] = "verify_running"
    BY DEF DeploySteps
<1>4. \A i, k \in 1..7 : DeploySteps[i] = DeploySteps[k] => i = k
    BY <1>3
<1> QED
    BY <1>1, <1>2, <1>3, <1>4

\* A step of the chain that goes well.
LEMMA Advance ==
  ASSUME NEW order, Len(order) \in Nat, NEW k \in 1..Len(order),
         \A i \in 1..Len(order) : order[i] = order[k] => i = k,
         NEW status, order[k] \in DOMAIN status, NEW st \in {"ok", "skipped"},
         Chain(order, status, k)
  PROVE  Chain(order, [status EXCEPT ![order[k]] = st], k + 1)
<1> PICK new : new = [status EXCEPT ![order[k]] = st]
    OBVIOUS
<1>1. ASSUME NEW i \in 1..Len(order)
      PROVE  /\ i < k + 1 => new[order[i]] \in {"ok", "skipped"}
             /\ i >= k + 1 => new[order[i]] = "not_run"
  <2>1. CASE i = k
      BY <2>1
  <2>2. CASE i # k
    <3>1. new[order[i]] = status[order[i]]
        BY <2>2
    <3> QED
        BY <2>2, <3>1 DEF Chain
  <2> QED
      BY <2>1, <2>2
<1> QED
    BY <1>1 DEF Chain

\* A step that fails is the last one.
LEMMA Fail ==
  ASSUME NEW order, Len(order) \in Nat, NEW k \in 1..Len(order),
         \A i \in 1..Len(order) : order[i] = order[k] => i = k,
         NEW status, order[k] \in DOMAIN status,
         Chain(order, status, k)
  PROVE  InOrder(order, [status EXCEPT ![order[k]] = "failed"])
<1> PICK new : new = [status EXCEPT ![order[k]] = "failed"]
    OBVIOUS
<1>1. \A i \in 1..Len(order) : i # k => new[order[i]] = status[order[i]]
    OBVIOUS
<1>2. ASSUME NEW i \in 1..Len(order), NEW j \in 1..Len(order), i < j,
             new[order[i]] \in {"failed", "not_run"}
      PROVE  new[order[j]] = "not_run"
  <2>1. i >= k
      BY <1>1, <1>2 DEF Chain
  <2> QED
      BY <1>1, <1>2, <2>1 DEF Chain
<1> QED
    BY <1>2 DEF InOrder

LEMMA ChainInOrder ==
  ASSUME NEW order, Len(order) \in Nat, NEW k \in Nat, NEW status, Chain(order, status, k)
  PROVE  InOrder(order, status)
  BY DEF Chain, InOrder
-----------------------------------------------------------------------------
(* The host. *)

\* What every step does to the containers: each keeps its name and image, and
\* none is born twice.
Keeps ==
    \A c \in Containers : containers[c] # NoContainer =>
        /\ containers'[c] # NoContainer
        /\ Exists(c)' => /\ Exists(c)
                        /\ containers'[c].name = containers[c].name
                        /\ containers'[c].image = containers[c].image

RemovesNone == \A c \in Containers : Exists(c) => containers'[c] # RemovedContainer

HostStep == HostTypeOK' /\ Keeps

\* All that is removed is of the name or of the image.
RemovesOnly(name, ref) ==
    \A c \in Containers : Exists(c) /\ containers'[c] = RemovedContainer =>
        containers[c].name = name \/ containers[c].image = ref

\* The rows of a host, told by their state.
LEMMA RowShape ==
  ASSUME HostTypeOK, NEW c \in Containers
  PROVE  /\ Exists(c) => containers[c] \in ContainerRow
         /\ ~Exists(c) => containers[c] \in {NoContainer, RemovedContainer}
  BY DEF HostTypeOK, Exists, ContainerRow, NoContainer, RemovedContainer

LEMMA ObserversOK ==
  ASSUME HostTypeOK, NEW j, Delivered(j) \/ Faulted(j)
  PROVE  undisturbed' \subseteq Jobs /\ faultless' \subseteq Jobs
  BY DEF HostTypeOK, Delivered, Faulted, Disturbs

LEMMA QuietHost ==
  ASSUME HostTypeOK, UNCHANGED hostVars, undisturbed' \subseteq Jobs, faultless' \subseteq Jobs
  PROVE  HostStep /\ RemovesNone
  BY DEF HostTypeOK, HostStep, Keeps, RemovesNone, Exists, hostVars, RemovedContainer

LEMMA ImagesHost ==
  ASSUME HostTypeOK, UNCHANGED containers, images' \subseteq Refs,
         undisturbed' \subseteq Jobs, faultless' \subseteq Jobs
  PROVE  HostStep /\ RemovesNone
  BY DEF HostTypeOK, HostStep, Keeps, RemovesNone, Exists, RemovedContainer

LEMMA StoppedHost ==
  ASSUME HostTypeOK, NEW S, containers' = Stopped(S), UNCHANGED images,
         undisturbed' \subseteq Jobs, faultless' \subseteq Jobs
  PROVE  HostStep /\ RemovesNone
<1>1. ASSUME NEW c \in Containers
      PROVE  /\ containers'[c] \in ContainerRow \cup {NoContainer, RemovedContainer}
             /\ containers'[c] = containers[c] \/
                   /\ containers[c] \in ContainerRow /\ containers'[c] \in ContainerRow
                   /\ containers'[c].name = containers[c].name
                   /\ containers'[c].image = containers[c].image
  <2>1. CASE containers'[c] = containers[c]
      BY <2>1 DEF HostTypeOK
  <2>2. CASE containers'[c] # containers[c]
    <3>1. containers'[c] = [containers[c] EXCEPT !.state = "exited"] /\ containers[c].state = "running"
        BY <2>2 DEF Stopped, Running
    <3>2. containers[c] \in ContainerRow
        BY <3>1, RowShape DEF Exists
    <3> QED
        BY <3>1, <3>2 DEF ContainerRow
  <2> QED
      BY <2>1, <2>2
<1>2. HostTypeOK'
    BY <1>1 DEF HostTypeOK, Stopped
<1>3. Keeps /\ RemovesNone
    BY <1>1, RowShape DEF Keeps, RemovesNone, Exists, ContainerRow, NoContainer, RemovedContainer
<1> QED
    BY <1>2, <1>3 DEF HostStep

LEMMA RemovedHost ==
  ASSUME HostTypeOK, NEW S, \A c \in Containers \cap S : containers[c] # NoContainer,
         containers' = Removed(S), UNCHANGED images,
         undisturbed' \subseteq Jobs, faultless' \subseteq Jobs
  PROVE  /\ HostStep
         /\ \A c \in Containers : Exists(c) /\ containers'[c] = RemovedContainer => c \in S
<1>1. \A c \in Containers : containers'[c] = IF c \in S THEN RemovedContainer ELSE containers[c]
    BY DEF Removed
<1>2. HostTypeOK'
    BY <1>1 DEF HostTypeOK, Removed
<1>3. Keeps
    BY <1>1 DEF Keeps, Exists, NoContainer, RemovedContainer
<1>4. \A c \in Containers : Exists(c) /\ containers'[c] = RemovedContainer => c \in S
    BY <1>1 DEF Exists, RemovedContainer
<1> QED
    BY <1>2, <1>3, <1>4 DEF HostStep

LEMMA CreatedHost ==
  ASSUME HostTypeOK, NEW c \in Containers, containers[c] = NoContainer,
         NEW st \in {"running", "created"}, NEW n \in Names, NEW ref \in Refs,
         containers' = Created(c, st, n, ref), images' = images \cup {ref},
         undisturbed' \subseteq Jobs, faultless' \subseteq Jobs
  PROVE  HostStep /\ RemovesNone
<1>1. PICK row \in ContainerRow : containers' = [containers EXCEPT ![c] = row]
    BY DEF Created, ContainerRow
<1>2. HostTypeOK'
    BY <1>1 DEF HostTypeOK
<1>3. \A x \in Containers : x # c => containers'[x] = containers[x]
    BY <1>1 DEF HostTypeOK
<1>4. ~Exists(c)
    BY DEF Exists, NoContainer
<1>5. Keeps /\ RemovesNone
    BY <1>3, <1>4 DEF Keeps, RemovesNone, Exists, RemovedContainer
<1> QED
    BY <1>2, <1>5 DEF HostStep
-----------------------------------------------------------------------------
(* Deploys. *)

DeployOK == DeployTypeOK /\ DeployInv

DeployPlaces == {"login", "ps_name", "ps_image", "stop", "rm", "inspect", "rmi", "pull", "run",
                 "verify", "done"}

LEMMA TargetsKept ==
  ASSUME Keeps, NEW c \in Containers, NEW name, NEW ref, Target(c, name, ref)
  PROVE  Target(c, name, ref)'
  BY DEF Keeps, Target

LEMMA DeployShape ==
  ASSUME DeployTypeOK, NEW d \in Deploys, ~At(d, "new")
  PROVE  deploys[d] \in DeployRun /\ deploys[d] # NotStarted
  BY DEF DeployTypeOK, At, NotStarted

\* A run that is somewhere has a name, a reference, ids and statuses.
LEMMA RunShape ==
  ASSUME NEW run \in DeployRun
  PROVE  /\ run.pc \in DeployPlaces /\ run.name \in Names /\ run.ref \in Refs
         /\ run.ids \in SUBSET Containers /\ run.status \in [DeployStepNames -> StepStatus]
         /\ run.pc # "new" /\ run # NotStarted
  BY DEF DeployRun, DeployPlaces, NotStarted

LEMMA DeployMoves ==
  ASSUME DeployOK, HostStep, NEW d \in Deploys, NEW q \in DeployRun,
         deploys' = [deploys EXCEPT ![d] = q], InChain(q), Aimed(q)'
  PROVE  DeployOK'
<1>1. DeployTypeOK'
    BY DEF DeployOK, DeployTypeOK
<1>2. ASSUME NEW e \in Deploys, deploys'[e] # NotStarted
      PROVE  InChain(deploys'[e]) /\ Aimed(deploys[e])'
  <2>1. CASE e = d
    <3>1. deploys'[e] = q
        BY <2>1 DEF DeployOK, DeployTypeOK
    <3> QED
        BY <3>1 DEF Aimed
  <2>2. CASE e # d
    <3>1. deploys'[e] = deploys[e] /\ deploys[e] \in DeployRun
        BY <1>2, <2>2 DEF DeployOK, DeployTypeOK
    <3>2. InChain(deploys[e]) /\ Aimed(deploys[e])
        BY <1>2, <3>1 DEF DeployOK, DeployInv
    <3>3. deploys[e].ids \subseteq Containers
        BY <3>1, RunShape
    <3>4. Aimed(deploys[e])'
        BY <3>1, <3>2, <3>3, TargetsKept DEF Aimed, HostStep
    <3> QED
        BY <3>1, <3>2, <3>4
  <2> QED
      BY <2>1, <2>2
<1> QED
    BY <1>1, <1>2 DEF DeployOK, DeployInv

LEMMA DeploysKept ==
  ASSUME DeployOK, HostStep, UNCHANGED deploys
  PROVE  DeployOK'
<1>1. ASSUME NEW e \in Deploys, deploys[e] # NotStarted
      PROVE  InChain(deploys[e]) /\ Aimed(deploys[e])'
  <2>1. deploys[e] \in DeployRun /\ InChain(deploys[e]) /\ Aimed(deploys[e])
      BY <1>1 DEF DeployOK, DeployTypeOK, DeployInv
  <2>2. deploys[e].ids \subseteq Containers
      BY <2>1, RunShape
  <2> QED
      BY <2>1, <2>2, TargetsKept DEF Aimed, HostStep
<1>2. DeployTypeOK'
    BY DEF DeployOK, DeployTypeOK
<1> QED
    BY <1>1, <1>2 DEF DeployOK, DeployInv

\* Report, field by field.
LEMMA ReportMoves ==
  ASSUME DeployTypeOK, NEW d \in Deploys, deploys[d] \in DeployRun,
         NEW pc \in DeployPlaces, NEW step \in DeployStepNames, NEW st \in StepStatus,
         Report(d, pc, step, st)
  PROVE  \E q \in DeployRun :
            /\ deploys' = [deploys EXCEPT ![d] = q]
            /\ q.pc = pc /\ q.status = [deploys[d].status EXCEPT ![step] = st]
            /\ q.name = deploys[d].name /\ q.ref = deploys[d].ref /\ q.ids = deploys[d].ids
            /\ q.cid = deploys[d].cid
<1> PICK run \in DeployRun : run = deploys[d]
    OBVIOUS
<1> PICK q : q = [[run EXCEPT !.pc = pc] EXCEPT !.status = [run.status EXCEPT ![step] = st]]
    OBVIOUS
<1>1. deploys' = [deploys EXCEPT ![d] = q]
    BY DEF Report, DeployTypeOK
<1>2. q \in DeployRun
    BY DEF DeployRun, DeployPlaces
<1>3. /\ q.pc = pc /\ q.status = [run.status EXCEPT ![step] = st]
      /\ q.name = run.name /\ q.ref = run.ref /\ q.ids = run.ids /\ q.cid = run.cid
    BY DEF DeployRun
<1> QED
    BY <1>1, <1>2, <1>3

\* The step a deploy is at goes well, and the next one is reached.
LEMMA Reported ==
  ASSUME DeployOK, HostStep, NEW d \in Deploys, NEW k \in 1..7, ~At(d, "new"), ~At(d, "done"),
         Step(deploys[d].pc) = k,
         NEW pc \in DeployPlaces, NEW st \in {"ok", "skipped"},
         Report(d, pc, DeploySteps[k], st),
         IF pc = "done" THEN k = 7 ELSE Step(pc) = k + 1,
         pc \in Aiming => deploys[d].pc \in Aiming
  PROVE  DeployOK'
<1>1. deploys[d] \in DeployRun /\ deploys[d] # NotStarted
    BY DeployShape DEF DeployOK
<1>2. DeploySteps[k] \in DeployStepNames /\ st \in StepStatus /\ Len(DeploySteps) = 7
    BY DeployStepsFacts DEF StepStatus
<1>3. PICK q \in DeployRun :
            /\ deploys' = [deploys EXCEPT ![d] = q]
            /\ q.pc = pc /\ q.status = [deploys[d].status EXCEPT ![DeploySteps[k]] = st]
            /\ q.name = deploys[d].name /\ q.ref = deploys[d].ref /\ q.ids = deploys[d].ids
    BY <1>1, <1>2, ReportMoves DEF DeployOK
<1>4. Chain(DeploySteps, deploys[d].status, k) /\ Aimed(deploys[d])
    BY <1>1 DEF DeployOK, DeployInv, InChain, At
<1>5. Chain(DeploySteps, q.status, k + 1)
  <2>1. DeploySteps[k] \in DOMAIN deploys[d].status
      BY <1>1, <1>2, RunShape
  <2>2. \A i \in 1..Len(DeploySteps) : DeploySteps[i] = DeploySteps[k] => i = k
      BY <1>2, DeployStepsFacts
  <2>3. k \in 1..Len(DeploySteps) /\ Len(DeploySteps) \in Nat
      BY <1>2
  <2>4. Chain(DeploySteps, [deploys[d].status EXCEPT ![DeploySteps[k]] = st], k + 1)
      BY <1>4, <2>1, <2>2, <2>3, Advance
  <2> QED
      BY <1>3, <2>4
<1>6. InChain(q)
  <2>1. CASE pc = "done"
      BY <1>2, <1>3, <1>5, <2>1, ChainInOrder DEF InChain
  <2>2. CASE pc # "done"
      BY <1>3, <1>5, <2>2 DEF InChain
  <2> QED
      BY <2>1, <2>2
<1>7. Aimed(q)'
  <2>1. deploys[d].ids \subseteq Containers
      BY <1>1, RunShape
  <2> QED
      BY <1>3, <1>4, <2>1, TargetsKept DEF Aimed, HostStep
<1> QED
    BY <1>3, <1>6, <1>7, DeployMoves

\* The step a deploy is at fails, and the chain ends.
LEMMA Aborted ==
  ASSUME DeployOK, HostStep, NEW d \in Deploys, NEW k \in 1..7, ~At(d, "new"), ~At(d, "done"),
         Step(deploys[d].pc) = k, Abort(d, DeploySteps[k])
  PROVE  DeployOK'
<1>1. deploys[d] \in DeployRun /\ deploys[d] # NotStarted
    BY DeployShape DEF DeployOK
<1>2. DeploySteps[k] \in DeployStepNames /\ Len(DeploySteps) = 7
    BY DeployStepsFacts
<1>3. PICK q \in DeployRun :
            /\ deploys' = [deploys EXCEPT ![d] = q]
            /\ q.pc = "done" /\ q.status = [deploys[d].status EXCEPT ![DeploySteps[k]] = "failed"]
  <2>1. "done" \in DeployPlaces /\ "failed" \in StepStatus
      BY DEF DeployPlaces, StepStatus
  <2>2. Report(d, "done", DeploySteps[k], "failed") /\ DeployTypeOK
      BY DEF DeployOK, Abort
  <2> QED
      BY <1>1, <1>2, <2>1, <2>2, ReportMoves
<1>4. Chain(DeploySteps, deploys[d].status, k)
    BY <1>1 DEF DeployOK, DeployInv, InChain, At
<1>5. InOrder(DeploySteps, q.status)
  <2>1. DeploySteps[k] \in DOMAIN deploys[d].status
      BY <1>1, <1>2, RunShape
  <2>2. \A i \in 1..Len(DeploySteps) : DeploySteps[i] = DeploySteps[k] => i = k
      BY <1>2, DeployStepsFacts
  <2>3. k \in 1..Len(DeploySteps) /\ Len(DeploySteps) \in Nat
      BY <1>2
  <2>4. InOrder(DeploySteps, [deploys[d].status EXCEPT ![DeploySteps[k]] = "failed"])
      BY <1>4, <2>1, <2>2, <2>3, Fail
  <2> QED
      BY <1>3, <2>4
<1>6. InChain(q) /\ Aimed(q)'
    BY <1>3, <1>5 DEF InChain, Aimed, Aiming
<1> QED
    BY <1>3, <1>6, DeployMoves

\* A deploy goes on within a step, with other ids.
LEMMA Shifted ==
  ASSUME DeployOK, HostStep, NEW d \in Deploys, ~At(d, "new"), ~At(d, "done"),
         NEW q \in DeployRun, deploys' = [deploys EXCEPT ![d] = q],
         q.status = deploys[d].status, q.pc # "done", Step(q.pc) = Step(deploys[d].pc),
         Aimed(q)'
  PROVE  DeployOK'
<1>1. deploys[d] # NotStarted
    BY DeployShape DEF DeployOK
<1>2. InChain(q)
    BY <1>1 DEF DeployOK, DeployInv, InChain, At
<1> QED
    BY <1>2, DeployMoves

\* The containers a deploy finds are its targets.
LEMMA FoundAreTargets ==
  ASSUME NEW name, NEW ref
  PROVE  \A c \in Named(name) \cup OfImage(ref) : Target(c, name, ref)
  BY DEF Named, OfImage, Target, Exists, NoContainer

\* A step that leaves the containers alone endangers no target.
LEMMA TargetsStay ==
  ASSUME UNCHANGED containers, NEW c, NEW name, NEW ref, Target(c, name, ref)
  PROVE  Target(c, name, ref)'
  BY DEF Target, Exists

LEMMA DeployProbeStep ==
  ASSUME HostTypeOK, DeployOK, NEW d \in Deploys, NEW n \in Names, NEW ref \in Refs,
         DeployProbe(d, n, ref)
  PROVE  HostStep /\ RemovesNone /\ DeployOK'
<1>1. undisturbed' \subseteq Jobs /\ faultless' \subseteq Jobs
    BY DeploysAreJobs DEF DeployProbe, HostTypeOK
<1>2. HostStep /\ RemovesNone
    BY <1>1, QuietHost DEF DeployProbe
<1>3. PICK pc \in {"login", "done"} :
        deploys' = [deploys EXCEPT ![d] =
            [pc |-> pc, name |-> n, ref |-> ref, ids |-> {}, cid |-> NoId,
             status |-> [s \in DeployStepNames |-> "not_run"]]]
    BY DEF DeployProbe
<1> PICK q : q = [pc |-> pc, name |-> n, ref |-> ref, ids |-> {}, cid |-> NoId,
                  status |-> [s \in DeployStepNames |-> "not_run"]]
    OBVIOUS
<1>4. q \in DeployRun
    BY DEF DeployRun, StepStatus
<1>5. q.pc = pc /\ \A i \in 1..Len(DeploySteps) : q.status[DeploySteps[i]] = "not_run"
    BY DeployStepsFacts
<1>6. InChain(q)
  <2>1. Step("login") = 1
      BY DEF Step
  <2>2. CASE pc = "login"
      BY <1>5, <2>1, <2>2, DeployStepsFacts DEF InChain, Chain
  <2>3. CASE pc = "done"
      BY <1>5, <2>3 DEF InChain, InOrder
  <2> QED
      BY <2>2, <2>3
<1>7. Aimed(q)'
    BY <1>5 DEF Aimed
<1> QED
    BY <1>2, <1>3, <1>4, <1>6, <1>7, DeployMoves

LEMMA LoginStep ==
  ASSUME HostTypeOK, DeployOK, NEW d \in Deploys, Login(d)
  PROVE  HostStep /\ RemovesNone /\ DeployOK'
<1>1. HostStep /\ RemovesNone
    BY ObserversOK, QuietHost DEF Login
<1>2. /\ deploys[d].pc = "login" /\ ~At(d, "new") /\ ~At(d, "done")
      /\ Step("login") = 1 /\ Step("ps_name") = 2 /\ "ps_name" \in DeployPlaces
      /\ DeploySteps[1] = "registry_login" /\ "login" \in Aiming
    BY DeployStepsFacts DEF Login, At, Step, DeployPlaces, Aiming
<1>3. CASE \E st \in {"ok", "skipped"} : Report(d, "ps_name", "registry_login", st)
    BY <1>1, <1>2, <1>3, Reported
<1>4. CASE Abort(d, "registry_login")
    BY <1>1, <1>2, <1>4, Aborted
<1> QED
    BY <1>1, <1>3, <1>4 DEF Login

LEMMA PsNameStep ==
  ASSUME HostTypeOK, DeployOK, NEW d \in Deploys, PsName(d)
  PROVE  HostStep /\ RemovesNone /\ DeployOK'
<1>1. HostStep /\ RemovesNone
    BY ObserversOK, QuietHost DEF PsName
<1>2. deploys[d].pc = "ps_name" /\ ~At(d, "new") /\ ~At(d, "done")
    BY DEF PsName, At
<1>3. deploys[d] \in DeployRun /\ deploys[d] # NotStarted
    BY <1>2, DeployShape DEF DeployOK
<1>4. PICK ids \in {Named(deploys[d].name), deploys[d].ids} :
        deploys' = [deploys EXCEPT ![d] = [[deploys[d] EXCEPT !.pc = "ps_image"] EXCEPT !.ids = ids]]
    BY <1>3 DEF PsName, DeployRun
<1> PICK q : q = [[deploys[d] EXCEPT !.pc = "ps_image"] EXCEPT !.ids = ids]
    OBVIOUS
<1>5. ids \in SUBSET Containers
    BY <1>3, RunShape DEF Named
<1>6. /\ q \in DeployRun /\ q.pc = "ps_image" /\ q.status = deploys[d].status
      /\ q.ids = ids /\ q.name = deploys[d].name /\ q.ref = deploys[d].ref
    BY <1>3, <1>5 DEF DeployRun
<1>7. \A c \in ids : Target(c, deploys[d].name, deploys[d].ref)
    BY <1>2, <1>3, FoundAreTargets DEF DeployOK, DeployInv, Aimed, Aiming
<1>8. Aimed(q)'
    BY <1>6, <1>7, TargetsStay DEF Aimed, PsName, hostVars
<1>9. Step(q.pc) = Step(deploys[d].pc) /\ q.pc # "done"
    BY <1>2, <1>6 DEF Step
<1> QED
    BY <1>1, <1>2, <1>4, <1>6, <1>8, <1>9, Shifted

\* With nothing found two steps are skipped at once.
LEMMA PsImageStep ==
  ASSUME HostTypeOK, DeployOK, NEW d \in Deploys, PsImage(d)
  PROVE  HostStep /\ RemovesNone /\ DeployOK'
<1>1. HostStep /\ RemovesNone
    BY ObserversOK, QuietHost DEF PsImage
<1>2. deploys[d].pc = "ps_image" /\ ~At(d, "new") /\ ~At(d, "done")
    BY DEF PsImage, At
<1>3. deploys[d] \in DeployRun /\ deploys[d] # NotStarted
    BY <1>2, DeployShape DEF DeployOK
<1> PICK run \in DeployRun : run = deploys[d]
    BY <1>3
<1>4. PICK ids \in {run.ids \cup OfImage(run.ref), run.ids} :
        IF ids = {}
        THEN deploys' = [deploys EXCEPT ![d].pc = "inspect",
                                        ![d].status["stop_existing"] = "skipped",
                                        ![d].status["remove_existing"] = "skipped"]
        ELSE deploys' = [deploys EXCEPT ![d].pc = "stop", ![d].ids = ids]
    BY <1>3 DEF PsImage
<1>5. ids \in SUBSET Containers /\ \A c \in ids : Target(c, run.name, run.ref)
    BY <1>2, <1>3, FoundAreTargets, RunShape DEF DeployOK, DeployInv, Aimed, Aiming, OfImage
<1>6. CASE ids # {}
  <2> PICK q : q = [[run EXCEPT !.pc = "stop"] EXCEPT !.ids = ids]
      OBVIOUS
  <2>0. deploys' = [deploys EXCEPT ![d] = q]
      BY <1>4, <1>6 DEF DeployOK, DeployTypeOK
  <2>1. /\ q \in DeployRun /\ q.pc = "stop" /\ q.status = run.status
        /\ q.ids = ids /\ q.name = run.name /\ q.ref = run.ref
      BY <1>5 DEF DeployRun
  <2>2. Aimed(q)'
      BY <1>5, <2>1, TargetsStay DEF Aimed, PsImage, hostVars
  <2>3. Step(q.pc) = Step(deploys[d].pc) /\ q.pc # "done"
      BY <1>2, <2>1 DEF Step
  <2> QED
      BY <1>1, <1>2, <2>0, <2>1, <2>2, <2>3, Shifted
<1>7. CASE ids = {}
  <2> PICK one : one = [run.status EXCEPT !["stop_existing"] = "skipped"]
      OBVIOUS
  <2> PICK two : two = [one EXCEPT !["remove_existing"] = "skipped"]
      OBVIOUS
  <2> PICK q : q = [[run EXCEPT !.pc = "inspect"] EXCEPT !.status = two]
      OBVIOUS
  <2>1. run.status \in [DeployStepNames -> StepStatus]
      BY RunShape
  <2>2. one \in [DeployStepNames -> StepStatus] /\ two \in [DeployStepNames -> StepStatus]
      BY <2>1 DEF StepStatus
  <2>8. deploys' = [deploys EXCEPT ![d] = q]
    <3> PICK f : f = [deploys EXCEPT ![d].pc = "inspect"]
        OBVIOUS
    <3> PICK g : g = [f EXCEPT ![d].status["stop_existing"] = "skipped"]
        OBVIOUS
    <3> PICK fd : fd = [run EXCEPT !.pc = "inspect"]
        OBVIOUS
    <3> PICK gd : gd = [fd EXCEPT !.status = one]
        OBVIOUS
    <3>1. DOMAIN deploys = Deploys
        BY DEF DeployOK, DeployTypeOK
    <3>2. f = [deploys EXCEPT ![d] = fd] /\ fd.status = run.status
        BY <3>1 DEF DeployRun
    <3>3. g = [deploys EXCEPT ![d] = gd]
        BY <3>1, <3>2
    <3>4. gd.status = one
        BY <3>2 DEF DeployRun
    <3>5. deploys' = [g EXCEPT ![d].status["remove_existing"] = "skipped"]
        BY <1>4, <1>7
    <3>6. deploys' = [deploys EXCEPT ![d] = [gd EXCEPT !.status = two]]
        BY <3>1, <3>3, <3>4, <3>5
    <3>7. [gd EXCEPT !.status = two] = q
        BY DEF DeployRun
    <3> QED
        BY <3>6, <3>7
  <2>3. q \in DeployRun /\ q.pc = "inspect" /\ q.status = two
      BY <2>2 DEF DeployRun
  <2>4. Chain(DeploySteps, run.status, 2)
      BY <1>2, <1>3 DEF DeployOK, DeployInv, InChain, Step
  <2>5. Chain(DeploySteps, one, 3)
    <3>1. "stop_existing" \in DOMAIN run.status
        BY <2>1, DeployStepsFacts
    <3>2. /\ Len(DeploySteps) \in Nat /\ 2 \in 1..Len(DeploySteps) /\ DeploySteps[2] = "stop_existing"
          /\ \A i \in 1..Len(DeploySteps) : DeploySteps[i] = DeploySteps[2] => i = 2
        BY DeployStepsFacts
    <3>3. Chain(DeploySteps, [run.status EXCEPT ![DeploySteps[2]] = "skipped"], 2 + 1)
        BY <2>4, <3>1, <3>2, Advance
    <3> QED
        BY <3>2, <3>3
  <2>6. Chain(DeploySteps, two, 4)
    <3>1. "remove_existing" \in DOMAIN one
        BY <2>2, DeployStepsFacts
    <3>2. /\ Len(DeploySteps) \in Nat /\ 3 \in 1..Len(DeploySteps) /\ DeploySteps[3] = "remove_existing"
          /\ \A i \in 1..Len(DeploySteps) : DeploySteps[i] = DeploySteps[3] => i = 3
        BY DeployStepsFacts
    <3>3. Chain(DeploySteps, [one EXCEPT ![DeploySteps[3]] = "skipped"], 3 + 1)
        BY <2>5, <3>1, <3>2, Advance
    <3> QED
        BY <3>2, <3>3
  <2>7. InChain(q) /\ Aimed(q)'
      BY <2>3, <2>6 DEF InChain, Step, Aimed, Aiming
  <2> QED
      BY <1>1, <2>3, <2>7, <2>8, DeployMoves
<1> QED
    BY <1>6, <1>7

LEMMA StopStep ==
  ASSUME HostTypeOK, DeployOK, NEW d \in Deploys, Stop(d)
  PROVE  HostStep /\ RemovesNone /\ DeployOK'
<1>1. HostStep /\ RemovesNone
  <2>1. PICK S : containers' = Stopped(S)
      BY DEF Stop
  <2>2. undisturbed' \subseteq Jobs /\ faultless' \subseteq Jobs
      BY ObserversOK DEF Stop
  <2> QED
      BY <2>1, <2>2, StoppedHost DEF Stop
<1>2. /\ deploys[d].pc = "stop" /\ ~At(d, "new") /\ ~At(d, "done")
      /\ Step("stop") = 2 /\ Step("rm") = 3 /\ "rm" \in DeployPlaces
      /\ DeploySteps[2] = "stop_existing" /\ "stop" \in Aiming
    BY DeployStepsFacts DEF Stop, At, Step, DeployPlaces, Aiming
<1>3. CASE Report(d, "rm", "stop_existing", "ok")
    BY <1>1, <1>2, <1>3, Reported
<1>4. CASE Abort(d, "stop_existing")
    BY <1>1, <1>2, <1>4, Aborted
<1> QED
    BY <1>1, <1>3, <1>4 DEF Stop

LEMMA RemoveContainersStep ==
  ASSUME HostTypeOK, DeployOK, NEW d \in Deploys, RemoveContainers(d)
  PROVE  /\ HostStep /\ DeployOK'
         /\ RemovesOnly(deploys[d].name, deploys[d].ref) /\ deploys'[d] # deploys[d]
<1>2. /\ deploys[d].pc = "rm" /\ ~At(d, "new") /\ ~At(d, "done")
      /\ Step("rm") = 3 /\ Step("inspect") = 4 /\ "inspect" \in DeployPlaces
      /\ DeploySteps[3] = "remove_existing" /\ "rm" \in Aiming /\ "inspect" \notin Aiming
    BY DeployStepsFacts DEF RemoveContainers, At, Step, DeployPlaces, Aiming
<1>3. /\ deploys[d] \in DeployRun /\ deploys[d] # NotStarted
      /\ \A c \in deploys[d].ids : Target(c, deploys[d].name, deploys[d].ref)
    BY <1>2, DeployShape DEF DeployOK, DeployInv, Aimed
<1>4. PICK S \in SUBSET deploys[d].ids : containers' = Removed(S)
    BY DEF RemoveContainers
<1>5. undisturbed' \subseteq Jobs /\ faultless' \subseteq Jobs
    BY ObserversOK DEF RemoveContainers
<1>6. \A c \in Containers \cap S : containers[c] # NoContainer
    BY <1>3, <1>4 DEF Target
<1>7. UNCHANGED images
    BY DEF RemoveContainers
<1>8. /\ HostStep
      /\ \A c \in Containers : Exists(c) /\ containers'[c] = RemovedContainer => c \in S
    BY <1>4, <1>5, <1>6, <1>7, RemovedHost
<1>9. RemovesOnly(deploys[d].name, deploys[d].ref)
    BY <1>3, <1>4, <1>8 DEF RemovesOnly, Target
<1>10. CASE Report(d, "inspect", "remove_existing", "ok")
  <2>1. DeployOK'
      BY <1>2, <1>8, <1>10, Reported
  <2>2. deploys'[d].pc = "inspect"
      BY <1>3, <1>10 DEF Report, DeployOK, DeployTypeOK, DeployRun
  <2> QED
      BY <1>2, <1>8, <1>9, <2>1, <2>2
<1>11. CASE Abort(d, "remove_existing")
  <2>1. DeployOK'
      BY <1>2, <1>8, <1>11, Aborted
  <2>2. deploys'[d].pc = "done"
      BY <1>3, <1>11 DEF Report, Abort, DeployOK, DeployTypeOK, DeployRun
  <2> QED
      BY <1>2, <1>8, <1>9, <2>1, <2>2
<1> QED
    BY <1>10, <1>11 DEF RemoveContainers

LEMMA InspectImageStep ==
  ASSUME HostTypeOK, DeployOK, NEW d \in Deploys, InspectImage(d)
  PROVE  HostStep /\ RemovesNone /\ DeployOK'
<1>1. HostStep /\ RemovesNone
    BY ObserversOK, QuietHost DEF InspectImage
<1>2. /\ deploys[d].pc = "inspect" /\ ~At(d, "new") /\ ~At(d, "done")
      /\ Step("inspect") = 4 /\ Step("rmi") = 4 /\ Step("pull") = 5 /\ "pull" \in DeployPlaces
      /\ DeploySteps[4] = "remove_image" /\ "pull" \notin Aiming /\ "rmi" \notin Aiming
    BY DeployStepsFacts DEF InspectImage, At, Step, DeployPlaces, Aiming
<1>3. deploys[d] \in DeployRun
    BY <1>2, DeployShape DEF DeployOK
<1>4. CASE Report(d, "pull", "remove_image", "skipped")
    BY <1>1, <1>2, <1>4, Reported
<1>5. CASE deploys' = [deploys EXCEPT ![d].pc = "rmi"]
  <2> PICK q : q = [deploys[d] EXCEPT !.pc = "rmi"]
      OBVIOUS
  <2>1. q \in DeployRun /\ q.pc = "rmi" /\ q.status = deploys[d].status
      BY <1>3 DEF DeployRun
  <2>2. Aimed(q)'
      BY <1>2, <2>1 DEF Aimed
  <2>3. deploys' = [deploys EXCEPT ![d] = q]
      BY <1>5
  <2> QED
      BY <1>1, <1>2, <2>1, <2>2, <2>3, Shifted
<1> QED
    BY <1>1, <1>4, <1>5 DEF InspectImage

LEMMA RemoveImageStep ==
  ASSUME HostTypeOK, DeployOK, NEW d \in Deploys, RemoveImage(d)
  PROVE  HostStep /\ RemovesNone /\ DeployOK'
<1>1. HostStep /\ RemovesNone
  <2>1. undisturbed' \subseteq Jobs /\ faultless' \subseteq Jobs
      BY ObserversOK DEF RemoveImage
  <2>2. UNCHANGED containers /\ images' \subseteq Refs
      BY DEF RemoveImage, HostTypeOK
  <2> QED
      BY <2>1, <2>2, ImagesHost
<1>2. /\ deploys[d].pc = "rmi" /\ ~At(d, "new") /\ ~At(d, "done")
      /\ Step("rmi") = 4 /\ Step("pull") = 5 /\ "pull" \in DeployPlaces
      /\ DeploySteps[4] = "remove_image" /\ "pull" \notin Aiming
    BY DeployStepsFacts DEF RemoveImage, At, Step, DeployPlaces, Aiming
<1>3. \E st \in {"ok", "skipped"} : Report(d, "pull", "remove_image", st)
    BY DEF RemoveImage
<1> QED
    BY <1>1, <1>2, <1>3, Reported

LEMMA PullStep ==
  ASSUME HostTypeOK, DeployOK, NEW d \in Deploys, Pull(d)
  PROVE  HostStep /\ RemovesNone /\ DeployOK'
<1>2. /\ deploys[d].pc = "pull" /\ ~At(d, "new") /\ ~At(d, "done")
      /\ Step("pull") = 5 /\ Step("run") = 6 /\ "run" \in DeployPlaces
      /\ DeploySteps[5] = "pull_image" /\ "run" \notin Aiming
    BY DeployStepsFacts DEF Pull, At, Step, DeployPlaces, Aiming
<1>3. deploys[d].ref \in Refs
    BY <1>2, DeployShape, RunShape DEF DeployOK
<1>1. HostStep /\ RemovesNone
  <2>1. undisturbed' \subseteq Jobs /\ faultless' \subseteq Jobs
      BY ObserversOK DEF Pull
  <2>2. UNCHANGED containers /\ images' \subseteq Refs
      BY <1>3 DEF Pull, HostTypeOK
  <2> QED
      BY <2>1, <2>2, ImagesHost
<1>4. CASE Report(d, "run", "pull_image", "ok")
    BY <1>1, <1>2, <1>4, Reported
<1>5. CASE Abort(d, "pull_image")
    BY <1>1, <1>2, <1>5, Aborted
<1> QED
    BY <1>1, <1>4, <1>5 DEF Pull

LEMMA RunStep ==
  ASSUME HostTypeOK, DeployOK, NEW d \in Deploys, Run(d)
  PROVE  HostStep /\ RemovesNone /\ DeployOK'
<1>2. /\ deploys[d].pc = "run" /\ ~At(d, "new") /\ ~At(d, "done")
      /\ Step("run") = 6 /\ Step("verify") = 7 /\ "verify" \notin Aiming
      /\ DeploySteps[6] = "run_container"
    BY DeployStepsFacts DEF Run, At, Step, Aiming
<1>3. deploys[d] \in DeployRun /\ deploys[d] # NotStarted
    BY <1>2, DeployShape DEF DeployOK
<1> PICK run \in DeployRun : run = deploys[d]
    BY <1>3
<1>4. run.name \in Names /\ run.ref \in Refs /\ run.status \in [DeployStepNames -> StepStatus]
    BY RunShape
<1>5. undisturbed' \subseteq Jobs /\ faultless' \subseteq Jobs
    BY ObserversOK DEF Run
<1>1. HostStep /\ RemovesNone
  <2>1. CASE UNCHANGED hostVars
      BY <1>5, <2>1, QuietHost
  <2>2. CASE \E c \in Containers, st \in {"running", "created"} :
                /\ containers[c] = NoContainer
                /\ containers' = Created(c, st, run.name, run.ref)
                /\ images' = images \cup {run.ref}
      BY <1>4, <1>5, <2>2, CreatedHost
  <2> QED
      BY <2>1, <2>2 DEF Run
<1>6. CASE Abort(d, "run_container")
    BY <1>1, <1>2, <1>6, Aborted
<1>7. ASSUME NEW c \in Containers,
             deploys' = [deploys EXCEPT ![d].pc = "verify", ![d].cid = c,
                                        ![d].status["run_container"] = "ok"]
      PROVE  DeployOK'
  <2> PICK new : new = [run.status EXCEPT !["run_container"] = "ok"]
      OBVIOUS
  <2> PICK at : at = [[run EXCEPT !.pc = "verify"] EXCEPT !.cid = c]
      OBVIOUS
  <2> PICK q : q = [at EXCEPT !.status = new]
      OBVIOUS
  <2>1. at.status = run.status
      BY DEF DeployRun
  <2>2. deploys' = [deploys EXCEPT ![d] = q]
    <3> PICK f : f = [deploys EXCEPT ![d].pc = "verify", ![d].cid = c]
        OBVIOUS
    <3>1. DOMAIN deploys = Deploys
        BY DEF DeployOK, DeployTypeOK
    <3>2. f = [deploys EXCEPT ![d] = at]
        BY <3>1
    <3>3. deploys' = [f EXCEPT ![d].status["run_container"] = "ok"]
        BY <1>7
    <3> QED
        BY <2>1, <3>1, <3>2, <3>3
  <2>3. new \in [DeployStepNames -> StepStatus]
      BY <1>4 DEF StepStatus
  <2>4. q \in DeployRun /\ q.pc = "verify" /\ q.status = new
      BY <2>3 DEF DeployRun
  <2>5. Chain(DeploySteps, run.status, 6)
      BY <1>2, <1>3 DEF DeployOK, DeployInv, InChain, At
  <2>6. Chain(DeploySteps, new, 7)
    <3>1. "run_container" \in DOMAIN run.status
        BY <1>4, DeployStepsFacts
    <3>2. /\ Len(DeploySteps) \in Nat /\ 6 \in 1..Len(DeploySteps)
          /\ DeploySteps[6] = "run_container"
          /\ \A i \in 1..Len(DeploySteps) : DeploySteps[i] = DeploySteps[6] => i = 6
        BY DeployStepsFacts
    <3>3. Chain(DeploySteps, [run.status EXCEPT ![DeploySteps[6]] = "ok"], 6 + 1)
        BY <2>5, <3>1, <3>2, Advance
    <3> QED
        BY <3>2, <3>3
  <2>7. InChain(q) /\ Aimed(q)'
      BY <1>2, <2>4, <2>6 DEF InChain, Aimed
  <2> QED
      BY <1>1, <2>2, <2>4, <2>7, DeployMoves
<1> QED
    BY <1>1, <1>6, <1>7 DEF Run

LEMMA VerifyStep ==
  ASSUME HostTypeOK, DeployOK, NEW d \in Deploys, Verify(d)
  PROVE  HostStep /\ RemovesNone /\ DeployOK'
<1>1. HostStep /\ RemovesNone
    BY ObserversOK, QuietHost DEF Verify
<1>2. /\ deploys[d].pc = "verify" /\ ~At(d, "new") /\ ~At(d, "done")
      /\ Step("verify") = 7 /\ "done" \in DeployPlaces
      /\ DeploySteps[7] = "verify_running" /\ "done" \notin Aiming
    BY DeployStepsFacts DEF Verify, At, Step, DeployPlaces, Aiming
<1>3. CASE Report(d, "done", "verify_running", "ok")
    BY <1>1, <1>2, <1>3, Reported
<1>4. CASE Abort(d, "verify_running")
    BY <1>1, <1>2, <1>4, Aborted
<1> QED
    BY <1>1, <1>3, <1>4 DEF Verify, Abort

\* A job that removes something removes its own targets.
DeployRemovals ==
    \A c \in Containers : Exists(c) /\ containers'[c] = RemovedContainer =>
        \E d \in Deploys : /\ deploys'[d] # deploys[d]
                           /\ \/ containers[c].name = deploys[d].name
                              \/ containers[c].image = deploys[d].ref

LEMMA DeployStepOK ==
  ASSUME HostTypeOK, DeployOK, NEW d \in Deploys, DeployStep(d)
  PROVE  HostStep /\ DeployOK' /\ DeployRemovals
<1>1. CASE RemoveContainers(d)
    BY <1>1, RemoveContainersStep DEF DeployRemovals, RemovesOnly
<1>2. CASE ~RemoveContainers(d)
  <2>1. HostStep /\ DeployOK' /\ RemovesNone
      BY <1>2, DeployProbeStep, LoginStep, PsNameStep, PsImageStep, StopStep, InspectImageStep,
         RemoveImageStep, PullStep, RunStep, VerifyStep DEF DeployStep
  <2> QED
      BY <2>1 DEF DeployRemovals, RemovesNone
<1> QED
    BY <1>1, <1>2
-----------------------------------------------------------------------------
(* Purges. *)

\* Where a purge stands in PurgeSteps.
PurgeAtStep(pc) ==
    IF pc \in {"ps_name", "ps_image"} THEN 1
    ELSE IF pc = "stop" THEN 2
    ELSE IF pc = "rm" THEN 3
    ELSE IF pc \in {"inspect", "rmi"} THEN 4 ELSE 5

PurgeInChain(run) ==
    IF run.pc = "done" THEN InOrder(PurgeSteps, run.status)
    ELSE Chain(PurgeSteps, run.status, PurgeAtStep(run.pc))

PurgeAiming == {"ps_name", "ps_image", "stop", "rm"}

PurgeAimed(run) ==
    run.pc \in PurgeAiming => \A c \in run.ids : Target(c, run.name, run.ref)

PurgeInv ==
    \A p \in Purges : purges[p] # PurgeNotStarted =>
        PurgeInChain(purges[p]) /\ PurgeAimed(purges[p])

PurgeOK == PurgeTypeOK /\ PurgeInv

PurgePlaces == {"ps_name", "ps_image", "stop", "rm", "inspect", "rmi",
                "verify_name", "verify_image", "verify_inspect", "done"}

LEMMA PurgeStepsFacts ==
  /\ Len(PurgeSteps) = 5
  /\ \A i \in 1..5 : PurgeSteps[i] \in PurgeStepNames
  /\ \A i, k \in 1..5 : PurgeSteps[i] = PurgeSteps[k] => i = k
  /\ PurgeSteps[1] = "find_containers" /\ PurgeSteps[2] = "stop_containers"
  /\ PurgeSteps[3] = "remove_containers" /\ PurgeSteps[4] = "remove_image"
  /\ PurgeSteps[5] = "verify_purged"
<1>1. Len(PurgeSteps) = 5
    BY DEF PurgeSteps
<1>2. \A i \in 1..5 : PurgeSteps[i] \in PurgeStepNames
    BY <1>1 DEF PurgeStepNames
<1>3. /\ PurgeSteps[1] = "find_containers" /\ PurgeSteps[2] = "stop_containers"
      /\ PurgeSteps[3] = "remove_containers" /\ PurgeSteps[4] = "remove_image"
      /\ PurgeSteps[5] = "verify_purged"
    BY DEF PurgeSteps
<1>4. \A i, k \in 1..5 : PurgeSteps[i] = PurgeSteps[k] => i = k
    BY <1>3
<1> QED
    BY <1>1, <1>2, <1>3, <1>4

LEMMA PurgeShape ==
  ASSUME PurgeTypeOK, NEW p \in Purges, ~PurgeAt(p, "new")
  PROVE  purges[p] \in PurgeRun /\ purges[p] # PurgeNotStarted
  BY DEF PurgeTypeOK, PurgeAt, PurgeNotStarted

\* A run that is somewhere has a name, a reference, ids and statuses.
LEMMA PurgeRunShape ==
  ASSUME NEW run \in PurgeRun
  PROVE  /\ run.pc \in PurgePlaces /\ run.name \in Names \cup {NoName} /\ run.ref \in Refs
         /\ run.ids \in SUBSET Containers /\ run.status \in [PurgeStepNames -> StepStatus]
         /\ run.pc # "new" /\ run # PurgeNotStarted
  BY DEF PurgeRun, PurgePlaces, PurgeNotStarted, StepStatus

LEMMA PurgeMoves ==
  ASSUME PurgeOK, HostStep, NEW p \in Purges, NEW q \in PurgeRun,
         purges' = [purges EXCEPT ![p] = q], PurgeInChain(q), PurgeAimed(q)'
  PROVE  PurgeOK'
<1>1. PurgeTypeOK'
    BY DEF PurgeOK, PurgeTypeOK
<1>2. ASSUME NEW e \in Purges, purges'[e] # PurgeNotStarted
      PROVE  PurgeInChain(purges'[e]) /\ PurgeAimed(purges[e])'
  <2>1. CASE e = p
    <3>1. purges'[e] = q
        BY <2>1 DEF PurgeOK, PurgeTypeOK
    <3> QED
        BY <3>1 DEF PurgeAimed
  <2>2. CASE e # p
    <3>1. purges'[e] = purges[e] /\ purges[e] \in PurgeRun
        BY <1>2, <2>2 DEF PurgeOK, PurgeTypeOK
    <3>2. PurgeInChain(purges[e]) /\ PurgeAimed(purges[e])
        BY <1>2, <3>1 DEF PurgeOK, PurgeInv
    <3>3. purges[e].ids \subseteq Containers
        BY <3>1, PurgeRunShape
    <3>4. PurgeAimed(purges[e])'
        BY <3>1, <3>2, <3>3, TargetsKept DEF PurgeAimed, HostStep
    <3> QED
        BY <3>1, <3>2, <3>4
  <2> QED
      BY <2>1, <2>2
<1> QED
    BY <1>1, <1>2 DEF PurgeOK, PurgeInv

LEMMA PurgesKept ==
  ASSUME PurgeOK, HostStep, UNCHANGED purges
  PROVE  PurgeOK'
<1>1. ASSUME NEW e \in Purges, purges[e] # PurgeNotStarted
      PROVE  PurgeInChain(purges[e]) /\ PurgeAimed(purges[e])'
  <2>1. purges[e] \in PurgeRun /\ PurgeInChain(purges[e]) /\ PurgeAimed(purges[e])
      BY <1>1 DEF PurgeOK, PurgeTypeOK, PurgeInv
  <2>2. purges[e].ids \subseteq Containers
      BY <2>1, PurgeRunShape
  <2> QED
      BY <2>1, <2>2, TargetsKept DEF PurgeAimed, HostStep
<1>2. PurgeTypeOK'
    BY DEF PurgeOK, PurgeTypeOK
<1> QED
    BY <1>1, <1>2 DEF PurgeOK, PurgeInv

\* PurgeReport, field by field.
LEMMA PurgeReportMoves ==
  ASSUME PurgeTypeOK, NEW p \in Purges, purges[p] \in PurgeRun,
         NEW pc \in PurgePlaces, NEW step \in PurgeStepNames, NEW st \in StepStatus,
         PurgeReport(p, pc, step, st)
  PROVE  \E q \in PurgeRun :
            /\ purges' = [purges EXCEPT ![p] = q]
            /\ q.pc = pc /\ q.status = [purges[p].status EXCEPT ![step] = st]
            /\ q.name = purges[p].name /\ q.ref = purges[p].ref /\ q.ids = purges[p].ids
<1> PICK run \in PurgeRun : run = purges[p]
    OBVIOUS
<1> PICK q : q = [[run EXCEPT !.pc = pc] EXCEPT !.status = [run.status EXCEPT ![step] = st]]
    OBVIOUS
<1>1. purges' = [purges EXCEPT ![p] = q]
    BY DEF PurgeReport, PurgeTypeOK
<1>2. q \in PurgeRun
    BY DEF PurgeRun, PurgePlaces, StepStatus
<1>3. /\ q.pc = pc /\ q.status = [run.status EXCEPT ![step] = st]
      /\ q.name = run.name /\ q.ref = run.ref /\ q.ids = run.ids
    BY DEF PurgeRun
<1> QED
    BY <1>1, <1>2, <1>3

\* The step a purge is at goes well, and the next one is reached.
LEMMA PurgeReported ==
  ASSUME PurgeOK, HostStep, NEW p \in Purges, NEW k \in 1..5, ~PurgeAt(p, "new"), ~PurgeAt(p, "done"),
         PurgeAtStep(purges[p].pc) = k,
         NEW pc \in PurgePlaces, NEW st \in {"ok", "skipped"},
         PurgeReport(p, pc, PurgeSteps[k], st),
         IF pc = "done" THEN k = 5 ELSE PurgeAtStep(pc) = k + 1,
         pc \in PurgeAiming => purges[p].pc \in PurgeAiming
  PROVE  PurgeOK'
<1>1. purges[p] \in PurgeRun /\ purges[p] # PurgeNotStarted
    BY PurgeShape DEF PurgeOK
<1>2. PurgeSteps[k] \in PurgeStepNames /\ st \in StepStatus /\ Len(PurgeSteps) = 5
    BY PurgeStepsFacts DEF StepStatus
<1>3. PICK q \in PurgeRun :
            /\ purges' = [purges EXCEPT ![p] = q]
            /\ q.pc = pc /\ q.status = [purges[p].status EXCEPT ![PurgeSteps[k]] = st]
            /\ q.name = purges[p].name /\ q.ref = purges[p].ref /\ q.ids = purges[p].ids
    BY <1>1, <1>2, PurgeReportMoves DEF PurgeOK
<1>4. Chain(PurgeSteps, purges[p].status, k) /\ PurgeAimed(purges[p])
    BY <1>1 DEF PurgeOK, PurgeInv, PurgeInChain, PurgeAt
<1>5. Chain(PurgeSteps, q.status, k + 1)
  <2>1. PurgeSteps[k] \in DOMAIN purges[p].status
      BY <1>1, <1>2, PurgeRunShape
  <2>2. \A i \in 1..Len(PurgeSteps) : PurgeSteps[i] = PurgeSteps[k] => i = k
      BY <1>2, PurgeStepsFacts
  <2>3. k \in 1..Len(PurgeSteps) /\ Len(PurgeSteps) \in Nat
      BY <1>2
  <2>4. Chain(PurgeSteps, [purges[p].status EXCEPT ![PurgeSteps[k]] = st], k + 1)
      BY <1>4, <2>1, <2>2, <2>3, Advance
  <2> QED
      BY <1>3, <2>4
<1>6. PurgeInChain(q)
  <2>1. CASE pc = "done"
      BY <1>2, <1>3, <1>5, <2>1, ChainInOrder DEF PurgeInChain
  <2>2. CASE pc # "done"
      BY <1>3, <1>5, <2>2 DEF PurgeInChain
  <2> QED
      BY <2>1, <2>2
<1>7. PurgeAimed(q)'
  <2>1. purges[p].ids \subseteq Containers
      BY <1>1, PurgeRunShape
  <2> QED
      BY <1>3, <1>4, <2>1, TargetsKept DEF PurgeAimed, HostStep
<1> QED
    BY <1>3, <1>6, <1>7, PurgeMoves

\* The step a purge is at fails, and the chain ends.
LEMMA PurgeAborted ==
  ASSUME PurgeOK, HostStep, NEW p \in Purges, NEW k \in 1..5, ~PurgeAt(p, "new"), ~PurgeAt(p, "done"),
         PurgeAtStep(purges[p].pc) = k, PurgeAbort(p, PurgeSteps[k])
  PROVE  PurgeOK'
<1>1. purges[p] \in PurgeRun /\ purges[p] # PurgeNotStarted
    BY PurgeShape DEF PurgeOK
<1>2. PurgeSteps[k] \in PurgeStepNames /\ Len(PurgeSteps) = 5
    BY PurgeStepsFacts
<1>3. PICK q \in PurgeRun :
            /\ purges' = [purges EXCEPT ![p] = q]
            /\ q.pc = "done" /\ q.status = [purges[p].status EXCEPT ![PurgeSteps[k]] = "failed"]
  <2>1. "done" \in PurgePlaces /\ "failed" \in StepStatus
      BY DEF PurgePlaces, StepStatus
  <2>2. PurgeReport(p, "done", PurgeSteps[k], "failed") /\ PurgeTypeOK
      BY DEF PurgeOK, PurgeAbort
  <2> QED
      BY <1>1, <1>2, <2>1, <2>2, PurgeReportMoves
<1>4. Chain(PurgeSteps, purges[p].status, k)
    BY <1>1 DEF PurgeOK, PurgeInv, PurgeInChain, PurgeAt
<1>5. InOrder(PurgeSteps, q.status)
  <2>1. PurgeSteps[k] \in DOMAIN purges[p].status
      BY <1>1, <1>2, PurgeRunShape
  <2>2. \A i \in 1..Len(PurgeSteps) : PurgeSteps[i] = PurgeSteps[k] => i = k
      BY <1>2, PurgeStepsFacts
  <2>3. k \in 1..Len(PurgeSteps) /\ Len(PurgeSteps) \in Nat
      BY <1>2
  <2>4. InOrder(PurgeSteps, [purges[p].status EXCEPT ![PurgeSteps[k]] = "failed"])
      BY <1>4, <2>1, <2>2, <2>3, Fail
  <2> QED
      BY <1>3, <2>4
<1>6. PurgeInChain(q) /\ PurgeAimed(q)'
    BY <1>3, <1>5 DEF PurgeInChain, PurgeAimed, PurgeAiming
<1> QED
    BY <1>3, <1>6, PurgeMoves

\* A purge goes on within a step, with other ids.
LEMMA PurgeShifted ==
  ASSUME PurgeOK, HostStep, NEW p \in Purges, ~PurgeAt(p, "new"), ~PurgeAt(p, "done"),
         NEW q \in PurgeRun, purges' = [purges EXCEPT ![p] = q],
         q.status = purges[p].status, q.pc # "done", PurgeAtStep(q.pc) = PurgeAtStep(purges[p].pc),
         PurgeAimed(q)'
  PROVE  PurgeOK'
<1>1. purges[p] # PurgeNotStarted
    BY PurgeShape DEF PurgeOK
<1>2. PurgeInChain(q)
    BY <1>1 DEF PurgeOK, PurgeInv, PurgeInChain, PurgeAt
<1> QED
    BY <1>2, PurgeMoves

\* The k-th step of a purge goes well, whatever its name.
LEMMA PurgeAdvance ==
  ASSUME NEW status \in [PurgeStepNames -> StepStatus], NEW st \in {"ok", "skipped"}
  PROVE  /\ Chain(PurgeSteps, status, 1) =>
                Chain(PurgeSteps, [status EXCEPT !["find_containers"] = st], 2)
         /\ Chain(PurgeSteps, status, 2) =>
                Chain(PurgeSteps, [status EXCEPT !["stop_containers"] = st], 3)
         /\ Chain(PurgeSteps, status, 3) =>
                Chain(PurgeSteps, [status EXCEPT !["remove_containers"] = st], 4)
<1>1. ASSUME NEW k \in 1..5, Chain(PurgeSteps, status, k)
      PROVE  Chain(PurgeSteps, [status EXCEPT ![PurgeSteps[k]] = st], k + 1)
  <2>1. /\ Len(PurgeSteps) \in Nat /\ k \in 1..Len(PurgeSteps)
        /\ PurgeSteps[k] \in DOMAIN status
        /\ \A i \in 1..Len(PurgeSteps) : PurgeSteps[i] = PurgeSteps[k] => i = k
      BY PurgeStepsFacts
  <2> QED
      BY <1>1, <2>1, Advance
<1>2. /\ PurgeSteps[1] = "find_containers" /\ PurgeSteps[2] = "stop_containers"
      /\ PurgeSteps[3] = "remove_containers" /\ 1 + 1 = 2 /\ 2 + 1 = 3 /\ 3 + 1 = 4
    BY PurgeStepsFacts
<1>3. Chain(PurgeSteps, status, 1) => Chain(PurgeSteps, [status EXCEPT !["find_containers"] = st], 2)
  <2>1. 1 \in 1..5
      OBVIOUS
  <2> QED
      BY <1>1, <1>2, <2>1
<1>4. Chain(PurgeSteps, status, 2) => Chain(PurgeSteps, [status EXCEPT !["stop_containers"] = st], 3)
  <2>1. 2 \in 1..5
      OBVIOUS
  <2> QED
      BY <1>1, <1>2, <2>1
<1>5. Chain(PurgeSteps, status, 3) => Chain(PurgeSteps, [status EXCEPT !["remove_containers"] = st], 4)
  <2>1. 3 \in 1..5
      OBVIOUS
  <2> QED
      BY <1>1, <1>2, <2>1
<1> QED
    BY <1>3, <1>4, <1>5

LEMMA PurgeProbeStep ==
  ASSUME HostTypeOK, PurgeOK, NEW p \in Purges, NEW n \in Names \cup {NoName}, NEW ref \in Refs,
         PurgeProbe(p, n, ref)
  PROVE  HostStep /\ RemovesNone /\ PurgeOK'
<1>1. undisturbed' \subseteq Jobs /\ faultless' \subseteq Jobs
    BY PurgesAreJobs DEF PurgeProbe, HostTypeOK
<1>2. HostStep /\ RemovesNone
    BY <1>1, QuietHost DEF PurgeProbe
<1>3. PICK pc \in {"ps_name", "ps_image", "done"} :
        purges' = [purges EXCEPT ![p] =
            [pc |-> pc, name |-> n, ref |-> ref, ids |-> {},
             status |-> [s \in PurgeStepNames |-> "not_run"]]]
    BY DEF PurgeProbe
<1> PICK q : q = [pc |-> pc, name |-> n, ref |-> ref, ids |-> {},
                  status |-> [s \in PurgeStepNames |-> "not_run"]]
    OBVIOUS
<1>4. q \in PurgeRun
    BY DEF PurgeRun
<1>5. q.pc = pc /\ \A i \in 1..Len(PurgeSteps) : q.status[PurgeSteps[i]] = "not_run"
    BY PurgeStepsFacts
<1>6. PurgeInChain(q)
  <2>1. PurgeAtStep("ps_name") = 1 /\ PurgeAtStep("ps_image") = 1
      BY DEF PurgeAtStep
  <2>2. CASE pc # "done"
      BY <1>5, <2>1, <2>2, PurgeStepsFacts DEF PurgeInChain, Chain
  <2>3. CASE pc = "done"
      BY <1>5, <2>3 DEF PurgeInChain, InOrder
  <2> QED
      BY <2>2, <2>3
<1>7. PurgeAimed(q)'
    BY DEF PurgeAimed
<1> QED
    BY <1>2, <1>3, <1>4, <1>6, <1>7, PurgeMoves

LEMMA PurgePsNameStep ==
  ASSUME HostTypeOK, PurgeOK, NEW p \in Purges, PurgePsName(p)
  PROVE  HostStep /\ RemovesNone /\ PurgeOK'
<1>1. HostStep /\ RemovesNone
    BY ObserversOK, QuietHost DEF PurgePsName
<1>2. purges[p].pc = "ps_name" /\ ~PurgeAt(p, "new") /\ ~PurgeAt(p, "done")
    BY DEF PurgePsName, PurgeAt
<1>3. purges[p] \in PurgeRun /\ purges[p] # PurgeNotStarted
    BY <1>2, PurgeShape DEF PurgeOK
<1>4. PICK ids \in {Named(purges[p].name), purges[p].ids} :
        purges' = [purges EXCEPT ![p] = [[purges[p] EXCEPT !.pc = "ps_image"] EXCEPT !.ids = ids]]
    BY <1>3 DEF PurgePsName, PurgeRun
<1> PICK q : q = [[purges[p] EXCEPT !.pc = "ps_image"] EXCEPT !.ids = ids]
    OBVIOUS
<1>5. ids \in SUBSET Containers
    BY <1>3, PurgeRunShape DEF Named
<1>6. /\ q \in PurgeRun /\ q.pc = "ps_image" /\ q.status = purges[p].status
      /\ q.ids = ids /\ q.name = purges[p].name /\ q.ref = purges[p].ref
    BY <1>3, <1>5 DEF PurgeRun
<1>7. \A c \in ids : Target(c, purges[p].name, purges[p].ref)
    BY <1>2, <1>3, FoundAreTargets DEF PurgeOK, PurgeInv, PurgeAimed, PurgeAiming
<1>8. PurgeAimed(q)'
    BY <1>6, <1>7, TargetsStay DEF PurgeAimed, PurgePsName, hostVars
<1>9. PurgeAtStep(q.pc) = PurgeAtStep(purges[p].pc) /\ q.pc # "done"
    BY <1>2, <1>6 DEF PurgeAtStep
<1> QED
    BY <1>1, <1>2, <1>4, <1>6, <1>8, <1>9, PurgeShifted

\* With nothing found three steps are skipped at once.
LEMMA PurgePsImageStep ==
  ASSUME HostTypeOK, PurgeOK, NEW p \in Purges, PurgePsImage(p)
  PROVE  HostStep /\ RemovesNone /\ PurgeOK'
<1>1. HostStep /\ RemovesNone
    BY ObserversOK, QuietHost DEF PurgePsImage
<1>2. purges[p].pc = "ps_image" /\ ~PurgeAt(p, "new") /\ ~PurgeAt(p, "done")
    BY DEF PurgePsImage, PurgeAt
<1>3. purges[p] \in PurgeRun /\ purges[p] # PurgeNotStarted
    BY <1>2, PurgeShape DEF PurgeOK
<1> PICK run \in PurgeRun : run = purges[p]
    BY <1>3
<1>4. PICK ids \in {run.ids \cup OfImage(run.ref), run.ids} :
        IF ids = {}
        THEN purges' = [purges EXCEPT ![p].pc = "inspect",
                                      ![p].status["find_containers"] = "skipped",
                                      ![p].status["stop_containers"] = "skipped",
                                      ![p].status["remove_containers"] = "skipped"]
        ELSE purges' = [purges EXCEPT ![p].pc = "stop", ![p].ids = ids,
                                      ![p].status["find_containers"] = "ok"]
    BY <1>3 DEF PurgePsImage
<1>5. ids \in SUBSET Containers /\ \A c \in ids : Target(c, run.name, run.ref)
    BY <1>2, <1>3, FoundAreTargets, PurgeRunShape DEF PurgeOK, PurgeInv, PurgeAimed, PurgeAiming, OfImage
<1>6. run.status \in [PurgeStepNames -> StepStatus] /\ DOMAIN purges = Purges
    BY PurgeRunShape DEF PurgeOK, PurgeTypeOK
<1>7. Chain(PurgeSteps, run.status, 1)
    BY <1>2, <1>3 DEF PurgeOK, PurgeInv, PurgeInChain, PurgeAtStep
<1>8. CASE ids # {}
  <2> PICK one : one = [run.status EXCEPT !["find_containers"] = "ok"]
      OBVIOUS
  <2> PICK at : at = [[run EXCEPT !.pc = "stop"] EXCEPT !.ids = ids]
      OBVIOUS
  <2> PICK q : q = [at EXCEPT !.status = one]
      OBVIOUS
  <2>1. at.status = run.status
      BY DEF PurgeRun
  <2>2. purges' = [purges EXCEPT ![p] = q]
    <3> PICK f : f = [purges EXCEPT ![p].pc = "stop", ![p].ids = ids]
        OBVIOUS
    <3>1. f = [purges EXCEPT ![p] = at]
        BY <1>6
    <3>2. purges' = [f EXCEPT ![p].status["find_containers"] = "ok"]
        BY <1>4, <1>8
    <3> QED
        BY <1>6, <2>1, <3>1, <3>2
  <2>3. one \in [PurgeStepNames -> StepStatus]
      BY <1>6 DEF StepStatus
  <2>4. /\ q \in PurgeRun /\ q.pc = "stop" /\ q.status = one
        /\ q.ids = ids /\ q.name = run.name /\ q.ref = run.ref
      BY <1>5, <2>3 DEF PurgeRun, StepStatus
  <2>5. Chain(PurgeSteps, one, 2)
      BY <1>6, <1>7, PurgeAdvance
  <2>6. PurgeInChain(q)
      BY <2>4, <2>5 DEF PurgeInChain, PurgeAtStep
  <2>7. PurgeAimed(q)'
      BY <1>5, <2>4, TargetsStay DEF PurgeAimed, PurgePsImage, hostVars
  <2> QED
      BY <1>1, <2>2, <2>4, <2>6, <2>7, PurgeMoves
<1>9. CASE ids = {}
  <2> PICK one : one = [run.status EXCEPT !["find_containers"] = "skipped"]
      OBVIOUS
  <2> PICK two : two = [one EXCEPT !["stop_containers"] = "skipped"]
      OBVIOUS
  <2> PICK three : three = [two EXCEPT !["remove_containers"] = "skipped"]
      OBVIOUS
  <2> PICK q0 : q0 = [run EXCEPT !.pc = "inspect"]
      OBVIOUS
  <2> PICK q1 : q1 = [q0 EXCEPT !.status = one]
      OBVIOUS
  <2> PICK q2 : q2 = [q1 EXCEPT !.status = two]
      OBVIOUS
  <2> PICK q : q = [q2 EXCEPT !.status = three]
      OBVIOUS
  <2>1. q0.status = run.status /\ q1.status = one /\ q2.status = two
      BY DEF PurgeRun
  <2>2. purges' = [purges EXCEPT ![p] = q]
    <3> PICK f0 : f0 = [purges EXCEPT ![p].pc = "inspect"]
        OBVIOUS
    <3> PICK f1 : f1 = [f0 EXCEPT ![p].status["find_containers"] = "skipped"]
        OBVIOUS
    <3> PICK f2 : f2 = [f1 EXCEPT ![p].status["stop_containers"] = "skipped"]
        OBVIOUS
    <3>1. f0 = [purges EXCEPT ![p] = q0]
        BY <1>6
    <3>2. f1 = [purges EXCEPT ![p] = q1]
        BY <1>6, <2>1, <3>1
    <3>3. f2 = [purges EXCEPT ![p] = q2]
        BY <1>6, <2>1, <3>2
    <3> PICK f3 : f3 = [f2 EXCEPT ![p].status["remove_containers"] = "skipped"]
        OBVIOUS
    <3>4. f3 = [purges EXCEPT ![p] = q]
      <4>1. f2[p] = q2 /\ f2[p].status = two
          BY <1>6, <2>1, <3>3
      <4>2. f3 = [f2 EXCEPT ![p] = q]
          BY <4>1
      <4> QED
          BY <3>3, <4>2
    <3>5. purges' = f3
        BY <1>4, <1>9
    <3> QED
        BY <3>4, <3>5
  <2>3. /\ one \in [PurgeStepNames -> StepStatus] /\ two \in [PurgeStepNames -> StepStatus]
        /\ three \in [PurgeStepNames -> StepStatus]
      BY <1>6 DEF StepStatus
  <2>4. q \in PurgeRun /\ q.pc = "inspect" /\ q.status = three
      BY <2>3 DEF PurgeRun, StepStatus
  <2>5. Chain(PurgeSteps, one, 2)
      BY <1>6, <1>7, PurgeAdvance
  <2>6. Chain(PurgeSteps, two, 3)
      BY <2>3, <2>5, PurgeAdvance
  <2>7. Chain(PurgeSteps, three, 4)
      BY <2>3, <2>6, PurgeAdvance
  <2>8. PurgeInChain(q) /\ PurgeAimed(q)'
      BY <2>4, <2>7 DEF PurgeInChain, PurgeAtStep, PurgeAimed, PurgeAiming
  <2> QED
      BY <1>1, <2>2, <2>4, <2>8, PurgeMoves
<1> QED
    BY <1>8, <1>9

LEMMA PurgeStopStep ==
  ASSUME HostTypeOK, PurgeOK, NEW p \in Purges, PurgeStop(p)
  PROVE  HostStep /\ RemovesNone /\ PurgeOK'
<1>1. HostStep /\ RemovesNone
  <2>1. PICK S : containers' = Stopped(S)
      BY DEF PurgeStop
  <2>2. undisturbed' \subseteq Jobs /\ faultless' \subseteq Jobs
      BY ObserversOK DEF PurgeStop
  <2> QED
      BY <2>1, <2>2, StoppedHost DEF PurgeStop
<1>2. /\ purges[p].pc = "stop" /\ ~PurgeAt(p, "new") /\ ~PurgeAt(p, "done")
      /\ PurgeAtStep("stop") = 2 /\ PurgeAtStep("rm") = 3 /\ "rm" \in PurgePlaces
      /\ PurgeSteps[2] = "stop_containers" /\ "stop" \in PurgeAiming
    BY PurgeStepsFacts DEF PurgeStop, PurgeAt, PurgeAtStep, PurgePlaces, PurgeAiming
<1>3. CASE PurgeReport(p, "rm", "stop_containers", "ok")
    BY <1>1, <1>2, <1>3, PurgeReported
<1>4. CASE PurgeAbort(p, "stop_containers")
    BY <1>1, <1>2, <1>4, PurgeAborted
<1> QED
    BY <1>1, <1>3, <1>4 DEF PurgeStop

LEMMA PurgeRemoveContainersStep ==
  ASSUME HostTypeOK, PurgeOK, NEW p \in Purges, PurgeRemoveContainers(p)
  PROVE  /\ HostStep /\ PurgeOK'
         /\ RemovesOnly(purges[p].name, purges[p].ref) /\ purges'[p] # purges[p]
<1>2. /\ purges[p].pc = "rm" /\ ~PurgeAt(p, "new") /\ ~PurgeAt(p, "done")
      /\ PurgeAtStep("rm") = 3 /\ PurgeAtStep("inspect") = 4 /\ "inspect" \in PurgePlaces
      /\ PurgeSteps[3] = "remove_containers"
      /\ "rm" \in PurgeAiming /\ "inspect" \notin PurgeAiming
    BY PurgeStepsFacts DEF PurgeRemoveContainers, PurgeAt, PurgeAtStep, PurgePlaces, PurgeAiming
<1>3. /\ purges[p] \in PurgeRun /\ purges[p] # PurgeNotStarted
      /\ \A c \in purges[p].ids : Target(c, purges[p].name, purges[p].ref)
    BY <1>2, PurgeShape DEF PurgeOK, PurgeInv, PurgeAimed
<1>4. PICK S \in SUBSET purges[p].ids : containers' = Removed(S)
    BY DEF PurgeRemoveContainers
<1>5. undisturbed' \subseteq Jobs /\ faultless' \subseteq Jobs
    BY ObserversOK DEF PurgeRemoveContainers
<1>6. \A c \in Containers \cap S : containers[c] # NoContainer
    BY <1>3, <1>4 DEF Target
<1>7. UNCHANGED images
    BY DEF PurgeRemoveContainers
<1>8. /\ HostStep
      /\ \A c \in Containers : Exists(c) /\ containers'[c] = RemovedContainer => c \in S
    BY <1>4, <1>5, <1>6, <1>7, RemovedHost
<1>9. RemovesOnly(purges[p].name, purges[p].ref)
    BY <1>3, <1>4, <1>8 DEF RemovesOnly, Target
<1>10. CASE PurgeReport(p, "inspect", "remove_containers", "ok")
  <2>1. PurgeOK'
      BY <1>2, <1>8, <1>10, PurgeReported
  <2>2. purges'[p].pc = "inspect"
      BY <1>3, <1>10 DEF PurgeReport, PurgeOK, PurgeTypeOK, PurgeRun
  <2> QED
      BY <1>2, <1>8, <1>9, <2>1, <2>2
<1>11. CASE PurgeAbort(p, "remove_containers")
  <2>1. PurgeOK'
      BY <1>2, <1>8, <1>11, PurgeAborted
  <2>2. purges'[p].pc = "done"
      BY <1>3, <1>11 DEF PurgeReport, PurgeAbort, PurgeOK, PurgeTypeOK, PurgeRun
  <2> QED
      BY <1>2, <1>8, <1>9, <2>1, <2>2
<1> QED
    BY <1>10, <1>11 DEF PurgeRemoveContainers

\* A step that only moves a purge on, past the steps that use its ids.
LEMMA PurgePassed ==
  ASSUME PurgeOK, HostStep, NEW p \in Purges, ~PurgeAt(p, "new"), ~PurgeAt(p, "done"),
         NEW pc \in PurgePlaces, pc # "done", pc \notin PurgeAiming,
         PurgeAtStep(pc) = PurgeAtStep(purges[p].pc), NEW ids \in SUBSET Containers,
         purges' = [purges EXCEPT ![p].pc = pc, ![p].ids = ids]
  PROVE  PurgeOK'
<1>1. purges[p] \in PurgeRun
    BY PurgeShape DEF PurgeOK
<1> PICK q : q = [[purges[p] EXCEPT !.pc = pc] EXCEPT !.ids = ids]
    OBVIOUS
<1>2. q \in PurgeRun /\ q.pc = pc /\ q.status = purges[p].status
    BY <1>1 DEF PurgeRun, PurgePlaces
<1>3. purges' = [purges EXCEPT ![p] = q]
    BY DEF PurgeOK, PurgeTypeOK
<1>4. PurgeAimed(q)'
    BY <1>2 DEF PurgeAimed
<1> QED
    BY <1>2, <1>3, <1>4, PurgeShifted

\* The same, with the ids as they are.
LEMMA PurgePassedOn ==
  ASSUME PurgeOK, HostStep, NEW p \in Purges, ~PurgeAt(p, "new"), ~PurgeAt(p, "done"),
         NEW pc \in PurgePlaces, pc # "done", pc \notin PurgeAiming,
         PurgeAtStep(pc) = PurgeAtStep(purges[p].pc),
         purges' = [purges EXCEPT ![p].pc = pc]
  PROVE  PurgeOK'
<1>1. purges[p] \in PurgeRun
    BY PurgeShape DEF PurgeOK
<1> PICK q : q = [purges[p] EXCEPT !.pc = pc]
    OBVIOUS
<1>2. q \in PurgeRun /\ q.pc = pc /\ q.status = purges[p].status
    BY <1>1 DEF PurgeRun, PurgePlaces
<1>3. purges' = [purges EXCEPT ![p] = q]
    OBVIOUS
<1>4. PurgeAimed(q)'
    BY <1>2 DEF PurgeAimed
<1> QED
    BY <1>2, <1>3, <1>4, PurgeShifted

LEMMA PurgeInspectImageStep ==
  ASSUME HostTypeOK, PurgeOK, NEW p \in Purges, PurgeInspectImage(p)
  PROVE  HostStep /\ RemovesNone /\ PurgeOK'
<1>1. HostStep /\ RemovesNone
    BY ObserversOK, QuietHost DEF PurgeInspectImage
<1>2. /\ purges[p].pc = "inspect" /\ ~PurgeAt(p, "new") /\ ~PurgeAt(p, "done")
      /\ PurgeAtStep("inspect") = 4 /\ PurgeAtStep("rmi") = 4 /\ PurgeAtStep("verify_name") = 5
      /\ "verify_name" \in PurgePlaces /\ "rmi" \in PurgePlaces /\ PurgeSteps[4] = "remove_image"
      /\ "verify_name" \notin PurgeAiming /\ "rmi" \notin PurgeAiming
    BY PurgeStepsFacts DEF PurgeInspectImage, PurgeAt, PurgeAtStep, PurgePlaces, PurgeAiming
<1>3. CASE PurgeReport(p, "verify_name", "remove_image", "skipped")
    BY <1>1, <1>2, <1>3, PurgeReported
<1>4. CASE purges' = [purges EXCEPT ![p].pc = "rmi"]
    BY <1>1, <1>2, <1>4, PurgePassedOn
<1> QED
    BY <1>1, <1>3, <1>4 DEF PurgeInspectImage

LEMMA PurgeRemoveImageStep ==
  ASSUME HostTypeOK, PurgeOK, NEW p \in Purges, PurgeRemoveImage(p)
  PROVE  HostStep /\ RemovesNone /\ PurgeOK'
<1>1. HostStep /\ RemovesNone
  <2>1. undisturbed' \subseteq Jobs /\ faultless' \subseteq Jobs
      BY ObserversOK DEF PurgeRemoveImage
  <2>2. UNCHANGED containers /\ images' \subseteq Refs
      BY DEF PurgeRemoveImage, HostTypeOK
  <2> QED
      BY <2>1, <2>2, ImagesHost
<1>2. /\ purges[p].pc = "rmi" /\ ~PurgeAt(p, "new") /\ ~PurgeAt(p, "done")
      /\ PurgeAtStep("rmi") = 4 /\ PurgeAtStep("verify_name") = 5
      /\ "verify_name" \in PurgePlaces /\ PurgeSteps[4] = "remove_image"
      /\ "verify_name" \notin PurgeAiming
    BY PurgeStepsFacts DEF PurgeRemoveImage, PurgeAt, PurgeAtStep, PurgePlaces, PurgeAiming
<1>3. CASE PurgeReport(p, "verify_name", "remove_image", "ok")
    BY <1>1, <1>2, <1>3, PurgeReported
<1>4. CASE PurgeAbort(p, "remove_image")
    BY <1>1, <1>2, <1>4, PurgeAborted
<1> QED
    BY <1>1, <1>3, <1>4 DEF PurgeRemoveImage

LEMMA VerifyNameStep ==
  ASSUME HostTypeOK, PurgeOK, NEW p \in Purges, VerifyName(p)
  PROVE  HostStep /\ RemovesNone /\ PurgeOK'
<1>1. HostStep /\ RemovesNone
    BY ObserversOK, QuietHost DEF VerifyName
<1>2. /\ purges[p].pc = "verify_name" /\ ~PurgeAt(p, "new") /\ ~PurgeAt(p, "done")
      /\ PurgeAtStep("verify_name") = 5 /\ PurgeAtStep("verify_image") = 5
      /\ "verify_image" \in PurgePlaces /\ "verify_image" \notin PurgeAiming
    BY DEF VerifyName, PurgeAt, PurgeAtStep, PurgePlaces, PurgeAiming
<1>3. PICK ids \in SUBSET Containers :
        purges' = [purges EXCEPT ![p].pc = "verify_image", ![p].ids = ids]
    BY DEF VerifyName, Named
<1> QED
    BY <1>1, <1>2, <1>3, PurgePassed

LEMMA VerifyImageStep ==
  ASSUME HostTypeOK, PurgeOK, NEW p \in Purges, VerifyImage(p)
  PROVE  HostStep /\ RemovesNone /\ PurgeOK'
<1>1. HostStep /\ RemovesNone
    BY ObserversOK, QuietHost DEF VerifyImage
<1>2. /\ purges[p].pc = "verify_image" /\ ~PurgeAt(p, "new") /\ ~PurgeAt(p, "done")
      /\ PurgeAtStep("verify_image") = 5 /\ PurgeAtStep("verify_inspect") = 5
      /\ "verify_inspect" \in PurgePlaces /\ "verify_inspect" \notin PurgeAiming
      /\ PurgeSteps[5] = "verify_purged"
    BY PurgeStepsFacts DEF VerifyImage, PurgeAt, PurgeAtStep, PurgePlaces, PurgeAiming
<1>3. CASE purges' = [purges EXCEPT ![p].pc = "verify_inspect"]
    BY <1>1, <1>2, <1>3, PurgePassedOn
<1>4. CASE PurgeAbort(p, "verify_purged")
    BY <1>1, <1>2, <1>4, PurgeAborted
<1> QED
    BY <1>1, <1>3, <1>4 DEF VerifyImage

LEMMA VerifyInspectStep ==
  ASSUME HostTypeOK, PurgeOK, NEW p \in Purges, VerifyInspect(p)
  PROVE  HostStep /\ RemovesNone /\ PurgeOK'
<1>1. HostStep /\ RemovesNone
    BY ObserversOK, QuietHost DEF VerifyInspect
<1>2. /\ purges[p].pc = "verify_inspect" /\ ~PurgeAt(p, "new") /\ ~PurgeAt(p, "done")
      /\ PurgeAtStep("verify_inspect") = 5 /\ "done" \in PurgePlaces
      /\ PurgeSteps[5] = "verify_purged" /\ "done" \notin PurgeAiming
    BY PurgeStepsFacts DEF VerifyInspect, PurgeAt, PurgeAtStep, PurgePlaces, PurgeAiming
<1>3. CASE PurgeReport(p, "done", "verify_purged", "ok")
    BY <1>1, <1>2, <1>3, PurgeReported
<1>4. CASE PurgeAbort(p, "verify_purged")
    BY <1>1, <1>2, <1>4, PurgeAborted
<1> QED
    BY <1>1, <1>3, <1>4 DEF VerifyInspect

PurgeRemovals ==
    \A c \in Containers : Exists(c) /\ containers'[c] = RemovedContainer =>
        \E p \in Purges : /\ purges'[p] # purges[p]
                          /\ \/ containers[c].name = purges[p].name
                             \/ containers[c].image = purges[p].ref

LEMMA PurgeStepOK ==
  ASSUME HostTypeOK, PurgeOK, NEW p \in Purges, PurgeStep(p)
  PROVE  HostStep /\ PurgeOK' /\ PurgeRemovals
<1>1. CASE PurgeRemoveContainers(p)
    BY <1>1, PurgeRemoveContainersStep DEF PurgeRemovals, RemovesOnly
<1>2. CASE ~PurgeRemoveContainers(p)
  <2>1. HostStep /\ PurgeOK' /\ RemovesNone
      BY <1>2, PurgeProbeStep, PurgePsNameStep, PurgePsImageStep, PurgeStopStep,
         PurgeInspectImageStep, PurgeRemoveImageStep, VerifyNameStep, VerifyImageStep,
         VerifyInspectStep DEF PurgeStep
  <2> QED
      BY <2>1 DEF PurgeRemovals, RemovesNone
<1> QED
    BY <1>1, <1>2
-----------------------------------------------------------------------------
(* The specification. *)

IInv == HostTypeOK /\ DeployOK /\ PurgeOK

\* A container goes only as the target of a job that takes a step.
OthersKept ==
    \A c \in Containers : Exists(c) /\ containers'[c] = RemovedContainer =>
        \/ \E d \in Deploys : /\ deploys'[d] # deploys[d]
                              /\ \/ containers[c].name = deploys[d].name
                                 \/ containers[c].image = deploys[d].ref
        \/ \E p \in Purges : /\ purges'[p] # purges[p]
                             /\ \/ containers[c].name = purges[p].name
                                \/ containers[c].image = purges[p].ref

LEMMA Initially == Init => IInv
<1> SUFFICES ASSUME Init PROVE IInv
    OBVIOUS
<1>1. HostTypeOK
  <2>1. CASE containers = [c \in Containers |-> NoContainer]
      BY <2>1 DEF Init, HostInit, HostTypeOK
  <2>2. CASE \E c \in Containers, row \in ContainerRow :
                containers = [[x \in Containers |-> NoContainer] EXCEPT ![c] = row]
      BY <2>2 DEF Init, HostInit, HostTypeOK
  <2> QED
      BY <2>1, <2>2 DEF Init, HostInit
<1>2. DeployOK
    BY DEF Init, DeployInit, DeployOK, DeployTypeOK, DeployInv
<1>3. PurgeOK
    BY DEF Init, PurgeInit, PurgeOK, PurgeTypeOK, PurgeInv
<1> QED
    BY <1>1, <1>2, <1>3 DEF IInv

LEMMA Inductive ==
  ASSUME IInv, [Next]_hostJobsVars
  PROVE  IInv' /\ OthersKept
<1> USE DEF IInv
<1>1. ASSUME NEW d \in Deploys, DeployStep(d), UNCHANGED purges
      PROVE  IInv' /\ OthersKept
    BY <1>1, DeployStepOK, PurgesKept DEF OthersKept, DeployRemovals, HostStep
<1>2. ASSUME NEW p \in Purges, PurgeStep(p), UNCHANGED deploys
      PROVE  IInv' /\ OthersKept
    BY <1>2, PurgeStepOK, DeploysKept DEF OthersKept, PurgeRemovals, HostStep
<1>3. ASSUME NEW c \in Containers, Crash(c), UNCHANGED <<deploys, purges>>
      PROVE  IInv' /\ OthersKept
  <2>1. HostStep /\ RemovesNone
      BY <1>3, StoppedHost DEF Crash, HostTypeOK
  <2> QED
      BY <1>3, <2>1, DeploysKept, PurgesKept DEF OthersKept, RemovesNone, HostStep
<1>4. ASSUME UNCHANGED hostJobsVars
      PROVE  IInv' /\ OthersKept
  <2>1. HostStep /\ RemovesNone
      BY <1>4, QuietHost DEF hostJobsVars, hostVars, HostTypeOK
  <2> QED
      BY <1>4, <2>1, DeploysKept, PurgesKept DEF OthersKept, RemovesNone, HostStep, hostJobsVars
<1> QED
    BY <1>1, <1>2, <1>3, <1>4 DEF Next

LEMMA OrderImplied ==
  ASSUME IInv
  PROVE  TypeOK /\ StrictlySequential
<1>1. TypeOK
    BY DEF IInv, TypeOK, DeployOK, PurgeOK
<1>2. ASSUME NEW d \in Deploys, deploys[d] # NotStarted
      PROVE  InOrder(DeploySteps, deploys[d].status)
  <2>1. InChain(deploys[d]) /\ Step(deploys[d].pc) \in Nat
      BY <1>2 DEF IInv, DeployOK, DeployInv, Step
  <2> QED
      BY <2>1, DeployStepsFacts, ChainInOrder DEF InChain
<1>3. ASSUME NEW p \in Purges, purges[p] # PurgeNotStarted
      PROVE  InOrder(PurgeSteps, purges[p].status)
  <2>1. PurgeInChain(purges[p]) /\ PurgeAtStep(purges[p].pc) \in Nat
      BY <1>3 DEF IInv, PurgeOK, PurgeInv, PurgeAtStep
  <2> QED
      BY <2>1, PurgeStepsFacts, ChainInOrder DEF PurgeInChain
<1> QED
    BY <1>1, <1>2, <1>3 DEF StrictlySequential

LEMMA Invariance == Spec => []IInv
  BY Initially, Inductive, PTL DEF Spec

\* The host, and the report of every deploy and purge, are well-formed.
THEOREM TypeCorrect == Spec => []TypeOK
  BY Invariance, OrderImplied, PTL

\* Whatever fails and whoever else is at work on the host, no report shows a
\* step after one that failed or was not run (markRemainingNotRun, both
\* runners).
THEOREM Sequential == Spec => []StrictlySequential
  BY Invariance, OrderImplied, PTL

\* The ids a job collected may be stale when it uses them; still it removes
\* no container but those of its name or of its image.
THEOREM OthersSafe == Spec => OnlyTargetsRemoved
<1>1. ASSUME IInv, [Next]_hostJobsVars
      PROVE  [OthersKept]_hostJobsVars
    BY <1>1, Inductive
<1> QED
    BY <1>1, Invariance, PTL DEF Spec, OnlyTargetsRemoved, OthersKept
-----------------------------------------------------------------------------
(* What a reported success is worth. *)

\* The container of a run has its name to itself, and runs.
Standing(run) ==
    Named(run.name) = {run.cid} /\ containers[run.cid].state = "running"

\* From the start of its container to its end a deploy that nobody disturbs
\* finds what it has started.
RealInv ==
    \A d \in Deploys \cap undisturbed :
        deploys[d].pc = "verify" \/ Succeeded(deploys[d]) => Standing(deploys[d])

LEMMA StandingStays ==
  ASSUME UNCHANGED hostVars, NEW run, Standing(run)
  PROVE  Standing(run)'
  BY DEF Standing, Named, Exists, hostVars

\* Only the job that takes the step can change the host undisturbed.
LEMMA Undisturbed ==
  ASSUME NEW j, Delivered(j) \/ Faulted(j), NEW d \in undisturbed'
  PROVE  d \in undisturbed /\ (d # j => UNCHANGED hostVars)
  BY DEF Delivered, Faulted, Disturbs

\* A step of one job leaves the others where they are, and tells them if it
\* changes the host.
LEMMA OneMoves ==
  ASSUME DeployTypeOK, NEW e \in Deploys, DeployStep(e), NEW d \in Deploys, d # e
  PROVE  /\ deploys'[d] = deploys[d]
         /\ d \in undisturbed' => d \in undisturbed /\ UNCHANGED hostVars
<1>1. ASSUME NEW n \in Names, NEW ref \in Refs, DeployProbe(e, n, ref)
      PROVE  /\ deploys'[d] = deploys[d]
             /\ d \in undisturbed' => d \in undisturbed /\ UNCHANGED hostVars
    BY <1>1 DEF DeployProbe, DeployTypeOK
<1>2. CASE \A n \in Names, ref \in Refs : ~DeployProbe(e, n, ref)
  <2>1. Delivered(e) \/ Faulted(e)
      BY <1>2 DEF DeployStep, Login, PsName, PsImage, Stop, RemoveContainers, InspectImage,
                  RemoveImage, Pull, Run, Verify
  <2>2. deploys'[d] = deploys[d]
      BY <1>2 DEF DeployTypeOK, DeployStep, Login, PsName, PsImage, Stop, RemoveContainers,
                  InspectImage, RemoveImage, Pull, Run, Verify, Report, Abort
  <2> QED
      BY <2>1, <2>2, Undisturbed
<1> QED
    BY <1>1, <1>2

\* A step that fails leaves no success behind.
LEMMA AbortedFails ==
  ASSUME DeployTypeOK, NEW d \in Deploys, deploys[d] \in DeployRun,
         NEW step \in DeployStepNames, Abort(d, step)
  PROVE  deploys'[d].pc = "done" /\ ~Succeeded(deploys[d])'
<1>1. "done" \in DeployPlaces /\ "failed" \in StepStatus
    BY DEF DeployPlaces, StepStatus
<1>2. PICK q \in DeployRun :
            /\ deploys' = [deploys EXCEPT ![d] = q]
            /\ q.pc = "done" /\ q.status = [deploys[d].status EXCEPT ![step] = "failed"]
    BY <1>1, ReportMoves DEF Abort
<1>3. deploys'[d] = q
    BY <1>2 DEF DeployTypeOK
<1>4. step \in DOMAIN deploys[d].status
    BY RunShape
<1>5. q.status[step] = "failed" /\ step \in DOMAIN q.status
    BY <1>2, <1>4
<1>6. ~AllOK(q.status)
    BY <1>5 DEF AllOK
<1> QED
    BY <1>2, <1>3, <1>6 DEF Succeeded

\* Where the steps before the last two lead.
LEMMA BeforeVerify ==
  ASSUME DeployTypeOK, NEW d \in Deploys, DeployStep(d), ~Run(d), ~Verify(d)
  PROVE  deploys'[d].pc # "verify" /\ ~Succeeded(deploys[d])'
<1>1. ASSUME NEW n \in Names, NEW ref \in Refs, DeployProbe(d, n, ref)
      PROVE  deploys'[d].pc # "verify" /\ ~Succeeded(deploys[d])'
  <2>1. PICK pc \in {"login", "done"} :
          deploys' = [deploys EXCEPT ![d] =
              [pc |-> pc, name |-> n, ref |-> ref, ids |-> {}, cid |-> NoId,
               status |-> [s \in DeployStepNames |-> "not_run"]]]
      BY <1>1 DEF DeployProbe
  <2> PICK q : q = [pc |-> pc, name |-> n, ref |-> ref, ids |-> {}, cid |-> NoId,
                    status |-> [s \in DeployStepNames |-> "not_run"]]
      OBVIOUS
  <2>2. q.pc = pc /\ q.status = [s \in DeployStepNames |-> "not_run"]
      OBVIOUS
  <2>3. deploys'[d] = q
      BY <2>1 DEF DeployTypeOK
  <2>4. q.status["registry_login"] = "not_run" /\ "registry_login" \in DOMAIN q.status
    <3>1. 1 \in 1..7
        OBVIOUS
    <3>2. "registry_login" \in DeployStepNames
        BY <3>1, DeployStepsFacts
    <3> QED
        BY <2>2, <3>2
  <2>5. ~AllOK(q.status)
      BY <2>4 DEF AllOK
  <2> QED
      BY <2>2, <2>3, <2>5 DEF Succeeded
<1>2. ASSUME \A n \in Names, ref \in Refs : ~DeployProbe(d, n, ref)
      PROVE  deploys'[d].pc # "verify" /\ ~Succeeded(deploys[d])'
  <2>1. ~At(d, "new")
      BY <1>2 DEF DeployStep, Login, PsName, PsImage, Stop, RemoveContainers, InspectImage,
                  RemoveImage, Pull, Run, Verify, At
  <2>2. deploys[d] \in DeployRun
      BY <2>1, DeployShape
  <2>3. CASE \E step \in DeployStepNames : Abort(d, step)
      BY <2>2, <2>3, AbortedFails
  <2>4. CASE deploys'[d].pc \in {"ps_name", "ps_image", "stop", "rm", "inspect", "rmi", "pull", "run"}
      BY <2>4 DEF Succeeded
  <2>5. \/ \E step \in DeployStepNames : Abort(d, step)
        \/ deploys'[d].pc \in {"ps_name", "ps_image", "stop", "rm", "inspect", "rmi", "pull", "run"}
    <3>1. /\ "registry_login" \in DeployStepNames /\ "stop_existing" \in DeployStepNames
          /\ "remove_existing" \in DeployStepNames /\ "pull_image" \in DeployStepNames
        BY DeployStepsFacts
    <3>2. CASE Login(d)
        BY <2>2, <3>1, <3>2 DEF Login, Report, DeployTypeOK, DeployRun
    <3>3. CASE PsName(d)
        BY <2>2, <3>1, <3>3 DEF PsName, DeployTypeOK, DeployRun
    <3>4. CASE PsImage(d)
        BY <2>2, <3>1, <3>4 DEF PsImage, DeployTypeOK, DeployRun
    <3>5. CASE Stop(d)
        BY <2>2, <3>1, <3>5 DEF Stop, Report, DeployTypeOK, DeployRun
    <3>6. CASE RemoveContainers(d)
        BY <2>2, <3>1, <3>6 DEF RemoveContainers, Report, DeployTypeOK, DeployRun
    <3>7. CASE InspectImage(d)
        BY <2>2, <3>7 DEF InspectImage, Report, DeployTypeOK, DeployRun
    <3>8. CASE RemoveImage(d)
        BY <2>2, <3>8 DEF RemoveImage, Report, DeployTypeOK, DeployRun
    <3>9. CASE Pull(d)
        BY <2>2, <3>1, <3>9 DEF Pull, Report, DeployTypeOK, DeployRun
    <3> QED
        BY <1>2, <3>2, <3>3, <3>4, <3>5, <3>6, <3>7, <3>8, <3>9 DEF DeployStep
  <2> QED
      BY <2>3, <2>4, <2>5
<1> QED
    BY <1>1, <1>2

\* The container a run starts is the first of its name.
LEMMA RunStands ==
  ASSUME HostTypeOK, DeployTypeOK, NEW d \in Deploys, Run(d),
         deploys'[d].pc = "verify" \/ Succeeded(deploys[d])'
  PROVE  Standing(deploys[d])'
<1>1. ~At(d, "new") /\ "run_container" \in DeployStepNames
  <2>1. ~At(d, "new")
      BY DEF Run, At
  <2>2. 6 \in 1..7
      OBVIOUS
  <2> QED
      BY <2>1, <2>2, DeployStepsFacts
<1>2. deploys[d] \in DeployRun
    BY <1>1, DeployShape
<1>3. ~Abort(d, "run_container")
    BY <1>1, <1>2, AbortedFails
<1> PICK run \in DeployRun : run = deploys[d]
    BY <1>2
<1>4. PICK c \in Containers :
            /\ Named(run.name) = {} /\ containers' = Created(c, "running", run.name, run.ref)
            /\ deploys' = [deploys EXCEPT ![d].pc = "verify", ![d].cid = c,
                                          ![d].status["run_container"] = "ok"]
    BY <1>3 DEF Run
<1>5. deploys'[d].name = run.name /\ deploys'[d].cid = c
    BY <1>4 DEF DeployTypeOK, DeployRun
<1>6. /\ containers'[c].state = "running" /\ containers'[c].name = run.name
      /\ \A x \in Containers : x # c => containers'[x] = containers[x]
    BY <1>4 DEF Created, HostTypeOK
<1>7. Named(run.name)' = {c}
    BY <1>4, <1>6 DEF Named, Exists
<1> QED
    BY <1>5, <1>6, <1>7 DEF Standing

LEMMA DeployStepReal ==
  ASSUME HostTypeOK, DeployOK, RealInv, NEW e \in Deploys, DeployStep(e)
  PROVE  RealInv'
<1> SUFFICES ASSUME NEW d \in Deploys, d \in undisturbed',
                    deploys'[d].pc = "verify" \/ Succeeded(deploys[d])'
             PROVE  Standing(deploys[d])'
    BY DEF RealInv
<1>1. CASE d # e
  <2>1. deploys'[d] = deploys[d] /\ d \in undisturbed /\ UNCHANGED hostVars
      BY <1>1, OneMoves DEF DeployOK
  <2>2. Standing(deploys[d])
      BY <2>1 DEF RealInv, Succeeded
  <2> QED
      BY <2>1, <2>2, StandingStays
<1>2. CASE d = e /\ Run(d)
    BY <1>2, RunStands DEF DeployOK
<1>3. CASE d = e /\ Verify(d)
  <2>1. d \in undisturbed /\ UNCHANGED hostVars
      BY <1>3, Undisturbed DEF Verify
  <2>2. Standing(deploys[d])
      BY <1>3, <2>1 DEF RealInv, Verify, At
  <2>3. /\ deploys'[d].name = deploys[d].name /\ deploys'[d].cid = deploys[d].cid
        /\ "verify_running" \in DeployStepNames
    <3>1. deploys[d] \in DeployRun
        BY <1>3, DeployShape DEF DeployOK, Verify, At
    <3> QED
        BY <1>3, <3>1, DeployStepsFacts DEF Verify, Report, Abort, DeployOK, DeployTypeOK, DeployRun
  <2> QED
      BY <2>1, <2>2, <2>3 DEF Standing, Named, Exists, hostVars
<1>4. CASE d = e /\ ~Run(d) /\ ~Verify(d)
    BY <1>4, BeforeVerify DEF DeployOK
<1> QED
    BY <1>1, <1>2, <1>3, <1>4

\* A purge is the step of another job.
LEMMA PurgeStepReal ==
  ASSUME RealInv, NEW p \in Purges, PurgeStep(p), UNCHANGED deploys,
         p \in Deploys => deploys[p] = NotStarted
  PROVE  RealInv'
<1> SUFFICES ASSUME NEW d \in Deploys, d \in undisturbed',
                    deploys[d].pc = "verify" \/ Succeeded(deploys[d])
             PROVE  Standing(deploys[d])'
    BY DEF RealInv, Succeeded
<1>1. d # p
    BY DEF NotStarted, Succeeded
<1>2. d \in undisturbed /\ UNCHANGED hostVars
  <2>1. CASE \E n \in Names \cup {NoName}, ref \in Refs : PurgeProbe(p, n, ref)
      BY <1>1, <2>1 DEF PurgeProbe
  <2>2. CASE ~\E n \in Names \cup {NoName}, ref \in Refs : PurgeProbe(p, n, ref)
    <3>1. Delivered(p) \/ Faulted(p)
        BY <2>2 DEF PurgeStep, PurgePsName, PurgePsImage, PurgeStop, PurgeRemoveContainers,
                    PurgeInspectImage, PurgeRemoveImage, VerifyName, VerifyImage, VerifyInspect
    <3> QED
        BY <1>1, <3>1, Undisturbed
  <2> QED
      BY <2>1, <2>2
<1> QED
    BY <1>2, StandingStays DEF RealInv

\* A deploy that reports success and that nobody disturbed has its container
\* running, alone under its name (stepVerify looks for the name only), even
\* if sessions were lost on the way.
THEOREM RealSuccess == Spec => []SuccessIsReal
<1>1. Init => RealInv
    BY DEF Init, HostInit, RealInv
<1>2. ASSUME IInv, RealInv, [Next]_hostJobsVars
      PROVE  RealInv'
  <2>1. ASSUME NEW d \in Deploys, DeployStep(d)
        PROVE  RealInv'
      BY <1>2, <2>1, DeployStepReal DEF IInv
  <2>2. ASSUME NEW p \in Purges, PurgeStep(p), UNCHANGED deploys,
               p \in Deploys => deploys[p] = NotStarted
        PROVE  RealInv'
      BY <1>2, <2>2, PurgeStepReal
  <2>3. ASSUME NEW c \in Containers, Crash(c)
        PROVE  RealInv'
      BY <2>3 DEF RealInv, Crash
  <2>4. ASSUME UNCHANGED hostJobsVars
        PROVE  RealInv'
      BY <1>2, <2>4, StandingStays DEF RealInv, Succeeded, hostJobsVars, hostVars
  <2> QED
      BY <1>2, <2>1, <2>2, <2>3, <2>4 DEF Next
<1>3. IInv /\ RealInv => SuccessIsReal
  <2> SUFFICES ASSUME RealInv, NEW d \in Deploys \cap undisturbed, Succeeded(deploys[d])
               PROVE  Running(Named(deploys[d].name)) = {deploys[d].cid}
      BY DEF SuccessIsReal
  <2>1. Standing(deploys[d])
      BY DEF RealInv
  <2> QED
      BY <2>1 DEF Standing, Running
<1> QED
    BY <1>1, <1>2, <1>3, Invariance, PTL DEF Spec
-----------------------------------------------------------------------------
(* A clean job: nobody disturbs it and none of its commands fails. *)

\* What a clean deploy knows of the host at each of its places: the ids it has
\* collected are still all there is of its name and its image; from the
\* removal to docker run there is nothing; then there is its own container.
Clean(run) ==
    LET own == Of(run.name, run.ref) IN
    /\ run.pc \in {"login", "ps_name"} => run.ids = {}
    /\ run.pc = "ps_image" => run.ids = Named(run.name)
    /\ run.pc \in {"stop", "rm"} => run.ids = own
    /\ run.pc \in {"inspect", "rmi", "pull", "run"} => own = {}
    /\ run.pc \in {"rmi", "run"} => run.ref \in images
    /\ run.pc \in {"verify", "done"} => /\ own = {run.cid} /\ Named(run.name) = {run.cid}
                                        /\ containers[run.cid].state = "running"
    /\ run.pc = "done" => AllOK(run.status)

\* ... and a clean purge: from the removal on nothing of its own is left, and
\* from docker rmi on the image is gone.
PurgeClean(run) ==
    LET own == Of(run.name, run.ref) IN
    /\ run.pc = "ps_name" => run.ids = {}
    /\ run.pc = "ps_image" => run.ids = Named(run.name)
    /\ run.pc \in {"stop", "rm"} => run.ids = own
    /\ run.pc \in {"inspect", "rmi", "verify_name", "verify_image", "verify_inspect", "done"} => own = {}
    /\ run.pc = "rmi" => run.ref \in images
    /\ run.pc \in {"verify_name", "verify_image", "verify_inspect", "done"} => run.ref \notin images
    /\ run.pc = "verify_image" => run.ids = {}
    /\ run.pc = "done" => Purged(run)

\* A job begins faultless only when it starts.
CleanInv ==
    /\ \A j \in faultless : \/ j \in Deploys /\ deploys[j] # NotStarted
                            \/ j \in Purges /\ purges[j] # PurgeNotStarted
    /\ \A d \in Deploys \cap undisturbed \cap faultless :
          deploys[d] # NotStarted => Clean(deploys[d])
    /\ \A p \in Purges \cap undisturbed \cap faultless :
          purges[p] # PurgeNotStarted => PurgeClean(purges[p])

\* If job j is still clean after its step, the command was delivered.
LEMMA StillClean ==
  ASSUME NEW j \in undisturbed' \cap faultless', Delivered(j) \/ Faulted(j)
  PROVE  Delivered(j) /\ ~Faulted(j) /\ j \in undisturbed \cap faultless
  BY DEF Delivered, Faulted, Disturbs

\* Who stands still while the host does stays clean.
LEMMA CleanStays ==
  ASSUME UNCHANGED hostVars, NEW run
  PROVE  /\ Clean(run) => Clean(run)'
         /\ PurgeClean(run) => PurgeClean(run)'
  BY DEF Clean, PurgeClean, Of, Named, OfImage, Exists, hostVars

\* A step that is not the first is a command of a job under way.
LEMMA DeployCommand ==
  ASSUME NEW e \in Deploys, DeployStep(e), \A n \in Names, ref \in Refs : ~DeployProbe(e, n, ref)
  PROVE  ~At(e, "new") /\ (Delivered(e) \/ Faulted(e))
<1>1. CASE Run(e)
  <2>1. At(e, "run") /\ (Delivered(e) \/ Faulted(e))
      BY <1>1, Zenon DEF Run
  <2> QED
      BY <2>1 DEF At
<1>2. CASE ~Run(e)
    BY <1>2 DEF DeployStep, Login, PsName, PsImage, Stop, RemoveContainers, InspectImage,
           RemoveImage, Pull, Verify, At
<1> QED
    BY <1>1, <1>2

LEMMA PurgeCommand ==
  ASSUME NEW e \in Purges, PurgeStep(e), \A n \in Names \cup {NoName}, ref \in Refs : ~PurgeProbe(e, n, ref)
  PROVE  ~PurgeAt(e, "new") /\ (Delivered(e) \/ Faulted(e))
<1>1. ~PurgeAt(e, "new")
    BY DEF PurgeStep, PurgePsName, PurgePsImage, PurgeStop, PurgeRemoveContainers,
           PurgeInspectImage, PurgeRemoveImage, VerifyName, VerifyImage, VerifyInspect, PurgeAt
<1>2. Delivered(e) \/ Faulted(e)
    BY DEF PurgeStep, PurgePsName, PurgePsImage, PurgeStop, PurgeRemoveContainers,
           PurgeInspectImage, PurgeRemoveImage, VerifyName, VerifyImage, VerifyInspect
<1> QED
    BY <1>1, <1>2

\* A step of a job ends with the job under way.
LEMMA DeployStarted ==
  ASSUME DeployTypeOK, NEW e \in Deploys, DeployStep(e)
  PROVE  deploys'[e].pc # "new"
<1>1. CASE \E n \in Names, ref \in Refs : DeployProbe(e, n, ref)
    BY <1>1 DEF DeployProbe, DeployTypeOK
<1>2. CASE \A n \in Names, ref \in Refs : ~DeployProbe(e, n, ref)
  <2>1. deploys[e] \in DeployRun
      BY <1>2, DeployCommand, DeployShape
  <2>2. CASE Login(e)
      BY <2>1, <2>2 DEF Login, Report, Abort, DeployTypeOK, DeployRun
  <2>3. CASE PsName(e)
      BY <2>1, <2>3 DEF PsName, DeployTypeOK, DeployRun
  <2>4. CASE PsImage(e)
      BY <2>1, <2>4 DEF PsImage, DeployTypeOK, DeployRun
  <2>5. CASE Stop(e)
      BY <2>1, <2>5 DEF Stop, Report, Abort, DeployTypeOK, DeployRun
  <2>6. CASE RemoveContainers(e)
      BY <2>1, <2>6 DEF RemoveContainers, Report, Abort, DeployTypeOK, DeployRun
  <2>7. CASE InspectImage(e)
      BY <2>1, <2>7 DEF InspectImage, Report, DeployTypeOK, DeployRun
  <2>8. CASE RemoveImage(e)
      BY <2>1, <2>8 DEF RemoveImage, Report, DeployTypeOK, DeployRun
  <2>9. CASE Pull(e)
      BY <2>1, <2>9 DEF Pull, Report, Abort, DeployTypeOK, DeployRun
  <2>10. CASE Run(e)
    <3>1. \/ Abort(e, "run_container")
          \/ \E c \in Containers : deploys' = [deploys EXCEPT ![e].pc = "verify", ![e].cid = c,
                                                              ![e].status["run_container"] = "ok"]
        BY <2>10, Zenon DEF Run
    <3>2. CASE Abort(e, "run_container")
        BY <2>1, <3>2 DEF Report, Abort, DeployTypeOK, DeployRun
    <3>3. ASSUME NEW c \in Containers,
                 deploys' = [deploys EXCEPT ![e].pc = "verify", ![e].cid = c,
                                            ![e].status["run_container"] = "ok"]
          PROVE  deploys'[e].pc # "new"
        BY <2>1, <3>3 DEF DeployTypeOK, DeployRun
    <3> QED
        BY <3>1, <3>2, <3>3, Zenon
  <2>11. CASE Verify(e)
      BY <2>1, <2>11 DEF Verify, Report, Abort, DeployTypeOK, DeployRun
  <2> QED
      BY <1>2, <2>2, <2>3, <2>4, <2>5, <2>6, <2>7, <2>8, <2>9, <2>10, <2>11 DEF DeployStep
<1> QED
    BY <1>1, <1>2

LEMMA PurgeStarted ==
  ASSUME PurgeTypeOK, NEW e \in Purges, PurgeStep(e)
  PROVE  /\ purges'[e].pc # "new"
         /\ \A p \in Purges : p # e => purges'[p] = purges[p]
<1>1. CASE \E n \in Names \cup {NoName}, ref \in Refs : PurgeProbe(e, n, ref)
    BY <1>1 DEF PurgeProbe, PurgeTypeOK
<1>2. CASE \A n \in Names \cup {NoName}, ref \in Refs : ~PurgeProbe(e, n, ref)
  <2>1. purges[e] \in PurgeRun
      BY <1>2, PurgeCommand, PurgeShape
  <2>2. CASE PurgePsName(e)
      BY <2>1, <2>2 DEF PurgePsName, PurgeTypeOK, PurgeRun
  <2>3. CASE PurgePsImage(e)
      BY <2>1, <2>3 DEF PurgePsImage, PurgeTypeOK, PurgeRun
  <2>4. CASE PurgeStop(e)
      BY <2>1, <2>4 DEF PurgeStop, PurgeReport, PurgeAbort, PurgeTypeOK, PurgeRun
  <2>5. CASE PurgeRemoveContainers(e)
      BY <2>1, <2>5 DEF PurgeRemoveContainers, PurgeReport, PurgeAbort, PurgeTypeOK, PurgeRun
  <2>6. CASE PurgeInspectImage(e)
      BY <2>1, <2>6 DEF PurgeInspectImage, PurgeReport, PurgeTypeOK, PurgeRun
  <2>7. CASE PurgeRemoveImage(e)
      BY <2>1, <2>7 DEF PurgeRemoveImage, PurgeReport, PurgeAbort, PurgeTypeOK, PurgeRun
  <2>8. CASE VerifyName(e)
      BY <2>1, <2>8 DEF VerifyName, PurgeTypeOK, PurgeRun
  <2>9. CASE VerifyImage(e)
      BY <2>1, <2>9 DEF VerifyImage, PurgeReport, PurgeAbort, PurgeTypeOK, PurgeRun
  <2>10. CASE VerifyInspect(e)
      BY <2>1, <2>10 DEF VerifyInspect, PurgeReport, PurgeAbort, PurgeTypeOK, PurgeRun
  <2> QED
      BY <1>2, <2>2, <2>3, <2>4, <2>5, <2>6, <2>7, <2>8, <2>9, <2>10 DEF PurgeStep
<1> QED
    BY <1>1, <1>2

LEMMA OfStays ==
  ASSUME UNCHANGED hostVars, NEW n, NEW ref
  PROVE  Of(n, ref)' = Of(n, ref) /\ images' = images
  BY DEF Of, Named, OfImage, Exists, hostVars

\* Stopping containers makes none come or go.
LEMMA StoppedOf ==
  ASSUME HostTypeOK, NEW S, containers' = Stopped(S), NEW n, NEW ref
  PROVE  Of(n, ref)' = Of(n, ref)
<1>1. ASSUME NEW c \in Containers
      PROVE  /\ Exists(c)' <=> Exists(c)
             /\ Exists(c) => /\ containers'[c].name = containers[c].name
                             /\ containers'[c].image = containers[c].image
  <2>1. containers'[c] = IF c \in Running(S) THEN [containers[c] EXCEPT !.state = "exited"] ELSE containers[c]
      BY DEF Stopped
  <2>2. CASE c \in Running(S)
    <3>1. containers[c].state = "running" /\ containers[c] \in ContainerRow
        BY <2>2, RowShape DEF Running, Exists
    <3> QED
        BY <2>1, <2>2, <3>1 DEF Exists, ContainerRow
  <2>3. CASE c \notin Running(S)
      BY <2>1, <2>3 DEF Exists
  <2> QED
      BY <2>2, <2>3
<1> QED
    BY <1>1 DEF Of, Named, OfImage

LEMMA RemovedOf ==
  ASSUME NEW n, NEW ref, containers' = Removed(Of(n, ref))
  PROVE  Of(n, ref)' = {}
<1>1. \A c \in Containers :
        containers'[c] = IF c \in Of(n, ref) THEN RemovedContainer ELSE containers[c]
    BY DEF Removed
<1> QED
    BY <1>1 DEF Of, Named, OfImage, Exists, RemovedContainer

LEMMA CreatedOf ==
  ASSUME HostTypeOK, NEW c \in Containers, NEW n, NEW ref, Of(n, ref) = {},
         containers' = Created(c, "running", n, ref)
  PROVE  Of(n, ref)' = {c} /\ Named(n)' = {c} /\ containers'[c].state = "running"
<1>1. /\ containers'[c] = [state |-> "running", name |-> n, image |-> ref]
      /\ \A x \in Containers : x # c => containers'[x] = containers[x]
    BY DEF Created, HostTypeOK
<1> QED
    BY <1>1 DEF Of, Named, OfImage, Exists

\* What becomes of a clean deploy by each of its steps.
LEMMA CleanDeployMoves ==
  ASSUME HostTypeOK, DeployOK, NEW d \in Deploys, deploys[d] \in DeployRun, deploys[d] # NotStarted,
         DeployStep(d), d \in undisturbed' \cap faultless', Clean(deploys[d])
  PROVE  Clean(deploys[d])'
<1> PICK run \in DeployRun : run = deploys[d]
    OBVIOUS
<1> PICK new : new = deploys'[d]
    OBVIOUS
<1> SUFFICES Clean(new)'
    BY DEF Clean
<1>0. /\ deploys \in [Deploys -> DeployRun \cup {NotStarted}] /\ Clean(run)
      /\ run.status \in [DeployStepNames -> StepStatus] /\ run.ids \in SUBSET Containers
      /\ run.pc # "new" /\ (run.pc # "done" => Chain(DeploySteps, run.status, Step(run.pc)))
    BY RunShape DEF DeployOK, DeployTypeOK, DeployInv, InChain
<1>1. CASE Login(d)
  <2>1. /\ new.pc = "ps_name" /\ new.ids = run.ids /\ run.pc = "login"
      BY <1>0, <1>1, StillClean DEF Login, Report, At, DeployRun
  <2> QED
      BY <1>0, <2>1 DEF Clean
<1>2. CASE PsName(d)
  <2>1. /\ new.pc = "ps_image" /\ new.ids = Named(run.name) /\ new.name = run.name
        /\ UNCHANGED hostVars
      BY <1>0, <1>2, StillClean DEF PsName, DeployRun
  <2> QED
      BY <2>1 DEF Clean, Named, Exists, hostVars
<1>3. CASE PsImage(d)
  <2> PICK ids : ids = run.ids \cup OfImage(run.ref)
      OBVIOUS
  <2>1. /\ UNCHANGED hostVars /\ run.pc = "ps_image"
        /\ IF ids = {}
           THEN deploys' = [deploys EXCEPT ![d].pc = "inspect",
                                           ![d].status["stop_existing"] = "skipped",
                                           ![d].status["remove_existing"] = "skipped"]
           ELSE deploys' = [deploys EXCEPT ![d].pc = "stop", ![d].ids = ids]
      BY <1>3, StillClean DEF PsImage, At
  <2>2. /\ new.name = run.name /\ new.ref = run.ref
        /\ IF ids = {} THEN new.pc = "inspect" ELSE new.pc = "stop" /\ new.ids = ids
      BY <1>0, <2>1 DEF DeployRun
  <2>3. ids = Of(run.name, run.ref)
      BY <1>0, <2>1 DEF Clean, Of
  <2>4. Of(run.name, run.ref)' = Of(run.name, run.ref)
      BY <2>1, OfStays
  <2> QED
      BY <2>2, <2>3, <2>4 DEF Clean
<1>4. CASE Stop(d)
  <2>1. /\ new.pc = "rm" /\ new.ids = run.ids /\ new.name = run.name /\ new.ref = run.ref
        /\ run.pc = "stop" /\ containers' = Stopped(run.ids)
      BY <1>0, <1>4, StillClean DEF Stop, Report, At, DeployRun
  <2> QED
      BY <1>0, <2>1, StoppedOf DEF Clean
<1>5. CASE RemoveContainers(d)
  <2>1. run.ids = Of(run.name, run.ref)
      BY <1>0, <1>5 DEF Clean, RemoveContainers, At
  <2>2. \A c \in run.ids : Exists(c)
      BY <2>1 DEF Of, Named, OfImage
  <2>3. /\ new.pc = "inspect" /\ new.name = run.name /\ new.ref = run.ref
        /\ containers' = Removed(run.ids)
      BY <1>0, <1>5, <2>2, StillClean DEF RemoveContainers, Report, DeployRun
  <2> QED
      BY <2>1, <2>3, RemovedOf DEF Clean
<1>6. CASE InspectImage(d)
  <2>2. /\ UNCHANGED hostVars /\ run.pc = "inspect"
        /\ \/ run.ref \in images /\ deploys' = [deploys EXCEPT ![d].pc = "rmi"]
           \/ Report(d, "pull", "remove_image", "skipped")
      BY <1>6 DEF InspectImage, At
  <2>1. /\ new.name = run.name /\ new.ref = run.ref
        /\ new.pc = "pull" \/ (new.pc = "rmi" /\ run.ref \in images)
    <3>1. CASE Report(d, "pull", "remove_image", "skipped")
      <4>1. "pull" \in DeployPlaces /\ "remove_image" \in DeployStepNames /\ "skipped" \in StepStatus
          BY DeployStepsFacts DEF DeployPlaces, StepStatus
      <4>2. PICK q \in DeployRun :
            /\ deploys' = [deploys EXCEPT ![d] = q]
            /\ q.pc = "pull" /\ q.status = [run.status EXCEPT !["remove_image"] = "skipped"]
            /\ q.name = run.name /\ q.ref = run.ref /\ q.ids = run.ids /\ q.cid = run.cid
          BY <3>1, <4>1, ReportMoves DEF DeployOK
      <4> QED
          BY <1>0, <4>2
    <3>2. CASE run.ref \in images /\ deploys' = [deploys EXCEPT ![d].pc = "rmi"]
        BY <1>0, <3>2 DEF DeployRun
    <3> QED
        BY <2>2, <3>1, <3>2
  <2> QED
      BY <1>0, <2>1, <2>2 DEF Clean, Of, Named, OfImage, Exists, hostVars
<1>7. CASE RemoveImage(d)
  <2>1. /\ new.name = run.name /\ new.ref = run.ref /\ new.pc = "pull" /\ run.pc = "rmi"
        /\ UNCHANGED containers
      BY <1>0, <1>7 DEF RemoveImage, Report, At, DeployRun
  <2> QED
      BY <1>0, <2>1 DEF Clean, Of, Named, OfImage, Exists
<1>8. CASE Pull(d)
  <2>1. /\ new.name = run.name /\ new.ref = run.ref /\ new.pc = "run" /\ run.pc = "pull"
        /\ UNCHANGED containers /\ run.ref \in images'
      BY <1>0, <1>8, StillClean DEF Pull, Report, At, DeployRun
  <2> QED
      BY <1>0, <2>1 DEF Clean, Of, Named, OfImage, Exists
<1>9. CASE Run(d)
  <2>0. run.pc = "run" /\ (Delivered(d) \/ Faulted(d))
      BY <1>9, Zenon DEF Run, At
  <2>4. run.pc = "run" /\ ~Faulted(d)
      BY <2>0, StillClean
  <2>5. Of(run.name, run.ref) = {}
      BY <1>0, <2>4 DEF Clean
  <2>1. Named(run.name) = {}
      BY <2>5 DEF Of
  <2>2. PICK c \in Containers :
          /\ containers' = Created(c, "running", run.name, run.ref)
          /\ deploys' = [deploys EXCEPT ![d].pc = "verify", ![d].cid = c,
                                        ![d].status["run_container"] = "ok"]
      BY <1>9, <2>1, <2>4, Zenon DEF Run
  <2>3. new.name = run.name /\ new.ref = run.ref /\ new.pc = "verify" /\ new.cid = c
      BY <1>0, <2>2 DEF DeployRun
  <2>6. Of(run.name, run.ref)' = {c} /\ Named(run.name)' = {c} /\ containers'[c].state = "running"
      BY <2>2, <2>5, CreatedOf
  <2>7. "verify" # "rmi" /\ "verify" # "done"
      OBVIOUS
  <2> QED
      BY <2>3, <2>6, <2>7 DEF Clean
<1>10. CASE Verify(d)
  <2>1. /\ run.pc = "verify" /\ UNCHANGED hostVars
        /\ Report(d, "done", "verify_running",
                  IF Running(Named(run.name)) # {} THEN "ok" ELSE "failed")
      BY <1>10, StillClean DEF Verify, At
  <2>2. /\ Of(run.name, run.ref) = {run.cid} /\ Named(run.name) = {run.cid}
        /\ containers[run.cid].state = "running"
      BY <1>0, <2>1 DEF Clean
  <2>3. Running(Named(run.name)) # {}
      BY <1>0, <2>1 DEF Clean, Running
  <2>4. Report(d, "done", "verify_running", "ok")
      BY <2>1, <2>3
  <2>5. /\ new.pc = "done" /\ new.name = run.name /\ new.ref = run.ref /\ new.cid = run.cid
        /\ new.status = [run.status EXCEPT !["verify_running"] = "ok"]
    <3>1. "done" \in DeployPlaces /\ "ok" \in StepStatus /\ "verify_running" \in DeployStepNames
        BY DeployStepsFacts DEF DeployPlaces, StepStatus
    <3>2. PICK q \in DeployRun :
            /\ deploys' = [deploys EXCEPT ![d] = q]
            /\ q.pc = "done" /\ q.status = [run.status EXCEPT !["verify_running"] = "ok"]
            /\ q.name = run.name /\ q.ref = run.ref /\ q.ids = run.ids /\ q.cid = run.cid
        BY <2>4, <3>1, ReportMoves DEF DeployOK
    <3> QED
        BY <1>0, <3>2
  <2>6. AllOK(new.status)
    <3>1. Chain(DeploySteps, run.status, 7)
        BY <1>0, <2>1 DEF Step
    <3>2. \A i \in 1..7 : new.status[DeploySteps[i]] \in {"ok", "skipped"}
        BY <1>0, <2>5, <3>1, DeployStepsFacts DEF Chain
    <3>3. DOMAIN new.status = DeployStepNames
        BY <1>0, <2>5
    <3> QED
        BY <3>2, <3>3, DeployStepsFacts DEF AllOK, DeployStepNames
  <2> QED
      BY <2>1, <2>2, <2>5, <2>6 DEF Clean, Of, Named, OfImage, Exists, hostVars
<1>11. CASE \E n \in Names, ref \in Refs : DeployProbe(d, n, ref)
    BY <1>0, <1>11 DEF DeployProbe, At
<1> QED
    BY <1>1, <1>2, <1>3, <1>4, <1>5, <1>6, <1>7, <1>8, <1>9, <1>10, <1>11 DEF DeployStep

\* What becomes of a clean purge by each of its steps.
LEMMA CleanPurgeMoves ==
  ASSUME HostTypeOK, PurgeOK, NEW p \in Purges, purges[p] \in PurgeRun, purges[p] # PurgeNotStarted,
         PurgeStep(p), p \in undisturbed' \cap faultless', PurgeClean(purges[p])
  PROVE  PurgeClean(purges[p])'
<1> PICK run \in PurgeRun : run = purges[p]
    OBVIOUS
<1> PICK new : new = purges'[p]
    OBVIOUS
<1> SUFFICES PurgeClean(new)'
    BY DEF PurgeClean
<1>0. /\ purges \in [Purges -> PurgeRun \cup {PurgeNotStarted}] /\ PurgeClean(run)
      /\ run.status \in [PurgeStepNames -> StepStatus] /\ run.ids \in SUBSET Containers
      /\ run.pc # "new" /\ (run.pc # "done" => Chain(PurgeSteps, run.status, PurgeAtStep(run.pc)))
    BY PurgeRunShape DEF PurgeOK, PurgeTypeOK, PurgeInv, PurgeInChain
<1>1. CASE PurgePsName(p)
  <2>1. /\ new.pc = "ps_image" /\ new.ids = Named(run.name) /\ new.name = run.name
        /\ UNCHANGED hostVars
      BY <1>0, <1>1, StillClean DEF PurgePsName, PurgeRun
  <2> QED
      BY <2>1 DEF PurgeClean, Named, Exists, hostVars
<1>2. CASE PurgePsImage(p)
  <2> PICK ids : ids = run.ids \cup OfImage(run.ref)
      OBVIOUS
  <2>1. /\ UNCHANGED hostVars /\ run.pc = "ps_image"
        /\ IF ids = {}
           THEN purges' = [purges EXCEPT ![p].pc = "inspect",
                                         ![p].status["find_containers"] = "skipped",
                                         ![p].status["stop_containers"] = "skipped",
                                         ![p].status["remove_containers"] = "skipped"]
           ELSE purges' = [purges EXCEPT ![p].pc = "stop", ![p].ids = ids,
                                         ![p].status["find_containers"] = "ok"]
      BY <1>2, StillClean DEF PurgePsImage, PurgeAt
  <2>2. /\ new.name = run.name /\ new.ref = run.ref
        /\ IF ids = {} THEN new.pc = "inspect" ELSE new.pc = "stop" /\ new.ids = ids
      BY <1>0, <2>1 DEF PurgeRun
  <2>3. ids = Of(run.name, run.ref)
      BY <1>0, <2>1 DEF PurgeClean, Of
  <2>4. Of(run.name, run.ref)' = Of(run.name, run.ref)
      BY <2>1, OfStays
  <2> QED
      BY <2>2, <2>3, <2>4 DEF PurgeClean
<1>3. CASE PurgeStop(p)
  <2>1. /\ new.pc = "rm" /\ new.ids = run.ids /\ new.name = run.name /\ new.ref = run.ref
        /\ run.pc = "stop" /\ containers' = Stopped(run.ids)
      BY <1>0, <1>3, StillClean DEF PurgeStop, PurgeReport, PurgeAt, PurgeRun
  <2> QED
      BY <1>0, <2>1, StoppedOf DEF PurgeClean
<1>4. CASE PurgeRemoveContainers(p)
  <2>1. run.ids = Of(run.name, run.ref)
      BY <1>0, <1>4 DEF PurgeClean, PurgeRemoveContainers, PurgeAt
  <2>2. \A c \in run.ids : Exists(c)
      BY <2>1 DEF Of, Named, OfImage
  <2>3. /\ new.pc = "inspect" /\ new.name = run.name /\ new.ref = run.ref
        /\ containers' = Removed(run.ids)
      BY <1>0, <1>4, <2>2, StillClean DEF PurgeRemoveContainers, PurgeReport, PurgeRun
  <2> QED
      BY <2>1, <2>3, RemovedOf DEF PurgeClean
<1>5. CASE PurgeInspectImage(p)
  <2>1. /\ UNCHANGED hostVars /\ run.pc = "inspect"
        /\ \/ run.ref \in images /\ purges' = [purges EXCEPT ![p].pc = "rmi"]
           \/ run.ref \notin images /\ PurgeReport(p, "verify_name", "remove_image", "skipped")
      BY <1>5, StillClean DEF PurgeInspectImage, PurgeAt
  <2>2. /\ new.name = run.name /\ new.ref = run.ref
        /\ \/ new.pc = "rmi" /\ run.ref \in images
           \/ new.pc = "verify_name" /\ run.ref \notin images
      BY <1>0, <2>1 DEF PurgeReport, PurgeRun
  <2> QED
      BY <1>0, <2>1, <2>2 DEF PurgeClean, Of, Named, OfImage, Exists, hostVars
<1>6. CASE PurgeRemoveImage(p)
  <2>1. run.pc = "rmi" /\ run.ref \in images /\ Of(run.name, run.ref) = {}
      BY <1>0, <1>6 DEF PurgeRemoveImage, PurgeAt, PurgeClean
  <2>2. CanUntag(run.ref)
      BY <2>1 DEF CanUntag, Running, Of
  <2>3. /\ new.name = run.name /\ new.ref = run.ref /\ new.pc = "verify_name"
        /\ UNCHANGED containers /\ images' = images \ {run.ref}
      BY <1>0, <1>6, <2>2, StillClean DEF PurgeRemoveImage, PurgeReport, PurgeRun
  <2> QED
      BY <2>1, <2>3 DEF PurgeClean, Of, Named, OfImage, Exists
<1>7. CASE VerifyName(p)
  <2> PICK ids : ids = IF run.name = NoName THEN {} ELSE Named(run.name)
      OBVIOUS
  <2>0. /\ UNCHANGED hostVars /\ run.pc = "verify_name"
        /\ purges' = [purges EXCEPT ![p].pc = "verify_image", ![p].ids = ids]
      BY <1>7, StillClean DEF VerifyName, PurgeAt
  <2>1. /\ new.name = run.name /\ new.ref = run.ref /\ new.pc = "verify_image" /\ new.ids = ids
      BY <1>0, <2>0 DEF PurgeRun
  <2>2. Of(run.name, run.ref) = {} /\ run.ref \notin images
      BY <1>0, <2>0 DEF PurgeClean
  <2>3. new.ids = {}
      BY <2>1, <2>2 DEF Of
  <2>4. Of(run.name, run.ref)' = {} /\ run.ref \notin images'
      BY <2>0, <2>2, OfStays
  <2> QED
      BY <2>1, <2>3, <2>4 DEF PurgeClean
<1>8. CASE VerifyImage(p)
  <2>1. run.pc = "verify_image" /\ run.ids = {} /\ Of(run.name, run.ref) = {} /\ run.ref \notin images
      BY <1>0, <1>8 DEF PurgeClean, VerifyImage, PurgeAt
  <2>2. run.ids \cup OfImage(run.ref) = {}
      BY <2>1 DEF Of
  <2>3. UNCHANGED hostVars /\ purges' = [purges EXCEPT ![p].pc = "verify_inspect"]
      BY <1>8, <2>2, StillClean DEF VerifyImage
  <2>4. new.name = run.name /\ new.ref = run.ref /\ new.pc = "verify_inspect"
      BY <1>0, <2>3 DEF PurgeRun
  <2> QED
      BY <2>1, <2>3, <2>4 DEF PurgeClean, Of, Named, OfImage, Exists, hostVars
<1>9. CASE VerifyInspect(p)
  <2>1. run.pc = "verify_inspect" /\ Of(run.name, run.ref) = {} /\ run.ref \notin images
      BY <1>0, <1>9 DEF PurgeClean, VerifyInspect, PurgeAt
  <2>2. UNCHANGED hostVars /\ PurgeReport(p, "done", "verify_purged", "ok")
      BY <1>9, <2>1, StillClean DEF VerifyInspect
  <2>3. /\ new.pc = "done" /\ new.name = run.name /\ new.ref = run.ref
        /\ new.status = [run.status EXCEPT !["verify_purged"] = "ok"]
    <3>1. "done" \in PurgePlaces /\ "ok" \in StepStatus /\ "verify_purged" \in PurgeStepNames
        BY PurgeStepsFacts DEF PurgePlaces, StepStatus
    <3>2. PICK q \in PurgeRun :
            /\ purges' = [purges EXCEPT ![p] = q]
            /\ q.pc = "done" /\ q.status = [run.status EXCEPT !["verify_purged"] = "ok"]
            /\ q.name = run.name /\ q.ref = run.ref /\ q.ids = run.ids
        BY <2>2, <3>1, PurgeReportMoves DEF PurgeOK
    <3> QED
        BY <1>0, <3>2
  <2>4. Purged(new)
    <3>1. Chain(PurgeSteps, run.status, 5)
        BY <1>0, <2>1 DEF PurgeAtStep
    <3>2. \A i \in 1..5 : new.status[PurgeSteps[i]] \in {"ok", "skipped"}
        BY <1>0, <2>3, <3>1, PurgeStepsFacts DEF Chain
    <3> QED
        BY <2>3, <3>2, PurgeStepsFacts DEF Purged, PurgeStepNames
  <2> QED
      BY <2>1, <2>2, <2>3, <2>4 DEF PurgeClean, Of, Named, OfImage, Exists, hostVars
<1>10. CASE \E n \in Names \cup {NoName}, ref \in Refs : PurgeProbe(p, n, ref)
    BY <1>0, <1>10 DEF PurgeProbe, PurgeAt
<1> QED
    BY <1>1, <1>2, <1>3, <1>4, <1>5, <1>6, <1>7, <1>8, <1>9, <1>10 DEF PurgeStep

\* The step of another job leaves a clean one alone, and the host as well.
LEMMA OthersDeploy ==
  ASSUME NEW e \in Deploys, DeployStep(e), NEW j, j # e, j \in faultless'
  PROVE  j \in faultless /\ (j \in undisturbed' => j \in undisturbed /\ UNCHANGED hostVars)
<1>1. CASE \E n \in Names, ref \in Refs : DeployProbe(e, n, ref)
    BY <1>1 DEF DeployProbe
<1>2. CASE \A n \in Names, ref \in Refs : ~DeployProbe(e, n, ref)
    BY <1>2, DeployCommand, Undisturbed DEF Delivered, Faulted
<1> QED
    BY <1>1, <1>2

LEMMA OthersPurge ==
  ASSUME NEW e \in Purges, PurgeStep(e), NEW j, j # e, j \in faultless'
  PROVE  j \in faultless /\ (j \in undisturbed' => j \in undisturbed /\ UNCHANGED hostVars)
<1>1. CASE \E n \in Names \cup {NoName}, ref \in Refs : PurgeProbe(e, n, ref)
    BY <1>1 DEF PurgeProbe
<1>2. CASE \A n \in Names \cup {NoName}, ref \in Refs : ~PurgeProbe(e, n, ref)
    BY <1>2, PurgeCommand, Undisturbed DEF Delivered, Faulted
<1> QED
    BY <1>1, <1>2

\* A deploy that starts has collected nothing yet; one that finds no docker
\* does not begin faultless.
LEMMA DeployBegins ==
  ASSUME DeployTypeOK, CleanInv, NEW d \in Deploys, NEW n \in Names, NEW ref \in Refs,
         DeployProbe(d, n, ref), d \in Purges => purges[d] = PurgeNotStarted, d \in faultless'
  PROVE  Clean(deploys[d])'
<1>1. deploys[d] = NotStarted
    BY DEF DeployTypeOK, DeployProbe, At, DeployRun
<1>2. d \notin faultless
    BY <1>1 DEF CleanInv
<1>3. deploys' = [deploys EXCEPT ![d] =
               [pc |-> "login", name |-> n, ref |-> ref, ids |-> {}, cid |-> NoId,
                status |-> [s \in DeployStepNames |-> "not_run"]]]
    BY <1>2 DEF DeployProbe
<1>4. deploys'[d].pc = "login" /\ deploys'[d].ids = {}
    BY <1>3 DEF DeployTypeOK
<1> QED
    BY <1>4 DEF Clean

LEMMA PurgeBegins ==
  ASSUME HostTypeOK', PurgeTypeOK, CleanInv, NEW p \in Purges, NEW n \in Names \cup {NoName}, NEW ref \in Refs,
         PurgeProbe(p, n, ref), p \in Deploys => deploys[p] = NotStarted, p \in faultless'
  PROVE  PurgeClean(purges[p])'
<1>1. purges[p] = PurgeNotStarted
    BY DEF PurgeTypeOK, PurgeProbe, PurgeAt, PurgeRun
<1>2. p \notin faultless
    BY <1>1 DEF CleanInv
<1> PICK pc : pc = IF n = NoName THEN "ps_image" ELSE "ps_name"
    OBVIOUS
<1>3. purges' = [purges EXCEPT ![p] =
               [pc |-> pc, name |-> n, ref |-> ref, ids |-> {},
                status |-> [s \in PurgeStepNames |-> "not_run"]]]
    BY <1>2 DEF PurgeProbe
<1>4. purges'[p].pc = pc /\ purges'[p].ids = {} /\ purges'[p].name = n
    BY <1>3 DEF PurgeTypeOK
<1>5. Named(NoName)' = {}
    BY NamesAreNames DEF HostTypeOK, Named, Exists, ContainerRow, NoContainer, RemovedContainer
<1> QED
    BY <1>4, <1>5 DEF PurgeClean

LEMMA DeployStepClean ==
  ASSUME HostTypeOK, DeployOK, PurgeTypeOK, CleanInv, NEW e \in Deploys, DeployStep(e), UNCHANGED purges,
         e \in Purges => purges[e] = PurgeNotStarted
  PROVE  CleanInv'
<1>1. /\ deploys'[e] # NotStarted
      /\ \A d \in Deploys : d # e => deploys'[d] = deploys[d]
  <2>1. DeployTypeOK' /\ DeployTypeOK
      BY DeployStepOK DEF DeployOK
  <2>2. \A d \in Deploys : d # e => deploys'[d] = deploys[d]
      BY <2>1, OneMoves
  <2>3. deploys'[e].pc # "new"
      BY <2>1, DeployStarted
  <2> QED
      BY <2>2, <2>3 DEF NotStarted
<1>2. ASSUME NEW j \in faultless'
      PROVE  \/ j \in Deploys /\ deploys'[j] # NotStarted
             \/ j \in Purges /\ purges'[j] # PurgeNotStarted
  <2>1. CASE j = e
      BY <1>1, <2>1
  <2>2. CASE j # e
      BY <1>1, <1>2, <2>2, OthersDeploy DEF CleanInv
  <2> QED
      BY <2>1, <2>2
<1>3. ASSUME NEW d \in Deploys \cap undisturbed' \cap faultless', deploys'[d] # NotStarted
      PROVE  Clean(deploys[d])'
  <2>1. CASE d # e
    <3>1. /\ deploys'[d] = deploys[d] /\ d \in undisturbed \cap faultless /\ UNCHANGED hostVars
        BY <1>1, <1>3, <2>1, OthersDeploy
    <3> QED
        BY <1>3, <3>1, CleanStays DEF CleanInv
  <2>2. CASE d = e /\ \E n \in Names, ref \in Refs : DeployProbe(d, n, ref)
      BY <1>3, <2>2, DeployBegins DEF DeployOK
  <2>3. CASE d = e /\ \A n \in Names, ref \in Refs : ~DeployProbe(d, n, ref)
    <3>1. ~At(d, "new") /\ (Delivered(d) \/ Faulted(d))
        BY <2>3, DeployCommand
    <3>2. deploys[d] \in DeployRun /\ deploys[d] # NotStarted
        BY <3>1, DeployShape DEF DeployOK
    <3>3. d \in undisturbed \cap faultless
        BY <1>3, <3>1, StillClean
    <3> QED
        BY <1>3, <2>3, <3>2, <3>3, CleanDeployMoves DEF CleanInv
  <2> QED
      BY <2>1, <2>2, <2>3
<1>4. ASSUME NEW p \in Purges \cap undisturbed' \cap faultless', purges'[p] # PurgeNotStarted
      PROVE  PurgeClean(purges[p])'
  <2>1. p # e
      BY <1>4
  <2>2. p \in undisturbed \cap faultless /\ UNCHANGED hostVars
      BY <1>4, <2>1, OthersDeploy
  <2> QED
      BY <1>4, <2>2, CleanStays DEF CleanInv
<1> QED
    BY <1>2, <1>3, <1>4 DEF CleanInv

LEMMA PurgeStepClean ==
  ASSUME HostTypeOK, PurgeOK, HostTypeOK', CleanInv, NEW e \in Purges, PurgeStep(e), UNCHANGED deploys,
         e \in Deploys => deploys[e] = NotStarted
  PROVE  CleanInv'
<1>1. /\ purges'[e] # PurgeNotStarted
      /\ \A p \in Purges : p # e => purges'[p] = purges[p]
    BY PurgeStarted DEF PurgeOK, PurgeNotStarted
<1>2. ASSUME NEW j \in faultless'
      PROVE  \/ j \in Deploys /\ deploys'[j] # NotStarted
             \/ j \in Purges /\ purges'[j] # PurgeNotStarted
  <2>1. CASE j = e
      BY <1>1, <2>1
  <2>2. CASE j # e
      BY <1>1, <1>2, <2>2, OthersPurge DEF CleanInv
  <2> QED
      BY <2>1, <2>2
<1>3. ASSUME NEW p \in Purges \cap undisturbed' \cap faultless', purges'[p] # PurgeNotStarted
      PROVE  PurgeClean(purges[p])'
  <2>1. CASE p # e
    <3>1. /\ purges'[p] = purges[p] /\ p \in undisturbed \cap faultless /\ UNCHANGED hostVars
        BY <1>1, <1>3, <2>1, OthersPurge
    <3> QED
        BY <1>3, <3>1, CleanStays DEF CleanInv
  <2>2. CASE p = e /\ \E n \in Names \cup {NoName}, ref \in Refs : PurgeProbe(p, n, ref)
      BY <1>3, <2>2, PurgeBegins DEF PurgeOK
  <2>3. CASE p = e /\ \A n \in Names \cup {NoName}, ref \in Refs : ~PurgeProbe(p, n, ref)
    <3>1. ~PurgeAt(p, "new") /\ (Delivered(p) \/ Faulted(p))
        BY <2>3, PurgeCommand
    <3>2. purges[p] \in PurgeRun /\ purges[p] # PurgeNotStarted
        BY <3>1, PurgeShape DEF PurgeOK
    <3>3. p \in undisturbed \cap faultless
        BY <1>3, <3>1, StillClean
    <3> QED
        BY <1>3, <2>3, <3>2, <3>3, CleanPurgeMoves DEF CleanInv
  <2> QED
      BY <2>1, <2>2, <2>3
<1>4. ASSUME NEW d \in Deploys \cap undisturbed' \cap faultless', deploys'[d] # NotStarted
      PROVE  Clean(deploys[d])'
  <2>1. d # e
      BY <1>4
  <2>2. d \in undisturbed \cap faultless /\ UNCHANGED hostVars
      BY <1>4, <2>1, OthersPurge
  <2> QED
      BY <1>4, <2>2, CleanStays DEF CleanInv
<1> QED
    BY <1>2, <1>3, <1>4 DEF CleanInv

LEMMA CleanInvariance == Spec => []CleanInv
<1>1. Init => CleanInv
    BY DEF Init, HostInit, CleanInv
<1>2. ASSUME IInv, CleanInv, [Next]_hostJobsVars
      PROVE  CleanInv'
  <2>0. HostTypeOK' /\ PurgeTypeOK
      BY <1>2, Inductive DEF IInv, PurgeOK
  <2>1. ASSUME NEW d \in Deploys, DeployStep(d), UNCHANGED purges,
               d \in Purges => purges[d] = PurgeNotStarted
        PROVE  CleanInv'
      BY <1>2, <2>0, <2>1, DeployStepClean DEF IInv
  <2>2. ASSUME NEW p \in Purges, PurgeStep(p), UNCHANGED deploys,
               p \in Deploys => deploys[p] = NotStarted
        PROVE  CleanInv'
      BY <1>2, <2>0, <2>2, PurgeStepClean DEF IInv
  <2>3. ASSUME NEW c \in Containers, Crash(c), UNCHANGED <<deploys, purges>>
        PROVE  CleanInv'
      BY <1>2, <2>3 DEF CleanInv, Crash
  <2>4. ASSUME UNCHANGED hostJobsVars
        PROVE  CleanInv'
      BY <1>2, <2>4, CleanStays DEF CleanInv, hostJobsVars, hostVars
  <2> QED
      BY <1>2, <2>1, <2>2, <2>3, <2>4 DEF Next
<1> QED
    BY <1>1, <1>2, Invariance, PTL DEF Spec

\* A deploy that nobody disturbs and none of whose commands fails succeeds,
\* whatever earlier jobs have left on the host, and its container is then all
\* there is of its name and its image (Runner.Run of remotedeploy: a retry
\* heals).
THEOREM DeployHeals == Spec => []CleanDeploySucceeds
<1>1. ASSUME CleanInv, NEW d \in Deploys \cap undisturbed \cap faultless, deploys[d].pc = "done"
      PROVE  /\ Succeeded(deploys[d])
             /\ Of(deploys[d].name, deploys[d].ref) = {deploys[d].cid}
             /\ containers[deploys[d].cid].state = "running"
  <2>1. deploys[d] # NotStarted
      BY <1>1 DEF NotStarted
  <2> QED
      BY <1>1, <2>1 DEF CleanInv, Clean, Succeeded
<1>2. CleanInv => CleanDeploySucceeds
    BY <1>1 DEF CleanDeploySucceeds
<1> QED
    BY <1>2, CleanInvariance, PTL

\* The same for a purge: it succeeds, and nothing is left of the image or of
\* the container it was given the name of (Runner.Run of remotepurge).
THEOREM PurgeHeals == Spec => []CleanPurgeSucceeds
<1>1. ASSUME CleanInv, NEW p \in Purges \cap undisturbed \cap faultless, purges[p].pc = "done"
      PROVE  /\ Purged(purges[p])
             /\ Of(purges[p].name, purges[p].ref) = {}
             /\ purges[p].ref \notin images
  <2>1. purges[p] # PurgeNotStarted
      BY <1>1 DEF PurgeNotStarted
  <2> QED
      BY <1>1, <2>1 DEF CleanInv, PurgeClean
<1>2. CleanInv => CleanPurgeSucceeds
    BY <1>1 DEF CleanPurgeSucceeds
<1> QED
    BY <1>2, CleanInvariance, PTL
=============================================================================
