---------------------------- MODULE RemoteDeploy ----------------------------
(***************************************************************************)
(* remotedeploy.Runner: the chain login, stop, rm, rmi, pull, run, verify  *)
(* over SSH.  One action is one command on the remote host; any number of  *)
(* jobs share the host, for nothing in the service or in the runner keeps  *)
(* two requests for the same server apart.                                 *)
(***************************************************************************)
EXTENDS DockerHost, Sequences

CONSTANT Deploys                \* the jobs that run Deploy
ASSUME DeploysAreJobs == Deploys \subseteq Jobs

VARIABLE deploys                \* DeployResult and local variables of each Run

NoId == "none"
StepStatus == {"ok", "skipped", "failed", "not_run"}

\* The order of DeployResult.Steps.
DeploySteps == <<"registry_login", "stop_existing", "remove_existing", "remove_image",
                 "pull_image", "run_container", "verify_running">>
DeployStepNames == {DeploySteps[i] : i \in 1..Len(DeploySteps)}

DeployRun ==
    [pc : {"login", "ps_name", "ps_image", "stop", "rm", "inspect", "rmi", "pull", "run",
           "verify", "done"},
     name : Names, ref : Refs, ids : SUBSET Containers, cid : Containers \cup {NoId},
     status : [DeployStepNames -> StepStatus]]
NotStarted == [pc |-> "new"]

DeployTypeOK == deploys \in [Deploys -> DeployRun \cup {NotStarted}]
DeployInit == deploys = [d \in Deploys |-> NotStarted]

\* allOK
AllOK(status) == \A s \in DOMAIN status : status[s] \in {"ok", "skipped"}

\* Run has returned with Success.
Succeeded(run) == run.pc = "done" /\ AllOK(run.status)

-----------------------------------------------------------------------------

\* Job d goes on at pc with step reported as st.  Steps after a failed one
\* keep the status not_run they began with (markRemainingNotRun).
Report(d, pc, step, st) ==
    deploys' = [deploys EXCEPT ![d].pc = pc, ![d].status[step] = st]

Abort(d, step) == Report(d, "done", step, "failed")

At(d, pc) == deploys[d].pc = pc

\* Variant of DeployProbe: initialSteps leaves the statuses empty.
DeployProbeUnset(d, n, ref) ==
    /\ At(d, "new")
    /\ UNCHANGED hostVars
    /\ deploys' = [deploys EXCEPT ![d] =
           [pc |-> "login", name |-> n, ref |-> ref, ids |-> {}, cid |-> NoId,
            status |-> [s \in DeployStepNames |-> ""]]]
    /\ undisturbed' = undisturbed \cup {d}
    /\ faultless' = faultless \cup {d}

\* Step 0, command -v docker.
DeployProbe(d, n, ref) ==
    /\ At(d, "new")
    /\ UNCHANGED hostVars
    /\ \E pc \in {"login", "done"} :
        /\ deploys' = [deploys EXCEPT ![d] =
               [pc |-> pc, name |-> n, ref |-> ref, ids |-> {}, cid |-> NoId,
                status |-> [s \in DeployStepNames |-> "not_run"]]]
        /\ undisturbed' = undisturbed \cup {d}
        /\ faultless' = IF pc = "login" THEN faultless \cup {d} ELSE faultless

\* stepLogin: skipped without credentials; bad credentials end the chain.
Login(d) ==
    /\ At(d, "login")
    /\ UNCHANGED hostVars
    /\ \/ \E st \in {"ok", "skipped"} : Report(d, "ps_name", "registry_login", st)
          /\ Delivered(d)
       \/ Abort(d, "registry_login") /\ Faulted(d)

\* Variant of PsName: docker ps without -a does not show what is not running.
PsNameRunning(d) ==
    /\ At(d, "ps_name")
    /\ UNCHANGED hostVars
    /\ deploys' = [deploys EXCEPT ![d].pc = "ps_image",
                                  ![d].ids = Running(Named(deploys[d].name))]
    /\ Delivered(d)

\* findExistingContainerIDs, first by name; an error reads like no container.
PsName(d) ==
    /\ At(d, "ps_name")
    /\ UNCHANGED hostVars
    /\ \/ /\ deploys' = [deploys EXCEPT ![d].pc = "ps_image", ![d].ids = Named(deploys[d].name)]
          /\ Delivered(d)
       \/ /\ deploys' = [deploys EXCEPT ![d].pc = "ps_image"]
          /\ Faulted(d)

\* ... then by image; with nothing found stop and rm are skipped.
PsImage(d) ==
    LET Found(ids) ==
          IF ids = {}
          THEN deploys' = [deploys EXCEPT ![d].pc = "inspect",
                                          ![d].status["stop_existing"] = "skipped",
                                          ![d].status["remove_existing"] = "skipped"]
          ELSE deploys' = [deploys EXCEPT ![d].pc = "stop", ![d].ids = ids]
    IN
    /\ At(d, "ps_image")
    /\ UNCHANGED hostVars
    /\ \/ Found(deploys[d].ids \cup OfImage(deploys[d].ref)) /\ Delivered(d)
       \/ Found(deploys[d].ids) /\ Faulted(d)

\* Variant of Stop: the chain goes on after a failed stop.
StopContinuing(d) ==
    /\ At(d, "stop")
    /\ UNCHANGED images
    /\ \E S \in SUBSET deploys[d].ids : containers' = Stopped(S)
    /\ \E st \in {"ok", "failed"} : Report(d, "rm", "stop_existing", st)
    /\ Faulted(d)

\* docker stop.  Only a failure with a text other than "no such container" or
\* "is not running" counts (isHardStopError): a lost session, whose stderr is
\* empty, is reported as ok.
Stop(d) ==
    LET ids == deploys[d].ids IN
    /\ At(d, "stop")
    /\ UNCHANGED images
    /\ \/ /\ containers' = Stopped(ids)
          /\ Report(d, "rm", "stop_existing", "ok")
          /\ Delivered(d)
       \/ /\ \E S \in SUBSET ids : containers' = Stopped(S)
          /\ Report(d, "rm", "stop_existing", "ok") \/ Abort(d, "stop_existing")
          /\ Faulted(d)

\* docker rm -f.  Whether a container removed by somebody else is an error
\* depends on the version of the CLI.
RemoveContainers(d) ==
    LET ids == deploys[d].ids IN
    /\ At(d, "rm")
    /\ UNCHANGED images
    /\ \/ /\ containers' = Removed(ids)
          /\ \/ Report(d, "inspect", "remove_existing", "ok")
             \/ (\E c \in ids : ~Exists(c)) /\ Abort(d, "remove_existing")
          /\ Delivered(d)
       \/ /\ \E S \in SUBSET ids : containers' = Removed(S)
          /\ Abort(d, "remove_existing")
          /\ Faulted(d)

\* stepRemoveImage is best-effort: nothing in it ends the chain.
InspectImage(d) ==
    /\ At(d, "inspect")
    /\ UNCHANGED hostVars
    /\ \/ /\ IF deploys[d].ref \in images
             THEN deploys' = [deploys EXCEPT ![d].pc = "rmi"]
             ELSE Report(d, "pull", "remove_image", "skipped")
          /\ Delivered(d)
       \/ Report(d, "pull", "remove_image", "skipped") /\ Faulted(d)

RemoveImage(d) ==
    LET ref == deploys[d].ref IN
    /\ At(d, "rmi")
    /\ UNCHANGED containers
    /\ \/ /\ CanUntag(ref)
          /\ images' = images \ {ref}
          /\ \/ Report(d, "pull", "remove_image", "ok") /\ Delivered(d)
             \/ Report(d, "pull", "remove_image", "skipped") /\ Faulted(d)
       \/ /\ UNCHANGED images
          /\ Report(d, "pull", "remove_image", "skipped")
          /\ IF CanUntag(ref) THEN Faulted(d) ELSE Delivered(d)

Pull(d) ==
    /\ At(d, "pull")
    /\ UNCHANGED containers
    /\ \/ images' = images \cup {deploys[d].ref}
       \/ UNCHANGED images
    /\ \/ deploys[d].ref \in images' /\ Report(d, "run", "pull_image", "ok") /\ Delivered(d)
       \/ Abort(d, "pull_image") /\ Faulted(d)

\* Variant of Run: an error of docker run is left to the verification.
RunUnchecked(d) ==
    /\ At(d, "run")
    /\ UNCHANGED hostVars
    /\ Report(d, "verify", "run_container", "ok")
    /\ Faulted(d)

\* docker run -d --name: refused when the name is taken; a container that
\* cannot be started stays behind as created; a lost session hides success.
\* An image that went away meanwhile is pulled again.
Run(d) ==
    LET n == deploys[d].name
        ref == deploys[d].ref
    IN
    /\ At(d, "run")
    /\ \/ /\ Named(n) = {}
          /\ images' = images \cup {ref}
          /\ \E c \in Containers :
               /\ containers[c] = NoContainer
               /\ \/ /\ containers' = Created(c, "running", n, ref)
                     /\ deploys' = [deploys EXCEPT ![d].pc = "verify", ![d].cid = c,
                                                   ![d].status["run_container"] = "ok"]
                     /\ Delivered(d)
                  \/ /\ \E st \in {"running", "created"} : containers' = Created(c, st, n, ref)
                     /\ Abort(d, "run_container")
                     /\ Faulted(d)
       \/ /\ UNCHANGED hostVars
          /\ Abort(d, "run_container")
          /\ IF Named(n) = {} THEN Faulted(d) ELSE Delivered(d)

\* stepVerify asks a second later for the state of the container that now has
\* the name of the deployment.
Verify(d) ==
    /\ At(d, "verify")
    /\ UNCHANGED hostVars
    /\ \/ /\ Report(d, "done", "verify_running",
                    IF Running(Named(deploys[d].name)) # {} THEN "ok" ELSE "failed")
          /\ Delivered(d)
       \/ Abort(d, "verify_running") /\ Faulted(d)

DeployStep(d) ==
    \/ \E n \in Names, ref \in Refs : DeployProbe(d, n, ref)
    \/ Login(d) \/ PsName(d) \/ PsImage(d) \/ Stop(d) \/ RemoveContainers(d)
    \/ InspectImage(d) \/ RemoveImage(d) \/ Pull(d) \/ Run(d) \/ Verify(d)
=============================================================================
