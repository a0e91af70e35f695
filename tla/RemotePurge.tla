---------------------------- MODULE RemotePurge -----------------------------
(***************************************************************************)
(* remotepurge.Runner: the chain find, stop, rm, rmi, verify that removes  *)
(* an image and all its containers.  One action is one remote command.     *)
(***************************************************************************)
EXTENDS DockerHost, Sequences

CONSTANT Purges                 \* the jobs that run PurgeImage
ASSUME PurgesAreJobs == Purges \subseteq Jobs

VARIABLE purges                 \* PurgeResult and local variables of each Run

NoName == "none"                \* PurgeParams.ContainerName left empty

\* A container's name is never empty.
ASSUME NamesAreNames == NoName \notin Names

\* The order of PurgeResult.Steps.
PurgeSteps == <<"find_containers", "stop_containers", "remove_containers", "remove_image",
                "verify_purged">>
PurgeStepNames == {PurgeSteps[i] : i \in 1..Len(PurgeSteps)}

PurgeRun ==
    [pc : {"ps_name", "ps_image", "stop", "rm", "inspect", "rmi",
           "verify_name", "verify_image", "verify_inspect", "done"},
     name : Names \cup {NoName}, ref : Refs, ids : SUBSET Containers,
     status : [PurgeStepNames -> {"ok", "skipped", "failed", "not_run"}]]
PurgeNotStarted == [pc |-> "new"]

PurgeTypeOK == purges \in [Purges -> PurgeRun \cup {PurgeNotStarted}]
PurgeInit == purges = [p \in Purges |-> PurgeNotStarted]

\* Run has returned with Success (allOK of this package).
Purged(run) ==
    run.pc = "done" /\ \A s \in PurgeStepNames : run.status[s] \in {"ok", "skipped"}

-----------------------------------------------------------------------------

PurgeReport(p, pc, step, st) ==
    purges' = [purges EXCEPT ![p].pc = pc, ![p].status[step] = st]

PurgeAbort(p, step) == PurgeReport(p, "done", step, "failed")

PurgeAt(p, pc) == purges[p].pc = pc

\* Step 0, command -v docker; without a name only the image is searched for.
PurgeProbe(p, n, ref) ==
    /\ PurgeAt(p, "new")
    /\ UNCHANGED hostVars
    /\ \E pc \in {IF n = NoName THEN "ps_image" ELSE "ps_name", "done"} :
        /\ purges' = [purges EXCEPT ![p] =
               [pc |-> pc, name |-> n, ref |-> ref, ids |-> {},
                status |-> [s \in PurgeStepNames |-> "not_run"]]]
        /\ undisturbed' = undisturbed \cup {p}
        /\ faultless' = IF pc # "done" THEN faultless \cup {p} ELSE faultless

\* Variant of PurgePsName: docker ps without -a does not show what is not running.
PurgePsNameRunning(p) ==
    /\ PurgeAt(p, "ps_name")
    /\ UNCHANGED hostVars
    /\ purges' = [purges EXCEPT ![p].pc = "ps_image", ![p].ids = Running(Named(purges[p].name))]
    /\ Delivered(p)

\* Variant of PurgePsName: without ^ and $ other names match as well.
PurgePsNameUnanchored(p) ==
    /\ PurgeAt(p, "ps_name")
    /\ UNCHANGED hostVars
    /\ purges' = [purges EXCEPT ![p].pc = "ps_image", ![p].ids = {c \in Containers : Exists(c)}]
    /\ Delivered(p)

\* findExistingContainerIDs, first by name; an error reads like no container.
PurgePsName(p) ==
    /\ PurgeAt(p, "ps_name")
    /\ UNCHANGED hostVars
    /\ \/ /\ purges' = [purges EXCEPT ![p].pc = "ps_image", ![p].ids = Named(purges[p].name)]
          /\ Delivered(p)
       \/ /\ purges' = [purges EXCEPT ![p].pc = "ps_image"]
          /\ Faulted(p)

\* ... then by image; no step of find ever fails.
PurgePsImage(p) ==
    LET Found(ids) ==
          IF ids = {}
          THEN purges' = [purges EXCEPT ![p].pc = "inspect",
                                        ![p].status["find_containers"] = "skipped",
                                        ![p].status["stop_containers"] = "skipped",
                                        ![p].status["remove_containers"] = "skipped"]
          ELSE purges' = [purges EXCEPT ![p].pc = "stop", ![p].ids = ids,
                                        ![p].status["find_containers"] = "ok"]
    IN
    /\ PurgeAt(p, "ps_image")
    /\ UNCHANGED hostVars
    /\ \/ Found(purges[p].ids \cup OfImage(purges[p].ref)) /\ Delivered(p)
       \/ Found(purges[p].ids) /\ Faulted(p)

PurgeStop(p) ==
    LET ids == purges[p].ids IN
    /\ PurgeAt(p, "stop")
    /\ UNCHANGED images
    /\ \/ /\ containers' = Stopped(ids)
          /\ PurgeReport(p, "rm", "stop_containers", "ok")
          /\ Delivered(p)
       \/ /\ \E S \in SUBSET ids : containers' = Stopped(S)
          /\ PurgeReport(p, "rm", "stop_containers", "ok") \/ PurgeAbort(p, "stop_containers")
          /\ Faulted(p)

PurgeRemoveContainers(p) ==
    LET ids == purges[p].ids IN
    /\ PurgeAt(p, "rm")
    /\ UNCHANGED images
    /\ \/ /\ containers' = Removed(ids)
          /\ \/ PurgeReport(p, "inspect", "remove_containers", "ok")
             \/ (\E c \in ids : ~Exists(c)) /\ PurgeAbort(p, "remove_containers")
          /\ Delivered(p)
       \/ /\ \E S \in SUBSET ids : containers' = Removed(S)
          /\ PurgeAbort(p, "remove_containers")
          /\ Faulted(p)

\* docker image inspect: any error reads like an absent image.
PurgeInspectImage(p) ==
    /\ PurgeAt(p, "inspect")
    /\ UNCHANGED hostVars
    /\ \/ /\ purges[p].ref \in images
          /\ purges' = [purges EXCEPT ![p].pc = "rmi"]
          /\ Delivered(p)
       \/ /\ purges[p].ref \notin images
          /\ PurgeReport(p, "verify_name", "remove_image", "skipped")
          /\ Delivered(p)
       \/ /\ PurgeReport(p, "verify_name", "remove_image", "skipped")
          /\ Faulted(p)

\* docker rmi -f: here a refusal ends the chain.
PurgeRemoveImage(p) ==
    LET ref == purges[p].ref IN
    /\ PurgeAt(p, "rmi")
    /\ UNCHANGED containers
    /\ \/ /\ CanUntag(ref)
          /\ images' = images \ {ref}
          /\ \/ PurgeReport(p, "verify_name", "remove_image", "ok") /\ Delivered(p)
             \/ PurgeAbort(p, "remove_image") /\ Faulted(p)
       \/ /\ UNCHANGED images
          /\ PurgeAbort(p, "remove_image")
          /\ IF CanUntag(ref) THEN Faulted(p) ELSE Delivered(p)

\* stepVerifyPurged: the containers once more, by name if there is one ...
VerifyName(p) ==
    LET Seen(ids) == purges' = [purges EXCEPT ![p].pc = "verify_image", ![p].ids = ids] IN
    /\ PurgeAt(p, "verify_name")
    /\ UNCHANGED hostVars
    /\ \/ Seen(IF purges[p].name = NoName THEN {} ELSE Named(purges[p].name)) /\ Delivered(p)
       \/ Seen({}) /\ Faulted(p)

\* ... and by image ...
VerifyImage(p) ==
    LET Seen(ids) ==
          IF ids = {} THEN purges' = [purges EXCEPT ![p].pc = "verify_inspect"]
                      ELSE PurgeAbort(p, "verify_purged")
    IN
    /\ PurgeAt(p, "verify_image")
    /\ UNCHANGED hostVars
    /\ \/ Seen(purges[p].ids \cup OfImage(purges[p].ref)) /\ Delivered(p)
       \/ Seen(purges[p].ids) /\ Faulted(p)

\* ... and the image: only a successful inspect means that it is still there.
VerifyInspect(p) ==
    /\ PurgeAt(p, "verify_inspect")
    /\ UNCHANGED hostVars
    /\ \/ /\ IF purges[p].ref \in images
             THEN PurgeAbort(p, "verify_purged")
             ELSE PurgeReport(p, "done", "verify_purged", "ok")
          /\ Delivered(p)
       \/ PurgeReport(p, "done", "verify_purged", "ok") /\ Faulted(p)

PurgeStep(p) ==
    \/ \E n \in Names \cup {NoName}, ref \in Refs : PurgeProbe(p, n, ref)
    \/ PurgePsName(p) \/ PurgePsImage(p) \/ PurgeStop(p) \/ PurgeRemoveContainers(p)
    \/ PurgeInspectImage(p) \/ PurgeRemoveImage(p)
    \/ VerifyName(p) \/ VerifyImage(p) \/ VerifyInspect(p)
=============================================================================
