------------------------------ MODULE HostJobs ------------------------------
(***************************************************************************)
(* Deploys and purges that share one server.  Their commands interleave:   *)
(* each request opens an SSH connection of its own and nothing orders them.*)
(***************************************************************************)
EXTENDS RemoteDeploy, RemotePurge

hostJobsVars == <<containers, images, undisturbed, faultless, deploys, purges>>

Init == HostInit /\ DeployInit /\ PurgeInit

\* A job is a deploy or a purge, not both.
Next ==
    \/ \E d \in Deploys : /\ d \in Purges => purges[d] = PurgeNotStarted
                         /\ DeployStep(d)
                         /\ UNCHANGED purges
    \/ \E p \in Purges : /\ p \in Deploys => deploys[p] = NotStarted
                        /\ PurgeStep(p)
                        /\ UNCHANGED deploys
    \/ \E c \in Containers : Crash(c) /\ UNCHANGED <<deploys, purges>>

Spec == Init /\ [][Next]_hostJobsVars

-----------------------------------------------------------------------------
(* Properties *)

TypeOK == HostTypeOK /\ DeployTypeOK /\ PurgeTypeOK

\* The steps of a chain, taken in order: once one has failed the rest was not
\* run, and none was run after one that was not.
InOrder(order, status) ==
    \A i, k \in 1..Len(order) : i < k /\ status[order[i]] \in {"failed", "not_run"}
        => status[order[k]] = "not_run"

\* "Strictly sequential" (both runners): whatever fails, and whoever else is
\* at work on the host, a report never shows a step after a failed one.
StrictlySequential ==
    /\ \A d \in Deploys : deploys[d] # NotStarted => InOrder(DeploySteps, deploys[d].status)
    /\ \A p \in Purges : purges[p] # PurgeNotStarted => InOrder(PurgeSteps, purges[p].status)

\* A job removes a container only if the container has the job's name or is
\* made from its image, although the list of ids it works through may be
\* stale by the time it is used: other people's containers on the server are
\* safe from it.
OnlyTargetsRemoved ==
    [][\A c \in Containers : Exists(c) /\ containers'[c] = RemovedContainer =>
         \/ \E d \in Deploys : /\ deploys'[d] # deploys[d]
                               /\ \/ containers[c].name = deploys[d].name
                                  \/ containers[c].image = deploys[d].ref
         \/ \E p \in Purges : /\ purges'[p] # purges[p]
                              /\ \/ containers[c].name = purges[p].name
                                 \/ containers[c].image = purges[p].ref]_hostJobsVars

\* What the host holds of a name and an image.
Of(n, ref) == Named(n) \cup OfImage(ref)

\* A retry heals: a deploy that nobody disturbs and none of whose commands
\* fails succeeds, from whatever earlier jobs broken off anywhere have left,
\* and then exactly its own container has its name or its image, running.
CleanDeploySucceeds ==
    \A d \in Deploys \cap undisturbed \cap faultless : deploys[d].pc = "done" =>
        /\ Succeeded(deploys[d])
        /\ Of(deploys[d].name, deploys[d].ref) = {deploys[d].cid}
        /\ containers[deploys[d].cid].state = "running"

\* The same for a purge: success, and nothing is left of the image or of the
\* named container.
CleanPurgeSucceeds ==
    \A p \in Purges \cap undisturbed \cap faultless : purges[p].pc = "done" =>
        /\ Purged(purges[p])
        /\ Of(purges[p].name, purges[p].ref) = {}
        /\ purges[p].ref \notin images

\* Success of a deploy nobody disturbed can be trusted even if sessions were
\* lost on the way: the container it reports is running under its name.
SuccessIsReal ==
    \A d \in Deploys \cap undisturbed : Succeeded(deploys[d]) =>
        Running(Named(deploys[d].name)) = {deploys[d].cid}

\* "no containers with this image, and the image itself not present; if
\* something remains, failed" (remotepurge): a successful purge nobody
\* disturbed has left nothing.
PurgeVerified ==
    \A p \in Purges \cap undisturbed : Purged(purges[p]) =>
        OfImage(purges[p].ref) = {} /\ purges[p].ref \notin images
=============================================================================
