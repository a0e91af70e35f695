----------------------------- MODULE DockerHost -----------------------------
(***************************************************************************)
(* The Docker engine of one remote server, as the runners of remotedeploy  *)
(* and remotepurge use it over SSH: containers with a unique name and the  *)
(* reference of the image they were made from, and the references of the   *)
(* images present.  It belongs to the environment, not to the repository.  *)
(*                                                                         *)
(* Two observers follow the jobs that use the host.  They are read by      *)
(* properties only: undisturbed holds the jobs since whose start nobody    *)
(* else has changed the host, faultless those whose commands have all been *)
(* delivered, executed and answered.                                       *)
(***************************************************************************)
EXTENDS Naturals, FiniteSets

CONSTANTS
    Containers,     \* container ids, never used twice
    Names,          \* container names
    Refs,           \* image references host/namespace/image:tag
    Jobs            \* deploys and purges, each run once

VARIABLES
    containers,     \* docker ps -a
    images,         \* docker images
    undisturbed,
    faultless

hostVars == <<containers, images>>

ContainerRow == [state : {"running", "exited", "created"}, name : Names, image : Refs]
NoContainer == [state |-> "none"]
RemovedContainer == [state |-> "removed"]

Exists(c) == containers[c].state \in {"running", "exited", "created"}
Named(n) == {c \in Containers : Exists(c) /\ containers[c].name = n}
OfImage(ref) == {c \in Containers : Exists(c) /\ containers[c].image = ref}
Running(S) == {c \in S : containers[c].state = "running"}

HostTypeOK ==
    /\ containers \in [Containers -> ContainerRow \cup {NoContainer, RemovedContainer}]
    /\ images \subseteq Refs
    /\ undisturbed \subseteq Jobs
    /\ faultless \subseteq Jobs

\* Earlier work of other people: at most one container, with or without its
\* image, or an image nobody uses.
HostInit ==
    /\ \/ containers = [c \in Containers |-> NoContainer]
       \/ \E c \in Containers, row \in ContainerRow :
            containers = [[x \in Containers |-> NoContainer] EXCEPT ![c] = row]
    /\ images \in SUBSET Refs
    /\ undisturbed = {}
    /\ faultless = {}

-----------------------------------------------------------------------------
(* What a docker command leaves behind. *)

Stopped(S) ==
    [c \in Containers |-> IF c \in Running(S) THEN [containers[c] EXCEPT !.state = "exited"]
                                              ELSE containers[c]]

Removed(S) == [c \in Containers |-> IF c \in S THEN RemovedContainer ELSE containers[c]]

Created(c, st, n, ref) ==
    [containers EXCEPT ![c] = [state |-> st, name |-> n, image |-> ref]]

\* docker rmi -f refuses only while a running container uses the image.
CanUntag(ref) == ref \in images /\ Running(OfImage(ref)) = {}

-----------------------------------------------------------------------------
(* The observers. *)

\* A step of job j: it disturbs the others if it changes the host.
Disturbs(j) == undisturbed' = IF UNCHANGED hostVars THEN undisturbed ELSE undisturbed \cap {j}

\* The command was executed and its answer arrived ...
Delivered(j) == Disturbs(j) /\ UNCHANGED faultless

\* ... or the engine refused it, the session was lost or the context ended.
Faulted(j) == Disturbs(j) /\ faultless' = faultless \ {j}

\* A container's main process ends.
Crash(c) ==
    /\ Exists(c) /\ containers[c].state = "running"
    /\ containers' = Stopped({c})
    /\ undisturbed' = {}
    /\ UNCHANGED <<images, faultless>>
=============================================================================
