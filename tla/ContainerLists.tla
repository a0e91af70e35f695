--------------------------- MODULE ContainerLists ---------------------------
(***************************************************************************)
(* The list of a host's containers, collected while the host goes on       *)
(* changing.  On the own host (docker.Collector) by calls of the engine's  *)
(* API: ping, version and info, list, and one inspection per container,    *)
(* InspectLimit at a time.  On a remote host (remotedocker.Collector) by   *)
(* one script over SSH, whose output may break off anywhere.               *)
(*                                                                         *)
(* The observers steady (the containers nobody has touched since the       *)
(* request began), hurt (those whose own inspection has failed) and        *)
(* trouble (anything else has failed) are read by properties only.         *)
(***************************************************************************)
EXTENDS Naturals, FiniteSets

CONSTANTS
    Boxes,          \* container ids of the host
    InspectLimit    \* inspectConcurrency

ASSUME InspectLimitPositive == InspectLimit \in Nat \ {0}

VARIABLES
    boxes,          \* docker ps -a
    engine,         \* the host's docker: up, down or not installed
    sweep,          \* the collection
    steady, hurt, trouble

boxVars == <<boxes, engine, sweep, steady, hurt, trouble>>
seenVars == <<steady, hurt, trouble>>

\* created and dead show like exited, restarting like paused: Running is set.
BoxState == {"running", "paused", "exited"}
Absent == "absent"

Present(b) == boxes[b] # Absent

\* A container of the answer: what its status line says, what its state is,
\* its Running flag, and whether an inspection supplied the details.
RowOf(status, state, running, from) ==
    [status |-> status, state |-> state, running |-> running, from |-> from]

HasRunning(st) == st \in {"running", "paused"}

\* The status line comes from the list, the state from the inspection.
MergeContainer(item, ins) == RowOf(item, ins, HasRunning(ins), "inspect")

\* The list alone: its State names one state, so a paused container does not
\* count as running here.
ContainerFromList(item) == RowOf(item, item, item = "running", "list")

\* buildContainer, buildStatusString: both from one inspection.
BuildContainer(ins) == MergeContainer(ins, ins)

Blocks == {"which", "version", "info", "inspect"}

NoSweep ==
    [of |-> "local", pc |-> "start", live |-> TRUE, answer |-> "none",
     listed |-> [b \in Boxes |-> Absent], busy |-> {}, rows |-> <<>>, errors |-> {},
     block |-> [k \in Blocks |-> "empty"]]

BoxInit ==
    /\ boxes \in [Boxes -> BoxState \cup {Absent}]
    /\ engine \in {"up", "down", "no-cli"}
    /\ \E of \in {"local", "remote"} : sweep = [NoSweep EXCEPT !.of = of]
    /\ steady = Boxes /\ hurt = {} /\ trouble = FALSE

SweepAt(of, pc) == sweep.of = of /\ sweep.pc = pc
SweepDone == sweep.pc = "done"
Listed == {b \in Boxes : sweep.listed[b] # Absent}

-----------------------------------------------------------------------------
(* The host and the client. *)

\* A container is created, started, paused, stopped or removed.
Touch(b) ==
    /\ ~SweepDone
    /\ boxes' \in {[boxes EXCEPT ![b] = st] : st \in (BoxState \cup {Absent}) \ {boxes[b]}}
    /\ steady' = steady \ {b}
    /\ UNCHANGED <<engine, sweep, hurt, trouble>>

\* The daemon stops or starts.
Daemon ==
    /\ ~SweepDone
    /\ \/ engine = "up" /\ engine' = "down"
       \/ engine = "down" /\ engine' = "up"
    /\ trouble' = TRUE
    /\ UNCHANGED <<boxes, sweep, steady, hurt>>

\* The client gives up or containersCollectTimeout is over.
SweepExpire ==
    /\ ~SweepDone /\ sweep.live
    /\ sweep' = [sweep EXCEPT !.live = FALSE]
    /\ trouble' = TRUE
    /\ UNCHANGED <<boxes, engine, steady, hurt>>

-----------------------------------------------------------------------------
(* docker.Collector.Collect *)

Unavailable(why) == sweep' = [sweep EXCEPT !.pc = "done", !.answer = why]

\* A call of the engine's API can be answered.
Reachable == engine = "up" /\ sweep.live

LocalPing ==
    /\ SweepAt("local", "start")
    /\ UNCHANGED <<boxes, engine, steady, hurt>>
    /\ \/ /\ Reachable
          /\ sweep' = [sweep EXCEPT !.pc = "engine", !.answer = "available"]
          /\ UNCHANGED trouble
       \/ Unavailable("daemon-unreachable") /\ trouble' = TRUE

\* collectEngine: version and info in parallel; one of them is enough.
LocalEngine ==
    /\ SweepAt("local", "engine")
    /\ \/ Reachable /\ sweep' = [sweep EXCEPT !.pc = "list"]
       \/ sweep' = [sweep EXCEPT !.pc = "list", !.errors = @ \cup {"engine"}]
    /\ UNCHANGED <<boxes, engine, seenVars>>

LocalList ==
    /\ SweepAt("local", "list")
    /\ UNCHANGED <<boxes, engine, steady, hurt>>
    /\ \/ /\ Reachable
          /\ sweep' = [sweep EXCEPT !.pc = "inspect", !.listed = boxes]
          /\ UNCHANGED trouble
       \/ /\ sweep' = [sweep EXCEPT !.pc = "done", !.errors = @ \cup {"list"}]
          /\ trouble' = TRUE

\* g.Go: the next item, once one of the InspectLimit places is free.
InspectStart(b) ==
    /\ SweepAt("local", "inspect")
    /\ b \in Listed \ (sweep.busy \cup DOMAIN sweep.rows)
    /\ Cardinality(sweep.busy) < InspectLimit
    /\ sweep' = [sweep EXCEPT !.busy = @ \cup {b}]
    /\ UNCHANGED <<boxes, engine, seenVars>>

PutRow(rows, b, row) == [x \in DOMAIN rows \cup {b} |-> IF x = b THEN row ELSE rows[x]]

Inspected(b, row, errors) ==
    sweep' = [sweep EXCEPT !.busy = @ \ {b}, !.rows = PutRow(@, b, row), !.errors = @ \cup errors]

\* Variant of InspectFails: the error is returned as well, and the group
\* cancels the context of the others.
InspectFailsAll(b) ==
    sweep' = [sweep EXCEPT !.busy = @ \ {b}, !.live = FALSE, !.errors = @ \cup {b},
                           !.rows = PutRow(@, b, ContainerFromList(sweep.listed[b]))]

\* Variant of InspectFails: the row is built, the error forgotten.
InspectFailsSilently(b) == Inspected(b, ContainerFromList(sweep.listed[b]), {})

\* An inspection fails: the container is shown as far as the list knows it.
InspectFails(b) == Inspected(b, ContainerFromList(sweep.listed[b]), {b})

InspectEnd(b) ==
    /\ b \in sweep.busy
    /\ UNCHANGED <<boxes, engine, steady, trouble>>
    /\ \/ /\ Reachable /\ Present(b)
          /\ Inspected(b, MergeContainer(sweep.listed[b], boxes[b]), {})
          /\ UNCHANGED hurt
       \/ /\ ~(Reachable /\ Present(b))
          /\ InspectFails(b)
          /\ UNCHANGED hurt
       \/ /\ Reachable /\ Present(b)
          /\ InspectFails(b)
          /\ hurt' = hurt \cup {b}

\* g.Wait
LocalJoin ==
    /\ SweepAt("local", "inspect")
    /\ Listed \subseteq DOMAIN sweep.rows
    /\ sweep' = [sweep EXCEPT !.pc = "done"]
    /\ UNCHANGED <<boxes, engine, seenVars>>

-----------------------------------------------------------------------------
(* remotedocker.Collector.Collect *)

\* runSSH: the request must be alive and the connection give a session; from
\* here on the context is not looked at.
RemoteStart ==
    /\ SweepAt("remote", "start")
    /\ UNCHANGED <<boxes, engine, seenVars>>
    /\ \/ sweep.live /\ sweep' = [sweep EXCEPT !.pc = "which"]
       \/ Unavailable("ssh-command-failed")

After == [which |-> "version", version |-> "info", info |-> "ps"]

\* The script's commands one after another.  A command that fails prints
\* nothing, and the script goes on.
RemoteHead(k) ==
    /\ SweepAt("remote", k)
    /\ \/ /\ IF k = "which" THEN engine # "no-cli" ELSE engine = "up"
          /\ sweep' = [sweep EXCEPT !.pc = After[k], !.block[k] = "whole"]
       \/ /\ k = "which" => engine = "no-cli"
          /\ sweep' = [sweep EXCEPT !.pc = After[k]]
    /\ UNCHANGED <<boxes, engine, seenVars>>

\* ids=$(docker ps -a -q)
RemotePs ==
    /\ SweepAt("remote", "ps")
    /\ UNCHANGED <<boxes, engine, steady, hurt>>
    /\ \/ /\ engine = "up"
          /\ sweep' = [sweep EXCEPT !.pc = "inspect", !.listed = boxes]
          /\ UNCHANGED trouble
       \/ sweep' = [sweep EXCEPT !.pc = "inspect"] /\ trouble' = TRUE

\* docker inspect of all ids: the ones that are gone are left out.
RemoteInspect ==
    /\ SweepAt("remote", "inspect")
    /\ UNCHANGED <<boxes, engine, steady, hurt>>
    /\ LET found == {b \in Listed : Present(b)}
       IN \/ /\ engine = "up" \/ Listed = {}
             /\ sweep' = [sweep EXCEPT !.pc = "parse", !.block["inspect"] = "whole",
                              !.rows = [b \in found |-> BuildContainer(boxes[b])]]
             /\ UNCHANGED trouble
          \/ Listed # {} /\ sweep' = [sweep EXCEPT !.pc = "parse"] /\ trouble' = TRUE

\* The connection is lost: what has arrived is all there is, the block under
\* way is missing or broken off.
RemoteCut ==
    /\ sweep.of = "remote" /\ sweep.pc \in Blocks \cup {"ps"}
    /\ \/ sweep' = [sweep EXCEPT !.pc = "parse"]
       \/ sweep.pc \in Blocks /\ sweep' = [sweep EXCEPT !.pc = "parse", !.block[sweep.pc] = "part"]
       \/ sweep.pc = "which" /\ Unavailable("ssh-command-failed")
    /\ trouble' = TRUE
    /\ UNCHANGED <<boxes, engine, steady, hurt>>

Parsed(k) == {e \in {k} : sweep.block[k] = "part"}

\* Collect judges the blocks; a broken block is an error, a missing one is not.
RemoteParse ==
    /\ SweepAt("remote", "parse")
    /\ UNCHANGED <<boxes, engine, seenVars>>
    /\ IF sweep.block["which"] = "empty" THEN Unavailable("docker-CLI-not-found")
       ELSE IF sweep.block["version"] = "empty" /\ sweep.block["info"] = "empty"
            THEN sweep' = [sweep EXCEPT !.pc = "done", !.answer = "daemon-unreachable", !.rows = <<>>]
       ELSE sweep' = [sweep EXCEPT !.pc = "done", !.answer = "available",
                        !.errors = Parsed("version") \cup Parsed("info") \cup Parsed("inspect")]

LocalStep ==
    \/ LocalPing \/ LocalEngine \/ LocalList \/ LocalJoin
    \/ \E b \in Boxes : InspectStart(b) \/ InspectEnd(b)

RemoteStep ==
    \/ RemoteStart \/ RemotePs \/ RemoteInspect \/ RemoteCut \/ RemoteParse
    \/ \E k \in DOMAIN After : RemoteHead(k)

BoxNext ==
    \/ LocalStep \/ RemoteStep \/ Daemon \/ SweepExpire
    \/ \E b \in Boxes : Touch(b)

-----------------------------------------------------------------------------
(* Properties *)

Rows == [status : BoxState, state : BoxState, running : BOOLEAN, from : {"inspect", "list"}]

BoxTypeOK ==
    /\ boxes \in [Boxes -> BoxState \cup {Absent}]
    /\ engine \in {"up", "down", "no-cli"}
    /\ sweep.pc \in {"start", "engine", "list", "ps", "parse", "done"} \cup Blocks
    /\ sweep.answer \in {"none", "available", "daemon-unreachable", "ssh-command-failed",
                         "docker-CLI-not-found"}
    /\ sweep.listed \in [Boxes -> BoxState \cup {Absent}]
    /\ Cardinality(sweep.busy) <= InspectLimit
    /\ DOMAIN sweep.rows \subseteq Boxes
    /\ \A b \in DOMAIN sweep.rows : sweep.rows[b] \in Rows
    /\ sweep.errors \subseteq Boxes \cup {"engine", "list"} \cup Blocks
    /\ steady \subseteq Boxes /\ hurt \subseteq Boxes

\* Failures stay where they are (both collectors): whatever becomes of the
\* other containers and of their inspections, one that nobody touches and
\* whose own inspection did not fail is shown as it is, with its details, and
\* one that is not there is not shown.
SteadyShown ==
    SweepDone /\ sweep.answer = "available" /\ ~trouble =>
        \A b \in steady \ hurt :
            IF Present(b) THEN b \in DOMAIN sweep.rows /\ sweep.rows[b] = BuildContainer(boxes[b])
                          ELSE b \notin DOMAIN sweep.rows

\* A list that carries no error is whole: every container that was listed and
\* stayed has its details - or the answer is empty, when the connection broke
\* off between two commands.
SilentIsWhole ==
    SweepDone /\ sweep.answer = "available" /\ sweep.errors = {} /\ sweep.rows # <<>> =>
        \A b \in steady \cap Listed :
            b \in DOMAIN sweep.rows /\ sweep.rows[b].from = "inspect"
=============================================================================
