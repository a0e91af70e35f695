------------------------------ MODULE ListProofs ------------------------------
(***************************************************************************)
(* Inductive invariants of the endpoints of Collections that answer with a *)
(* list: a host's containers, its services, and a table page by page.      *)
(* CollectionProofs puts them together with the others.                    *)
(***************************************************************************)
EXTENDS ContainerLists, ServiceLists, Listings, FiniteSetTheorems, SequenceTheorems, TLAPS

-----------------------------------------------------------------------------
(* The containers of a host. *)

Faults == Boxes \cup {"engine", "list"} \cup Blocks

RowSets == UNION {[S -> Rows] : S \in SUBSET Boxes}

Sweeps ==
    [of : {"local", "remote"},
     pc : {"start", "engine", "list", "ps", "parse", "done"} \cup Blocks,
     live : BOOLEAN,
     answer : {"none", "available", "daemon-unreachable", "ssh-command-failed",
               "docker-CLI-not-found"},
     listed : [Boxes -> BoxState \cup {Absent}],
     busy : SUBSET Boxes, rows : RowSets,
     errors : SUBSET Faults,
     block : [Blocks -> {"empty", "whole", "part"}]]

BoxShape ==
    /\ boxes \in [Boxes -> BoxState \cup {Absent}]
    /\ engine \in {"up", "down", "no-cli"}
    /\ sweep \in Sweeps
    /\ IsFiniteSet(sweep.busy) /\ Cardinality(sweep.busy) <= InspectLimit
    /\ steady \subseteq Boxes /\ hurt \subseteq Boxes /\ trouble \in BOOLEAN

\* The list agrees with the host on every container nobody has touched.
ListTrue == \A b \in steady : sweep.listed[b] = boxes[b]

\* What holds of the own host's collection, place by place: its errors tell
\* of every row without details, and without trouble every other row is right.
LocalStory ==
    /\ sweep.pc \in {"start", "engine", "list", "inspect", "done"}
    /\ sweep.pc \in {"start", "engine", "list"} => DOMAIN sweep.rows = {}
    /\ sweep.pc # "inspect" => sweep.busy = {}
    /\ sweep.busy \cap DOMAIN sweep.rows = {}
    /\ sweep.pc \in {"engine", "list", "inspect"} /\ ~trouble => Reachable
    /\ sweep.pc = "inspect" => ListTrue
    /\ SweepDone /\ sweep.answer = "available" =>
          \/ "list" \in sweep.errors /\ trouble
          \/ ListTrue /\ Listed \subseteq DOMAIN sweep.rows
    /\ DOMAIN sweep.rows \cup sweep.busy \subseteq Listed
    /\ \A b \in DOMAIN sweep.rows :
          /\ sweep.rows[b].from = "list" => b \in sweep.errors
          /\ ~trouble /\ b \in steady \ hurt => sweep.rows[b] = BuildContainer(boxes[b])

\* What holds of a remote collection: rows come from one inspection of all
\* that was listed, and only trouble can leave it out.
RemoteStory ==
    /\ sweep.pc \in {"start", "which", "version", "info", "ps", "inspect", "parse", "done"}
    /\ sweep.busy = {}
    /\ sweep.pc \notin {"parse", "done"} => sweep.block["inspect"] = "empty"
    /\ sweep.block["inspect"] # "whole" => sweep.rows = <<>>
    /\ \A b \in steady \cap Listed : sweep.listed[b] = boxes[b]
    /\ sweep.pc = "inspect" /\ ~trouble => ListTrue
    /\ sweep.pc = "parse" \/ (SweepDone /\ sweep.answer = "available") =>
          /\ ~trouble => ListTrue /\ sweep.block["inspect"] = "whole"
          /\ sweep.block["inspect"] = "whole" =>
                \A b \in steady :
                   /\ b \in Listed => b \in DOMAIN sweep.rows
                   /\ b \in DOMAIN sweep.rows =>
                         Present(b) /\ sweep.rows[b] = BuildContainer(boxes[b])

BoxInv ==
    /\ BoxShape
    /\ sweep.of = "local" => LocalStory
    /\ sweep.of = "remote" => RemoteStory

LEMMA NoRows == <<>> \in RowSets /\ DOMAIN <<>> = {}
<1>1. <<>> \in [{} -> Rows] /\ DOMAIN <<>> = {}
    OBVIOUS
<1> QED
    BY <1>1 DEF RowSets

LEMMA BoxInvStart ==
  ASSUME boxes \in [Boxes -> BoxState \cup {Absent}], engine \in {"up", "down", "no-cli"},
         NEW of \in {"local", "remote"}, sweep = NoSweep \/ sweep = [NoSweep EXCEPT !.of = of],
         steady = Boxes, hurt = {}, trouble = FALSE
  PROVE  BoxInv
<1>1. /\ sweep.of \in {"local", "remote"} /\ sweep.pc = "start" /\ sweep.answer = "none" /\ sweep.rows = <<>>
      /\ sweep.busy = {} /\ sweep.listed = [b \in Boxes |-> Absent] /\ sweep.errors = {}
      /\ sweep.block = [k \in Blocks |-> "empty"] /\ sweep \in Sweeps
  <2>1. CASE sweep = NoSweep
      BY <2>1, NoRows DEF NoSweep, Sweeps
  <2>2. CASE sweep = [NoSweep EXCEPT !.of = of]
      BY <2>2, NoRows DEF NoSweep, Sweeps
  <2> QED
      BY <2>1, <2>2
<1>2. Cardinality(sweep.busy) <= InspectLimit /\ IsFiniteSet(sweep.busy)
  <2>1. Cardinality({}) = 0 /\ IsFiniteSet({})
      BY FS_EmptySet
  <2>2. Cardinality(sweep.busy) = 0 /\ IsFiniteSet(sweep.busy)
      BY <1>1, <2>1, Zenon
  <2> QED
      BY <2>2, InspectLimitPositive
<1>3. BoxShape
    BY <1>1, <1>2 DEF BoxShape
<1>4. LocalStory
  <2>1. DOMAIN sweep.rows = {} /\ sweep.busy = {} /\ sweep.pc = "start"
      BY <1>1, NoRows
  <2> QED
      BY <2>1 DEF LocalStory, SweepDone
<1>5. RemoteStory
  <2>1. sweep.block["inspect"] = "empty" /\ Listed = {}
      BY <1>1 DEF Blocks, Listed
  <2> QED
      BY <1>1, <2>1 DEF RemoteStory, SweepDone
<1> QED
    BY <1>3, <1>4, <1>5 DEF BoxInv

LEMMA BoxInvInit == BoxInit => BoxInv
    BY BoxInvStart DEF BoxInit

LEMMA TouchKeeps ==
  ASSUME BoxInv, NEW b \in Boxes, Touch(b)
  PROVE  BoxInv'
<1>1. /\ boxes' \in [Boxes -> BoxState \cup {Absent}] /\ \A c \in Boxes \ {b} : boxes'[c] = boxes[c]
      /\ steady' = steady \ {b} /\ sweep' = sweep /\ engine' = engine /\ hurt' = hurt
      /\ trouble' = trouble /\ steady \subseteq Boxes
    BY DEF Touch, BoxInv, BoxShape
<1> QED
    BY <1>1 DEF BoxInv, BoxShape, LocalStory, RemoteStory, SweepDone, Listed, ListTrue, Reachable, Present

LEMMA DaemonKeeps ==
  ASSUME BoxInv, Daemon \/ SweepExpire
  PROVE  BoxInv'
<1>1. /\ trouble' = TRUE /\ boxes' = boxes /\ steady' = steady /\ hurt' = hurt
      /\ engine' \in {"up", "down", "no-cli"} /\ sweep' \in Sweeps
      /\ sweep'.of = sweep.of /\ sweep'.pc = sweep.pc /\ sweep'.answer = sweep.answer
      /\ sweep'.listed = sweep.listed /\ sweep'.busy = sweep.busy /\ sweep'.rows = sweep.rows
      /\ sweep'.errors = sweep.errors /\ sweep'.block = sweep.block
    BY DEF Daemon, SweepExpire, BoxInv, BoxShape, Sweeps
<1> QED
    BY <1>1 DEF BoxInv, BoxShape, LocalStory, RemoteStory, SweepDone, Listed, ListTrue, Present

\* A step of the own host's collection leaves the host alone, and has its
\* story to tell.
LEMMA LocalKeeps ==
  ASSUME BoxShape', sweep'.of = "local", LocalStory'
  PROVE  BoxInv'
    BY DEF BoxInv

LEMMA LocalPingKeeps ==
  ASSUME BoxInv, LocalPing
  PROVE  BoxInv'
<1>1. /\ sweep.of = "local" /\ sweep.pc = "start" /\ sweep \in Sweeps /\ LocalStory
      /\ boxes' = boxes /\ engine' = engine /\ steady' = steady /\ hurt' = hurt
    BY DEF LocalPing, SweepAt, BoxInv, BoxShape
<1>2. /\ sweep' \in Sweeps /\ sweep'.of = "local" /\ sweep'.listed = sweep.listed
      /\ sweep'.busy = sweep.busy /\ sweep'.rows = sweep.rows /\ sweep'.live = sweep.live
      /\ \/ sweep'.pc = "engine" /\ Reachable /\ trouble' = trouble
         \/ sweep'.pc = "done" /\ sweep'.answer # "available" /\ trouble' = TRUE
    BY <1>1 DEF LocalPing, Unavailable, Sweeps, Reachable
<1>3. BoxShape'
    BY <1>1, <1>2 DEF BoxInv, BoxShape
<1>4. LocalStory'
    BY <1>1, <1>2 DEF LocalStory, Reachable, SweepDone, Listed
<1> QED
    BY <1>2, <1>3, <1>4, LocalKeeps

LEMMA LocalEngineKeeps ==
  ASSUME BoxInv, LocalEngine
  PROVE  BoxInv'
<1>1. /\ sweep.of = "local" /\ sweep.pc = "engine" /\ sweep \in Sweeps /\ LocalStory
      /\ UNCHANGED <<boxes, engine, seenVars>>
    BY DEF LocalEngine, SweepAt, BoxInv, BoxShape
<1>2. /\ sweep' \in Sweeps /\ sweep'.of = "local" /\ sweep'.listed = sweep.listed
      /\ sweep'.busy = sweep.busy /\ sweep'.rows = sweep.rows /\ sweep'.live = sweep.live
      /\ sweep'.pc = "list"
  <2>1. sweep.errors \cup {"engine"} \in SUBSET Faults
      BY <1>1 DEF Sweeps, Faults
  <2>2. sweep' = [sweep EXCEPT !.pc = "list"] \/ sweep' = [sweep EXCEPT !.pc = "list", !.errors = sweep.errors \cup {"engine"}]
      BY DEF LocalEngine
  <2> QED
      BY <1>1, <2>1, <2>2 DEF Sweeps
<1>3. BoxShape'
    BY <1>1, <1>2 DEF BoxInv, BoxShape, seenVars
<1>4. LocalStory'
    BY <1>1, <1>2 DEF LocalStory, Reachable, SweepDone, Listed, seenVars
<1> QED
    BY <1>2, <1>3, <1>4, LocalKeeps

LEMMA LocalListKeeps ==
  ASSUME BoxInv, LocalList
  PROVE  BoxInv'
<1>1. /\ sweep.of = "local" /\ sweep.pc = "list" /\ sweep \in Sweeps /\ LocalStory
      /\ boxes' = boxes /\ engine' = engine /\ steady' = steady /\ hurt' = hurt
      /\ boxes \in [Boxes -> BoxState \cup {Absent}] /\ steady \subseteq Boxes
    BY DEF LocalList, SweepAt, BoxInv, BoxShape
<1>2. /\ sweep' \in Sweeps /\ sweep'.of = "local"
      /\ sweep'.busy = sweep.busy /\ sweep'.rows = sweep.rows /\ sweep'.live = sweep.live
      /\ \/ sweep'.pc = "inspect" /\ sweep'.listed = boxes /\ Reachable /\ trouble' = trouble
         \/ sweep'.pc = "done" /\ "list" \in sweep'.errors /\ trouble' = TRUE
  <2>1. sweep.errors \cup {"list"} \in SUBSET Faults
      BY <1>1 DEF Sweeps, Faults
  <2>2. CASE Reachable /\ sweep' = [sweep EXCEPT !.pc = "inspect", !.listed = boxes] /\ trouble' = trouble
      BY <1>1, <2>2 DEF Sweeps, Blocks
  <2>3. CASE sweep' = [sweep EXCEPT !.pc = "done", !.errors = sweep.errors \cup {"list"}] /\ trouble' = TRUE
      BY <1>1, <2>1, <2>3 DEF Sweeps, Blocks
  <2> QED
      BY <2>2, <2>3 DEF LocalList
<1>3. BoxShape'
    BY <1>1, <1>2 DEF BoxInv, BoxShape
<1>4. LocalStory'
    BY <1>1, <1>2 DEF LocalStory, Reachable, SweepDone, Listed, ListTrue
<1> QED
    BY <1>2, <1>3, <1>4, LocalKeeps

LEMMA InspectStartKeeps ==
  ASSUME BoxInv, NEW b \in Boxes, InspectStart(b)
  PROVE  BoxInv'
<1>1. /\ sweep.of = "local" /\ sweep.pc = "inspect" /\ sweep \in Sweeps /\ LocalStory
      /\ UNCHANGED <<boxes, engine, seenVars>>
      /\ b \in Listed \ DOMAIN sweep.rows /\ Cardinality(sweep.busy) < InspectLimit /\ IsFiniteSet(sweep.busy)
    BY DEF InspectStart, SweepAt, BoxInv, BoxShape
<1>2. /\ sweep' \in Sweeps /\ sweep'.of = "local" /\ sweep'.listed = sweep.listed
      /\ sweep'.busy = sweep.busy \cup {b} /\ sweep'.rows = sweep.rows /\ sweep'.live = sweep.live
      /\ sweep'.pc = "inspect" /\ sweep'.errors = sweep.errors
    BY <1>1 DEF InspectStart, Sweeps
<1>3. IsFiniteSet(sweep'.busy) /\ Cardinality(sweep'.busy) <= InspectLimit
  <2>1. Cardinality(sweep.busy) \in Nat
      BY <1>1, FS_CardinalityType
  <2>2. IsFiniteSet(sweep.busy \cup {b})
        /\ (Cardinality(sweep.busy \cup {b}) = Cardinality(sweep.busy)
            \/ Cardinality(sweep.busy \cup {b}) = Cardinality(sweep.busy) + 1)
      BY <1>1, FS_AddElement
  <2> QED
      BY <1>1, <1>2, <2>1, <2>2, InspectLimitPositive
<1>4. BoxShape'
    BY <1>1, <1>2, <1>3 DEF BoxInv, BoxShape, seenVars
<1>5. LocalStory'
    BY <1>1, <1>2 DEF LocalStory, Reachable, SweepDone, Listed, ListTrue, seenVars
<1> QED
    BY <1>2, <1>4, <1>5, LocalKeeps

LEMMA LocalJoinKeeps ==
  ASSUME BoxInv, LocalJoin
  PROVE  BoxInv'
<1>1. /\ sweep.of = "local" /\ sweep.pc = "inspect" /\ sweep \in Sweeps /\ LocalStory
      /\ UNCHANGED <<boxes, engine, seenVars>> /\ Listed \subseteq DOMAIN sweep.rows
    BY DEF LocalJoin, SweepAt, BoxInv, BoxShape
<1>2. /\ sweep' \in Sweeps /\ sweep'.of = "local" /\ sweep'.listed = sweep.listed
      /\ sweep'.busy = sweep.busy /\ sweep'.rows = sweep.rows
      /\ sweep'.pc = "done" /\ sweep'.errors = sweep.errors
    BY <1>1 DEF LocalJoin, Sweeps
<1>3. BoxShape'
    BY <1>1, <1>2 DEF BoxInv, BoxShape, seenVars
<1>4. LocalStory'
    BY <1>1, <1>2 DEF LocalStory, SweepDone, Listed, ListTrue, seenVars
<1> QED
    BY <1>2, <1>3, <1>4, LocalKeeps

\* A row is put among the others.
LEMMA PutRowType ==
  ASSUME NEW rows \in RowSets, NEW b \in Boxes, NEW row \in Rows
  PROVE  /\ PutRow(rows, b, row) \in RowSets
         /\ DOMAIN PutRow(rows, b, row) = DOMAIN rows \cup {b}
         /\ PutRow(rows, b, row)[b] = row
         /\ \A c \in DOMAIN rows \ {b} : PutRow(rows, b, row)[c] = rows[c]
<1>1. PICK S \in SUBSET Boxes : rows \in [S -> Rows]
    BY DEF RowSets
<1>2. PutRow(rows, b, row) \in [S \cup {b} -> Rows]
    BY <1>1 DEF PutRow
<1>3. S \cup {b} \in SUBSET Boxes
    OBVIOUS
<1>4. PutRow(rows, b, row) \in RowSets
    BY <1>2, <1>3 DEF RowSets
<1> QED
    BY <1>1, <1>4 DEF PutRow

\* One inspection ends, with the row it makes and the errors it adds.
LEMMA RowAdded ==
  ASSUME BoxInv, sweep.of = "local", NEW b \in sweep.busy, NEW row \in Rows,
         NEW errors \in SUBSET {b}, Inspected(b, row, errors),
         UNCHANGED <<boxes, engine, steady, trouble>>, hurt' \in {hurt, hurt \cup {b}},
         row.from = "list" => b \in errors,
         ~trouble /\ b \in steady \ hurt' => row = BuildContainer(boxes[b])
  PROVE  BoxInv'
<1>1. /\ sweep \in Sweeps /\ LocalStory /\ b \in Boxes /\ sweep.rows \in RowSets
      /\ sweep.pc = "inspect" /\ sweep.errors \in SUBSET Faults
    BY DEF BoxInv, BoxShape, LocalStory, Sweeps
<1>2. PICK rows : rows = PutRow(sweep.rows, b, row)
    OBVIOUS
<1>3. /\ rows \in RowSets /\ DOMAIN rows = DOMAIN sweep.rows \cup {b} /\ rows[b] = row
      /\ \A c \in DOMAIN sweep.rows \ {b} : rows[c] = sweep.rows[c]
  <2>1. /\ PutRow(sweep.rows, b, row) \in RowSets
        /\ DOMAIN PutRow(sweep.rows, b, row) = DOMAIN sweep.rows \cup {b}
        /\ PutRow(sweep.rows, b, row)[b] = row
        /\ \A c \in DOMAIN sweep.rows \ {b} : PutRow(sweep.rows, b, row)[c] = sweep.rows[c]
      BY <1>1, PutRowType, ZenonT(30)
  <2> QED
      BY <1>2, <2>1
<1>4. sweep.errors \cup errors \in SUBSET Faults /\ sweep.busy \ {b} \in SUBSET Boxes
    BY <1>1 DEF Sweeps, Faults
<1>5. sweep' = [sweep EXCEPT !.busy = sweep.busy \ {b}, !.rows = rows, !.errors = sweep.errors \cup errors]
    BY <1>2 DEF Inspected
<1>6. /\ sweep' \in Sweeps /\ sweep'.of = "local" /\ sweep'.listed = sweep.listed
      /\ sweep'.busy = sweep.busy \ {b} /\ sweep'.rows = rows /\ sweep'.live = sweep.live
      /\ sweep'.pc = sweep.pc /\ sweep'.errors = sweep.errors \cup errors
      /\ sweep'.answer = sweep.answer
    BY <1>1, <1>3, <1>4, <1>5 DEF Sweeps
<1>7. IsFiniteSet(sweep'.busy) /\ Cardinality(sweep'.busy) <= InspectLimit
  <2>1. Cardinality(sweep.busy) \in Nat /\ IsFiniteSet(sweep.busy) /\ Cardinality(sweep.busy) <= InspectLimit
      BY FS_CardinalityType DEF BoxInv, BoxShape
  <2>2. IsFiniteSet(sweep.busy \ {b}) /\ Cardinality(sweep.busy \ {b}) = Cardinality(sweep.busy) - 1
      BY <2>1, FS_RemoveElement
  <2> QED
      BY <1>6, <2>1, <2>2, InspectLimitPositive
<1>8. BoxShape'
    BY <1>1, <1>6, <1>7 DEF BoxInv, BoxShape
<1>9. LocalStory'
  <2>1. DOMAIN sweep'.rows \cup sweep'.busy \subseteq Listed'
      BY <1>1, <1>3, <1>6 DEF LocalStory, Listed
  <2>2. ASSUME NEW c \in DOMAIN sweep'.rows
        PROVE  /\ sweep'.rows[c].from = "list" => c \in sweep'.errors
               /\ ~trouble' /\ c \in steady' \ hurt' => sweep'.rows[c] = BuildContainer(boxes'[c])
    <3>1. CASE c = b
        BY <1>3, <1>6, <3>1
    <3>2. CASE c # b
        BY <1>1, <1>3, <1>6, <3>2 DEF LocalStory
    <3> QED
        BY <3>1, <3>2
  <2> QED
      BY <1>1, <1>3, <1>6, <2>1, <2>2 DEF LocalStory, Reachable, SweepDone, Listed, ListTrue
<1> QED
    BY <1>6, <1>8, <1>9, LocalKeeps

LEMMA RowTypes ==
  /\ \A item, ins \in BoxState : MergeContainer(item, ins) \in Rows /\ MergeContainer(item, ins).from = "inspect"
  /\ \A item \in BoxState : ContainerFromList(item) \in Rows
    BY DEF MergeContainer, ContainerFromList, RowOf, HasRunning, Rows

LEMMA InspectEndKeeps ==
  ASSUME BoxInv, NEW b \in Boxes, InspectEnd(b)
  PROVE  BoxInv'
<1>1. /\ sweep.of = "local" /\ sweep.pc = "inspect" /\ sweep \in Sweeps /\ LocalStory
      /\ UNCHANGED <<boxes, engine, steady, trouble>> /\ b \in sweep.busy /\ b \in Listed
      /\ boxes \in [Boxes -> BoxState \cup {Absent}] /\ sweep.listed \in [Boxes -> BoxState \cup {Absent}]
    BY DEF InspectEnd, BoxInv, BoxShape, LocalStory, RemoteStory, Sweeps
<1>2. sweep.listed[b] \in BoxState /\ ContainerFromList(sweep.listed[b]) \in Rows
    BY <1>1, RowTypes DEF Listed
<1>3. CASE Reachable /\ Present(b) /\ Inspected(b, MergeContainer(sweep.listed[b], boxes[b]), {})
           /\ hurt' = hurt
  <2>1. boxes[b] \in BoxState
      BY <1>1, <1>3 DEF Present
  <2>2. PICK row : row = MergeContainer(sweep.listed[b], boxes[b])
      OBVIOUS
  <2>3. row \in Rows /\ row.from = "inspect"
      BY <1>2, <2>1, <2>2, RowTypes
  <2>4. b \in steady => row = BuildContainer(boxes[b])
      BY <1>1, <2>2 DEF LocalStory, ListTrue, BuildContainer
  <2> QED
      BY <1>1, <1>3, <2>2, <2>3, <2>4, RowAdded
<1>4. CASE ~(Reachable /\ Present(b)) /\ InspectFails(b) /\ hurt' = hurt
  <2>1. ~(~trouble /\ b \in steady)
      BY <1>1, <1>4 DEF LocalStory, ListTrue, Present, Listed
  <2> QED
      BY <1>1, <1>2, <1>4, <2>1, RowAdded DEF InspectFails
<1>5. CASE InspectFails(b) /\ hurt' = hurt \cup {b}
    BY <1>1, <1>2, <1>5, RowAdded DEF InspectFails
<1> QED
    BY <1>3, <1>4, <1>5 DEF InspectEnd

LEMMA RemoteKeeps ==
  ASSUME BoxShape', sweep'.of = "remote", RemoteStory'
  PROVE  BoxInv'
    BY DEF BoxInv

\* What a step of a remote collection finds.
LEMMA RemoteFinds ==
  ASSUME BoxInv, sweep.of = "remote"
  PROVE  /\ RemoteStory /\ sweep \in Sweeps /\ sweep.busy = {}
         /\ IsFiniteSet(sweep.busy) /\ Cardinality(sweep.busy) <= InspectLimit
         /\ boxes \in [Boxes -> BoxState \cup {Absent}] /\ steady \subseteq Boxes
         /\ sweep.rows \in RowSets /\ sweep.block \in [Blocks -> {"empty", "whole", "part"}]
         /\ sweep.listed \in [Boxes -> BoxState \cup {Absent}]
    BY DEF BoxInv, BoxShape, RemoteStory, Sweeps

\* The script's part before docker ps, and a start that fails.
LEMMA RemoteHeadKeeps ==
  ASSUME BoxInv, RemoteStart \/ \E k \in DOMAIN After : RemoteHead(k)
  PROVE  BoxInv'
<1>0. DOMAIN After = {"which", "version", "info"}
    BY DEF After
<1>1. sweep.of = "remote" /\ UNCHANGED <<boxes, engine, seenVars>>
      /\ sweep.pc \in {"start", "which", "version", "info"}
    BY <1>0 DEF RemoteStart, RemoteHead, SweepAt
<1> DEFINE Moved ==
      /\ sweep' \in Sweeps /\ sweep'.of = "remote" /\ sweep'.listed = sweep.listed
      /\ sweep'.busy = sweep.busy /\ sweep'.rows = sweep.rows
      /\ sweep'.block["inspect"] = sweep.block["inspect"]
      /\ \/ sweep'.pc \in {"which", "version", "info", "ps"}
         \/ sweep'.pc = "done" /\ sweep'.answer # "available"
<1>2. Moved
  <2>1. CASE RemoteStart
      BY <1>1, <2>1, RemoteFinds DEF RemoteStart, Unavailable, Sweeps, Blocks
  <2>2. ASSUME NEW k \in {"which", "version", "info"}, RemoteHead(k)
        PROVE  Moved
    <3>1. After[k] \in {"version", "info", "ps"} /\ k \in Blocks /\ k # "inspect"
        BY DEF After, Blocks
    <3>2. [sweep.block EXCEPT ![k] = "whole"] \in [Blocks -> {"empty", "whole", "part"}]
          /\ [sweep.block EXCEPT ![k] = "whole"]["inspect"] = sweep.block["inspect"]
        BY <1>1, <3>1, RemoteFinds DEF Blocks
    <3>3. \/ sweep' = [sweep EXCEPT !.pc = After[k], !.block = [sweep.block EXCEPT ![k] = "whole"]]
          \/ sweep' = [sweep EXCEPT !.pc = After[k]]
        BY <2>2, Zenon DEF RemoteHead
    <3> QED
        BY <1>1, <3>1, <3>2, <3>3, RemoteFinds DEF Sweeps, Blocks
  <2> QED
      BY <1>0, <2>1, <2>2
<1>3. BoxShape'
    BY <1>1, <1>2, RemoteFinds DEF BoxInv, BoxShape, seenVars
<1>4. RemoteStory'
    BY <1>1, <1>2, RemoteFinds DEF RemoteStory, SweepDone, Listed, seenVars
<1> QED
    BY <1>2, <1>3, <1>4, RemoteKeeps

LEMMA RemotePsKeeps ==
  ASSUME BoxInv, RemotePs
  PROVE  BoxInv'
<1>1. sweep.of = "remote" /\ UNCHANGED <<boxes, engine, steady, hurt>> /\ sweep.pc = "ps"
    BY DEF RemotePs, SweepAt
<1>2. /\ sweep' \in Sweeps /\ sweep'.of = "remote" /\ sweep'.pc = "inspect"
      /\ sweep'.busy = sweep.busy /\ sweep'.rows = sweep.rows /\ sweep'.block = sweep.block
      /\ \/ sweep'.listed = boxes /\ trouble' = trouble
         \/ sweep'.listed = sweep.listed /\ trouble' = TRUE
    BY <1>1, RemoteFinds DEF RemotePs, Sweeps, Blocks
<1>3. BoxShape'
    BY <1>1, <1>2, RemoteFinds DEF BoxInv, BoxShape
<1>4. RemoteStory'
    BY <1>1, <1>2, RemoteFinds DEF RemoteStory, SweepDone, Listed, ListTrue
<1> QED
    BY <1>2, <1>3, <1>4, RemoteKeeps

LEMMA RemoteInspectKeeps ==
  ASSUME BoxInv, RemoteInspect
  PROVE  BoxInv'
<1>1. sweep.of = "remote" /\ UNCHANGED <<boxes, engine, steady, hurt>> /\ sweep.pc = "inspect"
    BY DEF RemoteInspect, SweepAt
<1>2. PICK rows : rows = [b \in {b \in Listed : Present(b)} |-> BuildContainer(boxes[b])]
    OBVIOUS
<1>3. /\ rows \in RowSets /\ DOMAIN rows = {b \in Listed : Present(b)}
      /\ \A b \in DOMAIN rows : rows[b] = BuildContainer(boxes[b])
  <2>1. Listed \subseteq Boxes
      BY DEF Listed
  <2>2. \A b \in Boxes : Present(b) => BuildContainer(boxes[b]) \in Rows
      BY <1>1, RowTypes, RemoteFinds DEF BuildContainer, Present
  <2>3. rows \in [{b \in Listed : Present(b)} -> Rows]
      BY <1>2, <2>1, <2>2
  <2> QED
      BY <1>2, <2>1, <2>3 DEF RowSets
<1>4. CASE /\ sweep' = [sweep EXCEPT !.pc = "parse", !.block["inspect"] = "whole", !.rows = rows]
           /\ trouble' = trouble
  <2>1. /\ sweep' \in Sweeps /\ sweep'.of = "remote" /\ sweep'.pc = "parse"
        /\ sweep'.busy = sweep.busy /\ sweep'.rows = rows /\ sweep'.listed = sweep.listed
        /\ sweep'.block["inspect"] = "whole"
      BY <1>1, <1>3, <1>4, RemoteFinds DEF Sweeps, Blocks
  <2>2. BoxShape'
      BY <1>1, <1>4, <2>1, RemoteFinds DEF BoxInv, BoxShape
  <2>3. \A b \in steady : b \in Listed => Present(b)
      BY <1>1, RemoteFinds DEF RemoteStory, Listed, Present
  <2>4. RemoteStory'
      BY <1>1, <1>3, <1>4, <2>1, <2>3, RemoteFinds DEF RemoteStory, SweepDone, Listed, ListTrue, Present
  <2> QED
      BY <2>1, <2>2, <2>4, RemoteKeeps
<1>5. CASE sweep' = [sweep EXCEPT !.pc = "parse"] /\ trouble' = TRUE
  <2>1. /\ sweep' \in Sweeps /\ sweep'.of = "remote" /\ sweep'.pc = "parse"
        /\ sweep'.busy = sweep.busy /\ sweep'.rows = sweep.rows /\ sweep'.listed = sweep.listed
        /\ sweep'.block = sweep.block
      BY <1>1, <1>5, RemoteFinds DEF Sweeps, Blocks
  <2>2. BoxShape'
      BY <1>1, <1>5, <2>1, RemoteFinds DEF BoxInv, BoxShape
  <2>3. RemoteStory'
      BY <1>1, <1>5, <2>1, RemoteFinds DEF RemoteStory, SweepDone, Listed
  <2> QED
      BY <2>1, <2>2, <2>3, RemoteKeeps
<1> QED
    BY <1>2, <1>4, <1>5 DEF RemoteInspect

LEMMA RemoteCutKeeps ==
  ASSUME BoxInv, RemoteCut
  PROVE  BoxInv'
<1>1. sweep.of = "remote" /\ UNCHANGED <<boxes, engine, steady, hurt>>
      /\ sweep.pc \in Blocks \cup {"ps"} /\ trouble' = TRUE
    BY DEF RemoteCut
<1>2. /\ sweep' \in Sweeps /\ sweep'.of = "remote" /\ sweep'.listed = sweep.listed
      /\ sweep'.busy = sweep.busy /\ sweep'.rows = sweep.rows
      /\ sweep'.block["inspect"] \in {sweep.block["inspect"], "part"}
      /\ \/ sweep'.pc = "parse"
         \/ sweep'.pc = "done" /\ sweep'.answer # "available"
  <2>1. CASE sweep' = [sweep EXCEPT !.pc = "parse"]
      BY <1>1, <2>1, RemoteFinds DEF Sweeps, Blocks
  <2>2. CASE Unavailable("ssh-command-failed")
      BY <1>1, <2>2, RemoteFinds DEF Sweeps, Blocks, Unavailable
  <2>3. CASE sweep.pc \in Blocks /\ sweep' = [sweep EXCEPT !.pc = "parse", !.block[sweep.pc] = "part"]
    <3>1. PICK k \in Blocks : k = sweep.pc
        BY <2>3
    <3>2. [sweep.block EXCEPT ![k] = "part"] \in [Blocks -> {"empty", "whole", "part"}]
          /\ [sweep.block EXCEPT ![k] = "part"]["inspect"] \in {sweep.block["inspect"], "part"}
        BY <1>1, <3>1, RemoteFinds DEF Blocks
    <3>3. sweep' = [sweep EXCEPT !.pc = "parse", !.block = [sweep.block EXCEPT ![k] = "part"]]
        BY <2>3, <3>1
    <3> QED
        BY <1>1, <3>1, <3>2, <3>3, RemoteFinds DEF Sweeps, Blocks
  <2> QED
      BY <2>1, <2>2, <2>3 DEF RemoteCut
<1>3. BoxShape'
    BY <1>1, <1>2, RemoteFinds DEF BoxInv, BoxShape
<1>4. RemoteStory'
  <2>1. sweep.block["inspect"] = "empty" /\ sweep.rows = <<>>
      BY <1>1, RemoteFinds DEF RemoteStory, Blocks
  <2> QED
      BY <1>1, <1>2, <2>1, RemoteFinds DEF RemoteStory, SweepDone, Listed
<1> QED
    BY <1>2, <1>3, <1>4, RemoteKeeps

LEMMA RemoteParseKeeps ==
  ASSUME BoxInv, RemoteParse
  PROVE  BoxInv'
<1>1. sweep.of = "remote" /\ UNCHANGED <<boxes, engine, seenVars>> /\ sweep.pc = "parse"
    BY DEF RemoteParse, SweepAt
<1>2. /\ sweep' \in Sweeps /\ sweep'.of = "remote" /\ sweep'.listed = sweep.listed
      /\ sweep'.busy = sweep.busy /\ sweep'.block = sweep.block /\ sweep'.pc = "done"
      /\ \/ sweep'.rows = sweep.rows
         \/ sweep'.rows = <<>> /\ sweep'.answer # "available"
  <2>1. Parsed("version") \cup Parsed("info") \cup Parsed("inspect") \in SUBSET Faults
      BY DEF Parsed, Faults, Blocks
  <2>2. CASE Unavailable("docker-CLI-not-found")
      BY <1>1, <2>2, RemoteFinds DEF Sweeps, Blocks, Unavailable
  <2>3. CASE sweep' = [sweep EXCEPT !.pc = "done", !.answer = "daemon-unreachable", !.rows = <<>>]
      BY <1>1, <2>3, NoRows, RemoteFinds DEF Sweeps, Blocks
  <2>4. CASE sweep' = [sweep EXCEPT !.pc = "done", !.answer = "available",
                        !.errors = Parsed("version") \cup Parsed("info") \cup Parsed("inspect")]
      BY <1>1, <2>1, <2>4, RemoteFinds DEF Sweeps, Blocks
  <2> QED
      BY <2>2, <2>3, <2>4 DEF RemoteParse
<1>3. BoxShape'
    BY <1>1, <1>2, RemoteFinds DEF BoxInv, BoxShape, seenVars
<1>4. RemoteStory'
    BY <1>1, <1>2, RemoteFinds DEF RemoteStory, SweepDone, Listed, ListTrue, Present, seenVars
<1> QED
    BY <1>2, <1>3, <1>4, RemoteKeeps

LEMMA BoxInvStep == BoxInv /\ BoxNext => BoxInv'
    BY TouchKeeps, DaemonKeeps, LocalPingKeeps, LocalEngineKeeps, LocalListKeeps, InspectStartKeeps,
       InspectEndKeeps, LocalJoinKeeps, RemoteHeadKeeps, RemotePsKeeps, RemoteInspectKeeps,
       RemoteCutKeeps, RemoteParseKeeps
    DEF BoxNext, LocalStep, RemoteStep

LEMMA BoxInvRest == BoxInv /\ UNCHANGED boxVars => BoxInv'
    BY DEF boxVars, BoxInv, BoxShape, LocalStory, RemoteStory, SweepDone, Listed, ListTrue, Reachable,
       Present

LEMMA BoxInvTypes == BoxInv => BoxTypeOK
<1> SUFFICES ASSUME BoxInv PROVE BoxTypeOK
    OBVIOUS
<1>1. PICK S \in SUBSET Boxes : sweep.rows \in [S -> Rows]
    BY DEF BoxInv, BoxShape, Sweeps, RowSets
<1> QED
    BY <1>1 DEF BoxInv, BoxShape, Sweeps, Faults, BoxTypeOK

LEMMA BoxInvSteady == BoxInv => SteadyShown
<1> SUFFICES ASSUME BoxInv, SweepDone, sweep.answer = "available", ~trouble, NEW b \in steady \ hurt
             PROVE  IF Present(b) THEN b \in DOMAIN sweep.rows /\ sweep.rows[b] = BuildContainer(boxes[b])
                                  ELSE b \notin DOMAIN sweep.rows
    BY DEF SteadyShown
<1>1. b \in Boxes /\ sweep.of \in {"local", "remote"}
    BY DEF BoxInv, BoxShape, Sweeps
<1>2. CASE sweep.of = "local"
    BY <1>1, <1>2 DEF BoxInv, LocalStory, ListTrue, Listed, Present
<1>3. CASE sweep.of = "remote"
    BY <1>1, <1>3 DEF BoxInv, RemoteStory, ListTrue, Listed, Present
<1> QED
    BY <1>1, <1>2, <1>3

LEMMA BoxInvSilent == BoxInv => SilentIsWhole
<1> SUFFICES ASSUME BoxInv, SweepDone, sweep.answer = "available", sweep.errors = {},
                    sweep.rows # <<>>, NEW b \in steady \cap Listed
             PROVE  b \in DOMAIN sweep.rows /\ sweep.rows[b].from = "inspect"
    BY DEF SilentIsWhole
<1>1. b \in Boxes /\ sweep.of \in {"local", "remote"} /\ sweep.rows \in RowSets
    BY DEF BoxInv, BoxShape, Sweeps
<1>2. CASE sweep.of = "local"
  <2>1. b \in DOMAIN sweep.rows /\ sweep.rows[b].from # "list"
      BY <1>1, <1>2 DEF BoxInv, LocalStory
  <2>2. sweep.rows[b] \in Rows
      BY <1>1, <2>1 DEF RowSets
  <2> QED
      BY <2>1, <2>2 DEF Rows
<1>3. CASE sweep.of = "remote"
  <2>1. b \in DOMAIN sweep.rows /\ sweep.rows[b] = BuildContainer(boxes[b])
      BY <1>1, <1>3 DEF BoxInv, RemoteStory
  <2> QED
      BY <2>1 DEF BuildContainer, MergeContainer, RowOf
<1> QED
    BY <1>1, <1>2, <1>3

-----------------------------------------------------------------------------
(* The services of a host. *)

ServiceRows == [name : Units \cup {Trimmed[u] : u \in Units}, active : UnitState \cup {"not-found"},
             props : SUBSET AllProps]

Stages == {"waiting", "unit", "service", "enriched"}

Scans ==
    [of : {"local", "remote"}, pc : {"start", "list", "enrich", "show", "done"}, live : BOOLEAN,
     answer : {"none", "available", "systemd-unreachable", "ssh-command-failed",
               "systemctl-not-found"},
     list : Seq(Units), busy : Seq(Stages), rows : Seq(ServiceRows), next : Nat \ {0},
     errors : SUBSET (AllProps \cup {"list-units", "show"})]

Watches == [steady : SUBSET Units, hurt : SUBSET (Units \X AllProps), trouble : BOOLEAN]

UnitShape ==
    /\ units \in [Units -> UnitState \cup {Gone}]
    /\ manager \in {"up", "unreachable", "not-installed"}
    /\ scan \in Scans /\ watch \in Watches
    /\ Cardinality(InProgress) <= PropsLimit
    /\ Len(scan.rows) = Len(scan.list)

Has(i, c) == c \in scan.rows[i].props
IsHurt(i, c) == <<scan.list[i], c>> \in watch.hurt

\* The listed units are, where nobody has touched them, the units there are.
ListingStory ==
    /\ \A i, j \in DOMAIN scan.list : scan.list[i] = scan.list[j] => i = j
    /\ \A i \in DOMAIN scan.list :
          /\ scan.rows[i].name = (IF scan.of = "local" THEN scan.list[i] ELSE Trimmed[scan.list[i]])
          /\ scan.list[i] \in watch.steady => Loaded(scan.list[i])
          /\ scan.list[i] \in watch.steady \ XUnits => scan.rows[i].active = units[scan.list[i]]
    /\ scan.pc \notin {"start", "list"} /\ scan.answer = "available" /\ ~watch.trouble /\ manager = "up" =>
          \A u \in watch.steady : Loaded(u) => \E i \in DOMAIN scan.list : scan.list[i] = u

\* The calls that are over when a unit is at a stage.
CallsBefore(stage) ==
    CASE stage = "service" -> {"unit"} [] stage = "enriched" -> AllProps [] OTHER -> {}

\* On the own host a call that is over has brought its properties, or is an
\* error and is known to have failed.
LocalScan ==
    /\ scan.pc \in {"start", "list", "enrich", "done"}
    /\ scan.pc \in {"start", "list"} => scan.list = <<>>
    /\ Len(scan.busy) = Len(scan.list)
    /\ \A i \in DOMAIN scan.list : \A c \in CallsBefore(scan.busy[i]) :
          Has(i, c) \/ (c \in scan.errors /\ IsHurt(i, c))
    /\ ScanDone => \A i \in DOMAIN scan.list : scan.busy[i] = "enriched"

\* No other row has the name of row i.
Single(i) == \A j \in DOMAIN scan.rows : scan.rows[j].name = scan.rows[i].name => j = i

\* On a remote host the batches that are over have brought them, or have failed;
\* of rows that share a name that is not said.
RemoteScan ==
    /\ scan.pc \in {"start", "show", "done"}
    /\ scan.pc = "start" => scan.list = <<>> /\ scan.next = 1
    /\ scan.busy = <<>>
    /\ \A i \in DOMAIN scan.list : i < scan.next /\ Single(i) =>
          \A c \in AllProps : Has(i, c) \/ IsHurt(i, c)
    /\ ScanDone => scan.next > Len(scan.list)

UnitInv ==
    /\ UnitShape /\ ListingStory
    /\ scan.of = "local" => LocalScan
    /\ scan.of = "remote" => RemoteScan

LEMMA UnitInvStart ==
  ASSUME units \in [Units -> UnitState \cup {Gone}], manager \in {"up", "unreachable", "not-installed"},
         NEW of \in {"local", "remote"}, scan = [NoScan EXCEPT !.of = of],
         watch = [steady |-> Units, hurt |-> {}, trouble |-> FALSE]
  PROVE  UnitInv
<1>1. /\ scan.of = of /\ scan.pc = "start" /\ scan.answer = "none" /\ scan.rows = <<>>
      /\ scan.list = <<>> /\ scan.busy = <<>> /\ scan.next = 1 /\ scan \in Scans /\ watch \in Watches
  <2>1. watch \in Watches
      BY DEF Watches
  <2>2. <<>> \in Seq(Units) /\ <<>> \in Seq(Stages) /\ <<>> \in Seq(ServiceRows) /\ 1 \in Nat \ {0}
      OBVIOUS
  <2>3. scan \in Scans
      BY <2>2 DEF NoScan, Scans
  <2> QED
      BY <2>1, <2>3 DEF NoScan
<1>2. /\ DOMAIN scan.list = {} /\ InProgress = {} /\ Len(scan.rows) = Len(scan.list)
      /\ Len(scan.busy) = Len(scan.list)
    BY <1>1 DEF InProgress
<1>3. Cardinality(InProgress) <= PropsLimit
  <2>1. Cardinality({}) = 0
      BY FS_EmptySet
  <2>2. Cardinality(InProgress) = 0
      BY <1>2, <2>1, Zenon
  <2> QED
      BY <2>2, UnitBounds
<1>4. UnitShape
    BY <1>1, <1>2, <1>3 DEF UnitShape
<1>5. ListingStory /\ LocalScan /\ RemoteScan
    BY <1>1, <1>2 DEF ListingStory, LocalScan, RemoteScan, ScanDone
<1> QED
    BY <1>4, <1>5 DEF UnitInv

LEMMA UnitInvInit == UnitInit => UnitInv
    BY UnitInvStart DEF UnitInit

\* The list is a list of loaded units, each once, and of all of them.
LEMMA WholeList ==
  ASSUME NEW list \in UnitLists
  PROVE  /\ list \in Seq(Units)
         /\ \A i \in DOMAIN list : Loaded(list[i])
         /\ \A i, j \in DOMAIN list : list[i] = list[j] => i = j
         /\ \A u \in Units : Loaded(u) => \E i \in DOMAIN list : list[i] = u
<1>1. PICK there : there = {u \in Units : Loaded(u)}
    OBVIOUS
<1>2. PICK n : n = Cardinality(there)
    OBVIOUS
<1>3. IsFiniteSet(there) /\ n \in Nat
  <2>1. IsFiniteSet(Units)
      BY FS_Interval, UnitBounds DEF Units
  <2>2. IsFiniteSet(there)
      BY <1>1, <2>1, FS_Subset
  <2> QED
      BY <1>2, <2>2, FS_CardinalityType
<1>4. list \in [1..n -> there] /\ \A i, j \in DOMAIN list : i < j => list[i] < list[j]
    BY <1>1, <1>2 DEF UnitLists
<1>5. there \subseteq Units /\ \A u \in there : u \in Int /\ Loaded(u)
    BY <1>1, UnitBounds DEF Units
<1>6. ASSUME NEW i \in DOMAIN list, NEW j \in DOMAIN list, list[i] = list[j] PROVE i = j
  <2>1. i \in 1..n /\ j \in 1..n /\ list[i] \in Int
      BY <1>4, <1>5
  <2> QED
      BY <1>3, <1>4, <1>6, <2>1
<1>7. list \in Injection(1..n, there)
    BY <1>4, <1>6 DEF Injection, IsInjective
<1>8. list \in Surjection(1..n, there)
  <2>1. Cardinality(1..n) = n /\ IsFiniteSet(1..n)
      BY <1>3, FS_Interval
  <2> QED
      BY <1>2, <1>3, <1>7, <2>1, FS_Injection
<1>9. ASSUME NEW u \in Units, Loaded(u) PROVE \E i \in DOMAIN list : list[i] = u
    BY <1>1, <1>4, <1>8, <1>9 DEF Surjection
<1>10. list \in Seq(Units)
    BY <1>3, <1>4, <1>5, SeqDef
<1> QED
    BY <1>4, <1>5, <1>6, <1>9, <1>10

\* What a step of a collection finds.
LEMMA ScanFinds ==
  ASSUME UnitInv
  PROVE  /\ scan \in Scans /\ watch \in Watches /\ UnitShape /\ ListingStory
         /\ units \in [Units -> UnitState \cup {Gone}]
         /\ scan.list \in Seq(Units) /\ scan.busy \in Seq(Stages) /\ scan.rows \in Seq(ServiceRows)
         /\ DOMAIN scan.list = 1..Len(scan.list) /\ DOMAIN scan.rows = DOMAIN scan.list
         /\ Len(scan.rows) = Len(scan.list) /\ Len(scan.list) \in Nat
         /\ scan.next \in Nat \ {0} /\ watch.steady \subseteq Units
         /\ watch.hurt \subseteq Units \X AllProps
    BY DEF UnitInv, UnitShape, Scans, Watches

\* The listing, where a step leaves it and the host alone.
LEMMA ListingKept ==
  ASSUME ListingStory, scan'.list = scan.list, scan'.of = scan.of, UNCHANGED units,
         watch'.steady = watch.steady, ~watch'.trouble => ~watch.trouble,
         \A i \in DOMAIN scan.list : /\ scan'.rows[i].name = scan.rows[i].name
                                     /\ scan'.rows[i].active = scan.rows[i].active,
         ~watch'.trouble /\ manager' = "up" /\ scan'.pc \notin {"start", "list"} /\ scan'.answer = "available" =>
              scan.pc \notin {"start", "list"} /\ scan.answer = "available" /\ manager = "up"
  PROVE  ListingStory'
    BY DEF ListingStory, Loaded

LEMMA UnitChangeKeeps ==
  ASSUME UnitInv, NEW u \in Units, UnitChange(u)
  PROVE  UnitInv'
<1>1. /\ units' \in [Units -> UnitState \cup {Gone}] /\ \A w \in Units \ {u} : units'[w] = units[w]
      /\ manager' = manager /\ scan' = scan /\ watch' = [watch EXCEPT !.steady = watch.steady \ {u}]
    BY ScanFinds DEF UnitChange
<1>2. /\ watch' \in Watches /\ watch'.steady = watch.steady \ {u} /\ watch'.hurt = watch.hurt
      /\ watch'.trouble = watch.trouble
    BY <1>1, ScanFinds DEF Watches
<1>3. UnitShape'
    BY <1>1, <1>2, ScanFinds DEF UnitShape, InProgress
<1>4. ListingStory'
    BY <1>1, <1>2, ScanFinds DEF ListingStory, Loaded
<1>5. /\ scan'.of = "local" => LocalScan'
      /\ scan'.of = "remote" => RemoteScan'
    BY <1>1, <1>2 DEF UnitInv, LocalScan, RemoteScan, ScanDone, Has, IsHurt, Single
<1> QED
    BY <1>3, <1>4, <1>5 DEF UnitInv

LEMMA ManagerLostKeeps ==
  ASSUME UnitInv, ManagerLost \/ ScanExpire
  PROVE  UnitInv'
<1>1. /\ manager' \in {"up", "unreachable", "not-installed"} /\ units' = units
      /\ watch' = [watch EXCEPT !.trouble = TRUE]
      /\ scan' = scan \/ scan' = [scan EXCEPT !.live = FALSE]
    BY DEF UnitInv, UnitShape, ManagerLost, ScanExpire, Trouble, Reading
<1>2. /\ scan' \in Scans /\ watch' \in Watches /\ watch'.trouble /\ watch'.steady = watch.steady
      /\ watch'.hurt = watch.hurt /\ scan'.of = scan.of /\ scan'.pc = scan.pc
      /\ scan'.answer = scan.answer /\ scan'.list = scan.list /\ scan'.busy = scan.busy
      /\ scan'.rows = scan.rows /\ scan'.next = scan.next /\ scan'.errors = scan.errors
    BY <1>1, ScanFinds DEF Scans, Watches
<1>3. UnitShape'
    BY <1>1, <1>2, ScanFinds DEF UnitShape, InProgress
<1>4. ListingStory'
    BY <1>1, <1>2, ScanFinds, ListingKept
<1>5. /\ scan'.of = "local" => LocalScan'
      /\ scan'.of = "remote" => RemoteScan'
    BY <1>2 DEF UnitInv, LocalScan, RemoteScan, ScanDone, Has, IsHurt, Single
<1> QED
    BY <1>3, <1>4, <1>5 DEF UnitInv

LEMMA LocalScanKeeps ==
  ASSUME UnitShape', ListingStory', scan'.of = "local", LocalScan'
  PROVE  UnitInv'
    BY DEF UnitInv

LEMMA RemoteScanKeeps ==
  ASSUME UnitShape', ListingStory', scan'.of = "remote", RemoteScan'
  PROVE  UnitInv'
    BY DEF UnitInv

LEMMA ConnectKeeps ==
  ASSUME UnitInv, Connect
  PROVE  UnitInv'
<1>1. scan.of = "local" /\ scan.pc = "start" /\ UNCHANGED <<units, manager>> /\ LocalScan
    BY DEF Connect, ScanAt, Reading, UnitInv
<1>2. /\ scan' \in Scans /\ scan'.of = "local" /\ scan'.list = scan.list /\ scan'.busy = scan.busy
      /\ scan'.rows = scan.rows
      /\ \/ scan'.pc = "list" /\ watch' = watch
         \/ scan'.pc = "done" /\ scan'.answer # "available" /\ watch' = [watch EXCEPT !.trouble = TRUE]
    BY <1>1, ScanFinds DEF Connect, ScanEnd, Trouble, Scans
<1>3. /\ watch' \in Watches /\ watch'.steady = watch.steady /\ watch'.hurt = watch.hurt
      /\ ~watch'.trouble => ~watch.trouble
    BY <1>2, ScanFinds DEF Watches
<1>4. UnitShape'
    BY <1>1, <1>2, <1>3, ScanFinds DEF UnitShape, InProgress
<1>5. ListingStory'
    BY <1>1, <1>2, <1>3, ScanFinds, ListingKept
<1>6. LocalScan'
    BY <1>1, <1>2 DEF LocalScan, ScanDone
<1> QED
    BY <1>2, <1>4, <1>5, <1>6, LocalScanKeeps

LEMMA ServiceTypes ==
  ASSUME NEW u \in Units, Loaded(u), units \in [Units -> UnitState \cup {Gone}]
  PROVE  /\ Service(u, units[u], {}) \in ServiceRows
         /\ Service(Trimmed[u], units[u], {}) \in ServiceRows
  BY DEF Service, ServiceRows, Loaded

LEMMA ListUnitsKeeps ==
  ASSUME UnitInv, ListUnits
  PROVE  UnitInv'
<1>1. scan.of = "local" /\ scan.pc = "list" /\ UNCHANGED <<units, manager>> /\ LocalScan
    BY Zenon DEF ListUnits, ScanAt, Reading, UnitInv
<1>2. ASSUME NEW list \in UnitLists, watch' = watch,
             scan' = [scan EXCEPT !.pc = "enrich", !.list = list,
                           !.busy = [i \in DOMAIN list |-> "waiting"],
                           !.rows = [i \in DOMAIN list |-> Service(list[i], units[list[i]], {})]]
      PROVE  UnitInv'
  <2>1. /\ list \in Seq(Units) /\ DOMAIN list = 1..Len(list) /\ Len(list) \in Nat
        /\ \A i \in DOMAIN list : Loaded(list[i]) /\ list[i] \in Units
        /\ \A i, j \in DOMAIN list : list[i] = list[j] => i = j
        /\ \A u \in Units : Loaded(u) => \E i \in DOMAIN list : list[i] = u
      BY WholeList
  <2>2. PICK busy : busy = [i \in DOMAIN list |-> "waiting"]
      OBVIOUS
  <2>3. PICK rows : rows = [i \in DOMAIN list |-> Service(list[i], units[list[i]], {})]
      OBVIOUS
  <2>4. /\ busy \in Seq(Stages) /\ Len(busy) = Len(list)
        /\ \A i \in DOMAIN list : busy[i] = "waiting"
      BY <2>1, <2>2 DEF Stages
  <2>5. /\ rows \in Seq(ServiceRows) /\ Len(rows) = Len(list)
        /\ \A i \in DOMAIN list : rows[i].name = list[i] /\ rows[i].active = units[list[i]]
    <3>1. \A i \in 1..Len(list) : rows[i] \in ServiceRows /\ rows[i] = Service(list[i], units[list[i]], {})
        BY <2>1, <2>3, ServiceTypes, ScanFinds
    <3>2. rows \in [1..Len(list) -> ServiceRows]
        BY <2>1, <2>3, <3>1
    <3>3. rows \in Seq(ServiceRows)
        BY <2>1, <3>2, SeqDef
    <3> QED
        BY <2>1, <3>1, <3>2, <3>3 DEF Service
  <2>6. scan' = [scan EXCEPT !.pc = "enrich", !.list = list, !.busy = busy, !.rows = rows]
      BY <1>2, <2>2, <2>3
  <2>7. /\ scan' \in Scans /\ scan'.of = "local" /\ scan'.list = list /\ scan'.busy = busy
        /\ scan'.rows = rows /\ scan'.pc = "enrich"
      BY <1>1, <2>1, <2>4, <2>5, <2>6, ScanFinds DEF Scans
  <2>8. InProgress' = {}
      BY <2>1, <2>4, <2>7 DEF InProgress, AllProps
  <2>9. Cardinality(InProgress') <= PropsLimit
    <3>1. Cardinality({}) = 0
        BY FS_EmptySet
    <3>2. Cardinality(InProgress') = 0
        BY <2>8, <3>1, Zenon
    <3> QED
        BY <3>2, UnitBounds
  <2>10. UnitShape'
      BY <1>1, <1>2, <2>5, <2>7, <2>9, ScanFinds DEF UnitShape
  <2>11. ListingStory'
      BY <1>1, <1>2, <2>1, <2>5, <2>7, ScanFinds DEF ListingStory, Loaded
  <2>12. LocalScan'
      BY <2>1, <2>4, <2>7 DEF LocalScan, ScanDone, CallsBefore
  <2> QED
      BY <2>7, <2>10, <2>11, <2>12, LocalScanKeeps
<1>3. ASSUME Trouble, scan' = [scan EXCEPT !.pc = "done", !.errors = @ \cup {"list-units"}]
      PROVE  UnitInv'
  <2>1. scan.errors \cup {"list-units"} \in SUBSET (AllProps \cup {"list-units", "show"})
      BY ScanFinds DEF Scans
  <2>2. /\ scan' \in Scans /\ scan'.of = "local" /\ scan'.list = scan.list /\ scan'.busy = scan.busy
        /\ scan'.rows = scan.rows /\ scan'.pc = "done"
      BY <1>1, <1>3, <2>1, ScanFinds DEF Scans
  <2>3. /\ watch' \in Watches /\ watch'.steady = watch.steady /\ watch'.hurt = watch.hurt
        /\ watch'.trouble
      BY <1>3, ScanFinds DEF Watches, Trouble
  <2>4. UnitShape'
      BY <1>1, <2>2, <2>3, ScanFinds DEF UnitShape, InProgress
  <2>5. ListingStory'
      BY <1>1, <2>2, <2>3, ScanFinds, ListingKept
  <2>6. LocalScan'
      BY <1>1, <2>2 DEF LocalScan, ScanDone
  <2> QED
      BY <2>2, <2>4, <2>5, <2>6, LocalScanKeeps
<1> QED
    BY <1>2, <1>3, Zenon DEF ListUnits

\* Whatever place a unit's goroutine takes, the others keep theirs.
LEMMA StageMoves ==
  ASSUME UnitInv, scan.of = "local", NEW i \in DOMAIN scan.busy, NEW stage \in Stages,
         scan'.busy = [scan.busy EXCEPT ![i] = stage]
  PROVE  /\ scan'.busy \in Seq(Stages) /\ Len(scan'.busy) = Len(scan.busy)
         /\ DOMAIN scan'.busy = DOMAIN scan.busy /\ scan'.busy[i] = stage
         /\ \A k \in DOMAIN scan.busy \ {i} : scan'.busy[k] = scan.busy[k]
         /\ IsFiniteSet(InProgress) /\ Cardinality(InProgress) \in Nat
         /\ InProgress' = IF stage \in AllProps THEN InProgress \cup {i} ELSE InProgress \ {i}
<1>1. scan.busy \in Seq(Stages) /\ DOMAIN scan.busy = 1..Len(scan.busy) /\ Len(scan.busy) \in Nat
    BY ScanFinds
<1>2. IsFiniteSet(InProgress)
  <2>1. IsFiniteSet(1..Len(scan.busy))
      BY <1>1, FS_Interval
  <2>2. InProgress \in SUBSET (1..Len(scan.busy))
      BY <1>1 DEF InProgress
  <2> QED
      BY <2>1, <2>2, FS_Subset
<1>3. Cardinality(InProgress) \in Nat
    BY <1>2, FS_CardinalityType
<1>4. /\ scan'.busy \in Seq(Stages) /\ Len(scan'.busy) = Len(scan.busy)
      /\ DOMAIN scan'.busy = DOMAIN scan.busy /\ scan'.busy[i] = stage
      /\ \A k \in DOMAIN scan.busy \ {i} : scan'.busy[k] = scan.busy[k]
    BY <1>1
<1>5. InProgress' = IF stage \in AllProps THEN InProgress \cup {i} ELSE InProgress \ {i}
    BY <1>4 DEF InProgress
<1> QED
    BY <1>2, <1>3, <1>4, <1>5

LEMMA EnrichStartKeeps ==
  ASSUME UnitInv, NEW i, EnrichStart(i)
  PROVE  UnitInv'
<1>1. /\ scan.of = "local" /\ scan.pc = "enrich" /\ UNCHANGED <<units, manager, watch>> /\ LocalScan
      /\ i \in DOMAIN scan.busy /\ scan.busy[i] = "waiting" /\ Cardinality(InProgress) < PropsLimit
      /\ scan' = [scan EXCEPT !.busy = [scan.busy EXCEPT ![i] = "unit"]]
    BY DEF EnrichStart, ScanAt, Reading, UnitInv
<1>2. [scan.busy EXCEPT ![i] = "unit"] \in Seq(Stages)
    BY <1>1, ScanFinds DEF Stages
<1>3. /\ scan' \in Scans /\ scan'.of = "local" /\ scan'.list = scan.list
      /\ scan'.busy = [scan.busy EXCEPT ![i] = "unit"]
      /\ scan'.rows = scan.rows /\ scan'.pc = "enrich" /\ scan'.answer = scan.answer
      /\ scan'.errors = scan.errors
    BY <1>1, <1>2, ScanFinds DEF Scans
<1>4. "unit" \in Stages /\ "unit" \in AllProps
    BY DEF Stages, AllProps
<1>5. /\ Len(scan'.busy) = Len(scan.busy) /\ scan'.busy[i] = "unit"
      /\ \A k \in DOMAIN scan.busy \ {i} : scan'.busy[k] = scan.busy[k]
      /\ IsFiniteSet(InProgress) /\ Cardinality(InProgress) \in Nat
      /\ InProgress' = InProgress \cup {i}
    BY <1>1, <1>3, <1>4, StageMoves
<1>6. Cardinality(InProgress') <= PropsLimit
  <2>1. \/ Cardinality(InProgress \cup {i}) = Cardinality(InProgress)
        \/ Cardinality(InProgress \cup {i}) = Cardinality(InProgress) + 1
      BY <1>5, FS_AddElement
  <2> QED
      BY <1>1, <1>5, <2>1, UnitBounds
<1>7. UnitShape'
    BY <1>1, <1>3, <1>6, ScanFinds DEF UnitShape
<1>8. ListingStory'
    BY <1>1, <1>3, ScanFinds, ListingKept
<1>9. LocalScan'
  <2>1. DOMAIN scan.busy = DOMAIN scan.list
      BY <1>1, ScanFinds DEF LocalScan
  <2>2. CallsBefore(scan'.busy[i]) = {}
      BY <1>5 DEF CallsBefore
  <2> QED
      BY <1>1, <1>3, <1>5, <2>1, <2>2 DEF LocalScan, ScanDone, Has, IsHurt
<1> QED
    BY <1>3, <1>7, <1>8, <1>9, LocalScanKeeps

\* The places InProgress names are those of units being asked about.
LEMMA InProgressFinds ==
  ASSUME UnitInv, NEW i \in InProgress
  PROVE  /\ scan.of = "local" /\ LocalScan /\ i \in DOMAIN scan.list /\ i \in DOMAIN scan.busy
         /\ scan.pc = "enrich" /\ scan.busy[i] \in AllProps
<1>1. scan.of = "local" /\ LocalScan
  <2>1. scan.of = "remote" => InProgress = {}
      BY DEF UnitInv, RemoteScan, InProgress
  <2> QED
      BY <2>1, ScanFinds DEF UnitInv, Scans
<1>2. i \in DOMAIN scan.busy /\ scan.busy[i] \in AllProps /\ i \in DOMAIN scan.list
    BY <1>1, ScanFinds DEF LocalScan, InProgress
<1>3. scan.list # <<>> /\ scan.busy[i] # "enriched"
    BY <1>2 DEF AllProps
<1> QED
    BY <1>1, <1>2, <1>3 DEF LocalScan, ScanDone

\* One call ends; what it has brought is in the row, or it is an error.
LEMMA CallOver ==
  ASSUME UnitInv, NEW i \in InProgress, NEW call, call = scan.busy[i], UNCHANGED <<units, manager>>,
         NEW rows \in Seq(ServiceRows), Len(rows) = Len(scan.rows),
         NEW errors \in SUBSET (AllProps \cup {"list-units", "show"}),
         NEW failures \in SUBSET (Units \X AllProps),
         scan' = [scan EXCEPT !.busy = [scan.busy EXCEPT ![i] = AfterCall[call]], !.rows = rows, !.errors = errors],
         watch' = [watch EXCEPT !.hurt = failures],
         \A k \in DOMAIN scan.list : /\ rows[k].name = scan.rows[k].name
                                     /\ rows[k].active = scan.rows[k].active
                                     /\ scan.rows[k].props \subseteq rows[k].props,
         scan.errors \subseteq errors, watch.hurt \subseteq failures,
         call \in rows[i].props \/ (call \in errors /\ <<scan.list[i], call>> \in failures)
  PROVE  UnitInv'
<1>1. /\ scan.of = "local" /\ LocalScan /\ i \in DOMAIN scan.list /\ i \in DOMAIN scan.busy
      /\ scan.pc = "enrich" /\ call \in AllProps
    BY InProgressFinds
<1>2. AfterCall[call] \in Stages /\ CallsBefore(AfterCall[call]) = CallsBefore(call) \cup {call}
    BY <1>1 DEF AfterCall, Stages, AllProps, CallsBefore
<1>3. [scan.busy EXCEPT ![i] = AfterCall[call]] \in Seq(Stages)
    BY <1>1, <1>2, ScanFinds
<1>4. /\ scan' \in Scans /\ scan'.of = "local" /\ scan'.list = scan.list
      /\ scan'.busy = [scan.busy EXCEPT ![i] = AfterCall[call]]
      /\ scan'.rows = rows /\ scan'.pc = "enrich" /\ scan'.answer = scan.answer
      /\ scan'.errors = errors
    BY <1>1, <1>3, ScanFinds DEF Scans
<1>5. /\ watch' \in Watches /\ watch'.steady = watch.steady /\ watch'.hurt = failures
      /\ watch'.trouble = watch.trouble
    BY ScanFinds DEF Watches
<1>6. /\ Len(scan'.busy) = Len(scan.busy) /\ scan'.busy[i] = AfterCall[call]
      /\ \A k \in DOMAIN scan.busy \ {i} : scan'.busy[k] = scan.busy[k]
      /\ IsFiniteSet(InProgress) /\ Cardinality(InProgress) \in Nat
      /\ InProgress' = IF AfterCall[call] \in AllProps THEN InProgress \cup {i} ELSE InProgress \ {i}
    BY <1>1, <1>2, <1>4, StageMoves
<1>7. Cardinality(InProgress') <= PropsLimit
  <2>1. InProgress' \subseteq InProgress
      BY <1>6
  <2>2. Cardinality(InProgress') <= Cardinality(InProgress) /\ Cardinality(InProgress') \in Nat
      BY <1>6, <2>1, FS_Subset, FS_CardinalityType
  <2>3. Cardinality(InProgress) <= PropsLimit
      BY ScanFinds DEF UnitShape
  <2> QED
      BY <1>6, <2>2, <2>3, UnitBounds
<1>8. UnitShape'
    BY <1>4, <1>5, <1>7, ScanFinds DEF UnitShape
<1>9. ListingStory'
    BY <1>1, <1>4, <1>5, ScanFinds, ListingKept
<1>10. LocalScan'
  <2>1. DOMAIN scan.busy = DOMAIN scan.list
      BY <1>1, ScanFinds DEF LocalScan
  <2>2. ASSUME NEW k \in DOMAIN scan.list, NEW c \in CallsBefore(scan'.busy[k])
        PROVE  Has(k, c)' \/ (c \in scan'.errors /\ IsHurt(k, c)')
    <3>1. CASE c \in CallsBefore(scan.busy[k])
        BY <1>1, <1>4, <1>5, <3>1 DEF LocalScan, Has, IsHurt
    <3>2. CASE c \notin CallsBefore(scan.busy[k])
      <4>1. k = i /\ c = call
          BY <1>2, <1>6, <2>1, <2>2, <3>2
      <4> QED
          BY <1>4, <1>5, <4>1 DEF Has, IsHurt
    <3> QED
        BY <3>1, <3>2
  <2> QED
      BY <1>1, <1>4, <1>6, <2>2 DEF LocalScan, ScanDone
<1> QED
    BY <1>4, <1>8, <1>9, <1>10, LocalScanKeeps

LEMMA EnrichKeeps ==
  ASSUME UnitInv, NEW i, Enrich(i)
  PROVE  UnitInv'
<1>0. i \in InProgress /\ UNCHANGED <<units, manager>>
    BY DEF Enrich, Reading
<1>1. /\ i \in DOMAIN scan.list /\ i \in DOMAIN scan.rows /\ scan.busy[i] \in AllProps
      /\ scan.list[i] \in Units
    BY <1>0, InProgressFinds, ScanFinds
<1>2. PICK call : call = scan.busy[i]
    OBVIOUS
<1>3. CASE /\ scan' = [scan EXCEPT !.busy[i] = AfterCall[call], !.rows[i].props = @ \cup {call}]
           /\ watch' = watch
  <2>1. PICK rows : rows = [scan.rows EXCEPT ![i].props = @ \cup {call}]
      OBVIOUS
  <2>2. /\ rows \in Seq(ServiceRows) /\ Len(rows) = Len(scan.rows) /\ call \in rows[i].props
        /\ \A k \in DOMAIN scan.list : /\ rows[k].name = scan.rows[k].name
                                       /\ rows[k].active = scan.rows[k].active
                                       /\ scan.rows[k].props \subseteq rows[k].props
    <3>1. scan.rows[i] \in ServiceRows /\ [scan.rows[i] EXCEPT !.props = @ \cup {call}] \in ServiceRows
      <4>1. scan.rows[i] \in ServiceRows
          BY <1>1, ScanFinds
      <4>2. PICK row : row = scan.rows[i]
          OBVIOUS
      <4>3. [row EXCEPT !.props = row.props \cup {call}] \in ServiceRows
          BY <1>1, <1>2, <4>1, <4>2 DEF ServiceRows
      <4> QED
          BY <4>1, <4>2, <4>3
    <3>2. rows \in Seq(ServiceRows) /\ Len(rows) = Len(scan.rows)
        BY <1>1, <2>1, <3>1, ScanFinds
    <3>3. /\ rows[i] = [scan.rows[i] EXCEPT !.props = @ \cup {call}]
          /\ \A k \in DOMAIN scan.list \ {i} : rows[k] = scan.rows[k]
        BY <1>1, <2>1, ScanFinds
    <3> QED
        BY <3>1, <3>2, <3>3 DEF ServiceRows
  <2>3. scan' = [scan EXCEPT !.busy = [scan.busy EXCEPT ![i] = AfterCall[call]], !.rows = rows, !.errors = scan.errors]
    <3>1. scan' = [scan EXCEPT !.busy = [scan.busy EXCEPT ![i] = AfterCall[call]], !.rows = rows]
        BY <1>3, <2>1
    <3> QED
        BY <3>1, ScanFinds DEF Scans
  <2>4. watch' = [watch EXCEPT !.hurt = watch.hurt]
      BY <1>3, ScanFinds DEF Watches
  <2>5. scan.errors \in SUBSET (AllProps \cup {"list-units", "show"}) /\ watch.hurt \in SUBSET (Units \X AllProps)
      BY ScanFinds DEF Scans
  <2> QED
    <3>1. scan.errors \subseteq scan.errors /\ watch.hurt \subseteq watch.hurt
        OBVIOUS
    <3> QED
        BY <1>0, <1>2, <2>2, <2>3, <2>4, <2>5, <3>1, CallOver, ZenonT(60)
<1>4. CASE EnrichFails(i, call) /\ Hurt({<<scan.list[i], call>>})
  <2>1. PICK errors : errors = scan.errors \cup {call}
      OBVIOUS
  <2>2. PICK failures : failures = watch.hurt \cup {<<scan.list[i], call>>}
      OBVIOUS
  <2>3. scan' = [scan EXCEPT !.busy = [scan.busy EXCEPT ![i] = AfterCall[call]], !.rows = scan.rows, !.errors = errors]
    <3>1. scan' = [scan EXCEPT !.busy = [scan.busy EXCEPT ![i] = AfterCall[call]], !.errors = errors]
        BY <1>4, <2>1 DEF EnrichFails
    <3> QED
        BY <3>1, ScanFinds DEF Scans
  <2>4. watch' = [watch EXCEPT !.hurt = failures]
      BY <1>4, <2>2 DEF Hurt
  <2>5. /\ errors \in SUBSET (AllProps \cup {"list-units", "show"})
        /\ failures \in SUBSET (Units \X AllProps)
        /\ scan.errors \subseteq errors /\ watch.hurt \subseteq failures
        /\ call \in errors /\ <<scan.list[i], call>> \in failures
      BY <1>1, <1>2, <2>1, <2>2, ScanFinds DEF Scans
  <2> QED
    <3>1. /\ scan.rows \in Seq(ServiceRows) /\ Len(scan.rows) = Len(scan.rows)
          /\ \A k \in DOMAIN scan.list : /\ scan.rows[k].name = scan.rows[k].name
                                         /\ scan.rows[k].active = scan.rows[k].active
                                         /\ scan.rows[k].props \subseteq scan.rows[k].props
        BY ScanFinds
    <3> QED
        BY <1>0, <1>2, <2>3, <2>4, <2>5, <3>1, CallOver, ZenonT(60)
<1>5. \/ /\ scan' = [scan EXCEPT !.busy[i] = AfterCall[call], !.rows[i].props = @ \cup {call}]
         /\ watch' = watch
      \/ EnrichFails(i, call) /\ Hurt({<<scan.list[i], call>>})
    BY <1>2, Zenon DEF Enrich
<1> QED
    BY <1>3, <1>4, <1>5

LEMMA JoinKeeps ==
  ASSUME UnitInv, Join \/ ShowEnd
  PROVE  UnitInv'
<1>1. /\ UNCHANGED <<units, manager, watch>> /\ scan.pc \in {"enrich", "show"}
      /\ scan' = [scan EXCEPT !.pc = "done"]
    BY DEF Join, ShowEnd, ScanAt, Reading
<1>2. /\ scan' \in Scans /\ scan'.of = scan.of /\ scan'.list = scan.list /\ scan'.busy = scan.busy
      /\ scan'.rows = scan.rows /\ scan'.pc = "done" /\ scan'.answer = scan.answer
      /\ scan'.errors = scan.errors /\ scan'.next = scan.next
    BY <1>1, ScanFinds DEF Scans
<1>3. UnitShape'
    BY <1>1, <1>2, ScanFinds DEF UnitShape, InProgress
<1>4. ListingStory'
    BY <1>1, <1>2, ScanFinds, ListingKept
<1>5. CASE scan.of = "local"
  <2>1. Join
      BY <1>5 DEF Join, ShowEnd, ScanAt
  <2>2. LocalScan /\ \A k \in DOMAIN scan.busy : scan.busy[k] = "enriched"
      BY <1>5, <2>1 DEF Join, UnitInv
  <2>3. LocalScan'
      BY <1>1, <1>2, <2>2, ScanFinds DEF LocalScan, ScanDone, Has, IsHurt
  <2> QED
      BY <1>2, <1>3, <1>4, <1>5, <2>3, LocalScanKeeps
<1>6. CASE scan.of = "remote"
  <2>1. ShowEnd
      BY <1>6 DEF Join, ShowEnd, ScanAt
  <2>2. RemoteScan /\ scan.next > Len(scan.rows)
      BY <1>6, <2>1 DEF ShowEnd, UnitInv
  <2>3. RemoteScan'
      BY <1>1, <1>2, <2>2, ScanFinds DEF RemoteScan, ScanDone, Has, IsHurt, Single
  <2> QED
      BY <1>2, <1>3, <1>4, <1>6, <2>3, RemoteScanKeeps
<1> QED
    BY <1>5, <1>6, ScanFinds DEF Scans

\* On a remote host nobody is asked about a unit on his own.
LEMMA NoneInProgress ==
  ASSUME scan'.busy = <<>>
  PROVE  Cardinality(InProgress') <= PropsLimit
<1>1. InProgress' = {}
    BY DEF InProgress
<1>2. Cardinality({}) = 0
    BY FS_EmptySet
<1>3. Cardinality(InProgress') = 0
    BY <1>1, <1>2, Zenon
<1> QED
    BY <1>3, UnitBounds

\* A list of the script, whole or broken off.
ListArrived(list) ==
    IF list = <<>>
    THEN scan' = [scan EXCEPT !.pc = "done", !.answer = "available", !.errors = @ \cup {"list-units"}]
    ELSE scan' = [scan EXCEPT !.pc = "show", !.answer = "available", !.list = list,
                     !.rows = [i \in DOMAIN list |-> Service(Trimmed[list[i]], units[list[i]], {})]]

LEMMA ListArrives ==
  ASSUME UnitInv, scan.of = "remote", scan.pc = "start", UNCHANGED <<units, manager>>,
         NEW list \in Seq(Units),
         \A i \in DOMAIN list : Loaded(list[i]),
         \A i, j \in DOMAIN list : list[i] = list[j] => i = j,
         manager = "up" /\ ~watch'.trouble => \A u \in Units : Loaded(u) => \E i \in DOMAIN list : list[i] = u,
         watch' \in {watch, [watch EXCEPT !.trouble = TRUE]},
         ListArrived(list)
  PROVE  UnitInv'
<1>1. scan.list = <<>> /\ scan.busy = <<>> /\ scan.next = 1 /\ RemoteScan
    BY DEF UnitInv, RemoteScan
<1>2. PICK rows : rows = [i \in DOMAIN list |-> Service(Trimmed[list[i]], units[list[i]], {})]
    OBVIOUS
<1>3. /\ rows \in Seq(ServiceRows) /\ Len(rows) = Len(list)
      /\ \A i \in DOMAIN list : rows[i].name = Trimmed[list[i]] /\ rows[i].active = units[list[i]]
  <2>1. DOMAIN list = 1..Len(list) /\ Len(list) \in Nat /\ \A i \in DOMAIN list : list[i] \in Units
      OBVIOUS
  <2>2. \A i \in 1..Len(list) :
            rows[i] \in ServiceRows /\ rows[i] = Service(Trimmed[list[i]], units[list[i]], {})
      BY <1>2, <2>1, ServiceTypes, ScanFinds
  <2>3. rows \in [1..Len(list) -> ServiceRows]
      BY <1>2, <2>1, <2>2
  <2>4. rows \in Seq(ServiceRows)
      BY <2>1, <2>3, SeqDef
  <2> QED
      BY <2>1, <2>2, <2>3, <2>4 DEF Service
<1>4. /\ watch' \in Watches /\ watch'.steady = watch.steady /\ watch'.hurt = watch.hurt
  <2>1. CASE watch' = watch
      BY <2>1, ScanFinds
  <2>2. CASE watch' = [watch EXCEPT !.trouble = TRUE]
      BY <2>2, ScanFinds DEF Watches
  <2> QED
      BY <2>1, <2>2
<1>5. CASE list = <<>>
  <2>1. scan.errors \cup {"list-units"} \in SUBSET (AllProps \cup {"list-units", "show"})
      BY ScanFinds DEF Scans
  <2>2. scan' = [scan EXCEPT !.pc = "done", !.answer = "available", !.errors = scan.errors \cup {"list-units"}]
      BY <1>5 DEF ListArrived
  <2>3. /\ scan' \in Scans /\ scan'.of = "remote" /\ scan'.list = <<>> /\ scan'.busy = <<>>
        /\ scan'.rows = scan.rows /\ scan'.pc = "done" /\ scan'.next = scan.next
      BY <1>1, <2>1, <2>2, ScanFinds DEF Scans
  <2>4. UnitShape'
      BY <1>1, <1>4, <2>3, ScanFinds, NoneInProgress DEF UnitShape
  <2>5. ListingStory'
      BY <1>1, <1>4, <1>5, <2>3, ScanFinds DEF ListingStory, Loaded
  <2>6. RemoteScan'
      BY <1>1, <2>3, ScanFinds DEF RemoteScan, ScanDone
  <2> QED
      BY <2>3, <2>4, <2>5, <2>6, RemoteScanKeeps
<1>6. CASE list # <<>>
  <2>1. scan' = [scan EXCEPT !.pc = "show", !.answer = "available", !.list = list, !.rows = rows]
      BY <1>2, <1>6 DEF ListArrived
  <2>2. /\ scan' \in Scans /\ scan'.of = "remote" /\ scan'.list = list /\ scan'.busy = <<>>
        /\ scan'.rows = rows /\ scan'.pc = "show" /\ scan'.next = scan.next
      BY <1>1, <1>3, <2>1, ScanFinds DEF Scans
  <2>3. UnitShape'
      BY <1>3, <1>4, <2>2, ScanFinds, NoneInProgress DEF UnitShape
  <2>4. ListingStory'
      BY <1>3, <1>4, <2>2, ScanFinds DEF ListingStory, Loaded
  <2>5. RemoteScan'
      BY <1>1, <2>2, ScanFinds DEF RemoteScan, ScanDone
  <2> QED
      BY <2>2, <2>3, <2>4, <2>5, RemoteScanKeeps
<1> QED
    BY <1>5, <1>6

\* What has arrived of a list is a list.
LEMMA BrokenList ==
  ASSUME NEW list \in UnitLists, NEW n \in 0..UnitCount, n <= Len(list)
  PROVE  /\ SubSeq(list, 1, n) \in Seq(Units)
         /\ \A i \in DOMAIN SubSeq(list, 1, n) : Loaded(SubSeq(list, 1, n)[i])
         /\ \A i, j \in DOMAIN SubSeq(list, 1, n) :
               SubSeq(list, 1, n)[i] = SubSeq(list, 1, n)[j] => i = j
<1>1. /\ list \in Seq(Units) /\ DOMAIN list = 1..Len(list) /\ Len(list) \in Nat
      /\ \A i \in DOMAIN list : Loaded(list[i])
      /\ \A i, j \in DOMAIN list : list[i] = list[j] => i = j
    BY WholeList
<1>2. n \in Nat
    BY UnitBounds
<1>3. PICK s : s = SubSeq(list, 1, n)
    OBVIOUS
<1>4. s \in Seq(Units) /\ DOMAIN s = 1..n /\ \A i \in 1..n : s[i] = list[i]
    BY <1>1, <1>2, <1>3
<1>5. \A i \in DOMAIN s : Loaded(s[i])
    BY <1>1, <1>2, <1>4
<1>6. \A i, j \in DOMAIN s : s[i] = s[j] => i = j
    BY <1>1, <1>2, <1>4
<1> QED
    BY <1>3, <1>4, <1>5, <1>6

LEMMA ListScriptKeeps ==
  ASSUME UnitInv, ListScript
  PROVE  UnitInv'
<1>1. scan.of = "remote" /\ scan.pc = "start" /\ UNCHANGED <<units, manager>>
    BY Zenon DEF ListScript, ScanAt, Reading
<1>2. \/ ScanEnd("ssh-command-failed") /\ Trouble
      \/ ScanEnd("systemctl-not-found") /\ UNCHANGED watch
      \/ ScanEnd("systemctl-not-found") /\ Trouble
      \/ manager = "unreachable" /\ ListArrived(<<>>) /\ UNCHANGED watch
      \/ (\E list \in UnitLists : ListArrived(list)) /\ UNCHANGED watch
      \/ /\ \E list \in UnitLists, n \in 0..UnitCount : n <= Len(list) /\ ListArrived(SubSeq(list, 1, n))
         /\ Trouble
    BY Zenon DEF ListScript, ListArrived
<1>3. CASE \/ ScanEnd("ssh-command-failed") /\ Trouble
           \/ ScanEnd("systemctl-not-found") /\ UNCHANGED watch
           \/ ScanEnd("systemctl-not-found") /\ Trouble
  <2>1. /\ scan' \in Scans /\ scan'.of = "remote" /\ scan'.list = scan.list /\ scan'.busy = scan.busy
        /\ scan'.rows = scan.rows /\ scan'.pc = "done" /\ scan'.answer # "available"
        /\ scan'.next = scan.next
      BY <1>1, <1>3, ScanFinds DEF ScanEnd, Scans
  <2>2. /\ watch' \in Watches /\ watch'.steady = watch.steady /\ watch'.hurt = watch.hurt
        /\ ~watch'.trouble => ~watch.trouble
      BY <1>3, ScanFinds DEF Trouble, Watches
  <2>3. RemoteScan
      BY <1>1 DEF UnitInv
  <2>4. UnitShape'
      BY <1>1, <2>1, <2>2, ScanFinds DEF UnitShape, InProgress
  <2>5. ListingStory'
      BY <1>1, <2>1, <2>2, ScanFinds, ListingKept
  <2>6. RemoteScan'
      BY <1>1, <2>1, <2>3, ScanFinds DEF RemoteScan, ScanDone
  <2> QED
      BY <2>1, <2>4, <2>5, <2>6, RemoteScanKeeps
<1>4. CASE manager = "unreachable" /\ ListArrived(<<>>) /\ UNCHANGED watch
  <2>1. <<>> \in Seq(Units) /\ DOMAIN <<>> = {}
      OBVIOUS
  <2>2. watch' \in {watch, [watch EXCEPT !.trouble = TRUE]} /\ manager # "up"
      BY <1>4
  <2> QED
      BY <1>1, <1>4, <2>1, <2>2, ListArrives
<1>5. ASSUME NEW list \in UnitLists, ListArrived(list), UNCHANGED watch
      PROVE  UnitInv'
  <2>1. watch' \in {watch, [watch EXCEPT !.trouble = TRUE]}
      BY <1>5
  <2> QED
      BY <1>1, <1>5, <2>1, WholeList, ListArrives
<1>6. ASSUME NEW list \in UnitLists, NEW n \in 0..UnitCount, n <= Len(list),
             ListArrived(SubSeq(list, 1, n)), Trouble
      PROVE  UnitInv'
  <2>1. watch' \in {watch, [watch EXCEPT !.trouble = TRUE]} /\ watch'.trouble
      BY <1>6, ScanFinds DEF Trouble, Watches
  <2> QED
      BY <1>1, <1>6, <2>1, BrokenList, ListArrives
<1> QED
    BY <1>2, <1>3, <1>4, <1>5, <1>6, Zenon

\* One batch is over: its rows are as they were or as systemctl shows them,
\* and those without their properties are known to have failed.
BatchShown(P, errors) ==
    ShowDone([i \in DOMAIN scan.rows |-> IF i \in P THEN Shown(scan.rows[i]) ELSE scan.rows[i]], errors)

LEMMA BatchOver ==
  ASSUME UnitInv, scan.of = "remote", scan.pc = "show", UNCHANGED <<units, manager>>,
         NEW P, NEW errors \in SUBSET {"show"}, BatchShown(P, errors),
         watch' \in Watches, watch'.steady = watch.steady, watch'.trouble = watch.trouble,
         watch.hurt \subseteq watch'.hurt,
         \A i \in Batch : Single(i) => i \in P \/ \A c \in AllProps : <<scan.list[i], c>> \in watch'.hurt
  PROVE  UnitInv'
<1>1. RemoteScan
    BY DEF UnitInv
<1>2. PICK rows : rows = [i \in DOMAIN scan.rows |-> IF i \in P THEN Shown(scan.rows[i]) ELSE scan.rows[i]]
    OBVIOUS
<1>3. \A row \in ServiceRows : Shown(row) \in ServiceRows /\ Shown(row).name = row.name /\ Shown(row).props = AllProps
    BY ScanFinds DEF Shown, Service, ServiceRows, Loaded
<1>4. /\ rows \in Seq(ServiceRows) /\ Len(rows) = Len(scan.rows)
      /\ \A i \in DOMAIN scan.list : /\ rows[i] \in ServiceRows /\ rows[i].name = scan.rows[i].name
                                     /\ rows[i] = IF i \in P THEN Shown(scan.rows[i]) ELSE scan.rows[i]
  <2>1. \A i \in 1..Len(scan.rows) : /\ rows[i] \in ServiceRows /\ rows[i].name = scan.rows[i].name
                                     /\ rows[i] = IF i \in P THEN Shown(scan.rows[i]) ELSE scan.rows[i]
      BY <1>2, <1>3, ScanFinds
  <2>2. rows \in [1..Len(scan.rows) -> ServiceRows]
      BY <1>2, <2>1, ScanFinds
  <2>3. rows \in Seq(ServiceRows)
    <3>1. Len(scan.rows) \in Nat
        BY ScanFinds
    <3> QED
        BY <2>2, <3>1, SeqDef
  <2> QED
      BY <2>1, <2>2, <2>3, ScanFinds
<1>5. scan.errors \cup errors \in SUBSET (AllProps \cup {"list-units", "show"}) /\ scan.next + BatchSize \in Nat \ {0}
  <2>1. scan.errors \cup errors \in SUBSET (AllProps \cup {"list-units", "show"})
      BY ScanFinds DEF Scans
  <2>2. BatchSize \in Nat /\ scan.next \in Nat \ {0}
      BY UnitBounds, ScanFinds
  <2> QED
      BY <2>1, <2>2
<1>6. scan' = [scan EXCEPT !.next = scan.next + BatchSize, !.errors = scan.errors \cup errors, !.rows = rows]
    BY <1>2 DEF BatchShown, ShowDone
<1>7. /\ scan' \in Scans /\ scan'.of = "remote" /\ scan'.list = scan.list /\ scan'.busy = scan.busy
      /\ scan'.rows = rows /\ scan'.pc = "show" /\ scan'.next = scan.next + BatchSize
      /\ scan'.answer = scan.answer
    BY <1>4, <1>5, <1>6, ScanFinds DEF Scans
<1>8. /\ watch' \in Watches /\ watch'.steady = watch.steady
      /\ watch'.trouble = watch.trouble
    OBVIOUS
<1>9. UnitShape'
    BY <1>1, <1>4, <1>7, <1>8, ScanFinds, NoneInProgress DEF UnitShape, RemoteScan
<1>10. ListingStory'
  <2>1. ASSUME NEW i \in DOMAIN scan.list, scan.list[i] \in watch.steady \ XUnits
        PROVE  rows[i].active = units[scan.list[i]]
    <3>1. /\ scan.rows[i].active = units[scan.list[i]] /\ Loaded(scan.list[i])
          /\ scan.rows[i].name = scan.list[i] /\ scan.list[i] \in Units
        BY <2>1, ScanFinds DEF ListingStory, XUnits
    <3>2. Shown(scan.rows[i]).active = units[scan.list[i]]
        BY <3>1 DEF Shown, Service
    <3> QED
        BY <1>4, <3>1, <3>2
  <2> QED
      BY <1>4, <1>7, <1>8, <2>1, ScanFinds DEF ListingStory, Loaded
<1>11. RemoteScan'
  <2>1. ASSUME NEW i \in DOMAIN scan.list, i < scan.next + BatchSize, Single(i), NEW c \in AllProps
        PROVE  c \in rows[i].props \/ <<scan.list[i], c>> \in watch'.hurt
    <3>1. CASE i < scan.next
      <4>1. c \in scan.rows[i].props \/ <<scan.list[i], c>> \in watch'.hurt
          BY <1>1, <2>1, <3>1 DEF RemoteScan, Has, IsHurt
      <4>2. CASE i \in P
          BY <1>3, <1>4, <4>2, ScanFinds
      <4>3. CASE i \notin P
          BY <1>4, <4>1, <4>3
      <4> QED
          BY <4>2, <4>3
    <3>2. CASE ~(i < scan.next)
      <4>1. i \in Batch
          BY <2>1, <3>2, ScanFinds, UnitBounds DEF Batch, Smaller
      <4> QED
          BY <1>3, <1>4, <2>1, <4>1, ScanFinds
    <3> QED
        BY <3>1, <3>2
  <2>2. \A i \in DOMAIN scan.list : Single(i)' => Single(i)
      BY <1>4, <1>7, ScanFinds DEF Single
  <2> QED
      BY <1>1, <1>7, <1>8, <2>1, <2>2, ScanFinds DEF RemoteScan, ScanDone, Has, IsHurt
<1> QED
    BY <1>7, <1>9, <1>10, <1>11, RemoteScanKeeps

LEMMA BatchMissed ==
  ASSUME UnitInv, scan.of = "remote", scan.pc = "show", UNCHANGED <<units, manager>>,
         NEW P, NEW errors \in SUBSET {"show"}, BatchShown(P, errors),
         NEW S, S \subseteq Batch, Hurt(PropsOf(S)),
         \A i \in Batch : Single(i) => i \in P \/ i \in S
  PROVE  UnitInv'
<1>1. Batch \subseteq DOMAIN scan.list
    BY ScanFinds, UnitBounds DEF Batch, Smaller
<1>2. PropsOf(S) \subseteq Units \X AllProps /\ \A i \in S, c \in AllProps : <<scan.list[i], c>> \in PropsOf(S)
    BY <1>1, ScanFinds DEF PropsOf
<1>3. watch' = [watch EXCEPT !.hurt = watch.hurt \cup PropsOf(S)]
    BY DEF Hurt
<1>4. /\ watch' \in Watches /\ watch'.steady = watch.steady /\ watch'.trouble = watch.trouble
      /\ watch'.hurt = watch.hurt \cup PropsOf(S)
    BY <1>2, <1>3, ScanFinds DEF Watches
<1>5. \A i \in Batch : Single(i) => i \in P \/ \A c \in AllProps : <<scan.list[i], c>> \in watch'.hurt
    BY <1>2, <1>4
<1> QED
    BY <1>4, <1>5, BatchOver

\* The rows that get the properties shown for the rows S: among them those of S
\* that have their name to themselves.
Lasts(S) ==
    {i \in DOMAIN scan.rows :
        /\ \E k \in S : scan.rows[k].name = scan.rows[i].name
        /\ \A j \in DOMAIN scan.rows : j > i => scan.rows[j].name # scan.rows[i].name}

LEMMA SingleIsLast ==
  ASSUME UnitInv, NEW S, NEW i \in S, i \in DOMAIN scan.rows, Single(i)
  PROVE  i \in Lasts(S)
<1>1. \A j \in DOMAIN scan.rows : j > i => scan.rows[j].name # scan.rows[i].name
    BY ScanFinds DEF Single
<1> QED
    BY <1>1 DEF Lasts

LEMMA EnrichedShown ==
  ASSUME NEW S, NEW errors, ShowDone(Enriched(S), errors)
  PROVE  BatchShown(Lasts(S), errors)
<1>1. Enriched(S) = [i \in DOMAIN scan.rows |-> IF i \in Lasts(S) THEN Shown(scan.rows[i]) ELSE scan.rows[i]]
    BY DEF Enriched, Lasts
<1> QED
    BY <1>1 DEF BatchShown

LEMMA ShowKeeps ==
  ASSUME UnitInv, Show
  PROVE  UnitInv'
<1>1. scan.of = "remote" /\ scan.pc = "show" /\ UNCHANGED <<units, manager>>
    BY Zenon DEF Show, ScanAt, Reading
<1>2. Batch \subseteq DOMAIN scan.rows /\ DOMAIN scan.rows \subseteq Int
    BY ScanFinds, UnitBounds DEF Batch, Smaller
<1>3. CASE ShowDone(Enriched(Batch), {}) /\ UNCHANGED watch
  <2>1. \A i \in Batch : Single(i) => i \in Lasts(Batch)
      BY <1>2, SingleIsLast
  <2>2. BatchShown(Lasts(Batch), {}) /\ {} \in SUBSET {"show"}
      BY <1>3, EnrichedShown
  <2>3. PICK P : P = Lasts(Batch)
      OBVIOUS
  <2>4. \A i \in Batch : Single(i) => i \in P \/ \A c \in AllProps : <<scan.list[i], c>> \in watch'.hurt
      BY <2>1, <2>3
  <2> QED
      BY <1>1, <1>3, <2>2, <2>3, <2>4, BatchOver, ScanFinds
<1>4. CASE ShowFails /\ Hurt(PropsOf(Batch))
  <2>1. [i \in DOMAIN scan.rows |-> IF i \in {} THEN Shown(scan.rows[i]) ELSE scan.rows[i]] = scan.rows
      BY ScanFinds
  <2>2. BatchShown({}, {"show"})
      BY <1>4, <2>1 DEF BatchShown, ShowFails
  <2>3. \A i \in Batch : Single(i) => i \in {} \/ i \in Batch
      OBVIOUS
  <2>4. {"show"} \in SUBSET {"show"} /\ Batch \subseteq Batch
      OBVIOUS
  <2> QED
      BY <1>1, <1>4, <2>2, <2>3, <2>4, BatchMissed
<1>5. ASSUME NEW n \in Batch,
             ShowDone(Enriched({k \in Batch : k < n}), {}),
             Hurt(PropsOf({k \in Batch : k >= n}))
      PROVE  UnitInv'
  <2>1. PICK Read, Unread : Read = {k \in Batch : k < n} /\ Unread = {k \in Batch : k >= n}
      OBVIOUS
  <2>2. ShowDone(Enriched(Read), {}) /\ Hurt(PropsOf(Unread))
      BY <1>5, <2>1
  <2>3. BatchShown(Lasts(Read), {})
      BY <2>2, EnrichedShown
  <2>4. \A i \in Batch : i \in Read \/ i \in Unread
      BY <1>2, <2>1
  <2>5. \A i \in Batch : Single(i) => i \in Lasts(Read) \/ i \in Unread
      BY <1>2, <2>4, SingleIsLast
  <2>6. {} \in SUBSET {"show"} /\ Unread \subseteq Batch
      BY <2>1
  <2>7. PICK P : P = Lasts(Read)
      OBVIOUS
  <2> QED
      BY <1>1, <2>2, <2>3, <2>5, <2>6, <2>7, BatchMissed
<1> QED
    BY <1>3, <1>4, <1>5, Zenon DEF Show

LEMMA UnitInvStep == UnitInv /\ UnitNext => UnitInv'
<1> SUFFICES ASSUME UnitInv, UnitNext PROVE UnitInv'
    OBVIOUS
<1>1. CASE Connect
    BY <1>1, ConnectKeeps
<1>2. CASE ListUnits
    BY <1>2, ListUnitsKeeps
<1>3. CASE \E i \in Units : EnrichStart(i)
    BY <1>3, EnrichStartKeeps
<1>4. CASE \E i \in Units : Enrich(i)
    BY <1>4, EnrichKeeps
<1>5. CASE Join \/ ShowEnd
    BY <1>5, JoinKeeps
<1>6. CASE ListScript
    BY <1>6, ListScriptKeeps
<1>7. CASE Show
    BY <1>7, ShowKeeps
<1>8. CASE ManagerLost \/ ScanExpire
    BY <1>8, ManagerLostKeeps
<1>9. CASE \E u \in Restless : UnitChange(u)
    BY <1>9, UnitChangeKeeps, UnitBounds DEF Units
<1> QED
    BY <1>1, <1>2, <1>3, <1>4, <1>5, <1>6, <1>7, <1>8, <1>9, Zenon DEF UnitNext, ScanStep

LEMMA UnitInvRest == UnitInv /\ UNCHANGED unitVars => UnitInv'
    BY DEF unitVars, UnitInv, UnitShape, ListingStory, LocalScan, RemoteScan, ScanDone, InProgress, Loaded,
           Has, IsHurt, Single

\* UnitTypeOK of systemd.Collector and remotesystemd.Collector.
LEMMA UnitInvTypes == UnitInv => UnitTypeOK
<1> SUFFICES ASSUME UnitInv PROVE UnitTypeOK
    OBVIOUS
<1>1. \A i \in DOMAIN scan.rows : scan.rows[i] \in ServiceRows
    BY ScanFinds
<1>2. \A i \in DOMAIN scan.rows :
          /\ scan.rows[i].name \in Units \cup {Trimmed[u] : u \in Units}
          /\ scan.rows[i].active \in UnitState \cup {"not-found"}
          /\ scan.rows[i].props \subseteq AllProps
    BY <1>1 DEF ServiceRows
<1> QED
    BY <1>2, ScanFinds DEF UnitTypeOK, UnitShape, Scans

LEMMA UnitInvSteady == UnitInv => SteadyUnitsShown
<1> SUFFICES ASSUME UnitInv, ScanDone, scan.answer = "available", ~watch.trouble, manager = "up",
                    NEW u \in watch.steady \ XUnits, Alone(u)
             PROVE  LET places == {i \in DOMAIN scan.rows : scan.rows[i].name = u}
                    IN IF Loaded(u)
                       THEN \E i \in places :
                               /\ places = {i}
                               /\ scan.rows[i].active = units[u]
                               /\ \A c \in AllProps : c \in scan.rows[i].props \/ <<u, c>> \in watch.hurt
                       ELSE places = {}
    BY Zenon DEF SteadyUnitsShown
<1> DEFINE places == {i \in DOMAIN scan.rows : scan.rows[i].name = u}
<1>1. u \in Units /\ u \notin XUnits
    BY ScanFinds
<1>2. \A i \in DOMAIN scan.list : scan.rows[i].name = u <=> scan.list[i] = u
  <2> SUFFICES ASSUME NEW i \in DOMAIN scan.list
               PROVE  scan.rows[i].name = u <=> scan.list[i] = u
      OBVIOUS
  <2>1. i \in DOMAIN scan.rows /\ Trimmed[u] = u
      BY <1>1, ScanFinds DEF XUnits
  <2>2. scan.rows[i].name = (IF scan.of = "local" THEN scan.list[i] ELSE Trimmed[scan.list[i]])
      BY ScanFinds DEF ListingStory
  <2> QED
      BY <2>1, <2>2 DEF Alone
<1>3. places = {i \in DOMAIN scan.list : scan.list[i] = u}
    BY <1>2, ScanFinds
<1>4. CASE ~Loaded(u)
  <2>1. \A i \in DOMAIN scan.list : scan.list[i] # u
      BY <1>4, ScanFinds DEF ListingStory
  <2> QED
      BY <1>3, <1>4, <2>1
<1>5. CASE Loaded(u)
  <2>1. PICK i \in DOMAIN scan.list : scan.list[i] = u
      BY <1>5, ScanFinds DEF ListingStory, ScanDone
  <2>2. i \in places /\ places = {i}
      BY <1>3, <2>1, ScanFinds DEF ListingStory
  <2>3. scan.rows[i].active = units[u]
      BY <1>1, <2>1, ScanFinds DEF ListingStory
  <2>4. \A c \in AllProps : c \in scan.rows[i].props \/ <<u, c>> \in watch.hurt
    <3>1. CASE scan.of = "local"
      <4>1. LocalScan /\ CallsBefore("enriched") = AllProps
          BY <3>1 DEF UnitInv, CallsBefore
      <4>2. scan.busy[i] = "enriched"
          BY <2>1, <4>1 DEF LocalScan
      <4> QED
          BY <2>1, <4>1, <4>2 DEF LocalScan, Has, IsHurt
    <3>2. CASE scan.of = "remote"
      <4>1. RemoteScan
          BY <3>2 DEF UnitInv
      <4>2. i < scan.next
          BY <2>1, <4>1, ScanFinds DEF RemoteScan
      <4>3. Single(i)
          BY <1>2, <2>1, ScanFinds DEF Single, ListingStory
      <4> QED
          BY <2>1, <4>1, <4>2, <4>3 DEF RemoteScan, Has, IsHurt
    <3> QED
        BY <3>1, <3>2, ScanFinds DEF Scans
  <2> QED
      BY <1>5, <2>2, <2>3, <2>4
<1> QED
    BY <1>4, <1>5

LEMMA UnitInvGaps == UnitInv => GapsReported
<1> SUFFICES ASSUME UnitInv, ScanDone, scan.of = "local", scan.errors = {}, NEW i \in DOMAIN scan.rows
             PROVE  scan.rows[i].props = AllProps
    BY DEF GapsReported
<1>1. LocalScan /\ i \in DOMAIN scan.list /\ CallsBefore("enriched") = AllProps
    BY ScanFinds DEF UnitInv, CallsBefore
<1>2. scan.busy[i] = "enriched"
    BY <1>1 DEF LocalScan
<1>3. AllProps \subseteq scan.rows[i].props
    BY <1>1, <1>2 DEF LocalScan, Has
<1>4. scan.rows[i] \in ServiceRows
    BY <1>1, ScanFinds
<1> QED
    BY <1>3, <1>4 DEF ServiceRows

-----------------------------------------------------------------------------
(* The pages of a table. *)

\* The place of a row among those that match, from 0.
Prior(desc, i) == {j \in Matching : Before(desc, j, i)}
Rank(desc, i) == Cardinality(Prior(desc, i))

Walks ==
    [pc : {"count", "select", "done"}, page : Nat \ {0}, size : 1..MaxPageSize, desc : BOOLEAN,
     total : 0..RowCount, seen : Seq(Ids)]

From == Offset(walk.page, walk.size)

\* As long as no row comes in, what the pages yet to come can hold has not
\* been seen; as long as none goes either, what has been seen are the rows
\* before those pages.
ListInv ==
    /\ table \in [Ids -> Keys \cup {Out}] /\ walk \in Walks /\ grown \in BOOLEAN /\ shrunk \in BOOLEAN
    /\ ~grown =>
          /\ \A k, l \in DOMAIN walk.seen : walk.seen[k] = walk.seen[l] => k = l
          /\ \A k \in DOMAIN walk.seen :
                walk.seen[k] \in Matching => Rank(walk.desc, walk.seen[k]) < From
    /\ ~grown /\ ~shrunk =>
          /\ walk.pc = "select" => walk.total = Cardinality(Matching) /\ walk.total > 0
          /\ Len(walk.seen) = Least(From, Cardinality(Matching))
          /\ \A k \in DOMAIN walk.seen : walk.seen[k] \in Matching /\ Rank(walk.desc, walk.seen[k]) = k - 1
          /\ walk.pc = "done" => Len(walk.seen) = Cardinality(Matching)

LEMMA MatchingFinite ==
  /\ Matching \subseteq Ids /\ Ids \subseteq Nat /\ IsFiniteSet(Matching)
  /\ Cardinality(Matching) \in 0..RowCount
<1>1. IsFiniteSet(1..RowCount) /\ Cardinality(1..RowCount) = RowCount
    BY TableBounds, FS_Interval
<1>2. Matching \in SUBSET (1..RowCount)
    BY DEF Matching, Ids
<1>3. IsFiniteSet(Matching) /\ Cardinality(Matching) <= RowCount
    BY <1>1, <1>2, FS_Subset
<1>4. Cardinality(Matching) \in Nat
    BY <1>3, FS_CardinalityType
<1> QED
    BY <1>2, <1>3, <1>4, TableBounds DEF Ids

\* ORDER BY with the id as its last column is a strict total order.
LEMMA OrderTotal ==
  ASSUME table \in [Ids -> Keys \cup {Out}], NEW desc \in BOOLEAN
  PROVE  /\ \A i \in Ids : ~Before(desc, i, i)
         /\ \A i, j \in Ids : i = j \/ Before(desc, i, j) \/ Before(desc, j, i)
         /\ \A i, j, k \in Ids : Before(desc, i, j) /\ Before(desc, j, k) => Before(desc, i, k)
<1>1. \A i \in Ids : i \in Nat /\ table[i] \in Nat
    BY TableBounds DEF Ids, Keys, Out
<1> QED
    BY <1>1 DEF Before

LEMMA RankFinite ==
  ASSUME NEW desc, NEW i
  PROVE  IsFiniteSet(Prior(desc, i)) /\ Rank(desc, i) \in Nat
<1>1. Prior(desc, i) \in SUBSET Matching
    BY DEF Prior
<1> QED
    BY <1>1, MatchingFinite, FS_Subset, FS_CardinalityType DEF Rank

LEMMA RankGrows ==
  ASSUME table \in [Ids -> Keys \cup {Out}], NEW desc \in BOOLEAN,
         NEW i \in Matching, NEW j \in Ids, Before(desc, i, j)
  PROVE  Rank(desc, i) < Rank(desc, j)
<1>1. i \in Ids /\ i \notin Prior(desc, i)
    BY MatchingFinite, OrderTotal DEF Prior
<1>2. Prior(desc, i) \cup {i} \in SUBSET Prior(desc, j)
    BY <1>1, MatchingFinite, OrderTotal DEF Prior
<1>3. Cardinality(Prior(desc, i) \cup {i}) = Rank(desc, i) + 1
    BY <1>1, RankFinite, FS_AddElement DEF Rank
<1>4. Cardinality(Prior(desc, i) \cup {i}) <= Rank(desc, j)
    BY <1>2, RankFinite, FS_Subset DEF Rank
<1> QED
    BY <1>3, <1>4, RankFinite

LEMMA RankBelow ==
  ASSUME table \in [Ids -> Keys \cup {Out}], NEW desc \in BOOLEAN, NEW i \in Matching
  PROVE  Rank(desc, i) < Cardinality(Matching)
<1>1. i \notin Prior(desc, i) /\ Prior(desc, i) \cup {i} \in SUBSET Matching
    BY MatchingFinite, OrderTotal DEF Prior
<1>2. Cardinality(Prior(desc, i) \cup {i}) = Rank(desc, i) + 1
    BY <1>1, RankFinite, FS_AddElement DEF Rank
<1>3. Cardinality(Prior(desc, i) \cup {i}) <= Cardinality(Matching)
    BY <1>1, MatchingFinite, FS_Subset
<1> QED
    BY <1>2, <1>3, RankFinite, MatchingFinite

\* Where no row comes before another one of the same rank, ranks tell rows apart.
LEMMA RankTells ==
  ASSUME table \in [Ids -> Keys \cup {Out}], NEW desc \in BOOLEAN, NEW i \in Matching, NEW j \in Matching
  PROVE  /\ Rank(desc, i) = Rank(desc, j) => i = j
         /\ Rank(desc, i) < Rank(desc, j) => Before(desc, i, j)
<1>1. i \in Ids /\ j \in Ids
    BY MatchingFinite
<1>2. i = j \/ Before(desc, i, j) \/ Before(desc, j, i)
    BY <1>1, OrderTotal
<1> QED
    BY <1>1, <1>2, RankGrows, RankFinite

\* In the answer of a SELECT a row stands at its rank.
LEMMA OrderRanks ==
  ASSUME table \in [Ids -> Keys \cup {Out}], NEW desc \in BOOLEAN, NEW s \in Orders(desc)
  PROVE  /\ s \in Seq(Ids) /\ Len(s) = Cardinality(Matching) /\ DOMAIN s = 1..Cardinality(Matching)
         /\ \A a \in 1..Cardinality(Matching) : s[a] \in Matching /\ Rank(desc, s[a]) = a - 1
<1> DEFINE N == Cardinality(Matching)
<1>1. N \in Nat /\ s \in [1..N -> Matching] /\ IsInjective(s)
    BY MatchingFinite DEF Orders
<1>2. \A a, b \in 1..N : a < b => Before(desc, s[a], s[b])
    BY <1>1 DEF Orders
<1>3. s \in Seq(Ids) /\ Len(s) = N /\ DOMAIN s = 1..N
  <2>1. s \in [1..N -> Ids]
      BY <1>1, MatchingFinite
  <2> QED
      BY <1>1, <2>1, SeqDef, LenProperties
<1>4. \A i \in Matching : \E a \in 1..N : s[a] = i
  <2>1. s \in Injection(1..N, Matching)
      BY <1>1 DEF Injection
  <2>2. IsFiniteSet(1..N) /\ Cardinality(1..N) = N
      BY <1>1, FS_Interval
  <2>3. s \in Surjection(1..N, Matching)
      BY <2>1, <2>2, MatchingFinite, FS_Injection
  <2> QED
      BY <2>3 DEF Surjection
<1>5. ASSUME NEW a \in 1..N PROVE Rank(desc, s[a]) = a - 1
  <2>1. a - 1 \in Nat /\ 1..(a - 1) \subseteq 1..N
      BY <1>1
  <2> DEFINE t == [b \in 1..(a - 1) |-> s[b]]
  <2>2. \A b \in 1..(a - 1) : s[b] \in Prior(desc, s[a])
      BY <1>1, <1>2, <2>1 DEF Prior
  <2>3. \A i \in Prior(desc, s[a]) : \E b \in 1..(a - 1) : s[b] = i
    <3> SUFFICES ASSUME NEW b \in 1..N, Before(desc, s[b], s[a]) PROVE b \in 1..(a - 1)
        BY <1>4 DEF Prior
    <3>1. s[a] \in Ids /\ s[b] \in Ids
        BY <1>1, MatchingFinite
    <3>2. ~(a < b) /\ a # b
        BY <1>2, <3>1, OrderTotal
    <3> QED
        BY <1>1, <3>2
  <2>4. t \in [1..(a - 1) -> Prior(desc, s[a])] /\ \A b, c \in 1..(a - 1) : t[b] = t[c] => b = c
      BY <1>1, <2>1, <2>2 DEF IsInjective
  <2>5. t \in Bijection(1..(a - 1), Prior(desc, s[a]))
      BY <2>3, <2>4 DEF Bijection, Injection, Surjection, IsInjective
  <2>6. ExistsBijection(1..(a - 1), Prior(desc, s[a]))
      BY <2>5 DEF ExistsBijection
  <2> QED
      BY <2>1, <2>6, FS_CountingElements DEF Rank
<1> QED
    BY <1>1, <1>3, <1>5

\* A row that goes leaves the others in their order.
LEMMA RowGoes ==
  ASSUME table \in [Ids -> Keys \cup {Out}], NEW i \in Ids, NEW desc \in BOOLEAN,
         table' = [table EXCEPT ![i] = Out]
  PROVE  \A j \in Matching' : /\ j \in Matching /\ Rank(desc, j)' <= Rank(desc, j)
                             /\ Rank(desc, j) \in Nat /\ Rank(desc, j)' \in Nat
<1>1. Matching' = Matching \ {i} /\ \A j \in Matching' : table'[j] = table[j]
    BY DEF Matching
<1>2. \A j, k \in Matching' : Before(desc, j, k)' <=> Before(desc, j, k)
    BY <1>1 DEF Before
<1>3. SUFFICES ASSUME NEW j \in Matching'
               PROVE  /\ Rank(desc, j)' <= Rank(desc, j)
                      /\ Rank(desc, j) \in Nat /\ Rank(desc, j)' \in Nat
    BY <1>1
<1>4. Prior(desc, j)' \in SUBSET Prior(desc, j)
    BY <1>1, <1>2 DEF Prior
<1>5. /\ IsFiniteSet(Prior(desc, j)')
      /\ Cardinality(Prior(desc, j)') <= Cardinality(Prior(desc, j))
    BY <1>4, RankFinite, FS_Subset
<1>6. Cardinality(Prior(desc, j)') \in Nat
    BY <1>5, FS_CardinalityType
<1> QED
    BY <1>5, <1>6, RankFinite DEF Rank

LEMMA ListFinds ==
  ASSUME ListInv
  PROVE  /\ table \in [Ids -> Keys \cup {Out}] /\ walk \in Walks /\ grown \in BOOLEAN /\ shrunk \in BOOLEAN
         /\ walk.seen \in Seq(Ids) /\ DOMAIN walk.seen = 1..Len(walk.seen) /\ Len(walk.seen) \in Nat
         /\ walk.page \in Nat \ {0} /\ walk.size \in Nat \ {0} /\ walk.desc \in BOOLEAN
         /\ Cardinality(Matching) \in 0..RowCount /\ Cardinality(Matching) \in Nat
<1>1. Cardinality(Matching) \in Nat
    BY MatchingFinite, TableBounds
<1> QED
    BY <1>1, MatchingFinite, PageSizes DEF ListInv, Walks

LEMMA TableChangeKeeps ==
  ASSUME ListInv, NEW i \in Ids, TableChange(i)
  PROVE  ListInv'
<1>1. PICK key \in (Keys \cup {Out}) \ {table[i]} :
          /\ table' = [table EXCEPT ![i] = key]
          /\ grown' = (grown \/ key # Out)
          /\ shrunk' = (shrunk \/ table[i] # Out)
    BY DEF TableChange
<1>2. table' \in [Ids -> Keys \cup {Out}] /\ walk' = walk /\ (grown' \/ shrunk')
      /\ grown' \in BOOLEAN /\ shrunk' \in BOOLEAN
    BY <1>1, ListFinds DEF TableChange
<1>3. PICK desc \in BOOLEAN : desc = walk.desc
    BY ListFinds
<1>4. ASSUME ~grown', NEW k \in DOMAIN walk.seen, walk.seen[k] \in Matching'
      PROVE  Rank(desc, walk.seen[k])' < From
  <2>1. ~grown /\ table' = [table EXCEPT ![i] = Out]
      BY <1>1, <1>4
  <2>2. PICK j : j = walk.seen[k]
      OBVIOUS
  <2>3. /\ j \in Matching /\ Rank(desc, j)' <= Rank(desc, j)
        /\ Rank(desc, j) \in Nat /\ Rank(desc, j)' \in Nat
      BY <1>4, <2>1, <2>2, ListFinds, RowGoes
  <2>4. Rank(desc, j) < From /\ From \in Nat
      BY <1>3, <1>4, <2>1, <2>2, <2>3, ListFinds DEF ListInv, From, Offset
  <2>5. Rank(desc, j)' < From
      BY <2>3, <2>4
  <2>6. Rank(desc, j)' = Rank(desc, walk.seen[k])'
      BY <1>2, <2>2
  <2> QED
      BY <2>5, <2>6
<1>5. From' = From /\ \A k : Rank(walk.desc, walk.seen[k])' = Rank(desc, walk.seen[k])'
    BY <1>2, <1>3 DEF From, Rank, Prior
<1>6. ~grown' => ~grown /\ \A k, l \in DOMAIN walk.seen : walk.seen[k] = walk.seen[l] => k = l
    BY <1>1, ListFinds DEF ListInv
<1>7. ~grown' => \A k \in DOMAIN walk'.seen :
                     walk'.seen[k] \in Matching' => Rank(walk.desc, walk.seen[k])' < From'
    BY <1>2, <1>4, <1>5
<1> QED
    BY <1>2, <1>6, <1>7, ListFinds DEF ListInv

LEMMA CountKeeps ==
  ASSUME ListInv, Count
  PROVE  ListInv'
<1> DEFINE total == Cardinality(Matching)
<1>1. /\ table' = table /\ grown' = grown /\ shrunk' = shrunk
      /\ walk' = [walk EXCEPT !.total = total, !.pc = IF total = 0 THEN "done" ELSE "select"]
    BY DEF Count
<1>2. /\ walk' \in Walks /\ walk'.page = walk.page /\ walk'.size = walk.size /\ walk'.desc = walk.desc
      /\ walk'.seen = walk.seen /\ walk'.total = total
      /\ walk'.pc = IF total = 0 THEN "done" ELSE "select"
    BY <1>1, ListFinds DEF Walks
<1>3. Matching' = Matching /\ \A j : Rank(walk.desc, j)' = Rank(walk.desc, j)
    BY <1>1, <1>2 DEF Matching, Rank, Prior, Before
<1>4. From' = From /\ From \in Nat
    BY <1>2, ListFinds DEF From, Offset
<1>5. total = 0 => Least(From, total) = 0
    BY <1>4 DEF Least
<1> QED
    BY <1>1, <1>2, <1>3, <1>4, <1>5, ListFinds DEF ListInv, Least

\* The number of pages is right: the last one ends where the rows end.
LEMMA PagesEnough ==
  ASSUME NEW total \in Nat \ {0}, NEW size \in Nat \ {0}, NEW page \in Nat, page >= TotalPages(total, size)
  PROVE  page * size >= total
<1> DEFINE q == (total + size - 1) \div size
<1>1. q \in Nat /\ total + size - 1 < (q + 1) * size
    OBVIOUS
<1>2. (q + 1) * size = q * size + size
    BY <1>1
<1>3. q * size >= total
    BY <1>1, <1>2
<1>4. page * size >= q * size
    BY <1>1 DEF TotalPages
<1> QED
    BY <1>1, <1>3, <1>4

\* SelectPage's page of an order.
PageOf(order) == SubSeq(order, From + 1, Least(From + walk.size, Len(order)))

LEMMA PageLength ==
  ASSUME NEW from \in Nat, NEW size \in Nat \ {0}, NEW n \in Nat
  PROVE  LET last == Least(from + size, n)
         IN /\ last \in Nat /\ last <= n /\ last <= from + size
            /\ last - Least(from, n) \in Nat
            /\ last - Least(from, n) = IF from + 1 <= last THEN last - (from + 1) + 1 ELSE 0
    BY DEF Least

LEMMA FromType ==
  ASSUME ListInv
  PROVE  From \in Nat /\ From + walk.size = walk.page * walk.size
    BY ListFinds DEF From, Offset

LEMMA PageFinds ==
  ASSUME ListInv, NEW order \in Orders(walk.desc)
  PROVE  LET p == PageOf(order)
             n == Cardinality(Matching)
         IN /\ p \in Seq(Ids) /\ Len(p) \in Nat
            /\ Len(p) = Least(From + walk.size, n) - Least(From, n)
            /\ \A a \in 1..Len(p) : /\ p[a] \in Matching /\ p[a] \in Ids
                                    /\ Rank(walk.desc, p[a]) = From + a - 1
                                    /\ a <= walk.size
<1>0. PICK n \in Nat : n = Cardinality(Matching)
    BY ListFinds
<1>1. /\ order \in Seq(Ids) /\ Len(order) = n /\ DOMAIN order = 1..n
      /\ \A a \in 1..n : order[a] \in Matching /\ Rank(walk.desc, order[a]) = a - 1
    BY <1>0, ListFinds, OrderRanks
<1>2. PICK from \in Nat, size \in Nat \ {0} : from = From /\ size = walk.size
    BY FromType, ListFinds
<1>3. PICK last : last = Least(from + size, n)
    OBVIOUS
<1>4. /\ last \in Nat /\ last <= n /\ last <= from + size /\ last - Least(from, n) \in Nat
      /\ last - Least(from, n) = IF from + 1 <= last THEN last - (from + 1) + 1 ELSE 0
    BY <1>3, PageLength
<1>5. \A a \in (from + 1)..last : order[a] \in Ids
    BY <1>1, <1>4, MatchingFinite
<1>6. PICK p : p = PageOf(order)
    OBVIOUS
<1>7. p = SubSeq(order, from + 1, last)
    BY <1>1, <1>2, <1>3, <1>6 DEF PageOf
<1>8. /\ p \in Seq(Ids)
      /\ Len(p) = IF from + 1 <= last THEN last - (from + 1) + 1 ELSE 0
      /\ \A a \in 1..(last - (from + 1) + 1) : p[a] = order[from + 1 + a - 1]
    BY <1>4, <1>5, <1>7, SubSeqProperties
<1>9. Len(p) = last - Least(from, n) /\ Len(p) \in Nat
    BY <1>4, <1>8
<1>10. ASSUME NEW a \in 1..Len(p)
       PROVE  /\ p[a] \in Matching /\ p[a] \in Ids
              /\ Rank(walk.desc, p[a]) = from + a - 1 /\ a <= size
  <2>1. /\ a \in 1..(last - (from + 1) + 1) /\ from + a \in 1..n /\ from + 1 + a - 1 = from + a
        /\ a <= size
      BY <1>4, <1>8
  <2>2. p[a] = order[from + a]
      BY <1>8, <2>1
  <2> QED
      BY <1>1, <2>1, <2>2, MatchingFinite
<1> QED
    BY <1>0, <1>2, <1>3, <1>6, <1>8, <1>9, <1>10

LEMMA SelectPageKeeps ==
  ASSUME ListInv, SelectPage
  PROVE  ListInv'
<1>1. PICK order \in Orders(walk.desc) :
          walk' = [walk EXCEPT !.seen = walk.seen \o PageOf(order), !.page = walk.page + 1,
                      !.pc = IF walk.page >= TotalPages(walk.total, walk.size) THEN "done" ELSE "count"]
    BY Zenon DEF SelectPage, PageOf, From
<1>2. walk.pc = "select" /\ table' = table /\ grown' = grown /\ shrunk' = shrunk
    BY DEF SelectPage
<1>0. PICK p, old : p = PageOf(order) /\ old = walk.seen
    OBVIOUS
<1>3. PICK n \in Nat, from \in Nat, size \in Nat \ {0} :
          p = PageOf(order) /\ n = Cardinality(Matching) /\ from = From /\ size = walk.size
    BY <1>0, ListFinds, FromType
<1>4. /\ p \in Seq(Ids) /\ Len(p) \in Nat /\ Len(p) = Least(from + size, n) - Least(from, n)
      /\ \A a \in 1..Len(p) : p[a] \in Matching /\ p[a] \in Ids
                              /\ Rank(walk.desc, p[a]) = from + a - 1 /\ a <= size
    BY <1>3, PageFinds
<1>5. PICK len \in Nat : old = walk.seen /\ len = Len(old) /\ old \in Seq(Ids) /\ DOMAIN old = 1..len
    BY <1>0, ListFinds
<1>6. PICK seen : seen = old \o p
    OBVIOUS
<1>7. /\ seen \in Seq(Ids) /\ Len(seen) = len + Len(p)
      /\ \A k \in 1..len + Len(p) : seen[k] = IF k <= len THEN old[k] ELSE p[k - len]
    BY <1>4, <1>5, <1>6, ConcatProperties
<1>8. PICK all \in Nat : all = len + Len(p) /\ Len(seen) = all /\ DOMAIN seen = 1..all
    BY <1>4, <1>5, <1>7, LenProperties
<1>9. /\ \A k \in 1..len : k \in 1..all /\ seen[k] = old[k]
      /\ \A k \in 1..all : k > len => k - len \in 1..Len(p) /\ seen[k] = p[k - len]
    BY <1>4, <1>5, <1>7, <1>8
<1>10. PICK pc : pc = IF walk.page >= TotalPages(walk.total, walk.size) THEN "done" ELSE "count"
    OBVIOUS
<1>11. pc \in {"count", "select", "done"} /\ walk.page + 1 \in Nat \ {0}
    BY <1>10, ListFinds
<1>12. walk' = [walk EXCEPT !.seen = seen, !.page = walk.page + 1, !.pc = pc]
    BY <1>1, <1>3, <1>5, <1>6, <1>10, Zenon
<1>13. /\ walk' \in Walks /\ walk'.page = walk.page + 1 /\ walk'.size = size /\ walk'.desc = walk.desc
       /\ walk'.seen = seen /\ walk'.pc = pc
    BY <1>3, <1>7, <1>11, <1>12, ListFinds DEF Walks
<1>14. Matching' = Matching /\ \A j : Rank(walk.desc, j)' = Rank(walk.desc, j)
    BY <1>2, <1>13 DEF Matching, Rank, Prior, Before
<1>15. From' = from + size /\ from + size = walk.page * size
  <2>1. from + size = walk.page * size
      BY <1>3, FromType
  <2>2. From' = (walk'.page - 1) * walk'.size
      BY DEF From, Offset
  <2>3. walk'.page - 1 = walk.page /\ walk'.size = size
      BY <1>13, ListFinds
  <2> QED
      BY <2>1, <2>2, <2>3
<1>16. \A k \in 1..all : k > len => /\ seen[k] \in Matching /\ Rank(walk.desc, seen[k]) = from + (k - len) - 1
                                    /\ k - len <= size
    BY <1>4, <1>9
<1>17. ASSUME ~grown
       PROVE  /\ \A k, l \in 1..all : seen[k] = seen[l] => k = l
              /\ \A k \in 1..all : seen[k] \in Matching => Rank(walk.desc, seen[k]) < from + size
  <2>1. /\ \A k, l \in 1..len : old[k] = old[l] => k = l
        /\ \A k \in 1..len : old[k] \in Matching => Rank(walk.desc, old[k]) < from
      BY <1>3, <1>5, <1>17 DEF ListInv
  <2>2. \A k \in 1..all : k \in 1..len \/ k > len
      BY <1>5
  <2>3. ASSUME NEW k \in 1..all, seen[k] \in Matching
        PROVE  Rank(walk.desc, seen[k]) < from + size
    <3>1. PICK r \in Nat : r = Rank(walk.desc, seen[k])
        BY RankFinite
    <3>2. CASE k \in 1..len
      <4>1. r < from
          BY <1>9, <2>1, <2>3, <3>1, <3>2
      <4> QED
          BY <3>1, <4>1
    <3>3. CASE k > len
      <4>1. r = from + (k - len) - 1 /\ k - len <= size
          BY <1>16, <3>1, <3>3
      <4> QED
          BY <3>1, <4>1
    <3> QED
        BY <2>2, <3>2, <3>3
  <2>4. ASSUME NEW k \in 1..len, NEW l \in 1..all, l > len
        PROVE  seen[k] # seen[l]
    <3>1. seen[k] \in Matching => Rank(walk.desc, seen[k]) < from
        BY <1>9, <2>1
    <3>2. seen[l] \in Matching /\ Rank(walk.desc, seen[l]) = from + (l - len) - 1
        BY <1>16, <2>4
    <3>3. ~(from + (l - len) - 1 < from)
        BY <2>4
    <3> QED
        BY <3>1, <3>2, <3>3
  <2>5. ASSUME NEW k \in 1..all, NEW l \in 1..all, seen[k] = seen[l]
        PROVE  k = l
    <3>1. CASE k \in 1..len /\ l \in 1..len
        BY <1>9, <2>1, <2>5, <3>1
    <3>2. CASE k > len /\ l > len
      <4>1. from + (k - len) - 1 = from + (l - len) - 1
          BY <1>16, <2>5, <3>2
      <4> QED
          BY <4>1
    <3> QED
        BY <2>2, <2>4, <2>5, <3>1, <3>2
  <2> QED
      BY <2>3, <2>5
<1>18. ASSUME ~grown, ~shrunk
       PROVE  /\ all = Least(from + size, n)
              /\ \A k \in 1..all : seen[k] \in Matching /\ Rank(walk.desc, seen[k]) = k - 1
              /\ pc = "done" => all = n
  <2>1. /\ walk.total = n /\ n > 0 /\ len = Least(from, n)
        /\ \A k \in 1..len : old[k] \in Matching /\ Rank(walk.desc, old[k]) = k - 1
      BY <1>2, <1>3, <1>5, <1>18 DEF ListInv
  <2>2. all = Least(from + size, n)
      BY <1>4, <1>8, <2>1 DEF Least
  <2>3. ASSUME NEW k \in 1..all
        PROVE  seen[k] \in Matching /\ Rank(walk.desc, seen[k]) = k - 1
    <3>1. CASE k \in 1..len
        BY <1>9, <2>1, <3>1
    <3>2. CASE k > len
      <4>1. len = from
          BY <2>1, <2>2, <3>2 DEF Least
      <4>2. from + (k - len) - 1 = k - 1
          BY <4>1
      <4> QED
          BY <1>16, <3>2, <4>2
    <3> QED
        BY <1>5, <3>1, <3>2
  <2>4. pc = "done" => walk.page * size >= n
      BY <1>3, <1>10, <2>1, ListFinds, PagesEnough
  <2>5. pc = "done" => all = n
      BY <1>15, <2>2, <2>4 DEF Least
  <2> QED
      BY <2>2, <2>3, <2>5
<1>19. ~grown' => /\ \A k, l \in DOMAIN walk'.seen : walk'.seen[k] = walk'.seen[l] => k = l
                  /\ \A k \in DOMAIN walk'.seen :
                       walk'.seen[k] \in Matching' => Rank(walk.desc, walk.seen[k])' < From'
    BY <1>2, <1>8, <1>13, <1>14, <1>15, <1>17
<1>20. ~grown' /\ ~shrunk' =>
          /\ walk'.pc # "select"
          /\ Len(walk'.seen) = Least(From', Cardinality(Matching'))
          /\ \A k \in DOMAIN walk'.seen : /\ walk'.seen[k] \in Matching'
                                          /\ Rank(walk.desc, walk.seen[k])' = k - 1
          /\ walk'.pc = "done" => Len(walk'.seen) = Cardinality(Matching')
    BY <1>2, <1>3, <1>8, <1>10, <1>13, <1>14, <1>15, <1>18
<1> QED
    BY <1>2, <1>13, <1>19, <1>20, ListFinds DEF ListInv, Least

LEMMA ListInvStart ==
  ASSUME table \in [Ids -> Keys \cup {Out}], NEW size \in Nat, NEW desc \in BOOLEAN,
         walk = NoWalk(size, desc), grown = FALSE, shrunk = FALSE
  PROVE  ListInv
<1>1. Clamped(size) \in 1..MaxPageSize
    BY PageSizes DEF Clamped
<1>2. <<>> \in Seq(Ids) /\ Len(<<>>) = 0 /\ DOMAIN <<>> = {}
    OBVIOUS
<1>3. /\ walk \in Walks /\ walk.pc = "count" /\ walk.seen = <<>> /\ walk.page = 1
    BY <1>1, <1>2, TableBounds DEF NoWalk, Walks
<1>4. From = 0
    BY <1>3, PageSizes DEF From, Offset, Walks
<1>5. Least(From, Cardinality(Matching)) = 0
    BY <1>4, MatchingFinite, TableBounds DEF Least
<1> QED
    BY <1>2, <1>3, <1>5 DEF ListInv

LEMMA ListInvInit == ListInit => ListInv
<1>1. 0..(MaxPageSize + 1) \subseteq Nat
    BY PageSizes
<1> QED
    BY <1>1, ListInvStart DEF ListInit

LEMMA ListInvStep == ListInv /\ ListNext => ListInv'
    BY CountKeeps, SelectPageKeeps, TableChangeKeeps DEF ListNext

LEMMA ListInvRest == ListInv /\ UNCHANGED listVars => ListInv'
    BY DEF listVars, ListInv, From, Matching, Rank, Prior, Before

\* ListTypeOK of ListServers and ListRegistries.
LEMMA ListInvTypes == ListInv => ListTypeOK
    BY ListFinds DEF ListTypeOK, Walks

LEMMA ListInvDivides == ListInv => PagesDivide
<1> SUFFICES ASSUME ListInv PROVE PagesDivide
    OBVIOUS
<1>1. ~grown => IsInjective(walk.seen)
    BY DEF ListInv, IsInjective
<1>2. ASSUME WalkDone, ~grown, ~shrunk
      PROVE  walk.seen \in Orders(walk.desc)
  <2>1. /\ Len(walk.seen) = Cardinality(Matching)
        /\ \A k \in DOMAIN walk.seen : walk.seen[k] \in Matching /\ Rank(walk.desc, walk.seen[k]) = k - 1
      BY <1>2 DEF ListInv, WalkDone
  <2>2. walk.seen \in [1..Cardinality(Matching) -> Matching]
      BY <2>1, ListFinds
  <2>3. \A a, b \in DOMAIN walk.seen : a < b => Before(walk.desc, walk.seen[a], walk.seen[b])
      BY <2>1, ListFinds, RankTells
  <2> QED
      BY <1>1, <1>2, <2>2, <2>3 DEF Orders
<1> QED
    BY <1>1, <1>2 DEF PagesDivide
=============================================================================
