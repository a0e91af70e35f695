---------------------------- MODULE ServiceLists ----------------------------
(***************************************************************************)
(* The list of a host's systemd services.  On the own host                 *)
(* (systemd.Collector) over D-Bus: one call lists the units, two more per  *)
(* unit ask for its properties, PropsLimit units at a time.  On a remote   *)
(* host (remotesystemd.Collector) over SSH: one script lists them, then    *)
(* systemctl show is run for BatchSize of them after another.              *)
(*                                                                         *)
(* A unit is its place in the listing, which both hosts sort by name.      *)
(* watch is an observer, read by properties only.                          *)
(***************************************************************************)
EXTENDS Naturals, FiniteSets, Sequences

CONSTANTS
    UnitCount,      \* units 1 .. UnitCount of the host
    Trimmed,        \* the name that is left of each unit's name in parseListUnits
    PropsLimit,     \* propsConcurrency
    BatchSize,      \* units per systemctl show
    Restless        \* units that may change while they are listed

ASSUME UnitBounds ==
    /\ UnitCount \in Nat /\ PropsLimit \in Nat \ {0} /\ BatchSize \in Nat \ {0}
    /\ Restless \subseteq 1..UnitCount
    /\ Trimmed \in [1..UnitCount -> Nat]
    /\ \A u \in 1..UnitCount : Trimmed[u] \in 1..UnitCount => Trimmed[Trimmed[u]] = Trimmed[u]

VARIABLES
    units,          \* what systemd knows
    manager,        \* systemd itself: up, unreachable, not installed
    scan,           \* the collection
    watch           \* units steady since the start, hurt by a call of their own, and other trouble

unitVars == <<units, manager, scan, watch>>

Units == 1..UnitCount
UnitState == {"active", "failed"}
Gone == "gone"
Loaded(u) == units[u] # Gone

\* A service of the answer: its name, its ActiveState, and which properties
\* have been read.
Service(name, active, props) == [name |-> name, active |-> active, props |-> props]
AllProps == {"unit", "service"}

\* parseListUnits trims status symbols from the front of a line, and with them
\* every x.  What is left of such a name may be the name of another unit, of
\* which nothing is trimmed, or of none (no member of Units).
XUnits == {u \in Units : Trimmed[u] # u}

NoScan ==
    [of |-> "local", pc |-> "start", live |-> TRUE, answer |-> "none", list |-> <<>>,
     busy |-> <<>>, rows |-> <<>>, next |-> 1, errors |-> {}]

UnitInit ==
    /\ units \in [Units -> UnitState \cup {Gone}]
    /\ manager \in {"up", "unreachable", "not-installed"}
    /\ \E of \in {"local", "remote"} : scan = [NoScan EXCEPT !.of = of]
    /\ watch = [steady |-> Units, hurt |-> {}, trouble |-> FALSE]

ScanAt(of, pc) == scan.of = of /\ scan.pc = pc
ScanDone == scan.pc = "done"
ScanEnd(answer) == scan' = [scan EXCEPT !.pc = "done", !.answer = answer]
Trouble == watch' = [watch EXCEPT !.trouble = TRUE]
Hurt(S) == watch' = [watch EXCEPT !.hurt = @ \cup S]
Answering == manager = "up" /\ scan.live
Reading == UNCHANGED <<units, manager>>

\* What a list call sees: the units there are, in order (one sequence).
UnitLists ==
    LET there == {u \in Units : Loaded(u)}
    IN {s \in [1..Cardinality(there) -> there] : \A i, j \in DOMAIN s : i < j => s[i] < s[j]}

-----------------------------------------------------------------------------
(* The host and the client. *)

\* A unit starts, fails, is loaded or goes.
UnitChange(u) ==
    /\ ~ScanDone
    /\ \E st \in (UnitState \cup {Gone}) \ {units[u]} : units' = [units EXCEPT ![u] = st]
    /\ watch' = [watch EXCEPT !.steady = @ \ {u}]
    /\ UNCHANGED <<manager, scan>>

ManagerLost ==
    /\ ~ScanDone /\ manager = "up"
    /\ manager' = "unreachable" /\ Trouble
    /\ UNCHANGED <<units, scan>>

ScanExpire ==
    /\ ~ScanDone /\ scan.live
    /\ scan' = [scan EXCEPT !.live = FALSE]
    /\ Reading /\ Trouble

-----------------------------------------------------------------------------
(* systemd.Collector: gather *)

\* connect: the private socket, else the system bus.  (collectManager's
\* properties are optional and without consequence for the rest.)
Connect ==
    /\ ScanAt("local", "start") /\ Reading
    /\ \/ Answering /\ scan' = [scan EXCEPT !.pc = "list", !.answer = "available"] /\ UNCHANGED watch
       \/ ScanEnd("systemd-unreachable") /\ Trouble

ListUnits ==
    /\ ScanAt("local", "list") /\ Reading
    /\ \/ /\ Answering
          /\ \E list \in UnitLists :
                scan' = [scan EXCEPT !.pc = "enrich", !.list = list,
                           !.busy = [i \in DOMAIN list |-> "waiting"],
                           !.rows = [i \in DOMAIN list |-> Service(list[i], units[list[i]], {})]]
          /\ UNCHANGED watch
       \/ scan' = [scan EXCEPT !.pc = "done", !.errors = @ \cup {"list-units"}] /\ Trouble

InProgress == {i \in DOMAIN scan.busy : scan.busy[i] \in AllProps}

\* g.Go: one goroutine per service, PropsLimit at a time.
EnrichStart(i) ==
    /\ ScanAt("local", "enrich") /\ i \in DOMAIN scan.busy /\ scan.busy[i] = "waiting"
    /\ Cardinality(InProgress) < PropsLimit
    /\ scan' = [scan EXCEPT !.busy[i] = "unit"]
    /\ Reading /\ UNCHANGED watch

AfterCall == [unit |-> "service", service |-> "enriched"]

\* Variant of EnrichFails: the other properties are no longer asked for.
EnrichFailsBoth(i, call) ==
    scan' = [scan EXCEPT !.busy[i] = "enriched", !.errors = @ \cup {call}]

\* Variant of EnrichFails: addErr is left out.
EnrichFailsSilently(i, call) == scan' = [scan EXCEPT !.busy[i] = AfterCall[call]]

\* A call that fails leaves one error behind; the other call is made all the same.
EnrichFails(i, call) ==
    scan' = [scan EXCEPT !.busy[i] = AfterCall[call], !.errors = @ \cup {call}]

\* enrich: the properties of the unit, then those of the service.  Both are
\* newer than the ActiveState of the list, which stays.
Enrich(i) ==
    /\ i \in InProgress /\ Reading
    /\ LET call == scan.busy[i]
           u == scan.list[i]
       IN \/ /\ Answering /\ Loaded(u)
             /\ scan' = [scan EXCEPT !.busy[i] = AfterCall[call], !.rows[i].props = @ \cup {call}]
             /\ UNCHANGED watch
          \/ EnrichFails(i, call) /\ Hurt({<<u, call>>})

Join ==
    /\ ScanAt("local", "enrich")
    /\ \A i \in DOMAIN scan.busy : scan.busy[i] = "enriched"
    /\ scan' = [scan EXCEPT !.pc = "done"]
    /\ Reading /\ UNCHANGED watch

-----------------------------------------------------------------------------
(* remotesystemd.Collector: Collect *)

\* The list script.  Output that breaks off at once looks like a host without
\* systemctl; broken off before the list, or from a systemctl that cannot reach
\* systemd, it gives an empty list; broken off within it, the rest is missing.
ListScript ==
    /\ ScanAt("remote", "start") /\ Reading
    /\ LET Arrived(list) ==
               IF list = <<>>
               THEN scan' = [scan EXCEPT !.pc = "done", !.answer = "available",
                                         !.errors = @ \cup {"list-units"}]
               ELSE scan' = [scan EXCEPT !.pc = "show", !.answer = "available", !.list = list,
                        !.rows = [i \in DOMAIN list |-> Service(Trimmed[list[i]], units[list[i]], {})]]
       IN \/ ScanEnd("ssh-command-failed") /\ Trouble
          \/ manager = "not-installed" /\ scan.live /\ ScanEnd("systemctl-not-found") /\ UNCHANGED watch
          \/ scan.live /\ ScanEnd("systemctl-not-found") /\ Trouble
          \/ manager = "unreachable" /\ scan.live /\ Arrived(<<>>) /\ UNCHANGED watch
          \/ /\ manager = "up" /\ scan.live
             /\ \E list \in UnitLists : Arrived(list)
             /\ UNCHANGED watch
          \/ /\ manager = "up" /\ scan.live
             /\ \E list \in UnitLists, n \in 0..UnitCount :
                   n <= Len(list) /\ Arrived(SubSeq(list, 1, n))
             /\ Trouble

Smaller(a, b) == IF a < b THEN a ELSE b

\* The rows of the next systemctl show.
Batch == scan.next..Smaller(scan.next + BatchSize - 1, Len(scan.rows))

\* applyShowProps: systemctl show of a name nobody has, and of a unit that is
\* gone, says so.
Shown(row) ==
    Service(row.name,
            IF row.name \in Units /\ Loaded(row.name) THEN units[row.name] ELSE "not-found",
            AllProps)

ShowDone(rows, errors) ==
    scan' = [scan EXCEPT !.next = @ + BatchSize, !.rows = rows, !.errors = @ \cup errors]

\* A batch whose command gives nothing is an error of its own.
ShowFails == ShowDone(scan.rows, {"show"})

\* The properties of the rows S.
PropsOf(S) == {scan.list[i] : i \in S} \X AllProps

\* enrichFromShow: of the rows with a name the last one gets the properties
\* that were shown of that name, for the rows S of the batch.
Enriched(S) ==
    [i \in DOMAIN scan.rows |->
        IF /\ \E k \in S : scan.rows[k].name = scan.rows[i].name
           /\ \A j \in DOMAIN scan.rows : j > i => scan.rows[j].name # scan.rows[i].name
        THEN Shown(scan.rows[i]) ELSE scan.rows[i]]

\* One batch: whole, not at all, or broken off within, which is no error.
Show ==
    /\ ScanAt("remote", "show") /\ scan.next <= Len(scan.rows) /\ Reading
    /\ \/ /\ scan.live /\ manager = "up"
          /\ ShowDone(Enriched(Batch), {})
          /\ UNCHANGED watch
       \/ ShowFails /\ Hurt(PropsOf(Batch))
       \/ /\ scan.live /\ manager = "up"
          /\ \E n \in Batch :
                /\ ShowDone(Enriched({k \in Batch : k < n}), {})
                /\ Hurt(PropsOf({k \in Batch : k >= n}))

ShowEnd ==
    /\ ScanAt("remote", "show") /\ scan.next > Len(scan.rows)
    /\ scan' = [scan EXCEPT !.pc = "done"]
    /\ Reading /\ UNCHANGED watch

ScanStep == Connect \/ ListUnits \/ Join \/ \E i \in Units : EnrichStart(i) \/ Enrich(i)

UnitNext ==
    \/ ScanStep \/ ListScript \/ Show \/ ShowEnd \/ ManagerLost \/ ScanExpire
    \/ \E u \in Restless : UnitChange(u)

-----------------------------------------------------------------------------
(* Properties *)

UnitTypeOK ==
    /\ units \in [Units -> UnitState \cup {Gone}]
    /\ manager \in {"up", "unreachable", "not-installed"}
    /\ scan.pc \in {"start", "list", "enrich", "show", "done"}
    /\ scan.answer \in {"none", "available", "systemd-unreachable", "ssh-command-failed",
                        "systemctl-not-found"}
    /\ \A i \in DOMAIN scan.rows :
          /\ scan.rows[i].name \in Units \cup {Trimmed[u] : u \in Units}
          /\ scan.rows[i].active \in UnitState \cup {"not-found"}
          /\ scan.rows[i].props \subseteq AllProps
    /\ Cardinality(InProgress) <= PropsLimit

\* No other unit is listed under the name of u.
Alone(u) == \A i \in DOMAIN scan.rows : scan.rows[i].name = u => scan.list[i] = u

\* "The rest is collected as it is" (both collectors): whatever happens to
\* the other units and to their calls, one that nobody touches is listed once,
\* with its state and with each group of properties whose call did not fail -
\* unless a name has been trimmed to its own, which costs it that much.
SteadyUnitsShown ==
    ScanDone /\ scan.answer = "available" /\ ~watch.trouble /\ manager = "up" =>
        \A u \in watch.steady \ XUnits : Alone(u) =>
            LET places == {i \in DOMAIN scan.rows : scan.rows[i].name = u}
            IN IF Loaded(u)
               THEN \E i \in places :
                        /\ places = {i}
                        /\ scan.rows[i].active = units[u]
                        /\ \A c \in AllProps : c \in scan.rows[i].props \/ <<u, c>> \in watch.hurt
               ELSE places = {}

\* A call that failed on the own host is reported: without errors every row
\* of the answer has all its properties.
GapsReported ==
    ScanDone /\ scan.of = "local" /\ scan.errors = {} =>
        \A i \in DOMAIN scan.rows : scan.rows[i].props = AllProps
=============================================================================
