----------------------------- MODULE Collections -----------------------------
(***************************************************************************)
(* A handler that asks others: one of the endpoints below serves one       *)
(* request, or, where requests share state, a few.  The endpoints share    *)
(* nothing else with each other, so a behaviour is a behaviour of one of   *)
(* them, and the variables of the others rest.                             *)
(***************************************************************************)
EXTENDS ContainerLogs, ContainerLists, ServiceLists, SystemReports, Listings, RegistryChecks

CONSTANT Endpoints      \* those that are looked at

ASSUME EndpointsKnown ==
    Endpoints \subseteq {"container-logs", "containers", "services", "report", "list", "registry"}

VARIABLE endpoint

collectionVars ==
    <<endpoint, logVars, boxVars, unitVars, reportVars, listVars, registryVars>>

-----------------------------------------------------------------------------
(* The state of an endpoint that is not asked. *)

LogsRest == docker = "ok" /\ withStderr = FALSE /\ logs = NoLogs
BoxRest ==
    /\ boxes = [b \in Boxes |-> Absent] /\ engine = "up" /\ sweep = NoSweep
    /\ steady = Boxes /\ hurt = {} /\ trouble = FALSE
UnitRest ==
    /\ units = [u \in Units |-> Gone] /\ manager = "up" /\ scan = NoScan
    /\ watch = [steady |-> Units, hurt |-> {}, trouble |-> FALSE]
ReportRest ==
    /\ reportOf = "local" /\ reports = [r \in Reports |-> NoReport]
    /\ errMu = Free /\ publicIP = NoIP /\ failed = {}
ListRest ==
    /\ table = [i \in Ids |-> Out] /\ walk = NoWalk(0, FALSE)
    /\ grown = FALSE /\ shrunk = FALSE
RegistryRest ==
    /\ registry = [state |-> "deleted", password |-> NoPassword, active |-> FALSE, status |-> "none"]
    /\ docker_io = [kind |-> "open", health |-> "up", password |-> "p1", lenient |-> FALSE,
                     valid |-> {"p1"}]
    /\ calls = [p \in Callers |-> NoCall]

Asked(e, init, rest) == IF endpoint = e THEN init ELSE rest

CollectionInit ==
    /\ endpoint \in Endpoints
    /\ Asked("container-logs", LogsInit, LogsRest)
    /\ Asked("containers", BoxInit, BoxRest)
    /\ Asked("services", UnitInit, UnitRest)
    /\ Asked("report", ReportInit, ReportRest)
    /\ Asked("list", ListInit, ListRest)
    /\ Asked("registry", RegistryInit, RegistryRest)

-----------------------------------------------------------------------------

Logs ==
    /\ endpoint = "container-logs" /\ LogsNext
    /\ UNCHANGED <<endpoint, boxVars, unitVars, reportVars, listVars, registryVars>>

OtherThanBoxes == UNCHANGED <<endpoint, logVars, unitVars, reportVars, listVars, registryVars>>
Containers == endpoint = "containers" /\ BoxNext /\ OtherThanBoxes

OtherThanUnits == UNCHANGED <<endpoint, logVars, boxVars, reportVars, listVars, registryVars>>
Services == endpoint = "services" /\ UnitNext /\ OtherThanUnits

OtherThanReports == UNCHANGED <<endpoint, logVars, boxVars, unitVars, listVars, registryVars>>
Report == endpoint = "report" /\ ReportNext /\ OtherThanReports

List ==
    /\ endpoint = "list" /\ ListNext
    /\ UNCHANGED <<endpoint, logVars, boxVars, unitVars, reportVars, registryVars>>

Registry ==
    /\ endpoint = "registry" /\ RegistryNext
    /\ UNCHANGED <<endpoint, logVars, boxVars, unitVars, reportVars, listVars>>

CollectionNext == Logs \/ Containers \/ Services \/ Report \/ List \/ Registry

\* The calls of the own host's collectors are bounded by the context of the
\* request or a timeout of their own, and their goroutines are scheduled.
CollectionFairness ==
    /\ WF_boxVars(endpoint = "containers" /\ LocalStep /\ OtherThanBoxes)
    /\ WF_unitVars(endpoint = "services" /\ ScanStep /\ OtherThanUnits)
    /\ \A r \in Reports :
         WF_reportVars(endpoint = "report" /\ reportOf = "local" /\ ReportStep(r) /\ OtherThanReports)

Spec == CollectionInit /\ [][CollectionNext]_collectionVars /\ CollectionFairness

-----------------------------------------------------------------------------
(* Properties *)

TypeOK ==
    /\ LogsTypeOK /\ BoxTypeOK /\ UnitTypeOK /\ ReportTypeOK /\ ListTypeOK /\ RegistryTypeOK

OwnHostAsked ==
    \/ endpoint = "containers" /\ sweep.of = "local"
    \/ endpoint = "services" /\ scan.of = "local"
    \/ endpoint = "report" /\ reportOf = "local"

OwnHostAnswered ==
    \/ endpoint = "containers" /\ SweepDone
    \/ endpoint = "services" /\ ScanDone
    \/ endpoint = "report" /\ \A r \in Reports : reports[r].answered

\* Whatever fails, stops or is cancelled, the collectors of the own host come
\* to an end: no section, inspection or property call holds up the answer for
\* good (Collect of docker, systemd and sysinfo).
CollectionEnds == OwnHostAsked ~> OwnHostAnswered

\* The action property of the registry endpoint, over whole behaviours.
ActivityIsJustified == [][ActivityJustified]_registryVars
=============================================================================
