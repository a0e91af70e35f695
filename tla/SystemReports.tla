---------------------------- MODULE SystemReports ---------------------------
(***************************************************************************)
(* The report on a machine, its own (sysinfo.Collector) or a remote one    *)
(* over SSH (remoteinfo.Collector): one goroutine per section, joined by a *)
(* WaitGroup.  A section that fails enters its error in the report's list  *)
(* under the mutex of the collector, which all requests share; so do they  *)
(* the cache of the own public address.                                    *)
(*                                                                         *)
(* cpu stands for every section that can fail and asks nothing outside     *)
(* (memory, disks, network, process), docker for those that answer blanks  *)
(* instead of an error (docker, database).                                 *)
(***************************************************************************)
EXTENDS Naturals, FiniteSets

CONSTANT Reports        \* requests for a report

VARIABLES
    reportOf,       \* whose reports these are: "local" or "remote"
    reports,        \* the requests: each section's place, the list of errors, the sections filled in
    errMu,          \* the section that holds the mutex of the error list
    publicIP,       \* the cached address
    failed          \* observer: the sections that have failed

reportVars == <<reportOf, reports, errMu, publicIP, failed>>

Sections == {"host", "cpu", "docker"}
Free == <<>>
NoIP == "none"

NoReport ==
    [at |-> [s \in Sections |-> "running"], seen |-> [s \in Sections |-> {}],
     errors |-> {}, filled |-> {}, answered |-> FALSE]

ReportInit ==
    /\ reportOf \in {"local", "remote"}
    /\ reports = [r \in Reports |-> NoReport]
    /\ errMu = Free
    /\ publicIP = NoIP
    /\ failed = {}

At(r, s, place) == reports[r].at[s] = place

\* out.Host = hi and the like, and wg.Done
Fill(r, s) ==
    reports' = [reports EXCEPT ![r].at[s] = "done", ![r].filled = @ \cup {s}]

-----------------------------------------------------------------------------
(* The sections. *)

\* collectCPU and its like succeed; collectDocker and collectDatabase answer
\* with whatever they have found.
SectionEnds(r, s) ==
    /\ s # "host" \/ reportOf = "remote"
    /\ At(r, s, "running")
    /\ Fill(r, s)
    /\ UNCHANGED <<reportOf, errMu, publicIP, failed>>

SectionFails(r, s) ==
    /\ s # "docker"
    /\ At(r, s, "running")
    /\ reports' = [reports EXCEPT ![r].at[s] = "err"]
    /\ failed' = failed \cup {<<r, s>>}
    /\ UNCHANGED <<reportOf, errMu, publicIP>>

\* resolvePublicIP: the cache, under its mutex ...
LookIntoCache(r) ==
    /\ reportOf = "local" /\ At(r, "host", "running")
    /\ IF publicIP # NoIP THEN Fill(r, "host")
       ELSE reports' = [reports EXCEPT ![r].at["host"] = "fetching"]
    /\ UNCHANGED <<reportOf, errMu, publicIP, failed>>

\* Only an address is kept.
Cached(ip) == IF ip = NoIP THEN publicIP ELSE ip

\* ... and a lookup of the net, which two requests may make at a time.
FetchPublicIP(r) ==
    /\ reportOf = "local" /\ At(r, "host", "fetching")
    /\ \E ip \in {NoIP, "address"} : publicIP' = Cached(ip)
    /\ Fill(r, "host")
    /\ UNCHANGED <<reportOf, errMu, failed>>

\* Variant of AddErrLock: without the mutex.
AddErrUnlocked(r, s) ==
    /\ At(r, s, "err")
    /\ reports' = [reports EXCEPT ![r].at[s] = "appending", ![r].seen[s] = reports[r].errors]
    /\ UNCHANGED <<reportOf, errMu, publicIP, failed>>

\* addErr: take the mutex and read the list ...
AddErrLock(r, s) ==
    /\ At(r, s, "err") /\ errMu = Free
    /\ errMu' = <<r, s>>
    /\ reports' = [reports EXCEPT ![r].at[s] = "appending", ![r].seen[s] = reports[r].errors]
    /\ UNCHANGED <<reportOf, publicIP, failed>>

\* Variant of AddErr: no Unlock.
AddErrLocked(r, s) ==
    /\ At(r, s, "appending")
    /\ reports' = [reports EXCEPT ![r].at[s] = "done", ![r].filled = @ \cup {s},
                                  ![r].errors = reports[r].seen[s] \cup {s}]
    /\ UNCHANGED <<reportOf, errMu, publicIP, failed>>

\* ... and write it back with the error; the section is then filled with what
\* it has, which is nothing.
AddErr(r, s) ==
    /\ At(r, s, "appending")
    /\ reports' = [reports EXCEPT ![r].at[s] = "done", ![r].filled = @ \cup {s},
                                  ![r].errors = reports[r].seen[s] \cup {s}]
    /\ errMu' = Free
    /\ UNCHANGED <<reportOf, publicIP, failed>>

\* wg.Wait, and the handler answers 200 whatever is missing.
Respond(r) ==
    /\ ~reports[r].answered
    /\ \A s \in Sections : At(r, s, "done")
    /\ reports' = [reports EXCEPT ![r].answered = TRUE]
    /\ UNCHANGED <<reportOf, errMu, publicIP, failed>>

SectionStep(r, s) ==
    SectionEnds(r, s) \/ SectionFails(r, s) \/ AddErrLock(r, s) \/ AddErr(r, s)

ReportStep(r) ==
    \/ LookIntoCache(r) \/ FetchPublicIP(r) \/ Respond(r)
    \/ \E s \in Sections : SectionStep(r, s)

ReportNext == \E r \in Reports : ReportStep(r)

-----------------------------------------------------------------------------
(* Properties *)

ReportTypeOK ==
    /\ reportOf \in {"local", "remote"}
    /\ errMu \in {Free} \cup (Reports \X Sections)
    /\ publicIP \in {NoIP, "address"}
    /\ failed \subseteq Reports \X Sections
    /\ \A r \in Reports :
          /\ reports[r].at \in [Sections -> {"running", "fetching", "err", "appending", "done"}]
          /\ reports[r].seen \in [Sections -> SUBSET Sections]
          /\ reports[r].errors \subseteq Sections
          /\ reports[r].filled \subseteq Sections

\* "An error of a category is written to Errors and does not bring down the
\* others" (both collectors): whatever overlaps, an answer has every section,
\* and names exactly those that have failed.
ErrorsKept ==
    \A r \in Reports : reports[r].answered =>
        /\ reports[r].filled = Sections
        /\ reports[r].errors = {s \in Sections : <<r, s>> \in failed}
=============================================================================
