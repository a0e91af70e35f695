--------------------------- MODULE RegistryChecks ---------------------------
(***************************************************************************)
(* Talking to a saved Docker registry (RegistryService with                *)
(* registryclient.Checker): connect and ping try the credentials of the    *)
(* row and record the result in it, images lists the repositories with     *)
(* their tags, TagFetchLimit repositories at a time.  Meanwhile the row is *)
(* updated or deleted, the registry goes down or its account changes, and  *)
(* clients go away.                                                        *)
(*                                                                         *)
(* The login is the row's email, which is mandatory; only the password can *)
(* be missing, and is then tried as the empty one.  valid, of the          *)
(* registry, and hurt, of a call, are observers: they are read by          *)
(* properties only.  A repository is its place in the registry's answer.   *)
(***************************************************************************)
EXTENDS Naturals, FiniteSets

CONSTANTS
    Callers,        \* requests
    RepoCount,      \* repositories a registry can name at most
    TagFetchLimit,  \* tagFetchConcurrency
    MaxRepos        \* maxReposToEnrich

ASSUME TagFetchLimitPositive == TagFetchLimit \in Nat \ {0}
ASSUME RepoBounds == RepoCount \in Nat /\ MaxRepos \in Nat \ {0}

VARIABLES
    registry,       \* the row of the table
    docker_io,      \* the registry itself, Docker Hub or another
    calls           \* the requests

registryVars == <<registry, docker_io, calls>>

Passwords == {"p1", "p2"}
NoPassword == "no-password"
Asks == {"connect", "ping", "images"}
Healths == {"up", "failing", "down", "bad-certificate"}
Status == {"OK", "AUTH_FAILED", "UNREACHABLE", "TLS_ERROR", "ERROR"}

NoCall ==
    [ask |-> "none", pc |-> "idle", live |-> TRUE, password |-> NoPassword, result |-> "none",
     tags |-> <<>>, total |-> 0, hurt |-> {}]

\* Bound: the row begins active and unchecked, the registry in good health.  A
\* lenient registry lets a login without a password in, as token servers may.
RegistryInit ==
    /\ \E password \in Passwords \cup {NoPassword} :
         registry = [state |-> "live", password |-> password, active |-> TRUE, status |-> "none"]
    /\ \E kind \in {"hub", "open", "basic", "bearer", "strange"}, lenient \in BOOLEAN :
         /\ lenient => kind \in {"basic", "bearer"}
         /\ docker_io = [kind |-> kind, health |-> "up", password |-> "p1", lenient |-> lenient,
                         valid |-> {"p1"} \cup (IF lenient THEN {NoPassword} ELSE {})]
    /\ calls = [p \in Callers |-> NoCall]

CallAt(p, pc) == calls[p].pc = pc

\* The handler returns, and the context of its request ends.
CallDone(p, result) ==
    calls' = [calls EXCEPT ![p].pc = "done", ![p].result = result, ![p].live = FALSE]

\* UpdateRegistry, DeleteRegistry: a caller that is done in one step.
Only(p, ask) == calls' = [calls EXCEPT ![p].ask = ask, ![p].pc = "done", ![p].live = FALSE]

SameRegistry == UNCHANGED <<registry, docker_io>>
HasPassword(p) == calls[p].password # NoPassword

-----------------------------------------------------------------------------
(* Around the requests. *)

\* The registry fails, or its account gets another password.  Bound: a failure
\* lasts, and no password comes back.
RegistryTurns ==
    /\ \/ /\ docker_io.health = "up"
          /\ \E h \in Healths \ {"up"} : docker_io' = [docker_io EXCEPT !.health = h]
       \/ \E w \in Passwords \ docker_io.valid :
             docker_io' = [docker_io EXCEPT !.password = w, !.valid = @ \cup {w}]
    /\ UNCHANGED <<registry, calls>>

\* The client closes the connection, and r.Context() is cancelled.
ClientLeaves(p) ==
    /\ calls[p].pc \notin {"idle", "done"} /\ calls[p].live
    /\ calls' = [calls EXCEPT ![p].live = FALSE]
    /\ SameRegistry

\* UpdateRegistry, whose statements Registries takes apart: the password is new,
\* the old one or cleared, is_active as the request has it; what a check has
\* found stays.  Bound: type, address and login stay as well.
RowUpdated(p, password, active) ==
    /\ CallAt(p, "idle") /\ registry.state = "live"
    /\ registry' = [registry EXCEPT !.password = password, !.active = active]
    /\ Only(p, "update")
    /\ UNCHANGED docker_io

\* DeleteRegistry
RowDeleted(p) ==
    /\ CallAt(p, "idle") /\ registry.state = "live"
    /\ registry' = [registry EXCEPT !.state = "deleted"]
    /\ Only(p, "delete")
    /\ UNCHANGED docker_io

-----------------------------------------------------------------------------
(* The exchange with the registry. *)

\* ConnectRegistry, PingRegistry, ListRegistryImages: the row and its password,
\* if the row is there and the password can be decrypted.  Bound: one listing,
\* and no check next to it: a listing writes nothing, and reads nothing a check writes.
RowRead(p, ask) ==
    /\ CallAt(p, "idle") /\ SameRegistry
    /\ \A q \in Callers : calls[q].ask \in Asks => "images" \notin {ask, calls[q].ask}
    /\ \/ /\ registry.state = "live"
          /\ calls' = [calls EXCEPT ![p].ask = ask, ![p].password = registry.password, ![p].pc = "ask"]
       \/ registry.state = "deleted" /\ CallDone(p, "NOT_FOUND")
       \/ CallDone(p, "INTERNAL_ERROR")

\* The registry's verdict on the login with the password of the call.
Judged(p) ==
    IF \/ calls[p].password = docker_io.password
       \/ docker_io.lenient /\ ~HasPassword(p)
    THEN {"welcome"} ELSE {"refused"}

HubLogin(p) == docker_io.kind = "hub" /\ HasPassword(p)

\* What the registry says to the request a call makes now: at first nobody
\* shows a password, except to Docker Hub, which has a login of its own and
\* is only asked for its /v2/, or for a public list, without a password.
\* Then, to a token server or with basic authentication, login and password
\* of the row, and at last the token.
Says(p) ==
    CASE CallAt(p, "ask") /\ docker_io.kind = "open" -> {"welcome"}
      [] CallAt(p, "ask") /\ docker_io.kind \in {"basic", "bearer", "strange"} -> {"challenge"}
      [] CallAt(p, "ask") /\ docker_io.kind = "hub" /\ ~HasPassword(p) -> {"welcome", "refused"}
      [] calls[p].pc \in {"retry", "repos"} -> {"welcome", "refused"}
      [] OTHER -> Judged(p)

\* get, getBasic: what comes back, if anything does.
Replies(p) ==
    {"silence"} \cup
    (IF ~calls[p].live THEN {} ELSE CASE docker_io.health = "up" -> Says(p)
                                      [] docker_io.health = "failing" -> {"odd-status"}
                                      [] docker_io.health = "bad-certificate" -> {"bad-certificate"}
                                      [] docker_io.health = "down" -> {})

\* Variant of CheckStatus: nobody looks at the status code.
CheckStatusOfAnyReply(p, reply) == IF reply \in {"welcome", "refused"} THEN "OK" ELSE "UNREACHABLE"

\* checkDockerHub, checkV2, handleAuth, classifyError: the status a reply that
\* ends the check stands for.  Docker Hub without a password is only reached.
CheckStatus(p, reply) ==
    IF reply = "welcome" THEN "OK"
    ELSE IF docker_io.kind = "hub" /\ ~HasPassword(p) /\ reply \in {"refused", "odd-status"} THEN "OK"
    ELSE IF reply = "refused" \/ CallAt(p, "token") THEN "AUTH_FAILED"
    ELSE IF reply = "odd-status" THEN (IF CallAt(p, "ask") /\ ~HubLogin(p) THEN "ERROR" ELSE "AUTH_FAILED")
    ELSE IF reply = "bad-certificate" /\ ~HubLogin(p) THEN "TLS_ERROR"
    ELSE "UNREACHABLE"

\* listDockerHub, listV2, authedGet: how a listing that gets no further ends.
ListError(p, reply) ==
    IF reply = "refused" \/ CallAt(p, "token") THEN "REGISTRY_AUTH_FAILED"
    ELSE IF reply = "odd-status" THEN (IF HubLogin(p) /\ CallAt(p, "ask") THEN "REGISTRY_AUTH_FAILED"
                                       ELSE IF docker_io.kind = "hub" THEN "REGISTRY_UNREACHABLE"
                                       ELSE "REGISTRY_UNSUPPORTED")
    ELSE "REGISTRY_UNREACHABLE"

\* How many of the repositories the registry has named, or counted, a listing
\* shows: listV2 cuts at MaxRepos, Docker Hub is asked for that many.
Cut(total) == IF total > MaxRepos THEN MaxRepos ELSE total

\* The exchange is over: the listing goes on to the tags, the checks to the row.
\* Total is up to the registry.
Ended(p, reply) ==
    IF calls[p].ask # "images"
    THEN calls' = [calls EXCEPT ![p].pc = "record", ![p].result = CheckStatus(p, reply)]
    ELSE IF reply = "welcome"
    THEN \E total \in 0..RepoCount :
            calls' = [calls EXCEPT ![p].pc = "tags", ![p].total = total,
                                   ![p].tags = [x \in 1..Cut(total) |-> "waiting"]]
    ELSE CallDone(p, ListError(p, reply))

\* Which request follows a challenge.  (handleAuth refuses a basic registry
\* without credentials, which a row, with its mandatory login, always has.)
Answered ==
    CASE docker_io.kind = "bearer" -> "token"
      [] docker_io.kind = "basic" -> "basic"
      [] OTHER -> "none"

Exchange(p) ==
    /\ calls[p].pc \in {"ask", "token", "basic", "retry", "repos"}
    /\ SameRegistry
    /\ \E reply \in Replies(p) :
          IF reply = "challenge"
          THEN IF Answered = "none" THEN Ended(p, "refused")
               ELSE calls' = [calls EXCEPT ![p].pc = Answered]
          ELSE IF CallAt(p, "token") /\ reply = "welcome"
          THEN calls' = [calls EXCEPT ![p].pc = "retry"]
          ELSE IF calls[p].ask = "images" /\ HubLogin(p) /\ CallAt(p, "ask") /\ reply = "welcome"
          THEN calls' = [calls EXCEPT ![p].pc = "repos"]
          ELSE Ended(p, reply)

\* A listing of Docker Hub without a namespace, or an answer that cannot be decoded.
ListingEnds(p) ==
    /\ calls[p].ask = "images" /\ SameRegistry
    /\ \/ CallAt(p, "ask") /\ docker_io.kind = "hub" /\ CallDone(p, "REGISTRY_UNSUPPORTED")
       \/ calls[p].pc \in {"ask", "retry", "basic", "repos"} /\ CallDone(p, "INTERNAL_ERROR")

-----------------------------------------------------------------------------
(* The end of a check. *)

Connected(p) == calls[p].result = "OK"

\* Result.Authenticated: of everything but Docker Hub without a password, even
\* of a registry that asks for nothing, since the row has a login.
Authenticated(p) == Connected(p) /\ ~(docker_io.kind = "hub" /\ ~HasPassword(p))

\* Variant of SetActive: connect, too, switches off.
SetActiveBoth(p) == Connected(p)

\* is_active = COALESCE($5, is_active): ping switches both ways, connect on.
\* (The statement's comment speaks of connect only: "a failed check does not
\* switch off" an active connection; PingRegistry's says "both ways".)
SetActive(p) == IF calls[p].ask = "ping" THEN Connected(p) ELSE Connected(p) \/ registry.active

\* UpdateConnectionStatus of a row that is still there.
Recorded(p) ==
    IF registry.state = "live"
    THEN registry' = [registry EXCEPT !.status = calls[p].result, !.active = SetActive(p)]
    ELSE UNCHANGED registry

\* The request's context carries the statement as well: after a cancellation
\* it is not sent, which is logged and no more.  (A failing database has the
\* same effect and is left out here.)
Record(p) ==
    /\ CallAt(p, "record")
    /\ CallDone(p, calls[p].result)
    /\ \/ calls[p].live /\ Recorded(p)
       \/ ~calls[p].live /\ UNCHANGED registry
    /\ UNCHANGED docker_io

-----------------------------------------------------------------------------
(* The tags of a listing. *)

Fetching(p) == {x \in DOMAIN calls[p].tags : calls[p].tags[x] = "fetching"}

TagsStart(p, x) ==
    /\ CallAt(p, "tags") /\ x \in DOMAIN calls[p].tags /\ calls[p].tags[x] = "waiting"
    /\ Cardinality(Fetching(p)) < TagFetchLimit
    /\ calls' = [calls EXCEPT ![p].tags[x] = "fetching"]
    /\ SameRegistry

\* Variant of TagsFail: the error is returned, and the group cancels the rest.
TagsFailAll(p, x) ==
    calls' = [calls EXCEPT ![p].hurt = @ \cup {x},
                ![p].tags = [y \in DOMAIN @ |-> IF @[y] = "known" THEN "known" ELSE "unknown"]]

\* dockerHubGetTags, v2Tags: "best-effort".
TagsFail(p, x) ==
    calls' = [calls EXCEPT ![p].tags[x] = "unknown", ![p].hurt = @ \cup {x}]

TagsEnd(p, x) ==
    /\ CallAt(p, "tags") /\ x \in Fetching(p)
    /\ SameRegistry
    /\ \/ calls[p].live /\ docker_io.health = "up" /\ calls' = [calls EXCEPT ![p].tags[x] = "known"]
       \/ TagsFail(p, x)

\* g.Wait
TagsJoin(p) ==
    /\ CallAt(p, "tags")
    /\ \A x \in DOMAIN calls[p].tags : calls[p].tags[x] \in {"known", "unknown"}
    /\ CallDone(p, "images")
    /\ SameRegistry

RegistryNext ==
    \/ RegistryTurns
    \/ \E p \in Callers :
         \/ ClientLeaves(p) \/ RowDeleted(p) \/ Exchange(p) \/ ListingEnds(p) \/ Record(p) \/ TagsJoin(p)
         \/ \E ask \in Asks : RowRead(p, ask)
         \/ \E password \in Passwords \cup {NoPassword}, active \in BOOLEAN : RowUpdated(p, password, active)
         \/ \E x \in 1..RepoCount : TagsStart(p, x) \/ TagsEnd(p, x)

-----------------------------------------------------------------------------
(* Properties *)

RegistryTypeOK ==
    /\ registry \in [state : {"live", "deleted"}, password : Passwords \cup {NoPassword},
                     active : BOOLEAN, status : Status \cup {"none"}]
    /\ docker_io.health \in Healths
    /\ \A p \in Callers :
          /\ calls[p].ask \in Asks \cup {"none", "update", "delete"}
          /\ calls[p].pc \in {"idle", "ask", "token", "basic", "retry", "repos", "record", "tags", "done"}
          /\ calls[p].result \in Status \cup {"none", "images", "NOT_FOUND", "INTERNAL_ERROR",
                "REGISTRY_AUTH_FAILED", "REGISTRY_UNREACHABLE", "REGISTRY_UNSUPPORTED"}
          /\ Cardinality(Fetching(p)) <= TagFetchLimit
          /\ calls[p].hurt \subseteq DOMAIN calls[p].tags

\* Wherever the registry, its account or the row change during an exchange, a
\* check of a registry that asks for a login answers "authenticated" only if
\* it has tried a password the registry accepted at some time - be it none, of
\* a row that has none (handleAuth, checkDockerHub).
OnlyRightPasswordConnects ==
    \A p \in Callers :
        calls[p].ask \in {"connect", "ping"} /\ Authenticated(p) /\ docker_io.kind # "open"
            => calls[p].password \in docker_io.valid

\* A call that ends with this step, at the end of a check.
Finishes(p, ask) == calls[p].pc # "done" /\ CallAt(p, "done")' /\ calls'[p].ask = ask
Checks(p) == CallAt(p, "record") /\ (Finishes(p, "connect") \/ Finishes(p, "ping"))

\* Whatever arrives late, a deleted row stays as it is, and only two things
\* switch a live one: an update, and a check that ends, on if it has connected
\* and off if it is a ping that has not.  Nothing but a check that ends, with
\* its client still there, records a status, and it records the one it has
\* found (PingRegistry, ConnectRegistry, UpdateConnectionStatus).
ActivityJustified ==
    registry' # registry =>
        /\ registry.state = "live"
        /\ registry'.active # registry.active =>
              \E p \in Callers :
                 \/ Finishes(p, "update")
                 \/ Checks(p) /\ (IF registry'.active THEN Connected(p)
                                  ELSE Finishes(p, "ping") /\ ~Connected(p))
        /\ registry'.status # registry.status =>
              \E p \in Callers : Checks(p) /\ calls[p].live /\ registry'.status = calls[p].result

\* A listing shows all the repositories the registry counts, or MaxRepos of them
\* if they are more, each with its tags unless the fetch of these very
\* tags failed - "best-effort" (listDockerHub, listV2).
ImagesWhole ==
    \A p \in Callers : calls[p].result = "images" =>
        /\ DOMAIN calls[p].tags = 1..Cut(calls[p].total)
        /\ \A x \in DOMAIN calls[p].tags : calls[p].tags[x] = "known" \/ x \in calls[p].hurt
=============================================================================
