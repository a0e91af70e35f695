------------------------------ MODULE Lifecycle ------------------------------
(***************************************************************************)
(* The life of the process (main, postgres.NewPool, RunMigrations,         *)
(* Server.Run) and what becomes of feedback requests in it                 *)
(* (FeedbackHandler, FeedbackService, FeedbackRepository): stored by one   *)
(* INSERT, announced in Telegram by a goroutine nobody waits for.          *)
(*                                                                         *)
(* The process may be killed at any moment, and is started again.  What    *)
(* survives is in the database: rows and schema.                           *)
(***************************************************************************)
EXTENDS Naturals, FiniteSets

CONSTANTS
    Posts,          \* feedback requests, one per client and attempt
    Migrations,     \* number of migration files
    Starts          \* bound: how often the process is started

ASSUME LifecycleBounds == Migrations \in Nat /\ Starts \in Nat \ {0}

VARIABLES
    server,         \* the process
    schema,         \* table schema_migrations
    posts,          \* the requests
    notices,        \* the goroutines of notifyAsync
    rows,           \* table feedback_requests
    messages        \* messages in the Telegram chat, per request

vars == <<server, schema, posts, notices, rows, messages>>

Starting == {"connecting", "migrating", "applying", "wiring"}
Over == {"stopped", "failed"}       \* exit codes 0 and 1, or killed
Alive == server.phase \notin Over
Signalled == server.signal = "received"
Dirty == schema.mark = "dirty"

Phases == Starting \cup Over \cup {"serving", "draining", "closing"}

Post == [pc : {"client", "handling", "stored", "answering", "answered", "lost"},
         reach : {"open", "late", "gone"},
         answer : {"none", "400", "422", "500", "201"}]
NewPost == [pc |-> "client", reach |-> "open", answer |-> "none"]
WholeSchema == [version |-> Migrations, mark |-> "clean"]

Active(r) == posts[r].pc \in {"handling", "stored", "answering"}

Init ==
    /\ server = [phase |-> "connecting", signal |-> "none", starts |-> 1]
    /\ schema = [version |-> 0, mark |-> "clean"]
    /\ posts = [r \in Posts |-> NewPost]
    /\ notices = [r \in Posts |-> "none"]
    /\ rows = {}
    /\ messages = [r \in Posts |-> 0]

Phase(phase) == server' = [server EXCEPT !.phase = phase]

\* main returns, os.Exit, or a kill: nothing of the process is left.
Exit(phase) ==
    /\ Phase(phase)
    /\ posts' = [r \in Posts |-> IF Active(r) THEN [posts[r] EXCEPT !.pc = "lost"] ELSE posts[r]]
    /\ notices' = [r \in Posts |-> IF notices[r] = "running" THEN "over" ELSE notices[r]]
    /\ UNCHANGED <<rows, messages>>

NoRequest == UNCHANGED <<posts, notices, rows, messages>>

-----------------------------------------------------------------------------
(* The process. *)

Start ==
    /\ ~Alive /\ server.starts < Starts
    /\ server' = [phase |-> "connecting", signal |-> "none", starts |-> server.starts + 1]
    /\ UNCHANGED schema /\ NoRequest

\* SIGINT, SIGTERM: signal.NotifyContext keeps every further one from the process.
Signal ==
    /\ Alive /\ ~Signalled
    /\ server' = [server EXCEPT !.signal = "received"]
    /\ UNCHANGED schema /\ NoRequest

Kill == Alive /\ Exit("failed") /\ UNCHANGED schema

\* config.Load, NewPool: the ping of the pool obeys the signal.
Connect ==
    /\ server.phase = "connecting" /\ UNCHANGED schema
    /\ \/ ~Signalled /\ Phase("migrating") /\ NoRequest
       \/ Exit("failed")

\* m.Up(), file after file; a schema that is marked dirty is refused.
Migrate ==
    /\ server.phase = "migrating"
    /\ \/ ~Dirty /\ schema.version = Migrations /\ Phase("wiring") /\ NoRequest /\ UNCHANGED schema
       \/ /\ ~Dirty /\ schema.version < Migrations
          /\ schema' = [version |-> schema.version + 1, mark |-> "dirty"]
          /\ Phase("applying") /\ NoRequest
       \/ Exit("failed") /\ UNCHANGED schema

\* Variant of Apply: RunMigrations' error is logged, and main goes on.
ApplyOrGoOn ==
    /\ server.phase = "applying"
    /\ \/ schema' = [schema EXCEPT !.mark = "clean"] /\ Phase("migrating") /\ NoRequest
       \/ Phase("wiring") /\ NoRequest /\ UNCHANGED schema

\* The mark is taken away once the file has been applied, and stays if it fails.
Apply ==
    /\ server.phase = "applying"
    /\ \/ schema' = [schema EXCEPT !.mark = "clean"] /\ Phase("migrating") /\ NoRequest
       \/ Exit("failed") /\ UNCHANGED schema

\* The constructors: hasher, cipher, auth service and geo base may refuse.
Wire ==
    /\ server.phase = "wiring" /\ UNCHANGED schema
    /\ \/ Phase("serving") /\ NoRequest
       \/ Exit("failed")

\* ListenAndServe ends on its own: the port is taken, or accepting fails.
ListenFails == server.phase = "serving" /\ Exit("failed") /\ UNCHANGED schema

Shutdown ==
    /\ server.phase = "serving" /\ Signalled
    /\ Phase("draining") /\ NoRequest /\ UNCHANGED schema

\* Variant of Drained: Close instead of Shutdown.
DrainedAtOnce ==
    /\ server.phase = "draining"
    /\ Phase("closing") /\ NoRequest /\ UNCHANGED schema

\* httpServer.Shutdown returns nil: no connection is active any more ...
Drained ==
    /\ server.phase = "draining" /\ \A r \in Posts : ~Active(r)
    /\ Phase("closing") /\ NoRequest /\ UNCHANGED schema

\* Variant of DrainTimeout: Shutdown with context.Background().
DrainTimeoutNever == FALSE /\ UNCHANGED vars

\* ... or shutdownTimeout is over, which ends the process with code 1.
DrainTimeout == server.phase = "draining" /\ Exit("failed") /\ UNCHANGED schema

\* The deferred geoResolver.Close and pool.Close; notifications are not waited for.
Close == server.phase = "closing" /\ Exit("stopped") /\ UNCHANGED schema

-----------------------------------------------------------------------------
(* The requests. *)

Goto(r, pc, answer) == posts' = [posts EXCEPT ![r].pc = pc, ![r].answer = answer]
Elsewhere == UNCHANGED <<server, schema>>

\* Shutdown closes the listener; on a connection that was accepted before, a
\* first request may still come.
Arrive(r) ==
    /\ server.phase \in {"serving", "draining"} /\ posts[r].pc = "client"
    /\ Goto(r, "handling", "none")
    /\ Elsewhere /\ UNCHANGED <<notices, rows, messages>>

\* The client closes its connection ...
Leave(r) ==
    /\ Active(r) /\ posts[r].reach # "gone"
    /\ posts' = [posts EXCEPT ![r].reach = "gone"]
    /\ Elsewhere /\ UNCHANGED <<notices, rows, messages>>

\* ... or WriteTimeout is over, which the handler does not notice.
Late(r) ==
    /\ Active(r) /\ posts[r].reach = "open"
    /\ posts' = [posts EXCEPT ![r].reach = "late"]
    /\ Elsewhere /\ UNCHANGED <<notices, rows, messages>>

\* Variant of Refuse: no status is written.
RefuseWithoutStatus(r) ==
    /\ posts[r].pc = "handling"
    /\ Goto(r, "answering", "200")
    /\ Elsewhere /\ UNCHANGED <<notices, rows, messages>>

\* Not JSON, or a field refused: by the validator, or by validateCreateInput.
Refuse(r) ==
    /\ posts[r].pc = "handling"
    /\ \E a \in {"400", "422"} : Goto(r, "answering", a)
    /\ Elsewhere /\ UNCHANGED <<notices, rows, messages>>

\* Variant of Store: an error of the INSERT is logged only.
StoreOrNot(r) ==
    /\ posts[r].pc = "handling"
    /\ \E stored \in {{}, {r}} : rows' = rows \cup stored
    /\ Goto(r, "stored", "none")
    /\ Elsewhere /\ UNCHANGED <<notices, messages>>

\* The INSERT: done, done without the handler getting to know, or not done.
Store(r) ==
    /\ posts[r].pc = "handling"
    /\ \/ posts[r].reach # "gone" /\ rows' = rows \cup {r} /\ Goto(r, "stored", "none")
       \/ \E stored \in {{}, {r}} : rows' = rows \cup stored /\ Goto(r, "answering", "500")
    /\ Elsewhere /\ UNCHANGED <<notices, messages>>

\* notifyAsync
NotifyAsync(r) ==
    /\ posts[r].pc = "stored"
    /\ notices' = [notices EXCEPT ![r] = "running"]
    /\ Goto(r, "answering", "201")
    /\ Elsewhere /\ UNCHANGED <<rows, messages>>

Respond(r) ==
    /\ posts[r].pc = "answering"
    /\ Goto(r, IF posts[r].reach = "open" THEN "answered" ELSE "lost", posts[r].answer)
    /\ Elsewhere /\ UNCHANGED <<notices, rows, messages>>

\* sendMessage: it arrives, whether the client learns it or not, or it does
\* not, or notifyTimeout is over.  There is one attempt.
SendMessage(r) ==
    /\ notices[r] = "running"
    /\ notices' = [notices EXCEPT ![r] = "over"]
    /\ messages' \in {messages, [messages EXCEPT ![r] = @ + 1]}
    /\ Elsewhere /\ UNCHANGED <<posts, rows>>

Handle(r) == Refuse(r) \/ Store(r) \/ NotifyAsync(r) \/ Respond(r)

Process ==
    \/ Connect \/ Migrate \/ Apply \/ Wire \/ Shutdown \/ Drained \/ Close

Next ==
    \/ Process \/ Start \/ Signal \/ Kill \/ ListenFails \/ DrainTimeout
    \/ \E r \in Posts : Arrive(r) \/ Leave(r) \/ Late(r) \/ Handle(r) \/ SendMessage(r)

\* main goes on, as far as the database answers, and the timer of Shutdown
\* fires; nothing is assumed of handlers.
Fairness == WF_vars(Process) /\ WF_vars(DrainTimeout)

Spec == Init /\ [][Next]_vars /\ Fairness

-----------------------------------------------------------------------------
(* Properties *)

TypeOK ==
    /\ server \in [phase : Phases, signal : {"none", "received"}, starts : 1..Starts]
    /\ schema \in [version : 0..Migrations, mark : {"clean", "dirty"}]
    /\ posts \in [Posts -> Post]
    /\ notices \in [Posts -> {"none", "running", "over"}]
    /\ messages \in [Posts -> Nat]
    /\ rows \subseteq Posts

\* Whatever is killed or lost: a request is announced once at most, and only
\* if its row is stored, and a client is told 201 only if it is stored and
\* its announcement has been tried (CreateFeedback).
StoredBefore ==
    \A r \in Posts :
        /\ messages[r] > 0 => r \in rows /\ messages[r] = 1
        /\ posts[r].answer = "201" => r \in rows /\ notices[r] # "none"

\* However often the process was killed while it migrated: it serves only with
\* the whole schema (main: no server without RunMigrations).
ServesWholeSchema ==
    server.phase \in {"serving", "draining", "closing"} => schema = WholeSchema

\* Exit code 0 says that no request was cut off (Server.Run).
CleanExitDrained ==
    [][Alive /\ server'.phase = "stopped" => \A r \in Posts : ~Active(r)]_vars

\* A signal ends the process, at any time of its life and whatever the
\* handlers do.
SignalEnds == Signalled ~> ~Alive
=============================================================================
