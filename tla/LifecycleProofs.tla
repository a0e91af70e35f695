--------------------------- MODULE LifecycleProofs ---------------------------
(***************************************************************************)
(* Proofs about Lifecycle, for any number of requests, migrations and      *)
(* starts: what is announced or confirmed is stored, nothing is served     *)
(* without the whole schema, and a clean exit cuts nobody off.             *)
(***************************************************************************)
EXTENDS Lifecycle, TLAPS

\* What a request's row, notification and messages are at each of its stages:
\* StoredBefore is the end of this story, seen by the client and in the chat.
Story(r) ==
    /\ posts[r].pc \in {"client", "handling", "stored"} => notices[r] = "none" /\ posts[r].answer = "none"
    /\ posts[r].pc = "stored" => r \in rows
    /\ notices[r] = "none" => messages[r] = 0
    /\ notices[r] = "running" => r \in rows /\ messages[r] = 0
    /\ notices[r] = "over" => r \in rows /\ messages[r] <= 1
    /\ posts[r].answer = "201" => r \in rows /\ notices[r] # "none"

Stories == \A r \in Posts : Story(r)

\* From the end of the migrations on the schema is whole.
SchemaInv ==
    server.phase \in {"wiring", "serving", "draining", "closing"} => schema = WholeSchema

\* Once Shutdown has returned nil nobody is being served.
QuietInv == server.phase = "closing" => \A r \in Posts : ~Active(r)

Inv == TypeOK /\ Stories /\ SchemaInv /\ QuietInv

-----------------------------------------------------------------------------
(* What the actions do to the parts of the state. *)

LEMMA PhaseMoves ==
  ASSUME TypeOK, NEW ph \in Phases, Phase(ph)
  PROVE  /\ server' \in [phase : Phases, signal : {"none", "received"}, starts : 1..Starts]
         /\ server'.phase = ph
<1>1. server \in [phase : Phases, signal : {"none", "received"}, starts : 1..Starts]
    BY DEF TypeOK
<1> QED
    BY <1>1 DEF Phase

LEMMA GotoMoves ==
  ASSUME TypeOK, NEW r \in Posts,
         NEW pc \in {"client", "handling", "stored", "answering", "answered", "lost"},
         NEW a \in {"none", "400", "422", "500", "201"}, Goto(r, pc, a)
  PROVE  /\ posts' \in [Posts -> Post]
         /\ posts'[r].pc = pc /\ posts'[r].answer = a
         /\ \A o \in Posts \ {r} : posts'[o] = posts[o]
<1>1. posts \in [Posts -> Post] /\ posts[r] \in Post
    BY DEF TypeOK
<1>2. posts' = [posts EXCEPT ![r] = [[posts[r] EXCEPT !.pc = pc] EXCEPT !.answer = a]]
    BY <1>1 DEF Goto
<1>3. ASSUME NEW p \in Post
      PROVE  /\ [[p EXCEPT !.pc = pc] EXCEPT !.answer = a] \in Post
             /\ [[p EXCEPT !.pc = pc] EXCEPT !.answer = a].pc = pc
             /\ [[p EXCEPT !.pc = pc] EXCEPT !.answer = a].answer = a
    BY DEF Post
<1> DEFINE p == [[posts[r] EXCEPT !.pc = pc] EXCEPT !.answer = a]
<1>4. p \in Post /\ p.pc = pc /\ p.answer = a
    BY <1>1, <1>3
<1>5. posts' = [posts EXCEPT ![r] = p]
    BY <1>2
<1> HIDE DEF p
<1> QED
    BY <1>1, <1>4, <1>5

LEMMA ReachMoves ==
  ASSUME TypeOK, NEW r \in Posts, NEW reach \in {"late", "gone"},
         posts' = [posts EXCEPT ![r].reach = reach]
  PROVE  /\ posts' \in [Posts -> Post]
         /\ posts'[r].pc = posts[r].pc /\ posts'[r].answer = posts[r].answer
         /\ \A o \in Posts \ {r} : posts'[o] = posts[o]
<1> DEFINE p == [posts[r] EXCEPT !.reach = reach]
<1>1. posts \in [Posts -> Post] /\ posts[r] \in Post
    BY DEF TypeOK
<1>2. p \in Post /\ p.pc = posts[r].pc /\ p.answer = posts[r].answer
    BY <1>1 DEF Post
<1>3. posts' = [posts EXCEPT ![r] = p]
    OBVIOUS
<1> HIDE DEF p
<1> QED
    BY <1>1, <1>2, <1>3

\* The end of the process: every request keeps its answer and its row, and
\* notifications under way are over.
LEMMA ExitMoves ==
  ASSUME TypeOK, NEW ph \in Over, Exit(ph)
  PROVE  /\ server' \in [phase : Phases, signal : {"none", "received"}, starts : 1..Starts]
         /\ server'.phase = ph
         /\ posts' \in [Posts -> Post]
         /\ notices' \in [Posts -> {"none", "running", "over"}]
         /\ \A r \in Posts : /\ posts'[r].answer = posts[r].answer
                             /\ posts'[r].pc \in {posts[r].pc, "lost"}
                             /\ notices'[r] = IF notices[r] = "running" THEN "over" ELSE notices[r]
         /\ UNCHANGED <<rows, messages>>
  BY PhaseMoves DEF TypeOK, Exit, Phases, Post

\* A step that touches neither requests nor their rows and messages.
LEMMA NoRequestStories ==
  ASSUME Stories, NoRequest
  PROVE  Stories'
  BY DEF Stories, Story, NoRequest

LEMMA ExitInv ==
  ASSUME Inv, NEW ph \in Over, Exit(ph), UNCHANGED schema
  PROVE  Inv'
<1>1. /\ server' \in [phase : Phases, signal : {"none", "received"}, starts : 1..Starts]
      /\ server'.phase = ph
      /\ posts' \in [Posts -> Post]
      /\ notices' \in [Posts -> {"none", "running", "over"}]
      /\ \A r \in Posts : /\ posts'[r].answer = posts[r].answer
                          /\ posts'[r].pc \in {posts[r].pc, "lost"}
                          /\ notices'[r] = IF notices[r] = "running" THEN "over" ELSE notices[r]
      /\ UNCHANGED <<rows, messages>>
    BY ExitMoves DEF Inv
<1>2. TypeOK'
    BY <1>1 DEF Inv, TypeOK
<1>3. Stories'
  <2> SUFFICES ASSUME NEW r \in Posts PROVE Story(r)'
      BY DEF Stories
  <2>1. Story(r)
      BY DEF Inv, Stories
  <2>2. messages[r] \in Nat
      BY DEF Inv, TypeOK
  <2> QED
      BY <1>1, <2>1, <2>2 DEF Story
<1>4. SchemaInv' /\ QuietInv'
    BY <1>1 DEF SchemaInv, QuietInv, Over
<1> QED
    BY <1>2, <1>3, <1>4 DEF Inv

\* A step of the process that goes on to a phase with what the phase asks for.
LEMMA PhaseInv ==
  ASSUME Inv, NEW ph \in Phases, Phase(ph), NoRequest,
         schema' \in [version : 0..Migrations, mark : {"clean", "dirty"}],
         ph \in {"wiring", "serving", "draining", "closing"} => schema' = WholeSchema,
         ph = "closing" => \A r \in Posts : ~Active(r)
  PROVE  Inv'
<1>1. /\ server' \in [phase : Phases, signal : {"none", "received"}, starts : 1..Starts]
      /\ server'.phase = ph
    BY PhaseMoves DEF Inv
<1>2. TypeOK'
    BY <1>1 DEF Inv, TypeOK, NoRequest
<1>3. Stories'
    BY NoRequestStories DEF Inv
<1>4. SchemaInv' /\ QuietInv'
    BY <1>1 DEF SchemaInv, QuietInv, NoRequest, Active, WholeSchema
<1> QED
    BY <1>2, <1>3, <1>4 DEF Inv

\* A step of one request while the process is running.
LEMMA RequestInv ==
  ASSUME Inv, NEW r \in Posts, Elsewhere,
         posts' \in [Posts -> Post],
         notices' \in [Posts -> {"none", "running", "over"}],
         messages' \in [Posts -> Nat],
         rows' \subseteq Posts, rows \subseteq rows',
         \A o \in Posts \ {r} : posts'[o] = posts[o] /\ notices'[o] = notices[o] /\ messages'[o] = messages[o],
         Story(r)',
         Active(r)' => Active(r) \/ server.phase \in {"serving", "draining"}
  PROVE  Inv'
<1>1. TypeOK' /\ SchemaInv'
    BY DEF Inv, TypeOK, SchemaInv, Elsewhere
<1>2. Stories'
    BY DEF Inv, Stories, Story
<1>3. QuietInv'
    BY DEF Inv, QuietInv, Elsewhere, Active
<1> QED
    BY <1>1, <1>2, <1>3 DEF Inv

-----------------------------------------------------------------------------
(* Every action preserves the invariant. *)

LEMMA InitInv == Init => Inv
<1> SUFFICES ASSUME Init PROVE Inv
    OBVIOUS
<1>1. TypeOK
    BY LifecycleBounds DEF Init, TypeOK, Phases, Starting, NewPost, Post
<1>2. Stories
    BY DEF Init, Stories, Story, NewPost
<1>3. SchemaInv /\ QuietInv
    BY DEF Init, SchemaInv, QuietInv
<1> QED
    BY <1>1, <1>2, <1>3 DEF Inv

LEMMA ProcessInv ==
  ASSUME Inv, Process \/ Kill \/ ListenFails \/ DrainTimeout
  PROVE  Inv'
<1> USE DEF Phases, Starting, Over
<1>0. schema \in [version : 0..Migrations, mark : {"clean", "dirty"}] /\ SchemaInv /\ server.phase \in Phases
    BY DEF Inv, TypeOK
<1>1. CASE Connect
    BY <1>0, <1>1, PhaseInv, ExitInv DEF Connect
<1>2. CASE Migrate
  <2>1. CASE ~Dirty /\ schema.version = Migrations /\ Phase("wiring") /\ NoRequest /\ UNCHANGED schema
    <3>1. schema' = WholeSchema
        BY <1>0, <2>1 DEF Dirty, WholeSchema
    <3> QED
        BY <1>0, <2>1, <3>1, PhaseInv
  <2>2. CASE /\ ~Dirty /\ schema.version < Migrations
             /\ schema' = [version |-> schema.version + 1, mark |-> "dirty"]
             /\ Phase("applying") /\ NoRequest
    <3>1. schema' \in [version : 0..Migrations, mark : {"clean", "dirty"}]
        BY <1>0, <2>2, LifecycleBounds
    <3> QED
        BY <2>2, <3>1, PhaseInv
  <2> QED
      BY <1>2, <2>1, <2>2, ExitInv DEF Migrate
<1>3. CASE Apply
  <2>1. CASE schema' = [schema EXCEPT !.mark = "clean"] /\ Phase("migrating") /\ NoRequest
    <3>1. schema' \in [version : 0..Migrations, mark : {"clean", "dirty"}]
        BY <1>0, <2>1
    <3> QED
        BY <2>1, <3>1, PhaseInv
  <2> QED
      BY <1>3, <2>1, ExitInv DEF Apply
<1>4. CASE Wire \/ Shutdown \/ Drained
    BY <1>0, <1>4, PhaseInv, ExitInv DEF Wire, Shutdown, Drained, SchemaInv
<1>5. CASE Close \/ Kill \/ ListenFails \/ DrainTimeout
    BY <1>5, ExitInv DEF Close, Kill, ListenFails, DrainTimeout
<1> QED
    BY <1>1, <1>2, <1>3, <1>4, <1>5 DEF Process

\* Start and Signal change no phase but to the first.
LEMMA OutsideInv ==
  ASSUME Inv, Start \/ Signal
  PROVE  Inv'
<1>1. server' \in [phase : Phases, signal : {"none", "received"}, starts : 1..Starts]
    BY LifecycleBounds DEF Inv, TypeOK, Start, Signal, Phases, Starting
<1>2. server'.phase \in {server.phase, "connecting"} /\ UNCHANGED schema /\ NoRequest
    BY DEF Inv, TypeOK, Start, Signal
<1>3. TypeOK'
    BY <1>1, <1>2 DEF Inv, TypeOK, NoRequest
<1>4. Stories'
    BY <1>2, NoRequestStories DEF Inv
<1>5. SchemaInv' /\ QuietInv'
    BY <1>2 DEF Inv, SchemaInv, QuietInv, NoRequest, Active, WholeSchema
<1> QED
    BY <1>3, <1>4, <1>5 DEF Inv

LEMMA ClientInv ==
  ASSUME Inv, NEW r \in Posts, Arrive(r) \/ Leave(r) \/ Late(r)
  PROVE  Inv'
<1>0. TypeOK /\ Story(r)
    BY DEF Inv, Stories
<1>1. CASE Arrive(r)
  <2>1. /\ posts' \in [Posts -> Post]
        /\ posts'[r].pc = "handling" /\ posts'[r].answer = "none"
        /\ \A o \in Posts \ {r} : posts'[o] = posts[o]
      BY <1>0, <1>1, GotoMoves DEF Arrive
  <2>2. Story(r)'
      BY <1>0, <1>1, <2>1 DEF Story, Arrive
  <2> QED
      BY <1>0, <1>1, <2>1, <2>2, RequestInv DEF Arrive, TypeOK
<1>2. CASE Leave(r) \/ Late(r)
  <2>1. /\ posts' \in [Posts -> Post]
        /\ posts'[r].pc = posts[r].pc /\ posts'[r].answer = posts[r].answer
        /\ \A o \in Posts \ {r} : posts'[o] = posts[o]
      BY <1>0, <1>2, ReachMoves DEF Leave, Late
  <2>2. Story(r)' /\ (Active(r)' => Active(r))
      BY <1>0, <1>2, <2>1 DEF Story, Active, Leave, Late
  <2> QED
      BY <1>0, <1>2, <2>1, <2>2, RequestInv DEF Leave, Late, TypeOK
<1> QED
    BY <1>1, <1>2

LEMMA HandleInv ==
  ASSUME Inv, NEW r \in Posts, Handle(r)
  PROVE  Inv'
<1>0. TypeOK /\ Story(r)
    BY DEF Inv, Stories
<1>1. CASE Refuse(r)
  <2>1. PICK a \in {"400", "422"} : Goto(r, "answering", a)
      BY <1>1 DEF Refuse
  <2>2. /\ posts' \in [Posts -> Post]
        /\ posts'[r].pc = "answering" /\ posts'[r].answer = a
        /\ \A o \in Posts \ {r} : posts'[o] = posts[o]
      BY <1>0, <2>1, GotoMoves
  <2>3. Story(r)' /\ Active(r)
      BY <1>0, <1>1, <2>2 DEF Story, Refuse, Active
  <2> QED
      BY <1>0, <1>1, <2>2, <2>3, RequestInv DEF Refuse, TypeOK
<1>2. CASE Store(r)
  <2>1. CASE rows' = rows \cup {r} /\ Goto(r, "stored", "none")
    <3>1. /\ posts' \in [Posts -> Post]
          /\ posts'[r].pc = "stored" /\ posts'[r].answer = "none"
          /\ \A o \in Posts \ {r} : posts'[o] = posts[o]
        BY <1>0, <2>1, GotoMoves
    <3>2. Story(r)' /\ Active(r)
        BY <1>0, <1>2, <2>1, <3>1 DEF Story, Store, Active
    <3> QED
        BY <1>0, <1>2, <2>1, <3>1, <3>2, RequestInv DEF Store, TypeOK
  <2>2. CASE \E stored \in {{}, {r}} : rows' = rows \cup stored /\ Goto(r, "answering", "500")
    <3>1. /\ posts' \in [Posts -> Post]
          /\ posts'[r].pc = "answering" /\ posts'[r].answer = "500"
          /\ \A o \in Posts \ {r} : posts'[o] = posts[o]
        BY <1>0, <2>2, GotoMoves
    <3>2. rows' \subseteq Posts /\ rows \subseteq rows'
        BY <1>0, <2>2 DEF TypeOK
    <3>3. Story(r)' /\ Active(r)
        BY <1>0, <1>2, <3>1, <3>2 DEF Story, Store, Active
    <3> QED
        BY <1>0, <1>2, <3>1, <3>2, <3>3, RequestInv DEF Store, TypeOK
  <2> QED
      BY <1>2, <2>1, <2>2 DEF Store
<1>3. CASE NotifyAsync(r)
  <2>1. /\ posts' \in [Posts -> Post]
        /\ posts'[r].pc = "answering" /\ posts'[r].answer = "201"
        /\ \A o \in Posts \ {r} : posts'[o] = posts[o]
      BY <1>0, <1>3, GotoMoves DEF NotifyAsync
  <2>2. /\ notices' \in [Posts -> {"none", "running", "over"}]
        /\ notices'[r] = "running"
        /\ \A o \in Posts \ {r} : notices'[o] = notices[o]
      BY <1>0, <1>3 DEF NotifyAsync, TypeOK
  <2>3. Story(r)' /\ Active(r)
      BY <1>0, <1>3, <2>1, <2>2 DEF Story, NotifyAsync, Active
  <2> QED
      BY <1>0, <1>3, <2>1, <2>2, <2>3, RequestInv DEF NotifyAsync, TypeOK
<1>4. CASE Respond(r)
  <2>1. PICK pc \in {"answered", "lost"} : Goto(r, pc, posts[r].answer)
      BY <1>4 DEF Respond
  <2>2. posts[r].answer \in {"none", "400", "422", "500", "201"}
      BY <1>0 DEF TypeOK, Post
  <2>3. /\ posts' \in [Posts -> Post]
        /\ posts'[r].pc = pc /\ posts'[r].answer = posts[r].answer
        /\ \A o \in Posts \ {r} : posts'[o] = posts[o]
      BY <1>0, <2>1, <2>2, GotoMoves
  <2>4. Story(r)' /\ ~Active(r)'
      BY <1>0, <1>4, <2>3 DEF Story, Respond, Active
  <2> QED
      BY <1>0, <1>4, <2>3, <2>4, RequestInv DEF Respond, TypeOK
<1> QED
    BY <1>1, <1>2, <1>3, <1>4 DEF Handle

LEMMA SendMessageInv ==
  ASSUME Inv, NEW r \in Posts, SendMessage(r)
  PROVE  Inv'
<1>0. TypeOK /\ Story(r)
    BY DEF Inv, Stories
<1>1. /\ notices' \in [Posts -> {"none", "running", "over"}]
      /\ notices'[r] = "over"
      /\ \A o \in Posts \ {r} : notices'[o] = notices[o]
    BY <1>0 DEF SendMessage, TypeOK
<1>2. /\ messages' \in [Posts -> Nat]
      /\ messages'[r] \in {messages[r], messages[r] + 1}
      /\ \A o \in Posts \ {r} : messages'[o] = messages[o]
    BY <1>0 DEF SendMessage, TypeOK
<1>3. Story(r)' /\ (Active(r)' => Active(r))
    BY <1>0, <1>1, <1>2 DEF Story, SendMessage, Active
<1> QED
    BY <1>0, <1>1, <1>2, <1>3, RequestInv DEF SendMessage, TypeOK

LEMMA StepInv == Inv /\ [Next]_vars => Inv'
<1> SUFFICES ASSUME Inv, [Next]_vars PROVE Inv'
    OBVIOUS
<1>1. CASE Process \/ Kill \/ ListenFails \/ DrainTimeout
    BY <1>1, ProcessInv
<1>2. CASE Start \/ Signal
    BY <1>2, OutsideInv
<1>3. ASSUME NEW r \in Posts, Arrive(r) \/ Leave(r) \/ Late(r) \/ Handle(r) \/ SendMessage(r)
      PROVE  Inv'
    BY <1>3, ClientInv, HandleInv, SendMessageInv
<1>4. CASE UNCHANGED vars
    BY <1>4 DEF vars, Inv, TypeOK, Stories, Story, SchemaInv, QuietInv, Active
<1> QED
    BY <1>1, <1>2, <1>3, <1>4 DEF Next

LEMMA Invariance == Spec => []Inv
    BY InitInv, StepInv, PTL DEF Spec

-----------------------------------------------------------------------------
(* The theorems. *)

\* Every reachable state of the process, its database and its requests is
\* well typed.
THEOREM TypeCorrect == Spec => []TypeOK
<1>1. Inv => TypeOK
    BY DEF Inv
<1> QED
    BY <1>1, Invariance, PTL

\* However often the process is killed: no message and no 201 without a stored
\* row, and no second message (FeedbackService.CreateFeedback).
THEOREM AnnouncedIsStored == Spec => []StoredBefore
<1>1. Inv => StoredBefore
    BY DEF Inv, TypeOK, Stories, Story, StoredBefore
<1> QED
    BY <1>1, Invariance, PTL

\* The process serves only with every migration applied and none half done
\* (main, RunMigrations).
THEOREM WholeSchemaServed == Spec => []ServesWholeSchema
<1>1. Inv => ServesWholeSchema
    BY DEF Inv, SchemaInv, ServesWholeSchema
<1> QED
    BY <1>1, Invariance, PTL

\* The process ends with exit code 0 only when no request is being served
\* (Server.Run).
THEOREM CleanExit == Spec => CleanExitDrained
<1>1. ASSUME Inv, [Next]_vars, Alive, server'.phase = "stopped"
      PROVE  \A r \in Posts : ~Active(r)
  <2>1. server' # server /\ server'.phase \notin {"connecting", "failed"}
      BY <1>1 DEF Alive, Over
  <2>2. Close
    <3> USE <1>1, <2>1 DEF Phase, Exit
    <3>1. server \in [phase : Phases, signal : {"none", "received"}, starts : 1..Starts]
        BY DEF Inv, TypeOK
    <3>2. ~Start /\ ~Signal
        BY <3>1 DEF Start, Signal, Alive, Over
    <3>3. ~(\E r \in Posts : Arrive(r) \/ Leave(r) \/ Late(r) \/ Handle(r) \/ SendMessage(r))
        BY DEF Arrive, Leave, Late, Handle, SendMessage, Refuse, Store, NotifyAsync, Respond, Elsewhere
    <3>4. ~(Kill \/ ListenFails \/ DrainTimeout)
        BY <3>1 DEF Kill, ListenFails, DrainTimeout
    <3>5. ~(Connect \/ Migrate \/ Apply \/ Wire \/ Shutdown \/ Drained)
        BY <3>1 DEF Connect, Migrate, Apply, Wire, Shutdown, Drained
    <3>6. ~UNCHANGED vars
        BY DEF vars
    <3> QED
        BY <3>2, <3>3, <3>4, <3>5, <3>6 DEF Next, Process
  <2> QED
      BY <1>1, <2>2 DEF Close, Inv, QuietInv
<1>2. Inv /\ [Next]_vars =>
        [Alive /\ server'.phase = "stopped" => \A r \in Posts : ~Active(r)]_vars
    BY <1>1
<1> QED
    BY <1>2, Invariance, PTL DEF Spec, CleanExitDrained
=============================================================================
