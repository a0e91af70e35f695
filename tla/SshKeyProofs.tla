---------------------------- MODULE SshKeyProofs ----------------------------
(***************************************************************************)
(* Proofs about SshKey: the mutex excludes, the two files stay paired, and *)
(* the manager implements KeyStore, for any keys and any number of         *)
(* requests.                                                               *)
(***************************************************************************)
EXTENDS SshKey, TLAPS

\* The request that holds the mutex is the one under it.
LockInv == \A p \in Procs : procs[p].step \in Locked <=> lock = p

\* The request that writes files has generated a key, and once the private
\* file is written it holds that key until the request ends.
WriterInv ==
    \A p \in Procs :
        /\ procs[p].step \in {"open_priv", "write_priv", "open_pub", "write_pub"}
              => procs[p].new \in Keys
        /\ procs[p].step = "write_priv" => priv = Partial
        /\ procs[p].step \in {"open_pub", "write_pub"} => priv = procs[p].new

\* Without failures the public file belongs to the private one except while
\* a request is between its changes of the two.
PairInv ==
    faults = "none" /\ (\A p \in Procs : procs[p].step \notin
                {"write_priv", "open_pub", "write_pub", "remove_pub"})
        => pub \in {priv, NoKey}

\* Without read errors a key is generated only where there is none.
VacancyInv ==
    ~ReadFails => \A p \in Procs : procs[p].step \in {"generate", "open_priv"} => priv = NoKey

Inv == TypeOK /\ LockInv /\ WriterInv /\ PairInv /\ VacancyInv

-----------------------------------------------------------------------------

LEMMA InitInv == Init => Inv
  BY KeysAssumption, ProcsAssumption
     DEF Init, Inv, TypeOK, LockInv, WriterInv, PairInv, VacancyInv, ProcState, FileStates,
         Steps, Locked, CreateSteps, DeleteSteps, Answers, Free, NoKey, Partial

LEMMA StutterInv == Inv /\ UNCHANGED vars => Inv'
  BY DEF vars, Inv, TypeOK, LockInv, WriterInv, PairInv, VacancyInv

USE DEF At

\* What Goto and Reply do to the requests.
LEMMA GotoMoves ==
  ASSUME TypeOK, NEW p \in Procs, NEW s \in Steps, Goto(p, s)
  PROVE  /\ procs' \in [Procs -> ProcState]
         /\ procs'[p].step = s /\ procs'[p].new = procs[p].new
         /\ \A q \in Procs \ {p} : procs'[q] = procs[q]
<1>1. [procs[p] EXCEPT !.step = s] \in ProcState
    BY DEF TypeOK, ProcState
<1> QED
    BY <1>1 DEF Goto, TypeOK, ProcState

LEMMA ReplyMoves ==
  ASSUME TypeOK, NEW p \in Procs, NEW a \in Answers, Reply(p, a)
  PROVE  /\ procs' \in [Procs -> ProcState]
         /\ procs'[p].step = "idle"
         /\ \A q \in Procs \ {p} : procs'[q] = procs[q]
<1>1. [step |-> "idle", new |-> NoKey, answer |-> a] \in ProcState
    BY DEF ProcState, Steps
<1> QED
    BY <1>1 DEF Reply, TypeOK

\* Every action that is one request's moves this request only, between two
\* steps, and the rest of the state as its name says.
LEMMA EnterMoves ==
  ASSUME TypeOK, NEW p \in Procs, Enter(p)
  PROVE  /\ procs' \in [Procs -> ProcState]
         /\ procs[p].step = "idle"
         /\ procs'[p].step \in {"wait_create", "wait_delete", "check_stat"}
         /\ \A q \in Procs \ {p} : procs'[q] = procs[q]
<1>1. PICK s \in {"wait_create", "wait_delete", "check_stat"} :
         procs' = [procs EXCEPT ![p] = [step |-> s, new |-> NoKey, answer |-> "none"]]
    BY DEF Enter
<1>2. [step |-> s, new |-> NoKey, answer |-> "none"] \in ProcState
    BY DEF ProcState, Steps, Answers
<1> QED
    BY <1>1, <1>2 DEF Enter, TypeOK

LEMMA GenerateMoves ==
  ASSUME TypeOK, NEW p \in Procs, NEW k \in Keys, Generate(p, k)
  PROVE  /\ procs' \in [Procs -> ProcState]
         /\ procs[p].step = "generate"
         /\ procs'[p].step = "open_priv" /\ procs'[p].new = k
         /\ \A q \in Procs \ {p} : procs'[q] = procs[q]
<1>1. [step |-> "open_priv", new |-> k, answer |-> "none"] \in ProcState
    BY DEF ProcState, Steps, Locked, CreateSteps, Answers
<1> QED
    BY <1>1 DEF Generate, TypeOK

\* A step of the system calls of one request keeps the invariant.
LEMMA RunInv ==
  ASSUME Inv, NEW p \in Procs, Run(p)
  PROVE  Inv'
<1> USE KeysAssumption, ProcsAssumption, FailuresAssumption
<1> USE DEF Inv, TypeOK, LockInv, WriterInv, PairInv, VacancyInv, Free, NoKey, Partial,
        ReadFails, Proceed, Return, Failed, FileStates, ProcState, Steps, Locked, CreateSteps,
        DeleteSteps, Answers
<1>1. CASE CreateStat(p)
    <2>1. CASE UNCHANGED lock /\ Goto(p, "create_read")
        <3>1. /\ procs' \in [Procs -> ProcState]
              /\ procs'[p].step = "create_read" /\ procs'[p].new = procs[p].new
              /\ \A q \in Procs \ {p} : procs'[q] = procs[q]
            BY <2>1, GotoMoves
        <3> QED
            BY <1>1, <2>1, <3>1 DEF CreateStat
    <2>2. CASE (priv = NoKey \/ ReadFails) /\ UNCHANGED lock /\ Goto(p, "generate")
        <3>1. /\ procs' \in [Procs -> ProcState]
              /\ procs'[p].step = "generate" /\ procs'[p].new = procs[p].new
              /\ \A q \in Procs \ {p} : procs'[q] = procs[q]
            BY <2>2, GotoMoves
        <3> QED
            BY <1>1, <2>2, <3>1 DEF CreateStat
    <2> QED
        BY <1>1, <2>1, <2>2 DEF CreateStat
<1>2. CASE CreateRead(p)
    <2>1. CASE lock' = Free /\ Reply(p, "EXISTS")
        <3>1. /\ procs' \in [Procs -> ProcState]
              /\ procs'[p].step = "idle"
              /\ \A q \in Procs \ {p} : procs'[q] = procs[q]
            BY <2>1, ReplyMoves
        <3> QED
            BY <1>2, <2>1, <3>1 DEF CreateRead
    <2>2. CASE lock' = Free /\ Reply(p, "EXISTS_INVALID")
        <3>1. /\ procs' \in [Procs -> ProcState]
              /\ procs'[p].step = "idle"
              /\ \A q \in Procs \ {p} : procs'[q] = procs[q]
            BY <2>2, ReplyMoves
        <3> QED
            BY <1>2, <2>2, <3>1 DEF CreateRead
    <2> QED
        BY <1>2, <2>1, <2>2 DEF CreateRead
<1>3. ASSUME NEW k \in Keys, Generate(p, k)
      PROVE  Inv'
    <2>1. /\ procs' \in [Procs -> ProcState]
          /\ procs[p].step = "generate"
          /\ procs'[p].step = "open_priv" /\ procs'[p].new = k
          /\ \A q \in Procs \ {p} : procs'[q] = procs[q]
        BY <1>3, GenerateMoves
    <2> QED
        BY <1>3, <2>1 DEF Generate
<1>4. CASE OpenPriv(p)
    <2>1. CASE priv' = Partial /\ UNCHANGED lock /\ UNCHANGED faults /\ Goto(p, "write_priv")
        <3>1. /\ procs' \in [Procs -> ProcState]
              /\ procs'[p].step = "write_priv" /\ procs'[p].new = procs[p].new
              /\ \A q \in Procs \ {p} : procs'[q] = procs[q]
            BY <2>1, GotoMoves
        <3> QED
            BY <1>4, <2>1, <3>1 DEF OpenPriv
    <2>2. CASE UNCHANGED priv /\ lock' = Free /\ faults' = "some" /\ Reply(p, "INTERNAL_ERROR")
        <3>1. /\ procs' \in [Procs -> ProcState]
              /\ procs'[p].step = "idle"
              /\ \A q \in Procs \ {p} : procs'[q] = procs[q]
            BY <2>2, ReplyMoves
        <3> QED
            BY <1>4, <2>2, <3>1 DEF OpenPriv
    <2> QED
        BY <1>4, <2>1, <2>2 DEF OpenPriv
<1>5. CASE WritePriv(p)
    <2>1. CASE priv' = procs[p].new /\ UNCHANGED lock /\ UNCHANGED faults /\ Goto(p, "open_pub")
        <3>1. /\ procs' \in [Procs -> ProcState]
              /\ procs'[p].step = "open_pub" /\ procs'[p].new = procs[p].new
              /\ \A q \in Procs \ {p} : procs'[q] = procs[q]
            BY <2>1, GotoMoves
        <3> QED
            BY <1>5, <2>1, <3>1 DEF WritePriv
    <2>2. CASE UNCHANGED priv /\ lock' = Free /\ faults' = "some" /\ Reply(p, "INTERNAL_ERROR")
        <3>1. /\ procs' \in [Procs -> ProcState]
              /\ procs'[p].step = "idle"
              /\ \A q \in Procs \ {p} : procs'[q] = procs[q]
            BY <2>2, ReplyMoves
        <3> QED
            BY <1>5, <2>2, <3>1 DEF WritePriv
    <2> QED
        BY <1>5, <2>1, <2>2 DEF WritePriv
<1>6. CASE OpenPub(p)
    <2>1. CASE pub' = Partial /\ UNCHANGED lock /\ UNCHANGED faults /\ Goto(p, "write_pub")
        <3>1. /\ procs' \in [Procs -> ProcState]
              /\ procs'[p].step = "write_pub" /\ procs'[p].new = procs[p].new
              /\ \A q \in Procs \ {p} : procs'[q] = procs[q]
            BY <2>1, GotoMoves
        <3> QED
            BY <1>6, <2>1, <3>1 DEF OpenPub
    <2>2. CASE UNCHANGED pub /\ lock' = Free /\ faults' = "some" /\ Reply(p, "INTERNAL_ERROR")
        <3>1. /\ procs' \in [Procs -> ProcState]
              /\ procs'[p].step = "idle"
              /\ \A q \in Procs \ {p} : procs'[q] = procs[q]
            BY <2>2, ReplyMoves
        <3> QED
            BY <1>6, <2>2, <3>1 DEF OpenPub
    <2> QED
        BY <1>6, <2>1, <2>2 DEF OpenPub
<1>7. CASE WritePub(p)
    <2>1. CASE pub' = procs[p].new /\ lock' = Free /\ UNCHANGED faults /\ Reply(p, "CREATED")
        <3>1. /\ procs' \in [Procs -> ProcState]
              /\ procs'[p].step = "idle"
              /\ \A q \in Procs \ {p} : procs'[q] = procs[q]
            BY <2>1, ReplyMoves
        <3> QED
            BY <1>7, <2>1, <3>1 DEF WritePub
    <2>2. CASE UNCHANGED pub /\ lock' = Free /\ faults' = "some" /\ Reply(p, "INTERNAL_ERROR")
        <3>1. /\ procs' \in [Procs -> ProcState]
              /\ procs'[p].step = "idle"
              /\ \A q \in Procs \ {p} : procs'[q] = procs[q]
            BY <2>2, ReplyMoves
        <3> QED
            BY <1>7, <2>2, <3>1 DEF WritePub
    <2> QED
        BY <1>7, <2>1, <2>2 DEF WritePub
<1>8. CASE DeleteStat(p)
    <2>1. CASE UNCHANGED lock /\ Goto(p, "remove_priv")
        <3>1. /\ procs' \in [Procs -> ProcState]
              /\ procs'[p].step = "remove_priv" /\ procs'[p].new = procs[p].new
              /\ \A q \in Procs \ {p} : procs'[q] = procs[q]
            BY <2>1, GotoMoves
        <3> QED
            BY <1>8, <2>1, <3>1 DEF DeleteStat
    <2>2. CASE lock' = Free /\ Reply(p, "SSH_KEY_NOT_FOUND")
        <3>1. /\ procs' \in [Procs -> ProcState]
              /\ procs'[p].step = "idle"
              /\ \A q \in Procs \ {p} : procs'[q] = procs[q]
            BY <2>2, ReplyMoves
        <3> QED
            BY <1>8, <2>2, <3>1 DEF DeleteStat
    <2>3. CASE lock' = Free /\ Reply(p, "INTERNAL_ERROR")
        <3>1. /\ procs' \in [Procs -> ProcState]
              /\ procs'[p].step = "idle"
              /\ \A q \in Procs \ {p} : procs'[q] = procs[q]
            BY <2>3, ReplyMoves
        <3> QED
            BY <1>8, <2>3, <3>1 DEF DeleteStat
    <2> QED
        BY <1>8, <2>1, <2>2, <2>3 DEF DeleteStat
<1>9. CASE RemovePriv(p)
    <2>1. CASE priv' = NoKey /\ UNCHANGED lock /\ UNCHANGED faults /\ Goto(p, "remove_pub")
        <3>1. /\ procs' \in [Procs -> ProcState]
              /\ procs'[p].step = "remove_pub" /\ procs'[p].new = procs[p].new
              /\ \A q \in Procs \ {p} : procs'[q] = procs[q]
            BY <2>1, GotoMoves
        <3> QED
            BY <1>9, <2>1, <3>1 DEF RemovePriv
    <2>2. CASE UNCHANGED priv /\ lock' = Free /\ faults' = "some" /\ Reply(p, "INTERNAL_ERROR")
        <3>1. /\ procs' \in [Procs -> ProcState]
              /\ procs'[p].step = "idle"
              /\ \A q \in Procs \ {p} : procs'[q] = procs[q]
            BY <2>2, ReplyMoves
        <3> QED
            BY <1>9, <2>2, <3>1 DEF RemovePriv
    <2> QED
        BY <1>9, <2>1, <2>2 DEF RemovePriv
<1>10. CASE RemovePub(p)
    <2>1. CASE lock' = Free /\ Reply(p, "DELETED")
        <3>1. /\ procs' \in [Procs -> ProcState]
              /\ procs'[p].step = "idle"
              /\ \A q \in Procs \ {p} : procs'[q] = procs[q]
            BY <2>1, ReplyMoves
        <3> QED
            BY <1>10, <2>1, <3>1 DEF RemovePub
    <2> QED
        BY <1>10, <2>1 DEF RemovePub
<1>11. CASE CheckStat(p)
    <2>1. CASE TRUE /\ Reply(p, "SSH_KEY_NOT_FOUND")
        <3>1. /\ procs' \in [Procs -> ProcState]
              /\ procs'[p].step = "idle"
              /\ \A q \in Procs \ {p} : procs'[q] = procs[q]
            BY <2>1, ReplyMoves
        <3> QED
            BY <1>11, <2>1, <3>1 DEF CheckStat
    <2>2. CASE TRUE /\ Goto(p, "check_read")
        <3>1. /\ procs' \in [Procs -> ProcState]
              /\ procs'[p].step = "check_read" /\ procs'[p].new = procs[p].new
              /\ \A q \in Procs \ {p} : procs'[q] = procs[q]
            BY <2>2, GotoMoves
        <3> QED
            BY <1>11, <2>2, <3>1 DEF CheckStat
    <2>3. CASE TRUE /\ Reply(p, "INTERNAL_ERROR")
        <3>1. /\ procs' \in [Procs -> ProcState]
              /\ procs'[p].step = "idle"
              /\ \A q \in Procs \ {p} : procs'[q] = procs[q]
            BY <2>3, ReplyMoves
        <3> QED
            BY <1>11, <2>3, <3>1 DEF CheckStat
    <2> QED
        BY <1>11, <2>1, <2>2, <2>3 DEF CheckStat
<1>12. CASE CheckRead(p)
    <2>1. CASE TRUE /\ Reply(p, "KEY")
        <3>1. /\ procs' \in [Procs -> ProcState]
              /\ procs'[p].step = "idle"
              /\ \A q \in Procs \ {p} : procs'[q] = procs[q]
            BY <2>1, ReplyMoves
        <3> QED
            BY <1>12, <2>1, <3>1 DEF CheckRead
    <2>2. CASE TRUE /\ Reply(p, "SSH_KEY_INVALID")
        <3>1. /\ procs' \in [Procs -> ProcState]
              /\ procs'[p].step = "idle"
              /\ \A q \in Procs \ {p} : procs'[q] = procs[q]
            BY <2>2, ReplyMoves
        <3> QED
            BY <1>12, <2>2, <3>1 DEF CheckRead
    <2> QED
        BY <1>12, <2>1, <2>2 DEF CheckRead
<1> QED
    BY <1>1, <1>2, <1>3, <1>4, <1>5, <1>6, <1>7, <1>8, <1>9, <1>10, <1>11, <1>12 DEF Run

\* So does every other step: an arrival, taking the mutex, a crash.
LEMMA StepInv == Inv /\ [Next]_vars => Inv'
<1> SUFFICES ASSUME Inv, [Next]_vars PROVE Inv'
    OBVIOUS
<1>1. CASE UNCHANGED vars
    BY <1>1, StutterInv
<1>2. CASE Crash
    BY <1>2, ProcsAssumption
       DEF Crash, Inv, TypeOK, LockInv, WriterInv, PairInv, VacancyInv, ProcState, Steps,
           Locked, CreateSteps, DeleteSteps, Answers, Free, NoKey
<1>3. ASSUME NEW p \in Procs, Enter(p) PROVE Inv'
    <2>1. /\ procs' \in [Procs -> ProcState]
          /\ procs[p].step = "idle"
          /\ procs'[p].step \in {"wait_create", "wait_delete", "check_stat"}
          /\ \A q \in Procs \ {p} : procs'[q] = procs[q]
        BY <1>3, EnterMoves DEF Inv
    <2> QED
        BY <1>3, <2>1
           DEF Enter, Inv, TypeOK, LockInv, WriterInv, PairInv, VacancyInv, Locked,
               CreateSteps, DeleteSteps
<1>4. ASSUME NEW p \in Procs, Acquire(p) PROVE Inv'
    <2>1. PICK s \in {"create_stat", "delete_stat"} :
             Goto(p, s) /\ procs[p].step \in {"wait_create", "wait_delete"}
        BY <1>4 DEF Acquire
    <2>2. s \in Steps
        BY DEF Steps, Locked, CreateSteps, DeleteSteps
    <2>3. /\ procs' \in [Procs -> ProcState]
          /\ procs'[p].step = s /\ procs'[p].new = procs[p].new
          /\ \A q \in Procs \ {p} : procs'[q] = procs[q]
        BY <2>1, <2>2, GotoMoves DEF Inv
    <2> QED
        BY <1>4, <2>1, <2>3, ProcsAssumption
           DEF Acquire, Inv, TypeOK, LockInv, WriterInv, PairInv, VacancyInv, Locked,
               CreateSteps, DeleteSteps, Free
<1>5. ASSUME NEW p \in Procs, Run(p) PROVE Inv'
    BY <1>5, RunInv
<1> QED
    BY <1>1, <1>2, <1>3, <1>4, <1>5 DEF Next

LEMMA Invariance == Spec => []Inv
<1>1. Init => Inv
    BY InitInv
<1>2. Inv /\ [Next]_vars => Inv'
    BY StepInv
<1> QED
    BY <1>1, <1>2, PTL DEF Spec

-----------------------------------------------------------------------------

\* The state of the manager is well typed in every reachable state.
THEOREM TypeCorrect == Spec => []TypeOK
<1>1. Inv => TypeOK
    BY DEF Inv
<1> QED
    BY <1>1, Invariance, PTL

\* Create and Delete never run at the same time.
THEOREM MutualExclusion ==
    Spec => [](\A p, q \in Procs :
                 procs[p].step \in Locked /\ procs[q].step \in Locked => p = q)
<1>1. Inv => \A p, q \in Procs :
                 procs[p].step \in Locked /\ procs[q].step \in Locked => p = q
    BY DEF Inv, LockInv
<1> QED
    BY <1>1, Invariance, PTL

\* Between requests and without faults the public key file belongs to the
\* private one (Create and Delete of manager.go), for any number of requests.
THEOREM Pairing == Spec => []PairConsistent
<1>1. Inv => PairConsistent
    <2> SUFFICES ASSUME Inv, faults = "none", lock = Free PROVE pub \in {priv, NoKey}
        BY DEF PairConsistent
    <2>1. \A p \in Procs : procs[p].step \notin Locked
        BY ProcsAssumption DEF Inv, LockInv, Free
    <2> QED
        BY <2>1 DEF Inv, PairInv, Locked, CreateSteps, DeleteSteps
<1> QED
    BY <1>1, Invariance, PTL

\* A creation that answers 201 has its key on the disk (Create of manager.go).
THEOREM CreationStored == Spec => CreatedIsStored
<1>1. Inv => \A p \in Procs : At(p, "write_pub") => priv = procs[p].new
    BY DEF Inv, WriterInv
<1>2. Inv /\ [Next]_vars =>
        [\A p \in Procs : At(p, "write_pub") /\ procs'[p].answer = "CREATED" =>
            priv = procs[p].new]_vars
    BY <1>1
<1> QED
    BY <1>2, Invariance, PTL DEF Spec, CreatedIsStored

-----------------------------------------------------------------------------
(* The manager implements KeyStore when reads do not fail. *)

\* What the other parts find changes only with the private file and with who
\* is writing it.
LEMMA StoredFrame ==
  ASSUME UNCHANGED priv,
         \A q \in Procs : procs'[q].step = "write_priv" <=> procs[q].step = "write_priv"
  PROVE  UNCHANGED Stored
  BY DEF Stored

\* At most one request is writing the private file.
LEMMA OneWriter ==
  ASSUME Inv, NEW p \in Procs, procs[p].step \in Locked, NEW q \in Procs \ {p}
  PROVE  procs[q].step # "write_priv"
  BY DEF Inv, LockInv, Locked, CreateSteps

LEMMA StoredInit == Init => Promise!KeyInit
<1> SUFFICES ASSUME Init PROVE Stored \in Keys \cup {NoKey, "broken"}
    BY DEF Promise!KeyInit, Promise!NoKey, Promise!Broken, NoKey
<1> QED
    BY DEF Init, Stored, FileStates

LEMMA OpenPrivStored ==
  ASSUME Inv, ~ReadFails, NEW p \in Procs, OpenPriv(p)
  PROVE  Promise!KeyNext \/ UNCHANGED Stored
<1>1. procs[p].step = "open_priv" /\ priv = NoKey
    BY DEF OpenPriv, Inv, VacancyInv
<1>2. CASE priv' = Partial /\ Goto(p, "write_priv")
    <2>1. Stored = NoKey
        BY <1>1 DEF Stored, NoKey, Partial
    <2>2. procs'[p].step = "write_priv"
        BY <1>2, GotoMoves DEF Inv, Steps, Locked, CreateSteps
    <2>3. Stored' = "writing"
        BY <1>2, <2>2 DEF Stored
    <2> QED
        BY <2>1, <2>3 DEF Promise!KeyNext, Promise!Begin, Promise!NoKey, Promise!Writing, NoKey
<1>3. CASE UNCHANGED priv /\ Reply(p, "INTERNAL_ERROR")
    <2>1. /\ procs'[p].step = "idle"
          /\ \A q \in Procs \ {p} : procs'[q] = procs[q]
        BY <1>3, ReplyMoves DEF Inv, Answers
    <2> QED
        BY <1>1, <1>3, <2>1, StoredFrame
<1> QED
    BY <1>2, <1>3 DEF OpenPriv, Proceed, Failed, Return

LEMMA WritePrivStored ==
  ASSUME Inv, NEW p \in Procs, WritePriv(p)
  PROVE  Promise!KeyNext \/ UNCHANGED Stored
<1>1. procs[p].step = "write_priv" /\ priv = Partial /\ procs[p].new \in Keys
    BY DEF WritePriv, Inv, WriterInv
<1>2. Stored = "writing"
    BY <1>1 DEF Stored
<1>3. CASE priv' = procs[p].new
    <2>1. Stored' = procs[p].new
        BY <1>1, <1>3, KeysAssumption DEF Stored, Partial
    <2> QED
        BY <1>1, <1>2, <2>1 DEF Promise!KeyNext, Promise!Finish, Promise!Writing
<1>4. CASE UNCHANGED priv /\ Reply(p, "INTERNAL_ERROR")
    <2>1. /\ procs'[p].step = "idle"
          /\ \A q \in Procs \ {p} : procs'[q] = procs[q]
        BY <1>4, ReplyMoves DEF Inv, Answers
    <2>2. \A q \in Procs : procs'[q].step # "write_priv"
        BY <1>1, <2>1, OneWriter DEF Locked, CreateSteps
    <2>3. Stored' = "broken"
        BY <1>1, <1>4, <2>2 DEF Stored
    <2> QED
        BY <1>2, <2>3 DEF Promise!KeyNext, Promise!Abandon, Promise!Writing, Promise!Broken
<1> QED
    BY <1>3, <1>4 DEF WritePriv, Failed, Return

LEMMA RemovePrivStored ==
  ASSUME Inv, NEW p \in Procs, RemovePriv(p)
  PROVE  Promise!KeyNext \/ UNCHANGED Stored
<1>1. procs[p].step = "remove_priv"
    BY DEF RemovePriv
<1>2. \A q \in Procs : procs[q].step # "write_priv"
    BY <1>1, OneWriter DEF Locked, DeleteSteps
<1>3. Stored \in Keys \cup {NoKey, "broken"}
    BY <1>2 DEF Inv, TypeOK, FileStates, Stored
<1>4. CASE priv' = NoKey
    <2>1. Stored' = NoKey
        BY <1>4 DEF Stored, NoKey, Partial
    <2> QED
        BY <1>3, <2>1
           DEF Promise!KeyNext, Promise!Remove, Promise!Broken, Promise!NoKey, NoKey
<1>5. CASE UNCHANGED priv /\ Reply(p, "INTERNAL_ERROR")
    <2>1. /\ procs'[p].step = "idle"
          /\ \A q \in Procs \ {p} : procs'[q] = procs[q]
        BY <1>5, ReplyMoves DEF Inv, Answers
    <2> QED
        BY <1>1, <1>5, <2>1, StoredFrame
<1> QED
    BY <1>4, <1>5 DEF RemovePriv, Failed, Return

LEMMA CrashStored ==
  ASSUME Inv, Crash
  PROVE  Promise!KeyNext \/ UNCHANGED Stored
<1>1. \A q \in Procs : procs'[q].step # "write_priv"
    BY DEF Crash
<1>2. CASE \E q \in Procs : procs[q].step = "write_priv"
    <2>1. priv = Partial
        BY <1>2 DEF Inv, WriterInv
    <2>2. Stored = "writing" /\ Stored' = "broken"
        BY <1>1, <1>2, <2>1 DEF Crash, Stored
    <2> QED
        BY <2>2 DEF Promise!KeyNext, Promise!Abandon, Promise!Writing, Promise!Broken
<1>3. CASE \A q \in Procs : procs[q].step # "write_priv"
    BY <1>1, <1>3, StoredFrame DEF Crash
<1> QED
    BY <1>2, <1>3

\* No other step touches the private file or begins or ends writing it.
LEMMA OtherStored ==
  ASSUME Inv, NEW p \in Procs,
         \/ Enter(p) \/ Acquire(p) \/ CreateStat(p) \/ CreateRead(p)
         \/ (\E k \in Keys : Generate(p, k)) \/ OpenPub(p) \/ WritePub(p)
         \/ DeleteStat(p) \/ RemovePub(p) \/ CheckStat(p) \/ CheckRead(p)
  PROVE  UNCHANGED Stored
<1>1. UNCHANGED priv
    BY DEF Enter, Acquire, CreateStat, CreateRead, Generate, OpenPub, WritePub, DeleteStat,
           RemovePub, CheckStat, CheckRead
<1>2. procs[p].step # "write_priv"
    BY DEF Enter, Acquire, CreateStat, CreateRead, Generate, OpenPub, WritePub, DeleteStat,
           RemovePub, CheckStat, CheckRead
<1>3. /\ procs'[p].step # "write_priv"
      /\ \A q \in Procs \ {p} : procs'[q] = procs[q]
    <2>1. CASE Enter(p)
        BY <2>1, EnterMoves DEF Inv
    <2>2. ASSUME NEW k \in Keys, Generate(p, k)
          PROVE  <1>3!1 /\ <1>3!2
        BY <2>2, GenerateMoves DEF Inv
    <2>3. ASSUME NEW s \in Steps \ {"write_priv"}, Goto(p, s)
          PROVE  <1>3!1 /\ <1>3!2
        BY <2>3, GotoMoves DEF Inv
    <2>4. ASSUME NEW a \in Answers, Reply(p, a)
          PROVE  <1>3!1 /\ <1>3!2
        BY <2>4, ReplyMoves DEF Inv
    <2>5. \/ Enter(p) \/ \E k \in Keys : Generate(p, k)
          \/ \E s \in Steps \ {"write_priv"} : Goto(p, s)
          \/ \E a \in Answers : Reply(p, a)
        BY DEF Acquire, CreateStat, CreateRead, OpenPub, WritePub, DeleteStat, RemovePub,
               CheckStat, CheckRead, Proceed, Return, Failed, Steps, Locked, CreateSteps,
               DeleteSteps, Answers
    <2> QED
        BY <2>1, <2>2, <2>3, <2>4, <2>5
<1> QED
    BY <1>1, <1>2, <1>3, StoredFrame

\* As long as reading an existing file does not fail, the manager (Create and
\* Delete of manager.go) keeps KeyStore's promise: no key is overwritten, and
\* none disappears but by a deletion.
THEOREM Refinement == ~ReadFails => (Spec => ImplementsKeyStore)
<1> SUFFICES ASSUME ~ReadFails PROVE Spec => ImplementsKeyStore
    OBVIOUS
<1>1. Inv /\ [Next]_vars => [Promise!KeyNext]_Stored
    <2> SUFFICES ASSUME Inv, [Next]_vars PROVE Promise!KeyNext \/ UNCHANGED Stored
        OBVIOUS
    <2>1. CASE UNCHANGED vars
        BY <2>1 DEF vars, Stored
    <2>2. CASE Crash
        BY <2>2, CrashStored
    <2>3. ASSUME NEW p \in Procs, Enter(p) \/ Acquire(p) \/ Run(p)
          PROVE  Promise!KeyNext \/ UNCHANGED Stored
        BY <2>3, OpenPrivStored, WritePrivStored, RemovePrivStored, OtherStored DEF Run
    <2> QED
        BY <2>1, <2>2, <2>3 DEF Next
<1> QED
    BY <1>1, StoredInit, Invariance, PTL DEF Spec, ImplementsKeyStore, Promise!KeySpec
=============================================================================
