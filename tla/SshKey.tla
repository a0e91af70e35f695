------------------------------- MODULE SshKey -------------------------------
(***************************************************************************)
(* sshkey.Manager: the application's SSH key as two files.  Create and     *)
(* Delete hold a mutex, Check does not.  One step is one system call;      *)
(* os.WriteFile is two, for it truncates the file before it writes.  The   *)
(* process can crash between any two of them, and any of them can fail.    *)
(***************************************************************************)
CONSTANTS
    Keys,           \* ed25519 key pairs that can be generated
    Procs,          \* request goroutines
    Failures        \* "read": os.Stat and os.ReadFile may fail on an existing file;
                    \* "write": opening, writing and removing may fail

ASSUME KeysAssumption == Keys \cap {"absent", "writing", "broken", "partial"} = {}
ASSUME ProcsAssumption == "free" \notin Procs
ASSUME FailuresAssumption == Failures \subseteq {"read", "write"}

VARIABLES
    priv,           \* the private key file
    pub,            \* the public key file
    lock,           \* Manager.mu
    procs,          \* where each request stands
    faults          \* observer: "some" after a crash or a failed write or removal

vars == <<priv, pub, lock, procs, faults>>

NoKey == "absent"
Partial == "partial"            \* truncated, empty or cut short: does not parse
Free == "free"

ReadFails == "read" \in Failures
WriteFails == "write" \in Failures

FileStates == Keys \cup {NoKey, Partial}

CreateSteps == {"create_stat", "create_read", "generate", "open_priv", "write_priv",
                "open_pub", "write_pub"}
DeleteSteps == {"delete_stat", "remove_priv", "remove_pub"}
Locked == CreateSteps \cup DeleteSteps
Steps == {"idle", "wait_create", "wait_delete", "check_stat", "check_read"} \cup Locked

Answers == {"none", "CREATED", "EXISTS", "EXISTS_INVALID", "KEY", "SSH_KEY_NOT_FOUND",
            "SSH_KEY_INVALID", "DELETED", "INTERNAL_ERROR"}

ProcState == [step : Steps, new : Keys \cup {NoKey}, answer : Answers]

TypeOK ==
    /\ priv \in FileStates /\ pub \in FileStates
    /\ lock \in Procs \cup {Free}
    /\ procs \in [Procs -> ProcState]
    /\ faults \in {"none", "some"}

\* Before the first request there is no key, one made by hand, with or without
\* its public half, or something that is not a usable key.
Init ==
    /\ priv \in FileStates
    /\ pub \in {priv, NoKey}
    /\ lock = Free
    /\ procs = [p \in Procs |-> [step |-> "idle", new |-> NoKey, answer |-> "none"]]
    /\ faults = "none"

-----------------------------------------------------------------------------

At(p, step) == procs[p].step = step

Goto(p, step) == procs' = [procs EXCEPT ![p].step = step]

Reply(p, a) == procs' = [procs EXCEPT ![p] = [step |-> "idle", new |-> NoKey, answer |-> a]]

\* A request under the mutex returns: the deferred Unlock.
Return(p, a) == Reply(p, a) /\ lock' = Free

\* A system call that writes fails and ends the request.
Failed(p) == WriteFails /\ faults' = "some" /\ Return(p, "INTERNAL_ERROR")

\* A step under the mutex that is not the last.
Proceed(p, step) == Goto(p, step) /\ UNCHANGED lock

\* POST create, DELETE delete, GET check arrive.
Enter(p) ==
    /\ At(p, "idle")
    /\ \E step \in {"wait_create", "wait_delete", "check_stat"} :
         procs' = [procs EXCEPT ![p] = [step |-> step, new |-> NoKey, answer |-> "none"]]
    /\ UNCHANGED <<priv, pub, lock, faults>>

\* Variant of Acquire: only Create takes the mutex.
AcquireCreateOnly(p) ==
    /\ \/ At(p, "wait_create") /\ lock = Free /\ lock' = p /\ Goto(p, "create_stat")
       \/ At(p, "wait_delete") /\ Proceed(p, "delete_stat")
    /\ UNCHANGED <<priv, pub, faults>>

\* mu.Lock()
Acquire(p) ==
    /\ lock = Free
    /\ lock' = p
    /\ \/ At(p, "wait_create") /\ Goto(p, "create_stat")
       \/ At(p, "wait_delete") /\ Goto(p, "delete_stat")
    /\ UNCHANGED <<priv, pub, faults>>

-----------------------------------------------------------------------------
(* Create *)

\* Variant of CreateStat: the result of Check is not looked at.
CreateStatIgnored(p) ==
    /\ At(p, "create_stat")
    /\ Proceed(p, "generate")
    /\ UNCHANGED <<priv, pub, faults>>

\* The os.Stat in Check.  An error counts like absence.
CreateStat(p) ==
    /\ At(p, "create_stat")
    /\ \/ priv # NoKey /\ Proceed(p, "create_read")
       \/ (priv = NoKey \/ ReadFails) /\ Proceed(p, "generate")
    /\ UNCHANGED <<priv, pub, faults>>

\* The Signer in Check: an existing file is left alone whatever it holds.
CreateRead(p) ==
    /\ At(p, "create_read")
    /\ \/ priv \in Keys /\ Return(p, "EXISTS")
       \/ (priv \notin Keys \/ ReadFails) /\ Return(p, "EXISTS_INVALID")
    /\ UNCHANGED <<priv, pub, faults>>

Generate(p, k) ==
    /\ At(p, "generate")
    /\ procs' = [procs EXCEPT ![p] = [step |-> "open_priv", new |-> k, answer |-> "none"]]
    /\ UNCHANGED <<priv, pub, lock, faults>>

\* os.WriteFile(privPath) opens and truncates ...
OpenPriv(p) ==
    /\ At(p, "open_priv")
    /\ \/ priv' = Partial /\ Proceed(p, "write_priv") /\ UNCHANGED faults
       \/ UNCHANGED priv /\ Failed(p)
    /\ UNCHANGED pub

\* ... and writes.
WritePriv(p) ==
    /\ At(p, "write_priv")
    /\ \/ priv' = procs[p].new /\ Proceed(p, "open_pub") /\ UNCHANGED faults
       \/ UNCHANGED priv /\ Failed(p)
    /\ UNCHANGED pub

OpenPub(p) ==
    /\ At(p, "open_pub")
    /\ \/ pub' = Partial /\ Proceed(p, "write_pub") /\ UNCHANGED faults
       \/ UNCHANGED pub /\ Failed(p)
    /\ UNCHANGED priv

WritePub(p) ==
    /\ At(p, "write_pub")
    /\ \/ pub' = procs[p].new /\ Return(p, "CREATED") /\ UNCHANGED faults
       \/ UNCHANGED pub /\ Failed(p)
    /\ UNCHANGED priv

-----------------------------------------------------------------------------
(* Delete *)

\* Variant of DeleteStat: the early return forgets the mutex.
DeleteStatLocked(p) ==
    /\ At(p, "delete_stat")
    /\ \/ priv # NoKey /\ Proceed(p, "remove_priv")
       \/ priv = NoKey /\ Reply(p, "SSH_KEY_NOT_FOUND") /\ UNCHANGED lock
    /\ UNCHANGED <<priv, pub, faults>>

DeleteStat(p) ==
    /\ At(p, "delete_stat")
    /\ \/ priv # NoKey /\ Proceed(p, "remove_priv")
       \/ priv = NoKey /\ Return(p, "SSH_KEY_NOT_FOUND")
       \/ ReadFails /\ Return(p, "INTERNAL_ERROR")
    /\ UNCHANGED <<priv, pub, faults>>

RemovePriv(p) ==
    /\ At(p, "remove_priv")
    /\ \/ priv' = NoKey /\ Proceed(p, "remove_pub") /\ UNCHANGED faults
       \/ UNCHANGED priv /\ Failed(p)
    /\ UNCHANGED pub

\* Best-effort: an error leaves the public key behind, unnoticed.
RemovePub(p) ==
    /\ At(p, "remove_pub")
    /\ \/ pub' = NoKey /\ UNCHANGED faults
       \/ WriteFails /\ UNCHANGED pub /\ faults' = "some"
    /\ Return(p, "DELETED")
    /\ UNCHANGED priv

-----------------------------------------------------------------------------
(* Check, without the mutex: it can see the file change between its calls. *)

\* Variant of CheckStat: a missing file is answered without a code.
CheckStatSilent(p) ==
    /\ At(p, "check_stat")
    /\ IF priv = NoKey THEN Reply(p, "") ELSE Goto(p, "check_read")
    /\ UNCHANGED <<priv, pub, lock, faults>>

CheckStat(p) ==
    /\ At(p, "check_stat")
    /\ \/ priv = NoKey /\ Reply(p, "SSH_KEY_NOT_FOUND")
       \/ priv # NoKey /\ Goto(p, "check_read")
       \/ ReadFails /\ Reply(p, "INTERNAL_ERROR")
    /\ UNCHANGED <<priv, pub, lock, faults>>

CheckRead(p) ==
    /\ At(p, "check_read")
    /\ \/ priv \in Keys /\ Reply(p, "KEY")
       \/ (priv \notin Keys \/ ReadFails) /\ Reply(p, "SSH_KEY_INVALID")
    /\ UNCHANGED <<priv, pub, lock, faults>>

-----------------------------------------------------------------------------

\* The process dies and is started again: the files stay as they are.
Crash ==
    /\ lock' = Free
    /\ procs' = [p \in Procs |-> [step |-> "idle", new |-> NoKey, answer |-> "none"]]
    /\ faults' = "some"
    /\ UNCHANGED <<priv, pub>>

Run(p) ==
    \/ CreateStat(p) \/ CreateRead(p) \/ (\E k \in Keys : Generate(p, k))
    \/ OpenPriv(p) \/ WritePriv(p) \/ OpenPub(p) \/ WritePub(p)
    \/ DeleteStat(p) \/ RemovePriv(p) \/ RemovePub(p)
    \/ CheckStat(p) \/ CheckRead(p)

Next == Crash \/ \E p \in Procs : Enter(p) \/ Acquire(p) \/ Run(p)

\* System calls return, and sync.Mutex does not starve a waiter.
Fairness == \A p \in Procs : WF_vars(Run(p)) /\ SF_vars(Acquire(p))

Spec == Init /\ [][Next]_vars /\ Fairness

-----------------------------------------------------------------------------
(* Properties *)

\* The key as the other parts of the service find it.
Stored ==
    IF priv # Partial THEN priv
    ELSE IF \E p \in Procs : At(p, "write_priv") THEN "writing" ELSE "broken"

Promise == INSTANCE KeyStore WITH key <- Stored

\* The manager keeps the promise of KeyStore through crashes and failing
\* system calls: in particular an existing key is never overwritten, nor a
\* file deleted while it is being written.
ImplementsKeyStore == Promise!KeySpec

\* Between requests the public file belongs to the private one unless
\* something failed or crashed: no interleaving of creations and deletions
\* pairs the halves of two keys.
PairConsistent == faults = "none" /\ lock = Free => pub \in {priv, NoKey}

\* A creation answers 201 with a key that is on the disk at that moment: no
\* concurrent deletion or creation has come in between.
CreatedIsStored ==
    [][\A p \in Procs : At(p, "write_pub") /\ procs'[p].answer = "CREATED" =>
         priv = procs[p].new]_vars

\* Every request is answered (or dies with the process): no early return of
\* Create or Delete leaves the mutex locked.
Served == \A p \in Procs : ~At(p, "idle") ~> At(p, "idle")

\* "app ssh key is missing or invalid, create it via POST create"
\* (server_service.go): a creation that does not fail leaves a usable key.
CreateYieldsKey ==
    [][\A p \in Procs : /\ procs[p].step \in CreateSteps
                        /\ procs'[p].answer \in {"CREATED", "EXISTS", "EXISTS_INVALID"}
         => priv' \in Keys]_vars
=============================================================================
