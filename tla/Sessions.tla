------------------------------ MODULE Sessions ------------------------------
(***************************************************************************)
(* What the service promises about sessions, without tables, clocks or     *)
(* queries: a session is opened at most once, closed at most once and      *)
(* never reopened, and a request is admitted to a protected handler only   *)
(* if its session was open when the request came.                          *)
(***************************************************************************)
CONSTANTS Tokens, Requests

VARIABLES
    phase,      \* phase of the session of each token
    visit       \* where each request stands

Init ==
    /\ phase = [t \in Tokens |-> "unused"]
    /\ visit = [r \in Requests |-> "out"]

\* The open sessions in S close.
Closing(S) == [t \in Tokens |-> IF t \in S /\ phase[t] = "open" THEN "closed" ELSE phase[t]]

\* A new session begins; a slow login may bring it about already expired.
Begin(t) ==
    /\ phase[t] = "unused"
    /\ \E p \in {"open", "closed"} : phase' = [phase EXCEPT ![t] = p]
    /\ UNCHANGED visit

\* Sessions end for a reason no request sees.
Close ==
    /\ \E S \in SUBSET Tokens : phase' = Closing(S)
    /\ UNCHANGED visit

Come(r, t) ==
    /\ visit[r] = "out"
    /\ phase[t] # "unused"
    /\ visit' = [visit EXCEPT ![r] = IF phase[t] = "open" THEN "early" ELSE "late"]
    /\ UNCHANGED phase

Admit(r) ==
    /\ visit[r] = "early"
    /\ visit' = [visit EXCEPT ![r] = "in"]
    /\ UNCHANGED phase

Refuse(r) ==
    /\ visit[r] \in {"early", "late"}
    /\ visit' = [visit EXCEPT ![r] = "out"]
    /\ UNCHANGED phase

\* An admitted request finishes; it may close sessions (logout).
Leave(r) ==
    /\ visit[r] = "in"
    /\ visit' = [visit EXCEPT ![r] = "out"]
    /\ \E S \in SUBSET Tokens : phase' = Closing(S)

Next ==
    \/ \E t \in Tokens : Begin(t)
    \/ Close
    \/ \E r \in Requests, t \in Tokens : Come(r, t)
    \/ \E r \in Requests : Admit(r) \/ Refuse(r) \/ Leave(r)

Spec == Init /\ [][Next]_<<phase, visit>>
=============================================================================
