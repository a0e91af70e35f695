------------------------------ MODULE KeyStore ------------------------------
(***************************************************************************)
(* What sshkey.Manager promises about the application's private key: there *)
(* is at most one, it comes into being in one attempt or stays broken, and *)
(* only a removal makes room for another.                                  *)
(***************************************************************************)
CONSTANT Keys                   \* ed25519 key pairs

VARIABLE key                    \* what a reader of the key file may hold

NoKey == "absent"
Writing == "writing"            \* being created, unreadable
Broken == "broken"              \* left unreadable by a creation that ended

KeyInit == key \in Keys \cup {NoKey, Broken}

Begin == key = NoKey /\ key' = Writing
Finish(k) == key = Writing /\ key' = k
Abandon == key = Writing /\ key' = Broken
Remove == key \in Keys \cup {Broken} /\ key' = NoKey

KeyNext == Begin \/ (\E k \in Keys : Finish(k)) \/ Abandon \/ Remove

KeySpec == KeyInit /\ [][KeyNext]_key
=============================================================================
