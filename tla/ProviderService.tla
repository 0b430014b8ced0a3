--------------------------- MODULE ProviderService ---------------------------
(***************************************************************************)
(* What the daemon promises about provider sessions, promises and reads,   *)
(* as if there were neither connections, locks nor messages: a promise is  *)
(* available exactly while its owner's session is live, a session ends     *)
(* once, taking all its promises along in the same instant, a read starts  *)
(* on an available promise, and ends once.                                 *)
(***************************************************************************)
EXTENDS Naturals

CONSTANTS ProviderIds, PromiseIds, Readers

VARIABLES
    session,        \* session[p]: "Absent", "Live" or "Disconnected"
    owner,          \* owner[m]: the provider that committed promise m, or 0
    available,      \* the promises whose content can be asked for
    reading,        \* reading[t]: the provider t's open read is for, or 0
    outcome         \* outcome[t]: how t's last read ended

vars == <<session, owner, available, reading, outcome>>

Init ==
    /\ session = [p \in ProviderIds |-> "Absent"]
    /\ owner = [m \in PromiseIds |-> 0]
    /\ available = {}
    /\ reading = [t \in Readers |-> 0]
    /\ outcome = [t \in Readers |-> "None"]

Available(own, ses) == {m \in PromiseIds : own[m] # 0 /\ ses[own[m]] = "Live"}

Open(p) ==
    /\ session[p] = "Absent"
    /\ session' = [session EXCEPT ![p] = "Live"]
    /\ UNCHANGED <<owner, available, reading, outcome>>

Commit(p, m) ==
    /\ session[p] = "Live"
    /\ owner[m] = 0
    /\ owner' = [owner EXCEPT ![m] = p]
    /\ available' = available \cup {m}
    /\ UNCHANGED <<session, reading, outcome>>

End(p) ==
    /\ session[p] = "Live"
    /\ session' = [session EXCEPT ![p] = "Disconnected"]
    /\ available' = Available(owner, session')
    /\ UNCHANGED <<owner, reading, outcome>>

Start(t, m) ==
    /\ reading[t] = 0
    /\ m \in available
    /\ reading' = [reading EXCEPT ![t] = owner[m]]
    /\ outcome' = [outcome EXCEPT ![t] = "None"]
    /\ UNCHANGED <<session, owner, available>>

Finish(t) ==
    /\ reading[t] # 0
    /\ reading' = [reading EXCEPT ![t] = 0]
    /\ \E result \in {"Response", "Error"} : outcome' = [outcome EXCEPT ![t] = result]
    /\ UNCHANGED <<session, owner, available>>

Next ==
    \/ \E p \in ProviderIds : Open(p) \/ End(p) \/ \E m \in PromiseIds : Commit(p, m)
    \/ \E t \in Readers : Finish(t) \/ \E m \in PromiseIds : Start(t, m)

Spec == Init /\ [][Next]_vars
=============================================================================
