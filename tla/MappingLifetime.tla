-------------------------- MODULE MappingLifetime --------------------------
(***************************************************************************)
(* What _MappingState promises (client.py, "Own one OS mapping; cache      *)
(* ownership and SharedObject leases are independent"): a mapping has a    *)
(* set of users, the cache and any number of SharedObjects, and goes away  *)
(* with the last of them, unless an exported NumPy view still pins it.     *)
(***************************************************************************)
CONSTANTS Mappings, Users

VARIABLES phase, users

vars == <<phase, users>>

Init ==
    /\ phase = [s \in Mappings |-> "unused"]
    /\ users = [s \in Mappings |-> {}]

Attach(s) ==
    /\ phase[s] = "unused"
    /\ phase' = [phase EXCEPT ![s] = "open"]
    /\ UNCHANGED users

\* Some mappings change users.  One that gains a user is and stays open; one
\* that loses its last user may close, and nothing else closes.
Change ==
    /\ users' \in [Mappings -> SUBSET Users]
    /\ phase' \in [Mappings -> {"unused", "open", "closed"}]
    /\ \A s \in Mappings :
          /\ ~(users'[s] \subseteq users[s]) => phase[s] = "open"
          /\ phase'[s] # phase[s] =>
                /\ phase[s] = "open" /\ phase'[s] = "closed"
                /\ users'[s] = {}

Next == Change \/ \E s \in Mappings : Attach(s)

Spec == Init /\ [][Next]_vars
=============================================================================
