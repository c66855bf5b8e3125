----------------------------- MODULE SessionBook -----------------------------
(***************************************************************************)
(* What the gateway promises about its sessions, whatever becomes of the   *)
(* connections: a session is known to the one that opened it alone until a *)
(* client is told of it, can then be resumed until somebody or something   *)
(* has ended it and it is struck from the book, and never comes back.      *)
(***************************************************************************)
EXTENDS Integers, FiniteSets

CONSTANTS Conns,  \* connections
          Sids,   \* sessions
          Cap,    \* how many sessions an account may keep
          None

VARIABLES stage,  \* "unused", "open", "ending" or "struck"
          known,  \* sessions that clients were told of
          holder  \* the session that each connection is attached to

vars == <<stage, known, holder>>

Init ==
    /\ stage = [s \in Sids |-> "unused"]
    /\ known = {}
    /\ holder = [c \in Conns |-> None]

Active(K) == {s \in K : stage[s] = "open"}

Open(c, s) ==
    /\ holder[c] = None
    /\ stage[s] = "unused"
    /\ stage' = [stage EXCEPT ![s] = "open"]
    /\ holder' = [holder EXCEPT ![c] = s]
    /\ UNCHANGED known

\* The client learns how to resume the session: one of at most Cap.
Tell(c) ==
    /\ holder[c] # None
    /\ known' = known \cup {holder[c]}
    /\ Cardinality(Active(known')) <= Cap
    /\ UNCHANGED <<stage, holder>>

Resume(c, s) ==
    /\ holder[c] = None
    /\ s \in known
    /\ stage[s] \in {"open", "ending"}
    /\ holder' = [holder EXCEPT ![c] = s]
    /\ UNCHANGED <<stage, known>>

\* The connection goes; the session stays.
Detach(c) ==
    /\ holder' = [holder EXCEPT ![c] = None]
    /\ UNCHANGED <<stage, known>>

\* A client asks for the end of the session, or its SSH side ends.
End(s) ==
    /\ stage[s] = "open"
    /\ stage' = [stage EXCEPT ![s] = "ending"]
    /\ UNCHANGED <<known, holder>>

Strike(c) ==
    /\ holder[c] # None
    /\ stage' = [stage EXCEPT ![holder[c]] = "struck"]
    /\ holder' = [holder EXCEPT ![c] = None]
    /\ UNCHANGED known

\* The end of a session that was ended, or that is already struck.
Remove(c) ==
    /\ holder[c] # None
    /\ stage[holder[c]] \in {"ending", "struck"}
    /\ Strike(c)

\* The session could not be opened: nobody has heard of it.
Refuse(c) ==
    /\ holder[c] \notin known
    /\ \A d \in Conns : d # c => holder[d] # holder[c]
    /\ Strike(c)

Next ==
    \/ \E c \in Conns : Tell(c) \/ Detach(c) \/ Remove(c) \/ Refuse(c)
    \/ \E c \in Conns, s \in Sids : Open(c, s) \/ Resume(c, s)
    \/ \E s \in Sids : End(s)

Spec == Init /\ [][Next]_vars
=============================================================================
