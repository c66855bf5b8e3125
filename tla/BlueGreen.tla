------------------------------ MODULE BlueGreen ------------------------------
(***************************************************************************)
(* The blue/green deployment script deploy/prod-build.sh: the two gateway  *)
(* containers, the state file, and one invocation of the script at a time. *)
(*                                                                         *)
(* The script runs under `set -e`: a command that fails and is not guarded *)
(* by `|| true` ends it where it stands, and so does an interruption.  The *)
(* containers are run with --restart always: one that crashes is down for  *)
(* a moment, when `podman ps` does not list it, and comes back.            *)
(***************************************************************************)
EXTENDS Integers

CONSTANTS MaxRuns,     \* bound: invocations of the script
          MaxCrashes   \* bound: crashes of a container

ASSUME BlueGreenAssumption == MaxRuns \in Nat /\ MaxCrashes \in Nat

Containers == {"blue", "green"}
None == "none"

VARIABLES pc,         \* the command the script is at, or "idle"
          op,         \* its ACTION: "deploy" or "rollback" (switch is the same)
          current,    \* $current_container
          new,        \* $new_container, in a rollback $standby_container
          status,     \* podman's view of each container
          net,        \* containers connected to the Traefik network
          state,      \* the state file
          checked,    \* history: containers that passed a check since the script started them
          served,     \* history: a deployment has succeeded
          shaken,     \* history: a container was down during this invocation
          cut,        \* history: see CutShort
          fault,      \* history: see WrongGuess
          runs,       \* invocations so far
          crashes     \* crashes so far

script == <<pc, op, current, new>>
podman == <<status, net, checked>>
history == <<served, shaken, cut, fault>>
vars == <<script, podman, state, history, runs, crashes>>

(***************************************************************************)
(* "prepare"  check_environment; a deployment also pulls and builds        *)
(* "current"  get_current_container                                        *)
(* deploy:    "standby" get_standby_container, "clear" podman stop,        *)
(*            "rm", "run", "connect", "health"                             *)
(* rollback:  "start", "rhealth", "disconnect", "rconnect"                 *)
(* both:      "stop" the current container, "save" the state file          *)
(***************************************************************************)
Overlap == {"connect", "health", "rhealth", "disconnect", "rconnect", "stop"}
Chosen == {"clear", "rm", "run", "start", "save"} \cup Overlap
PCs == {"idle", "prepare", "current", "standby"} \cup Chosen

TypeOK ==
    /\ pc \in PCs
    /\ op \in {"deploy", "rollback"}
    /\ current \in Containers \cup {None}
    /\ new \in Containers \cup {None}
    /\ status \in [Containers -> {"absent", "running", "down", "stopped"}]
    /\ net \subseteq Containers
    /\ checked \subseteq Containers
    /\ state \in [current : Containers \cup {None}, previous : Containers \cup {None},
                  count : Nat]
    /\ served \in BOOLEAN /\ shaken \in BOOLEAN /\ cut \in BOOLEAN /\ fault \in BOOLEAN
    /\ runs \in 0..MaxRuns /\ crashes \in 0..MaxCrashes
    /\ pc \in Chosen => new \in Containers
    /\ pc \in Chosen /\ op = "rollback" => current \in Containers \ {new}

Init ==
    /\ pc = "idle"
    /\ op = "deploy"
    /\ current = None
    /\ new = None
    /\ status = [c \in Containers |-> "absent"]
    /\ net = {}
    /\ state = [current |-> None, previous |-> None, count |-> 0]
    /\ checked = {}
    /\ served = FALSE /\ shaken = FALSE /\ cut = FALSE /\ fault = FALSE
    /\ runs = 0
    /\ crashes = 0

-----------------------------------------------------------------------------
Goto(label) == pc' = label

\* The script ends without having done all it set out to do; cut short between
\* starting the second container and stopping the first, it leaves both.
CutShort == pc \in Overlap
Exit ==
    /\ Goto("idle")
    /\ cut' = (cut \/ CutShort)
    /\ UNCHANGED <<served, shaken, fault>>

\* Mutant of Listed: `podman ps -a`.
Listed_all(c) == status[c] # "absent"

\* What `podman ps` lists.
Listed(c) == status[c] = "running"

get_current_container ==
    IF Listed("blue") THEN "blue" ELSE IF Listed("green") THEN "green" ELSE None

Other(c) == IF c = "blue" THEN "green" ELSE "blue"

get_standby_container == Other(get_current_container)

\* A container that clients can be sent to: it passed its check, Traefik
\* reaches it, and podman keeps it running.
InService(c) == c \in checked \cap net /\ status[c] \in {"running", "down"}

\* Both run, and the script is about to take for current the one not in service.
WrongGuess == status["blue"] = "running" /\ ~InService("blue") /\ InService("green")

Exists(c) == status[c] # "absent"

\* The script is started.
Invoke(a) ==
    /\ pc = "idle"
    /\ runs < MaxRuns
    /\ runs' = runs + 1
    /\ op' = a
    /\ current' = None
    /\ new' = None
    /\ Goto("prepare")
    /\ shaken' = (\E c \in Containers : status[c] = "down")
    /\ UNCHANGED <<podman, state, served, cut, fault, crashes>>

\* check_environment, and for a deployment the checkout and the image build.
Prepare ==
    /\ pc = "prepare"
    /\ Goto("current")
    /\ UNCHANGED <<op, current, new, podman, state, history, runs, crashes>>

\* A command fails under `set -e`, or the script is interrupted.
Abort ==
    /\ pc # "idle"
    /\ Exit
    /\ UNCHANGED <<op, current, new, podman, state, runs, crashes>>

\* A deployment looks for the current container.
PickCurrent ==
    /\ pc = "current"
    /\ op = "deploy"
    /\ current' = get_current_container
    /\ Goto("standby")
    /\ fault' = (fault \/ WrongGuess)
    /\ UNCHANGED <<op, new, podman, state, served, shaken, cut, runs, crashes>>

\* It looks again for the one to replace.
PickStandby ==
    /\ pc = "standby"
    /\ new' = get_standby_container
    /\ Goto(IF Exists(new') THEN "clear" ELSE "run")
    /\ UNCHANGED <<op, current, podman, state, history, runs, crashes>>

\* podman stop of the standby container; its failure is ignored.
StopStandby ==
    /\ pc = "clear"
    /\ status' \in {status, [status EXCEPT ![new] = "stopped"]}
    /\ Goto("rm")
    /\ UNCHANGED <<op, current, new, net, checked, state, history, runs, crashes>>

\* podman rm, which refuses a running container; its failure is ignored.
RemoveStandby ==
    /\ pc = "rm"
    /\ \/ /\ status[new] \in {"stopped", "down"}
          /\ status' = [status EXCEPT ![new] = "absent"]
          /\ net' = net \ {new}
          /\ checked' = checked \ {new}
       \/ UNCHANGED podman
    /\ Goto("run")
    /\ UNCHANGED <<op, current, new, state, history, runs, crashes>>

\* podman run of the new image; it fails, by Abort, when the name is taken.
RunNew ==
    /\ pc = "run"
    /\ ~Exists(new)
    /\ status' = [status EXCEPT ![new] = "running"]
    /\ Goto("connect")
    /\ UNCHANGED <<op, current, new, net, checked, state, history, runs, crashes>>

\* podman run fails after it has created the container.
RunFails ==
    /\ pc = "run"
    /\ ~Exists(new)
    /\ status' = [status EXCEPT ![new] = "stopped"]
    /\ Exit
    /\ UNCHANGED <<op, current, new, net, checked, state, runs, crashes>>

\* podman network connect, in a deployment and in a rollback.
ConnectNew ==
    /\ pc \in {"connect", "rconnect"}
    /\ net' = net \cup {new}
    /\ Goto(IF pc = "connect" THEN "health" ELSE "stop")
    /\ UNCHANGED <<op, current, new, status, checked, state, history, runs, crashes>>

-----------------------------------------------------------------------------
\* gateway_health_check: the container runs and its log shows no crash.
HealthPasses ==
    /\ pc \in {"health", "rhealth"}
    /\ status[new] = "running"
    /\ checked' = checked \cup {new}
    /\ Goto(IF pc = "health" THEN "stop" ELSE "disconnect")
    /\ UNCHANGED <<op, current, new, status, net, state, history, runs, crashes>>

\* Mutant of DeployHealthFails: the failed container is left behind.
DeployHealthFails_kept ==
    /\ pc = "health"
    /\ checked' = checked \ {new}
    /\ Goto("idle")
    /\ UNCHANGED <<op, current, new, status, net, state, history, runs, crashes>>

\* The new container fails its check and is removed; a failure of podman rm -f
\* is ignored.
DeployHealthFails ==
    /\ pc = "health"
    /\ \/ /\ status' = [status EXCEPT ![new] = "absent"]
          /\ net' = net \ {new}
          /\ Goto("idle")
          /\ UNCHANGED history
       \/ Exit /\ UNCHANGED <<status, net>>
    /\ checked' = checked \ {new}
    /\ UNCHANGED <<op, current, new, state, runs, crashes>>

\* The standby container fails its check: the rollback ends.
RollbackHealthFails ==
    /\ pc = "rhealth"
    /\ checked' = checked \ {new}
    /\ Exit
    /\ UNCHANGED <<op, current, new, status, net, state, runs, crashes>>

-----------------------------------------------------------------------------
\* A rollback finds the current container, and the other one as the standby.
PickBoth ==
    /\ pc = "current"
    /\ op = "rollback"
    /\ get_current_container # None
    /\ current' = get_current_container
    /\ new' = Other(current')
    /\ Exists(new')
    /\ Goto("start")
    /\ fault' = (fault \/ WrongGuess)
    /\ UNCHANGED <<op, podman, state, served, shaken, cut, runs, crashes>>

\* podman start of the standby container, which does nothing to one that runs.
StartStandby ==
    /\ pc = "start"
    /\ status' = [status EXCEPT ![new] = "running"]
    /\ checked' = IF status[new] = "running" THEN checked ELSE checked \ {new}
    /\ Goto("rhealth")
    /\ UNCHANGED <<op, current, new, net, state, history, runs, crashes>>

\* podman network disconnect; its failure is ignored.
DisconnectStandby ==
    /\ pc = "disconnect"
    /\ net' \in {net, net \ {new}}
    /\ Goto("rconnect")
    /\ UNCHANGED <<op, current, new, status, checked, state, history, runs, crashes>>

\* Mutant of StopCurrent: its failure is ignored.
StopCurrent_ignored ==
    /\ pc = "stop"
    /\ \/ UNCHANGED status
       \/ current # None /\ status' = [status EXCEPT ![current] = "stopped"]
    /\ Goto("save")
    /\ UNCHANGED <<op, current, new, net, checked, state, history, runs, crashes>>

\* podman stop of the current container, if there is one.
StopCurrent ==
    /\ pc = "stop"
    /\ status' = IF current = None THEN status ELSE [status EXCEPT ![current] = "stopped"]
    /\ Goto("save")
    /\ UNCHANGED <<op, current, new, net, checked, state, history, runs, crashes>>

\* save_state.  Only a rollback has loaded the old state, and with it the count.
SaveState ==
    /\ pc = "save"
    /\ state' = [current |-> new, previous |-> current,
                 count |-> (IF op = "rollback" THEN state.count ELSE 0) + 1]
    /\ served' = TRUE
    /\ cut' = (cut /\ shaken)
    /\ fault' = (fault /\ shaken)
    /\ Goto("idle")
    /\ UNCHANGED <<op, current, new, podman, shaken, runs, crashes>>

-----------------------------------------------------------------------------
\* A container's process dies.
Crash(c) ==
    /\ crashes < MaxCrashes
    /\ status[c] = "running"
    /\ status' = [status EXCEPT ![c] = "down"]
    /\ crashes' = crashes + 1
    /\ shaken' = TRUE /\ cut' = TRUE /\ fault' = TRUE
    /\ UNCHANGED <<script, net, checked, state, served, runs>>

\* podman restarts it.
Restart(c) ==
    /\ status[c] = "down"
    /\ status' = [status EXCEPT ![c] = "running"]
    /\ UNCHANGED <<script, net, checked, state, history, runs, crashes>>

Deploy ==
    \/ PickCurrent
    \/ PickStandby
    \/ StopStandby
    \/ RemoveStandby
    \/ RunNew
    \/ RunFails
    \/ DeployHealthFails

Rollback == PickBoth \/ StartStandby \/ RollbackHealthFails \/ DisconnectStandby

Next ==
    \/ \E a \in {"deploy", "rollback"} : Invoke(a)
    \/ Prepare
    \/ Abort
    \/ Deploy
    \/ Rollback
    \/ ConnectNew
    \/ HealthPasses
    \/ StopCurrent
    \/ SaveState
    \/ \E c \in Containers : Crash(c) \/ Restart(c)

Spec == Init /\ [][Next]_vars

-----------------------------------------------------------------------------
(***************************************************************************)
(* Properties.                                                             *)
(***************************************************************************)

\* Once a deployment has succeeded some container is in service at every moment,
\* whichever commands fail and wherever an invocation is interrupted, also with
\* both containers left running - unless one crashed, or an invocation took for
\* current the one of two that does not serve; and an unshaken invocation that
\* completes makes up for either (prod-build.sh:94-113, 201-251, 268-288).
NoOutage == served /\ ~fault => \E c \in Containers : InService(c)

\* Between invocations at most one container runs, and once a deployment has
\* succeeded exactly one, unless a container crashed or an invocation was cut
\* short in the overlap; an unshaken invocation that completes makes up for
\* either, and one that fails elsewhere leaves no second container behind
\* (prod-build.sh:206-209, 238-251, 287-288).
OneActive ==
    pc = "idle" /\ ~cut =>
        /\ \A c, d \in Containers : {status[c], status[d]} = {"running"} => c = d
        /\ served => \E c \in Containers : status[c] = "running"

\* Whatever happened before, the state file is only ever pointed at a container
\* that passed its latest check; and if no container was down during the
\* invocation, that one is in service and the other does not run
\* (prod-build.sh:238-253, 279-289).
SavedIsActive ==
    [][state' # state =>
        /\ state'.current \in checked
        /\ shaken \/ \A c \in Containers :
                IF c = state'.current THEN InService(c) ELSE status[c] # "running"]_vars

(***************************************************************************)
(* What the script's own text says, and its code does not keep.            *)
(***************************************************************************)

\* "clients can reconnect" when a switch stops the old container
\* (prod-build.sh:13-14): a gateway that passed its check is there.
ClientsCanReconnect == served => \E c \in Containers : InService(c)
=============================================================================
