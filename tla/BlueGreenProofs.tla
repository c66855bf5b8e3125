-------------------------- MODULE BlueGreenProofs --------------------------
(***************************************************************************)
(* Invariants of BlueGreen, proved for any number of invocations and       *)
(* crashes.                                                                *)
(***************************************************************************)
EXTENDS BlueGreen, TLAPS

-----------------------------------------------------------------------------
(***************************************************************************)
(* The inductive invariant.                                                *)
(***************************************************************************)

\* Only a deployment looks up the standby container in a step of its own.
Phase == pc = "standby" => op = "deploy"

\* From its health check on, the new container has passed.
Passed == pc \in {"disconnect", "rconnect", "stop", "save"} => new \in checked

Picked == {"clear", "rm", "run", "start"}

\* As long as no container is down during an invocation: what the script takes
\* for current is what podman lists, and the container to replace is the other,
LookedUp ==
    /\ pc \in {"standby"} \cup Picked => current = get_current_container
    /\ pc \in Picked => new = Other(current)

\* in the overlap it runs beside the current one, if there is one,
Beside ==
    pc \in Overlap =>
        /\ Listed(new)
        /\ current # new
        /\ IF current = None THEN ~Listed(Other(new)) ELSE Listed(current)

\* and when the current one is stopped it serves: it was connected, and has
\* passed its check.
TakenOver ==
    /\ pc = "health" => new \in net
    /\ pc \in {"stop", "save"} => InService(new)
    /\ pc = "save" => ~Listed(Other(new))

AllUp == \A c \in Containers : status[c] # "down"

Calm == pc # "idle" /\ ~shaken => AllUp /\ LookedUp /\ Beside /\ TakenOver

\* With nothing cut short, no second container runs outside the overlap, and
\* one does once a deployment has succeeded.
Single ==
    ~cut =>
        /\ AllUp
        /\ pc # "idle" => ~shaken
        /\ pc \notin Overlap => ~(Listed("blue") /\ Listed("green"))
        /\ served => IF pc \in Overlap THEN current # None
                     ELSE Listed("blue") \/ Listed("green")

\* With no wrong guess, the container taken for current serves until it is
\* stopped.
Serving ==
    ~fault =>
        /\ AllUp
        /\ pc # "idle" => ~shaken
        /\ served => \E c \in Containers : InService(c)
        /\ served /\ pc \in {"standby"} \cup Picked \cup Overlap =>
              current \in Containers /\ InService(current)

IInv == TypeOK /\ Phase /\ Passed /\ Calm /\ Single /\ Serving

-----------------------------------------------------------------------------
\* At the first invocation every variable has its type.
LEMMA TypeInit == Init => TypeOK
<1> SUFFICES ASSUME Init PROVE TypeOK
  OBVIOUS
<1> USE BlueGreenAssumption DEF Init, PCs, Chosen, Overlap, Containers, None
<1>1. /\ pc \in PCs /\ pc \notin Chosen
      /\ op \in {"deploy", "rollback"}
      /\ current \in Containers \cup {None} /\ new \in Containers \cup {None}
  OBVIOUS
<1>2. /\ status \in [Containers -> {"absent", "running", "down", "stopped"}]
      /\ net \subseteq Containers /\ checked \subseteq Containers
  OBVIOUS
<1>3. state \in [current : Containers \cup {None}, previous : Containers \cup {None},
                 count : Nat]
  OBVIOUS
<1>4. runs \in 0..MaxRuns /\ crashes \in 0..MaxCrashes
  OBVIOUS
<1>5. served \in BOOLEAN /\ shaken \in BOOLEAN /\ cut \in BOOLEAN /\ fault \in BOOLEAN
  BY Zenon
<1> QED
  BY <1>1, <1>2, <1>3, <1>4, <1>5, Zenon DEF TypeOK

\* Every command keeps the types and leads from one stage of its operation to the next.
LEMMA TypeStep == TypeOK /\ Phase /\ [Next]_vars => TypeOK' /\ Phase'
<1> SUFFICES ASSUME TypeOK, Phase, [Next]_vars PROVE TypeOK' /\ Phase'
  OBVIOUS
<1> USE BlueGreenAssumption DEF TypeOK, Phase, PCs, Chosen, Overlap, Containers, None, podman,
        script, history, Goto, Exit
<1>1. ASSUME NEW a \in {"deploy", "rollback"}, Invoke(a) PROVE TypeOK' /\ Phase'
  BY <1>1 DEF Invoke
<1>2. CASE Prepare
  BY <1>2 DEF Prepare
<1>3. CASE Abort
  BY <1>3 DEF Abort
<1>4. CASE PickCurrent
  BY <1>4 DEF PickCurrent, get_current_container
<1>5. CASE PickStandby
  BY <1>5 DEF PickStandby, get_standby_container, get_current_container, Other
<1>6. CASE StopStandby
  BY <1>6 DEF StopStandby
<1>7. CASE RemoveStandby
  <2>1. /\ pc = "rm" /\ pc' = "run"
        /\ UNCHANGED <<op, current, new, state, history, runs, crashes>>
    BY <1>7 DEF RemoveStandby
  <2>2. /\ status' \in [Containers -> {"absent", "running", "down", "stopped"}]
        /\ net' \subseteq Containers /\ checked' \subseteq Containers
    BY <1>7 DEF RemoveStandby
  <2> QED
    BY <2>1, <2>2
<1>8. CASE RunNew
  BY <1>8 DEF RunNew
<1>9. CASE RunFails
  BY <1>9 DEF RunFails
<1>10. CASE DeployHealthFails
  <2>1. /\ pc' = "idle" /\ cut' \in BOOLEAN
        /\ UNCHANGED <<op, current, new, state, served, shaken, fault, runs, crashes>>
    BY <1>10 DEF DeployHealthFails
  <2>2. /\ status' \in [Containers -> {"absent", "running", "down", "stopped"}]
        /\ net' \subseteq Containers /\ checked' \subseteq Containers
    BY <1>10 DEF DeployHealthFails
  <2> QED
    BY <2>1, <2>2
<1>11. CASE PickBoth
  BY <1>11 DEF PickBoth, get_current_container, Other
<1>12. CASE StartStandby
  BY <1>12 DEF StartStandby
<1>13. CASE RollbackHealthFails
  BY <1>13 DEF RollbackHealthFails
<1>14. CASE DisconnectStandby
  BY <1>14 DEF DisconnectStandby
<1>15. CASE ConnectNew
  BY <1>15 DEF ConnectNew
<1>16. CASE HealthPasses
  BY <1>16 DEF HealthPasses
<1>17. CASE StopCurrent
  BY <1>17 DEF StopCurrent
<1>18. CASE SaveState
  BY <1>18 DEF SaveState
<1>19. ASSUME NEW c \in Containers, Crash(c) \/ Restart(c) PROVE TypeOK' /\ Phase'
  <2>1. CASE Crash(c)
    BY <2>1 DEF Crash
  <2>2. CASE Restart(c)
    BY <2>2 DEF Restart
  <2> QED
    BY <1>19, <2>1, <2>2
<1>20. CASE UNCHANGED vars
  BY <1>20 DEF vars
<1> QED
  BY <1>1, <1>2, <1>3, <1>4, <1>5, <1>6, <1>7, <1>8, <1>9, <1>10, <1>11, <1>12, <1>13, <1>14,
     <1>15, <1>16, <1>17, <1>18, <1>19, <1>20 DEF Next, Deploy, Rollback

\* The container about to be taken into service stays a checked one.
LEMMA PassedStep == TypeOK /\ Passed /\ [Next]_vars => Passed'
<1> SUFFICES ASSUME TypeOK, Passed, [Next]_vars PROVE Passed'
  OBVIOUS
<1> USE DEF Passed, Goto, Exit, script, podman, history
<1>1. ASSUME NEW a \in {"deploy", "rollback"}, Invoke(a) PROVE Passed'
  BY <1>1 DEF Invoke
<1>2. CASE Prepare \/ Abort
  BY <1>2 DEF Prepare, Abort
<1>3. CASE Deploy
  BY <1>3 DEF Deploy, PickCurrent, PickStandby, StopStandby, RemoveStandby, RunNew, RunFails,
     DeployHealthFails
<1>4. CASE Rollback
  BY <1>4 DEF Rollback, PickBoth, StartStandby, RollbackHealthFails, DisconnectStandby
<1>5. CASE ConnectNew \/ HealthPasses
  BY <1>5 DEF ConnectNew, HealthPasses
<1>6. CASE StopCurrent \/ SaveState
  BY <1>6 DEF StopCurrent, SaveState
<1>7. ASSUME NEW c \in Containers, Crash(c) \/ Restart(c) PROVE Passed'
  BY <1>7 DEF Crash, Restart
<1>8. CASE UNCHANGED vars
  BY <1>8 DEF vars
<1> QED
  BY <1>1, <1>2, <1>3, <1>4, <1>5, <1>6, <1>7, <1>8 DEF Next

\* In an invocation with no container down each command keeps to the picture.
LEMMA CalmStep == TypeOK /\ Passed /\ Calm /\ [Next]_vars => Calm'
<1> SUFFICES ASSUME TypeOK, Passed, Calm, [Next]_vars PROVE Calm'
  OBVIOUS
<1> USE DEF TypeOK, Passed, Calm, AllUp, LookedUp, Beside, TakenOver, Picked, InService, Listed,
        Containers, None, PCs, Chosen, Overlap, CutShort, Goto, Exit, script, podman, history,
        get_current_container, Other
<1>1. ASSUME NEW a \in {"deploy", "rollback"}, Invoke(a) PROVE Calm'
  BY <1>1 DEF Invoke
<1>2. CASE Prepare
  BY <1>2 DEF Prepare
<1>3. CASE Abort
  BY <1>3 DEF Abort
<1>4. CASE PickCurrent
  BY <1>4 DEF PickCurrent
<1>5. CASE PickStandby
  BY <1>5 DEF PickStandby, get_standby_container
<1>6. CASE StopStandby
  BY <1>6 DEF StopStandby
<1>7. CASE RemoveStandby
  BY <1>7 DEF RemoveStandby
<1>8. CASE RunNew
  BY <1>8 DEF RunNew
<1>9. CASE RunFails
  BY <1>9 DEF RunFails
<1>10. CASE DeployHealthFails
  BY <1>10 DEF DeployHealthFails
<1>11. CASE PickBoth
  BY <1>11 DEF PickBoth
<1>12. CASE StartStandby
  BY <1>12 DEF StartStandby
<1>13. CASE RollbackHealthFails
  BY <1>13 DEF RollbackHealthFails
<1>14. CASE DisconnectStandby
  BY <1>14 DEF DisconnectStandby
<1>15. CASE ConnectNew
  BY <1>15 DEF ConnectNew
<1>16. CASE HealthPasses
  BY <1>16 DEF HealthPasses
<1>17. CASE StopCurrent
  BY <1>17 DEF StopCurrent
<1>18. CASE SaveState
  BY <1>18 DEF SaveState
<1>19. ASSUME NEW c \in Containers, Crash(c) \/ Restart(c) PROVE Calm'
  BY <1>19 DEF Crash, Restart
<1>20. CASE UNCHANGED vars
  BY <1>20 DEF vars
<1> QED
  BY <1>1, <1>2, <1>3, <1>4, <1>5, <1>6, <1>7, <1>8, <1>9, <1>10, <1>11, <1>12, <1>13, <1>14,
     <1>15, <1>16, <1>17, <1>18, <1>19, <1>20 DEF Next, Deploy, Rollback

\* No command but one that is cut short leaves a second container.
LEMMA SingleStep == TypeOK /\ Passed /\ Calm /\ Single /\ [Next]_vars => Single'
<1> SUFFICES ASSUME TypeOK, Passed, Calm, Single, [Next]_vars PROVE Single'
  OBVIOUS
<1> USE DEF TypeOK, Passed, Calm, Single, AllUp, LookedUp, Beside, TakenOver,
            Picked, InService, Listed, Containers, None, PCs, Chosen, Overlap,
            CutShort, Goto, Exit, script, podman, history, get_current_container,
            Other
<1>1. ASSUME NEW a \in {"deploy", "rollback"}, Invoke(a) PROVE Single'
  BY <1>1 DEF Invoke
<1>2. CASE Prepare
  BY <1>2 DEF Prepare
<1>3. CASE Abort
  BY <1>3 DEF Abort
<1>4. CASE PickCurrent
  BY <1>4 DEF PickCurrent
<1>5. CASE PickStandby
  BY <1>5 DEF PickStandby, get_standby_container
<1>6. CASE StopStandby
  BY <1>6 DEF StopStandby
<1>7. CASE RemoveStandby
  BY <1>7 DEF RemoveStandby
<1>8. CASE RunNew
  BY <1>8 DEF RunNew
<1>9. CASE RunFails
  BY <1>9 DEF RunFails
<1>10. CASE DeployHealthFails
  BY <1>10 DEF DeployHealthFails
<1>11. CASE PickBoth
  BY <1>11 DEF PickBoth
<1>12. CASE StartStandby
  BY <1>12 DEF StartStandby
<1>13. CASE RollbackHealthFails
  BY <1>13 DEF RollbackHealthFails
<1>14. CASE DisconnectStandby
  BY <1>14 DEF DisconnectStandby
<1>15. CASE ConnectNew
  BY <1>15 DEF ConnectNew
<1>16. CASE HealthPasses
  BY <1>16 DEF HealthPasses
<1>17. CASE StopCurrent
  BY <1>17 DEF StopCurrent
<1>18. CASE SaveState
  BY <1>18 DEF SaveState
<1>19. ASSUME NEW c \in Containers, Crash(c) \/ Restart(c) PROVE Single'
  BY <1>19 DEF Crash, Restart
<1>20. CASE UNCHANGED vars
  BY <1>20 DEF vars
<1> QED
  BY <1>1, <1>2, <1>3, <1>4, <1>5, <1>6, <1>7, <1>8, <1>9, <1>10, <1>11, <1>12, <1>13, <1>14,
     <1>15, <1>16, <1>17, <1>18, <1>19, <1>20 DEF Next, Deploy, Rollback

\* As long as the guess is right the current container serves until the new one does.
LEMMA ServingStep == TypeOK /\ Passed /\ Calm /\ Serving /\ [Next]_vars => Serving'
<1> SUFFICES ASSUME TypeOK, Passed, Calm, Serving, [Next]_vars PROVE Serving'
  OBVIOUS
<1> USE DEF TypeOK, Passed, Calm, Serving, AllUp, LookedUp, Beside, TakenOver,
            Picked, InService, Listed, Containers, None, PCs, Chosen, Overlap,
            CutShort, Goto, Exit, script, podman, history, get_current_container,
            Other, WrongGuess
<1>1. ASSUME NEW a \in {"deploy", "rollback"}, Invoke(a) PROVE Serving'
  BY <1>1 DEF Invoke
<1>2. CASE Prepare
  BY <1>2 DEF Prepare
<1>3. CASE Abort
  BY <1>3 DEF Abort
<1>4. CASE PickCurrent
  BY <1>4 DEF PickCurrent
<1>5. CASE PickStandby
  BY <1>5 DEF PickStandby, get_standby_container
<1>6. CASE StopStandby
  BY <1>6 DEF StopStandby
<1>7. CASE RemoveStandby
  BY <1>7 DEF RemoveStandby
<1>8. CASE RunNew
  BY <1>8 DEF RunNew
<1>9. CASE RunFails
  BY <1>9 DEF RunFails
<1>10. CASE DeployHealthFails
  BY <1>10 DEF DeployHealthFails
<1>11. CASE PickBoth
  BY <1>11 DEF PickBoth
<1>12. CASE StartStandby
  BY <1>12 DEF StartStandby
<1>13. CASE RollbackHealthFails
  BY <1>13 DEF RollbackHealthFails
<1>14. CASE DisconnectStandby
  BY <1>14 DEF DisconnectStandby
<1>15. CASE ConnectNew
  BY <1>15 DEF ConnectNew
<1>16. CASE HealthPasses
  BY <1>16 DEF HealthPasses
<1>17. CASE StopCurrent
  BY <1>17 DEF StopCurrent
<1>18. CASE SaveState
  BY <1>18 DEF SaveState
<1>19. ASSUME NEW c \in Containers, Crash(c) \/ Restart(c) PROVE Serving'
  BY <1>19 DEF Crash, Restart
<1>20. CASE UNCHANGED vars
  BY <1>20 DEF vars
<1> QED
  BY <1>1, <1>2, <1>3, <1>4, <1>5, <1>6, <1>7, <1>8, <1>9, <1>10, <1>11, <1>12, <1>13, <1>14,
     <1>15, <1>16, <1>17, <1>18, <1>19, <1>20 DEF Next, Deploy, Rollback

\* The inductive invariant holds in every reachable state.
LEMMA Inductive == Spec => []IInv
<1>1. Init => IInv
  <2>1. Init => Phase /\ Passed
    BY DEF Init, Phase, Passed
  <2>2. Init => Calm /\ Single /\ Serving
    BY DEF Init, Calm, Single, Serving, AllUp, Picked, Overlap, Listed, Containers
  <2> QED
    BY <2>1, <2>2, TypeInit DEF IInv
<1>2. IInv /\ [Next]_vars => IInv'
  BY TypeStep, PassedStep, CalmStep, SingleStep, ServingStep DEF IInv
<1> QED
  BY <1>1, <1>2, PTL DEF Spec

-----------------------------------------------------------------------------
(***************************************************************************)
(* The theorems.                                                           *)
(***************************************************************************)

\* The script's variables and its control point fit together: once a container
\* is chosen there is one to act on (prod-build.sh:201-289).
THEOREM TypeCorrect == Spec => []TypeOK
  BY Inductive, PTL DEF IInv

\* Unless a container crashed or the wrong one was taken for current, a gateway
\* that passed its check is in service from the first deployment on
\* (prod-build.sh:94-113, 201-251, 268-288).
THEOREM NoOutageEver == Spec => []NoOutage
<1>1. IInv => NoOutage
  BY DEF IInv, Serving, NoOutage
<1> QED
  BY Inductive, <1>1, PTL

\* Unless one crashed or an invocation was cut short, exactly one container runs
\* between invocations (prod-build.sh:206-209, 238-251, 287-288).
THEOREM OneIsActive == Spec => []OneActive
<1>1. IInv => OneActive
  BY DEF IInv, Single, OneActive, Overlap, Listed, Containers
<1> QED
  BY Inductive, <1>1, PTL

\* The state file is only ever pointed at a container that passed its latest
\* check, and by an undisturbed invocation at the one that serves
\* (prod-build.sh:238-253, 279-289).
THEOREM SavedServes == Spec => SavedIsActive
<1> DEFINE Good == /\ state'.current \in checked
                   /\ shaken \/ \A c \in Containers :
                        IF c = state'.current THEN InService(c) ELSE status[c] # "running"
<1>1. IInv /\ [Next]_vars => [state' # state => Good]_vars
  <2> SUFFICES ASSUME IInv, Next, state' # state PROVE Good
    OBVIOUS
  <2>1. SaveState
    BY DEF Next, Invoke, Prepare, Abort, Deploy, Rollback, PickCurrent, PickStandby, StopStandby,
       RemoveStandby, RunNew, RunFails, DeployHealthFails, PickBoth, StartStandby,
       RollbackHealthFails, DisconnectStandby, ConnectNew, HealthPasses, StopCurrent, Crash,
       Restart
  <2>2. pc = "save" /\ state'.current = new
    BY <2>1 DEF SaveState
  <2>3. new \in Containers /\ new \in checked
    BY <2>2 DEF IInv, TypeOK, Passed, Chosen
  <2>4. ASSUME ~shaken, NEW c \in Containers
        PROVE  IF c = new THEN InService(c) ELSE status[c] # "running"
    <3>1. InService(new) /\ ~Listed(Other(new))
      BY <2>2, <2>4 DEF IInv, Calm, TakenOver
    <3>2. c # new => c = Other(new)
      BY <2>3 DEF Containers, Other
    <3> QED
      BY <3>1, <3>2 DEF Listed
  <2> QED
    BY <2>2, <2>3, <2>4
<1> QED
  BY Inductive, <1>1, PTL DEF Spec, SavedIsActive
=============================================================================
