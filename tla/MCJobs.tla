--------------------------------- MODULE MCJobs ---------------------------------
(***************************************************************************)
(* Instance for TLC of DeadLetters and BroadcastQueue, whose requests and  *)
(* jobs must end.  They share no state, so a behaviour is one of one of    *)
(* them: part says which.                                                  *)
(***************************************************************************)
EXTENDS DeadLetters, BroadcastQueue

CONSTANTS j1, j2, j3
\* One long job among short ones.
OneLong == [j \in Job |-> IF j = j1 THEN 3 ELSE 1]

VARIABLE part

jobsVars == <<part, letterVars, vars>>

JobsInit == part \in {"letters", "broadcast"} /\ LettersInit /\ Init

JobsNext ==
  \/ part = "letters" /\ LettersNext /\ UNCHANGED <<part, vars>>
  \/ part = "broadcast" /\ Next /\ UNCHANGED <<part, letterVars>>

\* ReplayFairness and the fairness of FairSpec, each in its part.
JobsSpec ==
  /\ JobsInit /\ [][JobsNext]_jobsVars
  /\ \A r \in Request : WF_letterVars(/\ part = "letters"
                                      /\ \E ok \in BOOLEAN : OneAnswered(r, ok) \/ AllAnswered(r, ok))
  /\ WF_vars(part = "broadcast" /\ Tick)
  /\ \A j \in Job : WF_vars(part = "broadcast" /\ Step(j))

\* The variables of the two modules have their types.
JobsTypesOK == LettersTypeOK /\ BroadcastTypeOK

\* Nothing that was accepted is dropped for another reason than the ones the code has:
\* no letter from the buffer, no job from the map.
NothingVanishes == LeavesForAReason /\ RemovedForAReason

\* What was started ends: replays whatever happens to the buffer, jobs cancelled or not.
WorkEnds == ReplaysEnd /\ JobsEnd
=============================================================================
