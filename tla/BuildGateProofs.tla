---------------------------- MODULE BuildGateProofs ----------------------------
(***************************************************************************)
(* What TLAPS proves of BuildGate for any number of builds, kills and      *)
(* refusals to die: its types and the safety properties that its run       *)
(* checks.  A build that works is one whose holder keeps the flock, unless *)
(* a deadline, a kill or a process that would not die excuses it; and the  *)
(* flock is kept only by processes that live.                              *)
(***************************************************************************)
EXTENDS BuildGate, TLAPS

\* The holder has the descriptor open, and the flock has not gone back.
Held(b) == "holder" \in open[b] /\ lock = b

Excused == timedOut \cup escaped

\* Until a holder is started there is none, and the flock is the wrapper's.
Opening(b) ==
    /\ wrapper[b] \in {"queued", "publish", "spawn"} => holder[b] = "none"
    /\ wrapper[b] \in {"publish", "spawn"} => "wrapper" \in open[b] /\ lock = b

\* A holder keeps the flock while its command runs, and until that is dead.
Guarding(b) ==
    /\ holder[b] \in {"none", "start", "ready"} => tree[b] = {}
    /\ holder[b] \in {"start", "ready", "commandReady", "running"} => Held(b)
    /\ Working(b) /\ b \notin Excused =>
         Held(b) /\ holder[b] \in {"commandReady", "running", "terminate", "error"}

\* A descriptor is open in a process that lives, and the flock in a descriptor.
Living(b) ==
    /\ "wrapper" \in open[b] => wrapper[b] \notin {"queued", "status", "done"}
    /\ "holder" \in open[b] => HolderAlive(b)
    /\ lock = b => open[b] # {}

GateInv == \A b \in Builds : Opening(b) /\ Guarding(b) /\ Living(b)

Local(b) == Opening(b) /\ Guarding(b) /\ Living(b)

-----------------------------------------------------------------------------
(* Types.                                                                  *)

\* What closing a descriptor and unlocking do.
LEMMA ClosingKeeps ==
  ASSUME TypeOK, NEW b \in Builds, NEW who \in {"wrapper", "holder"}, Closes(b, who)
  PROVE  /\ lock' \in Builds \cup {Nobody}
         /\ open' \in [Builds -> SUBSET {"wrapper", "holder"}]
  BY DEF TypeOK, Closes

LEMMA UnlockingKeeps ==
  ASSUME TypeOK, NEW b \in Builds, Unlock(b)
  PROVE  /\ lock' \in Builds \cup {Nobody}
         /\ open' \in [Builds -> SUBSET {"wrapper", "holder"}]
  BY DEF TypeOK, Unlock

LEMMA WrapperTypes ==
  ASSUME TypeOK, NEW b \in Builds, WrapperStep(b) \/ WrapperDies(b)
  PROVE  TypeOK'
  <1>. USE DEF TypeOK, Wrappers, Holders, Moves, Fills
  <1>1. CASE Take(b)
    BY <1>1 DEF Take
  <1>2. CASE Publish(b)
    BY <1>2 DEF Publish
  <1>3. CASE StartHolder(b)
    BY <1>3, ClosingKeeps DEF StartHolder
  <1>4. CASE SeeStarted(b)
    BY <1>4 DEF SeeStarted
  <1>5. CASE SeePid(b)
    BY <1>5, ClosingKeeps DEF SeePid
  <1>6. CASE SeeStatus(b)
    BY <1>6 DEF SeeStatus
  <1>7. CASE GiveUp(b)
    BY <1>7 DEF GiveUp
  <1>8. CASE Stopped(b)
    BY <1>8, ClosingKeeps DEF Stopped
  <1>9. CASE WrapperDies(b)
    BY <1>9, ClosingKeeps, GateAssumption DEF WrapperDies, Fault
  <1>. QED
    BY <1>1, <1>2, <1>3, <1>4, <1>5, <1>6, <1>7, <1>8, <1>9 DEF WrapperStep

LEMMA HolderTypes ==
  ASSUME TypeOK, NEW b \in Builds,
         HolderStep(b) \/ HolderDies(b) \/ AgentGroupEnds(b) \/ Fork(b) \/ Exit(b)
  PROVE  TypeOK'
  <1>. USE DEF TypeOK, Wrappers, Holders, Goes, Fills
  <1>1. CASE Start(b)
    BY <1>1 DEF Start
  <1>2. CASE Launch(b)
    BY <1>2 DEF Launch
  <1>3. CASE Go(b)
    BY <1>3 DEF Go
  <1>4. CASE Abandoned(b)
    BY <1>4 DEF Abandoned
  <1>5. CASE Watch(b)
    BY <1>5, UnlockingKeeps DEF Watch
  <1>6. CASE Check(b)
    BY <1>6 DEF Check, After
  <1>7. CASE Unlink(b)
    BY <1>7 DEF Unlink, After
  <1>8. CASE Terminate(b)
    BY <1>8, GateAssumption DEF Terminate, Terminated, Owned, Fault
  <1>9. CASE ReleaseLease(b)
    BY <1>9, UnlockingKeeps DEF ReleaseLease
  <1>10. CASE Acknowledged(b)
    BY <1>10 DEF Acknowledged
  <1>11. CASE Retain(b)
    BY <1>11, UnlockingKeeps DEF Retain
  <1>12. CASE Finish(b)
    BY <1>12 DEF Finish
  <1>13. CASE CleanUp(b)
    BY <1>13, ClosingKeeps DEF CleanUp
  <1>14. CASE HolderDies(b)
    BY <1>14, ClosingKeeps, GateAssumption DEF HolderDies, Fault
  <1>15. CASE AgentGroupEnds(b)
    BY <1>15 DEF AgentGroupEnds
  <1>16. CASE Fork(b)
    BY <1>16 DEF Fork
  <1>17. CASE Exit(b)
    BY <1>17 DEF Exit
  <1>. QED
    BY <1>1, <1>2, <1>3, <1>4, <1>5, <1>6, <1>7, <1>8, <1>9, <1>10, <1>11, <1>12, <1>13,
       <1>14, <1>15, <1>16, <1>17
       DEF HolderStep

\* Every reachable state is well-typed.
THEOREM TypeCorrect == Spec => []TypeOK
  <1>1. Init => TypeOK
    BY GateAssumption DEF Init, TypeOK, Wrappers, Holders
  <1>2. TypeOK /\ [Next]_vars => TypeOK'
    <2>. SUFFICES ASSUME TypeOK, [Next]_vars PROVE TypeOK'
      OBVIOUS
    <2>1. CASE Scan
      BY <2>1 DEF Scan, TypeOK
    <2>2. CASE UNCHANGED vars
      BY <2>2 DEF vars, TypeOK
    <2>. QED  BY <2>1, <2>2, WrapperTypes, HolderTypes DEF Next
  <1>. QED  BY <1>1, <1>2, PTL DEF Spec

-----------------------------------------------------------------------------
(* Builds share the flock and nothing else.                                *)

\* The step leaves c as it was.
Apart(c) ==
    /\ wrapper'[c] = wrapper[c] /\ holder'[c] = holder[c]
    /\ open'[c] = open[c] /\ tree'[c] = tree[c]
    /\ c \in Excused => c \in Excused'
    /\ lock' = c <=> lock = c

LEMMA ApartKeeps ==
  ASSUME NEW c, Local(c), Apart(c)
  PROVE  Local(c)'
  BY DEF Local, Opening, Guarding, Living, Apart, Held, Working, HolderAlive, Excused

\* What another build does to the flock, it does to its own.
LEMMA ClosingIsApart ==
  ASSUME TypeOK, NEW b \in Builds, NEW c \in Builds, b # c,
         Unlock(b) \/ (\E who \in {"wrapper", "holder"} : Closes(b, who))
  PROVE  open'[c] = open[c] /\ (lock' = c <=> lock = c)
  BY GateAssumption DEF TypeOK, Unlock, Closes

LEMMA WrapperIsApart ==
  ASSUME TypeOK, NEW b \in Builds, NEW c \in Builds, b # c, WrapperStep(b) \/ WrapperDies(b)
  PROVE  Apart(c)
  <1>. USE GateAssumption DEF TypeOK, Moves, Fills, Apart, Excused
  <1>1. CASE Take(b)
    BY <1>1 DEF Take
  <1>2. CASE Publish(b)
    BY <1>2 DEF Publish
  <1>3. CASE StartHolder(b)
    BY <1>3, ClosingIsApart DEF StartHolder
  <1>4. CASE SeeStarted(b)
    BY <1>4 DEF SeeStarted
  <1>5. CASE SeePid(b)
    BY <1>5, ClosingIsApart DEF SeePid
  <1>6. CASE SeeStatus(b)
    BY <1>6 DEF SeeStatus
  <1>7. CASE GiveUp(b)
    BY <1>7 DEF GiveUp
  <1>8. CASE Stopped(b)
    BY <1>8, ClosingIsApart DEF Stopped
  <1>9. CASE WrapperDies(b)
    BY <1>9, ClosingIsApart DEF WrapperDies
  <1>. QED
    BY <1>1, <1>2, <1>3, <1>4, <1>5, <1>6, <1>7, <1>8, <1>9 DEF WrapperStep

LEMMA HolderIsApart ==
  ASSUME TypeOK, NEW b \in Builds, NEW c \in Builds, b # c,
         HolderStep(b) \/ HolderDies(b) \/ AgentGroupEnds(b) \/ Fork(b) \/ Exit(b)
  PROVE  Apart(c)
  <1>. USE GateAssumption DEF TypeOK, Goes, Fills, Apart, Excused
  <1>1. CASE Start(b)
    BY <1>1 DEF Start
  <1>2. CASE Launch(b)
    BY <1>2 DEF Launch
  <1>3. CASE Go(b)
    BY <1>3 DEF Go
  <1>4. CASE Abandoned(b)
    BY <1>4 DEF Abandoned
  <1>5. CASE Watch(b)
    BY <1>5, ClosingIsApart DEF Watch
  <1>6. CASE Check(b)
    BY <1>6 DEF Check
  <1>7. CASE Unlink(b)
    BY <1>7 DEF Unlink
  <1>8. CASE Terminate(b)
    BY <1>8 DEF Terminate, Terminated
  <1>9. CASE ReleaseLease(b)
    BY <1>9, ClosingIsApart DEF ReleaseLease
  <1>10. CASE Acknowledged(b)
    BY <1>10 DEF Acknowledged
  <1>11. CASE Retain(b)
    BY <1>11, ClosingIsApart DEF Retain
  <1>12. CASE Finish(b)
    BY <1>12 DEF Finish
  <1>13. CASE CleanUp(b)
    BY <1>13, ClosingIsApart DEF CleanUp
  <1>14. CASE HolderDies(b)
    BY <1>14, ClosingIsApart DEF HolderDies
  <1>15. CASE AgentGroupEnds(b)
    BY <1>15 DEF AgentGroupEnds
  <1>16. CASE Fork(b)
    BY <1>16 DEF Fork
  <1>17. CASE Exit(b)
    BY <1>17 DEF Exit
  <1>. QED
    BY <1>1, <1>2, <1>3, <1>4, <1>5, <1>6, <1>7, <1>8, <1>9, <1>10, <1>11, <1>12, <1>13,
       <1>14, <1>15, <1>16, <1>17
       DEF HolderStep

-----------------------------------------------------------------------------
(* One build's own steps.                                                  *)

\* The descriptor that the step closed is closed, and the flock stays with the
\* one that is open.
LEMMA ClosesOwn ==
  ASSUME TypeOK, NEW b \in Builds, NEW who \in {"wrapper", "holder"}, Closes(b, who)
  PROVE  /\ open'[b] = open[b] \ {who}
         /\ lock' = b <=> lock = b /\ open'[b] # {}
  BY GateAssumption DEF TypeOK, Closes

LEMMA UnlocksOwn ==
  ASSUME TypeOK, NEW b \in Builds, Unlock(b)
  PROVE  open'[b] = open[b] \ {"holder"} /\ lock' # b
  BY GateAssumption DEF TypeOK, Unlock

LEMMA WrapperLocal ==
  ASSUME TypeOK, NEW b \in Builds, Local(b), WrapperStep(b) \/ WrapperDies(b)
  PROVE  Local(b)'
  <1>. USE DEF TypeOK, Moves, Fills, Local, Opening, Guarding, Living, Held, Working,
               HolderAlive, Excused
  <1>1. CASE Take(b)
    BY <1>1 DEF Take
  <1>2. CASE Publish(b)
    BY <1>2 DEF Publish
  <1>3. CASE StartHolder(b)
    BY <1>3, ClosesOwn DEF StartHolder
  <1>4. CASE SeeStarted(b)
    BY <1>4 DEF SeeStarted
  <1>5. CASE SeePid(b)
    BY <1>5, ClosesOwn DEF SeePid
  <1>6. CASE SeeStatus(b)
    BY <1>6 DEF SeeStatus
  <1>7. CASE GiveUp(b)
    BY <1>7 DEF GiveUp
  <1>8. CASE Stopped(b)
    BY <1>8, ClosesOwn DEF Stopped
  <1>9. CASE WrapperDies(b)
    BY <1>9, ClosesOwn DEF WrapperDies
  <1>. QED
    BY <1>1, <1>2, <1>3, <1>4, <1>5, <1>6, <1>7, <1>8, <1>9 DEF WrapperStep

LEMMA HolderLocal ==
  ASSUME TypeOK, NEW b \in Builds, Local(b),
         HolderStep(b) \/ HolderDies(b) \/ AgentGroupEnds(b) \/ Fork(b) \/ Exit(b)
  PROVE  Local(b)'
  <1>. USE DEF TypeOK, Goes, Fills, Local, Opening, Guarding, Living, Held, Working,
               HolderAlive, Excused
  <1>1. CASE Start(b)
    BY <1>1 DEF Start
  <1>2. CASE Launch(b)
    BY <1>2 DEF Launch
  <1>3. CASE Go(b)
    BY <1>3 DEF Go
  <1>4. CASE Abandoned(b)
    BY <1>4 DEF Abandoned
  <1>5. CASE Watch(b)
    BY <1>5, UnlocksOwn DEF Watch
  <1>6. CASE Check(b)
    BY <1>6 DEF Check, After
  <1>7. CASE Unlink(b)
    BY <1>7 DEF Unlink, After
  <1>8. CASE Terminate(b)
    BY <1>8 DEF Terminate, Terminated, Owned
  <1>9. CASE ReleaseLease(b)
    BY <1>9, UnlocksOwn DEF ReleaseLease
  <1>10. CASE Acknowledged(b)
    BY <1>10 DEF Acknowledged
  <1>11. CASE Retain(b)
    BY <1>11, UnlocksOwn DEF Retain
  <1>12. CASE Finish(b)
    BY <1>12 DEF Finish
  <1>13. CASE CleanUp(b)
    BY <1>13, ClosesOwn DEF CleanUp
  <1>14. CASE HolderDies(b)
    BY <1>14, ClosesOwn DEF HolderDies
  <1>15. CASE AgentGroupEnds(b)
    BY <1>15 DEF AgentGroupEnds
  <1>16. CASE Fork(b)
    BY <1>16 DEF Fork
  <1>17. CASE Exit(b)
    BY <1>17 DEF Exit
  <1>. QED
    BY <1>1, <1>2, <1>3, <1>4, <1>5, <1>6, <1>7, <1>8, <1>9, <1>10, <1>11, <1>12, <1>13,
       <1>14, <1>15, <1>16, <1>17
       DEF HolderStep

-----------------------------------------------------------------------------
(* The theorems.                                                           *)

\* The inductive invariant: a holder keeps the flock until its command is dead
\* or the slot went back for a reason, and dead processes keep nothing.
THEOREM GateCorrect == Spec => [](TypeOK /\ GateInv)
  <1>1. Init => TypeOK /\ GateInv
    BY GateAssumption DEF Init, TypeOK, Wrappers, Holders, GateInv, Opening, Guarding, Living, Working
  <1>2. GateInv /\ TypeOK /\ [Next]_vars => GateInv'
    <2>. SUFFICES ASSUME GateInv, TypeOK, [Next]_vars, NEW c \in Builds PROVE Local(c)'
      BY DEF GateInv, Local
    <2>1. Local(c)
      BY DEF GateInv, Local
    <2>2. ASSUME NEW b \in Builds, WrapperStep(b) \/ WrapperDies(b) PROVE Local(c)'
      <3>1. CASE b = c
        BY <2>1, <2>2, <3>1, WrapperLocal
      <3>2. CASE b # c
        BY <2>1, <2>2, <3>2, WrapperIsApart, ApartKeeps
      <3>. QED  BY <3>1, <3>2
    <2>3. ASSUME NEW b \in Builds,
                 HolderStep(b) \/ HolderDies(b) \/ AgentGroupEnds(b) \/ Fork(b) \/ Exit(b)
          PROVE  Local(c)'
      <3>1. CASE b = c
        BY <2>1, <2>3, <3>1, HolderLocal
      <3>2. CASE b # c
        BY <2>1, <2>3, <3>2, HolderIsApart, ApartKeeps
      <3>. QED  BY <3>1, <3>2
    <2>4. CASE Scan \/ UNCHANGED vars
      <3>1. Apart(c)
        BY <2>4 DEF Scan, vars, Apart, Excused
      <3>. QED  BY <2>1, <3>1, ApartKeeps
    <2>. QED  BY <2>2, <2>3, <2>4 DEF Next
  <1>. QED  BY <1>1, <1>2, TypeCorrect, PTL DEF Spec

\* Builds work one at a time, unless a deadline gave the slot of one away, or
\* its holder was killed or could not kill it.
THEOREM OneBuild == Spec => []OneBuildAtATime
  <1>1. GateInv => OneBuildAtATime
    BY DEF GateInv, Guarding, Held, Excused, OneBuildAtATime
  <1>. QED  BY <1>1, GateCorrect, PTL

\* The slot is held by a wrapper that still waits or by a holder that lives:
\* nothing that is dead keeps it from the next build.
SlotIsKept == lock # Nobody => WrapperAlive(lock) \/ HolderAlive(lock)
THEOREM TheLivingKeepTheSlot == Spec => []SlotIsKept
  <1>1. TypeOK /\ GateInv => SlotIsKept
    BY DEF TypeOK, GateInv, Living, SlotIsKept, WrapperAlive
  <1>. QED  BY <1>1, GateCorrect, PTL

\* No step of anyone removes an adopted session daemon.
THEOREM DaemonsAreSpared == Spec => DaemonSpared
  <1>1. TypeOK /\ GateInv /\ [Next]_vars =>
          [\A b \in Builds : "daemon" \in tree[b] => "daemon" \in tree'[b]]_vars
    <2>. SUFFICES ASSUME TypeOK, GateInv, [Next]_vars, NEW c \in Builds, "daemon" \in tree[c]
                  PROVE  "daemon" \in tree'[c]
      OBVIOUS
    <2>. USE DEF TypeOK
    <2>1. ASSUME NEW b \in Builds, WrapperStep(b) \/ WrapperDies(b) PROVE tree' = tree
      BY <2>1 DEF WrapperStep, Take, Publish, StartHolder, SeeStarted, SeePid, SeeStatus,
                  GiveUp, Stopped, WrapperDies
    <2>2. ASSUME NEW b \in Builds, Launch(b) PROVE "daemon" \in tree'[c]
      <3>1. b # c \/ tree' = tree
        BY <2>2 DEF Launch, Goes, GateInv, Guarding
      <3>. QED  BY <2>2, <3>1 DEF Launch
    <2>3. ASSUME NEW b \in Builds, Terminate(b) PROVE "daemon" \in tree'[c]
      BY <2>3 DEF Terminate, Terminated, Owned
    <2>4. ASSUME NEW b \in Builds, Fork(b) \/ Exit(b) PROVE "daemon" \in tree'[c]
      BY <2>4 DEF Fork, Exit
    <2>5. ASSUME NEW b \in Builds, HolderStep(b) \/ HolderDies(b) \/ AgentGroupEnds(b),
                 ~Launch(b), ~Terminate(b)
          PROVE  tree' = tree
      BY <2>5 DEF HolderStep, Start, Go, Abandoned, Watch, Check, Unlink, ReleaseLease,
                  Acknowledged, Retain, Finish, CleanUp, HolderDies, AgentGroupEnds
    <2>6. CASE Scan \/ UNCHANGED vars
      BY <2>6 DEF Scan, vars
    <2>. QED  BY <2>1, <2>2, <2>3, <2>4, <2>5, <2>6 DEF Next
  <1>. QED  BY <1>1, GateCorrect, PTL DEF Spec, DaemonSpared
=============================================================================
