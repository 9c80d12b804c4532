---------------------------- MODULE DaemonProofs ----------------------------
(* Theorems about DaemonLifecycle for any operators, observers and daemons. *)
(* Only LockExcludes is about the lock file: what operations promise does   *)
(* not rest on it, since it excludes only while no living one is removed.   *)
EXTENDS DaemonLifecycle, TLAPS

BeforeSpawn == LockSteps \cup StopSteps \cup {"read", "check", "health", "clean", "spawn"}
AfterSpawn  == StartSteps \ {"spawn"}
Judging     == StopSteps \cup {"check", "health", "clean"}

\* Where the callers of the three operations may be, and what they hold there.
Roles ==
    /\ \A s \in Observers : /\ pc[s] \in {"idle", "read", "check", "health", "clean"}
                            /\ pc[s] # "idle" => kind[s] = "status"
    /\ \A o \in Operators : kind[o] # "status" /\ (pc[o] # "idle" => kind[o] # "none")
    /\ \A o \in Actors :
          /\ pc[o] \in StartSteps => kind[o] = "start"
          /\ pc[o] \in StopSteps => kind[o] = "stop"
          /\ pc[o] = "health" => kind[o] # "stop"
          /\ pc[o] = "create" => attempt[o] < 2
          /\ pc[o] \in Judging \/ answer[o] = "stopped" => info[o] # Absent
          /\ pc[o] \in BeforeSpawn => mine[o] = Absent
          /\ pc[o] \in AfterSpawn => mine[o] # Absent
          /\ pc[o] \in BeforeSpawn \cup AfterSpawn => answer[o] = "none"

\* Nobody knows of a daemon that was not spawned yet.
Fresh ==
    \A d \in Children : child[d] = "unborn" =>
        /\ d # pidFile /\ d # told /\ d # port /\ d \notin misfired
        /\ \A o \in Actors : d # info[o] /\ d # mine[o]

\* Each daemon was spawned by one Start.
OwnChildren == \A o, q \in Actors : mine[o] = mine[q] /\ mine[o] # Absent => o = q

\* Before its pid file is written, no operation has come to know a child.
Unrecorded ==
    \A o \in Actors : pc[o] = "record" =>
        mine[o] # pidFile /\ mine[o] \notin misfired /\ \A q \in Actors : mine[o] # info[q]

\* A Stop at its signals has the process that was recorded, if the record tells.
SignalsItsOwn ==
    \A o \in Actors :
        pc[o] \in StopSteps /\ info[o] \in identified => child[info[o]] # "reused"

\* What a failing Start has taken back when it kills its child.
TakesBack == \A o \in Actors : pc[o] = "abort" => mine[o] # pidFile

\* What a Stop knows when it removes the pid file.
StopsDead == \A o \in Actors : pc[o] = "clean" /\ kind[o] = "stop" => ~Running(info[o])

IInv ==
    /\ TypeOK /\ Roles /\ Fresh /\ OwnChildren /\ Unrecorded
    /\ SignalsItsOwn /\ IdentityProtects
    /\ TakesBack /\ FailedStartLeavesNothing
    /\ StopsDead /\ StoppedIsGone

-----------------------------------------------------------------------------

USE DEF files, rest, world, locals, ghosts

LEMMA ActorsAre ==
    /\ \A o \in Operators : o \in Actors /\ o \notin Observers
    /\ \A s \in Observers : s \in Actors /\ s \notin Operators
    /\ \A o \in Actors : o \in Operators \/ o \in Observers
  BY DaemonAssumption DEF Actors

LockFile == [by : Operators \cup {Absent, Dead}, stamped : BOOLEAN]

LEMMA LockFiles ==
    /\ NoLock \in LockFile /\ [by |-> Dead, stamped |-> TRUE] \in LockFile
    /\ \A o \in Operators : [by |-> o, stamped |-> FALSE] \in LockFile
    /\ \A f \in LockFile, b \in BOOLEAN : [f EXCEPT !.stamped = b] \in LockFile
  BY DEF NoLock, LockFile

LEMMA InitInv == Init => IInv
<1> SUFFICES ASSUME Init PROVE IInv
  OBVIOUS
<1> USE DaemonAssumption
<1>1. TypeOK
  <2>1. lockFile \in LockFile
    BY LockFiles DEF Init
  <2>2. child \in [Children -> ChildStates] /\ port \in Children \cup {Free, Foreign}
    BY DEF Init, ChildStates
  <2> QED
    BY <2>1, <2>2 DEF Init, TypeOK, LockFile, Inside, Answers
<1>2. Roles
  BY ActorsAre DEF Init, Roles, Judging, BeforeSpawn, AfterSpawn, StartSteps, StopSteps, LockSteps
<1>3. Fresh /\ OwnChildren /\ Unrecorded
  BY DEF Init, Fresh, OwnChildren, Unrecorded
<1>4. SignalsItsOwn /\ IdentityProtects
  BY DEF Init, SignalsItsOwn, IdentityProtects, StopSteps
<1>5. TakesBack /\ FailedStartLeavesNothing /\ StopsDead /\ StoppedIsGone
  BY ActorsAre DEF Init, TakesBack, FailedStartLeavesNothing, StopsDead, StoppedIsGone
<1> QED
  BY <1>1, <1>2, <1>3, <1>4, <1>5 DEF IInv

LEMMA TypeStep == ASSUME IInv, [Next]_vars PROVE TypeOK'
<1> USE DaemonAssumption, ActorsAre
<1>0. TypeOK
  BY DEF IInv
<1>1. ASSUME NEW o \in Operators, Begin(o, "start") \/ Begin(o, "stop") PROVE TypeOK'
  BY <1>0, <1>1 DEF TypeOK, Begin, Goto, LockSteps, Answers
<1>2. ASSUME NEW o \in Observers, Begin(o, "status") PROVE TypeOK'
  BY <1>0, <1>2 DEF TypeOK, Begin, Goto, Inside, Answers
<1> USE DEF IInv, TypeOK, Roles, Goto, ChildStates, NoLock, Running, Answers, Judging,
            BeforeSpawn, AfterSpawn, Inside, StartSteps, StopSteps, LockSteps
<1>3. ASSUME NEW o \in Operators, OperatorDies(o) PROVE TypeOK'
  BY <1>3 DEF OperatorDies
<1>4. ASSUME NEW o \in Actors, CreateLock(o) \/ StampLock(o) \/ InspectLock(o) PROVE TypeOK'
  <2>1. o \in Operators
    BY <1>4 DEF CreateLock, StampLock, InspectLock
  <2>2. lockFile' \in LockFile
    <3>1. lockFile \in LockFile /\ (lockFile.stamped \/ lockFile.by = o) \in BOOLEAN
      BY DEF LockFile
    <3>2. CASE StampLock(o)
      BY <3>1, <3>2, LockFiles DEF StampLock
    <3>3. CASE CreateLock(o) \/ InspectLock(o)
      BY <2>1, <3>3, <3>1, LockFiles DEF CreateLock, InspectLock
    <3> QED
      BY <1>4, <3>2, <3>3
  <2> QED
    BY <1>4, <2>2 DEF CreateLock, StampLock, InspectLock, LockFile
<1>5. ASSUME NEW o \in Actors, UnlinkLock(o) \/ ReleaseLock(o) PROVE TypeOK'
  <2>1. lockFile' = NoLock
    BY <1>5 DEF UnlinkLock, ReleaseLock
  <2>2. lockFile' \in LockFile
    BY <2>1, LockFiles
  <2> QED
    BY <1>5, <2>2 DEF UnlinkLock, ReleaseLock, LockFile
<1>6. ASSUME NEW o \in Actors, ReadPidFile(o) PROVE TypeOK'
  BY <1>6 DEF ReadPidFile, Answer
<1>7. ASSUME NEW o \in Actors, Check(o) \/ CheckHealth(o) PROVE TypeOK'
  BY <1>7 DEF Check, CheckHealth, Answer
<1>8. ASSUME NEW o \in Actors, Clean(o) PROVE TypeOK'
  BY <1>8 DEF Clean, Answer
<1>9. ASSUME NEW o \in Actors, Spawn(o) PROVE TypeOK'
  BY <1>9 DEF Spawn, Answer
<1>10. ASSUME NEW o \in Actors, Record(o) PROVE TypeOK'
  BY <1>10 DEF Record
<1>11. ASSUME NEW o \in Actors, CheckOwner(o) \/ WaitSucceeds(o) \/ WaitFails(o) PROVE TypeOK'
  BY <1>11 DEF CheckOwner, WaitSucceeds, WaitFails
<1>12. ASSUME NEW o \in Actors, Finish(o) PROVE TypeOK'
  BY <1>12 DEF Finish, Answer
<1>13. ASSUME NEW o \in Actors, Unrecord(o) \/ Abort(o) PROVE TypeOK'
  BY <1>13 DEF Unrecord, Abort, Answer
<1>14. ASSUME NEW o \in Actors, Signal(o) \/ Poll(o) \/ Kill(o) PROVE TypeOK'
  BY <1>14 DEF Signal, Poll, Kill
<1>15. ASSUME NEW d \in Children, Listen(d) \/ Hang(d) \/ Recover(d) \/ Die(d) \/ Reuse(d)
       PROVE  TypeOK'
  BY <1>15 DEF Listen, Hang, Recover, Die, Reuse
<1>16. ASSUME ForeignPort PROVE TypeOK'
  BY <1>16 DEF ForeignPort
<1>17. ASSUME UNCHANGED vars PROVE TypeOK'
  BY <1>17 DEF vars
<1> QED
  BY <1>1, <1>2, <1>3, <1>4, <1>5, <1>6, <1>7, <1>8, <1>9, <1>10, <1>11, <1>12, <1>13, <1>14,
     <1>15, <1>16, <1>17 DEF Next, Step
LEMMA RolesStep == ASSUME IInv, [Next]_vars PROVE Roles'
<1> USE DaemonAssumption, ActorsAre
    DEF IInv, TypeOK, Roles, Judging, BeforeSpawn, AfterSpawn, Goto, StartSteps, StopSteps,
        LockSteps
<1>1. ASSUME NEW o \in Operators, Begin(o, "start") \/ Begin(o, "stop") PROVE Roles'
  BY <1>1 DEF Begin
<1>2. ASSUME NEW o \in Observers, Begin(o, "status") PROVE Roles'
  BY <1>2 DEF Begin
<1>3. ASSUME NEW o \in Operators, OperatorDies(o) PROVE Roles'
  BY <1>3 DEF OperatorDies
<1>4. ASSUME NEW o \in Actors, CreateLock(o) \/ StampLock(o) \/ InspectLock(o) PROVE Roles'
  BY <1>4 DEF CreateLock, StampLock, InspectLock
<1>5. ASSUME NEW o \in Actors, UnlinkLock(o) \/ ReleaseLock(o) PROVE Roles'
  BY <1>5 DEF UnlinkLock, ReleaseLock
<1>6. ASSUME NEW o \in Actors, ReadPidFile(o) PROVE Roles'
  BY <1>6 DEF ReadPidFile, Answer
<1>7. ASSUME NEW o \in Actors, Check(o) \/ CheckHealth(o) PROVE Roles'
  BY <1>7 DEF Check, CheckHealth, Answer
<1>8. ASSUME NEW o \in Actors, Clean(o) PROVE Roles'
  BY <1>8 DEF Clean, Answer
<1>9. ASSUME NEW o \in Actors, Spawn(o) PROVE Roles'
  BY <1>9 DEF Spawn, Answer
<1>10. ASSUME NEW o \in Actors, Record(o) PROVE Roles'
  BY <1>10 DEF Record
<1>11. ASSUME NEW o \in Actors, CheckOwner(o) \/ WaitSucceeds(o) \/ WaitFails(o) PROVE Roles'
  BY <1>11 DEF CheckOwner, WaitSucceeds, WaitFails
<1>12. ASSUME NEW o \in Actors, Finish(o) PROVE Roles'
  BY <1>12 DEF Finish, Answer
<1>13. ASSUME NEW o \in Actors, Unrecord(o) \/ Abort(o) PROVE Roles'
  BY <1>13 DEF Unrecord, Abort, Answer
<1>14. ASSUME NEW o \in Actors, Signal(o) \/ Poll(o) \/ Kill(o) PROVE Roles'
  BY <1>14 DEF Signal, Poll, Kill
<1>15. ASSUME NEW d \in Children, Listen(d) \/ Hang(d) \/ Recover(d) \/ Die(d) \/ Reuse(d)
       PROVE  Roles'
  BY <1>15 DEF Listen, Hang, Recover, Die, Reuse
<1>16. ASSUME ForeignPort PROVE Roles'
  BY <1>16 DEF ForeignPort
<1>17. ASSUME UNCHANGED vars PROVE Roles'
  BY <1>17 DEF vars
<1> QED
  BY <1>1, <1>2, <1>3, <1>4, <1>5, <1>6, <1>7, <1>8, <1>9, <1>10, <1>11, <1>12, <1>13, <1>14,
     <1>15, <1>16, <1>17 DEF Next, Step

LEMMA FreshStep == ASSUME IInv, [Next]_vars PROVE Fresh'
<1> USE DaemonAssumption, ActorsAre
    DEF IInv, TypeOK, Roles, Fresh, Goto, AfterSpawn, Running, Judging, StartSteps,
        StopSteps, LockSteps
<1>1. ASSUME NEW o \in Operators, Begin(o, "start") \/ Begin(o, "stop") PROVE Fresh'
  BY <1>1 DEF Begin
<1>2. ASSUME NEW o \in Observers, Begin(o, "status") PROVE Fresh'
  BY <1>2 DEF Begin
<1>3. ASSUME NEW o \in Operators, OperatorDies(o) PROVE Fresh'
  BY <1>3 DEF OperatorDies
<1>4. ASSUME NEW o \in Actors, CreateLock(o) \/ StampLock(o) \/ InspectLock(o) PROVE Fresh'
  BY <1>4 DEF CreateLock, StampLock, InspectLock
<1>5. ASSUME NEW o \in Actors, UnlinkLock(o) \/ ReleaseLock(o) PROVE Fresh'
  BY <1>5 DEF UnlinkLock, ReleaseLock
<1>6. ASSUME NEW o \in Actors, ReadPidFile(o) PROVE Fresh'
  BY <1>6 DEF ReadPidFile, Answer
<1>7. ASSUME NEW o \in Actors, Check(o) \/ CheckHealth(o) PROVE Fresh'
  BY <1>7 DEF Check, CheckHealth, Answer
<1>8. ASSUME NEW o \in Actors, Clean(o) PROVE Fresh'
  BY <1>8 DEF Clean, Answer
<1>9. ASSUME NEW o \in Actors, Spawn(o) PROVE Fresh'
  BY <1>9 DEF Spawn, Answer
<1>10. ASSUME NEW o \in Actors, Record(o) PROVE Fresh'
  BY <1>10 DEF Record
<1>11. ASSUME NEW o \in Actors, CheckOwner(o) \/ WaitSucceeds(o) \/ WaitFails(o) PROVE Fresh'
  BY <1>11 DEF CheckOwner, WaitSucceeds, WaitFails
<1>12. ASSUME NEW o \in Actors, Finish(o) PROVE Fresh'
  BY <1>12 DEF Finish, Answer
<1>13. ASSUME NEW o \in Actors, Unrecord(o) \/ Abort(o) PROVE Fresh'
  BY <1>13 DEF Unrecord, Abort, Answer
<1>14. ASSUME NEW o \in Actors, Signal(o) \/ Poll(o) \/ Kill(o) PROVE Fresh'
  BY <1>14 DEF Signal, Poll, Kill
<1>15. ASSUME NEW d \in Children, Listen(d) \/ Hang(d) \/ Recover(d) \/ Die(d) \/ Reuse(d)
       PROVE  Fresh'
  BY <1>15 DEF Listen, Hang, Recover, Die, Reuse
<1>16. ASSUME ForeignPort PROVE Fresh'
  BY <1>16 DEF ForeignPort
<1>17. ASSUME UNCHANGED vars PROVE Fresh'
  BY <1>17 DEF vars
<1> QED
  BY <1>1, <1>2, <1>3, <1>4, <1>5, <1>6, <1>7, <1>8, <1>9, <1>10, <1>11, <1>12, <1>13, <1>14,
     <1>15, <1>16, <1>17 DEF Next, Step

LEMMA OwnStep == ASSUME IInv, [Next]_vars PROVE OwnChildren'
<1> USE DaemonAssumption, ActorsAre
    DEF IInv, TypeOK, Roles, OwnChildren, Fresh, BeforeSpawn, Goto, StartSteps, StopSteps,
        LockSteps
<1>1. ASSUME NEW o \in Operators, Begin(o, "start") \/ Begin(o, "stop") PROVE OwnChildren'
  BY <1>1 DEF Begin
<1>2. ASSUME NEW o \in Observers, Begin(o, "status") PROVE OwnChildren'
  BY <1>2 DEF Begin
<1>3. ASSUME NEW o \in Operators, OperatorDies(o) PROVE OwnChildren'
  BY <1>3 DEF OperatorDies
<1>4. ASSUME NEW o \in Actors, CreateLock(o) \/ StampLock(o) \/ InspectLock(o) PROVE OwnChildren'
  BY <1>4 DEF CreateLock, StampLock, InspectLock
<1>5. ASSUME NEW o \in Actors, UnlinkLock(o) \/ ReleaseLock(o) PROVE OwnChildren'
  BY <1>5 DEF UnlinkLock, ReleaseLock
<1>6. ASSUME NEW o \in Actors, ReadPidFile(o) PROVE OwnChildren'
  BY <1>6 DEF ReadPidFile, Answer
<1>7. ASSUME NEW o \in Actors, Check(o) \/ CheckHealth(o) PROVE OwnChildren'
  BY <1>7 DEF Check, CheckHealth, Answer
<1>8. ASSUME NEW o \in Actors, Clean(o) PROVE OwnChildren'
  BY <1>8 DEF Clean, Answer
<1>9. ASSUME NEW o \in Actors, Spawn(o) PROVE OwnChildren'
  BY <1>9 DEF Spawn, Answer
<1>10. ASSUME NEW o \in Actors, Record(o) PROVE OwnChildren'
  BY <1>10 DEF Record
<1>11. ASSUME NEW o \in Actors, CheckOwner(o) \/ WaitSucceeds(o) \/ WaitFails(o)
       PROVE  OwnChildren'
  BY <1>11 DEF CheckOwner, WaitSucceeds, WaitFails
<1>12. ASSUME NEW o \in Actors, Finish(o) PROVE OwnChildren'
  BY <1>12 DEF Finish, Answer
<1>13. ASSUME NEW o \in Actors, Unrecord(o) \/ Abort(o) PROVE OwnChildren'
  BY <1>13 DEF Unrecord, Abort, Answer
<1>14. ASSUME NEW o \in Actors, Signal(o) \/ Poll(o) \/ Kill(o) PROVE OwnChildren'
  BY <1>14 DEF Signal, Poll, Kill
<1>15. ASSUME NEW d \in Children, Listen(d) \/ Hang(d) \/ Recover(d) \/ Die(d) \/ Reuse(d)
       PROVE  OwnChildren'
  BY <1>15 DEF Listen, Hang, Recover, Die, Reuse
<1>16. ASSUME ForeignPort PROVE OwnChildren'
  BY <1>16 DEF ForeignPort
<1>17. ASSUME UNCHANGED vars PROVE OwnChildren'
  BY <1>17 DEF vars
<1> QED
  BY <1>1, <1>2, <1>3, <1>4, <1>5, <1>6, <1>7, <1>8, <1>9, <1>10, <1>11, <1>12, <1>13, <1>14,
     <1>15, <1>16, <1>17 DEF Next, Step

LEMMA UnrecordedStep == ASSUME IInv, [Next]_vars PROVE Unrecorded'
<1> USE DaemonAssumption, ActorsAre
    DEF IInv, TypeOK, Roles, OwnChildren, Fresh, Unrecorded, AfterSpawn, Goto, StartSteps,
        StopSteps, LockSteps
<1>1. ASSUME NEW o \in Operators, Begin(o, "start") \/ Begin(o, "stop") PROVE Unrecorded'
  BY <1>1 DEF Begin
<1>2. ASSUME NEW o \in Observers, Begin(o, "status") PROVE Unrecorded'
  BY <1>2 DEF Begin
<1>3. ASSUME NEW o \in Operators, OperatorDies(o) PROVE Unrecorded'
  BY <1>3 DEF OperatorDies
<1>4. ASSUME NEW o \in Actors, CreateLock(o) \/ StampLock(o) \/ InspectLock(o) PROVE Unrecorded'
  BY <1>4 DEF CreateLock, StampLock, InspectLock
<1>5. ASSUME NEW o \in Actors, UnlinkLock(o) \/ ReleaseLock(o) PROVE Unrecorded'
  BY <1>5 DEF UnlinkLock, ReleaseLock
<1>6. ASSUME NEW o \in Actors, ReadPidFile(o) PROVE Unrecorded'
  BY <1>6 DEF ReadPidFile, Answer
<1>7. ASSUME NEW o \in Actors, Check(o) \/ CheckHealth(o) PROVE Unrecorded'
  BY <1>7 DEF Check, CheckHealth, Answer
<1>8. ASSUME NEW o \in Actors, Clean(o) PROVE Unrecorded'
  BY <1>8 DEF Clean, Answer
<1>9. ASSUME NEW o \in Actors, Spawn(o) PROVE Unrecorded'
  BY <1>9 DEF Spawn, Answer
<1>10. ASSUME NEW o \in Actors, Record(o) PROVE Unrecorded'
  BY <1>10 DEF Record
<1>11. ASSUME NEW o \in Actors, CheckOwner(o) \/ WaitSucceeds(o) \/ WaitFails(o) PROVE Unrecorded'
  BY <1>11 DEF CheckOwner, WaitSucceeds, WaitFails
<1>12. ASSUME NEW o \in Actors, Finish(o) PROVE Unrecorded'
  BY <1>12 DEF Finish, Answer
<1>13. ASSUME NEW o \in Actors, Unrecord(o) \/ Abort(o) PROVE Unrecorded'
  BY <1>13 DEF Unrecord, Abort, Answer
<1>14. ASSUME NEW o \in Actors, Signal(o) \/ Poll(o) \/ Kill(o) PROVE Unrecorded'
  BY <1>14 DEF Signal, Poll, Kill
<1>15. ASSUME NEW d \in Children, Listen(d) \/ Hang(d) \/ Recover(d) \/ Die(d) \/ Reuse(d)
       PROVE  Unrecorded'
  BY <1>15 DEF Listen, Hang, Recover, Die, Reuse
<1>16. ASSUME ForeignPort PROVE Unrecorded'
  BY <1>16 DEF ForeignPort
<1>17. ASSUME UNCHANGED vars PROVE Unrecorded'
  BY <1>17 DEF vars
<1> QED
  BY <1>1, <1>2, <1>3, <1>4, <1>5, <1>6, <1>7, <1>8, <1>9, <1>10, <1>11, <1>12, <1>13, <1>14,
     <1>15, <1>16, <1>17 DEF Next, Step

LEMMA SignalStep == ASSUME IInv, [Next]_vars PROVE SignalsItsOwn' /\ IdentityProtects'
<1> USE DaemonAssumption, ActorsAre
    DEF IInv, TypeOK, Roles, Unrecorded, SignalsItsOwn, IdentityProtects, AfterSpawn,
        Judging, Goto, IsAlive, ManagedProcess, Running, StartSteps, StopSteps, LockSteps
<1>1. ASSUME NEW o \in Operators, Begin(o, "start") \/ Begin(o, "stop")
      PROVE  SignalsItsOwn' /\ IdentityProtects'
  BY <1>1 DEF Begin
<1>2. ASSUME NEW o \in Observers, Begin(o, "status") PROVE SignalsItsOwn' /\ IdentityProtects'
  BY <1>2 DEF Begin
<1>3. ASSUME NEW o \in Operators, OperatorDies(o) PROVE SignalsItsOwn' /\ IdentityProtects'
  BY <1>3 DEF OperatorDies
<1>4. ASSUME NEW o \in Actors, CreateLock(o) \/ StampLock(o) \/ InspectLock(o)
      PROVE  SignalsItsOwn' /\ IdentityProtects'
  BY <1>4 DEF CreateLock, StampLock, InspectLock
<1>5. ASSUME NEW o \in Actors, UnlinkLock(o) \/ ReleaseLock(o)
      PROVE  SignalsItsOwn' /\ IdentityProtects'
  BY <1>5 DEF UnlinkLock, ReleaseLock
<1>6. ASSUME NEW o \in Actors, ReadPidFile(o) PROVE SignalsItsOwn' /\ IdentityProtects'
  BY <1>6 DEF ReadPidFile, Answer
<1>7. ASSUME NEW o \in Actors, Check(o) \/ CheckHealth(o)
      PROVE  SignalsItsOwn' /\ IdentityProtects'
  BY <1>7 DEF Check, CheckHealth, Answer
<1>8. ASSUME NEW o \in Actors, Clean(o) PROVE SignalsItsOwn' /\ IdentityProtects'
  BY <1>8 DEF Clean, Answer
<1>9. ASSUME NEW o \in Actors, Spawn(o) PROVE SignalsItsOwn' /\ IdentityProtects'
  BY <1>9 DEF Spawn, Answer
<1>10. ASSUME NEW o \in Actors, Record(o) PROVE SignalsItsOwn' /\ IdentityProtects'
  BY <1>10 DEF Record
<1>11. ASSUME NEW o \in Actors, CheckOwner(o) \/ WaitSucceeds(o) \/ WaitFails(o)
       PROVE  SignalsItsOwn' /\ IdentityProtects'
  BY <1>11 DEF CheckOwner, WaitSucceeds, WaitFails
<1>12. ASSUME NEW o \in Actors, Finish(o) PROVE SignalsItsOwn' /\ IdentityProtects'
  BY <1>12 DEF Finish, Answer
<1>13. ASSUME NEW o \in Actors, Unrecord(o) \/ Abort(o) PROVE SignalsItsOwn' /\ IdentityProtects'
  BY <1>13 DEF Unrecord, Abort, Answer
<1>14. ASSUME NEW o \in Actors, Signal(o) \/ Poll(o) \/ Kill(o)
       PROVE  SignalsItsOwn' /\ IdentityProtects'
  BY <1>14 DEF Signal, Poll, Kill
<1>15. ASSUME NEW d \in Children, Listen(d) \/ Hang(d) \/ Recover(d) \/ Die(d) \/ Reuse(d)
       PROVE  SignalsItsOwn' /\ IdentityProtects'
  BY <1>15 DEF Listen, Hang, Recover, Die, Reuse
<1>16. ASSUME ForeignPort PROVE SignalsItsOwn' /\ IdentityProtects'
  BY <1>16 DEF ForeignPort
<1>17. ASSUME UNCHANGED vars PROVE SignalsItsOwn' /\ IdentityProtects'
  BY <1>17 DEF vars
<1> QED
  BY <1>1, <1>2, <1>3, <1>4, <1>5, <1>6, <1>7, <1>8, <1>9, <1>10, <1>11, <1>12, <1>13, <1>14,
     <1>15, <1>16, <1>17 DEF Next, Step

LEMMA FailStep == ASSUME IInv, [Next]_vars PROVE TakesBack' /\ FailedStartLeavesNothing'
<1> USE DaemonAssumption, ActorsAre
    DEF IInv, TypeOK, Roles, OwnChildren, Fresh, Unrecorded, TakesBack,
        FailedStartLeavesNothing, AfterSpawn, BeforeSpawn, Judging, Goto, Running,
        StartSteps, StopSteps, LockSteps
<1>1. ASSUME NEW o \in Operators, Begin(o, "start") \/ Begin(o, "stop")
      PROVE  TakesBack' /\ FailedStartLeavesNothing'
  BY <1>1 DEF Begin
<1>2. ASSUME NEW o \in Observers, Begin(o, "status") PROVE TakesBack' /\ FailedStartLeavesNothing'
  BY <1>2 DEF Begin
<1>3. ASSUME NEW o \in Operators, OperatorDies(o) PROVE TakesBack' /\ FailedStartLeavesNothing'
  BY <1>3 DEF OperatorDies
<1>4. ASSUME NEW o \in Actors, CreateLock(o) \/ StampLock(o) \/ InspectLock(o)
      PROVE  TakesBack' /\ FailedStartLeavesNothing'
  BY <1>4 DEF CreateLock, StampLock, InspectLock
<1>5. ASSUME NEW o \in Actors, UnlinkLock(o) \/ ReleaseLock(o)
      PROVE  TakesBack' /\ FailedStartLeavesNothing'
  BY <1>5 DEF UnlinkLock, ReleaseLock
<1>6. ASSUME NEW o \in Actors, ReadPidFile(o) PROVE TakesBack' /\ FailedStartLeavesNothing'
  BY <1>6 DEF ReadPidFile, Answer
<1>7. ASSUME NEW o \in Actors, Check(o) \/ CheckHealth(o)
      PROVE  TakesBack' /\ FailedStartLeavesNothing'
  BY <1>7 DEF Check, CheckHealth, Answer
<1>8. ASSUME NEW o \in Actors, Clean(o) PROVE TakesBack' /\ FailedStartLeavesNothing'
  BY <1>8 DEF Clean, Answer
<1>9. ASSUME NEW o \in Actors, Spawn(o) PROVE TakesBack' /\ FailedStartLeavesNothing'
  BY <1>9 DEF Spawn, Answer
<1>10. ASSUME NEW o \in Actors, Record(o) PROVE TakesBack' /\ FailedStartLeavesNothing'
  BY <1>10 DEF Record
<1>11. ASSUME NEW o \in Actors, CheckOwner(o) \/ WaitSucceeds(o) \/ WaitFails(o)
       PROVE  TakesBack' /\ FailedStartLeavesNothing'
  BY <1>11 DEF CheckOwner, WaitSucceeds, WaitFails
<1>12. ASSUME NEW o \in Actors, Finish(o) PROVE TakesBack' /\ FailedStartLeavesNothing'
  BY <1>12 DEF Finish, Answer
<1>13. ASSUME NEW o \in Actors, Unrecord(o) \/ Abort(o)
       PROVE  TakesBack' /\ FailedStartLeavesNothing'
  BY <1>13 DEF Unrecord, Abort, Answer
<1>14. ASSUME NEW o \in Actors, Signal(o) \/ Poll(o) \/ Kill(o)
       PROVE  TakesBack' /\ FailedStartLeavesNothing'
  BY <1>14 DEF Signal, Poll, Kill
<1>15. ASSUME NEW d \in Children, Listen(d) \/ Hang(d) \/ Recover(d) \/ Die(d) \/ Reuse(d)
       PROVE  TakesBack' /\ FailedStartLeavesNothing'
  BY <1>15 DEF Listen, Hang, Recover, Die, Reuse
<1>16. ASSUME ForeignPort PROVE TakesBack' /\ FailedStartLeavesNothing'
  BY <1>16 DEF ForeignPort
<1>17. ASSUME UNCHANGED vars PROVE TakesBack' /\ FailedStartLeavesNothing'
  BY <1>17 DEF vars
<1> QED
  BY <1>1, <1>2, <1>3, <1>4, <1>5, <1>6, <1>7, <1>8, <1>9, <1>10, <1>11, <1>12, <1>13, <1>14,
     <1>15, <1>16, <1>17 DEF Next, Step

LEMMA StopStep == ASSUME IInv, [Next]_vars PROVE StopsDead' /\ StoppedIsGone'
<1> USE DaemonAssumption, ActorsAre
    DEF IInv, TypeOK, Roles, Fresh, StopsDead, StoppedIsGone, Judging, AfterSpawn,
        BeforeSpawn, Goto, IsAlive, ManagedProcess, Running, StartSteps, StopSteps,
        LockSteps
<1>1. ASSUME NEW o \in Operators, Begin(o, "start") \/ Begin(o, "stop")
      PROVE  StopsDead' /\ StoppedIsGone'
  BY <1>1 DEF Begin
<1>2. ASSUME NEW o \in Observers, Begin(o, "status") PROVE StopsDead' /\ StoppedIsGone'
  BY <1>2 DEF Begin
<1>3. ASSUME NEW o \in Operators, OperatorDies(o) PROVE StopsDead' /\ StoppedIsGone'
  BY <1>3 DEF OperatorDies
<1>4. ASSUME NEW o \in Actors, CreateLock(o) \/ StampLock(o) \/ InspectLock(o)
      PROVE  StopsDead' /\ StoppedIsGone'
  BY <1>4 DEF CreateLock, StampLock, InspectLock
<1>5. ASSUME NEW o \in Actors, UnlinkLock(o) \/ ReleaseLock(o) PROVE StopsDead' /\ StoppedIsGone'
  BY <1>5 DEF UnlinkLock, ReleaseLock
<1>6. ASSUME NEW o \in Actors, ReadPidFile(o) PROVE StopsDead' /\ StoppedIsGone'
  BY <1>6 DEF ReadPidFile, Answer
<1>7. ASSUME NEW o \in Actors, Check(o) \/ CheckHealth(o) PROVE StopsDead' /\ StoppedIsGone'
  BY <1>7 DEF Check, CheckHealth, Answer
<1>8. ASSUME NEW o \in Actors, Clean(o) PROVE StopsDead' /\ StoppedIsGone'
  BY <1>8 DEF Clean, Answer
<1>9. ASSUME NEW o \in Actors, Spawn(o) PROVE StopsDead' /\ StoppedIsGone'
  BY <1>9 DEF Spawn, Answer
<1>10. ASSUME NEW o \in Actors, Record(o) PROVE StopsDead' /\ StoppedIsGone'
  BY <1>10 DEF Record
<1>11. ASSUME NEW o \in Actors, CheckOwner(o) \/ WaitSucceeds(o) \/ WaitFails(o)
       PROVE  StopsDead' /\ StoppedIsGone'
  BY <1>11 DEF CheckOwner, WaitSucceeds, WaitFails
<1>12. ASSUME NEW o \in Actors, Finish(o) PROVE StopsDead' /\ StoppedIsGone'
  BY <1>12 DEF Finish, Answer
<1>13. ASSUME NEW o \in Actors, Unrecord(o) \/ Abort(o) PROVE StopsDead' /\ StoppedIsGone'
  BY <1>13 DEF Unrecord, Abort, Answer
<1>14. ASSUME NEW o \in Actors, Signal(o) \/ Poll(o) \/ Kill(o) PROVE StopsDead' /\ StoppedIsGone'
  BY <1>14 DEF Signal, Poll, Kill
<1>15. ASSUME NEW d \in Children, Listen(d) \/ Hang(d) \/ Recover(d) \/ Die(d) \/ Reuse(d)
       PROVE  StopsDead' /\ StoppedIsGone'
  BY <1>15 DEF Listen, Hang, Recover, Die, Reuse
<1>16. ASSUME ForeignPort PROVE StopsDead' /\ StoppedIsGone'
  BY <1>16 DEF ForeignPort
<1>17. ASSUME UNCHANGED vars PROVE StopsDead' /\ StoppedIsGone'
  BY <1>17 DEF vars
<1> QED
  BY <1>1, <1>2, <1>3, <1>4, <1>5, <1>6, <1>7, <1>8, <1>9, <1>10, <1>11, <1>12, <1>13, <1>14,
     <1>15, <1>16, <1>17 DEF Next, Step
(* At any time, whatever operations overlap: the values have their types and *)
(* what an operation holds fits where it is.                                 *)
THEOREM DaemonInvariance == Spec => []IInv
<1>1. ASSUME IInv, [Next]_vars PROVE IInv'
  BY <1>1, TypeStep, RolesStep, FreshStep, OwnStep, UnrecordedStep, SignalStep, FailStep, StopStep
  DEF IInv
<1> QED
  BY <1>1, InitInv, PTL DEF Spec

(* Type correctness of the daemon's files, processes and callers.           *)
THEOREM DaemonTypeCorrect == Spec => []TypeOK
  BY DaemonInvariance, PTL DEF IInv

(* No process that inherited the pid of an identified daemon is signalled,  *)
(* however operations, kills and pid reuse interleave.                      *)
THEOREM StrangersSpared == Spec => []IdentityProtects
  BY DaemonInvariance, PTL DEF IInv

(* A failed Start leaves neither its child nor a record of it.              *)
THEOREM FailedStartsLeaveNothing == Spec => []FailedStartLeavesNothing
  BY DaemonInvariance, PTL DEF IInv

(* What Stop reports stopped is gone.                                       *)
THEOREM StoppedStaysGone == Spec => []StoppedIsGone
  BY DaemonInvariance, PTL DEF IInv

-----------------------------------------------------------------------------
(* The lock file.  It excludes as long as nobody removes the file of a living *)
(* process, which a second operation may do while the first has not written   *)
(* its pid yet, or when it judged an earlier file (daemon.go:204-217).        *)

\* The lock file is the holder's, from its creation to its removal.
HoldsLock ==
    \A o \in Operators : pc[o] \in Inside \cup {"stamp"} => lockFile.by = o

\* Whoever is about to remove a lock file has one that is stale.
RemovesStale ==
    \A o \in Operators : pc[o] = "unlink" /\ lockFile.by \in Operators =>
        pc[lockFile.by] \notin Inside \cup {"stamp"}

LEMMA LockStep == ASSUME IInv, HoldsLock, RemovesStale, [Next]_vars PROVE HoldsLock'
<1> USE DaemonAssumption, ActorsAre
    DEF IInv, TypeOK, Roles, HoldsLock, RemovesStale, Goto, NoLock, BeforeSpawn, AfterSpawn,
        Inside, StartSteps, StopSteps, LockSteps
<1>1. ASSUME NEW o \in Operators, Begin(o, "start") \/ Begin(o, "stop") PROVE HoldsLock'
  BY <1>1 DEF Begin
<1>2. ASSUME NEW o \in Observers, Begin(o, "status") PROVE HoldsLock'
  BY <1>2 DEF Begin
<1>3. ASSUME NEW o \in Operators, OperatorDies(o) PROVE HoldsLock'
  BY <1>3 DEF OperatorDies
<1>4. ASSUME NEW o \in Actors, CreateLock(o) \/ StampLock(o) \/ InspectLock(o) PROVE HoldsLock'
  BY <1>4 DEF CreateLock, StampLock, InspectLock
<1>5. ASSUME NEW o \in Actors, UnlinkLock(o) PROVE HoldsLock'
  BY <1>5 DEF UnlinkLock
<1>6. ASSUME NEW o \in Actors, ReleaseLock(o) PROVE HoldsLock'
  BY <1>6 DEF ReleaseLock
<1>7. ASSUME NEW o \in Actors, ReadPidFile(o) \/ Check(o) \/ CheckHealth(o) \/ Clean(o) PROVE HoldsLock'
  BY <1>7 DEF ReadPidFile, Check, CheckHealth, Clean, Answer
<1>8. ASSUME NEW o \in Actors, Spawn(o) \/ Record(o) \/ CheckOwner(o) \/ WaitSucceeds(o) \/ WaitFails(o) PROVE HoldsLock'
  BY <1>8 DEF Spawn, Record, CheckOwner, WaitSucceeds, WaitFails, Answer
<1>9. ASSUME NEW o \in Actors, Finish(o) \/ Unrecord(o) \/ Abort(o) PROVE HoldsLock'
  BY <1>9 DEF Finish, Unrecord, Abort, Answer
<1>10. ASSUME NEW o \in Actors, Signal(o) \/ Poll(o) \/ Kill(o) PROVE HoldsLock'
  BY <1>10 DEF Signal, Poll, Kill
<1>11. ASSUME NEW d \in Children, Listen(d) \/ Hang(d) \/ Recover(d) \/ Die(d) \/ Reuse(d) PROVE HoldsLock'
  BY <1>11 DEF Listen, Hang, Recover, Die, Reuse
<1>12. ASSUME ForeignPort PROVE HoldsLock'
  BY <1>12 DEF ForeignPort
<1>13. ASSUME UNCHANGED vars PROVE HoldsLock'
  BY <1>13 DEF vars
<1> QED
  BY <1>1, <1>2, <1>3, <1>4, <1>5, <1>6, <1>7, <1>8, <1>9, <1>10, <1>11, <1>12, <1>13 DEF Next, Step

(* Operations never overlap while each lock file that is removed is stale.   *)
THEOREM LockExcludes == Spec /\ []RemovesStale => []OneOperation
<1>1. Init => HoldsLock
  BY ActorsAre DEF Init, HoldsLock, Inside, StartSteps, StopSteps
<1>2. HoldsLock => OneOperation
  BY DEF HoldsLock, OneOperation
<1> QED
  BY <1>1, <1>2, LockStep, DaemonInvariance, PTL DEF Spec

-----------------------------------------------------------------------------
(* One operation after the other, beside any number of Status.              *)

Living == {"booting", "serving"}

\* The listener is the one that serves or hangs.
PortHeld == \A d \in Children : child[d] \in {"serving", "hung"} => port = d

\* Who lives was reported started, or is the child of the Start under way.
OneLives ==
    \A d \in Children : child[d] \in Living =>
        d = told \/ \E o \in Operators : mine[o] = d /\ pc[o] \in AfterSpawn \cup {"dead"}

\* A daemon reported started has left its boot behind, and so has one that
\* answered the health probe.
Booted ==
    /\ told # Absent => child[told] # "booting"
    /\ \A o \in Operators :
          /\ pc[o] \in {"ownerAgain", "finish"} => child[mine[o]] # "booting"
          /\ pc[o] \in {"owner", "wait"} => mine[o] \in identified \/ child[mine[o]] # "booting"

\* Where an operation is while the daemon that was reported started lives.
SeesStarted ==
    told # Absent /\ child[told] = "serving" =>
        /\ pidFile = told
        /\ \A o \in Operators :
              /\ pc[o] \in Judging => info[o] = told
              /\ pc[o] \notin StartSteps
              /\ kind[o] = "start" => pc[o] # "clean"

SerialInv ==
    /\ IInv /\ PortHeld
    /\ swept = {} => OneLives /\ Booted /\ SeesStarted

\* An operator is inside an operation; a Start that was killed has not ended.
Engaged(o) == pc[o] \in Inside \/ (pc[o] = "dead" /\ mine[o] # Absent)

\* Operations do not overlap, and an unmanaged process on the port does not
\* answer the health probe as a daemon would.
Orderly ==
    /\ \A o, q \in Operators : Engaged(o) /\ Engaged(q) => o = q
    /\ port = Foreign => ~ForeignAnswers

LEMMA PortStep == ASSUME SerialInv, ~HangsEnd, Orderly, Orderly', [Next]_vars PROVE PortHeld'
<1> USE DaemonAssumption, ActorsAre
    DEF SerialInv, IInv, TypeOK, Roles, Fresh, PortHeld, Orderly, AfterSpawn, Judging, Goto,
        Running, StartSteps, StopSteps, LockSteps
<1>1. ASSUME NEW o \in Operators, Begin(o, "start") \/ Begin(o, "stop")
      PROVE  PortHeld'
  BY <1>1 DEF Begin
<1>2. ASSUME NEW o \in Observers, Begin(o, "status") PROVE PortHeld'
  BY <1>2 DEF Begin
<1>3. ASSUME NEW o \in Operators, OperatorDies(o) PROVE PortHeld'
  BY <1>3 DEF OperatorDies
<1>4. ASSUME NEW o \in Actors, CreateLock(o) \/ StampLock(o) \/ InspectLock(o)
      PROVE  PortHeld'
  BY <1>4 DEF CreateLock, StampLock, InspectLock
<1>5. ASSUME NEW o \in Actors, UnlinkLock(o) \/ ReleaseLock(o) PROVE PortHeld'
  BY <1>5 DEF UnlinkLock, ReleaseLock
<1>6. ASSUME NEW o \in Actors, ReadPidFile(o) PROVE PortHeld'
  BY <1>6 DEF ReadPidFile, Answer
<1>7. ASSUME NEW o \in Actors, Check(o) \/ CheckHealth(o) PROVE PortHeld'
  BY <1>7 DEF Check, CheckHealth, Answer
<1>8. ASSUME NEW o \in Actors, Clean(o) PROVE PortHeld'
  BY <1>8 DEF Clean, Answer
<1>9. ASSUME NEW o \in Actors, Spawn(o) PROVE PortHeld'
  BY <1>9 DEF Spawn, Answer
<1>10. ASSUME NEW o \in Actors, Record(o) PROVE PortHeld'
  BY <1>10 DEF Record
<1>11. ASSUME NEW o \in Actors, CheckOwner(o) \/ WaitSucceeds(o) \/ WaitFails(o)
       PROVE  PortHeld'
  BY <1>11 DEF CheckOwner, WaitSucceeds, WaitFails
<1>12. ASSUME NEW o \in Actors, Finish(o) PROVE PortHeld'
  BY <1>12 DEF Finish, Answer
<1>13. ASSUME NEW o \in Actors, Unrecord(o) \/ Abort(o) PROVE PortHeld'
  BY <1>13 DEF Unrecord, Abort, Answer
<1>14. ASSUME NEW o \in Actors, Signal(o) \/ Poll(o) \/ Kill(o) PROVE PortHeld'
  BY <1>14 DEF Signal, Poll, Kill
<1>15. ASSUME NEW d \in Children, Listen(d) \/ Hang(d) \/ Recover(d) \/ Die(d) \/ Reuse(d)
       PROVE  PortHeld'
  BY <1>15 DEF Listen, Hang, Recover, Die, Reuse
<1>16. ASSUME ForeignPort PROVE PortHeld'
  BY <1>16 DEF ForeignPort
<1>17. ASSUME UNCHANGED vars PROVE PortHeld'
  BY <1>17 DEF vars
<1> QED
  BY <1>1, <1>2, <1>3, <1>4, <1>5, <1>6, <1>7, <1>8, <1>9, <1>10, <1>11, <1>12, <1>13, <1>14,
     <1>15, <1>16, <1>17 DEF Next, Step

LEMMA LivesStep == ASSUME SerialInv, ~HangsEnd, Orderly, Orderly', [Next]_vars PROVE swept' = {} => OneLives'
<1> USE DaemonAssumption, ActorsAre
    DEF SerialInv, IInv, TypeOK, Roles, Fresh, OwnChildren, PortHeld, OneLives,
        SeesStarted, Booted, Orderly, Engaged, Inside, StopsDead, Goto, Running, Living, AfterSpawn, Judging,
        BeforeSpawn, StartSteps, StopSteps, LockSteps, Health, IsAlive, ManagedProcess
<1>1. ASSUME NEW o \in Operators, Begin(o, "start") \/ Begin(o, "stop")
      PROVE  swept' = {} => OneLives'
  BY <1>1 DEF Begin
<1>2. ASSUME NEW o \in Observers, Begin(o, "status") PROVE swept' = {} => OneLives'
  BY <1>2 DEF Begin
<1>3. ASSUME NEW o \in Operators, OperatorDies(o) PROVE swept' = {} => OneLives'
  BY <1>3 DEF OperatorDies
<1>4. ASSUME NEW o \in Actors, CreateLock(o) \/ StampLock(o) \/ InspectLock(o)
      PROVE  swept' = {} => OneLives'
  BY <1>4 DEF CreateLock, StampLock, InspectLock
<1>5. ASSUME NEW o \in Actors, UnlinkLock(o) \/ ReleaseLock(o) PROVE swept' = {} => OneLives'
  BY <1>5 DEF UnlinkLock, ReleaseLock
<1>6. ASSUME NEW o \in Actors, ReadPidFile(o) PROVE swept' = {} => OneLives'
  BY <1>6 DEF ReadPidFile, Answer
<1>7. ASSUME NEW o \in Actors, Check(o) \/ CheckHealth(o) PROVE swept' = {} => OneLives'
  BY <1>7 DEF Check, CheckHealth, Answer
<1>8. ASSUME NEW o \in Actors, Clean(o) PROVE swept' = {} => OneLives'
  BY <1>8 DEF Clean, Answer
<1>9. ASSUME NEW o \in Actors, Spawn(o) PROVE swept' = {} => OneLives'
  BY <1>9 DEF Spawn, Answer
<1>10. ASSUME NEW o \in Actors, Record(o) PROVE swept' = {} => OneLives'
  BY <1>10 DEF Record
<1>11. ASSUME NEW o \in Actors, CheckOwner(o) \/ WaitSucceeds(o) \/ WaitFails(o)
       PROVE  swept' = {} => OneLives'
  BY <1>11 DEF CheckOwner, WaitSucceeds, WaitFails
<1>12. ASSUME NEW o \in Actors, Finish(o) PROVE swept' = {} => OneLives'
  BY <1>12 DEF Finish, Answer
<1>13. ASSUME NEW o \in Actors, Unrecord(o) \/ Abort(o) PROVE swept' = {} => OneLives'
  BY <1>13 DEF Unrecord, Abort, Answer
<1>14. ASSUME NEW o \in Actors, Signal(o) \/ Poll(o) \/ Kill(o) PROVE swept' = {} => OneLives'
  BY <1>14 DEF Signal, Poll, Kill
<1>15. ASSUME NEW d \in Children, Listen(d) \/ Hang(d) \/ Recover(d) \/ Die(d) \/ Reuse(d)
       PROVE  swept' = {} => OneLives'
  BY <1>15 DEF Listen, Hang, Recover, Die, Reuse
<1>16. ASSUME ForeignPort PROVE swept' = {} => OneLives'
  BY <1>16 DEF ForeignPort
<1>17. ASSUME UNCHANGED vars PROVE swept' = {} => OneLives'
  BY <1>17 DEF vars
<1> QED
  BY <1>1, <1>2, <1>3, <1>4, <1>5, <1>6, <1>7, <1>8, <1>9, <1>10, <1>11, <1>12, <1>13, <1>14,
     <1>15, <1>16, <1>17 DEF Next, Step

\* What is about to be recorded as running has left its boot behind.
LEMMA FinishedBoot ==
    ASSUME SerialInv, swept = {}, NEW o \in Operators, pc[o] = "finish"
    PROVE  child[mine[o]] # "booting"
  BY DEF SerialInv, Booted

LEMMA BootedStep == ASSUME SerialInv, ~HangsEnd, Orderly, Orderly', [Next]_vars PROVE swept' = {} => Booted'
<1> USE DaemonAssumption, ActorsAre
    DEF SerialInv, IInv, TypeOK, Roles, Fresh, OwnChildren, PortHeld, OneLives,
        SeesStarted, Booted, Orderly, Engaged, Inside, StopsDead, Goto, Running, Living, AfterSpawn, Judging,
        BeforeSpawn, StartSteps, StopSteps, LockSteps, Health, IsAlive, ManagedProcess
<1>1. ASSUME NEW o \in Operators, Begin(o, "start") \/ Begin(o, "stop")
      PROVE  swept' = {} => Booted'
  BY <1>1 DEF Begin
<1>2. ASSUME NEW o \in Observers, Begin(o, "status") PROVE swept' = {} => Booted'
  BY <1>2 DEF Begin
<1>3. ASSUME NEW o \in Operators, OperatorDies(o) PROVE swept' = {} => Booted'
  BY <1>3 DEF OperatorDies
<1>4. ASSUME NEW o \in Actors, CreateLock(o) \/ StampLock(o) \/ InspectLock(o)
      PROVE  swept' = {} => Booted'
  BY <1>4 DEF CreateLock, StampLock, InspectLock
<1>5. ASSUME NEW o \in Actors, UnlinkLock(o) \/ ReleaseLock(o) PROVE swept' = {} => Booted'
  BY <1>5 DEF UnlinkLock, ReleaseLock
<1>6. ASSUME NEW o \in Actors, ReadPidFile(o) PROVE swept' = {} => Booted'
  BY <1>6 DEF ReadPidFile, Answer
<1>7. ASSUME NEW o \in Actors, Check(o) \/ CheckHealth(o) PROVE swept' = {} => Booted'
  BY <1>7 DEF Check, CheckHealth, Answer
<1>8. ASSUME NEW o \in Actors, Clean(o) PROVE swept' = {} => Booted'
  BY <1>8 DEF Clean, Answer
<1>9. ASSUME NEW o \in Actors, Spawn(o) PROVE swept' = {} => Booted'
  BY <1>9 DEF Spawn, Answer
<1>10. ASSUME NEW o \in Actors, Record(o) PROVE swept' = {} => Booted'
  BY <1>10 DEF Record
<1>11. ASSUME NEW o \in Actors, CheckOwner(o) \/ WaitSucceeds(o) \/ WaitFails(o)
       PROVE  swept' = {} => Booted'
  BY <1>11 DEF CheckOwner, WaitSucceeds, WaitFails
<1>12. ASSUME NEW o \in Actors, Finish(o) PROVE swept' = {} => Booted'
  <2> SUFFICES ASSUME swept' = {} PROVE Booted'
    OBVIOUS
  <2>0. swept = {} /\ o \in Operators /\ pc[o] = "finish" /\ mine[o] \in Children
    BY <1>12 DEF Finish
  <2>1. child[mine[o]] # "booting"
    BY <2>0, FinishedBoot
  <2>2. pc'[o] \in {"release", "idle", "unrecord"}
    BY <2>0, <1>12 DEF Finish, Answer
  <2>3. mine' = mine /\ identified' = identified /\ told' \in {told, mine[o]}
    BY <1>12 DEF Finish
  <2>4. \A d \in Children : child'[d] = "booting" => child[d] = "booting"
    BY <1>12, <2>0 DEF Finish
  <2>5. \A q \in Operators \ {o} : pc[q] \notin StartSteps /\ pc'[q] = pc[q]
    BY <2>0, <1>12 DEF Finish, Answer
  <2> QED
    BY <2>0, <2>1, <2>2, <2>3, <2>4, <2>5
<1>13. ASSUME NEW o \in Actors, Unrecord(o) \/ Abort(o) PROVE swept' = {} => Booted'
  BY <1>13 DEF Unrecord, Abort, Answer
<1>14. ASSUME NEW o \in Actors, Signal(o) \/ Poll(o) \/ Kill(o) PROVE swept' = {} => Booted'
  BY <1>14 DEF Signal, Poll, Kill
<1>15. ASSUME NEW d \in Children, Listen(d) \/ Hang(d) \/ Recover(d) \/ Die(d) \/ Reuse(d)
       PROVE  swept' = {} => Booted'
  BY <1>15 DEF Listen, Hang, Recover, Die, Reuse
<1>16. ASSUME ForeignPort PROVE swept' = {} => Booted'
  BY <1>16 DEF ForeignPort
<1>17. ASSUME UNCHANGED vars PROVE swept' = {} => Booted'
  BY <1>17 DEF vars
<1> QED
  BY <1>1, <1>2, <1>3, <1>4, <1>5, <1>6, <1>7, <1>8, <1>9, <1>10, <1>11, <1>12, <1>13, <1>14,
     <1>15, <1>16, <1>17 DEF Next, Step

LEMMA SeesStep == ASSUME SerialInv, ~HangsEnd, Orderly, Orderly', [Next]_vars PROVE swept' = {} => SeesStarted'
<1> USE DaemonAssumption, ActorsAre
    DEF SerialInv, IInv, TypeOK, Roles, Fresh, OwnChildren, PortHeld, OneLives,
        SeesStarted, Booted, Orderly, Engaged, Inside, StopsDead, Goto, Running, Living, AfterSpawn, Judging,
        BeforeSpawn, StartSteps, StopSteps, LockSteps, Health, IsAlive, ManagedProcess
<1>1. ASSUME NEW o \in Operators, Begin(o, "start") \/ Begin(o, "stop")
      PROVE  swept' = {} => SeesStarted'
  BY <1>1 DEF Begin
<1>2. ASSUME NEW o \in Observers, Begin(o, "status") PROVE swept' = {} => SeesStarted'
  BY <1>2 DEF Begin
<1>3. ASSUME NEW o \in Operators, OperatorDies(o) PROVE swept' = {} => SeesStarted'
  BY <1>3 DEF OperatorDies
<1>4. ASSUME NEW o \in Actors, CreateLock(o) \/ StampLock(o) \/ InspectLock(o)
      PROVE  swept' = {} => SeesStarted'
  BY <1>4 DEF CreateLock, StampLock, InspectLock
<1>5. ASSUME NEW o \in Actors, UnlinkLock(o) \/ ReleaseLock(o) PROVE swept' = {} => SeesStarted'
  BY <1>5 DEF UnlinkLock, ReleaseLock
<1>6. ASSUME NEW o \in Actors, ReadPidFile(o) PROVE swept' = {} => SeesStarted'
  BY <1>6 DEF ReadPidFile, Answer
<1>7. ASSUME NEW o \in Actors, Check(o) \/ CheckHealth(o) PROVE swept' = {} => SeesStarted'
  BY <1>7 DEF Check, CheckHealth, Answer
<1>8. ASSUME NEW o \in Actors, Clean(o) PROVE swept' = {} => SeesStarted'
  <2> SUFFICES ASSUME swept' = {}, told' # Absent, child'[told'] = "serving"
               PROVE  SeesStarted'
    BY DEF SeesStarted
  <2>1. /\ swept = {} /\ told = told' /\ child' = child /\ pidFile = told
        /\ kind[o] # "stop" /\ pc[o] = "clean" /\ info' = info
    BY <1>8 DEF Clean
  <2>2. kind[o] # "start"
    BY <2>1
  <2>3. kind[o] = "status"
    BY <2>1, <2>2
  <2>4. told \in swept'
    BY <1>8, <2>1, <2>3 DEF Clean
  <2> QED
    BY <2>4
<1>9. ASSUME NEW o \in Actors, Spawn(o) PROVE swept' = {} => SeesStarted'
  BY <1>9 DEF Spawn, Answer
<1>10. ASSUME NEW o \in Actors, Record(o) PROVE swept' = {} => SeesStarted'
  BY <1>10 DEF Record
<1>11. ASSUME NEW o \in Actors, CheckOwner(o) \/ WaitSucceeds(o) \/ WaitFails(o)
       PROVE  swept' = {} => SeesStarted'
  BY <1>11 DEF CheckOwner, WaitSucceeds, WaitFails
<1>12. ASSUME NEW o \in Actors, Finish(o) PROVE swept' = {} => SeesStarted'
  BY <1>12 DEF Finish, Answer
<1>13. ASSUME NEW o \in Actors, Unrecord(o) \/ Abort(o) PROVE swept' = {} => SeesStarted'
  BY <1>13 DEF Unrecord, Abort, Answer
<1>14. ASSUME NEW o \in Actors, Signal(o) \/ Poll(o) \/ Kill(o) PROVE swept' = {} => SeesStarted'
  BY <1>14 DEF Signal, Poll, Kill
<1>15. ASSUME NEW d \in Children, Listen(d) \/ Hang(d) \/ Recover(d) \/ Die(d) \/ Reuse(d)
       PROVE  swept' = {} => SeesStarted'
  BY <1>15 DEF Listen, Hang, Recover, Die, Reuse
<1>16. ASSUME ForeignPort PROVE swept' = {} => SeesStarted'
  BY <1>16 DEF ForeignPort
<1>17. ASSUME UNCHANGED vars PROVE swept' = {} => SeesStarted'
  BY <1>17 DEF vars
<1> QED
  BY <1>1, <1>2, <1>3, <1>4, <1>5, <1>6, <1>7, <1>8, <1>9, <1>10, <1>11, <1>12, <1>13, <1>14,
     <1>15, <1>16, <1>17 DEF Next, Step

(* As long as operations do not overlap, whoever calls them, a daemon that   *)
(* was reported started and serves is the one on record, beside any number   *)
(* of Status, kills of operators, and processes that come for the port.      *)
THEOREM StartedStaysRecorded ==
    ASSUME ~HangsEnd PROVE Spec /\ []Orderly => []StartedIsRecorded
<1>1. Init => SerialInv
  <2> SUFFICES ASSUME Init PROVE SerialInv
    OBVIOUS
  <2>1. /\ IInv /\ PortHeld
        /\ told # Absent => told = Old /\ pidFile = Old /\ child[Old] = "serving"
        /\ \A d \in Children : child[d] \in Living => d = told
    BY InitInv, DaemonAssumption DEF Init, PortHeld, Living
  <2>2. \A o \in Operators : pc[o] = "idle"
    BY ActorsAre DEF Init
  <2> QED
    BY <2>1, <2>2 DEF SerialInv, OneLives, Booted, SeesStarted, Judging, StartSteps, StopSteps
<1>2. ASSUME SerialInv, Orderly, Orderly', [Next]_vars PROVE SerialInv'
  <2>1. IInv'
    BY <1>2, TypeStep, RolesStep, FreshStep, OwnStep, UnrecordedStep, SignalStep, FailStep,
       StopStep
    DEF SerialInv, IInv
  <2> QED
    BY <1>2, <2>1, PortStep, LivesStep, BootedStep, SeesStep DEF SerialInv
<1>3. SerialInv => StartedIsRecorded
  BY DEF SerialInv, SeesStarted, StartedIsRecorded
<1> QED
  BY <1>1, <1>2, <1>3, PTL DEF Spec
=============================================================================
