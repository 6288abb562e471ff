------------------------- MODULE LogfileLock_proofs -------------------------
(***************************************************************************)
(* For every set of processes and every bound: the type invariant and the  *)
(* two safety invariants of LogfileLock, and that LogfileLock implements   *)
(* NotifiedLock.                                                           *)
(***************************************************************************)
EXTENDS LogfileLock, FiniteSetTheorems, TLAPS

(* Sending and taking signals keeps the queues well typed.                 *)
LEMMA SendUnlockType ==
    ASSUME TypeOK, NEW from \in Pid, NEW to \in Pid, SendUnlock(from, to)
    PROVE  unlockq' \in [Pid -> [{0, 1} -> Seq(Pid)]]
<1>1. UnlockSignal(from, to) \in {0, 1}
  BY DEF UnlockSignal
<1>2. unlockq[to][UnlockSignal(from, to)] \in Seq(Pid)
  <2>1. unlockq[to] \in [{0, 1} -> Seq(Pid)]
    BY DEF TypeOK
  <2>2. QED
    BY <1>1, <2>1
<1>3. Append(unlockq[to][UnlockSignal(from, to)], from) \in Seq(Pid)
  BY <1>2
<1>4. QED
  BY <1>1, <1>3 DEF SendUnlock, TypeOK

(* Taking SIGRTMIN+1 keeps the types.                                      *)
LEMMA TakeUnlockType ==
    ASSUME TypeOK, NEW p \in Pid, NEW s \in {0, 1}, Pending(p, s),
           TakeUnlock(p, s)
    PROVE  /\ unlockq' \in [Pid -> [{0, 1} -> Seq(Pid)]]
           /\ Head(unlockq[p][s]) \in Pid
<1>1. unlockq[p][s] \in Seq(Pid) /\ unlockq[p][s] # <<>>
  BY DEF TypeOK, Pending
<1>2. Tail(unlockq[p][s]) \in Seq(Pid) /\ Head(unlockq[p][s]) \in Pid
  BY <1>1
<1>3. QED
  BY <1>2 DEF TakeUnlock, TypeOK

(* Acknowledging an unlock request keeps the types.                        *)
LEMMA SendAckType ==
    ASSUME TypeOK, NEW to \in Pid, SendAck(to)
    PROVE  ackq' \in [Pid -> Nat]
BY DEF SendAck, TypeOK

(* Sending SIGRTMIN+2 to the monitors keeps the types.                     *)
LEMMA SendRelocksType ==
    ASSUME TypeOK, NEW p \in Pid, SendRelocks(p)
    PROVE  relockq' \in [Pid -> [{2, 3} -> Nat]]
<1>1. ASSUME NEW q \in Pid
      PROVE  [relockq[q] EXCEPT ![RelockSignal(p, q)] = @ + watchers[p][q]]
                \in [{2, 3} -> Nat]
  <2>1. RelockSignal(p, q) \in {2, 3}
    BY DEF RelockSignal
  <2>2. relockq[q] \in [{2, 3} -> Nat] /\ watchers[p][q] \in Nat
    BY DEF TypeOK
  <2>3. QED
    BY <2>1, <2>2
<1>2. QED
  BY <1>1 DEF SendRelocks, TypeOK

(* Forgetting a monitor that is gone keeps the types.                      *)
LEMMA ForgetType ==
    ASSUME TypeOK, NEW p \in Pid, Forget(p)
    PROVE  /\ flock' \in [Pid -> Flock] /\ level' \in [Pid -> Level]
           /\ unlockq' \in [Pid -> [{0, 1} -> Seq(Pid)]]
           /\ relockq' \in [Pid -> [{2, 3} -> Nat]]
           /\ ackq' \in [Pid -> Nat]
           /\ view' \in [Pid -> View]
<1>1. NoUnlocks \in [{0, 1} -> Seq(Pid)]
  BY DEF NoUnlocks
<1>2. NoRelocks \in [{2, 3} -> Nat]
  BY DEF NoRelocks
<1>3. QED
  BY <1>1, <1>2 DEF TypeOK, Forget, Flock, Level, View

(* The death of a process keeps the types.                                 *)
LEMMA DieType ==
    ASSUME TypeOK, NEW p \in Pid, Die(p), timeouts' \in Nat, crashed' \in Nat
    PROVE  TypeOK'
<1>1. Forget(p)
  BY DEF Die
<1>2. NoWatchers \in [Pid -> Nat]
  BY DEF NoWatchers
<1>3. QED
  BY <1>1, <1>2, ForgetType DEF TypeOK, Die, PC, Handler

-----------------------------------------------------------------------------
(* Every step keeps the variables in their types.                          *)
LEMMA TypeStep == TypeOK /\ [Next]_vars => TypeOK'
<1> USE DEF locks, control, counts, signals, bounds
<1> SUFFICES ASSUME TypeOK, [Next]_vars PROVE TypeOK'
  OBVIOUS
<1>1. CASE UNCHANGED vars
  BY <1>1 DEF vars, TypeOK
<1>2. ASSUME NEW p \in Pid, NEW type \in Level, ChangeFdLock(p, type)
      PROVE  TypeOK'
  <2>1. attempts' \in Nat
    <3>1. attempts' = attempts + 1 \/ attempts' = attempts
      BY <1>2 DEF ChangeFdLock
    <3>2. QED
      BY <3>1 DEF TypeOK
  <2>2. QED
    BY <1>2, <2>1 DEF ChangeFdLock, TypeOK, PC
<1>3. ASSUME NEW p \in Pid, SetLock(p) PROVE TypeOK'
  BY <1>3 DEF SetLock, TypeOK, PC, FlockFor, Flock
<1>4. ASSUME NEW p \in Pid, AskHolder(p) PROVE TypeOK'
  <2>1. PICK q \in Conflicts(p, FlockFor(want[p])) :
           /\ outgoing' = [outgoing EXCEPT ![p] = @ + 1]
           /\ SendUnlock(p, q)
           /\ watchers' = [watchers EXCEPT ![p][q] = @ + 1]
    BY <1>4 DEF AskHolder
  <2>2. q \in Pid
    BY <2>1 DEF Conflicts
  <2>3. unlockq' \in [Pid -> [{0, 1} -> Seq(Pid)]]
    BY <2>1, <2>2, SendUnlockType
  <2>4. watchers' \in [Pid -> [Pid -> Nat]]
    <3>1. watchers[p] \in [Pid -> Nat] /\ watchers \in [Pid -> [Pid -> Nat]]
      BY DEF TypeOK
    <3>2. [watchers[p] EXCEPT ![q] = @ + 1] \in [Pid -> Nat]
      BY <3>1, <2>2
    <3>3. QED
      BY <2>1, <3>1, <3>2
  <2>5. outgoing' \in [Pid -> Nat]
    BY <2>1 DEF TypeOK
  <2>6. UNCHANGED <<flock, level, pc, want, alarm, handler, incoming, relockq,
                    ackq, view, attempts, timeouts, detached, crashed>>
    BY <1>4 DEF AskHolder
  <2>7. QED
    BY <2>3, <2>4, <2>5, <2>6 DEF TypeOK
<1>5. ASSUME NEW p \in Pid, FlushLogfileWatchers(p) PROVE TypeOK'
  <2>1. relockq' \in [Pid -> [{2, 3} -> Nat]]
    BY <1>5, SendRelocksType DEF FlushLogfileWatchers
  <2>2. QED
    BY <1>5, <2>1 DEF FlushLogfileWatchers, TypeOK, PC, NoWatchers
<1>6. ASSUME NEW p \in Pid, Return(p) PROVE TypeOK'
  BY <1>6 DEF Return, TypeOK, PC
<1>7. ASSUME NEW p \in Pid, NEW s \in {0, 1}, HandleSigrtmin1(p, s)
      PROVE  TypeOK'
  <2>1. Pending(p, s) /\ TakeUnlock(p, s) /\ SendAck(Head(unlockq[p][s]))
    BY <1>7 DEF HandleSigrtmin1, Delivered, Lowest
  <2>2. unlockq' \in [Pid -> [{0, 1} -> Seq(Pid)]]
    BY <2>1, TakeUnlockType
  <2>3. ackq' \in [Pid -> Nat]
    BY <2>1, TakeUnlockType, SendAckType
  <2>4. /\ incoming' = [incoming EXCEPT ![p] = @ + 1]
        /\ flock' = [flock EXCEPT ![p] = "none"]
        /\ handler' = [handler EXCEPT ![p] = "select"]
        /\ UNCHANGED <<level, pc, want, alarm, outgoing, relockq, watchers,
                       view, attempts, timeouts, detached, crashed>>
    BY <1>7 DEF HandleSigrtmin1
  <2>5. incoming' \in [Pid -> Nat]
    BY <2>4 DEF TypeOK
  <2>6. QED
    BY <2>2, <2>3, <2>4, <2>5 DEF TypeOK, Flock, Handler
<1>8. ASSUME NEW p \in Pid, NEW s \in {0, 1}, HandleSigrtmin1Recursive(p, s)
      PROVE  TypeOK'
  <2>1. Pending(p, s) /\ TakeUnlock(p, s) /\ SendAck(Head(unlockq[p][s]))
    BY <1>8 DEF HandleSigrtmin1Recursive, Delivered, Lowest
  <2>2. unlockq' \in [Pid -> [{0, 1} -> Seq(Pid)]]
    BY <2>1, TakeUnlockType
  <2>3. ackq' \in [Pid -> Nat]
    BY <2>1, TakeUnlockType, SendAckType
  <2>4. /\ incoming' = [incoming EXCEPT ![p] = @ + 1]
        /\ UNCHANGED <<flock, level, pc, want, alarm, handler, outgoing,
                       relockq, watchers, view, attempts, timeouts, detached,
                       crashed>>
    BY <1>8 DEF HandleSigrtmin1Recursive
  <2>5. incoming' \in [Pid -> Nat]
    BY <2>4 DEF TypeOK
  <2>6. QED
    BY <2>2, <2>3, <2>4, <2>5 DEF TypeOK
<1>9. ASSUME NEW p \in Pid, NEW s \in {2, 3}, HandleSigrtmin2(p, s)
      PROVE  TypeOK'
  <2>1. relockq[p][s] > 0
    BY <1>9 DEF HandleSigrtmin2, Delivered, Lowest, Pending
  <2>2. relockq[p][s] - 1 \in Nat
    BY <2>1 DEF TypeOK
  <2>3. Decrement(incoming[p]) \in Nat
    BY DEF Decrement, TypeOK
  <2>4. relockq' \in [Pid -> [{2, 3} -> Nat]]
    <3>1. relockq[p] \in [{2, 3} -> Nat] /\ relockq \in [Pid -> [{2, 3} -> Nat]]
      BY DEF TypeOK
    <3>2. [relockq[p] EXCEPT ![s] = @ - 1] \in [{2, 3} -> Nat]
      BY <3>1, <2>2
    <3>3. QED
      BY <1>9, <3>1, <3>2 DEF HandleSigrtmin2
  <2>5. incoming' \in [Pid -> Nat]
    BY <1>9, <2>3 DEF HandleSigrtmin2, TypeOK
  <2>6. UNCHANGED <<flock, level, pc, want, alarm, handler, outgoing, unlockq,
                    ackq, watchers, view, attempts, timeouts, detached,
                    crashed>>
    BY <1>9 DEF HandleSigrtmin2
  <2>7. QED
    BY <2>4, <2>5, <2>6 DEF TypeOK
<1>10. ASSUME NEW p \in Pid, HandleSigrtmin4(p) PROVE TypeOK'
  <2>1. ackq[p] > 0
    BY <1>10 DEF HandleSigrtmin4, Delivered, Lowest, Pending
  <2>2. ackq[p] - 1 \in Nat /\ Decrement(outgoing[p]) \in Nat
    BY <2>1 DEF Decrement, TypeOK
  <2>3. QED
    BY <1>10, <2>2 DEF HandleSigrtmin4, TypeOK
<1>11. ASSUME NEW p \in Pid, SelectReturns(p) PROVE TypeOK'
  <2>1. timeouts' \in Nat
    BY <1>11 DEF SelectReturns, HandlerTimesOut, TypeOK
  <2>2. handler' \in [Pid -> Handler] /\ incoming' \in [Pid -> Nat]
    BY <1>11 DEF SelectReturns, TypeOK, Handler
  <2>3. UNCHANGED <<flock, level, pc, want, alarm, outgoing, unlockq, relockq,
                    ackq, watchers, view, attempts, detached, crashed>>
    BY <1>11 DEF SelectReturns
  <2>4. QED
    BY <2>1, <2>2, <2>3 DEF TypeOK
<1>12. ASSUME NEW p \in Pid, Relock(p) PROVE TypeOK'
  BY <1>12 DEF Relock, ServerCancel, TypeOK, Handler, Flock, View
<1>13. ASSUME NEW p \in Pid, AlarmFails(p) PROVE TypeOK'
  BY <1>13 DEF AlarmFails, TypeOK, PC, Level
<1>14. ASSUME NEW p \in Pid, AlarmLost(p) PROVE TypeOK'
  BY <1>14 DEF AlarmLost, TypeOK
<1>15. ASSUME NEW p \in Pid, RelockAborts(p) PROVE TypeOK'
  <2>1. Die(p) /\ timeouts' = timeouts + 1 /\ crashed' = crashed
    BY <1>15 DEF RelockAborts, HandlerTimesOut
  <2>2. timeouts' \in Nat /\ crashed' \in Nat
    BY <2>1 DEF TypeOK
  <2>3. QED
    BY <2>1, <2>2, DieType
<1>16. ASSUME NEW p \in Pid, Detach(p) PROVE TypeOK'
  <2>1. Forget(p) /\ detached' = detached + 1
    BY <1>16 DEF Detach
  <2>2. detached' \in Nat
    BY <2>1 DEF TypeOK
  <2>3. UNCHANGED <<pc, want, alarm, handler, incoming, outgoing, watchers,
                    attempts, timeouts, crashed>>
    BY <1>16 DEF Detach
  <2>4. QED
    BY <2>1, <2>2, <2>3, ForgetType DEF TypeOK
<1>17. ASSUME NEW p \in Pid, Crash(p) PROVE TypeOK'
  <2>1. Die(p) /\ crashed' = crashed + 1 /\ timeouts' = timeouts
    BY <1>17 DEF Crash
  <2>2. timeouts' \in Nat /\ crashed' \in Nat
    BY <2>1 DEF TypeOK
  <2>3. QED
    BY <2>1, <2>2, DieType
<1>18. ASSUME NEW p \in Pid, Write(p) PROVE TypeOK'
  BY <1>18 DEF Write, TypeOK, View
<1>19. ASSUME NEW p \in Pid, Reread(p) PROVE TypeOK'
  BY <1>19 DEF Reread, TypeOK, View
<1>20. QED
  BY <1>1, <1>2, <1>3, <1>4, <1>5, <1>6, <1>7, <1>8, <1>9, <1>10, <1>11,
     <1>12, <1>13, <1>14, <1>15, <1>16, <1>17, <1>18, <1>19
     DEF Next, Locking, Handlers

(* The variables always have the types of the C objects they stand for.    *)
THEOREM TypeCorrect == Spec => []TypeOK
<1>1. Init => TypeOK
  BY DEF Init, TypeOK, Flock, Level, PC, Handler, View, NoUnlocks, NoRelocks,
         NoWatchers
<1>2. QED
  BY <1>1, TypeStep, PTL DEF Spec

-----------------------------------------------------------------------------
(* The part of IInv that is not typing, and the types it needs.            *)
Safe == /\ LevelIsHeld /\ KernelExcludes /\ HandlerFromMonitor
        /\ HoldersDoNotWait /\ OutsidersKnowNothing /\ NobodyIsStale

Types == /\ flock \in [Pid -> Flock] /\ level \in [Pid -> Level]
         /\ pc \in [Pid -> PC] /\ want \in [Pid -> Level]
         /\ handler \in [Pid -> Handler] /\ outgoing \in [Pid -> Nat]
         /\ view \in [Pid -> View] /\ DOMAIN unlockq = Pid

(* The invariant is its typing part and its safety part.                   *)
LEMMA InvSplit == IInv <=> TypeOK /\ Safe
BY DEF IInv, Safe

(* The type invariant gives each variable its type.                        *)
LEMMA TypesHold == TypeOK => Types
BY DEF TypeOK, Types

(* What a step must leave alone for Safe to survive without more ado.      *)
Untouched == UNCHANGED <<flock, level, pc, want, handler, outgoing, unlockq,
                         view>>

(* A step that touches nothing the invariant is about keeps it.            *)
LEMMA UntouchedSafe == Safe /\ Untouched => Safe'
BY DEF Untouched, Safe, LevelIsHeld, KernelExcludes, HandlerFromMonitor,
       HoldersDoNotWait, OutsidersKnowNothing, NobodyIsStale

(* A process enters handle_sigrtmin1 only from a monitor lock: while it    *)
(* holds more, or waits without an answer to come, the signal is masked.   *)
LEMMA HandlerStartsAtMonitor ==
    ASSUME TypeOK, Safe, NEW p \in Pid, NEW s \in {0, 1},
           HandleSigrtmin1(p, s)
    PROVE  /\ level[p] = "monitor"
           /\ pc[p] \in {"run", "wait", "unmask"}
           /\ handler[p] = "none"
<1>1. handler[p] = "none" /\ s \in Unmasked(p) /\ unlockq[p][s] # <<>>
  BY DEF HandleSigrtmin1, Delivered, Deliverable, Lowest, Pending
<1>2. pc[p] \in {"run", "wait", "unmask"}
  BY <1>1 DEF Unmasked
<1>3. level[p] # "none"
  BY <1>1 DEF Safe, OutsidersKnowNothing, NoUnlocks
<1>4. level[p] \notin {"read", "write"}
  <2>1. CASE pc[p] = "wait"
    <3>1. outgoing[p] > 0
      BY <1>1, <2>1 DEF Unmasked
    <3>2. QED
      BY <3>1 DEF Safe, HoldersDoNotWait
  <2>2. CASE pc[p] \in {"run", "unmask"}
    BY <1>1, <2>2 DEF Unmasked
  <2>3. QED
    BY <1>2, <2>1, <2>2
<1>5. QED
  BY <1>1, <1>2, <1>3, <1>4 DEF TypeOK, Level

(* Signals are queued only for processes that hold a lock.                 *)
LEMMA AskedHoldersOnly ==
    ASSUME TypeOK, Safe, NEW p \in Pid, AskHolder(p)
    PROVE  \A r \in Pid : level[r] = "none" => unlockq'[r] = unlockq[r]
<1>1. PICK q \in Conflicts(p, FlockFor(want[p])) : SendUnlock(p, q)
  BY DEF AskHolder
<1>2. q \in Pid /\ flock[q] # "none"
  BY <1>1 DEF Conflicts
<1>3. level[q] # "none"
  BY <1>2 DEF Safe, OutsidersKnowNothing
<1>4. QED
  BY <1>1, <1>2, <1>3 DEF SendUnlock, TypeOK

(* A process that asks is at a monitor lock, or not attached yet: one that *)
(* holds a read or write lock finds no other lock in its way.              *)
LEMMA AskersDoNotHold ==
    ASSUME TypeOK, Safe, NEW p \in Pid, AskHolder(p)
    PROVE  level[p] \notin {"read", "write"}
<1>1. PICK q \in Conflicts(p, FlockFor(want[p])) : TRUE
  BY DEF AskHolder
<1>2. q \in Pid /\ q # p /\ pc[p] = "wait" /\ handler[p] = "none"
  BY <1>1 DEF AskHolder, TryingLock, Conflicts
<1>3. level[p] = "write" => flock[p] = "write"
  BY DEF Safe, LevelIsHeld
<1>4. level[p] = "read" => flock[p] # "none" /\ want[p] # "write"
  BY <1>2 DEF Safe, LevelIsHeld, HoldersDoNotWait
<1>5. flock[q] # "none"
  BY <1>1 DEF Conflicts
<1>6. flock[p] # "write"
  BY <1>2, <1>5 DEF Safe, KernelExcludes
<1>7. flock[p] # "none" => flock[q] # "write"
  BY <1>2 DEF Safe, KernelExcludes
<1>8. level[p] = "read" => q \notin Conflicts(p, FlockFor(want[p]))
  BY <1>4, <1>7 DEF Conflicts, FlockFor
<1>9. QED
  BY <1>1, <1>3, <1>6, <1>8

-----------------------------------------------------------------------------
(* Every step keeps the safety part.                                       *)
LEMMA SafeStep == TypeOK /\ Safe /\ [Next]_vars => Safe'
<1> USE DEF locks, control, counts, signals, bounds
<1> SUFFICES ASSUME TypeOK, Safe, [Next]_vars PROVE Safe'
  OBVIOUS
<1>1. Types
  BY TypesHold
<1>2. CASE UNCHANGED vars
  BY <1>2, UntouchedSafe DEF vars, Untouched
<1>3. ASSUME NEW p \in Pid, NEW type \in Level, ChangeFdLock(p, type)
      PROVE  Safe'
  BY <1>1, <1>3 DEF ChangeFdLock, InOrdinaryCode, Types, Safe, LevelIsHeld,
     KernelExcludes, HandlerFromMonitor, HoldersDoNotWait,
     OutsidersKnowNothing, NobodyIsStale
<1>4. ASSUME NEW p \in Pid, SetLock(p) PROVE Safe'
  BY <1>1, <1>4 DEF SetLock, TryingLock, Conflicts, FlockFor, Types, Flock,
     Level, Safe, LevelIsHeld, KernelExcludes, HandlerFromMonitor,
     HoldersDoNotWait, OutsidersKnowNothing, NobodyIsStale
<1>5. ASSUME NEW p \in Pid, AskHolder(p) PROVE Safe'
  <2>1. /\ level[p] \notin {"read", "write"} /\ pc[p] = "wait"
        /\ \A r \in Pid : level[r] = "none" => unlockq'[r] = unlockq[r]
        /\ \A r \in Pid \ {p} : outgoing'[r] = outgoing[r]
        /\ UNCHANGED <<flock, level, pc, want, handler, view>>
    BY <1>1, <1>5, AskersDoNotHold, AskedHoldersOnly
       DEF AskHolder, TryingLock, Types
  <2>2. QED
    BY <2>1 DEF Safe, LevelIsHeld, KernelExcludes, HandlerFromMonitor,
       HoldersDoNotWait, OutsidersKnowNothing, NobodyIsStale
<1>6. ASSUME NEW p \in Pid, FlushLogfileWatchers(p) PROVE Safe'
  BY <1>1, <1>6 DEF FlushLogfileWatchers, Types, Safe, LevelIsHeld,
     KernelExcludes, HandlerFromMonitor, HoldersDoNotWait,
     OutsidersKnowNothing, NobodyIsStale
<1>7. ASSUME NEW p \in Pid, Return(p) PROVE Safe'
  BY <1>1, <1>7 DEF Return, Types, Safe, LevelIsHeld,
     KernelExcludes, HandlerFromMonitor, HoldersDoNotWait,
     OutsidersKnowNothing, NobodyIsStale
<1>8. ASSUME NEW p \in Pid, NEW s \in {0, 1}, HandleSigrtmin1(p, s)
      PROVE  Safe'
  <2>1. /\ level[p] = "monitor" /\ pc[p] \in {"run", "wait", "unmask"}
        /\ flock' = [flock EXCEPT ![p] = "none"]
        /\ handler' = [handler EXCEPT ![p] = "select"]
        /\ \A r \in Pid \ {p} : unlockq'[r] = unlockq[r]
        /\ UNCHANGED <<level, pc, want, outgoing, view>>
    BY <1>1, <1>8, HandlerStartsAtMonitor
       DEF HandleSigrtmin1, TakeUnlock, Types
  <2>2. QED
    BY <1>1, <2>1 DEF Types, Safe, LevelIsHeld, KernelExcludes,
       HandlerFromMonitor, HoldersDoNotWait, OutsidersKnowNothing,
       NobodyIsStale
<1>9. ASSUME NEW p \in Pid, NEW s \in {0, 1}, HandleSigrtmin1Recursive(p, s)
      PROVE  Safe'
  <2>1. /\ handler[p] # "none"
        /\ \A r \in Pid \ {p} : unlockq'[r] = unlockq[r]
        /\ UNCHANGED <<flock, level, pc, want, handler, outgoing, view>>
    BY <1>1, <1>9 DEF HandleSigrtmin1Recursive, TakeUnlock, Types
  <2>2. QED
    BY <1>1, <2>1 DEF Types, Safe, LevelIsHeld, KernelExcludes,
       HandlerFromMonitor, HoldersDoNotWait, OutsidersKnowNothing,
       NobodyIsStale
<1>10. ASSUME NEW p \in Pid, NEW s \in {2, 3}, HandleSigrtmin2(p, s)
      PROVE  Safe'
  BY <1>10, UntouchedSafe DEF HandleSigrtmin2, Untouched
<1>11. ASSUME NEW p \in Pid, HandleSigrtmin4(p) PROVE Safe'
  <2>1. /\ outgoing' = [outgoing EXCEPT ![p] = Decrement(@)]
        /\ UNCHANGED <<flock, level, pc, want, handler, unlockq, view>>
    BY <1>11 DEF HandleSigrtmin4
  <2>2. QED
    BY <1>1, <2>1 DEF Decrement, Types, Safe, LevelIsHeld, KernelExcludes,
       HandlerFromMonitor, HoldersDoNotWait, OutsidersKnowNothing,
       NobodyIsStale
<1>12. ASSUME NEW p \in Pid, SelectReturns(p) PROVE Safe'
  BY <1>1, <1>12 DEF SelectReturns, Types, Safe, LevelIsHeld,
     KernelExcludes, HandlerFromMonitor, HoldersDoNotWait,
     OutsidersKnowNothing, NobodyIsStale
<1>13. ASSUME NEW p \in Pid, Relock(p) PROVE Safe'
  BY <1>1, <1>13 DEF Relock, ServerCancel, Conflicts, Types, Flock, Safe, LevelIsHeld,
     KernelExcludes, HandlerFromMonitor, HoldersDoNotWait,
     OutsidersKnowNothing, NobodyIsStale
<1>14. ASSUME NEW p \in Pid, AlarmFails(p) PROVE Safe'
  BY <1>1, <1>14 DEF AlarmFails, Types, Level, Safe, LevelIsHeld,
     KernelExcludes, HandlerFromMonitor, HoldersDoNotWait,
     OutsidersKnowNothing, NobodyIsStale
<1>15. ASSUME NEW p \in Pid, AlarmLost(p) PROVE Safe'
  BY <1>15, UntouchedSafe DEF AlarmLost, Untouched
<1>16. ASSUME NEW p \in Pid, Die(p) PROVE Safe'
  BY <1>1, <1>16 DEF Die, Forget, Types, Safe, LevelIsHeld,
     KernelExcludes, HandlerFromMonitor, HoldersDoNotWait,
     OutsidersKnowNothing, NobodyIsStale
<1>17. ASSUME NEW p \in Pid, Detach(p) PROVE Safe'
  BY <1>1, <1>17 DEF Detach, InOrdinaryCode, Forget, Types, Safe, LevelIsHeld,
     KernelExcludes, HandlerFromMonitor, HoldersDoNotWait,
     OutsidersKnowNothing, NobodyIsStale
<1>18. ASSUME NEW p \in Pid, Write(p) PROVE Safe'
  BY <1>1, <1>18 DEF Write, InOrdinaryCode, Types, Safe, LevelIsHeld,
     KernelExcludes, HandlerFromMonitor, HoldersDoNotWait,
     OutsidersKnowNothing, NobodyIsStale
<1>19. ASSUME NEW p \in Pid, Reread(p) PROVE Safe'
  BY <1>1, <1>19 DEF Reread, InOrdinaryCode, Types, Safe, LevelIsHeld,
     KernelExcludes, HandlerFromMonitor, HoldersDoNotWait,
     OutsidersKnowNothing, NobodyIsStale
<1>20. QED
  BY <1>2, <1>3, <1>4, <1>5, <1>6, <1>7, <1>8, <1>9, <1>10, <1>11, <1>12,
     <1>13, <1>14, <1>15, <1>16, <1>17, <1>18, <1>19
     DEF Next, Locking, Handlers, RelockAborts, Crash

(* The inductive invariant: why the two safety properties hold.            *)
THEOREM Invariance == Spec => []IInv
<1>1. Init => TypeOK
  BY DEF Init, TypeOK, Flock, Level, PC, Handler, View, NoUnlocks, NoRelocks,
         NoWatchers
<1>2. Init => Safe
  BY DEF Init, Safe, LevelIsHeld, KernelExcludes, HandlerFromMonitor,
     HoldersDoNotWait, OutsidersKnowNothing, NobodyIsStale
<1>3. IInv /\ [Next]_vars => IInv'
  BY TypeStep, SafeStep, InvSplit DEF IInv, Safe
<1>4. Init => IInv
  BY <1>1, <1>2, InvSplit
<1>5. QED
  BY <1>3, <1>4, PTL DEF Spec

(* Write locks exclude every process that is not inside handle_sigrtmin1:  *)
(* the others hold the fcntl lock their level stands for.                  *)
THEOREM WritersAreAlone == Spec => []WriterIsAlone
<1>1. IInv => WriterIsAlone
  BY DEF IInv, LevelIsHeld, KernelExcludes, WriterIsAlone
<1>2. QED
  BY <1>1, Invariance, PTL

(* No process acts on a gamestate that was changed behind its back.        *)
THEOREM NobodyStale == Spec => []NobodyIsStale
<1>1. IInv => NobodyIsStale
  BY DEF IInv
<1>2. QED
  BY <1>1, Invariance, PTL

-----------------------------------------------------------------------------
(* Refinement                                                              *)

(* Most of the protocol is invisible to the code that uses the lock.       *)
LEMMA Invisible ==
    UNCHANGED <<level, handler, view>> => UNCHANGED Abstract!vars
BY DEF AbsMode, Abstract!vars

(* What a step of one process does to the modes.                           *)
LEMMA ModeOf ==
    ASSUME Types
    PROVE  /\ AbsMode \in [Pid -> Abstract!Mode]
           /\ \A p \in Pid : AbsMode[p] = IF handler[p] # "none" THEN "yielded"
                                          ELSE level[p]
BY DEF Types, AbsMode, Abstract!Mode, Level, Handler

(* A lock the kernel grants is one the abstract lock grants: whoever else  *)
(* is not yielded holds an fcntl lock.                                     *)
LEMMA KernelGrants ==
    ASSUME TypeOK, Safe, NEW p \in Pid
    PROVE  /\ Conflicts(p, "read") = {} => Abstract!MayRead(p)
           /\ Conflicts(p, "write") = {} => Abstract!MayWrite(p)
           /\ flock[p] # "none" => Abstract!MayRead(p)
<1>1. Types
  BY TypesHold
<1>2. ASSUME NEW q \in Pid
      PROVE  /\ AbsMode[q] = "write" => flock[q] = "write"
             /\ AbsMode[q] \notin {"none", "yielded"} => flock[q] # "none"
  BY <1>1, ModeOf DEF Safe, LevelIsHeld
<1>3. \A q \in Pid : flock[q] \in {"none", "read", "write"}
  BY <1>1 DEF Types, Flock
<1>4. Conflicts(p, "read") = {} => Abstract!MayRead(p)
  BY <1>2 DEF Conflicts, Abstract!MayRead
<1>5. Conflicts(p, "write") = {} => Abstract!MayWrite(p)
  BY <1>2, <1>3 DEF Conflicts, Abstract!MayWrite
<1>6. flock[p] # "none" => Abstract!MayRead(p)
  BY <1>2 DEF Safe, KernelExcludes, Abstract!MayRead
<1>7. QED
  BY <1>4, <1>5, <1>6

(* Every step is a step of the abstract lock, or leaves it alone.          *)
LEMMA AbstractStep ==
    TypeOK /\ TypeOK' /\ Safe /\ [Next]_vars => [Abstract!Next]_(Abstract!vars)
<1> USE DEF locks, control, counts, signals, bounds
<1> SUFFICES ASSUME TypeOK, TypeOK', Safe, [Next]_vars
             PROVE  Abstract!Next \/ UNCHANGED Abstract!vars
  OBVIOUS
<1>1. Types
  BY TypesHold
<1>2. CASE UNCHANGED vars
  BY <1>2, Invisible DEF vars
<1>3. ASSUME NEW p \in Pid, NEW type \in Level, ChangeFdLock(p, type)
      PROVE  UNCHANGED Abstract!vars
  BY <1>3, Invisible DEF ChangeFdLock
<1>4. ASSUME NEW p \in Pid, SetLock(p) PROVE Abstract!SetMode(p, want[p])
  <2>1. /\ handler[p] = "none" /\ pc[p] = "wait" /\ want[p] # "none"
        /\ Conflicts(p, FlockFor(want[p])) = {}
        /\ level' = [level EXCEPT ![p] = want[p]]
        /\ UNCHANGED <<handler, view>>
    BY <1>4 DEF SetLock, TryingLock, Safe, OutsidersKnowNothing
  <2>2. AbsMode' = [AbsMode EXCEPT ![p] = want[p]]
    BY <1>1, <2>1 DEF AbsMode, Types
  <2>3. want[p] \in {"monitor", "read"} => Abstract!MayRead(p)
    BY <2>1, KernelGrants DEF FlockFor
  <2>4. want[p] = "write" =>
           Abstract!MayWrite(p) /\ AbsMode[p] \in {"monitor", "write"}
    <3>1. want[p] = "write" => level[p] \in {"monitor", "write"}
      BY <1>1, <2>1 DEF Types, Level, Safe, HoldersDoNotWait,
         OutsidersKnowNothing
    <3>2. QED
      BY <1>1, <2>1, <3>1, KernelGrants, ModeOf DEF FlockFor
  <2>5. AbsMode[p] = "none" => view[p] = "current"
    BY <1>1, <2>1, ModeOf DEF Safe, OutsidersKnowNothing
  <2>6. view' = [view EXCEPT ![p] = IF AbsMode[p] = "none" \/ want[p] = "none"
                                    THEN "current" ELSE @]
    BY <1>1, <2>1, <2>5 DEF Types
  <2>7. AbsMode[p] # "yielded" /\ want[p] # "yielded"
    BY <1>1, <2>1, ModeOf DEF Types, Level
  <2>8. QED
    BY <2>2, <2>3, <2>4, <2>6, <2>7 DEF Abstract!SetMode
<1>5. ASSUME NEW p \in Pid, AskHolder(p) PROVE UNCHANGED Abstract!vars
  BY <1>5, Invisible DEF AskHolder
<1>6. ASSUME NEW p \in Pid, FlushLogfileWatchers(p)
      PROVE  UNCHANGED Abstract!vars
  BY <1>6, Invisible DEF FlushLogfileWatchers
<1>7. ASSUME NEW p \in Pid, Return(p) PROVE UNCHANGED Abstract!vars
  BY <1>7, Invisible DEF Return
<1>8. ASSUME NEW p \in Pid, NEW s \in {0, 1}, HandleSigrtmin1(p, s)
      PROVE  Abstract!Yield(p)
  <2>1. /\ level[p] = "monitor" /\ handler[p] = "none"
        /\ handler' = [handler EXCEPT ![p] = "select"]
        /\ UNCHANGED <<level, view>>
    BY <1>8, HandlerStartsAtMonitor DEF HandleSigrtmin1
  <2>2. AbsMode' = [AbsMode EXCEPT ![p] = "yielded"]
    BY <1>1, <2>1 DEF AbsMode, Types
  <2>3. AbsMode[p] = "monitor"
    BY <1>1, <2>1, ModeOf
  <2>4. QED
    BY <2>1, <2>2, <2>3 DEF Abstract!Yield
<1>9. ASSUME NEW p \in Pid, NEW s \in {0, 1}, HandleSigrtmin1Recursive(p, s)
      PROVE  UNCHANGED Abstract!vars
  BY <1>9, Invisible DEF HandleSigrtmin1Recursive
<1>10. ASSUME NEW p \in Pid, NEW s \in {2, 3}, HandleSigrtmin2(p, s)
      PROVE  UNCHANGED Abstract!vars
  BY <1>10, Invisible DEF HandleSigrtmin2
<1>11. ASSUME NEW p \in Pid, HandleSigrtmin4(p) PROVE UNCHANGED Abstract!vars
  BY <1>11, Invisible DEF HandleSigrtmin4
<1>12. ASSUME NEW p \in Pid, SelectReturns(p) PROVE UNCHANGED Abstract!vars
  <2>1. /\ handler[p] = "select"
        /\ handler' = [handler EXCEPT ![p] = "relock"]
        /\ UNCHANGED <<level, view>>
    BY <1>12 DEF SelectReturns
  <2>2. AbsMode' = AbsMode
    BY <1>1, <2>1 DEF AbsMode, Types
  <2>3. QED
    BY <2>1, <2>2 DEF Abstract!vars
<1>13. ASSUME NEW p \in Pid, Relock(p) PROVE Abstract!Resume(p)
  <2>1. PICK frozen \in BOOLEAN :
           view' = [view EXCEPT ![p] =
                       IF ~frozen THEN "told"
                       ELSE IF @ = "stale" THEN "frozen" ELSE @]
    BY <1>13 DEF Relock, ServerCancel
  <2>2. /\ handler[p] = "relock" /\ Conflicts(p, "read") = {}
        /\ handler' = [handler EXCEPT ![p] = "none"]
        /\ UNCHANGED level
    BY <1>13 DEF Relock
  <2>3. level[p] = "monitor"
    BY <2>2 DEF Safe, HandlerFromMonitor
  <2>4. AbsMode' = [AbsMode EXCEPT ![p] = "monitor"]
    BY <1>1, <2>2, <2>3 DEF AbsMode, Types
  <2>5. AbsMode[p] = "yielded"
    BY <1>1, <2>2, ModeOf
  <2>6. \/ view' = [view EXCEPT ![p] = "told"]
        \/ view' = [view EXCEPT ![p] = IF @ = "stale" THEN "frozen" ELSE @]
    BY <2>1
  <2>7. QED
    BY <2>2, <2>4, <2>5, <2>6, KernelGrants DEF Abstract!Resume
<1>14. ASSUME NEW p \in Pid, AlarmFails(p)
       PROVE  Abstract!SetMode(p, "read") \/ UNCHANGED Abstract!vars
  <2>1. /\ handler[p] = "none" /\ outgoing[p] > 0
        /\ level' = [level EXCEPT ![p] =
                        IF want[p] # "monitor" /\ @ # "none" THEN "read" ELSE @]
        /\ UNCHANGED <<handler, view>>
    BY <1>14 DEF AlarmFails
  <2>2. CASE want[p] # "monitor" /\ level[p] # "none"
    <3>1. AbsMode' = [AbsMode EXCEPT ![p] = "read"]
      BY <1>1, <2>1, <2>2 DEF AbsMode, Types
    <3>2. AbsMode[p] # "yielded" /\ AbsMode[p] # "none"
      BY <1>1, <2>1, <2>2, ModeOf DEF Types, Level
    <3>3. Abstract!MayRead(p)
      BY <2>1, <2>2, KernelGrants DEF Safe, LevelIsHeld
    <3>4. view' = [view EXCEPT ![p] = IF AbsMode[p] = "none" \/ "read" = "none"
                                      THEN "current" ELSE @]
      BY <1>1, <2>1, <3>2 DEF Types
    <3>5. QED
      BY <3>1, <3>2, <3>3, <3>4 DEF Abstract!SetMode
  <2>3. CASE ~(want[p] # "monitor" /\ level[p] # "none")
    <3>1. level' = level
      BY <1>1, <2>1, <2>3 DEF Types
    <3>2. QED
      BY <2>1, <3>1, Invisible
  <2>4. QED
    BY <2>2, <2>3
<1>15. ASSUME NEW p \in Pid, AlarmLost(p) PROVE UNCHANGED Abstract!vars
  BY <1>15, Invisible DEF AlarmLost
<1>16. ASSUME NEW p \in Pid, Die(p) PROVE Abstract!Die(p)
  <2>1. /\ level' = [level EXCEPT ![p] = "none"]
        /\ handler' = [handler EXCEPT ![p] = "none"]
        /\ view' = [view EXCEPT ![p] = "current"]
    BY <1>16 DEF Die, Forget
  <2>2. AbsMode' = [AbsMode EXCEPT ![p] = "none"]
    BY <1>1, <2>1 DEF AbsMode, Types
  <2>3. QED
    BY <2>1, <2>2 DEF Abstract!Die
<1>17. ASSUME NEW p \in Pid, Detach(p) PROVE Abstract!SetMode(p, "none")
  <2>1. /\ handler[p] = "none"
        /\ level' = [level EXCEPT ![p] = "none"]
        /\ view' = [view EXCEPT ![p] = "current"]
        /\ UNCHANGED handler
    BY <1>17 DEF Detach, InOrdinaryCode, Forget
  <2>2. AbsMode' = [AbsMode EXCEPT ![p] = "none"]
    BY <1>1, <2>1 DEF AbsMode, Types
  <2>3. AbsMode[p] # "yielded"
    BY <1>1, <2>1, ModeOf DEF Types, Level
  <2>4. QED
    BY <2>1, <2>2, <2>3 DEF Abstract!SetMode
<1>18. ASSUME NEW p \in Pid, Write(p) PROVE Abstract!Write(p)
  <2>1. /\ handler[p] = "none" /\ level[p] = "write"
        /\ view' = [q \in Pid |-> IF q # p /\ level[q] # "none" THEN "stale"
                                                               ELSE view[q]]
        /\ UNCHANGED <<level, handler>>
    BY <1>18 DEF Write, InOrdinaryCode
  <2>2. \A q \in Pid : AbsMode[q] # "none" <=> level[q] # "none"
    BY <1>1, ModeOf DEF Safe, HandlerFromMonitor
  <2>3. AbsMode' = AbsMode
    BY <2>1 DEF AbsMode
  <2>4. AbsMode[p] = "write"
    BY <1>1, <2>1, ModeOf
  <2>5. QED
    BY <2>1, <2>2, <2>3, <2>4 DEF Abstract!Write, Abstract!Attached
<1>19. ASSUME NEW p \in Pid, Reread(p) PROVE Abstract!Reread(p)
  <2>1. /\ handler[p] = "none" /\ level[p] \in {"read", "write"}
        /\ view' = [view EXCEPT ![p] = "current"]
        /\ UNCHANGED <<level, handler>>
    BY <1>19 DEF Reread, InOrdinaryCode
  <2>2. AbsMode[p] \in {"read", "write"} /\ AbsMode' = AbsMode
    BY <1>1, <2>1, ModeOf DEF AbsMode
  <2>3. QED
    BY <2>1, <2>2 DEF Abstract!Reread
<1>20. ASSUME NEW p \in Pid, NEW m \in Level, Abstract!SetMode(p, m)
       PROVE  Abstract!Next
  BY <1>20 DEF Abstract!Next, Abstract!Mode, Level
<1>21. ASSUME NEW p \in Pid,
              \/ Abstract!Yield(p) \/ Abstract!Resume(p) \/ Abstract!Die(p)
              \/ Abstract!Write(p) \/ Abstract!Reread(p)
       PROVE  Abstract!Next
  BY <1>21 DEF Abstract!Next
<1>22. "read" \in Level /\ "none" \in Level /\ \A p \in Pid : want[p] \in Level
  BY <1>1 DEF Types, Level
<1>23. QED
  BY <1>2, <1>3, <1>4, <1>5, <1>6, <1>7, <1>8, <1>9, <1>10, <1>11, <1>12,
     <1>13, <1>14, <1>15, <1>16, <1>17, <1>18, <1>19, <1>20, <1>21, <1>22
     DEF Next, Locking, Handlers, RelockAborts, Crash

(* The signal protocol implements the abstract lock.                       *)
THEOREM Implements == Spec => ImplementsNotifiedLock
<1>1. Init => Abstract!Init
  BY DEF Init, AbsMode, Abstract!Init
<1>2. IInv /\ IInv' /\ [Next]_vars => [Abstract!Next]_(Abstract!vars)
  BY AbstractStep, InvSplit DEF IInv
<1>3. QED
  BY <1>1, <1>2, Invariance, PTL DEF Spec, ImplementsNotifiedLock, Abstract!Spec

-----------------------------------------------------------------------------
(* Signals, where the processes stay: none is lost, and each is answered.  *)

(* No process leaves, dies or gives up waiting.                            *)
Staying == ~Alarms /\ MaxTimeouts = 0 /\ MaxDetach = 0 /\ MaxCrash = 0

(* The n-th signal of its kind that is pending at q is a request of p.     *)
Pends(p, q, n) ==
    LET asks == unlockq[q][UnlockSignal(p, q)] IN n \in DOMAIN asks /\ asks[n] = p

NoRequest(p) == \A q \in Pid, n \in Nat : ~Pends(p, q, n)

OneRequest(p) ==
    \E q \in Pid, n \in Nat :
        Pends(p, q, n) /\ \A r \in Pid, m \in Nat : Pends(p, r, m) => r = q /\ m = n

(* A process waits for one answer at a time, on its way or to be given.    *)
Answered(p) ==
    \/ outgoing[p] = 0 /\ ackq[p] = 0 /\ NoRequest(p)
    \/ outgoing[p] = 1 /\ ackq[p] = 1 /\ NoRequest(p)
    \/ outgoing[p] = 1 /\ ackq[p] = 0 /\ OneRequest(p)

(* A request is queued as the signal that its sender's PID calls for.      *)
RightSignals ==
    \A q \in Pid, s \in {0, 1} : \A n \in DOMAIN unlockq[q][s] :
        UnlockSignal(unlockq[q][s][n], q) = s

AnswerInv == RightSignals /\ \A p \in Pid : Answered(p)

(* The steps after which every signal that was pending still is.           *)
LEMMA NoSignalMoves ==
    ASSUME AnswerInv, UNCHANGED <<outgoing, ackq, unlockq>>
    PROVE  AnswerInv'
BY DEF AnswerInv, RightSignals, Answered, NoRequest, OneRequest, Pends

(* Where the processes stay, all of the protocol that touches requests and *)
(* their answers is asking, being asked and being answered.                *)
LEMMA StayingSteps ==
    ASSUME Staying, TypeOK, [Next]_vars
    PROVE  \/ \E p \in Pid : \/ AskHolder(p) \/ HandleSigrtmin4(p)
                             \/ \E s \in {0, 1} : HandleSigrtmin1(p, s)
                                                  \/ HandleSigrtmin1Recursive(p, s)
           \/ UNCHANGED <<outgoing, ackq, unlockq>>
<1> USE DEF locks, control, counts, signals, bounds
<1>1. CASE UNCHANGED vars
  BY <1>1 DEF vars
<1>2. ASSUME NEW p \in Pid
      PROVE  ~AlarmFails(p) /\ ~AlarmLost(p) /\ ~RelockAborts(p) /\ ~Detach(p) /\ ~Crash(p)
  BY DEF Staying, TypeOK, AlarmFails, AlarmLost, RelockAborts, HandlerTimesOut, Detach, Crash
<1>3. ASSUME NEW p \in Pid,
             \/ \E type \in Level : ChangeFdLock(p, type)
             \/ SetLock(p) \/ FlushLogfileWatchers(p) \/ Return(p)
             \/ \E s \in {2, 3} : HandleSigrtmin2(p, s)
             \/ SelectReturns(p) \/ Relock(p) \/ Write(p) \/ Reread(p)
      PROVE  UNCHANGED <<outgoing, ackq, unlockq>>
  BY <1>3 DEF ChangeFdLock, SetLock, FlushLogfileWatchers, Return, HandleSigrtmin2,
              SelectReturns, Relock, Write, Reread
<1>4. QED
  BY <1>1, <1>2, <1>3 DEF Next, Locking, Handlers

(* A process that asks has no other request on its way.                    *)
LEMMA AskingAnswered ==
    ASSUME TypeOK, Safe, AnswerInv, NEW p \in Pid, AskHolder(p)
    PROVE  AnswerInv'
<1>1. PICK q \in Conflicts(p, FlockFor(want[p])) :
         outgoing' = [outgoing EXCEPT ![p] = @ + 1] /\ SendUnlock(p, q)
  BY DEF AskHolder
<1>2. q \in Pid /\ flock[q] # "none"
  BY <1>1 DEF Conflicts
<1>3. Listening(q)
  BY <1>2 DEF Safe, OutsidersKnowNothing, Listening
<1> DEFINE s == UnlockSignal(p, q)
           asks == unlockq[q][s]
<1>4. s \in {0, 1} /\ asks \in Seq(Pid)
  <2>1. s \in {0, 1}
    BY DEF UnlockSignal
  <2>2. unlockq[q] \in [{0, 1} -> Seq(Pid)]
    BY <1>2 DEF TypeOK
  <2>3. QED
    BY <2>1, <2>2
<1>5. unlockq' = [unlockq EXCEPT ![q][s] = Append(asks, p)]
  BY <1>1, <1>3 DEF SendUnlock
<1> HIDE DEF s
<1>6. /\ unlockq'[q][s] = Append(asks, p)
      /\ \A r \in Pid, t \in {0, 1} : r # q \/ t # s => unlockq'[r][t] = unlockq[r][t]
  BY <1>2, <1>4, <1>5 DEF TypeOK
<1> DEFINE k == Len(asks) + 1
<1>7. /\ k \in Nat /\ DOMAIN Append(asks, p) = DOMAIN asks \cup {k}
      /\ k \notin DOMAIN asks /\ Append(asks, p)[k] = p
      /\ \A n \in DOMAIN asks : Append(asks, p)[n] = asks[n]
  BY <1>4
<1> HIDE DEF k
<1>8. outgoing[p] = 0 /\ ackq'= ackq
  BY DEF AskHolder, TryingLock
<1>9. ackq[p] = 0 /\ NoRequest(p)
  BY <1>8 DEF AnswerInv, Answered
<1>10. \A r, t \in Pid : UnlockSignal(r, t) \in {0, 1}
  BY DEF UnlockSignal
<1>11. \A n \in Nat, r \in Pid : Pends(p, r, n)' <=> r = q /\ n = k
  <2> TAKE n \in Nat, r \in Pid
  <2>1. CASE r = q
    <3>1. Pends(p, q, n)' <=> n \in DOMAIN Append(asks, p) /\ Append(asks, p)[n] = p
      BY <1>6 DEF Pends, s
    <3>2. ~(n \in DOMAIN asks /\ asks[n] = p)
      BY <1>2, <1>9 DEF NoRequest, Pends, s
    <3>3. QED
      BY <1>7, <2>1, <3>1, <3>2
  <2>2. CASE r # q
    BY <1>6, <1>9, <1>10, <2>2 DEF Pends, NoRequest
  <2>3. QED
    BY <2>1, <2>2
<1>12. \A u \in Pid \ {p} : \A n \in Nat, r \in Pid : Pends(u, r, n)' <=> Pends(u, r, n)
  <2> TAKE u \in Pid \ {p}
  <2> TAKE n \in Nat, r \in Pid
  <2>1. CASE r = q /\ UnlockSignal(u, r) = s
    <3>1. Pends(u, r, n)' <=> n \in DOMAIN Append(asks, p) /\ Append(asks, p)[n] = u
      BY <1>6, <2>1 DEF Pends
    <3>2. Pends(u, r, n) <=> n \in DOMAIN asks /\ asks[n] = u
      BY <2>1 DEF Pends
    <3>3. QED
      BY <1>7, <3>1, <3>2
  <2>2. CASE ~(r = q /\ UnlockSignal(u, r) = s)
    BY <1>6, <1>10, <2>2 DEF Pends
  <2>3. QED
    BY <2>1, <2>2
<1>13. Answered(p)'
  <2>1. outgoing'[p] = 1 /\ ackq'[p] = 0
    BY <1>1, <1>8, <1>9 DEF TypeOK
  <2>2. OneRequest(p)'
    BY <1>2, <1>7, <1>11 DEF OneRequest
  <2>3. QED
    BY <2>1, <2>2 DEF Answered
<1>14. ASSUME NEW u \in Pid \ {p} PROVE Answered(u)'
  <2>1. outgoing'[u] = outgoing[u] /\ ackq'[u] = ackq[u]
    BY <1>1, <1>8 DEF TypeOK
  <2>2. QED
    BY <1>12, <2>1 DEF AnswerInv, Answered, NoRequest, OneRequest
<1>15. RightSignals'
  <2> SUFFICES ASSUME NEW r \in Pid, NEW t \in {0, 1}, NEW n \in DOMAIN unlockq'[r][t]
               PROVE  UnlockSignal(unlockq'[r][t][n], r) = t
    BY DEF RightSignals
  <2>1. CASE r = q /\ t = s
    <3>1. n \in DOMAIN Append(asks, p) /\ unlockq'[r][t][n] = Append(asks, p)[n]
      BY <1>6, <2>1
    <3>2. CASE n = k
      BY <1>7, <2>1, <3>1, <3>2 DEF s
    <3>3. CASE n # k
      BY <1>2, <1>4, <1>7, <2>1, <3>1, <3>3 DEF AnswerInv, RightSignals
    <3>4. QED
      BY <3>2, <3>3
  <2>2. CASE ~(r = q /\ t = s)
    BY <1>6, <2>2 DEF AnswerInv, RightSignals
  <2>3. QED
    BY <2>1, <2>2
<1>16. QED
  BY <1>13, <1>14, <1>15 DEF AnswerInv

(* A process that is asked answers the one request that its sender made.   *)
LEMMA AnsweringAnswered ==
    ASSUME TypeOK, Safe, AnswerInv, NEW p \in Pid, NEW s \in {0, 1},
           HandleSigrtmin1(p, s) \/ HandleSigrtmin1Recursive(p, s)
    PROVE  AnswerInv'
<1>1. PICK asks \in Seq(Pid) : asks = unlockq[p][s]
  BY DEF TypeOK
<1>2. asks # <<>> /\ TakeUnlock(p, s) /\ outgoing' = outgoing
  BY <1>1 DEF HandleSigrtmin1, HandleSigrtmin1Recursive, Delivered, Lowest, Pending
<1>3. PICK h \in Pid : h = Head(asks)
  BY <1>1, <1>2
<1>4. asks \in Seq(Pid) /\ asks # <<>> /\ SendAck(h) /\ TakeUnlock(p, s) /\ outgoing' = outgoing
  BY <1>1, <1>2, <1>3 DEF HandleSigrtmin1, HandleSigrtmin1Recursive
<1>5. /\ h \in Pid /\ h = asks[1] /\ 1 \in DOMAIN asks
      /\ \A n \in Nat : /\ n \in DOMAIN Tail(asks) <=> n # 0 /\ n + 1 \in DOMAIN asks
                        /\ n \in DOMAIN Tail(asks) => Tail(asks)[n] = asks[n + 1]
  BY <1>4, <1>3
<1>6. UnlockSignal(h, p) = s
  BY <1>5, <1>1 DEF AnswerInv, RightSignals
<1>7. /\ unlockq'[p][s] = Tail(asks)
      /\ \A r \in Pid, t \in {0, 1} : r # p \/ t # s => unlockq'[r][t] = unlockq[r][t]
  BY <1>4, <1>1 DEF TypeOK, TakeUnlock
<1>8. Pends(h, p, 1)
  BY <1>5, <1>6, <1>1 DEF Pends
<1>9. outgoing[h] = 1 /\ ackq[h] = 0 /\ OneRequest(h)
  BY <1>5, <1>8 DEF AnswerInv, Answered, NoRequest
<1>10. Listening(h)
  BY <1>5, <1>9 DEF Safe, HoldersDoNotWait, Listening
<1>11. ackq' = [ackq EXCEPT ![h] = @ + 1]
  BY <1>4, <1>10 DEF SendAck
<1>12. \A r, t \in Pid : UnlockSignal(r, t) \in {0, 1}
  BY DEF UnlockSignal
<1>13. \A u, r, n : Pends(u, r, n)' <=>
          n \in DOMAIN unlockq'[r][UnlockSignal(u, r)] /\ unlockq'[r][UnlockSignal(u, r)][n] = u
  BY Zenon DEF Pends, UnlockSignal
<1>14. \A r \in Pid, m \in Nat : Pends(h, r, m) => r = p /\ m = 1
  BY <1>8, <1>9 DEF OneRequest
<1>15. NoRequest(h)'
  <2> SUFFICES ASSUME NEW r \in Pid, NEW n \in Nat PROVE ~Pends(h, r, n)'
    BY DEF NoRequest
  <2>1. CASE r = p
    <3>1. Pends(h, p, n)' => n \in DOMAIN Tail(asks) /\ Tail(asks)[n] = h
      BY <1>6, <1>7, <1>13
    <3>2. Pends(h, p, n)' => n + 1 \in DOMAIN asks /\ asks[n + 1] = h /\ n # 0
      BY <1>5, <3>1
    <3>3. Pends(h, p, n)' => Pends(h, p, n + 1) /\ n # 0
      BY <1>6, <1>1, <3>2 DEF Pends
    <3>4. QED
      BY <1>14, <2>1, <3>3
  <2>2. CASE r # p
    <3>1. Pends(h, r, n)' <=> Pends(h, r, n)
      BY <1>5, <1>7, <1>12, <1>13, <2>2 DEF Pends
    <3>2. QED
      BY <1>14, <2>2, <3>1
  <2>3. QED
    BY <2>1, <2>2
<1>16. Answered(h)'
  <2>1. outgoing'[h] = 1 /\ ackq'[h] = 1
    BY <1>4, <1>5, <1>9, <1>11 DEF TypeOK
  <2>2. QED
    BY <1>15, <2>1 DEF Answered
<1>17. ASSUME NEW u \in Pid \ {h} PROVE Answered(u)'
  <2>1. outgoing'[u] = outgoing[u] /\ ackq'[u] = ackq[u]
    BY <1>4, <1>11 DEF TypeOK
  <2>2. ASSUME NEW r \in Pid, NEW n \in Nat, ~(r = p /\ UnlockSignal(u, r) = s)
        PROVE  Pends(u, r, n)' <=> Pends(u, r, n)
    BY <1>7, <1>12, <2>2 DEF Pends
  <2>3. ASSUME UnlockSignal(u, p) = s, NEW n \in Nat
        PROVE  /\ Pends(u, p, n)' <=> n # 0 /\ Pends(u, p, n + 1)
               /\ ~Pends(u, p, 1) /\ ~Pends(u, p, 0)
    <3>1. Pends(u, p, n)' <=> n \in DOMAIN Tail(asks) /\ Tail(asks)[n] = u
      BY <1>7, <1>13, <2>3
    <3>2. \A m : Pends(u, p, m) <=> m \in DOMAIN asks /\ asks[m] = u
      BY <1>1, <2>3 DEF Pends
    <3>3. 0 \notin DOMAIN asks /\ asks[1] # u
      BY <1>4, <1>5
    <3>4. QED
      BY <1>5, <3>1, <3>2, <3>3
  <2>4. NoRequest(u) => NoRequest(u)'
    <3> SUFFICES ASSUME NoRequest(u), NEW r \in Pid, NEW n \in Nat PROVE ~Pends(u, r, n)'
      BY DEF NoRequest
    <3>1. n + 1 \in Nat
      OBVIOUS
    <3>2. ~Pends(u, r, n) /\ ~Pends(u, r, n + 1)
      BY <3>1 DEF NoRequest
    <3>3. QED
      BY <2>2, <2>3, <3>2
  <2>5. OneRequest(u) => OneRequest(u)'
    <3> SUFFICES ASSUME OneRequest(u) PROVE OneRequest(u)'
      OBVIOUS
    <3>1. PICK r \in Pid, n \in Nat :
             Pends(u, r, n) /\ \A v \in Pid, m \in Nat : Pends(u, v, m) => v = r /\ m = n
      BY DEF OneRequest
    <3>2. CASE r = p /\ UnlockSignal(u, p) = s
      <4>1. n # 0 /\ n # 1
        BY <2>3, <3>1, <3>2
      <4>2. n - 1 \in Nat /\ n - 1 # 0 /\ n - 1 + 1 = n
        BY <4>1
      <4>3. Pends(u, p, n - 1)'
        BY <2>3, <3>1, <3>2, <4>2
      <4>4. ASSUME NEW v \in Pid, NEW m \in Nat, Pends(u, v, m)'
            PROVE  v = p /\ m = n - 1
        <5>1. CASE v = p
          <6>1. Pends(u, p, m + 1) /\ m + 1 \in Nat
            BY <2>3, <3>2, <4>4, <5>1
          <6>2. m + 1 = n
            BY <3>1, <6>1
          <6>3. QED
            BY <5>1, <6>2
        <5>2. CASE v # p
          BY <2>2, <3>1, <3>2, <4>4, <5>2
        <5>3. QED
          BY <5>1, <5>2
      <4>5. QED
        BY <4>2, <4>3, <4>4 DEF OneRequest
    <3>3. CASE ~(r = p /\ UnlockSignal(u, p) = s)
      <4>1. Pends(u, r, n)'
        BY <2>2, <3>1, <3>3
      <4>2. ASSUME NEW v \in Pid, NEW m \in Nat, Pends(u, v, m)'
            PROVE  v = r /\ m = n
        <5>1. CASE v = p /\ UnlockSignal(u, p) = s
          <6>1. Pends(u, p, m + 1) /\ m + 1 \in Nat
            BY <2>3, <4>2, <5>1
          <6>2. QED
            BY <3>1, <3>3, <5>1, <6>1
        <5>2. CASE ~(v = p /\ UnlockSignal(u, p) = s)
          BY <2>2, <3>1, <4>2, <5>2
        <5>3. QED
          BY <5>1, <5>2
      <4>3. QED
        BY <4>1, <4>2 DEF OneRequest
    <3>4. QED
      BY <3>2, <3>3
  <2>6. QED
    BY <2>1, <2>4, <2>5 DEF AnswerInv, Answered
<1>18. RightSignals'
  <2> SUFFICES ASSUME NEW r \in Pid, NEW t \in {0, 1}, NEW n \in DOMAIN unlockq'[r][t]
               PROVE  UnlockSignal(unlockq'[r][t][n], r) = t
    BY DEF RightSignals
  <2>1. CASE r = p /\ t = s
    <3>1. n \in Nat
      BY <1>4, <1>7, <2>1
    <3>2. n + 1 \in DOMAIN asks /\ unlockq'[r][t][n] = asks[n + 1]
      BY <1>5, <1>7, <2>1, <3>1
    <3>3. QED
      BY <1>1, <2>1, <3>2 DEF AnswerInv, RightSignals
  <2>2. CASE ~(r = p /\ t = s)
    BY <1>7, <2>2 DEF AnswerInv, RightSignals
  <2>3. QED
    BY <2>1, <2>2
<1>19. QED
  BY <1>5, <1>16, <1>17, <1>18 DEF AnswerInv

(* A process that is answered waits no more.                               *)
LEMMA AnswerTaken ==
    ASSUME TypeOK, Safe, AnswerInv, NEW p \in Pid, HandleSigrtmin4(p)
    PROVE  AnswerInv'
<1>1. /\ ackq[p] > 0 /\ outgoing' = [outgoing EXCEPT ![p] = Decrement(@)]
      /\ ackq' = [ackq EXCEPT ![p] = @ - 1] /\ unlockq' = unlockq
  BY DEF HandleSigrtmin4, Delivered, Lowest, Pending, signals
<1>2. outgoing[p] = 1 /\ ackq[p] = 1 /\ NoRequest(p)
  BY <1>1 DEF AnswerInv, Answered
<1>3. outgoing'[p] = 0 /\ ackq'[p] = 0
  BY <1>1, <1>2 DEF Decrement, TypeOK
<1>4. \A u \in Pid \ {p} : outgoing'[u] = outgoing[u] /\ ackq'[u] = ackq[u]
  BY <1>1 DEF TypeOK
<1>5. QED
  BY <1>1, <1>2, <1>3, <1>4 DEF AnswerInv, RightSignals, Answered, NoRequest, OneRequest, Pends

(* Every step keeps the count of answers right.                            *)
LEMMA AnswerStep == Staying /\ IInv /\ AnswerInv /\ [Next]_vars => AnswerInv'
<1> SUFFICES ASSUME Staying, TypeOK, Safe, AnswerInv, [Next]_vars PROVE AnswerInv'
  BY InvSplit
<1>1. QED
  BY StayingSteps, NoSignalMoves, AskingAnswered, AnsweringAnswered, AnswerTaken

(* The count of the requests that are still to be answered.                *)
LEMMA AnswersCounted == TypeOK /\ AnswerInv => AnswerIsComing
<1> SUFFICES ASSUME TypeOK, AnswerInv, NEW p \in Pid
             PROVE  outgoing[p] = ackq[p] + Cardinality(UNION {Asks(p, q) : q \in Pid})
  BY DEF AnswerIsComing
<1> DEFINE all == UNION {Asks(p, q) : q \in Pid}
<1>1. ASSUME NEW q \in Pid PROVE DOMAIN unlockq[q][UnlockSignal(p, q)] \subseteq Nat
  <2>1. UnlockSignal(p, q) \in {0, 1}
    BY DEF UnlockSignal
  <2>2. unlockq[q] \in [{0, 1} -> Seq(Pid)]
    BY DEF TypeOK
  <2>3. unlockq[q][UnlockSignal(p, q)] \in Seq(Pid)
    BY <2>1, <2>2
  <2>4. QED
    BY <2>3
<1>2. \A x : x \in all <=> \E q \in Pid, n \in Nat : x = <<q, n>> /\ Pends(p, q, n)
  BY <1>1 DEF Asks, Pends
<1>3. CASE NoRequest(p)
  <2>1. all = {}
    BY <1>2, <1>3 DEF NoRequest
  <2>2. Cardinality(all) = 0
    BY <2>1, FS_EmptySet
  <2>3. outgoing[p] = ackq[p] /\ ackq[p] \in Nat
    BY <1>3 DEF AnswerInv, Answered, OneRequest, NoRequest, TypeOK
  <2>4. QED
    BY <2>2, <2>3
<1>4. CASE OneRequest(p)
  <2>1. PICK q \in Pid, n \in Nat :
           Pends(p, q, n) /\ \A r \in Pid, m \in Nat : Pends(p, r, m) => r = q /\ m = n
    BY <1>4 DEF OneRequest
  <2>2. all = {<<q, n>>}
    BY <1>2, <2>1
  <2>3. Cardinality(all) = 1
    BY <2>2, FS_Singleton
  <2>4. outgoing[p] = 1 /\ ackq[p] = 0
    BY <1>4 DEF AnswerInv, Answered, OneRequest, NoRequest
  <2>5. QED
    BY <2>3, <2>4
<1>5. QED
  BY <1>3, <1>4 DEF AnswerInv, Answered

(* "We block on a signal, because we're going to get one."                 *)
THEOREM AnswersCome ==
    ASSUME Staying
    PROVE  Spec => []AnswerIsComing
<1>1. Init => AnswerInv
  BY DEF Init, AnswerInv, RightSignals, Answered, NoRequest, Pends, NoUnlocks, UnlockSignal
<1>2. IInv /\ AnswerInv /\ [Next]_vars => AnswerInv'
  BY AnswerStep
<1>3. IInv /\ AnswerInv => AnswerIsComing
  BY AnswersCounted, InvSplit
<1>4. QED
  BY <1>1, <1>2, <1>3, Invariance, PTL DEF Spec

(* What a process has been asked and what it is told afterwards travel by  *)
(* two pairs of signals, and balance for each pair.  The processes that    *)
(* ask q by SIGRTMIN+s, and the answers they owe it for that:              *)
Askers(q, s) == {p \in Pid : UnlockSignal(p, q) = s}

Owed(q, s) == UNION {Owes(p, q) : p \in Askers(q, s)}

(* c requests that came by SIGRTMIN+s are handled and not matched.         *)
Balanced(q, s, c) ==
    /\ IsFiniteSet(Owed(q, s))
    /\ c + Len(unlockq[q][s]) = relockq[q][s + 2] + Cardinality(Owed(q, s))

Counted(q) ==
    \E a, b \in Nat :
        incoming[q] = a + b /\ Balanced(q, 0, a) /\ Balanced(q, 1, b)

(* Only processes that have the game open are asked, and they all stay.    *)
AskedAreHere ==
    /\ \A p, q \in Pid : watchers[p][q] > 0 => level[q] # "none"
    /\ \A p \in Pid : pc[p] # "dead"

MatchInv == AskedAreHere /\ \A q \in Pid : Counted(q)

(* The two kinds of each pair go together.                                 *)
LEMMA SignalPairs ==
    \A p, q \in Pid : /\ UnlockSignal(p, q) \in {0, 1}
                      /\ RelockSignal(p, q) = UnlockSignal(p, q) + 2
BY DEF UnlockSignal, RelockSignal

(* What is owed, element by element.                                       *)
LEMMA OwedElements ==
    ASSUME NEW q, NEW s
    PROVE  \A x : x \in Owed(q, s) <=>
              \E p \in Askers(q, s) : \E i \in 1 .. watchers[p][q] : x = <<p, i>>
BY DEF Owed, Owes

(* The same after a step.                                                  *)
LEMMA OwedElementsNext ==
    ASSUME NEW q, NEW s
    PROVE  \A x : x \in Owed(q, s)' <=>
              \E p \in Askers(q, s) : \E i \in 1 .. watchers'[p][q] : x = <<p, i>>
BY DEF Owed, Owes, Askers, UnlockSignal

(* The balance in the next state, with what does not change spelled out.   *)
LEMMA BalancedNext ==
    ASSUME NEW q, NEW s, NEW c, NEW S, Owed(q, s)' = S, IsFiniteSet(S),
           c + Len(unlockq'[q][s]) = relockq'[q][s + 2] + Cardinality(S)
    PROVE  Balanced(q, s, c)'
BY DEF Balanced

(* What is owed depends on the watchers only.                              *)
LEMMA OwedStays ==
    ASSUME NEW q \in Pid, NEW s, \A p \in Pid : watchers'[p][q] = watchers[p][q]
    PROVE  Owed(q, s)' = Owed(q, s)
<1>1. \A x : x \in Owed(q, s)' <=> x \in Owed(q, s)
  BY OwedElements, OwedElementsNext DEF Askers
<1>2. QED
  BY <1>1

(* The steps of a system whose processes stay, sorted by what they do to   *)
(* the signals and counts of unlocking.                                    *)
LEMMA MatchingSteps ==
    ASSUME Staying, TypeOK, [Next]_vars
    PROVE  \/ \E p \in Pid : \/ AskHolder(p) \/ FlushLogfileWatchers(p)
                             \/ \E s \in {0, 1} : HandleSigrtmin1(p, s)
                                                  \/ HandleSigrtmin1Recursive(p, s)
                             \/ \E s \in {2, 3} : HandleSigrtmin2(p, s)
           \/ UNCHANGED <<incoming, unlockq, relockq, watchers>>
<1> USE DEF locks, control, counts, signals, bounds
<1>1. CASE UNCHANGED vars
  BY <1>1 DEF vars
<1>2. ASSUME NEW p \in Pid
      PROVE  ~AlarmFails(p) /\ ~AlarmLost(p) /\ ~RelockAborts(p) /\ ~Detach(p) /\ ~Crash(p)
  BY DEF Staying, TypeOK, AlarmFails, AlarmLost, RelockAborts, HandlerTimesOut, Detach, Crash
<1>3. ASSUME NEW p \in Pid,
             \/ \E type \in Level : ChangeFdLock(p, type)
             \/ SetLock(p) \/ Return(p) \/ HandleSigrtmin4(p)
             \/ Relock(p) \/ Write(p) \/ Reread(p)
      PROVE  UNCHANGED <<incoming, unlockq, relockq, watchers>>
  BY <1>3 DEF ChangeFdLock, SetLock, Return, HandleSigrtmin4, Relock, Write, Reread
<1>4. ASSUME NEW p \in Pid, SelectReturns(p)
      PROVE  UNCHANGED <<incoming, unlockq, relockq, watchers>>
  <2>1. incoming[p] = 0 /\ incoming' = [incoming EXCEPT ![p] = 0]
    BY <1>4 DEF SelectReturns, HandlerTimesOut, Staying, TypeOK
  <2>2. incoming' = incoming
    BY <2>1 DEF TypeOK
  <2>3. QED
    BY <1>4, <2>2 DEF SelectReturns
<1>5. QED
  BY <1>1, <1>2, <1>3, <1>4 DEF Next, Locking, Handlers

(* Who has the game open keeps it open, and only such a process is asked.  *)
LEMMA AskedStayHere ==
    ASSUME Staying, TypeOK, Safe, AskedAreHere, [Next]_vars
    PROVE  AskedAreHere'
<1> USE DEF locks, control, counts, signals, bounds
<1>1. CASE UNCHANGED vars
  BY <1>1 DEF vars, AskedAreHere
<1>2. ASSUME NEW p \in Pid
      PROVE  ~AlarmFails(p) /\ ~AlarmLost(p) /\ ~RelockAborts(p) /\ ~Detach(p) /\ ~Crash(p)
  BY DEF Staying, TypeOK, AlarmFails, AlarmLost, RelockAborts, HandlerTimesOut, Detach, Crash
<1>3. ASSUME NEW p \in Pid,
             \/ HandleSigrtmin4(p) \/ SelectReturns(p)
             \/ \E s \in {0, 1} : HandleSigrtmin1(p, s) \/ HandleSigrtmin1Recursive(p, s)
             \/ \E s \in {2, 3} : HandleSigrtmin2(p, s)
             \/ Relock(p) \/ Write(p) \/ Reread(p)
      PROVE  AskedAreHere'
  BY <1>3 DEF HandleSigrtmin4, SelectReturns, HandleSigrtmin1, HandleSigrtmin1Recursive,
              HandleSigrtmin2, Relock, Write, Reread, AskedAreHere
<1>4. ASSUME NEW p \in Pid, (\E type \in Level : ChangeFdLock(p, type)) \/ Return(p)
      PROVE  AskedAreHere'
  BY <1>4 DEF ChangeFdLock, Return, AskedAreHere, TypeOK
<1>5. ASSUME NEW p \in Pid, SetLock(p) PROVE AskedAreHere'
  <2>1. want[p] # "none"
    BY <1>5 DEF Safe, OutsidersKnowNothing, SetLock, TryingLock
  <2>2. QED
    BY <1>5, <2>1 DEF SetLock, AskedAreHere, TypeOK
<1>6. ASSUME NEW p \in Pid, AskHolder(p) PROVE AskedAreHere'
  <2>1. PICK q \in Conflicts(p, FlockFor(want[p])) :
           watchers' = [watchers EXCEPT ![p][q] = @ + 1]
    BY <1>6 DEF AskHolder
  <2>2. q \in Pid /\ level[q] # "none"
    BY <2>1 DEF Conflicts, Safe, OutsidersKnowNothing
  <2>3. \A r, t \in Pid : r # p \/ t # q => watchers'[r][t] = watchers[r][t]
    BY <2>1, <2>2 DEF TypeOK
  <2>4. level' = level /\ pc' = pc
    BY <1>6 DEF AskHolder
  <2>5. QED
    BY <2>2, <2>3, <2>4 DEF AskedAreHere
<1>7. ASSUME NEW p \in Pid, FlushLogfileWatchers(p) PROVE AskedAreHere'
  <2>1. \A r, t \in Pid : watchers'[r][t] = watchers[r][t] \/ watchers'[r][t] = 0
    BY <1>7 DEF FlushLogfileWatchers, NoWatchers, TypeOK
  <2>2. level' = level /\ \A r \in Pid : pc'[r] # "dead"
    BY <1>7 DEF FlushLogfileWatchers, AskedAreHere, TypeOK
  <2>3. QED
    BY <2>1, <2>2 DEF AskedAreHere
<1>8. QED
  BY <1>1, <1>2, <1>3, <1>4, <1>5, <1>6, <1>7 DEF Next, Locking, Handlers

(* The types the balance is about.                                         *)
LEMMA MatchTypes ==
    ASSUME TypeOK, NEW q \in Pid
    PROVE  /\ incoming[q] \in Nat
           /\ \A s \in {0, 1} : /\ unlockq[q][s] \in Seq(Pid)
                                /\ Len(unlockq[q][s]) \in Nat
                                /\ relockq[q][s + 2] \in Nat
           /\ \A p \in Pid : watchers[p][q] \in Nat
<1>1. unlockq[q] \in [{0, 1} -> Seq(Pid)] /\ relockq[q] \in [{2, 3} -> Nat]
  BY DEF TypeOK
<1>2. ASSUME NEW s \in {0, 1}
      PROVE  /\ unlockq[q][s] \in Seq(Pid) /\ Len(unlockq[q][s]) \in Nat
             /\ relockq[q][s + 2] \in Nat
  <2>1. unlockq[q][s] \in Seq(Pid)
    BY <1>1
  <2>2. s + 2 \in {2, 3}
    OBVIOUS
  <2>3. QED
    BY <1>1, <2>1, <2>2
<1>3. QED
  BY <1>2 DEF TypeOK

(* Asking q once more means owing it one relock signal more.               *)
LEMMA AskingBalances ==
    ASSUME TypeOK, Safe, MatchInv, NEW p \in Pid, AskHolder(p)
    PROVE  \A r \in Pid : Counted(r)'
<1>1. PICK q \in Conflicts(p, FlockFor(want[p])) :
         SendUnlock(p, q) /\ watchers' = [watchers EXCEPT ![p][q] = @ + 1]
  BY DEF AskHolder
<1>2. q \in Pid /\ flock[q] # "none"
  BY <1>1 DEF Conflicts
<1>3. Listening(q)
  BY <1>2 DEF Safe, OutsidersKnowNothing, Listening
<1>4. PICK s \in {0, 1} : s = UnlockSignal(p, q)
  BY <1>2, SignalPairs
<1>5. unlockq' = [unlockq EXCEPT ![q][s] = Append(@, p)]
  BY <1>1, <1>3, <1>4 DEF SendUnlock
<1>6. /\ unlockq'[q][s] = Append(unlockq[q][s], p)
      /\ \A r \in Pid, t \in {0, 1} : r # q \/ t # s => unlockq'[r][t] = unlockq[r][t]
      /\ incoming' = incoming /\ relockq' = relockq
  <2>1. q \in DOMAIN unlockq /\ \A r \in Pid : DOMAIN unlockq[r] = {0, 1}
    BY <1>2 DEF TypeOK
  <2>2. incoming' = incoming /\ relockq' = relockq
    BY DEF AskHolder
  <2>3. DOMAIN unlockq = Pid
    BY DEF TypeOK
  <2>4. QED
    BY <1>2, <1>4, <1>5, <2>1, <2>2, <2>3
<1>7. Len(unlockq'[q][s]) = Len(unlockq[q][s]) + 1
  <2>1. \A x \in Seq(Pid) : Len(Append(x, p)) = Len(x) + 1
    OBVIOUS
  <2>2. QED
    BY <1>2, <1>6, <2>1, MatchTypes
<1>8. PICK w \in Nat : w = watchers[p][q]
  BY <1>2, MatchTypes
<1>9. /\ watchers'[p][q] = w + 1
      /\ \A r, t \in Pid : r # p \/ t # q => watchers'[r][t] = watchers[r][t]
  BY <1>1, <1>2, <1>8 DEF TypeOK
<1>10. /\ Owed(q, s)' = Owed(q, s) \cup {<<p, w + 1>>}
       /\ <<p, w + 1>> \notin Owed(q, s)
  <2>1. p \in Askers(q, s)
    BY <1>4 DEF Askers
  <2>2. \A i : i \in 1 .. (w + 1) <=> i \in 1 .. w \/ i = w + 1
    BY <1>8
  <2>3. \A x : x \in Owed(q, s)' <=> x \in Owed(q, s) \/ x = <<p, w + 1>>
    <3> TAKE x
    <3>1. x \in Owed(q, s)' <=>
             \E r \in Askers(q, s) : \E i \in 1 .. watchers'[r][q] : x = <<r, i>>
      BY OwedElementsNext
    <3>2. x \in Owed(q, s) <=>
             \E r \in Askers(q, s) : \E i \in 1 .. watchers[r][q] : x = <<r, i>>
      BY OwedElements
    <3>3. \A r \in Askers(q, s) : r # p => watchers'[r][q] = watchers[r][q]
      BY <1>2, <1>9 DEF Askers
    <3>4. QED
      BY <1>8, <1>9, <2>1, <2>2, <3>1, <3>2, <3>3
  <2>4. w + 1 \notin 1 .. w
    BY <1>8
  <2>5. <<p, w + 1>> \notin Owed(q, s)
    BY <1>8, <2>4, OwedElements
  <2>6. QED
    BY <2>3, <2>5
<1>11. ASSUME NEW r \in Pid, NEW t \in {0, 1}, r # q \/ t # s
       PROVE  Owed(r, t)' = Owed(r, t)
  <2>1. \A u \in Askers(r, t) : watchers'[u][r] = watchers[u][r]
    BY <1>4, <1>9, <1>11 DEF Askers
  <2>2. \A x : x \in Owed(r, t)' <=> x \in Owed(r, t)
    BY <2>1, OwedElements, OwedElementsNext
  <2>3. QED
    BY <2>2
<1>12. ASSUME NEW r \in Pid, NEW t \in {0, 1}, NEW c \in Nat, Balanced(r, t, c)
       PROVE  Balanced(r, t, c)'
  <2>1. CASE r # q \/ t # s
    BY <1>6, <1>11, <1>12, <2>1, BalancedNext DEF Balanced
  <2>2. CASE r = q /\ t = s
    <3>1. IsFiniteSet(Owed(q, s))
      BY <1>12, <2>2 DEF Balanced
    <3>2. /\ IsFiniteSet(Owed(q, s)')
          /\ Cardinality(Owed(q, s)') = Cardinality(Owed(q, s)) + 1
      BY <1>10, <3>1, FS_AddElement
    <3>3. c + Len(unlockq[q][s]) = relockq[q][s + 2] + Cardinality(Owed(q, s))
      BY <1>12, <2>2 DEF Balanced
    <3>4. Cardinality(Owed(q, s)) \in Nat
      BY <3>1, FS_CardinalityType
    <3>5. Len(unlockq[q][s]) \in Nat /\ relockq[q][s + 2] \in Nat
      BY <1>2, MatchTypes
    <3>6. \A l, k, n \in Nat : c + l = k + n => c + (l + 1) = k + (n + 1)
      OBVIOUS
    <3>7. c + (Len(unlockq[q][s]) + 1) = relockq[q][s + 2] + (Cardinality(Owed(q, s)) + 1)
      BY <3>3, <3>4, <3>5, <3>6
    <3>8. c + Len(unlockq'[q][s]) = relockq'[q][s + 2] + Cardinality(Owed(q, s)')
      BY <1>6, <1>7, <3>2, <3>7
    <3>9. QED
      BY <2>2, <3>2, <3>8 DEF Balanced
  <2>3. QED
    BY <2>1, <2>2
<1>13. QED
  BY <1>6, <1>12 DEF MatchInv, Counted

(* Telling every asked process that it may relock settles what is owed.    *)
LEMMA TellingBalances ==
    ASSUME TypeOK, Safe, MatchInv, NEW p \in Pid, FlushLogfileWatchers(p)
    PROVE  \A r \in Pid : Counted(r)'
<1>1. /\ incoming' = incoming /\ unlockq' = unlockq
      /\ watchers' = [watchers EXCEPT ![p] = NoWatchers] /\ SendRelocks(p)
  BY DEF FlushLogfileWatchers, counts
<1>2. /\ \A q \in Pid : watchers'[p][q] = 0
      /\ \A r, q \in Pid : r # p => watchers'[r][q] = watchers[r][q]
  BY <1>1 DEF TypeOK, NoWatchers
<1>3. ASSUME NEW q \in Pid, NEW t \in {0, 1}
      PROVE  relockq'[q][t + 2] =
                relockq[q][t + 2] + (IF p \in Askers(q, t) THEN watchers[p][q] ELSE 0)
  <2>1. /\ watchers[p][q] \in Nat /\ relockq[q][t + 2] \in Nat
        /\ relockq[q] \in [{2, 3} -> Nat]
    BY MatchTypes DEF TypeOK
  <2>2. p \in Askers(q, t) <=> RelockSignal(p, q) = t + 2
    BY SignalPairs DEF Askers
  <2>3. t + 2 \in {2, 3}
    OBVIOUS
  <2>4. CASE Listening(q)
    <3>1. relockq'[q] = [relockq[q] EXCEPT ![RelockSignal(p, q)] = @ + watchers[p][q]]
      BY <1>1, <2>4 DEF SendRelocks
    <3>2. QED
      BY <2>1, <2>2, <2>3, <3>1
  <2>5. CASE ~Listening(q)
    <3>1. ~(watchers[p][q] > 0)
      BY <2>5 DEF Listening, MatchInv, AskedAreHere
    <3>2. relockq'[q] = relockq[q]
      BY <1>1, <2>5 DEF SendRelocks
    <3>3. QED
      BY <2>1, <3>1, <3>2
  <2>6. QED
    BY <2>4, <2>5
<1>4. ASSUME NEW q \in Pid, NEW t \in {0, 1}, NEW c \in Nat, Balanced(q, t, c)
      PROVE  Balanced(q, t, c)'
  <2>1. PICK w \in Nat : w = watchers[p][q]
    BY MatchTypes
  <2>2. IsFiniteSet(Owed(q, t))
    BY <1>4 DEF Balanced
  <2>3. CASE p \notin Askers(q, t)
    <3>1. \A u \in Askers(q, t) : watchers'[u][q] = watchers[u][q]
      BY <1>2, <2>3 DEF Askers
    <3>2. \A x : x \in Owed(q, t)' <=> x \in Owed(q, t)
      BY <3>1, OwedElements, OwedElementsNext
    <3>3. Owed(q, t)' = Owed(q, t)
      BY <3>2
    <3>4. relockq'[q][t + 2] = relockq[q][t + 2]
      BY <1>3, <2>3, MatchTypes
    <3>5. QED
      BY <1>1, <1>4, <3>3, <3>4 DEF Balanced
  <2>4. CASE p \in Askers(q, t)
    <3> DEFINE mine == {p} \X (1 .. w)
    <3>1. \A x : x \in Owed(q, t)' <=> x \in Owed(q, t) /\ x \notin mine
      <4> TAKE x
      <4>1. x \in Owed(q, t)' <=>
               \E r \in Askers(q, t) : \E i \in 1 .. watchers'[r][q] : x = <<r, i>>
        BY OwedElementsNext
      <4>2. x \in Owed(q, t) <=>
               \E r \in Askers(q, t) : \E i \in 1 .. watchers[r][q] : x = <<r, i>>
        BY OwedElements
      <4>3. \A r \in Askers(q, t) : r # p => watchers'[r][q] = watchers[r][q]
        BY <1>2 DEF Askers
      <4>4. x \in mine <=> \E i \in 1 .. w : x = <<p, i>>
        OBVIOUS
      <4>5. watchers'[p][q] = 0 /\ \A i : i \notin 1 .. 0
        BY <1>2
      <4> HIDE DEF mine
      <4>6. QED
        BY <2>1, <2>4, <4>1, <4>2, <4>3, <4>4, <4>5
    <3>2. \A x : x \in mine => x \in Owed(q, t)
      BY <2>1, <2>4, OwedElements
    <3>3. IsFiniteSet(mine) /\ Cardinality(mine) = w
      <4>1. IsFiniteSet({p}) /\ Cardinality({p}) = 1
        BY FS_Singleton
      <4>2. IsFiniteSet(1 .. w) /\ Cardinality(1 .. w) = w
        BY FS_Interval
      <4>3. Cardinality(mine) = Cardinality({p}) * Cardinality(1 .. w) /\ IsFiniteSet(mine)
        BY <4>1, <4>2, FS_Product
      <4>4. QED
        BY <4>1, <4>2, <4>3
    <3> HIDE DEF mine
    <3>4. Owed(q, t)' = Owed(q, t) \ mine
      BY <3>1
    <3>5. Owed(q, t) \cap mine = mine
      BY <3>2
    <3>6. /\ IsFiniteSet(Owed(q, t)')
          /\ Cardinality(Owed(q, t)') = Cardinality(Owed(q, t)) - w
      BY <2>2, <3>3, <3>4, <3>5, FS_Difference
    <3>7. relockq'[q][t + 2] = relockq[q][t + 2] + w
      BY <1>3, <2>1, <2>4
    <3>8. c + Len(unlockq[q][t]) = relockq[q][t + 2] + Cardinality(Owed(q, t))
      BY <1>4 DEF Balanced
    <3>9. \A k, n \in Nat : k + n = (k + w) + (n - w)
      BY <2>1
    <3>10. /\ Cardinality(Owed(q, t)) \in Nat
           /\ relockq[q][t + 2] \in Nat
      BY <2>2, FS_CardinalityType, MatchTypes
    <3>11. c + Len(unlockq'[q][t]) = relockq'[q][t + 2] + Cardinality(Owed(q, t)')
      BY <1>1, <3>6, <3>7, <3>8, <3>9, <3>10
    <3>12. QED
      BY <3>6, <3>11 DEF Balanced
  <2>5. QED
    BY <2>3, <2>4
<1>5. QED
  BY <1>1, <1>4 DEF MatchInv, Counted

(* A request that is handled is counted.                                   *)
LEMMA CountingBalances ==
    ASSUME TypeOK, MatchInv, NEW p \in Pid, NEW s \in {0, 1},
           HandleSigrtmin1(p, s) \/ HandleSigrtmin1Recursive(p, s)
    PROVE  \A r \in Pid : Counted(r)'
<1>1. PICK asks \in Seq(Pid) : asks = unlockq[p][s]
  BY MatchTypes
<1>2. /\ asks # <<>> /\ TakeUnlock(p, s) /\ incoming' = [incoming EXCEPT ![p] = @ + 1]
      /\ relockq' = relockq /\ watchers' = watchers
  BY <1>1 DEF HandleSigrtmin1, HandleSigrtmin1Recursive, Delivered, Lowest, Pending
<1>3. /\ unlockq'[p][s] = Tail(asks) /\ Len(Tail(asks)) = Len(asks) - 1
      /\ \A r \in Pid, t \in {0, 1} : r # p \/ t # s => unlockq'[r][t] = unlockq[r][t]
  <2>1. /\ unlockq'[p][s] = Tail(asks)
        /\ \A r \in Pid, t \in {0, 1} : r # p \/ t # s => unlockq'[r][t] = unlockq[r][t]
    BY <1>1, <1>2 DEF TypeOK, TakeUnlock
  <2>2. Len(Tail(asks)) = Len(asks) - 1
    BY <1>1, <1>2
  <2>3. QED
    BY <2>1, <2>2
<1>4. \A r \in Pid, t \in {0, 1} : Owed(r, t)' = Owed(r, t)
  BY <1>2, OwedStays
<1>5. ASSUME NEW r \in Pid, NEW t \in {0, 1}, NEW c \in Nat, Balanced(r, t, c)
      PROVE  Balanced(r, t, IF r = p /\ t = s THEN c + 1 ELSE c)'
  <2>1. CASE r # p \/ t # s
    BY <1>2, <1>3, <1>4, <1>5, <2>1 DEF Balanced
  <2>2. CASE r = p /\ t = s
    <3>1. c + Len(asks) = relockq[p][s + 2] + Cardinality(Owed(p, s))
      BY <1>1, <1>5, <2>2 DEF Balanced
    <3>2. Len(asks) \in Nat
      BY <1>1
    <3>3. (c + 1) + (Len(asks) - 1) = c + Len(asks)
      BY <3>2
    <3>4. (c + 1) + Len(unlockq'[p][s]) = relockq'[p][s + 2] + Cardinality(Owed(p, s)')
      BY <1>2, <1>3, <1>4, <3>1, <3>3
    <3>5. IsFiniteSet(Owed(p, s)')
      BY <1>4, <1>5, <2>2 DEF Balanced
    <3>6. QED
      BY <2>2, <3>4, <3>5 DEF Balanced
  <2>3. QED
    BY <2>1, <2>2
<1>6. ASSUME NEW r \in Pid, r # p PROVE Counted(r)'
  <2>1. incoming'[r] = incoming[r]
    BY <1>2, <1>6 DEF TypeOK
  <2>2. QED
    BY <1>5, <1>6, <2>1 DEF MatchInv, Counted
<1>7. Counted(p)'
  <2>1. PICK a, b \in Nat : incoming[p] = a + b /\ Balanced(p, 0, a) /\ Balanced(p, 1, b)
    BY DEF MatchInv, Counted
  <2>2. incoming'[p] = a + b + 1
    BY <1>2, <2>1 DEF TypeOK
  <2>3. CASE s = 0
    <3>1. Balanced(p, 0, a + 1)' /\ Balanced(p, 1, b)'
      BY <1>5, <2>1, <2>3
    <3>2. a + 1 \in Nat /\ incoming'[p] = (a + 1) + b
      BY <2>1, <2>2
    <3>3. QED
      BY <2>1, <3>1, <3>2 DEF Counted
  <2>4. CASE s = 1
    <3>1. Balanced(p, 0, a)' /\ Balanced(p, 1, b + 1)'
      BY <1>5, <2>1, <2>4
    <3>2. b + 1 \in Nat /\ incoming'[p] = a + (b + 1)
      BY <2>1, <2>2
    <3>3. QED
      BY <2>1, <3>1, <3>2 DEF Counted
  <2>5. QED
    BY <2>3, <2>4
<1>8. QED
  BY <1>6, <1>7

(* A relock signal is handled only after every request of its pair, so one *)
(* that is counted is there for it to match.                               *)
LEMMA MatchingBalances ==
    ASSUME TypeOK, MatchInv, NEW p \in Pid, NEW s \in {0, 1}, HandleSigrtmin2(p, s + 2)
    PROVE  \A r \in Pid : Counted(r)'
<1>1. /\ Delivered(p, s + 2) /\ incoming' = [incoming EXCEPT ![p] = Decrement(@)]
      /\ relockq' = [relockq EXCEPT ![p][s + 2] = @ - 1]
      /\ unlockq' = unlockq /\ watchers' = watchers
  BY DEF HandleSigrtmin2
<1>2. s + 2 \in Deliverable(p) => s \in Deliverable(p)
  BY DEF Deliverable, Unmasked, SelectMask
<1>3. unlockq[p][s] = <<>> /\ relockq[p][s + 2] > 0
  BY <1>1, <1>2 DEF Delivered, Lowest, Pending
<1>4. /\ relockq'[p][s + 2] = relockq[p][s + 2] - 1
      /\ \A r \in Pid, t \in {0, 1} : r # p \/ t # s => relockq'[r][t + 2] = relockq[r][t + 2]
  <2>1. s + 2 \in {2, 3} /\ \A t \in {0, 1} : t + 2 \in {2, 3} /\ (t # s => t + 2 # s + 2)
    OBVIOUS
  <2>2. QED
    BY <1>1, <2>1 DEF TypeOK
<1>5. \A r \in Pid, t \in {0, 1} : Owed(r, t)' = Owed(r, t)
  BY <1>1, OwedStays
<1>6. ASSUME NEW r \in Pid, NEW t \in {0, 1}, r # p \/ t # s, NEW c \in Nat, Balanced(r, t, c)
      PROVE  Balanced(r, t, c)'
  BY <1>1, <1>4, <1>5, <1>6 DEF Balanced
<1>7. ASSUME NEW c \in Nat, Balanced(p, s, c)
      PROVE  c - 1 \in Nat /\ Balanced(p, s, c - 1)'
  <2>1. PICK k, n \in Nat : k = relockq[p][s + 2] /\ n = Cardinality(Owed(p, s))
    BY <1>7, FS_CardinalityType, MatchTypes DEF Balanced
  <2>2. c + 0 = k + n /\ k > 0
    BY <1>3, <1>7, <2>1 DEF Balanced
  <2>3. c - 1 \in Nat /\ (c - 1) + 0 = (k - 1) + n
    BY <2>1, <2>2
  <2>4. (c - 1) + Len(unlockq'[p][s]) = relockq'[p][s + 2] + Cardinality(Owed(p, s)')
    BY <1>1, <1>3, <1>4, <1>5, <2>1, <2>3
  <2>5. QED
    BY <1>5, <1>7, <2>3, <2>4 DEF Balanced
<1>8. ASSUME NEW r \in Pid, r # p PROVE Counted(r)'
  <2>1. incoming'[r] = incoming[r]
    BY <1>1, <1>8 DEF TypeOK
  <2>2. QED
    BY <1>6, <1>8, <2>1 DEF MatchInv, Counted
<1>9. Counted(p)'
  <2>1. PICK a, b \in Nat : incoming[p] = a + b /\ Balanced(p, 0, a) /\ Balanced(p, 1, b)
    BY DEF MatchInv, Counted
  <2>2. a + b > 0 => incoming'[p] = a + b - 1
    BY <1>1, <2>1 DEF TypeOK, Decrement
  <2>3. CASE s = 0
    <3>1. a - 1 \in Nat /\ Balanced(p, 0, a - 1)' /\ Balanced(p, 1, b)'
      BY <1>6, <1>7, <2>1, <2>3
    <3>2. incoming'[p] = (a - 1) + b
      BY <2>1, <2>2, <3>1
    <3>3. QED
      BY <2>1, <3>1, <3>2 DEF Counted
  <2>4. CASE s = 1
    <3>1. b - 1 \in Nat /\ Balanced(p, 0, a)' /\ Balanced(p, 1, b - 1)'
      BY <1>6, <1>7, <2>1, <2>4
    <3>2. incoming'[p] = a + (b - 1)
      BY <2>1, <2>2, <3>1
    <3>3. QED
      BY <2>1, <3>1, <3>2 DEF Counted
  <2>5. QED
    BY <2>3, <2>4
<1>10. QED
  BY <1>8, <1>9

(* MatchInv is inductive, next to IInv.                                    *)
LEMMA MatchStep == Staying /\ IInv /\ MatchInv /\ [Next]_vars => MatchInv'
<1> SUFFICES ASSUME Staying, TypeOK, Safe, MatchInv, [Next]_vars PROVE MatchInv'
  BY InvSplit
<1>1. AskedAreHere'
  BY AskedStayHere DEF MatchInv
<1>2. CASE UNCHANGED <<incoming, unlockq, relockq, watchers>>
  <2>1. \A q \in Pid, s \in {0, 1} : Owed(q, s)' = Owed(q, s)
    BY <1>2, OwedStays
  <2>2. ASSUME NEW q \in Pid PROVE Counted(q)'
    BY <1>2, <2>1 DEF MatchInv, Counted, Balanced
  <2>3. QED
    BY <1>1, <2>2 DEF MatchInv
<1>3. ASSUME NEW p \in Pid, NEW s \in {2, 3}, HandleSigrtmin2(p, s)
      PROVE  \A r \in Pid : Counted(r)'
  <2>1. s - 2 \in {0, 1} /\ (s - 2) + 2 = s
    OBVIOUS
  <2>2. QED
    BY <1>3, <2>1, MatchingBalances
<1>4. QED
  BY <1>1, <1>2, <1>3, MatchingSteps, AskingBalances, TellingBalances, CountingBalances
     DEF MatchInv

(* The two balances add up to what the property counts.                    *)
LEMMA MatchesCounted == TypeOK /\ MatchInv => EveryUnlockIsMatched
<1> SUFFICES ASSUME TypeOK, MatchInv, NEW q \in Pid
             PROVE  incoming[q] + Len(unlockq[q][0]) + Len(unlockq[q][1])
                       = relockq[q][2] + relockq[q][3]
                            + Cardinality(UNION {Owes(p, q) : p \in Pid})
  BY DEF EveryUnlockIsMatched
<1>1. PICK a, b \in Nat : incoming[q] = a + b /\ Balanced(q, 0, a) /\ Balanced(q, 1, b)
  BY DEF MatchInv, Counted
<1>2. UNION {Owes(p, q) : p \in Pid} = Owed(q, 0) \cup Owed(q, 1)
  BY SignalPairs DEF Owed, Askers
<1>3. Owed(q, 0) \cap Owed(q, 1) = {}
  <2>1. \A x : ~(x \in Owed(q, 0) /\ x \in Owed(q, 1))
    BY OwedElements DEF Askers
  <2>2. QED
    BY <2>1
<1>4. IsFiniteSet(Owed(q, 0)) /\ IsFiniteSet(Owed(q, 1))
  BY <1>1 DEF Balanced
<1>5. PICK m, n \in Nat : m = Cardinality(Owed(q, 0)) /\ n = Cardinality(Owed(q, 1))
  BY <1>4, FS_CardinalityType
<1>6. Cardinality(UNION {Owes(p, q) : p \in Pid}) = m + n
  <2>1. \A S, T : IsFiniteSet(S) /\ IsFiniteSet(T) =>
                     Cardinality(S \cup T) =
                        Cardinality(S) + Cardinality(T) - Cardinality(S \cap T)
    BY FS_Union
  <2>2. Cardinality(Owed(q, 0) \cup Owed(q, 1)) =
           Cardinality(Owed(q, 0)) + Cardinality(Owed(q, 1))
              - Cardinality(Owed(q, 0) \cap Owed(q, 1))
    BY <1>4, <2>1, Zenon
  <2>3. Cardinality(Owed(q, 0) \cap Owed(q, 1)) = 0
    BY <1>3, FS_EmptySet, Zenon
  <2>4. QED
    BY <1>2, <1>5, <2>2, <2>3
<1>7. a + Len(unlockq[q][0]) = relockq[q][0 + 2] + m /\ b + Len(unlockq[q][1]) = relockq[q][1 + 2] + n
  BY <1>1, <1>5 DEF Balanced
<1>8. PICK i, j, k, l \in Nat : /\ i = Len(unlockq[q][0]) /\ j = Len(unlockq[q][1])
                                /\ k = relockq[q][2] /\ l = relockq[q][3]
  <2>1. Len(unlockq[q][0]) \in Nat /\ Len(unlockq[q][1]) \in Nat
    BY MatchTypes
  <2>2. relockq[q][2] \in Nat /\ relockq[q][3] \in Nat
    BY DEF TypeOK
  <2>3. QED
    BY <2>1, <2>2
<1>9. a + i = k + m /\ b + j = l + n
  BY <1>7, <1>8
<1>10. (a + b) + i + j = k + l + (m + n)
  BY <1>9
<1>11. QED
  BY <1>1, <1>6, <1>8, <1>10

(* A process that let go is told that it may lock again exactly once for   *)
(* every time it was asked.                                                *)
THEOREM UnlocksMatch ==
    ASSUME Staying
    PROVE  Spec => []EveryUnlockIsMatched
<1>1. Init => MatchInv
  <2> SUFFICES ASSUME Init PROVE MatchInv
    OBVIOUS
  <2>1. AskedAreHere
    BY DEF Init, AskedAreHere, NoWatchers
  <2>2. ASSUME NEW q \in Pid PROVE Counted(q)
    <3>1. ASSUME NEW s \in {0, 1} PROVE Balanced(q, s, 0)
      <4>1. \A x : x \notin Owed(q, s)
        BY OwedElements DEF Init, NoWatchers, Askers
      <4>2. Owed(q, s) = {}
        BY <4>1
      <4>3. IsFiniteSet(Owed(q, s)) /\ Cardinality(Owed(q, s)) = 0
        BY <4>2, FS_EmptySet
      <4>4. unlockq[q][s] = <<>> /\ relockq[q][s + 2] = 0
        BY DEF Init, NoUnlocks, NoRelocks
      <4>5. QED
        BY <4>3, <4>4 DEF Balanced
    <3>2. incoming[q] = 0 + 0
      BY DEF Init
    <3>3. QED
      BY <3>1, <3>2 DEF Counted
  <2>3. QED
    BY <2>1, <2>2 DEF MatchInv
<1>2. IInv /\ MatchInv /\ [Next]_vars => MatchInv'
  BY MatchStep
<1>3. IInv /\ MatchInv => EveryUnlockIsMatched
  BY MatchesCounted, InvSplit
<1>4. QED
  BY <1>1, <1>2, <1>3, Invariance, PTL DEF Spec
=============================================================================
