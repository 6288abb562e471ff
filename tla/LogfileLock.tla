----------------------------- MODULE LogfileLock -----------------------------
(***************************************************************************)
(* The lock on a running game's log file, as libnethack/src/files.c builds *)
(* it on Linux from fcntl locks and real-time signals.                     *)
(*                                                                         *)
(* Every process that has the game open keeps a shared fcntl lock on the   *)
(* file (a "monitor" lock).  A process that needs a lock asks the holders  *)
(* one at a time to let go (SIGRTMIN+0 to a lower PID, +1 to a higher      *)
(* one), waits for each answer (+4), takes the lock, and tells everyone it *)
(* had asked that they may lock again (+2 to a lower PID, +3 to a higher). *)
(* The asked process does all of its part inside the signal handler, which *)
(* itself waits for signals.                                               *)
(***************************************************************************)
EXTENDS Integers, Sequences, FiniteSets

CONSTANTS
    Pid,          \* the process IDs; the protocol compares them
    Alarms,       \* may the alarm of a lock attempt ring?
    MaxAttempts,  \* bound on lock attempts; only where alarms may ring
    MaxTimeouts,  \* bound on timeouts of the waits in handle_sigrtmin1
    MaxDetach,    \* bound on how often processes close the game
    MaxCrash      \* bound on processes that die without closing it

ASSUME PidAssumption == Pid \subseteq Int
ASSUME BoundAssumption ==
    /\ Alarms \in BOOLEAN
    /\ {MaxAttempts, MaxTimeouts, MaxDetach, MaxCrash} \subseteq Nat

VARIABLES
    flock,      \* kernel's fcntl lock of each process
    level,      \* the lock level change_fd_lock last established
    pc,         \* where in change_fd_lock each process is, or "run"
    want,       \* the type argument of the change_fd_lock call under way
    handler,    \* handle_sigrtmin1: not running, in pselect, or relocking
    incoming,   \* unmatched_sigrtmin1s_incoming
    outgoing,   \* unmatched_sigrtmin1s_outgoing
    unlockq,    \* pending SIGRTMIN+0/+1: their senders, in order
    relockq,    \* number of pending SIGRTMIN+2/+3
    ackq,       \* number of pending SIGRTMIN+4
    watchers,   \* logfile_watchers: how often each process was asked
    alarm,      \* is the alarm of the change_fd_lock call still to come?
    view,       \* ghost: what each process knows of the file's contents
    attempts,   \* the counters behind the four bounds
    timeouts,
    detached,
    crashed

signals == <<unlockq, relockq, ackq>>
locks   == <<flock, level>>
control == <<pc, want, alarm>>
counts  == <<incoming, outgoing>>
bounds  == <<attempts, timeouts, detached, crashed>>
vars == <<flock, level, pc, want, handler, incoming, outgoing, unlockq,
          relockq, ackq, watchers, alarm, view, attempts, timeouts, detached,
          crashed>>

Flock   == {"none", "read", "write"}
Level   == {"none", "monitor", "read", "write"}
PC      == {"run", "wait", "flush", "unmask", "dead"}
Handler == {"none", "select", "relock"}
View    == {"current", "stale", "told", "frozen"}

TypeOK ==
    /\ flock \in [Pid -> Flock] /\ level \in [Pid -> Level]
    /\ pc \in [Pid -> PC] /\ want \in [Pid -> Level]
    /\ handler \in [Pid -> Handler]
    /\ incoming \in [Pid -> Nat] /\ outgoing \in [Pid -> Nat]
    /\ unlockq \in [Pid -> [{0, 1} -> Seq(Pid)]]
    /\ relockq \in [Pid -> [{2, 3} -> Nat]]
    /\ ackq \in [Pid -> Nat]
    /\ watchers \in [Pid -> [Pid -> Nat]]
    /\ alarm \in [Pid -> BOOLEAN]
    /\ view \in [Pid -> View]
    /\ attempts \in Nat /\ timeouts \in Nat
    /\ detached \in Nat /\ crashed \in Nat

NoWatchers == [q \in Pid |-> 0]
NoUnlocks  == [s \in {0, 1} |-> <<>>]
NoRelocks  == [s \in {2, 3} |-> 0]

Init ==
    /\ flock = [p \in Pid |-> "none"] /\ level = [p \in Pid |-> "none"]
    /\ pc = [p \in Pid |-> "run"] /\ want = [p \in Pid |-> "none"]
    /\ handler = [p \in Pid |-> "none"]
    /\ incoming = [p \in Pid |-> 0] /\ outgoing = [p \in Pid |-> 0]
    /\ unlockq = [p \in Pid |-> NoUnlocks]
    /\ relockq = [p \in Pid |-> NoRelocks]
    /\ ackq = [p \in Pid |-> 0]
    /\ watchers = [p \in Pid |-> NoWatchers]
    /\ alarm = [p \in Pid |-> FALSE]
    /\ view = [p \in Pid |-> "current"]
    /\ attempts = 0 /\ timeouts = 0 /\ detached = 0 /\ crashed = 0

-----------------------------------------------------------------------------
(* Sending: sigqueue() keeps the order of equal signals, and a signal to a *)
(* process that ignores it, or that is gone, is lost.                      *)

(* Mutants: one unlock signal for all; the two relock signals mixed up.    *)
UnlockSignalSymmetric(from, to) == 1
RelockSignalSwapped(from, to)   == IF to < from THEN 3 ELSE 2

UnlockSignal(from, to) == IF to < from THEN 0 ELSE 1
RelockSignal(from, to) == IF to < from THEN 2 ELSE 3

Listening(p) == pc[p] # "dead" /\ (level[p] # "none" \/ pc[p] # "run")

SendUnlock(from, to) ==
    unlockq' = IF Listening(to)
               THEN [unlockq EXCEPT ![to][UnlockSignal(from, to)] =
                                        Append(@, from)]
               ELSE unlockq

(* The queue of p without the signal it is handling.                       *)
TakeUnlock(p, s) == unlockq' = [unlockq EXCEPT ![p][s] = Tail(@)]

SendAck(to) ==
    ackq' = IF Listening(to) THEN [ackq EXCEPT ![to] = @ + 1] ELSE ackq

SendRelocks(p) ==
    relockq' = [q \in Pid |->
                  IF Listening(q)
                  THEN [relockq[q] EXCEPT ![RelockSignal(p, q)] =
                                              @ + watchers[p][q]]
                  ELSE relockq[q]]

(* Receiving: of the signals in mask S the kernel delivers the lowest.     *)
Pending(p, s) == CASE s \in {0, 1} -> unlockq[p][s] # <<>>
                   [] s \in {2, 3} -> relockq[p][s] > 0
                   [] OTHER        -> ackq[p] > 0

Lowest(p, S, s) == /\ s \in S /\ Pending(p, s)
                   /\ \A r \in S : r < s => ~Pending(p, r)

(* Mutant: +0..+3 are unmasked whatever lock was taken.                    *)
UnmaskedAtAnyLevel(p) ==
    CASE pc[p] = "wait" -> IF outgoing[p] > 0 THEN {1, 3, 4} ELSE {}
      [] pc[p] \in {"run", "unmask"} -> 0..4
      [] OTHER -> {}

(* Signals that reach p outside handle_sigrtmin1.  A process waiting for   *)
(* its own lock looks only from inside sigsuspend, which it enters only if *)
(* it knows a reason why the lock would not hold, and then not at +0, +2.  *)
Unmasked(p) ==
    CASE pc[p] = "wait" -> IF outgoing[p] > 0 THEN {1, 3, 4} ELSE {}
      [] pc[p] \in {"run", "unmask"} ->
            IF level[p] \in {"read", "write"} THEN {4} ELSE 0..4
      [] OTHER -> {}

(* The mask handle_sigrtmin1 gives to pselect: that of the interrupted     *)
(* code (everything, for a process inside change_fd_lock), less +1, +3, +4.*)
SelectMask(p) == IF pc[p] = "wait" THEN {1, 3, 4} ELSE 0..4

Deliverable(p) == CASE handler[p] = "none"   -> Unmasked(p)
                    [] handler[p] = "select" ->
                          IF incoming[p] > 0 THEN SelectMask(p) ELSE {}
                    [] OTHER -> {}

Delivered(p, s) == Lowest(p, Deliverable(p), s)

-----------------------------------------------------------------------------
(* change_fd_lock(program_state.logfile, TRUE, type, timeout)              *)

InOrdinaryCode(p) == pc[p] = "run" /\ handler[p] = "none"

Downgrade(from, to) == \/ from = "write"
                       \/ from = "read" /\ to = "monitor"

(* Entry: handlers are installed, the signals masked, the alarm set.  The  *)
(* only upgrade that is never asked for is from read to write.  Where the  *)
(* alarm may ring a process may ask again and again, so attempts that can  *)
(* fail are counted; without alarms the protocol has finitely many states. *)
ChangeFdLock(p, type) ==
    /\ InOrdinaryCode(p)
    /\ type # "none"
    /\ level[p] = "none" => type = "monitor"
    /\ ~(level[p] = "read" /\ type = "write")
    /\ pc' = [pc EXCEPT ![p] = "wait"]
    /\ want' = [want EXCEPT ![p] = type]
    /\ alarm' = [alarm EXCEPT ![p] = TRUE]
    /\ IF Alarms /\ type # level[p] /\ ~Downgrade(level[p], type)
       THEN attempts < MaxAttempts /\ attempts' = attempts + 1
       ELSE UNCHANGED attempts
    /\ UNCHANGED <<locks, handler, counts, signals, watchers, view, timeouts,
                   detached, crashed>>

(* Mutant: a monitor is only notified and holds no lock in the kernel.     *)
FlockForNoMonitor(type) ==
    CASE type = "write" -> "write" [] type = "read" -> "read" [] OTHER -> "none"

FlockFor(type) == IF type = "write" THEN "write" ELSE "read"

Conflicts(p, lock) ==
    {q \in Pid \ {p} : flock[q] = "write" \/ (lock = "write" /\ flock[q] = "read")}

(* The loop of change_fd_lock when it knows no reason to wait.             *)
TryingLock(p) == /\ pc[p] = "wait" /\ handler[p] = "none"
                 /\ incoming[p] = 0 /\ outgoing[p] = 0

(* fcntl(fd, F_SETLK) succeeds.                                            *)
SetLock(p) ==
    /\ TryingLock(p)
    /\ Conflicts(p, FlockFor(want[p])) = {}
    /\ flock' = [flock EXCEPT ![p] = FlockFor(want[p])]
    /\ level' = [level EXCEPT ![p] = want[p]]
    /\ pc' = [pc EXCEPT ![p] = "flush"]
    /\ UNCHANGED <<want, alarm, handler, counts, signals, watchers, view,
                   bounds>>

(* It fails; fcntl(fd, F_GETLK) names one of the processes in the way, and *)
(* that one is asked to unlock and remembered as a watcher.                *)
AskHolder(p) ==
    /\ TryingLock(p)
    /\ \E q \in Conflicts(p, FlockFor(want[p])) :
          /\ outgoing' = [outgoing EXCEPT ![p] = @ + 1]
          /\ SendUnlock(p, q)
          /\ watchers' = [watchers EXCEPT ![p][q] = @ + 1]
    /\ UNCHANGED <<locks, control, handler, incoming, relockq, ackq, view,
                   bounds>>

(* The alarm rings while sigsuspend waits: the signals are assumed lost    *)
(* and the lock is not changed.  A process that wanted more than a monitor *)
(* lock is left with the fcntl lock it had, and with +0..+3 masked, which  *)
(* is what the rest of the system sees as a read lock.                     *)
AlarmFails(p) ==
    /\ Alarms
    /\ alarm[p] /\ pc[p] = "wait" /\ handler[p] = "none" /\ outgoing[p] > 0
    /\ alarm' = [alarm EXCEPT ![p] = FALSE]
    /\ incoming' = [incoming EXCEPT ![p] = 0]
    /\ outgoing' = [outgoing EXCEPT ![p] = 0]
    /\ level' = [level EXCEPT ![p] =
                    IF want[p] # "monitor" /\ @ # "none" THEN "read" ELSE @]
    /\ pc' = [pc EXCEPT ![p] = "flush"]
    /\ UNCHANGED <<flock, want, handler, signals, watchers, view, bounds>>

(* The alarm rings while handle_sigrtmin1 has interrupted the sigsuspend:  *)
(* the handler puts alarmed back to what it was when it started.           *)
AlarmLost(p) ==
    /\ Alarms
    /\ alarm[p] /\ pc[p] = "wait" /\ handler[p] = "select"
    /\ alarm' = [alarm EXCEPT ![p] = FALSE]
    /\ UNCHANGED <<locks, pc, want, handler, counts, signals, watchers, view,
                   bounds>>

(* Mutant: the list of watchers is walked but not emptied.                 *)
FlushKeepsWatchers(p) ==
    /\ pc[p] = "flush"
    /\ SendRelocks(p)
    /\ pc' = [pc EXCEPT ![p] = "unmask"]
    /\ UNCHANGED <<locks, want, alarm, handler, counts, unlockq, ackq,
                   watchers, view, bounds>>

(* flush_logfile_watchers, before any signal is unmasked.                  *)
FlushLogfileWatchers(p) ==
    /\ pc[p] = "flush"
    /\ SendRelocks(p)
    /\ watchers' = [watchers EXCEPT ![p] = NoWatchers]
    /\ pc' = [pc EXCEPT ![p] = "unmask"]
    /\ UNCHANGED <<locks, want, alarm, handler, counts, unlockq, ackq, view,
                   bounds>>

(* pthread_sigmask(SIG_UNBLOCK) delivers what is pending before it returns.*)
Return(p) ==
    /\ pc[p] = "unmask" /\ handler[p] = "none"
    /\ \A s \in Unmasked(p) : ~Pending(p, s)
    /\ pc' = [pc EXCEPT ![p] = "run"]
    /\ alarm' = [alarm EXCEPT ![p] = FALSE]
    /\ UNCHANGED <<locks, want, handler, counts, signals, watchers, view,
                   bounds>>

-----------------------------------------------------------------------------
(* The signal handlers                                                     *)

HandleSigrtmin1(p, s) ==
    /\ s \in {0, 1} /\ Delivered(p, s) /\ handler[p] = "none"
    /\ incoming' = [incoming EXCEPT ![p] = @ + 1]
    /\ flock' = [flock EXCEPT ![p] = "none"]
    /\ SendAck(Head(unlockq[p][s]))
    /\ TakeUnlock(p, s)
    /\ handler' = [handler EXCEPT ![p] = "select"]
    /\ UNCHANGED <<level, control, outgoing, relockq, watchers, view, bounds>>

(* Mutant: a second request is counted but not answered.                   *)
RecursiveWithoutAnswer(p, s) ==
    /\ s \in {0, 1} /\ Delivered(p, s) /\ handler[p] = "select"
    /\ incoming' = [incoming EXCEPT ![p] = @ + 1]
    /\ TakeUnlock(p, s)
    /\ UNCHANGED <<locks, control, handler, outgoing, relockq, ackq, watchers,
                   view, bounds>>

HandleSigrtmin1Recursive(p, s) ==
    /\ s \in {0, 1} /\ Delivered(p, s) /\ handler[p] = "select"
    /\ incoming' = [incoming EXCEPT ![p] = @ + 1]
    /\ SendAck(Head(unlockq[p][s]))
    /\ TakeUnlock(p, s)
    /\ UNCHANGED <<locks, control, handler, outgoing, relockq, watchers, view,
                   bounds>>

Decrement(n) == IF n > 0 THEN n - 1 ELSE n

HandleSigrtmin2(p, s) ==
    /\ s \in {2, 3} /\ Delivered(p, s)
    /\ incoming' = [incoming EXCEPT ![p] = Decrement(@)]
    /\ relockq' = [relockq EXCEPT ![p][s] = @ - 1]
    /\ UNCHANGED <<locks, control, handler, outgoing, unlockq, ackq, watchers,
                   view, bounds>>

HandleSigrtmin4(p) ==
    /\ Delivered(p, 4)
    /\ outgoing' = [outgoing EXCEPT ![p] = Decrement(@)]
    /\ ackq' = [ackq EXCEPT ![p] = @ - 1]
    /\ UNCHANGED <<locks, control, handler, incoming, unlockq, relockq,
                   watchers, view, bounds>>

HandlerTimesOut == timeouts < MaxTimeouts /\ timeouts' = timeouts + 1

(* pselect returns because every unlock request is matched, or after three *)
(* seconds without a signal.                                               *)
SelectReturns(p) ==
    /\ handler[p] = "select"
    /\ \/ incoming[p] = 0 /\ UNCHANGED timeouts
       \/ incoming[p] > 0 /\ HandlerTimesOut
    /\ incoming' = [incoming EXCEPT ![p] = 0]
    /\ handler' = [handler EXCEPT ![p] = "relock"]
    /\ UNCHANGED <<locks, control, outgoing, signals, watchers, view, attempts,
                   detached, crashed>>

(* Mutant: the process goes on as if nothing had happened.                 *)
NoServerCancel(p) == UNCHANGED view

(* The process sends itself a server cancel unless its view of the game is *)
(* frozen: a zero-time command, a replay, or no game running yet.          *)
ServerCancel(p) ==
    \E frozen \in BOOLEAN :
        view' = [view EXCEPT ![p] = IF ~frozen THEN "told"
                                    ELSE IF @ = "stale" THEN "frozen" ELSE @]

(* change_fd_lock(program_state.logfile, FALSE, LT_READ, 3) succeeds.      *)
Relock(p) ==
    /\ handler[p] = "relock"
    /\ Conflicts(p, "read") = {}
    /\ flock' = [flock EXCEPT ![p] = "read"]
    /\ handler' = [handler EXCEPT ![p] = "none"]
    /\ ServerCancel(p)
    /\ UNCHANGED <<level, control, counts, signals, watchers, bounds>>

(* What is left of a process that has gone: the kernel drops its lock and  *)
(* its pending signals.                                                    *)
Forget(p) ==
    /\ flock' = [flock EXCEPT ![p] = "none"]
    /\ level' = [level EXCEPT ![p] = "none"]
    /\ unlockq' = [unlockq EXCEPT ![p] = NoUnlocks]
    /\ relockq' = [relockq EXCEPT ![p] = NoRelocks]
    /\ ackq' = [ackq EXCEPT ![p] = 0]
    /\ view' = [view EXCEPT ![p] = "current"]

Die(p) ==
    /\ Forget(p)
    /\ pc' = [pc EXCEPT ![p] = "dead"]
    /\ handler' = [handler EXCEPT ![p] = "none"]
    /\ incoming' = [incoming EXCEPT ![p] = 0]
    /\ outgoing' = [outgoing EXCEPT ![p] = 0]
    /\ watchers' = [watchers EXCEPT ![p] = NoWatchers]
    /\ alarm' = [alarm EXCEPT ![p] = FALSE]
    /\ UNCHANGED <<want, attempts, detached>>

(* The relock finds the file write-locked for three seconds: abort().      *)
RelockAborts(p) ==
    /\ handler[p] = "relock"
    /\ Conflicts(p, "read") # {}
    /\ HandlerTimesOut
    /\ Die(p)
    /\ UNCHANGED crashed

-----------------------------------------------------------------------------
(* The rest of the program                                                 *)

(* log_uninit: change_fd_lock(..., LT_NONE, 0) ignores the signals, which  *)
(* discards the pending ones, before it unlocks.                           *)
Detach(p) ==
    /\ InOrdinaryCode(p)
    /\ level[p] # "none"
    /\ detached < MaxDetach
    /\ detached' = detached + 1
    /\ Forget(p)
    /\ UNCHANGED <<control, handler, counts, watchers, attempts, timeouts,
                   crashed>>

Crash(p) ==
    /\ pc[p] # "dead"
    /\ crashed < MaxCrash
    /\ crashed' = crashed + 1
    /\ Die(p)
    /\ UNCHANGED timeouts

(* A write to the log between start_ and stop_updating_logfile.            *)
Write(p) ==
    /\ InOrdinaryCode(p)
    /\ level[p] = "write"
    /\ view' = [q \in Pid |-> IF q # p /\ level[q] # "none" THEN "stale"
                                                            ELSE view[q]]
    /\ UNCHANGED <<locks, control, handler, counts, signals, watchers, bounds>>

(* The process brings its gamestate up to the end of the log (log_sync,    *)
(* log_replay_save_line, or the line it has just written itself).          *)
Reread(p) ==
    /\ InOrdinaryCode(p)
    /\ level[p] \in {"read", "write"}
    /\ view' = [view EXCEPT ![p] = "current"]
    /\ UNCHANGED <<locks, control, handler, counts, signals, watchers, bounds>>

Handlers(p) == \/ \E s \in {0, 1} : \/ HandleSigrtmin1(p, s)
                                    \/ HandleSigrtmin1Recursive(p, s)
               \/ \E s \in {2, 3} : HandleSigrtmin2(p, s)
               \/ HandleSigrtmin4(p)
               \/ SelectReturns(p)
               \/ Relock(p)

Locking(p) == \/ SetLock(p) \/ AskHolder(p)
              \/ FlushLogfileWatchers(p) \/ Return(p)

Next == \E p \in Pid :
           \/ \E type \in Level : ChangeFdLock(p, type)
           \/ Locking(p) \/ Handlers(p)
           \/ AlarmFails(p) \/ AlarmLost(p) \/ RelockAborts(p)
           \/ Detach(p) \/ Crash(p) \/ Write(p) \/ Reread(p)

Spec == Init /\ [][Next]_vars

(* A process that can run again and again does run, however busily the     *)
(* others lock and unlock: it gets on with its own lock attempt, is handed *)
(* the answers that are waiting for it, and wins the race for the lock it  *)
(* is blocked on.  Code that has a lock goes on to release it, and an      *)
(* alarm that is set rings.  Nothing obliges a process to ask for a lock,  *)
(* to leave, or to die.                                                    *)
Fairness ==
    \A p \in Pid : /\ SF_vars(Locking(p))
                   /\ SF_vars(HandleSigrtmin4(p)) /\ SF_vars(Relock(p))
                   /\ WF_vars(Handlers(p))
                   /\ WF_vars(AlarmFails(p) \/ AlarmLost(p))
                   /\ SF_vars(level[p] \in {"read", "write"}
                              /\ ChangeFdLock(p, "monitor"))

FairSpec == Spec /\ Fairness

-----------------------------------------------------------------------------
(* Properties                                                              *)

(* "If a file is write-locked by any process, all processes have been      *)
(* informed of the write": from the moment a write lock is established,    *)
(* every other process that has the game open is inside handle_sigrtmin1.  *)
WriterIsAlone ==
    \A p, q \in Pid :
        p # q /\ level[p] = "write" /\ level[q] # "none" => handler[q] # "none"

(* No process runs ordinary code, or goes on waiting for a lock of its     *)
(* own, on the strength of a gamestate that another process has changed    *)
(* behind its back.                                                        *)
NobodyIsStale ==
    \A p \in Pid : level[p] # "none" /\ handler[p] = "none" => view[p] # "stale"

(* Why the two hold.  A process outside handle_sigrtmin1 has the fcntl lock *)
(* its level stands for; it enters the handler only from a monitor lock,   *)
(* because a process at a read or write lock never waits for an answer;    *)
(* and the kernel grants no lock next to a write lock.                     *)
LevelIsHeld ==
    \A p \in Pid : /\ level[p] # "none" /\ handler[p] = "none" =>
                        flock[p] # "none"
                   /\ level[p] = "write" => flock[p] = "write"

KernelExcludes ==
    \A p, q \in Pid : p # q /\ flock[p] = "write" => flock[q] = "none"

HandlerFromMonitor ==
    \A p \in Pid : handler[p] # "none" =>
        /\ level[p] = "monitor" /\ flock[p] = "none"
        /\ pc[p] \in {"run", "wait", "unmask"}

HoldersDoNotWait ==
    \A p \in Pid : /\ pc[p] # "wait" => outgoing[p] = 0
                   /\ level[p] \in {"read", "write"} => outgoing[p] = 0
                   /\ pc[p] = "wait" /\ level[p] = "read" => want[p] # "write"

OutsidersKnowNothing ==
    \A p \in Pid : /\ level[p] = "none" =>
                         /\ flock[p] = "none" /\ view[p] = "current"
                         /\ unlockq[p] = NoUnlocks
                   /\ pc[p] = "dead" => level[p] = "none"
                   /\ pc[p] = "wait" /\ level[p] = "none" => want[p] = "monitor"
                   /\ pc[p] = "wait" => want[p] # "none"

IInv == /\ TypeOK /\ LevelIsHeld /\ KernelExcludes /\ HandlerFromMonitor
        /\ HoldersDoNotWait /\ OutsidersKnowNothing /\ NobodyIsStale

(* The unlock requests of p that q has not handled yet.                    *)
Asks(p, q) == LET asks == unlockq[q][UnlockSignal(p, q)]
              IN  {<<q, i>> : i \in {j \in DOMAIN asks : asks[j] = p}}

(* "We block on a signal, because we're going to get one": each answer a   *)
(* waiting process still counts on has been sent, or the question is still *)
(* pending at a process that will answer it.                               *)
AnswerIsComing ==
    \A p \in Pid :
        outgoing[p] = ackq[p] + Cardinality(UNION {Asks(p, q) : q \in Pid})

(* The times that p has asked q, and not told it yet that it may relock.   *)
Owes(p, q) == {p} \X (1..watchers[p][q])

(* A process that let go is told that it may lock again exactly once for   *)
(* every time it was asked.                                                *)
EveryUnlockIsMatched ==
    \A q \in Pid :
        incoming[q] + Len(unlockq[q][0]) + Len(unlockq[q][1])
           = relockq[q][2] + relockq[q][3]
                + Cardinality(UNION {Owes(p, q) : p \in Pid})

(* Every attempt to take a lock ends, in success or in a reported failure. *)
LockAttemptEnds == \A p \in Pid : pc[p] = "wait" ~> pc[p] # "wait"

(* A process that let go of its lock gets it back and goes on.             *)
HandlerReturns == \A p \in Pid : handler[p] # "none" ~> handler[p] = "none"

(* The mode the rest of the program sees: a process inside handle_sigrtmin1 *)
(* is away from the file, whatever level its interrupted code believes in. *)
AbsMode ==
    [p \in Pid |-> IF handler[p] # "none" THEN "yielded" ELSE level[p]]

Abstract == INSTANCE NotifiedLock WITH mode <- AbsMode

(* The signal protocol implements the abstract lock that the rest of       *)
(* libnethack programs against: every step of it changes one process's     *)
(* mode the way NotifiedLock allows, or nothing.                           *)
ImplementsNotifiedLock == Abstract!Spec
=============================================================================
