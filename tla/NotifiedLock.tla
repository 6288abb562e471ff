---------------------------- MODULE NotifiedLock ----------------------------
(***************************************************************************)
(* What the logfile lock of libnethack promises to the code that uses it,  *)
(* with no signals, no kernel locks and no waiting: four conceptual lock   *)
(* levels (the comment that opens the locking part of files.c), and a      *)
(* process that sits at a monitor lock and yields to a writer.  A process  *)
(* that comes back from yielding has been told that the file may have      *)
(* changed, unless it had frozen its view of the game for a zero-time      *)
(* command.                                                                *)
(***************************************************************************)
CONSTANT Pid

VARIABLES
    mode,   \* lock mode of each process, "yielded" inside handle_sigrtmin1
    view    \* what each process knows of the contents of the log file

vars == <<mode, view>>

Mode == {"none", "monitor", "read", "write", "yielded"}
View == {"current", "stale", "told", "frozen"}

Attached(p) == mode[p] # "none"
MayRead(p)  == \A q \in Pid \ {p} : mode[q] # "write"
MayWrite(p) == \A q \in Pid \ {p} : mode[q] \in {"none", "yielded"}

Init == /\ mode = [p \in Pid |-> "none"]
        /\ view = [p \in Pid |-> "current"]

(* Any level but write needs the absence of a writer; a writer needs that  *)
(* every other process is away from the file.  Going from read to write    *)
(* without letting go in between is forbidden.                             *)
SetMode(p, m) ==
    /\ mode[p] # "yielded" /\ m # "yielded"
    /\ m \in {"monitor", "read"} => MayRead(p)
    /\ m = "write" => MayWrite(p) /\ mode[p] \in {"monitor", "write"}
    /\ mode' = [mode EXCEPT ![p] = m]
    /\ view' = [view EXCEPT ![p] = IF mode[p] = "none" \/ m = "none"
                                   THEN "current" ELSE @]

Yield(p) == /\ mode[p] = "monitor"
            /\ mode' = [mode EXCEPT ![p] = "yielded"]
            /\ UNCHANGED view

Resume(p) == /\ mode[p] = "yielded"
             /\ MayRead(p)
             /\ mode' = [mode EXCEPT ![p] = "monitor"]
             /\ \/ view' = [view EXCEPT ![p] = "told"]
                \/ view' = [view EXCEPT ![p] = IF @ = "stale" THEN "frozen"
                                                              ELSE @]

(* A process that dies while it is yielded never resumes.                  *)
Die(p) == /\ mode' = [mode EXCEPT ![p] = "none"]
          /\ view' = [view EXCEPT ![p] = "current"]

Write(p) == /\ mode[p] = "write"
            /\ view' = [q \in Pid |-> IF q # p /\ Attached(q) THEN "stale"
                                                              ELSE view[q]]
            /\ UNCHANGED mode

Reread(p) == /\ mode[p] \in {"read", "write"}
             /\ view' = [view EXCEPT ![p] = "current"]
             /\ UNCHANGED mode

Next == \E p \in Pid : \/ \E m \in Mode : SetMode(p, m)
                       \/ Yield(p) \/ Resume(p) \/ Die(p)
                       \/ Write(p) \/ Reread(p)

Spec == Init /\ [][Next]_vars
=============================================================================
