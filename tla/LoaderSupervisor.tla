--------------------------- MODULE LoaderSupervisor ---------------------------
(***************************************************************************)
(* One launch of the app's in-process loader, build_native_loader_probe in *)
(* app/src/main/cpp/runtime_report.cpp: the forked guest is seized with    *)
(* ptrace, a waitpid loop serves the stops of every thread and process it  *)
(* creates, a watchdog thread bounds the launch, two reader threads drain  *)
(* the guest's pipes, and the launch returns once all of them are done.    *)
(*                                                                         *)
(* The kernel is modelled from how the loop uses it.  A group stop reports *)
(* PTRACE_EVENT_STOP, and PTRACE_GETSIGINFO may or may not fail with       *)
(* EINVAL on it: the loop tells its stops apart by that alone.             *)
(***************************************************************************)
EXTENDS Naturals, FiniteSets

CONSTANTS
    Tids,         \* thread ids the kernel hands out
    Leader,       \* pid of the forked guest
    None,
    WatchdogSec,  \* ceiling on the guest's lifetime, in polls
    NoProgressSec,\* polls without an event before the guest is wedged
    MaxImages,    \* bound on address spaces made by fork and execve
    MaxStops      \* bound on job-control stops of a guest process

ASSUME LoaderAssumption ==
    /\ Leader \in Tids /\ None \notin Tids
    /\ WatchdogSec \in Nat \ {0} /\ NoProgressSec \in Nat \ {0}
    /\ MaxImages \in Nat \ {0} /\ MaxStops \in Nat

\* What a signal-delivery stop leads to once it is resumed: nothing, the death
\* of the process, or the kill of a guest whose emulated calls ran away.
SignalStops == {"benign", "fatal", "runaway"}
EventStops  == {"initial", "group", "interrupt"}   \* PTRACE_EVENT_STOP
StopKinds   == SignalStops \cup EventStops \cup {"seccomp", "event", "exec"}

VARIABLES
    st,      \* absent, forked (reads go_pipe), running, untraced, waitable, held,
             \* parked (LISTEN), execing, zombie
    stop,    \* the ptrace stop a thread is in
    group,   \* thread group of a thread
    mm,      \* address space of a thread
    images,  \* address spaces made so far
    pend,    \* threads that owe a group stop
    stops,   \* job-control stops so far
    pgrp,    \* processes in the process group whose id is the leader's pid
    former,  \* PTRACE_GETEVENTMSG of an exec stop not handled yet
    sup,     \* the launch thread: where it is, the tid and stop it handles
    known, listening,   \* known_tids, listening_tids
    fd,      \* mem_fds: the address space a cached /proc/<tid>/mem refers to
    dog,     \* the watchdog thread and its timers
    moved,   \* ev_head differs from last_ev
    persist, \* ALR_PERSIST_GUEST
    leak,    \* a process that is not a tracee holds our pipes' write ends
    odd      \* history: "thread" when a thread other than a leader called execve,
             \* "lost" when an exec stop ended before the loop handled it

kernel == <<st, stop, group, mm, images, pend, stops, pgrp, former, odd>>
loop   == <<known, listening, fd>>
fixed  == <<persist, leak>>
vars   == <<kernel, sup, loop, dog, moved, fixed>>

Init ==
    /\ st = [t \in Tids |-> IF t = Leader THEN "forked" ELSE "absent"]
    /\ stop = [t \in Tids |-> "none"]
    /\ group = [t \in Tids |-> t]
    /\ mm = [t \in Tids |-> IF t = Leader THEN 1 ELSE 0] /\ images = 1
    /\ pend = {} /\ stops = 0 /\ pgrp = {} /\ odd = {}
    /\ former = [t \in Tids |-> None]
    /\ sup = [at |-> "attach", tid |-> None, kind |-> "none"]
    /\ known = {Leader} /\ listening = {}
    /\ fd = [t \in Tids |-> 0]
    /\ dog = [at |-> "off", elapsed |-> 0, stagnant |-> 0]
    /\ moved = FALSE
    /\ persist \in BOOLEAN /\ leak = FALSE

-----------------------------------------------------------------------------
(* The kernel. *)

Live       == {t \in Tids : st[t] # "absent"}
Members(p) == {t \in Live : group[t] = p}

\* A thread leaves its exec stop and the loop has not handled it.
Lose == odd' = IF \E t \in Tids : former[t] # None /\ st'[t] \notin {"waitable", "held"}
               THEN odd \cup {"lost"} ELSE odd

\* SIGKILL to every process in ps, the threads being in states s.
Killed(s, ps) ==
    /\ st' = [t \in Tids |-> IF t \in Live /\ group[t] \in ps THEN "zombie" ELSE s[t]]
    /\ stop' = [t \in Tids |-> IF st'[t] \in {"zombie", "running"} THEN "none" ELSE stop[t]]
    /\ pend' = {t \in pend : st'[t] # "zombie"}
    /\ Lose

\* waitpid reports a stop, and an exit once a leader is the last of its group.
Reportable(t) ==
    \/ st[t] = "waitable"
    \/ st[t] = "zombie" /\ (group[t] # t \/ Members(t) = {t})

Stopped(t, k) ==
    /\ st' = [st EXCEPT ![t] = "waitable"]
    /\ stop' = [stop EXCEPT ![t] = k]

\* A guest thread runs into a trapped syscall or is sent a signal.
Trap(t) ==
    /\ st[t] = "running" /\ t \notin pend
    /\ \E k \in SignalStops \cup {"seccomp"} : Stopped(t, k)
    /\ UNCHANGED <<group, mm, images, pend, stops, pgrp, former, odd>>
    /\ UNCHANGED <<sup, loop, dog, moved, fixed>>

\* clone of a thread u, or fork of a process u with an address space of its own.
\* Tids go round: one that an execve freed is not back before its report is read.
Spawn(t, u, forks) ==
    /\ st[t] = "running" /\ t \notin pend /\ st[u] = "absent" /\ u # Leader
    /\ \A g \in Tids : former[g] # u
    /\ forks => images < MaxImages
    /\ st' = [st EXCEPT ![t] = "waitable", ![u] = "waitable"]
    /\ stop' = [stop EXCEPT ![t] = "event", ![u] = "initial"]
    /\ group' = [group EXCEPT ![u] = IF forks THEN u ELSE group[t]]
    /\ images' = IF forks THEN images + 1 ELSE images
    /\ mm' = [mm EXCEPT ![u] = IF forks THEN images' ELSE mm[t]]
    /\ pgrp' = IF forks /\ group[t] \in pgrp THEN pgrp \cup {u} ELSE pgrp
    /\ UNCHANGED <<pend, stops, former, odd, sup, loop, dog, moved, fixed>>

\* execve kills the other threads of the group, and completes once the tracer
\* has reaped them; the caller then goes on under the leader's tid.
ExecStart(t) ==
    /\ st[t] = "running" /\ t \notin pend /\ images < MaxImages
    /\ st' = [u \in Tids |-> IF u = t THEN "execing"
                             ELSE IF u \in Members(group[t]) THEN "zombie" ELSE st[u]]
    /\ stop' = [u \in Tids |-> IF st'[u] = "zombie" THEN "none" ELSE stop[u]]
    /\ pend' = pend \ Members(group[t])
    /\ images' = images + 1
    /\ mm' = [mm EXCEPT ![t] = images']
    /\ odd' = IF t = group[t] THEN odd ELSE odd \cup {"thread"}
    /\ UNCHANGED <<group, stops, pgrp, former>>
    /\ UNCHANGED <<sup, loop, dog, moved, fixed>>

ExecDone(t) ==
    /\ st[t] = "execing" /\ Members(group[t]) \subseteq {t, group[t]}
    /\ LET g == group[t] IN
       /\ st' = [st EXCEPT ![t] = "absent", ![g] = "waitable"]
       /\ stop' = [stop EXCEPT ![g] = "exec"]
       /\ mm' = [mm EXCEPT ![t] = 0, ![g] = mm[t]]
       /\ former' = [former EXCEPT ![g] = t]
       /\ group' = [group EXCEPT ![t] = t]
    /\ UNCHANGED <<images, pend, stops, pgrp, odd, sup, loop, dog, moved, fixed>>

\* exit of a thread, or exit_group of its process.  All that an untraced guest
\* does is to exit: its threads and children report to no one.
Exit(t, all) ==
    /\ st[t] \in {"running", "untraced"}
    /\ Killed(IF all THEN st ELSE [st EXCEPT ![t] = "zombie"],
              IF all THEN {group[t]} ELSE {})
    /\ UNCHANGED <<group, mm, images, stops, pgrp, former>>
    /\ UNCHANGED <<sup, loop, dog, moved, fixed>>

\* The guest's first program makes itself the leader of a process group.
Setsid ==
    /\ st[Leader] \in {"running", "untraced"} /\ pgrp = {}
    /\ pgrp' = {Leader}
    /\ UNCHANGED <<st, stop, group, mm, images, pend, stops, former, odd>>
    /\ UNCHANGED <<sup, loop, dog, moved, fixed>>

\* Job control stops a process: each thread owes a group stop.
GroupStop(p) ==
    /\ stops < MaxStops /\ \E t \in Members(p) : st[t] = "running"
    /\ stops' = stops + 1
    /\ pend' = pend \cup {t \in Members(p) : st[t] \in {"running", "waitable", "held"}}
    /\ UNCHANGED <<st, stop, group, mm, images, pgrp, former, odd>>
    /\ UNCHANGED <<sup, loop, dog, moved, fixed>>

EnterGroupStop(t) ==
    /\ t \in pend /\ st[t] = "running"
    /\ Stopped(t, "group")
    /\ pend' = pend \ {t}
    /\ UNCHANGED <<group, mm, images, stops, pgrp, former, odd>>
    /\ UNCHANGED <<sup, loop, dog, moved, fixed>>

\* SIGCONT: a parked thread reports its stop once more.
Sigcont(p) ==
    /\ \E t \in Members(p) : st[t] = "parked"
    /\ st' = [t \in Tids |-> IF t \in Members(p) /\ st[t] = "parked"
                             THEN "waitable" ELSE st[t]]
    /\ pend' = pend \ Members(p)
    /\ UNCHANGED <<stop, group, mm, images, stops, pgrp, former, odd>>
    /\ UNCHANGED <<sup, loop, dog, moved, fixed>>

\* The guest of the other launch, or the child, that inherited our pipes ends.
OtherGuestEnds ==
    /\ leak /\ leak' = FALSE
    /\ UNCHANGED <<kernel, sup, loop, dog, moved, persist>>

-----------------------------------------------------------------------------
(* The launch thread. *)

\* PTRACE_SEIZE with all options, the byte that releases the child even if that
\* failed, and the start of the watchdog.
Attach ==
    /\ sup.at = "attach"
    /\ sup' = [sup EXCEPT !.at = "guard"]
    /\ \E s \in {"running", "untraced"} : st' = [st EXCEPT ![Leader] = s]
    /\ dog' = [dog EXCEPT !.at = "poll"]
    /\ UNCHANGED <<stop, group, mm, images, pend, stops, pgrp, former, odd>>
    /\ UNCHANGED <<loop, moved, fixed>>

\* When every known tid is parked no report can come: interrupt them all.
AllListening == known # {} /\ Cardinality(listening) = Cardinality(known)

Guard ==
    /\ sup.at = "guard"
    /\ sup' = [sup EXCEPT !.at = "wait"]
    /\ LET hit(s) == {t \in listening : AllListening /\ st[t] = s} IN
       /\ st' = [t \in Tids |-> IF t \in hit("parked") \cup hit("running")
                                THEN "waitable" ELSE st[t]]
       /\ stop' = [t \in Tids |-> IF t \in hit("running") THEN "interrupt" ELSE stop[t]]
    /\ UNCHANGED <<group, mm, images, pend, stops, pgrp, former, odd>>
    /\ UNCHANGED <<loop, dog, moved, fixed>>

\* waitpid(-1, __WALL | __WNOTHREAD) returns a stop ...
WaitStop(w) ==
    /\ sup.at = "wait" /\ st[w] = "waitable"
    /\ sup' = [at |-> "handle", tid |-> w, kind |-> stop[w]]
    /\ st' = [st EXCEPT ![w] = "held"]
    /\ moved' = ~persist   \* a persistent guest's watchdog reads no progress
    /\ UNCHANGED <<stop, group, mm, images, pend, stops, pgrp, former, odd>>
    /\ UNCHANGED <<loop, dog, fixed>>

\* ... or an exit, and with it the last use of the tid.
WaitExit(w) ==
    /\ sup.at = "wait" /\ st[w] = "zombie" /\ Reportable(w)
    /\ sup' = [sup EXCEPT !.at = "guard"]
    /\ st' = [st EXCEPT ![w] = "absent"]
    /\ group' = [group EXCEPT ![w] = w]
    /\ pgrp' = pgrp \ {w}
    /\ fd' = [fd EXCEPT ![w] = 0]
    /\ known' = known \ {w} /\ listening' = listening \ {w}
    /\ mm' = [mm EXCEPT ![w] = 0] /\ former' = [former EXCEPT ![w] = None]
    /\ UNCHANGED <<stop, images, pend, stops, odd, dog, moved, fixed>>

Handling(w, kinds) ==
    /\ sup.at = "handle" /\ sup.tid = w /\ sup.kind \in kinds
    /\ sup' = [at |-> "guard", tid |-> None, kind |-> "none"]
    /\ former' = [former EXCEPT ![w] = None]
    /\ UNCHANGED <<dog, moved, fixed, group, mm, images, stops, pgrp>>

\* A request to w fails with ESRCH when w was killed meanwhile.  When another
\* thread took w's tid over by execve, it reaches that thread's exec stop.
Attached(w) == st[w] \in {"held", "waitable"}

\* PTRACE_CONT with no signal.
Cont(w) ==
    /\ st' = IF Attached(w) THEN [st EXCEPT ![w] = "running"] ELSE st
    /\ stop' = [stop EXCEPT ![w] = "none"]
    /\ UNCHANGED pend

Resume(w) == Cont(w) /\ Lose

\* mem_fd_for, mem_fd_evict: opened at first use and, after a failed access,
\* closed and opened again if that succeeds.
UseMemFd(w) ==
    \/ UNCHANGED fd
    \/ Attached(w) /\ fd' = [fd EXCEPT ![w] = mm[w]]
    \/ fd' = [fd EXCEPT ![w] = 0]

\* A trapped syscall: clone and clone3 lose CLONE_VFORK, a path or a program
\* path is rewritten in place; all but clone go through the cached mem fd.
HandleSeccomp(w) ==
    /\ Handling(w, {"seccomp"})
    /\ UseMemFd(w)
    /\ Resume(w)
    /\ UNCHANGED <<known, listening>>

\* Mutant: only the reporting tid's fd is evicted.
HandleExecSelf(w) ==
    /\ Handling(w, {"exec"})
    /\ fd' = [fd EXCEPT ![w] = 0]
    /\ Cont(w)
    /\ UNCHANGED <<known, listening, odd>>

\* The image is new: the fds of w and of the tid that called execve are stale.
HandleExec(w) ==
    /\ Handling(w, {"exec"})
    /\ fd' = [t \in Tids |-> IF t = w \/ (st[w] = "held" /\ t = former[w]) THEN 0 ELSE fd[t]]
    /\ Cont(w)
    /\ UNCHANGED <<known, listening, odd>>

\* The first stop of a tid is never a group stop.
HandleNewTid(w) ==
    /\ w \notin known
    /\ Handling(w, EventStops)
    /\ known' = known \cup {w}
    /\ Resume(w)
    /\ UNCHANGED <<listening, fd>>

\* PTRACE_GETSIGINFO may fail with EINVAL.
GroupStopped(w) == st[w] = "held" /\ sup.kind \in {"group", "initial"}

\* Mutant: the second report is taken for another beginning.
HandleGroupStopBegin(w) ==
    /\ w \in known /\ GroupStopped(w)
    /\ Handling(w, EventStops)
    /\ listening' = listening \cup {w}
    /\ st' = [st EXCEPT ![w] = "parked"]
    /\ UNCHANGED <<stop, pend, odd, known, fd>>

\* It does: park a thread at the first report, let it run at the second.
HandleGroupStop(w) ==
    /\ w \in known /\ GroupStopped(w)
    /\ Handling(w, EventStops)
    /\ IF w \in listening
       THEN listening' = listening \ {w} /\ Resume(w)
       ELSE /\ listening' = listening \cup {w}
            /\ st' = [st EXCEPT ![w] = "parked"]
            /\ UNCHANGED <<stop, pend, odd>>
    /\ UNCHANGED <<known, fd>>

\* It succeeds, or the thread is gone.
HandleEventStop(w) ==
    /\ w \in known
    /\ Handling(w, EventStops)
    /\ listening' = listening \ {w}
    /\ Resume(w)
    /\ UNCHANGED <<known, fd>>

HandleEvent(w) ==
    /\ Handling(w, {"event"})
    /\ Resume(w)
    /\ UNCHANGED loop

\* Signals: stop signals and a sent SIGTRAP are suppressed, a SIGSYS of the
\* filter is emulated, until too many kill the guest; the rest are delivered.
HandleSignal(w) ==
    /\ Handling(w, SignalStops)
    /\ Killed([st EXCEPT ![w] = IF Attached(w) THEN "running" ELSE @],
              {p \in Tids : \/ sup.kind = "runaway" /\ p = Leader
                            \/ sup.kind = "fatal" /\ st[w] = "held" /\ p = group[w]})
    /\ UNCHANGED loop

\* ECHILD: every tracee has been reaped.  sup_done is set from here on.  If a
\* concurrent launch forked while our pipes were open, its guest may be alive,
\* and so may the children of an untraced guest.
LoopDone ==
    /\ sup.at = "wait" /\ Live = {}
    /\ sup' = [sup EXCEPT !.at = "join"]
    /\ leak' \in BOOLEAN
    /\ UNCHANGED <<kernel, loop, dog, moved, persist>>

SupDone == sup.at \in {"join", "drain", "returned"}

\* watchdog.join, then the surviving mem fds are closed.
JoinWatchdog ==
    /\ sup.at = "join" /\ dog.at = "done"
    /\ sup' = [sup EXCEPT !.at = "drain"]
    /\ fd' = [t \in Tids |-> 0]
    /\ UNCHANGED <<kernel, known, listening, dog, moved, fixed>>

\* out_reader and diag_reader end at EOF, when no process holds a write end.
JoinReaders ==
    /\ sup.at = "drain" /\ Live = {} /\ ~leak
    /\ sup' = [sup EXCEPT !.at = "returned"]
    /\ UNCHANGED <<kernel, loop, dog, moved, fixed>>

-----------------------------------------------------------------------------
(* The watchdog thread. *)

\* One second of the polling loop.
Poll ==
    /\ dog.at = "poll" /\ ~SupDone /\ ~persist
    /\ LET idle == IF moved THEN 0 ELSE dog.stagnant + 1
           age  == dog.elapsed + 1
       IN dog' = IF idle >= NoProgressSec \/ age >= WatchdogSec
                 THEN [at |-> "fire", elapsed |-> 0, stagnant |-> 0]
                 ELSE [at |-> "poll", elapsed |-> age, stagnant |-> idle]
    /\ moved' = FALSE
    /\ UNCHANGED <<kernel, sup, loop, fixed>>

StandDown ==
    /\ dog.at \in {"poll", "fire"} /\ SupDone
    /\ dog' = [dog EXCEPT !.at = "done"]
    /\ UNCHANGED <<kernel, sup, loop, moved, fixed>>

\* sup_done was read once more, and the stall is dumped.
Fire ==
    /\ dog.at = "fire" /\ ~SupDone
    /\ dog' = [dog EXCEPT !.at = "kill"]
    /\ UNCHANGED <<kernel, sup, loop, moved, fixed>>

\* Mutant: only the process group is killed.
KillStalledGroupOnly ==
    /\ dog.at = "kill"
    /\ dog' = [dog EXCEPT !.at = "done"]
    /\ Killed(st, pgrp)
    /\ UNCHANGED <<group, mm, images, stops, pgrp, former, sup, loop, moved, fixed>>

\* kill(-leader_pid) and kill(leader_pid): the guest's own process group, if it
\* made one, and its first process.
KillStalled ==
    /\ dog.at = "kill"
    /\ dog' = [dog EXCEPT !.at = "done"]
    /\ Killed(st, pgrp \cup {Leader})
    /\ UNCHANGED <<group, mm, images, stops, pgrp, former, sup, loop, moved, fixed>>

-----------------------------------------------------------------------------
Handle(w) ==
    \/ HandleSeccomp(w) \/ HandleExec(w) \/ HandleEvent(w) \/ HandleSignal(w)
    \/ HandleNewTid(w) \/ HandleGroupStop(w) \/ HandleEventStop(w)

Supervise ==
    \/ Attach \/ Guard \/ LoopDone \/ JoinWatchdog \/ JoinReaders
    \/ \E w \in Tids : WaitStop(w) \/ WaitExit(w) \/ Handle(w)

Watchdog == Poll \/ StandDown \/ Fire \/ KillStalled

Guest(t) ==
    \/ Trap(t) \/ ExecStart(t)
    \/ \E u \in Tids, forks \in BOOLEAN : Spawn(t, u, forks)
    \/ \E all \in BOOLEAN : Exit(t, all)
    \/ GroupStop(t) \/ Sigcont(t)

Kernel(t) == EnterGroupStop(t) \/ ExecDone(t)

Next ==
    \/ Supervise \/ Watchdog \/ Setsid \/ OtherGuestEnds
    \/ \E t \in Tids : Guest(t) \/ Kernel(t)

\* The launch thread and the watchdog are scheduled, and the kernel finishes
\* what it began.  Nothing makes the guest take a step.
Spec ==
    /\ Init /\ [][Next]_vars
    /\ WF_vars(Supervise) /\ WF_vars(Watchdog)
    /\ \A t \in Tids : WF_vars(Kernel(t))

-----------------------------------------------------------------------------
(* What the launch promises. *)

\* A path is read and rewritten through /proc/<tid>/mem of the image the thread
\* runs now: no cached fd outlives an execve or a reuse of its tid, unless
\* a thread left its exec stop before the loop handled it.
MemFdFresh ==
    \A w \in Tids :
        sup.at = "handle" /\ sup.tid = w /\ sup.kind = "seccomp" /\ st[w] = "held"
            => fd[w] \in {0, mm[w]} \/ "lost" \in odd

(* The inductive invariant behind MemFdFresh. *)
LoaderTypes ==
    /\ st \in [Tids -> {"absent", "forked", "running", "untraced", "waitable",
                       "held", "parked", "execing", "zombie"}]
    /\ stop \in [Tids -> StopKinds \cup {"none"}]
    /\ group \in [Tids -> Tids]
    /\ mm \in [Tids -> Nat] /\ fd \in [Tids -> Nat] /\ images \in Nat
    /\ former \in [Tids -> Tids \cup {None}]
    /\ sup \in [at : {"attach", "guard", "wait", "handle", "join", "drain", "returned"},
               tid : Tids \cup {None}, kind : StopKinds \cup {"none"}]

\* Nothing happens before the go byte.
AttachInv ==
    sup.at = "attach" =>
        dog.at = "off" /\ \A t \in Tids : st[t] \in {"absent", "forked"}

\* A thread group is named by a leader that is not gone while it has members.
GroupInv ==
    \A t \in Tids :
        /\ group[group[t]] = group[t]
        /\ group[t] # t => st[group[t]] # "absent"
        /\ st[t] = "absent" => group[t] = t /\ mm[t] = 0

\* A process in its exec stop has one thread, and the tid that called is free.
ExecStopInv ==
    \A g \in Tids :
        /\ stop[g] = "exec" <=> former[g] # None
        /\ former[g] # None =>
             /\ st[g] \in {"waitable", "held"} /\ group[g] = g
             /\ former[g] # g => st[former[g]] = "absent"
             /\ \A t \in Tids \ {g} : st[t] # "absent" => group[t] # g

\* The report being handled is true as long as its thread is held.
HandledInv ==
    sup.at = "handle" =>
        /\ sup.tid \in Tids
        /\ st[sup.tid] = "held" => sup.kind = stop[sup.tid]
        /\ sup.kind = "exec" => st[sup.tid] = "held"

\* A cached fd is stale only between an execve and the report of it.
FdInv ==
    \A t \in Tids :
        \/ fd[t] \in {0, mm[t]}
        \/ st[t] \in {"execing", "zombie"}
        \/ \E g \in Tids : former[g] # None /\ t \in {g, former[g]}

MemFdInv ==
    LoaderTypes /\ ("lost" \notin odd =>
        AttachInv /\ GroupInv /\ ExecStopInv /\ HandledInv /\ FdInv)

\* A guest whose threads are all parked is set running again by the guard at
\* the top of the loop, unless a thread other than a leader called execve.
AllParked == Live # {} /\ \A t \in Live : st[t] = "parked"

ParkedIsReleased ==
    (AllParked /\ odd = {}) ~> (\E t \in Tids : st[t] \in {"running", "zombie"})

\* The launch returns once its guest is gone, and a guest that may not persist
\* is made to go, as long as it is one process and no process that is not a
\* tracee keeps the pipes open.
LaunchReturns ==
    <>[](/\ ~leak
         /\ Live = {} \/ (~persist /\ Live \subseteq Members(Leader)))
        => <>(sup.at = "returned")
=============================================================================
