----------------------------- MODULE Supervisor -----------------------------
(***************************************************************************)
(* alr_supervise(): the signal-only ptrace supervisor of                   *)
(* runtime/alr/src/supervisor/alr_supervisor.c, composed with the kernel   *)
(* and the guest of module GuestKernel.                                    *)
(*                                                                         *)
(* One iteration of the main loop is: waitpid (which reports one thread,   *)
(* blocks, is interrupted by a relayed signal, or fails with ECHILD), then *)
(* drain_pending and the handler of the report, then back to waitpid.  The *)
(* guest and the relayed signals interleave between those steps; a guest   *)
(* killed after its report was taken makes the ptrace calls fail.          *)
(***************************************************************************)
EXTENDS GuestKernel

CONSTANTS
  MaxTracees,   \* ALR_MAX_TRACEES
  RunawayCap    \* runaway_cap

ASSUME SupervisorAssumption ==
  /\ IsFiniteSet(Tids)
  /\ MaxTracees \in Nat \ {0}
  /\ RunawayCap \in Nat

VARIABLES
  pc,            \* launch, loop, blocked (in waitpid), eintr, got, done, failed
  cur,           \* thread waitpid returned
  status,        \* its wait status: a stop kind, or "dead"
  reg,           \* struct sup: state of each registered thread, T_FREE if none
  pending,       \* g_pending
  emulated,      \* stats.sigsys_emulated, saturated just above the cap
  leader_done

svars == <<pc, cur, status, reg, pending, emulated, leader_done>>
vars == <<kvars, svars>>

T_FREE == "free"
T_NEW == "new"
T_RUNNING == "running"

TypeOK ==
  /\ KernelTypeOK
  /\ pc \in {"launch", "loop", "blocked", "eintr", "got", "done", "failed"}
  /\ cur \in Tids \cup {NoTid}
  /\ status \in StopKinds \cup {"dead", "none"}
  /\ reg \in [Tids -> {T_FREE, T_NEW, T_RUNNING}]
  /\ pending \in BOOLEAN
  /\ emulated \in 0..(RunawayCap + 1)
  /\ leader_done \in BOOLEAN

Init ==
  /\ KernelInit
  /\ pc = "launch" /\ cur = NoTid /\ status = "none"
  /\ reg = [t \in Tids |-> T_FREE]
  /\ pending = FALSE /\ emulated = 0
  /\ leader_done = FALSE

-----------------------------------------------------------------------------
(***************************************************************************)
(* The tid registry.  A slot is reused once free, so add() fails exactly   *)
(* when MaxTracees threads are registered.                                 *)
(***************************************************************************)
add(r, t, st) ==
  IF r[t] # T_FREE \/ Cardinality({u \in Tids : r[u] # T_FREE}) >= MaxTracees
  THEN r
  ELSE [r EXCEPT ![t] = st]

drop(r, t) == [r EXCEPT ![t] = T_FREE]

live(r) == {t \in Tids : r[t] # T_FREE}

\* kill(-leader, sig): the signal is queued to every guest process.
drain_pending ==
  /\ pending' = FALSE
  /\ inbox' = IF pending
              THEN inbox \cup {group[t] : t \in {u \in traced : kst[u] \notin {"absent", "zombie"}}}
              ELSE inbox

-----------------------------------------------------------------------------
(***************************************************************************)
(* Launch: wait for the leader's own SIGSTOP, set the options, register    *)
(* it, install the relays and continue it.  A leader that died first, or   *)
(* whose options cannot be set, ends the run at once.                      *)
(***************************************************************************)
Launch ==
  /\ pc = "launch"
  /\ Reportable(Leader)
  /\ \/ /\ kst[Leader] = "waitable"
        /\ reg' = add(reg, Leader, T_RUNNING)
        /\ Resume(Leader, "suppress")
        /\ pc' = "loop"
        /\ UNCHANGED <<group, traced, inbox, leader_done>>
     \/ /\ kst[Leader] = "zombie"
        /\ Reap(Leader)
        /\ leader_done' = TRUE
        /\ pc' = "done"
        /\ UNCHANGED reg
     \/ /\ kst[Leader] = "waitable"          \* SETOPTIONS failed: kill and reap
        /\ kst' = [kst EXCEPT ![Leader] = "absent"]
        /\ stop' = [stop EXCEPT ![Leader] = "none"]
        /\ traced' = {}
        /\ pc' = "failed"
        /\ UNCHANGED <<msg, group, inbox, jobctl, wrong, reg, leader_done>>
  /\ UNCHANGED <<sent, used, cur, status, pending, emulated>>

\* relay(): the handler of SIGINT, SIGTERM, SIGHUP ...  Only a waitpid that is
\* already blocked is interrupted.
Relay ==
  /\ pc \in {"loop", "blocked", "eintr", "got"}
  /\ sent < MaxSignals
  /\ sent' = sent + 1
  /\ pending' = TRUE
  /\ pc' = IF pc = "blocked" THEN "eintr" ELSE pc
  /\ UNCHANGED <<kst, stop, msg, group, traced, inbox, jobctl, used, wrong,
                 cur, status, reg, emulated, leader_done>>

-----------------------------------------------------------------------------
(***************************************************************************)
(* waitpid(-1, &status, __WALL | __WNOTHREAD)                              *)
(***************************************************************************)
WaitStop(t) ==
  /\ pc \in {"loop", "blocked"}
  /\ kst[t] = "waitable"
  /\ kst' = [kst EXCEPT ![t] = "held"]
  /\ cur' = t /\ status' = stop[t] /\ pc' = "got"
  /\ UNCHANGED <<stop, msg, group, traced, inbox, jobctl, sent, used, wrong,
                 reg, pending, emulated, leader_done>>

WaitExit(t) ==
  /\ pc \in {"loop", "blocked"}
  /\ kst[t] = "zombie" /\ Reportable(t)
  /\ Reap(t)
  /\ cur' = t /\ status' = "dead" /\ pc' = "got"
  /\ UNCHANGED <<sent, used, reg, pending, emulated, leader_done>>

WaitBlocks ==
  /\ pc = "loop"
  /\ HasChildren
  /\ ~ \E t \in Tids : Reportable(t)
  /\ pc' = "blocked"
  /\ UNCHANGED <<kvars, cur, status, reg, pending, emulated, leader_done>>

\* Mutant: any waitpid failure is retried.
RetryNoChild ==
  /\ pc \in {"loop", "blocked"}
  /\ ~ HasChildren
  /\ pc' = "loop"
  /\ UNCHANGED <<kvars, cur, status, reg, pending, emulated, leader_done>>

\* ECHILD ends the loop.
WaitNoChild ==
  /\ pc \in {"loop", "blocked"}
  /\ ~ HasChildren
  /\ pc' = "done"
  /\ UNCHANGED <<kvars, cur, status, reg, pending, emulated, leader_done>>

Interrupted ==
  /\ pc = "eintr"
  /\ drain_pending
  /\ pc' = "loop"
  /\ UNCHANGED <<kst, stop, msg, group, traced, jobctl, sent, used, wrong,
                 cur, status, reg, emulated, leader_done>>

-----------------------------------------------------------------------------
(***************************************************************************)
(* Handlers of a report, each preceded by drain_pending.                   *)
(***************************************************************************)
Handling ==
  /\ pc = "got"
  /\ drain_pending
  /\ cur' = NoTid /\ status' = "none"
  /\ UNCHANGED <<sent, used>>

\* Mutant: live() == 0 alone ends the loop.
NextPcIgnoringLeader(r, done) == IF live(r) = {} THEN "done" ELSE "loop"

\* The loop's two breaks: nothing registered and the leader reaped.
NextPc(r, done) == IF live(r) = {} /\ done THEN "done" ELSE "loop"

HandleExit ==
  /\ Handling
  /\ status = "dead"
  /\ reg' = drop(reg, cur)
  /\ leader_done' = (leader_done \/ cur = Leader)
  /\ pc' = NextPc(reg', leader_done')
  /\ UNCHANGED <<kst, stop, msg, group, traced, jobctl, wrong, emulated>>

\* Mutant: the child of a fork event is registered as already started.
HandleForkAsRunning ==
  /\ Handling
  /\ status = "fork"
  /\ reg' = IF msg[cur] # NoTid THEN add(reg, msg[cur], T_RUNNING) ELSE reg
  /\ Resume(cur, "suppress")
  /\ pc' = "loop"
  /\ UNCHANGED <<group, traced, emulated, leader_done>>

\* PTRACE_EVENT_FORK, VFORK, CLONE; PTRACE_GETEVENTMSG fails on a killed parent.
HandleFork ==
  /\ Handling
  /\ status = "fork"
  /\ reg' = IF msg[cur] # NoTid THEN add(reg, msg[cur], T_NEW) ELSE reg
  /\ Resume(cur, "suppress")
  /\ pc' = "loop"
  /\ UNCHANGED <<group, traced, emulated, leader_done>>

\* PTRACE_EVENT_EXEC of alr-lane: detach.
HandleLane ==
  /\ Handling
  /\ status \in {"exec", "exec_lane"}
  /\ stop[cur] = "exec_lane"
  /\ kst' = [kst EXCEPT ![cur] = "running"]
  /\ stop' = [stop EXCEPT ![cur] = "none"]
  /\ msg' = [msg EXCEPT ![cur] = NoTid]
  /\ traced' = traced \ {cur}
  /\ reg' = drop(reg, cur)
  /\ pc' = NextPc(reg', leader_done)
  /\ UNCHANGED <<group, jobctl, wrong, emulated, leader_done>>

\* PTRACE_EVENT_EXEC and EXIT: no bookkeeping.
HandleEvent ==
  /\ Handling
  /\ status \in {"exec", "exec_lane", "exit"}
  /\ ~ (status \in {"exec", "exec_lane"} /\ stop[cur] = "exec_lane")
  /\ Resume(cur, "suppress")
  /\ pc' = "loop"
  /\ UNCHANGED <<group, traced, reg, emulated, leader_done>>

SignalStop == status \in StopKinds \ EventStops

\* A thread never seen: its own first stop beat the parent's event.
HandleUnknown ==
  /\ Handling
  /\ SignalStop
  /\ reg[cur] = T_FREE
  /\ reg' = add(reg, cur, T_RUNNING)
  /\ Resume(cur, "suppress")
  /\ pc' = "loop"
  /\ UNCHANGED <<group, traced, emulated, leader_done>>

\* Mutant: the startup SIGSTOP is passed on like any signal.
HandleStartupInjecting ==
  /\ Handling
  /\ status \in {"startup", "stopsig", "group"}
  /\ reg[cur] = T_NEW
  /\ reg' = [reg EXCEPT ![cur] = T_RUNNING]
  /\ Resume(cur, "inject")
  /\ pc' = "loop"
  /\ UNCHANGED <<group, traced, emulated, leader_done>>

\* Known but new: swallow the startup SIGSTOP.
HandleStartup ==
  /\ Handling
  /\ status \in {"startup", "stopsig", "group"}
  /\ reg[cur] = T_NEW
  /\ reg' = [reg EXCEPT ![cur] = T_RUNNING]
  /\ Resume(cur, "suppress")
  /\ pc' = "loop"
  /\ UNCHANGED <<group, traced, emulated, leader_done>>

\* Signals of registered threads other than the startup stop.
KnownSignal ==
  /\ SignalStop
  /\ reg[cur] # T_FREE
  /\ ~ (reg[cur] = T_NEW /\ status \in {"startup", "stopsig", "group"})

\* handle_sigsys returned 1: result and pc written, signal suppressed; past the
\* runaway cap the process is killed instead.
HandleSigsys ==
  /\ Handling
  /\ KnownSignal
  /\ status \in SigsysStops /\ stop[cur] = ZygoteTrap
  /\ emulated' = IF emulated > RunawayCap THEN emulated ELSE emulated + 1
  /\ IF emulated' > RunawayCap
     THEN Killed(group[cur]) /\ UNCHANGED wrong
     ELSE Resume(cur, "emulate")
  /\ pc' = "loop"
  /\ UNCHANGED <<group, traced, reg, leader_done>>

\* Mutant: a group stop is left as it is, without PTRACE_CONT.
HandleGroupStopNoCont ==
  /\ Handling
  /\ KnownSignal
  /\ status \in {"startup", "stopsig", "group"} /\ stop[cur] = "group"
  /\ pc' = "loop"
  /\ UNCHANGED <<kst, stop, msg, jobctl, wrong, group, traced, reg, emulated, leader_done>>

\* is_group_stop: PTRACE_GETSIGINFO fails with EINVAL.
HandleGroupStop ==
  /\ Handling
  /\ KnownSignal
  /\ status \in {"startup", "stopsig", "group"} /\ stop[cur] = "group"
  /\ Resume(cur, "suppress")
  /\ pc' = "loop"
  /\ UNCHANGED <<group, traced, reg, emulated, leader_done>>

\* Everything else passes through unchanged, SIGSYS that is not ours included.
HandlePassthrough ==
  /\ Handling
  /\ KnownSignal
  /\ ~ (status \in SigsysStops /\ stop[cur] = ZygoteTrap)
  /\ ~ (status \in {"startup", "stopsig", "group"} /\ stop[cur] = "group")
  /\ Resume(cur, "inject")
  /\ pc' = "loop"
  /\ UNCHANGED <<group, traced, reg, emulated, leader_done>>

-----------------------------------------------------------------------------
Wait ==
  \/ \E t \in Tids : WaitStop(t)
  \/ \E t \in Tids : WaitExit(t)
  \/ WaitBlocks
  \/ WaitNoChild

Handle ==
  \/ HandleExit
  \/ HandleFork
  \/ HandleLane
  \/ HandleEvent
  \/ HandleUnknown
  \/ HandleStartup
  \/ HandleSigsys
  \/ HandleGroupStop
  \/ HandlePassthrough

SupervisorStep == Launch \/ Wait \/ Interrupted \/ Handle

Next ==
  \/ SupervisorStep
  \/ Relay
  \/ pc \notin {"done", "failed"} /\ GuestStep /\ UNCHANGED svars   \* else PTRACE_O_EXITKILL

\* The supervisor thread is scheduled; nothing is assumed of the guest.
Fairness == WF_vars(SupervisorStep)

Spec == Init /\ [][Next]_vars /\ Fairness

-----------------------------------------------------------------------------
(***************************************************************************)
(* Properties                                                              *)
(***************************************************************************)

\* Every stop is resumed the way it calls for, whichever of the parent's event
\* and the child's first stop came first: startup and group stops are never
\* re-injected, a zygote trap is always emulated, a guest's own SIGSYS and every
\* other signal always reach the guest (the if-chain of the main loop).
EveryStopResumedProperly == wrong = {}

Alive(t) == kst[t] \in {"running", "waitable", "held"}

\* The registry knows every traced thread that is past its startup stop, and
\* does not believe a thread to be past it that is not (find, add, T_NEW).
RegistryCoversTracees ==
  \A t \in Tids :
    /\ t \in traced /\ Alive(t) /\ stop[t] # "startup" => reg[t] = T_RUNNING
    /\ stop[t] = "startup" => reg[t] # T_RUNNING

(* The parts of the inductive invariant behind the two properties above. *)

\* A thread id that was never handed out is in no state of any kind.
UnusedInv ==
  \A t \in Tids : t \notin used => kst[t] = "absent" /\ reg[t] = T_FREE

\* Only a stopped, traced thread has a stop and an event message.
StopInv ==
  \A t \in Tids :
    /\ stop[t] # "none" <=> kst[t] \in {"waitable", "held"}
    /\ stop[t] # "none" => t \in traced
    /\ msg[t] # NoTid => msg[t] \in used

\* A thread group outlives its threads: the process a thread belongs to is
\* traced, registered and past its startup stop, and alone once it enters the lane.
GroupInv ==
  \A t \in Tids :
    /\ kst[t] # "absent" /\ group[t] # t =>
         /\ group[group[t]] = group[t]
         /\ kst[group[t]] # "absent" /\ group[t] \in traced
         /\ stop[group[t]] \notin {"startup", "exec_lane"}
         /\ reg[group[t]] = T_RUNNING
    /\ stop[t] = "exec_lane" => group[t] = t

\* What waitpid returned still describes the thread, unless the thread was
\* killed or taken over by an execve in the meantime.
ReportInv ==
  /\ pc = "launch" =>
       /\ \A t \in Tids \ {Leader} : kst[t] = "absent"
       /\ reg = [t \in Tids |-> T_FREE]
       /\ stop[Leader] \in {"startup", "none"}
  /\ pc = "got" =>
       /\ cur \in used
       /\ status # "none"
       /\ status = "dead" => kst[cur] = "absent"
       /\ status # "dead" => cur \in traced /\ kst[cur] \in {"held", "waitable", "zombie"}
       /\ kst[cur] = "held" => stop[cur] = status
       /\ kst[cur] = "waitable" => stop[cur] \in {"exec", "exec_lane"}

\* Holds while thread ids are not reused and the registry has room for all.
RegistryInv ==
  /\ UnusedInv
  /\ StopInv
  /\ GroupInv
  /\ ReportInv
  /\ RegistryCoversTracees
  /\ EveryStopResumedProperly

\* No branch of the loop forgets to continue a thread: a thread sits in a
\* reported stop only while the supervisor is handling that very report.
NoTraceeLeftHanging ==
  \A t \in Tids : kst[t] = "held" => pc = "got" /\ cur = t

\* Inductive: with it, what the handlers dereference is always a thread.
HandlerInv ==
  /\ TypeOK
  /\ pc = "got" => cur \in Tids /\ (status = "dead" => kst[cur] # "held")
  /\ \A t \in Tids : stop[t] # "none" <=> kst[t] \in {"waitable", "held"}
  /\ NoTraceeLeftHanging

\* alr_supervise returns only after the leader was reaped, so *status_out is the
\* leader's status, and never leaves behind a living thread it has ever continued
\* (live() == 0 && leader_done, ECHILD).
ReturnsLeaderStatus ==
  pc = "done" =>
    /\ leader_done
    /\ \A t \in traced : Alive(t) => stop[t] = "startup"

\* Inductive part of ReturnsLeaderStatus: the leader does not vanish unreported.
LeaderInv ==
  /\ group[Leader] = Leader
  /\ pc \in {"loop", "blocked", "eintr", "got"} /\ kst[Leader] = "absent" =>
       leader_done \/ (pc = "got" /\ cur = Leader /\ status = "dead")
  /\ ReturnsLeaderStatus

\* Once every guest thread is dead the supervisor reaps them all and returns,
\* even if the registry kept an entry for a thread that is gone (ECHILD break).
GuestDeadLeadsToReturn ==
  (\A t \in traced \cup {Leader} : kst[t] \in {"zombie", "absent"})
    ~> pc \in {"done", "failed"}

\* install_relays' comment: a relayed signal is forwarded promptly instead of
\* after the next tracee event.
RelayForwardedPromptly == pending ~> (~pending \/ pc = "done")
==============================================================================
