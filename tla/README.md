# Verification of android-on-linux (ALR)

TLA+ modules, TLC configurations and TLAPS proofs for the parts of ALR where
several actors meet: the two ptrace supervisors that keep a glibc guest alive
under Android's seccomp filter, the shared-memory GPU transport between a guest
and the host driver, the Wayland compositor and the PulseAudio server inside the
app, the metadata table that fakeroot shares between guest processes, and the
commands that put a root file system on the disk. Paths below are
relative to the repository; `PROJECT.json` maps every definition to the lines it
models.

## 1. Inventory

| Part | State | Operations | Talks to | What is hard | Modelled |
|---|---|---|---|---|---|
| ptrace supervisor, `runtime/alr/src/supervisor/` | tid registry (free, new, running), pending relays, counters, leader status | launch, one loop iteration per wait report, relay handler | kernel (ptrace, wait), every guest thread | reports of parent and child race; tracees die between report and handling; exec from any thread; registry full; signals between check and block | yes |
| app's loader supervisor, `app/src/main/cpp/runtime_report.cpp` (`build_native_loader_probe`) | known and parked tids, cache of `/proc/<tid>/mem` fds, watchdog timers, pipe readers | attach, ptrace loop, group-stop parking, stall watchdog, joins | kernel, guest, watchdog and reader threads | stale memory fds after execve; a group in which everybody is parked; a guest that stalls; pipes inherited by another launch | control, not the text rewriting |
| GPU ring, `app/src/main/cpp/alr_gpu/alr_gpu_ring.hpp`, `guest_shim/alr_gpu_ring_c.h` | data bytes, head, tail, req_seq, reply_seq, closed | init, append, snapshot, advance, flush_and_wait, post_reply | one producer and one consumer, no lock | overlapping copies, wrap, full and empty, publication order | yes |
| GLES frames, `guest_shim/alr_shim_runtime.c`, `alr_gpu_host_service.hpp` | scratch and lock of the shim, frame accumulator and replied_seq of the executor | emit with back-pressure, swap/finish, drain, decode, reply, stop | ring, compositor sink | ops flushed between drain and request; spins that expire; stop against a last flush | yes |
| Vulkan round trip, `guest_icd/alr_icd_runtime.h`, `alr_gpu_vk_host_service.hpp` | request and reply ring, ack | round trip, service batch, push reply, ack, stop | two rings, vendor driver | abandoned calls and late replies | yes |
| provisioning, `runtime/alr/src/cli/alr.c` | cache, `.part`, rootfs directories | install, adopt, update-components, remove | tar, curl, file system | a kill between any two steps, damaged and outdated downloads, one step of several failing | these four commands |
| Wayland compositor, `alr_wayland/alr_compositor.cpp` | surfaces, stacking, focus, grabs, frame-callback queue, injection, GPU-frame and resize queues | protocol requests, 60 Hz tick, injection from the UI thread, start, stop | clients, UI thread, GPU executor | destroyed resources still named by a global; enter and leave; queues shared by threads; buffer references | focus and presentation, not clipboard or the drawing of subsurfaces |
| PulseAudio server, `alr_audio/alr_pulse_server.cpp` | clients, streams, credit, PCM rings, read and write buffers | protocol requests, PCM, audio callback, start, stop | clients, AAudio | back-pressure, full sockets, a callback against a client that goes, stop against a blocked thread | control and data frames |
| fakeroot, `alr_fakeroot/` | hash table in a shared file, futex word in its header | first mapping, chown, chmod and mknod families, stat family | every guest process | lookup and publication across processes, readers without the lock, sleepers and kills | the table, not paths and values |
| ring attach/detach, `alr_gpu_ring_hook.hpp` | holder of service, mapping, fds | attach, detach | executor, loader | idempotence, lifetime of the mapping | no |
| DNS daemon, `cli/alr_resolvd.c` | socket | serve | preload | start-up races | no |
| preload and path rules, `src/preload`, `src/common` | none shared | path rewriting | libc | text | no |
| in-process runtime, interposer, ptys, re-entry, DoH, USB, Kotlin app | mostly per call | - | - | mostly data conversion | no |

Correctness, part by part. *Supervisor*: every stop is resumed the way it calls
for (a startup SIGSTOP that is re-injected freezes the guest; a swallowed signal
is lost), no thread is left stopped, the leader's status is returned, and the
loop ends. *Loader supervisor*: a path is rewritten in the address space the
thread has now, nobody stays parked, the launch returns. *Ring*: a lossless
ordered bounded byte pipe. *Frames*: the decoder sees whole ops, an answered
frame is complete, nobody waits for ever. *Vulkan*: a call gets its own reply, and
an ack means the work was done. *Provisioning*: a rootfs that `alr install` put in
place can start and is the extraction of one verified archive. *Compositor*: no
global names a dead surface, enter precedes events, every scene change is shown,
every callback fires, every queue is drained. *Audio*: the mixer plays the live
streams, in order, every request is answered in order, stop returns.
*Fakeroot*: what was last recorded for a file is what stat returns, in every
process, and never another file's.

## 2. Modules

| Module | Models | Notes |
|---|---|---|
| `GuestKernel` | ptrace stops, wait reports, thread groups, exec, SIGKILL, job control | external, from how the supervisor uses it |
| `Supervisor` | `alr_supervise` | extends `GuestKernel` |
| `SupervisorProofs` | proofs | |
| `BytePipe` | abstract pipe of bytes | what the ring promises |
| `GpuRing` | the ring and the executor's drain loop, byte by byte | implements `BytePipe` |
| `GpuFrames` | shim threads and executor | the ring is reduced to its cursors, which `GpuRing` justifies |
| `GpuFramesProofs` | proofs | |
| `VkRoundtrip` | ICD calls and ring servicer | requests are numbered, a reply is the number of its request |
| `VkRoundtripProofs` | proofs | |
| `Provisioning` | `alr install`, `adopt`, `update-components`, `remove` | a kill inside any step |
| `ProvisioningProofs` | proofs | |
| `PulseServer` | epoll thread, audio callback, start and stop | clients and sockets external |
| `RingProofs` | proofs about `GpuRing`, refinement included, and about `PulseServer` with its PCM ring | extends both |
| `WindowStack` | `zorder_raise`, `zorder_remove` | shared by the two compositor modules |
| `WaylandSeat`, `MCWaylandSeat` | windows, stacking, keyboard, pointer, touch and text-input focus | one thread, any order of requests and input |
| `WaylandPresent`, `MCWaylandPresent` | the compositor's threads, queues, buffers and repainting | start and stop included |
| `WaylandProofs` | proofs about both compositor modules | extends both |
| `LoaderSupervisor` | one launch of the app's loader | its kernel part is external |
| `LoaderSupervisorProofs` | proofs | |
| `FakerootDb`, `MCFakerootDb` | the metadata table of `libalr_fakeroot.so` | processes, shared memory, futex and kills |
| `FakerootDbProofs` | proofs | |

`RingProofs` and `WaylandProofs` each extend two components, so `PulseServer` and
`WaylandPresent` call their specifications `ServerSpec` and `ScreenSpec` (and
`ServerInit`, `screenVars` and so on), which leaves `Spec` to the other one.

The three MC modules hold the constants that are functions (which client owns a
surface, which window a menu belongs to, where a file hashes to) and the
symmetries; every other run gives its constants in the cfg.

### Supervisor

An iteration of the loop is two steps, `Wait...` (waitpid returns) and
`Handle...` (everything up to the next waitpid, `drain_pending` included), so
the guest can move in between: a thread whose stop was reported may be killed or
be taken over by another thread's execve, and the ptrace calls of the handler
then fail as they do in the code (`Resume` leaves a dead thread alone, `msg` is
`NoTid` when GETEVENTMSG fails). A stop is named by what raised it; a handler's
guard uses only what the code can see of it: `status` is what waitpid returned,
while `stop[cur]` is what GETSIGINFO or `/proc/<tid>/exe` say now. `startup`,
`stopsig` and `group` all look like SIGSTOP to the code until is_group_stop asks.
`wrong` records each resumption that was not the proper one. `RunawayCap` counts
emulations up to one past the cap. A thread id is handed out once in the runs;
with `TidReuse` TRUE the stale registry entry of an execve from a thread makes
`RegistryCoversTracees` fail, within nine states.

### GPU ring and frames

`GpuRing` copies a byte per step, the two memcpy calls of a wrapping copy in
order, and publishes `head` last; the value of byte *i* is *i*, so a torn or
stale byte shows in what is received. Release/acquire on the cursors is what
entitles the model to interleave those steps sequentially. `GpuFrames` adds the
handshake: `alr_shim_emit` holds `g_lock` across its back-pressure wait,
`eglSwapBuffers` takes no lock, both bump `req_seq` and spin a bounded time.
`ends` and `flushed` are history: where ops end, and how far the stream was at
each flush. `run_consume_loop`'s two drain loops, the load of `req_seq` between
them, decode, `post_reply` (which loads `req_seq` again) and the final check at
`stop()` are separate steps.

The source calls the second drain "Defensive" and says the first one has already
drained the frame; the mutant without it breaks `AnsweredFramesComplete`, so it
is necessary: `req_seq` is loaded after the first drain ended.

### Vulkan round trip

`g_icd_lock` is held for a whole round trip, so the model has one call at a time.
A call is abandoned when it returns without draining a reply: the 8 s backstop,
a closed ring, or a request that did not fit after a flush. The servicer answers
an empty batch with `End`.

### Provisioning

The disk is `rootfs`, `part` (`<R>.part`) and `cache`; `job` is the command under
way, its options and its place in the code. A tree is a function from the few
entries the code tells apart (the loader, the bulk of the image, its hard links
and its absolute symlinks, `etc`, `usr/lib/alr`, `opt/node`) to where each came
from: an archive, or one of the code's own rewritings. An archive is a version
and the members that arrived; its digest matches exactly when all did. One action
per step of `cmd_install` and its helpers. A step that fails either dies (`die` and
`die_staged` differ in whether the staging directory is removed) or, as the code
does for tar, for hard links that cannot be made, for symlinks that cannot be
rewritten and for directories that cannot be read, warns and goes on: `Warn` notes
in `job.missed` that a member may be missing or a link was not looked at. An
`rm -rf` may fail with anything left, which `die_staged` only warns of. `Kill` ends
a command inside any step and leaves what that step can have done so far: half an
extraction, half an `rm -rf`, a short download under its final name. `AppExtract`
is the host app, which leaves a tree for `alr adopt`. `made` remembers how the
present rootfs came about (by install, staged in an empty directory, from a verified
archive, every directory walked, nothing missed), and `halfway` that a kill or a
failing `rm -rf` left something half done; properties only read them.

### PulseServer

`pc`, `todo` and `cur` are the epoll thread's place: the test of `stop_requested`,
`epoll_wait`, the events of a batch one by one, the frames of a client one by one,
the pass that flushes every client. The mutex makes one frame or one mixing a step.
The callback is two: `CallbackWaits` reaches the mutex, `CallbackMixes` has it.
`alr_audio_sink_stop` keeps the mutex while AAudio stops and closes the stream; with
`CloseWaits`, as in the run, that close waits for a callback under way, and
`StopStuck` is the state in which each waits for the other. Clients outside the set
`Clients` are known by what they do to it: they wake the epoll thread (`OthersReady`),
and their DELETE takes any stream out of the mixer, since `erase_stream` does not ask
whose it is (`OthersDelete`, and `HandleDelete` between members of `Clients`).
`robbed` remembers such streams. A client keeps libpulse's discipline (data within its credit)
and is otherwise free: it may read slowly, so its socket fills and replies stay in
`wbuf`, shut down at any time, or send an oversized frame. A stream's ring keeps
block numbers, so a lost, repeated or reordered block shows. Only EPOLLIN is
registered, as in the code.

### WaylandSeat and WaylandPresent

`WaylandSeat` has one action per request and per injected event; `seat` holds
`g_focus_surface`, `g_keyboard_grab_surface`, `g_input_target_surface`,
`g_touch_target` and their flags, and beside them `kbdTold` and `ptrTold`, the
surface the clients were last told has entered. A disconnecting client's
resources are destroyed one by one in any order, with no request in between. A
role may be destroyed before its surface, a parent before its popup, and a surface
before its role: `surface_resource_destroy` then deletes the `SurfaceState` that the
role object still points to. The first use of a deleted one (`life` is `used`) is
modelled as it happens while the freed memory still holds what it held, and ends the
behaviour; nothing is claimed of what comes after. Every client is taken to have
bound keyboard, pointer and touch before events arrive: a key that comes earlier sets
`g_keyboard_entered` with nobody told, and a keyboard bound later gets keys without an
enter.

`WaylandPresent` leaves focus aside and has the threads: the app (`Start`,
`Stop`, `Joined`, `Resize`), the UI and GPU producers (queue, read `g_instance`,
write the eventfd: three steps), and the reactor. `paint.screen` says whether the
screen shows the present `scene`; is `stale` after any step that changes what is
drawn; or only `moved` after `Rearrange`, the three requests that change parents and
positions and do not mark the scene dirty. Each present sets it back. `Timers` says
whether `timerfd_create` may fail; without a timer the loop runs and never ticks.
`refs` counts the references the compositor took on a buffer.

### LoaderSupervisor

The launch thread's loop is `Guard`, `WaitStop` or `WaitExit`, and a `Handle...`
action per branch. Unlike `alr_supervise` it seizes (PTRACE_SEIZE), so a group
stop is a PTRACE_EVENT_STOP that it parks with PTRACE_LISTEN. `fd[t]` is the
address space that the cached `/proc/<tid>/mem` refers to, `mm[t]` the one the
thread runs in, and execve and fork make new ones. Tids are reused. The watchdog
is a thread of its own (`Poll`, `StandDown`, `Fire`, `KillStalled`), stepped by
polls; reader threads are the condition of `JoinReaders`: no process holds a write
end. PTRACE_SEIZE may fail: the guest then runs untraced and the loop only reaps it.
`persist` is the launch's `ALR_PERSIST_GUEST`, `leak` a process that holds the pipes
and is no tracee: another launch's guest, or a child of an untraced one. `odd` is
history: `thread`, an execve from a thread that is not the leader, and `lost`, an exec
stop that ended before the loop handled it, by a kill or because the CONT for an
earlier report of a tid hit the exec stop of the thread that took it over. Both
stay set: after a lost exec stop `MemFdFresh` claims nothing for the rest of the
launch.

### FakerootDb

`header` is the futex word and the two fields `fr_init_db` goes by; `table` the
slots. Each process is a record: where it is in the code, the call it is in, the
stores it has still to make. A recorded value is the number of the call that set
it, 0 the real one, so a stale value or another file's shows. The fields of an
entry are plain memory: `Fill` stores them in any order, `Publish` is the release
store of the key. A probe is one step, at its last load, because keys once stored
stay. The overlay loads all fields in one step: each is only ever looked at by
itself, or when nobody is recording. `FutexWait`, `Interrupt` and `FutexWake` are
the kernel's part as the code uses it. A process is killed anywhere and then leaves
its stores so far and the lock as they are. `Forked` processes start after one that
has mapped the table; `last`, `target` and `quiet` are history. Because 0 stands for
the real value in a fresh slot too, a key published before its fields would not show.

The module is about `app/src/main/cpp/alr_fakeroot/`, the shared table of the design
documents. The staged `libalr_fakeroot.so` is at present built from another copy,
`tools/fakeroot/libalr_fakeroot.c`, whose table is private to a process, and nothing in
the repository sets `ALR_FAKEROOT_DB`, without which the shared table is off.

## 3. Runs

| Run | Checks | Result |
|---|---|---|
| `supervisor` | `EveryStopResumedProperly`, `RegistryCoversTracees`, `NoTraceeLeftHanging`, `ReturnsLeaderStatus`, `GuestDeadLeadsToReturn` | pass, 541 650 states |
| `supervisor_relay` | `RelayForwardedPromptly` | violated |
| `ring` | `InFlightIntact`, `IsPipe`, `PublishedIsDrained` | pass, 91 583 states |
| `frames` | `DecodesWholeOps`, `AnsweredFramesComplete`, `FlushedIsPresented`, `WaitsEnd` | pass, 388 222 states |
| `vk` | `CleanReplyIsOurs`, `AckMeansServiced`, `WaitsEnd` | pass, 22 630 states |
| `provisioning` | `InstalledIsUsable`, `CleanInstallIsOneArchive`, `StagingEndsWithItsAttempt`, `NodeIsWhole`, `CommandEnds` | pass, 768 743 states |
| `pulse` | `MixerFollowsClients`, `RingHoldsNewest`, `AnswersInOrder`, `RequestServed`, `StopReturns` | pass, 849 142 states |
| `seat` | `NoDanglingTarget`, `FocusIsTop`, `EntersBeforeEvents`, `TouchGrabbed` | pass, 1 345 347 states |
| `present` | `HeldBuffersReferenced`, `ScreenIsScene` | pass, 6 106 909 states |
| `present_live` | `TickServes`, `QueuedIsDrained` | pass, 150 153 states |
| `loader` | `MemFdFresh`, `ParkedIsReleased`, `LaunchReturns` | pass, 462 594 states |
| `fakeroot` | `OneEntryPerFile`, `QuietStatIsLatest`, `StatIsOfThatFile`, `NoLostWakeup` | pass, 1 807 530 states |

Each property of a passing run has a mutant in `PROJECT.json`: a plausible bug in
a modelled definition under which TLC finds the property violated.

Bounds and why they are enough.

* `supervisor`: three threads, one signal, cap 1. Three is the leader, a thread
  and a process (or two threads): enough for a fork race, an exec from a thread
  that is not the leader, a kill of a group during a report, a leader that leaves
  first. The theorems remove the bound.
* `ring`: 8 bytes of ring, 18 bytes of stream, so appends of every length 1..7
  meet the end of the ring at every offset and the cursors go round twice.
* `frames`: two threads, a ring of 4, ops of 1 and 2 bytes, 5 bytes of stream,
  two flushes: a full ring, a flush during a decode and a stop are all reached.
* `vk`: room for two requests and two replies, four calls, so that a reply ring
  fills with the replies of abandoned calls.
* `provisioning`: a release, another archive with a symlink that leaves the rootfs,
  three commands; `--with node` is combined with a release only, not with `--url`,
  which has no bearing on it. Three commands are a killed one, one that meets its remains, and one
  that meets the result.
* `pulse`: one client, a ring of two blocks, a socket of two messages, two
  requests and three blocks of PCM: the ring wraps and overruns, the socket
  fills, and all of it meets a stop. Clients share nothing but the mixer's set
  and the batch of events, which the actions for other clients stand for.
* `seat`: a window and a menu of one client, a window of another, two fingers
  (interchangeable; the run has no temporal property). Two clients are what focus
  needs to move between them, three surfaces a menu over a window that is not
  the top one.
* `present`: two windows and a menu, one buffer that may be referenced twice, one
  start. `present_live`: one window, two starts, since liveness is about what is
  left in the queues by an earlier compositor as well, with and without a timer.
* `loader`: two tids, which are a process and either a thread or a child, reused
  once they are gone; two address spaces, one job-control stop, a watchdog of two
  polls with one poll without progress. The theorem removes the bounds for
  `MemFdFresh`.
* `fakeroot`: three processes, one of which reads, three calls, and three files
  that all hash to the last of two slots, so every probe collides, wraps, and
  meets a full table. Two processes wait for the lock while the third holds it.
  Files are interchangeable, and so are the two processes that never read. One
  process starts before the others, as dpkg does before its scripts: with none in
  `Forked`, `NoLostWakeup` and `QuietStatIsLatest` fail (see below).

The type invariants of `Provisioning`, `PulseServer`, `WaylandSeat`,
`WaylandPresent` and `FakerootDb` hold in the same configurations. No run keeps
them: typing is part of the inductive invariants of section 4, except for the
bounds on counters, which only keep the runs finite.

Deadlock is not checked: each of these systems may stop (the guest is dead, the
service stopped, the user starts no command) and the bounds end every behaviour.

Fairness. `Supervisor`: weak fairness of the supervisor's own steps; nothing is
assumed of the guest. `GpuRing`: the consumer's. `GpuFrames` and `VkRoundtrip`:
the host thread, whose idle wait is a yield or a poll of 4 ms and so always
returns, and a guest thread that is past its wait or whose wait is over. No
fairness is given to expiring spins and timeouts: what holds, holds even if they
never strike. `WaitsEnd` is also about `stop()`, with a guest that falls silent,
as every bounded guest does; one that produces for ever can keep `stop()` in its
loop. `Provisioning`: the running command, which assumes that its downloads end: curl
is given no `--max-time`, so a mirror that stalls without closing is outside the claim. `PulseServer`: the epoll thread and the
thread inside `alr_audio_sink_stop`; neither the clients nor the audio callback.
`WaylandPresent`: the reactor thread and a producer between queueing and waking,
weakly; reading the eventfd and the tick strongly, because epoll reports every
ready descriptor in each wait and the timer repeats, so a client that always has
a request ready cannot keep the loop from either. `LoaderSupervisor`: the launch
thread, the watchdog, and the kernel finishing an execve or a group stop it
began; no step of the guest. `WaylandSeat` and `FakerootDb` have no temporal
property: a process killed with the lock held blocks every later writer.

### What the violation shows

`supervisor_relay`: a signal caught after `drain_pending` and before waitpid
blocks is forwarded only after the next tracee event, contrary to the comment on
SA_RESTART.

### Disagreements met while modelling

`PROJECT.json` quotes the lines of each; none has a run of its own.

* Supervisor: the former tid of an execve stays registered (`GuestDeadLeadsToReturn`
  shows that the loop still ends, by ECHILD); beyond `ALR_MAX_TRACEES` threads
  signals are swallowed and SIGSYS traps not emulated.
* Frames: after a swap that gave up, the next one can return before its frame was
  decoded, because `post_reply` loads `req_seq` again; an op that fits the ring is
  dropped when the bounded wait expires.
* Vulkan: after an abandoned call, a later acked call returns the abandoned call's
  reply. `CleanReplyIsOurs` speaks of calls before the first abandoned one.
* Provisioning: `.part` is not fresh after a kill, and two archives mix; a rootfs
  that failed its boot check counts as installed the next time; `--force` refuses
  the most damaged rootfs; hard links and symlinks that could not be repaired, or
  directories not read, only cost a warning or nothing; a `.part` that could not be
  removed is extracted onto by the next install.
* Audio: credit is granted per frame, not as the ring drains; what does not fit a
  socket waits for unrelated input, since EPOLLOUT is never registered; a DELETE with
  another client's stream index silences that stream; stop closes the AAudio stream
  with the mutex held that its callback takes.
* Compositor: a second frame request before a commit replaces the first callback;
  submitting the same buffer again leaks a reference; queues survive teardown; a
  hidden window that had focus and pointer gets no pointer leave; role objects use the
  `SurfaceState` of a surface destroyed before them; `set_parent`, `get_subsurface` and
  `set_position` change what is drawn without a repaint; a frame timer that could not be
  made is not missed.
* Loader: an execve from a thread leaves a tid in `known_tids`, after which the
  all-parked guard never fires; another launch's guest can hold the pipes open. The
  watchdog "SIGKILLs the guest process group", but the guest leads no group unless
  it makes itself one: a process the guest forked survives, waitpid goes on waiting
  and the watchdog is gone. `LaunchReturns` is what does hold: the launch of a guest
  that is one process returns.
* Fakeroot: two processes that create the table at once can leave one of them
  without it, or open a lock that is held; an update of a published entry can be
  read half done; a chmod after mknod makes a faked device a regular file; the
  owner -1 is recorded as such and mknod records none, unlike the repository's own
  model of the table; an unlinked file's entry is inherited by the next file with
  its inode number.

Smaller observations: the supervisor's header says it runs until the leader
exits, while the loop waits for every registered tracee; the runaway cap is
enforced only when the caller asks for statistics; a guest's own bare SIGTRAP is
counted as a syscall stop; a second attach of the GPU ring does not fill in the
frame size.

## 4. Proofs

All are checked by tlapm to the last leaf, for every value of the constants under
the named assumptions.

* `NoHang`: `NoTraceeLeftHanging`, from `HandlerInv` (types, a stop exactly in the
  two stopped states, a reported death is never a held thread). No assumption on
  the number of threads, reuse or room.
* `StopsResumedProperly` and `RegistryFollowsTracees`: `EveryStopResumedProperly`
  and `RegistryCoversTracees`, assuming thread ids are used once and the registry
  has room for all (`Roomy`). Neither is inductive: whether a stop is handled
  properly depends on the registry, which depends on which reports are under way.
  `RegistryInv` adds that an unused id is in no state, that only stopped traced
  threads have a stop, that a thread's group leader is registered and past its
  startup, and that the report in hand describes the thread unless it was killed
  or exec-ed over.
* `LeaderStatusReturned`: `ReturnsLeaderStatus` under the same assumptions, from
  `LeaderInv`: the leader does not become absent unreported.
* `NeverOverwritten`, `RingIsPipe`: from `RingInv`, with arithmetic lemmas on where
  two stream positions meet in the ring (`IndexDistinct`) and on the split copy
  (`SlotIsIndex`). They hold for every positive ring size, of which powers of two,
  where the code's mask is the remainder, are a case. `RingIsPipe` maps `head` to
  what is written and the accumulator to what is received; every other step stutters.
* `WholeOpsDecoded`, `AnsweredComplete`: from `FramesInv`; the key part is that a
  drain that ends has met an empty ring, hence an op's end and every flush of the
  request that was loaded before it.
* `RepliesFit`, `AckedIsServiced`, `UndisturbedReplyIsOurs`: the reply ring never
  overflows and holds replies to sent requests only (the type invariant); `AckInv`
  (a request is loaded after the bump that announces it, so the second drain finds
  it); `CleanInv` (both rings are empty between undisturbed calls).
* `MemFdsAreFresh`: `MemFdFresh`, for any number of tids, processes, execve calls
  and reuses. `MemFdInv` is the types and, while no exec stop was lost, five
  parts. `FdInv` is what is wanted: a cached fd is stale only between an execve
  and the handling of its stop, for the leader's tid and for the tid that called.
  It needs `ExecStopInv`, that such a stop names the caller, whose tid nobody has
  taken meanwhile, and that the process has no other thread; `HandledInv`, that
  the report in hand is still true of a thread that is held; `GroupInv`, that a
  thread group's leader is not gone before its members; and `AttachInv`, that
  nothing happens before the guest is released.

* `InstallUsable`, `CleanInstall`, `StagingEnds`, `NodeWhole`: the four invariants
  of `Provisioning`, from `ProvisioningInvariant`, for any set of archives, mirrors
  and any number of commands and kills. What makes an installed rootfs usable was
  verified several steps earlier, so `ProvisioningInv` says for every place of a
  command what its earlier steps have established: which release the cached
  archive is once its digest was checked (`SourceInv`), what a tree staged in an
  empty directory consists of (`FreshInv`), which repairs are done (`ReadyInv`),
  that the staging directory is empty elsewhere unless something was killed or an
  `rm -rf` failed (`LeftInv`) and never holds a node (`PartInv`), and which combinations of
  command and place exist (`OpInv`). What a step only warned of is in `missed`, and the
  parts that rest on that step are stated for jobs without it. Assumed: versions and the
  names the code gives to what it writes itself are distinct.
* `OneEntry`, `QuietStat`, `StatOfThatFile`, `NoSleeperForgotten`: the four
  invariants of `FakerootDb`, for any number of processes, files, slots and calls,
  with kills. Each assumes `OneCreator`: one process has created the table before
  the others map it, as dpkg does before it runs scripts. Without that the race in
  `fr_init_db` resets a lock that is held, and `NoLostWakeup` and `QuietStatIsLatest` are false.
  `FakerootInv` has `LockInv` (at most one process between lock and unlock),
  `FillInv` and `PartialInv` (a slot being filled is one its file's probe stops at,
  and differs from what was recorded last only in what its filler has still to
  store), `RestInv` (every other slot is empty or shows what was recorded last),
  `AbsentInv` (nothing was recorded for a file without a slot), `OwnInv` (a value in
  a slot was recorded for that slot's file), `LoadInv` (what a reader goes by), and
  `StartInv` and `CallInv` on where a process is.
* `NoDangling`, `FocusOnTop`, `EntersFirst`, `TouchGrab`: the four invariants of
  `WaylandSeat`, from `SeatInvariant`, for any surfaces, clients, menus and
  fingers, up to the first use of a deleted `SurfaceState`; `NoDangling` allows for a
  grab that this use stored. `SeatInv` adds that both stacks list mapped registered surfaces of their
  role, each once, which is what makes `zorder_remove` enough to forget a surface.
* `ScreenShowsScene` and `BuffersHeld`: the two invariants of `WaylandPresent`, from
  `ScreenInvariant`, for any windows, popups, buffers and starts. The first excepts
  what `Rearrange` moved and nothing else. A surface that
  is destroyed unmapped leaves the screen as it was only because no stack lists an
  unmapped surface (`WindowsOK`). `RefsOK` counts, for each buffer, the surfaces
  bound to it, its places in the queue and the fullscreen slot, with cardinalities,
  and shows that the compositor holds at least that many references.
* `MixerFollows` and `RingNewest`: two invariants of `PulseServer`, from
  `AudioInvariant`, for any clients, ring size, credit and socket size. The mixer has
  streams of connected clients only, and misses only those in `robbed`.
  `RingHoldsNewest` is not inductive: a block joins the ring in sequence only if
  the blocks on their way continue where the ring ends, which `BlocksOK` says of
  ring, read buffer and socket together. `WriteDoes` and `TakeDoes` say what the
  two ends of the ring do to it, without remainders (`Place`).
* `AnswersOrdered`: `AnswersInOrder`. `TurnsOK` is the same statement for every
  client that may still be talking, the one waiting to be accepted included, and
  `NothingLost` shows that `flush_wbuf` cuts the answers into sent and kept without
  losing or repeating one, wherever the socket is full.

Every invariant that a run checks is proved. Only model-checked are the
liveness properties, which are beyond the prover.

## 5. Not modelled

Section 1 and `PROJECT.json` list every part with the reason. Most of the
repository's lines are not state: ELF loading and mapping, path and argument
rewriting, encoders and decoders of some hundred GL and Vulkan ops (part of them
generated), a keymap table, reports and diagnostics. A model of them would be a
transliteration, so the map covers the control of the parts above, less
than a tenth of all lines, and leaves the rest.

Inside the modelled parts:

* supervisor: the table of emulated syscall results, log text and statistics;
* GPU: GL and EGL calls, `gl_error`, identity strings, sizes of Vulkan replies (a
  round trip takes all replies in the ring; in the code one longer than its caller's
  buffer leaves a rest, and one longer than the ring is dropped), several guest
  processes on one ring, the wrap of the 32-bit sequence numbers, attach and
  detach across launches;
* provisioning: two commands at once (nothing in the code excludes them), `--with
  codex` and `--with git`, `config`, `run`;
* compositor: clipboard, subsurfaces but for the moves of `Rearrange`, keymap and modifiers, geometry, the use of
  `g_instance` by a producer after stop has deleted it, seat objects bound late, and
  whatever follows the use of a deleted `SurfaceState`;
* audio: tag encoding, sample formats, resampling, volume, introspection replies;
* loader: ELF loading, path translation, the emulated results, fault capture and
  the other probes of the file;
* fakeroot: the credential getters (constants), path rewriting, which uid, mode or
  rdev a call records, a deleted file whose inode number is given to another.

## 6. Plan

1. Done: both supervisors, ring with its abstract pipe, frames, Vulkan round trip,
   provisioning, audio server, compositor, fakeroot table; the safety of all of them
   proved.
2. The GPU ring's attach and detach across two launches, composed with `GpuFrames`.
3. What remains true of the supervisor under reuse of thread ids.
