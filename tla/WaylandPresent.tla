---------------------------- MODULE WaylandPresent ----------------------------
(***************************************************************************)
(* The compositor's threads and what reaches the screen                     *)
(* (alr_wayland/alr_compositor.cpp): the application starts and stops the   *)
(* compositor, the UI thread injects input, the GPU executor submits        *)
(* AHardwareBuffers, and the reactor thread drains both, runs the clients'  *)
(* requests and presents the scene on the frame timer.                      *)
(*                                                                         *)
(* A lock-protected queue operation is one step; queueing, reading          *)
(* g_instance and writing the eventfd are three.  The ready events of one   *)
(* epoll_wait are handled one per pass, in any order; the timer may have    *)
(* expired at any time.  Pixels, positions and the output's size are not    *)
(* kept: a step says whether it changes them.  A subsurface is part of the  *)
(* window it is drawn with.  Surface keys may be reused.                    *)
(***************************************************************************)
EXTENDS WindowStack, FiniteSets

CONSTANTS
    Windows,     \* surfaces with a toplevel role
    Popups,      \* surfaces with a popup role, and
    Anchor,      \* the toplevel each one belongs to
    Buffers,     \* the AHardwareBuffers of the executor
    Timers,      \* the outcomes of timerfd_create: whether there is a frame timer
    MaxQueue,    \* bound on queued input events
    MaxRefs,     \* bound on the references to a buffer
    MaxStarts    \* bound on starts of the compositor

ASSUME PresentAssumption ==
    /\ Windows \cap Popups = {} /\ Anchor \in [Popups -> Windows]
    /\ None \notin Windows \cup Popups \cup Buffers
    /\ Timers \subseteq BOOLEAN /\ IsFiniteSet(Windows) /\ IsFiniteSet(Popups)
    /\ MaxQueue \in Nat /\ MaxRefs \in Nat /\ MaxStarts \in Nat

Drawables == Windows \cup Popups
Producers == {"ui", "gpu"}

VARIABLES
    app,       \* g_instance and g_instance_mutex: which call is under way
    thr,       \* where the compositor thread is
    wakeup,    \* the eventfd was written
    producer,  \* where each producer is between its queue and its wake
    inject,    \* length of g_inject_queue
    gpu,       \* g_gpu_queue
    resize,    \* g_pending_resize.armed
    all,       \* g_all_surfaces
    state,     \* SurfaceState of each surface
    stack,     \* g_zorder
    popups,    \* mapped popups by map_serial
    full,      \* g_fullscreen_gpu_ahb
    paint,     \* g_scene_dirty, g_first_present_done, g_pending_frames,
               \* frame_timer_fd_, and what the screen shows
    refs,      \* references to each buffer that the compositor took
    starts     \* starts so far

queues  == <<inject, gpu, resize>>
windows == <<all, state, stack, popups, full>>
screenVars == <<app, thr, wakeup, producer, queues, windows, paint, refs, starts>>

WindowState == [mapped : BOOLEAN, ahb : Buffers \cup {None}]
Fresh == [mapped |-> FALSE, ahb |-> None]
\* the screen shows the scene, or all of it but some positions, or an old one
Paint == [dirty : BOOLEAN, first : BOOLEAN, frames : BOOLEAN, timer : BOOLEAN,
          screen : {"scene", "moved", "stale"}]

ScreenTypeOK ==
    /\ app \in {"none", "starting", "up", "stopping"}
    /\ thr \in {"off", "setup", "test", "wait", "drain", "dispatch", "teardown", "exited"}
    /\ wakeup \in BOOLEAN
    /\ producer \in [Producers -> {"idle", "pushed", "waking"}]
    /\ inject \in 0 .. MaxQueue /\ gpu \in Seq(Buffers) /\ resize \in BOOLEAN
    /\ all \in Seq(Drawables) /\ stack \in Seq(Windows) /\ popups \in Seq(Popups)
    /\ state \in [Drawables -> WindowState]
    /\ full \in Buffers \cup {None}
    /\ paint \in Paint
    /\ refs \in [Buffers -> Nat]
    /\ starts \in 0 .. MaxStarts

-----------------------------------------------------------------------------
Elements(q) == {q[i] : i \in DOMAIN q}

\* present_composited: windows bottom to top, their menus in map order, and the
\* fullscreen buffer when nothing else is shown
Content(s) == <<s, state[s].ahb>>
Scene ==
    LET shown == {i \in DOMAIN popups : Anchor[popups[i]] \in Elements(stack)} IN
    <<[i \in DOMAIN stack |-> Content(stack[i])], [i \in shown |-> Content(popups[i])],
      IF stack = <<>> THEN full ELSE None>>
\* a step that changes pixels or not, and marks the scene dirty or not
Repaint(pixels, dirty) ==
    paint' = [paint EXCEPT !.dirty = @ \/ dirty,
                !.screen = IF pixels \/ Scene' # Scene THEN "stale" ELSE @]

InLoop == thr \notin {"off", "setup", "teardown", "exited"}

ScreenInit ==
    /\ app = "none"
    /\ thr = "off" /\ wakeup = FALSE
    /\ producer = [p \in Producers |-> "idle"]
    /\ inject = 0 /\ gpu = <<>> /\ resize = FALSE
    /\ all = <<>> /\ stack = <<>> /\ popups = <<>> /\ full = None
    /\ state = [s \in Drawables |-> Fresh]
    /\ paint = [dirty |-> FALSE, first |-> FALSE, frames |-> FALSE, timer |-> FALSE,
                screen |-> "scene"]
    /\ refs = [b \in Buffers |-> 0]
    /\ starts = 0

-----------------------------------------------------------------------------
(* The application *)
\* alr_start_wayland_compositor; the presenter it brings starts on a blank screen
Start ==
    /\ app = "none" /\ starts < MaxStarts
    /\ app' = "starting" /\ thr' = "setup"
    /\ paint' = [paint EXCEPT !.screen = "scene"]
    /\ starts' = starts + 1
    /\ UNCHANGED <<wakeup, producer, queues, windows, refs>>

\* request_stop: stopping_ is set while stop holds the mutex
Stop ==
    /\ app = "up" /\ app' = "stopping" /\ wakeup' = InLoop
    /\ UNCHANGED <<thr, producer, queues, windows, paint, refs, starts>>

\* the thread is joined and the compositor deleted, by stop or by a failed start
Joined ==
    /\ app \in {"starting", "stopping"} /\ thr = "exited"
    /\ app' = "none" /\ thr' = "off"
    /\ UNCHANGED <<wakeup, producer, queues, windows, paint, refs, starts>>

\* alr_resize_wayland_output, under the same mutex as start and stop
Resize ==
    /\ app = "up" /\ resize' = TRUE /\ wakeup' = InLoop
    /\ UNCHANGED <<app, thr, producer, inject, gpu, windows, paint, refs, starts>>

-----------------------------------------------------------------------------
(* Producers: queue, read g_instance, wake *)
\* enqueue_inject
Inject ==
    /\ producer["ui"] = "idle" /\ inject < MaxQueue
    /\ producer' = [producer EXCEPT !["ui"] = "pushed"] /\ inject' = inject + 1
    /\ UNCHANGED <<app, thr, wakeup, gpu, resize, windows, paint, refs, starts>>

SubmitBorrowed(b) ==
    /\ producer["gpu"] = "idle" /\ refs[b] < MaxRefs
    /\ producer' = [producer EXCEPT !["gpu"] = "pushed"] /\ gpu' = Append(gpu, b)
    /\ UNCHANGED <<app, thr, wakeup, inject, resize, windows, paint, refs, starts>>
\* alr_wayland_submit_gpu_frame
Submit(b) ==
    /\ producer["gpu"] = "idle" /\ refs[b] < MaxRefs
    /\ producer' = [producer EXCEPT !["gpu"] = "pushed"]
    /\ refs' = [refs EXCEPT ![b] = @ + 1] /\ gpu' = Append(gpu, b)
    /\ UNCHANGED <<app, thr, wakeup, inject, resize, windows, paint, starts>>

ReadInstance(p) ==
    /\ producer[p] = "pushed"
    /\ producer' = [producer EXCEPT ![p] = IF app = "none" THEN "idle" ELSE "waking"]
    /\ UNCHANGED <<app, thr, wakeup, queues, windows, paint, refs, starts>>

\* wake: the eventfd exists from setup to teardown
WakeNobody(p) ==
    /\ producer[p] = "waking"
    /\ producer' = [producer EXCEPT ![p] = "idle"]
    /\ UNCHANGED <<app, thr, wakeup, queues, windows, paint, refs, starts>>
Wake(p) ==
    /\ producer[p] = "waking"
    /\ producer' = [producer EXCEPT ![p] = "idle"]
    /\ wakeup' = InLoop
    /\ UNCHANGED <<app, thr, queues, windows, paint, refs, starts>>

-----------------------------------------------------------------------------
(* The compositor thread: run, reactor *)
Step(from, to) == thr = from /\ thr' = to
Others == UNCHANGED <<app, producer, starts>>
Stopping == app = "stopping"

\* setup may fail; without a frame timer the loop runs all the same
Setup ==
    /\ \/ app' = "up" /\ Step("setup", "test")
       \/ app' = app /\ Step("setup", "teardown")
    /\ \E t \in Timers : paint' = [paint EXCEPT !.timer = t]
    /\ UNCHANGED <<wakeup, producer, queues, windows, refs, starts>>

LoopTest ==
    /\ Step("test", IF Stopping THEN "teardown" ELSE "wait")
    /\ Others /\ UNCHANGED <<wakeup, queues, windows, paint, refs>>

\* the eventfd is read before the queues are drained
ReadWakeup ==
    /\ Step("wait", "drain") /\ wakeup /\ wakeup' = FALSE
    /\ Others /\ UNCHANGED <<queues, windows, paint, refs>>

Release(r, b) == IF b = None THEN r ELSE [r EXCEPT ![b] = @ - 1]
\* every frame of the batch but the last
ReleaseOlder(r) ==
    [b \in Buffers |-> r[b] - Cardinality({i \in 1 .. Len(gpu) - 1 : gpu[i] = b})]
\* the surface that has the GPU stream, or the top window
GpuTarget(z) ==
    LET bound == {i \in DOMAIN all : state[all[i]].mapped /\ state[all[i]].ahb # None} IN
    IF bound # {} THEN all[CHOOSE i \in bound : \A j \in bound : i <= j]
    ELSE IF z # <<>> THEN z[Len(z)] ELSE None
Replace(r, old, new) == IF old = new THEN r ELSE Release(r, old)

\* drain_gpu_queue, after the input has raised what it raises
DrainGpu ==
    IF gpu = <<>> THEN UNCHANGED <<state, full, refs>>
    ELSE LET t == GpuTarget(stack')  last == gpu[Len(gpu)]  older == ReleaseOlder(refs) IN
         IF t = None
           THEN full' = last /\ refs' = Replace(older, full, last) /\ UNCHANGED state
           ELSE /\ full' = None
                /\ refs' = Replace(Release(older, full), state[t].ahb, last)
                /\ state' = [state EXCEPT ![t].ahb = last]

\* drain_resize_queue, drain_input_queue (an event may raise a window,
\* focus_follow_to_toplevel), drain_gpu_queue
Drain ==
    /\ Step("drain", "test") /\ resize' = FALSE /\ inject' = 0 /\ gpu' = <<>>
    /\ \E z \in {stack} \cup {Raise(stack, w) : w \in Elements(stack)} :
         (inject = 0 => z = stack) /\ stack' = z
    /\ DrainGpu
    /\ UNCHANGED <<wakeup, all, popups>> /\ Others
    /\ Repaint(resize \/ gpu # <<>>, resize \/ stack' # stack \/ gpu # <<>>)

\* the frame timer: every queued callback is done, a changed scene is shown
HandleTickUndrawn ==
    /\ Step("wait", "test") /\ paint.timer /\ paint' = [paint EXCEPT !.frames = FALSE]
    /\ Others /\ UNCHANGED <<wakeup, queues, windows, refs>>
HandleTick ==
    /\ Step("wait", "test") /\ paint.timer
    /\ LET draws == paint.dirty /\ ~Stopping IN
       paint' = [paint EXCEPT !.frames = FALSE, !.dirty = @ /\ ~draws,
                   !.screen = IF draws THEN "scene" ELSE @]
    /\ Others /\ UNCHANGED <<wakeup, queues, windows, refs>>

\* wl_event_loop_dispatch
Dispatch ==
    /\ Step("wait", "dispatch") /\ Others /\ UNCHANGED <<wakeup, queues, windows, paint, refs>>
DispatchDone ==
    /\ Step("dispatch", "test") /\ Others /\ UNCHANGED <<wakeup, queues, windows, paint, refs>>

\* teardown: no surface is left when the clients are destroyed, which marks the
\* scene dirty again
Teardown ==
    /\ Step("teardown", "exited") /\ wakeup' = FALSE
    /\ all' = <<>> /\ stack' = <<>> /\ popups' = <<>> /\ full' = None /\ resize' = FALSE
    /\ state' = [s \in Drawables |-> Fresh]
    /\ refs' = [b \in Buffers |->
                  refs[b] - Cardinality({s \in Drawables : state[s].ahb = b})
                          - (IF full = b THEN 1 ELSE 0)]
    /\ paint' = [paint EXCEPT !.frames = FALSE, !.first = FALSE,
                   !.dirty = \E s \in Drawables : state[s].mapped]
    /\ Others /\ UNCHANGED <<inject, gpu>>

-----------------------------------------------------------------------------
(* Requests of the clients *)
Exists(s) == s \in Elements(all)
Dispatched == Step("dispatch", "dispatch") /\ Others /\ UNCHANGED <<wakeup, queues>>

\* create_surface and its role
CompositorCreateSurface(s) ==
    /\ Dispatched /\ ~Exists(s) /\ all' = Append(all, s)
    /\ UNCHANGED <<state, stack, popups, full, paint, refs>>

\* surface_commit with a buffer; the very first content is shown at once
CommitContent(s) ==
    /\ Dispatched /\ Exists(s) /\ UNCHANGED <<all, full, refs>>
    /\ state' = [state EXCEPT ![s].mapped = TRUE]
    /\ LET maps(kind) == s \in kind /\ ~state[s].mapped IN
       /\ stack' = IF maps(Windows) THEN Raise(stack, s) ELSE stack
       /\ popups' = IF maps(Popups) THEN Raise(popups, s) ELSE popups
    /\ IF paint.first THEN Repaint(TRUE, TRUE)
       ELSE paint' = [paint EXCEPT !.first = TRUE, !.dirty = FALSE, !.screen = "scene"]

\* a hidden surface keeps its GPU buffer.  A commit is not the first content:
\* something was mapped
CommitEmpty(s) ==
    /\ Dispatched /\ Exists(s) /\ state[s].mapped
    /\ state' = [state EXCEPT ![s].mapped = FALSE]
    /\ stack' = Without(stack, s) /\ popups' = Without(popups, s)
    /\ UNCHANGED <<all, full, refs>> /\ Repaint(FALSE, TRUE)

\* surface_frame and a commit without a buffer
CommitFrame(s) ==
    /\ Dispatched /\ Exists(s)
    /\ paint' = [paint EXCEPT !.frames = TRUE]
    /\ UNCHANGED <<windows, refs>>

\* toplevel_set_parent, subcompositor_get_subsurface, subsurface_set_position: a
\* window or a subsurface drawn with it belongs elsewhere, and nothing is marked
Rearrange(s) ==
    /\ Dispatched /\ s \in Elements(stack)
    /\ paint' = [paint EXCEPT !.screen = IF @ = "scene" THEN "moved" ELSE @]
    /\ UNCHANGED <<windows, refs>>

\* toplevel_destroy, popup_resource_destroy: the surface may get the role again
RoleDestroy(s) ==
    /\ Dispatched /\ Exists(s)
    /\ state' = [state EXCEPT ![s].mapped = FALSE]
    /\ stack' = Without(stack, s) /\ popups' = Without(popups, s)
    /\ UNCHANGED <<all, full, refs>> /\ Repaint(FALSE, TRUE)

\* mutant: the scene is not marked dirty
SurfaceResourceDestroyUndrawn(s) ==
    /\ Dispatched /\ Exists(s) /\ all' = Without(all, s)
    /\ state' = [state EXCEPT ![s] = Fresh]
    /\ stack' = Without(stack, s) /\ popups' = Without(popups, s)
    /\ refs' = Release(refs, state[s].ahb)
    /\ UNCHANGED full /\ Repaint(FALSE, FALSE)
\* surface_resource_destroy
SurfaceResourceDestroy(s) ==
    /\ Dispatched /\ Exists(s) /\ all' = Without(all, s)
    /\ state' = [state EXCEPT ![s] = Fresh]
    /\ stack' = Without(stack, s) /\ popups' = Without(popups, s)
    /\ refs' = Release(refs, state[s].ahb)
    /\ UNCHANGED full /\ Repaint(FALSE, state[s].mapped)

-----------------------------------------------------------------------------
Reactor == LoopTest \/ ReadWakeup \/ Drain \/ HandleTick \/ DispatchDone

ClientRequest(s) ==
    \/ CompositorCreateSurface(s) \/ CommitContent(s) \/ CommitEmpty(s) \/ CommitFrame(s)
    \/ Rearrange(s) \/ RoleDestroy(s) \/ SurfaceResourceDestroy(s)

ScreenNext ==
    \/ Start \/ Stop \/ Joined \/ Resize \/ Inject \/ \E b \in Buffers : Submit(b)
    \/ \E p \in Producers : ReadInstance(p) \/ Wake(p)
    \/ Setup \/ Teardown \/ Dispatch \/ Reactor
    \/ \E s \in Drawables : ClientRequest(s)

(* The reactor thread runs and takes every ready event, its timer repeating, *)
(* a dispatch returns, and a producer that queued goes on to wake.           *)
Fairness ==
    /\ WF_screenVars(Reactor) /\ SF_screenVars(ReadWakeup) /\ SF_screenVars(HandleTick)
    /\ \A p \in Producers : WF_screenVars(ReadInstance(p) \/ Wake(p))

ScreenSpec == ScreenInit /\ [][ScreenNext]_screenVars /\ Fairness

-----------------------------------------------------------------------------
(* A buffer that a surface, the fullscreen slot or the queue still names is  *)
(* referenced at least as often as it is named, across rebinding, exits and  *)
(* restarts (AHardwareBuffer_acquire and _release).                          *)
Named(b) ==
    Cardinality({s \in Drawables : state[s].ahb = b})
      + Cardinality({i \in DOMAIN gpu : gpu[i] = b}) + (IF full = b THEN 1 ELSE 0)
HeldBuffersReferenced == \A b \in Buffers : refs[b] >= Named(b)

(* What is not marked dirty is on the screen, but for the positions that     *)
(* set_parent, get_subsurface and set_position have changed since: no        *)
(* commit, unmap, destruction, input event, GPU frame or resize changes the  *)
(* scene without a repaint (g_scene_dirty).                                  *)
ScreenIsScene == InLoop /\ ~paint.dirty => paint.screen # "stale"

(* With a frame timer, a changed scene is shown and a queued frame callback  *)
(* is done, whatever the clients commit meanwhile (the frame timer's tick).  *)
TickServes ==
    (InLoop /\ paint.timer /\ (paint.dirty \/ paint.frames))
      ~> (~paint.dirty /\ ~paint.frames) \/ Stopping \/ ~InLoop

(* An event or a frame queued while the reactor runs is drained, whenever    *)
(* the queueing falls in the reactor's loop (wake, the eventfd).             *)
QueuedIsDrained ==
    /\ (InLoop /\ producer["ui"] = "pushed") ~> (inject = 0 \/ ~InLoop)
    /\ (InLoop /\ producer["gpu"] = "pushed") ~> (gpu = <<>> \/ ~InLoop)
=============================================================================
