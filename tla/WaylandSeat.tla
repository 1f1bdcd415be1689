----------------------------- MODULE WaylandSeat -----------------------------
(***************************************************************************)
(* Windows, stacking and input focus of the in-app Wayland compositor       *)
(* (alr_wayland/alr_compositor.cpp): what a request of a client or an       *)
(* injected Android event does to the globals that say which wl_surface     *)
(* has the keyboard, the pointer and the touch sequence.  Everything runs   *)
(* on the compositor thread, so a handler is one step; which handler runs   *)
(* next is up to the clients and to the user.                               *)
(*                                                                         *)
(* Requests that only take effect with a commit are one step with it, a     *)
(* coordinate is the window it may hit, and every connected client has      *)
(* bound a pointer, a keyboard and a touch device.  A surface is created    *)
(* once: keys are never reused.  The modifier mask is left out.             *)
(*                                                                         *)
(* A SurfaceState is deleted with its wl_surface, while the xdg objects of  *)
(* the surface keep a pointer to it.  A handler that follows such a pointer *)
(* marks the state as used; what the program does after that is undefined,  *)
(* and the model ends there.                                                *)
(***************************************************************************)
EXTENDS WindowStack

CONSTANTS
    Surfaces, Clients, Fingers,
    Menus,      \* the surfaces their clients use for menus
    Owner,      \* the client of each surface
    Depth       \* how far a chain of popups is climbed (32)

ASSUME SeatAssumption ==
    /\ Owner \in [Surfaces -> Clients] /\ Menus \subseteq Surfaces /\ Depth \in Nat
    /\ None \notin Surfaces \cup Fingers

VARIABLES
    conn,       \* connected clients
    dying,      \* surfaces that a disconnecting client still has a wl_surface or
                \* an xdg_popup for
    surf,       \* SurfaceState of each surface
    zorder,     \* mapped toplevels, bottom to top
    menus,      \* mapped popups by map_serial
    seat,       \* the input globals, and what the clients were told
    down        \* fingers on the screen (external)

vars == <<conn, dying, surf, zorder, menus, seat, down>>

Ids == Surfaces \cup {None}
\* the role is that of its xdg object, which may outlive it
SurfaceState == [life : {"new", "alive", "dead", "used"}, mapped : BOOLEAN,
                 role : {"none", "toplevel", "popup"}, parent : Ids]
Seat == [focus : Ids, grab : Ids, target : Ids, touch : Ids,
         kbdIn : BOOLEAN, ptrIn : BOOLEAN,
         active : Nat, emul : Fingers \cup {None}, points : SUBSET Fingers,
         kbdTold : Ids, ptrTold : Ids,
         ti : SUBSET Surfaces, ime : BOOLEAN]

TypeOK ==
    /\ conn \subseteq Clients /\ dying \subseteq Surfaces
    /\ surf \in [Surfaces -> SurfaceState] /\ seat \in Seat
    /\ zorder \in Seq(Surfaces) /\ menus \in Seq(Surfaces)
    /\ down \subseteq Fingers

Init ==
    /\ conn = {} /\ dying = {} /\ zorder = <<>> /\ menus = <<>> /\ down = {}
    /\ surf = [s \in Surfaces |->
                 [life |-> "new", mapped |-> FALSE, role |-> "none", parent |-> None]]
    /\ seat = [focus |-> None, grab |-> None, target |-> None, touch |-> None,
               kbdIn |-> FALSE, ptrIn |-> FALSE,
               active |-> 0, emul |-> None, points |-> {},
               kbdTold |-> None, ptrTold |-> None,   \* last entered, and not left
               ti |-> {}, ime |-> FALSE]

-----------------------------------------------------------------------------
\* zorder_top
Top(q)     == IF q = <<>> THEN None ELSE q[Len(q)]
Alive(s)   == s \in Surfaces /\ surf[s].life = "alive"
IsPopup(s) == s \in Surfaces /\ surf[s].role = "popup"

\* popup_owning_toplevel: parents are found by key, in the live registry
OwningToplevel(p) ==
    LET up[n \in 0 .. Depth] ==
          IF n = 0 THEN p
          ELSE IF ~IsPopup(up[n - 1]) THEN up[n - 1]
          ELSE IF Alive(surf[up[n - 1]].parent) THEN surf[up[n - 1]].parent ELSE None
    IN IF IsPopup(up[Depth]) THEN None ELSE up[Depth]

\* input_target_at: the innermost popup of the top window, else the window hit,
\* else the top window
InputTargets ==
    LET owned == {i \in DOMAIN menus : OwningToplevel(menus[i]) = Top(zorder)} IN
    IF zorder = <<>> THEN {seat.focus}
    ELSE IF owned # {} THEN {menus[i] : i \in {i \in owned : \A j \in owned : j <= i}}
    ELSE {zorder[i] : i \in DOMAIN zorder}

(* What the clients are told *)
KbdLeave(q, s) ==
    IF q.kbdIn /\ s # None THEN [q EXCEPT !.kbdTold = IF @ = s THEN None ELSE @] ELSE q
PtrLeave(q, s) ==
    IF q.ptrIn /\ s # None THEN [q EXCEPT !.ptrTold = IF @ = s THEN None ELSE @] ELSE q
PtrEnter(q, s) ==
    IF q.ptrIn THEN q ELSE [q EXCEPT !.ptrTold = s, !.ptrIn = TRUE]

CancelNothing(q, s)  == q
CancelGrabOnly(q, s) == IF q.touch = s THEN [q EXCEPT !.touch = None] ELSE q
\* cancel_touch_if_targeting
CancelTouch(q, s) ==
    IF q.touch = s
      THEN [q EXCEPT !.touch = None, !.active = 0, !.emul = None,
                     !.points = IF q.active > 0 THEN {} ELSE @]
      ELSE q
\* a surface that stays alive loses the pointer, the keyboard grab
DropTarget(q, s) ==
    IF q.target = s THEN [PtrLeave(q, s) EXCEPT !.target = None, !.ptrIn = FALSE] ELSE q
DropGrab(q, s) ==
    IF q.grab = s THEN [KbdLeave(q, s) EXCEPT !.grab = None, !.kbdIn = FALSE] ELSE q

\* ti_set_focus, called with focus moved already
TiSetFocus(q, old) ==
    IF q.focus = old \/ old = None THEN q
    ELSE [q EXCEPT !.ti = @ \ {old}, !.ime = @ /\ old \notin q.ti]

MoveFocusEntered(q, s) == TiSetFocus([q EXCEPT !.focus = s], q.focus)
MoveFocus(q, s) ==
    LET left == IF q.focus = s THEN q ELSE KbdLeave(q, q.focus) IN
    TiSetFocus([left EXCEPT !.focus = s, !.kbdIn = FALSE], q.focus)

-----------------------------------------------------------------------------
(* Requests *)
Idle == dying = {}
Requests(s) == Idle /\ Alive(s) /\ Owner[s] \in conn
\* requests on an xdg object of s, which look at neither wl_surface nor registry
XdgRequests(s) == Idle /\ surf[s].life # "new" /\ Owner[s] \in conn
Touched(s) == IF Alive(s) THEN "alive" ELSE "used"
Unseen == UNCHANGED <<conn, dying, down>>

Connect(c) ==
    /\ Idle /\ c \notin conn /\ conn' = conn \cup {c}
    /\ \A s \in Surfaces : Owner[s] = c => surf[s].life = "new"
    /\ UNCHANGED <<dying, surf, zorder, menus, seat, down>>

CreateSurface(s) ==
    /\ Idle /\ surf[s].life = "new" /\ Owner[s] \in conn
    /\ surf' = [surf EXCEPT ![s].life = "alive"]
    /\ UNCHANGED <<zorder, menus, seat>> /\ Unseen

GetToplevel(s) ==
    /\ XdgRequests(s) /\ s \notin Menus /\ surf[s].role = "none" /\ ~surf[s].mapped
    /\ surf' = [surf EXCEPT ![s].role = "toplevel", ![s].life = Touched(s)]
    /\ UNCHANGED <<zorder, menus, seat>> /\ Unseen

GetPopup(s, parent) ==
    /\ XdgRequests(s) /\ s \in Menus /\ surf[s].role = "none" /\ ~surf[s].mapped
    /\ parent # s /\ Owner[parent] = Owner[s] /\ surf[parent].role # "none"
    /\ surf' = [surf EXCEPT ![s].role = "popup", ![s].parent = parent,
                            ![s].life = Touched(s), ![parent].life = Touched(parent)]
    /\ UNCHANGED <<zorder, menus, seat>> /\ Unseen

\* surface_commit with a buffer: the first one maps the surface
CommitBuffer(s) ==
    /\ Requests(s) /\ ~surf[s].mapped
    /\ surf' = [surf EXCEPT ![s].mapped = TRUE]
    /\ zorder' = IF surf[s].role = "toplevel" THEN Raise(zorder, s) ELSE zorder
    /\ menus' = IF IsPopup(s) THEN Raise(menus, s) ELSE menus
    /\ seat' = IF surf[s].role = "toplevel"
                 THEN [MoveFocus(seat, s) EXCEPT !.ptrIn = FALSE] ELSE seat
    /\ Unseen

\* surface_commit after attach(NULL).  The pointer counts as gone before its
\* leave is considered when the surface has the focus.
CommitNull(s) ==
    /\ Requests(s) /\ surf[s].mapped
    /\ surf' = [surf EXCEPT ![s].mapped = FALSE]
    /\ zorder' = Without(zorder, s) /\ menus' = Without(menus, s)
    /\ LET q == IF seat.focus = s
                  THEN [KbdLeave(seat, s) EXCEPT !.kbdIn = FALSE,
                                                 !.ptrIn = FALSE, !.focus = Top(zorder')]
                  ELSE seat
       IN seat' = CancelTouch(DropTarget(q, s), s)
    /\ Unseen

ToplevelDestroy(s) ==
    /\ XdgRequests(s) /\ surf[s].role = "toplevel"
    /\ surf' = [surf EXCEPT ![s].role = "none", ![s].mapped = FALSE, ![s].life = Touched(s)]
    /\ zorder' = Without(zorder, s)
    /\ LET q == IF seat.focus = s
                  THEN TiSetFocus([seat EXCEPT !.kbdIn = FALSE,
                                               !.ptrIn = FALSE, !.focus = Top(zorder')], s)
                  ELSE seat
       IN seat' = DropGrab(CancelTouch(DropTarget(q, s), s), s)
    /\ UNCHANGED menus /\ Unseen

PopupGrab(s) ==
    /\ XdgRequests(s) /\ IsPopup(s)
    /\ surf' = [surf EXCEPT ![s].life = Touched(s)]
    /\ LET prev == IF seat.grab # None THEN seat.grab ELSE seat.focus
           q == IF prev = s THEN seat ELSE KbdLeave(seat, prev)
       IN seat' = [q EXCEPT !.grab = s, !.kbdIn = FALSE]
    /\ UNCHANGED <<zorder, menus>> /\ Unseen

\* popup_resource_destroy
PopupGone(q, s) ==
    DropGrab(CancelTouch(DropTarget(q, s), s), s)
DestroyPopup(s) ==
    /\ IsPopup(s)
    /\ surf' = [surf EXCEPT ![s].role = "none", ![s].mapped = FALSE, ![s].life = Touched(s)]
    /\ menus' = Without(menus, s) /\ seat' = PopupGone(seat, s)
    /\ UNCHANGED <<zorder, down>>

PopupDestroy(s) ==
    /\ XdgRequests(s) /\ DestroyPopup(s) /\ UNCHANGED <<conn, dying>>

\* surface_resource_destroy: no leave to a surface that goes; whatever dies, the
\* top window is focused again
SurfaceGone(q, s, z) ==
    LET unfocused == IF q.focus = s
                       THEN [q EXCEPT !.focus = None, !.ptrIn = FALSE, !.kbdIn = FALSE,
                                      !.ime = @ /\ s \notin q.ti]
                       ELSE q
        untargeted == IF q.target = s
                        THEN [unfocused EXCEPT !.target = None, !.ptrIn = FALSE] ELSE unfocused
        cancelled == CancelTouch(untargeted, s)
        ungrabbed == IF q.grab = s
                       THEN [cancelled EXCEPT !.grab = None, !.kbdIn = FALSE] ELSE cancelled
        gone == [ungrabbed EXCEPT !.ti = @ \ {s},
                                  !.kbdTold = IF @ = s THEN None ELSE @,
                                  !.ptrTold = IF @ = s THEN None ELSE @]
    IN IF z = <<>> THEN gone
       ELSE [gone EXCEPT !.focus = Top(z), !.ptrIn = FALSE, !.kbdIn = FALSE]

DestroySurface(s) ==
    /\ Alive(s)
    /\ surf' = [surf EXCEPT ![s].life = "dead", ![s].mapped = FALSE]
    /\ zorder' = Without(zorder, s) /\ menus' = Without(menus, s)
    /\ seat' = SurfaceGone(seat, s, Without(zorder, s))
    /\ UNCHANGED down

\* whatever role the surface has
SurfaceDestroy(s) ==
    /\ Requests(s) /\ DestroySurface(s) /\ UNCHANGED <<conn, dying>>

\* a client exits, crashes, or libwayland drops it for its error
Disconnect(c) ==
    /\ Idle /\ c \in conn /\ conn' = conn \ {c}
    /\ dying' = {s \in Surfaces : Owner[s] = c /\ (Alive(s) \/ IsPopup(s))}
    /\ UNCHANGED <<surf, zorder, menus, seat, down>>

\* its resources go one by one, in any order; an xdg_toplevel has no destructor
DestroyNext(s) ==
    /\ s \in dying /\ (DestroySurface(s) \/ DestroyPopup(s))
    /\ dying' = {t \in dying : surf'[t].life = "alive" \/ surf'[t].role = "popup"}
    /\ UNCHANGED conn

-----------------------------------------------------------------------------
(* Text input: every request acts on the focused surface *)
TiCommit(enable) ==
    /\ Idle /\ conn # {}
    /\ seat' = [seat EXCEPT
         !.ti = IF enable /\ seat.focus # None THEN @ \cup {seat.focus} ELSE @ \ {seat.focus},
         !.ime = enable /\ seat.focus # None]
    /\ UNCHANGED <<surf, zorder, menus>> /\ Unseen

-----------------------------------------------------------------------------
(* drain_input_queue *)
\* focus_follow_to_toplevel
Follows(t) ==
    /\ t \in Surfaces /\ surf[t].role = "toplevel" /\ surf[t].mapped
    /\ seat.grab = None
FocusFollow(t) == IF Follows(t) /\ seat.focus # t THEN MoveFocus(seat, t) ELSE seat
RaiseNothing(t) == zorder
RaiseFollowed(t) == IF Follows(t) THEN Raise(zorder, t) ELSE zorder
Activated(s) == IF IsPopup(s) THEN OwningToplevel(s) ELSE s

PointerMotion(s) ==
    /\ Idle /\ s \in InputTargets
    /\ LET q == IF s = seat.target THEN seat
                ELSE [PtrLeave(seat, seat.target) EXCEPT !.target = s, !.ptrIn = FALSE]
       IN seat' = IF s = None THEN q ELSE PtrEnter(q, s)
    /\ UNCHANGED <<surf, zorder, menus>> /\ Unseen

PointerPress ==
    /\ Idle /\ seat.target # None /\ seat.ptrIn
    /\ seat' = FocusFollow(Activated(seat.target))
    /\ zorder' = RaiseFollowed(Activated(seat.target))
    /\ UNCHANGED <<surf, menus>> /\ Unseen

\* the first finger takes the grab, the focus and an emulated pointer; the
\* second one ends the emulation
TouchDown(f, s) ==
    /\ Idle /\ f \notin down /\ down' = down \cup {f} /\ s \in InputTargets
    /\ LET first == seat.active = 0
           q == IF first THEN [FocusFollow(Activated(s)) EXCEPT !.touch = s] ELSE seat
           sent == [q EXCEPT !.points = @ \cup {f}, !.active = @ + 1]
           left == IF sent.target # sent.touch
                     THEN [PtrLeave(sent, sent.target) EXCEPT !.ptrIn = FALSE] ELSE sent
           emulated == [PtrEnter([left EXCEPT !.target = sent.touch], sent.touch)
                          EXCEPT !.emul = f]
       IN /\ seat' = IF s = None THEN seat
                     ELSE IF first THEN emulated ELSE [sent EXCEPT !.emul = None]
          /\ zorder' = IF s # None /\ first THEN RaiseFollowed(Activated(s)) ELSE zorder
    /\ UNCHANGED <<conn, dying, surf, menus>>

TouchUp(f) ==
    /\ Idle /\ f \in down /\ down' = down \ {f}
    /\ seat' = [seat EXCEPT
         !.points = @ \ {f}, !.emul = IF @ = f THEN None ELSE @,
         !.active = IF @ > 0 THEN @ - 1 ELSE 0,
         !.touch = IF seat.active = 1 THEN None ELSE @]
    /\ UNCHANGED <<conn, dying, surf, zorder, menus>>

TouchCancel ==
    /\ Idle /\ down # {} /\ down' = {}
    /\ seat' = [seat EXCEPT !.points = {}, !.emul = None, !.active = 0, !.touch = None]
    /\ UNCHANGED <<conn, dying, surf, zorder, menus>>

KbdTarget == IF seat.grab # None THEN seat.grab ELSE seat.focus
Key ==
    /\ Idle /\ KbdTarget # None /\ ~seat.kbdIn
    /\ seat' = [seat EXCEPT !.kbdTold = KbdTarget, !.kbdIn = TRUE]
    /\ UNCHANGED <<surf, zorder, menus>> /\ Unseen

-----------------------------------------------------------------------------
Request(s) ==
    \/ CreateSurface(s) \/ GetToplevel(s) \/ CommitBuffer(s) \/ CommitNull(s)
    \/ ToplevelDestroy(s) \/ PopupGrab(s) \/ PopupDestroy(s) \/ SurfaceDestroy(s)
    \/ DestroyNext(s) \/ PointerMotion(s)
    \/ \E p \in Surfaces : GetPopup(s, p)
    \/ \E f \in Fingers : TouchDown(f, s)

UsedAfterFree == \E s \in Surfaces : surf[s].life = "used"

Next ==
    /\ ~UsedAfterFree
    /\ \/ \E c \in Clients : Connect(c) \/ Disconnect(c)
       \/ \E s \in Surfaces : Request(s)
       \/ \E f \in Fingers : TouchUp(f) \/ TouchDown(f, None)
       \/ \E enable \in BOOLEAN : TiCommit(enable)
       \/ PointerMotion(None) \/ PointerPress \/ TouchCancel \/ Key

Spec == Init /\ [][Next]_vars

-----------------------------------------------------------------------------
(* No global names a surface that is gone, in whatever order roles, surfaces *)
(* and clients go (the pointers the destroy handlers clear), up to the first *)
(* use of a deleted SurfaceState.  That use, where the memory still holds    *)
(* what it held, leaves focus, pointer and touch alone; xdg_popup.grab       *)
(* stores a dead surface with it.                                            *)
NoDanglingTarget ==
    /\ \A s \in {seat.focus, seat.target, seat.touch} \ {None} : Alive(s)
    /\ seat.grab # None => Alive(seat.grab) \/ surf[seat.grab].life = "used"

(* The focused window is the top of the stack: mapping, unmapping, tapping,  *)
(* menus and exits never separate them (zorder_top, "the focused window").   *)
FocusIsTop ==
    /\ seat.focus = Top(zorder)
    /\ \A i \in DOMAIN zorder : surf[zorder[i]].mapped /\ surf[zorder[i]].role = "toplevel"

(* A key or a button is only ever sent to a surface that was told it has     *)
(* the keyboard or the pointer (keyboard_entered, pointer_entered).          *)
EntersBeforeEvents ==
    /\ seat.kbdIn => KbdTarget = seat.kbdTold
    /\ seat.ptrIn => seat.target = seat.ptrTold

(* A touch grab lasts exactly while contacts are counted, and the pointer is *)
(* emulated for a finger the clients were told of (g_touch_target,           *)
(* g_touch_active, g_touch_emul_id).                                         *)
TouchGrabbed ==
    /\ (seat.active > 0) <=> (seat.touch # None)
    /\ seat.emul # None => seat.emul \in seat.points
=============================================================================
