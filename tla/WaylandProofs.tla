---------------------------- MODULE WaylandProofs ----------------------------
(***************************************************************************)
(* The compositor (alr_wayland/alr_compositor.cpp), for any number of       *)
(* surfaces, clients, fingers and buffers.                                  *)
(*                                                                         *)
(* Its window stack and input globals (WaylandSeat): no global names a      *)
(* surface that is gone, the focused window is the top of the stack, events *)
(* go only to surfaces that were told, and a touch grab lasts while         *)
(* contacts are counted.  Its repainting and its GPU buffers                *)
(* (WaylandPresent): what is not marked dirty is on the screen, and a       *)
(* buffer that is named anywhere is still referenced.                       *)
(***************************************************************************)
EXTENDS WaylandSeat, WaylandPresent, FiniteSetTheorems, TLAPS

-----------------------------------------------------------------------------
(* The inductive invariant.                                                *)

\* A stack lists surfaces with the role, mapped, each of them once.
Once(q) == \A i, j \in DOMAIN q : q[i] = q[j] => i = j
Listed(q, f, role) ==
    Once(q) /\ \A i \in DOMAIN q : f[q[i]].mapped /\ f[q[i]].role = role

Stacks == Listed(zorder, surf, "toplevel") /\ Listed(menus, surf, "popup")

\* Only a surface in the registry is mapped; a role may outlive its surface.
Registered ==
    \A s \in Surfaces : surf[s].mapped => surf[s].life = "alive"

SeatInv ==
    /\ TypeOK /\ Stacks /\ Registered
    /\ NoDanglingTarget /\ FocusIsTop /\ EntersBeforeEvents /\ TouchGrabbed

\* The parts of the invariant that speak of the seat alone, of any seat q.
KbdOK(q)   == q.kbdIn => q.kbdTold = IF q.grab # None THEN q.grab ELSE q.focus
PtrOK(q)   == q.ptrIn => q.target = q.ptrTold
TouchOK(q) == /\ (q.active > 0) <=> (q.touch # None)
              /\ q.emul # None => q.emul \in q.points

\* What an operator on the seat leaves alone.
SameKbd(q, r) == /\ r.focus = q.focus /\ r.grab = q.grab
                 /\ r.kbdIn = q.kbdIn /\ r.kbdTold = q.kbdTold
SamePtr(q, r) == r.target = q.target /\ r.ptrIn = q.ptrIn /\ r.ptrTold = q.ptrTold
SameTouch(q, r) == /\ r.touch = q.touch /\ r.active = q.active
                   /\ r.emul = q.emul /\ r.points = q.points

\* The properties of the state are those of its seat.
LEMMA SeatParts ==
    /\ EntersBeforeEvents <=> KbdOK(seat) /\ PtrOK(seat)
    /\ TouchGrabbed <=> TouchOK(seat)
  BY DEF EntersBeforeEvents, TouchGrabbed, KbdTarget, KbdOK, PtrOK, TouchOK

-----------------------------------------------------------------------------
(* The stacks                                                              *)

\* What an array with n entries is, as a sequence.
LEMMA ArrayIsSeq ==
    ASSUME NEW S, NEW n \in Nat, NEW f \in [1 .. n -> S]
    PROVE  f \in Seq(S) /\ Len(f) = n /\ DOMAIN f = 1 .. n
  OBVIOUS

\* Taking a surface off a stack that lists it once leaves the others in order.
LEMMA WithoutDoes ==
    ASSUME NEW S, NEW q \in Seq(S), NEW s, Once(q)
    PROVE  /\ Without(q, s) \in Seq(S) /\ Once(Without(q, s))
           /\ \A i \in DOMAIN Without(q, s) :
                Without(q, s)[i] # s /\ \E j \in DOMAIN q : Without(q, s)[i] = q[j]
           /\ Top(q) # s => Top(Without(q, s)) = Top(q)
           /\ (\A i \in DOMAIN q : q[i] # s) => Without(q, s) = q
<1> DEFINE at == {i \in DOMAIN q : q[i] = s}
           r == Without(q, s)
<1>1. CASE at = {}
  <2>1. r = q  BY <1>1 DEF Without
  <2> QED  BY <1>1, <2>1
<1>2. CASE at # {}
  <2>1. PICK k \in DOMAIN q : q[k] = s  BY <1>2
  <2>2. at = {k}  BY <2>1 DEF Once
  <2>3. k \in 1 .. Len(q) /\ Len(q) \in Nat /\ DOMAIN q = 1 .. Len(q)  BY <2>1
  <2>4. r = [i \in 1 .. Len(q) - 1 |-> IF i < k THEN q[i] ELSE q[i + 1]]
    BY <1>2, <2>2 DEF Without
  <2>5. Len(q) - 1 \in Nat  BY <2>3
  <2>6. r \in [1 .. Len(q) - 1 -> S]  BY <2>3, <2>4
  <2>7. r \in Seq(S) /\ Len(r) = Len(q) - 1 /\ DOMAIN r = 1 .. Len(q) - 1
    BY <2>5, <2>6, ArrayIsSeq
  <2> HIDE DEF r, at
  <2>8. \A i \in DOMAIN r : /\ (i < k => r[i] = q[i]) /\ (~(i < k) => r[i] = q[i + 1])
    BY <2>4, <2>7
  <2>9. ASSUME NEW i \in DOMAIN r
        PROVE  \E j \in DOMAIN q : r[i] = q[j] /\ j # k /\ j = (IF i < k THEN i ELSE i + 1)
    BY <2>8, <2>7, <2>3
  <2>10. Once(r)
    BY <2>9, <2>7, <2>3 DEF Once
  <2>11. \A i \in DOMAIN r : r[i] # s /\ \E j \in DOMAIN q : r[i] = q[j]
    BY <2>9, <2>1 DEF Once
  <2>12. Top(q) # s => Top(r) = Top(q)
    <3> SUFFICES ASSUME Top(q) # s PROVE Top(r) = Top(q)  OBVIOUS
    <3>1. q # <<>> /\ Top(q) = q[Len(q)]  BY <2>3 DEF Top
    <3>2. k # Len(q)  BY <3>1, <2>1
    <3>3. Len(q) - 1 \in DOMAIN r /\ ~(Len(q) - 1 < k) /\ r # <<>>  BY <3>2, <2>3, <2>7
    <3>4. r[Len(q) - 1] = q[Len(q)]  BY <3>3, <2>8, <2>3
    <3> QED  BY <3>1, <3>3, <3>4, <2>7 DEF Top
  <2> QED  BY <2>1, <2>7, <2>10, <2>11, <2>12 DEF r
<1> QED  BY <1>1, <1>2

LEMMA RaiseDoes ==
    ASSUME NEW S, NEW q \in Seq(S), NEW s \in S, Once(q)
    PROVE  /\ Raise(q, s) \in Seq(S) /\ Once(Raise(q, s))
           /\ \A i \in DOMAIN Raise(q, s) :
                Raise(q, s)[i] = s \/ \E j \in DOMAIN q : Raise(q, s)[i] = q[j]
           /\ Top(Raise(q, s)) = s
<1> DEFINE w == Without(q, s)
<1>1. /\ w \in Seq(S) /\ Once(w)
      /\ \A i \in DOMAIN w : w[i] # s /\ \E j \in DOMAIN q : w[i] = q[j]
  BY WithoutDoes
<1> HIDE DEF w
<1> DEFINE r == Append(w, s)
<1>2. /\ r \in Seq(S) /\ Len(r) = Len(w) + 1 /\ r[Len(w) + 1] = s
      /\ DOMAIN r = 1 .. Len(w) + 1 /\ DOMAIN w = 1 .. Len(w) /\ Len(w) \in Nat
      /\ \A i \in 1 .. Len(w) : r[i] = w[i]
  BY <1>1
<1> HIDE DEF r
<1>3. Once(r)  BY <1>1, <1>2 DEF Once
<1>4. \A i \in DOMAIN r : r[i] = s \/ \E j \in DOMAIN q : r[i] = q[j]
  BY <1>1, <1>2
<1>5. Top(r) = s  BY <1>2 DEF Top
<1> QED  BY <1>2, <1>3, <1>4, <1>5 DEF Raise, r, w

\* A surface that leaves a stack may lose its role; one that is raised has it.
LEMMA ListedWithout ==
    ASSUME NEW q \in Seq(Surfaces), NEW s \in Surfaces, NEW f, NEW g, NEW role,
           Listed(q, f, role),
           \A x \in Surfaces : x # s => g[x].mapped = f[x].mapped /\ g[x].role = f[x].role
    PROVE  Listed(Without(q, s), g, role)
<1> DEFINE w == Without(q, s)
<1>1. /\ w \in Seq(Surfaces) /\ Once(w)
      /\ \A i \in DOMAIN w : w[i] # s /\ \E j \in DOMAIN q : w[i] = q[j]
  BY WithoutDoes DEF Listed
<1> HIDE DEF w
<1>2. ASSUME NEW i \in DOMAIN w PROVE g[w[i]].mapped /\ g[w[i]].role = role
  <2>1. PICK j \in DOMAIN q : w[i] = q[j]  BY <1>1
  <2>2. w[i] # s /\ q[j] \in Surfaces  BY <1>1
  <2> QED  BY <2>1, <2>2 DEF Listed
<1> QED  BY <1>1, <1>2 DEF Listed, w

LEMMA ListedRaise ==
    ASSUME NEW q \in Seq(Surfaces), NEW s \in Surfaces, NEW f, NEW g, NEW role,
           Listed(q, f, role), g[s].mapped, g[s].role = role,
           \A x \in Surfaces : x # s => g[x].mapped = f[x].mapped /\ g[x].role = f[x].role
    PROVE  Listed(Raise(q, s), g, role)
<1> DEFINE w == Raise(q, s)
<1>1. /\ w \in Seq(Surfaces) /\ Once(w)
      /\ \A i \in DOMAIN w : w[i] = s \/ \E j \in DOMAIN q : w[i] = q[j]
  BY RaiseDoes DEF Listed
<1> HIDE DEF w
<1>2. ASSUME NEW i \in DOMAIN w PROVE g[w[i]].mapped /\ g[w[i]].role = role
  <2>1. CASE w[i] = s  BY <2>1
  <2>2. CASE w[i] # s
    <3>1. PICK j \in DOMAIN q : w[i] = q[j]  BY <1>1, <2>2
    <3>2. q[j] \in Surfaces  OBVIOUS
    <3> QED  BY <3>1, <3>2, <2>2 DEF Listed
  <2> QED  BY <2>1, <2>2
<1> QED  BY <1>1, <1>2 DEF Listed, w

\* The top of a stack that lists mapped surfaces is one of them.
LEMMA TopIsListed ==
    ASSUME NEW q \in Seq(Surfaces)
    PROVE  Top(q) \in Ids /\ (Top(q) # None => \E i \in DOMAIN q : Top(q) = q[i])
<1>1. CASE q = <<>>  BY <1>1 DEF Top, Ids
<1>2. CASE q # <<>>
  <2>1. Len(q) \in DOMAIN q  BY <1>2
  <2> QED  BY <1>2, <2>1 DEF Top, Ids
<1> QED  BY <1>1, <1>2

-----------------------------------------------------------------------------
(* The operators on the seat: what each changes, and what it leaves alone   *)

LEMMA KbdLeaveDoes ==
    ASSUME NEW q \in Seat, NEW s \in Ids
    PROVE  /\ KbdLeave(q, s) \in Seat
           /\ SamePtr(q, KbdLeave(q, s)) /\ SameTouch(q, KbdLeave(q, s))
           /\ KbdLeave(q, s).focus = q.focus /\ KbdLeave(q, s).grab = q.grab
  BY DEF KbdLeave, Seat, Ids, SamePtr, SameTouch

LEMMA PtrLeaveDoes ==
    ASSUME NEW q \in Seat, NEW s \in Ids
    PROVE  /\ PtrLeave(q, s) \in Seat
           /\ SameKbd(q, PtrLeave(q, s)) /\ SameTouch(q, PtrLeave(q, s))
           /\ PtrLeave(q, s).target = q.target /\ PtrLeave(q, s).ptrIn = q.ptrIn
  BY DEF PtrLeave, Seat, Ids, SameKbd, SameTouch

LEMMA PtrEnterDoes ==
    ASSUME NEW q \in Seat, NEW s \in Ids
    PROVE  /\ PtrEnter(q, s) \in Seat
           /\ SameKbd(q, PtrEnter(q, s)) /\ SameTouch(q, PtrEnter(q, s))
           /\ PtrEnter(q, s).target = q.target
           /\ q.target = s /\ PtrOK(q) => PtrOK(PtrEnter(q, s))
  BY DEF PtrEnter, Seat, Ids, SameKbd, SameTouch, PtrOK

LEMMA CancelTouchDoes ==
    ASSUME NEW q \in Seat, NEW s \in Surfaces, TouchOK(q)
    PROVE  /\ CancelTouch(q, s) \in Seat
           /\ SameKbd(q, CancelTouch(q, s)) /\ SamePtr(q, CancelTouch(q, s))
           /\ TouchOK(CancelTouch(q, s))
           /\ CancelTouch(q, s).touch = IF q.touch = s THEN None ELSE q.touch
<1>1. s # None  BY SeatAssumption
<1>2. CASE q.touch = s
  <2>1. q.active > 0  BY <1>1, <1>2 DEF TouchOK
  <2>2. CancelTouch(q, s) = [q EXCEPT !.touch = None, !.active = 0, !.emul = None, !.points = {}]
    BY <1>2, <2>1 DEF CancelTouch
  <2>3. CancelTouch(q, s) \in Seat
    <3> DEFINE r == [q EXCEPT !.touch = None, !.active = 0]
               e == [r EXCEPT !.emul = None]
               d == [e EXCEPT !.points = {}]
    <3>1. r \in Seat  BY DEF Seat, Ids
    <3> HIDE DEF r
    <3>2. e \in Seat  BY <3>1 DEF Seat
    <3> HIDE DEF e
    <3>3. d \in Seat  BY <3>2 DEF Seat
    <3> QED  BY <2>2, <3>3 DEF d, e, r
  <2>4. /\ SameKbd(q, CancelTouch(q, s)) /\ SamePtr(q, CancelTouch(q, s))
        /\ CancelTouch(q, s).touch = None /\ CancelTouch(q, s).active = 0
        /\ CancelTouch(q, s).emul = None
    BY <2>2 DEF Seat, SameKbd, SamePtr
  <2> QED  BY <1>2, <2>3, <2>4 DEF TouchOK
<1>3. CASE q.touch # s
  BY <1>3 DEF CancelTouch, SameKbd, SamePtr
<1> QED  BY <1>2, <1>3

LEMMA DropTargetDoes ==
    ASSUME NEW q \in Seat, NEW s \in Surfaces
    PROVE  /\ DropTarget(q, s) \in Seat
           /\ SameKbd(q, DropTarget(q, s)) /\ SameTouch(q, DropTarget(q, s))
           /\ PtrOK(q) => PtrOK(DropTarget(q, s))
           /\ DropTarget(q, s).target = IF q.target = s THEN None ELSE q.target
<1>1. s \in Ids  BY DEF Ids
<1> DEFINE p == PtrLeave(q, s)
<1>2. p \in Seat /\ SameKbd(q, p) /\ SameTouch(q, p)  BY <1>1, PtrLeaveDoes
<1>3. CASE q.target = s
  <2> DEFINE r == [p EXCEPT !.target = None, !.ptrIn = FALSE]
  <2>1. DropTarget(q, s) = r  BY <1>3 DEF DropTarget
  <2> HIDE DEF p
  <2>2. r \in Seat  BY <1>2 DEF Seat, Ids
  <2>3. SameKbd(p, r) /\ SameTouch(p, r) /\ r.target = None /\ r.ptrIn = FALSE
    BY <1>2 DEF Seat, SameKbd, SameTouch
  <2> HIDE DEF r
  <2> QED  BY <1>2, <1>3, <2>1, <2>2, <2>3 DEF SameKbd, SameTouch, PtrOK
<1>4. CASE q.target # s
  BY <1>4 DEF DropTarget, SameKbd, SameTouch
<1> QED  BY <1>3, <1>4

LEMMA DropGrabDoes ==
    ASSUME NEW q \in Seat, NEW s \in Surfaces
    PROVE  /\ DropGrab(q, s) \in Seat
           /\ SamePtr(q, DropGrab(q, s)) /\ SameTouch(q, DropGrab(q, s))
           /\ KbdOK(q) => KbdOK(DropGrab(q, s))
           /\ DropGrab(q, s).focus = q.focus
           /\ DropGrab(q, s).grab = IF q.grab = s THEN None ELSE q.grab
<1>1. s \in Ids  BY DEF Ids
<1> DEFINE p == KbdLeave(q, s)
<1>2. p \in Seat /\ SamePtr(q, p) /\ SameTouch(q, p) /\ p.focus = q.focus
  BY <1>1, KbdLeaveDoes
<1>3. CASE q.grab = s
  <2> DEFINE r == [p EXCEPT !.grab = None, !.kbdIn = FALSE]
  <2>1. DropGrab(q, s) = r  BY <1>3 DEF DropGrab
  <2> HIDE DEF p
  <2>2. r \in Seat  BY <1>2 DEF Seat, Ids
  <2>3. /\ SamePtr(p, r) /\ SameTouch(p, r)
        /\ r.grab = None /\ r.kbdIn = FALSE /\ r.focus = p.focus
    BY <1>2 DEF Seat, SamePtr, SameTouch
  <2> HIDE DEF r
  <2> QED  BY <1>2, <1>3, <2>1, <2>2, <2>3 DEF SamePtr, SameTouch, KbdOK
<1>4. CASE q.grab # s
  BY <1>4 DEF DropGrab, SamePtr, SameTouch
<1> QED  BY <1>3, <1>4

LEMMA TiSetFocusDoes ==
    ASSUME NEW q \in Seat, NEW old \in Ids
    PROVE  /\ TiSetFocus(q, old) \in Seat
           /\ SameKbd(q, TiSetFocus(q, old)) /\ SamePtr(q, TiSetFocus(q, old))
           /\ SameTouch(q, TiSetFocus(q, old))
<1>1. CASE q.focus = old \/ old = None
  BY <1>1 DEF TiSetFocus, SameKbd, SamePtr, SameTouch
<1>2. CASE ~(q.focus = old \/ old = None)
  <2> DEFINE i == q.ime /\ old \notin q.ti
  <2>1. i \in BOOLEAN  OBVIOUS
  <2>2. TiSetFocus(q, old) = [q EXCEPT !.ti = @ \ {old}, !.ime = i]
    BY <1>2 DEF TiSetFocus
  <2> HIDE DEF i
  <2> QED  BY <2>1, <2>2 DEF Seat, SameKbd, SamePtr, SameTouch
<1> QED  BY <1>1, <1>2

LEMMA MoveFocusDoes ==
    ASSUME NEW q \in Seat, NEW s \in Ids
    PROVE  /\ MoveFocus(q, s) \in Seat
           /\ SamePtr(q, MoveFocus(q, s)) /\ SameTouch(q, MoveFocus(q, s))
           /\ MoveFocus(q, s).focus = s /\ MoveFocus(q, s).grab = q.grab
           /\ KbdOK(MoveFocus(q, s))
<1> DEFINE p == IF q.focus = s THEN q ELSE KbdLeave(q, q.focus)
           m == [p EXCEPT !.focus = s, !.kbdIn = FALSE]
<1>1. q.focus \in Ids  BY DEF Seat
<1>2. p \in Seat /\ SamePtr(q, p) /\ SameTouch(q, p) /\ p.grab = q.grab
  BY <1>1, KbdLeaveDoes DEF SamePtr, SameTouch
<1>3. MoveFocus(q, s) = TiSetFocus(m, q.focus)  BY DEF MoveFocus
<1> HIDE DEF p
<1>4. /\ m \in Seat /\ SamePtr(q, m) /\ SameTouch(q, m) /\ m.grab = q.grab
      /\ m.focus = s /\ m.kbdIn = FALSE
  BY <1>2 DEF Seat, SamePtr, SameTouch
<1> HIDE DEF m
<1>5. /\ TiSetFocus(m, q.focus) \in Seat /\ SameKbd(m, TiSetFocus(m, q.focus))
      /\ SamePtr(m, TiSetFocus(m, q.focus)) /\ SameTouch(m, TiSetFocus(m, q.focus))
  BY <1>1, <1>4, TiSetFocusDoes
<1> QED  BY <1>3, <1>4, <1>5 DEF SameKbd, SamePtr, SameTouch, KbdOK

\* A popup that goes takes the pointer, the touch grab and the keyboard grab
\* it had with it.
LEMMA PopupGoneDoes ==
    ASSUME NEW q \in Seat, NEW s \in Surfaces, KbdOK(q), PtrOK(q), TouchOK(q)
    PROVE  /\ PopupGone(q, s) \in Seat
           /\ KbdOK(PopupGone(q, s)) /\ PtrOK(PopupGone(q, s)) /\ TouchOK(PopupGone(q, s))
           /\ PopupGone(q, s).focus = q.focus
           /\ PopupGone(q, s).grab = IF q.grab = s THEN None ELSE q.grab
           /\ PopupGone(q, s).target = IF q.target = s THEN None ELSE q.target
           /\ PopupGone(q, s).touch = IF q.touch = s THEN None ELSE q.touch
<1> DEFINE t == DropTarget(q, s)
           c == CancelTouch(t, s)
           g == DropGrab(c, s)
<1>1. /\ t \in Seat /\ SameKbd(q, t) /\ SameTouch(q, t) /\ PtrOK(t)
      /\ t.target = IF q.target = s THEN None ELSE q.target
  BY DropTargetDoes
<1>2. TouchOK(t) /\ KbdOK(t)  BY <1>1 DEF TouchOK, SameTouch, KbdOK, SameKbd
<1> HIDE DEF t
<1>3. /\ c \in Seat /\ SameKbd(t, c) /\ SamePtr(t, c) /\ TouchOK(c)
      /\ c.touch = IF t.touch = s THEN None ELSE t.touch
  BY <1>1, <1>2, CancelTouchDoes
<1>4. KbdOK(c) /\ PtrOK(c)  BY <1>1, <1>2, <1>3 DEF KbdOK, SameKbd, PtrOK, SamePtr
<1> HIDE DEF c
<1>5. /\ g \in Seat /\ SamePtr(c, g) /\ SameTouch(c, g) /\ KbdOK(g)
      /\ g.focus = c.focus /\ g.grab = IF c.grab = s THEN None ELSE c.grab
  BY <1>3, <1>4, DropGrabDoes
<1>6. PopupGone(q, s) = g  BY DEF PopupGone, g, c, t
<1> HIDE DEF g
<1>7. PtrOK(g) /\ TouchOK(g)
  BY <1>3, <1>4, <1>5 DEF PtrOK, SamePtr, TouchOK, SameTouch
<1> QED  BY <1>1, <1>3, <1>5, <1>6, <1>7 DEF SameKbd, SamePtr, SameTouch

\* A surface that goes is forgotten by every global; with a window left, its
\* top gets the focus.
LEMMA SurfaceGoneDoes ==
    ASSUME NEW q \in Seat, NEW s \in Surfaces, NEW z \in Seq(Surfaces),
           KbdOK(q), PtrOK(q), TouchOK(q)
    PROVE  LET r == SurfaceGone(q, s, z) IN
           /\ r \in Seat /\ KbdOK(r) /\ PtrOK(r) /\ TouchOK(r)
           /\ r.focus = IF z # <<>> THEN Top(z) ELSE IF q.focus = s THEN None ELSE q.focus
           /\ r.grab = IF q.grab = s THEN None ELSE q.grab
           /\ r.target = IF q.target = s THEN None ELSE q.target
           /\ r.touch = IF q.touch = s THEN None ELSE q.touch
<1>0. s # None /\ None \in Ids  BY SeatAssumption DEF Ids
<1> DEFINE i == q.ime /\ s \notin q.ti
           u == IF q.focus = s
                  THEN [q EXCEPT !.focus = None, !.ptrIn = FALSE, !.kbdIn = FALSE, !.ime = i]
                  ELSE q
           t == IF q.target = s THEN [u EXCEPT !.target = None, !.ptrIn = FALSE] ELSE u
           c == CancelTouch(t, s)
           g == IF q.grab = s THEN [c EXCEPT !.grab = None, !.kbdIn = FALSE] ELSE c
           d == [g EXCEPT !.ti = @ \ {s}, !.kbdTold = IF @ = s THEN None ELSE @,
                          !.ptrTold = IF @ = s THEN None ELSE @]
<1>1. SurfaceGone(q, s, z) = IF z = <<>> THEN d
        ELSE [d EXCEPT !.focus = Top(z), !.ptrIn = FALSE, !.kbdIn = FALSE]
  BY DEF SurfaceGone
<1>2. i \in BOOLEAN  OBVIOUS
<1> HIDE DEF i
\* The focus goes first ...
<1>3. /\ u \in Seat /\ SameTouch(q, u) /\ u.target = q.target /\ u.ptrTold = q.ptrTold
      /\ u.grab = q.grab /\ u.kbdTold = q.kbdTold
      /\ u.focus = IF q.focus = s THEN None ELSE q.focus
      /\ (q.focus = s => u.ptrIn = FALSE /\ u.kbdIn = FALSE)
      /\ (q.focus # s => u.ptrIn = q.ptrIn /\ u.kbdIn = q.kbdIn)
  <2>1. CASE q.focus = s
    <3>1. u = [q EXCEPT !.focus = None, !.ptrIn = FALSE, !.kbdIn = FALSE, !.ime = i]  BY <2>1
    <3>2. u \in Seat  BY <1>0, <1>2, <3>1 DEF Seat
    <3> QED  BY <2>1, <3>1, <3>2 DEF Seat, SameTouch
  <2>2. CASE q.focus # s  BY <2>2 DEF SameTouch
  <2> QED  BY <2>1, <2>2
<1> HIDE DEF u
\* ... then the pointer ...
<1>4. /\ t \in Seat /\ SameTouch(u, t) /\ SameKbd(u, t) /\ t.ptrTold = u.ptrTold
      /\ t.target = IF q.target = s THEN None ELSE q.target
      /\ (q.target = s => t.ptrIn = FALSE) /\ (q.target # s => t.ptrIn = u.ptrIn)
  <2>1. CASE q.target = s
    <3>1. t = [u EXCEPT !.target = None, !.ptrIn = FALSE]  BY <2>1
    <3>2. t \in Seat  BY <1>0, <1>3, <3>1 DEF Seat
    <3> QED  BY <1>3, <2>1, <3>1, <3>2 DEF Seat, SameTouch, SameKbd
  <2>2. CASE q.target # s  BY <1>3, <2>2 DEF SameTouch, SameKbd
  <2> QED  BY <2>1, <2>2
<1>5. TouchOK(t)  BY <1>3, <1>4 DEF TouchOK, SameTouch
<1> HIDE DEF t
\* ... the touch grab ...
<1>6. /\ c \in Seat /\ SameKbd(t, c) /\ SamePtr(t, c) /\ TouchOK(c)
      /\ c.touch = IF t.touch = s THEN None ELSE t.touch
  BY <1>4, <1>5, CancelTouchDoes
<1> HIDE DEF c
\* ... and the keyboard grab.
<1>7. /\ g \in Seat /\ SameTouch(c, g) /\ SamePtr(c, g)
      /\ g.focus = c.focus /\ g.kbdTold = c.kbdTold
      /\ g.grab = IF q.grab = s THEN None ELSE q.grab
      /\ (q.grab = s => g.kbdIn = FALSE) /\ (q.grab # s => g.kbdIn = c.kbdIn)
  <2>1. CASE q.grab = s
    <3>1. g = [c EXCEPT !.grab = None, !.kbdIn = FALSE]  BY <2>1
    <3>2. g \in Seat  BY <1>0, <1>6, <3>1 DEF Seat
    <3> QED  BY <1>6, <2>1, <3>1, <3>2 DEF Seat, SameTouch, SamePtr
  <2>2. CASE q.grab # s
    BY <1>3, <1>4, <1>6, <2>2 DEF SameTouch, SamePtr, SameKbd
  <2> QED  BY <2>1, <2>2
<1> HIDE DEF g
<1>8. /\ d \in Seat /\ SameTouch(g, d) /\ d.focus = g.focus /\ d.grab = g.grab
      /\ d.kbdIn = g.kbdIn /\ d.target = g.target /\ d.ptrIn = g.ptrIn
      /\ d.kbdTold = (IF g.kbdTold = s THEN None ELSE g.kbdTold)
      /\ d.ptrTold = (IF g.ptrTold = s THEN None ELSE g.ptrTold)
  <2> DEFINE k == IF g.kbdTold = s THEN None ELSE g.kbdTold
             l == IF g.ptrTold = s THEN None ELSE g.ptrTold
             m == g.ti \ {s}
  <2>1. k \in Ids /\ l \in Ids /\ m \in SUBSET Surfaces  BY <1>0, <1>7 DEF Seat
  <2>2. d = [g EXCEPT !.ti = m, !.kbdTold = k, !.ptrTold = l]  BY <1>7 DEF Seat
  <2> HIDE DEF d
  <2>3. k = (IF g.kbdTold = s THEN None ELSE g.kbdTold)
        /\ l = (IF g.ptrTold = s THEN None ELSE g.ptrTold)
    OBVIOUS
  <2> HIDE DEF k, l, m
  <2>4. d \in Seat  BY <1>7, <2>1, <2>2 DEF Seat
  <2>5. /\ SameTouch(g, d) /\ d.focus = g.focus /\ d.grab = g.grab
        /\ d.kbdIn = g.kbdIn /\ d.target = g.target /\ d.ptrIn = g.ptrIn
        /\ d.kbdTold = k /\ d.ptrTold = l
    BY <1>7, <2>2 DEF Seat, SameTouch
  <2> QED  BY <2>3, <2>4, <2>5
<1> HIDE DEF d
<1>9. /\ d.focus = IF q.focus = s THEN None ELSE q.focus
      /\ d.grab = IF q.grab = s THEN None ELSE q.grab
      /\ d.target = IF q.target = s THEN None ELSE q.target
      /\ d.touch = IF q.touch = s THEN None ELSE q.touch
  BY <1>3, <1>4, <1>6, <1>7, <1>8 DEF SameKbd, SamePtr, SameTouch
<1>10. TouchOK(d)  BY <1>6, <1>7, <1>8 DEF TouchOK, SameTouch
<1>11. PtrOK(d)
  <2> SUFFICES ASSUME d.ptrIn PROVE d.target = d.ptrTold  BY DEF PtrOK
  <2>1. d.ptrIn = u.ptrIn /\ q.target # s
    BY <1>4, <1>6, <1>7, <1>8 DEF SamePtr
  <2>2. q.ptrIn  BY <1>3, <2>1
  <2>3. q.target = q.ptrTold  BY <2>2 DEF PtrOK
  <2>4. d.ptrTold = q.ptrTold  BY <1>3, <1>4, <1>6, <1>7, <1>8, <2>1, <2>3 DEF SamePtr
  <2> QED  BY <1>9, <2>1, <2>3, <2>4
<1>12. KbdOK(d)
  <2> SUFFICES ASSUME d.kbdIn
               PROVE  d.kbdTold = IF d.grab # None THEN d.grab ELSE d.focus
    BY DEF KbdOK
  <2>1. d.kbdIn = u.kbdIn /\ q.grab # s
    BY <1>4, <1>6, <1>7, <1>8 DEF SameKbd
  <2>2. q.kbdIn /\ q.focus # s  BY <1>3, <2>1
  <2>3. q.kbdTold = IF q.grab # None THEN q.grab ELSE q.focus  BY <2>2 DEF KbdOK
  <2>4. d.kbdTold = q.kbdTold
    BY <1>3, <1>4, <1>6, <1>7, <1>8, <2>1, <2>2, <2>3 DEF SameKbd
  <2> QED  BY <1>9, <2>1, <2>2, <2>3, <2>4
<1>13. CASE z = <<>>  BY <1>1, <1>8, <1>9, <1>10, <1>11, <1>12, <1>13
<1>14. CASE z # <<>>
  <2> DEFINE r == [d EXCEPT !.focus = Top(z), !.ptrIn = FALSE, !.kbdIn = FALSE]
  <2>1. Top(z) \in Ids  BY TopIsListed
  <2>2. r \in Seat  BY <1>8, <2>1 DEF Seat
  <2>3. /\ SameTouch(d, r) /\ r.focus = Top(z) /\ r.grab = d.grab /\ r.target = d.target
        /\ r.ptrIn = FALSE /\ r.kbdIn = FALSE
    BY <1>8, <2>1 DEF Seat, SameTouch
  <2>4. SurfaceGone(q, s, z) = r  BY <1>1, <1>14
  <2> HIDE DEF r
  <2>5. KbdOK(r) /\ PtrOK(r) /\ TouchOK(r)
    BY <2>3, <1>10 DEF KbdOK, PtrOK, TouchOK, SameTouch
  <2> QED  BY <1>9, <1>14, <2>2, <2>3, <2>4, <2>5 DEF SameTouch
<1> QED  BY <1>13, <1>14

-----------------------------------------------------------------------------
(* The parts of the invariant, before and after a step                      *)

\* Whatever a seat names besides the focus is alive in the registry f, or was grabbed
\* through its deleted state; the focus is alive, as the top of a stack of mapped
\* windows.
Safe(q, f) ==
    /\ \A x \in {q.target, q.touch} : x # None => x \in Surfaces /\ f[x].life = "alive"
    /\ q.grab # None => q.grab \in Surfaces /\ f[q.grab].life \in {"alive", "used"}

\* No surface is destroyed.
LivesOn == \A x \in Surfaces : /\ surf[x].life = "alive" => surf'[x].life = "alive"
                               /\ surf[x].life = "used" => surf'[x].life = "used"

LEMMA Parts ==
    ASSUME SeatInv
    PROVE  /\ TypeOK /\ seat \in Seat /\ surf \in [Surfaces -> SurfaceState]
           /\ zorder \in Seq(Surfaces) /\ menus \in Seq(Surfaces)
           /\ Listed(zorder, surf, "toplevel") /\ Listed(menus, surf, "popup")
           /\ Once(zorder) /\ Once(menus) /\ Registered
           /\ Safe(seat, surf) /\ seat.focus = Top(zorder)
           /\ (seat.focus # None => seat.focus \in Surfaces /\ surf[seat.focus].life = "alive")
           /\ KbdOK(seat) /\ PtrOK(seat) /\ TouchOK(seat)
  BY SeatParts DEF SeatInv, TypeOK, Stacks, Listed, Safe, NoDanglingTarget, Alive, FocusIsTop, Seat, Ids

LEMMA Whole ==
    ASSUME TypeOK', Listed(zorder', surf', "toplevel"), Listed(menus', surf', "popup"),
           Registered', Safe(seat', surf'), seat'.focus = Top(zorder'),
           KbdOK(seat'), PtrOK(seat'), TouchOK(seat')
    PROVE  SeatInv'
<1>1. EntersBeforeEvents'  BY DEF EntersBeforeEvents, KbdTarget, KbdOK, PtrOK
<1>2. TouchGrabbed'  BY DEF TouchGrabbed, TouchOK
<1>0. (Top(zorder') # None) =>
        Top(zorder') \in Surfaces /\ surf'[Top(zorder')].life = "alive"
  <2> SUFFICES ASSUME Top(zorder') # None
               PROVE  Top(zorder') \in Surfaces /\ surf'[Top(zorder')].life = "alive"
    OBVIOUS
  <2>1. zorder' \in Seq(Surfaces)  BY DEF TypeOK
  <2>2. PICK i \in DOMAIN zorder' : Top(zorder') = zorder'[i]  BY <2>1, TopIsListed
  <2> QED  BY <2>1, <2>2 DEF Listed, Registered
<1>3. NoDanglingTarget'  BY <1>0 DEF NoDanglingTarget, Alive, Safe
<1>4. FocusIsTop'  BY DEF FocusIsTop, Listed, Top
<1>5. Stacks'  BY DEF Stacks
<1> QED  BY <1>1, <1>2, <1>3, <1>4, <1>5 DEF SeatInv

\* What is listed is alive.
LEMMA ListedIsAlive ==
    ASSUME SeatInv, NEW s \in Surfaces,
           \/ \E i \in DOMAIN zorder : s = zorder[i]
           \/ \E i \in DOMAIN menus : s = menus[i]
    PROVE  surf[s].mapped /\ surf[s].life = "alive"
  BY Parts DEF Listed, Registered

LEMMA TargetsAreAlive ==
    ASSUME SeatInv, NEW s \in InputTargets
    PROVE  s \in Ids /\ (s # None => s \in Surfaces /\ surf[s].life = "alive")
<1>0. zorder \in Seq(Surfaces) /\ menus \in Seq(Surfaces) /\ seat \in Seat /\ Safe(seat, surf)
  BY Parts
<1>1. \/ s = seat.focus
      \/ \E i \in DOMAIN zorder : s = zorder[i]
      \/ \E i \in DOMAIN menus : s = menus[i]
  BY DEF InputTargets
<1>2. CASE s = seat.focus  BY <1>0, <1>2, Parts DEF Seat
<1>3. CASE s # seat.focus
  <2>1. s \in Surfaces  BY <1>0, <1>1, <1>3
  <2> QED  BY <1>1, <1>3, <2>1, ListedIsAlive DEF Ids
<1> QED  BY <1>2, <1>3

-----------------------------------------------------------------------------
(* Requests that change a surface which is not mapped                       *)

LEMMA UnmappedStep ==
    ASSUME SeatInv, NEW s \in Surfaces, ~surf[s].mapped,
           surf' \in [Surfaces -> SurfaceState], LivesOn, ~surf'[s].mapped,
           \A x \in Surfaces : x # s => /\ surf'[x].mapped = surf[x].mapped
                                       /\ surf'[x].role = surf[x].role,
           UNCHANGED <<conn, dying, zorder, menus, seat, down>>
    PROVE  SeatInv'
<1>1. TypeOK'  BY Parts DEF TypeOK
<1>2. ASSUME NEW i \in DOMAIN zorder PROVE zorder[i] # s /\ zorder[i] \in Surfaces
  BY Parts DEF Listed
<1>3. ASSUME NEW i \in DOMAIN menus PROVE menus[i] # s /\ menus[i] \in Surfaces
  BY Parts DEF Listed
<1>4. Listed(zorder', surf', "toplevel")  BY <1>2, Parts DEF Listed
<1>5. Listed(menus', surf', "popup")  BY <1>3, Parts DEF Listed
<1>6. Registered'  BY Parts DEF Registered, LivesOn
<1>7. Safe(seat', surf')  BY Parts DEF Safe, LivesOn
<1> QED  BY <1>1, <1>4, <1>5, <1>6, <1>7, Parts, Whole

LEMMA CreateSurfaceKeeps ==
    ASSUME SeatInv, NEW s \in Surfaces, CreateSurface(s)
    PROVE  SeatInv'
<1>0. surf \in [Surfaces -> SurfaceState] /\ Registered  BY Parts
<1>1. ~surf[s].mapped  BY <1>0 DEF CreateSurface, Registered
<1>2. /\ surf' \in [Surfaces -> SurfaceState] /\ surf'[s].life = "alive" /\ ~surf'[s].mapped
      /\ \A x \in Surfaces : x # s => surf'[x] = surf[x]
  BY <1>0, <1>1 DEF CreateSurface, SurfaceState
<1>3. LivesOn  BY <1>2 DEF CreateSurface, LivesOn
<1> QED  BY <1>1, <1>2, <1>3, UnmappedStep DEF CreateSurface, Unseen

LEMMA GetToplevelKeeps ==
    ASSUME SeatInv, NEW s \in Surfaces, GetToplevel(s)
    PROVE  SeatInv'
<1>0. surf \in [Surfaces -> SurfaceState]  BY Parts
<1>1. ~surf[s].mapped  BY DEF GetToplevel
<1>2. /\ surf' \in [Surfaces -> SurfaceState] /\ surf'[s].life = Touched(s) /\ ~surf'[s].mapped
      /\ \A x \in Surfaces : x # s => surf'[x] = surf[x]
  BY <1>0, <1>1 DEF GetToplevel, SurfaceState, Touched
<1>3. LivesOn  BY <1>2 DEF LivesOn, Touched, Alive
<1> QED  BY <1>1, <1>2, <1>3, UnmappedStep DEF GetToplevel, Unseen

\* What a handler does to a SurfaceState it finds through an xdg object.
LEMMA RolelessState ==
    ASSUME NEW r \in SurfaceState, NEW l \in {"alive", "used"}
    PROVE  LET w == [r EXCEPT !.role = "none", !.mapped = FALSE, !.life = l] IN
           w \in SurfaceState /\ w.mapped = FALSE
  BY DEF SurfaceState

LEMMA TouchedIs == \A s \in Surfaces : Touched(s) \in {"alive", "used"}
  BY DEF Touched

LEMMA GetPopupKeeps ==
    ASSUME SeatInv, NEW s \in Surfaces, NEW p \in Surfaces, GetPopup(s, p)
    PROVE  SeatInv'
<1>0. surf \in [Surfaces -> SurfaceState]  BY Parts
<1>1. ~surf[s].mapped /\ p # s  BY DEF GetPopup
<1> DEFINE f == [surf EXCEPT ![s].role = "popup", ![s].parent = p, ![s].life = Touched(s)]
<1>2. surf' = [f EXCEPT ![p].life = Touched(p)]  BY DEF GetPopup
<1>3. /\ f \in [Surfaces -> SurfaceState] /\ f[s].life = Touched(s) /\ ~f[s].mapped
      /\ \A x \in Surfaces : x # s => f[x] = surf[x]
  <2> DEFINE r == surf[s]
             l == Touched(s)
             w == [r EXCEPT !.role = "popup", !.parent = p, !.life = l]
  <2>1. f = [surf EXCEPT ![s] = w]  BY <1>0
  <2>2. w \in SurfaceState /\ w.life = l /\ w.mapped = r.mapped
    <3>1. r \in SurfaceState  BY <1>0
    <3>2. l \in {"alive", "used"}  BY TouchedIs
    <3>3. p \in Surfaces  OBVIOUS
    <3> HIDE DEF r, l
    <3> QED  BY <3>1, <3>2, <3>3 DEF SurfaceState, Ids
  <2> HIDE DEF w, f
  <2> QED  BY <1>0, <1>1, <2>1, <2>2
<1> HIDE DEF f
<1>4. /\ surf' \in [Surfaces -> SurfaceState] /\ surf'[p].life = Touched(p)
      /\ surf'[p].mapped = f[p].mapped /\ surf'[p].role = f[p].role
      /\ \A x \in Surfaces : x # p => surf'[x] = f[x]
  BY <1>2, <1>3 DEF SurfaceState, Touched
<1>5. LivesOn  BY <1>3, <1>4 DEF LivesOn, Touched, Alive
<1>6. \A x \in Surfaces : x # s => /\ surf'[x].mapped = surf[x].mapped
                                  /\ surf'[x].role = surf[x].role
  BY <1>3, <1>4
<1>7. ~surf'[s].mapped  BY <1>1, <1>3, <1>4
<1> QED  BY <1>1, <1>4, <1>5, <1>6, <1>7, UnmappedStep DEF GetPopup, Unseen

-----------------------------------------------------------------------------
(* Requests that map and unmap surfaces, and take their roles               *)

\* A surface that is not on a stack may change as it likes.
LEMMA ListedOthers ==
    ASSUME NEW q \in Seq(Surfaces), NEW s \in Surfaces, NEW f, NEW g, NEW role,
           Listed(q, f, role), f[s].role # role,
           \A x \in Surfaces : x # s => g[x].mapped = f[x].mapped /\ g[x].role = f[x].role
    PROVE  Listed(q, g, role)
<1>1. ASSUME NEW i \in DOMAIN q PROVE q[i] \in Surfaces /\ q[i] # s
  BY DEF Listed
<1> QED  BY <1>1 DEF Listed

LEMMA CommitBufferKeeps ==
    ASSUME SeatInv, NEW s \in Surfaces, CommitBuffer(s)
    PROVE  SeatInv'
<1>0. /\ surf \in [Surfaces -> SurfaceState] /\ seat \in Seat /\ surf[s].life = "alive"
      /\ zorder \in Seq(Surfaces) /\ menus \in Seq(Surfaces) /\ s \in Ids
  BY Parts DEF CommitBuffer, Requests, Alive, Ids
<1>1. /\ surf' \in [Surfaces -> SurfaceState]
      /\ surf'[s].mapped /\ surf'[s].life = "alive" /\ surf'[s].role = surf[s].role
      /\ \A x \in Surfaces : x # s => surf'[x] = surf[x]
  BY <1>0 DEF CommitBuffer, SurfaceState
<1>2. Registered'  BY <1>1, Parts DEF Registered
<1>3. UNCHANGED <<conn, dying, down>>  BY DEF CommitBuffer, Unseen
<1>4. ASSUME NEW q \in Seq(Surfaces), NEW role, Listed(q, surf, role)
      PROVE  Listed(q, surf', role)
  <2>1. ASSUME NEW i \in DOMAIN q PROVE q[i] \in Surfaces  OBVIOUS
  <2> QED  BY <1>1, <1>4, <2>1 DEF Listed
<1>5. CASE surf[s].role = "toplevel"
  <2>1. zorder' = Raise(zorder, s) /\ menus' = menus
    BY <1>5 DEF CommitBuffer, IsPopup
  <2> DEFINE m == MoveFocus(seat, s)
  <2>2. seat' = [m EXCEPT !.ptrIn = FALSE]  BY <1>5 DEF CommitBuffer
  <2>3. /\ m \in Seat /\ SamePtr(seat, m) /\ SameTouch(seat, m)
        /\ m.focus = s /\ m.grab = seat.grab /\ KbdOK(m)
    BY <1>0, MoveFocusDoes
  <2> HIDE DEF m
  <2>4. /\ seat' \in Seat /\ SameKbd(m, seat') /\ SameTouch(m, seat')
        /\ seat'.target = m.target /\ seat'.ptrIn = FALSE
    BY <2>2, <2>3 DEF Seat, SameKbd, SameTouch
  <2>5. /\ seat'.focus = s /\ KbdOK(seat') /\ PtrOK(seat') /\ TouchOK(seat')
        /\ seat'.grab = seat.grab /\ seat'.target = seat.target /\ seat'.touch = seat.touch
    BY <2>3, <2>4, Parts DEF SameKbd, SamePtr, SameTouch, KbdOK, PtrOK, TouchOK
  <2>6. zorder' \in Seq(Surfaces) /\ Top(zorder') = s
    BY <2>1, Parts, RaiseDoes
  <2>7. Listed(zorder', surf', "toplevel")  BY <1>1, <1>5, <2>1, Parts, ListedRaise
  <2>8. Listed(menus', surf', "popup")  BY <1>4, <2>1, Parts
  <2>9. Safe(seat', surf')  BY <1>1, <2>5, Parts DEF Safe
  <2>10. TypeOK'  BY <1>0, <1>1, <1>3, <2>1, <2>4, <2>6, Parts DEF TypeOK
  <2> QED  BY <1>2, <2>5, <2>6, <2>7, <2>8, <2>9, <2>10, Whole
<1>6. CASE surf[s].role # "toplevel"
  <2>1. zorder' = zorder /\ seat' = seat  BY <1>6 DEF CommitBuffer
  <2>2. menus' \in Seq(Surfaces) /\ Listed(menus', surf', "popup")
    <3>1. CASE IsPopup(s)
      <4>1. menus' = Raise(menus, s)  BY <3>1 DEF CommitBuffer
      <4>2. surf'[s].role = "popup"  BY <1>1, <3>1 DEF IsPopup
      <4>3. Raise(menus, s) \in Seq(Surfaces)  BY Parts, RaiseDoes
      <4>4. Listed(Raise(menus, s), surf', "popup")  BY <1>1, <4>2, Parts, ListedRaise
      <4> QED  BY <4>1, <4>3, <4>4
    <3>2. CASE ~IsPopup(s)
      <4>1. menus' = menus  BY <3>2 DEF CommitBuffer
      <4> QED  BY <1>4, <4>1, Parts
    <3> QED  BY <3>1, <3>2
  <2>3. Listed(zorder', surf', "toplevel")  BY <1>4, <2>1, Parts
  <2>4. Safe(seat', surf')  BY <1>1, <2>1, Parts DEF Safe
  <2>5. TypeOK'  BY <1>0, <1>1, <1>3, <2>1, <2>2, Parts DEF TypeOK
  <2> QED  BY <1>2, <2>1, <2>2, <2>3, <2>4, <2>5, Parts, Whole
<1> QED  BY <1>5, <1>6

\* The pointer and the touch grab taken from a surface.
LEMMA UntargetDoes ==
    ASSUME NEW q \in Seat, NEW s \in Surfaces, PtrOK(q), TouchOK(q)
    PROVE  LET r == CancelTouch(DropTarget(q, s), s) IN
           /\ r \in Seat /\ SameKbd(q, r) /\ PtrOK(r) /\ TouchOK(r)
           /\ r.target = IF q.target = s THEN None ELSE q.target
           /\ r.touch = IF q.touch = s THEN None ELSE q.touch
<1> DEFINE t == DropTarget(q, s)
           c == CancelTouch(t, s)
<1>1. /\ t \in Seat /\ SameKbd(q, t) /\ SameTouch(q, t) /\ PtrOK(t)
      /\ t.target = IF q.target = s THEN None ELSE q.target
  BY DropTargetDoes
<1>2. TouchOK(t)  BY <1>1 DEF TouchOK, SameTouch
<1> HIDE DEF t
<1>3. /\ c \in Seat /\ SameKbd(t, c) /\ SamePtr(t, c) /\ TouchOK(c)
      /\ c.touch = IF t.touch = s THEN None ELSE t.touch
  BY <1>1, <1>2, CancelTouchDoes
<1> HIDE DEF c
<1>4. PtrOK(c)  BY <1>1, <1>3 DEF PtrOK, SamePtr
<1>5. SameKbd(q, c) /\ c.target = t.target /\ t.touch = q.touch
  BY <1>1, <1>3 DEF SameKbd, SamePtr, SameTouch
<1>6. c = CancelTouch(DropTarget(q, s), s)  BY DEF c, t
<1> QED  BY <1>1, <1>3, <1>4, <1>5, <1>6

LEMMA CommitNullKeeps ==
    ASSUME SeatInv, NEW s \in Surfaces, CommitNull(s)
    PROVE  SeatInv'
<1>0. /\ surf \in [Surfaces -> SurfaceState] /\ seat \in Seat /\ surf[s].life = "alive"
      /\ zorder \in Seq(Surfaces) /\ menus \in Seq(Surfaces) /\ s \in Ids
  BY Parts DEF CommitNull, Requests, Alive, Ids
<1>1. /\ surf' \in [Surfaces -> SurfaceState] /\ surf'[s].life = "alive"
      /\ \A x \in Surfaces : x # s => surf'[x] = surf[x]
  BY <1>0 DEF CommitNull, SurfaceState
<1>2. Registered'  BY <1>1, Parts DEF Registered
<1>3. UNCHANGED <<conn, dying, down>>  BY DEF CommitNull, Unseen
<1>4. zorder' = Without(zorder, s) /\ menus' = Without(menus, s)  BY DEF CommitNull
<1>5. /\ zorder' \in Seq(Surfaces) /\ menus' \in Seq(Surfaces)
      /\ (Top(zorder) # s => Top(zorder') = Top(zorder))
  BY <1>4, Parts, WithoutDoes
<1>6. Listed(zorder', surf', "toplevel") /\ Listed(menus', surf', "popup")
  BY <1>1, <1>4, Parts, ListedWithout
<1> DEFINE k == KbdLeave(seat, s)
           u == [k EXCEPT !.kbdIn = FALSE, !.ptrIn = FALSE, !.focus = Top(zorder')]
           q == IF seat.focus = s THEN u ELSE seat
<1>7. seat' = CancelTouch(DropTarget(q, s), s)  BY DEF CommitNull
<1>8. /\ q \in Seat /\ q.focus = Top(zorder') /\ q.grab = seat.grab /\ q.target = seat.target
      /\ q.touch = seat.touch /\ KbdOK(q) /\ PtrOK(q) /\ TouchOK(q)
  <2>1. CASE seat.focus = s
    <3>1. k \in Seat /\ SamePtr(seat, k) /\ SameTouch(seat, k) /\ k.grab = seat.grab
      BY <1>0, KbdLeaveDoes
    <3> HIDE DEF k
    <3>2. Top(zorder') \in Ids  BY <1>5, TopIsListed
    <3>3. /\ u \in Seat /\ SameTouch(k, u) /\ u.grab = k.grab /\ u.target = k.target
          /\ u.focus = Top(zorder') /\ u.kbdIn = FALSE /\ u.ptrIn = FALSE
      BY <3>1, <3>2 DEF Seat, SameTouch
    <3>4. q = u  BY <2>1
    <3> HIDE DEF u, q
    <3> QED
      BY <3>1, <3>3, <3>4, Parts DEF SamePtr, SameTouch, KbdOK, PtrOK, TouchOK
  <2>2. CASE seat.focus # s
    <3>1. q = seat  BY <2>2
    <3> HIDE DEF q
    <3> QED  BY <1>0, <1>5, <2>2, <3>1, Parts
  <2> QED  BY <2>1, <2>2
<1> HIDE DEF q
<1>9. /\ seat' \in Seat /\ SameKbd(q, seat') /\ PtrOK(seat') /\ TouchOK(seat')
      /\ seat'.target = IF q.target = s THEN None ELSE q.target
      /\ seat'.touch = IF q.touch = s THEN None ELSE q.touch
  BY <1>7, <1>8, UntargetDoes
<1>10. KbdOK(seat') /\ seat'.focus = Top(zorder') /\ seat'.grab = seat.grab
  BY <1>8, <1>9 DEF SameKbd, KbdOK
<1>11. Safe(seat', surf')
  <2>1. LivesOn  BY <1>0, <1>1 DEF LivesOn
  <2> QED  BY <1>1, <1>8, <1>9, <1>10, <2>1, Parts DEF Safe, LivesOn
<1>12. TypeOK'  BY <1>1, <1>3, <1>5, <1>9, Parts DEF TypeOK
<1> QED  BY <1>2, <1>6, <1>9, <1>10, <1>11, <1>12, Whole

LEMMA ToplevelDestroyKeeps ==
    ASSUME SeatInv, NEW s \in Surfaces, ToplevelDestroy(s)
    PROVE  SeatInv'
<1>0. /\ surf \in [Surfaces -> SurfaceState] /\ seat \in Seat
      /\ zorder \in Seq(Surfaces) /\ menus \in Seq(Surfaces) /\ s \in Ids
      /\ surf[s].role = "toplevel"
  BY Parts DEF ToplevelDestroy, Ids
<1>1. /\ surf' \in [Surfaces -> SurfaceState] /\ surf'[s].mapped = FALSE
      /\ \A x \in Surfaces : x # s => surf'[x] = surf[x]
  <2> DEFINE w == [surf[s] EXCEPT !.role = "none", !.mapped = FALSE, !.life = Touched(s)]
  <2>1. surf' = [surf EXCEPT ![s] = w]  BY <1>0 DEF ToplevelDestroy
  <2>2. w \in SurfaceState /\ w.mapped = FALSE
    <3>1. surf[s] \in SurfaceState /\ Touched(s) \in {"alive", "used"}  BY <1>0, TouchedIs
    <3> QED  BY <3>1, RolelessState
  <2> HIDE DEF w
  <2> QED  BY <1>0, <2>1, <2>2
<1>2. Registered'  BY <1>1, Parts DEF Registered
<1>3. UNCHANGED <<conn, dying, down, menus>> /\ zorder' = Without(zorder, s)
  BY DEF ToplevelDestroy, Unseen
<1>4. zorder' \in Seq(Surfaces) /\ (Top(zorder) # s => Top(zorder') = Top(zorder))
  BY <1>3, Parts, WithoutDoes
<1>5. Listed(zorder', surf', "toplevel")  BY <1>1, <1>3, Parts, ListedWithout
<1>6. Listed(menus, surf', "popup")  BY <1>0, <1>1, Parts, ListedOthers
<1> DEFINE u == [seat EXCEPT !.kbdIn = FALSE, !.ptrIn = FALSE, !.focus = Top(zorder')]
           q == IF seat.focus = s THEN TiSetFocus(u, s) ELSE seat
<1>7. seat' = PopupGone(q, s)  BY DEF ToplevelDestroy, PopupGone
<1>8. /\ q \in Seat /\ q.focus = Top(zorder') /\ q.grab = seat.grab /\ q.target = seat.target
      /\ q.touch = seat.touch /\ KbdOK(q) /\ PtrOK(q) /\ TouchOK(q)
  <2>1. CASE seat.focus = s
    <3>2. Top(zorder') \in Ids  BY <1>4, TopIsListed
    <3>3. /\ u \in Seat /\ SameTouch(seat, u) /\ u.grab = seat.grab /\ u.target = seat.target
          /\ u.focus = Top(zorder') /\ u.kbdIn = FALSE /\ u.ptrIn = FALSE
      BY <1>0, <3>2 DEF Seat, SameTouch
    <3>4. q = TiSetFocus(u, s)  BY <2>1
    <3> HIDE DEF u, q
    <3>5. q \in Seat /\ SameKbd(u, q) /\ SamePtr(u, q) /\ SameTouch(u, q)
      BY <1>0, <3>3, <3>4, TiSetFocusDoes
    <3> QED
      BY <3>3, <3>5, Parts DEF SameKbd, SamePtr, SameTouch, KbdOK, PtrOK, TouchOK
  <2>2. CASE seat.focus # s
    <3>1. q = seat  BY <2>2
    <3> HIDE DEF q
    <3> QED  BY <1>0, <1>4, <2>2, <3>1, Parts
  <2> QED  BY <2>1, <2>2
<1> HIDE DEF q
<1>9. /\ seat' \in Seat /\ KbdOK(seat') /\ PtrOK(seat') /\ TouchOK(seat')
      /\ seat'.focus = q.focus /\ seat'.grab = IF q.grab = s THEN None ELSE q.grab
      /\ seat'.target = IF q.target = s THEN None ELSE q.target
      /\ seat'.touch = IF q.touch = s THEN None ELSE q.touch
  BY <1>7, <1>8, PopupGoneDoes
<1>10. Safe(seat', surf')  BY <1>1, <1>8, <1>9, Parts DEF Safe
<1>11. TypeOK'  BY <1>0, <1>1, <1>3, <1>4, <1>9, Parts DEF TypeOK
<1>12. Listed(menus', surf', "popup")  BY <1>3, <1>6
<1> QED  BY <1>2, <1>5, <1>8, <1>9, <1>10, <1>11, <1>12, Whole

LEMMA DestroyPopupKeeps ==
    ASSUME SeatInv, NEW s \in Surfaces, DestroyPopup(s),
           conn' \subseteq Clients, dying' \subseteq Surfaces
    PROVE  SeatInv'
<1>0. /\ surf \in [Surfaces -> SurfaceState] /\ seat \in Seat
      /\ zorder \in Seq(Surfaces) /\ menus \in Seq(Surfaces) /\ surf[s].role = "popup"
  BY Parts DEF DestroyPopup, IsPopup
<1>1. /\ surf' \in [Surfaces -> SurfaceState] /\ surf'[s].mapped = FALSE
      /\ \A x \in Surfaces : x # s => surf'[x] = surf[x]
  <2> DEFINE w == [surf[s] EXCEPT !.role = "none", !.mapped = FALSE, !.life = Touched(s)]
  <2>1. surf' = [surf EXCEPT ![s] = w]  BY <1>0 DEF DestroyPopup
  <2>2. w \in SurfaceState /\ w.mapped = FALSE
    <3>1. surf[s] \in SurfaceState /\ Touched(s) \in {"alive", "used"}  BY <1>0, TouchedIs
    <3> QED  BY <3>1, RolelessState
  <2> HIDE DEF w
  <2> QED  BY <1>0, <2>1, <2>2
<1>2. Registered'  BY <1>1, Parts DEF Registered
<1>3. /\ UNCHANGED <<down, zorder>> /\ menus' = Without(menus, s)
      /\ seat' = PopupGone(seat, s)
  BY DEF DestroyPopup
<1>4. menus' \in Seq(Surfaces) /\ Listed(menus', surf', "popup")
  <2>1. Without(menus, s) \in Seq(Surfaces)  BY Parts, WithoutDoes
  <2>2. Listed(Without(menus, s), surf', "popup")  BY <1>1, Parts, ListedWithout
  <2> QED  BY <1>3, <2>1, <2>2
<1>5. Listed(zorder, surf', "toplevel")  BY <1>0, <1>1, Parts, ListedOthers
<1>6. /\ seat' \in Seat /\ KbdOK(seat') /\ PtrOK(seat') /\ TouchOK(seat')
      /\ seat'.focus = seat.focus /\ seat'.grab = IF seat.grab = s THEN None ELSE seat.grab
      /\ seat'.target = IF seat.target = s THEN None ELSE seat.target
      /\ seat'.touch = IF seat.touch = s THEN None ELSE seat.touch
  BY <1>3, Parts, PopupGoneDoes
<1>7. Safe(seat', surf')  BY <1>1, <1>6, Parts DEF Safe
<1>8. TypeOK'  BY <1>0, <1>1, <1>3, <1>4, <1>6, Parts DEF TypeOK
<1>9. Listed(zorder', surf', "toplevel") /\ seat'.focus = Top(zorder')
  BY <1>3, <1>5, <1>6, Parts
<1> QED  BY <1>2, <1>4, <1>6, <1>7, <1>8, <1>9, Whole

LEMMA DestroySurfaceKeeps ==
    ASSUME SeatInv, NEW s \in Surfaces, DestroySurface(s),
           conn' \subseteq Clients, dying' \subseteq Surfaces
    PROVE  SeatInv'
<1>0. /\ surf \in [Surfaces -> SurfaceState] /\ seat \in Seat
      /\ zorder \in Seq(Surfaces) /\ menus \in Seq(Surfaces) /\ s # None
  BY Parts, SeatAssumption
<1>1. /\ surf' \in [Surfaces -> SurfaceState] /\ ~surf'[s].mapped
      /\ \A x \in Surfaces : x # s => surf'[x] = surf[x]
  BY <1>0 DEF DestroySurface, SurfaceState
<1>2. Registered'  BY <1>1, Parts DEF Registered
<1>3. /\ zorder' = Without(zorder, s) /\ menus' = Without(menus, s) /\ down' = down
  BY DEF DestroySurface
<1>4. /\ zorder' \in Seq(Surfaces) /\ menus' \in Seq(Surfaces)
      /\ (Top(zorder) # s => Top(zorder') = Top(zorder))
  BY <1>3, Parts, WithoutDoes
<1>5. Listed(zorder', surf', "toplevel") /\ Listed(menus', surf', "popup")
  BY <1>1, <1>3, Parts, ListedWithout
<1>6. seat' = SurfaceGone(seat, s, Without(zorder, s))  BY DEF DestroySurface
<1>7. KbdOK(seat) /\ PtrOK(seat) /\ TouchOK(seat) /\ seat.focus = Top(zorder)  BY Parts
<1>8. /\ seat' \in Seat /\ KbdOK(seat') /\ PtrOK(seat') /\ TouchOK(seat')
      /\ seat'.focus = (IF zorder' # <<>> THEN Top(zorder')
                        ELSE IF seat.focus = s THEN None ELSE seat.focus)
      /\ seat'.grab = (IF seat.grab = s THEN None ELSE seat.grab)
      /\ seat'.target = (IF seat.target = s THEN None ELSE seat.target)
      /\ seat'.touch = (IF seat.touch = s THEN None ELSE seat.touch)
  <2> DEFINE q == seat
             z == Without(zorder, s)
  <2>1. q \in Seat /\ z \in Seq(Surfaces) /\ KbdOK(q) /\ PtrOK(q) /\ TouchOK(q)
    BY <1>0, <1>3, <1>4, <1>7
  <2>2. seat' = SurfaceGone(q, s, z) /\ zorder' = z  BY <1>3, <1>6
  <2> HIDE DEF q, z
  <2>3. LET w == SurfaceGone(q, s, z) IN
        /\ w \in Seat /\ KbdOK(w) /\ PtrOK(w) /\ TouchOK(w)
        /\ w.focus = (IF z # <<>> THEN Top(z) ELSE IF q.focus = s THEN None ELSE q.focus)
        /\ w.grab = (IF q.grab = s THEN None ELSE q.grab)
        /\ w.target = (IF q.target = s THEN None ELSE q.target)
        /\ w.touch = (IF q.touch = s THEN None ELSE q.touch)
    BY <2>1, SurfaceGoneDoes
  <2> QED  BY <2>2, <2>3 DEF q
<1>9. seat'.focus = Top(zorder')
  <2>1. CASE zorder' # <<>>  BY <1>8, <2>1
  <2>2. CASE zorder' = <<>>
    <3>1. Top(zorder') = None  BY <2>2 DEF Top
    <3>2. CASE seat.focus = s  BY <1>8, <2>2, <3>1, <3>2
    <3>3. CASE seat.focus # s
      <4>1. Top(zorder') = Top(zorder)  BY <1>4, <1>7, <3>3, Parts
      <4> QED  BY <1>7, <1>8, <2>2, <3>3, <4>1, Parts
    <3> QED  BY <3>2, <3>3
  <2> QED  BY <2>1, <2>2
<1>10. Safe(seat', surf')  BY <1>1, <1>7, <1>8, Parts DEF Safe
<1>11. TypeOK'  BY <1>1, <1>3, <1>4, <1>8, Parts DEF TypeOK
<1> QED  BY <1>2, <1>5, <1>8, <1>9, <1>10, <1>11, Whole

-----------------------------------------------------------------------------
(* Steps that change the seat and the order of the windows                  *)

LEMMA SeatStep ==
    ASSUME SeatInv, UNCHANGED <<conn, dying, surf, zorder, menus>>, down' \subseteq Fingers,
           seat' \in Seat, KbdOK(seat'), PtrOK(seat'), TouchOK(seat'),
           seat'.focus = seat.focus, Safe(seat', surf)
    PROVE  SeatInv'
<1>1. TypeOK'  BY Parts DEF TypeOK
<1>2. Registered'  BY Parts DEF Registered
<1> QED  BY <1>1, <1>2, Parts, Whole

LEMMA PopupGrabKeeps ==
    ASSUME SeatInv, NEW s \in Surfaces, PopupGrab(s)
    PROVE  SeatInv'
<1> DEFINE prev == IF seat.grab # None THEN seat.grab ELSE seat.focus
           q == IF prev = s THEN seat ELSE KbdLeave(seat, prev)
<1>0. seat \in Seat /\ s \in Ids /\ surf \in [Surfaces -> SurfaceState]
  BY Parts DEF Ids
<1>1. prev \in Ids  BY <1>0 DEF Seat
<1>2. seat' = [q EXCEPT !.grab = s, !.kbdIn = FALSE]  BY DEF PopupGrab
<1>3. q \in Seat /\ SamePtr(seat, q) /\ SameTouch(seat, q) /\ q.focus = seat.focus
  BY <1>0, <1>1, KbdLeaveDoes DEF SamePtr, SameTouch
<1> HIDE DEF q
<1>4. /\ seat' \in Seat /\ SamePtr(q, seat') /\ SameTouch(q, seat') /\ seat'.focus = q.focus
      /\ seat'.grab = s /\ seat'.kbdIn = FALSE
  BY <1>0, <1>2, <1>3 DEF Seat, SamePtr, SameTouch
<1>5. KbdOK(seat') /\ PtrOK(seat') /\ TouchOK(seat')
  BY <1>3, <1>4, Parts DEF KbdOK, PtrOK, TouchOK, SamePtr, SameTouch
<1>6. /\ surf' \in [Surfaces -> SurfaceState] /\ surf'[s].life = Touched(s)
      /\ surf'[s].mapped = surf[s].mapped /\ surf'[s].role = surf[s].role
      /\ \A x \in Surfaces : x # s => surf'[x] = surf[x]
  BY <1>0 DEF PopupGrab, SurfaceState, Touched
<1>7. LivesOn /\ surf'[s].life \in {"alive", "used"}  BY <1>6 DEF LivesOn, Touched, Alive
<1>8. Safe(seat', surf')
  BY <1>0, <1>3, <1>4, <1>7, Parts DEF Safe, SamePtr, SameTouch, LivesOn
<1>9. UNCHANGED <<conn, dying, zorder, menus, down>>  BY DEF PopupGrab, Unseen
<1>10. TypeOK'  BY <1>4, <1>6, <1>9, Parts DEF TypeOK
<1>11. Registered'  BY <1>6, <1>7, Parts DEF Registered, LivesOn
<1>12. Listed(zorder', surf', "toplevel") /\ Listed(menus', surf', "popup")
  <2>1. \A i \in DOMAIN zorder : zorder[i] \in Surfaces  BY Parts
  <2>2. \A i \in DOMAIN menus : menus[i] \in Surfaces  BY Parts
  <2>3. \A x \in Surfaces : surf'[x].mapped = surf[x].mapped /\ surf'[x].role = surf[x].role
    BY <1>6
  <2> QED  BY <1>9, <2>1, <2>2, <2>3, Parts DEF Listed
<1>13. seat'.focus = Top(zorder')  BY <1>3, <1>4, <1>9, Parts
<1> QED  BY <1>5, <1>8, <1>10, <1>11, <1>12, <1>13, Whole

LEMMA TiCommitKeeps ==
    ASSUME SeatInv, NEW enable \in BOOLEAN, TiCommit(enable)
    PROVE  SeatInv'
<1> DEFINE t == IF enable /\ seat.focus # None
                  THEN seat.ti \cup {seat.focus} ELSE seat.ti \ {seat.focus}
           i == enable /\ seat.focus # None
<1>0. seat \in Seat /\ down \subseteq Fingers  BY Parts DEF TypeOK
<1>1. t \in SUBSET Surfaces /\ i \in BOOLEAN  BY <1>0 DEF Seat, Ids
<1>2. seat' = [seat EXCEPT !.ti = t, !.ime = i]  BY <1>0 DEF TiCommit, Seat
<1> HIDE DEF t, i
<1>3. seat' \in Seat /\ SameKbd(seat, seat') /\ SamePtr(seat, seat') /\ SameTouch(seat, seat')
  BY <1>0, <1>1, <1>2 DEF Seat, SameKbd, SamePtr, SameTouch
<1>4. KbdOK(seat') /\ PtrOK(seat') /\ TouchOK(seat') /\ Safe(seat', surf)
  BY <1>3, Parts DEF KbdOK, PtrOK, TouchOK, Safe, SameKbd, SamePtr, SameTouch
<1>5. seat'.focus = seat.focus  BY <1>3 DEF SameKbd
<1> QED  BY <1>0, <1>3, <1>4, <1>5, SeatStep DEF TiCommit, Unseen

LEMMA PointerMotionKeeps ==
    ASSUME SeatInv, NEW s, PointerMotion(s)
    PROVE  SeatInv'
<1> DEFINE p == PtrLeave(seat, seat.target)
           q == IF s = seat.target THEN seat ELSE [p EXCEPT !.target = s, !.ptrIn = FALSE]
<1>0. /\ seat \in Seat /\ down \subseteq Fingers /\ seat.target \in Ids
      /\ s \in Ids /\ (s # None => s \in Surfaces /\ surf[s].life = "alive")
  BY Parts, TargetsAreAlive DEF TypeOK, PointerMotion, Seat
<1>1. p \in Seat /\ SameKbd(seat, p) /\ SameTouch(seat, p)  BY <1>0, PtrLeaveDoes
<1>2. seat' = IF s = None THEN q ELSE PtrEnter(q, s)  BY DEF PointerMotion
<1> HIDE DEF p
<1>3. /\ q \in Seat /\ SameKbd(seat, q) /\ SameTouch(seat, q) /\ q.target = s /\ PtrOK(q)
  <2>1. CASE s = seat.target
    BY <1>0, <2>1, Parts DEF SameKbd, SameTouch
  <2>2. CASE s # seat.target
    <3>1. q = [p EXCEPT !.target = s, !.ptrIn = FALSE]  BY <2>2
    <3> HIDE DEF q
    <3>2. /\ q \in Seat /\ SameKbd(p, q) /\ SameTouch(p, q) /\ q.target = s /\ q.ptrIn = FALSE
      BY <1>0, <1>1, <3>1 DEF Seat, SameKbd, SameTouch
    <3> QED  BY <1>1, <3>2 DEF SameKbd, SameTouch, PtrOK
  <2> QED  BY <2>1, <2>2
<1> HIDE DEF q
<1>4. /\ seat' \in Seat /\ SameKbd(seat, seat') /\ SameTouch(seat, seat')
      /\ seat'.target = s /\ PtrOK(seat')
  <2>1. CASE s = None  BY <1>2, <1>3, <2>1
  <2>2. CASE s # None
    <3>1. /\ PtrEnter(q, s) \in Seat /\ SameKbd(q, PtrEnter(q, s))
          /\ SameTouch(q, PtrEnter(q, s)) /\ PtrEnter(q, s).target = s
          /\ PtrOK(PtrEnter(q, s))
      BY <1>0, <1>3, PtrEnterDoes
    <3> QED  BY <1>2, <1>3, <2>2, <3>1 DEF SameKbd, SameTouch
  <2> QED  BY <2>1, <2>2
<1>5. KbdOK(seat') /\ TouchOK(seat') /\ Safe(seat', surf) /\ seat'.focus = seat.focus
  BY <1>0, <1>4, Parts DEF KbdOK, TouchOK, Safe, SameKbd, SameTouch
<1> QED  BY <1>0, <1>4, <1>5, SeatStep DEF PointerMotion, Unseen

LEMMA KeyKeeps ==
    ASSUME SeatInv, Key
    PROVE  SeatInv'
<1>0. seat \in Seat /\ down \subseteq Fingers  BY Parts DEF TypeOK
<1>1. KbdTarget \in Ids  BY <1>0 DEF KbdTarget, Seat
<1>2. /\ seat' \in Seat /\ SamePtr(seat, seat') /\ SameTouch(seat, seat')
      /\ seat'.focus = seat.focus /\ seat'.grab = seat.grab /\ seat'.kbdTold = KbdTarget
  BY <1>0, <1>1 DEF Key, Seat, SamePtr, SameTouch
<1>3. KbdOK(seat')  BY <1>2 DEF KbdOK, KbdTarget
<1>4. PtrOK(seat') /\ TouchOK(seat') /\ Safe(seat', surf)
  BY <1>2, Parts DEF PtrOK, TouchOK, Safe, SamePtr, SameTouch
<1> QED  BY <1>0, <1>2, <1>3, <1>4, SeatStep DEF Key, Unseen

LEMMA TouchUpKeeps ==
    ASSUME SeatInv, NEW f \in Fingers, TouchUp(f)
    PROVE  SeatInv'
<1> DEFINE p == seat.points \ {f}
           e == IF seat.emul = f THEN None ELSE seat.emul
           a == IF seat.active > 0 THEN seat.active - 1 ELSE 0
           t == IF seat.active = 1 THEN None ELSE seat.touch
<1>0. seat \in Seat /\ down' \subseteq Fingers /\ TouchOK(seat)
  BY Parts DEF TypeOK, TouchUp
<1>1. p \in SUBSET Fingers /\ e \in Fingers \cup {None} /\ a \in Nat /\ t \in Ids
  BY <1>0 DEF Seat, Ids
<1>2. seat' = [seat EXCEPT !.points = p, !.emul = e, !.active = a, !.touch = t]
  BY <1>0 DEF TouchUp, Seat
<1>3. /\ (a > 0) <=> (t # None)
      /\ e # None => e \in p
      /\ t \in {seat.touch, None}
  BY <1>0 DEF TouchOK, Seat
<1> HIDE DEF p, e, a, t
<1>4. seat' \in Seat  BY <1>0, <1>1, <1>2 DEF Seat
<1>5. /\ SameKbd(seat, seat') /\ SamePtr(seat, seat')
      /\ seat'.points = p /\ seat'.emul = e /\ seat'.active = a /\ seat'.touch = t
  BY <1>0, <1>2 DEF Seat, SameKbd, SamePtr
<1>6. KbdOK(seat') /\ PtrOK(seat') /\ TouchOK(seat') /\ seat'.focus = seat.focus
  BY <1>3, <1>5, Parts DEF KbdOK, PtrOK, TouchOK, SameKbd, SamePtr
<1>7. Safe(seat', surf)  BY <1>3, <1>5, Parts DEF Safe, SameKbd, SamePtr
<1> QED  BY <1>0, <1>4, <1>6, <1>7, SeatStep DEF TouchUp

LEMMA TouchCancelKeeps ==
    ASSUME SeatInv, TouchCancel
    PROVE  SeatInv'
<1>0. seat \in Seat /\ down' \subseteq Fingers /\ None \in Ids
  BY Parts DEF TypeOK, TouchCancel, Ids
<1> DEFINE r == [seat EXCEPT !.points = {}, !.emul = None]
<1>1. r \in Seat /\ SameKbd(seat, r) /\ SamePtr(seat, r) /\ r.points = {} /\ r.emul = None
  BY <1>0 DEF Seat, SameKbd, SamePtr
<1>2. seat' = [r EXCEPT !.active = 0, !.touch = None]  BY DEF TouchCancel
<1> HIDE DEF r
<1>3. /\ seat' \in Seat /\ SameKbd(r, seat') /\ SamePtr(r, seat')
      /\ seat'.active = 0 /\ seat'.touch = None /\ seat'.emul = None
  BY <1>0, <1>1, <1>2 DEF Seat, SameKbd, SamePtr
<1>4. /\ KbdOK(seat') /\ PtrOK(seat') /\ TouchOK(seat') /\ Safe(seat', surf)
      /\ seat'.focus = seat.focus
  BY <1>1, <1>3, Parts DEF KbdOK, PtrOK, TouchOK, Safe, SameKbd, SamePtr
<1> QED  BY <1>0, <1>3, <1>4, SeatStep DEF TouchCancel

\* focus_follow_to_toplevel moves the focus and the window together.
LEMMA FollowDoes ==
    ASSUME SeatInv, NEW t
    PROVE  /\ FocusFollow(t) \in Seat /\ KbdOK(FocusFollow(t))
           /\ SamePtr(seat, FocusFollow(t)) /\ SameTouch(seat, FocusFollow(t))
           /\ FocusFollow(t).grab = seat.grab
           /\ RaiseFollowed(t) \in Seq(Surfaces) /\ Listed(RaiseFollowed(t), surf, "toplevel")
           /\ FocusFollow(t).focus = Top(RaiseFollowed(t))
<1>0. seat \in Seat  BY Parts
<1>1. CASE Follows(t)
  <2>1. t \in Surfaces /\ t \in Ids /\ surf[t].role = "toplevel" /\ surf[t].mapped
    BY <1>1 DEF Follows, Ids
  <2>2. RaiseFollowed(t) = Raise(zorder, t)  BY <1>1 DEF RaiseFollowed
  <2>3. Raise(zorder, t) \in Seq(Surfaces) /\ Top(Raise(zorder, t)) = t
    BY <2>1, Parts, RaiseDoes
  <2>4. Listed(Raise(zorder, t), surf, "toplevel")  BY <2>1, Parts, ListedRaise
  <2>5. CASE seat.focus = t
    <3>1. FocusFollow(t) = seat  BY <2>5 DEF FocusFollow
    <3> QED  BY <2>2, <2>3, <2>4, <2>5, <3>1, Parts DEF SamePtr, SameTouch
  <2>6. CASE seat.focus # t
    <3>1. FocusFollow(t) = MoveFocus(seat, t)  BY <1>1, <2>6 DEF FocusFollow
    <3>2. /\ MoveFocus(seat, t) \in Seat /\ KbdOK(MoveFocus(seat, t))
          /\ SamePtr(seat, MoveFocus(seat, t)) /\ SameTouch(seat, MoveFocus(seat, t))
          /\ MoveFocus(seat, t).focus = t /\ MoveFocus(seat, t).grab = seat.grab
      BY <1>0, <2>1, MoveFocusDoes
    <3> QED  BY <2>2, <2>3, <2>4, <3>1, <3>2
  <2> QED  BY <2>5, <2>6
<1>2. CASE ~Follows(t)
  <2>1. FocusFollow(t) = seat /\ RaiseFollowed(t) = zorder
    BY <1>2 DEF FocusFollow, RaiseFollowed
  <2> QED  BY <2>1, Parts DEF SamePtr, SameTouch
<1> QED  BY <1>1, <1>2

LEMMA FollowStep ==
    ASSUME SeatInv, NEW t, UNCHANGED <<conn, dying, surf, menus>>, down' \subseteq Fingers,
           zorder' = RaiseFollowed(t), seat' \in Seat, SameKbd(FocusFollow(t), seat'),
           PtrOK(seat'), TouchOK(seat'), Safe(seat', surf)
    PROVE  SeatInv'
<1> DEFINE q == FocusFollow(t)
           z == RaiseFollowed(t)
<1>1. /\ KbdOK(q) /\ q.focus = Top(z) /\ z \in Seq(Surfaces) /\ Listed(z, surf, "toplevel")
  BY FollowDoes
<1>2. SameKbd(q, seat') /\ zorder' = z  OBVIOUS
<1> HIDE DEF q, z
<1>3. KbdOK(seat') /\ seat'.focus = Top(z)  BY <1>1, <1>2 DEF KbdOK, SameKbd
<1>4. TypeOK'  BY <1>1, <1>2, Parts DEF TypeOK
<1>5. Registered'  BY Parts DEF Registered
<1>6. /\ Listed(zorder', surf', "toplevel") /\ Listed(menus', surf', "popup")
      /\ seat'.focus = Top(zorder')
  BY <1>1, <1>2, <1>3, Parts
<1> QED  BY <1>3, <1>4, <1>5, <1>6, Whole

LEMMA PointerPressKeeps ==
    ASSUME SeatInv, PointerPress
    PROVE  SeatInv'
<1> DEFINE t == Activated(seat.target)
<1>1. seat' = FocusFollow(t) /\ zorder' = RaiseFollowed(t)  BY DEF PointerPress
<1> HIDE DEF t
<1>2. /\ FocusFollow(t) \in Seat
      /\ SamePtr(seat, FocusFollow(t)) /\ SameTouch(seat, FocusFollow(t))
      /\ FocusFollow(t).grab = seat.grab
  BY FollowDoes
<1>3. UNCHANGED <<conn, dying, surf, menus>> /\ down' \subseteq Fingers
  BY Parts DEF PointerPress, Unseen, TypeOK
<1>4. PtrOK(seat') /\ TouchOK(seat') /\ Safe(seat', surf)
  BY <1>1, <1>2, Parts DEF PtrOK, TouchOK, Safe, SamePtr, SameTouch
<1>5. SameKbd(FocusFollow(t), seat')  BY <1>1 DEF SameKbd
<1> QED  BY <1>1, <1>2, <1>3, <1>4, <1>5, FollowStep

\* A contact that is counted.
LEMMA ContactDoes ==
    ASSUME NEW q \in Seat, NEW f \in Fingers
    PROVE  LET r == [q EXCEPT !.points = @ \cup {f}, !.active = @ + 1] IN
           /\ r \in Seat /\ SameKbd(q, r) /\ SamePtr(q, r) /\ r.touch = q.touch
           /\ r.active = q.active + 1 /\ f \in r.points
<1> DEFINE p == q.points \cup {f}
           a == q.active + 1
           r == [q EXCEPT !.points = p, !.active = a]
<1>1. p \in SUBSET Fingers /\ f \in p /\ a \in Nat  BY DEF Seat
<1>2. r = [q EXCEPT !.points = @ \cup {f}, !.active = @ + 1] /\ a = q.active + 1
  OBVIOUS
<1> HIDE DEF p, a
<1>3. r \in Seat  BY <1>1 DEF Seat
<1>4. /\ SameKbd(q, r) /\ SamePtr(q, r) /\ r.touch = q.touch /\ r.active = a /\ r.points = p
  BY DEF Seat, SameKbd, SamePtr
<1> HIDE DEF r
<1> QED  BY <1>1, <1>2, <1>3, <1>4

LEMMA TouchDownKeeps ==
    ASSUME SeatInv, NEW f \in Fingers, NEW s, TouchDown(f, s)
    PROVE  SeatInv'
<1>0. /\ seat \in Seat /\ s \in Ids /\ (s # None => s \in Surfaces /\ surf[s].life = "alive")
      /\ down' \subseteq Fingers /\ UNCHANGED <<conn, dying, surf, menus>> /\ f # None
  BY Parts, TargetsAreAlive, SeatAssumption DEF TypeOK, TouchDown
<1> DEFINE t == Activated(s)
           q == [FocusFollow(t) EXCEPT !.touch = s]
           sent == [q EXCEPT !.points = @ \cup {f}, !.active = @ + 1]
           left == IF sent.target # sent.touch
                     THEN [PtrLeave(sent, sent.target) EXCEPT !.ptrIn = FALSE] ELSE sent
           moved == [left EXCEPT !.target = sent.touch]
           entered == PtrEnter(moved, sent.touch)
           emulated == [entered EXCEPT !.emul = f]
           more == [seat EXCEPT !.points = @ \cup {f}, !.active = @ + 1]
<1>1. CASE s = None
  <2>1. seat' = seat /\ zorder' = zorder  BY <1>1 DEF TouchDown
  <2> QED  BY <1>0, <2>1, Parts, SeatStep
<1>2. CASE s # None /\ seat.active = 0
  <2>0. s \in Surfaces /\ surf[s].life = "alive"  BY <1>0, <1>2
  <2>1. seat' = emulated /\ zorder' = RaiseFollowed(t)  BY <1>2 DEF TouchDown
  <2> HIDE DEF t
  <2>2. /\ FocusFollow(t) \in Seat /\ SamePtr(seat, FocusFollow(t))
        /\ SameTouch(seat, FocusFollow(t)) /\ FocusFollow(t).grab = seat.grab
    BY FollowDoes
  <2>3. /\ q \in Seat /\ SameKbd(FocusFollow(t), q) /\ SamePtr(seat, q) /\ q.touch = s
        /\ q.active = 0 /\ q.points = seat.points
    BY <1>0, <1>2, <2>2 DEF Seat, SameKbd, SamePtr, SameTouch
  <2> HIDE DEF q
  <2>4. /\ sent \in Seat /\ SameKbd(q, sent) /\ SamePtr(q, sent) /\ sent.touch = s
        /\ sent.active = 1 /\ f \in sent.points
    <3>1. /\ sent \in Seat /\ SameKbd(q, sent) /\ SamePtr(q, sent) /\ sent.touch = q.touch
          /\ sent.active = q.active + 1 /\ f \in sent.points
      BY <2>3, ContactDoes
    <3> HIDE DEF sent
    <3> QED  BY <2>3, <3>1
  <2> HIDE DEF sent
  <2>5. PtrOK(sent)  BY <2>3, <2>4, Parts DEF PtrOK, SamePtr
  \* The pointer leaves the surface it was on, if that is another one ...
  <2>6. /\ left \in Seat /\ SameKbd(sent, left) /\ SameTouch(sent, left)
        /\ (sent.target # s => left.ptrIn = FALSE)
        /\ (sent.target = s => left = sent)
    <3>1. CASE sent.target # s
      <4> DEFINE l == PtrLeave(sent, sent.target)
      <4>1. sent.target \in Ids  BY <2>4 DEF Seat
      <4>2. l \in Seat /\ SameKbd(sent, l) /\ SameTouch(sent, l)
        BY <2>4, <4>1, PtrLeaveDoes
      <4>3. left = [l EXCEPT !.ptrIn = FALSE]  BY <2>4, <3>1
      <4> HIDE DEF l, left
      <4> QED  BY <3>1, <4>2, <4>3 DEF Seat, SameKbd, SameTouch
    <3>2. CASE sent.target = s
      <4>1. left = sent  BY <2>4, <3>2
      <4> QED  BY <2>4, <3>2, <4>1 DEF SameKbd, SameTouch
    <3> QED  BY <3>1, <3>2
  <2> HIDE DEF left
  \* ... and enters the touched one.
  <2>7. /\ moved \in Seat /\ SameKbd(left, moved) /\ SameTouch(left, moved)
        /\ moved.target = s /\ moved.ptrIn = left.ptrIn /\ moved.ptrTold = left.ptrTold
    BY <1>0, <2>4, <2>6 DEF Seat, SameKbd, SameTouch
  <2>8. PtrOK(moved)
    BY <2>5, <2>6, <2>7 DEF PtrOK
  <2> HIDE DEF moved
  <2>9. /\ entered \in Seat /\ SameKbd(moved, entered) /\ SameTouch(moved, entered)
        /\ entered.target = s /\ PtrOK(entered)
    BY <1>0, <2>4, <2>7, <2>8, PtrEnterDoes
  <2> HIDE DEF entered
  <2>10. /\ emulated \in Seat /\ SameKbd(entered, emulated) /\ SamePtr(entered, emulated)
         /\ emulated.emul = f /\ emulated.touch = entered.touch
         /\ emulated.active = entered.active /\ emulated.points = entered.points
    BY <2>9 DEF Seat, SameKbd, SamePtr
  <2> HIDE DEF emulated
  <2>11. SameKbd(FocusFollow(t), emulated)
    BY <2>3, <2>4, <2>6, <2>7, <2>9, <2>10 DEF SameKbd
  <2>12. /\ emulated.touch = s /\ emulated.active = 1 /\ emulated.points = sent.points
         /\ emulated.target = s
    BY <2>4, <2>6, <2>7, <2>9, <2>10 DEF SameTouch, SamePtr
  <2>13. PtrOK(emulated) /\ TouchOK(emulated)
    BY <1>2, <2>4, <2>9, <2>10, <2>12 DEF PtrOK, TouchOK, SamePtr
  <2>14. Safe(emulated, surf)
    BY <2>0, <2>2, <2>11, <2>12, Parts DEF Safe, SameKbd
  <2> QED  BY <1>0, <2>1, <2>10, <2>11, <2>13, <2>14, FollowStep
<1>3. CASE s # None /\ seat.active # 0
  <2>1. seat' = [more EXCEPT !.emul = None] /\ zorder' = zorder
    BY <1>3 DEF TouchDown
  <2>2. /\ more \in Seat /\ SameKbd(seat, more) /\ SamePtr(seat, more)
        /\ more.touch = seat.touch /\ more.active = seat.active + 1
    BY <1>0, ContactDoes
  <2> HIDE DEF more
  <2>3. /\ seat' \in Seat /\ SameKbd(more, seat') /\ SamePtr(more, seat')
        /\ seat'.touch = more.touch /\ seat'.active = more.active /\ seat'.emul = None
    BY <2>1, <2>2 DEF Seat, SameKbd, SamePtr
  <2>4. seat.active \in Nat  BY <1>0 DEF Seat
  <2>5. TouchOK(seat')
    <3>1. seat.active > 0 /\ seat'.active > 0  BY <1>3, <2>2, <2>3, <2>4
    <3> QED  BY <2>2, <2>3, <3>1, Parts DEF TouchOK
  <2>6. KbdOK(seat') /\ PtrOK(seat') /\ Safe(seat', surf) /\ seat'.focus = seat.focus
    BY <2>2, <2>3, Parts DEF KbdOK, PtrOK, Safe, SameKbd, SamePtr
  <2> QED  BY <1>0, <2>1, <2>3, <2>5, <2>6, SeatStep
<1> QED  BY <1>1, <1>2, <1>3

-----------------------------------------------------------------------------
(* The theorems                                                            *)

LEMMA InitSeatInv == Init => SeatInv
<1> SUFFICES ASSUME Init PROVE SeatInv  OBVIOUS
<1>1. /\ seat.focus = None /\ seat.grab = None /\ seat.target = None /\ seat.touch = None
      /\ seat.kbdIn = FALSE /\ seat.ptrIn = FALSE /\ seat.active = 0 /\ seat.emul = None
  BY DEF Init
<1>2. seat \in Seat  BY DEF Init, Seat, Ids
<1>3. surf \in [Surfaces -> SurfaceState]  BY DEF Init, SurfaceState, Ids
<1>5. zorder = <<>> /\ menus = <<>>  BY DEF Init
<1>10. zorder \in Seq(Surfaces) /\ menus \in Seq(Surfaces)  BY <1>5
<1>11. conn = {} /\ dying = {} /\ down = {}  BY DEF Init
<1>4. TypeOK  BY <1>2, <1>3, <1>10, <1>11 DEF TypeOK
<1>6. Stacks  BY <1>5 DEF Stacks, Listed, Once
<1>7. Registered  BY DEF Init, Registered
<1>8. FocusIsTop  BY <1>1, <1>5 DEF FocusIsTop, Top
<1>9. NoDanglingTarget /\ EntersBeforeEvents /\ TouchGrabbed
  BY <1>1 DEF NoDanglingTarget, EntersBeforeEvents, TouchGrabbed
<1> QED  BY <1>4, <1>6, <1>7, <1>8, <1>9 DEF SeatInv

LEMMA NextSeatInv == SeatInv /\ [Next]_vars => SeatInv'
<1> SUFFICES ASSUME SeatInv, [Next]_vars PROVE SeatInv'  OBVIOUS
<1>0. conn \subseteq Clients /\ dying \subseteq Surfaces /\ down \subseteq Fingers
  BY Parts DEF TypeOK
<1>1. ASSUME NEW c \in Clients, Connect(c) PROVE SeatInv'
  <2>1. conn' \subseteq Clients  BY <1>0, <1>1 DEF Connect
  <2>2. UNCHANGED <<dying, surf, zorder, menus, seat, down>>  BY <1>1 DEF Connect
  <2>3. TypeOK' /\ Registered'  BY <2>1, <2>2, Parts DEF TypeOK, Registered
  <2> QED  BY <2>2, <2>3, Parts, Whole
<1>2. ASSUME NEW c \in Clients, Disconnect(c) PROVE SeatInv'
  <2>1. conn' \subseteq Clients /\ dying' \subseteq Surfaces  BY <1>0, <1>2 DEF Disconnect
  <2>2. UNCHANGED <<surf, zorder, menus, seat, down>>  BY <1>2 DEF Disconnect
  <2>3. TypeOK' /\ Registered'  BY <2>1, <2>2, Parts DEF TypeOK, Registered
  <2> QED  BY <2>2, <2>3, Parts, Whole
<1>3. ASSUME NEW s \in Surfaces, Request(s) PROVE SeatInv'
  <2>1. CASE CreateSurface(s)  BY <2>1, CreateSurfaceKeeps
  <2>2. CASE GetToplevel(s)  BY <2>2, GetToplevelKeeps
  <2>3. CASE CommitBuffer(s)  BY <2>3, CommitBufferKeeps
  <2>4. CASE CommitNull(s)  BY <2>4, CommitNullKeeps
  <2>5. CASE ToplevelDestroy(s)  BY <2>5, ToplevelDestroyKeeps
  <2>6. CASE PopupGrab(s)  BY <2>6, PopupGrabKeeps
  <2>7. CASE PopupDestroy(s)  BY <1>0, <2>7, DestroyPopupKeeps DEF PopupDestroy
  <2>8. CASE SurfaceDestroy(s)  BY <1>0, <2>8, DestroySurfaceKeeps DEF SurfaceDestroy
  <2>9. CASE DestroyNext(s)
    <3>1. /\ conn' \subseteq Clients /\ dying' \subseteq Surfaces
          /\ DestroySurface(s) \/ DestroyPopup(s)
      BY <1>0, <2>9 DEF DestroyNext
    <3> QED  BY <3>1, DestroySurfaceKeeps, DestroyPopupKeeps
  <2>10. CASE PointerMotion(s)  BY <2>10, PointerMotionKeeps
  <2>11. CASE \E p \in Surfaces : GetPopup(s, p)  BY <2>11, GetPopupKeeps
  <2>12. CASE \E f \in Fingers : TouchDown(f, s)  BY <2>12, TouchDownKeeps
  <2> QED  BY <1>3, <2>1, <2>2, <2>3, <2>4, <2>5, <2>6, <2>7, <2>8, <2>9, <2>10, <2>11, <2>12
           DEF Request
<1>4. ASSUME NEW f \in Fingers, TouchUp(f) \/ TouchDown(f, None) PROVE SeatInv'
  BY <1>4, TouchUpKeeps, TouchDownKeeps
<1>5. ASSUME NEW enable \in BOOLEAN, TiCommit(enable) PROVE SeatInv'
  BY <1>5, TiCommitKeeps
<1>6. CASE PointerMotion(None)  BY <1>6, PointerMotionKeeps
<1>7. CASE PointerPress  BY <1>7, PointerPressKeeps
<1>8. CASE TouchCancel  BY <1>8, TouchCancelKeeps
<1>9. CASE Key  BY <1>9, KeyKeeps
<1>10. CASE UNCHANGED vars
  <2>1. UNCHANGED <<conn, dying, surf, zorder, menus, seat, down>>  BY <1>10 DEF vars
  <2>2. TypeOK' /\ Registered'  BY <2>1, Parts DEF TypeOK, Registered
  <2> QED  BY <2>1, <2>2, Parts, Whole
<1> QED  BY <1>1, <1>2, <1>3, <1>4, <1>5, <1>6, <1>7, <1>8, <1>9, <1>10 DEF Next

(* The compositor's globals keep the inductive invariant through every      *)
(* request, disconnection and input event (handlers of alr_compositor.cpp). *)
THEOREM SeatInvariant == Spec => []SeatInv
  BY InitSeatInv, NextSeatInv, PTL DEF Spec

(* Up to the first use of a deleted SurfaceState, g_focus_surface, the      *)
(* popup grab, the pointer and the touch target name no surface that was    *)
(* destroyed, in whatever order roles, surfaces and clients go              *)
(* (surface_resource_destroy, popup_resource_destroy, popup_grab).          *)
THEOREM NoDangling == Spec => []NoDanglingTarget
<1>1. SeatInv => NoDanglingTarget  BY DEF SeatInv
<1> QED  BY <1>1, SeatInvariant, PTL

(* The focused window is the top of the stack, which lists only mapped      *)
(* toplevels (zorder_top, focus_follow_to_toplevel).                        *)
THEOREM FocusOnTop == Spec => []FocusIsTop
<1>1. SeatInv => FocusIsTop  BY DEF SeatInv
<1> QED  BY <1>1, SeatInvariant, PTL

(* Keys and buttons go to a surface that had its enter event                *)
(* (keyboard_entered, pointer_entered).                                     *)
THEOREM EntersFirst == Spec => []EntersBeforeEvents
<1>1. SeatInv => EntersBeforeEvents  BY DEF SeatInv
<1> QED  BY <1>1, SeatInvariant, PTL

(* The touch grab lasts while contacts are counted, and the emulating       *)
(* finger is one the clients know (g_touch_target, g_touch_emul_id).        *)
THEOREM TouchGrab == Spec => []TouchGrabbed
<1>1. SeatInv => TouchGrabbed  BY DEF SeatInv
<1> QED  BY <1>1, SeatInvariant, PTL

-----------------------------------------------------------------------------
(* Repainting and GPU buffers                                              *)

\* Where the application and the threads are.
ControlOK ==
    /\ app \in {"none", "starting", "up", "stopping"}
    /\ thr \in {"off", "setup", "test", "wait", "drain", "dispatch", "teardown", "exited"}
    /\ wakeup \in BOOLEAN /\ resize \in BOOLEAN
    /\ producer \in [Producers -> {"idle", "pushed", "waking"}]
    /\ inject \in 0 .. MaxQueue /\ starts \in 0 .. MaxStarts

\* A stack shows mapped surfaces, each of them once.
Shown(q, f) == Once(q) /\ \A i \in DOMAIN q : f[q[i]].mapped

WindowsOK ==
    /\ all \in Seq(Drawables) /\ Once(all)
    /\ stack \in Seq(Windows) /\ popups \in Seq(Popups)
    /\ state \in [Drawables -> WindowState]
    /\ Shown(stack, state) /\ Shown(popups, state)

\* The blank screen a start brings is still there when the loop begins.
PaintOK ==
    /\ paint \in Paint
    /\ thr = "setup" => paint.screen = "scene"
    /\ ScreenIsScene

\* The surfaces, and the places of the queue g, that name buffer b.
Binding(f, b) == {s \in Drawables : f[s].ahb = b}
Waiting(g, b) == {i \in DOMAIN g : g[i] = b}
Enough(r, f, g, u) ==
    \A b \in Buffers :
        r[b] >= Cardinality(Binding(f, b)) + Cardinality(Waiting(g, b))
                  + (IF u = b THEN 1 ELSE 0)

RefsOK ==
    /\ gpu \in Seq(Buffers) /\ full \in Buffers \cup {None}
    /\ refs \in [Buffers -> Nat] /\ Enough(refs, state, gpu, full)

ScreenInv == ControlOK /\ WindowsOK /\ PaintOK /\ RefsOK

\* Finiteness and cardinality mean the same in the instance.
LEMMA SameFiniteSets ==
    ASSUME NEW S
    PROVE  (IsFiniteSet(S) <=> IsFiniteSet(S)) /\ Cardinality(S) = Cardinality(S)
<1>1. IsFiniteSet(S) <=> IsFiniteSet(S)  BY DEF IsFiniteSet, IsFiniteSet
<1>2. Cardinality(S) = Cardinality(S)  BY Zenon DEF Cardinality, Cardinality
<1> QED  BY <1>1, <1>2

LEMMA EnoughIsHeld ==
    HeldBuffersReferenced <=> Enough(refs, state, gpu, full)
<1>1. ASSUME NEW b \in Buffers
      PROVE  Named(b) = Cardinality(Binding(state, b)) + Cardinality(Waiting(gpu, b))
                                 + (IF full = b THEN 1 ELSE 0)
  <2>1. Named(b) = Cardinality(Binding(state, b))
          + Cardinality(Waiting(gpu, b)) + (IF full = b THEN 1 ELSE 0)
    BY Zenon DEF Named, Binding, Waiting
  <2>2. /\ Cardinality(Binding(state, b)) = Cardinality(Binding(state, b))
        /\ Cardinality(Waiting(gpu, b)) = Cardinality(Waiting(gpu, b))
    BY SameFiniteSets
  <2> QED  BY <2>1, <2>2
<1> QED  BY <1>1 DEF HeldBuffersReferenced, Enough

LEMMA ScreenTyped == ScreenInv => ScreenTypeOK
  BY DEF ScreenInv, ControlOK, WindowsOK, PaintOK, RefsOK, ScreenTypeOK

-----------------------------------------------------------------------------
(* Counting names                                                          *)

LEMMA CountOne ==
    ASSUME NEW X, IsFiniteSet(X), NEW t
    PROVE  /\ IsFiniteSet(X \ {t}) /\ Cardinality(X \ {t}) \in Nat /\ Cardinality(X) \in Nat
           /\ Cardinality(X) = Cardinality(X \ {t}) + (IF t \in X THEN 1 ELSE 0)
<1>1. IsFiniteSet(X \ {t}) /\ Cardinality(X \ {t}) \in Nat /\ Cardinality(X) \in Nat
  BY FS_RemoveElement, FS_CardinalityType
<1>2. CASE t \in X
  <2>1. Cardinality(X \ {t}) = Cardinality(X) - 1  BY <1>2, FS_RemoveElement
  <2> QED  BY <1>1, <1>2, <2>1
<1>3. CASE t \notin X
  <2>1. Cardinality(X \ {t}) = Cardinality(X)  BY <1>3, FS_RemoveElement
  <2> QED  BY <1>1, <1>3, <2>1
<1> QED  BY <1>2, <1>3

LEMMA BindingFinite ==
    ASSUME NEW f, NEW b
    PROVE  IsFiniteSet(Binding(f, b)) /\ Cardinality(Binding(f, b)) \in Nat
<1>0. IsFiniteSet(Windows) /\ IsFiniteSet(Popups)
  BY SameFiniteSets, PresentAssumption
<1>1. IsFiniteSet(Windows \cup Popups)  BY <1>0, FS_Union
<1>2. Binding(f, b) \subseteq Windows \cup Popups  BY DEF Binding, Drawables
<1> QED  BY <1>1, <1>2, FS_Subset, FS_CardinalityType

LEMMA WaitingFinite ==
    ASSUME NEW g \in Seq(Buffers), NEW b
    PROVE  IsFiniteSet(Waiting(g, b)) /\ Cardinality(Waiting(g, b)) \in Nat
<1>1. IsFiniteSet(1 .. Len(g))  BY FS_Interval
<1>2. Waiting(g, b) \subseteq 1 .. Len(g)  BY DEF Waiting
<1> QED  BY <1>1, <1>2, FS_Subset, FS_CardinalityType

\* One surface that is bound to another buffer.
LEMMA Rebound ==
    ASSUME NEW f, NEW g, NEW t \in Drawables, NEW b,
           \A x \in Drawables : x # t => g[x].ahb = f[x].ahb
    PROVE  Cardinality(Binding(g, b)) + (IF f[t].ahb = b THEN 1 ELSE 0)
             = Cardinality(Binding(f, b)) + (IF g[t].ahb = b THEN 1 ELSE 0)
<1>1. Binding(g, b) \ {t} = Binding(f, b) \ {t}  BY DEF Binding
<1>2. (t \in Binding(f, b) <=> f[t].ahb = b) /\ (t \in Binding(g, b) <=> g[t].ahb = b)
  BY DEF Binding
<1>3. IsFiniteSet(Binding(f, b)) /\ IsFiniteSet(Binding(g, b))  BY BindingFinite
<1>4. /\ Cardinality(Binding(f, b) \ {t}) \in Nat
      /\ Cardinality(Binding(f, b))
           = Cardinality(Binding(f, b) \ {t}) + (IF f[t].ahb = b THEN 1 ELSE 0)
  BY <1>2, <1>3, CountOne
<1>5. Cardinality(Binding(g, b))
        = Cardinality(Binding(g, b) \ {t}) + (IF g[t].ahb = b THEN 1 ELSE 0)
  BY <1>2, <1>3, CountOne
<1> QED  BY <1>1, <1>4, <1>5

\* A frame that is queued, and the last of the queue.
LEMMA Queued ==
    ASSUME NEW g \in Seq(Buffers), NEW c \in Buffers, NEW b
    PROVE  Cardinality(Waiting(Append(g, c), b))
             = Cardinality(Waiting(g, b)) + (IF c = b THEN 1 ELSE 0)
<1> DEFINE n == Len(g) + 1
           h == Append(g, c)
<1>1. /\ h \in Seq(Buffers) /\ DOMAIN h = 1 .. n /\ DOMAIN g = 1 .. Len(g) /\ Len(g) \in Nat
      /\ h[n] = c /\ \A i \in DOMAIN g : h[i] = g[i]
  OBVIOUS
<1> HIDE DEF h
<1>2. n \in Nat /\ n \notin DOMAIN g /\ n \in DOMAIN h /\ DOMAIN h \ {n} = DOMAIN g
  BY <1>1
<1> HIDE DEF n
<1>3. Waiting(h, b) \ {n} = Waiting(g, b)  BY <1>1, <1>2 DEF Waiting
<1>4. (n \in Waiting(h, b)) <=> (c = b)  BY <1>1, <1>2 DEF Waiting
<1>5. IsFiniteSet(Waiting(h, b))  BY <1>1, WaitingFinite
<1>6. Cardinality(Waiting(h, b))
        = Cardinality(Waiting(h, b) \ {n}) + (IF c = b THEN 1 ELSE 0)
  BY <1>4, <1>5, CountOne
<1> QED  BY <1>3, <1>6 DEF h

LEMMA LastQueued ==
    ASSUME NEW g \in Seq(Buffers), g # <<>>, NEW b
    PROVE  LET older == Cardinality({i \in 1 .. Len(g) - 1 : g[i] = b}) IN
           /\ older \in Nat
           /\ Cardinality(Waiting(g, b)) = older + (IF g[Len(g)] = b THEN 1 ELSE 0)
<1> DEFINE n == Len(g)
           w == Waiting(g, b)
<1>1. n \in Nat /\ n \in DOMAIN g /\ DOMAIN g = 1 .. n  OBVIOUS
<1>2. w \ {n} = {i \in 1 .. n - 1 : g[i] = b}  BY <1>1 DEF Waiting
<1>3. n \in w <=> g[n] = b  BY <1>1 DEF Waiting
<1>4. IsFiniteSet(w)  BY WaitingFinite
<1> HIDE DEF w
<1>5. /\ Cardinality(w \ {n}) \in Nat
      /\ Cardinality(w) = Cardinality(w \ {n}) + (IF g[n] = b THEN 1 ELSE 0)
  BY <1>3, <1>4, CountOne
<1> QED  BY <1>2, <1>5 DEF w

-----------------------------------------------------------------------------
(* What the steps of the screen have in common                              *)

LEMMA SameStacks ==
    ASSUME NEW q, NEW s
    PROVE  Without(q, s) = Without(q, s) /\ Raise(q, s) = Raise(q, s)
<1>1. Without(q, s) = Without(q, s)  BY Zenon DEF Without, Without
<1> QED  BY <1>1 DEF Raise, Raise

LEMMA ShownWithout ==
    ASSUME NEW S, NEW q \in Seq(S), NEW s, NEW f, NEW g, Shown(q, f),
           \A x \in S : x # s => g[x].mapped = f[x].mapped
    PROVE  Without(q, s) \in Seq(S) /\ Shown(Without(q, s), g)
<1> DEFINE w == Without(q, s)
<1>1. /\ w \in Seq(S) /\ Once(w)
      /\ \A i \in DOMAIN w : w[i] # s /\ \E j \in DOMAIN q : w[i] = q[j]
  BY WithoutDoes DEF Shown
<1> HIDE DEF w
<1>2. ASSUME NEW i \in DOMAIN w PROVE g[w[i]].mapped
  <2>1. PICK j \in DOMAIN q : w[i] = q[j]  BY <1>1
  <2>2. w[i] # s /\ q[j] \in S  BY <1>1
  <2> QED  BY <2>1, <2>2 DEF Shown
<1> QED  BY <1>1, <1>2 DEF Shown, w

LEMMA ShownRaise ==
    ASSUME NEW S, NEW q \in Seq(S), NEW s \in S, NEW f, NEW g, Shown(q, f), g[s].mapped,
           \A x \in S : x # s => g[x].mapped = f[x].mapped
    PROVE  Raise(q, s) \in Seq(S) /\ Shown(Raise(q, s), g)
<1> DEFINE w == Raise(q, s)
<1>1. /\ w \in Seq(S) /\ Once(w)
      /\ \A i \in DOMAIN w : w[i] = s \/ \E j \in DOMAIN q : w[i] = q[j]
  BY RaiseDoes DEF Shown
<1> HIDE DEF w
<1>2. ASSUME NEW i \in DOMAIN w PROVE g[w[i]].mapped
  <2>1. CASE w[i] = s  BY <2>1
  <2>2. CASE w[i] # s
    <3>1. PICK j \in DOMAIN q : w[i] = q[j]  BY <1>1, <2>2
    <3>2. q[j] \in S  OBVIOUS
    <3> QED  BY <3>1, <3>2, <2>2 DEF Shown
  <2> QED  BY <2>1, <2>2
<1> QED  BY <1>1, <1>2 DEF Shown, w

\* Mapping more hides nothing.
LEMMA ShownStays ==
    ASSUME NEW S, NEW q \in Seq(S), NEW f, NEW g, Shown(q, f),
           \A x \in S : f[x].mapped => g[x].mapped
    PROVE  Shown(q, g)
<1>1. ASSUME NEW i \in DOMAIN q PROVE q[i] \in S  OBVIOUS
<1> QED  BY <1>1 DEF Shown

\* The references stay enough when no binding changes.
LEMMA EnoughSame ==
    ASSUME NEW r, NEW f, NEW h, NEW g, NEW u, Enough(r, f, g, u),
           \A x \in Drawables : h[x].ahb = f[x].ahb
    PROVE  Enough(r, h, g, u)
<1>1. ASSUME NEW b \in Buffers PROVE Binding(h, b) = Binding(f, b)  BY DEF Binding
<1> QED  BY <1>1 DEF Enough

LEMMA PaintSet ==
    ASSUME NEW p \in Paint, NEW a \in BOOLEAN, NEW b \in {"scene", "moved", "stale"}
    PROVE  LET r == [p EXCEPT !.dirty = a, !.screen = b] IN
           r \in Paint /\ r.dirty = a /\ r.screen = b
  BY DEF Paint

\* A step that changes neither windows nor buffers nor the screen.
LEMMA QuietStep ==
    ASSUME ScreenInv, UNCHANGED <<all, state, stack, popups, full, gpu, refs, paint>>,
           thr' # "setup" \/ thr = "setup",
           InLoop' => InLoop \/ thr = "setup"
    PROVE  WindowsOK' /\ PaintOK' /\ RefsOK'
<1>1. WindowsOK'  BY DEF ScreenInv, WindowsOK
<1>2. PaintOK'  BY DEF ScreenInv, PaintOK, ScreenIsScene
<1>3. RefsOK'  BY DEF ScreenInv, RefsOK
<1> QED  BY <1>1, <1>2, <1>3

LEMMA QuietKeeps ==
    ASSUME ScreenInv,
           \/ Stop \/ Joined \/ Resize \/ Inject
           \/ \E p \in Producers : ReadInstance(p) \/ Wake(p)
           \/ Dispatch
           \/ LoopTest \/ ReadWakeup \/ DispatchDone
    PROVE  WindowsOK' /\ PaintOK' /\ RefsOK'
<1>1. UNCHANGED <<all, state, stack, popups, full, gpu, refs, paint>>
  BY DEF Stop, Joined, Resize, Inject, ReadInstance,
         Wake, Dispatch, LoopTest, ReadWakeup,
         DispatchDone, queues, windows, Others
<1>2. /\ thr' # "setup" \/ thr = "setup"
      /\ InLoop' => InLoop \/ thr = "setup"
  BY DEF Stop, Joined, Resize, Inject, ReadInstance,
         Wake, Dispatch, LoopTest, ReadWakeup,
         DispatchDone, Step, Others, InLoop
<1> QED  BY <1>1, <1>2, QuietStep

\* A step that changes what the screen shows and nothing it is made of.
LEMMA PaintStep ==
    ASSUME ScreenInv, UNCHANGED <<all, state, stack, popups, full, gpu, refs>>,
           paint' \in Paint, thr' = "setup" => paint'.screen = "scene",
           InLoop' /\ ~paint'.dirty => paint'.screen # "stale"
    PROVE  WindowsOK' /\ PaintOK' /\ RefsOK'
<1>1. WindowsOK'  BY DEF ScreenInv, WindowsOK
<1>2. PaintOK'  BY DEF PaintOK, ScreenIsScene
<1>3. RefsOK'  BY DEF ScreenInv, RefsOK
<1> QED  BY <1>1, <1>2, <1>3

LEMMA StartKeeps ==
    ASSUME ScreenInv, Start
    PROVE  WindowsOK' /\ PaintOK' /\ RefsOK'
<1>1. paint \in Paint  BY DEF ScreenInv, PaintOK
<1>2. paint' \in Paint /\ paint'.screen = "scene"
  BY <1>1 DEF Start, Paint
<1>3. UNCHANGED <<all, state, stack, popups, full, gpu, refs>>
  BY DEF Start, queues, windows
<1> QED  BY <1>2, <1>3, PaintStep

\* The loop starts on the blank screen, with a frame timer or without one.
LEMMA SetupKeeps ==
    ASSUME ScreenInv, Setup
    PROVE  WindowsOK' /\ PaintOK' /\ RefsOK'
<1>1. paint \in Paint /\ paint.screen = "scene" /\ thr' # "setup"
  BY DEF ScreenInv, PaintOK, Setup, Step
<1>2. PICK t \in Timers : paint' = [paint EXCEPT !.timer = t]  BY DEF Setup
<1>3. t \in BOOLEAN  BY PresentAssumption
<1>4. paint' \in Paint /\ paint'.screen = "scene"  BY <1>1, <1>2, <1>3 DEF Paint
<1>5. UNCHANGED <<all, state, stack, popups, full, gpu, refs>>
  BY DEF Setup, queues, windows
<1> QED  BY <1>1, <1>4, <1>5, PaintStep

LEMMA HandleTickKeeps ==
    ASSUME ScreenInv, HandleTick
    PROVE  WindowsOK' /\ PaintOK' /\ RefsOK'
<1> DEFINE draws == paint.dirty /\ ~Stopping
           a == paint.dirty /\ ~draws
           b == IF draws THEN "scene" ELSE paint.screen
<1>1. paint \in Paint /\ ScreenIsScene  BY DEF ScreenInv, PaintOK
<1>2. thr = "wait" /\ thr' = "test"  BY DEF HandleTick, Step
<1>3. InLoop  BY <1>2 DEF InLoop
<1>4. a \in BOOLEAN /\ b \in {"scene", "moved", "stale"}  BY <1>1 DEF Paint
<1>5. ~a => b # "stale"  BY <1>1, <1>3 DEF ScreenIsScene
<1>6. paint' = [paint EXCEPT !.frames = FALSE, !.dirty = a, !.screen = b]
  BY <1>1 DEF HandleTick, Paint
<1> HIDE DEF a, b
<1>7. paint' \in Paint /\ paint'.dirty = a /\ paint'.screen = b
  BY <1>1, <1>4, <1>6 DEF Paint
<1>8. UNCHANGED <<all, state, stack, popups, full, gpu, refs>>
  BY DEF HandleTick, queues, windows
<1> QED  BY <1>2, <1>5, <1>7, <1>8, PaintStep

LEMMA CommitFrameKeeps ==
    ASSUME ScreenInv, NEW s \in Drawables, CommitFrame(s)
    PROVE  WindowsOK' /\ PaintOK' /\ RefsOK'
<1>1. paint \in Paint /\ ScreenIsScene  BY DEF ScreenInv, PaintOK
<1>2. thr = "dispatch" /\ thr' = "dispatch"
  BY DEF CommitFrame, Dispatched, Step
<1>3. paint' \in Paint /\ paint'.dirty = paint.dirty /\ paint'.screen = paint.screen
  BY <1>1 DEF CommitFrame, Paint
<1>4. InLoop' /\ ~paint'.dirty => paint'.screen # "stale"
  BY <1>1, <1>2, <1>3 DEF ScreenIsScene, InLoop
<1>5. UNCHANGED <<all, state, stack, popups, full, gpu, refs>>
  BY DEF CommitFrame, Dispatched, queues, windows
<1> QED  BY <1>2, <1>3, <1>4, <1>5, PaintStep

\* What set_parent and the subsurface requests leave out of date is a position.
LEMMA RearrangeKeeps ==
    ASSUME ScreenInv, NEW s \in Drawables, Rearrange(s)
    PROVE  WindowsOK' /\ PaintOK' /\ RefsOK'
<1> DEFINE b == IF paint.screen = "scene" THEN "moved" ELSE paint.screen
<1>1. paint \in Paint /\ ScreenIsScene  BY DEF ScreenInv, PaintOK
<1>2. thr = "dispatch" /\ thr' = "dispatch"
  BY DEF Rearrange, Dispatched, Step
<1>3. b \in {"scene", "moved", "stale"}  BY <1>1 DEF Paint
<1>4. paint' = [paint EXCEPT !.screen = b]  BY <1>1 DEF Rearrange, Paint
<1>5. b = "stale" => paint.screen = "stale"  OBVIOUS
<1> HIDE DEF b
<1>6. paint' \in Paint /\ paint'.dirty = paint.dirty /\ paint'.screen = b
  BY <1>1, <1>3, <1>4 DEF Paint
<1>7. InLoop' /\ ~paint'.dirty => paint'.screen # "stale"
  BY <1>1, <1>2, <1>5, <1>6 DEF ScreenIsScene, InLoop
<1>8. UNCHANGED <<all, state, stack, popups, full, gpu, refs>>
  BY DEF Rearrange, Dispatched, queues, windows
<1> QED  BY <1>2, <1>6, <1>7, <1>8, PaintStep

\* alr_wayland_submit_gpu_frame takes the reference that the queue needs.
LEMMA SubmitKeeps ==
    ASSUME ScreenInv, NEW c \in Buffers, Submit(c)
    PROVE  WindowsOK' /\ PaintOK' /\ RefsOK'
<1>1. UNCHANGED <<all, state, stack, popups, full, paint, thr>>
  BY DEF Submit, windows
<1>2. WindowsOK'  BY <1>1 DEF ScreenInv, WindowsOK
<1>3. PaintOK'  BY <1>1 DEF ScreenInv, PaintOK, ScreenIsScene, InLoop
<1>4. /\ gpu \in Seq(Buffers) /\ full \in Buffers \cup {None} /\ refs \in [Buffers -> Nat]
      /\ Enough(refs, state, gpu, full)
  BY DEF ScreenInv, RefsOK
<1>5. gpu' = Append(gpu, c) /\ refs' = [refs EXCEPT ![c] = @ + 1]  BY DEF Submit
<1>6. gpu' \in Seq(Buffers) /\ refs' \in [Buffers -> Nat]  BY <1>4, <1>5
<1>7. ASSUME NEW b \in Buffers
      PROVE  refs'[b] >= Cardinality(Binding(state, b)) + Cardinality(Waiting(Append(gpu, c), b))
                           + (IF full = b THEN 1 ELSE 0)
  <2>1. Cardinality(Waiting(Append(gpu, c), b))
          = Cardinality(Waiting(gpu, b)) + (IF c = b THEN 1 ELSE 0)
    BY <1>4, Queued
  <2>2. refs'[b] = refs[b] + (IF c = b THEN 1 ELSE 0) /\ refs[b] \in Nat  BY <1>4, <1>5
  <2>3. Cardinality(Waiting(gpu, b)) \in Nat /\ Cardinality(Binding(state, b)) \in Nat
    BY <1>4, WaitingFinite, BindingFinite
  <2>4. refs[b] >= Cardinality(Binding(state, b)) + Cardinality(Waiting(gpu, b))
                     + (IF full = b THEN 1 ELSE 0)
    BY <1>4 DEF Enough
  <2> QED  BY <2>1, <2>2, <2>3, <2>4
<1>8. Enough(refs', state', gpu', full')  BY <1>1, <1>5, <1>7 DEF Enough
<1>9. RefsOK'  BY <1>1, <1>4, <1>6, <1>8 DEF RefsOK
<1> QED  BY <1>2, <1>3, <1>9

-----------------------------------------------------------------------------
(* The clients' requests                                                   *)

LEMMA CreateSurfaceAdds ==
    ASSUME ScreenInv, NEW s \in Drawables, CompositorCreateSurface(s)
    PROVE  WindowsOK' /\ PaintOK' /\ RefsOK'
<1>1. /\ UNCHANGED <<state, stack, popups, full, paint, refs, gpu>> /\ all' = Append(all, s)
      /\ thr = "dispatch" /\ thr' = "dispatch"
  BY DEF CompositorCreateSurface, Dispatched, Step, queues
<1>2. all \in Seq(Drawables) /\ Once(all)  BY DEF ScreenInv, WindowsOK
<1>3. \A i \in DOMAIN all : all[i] # s
  BY DEF CompositorCreateSurface, Exists, Elements
<1>4. all' \in Seq(Drawables)  BY <1>1, <1>2
<1>5. Once(all')
  <2>1. /\ DOMAIN all' = 1 .. Len(all) + 1 /\ DOMAIN all = 1 .. Len(all) /\ Len(all) \in Nat
        /\ all'[Len(all) + 1] = s /\ \A i \in DOMAIN all : all'[i] = all[i]
    BY <1>1, <1>2
  <2> QED  BY <1>2, <1>3, <2>1 DEF Once
<1>6. WindowsOK'  BY <1>1, <1>4, <1>5 DEF ScreenInv, WindowsOK
<1>7. PaintOK'  BY <1>1 DEF ScreenInv, PaintOK, ScreenIsScene, InLoop
<1>8. RefsOK'  BY <1>1 DEF ScreenInv, RefsOK
<1> QED  BY <1>6, <1>7, <1>8

LEMMA CommitBufferShows ==
    ASSUME ScreenInv, NEW s \in Drawables, CommitContent(s)
    PROVE  WindowsOK' /\ PaintOK' /\ RefsOK'
<1>1. /\ UNCHANGED <<all, full, refs, gpu>> /\ thr' = "dispatch"
      /\ state' = [state EXCEPT ![s].mapped = TRUE]
  BY DEF CommitContent, Dispatched, Step, queues
<1>2. /\ state \in [Drawables -> WindowState] /\ paint \in Paint
      /\ stack \in Seq(Windows) /\ popups \in Seq(Popups)
      /\ Shown(stack, state) /\ Shown(popups, state)
  BY DEF ScreenInv, WindowsOK, PaintOK
<1>3. /\ state' \in [Drawables -> WindowState] /\ state'[s].mapped
      /\ \A x \in Drawables : state'[x].ahb = state[x].ahb
      /\ \A x \in Drawables : x # s => state'[x].mapped = state[x].mapped
  <2>1. state' \in [Drawables -> WindowState]
    BY <1>1, <1>2 DEF WindowState
  <2>2. /\ state'[s] = [state[s] EXCEPT !.mapped = TRUE]
        /\ \A x \in Drawables : x # s => state'[x] = state[x]
    BY <1>1, <1>2
  <2>3. state'[s].mapped = TRUE /\ state'[s].ahb = state[s].ahb
    BY <1>2, <2>2 DEF WindowState
  <2> QED  BY <2>1, <2>2, <2>3
<1>4. Windows \subseteq Drawables /\ Popups \subseteq Drawables
  BY DEF Drawables
<1>5. Shown(stack, state') /\ Shown(popups, state')
  <2>1. \A x \in Drawables : state[x].mapped => state'[x].mapped  BY <1>3
  <2>2. \A x \in Windows : state[x].mapped => state'[x].mapped  BY <1>4, <2>1
  <2>3. \A x \in Popups : state[x].mapped => state'[x].mapped  BY <1>4, <2>1
  <2>4. Shown(stack, state')  BY <1>2, <2>2, ShownStays
  <2>5. Shown(popups, state')  BY <1>2, <2>3, ShownStays
  <2> QED  BY <2>4, <2>5
<1>6. stack' \in Seq(Windows) /\ Shown(stack', state')
  <2>1. CASE stack' = stack  BY <1>2, <1>5, <2>1
  <2>2. CASE stack' # stack
    <3>1. s \in Windows /\ stack' = Raise(stack, s)
      BY <2>2 DEF CommitContent
    <3>2. Raise(stack, s) \in Seq(Windows) /\ Shown(Raise(stack, s), state')
      BY <1>2, <1>3, <1>4, <3>1, ShownRaise
    <3> QED  BY <3>1, <3>2, SameStacks
  <2> QED  BY <2>1, <2>2
<1>7. popups' \in Seq(Popups) /\ Shown(popups', state')
  <2>1. CASE popups' = popups  BY <1>2, <1>5, <2>1
  <2>2. CASE popups' # popups
    <3>1. s \in Popups /\ popups' = Raise(popups, s)
      BY <2>2 DEF CommitContent
    <3>2. Raise(popups, s) \in Seq(Popups) /\ Shown(Raise(popups, s), state')
      BY <1>2, <1>3, <1>4, <3>1, ShownRaise
    <3> QED  BY <3>1, <3>2, SameStacks
  <2> QED  BY <2>1, <2>2
<1>8. WindowsOK'  BY <1>1, <1>3, <1>6, <1>7 DEF ScreenInv, WindowsOK
<1>9. paint' \in Paint /\ (paint'.dirty = TRUE \/ paint'.screen = "scene")
  <2>1. CASE paint.first
    <3> DEFINE b == IF TRUE \/ Scene' # Scene THEN "stale" ELSE paint.screen
    <3>1. b \in {"scene", "moved", "stale"}  OBVIOUS
    <3>2. paint' = [paint EXCEPT !.dirty = TRUE, !.screen = b]
      BY <1>2, <2>1 DEF CommitContent, Repaint, Paint
    <3> HIDE DEF b
    <3> QED  BY <1>2, <3>1, <3>2, PaintSet
  <2>2. CASE ~paint.first
    <3>1. paint' = [paint EXCEPT !.first = TRUE, !.dirty = FALSE, !.screen = "scene"]
      BY <2>2 DEF CommitContent
    <3> QED  BY <1>2, <3>1 DEF Paint
  <2> QED  BY <2>1, <2>2
<1>10. PaintOK'  BY <1>1, <1>9 DEF PaintOK, ScreenIsScene
<1>11. RefsOK'
  <2>1. Enough(refs, state', gpu, full)  BY <1>3, EnoughSame DEF ScreenInv, RefsOK
  <2> QED  BY <1>1, <2>1 DEF ScreenInv, RefsOK
<1> QED  BY <1>8, <1>10, <1>11

\* A surface that leaves the stacks.
LEMMA Unshown ==
    ASSUME ScreenInv, NEW s \in Drawables,
           state' \in [Drawables -> WindowState],
           \A x \in Drawables : x # s => state'[x].mapped = state[x].mapped,
           stack' = Without(stack, s), popups' = Without(popups, s),
           all' \in Seq(Drawables), Once(all')
    PROVE  WindowsOK'
<1>1. /\ stack \in Seq(Windows) /\ popups \in Seq(Popups)
      /\ Shown(stack, state) /\ Shown(popups, state)
  BY DEF ScreenInv, WindowsOK
<1>2. Windows \subseteq Drawables /\ Popups \subseteq Drawables
  BY DEF Drawables
<1>3. Without(stack, s) \in Seq(Windows) /\ Shown(Without(stack, s), state')
  BY <1>1, <1>2, ShownWithout
<1>4. Without(popups, s) \in Seq(Popups) /\ Shown(Without(popups, s), state')
  BY <1>1, <1>2, ShownWithout
<1>5. stack' = Without(stack, s) /\ popups' = Without(popups, s)  BY SameStacks
<1> QED  BY <1>3, <1>4, <1>5 DEF WindowsOK

LEMMA UnmapHides ==
    ASSUME ScreenInv, NEW s \in Drawables,
           CommitEmpty(s) \/ RoleDestroy(s)
    PROVE  WindowsOK' /\ PaintOK' /\ RefsOK'
<1>1. /\ UNCHANGED <<all, full, refs, gpu>> /\ thr' = "dispatch"
      /\ state' = [state EXCEPT ![s].mapped = FALSE]
      /\ stack' = Without(stack, s) /\ popups' = Without(popups, s)
      /\ Repaint(FALSE, TRUE)
  BY DEF CommitEmpty, RoleDestroy, Dispatched, Step, queues
<1>2. state \in [Drawables -> WindowState] /\ paint \in Paint
  BY DEF ScreenInv, WindowsOK, PaintOK
<1>3. /\ state' \in [Drawables -> WindowState]
      /\ \A x \in Drawables : state'[x].ahb = state[x].ahb
      /\ \A x \in Drawables : x # s => state'[x].mapped = state[x].mapped
  BY <1>1, <1>2 DEF WindowState
<1>4. WindowsOK'
  <2>1. all' \in Seq(Drawables) /\ Once(all')  BY <1>1 DEF ScreenInv, WindowsOK
  <2> QED  BY <1>1, <1>3, <2>1, Unshown
<1>5. paint' \in Paint /\ paint'.dirty = TRUE
  <2> DEFINE b == IF FALSE \/ Scene' # Scene THEN "stale" ELSE paint.screen
  <2>1. b \in {"scene", "moved", "stale"}  BY <1>2 DEF Paint
  <2>2. paint' = [paint EXCEPT !.dirty = TRUE, !.screen = b]
    BY <1>1, <1>2 DEF Repaint, Paint
  <2> HIDE DEF b
  <2> QED  BY <1>2, <2>1, <2>2, PaintSet
<1>6. PaintOK'  BY <1>1, <1>5 DEF PaintOK, ScreenIsScene
<1>7. RefsOK'
  <2>1. Enough(refs, state', gpu, full)  BY <1>3, EnoughSame DEF ScreenInv, RefsOK
  <2> QED  BY <1>1, <2>1 DEF ScreenInv, RefsOK
<1> QED  BY <1>4, <1>6, <1>7

\* Nothing on the screen depends on a surface that is not mapped.
LEMMA SceneWithout ==
    ASSUME ScreenInv, NEW s \in Drawables, ~state[s].mapped,
           stack' = stack, popups' = popups, full' = full,
           \A x \in Drawables : x # s => state'[x] = state[x]
    PROVE  Scene' = Scene
<1> DEFINE shown == {i \in DOMAIN popups : Anchor[popups[i]] \in Elements(stack)}
           W(f) == [i \in DOMAIN stack |-> <<stack[i], f[stack[i]].ahb>>]
           P(f) == [i \in shown |-> <<popups[i], f[popups[i]].ahb>>]
           last == IF stack = <<>> THEN full ELSE None
<1>1. Scene = <<W(state), P(state), last>>
  BY DEF Scene, Content
<1>2. Scene' = <<W(state'), P(state'), last>>
  BY DEF Scene, Content, Elements
<1>3. /\ \A i \in DOMAIN stack : stack[i] # s /\ stack[i] \in Drawables
      /\ \A i \in DOMAIN popups : popups[i] # s /\ popups[i] \in Drawables
  BY DEF ScreenInv, WindowsOK, Shown, Drawables
<1>4. W(state') = W(state)  BY <1>3
<1>5. P(state') = P(state)  BY <1>3
<1> QED  BY <1>1, <1>2, <1>4, <1>5

\* The references a buffer loses.
LEMMA ReleaseDoes ==
    ASSUME NEW r \in [Buffers -> Int], NEW u \in Buffers \cup {None}
    PROVE  /\ Release(r, u) \in [Buffers -> Int]
           /\ \A b \in Buffers :
                Release(r, u)[b] = r[b] - (IF u = b THEN 1 ELSE 0)
<1>1. None \notin Buffers  BY PresentAssumption
<1>2. CASE u = None  BY <1>1, <1>2 DEF Release
<1>3. CASE u # None
  <2>1. u \in Buffers /\ Release(r, u) = [r EXCEPT ![u] = @ - 1]
    BY <1>3 DEF Release
  <2> QED  BY <2>1
<1> QED  BY <1>2, <1>3

LEMMA SurfaceDestroyHides ==
    ASSUME ScreenInv, NEW s \in Drawables,
           SurfaceResourceDestroy(s)
    PROVE  WindowsOK' /\ PaintOK' /\ RefsOK'
<1>1. /\ UNCHANGED <<full, gpu>> /\ thr = "dispatch" /\ thr' = "dispatch"
      /\ all' = Without(all, s) /\ state' = [state EXCEPT ![s] = Fresh]
      /\ stack' = Without(stack, s) /\ popups' = Without(popups, s)
      /\ refs' = Release(refs, state[s].ahb)
      /\ Repaint(FALSE, state[s].mapped)
  BY DEF SurfaceResourceDestroy, Dispatched, Step, queues
<1>2. /\ state \in [Drawables -> WindowState] /\ paint \in Paint
      /\ all \in Seq(Drawables) /\ Once(all) /\ ScreenIsScene
      /\ stack \in Seq(Windows) /\ popups \in Seq(Popups)
      /\ Shown(stack, state) /\ Shown(popups, state)
      /\ gpu \in Seq(Buffers) /\ full \in Buffers \cup {None} /\ refs \in [Buffers -> Nat]
      /\ Enough(refs, state, gpu, full)
  BY DEF ScreenInv, WindowsOK, PaintOK, RefsOK
<1>3. Fresh \in WindowState /\ Fresh.ahb = None
  BY DEF Fresh, WindowState
<1>4. /\ state' \in [Drawables -> WindowState] /\ state'[s].ahb = None
      /\ \A x \in Drawables : x # s => state'[x] = state[x]
  BY <1>1, <1>2, <1>3
<1>5. all' \in Seq(Drawables) /\ Once(all')
  BY <1>1, <1>2, WithoutDoes, SameStacks
<1>6. WindowsOK'  BY <1>1, <1>4, <1>5, Unshown
<1>7. PaintOK'
  <2> DEFINE a == paint.dirty \/ state[s].mapped
             b == IF FALSE \/ Scene' # Scene THEN "stale" ELSE paint.screen
  <2>1. a \in BOOLEAN /\ b \in {"scene", "moved", "stale"}  BY <1>2 DEF Paint
  <2>2. paint' = [paint EXCEPT !.dirty = a, !.screen = b]
    BY <1>1, <1>2 DEF Repaint, Paint
  <2>3. ~a => b # "stale"
    <3> SUFFICES ASSUME ~a PROVE b # "stale"  OBVIOUS
    <3>1. ~state[s].mapped /\ paint.screen # "stale"
      BY <1>1, <1>2 DEF ScreenIsScene, InLoop
    <3>2. \A i \in DOMAIN stack : stack[i] # s  BY <1>2, <3>1 DEF Shown
    <3>3. \A i \in DOMAIN popups : popups[i] # s  BY <1>2, <3>1 DEF Shown
    <3>4. Without(stack, s) = stack  BY <1>2, <3>2, WithoutDoes DEF Shown
    <3>5. Without(popups, s) = popups  BY <1>2, <3>3, WithoutDoes DEF Shown
    <3>6. stack' = stack /\ popups' = popups /\ full' = full
      BY <1>1, <3>4, <3>5, SameStacks
    <3>7. Scene' = Scene  BY <1>4, <3>1, <3>6, SceneWithout
    <3> QED  BY <3>1, <3>7
  <2> HIDE DEF a, b
  <2>4. paint' \in Paint /\ paint'.dirty = a /\ paint'.screen = b
    BY <1>2, <2>1, <2>2 DEF Paint
  <2> QED  BY <1>1, <2>3, <2>4 DEF PaintOK, ScreenIsScene
<1>8. RefsOK'
  <2>1. state[s].ahb \in Buffers \cup {None} /\ refs \in [Buffers -> Int]
    BY <1>2 DEF WindowState
  <2>2. /\ refs' \in [Buffers -> Int]
        /\ \A b \in Buffers : refs'[b] = refs[b] - (IF state[s].ahb = b THEN 1 ELSE 0)
    BY <1>1, <2>1, ReleaseDoes
  <2>3. ASSUME NEW b \in Buffers
        PROVE  refs'[b] >= Cardinality(Binding(state', b)) + Cardinality(Waiting(gpu, b))
                             + (IF full = b THEN 1 ELSE 0)
    <3>1. Cardinality(Binding(state', b)) + (IF state[s].ahb = b THEN 1 ELSE 0)
            = Cardinality(Binding(state, b)) + (IF state'[s].ahb = b THEN 1 ELSE 0)
      BY <1>4, Rebound
    <3>2. state'[s].ahb # b  BY <1>4, PresentAssumption
    <3>3. refs[b] >= Cardinality(Binding(state, b)) + Cardinality(Waiting(gpu, b))
                       + (IF full = b THEN 1 ELSE 0)
      BY <1>2 DEF Enough
    <3>4. /\ Cardinality(Waiting(gpu, b)) \in Nat /\ Cardinality(Binding(state, b)) \in Nat
          /\ Cardinality(Binding(state', b)) \in Nat /\ refs[b] \in Int
      BY <1>2, WaitingFinite, BindingFinite
    <3> QED  BY <2>2, <3>1, <3>2, <3>3, <3>4
  <2>4. refs' \in [Buffers -> Nat]
    <3>1. ASSUME NEW b \in Buffers PROVE refs'[b] \in Nat
      <4>1. Cardinality(Waiting(gpu, b)) \in Nat /\ Cardinality(Binding(state', b)) \in Nat
        BY <1>2, WaitingFinite, BindingFinite
      <4> QED  BY <2>2, <2>3, <4>1
    <3> QED  BY <2>2, <3>1
  <2>5. Enough(refs', state', gpu', full')  BY <1>1, <2>3 DEF Enough
  <2> QED  BY <1>1, <1>2, <2>4, <2>5 DEF RefsOK
<1> QED  BY <1>6, <1>7, <1>8

-----------------------------------------------------------------------------
(* The reactor's drain                                                     *)

LEMMA FirstExists ==
    ASSUME NEW I \in SUBSET Nat, I # {}
    PROVE  \E i \in I : \A j \in I : i <= j
<1> DEFINE R == {p \in Nat \X Nat : p[1] < p[2]}
<1>1. OpToRel(<, Nat) = R  BY DEF OpToRel
<1>2. IsWellFoundedOn(R, Nat)  BY Zenon, <1>1, NatLessThanWellFounded
<1> HIDE DEF R
<1>3. PICK i \in I : \A j \in I : ~(<<j, i>> \in R)  BY <1>2, WFMin
<1>4. ASSUME NEW j \in I PROVE i <= j
  <2>1. ~(<<j, i>> \in R)  BY <1>3
  <2> QED  BY <2>1 DEF R
<1> QED  BY <1>4

LEMMA GpuTargetTyped ==
    ASSUME ScreenInv, NEW z \in Seq(Windows)
    PROVE  GpuTarget(z) \in Drawables \cup {None}
<1> DEFINE bound == {i \in DOMAIN all : state[all[i]].mapped /\ state[all[i]].ahb # None}
           first == CHOOSE i \in bound : \A j \in bound : i <= j
<1>1. all \in Seq(Drawables)  BY DEF ScreenInv, WindowsOK
<1>2. GpuTarget(z) = IF bound # {} THEN all[first]
                         ELSE IF z # <<>> THEN z[Len(z)] ELSE None
  BY DEF GpuTarget
<1>3. bound \in SUBSET Nat /\ bound \subseteq DOMAIN all  BY <1>1
<1>4. bound # {} => first \in bound
  <2> HIDE DEF bound
  <2> QED  BY <1>3, FirstExists
<1> HIDE DEF first, bound
<1>5. CASE bound # {}
  <2>1. first \in DOMAIN all  BY <1>3, <1>4, <1>5
  <2> QED  BY <1>1, <1>2, <1>5, <2>1
<1>6. CASE bound = {} /\ z # <<>>
  <2>1. z[Len(z)] \in Windows  BY <1>6
  <2> QED  BY <1>2, <1>6, <2>1 DEF Drawables
<1>7. CASE bound = {} /\ z = <<>>  BY <1>2, <1>7
<1> QED  BY <1>5, <1>6, <1>7

\* What draining the queue leaves of the references: the frames that are not
\* bound, the fullscreen buffer and what the target had are released.
LEMMA OlderReleased ==
    ASSUME ScreenInv, gpu # <<>>
    PROVE  /\ ReleaseOlder(refs) \in [Buffers -> Int]
           /\ \A b \in Buffers :
                ReleaseOlder(refs)[b]
                  = refs[b] - Cardinality(Waiting(gpu, b)) + (IF gpu[Len(gpu)] = b THEN 1 ELSE 0)
<1>1. gpu \in Seq(Buffers) /\ refs \in [Buffers -> Nat]  BY DEF ScreenInv, RefsOK
<1> DEFINE N(b) == Cardinality({i \in 1 .. Len(gpu) - 1 : gpu[i] = b})
           r == ReleaseOlder(refs)
<1>2. r = [b \in Buffers |-> refs[b] - Cardinality({i \in 1 .. Len(gpu) - 1 : gpu[i] = b})]
  BY Zenon DEF ReleaseOlder
<1>3. r = [b \in Buffers |-> refs[b] - N(b)]  BY <1>2, SameFiniteSets, Zenon
<1>4. ASSUME NEW b \in Buffers
      PROVE  /\ N(b) \in Nat
             /\ Cardinality(Waiting(gpu, b)) = N(b) + (IF gpu[Len(gpu)] = b THEN 1 ELSE 0)
  BY <1>1, LastQueued
<1> HIDE DEF N, r
<1>5. ASSUME NEW b \in Buffers
      PROVE  /\ r[b] \in Int
             /\ r[b] = refs[b] - Cardinality(Waiting(gpu, b))
                         + (IF gpu[Len(gpu)] = b THEN 1 ELSE 0)
  <2>1. r[b] = refs[b] - N(b) /\ refs[b] \in Nat  BY <1>1, <1>3
  <2> QED  BY <2>1, <1>4
<1>6. r \in [Buffers -> Int]  BY <1>3, <1>5
<1> QED  BY <1>5, <1>6 DEF r

LEMMA ReplaceDoes ==
    ASSUME NEW r \in [Buffers -> Int], NEW u \in Buffers \cup {None},
           NEW v \in Buffers
    PROVE  /\ Replace(r, u, v) \in [Buffers -> Int]
           /\ \A b \in Buffers :
                Replace(r, u, v)[b] >= r[b] - (IF u = b THEN 1 ELSE 0)
<1>1. CASE u = v
  <2>1. Replace(r, u, v) = r  BY <1>1 DEF Replace
  <2> QED  BY <1>1, <2>1
<1>2. CASE u # v
  <2>1. Replace(r, u, v) = Release(r, u)  BY <1>2 DEF Replace
  <2>2. /\ Release(r, u) \in [Buffers -> Int]
        /\ \A b \in Buffers : Release(r, u)[b] = r[b] - (IF u = b THEN 1 ELSE 0)
    BY ReleaseDoes
  <2> QED  BY <2>1, <2>2
<1> QED  BY <1>1, <1>2

\* References r that are enough for the new bindings, with nothing queued.
LEMMA DrainedEnough ==
    ASSUME NEW r \in [Buffers -> Int], NEW f, NEW u,
           \A b \in Buffers : r[b] >= Cardinality(Binding(f, b)) + (IF u = b THEN 1 ELSE 0)
    PROVE  r \in [Buffers -> Nat] /\ Enough(r, f, <<>>, u)
<1>1. ASSUME NEW b \in Buffers
      PROVE  /\ r[b] \in Nat
             /\ r[b] >= Cardinality(Binding(f, b)) + Cardinality(Waiting(<<>>, b))
                          + (IF u = b THEN 1 ELSE 0)
  <2>1. Waiting(<<>>, b) = {}  BY DEF Waiting
  <2>2. Cardinality(Waiting(<<>>, b)) = 0  BY <2>1, FS_EmptySet
  <2>3. Cardinality(Binding(f, b)) \in Nat  BY BindingFinite
  <2> QED  BY <2>2, <2>3
<1> QED  BY <1>1 DEF Enough

LEMMA DrainRebinds ==
    ASSUME ScreenInv, DrainGpu, gpu' = <<>>, stack' \in Seq(Windows)
    PROVE  /\ state' \in [Drawables -> WindowState]
           /\ \A x \in Drawables : state'[x].mapped = state[x].mapped
           /\ RefsOK'
<1>1. /\ state \in [Drawables -> WindowState]
      /\ gpu \in Seq(Buffers) /\ full \in Buffers \cup {None} /\ refs \in [Buffers -> Nat]
      /\ Enough(refs, state, gpu, full)
  BY DEF ScreenInv, WindowsOK, RefsOK
<1>2. CASE gpu = <<>>
  <2>1. state' = state /\ full' = full /\ refs' = refs  BY <1>2 DEF DrainGpu
  <2>2. RefsOK'  BY <1>1, <1>2, <2>1 DEF RefsOK
  <2> QED  BY <1>1, <2>1, <2>2
<1>3. CASE gpu # <<>>
  <2> DEFINE t == GpuTarget(stack')
             last == gpu[Len(gpu)]
             older == ReleaseOlder(refs)
  <2>1. last \in Buffers  BY <1>1, <1>3
  <2>2. IF t = None
          THEN full' = last /\ refs' = Replace(older, full, last) /\ UNCHANGED state
          ELSE /\ full' = None
               /\ refs' = Replace(Release(older, full), state[t].ahb, last)
               /\ state' = [state EXCEPT ![t].ahb = last]
    BY <1>3 DEF DrainGpu
  <2>3. t \in Drawables \cup {None}  BY GpuTargetTyped
  <2>4. older \in [Buffers -> Int]  BY <1>3, OlderReleased
  <2>5. \A b \in Buffers :
          older[b] = refs[b] - Cardinality(Waiting(gpu, b)) + (IF last = b THEN 1 ELSE 0)
    BY <1>3, OlderReleased
  <2> HIDE DEF t, last, older
  <2>6. ASSUME NEW b \in Buffers
        PROVE  /\ Cardinality(Binding(state, b)) \in Nat
               /\ older[b] >= Cardinality(Binding(state, b)) + (IF full = b THEN 1 ELSE 0)
                                + (IF last = b THEN 1 ELSE 0)
    <3>1. refs[b] >= Cardinality(Binding(state, b)) + Cardinality(Waiting(gpu, b))
                       + (IF full = b THEN 1 ELSE 0)
      BY <1>1 DEF Enough
    <3>2. /\ Cardinality(Binding(state, b)) \in Nat /\ Cardinality(Waiting(gpu, b)) \in Nat
          /\ refs[b] \in Nat
      BY <1>1, BindingFinite, WaitingFinite
    <3> QED  BY <2>5, <3>1, <3>2
  <2>7. CASE t = None
    <3>1. state' = state /\ full' = last /\ refs' = Replace(older, full, last)
      BY <2>2, <2>7
    <3>2. /\ refs' \in [Buffers -> Int]
          /\ \A b \in Buffers : refs'[b] >= older[b] - (IF full = b THEN 1 ELSE 0)
      BY <1>1, <2>1, <2>4, <3>1, ReplaceDoes
    <3>3. ASSUME NEW b \in Buffers
          PROVE  refs'[b] >= Cardinality(Binding(state', b)) + (IF full' = b THEN 1 ELSE 0)
      <4>1. refs'[b] \in Int /\ older[b] \in Int  BY <2>4, <3>2
      <4> QED  BY <2>6, <3>1, <3>2, <4>1
    <3>4. refs' \in [Buffers -> Nat] /\ Enough(refs', state', <<>>, full')
      BY <3>2, <3>3, DrainedEnough
    <3>5. RefsOK'  BY <2>1, <3>1, <3>4 DEF RefsOK
    <3> QED  BY <1>1, <3>1, <3>5
  <2>8. CASE t # None
    <3> DEFINE mid == Release(older, full)
               old == state[t].ahb
    <3>1. /\ t \in Drawables /\ full' = None /\ refs' = Replace(mid, old, last)
          /\ state' = [state EXCEPT ![t].ahb = last]
      BY <2>2, <2>3, <2>8
    <3>2. old \in Buffers \cup {None}  BY <1>1, <3>1 DEF WindowState
    <3>3. /\ mid \in [Buffers -> Int]
          /\ \A b \in Buffers : mid[b] = older[b] - (IF full = b THEN 1 ELSE 0)
      BY <1>1, <2>4, ReleaseDoes
    <3> HIDE DEF mid
    <3>4. /\ refs' \in [Buffers -> Int]
          /\ \A b \in Buffers : refs'[b] >= mid[b] - (IF old = b THEN 1 ELSE 0)
      BY <2>1, <3>1, <3>2, <3>3, ReplaceDoes
    <3>5. state' \in [Drawables -> WindowState]
      BY <1>1, <2>1, <3>1 DEF WindowState
    <3>6. /\ state'[t] = [state[t] EXCEPT !.ahb = last]
          /\ \A x \in Drawables : x # t => state'[x] = state[x]
      BY <1>1, <3>1
    <3>7. state'[t].ahb = last /\ state'[t].mapped = state[t].mapped
      BY <1>1, <3>1, <3>6 DEF WindowState
    <3>8. ASSUME NEW b \in Buffers
          PROVE  refs'[b] >= Cardinality(Binding(state', b)) + (IF full' = b THEN 1 ELSE 0)
      <4>1. Cardinality(Binding(state', b)) + (IF old = b THEN 1 ELSE 0)
              = Cardinality(Binding(state, b)) + (IF state'[t].ahb = b THEN 1 ELSE 0)
        <5>1. \A x \in Drawables : x # t => state'[x].ahb = state[x].ahb  BY <3>6
        <5>2. ASSUME NEW y \in Drawables,
                     \A x \in Drawables : x # y => state'[x].ahb = state[x].ahb
              PROVE  Cardinality(Binding(state', b)) + (IF state[y].ahb = b THEN 1 ELSE 0)
                       = Cardinality(Binding(state, b)) + (IF state'[y].ahb = b THEN 1 ELSE 0)
          BY <5>2, <3>5, Rebound
        <5> QED  BY <3>1, <5>1, <5>2
      <4>2. full' # b  BY <3>1, PresentAssumption
      <4>3. /\ refs'[b] \in Int /\ older[b] \in Int /\ mid[b] \in Int
            /\ Cardinality(Binding(state', b)) \in Nat
        BY <2>4, <3>3, <3>4, BindingFinite
      <4> HIDE DEF old
      <4> QED  BY <2>6, <3>3, <3>4, <3>7, <4>1, <4>2, <4>3
    <3>9. refs' \in [Buffers -> Nat] /\ Enough(refs', state', <<>>, full')
      BY <3>4, <3>8, DrainedEnough
    <3>10. RefsOK'  BY <3>1, <3>9 DEF RefsOK
    <3> QED  BY <3>5, <3>6, <3>7, <3>10
  <2> QED  BY <2>7, <2>8
<1> QED  BY <1>2, <1>3

LEMMA DrainKeeps ==
    ASSUME ScreenInv, Drain
    PROVE  WindowsOK' /\ PaintOK' /\ RefsOK'
<1>1. /\ UNCHANGED <<all, popups>> /\ gpu' = <<>> /\ thr = "drain" /\ thr' = "test"
      /\ DrainGpu
      /\ Repaint(resize \/ gpu # <<>>, resize \/ stack' # stack \/ gpu # <<>>)
      /\ stack' \in {stack} \cup {Raise(stack, w) : w \in Elements(stack)}
  BY DEF Drain, Step
<1>2. /\ all \in Seq(Drawables) /\ Once(all) /\ paint \in Paint
      /\ stack \in Seq(Windows) /\ popups \in Seq(Popups) /\ ScreenIsScene
      /\ Shown(stack, state) /\ Shown(popups, state)
  BY DEF ScreenInv, WindowsOK, PaintOK
<1>0. stack' \in Seq(Windows)
  <2>1. CASE stack' = stack  BY <1>2, <2>1
  <2>2. CASE stack' # stack
    <3>1. PICK w \in Elements(stack) : stack' = Raise(stack, w)  BY <1>1, <2>2
    <3>2. PICK i \in DOMAIN stack : w = stack[i]  BY DEF Elements
    <3>3. w \in Windows /\ state[w].mapped  BY <1>2, <3>2 DEF Shown
    <3>4. Raise(stack, w) \in Seq(Windows)  BY <1>2, <3>3, ShownRaise
    <3> QED  BY <3>1, <3>4, SameStacks
  <2> QED  BY <2>1, <2>2
<1>3. /\ state' \in [Drawables -> WindowState]
      /\ \A x \in Drawables : state'[x].mapped = state[x].mapped
      /\ RefsOK'
  BY <1>0, <1>1, DrainRebinds
<1>4. /\ \A x \in Windows : state'[x].mapped = state[x].mapped
      /\ \A x \in Popups : state'[x].mapped = state[x].mapped
  BY <1>3 DEF Drawables
<1>5. Shown(stack, state') /\ Shown(popups, state')
  <2>1. Shown(stack, state')
    <3>1. \A x \in Windows : state[x].mapped => state'[x].mapped  BY <1>4
    <3> QED  BY <1>2, <3>1, ShownStays
  <2>2. Shown(popups, state')
    <3>1. \A x \in Popups : state[x].mapped => state'[x].mapped  BY <1>4
    <3> QED  BY <1>2, <3>1, ShownStays
  <2> QED  BY <2>1, <2>2
<1>6. stack' \in Seq(Windows) /\ Shown(stack', state')
  <2>1. CASE stack' = stack  BY <1>2, <1>5, <2>1
  <2>2. CASE stack' # stack
    <3>1. PICK w \in Elements(stack) : stack' = Raise(stack, w)  BY <1>1, <2>2
    <3>2. PICK i \in DOMAIN stack : w = stack[i]  BY DEF Elements
    <3>3. w \in Windows /\ state'[w].mapped  BY <1>2, <1>5, <3>2 DEF Shown
    <3>4. Raise(stack, w) \in Seq(Windows) /\ Shown(Raise(stack, w), state')
      BY <1>2, <1>4, <3>3, ShownRaise
    <3> QED  BY <3>1, <3>4, SameStacks
  <2> QED  BY <2>1, <2>2
<1>7. WindowsOK'  BY <1>1, <1>2, <1>3, <1>5, <1>6 DEF WindowsOK
<1>8. PaintOK'
  <2> DEFINE a == paint.dirty \/ (resize \/ stack' # stack \/ gpu # <<>>)
             b == IF (resize \/ gpu # <<>>) \/ Scene' # Scene
                    THEN "stale" ELSE paint.screen
  <2>1. a \in BOOLEAN /\ b \in {"scene", "moved", "stale"}  BY <1>2 DEF Paint
  <2>2. paint' = [paint EXCEPT !.dirty = a, !.screen = b]
    BY <1>1, <1>2 DEF Repaint, Paint
  <2>3. ~a => b # "stale"
    <3> SUFFICES ASSUME ~a PROVE b # "stale"  OBVIOUS
    <3>1. ~paint.dirty /\ ~resize /\ stack' = stack /\ gpu = <<>>  OBVIOUS
    <3>2. state' = state /\ full' = full  BY <1>1, <3>1 DEF DrainGpu
    <3>3. Scene' = Scene
      BY <1>1, <3>1, <3>2 DEF Scene, Content, Elements
    <3>4. paint.screen # "stale"  BY <1>1, <1>2, <3>1 DEF ScreenIsScene, InLoop
    <3> QED  BY <3>1, <3>3, <3>4
  <2> HIDE DEF a, b
  <2>4. paint' \in Paint /\ paint'.dirty = a /\ paint'.screen = b
    BY <1>2, <2>1, <2>2 DEF Paint
  <2> QED  BY <1>1, <2>3, <2>4 DEF PaintOK, ScreenIsScene
<1> QED  BY <1>3, <1>7, <1>8

\* teardown drops every binding; what is queued stays for the next start.
LEMMA TeardownKeeps ==
    ASSUME ScreenInv, Teardown
    PROVE  WindowsOK' /\ PaintOK' /\ RefsOK'
<1>1. /\ all' = <<>> /\ stack' = <<>> /\ popups' = <<>> /\ full' = None /\ gpu' = gpu
      /\ state' = [s \in Drawables |-> Fresh] /\ thr' = "exited"
  BY DEF Teardown, Step
<1>2. /\ gpu \in Seq(Buffers) /\ full \in Buffers \cup {None} /\ refs \in [Buffers -> Nat]
      /\ Enough(refs, state, gpu, full) /\ paint \in Paint
  BY DEF ScreenInv, RefsOK, PaintOK
<1>3. Fresh \in WindowState /\ Fresh.ahb = None
  BY DEF Fresh, WindowState
<1>4. WindowsOK'
  <2>1. Once(<<>>) /\ Shown(<<>>, state')  BY DEF Once, Shown
  <2> QED  BY <1>1, <1>3, <2>1 DEF WindowsOK
<1>5. PaintOK'
  <2> DEFINE a == \E s \in Drawables : state[s].mapped
  <2>1. a \in BOOLEAN  OBVIOUS
  <2>2. paint' = [paint EXCEPT !.frames = FALSE, !.first = FALSE, !.dirty = a]
    BY DEF Teardown
  <2> HIDE DEF a
  <2>3. paint' \in Paint  BY <1>2, <2>1, <2>2 DEF Paint
  <2> QED  BY <1>1, <2>3 DEF PaintOK, ScreenIsScene, InLoop
<1>6. RefsOK'
  <2>1. refs' = [b \in Buffers |-> refs[b] - Cardinality(Binding(state, b))
                                     - (IF full = b THEN 1 ELSE 0)]
    <3>1. refs' = [b \in Buffers |->
                     refs[b] - Cardinality({s \in Drawables : state[s].ahb = b})
                             - (IF full = b THEN 1 ELSE 0)]
      BY Zenon DEF Teardown
    <3>2. refs' = [b \in Buffers |-> refs[b] - Cardinality(Binding(state, b))
                                       - (IF full = b THEN 1 ELSE 0)]
      BY <3>1, Zenon DEF Binding
    <3> QED  BY <3>2, SameFiniteSets, Zenon
  <2>2. ASSUME NEW b \in Buffers
        PROVE  /\ refs'[b] \in Nat
               /\ refs'[b] >= Cardinality(Binding(state', b)) + Cardinality(Waiting(gpu, b))
                                + (IF None = b THEN 1 ELSE 0)
    <3>1. None # b  BY PresentAssumption
    <3>2. Binding(state', b) = {}  BY <1>1, <1>3, <3>1 DEF Binding
    <3>3. Cardinality(Binding(state', b)) = 0  BY <3>2, FS_EmptySet
    <3>4. refs[b] >= Cardinality(Binding(state, b)) + Cardinality(Waiting(gpu, b))
                       + (IF full = b THEN 1 ELSE 0)
      BY <1>2 DEF Enough
    <3>5. /\ Cardinality(Waiting(gpu, b)) \in Nat /\ Cardinality(Binding(state, b)) \in Nat
          /\ refs[b] \in Nat
      BY <1>2, WaitingFinite, BindingFinite
    <3>6. refs'[b] = refs[b] - Cardinality(Binding(state, b)) - (IF full = b THEN 1 ELSE 0)
      BY <2>1
    <3> QED  BY <3>1, <3>3, <3>4, <3>5, <3>6
  <2>3. refs' \in [Buffers -> Nat]  BY <2>1, <2>2
  <2>4. Enough(refs', state', gpu', full')  BY <1>1, <2>2 DEF Enough
  <2> QED  BY <1>1, <1>2, <2>3, <2>4 DEF RefsOK
<1> QED  BY <1>4, <1>5, <1>6

-----------------------------------------------------------------------------
(* The screen's invariant                                                  *)

LEMMA ScreenStarts ==
    ASSUME ScreenInit
    PROVE  ScreenInv
<1>1. ControlOK
  <2>1. /\ app = "none" /\ thr = "off" /\ inject = 0 /\ starts = 0
        /\ producer = [p \in Producers |-> "idle"]
    BY DEF ScreenInit
  <2>2. wakeup \in BOOLEAN /\ resize \in BOOLEAN  BY DEF ScreenInit
  <2>3. MaxQueue \in Nat /\ MaxStarts \in Nat  BY PresentAssumption
  <2> QED  BY <2>1, <2>2, <2>3 DEF ControlOK
<1>2. Fresh \in WindowState /\ Fresh.ahb = None
  BY DEF Fresh, WindowState
<1>3. WindowsOK
  <2>1. Once(<<>>) /\ Shown(<<>>, state)  BY DEF Once, Shown
  <2> QED  BY <1>2, <2>1 DEF WindowsOK, ScreenInit
<1>4. PaintOK
  BY DEF PaintOK, ScreenInit, Paint, ScreenIsScene
<1>5. RefsOK
  <2>1. gpu = <<>> /\ full = None /\ refs = [b \in Buffers |-> 0]  BY DEF ScreenInit
  <2>2. refs \in [Buffers -> Int]  BY <2>1
  <2>3. ASSUME NEW b \in Buffers
        PROVE  refs[b] >= Cardinality(Binding(state, b)) + (IF full = b THEN 1 ELSE 0)
    <3>1. None # b  BY PresentAssumption
    <3>2. Binding(state, b) = {}  BY <1>2, <3>1 DEF Binding, ScreenInit
    <3>3. Cardinality(Binding(state, b)) = 0  BY <3>2, FS_EmptySet
    <3> QED  BY <2>1, <3>1, <3>3
  <2>4. refs \in [Buffers -> Nat] /\ Enough(refs, state, <<>>, full)
    BY <2>2, <2>3, DrainedEnough
  <2> QED  BY <2>1, <2>4 DEF RefsOK
<1> QED  BY <1>1, <1>3, <1>4, <1>5 DEF ScreenInv

LEMMA ControlStep ==
    ASSUME ControlOK, ScreenNext
    PROVE  ControlOK'
<1> USE DEF ControlOK
<1>0. MaxQueue \in Nat /\ MaxStarts \in Nat /\ InLoop \in BOOLEAN
  BY PresentAssumption DEF InLoop
<1>1. CASE Start \/ Stop \/ Joined \/ Resize
  <2>1. CASE Start  BY <1>0, <2>1 DEF Start, queues
  <2>2. CASE Stop  BY <1>0, <2>2 DEF Stop, queues
  <2>3. CASE Joined  BY <2>3 DEF Joined, queues
  <2>4. CASE Resize  BY <1>0, <2>4 DEF Resize
  <2> QED  BY <1>1, <2>1, <2>2, <2>3, <2>4
<1>2. CASE Inject \/ \E b \in Buffers : Submit(b)
  BY <1>2, PresentAssumption DEF Inject, Submit, Producers
<1>3. CASE \E p \in Producers : ReadInstance(p) \/ Wake(p)
  BY <1>3 DEF ReadInstance, Wake, queues, InLoop
<1>4. CASE Setup \/ Teardown \/ Dispatch
  BY <1>4 DEF Setup, Teardown, Dispatch, Step, Others,
              queues
<1>5. CASE Reactor
  <2>1. CASE Drain
    <3>1. inject' = 0 /\ resize' \in BOOLEAN /\ thr' = "test" /\ wakeup' = wakeup
      BY <2>1 DEF Drain, Step
    <3>2. app' = app /\ producer' = producer /\ starts' = starts
      BY <2>1 DEF Drain, Others
    <3> QED  BY <1>0, <3>1, <3>2
  <2>2. CASE LoopTest \/ ReadWakeup \/ DispatchDone
    BY <2>2 DEF LoopTest, ReadWakeup, DispatchDone, Step,
                Others, queues
  <2>3. CASE HandleTick
    BY <2>3 DEF HandleTick, Step, Others, queues
  <2> QED  BY <1>5, <2>1, <2>2, <2>3 DEF Reactor
<1>6. CASE \E s \in Drawables : ClientRequest(s)
  <2>1. PICK s \in Drawables : ClientRequest(s)  BY <1>6
  <2>2. Dispatched
    BY <2>1 DEF ClientRequest, CompositorCreateSurface, CommitContent,
                CommitEmpty, CommitFrame, Rearrange, RoleDestroy,
                SurfaceResourceDestroy
  <2> QED  BY <2>2 DEF Dispatched, Step, Others, queues
<1> QED  BY <1>1, <1>2, <1>3, <1>4, <1>5, <1>6 DEF ScreenNext

LEMMA ScreenSteps ==
    ASSUME ScreenInv, [ScreenNext]_screenVars
    PROVE  ScreenInv'
<1>1. CASE ScreenNext
  <2>1. ControlOK'  BY <1>1, ControlStep DEF ScreenInv
  <2>2. CASE Start  BY <2>1, <2>2, StartKeeps DEF ScreenInv
  <2>3. CASE \/ Stop \/ Joined \/ Resize \/ Inject
             \/ \E p \in Producers : ReadInstance(p) \/ Wake(p)
             \/ Dispatch
             \/ LoopTest \/ ReadWakeup \/ DispatchDone
    BY <2>1, <2>3, QuietKeeps DEF ScreenInv
  <2>4. CASE \E b \in Buffers : Submit(b)
    BY <2>1, <2>4, SubmitKeeps DEF ScreenInv
  <2>5. CASE Teardown  BY <2>1, <2>5, TeardownKeeps DEF ScreenInv
  <2>6. CASE Drain  BY <2>1, <2>6, DrainKeeps DEF ScreenInv
  <2>7. CASE HandleTick  BY <2>1, <2>7, HandleTickKeeps DEF ScreenInv
  <2>9. CASE Setup  BY <2>1, <2>9, SetupKeeps DEF ScreenInv
  <2>8. CASE \E s \in Drawables : ClientRequest(s)
    <3>1. PICK s \in Drawables : ClientRequest(s)  BY <2>8
    <3>2. WindowsOK' /\ PaintOK' /\ RefsOK'
      <4>1. CASE CompositorCreateSurface(s)  BY <4>1, CreateSurfaceAdds
      <4>2. CASE CommitContent(s)  BY <4>2, CommitBufferShows
      <4>3. CASE CommitEmpty(s) \/ RoleDestroy(s)  BY <4>3, UnmapHides
      <4>4. CASE CommitFrame(s)  BY <4>4, CommitFrameKeeps
      <4>6. CASE Rearrange(s)  BY <4>6, RearrangeKeeps
      <4>5. CASE SurfaceResourceDestroy(s)  BY <4>5, SurfaceDestroyHides
      <4> QED  BY <3>1, <4>1, <4>2, <4>3, <4>4, <4>5, <4>6 DEF ClientRequest
    <3> QED  BY <2>1, <3>2 DEF ScreenInv
  <2> QED
    BY <1>1, <2>2, <2>3, <2>4, <2>5, <2>6, <2>7, <2>8, <2>9 DEF ScreenNext, Reactor
<1>2. CASE UNCHANGED screenVars
  <2>1. /\ UNCHANGED <<all, state, stack, popups, full, gpu, refs, paint>>
        /\ UNCHANGED <<app, thr, wakeup, producer, inject, resize, starts>>
    BY <1>2 DEF screenVars, queues, windows
  <2>2. ControlOK'  BY <2>1 DEF ScreenInv, ControlOK
  <2>3. thr' # "setup" \/ thr = "setup"  BY <2>1
  <2>4. InLoop' => InLoop \/ thr = "setup"  BY <2>1 DEF InLoop
  <2> QED  BY <2>1, <2>2, <2>3, <2>4, QuietStep DEF ScreenInv
<1> QED  BY <1>1, <1>2

\* The inductive invariant of the presenting compositor: every stack shows mapped
\* surfaces once, a screen that is out of date by more than the positions set_parent
\* and the subsurface requests change is marked dirty, and the
\* references to a buffer cover every place that names it.
THEOREM ScreenInvariant == ScreenSpec => []ScreenInv
<1>1. ScreenInit => ScreenInv  BY ScreenStarts
<1>2. ScreenInv /\ [ScreenNext]_screenVars => ScreenInv'  BY ScreenSteps
<1> QED  BY <1>1, <1>2, PTL DEF ScreenSpec

\* What is not marked dirty is on the screen, for any windows, popups and buffers,
\* but for the positions that set_parent, get_subsurface and set_position change: no
\* commit, unmap, destruction, input event, GPU frame or resize changes the scene
\* without marking it (g_scene_dirty).
THEOREM ScreenShowsScene == ScreenSpec => []ScreenIsScene
<1>1. ScreenInv => ScreenIsScene  BY DEF ScreenInv, PaintOK
<1> QED  BY <1>1, ScreenInvariant, PTL

\* A buffer that a surface, the fullscreen slot or the queue names is referenced at
\* least as often as it is named, whatever drain_gpu_queue rebinds and across
\* teardown and restart (AHardwareBuffer_acquire and _release).
THEOREM BuffersHeld == ScreenSpec => []HeldBuffersReferenced
<1>1. ScreenInv => HeldBuffersReferenced  BY EnoughIsHeld DEF ScreenInv, RefsOK
<1> QED  BY <1>1, ScreenInvariant, PTL

=============================================================================
