----------------------------- MODULE PulseServer -----------------------------
(***************************************************************************)
(* The in-app PulseAudio server (alr_audio/alr_pulse_server.cpp): an epoll  *)
(* thread that owns the clients, the realtime AAudio callback that pulls    *)
(* from the streams' rings, and the app that starts and stops them.         *)
(*                                                                         *)
(* A frame of the protocol is one message; a frame that has not arrived     *)
(* completely is still in the client's hands.  PCM is counted in blocks,    *)
(* numbered by the client as it writes them; sample formats, resampling     *)
(* and the tag encoding carry no state the protocol depends on.  The mutex  *)
(* makes each handled frame and each mixing one step; only stop keeps it    *)
(* over a call that may wait.  A client connects once and creates at most   *)
(* one stream.  Clients besides Clients are known by what they can do to    *)
(* them: wake the epoll thread, and delete their streams.                   *)
(***************************************************************************)
EXTENDS Naturals, Sequences

CONSTANTS
    Clients,    \* libpulse clients
    RingFrames, \* capacity of a stream's ring
    TLength,    \* tlength: the credit of a new stream
    MinReq,     \* minreq: the credit a data frame earns
    SockCap,    \* what a client's socket holds before send() would block
    CloseWaits, \* AAudio's stop and close wait for a callback under way
    MaxTags,    \* bound: control requests per client
    MaxBlocks   \* bound: data frames per client

ASSUME PulseAssumption ==
    /\ RingFrames \in Nat \ {0} /\ SockCap \in Nat \ {0}
    /\ TLength \in Nat /\ MinReq \in Nat /\ MaxTags \in Nat /\ MaxBlocks \in Nat
    /\ CloseWaits \in BOOLEAN /\ {"listen", "wakeup"} \cap Clients = {}

VARIABLES
    ctl,        \* the app: "off", "on", and the steps of alr_audio_sink_stop
    thread,     \* the epoll thread: "none", "run", "done"
    stopRequested, wakeup,
    pc, todo, cur,  \* the epoll thread: its place, events left, client served
    known,      \* the fds in g_server.clients
    mixed,      \* the clients whose stream is in mix_streams
    aaudio,     \* the output stream is open
    cb,         \* its callback: "idle", or "locking": waiting for the mutex
    rbuf, wbuf, stream, \* of each Client
    peer, c2s, s2c,     \* the clients and their sockets (external)
    \* what the properties observe
    robbed      \* the clients whose stream a DELETE of another client has taken out

control == <<ctl, thread, stopRequested, wakeup>>
loop    == <<pc, todo, cur>>
pcm     == <<mixed, aaudio, cb, stream, robbed>>
serverVars == <<control, loop, known, pcm, rbuf, wbuf, peer, c2s, s2c>>

NoStream == [live |-> FALSE, corked |-> FALSE, started |-> FALSE,
             ring |-> [i \in 0 .. RingFrames - 1 |-> 0], head |-> 0, tail |-> 0, fill |-> 0]
Streams == [live : BOOLEAN, corked : BOOLEAN, started : BOOLEAN,
            ring : [0 .. RingFrames - 1 -> 0 .. MaxBlocks],
            head : 0 .. RingFrames - 1, tail : 0 .. RingFrames - 1, fill : 0 .. RingFrames]
Requests == {"create", "delete", "cork", "flush", "query"}
Frames   == [kind : Requests \cup {"data", "bad"}, n : Nat]     \* n: tag or block
Messages == [kind : {"reply", "created", "request", "started"}, n : Nat]
Events   == (Clients \cup {"listen", "wakeup"}) \X BOOLEAN      \* fd, EPOLLHUP

ServerTypeOK ==
    /\ ctl \in {"off", "on", "wake", "join", "close"} /\ thread \in {"none", "run", "done"}
    /\ stopRequested \in BOOLEAN /\ wakeup \in BOOLEAN /\ aaudio \in BOOLEAN
    /\ cb \in {"idle", "locking"} /\ robbed \subseteq Clients
    /\ pc \in {"test", "wait", "event", "frames"} /\ todo \in SUBSET Events /\ cur \in Clients
    /\ known \subseteq Clients /\ mixed \subseteq Clients
    /\ peer \in [Clients -> [state : {"new", "pending", "open", "shut", "gone"},
                             tags : 0 .. MaxTags, acked : 0 .. MaxTags,
                             blocks : 0 .. MaxBlocks, credit : Nat, created : BOOLEAN]]
    /\ stream \in [Clients -> Streams]
    /\ rbuf \in [Clients -> Seq(Frames)] /\ c2s \in [Clients -> Seq(Frames)]
    /\ wbuf \in [Clients -> Seq(Messages)] /\ s2c \in [Clients -> Seq(Messages)]
    /\ \A c \in Clients : Len(s2c[c]) <= SockCap

ServerInit ==
    /\ ctl = "off" /\ thread = "none" /\ stopRequested = FALSE /\ wakeup = FALSE
    /\ pc = "test" /\ todo = {} /\ cur = CHOOSE c \in Clients : TRUE
    /\ known = {} /\ mixed = {} /\ aaudio = FALSE /\ cb = "idle" /\ robbed = {}
    /\ stream = [c \in Clients |-> NoStream]
    /\ rbuf = [c \in Clients |-> <<>>] /\ wbuf = rbuf /\ c2s = rbuf /\ s2c = rbuf
    /\ peer = [c \in Clients |-> [state |-> "new", tags |-> 0, acked |-> 0, blocks |-> 0,
                                  credit |-> 0, created |-> FALSE]]

-----------------------------------------------------------------------------
(* The clients: libpulse sends data only within the credit it was granted.  *)
Connect(c) ==
    /\ peer[c].state = "new" /\ ctl = "on"
    /\ peer' = [peer EXCEPT ![c].state = "pending"]
    /\ UNCHANGED <<control, loop, known, pcm, rbuf, wbuf, c2s, s2c>>

SendRequest(c, kind) ==
    /\ peer[c].state \in {"pending", "open"} /\ peer[c].tags < MaxTags
    /\ kind = "create" => ~peer[c].created
    /\ peer' = [peer EXCEPT ![c].tags = @ + 1, ![c].created = @ \/ kind = "create"]
    /\ c2s' = [c2s EXCEPT ![c] = Append(@, [kind |-> kind, n |-> peer[c].tags + 1])]
    /\ UNCHANGED <<control, loop, known, pcm, rbuf, wbuf, s2c>>

SendData(c) ==
    /\ peer[c].state = "open" /\ peer[c].blocks < MaxBlocks /\ peer[c].credit > 0
    /\ peer' = [peer EXCEPT ![c].blocks = @ + 1, ![c].credit = @ - 1]
    /\ c2s' = [c2s EXCEPT ![c] = Append(@, [kind |-> "data", n |-> peer[c].blocks + 1])]
    /\ UNCHANGED <<control, loop, known, pcm, rbuf, wbuf, s2c>>

SendOversized(c) ==
    /\ peer[c].state = "open" /\ c2s[c] = <<>>
    /\ c2s' = [c2s EXCEPT ![c] = <<[kind |-> "bad", n |-> 0]>>]
    /\ UNCHANGED <<control, loop, known, pcm, rbuf, wbuf, peer, s2c>>

Receive(c) ==
    /\ peer[c].state = "open" /\ s2c[c] # <<>>
    /\ LET m == Head(s2c[c])
           answers == m.kind \in {"reply", "created"}
           grant == IF m.kind = "request" THEN m.n ELSE IF m.kind = "created" THEN TLength ELSE 0
       IN peer' = [peer EXCEPT ![c].acked = IF answers THEN m.n ELSE @, ![c].credit = @ + grant]
    /\ s2c' = [s2c EXCEPT ![c] = Tail(@)]
    /\ UNCHANGED <<control, loop, known, pcm, rbuf, wbuf, c2s>>

Shut(c) ==
    /\ peer[c].state = "open"
    /\ peer' = [peer EXCEPT ![c].state = "shut"]
    /\ UNCHANGED <<control, loop, known, pcm, rbuf, wbuf, c2s, s2c>>

-----------------------------------------------------------------------------
(* flush_wbuf sends what the socket takes: EAGAIN leaves the rest queued, a *)
(* hard error clears it.                                                    *)
Sendable(c, w) == IF Len(w) < SockCap - Len(s2c[c]) THEN Len(w) ELSE SockCap - Len(s2c[c])
UnsentCleared(c, w) == <<>>     \* mutant: EAGAIN taken for a hard error
Unsent(c, w) ==
    IF peer[c].state = "open" THEN SubSeq(w, Sendable(c, w) + 1, Len(w)) ELSE <<>>
Sent(c, w) ==
    IF peer[c].state = "open" THEN s2c[c] \o SubSeq(w, 1, Sendable(c, w)) ELSE s2c[c]

\* mutant: a full ring is overwritten without moving its read cursor
WriteFrameKeepsHead(st, n) ==
    [st EXCEPT !.ring = [@ EXCEPT ![st.tail] = n], !.tail = (@ + 1) % RingFrames,
               !.fill = IF @ >= RingFrames THEN @ ELSE @ + 1]
\* push_pcm_to_ring: a full ring drops its oldest block
WriteFrame(st, n) ==
    LET full == st.fill >= RingFrames IN
    [st EXCEPT !.head = IF full THEN (@ + 1) % RingFrames ELSE @,
               !.ring = [@ EXCEPT ![st.tail] = n],
               !.tail = (@ + 1) % RingFrames,
               !.fill = IF full THEN @ ELSE @ + 1]

\* aaudio_cb takes what there is and plays silence for the rest
TakeFrame(st) ==
    IF st.corked \/ st.fill = 0
      THEN st ELSE [st EXCEPT !.head = (@ + 1) % RingFrames, !.fill = @ - 1]

\* AAudio calls aaudio_cb on a thread of its own.  It mixes under the mutex, and
\* waits for it while stop is in close_aaudio_locked.
CallbackWaits ==
    /\ aaudio /\ ctl = "close" /\ cb' = "locking"
    /\ UNCHANGED <<control, loop, known, mixed, aaudio, stream, robbed, rbuf, wbuf, peer, c2s, s2c>>

CallbackMixes ==
    /\ (aaudio \/ cb = "locking") /\ ctl # "close" /\ cb' = "idle"
    /\ stream' = [c \in Clients |-> IF c \in mixed THEN TakeFrame(stream[c]) ELSE stream[c]]
    /\ UNCHANGED <<control, loop, known, mixed, aaudio, robbed, rbuf, wbuf, peer, c2s, s2c>>

-----------------------------------------------------------------------------
(* The epoll thread *)
UnmixNothing(c) == mixed        \* mutant: the stream is erased from its client only
Unmix(c) == mixed \ {c}

\* close_client, with the streams of the client leaving the mixer
CloseClient(c) ==
    /\ known' = known \ {c} /\ mixed' = Unmix(c)
    /\ stream' = [stream EXCEPT ![c] = NoStream]
    /\ peer' = [peer EXCEPT ![c].state = "gone"]
    /\ rbuf' = [rbuf EXCEPT ![c] = <<>>] /\ wbuf' = [wbuf EXCEPT ![c] = <<>>]
    /\ c2s' = [c2s EXCEPT ![c] = <<>>] /\ s2c' = [s2c EXCEPT ![c] = <<>>]
    /\ robbed' = robbed \ {c} /\ UNCHANGED <<aaudio, cb>>

\* Only EPOLLIN is registered: room in a full socket wakes nobody.
Ready ==
    {<<c, peer[c].state = "shut">> : c \in {k \in known : c2s[k] # <<>> \/ peer[k].state = "shut"}}
    \cup {<<"listen", FALSE>> : c \in {k \in Clients : peer[k].state = "pending"}}
    \cup (IF wakeup THEN {<<"wakeup", FALSE>>} ELSE {})

\* the loop condition; past it the thread blocks until something is ready
EpollTest ==
    /\ thread = "run" /\ pc = "test"
    /\ IF stopRequested THEN thread' = "done" /\ UNCHANGED pc
                        ELSE pc' = "wait" /\ UNCHANGED thread
    /\ UNCHANGED <<ctl, stopRequested, wakeup, todo, cur, known, pcm, rbuf, wbuf, peer, c2s, s2c>>

EpollWait ==
    /\ pc = "wait" /\ Ready # {}
    /\ todo' = Ready /\ pc' = "event"
    /\ UNCHANGED <<control, cur, known, pcm, rbuf, wbuf, peer, c2s, s2c>>

\* another client's frame wakes the thread, and what else is ready comes with it
OthersReady ==
    /\ pc = "wait" /\ todo' = Ready /\ pc' = "event"
    /\ UNCHANGED <<control, cur, known, pcm, rbuf, wbuf, peer, c2s, s2c>>

TakeEvent(fd, hup) ==
    pc = "event" /\ <<fd, hup>> \in todo /\ todo' = todo \ {<<fd, hup>>}

OnWakeup ==
    /\ TakeEvent("wakeup", FALSE) /\ wakeup' = FALSE
    /\ UNCHANGED <<ctl, thread, stopRequested, pc, cur, known, pcm, rbuf, wbuf, peer, c2s, s2c>>

AcceptClients ==
    /\ TakeEvent("listen", FALSE)
    /\ LET new == {c \in Clients : peer[c].state = "pending"} IN
         /\ known' = known \cup new
         /\ peer' = [c \in Clients |-> IF c \in new THEN [peer[c] EXCEPT !.state = "open"] ELSE peer[c]]
    /\ UNCHANGED <<control, pc, cur, pcm, rbuf, wbuf, c2s, s2c>>

OnHangup(c) ==
    /\ TakeEvent(c, TRUE) /\ CloseClient(c)
    /\ UNCHANGED <<control, pc, cur>>

\* handle_client_readable: end of file closes the client before any frame read
\* with it is looked at
HandleReadable(c) ==
    /\ TakeEvent(c, FALSE)
    /\ \/ peer[c].state = "shut" /\ CloseClient(c) /\ UNCHANGED <<pc, cur>>
       \/ /\ peer[c].state = "open"
          /\ rbuf' = [rbuf EXCEPT ![c] = @ \o c2s[c]] /\ c2s' = [c2s EXCEPT ![c] = <<>>]
          /\ pc' = "frames" /\ cur' = c
          /\ UNCHANGED <<known, pcm, wbuf, peer, s2c>>
    /\ UNCHANGED control

\* drain_frames, frame by frame
Frame(f) == pc = "frames" /\ rbuf[cur] # <<>> /\ f = Head(rbuf[cur])
ConsumeFrame == rbuf' = [rbuf EXCEPT ![cur] = Tail(@)]
Queue(msgs) == wbuf' = [wbuf EXCEPT ![cur] = @ \o msgs] /\ UNCHANGED s2c
Reply(f) == [kind |-> "reply", n |-> f.n]

\* the spec may be refused; the first stream opens AAudio, which may fail
HandleCreate(f) ==
    /\ Frame(f) /\ f.kind = "create" /\ ConsumeFrame
    /\ \/ /\ \E corked \in BOOLEAN :
               stream' = [stream EXCEPT ![cur] = [NoStream EXCEPT !.live = TRUE, !.corked = corked]]
          /\ mixed' = mixed \cup {cur} /\ aaudio' \in {aaudio, TRUE}
          /\ Queue(<<[kind |-> "created", n |-> f.n], [kind |-> "request", n |-> TLength]>>)
       \/ Queue(<<Reply(f)>>) /\ UNCHANGED <<mixed, aaudio, stream>>
    /\ UNCHANGED <<control, loop, known, cb, robbed, peer, c2s>>

\* erase_stream looks up no owner: any stream leaves the mixer, while only the
\* client's own leaves its client.  An index of no stream changes nothing.
HandleDelete(f) ==
    /\ Frame(f) /\ f.kind = "delete" /\ ConsumeFrame /\ Queue(<<Reply(f)>>)
    /\ \E i \in Clients :
         /\ stream' = IF i = cur THEN [stream EXCEPT ![i] = NoStream] ELSE stream
         /\ mixed' = Unmix(i)
         /\ robbed' = IF i = cur THEN robbed \ {i} ELSE robbed \cup (mixed \cap {i})
    /\ UNCHANGED <<control, loop, known, aaudio, cb, peer, c2s>>

\* the same DELETE, from a client that is not one of Clients
OthersDelete(i) ==
    /\ pc = "event" /\ i \in mixed /\ mixed' = Unmix(i) /\ robbed' = robbed \cup {i}
    /\ UNCHANGED <<control, loop, known, aaudio, cb, stream, rbuf, wbuf, peer, c2s, s2c>>

\* cork or uncork, and flush, of the client's own stream; everything else is
\* answered and changes nothing here, DRAIN included
HandleControl(f) ==
    /\ Frame(f) /\ f.kind \in {"cork", "flush", "query"} /\ ConsumeFrame /\ Queue(<<Reply(f)>>)
    /\ \E cork \in BOOLEAN : stream' = [stream EXCEPT ![cur] =
         CASE f.kind = "cork" /\ @.live -> [@ EXCEPT !.corked = cork]
           [] f.kind = "flush" /\ @.live -> [@ EXCEPT !.head = 0, !.tail = 0, !.fill = 0]
           [] OTHER -> @]
    /\ UNCHANGED <<control, loop, known, mixed, aaudio, cb, robbed, peer, c2s>>

\* on_data_frame: push, STARTED on the first frame, REQUEST, flush_wbuf
OnDataFrame(f) ==
    /\ Frame(f) /\ f.kind = "data" /\ ConsumeFrame
    /\ IF stream[cur].live
         THEN LET st == stream[cur]
                  w == wbuf[cur] \o (IF st.started THEN <<>> ELSE <<[kind |-> "started", n |-> 0]>>)
                                 \o <<[kind |-> "request", n |-> MinReq]>> IN
              /\ stream' = [stream EXCEPT ![cur] = [WriteFrame(st, f.n) EXCEPT !.started = TRUE]]
              /\ wbuf' = [wbuf EXCEPT ![cur] = Unsent(cur, w)]
              /\ s2c' = [s2c EXCEPT ![cur] = Sent(cur, w)]
         ELSE UNCHANGED <<stream, wbuf, s2c>>
    /\ UNCHANGED <<control, loop, known, mixed, aaudio, cb, robbed, peer, c2s>>

OnOversizedFrame(f) ==
    /\ Frame(f) /\ f.kind = "bad" /\ CloseClient(cur)
    /\ pc' = "event" /\ UNCHANGED <<control, todo, cur>>

\* mutant: drain_frames may leave complete frames in rbuf
FramesDoneEarly ==
    /\ pc = "frames" /\ pc' = "event"
    /\ UNCHANGED <<control, todo, cur, known, pcm, rbuf, wbuf, peer, c2s, s2c>>
FramesDone ==
    /\ pc = "frames" /\ rbuf[cur] = <<>> /\ pc' = "event"
    /\ wbuf' = [wbuf EXCEPT ![cur] = Unsent(cur, @)]
    /\ s2c' = [s2c EXCEPT ![cur] = Sent(cur, wbuf[cur])]
    /\ UNCHANGED <<control, todo, cur, known, pcm, rbuf, peer, c2s>>

\* the pass over all clients after a batch of events
FlushClients ==
    /\ pc = "event" /\ todo = {} /\ pc' = "test"
    /\ wbuf' = [c \in Clients |-> IF c \in known THEN Unsent(c, wbuf[c]) ELSE wbuf[c]]
    /\ s2c' = [c \in Clients |-> IF c \in known THEN Sent(c, wbuf[c]) ELSE s2c[c]]
    /\ UNCHANGED <<control, todo, cur, known, pcm, rbuf, peer, c2s>>

EpollThread ==
    \/ EpollTest \/ EpollWait \/ OnWakeup \/ AcceptClients \/ FramesDone \/ FlushClients
    \/ \E c \in Clients : OnHangup(c) \/ HandleReadable(c)
    \/ pc = "frames" /\ rbuf[cur] # <<>> /\ LET f == Head(rbuf[cur]) IN
         HandleCreate(f) \/ HandleDelete(f) \/ HandleControl(f) \/ OnDataFrame(f) \/ OnOversizedFrame(f)

-----------------------------------------------------------------------------
(* The app *)
SinkStart ==
    /\ ctl = "off" /\ thread = "none"
    /\ ctl' = "on" /\ thread' = "run" /\ stopRequested' = FALSE /\ wakeup' = FALSE
    /\ UNCHANGED <<loop, known, pcm, rbuf, wbuf, peer, c2s, s2c>>

SinkStop ==
    /\ ctl = "on" /\ ctl' = "wake" /\ stopRequested' = TRUE
    /\ UNCHANGED <<thread, wakeup, loop, known, pcm, rbuf, wbuf, peer, c2s, s2c>>

\* mutant: stop_requested is set and the eventfd is not written
StopWakesNobody ==
    /\ ctl = "wake" /\ ctl' = "join"
    /\ UNCHANGED <<thread, stopRequested, wakeup, loop, known, pcm, rbuf, wbuf, peer, c2s, s2c>>
StopWakes ==
    /\ ctl = "wake" /\ ctl' = "join" /\ wakeup' = TRUE
    /\ UNCHANGED <<thread, stopRequested, loop, known, pcm, rbuf, wbuf, peer, c2s, s2c>>

StopJoins ==
    /\ ctl = "join" /\ thread = "done" /\ ctl' = "close" /\ thread' = "none"
    /\ UNCHANGED <<stopRequested, wakeup, loop, known, pcm, rbuf, wbuf, peer, c2s, s2c>>

\* close_aaudio_locked, with the mutex held since the join; then every fd is closed: the listening
\* socket takes the pending clients with it
StopCloses ==
    /\ ctl = "close" /\ (aaudio /\ CloseWaits => cb = "idle") /\ ctl' = "off"
    /\ known' = {} /\ mixed' = {} /\ robbed' = {} /\ aaudio' = FALSE
    /\ stream' = [c \in Clients |-> NoStream]
    /\ rbuf' = [c \in Clients |-> <<>>] /\ wbuf' = rbuf' /\ c2s' = rbuf' /\ s2c' = rbuf'
    /\ peer' = [c \in Clients |-> IF peer[c].state = "new" THEN peer[c]
                                  ELSE [peer[c] EXCEPT !.state = "gone"]]
    /\ UNCHANGED <<thread, stopRequested, wakeup, loop, cb>>

Stop == StopWakes \/ StopJoins \/ StopCloses

ServerNext ==
    \/ SinkStart \/ SinkStop \/ Stop \/ EpollThread \/ OthersReady
    \/ CallbackWaits \/ CallbackMixes
    \/ \E c \in Clients :
         \/ OthersDelete(c) \/ Connect(c) \/ SendData(c) \/ SendOversized(c) \/ Receive(c) \/ Shut(c)
         \/ \E kind \in Requests : SendRequest(c, kind)

Fairness == WF_serverVars(EpollThread) /\ WF_serverVars(Stop)
ServerSpec == ServerInit /\ [][ServerNext]_serverVars /\ Fairness

-----------------------------------------------------------------------------
(* The callback mixes only streams that a connected client still has: a     *)
(* stream leaves the mixer with DELETE, with its client and with stop,      *)
(* whichever thread is where.  It mixes all of them, but for those that a   *)
(* DELETE of another client took out (mix_streams, close_client,            *)
(* erase_stream).                                                           *)
MixerFollowsClients ==
    LET live == {c \in Clients : stream[c].live} IN
        /\ mixed \subseteq live /\ live \subseteq known
        /\ live \ mixed \subseteq robbed

(* Whatever was played, dropped or flushed in between, a ring holds, in     *)
(* order and without a gap, the newest blocks its client sent               *)
(* (push_pcm_to_ring against aaudio_cb around the end of the ring).         *)
RingHoldsNewest ==
    \A c \in Clients : LET st == stream[c] IN
        /\ st.tail = (st.head + st.fill) % RingFrames
        /\ \A i \in 1 .. st.fill - 1 :
             st.ring[(st.head + i) % RingFrames] = st.ring[(st.head + i - 1) % RingFrames] + 1

IsRequest(f) == f.kind \in Requests
Answers == {"reply", "created"}
\* the messages of these kinds are numbered a + 1 .. b, in order
InTurn(q, kinds, a, b) ==
    LET at == {i \in DOMAIN q : q[i].kind \in kinds} IN
        /\ a <= b /\ {q[i].n : i \in at} = a + 1 .. b
        /\ \A i, j \in at : i < j => q[i].n < q[j].n
(* Every request is answered once and in order: what a client has seen,     *)
(* what is in its socket and what waits in wbuf are answers without a gap,  *)
(* up to some m, and what is not read yet are the requests after m, though  *)
(* replies are cut at a full socket (flush_wbuf, drain_frames).             *)
AnswersInOrder ==
    \A c \in known : peer[c].state = "open" => LET r == peer[c] IN
        \E m \in r.acked .. r.tags :
            /\ InTurn(s2c[c] \o wbuf[c], Answers, r.acked, m)
            /\ InTurn(rbuf[c] \o c2s[c], Requests, m, r.tags)

\* request n has reached the server's socket, and is not served yet
Waiting(c, n) ==
    \E i \in DOMAIN (rbuf[c] \o c2s[c]) : LET f == (rbuf[c] \o c2s[c])[i] IN IsRequest(f) /\ f.n = n

(* A request that a client has sent, before or after it is accepted, is     *)
(* served with no further input to wake the thread, unless the connection   *)
(* or the server ends (EPOLLIN on every socket, drain_frames to the end).   *)
RequestServed ==
    \A c \in Clients, n \in 1 .. MaxTags :
        (thread = "run" /\ Waiting(c, n)) ~> (~Waiting(c, n) \/ stopRequested)

(* alr_audio_sink_stop returns: the thread may be in epoll_wait with no     *)
(* timeout, or anywhere between the test of stop_requested and it.  One     *)
(* case is left: stop holds the mutex that a callback under way wants,      *)
(* while AAudio's close waits for that callback.                            *)
StopStuck == CloseWaits /\ ctl = "close" /\ cb = "locking"
StopReturns == ctl = "wake" ~> (ctl = "off" \/ StopStuck)
=============================================================================
