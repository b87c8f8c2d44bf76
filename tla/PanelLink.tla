----------------------------- MODULE PanelLink -----------------------------
(* The link between the panels inside Adobe Media Encoder and the engine:   *)
(* IpcServer (one thread over the pipe instances), NamedPipe (the state     *)
(* machine of an instance) and the part of Engine that counts connections   *)
(* and answers.  The panels are external.  A slot is a pipe instance, its   *)
(* number is the connection id; a session is one panel that connected once. *)
(* A panel writes pieces of lines; a pass of the server thread is atomic,   *)
(* since the engine reaches it only through pending and the events.         *)
EXTENDS Integers, Sequences, FiniteSets

CONSTANTS Slots,        \* the pipe instances, 1..maxInstances
          MaxSessions,  \* bound: panels that connect
          MaxPieces,    \* bound: pieces a panel writes
          MaxPending,   \* kMaxPendingSends
          MaxOutbound,  \* kMaxOutboundLines
          MaxInbound,   \* kMaxInboundBytes, in pieces
          Limit,        \* livenessSeconds, in ticks of the clock
          MaxInbox,     \* bound: events the engine is behind
          MaxRestarts   \* bound: times the engine starts the server again

VARIABLES
    slot,       \* the instances with their clients: see IdleSlot
    server,     \* "running", "gaveUp" (the thread left by itself) or "stopped"
    pending,    \* pendingSends_: lines with their target, 0 for every client;
                \* wakeEvent_ is set exactly while there are some
    events,     \* the engine's queue, the events of this server
    count,      \* panelConnections_
    came,       \* ghost: the panels that connected so far, numbered from 1
    restarts

ASSUME LinkAssumption ==
    IsFiniteSet(Slots) /\ Slots \subseteq Nat /\ Limit \in Nat /\ MaxPending \in Nat \ {0}

linkVars == <<slot, server, pending, events, count, came, restarts>>

NoPeer == 0

(* An instance that listens.  peer is the panel at the other end, unread    *)
(* what it wrote, pieces their number and mid that the last ends no line,   *)
(* gone that it closed its handle; con, inb and silent are connected,       *)
(* inbound and the time since lastActivityMs.                               *)
IdleSlot == [pipe |-> "connecting", peer |-> NoPeer, gone |-> FALSE, unread |-> <<>>,
             pieces |-> 0, mid |-> FALSE,
             con |-> FALSE, inb |-> <<>>, silent |-> 0]

(* The orders of a set of numbers: there is one.                            *)
InOrder(S) == {q \in [1 .. Cardinality(S) -> S] :
                 /\ \A x \in S : \E i \in DOMAIN q : q[i] = x
                 /\ \A i, j \in DOMAIN q : i < j => q[i] < q[j]}

Connects(s) == [kind |-> "client", id |-> s, connected |-> TRUE, who |-> slot[s].peer]
Disconnects(s, who) == [kind |-> "client", id |-> s, connected |-> FALSE, who |-> who]
Says(s, line) == [kind |-> "line", id |-> s, who |-> slot[s].peer, pieces |-> line]

(* What is posted when the clients of a set are dropped, one after another. *)
BugGoodbyes(S, at) == {<<>>}    \* the engine not told
Goodbyes(S, at) == {[k \in DOMAIN q |-> Disconnects(q[k], at[q[k]].peer)] : q \in InOrder(S)}

(* A signal is due: a panel is there to be greeted, has written or has left. *)
Signalled(r) == \/ r.pipe = "connecting" /\ r.peer # NoPeer
                \/ r.pipe = "reading" /\ (r.unread # <<>> \/ r.gone)

(* PipeInstance::disconnectAndReconnect: ok when it could listen again.     *)
Relistens(r, ok) == [r EXCEPT !.pipe = IF ok THEN "connecting" ELSE "closed",
                              !.peer = NoPeer, !.gone = FALSE, !.unread = <<>>,
                              !.pieces = 0, !.mid = FALSE]

(* dropClient: what is left of the client.                                  *)
Dropped(r) == [r EXCEPT !.con = FALSE, !.inb = <<>>, !.silent = 0]
Farewell(s) == IF slot[s].con THEN <<Disconnects(s, slot[s].peer)>> ELSE <<>>

(* splitLines: the lines of the buffer, whose ends in order are e, and the  *)
(* tail that ends none.                                                     *)
LineEnds(b) == {i \in DOMAIN b : b[i].ends}
Starts(e, k) == IF k = 1 THEN 1 ELSE e[k - 1] + 1
TailAfter(b, e) == SubSeq(b, Starts(e, Len(e) + 1), Len(b))
Line(b, e, k) == SubSeq(b, Starts(e, k), e[k])

(* PipeInstance::onSignalled and onClientSignalled of slot s, which reads   *)
(* the first n pieces.  When it reads everything a panel that has left      *)
(* wrote, the next read fails, and what was read goes with the client.      *)
Reads(r, n) ==
    [pipe |-> "reading", peer |-> r.peer, gone |-> r.gone,
     unread |-> SubSeq(r.unread, n + 1, Len(r.unread)), pieces |-> r.pieces, mid |-> r.mid,
     con |-> TRUE, inb |-> r.inb, silent |-> IF r.con /\ n = 0 THEN r.silent ELSE 0]
Buffer(r, n) == r.inb \o SubSeq(r.unread, 1, n)
Served(s, n, e, ok) ==
    LET r == slot[s]
        hello == IF r.con THEN <<>> ELSE <<Connects(s)>>
    IN IF r.gone /\ n = Len(r.unread)
       THEN [r |-> Relistens(Dropped(r), ok), posts |-> Farewell(s)]
       ELSE IF Len(r.inb) + n > MaxInbound
       THEN [r |-> Relistens(Dropped(Reads(r, n)), ok),
             posts |-> hello \o <<Disconnects(s, r.peer)>>]
       ELSE [r |-> [Reads(r, n) EXCEPT !.inb = TailAfter(Buffer(r, n), e)],
             posts |-> hello \o [k \in DOMAIN e |-> Says(s, Line(Buffer(r, n), e, k))]]

(* drainSends routes the lines to the connected clients, then flushOutbound *)
(* writes them; a write fails when the panel is gone or its pipe is full:   *)
(* only w of the lines are taken, and the connection is dropped.            *)
Outbound(s) ==
    LET mine == SelectSeq(pending, LAMBDA m : m.to \in {0, s})
    IN IF slot[s].con THEN SubSeq(mine, 1 + (IF Len(mine) > MaxOutbound THEN Len(mine) - MaxOutbound ELSE 0),
                                  Len(mine))
                      ELSE <<>>
Cut(w) == {s \in Slots : w[s] # Len(Outbound(s))}
Written(w, ok) == [s \in Slots |-> IF s \in Cut(w) THEN Relistens(Dropped(slot[s]), ok) ELSE slot[s]]

(* checkLiveness: the sweep that ends every pass over what the pass left.   *)
Silent(new) == {s \in Slots : new[s].con /\ new[s].silent > Limit}
Swept(new, ok) == [s \in Slots |-> IF s \in Silent(new) THEN Relistens(Dropped(new[s]), ok) ELSE new[s]]
Sweep(new, posts) ==
    /\ \E ok \in BOOLEAN : slot' = Swept(new, ok)
    /\ \E partings \in Goodbyes(Silent(new), new) : events' = events \o posts \o partings

(* What a panel writes, a client and an event are, and the variables hold.  *)
Piece == [of : Nat, n : Nat, starts : BOOLEAN, ends : BOOLEAN]
Client == [pipe : {"connecting", "reading", "closed"}, peer : Nat, gone : BOOLEAN,
           unread : Seq(Piece), pieces : Nat, mid : BOOLEAN,
           con : BOOLEAN, inb : Seq(Piece), silent : Nat]
Event == [kind : {"client"}, id : Slots, connected : BOOLEAN, who : Nat]
         \cup [kind : {"line"}, id : Slots, who : Nat, pieces : Seq(Piece)]

LinkTypeOK ==
    /\ slot \in [Slots -> Client] /\ server \in {"running", "gaveUp", "stopped"}
    /\ pending \in Seq([to : Slots \cup {0}, for : Nat]) /\ events \in Seq(Event)
    /\ {count, came, restarts} \subseteq Nat

LinkInit == /\ slot = [s \in Slots |-> IdleSlot] /\ server = "running"
            /\ pending = <<>> /\ events = <<>> /\ count = 0
            /\ came = 0 /\ restarts = 0

-----------------------------------------------------------------------------
(* The panels.                                                              *)

PanelConnects(s) ==
    /\ slot[s].pipe = "connecting" /\ slot[s].peer = NoPeer
    /\ came < MaxSessions /\ came' = came + 1
    /\ slot' = [slot EXCEPT ![s].peer = came']
    /\ UNCHANGED <<server, pending, events, count, restarts>>

Wrote(r, ends) ==
    [r EXCEPT !.pieces = @ + 1, !.mid = ~ends,
              !.unread = Append(@, [of |-> r.peer, n |-> r.pieces + 1, starts |-> ~r.mid, ends |-> ends])]
PanelWrites(s) ==
    /\ slot[s].peer # NoPeer /\ ~slot[s].gone /\ slot[s].pieces < MaxPieces
    /\ \E ends \in BOOLEAN : slot' = [slot EXCEPT ![s] = Wrote(slot[s], ends)]
    /\ UNCHANGED <<server, pending, events, count, came, restarts>>

PanelLeaves(s) ==
    /\ slot[s].peer # NoPeer /\ ~slot[s].gone
    /\ slot' = [slot EXCEPT ![s].gone = TRUE]
    /\ UNCHANGED <<server, pending, events, count, came, restarts>>

-----------------------------------------------------------------------------
(* The server thread: one pass is the first signal and the sweep.           *)

Sends ==
    /\ server = "running" /\ pending # <<>> /\ pending' = <<>> /\ Len(events) < MaxInbox
    /\ \E w \in [Slots -> 0..MaxOutbound], ok \in BOOLEAN :
        /\ \A s \in Slots : w[s] <= (IF slot[s].gone THEN 0 ELSE Len(Outbound(s)))
        /\ \E posts \in Goodbyes(Cut(w), slot) : Sweep(Written(w, ok), posts)
    /\ UNCHANGED <<server, count, came, restarts>>

Serves(s) ==
    /\ server = "running" /\ pending = <<>> /\ Len(events) < MaxInbox
    /\ Signalled(slot[s]) /\ \A t \in Slots : t < s => ~Signalled(slot[t])
    /\ \E n \in 0..Len(slot[s].unread), ok \in BOOLEAN :
        /\ slot[s].unread # <<>> => n > 0
        /\ \E e \in InOrder(LineEnds(Buffer(slot[s], n))) :
             Sweep([slot EXCEPT ![s] = Served(s, n, e, ok).r], Served(s, n, e, ok).posts)
    /\ UNCHANGED <<server, pending, count, came, restarts>>

Sweeps ==
    /\ server = "running" /\ pending = <<>> /\ \A s \in Slots : ~Signalled(slot[s])
    /\ Silent(slot) # {} /\ Sweep(slot, <<>>)
    /\ UNCHANGED <<server, pending, count, came, restarts>>

(* WaitForMultipleObjects failed kMaxWaitFailures times.                    *)
GivesUp == /\ server = "running" /\ server' = "gaveUp"
           /\ UNCHANGED <<slot, pending, events, count, came, restarts>>

(* The clock, until every connected client has been silent for too long.    *)
Tick == /\ \E s \in Slots : slot[s].con /\ slot[s].silent <= Limit
        /\ slot' = [s \in Slots |-> IF slot[s].con /\ slot[s].silent <= Limit
                                    THEN [slot[s] EXCEPT !.silent = @ + 1] ELSE slot[s]]
        /\ UNCHANGED <<server, pending, events, count, came, restarts>>

-----------------------------------------------------------------------------
(* The engine.                                                              *)

(* IpcServer::send, a line dropped from the front of a full queue.          *)
SendQueue(m) == IF server # "running" THEN pending
                ELSE Append(IF Len(pending) >= MaxPending THEN Tail(pending) ELSE pending, m)

(* Engine::apply of an event: a new panel gets a welcome, a ping its pong.  *)
Applies ==
    /\ events # <<>> /\ events' = Tail(events)
    /\ LET e == Head(events) IN
        /\ count' = IF e.kind = "line" THEN count
                    ELSE IF e.connected THEN count + 1 ELSE IF count > 0 THEN count - 1 ELSE 0
        /\ \E answer \in IF e.kind = "line" THEN BOOLEAN ELSE {e.connected} :
            pending' = IF answer THEN SendQueue([to |-> e.id, for |-> e.who]) ELSE pending
    /\ UNCHANGED <<slot, server, came, restarts>>

(* broadcastToPanels.                                                       *)
Broadcast == /\ server = "running" /\ \A i \in DOMAIN pending : pending[i].to # 0   \* bound: one at a time
             /\ pending' = SendQueue([to |-> 0, for |-> NoPeer])
             /\ UNCHANGED <<slot, server, events, count, came, restarts>>

(* applySettingsToWorkers with ipcEnabled off: IpcServer::stop, which says  *)
(* goodbye for the clients it still has and closes the pipes.               *)
TurnsOff ==
    /\ server = "running" /\ server' = "stopped"
    /\ \E posts \in Goodbyes({s \in Slots : slot[s].con}, slot) : events' = events \o posts
    /\ count' = 0 /\ pending' = <<>>
    /\ slot' = [s \in Slots |-> [IdleSlot EXCEPT !.pipe = "closed"]]
    /\ UNCHANGED <<came, restarts>>

(* ipcEnabled on: IpcServer::start, whose later instances are best-effort;  *)
(* it refuses while the thread that gave up was not joined.                 *)
TurnsOn ==
    /\ server = "stopped" /\ restarts < MaxRestarts /\ restarts' = restarts + 1
    /\ server' = "running" /\ pending' = <<>>
    /\ \E n \in Slots : slot' = [s \in Slots |-> IF s <= n THEN IdleSlot
                                                 ELSE [IdleSlot EXCEPT !.pipe = "closed"]]
    /\ UNCHANGED <<events, count, came>>

LinkNext ==
    \/ \E s \in Slots : PanelConnects(s) \/ PanelWrites(s) \/ PanelLeaves(s) \/ Serves(s)
    \/ Sends \/ Sweeps \/ GivesUp \/ Tick
    \/ Applies \/ Broadcast \/ TurnsOff \/ TurnsOn

LinkSpec == LinkInit /\ [][LinkNext]_linkVars

-----------------------------------------------------------------------------
(* Once the engine has applied every event it counts the clients the server *)
(* has: connects and disconnects come in pairs on every path (a read that   *)
(* fails, a write that fails, silence, a stop), also across a restart of    *)
(* the server that zeroes the count with events still on their way.         *)
CountIsConnections == events = <<>> => count = Cardinality({s \in Slots : slot[s].con})

(* A line that reaches the engine is one the panel wrote, whole: bytes of   *)
(* the panel before on the same instance are never glued to it.             *)
LinesAreWhole ==
    \A i \in DOMAIN events : events[i].kind = "line" =>
        LET l == events[i].pieces
            first == l[1].n
        IN /\ \A k \in DOMAIN l : l[k].of = events[i].who /\ l[k].n = first + k - 1
           /\ \A k \in DOMAIN l : (l[k].starts <=> k = 1) /\ (l[k].ends <=> k = Len(l))

(* A client the server counts has its pipe: the read that would tell it of  *)
(* the panel's end is outstanding on the instance.                          *)
ClientsAreHeard == \A s \in Slots : slot[s].con => slot[s].pipe = "reading" /\ slot[s].peer # NoPeer

(* The client count is the number of connected panels, a line arrives whole *)
(* or not at all, and who connects is heard.                                *)
PipeIsCounted == CountIsConnections /\ LinesAreWhole /\ ClientsAreHeard
=============================================================================
