---------------------------- MODULE WireSession ----------------------------
(***************************************************************************)
(* The connection of an account (adapters/xianyu/ws/real.rs, connect_ws of *)
(* adapter.rs): a session task that writes the requests it is given and    *)
(* reads one frame after another; the pump from it to the queue of events; *)
(* the loop that handles the events one by one (runtime/supervisor.rs) and *)
(* sends on the same connection.  Every queue is bounded: who writes to a  *)
(* full one waits, and the session reads nothing meanwhile.  A request     *)
(* gives up after a while, and leaves its entry behind.                    *)
(*                                                                         *)
(* Abstracted: what the frames say (their decoding is in the text of the   *)
(* pump), the acknowledgements, the heartbeat, the order in which a        *)
(* session prefers what it could do next.                                  *)
(***************************************************************************)
EXTENDS Naturals, Sequences, SequencesExt

CONSTANTS
    Calls,          \* requests; each is made once
    OwnCalls,       \* those the event loop makes itself
    MaxSessions, MaxPushed, MsgBound, EventBound, CmdBound

ASSUME WireAssumption ==
    /\ OwnCalls \subseteq Calls
    /\ {MaxSessions, MaxPushed, MsgBound, EventBound, CmdBound} \subseteq Nat \ {0}

VARIABLES
    session,    \* the number of the latest session
    link,       \* down, registering, open
    pushed,     \* session -> how many entries the platform pushed into it
    wire,       \* frames the session has not read
    holding,    \* entries of the frame it has read, not yet passed on
    msgs,       \* session -> its entries before the pump
    pumping,    \* session -> the entry its pump holds (a sequence of at most one)
    events,     \* the queue of events, of all sessions
    handled,    \* the entries the event loop has taken, oldest first
    busy,       \* the call the event loop waits for (a set of at most one)
    cmds,       \* requests before the session
    pending,    \* requests written, by the mid they are answered with
    call,       \* call -> how it is with its caller
    arrived     \* the calls the platform has received

wireVars == <<session, link, pushed, wire, holding, msgs, pumping, events, handled,
              busy, cmds, pending, call, arrived>>

upVars == <<wire, holding, msgs, pumping, events, handled, busy>>
callVars == <<cmds, pending, call, arrived>>

Sessions_ == 1..MaxSessions
Entries == Sessions_ \X (1..MaxPushed)
Frames == [push : UNION {[1..n -> Entries] : n \in 1..MaxPushed}] \cup [answer : Calls]

WireTypeOK ==
    /\ session \in 0..MaxSessions /\ link \in {"down", "registering", "open"}
    /\ pushed \in [Sessions_ -> 0..MaxPushed]
    /\ wire \in Seq(Frames)
    /\ holding \in Seq(Entries) /\ events \in Seq(Entries) /\ handled \in Seq(Entries)
    /\ msgs \in [Sessions_ -> Seq(Entries)] /\ pumping \in [Sessions_ -> Seq(Entries)]
    /\ \A s \in Sessions_ : Len(msgs[s]) <= MsgBound /\ Len(pumping[s]) <= 1
    /\ cmds \in Seq(Calls)
    /\ Len(events) <= EventBound /\ Len(cmds) <= CmdBound
    /\ busy \subseteq OwnCalls /\ pending \subseteq Calls /\ arrived \subseteq Calls
    /\ call \in [Calls -> {"new", "waiting", "answered", "timeout", "not_connected"}]

WireInit ==
    /\ session = 0 /\ link = "down"
    /\ pushed = [s \in Sessions_ |-> 0]
    /\ wire = <<>> /\ holding = <<>> /\ events = <<>> /\ handled = <<>>
    /\ msgs = [s \in Sessions_ |-> <<>>] /\ pumping = [s \in Sessions_ |-> <<>>]
    /\ busy = {} /\ cmds = <<>> /\ pending = {} /\ arrived = {}
    /\ call = [c \in Calls |-> "new"]

-----------------------------------------------------------------------------
\* The session.

\* connect_ws: fresh channels; the handle is given out before the registration.
Connect ==
    /\ link = "down" /\ session < MaxSessions
    /\ session' = session + 1 /\ link' = "registering"
    /\ UNCHANGED <<pushed, upVars, callVars>>

Registered ==
    /\ link = "registering" /\ link' = "open"
    /\ UNCHANGED <<session, pushed, upVars, callVars>>

\* Those that wait are woken: their senders are dropped with the tables.
Woken(c) == call[c] = "waiting"

\* Mutant of Released: who is still in the queue is forgotten.
ReleasedPending(c) == c \in pending /\ Woken(c)
Released(c) == Woken(c)

\* The session ends: refused, disconnected, removed or stopped.  The pump goes
\* on with what it was given.
EndSession ==
    /\ link # "down" /\ holding = <<>>
    /\ link' = "down" /\ wire' = <<>> /\ cmds' = <<>> /\ pending' = {}
    /\ call' = [c \in Calls |-> IF Released(c) THEN "not_connected" ELSE call[c]]
    /\ UNCHANGED <<session, pushed, holding, msgs, pumping, events, handled, busy, arrived>>

\* A request is written; whether it arrives only the platform knows.
WriteRequest ==
    /\ link = "open" /\ holding = <<>> /\ cmds # <<>>
    /\ cmds' = Tail(cmds)
    /\ pending' = pending \cup {Head(cmds)}
    /\ arrived' \in {arrived, arrived \cup {Head(cmds)}}
    /\ UNCHANGED <<session, link, pushed, upVars, call>>

ReadPush ==
    /\ link = "open" /\ holding = <<>> /\ wire # <<>> /\ "push" \in DOMAIN Head(wire)
    /\ wire' = Tail(wire)
    /\ holding' = Head(wire).push
    /\ UNCHANGED <<session, link, pushed, msgs, pumping, events, handled, busy, callVars>>

\* An answer is given to the request of its mid, if that still waits.
ReadAnswer ==
    /\ link = "open" /\ holding = <<>> /\ wire # <<>> /\ "answer" \in DOMAIN Head(wire)
    /\ wire' = Tail(wire)
    /\ LET c == Head(wire).answer
       IN  /\ pending' = pending \ {c}
           /\ call' = IF c \in pending /\ Woken(c) THEN [call EXCEPT ![c] = "answered"] ELSE call
    /\ UNCHANGED <<session, link, pushed, holding, msgs, pumping, events, handled, busy,
                   cmds, arrived>>

PassOnEntry ==
    /\ holding # <<>> /\ Len(msgs[session]) < MsgBound
    /\ msgs' = [msgs EXCEPT ![session] = Append(@, Head(holding))]
    /\ holding' = Tail(holding)
    /\ UNCHANGED <<session, link, pushed, wire, pumping, events, handled, busy, callVars>>

-----------------------------------------------------------------------------
\* The pump of a session, which outlives it, and the event loop.

Pump(s) ==
    /\ msgs[s] # <<>> /\ pumping[s] = <<>>
    /\ pumping' = [pumping EXCEPT ![s] = <<Head(msgs[s])>>]
    /\ msgs' = [msgs EXCEPT ![s] = Tail(@)]
    /\ UNCHANGED <<session, link, pushed, wire, holding, events, handled, busy, callVars>>

Emit(s) ==
    /\ pumping[s] # <<>> /\ Len(events) < EventBound
    /\ events' = events \o pumping[s]
    /\ pumping' = [pumping EXCEPT ![s] = <<>>]
    /\ UNCHANGED <<session, link, pushed, wire, holding, msgs, handled, busy, callVars>>

\* The next event; it may make the loop send something.
HandleEvent ==
    /\ busy = {} /\ events # <<>>
    /\ handled' = Append(handled, Head(events))
    /\ events' = Tail(events)
    /\ busy' \in {{}} \cup {{c} : c \in {d \in OwnCalls : call[d] = "new"}}
    /\ UNCHANGED <<session, link, pushed, wire, holding, msgs, pumping, callVars>>

EventDone ==
    /\ busy # {} /\ \A c \in busy : call[c] \notin {"new", "waiting"}
    /\ busy' = {}
    /\ UNCHANGED <<session, link, pushed, wire, holding, msgs, pumping, events, handled, callVars>>

-----------------------------------------------------------------------------
\* WsHandle::request.  Over the handle of a session that has ended it fails.
Request(c) ==
    /\ call[c] = "new" /\ c \in OwnCalls => c \in busy
    /\ \/ /\ link # "down" /\ Len(cmds) < CmdBound
          /\ cmds' = Append(cmds, c)
          /\ call' = [call EXCEPT ![c] = "waiting"]
       \/ /\ link = "down"
          /\ call' = [call EXCEPT ![c] = "not_connected"]
          /\ UNCHANGED cmds
    /\ UNCHANGED <<session, link, pushed, upVars, pending, arrived>>

\* The caller gives up; the command and the entry stay where they are.
TimeOut(c) ==
    /\ call[c] = "waiting"
    /\ call' = [call EXCEPT ![c] = "timeout"]
    /\ UNCHANGED <<session, link, pushed, upVars, cmds, pending, arrived>>

-----------------------------------------------------------------------------
\* The platform.
PlatformPush(n) ==
    /\ link = "open" /\ pushed[session] + n <= MaxPushed
    /\ pushed' = [pushed EXCEPT ![session] = @ + n]
    /\ wire' = Append(wire, [push |-> [i \in 1..n |-> <<session, pushed[session] + i>>]])
    /\ UNCHANGED <<session, link, holding, msgs, pumping, events, handled, busy, callVars>>

PlatformAnswer(c) ==
    /\ link = "open" /\ c \in arrived \cap pending
    /\ [answer |-> c] \notin ToSet(wire)
    /\ wire' = Append(wire, [answer |-> c])
    /\ UNCHANGED <<session, link, pushed, holding, msgs, pumping, events, handled, busy, callVars>>

WireNext ==
    \/ Connect \/ Registered \/ EndSession
    \/ WriteRequest \/ ReadPush \/ ReadAnswer \/ PassOnEntry
    \/ \E s \in Sessions_ : Pump(s) \/ Emit(s)
    \/ HandleEvent \/ EventDone
    \/ \E c \in Calls : Request(c) \/ TimeOut(c) \/ PlatformAnswer(c)
    \/ \E n \in 1..MaxPushed : PlatformPush(n)

-----------------------------------------------------------------------------
\* Nobody waits for an answer that can no longer be given to him: who waits is
\* in the queue or in the table of a session that lives.
WaitersAreKnown ==
    \A c \in Calls : Woken(c) => link # "down" /\ c \in ToSet(cmds) \cup pending

\* An answered call did reach the platform; one that was not, or that ended in
\* an error, may have as well.
AnsweredHasArrived == \A c \in Calls : call[c] = "answered" => c \in arrived

\* The entries of a session in a queue are those after the a-th, up to the b-th,
\* once each and in this order.
Carries(queue, s, a, b) ==
    /\ \A k \in DOMAIN queue : queue[k][1] = s => queue[k][2] \in (a + 1)..b
    /\ \A n \in (a + 1)..b : \E k \in DOMAIN queue : queue[k] = <<s, n>>
    /\ \A j, k \in DOMAIN queue :
           j < k /\ queue[j][1] = s /\ queue[k][1] = s => queue[j][2] < queue[k][2]

\* What a session has read is on its way to the event loop, or was there: every
\* entry once, in the order the platform sent it, through all three queues.
NothingIsSkipped ==
    \A s \in Sessions_ : \E a \in 0..MaxPushed :
        /\ Carries(handled, s, 0, a)
        /\ \E b \in a..MaxPushed :
              /\ Carries(events, s, a, b)
              /\ \E c \in b..MaxPushed :
                    /\ Carries(pumping[s], s, b, c)
                    /\ \E d \in c..MaxPushed :
                          /\ Carries(msgs[s], s, c, d)
                          /\ \E e \in d..MaxPushed : Carries(holding, s, d, e)

WireSafe == WaitersAreKnown /\ AnsweredHasArrived /\ NothingIsSkipped
=============================================================================
