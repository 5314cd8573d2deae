----------------------------- MODULE DemoForwarder -----------------------------
(***************************************************************************)
(* scripts/wp5-demo-forward.py: the loopback TCP forward.                  *)
(*                                                                         *)
(* The main thread runs serve().  A signal handler runs in the main        *)
(* thread, on top of whatever it was doing, so the main thread is a stack  *)
(* of frames; the top one executes.  Every accepted client has a handle()  *)
(* thread.  self.lock is a threading.Lock, not reentrant, and so is the    *)
(* lock inside the threading.Event that set() takes; is_set() takes none.  *)
(***************************************************************************)
EXTENDS Naturals, Sequences, FiniteSets

CONSTANTS
    Clients,    \* connections that arrive
    MaxSignals, \* bound: SIGINT/SIGTERM deliveries
    Main        \* the main thread as a lock owner

ASSUME ForwarderAssumption == MaxSignals \in Nat /\ Main \notin Clients

VARIABLES
    stack,       \* frames of the main thread, top first
    stopping,    \* the flag of the Event
    eventLock,   \* the lock of the Event is taken (only set() takes it)
    listening,   \* the listener is open
    lock,        \* {} or {owner}
    connections, \* registered pairs, named by their client
    open,        \* pairs whose sockets are open
    snap,        \* `active` of the innermost stop() that has copied (an outer
                 \* copy only holds further pairs that handle() has closed)
    snapped,     \* some stop() has copied the connections
    thread,      \* thread[c]: where handle(c) is
    exit,        \* "no", "clean" (serve returned) or "error"
    signals

vars == <<stack, stopping, eventLock, listening, lock, connections, open, snap, snapped,
          thread, exit, signals>>

ServePcs  == {"accept", "returned"}
StopPcs   == {"set", "flag", "notify", "close", "acquire", "copy", "release", "shut"}
HandlePcs == {"idle", "connect", "acquire", "check", "refuse", "register", "release",
              "pump", "close", "reacquire", "discard", "unlock", "end"}

Alive    == exit = "no"
Top      == Head(stack)
Goto(p)  == stack' = <<p>> \o Tail(stack)

Init ==
    /\ stack = <<"accept">> /\ stopping = FALSE /\ eventLock = FALSE /\ listening = TRUE
    /\ lock = {} /\ connections = {} /\ open = {} /\ snap = {} /\ snapped = FALSE
    /\ thread = [c \in Clients |-> "idle"]
    /\ exit = "no" /\ signals = 0
-----------------------------------------------------------------------------
(***************************************************************************)
(* The main thread: serve() and stop().                                    *)
(***************************************************************************)
\* One turn of the accept loop that hands a client to a new thread.
Accept(c) ==
    /\ Alive /\ Top = "accept" /\ ~stopping /\ listening
    /\ thread[c] = "idle"
    /\ thread' = [thread EXCEPT ![c] = "connect"]
    /\ UNCHANGED <<stack, stopping, eventLock, listening, lock, connections, open,
                   snap, snapped,
                   exit, signals>>

\* The loop sees `stopping`, or accept fails on the listener stop() has closed:
\* serve() calls stop() once more and returns after it.
LeaveLoop ==
    /\ Alive /\ Top = "accept" /\ stopping
    /\ stack' = <<"set", "returned">>
    /\ snap' = {}
    /\ UNCHANGED <<stopping, eventLock, listening, lock, connections, open,
                   snapped, thread,
                   exit, signals>>

\* accept fails for another reason: main() exits with status 1.
AcceptFails ==
    /\ Alive /\ Top = "accept" /\ ~stopping
    /\ exit' = "error"
    /\ UNCHANGED <<stack, stopping, eventLock, listening, lock, connections, open,
                   snap, snapped,
                   thread, signals>>

Return ==
    /\ Alive /\ Top = "returned"
    /\ exit' = "clean"
    /\ UNCHANGED <<stack, stopping, eventLock, listening, lock, connections, open,
                   snap, snapped,
                   thread, signals>>

\* self.stopping.set(): take the lock of the Event, set the flag, notify and release.
EventAcquire ==
    /\ Alive /\ Top = "set" /\ ~eventLock
    /\ eventLock' = TRUE
    /\ Goto("flag")
    /\ UNCHANGED <<stopping, listening, lock, connections, open, snap, snapped, thread,
                   exit, signals>>

SetStopping ==
    /\ Alive /\ Top = "flag"
    /\ stopping' = TRUE
    /\ Goto("notify")
    /\ UNCHANGED <<eventLock, listening, lock, connections, open, snap, snapped, thread,
                   exit, signals>>

EventRelease ==
    /\ Alive /\ Top = "notify"
    /\ eventLock' = FALSE
    /\ Goto("close")
    /\ UNCHANGED <<stopping, listening, lock, connections, open, snap, snapped, thread,
                   exit, signals>>

CloseListener ==
    /\ Alive /\ Top = "close"
    /\ listening' = FALSE
    /\ Goto("acquire")
    /\ UNCHANGED <<stopping, eventLock, lock, connections, open, snap, snapped,
                   thread, exit, signals>>

StopAcquire ==
    /\ Alive /\ Top = "acquire" /\ lock = {}
    /\ lock' = {Main}
    /\ Goto("copy")
    /\ UNCHANGED <<stopping, eventLock, listening, connections, open, snap,
                   snapped, thread, exit, signals>>

StopCopy ==
    /\ Alive /\ Top = "copy"
    /\ snap' = connections
    /\ snapped' = TRUE
    /\ Goto("release")
    /\ UNCHANGED <<stopping, eventLock, listening, lock, connections, open, thread,
                   exit, signals>>

StopRelease ==
    /\ Alive /\ Top = "release"
    /\ lock' = {}
    /\ Goto("shut")
    /\ UNCHANGED <<stopping, eventLock, listening, connections, open, snap,
                   snapped, thread, exit, signals>>

\* Shut down and close every pair of the copy, then return to the frame below.
StopShut ==
    /\ Alive /\ Top = "shut"
    /\ open' = open \ snap
    /\ stack' = Tail(stack)
    /\ UNCHANGED <<stopping, eventLock, listening, lock, connections, snap,
                   snapped, thread, exit, signals>>

\* Python runs the handler between two bytecodes of the main thread, and also
\* while it waits for a lock.
Signal ==
    /\ Alive /\ signals < MaxSignals
    /\ signals' = signals + 1
    /\ stack' = <<"set">> \o stack
    /\ UNCHANGED <<stopping, eventLock, listening, lock, connections, open, snap,
                   snapped, thread, exit>>

MainStep ==
    \/ LeaveLoop \/ Return \/ EventAcquire \/ SetStopping \/ EventRelease \/ CloseListener
    \/ StopAcquire \/ StopCopy \/ StopRelease \/ StopShut
-----------------------------------------------------------------------------
(***************************************************************************)
(* handle(c)                                                               *)
(***************************************************************************)
Move(c, from, to) == thread[c] = from /\ thread' = [thread EXCEPT ![c] = to]

Connect(c) ==
    /\ Alive
    /\ \/ Move(c, "connect", "acquire") /\ open' = open \cup {c}
       \/ Move(c, "connect", "end") /\ UNCHANGED open
    /\ UNCHANGED <<stack, stopping, eventLock, listening, lock, connections, snap,
                   snapped, exit, signals>>

\* Mutation: the lock does not exclude other connections.
AcquireShared(c) ==
    /\ Alive /\ Main \notin lock
    /\ Move(c, "acquire", "check") \/ Move(c, "reacquire", "discard")
    /\ lock' = lock \cup {c}
    /\ UNCHANGED <<stack, stopping, eventLock, listening, connections, open, snap,
                   snapped, exit, signals>>

Acquire(c) ==
    /\ Alive /\ lock = {}
    /\ Move(c, "acquire", "check") \/ Move(c, "reacquire", "discard")
    /\ lock' = {c}
    /\ UNCHANGED <<stack, stopping, eventLock, listening, connections, open, snap,
                   snapped, exit, signals>>

Check(c) ==
    /\ Alive
    /\ Move(c, "check", IF stopping THEN "refuse" ELSE "register")
    /\ UNCHANGED <<stack, stopping, eventLock, listening, lock, connections, open,
                   snap, snapped,
                   exit, signals>>

Refuse(c) ==
    /\ Alive /\ Move(c, "refuse", "unlock")
    /\ open' = open \ {c}
    /\ UNCHANGED <<stack, stopping, eventLock, listening, lock, connections, snap,
                   snapped, exit, signals>>

Register(c) ==
    /\ Alive /\ Move(c, "register", "release")
    /\ connections' = connections \cup {c}
    /\ UNCHANGED <<stack, stopping, eventLock, listening, lock, open, snap,
                   snapped, exit, signals>>

\* Mutation: the early return keeps the lock.
ReleaseUnlessRefused(c) ==
    /\ Alive
    /\ \/ Move(c, "release", "pump") /\ lock' = {}
       \/ Move(c, "unlock", "end") /\ UNCHANGED lock
    /\ UNCHANGED <<stack, stopping, eventLock, listening, connections, open, snap,
                   snapped, exit, signals>>

Release(c) ==
    /\ Alive
    /\ Move(c, "release", "pump") \/ Move(c, "unlock", "end")
    /\ lock' = {}
    /\ UNCHANGED <<stack, stopping, eventLock, listening, connections, open, snap,
                   snapped, exit, signals>>

\* Both pump threads end: the peers are done, or stop() has shut the pair down.
PumpsEnd(c) ==
    /\ Alive /\ Move(c, "pump", "close")
    /\ UNCHANGED <<stack, stopping, eventLock, listening, lock, connections, open,
                   snap, snapped,
                   exit, signals>>

ClosePair(c) ==
    /\ Alive /\ Move(c, "close", "reacquire")
    /\ open' = open \ {c}
    /\ UNCHANGED <<stack, stopping, eventLock, listening, lock, connections, snap,
                   snapped, exit, signals>>

Discard(c) ==
    /\ Alive /\ Move(c, "discard", "unlock")
    /\ connections' = connections \ {c}
    /\ UNCHANGED <<stack, stopping, eventLock, listening, lock, open, snap,
                   snapped, exit, signals>>

HandleStep(c) ==
    \/ Connect(c) \/ Acquire(c) \/ Check(c) \/ Refuse(c) \/ Register(c)
    \/ Release(c) \/ ClosePair(c) \/ Discard(c)
    \/ c \notin open /\ PumpsEnd(c)

Next ==
    \/ MainStep \/ Signal \/ AcceptFails
    \/ \E c \in Clients : Accept(c) \/ HandleStep(c) \/ PumpsEnd(c)

(***************************************************************************)
(* Threads that can run do run.  Each client takes the lock at most twice, *)
(* so no more is needed.  No client has to connect or to hang up.          *)
(***************************************************************************)
Fairness ==
    /\ WF_vars(MainStep)
    /\ \A c \in Clients : WF_vars(HandleStep(c))

Spec == Init /\ [][Next]_vars /\ Fairness
-----------------------------------------------------------------------------
(***************************************************************************)
(* Properties.                                                             *)
(***************************************************************************)
\* The lock has at most one owner and every thread is at a known place.
TypeOK ==
    /\ stack \in Seq(ServePcs \cup StopPcs)
    /\ stopping \in BOOLEAN /\ eventLock \in BOOLEAN
    /\ listening \in BOOLEAN /\ snapped \in BOOLEAN
    /\ lock \in {{}} \cup {{o} : o \in Clients \cup {Main}}
    /\ connections \subseteq Clients /\ open \subseteq Clients /\ snap \subseteq Clients
    /\ thread \in [Clients -> HandlePcs]
    /\ exit \in {"no", "clean", "error"}
    /\ signals \in Nat

\* Once stop() has copied the connections, no further pair is ever registered:
\* handle() tests `stopping` under the lock under which it registers, and stop()
\* sets it before it takes the lock.
NoLateRegistration ==
    [][snapped => connections' \subseteq connections]_vars

\* When serve() returns, no registered pair still has open sockets.
CleanExitClosesAll == exit = "clean" => connections \cap open = {}

\* stop() misses no connection: none is registered behind its back and none of
\* the registered ones survives a clean exit.
StopClosesAll == NoLateRegistration /\ []CleanExitClosesAll

\* The main thread waits for a lock that a frame below it holds: a signal arrived
\* inside the `with self.lock` block of another stop(), or inside its Event.set().
SelfLocked == (lock = {Main} /\ Top = "acquire") \/ (eventLock /\ Top = "set")

\* A signal ends the forward (require-wp5-readiness.sh:497 "Ctrl-C closes the UI
\* and third-party entry"; stop_forwarder waits for the process to end).  One signal
\* always does.  With a second there are exactly two ways not to end: it interrupted
\* one of the two critical sections of a stop().  No other thread ever keeps the lock
\* from the handler.
SignalTerminates == (signals > 0) ~> (~Alive \/ (SelfLocked /\ signals > 1))
=============================================================================
