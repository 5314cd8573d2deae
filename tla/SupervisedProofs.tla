--------------------------- MODULE SupervisedProofs ----------------------------
(***************************************************************************)
(* The two processes that the readiness script looks after: stop() of the  *)
(* forward misses no connection, for any number of clients and signals,    *)
(* and a readiness answer of the backend is never older than the check     *)
(* that got it, for any number of concurrent checks, file changes and      *)
(* restarts.  The two specifications share no variable.                    *)
(***************************************************************************)
EXTENDS DemoForwarder, BackendReadiness, SequenceTheorems, TLAPS

(***************************************************************************)
(* The forward.                                                            *)
(***************************************************************************)
Frames == 1 .. Len(stack)

(***************************************************************************)
(* The inductive invariant.  The stack has serve() at the bottom and only  *)
(* stop() frames above it (StackShape).  A frame or a thread inside a      *)
(* `with self.lock` block owns the lock, and only one frame does           *)
(* (LockHeld).  Nobody who is about to register has missed `stopping`      *)
(* (StopSeen).  A stop() that has copied has copied every open pair        *)
(* (Copied), so nothing is left when the last one returns (Left).          *)
(***************************************************************************)
Types ==
    /\ stack \in Seq(ServePcs \cup StopPcs) /\ stack # <<>>
    /\ thread \in [Clients -> HandlePcs]
    /\ lock \in {{}} \cup {{o} : o \in Clients \cup {Main}}
    /\ stopping \in BOOLEAN /\ snapped \in BOOLEAN

StackShape ==
    /\ stack[Len(stack)] \in ServePcs
    /\ \A i \in Frames : i # Len(stack) => stack[i] \in StopPcs

Critical == {"check", "refuse", "register", "release", "discard", "unlock"}
LockHeld ==
    /\ \A c \in Clients : thread[c] \in Critical => lock = {c}
    /\ \A i \in Frames : stack[i] \in {"copy", "release"} => lock = {Main}
    /\ \A i, j \in Frames : stack[i] \in {"copy", "release"} /\ stack[j] \in {"copy", "release"} => i = j

StopSeen ==
    /\ \A i \in Frames : stack[i] \in StopPcs \ {"set", "flag"} => stopping
    /\ snapped => stopping /\ \A c \in Clients : thread[c] # "register"

Registered == \A c \in connections : c \in Clients /\ thread[c] \notin {"idle", "connect"}

Copied == \A i \in Frames : stack[i] \in {"release", "shut"} => snapped /\ connections \cap open \subseteq snap

Left ==
    /\ Head(stack) = "returned" => snapped /\ connections \cap open = {}
    /\ exit = "clean" => connections \cap open = {}

IInv == Types /\ StackShape /\ LockHeld /\ StopSeen /\ Registered /\ Copied /\ Left
-----------------------------------------------------------------------------
(***************************************************************************)
(* The three ways in which the stack changes.                              *)
(***************************************************************************)
LEMMA GotoStack ==
    ASSUME NEW S, NEW s \in Seq(S), s # <<>>, NEW p \in S, NEW t, t = <<p>> \o Tail(s)
    PROVE  /\ t \in Seq(S) /\ t # <<>> /\ Len(t) = Len(s) /\ t[1] = p /\ Head(t) = p
           /\ \A i \in 1 .. Len(s) : i # 1 => t[i] = s[i]
<1>1. Len(s) \in Nat \ {0} /\ Tail(s) \in Seq(S) /\ Len(Tail(s)) = Len(s) - 1
  BY EmptySeq, LenProperties, HeadTailProperties
<1>2. <<p>> \in Seq(S) /\ Len(<<p>>) = 1
  OBVIOUS
<1>3. t \in Seq(S) /\ Len(t) = Len(s)
  BY <1>1, <1>2, ConcatProperties
<1>4. t[1] = p
  BY <1>1, <1>2, ConcatProperties
<1>5. \A i \in 1 .. Len(s) : i # 1 => t[i] = s[i]
  BY <1>1, <1>2, ConcatProperties, HeadTailProperties
<1> QED BY <1>1, <1>3, <1>4, <1>5, EmptySeq, HeadTailProperties

LEMMA PushStack ==
    ASSUME NEW S, NEW s \in Seq(S), NEW p \in S, NEW t, t = <<p>> \o s
    PROVE  /\ t \in Seq(S) /\ t # <<>> /\ Len(t) = Len(s) + 1 /\ t[1] = p /\ Head(t) = p
           /\ \A i \in 1 .. Len(t) : i # 1 => i - 1 \in 1 .. Len(s) /\ t[i] = s[i - 1]
<1>1. Len(s) \in Nat
  BY LenProperties
<1>2. <<p>> \in Seq(S) /\ Len(<<p>>) = 1 /\ <<p>>[1] = p
  OBVIOUS
<1>3. t \in Seq(S) /\ Len(t) = Len(s) + 1
  BY <1>1, <1>2, ConcatProperties
<1>4. t[1] = p
  BY <1>1, <1>2, ConcatProperties
<1>5. \A i \in 1 .. Len(t) : i # 1 => i - 1 \in 1 .. Len(s) /\ t[i] = s[i - 1]
  BY <1>1, <1>2, <1>3, ConcatProperties
<1> QED BY <1>1, <1>3, <1>4, <1>5, EmptySeq, HeadTailProperties

LEMMA PopStack ==
    ASSUME NEW S, NEW s \in Seq(S), Len(s) > 1, NEW t, t = Tail(s)
    PROVE  /\ t \in Seq(S) /\ t # <<>> /\ Len(t) = Len(s) - 1 /\ Head(t) = t[1]
           /\ \A i \in 1 .. Len(t) : i + 1 \in 1 .. Len(s) /\ t[i] = s[i + 1]
<1>1. Len(s) \in Nat /\ s # <<>>
  BY LenProperties, EmptySeq
<1>2. t \in Seq(S) /\ Len(t) = Len(s) - 1 /\ \A i \in 1 .. Len(t) : t[i] = s[i + 1]
  BY <1>1, HeadTailProperties
<1>3. t # <<>>
  BY <1>1, <1>2
<1>4. Head(t) = t[1]
  BY <1>2, <1>3
<1>5. \A i \in 1 .. Len(t) : i + 1 \in 1 .. Len(s)
  BY <1>1, <1>2
<1> QED BY <1>2, <1>3, <1>4, <1>5

\* The top frame is a stop() frame only above another one.
LEMMA TopFrame ==
    ASSUME Types, StackShape
    PROVE  /\ Len(stack) \in Nat /\ Len(stack) >= 1 /\ Top = stack[1] /\ 1 \in Frames
           /\ Top \in StopPcs => Len(stack) > 1
           /\ Top \in ServePcs => Len(stack) = 1
<1>1. Len(stack) \in Nat /\ Len(stack) >= 1
  BY EmptySeq, LenProperties DEF Types
<1>2. Top = stack[1]
  BY DEF Types, Top
<1>3. \A p : ~(p \in ServePcs /\ p \in StopPcs)
  BY DEF ServePcs, StopPcs
<1>4. 1 \in 1 .. Len(stack)
  BY <1>1
<1>5. Len(stack) # 1 => stack[1] \in StopPcs
  BY <1>4 DEF StackShape, Frames
<1>6. Len(stack) = 1 => stack[1] \in ServePcs
  BY DEF StackShape
<1>7. Top \in StopPcs => Len(stack) > 1
  BY <1>1, <1>2, <1>3, <1>6, SMTT(30)
<1>8. Top \in ServePcs => Len(stack) = 1
  BY <1>2, <1>3, <1>5
<1> QED BY <1>1, <1>2, <1>4, <1>7, <1>8 DEF Frames
-----------------------------------------------------------------------------
(***************************************************************************)
(* Steps of handle() and of the accept loop: the stack stays.              *)
(***************************************************************************)
\* A step of client c's thread that neither takes nor gives back the lock.
LocalMove(c, from, to) ==
    /\ exit = "no" /\ Move(c, from, to) /\ to \in HandlePcs
    /\ from \in Critical <=> to \in Critical
    /\ to = "register" => ~stopping
    /\ to \in {"idle", "connect"} => from = "idle"
    /\ \/ connections' \subseteq connections
       \/ connections' = connections \cup {c} /\ from = "register" /\ to = "release"
    /\ \/ open' \subseteq open
       \/ open' = open \cup {c} /\ from = "connect"
    /\ UNCHANGED <<stack, stopping, lock, snap, snapped, exit>>

LEMMA LocalStep ==
    ASSUME IInv, NEW c \in Clients, NEW from, NEW to, LocalMove(c, from, to)
    PROVE  IInv' /\ (snapped => connections' \subseteq connections)
<1> USE DEF LocalMove
<1>1. /\ thread[c] = from /\ thread' = [thread EXCEPT ![c] = to] /\ thread \in [Clients -> HandlePcs]
      /\ thread'[c] = to /\ \A d \in Clients : d # c => thread'[d] = thread[d]
  BY DEF Move, IInv, Types
<1>2. Types'
  BY <1>1 DEF IInv, Types
<1>3. StackShape'
  BY DEF IInv, StackShape, Frames
<1>4. LockHeld'
  BY <1>1 DEF IInv, LockHeld, Frames
<1>5. StopSeen'
  BY <1>1 DEF IInv, StopSeen, Frames
<1>6. snapped => connections' \subseteq connections
  BY <1>1 DEF IInv, StopSeen
<1>7. Registered'
  BY <1>1 DEF IInv, Registered
<1>8. snapped => connections' \cap open' \subseteq connections \cap open
  BY <1>1, <1>6 DEF IInv, Registered
<1>9. Copied'
  BY <1>8 DEF IInv, Copied, Frames
<1>10. Left'
  BY <1>8 DEF IInv, Left
<1> QED BY <1>2, <1>3, <1>4, <1>5, <1>6, <1>7, <1>9, <1>10 DEF IInv

\* handle() enters or leaves a `with self.lock` block.
LEMMA LockStep ==
    ASSUME IInv, NEW c \in Clients, Acquire(c) \/ Release(c)
    PROVE  IInv' /\ UNCHANGED connections
<1> PICK from \in HandlePcs, to \in HandlePcs :
      Move(c, from, to) /\ <<from, to>> \in {<<"acquire", "check">>, <<"reacquire", "discard">>,
                                            <<"release", "pump">>, <<"unlock", "end">>}
  BY DEF Acquire, Release, HandlePcs
<1>1. /\ thread[c] = from /\ thread' = [thread EXCEPT ![c] = to] /\ thread \in [Clients -> HandlePcs]
      /\ thread'[c] = to /\ \A d \in Clients : d # c => thread'[d] = thread[d]
  BY DEF Move, IInv, Types
<1>2. UNCHANGED <<stack, stopping, connections, open, snap, snapped, exit>>
  BY DEF Acquire, Release
<1>3. Types'
  BY <1>1, <1>2 DEF IInv, Types, Acquire, Release
<1>4. LockHeld'
  <2>1. CASE Acquire(c)
    <3>1. lock = {} /\ lock' = {c}
      BY <2>1 DEF Acquire
    <3>2. /\ \A d \in Clients : thread[d] \notin Critical
          /\ \A i \in Frames : stack[i] \notin {"copy", "release"}
      BY <3>1 DEF IInv, LockHeld
    <3> QED BY <1>1, <1>2, <3>1, <3>2 DEF LockHeld, Frames
  <2>2. CASE Release(c)
    <3>1. from \in Critical /\ to \notin Critical
      BY <1>1, <2>2 DEF Release, Move, Critical
    <3>2. lock = {c}
      BY <1>1, <3>1 DEF IInv, LockHeld
    <3>3. /\ \A d \in Clients : d # c => thread[d] \notin Critical
          /\ \A i \in Frames : stack[i] \notin {"copy", "release"}
      BY <3>2, ForwarderAssumption DEF IInv, LockHeld
    <3> QED BY <1>1, <1>2, <3>1, <3>3 DEF LockHeld, Frames
  <2> QED BY <2>1, <2>2
<1>5. StackShape' /\ Copied' /\ Left'
  BY <1>2 DEF IInv, StackShape, Copied, Left, Frames
<1>6. StopSeen'
  BY <1>1, <1>2 DEF IInv, StopSeen, Frames
<1>7. Registered'
  BY <1>1, <1>2 DEF IInv, Registered
<1> QED BY <1>2, <1>3, <1>4, <1>5, <1>6, <1>7 DEF IInv

\* Every other step of handle(), and the start of its thread.
LEMMA ThreadStep ==
    ASSUME IInv, NEW c \in Clients, Accept(c) \/ HandleStep(c) \/ PumpsEnd(c)
    PROVE  IInv' /\ (snapped => connections' \subseteq connections)
<1> USE DEF Critical, HandlePcs, Alive, Move
<1>1. CASE Accept(c)
  <2>1. LocalMove(c, "idle", "connect")
    BY <1>1 DEF Accept, LocalMove
  <2> QED BY <2>1, LocalStep
<1>2. CASE Connect(c)
  <2>1. LocalMove(c, "connect", "acquire") \/ LocalMove(c, "connect", "end")
    BY <1>2 DEF Connect, LocalMove
  <2> QED BY <2>1, LocalStep
<1>3. CASE Acquire(c) \/ Release(c)
  BY <1>3, LockStep
<1>4. CASE Check(c)
  <2>1. LocalMove(c, "check", "refuse") \/ LocalMove(c, "check", "register")
    BY <1>4 DEF Check, LocalMove
  <2> QED BY <2>1, LocalStep
<1>5. CASE Refuse(c)
  <2>1. LocalMove(c, "refuse", "unlock")
    BY <1>5 DEF Refuse, LocalMove
  <2> QED BY <2>1, LocalStep
<1>6. CASE Register(c)
  <2>1. LocalMove(c, "register", "release")
    BY <1>6 DEF Register, LocalMove
  <2> QED BY <2>1, LocalStep
<1>7. CASE PumpsEnd(c)
  <2>1. LocalMove(c, "pump", "close")
    BY <1>7 DEF PumpsEnd, LocalMove
  <2> QED BY <2>1, LocalStep
<1>8. CASE ClosePair(c)
  <2>1. LocalMove(c, "close", "reacquire")
    BY <1>8 DEF ClosePair, LocalMove
  <2> QED BY <2>1, LocalStep
<1>9. CASE Discard(c)
  <2>1. LocalMove(c, "discard", "unlock")
    BY <1>9 DEF Discard, LocalMove
  <2> QED BY <2>1, LocalStep
<1> QED BY <1>1, <1>2, <1>3, <1>4, <1>5, <1>6, <1>7, <1>8, <1>9 DEF HandleStep
-----------------------------------------------------------------------------
(***************************************************************************)
(* Steps of the main thread.                                               *)
(***************************************************************************)
\* stop() moves on within its frame: the frames below are as before.
LEMMA StopGoto ==
    ASSUME IInv, Top \in StopPcs, NEW p \in StopPcs, Goto(p)
    PROVE  /\ stack' \in Seq(ServePcs \cup StopPcs) /\ stack' # <<>> /\ Head(stack') = p
           /\ StackShape' /\ Frames' = Frames /\ 1 \in Frames /\ stack'[1] = p /\ stack[1] = Top
           /\ \A i \in Frames : i # 1 => stack'[i] = stack[i]
           /\ p \notin {"copy", "release", "shut"} => (Copied /\ UNCHANGED <<connections, open, snap, snapped>> => Copied')
<1>1. /\ Len(stack) \in Nat /\ Len(stack) > 1 /\ Top = stack[1] /\ 1 \in Frames
  BY TopFrame DEF IInv
<1>2. /\ stack' \in Seq(ServePcs \cup StopPcs) /\ stack' # <<>> /\ Len(stack') = Len(stack)
      /\ stack'[1] = p /\ Head(stack') = p
      /\ \A i \in 1 .. Len(stack) : i # 1 => stack'[i] = stack[i]
  BY GotoStack DEF IInv, Types, Goto
<1>3. Frames' = Frames
  BY <1>2 DEF Frames
<1>4. StackShape'
  <2>1. stack'[Len(stack')] = stack[Len(stack)]
    BY <1>1, <1>2
  <2> QED BY <1>1, <1>2, <1>3, <2>1 DEF IInv, StackShape, Frames
<1>5. ASSUME p \notin {"copy", "release", "shut"}, Copied, UNCHANGED <<connections, open, snap, snapped>>
      PROVE  Copied'
  BY <1>2, <1>3, <1>5 DEF Copied, Frames
<1> QED BY <1>1, <1>2, <1>3, <1>4, <1>5 DEF Frames

\* stop() sets the event and closes the listener.
LEMMA BeforeLock ==
    ASSUME IInv, EventAcquire \/ SetStopping \/ EventRelease \/ CloseListener
    PROVE  IInv' /\ UNCHANGED connections
<1> DEFINE p == CASE Top = "set" -> "flag" [] Top = "flag" -> "notify"
                  [] Top = "notify" -> "close" [] OTHER -> "acquire"
<1>1. /\ Top \in {"set", "flag", "notify", "close"} /\ Goto(p) /\ exit = "no"
      /\ (Top = "flag" => stopping') /\ stopping' \in BOOLEAN /\ (stopping => stopping')
      /\ UNCHANGED <<lock, connections, open, snap, snapped, thread, exit>>
  BY DEF EventAcquire, SetStopping, EventRelease, CloseListener, Alive, IInv, Types
<1>2. /\ p \in StopPcs /\ p \notin {"set", "copy", "release", "shut", "returned"}
      /\ Top \in StopPcs /\ (p = "flag" <=> Top = "set")
  BY <1>1 DEF StopPcs
<1> HIDE DEF p
<1>3. /\ stack' \in Seq(ServePcs \cup StopPcs) /\ stack' # <<>> /\ Head(stack') = p
      /\ StackShape' /\ Frames' = Frames /\ 1 \in Frames /\ stack'[1] = p /\ stack[1] = Top
      /\ \A i \in Frames : i # 1 => stack'[i] = stack[i]
      /\ Copied'
  BY <1>1, <1>2, StopGoto DEF IInv
<1>4. Types'
  BY <1>1, <1>3 DEF IInv, Types
<1>5. LockHeld'
  BY <1>1, <1>2, <1>3 DEF IInv, LockHeld
<1>6. p # "flag" => stopping'
  <2>1. Top \in {"notify", "close"} => stopping
    BY <1>3 DEF IInv, StopSeen, StopPcs
  <2> QED BY <1>1, <1>2, <2>1
<1>7. StopSeen'
  BY <1>1, <1>3, <1>6 DEF IInv, StopSeen
<1>8. Registered' /\ Left'
  BY <1>1, <1>2, <1>3 DEF IInv, Registered, Left
<1> QED BY <1>1, <1>3, <1>4, <1>5, <1>7, <1>8 DEF IInv

\* stop() takes the lock: no thread is inside a block and no lower frame is.
LEMMA AcquireStep ==
    ASSUME IInv, StopAcquire
    PROVE  IInv' /\ UNCHANGED connections
<1>1. /\ Top = "acquire" /\ lock = {} /\ lock' = {Main} /\ Goto("copy") /\ exit = "no"
      /\ UNCHANGED <<stopping, connections, open, snap, snapped, thread, exit>>
  BY DEF StopAcquire, Alive
<1>2. "copy" \in StopPcs /\ Top \in StopPcs
  BY <1>1 DEF StopPcs
<1>3. /\ stack' \in Seq(ServePcs \cup StopPcs) /\ stack' # <<>> /\ Head(stack') = "copy"
      /\ StackShape' /\ Frames' = Frames /\ 1 \in Frames /\ stack'[1] = "copy" /\ stack[1] = Top
      /\ \A i \in Frames : i # 1 => stack'[i] = stack[i]
  BY <1>1, <1>2, StopGoto
<1>4. Types'
  BY <1>1, <1>3 DEF IInv, Types
<1>5. /\ \A c \in Clients : thread[c] \notin Critical
      /\ \A i \in Frames : stack[i] \notin {"copy", "release"}
  BY <1>1 DEF IInv, LockHeld
<1>6. LockHeld'
  BY <1>1, <1>3, <1>5 DEF LockHeld
<1>7. StopSeen'
  BY <1>1, <1>2, <1>3 DEF IInv, StopSeen, StopPcs
<1>8. Copied'
  BY <1>1, <1>3 DEF IInv, Copied
<1>9. Registered' /\ Left'
  BY <1>1, <1>3 DEF IInv, Registered, Left
<1> QED BY <1>1, <1>3, <1>4, <1>6, <1>7, <1>8, <1>9 DEF IInv

\* stop() copies the connections: it holds the lock, so no thread is about to
\* register, and every frame that relies on the copy now relies on all of them.
LEMMA CopyStep ==
    ASSUME IInv, StopCopy
    PROVE  IInv' /\ UNCHANGED connections
<1>1. /\ Top = "copy" /\ snap' = connections /\ snapped' = TRUE /\ Goto("release") /\ exit = "no"
      /\ UNCHANGED <<stopping, lock, connections, open, thread, exit>>
  BY DEF StopCopy, Alive
<1>2. "release" \in StopPcs /\ Top \in StopPcs
  BY <1>1 DEF StopPcs
<1>3. /\ stack' \in Seq(ServePcs \cup StopPcs) /\ stack' # <<>> /\ Head(stack') = "release"
      /\ StackShape' /\ Frames' = Frames /\ 1 \in Frames /\ stack'[1] = "release" /\ stack[1] = Top
      /\ \A i \in Frames : i # 1 => stack'[i] = stack[i]
  BY <1>1, <1>2, StopGoto
<1>4. Types'
  BY <1>1, <1>3 DEF IInv, Types
<1>5. lock = {Main}
  BY <1>1, <1>3 DEF IInv, LockHeld
<1>6. \A c \in Clients : thread[c] \notin Critical
  BY <1>5, ForwarderAssumption DEF IInv, LockHeld
<1>7. \A i \in Frames : i # 1 => stack[i] \notin {"copy", "release"}
  BY <1>1, <1>3 DEF IInv, LockHeld
<1>8. LockHeld'
  BY <1>1, <1>3, <1>5, <1>6, <1>7 DEF LockHeld
<1>9. stopping
  BY <1>1, <1>3 DEF IInv, StopSeen, StopPcs
<1>10. StopSeen'
  BY <1>1, <1>3, <1>6, <1>9 DEF StopSeen, Critical
<1>11. Copied'
  BY <1>1 DEF Copied
<1>12. Registered' /\ Left'
  BY <1>1, <1>3 DEF IInv, Registered, Left
<1> QED BY <1>1, <1>3, <1>4, <1>8, <1>10, <1>11, <1>12 DEF IInv

\* stop() gives the lock back.
LEMMA ReleaseStep ==
    ASSUME IInv, StopRelease
    PROVE  IInv' /\ UNCHANGED connections
<1>1. /\ Top = "release" /\ lock' = {} /\ Goto("shut") /\ exit = "no"
      /\ UNCHANGED <<stopping, connections, open, snap, snapped, thread, exit>>
  BY DEF StopRelease, Alive
<1>2. "shut" \in StopPcs /\ Top \in StopPcs
  BY <1>1 DEF StopPcs
<1>3. /\ stack' \in Seq(ServePcs \cup StopPcs) /\ stack' # <<>> /\ Head(stack') = "shut"
      /\ StackShape' /\ Frames' = Frames /\ 1 \in Frames /\ stack'[1] = "shut" /\ stack[1] = Top
      /\ \A i \in Frames : i # 1 => stack'[i] = stack[i]
  BY <1>1, <1>2, StopGoto
<1>4. Types'
  BY <1>1, <1>3 DEF IInv, Types
<1>5. lock = {Main}
  BY <1>1, <1>3 DEF IInv, LockHeld
<1>6. \A c \in Clients : thread[c] \notin Critical
  BY <1>5, ForwarderAssumption DEF IInv, LockHeld
<1>7. \A i \in Frames : i # 1 => stack[i] \notin {"copy", "release"}
  BY <1>1, <1>3 DEF IInv, LockHeld
<1>8. LockHeld'
  BY <1>1, <1>3, <1>6, <1>7 DEF LockHeld
<1>9. StopSeen'
  BY <1>1, <1>2, <1>3 DEF IInv, StopSeen, StopPcs
<1>10. Copied'
  BY <1>1, <1>3 DEF IInv, Copied
<1>11. Registered' /\ Left'
  BY <1>1, <1>3 DEF IInv, Registered, Left
<1> QED BY <1>1, <1>3, <1>4, <1>8, <1>9, <1>10, <1>11 DEF IInv

\* stop() closes the pairs of its copy and returns to the frame below.
LEMMA ShutStep ==
    ASSUME IInv, StopShut
    PROVE  IInv' /\ UNCHANGED connections
<1>1. /\ Top = "shut" /\ open' = open \ snap /\ stack' = Tail(stack) /\ exit = "no"
      /\ UNCHANGED <<stopping, lock, connections, snap, snapped, thread, exit>>
  BY DEF StopShut, Alive
<1>2. Top \in StopPcs
  BY <1>1 DEF StopPcs
<1>3. Len(stack) \in Nat /\ Len(stack) > 1 /\ Top = stack[1] /\ 1 \in Frames
  BY <1>2, TopFrame DEF IInv
<1>4. /\ stack' \in Seq(ServePcs \cup StopPcs) /\ stack' # <<>> /\ Len(stack') = Len(stack) - 1
      /\ \A i \in 1 .. Len(stack') : i + 1 \in 1 .. Len(stack) /\ stack'[i] = stack[i + 1]
  BY <1>1, <1>3, PopStack DEF IInv, Types
<1>5. Types'
  BY <1>1, <1>4 DEF IInv, Types
<1>6. StackShape'
  <2>1. stack'[Len(stack')] = stack[Len(stack)]
    BY <1>3, <1>4
  <2>2. ASSUME NEW i \in Frames', i # Len(stack') PROVE stack'[i] \in StopPcs
    BY <1>3, <1>4, <2>2 DEF IInv, StackShape, Frames
  <2> QED BY <2>1, <2>2 DEF IInv, StackShape
<1>7. LockHeld'
  <2>1. \A i \in Frames' : i \in Nat /\ i + 1 \in Frames /\ stack'[i] = stack[i + 1]
    BY <1>4 DEF Frames
  <2>2. \A i, j \in Frames' : stack'[i] \in {"copy", "release"} /\ stack'[j] \in {"copy", "release"} => i + 1 = j + 1
    BY <2>1 DEF IInv, LockHeld
  <2>3. \A i, j \in Frames' : stack'[i] \in {"copy", "release"} /\ stack'[j] \in {"copy", "release"} => i = j
    BY <2>1, <2>2
  <2> QED BY <1>1, <2>1, <2>3 DEF IInv, LockHeld
<1>8. StopSeen'
  BY <1>1, <1>4 DEF IInv, StopSeen, Frames
<1>9. snapped /\ connections \cap open \subseteq snap
  BY <1>1, <1>3 DEF IInv, Copied
<1>10. Copied' /\ Left' /\ Registered'
  BY <1>1, <1>9 DEF IInv, Copied, Left, Registered
<1> QED BY <1>1, <1>5, <1>6, <1>7, <1>8, <1>10 DEF IInv

\* A signal puts a fresh stop() on top of whatever the main thread was doing.
LEMMA SignalStep ==
    ASSUME IInv, Signal
    PROVE  IInv' /\ UNCHANGED connections
<1>1. /\ stack' = <<"set">> \o stack /\ exit = "no"
      /\ UNCHANGED <<stopping, lock, connections, open, snap, snapped, thread, exit>>
  BY DEF Signal, Alive
<1>2. Len(stack) \in Nat /\ Len(stack) >= 1
  BY TopFrame DEF IInv
<1>3. /\ stack' \in Seq(ServePcs \cup StopPcs) /\ stack' # <<>> /\ Len(stack') = Len(stack) + 1
      /\ stack'[1] = "set" /\ Head(stack') = "set"
      /\ \A i \in 1 .. Len(stack') : i # 1 => i - 1 \in 1 .. Len(stack) /\ stack'[i] = stack[i - 1]
  <2>1. "set" \in ServePcs \cup StopPcs
    BY DEF StopPcs
  <2> QED BY <1>1, <2>1, PushStack DEF IInv, Types
<1>4. Types'
  BY <1>1, <1>3 DEF IInv, Types
<1>5. StackShape'
  <2>1. stack'[Len(stack')] = stack[Len(stack)]
    BY <1>2, <1>3
  <2>2. ASSUME NEW i \in Frames', i # Len(stack') PROVE stack'[i] \in StopPcs
    <3>1. CASE i = 1
      BY <1>3, <3>1 DEF StopPcs
    <3>2. CASE i # 1
      BY <1>2, <1>3, <2>2, <3>2 DEF IInv, StackShape, Frames
    <3> QED BY <3>1, <3>2
  <2> QED BY <2>1, <2>2 DEF IInv, StackShape
<1>6. \A i \in Frames' : stack'[i] = "set" \/ (i \in Nat /\ i - 1 \in Frames /\ stack'[i] = stack[i - 1])
  BY <1>3 DEF Frames
<1>7. LockHeld'
  <2>1. \A i, j \in Frames' : stack'[i] \in {"copy", "release"} /\ stack'[j] \in {"copy", "release"} => i - 1 = j - 1
    BY <1>6 DEF IInv, LockHeld
  <2>2. \A i, j \in Frames' : stack'[i] \in {"copy", "release"} /\ stack'[j] \in {"copy", "release"} => i = j
    BY <1>6, <2>1
  <2> QED BY <1>1, <1>6, <2>2 DEF IInv, LockHeld
<1>8. StopSeen'
  BY <1>1, <1>6 DEF IInv, StopSeen
<1>9. Copied'
  BY <1>1, <1>6 DEF IInv, Copied
<1>10. Left' /\ Registered'
  BY <1>1, <1>3 DEF IInv, Left, Registered
<1> QED BY <1>1, <1>4, <1>5, <1>7, <1>8, <1>9, <1>10 DEF IInv

\* The accept loop ends: serve() calls stop(), fails or returns.
LEMMA ServeStep ==
    ASSUME IInv, LeaveLoop \/ AcceptFails \/ Return
    PROVE  IInv' /\ UNCHANGED connections
<1>1. CASE LeaveLoop
  <2>1. /\ Top = "accept" /\ stopping /\ stack' = <<"set", "returned">> /\ snap' = {} /\ exit = "no"
        /\ UNCHANGED <<stopping, lock, connections, open, snapped, thread, exit>>
    BY <1>1 DEF LeaveLoop, Alive
  <2>2. /\ Len(stack') = 2 /\ stack'[1] = "set" /\ stack'[2] = "returned" /\ Frames' = {1, 2}
        /\ stack' # <<>> /\ Head(stack') = "set"
    BY <2>1 DEF Frames
  <2>3. stack' \in Seq(ServePcs \cup StopPcs)
    BY <2>1 DEF ServePcs, StopPcs
  <2>4. Types'
    BY <2>1, <2>2, <2>3 DEF IInv, Types
  <2>5. StackShape'
    BY <2>2 DEF StackShape, ServePcs, StopPcs
  <2>6. LockHeld' /\ Copied' /\ Left' /\ Registered'
    BY <2>1, <2>2 DEF IInv, LockHeld, Copied, Left, Registered
  <2>7. StopSeen'
    BY <2>1, <2>2 DEF IInv, StopSeen, StopPcs
  <2> QED BY <2>1, <2>4, <2>5, <2>6, <2>7 DEF IInv
<1>2. CASE AcceptFails \/ Return
  <2>1. UNCHANGED <<stack, stopping, lock, connections, open, snap, snapped, thread>>
    BY <1>2 DEF AcceptFails, Return
  <2>2. exit' = "clean" => Head(stack) = "returned"
    BY <1>2 DEF AcceptFails, Return, Top
  <2>3. Left'
    BY <2>1, <2>2 DEF IInv, Left
  <2> QED BY <2>1, <2>3 DEF IInv, Types, StackShape, LockHeld, StopSeen, Registered, Copied, Frames
<1> QED BY <1>1, <1>2
-----------------------------------------------------------------------------
LEMMA InitIInv == Init => IInv
<1> SUFFICES ASSUME Init PROVE IInv
  OBVIOUS
<1>1. /\ stack = <<"accept">> /\ Len(stack) = 1 /\ stack[1] = "accept" /\ Head(stack) = "accept"
      /\ Frames = {1} /\ stack # <<>>
  BY DEF Init, Frames
<1>2. Types
  <2>1. stack \in Seq(ServePcs \cup StopPcs)
    BY <1>1 DEF ServePcs
  <2>2. thread \in [Clients -> HandlePcs]
    BY DEF Init, HandlePcs
  <2> QED BY <1>1, <2>1, <2>2 DEF Init, Types
<1>3. StackShape
  BY <1>1 DEF StackShape, ServePcs
<1>4. LockHeld /\ StopSeen /\ Registered /\ Copied /\ Left
  BY <1>1 DEF Init, LockHeld, StopSeen, Registered, Copied, Left, Critical, StopPcs
<1> QED BY <1>2, <1>3, <1>4 DEF IInv

LEMMA NextIInv ==
    ASSUME IInv, [Next]_vars
    PROVE  IInv' /\ (snapped => connections' \subseteq connections)
<1>1. CASE UNCHANGED vars
  BY <1>1 DEF vars, IInv, Types, StackShape, LockHeld, StopSeen, Registered, Copied, Left, Frames
<1>2. CASE MainStep \/ Signal \/ AcceptFails
  <2>1. IInv' /\ UNCHANGED connections
    BY <1>2, ServeStep, BeforeLock, AcquireStep, CopyStep, ReleaseStep, ShutStep, SignalStep DEF MainStep
  <2> QED BY <2>1
<1>3. CASE \E c \in Clients : Accept(c) \/ HandleStep(c) \/ PumpsEnd(c)
  BY <1>3, ThreadStep
<1> QED BY <1>1, <1>2, <1>3 DEF Next

\* The lock of wp5-demo-forward.py protects what it is meant to protect, for any
\* number of clients and signals, signals inside stop() included.
THEOREM ForwarderInvariant == Spec => []IInv
<1> QED BY InitIInv, NextIInv, PTL DEF Spec

\* stop() misses no connection: after its copy of `connections` no pair is ever
\* registered, and when serve() returns no registered pair has open sockets.
THEOREM ForwarderStops == Spec => StopClosesAll
<1>1. IInv /\ [Next]_vars => [snapped => connections' \subseteq connections]_vars
  BY NextIInv
<1>2. IInv => CleanExitClosesAll
  BY DEF IInv, Left, CleanExitClosesAll
<1> QED BY ForwarderInvariant, <1>1, <1>2, PTL DEF Spec, StopClosesAll, NoLateRegistration
-----------------------------------------------------------------------------
(***************************************************************************)
(* The backend.                                                            *)
(***************************************************************************)
(***************************************************************************)
(* The inductive invariant.  Only a ready process has a connection or a    *)
(* check with one, and its hash is of real certificates (Served).  What a  *)
(* connected check has observed includes the files as they are             *)
(* (Observing).  A connection belongs to nobody or to a check under way,   *)
(* and no check has two (Queued).  The check the handler works for has     *)
(* seen usable files once the handler goes on to the hash (Handling).      *)
(***************************************************************************)
CheckState == [state : {"none", "connected", "waiting", "answered", "failed"},
               answer : Answers \cup {None}, matched : BOOLEAN, usable : BOOLEAN]

Served ==
    /\ server.step = "loaded" => server.generation < MaxStarts
    /\ server.step = "ready" => server.hashed \in Contents

Observing ==
    \A c \in Checkers : Connected(c) =>
        /\ server.step = "ready"
        /\ disk.content = server.hashed => check[c].matched
        /\ disk.usable => check[c].usable

Queued ==
    /\ \A i \in 1 .. Len(queue) : queue[i].checker \in Checkers => Connected(queue[i].checker)
    /\ \A i, j \in 1 .. Len(queue) :
         queue[i].checker = queue[j].checker /\ queue[i].checker \in Checkers => i = j

Handling ==
    /\ queue = <<>> => handler = "accept"
    /\ queue # <<>> /\ handler = "hash" /\ queue[1].checker \in Checkers =>
         check[queue[1].checker].usable

BackendInv ==
    BackendTypeOK /\ Served /\ Observing /\ Queued /\ Handling /\ ReadyIsCurrent
-----------------------------------------------------------------------------
LEMMA InitBackend == BackendInit => BackendInv
<1> SUFFICES ASSUME BackendInit PROVE BackendInv
  OBVIOUS
<1>1. NoCheck \in CheckState /\ NoCheck.state = "none"
  BY DEF NoCheck, CheckState
<1>2. check \in [Checkers -> CheckState] /\ \A c \in Checkers : check[c].state = "none"
  BY <1>1 DEF BackendInit
<1>3. queue = <<>> /\ queue \in Seq(Entries) /\ Len(queue) = 0 /\ handler = "accept"
  BY DEF BackendInit
<1>4. BackendTypeOK
  BY <1>2, <1>3, BackendAssumption DEF BackendInit, BackendTypeOK, Down, Steps, CheckState
<1> QED BY <1>2, <1>3, <1>4 DEF BackendInit, BackendInv, Served, Observing, Queued, Handling,
       ReadyIsCurrent, Connected, Down

\* create_server and ReadyServer.__init__: no check has a connection before the
\* socket is bound.
LEMMA StartStep ==
    ASSUME BackendInv, create_server \/ ReadyServer
    PROVE  BackendInv'
<1>1. /\ server \in [step : Steps, loaded : Contents \cup {None}, hashed : Contents \cup {None},
                     generation : 0 .. MaxStarts]
      /\ disk.content \in Contents /\ MaxStarts \in Nat
  BY BackendAssumption DEF BackendInv, BackendTypeOK
<1>2. UNCHANGED <<disk, changes, queue, handler, check>> /\ server.step # "ready"
  BY DEF create_server, ReadyServer
<1>3. queue = <<>> /\ \A c \in Checkers : ~Connected(c)
  BY <1>2 DEF BackendInv, BackendTypeOK, Observing
<1>4. /\ server' \in [step : Steps, loaded : Contents \cup {None}, hashed : Contents \cup {None},
                      generation : 0 .. MaxStarts]
      /\ Served'
  <2>1. CASE create_server
    BY <1>1, <2>1 DEF create_server, Steps, Served
  <2>2. CASE ReadyServer
    <3>1. server.generation < MaxStarts
      BY <2>2 DEF ReadyServer, BackendInv, Served
    <3>2. server.generation + 1 \in 0 .. MaxStarts /\ "ready" \in Steps
      BY <1>1, <3>1 DEF Steps
    <3>3. server' = [server EXCEPT !.step = "ready", !.hashed = disk.content, !.generation = server.generation + 1]
      BY <2>2 DEF ReadyServer
    <3> QED BY <1>1, <3>2, <3>3 DEF Served
  <2> QED BY <2>1, <2>2
<1>5. BackendTypeOK'
  BY <1>2, <1>3, <1>4 DEF BackendInv, BackendTypeOK
<1> QED BY <1>2, <1>3, <1>4, <1>5
       DEF BackendInv, Observing, Queued, Handling, ReadyIsCurrent, Connected

\* The process ends: every check under way fails.
LEMMA ExitStep ==
    ASSUME BackendInv, Exit
    PROVE  BackendInv'
<1>1. check \in [Checkers -> CheckState]
  BY DEF BackendInv, BackendTypeOK, CheckState
<1>2. /\ check' \in [Checkers -> CheckState]
      /\ \A c \in Checkers : check'[c].state \notin {"connected", "waiting"}
                             /\ (check'[c].state = "answered" => check'[c] = check[c])
  <2>1. \A c \in Checkers : [check[c] EXCEPT !.state = "failed"] \in CheckState
                            /\ [check[c] EXCEPT !.state = "failed"].state = "failed"
    BY <1>1 DEF CheckState
  <2> QED BY <1>1, <2>1 DEF Exit, Connected
<1>3. server' \in [step : Steps, loaded : Contents \cup {None}, hashed : Contents \cup {None},
                   generation : 0 .. MaxStarts]
      /\ server'.step = "down"
  BY DEF Exit, Down, BackendInv, BackendTypeOK, Steps
<1>4. /\ queue' = <<>> /\ queue' \in Seq(Entries) /\ Len(queue') = 0 /\ handler' = "accept"
      /\ UNCHANGED <<disk, changes>>
  BY DEF Exit
<1>5. BackendTypeOK'
  BY <1>2, <1>3, <1>4 DEF BackendInv, BackendTypeOK, CheckState
<1> QED BY <1>2, <1>3, <1>4, <1>5
       DEF BackendInv, Served, Observing, Queued, Handling, ReadyIsCurrent, Connected

\* A check connects, and starts to observe the files; or it fails.
LEMMA ConnectCheckStep ==
    ASSUME BackendInv, NEW c \in Checkers, ConnectCheck(c)
    PROVE  BackendInv'
<1>1. /\ check \in [Checkers -> CheckState] /\ disk.usable \in BOOLEAN
      /\ queue \in Seq(Entries) /\ Len(queue) \in Nat
  BY DEF BackendInv, BackendTypeOK, CheckState
<1>2. UNCHANGED <<disk, changes, server, handler>> /\ ~Connected(c)
  BY DEF ConnectCheck
<1>3. \A i \in 1 .. Len(queue) : queue[i].checker # c
  BY <1>2 DEF BackendInv, Queued
<1>4. NoCheck \in CheckState
  BY DEF NoCheck, CheckState
<1>5. CASE server.step = "ready" /\ Len(queue) < Backlog
  <2> DEFINE b == disk.content = server.hashed
             k == [NoCheck EXCEPT !.state = "connected", !.usable = disk.usable, !.matched = b]
             e == [checker |-> c, sent |-> FALSE]
  <2>1. check' = [check EXCEPT ![c] = k] /\ queue' = Append(queue, e)
    BY <1>5 DEF ConnectCheck
  <2>2. k \in CheckState /\ k.state = "connected" /\ k.usable = disk.usable /\ k.matched = b
    BY <1>1, <1>4 DEF CheckState
  <2>3. e \in Entries /\ e.checker = c
    BY DEF Entries
  <2> HIDE DEF e, k
  <2>4. /\ check' \in [Checkers -> CheckState] /\ check'[c] = k
        /\ \A d \in Checkers : d # c => check'[d] = check[d]
    BY <1>1, <2>1, <2>2
  <2>5. /\ queue' \in Seq(Entries) /\ queue' # <<>> /\ Len(queue') = Len(queue) + 1
        /\ \A i \in 1 .. Len(queue) : queue'[i] = queue[i]
        /\ queue'[Len(queue) + 1] = e
    BY <1>1, <2>1, <2>3, AppendProperties
  <2>6. \A i \in 1 .. Len(queue') : \/ i \in 1 .. Len(queue) /\ queue'[i] = queue[i]
                                    \/ i = Len(queue) + 1 /\ queue'[i].checker = c
    BY <1>1, <2>3, <2>5
  <2>7. BackendTypeOK' /\ Served'
    BY <1>2, <1>5, <2>4, <2>5 DEF BackendInv, BackendTypeOK, Served, CheckState
  <2>8. Observing' /\ ReadyIsCurrent'
    BY <1>2, <1>5, <2>2, <2>4 DEF BackendInv, Observing, ReadyIsCurrent, Connected
  <2>9. Queued'
    BY <1>3, <2>2, <2>4, <2>6 DEF BackendInv, Queued, Connected
  <2>10. Handling'
    <3>1. CASE queue = <<>>
      BY <1>2, <2>5, <3>1 DEF BackendInv, Handling
    <3>2. CASE queue # <<>>
      <4>1. 1 \in 1 .. Len(queue)
        BY <1>1, <3>2, EmptySeq
      <4> QED BY <1>2, <1>3, <2>4, <2>5, <3>2, <4>1 DEF BackendInv, Handling
    <3> QED BY <3>1, <3>2
  <2> QED BY <2>7, <2>8, <2>9, <2>10 DEF BackendInv
<1>6. CASE ~(server.step = "ready" /\ Len(queue) < Backlog)
  <2> DEFINE k == [NoCheck EXCEPT !.state = "failed"]
  <2>1. check' = [check EXCEPT ![c] = k] /\ queue' = queue
    BY <1>6 DEF ConnectCheck
  <2>2. k \in CheckState /\ k.state = "failed"
    BY <1>4 DEF CheckState
  <2> HIDE DEF k
  <2>3. /\ check' \in [Checkers -> CheckState] /\ check'[c] = k
        /\ \A d \in Checkers : d # c => check'[d] = check[d]
    BY <1>1, <2>1, <2>2
  <2>4. BackendTypeOK' /\ Served'
    BY <1>2, <2>1, <2>3 DEF BackendInv, BackendTypeOK, Served, CheckState
  <2>5. Observing' /\ ReadyIsCurrent'
    BY <1>2, <2>2, <2>3 DEF BackendInv, Observing, ReadyIsCurrent, Connected
  <2>6. Queued'
    BY <1>3, <2>1, <2>3 DEF BackendInv, Queued, Connected
  <2>7. Handling'
    <3>1. queue # <<>> => 1 \in 1 .. Len(queue)
      BY <1>1, EmptySeq
    <3> QED BY <1>2, <1>3, <2>1, <2>3, <3>1 DEF BackendInv, Handling
  <2> QED BY <2>4, <2>5, <2>6, <2>7 DEF BackendInv
<1> QED BY <1>5, <1>6

\* A check sends its request, or gives up: its connection stays in its place, and
\* belongs to nobody in the second case.
LEMMA ClientStep ==
    ASSUME BackendInv, NEW c \in Checkers, Send(c) \/ Timeout(c)
    PROVE  BackendInv'
<1> DEFINE s == IF Send(c) THEN "waiting" ELSE "failed"
           o == IF Send(c) THEN c ELSE None
<1>1. /\ check \in [Checkers -> CheckState] /\ queue \in Seq(Entries) /\ Len(queue) \in Nat
      /\ DOMAIN queue = 1 .. Len(queue)
  BY DEF BackendInv, BackendTypeOK, CheckState
<1>2. UNCHANGED <<disk, changes, server, handler>> /\ Connected(c)
  BY DEF Send, Timeout, Connected
<1>3. check' = [check EXCEPT ![c].state = s]
  BY DEF Send, Timeout
<1>4. PICK e \in Entries : queue' = Entry(c, e) /\ e.checker = o
  <2>1. CASE Send(c)
    <3>1. [checker |-> c, sent |-> TRUE] \in Entries
      BY DEF Entries
    <3> QED BY <2>1, <3>1 DEF Send
  <2>2. CASE ~Send(c)
    <3> DEFINE t == check[c].state = "waiting"
    <3>1. queue' = Entry(c, [checker |-> None, sent |-> t])
      BY <2>2 DEF Timeout
    <3>2. [checker |-> None, sent |-> t] \in Entries
      BY DEF Entries
    <3> HIDE DEF t
    <3> QED BY <2>2, <3>1, <3>2
  <2> QED BY <2>1, <2>2
<1>5. o \in {c, None} /\ (s = "waiting" \/ o = None) /\ s \in {"waiting", "failed"} /\ None \notin Checkers
  BY BackendAssumption
<1> HIDE DEF s, o
<1>6. /\ check' \in [Checkers -> CheckState]
      /\ \A d \in Checkers : d # c => check'[d] = check[d]
      /\ check'[c].state = s /\ check'[c].matched = check[c].matched
      /\ check'[c].usable = check[c].usable
  BY <1>1, <1>3, <1>5 DEF CheckState
<1>7. /\ queue' \in [1 .. Len(queue) -> Entries]
      /\ \A i \in 1 .. Len(queue) : queue'[i] = IF queue[i].checker = c THEN e ELSE queue[i]
  <2>1. \A i \in 1 .. Len(queue) : queue[i] \in Entries
    BY <1>1, ElementOfSeq
  <2> QED BY <1>1, <1>4, <2>1 DEF Entry
<1>8. queue' \in Seq(Entries) /\ Len(queue') = Len(queue)
  BY <1>1, <1>7, SeqDef, LenProperties
<1>9. queue' = <<>> <=> queue = <<>>
  BY <1>1, <1>8, EmptySeq
<1>10. \A i \in 1 .. Len(queue) : /\ queue'[i].checker \in Checkers => queue'[i].checker = queue[i].checker
                                  /\ queue[i].checker = c => queue'[i].checker = o
  BY <1>4, <1>5, <1>7
<1>11. BackendTypeOK' /\ Served'
  BY <1>2, <1>6, <1>8, <1>9 DEF BackendInv, BackendTypeOK, Served, CheckState
<1>12. Observing' /\ ReadyIsCurrent'
  BY <1>2, <1>5, <1>6 DEF BackendInv, Observing, ReadyIsCurrent, Connected
<1>13. Queued'
  <2>1. ASSUME NEW i \in 1 .. Len(queue), queue'[i].checker \in Checkers
        PROVE  Connected(queue[i].checker)'
    <3>1. queue'[i].checker = queue[i].checker /\ Connected(queue[i].checker)
      BY <1>10, <2>1 DEF BackendInv, Queued
    <3>2. CASE queue[i].checker = c
      <4>1. o = c /\ s = "waiting"
        BY <1>5, <1>10, <2>1, <3>1, <3>2
      <4> QED BY <1>6, <3>1, <3>2, <4>1 DEF Connected
    <3>3. CASE queue[i].checker # c
      BY <1>6, <2>1, <3>1, <3>3 DEF Connected
    <3> QED BY <3>2, <3>3
  <2>2. \A i, j \in 1 .. Len(queue) :
          queue'[i].checker = queue'[j].checker /\ queue'[i].checker \in Checkers => i = j
    BY <1>10 DEF BackendInv, Queued
  <2> QED BY <1>8, <2>1, <2>2 DEF Queued
<1>14. Handling'
  <2>1. queue # <<>> => 1 \in 1 .. Len(queue)
    BY <1>1, EmptySeq
  <2> QED BY <1>2, <1>6, <1>9, <1>10, <2>1 DEF BackendInv, Handling
<1> QED BY <1>11, <1>12, <1>13, <1>14 DEF BackendInv

\* The handler goes on with its connection.
LEMMA HandleKeeps ==
    ASSUME BackendInv, queue # <<>>, NEW step \in {"recv", "revalidate", "hash"}, Handle(step),
           step = "hash" => disk.usable
    PROVE  BackendInv'
<1>1. handler' = step /\ UNCHANGED <<disk, changes, server, queue, check>>
  BY DEF Handle
<1>2. BackendTypeOK'
  BY <1>1 DEF BackendInv, BackendTypeOK
<1>3. 1 \in 1 .. Len(queue)
  BY EmptySeq, LenProperties DEF BackendInv, BackendTypeOK
<1>4. Handling'
  BY <1>1, <1>3 DEF BackendInv, Handling, Queued, Observing
<1> QED BY <1>1, <1>2, <1>4 DEF BackendInv, Served, Observing, Queued, ReadyIsCurrent, Connected

\* The handler returns: an answer is only given to a check that has seen the
\* hashed certificates and usable files.
LEMMA CloseStep ==
    ASSUME BackendInv, queue # <<>>, NEW answer, answer \in Answers \cup {None}, Close(answer),
           queue[1].checker \in Checkers /\ answer # None =>
               check[queue[1].checker].matched /\ check[queue[1].checker].usable
    PROVE  BackendInv'
<1>1. /\ check \in [Checkers -> CheckState] /\ queue \in Seq(Entries) /\ Len(queue) \in Nat
      /\ Len(queue) > 0
  BY EmptySeq, LenProperties DEF BackendInv, BackendTypeOK, CheckState
<1>2. /\ UNCHANGED <<disk, changes, server>> /\ queue' = Tail(queue) /\ handler' = "accept"
      /\ Head(queue) = queue[1]
  BY <1>1 DEF Close
<1>3. 1 \in 1 .. Len(queue) /\ queue[1] \in Entries /\ queue[1].checker \in Checkers \cup {None}
  <2>1. 1 \in 1 .. Len(queue)
    BY <1>1
  <2>2. queue[1] \in Entries
    BY <1>1, <2>1, ElementOfSeq
  <2> QED BY <2>1, <2>2 DEF Entries
<1>4. /\ queue' \in Seq(Entries) /\ Len(queue') = Len(queue) - 1
      /\ \A i \in 1 .. Len(queue') : i \in Nat /\ i + 1 \in 1 .. Len(queue) /\ i + 1 # 1
                                     /\ queue'[i] = queue[i + 1]
  BY <1>1, <1>2, HeadTailProperties
<1>5. /\ \A i \in 1 .. Len(queue') : queue'[i].checker \in Checkers =>
              Connected(queue'[i].checker) /\ queue'[i].checker # queue[1].checker
      /\ \A i, j \in 1 .. Len(queue') :
            queue'[i].checker = queue'[j].checker /\ queue'[i].checker \in Checkers => i + 1 = j + 1
  BY <1>3, <1>4 DEF BackendInv, Queued
<1>6. \A i, j \in 1 .. Len(queue') :
        queue'[i].checker = queue'[j].checker /\ queue'[i].checker \in Checkers => i = j
  BY <1>4, <1>5
<1>7. CASE queue[1].checker = None
  <2>1. check' = check
    BY <1>2, <1>7 DEF Close
  <2>2. BackendTypeOK'
    BY <1>2, <1>4, <2>1 DEF BackendInv, BackendTypeOK
  <2> QED BY <1>2, <1>5, <1>6, <2>1, <2>2
         DEF BackendInv, Served, Observing, Queued, Handling, ReadyIsCurrent, Connected
<1>8. CASE queue[1].checker # None
  <2> DEFINE k == queue[1].checker
             s == IF answer = None THEN "failed" ELSE "answered"
  <2>1. k \in Checkers
    BY <1>3, <1>8
  <2>2. check' = [check EXCEPT ![k].state = s, ![k].answer = answer]
    BY <1>2, <1>8 DEF Close
  <2>3. /\ check' \in [Checkers -> CheckState]
        /\ \A d \in Checkers : d # k => check'[d] = check[d]
        /\ check'[k].state = s /\ check'[k].matched = check[k].matched
        /\ check'[k].usable = check[k].usable
    BY <1>1, <2>1, <2>2 DEF CheckState
  <2>4. BackendTypeOK' /\ Served'
    BY <1>2, <1>4, <2>3 DEF BackendInv, BackendTypeOK, Served, CheckState
  <2>5. ReadyIsCurrent'
    BY <2>1, <2>3 DEF BackendInv, ReadyIsCurrent
  <2>6. Observing'
    BY <1>2, <2>1, <2>3 DEF BackendInv, Observing, Connected
  <2>7. Queued'
    BY <1>5, <1>6, <2>3 DEF Queued, Connected
  <2> QED BY <1>2, <2>4, <2>5, <2>6, <2>7 DEF BackendInv, Handling
<1> QED BY <1>7, <1>8

\* serve_forever and ReadyHandler.handle; the last step compares the files as they
\* are then.
LEMMA HandlerKeeps ==
    ASSUME BackendInv, HandlerStep
    PROVE  BackendInv'
<1>1. queue # <<>> /\ server.step = "ready"
  BY DEF HandlerStep, AcceptCheck, Recv, RecvTimeout, Revalidate, CompareAndAnswer, At, BackendInv,
     BackendTypeOK
<1>2. ASSUME Close(None) PROVE BackendInv'
  BY <1>1, <1>2, CloseStep
<1>3. CASE AcceptCheck \/ Recv \/ RecvTimeout \/ Revalidate
  BY <1>1, <1>2, <1>3, HandleKeeps DEF AcceptCheck, Recv, RecvTimeout, Revalidate
<1>4. CASE CompareAndAnswer
  <2> DEFINE answer == IF disk.content = server.hashed THEN Status ELSE None
  <2>1. handler = "hash" /\ Close(answer)
    BY <1>4 DEF CompareAndAnswer, At
  <2>2. answer \in Answers \cup {None}
    BY <1>1, BackendAssumption DEF BackendInv, BackendTypeOK, Served, Status, Answers
  <2>3. 1 \in 1 .. Len(queue)
    BY <1>1, EmptySeq, LenProperties DEF BackendInv, BackendTypeOK
  <2>4. queue[1].checker \in Checkers /\ answer # None =>
          check[queue[1].checker].matched /\ check[queue[1].checker].usable
    BY <1>1, <2>1, <2>3 DEF BackendInv, Queued, Handling, Observing
  <2> HIDE DEF answer
  <2> QED BY <1>1, <2>1, <2>2, <2>4, CloseStep
<1> QED BY <1>3, <1>4 DEF HandlerStep

\* The files change, at any moment: every check under way observes it.
LEMMA ChangeStep ==
    ASSUME BackendInv, NEW content \in Contents, NEW usable \in BOOLEAN, Change(content, usable)
    PROVE  BackendInv'
<1>1. check \in [Checkers -> CheckState] /\ changes \in 0 .. MaxChanges /\ MaxChanges \in Nat
  BY BackendAssumption DEF BackendInv, BackendTypeOK, CheckState
<1>2. /\ UNCHANGED <<server, queue, handler>> /\ disk' = [content |-> content, usable |-> usable]
      /\ changes' \in 0 .. MaxChanges
  BY <1>1 DEF Change
<1>3. ASSUME NEW d \in Checkers
      PROVE  /\ check'[d] \in CheckState /\ check'[d].state = check[d].state
             /\ ~Connected(d) => check'[d] = check[d]
             /\ check[d].usable => check'[d].usable
             /\ Connected(d) =>
                  (content = server.hashed => check'[d].matched) /\ (usable => check'[d].usable)
  <2>1. CASE ~Connected(d)
    BY <1>1, <2>1 DEF Change, Observed
  <2>2. CASE Connected(d)
    <3>1. check'[d] = [check[d] EXCEPT !.matched = @ \/ content = server.hashed, !.usable = @ \/ usable]
      BY <2>2 DEF Change, Observed
    <3>2. check[d] \in CheckState
      BY <1>1
    <3> QED BY <2>2, <3>1, <3>2 DEF CheckState
  <2> QED BY <2>1, <2>2
<1>4. check' \in [Checkers -> CheckState]
  BY <1>3 DEF Change, Observed
<1>5. BackendTypeOK' /\ Served'
  BY <1>2, <1>4 DEF BackendInv, BackendTypeOK, Served, CheckState
<1>6. Observing'
  BY <1>2, <1>3 DEF BackendInv, Observing, Connected
<1>7. ReadyIsCurrent'
  BY <1>3 DEF BackendInv, ReadyIsCurrent, Connected
<1>8. Queued'
  BY <1>2, <1>3 DEF BackendInv, Queued, Connected
<1>9. Handling'
  BY <1>2, <1>3 DEF BackendInv, Handling
<1> QED BY <1>5, <1>6, <1>7, <1>8, <1>9 DEF BackendInv
-----------------------------------------------------------------------------
LEMMA NextBackend == BackendInv /\ [BackendNext]_backendVars => BackendInv'
<1> SUFFICES ASSUME BackendInv, [BackendNext]_backendVars PROVE BackendInv'
  OBVIOUS
<1>1. CASE UNCHANGED backendVars
  BY <1>1 DEF backendVars, BackendInv, BackendTypeOK, Served, Observing, Queued, Handling,
     ReadyIsCurrent, Connected
<1>2. CASE BackendNext
  BY <1>2, StartStep, ExitStep, ConnectCheckStep, ClientStep, HandlerKeeps, ChangeStep
     DEF BackendNext
<1> QED BY <1>1, <1>2

\* Every variable of the backend's readiness keeps its type, and only a ready
\* process handles connections.
THEOREM BackendTypes == BackendSpec => []BackendTypeOK
<1>1. BackendInv => BackendTypeOK
  BY DEF BackendInv
<1> QED BY InitBackend, NextBackend, <1>1, PTL DEF BackendSpec

\* A check of check_ready that succeeds names certificates that were on disk, and
\* files that were usable, while it ran: ReadyHandler.handle compares after it
\* has been asked, however the checks, restarts and file changes interleave.
THEOREM AnswerIsCurrent == BackendSpec => []ReadyIsCurrent
<1>1. BackendInv => ReadyIsCurrent
  BY DEF BackendInv
<1> QED BY InitBackend, NextBackend, <1>1, PTL DEF BackendSpec
===============================================================================
