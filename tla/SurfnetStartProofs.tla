------------------------- MODULE SurfnetStartProofs -------------------------
(* Theorems about the start and the kill of surfnets, for any number of    *)
(* starts, of ports and of ports per surfnet.                              *)
EXTENDS SurfnetStart, SequenceTheorems, TLAPS

-----------------------------------------------------------------------------
(* The invariant.                                                          *)

\* The caller is in a start or holds a handle.
Engaged == pc \in {"ports", "recv", "up", "join"}

\* A start is begun before it has a thread, and its thread before its sockets.
Begun ==
    /\ Engaged => n \in Starts
    /\ \A s \in Starts : s > n => thread[s] = "none"
    /\ pc = "ports" => thread[n] = "none"
    /\ \A p \in Ports : owner[p] \in Starts => Running(owner[p])

\* What the caller waits for, and what the events in the channel tell.
Told ==
    /\ pc = "ports" => events = <<>>
    /\ \A s \in Starts : thread[s] = "starting" => s = n /\ pc = "recv"
    /\ pc = "recv" /\ "ready" \in Range(events) => thread[n] \in {"serving", "ended"}
    /\ pc = "recv" /\ "aborted" \in Range(events) => thread[n] \in {"lingering", "ended"}
    /\ pc \in {"up", "join"} => thread[n] \in {"serving", "ended"}

\* A surfnet that serves has all of its ports.
Bound ==
    pc \in {"recv", "up", "join"} /\ thread[n] = "serving" =>
        \A p \in Range(ports) : owner[p] = n

\* A thread the caller has no handle of was given up on.
Abandoned ==
    \A s \in Starts :
        Running(s) /\ (s # n \/ pc = "idle") => returned[s] = "aborted"

IInv == TypeOK /\ Begun /\ Told /\ Bound /\ Abandoned

-----------------------------------------------------------------------------
(* The channel.                                                            *)

\* What is in a sequence after a push, and after a pop.
LEMMA PushRange ==
    ASSUME NEW S, NEW q \in Seq(S), NEW x \in S
    PROVE  Range(Append(q, x)) = Range(q) \cup {x}
<1>1. /\ Append(q, x) \in Seq(S) /\ Len(Append(q, x)) = Len(q) + 1 /\ Len(q) \in Nat
      /\ \A i \in 1..Len(q) : Append(q, x)[i] = q[i]
      /\ Append(q, x)[Len(q) + 1] = x
  BY AppendProperties
<1>2. DOMAIN q = 1..Len(q) /\ DOMAIN Append(q, x) = 1..(Len(q) + 1)
  BY <1>1
<1>3. Range(Append(q, x)) \subseteq Range(q) \cup {x}
  <2> SUFFICES ASSUME NEW i \in 1..(Len(q) + 1)
               PROVE  Append(q, x)[i] \in Range(q) \cup {x}
    BY <1>2 DEF Range
  <2>1. CASE i \in 1..Len(q)
    BY <1>1, <1>2, <2>1 DEF Range
  <2>2. CASE i = Len(q) + 1
    BY <1>1, <2>2
  <2> QED BY <1>1, <2>1, <2>2
<1>4. Range(q) \cup {x} \subseteq Range(Append(q, x))
  <2>1. ASSUME NEW i \in 1..Len(q) PROVE q[i] \in Range(Append(q, x))
    <3>1. i \in 1..(Len(q) + 1) /\ Append(q, x)[i] = q[i]
      BY <1>1
    <3> QED BY <1>2, <3>1 DEF Range
  <2>2. x \in Range(Append(q, x))
    <3>1. Len(q) + 1 \in 1..(Len(q) + 1)
      BY <1>1
    <3> QED BY <1>1, <1>2, <3>1 DEF Range
  <2> QED BY <1>2, <2>1, <2>2 DEF Range
<1> QED BY <1>3, <1>4

\* Popping adds nothing.
LEMMA PopRange ==
    ASSUME NEW S, NEW q \in Seq(S), q # <<>>
    PROVE  /\ Tail(q) \in Seq(S) /\ Len(Tail(q)) = Len(q) - 1
           /\ Head(q) \in Range(q) /\ Range(Tail(q)) \subseteq Range(q)
<1>1. Len(q) \in Nat \ {0} /\ DOMAIN q = 1..Len(q)
  BY EmptySeq
<1>2. /\ Tail(q) \in Seq(S) /\ Len(Tail(q)) = Len(q) - 1 /\ Head(q) = q[1]
      /\ \A i \in 1..Len(Tail(q)) : Tail(q)[i] = q[i + 1]
  BY <1>1, HeadTailProperties
<1>3. ASSUME NEW i \in 1..Len(Tail(q)) PROVE Tail(q)[i] \in Range(q)
  BY <1>1, <1>2 DEF Range
<1>4. DOMAIN Tail(q) = 1..Len(Tail(q))
  BY <1>2
<1> QED BY <1>1, <1>2, <1>3, <1>4 DEF Range

-----------------------------------------------------------------------------
(* The caller.                                                             *)

\* Before the first start there is nothing to leave behind.
LEMMA InitInv == Init => IInv
<1> SUFFICES ASSUME Init PROVE IInv
  OBVIOUS
<1>1. TypeOK
  BY EmptySeq, NumPortsAssumption, BoundsAssumption DEF Init, TypeOK
<1>2. Begun /\ Told /\ Bound /\ Abandoned
  BY DEF Init, Begun, Told, Bound, Abandoned, Engaged, Running, Starts
<1> QED BY <1>1, <1>2 DEF IInv

\* A new start has no thread, and the one before it has ended or was given up on.
LEMMA BeginInv ==
    ASSUME IInv, Begin
    PROVE  IInv'
<1> USE DEF IInv
<1>1. /\ pc = "idle" /\ pc' = "ports" /\ n' = n + 1 /\ n \in Nat /\ n' \in Starts
      /\ ports' = <<>> /\ events' = <<>>
      /\ UNCHANGED <<thread, terminate, owner, returned>>
  BY BoundsAssumption DEF Begin, Goto, TypeOK, Starts
<1>2. TypeOK'
  BY <1>1, EmptySeq, NumPortsAssumption, BoundsAssumption DEF TypeOK, Starts
<1>3. Begun'
  <2>1. \A s \in Starts : s > n' => s > n
    BY <1>1 DEF Starts
  <2>2. n' > n
    BY <1>1
  <2> QED BY <1>1, <2>1, <2>2 DEF Begun, Running
<1>4. Told' /\ Bound'
  BY <1>1 DEF Told, Bound
<1>5. Abandoned'
  BY <1>1 DEF Abandoned, Running
<1> QED BY <1>2, <1>3, <1>4, <1>5

\* A start fails before it has a thread, or after its thread has ended.
LEMMA ReturnInv ==
    ASSUME IInv, pc \in {"ports", "recv"}, ~Running(n),
           NEW result \in {"noPort", "closed"}, Return(result), Goto("idle"),
           UNCHANGED <<n, ports, events, thread, terminate, owner>>
    PROVE  IInv'
<1> USE DEF IInv
<1>1. TypeOK' /\ n \in Starts
  BY DEF TypeOK, Return, Goto, Begun, Engaged
<1>2. Begun' /\ Told' /\ Bound'
  BY DEF Begun, Told, Bound, Engaged, Goto, Running
<1>3. Abandoned'
  BY <1>1 DEF Abandoned, Running, Goto, Return, TypeOK
<1> QED BY <1>1, <1>2, <1>3

\* Looking for ports has no effect outside of the caller.
LEMMA FindPortInv ==
    ASSUME IInv, FindPort
    PROVE  IInv'
<1> USE DEF IInv
<1>1. CASE Return("noPort") /\ Goto("idle") /\ UNCHANGED ports
  <2>1. ~Running(n)
    BY DEF FindPort, Begun, Running
  <2> QED BY <1>1, <2>1, ReturnInv DEF FindPort
<1>2. CASE /\ \E p \in Ports : owner[p] = 0 /\ ports' = Append(ports, p)
           /\ UNCHANGED <<pc, returned>>
  <2>1. /\ pc = "ports" /\ Len(ports) < NumPorts
        /\ UNCHANGED <<pc, n, events, thread, terminate, owner, returned>>
    BY <1>2 DEF FindPort
  <2>2. ports' \in Seq(Ports) /\ Len(ports') <= NumPorts
    BY <1>2, <2>1, AppendProperties, LenProperties, NumPortsAssumption DEF TypeOK
  <2>3. TypeOK'
    BY <2>1, <2>2 DEF TypeOK
  <2>4. Begun' /\ Told' /\ Bound' /\ Abandoned'
    BY <2>1 DEF Begun, Told, Bound, Abandoned, Engaged, Running
  <2> QED BY <2>3, <2>4
<1> QED BY <1>1, <1>2 DEF FindPort

\* The thread starts with an empty channel.
LEMMA SpawnInv ==
    ASSUME IInv, Spawn
    PROVE  IInv'
<1> USE DEF IInv
<1>1. /\ pc = "ports" /\ pc' = "recv" /\ n \in Starts /\ thread[n] = "none"
      /\ thread' = [thread EXCEPT ![n] = "starting"]
      /\ UNCHANGED <<n, ports, events, terminate, owner, returned>>
  BY DEF Spawn, Goto, Begun, Engaged
<1>2. TypeOK'
  BY <1>1 DEF TypeOK
<1>3. Begun'
  BY <1>1 DEF Begun, Engaged, Running, TypeOK, Starts
<1>4. Told'
  <2>1. Range(events') = {}
    BY <1>1 DEF Told, Range
  <2> QED BY <1>1, <2>1 DEF Told, Begun, TypeOK
<1>5. Bound' /\ Abandoned'
  BY <1>1 DEF Bound, Abandoned, Running, TypeOK
<1> QED BY <1>2, <1>3, <1>4, <1>5

\* A surfnet is taken for ready, or for aborted, only when it said so.
LEMMA ReceiveInv ==
    ASSUME IInv, Receive
    PROVE  IInv'
<1> USE DEF IInv
<1> DEFINE Event == {"ready", "aborted", "other"}
<1>1. /\ pc = "recv" /\ n \in Starts /\ events' = Tail(events)
      /\ UNCHANGED <<n, ports, thread, terminate, owner>>
  BY DEF Receive, Begun, Engaged
<1>2. /\ events' \in Seq(Event) /\ Len(events') <= MaxEvents
      /\ Head(events) \in Range(events) /\ Range(events') \subseteq Range(events)
  <2>1. events \in Seq(Event) /\ events # <<>> /\ Len(events) <= MaxEvents
    BY DEF Receive, TypeOK
  <2>2. Len(events) \in Nat
    BY <2>1, LenProperties
  <2> QED BY <1>1, <2>1, <2>2, PopRange, BoundsAssumption
<1>3. CASE Head(events) = "ready" /\ Return("ok") /\ Goto("up")
  <2>1. thread[n] \in {"serving", "ended"}
    BY <1>1, <1>2, <1>3 DEF Told
  <2>2. TypeOK'
    BY <1>1, <1>2, <1>3 DEF TypeOK, Return, Goto
  <2>3. Begun' /\ Told' /\ Bound'
    BY <1>1, <1>3, <2>1 DEF Begun, Told, Bound, Engaged, Running, Goto
  <2>4. Abandoned'
    BY <1>1, <1>3 DEF Abandoned, Running, Goto, Return, TypeOK
  <2> QED BY <2>2, <2>3, <2>4
<1>4. CASE Head(events) = "aborted" /\ Return("aborted") /\ Goto("idle")
  <2>1. thread[n] \in {"lingering", "ended"}
    BY <1>1, <1>2, <1>4 DEF Told
  <2>2. TypeOK'
    BY <1>1, <1>2, <1>4 DEF TypeOK, Return, Goto
  <2>3. Begun' /\ Told' /\ Bound'
    BY <1>1, <1>4, <2>1 DEF Begun, Told, Bound, Engaged, Running, Goto
  <2>4. Abandoned'
    BY <1>1, <1>4 DEF Abandoned, Running, Goto, Return, TypeOK
  <2> QED BY <2>2, <2>3, <2>4
<1>5. CASE UNCHANGED <<returned, pc>>
  <2>1. TypeOK'
    BY <1>1, <1>2, <1>5 DEF TypeOK
  <2>2. Begun' /\ Told' /\ Bound' /\ Abandoned'
    BY <1>1, <1>2, <1>5 DEF Begun, Told, Bound, Abandoned, Engaged, Running
  <2> QED BY <2>1, <2>2
<1> QED BY <1>3, <1>4, <1>5 DEF Receive

\* kill() gives the handle up only when the thread has ended.
LEMMA KillInv ==
    ASSUME IInv, Kill \/ Joined
    PROVE  IInv'
<1> USE DEF IInv
<1>1. n \in Starts /\ UNCHANGED <<n, ports, events, thread, owner, returned>>
  BY DEF Kill, Joined, Begun, Engaged
<1>2. TypeOK'
  BY <1>1 DEF Kill, Joined, Goto, TypeOK
<1>3. Begun' /\ Told' /\ Bound'
  BY <1>1 DEF Kill, Joined, Goto, Begun, Told, Bound, Engaged, Running
<1>4. Abandoned'
  BY <1>1 DEF Kill, Joined, Goto, Abandoned, Running
<1> QED BY <1>2, <1>3, <1>4

\* All steps of the caller.
LEMMA CallerInv ==
    ASSUME IInv, Caller
    PROVE  IInv'
<1>1. CASE ReceiveClosed
  BY <1>1, ReturnInv DEF ReceiveClosed
<1> QED BY <1>1, BeginInv, FindPortInv, SpawnInv, ReceiveInv, KillInv DEF Caller, Waiting

-----------------------------------------------------------------------------
(* The surfnet and the machine.                                            *)

\* An event of the surfnet that is being waited for.
LEMMA SendsFacts ==
    ASSUME TypeOK, pc = "recv", NEW event \in {"ready", "aborted", "other"}, Sends(n, event)
    PROVE  /\ events' \in Seq({"ready", "aborted", "other"}) /\ Len(events') <= MaxEvents
           /\ Range(events') = Range(events) \cup {event}
<1> DEFINE Event == {"ready", "aborted", "other"}
<1>1. events \in Seq(Event) /\ Len(events) \in Nat /\ Len(events) < MaxEvents
  BY LenProperties DEF TypeOK, Sends
<1>2. events' = Append(events, event)
  BY DEF Sends
<1>3. events' \in Seq(Event) /\ Len(events') = Len(events) + 1
  BY <1>1, <1>2, AppendProperties
<1>4. Range(events') = Range(events) \cup {event}
  BY <1>1, <1>2, PushRange
<1> QED BY <1>1, <1>3, <1>4, BoundsAssumption

\* It says that it is ready when all of its ports are its own.
LEMMA ServeInv ==
    ASSUME IInv, NEW s \in Starts, Serve(s)
    PROVE  IInv'
<1> USE DEF IInv
<1>1. /\ s = n /\ pc = "recv" /\ thread[n] = "starting"
      /\ thread' = [thread EXCEPT ![n] = "serving"]
      /\ owner' = [p \in Ports |-> IF p \in Range(ports) THEN n ELSE owner[p]]
      /\ Sends(n, "ready") /\ UNCHANGED <<pc, n, ports, terminate, returned>>
  BY DEF Serve, Told
<1>2. /\ events' \in Seq({"ready", "aborted", "other"}) /\ Len(events') <= MaxEvents
      /\ Range(events') = Range(events) \cup {"ready"}
  BY <1>1, SendsFacts
<1>3. TypeOK'
  BY <1>1, <1>2 DEF TypeOK
<1>4. Begun'
  BY <1>1 DEF Begun, Engaged, Running, TypeOK
<1>5. Told'
  BY <1>1, <1>2 DEF Told, TypeOK
<1>6. Bound'
  <2>1. Range(ports) \subseteq Ports
    BY DEF TypeOK, Range
  <2> QED BY <1>1, <2>1 DEF Bound
<1>7. Abandoned'
  BY <1>1 DEF Abandoned, Running, TypeOK
<1> QED BY <1>3, <1>4, <1>5, <1>6, <1>7

\* It aborts, with some of its ports.
LEMMA GiveUpInv ==
    ASSUME IInv, NEW s \in Starts, GiveUp(s)
    PROVE  IInv'
<1> USE DEF IInv
<1>1. /\ s = n /\ pc = "recv" /\ thread[n] = "starting"
      /\ thread' = [thread EXCEPT ![n] = "lingering"]
      /\ Sends(n, "aborted") /\ UNCHANGED <<pc, n, ports, terminate, returned>>
  BY DEF GiveUp, Told
<1>2. PICK B : owner' = [p \in Ports |-> IF p \in B THEN n ELSE owner[p]]
  BY <1>1 DEF GiveUp
<1>3. /\ events' \in Seq({"ready", "aborted", "other"}) /\ Len(events') <= MaxEvents
      /\ Range(events') = Range(events) \cup {"aborted"}
  BY <1>1, SendsFacts
<1>4. TypeOK'
  BY <1>1, <1>2, <1>3 DEF TypeOK
<1>5. Begun'
  BY <1>1, <1>2 DEF Begun, Engaged, Running, TypeOK
<1>6. Told'
  BY <1>1, <1>3 DEF Told, TypeOK
<1>7. Bound' /\ Abandoned'
  BY <1>1 DEF Bound, Abandoned, Running, TypeOK
<1> QED BY <1>4, <1>5, <1>6, <1>7

\* It says something else.
LEMMA NotifyInv ==
    ASSUME IInv, NEW s \in Starts, Notify(s)
    PROVE  IInv'
<1> USE DEF IInv
<1>1. /\ s = n /\ pc = "recv" /\ Sends(n, "other")
      /\ UNCHANGED <<pc, n, ports, thread, terminate, owner, returned>>
  BY DEF Notify
<1>2. /\ events' \in Seq({"ready", "aborted", "other"}) /\ Len(events') <= MaxEvents
      /\ Range(events') = Range(events) \cup {"other"}
  BY <1>1, SendsFacts
<1>3. TypeOK'
  BY <1>1, <1>2 DEF TypeOK
<1>4. Begun' /\ Told' /\ Bound' /\ Abandoned'
  BY <1>1, <1>2 DEF Begun, Told, Bound, Abandoned, Engaged, Running
<1> QED BY <1>3, <1>4

\* Its sockets go with its thread.
LEMMA EndedInv ==
    ASSUME IInv, NEW s \in Starts, Ended(s)
    PROVE  IInv'
<1> USE DEF IInv
<1>1. /\ Running(s) /\ thread' = [thread EXCEPT ![s] = "ended"]
      /\ owner' = [p \in Ports |-> IF owner[p] = s THEN 0 ELSE owner[p]]
      /\ UNCHANGED <<pc, n, ports, events, terminate, returned>>
  BY DEF Ended
<1>2. TypeOK'
  BY <1>1 DEF TypeOK
<1>3. Begun'
  <2>1. \A p \in Ports : owner'[p] \in Starts => owner'[p] = owner[p] /\ owner[p] # s
    BY <1>1 DEF Starts
  <2>2. \A q \in Starts : q # s /\ Running(q) => Running(q)'
    BY <1>1 DEF Running, TypeOK
  <2>3. \A p \in Ports : owner'[p] \in Starts => (Running(owner[p]))'
    BY <1>1, <2>1, <2>2 DEF Begun, Running, TypeOK
  <2> QED BY <1>1, <2>3 DEF Begun, Engaged, Running, TypeOK
<1>4. Told'
  BY <1>1 DEF Told, Running, TypeOK, Begun, Engaged
<1>5. Bound'
  <2> SUFFICES ASSUME pc \in {"recv", "up", "join"}, thread'[n] = "serving"
               PROVE  \A p \in Range(ports) : owner'[p] = n
    BY <1>1 DEF Bound
  <2>1. n \in Starts /\ n # s /\ thread[n] = "serving"
    BY <1>1 DEF Begun, Engaged, TypeOK
  <2>2. Range(ports) \subseteq Ports
    BY DEF TypeOK, Range
  <2> QED BY <1>1, <2>1, <2>2 DEF Bound
<1>6. Abandoned'
  BY <1>1 DEF Abandoned, Running, TypeOK
<1> QED BY <1>2, <1>3, <1>4, <1>5, <1>6

\* Other processes take and leave only what no surfnet holds.
LEMMA OthersInv ==
    ASSUME IInv, NEW p \in Ports, Others(p)
    PROVE  IInv'
<1> USE DEF IInv
<1>1. /\ owner[p] \in {0, -1} /\ owner' = [owner EXCEPT ![p] = -1 - owner[p]]
      /\ UNCHANGED <<pc, n, ports, events, thread, terminate, returned>>
  BY DEF Others
<1>2. TypeOK'
  BY <1>1 DEF TypeOK
<1>3. /\ \A q \in Ports : owner'[q] \in Starts => owner'[q] = owner[q]
      /\ \A q \in Ports : owner[q] \in Starts => owner'[q] = owner[q]
  BY <1>1 DEF TypeOK, Starts
<1>4. Begun'
  BY <1>1, <1>3 DEF Begun, Engaged, Running
<1>5. Bound'
  <2>1. Range(ports) \subseteq Ports
    BY DEF TypeOK, Range
  <2> QED BY <1>1, <1>3, <2>1 DEF Bound, Begun, Engaged
<1>6. Told' /\ Abandoned'
  BY <1>1 DEF Told, Abandoned, Running
<1> QED BY <1>2, <1>4, <1>5, <1>6

\* The invariant holds in every state of every behaviour.
LEMMA Invariance == Spec => []IInv
<1>1. IInv /\ UNCHANGED vars => IInv'
  BY DEF vars, IInv, TypeOK, Begun, Told, Bound, Abandoned, Engaged, Running
<1>2. IInv /\ [Next]_vars => IInv'
  BY <1>1, CallerInv, ServeInv, NotifyInv, GiveUpInv, EndedInv, OthersInv DEF Next, Surfnet
<1> QED BY InitInv, <1>2, PTL DEF Spec

-----------------------------------------------------------------------------
(* The theorems.                                                           *)

\* The variables keep their types: the channel and the ports of a start stay
\* within their bounds.
THEOREM TypeCorrect == Spec => []TypeOK
<1>1. IInv => TypeOK
  BY DEF IInv
<1> QED BY Invariance, <1>1, PTL

\* A handle is of a surfnet that came up, on ports that are all its own, though
\* they were let go between finding and binding them.
THEOREM HandleIsServed == Spec => []HandleServes
<1>1. IInv => HandleServes
  BY DEF IInv, Told, Bound, HandleServes
<1> QED BY Invariance, <1>1, PTL

\* Neither a thread nor a socket outlives its start or its handle, unless
\* start_surfnet reported an abort.
THEOREM NothingLeftBehind == Spec => []NoneLeftBehind
<1>1. IInv => NoneLeftBehind
  BY DEF IInv, Begun, Abandoned, NoneLeftBehind
<1> QED BY Invariance, <1>1, PTL

-----------------------------------------------------------------------------
(* No call of the caller waits for what cannot come.                       *)

\* A surfnet that has come up or given up has said so, and what it said is still
\* in the channel while the caller reads; a thread that is joined was told to end.
Announced ==
    /\ pc = "recv" =>
          \/ thread[n] \in {"starting", "ended"}
          \/ "ready" \in Range(events) \/ "aborted" \in Range(events)
    /\ pc = "join" => n \in terminate

\* What is in a sequence is its head or in its tail.
LEMMA HeadOrTail ==
    ASSUME NEW S, NEW q \in Seq(S), q # <<>>, NEW x \in Range(q)
    PROVE  x = Head(q) \/ x \in Range(Tail(q))
<1>1. Len(q) \in Nat \ {0} /\ DOMAIN q = 1..Len(q)
  BY EmptySeq
<1>2. /\ Tail(q) \in Seq(S) /\ Len(Tail(q)) = Len(q) - 1 /\ Head(q) = q[1]
      /\ \A i \in 1..Len(Tail(q)) : Tail(q)[i] = q[i + 1]
  BY <1>1, HeadTailProperties
<1>3. PICK i \in 1..Len(q) : x = q[i]
  BY <1>1 DEF Range
<1>4. CASE i # 1
  <2>1. i - 1 \in 1..Len(Tail(q)) /\ i - 1 + 1 = i
    BY <1>1, <1>2, <1>4
  <2>2. Tail(q)[i - 1] = x
    BY <1>2, <1>3, <2>1
  <2>3. DOMAIN Tail(q) = 1..Len(Tail(q))
    BY <1>2
  <2> QED BY <2>1, <2>2, <2>3 DEF Range
<1> QED BY <1>2, <1>3, <1>4

\* The caller takes from the channel only what it acts on, and joins a thread after
\* it has told it to end.
LEMMA CallerAnnounced ==
    ASSUME IInv, Announced, Caller
    PROVE  Announced'
<1> USE DEF Announced, Goto, Return
<1>1. CASE Begin \/ FindPort \/ ReceiveClosed \/ Joined
  BY <1>1 DEF Begin, FindPort, ReceiveClosed, Joined
<1>2. CASE Kill
  BY <1>2 DEF Kill
<1>3. CASE Spawn
  BY <1>3 DEF Spawn, IInv, TypeOK, Begun, Engaged
<1>4. CASE Receive
  <2>1. events \in Seq({"ready", "aborted", "other"}) /\ events # <<>> /\ events' = Tail(events)
    BY <1>4 DEF IInv, TypeOK, Receive
  <2>2. \A x \in Range(events) : x = Head(events) \/ x \in Range(events')
    BY <2>1, HeadOrTail
  <2>3. CASE pc' # "recv"
    BY <1>4, <2>3 DEF Receive
  <2>4. CASE pc' = "recv"
    BY <1>4, <2>2, <2>4 DEF Receive
  <2> QED BY <2>3, <2>4
<1> QED BY <1>1, <1>2, <1>3, <1>4 DEF Caller, Waiting

\* A surfnet that comes up or gives up says so, and nothing else empties the channel.
LEMMA SurfnetAnnounced ==
    ASSUME IInv, Announced, Surfnet \/ \E p \in Ports : Others(p)
    PROVE  Announced'
<1> USE DEF Announced
<1>1. ASSUME NEW s \in Starts, Serve(s) \/ GiveUp(s) \/ Notify(s)
      PROVE  Announced'
  <2>1. s = n /\ pc = "recv" /\ UNCHANGED <<pc, n, terminate>>
    BY <1>1 DEF Serve, GiveUp, Notify, IInv, Told
  <2>2. PICK event \in {"ready", "aborted", "other"} :
           /\ Sends(n, event)
           /\ event = "other" => thread' = thread
    BY <1>1, <2>1 DEF Serve, GiveUp, Notify
  <2>3. Range(events') = Range(events) \cup {event}
    BY <2>1, <2>2, SendsFacts DEF IInv
  <2> QED BY <2>1, <2>2, <2>3
<1>2. ASSUME NEW s \in Starts, Ended(s)
      PROVE  Announced'
  <2>1. /\ UNCHANGED <<pc, n, events, terminate>>
        /\ thread' = [thread EXCEPT ![s] = "ended"] /\ thread \in [Starts -> {"none", "starting",
              "serving", "lingering", "ended"}]
    BY <1>2 DEF Ended, IInv, TypeOK
  <2>2. pc = "recv" => n \in Starts
    BY DEF IInv, Begun, Engaged
  <2> QED BY <2>1, <2>2
<1>3. ASSUME NEW p \in Ports, Others(p)
      PROVE  Announced'
  BY <1>3 DEF Others
<1> QED BY <1>1, <1>2, <1>3 DEF Surfnet

\* What recv() blocks on is in the channel or on its way: an event is there, or the
\* thread has ended and the channel with it, or the surfnet has not said yet how its
\* start went; and what join() blocks on was told to end.
NothingMissed ==
    /\ pc = "recv" => events # <<>> \/ thread[n] \in {"starting", "ended"}
    /\ pc = "join" => n \in terminate

\* The safety half of CallsReturn: no event is lost to the ones that are skipped, and
\* no call of start_surfnet or kill waits for one that is past (lib.rs:184-196, 73-78).
THEOREM NothingIsMissed == Spec => []NothingMissed
<1>1. Init => Announced
  BY DEF Init, Announced
<1>2. IInv /\ Announced /\ [Next]_vars => Announced'
  <2>1. UNCHANGED vars /\ Announced => Announced'
    BY DEF vars, Announced
  <2> QED BY <2>1, CallerAnnounced, SurfnetAnnounced DEF Next
<1>3. Announced => NothingMissed
  <2>1. Range(<<>>) = {}
    BY DEF Range
  <2> QED BY <2>1 DEF Announced, NothingMissed
<1> QED BY <1>1, <1>2, <1>3, Invariance, PTL DEF Spec
=============================================================================
