---------------------------- MODULE SurfnetStart ----------------------------
(***************************************************************************)
(* start_surfnet and SurfnetHandle::kill of crates/test-common/src/lib.rs. *)
(*                                                                         *)
(* The caller picks ports by binding port 0 and letting go of it again,    *)
(* hands them to a surfnet on a thread of its own, and blocks on the       *)
(* surfnet's event channel until it is ready, aborts, or closes the        *)
(* channel by ending.  kill() sends Terminate and joins the thread.        *)
(*                                                                         *)
(* The surfnet (surfpool_core) and the other processes of the machine are  *)
(* external.  The runner starts one surfnet after another, MaxStarts here. *)
(***************************************************************************)
EXTENDS Integers, Sequences, Functions

CONSTANTS
    Ports,       \* the TCP ports of the machine
    NumPorts,    \* how many of them a surfnet is given (six in the code)
    MaxStarts,   \* bound: calls of start_surfnet
    MaxEvents    \* bound: events waiting in the channel

ASSUME NumPortsAssumption == NumPorts \in Nat \ {0}
ASSUME BoundsAssumption == MaxStarts \in Nat /\ MaxEvents \in Nat \ {0}

Starts == 1..MaxStarts

VARIABLES
    pc,         \* the next step of the caller
    n,          \* the number of the current start
    ports,      \* the ports found so far, the RPC port first
    events,     \* the channel the current surfnet sends its events on
    thread,     \* the thread of each start
    terminate,  \* the starts whose command channel holds Terminate
    owner,      \* who has bound each port: nobody (0), others (-1), a start
    returned    \* what each call of start_surfnet returned

vars == <<pc, n, ports, events, thread, terminate, owner, returned>>

-----------------------------------------------------------------------------
Init ==
    /\ pc = "idle" /\ n = 0
    /\ ports = <<>> /\ events = <<>>
    /\ thread = [s \in Starts |-> "none"]
    /\ terminate = {}
    /\ owner \in [Ports -> {0, -1}]
    /\ returned = [s \in Starts |-> "none"]

Goto(l) == pc' = l
Return(result) == returned' = [returned EXCEPT ![n] = result]
Running(s) == thread[s] \in {"starting", "serving", "lingering"}

(* The caller.                                                             *)

\* start_surfnet: each call has a channel of its own.
Begin ==
    /\ pc = "idle" /\ n < MaxStarts
    /\ n' = n + 1
    /\ ports' = <<>> /\ events' = <<>>
    /\ Goto("ports")
    /\ UNCHANGED <<thread, terminate, owner, returned>>

\* Slip: one port too many.
FindPort_OneMore ==
    /\ pc = "ports" /\ Len(ports) <= NumPorts
    /\ \E p \in Ports : owner[p] = 0 /\ ports' = Append(ports, p)
    /\ UNCHANGED <<pc, n, events, thread, terminate, owner, returned>>

\* find_available_port()?: the port is free, and is free again when the
\* listener is dropped.
FindPort ==
    /\ pc = "ports" /\ Len(ports) < NumPorts
    /\ \/ /\ \E p \in Ports : owner[p] = 0 /\ ports' = Append(ports, p)
          /\ UNCHANGED <<pc, returned>>
       \/ Return("noPort") /\ Goto("idle") /\ UNCHANGED ports
    /\ UNCHANGED <<n, events, thread, terminate, owner>>

Spawn ==
    /\ pc = "ports" /\ Len(ports) = NumPorts
    /\ thread' = [thread EXCEPT ![n] = "starting"]
    /\ Goto("recv")
    /\ UNCHANGED <<n, ports, events, terminate, owner, returned>>

\* Slips: any event is taken for readiness; a closed channel is read again.
Receive_AnyEvent ==
    /\ pc = "recv" /\ events # <<>>
    /\ events' = Tail(events)
    /\ IF Head(events) = "aborted" THEN Return("aborted") /\ Goto("idle")
                                   ELSE Return("ok") /\ Goto("up")
    /\ UNCHANGED <<n, ports, thread, terminate, owner>>
ReceiveClosed_Continues ==
    /\ pc = "recv" /\ events = <<>> /\ ~Running(n)
    /\ UNCHANGED vars

\* The loop over simnet_events_rx.recv().
Receive ==
    /\ pc = "recv" /\ events # <<>>
    /\ events' = Tail(events)
    /\ \/ Head(events) = "ready" /\ Return("ok") /\ Goto("up")
       \/ Head(events) = "aborted" /\ Return("aborted") /\ Goto("idle")
       \/ Head(events) = "other" /\ UNCHANGED <<returned, pc>>
    /\ UNCHANGED <<n, ports, thread, terminate, owner>>

\* The senders are gone with the thread, once the channel is drained.
ReceiveClosed ==
    /\ pc = "recv" /\ events = <<>> /\ ~Running(n)
    /\ Return("closed") /\ Goto("idle")
    /\ UNCHANGED <<n, ports, events, thread, terminate, owner>>

\* Slip: the thread is not joined.
Kill_NotJoined ==
    /\ pc = "up" /\ Goto("idle")
    /\ terminate' = terminate \cup {n}
    /\ UNCHANGED <<n, ports, events, thread, owner, returned>>

\* SurfnetHandle::kill: the send is ignored if the surfnet is gone.
Kill ==
    /\ pc = "up" /\ Goto("join")
    /\ terminate' = terminate \cup {n}
    /\ UNCHANGED <<n, ports, events, thread, owner, returned>>

Joined ==
    /\ pc = "join" /\ ~Running(n) /\ Goto("idle")
    /\ UNCHANGED <<n, ports, events, thread, terminate, owner, returned>>

Waiting == FindPort \/ Spawn \/ Receive \/ ReceiveClosed \/ Joined
Caller == Begin \/ Waiting \/ Kill

-----------------------------------------------------------------------------
(* The surfnet (external).                                                 *)

Sends(s, event) ==
    /\ Len(events) < MaxEvents
    /\ events' = IF s = n /\ pc = "recv" THEN Append(events, event) ELSE events

\* It binds its ports, all different and none taken, and says it is ready.
Serve(s) ==
    /\ thread[s] = "starting" /\ s = n
    /\ IsInjective(ports) /\ \A p \in Range(ports) : owner[p] = 0
    /\ thread' = [thread EXCEPT ![s] = "serving"]
    /\ owner' = [p \in Ports |-> IF p \in Range(ports) THEN s ELSE owner[p]]
    /\ Sends(s, "ready")
    /\ UNCHANGED <<pc, n, ports, terminate, returned>>

Notify(s) ==
    /\ Running(s) /\ s = n /\ pc = "recv" /\ Sends(s, "other")
    /\ UNCHANGED <<pc, n, ports, thread, terminate, owner, returned>>

\* It gives up, perhaps with some of its ports bound and its thread running.
GiveUp(s) ==
    /\ thread[s] = "starting" /\ s = n
    /\ thread' = [thread EXCEPT ![s] = "lingering"]
    /\ \E B \in SUBSET {p \in Range(ports) : owner[p] = 0} :
          owner' = [p \in Ports |-> IF p \in B THEN s ELSE owner[p]]
    /\ Sends(s, "aborted")
    /\ UNCHANGED <<pc, n, ports, terminate, returned>>

\* Its thread ends, and with it the sockets it held.
Ended(s) ==
    /\ Running(s)
    /\ thread' = [thread EXCEPT ![s] = "ended"]
    /\ owner' = [p \in Ports |-> IF owner[p] = s THEN 0 ELSE owner[p]]
    /\ UNCHANGED <<pc, n, ports, events, terminate, returned>>

Obey(s) == s \in terminate /\ Ended(s)

\* The other processes of the machine.
Others(p) ==
    /\ owner[p] \in {0, -1}
    /\ owner' = [owner EXCEPT ![p] = -1 - owner[p]]
    /\ UNCHANGED <<pc, n, ports, events, thread, terminate, returned>>

Surfnet == \E s \in Starts : Serve(s) \/ Notify(s) \/ GiveUp(s) \/ Ended(s)

Next == Caller \/ Surfnet \/ \E p \in Ports : Others(p)

\* A blocked call of the caller returns when it can, and a surfnet that was
\* told to terminate does.
Spec ==
    /\ Init /\ [][Next]_vars
    /\ WF_vars(Waiting) /\ \A s \in Starts : WF_vars(Obey(s))

-----------------------------------------------------------------------------
(* Properties.                                                             *)

\* The variables keep their types.
TypeOK ==
    /\ pc \in {"idle", "ports", "recv", "up", "join"}
    /\ n \in 0..MaxStarts
    /\ ports \in Seq(Ports) /\ Len(ports) <= NumPorts
    /\ events \in Seq({"ready", "aborted", "other"}) /\ Len(events) <= MaxEvents
    /\ thread \in [Starts -> {"none", "starting", "serving", "lingering", "ended"}]
    /\ terminate \subseteq Starts
    /\ owner \in [Ports -> Starts \cup {0, -1}]
    /\ returned \in [Starts -> {"none", "ok", "aborted", "closed", "noPort"}]

\* A handle is of a surfnet that came up, and as long as that surfnet's thread
\* runs, the rpc_url of the handle is its own: the ports were found free some
\* time before it bound them (lib.rs:82), and another process, or an earlier
\* surfnet, may have had them in between.
HandleServes ==
    pc = "up" => /\ thread[n] \in {"serving", "ended"}
                 /\ thread[n] = "serving" => \A p \in Range(ports) : owner[p] = n

\* Before the next surfnet is started the last one is gone, thread and ports,
\* unless its start reported an abort (lib.rs:191 drops its handle).
NoneLeftBehind ==
    \A s \in Starts :
        /\ Running(s) \/ \E p \in Ports : owner[p] = s
        /\ s # n \/ pc = "idle"
        => returned[s] = "aborted"

\* The blocking calls return.  A surfnet that came up, gave up or went away is
\* noticed, whatever other events it sent before: start_surfnet does not wait
\* on it for ever; and kill() returns, whether the surfnet is up or has ended.
CallsReturn ==
    /\ \A s \in Starts :
        (pc = "recv" /\ n = s /\ thread[s] # "starting") ~> (returned[s] # "none")
    /\ (pc = "join") ~> (pc = "idle")
=============================================================================
