---------------------------- MODULE Cancellation ----------------------------
(***************************************************************************)
(* TransferCancellation and the session it cancels: any number of threads  *)
(* call request() while the session thread runs its attempts, connects,    *)
(* tracks each new socket and blocks on the tracked ones.                  *)
(*                                                                         *)
(* request() is three steps: the flag is stored without the lock, the list *)
(* of handles is swapped out under it, and the handles are interrupted one *)
(* by one after it.  track() is one step: it holds the lock throughout.    *)
(***************************************************************************)
EXTENDS Naturals, FiniteSets

CONSTANTS
    Callers,     \* calls of request(): the user, a signal, the server's shutdown
    Sockets,     \* bound: sockets the session ever opens
    MaxAttempts  \* reconnect_attempts

ASSUME AttemptsAssumption == MaxAttempts \in Nat \ {0}

VARIABLES
    requested,   \* requested_
    handles,     \* sockets_: the sockets whose handles are kept
    call,        \* call[c]: where the call of request() is
    swept,       \* swept[c]: the handles it took and has yet to interrupt
    session,     \* where the session thread is
    fresh,       \* the socket just connected and not yet tracked, at most one
    open,        \* the open sockets that were tracked
    interrupted, \* the sockets that were shut down by interrupt()
    used,        \* every socket opened so far
    attempt      \* attempt of run_with_auto_reconnect

cancel == <<requested, handles, call, swept>>
thread == <<session, fresh, open, used, attempt>>
vars   == <<cancel, thread, interrupted>>

Over == {"done", "failed", "canceled"}

Init ==
    /\ requested = FALSE /\ handles = {}
    /\ call = [c \in Callers |-> "idle"]
    /\ swept = [c \in Callers |-> {}]
    /\ session = "check"
    /\ fresh = {} /\ open = {} /\ interrupted = {} /\ used = {}
    /\ attempt = 1

-----------------------------------------------------------------------------
(* request() *)

Request(c) ==
    /\ call[c] = "idle"
    /\ requested' = TRUE
    /\ call' = [call EXCEPT ![c] = "swap"]
    /\ UNCHANGED <<handles, swept, thread, interrupted>>

Swap(c) ==
    /\ call[c] = "swap"
    /\ swept' = [swept EXCEPT ![c] = handles]
    /\ handles' = {}
    /\ call' = [call EXCEPT ![c] = "interrupt"]
    /\ UNCHANGED <<requested, thread, interrupted>>

Interrupt_First(c) ==
    /\ call[c] = "interrupt"
    /\ \E s \in swept[c] : interrupted' = interrupted \cup ({s} \cap open)
    /\ swept' = [swept EXCEPT ![c] = {}]
    /\ UNCHANGED <<requested, handles, call, thread>>

\* SocketInterruptHandle::interrupt: a handle whose socket is gone does nothing.
Interrupt(c) ==
    /\ call[c] = "interrupt"
    /\ \E s \in swept[c] :
          /\ interrupted' = interrupted \cup ({s} \cap open)
          /\ swept' = [swept EXCEPT ![c] = @ \ {s}]
    /\ UNCHANGED <<requested, handles, call, thread>>

Returns(c) ==
    /\ call[c] = "interrupt" /\ swept[c] = {}
    /\ call' = [call EXCEPT ![c] = "returned"]
    /\ UNCHANGED <<requested, handles, swept, thread, interrupted>>

-----------------------------------------------------------------------------
(* The session thread *)

\* throw_if_cancelled before run_once.
Check ==
    /\ session = "check"
    /\ session' = IF requested THEN "canceled" ELSE "connect"
    /\ UNCHANGED <<cancel, fresh, open, used, attempt, interrupted>>

\* A connection that comes up before the flag is polled again is used.
Connect ==
    /\ session = "connect"
    /\ \E s \in Sockets \ used : fresh' = {s} /\ used' = used \cup {s}
    /\ session' = "track"
    /\ UNCHANGED <<cancel, open, attempt, interrupted>>

\* connect_tcp and race_until_peer give up after their time, or see the flag.
ConnectFails ==
    /\ session = "connect"
    /\ session' = "error"
    /\ UNCHANGED <<cancel, fresh, open, used, attempt, interrupted>>

track_Unchecked ==
    /\ session = "track"
    /\ handles' = handles \cup fresh
    /\ open' = open \cup fresh /\ fresh' = {}
    /\ session' = "use"
    /\ UNCHANGED <<requested, call, swept, used, attempt, interrupted>>

\* track(), under the lock: keep the handle, or interrupt the socket at once.
track ==
    /\ session = "track"
    /\ handles' = IF requested THEN handles ELSE handles \cup fresh
    /\ interrupted' = IF requested THEN interrupted \cup fresh ELSE interrupted
    /\ open' = open \cup fresh /\ fresh' = {}
    /\ session' = "use"
    /\ UNCHANGED <<requested, call, swept, used, attempt>>

\* The peer's bytes arrive on every socket that was waited for: another channel, or
\* all of the transfer.
Proceed ==
    /\ session = "use" /\ open \cap interrupted = {}
    /\ \/ session' = "connect" /\ UNCHANGED open
       \/ session' = "complete" /\ UNCHANGED open
    /\ UNCHANGED <<cancel, fresh, used, attempt, interrupted>>

\* transfer_complete was reported; record_success saves the profile, and may throw.
RecordSuccess ==
    /\ session = "complete"
    /\ \/ session' = "done" /\ open' = {}
       \/ session' = "error" /\ UNCHANGED open
    /\ UNCHANGED <<cancel, fresh, used, attempt, interrupted>>

\* A peer that leaves fails the call that waits for it.
PeerLeaves ==
    /\ session = "use"
    /\ session' = "error"
    /\ UNCHANGED <<cancel, fresh, open, used, attempt, interrupted>>

\* A call blocked on an interrupted socket fails.
Woken ==
    /\ session = "use" /\ open \cap interrupted # {}
    /\ session' = "error"
    /\ UNCHANGED <<cancel, fresh, open, used, attempt, interrupted>>

\* The handler of run_with_auto_reconnect: the sockets of the attempt are closed.
Handle ==
    /\ session = "error"
    /\ open' = {}
    /\ \/ requested /\ session' = "canceled" /\ UNCHANGED attempt
       \/ ~requested /\ attempt < MaxAttempts /\ session' = "delay" /\ attempt' = attempt + 1
       \/ ~requested /\ session' = "failed" /\ UNCHANGED attempt
    /\ UNCHANGED <<cancel, fresh, used, interrupted>>

\* wait_with_cancellation: the delay is over, or the flag is seen.
Delay ==
    /\ session = "delay"
    /\ session' = IF requested THEN "canceled" ELSE "check"
    /\ UNCHANGED <<cancel, fresh, open, used, attempt, interrupted>>

-----------------------------------------------------------------------------
RequestStep(c) == Request(c) \/ Swap(c) \/ Interrupt(c) \/ Returns(c)
SessionStep    == Check \/ Connect \/ ConnectFails \/ track \/ Proceed \/ RecordSuccess
                    \/ PeerLeaves \/ Woken \/ Handle \/ Delay

Next == SessionStep \/ \E c \in Callers : RequestStep(c)

Spec == Init /\ [][Next]_vars

-----------------------------------------------------------------------------
(* Properties *)

\* Every variable has its type; only the session thread in track() holds a
\* socket that was not tracked yet.
TypeOK ==
    /\ requested \in BOOLEAN
    /\ handles \subseteq Sockets
    /\ call \in [Callers -> {"idle", "swap", "interrupt", "returned"}]
    /\ swept \in [Callers -> SUBSET Sockets]
    /\ session \in {"check", "connect", "track", "use", "complete", "error", "delay"} \cup Over
    /\ fresh \subseteq Sockets /\ open \subseteq Sockets
    /\ interrupted \subseteq Sockets /\ used \subseteq Sockets
    /\ attempt \in 1..MaxAttempts

\* request() leaves no socket behind: when a cancellation was requested and no
\* call of request() is still at work, every tracked open socket is interrupted,
\* however track() and several calls of request() interleaved.
NothingSurvives ==
    requested /\ (\A c \in Callers : call[c] \in {"idle", "returned"}) =>
        open \subseteq interrupted
=============================================================================
