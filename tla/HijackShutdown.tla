--------------------------- MODULE HijackShutdown ---------------------------
(***************************************************************************)
(* The hijacking handlers of check.tls.support.go and the graceful         *)
(* shutdown in main.                                                       *)
(*                                                                         *)
(* A handler runs on a connection that http.Server tracks as active until  *)
(* hj.Hijack() hands it over; from then on only liveHijackCount says that  *)
(* the connection is still being answered.  incrementHijack and            *)
(* decrementHijack are load/compare-and-swap loops, one step each.  The    *)
(* deferred calls run last in, first out: c.Close() then decrementHijack.  *)
(*                                                                         *)
(* main waits for the stop signal, runs Shutdown (which closes the         *)
(* listener and returns once no tracked connection is active, or when the  *)
(* 20 s context expires), then polls the counter until it is zero or the   *)
(* context has expired, and returns: the process exits and every handler   *)
(* goroutine stops wherever it is.                                         *)
(***************************************************************************)
EXTENDS Integers, FiniteSets

CONSTANTS
    Conns,          \* connections a handler may run on
    CounterModulus  \* 2^64 for the uint64 counter, scaled to TLC integers

VARIABLES
    pc,             \* handler of each connection: see HandlerPcs
    old,            \* the value each CAS loop loaded
    count,          \* *liveHijackCount
    main,           \* "serving" | "shutdown" | "waiting" | "exited"
    expired,        \* ctx.Err() != nil
    aged            \* StateNew for more than 5 s

vars == <<pc, old, count, main, expired, aged>>

HandlerPcs == {"idle",        \* not accepted yet
               "handshaking", \* StateNew: the first Read runs handshake()
               "closing",     \* Shutdown's Close waits for the handshake
               "cutoff",      \* closed by Shutdown after its handshake
               "active",      \* tracked by http.Server, before Hijack
               "hijacked",    \* Hijack returned, incrementHijack not done
               "incCAS",      \* incrementHijack loaded the counter
               "counted",     \* answering: pullClientInfo, render, write
               "closed",      \* deferred c.Close() ran
               "decCAS",      \* decrementHijack loaded the counter
               "done"}        \* handler returned

\* Handlers that are answering a hijacked connection.
Answering == {"hijacked", "incCAS", "counted"}

Init ==
    /\ pc = [c \in Conns |-> "idle"]
    /\ old = [c \in Conns |-> 0]
    /\ count = 0
    /\ main = "serving"
    /\ expired = FALSE
    /\ aged = [c \in Conns |-> FALSE]

\* Goroutines run only while the process lives.
Live == main # "exited"

Move(c, from, to) ==
    /\ pc[c] = from
    /\ pc' = [pc EXCEPT ![c] = to]

\* httpsSrv.Serve: listener.Accept wraps the *tls.Conn; the server tracks
\* it in StateNew and its first Read calls handshake().
Accept(c) ==
    /\ main = "serving"
    /\ Move(c, "idle", "handshaking")
    /\ UNCHANGED <<old, count, main, expired, aged>>

\* handshake() returns nil and the request's first bytes are read: the
\* server marks the connection StateActive.
ReadRequest(c) ==
    /\ Live
    /\ Move(c, "handshaking", "active")
    /\ UNCHANGED <<old, count, main, expired, aged>>

\* handshake() fails, or ReadTimeout (10 s) passes: Read errs, the server
\* closes the connection.
HandshakeFails(c) ==
    /\ Live
    /\ Move(c, "handshaking", "done")
    /\ UNCHANGED <<old, count, main, expired, aged>>

\* More than 5 s pass with the connection still in StateNew.
Age(c) ==
    /\ Live
    /\ pc[c] = "handshaking"
    /\ ~aged[c]
    /\ aged' = [aged EXCEPT ![c] = TRUE]
    /\ UNCHANGED <<pc, old, count, main, expired>>

\* c, brw, err := hj.Hijack(): the server stops tracking the connection.
Hijack(c) ==
    /\ Live
    /\ Move(c, "active", "hijacked")
    /\ UNCHANGED <<old, count, main, expired, aged>>

\* old := atomic.LoadUint64(liveHijackCount), in either loop.
LoadCount(c, from, to) ==
    /\ Live
    /\ Move(c, from, to)
    /\ old' = [old EXCEPT ![c] = count]
    /\ UNCHANGED <<count, main, expired, aged>>

\* Fault model: the counter written with a plain store.
CASPlainStore(cur, expected) == TRUE

\* atomic.CompareAndSwapUint64(liveHijackCount, old, new)
CAS(cur, expected) == cur = expected

\* Fault model: a single CAS attempt, without the retry loop.
CASStepNoRetry(c, at, new, retry, exit) ==
    /\ Live
    /\ pc[c] = at
    /\ count' = IF CAS(count, old[c]) THEN new % CounterModulus ELSE count
    /\ pc' = [pc EXCEPT ![c] = exit]
    /\ UNCHANGED <<old, main, expired, aged>>

\* One CAS of a loop: on success store new and leave, else load again.
CASStep(c, at, new, retry, exit) ==
    /\ Live
    /\ pc[c] = at
    /\ IF CAS(count, old[c])
       THEN /\ count' = new % CounterModulus
            /\ pc' = [pc EXCEPT ![c] = exit]
       ELSE /\ pc' = [pc EXCEPT ![c] = retry]
            /\ UNCHANGED count
    /\ UNCHANGED <<old, main, expired, aged>>

incrementHijack(c) ==
    \/ LoadCount(c, "hijacked", "incCAS")
    \/ CASStep(c, "incCAS", old[c] + 1, "hijacked", "counted")

\* The response is written (or hijacked500 on either error path) and the
\* first deferred call, c.Close(), runs.
Respond(c) ==
    /\ Live
    /\ Move(c, "counted", "closed")
    /\ UNCHANGED <<old, count, main, expired, aged>>

decrementHijack(c) ==
    \/ LoadCount(c, "closed", "decCAS")
    \/ CASStep(c, "decCAS", old[c] - 1, "closed", "done")

\* <-stop, then httpsSrv.Shutdown(ctx): the listener is closed.
Signal ==
    /\ main = "serving"
    /\ main' = "shutdown"
    /\ UNCHANGED <<pc, old, count, expired, aged>>

\* One poll of Shutdown (Go 1.16 closeIdleConns, built by the Dockerfile):
\* a StateNew connection older than 5 s counts as idle and Close is called
\* on it, holding the server's lock.  The fork's Conn.Close first takes the
\* handshakeMutex that the running handshake holds, so Shutdown is stuck
\* until each such handshake ends.  Otherwise it returns once no tracked
\* connection is new or active, or with ctx.Err() when the context has
\* expired; wg.Wait() follows.
ShutdownPoll ==
    LET cut   == {c \in Conns : pc[c] = "handshaking" /\ aged[c]}
        after == [c \in Conns |-> IF c \in cut THEN "closing" ELSE pc[c]]
        quiet == \A c \in Conns : after[c] \notin {"handshaking", "closing", "active"}
    IN  /\ main = "shutdown"
        /\ \A c \in Conns : pc[c] # "closing"
        /\ cut # {} \/ quiet \/ expired
        /\ pc' = after
        /\ main' = IF cut = {} /\ (quiet \/ expired) THEN "waiting" ELSE main
        /\ UNCHANGED <<old, count, expired, aged>>

\* The handshake ends (done, failed or timed out by ReadTimeout); Close gets
\* handshakeMutex, sends close_notify and closes the socket before the
\* server's Read gets the request.
CloseAfterHandshake(c) ==
    /\ Live
    /\ Move(c, "closing", "cutoff")
    /\ UNCHANGED <<old, count, main, expired, aged>>

\* The 20 s context of the shutdown expires.
Deadline ==
    /\ main \in {"shutdown", "waiting"}
    /\ ~expired
    /\ expired' = TRUE
    /\ UNCHANGED <<pc, old, count, main, aged>>

\* for LoadUint64(liveHijackCount) != 0 && ctx.Err() == nil { Sleep }:
\* the loop ends and main returns.
Exit ==
    /\ main = "waiting"
    /\ count = 0 \/ expired
    /\ main' = "exited"
    /\ UNCHANGED <<pc, old, count, expired, aged>>

Handler(c) ==
    \/ Accept(c) \/ ReadRequest(c) \/ HandshakeFails(c) \/ Age(c)
    \/ CloseAfterHandshake(c)
    \/ Hijack(c)
    \/ incrementHijack(c) \/ Respond(c) \/ decrementHijack(c)

Next ==
    \/ \E c \in Conns : Handler(c)
    \/ Signal \/ ShutdownPoll \/ Deadline \/ Exit

\* Handlers and main are goroutines the runtime keeps scheduling, and
\* ReadTimeout ends every handshake; neither the stop signal nor the
\* deadline is assumed to come, nor that a handshake outlasts 5 s.
Fairness ==
    /\ \A c \in Conns : WF_vars(ReadRequest(c) \/ HandshakeFails(c)
                                \/ CloseAfterHandshake(c))
    /\ \A c \in Conns : WF_vars(Hijack(c) \/ incrementHijack(c)
                                \/ Respond(c) \/ decrementHijack(c))
    /\ WF_vars(ShutdownPoll) /\ WF_vars(Exit)

Spec == Init /\ [][Next]_vars /\ Fairness

-----------------------------------------------------------------------------

TypeOK ==
    /\ pc \in [Conns -> HandlerPcs]
    /\ old \in [Conns -> 0 .. CounterModulus - 1]
    /\ count \in 0 .. CounterModulus - 1
    /\ main \in {"serving", "shutdown", "waiting", "exited"}
    /\ expired \in BOOLEAN
    /\ aged \in [Conns -> BOOLEAN]

\* Handlers whose increment has landed and whose decrement has not.
Counted == {c \in Conns : pc[c] \in {"counted", "closed", "decCAS"}}

\* liveHijackCount, updated by concurrent load/CAS loops, always equals
\* the number of handlers between their successful increment and their
\* successful decrement: no update is lost and the counter never wraps.
HijackCountAccurate == count = Cardinality(Counted)

\* Spec, Cancellation: after the shutdown signal, in-flight responses
\* complete within the deadline.  So main returns before the deadline only
\* when no hijacked connection is still being answered; the wait loop on
\* liveHijackCount is there for it.
NoResponseCutOff ==
    main = "exited" /\ ~expired => \A c \in Conns : pc[c] \notin Answering

\* main's states as the registry's phases.
Phase == [serving |-> "serving", shutdown |-> "draining",
          waiting |-> "draining", exited |-> "exited"]

Registry == INSTANCE ShutdownRegistry
              WITH live <- Counted, phase <- Phase[main]

\* The counter and the wait loop implement a registry of the connections
\* being answered: a CAS that lands registers or unregisters exactly one
\* handler, and main leaves the wait loop only when that registry is
\* empty or the deadline has passed.  Its fairness says that after the
\* stop signal main returns without relying on the deadline: every counted
\* handler decrements, whatever the CAS interleaving.
ImplementsShutdownRegistry == Registry!Spec
=============================================================================
