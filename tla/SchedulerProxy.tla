--------------------------- MODULE SchedulerProxy ---------------------------
(***************************************************************************)
(* The scheduler proxy (scheduler/proxy) and the UNIX socket between it    *)
(* and the scheduler (UnixProtocol).  Calls that bring results are         *)
(* answered True at once and buffered; the others are forwarded at once.   *)
(* Frames have no delimiter, and answers have no name: the proxy gives an  *)
(* answer to the last request it forwarded.  Frames and texts are read as  *)
(* the code means them (README, Python 3).                                 *)
(***************************************************************************)
EXTENDS Integers, SequencesExt

CONSTANTS
    Results,    \* the packets of cached methods (completed_*)
    Calls,      \* the requests of other methods
    NoRequest   \* None

ASSUME ProxyAssumption == Results \cap Calls = {} /\ NoRequest \notin Calls

VARIABLES
    stage,        \* what the proxy has set up so far
    packets,      \* SendingBuffer.packets
    backup,       \* the file scheduler_proxy_buffer_tmp
    send_locked,  \* Sender.send_locked
    request,      \* Sender.request (and Sender.__name__, set with it)
    asking,       \* the requests that wait for their answer
    wire,         \* frames written and not yet read by the scheduler
    spoilt,       \* what is left of a frame read in part precedes the next one
    serving,      \* frames whose method is under way in the scheduler
    back,         \* answers written and not yet read by the proxy
    lost          \* history: <<result, why>> of what was dropped

socketVars == <<wire, spoilt, serving, back>>
proxyState == <<stage, packets, backup, send_locked, request, asking, socketVars>>
proxyVars  == <<proxyState, lost>>

Frames == Results \cup Calls

\* "connected": the forwarder is there; "emitting": the buffer is restored and
\* its loop runs; "cut": Sender has lost the connection, for good.
Stages == {"stopped", "starting", "connected", "emitting", "cut"}
Linked == stage \in {"connected", "emitting"}
Serves == stage \in {"connected", "emitting", "cut"}

Lose(q, why) == lost' = lost \cup {<<r, why>> : r \in ToSet(q) \cap Results}

ProxyInit ==
    /\ stage = "stopped"
    /\ packets = <<>> /\ backup = <<>>
    /\ send_locked = FALSE /\ request = NoRequest /\ asking = {}
    /\ wire = <<>> /\ spoilt = FALSE /\ serving = <<>> /\ back = <<>>
    /\ lost = {}

-----------------------------------------------------------------------------
(* The proxy. *)

\* Forwarder.call_remote() of a cached method: it is buffered, and answered
\* True to whoever called.
Buffer(r) ==
    /\ Serves
    /\ packets' = Append(packets, r)
    /\ UNCHANGED <<stage, backup, send_locked, request, asking, lost>>
    /\ UNCHANGED socketVars

\* Sender.call_remote(): a write to a connection that is lost does nothing.
Write(f) ==
    /\ send_locked' = TRUE
    /\ IF Linked THEN wire' = Append(wire, f) /\ UNCHANGED lost
       ELSE Lose(<<f>>, "cut") /\ UNCHANGED wire

\* Forwarder.call_remote() of another method: the lock is not looked at.
Forward(c) ==
    /\ Serves
    /\ c \notin asking
    /\ request' = c
    /\ asking' = asking \cup {c}
    /\ Write(c)
    /\ UNCHANGED <<stage, packets, backup, spoilt, serving, back>>

\* Mutant: the packet stays in the buffer.
MutSendKeeps ==
    /\ stage \in {"emitting", "cut"}
    /\ packets # <<>> /\ ~send_locked
    /\ Write(Head(packets))
    /\ packets' = packets \o <<>>
    /\ UNCHANGED <<stage, backup, request, asking, spoilt, serving, back>>

\* SendingBuffer.send(), called by the loop: the packet leaves the buffer
\* before it is written.
Send ==
    /\ stage \in {"emitting", "cut"}
    /\ packets # <<>> /\ ~send_locked
    /\ Write(Head(packets))
    /\ packets' = Tail(packets)
    /\ UNCHANGED <<stage, backup, request, asking, spoilt, serving, back>>

\* Mutant: the lock waits for the answer of a result.
MutDataReceived(n) ==
    /\ Linked
    /\ back' = SubSeq(back, n + 1, Len(back))
    /\ send_locked' = (back[1] \in Calls /\ send_locked)
    /\ asking' = asking \ {request}
    /\ stage' = IF request = NoRequest THEN "cut" ELSE stage
    /\ UNCHANGED <<packets, backup, request, wire, spoilt, serving, lost>>

\* Sender.dataReceived(): n answers came together, and all but the first are
\* ignored. It answers the last request forwarded, and when there was none
\* (no __name__ yet) the exception ends the connection.
DataReceived(n) ==
    /\ Linked
    /\ back' = SubSeq(back, n + 1, Len(back))
    /\ send_locked' = FALSE
    /\ asking' = asking \ {request}
    /\ stage' = IF request = NoRequest THEN "cut" ELSE stage
    /\ UNCHANGED <<packets, backup, request, wire, spoilt, serving, lost>>

\* The caller of a request that got no answer gives up.
Abandon(c) ==
    /\ c \in asking
    /\ c \notin ToSet(wire) \cup ToSet(serving) \cup ToSet(back)
    /\ asking' = asking \ {c}
    /\ UNCHANGED <<stage, packets, backup, send_locked, request, lost>>
    /\ UNCHANGED socketVars

-----------------------------------------------------------------------------
(* The scheduler's end of the socket. *)

\* UnixProtocol.dataReceived(): n whole frames came together, and part of the
\* next one. The first is unpickled; with it, all that came is dropped.
Read(n, part) ==
    /\ ~spoilt
    /\ part => n < Len(wire)
    /\ LET gone == IF part THEN n + 1 ELSE n
       IN  /\ wire' = SubSeq(wire, gone + 1, Len(wire))
           /\ Lose(SubSeq(wire, 2, gone), "merged")
    /\ serving' = Append(serving, wire[1])
    /\ spoilt' = part
    /\ UNCHANGED <<stage, packets, backup, send_locked, request, asking, back>>

\* What follows the rest of a frame never unpickles again.
Swallow ==
    /\ spoilt /\ wire # <<>>
    /\ Lose(wire, "merged")
    /\ wire' = <<>>
    /\ UNCHANGED <<stage, packets, backup, send_locked, request, asking, spoilt,
                   serving, back>>

\* The method of the n-th frame under way answers,
Respond(n) ==
    /\ back' = Append(back, serving[n])
    /\ serving' = RemoveAt(serving, n)
    /\ UNCHANGED <<stage, packets, backup, send_locked, request, asking, wire, spoilt,
                   lost>>

\* or raises: _eb_call_failed() answers nothing.
MethodFails(n) ==
    /\ Lose(<<serving[n]>>, "failed")
    /\ serving' = RemoveAt(serving, n)
    /\ UNCHANGED <<stage, packets, backup, send_locked, request, asking, wire, spoilt,
                   back>>

-----------------------------------------------------------------------------
(* Starts and stops, with the scheduler, of which the proxy is a child.     *)

Halt ==
    /\ stage' = "stopped"
    /\ packets' = <<>>
    /\ send_locked' = FALSE /\ request' = NoRequest /\ asking' = {}
    /\ wire' = <<>> /\ spoilt' = FALSE /\ serving' = <<>> /\ back' = <<>>

\* Mutant: the buffer is not saved.
MutCleanUp ==
    /\ stage # "stopped"
    /\ Halt
    /\ backup' = backup
    /\ Lose(wire \o serving, "stopped")

\* clean_up(): backup_buffer() writes the file anew when there is something to
\* save.
CleanUp ==
    /\ stage # "stopped"
    /\ Halt
    /\ IF packets = <<>>
       THEN /\ UNCHANGED backup
            /\ Lose(wire \o serving, "stopped")
       ELSE /\ backup' = packets
            /\ Lose(wire \o serving \o backup, "stopped")

Crash ==
    /\ stage # "stopped"
    /\ Halt
    /\ Lose(packets \o wire \o serving, "crashed")
    /\ UNCHANGED backup

\* The proxy listens before it has a forwarder, has a forwarder before it
\* restores the buffer.
Start ==
    /\ \/ stage = "stopped" /\ stage' = "starting"
       \/ stage = "starting" /\ stage' = "connected"
    /\ UNCHANGED <<packets, backup, send_locked, request, asking, lost>>
    /\ UNCHANGED socketVars

\* start_emitting_buffer(), restore_buffer()
StartEmitting ==
    /\ stage = "connected"
    /\ stage' = "emitting"
    /\ packets' = packets \o backup
    /\ backup' = <<>>
    /\ UNCHANGED <<send_locked, request, asking, lost>>
    /\ UNCHANGED socketVars

=============================================================================
