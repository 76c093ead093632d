------------------------------ MODULE Delivery ------------------------------
(***************************************************************************)
(* The way of a result: a launcher's process ends, the launcher tells the  *)
(* scheduler proxy, which answers at once and forwards later, and the      *)
(* gateway of the scheduler carries out the method.  The rest of the       *)
(* scheduler is one order after the other for each CoH; Circuit has it in  *)
(* full.  Launcher and SchedulerProxy have the parts.                      *)
(***************************************************************************)
EXTENDS Launcher, SchedulerProxy

CONSTANTS
    Alive, Agent,   \* the requests of tellIAmAlive() and of the agent
    MaxOrders,      \* bound: orders of a CoH
    MaxAgentCalls,  \* bound: calls of the agent
    MaxFaults       \* bound: stops, crashes, failed calls and failed methods

ASSUME DeliveryAssumption ==
    /\ Results = Cohs \X (1..MaxOrders)
    /\ Calls = {Alive, Agent}
    /\ MaxOrders \in Nat /\ MaxAgentCalls \in Nat /\ MaxFaults \in Nat

VARIABLES
    orders,     \* orders of each CoH that the launcher took
    accepted,   \* history: how often the proxy took each result
    handled,    \* history: how often its method answered
    agentCalls, faults

vars == <<processArr, proxyVars, orders, accepted, handled, agentCalls, faults>>

histories == <<accepted, handled>>

Init ==
    /\ LauncherInit
    /\ ProxyInit
    /\ orders = [c \in Cohs |-> 0]
    /\ accepted = [r \in Results |-> 0]
    /\ handled = [r \in Results |-> 0]
    /\ agentCalls = 0 /\ faults = 0

Fault   == faults < MaxFaults /\ faults' = faults + 1 /\ UNCHANGED agentCalls
NoFault == UNCHANGED <<faults, agentCalls>>

\* The result that a process of the list has, or will have.
ResultOf(c) == <<c, processArr[c].order>>

-----------------------------------------------------------------------------
(* Orders. *)

\* The launcher is asked for the next step of a CoH, and takes it. (When it
\* refuses, nothing changes here.) It may have the result of the step before
\* still on its way, when the circuit expired meanwhile.
Order(c) ==
    /\ stage # "stopped"
    /\ orders[c] < MaxOrders
    /\ commandForker(c, orders[c] + 1)
    /\ orders' = [orders EXCEPT ![c] = @ + 1]
    /\ NoFault
    /\ UNCHANGED <<proxyVars, histories>>

LauncherStep ==
    /\ \E c \in Cohs : processEnded(c)
    /\ NoFault
    /\ UNCHANGED <<proxyVars, orders, histories>>

-----------------------------------------------------------------------------
(* From the launcher to the proxy. *)

Accept(r) == Buffer(r) /\ accepted' = [accepted EXCEPT ![r] = @ + 1]

\* The result is buffered, and the launcher told True.
Notify(c) ==
    /\ c \in DOMAIN processArr /\ notified(c)
    /\ Accept(ResultOf(c))
    /\ NoFault
    /\ UNCHANGED <<orders, handled>>

\* The result is buffered, but the launcher is not told,
AnswerLost(c) ==
    /\ c \in DOMAIN processArr /\ unnotified(c)
    /\ Accept(ResultOf(c))
    /\ Fault
    /\ UNCHANGED <<orders, handled>>

\* or the call fails: there is nobody to take it, or it is lost.
NotifyFails(c) ==
    /\ c \in DOMAIN processArr /\ unnotified(c)
    /\ IF Serves THEN Fault ELSE NoFault
    /\ UNCHANGED <<proxyVars, orders, histories>>

\* The periodic tell_i_am_alive, and a call of the agent.
Call(c) ==
    /\ Forward(c)
    /\ IF c = Agent THEN agentCalls < MaxAgentCalls /\ agentCalls' = agentCalls + 1
       ELSE UNCHANGED agentCalls
    /\ UNCHANGED faults
    /\ UNCHANGED <<processArr, orders, histories>>

GiveUpCall(c) ==
    /\ Abandon(c)
    /\ NoFault
    /\ UNCHANGED <<processArr, orders, histories>>

LauncherRestart ==
    /\ processArr # <<>>
    /\ processArr' = <<>>
    /\ lost' = lost \cup {<<ResultOf(c), "forgotten">> : c \in DOMAIN processArr}
    /\ Fault
    /\ UNCHANGED <<proxyState, orders, histories>>

-----------------------------------------------------------------------------
(* Between the proxy and the scheduler. *)

SendResult ==
    /\ Send
    /\ NoFault
    /\ UNCHANGED <<processArr, orders, histories>>

Receive ==
    /\ \/ \E n \in 1..Len(wire), part \in BOOLEAN : Read(n, part)
       \/ Swallow
    /\ NoFault
    /\ UNCHANGED <<processArr, orders, histories>>

Serve(n) ==
    /\ Respond(n)
    /\ IF serving[n] \in Results
       THEN handled' = [handled EXCEPT ![serving[n]] = @ + 1]
       ELSE UNCHANGED handled
    /\ NoFault
    /\ UNCHANGED <<processArr, orders, accepted>>

ServeFails(n) ==
    /\ MethodFails(n)
    /\ Fault
    /\ UNCHANGED <<processArr, orders, histories>>

\* An answer reaches the proxy; that of tellIAmAlive() reaches the launcher.
Answered(n) ==
    /\ DataReceived(n)
    /\ processArr' = IF request = Alive /\ Alive \in asking
                     THEN notifyZombies(processArr) ELSE processArr
    /\ NoFault
    /\ UNCHANGED <<orders, histories>>

-----------------------------------------------------------------------------
(* Starts and stops of the scheduler and its proxy. *)

Stop ==
    /\ CleanUp \/ Crash
    /\ Fault
    /\ UNCHANGED <<processArr, orders, histories>>

SetUp ==
    /\ Start \/ StartEmitting
    /\ NoFault
    /\ UNCHANGED <<processArr, orders, histories>>

-----------------------------------------------------------------------------

Next ==
    \/ \E c \in Cohs : Order(c)
    \/ \E c \in Cohs : Notify(c) \/ AnswerLost(c) \/ NotifyFails(c)
    \/ LauncherStep \/ LauncherRestart
    \/ \E c \in Calls : Call(c) \/ GiveUpCall(c)
    \/ SendResult \/ Receive
    \/ \E n \in 1..Len(serving) : Serve(n) \/ ServeFails(n)
    \/ \E n \in 1..Len(back) : Answered(n)
    \/ Stop \/ SetUp

Spec == Init /\ [][Next]_vars

\* Processes end, or are killed at max_age; the launcher notifies, and is alive
\* every awake_time; the loop of the buffer turns; what is written is read;
\* methods answer or raise; what stopped starts again. Nothing forces orders,
\* calls of the agent or faults.
Fairness ==
    /\ WF_vars(LauncherStep)
    /\ \A c \in Cohs : WF_vars(Notify(c) \/ NotifyFails(c))
    /\ WF_vars(Call(Alive)) /\ WF_vars(GiveUpCall(Alive))
    /\ SF_vars(SendResult)
    /\ WF_vars(Receive)
    /\ \A f \in Frames : WF_vars(\E n \in 1..Len(serving) : serving[n] = f /\ Serve(n))
    /\ WF_vars(\E n \in 1..Len(back) : Answered(n))
    /\ WF_vars(SetUp)

FairSpec == Spec /\ Fairness

-----------------------------------------------------------------------------
(* Properties. *)

Taken(r)  == r[2] <= orders[r[1]]
Listed(r) == r[1] \in DOMAIN processArr /\ processArr[r[1]].order = r[2]
Waiting   == ToSet(packets) \cup ToSet(backup) \cup ToSet(wire) \cup ToSet(serving)
Dropped(r) == \E why \in {"cut", "merged", "failed", "stopped", "crashed", "forgotten"} :
                 <<r, why>> \in lost

\* Every variable has its type, the launcher keeps within its slots, and notifies
\* only of what is done.
TypeOK ==
    /\ \A id \in DOMAIN processArr :
          /\ id \in Cohs /\ processArr[id] \in Process
          /\ processArr[id].isnotifyingparent => processArr[id].state = "done"
    /\ Cardinality(DOMAIN processArr) <= Slots
    /\ stage \in Stages
    /\ packets \in Seq(Results) /\ backup \in Seq(Results)
    /\ send_locked \in BOOLEAN /\ spoilt \in BOOLEAN
    /\ request \in Calls \cup {NoRequest} /\ asking \in SUBSET Calls
    /\ wire \in Seq(Frames) /\ serving \in Seq(Frames) /\ back \in Seq(Frames)
    /\ orders \in [Cohs -> 0..MaxOrders]
    /\ accepted \in [Results -> Nat] /\ handled \in [Results -> Nat]
    /\ agentCalls \in 0..MaxAgentCalls /\ faults \in 0..MaxFaults

\* Whatever stops, fails or is merged, a result is handled at most as often as
\* the proxy took it: a packet leaves the buffer, or the file, for good.
NotInvented == \A r \in Results : handled[r] <= accepted[r]

\* The result of an order that was taken is the launcher's to tell, is where
\* somebody will find it, was handled, or was lost by one of the ways this model
\* knows. Without a restart, a stop, a crash, a failed method, a lost connection
\* or frames that met, that is: nothing is lost.
Kept ==
    \A r \in Results :
        Taken(r) => Listed(r) \/ r \in Waiting \/ handled[r] > 0 \/ Dropped(r)

\* While nobody restarts and no call fails, a result is handled, even when a
\* lock was left behind by a method that raised, unless two frames met or the
\* buffer was answered before any request was ever forwarded.
Delivered ==
    \A r \in Results : Taken(r) ~> (handled[r] > 0 \/ Dropped(r) \/ stage = "cut"
                                    \/ spoilt)
=============================================================================
