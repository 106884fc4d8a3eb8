-------------------------- MODULE DesignerSession --------------------------
(***************************************************************************)
(* The server and its one client, the designer: SimulatorController, whose *)
(* operations are sequences of calls under one lock, behind the proxy of   *)
(* ReconnectingThriftClient, which repeats a call after a lost connection. *)
(*                                                                         *)
(* The server reads one connection after the other.  What was sent on a    *)
(* lost connection is still read and served, its reply goes nowhere, and   *)
(* the repeated call waits behind it.                                      *)
(***************************************************************************)
EXTENDS SimServer, Naturals, Sequences

CONSTANT MaxLost   \* bound: connections lost in a behaviour

ASSUME LossAssumption == MaxLost \in Nat

VARIABLES
    plan,     \* calls the operation under the lock has still to make
    asked,    \* the call the designer is waiting for, or "none"
    retried,  \* has the proxy repeated it?
    queue,    \* calls sent and not yet taken by the server
    lost      \* connections lost so far

designer == <<plan, asked, retried, queue, lost>>
allVars  == <<vars, designer>>

\* startSimulation; stopSimulation and the beginning of the uploads.
Operations == {<<"disable", "loadMap", "enable">>, <<"disable">>}

SessionInit ==
    /\ Init
    /\ plan = <<>> /\ asked = "none" /\ retried = FALSE
    /\ queue = <<>> /\ lost = 0

-----------------------------------------------------------------------------
\* A designer starts (after an earlier one has closed or crashed): it kills
\* old servers, starts one, waits for STARTED_SERVER and calls reset().
Launch ==
    /\ Boot
    /\ plan' = <<"reset">> /\ asked' = "none" /\ retried' = FALSE
    /\ queue' = <<>>
    /\ UNCHANGED lost

\* The user starts or stops the simulation, or uploads a map.
Operate(operation) ==
    /\ Running /\ plan = <<>>
    /\ plan' = operation
    /\ UNCHANGED <<vars, asked, retried, queue, lost>>

\* The next call of the operation is sent.
Ask ==
    /\ Running /\ plan /= <<>> /\ asked = "none"
    /\ asked' = Head(plan) /\ retried' = FALSE
    /\ queue' = Append(queue, Head(plan))
    /\ UNCHANGED <<vars, plan, lost>>

\* The connection is lost during the call: the proxy opens another one and
\* invokes the method again, once.
Reconnect ==
    /\ Running /\ asked /= "none" /\ ~retried
    /\ lost < MaxLost /\ lost' = lost + 1
    /\ retried' = TRUE
    /\ queue' = Append(queue, asked)
    /\ UNCHANGED <<vars, plan, asked>>

\* The second loss of a connection, or the end of the server, is an exception:
\* the rest of the operation is not executed.
Fail ==
    /\ asked /= "none"
    /\ IF Running
       THEN retried /\ lost < MaxLost /\ lost' = lost + 1
       ELSE lost' = lost
    /\ plan' = <<>> /\ asked' = "none"
    /\ UNCHANGED <<vars, retried, queue>>

-----------------------------------------------------------------------------
\* The server takes the next call it can read.
TakeNext ==
    /\ queue /= <<>>
    /\ Take(Head(queue))
    /\ queue' = Tail(queue)
    /\ UNCHANGED <<plan, asked, retried, lost>>

\* Mutant of Reply: an exception does not end the operation.
ReplyGoesOn ==
    IF rpc' = "idle" /\ queue = <<>> /\ asked /= "none"
    THEN /\ asked' = "none" /\ plan' = Tail(plan)
         /\ UNCHANGED <<retried, queue, lost>>
    ELSE UNCHANGED designer

\* A call returns.  The designer gets the reply if this was the last call it
\* sent; an exception ends its operation.
Reply ==
    IF rpc' = "idle" /\ queue = <<>> /\ asked /= "none"
    THEN /\ asked' = "none"
         /\ plan' = IF raised' THEN <<>> ELSE Tail(plan)
         /\ UNCHANGED <<retried, queue, lost>>
    ELSE UNCHANGED designer

ServeAndReply == Serve /\ Reply

\* Whatever ends the process takes the calls it has not read with it.
Ends ==
    /\ Kill \/ TerminateInJoin
    /\ queue' = <<>>
    /\ UNCHANGED <<plan, asked, retried, lost>>

Environment == Booted \/ Terminate \/ Refresh \/ RadarMeasured \/ Upload

SessionNext ==
    \/ Launch
    \/ \E operation \in Operations : Operate(operation)
    \/ Ask
    \/ Reconnect
    \/ Fail
    \/ TakeNext
    \/ ServeAndReply
    \/ Ends
    \/ Environment /\ UNCHANGED designer

\* Both threads of the server and the designer run; a broken connection to a
\* server that has ended is noticed.
SessionSpec ==
    /\ SessionInit /\ [][SessionNext]_allVars
    /\ WF_allVars(ServeAndReply) /\ WF_allVars(Refresh /\ UNCHANGED designer)
    /\ WF_allVars(TakeNext)
    /\ WF_allVars(Ask)
    /\ WF_allVars(~Running /\ Fail)

-----------------------------------------------------------------------------
\* The refresh thread never dies of a missing file: enable() is asked for only
\* after a loadMap() that has found the files, repeated calls and lost replies
\* notwithstanding.
RefreshNeverThrows == thr = "open" => files

\* The simulator starts to play only maps that were loaded since it was last
\* stopped, in this process: the runs MapQueue and Playback speak of.
StartsOnLoadedMaps == rpc = "spawn" => loaded

\* A designer's first call stops what an earlier server has left running: no
\* refresh thread is created while the output is left over.
StartsFromOff == rpc = "dma" /\ ~joinable => ~enabled

\* As long as no connection is lost, every call the designer waits for is
\* answered, or fails because the server has ended: no operation of the
\* designer makes the server wait for its own refresh thread.
AnsweredUnlessLost ==
    asked /= "none" /\ lost = 0 ~> asked = "none" \/ lost > 0

-----------------------------------------------------------------------------
(* What a comment says, and the code does not do.                          *)

\* "If it fails, it attempts a reconnect and tries the method again": the call
\* is answered, or fails because the server has ended.
CallsAnswered == asked /= "none" ~> asked = "none"
=============================================================================
