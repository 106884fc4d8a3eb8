-------------------------- MODULE SimServer_proofs --------------------------
(***************************************************************************)
(* Proofs about SimServer.  The properties speak of the moments between    *)
(* calls and of the moments when the maps are touched; the invariant adds  *)
(* what holds on the way: where each call can be, that the register is off *)
(* from SwitchOff to the end of a call that stops, and who owns the        *)
(* refresh thread.                                                         *)
(***************************************************************************)
EXTENDS DesignerSession, SequenceTheorems, TLAPS

Stopping == {"disable", "reset", "loadMap", "exit"}
Between  == {"idle", "dma", "files", "calibrate"}

\* Which call is at which label.
Places ==
    /\ rpc \in {"dma", "spawn", "assign"} => call = "enable"
    /\ rpc = "stop" => call \in Stopping
    /\ rpc = "join" => call \in Stopping \cup {"enable"}
    /\ rpc = "clear" => call \in Stopping \ {"disable"}
    /\ rpc \in {"files", "load"} => call = "loadMap"
    /\ rpc = "calibrate" => call = "calibrate"

\* Who refers to the refresh thread.
Handle ==
    /\ joinable => thr /= "none"
    /\ thr /= "none" /\ ~joinable => rpc = "assign" \/ call = "exit"
    /\ rpc \in Down \cup {"boot"} => thr = "none"
    /\ rpc \in {"clear", "load", "spawn", "assign"} => ~joinable
    /\ rpc = "assign" => thr /= "none"

\* What the register says.
Register ==
    /\ rpc \in {"join", "clear", "load"} /\ call \in Stopping => ~enabled
    /\ rpc \in {"join", "spawn", "assign"} /\ call = "enable" => enabled /\ dma
    /\ thr = "done" => ~enabled
    /\ rpc \in Between /\ ~enabled => thr = "none"
    /\ rpc \in Between /\ enabled /\ settled => dma /\ joinable
    /\ rpc = "exited" => ~enabled
    /\ rpc = "boot" => ~settled

Inv == TypeOK /\ Places /\ Handle /\ Register

LEMMA InitInv == Init => Inv
  BY DEF Init, Inv, TypeOK, Places, Handle, Register, Stopping, Between, Calls, Down

\* Every step of the server keeps the invariant.
LEMMA NextInv == Inv /\ [Next]_vars => Inv'
<1> SUFFICES ASSUME Inv, [Next]_vars PROVE Inv'
  OBVIOUS
<1> USE DEF Inv, TypeOK, Places, Handle, Register, Stopping, Between, Calls, Down,
            Running, hardware, service, thread
<1>1. CASE Process
  <2>1. CASE Boot             BY <2>1 DEF Boot
  <2>2. CASE Booted           BY <2>2 DEF Booted
  <2>3. CASE Kill             BY <2>3 DEF Kill, Die
  <2>4. CASE Terminate        BY <2>4 DEF Terminate
  <2>5. CASE TerminateInJoin  BY <2>5 DEF TerminateInJoin, Die
  <2> QED  BY <1>1, <2>1, <2>2, <2>3, <2>4, <2>5 DEF Process
<1>2. ASSUME NEW c \in Calls, Take(c) PROVE Inv'
  BY <1>2 DEF Take
<1>3. CASE Serve
  <2>1. CASE EnableRaises   BY <2>1 DEF EnableRaises, Return
  <2>2. CASE SwitchOn       BY <2>2 DEF SwitchOn
  <2>3. CASE SwitchOff
    <3>1. call \in Stopping    BY <2>3 DEF SwitchOff
    <3>2. rpc' = "join" /\ call' = call /\ ~enabled' /\ enabled' \in BOOLEAN
                               BY <2>3 DEF SwitchOff
    <3>3. UNCHANGED <<calibrated, dma, files, raised, thread, loaded, settled>>
                               BY <2>3 DEF SwitchOff
    <3>4. TypeOK' /\ Places'   BY <3>1, <3>2, <3>3
    <3>5. Handle'              BY <2>3, <3>2, <3>3 DEF SwitchOff
    <3>6. Register'            BY <3>1, <3>2, <3>3
    <3> QED  BY <3>4, <3>5, <3>6
  <2>4. CASE Join
    <3>1. CASE call = "disable"  BY <2>4, <3>1 DEF Join, Return
    <3>2. CASE call /= "disable" BY <2>4, <3>2 DEF Join
    <3> QED  BY <3>1, <3>2
  <2>5. CASE Spawn          BY <2>5 DEF Spawn
  <2>6. CASE Assign         BY <2>6 DEF Assign, Return
  <2>7. CASE LoadMapRaises  BY <2>7 DEF LoadMapRaises, Return
  <2>8. CASE OpenFiles      BY <2>8 DEF OpenFiles
  <2>9. CASE Clear
    <3>1. CASE call = "exit"     BY <2>9, <3>1 DEF Clear, Die
    <3>2. CASE call = "loadMap"  BY <2>9, <3>2 DEF Clear
    <3>3. CASE call \notin {"exit", "loadMap"}
                                 BY <2>9, <3>3 DEF Clear, Return
    <3> QED  BY <3>1, <3>2, <3>3
  <2>10. CASE LoadMap       BY <2>10 DEF LoadMap, Return
  <2>11. CASE Calibrate     BY <2>11 DEF Calibrate, Return
  <2> QED  BY <1>3, <2>1, <2>2, <2>3, <2>4, <2>5, <2>6, <2>7, <2>8, <2>9,
              <2>10, <2>11 DEF Serve
<1>4. CASE Refresh
  <2>1. CASE ThreadOpens    BY <2>1 DEF ThreadOpens
  <2>2. CASE ThreadThrows   BY <2>2 DEF ThreadThrows, Die
  <2>3. CASE ThreadChecks   BY <2>3 DEF ThreadChecks
  <2>4. CASE ThreadLoads    BY <2>4 DEF ThreadLoads
  <2> QED  BY <1>4, <2>1, <2>2, <2>3, <2>4 DEF Refresh
<1>5. CASE RadarMeasured  BY <1>5 DEF RadarMeasured
<1>6. CASE Upload         BY <1>6 DEF Upload
<1>7. CASE UNCHANGED vars BY <1>7 DEF vars
<1> QED  BY <1>1, <1>2, <1>3, <1>4, <1>5, <1>6, <1>7 DEF Next

LEMMA SpecInv == Spec => []Inv
  BY InitInv, NextInv, PTL DEF Spec

-----------------------------------------------------------------------------
\* The control points of the two threads, and what they know of the hardware,
\* stay in their sets through calls, signals, kills and restarts.
THEOREM ServerTypes == Spec => []TypeOK
<1>1. Inv => TypeOK
  BY DEF Inv
<1> QED  BY <1>1, SpecInv, PTL

\* No call clears, fills or hands over the maps while a refresh thread that
\* could touch them exists.
THEOREM MapsNeverShared == Spec => []MapsUnshared
<1>1. Inv => MapsUnshared
  BY DEF Inv, TypeOK, Handle, MapsUnshared
<1> QED  BY <1>1, SpecInv, PTL

\* A call that has stopped the simulator has also ended its refresh thread.
THEOREM StopIsComplete == Spec => []StoppedMeansStopped
<1>1. Inv => StoppedMeansStopped
  BY DEF Inv, TypeOK, Handle, Register, Between, StoppedMeansStopped
<1> QED  BY <1>1, SpecInv, PTL

\* Between calls the output is never on without DMA and a refresh thread.
THEOREM OutputAlwaysServed == Spec => []OutputIsServed
<1>1. Inv => OutputIsServed
  BY DEF Inv, TypeOK, Handle, Register, Between, OutputIsServed
<1> QED  BY <1>1, SpecInv, PTL

\* A signal that ends the process leaves the simulator off.
THEOREM SignalSwitchesOff == Spec => []ExitsSwitchedOff
<1>1. Inv => ExitsSwitchedOff
  BY DEF Inv, Register, ExitsSwitchedOff
<1> QED  BY <1>1, SpecInv, PTL

-----------------------------------------------------------------------------
(***************************************************************************)
(* The safety of a session, for any number of lost connections.  A call    *)
(* that was sent twice may be served long after the designer has given it  *)
(* up: the invariant says what may stand before it in the queue.           *)
(***************************************************************************)

Plans == {<<>>, <<"reset">>, <<"disable">>, <<"disable", "loadMap", "enable">>,
          <<"loadMap", "enable">>, <<"enable">>}

\* The designer waits for the first call of its plan.
Asking ==
    /\ queue \in Seq(Calls) /\ plan \in Plans
    /\ asked \in Calls \cup {"none"}
    /\ asked /= "none" => plan /= <<>> /\ asked = Head(plan)
    /\ rpc = "boot" => plan = <<"reset">> /\ asked = "none" /\ queue = <<>>

\* The maps are loaded, and nothing is being done that would clear them.
Ready == loaded /\ (rpc = "idle" \/ call = "enable")
Enables(n) == \A i \in 1 .. n : queue[i] = "enable"

\* An enable() that was asked for, is about to be or is still in the queue has
\* before it only other ones, since it is sent when everything was answered.
EnablesReady ==
    /\ \A i \in 1 .. Len(queue) : queue[i] = "enable" => Ready /\ Enables(i)
    /\ asked = "enable" => Ready /\ Enables(Len(queue))
    /\ asked = "none" /\ plan = <<"enable">> =>
           Ready /\ rpc = "idle" /\ queue = <<>>
    /\ call = "enable" => loaded
EnableLast == Running /\ call /= "exit" => EnablesReady

\* The call asked for is the last one in the queue, or the one being served.
Waiting ==
    Running /\ call /= "exit" /\ asked /= "none" =>
        IF queue = <<>> THEN call = asked ELSE queue[Len(queue)] = asked

\* Loaded maps came from the files, in a process that has stopped once.
FromFiles ==
    /\ loaded => settled /\ files
    /\ rpc = "load" => settled
    /\ call = "loadMap" /\ rpc \in {"stop", "join", "clear", "load"} => files
    /\ thr = "open" => files

SInv == Inv /\ Asking /\ EnableLast /\ Waiting /\ FromFiles

LEMMA SessionInitInv == SessionInit => SInv
<1> SUFFICES ASSUME SessionInit PROVE SInv
  OBVIOUS
<1>1. Inv
  BY InitInv DEF SessionInit
<1>2. Asking
  BY DEF SessionInit, Init, Asking, Plans
<1>3. EnableLast /\ Waiting /\ FromFiles
  BY DEF SessionInit, Init, EnableLast, Waiting, FromFiles, Running, Down
<1> QED  BY <1>1, <1>2, <1>3 DEF SInv

\* To the server the designer is one of its clients.
LEMMA ServerSteps == Asking /\ [SessionNext]_allVars => [Next]_vars
<1> SUFFICES ASSUME Asking, [SessionNext]_allVars PROVE [Next]_vars
  OBVIOUS
<1>1. CASE TakeNext
  <2>1. Head(queue) \in Calls
    BY <1>1 DEF TakeNext, Asking
  <2> QED  BY <1>1, <2>1 DEF TakeNext, Next
<1>2. CASE Launch         BY <1>2 DEF Launch, Next, Process
<1>3. CASE ServeAndReply  BY <1>3 DEF ServeAndReply, Next
<1>4. CASE Ends           BY <1>4 DEF Ends, Next, Process
<1>5. CASE Environment    BY <1>5 DEF Environment, Next, Process
<1>6. CASE \/ \E operation \in Operations : Operate(operation)
           \/ Ask \/ Reconnect \/ Fail \/ UNCHANGED allVars
  BY <1>6 DEF Operate, Ask, Reconnect, Fail, allVars
<1> QED  BY <1>1, <1>2, <1>3, <1>4, <1>5, <1>6 DEF SessionNext

\* What happens to the designer leaves the server alone.
LEMMA DesignerSteps ==
    ASSUME SInv,
           \/ \E operation \in Operations : Operate(operation)
           \/ Ask \/ Reconnect \/ Fail
    PROVE  Asking' /\ EnableLast' /\ Waiting' /\ FromFiles'
<1> USE DEF SInv
<1>1. UNCHANGED vars
  BY DEF Operate, Ask, Reconnect, Fail
<1>2. /\ UNCHANGED <<rpc, call, loaded, settled, files, thr>>
      /\ Running' = Running /\ Ready' = Ready /\ FromFiles'
  BY <1>1 DEF vars, hardware, service, thread, Running, Ready, FromFiles
<1>3. ASSUME NEW operation \in Operations, Operate(operation)
      PROVE  Asking' /\ EnableLast' /\ Waiting'
  <2>1. asked = "none" /\ asked' = "none" /\ queue' = queue /\ rpc /= "boot"
    BY <1>3 DEF Operate, Asking, Running
  <2>2. plan' \in Plans /\ plan' /= <<"enable">>
    BY <1>3 DEF Operate, Operations, Plans
  <2> QED
    BY <1>2, <2>1, <2>2 DEF Asking, EnableLast, EnablesReady, Waiting, Enables
<1>4. CASE Ask
  <2>1. asked = "none" /\ plan' = plan /\ plan /= <<>> /\ rpc /= "boot"
    BY <1>4 DEF Ask, Running
  <2>2. asked' = Head(plan) /\ queue' = Append(queue, Head(plan)) /\ Head(plan) \in Calls
    BY <1>4, <2>1 DEF Ask, Asking, Plans, Calls
  <2>3. /\ Len(queue') = Len(queue) + 1 /\ queue'[Len(queue) + 1] = Head(plan)
        /\ \A i \in 1 .. Len(queue) : queue'[i] = queue[i]
        /\ queue' \in Seq(Calls) /\ queue' /= <<>> /\ Len(queue) \in Nat
    BY <2>2 DEF Asking
  <2>4. Head(plan) = "enable" => plan = <<"enable">>
    BY <2>1 DEF Asking, Plans
  <2>5. Asking' /\ Waiting'
    BY <1>2, <2>1, <2>2, <2>3 DEF Asking, Waiting, Calls
  <2>6. EnableLast'
    <3>1. CASE Head(plan) = "enable"
      <4>1. Running /\ call /= "exit" => Ready /\ queue = <<>>
        BY <2>1, <2>4, <3>1 DEF EnableLast, EnablesReady
      <4>2. CASE queue = <<>>
        <5>1. Enables(1)' /\ Len(queue') = 1
          BY <2>3, <3>1, <4>2 DEF Enables
        <5> QED  BY <1>2, <2>2, <3>1, <4>1, <5>1 DEF EnableLast, EnablesReady, Enables, Ready
      <4> QED  BY <1>2, <4>1, <4>2 DEF EnableLast, EnablesReady
    <3>2. CASE Head(plan) /= "enable"
      BY <1>2, <2>1, <2>2, <2>3, <3>2 DEF EnableLast, EnablesReady, Enables, Calls
    <3> QED  BY <3>1, <3>2
  <2> QED  BY <1>2, <2>5, <2>6
<1>5. CASE Reconnect
  <2>1. /\ asked /= "none" /\ asked' = asked /\ plan' = plan /\ rpc /= "boot"
        /\ asked \in Calls
    BY <1>5 DEF Reconnect, Running, Asking
  <2>2. queue' = Append(queue, asked)
    BY <1>5 DEF Reconnect
  <2>3. /\ Len(queue') = Len(queue) + 1 /\ queue'[Len(queue) + 1] = asked
        /\ \A i \in 1 .. Len(queue) : queue'[i] = queue[i]
        /\ queue' \in Seq(Calls) /\ queue' /= <<>> /\ Len(queue) \in Nat
    BY <2>1, <2>2 DEF Asking
  <2>4. Asking' /\ Waiting'
    BY <1>2, <2>1, <2>2, <2>3 DEF Asking, Waiting
  <2>5. EnableLast'
    BY <1>2, <2>1, <2>3 DEF EnableLast, EnablesReady, Enables
  <2> QED  BY <1>2, <2>4, <2>5
<1>6. CASE Fail
  <2>1. plan' = <<>> /\ asked' = "none" /\ queue' = queue /\ asked /= "none"
    BY <1>6 DEF Fail
  <2> QED
    BY <1>2, <2>1 DEF Asking, EnableLast, EnablesReady, Waiting, Enables, Plans
<1> QED  BY <1>2, <1>3, <1>4, <1>5, <1>6

LEMMA TakeNextStep ==
    ASSUME SInv, TakeNext
    PROVE  Asking' /\ EnableLast' /\ Waiting' /\ FromFiles'
<1> DEFINE c == Head(queue)
<1> USE DEF SInv
<1>1. /\ queue \in Seq(Calls) /\ queue /= <<>> /\ queue' = Tail(queue)
      /\ UNCHANGED <<plan, asked>>
  BY DEF TakeNext, Asking
<1>2. /\ c = queue[1] /\ c \in Calls /\ Len(queue) \in Nat \ {0}
      /\ Len(queue') = Len(queue) - 1 /\ queue' \in Seq(Calls)
      /\ \A i \in 1 .. Len(queue') : queue'[i] = queue[i + 1]
      /\ queue' = <<>> <=> Len(queue) = 1
  <2>1. c = queue[1] /\ Len(queue) \in Nat \ {0}
    BY <1>1
  <2>2. queue' \in Seq(Calls) /\ Len(queue') = Len(queue) - 1
    BY <1>1, <2>1
  <2>3. \A i \in 1 .. Len(queue') : queue'[i] = queue[i + 1]
    BY <1>1, <2>1, <2>2
  <2>4. queue' = <<>> <=> Len(queue') = 0
    BY <2>2, EmptySeq
  <2> QED  BY <1>1, <2>1, <2>2, <2>3, <2>4
<1>3. /\ rpc = "idle" /\ call' = c /\ Take(c) /\ Running
      /\ UNCHANGED <<loaded, settled, files, thr>>
  BY DEF TakeNext, Take, hardware, thread, Running, Down
<1>4. /\ rpc' \in {"dma", "files", "calibrate", "stop"}
      /\ c = "loadMap" => rpc' = "files"
  BY <1>3, <1>2 DEF Take, Calls
<1>5. call = "none"
  BY <1>3 DEF Inv, TypeOK
<1>6. Asking'
  BY <1>1, <1>2, <1>4 DEF Asking
<1>7. FromFiles'
  BY <1>3, <1>4 DEF FromFiles
<1>8. Waiting'
  <2>1. asked /= "none" => queue[Len(queue)] = asked
    BY <1>1, <1>3, <1>5 DEF Waiting
  <2>2. CASE Len(queue) = 1
    BY <1>1, <1>2, <1>3, <2>1, <2>2 DEF Waiting
  <2>3. CASE Len(queue) /= 1
    <3>1. Len(queue') \in 1 .. Len(queue') /\ Len(queue') + 1 = Len(queue)
      BY <1>2, <2>3
    <3>2. queue'[Len(queue')] = queue[Len(queue)]
      BY <1>2, <3>1
    <3> QED  BY <1>1, <1>2, <2>1, <2>3, <3>2 DEF Waiting
  <2> QED  BY <2>2, <2>3
<1>9. EnableLast'
  <2>0. EnablesReady  BY <1>3, <1>5 DEF EnableLast
  <2>1. CASE c = "enable"
    <3>1. loaded /\ Ready'
      BY <1>2, <1>3, <2>0, <2>1 DEF EnablesReady, Ready
    <3>2. \A i \in 1 .. Len(queue') : queue'[i] = "enable" => Enables(i)'
      <4> SUFFICES ASSUME NEW i \in 1 .. Len(queue'), queue'[i] = "enable",
                          NEW j \in 1 .. i
                   PROVE  queue'[j] = "enable"
        BY DEF Enables
      <4>1. i + 1 \in 1 .. Len(queue) /\ queue[i + 1] = "enable" /\ j + 1 \in 1 .. i + 1
            /\ j \in 1 .. Len(queue')
        BY <1>2
      <4>2. queue[j + 1] = "enable"
        BY <2>0, <4>1 DEF EnablesReady, Enables
      <4> QED  BY <1>2, <4>1, <4>2
    <3>3. asked = "enable" => \A j \in 1 .. Len(queue') : queue'[j] = "enable"
      <4> SUFFICES ASSUME asked = "enable", NEW j \in 1 .. Len(queue')
                   PROVE  queue'[j] = "enable"
        OBVIOUS
      <4>1. j + 1 \in 1 .. Len(queue)
        BY <1>2
      <4> QED  BY <1>2, <2>0, <4>1 DEF EnablesReady, Enables
    <3> QED
      BY <1>1, <1>3, <2>0, <3>1, <3>2, <3>3 DEF EnableLast, EnablesReady, Enables, Ready
  <2>2. CASE c /= "enable"
    <3>1. \A i \in 1 .. Len(queue) : queue[i] /= "enable"
      BY <1>2, <2>0, <2>2 DEF EnablesReady, Enables
    <3>2. \A i \in 1 .. Len(queue') : queue'[i] /= "enable"
      BY <1>2, <3>1
    <3>3. asked /= "enable"
      BY <1>2, <2>0, <2>2 DEF EnablesReady, Enables
    <3> QED
      BY <1>1, <1>3, <2>0, <2>2, <3>2, <3>3 DEF EnableLast, EnablesReady
  <2> QED  BY <2>1, <2>2
<1> QED  BY <1>6, <1>7, <1>8, <1>9

\* A step of a call in the server, before the designer hears of it: what would
\* clear the maps finds no enable() behind it.
LEMMA ServeStep ==
    ASSUME SInv, Serve
    PROVE  /\ FromFiles'
           /\ Running /\ rpc /= "idle" /\ rpc' /= "boot"
           /\ Running' /\ call' /= "exit" => call /= "exit"
           /\ call /= "exit" => call' = IF rpc' = "idle" THEN "none" ELSE call
           /\ call = "enable" => loaded' = loaded
           /\ call = "loadMap" /\ rpc' = "idle" => raised' \/ loaded'
<1> USE DEF SInv, Inv, TypeOK, FromFiles, Running, Down, Calls, Places, Stopping
<1>1. CASE EnableRaises   BY <1>1 DEF EnableRaises, Return, thread
<1>2. CASE SwitchOn       BY <1>2 DEF SwitchOn, thread
<1>3. CASE SwitchOff      BY <1>3 DEF SwitchOff, thread
<1>4. CASE Join           BY <1>4 DEF Join, Return
<1>5. CASE Spawn
  <2>1. call = "enable" /\ Running
    BY <1>5 DEF Spawn
  <2>2. loaded
    BY <2>1 DEF EnableLast, EnablesReady
  <2> QED  BY <1>5, <2>1, <2>2 DEF Spawn, hardware
<1>6. CASE Assign         BY <1>6 DEF Assign, Return
<1>7. CASE LoadMapRaises  BY <1>7 DEF LoadMapRaises, Return, thread
<1>8. CASE OpenFiles      BY <1>8 DEF OpenFiles, thread
<1>9. CASE Clear          BY <1>9 DEF Clear, Die, Return, thread
<1>10. CASE LoadMap       BY <1>10 DEF LoadMap, Return, thread
<1>11. CASE Calibrate     BY <1>11 DEF Calibrate, Return, thread
<1> QED  BY <1>1, <1>2, <1>3, <1>4, <1>5, <1>6, <1>7, <1>8, <1>9, <1>10, <1>11 DEF Serve

LEMMA ReplyStep ==
    ASSUME SInv, ServeAndReply
    PROVE  Asking' /\ EnableLast' /\ Waiting' /\ FromFiles'
<1> USE DEF SInv
<1>1. Serve /\ Reply
  BY DEF ServeAndReply
<1>2. /\ FromFiles' /\ Running /\ rpc /= "idle" /\ rpc' /= "boot"
      /\ Running' /\ call' /= "exit" => call /= "exit"
      /\ call /= "exit" => call' = IF rpc' = "idle" THEN "none" ELSE call
      /\ call = "enable" => loaded' = loaded
      /\ call = "loadMap" /\ rpc' = "idle" => raised' \/ loaded'
  BY <1>1, ServeStep
<1>3. queue' = queue
  BY <1>1 DEF Reply, designer
<1>4. CASE rpc' = "idle" /\ queue = <<>> /\ asked /= "none"
  <2>1. asked' = "none" /\ plan' = IF raised' THEN <<>> ELSE Tail(plan)
    BY <1>1, <1>4 DEF Reply
  <2>2. Asking'
    <3>1. plan \in Plans \ {<<>>}
      BY <1>4 DEF Asking
    <3>2. Tail(plan) \in Plans
      <4>1. /\ Tail(<<"reset">>) = <<>> /\ Tail(<<"disable">>) = <<>>
            /\ Tail(<<"enable">>) = <<>>
        OBVIOUS
      <4>2. Tail(<<"loadMap", "enable">>) = <<"enable">>
        OBVIOUS
      <4>3. Tail(<<"disable", "loadMap", "enable">>) = <<"loadMap", "enable">>
        OBVIOUS
      <4> QED  BY <3>1, <4>1, <4>2, <4>3, Zenon DEF Plans
    <3>3. plan' \in Plans
      BY <2>1, <3>2 DEF Plans
    <3> QED  BY <1>2, <1>3, <2>1, <3>3 DEF Asking
  <2>3. Waiting'
    BY <2>1 DEF Waiting
  <2>4. ASSUME Running', call' /= "exit", plan' = <<"enable">>
        PROVE  Ready'
    <3>1. plan = <<"loadMap", "enable">> /\ ~raised'
      BY <1>4, <2>1, <2>4 DEF Asking, Plans
    <3>2. asked = "loadMap" /\ call = asked
      BY <1>2, <1>4, <2>4, <3>1 DEF Asking, Waiting
    <3> QED  BY <1>2, <1>4, <3>1, <3>2 DEF Ready
  <2>5. EnableLast'
    BY <1>2, <1>3, <1>4, <2>1, <2>4 DEF EnableLast, EnablesReady, Enables
  <2> QED  BY <1>2, <2>2, <2>3, <2>5
<1>5. CASE ~(rpc' = "idle" /\ queue = <<>> /\ asked /= "none")
  <2>1. plan' = plan /\ asked' = asked
    BY <1>1, <1>5 DEF Reply, designer
  <2>2. Asking' /\ Waiting'
    BY <1>2, <1>3, <1>5, <2>1 DEF Asking, Waiting
  <2>3. Ready => call = "enable" /\ loaded
    BY <1>2 DEF Ready
  <2>4. call /= "exit" /\ Ready => Ready'
    BY <1>2, <2>3 DEF Ready
  <2>5. EnableLast'
    BY <1>2, <1>3, <2>1, <2>3, <2>4 DEF EnableLast, EnablesReady, Enables, Ready
  <2> QED  BY <1>2, <2>2, <2>5
<1> QED  BY <1>4, <1>5

\* The server ends, starts again or is started again by a designer; its other
\* thread runs, and the world around it changes.
LEMMA OtherSteps ==
    ASSUME SInv, Launch \/ Ends \/ (Environment /\ UNCHANGED designer)
    PROVE  Asking' /\ EnableLast' /\ Waiting' /\ FromFiles'
<1> USE DEF SInv
<1>1. CASE Launch
  <2>1. /\ rpc' = "boot" /\ queue' = <<>> /\ asked' = "none" /\ plan' = <<"reset">>
        /\ call' = "none" /\ ~loaded' /\ thr' = thr /\ files' = files
    BY <1>1 DEF Launch, Boot, thread
  <2> QED
    BY <2>1 DEF Asking, EnableLast, Waiting, FromFiles, Running, Plans, Calls
<1>2. CASE Ends
  <2>1. /\ rpc' \in Down /\ queue' = <<>> /\ UNCHANGED <<plan, asked>>
        /\ call' = "none" /\ UNCHANGED <<loaded, settled, files>> /\ thr' = "none"
    BY <1>2 DEF Ends, Kill, TerminateInJoin, Die, Down
  <2> QED
    BY <2>1 DEF Asking, EnableLast, Waiting, FromFiles, Running, Down
<1>3. CASE Booted /\ UNCHANGED designer
  <2>1. /\ rpc = "boot" /\ rpc' = "idle" /\ UNCHANGED <<call, loaded, settled, files, thr>>
        /\ queue' = <<>> /\ asked' = "none" /\ plan' = <<"reset">> /\ call = "none"
    BY <1>3 DEF Booted, designer, Asking, thread, Inv, TypeOK
  <2> QED
    BY <2>1 DEF Asking, EnableLast, EnablesReady, Enables, Waiting, FromFiles, Plans, Calls
<1>4. CASE Terminate /\ UNCHANGED designer
  <2>1. /\ call' = "exit" /\ rpc' = "stop" /\ UNCHANGED <<loaded, settled, files, thr>>
    BY <1>4 DEF Terminate, thread
  <2> QED
    BY <1>4, <2>1 DEF designer, Asking, EnableLast, Waiting, FromFiles
<1>5. CASE ThreadThrows /\ UNCHANGED designer
  BY <1>5 DEF ThreadThrows, FromFiles
<1>6. CASE /\ ThreadOpens \/ ThreadChecks \/ ThreadLoads \/ RadarMeasured \/ Upload
           /\ UNCHANGED designer
  <2>1. /\ UNCHANGED <<rpc, call, loaded, settled>> /\ UNCHANGED designer
        /\ files => files'
        /\ thr' = "open" => thr = "open"
    BY <1>6 DEF ThreadOpens, ThreadChecks, ThreadLoads, RadarMeasured, Upload, service,
       thread
  <2>2. Running' = Running /\ Ready' = Ready
    BY <2>1 DEF Running, Ready
  <2>3. FromFiles'
    BY <2>1 DEF FromFiles
  <2> QED
    BY <2>1, <2>2, <2>3 DEF designer, Asking, EnableLast, EnablesReady, Enables, Waiting
<1> QED
  BY <1>1, <1>2, <1>3, <1>4, <1>5, <1>6 DEF Environment, Refresh

LEMMA SessionNextInv == SInv /\ [SessionNext]_allVars => SInv'
<1> SUFFICES ASSUME SInv, [SessionNext]_allVars PROVE SInv'
  OBVIOUS
<1>1. Inv'
  BY ServerSteps, NextInv DEF SInv
<1>2. CASE UNCHANGED allVars
  BY <1>1, <1>2 DEF allVars, designer, vars, hardware, service, thread, SInv, Asking,
     EnableLast, EnablesReady, Enables, Waiting, FromFiles, Running, Ready
<1> QED
  BY <1>1, <1>2, DesignerSteps, TakeNextStep, ReplyStep, OtherSteps
  DEF SessionNext, SInv

LEMMA SessionInv == SessionSpec => []SInv
  BY SessionInitInv, SessionNextInv, PTL DEF SessionSpec

-----------------------------------------------------------------------------
\* However many replies are lost, the simulator starts only on maps loaded since
\* it was last stopped.
THEOREM StartsLoaded == SessionSpec => []StartsOnLoadedMaps
<1>1. SInv => StartsOnLoadedMaps
  BY DEF SInv, Inv, Places, EnableLast, EnablesReady, Running, Down, StartsOnLoadedMaps
<1> QED  BY <1>1, SessionInv, PTL

\* The refresh thread always finds the files it opens.
THEOREM RefreshFindsFiles == SessionSpec => []RefreshNeverThrows
<1>1. SInv => RefreshNeverThrows
  BY DEF SInv, FromFiles, RefreshNeverThrows
<1> QED  BY <1>1, SessionInv, PTL

\* No enable() meets an output that an earlier process has left on.
THEOREM StartsSwitchedOff == SessionSpec => []StartsFromOff
<1>1. SInv => StartsFromOff
  <2> SUFFICES ASSUME SInv, rpc = "dma", ~joinable PROVE ~enabled
    BY DEF StartsFromOff
  <2>1. call = "enable"
    BY DEF SInv, Inv, Places
  <2>2. loaded
    BY <2>1 DEF SInv, EnableLast, EnablesReady, Running, Down
  <2> QED
    BY <2>2 DEF SInv, FromFiles, Inv, Register, Between
<1> QED  BY <1>1, SessionInv, PTL
=============================================================================
