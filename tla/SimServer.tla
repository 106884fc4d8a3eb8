----------------------------- MODULE SimServer -----------------------------
(***************************************************************************)
(* The process radar_sim_server: SimulatorHandler's calls, one at a time,  *)
(* in the only thread of a TSimpleServer; the refresh thread that enable() *)
(* creates and disable() joins; the control registers, which outlive the   *)
(* process; the signals that end it and its next start.                    *)
(*                                                                         *)
(* What the loader does with the maps is MapQueue's, what startDmaTransfer *)
(* does with the descriptors is DmaChannel's: here they are steps that     *)
(* must not meet.                                                          *)
(***************************************************************************)

VARIABLES
    enabled,     \* control register: is the simulator's output enabled?
    calibrated,  \* status register: has the FPGA measured the radar's signals?
    dma,         \* have the DMA engines been given a chain to cycle over?
    files,       \* are /var/targets.bin and /var/clutter.bin there?
    call,        \* the call being served, "exit" in the signal handler
    rpc,         \* where that call is
    raised,      \* did the last call end with an exception?
    thr,         \* the refresh thread: "none", "open", "check", "load", "done"
    joinable,    \* refreshThread.joinable()
    loaded,      \* has loadMap filled the maps since they were last cleared?
    settled      \* has this process stopped or started the simulator yet?

hardware == <<enabled, calibrated, dma>>
service  == <<call, rpc, raised>>
thread   == <<thr, joinable>>
vars     == <<hardware, files, service, thread, loaded, settled>>

Calls == {"enable", "disable", "reset", "loadMap", "calibrate"}
Down  == {"exited", "aborted", "killed"}
Running == rpc \notin Down \cup {"boot"}

\* Power-on: nothing is running, the registers are reset.
Init ==
    /\ enabled = FALSE /\ calibrated = FALSE /\ dma = FALSE
    /\ files \in BOOLEAN
    /\ call = "none" /\ rpc = "exited" /\ raised = FALSE
    /\ thr = "none" /\ joinable = FALSE
    /\ loaded = FALSE /\ settled = FALSE

-----------------------------------------------------------------------------
(* The process.                                                            *)

\* main's handler object is being constructed: the maps are cleared.
Boot ==
    /\ rpc \in Down
    /\ rpc' = "boot" /\ call' = "none" /\ raised' = FALSE
    /\ loaded' = FALSE /\ settled' = FALSE
    /\ UNCHANGED <<hardware, files, thread>>

\* calibrate() of the constructor is over and the DMA engines are reset.
\* Nothing here writes the enable register.
Booted ==
    /\ rpc = "boot" /\ calibrated
    /\ rpc' = "idle" /\ dma' = FALSE
    /\ UNCHANGED <<enabled, calibrated, files, call, raised, thread, loaded, settled>>

\* The process ends, and its refresh thread with it.
Die(how) ==
    /\ rpc' = how /\ call' = "none"
    /\ thr' = "none" /\ joinable' = FALSE

\* SIGKILL, or SIGINT and SIGTERM before main has installed its handler.
Kill ==
    /\ rpc \notin Down
    /\ Die("killed")
    /\ UNCHANGED <<hardware, files, raised, loaded, settled>>

\* Mutant of Terminate: the handler does not switch the simulator off.
TerminateLeavesOn ==
    /\ Running /\ call /= "exit"
    /\ ~(rpc = "join" /\ joinable)
    /\ call' = "exit" /\ rpc' = "join"
    /\ UNCHANGED <<hardware, files, raised, thread, loaded, settled>>

\* SIGINT or SIGTERM: the handler calls reset() on top of whatever the thread
\* was doing, and exit().
Terminate ==
    /\ Running /\ call /= "exit"
    /\ ~(rpc = "join" /\ joinable)
    /\ call' = "exit" /\ rpc' = "stop"
    /\ UNCHANGED <<hardware, files, raised, thread, loaded, settled>>

\* The same while that thread is inside join(): the join of reset() finds the
\* refresh thread already being joined and throws; nothing catches it.
TerminateInJoin ==
    /\ rpc = "join" /\ joinable
    /\ enabled' = FALSE
    /\ Die("aborted")
    /\ UNCHANGED <<calibrated, dma, files, raised, loaded, settled>>

-----------------------------------------------------------------------------
(* The calls.                                                              *)

Take(c) ==
    /\ rpc = "idle"
    /\ call' = c
    /\ rpc' = CASE c = "enable"    -> "dma"
                [] c = "loadMap"   -> "files"
                [] c = "calibrate" -> "calibrate"
                [] OTHER           -> "stop"
    /\ UNCHANGED <<hardware, files, raised, thread, loaded, settled>>

\* Mutant of Return: the call is not forgotten.
ReturnKeepsCall(exception) ==
    /\ rpc' = "idle" /\ call' = call /\ raised' = exception

Return(exception) ==
    /\ rpc' = "idle" /\ call' = "none" /\ raised' = exception

\* enable(): no calibration, or startDmaTransfer of the first or of the second
\* channel has raised.
EnableRaises ==
    /\ rpc = "dma"
    /\ Return(TRUE)
    /\ dma' \in IF calibrated THEN {dma, TRUE} ELSE {dma}
    /\ UNCHANGED <<enabled, calibrated, files, thread, loaded, settled>>

SwitchOn ==
    /\ rpc = "dma" /\ calibrated
    /\ dma' = TRUE /\ enabled' = TRUE
    /\ rpc' = "join"
    /\ UNCHANGED <<calibrated, files, call, raised, thread, loaded, settled>>

\* Mutant of SwitchOff: the register is not written.
SwitchOffNothing ==
    /\ rpc = "stop"
    /\ rpc' = "join"
    /\ UNCHANGED <<hardware, files, call, raised, thread, loaded, settled>>

\* disable(), and the beginning of reset(), of loadMap() and of the signal
\* handler.  stopDmaTransfer does nothing.
SwitchOff ==
    /\ rpc = "stop"
    /\ enabled' = FALSE
    /\ rpc' = "join"
    /\ UNCHANGED <<calibrated, dma, files, call, raised, thread, loaded, settled>>

\* Mutant of Join: disable() does not wait.
JoinNotDisable ==
    /\ rpc = "join"
    /\ IF call = "disable"
       THEN Return(FALSE) /\ settled' = TRUE /\ UNCHANGED thread
       ELSE /\ joinable => thr = "done"
            /\ joinable' = FALSE
            /\ thr' = IF joinable THEN "none" ELSE thr
            /\ rpc' = IF call = "enable" THEN "spawn" ELSE "clear"
            /\ UNCHANGED <<call, raised, settled>>
    /\ UNCHANGED <<hardware, files, loaded>>

\* if (refreshThread.joinable()) refreshThread.join();
Join ==
    /\ rpc = "join" /\ (joinable => thr = "done")
    /\ joinable' = FALSE
    /\ thr' = IF joinable THEN "none" ELSE thr
    /\ IF call = "disable"
       THEN Return(FALSE) /\ settled' = TRUE
       ELSE /\ rpc' = IF call = "enable" THEN "spawn" ELSE "clear"
            /\ UNCHANGED <<call, raised, settled>>
    /\ UNCHANGED <<hardware, files, loaded>>

\* refreshThread = thread(...): the new thread runs before it is assigned.
Spawn ==
    /\ rpc = "spawn"
    /\ thr' = "open" /\ rpc' = "assign"
    /\ UNCHANGED <<hardware, files, call, raised, joinable, loaded, settled>>

Assign ==
    /\ rpc = "assign"
    /\ joinable' = TRUE /\ settled' = TRUE
    /\ Return(FALSE)
    /\ UNCHANGED <<hardware, files, thr, loaded>>

\* Mutant of LoadMapRaises: a missing file is waited for.
LoadMapWaits ==
    /\ rpc = "files" /\ ~files
    /\ UNCHANGED vars

\* loadMap() opens both files before it stops the simulator.
LoadMapRaises ==
    /\ rpc = "files" /\ ~files
    /\ Return(TRUE)
    /\ UNCHANGED <<hardware, files, thread, loaded, settled>>

\* Mutant of OpenFiles: the maps are filled before the simulator is stopped.
OpenFilesLoadsFirst ==
    /\ rpc = "files" /\ files
    /\ rpc' = "load"
    /\ UNCHANGED <<hardware, files, call, raised, thread, loaded, settled>>

\* Mutant of OpenFiles: a missing file is not noticed.
OpenFilesUnchecked ==
    /\ rpc = "files"
    /\ rpc' = "stop"
    /\ UNCHANGED <<hardware, files, call, raised, thread, loaded, settled>>

OpenFiles ==
    /\ rpc = "files" /\ files
    /\ rpc' = "stop"
    /\ UNCHANGED <<hardware, files, call, raised, thread, loaded, settled>>

\* The rest of reset(): both maps are cleared.  In the signal handler exit()
\* follows, whose destructor calls reset() again and finds nothing to do.
Clear ==
    /\ rpc = "clear"
    /\ loaded' = FALSE /\ settled' = TRUE
    /\ CASE call = "exit"    -> Die("exited") /\ UNCHANGED raised
         [] call = "loadMap" -> rpc' = "load" /\ UNCHANGED <<call, raised, thread>>
         [] OTHER            -> Return(FALSE) /\ UNCHANGED thread
    /\ UNCHANGED <<hardware, files>>

\* loadMap() fills both maps.
LoadMap ==
    /\ rpc = "load"
    /\ loaded' = TRUE
    /\ Return(FALSE)
    /\ UNCHANGED <<hardware, files, thread, settled>>

\* calibrate() waits for the FPGA; its write to the read-only status register
\* changes nothing.
Calibrate ==
    /\ rpc = "calibrate" /\ calibrated
    /\ Return(FALSE)
    /\ UNCHANGED <<hardware, files, thread, loaded, settled>>

Serve ==
    \/ EnableRaises \/ SwitchOn \/ SwitchOff \/ Join \/ Spawn \/ Assign
    \/ LoadMapRaises \/ OpenFiles \/ Clear \/ LoadMap \/ Calibrate

-----------------------------------------------------------------------------
(* The refresh thread, loadNextMaps().                                     *)

\* It opens the files for itself.  An exception that leaves a thread ends the
\* process, without a destructor.
ThreadOpens ==
    /\ thr = "open" /\ files
    /\ thr' = "check"
    /\ UNCHANGED <<hardware, files, service, joinable, loaded, settled>>

ThreadThrows ==
    /\ thr = "open" /\ ~files
    /\ Die("aborted")
    /\ UNCHANGED <<hardware, files, raised, loaded, settled>>

\* Mutant of ThreadChecks: while (true).
ThreadNeverEnds ==
    /\ thr = "check"
    /\ thr' = "load"
    /\ UNCHANGED <<hardware, files, service, joinable, loaded, settled>>

\* while (ctrl->enabled)
ThreadChecks ==
    /\ thr = "check"
    /\ thr' = IF enabled THEN "load" ELSE "done"
    /\ UNCHANGED <<hardware, files, service, joinable, loaded, settled>>

\* Mutant of ThreadLoads: the thread refreshes once.
ThreadLoadsOnce ==
    /\ thr = "load"
    /\ thr' = "done"
    /\ UNCHANGED <<hardware, files, service, joinable, loaded, settled>>

\* One refresh of both maps, and a second of sleep.
ThreadLoads ==
    /\ thr = "load"
    /\ thr' = "check"
    /\ UNCHANGED <<hardware, files, service, joinable, loaded, settled>>

Refresh == ThreadOpens \/ ThreadThrows \/ ThreadChecks \/ ThreadLoads

-----------------------------------------------------------------------------
(* The FPGA and the file system.                                           *)

\* Eight samples of each signal; the bit falls again only with the FPGA reset.
RadarMeasured ==
    /\ ~calibrated /\ calibrated' = TRUE
    /\ UNCHANGED <<enabled, dma, files, service, thread, loaded, settled>>

Upload ==
    /\ ~files /\ files' = TRUE
    /\ UNCHANGED <<hardware, service, thread, loaded, settled>>

-----------------------------------------------------------------------------
Process == Boot \/ Booted \/ Kill \/ Terminate \/ TerminateInJoin

Next ==
    \/ Process
    \/ \E c \in Calls : Take(c)
    \/ Serve
    \/ Refresh
    \/ RadarMeasured
    \/ Upload

\* Both threads run.  Nothing obliges a client to call, the radar to turn, or
\* anyone to start the server.
Spec == Init /\ [][Next]_vars /\ WF_vars(Serve) /\ WF_vars(Refresh)

-----------------------------------------------------------------------------
TypeOK ==
    /\ enabled \in BOOLEAN /\ calibrated \in BOOLEAN /\ dma \in BOOLEAN
    /\ files \in BOOLEAN /\ raised \in BOOLEAN
    /\ call \in Calls \cup {"none", "exit"}
    /\ rpc \in Down \cup {"boot", "idle", "dma", "join", "spawn", "assign",
                          "files", "stop", "clear", "load", "calibrate"}
    /\ call = "none" <=> rpc \in Down \cup {"boot", "idle"}
    /\ thr \in {"none", "open", "check", "load", "done"}
    /\ joinable \in BOOLEAN /\ loaded \in BOOLEAN /\ settled \in BOOLEAN

\* The maps and their indices have no lock: whoever clears or fills them in a
\* call, or is about to create a refresh thread, is alone.  (The handler of a
\* signal that comes between the creation of the thread and its assignment is
\* not, but it is about to end the process.)
MapsUnshared ==
    rpc \in {"clear", "load", "spawn"} /\ call /= "exit" => thr = "none"

\* When no call is being served and the simulator is off, no refresh thread is
\* left behind that could see a later enable().
StoppedMeansStopped == rpc = "idle" /\ ~enabled => thr = "none" /\ ~joinable

\* Once this process has stopped or started the simulator, its output is never
\* on between two calls without DMA and without a refresh thread that loads
\* the rotations to come and that disable() can join.
OutputIsServed ==
    rpc = "idle" /\ settled /\ enabled =>
        /\ dma /\ joinable
        /\ thr \in {"open", "check", "load"}

\* SIGINT and SIGTERM leave the simulator off, whatever they interrupted.
ExitsSwitchedOff == rpc = "exited" => ~enabled

\* disable(), reset(), loadMap() and the signal handler wait for the refresh
\* thread and get it, however late in its second of sleep it is.
StopReturns ==
    call \in {"disable", "reset", "loadMap", "exit"} ~> call = "none"
=============================================================================
