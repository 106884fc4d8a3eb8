SPECIFICATION Spec
INVARIANTS TypeOK MapsUnshared StoppedMeansStopped OutputIsServed ExitsSwitchedOff
PROPERTY StopReturns
