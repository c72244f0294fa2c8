------------------------------- MODULE MCLive -------------------------------
(***************************************************************************)
(* The parts that promise progress, for TLC: the timing wheel, the thread  *)
(* pipe and the gateway.  They are independent of each other here: a       *)
(* behaviour exercises one of them, named by part.  The messages of the    *)
(* pipe have different lengths; the gateway has two workers, enough        *)
(* descriptors and connections for its clients, and threads that start.    *)
(***************************************************************************)
EXTENDS Timer, TPipe, CGate

VARIABLE part

vars == <<part, timerVars, pipeVars, gateVars>>

MCPayloadLen == [k \in 1 .. MaxMsgs |-> IF k = 2 THEN 2 ELSE 1]

Init ==
  /\ part \in {"timer", "pipe", "gate"}
  /\ TimerInit /\ PipeInit /\ GateInit

OfTimer(A) == part = "timer" /\ A /\ UNCHANGED <<part, pipeVars, gateVars>>
OfPipe(A) == part = "pipe" /\ A /\ UNCHANGED <<part, timerVars, gateVars>>
OfGate(A) == part = "gate" /\ A /\ UNCHANGED <<part, timerVars, pipeVars>>

Next == OfTimer(TimerNext) \/ OfPipe(PipeNext) \/ OfGate(GateNext)

(* The fairness of TimerFairSpec, PipeFairSpec and GateFairSpec.           *)
FairSpec ==
  /\ Init /\ [][Next]_vars
  /\ WF_vars(OfTimer(Routine)) /\ WF_vars(OfTimer(\E e \in entry_map_ : CallBack(e)))
  /\ WF_vars(OfPipe(InitSide("reader"))) /\ WF_vars(OfPipe(Reading))
  /\ WF_vars(OfGate(StartStep)) /\ WF_vars(OfGate(MainHandle))
  /\ \A w \in Worker : /\ WF_vars(OfGate(MainMail(w))) /\ WF_vars(OfGate(Boot(w)))
                       /\ WF_vars(OfGate(WorkerStep(w)))
  /\ \A s \in Sockets : WF_vars(OfGate(Accept(s)))
=============================================================================
