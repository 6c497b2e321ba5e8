-------------------------- MODULE LoanServerProofs --------------------------
(***************************************************************************)
(* Proofs about LoanServer: what LoanService keeps is kept through every   *)
(* start, migration, shutdown and crash of its process, the server never   *)
(* serves without its table, and a graceful stop is graceful.              *)
(***************************************************************************)
EXTENDS LoanServer, LoanServiceProofs

LEMMA ServerInitInv == ServerInit => ServerIInv
  BY InitInv DEF ServerInit, ServerIInv, ServerTypeOK, Lifecycle, IInv, Phases

\* A step of the server is one of the service, a CutOff, or none of its own.
LEMMA ServerSteps ==
  ASSUME [ServerNext]_serverVars
  PROVE  [Steps]_vars
<1>1. CASE UNCHANGED serverVars
  BY <1>1 DEF serverVars, vars
<1>2. CASE Boot \/ ForceVersion \/ ShutDown \/ Deadline \/ GracefulStop
  BY <1>2 DEF Boot, MigrateBegins, RunMigration, MigrateEnds, NothingToMigrate,
              Serve, StartFails, GoOn, ForceVersion, ShutDown, Deadline, GracefulStop, vars
<1>3. CASE Exit \/ Die
  BY <1>3 DEF Exit, Die, Steps
<1>4. CASE Arrival
  BY <1>4 DEF Arrival, Steps, Next
<1>5. CASE \E c \in Calls : ServerCallStep(c)
  BY <1>5 DEF ServerCallStep, Steps, Next
<1>6. CASE \E x \in Returns : ServerReturnStep(x)
  BY <1>6 DEF ServerReturnStep, Steps, Next
<1> QED BY <1>1, <1>2, <1>3, <1>4, <1>5, <1>6 DEF ServerNext, Stop

\* Only calls and returns that are busy take steps, and then stay what they
\* are to the others.
LEMMA CallStepBusy ==
  ASSUME IInv, NEW c \in Calls, CallStep(c)
  PROVE  CallInFlight(c) /\ ret' = ret /\ \A d \in Calls \ {c} : call'[d] = call[d]
<1>1. call[c] \in {"lookup", "check", "insert"} /\ ret' = ret
  BY DEF CallStep, LookUp, AskCatalog, Insert, InsertFails, retVars
<1>2. \E s : call' = [call EXCEPT ![c] = s]
  BY DEF CallStep, LookUp, AskCatalog, Insert, InsertFails, Reply, GoTo
<1> QED BY <1>1, <1>2 DEF IInv, TypeOK, CallInFlight

LEMMA ReturnStepBusy ==
  ASSUME IInv, NEW x \in Returns, ReturnStep(x)
  PROVE  ReturnInFlight(x) /\ call' = call /\ \A y \in Returns \ {x} : ret'[y] = ret[y]
<1>1. ret[x] = "save" /\ call' = call /\ ret' = [ret EXCEPT ![x] = "done"]
  BY DEF ReturnStep, SaveLoan, SaveFails, Finish, callVars
<1> QED BY <1>1 DEF IInv, TypeOK, ReturnInFlight

\* The steps that are the process's own.
LEMMA LifeStepInv ==
  ASSUME ServerIInv, Boot \/ ForceVersion \/ ShutDown \/ Deadline \/ Stop \/ Die
  PROVE  (ServerTypeOK /\ Lifecycle)'
<1> USE DEF ServerIInv, ServerTypeOK, Lifecycle, Phases
<1>1. TypeOK'
  BY ServerSteps, StepInv DEF ServerNext, IInv
<1>2. CASE Boot
  BY <1>1, <1>2 DEF Boot, MigrateBegins, RunMigration, MigrateEnds, NothingToMigrate,
                    Serve, StartFails, GoOn
<1>3. CASE ForceVersion
  BY <1>1, <1>3 DEF ForceVersion
<1>4. CASE ShutDown
  BY <1>1, <1>4 DEF ShutDown, GoOn
<1>5. CASE Deadline \/ GracefulStop
  <2>1. RpcBusy' <=> RpcBusy
    BY <1>5 DEF Deadline, GracefulStop, GoOn, vars, RpcBusy, Busy, CallInFlight,
                ReturnInFlight
  <2> QED BY <1>1, <1>5, <2>1 DEF Deadline, GracefulStop, GoOn
<1>6. CASE Exit \/ Die
  BY <1>1, <1>6 DEF Exit, Die
<1> QED BY <1>2, <1>3, <1>4, <1>5, <1>6 DEF Stop

LEMMA ServerStepInv == ServerIInv /\ [ServerNext]_serverVars => ServerIInv'
<1> SUFFICES ASSUME ServerIInv, [ServerNext]_serverVars
             PROVE  ServerIInv'
  OBVIOUS
<1>1. IInv /\ IInv'
  BY ServerSteps, StepInv DEF ServerIInv
<1>2. CASE Boot \/ ForceVersion \/ ShutDown \/ Deadline \/ Stop \/ Die
  BY <1>1, <1>2, LifeStepInv DEF ServerIInv
<1>3. ASSUME UNCHANGED lifeVars, phase = "stopping" => ~RpcBusy'
      PROVE  ServerIInv'
  BY <1>1, <1>3 DEF ServerIInv, ServerTypeOK, Lifecycle, lifeVars, IInv
<1>4. CASE UNCHANGED serverVars
  BY <1>3, <1>4 DEF serverVars, vars, ServerIInv, Lifecycle, RpcBusy, Busy, CallInFlight,
                    ReturnInFlight
<1>5. CASE Arrival
  <2>1. phase # "stopping"
    BY <1>5 DEF Arrival, Accepts
  <2> QED BY <1>3, <1>5, <2>1 DEF Arrival
<1>6. ASSUME NEW c \in Calls, ServerCallStep(c)
      PROVE  ServerIInv'
  <2>1. CallInFlight(c) /\ ret' = ret /\ \A d \in Calls \ {c} : call'[d] = call[d]
    BY <1>1, <1>6, CallStepBusy DEF ServerCallStep
  <2>2. ~RpcBusy => ~RpcBusy'
    BY <2>1 DEF RpcBusy, Busy, CallInFlight, ReturnInFlight
  <2> QED BY <1>3, <1>6, <2>2 DEF ServerCallStep, ServerIInv, Lifecycle
<1>7. ASSUME NEW x \in Returns, ServerReturnStep(x)
      PROVE  ServerIInv'
  <2>1. ReturnInFlight(x) /\ call' = call /\ \A y \in Returns \ {x} : ret'[y] = ret[y]
    BY <1>1, <1>7, ReturnStepBusy DEF ServerReturnStep
  <2>2. ~RpcBusy => ~RpcBusy'
    BY <2>1 DEF RpcBusy, Busy, CallInFlight, ReturnInFlight
  <2> QED BY <1>3, <1>7, <2>2 DEF ServerReturnStep, ServerIInv, Lifecycle
<1> QED BY <1>2, <1>4, <1>5, <1>6, <1>7 DEF ServerNext

-----------------------------------------------------------------------------
\* The inductive invariant holds in every state of the service's process.
THEOREM ServerInvariance == ServerSpec => []ServerIInv
  BY ServerInitInv, ServerStepInv, PTL DEF ServerSpec

\* Every variable keeps its type.
THEOREM ServerTyped == ServerSpec => []ServerTypeOK
  BY ServerInvariance, PTL DEF ServerIInv

\* However starts and migrations fail, the server never serves without its
\* table.
THEOREM TableBeforeServing == ServerSpec => []ServesWithTable
<1>1. ServerIInv => ServesWithTable
  BY DEF ServerIInv, Lifecycle, ServesWithTable
<1> QED BY ServerInvariance, <1>1, PTL

\* Through restarts and shutdowns too, one idempotency key has one loan.
THEOREM OneLoanPerKeyServed == ServerSpec => []SameKeySameLoan
<1>1. ServerIInv => SameKeySameLoan
  BY InvOneLoan DEF ServerIInv
<1> QED BY ServerInvariance, <1>1, PTL

\* Through restarts and shutdowns too, the service implements LoanRegistry.
THEOREM RegistryKeptServed == ServerSpec => RegistrySpec
<1>1. ServerInit => Registry!Init
  BY RegistryInit DEF ServerInit
<1>2. ServerIInv /\ [ServerNext]_serverVars => [Registry!Next]_(Registry!registry)
  BY ServerSteps, StepRefines DEF ServerIInv, registry_bar, verdict, Registry!registry
<1> QED BY <1>1, <1>2, ServerInvariance, PTL DEF ServerSpec, RegistrySpec, Registry!Spec

\* main() takes no RPC with it when it returns, and an HTTP request only when
\* the ten seconds of the shutdown are over.
THEOREM GracefulStops == ServerSpec => StopsGracefully
<1>1. ASSUME ServerIInv, Exit, NEW e \in Calls \cup Returns, Cut(e)
      PROVE  e \notin RpcCalls /\ expired
  <2>1. Busy(e)
    BY <1>1 DEF Exit, CutOff, Cut, Busy, CallInFlight, ReturnInFlight, ServerIInv, IInv, TypeOK
  <2>2. ~RpcBusy /\ (~HttpBusy \/ expired)
    BY <1>1 DEF Exit, ServerIInv, Lifecycle
  <2> QED BY <2>1, <2>2 DEF RpcBusy, HttpBusy
<1>2. ServerIInv =>
        [Exit => \A e \in Calls \cup Returns : Cut(e) => e \notin RpcCalls /\ expired]_serverVars
  BY <1>1
<1> QED BY <1>2, ServerInvariance, PTL DEF ServerSpec, StopsGracefully
=============================================================================
