----------------------------- MODULE LoanServer -----------------------------
(***************************************************************************)
(* The life of the process that runs LoanService: the container's          *)
(* entrypoint migrates the database, main() opens it, serves HTTP and gRPC *)
(* side by side, and on a signal, or when one of the servers fails, stops  *)
(* both, one after the other; then the container is started again.         *)
(*                                                                         *)
(* A call of LoanService arrives over one of the two transports, and while *)
(* that one is served.  golang-migrate is modelled as main.go of migrate   *)
(* uses it: it marks the version dirty, runs the file, clears the mark,    *)
(* and does nothing for a database that is marked.  openDB's ten attempts  *)
(* are one step.                                                           *)
(***************************************************************************)
EXTENDS LoanService

CONSTANT RpcCalls  \* the calls and returns that come over gRPC, not HTTP

ASSUME ServerAssumption == RpcCalls \subseteq Calls \cup Returns

VARIABLES
  phase,     \* where the process is, see Phases
  version,   \* schema_migrations: "none", "dirty" or "applied"
  table,     \* is the loans table there?
  expired    \* have the ten seconds that main() gives the shutdown passed?

lifeVars == <<phase, version, table, expired>>
serverVars == <<vars, lifeVars>>

Phases == {"down", "migrating", "migrated", "opening", "serving", "draining",
           "stopping"}

ServerTypeOK ==
  /\ TypeOK
  /\ phase \in Phases
  /\ version \in {"none", "dirty", "applied"}
  /\ table \in BOOLEAN
  /\ expired \in BOOLEAN

ServerInit ==
  /\ Init
  /\ phase = "down"
  /\ version = "none"
  /\ table = FALSE
  /\ expired = FALSE

Busy(e) ==
  \/ e \in Calls /\ CallInFlight(e)
  \/ e \in Returns /\ ReturnInFlight(e)
RpcBusy == \E e \in RpcCalls : Busy(e)
HttpBusy == \E e \in (Calls \cup Returns) \ RpcCalls : Busy(e)

-----------------------------------------------------------------------------
\* The container starts: migrate up, then the server.

GoOn(p) == phase' = p /\ UNCHANGED <<vars, expired>>

MigrateBegins ==
  /\ phase = "down" /\ version = "none"
  /\ version' = "dirty"
  /\ GoOn("migrating") /\ UNCHANGED table

\* The file creates the table, all of it or nothing, if it is not there yet.
RunMigration ==
  /\ phase = "migrating" /\ ~table
  /\ table' = TRUE
  /\ GoOn("migrated") /\ UNCHANGED version

MigrateEnds ==
  /\ phase = "migrated"
  /\ version' = "applied"
  /\ GoOn("opening") /\ UNCHANGED table

\* Mutant: ErrNoChange is an error like any other.
NothingToMigrateFails ==
  /\ phase = "down" /\ version = "applied"
  /\ UNCHANGED serverVars

\* Mutant: the entrypoint starts the server whatever migrate says.
StartAnyhow ==
  /\ phase = "down" /\ version # "none"
  /\ GoOn("opening") /\ UNCHANGED <<version, table>>

\* ErrNoChange.  A dirty database is refused, and the entrypoint ends there.
NothingToMigrate ==
  /\ phase = "down" /\ version = "applied"
  /\ GoOn("opening") /\ UNCHANGED <<version, table>>

\* Both servers listen.
Serve ==
  /\ phase = "opening"
  /\ GoOn("serving") /\ UNCHANGED <<version, table>>

\* migrate or the server exits with 1: the file is refused, the database does
\* not answer, or the port is taken.
StartFails ==
  /\ phase \in {"migrating", "opening"}
  /\ GoOn("down") /\ UNCHANGED <<version, table>>

\* make migrate-force, by an operator who has looked at the database.
ForceVersion ==
  /\ phase = "down" /\ version = "dirty"
  /\ version' = IF table THEN "applied" ELSE "none"
  /\ UNCHANGED <<vars, phase, table, expired>>

-----------------------------------------------------------------------------
\* It stops.  The deadline of ten seconds runs from the signal on, but only the
\* HTTP server knows it, and that one is asked second.

\* SIGTERM or SIGINT, or one server has failed: the gRPC server takes no more
\* calls, the HTTP server still does.
ShutDown ==
  /\ phase = "serving"
  /\ GoOn("draining") /\ UNCHANGED <<version, table>>

Deadline ==
  /\ phase \in {"draining", "stopping"}
  /\ expired' = TRUE
  /\ UNCHANGED <<vars, phase, version, table>>

\* Mutant: the deadline is tested where the waiting ends.
GracefulStopInTime ==
  /\ phase = "draining" /\ ~RpcBusy /\ ~expired
  /\ GoOn("stopping") /\ UNCHANGED <<version, table>>

\* Mutant: Stop is called instead, which waits for nobody.
StopAtOnce ==
  /\ phase = "draining"
  /\ GoOn("stopping") /\ UNCHANGED <<version, table>>

\* GracefulStop returns when the last RPC has, however long that takes.
GracefulStop ==
  /\ phase = "draining" /\ ~RpcBusy
  /\ GoOn("stopping") /\ UNCHANGED <<version, table>>

\* Shutdown returns when the HTTP server is idle, or the deadline has passed;
\* main() returns and takes with it what is still running.
Exit ==
  /\ phase = "stopping"
  /\ ~HttpBusy \/ expired
  /\ CutOff
  /\ phase' = "down" /\ expired' = FALSE /\ UNCHANGED <<version, table>>

\* SIGKILL or a panic, at any point.
Die ==
  /\ "crash" \in LoanFaults /\ phase # "down"
  /\ CutOff
  /\ phase' = "down" /\ expired' = FALSE /\ UNCHANGED <<version, table>>

-----------------------------------------------------------------------------
\* Is e's transport served?
Accepts(e) == phase = "serving" \/ (phase = "draining" /\ e \notin RpcCalls)

Boot ==
  \/ MigrateBegins \/ RunMigration \/ MigrateEnds
  \/ NothingToMigrate \/ Serve \/ StartFails

Stop == GracefulStop \/ Exit

ServerCallStep(c) == CallStep(c) /\ UNCHANGED lifeVars
ServerReturnStep(x) == ReturnStep(x) /\ UNCHANGED lifeVars

Arrival ==
  /\ \/ \E c \in Calls, a \in Args : Accepts(c) /\ Accept(c, a)
     \/ \E x \in Returns, d \in Calls \cup {NilId} : Accepts(x) /\ ReadLoan(x, d)
  /\ UNCHANGED lifeVars

ServerNext ==
  \/ Boot \/ ForceVersion \/ ShutDown \/ Deadline \/ Stop \/ Die
  \/ Arrival
  \/ \E c \in Calls : ServerCallStep(c)
  \/ \E x \in Returns : ServerReturnStep(x)

ServerSpec == ServerInit /\ [][ServerNext]_serverVars

\* Goroutines run, compose restarts the container unless it was stopped by hand,
\* and main() goes on when what it waits for has come.
ServerFairness ==
  /\ WF_serverVars(Boot) /\ WF_serverVars(Stop)
  /\ \A c \in Calls : WF_serverVars(ServerCallStep(c))
  /\ \A x \in Returns : WF_serverVars(ServerReturnStep(x))

ServerFairSpec == ServerSpec /\ ServerFairness

-----------------------------------------------------------------------------
\* Whatever start failed and wherever, the server never serves without its
\* table.
ServesWithTable == phase \in {"serving", "draining", "stopping"} => table

\* A stop that comes to its end cuts no RPC off, and no HTTP request before the
\* ten seconds are over.
Cut(e) ==
  \/ e \in Calls /\ call[e] # "lost" /\ call'[e] = "lost"
  \/ e \in Returns /\ ret[e] # "lost" /\ ret'[e] = "lost"

StopsGracefully ==
  [][Exit => \A e \in Calls \cup Returns : Cut(e) => e \notin RpcCalls /\ expired]_serverVars

\* What makes them inductive: only a database that has its table is marked
\* applied, and no RPC is left once GracefulStop has returned.
Lifecycle ==
  /\ phase \in {"migrated", "opening", "serving", "draining", "stopping"} => table
  /\ version = "applied" => table
  /\ phase = "stopping" => ~RpcBusy

ServerIInv == IInv /\ ServerTypeOK /\ Lifecycle

\* A shutdown that has begun comes to its end, as long as calls do: there is no
\* deadline on the RPCs it waits for.
StopEnds == phase = "draining" ~> phase = "down"

\* When starts cease to fail and nobody stops it, the server is up in the end,
\* unless it died amid its migration and no operator has forced the version.
Trouble == StartFails \/ ShutDown \/ Die

ComesBack ==
  <>[][~Trouble]_serverVars => <>[](phase = "serving") \/ <>[](version = "dirty")
=============================================================================
