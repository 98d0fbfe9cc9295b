------------------------------ MODULE MCClients ------------------------------
(* The server of ActionPipeline with one of its two clients: the benchmark, *)
(* or web pages.  The variables of the other one keep their initial value.  *)
EXTENDS BenchmarkRun, PageLoads

VARIABLE clientKind

clientsVars == <<clientKind, allVars, pageVars>>

ClientsInit ==
    /\ clientKind \in {"benchmark", "pages"}
    /\ BenchInit
    /\ PagesInit

Benchmark(step) ==
    clientKind = "benchmark" /\ step /\ UNCHANGED <<clientKind, pageVars>>

ClientsNext ==
    \/ Benchmark(BenchNext)
    \/ clientKind = "pages" /\ PagesNext /\ UNCHANGED <<clientKind, benchVars>>

\* Those of BenchmarkRun; pages owe nothing.
ClientsFairness ==
    /\ WF_clientsVars(Benchmark(Owner(OwnerStep)))
    /\ WF_clientsVars(Benchmark(Encode))
    /\ WF_clientsVars(Benchmark(Handler))
    /\ WF_clientsVars(Benchmark(Receive))
    /\ WF_clientsVars(Benchmark(Server(ServerStep)))
    /\ WF_clientsVars(Benchmark(ClientStep))

ClientsSpec == ClientsInit /\ [][ClientsNext]_clientsVars /\ ClientsFairness

-----------------------------------------------------------------------------
(* Properties *)

\* browser_benchmark.py: the benchmark ends without its time-outs.
BenchmarkAlwaysEnds == clientKind = "benchmark" => BenchmarkEnds
=============================================================================
