---------------------------- MODULE ParserClients ----------------------------
(***************************************************************************)
(* The programs that link the parser: one that makes its calls in any      *)
(* order with the same structures, as the tests do (ParserApi), and the    *)
(* echo application.  A process is one of the two.                         *)
(***************************************************************************)
EXTENDS ParserApi, EchoVoucher

VARIABLE client

clientVars == <<client, apiVars, echoVars>>

ClientInit == ApiInit /\ EchoInit /\ client \in {"caller", "echo"}

Caller == client = "caller" /\ ApiNext /\ UNCHANGED <<client, echoVars>>

Echo(Step) == client = "echo" /\ Step /\ UNCHANGED <<client, apiVars>>

ClientNext == Caller \/ Echo(EchoNext) \/ Echo(Terminated)

\* The loop of the echo application never stops, and the device does not fail for
\* ever.  Requests come when they come, and a caller stops when it likes.
Fairness == WF_clientVars(Echo(Finish)) /\ WF_clientVars(Echo(Handle))

ClientSpec == ClientInit /\ [][ClientNext]_clientVars /\ Fairness
=============================================================================
