-------------------------------- MODULE MCCli -------------------------------
(* Cli with small sets of processes, and files that agree with themselves or
   do not. *)
EXTENDS Cli

CONSTANTS c1, c2, s1, s2, n1, n2, here, there

Version_(s, c) == [k \in Key |-> IF k = "serve" THEN s ELSE c]

OneCommand   == {c1}
TwoCommands  == {c1, c2}
OneServer    == {s1}
TwoServers   == {s1, s2}
SecondServer == {s2}
OneName      == {n1}
TwoNames     == {n1, n2}
TwoAddrs     == {here, there}
Versions     == {Version_(there, there), Version_(Mistyped, there)}
OneVersion   == {Version_(Mistyped, there)}
Requests     == {"pull", "rm", "run", "chat"}
Changes      == {"pull", "rm"}
Starts       == {"run", "init", "force"}
NoVersion    == {}

Interchangeable == Permutations(Command)
AllInterchangeable == Interchangeable \cup Permutations(Server) \cup Permutations(Name)
=============================================================================
