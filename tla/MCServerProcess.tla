-------------------------- MODULE MCServerProcess --------------------------
(***************************************************************************)
(* Instances of ServerProcess for TLC.                                     *)
(***************************************************************************)
EXTENDS ServerProcess

CONSTANTS c1, c2

TwoConns == {c1, c2}

\* One client asks for anything, an end being served like a leave; the other
\* one joins.
Clients == [c \in {c1, c2} |-> IF c = c1 THEN Routes \ {"end"} ELSE {"join"}]

\* Both, as the fx module has it, or none: NewHTTPHandler with nil for both.
BareOrFull == {{}, {"recover", "logger"}}
DeployedChain == {{"recover", "logger"}}
=============================================================================
