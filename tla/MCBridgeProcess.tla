--------------------------- MODULE MCBridgeProcess ---------------------------
(* Command lines, files and answers for BridgeProcess.                     *)
EXTENDS BridgeProcess

Command(c, unix) ==
  [command |-> c, unix |-> unix, tailscale |-> FALSE, agentSocket |-> FALSE,
   address |-> "given", name |-> "given", paths |-> "given", limit |-> 1]

Client == Command("client", TRUE)
UnixServer == Command("server", TRUE)
WindowsServer == Command("server", FALSE)
WindowsService == Command("service", FALSE)

Proper ==
  {Client, UnixServer, [UnixServer EXCEPT !.agentSocket = TRUE]}
    \cup {[l EXCEPT !.tailscale = t] : l \in {WindowsServer, WindowsService}, t \in BOOLEAN}

\* Every combination of things missing from a command line.
Improper ==
  {[Client EXCEPT !.address = a, !.name = n, !.paths = p, !.limit = m] :
     a \in {"given", "empty"}, n \in {"given", "empty", "invalid"},
     p \in {"given", "empty"}, m \in {0, 1}}
  \cup {[l EXCEPT !.paths = p, !.limit = m] :
     l \in {UnixServer, WindowsService}, p \in {"given", "empty"}, m \in {0, 1}}

AllLaunches == Proper \cup Improper

Good == [ca |-> Pem(<<"cert1">>), chain |-> Pem(<<"cert1">>), key |-> Pem(<<"key1">>)]

Pems ==
  {Missing} \cup {Pem(s) : s \in {<<>>} \cup {<<a>> : a \in Sections}
                                 \cup {<<a, b>> : a, b \in Sections}}

\* One file at a time is not as it should be, or the key is not private.
AllMaterials ==
  {[Good EXCEPT ![f] = p] : f \in {"ca", "chain", "key"}, p \in Pems}
    \cup {[Good EXCEPT !.key = [@ EXCEPT !.private = FALSE]]}

ServiceLaunches == {WindowsService, [WindowsService EXCEPT !.tailscale = TRUE]}
GoodMaterials == {Good}

AllAnswers ==
  {<<>>} \cup {<<a>> : a \in {"tail1", "tail2", "junk"}}
         \cup {<<a, b>> : a, b \in {"tail1", "tail2", "junk"}}
=============================================================================
