----------------------------- MODULE McpManager -----------------------------
(***************************************************************************)
(* The MCP servers of a service (tools/mcp.py, service.py): they are       *)
(* connected and asked for their tools one after the other at startup,     *)
(* those that fail or are too slow are skipped, the tools found are        *)
(* registered under namespaced names, those of trusted servers are allowed *)
(* by default, and all is closed at shutdown.                              *)
(***************************************************************************)
EXTENDS Naturals, Sequences, FiniteSets, SequencesExt

CONSTANTS
  Servers,    \* McpConfig.servers, in order
  AutoAllow,  \* those with auto_allow
  Offers,     \* the tools each may list
  Namespaced, \* the name of each server's tool in the registry, server__tool
  Native      \* the names registered before

\* schema.py:222-230 refuses a server name that is given twice; a server answers
\* list_tools with a list.
ASSUME McpAssumption ==
  /\ Servers \in Seq(ToSet(Servers)) /\ IsInjective(Servers)
  /\ AutoAllow \subseteq ToSet(Servers)
  /\ \A s \in ToSet(Servers) : IsFiniteSet(Offers[s])

VARIABLES
  stage,     \* where astart or aclose is
  at,        \* the server start is at
  open,      \* servers whose transport has been entered, and not left by this code
  stacked,   \* those whose client holds the exit stack that leaves it
  connected, \* _connected
  found,     \* the tools that were discovered: <<server, tool>>, in order
  registry,  \* the tool that each registered name calls
  allowed    \* names added to the default allowlist

mcpVars == <<stage, at, open, stacked, connected, found, registry, allowed>>

Current == Servers[at]
NativeTool == <<"native", "native">>
NameOf(tool) == Namespaced[tool[1]][tool[2]]

\* start comes to server i, or to its end.
ComesTo(i) == IF i <= Len(Servers) THEN "connect" ELSE "register"

GoOn ==
  /\ at' = at + 1
  /\ stage' = ComesTo(at + 1)

-----------------------------------------------------------------------------
(* MCPManager.start.                                                       *)

\* The transport is entered: a process started, a stream opened.
Enters ==
  /\ stage = "connect"
  /\ open' = open \cup {Current}
  /\ stage' = "initialize"
  /\ UNCHANGED <<at, stacked, connected, found, registry, allowed>>

\* initialize returns, and only now does the client keep its exit stack.
Initializes ==
  /\ stage = "initialize"
  /\ stacked' = stacked \cup {Current}
  /\ stage' = "discover"
  /\ UNCHANGED <<at, open, connected, found, registry, allowed>>

\* list_tools; a tool stands for its handler, which calls it by its own name.
Discovers(tools) ==
  /\ stage = "discover"
  /\ tools \subseteq Offers[Current]
  /\ connected' = connected \cup {Current}
  /\ found' = found \o SetToSeq({Current} \X tools)
  /\ GoOn
  /\ UNCHANGED <<open, stacked, registry, allowed>>

\* A bug to catch: the failed client is dropped as it is.
CloseNothing == UNCHANGED <<open, stacked>>

\* A bug to catch: a client that was closed may be closed again.
ClosesKeepingStack ==
  /\ open' = IF Current \in stacked THEN open \ {Current} ELSE open
  /\ UNCHANGED stacked

\* aclose of the client that failed: it leaves what its exit stack holds.
CloseFailed ==
  /\ open' = IF Current \in stacked THEN open \ {Current} ELSE open
  /\ stacked' = stacked \ {Current}

\* Anything raises, or takes longer than startup_timeout_s: the server is skipped.
Skips ==
  /\ stage \in {"connect", "initialize", "discover"}
  /\ CloseFailed
  /\ GoOn
  /\ UNCHANGED <<connected, found, registry, allowed>>

-----------------------------------------------------------------------------
(* AgentService.astart and aclose.                                         *)

\* ToolRegistry.register of one after the other: a tool takes its name, whoever had it.
LastNamed(n) ==
  CHOOSE i \in DOMAIN found :
    NameOf(found[i]) = n /\ \A j \in DOMAIN found : NameOf(found[j]) = n => j <= i

Registered ==
  LET names == {NameOf(t) : t \in ToSet(found)}
  IN  [n \in DOMAIN registry \cup names |-> IF n \in names THEN found[LastNamed(n)] ELSE registry[n]]

Registers ==
  /\ stage = "register"
  /\ registry' = Registered
  /\ stage' = "allow"
  /\ UNCHANGED <<at, open, stacked, connected, found, allowed>>

\* A bug to catch: every tool found is allowed by default.
AllFound == {NameOf(t) : t \in ToSet(found)}

AutoAllowed == {NameOf(t) : t \in {u \in ToSet(found) : u[1] \in AutoAllow}}

Allows ==
  /\ stage = "allow"
  /\ allowed' = AutoAllowed
  /\ stage' = "serving"
  /\ UNCHANGED <<at, open, stacked, connected, found, registry>>

\* The permission store raises: the application does not start, nor close anything.
AllowFails ==
  /\ stage = "allow" /\ AutoAllowed # {}
  /\ stage' = "failed"
  /\ UNCHANGED <<at, open, stacked, connected, found, registry, allowed>>

\* aclose, of the connected clients.
ClosesAll ==
  /\ stage = "serving"
  /\ open' = open \ (connected \cap stacked)
  /\ stacked' = stacked \ connected
  /\ connected' = {}
  /\ stage' = "closed"
  /\ UNCHANGED <<at, found, registry, allowed>>

McpInit ==
  /\ stage = ComesTo(1) /\ at = 1
  /\ open = {} /\ stacked = {} /\ connected = {}
  /\ found = <<>>
  /\ registry = [n \in Native |-> NativeTool]
  /\ allowed = {}

McpNext ==
  \/ Enters \/ Initializes \/ Skips
  \/ at <= Len(Servers) /\ \E tools \in SUBSET Offers[Current] : Discovers(tools)
  \/ Registers \/ Allows \/ AllowFails \/ ClosesAll

McpSpec == McpInit /\ [][McpNext]_mcpVars

-----------------------------------------------------------------------------
(* Properties.                                                             *)

Starting == stage \in {"connect", "initialize", "discover"}
Collides(n) == \E t, u \in ToSet(found) : t # u /\ NameOf(t) = n /\ NameOf(u) = n

\* The clients are those of configured servers, and the registry calls their tools.
McpTypeOK ==
  /\ stage \in {"connect", "initialize", "discover", "register", "allow", "serving", "failed",
                "closed"}
  /\ at \in 1..(Len(Servers) + 1)
  /\ open \subseteq ToSet(Servers) /\ stacked \subseteq open /\ connected \subseteq open
  /\ \A t \in ToSet(found) : t[1] \in ToSet(Servers) /\ t[2] \in Offers[t[1]]

\* "A server that fails to connect or discover is logged and skipped"
\* (mcp.py:158-162): what stays open belongs to a connected client, which aclose
\* closes, or to the one that is being started; or its initialize failed before the
\* client held the stack (mcp.py:94-97).
OpenIsOwned ==
  /\ \A s \in open : s \in connected \/ s \notin stacked \/ (Starting /\ s = Current)
  /\ stage = "closed" => stacked = {} /\ connected = {}

\* While the service runs, a registered name calls a tool of a live server that
\* listed it, and a default permission was meant for the tool it lets through
\* (service.py:258-268), unless two names came out the same (mcp.py:34-35).
NamesReachTheirServer ==
  stage = "serving" =>
    /\ \A n \in DOMAIN registry : registry[n] = NativeTool \/ registry[n][1] \in connected
    /\ \A t \in ToSet(found) : registry[NameOf(t)] = t \/ Collides(NameOf(t))
    /\ \A n \in allowed : registry[n][1] \in AutoAllow \/ Collides(n)
=============================================================================
