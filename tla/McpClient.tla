----------------------------- MODULE McpClient -----------------------------
(***************************************************************************)
(* Tools of external MCP servers (aegis/tools/mcp_client.py, mcp_tools.py):*)
(* a background thread opens one session per configured server, in order,  *)
(* while the thread that asked for the tools waits for it; what the        *)
(* servers then list is filtered, capped and cached for the life of the    *)
(* process.  The servers are subprocesses that can hang or break.          *)
(*                                                                         *)
(* Timeouts are steps that may be taken while the awaited thing has not    *)
(* happened.  A tool is a name at a server.                                *)
(***************************************************************************)
EXTENDS Integers, Sequences, FiniteSets

CONSTANTS
    Servers,
    Stdio,       \* servers whose transport is stdio
    offers,      \* function: the names each server lists, in order
    Names,
    mutating,    \* names with one of MUTATING_VERBS among their words
    reading,     \* names that begin with one of READ_PREFIXES
    unwrappable, \* names whose input schema the converter trips over
    MaxTools     \* MAX_MCP_TOOLS

ASSUME McpAssumption ==
    /\ Stdio \subseteq Servers /\ offers \in [Servers -> Seq(Names)]
    /\ mutating \subseteq Names /\ reading \subseteq Names /\ unwrappable \subseteq Names
    /\ MaxTools \in Nat \ {0}

VARIABLES
    config,    \* what _server_config() finds: [readable, servers in order]
    server,    \* the state of each server
    opener,    \* the client's thread: [at, next]
    sessions,  \* _sessions: servers in the order they were opened
    load       \* load_mcp_tools: [at, left, specs, kept]

mcpVars == <<config, server, opener, sessions, load>>

\* Disabled, or nothing configured; and a file that is missing or is not JSON.
NoServers == [readable |-> TRUE, servers |-> <<>>]
Unreadable == [readable |-> FALSE, servers |-> <<>>]

Configured(s) == s \in Stdio /\ \E n \in DOMAIN config.servers : config.servers[n] = s

McpInit(c) ==
    /\ config = c
    /\ server \in {f \in [Servers -> {"up", "hung", "broken"}] :
                    \A s \in Servers : ~Configured(s) => f[s] = "up"}
    /\ opener = [at |-> "none", next |-> 1]
    /\ sessions = <<>>
    /\ load = [at |-> "never", left |-> <<>>, specs |-> <<>>, kept |-> <<>>]

-----------------------------------------------------------------------------
(* The client's thread: _run and _open.                                    *)

\* After the last server the loop runs and the ready event is set.
OpenerAt(n) ==
    [at |-> IF n > Len(config.servers) THEN "ready" ELSE "opening", next |-> n]

\* One server: another transport is passed over, a session is added, a failure
\* ends the thread with an error.  With a server that hangs nothing happens.
OpenServer ==
    /\ opener.at = "opening"
    /\ LET s == config.servers[opener.next] IN
          \/ /\ s \notin Stdio
             /\ opener' = OpenerAt(opener.next + 1) /\ UNCHANGED sessions
          \/ /\ s \in Stdio /\ server[s] = "up"
             /\ sessions' = Append(sessions, s)
             /\ opener' = OpenerAt(opener.next + 1)
          \/ /\ s \in Stdio /\ server[s] = "broken"
             /\ opener' = [opener EXCEPT !.at = "error"] /\ UNCHANGED sessions
    /\ UNCHANGED <<config, server, load>>

\* A server gets worse.
Degrade(s) ==
    /\ Configured(s) /\ server[s] # "broken"
    /\ server' = [server EXCEPT ![s] = IF @ = "up" THEN "hung" ELSE "broken"]
    /\ UNCHANGED <<config, opener, sessions, load>>

-----------------------------------------------------------------------------
(* load_mcp_tools, in the thread that asks for the tools.                  *)

\* The result is cached, also when it is empty.
Loaded(kept) == load' = [at |-> "loaded", left |-> <<>>, specs |-> <<>>, kept |-> kept]

\* Nothing is configured, or the client's thread is started and waited for.
StartLoad ==
    /\ load.at = "never" /\ config.readable
    /\ IF config.servers = <<>>
       THEN Loaded(<<>>) /\ UNCHANGED opener
       ELSE /\ opener' = OpenerAt(1)
            /\ load' = [load EXCEPT !.at = "starting"]
    /\ UNCHANGED <<config, server, sessions>>

\* Mutant: a server that does not start is waited for.
StartWaits == load.at = "starting" /\ opener.at = "error" /\ Loaded(<<>>)

\* Mutant: the outcome of the wait is ignored.
StartUnchecked ==
    /\ load.at = "starting" /\ opener.at \in {"opening", "error"}
    /\ load' = [load EXCEPT !.at = "listing", !.left = sessions]

\* start raises: a server failed, or the wait for the thread timed out.  The
\* client is dropped with the sessions it has; the thread goes on.
StartRaises ==
    /\ load.at = "starting" /\ opener.at \in {"opening", "error"}
    /\ Loaded(<<>>)

Started ==
    /\ load.at = "starting" /\ opener.at = "ready"
    /\ load' = [load EXCEPT !.at = "listing", !.left = sessions]

\* list_tools, one session: a server that is not up costs its own tools.
ListServer ==
    /\ load.at = "listing" /\ load.left # <<>>
    /\ LET s == Head(load.left)
           listed == IF server[s] = "up"
                     THEN [n \in DOMAIN offers[s] |-> [server |-> s, name |-> offers[s][n]]]
                     ELSE <<>>
       IN load' = [load EXCEPT !.left = Tail(@), !.specs = @ \o listed]

IsReadOnly(tool) == tool.name \notin mutating /\ tool.name \in reading

\* The loop over the specifications: those that only read are kept, up to MaxTools.
Kept(specs) ==
    LET kept[n \in 0..Len(specs)] ==
            IF n = 0 THEN <<>>
            ELSE IF IsReadOnly(specs[n]) /\ Len(kept[n - 1]) < MaxTools
                 THEN Append(kept[n - 1], specs[n])
            ELSE kept[n - 1]
    IN  kept[Len(specs)]

Wraps(specs) == \A n \in DOMAIN specs : specs[n].name \notin unwrappable

\* Every tool is wrapped, whatever it does, before any is kept.  The
\* specifications stay as history; the code drops them.
KeepTools ==
    /\ load.at = "listing" /\ load.left = <<>> /\ Wraps(load.specs)
    /\ load' = [load EXCEPT !.at = "loaded", !.kept = Kept(load.specs)]

\* _args_model raises inside the try block: nothing is kept.
CannotWrap ==
    /\ load.at = "listing" /\ load.left = <<>> /\ ~Wraps(load.specs)
    /\ load' = [load EXCEPT !.at = "loaded"]

LoadStep ==
    \/ StartLoad
    \/ (StartRaises \/ Started \/ ListServer \/ KeepTools \/ CannotWrap)
       /\ UNCHANGED <<config, server, opener, sessions>>

\* load_mcp_tools has returned, now or in an earlier call.
HaveTools == load.at = "loaded"

\* The config file is opened outside the try block.
LoadRaises == load.at = "never" /\ ~config.readable

-----------------------------------------------------------------------------
ToolsOf(seq) == {seq[n] : n \in DOMAIN seq}
McpTools == [server: Servers, name: Names]

McpTypeOK ==
    /\ config \in [readable: BOOLEAN, servers: Seq(Servers)]
    /\ server \in [Servers -> {"up", "hung", "broken"}]
    /\ opener \in [at: {"none", "opening", "ready", "error"}, next: Nat]
    /\ sessions \in Seq(Servers)
    /\ load \in [at: {"never", "starting", "listing", "loaded"}, left: Seq(Servers),
                 specs: Seq(McpTools), kept: Seq(McpTools)]

\* What is handed to a model is all or nothing: with any tool, every server
\* that was configured for stdio has its session, whatever the thread and the
\* wait for it did in which order, and every tool that was listed, also one that
\* writes, could be wrapped; no tool that writes is among them, and such a tool
\* does not take the place of one that reads ("Filtering happens here, at load
\* time").  With none, no tool that reads was listed, or one was listed that
\* cannot be wrapped.
LoadedTools ==
    HaveTools =>
        /\ load.kept # <<>> =>
              /\ Wraps(load.specs)
              /\ \A s \in Servers :
                    Configured(s) => \E n \in DOMAIN sessions : sessions[n] = s
        /\ \A t \in ToolsOf(load.kept) : t.name \in reading \ mutating
        /\ Len(load.kept) <= MaxTools
        /\ \/ Len(load.kept) = MaxTools
           \/ ~Wraps(load.specs)
           \/ \A t \in ToolsOf(load.specs) : IsReadOnly(t) => t \in ToolsOf(load.kept)
=============================================================================
