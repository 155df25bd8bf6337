----------------------------- MODULE MCPlatform -----------------------------
(***************************************************************************)
(* Small instances of the components that join a host to others, for TLC.  *)
(* They share no state; every behaviour is one of one component, `part`.   *)
(***************************************************************************)
EXTENDS McpClient, RemoteModel, RelayTunnel, HostUpdate

VARIABLE part

mcvars == <<mvars, rvars, yvars, hvars, part>>

Part == {"calls", "bridge", "remote", "crowd", "shared", "tunnel", "host"}

\* Two visits use one ticket, a third has its own.
TicketOf == [v \in Visit |-> IF v = 3 THEN "own" ELSE "shared"]

PlatformTypeOK ==
    McpTypeOK /\ RemoteTypeOK /\ TunnelTypeOK /\ HostTypeOK /\ part \in Part

\* Where the host begins is chosen only if it is the one that moves.
PlatformInit ==
    /\ part \in Part
    /\ McpInit /\ RemoteInit /\ TunnelInit /\ HostInit
    /\ part # "host" => roles = {} /\ store.current = CHOOSE b \in Release : TRUE

In(p, A) == part = p /\ A /\ UNCHANGED part
NotMcp == <<rvars, yvars, hvars>>
NotRemote == <<mvars, yvars, hvars>>
NotTunnel == <<mvars, rvars, hvars>>
NotHost == <<mvars, rvars, yvars>>

\* Two calls of tools; or one, with an effect, and the bridge.
Called == Serving \/ \E c \in Call : CallNext(c)
Bridged == Serving \/ BridgeNext \/ \E c \in Call \ ReadOnly : CallNext(c)

\* One invocation and everything that can befall it; or two that compete for the deployment.
Alone ==
    \/ InvocationNext(CHOOSE i \in Invocation : TRUE)
    \/ CooledDown \/ TargetRestarts \/ Reconfigure

Competing ==
    \E i \in Invocation :
        \/ \E t \in {"p2p", "relay"} : Begin(i, t) \/ Invoke(i, t) \/ Answer(i, t)
        \/ Calling(i) \/ Executing(i) \/ Cancel(i)

\* Two visits with one request each under one ticket; or one with two requests.
Sharing ==
    /\ Tied \/ \E v \in {1, 2} : Visiting(v)
    /\ \A v \in {1, 2} : visit'[v].sent <= 1

Tunnelling == Tied \/ Visiting(3)

PlatformNext ==
    \/ In("calls", Called) /\ UNCHANGED NotMcp
    \/ In("bridge", Bridged) /\ UNCHANGED NotMcp
    \/ In("remote", Alone) /\ UNCHANGED NotRemote
    \/ In("crowd", Competing) /\ UNCHANGED NotRemote
    \/ In("shared", Sharing) /\ UNCHANGED NotTunnel
    \/ In("tunnel", Tunnelling) /\ UNCHANGED NotTunnel
    \/ In("host", HostNext) /\ UNCHANGED NotHost

PlatformSpec ==
    /\ PlatformInit
    /\ [][PlatformNext]_mcvars
    /\ McpFairness
    /\ RemoteFairness
    /\ TunnelFairness

\* Whoever asks another process for something is not left waiting: the call of an MCP tool
\* (call_tool), the caller of a remote model (_stream, _execute) and the client of a Node behind
\* the Relay (relay_client) all come to an end, in each case up to what CallEnds,
\* InvocationSettles and ClientIsServed say.
RequestsEnd == CallEnds /\ InvocationSettles /\ ClientIsServed

=============================================================================
