------------------------------ MODULE AgentBridge ------------------------------
(***************************************************************************)
(* What the sessions of one agent step share in their process              *)
(* (src/host/pi-agent.ts, step-output-tools.ts, subagent-process.ts): the  *)
(* harness session, which runs one turn at a time with the output tools of *)
(* one step active, and the session file of a resumable subagent, which    *)
(* one child writes at a time.  A session belongs to one attempt of the    *)
(* step.  Each operator is what one stretch of the bridge's code does to   *)
(* this state; StepRunner conjoins them to the attempt's own steps.        *)
(***************************************************************************)
EXTENDS Naturals

CONSTANTS
    MaxSessions     \* bound: attempts, each of which opens one session

Sessions == 1..MaxSessions

Nobody == 0

VARIABLES
    inFlight,   \* the session whose turn the harness runs
    tools,      \* the session whose output tools are active, Nobody when restored
    narrowed,   \* sessions with a toolBaseline: they narrowed the active set
    claim,      \* liveResumeFiles: the session that claimed the file
    children,   \* sessions whose subprocess runs
    leaked      \* sessions that claimed the file and threw before they spawned (history)

bridge == <<inFlight, tools, narrowed, claim, children, leaked>>

BridgeTypeOK ==
    /\ inFlight \in Sessions \union {Nobody}
    /\ tools \in Sessions \union {Nobody}
    /\ narrowed \subseteq Sessions
    /\ claim \in Sessions \union {Nobody}
    /\ children \subseteq Sessions
    /\ leaked \subseteq Sessions

BridgeInit ==
    /\ inFlight = Nobody /\ tools = Nobody /\ narrowed = {}
    /\ claim = Nobody /\ children = {} /\ leaked = {}

\* Bug in Occupied: the guard is gone.
NeverOccupied == FALSE

\* The safety net: a session may not send while another turn is in flight.
Occupied == inFlight # Nobody

\* A step under a contract registers its tools and narrows the active set.
Narrow(a, contract) ==
    IF contract
    THEN tools' = a /\ narrowed' = narrowed \union {a}
    ELSE UNCHANGED <<tools, narrowed>>

\* The turn is sent, with no await since the tools were narrowed.
SendTurn(a, contract) ==
    /\ Narrow(a, contract)
    /\ inFlight' = a
    /\ UNCHANGED <<claim, children, leaked>>

\* The session was aborted while it selected its model: it has narrowed the tools by
\* the time it looks, and disposes of itself.
SendRefusedByAbort(a, contract) ==
    /\ tools' = IF contract THEN Nobody ELSE tools
    /\ narrowed' = narrowed \ {a}
    /\ UNCHANGED <<inFlight, claim, children, leaked>>

\* agent_settled, or the idle watch: whoever is in flight is answered.
TurnOver == inFlight' = Nobody /\ UNCHANGED <<claim, children, leaked>>

\* dispose(): the session hands the active set back if it narrowed it.
Dispose(a) ==
    /\ tools' = IF a \in narrowed THEN Nobody ELSE tools
    /\ narrowed' = narrowed \ {a}

\* claimResumeFile refuses a key whose file is being written.
Claimed(resumable) == resumable /\ claim # Nobody

Spawn(a, resumable) ==
    /\ children' = children \union {a}
    /\ claim' = IF resumable THEN a ELSE claim
    /\ UNCHANGED <<inFlight, tools, narrowed, leaked>>

\* The file is claimed before the model is looked up, the contract handed over and the
\* command resolved, and all three may throw; only then does the try begin whose finally
\* releases it.
ThrowBeforeSpawn(a, resumable) ==
    /\ claim' = IF resumable THEN a ELSE claim
    /\ leaked' = IF resumable THEN leaked \union {a} ELSE leaked
    /\ UNCHANGED <<inFlight, tools, narrowed, children>>

\* runSubagent settles once the child is gone, and the claim is released then.  Every
\* session of the step claims with the same path, and releases what bears that path.
ChildGone(a, resumable) ==
    /\ children' = children \ {a}
    /\ claim' = IF resumable THEN Nobody ELSE claim
    /\ UNCHANGED <<inFlight, tools, narrowed, leaked>>
=============================================================================
