---------------------------- MODULE AgentSessions ----------------------------
(* How one agent gets its identity and keeps its control stream: enrolment  *)
(* and takeover by token, authentication, the registry of streams with the  *)
(* capabilities each connection reported, disconnects, revocation, and the  *)
(* status column that heartbeats and the offline check write.               *)
(*                                                                          *)
(* Machines are the processes that may hold the identity; the hash of a     *)
(* secret is its machine. Stream slots are reused once a stream is done, so *)
(* an agent may reconnect for ever. What a disconnect does to runs is in    *)
(* RunDispatch and RestoreOccupancy. seen is "stale" once 90 seconds passed *)
(* without a write, and throttled holds for 10 seconds after a heartbeat's. *)
EXTENDS Naturals, FiniteSets

CONSTANTS
    Machines,       \* processes that may enrol and connect
    Streams,        \* slots for streams
    NoStream,
    Tokens,         \* enrolment tokens
    Takeover,       \* those issued for an existing agent
    NoMachine,
    MaxAdminOps,    \* bound on revocations and their reversal
    MaxSessionFaults \* bound on crashes and lost answers

ASSUME SessionAssumption ==
    /\ NoStream \notin Streams
    /\ Takeover \subseteq Tokens /\ Tokens # {}
    /\ NoMachine \notin Machines
    /\ MaxAdminOps \in Nat /\ MaxSessionFaults \in Nat

VARIABLES
    agentRow,    \* agents: whose secret, revoked, status, last_seen_at
    tokens,      \* enrollment_tokens: absent, fresh, or used (or expired)
    identity,    \* identity.json: absent, a secret without an ID, complete
    up,          \* machines whose process runs
    enroll,      \* each machine's Enroll call: its step and its token
    enrolled,    \* history: the machines each token enrolled
    registry,    \* Registry.streams[agent]
    stream,      \* each stream: its step in Connect, its machine, is its
                 \* streamCtx cancelled, is the connection alive, the build's
                 \* safe_database_restore, and the capability record
    sender,      \* the stream SendWithCapability has checked
    granted,     \* streams a database restore was sent to
    revoker,     \* handleRevokeAgent's step
    scanning,    \* checkOfflineAgents read an online row gone stale
    throttled, adminOps, sessionFaults

enrolVars == <<tokens, identity, enroll, enrolled>>
sendVars == <<sender, granted>>
tallyVars == <<adminOps, sessionFaults>>
sessionVars == <<agentRow, up, enrolVars, registry, stream, sendVars, revoker,
                 scanning, throttled, tallyVars>>

NoAgent == [holder |-> NoMachine, revoked |-> FALSE, status |-> "offline", seen |-> "fresh"]
FreeStream == [pc |-> "done", machine |-> NoMachine, cancelled |-> FALSE,
               link |-> FALSE, safe |-> FALSE, caps |-> "pending"]

SessionTypeOK ==
    /\ agentRow \in [holder : Machines \cup {NoMachine}, revoked : BOOLEAN,
                     status : {"online", "offline"}, seen : {"fresh", "stale"}]
    /\ tokens \in [Tokens -> {"absent", "fresh", "used"}]
    /\ identity \in [Machines -> {"absent", "secret", "complete"}]
    /\ up \subseteq Machines
    /\ enroll \in [Machines -> [pc : {"idle", "sent", "consumed", "checked", "written", "answered"},
                                token : Tokens]]
    /\ enrolled \in [Tokens -> SUBSET Machines]
    /\ registry \in Streams \cup {NoStream}
    /\ stream \in [Streams -> [pc : {"dialled", "authenticated", "registered", "live", "departed", "done"},
                               machine : Machines \cup {NoMachine}, cancelled : BOOLEAN,
                               link : BOOLEAN, safe : BOOLEAN,
                               caps : {"pending", "safe", "unsafe"}]]
    /\ sender \in Streams \cup {NoStream}
    /\ granted \subseteq Streams
    /\ revoker \in {"idle", "flagged", "kicked"}
    /\ scanning \in BOOLEAN /\ throttled \in BOOLEAN
    /\ adminOps \in 0..MaxAdminOps /\ sessionFaults \in 0..MaxSessionFaults

SessionInit ==
    /\ agentRow = NoAgent
    /\ tokens = [t \in Tokens |-> "absent"]
    /\ identity = [m \in Machines |-> "absent"]
    /\ up = Machines
    /\ enroll = [m \in Machines |-> [pc |-> "idle", token |-> CHOOSE t \in Tokens : TRUE]]
    /\ enrolled = [t \in Tokens |-> {}]
    /\ registry = NoStream
    /\ stream = [s \in Streams |-> FreeStream]
    /\ sender = NoStream
    /\ granted = {}
    /\ revoker = "idle"
    /\ scanning = FALSE /\ throttled = FALSE
    /\ adminOps = 0 /\ sessionFaults = 0

Fault == sessionFaults < MaxSessionFaults /\ sessionFaults' = sessionFaults + 1
AgentExists == agentRow.holder # NoMachine

-----------------------------------------------------------------------------
(* Enrolment.                                                               *)

\* handleCreateEnrollmentToken: a takeover needs an agent that is not revoked
\* and is shown offline.
CreateToken(t) ==
    /\ tokens[t] = "absent"
    /\ t \in Takeover => AgentExists /\ ~agentRow.revoked /\ agentRow.status # "online"
    /\ tokens' = [tokens EXCEPT ![t] = "fresh"]
    /\ UNCHANGED <<agentRow, up, identity, enroll, enrolled, registry, stream,
                   sendVars, revoker, scanning, throttled, tallyVars>>

ExpireToken(t) ==
    /\ tokens[t] = "fresh"
    /\ tokens' = [tokens EXCEPT ![t] = "used"]
    /\ UNCHANGED <<agentRow, up, identity, enroll, enrolled, registry, stream,
                   sendVars, revoker, scanning, throttled, tallyVars>>

EnrollStep(m, pc) == enroll' = [enroll EXCEPT ![m].pc = pc]

\* LoadOrCreate: without a complete identity the machine saves a secret, once,
\* and calls Enroll with the token it was given.
StartEnroll(m, t) ==
    /\ m \in up
    /\ identity[m] # "complete"
    /\ enroll[m].pc = "idle"
    /\ tokens[t] # "absent"
    /\ identity' = [identity EXCEPT ![m] = "secret"]
    /\ enroll' = [enroll EXCEPT ![m] = [pc |-> "sent", token |-> t]]
    /\ UNCHANGED <<agentRow, up, tokens, enrolled, registry, stream, sendVars,
                   revoker, scanning, throttled, tallyVars>>

\* Mutant: used_at IS NULL is missing from the update's condition.
ConsumeToken_Reusable(m) ==
    /\ enroll[m].pc = "sent"
    /\ EnrollStep(m, "consumed")
    /\ tokens' = [tokens EXCEPT ![enroll[m].token] = "used"]
    /\ UNCHANGED <<agentRow, up, identity, enrolled, registry, stream, sendVars,
                   revoker, scanning, throttled, tallyVars>>

\* ConsumeEnrollmentToken: one conditional update. A refused machine exits.
ConsumeToken(m) ==
    /\ enroll[m].pc = "sent"
    /\ EnrollStep(m, IF tokens[enroll[m].token] = "fresh" THEN "consumed" ELSE "idle")
    /\ tokens' = [tokens EXCEPT ![enroll[m].token] = "used"]
    /\ UNCHANGED <<agentRow, up, identity, enrolled, registry, stream, sendVars,
                   revoker, scanning, throttled, tallyVars>>

\* The token is spent although the target differs from the token's, or the
\* agent still has an active run.
RefuseEnroll(m) ==
    /\ enroll[m].pc \in {"consumed", "checked"}
    /\ EnrollStep(m, "idle")
    /\ UNCHANGED <<agentRow, up, tokens, identity, enrolled, registry, stream,
                   sendVars, revoker, scanning, throttled, tallyVars>>

Gives(m) ==
    /\ enrolled' = [enrolled EXCEPT ![enroll[m].token] = @ \cup {m}]

\* Enroll without a target: the agent's row is created.
EnrollAgent(m) ==
    /\ enroll[m].pc = "consumed"
    /\ enroll[m].token \notin Takeover
    /\ agentRow' = [NoAgent EXCEPT !.holder = m]
    /\ Gives(m)
    /\ EnrollStep(m, "answered")
    /\ UNCHANGED <<up, tokens, identity, registry, stream, sendVars, revoker, scanning,
                   throttled, tallyVars>>

\* Enroll with a target: not while the agent has a stream.
CheckTarget(m) ==
    /\ enroll[m].pc = "consumed"
    /\ enroll[m].token \in Takeover
    /\ EnrollStep(m, IF registry = NoStream THEN "checked" ELSE "idle")
    /\ UNCHANGED <<agentRow, up, tokens, identity, enrolled, registry, stream,
                   sendVars, revoker, scanning, throttled, tallyVars>>

\* ReEnrollAgent: the secret is replaced unless the agent was revoked.
ReEnrollAgent(m) ==
    /\ enroll[m].pc = "checked"
    /\ IF agentRow.revoked
       THEN EnrollStep(m, "idle") /\ UNCHANGED <<agentRow, enrolled>>
       ELSE /\ agentRow' = [agentRow EXCEPT !.holder = m, !.status = "offline", !.seen = "fresh"]
            /\ Gives(m)
            /\ EnrollStep(m, "written")
    /\ UNCHANGED <<up, tokens, identity, registry, stream, sendVars, revoker, scanning,
                   throttled, tallyVars>>

\* Registry.Unregister: the current stream, if any, is cancelled and removed.
Unregister ==
    /\ registry' = NoStream
    /\ stream' = [s \in Streams |-> IF s = registry
                                    THEN [stream[s] EXCEPT !.cancelled = TRUE]
                                    ELSE stream[s]]

KickAfterTakeover(m) ==
    /\ enroll[m].pc = "written"
    /\ Unregister
    /\ EnrollStep(m, "answered")
    /\ UNCHANGED <<agentRow, up, tokens, identity, enrolled, sendVars, revoker,
                   scanning, throttled, tallyVars>>

\* SetAgentID
SaveIdentity(m) ==
    /\ enroll[m].pc = "answered"
    /\ identity' = [identity EXCEPT ![m] = "complete"]
    /\ EnrollStep(m, "idle")
    /\ UNCHANGED <<agentRow, up, tokens, enrolled, registry, stream, sendVars,
                   revoker, scanning, throttled, tallyVars>>

\* The answer is lost or late: the machine exits with a secret and no ID.
LoseAnswer(m) ==
    /\ enroll[m].pc = "answered"
    /\ Fault
    /\ EnrollStep(m, "idle")
    /\ UNCHANGED <<agentRow, up, tokens, identity, enrolled, registry, stream,
                   sendVars, revoker, scanning, throttled, adminOps>>

-----------------------------------------------------------------------------
(* The stream.                                                              *)

Linked(m) == \E s \in Streams : stream[s].machine = m /\ stream[s].link

\* Run: the client opens one stream at a time; the process may have been
\* replaced by another build since the last one.
Dial(m, s) ==
    /\ m \in up
    /\ identity[m] = "complete"
    /\ ~Linked(m)
    /\ stream[s].pc = "done" /\ sender # s
    /\ \E safe \in BOOLEAN :
         stream' = [stream EXCEPT ![s] = [FreeStream EXCEPT
                      !.pc = "dialled", !.machine = m, !.link = TRUE, !.safe = safe]]
    /\ granted' = granted \ {s}
    /\ UNCHANGED <<agentRow, up, enrolVars, registry, sender, revoker, scanning,
                   throttled, tallyVars>>

\* Connect compares the secret and the revoked flag. A client told that it is
\* revoked stops; any other refusal is retried.
Authenticate(s) ==
    LET st == stream[s]
        refused == agentRow.holder # st.machine \/ agentRow.revoked
    IN  /\ st.pc = "dialled"
        /\ stream' = [stream EXCEPT ![s] =
                        IF refused THEN [st EXCEPT !.pc = "done", !.link = FALSE]
                                   ELSE [st EXCEPT !.pc = "authenticated"]]
        /\ up' = IF agentRow.holder = st.machine /\ agentRow.revoked
                 THEN up \ {st.machine} ELSE up
        /\ UNCHANGED <<agentRow, enrolVars, registry, sendVars, revoker, scanning,
                       throttled, tallyVars>>

\* Register: the stream that was there is cancelled and replaced.
Register(s) ==
    /\ stream[s].pc = "authenticated"
    /\ registry' = s
    /\ stream' = [t \in Streams |->
                    IF t = s THEN [stream[t] EXCEPT !.pc = "registered"]
                    ELSE IF t = registry THEN [stream[t] EXCEPT !.cancelled = TRUE]
                    ELSE stream[t]]
    /\ UNCHANGED <<agentRow, up, enrolVars, sendVars, revoker, scanning, throttled,
                   tallyVars>>

\* Hello, Welcome and UpsertAgentOnConnect, which writes back the row read at
\* authentication, the secret included. A cancelled stream gets this far too.
Hello(s) ==
    /\ stream[s].pc = "registered" /\ stream[s].link
    /\ agentRow' = [agentRow EXCEPT !.holder = stream[s].machine,
                                    !.status = "online", !.seen = "fresh"]
    /\ stream' = [stream EXCEPT ![s].pc = "live"]
    /\ UNCHANGED <<up, enrolVars, registry, sendVars, revoker, scanning, throttled,
                   tallyVars>>

\* Mutant: the record is looked up by agent, whoever reports.
ReportCapabilities_AnyStream(s) ==
    /\ stream[s].pc = "live" /\ stream[s].link
    /\ stream' = IF registry # NoStream
                 THEN [stream EXCEPT ![registry].caps = IF stream[s].safe THEN "safe" ELSE "unsafe"]
                 ELSE stream
    /\ agentRow' = [agentRow EXCEPT !.seen = "fresh"]
    /\ UNCHANGED <<up, enrolVars, registry, sendVars, revoker, scanning, throttled,
                   tallyVars>>

\* handleCapabilities: only the current stream's report counts, but every
\* report renews last_seen_at.
ReportCapabilities(s) ==
    /\ stream[s].pc = "live" /\ stream[s].link
    /\ stream' = IF registry = s
                 THEN [stream EXCEPT ![s].caps = IF stream[s].safe THEN "safe" ELSE "unsafe"]
                 ELSE stream
    /\ agentRow' = [agentRow EXCEPT !.seen = "fresh"]
    /\ UNCHANGED <<up, enrolVars, registry, sendVars, revoker, scanning, throttled,
                   tallyVars>>

\* Mutant: the heartbeat renews last_seen_at and leaves the status alone.
HandleHeartbeat_SeenOnly(s) ==
    /\ stream[s].pc = "live" /\ stream[s].link
    /\ agentRow' = IF throttled THEN agentRow ELSE [agentRow EXCEPT !.seen = "fresh"]
    /\ throttled' = TRUE
    /\ UNCHANGED <<up, enrolVars, registry, stream, sendVars, revoker, scanning, tallyVars>>

\* handleHeartbeat: at most one write in 10 seconds, shared by the streams.
HandleHeartbeat(s) ==
    /\ stream[s].pc = "live" /\ stream[s].link
    /\ agentRow' = IF throttled THEN agentRow
                   ELSE [agentRow EXCEPT !.status = "online", !.seen = "fresh"]
    /\ throttled' = TRUE
    /\ UNCHANGED <<up, enrolVars, registry, stream, sendVars, revoker, scanning, tallyVars>>

ThrottleEnds ==
    /\ throttled
    /\ throttled' = FALSE
    /\ UNCHANGED <<agentRow, up, enrolVars, registry, stream, sendVars, revoker, scanning,
                   tallyVars>>

\* SendWithCapability finds the stream and checks its record ...
CheckCapability ==
    /\ sender = NoStream
    /\ registry # NoStream
    /\ stream[registry].caps = "safe"
    /\ sender' = registry
    /\ UNCHANGED <<agentRow, up, enrolVars, registry, stream, granted, revoker, scanning,
                   throttled, tallyVars>>

\* ... and sends to that stream, unless it was cancelled meanwhile.
SendRestore ==
    /\ sender # NoStream
    /\ \/ granted' = granted \cup {sender}
       \/ stream[sender].cancelled /\ UNCHANGED granted
    /\ sender' = NoStream
    /\ UNCHANGED <<agentRow, up, enrolVars, registry, stream, revoker, scanning, throttled,
                   tallyVars>>

LinkBreaks(s) ==
    /\ stream[s].link
    /\ stream' = [stream EXCEPT ![s].link = FALSE]
    /\ UNCHANGED <<agentRow, up, enrolVars, registry, sendVars, revoker, scanning,
                   throttled, tallyVars>>

\* Connect returns: a live stream's loop also wakes on its cancelled context,
\* the wait for Hello only on the connection's end.
Ending(s) ==
    \/ stream[s].pc = "live" /\ (stream[s].cancelled \/ ~stream[s].link)
    \/ stream[s].pc = "registered" /\ ~stream[s].link

\* Mutant: the deferred call is Unregister.
EndStream_Unconditional(s) ==
    /\ Ending(s)
    /\ registry' = NoStream
    /\ stream' = [stream EXCEPT ![s].pc = "departed", ![s].link = FALSE]
    /\ UNCHANGED <<agentRow, up, enrolVars, sendVars, revoker, scanning, throttled,
                   tallyVars>>

\* The deferred UnregisterIf: a replaced stream leaves its successor alone.
EndStream(s) ==
    /\ Ending(s)
    /\ registry' = IF registry = s THEN NoStream ELSE registry
    /\ stream' = [stream EXCEPT ![s].pc = IF registry = s THEN "departed" ELSE "done",
                                ![s].cancelled = @ \/ registry = s, ![s].link = FALSE]
    /\ UNCHANGED <<agentRow, up, enrolVars, sendVars, revoker, scanning, throttled,
                   tallyVars>>

SetOffline == agentRow' = [agentRow EXCEPT !.status = "offline", !.seen = "fresh"]

\* handleDisconnect
HandleDisconnect(s) ==
    /\ stream[s].pc = "departed"
    /\ SetOffline
    /\ stream' = [stream EXCEPT ![s].pc = "done"]
    /\ UNCHANGED <<up, enrolVars, registry, sendVars, revoker, scanning, throttled,
                   tallyVars>>

-----------------------------------------------------------------------------
(* Revocation, the offline check, restarts.                                 *)

AdminOp == AgentExists /\ adminOps < MaxAdminOps /\ adminOps' = adminOps + 1

\* handleRevokeAgent: the flag, then the stream, then HandleAgentRevoked.
RevokeAgent ==
    /\ revoker = "idle"
    /\ AdminOp
    /\ agentRow' = [agentRow EXCEPT !.revoked = TRUE]
    /\ revoker' = "flagged"
    /\ UNCHANGED <<up, enrolVars, registry, stream, sendVars, scanning, throttled, sessionFaults>>

KickRevoked ==
    /\ revoker = "flagged"
    /\ Unregister
    /\ revoker' = "kicked"
    /\ UNCHANGED <<agentRow, up, enrolVars, sendVars, scanning, throttled, tallyVars>>

HandleAgentRevoked ==
    /\ revoker = "kicked"
    /\ SetOffline
    /\ revoker' = "idle"
    /\ UNCHANGED <<up, enrolVars, registry, stream, sendVars, scanning, throttled, tallyVars>>

\* handleRestoreAgent, which needs no revocation; the operator starts the
\* agent's process again.
UnrevokeAgent ==
    /\ AdminOp
    /\ agentRow' = [agentRow EXCEPT !.revoked = FALSE, !.status = "offline"]
    /\ up' = Machines
    /\ UNCHANGED <<enrolVars, registry, stream, sendVars, revoker, scanning, throttled,
                   sessionFaults>>

\* 90 seconds without a write: not while a stream delivers its heartbeats.
Silence ==
    /\ AgentExists
    /\ agentRow.seen = "fresh"
    /\ \A s \in Streams : ~(stream[s].pc = "live" /\ stream[s].link)
    /\ agentRow' = [agentRow EXCEPT !.seen = "stale"]
    /\ UNCHANGED <<up, enrolVars, registry, stream, sendVars, revoker, scanning, throttled,
                   tallyVars>>

\* checkOfflineAgents: the rows are listed, then written.
ListStaleAgent ==
    /\ ~scanning
    /\ agentRow.status = "online" /\ agentRow.seen = "stale"
    /\ scanning' = TRUE
    /\ UNCHANGED <<agentRow, up, enrolVars, registry, stream, sendVars, revoker, throttled,
                   tallyVars>>

\* Mutant: the tick tests the row it lists and never writes it.
MarkOffline_Skips ==
    /\ scanning
    /\ scanning' = FALSE
    /\ UNCHANGED <<agentRow, up, enrolVars, registry, stream, sendVars, revoker, throttled,
                   tallyVars>>

MarkOffline ==
    /\ scanning
    /\ SetOffline
    /\ scanning' = FALSE
    /\ UNCHANGED <<up, enrolVars, registry, stream, sendVars, revoker, throttled, tallyVars>>

\* The server dies: streams and calls end, and markAgentsOfflineOnStartup runs.
ServerRestart ==
    /\ Fault
    /\ agentRow' = [agentRow EXCEPT !.status = "offline",
                      !.seen = IF agentRow.status = "online" THEN "fresh" ELSE @]
    /\ registry' = NoStream
    /\ stream' = [s \in Streams |-> FreeStream]
    /\ enroll' = [m \in Machines |-> [enroll[m] EXCEPT !.pc = "idle"]]
    /\ sender' = NoStream /\ granted' = {}
    /\ revoker' = "idle" /\ scanning' = FALSE /\ throttled' = FALSE
    /\ UNCHANGED <<up, tokens, identity, enrolled, adminOps>>

-----------------------------------------------------------------------------
EnrolNext(m) ==
    \/ \E t \in Tokens : StartEnroll(m, t)
    \/ ConsumeToken(m) \/ RefuseEnroll(m) \/ EnrollAgent(m) \/ CheckTarget(m)
    \/ ReEnrollAgent(m) \/ KickAfterTakeover(m) \/ SaveIdentity(m) \/ LoseAnswer(m)

StreamNext(s) ==
    \/ \E m \in Machines : Dial(m, s)
    \/ Authenticate(s) \/ Register(s) \/ Hello(s) \/ ReportCapabilities(s)
    \/ HandleHeartbeat(s) \/ LinkBreaks(s) \/ EndStream(s) \/ HandleDisconnect(s)

SessionNext ==
    \/ \E t \in Tokens : CreateToken(t) \/ ExpireToken(t)
    \/ \E m \in Machines : EnrolNext(m)
    \/ \E s \in Streams : StreamNext(s)
    \/ CheckCapability \/ SendRestore \/ ThrottleEnds
    \/ RevokeAgent \/ KickRevoked \/ HandleAgentRevoked \/ UnrevokeAgent
    \/ Silence \/ ListStaleAgent \/ MarkOffline \/ ServerRestart

SessionSpec == SessionInit /\ [][SessionNext]_sessionVars

(* Fairness. Handlers and loops of the server run, a connected agent sends  *)
(* heartbeats, time passes. Nothing obliges users, agents to connect, or a  *)
(* broken connection to be noticed: the server sets no keepalive.           *)
SessionFairness ==
    /\ \A s \in Streams :
         /\ WF_sessionVars(HandleHeartbeat(s))
         /\ WF_sessionVars(HandleDisconnect(s))
         /\ WF_sessionVars(stream[s].cancelled /\ EndStream(s))
    /\ WF_sessionVars(ThrottleEnds)
    /\ WF_sessionVars(KickRevoked) /\ WF_sessionVars(HandleAgentRevoked)
    /\ WF_sessionVars(Silence) /\ WF_sessionVars(ListStaleAgent) /\ WF_sessionVars(MarkOffline)
    /\ \A m \in Machines : WF_sessionVars(ReEnrollAgent(m) \/ KickAfterTakeover(m))

SessionFairSpec == SessionSpec /\ SessionFairness

-----------------------------------------------------------------------------
(* Properties.                                                              *)

\* The end of a replaced stream never takes its successor out of the registry
\* (UnregisterIf): a registered stream nobody cancelled is the one that
\* commands are sent to.
LiveStreamIsCurrent ==
    \A s \in Streams :
        stream[s].pc \in {"registered", "live"} /\ ~stream[s].cancelled => registry = s

\* A database restore reaches only a connection whose own build announced the
\* protected restore (ReportCapabilities, SendWithCapability): neither a late
\* report of a replaced stream nor a check made on one authorises another.
RestoreNeedsOwnReport == \A s \in granted : stream[s].safe

\* Of machines racing with one token, or repeating a call whose answer was
\* lost, one is enrolled (ConsumeEnrollmentToken).
TokenEnrolsOnce == \A t \in Tokens : Cardinality(enrolled[t]) <= 1

\* The status column converges: an agent whose stream stays up is shown online
\* for good, whatever a late disconnect, revocation or offline check wrote.
ConnectedAgentShownOnline ==
    \A s \in Streams :
        <>[](stream[s].pc = "live" /\ stream[s].link /\ ~stream[s].cancelled)
          => <>[](agentRow.status = "online")

\* And an agent that is gone for good is shown offline, also when the server
\* never notices that the connection broke (checkOfflineAgents).
GoneAgentShownOffline ==
    <>[](\A s \in Streams : ~stream[s].link) => <>[](agentRow.status = "offline")
=============================================================================
