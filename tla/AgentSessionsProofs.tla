------------------------- MODULE AgentSessionsProofs -------------------------
(***************************************************************************)
(* Theorems about AgentSessions, for any number of machines, streams and   *)
(* tokens, administrators' steps, crashes and lost answers.                *)
(***************************************************************************)
EXTENDS AgentSessions, FiniteSetTheorems, TLAPS

AgentType == [holder : Machines \cup {NoMachine}, revoked : BOOLEAN,
              status : {"online", "offline"}, seen : {"fresh", "stale"}]
EnrollSteps == {"idle", "sent", "consumed", "checked", "written", "answered"}
EnrollType == [pc : EnrollSteps, token : Tokens]
StreamSteps == {"dialled", "authenticated", "registered", "live", "departed", "done"}
StreamType == [pc : StreamSteps, machine : Machines \cup {NoMachine}, cancelled : BOOLEAN,
               link : BOOLEAN, safe : BOOLEAN, caps : {"pending", "safe", "unsafe"}]

-----------------------------------------------------------------------------
(* The inductive invariant: the types, and one part for the tokens and one   *)
(* for the streams.                                                          *)

\* The machine is past ConsumeEnrollmentToken and not yet enrolled.
Holds(m, t) == enroll[m].pc \in {"consumed", "checked"} /\ enroll[m].token = t

\* A token has one future: it is fresh, or one machine holds it, or it has
\* enrolled at most one machine.
TokenInv ==
    \A t \in Tokens :
        /\ tokens[t] # "used" => enrolled[t] = {} /\ \A m \in Machines : ~Holds(m, t)
        /\ \A m \in Machines : Holds(m, t) => /\ enrolled[t] = {}
                                              /\ \A n \in Machines : Holds(n, t) => n = m
        /\ \A m, n \in enrolled[t] : m = n

\* A capability record is of its own stream's build; so is what the sender has
\* checked and what was sent.
StreamInv ==
    /\ LiveStreamIsCurrent
    /\ \A s \in Streams : stream[s].caps = "safe" => stream[s].safe
    /\ sender # NoStream => stream[sender].safe
    /\ RestoreNeedsOwnReport

SessionInv == SessionTypeOK /\ TokenInv /\ StreamInv

-----------------------------------------------------------------------------
(* Types.                                                                    *)

\* The types, under the names used here.
LEMMA SessionTypes ==
  ASSUME SessionTypeOK
  PROVE  /\ agentRow \in AgentType /\ tokens \in [Tokens -> {"absent", "fresh", "used"}]
         /\ identity \in [Machines -> {"absent", "secret", "complete"}]
         /\ enroll \in [Machines -> EnrollType] /\ enrolled \in [Tokens -> SUBSET Machines]
         /\ registry \in Streams \cup {NoStream} /\ stream \in [Streams -> StreamType]
         /\ sender \in Streams \cup {NoStream} /\ granted \subseteq Streams
  BY DEF SessionTypeOK, AgentType, EnrollType, EnrollSteps, StreamType, StreamSteps

\* The absent agent and the free stream.
LEMMA FreeFacts ==
  /\ NoAgent \in AgentType
  /\ FreeStream \in StreamType /\ FreeStream.pc = "done" /\ FreeStream.caps = "pending"
<1>1. NoAgent \in AgentType
  BY DEF NoAgent, AgentType
<1>2. FreeStream \in StreamType
  BY DEF FreeStream, StreamType, StreamSteps
<1> QED
  BY <1>1, <1>2 DEF FreeStream

\* Nothing has happened yet.
LEMMA SessionInitInv == SessionInit => SessionInv
<1> SUFFICES ASSUME SessionInit PROVE SessionInv
  OBVIOUS
<1> USE DEF SessionInit
<1>1. (CHOOSE t \in Tokens : TRUE) \in Tokens
  BY SessionAssumption
<1>2. \A m \in Machines : enroll[m] \in EnrollType /\ enroll[m].pc = "idle"
  BY <1>1 DEF EnrollType, EnrollSteps
<1>3. \A s \in Streams : /\ stream[s] \in StreamType /\ stream[s].pc = "done"
                         /\ stream[s].caps = "pending"
  BY FreeFacts
<1>4. adminOps \in 0..MaxAdminOps /\ sessionFaults \in 0..MaxSessionFaults
  BY SessionAssumption
<1>5. /\ enroll \in [Machines -> EnrollType] /\ stream \in [Streams -> StreamType]
      /\ agentRow \in AgentType /\ enrolled \in [Tokens -> SUBSET Machines]
      /\ tokens \in [Tokens -> {"absent", "fresh", "used"}]
      /\ identity \in [Machines -> {"absent", "secret", "complete"}]
  BY <1>2, <1>3, FreeFacts
<1>6. SessionTypeOK
  BY <1>4, <1>5 DEF SessionTypeOK, AgentType, EnrollType, EnrollSteps, StreamType, StreamSteps
<1>7. TokenInv
  BY <1>2 DEF TokenInv, Holds
<1>8. StreamInv
  BY <1>3 DEF StreamInv, LiveStreamIsCurrent, RestoreNeedsOwnReport
<1> QED
  BY <1>6, <1>7, <1>8 DEF SessionInv

\* A step of an Enroll call.
LEMMA EnrollStepFact ==
  ASSUME SessionTypeOK, NEW m \in Machines, NEW pc \in EnrollSteps, EnrollStep(m, pc)
  PROVE  /\ enroll' \in [Machines -> EnrollType]
         /\ enroll'[m].pc = pc /\ enroll'[m].token = enroll[m].token
         /\ \A n \in Machines \ {m} : enroll'[n] = enroll[n]
<1>1. enroll \in [Machines -> EnrollType]
  BY SessionTypes
<1> QED
  BY <1>1 DEF EnrollStep, EnrollType

\* Unregister cancels the stream in the registry and changes no other.
LEMMA UnregisterFact ==
  ASSUME SessionTypeOK, Unregister
  PROVE  /\ registry' = NoStream
         /\ stream' \in [Streams -> StreamType]
         /\ \A s \in Streams : /\ stream'[s].pc = stream[s].pc /\ stream'[s].safe = stream[s].safe
                               /\ stream'[s].caps = stream[s].caps
                               /\ s # registry => stream'[s] = stream[s]
                               /\ s = registry => stream'[s].cancelled
<1>1. stream \in [Streams -> StreamType]
  BY SessionTypes
<1>2. \A s \in Streams : [stream[s] EXCEPT !.cancelled = TRUE] \in StreamType
  BY <1>1 DEF StreamType
<1> QED
  BY <1>1, <1>2 DEF Unregister, StreamType

\* The row of the agent, the tallies and the small flags keep their types.
LEMMA RowTyped ==
  ASSUME SessionTypeOK, SessionNext
  PROVE  agentRow' \in AgentType
<1>1. agentRow \in AgentType /\ \A s \in Streams : stream[s].machine \in Machines \cup {NoMachine}
  BY SessionTypes DEF StreamType
<1>2. ASSUME NEW m \in Machines, EnrolNext(m) PROVE agentRow' \in AgentType
  <2>1. CASE agentRow' = [NoAgent EXCEPT !.holder = m]
    BY <2>1, FreeFacts DEF AgentType
  <2>2. CASE agentRow' = [agentRow EXCEPT !.holder = m, !.status = "offline", !.seen = "fresh"]
    BY <1>1, <2>2 DEF AgentType
  <2>3. CASE agentRow' = agentRow
    BY <1>1, <2>3
  <2> QED
    BY <1>2, <2>1, <2>2, <2>3 DEF EnrolNext, StartEnroll, ConsumeToken, RefuseEnroll, EnrollAgent,
       CheckTarget, ReEnrollAgent, KickAfterTakeover, SaveIdentity, LoseAnswer
<1>3. ASSUME NEW s \in Streams, StreamNext(s) PROVE agentRow' \in AgentType
  <2>1. CASE agentRow' = [agentRow EXCEPT !.holder = stream[s].machine,
                                          !.status = "online", !.seen = "fresh"]
    BY <1>1, <2>1 DEF AgentType
  <2>2. CASE \/ agentRow' = [agentRow EXCEPT !.seen = "fresh"]
             \/ agentRow' = [agentRow EXCEPT !.status = "online", !.seen = "fresh"]
             \/ agentRow' = [agentRow EXCEPT !.status = "offline", !.seen = "fresh"]
    BY <1>1, <2>2 DEF AgentType
  <2>3. CASE agentRow' = agentRow
    BY <1>1, <2>3
  <2> QED
    BY <1>3, <2>1, <2>2, <2>3 DEF StreamNext, Dial, Authenticate, Register, Hello,
       ReportCapabilities, HandleHeartbeat, LinkBreaks, EndStream, HandleDisconnect, SetOffline
<1>4. CASE ServerRestart
  <2>1. agentRow' = [agentRow EXCEPT !.status = "offline",
                       !.seen = IF agentRow.status = "online" THEN "fresh" ELSE agentRow.seen]
    BY <1>1, <1>4 DEF ServerRestart, AgentType
  <2> QED
    BY <1>1, <2>1 DEF AgentType
<1>5. CASE RevokeAgent \/ HandleAgentRevoked \/ UnrevokeAgent \/ Silence \/ MarkOffline
  <2>1. \/ agentRow' = [agentRow EXCEPT !.revoked = TRUE]
        \/ agentRow' = [agentRow EXCEPT !.revoked = FALSE, !.status = "offline"]
        \/ agentRow' = [agentRow EXCEPT !.status = "offline", !.seen = "fresh"]
        \/ agentRow' = [agentRow EXCEPT !.seen = "stale"]
    BY <1>5 DEF RevokeAgent, HandleAgentRevoked, UnrevokeAgent, Silence, MarkOffline, SetOffline
  <2> QED
    BY <1>1, <2>1 DEF AgentType
<1>6. CASE \/ \E t \in Tokens : CreateToken(t) \/ ExpireToken(t)
           \/ CheckCapability \/ SendRestore \/ ThrottleEnds \/ KickRevoked \/ ListStaleAgent
  BY <1>1, <1>6 DEF CreateToken, ExpireToken, CheckCapability, SendRestore, ThrottleEnds,
     KickRevoked, ListStaleAgent
<1> QED
  BY <1>2, <1>3, <1>4, <1>5, <1>6 DEF SessionNext

-----------------------------------------------------------------------------
(* The streams.                                                              *)

StreamsTyped ==
    /\ registry \in Streams \cup {NoStream} /\ stream \in [Streams -> StreamType]
    /\ sender \in Streams \cup {NoStream} /\ granted \subseteq Streams

\* A step of one stream that keeps its build: what it must see to.
LEMMA OneStream ==
  ASSUME SessionTypeOK, StreamInv, NEW s \in Streams, NEW rec \in StreamType,
         stream' = [stream EXCEPT ![s] = rec],
         rec.safe = stream[s].safe, rec.caps = "safe" => rec.safe,
         rec.pc \in {"registered", "live"} /\ ~rec.cancelled => registry' = s,
         registry' = registry \/ (registry = s /\ registry' = NoStream),
         UNCHANGED <<sender, granted>>
  PROVE  StreamsTyped' /\ StreamInv'
<1>1. StreamsTyped
  BY SessionTypes DEF StreamsTyped
<1>2. /\ stream'[s] = rec /\ \A t \in Streams \ {s} : stream'[t] = stream[t]
      /\ StreamsTyped'
  BY <1>1 DEF StreamsTyped
<1>3. LiveStreamIsCurrent'
  BY <1>2 DEF StreamInv, LiveStreamIsCurrent
<1>4. \A t \in Streams : stream'[t].safe = stream[t].safe
  BY <1>2
<1>5. RestoreNeedsOwnReport' /\ (sender' # NoStream => stream'[sender'].safe)
  BY <1>1, <1>4 DEF StreamInv, RestoreNeedsOwnReport, StreamsTyped
<1>6. \A t \in Streams : stream'[t].caps = "safe" => stream'[t].safe
  BY <1>2 DEF StreamInv
<1> QED
  BY <1>2, <1>3, <1>5, <1>6 DEF StreamInv

\* The steps of one stream. Dial reuses a slot only when nothing that was
\* granted or checked refers to it any more.
LEMMA StreamSteps1 ==
  ASSUME SessionTypeOK, StreamInv, NEW s \in Streams, StreamNext(s)
  PROVE  StreamsTyped' /\ StreamInv'
<1>0. StreamsTyped /\ stream[s] \in StreamType
  BY SessionTypes DEF StreamsTyped
<1>1. ASSUME NEW m \in Machines, Dial(m, s) PROVE StreamsTyped' /\ StreamInv'
  <2>1. PICK safe \in BOOLEAN :
          stream' = [stream EXCEPT ![s] = [FreeStream EXCEPT
                       !.pc = "dialled", !.machine = m, !.link = TRUE, !.safe = safe]]
    BY <1>1 DEF Dial
  <2> DEFINE rec == [FreeStream EXCEPT !.pc = "dialled", !.machine = m, !.link = TRUE,
                                       !.safe = safe]
  <2>2. rec \in StreamType /\ rec.pc = "dialled" /\ rec.caps = "pending"
    BY DEF FreeStream, StreamType, StreamSteps
  <2> HIDE DEF rec
  <2>3. stream' = [stream EXCEPT ![s] = rec]
    BY <2>1 DEF rec
  <2>4. UNCHANGED <<registry, sender>> /\ sender # s /\ granted' = granted \ {s}
        /\ stream[s].pc = "done"
    BY <1>1 DEF Dial
  <2>5. stream'[s] = rec /\ \A t \in Streams \ {s} : stream'[t] = stream[t]
    BY <1>0, <2>3 DEF StreamsTyped
  <2>6. StreamsTyped'
    BY <1>0, <2>2, <2>3, <2>4 DEF StreamsTyped
  <2>7. StreamInv'
    BY <1>0, <2>2, <2>4, <2>5 DEF StreamInv, LiveStreamIsCurrent, RestoreNeedsOwnReport,
       StreamsTyped
  <2> QED
    BY <2>6, <2>7
<1>2. CASE Authenticate(s)
  <2> DEFINE st == stream[s]
  <2>1. PICK rec \in {[st EXCEPT !.pc = "done", !.link = FALSE], [st EXCEPT !.pc = "authenticated"]} :
          stream' = [stream EXCEPT ![s] = rec]
    BY <1>2 DEF Authenticate
  <2>2. /\ rec \in StreamType /\ rec.pc \notin {"registered", "live"}
        /\ rec.safe = st.safe /\ rec.caps = st.caps
    BY <1>0, <2>1 DEF StreamType, StreamSteps
  <2>3. UNCHANGED <<registry, sender, granted>>
    BY <1>2 DEF Authenticate, sendVars
  <2>4. rec.caps = "safe" => rec.safe
    BY <2>2 DEF StreamInv
  <2> QED
    BY <2>1, <2>2, <2>3, <2>4, OneStream
<1>3. CASE Register(s)
  <2>1. /\ registry' = s /\ UNCHANGED <<sender, granted>>
        /\ stream' = [t \in Streams |->
                        IF t = s THEN [stream[t] EXCEPT !.pc = "registered"]
                        ELSE IF t = registry THEN [stream[t] EXCEPT !.cancelled = TRUE]
                        ELSE stream[t]]
    BY <1>3 DEF Register, sendVars
  <2>2. \A t \in Streams :
          /\ stream'[t] \in StreamType
          /\ stream'[t].safe = stream[t].safe /\ stream'[t].caps = stream[t].caps
          /\ t # s /\ t # registry => stream'[t] = stream[t]
          /\ t # s /\ t = registry => stream'[t].cancelled
    BY <1>0, <2>1 DEF StreamsTyped, StreamType, StreamSteps
  <2>3. StreamsTyped'
    BY <1>0, <2>1, <2>2 DEF StreamsTyped
  <2>4. LiveStreamIsCurrent'
    BY <2>1, <2>2 DEF StreamInv, LiveStreamIsCurrent
  <2>5. \A t \in Streams : stream'[t].caps = "safe" => stream'[t].safe
    BY <2>2 DEF StreamInv
  <2>6. RestoreNeedsOwnReport' /\ (sender' # NoStream => stream'[sender'].safe)
    BY <1>0, <2>1, <2>2 DEF StreamInv, RestoreNeedsOwnReport, StreamsTyped
  <2> QED
    BY <2>3, <2>4, <2>5, <2>6 DEF StreamInv
<1>4. CASE Hello(s)
  <2> DEFINE rec == [stream[s] EXCEPT !.pc = "live"]
  <2>1. /\ rec \in StreamType /\ rec.cancelled = stream[s].cancelled
        /\ rec.safe = stream[s].safe /\ rec.caps = stream[s].caps
    BY <1>0 DEF StreamType, StreamSteps
  <2> HIDE DEF rec
  <2>2. /\ stream' = [stream EXCEPT ![s] = rec] /\ stream[s].pc = "registered"
        /\ UNCHANGED <<registry, sender, granted>>
    BY <1>4 DEF Hello, sendVars, rec
  <2>3. ~rec.cancelled => registry = s
    BY <2>1, <2>2 DEF StreamInv, LiveStreamIsCurrent
  <2>4. rec.caps = "safe" => rec.safe
    BY <2>1 DEF StreamInv
  <2> QED
    BY <2>1, <2>2, <2>3, <2>4, OneStream
<1>5. CASE ReportCapabilities(s)
  <2>0. UNCHANGED <<registry, sender, granted>> /\ stream[s].pc = "live"
    BY <1>5 DEF ReportCapabilities, sendVars
  <2>1. CASE stream' = stream
    BY <1>0, <2>0, <2>1 DEF StreamsTyped, StreamInv, LiveStreamIsCurrent, RestoreNeedsOwnReport
  <2>2. CASE registry = s
             /\ stream' = [stream EXCEPT ![s].caps = IF stream[s].safe THEN "safe" ELSE "unsafe"]
    <3> DEFINE rec == [stream[s] EXCEPT !.caps = IF stream[s].safe THEN "safe" ELSE "unsafe"]
    <3>1. /\ rec \in StreamType /\ rec.safe = stream[s].safe /\ (rec.caps = "safe" => rec.safe)
      BY <1>0 DEF StreamType
    <3> HIDE DEF rec
    <3>2. stream' = [stream EXCEPT ![s] = rec]
      BY <2>2 DEF rec
    <3> QED
      BY <2>0, <2>2, <3>1, <3>2, OneStream
  <2> QED
    BY <1>5, <2>1, <2>2 DEF ReportCapabilities
<1>6. CASE HandleHeartbeat(s)
  <2>1. UNCHANGED <<registry, stream, sender, granted>>
    BY <1>6 DEF HandleHeartbeat, sendVars
  <2> QED
    BY <1>0, <2>1 DEF StreamsTyped, StreamInv, LiveStreamIsCurrent, RestoreNeedsOwnReport
<1>7. CASE LinkBreaks(s)
  <2> DEFINE rec == [stream[s] EXCEPT !.link = FALSE]
  <2>1. /\ rec \in StreamType /\ rec.cancelled = stream[s].cancelled /\ rec.pc = stream[s].pc
        /\ rec.safe = stream[s].safe /\ rec.caps = stream[s].caps
    BY <1>0 DEF StreamType
  <2> HIDE DEF rec
  <2>2. stream' = [stream EXCEPT ![s] = rec] /\ UNCHANGED <<registry, sender, granted>>
    BY <1>7 DEF LinkBreaks, sendVars, rec
  <2>3. rec.pc \in {"registered", "live"} /\ ~rec.cancelled => registry = s
    BY <2>1 DEF StreamInv, LiveStreamIsCurrent
  <2>4. rec.caps = "safe" => rec.safe
    BY <2>1 DEF StreamInv
  <2> QED
    BY <2>1, <2>2, <2>3, <2>4, OneStream
<1>8. CASE EndStream(s)
  <2> DEFINE pc == IF registry = s THEN "departed" ELSE "done"
             rec == [stream[s] EXCEPT !.pc = pc, !.cancelled = stream[s].cancelled \/ registry = s,
                                      !.link = FALSE]
  <2>1. pc \in StreamSteps /\ pc \notin {"registered", "live"}
        /\ (stream[s].cancelled \/ registry = s) \in BOOLEAN
    BY DEF StreamSteps
  <2>2. /\ rec \in StreamType /\ rec.pc = pc
        /\ rec.safe = stream[s].safe /\ rec.caps = stream[s].caps
    BY <1>0, <2>1 DEF StreamType
  <2>3. stream' = [stream EXCEPT ![s] = rec]
    BY <1>0, <1>8 DEF EndStream, StreamsTyped, StreamType
  <2>4. UNCHANGED <<sender, granted>> /\ registry' = IF registry = s THEN NoStream ELSE registry
    BY <1>8 DEF EndStream, sendVars
  <2> HIDE DEF rec, pc
  <2>5. rec.caps = "safe" => rec.safe
    BY <2>2 DEF StreamInv
  <2> QED
    BY <2>1, <2>2, <2>3, <2>4, <2>5, OneStream
<1>9. CASE HandleDisconnect(s)
  <2> DEFINE rec == [stream[s] EXCEPT !.pc = "done"]
  <2>1. /\ rec \in StreamType /\ rec.pc = "done"
        /\ rec.safe = stream[s].safe /\ rec.caps = stream[s].caps
    BY <1>0 DEF StreamType, StreamSteps
  <2> HIDE DEF rec
  <2>2. stream' = [stream EXCEPT ![s] = rec] /\ UNCHANGED <<registry, sender, granted>>
    BY <1>9 DEF HandleDisconnect, sendVars, rec
  <2>3. rec.caps = "safe" => rec.safe
    BY <2>1 DEF StreamInv
  <2> QED
    BY <2>1, <2>2, <2>3, OneStream
<1> QED
  BY <1>1, <1>2, <1>3, <1>4, <1>5, <1>6, <1>7, <1>8, <1>9 DEF StreamNext

\* A step that leaves registry, streams and grants alone.
LEMMA StreamsUnchanged ==
  ASSUME SessionTypeOK, StreamInv, UNCHANGED <<registry, stream, sender, granted>>
  PROVE  StreamsTyped' /\ StreamInv'
<1>1. StreamsTyped
  BY SessionTypes DEF StreamsTyped
<1> QED
  BY <1>1 DEF StreamsTyped, StreamInv, LiveStreamIsCurrent, RestoreNeedsOwnReport

\* Unregister: the stream it removes is the one it cancels.
LEMMA UnregisterKeeps ==
  ASSUME SessionTypeOK, StreamInv, Unregister, UNCHANGED <<sender, granted>>
  PROVE  StreamsTyped' /\ StreamInv'
<1>1. StreamsTyped /\ StreamsTyped'
  BY SessionTypes, UnregisterFact DEF StreamsTyped
<1>2. LiveStreamIsCurrent'
  BY UnregisterFact DEF StreamInv, LiveStreamIsCurrent
<1>3. \A t \in Streams : stream'[t].safe = stream[t].safe /\ stream'[t].caps = stream[t].caps
  BY UnregisterFact
<1>4. RestoreNeedsOwnReport' /\ (sender' # NoStream => stream'[sender'].safe)
  BY <1>1, <1>3 DEF StreamInv, RestoreNeedsOwnReport, StreamsTyped
<1>5. \A t \in Streams : stream'[t].caps = "safe" => stream'[t].safe
  BY <1>3 DEF StreamInv
<1> QED
  BY <1>1, <1>2, <1>4, <1>5 DEF StreamInv

\* Every step keeps the streams' part of the invariant.
LEMMA StreamsStep ==
  ASSUME SessionTypeOK, StreamInv, SessionNext
  PROVE  StreamsTyped' /\ StreamInv'
<1>1. StreamsTyped
  BY SessionTypes DEF StreamsTyped
<1>2. ASSUME NEW m \in Machines, EnrolNext(m) PROVE StreamsTyped' /\ StreamInv'
  <2>1. CASE KickAfterTakeover(m)
    BY <2>1, UnregisterKeeps DEF KickAfterTakeover, sendVars
  <2>2. CASE ~KickAfterTakeover(m)
    <3>1. UNCHANGED <<registry, stream, sender, granted>>
      BY <1>2, <2>2 DEF EnrolNext, StartEnroll, ConsumeToken, RefuseEnroll, EnrollAgent,
         CheckTarget, ReEnrollAgent, SaveIdentity, LoseAnswer, sendVars
    <3> QED
      BY <3>1, StreamsUnchanged
  <2> QED
    BY <2>1, <2>2
<1>3. ASSUME NEW s \in Streams, StreamNext(s) PROVE StreamsTyped' /\ StreamInv'
  BY <1>3, StreamSteps1
<1>4. CASE KickRevoked
  BY <1>4, UnregisterKeeps DEF KickRevoked, sendVars
<1>5. CASE CheckCapability
  <2>1. UNCHANGED <<registry, stream, granted>> /\ sender' = registry /\ registry # NoStream
        /\ stream[registry].caps = "safe"
    BY <1>5 DEF CheckCapability
  <2> QED
    BY <1>1, <2>1 DEF StreamsTyped, StreamInv, LiveStreamIsCurrent, RestoreNeedsOwnReport
<1>6. CASE SendRestore
  <2>1. UNCHANGED <<registry, stream>> /\ sender' = NoStream /\ sender # NoStream
        /\ granted' \in {granted, granted \cup {sender}}
    BY <1>6 DEF SendRestore
  <2> QED
    BY <1>1, <2>1 DEF StreamsTyped, StreamInv, LiveStreamIsCurrent, RestoreNeedsOwnReport
<1>7. CASE ServerRestart
  <2>1. registry' = NoStream /\ sender' = NoStream /\ granted' = {}
        /\ stream' = [s \in Streams |-> FreeStream]
    BY <1>7 DEF ServerRestart
  <2> QED
    BY <2>1, FreeFacts DEF StreamsTyped, StreamInv, LiveStreamIsCurrent, RestoreNeedsOwnReport
<1>8. CASE \/ \E t \in Tokens : CreateToken(t) \/ ExpireToken(t)
           \/ ThrottleEnds \/ RevokeAgent \/ HandleAgentRevoked \/ UnrevokeAgent
           \/ Silence \/ ListStaleAgent \/ MarkOffline
  <2>1. UNCHANGED <<registry, stream, sender, granted>>
    BY <1>8 DEF CreateToken, ExpireToken, ThrottleEnds, RevokeAgent, HandleAgentRevoked,
       UnrevokeAgent, Silence, ListStaleAgent, MarkOffline, sendVars
  <2> QED
    BY <2>1, StreamsUnchanged
<1> QED
  BY <1>2, <1>3, <1>4, <1>5, <1>6, <1>7, <1>8 DEF SessionNext

-----------------------------------------------------------------------------
(* The tokens.                                                               *)

TokensTyped ==
    /\ tokens \in [Tokens -> {"absent", "fresh", "used"}]
    /\ identity \in [Machines -> {"absent", "secret", "complete"}]
    /\ enroll \in [Machines -> EnrollType] /\ enrolled \in [Tokens -> SUBSET Machines]

\* Nobody comes to hold a token, and no token is used less than before.
LEMMA NobodyNewHolds ==
  ASSUME SessionTypeOK, TokenInv, UNCHANGED enrolled,
         \A t \in Tokens : tokens[t] = "used" => tokens'[t] = "used",
         \A m \in Machines, t \in Tokens : Holds(m, t)' => Holds(m, t)
  PROVE  TokenInv'
  BY DEF TokenInv

\* A machine past the consumed token is enrolled and holds it no more.
LEMMA GivesKeeps ==
  ASSUME SessionTypeOK, TokenInv, NEW m \in Machines, NEW pc \in {"written", "answered"},
         enroll[m].pc \in {"consumed", "checked"},
         Gives(m), EnrollStep(m, pc), UNCHANGED tokens
  PROVE  TokenInv' /\ enrolled' \in [Tokens -> SUBSET Machines]
<1>1. TokensTyped
  BY SessionTypes DEF TokensTyped
<1>2. PICK k \in Tokens : k = enroll[m].token /\ Holds(m, k)
  BY <1>1 DEF TokensTyped, EnrollType, Holds
<1>3. enrolled[k] = {} /\ (\A n \in Machines : Holds(n, k) => n = m) /\ tokens[k] = "used"
  BY <1>2 DEF TokenInv
<1>4. enrolled' = [enrolled EXCEPT ![k] = enrolled[k] \cup {m}]
  BY <1>2 DEF Gives
<1>5. enrolled'[k] = {m} /\ \A t \in Tokens \ {k} : enrolled'[t] = enrolled[t]
  BY <1>1, <1>2, <1>3, <1>4 DEF TokensTyped
<1>6. enrolled' \in [Tokens -> SUBSET Machines]
  BY <1>1, <1>2, <1>4 DEF TokensTyped
<1>7. /\ enroll'[m].pc = pc
      /\ \A n \in Machines \ {m} : enroll'[n] = enroll[n]
  BY EnrollStepFact DEF EnrollSteps
<1>8. \A n \in Machines, t \in Tokens : Holds(n, t)' => Holds(n, t) /\ n # m
  BY <1>7 DEF Holds
<1>9. \A t \in Tokens : t # k => 
        /\ tokens'[t] # "used" => enrolled'[t] = {} /\ \A n \in Machines : ~Holds(n, t)'
        /\ \A n \in Machines : Holds(n, t)' => /\ enrolled'[t] = {}
                                               /\ \A o \in Machines : Holds(o, t)' => o = n
        /\ \A n, o \in enrolled'[t] : n = o
  BY <1>5, <1>8 DEF TokenInv, Holds
<1>10. \A n \in Machines : ~Holds(n, k)'
  BY <1>2, <1>3, <1>8 DEF Holds
<1> QED
  BY <1>3, <1>5, <1>6, <1>9, <1>10 DEF TokenInv

\* ConsumeEnrollmentToken: the update that finds the token fresh is alone.
LEMMA ConsumeKeeps ==
  ASSUME SessionTypeOK, TokenInv, NEW m \in Machines, ConsumeToken(m)
  PROVE  TokensTyped' /\ TokenInv'
<1>1. TokensTyped
  BY SessionTypes DEF TokensTyped
<1>2. PICK k \in Tokens : k = enroll[m].token
  BY <1>1 DEF TokensTyped, EnrollType
<1> DEFINE pc == IF tokens[k] = "fresh" THEN "consumed" ELSE "idle"
<1>3. EnrollStep(m, pc) /\ tokens' = [tokens EXCEPT ![k] = "used"] /\ UNCHANGED <<identity, enrolled>>
  BY <1>2 DEF ConsumeToken
<1>4. pc \in EnrollSteps /\ (tokens[k] # "fresh" => pc \notin {"consumed", "checked"})
  BY DEF EnrollSteps
<1> HIDE DEF pc
<1>5. /\ enroll' \in [Machines -> EnrollType]
      /\ enroll'[m].pc = pc /\ enroll'[m].token = k
      /\ \A n \in Machines \ {m} : enroll'[n] = enroll[n]
  BY <1>2, <1>3, <1>4, EnrollStepFact
<1>6. tokens'[k] = "used" /\ \A t \in Tokens \ {k} : tokens'[t] = tokens[t]
  BY <1>1, <1>2, <1>3 DEF TokensTyped
<1>7. TokensTyped'
  BY <1>1, <1>2, <1>3, <1>5 DEF TokensTyped
<1>8. \A n \in Machines, t \in Tokens : Holds(n, t)' => Holds(n, t) \/ (n = m /\ t = k /\ tokens[k] = "fresh")
  BY <1>4, <1>5 DEF Holds
<1>9. CASE tokens[k] = "fresh"
  <2>1. enrolled[k] = {} /\ \A n \in Machines : ~Holds(n, k)
    BY <1>2, <1>9 DEF TokenInv
  <2>2. \A t \in Tokens : t # k =>
          /\ tokens'[t] # "used" => enrolled'[t] = {} /\ \A n \in Machines : ~Holds(n, t)'
          /\ \A n \in Machines : Holds(n, t)' => /\ enrolled'[t] = {}
                                                 /\ \A o \in Machines : Holds(o, t)' => o = n
          /\ \A n, o \in enrolled'[t] : n = o
    BY <1>3, <1>6, <1>8 DEF TokenInv, Holds
  <2>3. enrolled'[k] = {} /\ \A n \in Machines : Holds(n, k)' => n = m
    BY <1>2, <1>3, <1>8, <2>1 DEF Holds
  <2> QED
    BY <1>6, <1>7, <2>2, <2>3 DEF TokenInv
<1>10. CASE tokens[k] # "fresh"
  BY <1>3, <1>6, <1>7, <1>8, <1>10, NobodyNewHolds
<1> QED
  BY <1>9, <1>10

\* The steps of one Enroll call.
LEMMA EnrolSteps1 ==
  ASSUME SessionTypeOK, TokenInv, NEW m \in Machines, EnrolNext(m)
  PROVE  TokensTyped' /\ TokenInv'
<1>1. TokensTyped
  BY SessionTypes DEF TokensTyped
<1>2. ASSUME NEW pc \in EnrollSteps \ {"consumed", "checked"}, EnrollStep(m, pc),
             UNCHANGED <<tokens, enrolled>>,
             identity' \in [Machines -> {"absent", "secret", "complete"}]
      PROVE  TokensTyped' /\ TokenInv'
  <2>1. /\ enroll' \in [Machines -> EnrollType]
        /\ enroll'[m].pc = pc /\ \A n \in Machines \ {m} : enroll'[n] = enroll[n]
    BY <1>2, EnrollStepFact
  <2>2. \A n \in Machines, t \in Tokens : Holds(n, t)' => Holds(n, t)
    BY <2>1 DEF Holds
  <2> QED
    BY <1>1, <1>2, <2>1, <2>2, NobodyNewHolds DEF TokensTyped
<1>3. ASSUME NEW t \in Tokens, StartEnroll(m, t) PROVE TokensTyped' /\ TokenInv'
  <2>1. /\ identity' = [identity EXCEPT ![m] = "secret"]
        /\ enroll' = [enroll EXCEPT ![m] = [pc |-> "sent", token |-> t]]
        /\ UNCHANGED <<tokens, enrolled>>
    BY <1>3 DEF StartEnroll
  <2>2. [pc |-> "sent", token |-> t] \in EnrollType
    BY DEF EnrollType, EnrollSteps
  <2>3. TokensTyped'
    BY <1>1, <2>1, <2>2 DEF TokensTyped
  <2>4. \A n \in Machines, k \in Tokens : Holds(n, k)' => Holds(n, k)
    BY <1>1, <2>1 DEF TokensTyped, Holds
  <2> QED
    BY <2>1, <2>3, <2>4, NobodyNewHolds
<1>4. CASE ConsumeToken(m)
  BY <1>4, ConsumeKeeps
<1>5. CASE RefuseEnroll(m) \/ LoseAnswer(m)
  <2>1. EnrollStep(m, "idle") /\ UNCHANGED <<tokens, enrolled, identity>>
    BY <1>5 DEF RefuseEnroll, LoseAnswer
  <2> QED
    BY <1>1, <1>2, <2>1 DEF EnrollSteps, TokensTyped
<1>6. CASE EnrollAgent(m)
  <2>1. /\ enroll[m].pc \in {"consumed", "checked"} /\ Gives(m) /\ EnrollStep(m, "answered")
        /\ UNCHANGED <<tokens, identity>>
    BY <1>6 DEF EnrollAgent
  <2>2. TokenInv' /\ enrolled' \in [Tokens -> SUBSET Machines]
    BY <2>1, GivesKeeps
  <2>3. enroll' \in [Machines -> EnrollType]
    BY <2>1, EnrollStepFact DEF EnrollSteps
  <2> QED
    BY <1>1, <2>1, <2>2, <2>3 DEF TokensTyped
<1>7. CASE CheckTarget(m)
  <2>1. CASE EnrollStep(m, "idle")
    BY <1>1, <1>2, <1>7, <2>1 DEF CheckTarget, EnrollSteps, TokensTyped
  <2>2. CASE EnrollStep(m, "checked")
    <3>1. /\ enroll' \in [Machines -> EnrollType] /\ enroll'[m].token = enroll[m].token
          /\ \A n \in Machines \ {m} : enroll'[n] = enroll[n]
      BY <2>2, EnrollStepFact DEF EnrollSteps
    <3>2. enroll[m].pc = "consumed" /\ UNCHANGED <<tokens, identity, enrolled>>
      BY <1>7 DEF CheckTarget
    <3>3. \A n \in Machines, t \in Tokens : Holds(n, t)' => Holds(n, t)
      BY <3>1, <3>2 DEF Holds
    <3> QED
      BY <1>1, <3>1, <3>2, <3>3, NobodyNewHolds DEF TokensTyped
  <2> QED
    BY <1>7, <2>1, <2>2 DEF CheckTarget
<1>8. CASE ReEnrollAgent(m)
  <2>1. enroll[m].pc \in {"consumed", "checked"} /\ UNCHANGED <<tokens, identity>>
    BY <1>8 DEF ReEnrollAgent
  <2>2. CASE EnrollStep(m, "idle") /\ UNCHANGED enrolled
    BY <1>1, <1>2, <2>1, <2>2 DEF EnrollSteps, TokensTyped
  <2>3. CASE Gives(m) /\ EnrollStep(m, "written")
    <3>1. TokenInv' /\ enrolled' \in [Tokens -> SUBSET Machines]
      BY <2>1, <2>3, GivesKeeps
    <3>2. enroll' \in [Machines -> EnrollType]
      BY <2>3, EnrollStepFact DEF EnrollSteps
    <3> QED
      BY <1>1, <2>1, <3>1, <3>2 DEF TokensTyped
  <2> QED
    BY <1>8, <2>2, <2>3 DEF ReEnrollAgent
<1>9. CASE KickAfterTakeover(m)
  <2>1. EnrollStep(m, "answered") /\ UNCHANGED <<tokens, enrolled, identity>>
    BY <1>9 DEF KickAfterTakeover
  <2> QED
    BY <1>1, <1>2, <2>1 DEF EnrollSteps, TokensTyped
<1>10. CASE SaveIdentity(m)
  <2>1. /\ EnrollStep(m, "idle") /\ UNCHANGED <<tokens, enrolled>>
        /\ identity' = [identity EXCEPT ![m] = "complete"]
    BY <1>10 DEF SaveIdentity
  <2>2. identity' \in [Machines -> {"absent", "secret", "complete"}]
    BY <1>1, <2>1 DEF TokensTyped
  <2> QED
    BY <1>2, <2>1, <2>2 DEF EnrollSteps
<1> QED
  BY <1>3, <1>4, <1>5, <1>6, <1>7, <1>8, <1>9, <1>10 DEF EnrolNext

\* Every step keeps the tokens' part of the invariant.
LEMMA TokensStep ==
  ASSUME SessionTypeOK, TokenInv, SessionNext
  PROVE  TokensTyped' /\ TokenInv'
<1>1. TokensTyped
  BY SessionTypes DEF TokensTyped
<1>2. ASSUME NEW t \in Tokens, CreateToken(t) \/ ExpireToken(t) PROVE TokensTyped' /\ TokenInv'
  <2>1. /\ tokens[t] # "used" /\ UNCHANGED <<identity, enroll, enrolled>>
        /\ \E w \in {"fresh", "used"} : tokens' = [tokens EXCEPT ![t] = w]
    BY <1>2 DEF CreateToken, ExpireToken
  <2>2. TokensTyped' /\ \A k \in Tokens : tokens[k] = "used" => tokens'[k] = "used"
    BY <1>1, <2>1 DEF TokensTyped
  <2>3. \A n \in Machines, k \in Tokens : Holds(n, k)' => Holds(n, k)
    BY <2>1 DEF Holds
  <2> QED
    BY <2>1, <2>2, <2>3, NobodyNewHolds
<1>3. ASSUME NEW m \in Machines, EnrolNext(m) PROVE TokensTyped' /\ TokenInv'
  BY <1>3, EnrolSteps1
<1>4. CASE ServerRestart
  <2>1. /\ enroll' = [m \in Machines |-> [enroll[m] EXCEPT !.pc = "idle"]]
        /\ UNCHANGED <<tokens, identity, enrolled>>
    BY <1>4 DEF ServerRestart
  <2>2. \A m \in Machines : enroll'[m] \in EnrollType /\ enroll'[m].pc = "idle"
    BY <1>1, <2>1 DEF TokensTyped, EnrollType, EnrollSteps
  <2>3. \A n \in Machines, k \in Tokens : Holds(n, k)' => Holds(n, k)
    BY <2>2 DEF Holds
  <2> QED
    BY <1>1, <2>1, <2>2, <2>3, NobodyNewHolds DEF TokensTyped
<1>5. ASSUME UNCHANGED enrolVars PROVE TokensTyped' /\ TokenInv'
  BY <1>1, <1>5 DEF TokensTyped, TokenInv, Holds, enrolVars
<1>6. CASE \/ \E s \in Streams : StreamNext(s)
           \/ CheckCapability \/ SendRestore \/ ThrottleEnds \/ RevokeAgent \/ KickRevoked
           \/ HandleAgentRevoked \/ UnrevokeAgent \/ Silence \/ ListStaleAgent \/ MarkOffline
  <2>1. UNCHANGED enrolVars
    BY <1>6 DEF StreamNext, Dial, Authenticate, Register, Hello, ReportCapabilities,
       HandleHeartbeat, LinkBreaks, EndStream, HandleDisconnect, CheckCapability, SendRestore,
       ThrottleEnds, RevokeAgent, KickRevoked, HandleAgentRevoked, UnrevokeAgent, Silence,
       ListStaleAgent, MarkOffline
  <2> QED
    BY <1>5, <2>1
<1> QED
  BY <1>2, <1>3, <1>4, <1>6 DEF SessionNext

-----------------------------------------------------------------------------
(* The rest, and the theorems.                                               *)

FlagsTyped ==
    /\ up \subseteq Machines
    /\ revoker \in {"idle", "flagged", "kicked"}
    /\ scanning \in BOOLEAN /\ throttled \in BOOLEAN
    /\ adminOps \in 0..MaxAdminOps /\ sessionFaults \in 0..MaxSessionFaults

\* The tallies stay within their bounds.
LEMMA TalliesStep ==
  ASSUME SessionTypeOK, SessionNext
  PROVE  adminOps' \in 0..MaxAdminOps /\ sessionFaults' \in 0..MaxSessionFaults
<1>1. adminOps \in 0..MaxAdminOps /\ sessionFaults \in 0..MaxSessionFaults
  BY DEF SessionTypeOK
<1>2. /\ UNCHANGED adminOps \/ (adminOps < MaxAdminOps /\ adminOps' = adminOps + 1)
      /\ UNCHANGED sessionFaults
         \/ (sessionFaults < MaxSessionFaults /\ sessionFaults' = sessionFaults + 1)
  <2>1. ASSUME NEW m \in Machines, EnrolNext(m)
        PROVE  UNCHANGED adminOps /\ (UNCHANGED sessionFaults \/ Fault)
    BY <2>1, Zenon DEF EnrolNext, StartEnroll, ConsumeToken, RefuseEnroll, EnrollAgent, CheckTarget,
       ReEnrollAgent, KickAfterTakeover, SaveIdentity, LoseAnswer, tallyVars
  <2>2. ASSUME NEW s \in Streams, StreamNext(s) PROVE UNCHANGED tallyVars
    BY <2>2, Zenon DEF StreamNext, Dial, Authenticate, Register, Hello, ReportCapabilities,
       HandleHeartbeat, LinkBreaks, EndStream, HandleDisconnect
  <2>3. CASE RevokeAgent \/ UnrevokeAgent
    BY <2>3, Zenon DEF RevokeAgent, UnrevokeAgent, AdminOp
  <2>4. CASE ServerRestart
    BY <2>4, Zenon DEF ServerRestart, Fault
  <2>5. CASE \/ \E t \in Tokens : CreateToken(t) \/ ExpireToken(t)
             \/ CheckCapability \/ SendRestore \/ ThrottleEnds \/ KickRevoked
             \/ HandleAgentRevoked \/ Silence \/ ListStaleAgent \/ MarkOffline
    BY <2>5, Zenon DEF CreateToken, ExpireToken, CheckCapability, SendRestore, ThrottleEnds,
       KickRevoked, HandleAgentRevoked, Silence, ListStaleAgent, MarkOffline, tallyVars
  <2> QED
    BY <2>1, <2>2, <2>3, <2>4, <2>5 DEF SessionNext, Fault, tallyVars
<1> QED
  BY <1>1, <1>2, SessionAssumption

\* Processes, the revocation's step, the offline check and the throttle.
LEMMA FlagsStep ==
  ASSUME SessionTypeOK, SessionNext
  PROVE  FlagsTyped'
<1>1. FlagsTyped
  BY DEF SessionTypeOK, FlagsTyped
<1>2. up' \subseteq Machines
  <2>1. up' \in {up, Machines} \/ \E m \in Machines \cup {NoMachine} : up' = up \ {m}
    <3>1. ASSUME NEW s \in Streams, Authenticate(s) PROVE up' = up \/ up' = up \ {stream[s].machine}
      BY <3>1 DEF Authenticate
    <3>2. \A s \in Streams : stream[s].machine \in Machines \cup {NoMachine}
      BY SessionTypes DEF StreamType
    <3>3. UNCHANGED up \/ UnrevokeAgent \/ \E s \in Streams : Authenticate(s)
      BY Zenon DEF SessionNext, CreateToken, ExpireToken, EnrolNext, StartEnroll, ConsumeToken,
         RefuseEnroll, EnrollAgent, CheckTarget, ReEnrollAgent, KickAfterTakeover, SaveIdentity,
         LoseAnswer, StreamNext, Dial, Register, Hello, ReportCapabilities, HandleHeartbeat,
         LinkBreaks, EndStream, HandleDisconnect, CheckCapability, SendRestore, ThrottleEnds,
         RevokeAgent, KickRevoked, HandleAgentRevoked, Silence, ListStaleAgent, MarkOffline,
         ServerRestart
    <3> QED
      BY <3>1, <3>2, <3>3 DEF UnrevokeAgent
  <2> QED
    BY <1>1, <2>1 DEF FlagsTyped
<1>3. /\ UNCHANGED revoker \/ revoker' \in {"idle", "flagged", "kicked"}
      /\ UNCHANGED scanning \/ scanning' \in BOOLEAN
      /\ UNCHANGED throttled \/ throttled' \in BOOLEAN
  <2>1. ASSUME NEW m \in Machines, EnrolNext(m) PROVE UNCHANGED <<revoker, scanning, throttled>>
    BY <2>1, Zenon DEF EnrolNext, StartEnroll, ConsumeToken, RefuseEnroll, EnrollAgent, CheckTarget,
       ReEnrollAgent, KickAfterTakeover, SaveIdentity, LoseAnswer
  <2>2. ASSUME NEW s \in Streams, StreamNext(s)
        PROVE  UNCHANGED <<revoker, scanning>> /\ (UNCHANGED throttled \/ throttled' = TRUE)
    BY <2>2, Zenon DEF StreamNext, Dial, Authenticate, Register, Hello, ReportCapabilities,
       HandleHeartbeat, LinkBreaks, EndStream, HandleDisconnect
  <2>3. CASE RevokeAgent \/ KickRevoked \/ HandleAgentRevoked \/ UnrevokeAgent
    BY <2>3 DEF RevokeAgent, KickRevoked, HandleAgentRevoked, UnrevokeAgent
  <2>4. CASE ThrottleEnds \/ ListStaleAgent \/ MarkOffline \/ ServerRestart
    BY <2>4 DEF ThrottleEnds, ListStaleAgent, MarkOffline, ServerRestart
  <2>5. CASE \/ \E t \in Tokens : CreateToken(t) \/ ExpireToken(t)
             \/ CheckCapability \/ SendRestore \/ Silence
    BY <2>5, Zenon DEF CreateToken, ExpireToken, CheckCapability, SendRestore, Silence
  <2> QED
    BY <2>1, <2>2, <2>3, <2>4, <2>5 DEF SessionNext
<1> QED
  BY <1>1, <1>2, <1>3, TalliesStep DEF FlagsTyped

\* A step keeps the invariant.
LEMMA SessionStep == SessionInv /\ [SessionNext]_sessionVars => SessionInv'
<1> SUFFICES ASSUME SessionInv, [SessionNext]_sessionVars PROVE SessionInv'
  OBVIOUS
<1>1. SessionTypeOK /\ TokenInv /\ StreamInv
  BY DEF SessionInv
<1>2. CASE SessionNext
  <2>1. agentRow' \in AgentType /\ TokensTyped' /\ StreamsTyped' /\ FlagsTyped'
    BY <1>1, <1>2, RowTyped, TokensStep, StreamsStep, FlagsStep
  <2>2. SessionTypeOK'
    BY <2>1 DEF SessionTypeOK, TokensTyped, StreamsTyped, FlagsTyped, AgentType, EnrollType,
       EnrollSteps, StreamType, StreamSteps
  <2> QED
    BY <1>1, <1>2, <2>2, TokensStep, StreamsStep DEF SessionInv
<1>3. CASE UNCHANGED sessionVars
  <2>1. SessionTypeOK'
    BY <1>1, <1>3 DEF SessionTypeOK, sessionVars, enrolVars, sendVars, tallyVars
  <2>2. TokenInv'
    BY <1>1, <1>3 DEF TokenInv, Holds, sessionVars, enrolVars
  <2>3. StreamInv'
    BY <1>1, <1>3 DEF StreamInv, LiveStreamIsCurrent, RestoreNeedsOwnReport, sessionVars, sendVars
  <2> QED
    BY <2>1, <2>2, <2>3 DEF SessionInv
<1> QED
  BY <1>2, <1>3

\* The invariant holds throughout.
LEMMA SessionInvariant == SessionSpec => []SessionInv
  BY SessionInitInv, SessionStep, PTL DEF SessionSpec

\* Rows, tokens, identities, calls, streams and the registry keep their types.
THEOREM SessionTypeCorrect == SessionSpec => []SessionTypeOK
<1>1. SessionInv => SessionTypeOK
  BY DEF SessionInv
<1> QED
  BY <1>1, SessionInvariant, PTL

\* UnregisterIf and Register, however connections, takeovers, revocations and
\* disconnects interleave: a registered stream nobody cancelled is the one in
\* the registry.
THEOREM LiveStreamsAreCurrent == SessionSpec => []LiveStreamIsCurrent
<1>1. SessionInv => LiveStreamIsCurrent
  BY DEF SessionInv, StreamInv
<1> QED
  BY <1>1, SessionInvariant, PTL

\* SendWithCapability: a database restore is sent only to a connection whose
\* own build announced the protected restore.
THEOREM RestoresNeedOwnReport == SessionSpec => []RestoreNeedsOwnReport
<1>1. SessionInv => RestoreNeedsOwnReport
  BY DEF SessionInv, StreamInv
<1> QED
  BY <1>1, SessionInvariant, PTL

\* ConsumeEnrollmentToken: a token enrols at most one machine, however many
\* race with it, repeat the call or restart.
THEOREM TokensEnrolOnce == SessionSpec => []TokenEnrolsOnce
<1>1. SessionInv => TokenEnrolsOnce
  <2> SUFFICES ASSUME SessionInv, NEW t \in Tokens PROVE Cardinality(enrolled[t]) <= 1
    BY DEF TokenEnrolsOnce
  <2>1. \A m, n \in enrolled[t] : m = n
    BY DEF SessionInv, TokenInv
  <2>2. enrolled[t] = {} \/ \E m \in enrolled[t] : enrolled[t] = {m}
    BY <2>1
  <2>3. Cardinality(enrolled[t]) \in {0, 1}
    BY <2>2, FS_EmptySet, FS_Singleton
  <2> QED
    BY <2>3
<1> QED
  BY <1>1, SessionInvariant, PTL
=============================================================================
