---------------------------- MODULE StorageProofs ----------------------------
(***************************************************************************)
(* The agents' part of the argument that the bytes of a transferred copy   *)
(* are stored: what an agent receives, executes and reports, how it        *)
(* registers and ends, and where the argument starts.                      *)
(***************************************************************************)
EXTENDS TransferProofs

-----------------------------------------------------------------------------
(* Agents *)

\* Only the agent's own state and queues change.
ActsAlone(a) ==
  /\ UNCHANGED <<vars, boots, worker, work, script>>
  /\ \A b \in Agent \ {a} : /\ agent'[b] = agent[b] /\ incarnation'[b] = incarnation[b]
                            /\ transfer'[b] = transfer[b] /\ store'[b] = store[b]

\* It claims no other incarnation, and has one while it reports or serves.
KeepsClaims(a) ==
  /\ \A n \in Nat : Claims(a, n)' => Claims(a, n)
  /\ agent'[a] \in Serving \cup {"evidence"} => incarnation'[a] # 0

\* It comes to serve by its registration only, and keeps the bytes of copies while it serves.
KeepsBytes(a) ==
  /\ agent[a] \notin Unregistered =>
       agent'[a] \notin Unregistered /\ incarnation'[a] = incarnation[a]
  /\ agent'[a] \in Serving => agent[a] \in Serving \cup {"evidence"}
  /\ agent'[a] \in Serving /\ agent[a] \in Serving =>
       \A r \in NamedReplica : IsCopy(r) /\ Stored(a, r) => Stored(a, r)'

\* It takes up no transfer.
KeepsTransfer(a) ==
  agent'[a] \in {"pull", "receive"} =>
    /\ agent[a] \in {"pull", "receive"}
    /\ transfer'[a].intent.replica = transfer[a].intent.replica

\* None of the frames says that the bytes of a transfer match.
NoMatch(F) == \A f \in F : \A r : ~MatchFor(f, r)

\* The incarnations, the bindings and the scripts stay.
LEMMA AgentRecords ==
  ASSUME ProcessInv, ProcessInv', CopyInv, NEW a \in Agent, ActsAlone(a), KeepsClaims(a),
         NEW F, UpStep(a, F), DownStep(a, {})
  PROVE  CopiesKept({}) /\ ClaimInv' /\ GivenInv' /\ BoundInv' /\ ScriptInv'
<1> USE DEF CopyInv
<1>1. /\ TypeOK /\ TypeOK' /\ UNCHANGED <<worker, work, script, replicas, clusters, boots>>
      /\ a \in Client /\ a \notin Controller
  BY Peers, Zenon DEF ProcessInv, ActsAlone, vars, Client
<1>2. CopiesKept({}) /\ BootsKept
  BY <1>1, CopiesUnchanged, Zenon DEF BootsKept
<1>3. \A b \in Agent : Frames(down'[b]) \subseteq Frames(down[b])
  BY Zenon DEF DownStep, Client
<1>4. \A b \in Agent, n \in Nat : Claims(b, n)' => Claims(b, n)
  <2> SUFFICES ASSUME NEW b \in Agent, NEW n \in Nat, Claims(b, n)', b # a PROVE Claims(b, n)
    BY Zenon DEF KeepsClaims
  <2>1. incarnation'[b] = incarnation[b]
    BY Zenon DEF ActsAlone
  <2> QED  BY <1>1, <1>3, <2>1, Zenon DEF Claims
<1>5. ClaimInv'
  BY <1>1, <1>2, <1>4, ClaimKept, Zenon
<1>6. GivenInv'
  <2>1. \A b \in Agent : agent'[b] \in Serving \cup {"evidence"} => incarnation'[b] # 0
    <3> SUFFICES ASSUME NEW b \in Agent, agent'[b] \in Serving \cup {"evidence"}, b # a
                 PROVE  incarnation'[b] # 0
      BY Zenon DEF KeepsClaims
    <3>1. agent'[b] = agent[b] /\ incarnation'[b] = incarnation[b]
      BY Zenon DEF ActsAlone
    <3> QED  BY <3>1, Zenon DEF GivenInv
  <2> QED  BY <1>1, <1>3, <2>1, Zenon DEF GivenInv
<1>7. BoundInv'
  BY <1>1, <1>2, BoundKept, Zenon
<1>8. ScriptInv'
  BY <1>1, ScriptStays, Zenon
<1> QED  BY <1>2, <1>5, <1>6, <1>7, <1>8, Zenon

\* So do the bytes, when no match is reported.
LEMMA AgentBytes ==
  ASSUME ProcessInv, CopyInv, NEW a \in Agent, ActsAlone(a), KeepsBytes(a), CopiesKept({}),
         NEW F, UpStep(a, F), NoMatch(F)
  PROVE  BytesInv'
<1>1. BytesInv /\ TransferInv /\ a \in Client
  BY Zenon DEF CopyInv, Client
<1>2. \A b \in Agent, r \in NamedReplica : \A f \in Frames(up'[b]) :
        MatchFor(f, r) => f \in Frames(up[b])
  BY <1>1, MatchesStay, Zenon DEF NoMatch
<1>3. \A b \in Agent :
        /\ agent[b] \notin Unregistered =>
             agent'[b] \notin Unregistered /\ incarnation'[b] = incarnation[b]
        /\ agent'[b] \in Serving => agent[b] \in Serving \cup {"evidence"}
        /\ agent'[b] \in Serving /\ agent[b] \in Serving =>
             \A r \in NamedReplica : IsCopy(r) /\ Stored(b, r) => Stored(b, r)'
  <2> SUFFICES ASSUME NEW b \in Agent, b # a
               PROVE  /\ agent[b] \notin Unregistered =>
                           agent'[b] \notin Unregistered /\ incarnation'[b] = incarnation[b]
                      /\ agent'[b] \in Serving => agent[b] \in Serving \cup {"evidence"}
                      /\ agent'[b] \in Serving /\ agent[b] \in Serving =>
                           \A r \in NamedReplica : IsCopy(r) /\ Stored(b, r) => Stored(b, r)'
    BY Zenon DEF KeepsBytes
  <2>1. agent'[b] = agent[b] /\ incarnation'[b] = incarnation[b] /\ store'[b] = store[b]
    BY Zenon DEF ActsAlone
  <2> QED  BY <2>1, Zenon DEF Stored
<1> QED  BY <1>1, <1>2, <1>3, BytesKept, Zenon

\* A step of an agent that moves no transfer keeps the invariant.
LEMMA AgentKeepsCopies ==
  ASSUME ProcessInv, ProcessInv', CopyInv, NEW a \in Agent, ActsAlone(a),
         KeepsClaims(a), KeepsBytes(a), KeepsTransfer(a), NEW F, UpStep(a, F), NoMatch(F),
         DownStep(a, {}), QueuesRepeatNothing'
  PROVE  CopyInv'
<1>1. CopiesKept({}) /\ ClaimInv' /\ GivenInv' /\ BoundInv' /\ ScriptInv'
  BY AgentRecords, Zenon
<1>2. BytesInv'
  BY <1>1, AgentBytes, Zenon
<1>3. TransferInv'
  <2>1. a \in Client /\ TransferInv /\ UNCHANGED <<worker, work>>
    BY Zenon DEF CopyInv, Client, ActsAlone
  <2>2. \A r : IsCopy(r) => IsCopy(r)'
    BY <1>1, CopiesStep, Zenon
  <2>3. \A b \in Agent : \A f \in Frames(up'[b]) : \A r : MatchFor(f, r) => f \in Frames(up[b])
    BY <2>1, MatchesStay, Zenon DEF NoMatch
  <2>4. \A r \in NamedReplica : Finished(r)' => Finished(r)
    BY <1>1, <2>3, FinishedStays, Zenon
  <2>5. \A z \in Client, r \in NamedReplica : Sends(z, r)' => Sends(z, r)
    BY <2>1, Zenon DEF Sends
  <2>6. \A b \in Agent, r \in NamedReplica : Awaits(b, r)' => Awaits(b, r)
    BY Zenon DEF DownStep, Awaits, Client
  <2>7. \A b \in Agent, r \in NamedReplica : Executes(b, r)' => Executes(b, r)
    BY Zenon DEF ActsAlone, KeepsTransfer, Executes
  <2>8. \A b \in Agent : NoRepeat(down'[b])
    BY Zenon DEF QueuesRepeatNothing
  <2>9. NamedReplica \cap {} = {} /\ NamedReplica \ {} = NamedReplica
    BY Zenon
  <2> QED  BY <2>1, <2>2, <2>3, <2>4, <2>5, <2>6, <2>7, <2>8, <2>9, TransferKept, Zenon
<1> QED  BY <1>1, <1>2, <1>3, Zenon DEF CopyInv

\* The control loop goes on, and no other agent does.
LEMMA ContinueActs ==
  ASSUME AgentInv, NEW a \in Agent, NEW pc, NEW t, Continue(a, pc, t)
  PROVE  /\ agent'[a] = pc /\ transfer'[a] = t
         /\ \A b \in Agent \ {a} : agent'[b] = agent[b] /\ transfer'[b] = transfer[b]
BY Zenon DEF Continue, AgentInv, AgentType

\* An agent that keeps its incarnation claims no other.
LEMMA ClaimsRest ==
  ASSUME NEW a \in Agent, UNCHANGED <<worker, work, incarnation>>, DownStep(a, {})
  PROVE  \A n \in Nat : Claims(a, n)' => Claims(a, n)
<1>1. Frames(down'[a]) \subseteq Frames(down[a])
  BY Zenon DEF DownStep
<1> QED  BY <1>1, Zenon DEF Claims

\* Receiving, closing or neither: the frames under way to the agents are those there were.
LEMMA TakenDown ==
  ASSUME ProcessInv, CopyInv, NEW a \in Agent,
         client_receives(a) \/ client_closes(a) \/ UNCHANGED down
  PROVE  DownStep(a, {}) /\ QueuesRepeatNothing'
<1>1. QueueInv /\ TransferInv /\ a \in Client
  BY Zenon DEF ProcessInv, CopyInv, Client
<1>2. DownStep(a, {})
  BY <1>1, ClientReceives, ClientCloses, DownUnchanged, Zenon
<1>3. QueuesRepeatNothing'
  BY <1>1, RepeatTaken, Zenon DEF QueuesRepeatNothing
<1> QED  BY <1>2, <1>3, Zenon

\* A serving agent goes on serving, with the transfer it executes or with none.
LEMMA RestingAgent ==
  ASSUME ProcessInv, ProcessInv', CopyInv, NEW a \in Agent,
         UNCHANGED <<vars, coordinator, script, incarnation, store>>,
         NEW pc, NEW t, Continue(a, pc, t), agent[a] \in Serving \cup {"evidence"}, pc \in Serving,
         pc \in {"pull", "receive"} =>
           agent[a] \in {"pull", "receive"} /\ t.intent.replica = transfer[a].intent.replica,
         NEW F, UpStep(a, F), NoMatch(F), client_receives(a) \/ UNCHANGED down
  PROVE  CopyInv'
<1>1. /\ agent'[a] = pc /\ transfer'[a] = t
      /\ \A b \in Agent \ {a} : agent'[b] = agent[b] /\ transfer'[b] = transfer[b]
  BY ContinueActs, Zenon DEF ProcessInv
<1>2. DownStep(a, {}) /\ QueuesRepeatNothing'
  BY TakenDown, Zenon
<1>3. UNCHANGED <<vars, boots, worker, work, script, incarnation, store>>
  BY Zenon DEF coordinator
<1>4. ActsAlone(a)
  BY <1>1, <1>3, Zenon DEF ActsAlone
<1>5. KeepsClaims(a)
  <2>1. incarnation[a] # 0
    BY Zenon DEF CopyInv, GivenInv
  <2>2. incarnation'[a] # 0
    BY <1>3, <2>1, Zenon
  <2>3. \A n \in Nat : Claims(a, n)' => Claims(a, n)
    BY <1>2, <1>3, ClaimsRest, Zenon
  <2> QED  BY <2>2, <2>3, Zenon DEF KeepsClaims
<1>6. KeepsBytes(a)
  <2>1. pc \notin Unregistered
    BY Zenon DEF Serving, Unregistered
  <2> QED  BY <1>1, <1>3, <2>1, Zenon DEF KeepsBytes, Stored
<1>7. KeepsTransfer(a)
  BY <1>1, Zenon DEF KeepsTransfer
<1> QED  BY <1>2, <1>4, <1>5, <1>6, <1>7, AgentKeepsCopies, Zenon

\* What an agent reports of a transfer is no match, unless it is the result and says so.
LEMMA ReportSent ==
  ASSUME ProcessInv, NEW a \in Agent, agent[a] \in Transferring,
         NEW type \in {"TRANSFER_PROGRESS", "TRANSFER_RESULT", "VERIFY_RESULT"},
         NEW outcome \in Outcome, client_sends(a, Report(a, type, outcome))
  PROVE  /\ UpStep(a, {Report(a, type, outcome)})
         /\ type # "TRANSFER_RESULT" \/ outcome # "MATCH" => NoMatch({Report(a, type, outcome)})
<1> DEFINE f == Report(a, type, outcome)
<1>1. type \in FrameType
  BY Zenon DEF FrameType
<1>2. f \in FrameRecord /\ f.type = type /\ f.outcome = outcome
  <2>1. AgentInv
    BY Zenon DEF ProcessInv
  <2> QED  BY <1>1, <2>1, ReportTyped
<1>3. a \in Client /\ QueueInv /\ f.type # "HELLO"
  BY <1>2, Zenon DEF ProcessInv, Client
<1>4. client_sends(a, f)
  BY Zenon
<1> HIDE DEF f
<1>5. UpStep(a, {f})
  BY <1>2, <1>3, <1>4, ClientSends, Zenon
<1>6. type # "TRANSFER_RESULT" \/ outcome # "MATCH" => NoMatch({f})
  BY <1>2, Zenon DEF NoMatch, MatchFor
<1> QED  BY <1>5, <1>6, Zenon DEF f

\* The steps by which an agent waits, and those by which it begins or gives up a transfer.
LEMMA ServingKeepsCopies ==
  ASSUME ProcessInv, ProcessInv', CopyInv, NEW a \in Agent,
         UNCHANGED <<vars, coordinator, script>>,
         \/ evidence_acked(a) \/ skip_frame(a) \/ verify_acked(a) \/ drop_frame(a)
         \/ await_fails(a) \/ first_chunk(a) \/ pull_fails(a) \/ result_acked(a)
  PROVE  CopyInv'
<1> USE DEF Serving
<1>1. QueueInv /\ a \in Client /\ AgentInv
  BY Zenon DEF ProcessInv, Client
<1>2. UNCHANGED up => UpStep(a, {}) /\ NoMatch({})
  BY <1>1, UpUnchanged, Zenon DEF NoMatch
<1>3. CASE evidence_acked(a) \/ verify_acked(a)
  <2>1. /\ UNCHANGED <<incarnation, store, up>> /\ client_receives(a)
        /\ Continue(a, "serve", NoTransfer) /\ agent[a] \in Serving \cup {"evidence"}
    BY <1>3, Zenon DEF evidence_acked, verify_acked
  <2> QED  BY <1>2, <2>1, RestingAgent, Zenon
<1>4. CASE await_fails(a)
  <2>1. /\ UNCHANGED <<incarnation, store, up, down>>
        /\ Continue(a, "serve", NoTransfer) /\ agent[a] \in Serving
    BY <1>4, Zenon DEF await_fails, transport
  <2> QED  BY <1>2, <2>1, RestingAgent, Zenon
<1>5. CASE skip_frame(a)
  <2>1. /\ UNCHANGED <<incarnation, store, up>> /\ client_receives(a)
        /\ agent[a] = "serve" /\ Continue(a, "serve", transfer[a])
    <3>1. UNCHANGED <<agent, incarnation, transfer, store, up>> /\ client_receives(a)
          /\ agent[a] = "serve"
      BY <1>5, Zenon DEF skip_frame, agent_vars
    <3>2. agent = [agent EXCEPT ![a] = "serve"] /\ transfer = [transfer EXCEPT ![a] = transfer[a]]
      BY <1>1, <3>1, Zenon DEF AgentInv, AgentType
    <3> QED  BY <3>1, <3>2, Zenon DEF Continue
  <2> QED  BY <1>2, <2>1, RestingAgent, Zenon
<1>6. CASE drop_frame(a)
  <2>1. /\ UNCHANGED <<incarnation, store, up>> /\ client_receives(a)
        /\ agent[a] \in {"await_result", "await_verify"}
        /\ \/ Continue(a, "serve", NoTransfer)
           \/ Continue(a, agent[a], [transfer[a] EXCEPT !.attempt = @ + 1])
    BY <1>6, Zenon DEF drop_frame
  <2>2. CASE Continue(a, "serve", NoTransfer)
    BY <1>2, <2>1, <2>2, RestingAgent, Zenon
  <2>3. CASE Continue(a, agent[a], [transfer[a] EXCEPT !.attempt = @ + 1])
    <3>1. PICK pc \in {"await_result", "await_verify"} : pc = agent[a]
      BY <2>1, Zenon
    <3>2. PICK t : Continue(a, pc, t)
      BY <2>3, <3>1, Zenon
    <3> QED  BY <1>2, <2>1, <3>2, RestingAgent, Zenon
  <2> QED  BY <2>1, <2>2, <2>3, Zenon
<1>7. CASE first_chunk(a)
  <2>1. /\ UNCHANGED <<incarnation, store, down>> /\ agent[a] = "pull"
        /\ client_sends(a, Report(a, "TRANSFER_PROGRESS", "NONE"))
    BY <1>7, Zenon DEF first_chunk
  <2>2. PICK bytes : Continue(a, "receive", [transfer[a] EXCEPT !.bytes = bytes])
    BY <1>7, Zenon DEF first_chunk
  <2>3. PICK t : Continue(a, "receive", t) /\ t.intent.replica = transfer[a].intent.replica
    BY <1>1, <2>2 DEF AgentInv, TransferRecord
  <2>4. PICK F : UpStep(a, F) /\ NoMatch(F)
    BY <2>1, ReportSent, Zenon DEF Transferring, Outcome
  <2> QED  BY <2>1, <2>3, <2>4, RestingAgent, Zenon
<1>8. CASE pull_fails(a)
  <2>1. /\ UNCHANGED <<incarnation, store, down>> /\ agent[a] \in {"pull", "receive"}
        /\ client_sends(a, Report(a, "TRANSFER_RESULT", "FAILED"))
        /\ Continue(a, "serve", NoTransfer)
    BY <1>8, Zenon DEF pull_fails
  <2>2. PICK F : UpStep(a, F) /\ NoMatch(F)
    BY <2>1, ReportSent, Zenon DEF Transferring, Outcome
  <2> QED  BY <2>1, <2>2, RestingAgent, Zenon
<1>9. CASE result_acked(a)
  <2>1. /\ UNCHANGED <<incarnation, store>> /\ agent[a] = "await_result" /\ client_receives(a)
        /\ client_sends(a, Report(a, "VERIFY_RESULT", transfer[a].bytes))
    BY <1>9, Zenon DEF result_acked
  <2>2. PICK t : Continue(a, "await_verify", t)
    BY <1>9, Zenon DEF result_acked
  <2>3. transfer[a].bytes \in Outcome
    BY <1>1, <2>1, Zenon DEF AgentInv, Transferring, Outcome
  <2>4. PICK F : UpStep(a, F) /\ NoMatch(F)
    BY <2>1, <2>3, ReportSent, Zenon DEF Transferring
  <2> QED  BY <2>1, <2>2, <2>4, RestingAgent, Zenon
<1> QED  BY <1>3, <1>4, <1>5, <1>6, <1>7, <1>8, <1>9, Zenon

\* The process ends.
LEMMA EndsKeepsCopies ==
  ASSUME ProcessInv, ProcessInv', CopyInv, NEW a \in Agent,
         UNCHANGED <<vars, coordinator, script>>, agent[a] \notin {"off", "exited"}, ends(a)
  PROVE  CopyInv'
<1>1. QueueInv /\ a \in Client /\ AgentInv
  BY Zenon DEF ProcessInv, Client
<1>2. /\ UNCHANGED <<vars, boots, worker, work, script, incarnation, up>> /\ client_closes(a)
      /\ Continue(a, "exited", NoTransfer) /\ store' = [store EXCEPT ![a] = << >>]
  BY Zenon DEF coordinator, ends
<1>3. /\ agent'[a] = "exited"
      /\ \A b \in Agent \ {a} : agent'[b] = agent[b] /\ transfer'[b] = transfer[b]
  BY <1>1, <1>2, ContinueActs, Zenon
<1>4. DownStep(a, {}) /\ QueuesRepeatNothing' /\ UpStep(a, {}) /\ NoMatch({})
  BY <1>1, <1>2, TakenDown, UpUnchanged, Zenon DEF NoMatch
<1>5. ActsAlone(a)
  <2>1. \A b \in Agent \ {a} : store'[b] = store[b]
    BY <1>1, <1>2, Zenon DEF AgentInv
  <2> QED  BY <1>2, <1>3, <2>1, Zenon DEF ActsAlone
<1>6. agent'[a] \notin Serving \cup {"evidence"} /\ agent'[a] \notin Unregistered
      /\ agent'[a] \notin {"pull", "receive"}
  BY <1>3, Zenon DEF Serving, Unregistered
<1>7. KeepsClaims(a)
  BY <1>2, <1>4, <1>6, ClaimsRest, Zenon DEF KeepsClaims
<1>8. KeepsBytes(a) /\ KeepsTransfer(a)
  BY <1>2, <1>6, Zenon DEF KeepsBytes, KeepsTransfer
<1> QED  BY <1>4, <1>5, <1>7, <1>8, AgentKeepsCopies, Zenon

\* A process starts, and claims nothing until its HELLO is answered.
LEMMA StartKeepsCopies ==
  ASSUME ProcessInv, ProcessInv', CopyInv, NEW a \in Agent,
         UNCHANGED <<vars, coordinator, script>>, start(a)
  PROVE  CopyInv'
<1>1. QueueInv /\ QueueInv' /\ a \in Client /\ AgentInv
  BY Zenon DEF ProcessInv, Client
<1>2. /\ UNCHANGED <<vars, boots, worker, work, script, incarnation, store, down>> /\ agent[a] = "off"
      /\ Continue(a, "hello", NoTransfer) /\ up' = [up EXCEPT ![a] = <<Frame("HELLO")>>]
  BY Zenon DEF coordinator, start, connect
<1>3. /\ agent'[a] = "hello"
      /\ \A b \in Agent \ {a} : agent'[b] = agent[b] /\ transfer'[b] = transfer[b]
  BY <1>1, <1>2, ContinueActs, Zenon
<1>4. DownStep(a, {}) /\ QueuesRepeatNothing'
  BY <1>2, TakenDown, Zenon
<1>5. UpStep(a, {Frame("HELLO")}) /\ NoMatch({Frame("HELLO")})
  <2>1. Frame("HELLO") \in FrameRecord /\ Frame("HELLO").type = "HELLO"
    BY FrameTyped, Zenon DEF FrameType
  <2>2. Frames(<<Frame("HELLO")>>) = {Frame("HELLO")}
    BY <2>1, FramesFirst, Zenon
  <2>3. \A y \in Client \ {a} : up'[y] = up[y]
    BY <1>1, <1>2, Zenon DEF QueueInv
  <2>4. up'[a] = <<Frame("HELLO")>>
    BY <1>1, <1>2, Zenon DEF QueueInv
  <2>5. up' \in [Client -> Seq(FrameRecord)] /\ \A y \in Client : HelloFirst(up'[y])
    BY <1>1, Zenon DEF QueueInv, HelloFirst
  <2>6. NoMatch({Frame("HELLO")})
    BY <2>1, Zenon DEF NoMatch, MatchFor
  <2> QED  BY <2>2, <2>3, <2>4, <2>5, <2>6, Zenon DEF UpStep
<1>6. ActsAlone(a)
  BY <1>2, <1>3, Zenon DEF ActsAlone
<1>7. /\ agent'[a] \notin Serving \cup {"evidence"} /\ agent[a] \in Unregistered
      /\ agent'[a] \notin {"pull", "receive"}
  BY <1>2, <1>3, Zenon DEF Serving, Unregistered
<1>8. KeepsClaims(a)
  BY <1>2, <1>4, <1>7, ClaimsRest, Zenon DEF KeepsClaims
<1>9. KeepsBytes(a) /\ KeepsTransfer(a)
  BY <1>7, Zenon DEF KeepsBytes, KeepsTransfer
<1> QED  BY <1>4, <1>5, <1>6, <1>8, <1>9, AgentKeepsCopies, Zenon

\* A controller hands an agent the bytes of a replica that is not a copy.
LEMMA HostKeepsCopies ==
  ASSUME ProcessInv, ProcessInv', CopyInv, NEW h \in Hosting, host_state(h[1], h[2], h[3]),
         UNCHANGED <<vars, coordinator, script>>
  PROVE  CopyInv'
<1>1. PICK a \in Agent, q \in ReplicaId, bytes \in {"MATCH", "MISMATCH"} : h = <<a, q, bytes>>
  BY Measured
<1>2. host_state(a, q, bytes) /\ q \in DOMAIN replicas /\ replicas[q].operation = 0
  BY <1>1, Zenon DEF CopyInv, BytesInv
<1>3. /\ UNCHANGED <<vars, boots, worker, work, script, agent, incarnation, transfer, up, down>>
      /\ agent[a] \in Serving
      /\ store' = [store EXCEPT ![a] = [p \in DOMAIN store[a] \cup {q} |->
                                          IF p = q THEN bytes ELSE store[a][p]]]
  BY <1>2, Zenon DEF coordinator, host_state, transport
<1>4. QueueInv /\ a \in Client /\ AgentInv /\ GivenInv
  BY Zenon DEF ProcessInv, Client, CopyInv
<1>5. DownStep(a, {}) /\ QueuesRepeatNothing' /\ UpStep(a, {}) /\ NoMatch({})
  BY <1>3, <1>4, TakenDown, UpUnchanged, Zenon DEF NoMatch
<1>6. ActsAlone(a)
  <2>1. \A b \in Agent \ {a} : store'[b] = store[b]
    BY <1>3, <1>4, Zenon DEF AgentInv
  <2> QED  BY <1>3, <2>1, Zenon DEF ActsAlone
<1>7. KeepsClaims(a)
  <2>1. \A n \in Nat : Claims(a, n)' => Claims(a, n)
    BY <1>3, <1>5, ClaimsRest, Zenon
  <2>2. agent'[a] \in Serving \cup {"evidence"} => incarnation'[a] # 0
    BY <1>3, <1>4, Zenon DEF GivenInv
  <2> QED  BY <2>1, <2>2, Zenon DEF KeepsClaims
<1>8. KeepsBytes(a)
  <2>1. ASSUME NEW r, IsCopy(r), Stored(a, r) PROVE Stored(a, r)'
    <3>1. r # q
      BY <1>2, <2>1, Zenon DEF IsCopy
    <3>2. store'[a] = [p \in DOMAIN store[a] \cup {q} |-> IF p = q THEN bytes ELSE store[a][p]]
      BY <1>3, <1>4, Zenon DEF AgentInv
    <3> QED  BY <2>1, <3>1, <3>2, Zenon DEF Stored
  <2> QED  BY <1>3, <2>1, Zenon DEF KeepsBytes
<1>9. KeepsTransfer(a)
  BY <1>3, Zenon DEF KeepsTransfer
<1> QED  BY <1>5, <1>6, <1>7, <1>8, <1>9, AgentKeepsCopies, Zenon

\* The reply to the HELLO arrives: the process is given what it claimed already.
LEMMA HelloAckedKeepsCopies ==
  ASSUME ProcessInv, ProcessInv', CopyInv, NEW a \in Agent,
         UNCHANGED <<vars, coordinator, script>>, hello_acked(a)
  PROVE  CopyInv'
<1> DEFINE n == Head(down[a]).incarnation
           f == [Frame("EVIDENCE") EXCEPT !.incarnation = n]
<1>1. QueueInv /\ a \in Client /\ AgentInv /\ GivenInv
  BY Zenon DEF ProcessInv, Client, CopyInv
<1>2. /\ UNCHANGED <<vars, boots, worker, work, script, store>> /\ agent[a] = "hello"
      /\ client_receives(a) /\ Head(down[a]).type = "HELLO_ACK"
      /\ incarnation' = [incarnation EXCEPT ![a] = n]
      /\ client_sends(a, f) /\ Continue(a, "evidence", NoTransfer)
  BY Zenon DEF coordinator, hello_acked
<1>3. /\ agent'[a] = "evidence"
      /\ \A b \in Agent \ {a} : agent'[b] = agent[b] /\ transfer'[b] = transfer[b]
  BY <1>1, <1>2, ContinueActs, Zenon
<1>4. Head(down[a]) \in FrameRecord /\ Head(down[a]) \in Frames(down[a])
  BY <1>1, <1>2, ClientReceives, HeadIsUnderWay, Zenon DEF client_receives
<1>5. n \in Nat /\ n # 0
  BY <1>1, <1>2, <1>4, Zenon DEF FrameRecord, GivenInv
<1>6. /\ incarnation'[a] = n
      /\ \A b \in Agent \ {a} : incarnation'[b] = incarnation[b]
  BY <1>1, <1>2, Zenon DEF AgentInv
<1>7. f \in FrameRecord /\ f.type = "EVIDENCE"
  <2>1. Frame("EVIDENCE") \in FrameRecord /\ Frame("EVIDENCE").type = "EVIDENCE"
    BY FrameTyped, Zenon DEF FrameType
  <2> QED  BY <1>5, <2>1, Zenon DEF FrameRecord
<1> HIDE DEF f
<1>8. UpStep(a, {f}) /\ NoMatch({f})
  <2>1. UpStep(a, {f})
    BY <1>1, <1>2, <1>7, ClientSends, Zenon
  <2> QED  BY <1>7, <2>1, Zenon DEF NoMatch, MatchFor
<1>9. DownStep(a, {}) /\ QueuesRepeatNothing'
  BY <1>2, TakenDown, Zenon
<1>10. ActsAlone(a)
  BY <1>2, <1>3, <1>6, Zenon DEF ActsAlone
<1>11. Claims(a, n)
  BY <1>2, <1>4, <1>5, Zenon DEF Claims
<1> HIDE DEF n
<1>12. KeepsClaims(a)
  <2>1. Frames(down'[a]) \subseteq Frames(down[a])
    BY <1>9, Zenon DEF DownStep
  <2>2. \A m \in Nat : Claims(a, m)' => m = n \/ Claims(a, m)
    BY <1>2, <1>6, <2>1, Zenon DEF Claims
  <2> QED  BY <1>5, <1>6, <1>11, <2>2, Zenon DEF KeepsClaims
<1>13. agent'[a] \notin Serving /\ agent[a] \in Unregistered /\ agent'[a] \notin {"pull", "receive"}
  BY <1>2, <1>3, Zenon DEF Serving, Unregistered
<1>14. KeepsBytes(a) /\ KeepsTransfer(a)
  BY <1>13, Zenon DEF KeepsBytes, KeepsTransfer
<1> QED  BY <1>8, <1>9, <1>10, <1>12, <1>14, AgentKeepsCopies, Zenon

\* The agent takes an intent: the transfer was under way to it, and is with it now.
LEMMA TakeIntentKeepsCopies ==
  ASSUME ProcessInv, ProcessInv', CopyInv, NEW a \in Agent,
         UNCHANGED <<vars, coordinator, script>>, take_intent(a)
  PROVE  CopyInv'
<1>1. QueueInv /\ a \in Client /\ AgentInv /\ GivenInv /\ TransferInv
  BY Zenon DEF ProcessInv, Client, CopyInv
<1>2. /\ UNCHANGED <<vars, boots, worker, work, script, incarnation, store>> /\ agent[a] = "serve"
      /\ client_receives(a) /\ Head(down[a]).type = "TRANSFER_INTENT"
      /\ client_sends(a, Frame("TRANSFER_INTENT_ACK"))
  BY Zenon DEF coordinator, take_intent
<1>3. PICK f \in FrameRecord : f = Head(down[a]) /\ f \in Frames(down[a])
  BY <1>1, <1>2, ClientReceives, HeadIsUnderWay, Zenon DEF client_receives
<1> DEFINE t == [NoTransfer EXCEPT !.intent = f]
<1>4. /\ agent'[a] = "pull" /\ transfer'[a] = t
      /\ \A b \in Agent \ {a} : agent'[b] = agent[b] /\ transfer'[b] = transfer[b]
  <2>1. Continue(a, "pull", t)
    BY <1>3, Zenon DEF take_intent
  <2> QED  BY <1>1, <2>1, ContinueActs, Zenon
<1>5. PICK r \in NamedReplica : r = f.replica /\ Awaits(a, r)
  BY <1>2, <1>3, Zenon DEF FrameRecord, Awaits, IntentFor
<1>6. /\ down[a] \in Seq(FrameRecord) /\ down[a] # << >> /\ NoRepeat(down[a])
      /\ down'[a] = Tail(down[a]) /\ \A b \in Agent \ {a} : down'[b] = down[b]
  BY <1>1, <1>2, Zenon DEF QueueInv, TransferInv, client_receives, Client
<1>7. \A g \in Frames(Tail(down[a])) : ~IntentFor(g, r)
  BY <1>2, <1>3, <1>5, <1>6, RepeatTail, Zenon
<1>8. t.intent.replica = r
  BY <1>5, Zenon DEF NoTransfer
<1> HIDE DEF t
<1>9. PICK F : UpStep(a, F) /\ NoMatch(F)
  <2>1. Frame("TRANSFER_INTENT_ACK") \in FrameRecord
        /\ Frame("TRANSFER_INTENT_ACK").type = "TRANSFER_INTENT_ACK"
    BY FrameTyped, Zenon DEF FrameType
  <2>2. UpStep(a, {Frame("TRANSFER_INTENT_ACK")})
    BY <1>1, <1>2, <2>1, ClientSends, Zenon
  <2>3. NoMatch({Frame("TRANSFER_INTENT_ACK")})
    BY <2>1, Zenon DEF NoMatch, MatchFor
  <2> QED  BY <2>2, <2>3, Zenon
<1>10. DownStep(a, {}) /\ QueuesRepeatNothing'
  BY <1>2, TakenDown, Zenon
<1>11. ActsAlone(a)
  BY <1>2, <1>4, Zenon DEF ActsAlone
<1>12. KeepsClaims(a) /\ KeepsBytes(a)
  <2>1. agent[a] \in Serving /\ agent'[a] \notin Unregistered
    BY <1>2, <1>4, Zenon DEF Serving, Unregistered
  <2>2. incarnation[a] # 0
    BY <1>1, <2>1, Zenon DEF GivenInv
  <2>3. \A n \in Nat : Claims(a, n)' => Claims(a, n)
    BY <1>2, <1>10, ClaimsRest, Zenon
  <2>4. KeepsClaims(a)
    BY <1>2, <2>2, <2>3, Zenon DEF KeepsClaims
  <2> QED  BY <1>2, <2>1, <2>4, Zenon DEF KeepsBytes, Stored
<1>13. CopiesKept({}) /\ ClaimInv' /\ GivenInv' /\ BoundInv' /\ ScriptInv'
  BY <1>9, <1>10, <1>11, <1>12, AgentRecords, Zenon
<1>14. BytesInv'
  BY <1>9, <1>11, <1>12, <1>13, AgentBytes, Zenon
<1>15. TransferInv'
  <2>1. \A b \in Agent : \A g \in Frames(up'[b]) : \A q : MatchFor(g, q) => g \in Frames(up[b])
    BY <1>1, <1>9, MatchesStay, Zenon DEF NoMatch
  <2>2. \A q : Finished(q)' => Finished(q)
    BY <1>13, <2>1, FinishedStays, Zenon
  <2>3. \A z \in Client : \A q : Sends(z, q)' => Sends(z, q)
    BY <1>2, Zenon DEF Sends
  <2>4. \A b \in Agent : \A q : Awaits(b, q)' => Awaits(b, q)
    BY <1>10, Zenon DEF DownStep, Awaits, Client
  <2>5. \A b \in Agent : \A q : Executes(b, q)' => Executes(b, q) \/ (b = a /\ q = r)
    BY <1>4, <1>8, Zenon DEF Executes
  <2>6. /\ \A z \in Client : ~Sends(z, r)
        /\ \A b \in Agent : Awaits(b, r) => b = a
        /\ \A b \in Agent : ~Executes(b, r)
        /\ ~Finished(r) /\ IsCopy(r)
    BY <1>1, <1>5, Zenon DEF TransferInv, OnePlace
  <2>7. IsCopy(r)'
    BY <1>13, <2>6, CopiesStep, Zenon
  <2>8. OnePlace(r)'
    <3>1. ~Awaits(a, r)'
      BY <1>6, <1>7, Zenon DEF Awaits
    <3>2. \A b \in Agent : ~Awaits(b, r)'
      BY <2>4, <2>6, <3>1, Zenon
    <3>3. \A z \in Client : ~Sends(z, r)'
      BY <2>3, <2>6, Zenon
    <3>4. \A b \in Agent : Executes(b, r)' => b = a
      BY <2>5, <2>6, Zenon
    <3>5. ~Finished(r)'
      BY <2>2, <2>6, Zenon
    <3> QED  BY <3>2, <3>3, <3>4, <3>5, Zenon DEF OnePlace
  <2>9. OthersRest(r)
    BY <2>1, <2>2, <2>3, <2>4, <2>5, Zenon DEF OthersRest
  <2> QED  BY <1>1, <1>10, <1>13, <2>7, <2>8, <2>9, TransferMoved, Zenon
<1> QED  BY <1>13, <1>14, <1>15, Zenon DEF CopyInv

\* The last chunk: the bytes are stored before the result is reported, and those of other
\* copies are not touched.
LEMMA LastChunkKeepsCopies ==
  ASSUME ProcessInv, ProcessInv', CopyInv, NEW a \in Agent,
         UNCHANGED <<vars, coordinator, script>>, last_chunk(a)
  PROVE  CopyInv'
<1>1. QueueInv /\ a \in Client /\ AgentInv /\ GivenInv /\ TransferInv /\ BytesInv
  BY Zenon DEF ProcessInv, Client, CopyInv
<1>2. UNCHANGED <<vars, boots, worker, work, script, incarnation, down>> /\ agent[a] = "receive"
  BY Zenon DEF coordinator, last_chunk
<1>3. transfer[a].bytes \in Bytes /\ transfer[a].intent \in FrameRecord
  BY <1>1, <1>2, Zenon DEF AgentInv, Transferring, TransferRecord
<1>4. PICK bytes \in Bytes :
        /\ store' = put(a, bytes)
        /\ client_sends(a, Report(a, "TRANSFER_RESULT", bytes))
        /\ Continue(a, "await_result", [transfer[a] EXCEPT !.bytes = bytes])
  BY <1>3, Zenon DEF last_chunk, Bytes
<1>5. /\ agent'[a] = "await_result"
      /\ \A b \in Agent \ {a} : agent'[b] = agent[b] /\ transfer'[b] = transfer[b]
  BY <1>1, <1>4, ContinueActs, Zenon
<1>6. PICK r \in NamedReplica : r = transfer[a].intent.replica
  BY <1>3, Zenon DEF FrameRecord
<1>7. /\ store'[a] = [p \in DOMAIN store[a] \cup {r} |-> IF p = r THEN bytes ELSE store[a][p]]
      /\ \A b \in Agent \ {a} : store'[b] = store[b]
  BY <1>1, <1>4, <1>6, Zenon DEF put, AgentInv
<1>8. PICK f : UpStep(a, {f}) /\ f.replica = r /\ f.outcome = bytes
  <2>1. UpStep(a, {Report(a, "TRANSFER_RESULT", bytes)})
    BY <1>2, <1>4, ReportSent, Zenon DEF Transferring, Outcome
  <2>2. LET f == Report(a, "TRANSFER_RESULT", bytes) IN f.replica = r /\ f.outcome = bytes
    BY <1>6, Zenon DEF Report, Frame
  <2> QED  BY <2>1, <2>2, Zenon
<1>9. Executes(a, r)
  BY <1>2, <1>6, Zenon DEF Executes
<1>10. DownStep(a, {}) /\ QueuesRepeatNothing'
  BY <1>2, TakenDown, Zenon
<1>11. ActsAlone(a)
  BY <1>2, <1>5, <1>7, Zenon DEF ActsAlone
<1>12. incarnation[a] # 0 /\ KeepsClaims(a)
  <2>1. agent[a] \in Serving
    BY <1>2, Zenon DEF Serving
  <2>2. incarnation[a] # 0
    BY <1>1, <2>1, Zenon DEF GivenInv
  <2>3. \A n \in Nat : Claims(a, n)' => Claims(a, n)
    BY <1>2, <1>10, ClaimsRest, Zenon
  <2> QED  BY <1>2, <2>2, <2>3, Zenon DEF KeepsClaims
<1>13. CopiesKept({}) /\ ClaimInv' /\ GivenInv' /\ BoundInv' /\ ScriptInv'
  BY <1>8, <1>10, <1>11, <1>12, AgentRecords, Zenon
<1>14. /\ \A z \in Client : ~Sends(z, r)
       /\ \A b \in Agent : ~Awaits(b, r) /\ (Executes(b, r) => b = a)
       /\ ~Finished(r) /\ IsCopy(r)
  BY <1>1, <1>9, Zenon DEF TransferInv, OnePlace
<1>15. \A b \in Agent : \A g \in Frames(up'[b]) : g \in Frames(up[b]) \/ (b = a /\ g = f)
  BY <1>8, Zenon DEF UpStep, Client
<1>16. TransferInv'
  <2>1. \A q : MatchFor(f, q) => q = r
    BY <1>8, Zenon DEF MatchFor
  <2>2. \A q : Recorded(q)' => Recorded(q)
    BY <1>2, Zenon DEF vars, Recorded, IsCopy
  <2>3. \A q : Finished(q)' => Finished(q) \/ q = r
    BY <1>15, <2>1, <2>2, Zenon DEF Finished, MatchFor
  <2>4. \A z \in Client : \A q : Sends(z, q)' => Sends(z, q)
    BY <1>2, Zenon DEF Sends
  <2>5. \A b \in Agent : \A q : Awaits(b, q)' => Awaits(b, q)
    BY <1>2, Zenon DEF Awaits
  <2>6. \A b \in Agent : \A q : Executes(b, q)' => Executes(b, q) /\ b # a
    BY <1>5, Zenon DEF Executes
  <2>7. IsCopy(r)'
    BY <1>13, <1>14, CopiesStep, Zenon
  <2>8. OnePlace(r)'
    <3>1. /\ \A z \in Client : ~Sends(z, r)'
          /\ \A b \in Agent : ~Awaits(b, r)' /\ ~Executes(b, r)'
      BY <1>14, <2>4, <2>5, <2>6, Zenon
    <3> QED  BY <3>1, Zenon DEF OnePlace
  <2>9. OthersRest(r)
    BY <1>15, <2>1, <2>3, <2>4, <2>5, <2>6, Zenon DEF OthersRest
  <2> QED  BY <1>1, <1>10, <1>13, <2>7, <2>8, <2>9, TransferMoved, Zenon
<1>17. BytesInv'
  <2>1. \A q : q # r => (Stored(a, q)' <=> Stored(a, q))
    BY <1>7, Zenon DEF Stored
  <2>2. \A b \in Agent \ {a} : \A q : Stored(b, q)' <=> Stored(b, q)
    BY <1>7, Zenon DEF Stored
  <2>3. \A q : Recorded(q)' => Recorded(q) /\ q # r
    <3>1. \A q : Recorded(q)' => Recorded(q)
      BY <1>2, Zenon DEF vars, Recorded, IsCopy
    <3> QED  BY <1>14, <3>1, Zenon DEF Finished
  <2>4. UNCHANGED replicas
    BY <1>2, Zenon DEF vars
  <2>5. \A b \in Agent : /\ agent[b] \notin Unregistered => agent'[b] \notin Unregistered
                         /\ agent'[b] \in Serving => agent[b] \in Serving
    BY <1>2, <1>5, Zenon DEF Serving, Unregistered
  <2>6. ASSUME NEW q \in ReplicaId, Recorded(q)'
        PROVE  \E b \in Agent : Holder(b, q)'
    <3>1. Recorded(q) /\ q # r /\ replicas'[q] = replicas[q]
      BY <2>3, <2>4, <2>6, Zenon
    <3>2. PICK b \in Agent : Holder(b, q)
      BY <1>1, <3>1, Zenon DEF BytesInv
    <3>3. HeldBy(b, q)'
      BY <2>1, <2>2, <2>5, <3>1, <3>2, Zenon DEF Holder, HeldBy
    <3> QED  BY <1>2, <3>1, <3>2, <3>3, Zenon DEF Holder
  <2>7. ASSUME NEW b \in Agent, NEW q \in NamedReplica, NEW g \in Frames(up'[b]), MatchFor(g, q)
        PROVE  incarnation'[b] # 0 /\ (agent'[b] \in Serving => Stored(b, q)')
    <3>1. CASE g \in Frames(up[b])
      <4>1. q # r
        BY <1>14, <2>7, <3>1, Zenon DEF Finished
      <4>2. incarnation[b] # 0 /\ (agent[b] \in Serving => Stored(b, q))
        BY <1>1, <2>7, <3>1, Zenon DEF BytesInv
      <4> QED  BY <1>2, <2>1, <2>2, <2>5, <4>1, <4>2, Zenon
    <3>2. CASE b = a /\ g = f
      <4>1. q = r /\ bytes = "MATCH"
        BY <1>8, <2>7, <3>2, Zenon DEF MatchFor
      <4>2. Stored(a, r)'
        BY <1>7, <4>1, Zenon DEF Stored
      <4> QED  BY <1>2, <1>12, <3>2, <4>1, <4>2, Zenon
    <3> QED  BY <1>15, <3>1, <3>2, Zenon
  <2>8. \A h \in Hosting : h[2] \in DOMAIN replicas' /\ replicas'[h[2]].operation = 0
    BY <1>1, <2>4, Zenon DEF BytesInv
  <2> QED  BY <2>6, <2>7, <2>8, Zenon DEF BytesInv, MatchFor
<1> QED  BY <1>13, <1>16, <1>17, Zenon DEF CopyInv

\* Every step of an agent keeps the invariant.
LEMMA AgentStepKeepsCopies ==
  ASSUME ProcessInv, ProcessInv', CopyInv, NEW a \in Agent,
         UNCHANGED <<vars, coordinator, script>>, AgentStep(a)
  PROVE  CopyInv'
<1>1. CASE hello_acked(a)
  BY <1>1, HelloAckedKeepsCopies, Zenon
<1>2. CASE take_intent(a)
  BY <1>2, TakeIntentKeepsCopies, Zenon
<1>3. CASE last_chunk(a)
  BY <1>3, LastChunkKeepsCopies, Zenon
<1>4. CASE registration_fails(a) \/ link_closed(a)
  <2>1. ends(a) /\ agent[a] \notin {"off", "exited"}
    BY <1>4, Zenon DEF registration_fails, link_closed
  <2> QED  BY <2>1, EndsKeepsCopies, Zenon
<1>5. CASE \/ evidence_acked(a) \/ skip_frame(a) \/ verify_acked(a) \/ drop_frame(a)
           \/ await_fails(a) \/ first_chunk(a) \/ pull_fails(a) \/ result_acked(a)
  BY <1>5, ServingKeepsCopies, Zenon
<1> QED  BY <1>1, <1>2, <1>3, <1>4, <1>5, Zenon DEF AgentStep

\* So does what happens to the processes from outside.
LEMMA OutsideKeepsCopies ==
  ASSUME ProcessInv, ProcessInv', CopyInv, Outside
  PROVE  CopyInv'
<1>1. ASSUME NEW a \in Agent, start(a), UNCHANGED <<vars, coordinator, controller_vars>>
      PROVE  CopyInv'
  BY <1>1, StartKeepsCopies, Zenon DEF controller_vars
<1>2. ASSUME NEW a \in Agent, kill(a), UNCHANGED <<vars, coordinator, caller, script>>
      PROVE  CopyInv'
  BY <1>2, EndsKeepsCopies, Zenon DEF kill
<1>3. ASSUME NEW h \in Hosting, host_state(h[1], h[2], h[3]),
             UNCHANGED <<vars, coordinator, caller, script>>
      PROVE  CopyInv'
  BY <1>3, HostKeepsCopies, Zenon
<1>4. ASSUME NEW k \in Controller, send_request(k), UNCHANGED <<vars, coordinator, agent_vars>>
      PROVE  CopyInv'
  BY <1>4, SendRequestKeepsCopies, Zenon
<1> QED  BY <1>1, <1>2, <1>3, <1>4, Zenon DEF Outside

\* Every step of the deployment keeps the invariant.
LEMMA CopyStep ==
  ASSUME ProcessInv, ProcessInv', CopyInv, [DeploymentNext]_all_vars
  PROVE  CopyInv'
<1>1. ASSUME NEW a \in Agent, AgentRuns(a) PROVE CopyInv'
  BY <1>1, AgentStepKeepsCopies, Zenon DEF AgentRuns, controller_vars
<1>2. CASE UNCHANGED all_vars
  <2>1. UNCHANGED <<vars, boots, worker, work, agent_vars, up, down, script>>
    BY <1>2, Zenon DEF all_vars, transport, coordinator, controller_vars
  <2>2. AgentQueuesShrink
    BY <2>1, Zenon DEF AgentQueuesShrink, CopyInv, TransferInv
  <2>3. ScriptInv'
    BY <2>1, Zenon DEF CopyInv, ScriptInv
  <2> QED  BY <2>1, <2>2, <2>3, RestKeepsCopies, Zenon
<1> QED  BY <1>1, <1>2, ServerKeepsCopies, ServeKeepsCopies, ControllerKeepsCopies,
            OutsideKeepsCopies, Zenon DEF DeploymentNext

-----------------------------------------------------------------------------
(* The start *)

\* The agents that serve at the start have incarnations their clusters have had; every copy
\* the plane says arrived is bound to one of them and held by it; and no controller is about
\* to vouch for bytes, or to hand over those of a copy.
CopiesStart ==
  /\ BoundInv
  /\ \A a \in Agent : incarnation[a] # 0 =>
       /\ ClusterOf[a] \in DOMAIN clusters
       /\ incarnation[a] <= clusters[ClusterOf[a]].incarnation
  /\ \A r \in DOMAIN replicas : Recorded(r) =>
       \E a \in Agent : /\ ClusterOf[a] = replicas[r].cluster /\ incarnation[a] # 0
                        /\ incarnation[a] = replicas[r].incarnation /\ Stored(a, r)
  /\ \A h \in Hosting : h[2] \in DOMAIN replicas /\ replicas[h[2]].operation = 0
  /\ \A k \in Controller : script[k] \in Seq(SUBSET MeasuredRequest)

\* The invariant holds at the start.
LEMMA CopyStarts ==
  ASSUME ProcessInv, ProcessesStart, CopiesStart
  PROVE  CopyInv
<1>1. PICK booted, startable \in SUBSET Agent, connected \in SUBSET Controller :
        /\ up = [x \in Client |-> << >>] /\ down = [x \in Client |-> << >>]
        /\ worker = [x \in Client |-> IF x \in booted THEN "agent"
                                      ELSE IF x \in connected THEN "first" ELSE "none"]
        /\ agent = [a \in Agent |-> IF a \in booted THEN "serve"
                                    ELSE IF a \in startable THEN "off" ELSE "exited"]
        /\ incarnation = [a \in Agent |-> IF a \in booted THEN 1 ELSE 0]
        /\ \A a \in booted : boots[ClusterOf[a]] = ProcessId[a]
  <2>1. PICK booted, startable \in SUBSET Agent, connected \in SUBSET Controller :
          \E scripts \in [connected -> Seq(SUBSET ControlRequest)],
             bytes \in [Agent -> UNION {[S -> Bytes] : S \in SUBSET ReplicaId}] :
            ProcessesInit(booted, scripts, startable, bytes)
    BY Zenon DEF ProcessesStart
  <2>2. PICK scripts \in [connected -> Seq(SUBSET ControlRequest)],
             bytes \in [Agent -> UNION {[S -> Bytes] : S \in SUBSET ReplicaId}] :
          ProcessesInit(booted, scripts, startable, bytes)
    BY <2>1, Zenon
  <2>3. DOMAIN scripts = connected
    BY <2>2, Zenon
  <2> QED  BY <2>2, <2>3, Zenon DEF ProcessesInit
<1>2. Frames(<< >>) = {}
  BY FramesEmpty, Zenon
<1>3. \A x \in Client : /\ Frames(up[x]) = {} /\ Frames(down[x]) = {}
                        /\ worker[x] \in {"agent", "first", "none"} /\ down[x] = << >>
  BY <1>1, <1>2, Zenon
<1>4. \A a \in Agent : /\ agent[a] \in {"serve", "off", "exited"}
                       /\ agent[a] = "serve" <=> incarnation[a] # 0
                       /\ incarnation[a] # 0 => agent[a] = "serve"
                       /\ incarnation[a] # 0 => boots[ClusterOf[a]] = ProcessId[a]
                       /\ a \in Client
  BY <1>1 DEF Client
<1>5. \A a \in Agent : \A n : Claims(a, n) => n # 0 /\ incarnation[a] = n
  BY <1>3, <1>4, Zenon DEF Claims
<1>6. TransferInv
  <2>1. \A r : /\ \A x \in Client : ~Sends(x, r)
               /\ \A a \in Agent : ~Awaits(a, r) /\ ~Executes(a, r)
    BY <1>3, <1>4, Zenon DEF Sends, Awaits, Executes
  <2>2. \A r : OnePlace(r)
    BY <2>1, Zenon DEF OnePlace
  <2>3. \A a \in Agent : NoRepeat(down[a])
    BY <1>3, <1>4, RepeatEmpty, Zenon
  <2> QED  BY <1>3, <1>4, <2>1, <2>2, <2>3, Zenon DEF TransferInv
<1>7. ClaimInv
  <2>1. ASSUME NEW a \in Agent, NEW n \in Nat, Claims(a, n)
        PROVE  /\ ClusterOf[a] \in DOMAIN clusters /\ n <= clusters[ClusterOf[a]].incarnation
               /\ boots[ClusterOf[a]] = ProcessId[a]
    <3>1. n # 0 /\ incarnation[a] = n
      BY <1>5, <2>1, Zenon
    <3> QED  BY <1>4, <3>1, Zenon DEF CopiesStart
  <2> QED  BY <2>1, Zenon DEF ClaimInv
<1>8. GivenInv
  BY <1>3, <1>4, Zenon DEF GivenInv, Serving
<1>9. BytesInv
  <2>1. ASSUME NEW r \in ReplicaId, Recorded(r)
        PROVE  \E a \in Agent : Holder(a, r)
    <3>1. r \in DOMAIN replicas
      BY <2>1, Zenon DEF Recorded, IsCopy
    <3>2. PICK a \in Agent : /\ ClusterOf[a] = replicas[r].cluster /\ incarnation[a] # 0
                             /\ incarnation[a] = replicas[r].incarnation /\ Stored(a, r)
      BY <2>1, <3>1, Zenon DEF CopiesStart
    <3>3. agent[a] \notin Unregistered
      BY <1>4, <3>2, Zenon DEF Unregistered
    <3> QED  BY <3>2, <3>3, Zenon DEF Holder, HeldBy
  <2>2. \A a \in Agent : Frames(up[a]) = {}
    BY <1>3, <1>4, Zenon
  <2> QED  BY <2>1, <2>2, Zenon DEF BytesInv, CopiesStart
<1>10. ScriptInv
  <2>1. script \in [Controller -> Seq(SUBSET MeasuredRequest)]
    BY Zenon DEF ProcessInv, QueueInv, CopiesStart
  <2> QED  BY <1>3, <2>1, Zenon DEF ScriptInv, Client
<1> QED  BY <1>6, <1>7, <1>8, <1>9, <1>10, Zenon DEF CopyInv, CopiesStart

\* The invariant says what the record of a copy promises.
LEMMA CopiesAreStored ==
  ASSUME ProcessInv, CopyInv
  PROVE  RecordedBytesAreStored
<1> SUFFICES ASSUME NEW r \in DOMAIN replicas, NEW a \in Agent,
                    replicas[r].operation # 0,
                    replicas[r].lifecycle \in {"TRANSFERRED", "PREPARED", "AUTHORITATIVE"},
                    ClusterOf[a] = replicas[r].cluster,
                    incarnation[a] = replicas[r].incarnation, agent[a] \in Serving, SoleHolder(a)
             PROVE  r \in DOMAIN store[a] /\ store[a][r] = "MATCH"
  BY Zenon DEF RecordedBytesAreStored
<1>1. Recorded(r) /\ r \in ReplicaId
  BY Zenon DEF Recorded, IsCopy, Written, ProcessInv, TypeOK, IsMap
<1>2. PICK b \in Agent : Holder(b, r)
  BY <1>1, Zenon DEF CopyInv, BytesInv
<1>3. b = a
  BY <1>2, Zenon DEF Holder, SoleHolder
<1> QED  BY <1>2, <1>3, Zenon DEF Holder, HeldBy, Stored
=============================================================================
