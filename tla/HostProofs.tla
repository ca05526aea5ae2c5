----------------------------- MODULE HostProofs -----------------------------
(***************************************************************************)
(* Proofs about Host for any tools, groups, capabilities, endpoints,       *)
(* sessions and calls.                                                     *)
(***************************************************************************)
EXTENDS Host, ProtocolProofs, SequenceTheorems

\* What was asked for is what is mounted, but while the assembly checks itself,
\* or has been interrupted there.
MountInv ==
  /\ ExpertsAreMounted
  /\ IF mpc = "verified" THEN saved = args.mount
     ELSE mpc = "exit" \/ mounted = args.mount

\* A call past the gate has its capabilities in the session the gate looked at.
GateInv ==
  /\ GatedUnlessReconnected
  /\ \A c \in Calls : cpc[c] = "thread" =>
       seen[c] # 0 /\ requires[tool[c]] \subseteq granted[seen[c]]

\* The mock server runs only where main() will stop it, unless main() abandons
\* its work, and the endpoint that main() goes on with is one it can be reached
\* at; a link is closed before the end or belongs to a thread that has
\* reconnected.
MockReachable ==
  mock = "running" => ~Raises(endpoint) /\ Connectable(parse_endpoint(endpoint), af_unix)

ExitInv ==
  /\ mock # "off" => args.mock /\ mpc # "args" /\ (mpc = "exit" => abandoned)
  /\ abandoned => mpc = "exit"
  /\ MockReachable
  /\ file => mock # "off"
  /\ mpc \in {"args", "connect"} => link = "never"
  /\ link \in {"up", "lost"} => Len(granted) > 0
  /\ mpc \in {"stop", "exit"} /\ ~abandoned => (link = "up" => Len(granted) > 1)

IInv == TypeOK /\ MountInv /\ GateInv /\ ExitInv

-----------------------------------------------------------------------------
(* The shape of the steps                                                  *)

\* main() before its bridge, and after it
Early == PrintConfig \/ StartMock \/ StartMockFails \/ NoForward \/ NoAdb \/ PrepareForward \/ BadEndpoint \/ ConnectFails
Late == Report \/ ServeEnds \/ CloseBridge \/ StopMock \/ Abandons
Assembly == ReadCaps \/ VerifyMounts \/ VerifyRestores \/ BindTools
Around == Unplug \/ AppStarts \/ LinkLost
Opens == Connects \/ Reconnect

LEMMA NextCases ==
  ASSUME Next
  PROVE  Early \/ Late \/ Assembly \/ Around \/ Opens \/ \E c \in Calls : Call(c)
  BY DEF Next, Main, Early, Late, Assembly, Around, Opens

\* Only a new session adds to the history of grants.
LEMMA GrantShape ==
  ASSUME TypeOK, Opens
  PROVE  /\ granted' \in Seq(Grants) /\ Len(granted') = Len(granted) + 1
         /\ \A i \in 1..Len(granted) : granted'[i] = granted[i]
         /\ sess' = Len(granted') /\ link' = "up"
         /\ UNCHANGED <<args, sound, af_unix, abandoned, mounted, saved, caps, registered, serverVars,
                         deviceVars, callVars>>
<1>1. /\ OpensSession
      /\ UNCHANGED <<args, sound, af_unix, abandoned, mounted, saved, caps, registered, serverVars,
                         deviceVars, callVars>>
  BY DEF Opens, Connects, Reconnect, Goes, assembly, mainVars
<1>2. PICK g \in Grants : granted' = Append(granted, g)
  BY <1>1 DEF OpensSession
<1>3. granted \in Seq(Grants)
  BY DEF TypeOK
<1>4. QED
  BY <1>1, <1>2, <1>3, AppendProperties, LenProperties DEF OpensSession

\* A call touches nothing but its own state.
LEMMA CallShape ==
  ASSUME TypeOK, NEW c \in Calls, Call(c)
  PROVE  /\ UNCHANGED <<mainVars, serverVars, deviceVars, linkVars>>
         /\ \A d \in Calls : d # c => /\ cpc'[d] = cpc[d] /\ tool'[d] = tool[d]
                                      /\ seen'[d] = seen[d] /\ used'[d] = used[d]
                                      /\ answer'[d] = answer[d]
<1> USE DEF CallGoes, CallGoesIf, TypeOK, callVars
<1>1. CASE CallBegins(c) \/ CallGated(c) \/ CallSends(c)
  BY <1>1 DEF CallBegins, CallGated, CallSends
<1>2. CASE CallReturns(c) \/ CallRaises(c) \/ CallSummarises(c)
  BY <1>2 DEF CallReturns, CallRaises, CallSummarises
<1>3. QED
  BY <1>1, <1>2 DEF Call

LEMMA CapsKnown ==
  ASSUME TypeOK
  PROVE  capabilities \subseteq Caps /\ (sess # 0 => capabilities = granted[sess])
<1>1. CASE sess = 0
  BY <1>1 DEF capabilities
<1>2. CASE sess # 0
  <2>1. sess = Len(granted) /\ granted \in Seq(Grants)
    BY <1>2 DEF TypeOK
  <2>2. sess \in 1..Len(granted)
    BY <1>2, <2>1, LenProperties
  <2>3. granted[sess] \in Grants
    BY <2>1, <2>2, ElementOfSeq
  <2>4. QED
    BY <1>2, <2>3, ToolsAssumption DEF capabilities
<1>3. QED
  BY <1>1, <1>2

-----------------------------------------------------------------------------
(* Types                                                                   *)

Phases == {"idle", "gate", "thread", "sent", "sum", "done", "failed"}

LEMMA TypeInit == Init => TypeOK
<1> SUFFICES ASSUME Init PROVE TypeOK
  OBVIOUS
<1>1. /\ args \in Args /\ mounted \cup saved \subseteq Groups \cup MountArgs
  BY DEF Init, Args
<1>2. SummaryTool \in Tools /\ unplugs \in 0..MaxUnplugs
  BY ToolsAssumption, BoundsAssumption DEF Init, Tools
<1>3. /\ granted \in Seq(Grants) /\ sess \in {0, Len(granted)} /\ 0 \in 0..Len(granted)
  BY EmptySeq DEF Init
<1>4. /\ cpc \in [Calls -> Phases] /\ tool \in [Calls -> Tools]
      /\ {seen, used} \subseteq [Calls -> 0..Len(granted)]
      /\ answer \in [Calls -> Answers \cup {None}]
      /\ \A c \in Calls : summary[c] = None
  BY <1>2, <1>3 DEF Init, Phases
<1>5. QED
  BY <1>1, <1>2, <1>3, <1>4 DEF Init, TypeOK, Phases

\* The endpoint main() settles on is one that can be written.
LEMMA ChosenWritten ==
  ASSUME args \in Args
  PROVE  Chosen \in Written
<1>1. \A port \in Int : Tcp(port) \in Written
  BY DEF Tcp, Written
<1>2. Specs \subseteq Written /\ \A port \in DevicePorts : port \in Int
  BY EndpointsAssumption
<1>3. args.device_port \in DevicePorts
  BY DEF Args
<1>4. args.endpoint \in Specs \cup {None}
  BY DEF Args
<1>5. CASE args.endpoint # None
  BY <1>2, <1>4, <1>5 DEF Chosen
<1>6. CASE args.endpoint = None
  <2>1. Tcp(0) \in Written /\ Tcp(args.device_port) \in Written
    BY <1>1, <1>2, <1>3
  <2>2. Chosen = Tcp(0) \/ Chosen = Tcp(args.device_port)
    BY <1>6 DEF Chosen
  <2>3. QED
    BY <2>1, <2>2
<1>7. QED
  BY <1>5, <1>6

\* What is written out of a port number parses again.
LEMMA TcpParses ==
  ASSUME NEW port \in PortNumbers
  PROVE  /\ Tcp(port) \in Written /\ ~Raises(Tcp(port))
         /\ parse_endpoint(Tcp(port)) = [kind |-> "tcp", raw |-> Tcp(port), port |-> port]
<1>1. Tcp(port) \in Written /\ ~Raises(Tcp(port))
  BY DEF Raises, Tcp, Written, PortNumbers
<1>2. parse_endpoint(Tcp(port)) = [kind |-> "tcp", raw |-> Tcp(port), port |-> port]
  BY DEF parse_endpoint, Tcp
<1>3. QED
  BY <1>1, <1>2

LEMMA UnixParses ==
  /\ Unix \in Written /\ ~Raises(Unix)
  /\ parse_endpoint(Unix) = [kind |-> "unix", raw |-> Unix, port |-> 0]
<1>1. Unix \in Written /\ ~Raises(Unix)
  BY DEF Raises, Unix, Written
<1>2. parse_endpoint(Unix) = [kind |-> "unix", raw |-> Unix, port |-> 0]
  BY DEF parse_endpoint, Unix
<1>3. QED
  BY <1>1, <1>2

\* Where listen() ends up, a client can be told to go: there the text parses
\* again, and somebody can be connected to.
LEMMA ListensReachably ==
  ASSUME NEW spec \in Written, NEW af \in BOOLEAN, ~Raises(spec),
         NEW bound \in listen(parse_endpoint(spec), af, FreePorts)
  PROVE  /\ bound.raw \in Written /\ is_unix(bound) \in BOOLEAN
         /\ ~Raises(bound.raw) /\ Connectable(parse_endpoint(bound.raw), af)
<1>1. CASE spec.scheme = "tcp"
  <2>1. spec.port \in PortNumbers
    BY <1>1 DEF Raises
  <2>2. parse_endpoint(spec) = [kind |-> "tcp", raw |-> spec, port |-> spec.port]
    BY <1>1 DEF parse_endpoint
  <2>3. PICK port \in IF spec.port = 0 THEN FreePorts ELSE {spec.port} :
          bound = with_port(parse_endpoint(spec), port)
    BY <2>2 DEF listen, is_unix
  <2>4. port \in PortNumbers /\ port # 0
    BY <2>1, <2>3, EndpointsAssumption
  <2>5. bound = [kind |-> "tcp", raw |-> Tcp(port), port |-> port]
    BY <2>2, <2>3 DEF with_port
  <2>6. /\ Tcp(port) \in Written /\ ~Raises(Tcp(port))
        /\ parse_endpoint(Tcp(port)) = [kind |-> "tcp", raw |-> Tcp(port), port |-> port]
    BY <2>4, TcpParses
  <2>7. bound.raw = Tcp(port) /\ ~is_unix(bound) /\ Connectable(parse_endpoint(Tcp(port)), af)
    BY <2>4, <2>5, <2>6 DEF Connectable, is_unix
  <2>8. is_unix(bound) \in BOOLEAN
    BY DEF is_unix
  <2>9. Connectable(parse_endpoint(bound.raw), af) /\ ~Raises(bound.raw) /\ bound.raw \in Written
    BY <2>6, <2>7, Zenon
  <2>10. QED
    BY <2>8, <2>9
<1>2. CASE spec.scheme # "tcp"
  <2>1. parse_endpoint(spec) = [kind |-> "unix", raw |-> Unix, port |-> 0]
    BY <1>2 DEF parse_endpoint
  <2>2. af /\ bound = parse_endpoint(spec)
    BY <2>1 DEF listen, is_unix
  <2>3. bound.raw = Unix /\ is_unix(bound) /\ Connectable(parse_endpoint(Unix), af)
    BY <2>1, <2>2, UnixParses DEF Connectable, is_unix
  <2>4. QED
    BY <2>3, UnixParses
<1>3. QED
  BY <1>1, <1>2

\* What E_NOT_READY becomes, and whatever a failing call is answered.
LEMMA LocalAnswer ==
  /\ to_mcp_exception("E_NOT_READY") \in Answers
  /\ to_mcp_exception("E_NOT_READY").form # "MCPError"
  BY DEF Answers, to_mcp_exception, to_dict, ErrorCode, ProtocolLayer

LEMMA FailuresKnown ==
  ASSUME NEW c \in Calls, NEW code \in Failures(c)
  PROVE  to_mcp_exception(code) \in Answers
<1>1. \A m \in Replies(c) : Verdict(m) \in ErrorCode \cup {"OK"}
  BY VerdictTheorem DEF Replies
<1>2. {"E_MALFORMED_FRAME", "E_NOT_READY", "E_SESSION_STALE", "E_TIMEOUT"} \subseteq ErrorCode
  BY DEF ErrorCode, ProtocolLayer
<1>3. code \in ErrorCode
  BY <1>1, <1>2 DEF Failures
<1>4. QED
  BY <1>3 DEF Answers

LEMMA TypeStep ==
  ASSUME TypeOK, [Next]_vars
  PROVE  TypeOK'
<1> USE DEF mainVars, serverVars, deviceVars, linkVars, callVars, assembly
<1>1. CASE UNCHANGED vars
  BY <1>1 DEF vars, TypeOK
<1>2. CASE Early
  <2>0. Chosen \in Written
    BY ChosenWritten DEF TypeOK
  <2>1. CASE PrintConfig \/ StartMockFails \/ NoForward \/ NoAdb \/ BadEndpoint \/ ConnectFails
    BY <2>0, <2>1 DEF PrintConfig, StartMockFails, NoForward, NoAdb, BadEndpoint, ConnectFails,
                      Settles, Goes, TypeOK
  <2>2. CASE StartMock
    <3>1. PICK bound \in listen(parse_endpoint(Chosen), af_unix, FreePorts) :
            mock' = "running" /\ file' = is_unix(bound) /\ endpoint' = bound.raw
      BY <2>2 DEF StartMock
    <3>2. ~Raises(Chosen)
      BY <2>2 DEF StartMock
    <3>3. bound.raw \in Written /\ is_unix(bound) \in BOOLEAN
      BY <2>0, <3>1, <3>2, ListensReachably DEF TypeOK
    <3>4. QED
      BY <2>2, <3>1, <3>3 DEF StartMock, Goes, TypeOK
  <2>3. CASE PrepareForward
    BY <2>0, <2>3 DEF PrepareForward, Settles, Goes, ensure_forward, TypeOK
  <2>4. QED
    BY <1>2, <2>1, <2>2, <2>3 DEF Early
<1>3. CASE Late
  BY <1>3 DEF Late, Report, Abandons, ServeEnds, CloseBridge, StopMock, Goes, TypeOK
<1>4. CASE Assembly
  <2>1. CASE ReadCaps
    BY <2>1, CapsKnown DEF ReadCaps, Goes, TypeOK
  <2>2. CASE VerifyMounts \/ VerifyRestores
    BY <2>2 DEF VerifyMounts, VerifyRestores, Goes, TypeOK
  <2>3. CASE BindTools
    <3>1. visible(caps) \subseteq Tools
      BY DEF visible, _expert_candidates, Tools
    <3>2. QED
      BY <2>3, <3>1 DEF BindTools, Goes, TypeOK
  <2>4. QED
    BY <1>4, <2>1, <2>2, <2>3 DEF Assembly
<1>5. CASE Around
  <2>1. CASE Unplug
    <3>1. unplugs' \in 0..MaxUnplugs
      BY <2>1, BoundsAssumption DEF Unplug, TypeOK
    <3>2. QED
      BY <2>1, <3>1 DEF Unplug, TypeOK
  <2>2. CASE AppStarts
    BY <2>2 DEF AppStarts, TypeOK
  <2>3. CASE LinkLost
    BY <2>3 DEF LinkLost, TypeOK
  <2>4. QED
    BY <1>5, <2>1, <2>2, <2>3 DEF Around
<1>6. CASE Opens
  <2>1. mpc' \in {mpc, "caps"}
    BY <1>6 DEF Opens, Connects, Reconnect, Goes
  <2>2. {seen', used'} \subseteq [Calls -> 0..Len(granted')]
    <3>1. Len(granted) \in Nat /\ Len(granted') = Len(granted) + 1
      BY <1>6, GrantShape, LenProperties DEF TypeOK
    <3>2. QED
      BY <1>6, <3>1, GrantShape DEF TypeOK
  <2>3. QED
    BY <1>6, <2>1, <2>2, GrantShape DEF TypeOK
<1>7. ASSUME NEW c \in Calls, Call(c)
      PROVE  TypeOK'
  <2>1. UNCHANGED <<mainVars, serverVars, deviceVars, linkVars>>
    BY <1>7, CallShape
  <2>2. sess \in 0..Len(granted)
    BY LenProperties DEF TypeOK
  <2>3. /\ cpc' \in [Calls -> Phases] /\ tool' \in [Calls -> Tools]
        /\ seen' \in [Calls -> 0..Len(granted)] /\ used' \in [Calls -> 0..Len(granted)]
        /\ \A d \in Calls : summary'[d] = None \/ summary'[d] \subseteq Caps
        /\ answer' \in [Calls -> Answers \cup {None}]
    <3>1. CASE CallBegins(c)
      BY <3>1, LocalAnswer DEF CallBegins, CallGoesIf, CallGoes, TypeOK, Phases
    <3>2. CASE CallGated(c)
      BY <3>2, <2>2, LocalAnswer DEF CallGated, CallGoesIf, CallGoes, TypeOK, Phases
    <3>3. CASE CallSends(c)
      BY <3>3, <2>2, LocalAnswer DEF CallSends, CallGoesIf, CallGoes, TypeOK, Phases
    <3>4. CASE CallReturns(c)
      BY <3>4 DEF CallReturns, CallGoes, TypeOK, Phases
    <3>5. CASE CallRaises(c)
      BY <3>5, FailuresKnown DEF CallRaises, CallGoes, TypeOK, Phases
    <3>6. CASE CallSummarises(c)
      <4>1. \A d \in Calls : summary'[d] \in {summary[d], capabilities}
        BY <3>6 DEF CallSummarises
      <4>2. QED
        BY <3>6, <4>1, CapsKnown DEF CallSummarises, CallGoes, TypeOK, Phases
    <3>7. QED
      BY <1>7, <3>1, <3>2, <3>3, <3>4, <3>5, <3>6 DEF Call
  <2>4. QED
    BY <2>1, <2>3 DEF TypeOK, Phases
<1>8. QED
  BY <1>1, <1>2, <1>3, <1>4, <1>5, <1>6, <1>7, NextCases

-----------------------------------------------------------------------------
(* What is served                                                          *)

LEMMA MountStep ==
  ASSUME TypeOK, MountInv, [Next]_vars
  PROVE  MountInv'
<1> USE DEF mainVars, serverVars, deviceVars, linkVars, callVars, assembly
<1>1. CASE UNCHANGED vars \/ Early \/ Late \/ Around \/ Opens
  BY <1>1 DEF vars, Early, PrintConfig, StartMock, StartMockFails, NoForward, NoAdb,
              PrepareForward, BadEndpoint, ConnectFails, Late, Report, Abandons, ServeEnds,
              CloseBridge, StopMock, Around, Unplug, AppStarts, LinkLost, Opens, Connects,
              Reconnect, Goes, MountInv, ExpertsAreMounted
<1>2. CASE ReadCaps \/ VerifyMounts \/ VerifyRestores
  BY <1>2 DEF ReadCaps, VerifyMounts, VerifyRestores, Goes, MountInv, ExpertsAreMounted
<1>3. CASE BindTools
  <2>1. mounted = args.mount /\ registered' = visible(caps) /\ mpc' # "verified"
        /\ UNCHANGED <<args, mounted>>
    BY <1>3 DEF BindTools, Goes, MountInv
  <2>2. \A t \in visible(caps) \cap Expert : group[t] \in mounted
    BY ToolsAssumption DEF visible, _expert_candidates
  <2>3. QED
    BY <2>1, <2>2 DEF MountInv, ExpertsAreMounted
<1>4. ASSUME NEW c \in Calls, Call(c)
      PROVE  MountInv'
  BY <1>4, CallShape DEF MountInv, ExpertsAreMounted
<1>5. QED
  BY <1>1, <1>2, <1>3, <1>4, NextCases DEF Assembly

-----------------------------------------------------------------------------
(* What is executed                                                        *)

LEMMA GateStep ==
  ASSUME TypeOK, GateInv, [Next]_vars
  PROVE  GateInv'
<1> USE DEF mainVars, serverVars, deviceVars, linkVars, callVars, assembly
<1>1. CASE UNCHANGED <<granted, cpc, tool, seen, used, answer>>
  BY <1>1 DEF GateInv, GatedUnlessReconnected, Blamed
<1>2. CASE UNCHANGED vars \/ Early \/ Late \/ Assembly \/ Around
  BY <1>1, <1>2 DEF vars, Early, PrintConfig, StartMock, StartMockFails, NoForward, NoAdb,
                    PrepareForward, BadEndpoint, ConnectFails, Late, Report, Abandons, ServeEnds,
                    CloseBridge, StopMock, Around, Unplug, AppStarts, LinkLost, Assembly,
                    ReadCaps, VerifyMounts, VerifyRestores, BindTools
<1>3. CASE Opens
  <2>1. UNCHANGED <<cpc, tool, seen, used, answer>>
    BY <1>3, GrantShape
  <2>2. \A c \in Calls : /\ seen[c] # 0 => granted'[seen[c]] = granted[seen[c]]
                         /\ used[c] # 0 => granted'[used[c]] = granted[used[c]]
    BY <1>3, GrantShape, LenProperties DEF TypeOK
  <2>3. QED
    BY <2>1, <2>2 DEF GateInv, GatedUnlessReconnected, Blamed
<1>4. ASSUME NEW c \in Calls, Call(c)
      PROVE  GateInv'
  <2>1. /\ UNCHANGED granted
        /\ \A d \in Calls : d # c => /\ cpc'[d] = cpc[d] /\ tool'[d] = tool[d]
                                     /\ seen'[d] = seen[d] /\ used'[d] = used[d]
                                     /\ answer'[d] = answer[d]
    BY <1>4, CallShape
  <2> DEFINE Passed == \/ used[c] # 0 /\ requires[tool[c]] \subseteq granted[used[c]]
                       \/ seen[c] < used[c]
  <2>2. SUFFICES /\ cpc'[c] = "thread" => seen'[c] # 0 /\ requires[tool'[c]] \subseteq granted[seen'[c]]
                 /\ cpc'[c] \in {"sent", "sum", "done"} \/ Blamed(c)' => Passed'
    BY <2>1 DEF GateInv, GatedUnlessReconnected, Blamed
  <2>3. CASE CallBegins(c)
    <3>1. cpc'[c] \in {"gate", "failed"} /\ (cpc'[c] = "failed" => answer'[c].form # "MCPError")
      BY <2>3, LocalAnswer DEF CallBegins, CallGoesIf, CallGoes, TypeOK
    <3>2. QED
      BY <3>1 DEF Blamed
  <2>4. CASE CallGated(c)
    <3>1. /\ seen'[c] = sess /\ tool' = tool /\ cpc'[c] \in {"thread", "failed"}
          /\ cpc'[c] = "thread" => sess # 0 /\ capability_gaps(tool[c], capabilities) = {}
          /\ cpc'[c] = "failed" => answer'[c].form # "MCPError"
      BY <2>4, LocalAnswer DEF CallGated, CallGoesIf, CallGoes, TypeOK
    <3>2. QED
      BY <3>1, CapsKnown DEF capability_gaps, Blamed
  <2>5. CASE CallSends(c)
    <3>1. /\ cpc[c] = "thread" /\ used'[c] = sess /\ UNCHANGED <<tool, seen>>
          /\ cpc'[c] \in {"sent", "failed"} /\ (cpc'[c] = "sent" => sess # 0)
          /\ cpc'[c] = "failed" => answer'[c].form # "MCPError"
      BY <2>5, LocalAnswer DEF CallSends, CallGoesIf, CallGoes, TypeOK
    <3>2. seen[c] \in 0..Len(granted) /\ Len(granted) \in Nat
      BY LenProperties DEF TypeOK
    <3>3. sess # 0 => seen[c] = sess \/ seen[c] < sess
      BY <3>2 DEF TypeOK
    <3>4. QED
      BY <2>1, <3>1, <3>3 DEF GateInv, Blamed
  \* what was sent has passed
  <2>6. CASE CallReturns(c) \/ CallRaises(c) \/ CallSummarises(c)
    <3>1. /\ cpc[c] \in {"sent", "sum"} /\ cpc'[c] \in {"sum", "done", "failed"}
          /\ UNCHANGED <<tool, seen, used>>
      BY <2>6 DEF CallReturns, CallRaises, CallSummarises, CallGoes, TypeOK
    <3>2. Passed
      BY <3>1 DEF GateInv, GatedUnlessReconnected
    <3>3. QED
      BY <2>1, <3>1, <3>2
  <2>7. QED
    BY <1>4, <2>3, <2>4, <2>5, <2>6 DEF Call
<1>5. QED
  BY <1>2, <1>3, <1>4, NextCases

-----------------------------------------------------------------------------
(* What is left behind                                                     *)

LEMMA ExitStep ==
  ASSUME TypeOK, ExitInv, [Next]_vars
  PROVE  ExitInv'
<1> USE DEF mainVars, serverVars, deviceVars, linkVars, callVars, assembly
<1>1. CASE UNCHANGED vars
  BY <1>1 DEF vars, ExitInv, MockReachable
<1>2. CASE Early
  <2>1. CASE StartMock
    <3>1. PICK bound \in listen(parse_endpoint(Chosen), af_unix, FreePorts) :
            mock' = "running" /\ file' = is_unix(bound) /\ endpoint' = bound.raw
      BY <2>1 DEF StartMock
    <3>2. ~Raises(Chosen) /\ Chosen \in Written
      BY <2>1, ChosenWritten DEF StartMock, TypeOK
    <3>3. ~Raises(bound.raw) /\ Connectable(parse_endpoint(bound.raw), af_unix)
      BY <3>1, <3>2, ListensReachably DEF TypeOK
    <3>4. QED
      BY <2>1, <3>1, <3>3 DEF StartMock, Goes, ExitInv, MockReachable
  <2>2. CASE NoForward \/ NoAdb \/ PrepareForward
    <3>1. mock = "off" /\ ~file /\ mpc' = "connect" /\ ~abandoned
          /\ UNCHANGED <<args, abandoned, mock, file, link, granted>>
          /\ mpc = "args"
      BY <2>2 DEF NoForward, NoAdb, PrepareForward, Settles, Goes, ExitInv, TypeOK
    <3>2. QED
      BY <3>1 DEF ExitInv, MockReachable
  <2>3. CASE PrintConfig \/ StartMockFails \/ BadEndpoint \/ ConnectFails
    BY <2>3 DEF PrintConfig, StartMockFails, BadEndpoint, ConnectFails, Goes, ExitInv,
                MockReachable, TypeOK
  <2>4. QED
    BY <1>2, <2>1, <2>2, <2>3 DEF Early
<1>3. CASE Late
  BY <1>3 DEF Late, Report, Abandons, ServeEnds, CloseBridge, StopMock, Goes, ExitInv, MockReachable
<1>4. CASE Assembly
  BY <1>4 DEF Assembly, ReadCaps, VerifyMounts, VerifyRestores, BindTools, Goes, ExitInv,
              MockReachable
<1>5. CASE Around
  BY <1>5 DEF Around, Unplug, AppStarts, LinkLost, ExitInv, MockReachable
<1>6. CASE Opens
  <2>1. /\ link' = "up" /\ Len(granted') = Len(granted) + 1 /\ Len(granted) \in Nat
        /\ UNCHANGED <<args, af_unix, abandoned, mock, file, endpoint>>
    BY <1>6, GrantShape, LenProperties DEF TypeOK
  <2>2. \/ mpc' = "caps" /\ mpc = "connect"
        \/ mpc' = mpc /\ mpc # "exit" /\ link = "lost"
    BY <1>6 DEF Opens, Connects, Reconnect, Goes
  <2>3. QED
    BY <2>1, <2>2 DEF ExitInv, MockReachable
<1>7. ASSUME NEW c \in Calls, Call(c)
      PROVE  ExitInv'
  BY <1>7, CallShape DEF ExitInv, MockReachable
<1>8. QED
  BY <1>1, <1>2, <1>3, <1>4, <1>5, <1>6, <1>7, NextCases

-----------------------------------------------------------------------------

LEMMA InitInv == Init => IInv
  BY TypeInit, EmptySeq DEF Init, IInv, MountInv, ExpertsAreMounted, GateInv,
                            GatedUnlessReconnected, Blamed, ExitInv, MockReachable

\* The inductive invariant of the host.
THEOREM Invariance == Spec => []IInv
<1>1. IInv /\ [Next]_vars => IInv'
  BY TypeStep, MountStep, GateStep, ExitStep DEF IInv
<1>2. QED
  BY InitInv, <1>1, PTL DEF Spec

\* The host's state stays well-formed.
THEOREM TypeCorrect == Spec => []TypeOK
<1>1. IInv => TypeOK
  BY DEF IInv
<1>2. QED
  BY Invariance, <1>1, PTL

\* No expert tool is served whose group was not asked for with --mount, though
\* verify_three_point_registration() mounts all of them.
THEOREM MountTheorem == Spec => []ExpertsAreMounted
<1>1. IInv => ExpertsAreMounted
  BY DEF IInv, MountInv
<1>2. QED
  BY Invariance, <1>1, PTL

\* RuntimeBridge's gate holds of the session that executes the call, unless the
\* link was lost and up again between the event loop and the thread, and only a
\* call that got past it is the caller's fault.
THEOREM GateTheorem == Spec => []GatedUnlessReconnected
<1>1. IInv => GatedUnlessReconnected
  BY DEF IInv, GateInv
<1>2. QED
  BY Invariance, <1>1, PTL

\* Wherever the mock server has ended up listening, a free port or a path, the
\* endpoint main() gives to the bridge leads there.
THEOREM ReachableTheorem == Spec => []MockReachable
<1>1. IInv => MockReachable
  BY DEF IInv, ExitInv
<1>2. QED
  BY Invariance, <1>1, PTL

\* main() stops the mock server it has started, with its socket, and closes the
\* link it has opened on every way out but where it abandons its work: by an
\* interrupt or an exception outside of its try statements.
THEOREM ExitTheorem == Spec => []ExitLeavesNothing
<1>1. IInv => ExitLeavesNothing
  BY DEF IInv, ExitInv, ExitLeavesNothing, TypeOK
<1>2. QED
  BY Invariance, <1>1, PTL

=============================================================================
