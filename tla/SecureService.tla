---------------------------- MODULE SecureService ----------------------------
(***************************************************************************)
(* The programs that talk over a SecureChannel.  In mode "demo" a client   *)
(* streams telemetry frames to a server (secure_transport_demo.cpp).  In   *)
(* mode "rpc" a cluster node dials another one and issues requests one at  *)
(* a time over the link it keeps (call_rpc), the other node's listener and *)
(* handler threads serve them (listener_loop, handle_inbound), and either  *)
(* node may be stopped (RaftNode::stop, animus_cluster.hpp).  The dialled  *)
(* node has no outbound link here and the dialling one no inbound channel. *)
(***************************************************************************)
EXTENDS SecureChannel, SequencesExt

CONSTANTS
    Modes,          \* the programs considered
    Frames,         \* frames a demo client sends
    ReqLens,        \* lengths of the requests of the rpc client, in order
    RespLen         \* length of a response

VARIABLES
    mode, pc,
    todo,           \* records of the send in progress
    given, got,     \* messages passed to send and returned by receive
    want,           \* length recv_message is waiting for
    lpc,            \* listener thread: "bind", "listen", "accepted", "exit"
    pending,        \* a connection waits in the listen queue
    running, stop,  \* dialled node: the flag, and the step of stop()
    registered,     \* the connection's channel is in inbound_channels_
    missed          \* history: registered after stop() closed the channels

progVars == <<mode, todo, given, got, want>>
nodeVars == <<lpc, pending, running, stop, registered, missed>>
vars == <<chanVars, mode, pc, todo, given, got, want, nodeVars>>

Init ==
    /\ ChannelInit
    /\ mode \in Modes
    /\ pc = [s \in Side |-> "off"]
    /\ todo = [s \in Side |-> <<>>]
    /\ given = [s \in Side |-> <<>>]
    /\ got = [s \in Side |-> <<>>]
    /\ want = [s \in Side |-> 0]
    /\ lpc = "bind" /\ pending = FALSE
    /\ running = TRUE /\ stop = "no" /\ registered = FALSE /\ missed = FALSE

Goto(s, step) == pc' = [pc EXCEPT ![s] = step]

\* An operation of s returned false.  Its program returns, which destroys the
\* channel, except on a handler thread: inbound_channels_ still owns it.
Fail(s) ==
    /\ Goto(s, "down")
    /\ IF mode = "rpc" /\ s = "server" THEN UNCHANGED chanVars ELSE Destroy(s)
    /\ UNCHANGED <<progVars, nodeVars>>

-----------------------------------------------------------------------------
(* Connecting *)

\* listen_on succeeds or throws; a node that cannot listen is not running.
listen_on ==
    /\ lpc = "bind"
    /\ \/ lpc' = "listen" /\ UNCHANGED running
       \/ lpc' = "exit" /\ running' = FALSE
    /\ UNCHANGED <<chanVars, pc, progVars, pending, stop, registered, missed>>

\* connect_to: connected, or refused or timed out.  The demo client waits
\* until the server listens.
connect_to ==
    /\ pc["client"] = "off"
    /\ mode = "demo" => lpc = "listen"
    /\ \/ /\ lpc \in {"listen", "accepted"} /\ running
          /\ Goto("client", "context")
          /\ pending' = TRUE
          /\ sock' = [sock EXCEPT !["client"] = "open"]
       \/ /\ Goto("client", "down")
          /\ sock' = [sock EXCEPT !["client"] = "closed"]
          /\ UNCHANGED pending
    /\ UNCHANGED <<net, have_context, in_buf, handshake_done_, recv_buf_, plaintext_buf_, sealed, opened, cert, earlyLost,
                   progVars, lpc, running, stop, registered, missed>>

\* accept_one returns a connection, or fails because the listener is closed.
accept_one ==
    /\ lpc = "listen"
    /\ \/ /\ pending
          /\ lpc' = "accepted"
          /\ pending' = FALSE
          /\ sock' = [sock EXCEPT !["server"] = "open"]
       \/ /\ ~running
          /\ lpc' = "exit"
          /\ UNCHANGED <<pending, sock>>
    /\ UNCHANGED <<net, have_context, in_buf, handshake_done_, recv_buf_, plaintext_buf_, sealed, opened, cert, earlyLost,
                   pc, progVars, running, stop, registered, missed>>

\* The listener registers the channel and starts its handler thread.
StartHandler ==
    /\ lpc = "accepted"
    /\ lpc' = IF running THEN "listen" ELSE "exit"
    /\ registered' = TRUE
    /\ missed' = (stop \in {"joining", "stopped"})
    /\ Goto("server", "receive")
    /\ UNCHANGED <<chanVars, progVars, pending, running, stop>>

-----------------------------------------------------------------------------
(* Handshake and identity *)

StartStep(s) == IF s = "client" THEN "context" ELSE "receive"

\* AcquireCredentialsHandle refuses the certificate.
CredentialsFail(s) ==
    /\ pc[s] = StartStep(s) /\ ~have_context[s] /\ in_buf[s] = <<>>
    /\ Fail(s)

handshake_as_client ==
    /\ pc["client"] = "context"
    /\ LET c == Context("client")
       IN  /\ ~(c.out # <<>> /\ SendFails("client"))
           /\ HandshakeTurn("client", c)
           /\ Goto("client", IF c.status # "ok" THEN AfterContinue("client", c)
                             ELSE IF finish_handshake("client") THEN "verify" ELSE "closing")
    /\ UNCHANGED <<progVars, nodeVars>>

handshake_as_server ==
    /\ pc["server"] = "context"
    /\ LET c == Context("server")
       IN  /\ ~(c.out # <<>> /\ SendFails("server"))
           /\ HandshakeTurn("server", c)
           /\ Goto("server", IF c.status # "ok" THEN AfterContinue("server", c)
                             ELSE IF finish_handshake("server") THEN "verify" ELSE "closing")
    /\ UNCHANGED <<progVars, nodeVars>>

HandshakeSendFails(s) ==
    /\ pc[s] = "context" /\ Context(s).out # <<>> /\ SendMayFail(s)
    /\ Fail(s)

HandshakeRecv(s) ==
    /\ pc[s] = "receive"
    /\ \E chunk \in recv_some(s) :
          /\ HandshakeReceive(s, chunk)
          /\ Goto(s, "context")
    /\ UNCHANGED <<progVars, nodeVars>>

\* The peer's certificate is checked before anything is sent or dispatched:
\* the chain, and then who it names (a demo client only checks the chain).
Accepts(s, c) ==
    /\ verify_certificate_chain(c)
    /\ (mode = "demo" /\ s = "client") \/ resolve(c)

CheckPeer(s) ==
    /\ pc[s] = "verify"
    /\ IF Accepts(s, cert[Peer(s)])
       THEN Goto(s, IF s = "client" THEN "ready" ELSE "await") /\ UNCHANGED <<chanVars, progVars, nodeVars>>
       ELSE Fail(s)

\* finish_handshake or the program failed and the program returns.
Closing(s) == pc[s] = "closing" /\ Fail(s)

-----------------------------------------------------------------------------
(* Sending *)

BeginSend(s, m, len, records) ==
    /\ given' = [given EXCEPT ![s] = Append(@, Payload(m, len))]
    /\ todo' = [todo EXCEPT ![s] = records]
    /\ Goto(s, "sending")

\* The demo client sends its frames and lets go of the channel; call_rpc
\* sends the next request.
ClientTurn ==
    /\ pc["client"] = "ready"
    /\ LET m == Len(given["client"]) + 1
       IN  \/ /\ mode = "demo" /\ m <= Frames
              /\ BeginSend("client", m, FrameSize, send_frame(m))
              /\ UNCHANGED <<chanVars, mode, got, want, nodeVars>>
           \/ /\ mode = "demo" /\ m > Frames
              /\ Destroy("client")
              /\ Goto("client", "down")
              /\ UNCHANGED <<progVars, nodeVars>>
           \/ /\ mode = "rpc" /\ m <= Len(ReqLens)
              /\ BeginSend("client", m, ReqLens[m], send_message(m, ReqLens[m]))
              /\ UNCHANGED <<chanVars, mode, got, want, nodeVars>>

SendRecord(s) ==
    /\ pc[s] = "sending" /\ todo[s] # <<>> /\ ~SendFails(s)
    /\ SealAndSend(s, Head(todo[s]))
    /\ todo' = [todo EXCEPT ![s] = Tail(@)]
    /\ IF Len(todo[s]) > 1 THEN UNCHANGED pc
       ELSE Goto(s, IF mode = "demo" THEN "ready" ELSE "await")
    /\ UNCHANGED <<mode, given, got, want, nodeVars>>

SendBreaks(s) == pc[s] = "sending" /\ SendMayFail(s) /\ Fail(s)

-----------------------------------------------------------------------------
(* Receiving *)

Receiving(s) == pc[s] \in {"await", "body"}

\* Whether recv_exact already has what is asked for.
Buffered(s) ==
    mode = "rpc" /\ Len(plaintext_buf_[s]) >= (IF pc[s] = "await" THEN 1 ELSE want[s])

RecordRecv(s) ==
    /\ Receiving(s) /\ ~Buffered(s) /\ "incomplete" \in DecryptStatus(s)
    /\ \E chunk \in recv_some(s) : RecordReceive(s, chunk)
    /\ UNCHANGED <<pc, progVars, nodeVars>>

\* The socket failed or ended while the program was reading.
RecvBreaks(s) ==
    /\ \/ pc[s] = "receive"
       \/ Receiving(s) /\ ~Buffered(s) /\ "incomplete" \in DecryptStatus(s)
    /\ RecvFails(s)
    /\ Fail(s)

\* A record that cannot be opened, and the peer's close_notify.
RecordRefused(s) ==
    /\ Receiving(s) /\ ~Buffered(s)
    /\ DecryptStatus(s) \cap {"error", "expired"} # {}
    /\ Fail(s)

FrameArrives ==
    /\ mode = "demo" /\ pc["server"] = "await" /\ DecryptStatus("server") = {"ok"}
    /\ IF Len(recv_buf_["server"][1].rec.data) = FrameSize
       THEN /\ recv_frame("server")
            /\ got' = [got EXCEPT !["server"] = Append(@, recv_buf_["server"][1].rec.data)]
            /\ Goto("server", IF Len(got["server"]) + 1 = Frames THEN "closing" ELSE "await")
            /\ UNCHANGED <<mode, todo, given, want, nodeVars>>
       ELSE Fail("server")

RecordOpened(s) ==
    /\ mode = "rpc" /\ Receiving(s) /\ ~Buffered(s) /\ DecryptStatus(s) = {"ok"}
    /\ decrypt_one_record(s)
    /\ UNCHANGED <<pc, progVars, nodeVars>>

\* recv_message: the length prefix, then that many bytes.
LengthArrives(s) ==
    /\ pc[s] = "await" /\ Buffered(s)
    /\ want' = [want EXCEPT ![s] = plaintext_buf_[s][1].v]
    /\ recv_exact(s, 1)
    /\ Goto(s, "body")
    /\ UNCHANGED <<mode, todo, given, got, nodeVars>>

\* The client has its response; the handler returns on an empty request and
\* otherwise answers (dispatch_request).
recv_message(s) ==
    /\ pc[s] = "body" /\ Buffered(s)
    /\ recv_exact(s, want[s])
    /\ got' = [got EXCEPT ![s] = Append(@, SubSeq(plaintext_buf_[s], 1, want[s]))]
    /\ IF s = "client" THEN Goto(s, "ready") /\ UNCHANGED <<given, todo>>
       ELSE IF want[s] = 0 THEN Goto(s, "closing") /\ UNCHANGED <<given, todo>>
       ELSE LET m == Len(given[s]) + 1 IN BeginSend(s, m, RespLen, send_message(m, RespLen))
    /\ UNCHANGED <<mode, want, nodeVars>>

-----------------------------------------------------------------------------
(* Stopping a node *)

\* stop() does nothing on a node that is not running, ...
StopNotRunning ==
    /\ mode = "rpc" /\ stop = "no" /\ ~running
    /\ stop' = "returned"
    /\ UNCHANGED <<chanVars, pc, progVars, lpc, pending, running, registered, missed>>

\* ... on a dialled node that runs it clears running_ and closes the listener (a
\* connection still in its queue is reset), ...
StopBegins ==
    /\ mode = "rpc" /\ stop = "no" /\ running
    /\ running' = FALSE
    /\ stop' = "closing"
    /\ pending' = FALSE
    /\ sock' = IF pending THEN [sock EXCEPT !["server"] = "closed"] ELSE sock
    /\ UNCHANGED <<net, have_context, in_buf, handshake_done_, recv_buf_, plaintext_buf_, sealed, opened, cert, earlyLost,
                   pc, progVars, lpc, registered, missed>>

\* Mutant: the inbound channels are left alone.
StopForceCloses_Skipped ==
    /\ stop = "closing"
    /\ stop' = "joining"
    /\ UNCHANGED <<chanVars, pc, progVars, lpc, pending, running, registered, missed>>

\* ... force-closes the inbound channels registered so far, ...
StopForceCloses ==
    /\ stop = "closing"
    /\ stop' = "joining"
    /\ IF registered THEN force_close("server") ELSE UNCHANGED chanVars
    /\ UNCHANGED <<pc, progVars, lpc, pending, running, registered, missed>>

\* ... joins the listener and the handlers, and drops the channels.
StopJoins ==
    /\ stop = "joining" /\ lpc = "exit" /\ pc["server"] \in {"off", "down"}
    /\ stop' = "stopped"
    /\ IF registered THEN Destroy("server") ELSE UNCHANGED chanVars
    /\ UNCHANGED <<pc, progVars, lpc, pending, running, registered, missed>>

\* The dialling node's stop(): it takes the link's mutex, which call_rpc
\* holds for the whole call, and drops the channel.
StopDialler ==
    /\ mode = "rpc" /\ pc["client"] = "ready"
    /\ Destroy("client")
    /\ Goto("client", "down")
    /\ UNCHANGED <<progVars, nodeVars>>

-----------------------------------------------------------------------------

SideStep(s) ==
    \/ HandshakeSendFails(s) \/ HandshakeRecv(s) \/ CheckPeer(s) \/ Closing(s)
    \/ SendRecord(s) \/ SendBreaks(s)
    \/ RecordRecv(s) \/ RecvBreaks(s) \/ RecordRefused(s) \/ RecordOpened(s)
    \/ LengthArrives(s) \/ recv_message(s)

ClientStep == handshake_as_client \/ ClientTurn \/ SideStep("client")
ServerStep == handshake_as_server \/ FrameArrives \/ SideStep("server")
Listener == listen_on \/ accept_one \/ StartHandler
Stopping == StopForceCloses \/ StopJoins

Next ==
    \/ connect_to \/ ClientStep \/ ServerStep \/ Listener
    \/ \E s \in Side : CredentialsFail(s)
    \/ StopBegins \/ StopNotRunning \/ Stopping \/ StopDialler

\* Threads keep running; a node need not be stopped.
Spec == /\ Init /\ [][Next]_vars
        /\ WF_vars(connect_to) /\ WF_vars(ClientStep) /\ WF_vars(ServerStep) /\ WF_vars(Listener) /\ WF_vars(Stopping)

-----------------------------------------------------------------------------
(* Properties *)

\* What a program receives is what its peer sent, whole and in order: the
\* results of recv_frame and recv_message are a prefix of the frames or
\* messages the peer passed to send, however recv() cut and joined records.
ReceivedIsPrefix ==
    \A s \in Side : IsPrefix(got[s], given[Peer(s)])

\* The demo's own check (server_frames_accepted == TOTAL_FRAMES): a client that
\* sent all its frames to a server that accepted it loses none, unless bytes
\* read together with the client's last handshake token were discarded.
FramesLostOnlyEarly ==
    (/\ mode = "demo" /\ Len(given["client"]) = Frames /\ todo["client"] = <<>>
     /\ \A s \in Side : pc[s] = "down"
     /\ handshake_done_["server"] /\ Accepts("server", cert["client"]))
        => got["server"] = given["client"] \/ earlyLost["server"]

InCall == mode = "rpc" /\ pc["client"] \notin {"off", "ready", "down"}
HandlerLeft == pc["server"] = "down" /\ sock["server"] = "open"

\* Both ends of a demo connection finish, whichever step fails at either end.
\* call_rpc has no timeout on its reads and holds the link's mutex, which
\* stop() needs: it returns unless the handler at the other end has returned
\* and left its socket open, or the request's first bytes were discarded.
CallReturns ==
    /\ (mode = "demo" /\ sock["client"] = "open" /\ pc["client"] = "context") ~> (\A s \in Side : pc[s] = "down")
    /\ InCall ~> (~InCall \/ HandlerLeft \/ earlyLost["server"])

\* stop() comes back: every handler it waits for was unblocked by the closing
\* of its socket, unless the listener registered a connection after that pass.
StopReturns ==
    (stop = "closing") ~> (stop = "stopped" \/ missed)
=============================================================================
