---------------------------- MODULE SecureChannel ----------------------------
(***************************************************************************)
(* One TCP connection with a SecureChannel at each end                     *)
(* (AnimusCore_v1/animus_transport.hpp): the TLS handshake loops, records  *)
(* cut and joined by the socket, frames, length-prefixed messages.         *)
(*                                                                         *)
(* A record travels as two units, so a recv() may return part of a record, *)
(* one, or several.  Schannel is external: a record sealed by one end      *)
(* opens at the other only in the order of sealing, and a read that does   *)
(* not start on a record boundary is either taken for an incomplete record *)
(* or refused.  Plaintext bytes are [m, b, v]: byte b of message m, the    *)
(* byte 0 standing for the length prefix and carrying the length as v.     *)
(***************************************************************************)
EXTENDS Integers, Sequences

CONSTANTS
    MaxMsg,         \* stream_sizes_.cbMaximumMessage, in bytes
    FrameSize       \* sizeof(WireFrame), in bytes

ASSUME MaxMsgAssumption == MaxMsg \in Nat \ {0} /\ FrameSize \in Nat \ {0}

Side == {"client", "server"}
Peer(s) == IF s = "client" THEN "server" ELSE "client"

VARIABLES
    sock,               \* "none" before connect or accept, "open", "closed"
    net,                \* units on their way to a side
    have_context, in_buf,               \* locals of the handshake loops
    handshake_done_, recv_buf_, plaintext_buf_,
    sealed, opened,     \* records each end has encrypted and decrypted
    cert,               \* the certificate each end presents
    earlyLost           \* history: input beyond the handshake was discarded

chanVars == <<sock, net, have_context, in_buf, handshake_done_, recv_buf_, plaintext_buf_, sealed, opened, cert, earlyLost>>

CertKind == {"none", "untrusted", "unknown", "known"}

ChannelInit ==
    /\ sock = [s \in Side |-> "none"]
    /\ net = [s \in Side |-> <<>>]
    /\ have_context = [s \in Side |-> FALSE]
    /\ in_buf = [s \in Side |-> <<>>]
    /\ handshake_done_ = [s \in Side |-> FALSE]
    /\ recv_buf_ = [s \in Side |-> <<>>]
    /\ plaintext_buf_ = [s \in Side |-> <<>>]
    /\ sealed = [s \in Side |-> 0]
    /\ opened = [s \in Side |-> 0]
    /\ cert \in [Side -> CertKind]
    /\ earlyLost = [s \in Side |-> FALSE]

Units(rec) == <<[rec |-> rec, half |-> 1], [rec |-> rec, half |-> 2]>>
Token(t) == [kind |-> t, seq |-> 0, data |-> <<>>]

-----------------------------------------------------------------------------
(* TcpSocket *)

\* What the socket holds for s after s sends the units: they wait for a peer
\* that has not accepted yet, and vanish at one that has closed.
send_all(s, units) ==
    IF sock[Peer(s)] = "closed" THEN net ELSE [net EXCEPT ![Peer(s)] = @ \o units]

SendFails(s) == sock[s] = "closed"
SendMayFail(s) == sock[s] = "closed" \/ sock[Peer(s)] = "closed"

\* recv_some: any part of what has arrived, or an end once nothing can arrive.
recv_some(s) == IF sock[s] = "open" THEN {SubSeq(net[s], 1, n) : n \in 1..Len(net[s])} ELSE {}
RecvFails(s) == sock[s] = "closed" \/ (net[s] = <<>> /\ sock[Peer(s)] = "closed")
Taken(s, chunk) == [net EXCEPT ![s] = SubSeq(@, Len(chunk) + 1, Len(@))]

-----------------------------------------------------------------------------
(* Handshake *)

\* InitializeSecurityContext (client) and AcceptSecurityContext (server) on
\* the buffered input: status, the token to send, the units consumed.
Context(s) ==
    IF s = "client" /\ ~have_context[s] THEN [status |-> "continue", out |-> Units(Token("ClientHello")), used |-> 0]
    ELSE IF Len(in_buf[s]) < 2 THEN [status |-> "incomplete", out |-> <<>>, used |-> 0]
    ELSE CASE in_buf[s][1].rec.kind = "ClientHello" -> [status |-> "continue", out |-> Units(Token("ServerFlight")), used |-> 2]
           [] in_buf[s][1].rec.kind = "ServerFlight" -> [status |-> "ok", out |-> Units(Token("ClientFinished")), used |-> 2]
           [] OTHER -> [status |-> "ok", out |-> <<>>, used |-> 2]

\* What is left of the input: the bytes tagged SECBUFFER_EXTRA, or everything
\* when the record is not complete yet.
consume_input_buffer(buf, c) ==
    IF c.used > 0 /\ Len(buf) > c.used THEN SubSeq(buf, c.used + 1, Len(buf))
    ELSE IF c.status = "incomplete" THEN buf ELSE <<>>

\* The peer must have presented a certificate.
finish_handshake(s) == cert[Peer(s)] # "none"

\* Where the loop continues after a call that needs more: the server goes on
\* with input it already has, the client always reads.
AfterContinue(s, c) ==
    IF s = "server" /\ c.status = "continue" /\ consume_input_buffer(in_buf[s], c) # <<>> THEN "context" ELSE "receive"

\* One turn of a handshake loop up to the next recv(): the result is the step
\* the loop goes to.  The input buffer is a local: what it still holds when
\* the handshake is complete goes away with it.
HandshakeTurn(s, c) ==
    LET rest == consume_input_buffer(in_buf[s], c)
        complete == c.status = "ok" /\ finish_handshake(s)
    IN  /\ net' = IF c.out = <<>> THEN net ELSE send_all(s, c.out)
        /\ have_context' = [have_context EXCEPT ![s] = TRUE]
        /\ in_buf' = [in_buf EXCEPT ![s] = IF c.status = "ok" THEN <<>> ELSE rest]
        /\ handshake_done_' = [handshake_done_ EXCEPT ![s] = complete]
        /\ earlyLost' = [earlyLost EXCEPT ![s] = c.status = "ok" /\ rest # <<>>]
        /\ UNCHANGED <<sock, recv_buf_, plaintext_buf_, sealed, opened, cert>>

HandshakeReceive(s, chunk) ==
    /\ in_buf' = [in_buf EXCEPT ![s] = @ \o chunk]
    /\ net' = Taken(s, chunk)
    /\ UNCHANGED <<sock, have_context, handshake_done_, recv_buf_, plaintext_buf_, sealed, opened, cert, earlyLost>>

-----------------------------------------------------------------------------
(* Records *)

\* The chunks send_raw cuts a buffer into, one record each.
send_raw(data) ==
    [i \in 1..((Len(data) + MaxMsg - 1) \div MaxMsg) |->
        SubSeq(data, (i - 1) * MaxMsg + 1, IF i * MaxMsg < Len(data) THEN i * MaxMsg ELSE Len(data))]

\* The records of a frame and of a message: the length prefix is one of its own.
send_frame(m) == <<[b \in 1..FrameSize |-> [m |-> m, b |-> b, v |-> 0]]>>
Payload(m, len) == [b \in 1..len |-> [m |-> m, b |-> b, v |-> 0]]
send_message(m, len) == <<<<[m |-> m, b |-> 0, v |-> len]>>>> \o send_raw(Payload(m, len))

SealAndSend(s, data) ==
    /\ net' = send_all(s, Units([kind |-> "data", seq |-> sealed[s], data |-> data]))
    /\ sealed' = [sealed EXCEPT ![s] = @ + 1]
    /\ UNCHANGED <<sock, have_context, in_buf, handshake_done_, recv_buf_, plaintext_buf_, opened, cert, earlyLost>>

\* DecryptMessage on the receive buffer.
DecryptStatus(s) ==
    LET buf == recv_buf_[s]
    IN  IF buf # <<>> /\ buf[1].half # 1 THEN {"incomplete", "error"}
        ELSE IF Len(buf) < 2 THEN {"incomplete"}
        ELSE IF buf[1].rec.kind # "close" /\ buf[1].rec.seq = opened[s] THEN {"ok"}
        ELSE IF buf[1].rec.kind = "close" /\ buf[1].rec.seq = opened[s] THEN {"expired"}
        ELSE {"error"}

\* Reads more when the buffer is empty or holds no complete record.
RecordReceive(s, chunk) ==
    /\ recv_buf_' = [recv_buf_ EXCEPT ![s] = @ \o chunk]
    /\ net' = Taken(s, chunk)
    /\ UNCHANGED <<sock, have_context, in_buf, handshake_done_, plaintext_buf_, sealed, opened, cert, earlyLost>>

\* Mutant: what follows the record in the buffer is dropped.
Extra_Dropped(s) == <<>>

\* SECBUFFER_EXTRA: what follows the first record in the buffer.
Extra(s) == SubSeq(recv_buf_[s], 3, Len(recv_buf_[s]))

\* recv_frame returns the data of one record, which must be one frame.
recv_frame(s) ==
    /\ recv_buf_' = [recv_buf_ EXCEPT ![s] = Extra(s)]
    /\ opened' = [opened EXCEPT ![s] = @ + 1]
    /\ UNCHANGED <<sock, net, have_context, in_buf, handshake_done_, plaintext_buf_, sealed, cert, earlyLost>>

\* Mutant: what follows the record in the buffer is dropped.
decrypt_one_record_DropsExtra(s) ==
    /\ plaintext_buf_' = [plaintext_buf_ EXCEPT ![s] = @ \o recv_buf_[s][1].rec.data]
    /\ recv_buf_' = [recv_buf_ EXCEPT ![s] = <<>>]
    /\ opened' = [opened EXCEPT ![s] = @ + 1]
    /\ UNCHANGED <<sock, net, have_context, in_buf, handshake_done_, sealed, cert, earlyLost>>

decrypt_one_record(s) ==
    /\ plaintext_buf_' = [plaintext_buf_ EXCEPT ![s] = @ \o recv_buf_[s][1].rec.data]
    /\ recv_buf_' = [recv_buf_ EXCEPT ![s] = Extra(s)]
    /\ opened' = [opened EXCEPT ![s] = @ + 1]
    /\ UNCHANGED <<sock, net, have_context, in_buf, handshake_done_, sealed, cert, earlyLost>>

\* Mutant: the bytes handed out stay in the buffer.
recv_exact_KeepsAll(s, n) ==
    UNCHANGED chanVars

\* recv_exact hands out the first n bytes and keeps the rest.
recv_exact(s, n) ==
    /\ plaintext_buf_' = [plaintext_buf_ EXCEPT ![s] = SubSeq(@, n + 1, Len(@))]
    /\ UNCHANGED <<sock, net, have_context, in_buf, handshake_done_, recv_buf_, sealed, opened, cert, earlyLost>>

\* Mutant: the socket stays open.
Destroy_LeaksSocket(s) == UNCHANGED chanVars

\* The destructor: close_notify after a completed handshake, then the socket.
Destroy(s) ==
    /\ net' = IF handshake_done_[s] /\ sock[s] = "open"
              THEN send_all(s, Units([kind |-> "close", seq |-> sealed[s], data |-> <<>>]))
              ELSE net
    /\ sock' = [sock EXCEPT ![s] = "closed"]
    /\ UNCHANGED <<have_context, in_buf, handshake_done_, recv_buf_, plaintext_buf_, sealed, opened, cert, earlyLost>>

\* force_close, from a thread other than the one that uses the channel.
force_close(s) ==
    /\ sock' = [sock EXCEPT ![s] = "closed"]
    /\ UNCHANGED <<net, have_context, in_buf, handshake_done_, recv_buf_, plaintext_buf_, sealed, opened, cert, earlyLost>>

\* verify_certificate_chain against the one trusted root, and the lookup of
\* the subject's common name.
verify_certificate_chain(c) == c \in {"unknown", "known"}
resolve(c) == c = "known"
=============================================================================
