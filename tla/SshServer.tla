------------------------------ MODULE SshServer ------------------------------
(***************************************************************************)
(* The SSH server of net/ssh_server.c: one session at a time, driven by    *)
(* the callbacks of lwIP and by ssh_server_poll().  Everything runs in the *)
(* io2_net thread, so a callback or a poll is one step.                    *)
(*                                                                         *)
(* lwIP and wolfSSH are external: a connection is its state, the callbacks *)
(* hooked on it and the output it still holds; wolfSSH is the state of its *)
(* channel and the one packet it keeps when TCP has no room.  A unit of rx *)
(* is an SSH packet, a unit of tx what one command prints.                 *)
(***************************************************************************)
EXTENDS Naturals, Sequences, FiniteSetsExt, Functions

CONSTANTS
  Pcb, NoPcb,      \* lwIP's control blocks; the null pointer
  RxRing, TxRing,  \* SSH_RX_RING and SSH_TX_RING, in units
  SndBuf,          \* TCP_SND_BUF, in units
  Reads,           \* the guard of the read loop
  MaxPackets       \* bound of the model: packets a client sends

ASSUME SshServerAssumption ==
  /\ NoPcb \notin Pcb
  /\ {RxRing, TxRing, SndBuf, Reads, MaxPackets} \subseteq Nat \ {0}

VARIABLES
  s_sess,       \* the session
  s_ssh,        \* wolfSSH's object: state of the channel, packet held back
  conn          \* of each control block: its state ("halved" once the client's
                \* FIN is in, "closing" once the server has closed), the
                \* server's callbacks on it, output not acknowledged, what its
                \* client has come to and how many packets that took, whether
                \* input was lost, and output thrown away by the close

vars == <<s_sess, s_ssh, conn>>

IdleSession == [pcb |-> NoPcb, state |-> "IDLE", want_close |-> FALSE,
                rx |-> <<>>, tx |-> 0]
NoSsh       == [chan |-> "null", held |-> 0]
AllHooks    == {"recv", "err", "poll"}
Free        == [tcp |-> "free", hooks |-> {}, queued |-> 0, client |-> "none",
                packets |-> 0, lost |-> FALSE, cut |-> 0]

Init == s_sess = IdleSession /\ s_ssh = NoSsh /\ conn = [p \in Pcb |-> Free]

Me == s_sess.pcb

-----------------------------------------------------------------------------
\* Seeded fault: the callbacks stay on the connection.
Closing_keepsHooks(c, wasted) ==
  [Free EXCEPT !.tcp = "closing", !.hooks = c.hooks, !.cut = wasted,
               !.client = IF c.client \in {"closed", "vanished"} THEN c.client ELSE "ended"]

\* What TCP keeps of a connection closed by the server: only its end matters.
Closing(c, wasted) ==
  [Free EXCEPT !.tcp = "closing", !.hooks = c.hooks \ {"recv", "err"}, !.cut = wasted,
               !.client = IF c.client \in {"closed", "vanished"} THEN c.client ELSE "ended"]

\* The server closes its session: wolfSSH's object goes, the callbacks but
\* the poll are unhooked, TCP is asked to close, everything is zeroed.
\* wasted counts the output that nobody will send any more.
ssh_close_session(wasted) ==
  /\ s_ssh' = NoSsh
  /\ conn' = [conn EXCEPT ![Me] = Closing(@, wasted)]
  /\ s_sess' = IdleSession

\* Output enters the ring as far as there is room.
ssh_shell_out(tx, units) == Min({tx + units, TxRing})

\* The prefix of rx up to and with the first packet of a kind in ends.
UpTo(rx, ends) ==
  LET stops == {i \in DOMAIN rx : rx[i] \in ends}
  IN IF stops = {} THEN Len(rx) ELSE Min(stops)

-----------------------------------------------------------------------------
\* wolfSSH reads handshake packets until the client asks for a shell or for
\* sftp, until the ring is empty, or until a packet that ends the handshake.
AdvanceAccept ==
  /\ s_sess.state = "ACCEPT"
  /\ LET n    == UpTo(s_sess.rx, {"shell", "sftp", "alien", "garbage"})
         read == Range(SubSeq(s_sess.rx, 1, n))
         rest == SubSeq(s_sess.rx, n + 1, Len(s_sess.rx))
     IN \/ /\ "shell" \in read
           /\ s_sess' = [s_sess EXCEPT !.state = "RUN", !.rx = rest,
                                       !.tx = ssh_shell_out(@, 1)]
           /\ s_ssh' = [s_ssh EXCEPT !.chan = "open"] /\ UNCHANGED conn
        \/ /\ "sftp" \in read
           /\ s_sess' = [s_sess EXCEPT !.state = "SFTP", !.rx = rest]
           /\ s_ssh' = [s_ssh EXCEPT !.chan = "open"] /\ UNCHANGED conn
        \/ read \cap {"alien", "garbage"} # {} /\ ssh_close_session(0)
        \/ /\ read \cap {"shell", "sftp", "alien", "garbage"} = {}
           /\ s_sess' = [s_sess EXCEPT !.rx = rest] /\ UNCHANGED <<s_ssh, conn>>

\* What wolfSSH makes of the end of the client's channel, or of a client that
\* begins to exchange keys again.  Its own EOF, which stops further output, is
\* on record only once TCP has taken it.
Channel(read) ==
  CASE "close" \in read -> "closed"
    [] "rekey" \in read -> "keying"
    [] "eof" \in read -> IF conn[Me].queued < SndBuf THEN "eof" ELSE "half"
    [] OTHER -> s_ssh.chan

\* ssh_flush_tx(): the packet held back goes first; one packet more than TCP
\* has room for is taken and held back.  Nothing is sent on a dead channel, nor
\* while keys are exchanged.
ssh_flush_tx(chan, tx) ==
  LET room == SndBuf - conn[Me].queued
      kept == s_ssh.held
      out  == IF chan \notin {"open", "half"} \/ kept > room THEN 0
              ELSE Min({tx, room - kept + 1})
      sent == IF out = 0 THEN 0 ELSE Min({room, kept + out})
  IN [tx |-> tx - out, held |-> kept + out - sent, sent |-> sent]

\* Seeded fault: closes without waiting for the ring.
MayClose_early(want, tx) == want

\* The session closes once that is wanted and its ring is empty.
MayClose(want, tx) == want /\ tx = 0

\* The shell: read, execute, print, and close if that is wanted and nothing
\* is left in the ring.
AdvanceRun ==
  /\ s_sess.state = "RUN"
  /\ LET dead  == s_ssh.chan # "open"
         n     == IF dead THEN 0
                  ELSE Min({Reads, UpTo(s_sess.rx, {"eof", "close", "rekey", "garbage"})})
         input == SubSeq(s_sess.rx, 1, n)
         ended == dead \/ Range(input) \cap {"eof", "close", "garbage"} # {}
         lines == Cardinality({i \in DOMAIN input : input[i] \in {"line", "quit"}})
         want  == s_sess.want_close \/ ended \/ "quit" \in Range(input)
         chan  == Channel(Range(input))
         flush == ssh_flush_tx(chan, ssh_shell_out(s_sess.tx, lines))
     IN IF MayClose(want, flush.tx)
        THEN ssh_close_session(flush.held + flush.tx)
        ELSE /\ s_sess' = [s_sess EXCEPT !.want_close = want, !.tx = flush.tx,
                             !.rx = SubSeq(@, n + 1, Len(@))]
             /\ s_ssh' = [chan |-> chan, held |-> flush.held]
             /\ conn' = [conn EXCEPT ![Me].queued = @ + flush.sent]

SftpEnds == {"eof", "close", "garbage"}
Requests(rx, n) == Cardinality({i \in 1 .. n : rx[i] = "request"})

\* The SFTP pump: requests are served one by one, until one ends the session
\* or a reply does not fit into TCP: wolfSSH parks it, and reads nothing more
\* before it is out.
SftpPump(rx, room, kept) ==
  LET n       == IF kept > room THEN 0
                 ELSE Min({Min({Reads - kept, room - kept + 1}), UpTo(rx, SftpEnds)})
      replies == kept + Requests(rx, n)
      sent    == Min({room, replies})
  IN [read |-> n, held |-> replies - sent, sent |-> sent]

\* The session closes once that is wanted, parked reply or not.
AdvanceSftp ==
  /\ s_sess.state = "SFTP"
  /\ LET pump == SftpPump(s_sess.rx, SndBuf - conn[Me].queued, s_ssh.held)
         read == Range(SubSeq(s_sess.rx, 1, pump.read))
     IN IF s_sess.want_close \/ read \cap SftpEnds # {}
        THEN ssh_close_session(pump.held)
        ELSE /\ s_sess' = [s_sess EXCEPT !.rx = SubSeq(@, pump.read + 1, Len(@))]
             /\ s_ssh' = [s_ssh EXCEPT !.held = pump.held]
             /\ conn' = [conn EXCEPT ![Me].queued = @ + pump.sent]

ssh_advance == AdvanceAccept \/ AdvanceRun \/ AdvanceSftp

\* The network loop polls while a session is active: in every state but IDLE.
ssh_server_poll == s_sess.state \in {"ACCEPT", "RUN", "SFTP"} /\ ssh_advance

\* The slow timer of lwIP polls every connection that still has the hook, the
\* one just closed included; the callback advances whatever session there is.
ssh_tcp_poll(p) ==
  conn[p].tcp # "free" /\ "poll" \in conn[p].hooks /\ ssh_advance

-----------------------------------------------------------------------------
\* Seeded fault: takes over the session without looking at its state.
ssh_tcp_accept_busy(p) ==
  /\ conn[p].tcp = "free"
  /\ s_sess' = [IdleSession EXCEPT !.pcb = p, !.state = "ACCEPT"]
  /\ s_ssh' = [chan |-> "none", held |-> 0]
  /\ conn' = [conn EXCEPT ![p] = [Free EXCEPT !.tcp = "open", !.hooks = AllHooks,
                                              !.client = "greeting"]]

\* A client connects while there is no session; otherwise its connection is
\* aborted and nothing changes.
ssh_tcp_accept(p) ==
  /\ conn[p].tcp = "free"
  /\ s_sess.state = "IDLE"
  /\ s_sess' = [IdleSession EXCEPT !.pcb = p, !.state = "ACCEPT"]
  /\ s_ssh' = [chan |-> "none", held |-> 0]
  /\ conn' = [conn EXCEPT ![p] = [Free EXCEPT !.tcp = "open", !.hooks = AllHooks,
                                              !.client = "greeting"]]

\* What a well-behaved client sends, and where that leaves it.
Sends(phase) ==
  CASE phase = "greeting" -> {<<"hs", phase>>, <<"alien", "ended">>,
                              <<"shell", "shell">>, <<"sftp", "sftp">>}
    [] phase = "shell" -> {<<"line", phase>>, <<"quit", phase>>, <<"rekey", "ended">>,
                           <<"eof", "ended">>, <<"close", "ended">>}
    [] phase = "sftp" -> {<<"request", phase>>, <<"eof", "ended">>, <<"close", "ended">>}
    [] OTHER -> {}

\* Seeded fault: writes past the unread bytes.
rx_push_unbounded(p, kind) ==
  [s_sess EXCEPT !.rx = Append(@, IF conn[p].lost THEN "garbage" ELSE kind)]

\* rx_push(): a packet that does not fit is dropped, although lwIP is told
\* that it was taken; what follows it cannot be decrypted.
rx_push(p, kind) ==
  IF Len(s_sess.rx) = RxRing THEN s_sess
  ELSE [s_sess EXCEPT !.rx = Append(@, IF conn[p].lost THEN "garbage" ELSE kind)]

ssh_tcp_recv(p) ==
  /\ conn[p].tcp = "open" /\ "recv" \in conn[p].hooks /\ conn[p].packets < MaxPackets
  /\ \E m \in Sends(conn[p].client) :
       /\ s_sess' = rx_push(p, m[1])
       /\ conn' = [conn EXCEPT ![p].client = m[2], ![p].packets = @ + 1,
                               ![p].lost = @ \/ Len(s_sess.rx) = RxRing]
  /\ UNCHANGED s_ssh

\* Seeded fault: the FIN is not noted.
ssh_tcp_recv_fin_forgets(p) ==
  /\ conn[p].tcp \in {"open", "closing"} /\ conn[p].client \notin {"closed", "vanished"}
  /\ conn' = [conn EXCEPT ![p].client = "closed",
                          ![p].tcp = IF @ = "open" THEN "halved" ELSE @]
  /\ UNCHANGED <<s_sess, s_ssh>>

\* The client closes: its FIN reaches ssh_tcp_recv() as a null buffer, on a
\* connection that the server is closing as well if the hook is still there.
ssh_tcp_recv_fin(p) ==
  /\ conn[p].tcp \in {"open", "closing"} /\ conn[p].client \notin {"closed", "vanished"}
  /\ conn' = [conn EXCEPT ![p].client = "closed",
                          ![p].tcp = IF @ = "open" THEN "halved" ELSE @]
  /\ s_sess' = IF "recv" \in conn[p].hooks THEN [s_sess EXCEPT !.want_close = TRUE] ELSE s_sess
  /\ UNCHANGED s_ssh

\* A connection dies: lwIP frees it and, if hooked, calls ssh_tcp_err().
ssh_tcp_err == s_sess' = IdleSession /\ s_ssh' = NoSsh

Dies(p) ==
  /\ conn' = [conn EXCEPT ![p] = Free]
  /\ IF "err" \in conn[p].hooks THEN ssh_tcp_err ELSE UNCHANGED <<s_sess, s_ssh>>

Served(p) == conn[p].tcp \in {"open", "halved"}

\* The client resets the connection.
Reset(p) == Served(p) /\ conn[p].client # "vanished" /\ Dies(p)

\* lwIP gives up on output that a vanished client never acknowledges.
GiveUp(p) == Served(p) /\ conn[p].client = "vanished" /\ conn[p].queued > 0 /\ Dies(p)

\* A connection closed by the server ends, at the latest by a timeout.
Expire(p) == conn[p].tcp = "closing" /\ Dies(p)

\* The client's host disappears without a word.
Vanish(p) ==
  /\ Served(p) /\ conn[p].client # "vanished"
  /\ conn' = [conn EXCEPT ![p].client = "vanished"]
  /\ UNCHANGED <<s_sess, s_ssh>>

\* The client acknowledges output.
Acknowledge(p) ==
  /\ Served(p) /\ conn[p].client # "vanished" /\ conn[p].queued > 0
  /\ conn' = [conn EXCEPT ![p].queued = 0]
  /\ UNCHANGED <<s_sess, s_ssh>>

Next ==
  \/ ssh_server_poll
  \/ \E p \in Pcb :
       \/ ssh_tcp_poll(p) \/ ssh_tcp_accept(p)
       \/ ssh_tcp_recv(p) \/ ssh_tcp_recv_fin(p)
       \/ Reset(p) \/ GiveUp(p) \/ Expire(p)
       \/ Vanish(p) \/ Acknowledge(p)

Spec == Init /\ [][Next]_vars

\* TCP settles a connection: its output is acknowledged or given up, or what
\* the server has closed comes to its end.
Settle == \E p \in Pcb : Acknowledge(p) \/ GiveUp(p) \/ Expire(p)

\* The network loop never stops polling, TCP delivers or gives up.
Fairness == WF_vars(ssh_server_poll) /\ WF_vars(Settle)

FairSpec == Spec /\ Fairness

-----------------------------------------------------------------------------
Kinds == {"hs", "alien", "shell", "sftp", "line", "quit", "request",
          "eof", "close", "rekey", "garbage"}

Sessions    == [pcb : Pcb \cup {NoPcb}, state : {"IDLE", "ACCEPT", "RUN", "SFTP"},
                want_close : BOOLEAN, rx : Seq(Kinds), tx : 0 .. TxRing]
Channels    == [chan : {"null", "none", "open", "half", "eof", "closed", "keying"},
                held : 0 .. SndBuf]
Connections == [tcp : {"free", "open", "halved", "closing"}, hooks : SUBSET AllHooks,
                queued : 0 .. SndBuf, packets : 0 .. MaxPackets, lost : BOOLEAN,
                client : {"none", "greeting", "shell", "sftp", "ended", "closed", "vanished"},
                cut : 0 .. SndBuf + TxRing + 1]

\* Types; neither ring ever holds more than it has room for.
TypeOK ==
  /\ s_sess \in Sessions /\ Len(s_sess.rx) <= RxRing
  /\ s_ssh \in Channels
  /\ conn \in [Pcb -> Connections]

\* At every moment the session, wolfSSH's object and TCP agree: no connection
\* is left open without a session to serve it, no session points at a control
\* block that lwIP has freed or is closing, none lacks its callbacks.  Every
\* way out (quit, error, FIN, reset, timeout) must keep all three in step.
NoOrphans ==
  /\ \A p \in Pcb : Served(p) <=> p = Me
  /\ Me # NoPcb => conn[Me].hooks = AllHooks
  /\ (Me = NoPcb) = (s_sess = IdleSession) /\ (Me = NoPcb) = (s_ssh = NoSsh)

\* What still happens to a connection the server has closed (its FIN, its
\* reset, its timeout) must not touch the session that has followed it.
ClosedConnectionsAreMute ==
  [][\A p \in Pcb :
       conn[p].tcp = "closing" /\ conn'[p] # conn[p] => UNCHANGED <<s_sess, s_ssh>>]_vars

\* The server's own closing throws away one packet at most: the shell output
\* that wolfSSH keeps when TCP has no room, or the SFTP reply it has parked.
\* What is still in the ring of the shell, however much, has to go out first.
OnePacketCut == \A p \in Pcb : conn[p].cut <= 1

\* A session whose client has left in a regular way ends, so that the next one
\* can connect: for sftp always, for a shell if all that was sent is read and
\* the channel still takes output.
AbandonedSessionEnds ==
  \A p \in Pcb :
    /\ Me = p /\ conn[p].tcp = "halved"
    /\ \/ s_sess.state = "SFTP"
       \/ s_sess.state = "RUN" /\ s_ssh.chan = "open" /\ s_sess.rx = <<>>
    ~> conn[p].tcp # "halved"

-----------------------------------------------------------------------------
\* "The client closed the connection.": then the session ends, in the middle
\* of the handshake too.
HandshakeGivenUp ==
  \A p \in Pcb : Me = p /\ s_sess.state = "ACCEPT" /\ conn[p].tcp = "halved"
                 ~> conn[p].tcp # "halved" \/ conn[p].client = "vanished"

\* "Only close once all pending output has been sent (the "bye." of quit must
\* go out before cutting the session)": nothing is thrown away while the client
\* of a shell is there and has not ended its channel itself.  It is not so: TLC
\* finds a quit while TCP has no room.
ByeGoesOut ==
  [][\A p \in Pcb : conn[p].client = "shell" => conn'[p].cut = 0]_vars

=============================================================================
