--------------------------- MODULE SshServerProofs ---------------------------
(***************************************************************************)
(* Safety of the SSH server for every number of connections and every size *)
(* of the rings and buffers: session, wolfSSH's object and connections     *)
(* stay in step, a close wastes at most one packet, and a connection the   *)
(* server has closed has no effect on the next session.                    *)
(***************************************************************************)
EXTENDS SshServer, TLAPS, FiniteSetTheorems, SequenceTheorems, WellFoundedInduction

-----------------------------------------------------------------------------
\* Every non-empty set of naturals has a least element, which Min returns.
LEMMA MinIsLeast ==
  ASSUME NEW T \in SUBSET Nat, T # {}
  PROVE  Min(T) \in T /\ \A y \in T : Min(T) <= y
<1>1. PICK x \in T : \A y \in T : ~ (<<y, x>> \in OpToRel(<, Nat))
  BY NatLessThanWellFounded, WFMin
<1>2. \A y \in T : ~ (y < x)
  BY <1>1, Zenon DEF OpToRel
<1>3. \E z \in T : \A y \in T : z <= y
  BY <1>2
<1>4. QED BY <1>3, Zenon DEF Min

\* The smaller of two numbers.
LEMMA MinOfTwo ==
  ASSUME NEW a \in Nat, NEW b \in Nat
  PROVE  /\ Min({a, b}) \in Nat /\ Min({a, b}) <= a /\ Min({a, b}) <= b
         /\ Min({a, b}) = a \/ Min({a, b}) = b
BY MinIsLeast

\* UpTo() returns the length of a prefix.
LEMMA UpToIsPrefix ==
  ASSUME NEW rx \in Seq(Kinds), NEW ends
  PROVE  UpTo(rx, ends) \in 0 .. Len(rx)
<1> DEFINE stops == {i \in DOMAIN rx : rx[i] \in ends}
<1>1. Len(rx) \in Nat /\ stops \in SUBSET Nat /\ stops \subseteq 1 .. Len(rx)
  BY LenProperties
<1>2. stops # {} => Min(stops) \in stops
  BY <1>1, MinIsLeast
<1>3. QED BY <1>1, <1>2 DEF UpTo

\* What is left of the receive ring when n packets have been read.
LEMMA RestOfRing ==
  ASSUME NEW rx \in Seq(Kinds), Len(rx) <= RxRing, NEW n \in 0 .. Len(rx)
  PROVE  /\ SubSeq(rx, n + 1, Len(rx)) \in Seq(Kinds)
         /\ Len(SubSeq(rx, n + 1, Len(rx))) <= RxRing
<1>1. Len(rx) \in Nat /\ \A i \in 1 .. Len(rx) : rx[i] \in Kinds
  BY LenProperties, ElementOfSeq
<1>2. QED BY <1>1, SubSeqProperties, SshServerAssumption

-----------------------------------------------------------------------------
\* Only a connection that is served has the callbacks that speak of a session.
Unhooked == \A p \in Pcb : ~Served(p) => conn[p].hooks \cap {"recv", "err"} = {}

\* A session has a channel and a state; wolfSSH keeps at most one packet.
InStep ==
  /\ Me # NoPcb => s_ssh.chan # "null"
  /\ (Me = NoPcb) = (s_sess.state = "IDLE")
  /\ s_ssh.held <= 1

SshInv == TypeOK /\ NoOrphans /\ OnePacketCut /\ Unhooked /\ InStep

LEMMA IdleTypes ==
  /\ IdleSession \in Sessions /\ Len(IdleSession.rx) <= RxRing
  /\ NoSsh \in Channels /\ Free \in Connections
<1>1. <<>> \in Seq(Kinds) /\ Len(<<>>) = 0
  BY EmptySeq
<1>2. QED BY <1>1, SshServerAssumption
  DEF IdleSession, NoSsh, Free, Sessions, Channels, Connections, AllHooks

\* What a close leaves of a connection.
LEMMA ClosingTypes ==
  ASSUME NEW c \in Connections, NEW w \in {0, 1}
  PROVE  /\ Closing(c, w) \in Connections
         /\ Closing(c, w).tcp = "closing" /\ Closing(c, w).cut <= 1
         /\ Closing(c, w).hooks \cap {"recv", "err"} = {}
<1> DEFINE left == c.hooks \ {"recv", "err"}
           who  == IF c.client \in {"closed", "vanished"} THEN c.client ELSE "ended"
<1>1. Closing(c, w) = [Free EXCEPT !.tcp = "closing", !.hooks = left, !.cut = w, !.client = who]
  BY DEF Closing
<1>2. left \in SUBSET AllHooks /\ left \cap {"recv", "err"} = {}
  BY DEF Connections
<1>3. w \in 0 .. SndBuf + TxRing + 1 /\ 0 \in 0 .. SndBuf /\ 0 \in 0 .. MaxPackets
  BY SshServerAssumption
<1>4. who \in {"closed", "vanished", "ended"}
  OBVIOUS
<1> HIDE DEF left, who
<1>5. Closing(c, w) = [tcp |-> "closing", hooks |-> left, queued |-> 0, client |-> who,
                       packets |-> 0, lost |-> FALSE, cut |-> w]
  BY <1>1 DEF Free
<1>6. QED BY <1>2, <1>3, <1>4, <1>5 DEF Connections

LEMMA InitInv == Init => SshInv
<1> SUFFICES ASSUME Init PROVE SshInv
  OBVIOUS
<1>1. TypeOK
  BY IdleTypes DEF Init, TypeOK
<1>2. NoOrphans /\ OnePacketCut /\ Unhooked /\ InStep
  BY SshServerAssumption DEF Init, NoOrphans, OnePacketCut, Unhooked, InStep, Served, Me,
    Free, IdleSession, NoSsh
<1>3. QED BY <1>1, <1>2 DEF SshInv

\* The session is closed with at most one packet wasted.
LEMMA CloseKeepsInv ==
  ASSUME SshInv, Me # NoPcb, NEW w \in {0, 1}, ssh_close_session(w)
  PROVE  SshInv'
<1> USE DEF SshInv
<1>1. Me \in Pcb /\ conn[Me] \in Connections
  BY DEF TypeOK, Sessions, Me
<1> DEFINE c == conn[Me]
<1>3. /\ Closing(c, w) \in Connections
      /\ Closing(c, w).tcp = "closing" /\ Closing(c, w).cut <= 1
      /\ Closing(c, w).hooks \cap {"recv", "err"} = {}
  BY <1>1, ClosingTypes
<1>4. conn' = [conn EXCEPT ![Me] = Closing(c, w)] /\ s_sess' = IdleSession /\ s_ssh' = NoSsh
  BY DEF ssh_close_session
<1>5. TypeOK'
  BY <1>1, <1>3, <1>4, IdleTypes DEF TypeOK
<1>6. NoOrphans'
  BY <1>1, <1>3, <1>4, SshServerAssumption DEF NoOrphans, Served, Me, IdleSession, TypeOK
<1>7. OnePacketCut' /\ Unhooked'
  BY <1>1, <1>3, <1>4 DEF OnePacketCut, Unhooked, Served, TypeOK
<1>8. InStep'
  BY <1>4 DEF InStep, Me, IdleSession, NoSsh
<1>9. QED BY <1>5, <1>6, <1>7, <1>8

\* lwIP frees a connection.
LEMMA DiesKeepsInv ==
  ASSUME SshInv, NEW p \in Pcb, conn[p].tcp # "free", Dies(p)
  PROVE  SshInv'
<1> USE DEF SshInv
<1>1. conn' = [conn EXCEPT ![p] = Free]
  BY DEF Dies
<1>2. CASE "err" \in conn[p].hooks
  <2>1. Me = p /\ s_sess' = IdleSession /\ s_ssh' = NoSsh
    BY <1>2 DEF Dies, ssh_tcp_err, Unhooked, NoOrphans
  <2>2. TypeOK'
    BY <1>1, <2>1, IdleTypes DEF TypeOK
  <2>3. NoOrphans' /\ OnePacketCut' /\ Unhooked'
    BY <1>1, <2>1, SshServerAssumption
    DEF TypeOK, NoOrphans, OnePacketCut, Unhooked, Served, Me, Free, IdleSession
  <2>4. InStep'
    BY <2>1 DEF InStep, Me, IdleSession, NoSsh
  <2>5. QED BY <2>2, <2>3, <2>4
<1>3. CASE "err" \notin conn[p].hooks
  <2>1. Me # p /\ s_sess' = s_sess /\ s_ssh' = s_ssh
    BY <1>3, SshServerAssumption DEF Dies, NoOrphans, AllHooks, Me
  <2>2. TypeOK'
    BY <1>1, <2>1, IdleTypes DEF TypeOK
  <2>3. NoOrphans' /\ OnePacketCut' /\ Unhooked' /\ InStep'
    BY <1>1, <2>1 DEF TypeOK, NoOrphans, OnePacketCut, Unhooked, InStep, Served, Me, Free
  <2>4. QED BY <2>2, <2>3
<1>4. QED BY <1>2, <1>3

-----------------------------------------------------------------------------
\* Output of the session: what enters the ring fits.
LEMMA ShellOutFits ==
  ASSUME NEW tx \in 0 .. TxRing, NEW units \in Nat
  PROVE  ssh_shell_out(tx, units) \in 0 .. TxRing
<1>1. tx + units \in Nat /\ TxRing \in Nat
  BY SshServerAssumption
<1>2. QED BY <1>1, MinOfTwo DEF ssh_shell_out

\* What ssh_flush_tx() leaves in the ring, keeps back and gives to TCP.
LEMMA FlushBounds ==
  ASSUME NEW chan, NEW tx \in 0 .. TxRing, s_ssh.held \in 0 .. 1,
         conn[Me].queued \in 0 .. SndBuf
  PROVE  /\ ssh_flush_tx(chan, tx).tx \in 0 .. TxRing
         /\ ssh_flush_tx(chan, tx).held \in 0 .. 1
         /\ conn[Me].queued + ssh_flush_tx(chan, tx).sent \in 0 .. SndBuf
<1> DEFINE room == SndBuf - conn[Me].queued
           kept == s_ssh.held
           out  == IF chan \notin {"open", "half"} \/ kept > room THEN 0
                   ELSE Min({tx, room - kept + 1})
           sent == IF out = 0 THEN 0 ELSE Min({room, kept + out})
<1>1. SndBuf \in Nat /\ TxRing \in Nat /\ room \in 0 .. SndBuf /\ kept \in 0 .. 1
  BY SshServerAssumption
<1>2. out \in Nat /\ out <= tx /\ (out # 0 => out <= room - kept + 1)
  <2>1. CASE chan \notin {"open", "half"} \/ kept > room
    BY <2>1
  <2>2. CASE ~ (chan \notin {"open", "half"} \/ kept > room)
    <3>1. room - kept + 1 \in Nat /\ tx \in Nat
      BY <1>1, <2>2
    <3>2. QED BY <2>2, <3>1, MinOfTwo
  <2>3. QED BY <2>1, <2>2
<1>3. sent \in Nat /\ sent <= room /\ sent <= kept + out /\ kept + out - sent <= 1
  <2> HIDE DEF out
  <2>1. CASE out = 0
    BY <1>1, <2>1
  <2>2. CASE out # 0
    <3>1. kept + out \in Nat /\ room \in Nat
      BY <1>1, <1>2
    <3>2. QED BY <1>1, <1>2, <2>2, <3>1, MinOfTwo
  <2>3. QED BY <2>1, <2>2
<1>4. /\ ssh_flush_tx(chan, tx).tx = tx - out
      /\ ssh_flush_tx(chan, tx).held = kept + out - sent
      /\ ssh_flush_tx(chan, tx).sent = sent
  BY DEF ssh_flush_tx
<1> HIDE DEF out, sent
<1>5. tx - out \in 0 .. TxRing /\ kept + out - sent \in 0 .. 1
  BY <1>1, <1>2, <1>3
<1>6. conn[Me].queued + sent \in 0 .. SndBuf
  BY <1>1, <1>3
<1> HIDE DEF kept
<1>7. QED BY <1>4, <1>5, <1>6

\* A channel stays a channel.
LEMMA ChannelTypes ==
  ASSUME NEW read, SshInv, Me # NoPcb
  PROVE  Channel(read) \in {"none", "open", "half", "eof", "closed", "keying"}
BY DEF Channel, SshInv, TypeOK, InStep, Channels

\* A session goes on: it keeps its connection, which sends what TCP takes.
LEMMA GoesOnKeepsInv ==
  ASSUME SshInv, Me # NoPcb,
         s_sess' \in Sessions, Me' = Me, s_sess'.state # "IDLE", Len(s_sess'.rx) <= RxRing,
         s_ssh' \in Channels, s_ssh'.chan # "null", s_ssh'.held <= 1,
         NEW queued \in 0 .. SndBuf,
         conn' = [conn EXCEPT ![Me].queued = queued]
  PROVE  SshInv'
<1> USE DEF SshInv
<1>1. Me \in Pcb /\ conn \in [Pcb -> Connections]
  BY DEF TypeOK, Sessions, Me
<1>2. /\ conn' \in [Pcb -> Connections]
      /\ \A p \in Pcb : /\ conn'[p].tcp = conn[p].tcp /\ conn'[p].hooks = conn[p].hooks
                        /\ conn'[p].cut = conn[p].cut
  <2>1. [conn[Me] EXCEPT !.queued = queued] \in Connections
    BY <1>1 DEF Connections
  <2>2. QED BY <1>1, <2>1 DEF Connections
<1>3. TypeOK'
  BY <1>2 DEF TypeOK
<1>4. NoOrphans' /\ OnePacketCut' /\ Unhooked'
  BY <1>1, <1>2 DEF NoOrphans, OnePacketCut, Unhooked, Served, Me, IdleSession, NoSsh
<1>5. InStep'
  BY DEF InStep, Me
<1>6. QED BY <1>3, <1>4, <1>5

-----------------------------------------------------------------------------
LEMMA AdvanceAcceptKeepsInv ==
  ASSUME SshInv, AdvanceAccept
  PROVE  SshInv'
<1> USE DEF SshInv
<1> DEFINE n    == UpTo(s_sess.rx, {"shell", "sftp", "alien", "garbage"})
           rest == SubSeq(s_sess.rx, n + 1, Len(s_sess.rx))
<1>1. Me # NoPcb /\ s_sess \in Sessions /\ s_ssh \in Channels
  BY DEF AdvanceAccept, InStep, TypeOK
<1>2. rest \in Seq(Kinds) /\ Len(rest) <= RxRing
  <2>1. s_sess.rx \in Seq(Kinds) /\ Len(s_sess.rx) <= RxRing
    BY <1>1 DEF TypeOK, Sessions
  <2>2. n \in 0 .. Len(s_sess.rx)
    BY <2>1, UpToIsPrefix
  <2>3. QED BY <2>1, <2>2, RestOfRing
<1>3. ssh_shell_out(s_sess.tx, 1) \in 0 .. TxRing
  BY <1>1, ShellOutFits DEF Sessions
<1>4. UNCHANGED conn =>
        conn' = [conn EXCEPT ![Me].queued = conn[Me].queued] /\ conn[Me].queued \in 0 .. SndBuf
  BY <1>1 DEF TypeOK, Connections, Sessions, Me
<1> HIDE DEF rest
<1>5. \/ /\ s_sess' = [s_sess EXCEPT !.state = "RUN", !.rx = rest,
                                     !.tx = ssh_shell_out(s_sess.tx, 1)]
         /\ s_ssh' = [s_ssh EXCEPT !.chan = "open"] /\ UNCHANGED conn
      \/ /\ s_sess' = [s_sess EXCEPT !.state = "SFTP", !.rx = rest]
         /\ s_ssh' = [s_ssh EXCEPT !.chan = "open"] /\ UNCHANGED conn
      \/ ssh_close_session(0)
      \/ s_sess' = [s_sess EXCEPT !.rx = rest] /\ UNCHANGED <<s_ssh, conn>>
  BY DEF AdvanceAccept, rest
<1>6. CASE ssh_close_session(0)
  BY <1>1, <1>6, CloseKeepsInv
<1>7. CASE ~ ssh_close_session(0)
  <2>1. s_sess' \in Sessions /\ Me' = Me /\ s_sess'.state # "IDLE" /\ s_sess'.rx = rest
    BY <1>1, <1>2, <1>3, <1>5, <1>7 DEF Sessions, Me, InStep
  <2>2. s_ssh' \in Channels /\ s_ssh'.chan # "null" /\ s_ssh'.held <= 1 /\ UNCHANGED conn
    BY <1>1, <1>5, <1>7 DEF Channels, InStep
  <2>3. QED BY <1>1, <1>2, <1>4, <2>1, <2>2, GoesOnKeepsInv
<1>8. QED BY <1>6, <1>7

LEMMA AdvanceRunKeepsInv ==
  ASSUME SshInv, AdvanceRun
  PROVE  SshInv'
<1> USE DEF SshInv
<1> DEFINE dead  == s_ssh.chan # "open"
           n     == IF dead THEN 0
                    ELSE Min({Reads, UpTo(s_sess.rx, {"eof", "close", "rekey", "garbage"})})
           input == SubSeq(s_sess.rx, 1, n)
           ended == dead \/ Range(input) \cap {"eof", "close", "garbage"} # {}
           lines == Cardinality({i \in DOMAIN input : input[i] \in {"line", "quit"}})
           want  == s_sess.want_close \/ ended \/ "quit" \in Range(input)
           chan  == Channel(Range(input))
           flush == ssh_flush_tx(chan, ssh_shell_out(s_sess.tx, lines))
           rest  == SubSeq(s_sess.rx, n + 1, Len(s_sess.rx))
<1>1. Me # NoPcb /\ s_sess \in Sessions /\ s_ssh \in Channels /\ s_sess.state = "RUN"
  BY DEF AdvanceRun, InStep, TypeOK
<1>2. n \in 0 .. Len(s_sess.rx) /\ s_sess.rx \in Seq(Kinds) /\ Len(s_sess.rx) <= RxRing
  <2>1. s_sess.rx \in Seq(Kinds) /\ Len(s_sess.rx) <= RxRing
    BY <1>1 DEF TypeOK, Sessions
  <2>2. UpTo(s_sess.rx, {"eof", "close", "rekey", "garbage"}) \in 0 .. Len(s_sess.rx)
    BY <2>1, UpToIsPrefix
  <2>3. Reads \in Nat /\ Len(s_sess.rx) \in Nat
    BY <2>1, SshServerAssumption
  <2>4. QED BY <2>1, <2>2, <2>3, MinOfTwo
<1>3. rest \in Seq(Kinds) /\ Len(rest) <= RxRing
  BY <1>2, RestOfRing
<1> HIDE DEF n
<1>4. lines \in Nat
  <2>1. n \in Nat /\ \A i \in 1 .. n : s_sess.rx[i] \in Kinds
    BY <1>2, LenProperties, ElementOfSeq
  <2>2. input \in Seq(Kinds)
    BY <2>1, SubSeqProperties
  <2>3. IsFiniteSet(DOMAIN input)
    BY <2>2, LenProperties, FS_Interval
  <2>4. QED BY <2>3, FS_Subset, FS_CardinalityType
<1> HIDE DEF lines
<1>5. /\ flush.tx \in 0 .. TxRing /\ flush.held \in 0 .. 1
      /\ conn[Me].queued + flush.sent \in 0 .. SndBuf
  <2>1. ssh_shell_out(s_sess.tx, lines) \in 0 .. TxRing
    BY <1>1, <1>4, ShellOutFits DEF Sessions
  <2>2. s_ssh.held \in 0 .. 1 /\ conn[Me].queued \in 0 .. SndBuf
    BY <1>1 DEF TypeOK, InStep, Channels, Connections, Sessions, Me
  <2>3. QED BY <2>1, <2>2, FlushBounds
<1>6. chan \in {"none", "open", "half", "eof", "closed", "keying"}
  BY <1>1, ChannelTypes
<1>7. want \in BOOLEAN
  BY <1>1 DEF Sessions
<1> HIDE DEF flush, chan, want, rest
<1>8. \/ MayClose(want, flush.tx) /\ ssh_close_session(flush.held + flush.tx)
      \/ /\ s_sess' = [s_sess EXCEPT !.want_close = want, !.tx = flush.tx, !.rx = rest]
         /\ s_ssh' = [chan |-> chan, held |-> flush.held]
         /\ conn' = [conn EXCEPT ![Me].queued = conn[Me].queued + flush.sent]
  BY DEF AdvanceRun, n, lines, flush, chan, want, rest
<1>9. CASE MayClose(want, flush.tx) /\ ssh_close_session(flush.held + flush.tx)
  <2>1. flush.held + flush.tx \in {0, 1}
    BY <1>5, <1>9 DEF MayClose
  <2>2. QED BY <1>1, <1>9, <2>1, CloseKeepsInv
<1>10. CASE /\ s_sess' = [s_sess EXCEPT !.want_close = want, !.tx = flush.tx, !.rx = rest]
            /\ s_ssh' = [chan |-> chan, held |-> flush.held]
            /\ conn' = [conn EXCEPT ![Me].queued = conn[Me].queued + flush.sent]
  <2>1. s_sess' \in Sessions /\ Me' = Me /\ s_sess'.state # "IDLE" /\ s_sess'.rx = rest
    BY <1>1, <1>3, <1>5, <1>7, <1>10 DEF Sessions, Me
  <2>2. s_ssh' \in Channels /\ s_ssh'.chan # "null" /\ s_ssh'.held <= 1
    BY <1>5, <1>6, <1>10, SshServerAssumption DEF Channels
  <2>3. QED BY <1>1, <1>3, <1>5, <1>10, <2>1, <2>2, GoesOnKeepsInv
<1>11. QED BY <1>8, <1>9, <1>10

\* What the SFTP pump reads, keeps back and gives to TCP.
LEMMA PumpBounds ==
  ASSUME NEW rx \in Seq(Kinds), NEW room \in Nat, NEW kept \in 0 .. 1
  PROVE  /\ SftpPump(rx, room, kept).read \in 0 .. Len(rx)
         /\ SftpPump(rx, room, kept).held \in {0, 1}
         /\ SftpPump(rx, room, kept).sent \in 0 .. room
<1> DEFINE turns == Min({Reads - kept, room - kept + 1})
           upto  == UpTo(rx, SftpEnds)
           n     == IF kept > room THEN 0 ELSE Min({turns, upto})
           asked == Requests(rx, n)
           sent  == Min({room, kept + asked})
<1>1. Len(rx) \in Nat /\ Reads \in Nat \ {0}
  BY SshServerAssumption
\* No more requests are read than TCP takes the replies to, but one.
<1>2. n \in 0 .. Len(rx) /\ (kept <= room => n <= room - kept + 1) /\ (kept > room => n = 0)
  <2>1. upto \in 0 .. Len(rx)
    BY UpToIsPrefix
  <2>2. CASE kept > room
    BY <1>1, <2>2
  <2>3. CASE kept <= room
    <3>1. Reads - kept \in Nat /\ room - kept + 1 \in Nat
      BY <1>1, <2>3, SshServerAssumption
    <3>2. turns \in Nat /\ turns <= room - kept + 1
      BY <3>1, MinOfTwo
    <3> HIDE DEF turns, upto
    <3>3. Min({turns, upto}) \in Nat /\ Min({turns, upto}) <= turns /\ Min({turns, upto}) <= upto
      BY <1>1, <2>1, <3>2, MinOfTwo
    <3>4. QED BY <1>1, <2>1, <2>3, <3>2, <3>3
  <2>4. QED BY <1>1, <2>2, <2>3
<1> HIDE DEF n
<1>3. asked \in Nat /\ asked <= n
  <2>1. IsFiniteSet(1 .. n) /\ Cardinality(1 .. n) = n
    BY <1>1, <1>2, FS_Interval
  <2>2. QED BY <2>1, FS_Subset, FS_CardinalityType DEF Requests
<1>4. /\ sent \in Nat /\ sent <= room /\ sent <= kept + asked
      /\ sent = room \/ sent = kept + asked
  <2> HIDE DEF asked
  <2>1. room \in Nat /\ kept + asked \in Nat
    BY <1>1, <1>3
  <2>2. QED BY <2>1, MinOfTwo
<1>5. kept + asked <= room + 1
  BY <1>1, <1>2, <1>3
<1>6. SftpPump(rx, room, kept) = [read |-> n, held |-> (kept + asked) - sent, sent |-> sent]
  BY DEF SftpPump, n
<1> HIDE DEF asked, sent
<1>7. (kept + asked) - sent \in {0, 1} /\ sent \in 0 .. room
  BY <1>3, <1>4, <1>5
<1>8. QED BY <1>2, <1>6, <1>7

LEMMA AdvanceSftpKeepsInv ==
  ASSUME SshInv, AdvanceSftp
  PROVE  SshInv'
<1> USE DEF SshInv
<1> DEFINE pump == SftpPump(s_sess.rx, SndBuf - conn[Me].queued, s_ssh.held)
           rest == SubSeq(s_sess.rx, pump.read + 1, Len(s_sess.rx))
<1>1. Me # NoPcb /\ s_sess \in Sessions /\ s_ssh \in Channels /\ s_sess.state = "SFTP"
  BY DEF AdvanceSftp, InStep, TypeOK
<1>2. s_sess.rx \in Seq(Kinds) /\ Len(s_sess.rx) <= RxRing
  BY <1>1 DEF TypeOK, Sessions
<1>3. /\ pump.read \in 0 .. Len(s_sess.rx) /\ pump.held \in {0, 1}
      /\ conn[Me].queued + pump.sent \in 0 .. SndBuf
  <2> DEFINE queued == conn[Me].queued
  <2>1. s_ssh.held \in 0 .. 1 /\ queued \in 0 .. SndBuf /\ SndBuf \in Nat
    BY <1>1, SshServerAssumption DEF TypeOK, InStep, Channels, Connections, Sessions, Me
  <2> HIDE DEF queued
  <2>2. SndBuf - queued \in Nat
    BY <2>1
  <2>3. /\ SftpPump(s_sess.rx, SndBuf - queued, s_ssh.held).read \in 0 .. Len(s_sess.rx)
        /\ SftpPump(s_sess.rx, SndBuf - queued, s_ssh.held).held \in {0, 1}
        /\ SftpPump(s_sess.rx, SndBuf - queued, s_ssh.held).sent \in 0 .. SndBuf - queued
    BY <1>2, <2>1, <2>2, PumpBounds
  <2>4. pump = SftpPump(s_sess.rx, SndBuf - queued, s_ssh.held)
    BY DEF queued
  <2> HIDE DEF pump
  <2>5. queued + pump.sent \in 0 .. SndBuf
    BY <2>1, <2>3, <2>4
  <2>6. QED BY <2>3, <2>4, <2>5 DEF queued
<1>4. rest \in Seq(Kinds) /\ Len(rest) <= RxRing
  BY <1>2, <1>3, RestOfRing
<1>5. \/ ssh_close_session(pump.held)
      \/ /\ s_sess' = [s_sess EXCEPT !.rx = rest]
         /\ s_ssh' = [s_ssh EXCEPT !.held = pump.held]
         /\ conn' = [conn EXCEPT ![Me].queued = conn[Me].queued + pump.sent]
  BY DEF AdvanceSftp
<1> HIDE DEF pump, rest
<1>6. CASE ssh_close_session(pump.held)
  BY <1>1, <1>3, <1>6, CloseKeepsInv
<1>7. CASE /\ s_sess' = [s_sess EXCEPT !.rx = rest]
           /\ s_ssh' = [s_ssh EXCEPT !.held = pump.held]
           /\ conn' = [conn EXCEPT ![Me].queued = conn[Me].queued + pump.sent]
  <2>1. s_sess' \in Sessions /\ Me' = Me /\ s_sess'.state # "IDLE" /\ s_sess'.rx = rest
    BY <1>1, <1>4, <1>7 DEF Sessions, Me
  <2>2. s_ssh' \in Channels /\ s_ssh'.chan # "null" /\ s_ssh'.held <= 1
    BY <1>1, <1>3, <1>7, SshServerAssumption DEF InStep, Channels
  <2>3. QED BY <1>1, <1>3, <1>4, <1>7, <2>1, <2>2, GoesOnKeepsInv
<1>8. QED BY <1>5, <1>6, <1>7

-----------------------------------------------------------------------------
\* The callbacks.

LEMMA AcceptKeepsInv ==
  ASSUME SshInv, NEW p \in Pcb, ssh_tcp_accept(p)
  PROVE  SshInv'
<1> USE DEF SshInv
<1> DEFINE c == [Free EXCEPT !.tcp = "open", !.hooks = AllHooks, !.client = "greeting"]
<1>1. c \in Connections /\ c.tcp = "open" /\ c.hooks = AllHooks /\ c.cut = 0
  BY IdleTypes DEF Connections, Free
<1> HIDE DEF c
<1>2. /\ s_sess' = [IdleSession EXCEPT !.pcb = p, !.state = "ACCEPT"]
      /\ s_ssh' = [chan |-> "none", held |-> 0]
      /\ conn' = [conn EXCEPT ![p] = c]
  BY DEF ssh_tcp_accept, c
<1>3. Me = NoPcb /\ \A q \in Pcb : ~Served(q)
  BY SshServerAssumption DEF ssh_tcp_accept, InStep, NoOrphans
<1>4. s_sess' \in Sessions /\ s_sess'.rx = <<>> /\ Me' = p /\ s_sess'.state = "ACCEPT"
  BY <1>2, IdleTypes DEF Sessions, Me, IdleSession
<1>5. TypeOK'
  <2>1. Len(s_sess'.rx) <= RxRing
    BY <1>4, IdleTypes DEF IdleSession
  <2>2. s_ssh' \in Channels
    BY <1>2, SshServerAssumption DEF Channels
  <2>3. QED BY <1>1, <1>2, <1>4, <2>1, <2>2 DEF TypeOK
<1>6. NoOrphans'
  <2>1. \A q \in Pcb : Served(q)' <=> q = Me'
    BY <1>1, <1>2, <1>3, <1>4 DEF TypeOK, Served
  <2>2. conn'[Me'].hooks = AllHooks
    BY <1>1, <1>2, <1>4 DEF TypeOK
  <2>3. Me' # NoPcb /\ s_sess' # IdleSession /\ s_ssh' # NoSsh
    BY <1>2, <1>4, SshServerAssumption DEF IdleSession, NoSsh
  <2>4. QED BY <2>1, <2>2, <2>3 DEF NoOrphans
<1>7. OnePacketCut' /\ Unhooked' /\ InStep'
  BY <1>1, <1>2, <1>4, SshServerAssumption
  DEF OnePacketCut, Unhooked, InStep, TypeOK, Served, Me
<1>8. QED BY <1>5, <1>6, <1>7

\* A step that leaves wolfSSH and every connection's hooks alone, and neither
\* opens nor ends a connection.
LEMMA SameConnectionsKeepInv ==
  ASSUME SshInv, TypeOK',
         s_ssh' = s_ssh, Me' = Me, s_sess'.state = s_sess.state,
         s_sess' = s_sess \/ Me # NoPcb,
         \A p \in Pcb : /\ conn'[p].hooks = conn[p].hooks /\ conn'[p].cut = conn[p].cut
                        /\ (conn'[p].tcp \in {"open", "halved"} <=> Served(p))
  PROVE  SshInv'
<1> USE DEF SshInv
<1>1. NoOrphans'
  <2>1. \A p \in Pcb : Served(p)' <=> p = Me'
    BY DEF Served, NoOrphans
  <2>2. Me' # NoPcb => conn'[Me'].hooks = AllHooks
    BY DEF NoOrphans, TypeOK, Sessions, Me
  <2>3. (Me' = NoPcb) = (s_sess' = IdleSession) /\ (Me' = NoPcb) = (s_ssh' = NoSsh)
    BY DEF NoOrphans, Me, IdleSession
  <2>4. QED BY <2>1, <2>2, <2>3 DEF NoOrphans
<1>2. OnePacketCut' /\ Unhooked' /\ InStep'
  BY DEF OnePacketCut, Unhooked, InStep, Served, Me
<1>3. QED BY <1>1, <1>2

LEMMA RecvKeepsInv ==
  ASSUME SshInv, NEW p \in Pcb, ssh_tcp_recv(p)
  PROVE  SshInv'
<1> USE DEF SshInv
<1>1. PICK m \in Sends(conn[p].client) :
        /\ s_sess' = rx_push(p, m[1])
        /\ conn' = [conn EXCEPT ![p].client = m[2], ![p].packets = @ + 1,
                                ![p].lost = @ \/ Len(s_sess.rx) = RxRing]
  BY DEF ssh_tcp_recv
<1>2. m[1] \in Kinds /\ m[2] \in {"greeting", "ended", "shell", "sftp"}
  BY DEF Sends, Kinds
<1>3. Me = p /\ Me # NoPcb /\ s_ssh' = s_ssh /\ s_sess \in Sessions /\ conn[p] \in Connections
  BY SshServerAssumption DEF ssh_tcp_recv, NoOrphans, Served, TypeOK
<1>4. s_sess' \in Sessions /\ Len(s_sess'.rx) <= RxRing /\ Me' = Me
      /\ s_sess'.state = s_sess.state
  <2>1. CASE Len(s_sess.rx) = RxRing
    BY <1>1, <1>3, <2>1 DEF rx_push, TypeOK, Me
  <2>2. CASE Len(s_sess.rx) # RxRing
    <3>1. PICK k \in Kinds : s_sess' = [s_sess EXCEPT !.rx = Append(s_sess.rx, k)]
      <4>1. "garbage" \in Kinds
        BY DEF Kinds
      <4>2. QED BY <1>1, <1>2, <2>2, <4>1 DEF rx_push
    <3>2. s_sess.rx \in Seq(Kinds) /\ Len(s_sess.rx) \in Nat /\ Len(s_sess.rx) <= RxRing
      BY <1>3, LenProperties DEF Sessions, TypeOK
    <3>3. /\ Append(s_sess.rx, k) \in Seq(Kinds)
          /\ Len(Append(s_sess.rx, k)) <= RxRing
      BY <2>2, <3>2, AppendProperties, SshServerAssumption
    <3>4. QED BY <1>3, <3>1, <3>3 DEF Sessions, Me
  <2>3. QED BY <2>1, <2>2
<1>5. /\ conn' \in [Pcb -> Connections]
      /\ \A q \in Pcb : /\ conn'[q].hooks = conn[q].hooks /\ conn'[q].cut = conn[q].cut
                        /\ conn'[q].tcp = conn[q].tcp
  <2> DEFINE c == [conn[p] EXCEPT !.client = m[2], !.packets = @ + 1,
                                  !.lost = @ \/ Len(s_sess.rx) = RxRing]
  <2>1. /\ c \in Connections /\ c.hooks = conn[p].hooks /\ c.cut = conn[p].cut
        /\ c.tcp = conn[p].tcp
    <3>1. conn[p].packets + 1 \in 0 .. MaxPackets
      BY <1>3, SshServerAssumption DEF ssh_tcp_recv, Connections
    <3>2. QED BY <1>2, <1>3, <3>1 DEF Connections
  <2>2. conn' = [conn EXCEPT ![p] = c]
    BY <1>1
  <2> HIDE DEF c
  <2>3. QED BY <2>1, <2>2 DEF TypeOK
<1>6. TypeOK'
  BY <1>3, <1>4, <1>5 DEF TypeOK
<1>7. QED BY <1>3, <1>4, <1>5, <1>6, SameConnectionsKeepInv DEF Served

LEMMA FinKeepsInv ==
  ASSUME SshInv, NEW p \in Pcb, ssh_tcp_recv_fin(p)
  PROVE  SshInv'
<1> USE DEF SshInv
<1>1. /\ conn' = [conn EXCEPT ![p].client = "closed",
                              ![p].tcp = IF @ = "open" THEN "halved" ELSE @]
      /\ s_ssh' = s_ssh /\ s_sess \in Sessions /\ conn[p] \in Connections
  BY DEF ssh_tcp_recv_fin, TypeOK
<1>2. /\ s_sess' \in Sessions /\ s_sess'.rx = s_sess.rx /\ Me' = Me
      /\ s_sess'.state = s_sess.state
      /\ s_sess' = s_sess \/ Me # NoPcb
  <2>1. CASE "recv" \in conn[p].hooks
    <3>1. Me = p /\ Me # NoPcb
      BY <2>1, SshServerAssumption DEF Unhooked, NoOrphans
    <3>2. QED BY <1>1, <2>1, <3>1 DEF ssh_tcp_recv_fin, Sessions, Me
  <2>2. CASE "recv" \notin conn[p].hooks
    BY <1>1, <2>2 DEF ssh_tcp_recv_fin, Me
  <2>3. QED BY <2>1, <2>2
<1>3. /\ conn' \in [Pcb -> Connections]
      /\ \A q \in Pcb : /\ conn'[q].hooks = conn[q].hooks /\ conn'[q].cut = conn[q].cut
                        /\ (conn'[q].tcp \in {"open", "halved"} <=> Served(q))
  <2> DEFINE c == [conn[p] EXCEPT !.client = "closed",
                                  !.tcp = IF @ = "open" THEN "halved" ELSE @]
  <2>1. /\ c \in Connections /\ c.hooks = conn[p].hooks /\ c.cut = conn[p].cut
        /\ (c.tcp \in {"open", "halved"} <=> conn[p].tcp \in {"open", "halved"})
    <3>1. CASE conn[p].tcp = "open"
      <4>1. c = [conn[p] EXCEPT !.client = "closed", !.tcp = "halved"]
        BY <1>1, <3>1 DEF Connections
      <4> HIDE DEF c
      <4>2. QED BY <1>1, <3>1, <4>1 DEF Connections
    <3>2. CASE conn[p].tcp # "open"
      <4>1. c = [conn[p] EXCEPT !.client = "closed"]
        BY <1>1, <3>2 DEF Connections
      <4> HIDE DEF c
      <4>2. QED BY <1>1, <4>1 DEF Connections
    <3>3. QED BY <3>1, <3>2
  <2>2. conn' = [conn EXCEPT ![p] = c]
    BY <1>1
  <2> HIDE DEF c
  <2>3. QED BY <2>1, <2>2 DEF TypeOK, Served
<1>4. TypeOK'
  BY <1>1, <1>2, <1>3 DEF TypeOK
<1>5. QED BY <1>1, <1>2, <1>3, <1>4, SameConnectionsKeepInv

LEMMA ClientKeepsInv ==
  ASSUME SshInv, NEW p \in Pcb, Vanish(p) \/ Acknowledge(p)
  PROVE  SshInv'
<1> USE DEF SshInv
<1>1. conn[p] \in Connections /\ s_sess' = s_sess /\ s_ssh' = s_ssh /\ Me' = Me
  BY DEF Vanish, Acknowledge, TypeOK, Me
<1>2. PICK c \in Connections :
        /\ conn' = [conn EXCEPT ![p] = c]
        /\ c.tcp = conn[p].tcp /\ c.hooks = conn[p].hooks /\ c.cut = conn[p].cut
  <2>1. CASE Vanish(p)
    <3>1. [conn[p] EXCEPT !.client = "vanished"] \in Connections
      BY <1>1 DEF Connections
    <3>2. QED BY <1>1, <2>1, <3>1 DEF Vanish, Connections
  <2>2. CASE Acknowledge(p)
    <3>1. [conn[p] EXCEPT !.queued = 0] \in Connections
      BY <1>1, SshServerAssumption DEF Connections
    <3>2. QED BY <1>1, <2>2, <3>1 DEF Acknowledge, Connections
  <2>3. QED BY <2>1, <2>2
<1>3. TypeOK' /\ \A q \in Pcb : /\ conn'[q].hooks = conn[q].hooks /\ conn'[q].cut = conn[q].cut
                                /\ conn'[q].tcp = conn[q].tcp
  BY <1>1, <1>2 DEF TypeOK
<1>4. QED BY <1>1, <1>3, SameConnectionsKeepInv DEF Served

-----------------------------------------------------------------------------
LEMMA NextKeepsInv == SshInv /\ [Next]_vars => SshInv'
<1> SUFFICES ASSUME SshInv, [Next]_vars PROVE SshInv'
  OBVIOUS
<1>1. CASE ssh_advance
  BY <1>1, AdvanceAcceptKeepsInv, AdvanceRunKeepsInv, AdvanceSftpKeepsInv DEF ssh_advance
<1>2. ASSUME NEW p \in Pcb,
             ssh_tcp_accept(p) \/ ssh_tcp_recv(p) \/ ssh_tcp_recv_fin(p)
             \/ Vanish(p) \/ Acknowledge(p)
      PROVE  SshInv'
  BY <1>2, AcceptKeepsInv, RecvKeepsInv, FinKeepsInv, ClientKeepsInv
<1>3. ASSUME NEW p \in Pcb, Reset(p) \/ GiveUp(p) \/ Expire(p)
      PROVE  SshInv'
  BY <1>3, DiesKeepsInv DEF Reset, GiveUp, Expire, Served
<1>4. CASE UNCHANGED vars
  BY <1>4 DEF vars, SshInv, TypeOK, NoOrphans, OnePacketCut, Unhooked, InStep, Served, Me
<1>5. QED BY <1>1, <1>2, <1>3, <1>4 DEF Next, ssh_server_poll, ssh_tcp_poll

\* What lwIP and the old client still do to a closed connection.
LEMMA NextIsMute ==
  ASSUME SshInv, [Next]_vars, NEW p \in Pcb, conn[p].tcp = "closing", conn'[p] # conn[p]
  PROVE  UNCHANGED <<s_sess, s_ssh>>
<1> USE DEF SshInv
<1>1. Me # p /\ conn[p].hooks \cap {"recv", "err"} = {} /\ conn \in [Pcb -> Connections]
  BY SshServerAssumption DEF NoOrphans, Unhooked, Served, TypeOK
<1>2. CASE ssh_advance
  <2>1. conn' = conn \/ \E c : conn' = [conn EXCEPT ![Me] = c]
    BY <1>2 DEF ssh_advance, AdvanceAccept, AdvanceRun, AdvanceSftp, ssh_close_session
  <2>2. QED BY <1>1, <2>1
<1>3. ASSUME NEW q \in Pcb,
             ssh_tcp_accept(q) \/ ssh_tcp_recv(q) \/ Vanish(q) \/ Acknowledge(q)
             \/ Reset(q) \/ GiveUp(q)
      PROVE  FALSE
  <2>1. conn[q].tcp # "closing"
    BY <1>3 DEF ssh_tcp_accept, ssh_tcp_recv, Vanish, Acknowledge, Reset, GiveUp, Served
  <2>2. \E c : conn' = [conn EXCEPT ![q] = c]
    BY <1>3 DEF ssh_tcp_accept, ssh_tcp_recv, Vanish, Acknowledge, Reset, GiveUp, Dies
  <2>3. QED BY <1>1, <2>1, <2>2
<1>4. ASSUME NEW q \in Pcb, ssh_tcp_recv_fin(q) \/ Expire(q)
      PROVE  UNCHANGED <<s_sess, s_ssh>>
  <2>1. \E c : conn' = [conn EXCEPT ![q] = c]
    BY <1>4 DEF ssh_tcp_recv_fin, Expire, Dies
  <2>2. q = p
    BY <1>1, <2>1
  <2>3. QED BY <1>1, <1>4, <2>2 DEF ssh_tcp_recv_fin, Expire, Dies
<1>5. CASE UNCHANGED vars
  BY <1>5 DEF vars
<1>6. QED BY <1>2, <1>3, <1>4, <1>5 DEF Next, ssh_server_poll, ssh_tcp_poll

LEMMA SshInvariant == Spec => []SshInv
BY InitInv, NextKeepsInv, PTL DEF Spec

\* Type correctness: neither ring overflows, whatever the sizes and the client.
THEOREM SshTypeCorrect == Spec => []TypeOK
<1>1. SshInv => TypeOK
  BY DEF SshInv
<1>2. QED BY <1>1, SshInvariant, PTL

\* Session, wolfSSH's object and connections agree at every moment, for every
\* number of connections.
THEOREM SshNoOrphans == Spec => []NoOrphans
<1>1. SshInv => NoOrphans
  BY DEF SshInv
<1>2. QED BY <1>1, SshInvariant, PTL

\* A close of the server wastes at most the packet that wolfSSH keeps: shell
\* output that TCP had no room for, or a parked SFTP reply.
THEOREM SshOnePacketCut == Spec => []OnePacketCut
<1>1. SshInv => OnePacketCut
  BY DEF SshInv
<1>2. QED BY <1>1, SshInvariant, PTL

\* A connection that the server has closed never touches the next session.
THEOREM SshClosedMute == Spec => ClosedConnectionsAreMute
<1>1. SshInv /\ [Next]_vars =>
        [\A p \in Pcb :
           conn[p].tcp = "closing" /\ conn'[p] # conn[p] => UNCHANGED <<s_sess, s_ssh>>]_vars
  BY NextIsMute
<1>2. QED BY <1>1, SshInvariant, PTL DEF Spec, ClosedConnectionsAreMute
=============================================================================
