----------------------------- MODULE WorldSocket -----------------------------
(***************************************************************************)
(* One connection to a world server: the framing and the header cipher of  *)
(* src/net/world_socket.c over the buffers of src/net/socket.c and         *)
(* src/net/buffer.c, and the handler that switches the cipher on.          *)
(*                                                                         *)
(* A byte is known by its place in the stream it travels in, so a buffer   *)
(* is the interval between two places: [taken, arrived) is what            *)
(* the read buffer holds and [passed, written) what the write buffer       *)
(* holds.  A packet is a record of where its header starts, how many bytes *)
(* of body the header promises, whether they followed, and the place of    *)
(* the header in the cipher: the cipher only covers headers, and each end  *)
(* gets a header right only when it deciphers it at the place where the    *)
(* other end enciphered it.                                                *)
(*                                                                         *)
(* TCP and the server are outside the program: bytes arrive in order, in   *)
(* pieces of any size, and the server opens with SMSG_AUTH_CHALLENGE and   *)
(* ciphers from the CMSG_AUTH_SESSION it receives on.                      *)
(***************************************************************************)
EXTENDS Integers, Sequences, FiniteSets, SequencesExt

CONSTANTS
  Size,        \* of each buffer: 1024 * 128
  DownBodies,  \* lengths of body the server sends
  UpBodies,    \* lengths of body the client sends
  MaxDown,     \* bound on the packets of the server
  MaxUp        \* bound on the packets of the client

DownHead == 4  \* length and opcode of a packet of the server
UpHead   == 6  \* of the client
Salt     == 4  \* what the handler of a challenge reads of it
Plain    == -1 \* the place of a header that is not ciphered

ASSUME BodiesAreLengths == DownBodies \subseteq Nat /\ UpBodies \subseteq Nat
ASSUME BoundsAreNat == MaxDown \in Nat /\ MaxUp \in Nat
(* The length of a packet has 16 bits: one always fits in the buffer.      *)
ASSUME PacketFits == Size \in Nat /\ Size >= DownHead /\ \A n \in DownBodies : DownHead + n <= Size

VARIABLES
  at,        \* where the tick is
  ciphered,  \* socket->ciphered
  recvN,     \* recv_i and recv_j: headers deciphered since init_cipher
  sendN,     \* send_i and send_j: headers enciphered
  taken, arrived,   \* rbuffer.position and limit, as places in the stream
  passed, written,  \* what send took, and what was written, of wbuffer
  down,      \* the packets the server has sent
  up,        \* the packets the client has put in wbuffer
  handled,   \* history: the packets handed to net_packet_handle, by number
  srv        \* the server: see Init

cipherVars == <<ciphered, recvN, sendN>>
vars == <<at, ciphered, recvN, sendN, taken, arrived, passed, written, down, up,
          handled, srv>>

Garbled == 0  \* a packet that is none of those that were sent

(* where the packets so far end                                            *)
EndOf(ps, head) ==
  IF ps = <<>> THEN 0 ELSE ps[Len(ps)].start + head + ps[Len(ps)].body
Sent == EndOf(down, DownHead)

Packet(op, start, body, whole, step) ==
  [op |-> op, start |-> start, body |-> body, whole |-> whole, step |-> step]

(* the packet whose header is at a place and is deciphered at step n       *)
Reads(ps, place, n) == {i \in DOMAIN ps : ps[i].start = place /\ ps[i].step = n}

Init ==
  /\ at = "connecting"
  /\ ciphered = FALSE /\ recvN = 0 /\ sendN = 0
  /\ taken = 0 /\ arrived = 0 /\ passed = 0 /\ written = 0
  /\ down = <<>> /\ up = <<>> /\ handled = <<>>
  /\ srv = [open |-> TRUE, ciphered |-> FALSE, sendN |-> 0, recvN |-> 0,
            parsed |-> 0, got |-> <<>>, reset |-> FALSE]

-----------------------------------------------------------------------------
(* net_world_socket_send_packet.  The header is written and ciphered       *)
(* before the body, so a body that does not fit leaves its header behind.  *)

HeadFits == written + UpHead - passed <= Size
BodyFits(n) == written + UpHead + n - passed <= Size

CipherSendNever == Plain  \* mutant
CipherSend == IF ciphered THEN sendN ELSE Plain

(* up, written                                                             *)
PutPacket(op, n) ==
  IF HeadFits
  THEN /\ up' = Append(up, Packet(op, written, n, BodyFits(n), CipherSend))
       /\ written' = written + UpHead + (IF BodyFits(n) THEN n ELSE 0)
  ELSE UNCHANGED <<up, written>>

NextSendN == IF ciphered /\ HeadFits THEN sendN + 1 ELSE sendN
NextRecvN == IF ciphered THEN recvN + 1 ELSE recvN

(* scripts, queries of names and the movement of the player send packets   *)
(* between two ticks, and before the connection is made too                *)
Send ==
  /\ at \in {"connecting", "idle"} /\ Len(up) < MaxUp
  /\ \E n \in UpBodies : PutPacket("other", n)
  /\ sendN' = NextSendN
  /\ UNCHANGED <<at, ciphered, recvN, taken, arrived, passed, down, handled, srv>>

-----------------------------------------------------------------------------
(* net_world_socket_tick: a failure makes net_tick close the socket.       *)

Goto(place) == at' = place

(* send and recv fail for good once the server has refused something sent  *)
(* to a connection it had closed; that there is nothing to read or no room *)
(* to send is no failure                                                   *)
FailingNever == FALSE  \* mutant
Failing == srv.reset

(* net_socket_get_connection_status                                        *)
Connect ==
  /\ at = "connecting"
  /\ at' \in {"idle", "closed"}
  /\ UNCHANGED <<cipherVars, taken, arrived, passed, written, down, up, handled, srv>>

(* net_socket_recv: what was not consumed is moved to the front and the    *)
(* rest of the buffer is filled; nothing to read and the end of the stream *)
(* look the same                                                           *)
KeptNone == arrived  \* mutant: the buffer is cleared whatever it holds
Kept == taken

RoomTo == Kept + Size

Recv ==
  /\ at = "idle" /\ ~Failing
  /\ taken' = Kept
  /\ \E n \in arrived..Sent : n <= RoomTo /\ arrived' = n
  /\ Goto("packets")
  /\ UNCHANGED <<cipherVars, passed, written, down, up, handled, srv>>

RecvFails ==
  /\ at = "idle" /\ Failing
  /\ Goto("closed")
  /\ UNCHANGED <<cipherVars, taken, arrived, passed, written, down, up, handled, srv>>

(* The length the header at the read position announces.  The guard of     *)
(* recv_packet always holds, so a header that has not arrived is read too: *)
(* of the length, two bytes, at least one is then whatever the buffer      *)
(* held.  A header deciphered at the wrong place says anything.            *)
AnyBody == 0..(Size - DownHead)
Announced ==
  LET seen == Reads(down, taken, IF ciphered THEN recvN ELSE Plain) IN
  IF arrived - taken >= 2 /\ seen # {} THEN {down[i].body : i \in seen} ELSE AnyBody

(* len + 2 bytes, of which at least two: a packet whose length is not      *)
(* there is never complete                                                 *)
CompleteIfBody(n) == taken + n <= arrived  \* mutant
CompleteIfMore(n) == taken + DownHead + n < arrived  \* mutant
Complete(n) == taken + DownHead + n <= arrived

(* recv_packet finds no whole packet: the place in the cipher is restored  *)
NoPacket ==
  /\ at = "packets"
  /\ \E n \in Announced : ~Complete(n)
  /\ Goto("send")
  /\ UNCHANGED <<cipherVars, taken, arrived, passed, written, down, up, handled, srv>>

Numbered(n) ==
  LET seen == {i \in Reads(down, taken, IF ciphered THEN recvN ELSE Plain) : down[i].body = n}
  IN IF seen # {} THEN CHOOSE i \in seen : TRUE ELSE Garbled

(* net_smsg_auth_challenge sends CMSG_AUTH_SESSION, then                   *)
(* net_world_socket_init_cipher starts both directions; when the packet    *)
(* does not fit, or the challenge has no salt, the handler gives up        *)
InitCipher == ciphered' = TRUE /\ recvN' = 0 /\ sendN' = 0

AnswerChallenge ==
  \E n \in UpBodies :
    /\ PutPacket("session", n)
    /\ IF HeadFits /\ BodyFits(n)
       THEN InitCipher
       ELSE recvN' = NextRecvN /\ sendN' = NextSendN /\ UNCHANGED ciphered
Ignore == recvN' = NextRecvN /\ UNCHANGED <<ciphered, up, written, sendN>>
HandleChallenge(body) == IF body < Salt THEN Ignore ELSE AnswerChallenge

(* the other handlers read the packet, and some answer it                  *)
HandleOther ==
  \/ Ignore
  \/ /\ recvN' = NextRecvN /\ UNCHANGED ciphered
     /\ Len(up) < MaxUp /\ (\E n \in UpBodies : PutPacket("other", n)) /\ sendN' = NextSendN

(* recv_packet finds one: its header is deciphered for good                *)
HandlePacket ==
  /\ at = "packets"
  /\ \E n \in Announced :
       /\ Complete(n)
       /\ handled' = Append(handled, Numbered(n))
       /\ IF Numbered(n) \in DOMAIN down /\ down[Numbered(n)].op = "challenge"
          THEN HandleChallenge(n) ELSE HandleOther
       /\ taken' = taken + DownHead + n
  /\ UNCHANGED <<at, arrived, passed, down, srv>>

(* net_socket_send: any number of the bytes is taken, the rest is moved to *)
(* the front of the buffer                                                 *)
SocketSend ==
  /\ at = "send"
  /\ IF Failing
     THEN Goto("closed") /\ UNCHANGED <<passed, srv>>
     ELSE /\ Goto("idle")
          /\ \E n \in passed..written :
               /\ passed' = n
               /\ srv' = [srv EXCEPT !.reset = ~srv.open /\ n > passed]
  /\ UNCHANGED <<cipherVars, taken, arrived, written, down, up, handled>>

Closed == at = "closed" /\ UNCHANGED vars

-----------------------------------------------------------------------------
(* The server.                                                             *)

SrvSend ==
  /\ at # "connecting" /\ srv.open /\ Len(down) < MaxDown
  /\ \E n \in DownBodies :
       \/ /\ down = <<>>
          /\ down' = <<Packet("challenge", 0, n, TRUE, Plain)>>
          /\ UNCHANGED srv
       \/ /\ srv.ciphered
          /\ down' = Append(down, Packet("other", Sent, n, TRUE, srv.sendN))
          /\ srv' = [srv EXCEPT !.sendN = @ + 1]
  /\ UNCHANGED <<at, cipherVars, taken, arrived, passed, written, up, handled>>

(* the packet it reads next                                                *)
SrvReads == {i \in DOMAIN up : up[i].start = srv.parsed}

(* a header deciphered out of its place, or one without its body, is not   *)
(* what the server waits for                                               *)
SrvAccepts(p) == p.whole /\ p.step = IF srv.ciphered THEN srv.recvN ELSE Plain

SrvGets ==
  /\ srv.open
  /\ \E i \in SrvReads :
       LET p == up[i]  ok == SrvAccepts(p) IN
       /\ p.start + UpHead + p.body <= passed
       /\ srv' = [srv EXCEPT
            !.parsed = p.start + UpHead + p.body,
            !.got = Append(@, IF ok THEN i ELSE Garbled),
            !.recvN = IF srv.ciphered THEN @ + 1 ELSE @,
            !.ciphered = @ \/ (ok /\ p.op = "session"),
            !.open = ok]
  /\ UNCHANGED <<at, cipherVars, taken, arrived, passed, written, down, up, handled>>

(* it may give the connection up for reasons of its own                    *)
SrvCloses ==
  /\ srv.open
  /\ srv' = [srv EXCEPT !.open = FALSE]
  /\ UNCHANGED <<at, cipherVars, taken, arrived, passed, written, down, up, handled>>

Tick == Recv \/ RecvFails \/ NoPacket \/ HandlePacket \/ SocketSend
Next == Send \/ Connect \/ Tick \/ Closed \/ SrvSend \/ SrvGets \/ SrvCloses

Spec == Init /\ [][Next]_vars

(* The main loop ticks for ever; what was sent arrives, and what was       *)
(* written is taken, when the program asks often enough.  Whether a        *)
(* connection is accepted or refused at all is not up to the program.      *)
FairSpec ==
  /\ Spec
  /\ WF_vars(Tick)
  /\ SF_vars(Recv /\ arrived' > arrived)
  /\ SF_vars(SocketSend /\ passed' > passed)

-----------------------------------------------------------------------------
(* Types.                                                                  *)

PacketType(ops) == [op : ops, start : Nat, body : Nat, whole : BOOLEAN, step : Nat \cup {Plain}]

SrvType == [open : BOOLEAN, ciphered : BOOLEAN, sendN : Nat, recvN : Nat,
            parsed : Nat, got : Seq(Nat), reset : BOOLEAN]

TypeOK ==
  /\ at \in {"connecting", "idle", "packets", "send", "closed"}
  /\ ciphered \in BOOLEAN /\ recvN \in Nat /\ sendN \in Nat
  /\ taken \in Nat /\ arrived \in Nat /\ taken <= arrived
  /\ passed \in Nat /\ written \in Nat /\ passed <= written
  /\ down \in Seq(PacketType({"challenge", "other"}))
  /\ up \in Seq(PacketType({"session", "other"}))
  /\ handled \in Seq(Nat)
  /\ srv \in SrvType

(* What is handed to the handlers is what the server sent, in order, each  *)
(* packet once and deciphered at the place where it was enciphered,        *)
(* however the bytes were cut.  The cipher of this direction is switched   *)
(* on with nothing behind the challenge in the buffer, as the server waits *)
(* for the session; packets that wait while it is switched on are those of *)
(* the other direction, below.                                             *)
InOrder ==
  /\ Len(handled) <= Len(down)
  /\ \A i \in DOMAIN handled : handled[i] = i

(* The server gets what the client sent, in order, until a packet whose    *)
(* body did not fit in the buffer.                                         *)
ServerInOrder ==
  \A i \in DOMAIN srv.got : srv.got[i] = i \/ \E j \in 1..i : ~up[j].whole

(* recv is never asked to read into a full buffer, which it would answer   *)
(* like a connection with nothing to say, for ever.                        *)
RoomToRead == at = "idle" => arrived - taken < Size

(* what the server sends is handled, while the connection lasts            *)
SentHandled ==
  \A n \in 1..MaxDown : (Len(down) >= n) ~> (Len(handled) >= n \/ at = "closed")

(* The end of the stream is not noticed by reading, only by the failure    *)
(* that follows something sent to a server that has gone.                  *)
CloseNoticed ==
  (~srv.open /\ at # "connecting" /\ written > passed) ~> at = "closed"
=============================================================================
