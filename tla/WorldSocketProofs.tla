-------------------------- MODULE WorldSocketProofs --------------------------
(* Proofs about WorldSocket, for any sizes of packets and any buffer that  *)
(* holds the longest of them.                                              *)
EXTENDS WorldSocket, SequenceTheorems, TLAPS

(* The packets of the server follow one another in the stream, and their   *)
(* headers in the cipher: the first is plain.                              *)
DownChain ==
  /\ \A i \in DOMAIN down :
       /\ down[i].body \in DownBodies
       /\ down[i].step = IF i = 1 THEN Plain ELSE i - 2
       /\ (down[i].op = "challenge") <=> (i = 1)
       /\ down[i].start + DownHead + down[i].body =
            IF i < Len(down) THEN down[i + 1].start ELSE Sent
  /\ \A i, j \in DOMAIN down : i < j => down[i].start < down[j].start
  /\ down # <<>> => down[1].start = 0

(* where packet k starts, or will start                                    *)
StartOf(k) == IF k <= Len(down) THEN down[k].start ELSE Sent

(* The client has consumed whole packets, and is at the place in the       *)
(* cipher that follows them.                                               *)
ClientInStep ==
  /\ Len(handled) <= Len(down) /\ \A i \in DOMAIN handled : handled[i] = i
  /\ taken = StartOf(Len(handled) + 1)
  /\ arrived <= Sent /\ arrived <= taken + Size
  /\ ciphered => handled # <<>> /\ recvN = Len(handled) - 1

(* The server ciphers because of a session packet that arrived whole, and  *)
(* the client put one into its buffer when it began to cipher itself.      *)
ServerInStep ==
  /\ \A i \in DOMAIN up : up[i].op = "session" /\ up[i].whole => ciphered
  /\ srv.ciphered => ciphered /\ down # <<>> /\ srv.sendN = Len(down) - 1
  /\ ~srv.ciphered => Len(down) <= 1 /\ srv.sendN = 0

(* Between two loops over the packets at most a part of one is kept.       *)
PartKept ==
  at \in {"idle", "send"} =>
    IF Len(handled) < Len(down)
    THEN arrived < taken + DownHead + down[Len(handled) + 1].body
    ELSE arrived = taken

(* nothing arrives before the connection is made                           *)
NotYet == at = "connecting" => down = <<>>

Inv == TypeOK /\ DownChain /\ ClientInStep /\ ServerInStep /\ NotYet /\ PartKept

-----------------------------------------------------------------------------
(* Types.                                                                  *)

LEMMA InitType == Init => TypeOK
<1> SUFFICES ASSUME Init PROVE TypeOK
  OBVIOUS
<1>1. <<>> \in Seq(Nat) /\ <<>> \in Seq(PacketType({"challenge", "other"}))
      /\ <<>> \in Seq(PacketType({"session", "other"}))
  OBVIOUS
<1>2. [open |-> TRUE, ciphered |-> FALSE, sendN |-> 0, recvN |-> 0,
       parsed |-> 0, got |-> <<>>, reset |-> FALSE] \in SrvType
  BY <1>1 DEF SrvType
<1>3. srv \in SrvType
  BY <1>2 DEF Init
<1>4. /\ down \in Seq(PacketType({"challenge", "other"}))
      /\ up \in Seq(PacketType({"session", "other"}))
      /\ handled \in Seq(Nat)
  BY <1>1, Zenon DEF Init
<1>5. /\ taken \in Nat /\ arrived \in Nat /\ taken <= arrived
      /\ passed \in Nat /\ written \in Nat /\ passed <= written
      /\ recvN \in Nat /\ sendN \in Nat
  BY DEF Init
<1>6. at \in {"connecting", "idle", "packets", "send", "closed"} /\ ciphered \in BOOLEAN
  BY DEF Init
<1> QED BY <1>3, <1>4, <1>5, <1>6, Zenon DEF TypeOK

(* what the stream of the server ends at is a place                        *)
LEMMA SentIsNat == ASSUME TypeOK PROVE Sent \in Nat
<1>1. CASE down = <<>>
  BY <1>1 DEF Sent, EndOf
<1>2. CASE down # <<>>
  <2>1. Len(down) \in DOMAIN down
    BY <1>2 DEF TypeOK
  <2>2. down[Len(down)] \in PacketType({"challenge", "other"})
    BY <2>1 DEF TypeOK
  <2> QED BY <1>2, <2>2 DEF Sent, EndOf, PacketType, DownHead
<1> QED BY <1>1, <1>2

(* writing a packet                                                        *)
LEMMA PutPacketType ==
  ASSUME TypeOK, NEW op \in {"session", "other"}, NEW n \in UpBodies, PutPacket(op, n)
  PROVE  /\ up' \in Seq(PacketType({"session", "other"}))
         /\ written' \in Nat /\ passed <= written'
         /\ NextSendN \in Nat /\ NextRecvN \in Nat
<1> n \in Nat /\ Size \in Nat
  BY BodiesAreLengths, PacketFits
<1>1. CASE HeadFits
  <2>1. Packet(op, written, n, BodyFits(n), CipherSend) \in PacketType({"session", "other"})
    BY DEF Packet, PacketType, TypeOK, BodyFits, CipherSend, UpHead, Plain
  <2>2. up \in Seq(PacketType({"session", "other"}))
    BY DEF TypeOK
  <2>3. up' \in Seq(PacketType({"session", "other"}))
    BY <1>1, <2>1, <2>2, AppendProperties DEF PutPacket
  <2> QED BY <1>1, <2>3 DEF PutPacket, TypeOK, UpHead, NextSendN, NextRecvN
<1>2. CASE ~HeadFits
  BY <1>2 DEF PutPacket, TypeOK, NextSendN, NextRecvN
<1> QED BY <1>1, <1>2

LEMMA AnnouncedIsNat == ASSUME TypeOK, NEW n \in Announced PROVE n \in Nat
<1> DEFINE seen == Reads(down, taken, IF ciphered THEN recvN ELSE Plain)
<1>1. \A i \in seen : down[i] \in PacketType({"challenge", "other"})
  BY DEF Reads, TypeOK
<1>2. \A i \in seen : down[i].body \in Nat
  BY <1>1 DEF PacketType
<1>3. AnyBody \subseteq Nat
  BY PacketFits DEF AnyBody, DownHead
<1> QED BY <1>2, <1>3 DEF Announced

LEMMA NumberedIsNat == ASSUME TypeOK, NEW n \in Nat PROVE Numbered(n) \in Nat
<1> DEFINE seen == {i \in Reads(down, taken, IF ciphered THEN recvN ELSE Plain) : down[i].body = n}
<1>1. seen \subseteq Nat
  BY DEF Reads, TypeOK
<1>2. CASE seen # {}
  <2>1. (CHOOSE i \in seen : TRUE) \in seen
    BY <1>2
  <2> QED BY <1>1, <1>2, <2>1 DEF Numbered
<1>3. CASE seen = {}
  BY <1>3 DEF Numbered, Garbled
<1> QED BY <1>2, <1>3

(* handling a packet                                                       *)
LEMMA HandleType ==
  ASSUME TypeOK, NEW body, HandleChallenge(body) \/ HandleOther
  PROVE  /\ up' \in Seq(PacketType({"session", "other"}))
         /\ written' \in Nat /\ passed <= written'
         /\ ciphered' \in BOOLEAN /\ recvN' \in Nat /\ sendN' \in Nat
<1>0. CASE Ignore
  BY <1>0 DEF Ignore, TypeOK, NextRecvN
<1>1. CASE AnswerChallenge
  <2>1. PICK n \in UpBodies :
          /\ PutPacket("session", n)
          /\ IF HeadFits /\ BodyFits(n)
             THEN InitCipher
             ELSE recvN' = NextRecvN /\ sendN' = NextSendN /\ UNCHANGED ciphered
    BY <1>1 DEF AnswerChallenge
  <2>2. up' \in Seq(PacketType({"session", "other"})) /\ written' \in Nat /\ passed <= written'
        /\ NextSendN \in Nat /\ NextRecvN \in Nat
    BY <2>1, PutPacketType
  <2>3. CASE HeadFits /\ BodyFits(n)
    BY <2>1, <2>2, <2>3 DEF InitCipher
  <2>4. CASE ~(HeadFits /\ BodyFits(n))
    <3>1. recvN' = NextRecvN /\ sendN' = NextSendN /\ ciphered' = ciphered
      BY <2>1, <2>4
    <3> QED BY <2>2, <3>1 DEF TypeOK
  <2> QED BY <2>3, <2>4
<1>2. CASE HandleOther /\ ~Ignore
  <2>1. PICK n \in UpBodies : PutPacket("other", n)
    BY <1>2 DEF HandleOther
  <2>2. up' \in Seq(PacketType({"session", "other"})) /\ written' \in Nat /\ passed <= written'
        /\ NextSendN \in Nat /\ NextRecvN \in Nat
    BY <2>1, PutPacketType
  <2>3. recvN' = NextRecvN /\ sendN' = NextSendN /\ ciphered' = ciphered
    BY <1>2 DEF HandleOther
  <2> QED BY <2>2, <2>3 DEF TypeOK
<1> QED BY <1>0, <1>1, <1>2 DEF HandleChallenge

LEMMA StepType == ASSUME TypeOK, [Next]_vars PROVE TypeOK'
<1> USE DEF TypeOK, cipherVars
<1>1. CASE Send
  <2>1. PICK n \in UpBodies : PutPacket("other", n)
    BY <1>1 DEF Send
  <2>2. up' \in Seq(PacketType({"session", "other"})) /\ written' \in Nat /\ passed <= written'
        /\ NextSendN \in Nat
    BY <2>1, PutPacketType
  <2> QED BY <1>1, <2>2 DEF Send
<1>2. CASE Connect
  BY <1>2 DEF Connect
<1>3. CASE Recv
  <2>1. Sent \in Nat
    BY SentIsNat
  <2> QED BY <1>3, <2>1 DEF Recv, Goto, Kept
<1>4. CASE RecvFails \/ NoPacket
  BY <1>4 DEF RecvFails, NoPacket, Goto
<1>5. CASE HandlePacket
  <2>1. PICK n \in Announced :
          /\ Complete(n)
          /\ handled' = Append(handled, Numbered(n))
          /\ HandleChallenge(n) \/ HandleOther
          /\ taken' = taken + DownHead + n
    BY <1>5 DEF HandlePacket
  <2>2. n \in Nat /\ Numbered(n) \in Nat
    BY AnnouncedIsNat, NumberedIsNat
  <2>3. /\ up' \in Seq(PacketType({"session", "other"}))
        /\ written' \in Nat /\ passed <= written'
        /\ ciphered' \in BOOLEAN /\ recvN' \in Nat /\ sendN' \in Nat
    BY <2>1, HandleType
  <2>4. handled' \in Seq(Nat) /\ taken' \in Nat /\ taken' <= arrived
    BY <2>1, <2>2 DEF Complete, DownHead
  <2> QED BY <1>5, <2>3, <2>4 DEF HandlePacket
<1>6. CASE SocketSend
  <2>1. passed' \in Nat /\ passed' <= written
    BY <1>6 DEF SocketSend
  <2>2. srv' \in SrvType
    <3>1. CASE srv' = srv
      BY <3>1
    <3>2. ASSUME NEW b \in BOOLEAN, srv' = [srv EXCEPT !.reset = b] PROVE srv' \in SrvType
      BY <3>2 DEF SrvType
    <3> QED BY <1>6, <3>1, <3>2 DEF SocketSend
  <2> QED BY <1>6, <2>1, <2>2 DEF SocketSend, Goto
<1>7. CASE SrvSend
  <2>1. PICK n \in DownBodies :
       \/ /\ down' = <<Packet("challenge", 0, n, TRUE, Plain)>>
          /\ UNCHANGED srv
       \/ /\ down' = Append(down, Packet("other", Sent, n, TRUE, srv.sendN))
          /\ srv' = [srv EXCEPT !.sendN = @ + 1]
    BY <1>7 DEF SrvSend
  <2>2. n \in Nat /\ Sent \in Nat
    BY SentIsNat, BodiesAreLengths
  <2>3. /\ Packet("challenge", 0, n, TRUE, Plain) \in PacketType({"challenge", "other"})
        /\ Packet("other", Sent, n, TRUE, srv.sendN) \in PacketType({"challenge", "other"})
    BY <2>2 DEF Packet, PacketType, SrvType
  <2>4. down' \in Seq(PacketType({"challenge", "other"}))
    <3>1. CASE down' = <<Packet("challenge", 0, n, TRUE, Plain)>>
      <4> DEFINE p == Packet("challenge", 0, n, TRUE, Plain)
      <4>1. p \in PacketType({"challenge", "other"})
        BY <2>3
      <4> HIDE DEF p
      <4>2. <<p>> \in Seq(PacketType({"challenge", "other"}))
        BY <4>1
      <4> QED BY <3>1, <4>2 DEF p
    <3>2. CASE down' = Append(down, Packet("other", Sent, n, TRUE, srv.sendN))
      BY <2>3, <3>2, AppendProperties
    <3> QED BY <2>1, <3>1, <3>2
  <2>5. srv' \in SrvType
    <3>1. ASSUME NEW a \in Nat, srv' = [srv EXCEPT !.sendN = a] PROVE srv' \in SrvType
      BY <3>1 DEF SrvType
    <3>2. srv.sendN + 1 \in Nat
      BY DEF SrvType
    <3> QED BY <2>1, <3>1, <3>2
  <2> QED BY <1>7, <2>4, <2>5 DEF SrvSend
<1>8. CASE SrvGets
  <2>1. PICK i \in SrvReads :
          srv' = [srv EXCEPT
            !.parsed = up[i].start + UpHead + up[i].body,
            !.got = Append(@, IF SrvAccepts(up[i]) THEN i ELSE Garbled),
            !.recvN = IF srv.ciphered THEN @ + 1 ELSE @,
            !.ciphered = @ \/ (SrvAccepts(up[i]) /\ up[i].op = "session"),
            !.open = SrvAccepts(up[i])]
    BY <1>8 DEF SrvGets
  <2>2. i \in DOMAIN up /\ i \in Nat /\ up[i] \in PacketType({"session", "other"})
    BY DEF SrvReads
  <2>3. /\ up[i].start + UpHead + up[i].body \in Nat
        /\ (IF SrvAccepts(up[i]) THEN i ELSE Garbled) \in Nat
        /\ SrvAccepts(up[i]) \in BOOLEAN
    BY <2>2 DEF PacketType, SrvAccepts, UpHead, Garbled
  <2>4. ASSUME NEW a \in Nat, NEW g \in Nat, NEW b \in BOOLEAN, NEW c \in BOOLEAN,
               NEW d \in Nat,
               srv' = [srv EXCEPT !.parsed = a, !.got = Append(@, g), !.recvN = d,
                                  !.ciphered = b, !.open = c]
        PROVE  srv' \in SrvType
    <3>1. Append(srv.got, g) \in Seq(Nat)
      BY AppendProperties DEF SrvType
    <3> QED BY <2>4, <3>1 DEF SrvType
  <2>5. srv.recvN \in Nat /\ srv.ciphered \in BOOLEAN
    BY DEF SrvType
  <2>6. /\ (IF srv.ciphered THEN srv.recvN + 1 ELSE srv.recvN) \in Nat
        /\ (srv.ciphered \/ (SrvAccepts(up[i]) /\ up[i].op = "session")) \in BOOLEAN
    BY <2>3, <2>5
  <2>7. srv' \in SrvType
    BY <2>1, <2>3, <2>4, <2>6
  <2> QED BY <1>8, <2>7 DEF SrvGets
<1>9. CASE SrvCloses
  <2>1. srv' \in SrvType
    <3>1. Append(srv.got, Garbled) \in Seq(Nat)
      BY AppendProperties DEF SrvType, Garbled
    <3> QED BY <1>9, <3>1 DEF SrvCloses, SrvType
  <2> QED BY <1>9, <2>1 DEF SrvCloses
<1>10. CASE Closed \/ UNCHANGED vars
  BY <1>10 DEF Closed, vars
<1> QED BY <1>1, <1>2, <1>3, <1>4, <1>5, <1>6, <1>7, <1>8, <1>9, <1>10 DEF Next, Tick

(* The places of a connection are places and its counters are counts,      *)
(* however the server, the scripts and the network behave.                 *)
THEOREM TypeCorrect == Spec => []TypeOK
<1>1. Init => TypeOK BY InitType
<1>2. TypeOK /\ [Next]_vars => TypeOK' BY StepType
<1> QED BY <1>1, <1>2, PTL DEF Spec

-----------------------------------------------------------------------------
(* The packets of the server.                                              *)

LEMMA DownFacts ==
  ASSUME TypeOK, NEW i \in DOMAIN down
  PROVE  /\ i \in 1..Len(down) /\ Len(down) \in Nat
         /\ down[i].start \in Nat /\ down[i].body \in Nat /\ down[i].step \in Nat \cup {Plain}
<1>1. down[i] \in PacketType({"challenge", "other"}) /\ i \in 1..Len(down) /\ Len(down) \in Nat
  BY DEF TypeOK
<1> QED BY <1>1 DEF PacketType

(* The next packet is the only one whose header is at the read position,   *)
(* and the client is at its place in the cipher.                           *)
LEMMA NextPacket ==
  ASSUME Inv, taken < arrived
  PROVE  /\ Len(handled) + 1 \in DOMAIN down
         /\ taken = down[Len(handled) + 1].start
         /\ Reads(down, taken, IF ciphered THEN recvN ELSE Plain) = {Len(handled) + 1}
<1> DEFINE k == Len(handled) + 1
           step == IF ciphered THEN recvN ELSE Plain
<1>1. Len(handled) \in Nat /\ Len(down) \in Nat /\ taken \in Nat /\ arrived \in Nat /\ Sent \in Nat
  BY SentIsNat DEF Inv, TypeOK
<1>2. k \in DOMAIN down
  BY <1>1 DEF Inv, ClientInStep, StartOf
<1>3. taken = down[k].start
  BY <1>1, <1>2 DEF Inv, ClientInStep, StartOf
<1>4. down[k].step = step
  <2>1. CASE k = 1
    <3>1. ~ciphered
      BY <2>1, <1>1 DEF Inv, ClientInStep
    <3> QED BY <1>2, <2>1, <3>1 DEF Inv, DownChain
  <2>2. CASE k # 1
    <3>1. ciphered /\ recvN = k - 2
      BY <1>1, <1>2, <2>2 DEF Inv, ClientInStep, ServerInStep
    <3> QED BY <1>2, <2>2, <3>1 DEF Inv, DownChain
  <2> QED BY <2>1, <2>2
<1>5. ASSUME NEW i \in DOMAIN down, down[i].start = taken PROVE i = k
  <2>1. i < k \/ k < i \/ i = k
    BY <1>1, <1>2, DownFacts DEF Inv
  <2>2. down[i].start \in Nat /\ down[k].start \in Nat
    BY <1>2, DownFacts DEF Inv
  <2> QED BY <1>2, <1>3, <1>5, <2>1, <2>2 DEF Inv, DownChain
<1> QED BY <1>2, <1>3, <1>4, <1>5 DEF Reads

(* A loop over the packets that ends has left a part of one at most: a     *)
(* header whose length is not there is no whole packet whatever it says.   *)
LEMMA PartLeft ==
  ASSUME Inv, NEW n \in Announced, ~Complete(n)
  PROVE  IF Len(handled) < Len(down)
         THEN arrived < taken + DownHead + down[Len(handled) + 1].body
         ELSE arrived = taken
<1> DEFINE k == Len(handled) + 1
<1>1. Len(handled) \in Nat /\ Len(down) \in Nat /\ taken \in Nat /\ arrived \in Nat /\ Sent \in Nat
      /\ taken <= arrived
  BY SentIsNat DEF Inv, TypeOK
<1>2. CASE Len(handled) < Len(down)
  <2>1. k \in DOMAIN down
    BY <1>1, <1>2 DEF Inv, TypeOK
  <2>2. down[k].body \in Nat
    BY <2>1, DownFacts DEF Inv
  <2>3. CASE arrived - taken >= 2
    <3>1. Reads(down, taken, IF ciphered THEN recvN ELSE Plain) = {k}
      BY <1>1, <2>3, NextPacket
    <3>2. n = down[k].body
      BY <2>3, <3>1 DEF Announced
    <3> QED BY <1>1, <1>2, <2>2, <3>2 DEF Complete, DownHead
  <2>4. CASE ~(arrived - taken >= 2)
    BY <1>1, <1>2, <2>2, <2>4 DEF DownHead
  <2> QED BY <2>3, <2>4
<1>3. CASE ~(Len(handled) < Len(down))
  BY <1>1, <1>3 DEF Inv, ClientInStep, StartOf
<1> QED BY <1>2, <1>3

(* a whole packet is the next one                                          *)
LEMMA WholeIsNext ==
  ASSUME Inv, NEW n \in Announced, Complete(n)
  PROVE  /\ Len(handled) + 1 \in DOMAIN down
         /\ n = down[Len(handled) + 1].body
         /\ Numbered(n) = Len(handled) + 1
         /\ taken = down[Len(handled) + 1].start
<1> DEFINE k == Len(handled) + 1
           seen == Reads(down, taken, IF ciphered THEN recvN ELSE Plain)
<1>1. n \in Nat /\ taken \in Nat /\ arrived \in Nat
  BY AnnouncedIsNat DEF Inv, TypeOK
<1>2. taken + DownHead <= arrived
  BY <1>1 DEF Complete, DownHead
<1>3. k \in DOMAIN down /\ taken = down[k].start /\ seen = {k}
  BY <1>1, <1>2, NextPacket DEF DownHead
<1>4. n = down[k].body
  <2>1. arrived - taken >= 2
    BY <1>1, <1>2 DEF DownHead
  <2>2. Reads(down, taken, IF ciphered THEN recvN ELSE Plain) = {k}
    BY <1>3
  <2> QED BY <2>1, <2>2 DEF Announced
<1>5. {i \in seen : down[i].body = n} = {k}
  BY <1>3, <1>4
<1>6. Numbered(n) = k
  BY <1>5 DEF Numbered
<1> QED BY <1>3, <1>4, <1>6

-----------------------------------------------------------------------------
(* The invariant.                                                          *)

LEMMA InitInv == Init => Inv
<1> SUFFICES ASSUME Init PROVE Inv
  OBVIOUS
<1>1. TypeOK
  BY InitType
<1>2. DOMAIN down = {} /\ Len(down) = 0 /\ Sent = 0 /\ DOMAIN up = {}
      /\ DOMAIN handled = {} /\ Len(handled) = 0 /\ down = <<>>
  BY DEF Init, Sent, EndOf
<1>3. DownChain
  BY <1>2 DEF DownChain
<1>4. ClientInStep
  BY <1>2, PacketFits DEF Init, ClientInStep, StartOf
<1>5. ServerInStep
  BY <1>2 DEF Init, ServerInStep
<1>6. NotYet /\ PartKept
  BY <1>2 DEF Init, NotYet, PartKept
<1> QED BY <1>1, <1>3, <1>4, <1>5, <1>6 DEF Inv

(* What fits from one place on fits from a later one.                      *)
LEMMA StillFits ==
  ASSUME NEW a \in Nat, NEW b \in Nat, NEW c \in Nat, NEW d \in Nat, a <= b + d, c >= b
  PROVE  a <= c + d
OBVIOUS

(* the packets of the client: only a packet that switches the cipher on is *)
(* a whole session packet                                                  *)
LEMMA PutPacketUp ==
  ASSUME Inv, NEW op \in {"session", "other"}, NEW n \in UpBodies, PutPacket(op, n),
         ciphered => ciphered',
         op = "session" /\ HeadFits /\ BodyFits(n) => ciphered'
  PROVE  \A i \in DOMAIN up' : up'[i].op = "session" /\ up'[i].whole => ciphered'
<1> USE DEF Inv, ServerInStep
<1>1. CASE ~HeadFits
  BY <1>1 DEF PutPacket
<1>2. CASE HeadFits
  <2> DEFINE p == Packet(op, written, n, BodyFits(n), CipherSend)
  <2>1. up' = Append(up, p) /\ up \in Seq(PacketType({"session", "other"}))
    BY <1>2 DEF PutPacket, TypeOK
  <2>2. p.op = op /\ p.whole = BodyFits(n)
    BY DEF Packet
  <2> HIDE DEF p
  <2>3. /\ DOMAIN up' = 1..(Len(up) + 1) /\ Len(up) \in Nat /\ DOMAIN up = 1..Len(up)
        /\ up'[Len(up) + 1] = p /\ \A i \in 1..Len(up) : up'[i] = up[i]
    BY <2>1
  <2> QED BY <1>2, <2>2, <2>3
<1> QED BY <1>1, <1>2

LEMMA StepInv == ASSUME Inv, [Next]_vars PROVE Inv'
<1>1. TypeOK'
  BY StepType DEF Inv
<1>2. CASE Send
  <2>1. PICK n \in UpBodies : PutPacket("other", n)
    BY <1>2 DEF Send
  <2>2. \A i \in DOMAIN up' : up'[i].op = "session" /\ up'[i].whole => ciphered'
    BY <1>2, <2>1, PutPacketUp DEF Send
  <2>3. ServerInStep'
    BY <1>2, <2>2 DEF Send, Inv, ServerInStep
  <2>4. DownChain' /\ NotYet' /\ PartKept'
    BY <1>2 DEF Send, Inv, DownChain, NotYet, PartKept, Sent
  <2>5. ClientInStep'
    BY <1>2 DEF Send, Inv, ClientInStep, StartOf, Sent
  <2> QED BY <1>1, <2>3, <2>4, <2>5 DEF Inv
<1>3. CASE Connect
  <2>1. PartKept'
    BY <1>3 DEF Connect, Inv, NotYet, PartKept, ClientInStep, TypeOK, StartOf, Sent, EndOf
  <2> QED BY <1>1, <1>3, <2>1 DEF Connect, cipherVars, Inv, DownChain, NotYet, ClientInStep,
            StartOf, Sent, ServerInStep
<1>4. CASE Recv
  <2>1. arrived' \in arrived..Sent /\ arrived' <= taken + Size /\ taken' = taken
    BY <1>4 DEF Recv, RoomTo, Kept
  <2>2. Sent \in Nat /\ arrived \in Nat
    BY SentIsNat DEF Inv, TypeOK
  <2>3. ClientInStep'
    BY <1>4, <2>1, <2>2 DEF Recv, cipherVars, Inv, ClientInStep, StartOf, Sent
  <2> QED BY <1>1, <1>4, <2>3 DEF Recv, Goto, cipherVars, Inv, DownChain, NotYet, PartKept,
            Sent, ServerInStep
<1>5. CASE NoPacket
  <2>1. PartKept'
    BY <1>5, PartLeft DEF NoPacket, Goto, PartKept
  <2> QED BY <1>1, <1>5, <2>1 DEF NoPacket, Goto, cipherVars, Inv, DownChain, NotYet,
            ClientInStep, StartOf, Sent, ServerInStep
<1>6. CASE HandlePacket
  <2> DEFINE k == Len(handled) + 1
  <2>1. PICK n \in Announced :
          /\ Complete(n)
          /\ handled' = Append(handled, Numbered(n))
          /\ IF Numbered(n) \in DOMAIN down /\ down[Numbered(n)].op = "challenge"
             THEN HandleChallenge(n) ELSE HandleOther
          /\ taken' = taken + DownHead + n
    BY <1>6 DEF HandlePacket
  <2>2. k \in DOMAIN down /\ n = down[k].body /\ Numbered(n) = k /\ taken = down[k].start
    BY <2>1, WholeIsNext
  <2>3. n \in Nat /\ taken \in Nat /\ arrived \in Nat /\ Sent \in Nat /\ Len(down) \in Nat
        /\ Len(handled) \in Nat /\ handled \in Seq(Nat)
    BY SentIsNat, AnnouncedIsNat DEF Inv, TypeOK
  <2>4. /\ Len(handled') = k /\ handled' # <<>> /\ DOMAIN handled' = 1..k
        /\ \A i \in DOMAIN handled' : handled'[i] = i
    BY <2>1, <2>2, <2>3 DEF Inv, ClientInStep
  <2>5. UNCHANGED <<at, arrived, passed, down, srv>> /\ at = "packets"
    BY <1>6 DEF HandlePacket
  <2>6. taken' = (StartOf(Len(handled) + 1))'
    BY <2>1, <2>2, <2>3, <2>4, <2>5, SMTT(30) DEF Inv, DownChain, StartOf, Sent
  <2>7. taken' >= taken
    BY <2>1, <2>3 DEF DownHead
  <2>8. /\ ciphered' => recvN' = k - 1
        /\ ciphered => ciphered'
        /\ \A i \in DOMAIN up' : up'[i].op = "session" /\ up'[i].whole => ciphered'
    <3>1. CASE k = 1
      <4>1. ~ciphered
        BY <2>3, <3>1 DEF Inv, ClientInStep
      <4>2. Ignore \/ AnswerChallenge
        BY <2>1, <2>2, <3>1 DEF Inv, DownChain, HandleChallenge
      <4>3. CASE AnswerChallenge
        <5>1. PICK m \in UpBodies :
                /\ PutPacket("session", m)
                /\ IF HeadFits /\ BodyFits(m)
                   THEN InitCipher
                   ELSE recvN' = NextRecvN /\ sendN' = NextSendN /\ UNCHANGED ciphered
          BY <4>3 DEF AnswerChallenge
        <5>2. HeadFits /\ BodyFits(m) => ciphered' = TRUE /\ recvN' = 0
          BY <5>1 DEF InitCipher
        <5>3. \A i \in DOMAIN up' : up'[i].op = "session" /\ up'[i].whole => ciphered'
          BY <4>1, <5>1, <5>2, PutPacketUp
        <5>4. ciphered' => recvN' = 0
          BY <4>1, <5>1, <5>2
        <5> QED BY <3>1, <4>1, <5>3, <5>4
      <4>4. CASE Ignore
        <5>1. ciphered' = ciphered /\ up' = up
          BY <4>4 DEF Ignore
        <5>2. \A i \in DOMAIN up : up[i].op = "session" /\ up[i].whole => ciphered
          BY DEF Inv, ServerInStep
        <5> QED BY <4>1, <5>1, <5>2
      <4> QED BY <4>2, <4>3, <4>4
    <3>2. CASE k # 1
      <4>1. ciphered /\ recvN = k - 2
        BY <2>2, <2>3, <3>2 DEF Inv, ClientInStep, ServerInStep
      <4>2. HandleOther
        BY <2>1, <2>2, <3>2 DEF Inv, DownChain
      <4>3. ciphered' = ciphered /\ recvN' = k - 1
        <5>1. ciphered' = ciphered /\ recvN' = NextRecvN
          BY <4>2 DEF HandleOther, Ignore
        <5> QED BY <2>3, <4>1, <5>1 DEF NextRecvN
      <4>4. \A i \in DOMAIN up' : up'[i].op = "session" /\ up'[i].whole => ciphered'
        <5>1. CASE UNCHANGED <<up, written, sendN>>
          BY <5>1, <4>1, <4>3 DEF Inv, ServerInStep
        <5>2. CASE \E m \in UpBodies : PutPacket("other", m)
          BY <5>2, <4>3, PutPacketUp
        <5> QED BY <4>2, <5>1, <5>2 DEF HandleOther, Ignore
      <4> QED BY <4>1, <4>3, <4>4
    <3> QED BY <3>1, <3>2
  <2>9. ClientInStep'
    <3>1. Len(handled') <= Len(down')
      BY <2>2, <2>3, <2>4, <2>5 DEF Inv, TypeOK
    <3>2. arrived' <= Sent' /\ arrived' <= taken' + Size
      <4>1. taken' \in Nat /\ Size \in Nat
        BY <1>1, PacketFits DEF TypeOK
      <4>2. Sent' = Sent /\ arrived' = arrived
        BY <2>5 DEF Sent
      <4>3. arrived <= Sent /\ arrived <= taken + Size
        BY DEF Inv, ClientInStep
      <4>4. arrived' <= Sent'
        BY <4>2, <4>3, Zenon
      <4>5. taken \in Nat /\ arrived \in Nat
        BY <2>3, Zenon
      <4>6. arrived <= taken' + Size
        BY <2>7, <4>1, <4>3, <4>5, StillFits, Zenon
      <4>7. arrived' <= taken' + Size
        BY <4>2, <4>6, Zenon
      <4> QED BY <4>4, <4>7, Zenon
    <3>3. ciphered' => handled' # <<>> /\ recvN' = Len(handled') - 1
      BY <2>4, <2>8
    <3> QED BY <2>4, <2>6, <3>1, <3>2, <3>3 DEF ClientInStep
  <2>10. ServerInStep'
    BY <2>5, <2>8 DEF Inv, ServerInStep
  <2>11. DownChain' /\ NotYet' /\ PartKept'
    BY <2>5 DEF Inv, DownChain, Sent, NotYet, PartKept
  <2> QED BY <1>1, <2>9, <2>10, <2>11 DEF Inv
<1>7. CASE SocketSend
  <2>1. ServerInStep'
    BY <1>7 DEF SocketSend, cipherVars, Inv, ServerInStep, TypeOK, SrvType
  <2> QED BY <1>1, <1>7, <2>1 DEF SocketSend, Goto, cipherVars, Inv, DownChain, NotYet, PartKept,
            ClientInStep, StartOf, Sent
<1>8. CASE SrvSend
  <2>1. PICK n \in DownBodies :
       \/ /\ down = <<>>
          /\ down' = <<Packet("challenge", 0, n, TRUE, Plain)>>
          /\ UNCHANGED srv
       \/ /\ srv.ciphered
          /\ down' = Append(down, Packet("other", Sent, n, TRUE, srv.sendN))
          /\ srv' = [srv EXCEPT !.sendN = @ + 1]
    BY <1>8 DEF SrvSend
  <2>2. UNCHANGED <<at, cipherVars, taken, arrived, passed, written, up, handled>> /\ at # "connecting"
    BY <1>8 DEF SrvSend
  <2>3. n \in Nat /\ Sent \in Nat /\ Len(down) \in Nat /\ Len(handled) \in Nat
        /\ taken \in Nat /\ arrived \in Nat
    BY SentIsNat, BodiesAreLengths DEF Inv, TypeOK
  <2>4. /\ Len(down') = Len(down) + 1 /\ DOMAIN down' = 1..Len(down')
        /\ \A i \in DOMAIN down : down'[i] = down[i] /\ i \in 1..Len(down)
        /\ down'[Len(down')].start = Sent /\ down'[Len(down')].body = n
        /\ down'[Len(down')].step = IF Len(down') = 1 THEN Plain ELSE Len(down') - 2
        /\ (down'[Len(down')].op = "challenge") <=> (Len(down') = 1)
    <3>1. CASE down = <<>> /\ down' = <<Packet("challenge", 0, n, TRUE, Plain)>>
      BY <3>1 DEF Packet, Sent, EndOf
    <3>2. CASE srv.ciphered /\ down' = Append(down, Packet("other", Sent, n, TRUE, srv.sendN))
      <4> DEFINE p == Packet("other", Sent, n, TRUE, srv.sendN)
      <4>1. p.start = Sent /\ p.body = n /\ p.step = srv.sendN /\ p.op = "other"
        BY DEF Packet
      <4> HIDE DEF p
      <4>2. down' = Append(down, p) /\ down \in Seq(PacketType({"challenge", "other"}))
        BY <3>2 DEF p, Inv, TypeOK
      <4>3. Len(down) # 0 /\ srv.sendN = Len(down) - 1
        BY <2>3, <3>2 DEF Inv, ServerInStep
      <4> QED BY <2>3, <4>1, <4>2, <4>3
    <3> QED BY <2>1, <3>1, <3>2
  <2>5. Sent' = Sent + DownHead + n
    BY <2>3, <2>4 DEF Sent, EndOf, DownHead
  <2>6. DownChain'
    <3>1. ASSUME NEW i \in DOMAIN down'
          PROVE  /\ down'[i].body \in DownBodies
                 /\ down'[i].step = IF i = 1 THEN Plain ELSE i - 2
                 /\ (down'[i].op = "challenge") <=> (i = 1)
                 /\ down'[i].start + DownHead + down'[i].body =
                      IF i < Len(down') THEN down'[i + 1].start ELSE Sent'
      <4>1. CASE i = Len(down')
        <5>1. down'[i].start = Sent /\ down'[i].body = n /\ ~(i < Len(down'))
              /\ down'[i].step = (IF i = 1 THEN Plain ELSE i - 2)
              /\ ((down'[i].op = "challenge") <=> (i = 1))
          BY <2>3, <2>4, <4>1
        <5> QED BY <2>5, <5>1
      <4>2. CASE i # Len(down')
        <5>1. i \in DOMAIN down /\ i \in 1..Len(down)
          BY <2>3, <2>4, <4>2 DEF Inv, TypeOK
        <5>2. CASE i < Len(down)
          <6>1. i + 1 \in DOMAIN down
            BY <5>1, <5>2, <2>3 DEF Inv, TypeOK
          <6> QED BY <2>3, <2>4, <5>1, <5>2, <6>1 DEF Inv, DownChain
        <5>3. CASE i = Len(down)
          BY <2>3, <2>4, <5>1, <5>3 DEF Inv, DownChain
        <5> QED BY <5>1, <5>2, <5>3, <2>3
      <4> QED BY <4>1, <4>2
    <3>2. ASSUME NEW i \in DOMAIN down', NEW j \in DOMAIN down', i < j
          PROVE  down'[i].start < down'[j].start
      <4>1. i \in DOMAIN down /\ down'[i].start = down[i].start
        BY <2>3, <2>4, <3>2 DEF Inv, TypeOK
      <4>2. down[i].start \in Nat /\ down[i].body \in Nat
        BY <4>1, DownFacts DEF Inv
      <4>3. CASE j = Len(down')
        <5>1. i # Len(down) => Len(down) \in DOMAIN down /\ i < Len(down)
          BY <4>1, <2>3 DEF Inv, TypeOK
        <5>2. Len(down) \in DOMAIN down
          BY <4>1, <2>3 DEF Inv, TypeOK
        <5>3. down[Len(down)].start \in Nat /\ down[Len(down)].body \in Nat
          BY <5>2, DownFacts DEF Inv
        <5>4. down[Len(down)].start < Sent
          BY <5>2, <5>3, <2>3 DEF Inv, DownChain, DownHead
        <5>5. down[i].start <= down[Len(down)].start
          BY <4>1, <4>2, <5>1, <5>2, <5>3 DEF Inv, DownChain
        <5> QED BY <2>3, <2>4, <4>1, <4>2, <4>3, <5>3, <5>4, <5>5
      <4>4. CASE j # Len(down')
        <5>1. j \in DOMAIN down /\ down'[j].start = down[j].start
          BY <2>3, <2>4, <4>4 DEF Inv, TypeOK
        <5> QED BY <3>2, <4>1, <5>1 DEF Inv, DownChain
      <4> QED BY <4>3, <4>4
    <3>3. down'[1].start = 0
      <4>1. CASE down = <<>>
        BY <4>1, <2>4 DEF Sent, EndOf
      <4>2. CASE down # <<>>
        <5>1. 1 \in DOMAIN down
          BY <4>2 DEF Inv, TypeOK
        <5> QED BY <2>4, <4>2, <5>1 DEF Inv, DownChain
      <4> QED BY <4>1, <4>2
    <3> QED BY <3>1, <3>2, <3>3 DEF DownChain
  <2>7. taken' = (StartOf(Len(handled) + 1))'
    <3>1. CASE Len(handled) + 1 <= Len(down)
      <4>1. Len(handled) + 1 \in DOMAIN down
        BY <2>3, <3>1 DEF Inv, TypeOK
      <4> QED BY <2>2, <2>3, <2>4, <3>1, <4>1 DEF Inv, ClientInStep, StartOf
    <3>2. CASE ~(Len(handled) + 1 <= Len(down))
      <4>1. Len(handled) + 1 = Len(down')
        BY <2>3, <2>4, <3>2 DEF Inv, ClientInStep
      <4> QED BY <2>2, <2>3, <2>4, <3>2, <4>1 DEF Inv, ClientInStep, StartOf
    <3> QED BY <3>1, <3>2
  <2>8. ClientInStep'
    BY <2>2, <2>3, <2>4, <2>5, <2>7 DEF cipherVars, Inv, ClientInStep, DownHead
  <2>9. ServerInStep'
    <3>1. CASE down = <<>> /\ UNCHANGED srv
      BY <2>2, <2>4, <3>1 DEF cipherVars, Inv, ServerInStep
    <3>2. CASE srv.ciphered /\ srv' = [srv EXCEPT !.sendN = @ + 1]
      <4>1. srv'.ciphered = srv.ciphered /\ srv'.sendN = srv.sendN + 1
        BY <3>2 DEF Inv, TypeOK, SrvType
      <4>2. down' # <<>>
        BY <2>3, <2>4
      <4> QED BY <2>2, <2>3, <2>4, <3>2, <4>1, <4>2 DEF cipherVars, Inv, ServerInStep
    <3> QED BY <2>1, <3>1, <3>2
  <2>10. PartKept'
    <3>1. CASE Len(handled) < Len(down)
      <4>1. Len(handled) + 1 \in DOMAIN down
        BY <2>3, <3>1 DEF Inv, TypeOK
      <4> QED BY <2>2, <2>3, <2>4, <3>1, <4>1 DEF Inv, PartKept
    <3>2. CASE ~(Len(handled) < Len(down))
      <4>1. Len(handled) + 1 = Len(down')
        BY <2>3, <2>4, <3>2 DEF Inv, ClientInStep
      <4> QED BY <2>2, <2>3, <2>4, <3>2, <4>1 DEF Inv, PartKept, DownHead
    <3> QED BY <3>1, <3>2
  <2> QED BY <1>1, <2>2, <2>6, <2>8, <2>9, <2>10 DEF Inv, NotYet
<1>9. CASE SrvGets
  <2>1. PICK i \in SrvReads :
          srv' = [srv EXCEPT
            !.parsed = up[i].start + UpHead + up[i].body,
            !.got = Append(@, IF SrvAccepts(up[i]) THEN i ELSE Garbled),
            !.recvN = IF srv.ciphered THEN @ + 1 ELSE @,
            !.ciphered = @ \/ (SrvAccepts(up[i]) /\ up[i].op = "session"),
            !.open = SrvAccepts(up[i])]
    BY <1>9 DEF SrvGets
  <2>2. i \in DOMAIN up /\ SrvReads \subseteq DOMAIN up
    BY DEF SrvReads
  <2>3. /\ srv'.ciphered = (srv.ciphered \/ (SrvAccepts(up[i]) /\ up[i].op = "session"))
        /\ srv'.sendN = srv.sendN
    BY <2>1 DEF Inv, TypeOK, SrvType
  <2>4. UNCHANGED <<at, cipherVars, taken, arrived, passed, written, down, up, handled>>
    BY <1>9 DEF SrvGets
  <2>5. ciphered => down # <<>>
    BY DEF Inv, TypeOK, ClientInStep
  <2>6. Len(down) \in Nat /\ (down # <<>> => Len(down) # 0)
    BY DEF Inv, TypeOK
  <2>7. ServerInStep'
    <3>1. \A j \in DOMAIN up' : up'[j].op = "session" /\ up'[j].whole => ciphered'
      BY <2>4 DEF cipherVars, Inv, ServerInStep
    <3>2. CASE srv.ciphered
      BY <2>3, <2>4, <3>1, <3>2 DEF cipherVars, Inv, ServerInStep
    <3>3. CASE ~srv.ciphered /\ SrvAccepts(up[i]) /\ up[i].op = "session"
      <4>1. ciphered /\ Len(down) <= 1 /\ srv.sendN = 0
        BY <2>2, <3>3 DEF SrvAccepts, Inv, ServerInStep
      <4>2. srv'.ciphered
        BY <2>3, <3>3
      <4>3. down # <<>>
        BY <2>5, <4>1
      <4>4. Len(down) # 0 /\ Len(down) <= 1 /\ Len(down) \in Nat
        BY <2>6, <4>1, <4>3, Zenon
      <4>5. Len(down) = 1
        BY <4>4, SMT
      <4> QED BY <2>3, <2>4, <3>1, <4>1, <4>2, <4>3, <4>5 DEF cipherVars, ServerInStep
    <3>4. CASE ~srv.ciphered /\ ~(SrvAccepts(up[i]) /\ up[i].op = "session")
      <4>1. ~srv'.ciphered
        BY <2>3, <3>4
      <4> QED BY <2>3, <2>4, <3>1, <3>4, <4>1 DEF cipherVars, Inv, ServerInStep
    <3> QED BY <3>2, <3>3, <3>4
  <2> QED BY <1>1, <2>4, <2>7 DEF cipherVars, Inv, DownChain, NotYet, PartKept, ClientInStep, StartOf, Sent
<1>10. CASE SrvCloses
  <2>1. srv'.ciphered = srv.ciphered /\ srv'.sendN = srv.sendN
    BY <1>10 DEF SrvCloses, Inv, TypeOK, SrvType
  <2>2. UNCHANGED <<at, cipherVars, taken, arrived, passed, written, down, up, handled>>
    BY <1>10 DEF SrvCloses
  <2>3. ServerInStep'
    BY <2>1, <2>2 DEF cipherVars, Inv, ServerInStep
  <2> QED BY <1>1, <2>2, <2>3 DEF cipherVars, Inv, DownChain, NotYet, PartKept, ClientInStep, StartOf, Sent
<1>11. CASE RecvFails
  <2>1. UNCHANGED <<cipherVars, taken, arrived, down, up, handled, srv>> /\ at' = "closed"
    BY <1>11 DEF RecvFails, Goto
  <2>2. ServerInStep'
    BY <2>1 DEF cipherVars, Inv, ServerInStep
  <2> QED BY <1>1, <2>1, <2>2 DEF cipherVars, Inv, DownChain, NotYet, PartKept, ClientInStep,
            StartOf, Sent
<1>12. CASE Closed \/ UNCHANGED vars
  <2>1. ServerInStep'
    BY <1>12 DEF Closed, vars, Inv, ServerInStep
  <2> QED BY <1>1, <1>12, <2>1 DEF Closed, vars, Inv, DownChain, NotYet, PartKept, ClientInStep,
            StartOf, Sent
<1> QED BY <1>2, <1>3, <1>4, <1>5, <1>6, <1>7, <1>8, <1>9, <1>10, <1>11, <1>12 DEF Next, Tick

-----------------------------------------------------------------------------
(* For any lengths of packets the handlers are given the packets of the    *)
(* server in order, each once and deciphered at its place.                 *)
THEOREM PacketsInOrder == Spec => []InOrder
<1>1. Init => Inv BY InitInv
<1>2. Inv /\ [Next]_vars => Inv' BY StepInv
<1>3. Inv => InOrder BY DEF Inv, ClientInStep, InOrder
<1> QED BY <1>1, <1>2, <1>3, PTL DEF Spec

(* For any lengths that fit in it, the read buffer is never full when recv *)
(* is asked to fill it.                                                    *)
THEOREM AlwaysRoom == Spec => []RoomToRead
<1>1. Init => Inv BY InitInv
<1>2. Inv /\ [Next]_vars => Inv' BY StepInv
<1>3. ASSUME Inv PROVE RoomToRead
  <2>1. Len(handled) \in Nat /\ Len(down) \in Nat /\ taken \in Nat /\ arrived \in Nat
    BY <1>3 DEF Inv, TypeOK
  <2>2. CASE at = "idle" /\ Len(handled) < Len(down)
    <3>1. Len(handled) + 1 \in DOMAIN down
      BY <1>3, <2>1, <2>2 DEF Inv, TypeOK
    <3>2. down[Len(handled) + 1].body \in DownBodies /\ down[Len(handled) + 1].body \in Nat
      BY <1>3, <3>1, DownFacts DEF Inv, DownChain
    <3> QED BY <1>3, <2>1, <2>2, <3>2, PacketFits DEF Inv, PartKept, RoomToRead, DownHead
  <2>3. CASE at = "idle" /\ ~(Len(handled) < Len(down))
    BY <1>3, <2>1, <2>3, PacketFits DEF Inv, PartKept, RoomToRead, DownHead
  <2> QED BY <2>2, <2>3 DEF RoomToRead
<1> QED BY <1>1, <1>2, <1>3, PTL DEF Spec

-----------------------------------------------------------------------------
(* The packets of the client.                                              *)

(* where packet k starts, or will start                                    *)
UpStart(k) == IF k <= Len(up) THEN up[k].start ELSE written

(* they follow one another in the stream, a part of one by its header only *)
UpChain ==
  /\ \A i \in DOMAIN up :
       up[i].start + UpHead + (IF up[i].whole THEN up[i].body ELSE 0) = UpStart(i + 1)
  /\ \A i, j \in DOMAIN up : i < j => up[i].start < up[j].start
  /\ \A i \in DOMAIN up : up[i].start < written
  /\ UpStart(1) = 0

IsSession(p) == p.op = "session" /\ p.whole

CipheredFrom(s) ==
  /\ IsSession(up[s]) /\ \A i \in DOMAIN up : IsSession(up[i]) => i = s
  /\ sendN = Len(up) - s
  /\ \A i \in DOMAIN up : up[i].step = IF i <= s THEN Plain ELSE i - s - 1

(* headers are ciphered from the one after the whole session packet on     *)
UpCiphered ==
  /\ ~ciphered => \A i \in DOMAIN up : up[i].step = Plain /\ ~IsSession(up[i])
  /\ ciphered => \E s \in DOMAIN up : CipheredFrom(s)

(* a server that is open has read whole packets, and is at the place in    *)
(* the stream and in the cipher that follows them                          *)
ServerReads ==
  /\ \A i \in DOMAIN srv.got : srv.got[i] = i /\ up[i].whole
  /\ srv.parsed = UpStart(Len(srv.got) + 1)
  /\ ~srv.ciphered => srv.recvN = 0 /\ \A i \in DOMAIN srv.got : ~IsSession(up[i])
  /\ srv.ciphered => \A s \in DOMAIN up : IsSession(up[s]) =>
                       s <= Len(srv.got) /\ srv.recvN = Len(srv.got) - s

UpInv ==
  /\ UpChain /\ UpCiphered /\ ServerInOrder /\ Len(srv.got) <= Len(up)
  /\ srv.open => ServerReads

LEMMA UpFacts ==
  ASSUME TypeOK
  PROVE  /\ Len(up) \in Nat /\ DOMAIN up = 1..Len(up)
         /\ Len(srv.got) \in Nat /\ DOMAIN srv.got = 1..Len(srv.got)
         /\ \A i \in DOMAIN up : up[i].start \in Nat /\ up[i].body \in Nat /\ up[i].whole \in BOOLEAN
         /\ written \in Nat
<1>1. srv.got \in Seq(Nat) /\ up \in Seq(PacketType({"session", "other"})) /\ written \in Nat
  BY DEF TypeOK, SrvType
<1>2. \A i \in DOMAIN up : up[i] \in PacketType({"session", "other"})
  BY <1>1
<1> QED BY <1>1, <1>2 DEF PacketType

(* nothing changes for the packets of the client                           *)
LEMMA UpKept ==
  ASSUME TypeOK, UpInv, UNCHANGED <<up, written, ciphered, sendN>>,
         srv'.got = srv.got, srv'.parsed = srv.parsed, srv'.recvN = srv.recvN,
         srv'.ciphered = srv.ciphered, srv'.open => srv.open
  PROVE  UpInv'
<1>1. UpChain'
  BY DEF UpInv, UpChain, UpStart
<1>2. UpCiphered'
  <2>1. \A s \in DOMAIN up : CipheredFrom(s) => CipheredFrom(s)'
    BY DEF CipheredFrom
  <2> QED BY <2>1 DEF UpInv, UpCiphered
<1>3. ServerInOrder' /\ Len(srv'.got) <= Len(up')
  BY DEF UpInv, ServerInOrder
<1>4. srv'.open => ServerReads'
  BY DEF UpInv, ServerReads, UpStart
<1> QED BY <1>1, <1>2, <1>3, <1>4 DEF UpInv

LEMMA InitUp == Init => UpInv
<1> SUFFICES ASSUME Init PROVE UpInv
  OBVIOUS
<1>1. Len(up) = 0 /\ DOMAIN up = {} /\ written = 0 /\ ~ciphered
  BY DEF Init
<1>2. srv.got = <<>> /\ srv.parsed = 0 /\ ~srv.ciphered
  BY DEF Init
<1>3. Len(srv.got) = 0 /\ DOMAIN srv.got = {}
  BY <1>2
<1>4. UpChain /\ UpCiphered
  BY <1>1 DEF UpChain, UpCiphered, UpStart
<1>5. ServerInOrder /\ Len(srv.got) <= Len(up)
  BY <1>1, <1>3 DEF ServerInOrder
<1>6. srv.recvN = 0
  BY DEF Init
<1>7. ServerReads
  BY <1>1, <1>2, <1>3, <1>6 DEF ServerReads, UpStart
<1> QED BY <1>4, <1>5, <1>7 DEF UpInv

(* The client puts a packet into its buffer: the first session packet that *)
(* fits switches its cipher on.                                            *)
LEMMA PacketPut ==
  ASSUME TypeOK, UpInv, NEW op \in {"session", "other"}, NEW n \in UpBodies, PutPacket(op, n),
         op = "session" => ~ciphered, srv.ciphered => ciphered,
         IF op = "session" /\ HeadFits /\ BodyFits(n)
         THEN ciphered' = TRUE /\ sendN' = 0
         ELSE ciphered' = ciphered /\ sendN' = NextSendN,
         srv' = srv
  PROVE  UpInv'
<1> DEFINE m == Len(up)
           p == Packet(op, written, n, BodyFits(n), CipherSend)
<1>1. CASE ~HeadFits
  <2>1. UNCHANGED <<up, written, ciphered, sendN>>
    BY <1>1 DEF PutPacket, NextSendN
  <2> QED BY <2>1, UpKept
<1>2. CASE HeadFits
  <2>1. n \in Nat /\ m \in Nat /\ written \in Nat /\ BodyFits(n) \in BOOLEAN
    BY UpFacts, BodiesAreLengths DEF BodyFits
  <2>2. p.op = op /\ p.start = written /\ p.body = n /\ p.whole = BodyFits(n) /\ p.step = CipherSend
    BY DEF Packet
  <2>3. /\ up' = Append(up, p) /\ up \in Seq(PacketType({"session", "other"}))
        /\ written' = written + UpHead + (IF BodyFits(n) THEN n ELSE 0)
    BY <1>2 DEF PutPacket, TypeOK
  <2> HIDE DEF p
  <2>4. /\ Len(up') = m + 1 /\ DOMAIN up' = 1..(m + 1) /\ DOMAIN up = 1..m
        /\ up'[m + 1] = p /\ \A i \in 1..m : up'[i] = up[i]
    BY <2>1, <2>3
  <2> HIDE DEF m
  <2>5. \A k \in 1..(m + 1) : UpStart(k)' = UpStart(k)
    <3> TAKE k \in 1..(m + 1)
    <3>1. CASE k = m + 1
      BY <2>1, <2>2, <2>4, <3>1 DEF UpStart, m
    <3>2. CASE k # m + 1
      <4>1. k \in 1..m
        BY <2>1, <3>2
      <4> QED BY <2>1, <2>4, <4>1 DEF UpStart, m
    <3> QED BY <3>1, <3>2
  <2>6. written < written' /\ written' \in Nat
    BY <2>1, <2>3 DEF UpHead
  <2>7. UpChain'
    <3>1. ASSUME NEW i \in 1..(m + 1)
          PROVE  /\ up'[i].start + UpHead + (IF up'[i].whole THEN up'[i].body ELSE 0) = UpStart(i + 1)'
                 /\ up'[i].start < written'
      <4>1. CASE i = m + 1
        <5>1. UpStart(i + 1)' = written'
          BY <2>1, <2>4, <4>1 DEF UpStart
        <5> QED BY <2>1, <2>2, <2>3, <2>4, <2>6, <4>1, <5>1
      <4>2. CASE i # m + 1
        <5>1. i \in 1..m /\ i + 1 \in 1..(m + 1)
          BY <2>1, <4>2
        <5>2. up[i].start + UpHead + (IF up[i].whole THEN up[i].body ELSE 0) = UpStart(i + 1)
              /\ up[i].start < written /\ up[i].start \in Nat
          BY <2>4, <5>1, UpFacts DEF UpInv, UpChain
        <5>3. UpStart(i + 1)' = UpStart(i + 1)
          BY <2>5, <5>1
        <5> QED BY <2>1, <2>4, <2>6, <5>1, <5>2, <5>3
      <4> QED BY <4>1, <4>2
    <3>2. ASSUME NEW i \in 1..(m + 1), NEW j \in 1..(m + 1), i < j
          PROVE  up'[i].start < up'[j].start
      <4>1. i \in 1..m
        BY <2>1, <3>2
      <4>2. CASE j = m + 1
        BY <2>2, <2>4, <4>1, <4>2 DEF UpInv, UpChain
      <4>3. CASE j # m + 1
        <5>1. j \in 1..m
          BY <2>1, <4>3
        <5> QED BY <2>4, <3>2, <4>1, <5>1 DEF UpInv, UpChain
      <4> QED BY <4>2, <4>3
    <3>3. UpStart(1)' = 0
      BY <2>1, <2>5 DEF UpInv, UpChain
    <3> QED BY <2>4, <3>1, <3>2, <3>3 DEF UpChain
  <2>8. UpCiphered'
    <3>1. CASE op = "session" /\ BodyFits(n)
      <4>1. ~ciphered /\ ciphered' /\ sendN' = 0
        BY <1>2, <3>1
      <4>2. \A i \in 1..m : up[i].step = Plain /\ ~IsSession(up[i])
        BY <2>4, <4>1 DEF UpInv, UpCiphered
      <4>3. IsSession(p) /\ p.step = Plain
        BY <2>2, <3>1, <4>1 DEF IsSession, CipherSend
      <4>4. PICK s \in DOMAIN up' : s = m + 1
        BY <2>1, <2>4
      <4>5. CipheredFrom(s)'
        <5>1. \A i \in DOMAIN up' : (IsSession(up'[i]) <=> i = s) /\ up'[i].step = Plain
          BY <2>1, <2>4, <4>2, <4>3, <4>4
        <5>2. sendN' = Len(up') - s
          BY <2>1, <2>4, <4>1, <4>4
        <5>3. \A i \in DOMAIN up' : i <= s
          BY <2>1, <2>4, <4>4
        <5>4. IsSession(up'[s])
          BY <2>4, <4>3, <4>4
        <5> QED BY <5>1, <5>2, <5>3, <5>4 DEF CipheredFrom
      <4> QED BY <4>1, <4>4, <4>5 DEF UpCiphered
    <3>2. CASE ~(op = "session" /\ BodyFits(n)) /\ ~ciphered
      <4>1. ~ciphered'
        BY <3>2
      <4>2. ~IsSession(p) /\ p.step = Plain
        BY <2>2, <3>2 DEF IsSession, CipherSend
      <4>3. \A i \in 1..m : up[i].step = Plain /\ ~IsSession(up[i])
        BY <2>4, <3>2 DEF UpInv, UpCiphered
      <4> QED BY <2>1, <2>4, <4>1, <4>2, <4>3 DEF UpCiphered
    <3>3. CASE ~(op = "session" /\ BodyFits(n)) /\ ciphered
      <4>1. PICK s \in 1..m : CipheredFrom(s)
        BY <2>4, <3>3 DEF UpInv, UpCiphered
      <4>2. ciphered' /\ sendN' = sendN + 1
        BY <1>2, <3>3 DEF NextSendN
      <4>3. ~IsSession(p) /\ p.step = sendN
        BY <2>2, <3>3 DEF IsSession, CipherSend
      <4>4. sendN = m - s
        BY <4>1 DEF CipheredFrom, m
      <4>5. CipheredFrom(s)'
        <5>1. ASSUME NEW i \in DOMAIN up', IsSession(up'[i]) PROVE i = s
          <6>1. i # m + 1
            BY <2>4, <4>3, <5>1
          <6>2. i \in 1..m
            BY <2>1, <2>4, <6>1
          <6> QED BY <2>4, <4>1, <5>1, <6>2 DEF CipheredFrom
        <5>2. sendN' = Len(up') - s
          BY <2>1, <2>4, <4>2, <4>4
        <5>3. \A i \in DOMAIN up' : up'[i].step = IF i <= s THEN Plain ELSE i - s - 1
          <6>1. \A i \in 1..m : up'[i].step = IF i <= s THEN Plain ELSE i - s - 1
            BY <2>4, <4>1 DEF CipheredFrom
          <6>2. up'[m + 1].step = IF m + 1 <= s THEN Plain ELSE (m + 1) - s - 1
            BY <2>1, <2>4, <4>3, <4>4
          <6>3. ASSUME NEW i \in DOMAIN up' PROVE i \in 1..m \/ i = m + 1
            BY <2>1, <2>4
          <6> QED BY <6>1, <6>2, <6>3
        <5>4. IsSession(up'[s])
          BY <2>4, <4>1 DEF CipheredFrom
        <5> QED BY <5>1, <5>2, <5>3, <5>4 DEF CipheredFrom
      <4> QED BY <2>1, <2>4, <4>2, <4>5 DEF UpCiphered
    <3> QED BY <3>1, <3>2, <3>3
  <2>9. /\ Len(srv.got) \in Nat /\ DOMAIN srv.got = 1..Len(srv.got) /\ Len(srv.got) <= m
        /\ \A i \in DOMAIN srv.got : i \in 1..m /\ up'[i] = up[i]
    <3>1. Len(srv.got) \in Nat /\ DOMAIN srv.got = 1..Len(srv.got) /\ Len(srv.got) <= m
      BY UpFacts DEF UpInv, m
    <3> QED BY <2>1, <2>4, <3>1
  <2>10. ServerInOrder' /\ Len(srv'.got) <= Len(up')
    <3>1. ASSUME NEW i \in DOMAIN srv.got
          PROVE  srv.got[i] = i \/ \E j \in 1..i : ~up'[j].whole
      <4>1. CASE srv.got[i] = i
        BY <4>1
      <4>2. CASE srv.got[i] # i
        <5>1. PICK j \in 1..i : ~up[j].whole
          BY <4>2 DEF UpInv, ServerInOrder
        <5>2. j \in DOMAIN srv.got
          BY <2>9, <3>1
        <5> QED BY <2>9, <5>1, <5>2
      <4> QED BY <4>1, <4>2
    <3>2. Len(srv'.got) <= Len(up')
      BY <2>1, <2>4, <2>9
    <3> QED BY <3>1, <3>2 DEF ServerInOrder
  <2>11. ASSUME srv'.open PROVE ServerReads'
    <3>1. ServerReads
      BY <2>11 DEF UpInv
    <3>2. UpStart(Len(srv.got) + 1)' = UpStart(Len(srv.got) + 1)
      <4>1. Len(srv.got) + 1 \in 1..(m + 1)
        BY <2>1, <2>9
      <4>2. \A k \in 1..(m + 1) : k = Len(srv.got) + 1 => UpStart(k)' = UpStart(Len(srv.got) + 1)
        BY <2>5
      <4>3. Len(srv'.got) + 1 = Len(srv.got) + 1
        OBVIOUS
      <4> QED BY <4>1, <4>2, <4>3 DEF UpStart
    <3>3. \A i \in DOMAIN srv.got : srv.got[i] = i /\ up'[i].whole
      BY <2>9, <3>1 DEF ServerReads
    <3>4. ~srv.ciphered => srv.recvN = 0 /\ \A i \in DOMAIN srv.got : ~IsSession(up'[i])
      BY <2>9, <3>1 DEF ServerReads
    <3>5. ASSUME srv.ciphered, NEW s \in DOMAIN up', IsSession(up'[s])
          PROVE  s <= Len(srv.got) /\ srv.recvN = Len(srv.got) - s
      <4>1. ciphered /\ op = "other"
        BY <3>5
      <4>2. ~IsSession(p)
        BY <2>2, <4>1 DEF IsSession
      <4>3. s \in 1..m /\ IsSession(up[s])
        BY <2>1, <2>4, <3>5, <4>2
      <4> QED BY <2>4, <3>1, <3>5, <4>3 DEF ServerReads
    <3>6. srv.parsed = UpStart(Len(srv.got) + 1)
      BY <3>1 DEF ServerReads
    <3> QED BY <3>2, <3>3, <3>4, <3>5, <3>6 DEF ServerReads
  <2> QED BY <2>7, <2>8, <2>10, <2>11 DEF UpInv
<1> QED BY <1>1, <1>2

(* the packet the server reads next is the one that follows                *)
LEMMA ServerNext ==
  ASSUME Inv, UpInv, srv.open, NEW i \in SrvReads
  PROVE  /\ i = Len(srv.got) + 1 /\ i \in DOMAIN up /\ up[i].start = srv.parsed
         /\ SrvAccepts(up[i]) <=> up[i].whole
<1> DEFINE k == Len(srv.got) + 1
<1>0. TypeOK /\ (srv.ciphered => ciphered)
  BY DEF Inv, ServerInStep
<1>1. i \in DOMAIN up /\ up[i].start = srv.parsed
  BY DEF SrvReads
<1>2. ServerReads /\ Len(srv.got) <= Len(up)
  BY DEF UpInv
<1>3. k \in Nat /\ k >= 1 /\ k <= Len(up) + 1 /\ i \in 1..Len(up) /\ Len(up) \in Nat
  BY <1>1, <1>2, <1>0, UpFacts
<1>4. k \in DOMAIN up
  <2>1. up[i].start < written /\ up[i].start \in Nat
    BY <1>1, <1>0, UpFacts DEF UpInv, UpChain
  <2>2. CASE k = Len(up) + 1
    <3>1. up[i].start = written
      BY <1>1, <1>2, <1>3, <2>2 DEF ServerReads, UpStart
    <3> QED BY <2>1, <3>1
  <2>3. CASE k # Len(up) + 1
    BY <1>3, <2>3, <1>0, UpFacts
  <2> QED BY <2>2, <2>3
<1>5. up[k].start = up[i].start /\ up[k].start \in Nat
  BY <1>1, <1>2, <1>3, <1>4, <1>0, UpFacts DEF ServerReads, UpStart
<1>6. i = k
  <2>1. i < k \/ k < i \/ i = k
    BY <1>3
  <2> QED BY <1>1, <1>4, <1>5, <2>1 DEF UpInv, UpChain
<1>7. up[i].step = IF srv.ciphered THEN srv.recvN ELSE Plain
  <2>1. CASE ~ciphered
    BY <1>0, <1>1, <2>1 DEF UpInv, UpCiphered
  <2>2. CASE ciphered
    <3>1. PICK s \in DOMAIN up : CipheredFrom(s)
      BY <2>2 DEF UpInv, UpCiphered
    <3>2. IsSession(up[s]) /\ s \in 1..Len(up)
          /\ up[i].step = IF i <= s THEN Plain ELSE i - s - 1
      BY <1>0, <1>1, <3>1, UpFacts DEF CipheredFrom
    <3>3. CASE srv.ciphered
      <4>1. s <= Len(srv.got) /\ srv.recvN = Len(srv.got) - s
        BY <1>2, <3>2, <3>3 DEF ServerReads
      <4> QED BY <1>0, <1>3, <1>6, <3>2, <3>3, <4>1, UpFacts
    <3>4. CASE ~srv.ciphered
      <4>1. s \notin DOMAIN srv.got
        BY <1>2, <3>2, <3>4 DEF ServerReads
      <4>2. i <= s
        BY <1>0, <1>3, <1>6, <3>2, <4>1, UpFacts
      <4> QED BY <3>2, <3>4, <4>2
    <3> QED BY <3>3, <3>4
  <2> QED BY <2>1, <2>2
<1> QED BY <1>1, <1>6, <1>7 DEF SrvAccepts

(* the server reads it                                                     *)
LEMMA ServerGets ==
  ASSUME Inv, UpInv, SrvGets
  PROVE  UpInv'
<1> DEFINE k == Len(srv.got) + 1
<1>0. TypeOK
  BY DEF Inv
<1>1. PICK i \in SrvReads :
        srv' = [srv EXCEPT
          !.parsed = up[i].start + UpHead + up[i].body,
          !.got = Append(@, IF SrvAccepts(up[i]) THEN i ELSE Garbled),
          !.recvN = IF srv.ciphered THEN @ + 1 ELSE @,
          !.ciphered = @ \/ (SrvAccepts(up[i]) /\ up[i].op = "session"),
          !.open = SrvAccepts(up[i])]
  BY DEF SrvGets
<1>2. srv.open /\ UNCHANGED <<up, written, ciphered, sendN>>
  BY DEF SrvGets, cipherVars
<1>3. i = k /\ i \in DOMAIN up /\ up[i].start = srv.parsed /\ (SrvAccepts(up[i]) <=> up[i].whole)
  BY <1>2, ServerNext
<1>4. /\ srv'.parsed = up[i].start + UpHead + up[i].body
      /\ srv'.got = Append(srv.got, IF up[i].whole THEN i ELSE Garbled)
      /\ srv'.recvN = IF srv.ciphered THEN srv.recvN + 1 ELSE srv.recvN
      /\ srv'.ciphered = (srv.ciphered \/ IsSession(up[i]))
      /\ srv'.open = SrvAccepts(up[i])
  BY <1>0, <1>1, <1>3 DEF TypeOK, SrvType, IsSession
<1>5. /\ Len(srv.got) \in Nat /\ DOMAIN srv.got = 1..Len(srv.got) /\ srv.got \in Seq(Nat)
      /\ Len(up) \in Nat /\ DOMAIN up = 1..Len(up)
  BY <1>0, UpFacts DEF TypeOK, SrvType
<1>6. /\ Len(srv'.got) = i /\ DOMAIN srv'.got = 1..i /\ DOMAIN srv.got = 1..(i - 1) /\ i \in Nat
      /\ srv'.got[i] = (IF up[i].whole THEN i ELSE Garbled)
      /\ \A j \in 1..(i - 1) : srv'.got[j] = srv.got[j]
  <2>1. PICK g \in Nat : g = IF up[i].whole THEN i ELSE Garbled
    BY <1>3, <1>5 DEF Garbled
  <2>2. srv'.got = Append(srv.got, g)
    BY <1>4, <2>1
  <2> QED BY <1>3, <1>5, <2>1, <2>2
<1>7. ServerReads
  BY <1>2 DEF UpInv
<1>8. UpChain'
  BY <1>2 DEF UpInv, UpChain, UpStart
<1>9. UpCiphered'
  <2>1. \A s \in DOMAIN up : CipheredFrom(s) => CipheredFrom(s)'
    BY <1>2 DEF CipheredFrom
  <2> QED BY <1>2, <2>1 DEF UpInv, UpCiphered
<1> HIDE DEF k
<1>10. \A j \in 1..i : j \in 1..(i - 1) \/ j = i
  BY <1>6
<1>11. \A j \in 1..(i - 1) : srv.got[j] = j /\ up[j].whole
  BY <1>6, <1>7 DEF ServerReads
<1>12. ServerInOrder'
  <2> SUFFICES ASSUME NEW j \in 1..i
               PROVE  srv'.got[j] = j \/ \E l \in 1..j : ~up[l].whole
    BY <1>2, <1>6 DEF ServerInOrder
  <2>1. CASE j = i
    BY <1>6, <2>1
  <2>2. CASE j # i
    BY <1>6, <1>10, <1>11, <2>2
  <2> QED BY <2>1, <2>2
<1>13. Len(srv'.got) <= Len(up')
  BY <1>2, <1>3, <1>5, <1>6
<1>14. ASSUME srv'.open PROVE ServerReads'
  <2>1. up[i].whole
    BY <1>3, <1>4, <1>14
  <2>2. ASSUME NEW j \in 1..i PROVE srv'.got[j] = j /\ up[j].whole
    BY <1>6, <1>10, <1>11, <2>1
  <2>3. srv'.parsed = UpStart(i + 1)
    BY <1>3, <1>4, <2>1 DEF UpInv, UpChain
  <2>4. srv'.parsed = UpStart(Len(srv.got) + 1)'
    BY <1>2, <1>6, <2>3 DEF UpStart
  <2>5. ASSUME ~srv'.ciphered, NEW j \in 1..i PROVE srv'.recvN = 0 /\ ~IsSession(up[j])
    <3>1. ~srv.ciphered /\ ~IsSession(up[i])
      BY <1>4, <2>5
    <3>2. srv'.recvN = 0
      BY <1>4, <1>7, <3>1 DEF ServerReads
    <3> QED BY <3>2, <1>6, <1>7, <1>10, <3>1 DEF ServerReads
  <2>6. ASSUME srv'.ciphered, NEW s \in DOMAIN up, IsSession(up[s])
        PROVE  s <= i /\ srv'.recvN = i - s
    <3>1. CASE srv.ciphered
      <4>1. s <= Len(srv.got) /\ srv.recvN = Len(srv.got) - s /\ Len(srv.got) = i - 1
        BY <1>3, <1>5, <1>7, <2>6, <3>1 DEF ServerReads, k
      <4>2. srv'.recvN = srv.recvN + 1
        BY <1>4, <3>1
      <4>3. s \in Nat /\ i \in Nat
        BY <1>5, <1>6
      <4>4. s <= i /\ srv.recvN = i - 1 - s
        BY <4>1, <4>3
      <4>5. srv'.recvN = i - s
        BY <4>2, <4>3, <4>4
      <4> QED BY <4>4, <4>5
    <3>2. CASE ~srv.ciphered
      <4>1. IsSession(up[i]) /\ srv'.recvN = srv.recvN
        BY <1>4, <2>6, <3>2
      <4>2. s = i
        <5>1. ciphered
          BY <1>3, <4>1 DEF Inv, ServerInStep, IsSession
        <5>2. PICK r \in DOMAIN up : CipheredFrom(r)
          BY <5>1 DEF UpInv, UpCiphered
        <5> QED BY <1>3, <2>6, <4>1, <5>2 DEF CipheredFrom
      <4>3. srv.recvN = 0
        BY <1>7, <3>2 DEF ServerReads
      <4> QED BY <1>6, <4>1, <4>2, <4>3
    <3> QED BY <3>1, <3>2
  <2>7. 1 \in 1..i
    BY <1>3, <1>5, <1>6
  <2> QED BY <1>2, <1>6, <2>2, <2>4, <2>5, <2>6, <2>7 DEF ServerReads
<1> QED BY <1>8, <1>9, <1>12, <1>13, <1>14 DEF UpInv

(* a packet of the server is handled                                       *)
LEMMA HandleUp ==
  ASSUME Inv, UpInv, HandlePacket
  PROVE  UpInv'
<1> DEFINE k == Len(handled) + 1
<1>1. PICK n \in Announced :
        /\ Complete(n)
        /\ IF Numbered(n) \in DOMAIN down /\ down[Numbered(n)].op = "challenge"
           THEN HandleChallenge(n) ELSE HandleOther
  BY DEF HandlePacket
<1>2. k \in DOMAIN down /\ Numbered(n) = k
  BY <1>1, WholeIsNext
<1>3. Len(handled) \in Nat /\ TypeOK /\ (srv.ciphered => ciphered) /\ srv' = srv
  BY DEF HandlePacket, Inv, TypeOK, ServerInStep
<1>4. CASE k = 1
  <2>1. ~ciphered
    BY <1>3, <1>4 DEF Inv, TypeOK, ClientInStep
  <2>2. Ignore \/ AnswerChallenge
    BY <1>1, <1>2, <1>4 DEF Inv, DownChain, HandleChallenge
  <2>3. CASE AnswerChallenge
    <3>1. PICK m \in UpBodies :
            /\ PutPacket("session", m)
            /\ IF HeadFits /\ BodyFits(m)
               THEN InitCipher
               ELSE recvN' = NextRecvN /\ sendN' = NextSendN /\ UNCHANGED ciphered
      BY <2>3 DEF AnswerChallenge
    <3>2. IF HeadFits /\ BodyFits(m) THEN ciphered' = TRUE /\ sendN' = 0
          ELSE ciphered' = ciphered /\ sendN' = NextSendN
      BY <3>1 DEF InitCipher
    <3>3. PICK op \in {"session", "other"} : op = "session"
      OBVIOUS
    <3> QED BY <1>3, <2>1, <3>1, <3>2, <3>3, PacketPut
  <2>4. CASE Ignore
    BY <1>3, <2>4, UpKept DEF Ignore
  <2> QED BY <2>2, <2>3, <2>4
<1>5. CASE k # 1
  <2>1. HandleOther
    BY <1>1, <1>2, <1>5 DEF Inv, DownChain
  <2>2. CASE UNCHANGED <<up, written, sendN>>
    BY <1>3, <2>1, <2>2, UpKept DEF HandleOther, Ignore
  <2>3. CASE (\E m \in UpBodies : PutPacket("other", m)) /\ sendN' = NextSendN
    <3>1. PICK m \in UpBodies : PutPacket("other", m)
      BY <2>3
    <3>2. PICK op \in {"session", "other"} : op = "other"
      OBVIOUS
    <3> QED BY <1>3, <2>1, <2>3, <3>1, <3>2, PacketPut DEF HandleOther, Ignore
  <2> QED BY <2>1, <2>2, <2>3 DEF HandleOther, Ignore
<1> QED BY <1>4, <1>5

LEMMA StepUp == ASSUME Inv, UpInv, [Next]_vars PROVE UpInv'
<1>0. TypeOK
  BY DEF Inv
<1>1. CASE Send
  <2>1. PICK n \in UpBodies : PutPacket("other", n)
    BY <1>1 DEF Send
  <2>2. PICK op \in {"session", "other"} : op = "other"
    OBVIOUS
  <2>3. ciphered' = ciphered /\ sendN' = NextSendN /\ srv' = srv /\ (srv.ciphered => ciphered)
    BY <1>1 DEF Send, Inv, ServerInStep
  <2> QED BY <1>0, <2>1, <2>2, <2>3, PacketPut
<1>2. CASE HandlePacket
  BY <1>2, HandleUp
<1>3. CASE SrvGets
  BY <1>3, ServerGets
<1>4. CASE SrvSend
  <2>1. UNCHANGED <<up, written, ciphered, sendN>>
    BY <1>4 DEF SrvSend, cipherVars
  <2>2. srv' = srv \/ srv' = [srv EXCEPT !.sendN = @ + 1]
    BY <1>4 DEF SrvSend
  <2>3. /\ srv'.got = srv.got /\ srv'.parsed = srv.parsed /\ srv'.recvN = srv.recvN
        /\ srv'.ciphered = srv.ciphered /\ srv'.open = srv.open
    BY <1>0, <2>2 DEF TypeOK, SrvType
  <2> QED BY <1>0, <2>1, <2>3, UpKept
<1>5. CASE SocketSend
  <2>1. UNCHANGED <<up, written, ciphered, sendN>>
    BY <1>5 DEF SocketSend, cipherVars
  <2>2. srv' = srv \/ \E n \in passed..written : srv' = [srv EXCEPT !.reset = ~srv.open /\ n > passed]
    BY <1>5 DEF SocketSend
  <2>3. /\ srv'.got = srv.got /\ srv'.parsed = srv.parsed /\ srv'.recvN = srv.recvN
        /\ srv'.ciphered = srv.ciphered /\ srv'.open = srv.open
    BY <1>0, <2>2 DEF TypeOK, SrvType
  <2> QED BY <1>0, <2>1, <2>3, UpKept
<1>6. CASE SrvCloses
  <2>1. UNCHANGED <<up, written, ciphered, sendN>>
    BY <1>6 DEF SrvCloses, cipherVars
  <2>2. /\ srv'.got = srv.got /\ srv'.parsed = srv.parsed /\ srv'.recvN = srv.recvN
        /\ srv'.ciphered = srv.ciphered /\ ~srv'.open
    BY <1>0, <1>6 DEF SrvCloses, TypeOK, SrvType
  <2> QED BY <1>0, <2>1, <2>2, UpKept
<1>7. CASE Connect \/ Recv \/ RecvFails \/ NoPacket \/ Closed \/ UNCHANGED vars
  <2>1. UNCHANGED <<up, written, ciphered, sendN, srv>>
    BY <1>7 DEF Connect, Recv, RecvFails, NoPacket, Closed, vars, cipherVars
  <2> QED BY <1>0, <2>1, UpKept
<1> QED BY <1>1, <1>2, <1>3, <1>4, <1>5, <1>6, <1>7 DEF Next, Tick

(* For any lengths of packets and however the bytes are cut, the server    *)
(* gets the packets of the client in order and deciphers their headers     *)
(* where the client ciphered them, until one whose body did not fit in the *)
(* write buffer, which it takes the next one for.                          *)
THEOREM ServerGetsInOrder == Spec => []ServerInOrder
<1>1. Init => Inv /\ UpInv
  BY InitInv, InitUp
<1>2. Inv /\ UpInv /\ [Next]_vars => (Inv /\ UpInv)'
  BY StepInv, StepUp
<1>3. UpInv => ServerInOrder
  BY DEF UpInv
<1> QED BY <1>1, <1>2, <1>3, PTL DEF Spec
=============================================================================
