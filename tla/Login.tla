-------------------------------- MODULE Login --------------------------------
(***************************************************************************)
(* Logging in: src/net/network.c, which has at most one connection to the  *)
(* server of accounts and one to a world, src/net/auth_socket.c, which     *)
(* talks to the former, the answer of src/net/pkt/auth.c to the challenge  *)
(* of the latter, and the three functions by which the scripts of the      *)
(* interface open and close them, of src/lua/glue.c.                       *)
(*                                                                         *)
(* All of it runs on the main thread, but it is re-entrant: the phases of  *)
(* a login and some packets of a world raise events, whose scripts run at  *)
(* once, in the middle of a tick, and may call those functions.  A step is *)
(* what the program does between two calls of a script.                    *)
(*                                                                         *)
(* A login is known by its number, and so are the name and the key that    *)
(* belong to it; a connection by the number of its socket, which is not    *)
(* used again: a socket that is not one of the network's has been freed.   *)
(* The servers and the scripts are outside the program.                    *)
(***************************************************************************)
EXTENDS Integers, Sequences, FiniteSets

CONSTANTS
  MaxCalls,    \* bound on the calls of the scripts
  MaxMessages  \* bound on the messages of the server of accounts

None == 0

ASSUME BoundsAreNat == MaxCalls \in Nat /\ MaxMessages \in Nat

VARIABLES
  auth,      \* network->auth_socket
  phase,     \* its auth_phase; "closed" when there is no socket
  srpK,      \* its srp_K: the login whose key it is
  inbox,     \* its read buffer
  world,     \* network->world_socket
  link,      \* of the world: "closed", "connecting", "open", "keyed"
  user,      \* network->username: the login whose name it is
  key,       \* network->auth_key; None when it was never set
  servers,   \* size of network->world_servers
  tick,      \* where net_tick is: see Init
  calls, sent, made, logins,  \* counts: calls, messages, sockets, logins
  hushed,    \* the server of accounts has said its last word
  proved,    \* history: the logins the server has proved to know
  listed,    \* history: the logins whose list of realms came whole
  sessions,  \* history: the names and keys the worlds were answered with
  fault      \* undefined behaviour, if there was

authVars == <<auth, phase, srpK, inbox, hushed>>
worldVars == <<world, link, sessions>>
dataVars == <<user, key, servers, logins>>
countVars == <<calls, sent, made>>
history == <<proved, listed>>
vars == <<auth, phase, srpK, inbox, hushed, world, link, sessions, user, key, servers,
          logins, calls, sent, made, proved, listed, tick, fault>>

(* A tick is somewhere, with a socket; and when a script runs, it goes on  *)
(* at a known place afterwards.                                            *)
At(at, socket, then) == [at |-> at, socket |-> socket, then |-> then]
Idle == At("idle", None, "idle")

Init ==
  /\ auth = None /\ phase = "closed" /\ srpK = None /\ inbox = <<>> /\ hushed = FALSE
  /\ world = None /\ link = "closed" /\ sessions = {}
  /\ user = None /\ key = None /\ servers = 0 /\ logins = 0
  /\ calls = 0 /\ sent = 0 /\ made = 0
  /\ proved = {} /\ listed = {}
  /\ tick = Idle /\ fault = "no"

-----------------------------------------------------------------------------
(* Opening and closing: src/net/network.c.                                 *)

CloseAuthKept ==  \* mutant: the network keeps its pointer
  phase' = "closed" /\ srpK' = None /\ inbox' = <<>> /\ hushed' = FALSE /\ UNCHANGED auth
CloseAuth ==
  auth' = None /\ phase' = "closed" /\ srpK' = None /\ inbox' = <<>> /\ hushed' = FALSE
CloseWorld == world' = None /\ link' = "closed" /\ UNCHANGED sessions

(* net_auth_connect.  When there is a connection already, the one to the   *)
(* server of accounts is closed; when memory lacks for the name, that of   *)
(* the login before is lost.                                               *)
UnconnectedAuth == auth = None  \* mutant
Unconnected == auth = None /\ world = None

DefaultServerLogin ==
  /\ \/ CloseAuth /\ UNCHANGED <<user, logins, made>>
     \/ /\ Unconnected /\ CloseAuth /\ user' = None
        /\ made' = made + 1 /\ UNCHANGED logins
     \/ /\ Unconnected
        /\ auth' = made + 1 /\ made' = made + 1
        /\ phase' = "connecting" /\ srpK' = None /\ inbox' = <<>> /\ hushed' = FALSE
        /\ logins' = logins + 1 /\ user' = logins + 1
  /\ UNCHANGED <<worldVars, key, servers, fault>>

(* ChangeRealm and net_world_connect: the suggested realm is number 0, and *)
(* is looked for in an empty list too.  When there is a connection to a    *)
(* world it is closed, and that is all.  That a socket was made is not     *)
(* looked at.                                                              *)
ChangeRealm ==
  /\ IF servers = 0
     THEN fault' = "empty" /\ UNCHANGED <<authVars, worldVars, made>>
     ELSE IF world # None
     THEN CloseWorld /\ UNCHANGED <<authVars, made, fault>>
     ELSE /\ CloseAuth /\ UNCHANGED sessions
          /\ \/ UNCHANGED <<world, link, made, fault>>
             \/ fault' = "socket" /\ UNCHANGED <<world, link, made>>
             \/ /\ world' = made + 1 /\ made' = made + 1 /\ link' = "connecting"
                /\ UNCHANGED fault
  /\ UNCHANGED dataVars

(* DisconnectFromServer and net_disconnect                                 *)
Disconnect == CloseAuth /\ CloseWorld /\ UNCHANGED <<dataVars, made, fault>>

(* a script runs between two ticks, or an event of a tick has run it       *)
ScriptCall ==
  /\ tick.at \in {"idle", "script"} /\ calls < MaxCalls
  /\ calls' = calls + 1
  /\ DefaultServerLogin \/ ChangeRealm \/ Disconnect
  /\ UNCHANGED <<sent, history, tick>>

ScriptReturns ==
  /\ tick.at = "script"
  /\ tick' = At(tick.then, tick.socket, tick.then)
  /\ UNCHANGED <<authVars, worldVars, dataVars, countVars, history, fault>>

Goto(at) == tick' = At(at, tick.socket, at)
Raise(socket, then) == tick' = At("script", socket, then)

(* the socket of the tick is used                                          *)
Uses(socket) == IF tick.socket = socket THEN UNCHANGED fault ELSE fault' = tick.at

-----------------------------------------------------------------------------
(* net_tick: first the server of accounts.                                 *)

(* there is no socket, or its work is over                                 *)
NoAuth ==
  /\ tick.at = "idle" /\ phase \in {"closed", "none"}
  /\ Goto("world")
  /\ UNCHANGED <<authVars, worldVars, dataVars, countVars, history, fault>>

(* net_socket_get_connection_status, for as long as it takes; then the     *)
(* phase changes before the first message is written                       *)
Connecting ==
  /\ tick.at = "idle" /\ phase = "connecting"
  /\ \/ tick' = At("failed", auth, "failed") /\ UNCHANGED authVars
     \/ tick' = At("world", auth, "world") /\ UNCHANGED authVars
     \/ phase' = "challenge" /\ Raise(auth, "greet") /\ UNCHANGED <<auth, srpK, inbox, hushed>>
  /\ UNCHANGED <<worldVars, dataVars, countVars, history, fault>>

Greet ==
  /\ tick.at = "greet"
  /\ Goto("world") /\ Uses(auth)
  /\ UNCHANGED <<authVars, worldVars, dataVars, countVars, history>>

(* recv_packet of the messages that are as long as the phases expect; a    *)
(* refusal that is shorter waits for ever to be complete                   *)
Talking == phase \in {"challenge", "proof", "realmlist"}
Complete == inbox # <<>> /\ Head(inbox) # "short refusal"

(* net_socket_recv fails, or there is no whole message                     *)
Receive ==
  /\ tick.at = "idle" /\ Talking
  /\ \/ tick' = At("failed", auth, "failed")
     \/ ~Complete /\ tick' = At("send", auth, "send")
  /\ UNCHANGED <<authVars, worldVars, dataVars, countVars, history, fault>>

TakesNot(p) ==  \* mutant: the read position stays
  tick.at = "idle" /\ phase = p /\ Complete /\ UNCHANGED inbox
Takes(p) ==
  /\ tick.at = "idle" /\ phase = p /\ Complete
  /\ inbox' = Tail(inbox)

(* handle_challenge: what it cannot use is forgotten, and waits go on      *)
HandleChallenge ==
  /\ Takes("challenge")
  /\ IF Head(inbox) = "challenge"
     THEN srpK' = user /\ phase' = "proof" /\ Raise(auth, "prove")
     ELSE tick' = At("send", auth, "send") /\ UNCHANGED <<srpK, phase>>
  /\ UNCHANGED <<auth, hushed, worldVars, dataVars, countVars, history, fault>>

(* handle_proof: m2 is what this login expects, or the login has failed;   *)
(* a refusal is told to the scripts first                                  *)
ProofOk == Head(inbox) = "proof"

RefusalSent == "send"  \* mutant
Refused == "refused"

HandleProof ==
  /\ Takes("proof")
  /\ IF ProofOk
     THEN /\ phase' = "realmlist" /\ Raise(auth, "list")
     ELSE /\ UNCHANGED phase
          /\ IF Head(inbox) = "refusal" THEN Raise(auth, Refused)
                                        ELSE tick' = At("failed", auth, "failed")
  /\ proved' = IF Head(inbox) = "proof" THEN proved \cup {srpK} ELSE proved
  /\ UNCHANGED <<auth, srpK, hushed, worldVars, dataVars, countVars, listed, fault>>

(* handle_realm_list: the realms are added one by one, before it is known  *)
(* that the list is whole, to those of the logins before; the tick is over *)
(* when a realm has been suggested                                         *)
SuggestedFails == "failed"  \* mutant
Suggested == "world"
Whole == Head(inbox) \in {"realms", "no realms"}
SetAuthKeyNot == UNCHANGED key  \* mutant
SetAuthKey == key' = srpK

HandleRealmList ==
  /\ Takes("realmlist")
  /\ servers' = IF Head(inbox) \in {"realms", "cut realms"} THEN servers + 1 ELSE servers
  /\ IF Whole
     THEN phase' = "none" /\ SetAuthKey /\ listed' = listed \cup {user} /\ Raise(auth, Suggested)
     ELSE tick' = At("send", auth, "send") /\ UNCHANGED <<phase, key, listed>>
  /\ UNCHANGED <<auth, srpK, hushed, worldVars, user, logins, countVars, proved, fault>>

(* net_socket_send, which may fail; in the middle of the handshake, it     *)
(* comes after an alert                                                    *)
Send ==
  /\ tick.at \in {"send", "prove", "list"}
  /\ Uses(auth)
  /\ Goto("world") \/ Goto("failed")
  /\ UNCHANGED <<authVars, worldVars, dataVars, countVars, history>>

(* The tick has returned false: net_tick closes the socket the network has *)
(* by now.                                                                 *)
AuthFailed ==
  /\ tick.at \in {"failed", "refused"}
  /\ CloseAuth /\ Goto("world")
  /\ UNCHANGED <<worldVars, dataVars, countVars, history, fault>>

-----------------------------------------------------------------------------
(* Then the world: net_world_socket_tick.                                  *)

NoWorld ==
  /\ tick.at = "world"
  /\ world = None \/ link = "connecting"
  /\ tick' = Idle
  /\ UNCHANGED <<authVars, worldVars, dataVars, countVars, history, fault>>

WorldFails ==
  /\ tick.at = "world" /\ world # None
  /\ CloseWorld /\ tick' = Idle
  /\ UNCHANGED <<authVars, dataVars, countVars, history, fault>>

WorldReceives ==
  /\ tick.at = "world" /\ world # None
  /\ link' = IF link = "connecting" THEN "open" ELSE link
  /\ tick' = At("packets", world, "packets")
  /\ UNCHANGED <<authVars, world, sessions, dataVars, countVars, history, fault>>

(* net_smsg_auth_challenge: the name and the key of the network            *)
Reading == tick.at \in {"packets", "events"}

AnswersChallenge ==
  /\ Reading /\ tick.socket = world /\ link = "open"
  /\ link' = "keyed" /\ UNCHANGED world
  /\ IF user = None THEN fault' = "name" /\ UNCHANGED sessions
     ELSE sessions' = sessions \cup {[user |-> user, key |-> key]} /\ UNCHANGED fault
  /\ UNCHANGED <<authVars, dataVars, countVars, history, tick>>

(* net_smsg_char_enum, and the other packets that raise an event           *)
RaisesEvent ==
  /\ Reading /\ tick.socket = world /\ link = "keyed"
  /\ Raise(world, "events")
  /\ UNCHANGED <<authVars, worldVars, dataVars, countVars, history, fault>>

(* recv_packet finds no other packet, then net_socket_send                 *)
NoPacket ==
  /\ Reading
  /\ tick' = Idle
  /\ Uses(world)
  /\ UNCHANGED worldVars \/ (tick.socket = world /\ CloseWorld)
  /\ UNCHANGED <<authVars, dataVars, countVars, history>>

-----------------------------------------------------------------------------
(* The server of accounts says anything in any order, and nothing after a  *)
(* refusal.                                                                *)
Messages == {"challenge", "bad challenge", "proof", "bad proof", "realms", "cut realms", "no realms"}
Refusals == {"refusal", "short refusal"}

Answer ==
  /\ Talking /\ tick.at = "idle" /\ ~hushed /\ sent < MaxMessages
  /\ sent' = sent + 1
  /\ \/ \E m \in Messages : inbox' = Append(inbox, m) /\ UNCHANGED hushed
     \/ \E m \in Refusals : inbox' = Append(inbox, m) /\ hushed' = TRUE
  /\ UNCHANGED <<auth, phase, srpK, worldVars, dataVars, calls, made, history, tick, fault>>

Tick == NoAuth \/ Connecting \/ Greet \/ Receive \/ HandleChallenge \/ HandleProof
        \/ HandleRealmList \/ Send \/ AuthFailed \/ ScriptReturns
        \/ NoWorld \/ WorldFails \/ WorldReceives \/ AnswersChallenge \/ RaisesEvent \/ NoPacket

(* What follows undefined behaviour is not modelled.                       *)
Undefined == fault # "no" /\ UNCHANGED vars
Next == (fault = "no" /\ (ScriptCall \/ Tick \/ Answer)) \/ Undefined

Spec == Init /\ [][Next]_vars

(* The main loop ticks for ever, scripts return, and no world keeps the    *)
(* loop over its packets busy for ever.                                    *)
FairSpec == Spec /\ WF_vars(fault = "no" /\ Tick) /\ SF_vars(fault = "no" /\ NoPacket)

-----------------------------------------------------------------------------
Logins == 0..logins
Phases == {"closed", "connecting", "challenge", "proof", "realmlist", "none"}
Places == {"idle", "greet", "send", "prove", "list", "failed", "refused", "world", "packets", "events"}

TypeOK ==
  /\ auth \in 0..made /\ world \in 0..made
  /\ phase \in Phases /\ (phase = "closed" <=> auth = None)
  /\ link \in {"closed", "connecting", "open", "keyed"} /\ (link = "closed" <=> world = None)
  /\ inbox \in Seq(Messages \cup Refusals) /\ hushed \in BOOLEAN
  /\ logins \in Nat /\ user \in Logins /\ key \in Logins /\ srpK \in Logins
  /\ servers \in Nat /\ calls \in Nat /\ sent \in Nat /\ made \in Nat
  /\ proved \subseteq Logins /\ listed \subseteq Logins
  /\ sessions \subseteq [user : Logins, key : Logins]
  /\ tick \in [at : Places \cup {"script"}, socket : 0..made, then : Places]
  /\ fault \in {"no", "empty", "socket", "name"} \cup Places

(* There is one connection at most, whatever the scripts call in the       *)
(* middle of a tick; and the one to the server of accounts does not see    *)
(* the name of another login than its own.                                 *)
OneConnection ==
  /\ auth = None \/ world = None
  /\ phase \in {"proof", "realmlist", "none"} => srpK = user

(* Whatever the server of accounts says and in whatever order, the key     *)
(* with which a world is answered is that of a login whose server proved   *)
(* to know the password, or is none; and it belongs to the name it goes    *)
(* with when the login of that name has come to its end.                   *)
SessionKeys ==
  \A s \in sessions :
    /\ s.key \in proved \cup {None}
    /\ s.user \in listed => s.key = s.user

(* A script that closes a connection in an alert of the handshake, or in   *)
(* an event of a world, frees the socket the tick goes on with.  In the    *)
(* alert of a refusal and in the suggestion of a realm it may: there the   *)
(* socket is not used again.  Apart from that, only an empty list of       *)
(* realms and the lack of memory lead to undefined behaviour.              *)
FaultsKnown ==
  /\ fault \in {"no", "empty", "socket", "name", "greet", "prove", "list", "events"}
  /\ fault = "name" => user = None /\ logins > 0

(* What closes the connection to the server of accounts, if it is not a    *)
(* script, is the failure of that connection: except that a login begun in *)
(* the alert of a refusal is closed in place of the one refused.           *)
TickClosesOwn ==
  [][ auth # None /\ auth' = None /\ tick.at \notin {"idle", "script"} =>
        auth = tick.socket \/ tick.at = "refused" ]_vars

(* What a server of accounts says is taken, unless it is a refusal that is *)
(* too short, or the login ends before.                                    *)
AnswerTaken ==
  \A n \in 0..MaxMessages :
    (Talking /\ Complete /\ sent - Len(inbox) = n) ~>
      (sent - Len(inbox) > n \/ ~Talking \/ fault # "no")
=============================================================================
