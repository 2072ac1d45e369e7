----------------------------- MODULE LoginProofs -----------------------------
(* What holds of Login for any number of calls and messages.               *)
EXTENDS Login, TLAPS

(* While a login is under way, the name is its own and is not that of a    *)
(* session; a key is set from a server that has proved to know it.         *)
OwnName ==
  /\ auth # None => user # None /\ \A s \in sessions : s.user # user
  /\ phase = "realmlist" => srpK \in proved
KeyProved ==
  /\ None \notin listed
  /\ key \in proved \cup {None}
  /\ user \in listed => key = user

(* Between two calls of scripts, the tick and the network have the same    *)
(* socket; after one, only some places can follow.                         *)
OwnSocket ==
  /\ tick.at \in {"send", "failed"} /\ fault = "no" => tick.socket = auth
  /\ tick.at = "packets" /\ fault = "no" => tick.socket = world
  /\ tick.at = "script" => tick.then \in {"greet", "prove", "list", "refused", "world", "events"}
LoggedIn == servers > 0 \/ world # None => logins > 0

(* The parts of TypeOK.                                                    *)
TypeCounts ==
  /\ logins \in Nat /\ servers \in Nat /\ calls \in Nat /\ sent \in Nat /\ made \in Nat
TypeAuth ==
  /\ auth \in 0..made
  /\ phase \in Phases /\ (phase = "closed" <=> auth = None)
TypeWorld ==
  /\ world \in 0..made
  /\ link \in {"closed", "connecting", "open", "keyed"} /\ (link = "closed" <=> world = None)
TypeNames ==
  /\ user \in Logins /\ key \in Logins /\ srpK \in Logins
  /\ proved \subseteq Logins /\ listed \subseteq Logins
  /\ sessions \subseteq [user : Logins, key : Logins]
TypeInbox == inbox \in Seq(Messages \cup Refusals)
TypeTick == tick \in [at : Places \cup {"script"}, socket : 0..made, then : Places]
TypeFault == fault \in {"no", "empty", "socket", "name"} \cup Places

IInv == TypeOK /\ OneConnection /\ OwnName /\ KeyProved /\ SessionKeys /\ OwnSocket /\ LoggedIn
        /\ FaultsKnown

USE DEF None

LEMMA TypeParts ==
  TypeOK <=> /\ TypeCounts /\ TypeAuth /\ TypeWorld /\ TypeNames
             /\ TypeInbox /\ hushed \in BOOLEAN /\ TypeTick /\ TypeFault
  BY Zenon DEF TypeOK, TypeCounts, TypeAuth, TypeWorld, TypeNames, TypeInbox, TypeTick, TypeFault

(* the steps by what is left to look at, once a call is one of the three   *)
LEMMA NextCases ==
  ASSUME [Next]_vars
  PROVE  \/ (ScriptCall /\ DefaultServerLogin) \/ (ScriptCall /\ ChangeRealm)
         \/ (ScriptCall /\ Disconnect) \/ ScriptReturns \/ NoAuth \/ Connecting \/ Greet
         \/ Receive \/ HandleChallenge \/ HandleProof \/ HandleRealmList \/ Send \/ AuthFailed
         \/ NoWorld \/ WorldFails \/ WorldReceives \/ AnswersChallenge \/ RaisesEvent
         \/ NoPacket \/ Answer \/ UNCHANGED vars
  BY Zenon DEF Next, Tick, Undefined, ScriptCall

LEMMA TailInSeq ==
  ASSUME NEW S, NEW s \in Seq(S), s # <<>>
  PROVE  Tail(s) \in Seq(S)
  OBVIOUS

LEMMA NumbersKept ==
  ASSUME TypeCounts, TypeAuth, TypeWorld, TypeNames, TypeTick, [Next]_vars
  PROVE  TypeCounts' /\ TypeAuth' /\ TypeWorld'
<1> USE DEF authVars, worldVars, dataVars, countVars, history, TypeCounts, TypeAuth, TypeWorld,
            TypeNames, TypeTick, Phases
<1>1. CASE (ScriptCall /\ DefaultServerLogin)
  BY <1>1 DEF ScriptCall, DefaultServerLogin, CloseAuth, Unconnected
<1>2. CASE (ScriptCall /\ ChangeRealm)
  BY <1>2 DEF ScriptCall, ChangeRealm, CloseAuth, CloseWorld
<1>3. CASE (ScriptCall /\ Disconnect)
  BY <1>3 DEF ScriptCall, Disconnect, CloseAuth, CloseWorld
<1>4. CASE Connecting
  BY <1>4 DEF Connecting, Raise, At
<1>5. CASE HandleChallenge
  BY <1>5 DEF HandleChallenge, Takes, Complete, Raise, At
<1>6. CASE HandleProof
  BY <1>6 DEF HandleProof, Takes, Complete, Raise, Refused, At
<1>7. CASE HandleRealmList
  <2>1. /\ phase = "realmlist" /\ phase' \in {phase, "none"}
        /\ servers' \in {servers, servers + 1}
    BY <1>7 DEF HandleRealmList, Takes
  <2>2. UNCHANGED <<auth, worldVars, logins, countVars>>
    BY <1>7 DEF HandleRealmList
  <2> QED BY <2>1, <2>2
<1>8. CASE AuthFailed
  BY <1>8 DEF AuthFailed, CloseAuth, Goto, At
<1>9. CASE WorldFails \/ NoPacket
  BY <1>9 DEF WorldFails, CloseWorld, Idle, At, NoPacket, Reading, Uses
<1>10. CASE WorldReceives \/ AnswersChallenge
  BY <1>10 DEF WorldReceives, At, AnswersChallenge, Reading
<1>11. CASE ScriptReturns \/ NoAuth \/ Greet \/ Receive \/ Send \/ NoWorld \/ RaisesEvent
         \/ Answer
  BY <1>11 DEF ScriptReturns, At, NoAuth, Goto, Greet, Uses, Receive, Talking, Send, NoWorld,
               Idle, RaisesEvent, Reading, Raise, Answer
<1>12. CASE UNCHANGED vars
  BY <1>12 DEF vars
<1> QED
  BY <1>1, <1>2, <1>3, <1>4, <1>5, <1>6, <1>7, <1>8, <1>9, <1>10, <1>11, <1>12, NextCases

LEMMA NamesKept ==
  ASSUME TypeCounts, TypeAuth, TypeWorld, TypeNames, [Next]_vars
  PROVE  TypeNames'
<1> USE DEF authVars, worldVars, dataVars, countVars, history, TypeCounts, TypeAuth, TypeNames,
            Logins
<1>1. CASE (ScriptCall /\ DefaultServerLogin)
  BY <1>1 DEF ScriptCall, DefaultServerLogin, CloseAuth, Unconnected
<1>2. CASE (ScriptCall /\ ChangeRealm)
  BY <1>2 DEF ScriptCall, ChangeRealm, CloseAuth, CloseWorld
<1>3. CASE (ScriptCall /\ Disconnect)
  BY <1>3 DEF ScriptCall, Disconnect, CloseAuth, CloseWorld
<1>4. CASE HandleChallenge
  BY <1>4 DEF HandleChallenge, Takes, Complete, Raise, At
<1>5. CASE HandleProof
  BY <1>5 DEF HandleProof, Takes, Complete, Raise, Refused, At
<1>6. CASE HandleRealmList
  BY <1>6 DEF HandleRealmList, Takes, Complete, SetAuthKey, Suggested, Raise, At, Whole
<1>7. CASE AuthFailed
  BY <1>7 DEF AuthFailed, CloseAuth, Goto, At
<1>8. CASE AnswersChallenge
  BY <1>8 DEF AnswersChallenge, Reading
<1>9. CASE WorldFails \/ NoPacket
  BY <1>9 DEF WorldFails, CloseWorld, Idle, At, NoPacket, Reading, Uses
<1>10. CASE ScriptReturns \/ NoAuth \/ Connecting \/ Greet \/ Receive \/ Send \/ NoWorld
         \/ WorldReceives \/ RaisesEvent \/ Answer
  BY <1>10 DEF ScriptReturns, At, NoAuth, Goto, Connecting, Raise, Greet, Uses, Receive,
               Talking, Send, NoWorld, Idle, WorldReceives, RaisesEvent, Reading, Answer
<1>11. CASE UNCHANGED vars
  BY <1>11 DEF vars
<1> QED
  BY <1>1, <1>2, <1>3, <1>4, <1>5, <1>6, <1>7, <1>8, <1>9, <1>10, <1>11, NextCases

(* what a step does to the read buffer                                     *)
Taken == inbox # <<>> /\ inbox' = Tail(inbox)
Came == \E m \in Messages \cup Refusals : inbox' = Append(inbox, m)

LEMMA InboxSteps ==
  ASSUME [Next]_vars
  PROVE  inbox' = inbox \/ inbox' = <<>> \/ Taken \/ Came
<1> USE DEF authVars, worldVars, dataVars, countVars, history
<1>1. CASE (ScriptCall /\ DefaultServerLogin)
  BY <1>1 DEF ScriptCall, DefaultServerLogin, CloseAuth, Unconnected
<1>2. CASE (ScriptCall /\ ChangeRealm)
  BY <1>2 DEF ScriptCall, ChangeRealm, CloseAuth, CloseWorld
<1>3. CASE (ScriptCall /\ Disconnect)
  BY <1>3 DEF ScriptCall, Disconnect, CloseAuth, CloseWorld
<1>4. CASE HandleChallenge
  BY <1>4 DEF HandleChallenge, Taken, Takes, Complete
<1>5. CASE HandleProof
  BY <1>5 DEF HandleProof, Taken, Takes, Complete, Refused
<1>6. CASE HandleRealmList
  BY <1>6 DEF HandleRealmList, Taken, Takes, Complete, Suggested
<1>7. CASE AuthFailed
  BY <1>7 DEF AuthFailed, CloseAuth, Goto
<1>8. CASE Answer
  BY <1>8 DEF Answer, Came
<1>9. CASE ScriptReturns \/ NoAuth \/ Connecting \/ Greet \/ Receive \/ Send \/ NoWorld
        \/ WorldFails \/ WorldReceives \/ AnswersChallenge \/ RaisesEvent \/ NoPacket
  BY <1>9 DEF ScriptReturns, NoAuth, Goto, Connecting, Greet, Uses, Receive, Send, NoWorld,
              Idle, WorldFails, CloseWorld, WorldReceives, AnswersChallenge, Reading,
              RaisesEvent, NoPacket
<1>10. CASE UNCHANGED vars
  BY <1>10 DEF vars
<1> QED
  BY <1>1, <1>2, <1>3, <1>4, <1>5, <1>6, <1>7, <1>8, <1>9, <1>10, NextCases

LEMMA InboxKept ==
  ASSUME TypeInbox, [Next]_vars
  PROVE  TypeInbox'
<1> DEFINE Words == Messages \cup Refusals
<1>0. (TypeInbox <=> inbox \in Seq(Words)) /\ (TypeInbox' <=> inbox' \in Seq(Words))
  BY DEF TypeInbox, Messages, Refusals
<1> HIDE DEF Words
<1>1. CASE inbox' = inbox \/ inbox' = <<>>
  <2>1. <<>> \in Seq(Words)
    OBVIOUS
  <2> QED BY <1>0, <1>1, <2>1, Zenon
<1>2. CASE Taken
  BY <1>0, <1>2, TailInSeq DEF Taken
<1>3. CASE Came
  BY <1>0, <1>3 DEF Came, Words
<1> QED BY <1>1, <1>2, <1>3, InboxSteps

LEMMA HushedKept ==
  ASSUME hushed \in BOOLEAN, [Next]_vars
  PROVE  hushed' \in BOOLEAN
<1> USE DEF authVars, worldVars, dataVars, countVars, history
<1>1. CASE (ScriptCall /\ DefaultServerLogin)
  BY <1>1 DEF ScriptCall, DefaultServerLogin, CloseAuth, Unconnected
<1>2. CASE (ScriptCall /\ ChangeRealm)
  BY <1>2 DEF ScriptCall, ChangeRealm, CloseAuth, CloseWorld
<1>3. CASE (ScriptCall /\ Disconnect)
  BY <1>3 DEF ScriptCall, Disconnect, CloseAuth, CloseWorld
<1>4. CASE AuthFailed
  BY <1>4 DEF AuthFailed, CloseAuth, Goto, At
<1>5. CASE Answer
  BY <1>5 DEF Answer, Talking
<1>6. CASE ScriptReturns \/ NoAuth \/ Connecting \/ Greet \/ Receive \/ HandleChallenge
        \/ HandleProof \/ HandleRealmList \/ Send \/ NoWorld \/ WorldFails \/ WorldReceives
        \/ AnswersChallenge \/ RaisesEvent \/ NoPacket
  BY <1>6 DEF ScriptReturns, At, NoAuth, Goto, Connecting, Raise, Greet, Uses, Receive, Talking,
              HandleChallenge, Takes, Complete, HandleProof, Refused, HandleRealmList,
              SetAuthKey, Suggested, Whole, Send, NoWorld, Idle, WorldFails, CloseWorld,
              WorldReceives, AnswersChallenge, Reading, RaisesEvent, NoPacket
<1>7. CASE UNCHANGED vars
  BY <1>7 DEF vars
<1> QED
  BY <1>1, <1>2, <1>3, <1>4, <1>5, <1>6, <1>7, NextCases, Zenon

LEMMA TickKept ==
  ASSUME TypeCounts, TypeAuth, TypeWorld, TypeTick, [Next]_vars
  PROVE  TypeTick'
<1> USE DEF authVars, worldVars, dataVars, countVars, history, TypeCounts, TypeAuth, TypeWorld,
            TypeTick, Places
<1>1. CASE (ScriptCall /\ DefaultServerLogin) \/ (ScriptCall /\ ChangeRealm)
        \/ (ScriptCall /\ Disconnect)
  BY <1>1 DEF ScriptCall, DefaultServerLogin, CloseAuth, Unconnected, ChangeRealm, CloseWorld,
              Disconnect
<1>2. CASE Answer
  BY <1>2 DEF Answer
<1>3. CASE HandleChallenge
  BY <1>3 DEF HandleChallenge, Raise, At
<1>4. CASE HandleProof
  BY <1>4 DEF HandleProof, Raise, Refused, At
<1>5. CASE HandleRealmList
  <2>1. tick' \in {At("script", auth, Suggested), At("send", auth, "send")}
    BY <1>5 DEF HandleRealmList, Raise
  <2>2. UNCHANGED <<made, auth>>
    BY <1>5 DEF HandleRealmList
  <2> QED BY <2>1, <2>2 DEF At, Suggested
<1>6. CASE ScriptReturns \/ NoAuth \/ Connecting \/ Greet \/ Receive \/ Send \/ AuthFailed
        \/ NoWorld \/ WorldFails \/ WorldReceives \/ AnswersChallenge \/ RaisesEvent \/ NoPacket
  BY <1>6 DEF ScriptReturns, At, NoAuth, Goto, Connecting, Raise, Greet, Uses, Receive, Send,
              AuthFailed, CloseAuth, NoWorld, Idle, WorldFails, CloseWorld, WorldReceives,
              AnswersChallenge, Reading, RaisesEvent, NoPacket
<1>7. CASE UNCHANGED vars
  BY <1>7 DEF vars
<1> QED
  BY <1>1, <1>2, <1>3, <1>4, <1>5, <1>6, <1>7, NextCases, Zenon

LEMMA FaultKept ==
  ASSUME TypeTick, TypeFault, [Next]_vars
  PROVE  TypeFault'
<1> USE DEF authVars, worldVars, dataVars, countVars, history, TypeTick, TypeFault, Places
<1>1. CASE (ScriptCall /\ DefaultServerLogin)
  BY <1>1 DEF ScriptCall, DefaultServerLogin, CloseAuth, Unconnected
<1>2. CASE (ScriptCall /\ ChangeRealm)
  BY <1>2 DEF ScriptCall, ChangeRealm, CloseAuth, CloseWorld
<1>3. CASE (ScriptCall /\ Disconnect)
  BY <1>3 DEF ScriptCall, Disconnect, CloseAuth, CloseWorld
<1>4. CASE Greet
  BY <1>4 DEF Greet, Goto, Uses, At
<1>5. CASE Send
  BY <1>5 DEF Send, Uses, Goto, At
<1>6. CASE AnswersChallenge
  BY <1>6 DEF AnswersChallenge, Reading
<1>7. CASE NoPacket
  BY <1>7 DEF NoPacket, Reading, Uses, CloseWorld, Idle, At
<1>8. CASE ScriptReturns \/ NoAuth \/ Connecting \/ Receive \/ HandleChallenge \/ HandleProof
        \/ HandleRealmList \/ AuthFailed \/ NoWorld \/ WorldFails \/ WorldReceives
        \/ RaisesEvent \/ Answer
  BY <1>8 DEF ScriptReturns, At, NoAuth, Goto, Connecting, Raise, Receive, Talking,
              HandleChallenge, Takes, Complete, HandleProof, Refused, HandleRealmList,
              SetAuthKey, Suggested, Whole, AuthFailed, CloseAuth, NoWorld, Idle, WorldFails,
              CloseWorld, WorldReceives, RaisesEvent, Reading, Answer
<1>9. CASE UNCHANGED vars
  BY <1>9 DEF vars
<1> QED
  BY <1>1, <1>2, <1>3, <1>4, <1>5, <1>6, <1>7, <1>8, <1>9, NextCases

LEMMA TypeKept == TypeOK /\ [Next]_vars => TypeOK'
<1> SUFFICES ASSUME TypeOK, [Next]_vars PROVE TypeOK'
  OBVIOUS
<1>1. /\ TypeCounts /\ TypeAuth /\ TypeWorld /\ TypeNames
      /\ TypeInbox /\ hushed \in BOOLEAN /\ TypeTick /\ TypeFault
  BY TypeParts
<1>2. TypeCounts' /\ TypeAuth' /\ TypeWorld' /\ TypeNames' /\ TypeTick' /\ TypeFault'
  BY <1>1, NumbersKept, NamesKept, TickKept, FaultKept
<1>3. TypeInbox' /\ (hushed \in BOOLEAN)'
  BY <1>1, InboxKept, HushedKept
<1> QED BY <1>2, <1>3, Zenon DEF TypeOK, TypeCounts, TypeAuth, TypeWorld, TypeNames, TypeInbox,
           TypeTick, TypeFault

LEMMA OneConnectionKept ==
  ASSUME TypeCounts, TypeAuth, TypeWorld, TypeNames, TypeTick, OneConnection, [Next]_vars
  PROVE  OneConnection'
<1> USE DEF authVars, worldVars, dataVars, countVars, history, TypeCounts, TypeAuth, TypeWorld,
            OneConnection
<1>1. CASE (ScriptCall /\ DefaultServerLogin)
  BY <1>1 DEF ScriptCall, DefaultServerLogin, CloseAuth, Unconnected
<1>2. CASE (ScriptCall /\ ChangeRealm)
  BY <1>2 DEF ScriptCall, ChangeRealm, CloseAuth, CloseWorld
<1>3. CASE (ScriptCall /\ Disconnect)
  BY <1>3 DEF ScriptCall, Disconnect, CloseAuth, CloseWorld
<1>4. CASE Connecting
  BY <1>4 DEF Connecting
<1>5. CASE HandleChallenge
  BY <1>5 DEF HandleChallenge, Takes, Complete
<1>6. CASE HandleProof
  BY <1>6 DEF HandleProof, Takes, Complete, ProofOk
<1>7. CASE HandleRealmList
  BY <1>7 DEF HandleRealmList, Takes, Complete, SetAuthKey, Whole
<1>8. CASE AuthFailed
  BY <1>8 DEF AuthFailed, CloseAuth, Goto
<1>9. CASE WorldFails \/ NoPacket
  BY <1>9 DEF WorldFails, CloseWorld, Idle, NoPacket, Reading, Uses
<1>10. CASE WorldReceives \/ AnswersChallenge
  BY <1>10 DEF WorldReceives, AnswersChallenge, Reading
<1>11. CASE ScriptReturns \/ NoAuth \/ Greet \/ Receive \/ Send \/ NoWorld \/ RaisesEvent
         \/ Answer
  BY <1>11 DEF ScriptReturns, NoAuth, Goto, Greet, Uses, Receive, Talking, Send, NoWorld, Idle,
               RaisesEvent, Reading, Answer
<1>12. CASE UNCHANGED vars
  BY <1>12 DEF vars
<1> QED
  BY <1>1, <1>2, <1>3, <1>4, <1>5, <1>6, <1>7, <1>8, <1>9, <1>10, <1>11, <1>12, NextCases

LEMMA OwnNameKept ==
  ASSUME TypeCounts, TypeAuth, TypeWorld, TypeNames, TypeTick, OneConnection, OwnName, [Next]_vars
  PROVE  OwnName'
<1> USE DEF authVars, worldVars, dataVars, countVars, history, TypeCounts, TypeAuth, TypeWorld,
            TypeNames, Logins, OneConnection, OwnName
<1>1. CASE (ScriptCall /\ DefaultServerLogin)
  BY <1>1 DEF ScriptCall, DefaultServerLogin, CloseAuth, Unconnected
<1>2. CASE (ScriptCall /\ ChangeRealm)
  BY <1>2 DEF ScriptCall, ChangeRealm, CloseAuth, CloseWorld
<1>3. CASE (ScriptCall /\ Disconnect)
  BY <1>3 DEF ScriptCall, Disconnect, CloseAuth, CloseWorld
<1>4. CASE Connecting
  BY <1>4 DEF Connecting
<1>5. CASE HandleChallenge
  BY <1>5 DEF HandleChallenge, Takes, Complete
<1>6. CASE HandleProof
  BY <1>6 DEF HandleProof, Takes, Complete, ProofOk
<1>7. CASE HandleRealmList
  BY <1>7 DEF HandleRealmList, Takes, Complete, SetAuthKey, Whole
<1>8. CASE AuthFailed
  BY <1>8 DEF AuthFailed, CloseAuth, Goto
<1>9. CASE WorldFails \/ NoPacket
  BY <1>9 DEF WorldFails, CloseWorld, Idle, NoPacket, Reading, Uses
<1>10. CASE AnswersChallenge
  BY <1>10 DEF AnswersChallenge, Reading
<1>11. CASE ScriptReturns \/ NoAuth \/ Greet \/ Receive \/ Send \/ NoWorld \/ WorldReceives
         \/ RaisesEvent \/ Answer
  BY <1>11 DEF ScriptReturns, NoAuth, Goto, Greet, Uses, Receive, Talking, Send, NoWorld, Idle,
               WorldReceives, RaisesEvent, Reading, Answer
<1>12. CASE UNCHANGED vars
  BY <1>12 DEF vars
<1> QED
  BY <1>1, <1>2, <1>3, <1>4, <1>5, <1>6, <1>7, <1>8, <1>9, <1>10, <1>11, <1>12, NextCases

LEMMA KeyProvedKept ==
  ASSUME TypeCounts, TypeAuth, TypeWorld, TypeNames, TypeTick, OneConnection, OwnName, KeyProved,
         [Next]_vars
  PROVE  KeyProved'
<1> USE DEF authVars, worldVars, dataVars, countVars, history, TypeCounts, TypeAuth, TypeNames,
            Logins, OneConnection, OwnName, KeyProved
<1>1. CASE (ScriptCall /\ DefaultServerLogin)
  BY <1>1 DEF ScriptCall, DefaultServerLogin, CloseAuth, Unconnected
<1>2. CASE (ScriptCall /\ ChangeRealm)
  BY <1>2 DEF ScriptCall, ChangeRealm, CloseAuth, CloseWorld
<1>3. CASE (ScriptCall /\ Disconnect)
  BY <1>3 DEF ScriptCall, Disconnect, CloseAuth, CloseWorld
<1>4. CASE HandleChallenge
  BY <1>4 DEF HandleChallenge, Takes, Complete
<1>5. CASE HandleProof
  BY <1>5 DEF HandleProof, Takes, Complete, ProofOk
<1>6. CASE HandleRealmList
  BY <1>6 DEF HandleRealmList, Takes, Complete, SetAuthKey, Whole
<1>7. CASE AuthFailed
  BY <1>7 DEF AuthFailed, CloseAuth, Goto
<1>8. CASE NoPacket
  BY <1>8 DEF NoPacket, Reading, Uses, CloseWorld, Idle
<1>9. CASE ScriptReturns \/ NoAuth \/ Connecting \/ Greet \/ Receive \/ Send \/ NoWorld
        \/ WorldFails \/ WorldReceives \/ AnswersChallenge \/ RaisesEvent \/ Answer
  BY <1>9 DEF ScriptReturns, NoAuth, Goto, Connecting, Greet, Uses, Receive, Talking, Send,
              NoWorld, Idle, WorldFails, CloseWorld, WorldReceives, AnswersChallenge, Reading,
              RaisesEvent, Answer
<1>10. CASE UNCHANGED vars
  BY <1>10 DEF vars
<1> QED
  BY <1>1, <1>2, <1>3, <1>4, <1>5, <1>6, <1>7, <1>8, <1>9, <1>10, NextCases

LEMMA SessionKeysKept ==
  ASSUME TypeCounts, TypeAuth, TypeWorld, TypeNames, TypeTick, OneConnection, OwnName, KeyProved,
         SessionKeys, [Next]_vars
  PROVE  SessionKeys'
<1> USE DEF authVars, worldVars, dataVars, countVars, history, TypeAuth, OneConnection, OwnName,
            KeyProved, SessionKeys
<1>1. CASE (ScriptCall /\ DefaultServerLogin)
  BY <1>1 DEF ScriptCall, DefaultServerLogin, CloseAuth, Unconnected
<1>2. CASE (ScriptCall /\ ChangeRealm)
  BY <1>2 DEF ScriptCall, ChangeRealm, CloseAuth, CloseWorld
<1>3. CASE (ScriptCall /\ Disconnect)
  BY <1>3 DEF ScriptCall, Disconnect, CloseAuth, CloseWorld
<1>4. CASE HandleChallenge
  BY <1>4 DEF HandleChallenge, Takes, Complete
<1>5. CASE HandleProof
  BY <1>5 DEF HandleProof, Takes, Complete, ProofOk
<1>6. CASE HandleRealmList
  <2>1. phase = "realmlist" /\ listed' \subseteq listed \cup {user}
    BY <1>6 DEF HandleRealmList, Takes
  <2>2. UNCHANGED <<sessions, proved>>
    BY <1>6 DEF HandleRealmList
  <2>3. \A s \in sessions : s.user # user
    BY <2>1
  <2> QED BY <2>1, <2>2, <2>3
<1>7. CASE AuthFailed
  BY <1>7 DEF AuthFailed, CloseAuth, Goto
<1>8. CASE AnswersChallenge
  BY <1>8 DEF AnswersChallenge, Reading
<1>9. CASE WorldFails \/ NoPacket
  BY <1>9 DEF WorldFails, CloseWorld, Idle, NoPacket, Reading, Uses
<1>10. CASE ScriptReturns \/ NoAuth \/ Connecting \/ Greet \/ Receive \/ Send \/ NoWorld
         \/ WorldReceives \/ RaisesEvent \/ Answer
  BY <1>10 DEF ScriptReturns, NoAuth, Goto, Connecting, Greet, Uses, Receive, Talking, Send,
               NoWorld, Idle, WorldReceives, RaisesEvent, Reading, Answer
<1>11. CASE UNCHANGED vars
  BY <1>11 DEF vars
<1> QED
  BY <1>1, <1>2, <1>3, <1>4, <1>5, <1>6, <1>7, <1>8, <1>9, <1>10, <1>11, NextCases

LEMMA OwnSocketKept ==
  ASSUME TypeTick, FaultsKnown, OwnSocket, [Next]_vars
  PROVE  OwnSocket'
<1> USE DEF authVars, worldVars, dataVars, countVars, history, TypeTick, OwnSocket
<1>1. CASE (ScriptCall /\ DefaultServerLogin) \/ (ScriptCall /\ ChangeRealm)
        \/ (ScriptCall /\ Disconnect)
  BY <1>1 DEF ScriptCall, DefaultServerLogin, CloseAuth, Unconnected, ChangeRealm, CloseWorld,
              Disconnect
<1>2. CASE ScriptReturns
  BY <1>2 DEF ScriptReturns, At
<1>3. CASE Connecting
  BY <1>3 DEF Connecting, Raise, At
<1>4. CASE Greet
  BY <1>4 DEF Greet, Goto, Uses, At
<1>5. CASE Receive
  BY <1>5 DEF Receive, At
<1>6. CASE HandleChallenge
  BY <1>6 DEF HandleChallenge, Raise, At
<1>7. CASE HandleProof
  BY <1>7 DEF HandleProof, Raise, Refused, At
<1>8. CASE HandleRealmList
  <2>1. tick' \in {At("script", auth, Suggested), At("send", auth, "send")}
    BY <1>8 DEF HandleRealmList, Raise
  <2>2. UNCHANGED <<auth, world, fault>>
    BY <1>8 DEF HandleRealmList
  <2> QED BY <2>1, <2>2 DEF At, Suggested
<1>9. CASE Send
  BY <1>9 DEF Send, Uses, Goto, At
<1>10. CASE AuthFailed
  BY <1>10 DEF AuthFailed, CloseAuth, Goto, At
<1>11. CASE AnswersChallenge
  BY <1>11 DEF AnswersChallenge, Reading
<1>12. CASE NoPacket
  BY <1>12 DEF NoPacket, Reading, Uses, CloseWorld, Idle, At
<1>13. CASE NoAuth \/ NoWorld \/ WorldFails \/ WorldReceives \/ RaisesEvent \/ Answer
  BY <1>13 DEF NoAuth, Goto, At, NoWorld, Idle, WorldFails, CloseWorld, WorldReceives,
               RaisesEvent, Reading, Raise, Answer
<1>14. CASE UNCHANGED vars
  BY <1>14 DEF vars
<1> QED
  BY <1>1, <1>2, <1>3, <1>4, <1>5, <1>6, <1>7, <1>8, <1>9, <1>10, <1>11, <1>12, <1>13, <1>14,
     NextCases

LEMMA LoggedInKept ==
  ASSUME TypeCounts, TypeAuth, TypeWorld, TypeNames, TypeTick, OwnName, LoggedIn, [Next]_vars
  PROVE  LoggedIn'
<1> USE DEF authVars, worldVars, dataVars, countVars, history, TypeCounts, TypeAuth, TypeNames,
            Logins, OwnName, LoggedIn
<1>1. CASE (ScriptCall /\ DefaultServerLogin)
  BY <1>1 DEF ScriptCall, DefaultServerLogin, CloseAuth, Unconnected
<1>2. CASE (ScriptCall /\ ChangeRealm)
  BY <1>2 DEF ScriptCall, ChangeRealm, CloseAuth, CloseWorld
<1>3. CASE (ScriptCall /\ Disconnect)
  BY <1>3 DEF ScriptCall, Disconnect, CloseAuth, CloseWorld
<1>4. CASE HandleChallenge
  BY <1>4 DEF HandleChallenge, Takes, Complete
<1>5. CASE HandleProof
  BY <1>5 DEF HandleProof, Takes, Complete, ProofOk
<1>6. CASE HandleRealmList
  <2>1. phase = "realmlist" /\ UNCHANGED logins
    BY <1>6 DEF HandleRealmList, Takes
  <2> QED BY <2>1
<1>7. CASE AuthFailed
  BY <1>7 DEF AuthFailed, CloseAuth, Goto
<1>8. CASE WorldFails \/ NoPacket
  BY <1>8 DEF WorldFails, CloseWorld, Idle, NoPacket, Reading, Uses
<1>9. CASE ScriptReturns \/ NoAuth \/ Connecting \/ Greet \/ Receive \/ Send \/ NoWorld
        \/ WorldReceives \/ AnswersChallenge \/ RaisesEvent \/ Answer
  BY <1>9 DEF ScriptReturns, NoAuth, Goto, Connecting, Greet, Uses, Receive, Talking, Send,
              NoWorld, Idle, WorldReceives, AnswersChallenge, Reading, RaisesEvent, Answer
<1>10. CASE UNCHANGED vars
  BY <1>10 DEF vars
<1> QED
  BY <1>1, <1>2, <1>3, <1>4, <1>5, <1>6, <1>7, <1>8, <1>9, <1>10, NextCases

LEMMA FaultsKnownKept ==
  ASSUME TypeCounts, TypeAuth, TypeWorld, TypeNames, TypeTick, OwnSocket, LoggedIn, FaultsKnown,
         [Next]_vars
  PROVE  FaultsKnown'
<1> USE DEF authVars, worldVars, dataVars, countVars, history, TypeTick, TypeWorld, OwnSocket,
            LoggedIn, FaultsKnown
<1>0. fault = "no" \/ UNCHANGED vars
  BY DEF Next, Undefined
<1>1. CASE (ScriptCall /\ DefaultServerLogin)
  BY <1>0, <1>1 DEF vars, ScriptCall, DefaultServerLogin, CloseAuth, Unconnected
<1>2. CASE (ScriptCall /\ ChangeRealm)
  BY <1>0, <1>2 DEF vars, ScriptCall, ChangeRealm, CloseAuth, CloseWorld
<1>3. CASE (ScriptCall /\ Disconnect)
  BY <1>0, <1>3 DEF vars, ScriptCall, Disconnect, CloseAuth, CloseWorld
<1>4. CASE HandleChallenge
  BY <1>0, <1>4 DEF vars, HandleChallenge
<1>5. CASE HandleProof
  BY <1>0, <1>5 DEF vars, HandleProof
<1>6. CASE HandleRealmList
  BY <1>0, <1>6 DEF vars, HandleRealmList, SetAuthKey, Whole
<1>7. CASE Greet
  BY <1>0, <1>7 DEF vars, Greet, Goto, Uses
<1>8. CASE Send
  BY <1>0, <1>8 DEF vars, Send, Uses, Goto
<1>9. CASE AnswersChallenge
  BY <1>0, <1>9 DEF vars, AnswersChallenge, Reading
<1>10. CASE NoPacket
  BY <1>0, <1>10 DEF vars, NoPacket, Reading, Uses, CloseWorld, Idle
<1>11. CASE ScriptReturns \/ NoAuth \/ Connecting \/ Receive \/ AuthFailed \/ NoWorld
         \/ WorldFails \/ WorldReceives \/ RaisesEvent \/ Answer
  BY <1>0, <1>11 DEF vars, ScriptReturns, NoAuth, Goto, Connecting, Receive, Talking, AuthFailed,
     CloseAuth,
               NoWorld, Idle, WorldFails, CloseWorld, WorldReceives, RaisesEvent, Reading,
               Answer
<1>12. CASE UNCHANGED vars
  BY <1>12 DEF vars
<1> QED
  BY <1>1, <1>2, <1>3, <1>4, <1>5, <1>6, <1>7, <1>8, <1>9, <1>10, <1>11, <1>12, NextCases

LEMMA InitHolds == Init => IInv
<1> SUFFICES ASSUME Init PROVE IInv
  OBVIOUS
<1> USE DEF Init, At, Idle
<1>1. TypeOK
  <2>1. TypeCounts /\ TypeAuth /\ TypeWorld /\ TypeNames /\ TypeTick /\ TypeFault
    BY DEF TypeCounts, TypeAuth, TypeWorld, TypeNames, TypeTick, TypeFault, Logins, Phases, Places
  <2>2. <<>> \in Seq(Messages \cup Refusals)
    OBVIOUS
  <2>3. TypeInbox
    BY <2>2 DEF TypeInbox
  <2>4. hushed \in BOOLEAN
    BY Zenon
  <2> QED BY <2>1, <2>3, <2>4, TypeParts
<1>2. OneConnection /\ OwnName /\ KeyProved /\ SessionKeys
  BY DEF OneConnection, OwnName, KeyProved, SessionKeys
<1>3. OwnSocket /\ LoggedIn /\ FaultsKnown
  BY DEF OwnSocket, LoggedIn, FaultsKnown
<1> QED BY <1>1, <1>2, <1>3 DEF IInv

LEMMA IInvKept == IInv /\ [Next]_vars => IInv'
<1> SUFFICES ASSUME IInv, [Next]_vars PROVE IInv'
  OBVIOUS
<1>1. TypeOK /\ TypeCounts /\ TypeAuth /\ TypeWorld /\ TypeNames /\ TypeTick
  BY TypeParts DEF IInv
<1>2. OneConnection /\ OwnName /\ KeyProved /\ SessionKeys /\ OwnSocket /\ LoggedIn /\ FaultsKnown
  BY DEF IInv
<1>3. TypeOK' /\ OneConnection' /\ OwnName' /\ KeyProved' /\ SessionKeys'
  BY <1>1, <1>2, TypeKept, OneConnectionKept, OwnNameKept, KeyProvedKept, SessionKeysKept
<1>4. OwnSocket' /\ LoggedIn' /\ FaultsKnown'
  BY <1>1, <1>2, OwnSocketKept, LoggedInKept, FaultsKnownKept
<1> QED BY <1>3, <1>4 DEF IInv

(* A tick that fails without an alert closes the socket it was called      *)
(* with: no script has run since.                                          *)
LEMMA ClosingStep ==
  ASSUME TypeAuth, OwnSocket, [Next]_vars,
         auth # None, auth' = None, tick.at \notin {"idle", "script"}
  PROVE  auth = tick.socket \/ tick.at = "refused"
<1> USE DEF authVars, worldVars, dataVars, countVars, history
<1>1. CASE AuthFailed /\ fault = "no"
  BY <1>1 DEF AuthFailed, OwnSocket
<1>2. CASE AuthFailed /\ UNCHANGED vars
  BY <1>2 DEF vars
<1>3. CASE ~AuthFailed
  <2>1. CASE (ScriptCall /\ DefaultServerLogin) \/ (ScriptCall /\ ChangeRealm)
             \/ (ScriptCall /\ Disconnect)
    BY <2>1 DEF ScriptCall
  <2>2. CASE ScriptReturns \/ NoAuth \/ Connecting \/ Greet \/ Receive \/ HandleChallenge
             \/ HandleProof \/ HandleRealmList \/ Send
    BY <2>2 DEF ScriptReturns, NoAuth, Connecting, Greet, Receive, HandleChallenge, HandleProof,
                HandleRealmList, Send
  <2>3. CASE NoWorld \/ WorldFails \/ WorldReceives \/ AnswersChallenge \/ RaisesEvent
             \/ NoPacket \/ Answer
    BY <2>3 DEF NoWorld, WorldFails, WorldReceives, AnswersChallenge, RaisesEvent, NoPacket, Answer
  <2>4. CASE UNCHANGED vars
    BY <2>4 DEF vars
  <2> QED BY <1>3, <2>1, <2>2, <2>3, <2>4, NextCases
<1> QED BY <1>1, <1>2, <1>3 DEF Next, Undefined

LEMMA Invariant == Spec => []IInv
  BY InitHolds, IInvKept, PTL DEF Spec

(* Types are kept, for any number of calls and messages.                   *)
THEOREM TypeCorrect == Spec => []TypeOK
<1>1. IInv => TypeOK
  BY DEF IInv
<1> QED BY <1>1, Invariant, PTL

(* There is one connection at most, in the middle of a tick too, and its   *)
(* name is that of its login.                                              *)
THEOREM NeverTwoConnections == Spec => []OneConnection
<1>1. IInv => OneConnection
  BY DEF IInv
<1> QED BY <1>1, Invariant, PTL

(* No order of messages makes a world be answered with a key the server of *)
(* accounts has not proved to know, nor with the key of another login when *)
(* the login has come to its end.                                          *)
THEOREM KeysAreProved == Spec => []SessionKeys
<1>1. IInv => SessionKeys
  BY DEF IInv
<1> QED BY <1>1, Invariant, PTL

(* A socket is not used once it is freed, except after the alerts of the   *)
(* handshake and the events of a world, whose scripts may have freed it.   *)
THEOREM FaultsAreKnown == Spec => []FaultsKnown
<1>1. IInv => FaultsKnown
  BY DEF IInv
<1> QED BY <1>1, Invariant, PTL

(* A tick closes no other connection to the server of accounts than its    *)
(* own, except after a refusal.                                            *)
THEOREM TickClosesItsOwn == Spec => TickClosesOwn
<1>1. IInv /\ [Next]_vars =>
        [auth # None /\ auth' = None /\ tick.at \notin {"idle", "script"} =>
           auth = tick.socket \/ tick.at = "refused"]_vars
  BY ClosingStep, TypeParts DEF IInv
<1> QED BY <1>1, Invariant, PTL DEF Spec, TickClosesOwn
=============================================================================
