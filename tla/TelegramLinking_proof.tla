-------------------------- MODULE TelegramLinking_proof --------------------------
(***************************************************************************)
(* Proofs about TelegramLinking for any users, calls, messages and limits. *)
(***************************************************************************)
EXTENDS TelegramLinking, SequenceTheorems, TLAPS

-----------------------------------------------------------------------------
(* The inductive invariant.                                                 *)

Statuses == {"NONE", "CONNECTED", "BROKEN", "DISCONNECTED"}
ConnectionRows == [status : Statuses, telegram : TelegramUsers \union {NoTelegram}, revision : Nat]
TokenRows == [user : Users, state : {"usable", "consumed", "revoked", "expired"}]
Messages == [token : Nat, telegram : TelegramUsers \union {NoTelegram}, answered : BOOLEAN]
Calls == [pc : {"idle", "link", "create", "disconnect"}, user : Users \union {Nobody},
          linked : BOOLEAN, revokes : SUBSET Nat]
HandlerCalls == [pc : {"idle", "token", "user", "others", "write"}, update : Updates \union {Nobody}]

Types ==
    /\ connection \in [Users -> ConnectionRows]
    /\ token \in Seq(TokenRows)
    /\ eligible \subseteq Users
    /\ attempts \in [Users -> 0..LinkLimit]
    /\ update \in [Updates -> Messages]
    /\ receipts \subseteq Updates
    /\ handler \in [Handlers -> HandlerCalls]
    /\ session \in [Sessions -> Calls]
    /\ lock \in [Users -> Sessions \union {Nobody}]

\* A message that was sent names a token that was made.
MessagesNameTokens ==
    \A i \in Updates : update[i] # Unsent =>
        update[i].token \in DOMAIN token /\ update[i].telegram \in TelegramUsers

\* A handler works on a message that was sent and is not decided yet, alone.
HandlersWork ==
    /\ \A h \in Handlers : handler[h].pc # "idle" =>
         /\ handler[h].update \in Updates \ receipts /\ update[handler[h].update] # Unsent
    /\ \A h, g \in Handlers :
         handler[h].pc # "idle" /\ handler[g].pc # "idle" /\ handler[h].update = handler[g].update => h = g

\* A decision goes with its receipt.
DecisionsRecorded == \A d \in decisions : d[1] \in receipts

\* Who makes a token holds the lock of its user, and is about to revoke every
\* usable token the user has.
Making(s) == session[s].pc \in {"link", "create"}
MakersHold ==
    \A s \in Sessions :
        /\ session[s].pc # "idle" => session[s].user \in Users
        /\ Making(s) => lock[session[s].user] = s
        /\ session[s].pc = "create" => UsableTokens(session[s].user) \subseteq session[s].revokes

\* Two users never have the same Telegram account, connected or broken.
AccountsDiffer ==
    \A u, w \in Users : connection[u].telegram = connection[w].telegram =>
        u = w \/ connection[u].telegram = NoTelegram

ConnectedHaveAccounts ==
    \A u \in Users : connection[u].status = "CONNECTED" => connection[u].telegram # NoTelegram

\* What was named has a revision the connection has reached.
NamesPast == \A m \in named : m[1] \in Users /\ m[2] \in Nat /\ m[2] <= connection[m[1]].revision

IInv ==
    /\ Types /\ MessagesNameTokens /\ HandlersWork /\ DecisionsRecorded /\ MakersHold
    /\ AccountsDiffer /\ ConnectedHaveAccounts /\ NamesPast
    /\ OneUsableToken /\ DecidedOnce /\ RevisionNamesAccount

LEMMA IInvSuffices == IInv => TypeOK /\ ExclusiveAccounts
<1> SUFFICES ASSUME IInv PROVE TypeOK /\ ExclusiveAccounts
  OBVIOUS
<1>1. \A k \in DOMAIN token : token[k] \in TokenRows
  BY ElementOfSeq, LenProperties DEF IInv, Types
<1>2. TypeOK
  BY <1>1 DEF IInv, Types, TypeOK, ConnectionRows, Statuses, TokenRows, MakersHold, Making
<1>3. ExclusiveAccounts
  BY DEF IInv, AccountsDiffer, ConnectedHaveAccounts, ExclusiveAccounts
<1> QED
  BY <1>2, <1>3

LEMMA InitInv == Init => IInv
<1> SUFFICES ASSUME Init PROVE IInv
  OBVIOUS
<1>1. Types
  BY LinkingAssumption, EmptySeq
     DEF Init, Types, NoConnection, ConnectionRows, Statuses, Unsent, Messages, Free, HandlerCalls,
         NoCall, Calls
<1>2. MessagesNameTokens /\ HandlersWork /\ DecisionsRecorded /\ MakersHold
  BY DEF Init, MessagesNameTokens, HandlersWork, DecisionsRecorded, MakersHold, Making, Free, NoCall
<1>3. AccountsDiffer /\ ConnectedHaveAccounts /\ NamesPast
  BY DEF Init, AccountsDiffer, ConnectedHaveAccounts, NamesPast, NoConnection
<1>4. OneUsableToken /\ DecidedOnce /\ RevisionNamesAccount
  BY DEF Init, OneUsableToken, UsableTokens, DecidedOnce, RevisionNamesAccount
<1> QED
  BY <1>1, <1>2, <1>3, <1>4 DEF IInv
-----------------------------------------------------------------------------
(* Tokens.                                                                  *)

\* Tokens stay, and none becomes usable again.
Persist ==
    /\ token' \in Seq(TokenRows)
    /\ \A k \in DOMAIN token : /\ k \in DOMAIN token'
                               /\ token'[k].user = token[k].user
                               /\ Usable(k)' => Usable(k)

NoneMade == Persist /\ DOMAIN token' = DOMAIN token

LEMMA TokenDomain == ASSUME Types PROVE /\ DOMAIN token = 1..Len(token) /\ Len(token) \in Nat
                                        /\ \A k \in DOMAIN token : token[k] \in TokenRows
  BY ElementOfSeq, LenProperties DEF Types

LEMMA RevokedTokens ==
    ASSUME Types, NEW T
    PROVE  /\ Revoked(T) \in Seq(TokenRows) /\ Len(Revoked(T)) = Len(token)
           /\ DOMAIN Revoked(T) = DOMAIN token
           /\ \A k \in DOMAIN token :
                /\ Revoked(T)[k].user = token[k].user
                /\ Revoked(T)[k].state = "usable" => Usable(k) /\ k \notin T
<1> DEFINE row(k) == IF k \in T THEN [token[k] EXCEPT !.state = "revoked"] ELSE token[k]
<1>1. /\ DOMAIN token = 1..Len(token) /\ Len(token) \in Nat
      /\ \A k \in DOMAIN token : token[k] \in TokenRows
  BY TokenDomain
<1>2. \A k \in DOMAIN token : /\ row(k) \in TokenRows /\ row(k).user = token[k].user
                              /\ row(k).state = "usable" => Usable(k) /\ k \notin T
  BY <1>1 DEF TokenRows, Usable
<1>3. Revoked(T) = [k \in 1..Len(token) |-> row(k)]
  BY <1>1 DEF Revoked
<1> HIDE DEF row
<1>4. Revoked(T) \in [1..Len(token) -> TokenRows]
  BY <1>1, <1>2, <1>3
<1>5. Revoked(T) \in Seq(TokenRows)
  BY <1>1, <1>4, SeqDef
<1>6. DOMAIN Revoked(T) = DOMAIN token /\ Len(Revoked(T)) = Len(token)
  BY <1>1, <1>4, <1>5, LenProperties
<1> QED
  BY <1>1, <1>2, <1>3, <1>5, <1>6

LEMMA RevokedNoneMade ==
    ASSUME Types, NEW T, token' = Revoked(T) PROVE NoneMade
  BY RevokedTokens DEF NoneMade, Persist, Usable

LEMMA SameNoneMade == ASSUME Types, token' = token PROVE NoneMade
  BY DEF Types, NoneMade, Persist, Usable

\* A token is consumed or expires.
LEMMA SpentNoneMade ==
    ASSUME Types, NEW k \in DOMAIN token, NEW state \in {"consumed", "expired"},
           token' = [token EXCEPT ![k].state = state]
    PROVE  NoneMade
<1>1. DOMAIN token = 1..Len(token) /\ Len(token) \in Nat /\ token[k] \in TokenRows
  BY TokenDomain
<1> DEFINE spent == [token[k] EXCEPT !.state = state]
<1>2. spent \in TokenRows /\ spent.user = token[k].user /\ spent.state # "usable"
  BY <1>1 DEF TokenRows
<1>3. token' = [token EXCEPT ![k] = spent]
  OBVIOUS
<1> HIDE DEF spent
<1>4. token' \in Seq(TokenRows)
  <2>1. token \in Seq(TokenRows) /\ k \in 1..Len(token)
    BY <1>1 DEF Types
  <2>2. [token EXCEPT ![k] = spent] \in Seq(TokenRows)
    BY ONLY <1>2, <2>1, ExceptSeq
  <2> QED
    BY <1>3, <2>2
<1>5. DOMAIN token' = DOMAIN token
  BY <1>3
<1>6. ASSUME NEW l \in DOMAIN token
      PROVE  token'[l].user = token[l].user /\ (Usable(l)' => Usable(l))
  BY <1>2, <1>3 DEF Usable
<1> QED
  BY <1>4, <1>5, <1>6 DEF NoneMade, Persist

LEMMA MadeToken ==
    ASSUME Types, NEW u \in Users, NEW T,
           token' = Append(Revoked(T), [user |-> u, state |-> "usable"])
    PROVE  /\ Persist
           /\ DOMAIN token' = DOMAIN token \union {Len(token) + 1} /\ token'[Len(token) + 1].user = u
           /\ \A k \in DOMAIN token : Usable(k)' => k \notin T
<1> DEFINE new == [user |-> u, state |-> "usable"]
<1>1. /\ Revoked(T) \in Seq(TokenRows) /\ Len(Revoked(T)) = Len(token)
      /\ DOMAIN Revoked(T) = DOMAIN token
      /\ \A k \in DOMAIN token : /\ Revoked(T)[k].user = token[k].user
                                 /\ Revoked(T)[k].state = "usable" => Usable(k) /\ k \notin T
      /\ DOMAIN token = 1..Len(token) /\ Len(token) \in Nat
  BY RevokedTokens, TokenDomain
<1>2. new \in TokenRows /\ new.user = u
  BY DEF TokenRows
<1> HIDE DEF new
<1>3. token' = Append(Revoked(T), new)
  BY DEF new
<1>4. token' \in Seq(TokenRows) /\ Len(token') = Len(token) + 1
  BY <1>1, <1>2, <1>3
<1>5. DOMAIN token' = 1..(Len(token) + 1)
  BY <1>4, LenProperties
<1>6. \A k \in DOMAIN token : token'[k] = Revoked(T)[k]
  BY <1>1, <1>2, <1>3
<1>7. token'[Len(token) + 1] = new
  BY <1>1, <1>2, <1>3
<1> QED
  BY <1>1, <1>2, <1>4, <1>5, <1>6, <1>7 DEF Persist, Usable

LEMMA TokenStep ==
    ASSUME IInv, [Next]_vars
    PROVE  Persist /\ (NoneMade \/ \E s \in Sessions : CreateLink(s))
<1> USE DEF IInv
<1>0. NoneMade => Persist
  BY DEF NoneMade
<1>1. CASE token' = token
  BY <1>0, <1>1, SameNoneMade
<1>2. ASSUME NEW s \in Sessions, CreateLink(s) PROVE Persist
  <2>1. session[s].user \in Users
    BY <1>2 DEF CreateLink, MakersHold
  <2> QED
    BY <1>2, <2>1, MadeToken DEF CreateLink
<1>3. ASSUME NEW s \in Sessions, Disconnect(s) PROVE NoneMade
  BY <1>3, RevokedNoneMade DEF Disconnect
<1>4. ASSUME NEW h \in Handlers, Link(h) PROVE NoneMade
  <2>1. Message(h).token \in DOMAIN token
    BY <1>4 DEF Link, Message, HandlersWork, MessagesNameTokens
  <2> QED
    BY <1>4, <2>1, SpentNoneMade DEF Link
<1>5. ASSUME NEW k \in Tokens, Expire(k) PROVE NoneMade
  BY <1>5, SpentNoneMade DEF Expire
<1>6. CASE UNCHANGED vars
  BY <1>1, <1>6 DEF vars
<1>7. ASSUME NEW s \in Sessions, NEW u \in Users, BeginLink(s, u) \/ BeginDisconnect(s, u)
      PROVE  token' = token
  BY <1>7 DEF BeginLink, BeginDisconnect, rows
<1>8. ASSUME NEW s \in Sessions, RevokeLinks(s) PROVE token' = token
  BY <1>8 DEF RevokeLinks, rows
<1>9. ASSUME NEW u \in Users, WindowEnds(u) \/ Break(u) \/ ChangeEligibility(u) PROVE token' = token
  BY <1>9 DEF WindowEnds, Break, ChangeEligibility, rows
<1>10. ASSUME NEW h \in Handlers,
              ReadToken(h) \/ ReadUser(h) \/ ReadOthers(h) \/ LinkConflicts(h) \/ HandlerFails(h)
       PROVE  token' = token
  BY <1>10 DEF ReadToken, ReadUser, ReadOthers, LinkConflicts, HandlerFails, Proceeds, Rejects,
               RollsBack, rows
<1>11. ASSUME NEW i \in Updates,
              (\E k \in DOMAIN token, t \in TelegramUsers : Send(i, k, t))
                \/ (\E h \in Handlers : Receive(h, i)) \/ AnswerLost(i)
       PROVE  token' = token
  BY <1>11 DEF Send, Receive, AnswerLost, rows
<1> QED
  BY <1>0, <1>1, <1>2, <1>3, <1>4, <1>5, <1>6, <1>7, <1>8, <1>9, <1>10, <1>11 DEF Next, Finish, Handle

LEMMA UsableShrinks == ASSUME NoneMade, NEW u \in Users PROVE UsableTokens(u)' \subseteq UsableTokens(u)
  BY DEF NoneMade, Persist, UsableTokens
-----------------------------------------------------------------------------
(* createLink and disconnect.                                               *)

CallsGo ==
    /\ attempts' \in [Users -> 0..LinkLimit] /\ eligible' \subseteq Users
    /\ session' \in [Sessions -> Calls] /\ lock' \in [Users -> Sessions \union {Nobody}]
    /\ MakersHold' /\ OneUsableToken'

LEMMA OneStaysOne == ASSUME IInv, NoneMade PROVE OneUsableToken'
  BY UsableShrinks DEF IInv, OneUsableToken

LEMMA QuietCalls ==
    ASSUME IInv, NoneMade, session' = session, lock' = lock
    PROVE  /\ MakersHold' /\ OneUsableToken'
           /\ session' \in [Sessions -> Calls] /\ lock' \in [Users -> Sessions \union {Nobody}]
<1>1. MakersHold'
  BY UsableShrinks DEF IInv, MakersHold, Making
<1> QED
  BY <1>1, OneStaysOne DEF IInv, Types

LEMMA BeginLinkGoes == ASSUME IInv, NEW s \in Sessions, NEW u \in Users, BeginLink(s, u) PROVE CallsGo
<1>1. attempts' \in [Users -> 0..LinkLimit] /\ eligible' \subseteq Users
  BY LinkingAssumption DEF BeginLink, Allowed, IInv, Types
<1>2. NoneMade
  BY SameNoneMade DEF BeginLink, rows, IInv
<1>3. CASE u \notin eligible
  BY <1>1, <1>2, <1>3, QuietCalls DEF BeginLink, CallsGo
<1>4. CASE u \in eligible
  <2> DEFINE call == [NoCall EXCEPT !.pc = "link", !.user = u]
  <2>1. call \in Calls /\ call.pc = "link" /\ call.user = u
    BY DEF NoCall, Calls
  <2>2. /\ lock[u] = Nobody /\ lock' = [lock EXCEPT ![u] = s] /\ session' = [session EXCEPT ![s] = call]
        /\ token' = token
    BY <1>4 DEF BeginLink, Unlocked, rows
  <2> HIDE DEF call
  <2>3. session' \in [Sessions -> Calls] /\ lock' \in [Users -> Sessions \union {Nobody}]
    BY <2>1, <2>2 DEF IInv, Types
  <2>4. ASSUME NEW o \in Sessions PROVE MakersHold!(o)'
    <3>1. CASE o = s
      BY <2>1, <2>2, <3>1 DEF IInv, Types, Making
    <3>2. CASE o # s
      <4>1. session'[o] = session[o] /\ MakersHold!(o) /\ (Making(o) => session[o].user # u)
        BY <2>2, <3>2, LinkingAssumption DEF IInv, Types, MakersHold
      <4> QED
        BY <2>2, <4>1 DEF Making, UsableTokens, Usable, IInv, Types
    <3> QED
      BY <3>1, <3>2
  <2>5. MakersHold'
    BY <2>4 DEF MakersHold
  <2> QED
    BY <1>1, <1>2, <2>3, <2>5, OneStaysOne DEF CallsGo
<1> QED
  BY <1>3, <1>4

LEMMA RevokeLinksGoes == ASSUME IInv, NEW s \in Sessions, RevokeLinks(s) PROVE CallsGo
<1>1. /\ session[s].pc = "link" /\ token' = token /\ lock' = lock /\ attempts' = attempts
      /\ eligible' = eligible
      /\ session' = [session EXCEPT ![s].pc = "create", ![s].revokes = UsableTokens(session[s].user)]
  BY DEF RevokeLinks, rows
<1>2. session[s] \in Calls /\ session[s].user \in Users /\ lock[session[s].user] = s
      /\ UsableTokens(session[s].user) \subseteq Nat
  BY <1>1, TokenDomain DEF IInv, Types, MakersHold, Making, UsableTokens
<1>3. /\ session'[s].pc = "create" /\ session'[s].user = session[s].user
      /\ session'[s].revokes = UsableTokens(session[s].user)
      /\ session' \in [Sessions -> Calls]
  BY <1>1, <1>2 DEF IInv, Types, Calls
<1>4. ASSUME NEW o \in Sessions PROVE MakersHold!(o)'
  <2>1. CASE o = s
    BY <1>1, <1>2, <1>3, <2>1 DEF Making, UsableTokens, Usable
  <2>2. CASE o # s
    <3>1. session'[o] = session[o] /\ MakersHold!(o)
      BY <1>1, <2>2 DEF IInv, Types, MakersHold
    <3> QED
      BY <1>1, <3>1 DEF Making, UsableTokens, Usable
  <2> QED
    BY <2>1, <2>2
<1>5. MakersHold'
  BY <1>4 DEF MakersHold
<1> QED
  BY <1>1, <1>3, <1>5, OneStaysOne, SameNoneMade DEF CallsGo, IInv, Types

\* The maker's token is the only usable one of its user: those there were when
\* it looked are revoked, and no other has been made since.
LEMMA CreateLinkGoes == ASSUME IInv, NEW s \in Sessions, CreateLink(s) PROVE CallsGo
<1>0. PICK u \in Users : u = session[s].user
  BY DEF CreateLink, IInv, MakersHold
<1>1. /\ session[s].pc = "create" /\ lock' = [lock EXCEPT ![u] = Nobody] /\ attempts' = attempts
      /\ session' = [session EXCEPT ![s] = NoCall] /\ eligible' = eligible
      /\ token' = Append(Revoked(session[s].revokes), [user |-> u, state |-> "usable"])
  BY <1>0 DEF CreateLink
<1>2. u \in Users /\ lock[u] = s /\ UsableTokens(u) \subseteq session[s].revokes
  BY <1>0, <1>1 DEF IInv, MakersHold, Making
<1>3. /\ Persist
      /\ DOMAIN token' = DOMAIN token \union {Len(token) + 1} /\ token'[Len(token) + 1].user = u
      /\ \A k \in DOMAIN token : Usable(k)' => k \notin session[s].revokes
  BY <1>1, <1>2, MadeToken DEF IInv
<1>4. UsableTokens(u)' \subseteq {Len(token) + 1}
  <2> SUFFICES ASSUME NEW k \in DOMAIN token, token'[k].user = u, Usable(k)' PROVE FALSE
    BY <1>3 DEF UsableTokens
  <2>1. k \in UsableTokens(u) /\ k \notin session[s].revokes
    BY <1>3 DEF Persist, UsableTokens
  <2> QED
    BY <1>2, <2>1
<1>5. ASSUME NEW w \in Users, w # u PROVE UsableTokens(w)' \subseteq UsableTokens(w)
  BY <1>3, <1>5 DEF Persist, UsableTokens
<1>6. OneUsableToken'
  <2> SUFFICES ASSUME NEW w \in Users, NEW k \in UsableTokens(w)', NEW l \in UsableTokens(w)'
               PROVE  k = l
    BY DEF OneUsableToken
  <2>1. CASE w = u
    BY <1>4, <2>1
  <2>2. CASE w # u
    <3>1. k \in UsableTokens(w) /\ l \in UsableTokens(w)
      BY <1>5, <2>2
    <3> QED
      BY <3>1 DEF IInv, OneUsableToken
  <2> QED
    BY <2>1, <2>2
<1>7. session' \in [Sessions -> Calls] /\ lock' \in [Users -> Sessions \union {Nobody}]
  <2>1. NoCall \in Calls
    BY DEF NoCall, Calls
  <2> QED
    BY <1>1, <2>1 DEF IInv, Types
<1>8. ASSUME NEW o \in Sessions PROVE MakersHold!(o)'
  <2>1. CASE o = s
    BY <1>1, <2>1 DEF IInv, Types, Making, NoCall
  <2>2. CASE o # s
    <3>1. session'[o] = session[o] /\ MakersHold!(o)
      BY <1>1, <2>2 DEF IInv, Types, MakersHold
    <3>2. Making(o) => session[o].user # u /\ session[o].user \in Users
      BY <1>2, <2>2, <3>1 DEF Making
    <3>3. lock'[session[o].user] = lock[session[o].user] \/ ~Making(o)
      BY <1>1, <3>2
    <3> QED
      BY <1>5, <3>1, <3>2, <3>3 DEF Making
  <2> QED
    BY <2>1, <2>2
<1>9. MakersHold'
  BY <1>8 DEF MakersHold
<1> QED
  BY <1>1, <1>6, <1>7, <1>9 DEF CallsGo, IInv, Types

LEMMA DisconnectGoes ==
    ASSUME IInv, NEW s \in Sessions,
           Disconnect(s) \/ \E u \in Users : BeginDisconnect(s, u)
    PROVE  CallsGo
<1>1. NoneMade
  BY RevokedNoneMade, SameNoneMade DEF Disconnect, BeginDisconnect, rows, IInv
<1>2. PICK call \in Calls : /\ session' = [session EXCEPT ![s] = call]
                            /\ call.pc \in {"idle", "disconnect"}
                            /\ call.pc # "idle" => call.user \in Users
  <2>1. CASE Disconnect(s)
    <3>1. NoCall \in Calls /\ NoCall.pc = "idle"
      BY DEF NoCall, Calls
    <3> QED
      BY <2>1, <3>1 DEF Disconnect
  <2>2. ASSUME NEW u \in Users, BeginDisconnect(s, u)
        PROVE  \E call \in Calls : /\ session' = [session EXCEPT ![s] = call]
                                   /\ call.pc \in {"idle", "disconnect"}
                                   /\ call.pc # "idle" => call.user \in Users
    <3> DEFINE linked == connection[u].status \in {"CONNECTED", "BROKEN"}
               call == [NoCall EXCEPT !.pc = "disconnect", !.user = u, !.linked = linked]
    <3>1. call \in Calls /\ call.pc = "disconnect" /\ call.user = u
      <4>1. linked \in BOOLEAN
        OBVIOUS
      <4> HIDE DEF linked
      <4> QED
        BY <4>1 DEF NoCall, Calls
    <3>2. session' = [session EXCEPT ![s] = call]
      BY <2>2 DEF BeginDisconnect
    <3> HIDE DEF call
    <3> QED
      BY <3>1, <3>2
  <2> QED
    BY <2>1, <2>2
<1>3. lock' = lock /\ attempts' = attempts /\ eligible' = eligible
  BY DEF Disconnect, BeginDisconnect
<1>4. ASSUME NEW o \in Sessions PROVE MakersHold!(o)'
  <2>1. CASE o = s
    BY <1>2, <2>1 DEF IInv, Types, Making
  <2>2. CASE o # s
    <3>1. session'[o] = session[o] /\ MakersHold!(o)
      BY <1>2, <2>2 DEF IInv, Types, MakersHold
    <3> QED
      BY <1>1, <1>3, <3>1, UsableShrinks DEF Making
  <2> QED
    BY <2>1, <2>2
<1>5. MakersHold'
  BY <1>4 DEF MakersHold
<1>6. session' \in [Sessions -> Calls]
  BY <1>2 DEF IInv, Types
<1> QED
  BY <1>1, <1>3, <1>5, <1>6, OneStaysOne DEF CallsGo, IInv, Types

LEMMA CallsStep == ASSUME IInv, [Next]_vars PROVE CallsGo
<1>t. /\ attempts \in [Users -> 0..LinkLimit] /\ eligible \subseteq Users
  BY DEF IInv, Types
<1>1. ASSUME session' = session, lock' = lock, attempts' = attempts, eligible' = eligible, NoneMade
      PROVE  CallsGo
  BY <1>t, <1>1, QuietCalls DEF CallsGo
<1>2. ASSUME NEW s \in Sessions, NEW u \in Users, BeginLink(s, u) \/ BeginDisconnect(s, u) PROVE CallsGo
  BY <1>2, BeginLinkGoes, DisconnectGoes
<1>3. ASSUME NEW s \in Sessions, Finish(s) PROVE CallsGo
  BY <1>3, RevokeLinksGoes, CreateLinkGoes, DisconnectGoes DEF Finish
\* Every other step makes no token and takes no lock.
<1>4. ASSUME session' = session, lock' = lock PROVE NoneMade
  <2>1. ASSUME NEW s \in Sessions, CreateLink(s) PROVE FALSE
    BY <1>4, <2>1 DEF CreateLink, NoCall, IInv, Types
  <2> QED
    BY <2>1, TokenStep
<1>5. ASSUME NEW u \in Users, WindowEnds(u) \/ Break(u) \/ ChangeEligibility(u) PROVE CallsGo
  <2>1. session' = session /\ lock' = lock
    BY <1>5 DEF WindowEnds, Break, ChangeEligibility
  <2>2. eligible' \subseteq Users
    BY <1>t, <1>5 DEF WindowEnds, Break, ChangeEligibility
  <2>3. attempts' \in [Users -> 0..LinkLimit]
    BY <1>t, <1>5, LinkingAssumption DEF WindowEnds, Break, ChangeEligibility
  <2> QED
    BY <1>4, <2>1, <2>2, <2>3, QuietCalls DEF CallsGo
<1>6. ASSUME NEW h \in Handlers, Handle(h) \/ HandlerFails(h) PROVE CallsGo
  <2>1. session' = session /\ lock' = lock /\ attempts' = attempts /\ eligible' = eligible
    BY <1>6 DEF Handle, ReadToken, ReadUser, ReadOthers, Link, LinkConflicts, HandlerFails, RollsBack
  <2> QED
    BY <1>1, <1>4, <2>1
<1>7. ASSUME NEW i \in Updates,
             (\E k \in DOMAIN token, t \in TelegramUsers : Send(i, k, t))
               \/ (\E h \in Handlers : Receive(h, i)) \/ AnswerLost(i)
      PROVE  CallsGo
  BY <1>1, <1>4, <1>7 DEF Send, Receive, AnswerLost
<1>8. ASSUME NEW k \in Tokens, Expire(k) PROVE CallsGo
  BY <1>1, <1>4, <1>8 DEF Expire
<1>9. CASE UNCHANGED vars
  BY <1>1, <1>4, <1>9 DEF vars
<1> QED
  BY <1>2, <1>3, <1>5, <1>6, <1>7, <1>8, <1>9 DEF Next
-----------------------------------------------------------------------------
(* The webhook.                                                             *)

\* What a step makes of messages, receipts, handlers and decisions.
HandlersGo ==
    /\ update' \in [Updates -> Messages] /\ receipts' \subseteq Updates
    /\ handler' \in [Handlers -> HandlerCalls]
    /\ MessagesNameTokens' /\ HandlersWork' /\ DecisionsRecorded' /\ DecidedOnce'

\* Messages go on being what they are, but for their answers.
MessagesStay ==
    /\ update' \in [Updates -> Messages]
    /\ \A i \in Updates :
         \/ update'[i] = update[i]
         \/ /\ update[i] = Unsent
            /\ update'[i].telegram \in TelegramUsers /\ update'[i].token \in DOMAIN token
         \/ /\ update[i] # Unsent
            /\ update'[i].token = update[i].token /\ update'[i].telegram = update[i].telegram

LEMMA MessagesKept ==
    ASSUME IInv, Persist, MessagesStay
    PROVE  /\ MessagesNameTokens'
           /\ \A i \in Updates : update'[i] = Unsent => update[i] = Unsent
<1>1. \A i \in Updates : update[i] # Unsent =>
        update[i].token \in DOMAIN token /\ update[i].telegram \in TelegramUsers
  BY DEF IInv, MessagesNameTokens
<1>2. \A k \in DOMAIN token : k \in DOMAIN token'
  BY DEF Persist
<1>3. Unsent.telegram \notin TelegramUsers
  BY LinkingAssumption DEF Unsent
<1> QED
  BY <1>1, <1>2, <1>3 DEF MessagesStay, MessagesNameTokens

\* Nobody takes a message, and those who had one may let it go.
LEMMA HandlersLetGo ==
    ASSUME IInv, Persist, MessagesStay, receipts' = receipts, decisions' = decisions,
           handler' \in [Handlers -> HandlerCalls],
           \A h \in Handlers : handler'[h].pc = "idle"
               \/ (handler[h].pc # "idle" /\ handler'[h].update = handler[h].update)
    PROVE  HandlersGo
<1>1. MessagesNameTokens' /\ \A i \in Updates : update'[i] = Unsent => update[i] = Unsent
  BY MessagesKept
<1>2. HandlersWork'
  BY <1>1 DEF IInv, HandlersWork
<1>3. DecisionsRecorded' /\ DecidedOnce'
  BY DEF IInv, DecisionsRecorded, DecidedOnce
<1> QED
  BY <1>1, <1>2, <1>3 DEF HandlersGo, MessagesStay, IInv, Types

LEMMA UnchangedStay == ASSUME IInv, update' = update PROVE MessagesStay
  BY DEF IInv, Types, MessagesStay

LEMMA AnsweredStay ==
    ASSUME IInv, NEW i \in Updates, NEW answered \in BOOLEAN, update[i] # Unsent,
           update' = [update EXCEPT ![i].answered = answered]
    PROVE  MessagesStay
<1>1. update[i] \in Messages /\ update \in [Updates -> Messages]
  BY DEF IInv, Types
<1> QED
  BY <1>1 DEF MessagesStay, Messages

LEMMA FreeType == Free \in HandlerCalls
  BY DEF Free, HandlerCalls

\* A decision is the first of its message: a message with a receipt is taken by
\* nobody, and one without by one handler.
LEMMA DecidesGoes ==
    ASSUME IInv, Persist, NEW h \in Handlers, NEW outcome, handler[h].pc # "idle", Decides(h, outcome)
    PROVE  HandlersGo
<1>0. PICK i \in Updates : i = handler[h].update
  BY DEF IInv, HandlersWork
<1>1. /\ i \notin receipts /\ update[i] # Unsent
      /\ receipts' = receipts \union {i} /\ decisions' = decisions \union {<<i, outcome>>}
      /\ update' = [update EXCEPT ![i].answered = TRUE]
      /\ handler' = [handler EXCEPT ![h] = Free]
  BY <1>0 DEF Decides, IInv, HandlersWork
<1>2. MessagesStay
  BY <1>1, AnsweredStay
<1>3. MessagesNameTokens' /\ \A j \in Updates : update'[j] = Unsent => update[j] = Unsent
  BY <1>2, MessagesKept
<1>4. handler' \in [Handlers -> HandlerCalls]
  BY <1>1, FreeType DEF IInv, Types
<1>5. \A g \in Handlers : handler'[g].pc # "idle" =>
         g # h /\ handler'[g] = handler[g] /\ handler[g].update # i
  BY <1>0, <1>1 DEF Free, IInv, Types, HandlersWork
<1>6. HandlersWork'
  BY <1>1, <1>3, <1>5 DEF IInv, HandlersWork
<1>7. DecisionsRecorded' /\ DecidedOnce'
  <2>1. \A d \in decisions : d[1] # i
    BY <1>1 DEF IInv, DecisionsRecorded
  <2>2. <<i, outcome>>[1] = i
    OBVIOUS
  <2> QED
    BY <1>1, <2>1, <2>2 DEF IInv, DecisionsRecorded, DecidedOnce
<1>8. receipts' \subseteq Updates
  BY <1>1 DEF IInv, Types
<1> QED
  BY <1>2, <1>3, <1>4, <1>6, <1>7, <1>8 DEF HandlersGo, MessagesStay

LEMMA ProceedsGoes ==
    ASSUME IInv, Persist, NEW h \in Handlers, NEW pc \in {"user", "others", "write"},
           handler[h].pc # "idle", Proceeds(h, pc)
    PROVE  HandlersGo
<1>1. handler[h] \in HandlerCalls /\ handler \in [Handlers -> HandlerCalls]
  BY DEF IInv, Types
<1>2. /\ handler' \in [Handlers -> HandlerCalls] /\ handler'[h].update = handler[h].update
      /\ \A g \in Handlers : g # h => handler'[g] = handler[g]
  BY <1>1 DEF Proceeds, HandlerCalls
<1>3. update' = update /\ receipts' = receipts /\ decisions' = decisions
  BY DEF Proceeds, rows, history
<1> QED
  BY <1>2, <1>3, UnchangedStay, HandlersLetGo

LEMMA RollsBackGoes == ASSUME IInv, Persist, NEW h \in Handlers, RollsBack(h) PROVE HandlersGo
<1>1. /\ handler' \in [Handlers -> HandlerCalls] /\ handler'[h].pc = "idle"
      /\ \A g \in Handlers : g # h => handler'[g] = handler[g]
  BY FreeType DEF RollsBack, Free, IInv, Types
<1>2. update' = update /\ receipts' = receipts /\ decisions' = decisions
  BY DEF RollsBack, rows, history
<1> QED
  BY <1>1, <1>2, UnchangedStay, HandlersLetGo

LEMMA ReceiveGoes ==
    ASSUME IInv, Persist, NEW h \in Handlers, NEW i \in Updates, Receive(h, i) PROVE HandlersGo
<1>0. /\ handler[h].pc = "idle" /\ update[i] # Unsent
      /\ \A other \in Handlers : handler[other].update # i
      /\ receipts' = receipts /\ decisions' = decisions
  BY DEF Receive, rows, history
<1>1. CASE i \in receipts
  <2>1. update' = [update EXCEPT ![i].answered = TRUE] /\ handler' = handler
    BY <1>1 DEF Receive
  <2>2. handler' \in [Handlers -> HandlerCalls]
    BY <2>1 DEF IInv, Types
  <2>3. MessagesStay
    BY <1>0, <2>1, AnsweredStay
  <2> QED
    BY <1>0, <2>1, <2>2, <2>3, HandlersLetGo
<1>2. CASE i \notin receipts
  <2> DEFINE call == [pc |-> "token", update |-> i]
  <2>1. call \in HandlerCalls /\ call.pc = "token" /\ call.update = i
    BY DEF HandlerCalls
  <2>2. update' = update /\ handler' = [handler EXCEPT ![h] = call]
    BY <1>2 DEF Receive
  <2> HIDE DEF call
  <2>3. MessagesStay
    BY <2>2, UnchangedStay
  <2>4. MessagesNameTokens'
    BY <2>3, MessagesKept
  <2>5. HandlersWork'
    BY <1>0, <1>2, <2>1, <2>2 DEF IInv, HandlersWork, Types
  <2>6. handler' \in [Handlers -> HandlerCalls]
    BY <2>1, <2>2 DEF IInv, Types
  <2> QED
    BY <1>0, <2>3, <2>4, <2>5, <2>6
       DEF HandlersGo, MessagesStay, IInv, Types, DecisionsRecorded, DecidedOnce
<1> QED
  BY <1>1, <1>2

LEMMA SendGoes ==
    ASSUME IInv, Persist, NEW i \in Updates, NEW k \in DOMAIN token, NEW t \in TelegramUsers, Send(i, k, t)
    PROVE  HandlersGo
<1> DEFINE message == [token |-> k, telegram |-> t, answered |-> FALSE]
<1>1. message \in Messages /\ message.token = k /\ message.telegram = t
  BY TokenDomain DEF Messages, IInv
<1>2. /\ update[i] = Unsent /\ update' = [update EXCEPT ![i] = message]
      /\ handler' = handler /\ receipts' = receipts /\ decisions' = decisions
  BY DEF Send, rows, history
<1> HIDE DEF message
<1>3. MessagesStay
  BY <1>1, <1>2 DEF MessagesStay, IInv, Types
<1>4. handler' \in [Handlers -> HandlerCalls]
  BY <1>2 DEF IInv, Types
<1> QED
  BY <1>2, <1>3, <1>4, HandlersLetGo

LEMMA HandlersStep == ASSUME IInv, [Next]_vars PROVE HandlersGo
<1>p. Persist
  BY TokenStep
<1>1. ASSUME update' = update, handler' = handler, receipts' = receipts, decisions' = decisions
      PROVE  HandlersGo
  <2>1. handler' \in [Handlers -> HandlerCalls]
    BY <1>1 DEF IInv, Types
  <2> QED
    BY <1>p, <1>1, <2>1, UnchangedStay, HandlersLetGo
<1>2. ASSUME NEW s \in Sessions, NEW u \in Users, BeginLink(s, u) \/ BeginDisconnect(s, u) PROVE HandlersGo
  BY <1>1, <1>2 DEF BeginLink, BeginDisconnect, rows, history
<1>3. ASSUME NEW s \in Sessions, Finish(s) PROVE HandlersGo
  BY <1>1, <1>3 DEF Finish, RevokeLinks, CreateLink, Disconnect, rows, history
<1>4. ASSUME NEW u \in Users, WindowEnds(u) \/ Break(u) \/ ChangeEligibility(u) PROVE HandlersGo
  BY <1>1, <1>4 DEF WindowEnds, Break, ChangeEligibility, rows, history
<1>5. ASSUME NEW k \in Tokens, Expire(k) PROVE HandlersGo
  BY <1>1, <1>5 DEF Expire, history
<1>6. ASSUME NEW h \in Handlers, ReadToken(h) \/ ReadUser(h) \/ ReadOthers(h) PROVE HandlersGo
  <2>1. handler[h].pc # "idle"
    BY <1>6 DEF ReadToken, ReadUser, ReadOthers
  <2>2. (\E pc \in {"user", "others", "write"} : Proceeds(h, pc)) \/ \E outcome : Decides(h, outcome)
    BY <1>6 DEF ReadToken, ReadUser, ReadOthers, Rejects
  <2> QED
    BY <1>p, <2>1, <2>2, DecidesGoes, ProceedsGoes
<1>7. ASSUME NEW h \in Handlers, Link(h) PROVE HandlersGo
  BY <1>p, <1>7, DecidesGoes DEF Link
<1>8. ASSUME NEW h \in Handlers, LinkConflicts(h) \/ HandlerFails(h) PROVE HandlersGo
  BY <1>p, <1>8, RollsBackGoes DEF LinkConflicts, HandlerFails
<1>9. ASSUME NEW i \in Updates, AnswerLost(i) PROVE HandlersGo
  <2>1. /\ update[i] # Unsent /\ update' = [update EXCEPT ![i].answered = FALSE]
        /\ handler' = handler /\ receipts' = receipts /\ decisions' = decisions
    BY <1>9 DEF AnswerLost, Unsent, rows, history
  <2>2. handler' \in [Handlers -> HandlerCalls]
    BY <2>1 DEF IInv, Types
  <2>3. MessagesStay
    BY <2>1, AnsweredStay
  <2> QED
    BY <1>p, <2>1, <2>2, <2>3, HandlersLetGo
<1>10. CASE UNCHANGED vars
  BY <1>1, <1>10 DEF vars, history
<1> QED
  BY <1>p, <1>2, <1>3, <1>4, <1>5, <1>6, <1>7, <1>8, <1>9, <1>10, ReceiveGoes, SendGoes
     DEF Next, Handle
-----------------------------------------------------------------------------
(* Connections.                                                             *)

ConnectionsGo ==
    /\ connection' \in [Users -> ConnectionRows]
    /\ AccountsDiffer' /\ ConnectedHaveAccounts' /\ NamesPast' /\ RevisionNamesAccount'

LEMMA SameConnections == ASSUME IInv, connection' = connection, named' = named PROVE ConnectionsGo
  BY DEF ConnectionsGo, IInv, Types, AccountsDiffer, ConnectedHaveAccounts, NamesPast, RevisionNamesAccount

\* A connection that loses its account, or only its status.
LEMMA LosesConnection ==
    ASSUME IInv, NEW u \in Users, NEW row \in ConnectionRows, named' = named,
           connection' = [connection EXCEPT ![u] = row], row.status # "CONNECTED",
           row.telegram = NoTelegram \/ row.telegram = connection[u].telegram,
           row.revision >= connection[u].revision
    PROVE  ConnectionsGo
<1>1. /\ connection' \in [Users -> ConnectionRows] /\ connection'[u] = row
      /\ \A w \in Users : w # u => connection'[w] = connection[w]
  BY DEF IInv, Types
<1>2. AccountsDiffer' /\ ConnectedHaveAccounts'
  BY <1>1 DEF IInv, AccountsDiffer, ConnectedHaveAccounts
<1>3. \A w \in Users : /\ connection[w].revision \in Nat /\ connection'[w].revision \in Nat
                       /\ connection'[w].revision >= connection[w].revision
  BY <1>1 DEF IInv, Types, ConnectionRows
<1>4. NamesPast' /\ RevisionNamesAccount'
  BY <1>3 DEF IInv, NamesPast, RevisionNamesAccount
<1> QED
  BY <1>1, <1>2, <1>4 DEF ConnectionsGo

\* The new connection has an account nobody else has, and a revision that
\* stood for nothing before.
LEMMA LinkConnects == ASSUME IInv, NEW h \in Handlers, Link(h) PROVE ConnectionsGo
<1>0. Message(h).token \in DOMAIN token /\ Message(h).telegram \in TelegramUsers
  BY DEF Link, Message, IInv, HandlersWork, MessagesNameTokens
<1>1. PICK u \in Users, t \in TelegramUsers :
        /\ u = token[Message(h).token].user /\ t = Message(h).telegram
        /\ connection' = [connection EXCEPT ![u] = Connected(@, t)]
        /\ named' = Named(u, connection'[u])
        /\ \A w \in Users : w # u => connection[w].telegram # t
  <2>1. token[Message(h).token].user \in Users
    BY <1>0, TokenDomain DEF IInv, TokenRows
  <2> QED
    BY <1>0, <2>1 DEF Link, Unique, Others
<1>2. connection[u] \in ConnectionRows /\ connection \in [Users -> ConnectionRows]
  BY DEF IInv, Types
<1> DEFINE row == Connected(connection[u], t)
<1>3. /\ row \in ConnectionRows /\ row.status = "CONNECTED" /\ row.telegram = t
      /\ row.revision = connection[u].revision + 1
  BY <1>2 DEF Connected, ConnectionRows, Statuses
<1>4. connection' = [connection EXCEPT ![u] = row]
  BY <1>1
<1> HIDE DEF row
<1>5. /\ connection' \in [Users -> ConnectionRows] /\ connection'[u] = row
      /\ \A w \in Users : w # u => connection'[w] = connection[w]
  BY <1>2, <1>3, <1>4
<1>6. t # NoTelegram
  BY LinkingAssumption
<1>7. AccountsDiffer' /\ ConnectedHaveAccounts'
  BY <1>1, <1>3, <1>5, <1>6 DEF IInv, AccountsDiffer, ConnectedHaveAccounts
<1>8. named' = named \union {<<u, connection[u].revision + 1, t>>}
  BY <1>1, <1>3, <1>5 DEF Named
<1>9. \A w \in Users : /\ connection[w].revision \in Nat
                       /\ connection'[w].revision = IF w = u THEN connection[w].revision + 1
                                                    ELSE connection[w].revision
  BY <1>3, <1>5 DEF IInv, Types, ConnectionRows
<1>10. NamesPast'
  <2> SUFFICES ASSUME NEW m \in named'
               PROVE  m[1] \in Users /\ m[2] \in Nat /\ m[2] <= connection'[m[1]].revision
    BY DEF NamesPast
  <2>1. CASE m \in named
    BY <1>9, <2>1 DEF IInv, NamesPast
  <2>2. CASE m = <<u, connection[u].revision + 1, t>>
    BY <1>9, <2>2
  <2> QED
    BY <1>8, <2>1, <2>2
<1>11. RevisionNamesAccount'
  <2>1. \A m \in named : m[1] = u => m[2] # connection[u].revision + 1
    BY <1>9 DEF IInv, NamesPast
  <2> QED
    BY <1>8, <2>1 DEF IInv, RevisionNamesAccount
<1> QED
  BY <1>5, <1>7, <1>10, <1>11 DEF ConnectionsGo

LEMMA ConnectionsStep == ASSUME IInv, [Next]_vars PROVE ConnectionsGo
<1>0. connection \in [Users -> ConnectionRows]
  BY DEF IInv, Types
<1>1. ASSUME NEW s \in Sessions, Disconnect(s) PROVE ConnectionsGo
  <2>0. PICK u \in Users : u = session[s].user
    BY <1>1 DEF Disconnect, IInv, MakersHold
  <2>1. CASE session[s].linked
    <3> DEFINE row == Disconnected(connection[u])
    <3>1. /\ row \in ConnectionRows /\ row.status = "DISCONNECTED" /\ row.telegram = NoTelegram
          /\ row.revision >= connection[u].revision
      <4>1. connection[u].revision \in Nat
        BY <1>0 DEF ConnectionRows
      <4> QED
        BY <4>1 DEF Disconnected, ConnectionRows, Statuses
    <3>2. connection' = [connection EXCEPT ![u] = row] /\ named' = named
      BY <1>1, <2>0, <2>1 DEF Disconnect, history
    <3> HIDE DEF row
    <3> QED
      BY <3>1, <3>2, LosesConnection
  <2>2. CASE ~session[s].linked
    BY <1>1, <2>2, SameConnections DEF Disconnect, history
  <2> QED
    BY <2>1, <2>2
<1>2. ASSUME NEW u \in Users, Break(u) PROVE ConnectionsGo
  <2> DEFINE row == [connection[u] EXCEPT !.status = "BROKEN"]
  <2>1. connection[u] \in ConnectionRows
    BY <1>0
  <2>2. /\ row \in ConnectionRows /\ row.status = "BROKEN" /\ row.telegram = connection[u].telegram
        /\ row.revision >= connection[u].revision
    BY <2>1 DEF ConnectionRows, Statuses
  <2>3. connection' = [connection EXCEPT ![u] = row] /\ named' = named
    BY <1>2 DEF Break, history
  <2> HIDE DEF row
  <2> QED
    BY <2>2, <2>3, LosesConnection
<1>3. ASSUME NEW s \in Sessions, NEW u \in Users, BeginLink(s, u) \/ BeginDisconnect(s, u) PROVE ConnectionsGo
  BY <1>3, SameConnections DEF BeginLink, BeginDisconnect, rows, history
<1>4. ASSUME NEW s \in Sessions, RevokeLinks(s) \/ CreateLink(s) PROVE ConnectionsGo
  BY <1>4, SameConnections DEF RevokeLinks, CreateLink, rows, history
<1>5. ASSUME NEW u \in Users, WindowEnds(u) \/ ChangeEligibility(u) PROVE ConnectionsGo
  BY <1>5, SameConnections DEF WindowEnds, ChangeEligibility, rows, history
<1>6. ASSUME NEW h \in Handlers,
             ReadToken(h) \/ ReadUser(h) \/ ReadOthers(h) \/ LinkConflicts(h) \/ HandlerFails(h)
      PROVE  ConnectionsGo
  <2>1. connection' = connection /\ named' = named
    BY <1>6 DEF ReadToken, ReadUser, ReadOthers, LinkConflicts, HandlerFails, Proceeds, Rejects,
                RollsBack, rows, history
  <2> QED
    BY <2>1, SameConnections
<1>7. ASSUME NEW i \in Updates,
             (\E k \in DOMAIN token, t \in TelegramUsers : Send(i, k, t))
               \/ (\E h \in Handlers : Receive(h, i)) \/ AnswerLost(i)
      PROVE  ConnectionsGo
  BY <1>7, SameConnections DEF Send, Receive, AnswerLost, rows, history
<1>8. ASSUME NEW k \in Tokens, Expire(k) PROVE ConnectionsGo
  BY <1>8, SameConnections DEF Expire, history
<1>9. CASE UNCHANGED vars
  BY <1>9, SameConnections DEF vars, history
<1> QED
  BY <1>1, <1>2, <1>3, <1>4, <1>5, <1>6, <1>7, <1>8, <1>9, LinkConnects DEF Next, Finish, Handle
-----------------------------------------------------------------------------
LEMMA Invariance == Spec => []IInv
<1>1. IInv /\ [Next]_vars => IInv'
  <2> SUFFICES ASSUME IInv, [Next]_vars PROVE IInv'
    OBVIOUS
  <2>1. CallsGo /\ HandlersGo /\ ConnectionsGo /\ token' \in Seq(TokenRows)
    BY CallsStep, HandlersStep, ConnectionsStep, TokenStep DEF Persist
  <2> QED
    BY <2>1 DEF CallsGo, HandlersGo, ConnectionsGo, IInv, Types
<1> QED
  BY <1>1, InitInv, PTL DEF Spec

\* Rows and calls keep their types, and who makes a token holds the lock of its
\* user.
THEOREM TypeCorrect == Spec => []TypeOK
<1>1. IInv => TypeOK
  BY IInvSuffices
<1> QED
  BY <1>1, Invariance, PTL

\* No Telegram account is ever connected to two users, however many webhook
\* calls and disconnections overlap.
THEOREM AccountsAreExclusive == Spec => []ExclusiveAccounts
<1>1. IInv => ExclusiveAccounts
  BY IInvSuffices
<1> QED
  BY <1>1, Invariance, PTL

\* Of the links of one user only the last works.
THEOREM OneTokenIsUsable == Spec => []OneUsableToken
<1>1. IInv => OneUsableToken
  BY DEF IInv
<1> QED
  BY <1>1, Invariance, PTL

\* A revision stands for one Telegram account for ever.
THEOREM RevisionsNameOne == Spec => []RevisionNamesAccount
<1>1. IInv => RevisionNamesAccount
  BY DEF IInv
<1> QED
  BY <1>1, Invariance, PTL

\* Telegram may deliver a message again and again: it is decided once.
THEOREM MessagesDecidedOnce == Spec => []DecidedOnce
<1>1. IInv => DecidedOnce
  BY DEF IInv
<1> QED
  BY <1>1, Invariance, PTL
=============================================================================
