----------------------------- MODULE TelegramLinking -----------------------------
(***************************************************************************)
(* The connection between an account and a private Telegram chat: link     *)
(* tokens, the messages Telegram delivers until they are answered, and     *)
(* disconnections, as transactions under READ COMMITTED.                   *)
(* Sources: telegram-linking (service, rate limiter, controller); the part *)
(* of recipient deliveries that breaks a connection.                       *)
(*                                                                         *)
(* A Telegram account stands for its user and its private chat, which have *)
(* one number.  What a transaction does from its first write to a          *)
(* connection on is one step: the rows it writes are locked until it ends. *)
(***************************************************************************)
EXTENDS Naturals, Sequences, FiniteSets

CONSTANTS
    Users,          \* accounts of the product
    TelegramUsers,  \* accounts of Telegram
    NoTelegram,     \* null
    Updates,        \* messages, as Telegram numbers them
    Handlers,       \* calls of the webhook that may overlap
    Sessions,       \* calls of createLink and disconnect that may overlap
    Nobody,         \* no call
    MaxTokens,      \* bound: tokens made
    LinkLimit,      \* LIMIT of the rate limiter
    MaxChanges,     \* bound: disconnections, broken chats and changes of eligibility
    MaxFailures     \* bound: transactions that fail, answers that are lost

Tokens == 1..MaxTokens

ASSUME LinkingAssumption ==
    /\ NoTelegram \notin TelegramUsers
    /\ Nobody \notin Handlers \union Sessions /\ Handlers \intersect Sessions = {}
    /\ MaxTokens \in Nat /\ LinkLimit \in Nat \ {0} /\ MaxChanges \in Nat /\ MaxFailures \in Nat

VARIABLES
    connection, \* the telegram_connections rows
    token,      \* the telegram_link_tokens rows
    eligible,   \* users neither disabled nor with a pending change of password
    attempts,   \* entries of the rate limiter
    update,     \* Telegram's side: the message, and whether it was answered
    receipts,   \* the telegram_webhook_receipts rows
    handler,    \* where each call of the webhook is and what it has read
    session,    \* where each other call is and what it has read
    lock,       \* holder of the advisory lock of each user
    named,      \* what each revision of a connection has stood for
    decisions,  \* updates a committed transaction decided, and how
    bounds      \* changes and failures so far

vars == <<connection, token, eligible, attempts, update, receipts, handler, session, lock,
          named, decisions, bounds>>
rows == <<connection, token, receipts>>
history == <<named, decisions>>

NoConnection == [status |-> "NONE", telegram |-> NoTelegram, revision |-> 0]
Free == [pc |-> "idle", update |-> Nobody]
NoCall == [pc |-> "idle", user |-> Nobody, linked |-> FALSE, revokes |-> {}]
Unsent == [token |-> 0, telegram |-> NoTelegram, answered |-> FALSE]

Init ==
    /\ connection = [u \in Users |-> NoConnection]
    /\ token = <<>>
    /\ eligible = Users
    /\ attempts = [u \in Users |-> 0]
    /\ update = [i \in Updates |-> Unsent]
    /\ receipts = {}
    /\ handler = [h \in Handlers |-> Free]
    /\ session = [s \in Sessions |-> NoCall]
    /\ lock = [u \in Users |-> Nobody]
    /\ named = {}
    /\ decisions = {}
    /\ bounds = [changes |-> 0, failures |-> 0]

\* Neither consumed, nor revoked, nor expired.
Usable(k) == token[k].state = "usable"
UsableTokens(u) == {k \in DOMAIN token : token[k].user = u /\ Usable(k)}

Revoked(tokens) == [k \in DOMAIN token |->
    IF k \in tokens THEN [token[k] EXCEPT !.state = "revoked"] ELSE token[k]]

\* What a revision of a connection stands for, once it is connected.
Named(u, c) == IF c.status = "CONNECTED" THEN named \union {<<u, c.revision, c.telegram>>} ELSE named

Change == bounds.changes < MaxChanges /\ bounds' = [bounds EXCEPT !.changes = @ + 1]
Failure == bounds.failures < MaxFailures /\ bounds' = [bounds EXCEPT !.failures = @ + 1]
-----------------------------------------------------------------------------
(* createLink and disconnect.                                               *)

\* check of the rate limiter
Allowed(u) == attempts[u] < LinkLimit

\* Mutant: no advisory lock.
LockIgnored(u) == u \in Users

\* pg_advisory_xact_lock
Unlocked(u) == lock[u] = Nobody

\* Bound: tokens made and in the making.
MayMakeToken == Len(token) + Cardinality({s \in Sessions : session[s].pc \in {"link", "create"}}) < MaxTokens

\* The advisory lock of the user is taken, and the row read.
BeginLink(s, u) ==
    /\ session[s].pc = "idle" /\ MayMakeToken
    /\ Allowed(u) /\ Unlocked(u)
    /\ attempts' = [attempts EXCEPT ![u] = @ + 1]
    /\ IF u \in eligible
       THEN /\ lock' = [lock EXCEPT ![u] = s]
            /\ session' = [session EXCEPT ![s] = [NoCall EXCEPT !.pc = "link", !.user = u]]
       ELSE UNCHANGED <<lock, session>>
    /\ UNCHANGED <<rows, eligible, update, handler, history, bounds>>

\* Usable tokens are revoked: their rows are locked until the transaction ends.
RevokeLinks(s) ==
    /\ session[s].pc = "link"
    /\ session' = [session EXCEPT ![s].pc = "create", ![s].revokes = UsableTokens(session[s].user)]
    /\ UNCHANGED <<rows, eligible, attempts, update, handler, lock, history, bounds>>

\* A transaction in progress has written one of the tokens.
Written(tokens) == \E s \in Sessions : session[s].revokes \intersect tokens # {}

\* A token is made, and the transaction commits.
CreateLink(s) ==
    LET u == session[s].user IN
    /\ session[s].pc = "create"
    /\ token' = Append(Revoked(session[s].revokes), [user |-> u, state |-> "usable"])
    /\ session' = [session EXCEPT ![s] = NoCall]
    /\ lock' = [lock EXCEPT ![u] = Nobody]
    /\ UNCHANGED <<connection, receipts, eligible, attempts, update, handler, history, bounds>>

\* The window of the rate limiter ends.
WindowEnds(u) ==
    /\ attempts[u] > 0
    /\ attempts' = [attempts EXCEPT ![u] = 0]
    /\ UNCHANGED <<rows, eligible, update, handler, session, lock, history, bounds>>

\* disconnect reads the connection before it writes, by the user or an administrator.
BeginDisconnect(s, u) ==
    /\ session[s].pc = "idle"
    /\ Change
    /\ session' = [session EXCEPT ![s] =
         [NoCall EXCEPT !.pc = "disconnect", !.user = u,
                        !.linked = connection[u].status \in {"CONNECTED", "BROKEN"}]]
    /\ UNCHANGED <<rows, eligible, attempts, update, handler, lock, history>>

\* The increment of the revision is the database's.
Disconnected(c) == [status |-> "DISCONNECTED", telegram |-> NoTelegram, revision |-> c.revision + 1]

Disconnect(s) ==
    LET u == session[s].user
        unconsumed == {k \in DOMAIN token : token[k].user = u /\ token[k].state # "consumed"} IN
    /\ session[s].pc = "disconnect" /\ ~Written(unconsumed)
    /\ token' = Revoked(unconsumed)
    /\ connection' = IF session[s].linked
                     THEN [connection EXCEPT ![u] = Disconnected(@)] ELSE connection
    /\ session' = [session EXCEPT ![s] = NoCall]
    /\ UNCHANGED <<receipts, eligible, attempts, update, handler, lock, history, bounds>>
-----------------------------------------------------------------------------
(* The webhook.                                                             *)

\* Someone opens a link in Telegram.
Send(i, k, t) ==
    /\ update[i] = Unsent
    /\ update' = [update EXCEPT ![i] = [token |-> k, telegram |-> t, answered |-> FALSE]]
    /\ UNCHANGED <<rows, eligible, attempts, handler, session, lock, history, bounds>>

Message(h) == update[handler[h].update]

\* Telegram delivers what was not answered; the receipt is inserted first.  A
\* receipt of a transaction in progress makes the insertion wait.
Receive(h, i) ==
    /\ handler[h].pc = "idle" /\ update[i] # Unsent /\ ~update[i].answered
    /\ \A other \in Handlers : handler[other].update # i
    /\ IF i \in receipts
       THEN /\ update' = [update EXCEPT ![i].answered = TRUE]
            /\ UNCHANGED handler
       ELSE /\ handler' = [handler EXCEPT ![h] = [pc |-> "token", update |-> i]]
            /\ UNCHANGED update
    /\ UNCHANGED <<rows, eligible, attempts, session, lock, history, bounds>>

\* Mutant: the receipt does not commit.
DecidesUnrecorded(h, outcome) ==
    LET i == handler[h].update IN
    /\ receipts' = receipts
    /\ decisions' = decisions \union {<<i, outcome>>}
    /\ update' = [update EXCEPT ![i].answered = TRUE]
    /\ handler' = [handler EXCEPT ![h] = Free]

\* Its transaction commits with the receipt, and Telegram gets its answer.
Decides(h, outcome) ==
    LET i == handler[h].update IN
    /\ receipts' = receipts \union {i}
    /\ decisions' = decisions \union {<<i, outcome>>}
    /\ update' = [update EXCEPT ![i].answered = TRUE]
    /\ handler' = [handler EXCEPT ![h] = Free]

Rejects(h, outcome) == Decides(h, outcome) /\ UNCHANGED <<connection, token, named>>

Proceeds(h, pc) ==
    /\ handler' = [handler EXCEPT ![h].pc = pc]
    /\ UNCHANGED <<rows, update, history>>

ReadToken(h) ==
    /\ handler[h].pc = "token"
    /\ IF Usable(Message(h).token) THEN Proceeds(h, "user") ELSE Rejects(h, "INVALID")
    /\ UNCHANGED <<eligible, attempts, session, lock, bounds>>

ReadUser(h) ==
    /\ handler[h].pc = "user"
    /\ IF token[Message(h).token].user \in eligible THEN Proceeds(h, "others") ELSE Rejects(h, "DISABLED")
    /\ UNCHANGED <<eligible, attempts, session, lock, bounds>>

\* Connections of others with the same Telegram account, as committed.
Others(h) ==
    {u \in Users \ {token[Message(h).token].user} : connection[u].telegram = Message(h).telegram}

ReadOthers(h) ==
    /\ handler[h].pc = "others"
    /\ IF \E u \in Others(h) : connection[u].status = "CONNECTED"
       THEN Rejects(h, "INVALID") ELSE Proceeds(h, "write")
    /\ UNCHANGED <<eligible, attempts, session, lock, bounds>>

\* Mutant: only the check before the write.
UniqueAsRead(h) == handler[h].pc = "write"

\* telegram_user_id and telegram_chat_id are unique.
Unique(h) == Others(h) = {}

\* Mutant: only a new connection gets a new revision.
ConnectedAgain(c, telegram) ==
    [status |-> "CONNECTED", telegram |-> telegram,
     revision |-> IF c.status = "CONNECTED" THEN c.revision ELSE c.revision + 1]

\* A connection that is made again has the next revision.
Connected(c, telegram) ==
    [status |-> "CONNECTED", telegram |-> telegram, revision |-> c.revision + 1]

\* The upsert, and the token is consumed: by its id, whatever has become of it.
Link(h) ==
    LET k == Message(h).token
        u == token[k].user IN
    /\ handler[h].pc = "write" /\ Unique(h) /\ ~Written({k})
    /\ connection' = [connection EXCEPT ![u] = Connected(@, Message(h).telegram)]
    /\ token' = [token EXCEPT ![k].state = "consumed"]
    /\ named' = Named(u, connection'[u])
    /\ Decides(h, "LINKED")
    /\ UNCHANGED <<eligible, attempts, session, lock, bounds>>

\* The transaction is rolled back: Telegram will deliver the message again.
RollsBack(h) ==
    /\ handler' = [handler EXCEPT ![h] = Free]
    /\ UNCHANGED <<rows, eligible, attempts, update, session, lock, history>>

\* A broken connection of another user still has the Telegram account.
LinkConflicts(h) ==
    /\ handler[h].pc = "write" /\ ~Unique(h)
    /\ RollsBack(h)
    /\ UNCHANGED bounds

HandlerFails(h) ==
    /\ handler[h].pc # "idle"
    /\ RollsBack(h)
    /\ Failure

\* The transaction has committed, but its answer is lost.
AnswerLost(i) ==
    /\ update[i].answered
    /\ update' = [update EXCEPT ![i].answered = FALSE]
    /\ Failure
    /\ UNCHANGED <<rows, eligible, attempts, handler, session, lock, history>>
-----------------------------------------------------------------------------
(* The rest of the product.                                                 *)

\* A token expires; one that is no longer usable does not matter.
Expire(k) ==
    /\ k \in DOMAIN token /\ Usable(k)
    /\ token' = [token EXCEPT ![k].state = "expired"]
    /\ UNCHANGED <<connection, receipts, eligible, attempts, update, handler, session, lock,
                   history, bounds>>

\* Telegram refuses a delivery for good: the connection of its revision breaks.
Break(u) ==
    /\ connection[u].status = "CONNECTED"
    /\ connection' = [connection EXCEPT ![u].status = "BROKEN"]
    /\ Change
    /\ UNCHANGED <<token, receipts, eligible, attempts, update, handler, session, lock, history>>

\* The account is disabled, or enabled again.
ChangeEligibility(u) ==
    /\ eligible' = IF u \in eligible THEN eligible \ {u} ELSE eligible \union {u}
    /\ Change
    /\ UNCHANGED <<rows, attempts, update, handler, session, lock, history>>
-----------------------------------------------------------------------------
Finish(s) == RevokeLinks(s) \/ CreateLink(s) \/ Disconnect(s)

Handle(h) ==
    ReadToken(h) \/ ReadUser(h) \/ ReadOthers(h) \/ Link(h) \/ LinkConflicts(h)

Next ==
    \/ \E s \in Sessions, u \in Users : BeginLink(s, u) \/ BeginDisconnect(s, u)
    \/ \E s \in Sessions : Finish(s)
    \/ \E u \in Users : WindowEnds(u) \/ Break(u) \/ ChangeEligibility(u)
    \/ \E i \in Updates, k \in DOMAIN token, t \in TelegramUsers : Send(i, k, t)
    \/ \E h \in Handlers, i \in Updates : Receive(h, i)
    \/ \E h \in Handlers : Handle(h) \/ HandlerFails(h)
    \/ \E i \in Updates : AnswerLost(i)
    \/ \E k \in Tokens : Expire(k)

Spec == Init /\ [][Next]_vars
-----------------------------------------------------------------------------
(* Properties.                                                              *)

\* The rows have their types, and a call holds the lock it has taken.
TypeOK ==
    /\ connection \in [Users -> [status : {"NONE", "CONNECTED", "BROKEN", "DISCONNECTED"},
                                 telegram : TelegramUsers \union {NoTelegram}, revision : Nat]]
    /\ \A k \in DOMAIN token : token[k].user \in Users
         /\ token[k].state \in {"usable", "consumed", "revoked", "expired"}
    /\ receipts \subseteq Updates /\ eligible \subseteq Users
    /\ \A u \in Users : attempts[u] \in 0..LinkLimit
    /\ \A s \in Sessions : session[s].pc \in {"link", "create"} => lock[session[s].user] = s

\* A Telegram account is connected to one user at most, also when two users
\* open their links with it at once.
ExclusiveAccounts ==
    \A u, w \in Users : connection[u].status = "CONNECTED" /\ connection[w].status = "CONNECTED"
        => u = w \/ connection[u].telegram # connection[w].telegram

\* A user has one usable token at most, also when two are asked for at once.
OneUsableToken == \A u \in Users : \A k, l \in UsableTokens(u) : k = l

\* A revision never stands for two Telegram accounts: a delivery planned for
\* one goes to no other, however links, disconnections and failures overlap.
RevisionNamesAccount ==
    \A m, n \in named : m[1] = n[1] /\ m[2] = n[2] => m[3] = n[3]

\* A message is decided once, although Telegram delivers it again.
DecidedOnce == \A d, e \in decisions : d[1] = e[1] => d[2] = e[2]
=============================================================================
