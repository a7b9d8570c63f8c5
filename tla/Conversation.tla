---------------------------- MODULE Conversation ----------------------------
(***************************************************************************)
(* What the two ends of a chat show: the message list of                   *)
(* apps/web/src/pages/Chats.tsx, lib/chatReducer.ts, and the sending,      *)
(* receiving and receipts of hooks/useQueueTransport.ts.                   *)
(*                                                                         *)
(* One user has several chats and is at one of them at a time; the other   *)
(* end of each is a page that stays at it.  The queues are as QueueDelivery*)
(* has them: in the order of the pushes, and each frame taken once.  A     *)
(* handshake is one step (see Handshake), and a frame opens in the session *)
(* it was sealed in, in any order (see Ratchet).                           *)
(*                                                                         *)
(* PageProofs extends this module beside DeviceLease, so that the names    *)
(* both would have carry a prefix here.                                    *)
(***************************************************************************)
EXTENDS Integers, Sequences, FiniteSets, FiniteSetsExt

CONSTANTS
  Nothing,        \* an optional value that is absent
  Chat,
  Id,             \* the ids of the messages
  MaxEvents       \* bound of the model: payloads that are sent, times the user
                  \* goes to a chat, and pushes and receipts that are lost,
                  \* together

Side == {"here", "there"}
Status == {"sending", "sent", "failed", "delivered", "read", Nothing}
Item == [own : BOOLEAN, text : Nat, reacted : SUBSET Side, status : Status,
         outSeq : Nat \cup {Nothing}]

ASSUME ConversationAssumption ==
  /\ "here" \notin Chat
  /\ Nothing \notin Chat \cup Id \cup Nat \cup Item
  /\ MaxEvents \in Nat

Other(s) == IF s = "here" THEN "there" ELSE "here"

\* The pages: the user's, and for every chat its other end's.
Page == {"here"} \cup Chat
PageOf(c, s) == IF s = "here" THEN "here" ELSE c

VARIABLES
  active,       \* activeChatId of the user
  sessions,     \* sessions[c][s]: the session of end s, 0 for none
  items,        \* items[c][s][id]: the message as end s shows it, or Nothing
  written,      \* the ids in use
  pushes,       \* sendPayload: pushes under way, and answers to them
  queue,        \* queue[c][s]: all that was pushed to end s; seq is the place
  taken,        \* taken[c][s]: how much of it s has received
  timers,       \* receipts that wait for their delay
  cursors,      \* receipts in the receipt queues
  pendingRead,  \* pendingReadSeqRef of each page
  readSent,     \* readUpToSentRef of each page
  decrypted,    \* history: decrypted[c][s]: the seqs that end s has opened
  seen,         \* history: those it had before it in a focused window
  late,         \* history: the messages whose answer came after a receipt
  forgone,      \* history: the receipts that were given up
  disturbed,    \* history: chats in which a payload was lost, or overtook
                \* another about the same message
  payloads,     \* history: number of payloads
  switches,     \* history: number of times the user went to a chat
  faults        \* history: number of pushes that failed and receipts lost

lists == <<items, written>>
transport == <<sessions, pushes, queue, taken>>
receipts == <<timers, cursors, pendingRead, readSent>>
history == <<decrypted, seen, late, forgone, disturbed, payloads, switches,
             faults>>
conversationVars == <<active, lists, transport, receipts, history>>

PerEnd(x) == [c \in Chat |-> [s \in Side |-> x]]

ConversationInit ==
  /\ active = Nothing
  /\ sessions = PerEnd(0)
  /\ items = PerEnd([i \in Id |-> Nothing])
  /\ written = {} /\ pushes = {}
  /\ queue = PerEnd(<<>>) /\ taken = PerEnd(0)
  /\ timers = {} /\ cursors = {}
  /\ pendingRead = [p \in Page |-> 0] /\ readSent = [p \in Page |-> 0]
  /\ decrypted = PerEnd({}) /\ seen = PerEnd({})
  /\ late = {} /\ forgone = {} /\ disturbed = {}
  /\ payloads = 0 /\ switches = 0 /\ faults = 0

\* The chat that page p is at.
At(p) == IF p = "here" THEN active ELSE p
IsAt(c, s) == At(PageOf(c, s)) = c

Bounded == payloads + switches + faults < MaxEvents

-----------------------------------------------------------------------------
(* Coming to a chat *)

\* The session in memory is dropped; the cursors of the page are kept.
Select(c) ==
  /\ active # c /\ Bounded
  /\ switches' = switches + 1
  /\ active' = c
  /\ sessions' = [d \in Chat |-> [sessions[d] EXCEPT !["here"] = 0]]
  /\ UNCHANGED <<lists, pushes, queue, taken, receipts, decrypted, seen, late,
                 forgone, disturbed, payloads, faults>>

\* A handshake puts a new session in place of any the other end has.
Handshake(c) ==
  /\ active = c /\ sessions[c]["here"] = 0
  /\ sessions' = [sessions EXCEPT ![c] = [s \in Side |-> switches]]
  /\ UNCHANGED <<active, lists, pushes, queue, taken, receipts, history>>

-----------------------------------------------------------------------------
(* What a payload does to a list *)

Message(own, number) ==
  [own |-> own, text |-> number, reacted |-> {},
   status |-> IF own THEN "sending" ELSE Nothing, outSeq |-> Nothing]

\* Mutant: all reactions give way, whoever made them.
ReactedOver(m, who, add) == [m EXCEPT !.reacted = IF add THEN {who} ELSE {}]

\* One reaction of each end at a time: an earlier one of who is taken away.
Reacted(m, who, add) ==
  [m EXCEPT !.reacted = IF add THEN @ \cup {who} ELSE @ \ {who}]

\* Message m of end s after payload p of end from.  A text whose id is there
\* already is dropped, and so is anything about a message that is not there.
Effect(m, s, from, p) ==
  CASE p.kind = "text" ->
         IF m = Nothing THEN Message(s = from, p.number) ELSE m
    [] p.kind # "text" /\ m = Nothing -> Nothing
    [] p.kind = "edit" /\ m # Nothing -> [m EXCEPT !.text = p.number]
    [] p.kind = "delete" /\ m # Nothing -> Nothing
    [] p.kind = "react" /\ m # Nothing -> Reacted(m, from, TRUE)
    [] p.kind = "unreact" /\ m # Nothing -> Reacted(m, from, FALSE)

\* The list of end s after it.
Applied(list, s, from, p) ==
  [list EXCEPT ![p.target] = Effect(@, s, from, p)]

-----------------------------------------------------------------------------
(* Sending *)

\* What the page offers: a text with a new id, edits and deletions of one's own
\* messages, and reactions to any.
Offered(c, s, kind, i) ==
  LET m == items[c][s][i]
  IN  CASE kind = "text" -> i \notin written
        [] kind \in {"edit", "delete"} -> m # Nothing /\ m.own
        [] kind = "react" -> m # Nothing /\ s \notin m.reacted
        [] kind = "unreact" -> m # Nothing /\ s \in m.reacted

SetStatus(c, s, i, status, seq) ==
  items' = [items EXCEPT ![c][s][i] =
    IF @ = Nothing THEN @ ELSE [@ EXCEPT !.status = status, !.outSeq = seq]]

\* handleSend, handleEditMessage, handleDeleteMessage, handleReact: the list of
\* the sender changes at once.  Without a session nothing is sent, and only a
\* text shows that it failed.  (As a bound, the other ends send in a session.)
Send(c, s, kind, i) ==
  /\ IsAt(c, s) /\ Bounded
  /\ Offered(c, s, kind, i)
  /\ s = "there" => sessions[c][s] # 0
  /\ LET p == [chat |-> c, from |-> s, kind |-> kind, target |-> i,
               number |-> IF kind = "edit" THEN payloads ELSE 0,
               session |-> sessions[c][s],
               at |-> "push", seq |-> Nothing]
         list == Applied(items[c][s], s, s, p)
         silent == sessions[c][s] = 0
         race == \E q \in pushes : /\ q.chat = c /\ q.from = s
                                   /\ q.target = i /\ q.at = "push"
     IN  /\ items' = [items EXCEPT ![c][s] =
              IF silent /\ kind = "text"
              THEN [list EXCEPT ![i].status = "failed"] ELSE list]
         /\ pushes' = IF silent THEN pushes ELSE pushes \cup {p}
         /\ disturbed' = IF silent \/ race
                         THEN disturbed \cup {c} ELSE disturbed
  /\ written' = written \cup {i}
  /\ payloads' = payloads + 1
  /\ UNCHANGED <<active, sessions, queue, taken, receipts, decrypted, seen, late,
                 forgone, switches, faults>>

\* The queue stores a frame; of two under way either may be the first.  Only
\* for a text is the answer of any use.
Push(p) ==
  /\ p \in pushes /\ p.at = "push"
  /\ LET c == p.chat
         to == Other(p.from)
     IN  /\ queue' = [queue EXCEPT ![c][to] = Append(@, p)]
         /\ pushes' = (pushes \ {p}) \cup
              IF p.kind = "text"
              THEN {[p EXCEPT !.at = "answer", !.seq = Len(queue[c][to]) + 1]}
              ELSE {}
  /\ UNCHANGED <<active, lists, sessions, taken, receipts, history>>

\* The answer has the seq by which receipts find the message.
PushAnswered(p) ==
  /\ p \in pushes /\ p.at = "answer"
  /\ pushes' = pushes \ {p}
  /\ SetStatus(p.chat, p.from, p.target, "sent", p.seq)
  /\ UNCHANGED <<active, written, sessions, queue, taken, receipts, history>>

\* A push fails, or only its answer does: the page cannot tell.
PushFails(p) ==
  /\ p \in pushes /\ Bounded
  /\ faults' = faults + 1
  /\ pushes' = pushes \ {p}
  /\ IF p.kind = "text" THEN SetStatus(p.chat, p.from, p.target, "failed", Nothing)
                        ELSE UNCHANGED items
  /\ disturbed' = IF p.at = "push" THEN disturbed \cup {p.chat} ELSE disturbed
  /\ UNCHANGED <<active, written, sessions, queue, taken, receipts, decrypted,
                 seen, late, forgone, payloads, switches>>

-----------------------------------------------------------------------------
(* Receiving *)

\* sendReadUpTo.
ReadTimer(p, upTo) ==
  IF upTo > readSent[p]
  THEN {[page |-> p, kind |-> "read", chat |-> At(p), upTo |-> upTo]} ELSE {}

\* Mutant: what arrives is taken for read.
CountsAsReadAlways(focused) == TRUE

CountsAsRead(focused) == focused

\* handleInboundMessage: a frame that does not open is dropped, and the queue
\* has it acknowledged all the same.
Receive(c, s, focused) ==
  /\ IsAt(c, s) /\ taken[c][s] < Len(queue[c][s])
  /\ LET seq == taken[c][s] + 1
         p == queue[c][s][seq]
         page == PageOf(c, s)
         opens == sessions[c][s] # 0 /\ p.session = sessions[c][s]
         read == CountsAsRead(focused)
     IN  /\ taken' = [taken EXCEPT ![c][s] = seq]
         /\ queue' = [queue EXCEPT ![c][s][seq] = Nothing]
         /\ IF opens
            THEN /\ items' = [items EXCEPT ![c][s] = Applied(@, s, p.from, p)]
                 /\ timers' = timers
                      \cup {[page |-> page, kind |-> "delivered", chat |-> c,
                             upTo |-> seq]}
                      \cup IF read THEN ReadTimer(page, seq) ELSE {}
                 /\ readSent' = [readSent EXCEPT
                      ![page] = IF read THEN Max({@, seq}) ELSE @]
                 /\ pendingRead' = [pendingRead EXCEPT
                      ![page] = IF read THEN @ ELSE Max({@, seq})]
                 /\ decrypted' = [decrypted EXCEPT ![c][s] = @ \cup {seq}]
                 /\ seen' = IF focused
                   THEN [seen EXCEPT ![c][s] = decrypted[c][s] \cup {seq}]
                   ELSE seen
                 /\ UNCHANGED disturbed
            ELSE /\ disturbed' = disturbed \cup {c}
                 /\ UNCHANGED <<items, timers, readSent, pendingRead, decrypted,
                                seen>>
  /\ UNCHANGED <<active, written, sessions, pushes, cursors, late, forgone,
                 payloads, switches, faults>>

\* The window of page p is focused again.
Focus(p) ==
  /\ pendingRead[p] > readSent[p]
  /\ timers' = timers \cup ReadTimer(p, pendingRead[p])
  /\ readSent' = [readSent EXCEPT ![p] = pendingRead[p]]
  /\ seen' = [c \in Chat |-> [s \in Side |->
       IF PageOf(c, s) = p /\ IsAt(c, s) THEN decrypted[c][s] ELSE seen[c][s]]]
  /\ UNCHANGED <<active, lists, transport, cursors, pendingRead, decrypted,
                 late, forgone, disturbed, payloads, switches, faults>>

\* Mutant: the message whose seq is the cursor's is left out.
CoversLess(m, upTo) == m.outSeq # Nothing /\ m.outSeq < upTo
\* Mutant: all messages are taken to be covered.
CoversAll(m, upTo) == m.outSeq # Nothing

Covers(m, upTo) == m.outSeq # Nothing /\ m.outSeq <= upTo

Marked(m, k) ==
  IF m # Nothing /\ m.own /\ Covers(m, k.upTo) /\ m.status # "read"
  THEN [m EXCEPT !.status = k.kind] ELSE m

\* handleReceipt at the sender: the messages of one's own up to the cursor, read
\* ones excepted.
Receipt(k) ==
  /\ items' = [items EXCEPT ![k.chat][k.to] = [i \in Id |-> Marked(@[i], k)]]
  /\ late' = late \cup {i \in Id :
       LET m == items[k.chat][k.to][i] IN m # Nothing /\ m.status = "sending"}

\* What a timer is to push, if the page is then at chat c.
SenderTo(p) == IF p = "here" THEN "there" ELSE "here"
CursorOf(t, c) ==
  [chat |-> c, to |-> SenderTo(t.page), kind |-> t.kind, upTo |-> t.upTo]

\* The delay is over and the receipt is pushed: a delivered cursor if its chat
\* is still the active one, a read cursor to whichever chat is.  It is handled
\* at once, or waits in the queue until the user comes back to the chat.
Fire(t) ==
  /\ t \in timers
  /\ timers' = timers \ {t}
  /\ LET now == At(t.page)
         k == CursorOf(t, now)
         drop == t.kind = "delivered" /\ t.chat # now
     IN  /\ IF drop \/ ~IsAt(now, k.to) THEN UNCHANGED <<items, late>>
            ELSE Receipt(k)
         /\ cursors' = IF drop \/ IsAt(now, k.to) THEN cursors
                       ELSE cursors \cup {k}
         /\ forgone' = IF drop THEN forgone \cup {CursorOf(t, t.chat)} ELSE forgone
  /\ UNCHANGED <<active, written, transport, pendingRead, readSent, decrypted,
                 seen, disturbed, payloads, switches, faults>>

\* The push fails, or there is no lease to push under any more: nothing repeats
\* it.
FireFails(t) ==
  /\ t \in timers /\ Bounded
  /\ faults' = faults + 1
  /\ timers' = timers \ {t}
  /\ forgone' = forgone \cup {CursorOf(t, t.chat)}
  /\ UNCHANGED <<active, lists, transport, cursors, pendingRead, readSent,
                 decrypted, seen, late, disturbed, payloads, switches>>

\* A receipt that waited longer than it is kept.
Expires(k) ==
  /\ k \in cursors /\ Bounded
  /\ faults' = faults + 1
  /\ cursors' = cursors \ {k}
  /\ forgone' = forgone \cup {k}
  /\ UNCHANGED <<active, lists, transport, timers, pendingRead, readSent,
                 decrypted, seen, late, disturbed, payloads, switches>>

\* A receipt that waited.
Collect(k) ==
  /\ k \in cursors /\ IsAt(k.chat, k.to)
  /\ cursors' = cursors \ {k}
  /\ Receipt(k)
  /\ UNCHANGED <<active, written, transport, timers, pendingRead, readSent,
                 decrypted, seen, forgone, disturbed, payloads, switches,
                 faults>>

-----------------------------------------------------------------------------
Kind == {"text", "edit", "delete", "react", "unreact"}

ConversationNext ==
  \/ \E c \in Chat :
       \/ Select(c) \/ Handshake(c)
       \/ \E s \in Side : \/ \E k \in Kind, i \in Id : Send(c, s, k, i)
                          \/ \E focused \in BOOLEAN : Receive(c, s, focused)
  \/ \E p \in pushes : Push(p) \/ PushAnswered(p) \/ PushFails(p)
  \/ \E p \in Page : Focus(p)
  \/ \E t \in timers : Fire(t) \/ FireFails(t)
  \/ \E k \in cursors : Collect(k) \/ Expires(k)

ConversationSpec == ConversationInit /\ [][ConversationNext]_conversationVars

-----------------------------------------------------------------------------
(* Properties *)

\* What the two ends of a chat have in common.
Common(m) == IF m = Nothing THEN Nothing ELSE [text |-> m.text, reacted |-> m.reacted]

Settled(c) ==
  /\ \A p \in pushes : p.chat # c
  /\ \A s \in Side : taken[c][s] = Len(queue[c][s])

\* Chats.tsx:497-517, chatReducer.ts:8.  Once nothing is under way, both ends of
\* a chat show the same messages with the same texts and reactions, whatever
\* edits, deletions and reactions of the two crossed.  It takes that nothing
\* was lost, and that no payload was pushed while another of the same end about
\* the same message was.
EndsAgreeUnlessDisturbed ==
  \A c \in Chat \ disturbed : Settled(c) =>
    \A i \in Id : Common(items[c]["here"][i]) = Common(items[c]["there"][i])

Own(c, s) == {m \in {items[c][s][i] : i \in Id} : m # Nothing /\ m.own}

\* Chats.tsx:220-238, useQueueTransport.ts:619.  A message shown as delivered or
\* read has been opened at the other end.  It takes that no frame of the chat
\* was dropped: a cursor also covers what was dropped before it; and that the
\* user was at no other chat: a read cursor goes to the chat of the moment.
DeliveredUnlessDisturbed ==
  \A c \in Chat \ disturbed, s \in Side : \A m \in Own(c, s) :
    m.status \in {"delivered", "read"} /\ switches < 2 =>
      m.outSeq \in decrypted[c][Other(s)]

\* useQueueTransport.ts:615-618.  A message is shown as read when the window of
\* the other end was focused on the chat once it was there.
ReadMeansSeen ==
  \A c \in Chat, s \in Side : \A m \in Own(c, s) :
    m.status = "read" /\ m.outSeq \in decrypted[c][Other(s)] =>
      m.outSeq \in seen[c][Other(s)]

\* The same as long as the reader has been at one chat only.
ReadMeansSeenUnlessSwitched == switches < 2 => ReadMeansSeen

\* useQueueTransport.ts:619, Chats.tsx:229.  A message that the other end has
\* opened stays at sent only for a reason of its own: its receipt is still to be
\* pushed or to be collected, a receipt came before the answer to its push, or
\* its receipt was given up, with the chat, by a push that failed, or by the
\* queue.  What happens to the receipts of other messages is none.
SentForAReason ==
  \A c \in Chat, s \in Side, i \in Id :
    LET m == items[c][s][i]
        k == [chat |-> c, to |-> s, kind |-> "delivered", upTo |-> m.outSeq]
    IN  /\ m # Nothing /\ m.own /\ m.status = "sent"
        /\ m.outSeq \in decrypted[c][Other(s)]
        => \/ \E t \in timers : CursorOf(t, t.chat) = k
           \/ k \in cursors \cup forgone
           \/ i \in late
=============================================================================
