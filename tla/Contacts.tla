------------------------------ MODULE Contacts ------------------------------
(***************************************************************************)
(* How new contacts come into the chat list of a device, and stay there:   *)
(* lib/alias.ts, hooks/useAliasInbox.ts, lib/inviteLink.ts with AuthGuard, *)
(* and the list as pages/Chats.tsx and lib/chatList.ts keep it (all of     *)
(* apps/web/src).                                                          *)
(*                                                                         *)
(* An invite link is opened in the tab of the app, in which its owner may  *)
(* have to sign in first.  The chat page reads it when it is mounted, and  *)
(* never again: of a link opened on a page that is there only the hash in  *)
(* the address bar changes, where it waits for a reload.                   *)
(*                                                                         *)
(* A request is an entry of the intro queue of a nickname and proposes a   *)
(* chat of its own.  Entries are younger than their time to live here (see *)
(* QueueDO), and nicknames are kept as AliasDO keeps them (see Alias).     *)
(* Another device of the user may have registered a nickname too.          *)
(* sealToStore awaits: what it writes is in flight for a while, and is     *)
(* lost with the page.  Polls are 15 s apart, and do not overlap here.     *)
(***************************************************************************)
EXTENDS Integers, Sequences, FiniteSets

CONSTANTS
  None,
  Nick,
  Chat,        \* bound of the model: the chats that are proposed or shared
  MaxWrites,   \* bound of the model: writes to the store under way at a time
  MaxEvents    \* bound of the model: pages and links opened, nicknames
               \* registered, alias links made and sessions ended, together

ASSUME ContactsAssumption ==
  /\ None \notin Nick \cup Chat \cup Seq(Chat)
  /\ MaxWrites \in Nat /\ MaxEvents \in Nat

VARIABLES
  intro,        \* intro[n]: the queue of requests; None if n is free
  proposed,     \* the chats that are in use
  drop,         \* the alias payload in a DeviceLinkDO, or None
  own,          \* the alias in the store
  registering,  \* the nickname whose registration is being answered
  claiming,     \* the alias that was taken from the drop and is being stored
  disk,         \* "list" and "handled" in the store
  flight,       \* the writes to the two that are under way, in their order
  signedIn,     \* there is a session capability
  link,         \* the invite in the address bar, or None
  stash,        \* the invite in sessionStorage, or None
  page,         \* the chat page is "closed", "restoring" or "open"
  list,         \* the chats of the page
  ownAlias,     \* ownAliasRef of the page, which holds on to the first it finds
  handled,      \* handledRef of the page
  handledLoaded,  \* handledLoadedRef of the page
  pending,      \* the requests the page shows
  poll,         \* what a poll under way has found, or None
  adding,       \* the chat that a request of the user proposes, or None
  wanted,       \* history: the chats made, requested, accepted, or whose link
                \* was opened, and not deleted since
  answered,     \* history: the requests accepted or declined
  shown,        \* history: how many requests the last poll saw
  disturbed,    \* history: a write or an answer was lost, two writes crossed,
                \* a link was opened over another that had not been joined, or
                \* on a page that was left before it was reloaded, or a chat
                \* was deleted that is still to be restored or joined
  raced,        \* history: the page shows a poll that an answer overtook
  events        \* history: number of events

server == <<intro, proposed, drop>>
alias == <<own, registering, claiming>>
store == <<disk, flight>>
invite == <<signedIn, link, stash>>
inbox == <<ownAlias, handled, handledLoaded, pending, poll>>
memory == <<page, list, inbox, adding>>
outcome == <<answered, shown, raced>>
vars == <<server, alias, store, invite, memory, wanted, disturbed, outcome,
          events>>

Init ==
  /\ intro = [n \in Nick |-> None] /\ proposed = {} /\ drop = None
  /\ own = None /\ registering = None /\ claiming = None
  /\ disk = [list |-> {}, handled |-> {}] /\ flight = <<>>
  /\ signedIn = FALSE /\ link = None /\ stash = None
  /\ page = "closed" /\ list = {} /\ ownAlias = None
  /\ handled = {} /\ handledLoaded = FALSE
  /\ pending = {} /\ poll = None /\ adding = None
  /\ wanted = {} /\ answered = {} /\ shown = 0
  /\ disturbed = FALSE /\ raced = FALSE
  /\ events = 0

Event == events < MaxEvents /\ events' = events + 1

-----------------------------------------------------------------------------
(* The alias *)

\* registerAlias: a free nickname gets an intro queue,
Register(n) ==
  /\ own = None /\ registering = None /\ intro[n] = None /\ Event
  /\ intro' = [intro EXCEPT ![n] = <<>>]
  /\ registering' = n
  /\ UNCHANGED <<proposed, drop, own, claiming, store, invite, memory, wanted,
                 disturbed, outcome>>

\* and the device stores it, or never knows of it when the answer is lost.
Registered(lost) ==
  /\ registering # None
  /\ own' = IF lost THEN None ELSE registering
  /\ registering' = None
  /\ UNCHANGED <<server, claiming, store, invite, memory, wanted, disturbed,
                 outcome, events>>

\* publishAliasLink of the user's other device, with an alias of its own.
PublishAliasLink(n) ==
  /\ intro[n] = None /\ drop = None /\ Event
  /\ intro' = [intro EXCEPT ![n] = <<>>]
  /\ drop' = n
  /\ UNCHANGED <<proposed, alias, store, invite, memory, wanted, disturbed,
                 outcome>>

\* The settings page is opened with the link: claimAliasLink takes the payload,
OpenAliasLink ==
  /\ drop # None /\ page = "closed" /\ signedIn
  /\ registering = None /\ claiming = None
  /\ drop' = None
  /\ claiming' = drop
  /\ UNCHANGED <<intro, proposed, own, registering, store, invite, memory,
                 wanted, disturbed, outcome, events>>

\* and stores it over any alias that the device had, or the page is left
\* before that.
ClaimAliasLink(lost) ==
  /\ claiming # None
  /\ own' = IF lost THEN own ELSE claiming
  /\ claiming' = None
  /\ UNCHANGED <<server, registering, store, invite, memory, wanted, disturbed,
                 outcome, events>>

\* resolveAlias and sendContactRequest of somebody else, who proposes a new
\* chat.
Introduce(n, c) ==
  /\ intro[n] # None /\ c \notin proposed
  /\ proposed' = proposed \cup {c}
  /\ intro' = [intro EXCEPT ![n] = Append(@, c)]
  /\ UNCHANGED <<drop, alias, store, invite, memory, wanted, disturbed, outcome,
                 events>>

-----------------------------------------------------------------------------
(* Invite links and the session *)

\* AuthProvider: login, and logout or the end of the session.
SignIn ==
  /\ ~signedIn
  /\ signedIn' = TRUE
  /\ UNCHANGED <<server, alias, store, link, stash, memory, wanted, disturbed,
                 outcome, events>>

SignOut ==
  /\ signedIn /\ page = "closed" /\ Event
  /\ signedIn' = FALSE
  /\ UNCHANGED <<server, alias, store, link, stash, memory, wanted, disturbed,
                 outcome>>

\* The user opens the link to chat c, which somebody has made, in a tab without
\* the chat page or on the page.  Another link in the address bar is replaced,
\* and one that was stashed is overwritten when its turn comes.
OpenLink(c) ==
  /\ Event
  /\ link' = c
  /\ proposed' = proposed \cup {c}
  /\ wanted' = wanted \cup {c}
  /\ disturbed' = (disturbed \/ ~({link, stash} \subseteq {None, c}))
  /\ UNCHANGED <<intro, drop, alias, store, signedIn, stash, memory, outcome>>

\* Mutant: the redirect takes the link with it.
StashedNot == stash

\* stashPendingInviteFromCurrentLocation
Stashed == link

\* AuthGuard sends a visitor without a session to the gate, and the address
\* with the invite is gone.
Redirect ==
  /\ link # None /\ ~signedIn
  /\ stash' = Stashed
  /\ link' = None
  /\ UNCHANGED <<server, alias, store, signedIn, memory, wanted, disturbed,
                 outcome, events>>

-----------------------------------------------------------------------------
(* The chat list *)

\* A write lands; two of them may cross.
Land(i) ==
  /\ flight' = [j \in 1 .. Len(flight) - 1 |->
                 IF j < i THEN flight[j] ELSE flight[j + 1]]
  /\ disk' = [disk EXCEPT ![flight[i].key] = flight[i].value]
  /\ disturbed' = (disturbed \/ \E j \in 1 .. i - 1 :
                                 flight[j].key = flight[i].key)
  /\ UNCHANGED <<server, alias, invite, memory, wanted, outcome, events>>

\* Of the link in the address bar and the one that was stashed, the first: it
\* is used up.
Invited == IF link # None THEN link ELSE stash

\* The chat page is opened, and the invited chat is in the list before the list
\* was restored.
OpenPage ==
  /\ page = "closed" /\ signedIn /\ Event
  /\ page' = "restoring"
  /\ list' = {Invited} \ {None}
  /\ link' = None
  /\ stash' = IF link # None THEN stash ELSE None
  /\ UNCHANGED <<server, alias, store, signedIn, inbox, adding, wanted,
                 disturbed, outcome>>

\* Mutant: the restored list takes the place of what is there.
MergedOver == disk.list

\* The restored chats, and those that came while they were being restored.
Merged == disk.list \cup list

\* saveChatList: what is written is fixed when the write begins, and nothing is
\* written before the list was restored.
Saved(chats) ==
  IF page = "open" /\ chats # list
  THEN Append(flight, [key |-> "list", value |-> chats]) ELSE flight

\* Room for what is being written: a bound of the model.
Room == Len(flight') <= MaxWrites

Restore ==
  /\ page = "restoring"
  /\ page' = "open"
  /\ list' = Merged
  /\ flight' = Append(flight, [key |-> "list", value |-> Merged])
  /\ Room
  /\ UNCHANGED <<server, alias, disk, invite, inbox, adding, wanted, disturbed,
                 outcome, events>>

\* The list of the page changes, and is saved.
Becomes(chats) ==
  /\ list' = chats
  /\ flight' = Saved(chats)
  /\ Room

\* handleCreateInvite: a new chat, which others can join by its link.
CreateInvite(c) ==
  /\ page # "closed" /\ c \notin proposed
  /\ proposed' = proposed \cup {c}
  /\ wanted' = wanted \cup {c}
  /\ Becomes(list \cup {c})
  /\ UNCHANGED <<intro, drop, alias, disk, invite, page, inbox, adding,
                 disturbed, outcome, events>>

\* handleAddByAlias: the request is sent to somebody's intro queue,
AddByAlias(c) ==
  /\ page # "closed" /\ adding = None /\ c \notin proposed
  /\ proposed' = proposed \cup {c}
  /\ wanted' = wanted \cup {c}
  /\ adding' = c
  /\ UNCHANGED <<intro, drop, alias, store, invite, page, list, inbox, disturbed,
                 outcome, events>>

\* and the chat that it proposes comes into the list when it was answered.
Added ==
  /\ adding # None
  /\ Becomes(list \cup {adding})
  /\ adding' = None
  /\ UNCHANGED <<server, alias, disk, invite, page, inbox, wanted, disturbed,
                 outcome, events>>

\* handleDeleteChat, as far as the list goes (see Linking for the records).
DeleteChat(c) ==
  /\ c \in list
  /\ Becomes(list \ {c})
  /\ wanted' = wanted \ {c}
  /\ disturbed' = (\/ disturbed \/ c \in {link, stash}
                   \/ (page = "restoring" /\ c \in disk.list))
  /\ UNCHANGED <<server, alias, disk, invite, page, inbox, adding, outcome,
                 events>>

\* The page is reloaded, which keeps a link in the address bar for the next
\* mount to read, or it is left for another page or closed, and the link is gone.
ClosePage(reload) ==
  /\ page # "closed"
  /\ link' = IF reload THEN link ELSE None
  /\ page' = "closed" /\ list' = {} /\ ownAlias' = None
  /\ handled' = {} /\ handledLoaded' = FALSE
  /\ pending' = {} /\ poll' = None /\ adding' = None /\ flight' = <<>>
  /\ shown' = 0 /\ raced' = FALSE
  /\ disturbed' = (\/ disturbed \/ flight # <<>> \/ adding # None
                   \/ link' # link \/ (page = "restoring" /\ list # {}))
  /\ UNCHANGED <<server, alias, disk, signedIn, stash, wanted, answered, events>>

-----------------------------------------------------------------------------
(* The inbox *)

\* Mutant: a request is handled once a later one is, as an ack would have it.
UnhandledAfter(n, done) ==
  {seq \in DOMAIN intro[n] : \A k \in done : k < seq}

\* pullContactRequests: the queue keeps the entries, and the page filters them.
Unhandled(n, done) == DOMAIN intro[n] \ done

\* Mutant: what was handled before the page was opened is not loaded.
LoadedNone == {}

\* loadHandledSeqs.
Loaded == disk.handled

\* poll: what earlier runs of the page have handled is loaded by the first.
Poll ==
  /\ page # "closed" /\ poll = None
  /\ ownAlias' = IF ownAlias # None THEN ownAlias ELSE own
  /\ ownAlias' # None
  /\ handled' = IF handledLoaded THEN handled ELSE Loaded
  /\ handledLoaded' = TRUE
  /\ poll' = [found |-> Unhandled(ownAlias', handled'),
              of |-> Len(intro[ownAlias'])]
  /\ UNCHANGED <<server, alias, store, invite, page, list, pending, adding,
                 wanted, disturbed, outcome, events>>

Show ==
  /\ poll # None
  /\ pending' = poll.found
  /\ shown' = poll.of
  /\ raced' = (poll.found \cap handled # {})
  /\ poll' = None
  /\ UNCHANGED <<server, alias, store, invite, page, list, ownAlias, handled,
                 handledLoaded, adding, wanted, disturbed, answered, events>>

\* handleAcceptRequest and handleDeclineRequest: markHandled, after the proposed
\* chat came into the list, if it was accepted.
Answer(seq, accept) ==
  /\ seq \in pending
  /\ LET new  == IF accept THEN {intro[ownAlias][seq]} ELSE {}
         done == handled \cup {seq}
     IN  /\ list' = list \cup new
         /\ wanted' = wanted \cup new
         /\ handled' = done
         /\ flight' = Append(Saved(list \cup new),
                             [key |-> "handled", value |-> done])
         /\ Room
  /\ pending' = pending \ {seq}
  /\ answered' = answered \cup {<<ownAlias, seq>>}
  /\ UNCHANGED <<server, alias, disk, invite, page, ownAlias, handledLoaded, poll,
                 adding, disturbed, shown, raced, events>>

Next ==
  \/ \E n \in Nick : Register(n) \/ PublishAliasLink(n)
  \/ \E lost \in BOOLEAN : Registered(lost) \/ ClaimAliasLink(lost)
  \/ OpenAliasLink
  \/ \E n \in Nick, c \in Chat : Introduce(n, c)
  \/ SignIn \/ SignOut \/ Redirect
  \/ \E c \in Chat : OpenLink(c) \/ CreateInvite(c) \/ AddByAlias(c)
  \/ \E c \in list : DeleteChat(c)
  \/ OpenPage \/ Restore \/ Added \/ Poll \/ Show
  \/ \E reload \in BOOLEAN : ClosePage(reload)
  \/ \E i \in DOMAIN flight : Land(i)
  \/ \E seq \in pending, accept \in BOOLEAN : Answer(seq, accept)

Spec == Init /\ [][Next]_vars

-----------------------------------------------------------------------------
(* Properties *)

\* The types of the variables.
TypeOK ==
  /\ intro \in [Nick -> Seq(Chat) \cup {None}] /\ proposed \subseteq Chat
  /\ {drop, own, registering, claiming, ownAlias} \subseteq Nick \cup {None}
  /\ {link, stash, adding} \subseteq Chat \cup {None}
  /\ disk \in [list : SUBSET Chat, handled : SUBSET Nat]
  /\ flight \in Seq([key : {"list"}, value : SUBSET Chat]
                     \cup [key : {"handled"}, value : SUBSET Nat])
  /\ signedIn \in BOOLEAN /\ page \in {"closed", "restoring", "open"}
  /\ list \subseteq Chat /\ handled \subseteq Nat /\ pending \subseteq Nat
  /\ handledLoaded \in BOOLEAN
  /\ poll \in [found : SUBSET Nat, of : Nat] \cup {None}
  /\ wanted \subseteq Chat /\ answered \subseteq Nick \X Nat /\ shown \in Nat
  /\ disturbed \in BOOLEAN /\ raced \in BOOLEAN /\ events \in 0 .. MaxEvents

\* Chats.tsx:81-95, inviteLink.ts:93-96.  The contacts of the user are those
\* that were made, requested, accepted or opened as a link, and not deleted
\* since: they are in the list of the page, in the list that is kept, or a link
\* still waits to be joined, over any reloads and a login in between, and there
\* are no others; unless something was disturbed.
ContactsKeptUnlessDisturbed ==
  LET waiting == {link, stash, adding} \ {None}
  IN  ~disturbed =>
        wanted = waiting \cup IF page = "open" THEN list ELSE disk.list \cup list

\* useAliasInbox.ts:68-77.  A request that was answered is not shown again, now
\* or after a reload, unless a poll was under way when it was answered, or what
\* was written of it was lost.
AnsweredHiddenUnlessRaced ==
  ~raced /\ ~disturbed => \A seq \in pending : <<ownAlias, seq>> \notin answered

\* alias.ts:395-402.  A request that a poll has seen is shown until it is
\* answered, whatever others were answered before; unless the device has answered
\* requests of another alias, which have the same numbers.
ShownUntilAnswered ==
  (\A a \in answered : a[1] = ownAlias) =>
    \A seq \in 1 .. shown : seq \in pending \/ <<ownAlias, seq>> \in answered

=============================================================================
